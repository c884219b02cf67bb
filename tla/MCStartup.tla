------------------------------ MODULE MCStartup ------------------------------
(* A small instance of Startup.  Processes and ports are interchangeable. *)
EXTENDS Startup, TLC

Symmetry == Permutations(Daemons) \cup Permutations(Ports)
==============================================================================
