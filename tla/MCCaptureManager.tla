-------------------------- MODULE MCCaptureManager --------------------------
(* Small instances of CaptureManager.  No safety property tells one pair,  *)
(* or one capture name, from another.                                      *)
EXTENDS CaptureManager, TLC

Symmetry == Permutations(Requests) \cup Permutations(Names)
=============================================================================
