---------------------------- MODULE CaptureStore ----------------------------
(***************************************************************************)
(* What a user of the recorder is promised, with no threads, files or      *)
(* outputs in it: a capture is a log of request/response pairs.  One       *)
(* capture records at a time, a log never loses a pair, and only the log   *)
(* of the recording capture grows.  A capture ends by being sealed, or by  *)
(* the daemon dying, which leaves what was kept.  CaptureManager           *)
(* implements this store as long as stops do not overlap.                  *)
(***************************************************************************)
CONSTANTS Requests, Names

VARIABLES
  running,  \* the daemon is up
  phase,    \* [Names -> Phases]
  kept      \* [Names -> SUBSET Requests]: the pairs that can be read back

storeVars == <<running, phase, kept>>

\* "spoiled": the directory was made but the capture could not be started, or
\* the daemon died before it was sealed; either way the name is taken.
Phases == {"unused", "recording", "sealed", "spoiled"}

StoreInit ==
  /\ running = TRUE
  /\ phase = [n \in Names |-> "unused"]
  /\ kept = [n \in Names |-> {}]

Begin(n) ==
  /\ running
  /\ \A m \in Names : phase[m] # "recording"
  /\ phase[n] = "unused"
  /\ phase' = [phase EXCEPT ![n] = "recording"]
  /\ UNCHANGED <<running, kept>>

Spoil(n) ==
  /\ running
  /\ phase[n] = "unused"
  /\ phase' = [phase EXCEPT ![n] = "spoiled"]
  /\ UNCHANGED <<running, kept>>

Keep(n, pairs) ==
  /\ running
  /\ phase[n] = "recording"
  /\ kept' = [kept EXCEPT ![n] = @ \cup pairs]
  /\ UNCHANGED <<running, phase>>

Seal(n) ==
  /\ running
  /\ phase[n] = "recording"
  /\ phase' = [phase EXCEPT ![n] = "sealed"]
  /\ UNCHANGED <<running, kept>>

Die ==
  /\ running
  /\ running' = FALSE
  /\ phase' = [n \in Names |-> IF phase[n] = "recording" THEN "spoiled" ELSE phase[n]]
  /\ UNCHANGED kept

Return ==
  /\ ~running
  /\ running' = TRUE
  /\ UNCHANGED <<phase, kept>>

StoreNext ==
  \/ \E n \in Names : Begin(n) \/ Spoil(n) \/ Seal(n)
  \/ \E n \in Names, pairs \in SUBSET Requests : Keep(n, pairs)
  \/ Die
  \/ Return

StoreSpec == StoreInit /\ [][StoreNext]_storeVars
=============================================================================
