--------------------------- MODULE MCAudioWorkers ---------------------------
(* Model-checking instance of AudioWorkers.  The three workers and two     *)
(* controllers are those of the board; only the number of hand-off polls   *)
(* is reduced, so that the hand-off times out as well as succeeds.         *)
EXTENDS AudioWorkers
=============================================================================
