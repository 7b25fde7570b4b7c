---------------------------- MODULE AudioArbiter ----------------------------
(***************************************************************************)
(* What the audio diagnostics promise, without the tasks, flags and        *)
(* handles they are built from: every worker needs a fixed set of I2S      *)
(* controllers, and a worker holds all it needs or nothing.  Two workers   *)
(* that need a common controller never hold theirs at the same time        *)
(* (main.c, comments above audio_loopback_start and mic_test_start).       *)
(***************************************************************************)
CONSTANTS Worker,  \* the audio workers
          Uses     \* Uses[w]: the set of I2S controllers worker w drives

VARIABLE holders       \* the workers that hold their controllers

Conflict(v, w) == v # w /\ Uses[v] \cap Uses[w] # {}

Init == holders = {}

(* Worker w is granted its controllers: nobody who shares one holds any.   *)
Grant(w) ==
  /\ w \notin holders
  /\ \A v \in holders : ~Conflict(v, w)
  /\ holders' = holders \cup {w}

Release(w) ==
  /\ w \in holders
  /\ holders' = holders \ {w}

Next == \E w \in Worker : Grant(w) \/ Release(w)

Spec == Init /\ [][Next]_holders
=============================================================================
