------------------------ MODULE KnobDebounce_proofs ------------------------
(***************************************************************************)
(* KnobDebounce for pulses of any length: type correctness, the inductive  *)
(* invariant, and from it the law of the debouncer.                        *)
(***************************************************************************)
EXTENDS KnobDebounce, TLAPS

(* One sample of one phase keeps the counter equal to the length of the    *)
(* pulse less one, modulo 256.                                             *)
LEMMA CounterFollowsRun ==
  ASSUME NEW n \in Nat \ {0}
  PROVE  Increment((n - 1) % Wrap) = n % Wrap
BY SMT DEF Increment, Wrap

LEMMA InitInv == Init => IInv
<1> SUFFICES ASSUME Init PROVE IInv
  OBVIOUS
<1>1. TypeOK
  BY BoundAssumption DEF Init, TypeOK, Phase, Level, Wrap
<1>2. CntInv
  BY DEF Init, CntInv, Phase, Level, Wrap
<1> QED
  BY <1>1, <1>2 DEF IInv

LEMMA StepInv == IInv /\ [Next]_vars => IInv'
<1> SUFFICES ASSUME IInv, [Next]_vars PROVE IInv'
  OBVIOUS
<1>1. CASE UNCHANGED vars
  BY <1>1 DEF IInv, TypeOK, CntInv, vars
<1>2. CASE Next
  <2>1. PICK a \in Level, b \in Level : Sample(a, b)
    BY <1>2 DEF Next
  <2> DEFINE now == [p \in Phase |-> IF p = "A" THEN a ELSE b]
  <2>2. now \in [Phase -> Level]
    BY DEF Phase
  <2>3. TypeOK'
    <3>1. level' \in [Phase -> Level]
      BY <2>1, <2>2 DEF Sample
    <3>2. debounceCnt' \in [Phase -> 0..(Wrap - 1)]
      BY <2>1, <2>2, SMT DEF Sample, NextCnt, Increment, Wrap, IInv, TypeOK,
         Level
    <3>3. emitted' \in SUBSET Phase
      BY <2>1 DEF Sample
    <3>4. run' \in [Phase -> 0..MaxRun]
      BY <2>1, <2>2, BoundAssumption, SMT DEF Sample, NextRun, IInv, TypeOK,
         Level
    <3> QED
      BY <3>1, <3>2, <3>3, <3>4 DEF TypeOK
  <2>4. CntInv'
    <3> SUFFICES ASSUME NEW p \in Phase
                 PROVE  IF level'[p] = 0
                          THEN run'[p] > 0
                               /\ debounceCnt'[p] = (run'[p] - 1) % Wrap
                          ELSE run'[p] = 0 /\ debounceCnt'[p] = 0
      BY DEF CntInv
    <3>1. /\ level'[p] = now[p]
          /\ debounceCnt'[p] = NextCnt(p, now[p])
          /\ run'[p] = NextRun(p, now[p])
      BY <2>1 DEF Sample
    <3>2. run[p] \in Nat /\ level[p] \in Level /\ now[p] \in Level
      BY <2>2, BoundAssumption DEF IInv, TypeOK
    <3>3. CASE now[p] = 1
      BY <3>1, <3>3 DEF NextCnt, NextRun
    <3>4. CASE now[p] = 0 /\ level[p] = 1
      <4>1. run[p] = 0
        BY <3>4 DEF IInv, CntInv
      <4> QED
        BY <3>1, <3>4, <4>1, SMT DEF NextCnt, NextRun, Wrap
    <3>5. CASE now[p] = 0 /\ level[p] = 0
      <4>1. run[p] > 0 /\ debounceCnt[p] = (run[p] - 1) % Wrap
        BY <3>5 DEF IInv, CntInv
      <4>2. Increment(debounceCnt[p]) = run[p] % Wrap
        BY <4>1, <3>2, CounterFollowsRun
      <4> QED
        BY <3>1, <3>2, <3>5, <4>1, <4>2, SMT DEF NextCnt, NextRun
    <3> QED
      BY <3>2, <3>3, <3>4, <3>5 DEF Level
  <2> QED
    BY <2>3, <2>4 DEF IInv
<1> QED
  BY <1>1, <1>2

(* The counter of a phase is the length of its pulse less one, modulo 256. *)
THEOREM InvariantHolds == Spec => []IInv
BY InitInv, StepInv, PTL DEF Spec

(* Every variable stays in its type, however long a pulse lasts.           *)
THEOREM TypeCorrect == Spec => []TypeOK
<1>1. IInv => TypeOK
  BY DEF IInv
<1> QED
  BY <1>1, InvariantHolds, PTL

(* What one step says of a phase: it is counted exactly if its pulse ends  *)
(* here with the right length.                                             *)
LEMMA StepLaw ==
  ASSUME IInv, Next, NEW p \in Phase
  PROVE  p \in emitted' <=> Ends(p) /\ run[p] % Wrap >= DebounceTicks
<1>1. PICK a \in Level, b \in Level : Sample(a, b)
  BY DEF Next
<1> DEFINE now == IF p = "A" THEN a ELSE b
<1>2. /\ p \in emitted' <=> Emits(p, now)
      /\ run'[p] = NextRun(p, now)
  BY <1>1 DEF Sample
<1>3. run[p] \in Nat /\ level[p] \in Level /\ now \in Level
  BY BoundAssumption DEF IInv, TypeOK
<1>4. Ends(p) <=> now = 1 /\ run[p] > 0
  BY <1>2, <1>3, SMT DEF Ends, NextRun, Level
<1>5. CASE level[p] = 1
  <2>1. run[p] = 0
    BY <1>5 DEF IInv, CntInv
  <2> QED
    BY <1>2, <1>4, <1>5, <2>1 DEF Emits
<1>6. CASE level[p] = 0
  <2>1. run[p] > 0 /\ debounceCnt[p] = (run[p] - 1) % Wrap
    BY <1>6 DEF IInv, CntInv
  <2>2. Increment(debounceCnt[p]) = run[p] % Wrap
    BY <2>1, <1>3, CounterFollowsRun
  <2> QED
    BY <1>2, <1>4, <1>6, <2>1, <2>2 DEF Emits
<1> QED
  BY <1>3, <1>5, <1>6 DEF Level

(* The debouncer counts a pulse of n samples iff n modulo 256 is at least  *)
(* two, for every n.                                                       *)
THEOREM LawOfDebouncing == Spec => PulseLaw
<1>1. IInv /\ [Next]_vars =>
        [\A p \in Phase : p \in emitted' <=>
           Ends(p) /\ run[p] % Wrap >= DebounceTicks]_vars
  BY StepLaw
<1> QED
  BY <1>1, InvariantHolds, PTL DEF Spec, PulseLaw
=============================================================================
