------------------------- MODULE EncoderPath_proofs -------------------------
(***************************************************************************)
(* EncoderPath for any number of turns: type correctness, that a page is   *)
(* never moved in a direction the bezel was not turned in, and that what   *)
(* was turned is what is applied while the tasks' accesses do not overlap. *)
(***************************************************************************)
EXTENDS EncoderPath, TLAPS

(* The sum of a set of bits, and of those the task has taken and not yet   *)
(* added to encoder_steps.                                                 *)
Of(b) == (IF "right" \in b THEN 1 ELSE 0) - (IF "left" \in b THEN 1 ELSE 0)

Taken ==
  CASE taskPc = "wait"                  -> 0
    [] taskPc \in {"left", "storeLeft"} -> Of(event)
    [] OTHER                            -> Of(event \ {"left"})

(* While the accesses of two tasks do not overlap, what was loaded or      *)
(* copied is what is there, and no turn is lost on its way.                *)
Undisturbed ==
  /\ applied + steps + Taken + Of(bits) = accepted
  /\ uiPc = "reset" => copied = steps
  /\ taskPc \in {"storeLeft", "storeRight"} => loaded = steps

AccountInv ==
  /\ \A d \in Direction : taskPc = Store(d) => d \in event
  /\ disturbed \/ Undisturbed

Inductive == IInv /\ AccountInv

LEMMA OfBits ==
  /\ Of({}) = 0
  /\ \A b \in SUBSET Direction : Of(b) \in Int
  /\ \A b \in SUBSET Direction, d \in Direction :
       /\ Of(b \cup {d}) = Of(b) + (IF d \in b THEN 0 ELSE Delta(d))
       /\ Of(b \ {d}) = Of(b) - (IF d \in b THEN Delta(d) ELSE 0)
BY SMT DEF Of, Delta, Direction

LEMMA InitInv == Init => Inductive
<1> SUFFICES ASSUME Init PROVE Inductive
  OBVIOUS
<1> USE DEF Init
<1>1. disturbed \in BOOLEAN
  BY Zenon
<1>2. TypeOK
  BY <1>1, BoundAssumption DEF TypeOK
<1>3. SideInv
  BY DEF SideInv, Direction, Store, Towards
<1>4. AccountInv
  BY OfBits DEF AccountInv, Undisturbed, Taken, Store
<1> QED BY <1>2, <1>3, <1>4 DEF Inductive, IInv

(* Each action of the three tasks keeps the invariant.                     *)

LEMMA TurnInv == ASSUME Inductive, NEW d \in Direction, Turn(d) PROVE Inductive'
<1> USE DEF Inductive, IInv
<1>1. TypeOK'
  <2>1. disturbed' \in BOOLEAN
    BY Zenon DEF Turn
  <2>2. accepted' \in Int
    BY DEF Turn, TypeOK, Delta
  <2> QED BY <2>1, <2>2, BoundAssumption, SMT DEF TypeOK, Turn, task, lvgl, Direction
<1>2. SideInv'
  <2> SUFFICES ASSUME NEW s \in Direction, turned'[s] = 0
               PROVE  /\ s \notin bits' \cup event'
                      /\ taskPc' # Store(s)
                      /\ \A n \in {loaded', steps', copied', applied'} :
                           ~Towards(s, n)
    BY DEF SideInv, Store, Towards
  <2>1. s # d /\ turned[s] = 0
    BY BoundAssumption, SMT DEF Turn, TypeOK
  <2> QED
    BY <2>1, SMT DEF SideInv, Turn, task, lvgl
<1>3. AccountInv'
  <2> DEFINE added == IF d \in bits THEN 0 ELSE Delta(d)
  <2>1. Of(bits') = Of(bits) + added /\ added \in Int
    <3>1. bits' = bits \cup {d} /\ bits \in SUBSET Direction
      BY DEF Turn, TypeOK
    <3>2. Of(bits \cup {d}) = Of(bits) + added
      BY <3>1, OfBits
    <3>3. added \in Int
      BY DEF Delta
    <3> QED BY <3>1, <3>2, <3>3
  <2>2. Taken' = Taken /\ UNCHANGED <<taskPc, event, loaded, steps, uiPc, copied, applied>>
    BY DEF Turn, task, lvgl, Taken
  <2>3. CASE Settled
    <3>1. accepted' = applied + added
      BY <2>3 DEF Turn
    <3>2. steps = 0 /\ Taken = 0 /\ Of(bits) = 0 /\ taskPc = "wait" /\ uiPc = "idle"
      BY <2>3, OfBits DEF Settled, Taken
    <3>3. applied' + steps' + Taken' + Of(bits') = accepted'
      BY <2>1, <2>2, <3>1, <3>2 DEF TypeOK
    <3> QED BY <2>2, <3>2, <3>3 DEF AccountInv, Undisturbed, Store
  <2>4. CASE ~Settled
    <3>1. accepted' = accepted + added /\ (disturbed' \/ ~disturbed)
      BY <2>4 DEF Turn
    <3>2. CASE disturbed'
      BY <2>2, <3>2 DEF AccountInv
    <3>3. CASE Undisturbed
      <4>1. Taken \in Int /\ Of(bits) \in Int
        BY OfBits DEF Taken, TypeOK
      <4>2. applied' + steps' + Taken' + Of(bits') = accepted'
        BY <2>1, <2>2, <3>1, <3>3, <4>1 DEF TypeOK, Undisturbed
      <4> QED BY <2>2, <3>3, <4>2 DEF AccountInv, Undisturbed
    <3> QED BY <3>1, <3>2, <3>3 DEF AccountInv
  <2> QED BY <2>3, <2>4
<1> QED
  BY <1>1, <1>2, <1>3

(* The task and the timer.                                                 *)
LEMMA StepTypeAndSide ==
  ASSUME IInv, Task \/ Timer \/ ShowMenu PROVE IInv'
<1>1. CASE TakeBits
  BY <1>1, SMT DEF IInv, TypeOK, SideInv, TakeBits, Store, Towards, lvgl,
     account, Direction
<1>2. ASSUME NEW d \in Direction, Skip(d) PROVE IInv'
  BY <1>2, SMT DEF IInv, TypeOK, SideInv, Skip, After, Store, Towards, lvgl,
     account, Direction
<1>3. ASSUME NEW d \in Direction, LoadSteps(d) PROVE IInv'
  BY <1>3, SMT DEF IInv, TypeOK, SideInv, LoadSteps, Store, Towards, lvgl,
     account, Direction
<1>4. ASSUME NEW d \in Direction, StoreSteps(d) PROVE IInv'
  <2>1. disturbed' \in BOOLEAN
    BY <1>4, Zenon DEF StoreSteps
  <2>2. TypeOK'
    BY <1>4, <2>1, SMT DEF IInv, TypeOK, StoreSteps, After, Delta, lvgl, Direction
  <2>3. SideInv'
    BY <1>4, SMT DEF IInv, TypeOK, SideInv, StoreSteps, After, Delta, Store,
       Towards, lvgl, Direction
  <2> QED BY <2>2, <2>3 DEF IInv
<1>5. CASE CopySteps
  BY <1>5, SMT DEF IInv, TypeOK, SideInv, CopySteps, Store, Towards, task,
     account, Direction
<1>6. CASE ResetAndApply
  <2>1. disturbed' \in BOOLEAN
    BY <1>6, Zenon DEF ResetAndApply
  <2>2. TypeOK'
    BY <1>6, <2>1, SMT DEF IInv, TypeOK, ResetAndApply, task
  <2>3. SideInv'
    BY <1>6, SMT DEF IInv, TypeOK, SideInv, ResetAndApply, Store, Towards, task,
       Direction
  <2> QED BY <2>2, <2>3 DEF IInv
<1>7. CASE ShowMenu
  <2>1. disturbed' \in BOOLEAN
    BY <1>7, Zenon DEF ShowMenu
  <2>2. TypeOK'
    BY <1>7, <2>1, SMT DEF IInv, TypeOK, ShowMenu, task, lvgl
  <2>3. SideInv'
    BY <1>7, SMT DEF IInv, TypeOK, SideInv, ShowMenu, Store, Towards, task, lvgl,
       Direction
  <2> QED BY <2>2, <2>3 DEF IInv
<1> QED
  BY <1>1, <1>2, <1>3, <1>4, <1>5, <1>6, <1>7 DEF Task, Timer

LEMMA TaskAccount == ASSUME Inductive, Task PROVE AccountInv'
<1> USE DEF Inductive, IInv
<1>1. /\ event \in SUBSET Direction /\ bits \in SUBSET Direction
      /\ Of(event) \in Int /\ Of(bits) \in Int /\ Of(event \ {"left"}) \in Int
      /\ steps \in Int /\ applied \in Int /\ accepted \in Int
  BY OfBits DEF TypeOK
<1>2. CASE TakeBits
  <2>1. /\ taskPc = "wait" /\ taskPc' = "left" /\ event' = bits /\ bits' = {}
        /\ UNCHANGED <<loaded, steps, uiPc, copied, applied, accepted, disturbed>>
    BY <1>2 DEF TakeBits, lvgl, account
  <2>2. Taken = 0 /\ Taken' = Of(bits) /\ Of(bits') = 0
    BY <2>1, OfBits DEF Taken
  <2>3. CASE disturbed
    BY <2>1, <2>3 DEF AccountInv, Store
  <2>4. CASE Undisturbed
    <3>1. Undisturbed'
      BY <1>1, <2>1, <2>2, <2>4 DEF Undisturbed
    <3> QED BY <2>1, <3>1 DEF AccountInv, Store
  <2> QED BY <2>3, <2>4 DEF AccountInv
<1>3. ASSUME NEW d \in Direction, Skip(d) PROVE AccountInv'
  <2>1. /\ taskPc = d /\ d \notin event /\ taskPc' = After(d)
        /\ UNCHANGED <<bits, event, loaded, steps, uiPc, copied, applied,
                       accepted, disturbed>>
    BY <1>3 DEF Skip, lvgl, account
  <2>2. taskPc' \notin {"storeLeft", "storeRight"} /\ Taken' = Taken
    <3>1. CASE d = "left"
      <4>1. event \ {"left"} = event
        BY <2>1, <3>1
      <4> QED BY <2>1, <3>1, <4>1 DEF Taken, After
    <3>2. CASE d = "right"
      <4>1. event \ {"left"} = {}
        BY <1>1, <2>1, <3>2 DEF Direction
      <4> QED BY <2>1, <3>2, <4>1, OfBits DEF Taken, After
    <3> QED BY <3>1, <3>2 DEF Direction
  <2>3. CASE disturbed
    BY <2>1, <2>2, <2>3 DEF AccountInv, Store
  <2>4. CASE Undisturbed
    <3>1. Undisturbed'
      BY <2>1, <2>2, <2>4 DEF Undisturbed
    <3> QED BY <2>2, <3>1 DEF AccountInv, Store
  <2> QED BY <2>3, <2>4 DEF AccountInv
<1>4. ASSUME NEW d \in Direction, LoadSteps(d) PROVE AccountInv'
  <2>1. /\ taskPc = d /\ d \in event /\ taskPc' = Store(d) /\ loaded' = steps
        /\ UNCHANGED <<bits, event, steps, uiPc, copied, applied, accepted,
                       disturbed>>
    BY <1>4 DEF LoadSteps, lvgl, account
  <2>2. Taken' = Taken
    BY <2>1 DEF Taken, Store, Direction
  <2>3. \A e \in Direction : taskPc' = Store(e) => e \in event'
    BY <2>1 DEF Store, Direction
  <2>4. CASE disturbed
    BY <2>1, <2>3, <2>4 DEF AccountInv
  <2>5. CASE Undisturbed
    <3>1. Undisturbed'
      BY <2>1, <2>2, <2>5 DEF Undisturbed
    <3> QED BY <2>3, <3>1 DEF AccountInv
  <2> QED BY <2>4, <2>5 DEF AccountInv
<1>5. ASSUME NEW d \in Direction, StoreSteps(d) PROVE AccountInv'
  <2>1. /\ taskPc = Store(d) /\ taskPc' = After(d) /\ steps' = loaded + Delta(d)
        /\ disturbed' = (disturbed \/ uiPc = "reset")
        /\ UNCHANGED <<bits, event, uiPc, copied, applied, accepted>>
    BY <1>5 DEF StoreSteps, lvgl
  <2>2. d \in event /\ Delta(d) \in Int
    BY <2>1 DEF AccountInv, Delta
  <2>3. Taken = Taken' + Delta(d) /\ Taken' \in Int
    <3>1. CASE d = "left"
      <4>1. Of(event \ {"left"}) = Of(event) - Delta(d)
        BY <1>1, <2>2, <3>1, OfBits
      <4>2. Taken = Of(event) /\ Taken' = Of(event \ {"left"})
        BY <2>1, <3>1 DEF Taken, After, Store
      <4> QED BY <1>1, <2>2, <4>1, <4>2
    <3>2. CASE d = "right"
      <4>1. Of(event \ {"left"}) = Delta(d)
        BY <2>2, <3>2 DEF Of, Delta
      <4>2. Taken = Of(event \ {"left"}) /\ Taken' = 0
        BY <2>1, <3>2 DEF Taken, After, Store
      <4> QED BY <2>2, <4>1, <4>2
    <3> QED BY <3>1, <3>2 DEF Direction
  <2>4. taskPc' \notin {"storeLeft", "storeRight"}
    BY <2>1 DEF After
  <2>5. CASE disturbed'
    BY <2>4, <2>5 DEF AccountInv, Store
  <2>6. CASE Undisturbed /\ uiPc # "reset"
    <3>1. loaded = steps
      BY <2>1, <2>6 DEF Undisturbed, Store
    <3>2. applied' + steps' + Taken' + Of(bits') = accepted'
      BY <1>1, <2>1, <2>2, <2>3, <2>6, <3>1 DEF Undisturbed
    <3>3. Undisturbed'
      BY <2>1, <2>4, <2>6, <3>2 DEF Undisturbed
    <3> QED BY <2>4, <3>3 DEF AccountInv, Store
  <2> QED BY <2>1, <2>5, <2>6 DEF AccountInv
<1> QED
  BY <1>2, <1>3, <1>4, <1>5 DEF Task

LEMMA LvglAccount == ASSUME Inductive, Timer \/ ShowMenu PROVE AccountInv'
<1> USE DEF Inductive, IInv
<1>1. /\ UNCHANGED <<bits, taskPc, event, loaded, accepted>> /\ Taken' = Taken
      /\ Taken \in Int /\ Of(bits) \in Int
      /\ steps \in Int /\ applied \in Int /\ accepted \in Int
  BY OfBits DEF Timer, CopySteps, ResetAndApply, ShowMenu, task, account, Taken,
     TypeOK
<1>2. (\A d \in Direction : taskPc = Store(d) => d \in event)'
  BY <1>1 DEF AccountInv
<1>3. CASE disturbed
  <2>1. disturbed'
    BY <1>3, Zenon DEF Timer, CopySteps, ResetAndApply, ShowMenu, account
  <2> QED BY <1>2, <2>1 DEF AccountInv
<1>4. CASE Undisturbed /\ CopySteps
  <2>1. Undisturbed'
    BY <1>1, <1>4 DEF CopySteps, Undisturbed
  <2> QED BY <1>2, <2>1 DEF AccountInv
<1>5. CASE Undisturbed /\ ResetAndApply
  <2>1. CASE taskPc \in {"storeLeft", "storeRight"}
    <3>1. disturbed'
      BY <1>5, <2>1, Zenon DEF ResetAndApply
    <3> QED BY <1>2, <3>1 DEF AccountInv
  <2>2. CASE taskPc \notin {"storeLeft", "storeRight"}
    <3>1. Undisturbed'
      BY <1>1, <1>5, <2>2 DEF ResetAndApply, Undisturbed
    <3> QED BY <1>2, <3>1 DEF AccountInv
  <2> QED BY <2>1, <2>2
<1>6. CASE Undisturbed /\ ShowMenu
  <2>1. CASE steps # 0
    <3>1. disturbed'
      BY <1>6, <2>1, Zenon DEF ShowMenu
    <3> QED BY <1>2, <3>1 DEF AccountInv
  <2>2. CASE steps = 0
    <3>1. Undisturbed'
      BY <1>1, <1>6, <2>2 DEF ShowMenu, Undisturbed, lvgl
    <3> QED BY <1>2, <3>1 DEF AccountInv
  <2> QED BY <2>1, <2>2
<1> QED
  BY <1>3, <1>4, <1>5, <1>6 DEF AccountInv, Timer

LEMMA StepInv == Inductive /\ [Next]_vars => Inductive'
<1> SUFFICES ASSUME Inductive, [Next]_vars PROVE Inductive'
  OBVIOUS
<1>1. CASE UNCHANGED vars
  <2>1. UNCHANGED <<turned, bits, taskPc, event, loaded, steps, uiPc, copied,
                    applied, accepted, disturbed>>
    BY <1>1 DEF vars, task, lvgl, account
  <2>2. IInv'
    BY <2>1, SMT DEF Inductive, IInv, TypeOK, SideInv, Store, Towards
  <2>3. AccountInv'
    BY <2>1 DEF Inductive, AccountInv, Undisturbed, Taken
  <2> QED BY <2>2, <2>3 DEF Inductive
<1>2. CASE Task \/ Timer \/ ShowMenu
  BY <1>2, StepTypeAndSide, TaskAccount, LvglAccount DEF Inductive
<1> QED
  BY <1>1, <1>2, TurnInv DEF Next

(* Bits, task and numbers only ever point to a side that was turned to.    *)
THEOREM InvariantHolds == Spec => []Inductive
BY InitInv, StepInv, PTL DEF Spec

(* Every variable stays in its type, for any number of turns.              *)
THEOREM TypeCorrect == Spec => []TypeOK
<1>1. Inductive => TypeOK
  BY DEF Inductive, IInv
<1> QED
  BY <1>1, InvariantHolds, PTL

(* No interleaving of the three tasks inverts a turn.                      *)
THEOREM NoInvertedTurn == Spec => []DirectionTruthful
<1>1. Inductive => DirectionTruthful
  <2> SUFFICES ASSUME IInv, NEW d \in Direction,
                      Towards(d, copied) \/ Towards(d, applied)
               PROVE  turned[d] > 0
    BY DEF DirectionTruthful, Inductive
  <2>1. turned[d] # 0
    BY DEF IInv, SideInv
  <2> QED
    BY <2>1, BoundAssumption, SMT DEF IInv, TypeOK
<1> QED
  BY <1>1, InvariantHolds, PTL

(* While no two tasks meet in the middle of their accesses and no page     *)
(* change drops steps, every turn that set a bit is applied, once.         *)
THEOREM StepsReachPage == Spec => []StepsAccounted
<1>1. Inductive => StepsAccounted
  <2> SUFFICES ASSUME Inductive, Settled, Undisturbed PROVE applied = accepted
    BY DEF Inductive, AccountInv, StepsAccounted
  <2>1. Taken = 0 /\ Of(bits) = 0 /\ steps = 0
    BY OfBits DEF Settled, Taken
  <2> QED
    BY <2>1 DEF Undisturbed, Inductive, IInv, TypeOK
<1> QED
  BY <1>1, InvariantHolds, PTL
=============================================================================
