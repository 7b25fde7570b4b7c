------------------------- MODULE BatteryAdc_proofs --------------------------
(***************************************************************************)
(* Proofs about BatteryAdc, for any number of overlapping tasks.  The key  *)
(* is OneAdcOwner: a finishing task has left the loop, and given up the    *)
(* handle, before anyone can make its successor; whoever is then in the    *)
(* loop is alone with the ADC driver and with the published scalars.       *)
(***************************************************************************)
EXTENDS BatteryAdc, TLAPS

(* A unit that is not (yet) set up is in the hands of a worker.            *)
UnitHasCause ==
  unit /\ ~initialized => \E t \in Task : pc[t] = "config"

ConfigHasUnit ==
  \A t \in Task : pc[t] = "config" => unit /\ ~initialized

(* The fields counted as written hold samples, and so does what is to be   *)
(* written next.                                                           *)
FieldsMeasured ==
  /\ \A f \in 1..written : latest[f] # 0
  /\ \A t \in Task : pc[t] = "publish" => taken # 0

CreateSeesNull == uiStep = "create" => handle = NULL

IInv ==
  /\ TypeOK
  /\ OneAdcOwner
  /\ UnitHasCause /\ ConfigHasUnit
  /\ FieldsMeasured /\ ReadyMeansMeasured
  /\ CreateSeesNull

LEMMA Fields == DOMAIN Field = 1..4 /\ Len(Field) = 4
BY DEF Field

LEMMA InitIInv ==
  ASSUME Init PROVE IInv
<1>1. TypeOK
  <2>1. latest \in [DOMAIN Field -> Sample] /\ pc \in [Task -> PC]
    BY DEF Init, Sample, PC
  <2>2. pageOpen \in BOOLEAN /\ unit \in BOOLEAN /\ initialized \in BOOLEAN
    BY Zenon DEF Init
  <2>3. /\ taken \in Sample /\ written \in 0..Len(Field)
        /\ snapshot \in Seq(Sample) /\ Len(snapshot) <= Len(Field)
    BY Fields DEF Init, Sample
  <2>4. shown.text = "starting" /\ shown.of \in Seq(Sample)
    BY DEF Init, Says
  <2> QED BY <2>1, <2>2, <2>3, <2>4 DEF Init, TypeOK, SampleState
<1>2. OneAdcOwner
  BY TaskAssumption DEF Init, OneAdcOwner, InLoop
<1>3. UnitHasCause /\ ConfigHasUnit /\ CreateSeesNull
  BY DEF Init, UnitHasCause, ConfigHasUnit, CreateSeesNull
<1>4. FieldsMeasured /\ ReadyMeansMeasured
  BY DEF Init, FieldsMeasured, ReadyMeansMeasured
<1> QED BY <1>1, <1>2, <1>3, <1>4 DEF IInv

(* Steps of the LVGL task that leave the worker's variables alone.         *)
LEMMA StepOfScreen ==
  ASSUME IInv,
         \/ OpenPage \/ LeavePage \/ TimerReadsState \/ StartKeepsWorker
         \/ TimerCopies \/ TimerShows
  PROVE  IInv'
<1>1. /\ UNCHANGED <<handle, sampleState, error, latest, unit, initialized, pc,
                     taken, written>>
      /\ uiStep' \in {"idle", "start", "copy"}
  BY DEF OpenPage, LeavePage, TimerReadsState, StartKeepsWorker, TimerCopies,
     TimerShows, adc, screen, IInv, TypeOK
<1>2. pageOpen' \in BOOLEAN
  BY DEF OpenPage, LeavePage, TimerReadsState, StartKeepsWorker, TimerCopies,
     TimerShows, IInv, TypeOK
<1>3. /\ snapshot' \in Seq(Sample) /\ Len(snapshot') <= Len(Field)
  <2>1. CASE TimerCopies
    <3>1. Len(snapshot) + 1 \in DOMAIN Field /\ Len(snapshot) \in Nat
      BY <2>1, Fields DEF TimerCopies, IInv, TypeOK
    <3>2. latest[Len(snapshot) + 1] \in Sample
      BY <3>1 DEF IInv, TypeOK
    <3> QED BY <2>1, <3>1, <3>2, Fields DEF TimerCopies, IInv, TypeOK
  <2>2. CASE UNCHANGED snapshot
    BY <2>2 DEF IInv, TypeOK
  <2>3. CASE snapshot' = <<>>
    BY <2>3, Fields
  <2> QED BY <2>1, <2>2, <2>3 DEF OpenPage, LeavePage, TimerReadsState,
             StartKeepsWorker, TimerShows, screen
<1>4. shown'.text \in {"starting", "error", "sample"} /\ shown'.of \in Seq(Sample)
  <2>1. /\ shown.text \in {"starting", "error", "sample"}
        /\ shown.of \in Seq(Sample) /\ snapshot \in Seq(Sample)
    BY DEF IInv, TypeOK
  <2>2. \/ UNCHANGED shown
        \/ shown' = Says("starting") \/ shown' = Says("error")
        \/ shown' = [text |-> "sample", of |-> snapshot]
    BY DEF OpenPage, LeavePage, TimerReadsState, StartKeepsWorker,
       TimerCopies, TimerShows, screen
  <2>3. \A s : Says(s).text = s /\ Says(s).of \in Seq(Sample)
    BY DEF Says
  <2> QED BY <2>1, <2>2, <2>3
<1>5. TypeOK'
  BY <1>1, <1>2, <1>3, <1>4 DEF IInv, TypeOK
<1>6. (OneAdcOwner /\ UnitHasCause /\ ConfigHasUnit /\ FieldsMeasured
         /\ ReadyMeansMeasured /\ CreateSeesNull)'
  BY <1>1 DEF IInv, OneAdcOwner, InLoop, UnitHasCause, ConfigHasUnit,
     FieldsMeasured, ReadyMeansMeasured, CreateSeesNull
<1> QED BY <1>5, <1>6 DEF IInv

LEMMA StepOfStart ==
  ASSUME IInv, StartResets \/ StartCreates PROVE IInv'
<1>1. CASE StartResets
  <2>1. TypeOK'
    BY <1>1 DEF StartResets, IInv, TypeOK, adc, SampleState
  <2> QED BY <1>1, <2>1 DEF StartResets, IInv, OneAdcOwner, InLoop,
          UnitHasCause, ConfigHasUnit, FieldsMeasured, ReadyMeansMeasured,
          CreateSeesNull, adc
<1>2. CASE StartCreates
  <2>1. handle = NULL /\ \A t \in Task : ~InLoop(t)
    BY <1>2, TaskAssumption DEF StartCreates, IInv, CreateSeesNull, OneAdcOwner
  <2>2. /\ uiStep' = "idle"
        /\ UNCHANGED <<pageOpen, latest, unit, initialized, taken, written,
                       snapshot, shown>>
    BY <1>2 DEF StartCreates, adc
  <2>3. ASSUME NEW t \in Task, Goto(t, "none", "begin"), handle' = t,
               UNCHANGED <<sampleState, error>>
        PROVE  IInv'
    <3>1. TypeOK'
      BY <2>2, <2>3 DEF IInv, TypeOK, Goto, PC
    <3>2. OneAdcOwner'
      BY <2>1, <2>3 DEF IInv, TypeOK, Goto, OneAdcOwner, InLoop
    <3> QED BY <2>2, <2>3, <3>1, <3>2 DEF IInv, TypeOK, Goto, UnitHasCause,
            ConfigHasUnit, FieldsMeasured, ReadyMeansMeasured, CreateSeesNull
  <2>4. ASSUME handle' = NULL, error' = "NO_MEM", sampleState' = "ERROR",
               UNCHANGED pc
        PROVE  IInv'
    BY <2>1, <2>2, <2>4 DEF IInv, TypeOK, SampleState, OneAdcOwner, InLoop,
       UnitHasCause, ConfigHasUnit, FieldsMeasured, ReadyMeansMeasured,
       CreateSeesNull
  <2> QED BY <1>2, <2>3, <2>4 DEF StartCreates
<1> QED BY <1>1, <1>2

(* Steps of the worker, which all leave the screen alone.                  *)
LEMMA WorkerTyped ==
  ASSUME IInv, NEW t \in Task, Worker(t) PROVE TypeOK'
<1>1. pc' \in [Task -> PC]
  BY DEF Worker, WorkerBegins, WorkerPolls, AdcInit, AdcConfig, WorkerReads,
     WorkerFails, WorkerRetries, WorkerWrites, WorkerPublishes,
     WorkerClearsHandle, WorkerEnds, Goto, IInv, TypeOK, PC
<1>2. UNCHANGED <<pageOpen, uiStep, snapshot, shown>>
  BY DEF Worker, WorkerBegins, WorkerPolls, AdcInit, AdcConfig, WorkerReads,
     WorkerFails, WorkerRetries, WorkerWrites, WorkerPublishes,
     WorkerClearsHandle, WorkerEnds, screen
<1>3. /\ handle' \in Task \cup {NULL} /\ sampleState' \in SampleState
      /\ error' \in {"OK", "FAIL", "NO_MEM"}
  BY DEF Worker, WorkerBegins, WorkerPolls, AdcInit, AdcConfig, WorkerReads,
     WorkerFails, WorkerRetries, WorkerWrites, WorkerPublishes,
     WorkerClearsHandle, WorkerEnds, SampleState, IInv, TypeOK
<1>4. unit' \in BOOLEAN /\ initialized' \in BOOLEAN
  BY DEF Worker, WorkerBegins, WorkerPolls, AdcInit, AdcConfig, WorkerReads,
     WorkerFails, WorkerRetries, WorkerWrites, WorkerPublishes,
     WorkerClearsHandle, WorkerEnds, adc, IInv, TypeOK
<1>5. taken' \in Sample
  BY DEF Worker, WorkerBegins, WorkerPolls, AdcInit, AdcConfig, WorkerReads,
     WorkerFails, WorkerRetries, WorkerWrites, WorkerPublishes,
     WorkerClearsHandle, WorkerEnds, IInv, TypeOK, Sample
<1>6. written' \in 0..Len(Field) /\ latest' \in [DOMAIN Field -> Sample]
  <2>1. CASE WorkerWrites(t)
    BY <2>1, Fields DEF WorkerWrites, IInv, TypeOK
  <2>2. CASE UNCHANGED latest /\ written' \in {0, written}
    BY <2>2, Fields DEF IInv, TypeOK
  <2> QED BY <2>1, <2>2 DEF Worker, WorkerBegins, WorkerPolls, AdcInit,
             AdcConfig, WorkerReads, WorkerFails, WorkerRetries,
             WorkerPublishes, WorkerClearsHandle, WorkerEnds
<1> QED BY <1>1, <1>2, <1>3, <1>4, <1>5, <1>6 DEF TypeOK, IInv

(* While a task is in the loop, no other is.                               *)
LEMMA Alone ==
  ASSUME IInv, NEW t \in Task, InLoop(t)
  PROVE  handle = t /\ \A u \in Task \ {t} : ~InLoop(u)
BY DEF IInv, OneAdcOwner

LEMMA WorkerKeepsOwner ==
  ASSUME IInv, NEW t \in Task, Worker(t) PROVE OneAdcOwner' /\ CreateSeesNull'
<1>1. pc \in [Task -> PC] /\ handle \in Task \cup {NULL}
  BY DEF IInv, TypeOK
<1>2. CASE WorkerClearsHandle(t)
  <2>1. \A u \in Task \ {t} : ~InLoop(u)
    BY <1>2, Alone DEF WorkerClearsHandle, Goto, InLoop
  <2> QED BY <1>1, <1>2, <2>1, TaskAssumption DEF WorkerClearsHandle, Goto,
             OneAdcOwner, InLoop, CreateSeesNull, screen
<1>3. CASE WorkerEnds(t)
  BY <1>1, <1>3 DEF WorkerEnds, Goto, IInv, OneAdcOwner, InLoop,
     CreateSeesNull, screen
<1>4. CASE ~WorkerClearsHandle(t) /\ ~WorkerEnds(t)
  <2>1. /\ UNCHANGED <<handle, uiStep>>
        /\ pc[t] \notin {"none", "idle"}
        /\ \E p \in PC \ {"none", "idle"} : pc' = [pc EXCEPT ![t] = p]
    BY <1>1, <1>4 DEF Worker, WorkerBegins, WorkerPolls, AdcInit, AdcConfig,
       WorkerReads, WorkerFails, WorkerRetries, WorkerWrites, WorkerPublishes,
       Goto, screen, PC
  <2> QED BY <1>1, <2>1 DEF IInv, OneAdcOwner, InLoop, CreateSeesNull
<1> QED BY <1>2, <1>3, <1>4

LEMMA WorkerKeepsUnit ==
  ASSUME IInv, NEW t \in Task, Worker(t) PROVE UnitHasCause' /\ ConfigHasUnit'
<1>1. pc \in [Task -> PC] /\ UnitHasCause /\ ConfigHasUnit
  BY DEF IInv, TypeOK
<1>2. CASE AdcInit(t)
  <2>1. \A u \in Task \ {t} : pc[u] # "config"
    BY <1>2, Alone DEF AdcInit, Goto, InLoop
  <2> QED BY <1>1, <1>2, <2>1 DEF AdcInit, Goto, UnitHasCause, ConfigHasUnit
<1>3. CASE AdcConfig(t)
  <2>1. \A u \in Task \ {t} : pc[u] # "config"
    BY <1>3, Alone DEF AdcConfig, Goto, InLoop
  <2> QED BY <1>1, <1>3, <2>1 DEF AdcConfig, Goto, UnitHasCause, ConfigHasUnit
<1>4. CASE ~AdcInit(t) /\ ~AdcConfig(t)
  <2>1. /\ UNCHANGED <<unit, initialized>>
        /\ pc[t] # "config" 
        /\ \E p \in PC \ {"config"} : pc' = [pc EXCEPT ![t] = p]
    BY <1>1, <1>4 DEF Worker, WorkerBegins, WorkerPolls, WorkerReads,
       WorkerFails, WorkerRetries, WorkerWrites, WorkerPublishes,
       WorkerClearsHandle, WorkerEnds, Goto, adc, PC
  <2> QED BY <1>1, <2>1 DEF UnitHasCause, ConfigHasUnit
<1> QED BY <1>2, <1>3, <1>4

LEMMA WorkerMeasures ==
  ASSUME IInv, NEW t \in Task, Worker(t)
  PROVE  FieldsMeasured' /\ ReadyMeansMeasured'
<1>1. /\ pc \in [Task -> PC] /\ latest \in [1..4 -> Sample]
      /\ taken \in Sample /\ written \in 0..4
      /\ FieldsMeasured /\ ReadyMeansMeasured
  BY Fields DEF IInv, TypeOK
<1>2. CASE WorkerWrites(t)
  <2>1. /\ pc[t] = "publish" /\ written < 4 /\ written' = written + 1
        /\ latest' = [latest EXCEPT ![written + 1] = taken]
        /\ UNCHANGED <<pc, taken, sampleState>>
    BY <1>2, Fields DEF WorkerWrites
  <2>2. taken # 0
    BY <1>1, <2>1 DEF FieldsMeasured
  <2>3. \A f \in 1..4 : latest'[f] = IF f = written + 1 THEN taken ELSE latest[f]
    BY <1>1, <2>1
  <2>4. FieldsMeasured'
    BY <1>1, <2>1, <2>2, <2>3 DEF FieldsMeasured
  <2>5. ReadyMeansMeasured'
    BY <1>1, <2>1, <2>2, <2>3, Fields DEF ReadyMeansMeasured
  <2> QED BY <2>4, <2>5
<1>3. CASE WorkerReads(t)
  BY <1>1, <1>3 DEF WorkerReads, Goto, FieldsMeasured, ReadyMeansMeasured
<1>4. CASE WorkerPublishes(t)
  BY <1>1, <1>4, Fields DEF WorkerPublishes, Goto, FieldsMeasured,
     ReadyMeansMeasured
<1>5. CASE ~WorkerWrites(t) /\ ~WorkerReads(t) /\ ~WorkerPublishes(t)
  <2>1. /\ UNCHANGED <<latest, taken, written>>
        /\ sampleState' \in {sampleState, "STARTING", "ERROR", "IDLE"}
        /\ \E p \in PC \ {"publish"} : pc' = [pc EXCEPT ![t] = p]
    BY <1>1, <1>5 DEF Worker, WorkerBegins, WorkerPolls, AdcInit, AdcConfig,
       WorkerFails, WorkerRetries, WorkerClearsHandle, WorkerEnds, Goto, PC
  <2> QED BY <1>1, <2>1 DEF FieldsMeasured, ReadyMeansMeasured
<1> QED BY <1>2, <1>3, <1>4, <1>5

LEMMA NextIInv ==
  ASSUME IInv, [Next]_vars PROVE IInv'
<1>1. CASE UNCHANGED vars
  BY <1>1 DEF vars, adc, screen, IInv, TypeOK, OneAdcOwner, InLoop,
     UnitHasCause, ConfigHasUnit, FieldsMeasured, ReadyMeansMeasured,
     CreateSeesNull
<1>2. CASE Ui
  BY <1>2, StepOfScreen, StepOfStart DEF Ui, UiContinues
<1>3. ASSUME NEW t \in Task, Worker(t) PROVE IInv'
  BY <1>3, WorkerTyped, WorkerKeepsOwner, WorkerKeepsUnit, WorkerMeasures
     DEF IInv
<1> QED BY <1>1, <1>2, <1>3 DEF Next

-----------------------------------------------------------------------------
THEOREM IInvariant == Spec => []IInv
BY InitIInv, NextIInv, PTL DEF Spec

(* Every variable stays in its type: the worker writes no field but the    *)
(* four, whoever succeeds whom.                                            *)
THEOREM TypeCorrect == Spec => []TypeOK
<1>1. IInv => TypeOK
  BY DEF IInv
<1> QED BY <1>1, IInvariant, PTL

(* The ADC driver is called by one task at a time, for any number of tasks *)
(* that have not yet deleted themselves.                                   *)
THEOREM AdcHasOneOwner == Spec => []OneAdcOwner
<1>1. IInv => OneAdcOwner
  BY DEF IInv
<1> QED BY <1>1, IInvariant, PTL

(* No failed initialisation makes the next one fail.                       *)
THEOREM InitCanSucceed == Spec => []InitFindsNoUnit
<1>1. IInv => InitFindsNoUnit
  <2> SUFFICES ASSUME IInv, NEW t \in Task, pc[t] = "init", ~initialized
               PROVE  ~unit
    BY DEF InitFindsNoUnit
  <2>1. \A u \in Task \ {t} : ~InLoop(u)
    BY Alone DEF InLoop
  <2>2. \A u \in Task : pc[u] # "config"
    BY <2>1 DEF InLoop
  <2> QED BY <2>2 DEF IInv, UnitHasCause
<1> QED BY <1>1, IInvariant, PTL

(* READY is never shown before all fields were measured.                   *)
THEOREM ReadyIsMeasured == Spec => []ReadyMeansMeasured
<1>1. IInv => ReadyMeansMeasured
  BY DEF IInv
<1> QED BY <1>1, IInvariant, PTL

(* The NULL on which battery_adc_worker_start relies stays NULL until the  *)
(* new worker exists.                                                      *)
THEOREM CreateFindsNoWorker == Spec => []CreateSeesNoWorker
<1>1. IInv => CreateSeesNoWorker
  BY TaskAssumption DEF IInv, CreateSeesNull, OneAdcOwner, CreateSeesNoWorker
<1> QED BY <1>1, IInvariant, PTL
=============================================================================
