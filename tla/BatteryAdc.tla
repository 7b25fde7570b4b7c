----------------------------- MODULE BatteryAdc -----------------------------
(***************************************************************************)
(* The Battery page of main/main.c: battery_adc_worker_task samples the    *)
(* ADC while the page is open and publishes scalars, the LVGL task starts  *)
(* the worker when it builds the page and renders the scalars from a       *)
(* timer.                                                                  *)
(*                                                                         *)
(* The worker notices by itself that the page was left.  Between its last  *)
(* look at current_menu and its end the page can be opened again, so a     *)
(* finishing worker and its successor may exist at the same time.          *)
(*                                                                         *)
(* A sample is abstracted to the number 1 or 2, different from that of the *)
(* sample before it, and each published scalar to the sample it is from;   *)
(* 0 is the value it has before any sample.                                *)
(***************************************************************************)
EXTENDS Naturals, Sequences, FiniteSets

CONSTANTS
  Task,   \* FreeRTOS tasks that may exist at once, a bound on overlap
  NULL

ASSUME TaskAssumption == Task # {} /\ NULL \notin Task

(* The published scalars, in the order the worker writes and the timer     *)
(* reads them.                                                             *)
Field == <<"raw", "pin", "rail", "calibrated">>

SampleState == {"IDLE", "STARTING", "READY", "ERROR"}
Sample      == 0..2

VARIABLES
  pageOpen,     \* current_menu = MENU_HW_BATTERY
  handle,       \* battery_adc_task_handle
  sampleState,  \* battery_sample_state
  error,        \* battery_latest_error
  latest,       \* battery_latest_raw, _pin_mv, _rail_mv, _calibrated
  unit,         \* the ADC driver has allocated unit ADC1
  initialized,  \* battery_adc_initialized
  pc,           \* where each task is, "none" if it does not exist
  taken,        \* the sample last taken
  written,      \* how many fields of it the worker has published
  uiStep,       \* what the LVGL task is doing
  snapshot,     \* the fields the timer has copied so far
  shown         \* the labels: what they say, and the fields if a sample

vars == <<pageOpen, handle, sampleState, error, latest, unit, initialized, pc,
          taken, written, uiStep, snapshot, shown>>

adc    == <<unit, initialized>>
screen == <<uiStep, snapshot, shown>>

PC == {"none", "begin", "poll", "init", "config", "read", "publish", "fail",
       "retry", "exit", "idle"}

Says(text) == [text |-> text, of |-> <<>>]

Init ==
  /\ pageOpen    = FALSE
  /\ handle      = NULL
  /\ sampleState = "IDLE"
  /\ error       = "OK"
  /\ latest      = [f \in DOMAIN Field |-> 0]
  /\ unit        = FALSE
  /\ initialized = FALSE
  /\ pc          = [t \in Task |-> "none"]
  /\ taken       = 0
  /\ written     = 0
  /\ uiStep      = "idle"
  /\ snapshot    = <<>>
  /\ shown       = Says("starting")

Goto(t, from, to) == pc[t] = from /\ pc' = [pc EXCEPT ![t] = to]

-----------------------------------------------------------------------------
(* The LVGL task.                                                          *)

(* show_menu(MENU_HW_BATTERY): current_menu is set, the page is built, and *)
(* its constructor ends with battery_adc_worker_start.                     *)
OpenPage ==
  /\ uiStep = "idle" /\ ~pageOpen
  /\ pageOpen' = TRUE
  /\ uiStep'   = "start"
  /\ shown'    = Says("starting")
  /\ UNCHANGED <<handle, sampleState, error, latest, adc, pc, taken, written,
                 snapshot>>

StartKeepsWorker ==
  /\ uiStep = "start" /\ handle # NULL
  /\ uiStep' = "idle"
  /\ UNCHANGED <<pageOpen, handle, sampleState, error, latest, adc, pc, taken,
                 written, snapshot, shown>>

StartResets ==
  /\ uiStep = "start" /\ handle = NULL
  /\ sampleState' = "STARTING"
  /\ error'       = "OK"
  /\ uiStep'      = "create"
  /\ UNCHANGED <<pageOpen, handle, latest, adc, pc, taken, written, snapshot,
                 shown>>

(* xTaskCreate stores the handle and makes the task ready, or fails.       *)
StartCreates ==
  /\ uiStep = "create"
  /\ uiStep' = "idle"
  /\ \/ \E t \in Task :
          /\ Goto(t, "none", "begin")
          /\ handle' = t
          /\ UNCHANGED <<sampleState, error>>
     \/ /\ handle'      = NULL
        /\ error'       = "NO_MEM"
        /\ sampleState' = "ERROR"
        /\ UNCHANGED pc
  /\ UNCHANGED <<pageOpen, latest, adc, taken, written, snapshot, shown>>

LeavePage ==
  /\ uiStep = "idle" /\ pageOpen
  /\ pageOpen' = FALSE
  /\ UNCHANGED <<handle, sampleState, error, latest, adc, pc, taken, written,
                 screen>>

(* battery_adc_ui_timer_cb: one look at the state, then the fields (or the *)
(* error) one by one, then the labels.                                     *)
TimerReadsState ==
  /\ uiStep = "idle" /\ pageOpen
  /\ \/ /\ sampleState \in {"IDLE", "STARTING"}
        /\ shown' = Says("starting")
        /\ UNCHANGED uiStep
     \/ /\ sampleState = "ERROR"
        /\ shown' = Says("error")
        /\ UNCHANGED uiStep
     \/ /\ sampleState = "READY"
        /\ uiStep' = "copy"
        /\ UNCHANGED shown
  /\ UNCHANGED <<pageOpen, handle, sampleState, error, latest, adc, pc, taken,
                 written, snapshot>>

TimerCopies ==
  /\ uiStep = "copy" /\ Len(snapshot) < Len(Field)
  /\ snapshot' = Append(snapshot, latest[Len(snapshot) + 1])
  /\ UNCHANGED <<pageOpen, handle, sampleState, error, latest, adc, pc, taken,
                 written, uiStep, shown>>

TimerShows ==
  /\ uiStep = "copy" /\ Len(snapshot) = Len(Field)
  /\ shown'    = [text |-> "sample", of |-> snapshot]
  /\ snapshot' = <<>>
  /\ uiStep'   = "idle"
  /\ UNCHANGED <<pageOpen, handle, sampleState, error, latest, adc, pc, taken,
                 written>>

UiContinues == StartKeepsWorker \/ StartResets \/ StartCreates
                 \/ TimerCopies \/ TimerShows

Ui == OpenPage \/ LeavePage \/ TimerReadsState \/ UiContinues

-----------------------------------------------------------------------------
(* battery_adc_worker_task                                                 *)

WorkerBegins(t) ==
  /\ Goto(t, "begin", "poll")
  /\ sampleState' = "STARTING"
  /\ error'       = "OK"
  /\ UNCHANGED <<pageOpen, handle, latest, adc, taken, written, screen>>

(* Mutant of WorkerPolls: the page is not looked at.                       *)
WorkerPollsForever(t) ==
  /\ Goto(t, "poll", "init")
  /\ UNCHANGED <<pageOpen, handle, sampleState, error, latest, adc, taken,
                 written, screen>>

(* while (current_menu == MENU_HW_BATTERY)                                 *)
WorkerPolls(t) ==
  /\ Goto(t, "poll", IF pageOpen THEN "init" ELSE "exit")
  /\ UNCHANGED <<pageOpen, handle, sampleState, error, latest, adc, taken,
                 written, screen>>

(* battery_adc_init, on first use: the unit is allocated, which the driver *)
(* refuses if it already is, ...                                           *)
AdcInit(t) ==
  /\ \/ initialized /\ Goto(t, "init", "read") /\ UNCHANGED unit
     \/ /\ ~initialized /\ ~unit
        /\ Goto(t, "init", "config")
        /\ unit' = TRUE
     \/ ~initialized /\ Goto(t, "init", "fail") /\ UNCHANGED unit
  /\ UNCHANGED <<pageOpen, handle, sampleState, error, latest, initialized,
                 taken, written, screen>>

(* Mutant of AdcConfig: the unit is not deleted on the error path.         *)
AdcConfigLeaks(t) ==
  /\ \/ /\ Goto(t, "config", "read")
        /\ initialized' = TRUE
     \/ /\ Goto(t, "config", "fail")
        /\ UNCHANGED initialized
  /\ UNCHANGED <<pageOpen, handle, sampleState, error, latest, unit, taken,
                 written, screen>>

(* ... its channel is configured, and the unit is deleted again if that    *)
(* fails.  Calibration may fail without harm.                              *)
AdcConfig(t) ==
  /\ \/ /\ Goto(t, "config", "read")
        /\ initialized' = TRUE
        /\ UNCHANGED unit
     \/ /\ Goto(t, "config", "fail")
        /\ unit' = FALSE
        /\ UNCHANGED initialized
  /\ UNCHANGED <<pageOpen, handle, sampleState, error, latest, taken, written,
                 screen>>

(* battery_adc_read: eight conversions, each of which may fail.            *)
WorkerReads(t) ==
  /\ \/ /\ Goto(t, "read", "publish")
        /\ taken' = IF taken = 1 THEN 2 ELSE 1
     \/ /\ Goto(t, "read", "fail")
        /\ UNCHANGED taken
  /\ UNCHANGED <<pageOpen, handle, sampleState, error, latest, adc, written,
                 screen>>

WorkerFails(t) ==
  /\ Goto(t, "fail", "retry")
  /\ error'       = "FAIL"
  /\ sampleState' = "ERROR"
  /\ UNCHANGED <<pageOpen, handle, latest, adc, taken, written, screen>>

(* The delay of a second after an error.                                   *)
WorkerRetries(t) ==
  /\ Goto(t, "retry", "poll")
  /\ UNCHANGED <<pageOpen, handle, sampleState, error, latest, adc, taken,
                 written, screen>>

(* The scalars are published by separate writes ...                        *)
WorkerWrites(t) ==
  /\ pc[t] = "publish" /\ written < Len(Field)
  /\ latest'  = [latest EXCEPT ![written + 1] = taken]
  /\ written' = written + 1
  /\ UNCHANGED <<pageOpen, handle, sampleState, error, adc, pc, taken, screen>>

(* Mutants of WorkerPublishes: the state may be published before the       *)
(* fields; it is published on the first sample only.                       *)
WorkerPublishesEarly(t) ==
  /\ Goto(t, "publish", "poll")
  /\ error'       = "OK"
  /\ sampleState' = "READY"
  /\ written'     = 0
  /\ UNCHANGED <<pageOpen, handle, latest, adc, taken, screen>>

WorkerPublishesOnce(t) ==
  /\ written = Len(Field)
  /\ Goto(t, "publish", "poll")
  /\ error'       = "OK"
  /\ sampleState' = IF sampleState = "STARTING" THEN "READY" ELSE sampleState
  /\ written'     = 0
  /\ UNCHANGED <<pageOpen, handle, latest, adc, taken, screen>>

(* ... the error and the state last.                                       *)
WorkerPublishes(t) ==
  /\ written = Len(Field)
  /\ Goto(t, "publish", "poll")
  /\ error'       = "OK"
  /\ sampleState' = "READY"
  /\ written'     = 0
  /\ UNCHANGED <<pageOpen, handle, latest, adc, taken, screen>>

WorkerClearsHandle(t) ==
  /\ Goto(t, "exit", "idle")
  /\ handle' = NULL
  /\ UNCHANGED <<pageOpen, sampleState, error, latest, adc, taken, written,
                 screen>>

(* Mutant of WorkerEnds: the handle is cleared once more at the very end.  *)
WorkerEndsTwice(t) ==
  /\ Goto(t, "idle", "none")
  /\ sampleState' = "IDLE"
  /\ handle'      = NULL
  /\ UNCHANGED <<pageOpen, error, latest, adc, taken, written, screen>>

WorkerEnds(t) ==
  /\ Goto(t, "idle", "none")
  /\ sampleState' = "IDLE"
  /\ UNCHANGED <<pageOpen, handle, error, latest, adc, taken, written, screen>>

Worker(t) ==
  WorkerBegins(t) \/ WorkerPolls(t) \/ AdcInit(t) \/ AdcConfig(t)
    \/ WorkerReads(t) \/ WorkerFails(t) \/ WorkerRetries(t)
    \/ WorkerWrites(t) \/ WorkerPublishes(t) \/ WorkerClearsHandle(t)
    \/ WorkerEnds(t)

-----------------------------------------------------------------------------
Next == Ui \/ \E t \in Task : Worker(t)

(* A callback that began ends, the timer keeps firing while the page is    *)
(* open, and every task goes on.  The user opens and leaves as they like.  *)
Fairness ==
  /\ WF_vars(UiContinues)
  /\ WF_vars(TimerReadsState)
  /\ \A t \in Task : WF_vars(Worker(t))

Spec     == Init /\ [][Next]_vars
FairSpec == Spec /\ Fairness

-----------------------------------------------------------------------------
(* Every variable stays in its type.                                       *)
TypeOK ==
  /\ pageOpen    \in BOOLEAN
  /\ handle      \in Task \cup {NULL}
  /\ sampleState \in SampleState
  /\ error       \in {"OK", "FAIL", "NO_MEM"}
  /\ latest      \in [DOMAIN Field -> Sample]
  /\ unit        \in BOOLEAN
  /\ initialized \in BOOLEAN
  /\ pc          \in [Task -> PC]
  /\ taken       \in Sample
  /\ written     \in 0..Len(Field)
  /\ uiStep      \in {"idle", "start", "create", "copy"}
  /\ snapshot    \in Seq(Sample) /\ Len(snapshot) <= Len(Field)
  /\ shown.text  \in {"starting", "error", "sample"}
  /\ shown.of    \in Seq(Sample)

InLoop(t) == pc[t] \notin {"none", "idle"}

(* The worker "owns every call into the ADC driver": at most one task is   *)
(* in the worker loop, and it is the one the handle names, although a      *)
(* finishing task may overlap its successor.                               *)
OneAdcOwner == \A t \in Task : InLoop(t) <=> handle = t

(* adc_oneshot_new_unit never meets a unit that a failed attempt left      *)
(* allocated, which would make the error permanent.                        *)
InitFindsNoUnit ==
  \A t \in Task : pc[t] = "init" /\ ~initialized => ~unit

(* The LVGL task, about to create a worker, can still rely on the NULL it  *)
(* saw: no finishing task changes the handle behind its back.              *)
CreateSeesNoWorker == uiStep = "create" => \A t \in Task : ~InLoop(t)

(* The page never renders a scalar that was not measured: whenever the     *)
(* state says READY every field comes from a sample.                       *)
ReadyMeansMeasured ==
  sampleState = "READY" => \A f \in DOMAIN Field : latest[f] # 0

(* A page that is left and stays left ends the worker.                     *)
LeavingEndsWorker == ~pageOpen ~> (pageOpen \/ handle = NULL)

(* A READY or ERROR that a dying worker overwrites with IDLE comes back:   *)
(* a page with a live worker leaves "Starting ADC..." for good or ill.     *)
WorkerReports ==
  handle # NULL ~> (handle = NULL \/ ~pageOpen \/ shown.text # "starting")

(* "The task remains alive while the Battery page is open" (main.c:4132):  *)
(* once the page is built there is a worker, unless it could not be        *)
(* created.                                                                *)
PageHasWorker ==
  pageOpen /\ uiStep = "idle" /\ error # "NO_MEM" => handle # NULL

=============================================================================
