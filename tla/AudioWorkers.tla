---------------------------- MODULE AudioWorkers ----------------------------
(***************************************************************************)
(* The three audio diagnostics of main/main.c and the user interface that  *)
(* starts and stops them.                                                  *)
(*                                                                         *)
(*   mic   mic_capture_task      reads I2S0 (PDM microphone)               *)
(*   dac   dac_tone_task         writes I2S1 (PCM5100A)                    *)
(*   loop  audio_loopback_task   reads I2S0 and writes I2S1                *)
(*                                                                         *)
(* The LVGL task and the workers are FreeRTOS tasks that no core affinity  *)
(* ties down on a dual-core chip, so they run in parallel.  They share     *)
(* plain volatile variables, no lock: every action below performs the      *)
(* accesses to shared variables between two points at which another task   *)
(* can tell the difference.  Two accesses are merged into one action only  *)
(* where every interleaving of the other tasks with them gives a result    *)
(* that the merged action gives as well; the comment on the action says    *)
(* why.                                                                    *)
(*                                                                         *)
(* Abstracted: sample data, meters, gain and mute, GPIO read-back, log     *)
(* output.  Error codes are reduced to "OK", "FAIL" (any driver error),    *)
(* "TIMEOUT" and "NO_MEM".                                                 *)
(***************************************************************************)
EXTENDS Naturals, Sequences

CONSTANTS
  MaxWait,  \* polls of the loopback hand-off, 100 in the code
  Buttons   \* the workers whose Start button is pressed, all in the firmware

ASSUME MaxWaitAssumption == MaxWait \in Nat

Worker     == {"mic", "dac", "loop"}
Controller == {"I2S0", "I2S1"}
NoOwner    == "none"

(* The controllers each worker opens a channel on.                         *)
Uses == [w \in Worker |-> CASE w = "mic" -> {"I2S0"}
                            [] w = "dac" -> {"I2S1"}
                            [] OTHER     -> Controller]

(* The tasks that call the ..._request_stop functions: the LVGL task from  *)
(* its callbacks, and the loopback worker for its hand-off.                *)
Requester == {"ui", "loop"}

TestState == {"WAITING", "STARTING", "RUNNING", "STOPPING",
              "STOPPED", "ERROR"}
Active    == {"WAITING", "STARTING", "RUNNING", "STOPPING"}
ErrorCode == {"OK", "FAIL", "TIMEOUT", "NO_MEM"}

VARIABLES
  testState,   \* mic_test_state, dac_test_state, loopback_test_state
  lastError,   \* mic_last_error, dac_last_error, loopback_last_error
  stopReq,     \* mic_stop_requested, dac_tone_stop_requested, ...
  taskHandle,  \* mic_task_handle # NULL, dac_tone_task_handle # NULL, ...
  chan,        \* controllers whose channel pointer of the worker is not NULL
  owner,       \* the I2S driver: the worker whose channel occupies a controller
  pc,          \* where the task of a worker is, "none" if it does not exist
  waited,      \* wait_iteration of audio_loopback_task
  toStop,      \* per requester: ..._request_stop calls it still has to make
  callStep,    \* per requester: where it is in the first of them
  page         \* "audio": the page is shown; "leaving": Back is running

ui   == <<toStop, callStep, page>>
vars == <<testState, lastError, stopReq, taskHandle, chan, owner, pc, waited,
          toStop, callStep, page>>

PC == {"none", "begin", "request", "wait", "open", "openRx", "configure",
       "poll", "release", "releaseTx", "settle", "clearStop", "clearHandle"}

Step == {"check", "idle", "mark", "flag"}

Init ==
  /\ testState  = [w \in Worker |-> "STOPPED"]
  /\ lastError  = [w \in Worker |-> "OK"]
  /\ stopReq    = [w \in Worker |-> FALSE]
  /\ taskHandle = [w \in Worker |-> FALSE]
  /\ chan       = [w \in Worker |-> {}]
  /\ owner      = [p \in Controller |-> NoOwner]
  /\ pc         = [w \in Worker |-> "none"]
  /\ waited     = 0
  /\ toStop     = [r \in Requester |-> <<>>]
  /\ callStep   = [r \in Requester |-> "check"]
  /\ page       = "other"

Goto(w, from, to) == pc[w] = from /\ pc' = [pc EXCEPT ![w] = to]

-----------------------------------------------------------------------------
(* mic_test_request_stop, dac_tone_request_stop and                        *)
(* audio_loopback_request_stop have the same body.  It is not atomic: the  *)
(* handle is read first and acted upon later, while the worker runs.       *)

Target(r) == Head(toStop[r])

CallReturns(r) ==
  /\ toStop'   = [toStop EXCEPT ![r] = Tail(@)]
  /\ callStep' = [callStep EXCEPT ![r] = "check"]

RequestStopCheck(r) ==
  /\ toStop[r] # <<>>
  /\ callStep[r] = "check"
  /\ callStep' = [callStep EXCEPT
                    ![r] = IF taskHandle[Target(r)] THEN "mark" ELSE "idle"]
  /\ UNCHANGED <<testState, lastError, stopReq, taskHandle, chan, owner, pc,
                 waited, toStop, page>>

(* The handle was NULL.  The state is tested and written in one action:    *)
(* the worker is gone and nobody can start it during the call.             *)
RequestStopIdle(r) ==
  /\ toStop[r] # <<>>
  /\ callStep[r] = "idle"
  /\ testState' = [testState EXCEPT
                     ![Target(r)] = IF @ = "ERROR" THEN @ ELSE "STOPPED"]
  /\ CallReturns(r)
  /\ UNCHANGED <<lastError, stopReq, taskHandle, chan, owner, pc, waited,
                 page>>

RequestStopMark(r) ==
  /\ toStop[r] # <<>>
  /\ callStep[r] = "mark"
  /\ testState' = [testState EXCEPT ![Target(r)] = "STOPPING"]
  /\ callStep'  = [callStep EXCEPT ![r] = "flag"]
  /\ UNCHANGED <<lastError, stopReq, taskHandle, chan, owner, pc, waited,
                 toStop, page>>

RequestStopFlag(r) ==
  /\ toStop[r] # <<>>
  /\ callStep[r] = "flag"
  /\ stopReq' = [stopReq EXCEPT ![Target(r)] = TRUE]
  /\ CallReturns(r)
  /\ UNCHANGED <<testState, lastError, taskHandle, chan, owner, pc, waited,
                 page>>

RequestStop(r) ==
  RequestStopCheck(r) \/ RequestStopIdle(r) \/ RequestStopMark(r)
    \/ RequestStopFlag(r)

-----------------------------------------------------------------------------
(* The LVGL task.  A callback runs to its end before the next one starts,  *)
(* and the buttons exist only while the page is shown.                     *)

UiIdle == page = "audio" /\ toStop["ui"] = <<>>

(* The tests at the head of the ..._start functions: is worker w neither   *)
(* alive nor in a state that means it is.                                  *)
Inactive(w) == ~taskHandle[w] /\ testState[w] \notin Active

(* The rest of a ..._start function: the flags are reset and xTaskCreate   *)
(* either stores the handle and makes the task ready, or fails.  One       *)
(* action: until the task exists no other task writes these variables.     *)
Launch(w, state) ==
  /\ stopReq' = [stopReq EXCEPT ![w] = FALSE]
  /\ \/ /\ testState'  = [testState EXCEPT ![w] = state]
        /\ lastError'  = [lastError EXCEPT ![w] = "OK"]
        /\ taskHandle' = [taskHandle EXCEPT ![w] = TRUE]
        /\ pc'         = [pc EXCEPT ![w] = "begin"]
     \/ /\ testState'  = [testState EXCEPT ![w] = "ERROR"]
        /\ lastError'  = [lastError EXCEPT ![w] = "NO_MEM"]
        /\ UNCHANGED <<taskHandle, pc>>
  /\ UNCHANGED <<chan, owner, waited, ui>>

(* Mutant of MicStart: the loopback worker is not looked at.               *)
MicStartUnguarded ==
  /\ UiIdle /\ "mic" \in Buttons
  /\ Inactive("mic")
  /\ Launch("mic", "STARTING")

(* The guards read the handles and states one after the other.  A worker   *)
(* only ever leaves on its own, so what was seen inactive stays so until   *)
(* this callback changes it, and one action is enough.                     *)
MicStart ==
  /\ UiIdle /\ "mic" \in Buttons
  /\ Inactive("loop")
  /\ Inactive("mic")
  /\ Launch("mic", "STARTING")

DacStart ==
  /\ UiIdle /\ "dac" \in Buttons
  /\ Inactive("loop")
  /\ Inactive("dac")
  /\ Launch("dac", "STARTING")

LoopbackStart ==
  /\ UiIdle /\ "loop" \in Buttons
  /\ Inactive("loop")
  /\ Launch("loop", "WAITING")

(* The three Stop buttons.                                                 *)
StopButton(w) ==
  /\ UiIdle
  /\ toStop' = [toStop EXCEPT !["ui"] = <<w>>]
  /\ UNCHANGED <<testState, lastError, stopReq, taskHandle, chan, owner, pc,
                 waited, callStep, page>>

(* Mutant of Back: only the microphone is stopped.                         *)
BackStopsMicOnly ==
  /\ UiIdle
  /\ toStop' = [toStop EXCEPT !["ui"] = <<"mic", "mic">>]
  /\ page'   = "leaving"
  /\ UNCHANGED <<testState, lastError, stopReq, taskHandle, chan, owner, pc,
                 waited, callStep>>

(* audio_mic_back_cb stops all three, then pop_menu calls show_menu, which *)
(* stops the microphone once more because the audio page is left.          *)
Back ==
  /\ UiIdle
  /\ toStop' = [toStop EXCEPT !["ui"] = <<"mic", "dac", "loop", "mic">>]
  /\ page'   = "leaving"
  /\ UNCHANGED <<testState, lastError, stopReq, taskHandle, chan, owner, pc,
                 waited, callStep>>

BackDone ==
  /\ page = "leaving"
  /\ toStop["ui"] = <<>>
  /\ page' = "other"
  /\ UNCHANGED <<testState, lastError, stopReq, taskHandle, chan, owner, pc,
                 waited, toStop, callStep>>

OpenPage ==
  /\ page = "other"
  /\ page' = "audio"
  /\ UNCHANGED <<testState, lastError, stopReq, taskHandle, chan, owner, pc,
                 waited, toStop, callStep>>

User == MicStart \/ DacStart \/ LoopbackStart \/ Back \/ OpenPage
          \/ \E w \in Worker : StopButton(w)

-----------------------------------------------------------------------------
(* What the workers do alike.                                              *)

(* i2s_new_channel on controller p; the driver refuses it while the        *)
(* controller is occupied.                                                 *)
OpenChannel(w, p, from, to) ==
  /\ owner[p] = NoOwner
  /\ owner' = [owner EXCEPT ![p] = w]
  /\ chan'  = [chan EXCEPT ![w] = @ \cup {p}]
  /\ Goto(w, from, to)
  /\ UNCHANGED <<testState, lastError, stopReq, taskHandle, waited, ui>>

(* A GPIO or I2S call fails (an occupied controller is one reason): the    *)
(* worker records the error, sets ERROR and goes to its cleanup.  The      *)
(* failing call changes nothing that is shared, so it is part of the       *)
(* action that reports it.                                                 *)
Fail(w, from) ==
  /\ Goto(w, from, "release")
  /\ lastError' = [lastError EXCEPT ![w] = "FAIL"]
  /\ testState' = [testState EXCEPT ![w] = "ERROR"]
  /\ UNCHANGED <<stopReq, taskHandle, chan, owner, waited, ui>>

(* Mutant of Publish: the stop flag is reset once the worker runs.         *)
PublishForgetsStop(w, error) ==
  /\ Goto(w, "configure", "poll")
  /\ testState' = [testState EXCEPT ![w] = "RUNNING"]
  /\ lastError' = [lastError EXCEPT ![w] = error]
  /\ stopReq'   = [stopReq EXCEPT ![w] = FALSE]
  /\ UNCHANGED <<taskHandle, chan, owner, waited, ui>>

(* The channels are configured and enabled and the main loop is entered:   *)
(* xxx_test_state = RUNNING, whatever it was; error is what the code       *)
(* leaves in xxx_last_error.                                               *)
Publish(w, error) ==
  /\ Goto(w, "configure", "poll")
  /\ testState' = [testState EXCEPT ![w] = "RUNNING"]
  /\ lastError' = [lastError EXCEPT ![w] = error]
  /\ UNCHANGED <<stopReq, taskHandle, chan, owner, waited, ui>>

(* while (!xxx_stop_requested): the flag ends the loop.  A round that      *)
(* transfers a block changes nothing modelled here.                        *)
SeeStop(w) ==
  /\ stopReq[w]
  /\ Goto(w, "poll", "release")
  /\ UNCHANGED <<testState, lastError, stopReq, taskHandle, chan, owner,
                 waited, ui>>

(* A transfer fails, maybe one that began before a stop was requested.     *)
TransferFails(w) == Fail(w, "poll")

(* cleanup: if there is a channel on p, disable and delete it and set its  *)
(* pointer to NULL.  One action: those who look at the pointer also look   *)
(* at the handle, which is set to NULL later.  A channel that is there and *)
(* disabled is always deleted; the driver refuses only a running one.      *)
DeleteChannel(w, p, from, to) ==
  /\ Goto(w, from, to)
  /\ owner' = IF p \in chan[w] THEN [owner EXCEPT ![p] = NoOwner] ELSE owner
  /\ chan'  = [chan EXCEPT ![w] = @ \ {p}]
  /\ UNCHANGED <<testState, lastError, stopReq, taskHandle, waited, ui>>

(* Mutant of Settle: the error is reset whatever the state is.             *)
SettleForgetsError(w) ==
  /\ Goto(w, "settle", "clearStop")
  /\ testState' = [testState EXCEPT ![w] = IF @ = "ERROR" THEN @ ELSE "STOPPED"]
  /\ lastError' = [lastError EXCEPT ![w] = "OK"]
  /\ UNCHANGED <<stopReq, taskHandle, chan, owner, waited, ui>>

(* if (state != ERROR) { state = STOPPED; last_error = ESP_OK; }  Merged:  *)
(* the others write STOPPING only, never ERROR, so the test stays true.    *)
Settle(w) ==
  /\ Goto(w, "settle", "clearStop")
  /\ IF testState[w] = "ERROR"
       THEN UNCHANGED <<testState, lastError>>
       ELSE /\ testState' = [testState EXCEPT ![w] = "STOPPED"]
            /\ lastError' = [lastError EXCEPT ![w] = "OK"]
  /\ UNCHANGED <<stopReq, taskHandle, chan, owner, waited, ui>>

ClearStop(w) ==
  /\ Goto(w, "clearStop", "clearHandle")
  /\ stopReq' = [stopReq EXCEPT ![w] = FALSE]
  /\ UNCHANGED <<testState, lastError, taskHandle, chan, owner, waited, ui>>

(* xxx_task_handle = NULL; vTaskDelete(NULL): the task touches no shared   *)
(* variable any more.                                                      *)
ClearHandle(w) ==
  /\ Goto(w, "clearHandle", "none")
  /\ taskHandle' = [taskHandle EXCEPT ![w] = FALSE]
  /\ UNCHANGED <<testState, lastError, stopReq, chan, owner, waited, ui>>

Finish(w) == Settle(w) \/ ClearStop(w) \/ ClearHandle(w)

-----------------------------------------------------------------------------
(* mic_capture_task                                                        *)

MicOpen ==
  \/ OpenChannel("mic", "I2S0", "begin", "configure")
  \/ Fail("mic", "begin")
  \/ Fail("mic", "configure")

(* A read that times out goes round, another error ends the loop.          *)
MicCapture ==
  Publish("mic", "OK") \/ SeeStop("mic") \/ TransferFails("mic")

MicCleanup ==
  DeleteChannel("mic", "I2S0", "release", "settle") \/ Finish("mic")

Mic == MicOpen \/ MicCapture \/ MicCleanup

-----------------------------------------------------------------------------
(* dac_tone_task                                                           *)

(* The task sets STARTING itself, over a STOPPING that came first.         *)
DacBegin ==
  /\ Goto("dac", "begin", "open")
  /\ testState' = [testState EXCEPT !["dac"] = "STARTING"]
  /\ lastError' = [lastError EXCEPT !["dac"] = "OK"]
  /\ UNCHANGED <<stopReq, taskHandle, chan, owner, waited, ui>>

DacOpen ==
  \/ OpenChannel("dac", "I2S1", "open", "configure")
  \/ Fail("dac", "open")
  \/ Fail("dac", "configure")

(* Here a write that times out is an error as well.                        *)
DacTone ==
  Publish("dac", lastError["dac"]) \/ SeeStop("dac") \/ TransferFails("dac")

(* Mutant of DacCleanup: the channel is not deleted.                       *)
DacCleanupLeaks ==
  \/ /\ Goto("dac", "release", "settle")
     /\ UNCHANGED <<testState, lastError, stopReq, taskHandle, chan, owner,
                    waited, ui>>
  \/ Finish("dac")

DacCleanup ==
  DeleteChannel("dac", "I2S1", "release", "settle") \/ Finish("dac")

Dac == DacBegin \/ DacOpen \/ DacTone \/ DacCleanup

-----------------------------------------------------------------------------
(* audio_loopback_task                                                     *)

LoopbackBegin ==
  /\ Goto("loop", "begin", "request")
  /\ testState' = [testState EXCEPT !["loop"] = "WAITING"]
  /\ lastError' = [lastError EXCEPT !["loop"] = "OK"]
  /\ toStop'    = [toStop EXCEPT !["loop"] = <<"mic", "dac">>]
  /\ UNCHANGED <<stopReq, taskHandle, chan, owner, waited, callStep, page>>

LoopbackRequested ==
  /\ toStop["loop"] = <<>>
  /\ Goto("loop", "request", "wait")
  /\ UNCHANGED <<testState, lastError, stopReq, taskHandle, chan, owner,
                 waited, ui>>

(* Mutant of OthersBusy: the DAC test is not looked at.                    *)
MicBusy == taskHandle["mic"] \/ chan["mic"] # {}

(* mic_task_handle, mic_rx_chan, dac_tone_task_handle or dac_tx_chan is    *)
(* not NULL.  While this task lives nobody starts those workers, so the    *)
(* four reads may be taken together.                                       *)
OthersBusy == \E w \in {"mic", "dac"} : taskHandle[w] \/ chan[w] # {}

LoopbackWait ==
  /\ pc["loop"] = "wait"
  /\ ~stopReq["loop"] /\ OthersBusy /\ waited < MaxWait
  /\ waited' = waited + 1
  /\ UNCHANGED <<testState, lastError, stopReq, taskHandle, chan, owner, pc,
                 ui>>

(* The wait is over: stopped, timed out, or the controllers are free.      *)
(* The local wait_iteration is not used any more.                          *)
LoopbackStopped ==
  /\ stopReq["loop"]
  /\ Goto("loop", "wait", "release")
  /\ waited' = 0
  /\ UNCHANGED <<testState, lastError, stopReq, taskHandle, chan, owner, ui>>

LoopbackTimeout ==
  /\ ~stopReq["loop"] /\ OthersBusy /\ waited >= MaxWait
  /\ Goto("loop", "wait", "release")
  /\ lastError' = [lastError EXCEPT !["loop"] = "TIMEOUT"]
  /\ testState' = [testState EXCEPT !["loop"] = "ERROR"]
  /\ waited' = 0
  /\ UNCHANGED <<stopReq, taskHandle, chan, owner, ui>>

(* Mutant of LoopbackTakeOver: the result of the wait is not checked.      *)
LoopbackTakeOverUnchecked ==
  /\ ~stopReq["loop"]
  /\ Goto("loop", "wait", "open")
  /\ testState' = [testState EXCEPT !["loop"] = "STARTING"]
  /\ waited' = 0
  /\ UNCHANGED <<lastError, stopReq, taskHandle, chan, owner, ui>>

LoopbackTakeOver ==
  /\ ~stopReq["loop"] /\ ~OthersBusy
  /\ Goto("loop", "wait", "open")
  /\ testState' = [testState EXCEPT !["loop"] = "STARTING"]
  /\ waited' = 0
  /\ UNCHANGED <<lastError, stopReq, taskHandle, chan, owner, ui>>

(* Mutant of LoopbackHandOff: the wait has no way out for a stopped        *)
(* worker.                                                                 *)
LoopbackHandOffDeaf ==
  LoopbackRequested \/ LoopbackWait \/ LoopbackTimeout \/ LoopbackTakeOver

LoopbackHandOff ==
  LoopbackRequested \/ LoopbackWait \/ LoopbackStopped \/ LoopbackTimeout
    \/ LoopbackTakeOver

LoopbackOpenTx ==
  OpenChannel("loop", "I2S1", "open", "openRx") \/ Fail("loop", "open")

LoopbackOpenRx ==
  \/ OpenChannel("loop", "I2S0", "openRx", "configure")
  \/ Fail("loop", "openRx")
  \/ Fail("loop", "configure")

LoopbackStream ==
  Publish("loop", lastError["loop"]) \/ SeeStop("loop")
    \/ TransferFails("loop")

LoopbackCleanup ==
  \/ DeleteChannel("loop", "I2S0", "release", "releaseTx")
  \/ DeleteChannel("loop", "I2S1", "releaseTx", "settle")
  \/ Finish("loop")

Loopback == LoopbackBegin \/ LoopbackHandOff \/ LoopbackOpenTx
              \/ LoopbackOpenRx \/ LoopbackStream \/ LoopbackCleanup

-----------------------------------------------------------------------------
Next == User \/ BackDone \/ Mic \/ Dac \/ Loopback
          \/ \E r \in Requester : RequestStop(r)

(* A worker that streams with no stop request goes on streaming; nothing   *)
(* forces a transfer to fail.                                              *)
Progress(w) == pc[w] = "poll" => stopReq[w]

(* The scheduler keeps running every task that is ready: a callback that   *)
(* began ends, and the workers go on (each driver call has a timeout).     *)
(* Nothing is assumed of the user.                                         *)
Fairness ==
  /\ WF_vars(BackDone)
  /\ WF_vars(Mic /\ Progress("mic"))
  /\ WF_vars(Dac /\ Progress("dac"))
  /\ WF_vars(Loopback /\ Progress("loop"))
  /\ \A r \in Requester : WF_vars(RequestStop(r))

Spec     == Init /\ [][Next]_vars
FairSpec == Spec /\ Fairness

-----------------------------------------------------------------------------
(* Every variable stays in its type.                                       *)
TypeOK ==
  /\ testState  \in [Worker -> TestState]
  /\ lastError  \in [Worker -> ErrorCode]
  /\ stopReq    \in [Worker -> BOOLEAN]
  /\ taskHandle \in [Worker -> BOOLEAN]
  /\ chan       \in [Worker -> SUBSET Controller]
  /\ owner      \in [Controller -> Worker \cup {NoOwner}]
  /\ pc         \in [Worker -> PC]
  /\ waited     \in 0..MaxWait
  /\ toStop     \in [Requester -> Seq(Worker)]
  /\ callStep   \in [Requester -> Step]
  /\ page       \in {"audio", "leaving", "other"}

(* Where a worker goes through its set-up and main loop.  The two meters   *)
(* claim their controller from birth, the loopback worker only once its    *)
(* hand-off succeeded.                                                     *)
WorkingPC == {"open", "openRx", "configure", "poll"}
Claims(w) == IF pc[w] \in WorkingPC \/ (w # "loop" /\ pc[w] = "begin")
               THEN Uses[w] ELSE chan[w]

(* The parts of the inductive invariant behind the safety properties.      *)

(* The handle of a worker is not NULL exactly while its task exists.       *)
HandleInv == \A w \in Worker : taskHandle[w] <=> pc[w] # "none"

(* Where the worker is tells which channels it can have.                   *)
Channelless == {"none", "begin", "request", "wait", "open", "settle",
                "clearStop", "clearHandle"}
ChanInv ==
  /\ \A w \in Worker : chan[w] \subseteq Uses[w]
  /\ \A w \in Worker : pc[w] \in Channelless => chan[w] = {}
  /\ pc["loop"] \in {"openRx", "releaseTx"} => chan["loop"] \subseteq {"I2S1"}
  /\ \A w \in {"mic", "dac"} : pc[w] \notin {"openRx", "releaseTx"}

(* The driver and the channel pointers agree.                              *)
OwnerInv == \A p \in Controller : \A w \in Worker :
  owner[p] = w <=> p \in chan[w]

(* The loopback worker touches a controller only once the other two tasks  *)
(* are gone, and they stay away until it is done.                          *)
HandOffInv ==
  pc["loop"] \in WorkingPC \/ chan["loop"] # {}
    => pc["mic"] = "none" /\ pc["dac"] = "none"

IInv == TypeOK /\ HandleInv /\ ChanInv /\ OwnerInv /\ HandOffInv

(* Two tasks never configure or drive the same I2S controller at the same  *)
(* time (main.c:419-421): the claims of the workers are disjoint.          *)
ControllerExclusive ==
  \A v, w \in Worker : v # w => Claims(v) \cap Claims(w) = {}

(* The driver never has to refuse a channel because another task still     *)
(* occupies the controller: whoever is about to call i2s_new_channel finds *)
(* it free, so ESP_ERR_NOT_FOUND cannot happen.                            *)
OpenFindsControllerFree ==
  /\ pc["mic"] = "begin"   => owner["I2S0"] = NoOwner
  /\ pc["dac"] = "open"    => owner["I2S1"] = NoOwner
  /\ pc["loop"] = "open"   => owner["I2S1"] = NoOwner
  /\ pc["loop"] = "openRx" => owner["I2S0"] = NoOwner

(* A worker that is gone left nothing behind, on whatever path it went:    *)
(* its handle is NULL only once its channels are deleted and forgotten.    *)
(* The hand-off and the next start rely on it.                             *)
NoOrphanedChannel ==
  \A w \in Worker : ~taskHandle[w] =>
    /\ chan[w] = {}
    /\ \A p \in Controller : owner[p] # w

(* The page never reports ERROR without an error code: the code is still   *)
(* there when the ERROR state it belongs to survives a stop request.       *)
ErrorHasCause == \A w \in Worker :
  testState[w] = "ERROR" => lastError[w] # "OK"

(* A stop request that reached a live worker ends that worker, although    *)
(* the worker overwrites the STOPPING state when it enters its main loop.  *)
StopHonoured == \A w \in Worker : stopReq[w] ~> ~taskHandle[w]

(* "requesting all three to stop guarantees the page leaves no audio task  *)
(* behind" (main.c:3632-3633): once the page is left and not opened again, *)
(* every audio worker is gone.                                             *)
LeavingEndsAudio ==
  page = "other" ~> (page # "other" \/ \A w \in Worker : ~taskHandle[w])

(* The hand-off does not hang: a loopback worker that waits for the other  *)
(* two goes on, gives up or is stopped.                                    *)
HandOffEnds == pc["loop"] = "wait" ~> pc["loop"] # "wait"

(* The design implements the arbiter of controllers.                       *)
Arbiter == INSTANCE AudioArbiter
             WITH holders <- {w \in Worker : Claims(w) # {}}
ArbiterSpec == Arbiter!Spec

(* "The worker notices the stop flag, disables/deletes its I2S channel,    *)
(* then marks the state STOPPED" (main.c:3573-3574): a worker that is gone *)
(* while nobody is inside a stop request for it does not read STOPPING.    *)
StopRequestSettles == \A w \in Worker :
  /\ ~taskHandle[w]
  /\ \A r \in Requester : toStop[r] = <<>>
  => testState[w] # "STOPPING"
=============================================================================
