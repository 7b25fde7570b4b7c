--------------------------- MODULE MediaCommands ----------------------------
(***************************************************************************)
(* The command side of main/media_controller_ble.c: media_controller_send, *)
(* called from LVGL, queues a key; media_command_task takes it, checks the *)
(* connection again, and sends a press report, waits, and sends a release  *)
(* report.  It runs beside MediaAdvertising, whose flags both sides read.  *)
(*                                                                         *)
(* Commands are numbered in the order they are accepted; which key a       *)
(* command stands for makes no difference to what is modelled.  A report   *)
(* holds one key, so a press replaces the key that is down.                *)
(***************************************************************************)
EXTENDS Naturals, Sequences

CONSTANTS
  MaxPending,   \* bound of MediaAdvertising
  QueueLength,  \* MEDIA_COMMAND_QUEUE_LENGTH
  MaxCommands   \* bound: commands accepted

ASSUME BoundAssumption ==
  /\ MaxPending \in Nat /\ MaxCommands \in Nat
  /\ QueueLength \in Nat \ {0}

VARIABLES
  advDataReady, hidStarted, connected, advertising, pc, booting, btcQueue,
  hidQueue, onAir, link, devConnected, refused

Radio == INSTANCE MediaAdvertising

radioVars == <<advDataReady, hidStarted, connected, advertising, pc, booting,
               btcQueue, hidQueue, onAir, link, devConnected, refused>>

VARIABLES
  queueReady,    \* s_command_queue is not NULL and its task runs
  uiPc,          \* where media_controller_send is
  accepted,      \* history: commands accepted
  queue,         \* s_command_queue
  taskPc,        \* where media_command_task is
  command,       \* the command it took
  lastPress,     \* history: the last command whose press report was taken
  down,          \* the command whose key is down on the host, 0 for none
  releaseFailed  \* history: the stack refused the release of lastPress

cmdVars == <<queueReady, uiPc, accepted, queue, taskPc, command, lastPress,
             down, releaseFailed>>
vars    == <<radioVars, cmdVars>>

(* media_controller_init runs before the user interface.  If it fails at   *)
(* its end, there is neither queue nor task, but the profile lives on.     *)
Init ==
  /\ Radio!Init
  /\ queueReady    \in BOOLEAN
  /\ uiPc          = "idle"
  /\ accepted      = 0
  /\ queue         = <<>>
  /\ taskPc        = "receive"
  /\ command       = 0
  /\ lastPress     = 0
  /\ down          = 0
  /\ releaseFailed = FALSE

-----------------------------------------------------------------------------
(* media_controller_send in the LVGL task.                                 *)

(* The tests pass; otherwise it returns ESP_ERR_INVALID_STATE.             *)
SendTests ==
  /\ uiPc = "idle" /\ accepted < MaxCommands
  /\ hidStarted /\ connected /\ queueReady
  /\ uiPc' = "send"
  /\ UNCHANGED <<radioVars, queueReady, accepted, queue, taskPc, command,
                 lastPress, down, releaseFailed>>

(* Mutant of SendQueues: the command overtakes those that wait.            *)
SendQueuesFirst ==
  /\ uiPc = "send"
  /\ uiPc' = "idle"
  /\ IF Len(queue) < QueueLength
       THEN /\ accepted' = accepted + 1
            /\ queue'    = <<accepted + 1>> \o queue
       ELSE UNCHANGED <<accepted, queue>>
  /\ UNCHANGED <<radioVars, queueReady, taskPc, command, lastPress, down,
                 releaseFailed>>

(* xQueueSend without waiting: a full queue is ESP_ERR_TIMEOUT.            *)
SendQueues ==
  /\ uiPc = "send"
  /\ uiPc' = "idle"
  /\ IF Len(queue) < QueueLength
       THEN /\ accepted' = accepted + 1
            /\ queue'    = Append(queue, accepted + 1)
       ELSE UNCHANGED <<accepted, queue>>
  /\ UNCHANGED <<radioVars, queueReady, taskPc, command, lastPress, down,
                 releaseFailed>>

-----------------------------------------------------------------------------
(* media_command_task                                                      *)

(* Mutant of Receive: it waits for a host before it takes a command.       *)
ReceiveConnected ==
  /\ taskPc = "receive" /\ queueReady /\ queue # <<>> /\ connected
  /\ command' = Head(queue)
  /\ queue'   = Tail(queue)
  /\ taskPc'  = "check"
  /\ UNCHANGED <<radioVars, queueReady, uiPc, accepted, lastPress, down,
                 releaseFailed>>

Receive ==
  /\ taskPc = "receive" /\ queueReady /\ queue # <<>>
  /\ command' = Head(queue)
  /\ queue'   = Tail(queue)
  /\ taskPc'  = "check"
  /\ UNCHANGED <<radioVars, queueReady, uiPc, accepted, lastPress, down,
                 releaseFailed>>

(* A command that outlived its connection is dropped.                      *)
Check ==
  /\ taskPc = "check"
  /\ taskPc' = IF connected /\ devConnected THEN "press" ELSE "receive"
  /\ UNCHANGED <<radioVars, queueReady, uiPc, accepted, queue, command,
                 lastPress, down, releaseFailed>>

(* esp_hidd_dev_input_set.  The profile refuses a report when it knows no  *)
(* host, or for a reason of its own; a report it takes reaches the host    *)
(* unless the link has gone meanwhile.                                     *)
Taken(key) == devConnected /\ down' = IF link THEN key ELSE 0

Press ==
  /\ taskPc = "press"
  /\ \/ /\ Taken(command)
        /\ lastPress' = command /\ releaseFailed' = FALSE
        /\ taskPc' = "release"
     \/ /\ taskPc' = "receive"
        /\ UNCHANGED <<lastPress, down, releaseFailed>>
  /\ UNCHANGED <<radioVars, queueReady, uiPc, accepted, queue, command>>

(* Mutant of Release: it sends the press report once more.                 *)
ReleaseRepeats ==
  /\ taskPc = "release"
  /\ \/ Taken(command) /\ UNCHANGED releaseFailed
     \/ releaseFailed' = TRUE /\ UNCHANGED down
  /\ taskPc' = "receive"
  /\ UNCHANGED <<radioVars, queueReady, uiPc, accepted, queue, command,
                 lastPress>>

(* After MEDIA_KEY_HOLD_MS; a refusal is only logged.                      *)
Release ==
  /\ taskPc = "release"
  /\ \/ Taken(0) /\ UNCHANGED releaseFailed
     \/ releaseFailed' = TRUE /\ UNCHANGED down
  /\ taskPc' = "receive"
  /\ UNCHANGED <<radioVars, queueReady, uiPc, accepted, queue, command,
                 lastPress>>

Send == SendTests \/ SendQueues
Task == Receive \/ Check \/ Press \/ Release

(* The connection's side; a host that leaves lets every key up.            *)
Connection ==
  /\ Radio!Next
  /\ down' = IF link' THEN down ELSE 0
  /\ UNCHANGED <<queueReady, uiPc, accepted, queue, taskPc, command,
                 lastPress, releaseFailed>>

Next == Send \/ Task \/ Connection

(* The command task runs when it is ready, as those of the connection do.  *)
Fairness == WF_vars(Task) /\ Radio!Fairness

Spec     == Init /\ [][Next]_vars
FairSpec == Spec /\ Fairness

-----------------------------------------------------------------------------
(* Every variable stays in its type; the queue is never longer than it is. *)
TypeOK ==
  /\ Radio!TypeOK
  /\ queueReady    \in BOOLEAN
  /\ uiPc          \in {"idle", "send"}
  /\ accepted      \in 0..MaxCommands
  /\ queue         \in Seq(1..MaxCommands) /\ Len(queue) <= QueueLength
  /\ taskPc        \in {"receive", "check", "press", "release"}
  /\ command       \in 0..MaxCommands
  /\ lastPress     \in 0..MaxCommands
  /\ down          \in 0..MaxCommands
  /\ releaseFailed \in BOOLEAN

(* A command is pressed at most once, and in the order the presses of the  *)
(* buttons were accepted, across lost connections and refused reports.     *)
PressedInOrder == [][lastPress' # lastPress => lastPress' > lastPress]_vars

(* Whatever is lost on the way, a key that is down on the host is the one  *)
(* last pressed, and it is down because it is being held, or because the   *)
(* stack refused its release: not because a report was wrong or reordered. *)
DownHasCause == down # 0 =>
  down = lastPress /\ (taskPc = "release" \/ releaseFailed)

(* An accepted command is dealt with, whether or not a host ever returns.  *)
Open(n) ==
  \/ taskPc # "receive" /\ command = n
  \/ \E i \in 1..Len(queue) : queue[i] = n

EveryCommandSettles == \A n \in 1..MaxCommands : Open(n) ~> ~Open(n)

(* What the connection promises for itself holds beside the commands as    *)
(* well; MediaAdvertising explains each of the four.                       *)
ConnectedFollowsLink    == Radio!ConnectedFollowsLink
AdvertisingFollowsRadio == Radio!AdvertisingFollowsRadio
AirNeedsBoth            == Radio!AirNeedsBoth
Reachable               == Radio!Reachable
=============================================================================
