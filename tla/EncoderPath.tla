---------------------------- MODULE EncoderPath -----------------------------
(***************************************************************************)
(* How a turn of the bezel reaches the page that is shown.                 *)
(*                                                                         *)
(*   knob callbacks          set a bit of the event group knob_even_       *)
(*   user_encoder_loop_task  takes the bits, steps encoder_steps up, down  *)
(*   encoder_scroll_timer_cb copies encoder_steps, resets it, applies it   *)
(*   show_menu               resets it                                     *)
(*                                                                         *)
(* The three tasks run in parallel.  encoder_steps is a plain volatile     *)
(* int32_t: encoder_steps-- and ++ are a load and a store, and the timer's *)
(* copy and reset are two accesses.  What a page does with its steps       *)
(* (count, send volume keys, scroll) is abstracted to their sum.           *)
(***************************************************************************)
EXTENDS Integers

CONSTANT MaxTurns  \* bound: turns in each direction

ASSUME BoundAssumption == MaxTurns \in Nat

Direction == {"left", "right"}

VARIABLES
  turned,    \* history: turns made in each direction
  bits,      \* the event group: bit 0 is "left", bit 1 is "right"
  taskPc,    \* where user_encoder_loop_task is
  event,     \* the bits it took
  loaded,    \* the value of encoder_steps it loaded
  steps,     \* encoder_steps
  uiPc,      \* where encoder_scroll_timer_cb is
  copied,    \* its local copy of the steps
  applied,   \* history: the sum of the steps the pages were given
  accepted,  \* history: the sum of the turns that set a bit
  disturbed  \* history: steps were dropped, or two tasks met in their middle

task    == <<taskPc, event, loaded>>
lvgl    == <<uiPc, copied, applied>>
account == <<accepted, disturbed>>

vars == <<turned, bits, task, steps, lvgl, account>>

(* Nothing of a turn is on its way.                                        *)
Settled == bits = {} /\ taskPc = "wait" /\ steps = 0 /\ uiPc = "idle"

Init ==
  /\ turned  = [d \in Direction |-> 0]
  /\ bits    = {}
  /\ taskPc  = "wait"
  /\ event   = {}
  /\ loaded  = 0
  /\ steps   = 0
  /\ uiPc    = "idle"
  /\ copied  = 0
  /\ applied = 0
  /\ accepted = 0
  /\ disturbed = FALSE

(* encoder_steps-- and encoder_steps++.                                    *)
Delta(d) == IF d = "left" THEN -1 ELSE 1

(* _knob_left_cb, _knob_right_cb in the esp_timer task.  A turn whose bit  *)
(* is still set adds nothing.  When everything has settled the account is  *)
(* opened anew.                                                            *)
Turn(d) ==
  /\ turned[d] < MaxTurns
  /\ turned'   = [turned EXCEPT ![d] = @ + 1]
  /\ bits'     = bits \cup {d}
  /\ accepted' = (IF Settled THEN applied ELSE accepted)
                   + (IF d \in bits THEN 0 ELSE Delta(d))
  /\ disturbed' = (disturbed /\ ~Settled)
  /\ UNCHANGED <<task, steps, lvgl>>

-----------------------------------------------------------------------------
(* user_encoder_loop_task                                                  *)

(* Mutant of TakeBits: both bits are tested as bit 0.                      *)
TakeBitsSwapped ==
  /\ taskPc = "wait" /\ bits # {}
  /\ event'  = IF bits = {"right"} THEN {"left"} ELSE bits
  /\ bits'   = {}
  /\ taskPc' = "left"
  /\ UNCHANGED <<turned, loaded, steps, lvgl, account>>

(* xEventGroupWaitBits, which clears the bits it returns.                  *)
TakeBits ==
  /\ taskPc = "wait" /\ bits # {}
  /\ event'  = bits
  /\ bits'   = {}
  /\ taskPc' = "left"
  /\ UNCHANGED <<turned, loaded, steps, lvgl, account>>

(* Mutant of After: `else if`, which passes the right bit over.            *)
AfterElseIf(d) == IF d = "left" /\ "left" \notin event THEN "right" ELSE "wait"

After(d) == IF d = "left" THEN "right" ELSE "wait"

Store(d) == IF d = "left" THEN "storeLeft" ELSE "storeRight"

Skip(d) ==
  /\ taskPc = d /\ d \notin event
  /\ taskPc' = After(d)
  /\ UNCHANGED <<turned, bits, event, loaded, steps, lvgl, account>>

LoadSteps(d) ==
  /\ taskPc = d /\ d \in event
  /\ loaded' = steps
  /\ taskPc' = Store(d)
  /\ UNCHANGED <<turned, bits, event, steps, lvgl, account>>

StoreSteps(d) ==
  /\ taskPc = Store(d)
  /\ steps'  = loaded + Delta(d)
  /\ taskPc' = After(d)
  /\ disturbed' = (disturbed \/ uiPc = "reset")
  /\ UNCHANGED <<turned, bits, event, loaded, lvgl, accepted>>

Task == TakeBits \/ \E d \in Direction :
                      Skip(d) \/ LoadSteps(d) \/ StoreSteps(d)

-----------------------------------------------------------------------------
(* The LVGL task.                                                          *)

(* encoder_scroll_timer_cb: nothing to do, or a copy ...                   *)
CopySteps ==
  /\ uiPc = "idle" /\ steps # 0
  /\ copied' = steps
  /\ uiPc'   = "reset"
  /\ UNCHANGED <<turned, bits, task, steps, applied, account>>

(* ... and then the reset; the page gets the copy.                         *)
ResetAndApply ==
  /\ uiPc = "reset"
  /\ steps'   = 0
  /\ applied' = applied + copied
  /\ uiPc'    = "idle"
  /\ copied'  = 0
  /\ disturbed' = (disturbed \/ taskPc \in {"storeLeft", "storeRight"})
  /\ UNCHANGED <<turned, bits, task, accepted>>

Timer == CopySteps \/ ResetAndApply

(* show_menu drops what was not applied yet.                               *)
ShowMenu ==
  /\ uiPc = "idle"
  /\ steps' = 0
  /\ disturbed' = (disturbed \/ steps # 0)
  /\ UNCHANGED <<turned, bits, task, lvgl, accepted>>

Next == Task \/ Timer \/ ShowMenu \/ \E d \in Direction : Turn(d)

(* The encoder task is scheduled and the LVGL timer keeps firing.          *)
Fairness == WF_vars(Task) /\ WF_vars(Timer)

Spec     == Init /\ [][Next]_vars
FairSpec == Spec /\ Fairness

-----------------------------------------------------------------------------
(* Every variable stays in its type.                                       *)
TypeOK ==
  /\ turned  \in [Direction -> 0..MaxTurns]
  /\ bits    \in SUBSET Direction
  /\ taskPc  \in {"wait", "left", "storeLeft", "right", "storeRight"}
  /\ event   \in SUBSET Direction
  /\ loaded  \in Int
  /\ steps   \in Int
  /\ uiPc    \in {"idle", "reset"}
  /\ copied  \in Int
  /\ applied \in Int
  /\ accepted \in Int
  /\ disturbed \in BOOLEAN

(* Nothing that was put together from turns to the other side only points  *)
(* to side d: not the bits on their way, not the task, not a number.       *)
Towards(d, n) == IF d = "left" THEN n < 0 ELSE n > 0
SideInv == \A d \in Direction : turned[d] = 0 =>
  /\ d \notin bits \cup event
  /\ taskPc # Store(d)
  /\ \A n \in {loaded, steps, copied, applied} : ~Towards(d, n)

IInv == TypeOK /\ SideInv

(* However the tasks interleave, a page never moves in a direction the     *)
(* bezel was not turned in.                                                *)
DirectionTruthful == \A d \in Direction :
  Towards(d, copied) \/ Towards(d, applied) => turned[d] > 0

(* Once all tasks are done, the pages were given exactly the turns that    *)
(* set a bit since they were last done: none is dropped by a task that is  *)
(* busy.  Lost are what a page change drops and, with two tasks in the     *)
(* middle of their accesses, a step stored before the timer's reset.       *)
StepsAccounted == Settled /\ ~disturbed => applied = accepted

(* Whatever the interleaving, a turn gets to its page and comes to rest:   *)
(* no bit is forgotten, no late store revives old steps for ever, and,     *)
(* undisturbed, what was turned is what is applied.                        *)
RestComesToPage ==
  bits # {} \/ steps # 0 ~> Settled /\ StepsAccounted

(* "The hardware task only accumulates raw steps" (main.c:187) and the     *)
(* timer will "consume accumulated encoder steps" (main.c:6207): what the  *)
(* pages are given towards one side never exceeds the turns to that side.  *)
NothingAppliedTwice ==
  -turned["left"] <= applied /\ applied <= turned["right"]
=============================================================================
