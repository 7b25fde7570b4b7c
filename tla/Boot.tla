-------------------------------- MODULE Boot --------------------------------
(***************************************************************************)
(* app_main: the parts of the device are made one after the other, and     *)
(* tasks, timers and interrupts begin to use them while it goes on.        *)
(* The result of making a part is checked with ESP_ERROR_CHECK or assert,  *)
(* which reset the device, or it is only logged, or it is not looked at.   *)
(* The parts of the Bluetooth controller are optional: the first failure   *)
(* among them ends media_controller_init.                                  *)
(***************************************************************************)
EXTENDS Naturals, Sequences, Faults

CONSTANT Breakable  \* bound: the parts of which one may be out of order

VARIABLES
  step,    \* where app_main is
  made,    \* the parts that exist
  broken   \* the part that cannot be made, however often it is tried

bootVars == <<step, made, broken>>

(* Mutant of Order: the task is created before its mutex.                  *)
OrderTaskFirst ==
  << "backlight", "spi", "panelIo", "panel", "i2c", "haptic", "touch",
     "nvs", "stack", "gap", "gatts", "hidDevice", "queue", "mediaTask",
     "lvglLib", "buffers", "display", "flushCallback", "tick", "indev",
     "lvglTask", "mutex", "eventGroup", "encoder", "encoderTask", "menu" >>

Order ==
  << "backlight", "spi", "panelIo", "panel", "i2c", "haptic", "touch",
     "nvs", "stack", "gap", "gatts", "hidDevice", "queue", "mediaTask",
     "lvglLib", "buffers", "display", "flushCallback", "tick", "indev",
     "mutex", "lvglTask", "eventGroup", "encoder", "encoderTask", "menu" >>

Part      == {Order[i] : i \in DOMAIN Order}
MediaPart == {"nvs", "stack", "gap", "gatts", "hidDevice", "queue",
              "mediaTask"}
Unchecked == {"backlight", "lvglTask", "eventGroup", "encoderTask"}
Mandatory == Part \ (MediaPart \cup Unchecked \cup {"menu"})

ASSUME BreakableAssumption == Breakable \subseteq Part \ {"menu"}

Booting(part) == step <= Len(Order) /\ Order[step] = part

BootTypeOK ==
  /\ step \in 1..(Len(Order) + 1)
  /\ made \subseteq Part
  /\ broken \in Breakable \cup {"none"}

BootInit ==
  /\ step   = 1
  /\ made   = {}
  /\ broken \in Breakable \cup {"none"}

-----------------------------------------------------------------------------
Make(part) ==
  /\ made' = made \cup {part}
  /\ step' = step + 1
  /\ UNCHANGED broken

PartMade(part) == Booting(part) /\ part # broken /\ Works /\ Make(part)

(* A mandatory part that fails just once is a reset, and is not told apart *)
(* from one.                                                               *)
CannotBeMade(part) == Booting(part) /\ part = broken /\ Works

UncheckedFails(part) ==
  /\ CannotBeMade(part) /\ part \in Unchecked
  /\ step' = step + 1
  /\ UNCHANGED <<made, broken>>

(* When its task cannot be created, media_controller_init deletes the      *)
(* queue; what the other steps have made stays.                            *)
Kept(part) == IF part = "mediaTask" THEN made \ {"queue"} ELSE made

(* A reset begins anew; what is out of order stays so.                     *)
Forget == step' = 1 /\ made' = {} /\ UNCHANGED broken

(* Mutant of MediaFails: ESP_ERROR_CHECK(media_controller_init()).         *)
MediaAborts(part) == CannotBeMade(part) /\ part \in MediaPart /\ Forget

MediaFails(part) ==
  /\ CannotBeMade(part) /\ part \in MediaPart
  /\ made' = Kept(part)
  /\ step' = CHOOSE i \in DOMAIN Order : Order[i] = "lvglLib"
  /\ UNCHANGED broken

(* ESP_ERROR_CHECK and assert.                                             *)
MustReset(part) == CannotBeMade(part) /\ part \in Mandatory

(* The event group is created unchecked; FreeRTOS asserts that there is    *)
(* one when the encoder task waits for its bits.                           *)
EncoderTaskAsserts ==
  "encoderTask" \in made /\ "eventGroup" \notin made

-----------------------------------------------------------------------------
(* What a task, timer or interrupt refers to when it runs.                 *)
Needs(part) ==
  CASE part = "tick"        -> {"lvglLib"}
    [] part = "lvglTask"    -> {"mutex", "lvglLib", "buffers", "display",
                                "panel", "flushCallback", "indev", "i2c",
                                "haptic", "touch"}
    [] part = "flushCallback" -> {"panelIo", "display"}
    [] part = "indev"       -> {"i2c", "touch", "display"}
    [] part = "hidDevice"   -> {"nvs", "stack", "gap", "gatts"}
    [] part = "mediaTask"   -> {"queue", "hidDevice"}
    [] part = "menu"        -> {"mutex", "display"}
    [] part \in {"encoder", "encoderTask"} -> {"eventGroup"}
    [] OTHER                -> {}

(* An event group that cannot be made: see EncoderTaskAsserts.             *)
Asserted == {"eventGroup"} \cap {broken}

(* Whatever runs finds what it refers to, whichever optional parts failed, *)
(* or asserts it, and media commands are queued only if there is a task to *)
(* take them.                                                              *)
ActivityHasItsParts ==
  /\ \A part \in made : Needs(part) \subseteq made \cup Asserted
  /\ "queue" \in made => "mediaTask" \in made \/ Booting("mediaTask")
=============================================================================
