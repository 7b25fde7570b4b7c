------------------------------- MODULE Device -------------------------------
(***************************************************************************)
(* The firmware outside its diagnostics: app_main makes the parts; the     *)
(* LVGL task reads the touch panel, runs the callbacks of buttons, which   *)
(* write to the haptic driver, draws and flushes; app_main takes LVGL's    *)
(* mutex to build the first page.  Calls into drivers fail, and the device *)
(* is reset at any moment; a bound on failures is shared by all parts.     *)
(***************************************************************************)
EXTENDS Boot, DisplayFlush, TouchHaptics

vars == <<bootVars, displayVars, hapticVars, faults>>

Init == BootInit /\ DisplayInit /\ HapticInit /\ FaultInit

TypeOK == BootTypeOK /\ DisplayTypeOK /\ HapticTypeOK /\ FaultTypeOK

-----------------------------------------------------------------------------
Others == <<displayVars, hapticVars>>

(* The bus is made, and drv2605_init begins.                               *)
I2cMade ==
  /\ PartMade("i2c")
  /\ script' = InitScript
  /\ UNCHANGED <<displayVars, chip, requested, abandoned, touchVars>>

HapticMade ==
  /\ PartMade("haptic") /\ script = <<>>
  /\ UNCHANGED Others

OtherPartMade ==
  \/ \E part \in Part \ {"i2c", "haptic", "menu"} : PartMade(part) /\ UNCHANGED Others
  \/ \E part \in Part : UncheckedFails(part) /\ UNCHANGED Others
  \/ \E part \in Part : MediaFails(part) /\ UNCHANGED Others

(* The first page, under the lock.                                         *)
MenuBegins ==
  /\ Booting("menu")
  /\ AppLocks
  /\ UNCHANGED <<bootVars, hapticVars>>

MenuBuilt ==
  /\ Booting("menu")
  /\ AppUnlocks
  /\ Make("menu")
  /\ UNCHANGED hapticVars

AppMain == I2cMade \/ HapticMade \/ OtherPartMade \/ MenuBegins \/ MenuBuilt

(* The state of the ESP32 is lost, the chips keep theirs.                  *)
Restart == Forget /\ DisplayReset

CheckFails ==
  /\ \/ \E part \in Part : MustReset(part)
     \/ EncoderTaskAsserts /\ Works
  /\ Restart /\ HapticReset

(* drv2605_init fails, which app_main checks.                              *)
InitRefused == Booting("haptic") /\ WriteRefused /\ Restart

Reset == Fails /\ Restart /\ HapticReset

-----------------------------------------------------------------------------
LvglRuns == "lvglTask" \in made

Port ==
  /\ LvglRuns
  /\ HandlerBegins \/ HandlerEnds \/ Draw \/ Flush
  /\ UNCHANGED <<bootVars, hapticVars>>

ReadInput ==
  /\ LvglRuns
  /\ InputRead /\ ReadTouch
  /\ UNCHANGED bootVars

Callback ==
  /\ LvglRuns
  /\ \/ lvglPc = "callback" /\ Haptics /\ UNCHANGED displayVars
     \/ CallbacksEnd /\ script = <<>> /\ UNCHANGED hapticVars
  /\ UNCHANGED bootVars

LvglTask == Port \/ ReadInput \/ Callback

HapticInitStep ==
  /\ Booting("haptic") /\ broken # "haptic"
  /\ WriteAccepted
  /\ UNCHANGED <<bootVars, displayVars>>

Panel == TransferDone /\ UNCHANGED <<bootVars, hapticVars>>

Finger == (FingerComesDown \/ FingerGoesUp) /\ UNCHANGED <<bootVars, displayVars>>

Next ==
  \/ AppMain \/ HapticInitStep \/ CheckFails \/ InitRefused \/ Reset
  \/ LvglTask \/ Panel \/ Finger

Spec == Init /\ [][Next]_vars

(* Every task and the SPI driver go on; app_main may find LVGL's mutex taken    *)
(* and free again, and gets it in the end.                                 *)
Fairness ==
  /\ SF_vars(AppMain)
  /\ WF_vars(HapticInitStep)
  /\ WF_vars(LvglTask)
  /\ WF_vars(Panel)

FairSpec == Spec /\ Fairness

-----------------------------------------------------------------------------
(* The first page is built in the end, whatever optional part is out of    *)
(* order, unless LVGL was left waiting for a refused transfer.             *)
MenuComesUp ==
  broken \notin Mandatory \cup {"eventGroup"} =>
    <>[]("menu" \in made \/ transferRefused)
=============================================================================
