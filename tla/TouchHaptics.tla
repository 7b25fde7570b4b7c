---------------------------- MODULE TouchHaptics ----------------------------
(***************************************************************************)
(* The two chips on the I2C bus.  LVGL reads the touch controller through  *)
(* lvgl_touch_cb; a press calls the callbacks of the button it hits, which *)
(* write to the DRV2605 haptic driver, one register at a time.  What is    *)
(* still to be written is a script; the functions of the driver return at  *)
(* the first access that is refused, which drops the rest of the script.   *)
(* A refused access may have reached the chip all the same.                *)
(*                                                                         *)
(* The DRV2605 is external: it keeps its registers when the ESP32 resets,  *)
(* drives the motor while MODE is real-time playback (RTP) and RTPIN is    *)
(* not zero, and plays its slots once when GO is written.  The dumps of    *)
(* its registers only read, and are left out.                              *)
(***************************************************************************)
EXTENDS Naturals, Sequences, Faults

CONSTANT Effects  \* bound: effects of the waveform library on test buttons

ASSUME EffectAssumption == Effects \subseteq Nat

VARIABLES
  chip,      \* the registers of the DRV2605
  script,    \* what the running function has still to write
  requested, \* history: the effect it was called for
  abandoned, \* history: an RTP test broke off, and no MODE since
  finger,    \* a finger is on the glass
  held,      \* LVGL stays with an object that it sent PRESSED to
  presses,   \* history: buttons this touch pressed on the page that is shown
  misread    \* history: a read failed, or the ESP32 was reset, meanwhile

chipVars   == <<chip, script, requested, abandoned>>
touchVars  == <<finger, held, presses, misread>>
hapticVars == <<chipVars, touchVars>>

(* The registers that are kept in chip; GO is a command, and "other" stands *)
(* for those that are set or read once, at the start.                       *)
Stored == {"mode", "rtpin", "seq1", "seq2"}

Register == Stored \cup {"go", "other"}

Write(r, v) == [reg |-> r, val |-> v]
Trigger     == 0
Rtp         == 5
Strongest   == 127
Click       == 1

InitScript == << Write("other", 0), Write("mode", Trigger),
                 Write("rtpin", 0), Write("seq1", Click), Write("seq2", 0),
                 Write("other", 0) >>

PlayEffect(e) == << Write("mode", Trigger), Write("seq1", e),
                    Write("seq2", 0), Write("go", 1) >>

Stop == << Write("go", 0) >>

RtpStart == << Write("mode", Rtp), Write("rtpin", Strongest) >>

(* Mutant of RtpStop: RTPIN is left alone, and MODE with it.               *)
RtpStopGoOnly == << Write("go", 0) >>

RtpStop == << Write("rtpin", 0), Write("mode", Trigger) >>

(* Half a second passes between the two; LVGL waits.                       *)
RtpTest == RtpStart \o RtpStop

HapticTypeOK ==
  /\ chip \in [Stored -> Nat]
  /\ script \in Seq([reg : Register, val : Nat])
  /\ requested \in Nat
  /\ abandoned \in BOOLEAN
  /\ finger \in BOOLEAN /\ held \in BOOLEAN
  /\ presses \in 0..2 /\ misread \in BOOLEAN

HapticInit ==
  /\ chip      = [r \in Stored |-> 0]
  /\ script    = <<>>
  /\ requested = 0
  /\ abandoned = FALSE
  /\ finger    = FALSE
  /\ held      = FALSE
  /\ presses   = 0
  /\ misread   = FALSE

-----------------------------------------------------------------------------
(* drv2605_write_reg, and drv2605_read_reg for the registers of "other".   *)
Store(w) == chip' = [r \in Stored |-> IF r = w.reg THEN w.val ELSE chip[r]]

WriteAccepted ==
  /\ script # <<>>
  /\ Works
  /\ Store(Head(script))
  /\ script'    = Tail(script)
  /\ requested' = IF Tail(script) = <<>> THEN 0 ELSE requested
  /\ abandoned' = (abandoned /\ Head(script) # Write("mode", Trigger))
  /\ UNCHANGED touchVars

Testing == script # <<>> /\ script[Len(script)] = Write("mode", Trigger)

Drops ==
  /\ script'    = <<>>
  /\ requested' = 0
  /\ abandoned' = (abandoned \/ Testing)

(* Mutant of WriteRefused: the error is logged, and the next written.      *)
WriteRefusedGoesOn ==
  /\ script # <<>>
  /\ Fails
  /\ UNCHANGED chip \/ Store(Head(script))
  /\ script' = Tail(script) /\ abandoned' = (abandoned \/ Testing)
  /\ UNCHANGED <<requested, touchVars>>

WriteRefused ==
  /\ script # <<>>
  /\ Fails
  /\ UNCHANGED chip \/ Store(Head(script))
  /\ Drops
  /\ UNCHANGED touchVars

Haptics == WriteAccepted \/ WriteRefused

(* A reset of the ESP32 ends the running function; the chip goes on.       *)
HapticReset ==
  /\ Drops
  /\ held' = FALSE /\ misread' = finger
  /\ UNCHANGED <<chip, finger, presses>>

-----------------------------------------------------------------------------
(* A callback calls a function of the driver.                              *)
Calls(s, e) == script' = s /\ requested' = e

(* A press hits no button: LVGL stays with a container, or searches again. *)
HitsNothing ==
  /\ Calls(<<>>, 0)
  /\ held' \in BOOLEAN
  /\ UNCHANGED presses

(* A button that stays: the generic click, or, on the page of haptic tests, *)
(* the button's own script.                                                *)
HitsButton ==
  /\ \/ Calls(PlayEffect(Click), Click)
     \/ \E e \in Effects : Calls(PlayEffect(e), e)
     \/ Calls(Stop, 0)
     \/ Calls(RtpTest, 0)
  /\ held'    = TRUE
  /\ presses' = IF presses = 2 THEN 2 ELSE presses + 1

(* A button whose callback calls show_menu, after the click that Back on   *)
(* the page of haptic tests goes without.  The button is deleted while the *)
(* finger is down, nothing has LVGL wait for the release, and at the next  *)
(* reading LVGL presses what then lies under the finger.                   *)
HitsPageChange ==
  /\ Calls(PlayEffect(Click), Click) \/ Calls(<<>>, 0)
  /\ held'    = FALSE
  /\ presses' = 0

Press == HitsNothing \/ HitsButton \/ HitsPageChange

(* Mutant of PressedEvent: LV_EVENT_PRESSING, sent at each reading.        *)
PressingEvent(seen) == seen

(* The callbacks are registered for LV_EVENT_PRESSED, which LVGL sends to  *)
(* an object that it finds under the finger and has not pressed yet.       *)
PressedEvent(seen) == seen /\ ~held

LvglTold(seen) ==
  \/ PressedEvent(seen) /\ Press
  \/ ~PressedEvent(seen) /\ held' = seen /\ UNCHANGED <<script, requested, presses>>

(* lvgl_touch_cb and tpGetCoordinates, which takes a refused read for no   *)
(* finger.                                                                 *)
ReadTouch ==
  /\ script = <<>>
  /\ \/ Works /\ LvglTold(finger) /\ UNCHANGED misread
     \/ Fails /\ LvglTold(FALSE) /\ misread' = finger
  /\ UNCHANGED <<chip, abandoned, finger>>

FingerComesDown ==
  /\ ~finger /\ finger' = TRUE
  /\ UNCHANGED <<chipVars, held, presses, misread, faults>>

FingerGoesUp ==
  /\ finger /\ finger' = FALSE
  /\ presses' = 0 /\ misread' = FALSE
  /\ UNCHANGED <<chipVars, held, faults>>

-----------------------------------------------------------------------------
Driving == chip["mode"] = Rtp /\ chip["rtpin"] # 0

(* Outside its test, RTP drives the motor only if a test was broken off,   *)
(* by a refused access or a reset, and nothing has set MODE since.         *)
DriveHasCause == script = <<>> /\ Driving => abandoned

(* When GO is about to be written, MODE and both slots are what was asked  *)
(* for: no refused access in between has been passed over.                 *)
GoFindsEffect ==
  script # <<>> /\ Head(script) = Write("go", 1) =>
    /\ chip["mode"] = Trigger
    /\ chip["seq1"] = requested
    /\ chip["seq2"] = 0

(* A touch presses one button at most on each page that comes under the    *)
(* finger, unless a reading failed or the device was reset meanwhile.      *)
TouchPressesPageOnce == presses <= 1 \/ misread
=============================================================================
