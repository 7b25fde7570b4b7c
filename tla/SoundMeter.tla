----------------------------- MODULE SoundMeter -----------------------------
(***************************************************************************)
(* The bar of the standalone microphone meter beside the loopback, which   *)
(* has the microphone for itself while it runs.  The mean and the square   *)
(* root of a block are computed as in LoopbackBlock, for each of the two   *)
(* slots; here a block is the two roots that come out.                     *)
(***************************************************************************)
EXTENDS LoopbackBlock

CONSTANT Loudness  \* bound: roots of the mean square of a slot

ASSUME LoudnessAssumption == Loudness \subseteq Nat

VARIABLES
  micRms,    \* mic_rms_raw
  micLevel   \* mic_level_percent

micVars   == <<micRms, micLevel>>
soundVars == <<vars, micVars>>

(* 1 << highest_bit, the loudness where a band of the scale begins.        *)
Bands == <<32, 64, 128, 256, 512, 1024, 2048, 4096, 8192, 16384>>

InBand(r, b) == Bands[b] <= r /\ r < 2 * Bands[b]

(* mic_level_from_rms: ten points for every doubling above 32.             *)
LevelFromRms(r) ==
  IF r <= 32 THEN 0
  ELSE IF r >= 32767 THEN 100
  ELSE LET b == CHOOSE b \in DOMAIN Bands : InBand(r, b)
       IN  (b - 1) * 10 + ((r - Bands[b]) * 10) \div Bands[b]

(* Mutant of Decay: rounded to the nearest.                                *)
DecayRounded(old, new) == (old * 3 + new + 2) \div 4

Decay(old, new) == (old * 3 + new) \div 4

(* The loopback is not running.                                            *)
LoopbackIdle == pc = "read" /\ rx = <<>>

(* mic_capture_task with the louder slot: up at once, down gently.         *)
MicBlock ==
  /\ LoopbackIdle
  /\ \E r0, r1 \in Loudness : micRms' = IF r1 > r0 THEN r1 ELSE r0
  /\ LET new == LevelFromRms(micRms')
     IN  micLevel' = IF new >= micLevel THEN new ELSE Decay(micLevel, new)
  /\ UNCHANGED vars

(* The end of the task, for whatever reason.                               *)
MicStops ==
  /\ LoopbackIdle
  /\ micRms' = 0 /\ micLevel' = 0
  /\ UNCHANGED vars

(* The loopback waits until the microphone's task has ended.               *)
LoopbackStep ==
  /\ Next
  /\ LoopbackIdle /\ pc' # "read" => micLevel = 0 /\ micRms = 0
  /\ UNCHANGED micVars

SoundInit == Init /\ micRms = 0 /\ micLevel = 0
SoundNext == MicBlock \/ MicStops \/ LoopbackStep
SoundSpec == SoundInit /\ [][SoundNext]_soundVars

-----------------------------------------------------------------------------
(* Each block of a loudness brings the bar nearer to where it belongs and  *)
(* never past it, so that integer division leaves no bar standing above a  *)
(* silent room.                                                            *)
BarFollowsSound ==
  [][MicBlock =>
       LET target == LevelFromRms(micRms')
       IN  /\ target <= micLevel' /\ micLevel' <= 100
           /\ micLevel > target => micLevel' < micLevel]_soundVars
=============================================================================
