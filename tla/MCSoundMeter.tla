---------------------------- MODULE MCSoundMeter ----------------------------
(* Model-checking instance of SoundMeter and LoopbackBlock.  TopRoot is    *)
(* chosen so that every mean square fits, as 2^64 is in the code; the      *)
(* loudnesses are both ends of the scale and of some bands.                *)
EXTENDS SoundMeter
=============================================================================
