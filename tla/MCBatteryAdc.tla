---------------------------- MODULE MCBatteryAdc ----------------------------
(* Model-checking instance of BatteryAdc: one worker that finishes and one *)
(* that succeeds it.                                                       *)
EXTENDS BatteryAdc
=============================================================================
