--------------------------- MODULE MCEncoderPath ----------------------------
(* Model-checking instance of EncoderPath: turns enough in both directions *)
(* for a read-modify-write, a copy and another turn to overlap.            *)
EXTENDS EncoderPath
=============================================================================
