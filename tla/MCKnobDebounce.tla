--------------------------- MODULE MCKnobDebounce ---------------------------
(* Model-checking instance of KnobDebounce.  Pulses are long enough for    *)
(* the eight-bit counter of one phase to wrap at every state of the other. *)
EXTENDS KnobDebounce
=============================================================================
