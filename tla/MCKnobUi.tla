------------------------------ MODULE MCKnobUi -------------------------------
(* Model-checking instance of KnobUi: all pages, two cards.  A history of  *)
(* two entries is the smallest that works, and shows an error by one.      *)
EXTENDS KnobUi
=============================================================================
