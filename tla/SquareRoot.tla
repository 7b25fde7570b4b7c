----------------------------- MODULE SquareRoot -----------------------------
(***************************************************************************)
(* mic_isqrt_u64, the integer square root of the sound meters, found digit *)
(* by digit: one action per turn of its two loops.  The number is a        *)
(* uint64_t, and TopRoot stands for 2^31, the root of the first bit tried. *)
(***************************************************************************)
EXTENDS Integers

CONSTANTS
  PowersOfTwo,  \* those up to TopRoot
  TopRoot

ASSUME RootAssumption ==
  /\ TopRoot \in PowersOfTwo
  /\ PowersOfTwo \subseteq Nat \ {0}
  /\ \A b \in PowersOfTwo : b = 1 \/ \E h \in PowersOfTwo : b = 2 * h

VARIABLES
  radicand,  \* history: the argument
  value,     \* what is left of it
  result,
  bit,
  aligned    \* the first loop has ended

rootVars == <<radicand, value, result, bit, aligned>>

Unsigned == 4 * TopRoot * TopRoot   \* 2^64

RootTypeOK ==
  /\ radicand \in 0..(Unsigned - 1)
  /\ value \in Nat /\ result \in Nat /\ bit \in Nat
  /\ aligned \in BOOLEAN

RootInit ==
  /\ radicand = 0
  /\ value    = 0
  /\ result   = 0
  /\ bit      = 0
  /\ aligned  = TRUE

RootReset ==
  /\ radicand' = 0
  /\ value'    = 0
  /\ result'   = 0
  /\ bit'      = 0
  /\ aligned'  = TRUE

RootCall(v) ==
  /\ radicand' = v % Unsigned
  /\ value'    = radicand'
  /\ result'   = 0
  /\ bit'      = TopRoot * TopRoot
  /\ aligned'  = FALSE

Align ==
  /\ ~aligned
  /\ IF bit > value THEN bit' = bit \div 4 /\ UNCHANGED aligned
                    ELSE aligned' = TRUE /\ UNCHANGED bit
  /\ UNCHANGED <<radicand, value, result>>

(* Mutant of Digit: a digit that leaves nothing is not taken.              *)
DigitStrict ==
  /\ aligned /\ bit # 0
  /\ IF value > result + bit
     THEN value' = value - (result + bit) /\ result' = (result \div 2) + bit
     ELSE result' = result \div 2 /\ UNCHANGED value
  /\ bit' = bit \div 4
  /\ UNCHANGED <<radicand, aligned>>

Digit ==
  /\ aligned /\ bit # 0
  /\ IF value >= result + bit
     THEN value' = value - (result + bit) /\ result' = (result \div 2) + bit
     ELSE result' = result \div 2 /\ UNCHANGED value
  /\ bit' = bit \div 4
  /\ UNCHANGED <<radicand, aligned>>

RootDone == aligned /\ bit = 0

-----------------------------------------------------------------------------
(* The root is the largest number whose square is not above the argument.  *)
RootIsFloor ==
  RootDone => /\ result * result <= radicand
              /\ radicand < (result + 1) * (result + 1)
=============================================================================
