------------------------ MODULE LoopbackBlock_proofs ------------------------
(***************************************************************************)
(* Proofs about LoopbackBlock and SoundMeter.  The square root keeps a     *)
(* number R, the digits found so far, and the root b of the bit that is    *)
(* tried next: result is 2Rb, value is what R squared leaves, and the root *)
(* sought lies between R and R + 2b.                                       *)
(***************************************************************************)
EXTENDS SoundMeter, TLAPS

Aligning ==
  /\ result = 0 /\ value = radicand
  /\ \/ bit = 0 /\ radicand = 0
     \/ \E b \in PowersOfTwo : bit = b * b /\ radicand < 4 * (b * b)

Between(R, b) ==
  /\ bit = b * b
  /\ result = 2 * (R * b)
  /\ value = radicand - R * R
  /\ radicand < (R + 2 * b) * (R + 2 * b)

Floor == result * result <= radicand /\ radicand < (result + 1) * (result + 1)

RootInv ==
  /\ RootTypeOK
  /\ IF aligned
     THEN \/ bit = 0 /\ Floor
          \/ \E b \in PowersOfTwo, R \in Nat : Between(R, b)
     ELSE Aligning

LEMMA Halves ==
  ASSUME NEW x \in Nat
  PROVE  (2 * x) \div 2 = x /\ (4 * x) \div 4 = x
OBVIOUS

(* The bit after b^2 is that of half of b, or none.                        *)
LEMMA NextBit ==
  ASSUME NEW b \in PowersOfTwo
  PROVE  \/ b = 1 /\ (b * b) \div 4 = 0
         \/ \E h \in PowersOfTwo : b = 2 * h /\ (b * b) \div 4 = h * h
<1>1. CASE b = 1
  BY <1>1
<1>2. CASE \E h \in PowersOfTwo : b = 2 * h
  <2>1. PICK h \in PowersOfTwo : b = 2 * h
    BY <1>2
  <2>2. h \in Nat /\ h * h \in Nat /\ b * b = 4 * (h * h)
    BY <2>1, RootAssumption
  <2>3. (4 * (h * h)) \div 4 = h * h
    BY <2>2, Halves
  <2> QED BY <2>1, <2>2, <2>3
<1> QED BY <1>1, <1>2, RootAssumption

LEMMA CallFits ==
  ASSUME NEW v \in Nat, RootCall(v) PROVE RootInv'
<1>1. TopRoot \in Nat \ {0} /\ TopRoot * TopRoot \in Nat \ {0}
  BY RootAssumption
<1>2. Unsigned = 4 * (TopRoot * TopRoot) /\ Unsigned \in Nat \ {0}
  BY <1>1 DEF Unsigned
<1>3. v % Unsigned \in 0..(Unsigned - 1)
  BY <1>2
<1>4. RootTypeOK'
  <2>1. radicand' \in 0..(Unsigned - 1) /\ Unsigned' = Unsigned
    BY <1>3 DEF RootCall, Unsigned
  <2>2. value' \in Nat /\ result' \in Nat /\ bit' \in Nat
    BY <1>1, <1>2, <2>1 DEF RootCall
  <2>3. aligned' \in BOOLEAN
    BY Zenon DEF RootCall
  <2> QED BY <2>1, <2>2, <2>3 DEF RootTypeOK
<1>5. Aligning'
  BY <1>2, <1>3, RootAssumption DEF RootCall, Aligning
<1> QED BY <1>4, <1>5 DEF RootInv, RootCall

LEMMA StepOfAlign ==
  ASSUME RootInv, Align PROVE RootInv'
<1>1. /\ RootTypeOK /\ Aligning /\ ~aligned
      /\ UNCHANGED <<radicand, value, result>>
  BY DEF RootInv, Align
<1>2. CASE bit > value /\ bit' = bit \div 4 /\ UNCHANGED aligned
  <2>1. PICK b \in PowersOfTwo : bit = b * b /\ radicand < b * b
    BY <1>1, <1>2 DEF Aligning, RootTypeOK
  <2>2. \/ bit' = 0 /\ radicand < 1
        \/ \E h \in PowersOfTwo : bit' = h * h /\ radicand < 4 * (h * h)
    <3>1. CASE b = 1 /\ (b * b) \div 4 = 0
      BY <1>2, <2>1, <3>1
    <3>2. ASSUME NEW h \in PowersOfTwo, b = 2 * h, (b * b) \div 4 = h * h
          PROVE  bit' = h * h /\ radicand < 4 * (h * h)
      <4>1. b * b = 4 * (h * h)
        BY <3>2, RootAssumption
      <4> QED BY <1>2, <2>1, <3>2, <4>1
    <3> QED BY <3>1, <3>2, NextBit
  <2>3. bit' \in Nat
    BY <1>1, <1>2 DEF RootTypeOK
  <2>4. RootTypeOK' /\ Aligning'
    BY <1>1, <1>2, <2>2, <2>3 DEF RootTypeOK, Aligning, Unsigned
  <2> QED BY <1>1, <1>2, <2>4 DEF RootInv
<1>3. CASE bit <= value /\ aligned' = TRUE /\ UNCHANGED bit
  <2>1. RootTypeOK'
    BY <1>1, <1>3 DEF RootTypeOK, Unsigned
  <2>2. CASE bit = 0 /\ radicand = 0
    BY <1>1, <1>3, <2>1, <2>2 DEF RootInv, Floor, Aligning
  <2>3. ASSUME NEW b \in PowersOfTwo, bit = b * b, radicand < 4 * (b * b)
        PROVE  RootInv'
    <3>1. Between(0, b)'
      <4>1. b \in Nat /\ (0 + 2 * b) * (0 + 2 * b) = 4 * (b * b) /\ 0 * b = 0
        BY RootAssumption
      <4> QED BY <1>1, <1>3, <2>3, <4>1 DEF Between, Aligning, RootTypeOK
    <3> QED BY <1>3, <2>1, <3>1 DEF RootInv
  <2> QED BY <1>1, <2>2, <2>3 DEF Aligning
<1>4. bit \in Nat /\ value \in Nat
  BY <1>1 DEF RootTypeOK
<1>5. CASE bit > value
  BY <1>2, <1>5 DEF Align
<1>6. CASE bit <= value
  <2>1. ~(bit > value)
    BY <1>4, <1>6
  <2>2. aligned' = TRUE /\ UNCHANGED bit
    BY <2>1, Zenon DEF Align
  <2> QED BY <1>3, <1>6, <2>2
<1> QED BY <1>4, <1>5, <1>6

(* One digit more: S is R, or R + b when the digit is taken.               *)
LEMMA DigitFound ==
  ASSUME RootTypeOK, NEW b \in PowersOfTwo, NEW S \in Nat,
         result' = S * b, value' = radicand - S * S, value' \in Nat,
         radicand < (S + b) * (S + b), bit = b * b, bit' = bit \div 4,
         aligned' = TRUE, UNCHANGED radicand
  PROVE  RootInv'
<1>1. b \in Nat /\ result' \in Nat /\ bit' \in Nat
  BY RootAssumption DEF RootTypeOK
<1>2. RootTypeOK'
  BY <1>1 DEF RootTypeOK, Unsigned
<1>3. CASE b = 1 /\ (b * b) \div 4 = 0
  <2>1. result' = S /\ bit' = 0
    BY <1>3
  <2>2. Floor'
    BY <1>3, <2>1 DEF Floor, RootTypeOK
  <2> QED BY <1>2, <2>1, <2>2 DEF RootInv
<1>4. ASSUME NEW h \in PowersOfTwo, b = 2 * h, (b * b) \div 4 = h * h
      PROVE  RootInv'
  <2>1. S * b = 2 * (S * h) /\ bit' = h * h
    BY <1>4, RootAssumption
  <2>2. Between(S, h)'
    BY <1>4, <2>1 DEF Between
  <2> QED BY <1>2, <2>2 DEF RootInv
<1> QED BY <1>3, <1>4, NextBit

LEMMA StepOfDigit ==
  ASSUME RootInv, Digit PROVE RootInv'
<1>1. RootTypeOK /\ aligned' = TRUE /\ bit' = bit \div 4 /\ UNCHANGED radicand
  BY DEF RootInv, Digit, RootTypeOK
<1>2. PICK b \in PowersOfTwo, R \in Nat : Between(R, b)
  BY DEF RootInv, Digit
<1>3. /\ b \in Nat /\ R * b \in Nat /\ b * b \in Nat /\ R * R \in Nat
      /\ (2 * (R * b)) \div 2 = R * b
  BY RootAssumption, Halves
<1>4. (R + b) * (R + b) = R * R + 2 * (R * b) + b * b
  BY <1>3
<1>5. CASE value >= result + bit
  <2>1. /\ result' = (R + b) * b
        /\ value' = radicand - (R + b) * (R + b) /\ value' \in Nat
        /\ R + b \in Nat
    <3>1. (R + b) * b = R * b + b * b
      BY <1>3
    <3> QED BY <1>1, <1>2, <1>3, <1>4, <1>5, <3>1
            DEF Digit, Between, RootTypeOK
  <2>2. radicand < ((R + b) + b) * ((R + b) + b)
    <3>1. (R + b) + b = R + 2 * b
      BY <1>3
    <3> QED BY <1>2, <3>1 DEF Between
  <2> QED BY <1>1, <1>2, <2>1, <2>2, DigitFound DEF Between
<1>6. CASE ~(value >= result + bit)
  <2>1. /\ result' = R * b /\ value' = radicand - R * R /\ value' \in Nat
    BY <1>1, <1>2, <1>3, <1>6 DEF Digit, Between, RootTypeOK
  <2>2. radicand < (R + b) * (R + b)
    BY <1>1, <1>2, <1>3, <1>4, <1>6 DEF Between, RootTypeOK
  <2> QED BY <1>1, <1>2, <2>1, <2>2, DigitFound DEF Between
<1> QED BY <1>5, <1>6

-----------------------------------------------------------------------------
LEMMA OneMore ==
  ASSUME NEW k \in Int, NEW m \in Int
  PROVE  (k + 1) * m = k * m + m /\ k * m \in Int
OBVIOUS

LEMMA Larger ==
  ASSUME NEW a \in Int, NEW b \in Int, NEW c \in Nat, a <= b
  PROVE  a * c <= b * c /\ a * c \in Int /\ b * c \in Int
<1>1. (b - a) * c \in Nat /\ b * c = a * c + (b - a) * c
  <2>1. b - a \in Nat
    OBVIOUS
  <2>2. \A x, y \in Nat : x * y \in Nat
    OBVIOUS
  <2> QED BY <2>1, <2>2
<1> QED BY <1>1

LEMMA Division ==
  ASSUME NEW a \in Nat, NEW n \in Nat \ {0}
  PROVE  /\ a \div n \in Nat
         /\ (a \div n) * n <= a /\ a < (a \div n + 1) * n
OBVIOUS

LEMMA DivisionBound ==
  ASSUME NEW a \in Nat, NEW n \in Nat \ {0}, NEW k \in Nat, a <= n * k
  PROVE  a \div n \in 0..k
<1>1. /\ a \div n \in Nat /\ (a \div n) * n <= a
  BY Division
<1>2. SUFFICES ASSUME k + 1 <= a \div n PROVE FALSE
  BY <1>1
<1>3. (k + 1) * n <= (a \div n) * n
  BY <1>1, <1>2, Larger
<1>4. (k + 1) * n = n * k + n
  OBVIOUS
<1> QED BY <1>1, <1>3, <1>4

LEMMA QuotientBound ==
  ASSUME NEW a \in Int, NEW n \in Nat \ {0}, NEW lo \in Nat, NEW hi \in Nat,
         -(n * lo) <= a, a <= n * hi
  PROVE  Quotient(a, n) \in -lo..hi
<1>1. CASE a >= 0
  <2>1. a \div n \in 0..hi
    BY <1>1, DivisionBound
  <2> QED BY <1>1, <2>1 DEF Quotient
<1>2. CASE a < 0
  <2>1. -a \in Nat /\ -a <= n * lo
    BY <1>2
  <2>2. (-a) \div n \in 0..lo
    BY <2>1, DivisionBound
  <2> QED BY <1>2, <2>2 DEF Quotient
<1> QED BY <1>1, <1>2

LEMMA SquareBound ==
  ASSUME NEW R \in Nat, NEW x \in -R..R
  PROVE  x * x \in 0..(R * R)
<1>1. CASE x >= 0
  <2>1. x \in Nat /\ x * x <= R * x /\ x * R <= R * R
    BY <1>1, Larger
  <2> QED BY <2>1
<1>2. CASE x < 0
  <2>1. -x \in Nat /\ -x <= R
    BY <1>2
  <2>2. (-x) * (-x) <= R * (-x) /\ (-x) * R <= R * R
    BY <2>1, Larger
  <2>3. (-x) * (-x) = x * x /\ (-x) * (-x) \in Nat
    BY <2>1
  <2> QED BY <2>1, <2>2, <2>3
<1> QED BY <1>1, <1>2

LEMMA Quotients ==
  ASSUME NEW a \in Int, NEW b \in Nat \ {0}
  PROVE  Quotient(a, b) \in Int
BY DEF Quotient

LEMMA QuotientsOrdered ==
  ASSUME NEW a \in Int, NEW c \in Int, a <= c
  PROVE  Quotient(a, 100) <= Quotient(c, 100)
BY DEF Quotient

LEMMA ScaledOrdered ==
  ASSUME NEW c \in Int, NEW d \in Int, c <= d, NEW g \in 0..GainMax
  PROVE  Scaled(c, g) <= Scaled(d, g)
<1>1. c * g \in Int /\ d * g \in Int /\ g \in Nat
  BY DEF GainMax
<1>2. d * g = c * g + (d - c) * g /\ d - c \in Nat
  BY <1>1
<1>3. (d - c) * g \in Nat
  BY <1>1, <1>2
<1>4. c * g <= d * g
  BY <1>1, <1>2, <1>3
<1> QED BY <1>1, <1>4, QuotientsOrdered DEF Scaled

LEMMA PlayedInRange ==
  ASSUME NEW c \in Int, NEW g \in 0..GainMax, NEW m \in BOOLEAN
  PROVE  Played(c, g, m) \in Sample
<1>1. Scaled(c, g) \in Int
  BY Quotients DEF Scaled, GainMax
<1>2. Saturate(Scaled(c, g)) \in Sample /\ 0 \in Sample
  BY <1>1, BlockAssumption DEF Saturate, Sample
<1> QED BY <1>2 DEF Played

LEMMA PlayedOrdered ==
  ASSUME NEW c \in Int, NEW d \in Int, c <= d, NEW g \in 0..GainMax,
         NEW m \in BOOLEAN
  PROVE  Played(c, g, m) <= Played(d, g, m)
<1>1. Scaled(c, g) \in Int /\ Scaled(d, g) \in Int
  BY Quotients DEF Scaled, GainMax
<1>2. Saturate(Scaled(c, g)) <= Saturate(Scaled(d, g))
  BY <1>1, ScaledOrdered, BlockAssumption DEF Saturate
<1> QED BY <1>2 DEF Played

LEMMA Clamped ==
  ASSUME NEW g \in Int PROVE Clamp(g) \in 0..GainMax /\ Clamp(Clamp(g)) = Clamp(g)
BY DEF Clamp, GainMin, GainMax

-----------------------------------------------------------------------------
Snapshot == blockGain \in gainsSeen /\ blockMuted \in mutesSeen

(* What has been played was played with the values read for the block.     *)
TaskInv ==
  /\ pc \in {"read", "mean", "gain", "mute", "samples", "inRoot", "outRoot"}
  /\ rx \in Block \/ pc = "read"
  /\ pc \in {"mean", "gain", "mute"} =>
       gain \in gainsSeen /\ muted \in mutesSeen /\ Forwarded = {}
  /\ pc \in {"gain", "mute"} => i = 1
  /\ pc = "mute" => blockGain \in gainsSeen
  /\ pc = "samples" => Snapshot /\ Forwarded = 1..(i - 1)
  /\ Forwarded # {} => Snapshot /\ rx \in Block /\ Forwarded \subseteq DOMAIN rx
  /\ \A j \in Forwarded : tx[j] = Played(rx[j] - mean, blockGain, blockMuted)

NumbersOK ==
  /\ gain \in 0..GainMax /\ blockGain \in 0..GainMax
  /\ muted \in BOOLEAN /\ blockMuted \in BOOLEAN
  /\ i \in Nat \ {0} /\ sum \in Int /\ mean \in Int
  /\ inSquares \in Nat /\ outSquares \in Nat /\ rms \in Nat

CoreInv == NumbersOK /\ TaskInv /\ RootInv

LEMMA BlockFacts ==
  ASSUME rx \in Block
  PROVE  /\ Count \in 1..BlockSize /\ DOMAIN rx = 1..Count
         /\ \A j \in DOMAIN rx : rx[j] \in Sample /\ rx[j] \in Int
<1>1. PICK n \in 1..BlockSize : rx \in [1..n -> Sample]
  BY DEF Block
<1>2. DOMAIN rx = 1..n /\ n \in 0..BlockSize
  BY <1>1
<1>3. Count \in 0..BlockSize /\ DOMAIN rx = 1..Count
  BY <1>2, Zenon DEF Count
<1>4. Count \in 1..BlockSize
  BY <1>2, <1>3, BlockAssumption
<1>5. \A j \in DOMAIN rx : rx[j] \in Sample /\ rx[j] \in Int
  BY <1>1, BlockAssumption DEF Sample
<1> QED BY <1>3, <1>4, <1>5

LEMMA InitCore ==
  ASSUME Init PROVE CoreInv
<1>1. NumbersOK
  <2>1. muted \in BOOLEAN /\ blockMuted \in BOOLEAN
    BY Zenon DEF Init
  <2>2. /\ gain \in 0..GainMax /\ blockGain \in 0..GainMax
        /\ i \in Nat \ {0} /\ sum \in Int /\ mean \in Int
        /\ inSquares \in Nat /\ outSquares \in Nat /\ rms \in Nat
    BY DEF Init, GainDefault, GainMax
  <2> QED BY <2>1, <2>2 DEF NumbersOK
<1>2. TaskInv
  <2>1. Forwarded = {} /\ pc = "read"
    BY DEF Init, Forwarded
  <2> QED BY <2>1 DEF TaskInv
<1>3. RootInv
  <2>1. radicand = 0 /\ value = 0 /\ result = 0 /\ bit = 0 /\ aligned = TRUE
    BY DEF Init, RootInit
  <2>2. Unsigned \in Nat \ {0}
    <3>1. TopRoot \in Nat \ {0}
      BY RootAssumption
    <3>2. TopRoot * TopRoot \in Nat \ {0}
      BY <3>1
    <3> QED BY <3>1, <3>2 DEF Unsigned
  <2>3. RootTypeOK /\ Floor
    BY <2>1, <2>2 DEF RootTypeOK, Floor
  <2> QED BY <2>1, <2>3 DEF RootInv
<1> QED BY <1>1, <1>2, <1>3 DEF CoreInv

(* A new task begins as the first one did.                                 *)
LEMMA StepOfStart ==
  ASSUME CoreInv, StartAgain PROVE CoreInv'
<1>1. NumbersOK'
  <2>1. muted' \in BOOLEAN /\ blockMuted' \in BOOLEAN
    BY Zenon DEF StartAgain
  <2>2. /\ gain' \in 0..GainMax /\ blockGain' \in 0..GainMax
        /\ i' \in Nat \ {0} /\ sum' \in Int /\ mean' \in Int
        /\ inSquares' \in Nat /\ outSquares' \in Nat /\ rms' \in Nat
    BY DEF StartAgain, GainMax, CoreInv, NumbersOK
  <2> QED BY <2>1, <2>2 DEF NumbersOK
<1>2. TaskInv'
  <2>1. Forwarded' = {} /\ pc' = "read"
    BY DEF StartAgain, Forwarded
  <2> QED BY <2>1 DEF TaskInv
<1>3. RootInv'
  <2>1. /\ radicand' = 0 /\ value' = 0 /\ result' = 0 /\ bit' = 0
        /\ aligned' = TRUE
    BY DEF StartAgain, RootReset
  <2>2. Unsigned \in Nat \ {0} /\ Unsigned' = Unsigned
    <3>1. TopRoot \in Nat \ {0}
      BY RootAssumption
    <3>2. TopRoot * TopRoot \in Nat \ {0}
      BY <3>1
    <3> QED BY <3>1, <3>2 DEF Unsigned
  <2>3. RootTypeOK' /\ Floor'
    BY <2>1, <2>2 DEF RootTypeOK, Floor
  <2> QED BY <2>1, <2>3 DEF RootInv
<1> QED BY <1>1, <1>2, <1>3 DEF CoreInv

LEMMA RootUnchanged ==
  ASSUME RootInv, UNCHANGED rootVars PROVE RootInv'
BY DEF RootInv, rootVars, RootTypeOK, Aligning, Between, Floor, Unsigned

(* A callback adds to what may be read, and disturbs nothing that was.     *)
LEMMA StepOfCallback ==
  ASSUME CoreInv, GainChanged \/ ToggleMute PROVE CoreInv'
<1> USE DEF CoreInv
<1>1. /\ UNCHANGED <<pc, rx, mean, blockGain, blockMuted, tx, i, sum,
                      inSquares, outSquares>>
      /\ UNCHANGED rootVars
      /\ rms' \in Nat
  <2>1. CASE GainChanged
    BY <2>1 DEF GainChanged, blockVars, loopVars, NumbersOK
  <2>2. CASE ToggleMute
    BY <2>2 DEF ToggleMute, blockVars, loopVars, NumbersOK
  <2> QED BY <2>1, <2>2
<1>2. PICK g \in 0..GainMax, m \in BOOLEAN : Note(g, m)
  <2>1. CASE GainChanged
    <3>1. PICK g \in Settings : Note(Clamp(g), muted)
      BY <2>1 DEF GainChanged
    <3> QED BY <3>1, Clamped, BlockAssumption DEF NumbersOK
  <2>2. CASE ToggleMute
    BY <2>2 DEF ToggleMute, NumbersOK
  <2> QED BY <2>1, <2>2
<1>3. NumbersOK'
  BY <1>1, <1>2 DEF Note, NumbersOK
<1>4. TaskInv'
  BY <1>1, <1>2 DEF Note, TaskInv, Snapshot, Forwarded
<1> QED BY <1>1, <1>3, <1>4, RootUnchanged

LEMMA StepOfLoop ==
  ASSUME CoreInv, ReadBlock \/ AddToMean \/ SetMean \/ ReadGain \/ ReadMute
  PROVE  CoreInv'
<1> USE DEF CoreInv
<1>1. CASE ReadBlock
  <2>1. NumbersOK'
    BY <1>1 DEF ReadBlock, NumbersOK
  <2>2. pc' = "mean" /\ rx' \in Block /\ Forwarded' = {}
        /\ gain' \in gainsSeen' /\ muted' \in mutesSeen'
    BY <1>1 DEF ReadBlock, Goto, Forwarded
  <2>3. TaskInv'
    BY <2>2 DEF TaskInv
  <2> QED BY <1>1, <2>1, <2>3, RootUnchanged DEF ReadBlock
<1>2. CASE AddToMean
  <2>1. rx \in Block /\ i \in DOMAIN rx /\ rx[i] \in Int
    BY <1>2, BlockFacts DEF AddToMean, TaskInv, NumbersOK
  <2>2. NumbersOK'
    BY <1>2, <2>1 DEF AddToMean, NumbersOK, controls, blockVars
  <2>3. TaskInv'
    BY <1>2 DEF AddToMean, TaskInv, controls, blockVars, Forwarded, Snapshot
  <2> QED BY <1>2, <2>2, <2>3, RootUnchanged DEF AddToMean
<1>3. CASE SetMean
  <2>1. Count \in Nat \ {0}
    BY <1>3, BlockFacts, BlockAssumption DEF SetMean, Goto, TaskInv
  <2>2. NumbersOK'
    BY <1>3, <2>1, Quotients DEF SetMean, NumbersOK, controls
  <2>3. TaskInv'
    BY <1>3 DEF SetMean, Goto, TaskInv, controls, Forwarded, Snapshot
  <2> QED BY <1>3, <2>2, <2>3, RootUnchanged DEF SetMean
<1>4. CASE ReadGain
  <2>1. blockGain' = gain
    BY <1>4 DEF ReadGain, NumbersOK, Clamp, GainMin, GainMax
  <2>2. NumbersOK'
    BY <1>4, <2>1 DEF ReadGain, NumbersOK, controls, loopVars
  <2>3. TaskInv'
    BY <1>4, <2>1 DEF ReadGain, Goto, TaskInv, controls, loopVars, Forwarded,
       Snapshot
  <2> QED BY <1>4, <2>2, <2>3, RootUnchanged DEF ReadGain
<1>5. CASE ReadMute
  <2>1. NumbersOK'
    BY <1>5 DEF ReadMute, NumbersOK, controls, loopVars
  <2>2. pc' = "samples" /\ Forwarded' = {} /\ rx' \in Block
        /\ Snapshot' /\ i' = 1
    BY <1>5 DEF ReadMute, Goto, TaskInv, controls, loopVars, Forwarded, Snapshot
  <2>3. TaskInv'
    BY <2>2 DEF TaskInv
  <2> QED BY <1>5, <2>1, <2>3, RootUnchanged DEF ReadMute
<1> QED BY <1>1, <1>2, <1>3, <1>4, <1>5

LEMMA StepOfSample ==
  ASSUME CoreInv, NextSample PROVE CoreInv'
<1> DEFINE c == rx[i] - mean
           p == Played(c, blockGain, blockMuted)
<1>1. /\ rx \in Block /\ i \in DOMAIN rx /\ rx[i] \in Int /\ c \in Int
      /\ i \in Nat \ {0} /\ pc = "samples"
      /\ Forwarded = 1..(i - 1) /\ Snapshot
      /\ DOMAIN rx = 1..Count
      /\ \A j \in Forwarded : tx[j] = Played(rx[j] - mean, blockGain, blockMuted)
  BY BlockFacts DEF NextSample, CoreInv, TaskInv, NumbersOK
<1>2. /\ tx' = [j \in 1..i |-> IF j = i THEN p ELSE tx[j]]
      /\ inSquares' = inSquares + Square(c)
      /\ outSquares' = outSquares + Square(p)
      /\ i' = i + 1
      /\ UNCHANGED <<gain, muted, gainsSeen, mutesSeen, pc, rx, mean,
                     blockGain, blockMuted, sum, rms>>
      /\ UNCHANGED rootVars
  BY DEF NextSample, Forward, controls, blockVars
<1>3. p \in Int
  BY <1>1, PlayedInRange, BlockAssumption DEF CoreInv, NumbersOK, Sample
<1> HIDE DEF c, p
<1>4. Square(c) \in Nat /\ Square(p) \in Nat
  BY <1>1, <1>3 DEF Square
<1>5. NumbersOK'
  BY <1>1, <1>2, <1>4 DEF CoreInv, NumbersOK
<1>6. /\ Forwarded' = 1..i /\ tx'[i] = p
      /\ \A j \in 1..(i - 1) : tx'[j] = tx[j]
  BY <1>1, <1>2 DEF Forwarded
<1>7. \A j \in 1..i : tx'[j] = Played(rx[j] - mean, blockGain, blockMuted)
  <2>1. \A j \in 1..i : j = i \/ j \in 1..(i - 1)
    BY <1>1
  <2> QED BY <1>1, <1>6, <2>1 DEF c, p
<1>8. i' - 1 = i /\ 1..i \subseteq DOMAIN rx
  <2>1. i \in 1..Count /\ Count \in Int
    BY <1>1, BlockFacts, BlockAssumption
  <2> QED BY <1>1, <1>2, <2>1
<1>9. TaskInv'
  BY <1>1, <1>2, <1>6, <1>7, <1>8 DEF TaskInv, Snapshot
<1> QED BY <1>2, <1>5, <1>9, RootUnchanged DEF CoreInv

LEMMA StepOfRoot ==
  ASSUME CoreInv, SamplesDone \/ RootStep \/ InRootDone \/ OutRootDone
  PROVE  CoreInv'
<1> USE DEF CoreInv
<1>1. /\ UNCHANGED <<gain, muted, gainsSeen, mutesSeen, rx, mean,
                     blockGain, blockMuted, tx, i, sum, inSquares, outSquares>>
      /\ pc \in {"samples", "inRoot", "outRoot"}
      /\ pc' \in {"inRoot", "outRoot", "read"}
      /\ rms' \in {rms, result}
  BY DEF SamplesDone, RootStep, InRootDone, OutRootDone, Goto, controls,
     blockVars, loopVars
<1>2. NumbersOK'
  BY <1>1 DEF NumbersOK, RootInv, RootTypeOK
<1>3. TaskInv'
  BY <1>1 DEF TaskInv, Forwarded, Snapshot
<1>4. Count \in Nat \ {0} /\ inSquares \div Count \in Nat
      /\ outSquares \div Count \in Nat
  BY <1>1, BlockFacts, BlockAssumption DEF TaskInv, NumbersOK
<1>5. RootInv'
  BY <1>4, CallFits, StepOfAlign, StepOfDigit, RootUnchanged
     DEF SamplesDone, RootStep, InRootDone, OutRootDone
<1> QED BY <1>2, <1>3, <1>5

LEMMA NextCore ==
  ASSUME CoreInv, [Next]_vars PROVE CoreInv'
<1>1. CASE UNCHANGED vars
  <2>1. /\ UNCHANGED rootVars
        /\ UNCHANGED <<gain, muted, gainsSeen, mutesSeen, pc, rx, mean,
                       blockGain, blockMuted, tx, i, sum, inSquares,
                       outSquares, rms>>
    BY <1>1 DEF vars, controls, blockVars, loopVars
  <2> QED BY <2>1, RootUnchanged DEF CoreInv, NumbersOK, TaskInv, Forwarded,
          Snapshot
<1> QED BY <1>1, StepOfCallback, StepOfStart, StepOfLoop, StepOfSample,
           StepOfRoot DEF Next, Callback, Task

-----------------------------------------------------------------------------
(* The numbers of a block.                                                 *)

Reach == 2 * FullScale + 1   \* of a sample less the mean

(* Sums grow by at most one sample, or one square, with every turn, and    *)
(* the roots are called with the whole mean squares.                       *)
FitInv ==
  /\ mean \in Sample
  /\ pc \in {"mean", "samples"} => i - 1 <= Count
  /\ pc = "mean" => /\ -((i - 1) * (FullScale + 1)) <= sum
                    /\ sum <= (i - 1) * FullScale
  /\ pc \in {"mean", "gain", "mute"} => inSquares = 0 /\ outSquares = 0
  /\ pc \in {"samples", "inRoot", "outRoot"} =>
       /\ inSquares <= (i - 1) * (Reach * Reach)
       /\ outSquares <= (i - 1) * (Reach * Reach)
  /\ pc \in {"inRoot", "outRoot"} => i - 1 = Count
  /\ pc = "inRoot" => radicand = inSquares \div Count
  /\ pc = "outRoot" => radicand = outSquares \div Count /\ IsRoot(rms, inSquares)

IInv == CoreInv /\ FitInv

LEMMA FloorAtEnd ==
  ASSUME CoreInv, RootDone PROVE Floor
<1>1. ASSUME NEW b \in PowersOfTwo PROVE b * b # 0
  <2>1. b \in Nat \ {0}
    BY RootAssumption
  <2> QED BY <2>1
<1> QED BY <1>1 DEF CoreInv, RootInv, RootDone, Between

LEMMA WholeRoot ==
  ASSUME NEW r \in Nat, NEW squares \in Nat, Count \in Nat \ {0},
         r * r <= squares \div Count, squares \div Count < (r + 1) * (r + 1)
  PROVE  IsRoot(r, squares)
<1> DEFINE n == Count  q == squares \div Count
<1>1. q \in Nat /\ q * n <= squares /\ squares < (q + 1) * n
  BY Division
<1> HIDE DEF q
<1>2. r * r \in Nat /\ (r + 1) * (r + 1) \in Nat
  OBVIOUS
<1>3. r * r * n <= q * n
  BY <1>1, <1>2, Larger DEF q
<1>4. (q + 1) * n <= (r + 1) * (r + 1) * n
  <2>1. q + 1 <= (r + 1) * (r + 1)
    BY <1>1, <1>2 DEF q
  <2> QED BY <1>1, <1>2, <2>1, Larger
<1>5. /\ r * r * n \in Int /\ q * n \in Int /\ (q + 1) * n \in Int
      /\ (r + 1) * (r + 1) * n \in Int
  BY <1>1, <1>2
<1> QED BY <1>1, <1>3, <1>4, <1>5 DEF IsRoot

(* The mean square fits the argument of the root.                          *)
LEMMA MeanSquareFits ==
  ASSUME NEW squares \in Nat, Count \in Nat \ {0},
         squares <= Count * (Reach * Reach), RootCall(squares \div Count)
  PROVE  radicand' = squares \div Count
<1>1. /\ FullScale \in Nat /\ TopRoot \in Nat /\ Reach \in Nat
      /\ Reach <= 2 * TopRoot - 1 /\ 2 * TopRoot - 1 \in Nat
  BY BlockAssumption, RootAssumption, WidthAssumption DEF Reach
<1>2. Reach * Reach \in Nat /\ Reach * Reach < Unsigned /\ Unsigned \in Nat
  <2>1. Reach * Reach <= (2 * TopRoot - 1) * Reach
    BY <1>1, Larger
  <2>2. Reach * (2 * TopRoot - 1) <= (2 * TopRoot - 1) * (2 * TopRoot - 1)
    BY <1>1, Larger
  <2>3. (2 * TopRoot - 1) * (2 * TopRoot - 1)
          = 4 * (TopRoot * TopRoot) - 4 * TopRoot + 1
    BY <1>1
  <2>4. Unsigned = 4 * (TopRoot * TopRoot) /\ TopRoot > 0
    BY <1>1, RootAssumption DEF Unsigned
  <2>5. /\ TopRoot * TopRoot \in Nat /\ Reach * Reach \in Nat
        /\ (2 * TopRoot - 1) * Reach = Reach * (2 * TopRoot - 1)
        /\ Reach * (2 * TopRoot - 1) \in Int
    BY <1>1
  <2> QED BY <1>1, <2>1, <2>2, <2>3, <2>4, <2>5
<1>3. squares \div Count \in 0..(Reach * Reach)
  BY <1>2, DivisionBound
<1>4. ASSUME NEW v \in Nat, v < Unsigned PROVE v % Unsigned = v
  BY <1>2, <1>4
<1> QED BY <1>2, <1>3, <1>4 DEF RootCall

LEMMA FitOfLoop ==
  ASSUME IInv, ReadBlock \/ AddToMean \/ SetMean \/ ReadGain \/ ReadMute
  PROVE  FitInv'
<1>0. /\ FullScale \in Nat /\ mean \in Sample /\ i \in Nat \ {0} /\ sum \in Int
      /\ pc # "read" => rx \in Block
  BY BlockAssumption DEF IInv, CoreInv, NumbersOK, FitInv, TaskInv
<1>1. CASE ReadBlock
  <2>1. /\ rx' \in Block /\ i' = 1 /\ sum' = 0 /\ mean' = mean /\ pc' = "mean"
        /\ inSquares' = 0 /\ outSquares' = 0
    BY <1>1 DEF ReadBlock, Goto
  <2>2. PICK n \in 1..BlockSize : rx' \in [1..n -> Sample]
    BY <2>1 DEF Block
  <2>3. DOMAIN rx' = 1..n /\ n \in 0..BlockSize
    BY <2>2
  <2>4. Count' \in 0..BlockSize
    BY <2>3, Zenon DEF Count
  <2>5. 0 <= Count'
    BY <2>4, BlockAssumption
  <2>6. Sample' = Sample
    BY DEF Sample
  <2>7. 0 * (FullScale + 1) = 0 /\ 0 * FullScale = 0
    BY <1>0
  <2> QED BY <1>0, <2>1, <2>5, <2>6, <2>7 DEF FitInv
<1>2. CASE AddToMean
  <2>1. /\ UNCHANGED <<pc, rx, mean, inSquares, outSquares>> /\ pc = "mean"
        /\ i' = i + 1 /\ sum' = sum + rx[i] /\ i <= Count
    BY <1>2 DEF AddToMean, blockVars
  <2>2. Count' = Count /\ Sample' = Sample
    BY <2>1 DEF Count, Sample
  <2>3. rx[i] \in Sample /\ Count \in Nat
    BY <1>0, <2>1, BlockFacts, BlockAssumption
  <2>4. -(FullScale + 1) <= rx[i] /\ rx[i] <= FullScale /\ rx[i] \in Int
    BY <1>0, <2>3 DEF Sample
  <2>5. /\ ((i - 1) + 1) * (FullScale + 1) = (i - 1) * (FullScale + 1) + (FullScale + 1)
        /\ ((i - 1) + 1) * FullScale = (i - 1) * FullScale + FullScale
        /\ (i - 1) * (FullScale + 1) \in Int /\ (i - 1) * FullScale \in Int
    BY <1>0, OneMore
  <2>6. i' - 1 = (i - 1) + 1 /\ i' - 1 <= Count
    BY <1>0, <2>1, <2>3
  <2>7. -((i' - 1) * (FullScale + 1)) <= sum' /\ sum' <= (i' - 1) * FullScale
    BY <1>0, <2>1, <2>4, <2>5, <2>6 DEF IInv, FitInv
  <2> QED BY <1>0, <2>1, <2>2, <2>6, <2>7 DEF FitInv, IInv
<1>3. CASE SetMean
  <2>1. /\ UNCHANGED <<rx, inSquares, outSquares>> /\ pc = "mean" /\ pc' = "gain"
        /\ mean' = Quotient(sum, Count) /\ i > Count
    BY <1>3 DEF SetMean, Goto
  <2>2. Count \in Nat \ {0}
    BY <1>0, <2>1, BlockFacts, BlockAssumption
  <2>3. i - 1 = Count
    BY <1>0, <2>1, <2>2 DEF IInv, FitInv
  <2>4. Quotient(sum, Count) \in -(FullScale + 1)..FullScale
    <3>1. /\ -((i - 1) * (FullScale + 1)) <= sum
          /\ sum <= (i - 1) * FullScale
      BY <2>1 DEF IInv, FitInv
    <3>2. -(Count * (FullScale + 1)) <= sum /\ sum <= Count * FullScale
      BY <2>3, <3>1
    <3>3. FullScale + 1 \in Nat /\ FullScale \in Nat /\ sum \in Int
      BY <1>0
    <3> QED BY <2>2, <3>2, <3>3, QuotientBound
  <2>5. mean' \in Sample'
    BY <1>0, <2>1, <2>4 DEF Sample
  <2> QED BY <2>1, <2>5 DEF FitInv, IInv
<1>4. CASE ReadGain
  <2>1. /\ UNCHANGED <<rx, mean, inSquares, outSquares>>
        /\ pc = "gain" /\ pc' = "mute"
    BY <1>4 DEF ReadGain, Goto, loopVars
  <2> QED BY <2>1 DEF FitInv, IInv, Sample
<1>5. CASE ReadMute
  <2>1. /\ UNCHANGED <<rx, mean, i, inSquares, outSquares>>
        /\ pc = "mute" /\ pc' = "samples"
    BY <1>5 DEF ReadMute, Goto, loopVars
  <2>2. i = 1 /\ Count' = Count
    <3>1. i = 1
      BY <2>1 DEF IInv, CoreInv, TaskInv
    <3>2. Count' = Count
      BY <2>1 DEF Count
    <3> QED BY <3>1, <3>2
  <2>3. /\ (i - 1) * (Reach * Reach) = 0 /\ Reach' = Reach /\ Sample' = Sample
    BY <1>0, <2>2 DEF Reach, Sample
  <2>4. Count \in Nat
    BY <1>0, <2>1, BlockFacts, BlockAssumption
  <2>5. pc' = "samples" => i' - 1 <= Count'
    BY <2>1, <2>2, <2>4
  <2>6. inSquares' = 0 /\ outSquares' = 0
    BY <2>1 DEF IInv, FitInv
  <2> QED BY <1>0, <2>1, <2>2, <2>3, <2>5, <2>6 DEF FitInv
<1> QED BY <1>1, <1>2, <1>3, <1>4, <1>5

(* No sample less the mean is out of its reach, played or not.             *)
LEMMA Centred ==
  ASSUME FitInv, NEW x \in Sample
  PROVE  /\ x - mean \in -Reach..Reach
         /\ \A p \in Sample : p \in -Reach..Reach
BY BlockAssumption DEF FitInv, Sample, Reach

LEMMA FitOfSample ==
  ASSUME IInv, NextSample PROVE FitInv'
<1> DEFINE c == rx[i] - mean
           p == Played(c, blockGain, blockMuted)
<1>1. /\ rx \in Block /\ i \in DOMAIN rx /\ rx[i] \in Sample /\ rx[i] \in Int
      /\ i \in Nat \ {0} /\ pc = "samples" /\ i <= Count /\ Count \in Nat
      /\ inSquares \in Nat /\ outSquares \in Nat /\ mean \in Int
      /\ blockGain \in 0..GainMax /\ blockMuted \in BOOLEAN
  BY BlockFacts, BlockAssumption DEF NextSample, IInv, CoreInv, TaskInv, NumbersOK
<1>2. /\ inSquares' = inSquares + Square(c) /\ outSquares' = outSquares + Square(p)
      /\ i' = i + 1 /\ UNCHANGED <<pc, rx, mean>>
  BY DEF NextSample, Forward, blockVars
<1>3. c \in Int /\ c \in -Reach..Reach
  BY <1>1, Centred DEF IInv
<1>4. p \in -Reach..Reach
  <2>1. p \in Sample
    BY <1>1, <1>3, PlayedInRange
  <2> QED BY <1>1, <2>1, Centred DEF IInv
<1> HIDE DEF c, p
<1>5. Reach \in Nat
  BY BlockAssumption DEF Reach
<1>6. Square(c) \in 0..(Reach * Reach) /\ Square(p) \in 0..(Reach * Reach)
  BY <1>3, <1>4, <1>5, SquareBound DEF Square
<1>7. /\ Reach * Reach \in Nat /\ i' - 1 = (i - 1) + 1
      /\ ((i - 1) + 1) * (Reach * Reach) = (i - 1) * (Reach * Reach) + Reach * Reach
      /\ (i - 1) * (Reach * Reach) \in Int
  BY <1>1, <1>2, <1>5, OneMore
<1>8. /\ inSquares' <= (i' - 1) * (Reach * Reach)
      /\ outSquares' <= (i' - 1) * (Reach * Reach)
  BY <1>1, <1>2, <1>6, <1>7 DEF IInv, FitInv
<1>9. i' - 1 <= Count' /\ Reach' = Reach /\ mean' \in Sample'
  BY <1>1, <1>2 DEF Count, Reach, Sample, IInv, FitInv
<1> QED BY <1>1, <1>2, <1>8, <1>9 DEF FitInv

LEMMA FitOfRoot ==
  ASSUME IInv, SamplesDone \/ RootStep \/ InRootDone \/ OutRootDone
  PROVE  FitInv'
<1>1. /\ UNCHANGED <<rx, mean, i, sum, inSquares, outSquares>>
      /\ pc \in {"samples", "inRoot", "outRoot"}
  BY DEF SamplesDone, RootStep, InRootDone, OutRootDone, Goto, blockVars, loopVars
<1>2. /\ Count \in Nat \ {0} /\ i \in Nat \ {0} /\ inSquares \in Nat
      /\ outSquares \in Nat
  BY <1>1, BlockFacts, BlockAssumption DEF IInv, CoreInv, TaskInv, NumbersOK
<1>3. Count' = Count /\ Sample' = Sample /\ Reach' = Reach
  BY <1>1 DEF Count, Sample, Reach
<1>4. CASE SamplesDone
  <2>1. /\ pc = "samples" /\ pc' = "inRoot" /\ i > Count
        /\ RootCall(inSquares \div Count)
    BY <1>4 DEF SamplesDone, Goto
  <2>2. i - 1 = Count
    BY <1>2, <2>1 DEF IInv, FitInv
  <2>3. radicand' = inSquares \div Count
    BY <1>2, <2>1, <2>2, MeanSquareFits DEF IInv, FitInv
  <2> QED BY <1>1, <1>3, <2>1, <2>2, <2>3 DEF IInv, FitInv
<1>5. CASE RootStep
  <2>1. UNCHANGED <<pc, radicand, rms>>
    BY <1>5 DEF RootStep, Align, Digit
  <2> QED BY <1>1, <1>3, <2>1 DEF IInv, FitInv, IsRoot
<1>6. CASE InRootDone
  <2>1. /\ pc = "inRoot" /\ pc' = "outRoot" /\ RootDone /\ rms' = result
        /\ RootCall(outSquares \div Count)
    BY <1>6 DEF InRootDone, Goto
  <2>2. radicand' = outSquares \div Count
    BY <1>2, <2>1, MeanSquareFits DEF IInv, FitInv
  <2>3. Floor /\ result \in Nat /\ radicand = inSquares \div Count
    BY <2>1, FloorAtEnd DEF IInv, FitInv, CoreInv, RootInv, RootTypeOK
  <2>4. IsRoot(result, inSquares)
    BY <1>2, <2>3, WholeRoot DEF Floor
  <2>5. IsRoot(rms, inSquares)'
    BY <1>1, <1>3, <2>1, <2>4 DEF IsRoot
  <2> QED BY <1>1, <1>3, <2>1, <2>2, <2>5 DEF IInv, FitInv
<1>7. CASE OutRootDone
  <2>1. pc' = "read"
    BY <1>7 DEF OutRootDone, Goto
  <2> QED BY <1>1, <1>3, <2>1 DEF IInv, FitInv
<1> QED BY <1>4, <1>5, <1>6, <1>7

LEMMA NextFit ==
  ASSUME IInv, [Next]_vars PROVE FitInv'
<1>1. CASE UNCHANGED vars \/ GainChanged \/ ToggleMute
  <2>1. UNCHANGED <<pc, rx, mean, i, sum, inSquares, outSquares, radicand>>
    BY <1>1 DEF vars, GainChanged, ToggleMute, blockVars, loopVars, rootVars
  <2>2. rms' = rms
    BY <1>1 DEF vars, GainChanged, ToggleMute
  <2>3. Count' = Count /\ Sample' = Sample /\ Reach' = Reach
    BY <2>1 DEF Count, Sample, Reach
  <2> QED BY <2>1, <2>2, <2>3 DEF IInv, FitInv, IsRoot
<1>2. CASE StartAgain
  <2>1. pc' = "read" /\ mean' = 0
    BY <1>2 DEF StartAgain
  <2> QED BY <2>1, BlockAssumption DEF FitInv, Sample
<1> QED BY <1>1, <1>2, FitOfLoop, FitOfSample, FitOfRoot DEF Next, Callback, Task

LEMMA InitIInv ==
  ASSUME Init PROVE IInv
<1>1. FitInv
  BY BlockAssumption DEF Init, FitInv, Sample
<1> QED BY <1>1, InitCore DEF IInv

LEMMA NextIInv ==
  ASSUME IInv, [Next]_vars PROVE IInv'
BY NextCore, NextFit DEF IInv

-----------------------------------------------------------------------------
THEOREM IInvariant == Spec => []IInv
BY InitIInv, NextIInv, PTL DEF Spec

(* The meters show the integer part of a root, for any width of the        *)
(* argument.                                                               *)
THEOREM RootIsCorrect == Spec => []RootIsFloor
<1>1. IInv => RootIsFloor
  BY FloorAtEnd DEF IInv, RootIsFloor, Floor
<1> QED BY <1>1, IInvariant, PTL

(* The levels published of a block are the roots of its mean squares: sums *)
(* and squares of samples of any width fit, as the comments of main.c say. *)
THEOREM LevelsAreRoots == Spec => []RmsIsRoot
<1>1. ASSUME IInv, pc = "outRoot" PROVE IsRoot(rms, inSquares)
  BY <1>1 DEF IInv, FitInv
<1>2. ASSUME IInv, pc = "outRoot", RootDone PROVE IsRoot(result, outSquares)
  <2>1. /\ Count \in Nat \ {0} /\ outSquares \in Nat /\ result \in Nat
        /\ radicand = outSquares \div Count
    BY <1>2, BlockFacts, BlockAssumption DEF IInv, CoreInv, FitInv, TaskInv,
       NumbersOK, RootInv, RootTypeOK
  <2>2. Floor
    BY <1>2, FloorAtEnd DEF IInv
  <2> QED BY <2>1, <2>2, WholeRoot DEF Floor
<1>3. IInv => RmsIsRoot
  BY <1>1, <1>2 DEF RmsIsRoot
<1> QED BY <1>3, IInvariant, PTL

(* Every sample less the mean is within twice the full scale, as the       *)
(* comment on the gain says, which times 200 is far below 2^31.            *)
CentredFits ==
  pc = "samples" =>
    \A j \in DOMAIN rx : rx[j] - mean \in (-2 * FullScale - 1)..(2 * FullScale + 1)

THEOREM GainCannotOverflow == Spec => []CentredFits
<1>1. IInv => CentredFits
  BY BlockFacts, Centred, BlockAssumption
     DEF IInv, CoreInv, TaskInv, CentredFits, Reach
<1> QED BY <1>1, IInvariant, PTL

(* Whenever the user turns the gain or mutes, each block is played with    *)
(* one setting.                                                            *)
THEOREM BlocksAreUniform == Spec => []BlockIsUniform
<1>1. IInv => BlockIsUniform
  BY DEF IInv, CoreInv, TaskInv, BlockIsUniform, Snapshot
<1> QED BY <1>1, IInvariant, PTL

(* No gain turns a loud sample into its opposite.                          *)
THEOREM SamplesKeepOrder == Spec => []OrderKept
<1>1. ASSUME IInv, NEW j \in Forwarded
      PROVE  /\ rx[j] \in Int /\ mean \in Int /\ rx[j] - mean \in Int
             /\ tx[j] = Played(rx[j] - mean, blockGain, blockMuted)
             /\ blockGain \in 0..GainMax /\ blockMuted \in BOOLEAN
  BY <1>1, BlockFacts DEF IInv, CoreInv, NumbersOK, TaskInv
<1>2. ASSUME IInv, NEW j \in Forwarded PROVE tx[j] \in Sample
  BY <1>1, <1>2, PlayedInRange
<1>3. ASSUME IInv, NEW j \in Forwarded, NEW k \in Forwarded, rx[j] <= rx[k]
      PROVE  tx[j] <= tx[k]
  <2>1. rx[j] - mean <= rx[k] - mean
    BY <1>1, <1>3
  <2> QED BY <1>1, <1>3, <2>1, PlayedOrdered
<1>4. IInv => OrderKept
  BY <1>2, <1>3 DEF OrderKept
<1> QED BY <1>4, IInvariant, PTL

-----------------------------------------------------------------------------
(* The scale of the meters.                                                *)

LEMMA BandsAre ==
  /\ DOMAIN Bands = 1..10
  /\ Bands[1] = 32    /\ Bands[2] = 64    /\ Bands[3] = 128
  /\ Bands[4] = 256   /\ Bands[5] = 512   /\ Bands[6] = 1024
  /\ Bands[7] = 2048  /\ Bands[8] = 4096  /\ Bands[9] = 8192
  /\ Bands[10] = 16384
BY DEF Bands

(* How far a loudness stands within its band, in tenths.                   *)
Tenths(r, base) == ((r - base) * 10) \div base

LEMMA TenthsRise ==
  ASSUME NEW base \in {32, 64, 128, 256, 512, 1024, 2048, 4096, 8192, 16384},
         NEW r \in Nat, NEW s \in Nat, base <= r, r <= s, s < 2 * base
  PROVE  /\ Tenths(r, base) \in 0..9 /\ Tenths(s, base) \in 0..9
         /\ Tenths(r, base) <= Tenths(s, base)
<1>1. CASE base = 32
  BY <1>1 DEF Tenths
<1>2. CASE base = 64
  BY <1>2 DEF Tenths
<1>3. CASE base = 128
  BY <1>3 DEF Tenths
<1>4. CASE base = 256
  BY <1>4 DEF Tenths
<1>5. CASE base = 512
  BY <1>5 DEF Tenths
<1>6. CASE base = 1024
  BY <1>6 DEF Tenths
<1>7. CASE base = 2048
  BY <1>7 DEF Tenths
<1>8. CASE base = 4096
  BY <1>8 DEF Tenths
<1>9. CASE base = 8192
  BY <1>9 DEF Tenths
<1>10. CASE base = 16384
  BY <1>10 DEF Tenths
<1> QED BY <1>1, <1>2, <1>3, <1>4, <1>5, <1>6, <1>7, <1>8, <1>9, <1>10

(* Each loudness that is on the scale is in one band.                      *)
LEMMA BandOf ==
  ASSUME NEW r \in Nat, 32 < r, r < 32767
  PROVE  \E b \in 1..10 :
           InBand(r, b) /\ LevelFromRms(r) = (b - 1) * 10 + Tenths(r, Bands[b])
<1>2. \/ InBand(r, 1) \/ InBand(r, 2) \/ InBand(r, 3) \/ InBand(r, 4)
      \/ InBand(r, 5) \/ InBand(r, 6) \/ InBand(r, 7) \/ InBand(r, 8)
      \/ InBand(r, 9) \/ InBand(r, 10)
  BY BandsAre DEF InBand
<1>3. \E b \in DOMAIN Bands : InBand(r, b)
  BY <1>2, BandsAre
<1> DEFINE b == CHOOSE b \in DOMAIN Bands : InBand(r, b)
<1>4. b \in DOMAIN Bands /\ InBand(r, b)
  BY <1>3
<1>5. LevelFromRms(r) = (b - 1) * 10 + Tenths(r, Bands[b])
  <2>1. ~(r <= 32) /\ ~(r >= 32767)
    OBVIOUS
  <2>2. LevelFromRms(r) = (b - 1) * 10 + ((r - Bands[b]) * 10) \div Bands[b]
    BY <2>1 DEF LevelFromRms
  <2> QED BY <2>2 DEF Tenths
<1>6. b \in 1..10
  BY <1>4, BandsAre
<1> HIDE DEF b
<1> QED BY <1>4, <1>5, <1>6

LEMMA BandsRise ==
  ASSUME NEW b \in 1..10
  PROVE  /\ Bands[b] \in {32, 64, 128, 256, 512, 1024, 2048, 4096, 8192, 16384}
         /\ \A c \in 1..10 : b < c => 2 * Bands[b] <= Bands[c]
BY BandsAre

(* A louder sound never shows a lower bar, and every bar fits its scale,   *)
(* for any loudness: the bands meet without a step down where one ends and *)
(* the next begins (mic_level_from_rms).                                   *)
THEOREM LouderIsHigher ==
  ASSUME NEW r \in Nat, NEW s \in Nat, r <= s
  PROVE  /\ LevelFromRms(r) \in 0..100 /\ LevelFromRms(s) \in 0..100
         /\ LevelFromRms(r) <= LevelFromRms(s)
<1>1. ASSUME NEW q \in Nat, 32 < q, q < 32767 PROVE LevelFromRms(q) \in 0..99
  <2>1. PICK b \in 1..10 :
          InBand(q, b) /\ LevelFromRms(q) = (b - 1) * 10 + Tenths(q, Bands[b])
    BY <1>1, BandOf
  <2>2. Tenths(q, Bands[b]) \in 0..9
    BY <2>1, BandsRise, TenthsRise DEF InBand
  <2> QED BY <2>1, <2>2
<1>2. ASSUME NEW q \in Nat, q <= 32 PROVE LevelFromRms(q) = 0
  BY <1>2 DEF LevelFromRms
<1>3. ASSUME NEW q \in Nat, q >= 32767 PROVE LevelFromRms(q) = 100
  BY <1>3 DEF LevelFromRms
<1>4. ASSUME 32 < r, r < 32767, 32 < s, s < 32767
      PROVE  LevelFromRms(r) <= LevelFromRms(s)
  <2>1. PICK b \in 1..10 :
          InBand(r, b) /\ LevelFromRms(r) = (b - 1) * 10 + Tenths(r, Bands[b])
    BY <1>4, BandOf
  <2>2. PICK c \in 1..10 :
          InBand(s, c) /\ LevelFromRms(s) = (c - 1) * 10 + Tenths(s, Bands[c])
    BY <1>4, BandOf
  <2>3. Bands[b] \in Nat /\ Bands[c] \in Nat
    BY BandsRise
  <2>4. /\ Tenths(r, Bands[b]) \in 0..9 /\ Tenths(s, Bands[c]) \in 0..9
    BY <2>1, <2>2, BandsRise, TenthsRise DEF InBand
  <2>5. b <= c
    BY <2>1, <2>2, <2>3, BandsRise DEF InBand
  <2>6. CASE b = c
    BY <2>1, <2>2, <2>6, BandsRise, TenthsRise DEF InBand
  <2>7. CASE b < c
    BY <2>1, <2>2, <2>4, <2>7
  <2> QED BY <2>5, <2>6, <2>7
<1> QED BY <1>1, <1>2, <1>3, <1>4

(* A bar above where it belongs falls with every block and never past it,  *)
(* for any height of either (mic_capture_task).                            *)
THEOREM BarApproaches ==
  ASSUME NEW old \in Nat, NEW new \in Nat, new < old
  PROVE  new <= Decay(old, new) /\ Decay(old, new) < old
BY DEF Decay

(* Beside the microphone's meter the loopback does what it does alone, so  *)
(* what is proved of it above holds there.                                 *)
THEOREM LoopbackUndisturbed == SoundSpec => Spec
<1>1. SoundInit => Init
  BY DEF SoundInit
<1>2. [SoundNext]_soundVars => [Next]_vars
  BY DEF SoundNext, MicBlock, MicStops, LoopbackStep, soundVars
<1> QED BY <1>1, <1>2, PTL DEF SoundSpec, Spec

(* The bar of the microphone's meter stays on its scale.                   *)
LEMMA NewBar ==
  ASSUME micLevel \in 0..100, MicBlock
  PROVE  /\ micLevel' \in 0..100 /\ LevelFromRms(micRms') <= micLevel'
         /\ micLevel > LevelFromRms(micRms') => micLevel' < micLevel
<1>1. micRms' \in Nat
  BY LoudnessAssumption DEF MicBlock
<1>2. LevelFromRms(micRms') \in 0..100
  BY <1>1, LouderIsHigher
<1>3. micLevel' = IF LevelFromRms(micRms') >= micLevel THEN LevelFromRms(micRms')
                  ELSE Decay(micLevel, LevelFromRms(micRms'))
  BY DEF MicBlock
<1>4. CASE LevelFromRms(micRms') >= micLevel
  BY <1>2, <1>3, <1>4
<1>5. CASE LevelFromRms(micRms') < micLevel
  <2>1. micLevel' = Decay(micLevel, LevelFromRms(micRms'))
    BY <1>2, <1>3, <1>5
  <2>2. Decay(micLevel, LevelFromRms(micRms')) \in Int
    BY <1>2 DEF Decay
  <2> QED BY <1>2, <1>5, <2>1, <2>2, BarApproaches
<1> QED BY <1>2, <1>4, <1>5

LEMMA BarOnScale == SoundSpec => [](micLevel \in 0..100)
<1>1. SoundInit => micLevel \in 0..100
  BY DEF SoundInit
<1>2. micLevel \in 0..100 /\ [SoundNext]_soundVars => (micLevel \in 0..100)'
  BY NewBar DEF SoundNext, MicStops, LoopbackStep, soundVars, micVars
<1> QED BY <1>1, <1>2, PTL DEF SoundSpec

(* Every block brings the bar nearer to the level of its sound and never   *)
(* past it, whatever loudnesses follow one another.                        *)
THEOREM BarSettles == SoundSpec => BarFollowsSound
<1>1. ASSUME micLevel \in 0..100, [SoundNext]_soundVars
      PROVE  [MicBlock =>
                LET target == LevelFromRms(micRms')
                IN  /\ target <= micLevel' /\ micLevel' <= 100
                    /\ micLevel > target => micLevel' < micLevel]_soundVars
  BY <1>1, NewBar
<1> QED BY <1>1, BarOnScale, PTL DEF SoundSpec, BarFollowsSound
=============================================================================
