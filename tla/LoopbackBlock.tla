--------------------------- MODULE LoopbackBlock ----------------------------
(***************************************************************************)
(* What the loopback task does with one block of samples after another,    *)
(* while LVGL's callbacks change gain and mute: it subtracts the mean,     *)
(* reads gain and mute once, each by itself, scales and saturates every    *)
(* sample, and publishes the levels of what came in and what went out.     *)
(* Who owns the channels, and how reads and writes fail, is the matter of  *)
(* AudioWorkers.                                                           *)
(***************************************************************************)
EXTENDS SquareRoot

CONSTANTS
  FullScale,  \* INT16_MAX
  BlockSize,  \* bound: samples of a block
  Settings    \* bound: positions of the gain slider, in percent

GainMin     == 0
GainMax     == 200
GainDefault == 50

ASSUME BlockAssumption ==
  /\ FullScale \in Nat \ {0}
  /\ BlockSize \in Nat \ {0}
  /\ Settings \subseteq Int

(* A sample less the mean has at most one bit more than a sample, and its  *)
(* square fits 64 bits.                                                    *)
ASSUME WidthAssumption == FullScale < TopRoot

VARIABLES
  gain,        \* loopback_gain_percent
  muted,       \* loopback_muted
  pc,          \* where the task is
  rx, tx,      \* rx_samples and tx_samples
  i,           \* index of a loop, from 1
  sum, mean,
  blockGain, blockMuted,
  inSquares, outSquares,
  rms,         \* loopback_rms, once it is known of this block
  gainsSeen,   \* history: gains in force between the arrival of this block
  mutesSeen    \* ... and its first sample, and likewise for mute

controls  == <<gain, muted, gainsSeen, mutesSeen>>
blockVars == <<rx, mean, blockGain, blockMuted>>
loopVars  == <<tx, i, sum, inSquares, outSquares>>
vars == <<controls, pc, blockVars, loopVars, rms, rootVars>>

Sample == (-FullScale - 1)..FullScale
Block  == UNION {[1..n -> Sample] : n \in 1..BlockSize}
Count  == CHOOSE n \in 0..BlockSize : DOMAIN rx = 1..n

-----------------------------------------------------------------------------
(* The / of C rounds towards zero.                                         *)
Quotient(a, b) == IF a >= 0 THEN a \div b ELSE -((-a) \div b)

Scaled(c, g) == Quotient(c * g, 100)

(* Mutant of Saturate: a cast to int16_t.                                  *)
Wrap(x) == ((x + FullScale + 1) % (2 * FullScale + 2)) - FullScale - 1

Saturate(x) == IF x > FullScale THEN FullScale
               ELSE IF x < -FullScale - 1 THEN -FullScale - 1 ELSE x

Played(c, g, m) == IF m THEN 0 ELSE Saturate(Scaled(c, g))

Clamp(g) == IF g < GainMin THEN GainMin
            ELSE IF g > GainMax THEN GainMax ELSE g

Init ==
  /\ gain = GainDefault /\ muted = FALSE
  /\ gainsSeen = {} /\ mutesSeen = {}
  /\ pc = "read"
  /\ rx = <<>> /\ tx = <<>>
  /\ i = 1 /\ sum = 0 /\ mean = 0
  /\ blockGain = 0 /\ blockMuted = FALSE
  /\ inSquares = 0 /\ outSquares = 0 /\ rms = 0
  /\ RootInit

-----------------------------------------------------------------------------
(* The callbacks of the slider and of the mute button, in the LVGL task.   *)
Note(g, m) ==
  /\ gain' = g /\ muted' = m
  /\ IF pc \in {"mean", "gain", "mute"}
     THEN /\ gainsSeen' = gainsSeen \cup {g}
          /\ mutesSeen' = mutesSeen \cup {m}
     ELSE UNCHANGED <<gainsSeen, mutesSeen>>

GainChanged ==
  /\ \E g \in Settings : Note(Clamp(g), muted)
  /\ UNCHANGED <<pc, blockVars, loopVars, rms, rootVars>>

ToggleMute ==
  /\ Note(gain, ~muted)
  /\ UNCHANGED <<pc, blockVars, loopVars, rms, rootVars>>

(* A stop, seen between blocks, and a new start: a new task, not muted.    *)
StartAgain ==
  /\ pc = "read"
  /\ muted' = FALSE
  /\ gainsSeen' = {} /\ mutesSeen' = {}
  /\ rx' = <<>> /\ tx' = <<>>
  /\ i' = 1 /\ sum' = 0 /\ mean' = 0
  /\ blockGain' = 0 /\ blockMuted' = FALSE
  /\ inSquares' = 0 /\ outSquares' = 0 /\ rms' = 0
  /\ RootReset
  /\ UNCHANGED <<gain, pc>>

-----------------------------------------------------------------------------
Goto(from, to) == pc = from /\ pc' = to

ReadBlock ==
  /\ Goto("read", "mean")
  /\ rx' \in Block
  /\ tx' = <<>> /\ i' = 1 /\ sum' = 0
  /\ inSquares' = 0 /\ outSquares' = 0
  /\ gainsSeen' = {gain} /\ mutesSeen' = {muted}
  /\ UNCHANGED <<gain, muted, mean, blockGain, blockMuted, rms, rootVars>>

AddToMean ==
  /\ pc = "mean" /\ i <= Count
  /\ sum' = sum + rx[i] /\ i' = i + 1
  /\ UNCHANGED <<controls, pc, blockVars, tx, inSquares, outSquares, rms,
                 rootVars>>

SetMean ==
  /\ Goto("mean", "gain") /\ i > Count
  /\ mean' = Quotient(sum, Count) /\ i' = 1
  /\ UNCHANGED <<controls, rx, blockGain, blockMuted, tx, sum, inSquares,
                 outSquares, rms, rootVars>>

ReadGain ==
  /\ Goto("gain", "mute")
  /\ blockGain' = Clamp(gain)
  /\ UNCHANGED <<controls, rx, mean, blockMuted, loopVars, rms, rootVars>>

ReadMute ==
  /\ Goto("mute", "samples")
  /\ blockMuted' = muted
  /\ UNCHANGED <<controls, rx, mean, blockGain, loopVars, rms, rootVars>>

Square(x) == x * x

(* Mutant of Forward: gain and mute are read for every sample.             *)
ForwardLive ==
  LET c == rx[i] - mean
      p == Played(c, gain, muted)
  IN  /\ tx' = [j \in 1..i |-> IF j = i THEN p ELSE tx[j]]
      /\ inSquares'  = inSquares + Square(c)
      /\ outSquares' = outSquares + Square(p)

Forward ==
  LET c == rx[i] - mean
      p == Played(c, blockGain, blockMuted)
  IN  /\ tx' = [j \in 1..i |-> IF j = i THEN p ELSE tx[j]]
      /\ inSquares'  = inSquares + Square(c)
      /\ outSquares' = outSquares + Square(p)

NextSample ==
  /\ pc = "samples" /\ i <= Count
  /\ Forward
  /\ i' = i + 1
  /\ UNCHANGED <<controls, pc, blockVars, sum, rms, rootVars>>

SamplesDone ==
  /\ Goto("samples", "inRoot") /\ i > Count
  /\ RootCall(inSquares \div Count)
  /\ UNCHANGED <<controls, blockVars, loopVars, rms>>

RootStep ==
  /\ pc \in {"inRoot", "outRoot"}
  /\ Align \/ Digit
  /\ UNCHANGED <<controls, pc, blockVars, loopVars, rms>>

InRootDone ==
  /\ Goto("inRoot", "outRoot") /\ RootDone
  /\ rms' = result
  /\ RootCall(outSquares \div Count)
  /\ UNCHANGED <<controls, blockVars, loopVars>>

(* The block is published and written to the DAC.                          *)
OutRootDone ==
  /\ Goto("outRoot", "read") /\ RootDone
  /\ UNCHANGED <<controls, blockVars, loopVars, rms, rootVars>>

Callback == GainChanged \/ ToggleMute \/ StartAgain

Task ==
  \/ ReadBlock \/ AddToMean \/ SetMean \/ ReadGain \/ ReadMute
  \/ NextSample \/ SamplesDone \/ RootStep \/ InRootDone \/ OutRootDone

Next == Callback \/ Task

Spec == Init /\ [][Next]_vars

-----------------------------------------------------------------------------
Forwarded == DOMAIN tx

(* A block is played with one gain and one mute throughout, each of which  *)
(* was in force while the block was there and before its first sample: the *)
(* callbacks change neither in the middle, and both act on the next block. *)
BlockIsUniform ==
  Forwarded # {} =>
    \E g \in gainsSeen, m \in mutesSeen :
      \A j \in Forwarded : tx[j] = Played(rx[j] - mean, g, m)

(* What is played fits 16 bits and rises and falls with what was heard:    *)
(* a loud sample is clipped and never turns into its opposite.             *)
OrderKept ==
  /\ \A j \in Forwarded : tx[j] \in Sample
  /\ \A j, k \in Forwarded : rx[j] <= rx[k] => tx[j] <= tx[k]

(* The levels that are published are the roots of the mean squares of what *)
(* came in and what went out: nothing on the way from the samples to the   *)
(* meter is cut off, and the root is the largest that is not above.        *)
IsRoot(r, squares) ==
  r * r * Count <= squares /\ squares < (r + 1) * (r + 1) * Count

RmsIsRoot ==
  pc = "outRoot" =>
    /\ IsRoot(rms, inSquares)
    /\ RootDone => IsRoot(result, outSquares)
=============================================================================
