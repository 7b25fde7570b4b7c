---------------------------- MODULE KnobDebounce ----------------------------
(***************************************************************************)
(* The bidirectional knob of components/user_encoder_bsp: every 3 ms the   *)
(* esp_timer task samples the two phases and process_knob_channel turns    *)
(* each low pulse of phase A into KNOB_RIGHT and of phase B into           *)
(* KNOB_LEFT.  One debounce counter per phase, eight bits wide, counts     *)
(* the samples of the pulse.  count_value, which nothing in the firmware   *)
(* reads, is left out: it is the number of KNOB_RIGHT callbacks less the   *)
(* number of KNOB_LEFT ones.                                               *)
(*                                                                         *)
(* run is a history variable: for each phase the number of low samples     *)
(* since it was last high, which the properties are stated in.             *)
(***************************************************************************)
EXTENDS Integers

CONSTANT MaxRun  \* bound: longest pulse, in samples

ASSUME BoundAssumption == MaxRun \in Nat \ {0}

DebounceTicks == 2
Wrap          == 256     \* the counters are uint8_t

Phase == {"A", "B"}
Level == {0, 1}

VARIABLES
  level,        \* encoder_a_level, encoder_b_level: the previous samples
  debounceCnt,  \* debounce_a_cnt, debounce_b_cnt
  emitted,      \* phases whose callback was called at the last sample
  run           \* history: low samples of the current pulse

vars == <<level, debounceCnt, emitted, run>>

(* iot_knob_create: calloc, then each phase is read once; this reading     *)
(* counts as the first sample of a pulse that is under way.                *)
Init ==
  /\ level       \in [Phase -> Level]
  /\ debounceCnt = [p \in Phase |-> 0]
  /\ emitted     = {}
  /\ run         = [p \in Phase |-> IF level[p] = 0 THEN 1 ELSE 0]

(* ++ on a uint8_t                                                         *)
Increment(n) == (n + 1) % Wrap

-----------------------------------------------------------------------------
(* process_knob_channel of phase p that now reads now.                     *)

(* Mutant of Emits: one sample is enough.                                  *)
EmitsEarly(p, now) ==
  now = 1 /\ level[p] = 0 /\ Increment(debounceCnt[p]) >= DebounceTicks - 1

(* The pulse ends and was long enough.                                     *)
Emits(p, now) ==
  now = 1 /\ level[p] = 0 /\ Increment(debounceCnt[p]) >= DebounceTicks

(* The counter runs within a pulse and is reset everywhere else.           *)
NextCnt(p, now) ==
  IF now = 0 /\ level[p] = 0 THEN Increment(debounceCnt[p]) ELSE 0

NextRun(p, now) == IF now = 0 THEN run[p] + 1 ELSE 0

(* knob_handler: both phases are read, then processed one after the other. *)
Sample(a, b) ==
  LET now == [p \in Phase |-> IF p = "A" THEN a ELSE b]
  IN  /\ \A p \in Phase : NextRun(p, now[p]) <= MaxRun
      /\ debounceCnt' = [p \in Phase |-> NextCnt(p, now[p])]
      /\ emitted'     = {p \in Phase : Emits(p, now[p])}
      /\ level'       = now
      /\ run'         = [p \in Phase |-> NextRun(p, now[p])]

Next == \E a, b \in Level : Sample(a, b)

Spec == Init /\ [][Next]_vars

-----------------------------------------------------------------------------
(* Every variable stays in its type.                                       *)
TypeOK ==
  /\ level       \in [Phase -> Level]
  /\ debounceCnt \in [Phase -> 0..(Wrap - 1)]
  /\ emitted     \in SUBSET Phase
  /\ run         \in [Phase -> 0..MaxRun]

(* The inductive invariant: within a pulse the counter holds the number of *)
(* samples after the first, modulo its width, and nothing of a pulse       *)
(* survives it.                                                            *)
CntInv == \A p \in Phase :
  IF level[p] = 0
    THEN run[p] > 0 /\ debounceCnt[p] = (run[p] - 1) % Wrap
    ELSE run[p] = 0 /\ debounceCnt[p] = 0

IInv == TypeOK /\ CntInv

Ends(p) == run[p] > 0 /\ run'[p] = 0

(* The exact law of the debouncer, for pulses of any length: a pulse of n  *)
(* samples is a step iff n modulo 256 is at least DEBOUNCE_TICKS, so a     *)
(* pulse of 256 or 257 samples (768 ms) is swallowed, one sample never     *)
(* counts, and no pulse gives two steps.                                   *)
PulseLaw == [][\A p \in Phase :
  p \in emitted' <=> Ends(p) /\ run[p] % Wrap >= DebounceTicks]_vars
=============================================================================
