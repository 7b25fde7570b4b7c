------------------------------- MODULE Faults -------------------------------
(***************************************************************************)
(* A bound on what goes wrong: the parts of the device share a budget of   *)
(* failing calls and resets.                                               *)
(***************************************************************************)
EXTENDS Naturals

CONSTANT MaxFaults  \* bound: failures in one behaviour

ASSUME FaultAssumption == MaxFaults \in Nat

VARIABLE faults     \* failures still to come

FaultTypeOK == faults \in 0..MaxFaults

FaultInit == faults = MaxFaults

Fails == faults > 0 /\ faults' = faults - 1
Works == UNCHANGED faults
=============================================================================
