------------------------------ MODULE MCDevice ------------------------------
(* Model-checking instance of Device.  One part may be out of order: the   *)
(* task of the optional parts, which are logged, the event group, which is *)
(* not looked at and asserted by a task, or a mandatory part.              *)
EXTENDS Device
=============================================================================
