-------------------------- MODULE MCMediaCommands ---------------------------
(* Model-checking instance of MediaCommands: a queue that two presses of a *)
(* button fill while a third is in the hands of the task.                  *)
EXTENDS MediaCommands
=============================================================================
