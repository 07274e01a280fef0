---------------------------- MODULE MCEventStream ----------------------------
(***************************************************************************)
(* Model values and bounds for checking EventStream with TLC. What another  *)
(* stream's run publishes looks to this one like any event from elsewhere.  *)
(***************************************************************************)
EXTENDS EventStream

CONSTANT r1

Turns2 == [r \in Run |-> 2]
Turns3 == [r \in Run |-> 3]
=============================================================================
