----------------------------- MODULE MCAlerting -----------------------------
(***************************************************************************)
(* Alerting for TLC: one rule of the usual kind, firing on "down".         *)
(***************************************************************************)
EXTENDS Alerting

CONSTANT rule1

FiresOnDown == [r \in {rule1} |-> "down"]
FloorOfOne == [r \in {rule1} |-> 1]
=============================================================================
