---------------------------- MODULE MCRelayQueue ----------------------------
(***************************************************************************)
(* RelayQueue as TLC runs it.  The configurations MCRelay_*.cfg give one   *)
(* site: one agent, one device, one scan worker beside the self-heal sweep *)
(* (named by model values), and differ in the specification they take and  *)
(* in the bounds on rows, attempts, rounds and faults.                     *)
(***************************************************************************)
EXTENDS RelayQueue
=============================================================================
