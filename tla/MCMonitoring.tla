---------------------------- MODULE MCMonitoring ----------------------------
(***************************************************************************)
(* Monitoring for TLC: the constants are given in the configurations, with *)
(* model values for the sweeps and the targets.                            *)
(***************************************************************************)
EXTENDS Monitoring
=============================================================================
