----------------------------- MODULE MCNotifier -----------------------------
(* One channel that wants warnings, a warning and a critical alert.        *)
EXTENDS Notifier, TLC
CONSTANTS warn, crit
SeverityOf == (warn :> "warning") @@ (crit :> "critical")
MinimumOf  == [c \in Channels |-> "warning"]
=============================================================================
