------------------------------ MODULE Alerting ------------------------------
(***************************************************************************)
(* The alerting engine of HIMS on top of the monitoring of one device:     *)
(* alert rules, alerts and the work orders they spawn, the evaluation      *)
(* passes (after every sweep of a loop, or on demand), the operators who   *)
(* acknowledge and resolve alerts and edit rules, and maintenance windows. *)
(*                                                                         *)
(* An evaluation reads windows, rules and checks once, in this order, and  *)
(* then acts on what it read, one statement at a time.  A pass may begin   *)
(* at any moment, since evaluateAlerts runs one on request.  An alert's    *)
(* check_id is NULL exactly when its row of monitoring_checks is deleted   *)
(* (ON DELETE SET NULL); rows are never reused.  The append-only timeline  *)
(* (alert_events, work-order notes) is left out.                           *)
(***************************************************************************)
EXTENDS Monitoring

CONSTANTS
  Evaluators,      \* concurrent callers of Engine.Evaluate
  Rules,           \* alert_rules
  Trigger,         \* per rule, trigger_status
  MinFailures,     \* per rule, min_failures
  AutoWorkOrder,   \* the rules that spawn a work order
  Escalating,      \* the rules whose escalate_after_minutes is not 0
  MaxAlerts        \* bound: rows ever inserted into alerts

ASSUME AlertingAssumption ==
  /\ IsFiniteSet(Evaluators) /\ IsFiniteSet(Rules)
  /\ Trigger \in [Rules -> {"down", "warning"}] /\ MinFailures \in [Rules -> 0..MaxCount]
  /\ AutoWorkOrder \subseteq Rules /\ Escalating \subseteq Rules /\ MaxAlerts \in Nat

VARIABLES
  rule,       \* per rule: "enabled", "disabled" or "deleted"
  alert,      \* alerts, by insertion order
  nextAlert,  \* the next alert to insert
  orders,     \* per alert, how many work orders it has spawned
  window,     \* whether a maintenance window covers the device
  eval        \* per evaluator, where it is and what it has read

alr == <<rule, alert, nextAlert, orders, window, eval>>
vars == <<mon, alr>>

Alerts == 1..MaxAlerts
AlertRow == [status : {"none", "open", "acknowledged", "resolved", "deleted"},
             rule : Rules, check : Rows, order : BOOLEAN,   \* work_order_id is set
             aged : BOOLEAN,                                \* open past the escalation window
             escalated : BOOLEAN]
EvalRec == [pc : {"idle", "suppress", "rules", "checks", "fire", "order", "link"},
            suppressed : BOOLEAN, rules : SUBSET Rules,
            todo : SUBSET (Rules \X Rows), alert : 0..MaxAlerts]

IdleEval == [pc |-> "idle", suppressed |-> FALSE, rules |-> {}, todo |-> {}, alert |-> 0]
NewAlert(r, c) == [status |-> "open", rule |-> r, check |-> c, order |-> FALSE,
                   aged |-> FALSE, escalated |-> FALSE]

AlertInit ==
  /\ rule = [r \in Rules |-> "enabled"]
  /\ alert = [k \in Alerts |-> [NewAlert(CHOOSE r \in Rules : TRUE, 1) EXCEPT !.status = "none"]]
  /\ nextAlert = 1
  /\ orders = [k \in Alerts |-> 0]
  /\ window = FALSE
  /\ eval = [e \in Evaluators |-> IdleEval]

Unresolved(k) == alert[k].status \in {"open", "acknowledged"}

-----------------------------------------------------------------------------
(* Engine.Evaluate.                                                        *)

(* ResolveRecoveredAlerts: one statement on every unresolved alert whose check
   now reads 'up'. *)
ResolveOpenOnly(e) ==                            \* mutant: acknowledged alerts are left
  /\ eval[e].pc = "idle"
  /\ alert' = [k \in Alerts |->
                 IF /\ alert[k].status = "open"
                    /\ Live(alert[k].check) /\ row[alert[k].check].status = "up"
                 THEN [alert[k] EXCEPT !.status = "resolved"] ELSE alert[k]]
  /\ eval' = [eval EXCEPT ![e].pc = "suppress"]
  /\ UNCHANGED <<mon, rule, nextAlert, orders, window>>
ResolveRecoveredAlerts(e) ==
  /\ eval[e].pc = "idle"
  /\ alert' = [k \in Alerts |->
                 IF Unresolved(k) /\ Live(alert[k].check) /\ row[alert[k].check].status = "up"
                 THEN [alert[k] EXCEPT !.status = "resolved"] ELSE alert[k]]
  /\ eval' = [eval EXCEPT ![e].pc = "suppress"]
  /\ UNCHANGED <<mon, rule, nextAlert, orders, window>>

loadSuppression(e) ==
  /\ eval[e].pc = "suppress"
  /\ eval' = [eval EXCEPT ![e].pc = "rules", ![e].suppressed = window]
  /\ UNCHANGED <<mon, rule, alert, nextAlert, orders, window>>

(* The windows cannot be read: the pass goes on with nothing suppressed. *)
SuppressionUnread(e) ==
  /\ Event
  /\ eval[e].pc = "suppress" /\ window
  /\ eval' = [eval EXCEPT ![e].pc = "rules"]
  /\ UNCHANGED <<row, nextRow, badge, answers, key, sweep, pending, roles, offline>>
  /\ UNCHANGED <<rule, alert, nextAlert, orders, window>>

Matches(r, c) == row[c].status = Trigger[r] /\ row[c].failures >= MinFailures[r]

ListEnabledAlertRules(e) ==
  /\ eval[e].pc = "rules"
  /\ eval' = [eval EXCEPT ![e].pc = "checks", ![e].rules = {r \in Rules : rule[r] = "enabled"}]
  /\ UNCHANGED <<mon, rule, alert, nextAlert, orders, window>>

(* What is to fire: none of it if the device is suppressed. *)
ListEnabledChecksWithDevice(e) ==
  /\ eval[e].pc = "checks"
  /\ LET firing == {x \in eval[e].rules \X Rows : /\ Live(x[2]) /\ row[x[2]].enabled
                                                 /\ Matches(x[1], x[2])}
     IN eval' = [eval EXCEPT ![e] = [IdleEval EXCEPT !.pc = "fire",
                               !.todo = IF eval[e].suppressed THEN {} ELSE firing]]
  /\ UNCHANGED <<mon, rule, alert, nextAlert, orders, window>>

(* idx_alerts_one_open, a partial unique index. *)
ConflictsEver(r, c) ==                           \* mutant: the index is not partial
  \E k \in Alerts : /\ alert[k].status \notin {"none", "deleted"}
                    /\ alert[k].rule = r /\ alert[k].check = c
Conflicts(r, c) == \E k \in Alerts : Unresolved(k) /\ alert[k].rule = r /\ alert[k].check = c

(* fire: a rule or check that has gone is refused by its foreign key, an alert
   that is still unresolved absorbs the insert, and only an insert goes on to
   the work order. *)
FireAlways(e, r, c) ==                           \* mutant: a conflict, too, goes on to the bridge
  /\ eval[e].pc = "fire" /\ <<r, c>> \in eval[e].todo
  /\ LET rest == eval[e].todo \ {<<r, c>>}
     IN IF rule[r] = "deleted" \/ ~Live(c)
        THEN /\ eval' = [eval EXCEPT ![e].todo = rest]
             /\ UNCHANGED <<alert, nextAlert>>
        ELSE IF Conflicts(r, c)
        THEN /\ \E k \in Alerts : /\ Unresolved(k) /\ alert[k].rule = r /\ alert[k].check = c
                                  /\ eval' = [eval EXCEPT ![e] = [IdleEval EXCEPT
                                                !.pc = "order", !.todo = rest, !.alert = k]]
             /\ UNCHANGED <<alert, nextAlert>>
        ELSE /\ nextAlert <= MaxAlerts
             /\ alert' = [alert EXCEPT ![nextAlert] = NewAlert(r, c)]
             /\ nextAlert' = nextAlert + 1
             /\ eval' = [eval EXCEPT ![e] = [IdleEval EXCEPT !.pc = "order", !.todo = rest,
                                                             !.alert = nextAlert]]
  /\ UNCHANGED <<mon, rule, orders, window>>
OpenAlert(e, r, c) ==
  /\ eval[e].pc = "fire" /\ <<r, c>> \in eval[e].todo
  /\ LET rest == eval[e].todo \ {<<r, c>>}
     IN \/ /\ rule[r] = "deleted" \/ ~Live(c) \/ Conflicts(r, c)
           /\ eval' = [eval EXCEPT ![e].todo = rest]
           /\ UNCHANGED <<alert, nextAlert>>
        \/ /\ rule[r] # "deleted" /\ Live(c) /\ ~Conflicts(r, c)
           /\ nextAlert <= MaxAlerts
           /\ alert' = [alert EXCEPT ![nextAlert] = NewAlert(r, c)]
           /\ nextAlert' = nextAlert + 1
           /\ eval' = [eval EXCEPT ![e] =
                         IF r \in AutoWorkOrder
                         THEN [IdleEval EXCEPT !.pc = "order", !.todo = rest, !.alert = nextAlert]
                         ELSE [IdleEval EXCEPT !.pc = "fire", !.todo = rest]]
  /\ UNCHANGED <<mon, rule, orders, window>>

BackToFire(e) == eval' = [eval EXCEPT ![e].pc = "fire", ![e].alert = 0]

CreateWorkOrder(e) ==
  /\ eval[e].pc = "order"
  /\ orders' = [orders EXCEPT ![eval[e].alert] = @ + 1]
  /\ eval' = [eval EXCEPT ![e].pc = "link"]
  /\ UNCHANGED <<mon, rule, alert, nextAlert, window>>

(* By primary key: an alert deleted with its rule is not there to be linked. *)
SetAlertWorkOrder(e) ==
  /\ eval[e].pc = "link"
  /\ LET k == eval[e].alert
     IN alert' = IF alert[k].status # "deleted" THEN [alert EXCEPT ![k].order = TRUE] ELSE alert
  /\ BackToFire(e)
  /\ UNCHANGED <<mon, rule, nextAlert, orders, window>>

(* A statement of fire fails, is logged, and ends the firing of this pair. *)
FireFails(e) ==
  /\ Event
  /\ \/ /\ eval[e].pc = "fire"
        /\ \E x \in eval[e].todo : eval' = [eval EXCEPT ![e].todo = @ \ {x}]
     \/ eval[e].pc \in {"order", "link"} /\ BackToFire(e)
  /\ UNCHANGED <<row, nextRow, badge, answers, key, sweep, pending, roles, offline>>
  /\ UNCHANGED <<rule, alert, nextAlert, orders, window>>

(* The last statement of the pass. *)
EscalateStaleAlerts(e) ==
  /\ eval[e].pc = "fire" /\ eval[e].todo = {}
  /\ alert' = [k \in Alerts |-> IF /\ alert[k].status = "open" /\ alert[k].aged
                                   /\ alert[k].rule \in Escalating
                                THEN [alert[k] EXCEPT !.escalated = TRUE] ELSE alert[k]]
  /\ eval' = [eval EXCEPT ![e] = IdleEval]
  /\ UNCHANGED <<mon, rule, nextAlert, orders, window>>

EvalDies(e) ==
  /\ Event
  /\ eval[e].pc # "idle"
  /\ eval' = [eval EXCEPT ![e] = IdleEval]
  /\ UNCHANGED <<row, nextRow, badge, answers, key, sweep, pending, roles, offline>>
  /\ UNCHANGED <<rule, alert, nextAlert, orders, window>>

Evaluation(e) == \/ loadSuppression(e) \/ ListEnabledAlertRules(e) \/ ListEnabledChecksWithDevice(e)
                 \/ \E r \in Rules, c \in Rows : OpenAlert(e, r, c)
                 \/ CreateWorkOrder(e) \/ SetAlertWorkOrder(e) \/ EscalateStaleAlerts(e)

-----------------------------------------------------------------------------
(* Operators and time.                                                     *)

acknowledgeAlert(k) ==
  /\ alert[k].status = "open"
  /\ alert' = [alert EXCEPT ![k].status = "acknowledged"]
  /\ UNCHANGED <<rule, nextAlert, orders, window, eval>>

resolveAlert(k) ==
  /\ Unresolved(k)
  /\ alert' = [alert EXCEPT ![k].status = "resolved"]
  /\ UNCHANGED <<rule, nextAlert, orders, window, eval>>

setAlertRuleEnabled(r) ==
  /\ rule[r] # "deleted"
  /\ rule' = [rule EXCEPT ![r] = IF @ = "enabled" THEN "disabled" ELSE "enabled"]
  /\ UNCHANGED <<alert, nextAlert, orders, window, eval>>

(* alerts.rule_id ... ON DELETE CASCADE. *)
deleteAlertRule(r) ==
  /\ rule[r] # "deleted"
  /\ rule' = [rule EXCEPT ![r] = "deleted"]
  /\ alert' = [k \in Alerts |-> IF alert[k].status # "none" /\ alert[k].rule = r
                                THEN [alert[k] EXCEPT !.status = "deleted"] ELSE alert[k]]
  /\ UNCHANGED <<nextAlert, orders, window, eval>>

createMaintenanceWindow ==
  /\ ~window /\ window' = TRUE
  /\ UNCHANGED <<rule, alert, nextAlert, orders, eval>>

Intervention ==
  /\ Event
  /\ \/ \E k \in Alerts : acknowledgeAlert(k) \/ resolveAlert(k)
     \/ \E r \in Rules : setAlertRuleEnabled(r) \/ deleteAlertRule(r)
     \/ createMaintenanceWindow
  /\ UNCHANGED <<row, nextRow, badge, answers, key, sweep, pending, roles, offline>>

(* deleteMaintenanceWindow, or the window's end. *)
WindowEnds ==
  /\ window /\ window' = FALSE
  /\ UNCHANGED <<mon, rule, alert, nextAlert, orders, eval>>

AlertAges(k) ==
  /\ alert[k].status = "open" /\ ~alert[k].aged /\ alert[k].rule \in Escalating
  /\ alert' = [alert EXCEPT ![k].aged = TRUE]
  /\ UNCHANGED <<mon, rule, nextAlert, orders, window, eval>>

-----------------------------------------------------------------------------
Init == MonInit /\ AlertInit

Next ==
  \/ MonNext /\ UNCHANGED alr
  \/ \E e \in Evaluators : \/ ResolveRecoveredAlerts(e) \/ Evaluation(e)
                           \/ SuppressionUnread(e) \/ FireFails(e) \/ EvalDies(e)
  \/ Intervention \/ WindowEnds
  \/ \E k \in Alerts : AlertAges(k)

Spec == Init /\ [][Next]_vars

(* Passes are begun for ever and go on once begun; sweeps as in Monitoring. *)
Fairness ==
  /\ \A s \in Loops : WF_vars(RunDue(s) /\ UNCHANGED alr)
  /\ \A s \in Sweepers : WF_vars(Sweep(s) /\ UNCHANGED alr)
  /\ \A c \in Rows : WF_vars(IntervalElapses(c) /\ UNCHANGED alr)
  /\ \A e \in Evaluators : WF_vars(ResolveRecoveredAlerts(e)) /\ WF_vars(Evaluation(e))

FairSpec == Spec /\ Fairness

-----------------------------------------------------------------------------
(* Properties.                                                             *)

(* Every rule, alert and evaluation has its type, and so has the monitoring
   state below them. *)
TypeOK ==
  /\ MonTypeOK
  /\ rule \in [Rules -> {"enabled", "disabled", "deleted"}]
  /\ alert \in [Alerts -> AlertRow] /\ nextAlert \in 1..(MaxAlerts + 1)
  /\ orders \in [Alerts -> Nat] /\ window \in BOOLEAN
  /\ eval \in [Evaluators -> EvalRec]

(* "A still-down check won't spawn duplicate alerts or WOs": two evaluations
   that list the same failing check never give one alert two work orders. *)
OneOrderPerAlert == \A k \in Alerts : orders[k] <= 1

(* "Alerts auto-resolve when their check recovers": once a check reads 'up' for
   good, no alert on it stays unresolved, acknowledged ones and the ones a
   stale evaluation still opens included. *)
AlertsClear ==
  \A c \in Rows :
    <>[](Live(c) /\ row[c].status = "up")
      => <>[](\A k \in Alerts : Unresolved(k) => alert[k].check # c)

(* Every lasting outage is alerted on, the second as well as the first: a
   polled check that stays in a rule's trigger state while the rule is enabled
   and no window covers the device ends with an unresolved alert. *)
OutagesAlerted ==
  \A c \in Rows, r \in Rules :
    <>[](/\ Live(c) /\ row[c].enabled /\ Matches(r, c)
         /\ rule[r] = "enabled" /\ ~window /\ nextAlert <= MaxAlerts)
      => <>[](\E k \in Alerts : Unresolved(k) /\ alert[k].rule = r /\ alert[k].check = c)
=============================================================================
