--------------------------- MODULE AlertingProofs ---------------------------
(***************************************************************************)
(* The alert-to-work-order bridge, for every number of concurrent          *)
(* evaluations, rules, checks and alerts; and the badge of a device, for   *)
(* every number of concurrent sweeps and every set of checks.              *)
(***************************************************************************)
EXTENDS Alerting, TLAPS

(* Every evaluation, the next alert and the counts of work orders have their
   types.  The rest of the state plays no part in the bridge. *)
BridgeType ==
  /\ nextAlert \in Nat \ {0}
  /\ orders \in [Alerts -> Nat]
  /\ eval \in [Evaluators -> EvalRec]
  /\ window \in BOOLEAN

(* OneOrderPerAlert is not inductive by itself: an evaluation that is about to
   create a work order must hold an alert that has none yet, and must be the
   only one that holds it. *)
BridgeInv ==
  /\ BridgeType
  /\ \A k \in Alerts : orders[k] <= 1 /\ (k >= nextAlert => orders[k] = 0)
  /\ \A e \in Evaluators :
       eval[e].pc = "order" => /\ eval[e].alert \in Alerts /\ eval[e].alert < nextAlert
                               /\ orders[eval[e].alert] = 0
  /\ \A e, f \in Evaluators :
       /\ e # f /\ eval[e].pc = "order" /\ eval[f].pc = "order"
       => eval[e].alert # eval[f].alert

-----------------------------------------------------------------------------
(* Initially nobody evaluates and there is no work order. *)
LEMMA BridgeInit == Init => BridgeInv
<1>1. SUFFICES ASSUME AlertInit PROVE BridgeInv
  BY DEF Init
<1>2. IdleEval \in EvalRec /\ IdleEval.pc # "order"
  BY AlertingAssumption DEF IdleEval, EvalRec
<1>3. window \in BOOLEAN
  BY <1>1 DEF AlertInit
<1>4. BridgeType
  BY <1>1, <1>2, <1>3 DEF AlertInit, BridgeType
<1> QED
  BY <1>1, <1>2, <1>4 DEF AlertInit, BridgeInv

(* A step that leaves the alerts' work orders alone, and moves at most one
   evaluation, to a place that is not before a work order, keeps BridgeInv. *)
LEMMA OtherStep ==
  ASSUME BridgeInv, NEW e \in Evaluators, NEW v \in EvalRec, v.pc # "order",
         eval' = [eval EXCEPT ![e] = v], UNCHANGED <<nextAlert, orders, window>>
  PROVE  BridgeInv'
<1>1. BridgeType'
  BY DEF BridgeInv, BridgeType
<1>2. \A f \in Evaluators : eval'[f] = IF f = e THEN v ELSE eval[f]
  BY DEF BridgeInv, BridgeType
<1>3. \A f \in Evaluators : eval'[f].pc = "order" => f # e /\ eval'[f] = eval[f]
  BY <1>2
<1> QED
  BY <1>1, <1>3 DEF BridgeInv

(* Monitoring, operators and time do not touch the bridge. *)
LEMMA Untouched ==
  ASSUME BridgeInv, UNCHANGED <<nextAlert, orders, eval>>, window' \in BOOLEAN
  PROVE  BridgeInv'
  BY DEF BridgeInv, BridgeType

(* The atomic open gives its alert to one evaluation only: the row is new. *)
LEMMA OpenStep ==
  ASSUME BridgeInv, NEW e \in Evaluators, NEW r \in Rules, NEW c \in Rows, OpenAlert(e, r, c)
  PROVE  BridgeInv'
<1> DEFINE rest == eval[e].todo \ {<<r, c>>}
<1>1. eval[e] \in EvalRec /\ eval[e].pc = "fire" /\ rest \in SUBSET (Rules \X Rows)
  BY DEF OpenAlert, BridgeInv, BridgeType, EvalRec
<1>2. CASE /\ eval' = [eval EXCEPT ![e].todo = rest]
           /\ UNCHANGED <<alert, nextAlert>>
  <2>1. [eval[e] EXCEPT !.todo = rest] \in EvalRec /\ [eval[e] EXCEPT !.todo = rest].pc # "order"
    BY <1>1 DEF EvalRec
  <2>2. eval' = [eval EXCEPT ![e] = [eval[e] EXCEPT !.todo = rest]]
    BY <1>2 DEF BridgeInv, BridgeType
  <2> QED
    BY <1>2, <2>1, <2>2, OtherStep DEF OpenAlert
<1>3. CASE /\ nextAlert <= MaxAlerts /\ nextAlert' = nextAlert + 1
           /\ eval' = [eval EXCEPT ![e] =
                         IF r \in AutoWorkOrder
                         THEN [IdleEval EXCEPT !.pc = "order", !.todo = rest, !.alert = nextAlert]
                         ELSE [IdleEval EXCEPT !.pc = "fire", !.todo = rest]]
  <2> DEFINE v == IF r \in AutoWorkOrder
                  THEN [IdleEval EXCEPT !.pc = "order", !.todo = rest, !.alert = nextAlert]
                  ELSE [IdleEval EXCEPT !.pc = "fire", !.todo = rest]
  <2>1. nextAlert \in Alerts /\ nextAlert \in Nat /\ MaxAlerts \in Nat
    BY <1>3, AlertingAssumption DEF BridgeInv, BridgeType, Alerts
  <2>2. v \in EvalRec /\ (v.pc = "order" => v.alert = nextAlert)
    <3>1. nextAlert \in 0..MaxAlerts /\ 0 \in 0..MaxAlerts
      BY <2>1 DEF Alerts
    <3>2. CASE r \in AutoWorkOrder
      <4>1. v = [pc |-> "order", suppressed |-> FALSE, rules |-> {}, todo |-> rest,
                 alert |-> nextAlert]
        BY <3>2 DEF IdleEval
      <4> QED
        BY <1>1, <3>1, <4>1 DEF EvalRec
    <3>3. CASE r \notin AutoWorkOrder
      <4>1. v = [pc |-> "fire", suppressed |-> FALSE, rules |-> {}, todo |-> rest, alert |-> 0]
        BY <3>3 DEF IdleEval
      <4> QED
        BY <1>1, <3>1, <4>1 DEF EvalRec
    <3> QED
      BY <3>2, <3>3
  <2>3. orders' = orders /\ window' = window
    BY DEF OpenAlert
  <2>4. BridgeType'
    BY <1>3, <2>1, <2>2, <2>3 DEF BridgeInv, BridgeType
  <2>5. \A f \in Evaluators : eval'[f] = IF f = e THEN v ELSE eval[f]
    BY <1>3 DEF BridgeInv, BridgeType
  <2>6. \A k \in Alerts : orders'[k] <= 1 /\ (k >= nextAlert' => orders'[k] = 0)
    BY <1>3, <2>1, <2>3 DEF BridgeInv, BridgeType, Alerts
  <2>7. ASSUME NEW f \in Evaluators, eval'[f].pc = "order"
        PROVE  /\ eval'[f].alert \in Alerts /\ eval'[f].alert < nextAlert'
               /\ orders'[eval'[f].alert] = 0
    <3>1. CASE f = e
      <4>1. eval'[f].alert = nextAlert
        BY <2>2, <2>5, <2>7, <3>1
      <4> QED
        BY <4>1, <1>3, <2>1, <2>3 DEF BridgeInv, BridgeType
    <3>2. CASE f # e
      BY <1>3, <2>1, <2>3, <2>5, <2>7, <3>2 DEF BridgeInv, BridgeType, Alerts
    <3> QED
      BY <3>1, <3>2
  <2>8. ASSUME NEW f \in Evaluators, NEW g \in Evaluators, f # g,
               eval'[f].pc = "order", eval'[g].pc = "order"
        PROVE  eval'[f].alert # eval'[g].alert
    <3>1. \A x \in Evaluators : x # e /\ eval'[x].pc = "order" =>
            eval'[x] = eval[x] /\ eval[x].alert \in Alerts /\ eval[x].alert < nextAlert
      BY <2>5 DEF BridgeInv
    <3>2. eval'[e].pc = "order" => eval'[e].alert = nextAlert
      BY <2>2, <2>5
    <3> QED
      BY <2>1, <2>8, <3>1, <3>2 DEF BridgeInv, Alerts
  <2> QED
    BY <2>4, <2>6, <2>7, <2>8 DEF BridgeInv
<1> QED
  BY <1>2, <1>3 DEF OpenAlert

(* Creating the work order uses up the claim. *)
LEMMA CreateStep ==
  ASSUME BridgeInv, NEW e \in Evaluators, CreateWorkOrder(e)
  PROVE  BridgeInv'
<1> DEFINE k == eval[e].alert
<1>1. /\ eval[e] \in EvalRec /\ eval[e].pc = "order"
      /\ k \in Alerts /\ k < nextAlert /\ orders[k] = 0
  BY DEF CreateWorkOrder, BridgeInv, BridgeType
<1>2. /\ orders' = [orders EXCEPT ![k] = orders[k] + 1]
      /\ eval' = [eval EXCEPT ![e].pc = "link"] /\ nextAlert' = nextAlert /\ window' = window
  BY DEF CreateWorkOrder
<1>3. \A x \in Alerts : orders'[x] = IF x = k THEN 1 ELSE orders[x]
  BY <1>1, <1>2 DEF BridgeInv, BridgeType
<1>4. [eval[e] EXCEPT !.pc = "link"] \in EvalRec /\ [eval[e] EXCEPT !.pc = "link"].pc # "order"
  BY <1>1 DEF EvalRec
<1>5. \A f \in Evaluators : eval'[f] = IF f = e THEN [eval[e] EXCEPT !.pc = "link"] ELSE eval[f]
  BY <1>2 DEF BridgeInv, BridgeType
<1>6. BridgeType'
  BY <1>1, <1>2, <1>4 DEF BridgeInv, BridgeType
<1>7. \A f \in Evaluators : eval'[f].pc = "order" =>
         f # e /\ eval'[f] = eval[f] /\ eval[f].alert # k
  BY <1>1, <1>4, <1>5 DEF BridgeInv
<1>8. \A x \in Alerts : orders'[x] <= 1 /\ (x >= nextAlert' => orders'[x] = 0)
  BY <1>1, <1>2, <1>3 DEF BridgeInv, BridgeType, Alerts
<1>9. \A f \in Evaluators :
        eval'[f].pc = "order" => /\ eval'[f].alert \in Alerts /\ eval'[f].alert < nextAlert'
                                 /\ orders'[eval'[f].alert] = 0
  BY <1>2, <1>3, <1>7 DEF BridgeInv
<1>10. \A f, g \in Evaluators :
         f # g /\ eval'[f].pc = "order" /\ eval'[g].pc = "order"
         => eval'[f].alert # eval'[g].alert
  BY <1>7 DEF BridgeInv
<1> QED
  BY <1>6, <1>8, <1>9, <1>10 DEF BridgeInv

(* An evaluation with its list of pairs to fire is well formed. *)
LEMMA FiringRec ==
  ASSUME NEW S \in SUBSET (Rules \X Rows)
  PROVE  LET v == [IdleEval EXCEPT !.pc = "fire", !.todo = S]
         IN v \in EvalRec /\ v.pc # "order"
<1>1. IdleEval \in EvalRec
  BY AlertingAssumption DEF IdleEval, EvalRec
<1> QED
  BY <1>1 DEF EvalRec

(* Every other step of a pass takes one evaluation to a place that is not
   before a work order. *)
LEMMA PassStep ==
  ASSUME BridgeInv, NEW e \in Evaluators,
         \/ ResolveRecoveredAlerts(e) \/ loadSuppression(e) \/ SuppressionUnread(e)
         \/ ListEnabledAlertRules(e) \/ ListEnabledChecksWithDevice(e)
         \/ SetAlertWorkOrder(e) \/ FireFails(e) \/ EscalateStaleAlerts(e) \/ EvalDies(e)
  PROVE  BridgeInv'
<1>1. eval \in [Evaluators -> EvalRec] /\ eval[e] \in EvalRec /\ window \in BOOLEAN
  BY DEF BridgeInv, BridgeType
<1>2. UNCHANGED <<nextAlert, orders, window>>
  BY DEF ResolveRecoveredAlerts, loadSuppression, SuppressionUnread, ListEnabledAlertRules,
         ListEnabledChecksWithDevice, SetAlertWorkOrder, FireFails, EscalateStaleAlerts, EvalDies
<1>3. IdleEval \in EvalRec /\ IdleEval.pc = "idle"
  BY AlertingAssumption DEF IdleEval, EvalRec
<1>4. 0 \in 0..MaxAlerts
  BY AlertingAssumption
<1>5. CASE ResolveRecoveredAlerts(e)
  <2> DEFINE v == [eval[e] EXCEPT !.pc = "suppress"]
  <2>1. v \in EvalRec /\ v.pc # "order"
    BY <1>1, <1>5 DEF ResolveRecoveredAlerts, EvalRec
  <2>2. eval' = [eval EXCEPT ![e] = v]
    BY <1>1, <1>5 DEF ResolveRecoveredAlerts
  <2> QED
    BY <1>2, <2>1, <2>2, OtherStep
<1>6. CASE loadSuppression(e)
  <2> DEFINE v == [eval[e] EXCEPT !.pc = "rules", !.suppressed = window]
  <2>1. v \in EvalRec /\ v.pc # "order"
    BY <1>1, <1>6 DEF loadSuppression, EvalRec
  <2>2. eval' = [eval EXCEPT ![e] = v]
    BY <1>1, <1>6 DEF loadSuppression
  <2> QED
    BY <1>2, <2>1, <2>2, OtherStep
<1>7. CASE SuppressionUnread(e)
  <2> DEFINE v == [eval[e] EXCEPT !.pc = "rules"]
  <2>1. v \in EvalRec /\ v.pc # "order"
    BY <1>1, <1>7 DEF SuppressionUnread, EvalRec
  <2>2. eval' = [eval EXCEPT ![e] = v]
    BY <1>1, <1>7 DEF SuppressionUnread
  <2> QED
    BY <1>2, <2>1, <2>2, OtherStep
<1>8. CASE ListEnabledAlertRules(e)
  <2> DEFINE v == [eval[e] EXCEPT !.pc = "checks", !.rules = {r \in Rules : rule[r] = "enabled"}]
  <2>1. v \in EvalRec /\ v.pc # "order"
    BY <1>1, <1>8 DEF ListEnabledAlertRules, EvalRec
  <2>2. eval' = [eval EXCEPT ![e] = v]
    BY <1>1, <1>8 DEF ListEnabledAlertRules
  <2> QED
    BY <1>2, <2>1, <2>2, OtherStep
<1>9. CASE ListEnabledChecksWithDevice(e)
  <2> DEFINE firing == {x \in eval[e].rules \X Rows : /\ Live(x[2]) /\ row[x[2]].enabled
                                                     /\ Matches(x[1], x[2])}
             fires == IF eval[e].suppressed THEN {} ELSE firing
             v == [IdleEval EXCEPT !.pc = "fire", !.todo = fires]
  <2>1. firing \in SUBSET (Rules \X Rows)
    BY <1>1 DEF EvalRec
  <2>2. fires \in SUBSET (Rules \X Rows)
    BY <2>1
  <2>3. eval' = [eval EXCEPT ![e] = v]
    BY <1>9 DEF ListEnabledChecksWithDevice
  <2>4. v \in EvalRec /\ v.pc # "order"
    BY <2>2, FiringRec
  <2> QED
    BY <1>2, <2>3, <2>4, OtherStep
<1>10. CASE SetAlertWorkOrder(e)
  <2> DEFINE v == [eval[e] EXCEPT !.pc = "fire", !.alert = 0]
  <2>1. v \in EvalRec /\ v.pc # "order"
    BY <1>1, <1>4, <1>10 DEF SetAlertWorkOrder, EvalRec, BackToFire
  <2>2. eval' = [eval EXCEPT ![e] = v]
    BY <1>1, <1>10 DEF SetAlertWorkOrder, BackToFire
  <2> QED
    BY <1>2, <2>1, <2>2, OtherStep
<1>11. CASE FireFails(e)
  <2>1. CASE eval[e].pc = "fire" /\ \E x \in eval[e].todo : eval' = [eval EXCEPT ![e].todo = @ \ {x}]
    <3>1. PICK x \in eval[e].todo : eval' = [eval EXCEPT ![e].todo = @ \ {x}]
      BY <2>1
    <3> DEFINE v == [eval[e] EXCEPT !.todo = eval[e].todo \ {x}]
    <3>2. v \in EvalRec /\ v.pc # "order"
      BY <1>1, <2>1 DEF EvalRec
    <3>3. eval' = [eval EXCEPT ![e] = v]
      BY <1>1, <3>1
    <3> QED
      BY <1>2, <3>2, <3>3, OtherStep
  <2>2. CASE BackToFire(e)
    <3> DEFINE v == [eval[e] EXCEPT !.pc = "fire", !.alert = 0]
    <3>1. v \in EvalRec /\ v.pc # "order"
      BY <1>1, <1>4 DEF EvalRec
    <3>2. eval' = [eval EXCEPT ![e] = v]
      BY <1>1, <2>2 DEF BackToFire
    <3> QED
      BY <1>2, <3>1, <3>2, OtherStep
  <2> QED
    BY <1>11, <2>1, <2>2 DEF FireFails
<1>12. CASE EscalateStaleAlerts(e) \/ EvalDies(e)
  <2>1. eval' = [eval EXCEPT ![e] = IdleEval]
    BY <1>12 DEF EscalateStaleAlerts, EvalDies
  <2> QED
    BY <1>2, <1>3, <2>1, OtherStep
<1> QED
  BY <1>5, <1>6, <1>7, <1>8, <1>9, <1>10, <1>11, <1>12

-----------------------------------------------------------------------------
(* Every step of the specification preserves BridgeInv. *)
LEMMA BridgeStep == BridgeInv /\ [Next]_vars => BridgeInv'
<1> SUFFICES ASSUME BridgeInv, [Next]_vars PROVE BridgeInv'
  OBVIOUS
<1>1. CASE UNCHANGED vars \/ (MonNext /\ UNCHANGED alr)
  <2>1. UNCHANGED <<nextAlert, orders, eval, window>>
    BY <1>1 DEF vars, alr
  <2> QED
    BY <2>1, Untouched DEF BridgeInv, BridgeType
<1>2. CASE Intervention \/ WindowEnds \/ \E k \in Alerts : AlertAges(k)
  <2>1. UNCHANGED <<nextAlert, orders, eval>> /\ (UNCHANGED window \/ window' \in BOOLEAN)
    BY <1>2 DEF Intervention, WindowEnds, AlertAges, acknowledgeAlert, resolveAlert,
                setAlertRuleEnabled, deleteAlertRule, createMaintenanceWindow
  <2> QED
    BY <2>1, Untouched DEF BridgeInv, BridgeType
<1>3. ASSUME NEW e \in Evaluators,
             \/ ResolveRecoveredAlerts(e) \/ Evaluation(e)
             \/ SuppressionUnread(e) \/ FireFails(e) \/ EvalDies(e)
      PROVE  BridgeInv'
  <2>1. CASE \E r \in Rules, c \in Rows : OpenAlert(e, r, c)
    BY <2>1, OpenStep
  <2>2. CASE CreateWorkOrder(e)
    BY <2>2, CreateStep
  <2>3. CASE \/ ResolveRecoveredAlerts(e) \/ loadSuppression(e) \/ SuppressionUnread(e)
             \/ ListEnabledAlertRules(e) \/ ListEnabledChecksWithDevice(e)
             \/ SetAlertWorkOrder(e) \/ FireFails(e) \/ EscalateStaleAlerts(e) \/ EvalDies(e)
    BY <2>3, PassStep
  <2> QED
    BY <1>3, <2>1, <2>2, <2>3 DEF Evaluation
<1> QED
  BY <1>1, <1>2, <1>3 DEF Next

(* "A still-down check won't spawn duplicate alerts or WOs": however many
   passes of Engine.Evaluate run at once, and wherever they fail or die, no
   alert is ever given two work orders. *)
THEOREM OneOrder == Spec => []OneOrderPerAlert
<1>1. BridgeInv => OneOrderPerAlert
  BY DEF BridgeInv, OneOrderPerAlert
<1> QED
  BY <1>1, BridgeInit, BridgeStep, PTL DEF Spec
-----------------------------------------------------------------------------
(* The badge of a device.                                                  *)

(* The rows, the sweeps and the badge have their types.  Registrations in
   progress, the key and the device's answers may be anything. *)
BadgeType ==
  /\ row \in [Rows -> CheckRow] /\ nextRow \in Nat \ {0}
  /\ sweep \in [Sweepers -> SweepRec]
  /\ badge \in Status /\ offline \in BOOLEAN

(* ExtraChecksNeverOffline is not inductive by itself.  A roll-up is written
   some time after it was read, so what a sweep is about to write must be
   covered as well; and a roll-up reads "down" only from a reachability row,
   so every such row must be. *)
DownRow(c) == Live(c) /\ row[c].role = "reachability" /\ row[c].status = "down"
DownWrite(s) == sweep[s].pc = "write" /\ sweep[s].status = "down"
BadgeInv ==
  /\ BadgeType
  /\ badge = "down" => offline
  /\ \A c \in Rows : DownRow(c) => offline
  /\ \A s \in Sweepers : DownWrite(s) => offline

(* Folding Worst over a list gives one of its statuses. *)
LEMMA RollupMember ==
  ASSUME NEW S \in SUBSET Status
  PROVE  RollupDevice(S) \in Status /\ (RollupDevice(S) = "down" => "down" \in S)
<1>1. CASE S = {}
  BY <1>1 DEF RollupDevice, Status
<1>2. CASE S # {}
  <2>1. rank["up"] = 0 /\ rank["unknown"] = 1 /\ rank["warning"] = 2 /\ rank["down"] = 3
    BY DEF rank
  <2>2. \E s \in S : \A t \in S : rank[s] >= rank[t]
    <3>1. CASE "down" \in S
      BY <3>1, <2>1 DEF Status
    <3>2. CASE "down" \notin S /\ "warning" \in S
      BY <3>2, <2>1 DEF Status
    <3>3. CASE "down" \notin S /\ "warning" \notin S /\ "unknown" \in S
      BY <3>3, <2>1 DEF Status
    <3>4. CASE "down" \notin S /\ "warning" \notin S /\ "unknown" \notin S
      <4>1. S = {"up"}
        BY <3>4, <1>2 DEF Status
      <4> QED
        BY <4>1, <2>1
    <3> QED
      BY <3>1, <3>2, <3>3, <3>4
  <2>3. RollupDevice(S) \in S
    BY <1>2, <2>2 DEF RollupDevice
  <2> QED
    BY <2>3
<1> QED
  BY <1>1, <1>2

(* An extra check weighs no more than "warning": a roll-up that reads "down"
   has read it from a reachability row. *)
LEMMA RollupDown ==
  ASSUME NEW R \in SUBSET Status, NEW S \in SUBSET Status
  PROVE  LET v == RollupDeviceWithSupplemental(R, S)
         IN v \in Status /\ (v = "down" => "down" \in R)
<1>1. RollupDevice(R) \in Status /\ (RollupDevice(R) = "down" => "down" \in R)
  BY RollupMember
<1>2. RollupDevice(S) \in Status
  BY RollupMember
<1>3. capAtWarning(RollupDevice(S)) \in Status \ {"down"}
  BY <1>2 DEF capAtWarning, Status
<1> QED
  BY <1>1, <1>3 DEF RollupDeviceWithSupplemental, Status

(* The verdict on a probe is a status and a count that fits the column. *)
LEMMA EvaluateType ==
  ASSUME NEW ok \in BOOLEAN, NEW n \in 0..MaxCount
  PROVE  Evaluate(ok, n).status \in Status /\ Evaluate(ok, n).failures \in 0..MaxCount
<1>1. MaxCount \in Nat /\ DownThreshold \in Nat
  BY MonitoringAssumption
<1>2. 0 \in 0..MaxCount /\ Saturated(n + 1) \in 0..MaxCount
  BY <1>1 DEF Saturated
<1> QED
  BY <1>2 DEF Evaluate, Status

(* The rows that statements write are well formed and not down. *)
LEMMA FreshRows ==
  /\ \A t \in Targets : NewRow(t) \in CheckRow /\ NewRow(t).status = "unknown"
  /\ NoRow \in CheckRow /\ NoRow.status = "unknown"
  /\ Gone \in CheckRow /\ Gone.status = "unknown"
<1>1. 0 \in 0..MaxCount /\ DefaultTarget \in Targets
  BY MonitoringAssumption DEF Targets
<1>2. \A t \in Targets : NewRow(t) \in CheckRow /\ NewRow(t).status = "unknown"
  BY <1>1 DEF NewRow, CheckRow, Status
<1>3. \A st \in {"none", "deleted"} :
        LET v == [NewRow(DefaultTarget) EXCEPT !.state = st]
        IN v \in CheckRow /\ v.status = "unknown"
  BY <1>1, <1>2 DEF CheckRow, NewRow
<1> QED
  BY <1>2, <1>3 DEF NoRow, Gone

(* Where a sweep is when it is not about to write. *)
LEMMA SweepPlaces ==
  ASSUME NEW S \in SUBSET Snapshots
  PROVE  /\ IdleSweep \in SweepRec /\ IdleSweep.pc = "idle"
         /\ Resumed(S) \in SweepRec /\ Resumed(S).pc # "write"
         /\ [IdleSweep EXCEPT !.pc = "rollup", !.todo = S] \in SweepRec
         /\ [IdleSweep EXCEPT !.pc = "rollup", !.todo = S].pc = "rollup"
<1>1. 0 \in 0..MaxCount /\ 0 \in 0..MaxRows
  BY MonitoringAssumption
<1>2. IdleSweep \in SweepRec /\ IdleSweep.pc = "idle"
  BY <1>1 DEF IdleSweep, SweepRec, Status
<1>3. \A p \in {"idle", "probe", "rollup"} :
        LET v == [IdleSweep EXCEPT !.pc = p, !.todo = S] IN v \in SweepRec /\ v.pc = p
  BY <1>1 DEF IdleSweep, SweepRec, Status
<1>4. Resumed(S) = [IdleSweep EXCEPT !.pc = IF S = {} THEN "idle" ELSE "probe", !.todo = S]
  BY DEF Resumed
<1> QED
  BY <1>2, <1>3, <1>4

(* A sweep that moves to a place where it is not about to write "down". *)
LEMMA SweepStep ==
  ASSUME BadgeInv, NEW s \in Sweepers, NEW v \in SweepRec,
         v.pc = "write" /\ v.status = "down" => offline,
         sweep' = [sweep EXCEPT ![s] = v], UNCHANGED <<row, nextRow, badge, offline>>
  PROVE  BadgeInv'
<1>1. BadgeType'
  BY DEF BadgeInv, BadgeType
<1>2. \A u \in Sweepers : sweep'[u] = IF u = s THEN v ELSE sweep[u]
  BY DEF BadgeInv, BadgeType
<1>3. \A u \in Sweepers : DownWrite(u)' => offline'
  BY <1>2 DEF BadgeInv, DownWrite
<1>4. \A c \in Rows : DownRow(c)' => offline'
  BY DEF BadgeInv, DownRow, Live
<1> QED
  BY <1>1, <1>3, <1>4 DEF BadgeInv

(* Rows that are replaced by rows that are not down, or keep their status and
   do not become reachability rows. *)
LEMMA RowStep ==
  ASSUME BadgeInv, row' \in [Rows -> CheckRow], nextRow' \in Nat \ {0},
         \A c \in Rows : DownRow(c)' => DownRow(c),
         UNCHANGED <<sweep, badge, offline>>
  PROVE  BadgeInv'
<1>1. BadgeType'
  BY DEF BadgeInv, BadgeType
<1>2. \A s \in Sweepers : DownWrite(s)' => offline'
  BY DEF BadgeInv, DownWrite
<1>3. \A c \in Rows : DownRow(c)' => offline'
  BY DEF BadgeInv
<1> QED
  BY <1>1, <1>2, <1>3 DEF BadgeInv

(* Initially the device is unknown and nobody sweeps. *)
LEMMA BadgeInit == MonInit => BadgeInv
<1> SUFFICES ASSUME MonInit PROVE BadgeInv
  OBVIOUS
<1>1. DefaultTarget \in Targets
  BY MonitoringAssumption DEF Targets
<1>2. \A c \in Rows : row[c] \in CheckRow /\ row[c].status = "unknown"
  BY <1>1, FreshRows DEF MonInit
<1>3. row \in [Rows -> CheckRow]
  BY <1>2 DEF MonInit
<1>4. IdleSweep \in SweepRec /\ IdleSweep.pc = "idle"
  BY SweepPlaces
<1>5. BadgeType
  <2>1. sweep \in [Sweepers -> SweepRec] /\ nextRow \in Nat \ {0} /\ badge \in Status
    BY <1>4 DEF MonInit, Status
  <2>2. offline \in BOOLEAN
    BY DEF MonInit
  <2> QED
    BY <1>3, <2>1, <2>2 DEF BadgeType
<1>6. \A c \in Rows : ~DownRow(c)
  BY <1>2 DEF DownRow
<1>7. \A s \in Sweepers : ~DownWrite(s)
  BY <1>4 DEF MonInit, DownWrite
<1> QED
  BY <1>5, <1>6, <1>7 DEF MonInit, BadgeInv

(* The steps of a sweep. *)
LEMMA SweepSteps ==
  ASSUME BadgeInv, NEW s \in Sweepers,
         RunDue(s) \/ Sweep(s) \/ SweepDies(s) \/ StatementFails(s)
  PROVE  BadgeInv'
<1>1. sweep \in [Sweepers -> SweepRec] /\ sweep[s] \in SweepRec /\ row \in [Rows -> CheckRow]
  BY DEF BadgeInv, BadgeType
<1>2. sweep[s].todo \in SUBSET Snapshots
  BY <1>1 DEF SweepRec
<1>3. CASE RunDue(s)
  <2> DEFINE list == {Snapshot(c) : c \in Due}
             v == [sweep[s] EXCEPT !.pc = "probe", !.todo = list]
  <2>1. \A c \in Due : Snapshot(c) \in Snapshots
    BY <1>1 DEF Due, Snapshot, Snapshots, CheckRow
  <2>2. list \in SUBSET Snapshots
    BY <2>1
  <2>3. v \in SweepRec /\ v.pc = "probe"
    BY <1>1, <2>2 DEF SweepRec
  <2>4. sweep' = [sweep EXCEPT ![s] = v] /\ UNCHANGED <<row, nextRow, badge, offline>>
    BY <1>1, <1>3 DEF RunDue
  <2> HIDE DEF v
  <2> QED
    BY <2>3, <2>4, SweepStep
<1>4. ASSUME NEW x \in Snapshots, ProbeNext(s, x) PROVE BadgeInv'
  <2> DEFINE rest == sweep[s].todo \ {x}
             ok == x.target \in answers
             verdict == Evaluate(ok, x.failures)
             v == [pc |-> "record", todo |-> rest, id |-> x.id,
                   status |-> verdict.status, failures |-> verdict.failures]
  <2>1. rest \in SUBSET Snapshots
    BY <1>2
  <2>2. x.id \in 0..MaxRows /\ x.failures \in 0..MaxCount
    BY MonitoringAssumption DEF Snapshots, Rows
  <2>3. ok \in BOOLEAN
    OBVIOUS
  <2>4. verdict.status \in Status /\ verdict.failures \in 0..MaxCount
    BY <2>2, <2>3, EvaluateType
  <2>5. v \in SweepRec /\ v.pc = "record"
    BY <2>1, <2>2, <2>4 DEF SweepRec
  <2>6. Resumed(rest) \in SweepRec /\ Resumed(rest).pc # "write"
    BY <2>1, SweepPlaces
  <2>7. /\ sweep' = [sweep EXCEPT ![s] = Resumed(rest)] \/ sweep' = [sweep EXCEPT ![s] = v]
        /\ UNCHANGED <<row, nextRow, badge, offline>>
    BY <1>4 DEF ProbeNext
  <2> HIDE DEF v, rest
  <2> QED
    BY <2>5, <2>6, <2>7, SweepStep
<1>5. CASE RecordMonitoringResult(s)
  <2> DEFINE i == sweep[s].id
             v == [IdleSweep EXCEPT !.pc = "rollup", !.todo = sweep[s].todo]
  <2>1. v \in SweepRec /\ v.pc = "rollup"
    BY <1>2, SweepPlaces
  <2>2. /\ row' = IF Live(i) THEN [row EXCEPT ![i].status = sweep[s].status, ![i].due = FALSE,
                                              ![i].failures = sweep[s].failures]
                  ELSE row
        /\ offline' = (offline \/ (/\ Live(i) /\ row[i].role = "reachability"
                                   /\ sweep[s].status = "down"))
        /\ sweep' = [sweep EXCEPT ![s] = v] /\ UNCHANGED <<nextRow, badge>>
    BY <1>5 DEF RecordMonitoringResult
  <2>3. /\ sweep[s].status \in Status /\ sweep[s].failures \in 0..MaxCount
    BY <1>1 DEF SweepRec
  <2>4. row' \in [Rows -> CheckRow]
    <3>1. CASE Live(i) /\ i \in Rows
      <4> DEFINE w == [row[i] EXCEPT !.status = sweep[s].status, !.due = FALSE,
                                     !.failures = sweep[s].failures]
      <4>1. w \in CheckRow
        BY <1>1, <2>3, <3>1 DEF CheckRow
      <4>2. row' = [row EXCEPT ![i] = w]
        BY <1>1, <2>2, <3>1
      <4> HIDE DEF w
      <4> QED
        BY <1>1, <4>1, <4>2
    <3>2. CASE ~(Live(i) /\ i \in Rows)
      BY <1>1, <2>2, <3>2
    <3> QED
      BY <3>1, <3>2
  <2>5. (offline \/ (Live(i) /\ row[i].role = "reachability" /\ sweep[s].status = "down")) \in BOOLEAN
    OBVIOUS
  <2>6. offline' \in BOOLEAN /\ (offline => offline')
    BY <2>2, <2>5
  <2>7. BadgeType'
    BY <2>1, <2>2, <2>4, <2>6 DEF BadgeInv, BadgeType
  <2>8. \A c \in Rows : DownRow(c)' => offline'
    <3> SUFFICES ASSUME NEW c \in Rows, DownRow(c)' PROVE offline'
      OBVIOUS
    <3>1. CASE Live(i) /\ c = i
      <4>1. row'[c].status = sweep[s].status /\ row'[c].role = row[c].role
        BY <1>1, <2>2, <3>1 DEF CheckRow
      <4> QED
        BY <2>2, <3>1, <4>1 DEF DownRow, Live
    <3>2. CASE ~(Live(i) /\ c = i)
      <4>1. row'[c] = row[c]
        BY <1>1, <2>2, <3>2
      <4> QED
        BY <2>6, <4>1 DEF BadgeInv, DownRow, Live
    <3> QED
      BY <3>1, <3>2
  <2>9. \A u \in Sweepers : DownWrite(u)' => offline'
    <3>1. \A u \in Sweepers : sweep'[u] = IF u = s THEN v ELSE sweep[u]
      BY <1>1, <2>2
    <3> QED
      BY <2>1, <2>6, <3>1 DEF BadgeInv, DownWrite
  <2> QED
    BY <2>2, <2>6, <2>7, <2>8, <2>9 DEF BadgeInv
<1>6. CASE rollupDevice(s)
  <2> DEFINE reach == StatusesOf("reachability")
             supp == StatusesOf("supplemental")
             w == RollupDeviceWithSupplemental(reach, supp)
             v == [sweep[s] EXCEPT !.pc = "write", !.status = w]
  <2>1. reach \in SUBSET Status /\ supp \in SUBSET Status
    BY <1>1 DEF StatusesOf, CheckRow
  <2>2. "down" \in reach => \E c \in Rows : DownRow(c)
    BY DEF StatusesOf, DownRow
  <2>3. w \in Status /\ (w = "down" => "down" \in reach)
    BY <2>1, RollupDown
  <2>4. w = "down" => offline
    BY <2>2, <2>3 DEF BadgeInv
  <2>5. v \in SweepRec /\ v.status = w
    BY <1>1, <2>3 DEF SweepRec
  <2>6. sweep' = [sweep EXCEPT ![s] = v] /\ UNCHANGED <<row, nextRow, badge, offline>>
    BY <1>1, <1>6 DEF rollupDevice
  <2> HIDE DEF v, w
  <2> QED
    BY <2>4, <2>5, <2>6, SweepStep
<1>7. CASE UpdateDeviceMonitoringStatus(s)
  <2> DEFINE v == Resumed(sweep[s].todo)
  <2>1. v \in SweepRec /\ v.pc # "write"
    BY <1>2, SweepPlaces
  <2>2. /\ sweep[s].pc = "write" /\ badge' = sweep[s].status
        /\ sweep' = [sweep EXCEPT ![s] = v] /\ UNCHANGED <<row, nextRow, offline>>
    BY <1>7 DEF UpdateDeviceMonitoringStatus
  <2>3. sweep[s].status \in Status /\ (sweep[s].status = "down" => offline)
    BY <1>1, <2>2 DEF SweepRec, BadgeInv, DownWrite
  <2> HIDE DEF v
  <2>4. BadgeType'
    BY <2>1, <2>2, <2>3 DEF BadgeInv, BadgeType
  <2>5. \A u \in Sweepers : sweep'[u] = IF u = s THEN v ELSE sweep[u]
    BY <1>1, <2>2
  <2>6. \A u \in Sweepers : DownWrite(u)' => offline'
    BY <2>1, <2>2, <2>5 DEF BadgeInv, DownWrite
  <2>7. \A c \in Rows : DownRow(c)' => offline'
    BY <2>2 DEF BadgeInv, DownRow, Live
  <2> QED
    BY <2>2, <2>3, <2>4, <2>6, <2>7 DEF BadgeInv
<1>8. CASE SweepDies(s)
  <2>1. sweep' = [sweep EXCEPT ![s] = IdleSweep] /\ UNCHANGED <<row, nextRow, badge, offline>>
    BY <1>8 DEF SweepDies
  <2>2. IdleSweep \in SweepRec /\ IdleSweep.pc = "idle"
    BY SweepPlaces
  <2> QED
    BY <2>1, <2>2, SweepStep
<1>9. CASE StatementFails(s)
  <2>1. PICK S \in SUBSET Snapshots :
          /\ \/ sweep' = [sweep EXCEPT ![s] = Resumed(S)]
             \/ sweep' = [sweep EXCEPT ![s] = [IdleSweep EXCEPT !.pc = "rollup", !.todo = S]]
          /\ UNCHANGED <<row, nextRow, badge, offline>>
    <3>1. UNCHANGED <<row, nextRow, badge, offline>>
      BY <1>9 DEF StatementFails
    <3>2. CASE /\ sweep[s].pc = "probe"
               /\ \E x \in sweep[s].todo : sweep' = [sweep EXCEPT ![s] = Resumed(sweep[s].todo \ {x})]
      <4>1. PICK x \in sweep[s].todo : sweep' = [sweep EXCEPT ![s] = Resumed(sweep[s].todo \ {x})]
        BY <3>2
      <4>2. sweep[s].todo \ {x} \in SUBSET Snapshots
        BY <1>2
      <4> QED
        BY <3>1, <4>1, <4>2
    <3>3. CASE ~(/\ sweep[s].pc = "probe"
                 /\ \E x \in sweep[s].todo : sweep' = [sweep EXCEPT ![s] = Resumed(sweep[s].todo \ {x})])
      BY <1>2, <1>9, <3>1, <3>3 DEF StatementFails
    <3> QED
      BY <3>2, <3>3
  <2>2. /\ Resumed(S) \in SweepRec /\ Resumed(S).pc # "write"
        /\ [IdleSweep EXCEPT !.pc = "rollup", !.todo = S] \in SweepRec
        /\ [IdleSweep EXCEPT !.pc = "rollup", !.todo = S].pc = "rollup"
    BY SweepPlaces
  <2> QED
    BY <2>1, <2>2, SweepStep
<1> QED
  BY <1>3, <1>4, <1>5, <1>6, <1>7, <1>8, <1>9 DEF Sweep

(* An upsert enables a row or inserts one that is unknown. *)
LEMMA UpsertStep ==
  ASSUME BadgeInv, NEW t \in Targets, UpsertMonitoringCheck(t), UNCHANGED <<sweep, badge, offline>>
  PROVE  BadgeInv'
<1>1. row \in [Rows -> CheckRow] /\ nextRow \in Nat \ {0}
  BY DEF BadgeInv, BadgeType
<1>2. CASE \E c \in Same(t) : row' = [row EXCEPT ![c].enabled = TRUE] /\ UNCHANGED nextRow
  <2>1. PICK c \in Same(t) : row' = [row EXCEPT ![c].enabled = TRUE] /\ UNCHANGED nextRow
    BY <1>2
  <2>2. row' \in [Rows -> CheckRow]
    BY <1>1, <2>1 DEF CheckRow
  <2>3. \A d \in Rows : DownRow(d)' => DownRow(d)
    BY <1>1, <2>1 DEF CheckRow, DownRow, Live
  <2> QED
    BY <1>1, <2>1, <2>2, <2>3, RowStep
<1>3. CASE row' = [row EXCEPT ![nextRow] = NewRow(t)] /\ nextRow' = nextRow + 1
  <2>1. NewRow(t) \in CheckRow /\ NewRow(t).status = "unknown"
    BY FreshRows
  <2>2. row' \in [Rows -> CheckRow] /\ nextRow' \in Nat \ {0}
    <3>1. row' \in [Rows -> CheckRow]
      BY <1>1, <1>3, <2>1
    <3>2. nextRow' \in Nat \ {0}
      BY <1>1, <1>3
    <3> QED
      BY <3>1, <3>2
  <2>3. \A d \in Rows : DownRow(d)' => DownRow(d)
    BY <1>1, <1>3, <2>1 DEF DownRow, Live
  <2> QED
    BY <2>2, <2>3, RowStep
<1> QED
  BY <1>2, <1>3 DEF UpsertMonitoringCheck

(* Operators, scans and time touch the rows, and never make one down. *)
LEMMA RowSteps ==
  ASSUME BadgeInv, NEW c \in Rows,
         \/ IntervalElapses(c) \/ SetMonitoringCheckRole(c)
         \/ setMonitoringCheckEnabled(c) \/ deleteMonitoringCheck(c)
  PROVE  BadgeInv'
<1>1. row \in [Rows -> CheckRow] /\ nextRow \in Nat \ {0} /\ row[c] \in CheckRow
  BY DEF BadgeInv, BadgeType
<1>2. UNCHANGED <<nextRow, sweep, badge, offline>>
  BY DEF IntervalElapses, SetMonitoringCheckRole, setMonitoringCheckEnabled, deleteMonitoringCheck
<1>3. PICK v \in CheckRow : /\ row' = [row EXCEPT ![c] = v]
                            /\ \/ v.status # "down" \/ v.role = "supplemental"
                               \/ v.state = row[c].state /\ v.role = row[c].role
                                  /\ v.status = row[c].status
  <2>1. CASE IntervalElapses(c)
    <3>1. [row[c] EXCEPT !.due = TRUE] \in CheckRow
      BY <1>1 DEF CheckRow
    <3>2. row' = [row EXCEPT ![c] = [row[c] EXCEPT !.due = TRUE]]
      BY <1>1, <2>1 DEF IntervalElapses
    <3> QED
      BY <1>1, <3>1, <3>2 DEF CheckRow
  <2>2. CASE SetMonitoringCheckRole(c)
    <3>1. CASE Live(c)
      <4>1. [row[c] EXCEPT !.role = "supplemental"] \in CheckRow
        BY <1>1 DEF CheckRow
      <4>2. row' = [row EXCEPT ![c] = [row[c] EXCEPT !.role = "supplemental"]]
        BY <1>1, <2>2, <3>1 DEF SetMonitoringCheckRole
      <4> QED
        BY <1>1, <4>1, <4>2 DEF CheckRow
    <3>2. CASE ~Live(c)
      <4>1. row' = [row EXCEPT ![c] = row[c]]
        BY <1>1, <2>2, <3>2 DEF SetMonitoringCheckRole
      <4> QED
        BY <1>1, <4>1
    <3> QED
      BY <3>1, <3>2
  <2>3. CASE setMonitoringCheckEnabled(c)
    <3>1. [row[c] EXCEPT !.enabled = ~row[c].enabled] \in CheckRow
      BY <1>1 DEF CheckRow
    <3>2. row' = [row EXCEPT ![c] = [row[c] EXCEPT !.enabled = ~row[c].enabled]]
      BY <1>1, <2>3 DEF setMonitoringCheckEnabled
    <3> QED
      BY <1>1, <3>1, <3>2 DEF CheckRow
  <2>4. CASE deleteMonitoringCheck(c)
    <3>1. row' = [row EXCEPT ![c] = Gone]
      BY <2>4 DEF deleteMonitoringCheck
    <3> QED
      BY <3>1, FreshRows
  <2> QED
    BY <2>1, <2>2, <2>3, <2>4
<1>4. row' \in [Rows -> CheckRow]
  BY <1>1, <1>3
<1>5. \A d \in Rows : DownRow(d)' => DownRow(d)
  BY <1>1, <1>3 DEF DownRow, Live
<1> QED
  BY <1>1, <1>2, <1>4, <1>5, RowStep

(* Every step of the specification preserves BadgeInv. *)
LEMMA BadgeStep == BadgeInv /\ [MonNext]_mon => BadgeInv'
<1> SUFFICES ASSUME BadgeInv, [MonNext]_mon PROVE BadgeInv'
  OBVIOUS
<1>1. ASSUME UNCHANGED <<row, nextRow, badge, sweep, offline>> PROVE BadgeInv'
  BY <1>1, RowStep DEF BadgeInv, BadgeType, DownRow, Live
<1>2. ASSUME NEW s \in Sweepers, RunDue(s) \/ Sweep(s) \/ SweepDies(s) \/ StatementFails(s)
      PROVE  BadgeInv'
  BY <1>2, SweepSteps
<1>3. ASSUME NEW c \in Rows,
             \/ IntervalElapses(c) \/ SetMonitoringCheckRole(c)
             \/ setMonitoringCheckEnabled(c) \/ deleteMonitoringCheck(c)
      PROVE  BadgeInv'
  BY <1>3, RowSteps
<1>4. ASSUME NEW c \in Rows, ListMonitoringChecksByDevice(c) PROVE BadgeInv'
  BY <1>1, <1>4 DEF ListMonitoringChecksByDevice
<1>5. ASSUME NEW t \in Targets, UpsertPending(t) \/ registerMonitoringCheck(t) PROVE BadgeInv'
  BY <1>5, UpsertStep DEF UpsertPending, registerMonitoringCheck
<1>6. ASSUME NEW t \in Targets, seedReachabilityCheck(t) \/ repairReachabilityCheck(t) \/ Flip(t)
      PROVE  BadgeInv'
  BY <1>1, <1>6 DEF seedReachabilityCheck, repairReachabilityCheck, Flip
<1>7. ASSUME NEW t \in Targets, NEW op \in {"seed", "repair"}, DeleteDeviceReachabilityChecks(t, op)
      PROVE  BadgeInv'
  <2>1. /\ row' = [c \in Rows |-> IF Live(c) /\ row[c].target \in TCP THEN Gone ELSE row[c]]
        /\ UNCHANGED <<nextRow, sweep, badge, offline>>
    BY <1>7 DEF DeleteDeviceReachabilityChecks
  <2>2. row \in [Rows -> CheckRow] /\ nextRow \in Nat \ {0}
    BY DEF BadgeInv, BadgeType
  <2>3. row' \in [Rows -> CheckRow]
    BY <2>1, <2>2, FreshRows
  <2>4. \A c \in Rows : DownRow(c)' => DownRow(c)
    BY <2>1, FreshRows DEF DownRow, Live
  <2> QED
    BY <2>1, <2>2, <2>3, <2>4, RowStep
<1>8. CASE SeedDefaults \/ SetCipher \/ RegistrationFails \/ ApiDies
  BY <1>1, <1>8 DEF SeedDefaults, SetCipher, RegistrationFails, ApiDies
<1>9. CASE UNCHANGED mon
  BY <1>1, <1>9 DEF mon
<1> QED
  BY <1>2, <1>3, <1>4, <1>5, <1>6, <1>7, <1>8, <1>9 DEF MonNext

(* "An extra check offline must not make the whole device offline": however
   many sweeps run at once, for every threshold and every set of ports, a
   badge is "down" only after a reachability row has been recorded down. *)
THEOREM ExtraChecks == MonSpec => []ExtraChecksNeverOffline
<1>1. BadgeInv => ExtraChecksNeverOffline
  BY DEF BadgeInv, ExtraChecksNeverOffline
<1> QED
  BY <1>1, BadgeInit, BadgeStep, PTL DEF MonSpec
=============================================================================
