----------------------------- MODULE Monitoring -----------------------------
(***************************************************************************)
(* The monitoring engine of HIMS for one device: its rows of               *)
(* monitoring_checks, the sweeps that probe the due ones (the loop inside  *)
(* the API, the collector's loop, "run now"), the roll-up of the rows into *)
(* the device's badge, and the operators and scans that register, replace, *)
(* disable and delete rows meanwhile.                                      *)
(*                                                                         *)
(* A sweep reads the due rows once and then takes, for each of them, a     *)
(* probe, a write of the row, a read of all the device's rows and a write  *)
(* of the badge; every one of these steps is an action of its own, since   *)
(* nothing keeps two sweeps apart.  Samples and latencies are left out.    *)
(***************************************************************************)
EXTENDS Naturals, FiniteSets

CONSTANTS
  Loops,          \* sweeps that are repeated for ever (Engine.Loop)
  Requests,       \* sweeps on demand (runMonitoringNow)
  TCP,            \* ports a tcp check may dial
  SNMP,           \* the target of an snmp check
  DefaultTarget,  \* DefaultPortForDevice of this device
  DownThreshold,  \* monitoring_checks.down_threshold
  MaxCount,       \* consecutive_failures is told apart up to here
  MaxRows,        \* bound: rows ever inserted into monitoring_checks
  FirstAnswers,   \* what the device may answer on at first
  FirstKey,       \* whether the key may be, or not be, in the environment at boot
  MaxEvents       \* bound: outages, interventions and faults, all together

ASSUME MonitoringAssumption ==
  /\ Loops # {} /\ Loops \cap Requests = {} /\ IsFiniteSet(Loops \cup Requests)
  /\ IsFiniteSet(TCP) /\ SNMP \notin TCP /\ DefaultTarget \in TCP
  /\ DownThreshold \in Nat \ {0} /\ MaxCount \in Nat /\ MaxCount >= DownThreshold
  /\ MaxRows \in Nat \ {0} /\ FirstAnswers \subseteq SUBSET (TCP \cup {SNMP})
  /\ FirstKey \subseteq BOOLEAN /\ MaxEvents \in Nat

VARIABLES
  row,       \* monitoring_checks, by insertion order
  nextRow,   \* the next row to insert
  badge,     \* devices.status
  answers,   \* the targets the device answers on
  key,       \* whether the engine holds the key that decrypts communities
  sweep,     \* per sweep, where it is and what it has read
  pending,   \* enrolments, repairs and seedings: the target and the step to come
  roles,     \* registrations past their upsert: the row and the step to come
  offline,   \* history: a reachability row has been recorded down
  events     \* outages, interventions and faults so far (a bound)

mon == <<row, nextRow, badge, answers, key, sweep, pending, roles, offline, events>>

Rows == 1..MaxRows
Sweepers == Loops \cup Requests
Targets == TCP \cup {SNMP}
Status == {"up", "warning", "down", "unknown"}

CheckRow == [state : {"none", "live", "deleted"}, target : Targets,
             role : {"reachability", "supplemental"}, enabled : BOOLEAN,
             due : BOOLEAN,              \* last_run_at is an interval ago, or NULL
             status : Status, failures : 0..MaxCount]

Snapshots == [id : Rows, target : Targets, failures : 0..MaxCount]
SweepRec == [pc : {"idle", "probe", "record", "rollup", "write"}, todo : SUBSET Snapshots,
             id : 0..MaxRows, status : Status, failures : 0..MaxCount]

-----------------------------------------------------------------------------
(* The pure state logic of status.go.                                      *)

Saturated(n) == IF n > MaxCount THEN MaxCount ELSE n

EvaluateStuck(ok, prev) ==                       \* mutant: the counter is not carried over
  IF ok THEN [status |-> "up", failures |-> 0]
  ELSE [status |-> IF 1 >= DownThreshold THEN "down" ELSE "warning", failures |-> 1]
Evaluate(ok, prev) ==
  IF ok THEN [status |-> "up", failures |-> 0]
  ELSE [status |-> IF prev + 1 >= DownThreshold THEN "down" ELSE "warning",
        failures |-> Saturated(prev + 1)]

rank == [up |-> 0, unknown |-> 1, warning |-> 2, down |-> 3]

(* Folding Worst over a list depends only on which statuses occur in it. *)
RollupDevice(S) == IF S = {} THEN "unknown"
                   ELSE CHOOSE s \in S : \A t \in S : rank[s] >= rank[t]

NotCapped(s) == s                                \* mutant: an extra check may say "down"
capAtWarning(s) == IF s = "down" THEN "warning" ELSE s

RollupDeviceWithSupplemental(reach, supp) ==
  IF reach = {} THEN capAtWarning(RollupDevice(supp))
  ELSE IF RollupDevice(reach) \in {"up", "unknown"} /\ RollupDevice(supp) \in {"down", "warning"}
       THEN "warning"
       ELSE RollupDevice(reach)

-----------------------------------------------------------------------------
Live(c) == row[c].state = "live"
StatusesOf(ro) == {row[c].status : c \in {x \in Rows : Live(x) /\ row[x].role = ro}}

NewRow(t) == [state |-> "live", target |-> t, role |-> "reachability", enabled |-> TRUE,
              due |-> TRUE, status |-> "unknown", failures |-> 0]
NoRow == [NewRow(DefaultTarget) EXCEPT !.state = "none"]
Gone == [NewRow(DefaultTarget) EXCEPT !.state = "deleted"]

IdleSweep == [pc |-> "idle", todo |-> {}, id |-> 0, status |-> "unknown", failures |-> 0]

MonInit ==
  /\ row = [c \in Rows |-> IF c = 1 THEN NewRow(DefaultTarget) ELSE NoRow]
  /\ nextRow = 2
  /\ badge = "unknown"
  /\ answers \in FirstAnswers
  /\ key \in FirstKey
  /\ sweep = [s \in Sweepers |-> IdleSweep]
  /\ pending = {} /\ roles = {}
  /\ offline = FALSE
  /\ events = 0

(* RunDue's loop, with these rows still to take. *)
Resumed(todo) == [IdleSweep EXCEPT !.pc = IF todo = {} THEN "idle" ELSE "probe", !.todo = todo]

Event == events < MaxEvents /\ events' = events + 1

-----------------------------------------------------------------------------
(* One sweep.                                                              *)

Due == {c \in Rows : Live(c) /\ row[c].enabled /\ row[c].due}
Snapshot(c) == [id |-> c, target |-> row[c].target, failures |-> row[c].failures]

(* ListDueMonitoringChecks.  A sweep on demand is an operator's doing. *)
RunDue(s) ==
  /\ sweep[s].pc = "idle" /\ Due # {}
  /\ IF s \in Requests THEN Event ELSE UNCHANGED events
  /\ sweep' = [sweep EXCEPT ![s].pc = "probe", ![s].todo = {Snapshot(c) : c \in Due}]
  /\ UNCHANGED <<row, nextRow, badge, answers, key, pending, roles, offline>>

(* runOne's probe of the next row, judged on the counter the list returned; an
   snmp row is skipped while no key is loaded. *)
ProbeNext(s, x) ==
  /\ sweep[s].pc = "probe" /\ x \in sweep[s].todo
  /\ LET ok == x.target \in answers
         verdict == Evaluate(ok, x.failures)
         rest == sweep[s].todo \ {x}
     IN \/ /\ x.target = SNMP /\ ~key
           /\ sweep' = [sweep EXCEPT ![s] = Resumed(rest)]
        \/ /\ x.target = SNMP => key
           /\ sweep' = [sweep EXCEPT ![s] = [pc |-> "record", todo |-> rest, id |-> x.id,
                                             status |-> verdict.status,
                                             failures |-> verdict.failures]]
  /\ UNCHANGED <<row, nextRow, badge, answers, key, pending, roles, offline, events>>

(* RecordMonitoringResult, by primary key: a row deleted meanwhile is not there
   to be updated, one that is disabled or changed is. *)
RecordMonitoringResult(s) ==
  /\ sweep[s].pc = "record"
  /\ LET c == sweep[s].id
     IN  /\ row' = IF Live(c)
                   THEN [row EXCEPT ![c].status = sweep[s].status, ![c].due = FALSE,
                                    ![c].failures = sweep[s].failures]
                   ELSE row
         /\ offline' = (offline \/ (/\ Live(c) /\ row[c].role = "reachability"
                                    /\ sweep[s].status = "down"))
  /\ sweep' = [sweep EXCEPT ![s] = [IdleSweep EXCEPT !.pc = "rollup", !.todo = sweep[s].todo]]
  /\ UNCHANGED <<nextRow, badge, answers, key, pending, roles, events>>

(* rollupDevice, its read: all the device's rows, disabled ones too. *)
rollupDevice(s) ==
  /\ sweep[s].pc = "rollup"
  /\ sweep' = [sweep EXCEPT ![s].pc = "write",
                            ![s].status = RollupDeviceWithSupplemental(
                                            StatusesOf("reachability"), StatusesOf("supplemental"))]
  /\ UNCHANGED <<row, nextRow, badge, answers, key, pending, roles, offline, events>>

(* ... and its write, after which the sweep goes on with its list. *)
UpdateDeviceMonitoringStatus(s) ==
  /\ sweep[s].pc = "write"
  /\ badge' = sweep[s].status
  /\ sweep' = [sweep EXCEPT ![s] = Resumed(sweep[s].todo)]
  /\ UNCHANGED <<row, nextRow, answers, key, pending, roles, offline, events>>

Sweep(s) == \/ \E x \in Snapshots : ProbeNext(s, x)
            \/ RecordMonitoringResult(s) \/ rollupDevice(s) \/ UpdateDeviceMonitoringStatus(s)

IntervalElapses(c) ==
  /\ Live(c) /\ ~row[c].due
  /\ row' = [row EXCEPT ![c].due = TRUE]
  /\ UNCHANGED <<nextRow, badge, answers, key, sweep, pending, roles, offline, events>>

-----------------------------------------------------------------------------
(* Registration.  An upsert finds a row of the same port, and then only enables
   it; an snmp row has a NULL port, which is never in conflict. *)

Same(t) == {c \in Rows : Live(c) /\ row[c].target = t /\ t \in TCP}
UpsertMonitoringCheck(t) ==
  \/ \E c \in Same(t) : row' = [row EXCEPT ![c].enabled = TRUE] /\ UNCHANGED nextRow
  \/ /\ Same(t) = {} /\ nextRow <= MaxRows
     /\ row' = [row EXCEPT ![nextRow] = NewRow(t)] /\ nextRow' = nextRow + 1

(* seedReachabilityCheck, for what a scan has just found the device to answer
   on: it stops here if a row already dials such a port, or if only SNMP answers
   and there is an snmp row. *)
seedReachabilityCheck(t) ==
  /\ Event
  /\ t \in answers
  /\ \/ t \in TCP /\ ~\E c \in Rows : Live(c) /\ row[c].target \in answers \cap TCP
     \/ /\ t = SNMP /\ answers \cap TCP = {}
        /\ ~\E c \in Rows : Live(c) /\ row[c].target = SNMP
  /\ pending' = pending \cup {<<t, "seed">>}
  /\ UNCHANGED <<row, nextRow, badge, answers, key, sweep, roles, offline>>

(* An operator's repair, on the ports of the last scan or the fallback. *)
repairReachabilityCheck(t) ==
  /\ Event
  /\ t \in TCP
  /\ pending' = pending \cup {<<t, "repair">>}
  /\ UNCHANGED <<row, nextRow, badge, answers, key, sweep, roles, offline>>

(* Every tcp row goes, whatever its port and role. *)
DeleteDeviceReachabilityChecks(t, op) ==
  /\ <<t, op>> \in pending /\ op \in {"seed", "repair"}
  /\ row' = [c \in Rows |-> IF Live(c) /\ row[c].target \in TCP THEN Gone ELSE row[c]]
  /\ pending' = (pending \ {<<t, op>>}) \cup {<<t, "upsert">>}
  /\ UNCHANGED <<nextRow, badge, answers, key, sweep, roles, offline, events>>

(* The device is listed as having no check at all. *)
SeedDefaults ==
  /\ ~\E c \in Rows : Live(c)
  /\ <<DefaultTarget, "upsert">> \notin pending
  /\ pending' = pending \cup {<<DefaultTarget, "upsert">>}
  /\ UNCHANGED <<row, nextRow, badge, answers, key, sweep, roles, offline, events>>

(* The upsert with which an enrolment, a repair or a seeding ends. *)
UpsertPending(t) ==
  /\ <<t, "upsert">> \in pending
  /\ UpsertMonitoringCheck(t)
  /\ pending' = pending \ {<<t, "upsert">>}
  /\ UNCHANGED <<badge, answers, key, sweep, roles, offline, events>>

(* registerMonitoringCheck upserts a row of the default role first ... *)
registerMonitoringCheck(t) ==
  /\ Event
  /\ t \in TCP
  /\ UpsertMonitoringCheck(t)
  /\ \E c \in Rows : /\ row'[c].state = "live" /\ row'[c].target = t
                     /\ roles' = roles \cup {<<c, "list">>}
  /\ UNCHANGED <<badge, answers, key, sweep, pending, offline>>

(* ... then looks for another reachability row of the device ... *)
ListMonitoringChecksByDevice(c) ==
  /\ <<c, "list">> \in roles
  /\ LET others == {x \in Rows \ {c} : Live(x) /\ row[x].role = "reachability"}
     IN roles' = (roles \ {<<c, "list">>}) \cup (IF others # {} THEN {<<c, "demote">>} ELSE {})
  /\ UNCHANGED <<row, nextRow, badge, answers, key, sweep, pending, offline, events>>

(* ... and, if there was one, makes its own supplemental. *)
SetMonitoringCheckRole(c) ==
  /\ <<c, "demote">> \in roles
  /\ roles' = roles \ {<<c, "demote">>}
  /\ row' = IF Live(c) THEN [row EXCEPT ![c].role = "supplemental"] ELSE row
  /\ UNCHANGED <<nextRow, badge, answers, key, sweep, pending, offline, events>>

setMonitoringCheckEnabled(c) ==
  /\ Event
  /\ Live(c)
  /\ row' = [row EXCEPT ![c].enabled = ~@]
  /\ UNCHANGED <<nextRow, badge, answers, key, sweep, pending, roles, offline>>

deleteMonitoringCheck(c) ==
  /\ Event
  /\ Live(c)
  /\ row' = [row EXCEPT ![c] = Gone]
  /\ UNCHANGED <<nextRow, badge, answers, key, sweep, pending, roles, offline>>

(* The operator unlocks the key; SetCipher reaches the running engine. *)
SetCipher ==
  /\ Event
  /\ ~key /\ key' = TRUE
  /\ UNCHANGED <<row, nextRow, badge, answers, sweep, pending, roles, offline>>

-----------------------------------------------------------------------------
(* The device, and faults.                                                 *)

Flip(t) ==
  /\ Event
  /\ answers' = IF t \in answers THEN answers \ {t} ELSE answers \cup {t}
  /\ UNCHANGED <<row, nextRow, badge, key, sweep, pending, roles, offline>>

(* A sweep's process dies, or the request is cancelled, between two steps. *)
SweepDies(s) ==
  /\ Event
  /\ sweep[s].pc # "idle"
  /\ sweep' = [sweep EXCEPT ![s] = IdleSweep]
  /\ UNCHANGED <<row, nextRow, badge, answers, key, pending, roles, offline>>

(* A statement of runOne or rollupDevice fails, and is only logged: the row is
   skipped, or left as it was, or the badge is. *)
StatementFails(s) ==
  /\ Event
  /\ \/ /\ sweep[s].pc = "probe"
        /\ \E x \in sweep[s].todo : sweep' = [sweep EXCEPT ![s] = Resumed(sweep[s].todo \ {x})]
     \/ /\ sweep[s].pc = "record"
        /\ sweep' = [sweep EXCEPT ![s] = [IdleSweep EXCEPT !.pc = "rollup", !.todo = sweep[s].todo]]
     \/ /\ sweep[s].pc \in {"rollup", "write"}
        /\ sweep' = [sweep EXCEPT ![s] = Resumed(sweep[s].todo)]
  /\ UNCHANGED <<row, nextRow, badge, answers, key, pending, roles, offline>>

(* A statement of a registration fails: only seedReachabilityCheck goes on. *)
RegistrationFails ==
  /\ Event
  /\ \/ /\ \E p \in pending : pending' = (pending \ {p}) \cup
                 (IF p[2] = "seed" THEN {<<p[1], "upsert">>} ELSE {})
        /\ UNCHANGED roles
     \/ (\E p \in roles : roles' = roles \ {p}) /\ UNCHANGED pending
  /\ UNCHANGED <<row, nextRow, badge, answers, key, sweep, offline>>

(* The API dies in the middle of registrations; the rows stay as they are. *)
ApiDies ==
  /\ Event
  /\ pending \cup roles # {}
  /\ pending' = {} /\ roles' = {}
  /\ UNCHANGED <<row, nextRow, badge, answers, key, sweep, offline>>

MonNext ==
  \/ \E s \in Sweepers : RunDue(s) \/ Sweep(s) \/ SweepDies(s) \/ StatementFails(s)
  \/ \E c \in Rows : \/ IntervalElapses(c)
                     \/ ListMonitoringChecksByDevice(c) \/ SetMonitoringCheckRole(c)
                     \/ setMonitoringCheckEnabled(c) \/ deleteMonitoringCheck(c)
  \/ \E t \in Targets, op \in {"seed", "repair"} : DeleteDeviceReachabilityChecks(t, op)
  \/ \E t \in Targets : \/ UpsertPending(t) \/ seedReachabilityCheck(t)
                        \/ repairReachabilityCheck(t) \/ registerMonitoringCheck(t) \/ Flip(t)
  \/ SeedDefaults \/ SetCipher \/ RegistrationFails \/ ApiDies

MonSpec == MonInit /\ [][MonNext]_mon

(* A loop sweeps for ever, and whoever has begun a sweep or a registration
   carries on with it; time passes. *)
MonFairness ==
  /\ \A s \in Loops : WF_mon(RunDue(s))
  /\ \A s \in Sweepers : WF_mon(Sweep(s))
  /\ \A c \in Rows : /\ WF_mon(IntervalElapses(c)) /\ WF_mon(ListMonitoringChecksByDevice(c))
                     /\ WF_mon(SetMonitoringCheckRole(c))
  /\ \A t \in Targets : /\ WF_mon(UpsertPending(t))
                        /\ \A op \in {"seed", "repair"} :
                             WF_mon(DeleteDeviceReachabilityChecks(t, op))

FairMonSpec == MonSpec /\ MonFairness

-----------------------------------------------------------------------------
(* Properties.                                                             *)

(* Every row is one monitoring_checks accepts, and every sweep, registration
   and bound has its type. *)
MonTypeOK ==
  /\ row \in [Rows -> CheckRow] /\ nextRow \in 1..(MaxRows + 1)
  /\ badge \in Status /\ answers \subseteq Targets /\ key \in BOOLEAN
  /\ sweep \in [Sweepers -> SweepRec]
  /\ pending \subseteq Targets \X {"seed", "repair", "upsert"}
  /\ roles \subseteq Rows \X {"list", "demote"}
  /\ offline \in BOOLEAN
  /\ events \in 0..MaxEvents

(* "An extra check offline must not make the whole device offline": unless a
   reachability row has been recorded down, rollupDevice never writes "down",
   however registrations, deletions and sweeps interleave. *)
ExtraChecksNeverOffline == badge = "down" => offline

Polled(c) == Live(c) /\ row[c].enabled /\ (row[c].target = SNMP => key)

(* The badge comes to tell the truth: with every row polled and answering it
   ends "up", and with a reachability row polled and silent it ends "down",
   whatever stale results and roll-ups concurrent sweeps still write. *)
BadgeConverges ==
  /\ <>[](/\ \E c \in Rows : Live(c)
          /\ \A c \in Rows : Live(c) => Polled(c) /\ row[c].target \in answers)
       => <>[](badge = "up")
  /\ \A c \in Rows :
       <>[](Polled(c) /\ row[c].role = "reachability" /\ row[c].target \notin answers)
         => <>[](badge = "down")
=============================================================================
