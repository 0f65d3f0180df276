-------------------------- MODULE RelayQueueProofs --------------------------
(***************************************************************************)
(* Theorems about RelayQueue, for every number of agents, devices, rows,   *)
(* attempts and faults: its type invariant, the dispatch cap of an agent,  *)
(* the link of a finished collection to its stored inventory, the bound    *)
(* on self-heal, and, as long as agents wait for the answer to a result,   *)
(* the finality of a report, the retry envelope and the refinement of the  *)
(* abstract CollectionOrders.                                              *)
(***************************************************************************)
EXTENDS RelayQueue, FiniteSetTheorems, TLAPS

-----------------------------------------------------------------------------
(* Counting rows.                                                          *)

(* Sets of rows are finite, and counting them is monotone. *)
LEMMA CountType ==
  ASSUME NEW S, S \subseteq JobIds
  PROVE  IsFiniteSet(S) /\ Cardinality(S) \in Nat
<1>1. IsFiniteSet(JobIds)
  BY RelayAssumption, FS_Interval DEF JobIds
<1>2. IsFiniteSet(S)
  BY <1>1, FS_Subset
<1> QED
  BY <1>2, FS_CardinalityType

LEMMA CountMonotone ==
  ASSUME NEW S, NEW T, S \subseteq T, T \subseteq JobIds
  PROVE  Cardinality(S) <= Cardinality(T)
<1>1. IsFiniteSet(T)
  BY CountType
<1> QED
  BY <1>1, FS_Subset

-----------------------------------------------------------------------------
(* The type invariant.                                                     *)

(* A freshly inserted row, and the fillers of Init, have their types. *)
LEMMA RowTypes ==
  /\ \A a \in Agents, d \in Devices \cup {NoDevice}, k \in {"collect_os", "test"},
        h \in BOOLEAN : NewJob(a, d, k, h) \in JobRow
  /\ AnyAgent \in Agents /\ NoJob \in JobRow /\ IdleRoute \in RouteRec
  /\ IdlePoll \in PollRec
<1>1. AnyAgent \in Agents
  BY RelayAssumption DEF AnyAgent
<1> QED
  BY <1>1 DEF NewJob, NoJob, IdleRoute, IdlePoll, JobRow, RouteRec, PollRec, Categories

(* Each UPDATE statement keeps a row a row. *)
LEMMA RowUpdates ==
  ASSUME NEW row \in JobRow, NEW st \in {"done", "failed"}, NEW cat \in Categories
  PROVE  /\ Marked(row) \in JobRow /\ Requeued(row, cat) \in JobRow
         /\ Completed(row, st, cat) \in JobRow /\ Reaped(row) \in JobRow
<1>1. row.sent + 1 \in Nat /\ row.attempt + 1 \in Nat
  BY DEF JobRow
<1>2. \A n \in Nat : [row EXCEPT !.status = "dispatched", !.sent = n] \in JobRow
  BY DEF JobRow
<1>3. \A n \in Nat : [row EXCEPT !.status = "queued", !.waiting = TRUE, !.category = cat,
                                 !.attempt = n] \in JobRow
  BY DEF JobRow
<1>4. \A n \in Nat :
        /\ [row EXCEPT !.status = "failed", !.attempt = n, !.waiting = FALSE,
                       !.category = "agent_no_result", !.cooled = FALSE] \in JobRow
        /\ [row EXCEPT !.status = "queued", !.attempt = n, !.waiting = FALSE] \in JobRow
  BY DEF JobRow, Categories
<1>5. Completed(row, st, cat) \in JobRow
  BY DEF Completed, JobRow
<1> QED
  BY <1>1, <1>2, <1>3, <1>4, <1>5 DEF Marked, Requeued, Reaped

LEMMA UpdateTypes ==
  ASSUME job \in [JobIds -> JobRow], NEW j \in JobIds, NEW row \in JobRow, Update(j, row)
  PROVE  job' \in [JobIds -> JobRow]
BY DEF Update

(* The initial state of the queue is well typed. *)
LEMMA InitTypeOK == Init => TypeOK
  BY RowTypes, RelayAssumption DEF Init, TypeOK, JobIds

(* Routing, the sweep and the operator's test job keep the types. *)
LEMMA EnqueueTypeOK == TypeOK /\ Enqueue => TypeOK'
<1> SUFFICES ASSUME TypeOK, Enqueue PROVE TypeOK'
  OBVIOUS
<1>1. ASSUME NEW c \in Callers, NEW d \in Devices, NEW a \in Agents, RouteCheck(c, d, a)
      PROVE route' \in [Callers -> RouteRec]
  BY <1>1 DEF RouteCheck, TypeOK, RouteRec
<1>2. ASSUME NEW c \in Routers, NEW d \in Devices, NEW a \in Agents, routeViaSiteAgent(c, d, a)
      PROVE TypeOK'
  BY <1>2, <1>1 DEF routeViaSiteAgent, TypeOK, Callers, db, site
<1>3. ASSUME NEW c \in Callers, CreateAgentJob(c) PROVE TypeOK'
  <2>1. nextId \in JobIds
    BY <1>3 DEF CreateAgentJob, TypeOK, JobIds
  <2>2. route[c].device \in Devices \cup {NoDevice} /\ route[c].agent \in Agents
    BY <1>3 DEF TypeOK, RouteRec
  <2>5. NewJob(route[c].agent, route[c].device, "collect_os", c = Sweep) \in JobRow
    BY <2>2, RowTypes
  <2>3. job' \in [JobIds -> JobRow] /\ nextId' \in 1..(MaxJobs + 1)
    <3>1. CASE job' = job /\ nextId' = nextId
      BY <3>1 DEF TypeOK
    <3>2. CASE /\ job' = [job EXCEPT ![nextId] =
                     NewJob(route[c].agent, route[c].device, "collect_os", c = Sweep)]
               /\ nextId' = nextId + 1
      BY <3>2, <2>1, <2>5, RelayAssumption DEF TypeOK, JobIds
    <3> QED
      BY <1>3, <3>1, <3>2 DEF CreateAgentJob
  <2>4. route' \in [Callers -> RouteRec]
    BY <1>3, RowTypes DEF CreateAgentJob, TypeOK
  <2> QED
    BY <1>3, <2>3, <2>4 DEF CreateAgentJob, TypeOK, site
<1>4. CASE SelfHealList
  BY <1>4 DEF SelfHealList, SelfHealCandidates, TypeOK, db, site
<1>5. ASSUME NEW d \in Devices, SelfHealRoute(d) PROVE TypeOK'
  <2>1. route' \in [Callers -> RouteRec]
    BY <1>5, <1>1 DEF SelfHealRoute, TypeOK, Callers
  <2> QED
    BY <1>5, <2>1 DEF SelfHealRoute, TypeOK, db, site
<1> QED
  BY <1>2, <1>3, <1>4, <1>5 DEF Enqueue

(* The poll handler keeps the types. *)
LEMMA DispatchTypeOK == TypeOK /\ Dispatch => TypeOK'
<1> SUFFICES ASSUME TypeOK, NEW a \in Agents,
                    \/ PollCount(a) \/ PollList(a) \/ PollReply(a)
                    \/ \E j \in JobIds : MarkAgentJobDispatched(a, j)
             PROVE TypeOK'
  BY DEF Dispatch
<1>1. CASE PollCount(a)
  <2>1. Dispatched(a) \subseteq JobIds
    BY DEF Dispatched
  <2>2. Cardinality(Dispatched(a)) \in Nat
    BY <2>1, CountType
  <2>3. poll' \in [Agents -> PollRec]
    BY <1>1, <2>2 DEF PollCount, IdlePoll, TypeOK, PollRec
  <2> QED
    BY <1>1, <2>3 DEF PollCount, TypeOK, db, site
<1>2. CASE PollList(a)
  <2>1. PICK rows \in SUBSET JobIds :
          \/ poll' = [poll EXCEPT ![a] = IdlePoll]
          \/ poll' = [poll EXCEPT ![a] = [IdlePoll EXCEPT !.pc = "mark", !.rows = rows]]
    BY <1>2 DEF PollList, Runnable
  <2>2. IdlePoll \in PollRec /\ [IdlePoll EXCEPT !.pc = "mark", !.rows = rows] \in PollRec
    BY DEF IdlePoll, PollRec
  <2>3. poll' \in [Agents -> PollRec]
    BY <2>1, <2>2 DEF TypeOK
  <2> QED
    BY <1>2, <2>3 DEF PollList, TypeOK, db, site
<1>3. CASE PollReply(a)
  <2>1. poll' \in [Agents -> PollRec]
    BY <1>3, RowTypes DEF PollReply, TypeOK
  <2>2. running' \in [Agents -> SUBSET JobIds]
    BY <1>3 DEF PollReply, TypeOK, PollRec
  <2> QED
    BY <1>3, <2>1, <2>2 DEF PollReply, TypeOK, db
<1>4. ASSUME NEW j \in JobIds, MarkAgentJobDispatched(a, j) PROVE TypeOK'
  <2>1. job' \in [JobIds -> JobRow]
    <3>1. "done" \in {"done", "failed"} /\ "" \in Categories /\ job[j] \in JobRow
      BY DEF Categories, TypeOK
    <3>2. Marked(job[j]) \in JobRow
      BY <3>1, RowUpdates
    <3> QED
      BY <1>4, <3>2, UpdateTypes DEF MarkAgentJobDispatched, TypeOK
  <2>2. [poll[a] EXCEPT !.rows = poll[a].rows \ {j}, !.out = poll[a].out \cup {j}] \in PollRec
    BY DEF TypeOK, PollRec
  <2>3. poll' \in [Agents -> PollRec]
    BY <1>4, <2>2 DEF MarkAgentJobDispatched, TypeOK
  <2> QED
    BY <1>4, <2>1, <2>3 DEF MarkAgentJobDispatched, TypeOK, site
<1> QED
  BY <1>1, <1>2, <1>3, <1>4

(* The agent's report and its handler keep the types. *)
LEMMA ReportTypeOK == TypeOK /\ (Collect \/ Report) => TypeOK'
<1> SUFFICES ASSUME TypeOK, Collect \/ Report PROVE TypeOK'
  OBVIOUS
<1>1. ASSUME NEW a \in Agents, NEW j \in JobIds, NEW o \in Outcomes, runJob(a, j, o[1], o[2])
      PROVE TypeOK'
  <2>1. o[1] \in BOOLEAN /\ o[2] \in Categories
    <3>1. CASE o = <<TRUE, "success">>
      BY <3>1 DEF Categories
    <3>2. ASSUME NEW c \in Reported, o = <<FALSE, c>> PROVE o[1] \in BOOLEAN /\ o[2] \in Categories
      BY <3>2 DEF Categories
    <3> QED
      BY <3>1, <3>2 DEF Outcomes
  <2>2. results' \subseteq ResultRec
    BY <1>1, <2>1 DEF runJob, TypeOK, ResultRec
  <2>3. running' \in [Agents -> SUBSET JobIds] /\ posting' \in [Agents -> SUBSET JobIds]
    BY <1>1 DEF runJob, TypeOK
  <2> QED
    BY <1>1, <2>2, <2>3 DEF runJob, TypeOK, db
<1>2. ASSUME NEW r \in results, Answered(r) PROVE posting' \in [Agents -> SUBSET JobIds]
  BY <1>2 DEF Answered, TypeOK, ResultRec
<1>3. ASSUME NEW r \in results, GetAgentJob(r) PROVE TypeOK'
  <2>1. results' \subseteq ResultRec
    <3>1. r \in ResultRec /\ job[r.job] \in JobRow
      BY DEF TypeOK, ResultRec
    <3>2. Read(r) \in ResultRec
      BY <3>1 DEF Read, ResultRec, JobRow
    <3> QED
      BY <1>3, <3>2 DEF GetAgentJob, TypeOK
  <2>2. posting' \in [Agents -> SUBSET JobIds]
    BY <1>3, <1>2 DEF GetAgentJob, TypeOK
  <2> QED
    BY <1>3, <2>1, <2>2 DEF GetAgentJob, TypeOK, db
<1>4. ASSUME NEW r \in results, Persist(r) PROVE TypeOK'
  <2>1. results' \subseteq ResultRec
    <3>1. r \in ResultRec
      BY DEF TypeOK
    <3>2. /\ [r EXCEPT !.pc = "finish"] \in ResultRec
          /\ [r EXCEPT !.pc = "finish", !.status = "failed"] \in ResultRec
      BY <3>1 DEF ResultRec
    <3> QED
      BY <1>4, <3>2 DEF Persist, TypeOK
  <2>2. evidence' \subseteq exists /\ faults' \in 0..MaxFaults
    BY <1>4, RelayAssumption DEF Persist, Fault, TypeOK
  <2> QED
    BY <1>4, <2>1, <2>2 DEF Persist, TypeOK, site
<1>5. ASSUME NEW r \in results, RequeueAgentJob(r) \/ CompleteAgentJob(r) PROVE TypeOK'
  <2>1. job' \in [JobIds -> JobRow]
    <3>1. /\ r.job \in JobIds /\ r.status \in {"done", "failed"} /\ r.category \in Categories
          /\ job[r.job] \in JobRow
      BY DEF TypeOK, ResultRec
    <3>2. /\ Requeued(job[r.job], r.category) \in JobRow
          /\ Completed(job[r.job], r.status, r.category) \in JobRow
      BY <3>1, RowUpdates
    <3> QED
      BY <1>5, <3>1, <3>2, UpdateTypes DEF RequeueAgentJob, CompleteAgentJob, TypeOK
  <2>2. results' \subseteq ResultRec
    BY <1>5 DEF RequeueAgentJob, CompleteAgentJob, TypeOK
  <2>3. posting' \in [Agents -> SUBSET JobIds]
    BY <1>5, <1>2 DEF RequeueAgentJob, CompleteAgentJob
  <2> QED
    BY <1>5, <2>1, <2>2, <2>3 DEF RequeueAgentJob, CompleteAgentJob, TypeOK
<1> QED
  BY <1>1, <1>3, <1>4, <1>5 DEF Collect, Report

(* Time, the operator and the faults keep the types. *)
LEMMA EnvironmentTypeOK == TypeOK /\ (Time \/ Operator \/ Loss \/ Drop) => TypeOK'
<1> SUFFICES ASSUME TypeOK, Time \/ Operator \/ Loss \/ Drop PROVE TypeOK'
  OBVIOUS
<1>1. ASSUME NEW j \in JobIds, RequeueStaleAgentJobs(j) PROVE TypeOK'
  <2>1. "failed" \in {"done", "failed"} /\ "" \in Categories /\ job[j] \in JobRow
    BY DEF Categories, TypeOK
  <2>3. Reaped(job[j]) \in JobRow
    BY <2>1, RowUpdates
  <2>2. job' \in [JobIds -> JobRow]
    BY <1>1, <2>3, UpdateTypes DEF RequeueStaleAgentJobs, TypeOK
  <2> QED
    BY <1>1, <2>2 DEF RequeueStaleAgentJobs, TypeOK, api, site
<1>2. ASSUME NEW j \in JobIds, BackoffElapses(j) \/ CooldownElapses(j) PROVE TypeOK'
  <2>2. [job[j] EXCEPT !.waiting = FALSE] \in JobRow /\ [job[j] EXCEPT !.cooled = TRUE] \in JobRow
    <3>1. job[j] \in JobRow
      BY DEF TypeOK
    <3> QED
      BY <3>1 DEF JobRow
  <2>1. job' \in [JobIds -> JobRow]
    BY <1>2, <2>2 DEF BackoffElapses, CooldownElapses, TypeOK
  <2> QED
    BY <1>2, <2>1 DEF BackoffElapses, CooldownElapses, TypeOK, api, site
<1>3. ASSUME NEW a \in Agents, enqueueAgentTest(a) PROVE TypeOK'
  <2>1. NewJob(a, NoDevice, "test", FALSE) \in JobRow
    BY RowTypes
  <2>2. nextId' \in 1..(MaxJobs + 1)
    BY <1>3, RelayAssumption DEF enqueueAgentTest, TypeOK
  <2>3. job' \in [JobIds -> JobRow]
    BY <1>3, <2>1 DEF enqueueAgentTest, TypeOK
  <2> QED
    BY <1>3, <2>2, <2>3 DEF enqueueAgentTest, TypeOK, api, site
<1>4. ASSUME NEW a \in Agents, patchRelayAgent(a) \/ deleteRelayAgent(a) PROVE TypeOK'
  BY <1>4 DEF patchRelayAgent, deleteRelayAgent, TypeOK, JobRow, api, site
<1>5. ASSUME NEW d \in Devices, deleteDevice(d) \/ DirectCollect(d) PROVE TypeOK'
  BY <1>5 DEF deleteDevice, DirectCollect, TypeOK, JobRow, api, site
<1>6. ASSUME Fault PROVE faults' \in 0..MaxFaults
  BY <1>6, RelayAssumption DEF Fault, TypeOK
<1>7. ASSUME NEW a \in Agents, PollLost(a) PROVE TypeOK'
  BY <1>7, <1>6, RowTypes DEF PollLost, TypeOK, db, site
<1>8. ASSUME NEW a \in Agents, NEW j \in JobIds,
             AgentCrash(a) \/ PostLost(a, j) \/ ConnectionDrops(a, j)
      PROVE TypeOK'
  BY <1>8, <1>6 DEF AgentCrash, PostLost, ConnectionDrops, TypeOK, db, api
<1>9. CASE ApiCrash
  BY <1>9, <1>6, RowTypes DEF ApiCrash, TypeOK, db
<1>10. ASSUME NEW a \in Agents, AgentCrash(a) PROVE TypeOK'
  BY <1>10, <1>6 DEF AgentCrash, TypeOK, db, api
<1>11. ASSUME NEW r \in results, WriteFails(r) PROVE TypeOK'
  <2>1. posting' \in [Agents -> SUBSET JobIds] /\ results' \subseteq ResultRec
    BY <1>11 DEF WriteFails, Answered, TypeOK, ResultRec
  <2> QED
    BY <1>11, <1>6, <2>1 DEF WriteFails, TypeOK, db
<1> QED
  BY <1>1, <1>2, <1>3, <1>4, <1>5, <1>7, <1>8, <1>9, <1>10, <1>11 DEF Time, Operator, Loss, Drop

(* Every step keeps the types. *)
LEMMA NextTypeOK == TypeOK /\ [Next]_vars => TypeOK'
<1>1. TypeOK /\ UNCHANGED vars => TypeOK'
  BY DEF TypeOK, vars, db, api, site
<1> QED
  BY <1>1, EnqueueTypeOK, DispatchTypeOK, ReportTypeOK, EnvironmentTypeOK DEF Next, Core

(* TypeOK is an invariant: no interleaving of the handlers, of the agents and
   of the operator writes an ill-typed row or overruns the table. *)
THEOREM TypeCorrect == Spec => []TypeOK
  BY InitTypeOK, NextTypeOK, PTL DEF Spec

-----------------------------------------------------------------------------
(* The dispatch cap.  WithinCap alone is not inductive: between the count, the
   list and each mark of a poll other actors change the rows.  What carries it
   is that the count a poll took stays an upper bound until it lists, and that
   the rows it has listed fit under the cap together with the ones in flight. *)

CapInv ==
  /\ \A j \in JobIds : j >= nextId => job[j].status = "none"
  /\ \A a \in Agents :
       poll[a].pc = "list" => Cardinality(Dispatched(a)) <= poll[a].inflight
  /\ \A a \in Agents : poll[a].pc = "mark" =>
       /\ \A j \in poll[a].rows : j < nextId /\ job[j].agent = a
       /\ Cardinality(Dispatched(a) \cup poll[a].rows) <= DispatchCap
  /\ WithinCap

(* A step that leaves the polls alone, dispatches nothing and reassigns no row
   keeps the cap invariant. *)
LEMMA QuietStep ==
  ASSUME TypeOK, TypeOK', CapInv, UNCHANGED poll, nextId <= nextId',
         \A j \in JobIds : job'[j].status = "dispatched" =>
                             job[j].status = "dispatched" /\ job'[j].agent = job[j].agent,
         \A j \in JobIds : j < nextId => job'[j].agent = job[j].agent,
         \A j \in JobIds : j >= nextId' => job'[j].status = "none"
  PROVE  CapInv'
<1>1. \A a \in Agents : Dispatched(a)' \subseteq Dispatched(a)
  BY DEF Dispatched
<1>2. \A a \in Agents : Dispatched(a) \subseteq JobIds /\ poll[a].rows \subseteq JobIds
  BY DEF Dispatched, TypeOK, PollRec
<1>3. \A a \in Agents : Cardinality(Dispatched(a)') <= Cardinality(Dispatched(a))
  BY <1>1, <1>2, CountMonotone
<1>4. \A a \in Agents : Cardinality(Dispatched(a)' \cup poll[a].rows)
                           <= Cardinality(Dispatched(a) \cup poll[a].rows)
  <2> TAKE a \in Agents
  <2>1. /\ Dispatched(a)' \cup poll[a].rows \subseteq Dispatched(a) \cup poll[a].rows
        /\ Dispatched(a) \cup poll[a].rows \subseteq JobIds
    BY <1>1, <1>2
  <2> QED
    BY <2>1, CountMonotone
<1>5. \A a \in Agents : /\ Cardinality(Dispatched(a)) \in Nat
                        /\ Cardinality(Dispatched(a)') \in Nat
                        /\ Cardinality(Dispatched(a) \cup poll[a].rows) \in Nat
                        /\ Cardinality(Dispatched(a)' \cup poll[a].rows) \in Nat
  <2> TAKE a \in Agents
  <2>1. /\ Dispatched(a) \subseteq JobIds /\ Dispatched(a)' \subseteq JobIds
        /\ Dispatched(a) \cup poll[a].rows \subseteq JobIds
        /\ Dispatched(a)' \cup poll[a].rows \subseteq JobIds
    BY <1>1, <1>2
  <2> QED
    BY <2>1, CountType
<1>6. DispatchCap \in Nat
  BY RelayAssumption
<1>7. \A a \in Agents : poll[a].inflight \in Nat /\ poll[a].rows \subseteq JobIds
  BY DEF TypeOK, PollRec
<1>11. \A x, y, z \in Nat : x <= y /\ y <= z => x <= z
  OBVIOUS
<1>8. ASSUME NEW a \in Agents PROVE Cardinality(Dispatched(a)') <= DispatchCap
  <2>1. Cardinality(Dispatched(a)) <= DispatchCap
    BY DEF CapInv, WithinCap
  <2> QED
    BY <2>1, <1>3, <1>5, <1>6, <1>11
<1>9. ASSUME NEW a \in Agents, poll[a].pc = "list"
      PROVE  Cardinality(Dispatched(a)') <= poll[a].inflight
  <2>1. Cardinality(Dispatched(a)) <= poll[a].inflight
    BY <1>9 DEF CapInv
  <2> QED
    BY <2>1, <1>3, <1>5, <1>7, <1>11
<1>10. \A a \in Agents : poll'[a].pc = "mark" =>
         /\ \A j \in poll'[a].rows : j < nextId' /\ job'[j].agent = a
         /\ Cardinality(Dispatched(a)' \cup poll'[a].rows) <= DispatchCap
  <2> SUFFICES ASSUME NEW a \in Agents, poll[a].pc = "mark"
               PROVE  /\ \A j \in poll[a].rows : j < nextId' /\ job'[j].agent = a
                      /\ Cardinality(Dispatched(a)' \cup poll[a].rows) <= DispatchCap
    OBVIOUS
  <2>1. Cardinality(Dispatched(a)' \cup poll[a].rows) <= DispatchCap
    <3>1. Cardinality(Dispatched(a) \cup poll[a].rows) <= DispatchCap
      BY DEF CapInv
    <3> QED
      BY <3>1, <1>4, <1>5, <1>6, <1>11
  <2>2. ASSUME NEW j \in poll[a].rows PROVE j < nextId' /\ job'[j].agent = a
    <3>1. j \in JobIds /\ j < nextId /\ job[j].agent = a
      BY <1>7 DEF CapInv
    <3> QED
      BY <3>1, RelayAssumption DEF TypeOK, JobIds
  <2> QED
    BY <2>1, <2>2
<1> QED
  BY <1>8, <1>9, <1>10 DEF CapInv, WithinCap

(* A row is rewritten in place, keeping its agent and not dispatching it. *)
LEMMA QuietUpdate ==
  ASSUME TypeOK, TypeOK', CapInv, UNCHANGED <<poll, nextId>>,
         NEW j \in JobIds, NEW row, Update(j, row),
         row.agent = job[j].agent, row.status # "dispatched"
  PROVE  CapInv'
<1>1. \A k \in JobIds : /\ job'[k].agent = job[k].agent
                        /\ job'[k].status = "dispatched" => job[k].status = "dispatched"
                        /\ k >= nextId => job'[k].status = "none"
  BY DEF Update, TypeOK, CapInv, Exists
<1> QED
  BY <1>1, QuietStep DEF TypeOK

(* A step that touches neither the rows nor the polls keeps the invariant. *)
LEMMA UntouchedStep ==
  ASSUME TypeOK, CapInv, UNCHANGED <<job, nextId, poll>>
  PROVE  CapInv'
BY DEF CapInv, WithinCap, Dispatched

(* Inserting a row keeps the invariant: it is queued. *)
LEMMA InsertStep ==
  ASSUME TypeOK, TypeOK', CapInv, UNCHANGED poll, nextId <= MaxJobs, nextId' = nextId + 1,
         NEW row, row.status = "queued", job' = [job EXCEPT ![nextId] = row]
  PROVE  CapInv'
<1>1. nextId \in Nat /\ nextId' \in Nat /\ nextId \in JobIds
  BY RelayAssumption DEF TypeOK, JobIds
<1>2. \A k \in JobIds : k \in Nat
  BY DEF JobIds
<1>3. \A k \in JobIds : /\ k < nextId => job'[k] = job[k]
                        /\ k >= nextId' => job'[k] = job[k]
                        /\ k # nextId => job'[k] = job[k]
  BY <1>1, <1>2 DEF TypeOK
<1>4. job'[nextId].status # "dispatched"
  BY <1>1 DEF TypeOK
<1>5. \A k \in JobIds : k >= nextId' => job'[k].status = "none"
  <2> SUFFICES ASSUME NEW k \in JobIds, k >= nextId' PROVE job'[k].status = "none"
    OBVIOUS
  <2>1. k >= nextId
    BY <1>1, <1>2
  <2> QED
    BY <2>1, <1>3 DEF CapInv
<1>6. nextId <= nextId'
  BY <1>1
<1> QED
  BY <1>3, <1>4, <1>5, <1>6, QuietStep

(* Everything but the polls and the API crash is quiet. *)
LEMMA QuietCap ==
  ASSUME TypeOK, TypeOK', CapInv, Enqueue \/ Collect \/ Report \/ Time \/ Operator
  PROVE  CapInv'
<1>1. ASSUME NEW c \in Callers, CreateAgentJob(c) PROVE CapInv'
  <2>1. CASE UNCHANGED <<job, nextId>>
    BY <1>1, <2>1, UntouchedStep DEF CreateAgentJob
  <2>2. CASE /\ job' = [job EXCEPT ![nextId] =
                   NewJob(route[c].agent, route[c].device, "collect_os", c = Sweep)]
             /\ nextId' = nextId + 1
    <3>1. NewJob(route[c].agent, route[c].device, "collect_os", c = Sweep).status = "queued"
      BY DEF NewJob
    <3> QED
      BY <1>1, <2>2, <3>1, InsertStep DEF CreateAgentJob
  <2> QED
    BY <1>1, <2>1, <2>2 DEF CreateAgentJob
<1>2. CASE Enqueue
  <2>1. ASSUME NEW c \in Routers, NEW d \in Devices, NEW a \in Agents, routeViaSiteAgent(c, d, a)
        PROVE  CapInv'
    BY <2>1, UntouchedStep DEF routeViaSiteAgent, db
  <2>2. CASE SelfHealList
    BY <2>2, UntouchedStep DEF SelfHealList, db
  <2>3. ASSUME NEW d \in Devices, SelfHealRoute(d) PROVE CapInv'
    BY <2>3, UntouchedStep DEF SelfHealRoute, db
  <2> QED
    BY <1>1, <1>2, <2>1, <2>2, <2>3 DEF Enqueue
<1>3. CASE Collect
  BY <1>3, UntouchedStep DEF Collect, runJob, db
<1>4. CASE Report
  <2> PICK r \in results : \/ GetAgentJob(r) \/ Persist(r)
                          \/ RequeueAgentJob(r) \/ CompleteAgentJob(r)
    BY <1>4 DEF Report
  <2>1. CASE GetAgentJob(r) \/ Persist(r)
    BY <2>1, UntouchedStep DEF GetAgentJob, Persist, db
  <2>2. r.job \in JobIds /\ r.status \in {"done", "failed"} /\ job[r.job] \in JobRow
    BY DEF TypeOK, ResultRec
  <2>3. CASE RequeueAgentJob(r)
    <3>1. /\ Requeued(job[r.job], r.category).agent = job[r.job].agent
          /\ Requeued(job[r.job], r.category).status # "dispatched"
      BY <2>2 DEF Requeued, JobRow
    <3> QED
      BY <2>3, <2>2, <3>1, QuietUpdate DEF RequeueAgentJob
  <2>4. CASE CompleteAgentJob(r)
    <3>1. /\ Completed(job[r.job], r.status, r.category).agent = job[r.job].agent
          /\ Completed(job[r.job], r.status, r.category).status # "dispatched"
      BY <2>2 DEF Completed, JobRow
    <3> QED
      BY <2>4, <2>2, <3>1, QuietUpdate DEF CompleteAgentJob
  <2> QED
    BY <2>1, <2>3, <2>4
<1>5. CASE Time
  <2> PICK j \in JobIds : \/ RequeueStaleAgentJobs(j)
                         \/ BackoffElapses(j) \/ CooldownElapses(j)
    BY <1>5 DEF Time
  <2>0. job[j] \in JobRow
    BY DEF TypeOK
  <2>1. CASE RequeueStaleAgentJobs(j)
    <3>1. Reaped(job[j]).agent = job[j].agent /\ Reaped(job[j]).status # "dispatched"
      BY <2>0 DEF Reaped, JobRow
    <3> QED
      BY <2>1, <3>1, QuietUpdate DEF RequeueStaleAgentJobs, api
  <2>2. CASE BackoffElapses(j) \/ CooldownElapses(j)
    <3>1. \A k \in JobIds : job'[k].agent = job[k].agent /\ job'[k].status = job[k].status
      BY <2>2, <2>0 DEF BackoffElapses, CooldownElapses, TypeOK, JobRow
    <3>2. UNCHANGED <<poll, nextId>>
      BY <2>2 DEF BackoffElapses, CooldownElapses, api
    <3>3. nextId <= nextId'
      BY <3>2 DEF TypeOK
    <3>4. \A k \in JobIds : k >= nextId' => job'[k].status = "none"
      BY <3>1, <3>2 DEF CapInv
    <3> QED
      BY <3>1, <3>2, <3>3, <3>4, QuietStep
  <2> QED
    BY <2>1, <2>2
<1>6. CASE Operator
  <2>1. ASSUME NEW a \in Agents, enqueueAgentTest(a) PROVE CapInv'
    <3>1. NewJob(a, NoDevice, "test", FALSE).status = "queued"
      BY DEF NewJob
    <3> QED
      BY <2>1, <3>1, InsertStep DEF enqueueAgentTest, api
  <2>2. ASSUME NEW a \in Agents, patchRelayAgent(a) PROVE CapInv'
    BY <2>2, UntouchedStep DEF patchRelayAgent, api
  <2>3. ASSUME NEW d \in Devices, DirectCollect(d) PROVE CapInv'
    BY <2>3, UntouchedStep DEF DirectCollect, api
  <2>4. ASSUME UNCHANGED <<poll, nextId>>,
               \A k \in JobIds : /\ job'[k].agent = job[k].agent
                                 /\ \/ job'[k].status = job[k].status
                                    \/ Exists(k) /\ job'[k].status = "deleted"
        PROVE  CapInv'
    <3>1. \A k \in JobIds : k >= nextId' => job'[k].status = "none"
      BY <2>4 DEF CapInv, Exists
    <3>2. nextId <= nextId'
      BY <2>4 DEF TypeOK
    <3> QED
      BY <2>4, <3>1, <3>2, QuietStep
  <2>5. ASSUME NEW a \in Agents, deleteRelayAgent(a) PROVE CapInv'
    <3>1. \A k \in JobIds : \/ job'[k] = job[k]
                            \/ Exists(k) /\ job'[k] = [job[k] EXCEPT !.status = "deleted"]
      BY <2>5 DEF deleteRelayAgent
    <3>2. \A k \in JobIds : job[k] \in JobRow
      BY DEF TypeOK
    <3>3. \A k \in JobIds : /\ job'[k].agent = job[k].agent
                            /\ \/ job'[k].status = job[k].status
                               \/ Exists(k) /\ job'[k].status = "deleted"
      BY <3>1, <3>2 DEF JobRow
    <3> QED
      BY <2>5, <3>3, <2>4 DEF deleteRelayAgent, api
  <2>6. ASSUME NEW d \in Devices, deleteDevice(d) PROVE CapInv'
    <3>1. \A k \in JobIds : \/ job'[k] = job[k]
                            \/ job'[k] = [job[k] EXCEPT !.device = NoDevice]
      BY <2>6 DEF deleteDevice
    <3>2. \A k \in JobIds : job[k] \in JobRow
      BY DEF TypeOK
    <3>3. \A k \in JobIds : job'[k].agent = job[k].agent /\ job'[k].status = job[k].status
      BY <3>1, <3>2 DEF JobRow
    <3> QED
      BY <2>6, <3>3, <2>4 DEF deleteDevice, api
  <2> QED
    BY <1>6, <2>1, <2>2, <2>3, <2>4, <2>5, <2>6 DEF Operator
<1> QED
  BY <1>2, <1>3, <1>4, <1>5, <1>6

(* The budget of a poll: never negative, never more than what is left under
   the cap, throttled or not, and positive whenever something is left. *)
LEMMA BudgetBounds ==
  ASSUME NEW inflight \in Nat, NEW load \in Nat
  PROVE  LET b == agentPollBudgetAdaptive(inflight, load)
         IN  /\ b \in Nat
             /\ inflight <= DispatchCap => b <= DispatchCap - inflight
             /\ b > 0 <=> inflight < DispatchCap
<1>1. DispatchCap \in Nat
  BY RelayAssumption
<1>2. agentThrottledBudget \in Nat /\ agentThrottledBudget >= 2
  BY <1>1 DEF agentThrottledBudget, MaxInt
<1> QED
  BY <1>1, <1>2 DEF agentPollBudgetAdaptive, agentPollBudget

(* The poll handler: the count bounds the rows in flight when it is taken, the
   list fits what the count leaves, and each mark only moves a listed row. *)
LEMMA DispatchCapInv ==
  ASSUME TypeOK, TypeOK', CapInv, Dispatch
  PROVE  CapInv'
<1> PICK a \in Agents : \/ PollCount(a) \/ PollList(a) \/ PollReply(a)
                        \/ \E j \in JobIds : MarkAgentJobDispatched(a, j)
  BY DEF Dispatch
<1>0. /\ Dispatched(a) \subseteq JobIds /\ Cardinality(Dispatched(a)) \in Nat
      /\ DispatchCap \in Nat /\ poll \in [Agents -> PollRec]
  BY CountType, RelayAssumption DEF Dispatched, TypeOK
<1>1. CASE PollCount(a)
  <2>1. /\ UNCHANGED <<job, nextId>>
        /\ poll'[a].pc = "list" /\ poll'[a].inflight = Cardinality(Dispatched(a))
        /\ \A b \in Agents \ {a} : poll'[b] = poll[b]
    BY <1>1, <1>0 DEF PollCount, IdlePoll, PollRec, db
  <2>2. \A b \in Agents : Dispatched(b)' = Dispatched(b)
    BY <2>1 DEF Dispatched
  <2> QED
    BY <2>1, <2>2, <1>0 DEF CapInv, WithinCap
<1>2. CASE PollList(a)
  <2> DEFINE load == Cardinality(LoadBackoff(a))
             budget == agentPollBudgetAdaptive(poll[a].inflight, load)
  <2>1. PICK rows \in SUBSET Runnable(a) :
          /\ Oldest(rows, Runnable(a), budget)
          /\ \/ poll' = [poll EXCEPT ![a] = IdlePoll]
             \/ poll' = [poll EXCEPT ![a] = [IdlePoll EXCEPT !.pc = "mark", !.rows = rows]]
    BY <1>2 DEF PollList
  <2>2. UNCHANGED <<job, nextId>> /\ poll[a].pc = "list" /\ poll[a].inflight \in Nat
    BY <1>2, <1>0 DEF PollList, PollRec, db
  <2>3. \A b \in Agents : Dispatched(b)' = Dispatched(b)
    BY <2>2 DEF Dispatched
  <2>4. CASE poll' = [poll EXCEPT ![a] = IdlePoll]
    BY <2>2, <2>3, <2>4, <1>0 DEF CapInv, WithinCap, IdlePoll
  <2>5. CASE poll' = [poll EXCEPT ![a] = [IdlePoll EXCEPT !.pc = "mark", !.rows = rows]]
    <3>1. rows \subseteq JobIds /\ \A j \in rows : job[j].status = "queued" /\ job[j].agent = a
      BY DEF Runnable
    <3>2. \A j \in rows : j < nextId
      <4>1. \A j \in JobIds : j >= nextId => job[j].status = "none"
        BY DEF CapInv
      <4>2. nextId \in Nat /\ MaxJobs \in Nat
        BY RelayAssumption DEF TypeOK
      <4>3. \A j \in JobIds : j \in Nat
        BY <4>2 DEF JobIds
      <4>4. TAKE j \in rows
      <4>5. j \in JobIds /\ j \in Nat /\ job[j].status # "none"
        BY <3>1, <4>3
      <4>6. ~(j >= nextId)
        BY <4>1, <4>5
      <4> QED
        BY <4>2, <4>5, <4>6
    <3>3. load \in Nat
      BY CountType DEF LoadBackoff
    <3>4. Cardinality(rows) \in Nat /\ Cardinality(rows) <= budget
      BY <2>1, <3>1, CountType DEF Oldest
    <3>5. Cardinality(Dispatched(a)) <= poll[a].inflight
      BY <2>2 DEF CapInv
    <3>6. /\ budget \in Nat
          /\ poll[a].inflight <= DispatchCap => budget <= DispatchCap - poll[a].inflight
          /\ budget > 0 => poll[a].inflight < DispatchCap
      BY <2>2, <3>3, BudgetBounds
    <3>7. Cardinality(Dispatched(a)) + Cardinality(rows) <= DispatchCap
      <4>1. Cardinality(Dispatched(a)) <= DispatchCap
        BY DEF CapInv, WithinCap
      <4> HIDE DEF budget
      <4> QED
        BY <1>0, <2>2, <3>4, <3>5, <3>6, <4>1
    <3>8. Cardinality(Dispatched(a) \cup rows) <= DispatchCap
      <4>1. IsFiniteSet(Dispatched(a)) /\ IsFiniteSet(rows)
        BY <1>0, <3>1, CountType
      <4>2. Cardinality(Dispatched(a) \cup rows) =
              Cardinality(Dispatched(a)) + Cardinality(rows) - Cardinality(Dispatched(a) \cap rows)
        BY <4>1, FS_Union
      <4>3. Cardinality(Dispatched(a) \cap rows) \in Nat
        BY <1>0, CountType
      <4> QED
        BY <1>0, <3>4, <3>7, <4>2, <4>3
    <3>9. /\ poll'[a].pc = "mark" /\ poll'[a].rows = rows
          /\ \A b \in Agents \ {a} : poll'[b] = poll[b]
      BY <2>5, <1>0 DEF IdlePoll, PollRec
    <3>10. \A j \in JobIds : j >= nextId' => job'[j].status = "none"
      BY <2>2 DEF CapInv
    <3>11. \A b \in Agents :
             poll'[b].pc = "list" => Cardinality(Dispatched(b)') <= poll'[b].inflight
      <4>1. TAKE b \in Agents
      <4>2. CASE b = a
        BY <4>2, <3>9
      <4>3. CASE b # a
        BY <4>3, <3>9, <2>3 DEF CapInv
      <4> QED
        BY <4>2, <4>3
    <3>12. \A b \in Agents : poll'[b].pc = "mark" =>
             /\ \A j \in poll'[b].rows : j < nextId' /\ job'[j].agent = b
             /\ Cardinality(Dispatched(b)' \cup poll'[b].rows) <= DispatchCap
      <4>1. TAKE b \in Agents
      <4>2. CASE b = a
        BY <4>2, <2>2, <2>3, <3>1, <3>2, <3>8, <3>9
      <4>3. CASE b # a
        BY <4>3, <2>2, <2>3, <3>9 DEF CapInv
      <4> QED
        BY <4>2, <4>3
    <3>13. WithinCap'
      BY <2>3 DEF CapInv, WithinCap
    <3> QED
      BY <3>10, <3>11, <3>12, <3>13 DEF CapInv
  <2> QED
    BY <2>1, <2>4, <2>5
<1>3. CASE PollReply(a)
  <2>1. UNCHANGED <<job, nextId>> /\ poll' = [poll EXCEPT ![a] = IdlePoll]
    BY <1>3 DEF PollReply, db
  <2>2. \A b \in Agents : Dispatched(b)' = Dispatched(b)
    BY <2>1 DEF Dispatched
  <2> QED
    BY <2>1, <2>2, <1>0 DEF CapInv, WithinCap, IdlePoll
<1>4. ASSUME NEW j \in JobIds, MarkAgentJobDispatched(a, j) PROVE CapInv'
  <2>1. /\ poll[a].pc = "mark" /\ j \in poll[a].rows /\ UNCHANGED nextId
        /\ job[j] \in JobRow /\ job[j].agent = a /\ j < nextId
    BY <1>4 DEF MarkAgentJobDispatched, CapInv, TypeOK
  <2>2. /\ poll'[a].pc = "mark" /\ poll'[a].rows = poll[a].rows \ {j}
        /\ \A b \in Agents \ {a} : poll'[b] = poll[b]
    <3> DEFINE p == [poll[a] EXCEPT !.rows = poll[a].rows \ {j}, !.out = poll[a].out \cup {j}]
    <3>1. poll' = [poll EXCEPT ![a] = p]
      BY <1>4 DEF MarkAgentJobDispatched
    <3>2. p.pc = "mark" /\ p.rows = poll[a].rows \ {j}
      BY <1>0, <2>1 DEF PollRec
    <3> HIDE DEF p
    <3> QED
      BY <1>0, <3>1, <3>2
  <2>3. /\ \A k \in JobIds \ {j} : job'[k] = job[k]
        /\ job'[j].agent = a
        /\ job[j].status = "none" => job'[j].status = "none"
    <3>1. job' = job \/ (Exists(j) /\ job' = [job EXCEPT ![j] = Marked(job[j])])
      BY <1>4 DEF MarkAgentJobDispatched, Update
    <3>2. Marked(job[j]).agent = a
      BY <2>1 DEF Marked, JobRow
    <3>3. job \in [JobIds -> JobRow]
      BY DEF TypeOK
    <3>4. Exists(j) => job[j].status # "none"
      BY DEF Exists
    <3> QED
      BY <2>1, <3>1, <3>2, <3>3, <3>4
  <2>4. \A b \in Agents \ {a} : Dispatched(b)' = Dispatched(b)
    BY <2>1, <2>3 DEF Dispatched
  <2>5. Dispatched(a)' \subseteq Dispatched(a) \cup poll[a].rows
    BY <2>1, <2>3 DEF Dispatched
  <2>6. Dispatched(a) \cup poll[a].rows \subseteq JobIds
    BY <1>0 DEF PollRec
  <2>7. Cardinality(Dispatched(a) \cup poll[a].rows) <= DispatchCap
    BY <2>1 DEF CapInv
  <2>8. ASSUME NEW S, S \subseteq Dispatched(a) \cup poll[a].rows
        PROVE  Cardinality(S) <= DispatchCap
    <3>1. Cardinality(S) <= Cardinality(Dispatched(a) \cup poll[a].rows)
      BY <2>6, <2>8, CountMonotone
    <3>2. Cardinality(S) \in Nat /\ Cardinality(Dispatched(a) \cup poll[a].rows) \in Nat
      BY <2>6, <2>8, CountType
    <3> QED
      BY <3>1, <3>2, <2>7, <1>0
  <2>9. /\ Cardinality(Dispatched(a)') <= DispatchCap
        /\ Cardinality(Dispatched(a)' \cup poll'[a].rows) <= DispatchCap
    <3>1. Dispatched(a)' \cup poll'[a].rows \subseteq Dispatched(a) \cup poll[a].rows
      BY <2>2, <2>5
    <3> QED
      BY <2>5, <2>8, <3>1
  <2>10. \A b \in Agents : poll[b].rows \subseteq JobIds
    BY <1>0 DEF PollRec
  <2>11. ASSUME NEW b \in Agents, poll'[b].pc = "mark"
         PROVE  \A k \in poll'[b].rows : k < nextId' /\ job'[k].agent = b
    <3>1. poll[b].pc = "mark" /\ poll'[b].rows \subseteq poll[b].rows
      BY <2>11, <2>1, <2>2
    <3>2. \A k \in poll[b].rows : k < nextId /\ job[k].agent = b /\ k \in JobIds
      BY <3>1, <2>10 DEF CapInv
    <3> SUFFICES ASSUME NEW k \in poll[b].rows PROVE k < nextId' /\ job'[k].agent = b
      BY <3>1
    <3>3. CASE k = j
      BY <3>2, <3>3, <2>1, <2>3
    <3>4. CASE k # j
      BY <3>2, <3>4, <2>1, <2>3
    <3> QED
      BY <3>3, <3>4
  <2>12. \A k \in JobIds : k >= nextId' => job'[k].status = "none"
    BY <2>1, <2>3 DEF CapInv
  <2>13. ASSUME NEW b \in Agents
         PROVE  /\ poll'[b].pc = "list" => Cardinality(Dispatched(b)') <= poll'[b].inflight
                /\ poll'[b].pc = "mark" =>
                     Cardinality(Dispatched(b)' \cup poll'[b].rows) <= DispatchCap
                /\ Cardinality(Dispatched(b)') <= DispatchCap
    <3>1. CASE b = a
      BY <3>1, <2>2, <2>9
    <3>2. CASE b # a
      BY <3>2, <2>2, <2>4 DEF CapInv, WithinCap
    <3> QED
      BY <3>1, <3>2
  <2> QED
    BY <2>11, <2>12, <2>13 DEF CapInv, WithinCap
<1> QED
  BY <1>1, <1>2, <1>3, <1>4

(* Faults keep the cap invariant. *)
LEMMA FaultCap ==
  ASSUME TypeOK, TypeOK', CapInv, Loss \/ Drop
  PROVE  CapInv'
<1>1. ASSUME \A a \in Agents : poll'[a] = poll[a] \/ poll'[a] = IdlePoll,
             UNCHANGED <<job, nextId>>
      PROVE  CapInv'
  BY <1>1 DEF CapInv, WithinCap, Dispatched, IdlePoll
<1>2. ASSUME NEW a \in Agents, PollLost(a) PROVE CapInv'
  BY <1>1, <1>2 DEF PollLost, TypeOK, db
<1>3. ASSUME NEW a \in Agents, NEW j \in JobIds, PostLost(a, j) \/ ConnectionDrops(a, j)
      PROVE  CapInv'
  BY <1>3, UntouchedStep DEF PostLost, ConnectionDrops, db, api
<1>4. ASSUME NEW a \in Agents, AgentCrash(a) PROVE CapInv'
  BY <1>4, UntouchedStep DEF AgentCrash, db, api
<1>5. CASE ApiCrash
  BY <1>1, <1>5 DEF ApiCrash, db
<1>6. ASSUME NEW r \in results, WriteFails(r) PROVE CapInv'
  BY <1>6, UntouchedStep DEF WriteFails, db
<1> QED
  BY <1>2, <1>3, <1>4, <1>5, <1>6 DEF Loss, Drop

(* WithinCap is an invariant: for every cap, number of agents and schedule, no
   agent is ever handed more than agentDispatchCap jobs at once. *)
THEOREM CapRespected == Spec => []WithinCap
<1>1. Init => CapInv
  <2> SUFFICES ASSUME Init PROVE CapInv
    OBVIOUS
  <2>1. \A j \in JobIds : job[j].status = "none"
    BY DEF Init, NoJob, NewJob
  <2>2. \A a \in Agents : Dispatched(a) = {} /\ poll[a].pc = "idle"
    BY <2>1 DEF Dispatched, Init, IdlePoll
  <2>3. Cardinality({}) = 0
    BY FS_EmptySet
  <2> QED
    <3>1. 0 <= DispatchCap
      BY RelayAssumption
    <3> QED
      BY <2>1, <2>2, <2>3, <3>1 DEF CapInv, WithinCap
<1>2. TypeOK /\ TypeOK' /\ CapInv /\ [Next]_vars => CapInv'
  <2>1. TypeOK /\ CapInv /\ UNCHANGED vars => CapInv'
    BY UntouchedStep DEF vars, db, api
  <2> QED
    BY <2>1, QuietCap, DispatchCapInv, FaultCap DEF Next, Core
<1>3. CapInv => WithinCap
  BY DEF CapInv
<1> QED
  BY <1>1, <1>2, <1>3, TypeCorrect, PTL DEF Spec

-----------------------------------------------------------------------------
(* Finished collections.  A handler works on a copy of the row, and the device
   may be deleted, or other handlers may finish, before it completes the job.
   What links them: the copy names the row's device until that is NULL, and a
   handler about to report success has evidence for the device the row names. *)

Complete(row) == row.kind = "collect_os" /\ row.device # NoDevice => row.device \in evidence

EvidenceInv ==
  /\ \A j \in JobIds : j >= nextId => job[j].status = "none"
  /\ \A r \in results : r.pc # "read" =>
       /\ r.job < nextId /\ r.kind = job[r.job].kind
       /\ job[r.job].device \in {r.device, NoDevice}
  /\ \A r \in results : r.pc = "finish" /\ r.status = "done" => Complete(job[r.job])
  /\ \A j \in JobIds : job[j].status = "done" => Complete(job[j])

(* A step that advances no handler, keeps every row's kind and device and
   completes nothing keeps the link, provided no evidence is lost. *)
LEMMA KeepsEvidence ==
  ASSUME TypeOK, TypeOK', EvidenceInv, nextId <= nextId', evidence \subseteq evidence',
         \A r \in results' : r.pc # "read" => r \in results,
         \A j \in JobIds : j >= nextId' => job'[j].status = "none",
         \A j \in JobIds : j < nextId => job'[j].kind = job[j].kind /\ job'[j].device = job[j].device,
         \A j \in JobIds : job'[j].status = "done" =>
              job[j].status = "done" /\ job'[j].kind = job[j].kind /\ job'[j].device = job[j].device
  PROVE  EvidenceInv'
<1>1. \A r \in results : r \in ResultRec /\ r.job \in JobIds
  BY DEF TypeOK, ResultRec
<1>2. \A j \in JobIds : j < nextId => j < nextId'
  BY DEF TypeOK, JobIds
<1>3. \A r \in results' : r.pc # "read" =>
        /\ r.job < nextId' /\ r.kind = job'[r.job].kind
        /\ job'[r.job].device \in {r.device, NoDevice}
  BY <1>1, <1>2 DEF EvidenceInv
<1>4. \A r \in results' : r.pc = "finish" /\ r.status = "done" => Complete(job[r.job])'
  <2> SUFFICES ASSUME NEW r \in results', r.pc = "finish", r.status = "done"
               PROVE  Complete(job[r.job])'
    OBVIOUS
  <2>1. r.job \in JobIds /\ r.job < nextId /\ Complete(job[r.job])
    BY <1>1 DEF EvidenceInv
  <2> QED
    BY <2>1 DEF Complete
<1>5. \A j \in JobIds : job'[j].status = "done" => Complete(job[j])'
  BY DEF EvidenceInv, Complete
<1> QED
  BY <1>3, <1>4, <1>5 DEF EvidenceInv

(* Updating one row in place, without completing it or with evidence for its
   device at hand. *)
LEMMA UpdateKeepsEvidence ==
  ASSUME TypeOK, TypeOK', EvidenceInv, results' \subseteq results, UNCHANGED <<nextId, evidence>>,
         NEW j \in JobIds, NEW row, Update(j, row),
         row.kind = job[j].kind, row.device = job[j].device,
         row.status = "done" => Complete(job[j])
  PROVE  EvidenceInv'
<1>1. \A r \in results : r \in ResultRec /\ r.job \in JobIds
  BY DEF TypeOK, ResultRec
<1>2. \A k \in JobIds : /\ job'[k].kind = job[k].kind /\ job'[k].device = job[k].device
                        /\ k >= nextId => job'[k].status = "none"
                        /\ job'[k].status = "done" => job[k].status = "done" \/ k = j
  BY DEF Update, TypeOK, EvidenceInv, Exists
<1>3. \A k \in JobIds : Complete(job[k]) => Complete(job[k])'
  BY <1>2 DEF Complete
<1>4. \A k \in JobIds : job'[k].status = "done" => Complete(job[k])'
  <2> SUFFICES ASSUME NEW k \in JobIds, job'[k].status = "done" PROVE Complete(job[k])
    BY <1>3
  <2>1. CASE job[k].status = "done"
    BY <2>1 DEF EvidenceInv
  <2>2. CASE job[k].status # "done"
    <3>1. k = j /\ job' = [job EXCEPT ![j] = row]
      BY <1>2, <2>2 DEF Update
    <3>2. row.status = "done"
      BY <3>1 DEF TypeOK
    <3> QED
      BY <3>1, <3>2
  <2> QED
    BY <2>1, <2>2
<1>5. \A r \in results' : r.pc # "read" =>
        /\ r.job < nextId' /\ r.kind = job'[r.job].kind
        /\ job'[r.job].device \in {r.device, NoDevice}
  BY <1>1, <1>2 DEF EvidenceInv
<1>6. \A r \in results' : r.pc = "finish" /\ r.status = "done" => Complete(job[r.job])'
  BY <1>1, <1>3 DEF EvidenceInv
<1>7. \A k \in JobIds : k >= nextId' => job'[k].status = "none"
  BY <1>2
<1> QED
  BY <1>4, <1>5, <1>6, <1>7 DEF EvidenceInv

(* A step that leaves the rows alone, loses no evidence and advances no
   handler. *)
LEMMA UntouchedEvidence ==
  ASSUME TypeOK, TypeOK', EvidenceInv, UNCHANGED <<job, nextId>>, evidence \subseteq evidence',
         \A r \in results' : r.pc # "read" => r \in results
  PROVE  EvidenceInv'
<1>1. nextId <= nextId'
  BY DEF TypeOK
<1>2. \A j \in JobIds : j >= nextId' => job'[j].status = "none"
  BY DEF EvidenceInv
<1> QED
  BY <1>1, <1>2, KeepsEvidence

(* Inserting a row: it is queued, and no handler knows it yet. *)
LEMMA InsertEvidence ==
  ASSUME TypeOK, TypeOK', EvidenceInv, UNCHANGED <<results, evidence>>,
         nextId <= MaxJobs, nextId' = nextId + 1,
         NEW row, row.status = "queued", job' = [job EXCEPT ![nextId] = row]
  PROVE  EvidenceInv'
<1>1. nextId \in Nat /\ nextId' \in Nat /\ nextId \in JobIds
  BY RelayAssumption DEF TypeOK, JobIds
<1>2. \A k \in JobIds : k \in Nat
  BY DEF JobIds
<1>3. \A k \in JobIds : k # nextId => job'[k] = job[k]
  BY <1>1 DEF TypeOK
<1>4. job'[nextId].status # "done"
  BY <1>1 DEF TypeOK
<1>5. \A k \in JobIds : k < nextId => job'[k] = job[k]
  BY <1>1, <1>2, <1>3
<1>6. \A k \in JobIds : k >= nextId' => job'[k].status = "none"
  <2> SUFFICES ASSUME NEW k \in JobIds, k >= nextId' PROVE job'[k].status = "none"
    OBVIOUS
  <2>1. k >= nextId /\ k # nextId
    BY <1>1, <1>2
  <2> QED
    BY <2>1, <1>3 DEF EvidenceInv
<1>7. nextId <= nextId'
  BY <1>1
<1>8. \A k \in JobIds : job'[k].status = "done" => job'[k] = job[k]
  BY <1>3, <1>4
<1> QED
  BY <1>5, <1>6, <1>7, <1>8, KeepsEvidence

(* Routing, polling, time and the faults keep the link. *)
LEMMA QuietEvidence ==
  ASSUME TypeOK, TypeOK', EvidenceInv, Enqueue \/ Dispatch \/ Time \/ Loss \/ Drop
  PROVE  EvidenceInv'
<1>1. ASSUME NEW c \in Callers, CreateAgentJob(c) PROVE EvidenceInv'
  <2>1. CASE UNCHANGED <<job, nextId>>
    BY <1>1, <2>1, UntouchedEvidence DEF CreateAgentJob
  <2>2. CASE /\ job' = [job EXCEPT ![nextId] =
                   NewJob(route[c].agent, route[c].device, "collect_os", c = Sweep)]
             /\ nextId' = nextId + 1
    <3>1. NewJob(route[c].agent, route[c].device, "collect_os", c = Sweep).status = "queued"
      BY DEF NewJob
    <3> QED
      BY <1>1, <2>2, <3>1, InsertEvidence DEF CreateAgentJob
  <2> QED
    BY <1>1, <2>1, <2>2 DEF CreateAgentJob
<1>2. CASE Enqueue
  <2>1. ASSUME NEW c \in Routers, NEW d \in Devices, NEW a \in Agents, routeViaSiteAgent(c, d, a)
        PROVE  EvidenceInv'
    BY <2>1, UntouchedEvidence DEF routeViaSiteAgent, db
  <2>2. CASE SelfHealList
    BY <2>2, UntouchedEvidence DEF SelfHealList, db
  <2>3. ASSUME NEW d \in Devices, SelfHealRoute(d) PROVE EvidenceInv'
    BY <2>3, UntouchedEvidence DEF SelfHealRoute, db
  <2> QED
    BY <1>1, <1>2, <2>1, <2>2, <2>3 DEF Enqueue
<1>3. CASE Dispatch
  <2> PICK a \in Agents : \/ PollCount(a) \/ PollList(a) \/ PollReply(a)
                          \/ \E j \in JobIds : MarkAgentJobDispatched(a, j)
    BY <1>3 DEF Dispatch
  <2>1. CASE PollCount(a) \/ PollList(a) \/ PollReply(a)
    BY <2>1, UntouchedEvidence DEF PollCount, PollList, PollReply, db
  <2>2. ASSUME NEW j \in JobIds, MarkAgentJobDispatched(a, j) PROVE EvidenceInv'
    <3>1. job[j] \in JobRow
      BY DEF TypeOK
    <3>2. /\ Marked(job[j]).kind = job[j].kind /\ Marked(job[j]).device = job[j].device
          /\ Marked(job[j]).status # "done"
      BY <3>1 DEF Marked, JobRow
    <3> QED
      BY <2>2, <3>2, UpdateKeepsEvidence DEF MarkAgentJobDispatched
  <2> QED
    BY <2>1, <2>2
<1>4. CASE Time
  <2> PICK j \in JobIds : \/ RequeueStaleAgentJobs(j)
                         \/ BackoffElapses(j) \/ CooldownElapses(j)
    BY <1>4 DEF Time
  <2>0. job[j] \in JobRow
    BY DEF TypeOK
  <2>1. CASE RequeueStaleAgentJobs(j)
    <3>1. /\ Reaped(job[j]).kind = job[j].kind /\ Reaped(job[j]).device = job[j].device
          /\ Reaped(job[j]).status # "done"
      BY <2>0 DEF Reaped, JobRow
    <3> QED
      BY <2>1, <3>1, UpdateKeepsEvidence DEF RequeueStaleAgentJobs, api
  <2>2. CASE BackoffElapses(j) \/ CooldownElapses(j)
    <3>1. \A k \in JobIds : /\ job'[k].kind = job[k].kind /\ job'[k].device = job[k].device
                            /\ job'[k].status = job[k].status
      BY <2>2, <2>0 DEF BackoffElapses, CooldownElapses, TypeOK, JobRow
    <3>2. UNCHANGED <<results, nextId, evidence>>
      BY <2>2 DEF BackoffElapses, CooldownElapses, api
    <3>3. nextId <= nextId'
      BY <3>2 DEF TypeOK
    <3>4. \A k \in JobIds : k >= nextId' => job'[k].status = "none"
      BY <3>1, <3>2 DEF EvidenceInv
    <3> QED
      BY <3>1, <3>2, <3>3, <3>4, KeepsEvidence
  <2> QED
    BY <2>1, <2>2
<1>5. ASSUME NEW a \in Agents, PollLost(a) \/ AgentCrash(a) PROVE EvidenceInv'
  BY <1>5, UntouchedEvidence DEF PollLost, AgentCrash, db, api
<1>6. ASSUME NEW a \in Agents, NEW j \in JobIds, PostLost(a, j) \/ ConnectionDrops(a, j)
      PROVE  EvidenceInv'
  BY <1>6, UntouchedEvidence DEF PostLost, ConnectionDrops, db, api
<1>7. CASE ApiCrash
  BY <1>7, UntouchedEvidence DEF ApiCrash, db
<1>8. ASSUME NEW r \in results, WriteFails(r) PROVE EvidenceInv'
  BY <1>8, UntouchedEvidence DEF WriteFails, db
<1> QED
  BY <1>2, <1>3, <1>4, <1>5, <1>6, <1>7, <1>8 DEF Loss, Drop

(* The report: reading the row starts the copy, Persist makes the evidence of
   a success, and the completion moves that success to the row. *)
LEMMA ReportEvidence ==
  ASSUME TypeOK, TypeOK', EvidenceInv, Collect \/ Report
  PROVE  EvidenceInv'
<1>1. CASE Collect
  <2> PICK a \in Agents, j \in JobIds, o \in Outcomes : runJob(a, j, o[1], o[2])
    BY <1>1 DEF Collect
  <2>1. UNCHANGED <<job, nextId, evidence>> /\ \A r \in results' : r.pc # "read" => r \in results
    BY DEF runJob, db
  <2> QED
    BY <2>1, UntouchedEvidence
<1>2. CASE Report
  <2> PICK r \in results : \/ GetAgentJob(r) \/ Persist(r)
                          \/ RequeueAgentJob(r) \/ CompleteAgentJob(r)
    BY <1>2 DEF Report
  <2>1. /\ r \in ResultRec /\ r.job \in JobIds /\ job[r.job] \in JobRow
        /\ \A q \in results : q.job \in JobIds
    BY DEF TypeOK, ResultRec
  <2>2. ASSUME NEW r1 \in ResultRec, results' = (results \ {r}) \cup {r1},
               UNCHANGED <<job, nextId>>, evidence \subseteq evidence', r1.job = r.job,
               r1.job < nextId, r1.kind = job[r1.job].kind,
               job[r1.job].device \in {r1.device, NoDevice},
               r1.pc = "finish" /\ r1.status = "done" => Complete(job[r1.job])'
        PROVE  EvidenceInv'
    <3>1. \A k \in JobIds : Complete(job[k]) => Complete(job[k])'
      BY <2>2 DEF Complete
    <3>2. \A q \in results' : q.pc # "read" =>
            /\ q.job < nextId' /\ q.kind = job'[q.job].kind
            /\ job'[q.job].device \in {q.device, NoDevice}
      BY <2>2 DEF EvidenceInv
    <3>3. \A q \in results' : q.pc = "finish" /\ q.status = "done" => Complete(job[q.job])'
      BY <2>1, <2>2, <3>1 DEF EvidenceInv
    <3>4. \A k \in JobIds : job'[k].status = "done" => Complete(job[k])'
      BY <2>2, <3>1 DEF EvidenceInv
    <3>5. \A k \in JobIds : k >= nextId' => job'[k].status = "none"
      BY <2>2 DEF EvidenceInv
    <3> QED
      BY <3>2, <3>3, <3>4, <3>5 DEF EvidenceInv
  <2>3. CASE GetAgentJob(r)
    <3>1. UNCHANGED <<job, nextId, evidence>>
      BY <2>3 DEF GetAgentJob, db
    <3>2. CASE results' = results \ {r}
      BY <3>1, <3>2, UntouchedEvidence
    <3>3. CASE Exists(r.job) /\ results' = (results \ {r}) \cup {Read(r)}
      <4>0. PICK r1 \in ResultRec : r1 = Read(r)
        BY <2>1 DEF Read, ResultRec, JobRow
      <4>1. /\ r1.job = r.job /\ r1.kind = job[r.job].kind /\ r1.device = job[r.job].device
            /\ r1.pc = "finish" /\ r1.status = "done" =>
                 job[r.job].kind # "collect_os" \/ job[r.job].device = NoDevice
        BY <4>0, <2>1 DEF Read, ResultRec, JobRow
      <4>2. r.job < nextId
        <5>1. ~(r.job >= nextId)
          BY <3>3, <2>1 DEF EvidenceInv, Exists
        <5> QED
          BY <5>1, <2>1 DEF TypeOK, JobIds
      <4>3. r1.pc = "finish" /\ r1.status = "done" => Complete(job[r1.job])'
        BY <4>1, <3>1 DEF Complete
      <4> QED
        BY <2>2, <3>1, <3>3, <4>0, <4>1, <4>2, <4>3
    <3> QED
      BY <2>3, <3>2, <3>3 DEF GetAgentJob
  <2>4. CASE Persist(r)
    <3>0. /\ UNCHANGED <<job, nextId>> /\ r.pc = "persist" /\ evidence \subseteq evidence'
          /\ r.job < nextId /\ r.kind = job[r.job].kind
          /\ job[r.job].device \in {r.device, NoDevice}
      BY <2>4 DEF Persist, EvidenceInv
    <3>1. /\ [r EXCEPT !.pc = "finish"] \in ResultRec
          /\ [r EXCEPT !.pc = "finish", !.status = "failed"] \in ResultRec
      BY <2>1 DEF ResultRec
    <3>2. CASE results' = (results \ {r}) \cup {[r EXCEPT !.pc = "finish", !.status = "failed"]}
      <4> DEFINE r1 == [r EXCEPT !.pc = "finish", !.status = "failed"]
      <4>1. /\ r1.job = r.job /\ r1.kind = r.kind /\ r1.device = r.device
            /\ r1.status # "done"
        BY <2>1 DEF ResultRec
      <4>2. r1 \in ResultRec /\ results' = (results \ {r}) \cup {r1}
        BY <3>1, <3>2
      <4> HIDE DEF r1
      <4> QED
        BY <2>2, <3>0, <4>1, <4>2
    <3>3. CASE /\ evidence' = evidence \cup {r.device}
               /\ results' = (results \ {r}) \cup {[r EXCEPT !.pc = "finish"]}
      <4> DEFINE r1 == [r EXCEPT !.pc = "finish"]
      <4>1. r1.job = r.job /\ r1.kind = r.kind /\ r1.device = r.device
        BY <2>1 DEF ResultRec
      <4>2. r1 \in ResultRec /\ results' = (results \ {r}) \cup {r1}
        BY <3>1, <3>3
      <4> HIDE DEF r1
      <4>3. Complete(job[r1.job])'
        BY <3>0, <3>3, <4>1 DEF Complete
      <4> QED
        BY <2>2, <3>0, <4>1, <4>2, <4>3
    <3> QED
      BY <2>4, <3>2, <3>3 DEF Persist
  <2>5. CASE RequeueAgentJob(r)
    <3>1. /\ Requeued(job[r.job], r.category).kind = job[r.job].kind
          /\ Requeued(job[r.job], r.category).device = job[r.job].device
          /\ Requeued(job[r.job], r.category).status # "done"
      BY <2>1 DEF Requeued, JobRow
    <3>2. results' \subseteq results
      BY <2>5 DEF RequeueAgentJob
    <3> QED
      BY <2>5, <2>1, <3>1, <3>2, UpdateKeepsEvidence DEF RequeueAgentJob
  <2>6. CASE CompleteAgentJob(r)
    <3>1. /\ Completed(job[r.job], r.status, r.category).kind = job[r.job].kind
          /\ Completed(job[r.job], r.status, r.category).device = job[r.job].device
          /\ Completed(job[r.job], r.status, r.category).status = r.status
      BY <2>1 DEF Completed, JobRow
    <3>2. results' \subseteq results
      BY <2>6 DEF CompleteAgentJob
    <3>3. r.status = "done" => Complete(job[r.job])
      BY <2>6 DEF CompleteAgentJob, EvidenceInv
    <3> QED
      BY <2>6, <2>1, <3>1, <3>2, <3>3, UpdateKeepsEvidence DEF CompleteAgentJob
  <2> QED
    BY <2>3, <2>4, <2>5, <2>6
<1> QED
  BY <1>1, <1>2

(* The operator: deleting a device takes its evidence and its name from every
   row, and deleting an agent takes its rows. *)
LEMMA OperatorEvidence ==
  ASSUME TypeOK, TypeOK', EvidenceInv, Operator
  PROVE  EvidenceInv'
<1>1. ASSUME NEW a \in Agents, enqueueAgentTest(a) PROVE EvidenceInv'
  <2>1. NewJob(a, NoDevice, "test", FALSE).status = "queued"
    BY DEF NewJob
  <2> QED
    BY <1>1, <2>1, InsertEvidence DEF enqueueAgentTest, api
<1>2. ASSUME NEW a \in Agents, patchRelayAgent(a) PROVE EvidenceInv'
  BY <1>2, UntouchedEvidence DEF patchRelayAgent, api
<1>3. ASSUME NEW d \in Devices, DirectCollect(d) PROVE EvidenceInv'
  BY <1>3, UntouchedEvidence DEF DirectCollect, api
<1>4. ASSUME NEW a \in Agents, deleteRelayAgent(a) PROVE EvidenceInv'
  <2>1. \A k \in JobIds : \/ job'[k] = job[k]
                          \/ Exists(k) /\ job'[k] = [job[k] EXCEPT !.status = "deleted"]
    BY <1>4 DEF deleteRelayAgent
  <2>2. \A k \in JobIds : job[k] \in JobRow
    BY DEF TypeOK
  <2>3. \A k \in JobIds : /\ job'[k].kind = job[k].kind /\ job'[k].device = job[k].device
                          /\ \/ job'[k].status = job[k].status
                             \/ Exists(k) /\ job'[k].status = "deleted"
    BY <2>1, <2>2 DEF JobRow
  <2>4. UNCHANGED <<results, nextId, evidence>>
    BY <1>4 DEF deleteRelayAgent, api
  <2>5. nextId <= nextId'
    BY <2>4 DEF TypeOK
  <2>6. \A k \in JobIds : k >= nextId' => job'[k].status = "none"
    BY <2>3, <2>4 DEF EvidenceInv, Exists
  <2> QED
    BY <2>3, <2>4, <2>5, <2>6, KeepsEvidence
<1>5. ASSUME NEW d \in Devices, deleteDevice(d) PROVE EvidenceInv'
  <2>1. \A k \in JobIds :
          \/ job[k].device # d /\ job'[k] = job[k]
          \/ job[k].device = d /\ job'[k] = [job[k] EXCEPT !.device = NoDevice]
    BY <1>5 DEF deleteDevice
  <2>2. \A k \in JobIds : job[k] \in JobRow
    BY DEF TypeOK
  <2>3. \A k \in JobIds : /\ job'[k].kind = job[k].kind /\ job'[k].status = job[k].status
                          /\ \/ job[k].device # d /\ job'[k].device = job[k].device
                             \/ job'[k].device = NoDevice
    BY <2>1, <2>2 DEF JobRow
  <2>4. UNCHANGED <<results, nextId>> /\ evidence' = evidence \ {d}
    BY <1>5 DEF deleteDevice, api
  <2>5. \A k \in JobIds : Complete(job[k]) => Complete(job[k])'
    BY <2>3, <2>4 DEF Complete
  <2>6. \A r \in results : r.job \in JobIds
    BY DEF TypeOK, ResultRec
  <2>7. \A r \in results' : r.pc # "read" =>
          /\ r.job < nextId' /\ r.kind = job'[r.job].kind
          /\ job'[r.job].device \in {r.device, NoDevice}
    BY <2>3, <2>4, <2>6 DEF EvidenceInv
  <2>8. \A r \in results' : r.pc = "finish" /\ r.status = "done" => Complete(job[r.job])'
    BY <2>4, <2>5, <2>6 DEF EvidenceInv
  <2>9. \A k \in JobIds : /\ job'[k].status = "done" => Complete(job[k])'
                          /\ k >= nextId' => job'[k].status = "none"
    BY <2>3, <2>4, <2>5 DEF EvidenceInv
  <2> QED
    BY <2>7, <2>8, <2>9 DEF EvidenceInv
<1> QED
  BY <1>1, <1>2, <1>3, <1>4, <1>5 DEF Operator

(* The link holds throughout. *)
LEMMA EvidenceKept == Spec => []EvidenceInv
<1>1. Init => EvidenceInv
  <2> SUFFICES ASSUME Init PROVE EvidenceInv
    OBVIOUS
  <2>1. \A j \in JobIds : job[j].status = "none"
    BY DEF Init, NoJob, NewJob
  <2>2. results = {}
    BY DEF Init
  <2> QED
    BY <2>1, <2>2 DEF EvidenceInv
<1>2. TypeOK /\ TypeOK' /\ EvidenceInv /\ [Next]_vars => EvidenceInv'
  <2>1. TypeOK /\ TypeOK' /\ EvidenceInv /\ UNCHANGED vars => EvidenceInv'
    BY UntouchedEvidence DEF vars, db, api
  <2> QED
    BY <2>1, QuietEvidence, ReportEvidence, OperatorEvidence DEF Next, Core
<1> QED
  BY <1>1, <1>2, TypeCorrect, PTL DEF Spec

(* DoneHasEvidence is an invariant: for every number of agents, devices, rows
   and faults, a collection closed as done has its inventory stored. *)
THEOREM DoneCollected == Spec => []DoneHasEvidence
<1>1. EvidenceInv => DoneHasEvidence
  BY DEF EvidenceInv, DoneHasEvidence, Complete
<1> QED
  BY <1>1, EvidenceKept, PTL

-----------------------------------------------------------------------------
(* What a step does to a row that is there: it never changes hands, kind or
   origin, loses its device only to a deletion of the device, and itself only
   to a deletion of its agent. *)
Kept(j) ==
  /\ job'[j].agent = job[j].agent /\ job'[j].kind = job[j].kind
  /\ job'[j].healed = job[j].healed
  /\ job'[j].device \in {job[j].device, NoDevice}
  /\ job[j].device \in exists =>
       job'[j].device = IF job[j].device \in exists' THEN job[j].device ELSE NoDevice
  /\ Exists(j)' <=> Exists(j) /\ job'[j].status # "deleted"
  /\ job'[j].status = "deleted" => job[j].status = "deleted" \/ agent'[job[j].agent] = "deleted"

(* And what an insert adds: a queued row at the end, healed only when the sweep
   inserts the device it has routed. *)
Inserts ==
  \E a \in Agents, d \in exists \cup {NoDevice}, k \in {"collect_os", "test"}, h \in BOOLEAN :
    /\ nextId <= MaxJobs /\ nextId' = nextId + 1
    /\ job' = [job EXCEPT ![nextId] = NewJob(a, d, k, h)]
    /\ UNCHANGED <<agent, exists, evidence, poll, results, sweep, running, posting>>
    /\ h => k = "collect_os" /\ route[Sweep].pc = "create" /\ d = route[Sweep].device
    /\ route'[Sweep] = route[Sweep] \/ route'[Sweep].pc = "idle"
    /\ h => route'[Sweep].pc = "idle"

(* Rewriting one row in place keeps it. *)
LEMMA UpdateKept ==
  ASSUME TypeOK, UNCHANGED exists, NEW j \in JobIds, NEW row \in JobRow, Update(j, row),
         row.agent = job[j].agent, row.kind = job[j].kind, row.healed = job[j].healed,
         row.device = job[j].device, row.status \notin {"none", "deleted"}
  PROVE  \A k \in JobIds : Kept(k)
<1> SUFFICES ASSUME NEW k \in JobIds PROVE Kept(k)
  OBVIOUS
<1>1. CASE Exists(j) /\ k = j
  <2>1. job'[k] = row
    BY <1>1 DEF Update, TypeOK
  <2> QED
    BY <1>1, <2>1 DEF Kept, Exists
<1>2. CASE ~(Exists(j) /\ k = j)
  <2>1. job'[k] = job[k]
    BY <1>2 DEF Update, TypeOK
  <2> QED
    BY <2>1 DEF Kept, Exists
<1> QED
  BY <1>1, <1>2

(* So does a step that leaves the rows alone. *)
LEMMA UntouchedKept ==
  ASSUME UNCHANGED <<job, exists>>
  PROVE  \A k \in JobIds : Kept(k)
BY DEF Kept, Exists

(* The four UPDATE statements keep agent, kind, origin and device. *)
LEMMA StatementsKeep ==
  ASSUME NEW row \in JobRow, NEW st \in {"done", "failed"}, NEW cat \in Categories,
         NEW s \in {Marked(row), Requeued(row, cat), Completed(row, st, cat), Reaped(row)}
  PROVE  /\ s \in JobRow /\ s.agent = row.agent /\ s.kind = row.kind
         /\ s.healed = row.healed /\ s.device = row.device
         /\ s.status \in {"queued", "dispatched", "done", "failed"}
<1>1. s \in JobRow
  BY RowUpdates
<1>2. CASE s = Marked(row)
  BY <1>1, <1>2 DEF Marked, JobRow
<1>3. CASE s = Requeued(row, cat)
  BY <1>1, <1>3 DEF Requeued, JobRow
<1>4. CASE s = Completed(row, st, cat)
  BY <1>1, <1>4 DEF Completed, JobRow
<1>5. CASE s = Reaped(row)
  BY <1>1, <1>5 DEF Reaped, JobRow
<1> QED
  BY <1>2, <1>3, <1>4, <1>5

(* Every step keeps all rows or inserts one. *)
LEMMA RowHistory ==
  ASSUME TypeOK, Next
  PROVE  (nextId' = nextId /\ \A k \in JobIds : Kept(k)) \/ Inserts
<1> USE DEF db, api, site
<1>0. ASSUME NEW j \in JobIds, NEW st \in {"done", "failed"}, NEW cat \in Categories,
             NEW s \in {Marked(job[j]), Requeued(job[j], cat), Completed(job[j], st, cat),
                        Reaped(job[j])}, Update(j, s), UNCHANGED exists
      PROVE  \A k \in JobIds : Kept(k)
  <2>1. job[j] \in JobRow
    BY DEF TypeOK
  <2>2. /\ s \in JobRow /\ s.agent = job[j].agent /\ s.kind = job[j].kind
        /\ s.healed = job[j].healed /\ s.device = job[j].device
        /\ s.status \in {"queued", "dispatched", "done", "failed"}
    BY <2>1, <1>0, StatementsKeep
  <2> QED
    BY <2>2, <1>0, UpdateKept
<1>1. CASE Enqueue
  <2>1. CASE UNCHANGED <<job, nextId>>
    <3>1. UNCHANGED exists
      BY <1>1 DEF Enqueue, routeViaSiteAgent, CreateAgentJob, SelfHealList, SelfHealRoute
    <3> QED
      BY <2>1, <3>1, UntouchedKept
  <2>2. CASE ~UNCHANGED <<job, nextId>>
    <3>1. PICK c \in Callers : CreateAgentJob(c)
      BY <1>1, <2>2 DEF Enqueue, routeViaSiteAgent, SelfHealList, SelfHealRoute
    <3>2. /\ route[c].pc = "create" /\ route[c].device \in exists /\ route[c].agent \in Agents
          /\ job' = [job EXCEPT ![nextId] =
                       NewJob(route[c].agent, route[c].device, "collect_os", c = Sweep)]
          /\ nextId <= MaxJobs /\ nextId' = nextId + 1
          /\ route' = [route EXCEPT ![c] = IdleRoute]
      BY <2>2, <3>1 DEF CreateAgentJob, TypeOK, RouteRec
    <3>3. (c = Sweep) \in BOOLEAN /\ Sweep \in Callers
      BY DEF Callers
    <3>4. route'[Sweep] = route[Sweep] \/ route'[Sweep].pc = "idle"
      BY <3>2, <3>3 DEF IdleRoute, TypeOK
    <3>5. c = Sweep => route'[Sweep].pc = "idle"
      BY <3>2, <3>3 DEF IdleRoute, TypeOK
    <3>6. UNCHANGED <<agent, exists, evidence, poll, results, sweep, running, posting>>
      BY <3>1 DEF CreateAgentJob
    <3> HIDE DEF db, api, site
    <3> QED
      BY <3>2, <3>3, <3>4, <3>5, <3>6 DEF Inserts
  <2> QED
    BY <2>1, <2>2
<1>2. CASE Dispatch
  <2> PICK a \in Agents : \/ PollCount(a) \/ PollList(a) \/ PollReply(a)
                          \/ \E j \in JobIds : MarkAgentJobDispatched(a, j)
    BY <1>2 DEF Dispatch
  <2>1. CASE PollCount(a) \/ PollList(a) \/ PollReply(a)
    BY <2>1, UntouchedKept DEF PollCount, PollList, PollReply
  <2>2. ASSUME NEW j \in JobIds, MarkAgentJobDispatched(a, j)
        PROVE  nextId' = nextId /\ \A k \in JobIds : Kept(k)
    <3>1. Update(j, Marked(job[j])) /\ UNCHANGED <<nextId, exists>>
      BY <2>2 DEF MarkAgentJobDispatched
    <3> QED
      BY <3>1, <1>0 DEF Categories
  <2> QED
    BY <2>1, <2>2
<1>3. CASE Collect
  BY <1>3, UntouchedKept DEF Collect, runJob
<1>4. CASE Report
  <2> PICK r \in results : \/ GetAgentJob(r) \/ Persist(r)
                           \/ RequeueAgentJob(r) \/ CompleteAgentJob(r)
    BY <1>4 DEF Report
  <2>1. CASE GetAgentJob(r) \/ Persist(r)
    BY <2>1, UntouchedKept DEF GetAgentJob, Persist
  <2>2. r.job \in JobIds /\ r.status \in {"done", "failed"} /\ r.category \in Categories
    BY DEF TypeOK, ResultRec
  <2>3. CASE RequeueAgentJob(r)
    <3>1. Update(r.job, Requeued(job[r.job], r.category)) /\ UNCHANGED <<nextId, exists>>
      BY <2>3 DEF RequeueAgentJob
    <3> QED
      BY <3>1, <2>2, <1>0
  <2>4. CASE CompleteAgentJob(r)
    <3>1. Update(r.job, Completed(job[r.job], r.status, r.category)) /\ UNCHANGED <<nextId, exists>>
      BY <2>4 DEF CompleteAgentJob
    <3> QED
      BY <3>1, <2>2, <1>0
  <2> QED
    BY <2>1, <2>3, <2>4
<1>5. CASE Time
  <2> PICK j \in JobIds : \/ RequeueStaleAgentJobs(j)
                         \/ BackoffElapses(j) \/ CooldownElapses(j)
    BY <1>5 DEF Time
  <2>1. CASE RequeueStaleAgentJobs(j)
    <3>1. Update(j, Reaped(job[j])) /\ UNCHANGED <<nextId, exists>>
      BY <2>1 DEF RequeueStaleAgentJobs
    <3> QED
      BY <3>1, <1>0 DEF Categories
  <2>2. CASE BackoffElapses(j) \/ CooldownElapses(j)
    <3>1. job[j] \in JobRow
      BY DEF TypeOK
    <3>2. \A k \in JobIds : /\ job'[k].agent = job[k].agent /\ job'[k].kind = job[k].kind
                            /\ job'[k].healed = job[k].healed
                            /\ job'[k].device = job[k].device
                            /\ job'[k].status = job[k].status
      BY <2>2, <3>1 DEF BackoffElapses, CooldownElapses, TypeOK, JobRow
    <3> QED
      BY <2>2, <3>2 DEF Kept, Exists, BackoffElapses, CooldownElapses
  <2> QED
    BY <2>1, <2>2
<1>6. CASE Operator
  <2>1. ASSUME NEW a \in Agents, enqueueAgentTest(a) PROVE Inserts
    <3>1. /\ nextId <= MaxJobs /\ nextId' = nextId + 1
          /\ job' = [job EXCEPT ![nextId] = NewJob(a, NoDevice, "test", FALSE)]
          /\ UNCHANGED <<agent, exists, evidence, poll, results, sweep, running, posting, route>>
      BY <2>1 DEF enqueueAgentTest
    <3> HIDE DEF db, api, site
    <3> QED
      BY <3>1 DEF Inserts
  <2>2. ASSUME NEW a \in Agents, patchRelayAgent(a)
        PROVE  nextId' = nextId /\ \A k \in JobIds : Kept(k)
    BY <2>2, UntouchedKept DEF patchRelayAgent
  <2>3. ASSUME NEW a \in Agents, deleteRelayAgent(a)
        PROVE  nextId' = nextId /\ \A k \in JobIds : Kept(k)
    <3>1. \A k \in JobIds : job[k] \in JobRow
      BY DEF TypeOK
    <3>2. agent'[a] = "deleted" /\ exists' = exists
      BY <2>3 DEF deleteRelayAgent, TypeOK
    <3>3. ASSUME NEW k \in JobIds PROVE Kept(k)
      <4>1. CASE job[k].agent = a /\ Exists(k)
        <5>1. job'[k] = [job[k] EXCEPT !.status = "deleted"]
          BY <2>3, <4>1 DEF deleteRelayAgent
        <5> QED
          BY <5>1, <4>1, <3>1, <3>2 DEF Kept, Exists, JobRow
      <4>2. CASE ~(job[k].agent = a /\ Exists(k))
        <5>1. job'[k] = job[k]
          BY <2>3, <4>2 DEF deleteRelayAgent
        <5> QED
          BY <5>1, <3>2 DEF Kept, Exists
      <4> QED
        BY <4>1, <4>2
    <3> QED
      BY <2>3, <3>3 DEF deleteRelayAgent
  <2>4. ASSUME NEW d \in Devices, deleteDevice(d)
        PROVE  nextId' = nextId /\ \A k \in JobIds : Kept(k)
    <3>1. \A k \in JobIds : job[k] \in JobRow
      BY DEF TypeOK
    <3>2. ASSUME NEW k \in JobIds PROVE Kept(k)
      <4>1. CASE job[k].device = d
        <5>1. job'[k] = [job[k] EXCEPT !.device = NoDevice] /\ d \notin exists'
          BY <2>4, <4>1 DEF deleteDevice
        <5> QED
          BY <5>1, <4>1, <3>1 DEF Kept, Exists, JobRow
      <4>2. CASE job[k].device # d
        <5>1. job'[k] = job[k] /\ (job[k].device \in exists => job[k].device \in exists')
          BY <2>4, <4>2 DEF deleteDevice
        <5> QED
          BY <5>1 DEF Kept, Exists
      <4> QED
        BY <4>1, <4>2
    <3> QED
      BY <2>4, <3>2 DEF deleteDevice
  <2>5. ASSUME NEW d \in Devices, DirectCollect(d)
        PROVE  nextId' = nextId /\ \A k \in JobIds : Kept(k)
    BY <2>5, UntouchedKept DEF DirectCollect
  <2> QED
    BY <1>6, <2>1, <2>2, <2>3, <2>4, <2>5 DEF Operator
<1>7. CASE Loss \/ Drop
  BY <1>7, UntouchedKept DEF Loss, Drop, PollLost, AgentCrash, PostLost, WriteFails, ApiCrash,
                             ConnectionDrops
<1> QED
  BY <1>1, <1>2, <1>3, <1>4, <1>5, <1>6, <1>7 DEF Next, Core

-----------------------------------------------------------------------------
(* Self-heal.  The sweep decides on a list that is stale when it acts.  What
   carries the bound: whoever is on the list, or being routed by the sweep, had
   room for one collection more when it was listed, only the sweep takes that
   room, and it takes each candidate once.  The strict bound needs the failure
   that made the device a candidate, a row the sweep did not insert; it is there
   as long as no agent, and so no row, has been deleted. *)
NoneDeleted == \A a \in Agents : agent[a] # "deleted"
Original(d) == \E j \in JobIds : /\ Exists(j) /\ job[j].device = d
                                 /\ job[j].kind = "collect_os" /\ ~job[j].healed
Room(d) == /\ Cardinality(Healed(d)) + 1 <= MaxRounds
           /\ NoneDeleted => /\ Cardinality(Healed(d)) + 1 < MaxRounds
                             /\ d \in exists => Original(d)

\* A row names a device that is there, and what the sweep inserts is a collection.
SoundRow(row) == /\ row.device \in exists \cup {NoDevice}
                 /\ row.healed => row.kind = "collect_os"

HealInv ==
  /\ \A j \in JobIds : SoundRow(job[j])
  /\ \A d \in Devices : NoneDeleted /\ Healed(d) # {} => Original(d)
  /\ \A d \in sweep : Room(d)
  /\ route[Sweep].pc = "create" => /\ route[Sweep].device \in Devices \ sweep
                                   /\ Room(route[Sweep].device)
  /\ SelfHealBounded


(* Steps that keep every row and put nobody on the sweep's list. *)
LEMMA HealQuiet ==
  ASSUME TypeOK, HealInv, \A k \in JobIds : Kept(k), sweep' \subseteq sweep,
         route'[Sweep] = route[Sweep] \/ route'[Sweep].pc = "idle",
         exists' \subseteq exists, \A a \in Agents : agent[a] = "deleted" => agent'[a] = "deleted"
  PROVE  HealInv'
<1>1. \A k \in JobIds : job[k] \in JobRow /\ job[k].agent \in Agents
  BY DEF TypeOK, JobRow
<1>2. NoDevice \notin Devices /\ exists \subseteq Devices /\ sweep \subseteq Devices
  BY RelayAssumption DEF TypeOK
<1>3. NoneDeleted' => NoneDeleted
  BY DEF NoneDeleted
<1>4. ASSUME NEW k \in JobIds
      PROVE  /\ job'[k].device \in exists' \cup {NoDevice}
             /\ job'[k].healed => job'[k].kind = "collect_os"
  <2>0. SoundRow(job[k])
    BY DEF HealInv
  <2>1. job[k].device \in exists \cup {NoDevice} /\ (job[k].healed => job[k].kind = "collect_os")
    BY <2>0 DEF SoundRow
  <2>2. Kept(k)
    OBVIOUS
  <2>3. job'[k].device \in exists' \cup {NoDevice}
    BY <2>1, <2>2 DEF Kept
  <2>4. job'[k].healed => job'[k].kind = "collect_os"
    BY <2>1, <2>2 DEF Kept
  <2> QED
    BY <2>3, <2>4
<1>5. ASSUME NEW d \in Devices PROVE Healed(d)' \subseteq Healed(d)
  BY <1>2 DEF Healed, Kept
<1>6. ASSUME NEW d \in Devices PROVE Cardinality(Healed(d)') <= Cardinality(Healed(d))
  <2>1. Healed(d) \subseteq JobIds
    BY DEF Healed
  <2> QED
    BY <2>1, <1>5, CountMonotone
<1>7. ASSUME NEW d \in Devices, NoneDeleted', d \in exists', Original(d) PROVE Original(d)'
  <2>1. PICK k \in JobIds : /\ Exists(k) /\ job[k].device = d
                            /\ job[k].kind = "collect_os" /\ ~job[k].healed
    BY <1>7 DEF Original
  <2>2. Kept(k) /\ agent'[job[k].agent] # "deleted" /\ d \in exists
    BY <1>1, <1>7 DEF NoneDeleted
  <2>3. Exists(k)' /\ job'[k].device = d
    BY <1>7, <2>1, <2>2 DEF Kept, Exists
  <2> QED
    BY <2>1, <2>2, <2>3 DEF Original, Kept
<1>8. ASSUME NEW d \in Devices PROVE Room(d) => Room(d)'
  <2>1. Cardinality(Healed(d)) \in Nat /\ Cardinality(Healed(d)') \in Nat
    <3>1. Healed(d) \subseteq JobIds /\ Healed(d)' \subseteq JobIds
      BY DEF Healed
    <3> QED
      BY <3>1, CountType
  <2>2. MaxRounds \in Nat
    BY RelayAssumption
  <2>3. (d \in exists => Original(d)) /\ NoneDeleted' => (d \in exists' => Original(d)')
    BY <1>7
  <2>4. Cardinality(Healed(d)') <= Cardinality(Healed(d))
    BY <1>6
  <2>5. Cardinality(Healed(d)') = Cardinality(Healed(d))'
    OBVIOUS
  <2> QED
    BY <2>1, <2>2, <2>3, <2>4, <2>5, <1>3 DEF Room
<1>9. ASSUME NEW d \in Devices, NoneDeleted', Healed(d)' # {} PROVE Original(d)'
  <2>1. PICK k \in JobIds : k \in Healed(d)'
    BY <1>9 DEF Healed
  <2>2. d \in exists'
    BY <2>1, <1>2, <1>4 DEF Healed
  <2>3. Original(d)
    BY <1>3, <1>5, <1>9 DEF HealInv
  <2> QED
    BY <1>7, <1>9, <2>2, <2>3
<1>10. SelfHealBounded'
  <2> SUFFICES ASSUME NEW d \in Devices
               PROVE  /\ Cardinality(Healed(d)') <= MaxRounds
                      /\ NoneDeleted' => Cardinality(Healed(d)') < MaxRounds
    BY DEF SelfHealBounded, NoneDeleted
  <2>1. Cardinality(Healed(d)) \in Nat /\ Cardinality(Healed(d)') \in Nat
    <3>1. Healed(d) \subseteq JobIds /\ Healed(d)' \subseteq JobIds
      BY DEF Healed
    <3> QED
      BY <3>1, CountType
  <2>2. MaxRounds \in Nat
    BY RelayAssumption
  <2>3. /\ Cardinality(Healed(d)) <= MaxRounds
        /\ NoneDeleted => Cardinality(Healed(d)) < MaxRounds
    BY DEF HealInv, SelfHealBounded, NoneDeleted
  <2> QED
    BY <2>1, <2>2, <2>3, <1>3, <1>6
<1>11. route'[Sweep].pc = "create" => /\ route'[Sweep].device \in Devices \ sweep'
                                      /\ Room(route[Sweep].device)'
  BY <1>8 DEF HealInv
<1>12. \A d \in sweep' : Room(d)'
  BY <1>2, <1>8 DEF HealInv
<1> QED
  BY <1>4, <1>9, <1>10, <1>11, <1>12 DEF HealInv, SoundRow

(* The sweep lists only devices with room: all their collections have failed. *)
LEMMA HealListed ==
  ASSUME TypeOK, DoneHasEvidence, HealInv, NEW d \in SelfHealCandidates
  PROVE  Room(d)
<1>1. d \in exists /\ d \in Devices /\ d # NoDevice /\ d \notin evidence
  BY RelayAssumption DEF SelfHealCandidates, TypeOK
<1>2. \A k \in JobIds : Exists(k) /\ job[k].device = d /\ job[k].kind = "collect_os"
                          => k \in FailedRounds(d)
  <2> SUFFICES ASSUME NEW k \in JobIds, Exists(k), job[k].device = d, job[k].kind = "collect_os"
               PROVE  k \in FailedRounds(d)
    OBVIOUS
  <2>1. job[k].status \notin Active
    BY DEF SelfHealCandidates, Collecting
  <2>2. job[k].status # "done"
    BY <1>1 DEF DoneHasEvidence
  <2>3. job[k].status \in {"none", "queued", "dispatched", "done", "failed", "deleted"}
    BY DEF TypeOK, JobRow
  <2> QED
    BY <2>1, <2>2, <2>3 DEF FailedRounds, Active, Exists
<1>3. Healed(d) \subseteq FailedRounds(d) /\ FailedRounds(d) \subseteq JobIds
  <2>0. \A k \in JobIds : SoundRow(job[k])
    BY DEF HealInv
  <2>1. \A k \in JobIds : job[k].healed => job[k].kind = "collect_os"
    BY <2>0 DEF SoundRow
  <2>2. Healed(d) \subseteq FailedRounds(d)
    BY <1>2, <2>1, Zenon DEF Healed
  <2> QED
    BY <2>2 DEF FailedRounds
<1>4. /\ Cardinality(Healed(d)) \in Nat /\ IsFiniteSet(Healed(d))
      /\ Cardinality(FailedRounds(d)) \in Nat /\ MaxRounds \in Nat
      /\ Cardinality(Healed(d)) <= Cardinality(FailedRounds(d))
      /\ Cardinality(FailedRounds(d)) < MaxRounds
  BY <1>3, CountType, CountMonotone, RelayAssumption DEF SelfHealCandidates
<1>5. ASSUME NoneDeleted PROVE Original(d)
  <2>1. PICK j \in JobIds : IsLatest(j, d)
    BY DEF SelfHealCandidates
  <2>2. Exists(j) /\ job[j].device = d /\ job[j].kind = "collect_os"
    BY <2>1 DEF IsLatest
  <2>3. job[j].healed => j \in Healed(d)
    BY <2>2 DEF Healed
  <2> QED
    BY <1>1, <1>5, <2>2, <2>3 DEF HealInv, Original
<1>6. ASSUME NoneDeleted PROVE Cardinality(Healed(d)) + 1 < MaxRounds
  <2>1. PICK k \in JobIds : /\ Exists(k) /\ job[k].device = d
                            /\ job[k].kind = "collect_os" /\ ~job[k].healed
    BY <1>5, <1>6 DEF Original
  <2>2. k \notin Healed(d) /\ Healed(d) \cup {k} \subseteq FailedRounds(d)
    BY <1>2, <1>3, <2>1 DEF Healed
  <2>3. Cardinality(Healed(d) \cup {k}) = Cardinality(Healed(d)) + 1
    BY <1>4, <2>2, FS_AddElement
  <2>4. Cardinality(Healed(d) \cup {k}) <= Cardinality(FailedRounds(d))
    BY <1>3, <2>2, CountMonotone
  <2> QED
    BY <1>4, <2>3, <2>4
<1> QED
  BY <1>4, <1>5, <1>6 DEF Room

(* An insert takes room only where the sweep had routed. *)
LEMMA HealInsert ==
  ASSUME TypeOK, \A j \in JobIds : j >= nextId => job[j].status = "none", HealInv, Inserts
  PROVE  HealInv'
<1>1. PICK a \in Agents, d \in exists \cup {NoDevice}, k \in {"collect_os", "test"}, h \in BOOLEAN :
        /\ nextId <= MaxJobs /\ nextId' = nextId + 1
        /\ job' = [job EXCEPT ![nextId] = NewJob(a, d, k, h)]
        /\ UNCHANGED <<agent, exists, evidence, poll, results, sweep, running, posting>>
        /\ h => k = "collect_os" /\ route[Sweep].pc = "create" /\ d = route[Sweep].device
        /\ route'[Sweep] = route[Sweep] \/ route'[Sweep].pc = "idle"
        /\ h => route'[Sweep].pc = "idle"
  BY DEF Inserts
<1>2. nextId \in JobIds /\ job[nextId].status = "none"
  BY <1>1, RelayAssumption DEF TypeOK, JobIds
<1>3. /\ job'[nextId].healed = h /\ job'[nextId].kind = k /\ job'[nextId].device = d
      /\ job'[nextId].status = "queued"
  <2>1. job'[nextId] = NewJob(a, d, k, h)
    BY <1>1, <1>2 DEF TypeOK
  <2>2. /\ NewJob(a, d, k, h).healed = h /\ NewJob(a, d, k, h).kind = k
        /\ NewJob(a, d, k, h).device = d /\ NewJob(a, d, k, h).status = "queued"
    BY DEF NewJob
  <2> QED
    BY <2>1, <2>2
<1>4. \A i \in JobIds : i # nextId => job'[i] = job[i] /\ (Exists(i)' <=> Exists(i))
  BY <1>1, <1>2 DEF Exists, TypeOK
<1>5. ~Exists(nextId)
  BY <1>2 DEF Exists
<1>6. NoneDeleted' <=> NoneDeleted
  BY <1>1 DEF NoneDeleted
<1>7. \A e : Original(e) => Original(e)'
  BY <1>4, <1>5 DEF Original
<1>8. \A e : e # d \/ ~h => Healed(e)' = Healed(e)
  BY <1>3, <1>4, <1>5 DEF Healed
<1>9. \A e : e # d \/ ~h => (Room(e) => Room(e)')
  BY <1>1, <1>6, <1>7, <1>8 DEF Room
<1>10. exists \subseteq Devices /\ NoDevice \notin Devices /\ sweep \subseteq Devices
       /\ MaxRounds \in Nat
  BY RelayAssumption DEF TypeOK
<1>11. ASSUME NEW i \in JobIds
       PROVE  /\ job'[i].device \in exists' \cup {NoDevice}
              /\ job'[i].healed => job'[i].kind = "collect_os"
  <2>1. CASE i = nextId
    BY <2>1, <1>1, <1>3, Zenon
  <2>2. CASE i # nextId
    <3>1. SoundRow(job[i])
      BY DEF HealInv
    <3> QED
      BY <3>1, <2>2, <1>1, <1>4 DEF SoundRow
  <2> QED
    BY <2>1, <2>2
<1>12. CASE ~h
  <2>1. SelfHealBounded'
    BY <1>6, <1>8, <1>12 DEF HealInv, SelfHealBounded, NoneDeleted
  <2>2. \A e \in Devices : NoneDeleted' /\ Healed(e)' # {} => Original(e)'
    BY <1>6, <1>7, <1>8, <1>12 DEF HealInv
  <2>3. \A e \in sweep' : Room(e)'
    BY <1>1, <1>9, <1>12 DEF HealInv
  <2>4. route'[Sweep].pc = "create" => /\ route'[Sweep].device \in Devices \ sweep'
                                       /\ Room(route[Sweep].device)'
    BY <1>1, <1>9, <1>12 DEF HealInv
  <2> QED
    BY <2>1, <2>2, <2>3, <2>4, <1>1, <1>11, <1>12 DEF HealInv, SoundRow
<1>13. CASE h
  <2>1. d \in Devices \ sweep /\ d \in exists /\ Room(d)
    BY <1>1, <1>10, <1>13 DEF HealInv
  <2>2. Healed(d)' = Healed(d) \cup {nextId} /\ nextId \notin Healed(d)
    <3>1. nextId \in Healed(d)' /\ nextId \notin Healed(d)
      BY <1>2, <1>3, <1>5, <1>13 DEF Healed, Exists
    <3>2. \A i \in JobIds : i # nextId => (i \in Healed(d)' <=> i \in Healed(d))
      BY <1>4 DEF Healed
    <3>3. Healed(d)' \subseteq JobIds /\ Healed(d) \subseteq JobIds
      BY DEF Healed
    <3> QED
      BY <3>1, <3>2, <3>3
  <2>3. Cardinality(Healed(d)) \in Nat /\ IsFiniteSet(Healed(d))
    <3>1. Healed(d) \subseteq JobIds
      BY DEF Healed
    <3> QED
      BY <3>1, CountType
  <2>4. Cardinality(Healed(d) \cup {nextId}) = Cardinality(Healed(d)) + 1
    BY <2>2, <2>3, FS_AddElement
  <2>5. /\ Cardinality(Healed(d)') <= MaxRounds
        /\ NoneDeleted => Cardinality(Healed(d)') < MaxRounds
    BY <2>1, <2>2, <2>3, <2>4, <1>10 DEF Room
  <2>6. SelfHealBounded'
    <3> SUFFICES ASSUME NEW e \in Devices
                 PROVE  /\ Cardinality(Healed(e)') <= MaxRounds
                        /\ NoneDeleted' => Cardinality(Healed(e)') < MaxRounds
      BY DEF SelfHealBounded, NoneDeleted
    <3>1. CASE e = d
      BY <3>1, <2>5, <1>6
    <3>2. CASE e # d
      <4>1. Healed(e)' = Healed(e)
        BY <3>2, <1>8
      <4>2. /\ Cardinality(Healed(e)) <= MaxRounds
            /\ NoneDeleted => Cardinality(Healed(e)) < MaxRounds
        BY DEF HealInv, SelfHealBounded, NoneDeleted
      <4> QED
        BY <4>1, <4>2, <1>6
    <3> QED
      BY <3>1, <3>2
  <2>7. \A e \in Devices : NoneDeleted' /\ Healed(e)' # {} => Original(e)'
    <3> SUFFICES ASSUME NEW e \in Devices, NoneDeleted', Healed(e)' # {} PROVE Original(e)
      BY <1>7
    <3>1. CASE e = d
      BY <3>1, <2>1, <1>6 DEF Room
    <3>2. CASE e # d
      BY <3>2, <1>6, <1>8 DEF HealInv
    <3> QED
      BY <3>1, <3>2
  <2>8. \A e \in sweep' : Room(e)'
    BY <1>1, <1>9, <2>1 DEF HealInv
  <2> QED
    BY <2>6, <2>7, <2>8, <1>1, <1>11, <1>13 DEF HealInv, SoundRow
<1> QED
  BY <1>12, <1>13

(* Every step keeps the self-heal invariant. *)
LEMMA HealStep ==
  ASSUME TypeOK, EvidenceInv, DoneHasEvidence, HealInv, [Next]_vars
  PROVE  HealInv'
<1> USE DEF db, api, site
<1>0. Sweep \in Callers /\ Sweep \notin Routers
  BY RelayAssumption DEF Callers
<1>1. CASE UNCHANGED vars
  <2>1. \A k \in JobIds : Kept(k)
    BY <1>1, UntouchedKept DEF vars
  <2> HIDE DEF HealInv
  <2> QED
    BY <1>1, <2>1, HealQuiet DEF vars
<1>2. CASE Next /\ Inserts
  BY <1>2, HealInsert DEF EvidenceInv
<1>3. CASE SelfHealList
  <2>1. \A d \in SelfHealCandidates : Room(d)
    BY HealListed
  <2>2. \A d : Room(d)' <=> Room(d)
    BY <1>3 DEF SelfHealList, Room, Healed, NoneDeleted, Original, Exists
  <2>3. SelfHealBounded' <=> SelfHealBounded
    BY <1>3 DEF SelfHealList, SelfHealBounded, Healed, Exists
  <2>4. \A d \in Devices : NoneDeleted' /\ Healed(d)' # {} => Original(d)'
    BY <1>3 DEF HealInv, SelfHealList, Healed, NoneDeleted, Original, Exists
  <2>5. /\ UNCHANGED <<job, exists, route>> /\ sweep' = SelfHealCandidates
        /\ route[Sweep].pc = "idle"
    BY <1>3 DEF SelfHealList
  <2> QED
    BY <2>1, <2>2, <2>3, <2>4, <2>5 DEF HealInv, SoundRow
<1>4. ASSUME NEW d \in Devices, SelfHealRoute(d) PROVE HealInv'
  <2>1. /\ UNCHANGED <<job, exists, agent>> /\ sweep' = sweep \ {d} /\ d \in sweep
        /\ route[Sweep].pc = "idle"
    BY <1>4 DEF SelfHealRoute
  <2>2. route'[Sweep].pc = "create" => route'[Sweep].device = d
    BY <1>0, <1>4, <2>1 DEF SelfHealRoute, RouteCheck, TypeOK
  <2>3. \A e : Room(e)' <=> Room(e)
    BY <2>1 DEF Room, Healed, NoneDeleted, Original, Exists
  <2>4. SelfHealBounded' <=> SelfHealBounded
    BY <2>1 DEF SelfHealBounded, Healed, Exists
  <2>5. \A e \in Devices : NoneDeleted' /\ Healed(e)' # {} => Original(e)'
    BY <2>1 DEF HealInv, Healed, NoneDeleted, Original, Exists
  <2>6. route'[Sweep].pc = "create" => /\ route'[Sweep].device \in Devices \ sweep'
                                       /\ Room(route[Sweep].device)'
    <3> SUFFICES ASSUME route'[Sweep].pc = "create"
                 PROVE  /\ route'[Sweep].device \in Devices \ sweep'
                        /\ Room(route[Sweep].device)'
      OBVIOUS
    <3>1. Room(d)'
      BY <2>1, <2>3 DEF HealInv
    <3>2. Room(route[Sweep].device)'
      BY <3>1, <2>2
    <3> QED
      BY <2>1, <2>2, <3>2
  <2>7. \A e \in sweep' : Room(e)'
    BY <2>1, <2>3 DEF HealInv
  <2> QED
    BY <2>1, <2>4, <2>5, <2>6, <2>7 DEF HealInv, SoundRow
<1>5. CASE Next /\ ~Inserts /\ ~SelfHealList /\ ~\E d \in Devices : SelfHealRoute(d)
  <2>1. \A k \in JobIds : Kept(k)
    BY <1>5, RowHistory
  <2>2. /\ sweep' \subseteq sweep /\ exists' \subseteq exists
        /\ \A a \in Agents : agent[a] = "deleted" => agent'[a] = "deleted"
        /\ route'[Sweep] = route[Sweep] \/ route'[Sweep].pc = "idle"
    <3>1. CASE Enqueue
      <4>1. ASSUME NEW c \in Routers, NEW d \in Devices, NEW a \in Agents,
                   routeViaSiteAgent(c, d, a)
            PROVE  UNCHANGED <<sweep, exists, agent>> /\ route'[Sweep] = route[Sweep]
        BY <1>0, <4>1 DEF routeViaSiteAgent, RouteCheck, TypeOK, Callers
      <4>2. ASSUME NEW c \in Callers, CreateAgentJob(c)
            PROVE  /\ UNCHANGED <<sweep, exists, agent>>
                   /\ route'[Sweep] = route[Sweep] \/ route'[Sweep].pc = "idle"
        BY <1>0, <4>2 DEF CreateAgentJob, TypeOK, IdleRoute
      <4> QED
        BY <3>1, <1>5, <4>1, <4>2 DEF Enqueue
    <3>2. CASE Dispatch
      BY <3>2 DEF Dispatch, PollCount, PollList, PollReply, MarkAgentJobDispatched
    <3>3. CASE Collect \/ Report
      BY <3>3 DEF Collect, Report, runJob, GetAgentJob, Persist, RequeueAgentJob,
                  CompleteAgentJob
    <3>4. CASE Time
      BY <3>4 DEF Time, RequeueStaleAgentJobs, BackoffElapses, CooldownElapses
    <3>5. CASE Operator
      BY <3>5 DEF Operator, enqueueAgentTest, patchRelayAgent, deleteRelayAgent, deleteDevice,
                  DirectCollect, TypeOK
    <3>6. CASE ApiCrash
      BY <1>0, <3>6 DEF ApiCrash, IdleRoute
    <3>7. CASE (Loss \/ Drop) /\ ~ApiCrash
      BY <3>7 DEF Loss, Drop, PollLost, AgentCrash, PostLost, WriteFails, ConnectionDrops
    <3> QED
      BY <1>5, <3>1, <3>2, <3>3, <3>4, <3>5, <3>6, <3>7 DEF Next, Core
  <2> QED
    BY <2>1, <2>2, HealQuiet
<1> QED
  BY <1>1, <1>2, <1>3, <1>4, <1>5

(* SelfHealBounded is an invariant of the whole specification, agents that
   give up on an answer included: for every number of agents, devices and rows
   the sweep stays within selfHealMaxRounds. *)
THEOREM HealBounded == Spec => []SelfHealBounded
<1>1. Init => HealInv
  <2> SUFFICES ASSUME Init PROVE HealInv
    OBVIOUS
  <2>1. \A j \in JobIds : job[j].status = "none" /\ job[j].healed = FALSE /\ job[j].device = NoDevice
    BY DEF Init, NoJob, NewJob
  <2>2. \A d : Healed(d) = {}
    BY <2>1 DEF Healed
  <2>3. Cardinality({}) = 0 /\ MaxRounds \in Nat \ {0}
    BY FS_EmptySet, RelayAssumption
  <2>4. SelfHealBounded
    BY <2>2, <2>3 DEF SelfHealBounded
  <2>5. sweep = {} /\ route[Sweep].pc = "idle"
    BY DEF Init, Callers, IdleRoute
  <2> QED
    BY <2>1, <2>2, <2>4, <2>5 DEF HealInv, SoundRow
<1>2. TypeOK /\ EvidenceInv /\ DoneHasEvidence /\ HealInv /\ [Next]_vars => HealInv'
  BY HealStep
<1>3. HealInv => SelfHealBounded
  BY DEF HealInv
<1> QED
  BY <1>1, <1>2, <1>3, TypeCorrect, EvidenceKept, DoneCollected, PTL DEF Spec

-----------------------------------------------------------------------------
(* One run of a job at a time.  While agents wait for the answer to a result, a
   job is listed, handed over, collected or reported, one of these at a time and
   by one agent; what is listed is still queued, what is past that was closed by
   nobody but the reaper.  With that a handler's copy of the attempt counter is
   as good as the row's: the job was not dispatched since it was taken. *)
Held(a) == poll[a].out \cup running[a] \cup posting[a]

Mine == \A a \in Agents : \A j \in poll[a].rows \cup Held(a) : j < nextId /\ job[j].agent = a

OneAtATime ==
  \A a \in Agents : /\ poll[a].pc # "idle" => running[a] = {} /\ posting[a] = {}
                    /\ poll[a].pc # "mark" => poll[a].rows = {} /\ poll[a].out = {}
                    /\ poll[a].rows \cap poll[a].out = {}
                    /\ running[a] \cap posting[a] = {}

Reports == /\ \A r \in results : r.job \in posting[r.agent]
           /\ \A r, s \in results : r.job = s.job => r = s

Open == \A a \in Agents : /\ \A j \in poll[a].rows : job[j].status \in {"queued", "deleted"}
                          /\ \A j \in Held(a) : ~Closed(job[j])

HandInv == Mine /\ OneAtATime /\ Reports /\ Open

(* The counters: a queued collection has a dispatch left, and a handler's copy
   of the attempt is no older than the last dispatch. *)
Enveloped(row) ==
  row.kind = "collect_os" =>
    /\ row.sent <= row.attempt + 1 /\ row.sent <= MaxAttempts
    /\ row.status = "queued" => row.sent <= row.attempt /\ row.sent < MaxAttempts

EnvelopeInv ==
  /\ \A j \in JobIds : Enveloped(job[j])
  /\ \A r \in results : r.pc # "read" /\ job[r.job].kind = "collect_os" =>
       job[r.job].sent <= r.attempt + 1


(* The sets a handler or an agent holds are sets of rows. *)
LEMMA HandTypes ==
  ASSUME TypeOK
  PROVE  /\ \A a \in Agents : /\ poll[a] \in PollRec /\ poll[a].rows \subseteq JobIds
                              /\ Held(a) \subseteq JobIds
         /\ \A r \in results : r \in ResultRec /\ r.job \in JobIds /\ r.agent \in Agents
         /\ nextId \in Nat /\ \A j \in JobIds : j \in Nat /\ job[j] \in JobRow
BY RelayAssumption DEF TypeOK, PollRec, ResultRec, Held, JobIds

(* A job being reported is nobody's but its reporter's. *)
LEMMA ReportedOnce ==
  ASSUME TypeOK, HandInv, NEW r \in results, NEW a \in Agents
  PROVE  /\ r.job \notin poll[a].rows /\ r.job \notin poll[a].out /\ r.job \notin running[a]
         /\ r.job \in posting[a] => a = r.agent
         /\ r.job < nextId /\ job[r.job].agent = r.agent
<1>1. r.agent \in Agents /\ r.job \in posting[r.agent] /\ r.job \in Held(r.agent)
  BY HandTypes DEF HandInv, Reports, Held
<1>2. r.job < nextId /\ job[r.job].agent = r.agent
  BY <1>1 DEF HandInv, Mine
<1>3. ASSUME r.job \in poll[a].rows \cup Held(a) PROVE a = r.agent
  BY <1>2, <1>3 DEF HandInv, Mine
<1>4. /\ r.job \notin poll[r.agent].rows /\ r.job \notin poll[r.agent].out
      /\ r.job \notin running[r.agent]
  BY <1>1 DEF HandInv, OneAtATime
<1> QED
  BY <1>2, <1>3, <1>4 DEF Held

(* Only the rows change, and no job in somebody's hands is closed or taken off
   the queue. *)
LEMMA HandRows ==
  ASSUME TypeOK, HandInv, UNCHANGED <<poll, running, posting, results>>,
         nextId' \in Nat, nextId <= nextId',
         \A j \in JobIds : j < nextId =>
           /\ job'[j].agent = job[j].agent
           /\ job[j].status \in {"queued", "deleted"} => job'[j].status \in {"queued", "deleted"}
           /\ Closed(job'[j]) => Closed(job[j])
  PROVE  HandInv'
<1>1. \A a \in Agents : Held(a)' = Held(a)
  BY DEF Held
<1>2. \A a \in Agents : \A j \in poll[a].rows \cup Held(a) :
         j \in JobIds /\ j < nextId /\ job[j].agent = a
  BY HandTypes DEF HandInv, Mine
<1>3. Mine'
  <2> SUFFICES ASSUME NEW a \in Agents, NEW j \in poll[a].rows \cup Held(a)
               PROVE  j < nextId' /\ job'[j].agent = a
    BY <1>1 DEF Mine
  <2>1. j \in JobIds /\ j < nextId /\ job[j].agent = a /\ j \in Nat /\ nextId \in Nat
    BY <1>2, HandTypes
  <2> QED
    BY <2>1
<1>4. OneAtATime' /\ Reports'
  BY DEF HandInv, OneAtATime, Reports
<1>5. Open'
  BY <1>1, <1>2 DEF HandInv, Open
<1> QED
  BY <1>3, <1>4, <1>5 DEF HandInv

(* Only the hands change, and each holds no more than before. *)
LEMMA HandShrinks ==
  ASSUME TypeOK, HandInv, UNCHANGED <<job, nextId>>, Reports',
         \A a \in Agents : /\ poll'[a] \in {poll[a], IdlePoll}
                           /\ running'[a] \subseteq running[a] /\ posting'[a] \subseteq posting[a]
  PROVE  HandInv'
<1>1. IdlePoll.pc = "idle" /\ IdlePoll.rows = {} /\ IdlePoll.out = {}
  BY DEF IdlePoll
<1>2. \A a \in Agents : /\ poll'[a].rows \subseteq poll[a].rows /\ Held(a)' \subseteq Held(a)
  BY <1>1 DEF Held
<1>3. Mine'
  BY <1>2 DEF HandInv, Mine
<1>4. OneAtATime'
  <2> SUFFICES ASSUME NEW a \in Agents
               PROVE  /\ poll'[a].pc # "idle" => running'[a] = {} /\ posting'[a] = {}
                      /\ poll'[a].pc # "mark" => poll'[a].rows = {} /\ poll'[a].out = {}
                      /\ poll'[a].rows \cap poll'[a].out = {}
                      /\ running'[a] \cap posting'[a] = {}
    BY DEF OneAtATime
  <2> QED
    BY <1>1 DEF HandInv, OneAtATime
<1>5. Open'
  BY <1>2 DEF HandInv, Open
<1> QED
  BY <1>3, <1>4, <1>5 DEF HandInv

(* The report that is taken, requeued or completed: the row changes, and with
   the answer the job leaves the last hand that held it. *)
LEMMA HandAnswered ==
  ASSUME TypeOK, HandInv, NEW r \in results, results' = results \ {r}, Answered(r),
         UNCHANGED <<poll, running, nextId>>,
         \A j \in JobIds : j # r.job => job'[j] = job[j],
         job'[r.job].agent = job[r.job].agent
  PROVE  HandInv'
<1>1. r.agent \in Agents /\ r.job \in JobIds
  BY HandTypes
<1>2. \A a \in Agents : /\ posting'[a] \subseteq posting[a]
                        /\ r.job \notin posting'[a]
                        /\ \A j \in posting[a] : j # r.job => j \in posting'[a]
  BY <1>1, ReportedOnce DEF Answered, TypeOK
<1>3. \A a \in Agents : Held(a)' \subseteq Held(a) /\ r.job \notin Held(a)'
                        /\ r.job \notin poll[a].rows
  BY <1>2, ReportedOnce DEF Held
<1>4. \A a \in Agents : /\ \A j \in poll[a].rows : j \in JobIds /\ j # r.job
                        /\ \A j \in Held(a)' : j \in JobIds /\ j # r.job /\ j \in Held(a)
  BY <1>3, HandTypes
<1>5. Mine'
  BY <1>4 DEF HandInv, Mine
<1>6. OneAtATime'
  BY <1>2 DEF HandInv, OneAtATime
<1>7. Reports'
  <2>1. ASSUME NEW s \in results' PROVE s.job \in posting'[s.agent]
    <3>1. s \in results /\ s # r /\ s.job # r.job /\ s.agent \in Agents
      BY HandTypes DEF HandInv, Reports
    <3> QED
      BY <3>1, <1>2 DEF HandInv, Reports
  <2> QED
    BY <2>1 DEF HandInv, Reports
<1>8. Open'
  BY <1>4 DEF HandInv, Open
<1> QED
  BY <1>5, <1>6, <1>7, <1>8 DEF HandInv

(* Routing, time and the operator change rows only. *)
LEMMA HandEnvironment ==
  ASSUME TypeOK, TypeOK', EvidenceInv, HandInv, Enqueue \/ Time \/ Operator
  PROVE  HandInv'
<1> USE DEF db, api, site
<1>1. UNCHANGED <<poll, running, posting, results>>
  BY DEF Enqueue, routeViaSiteAgent, CreateAgentJob, SelfHealList, SelfHealRoute, Time,
         RequeueStaleAgentJobs, BackoffElapses, CooldownElapses, Operator, enqueueAgentTest,
         patchRelayAgent, deleteRelayAgent, deleteDevice, DirectCollect
<1>2. nextId \in Nat /\ nextId' \in Nat /\ \A j \in JobIds : j \in Nat /\ job[j] \in JobRow
  BY RelayAssumption DEF TypeOK, JobIds
<1>3. Next
  BY DEF Next, Core
<1>4. CASE Inserts
  <2>1. nextId' = nextId + 1 /\ \A j \in JobIds : j # nextId => job'[j] = job[j]
    BY <1>4 DEF Inserts, TypeOK
  <2>2. \A j \in JobIds : j < nextId => job'[j] = job[j]
    BY <2>1, <1>2
  <2>3. nextId <= nextId'
    BY <2>1, <1>2
  <2>4. \A j \in JobIds : j < nextId =>
           /\ job'[j].agent = job[j].agent
           /\ job[j].status \in {"queued", "deleted"} => job'[j].status \in {"queued", "deleted"}
           /\ Closed(job'[j]) => Closed(job[j])
    BY <2>2
  <2> QED
    BY <1>1, <1>2, <2>3, <2>4, HandRows
<1>5. CASE ~Inserts
  <2>1. nextId' = nextId /\ \A j \in JobIds : Kept(j)
    BY <1>3, <1>5, RowHistory
  <2>2. \A j \in JobIds : job'[j].agent = job[j].agent
    BY <2>1 DEF Kept
  <2>3. nextId <= nextId'
    BY <2>1, <1>2
  <2>4. ASSUME NEW j \in JobIds
        PROVE  /\ job[j].status \in {"queued", "deleted"} => job'[j].status \in {"queued", "deleted"}
               /\ Closed(job'[j]) => Closed(job[j])
    <3>1. CASE Enqueue
      <4>1. UNCHANGED job
        BY <3>1, <1>2, <2>1 DEF Enqueue, routeViaSiteAgent, CreateAgentJob, SelfHealList,
                                SelfHealRoute
      <4> QED
        BY <4>1
    <3>2. CASE Time
      <4> PICK i \in JobIds : \/ RequeueStaleAgentJobs(i)
                             \/ BackoffElapses(i) \/ CooldownElapses(i)
        BY <3>2 DEF Time
      <4>1. CASE RequeueStaleAgentJobs(i)
        <5>1. Reaped(job[i]).status = "queued" \/ (/\ Reaped(job[i]).status = "failed"
                                                  /\ Reaped(job[i]).category = "agent_no_result")
          BY <1>2 DEF Reaped, JobRow
        <5>2. job'[j] = job[j] \/ (/\ job'[j] = Reaped(job[i]) /\ j = i)
          BY <4>1 DEF RequeueStaleAgentJobs, Update, TypeOK
        <5>3. job[i].status = "dispatched"
          BY <4>1 DEF RequeueStaleAgentJobs
        <5> QED
          BY <5>1, <5>2, <5>3 DEF Closed
      <4>2. CASE BackoffElapses(i) \/ CooldownElapses(i)
        <5>1. job'[j].status = job[j].status /\ job'[j].category = job[j].category
          BY <4>2, <1>2 DEF BackoffElapses, CooldownElapses, TypeOK, JobRow
        <5> QED
          BY <5>1 DEF Closed
      <4> QED
        BY <4>1, <4>2
    <3>3. CASE Operator
      <4>1. \/ job'[j].status = job[j].status /\ job'[j].category = job[j].category
            \/ job'[j].status = "deleted"
        <5>1. ASSUME NEW a \in Agents, enqueueAgentTest(a) PROVE FALSE
          BY <5>1, <2>1, <1>2 DEF enqueueAgentTest
        <5>2. ASSUME NEW a \in Agents, patchRelayAgent(a) PROVE UNCHANGED job
          BY <5>2 DEF patchRelayAgent
        <5>3. ASSUME NEW a \in Agents, deleteRelayAgent(a)
              PROVE  job'[j] = job[j] \/ job'[j].status = "deleted"
          BY <5>3, <1>2 DEF deleteRelayAgent, JobRow
        <5>4. ASSUME NEW d \in Devices, deleteDevice(d)
              PROVE  job'[j].status = job[j].status /\ job'[j].category = job[j].category
          BY <5>4, <1>2 DEF deleteDevice, JobRow
        <5>5. ASSUME NEW d \in Devices, DirectCollect(d) PROVE UNCHANGED job
          BY <5>5 DEF DirectCollect
        <5> QED
          BY <3>3, <5>1, <5>2, <5>3, <5>4, <5>5 DEF Operator
      <4> QED
        BY <4>1 DEF Closed
    <3> QED
      BY <3>1, <3>2, <3>3
  <2> QED
    BY <1>1, <1>2, <2>2, <2>3, <2>4, HandRows
<1> QED
  BY <1>4, <1>5

(* A poll takes over what nobody else holds. *)
LEMMA HandDispatch ==
  ASSUME TypeOK, TypeOK', EvidenceInv, HandInv, Dispatch
  PROVE  HandInv'
<1> USE DEF db, api, site
<1>0. PICK a \in Agents : \/ PollCount(a) \/ PollList(a) \/ PollReply(a)
                          \/ \E j \in JobIds : MarkAgentJobDispatched(a, j)
  BY DEF Dispatch
<1>i. IdlePoll.pc = "idle" /\ IdlePoll.rows = {} /\ IdlePoll.out = {}
  BY DEF IdlePoll
<1>1. CASE PollCount(a)
  <2>1. /\ UNCHANGED <<job, nextId, results, running, posting>>
        /\ running[a] = {} /\ posting[a] = {}
        /\ \A b \in Agents : b # a => poll'[b] = poll[b]
    BY <1>1 DEF PollCount, TypeOK
  <2>2. poll'[a].pc = "list" /\ poll'[a].rows = {} /\ poll'[a].out = {}
    BY <1>1 DEF PollCount, TypeOK, IdlePoll
  <2>3. Mine' /\ Open'
    BY <2>1, <2>2 DEF HandInv, Mine, Open, Held
  <2>4. OneAtATime'
    BY <2>1, <2>2 DEF HandInv, OneAtATime
  <2> QED
    BY <2>1, <2>3, <2>4 DEF HandInv, Reports
<1>2. CASE PollList(a)
  <2>1. /\ UNCHANGED <<job, nextId, results, running, posting>>
        /\ running[a] = {} /\ posting[a] = {}
        /\ \A b \in Agents : b # a => poll'[b] = poll[b]
    BY <1>2 DEF PollList, TypeOK, HandInv, OneAtATime
  <2>2. PICK rows \in SUBSET Runnable(a) :
          poll'[a] \in {IdlePoll, [IdlePoll EXCEPT !.pc = "mark", !.rows = rows]}
    BY <1>2 DEF PollList, TypeOK
  <2>3. /\ poll'[a].rows \subseteq rows /\ poll'[a].out = {}
        /\ poll'[a].pc # "mark" => poll'[a].rows = {}
    <3>1. CASE poll'[a] = IdlePoll
      BY <3>1, <1>i
    <3>2. CASE poll'[a] = [IdlePoll EXCEPT !.pc = "mark", !.rows = rows]
      <4>1. poll'[a].pc = "mark" /\ poll'[a].rows = rows /\ poll'[a].out = {}
        BY <3>2 DEF IdlePoll
      <4> QED
        BY <4>1
    <3> QED
      BY <2>2, <3>1, <3>2
  <2>4. \A j \in rows : j \in JobIds /\ job[j].status = "queued" /\ job[j].agent = a /\ j < nextId
    <3>1. \A j \in rows : j \in JobIds /\ job[j].status = "queued" /\ job[j].agent = a
      BY <2>2 DEF Runnable
    <3>2. \A j \in JobIds : ~(j >= nextId) => j < nextId
      BY HandTypes
    <3> QED
      BY <3>1, <3>2 DEF EvidenceInv
  <2>5. Mine' /\ Open'
    BY <2>1, <2>3, <2>4 DEF HandInv, Mine, Open, Held
  <2>6. OneAtATime'
    BY <2>1, <2>3 DEF HandInv, OneAtATime
  <2> QED
    BY <2>1, <2>5, <2>6 DEF HandInv, Reports
<1>3. CASE PollReply(a)
  <2>1. /\ UNCHANGED <<job, nextId, results, posting>>
        /\ running' = [running EXCEPT ![a] = poll[a].out] /\ posting[a] = {}
        /\ \A b \in Agents : b # a => poll'[b] = poll[b] /\ running'[b] = running[b]
        /\ poll'[a] = IdlePoll /\ running'[a] = poll[a].out
    BY <1>3 DEF PollReply, TypeOK, HandInv, OneAtATime
  <2>2. Mine' /\ Open'
    BY <2>1, <1>i DEF HandInv, Mine, Open, Held
  <2>3. OneAtATime'
    BY <2>1, <1>i DEF HandInv, OneAtATime
  <2> QED
    BY <2>1, <2>2, <2>3 DEF HandInv, Reports
<1>4. ASSUME NEW j \in JobIds, MarkAgentJobDispatched(a, j) PROVE HandInv'
  <2>1. /\ UNCHANGED <<nextId, results, running, posting>> /\ poll[a].pc = "mark"
        /\ j \in poll[a].rows /\ running[a] = {} /\ posting[a] = {}
        /\ \A b \in Agents : b # a => poll'[b] = poll[b]
    BY <1>4 DEF MarkAgentJobDispatched, TypeOK, HandInv, OneAtATime
  <2>2. /\ poll'[a].rows = poll[a].rows \ {j} /\ poll'[a].out = poll[a].out \cup {j}
        /\ poll'[a].pc = "mark"
    BY <1>4, HandTypes DEF MarkAgentJobDispatched, TypeOK, PollRec
  <2>3. \A k \in JobIds : /\ job'[k].agent = job[k].agent /\ (k # j => job'[k] = job[k])
    <3>1. job[j] \in JobRow
      BY DEF TypeOK
    <3>2. Marked(job[j]).agent = job[j].agent
      BY <3>1 DEF Marked, JobRow
    <3> QED
      BY <1>4, <3>2 DEF MarkAgentJobDispatched, Update, TypeOK
  <2>4. ~Closed(job'[j])
    <3>1. CASE Exists(j)
      <4>1. job'[j] = Marked(job[j]) /\ job[j] \in JobRow
        BY <1>4, <3>1 DEF MarkAgentJobDispatched, Update, TypeOK
      <4>2. Marked(job[j]).status = "dispatched"
        BY <4>1 DEF Marked, JobRow
      <4> QED
        BY <4>1, <4>2 DEF Closed
    <3>2. CASE ~Exists(j)
      BY <1>4, <3>2 DEF MarkAgentJobDispatched, Update, Closed, Exists
    <3> QED
      BY <3>1, <3>2
  <2>5. \A b \in Agents : b # a => j \notin poll[b].rows \cup Held(b)
    BY <2>1 DEF HandInv, Mine
  <2>6. \A b \in Agents : /\ poll'[b].rows \subseteq poll[b].rows \ {j}
                          /\ Held(b)' \subseteq Held(b) \cup {j}
                          /\ b # a => Held(b)' = Held(b)
    BY <2>1, <2>2, <2>5 DEF Held
  <2>7. Mine'
    <3> SUFFICES ASSUME NEW b \in Agents, NEW k \in poll'[b].rows \cup Held(b)'
                 PROVE  k < nextId' /\ job'[k].agent = b
      BY DEF Mine
    <3>1. k \in poll[b].rows \cup Held(b)
      BY <2>1, <2>6
    <3>2. k \in JobIds
      BY <3>1, HandTypes
    <3> QED
      BY <2>1, <2>3, <3>1, <3>2 DEF HandInv, Mine
  <2>8. OneAtATime'
    BY <2>1, <2>2 DEF HandInv, OneAtATime
  <2>9. Open'
    <3> SUFFICES ASSUME NEW b \in Agents
                 PROVE  /\ \A k \in poll'[b].rows : job'[k].status \in {"queued", "deleted"}
                        /\ \A k \in Held(b)' : ~Closed(job'[k])
      BY DEF Open
    <3>1. \A k \in poll'[b].rows : job'[k].status \in {"queued", "deleted"}
      BY <2>3, <2>6, HandTypes DEF HandInv, Open
    <3>2. \A k \in Held(b)' : ~Closed(job'[k])
      BY <2>3, <2>4, <2>6, HandTypes DEF HandInv, Open
    <3> QED
      BY <3>1, <3>2
  <2> QED
    BY <2>1, <2>7, <2>8, <2>9 DEF HandInv, Reports
<1> QED
  BY <1>0, <1>1, <1>2, <1>3, <1>4


(* A job goes from the agent's hands to one report, and is answered once. *)
LEMMA HandReport ==
  ASSUME TypeOK, TypeOK', HandInv, Collect \/ Report
  PROVE  HandInv'
<1> USE DEF db, api, site
<1>1. ASSUME NEW a \in Agents, NEW j \in JobIds, NEW o \in Outcomes, runJob(a, j, o[1], o[2])
      PROVE  HandInv'
  <2>1. /\ UNCHANGED <<job, nextId, poll>> /\ j \in running[a]
        /\ \A b \in Agents : b # a => running'[b] = running[b] /\ posting'[b] = posting[b]
        /\ running'[a] = running[a] \ {j} /\ posting'[a] = posting[a] \cup {j}
    BY <1>1 DEF runJob, TypeOK
  <2>2. PICK s : results' = results \cup {s} /\ s.job = j /\ s.agent = a
    <3> DEFINE rec == [pc |-> "read", job |-> j, agent |-> a, success |-> o[1],
                       category |-> o[2], kind |-> "test", device |-> NoDevice,
                       attempt |-> 0, status |-> "failed"]
    <3>1. results' = results \cup {rec}
      BY <1>1 DEF runJob
    <3>2. rec.job = j /\ rec.agent = a
      OBVIOUS
    <3> HIDE DEF rec
    <3> QED
      BY <3>1, <3>2
  <2>3. \A b \in Agents : Held(b)' \subseteq Held(b)
    BY <2>1 DEF Held
  <2>4. Mine' /\ Open'
    BY <2>1, <2>3 DEF HandInv, Mine, Open
  <2>5. OneAtATime'
    BY <2>1 DEF HandInv, OneAtATime
  <2>6. \A r \in results : r.agent \in Agents /\ r.job # j
    BY <2>1, HandTypes, ReportedOnce
  <2>7. Reports'
    BY <2>1, <2>2, <2>6 DEF HandInv, Reports
  <2> QED
    BY <2>4, <2>5, <2>7 DEF HandInv
<1>2. ASSUME NEW r \in results, NEW s, s.job = r.job, s.agent = r.agent,
             results' = (results \ {r}) \cup {s}, UNCHANGED <<job, nextId, poll, running, posting>>
      PROVE  HandInv'
  <2>1. Reports'
    BY <1>2 DEF HandInv, Reports
  <2> QED
    BY <1>2, <2>1, HandShrinks
<1>3. ASSUME NEW r \in results, GetAgentJob(r) PROVE HandInv'
  <2>1. r \in ResultRec
    BY HandTypes
  <2>2. Read(r).job = r.job /\ Read(r).agent = r.agent
    BY <2>1 DEF Read, ResultRec
  <2>3. CASE results' = (results \ {r}) \cup {Read(r)} /\ UNCHANGED posting
    <3>1. UNCHANGED <<job, nextId, poll, running, posting>>
      BY <1>3, <2>3 DEF GetAgentJob
    <3> QED
      BY <2>2, <2>3, <3>1, <1>2
  <2>4. CASE results' = results \ {r} /\ Answered(r)
    <3>1. UNCHANGED <<poll, running, nextId, job>>
      BY <1>3 DEF GetAgentJob
    <3> QED
      BY <2>4, <3>1, HandAnswered
  <2> QED
    BY <1>3, <2>3, <2>4 DEF GetAgentJob
<1>4. ASSUME NEW r \in results, Persist(r) PROVE HandInv'
  <2>1. r \in ResultRec
    BY HandTypes
  <2>2. UNCHANGED <<job, nextId, poll, running, posting>>
    BY <1>4 DEF Persist
  <2>3. /\ [r EXCEPT !.pc = "finish"].job = r.job /\ [r EXCEPT !.pc = "finish"].agent = r.agent
        /\ [r EXCEPT !.pc = "finish", !.status = "failed"].job = r.job
        /\ [r EXCEPT !.pc = "finish", !.status = "failed"].agent = r.agent
    BY <2>1 DEF ResultRec
  <2>4. \/ results' = (results \ {r}) \cup {[r EXCEPT !.pc = "finish"]}
        \/ results' = (results \ {r}) \cup {[r EXCEPT !.pc = "finish", !.status = "failed"]}
    BY <1>4 DEF Persist
  <2> QED
    BY <2>2, <2>3, <2>4, <1>2
<1>5. ASSUME NEW r \in results, RequeueAgentJob(r) \/ CompleteAgentJob(r) PROVE HandInv'
  <2>1. r.job \in JobIds /\ r.status \in {"done", "failed"} /\ r.category \in Categories
        /\ job[r.job] \in JobRow
    BY HandTypes DEF ResultRec
  <2>2. PICK row \in {Requeued(job[r.job], r.category),
                      Completed(job[r.job], r.status, r.category)} : Update(r.job, row)
    BY <1>5 DEF RequeueAgentJob, CompleteAgentJob
  <2>3. row.agent = job[r.job].agent
    BY <2>1, <2>2, StatementsKeep
  <2>4. /\ \A j \in JobIds : j # r.job => job'[j] = job[j]
        /\ job'[r.job].agent = job[r.job].agent
    BY <2>1, <2>2, <2>3 DEF Update, TypeOK
  <2>5. results' = results \ {r} /\ Answered(r) /\ UNCHANGED <<poll, running, nextId>>
    BY <1>5 DEF RequeueAgentJob, CompleteAgentJob
  <2> QED
    BY <2>4, <2>5, HandAnswered
<1> QED
  BY <1>1, <1>3, <1>4, <1>5 DEF Collect, Report

(* What is lost leaves the hands it was in. *)
LEMMA HandLoss ==
  ASSUME TypeOK, TypeOK', HandInv, Loss
  PROVE  HandInv'
<1> USE DEF db, api, site
<1>1. ASSUME NEW a \in Agents, PollLost(a) PROVE HandInv'
  <2>1. /\ UNCHANGED <<job, nextId, results, running, posting>>
        /\ \A b \in Agents : poll'[b] \in {poll[b], IdlePoll}
    BY <1>1 DEF PollLost, TypeOK
  <2>2. Reports'
    BY <2>1 DEF HandInv, Reports
  <2> QED
    BY <2>1, <2>2, HandShrinks
<1>2. ASSUME NEW a \in Agents, AgentCrash(a) \/ \E j \in JobIds : PostLost(a, j) PROVE HandInv'
  <2>1. /\ UNCHANGED <<job, nextId, results, poll, posting>>
        /\ \A b \in Agents : running'[b] \subseteq running[b]
    BY <1>2 DEF AgentCrash, PostLost, TypeOK
  <2>2. Reports'
    BY <2>1 DEF HandInv, Reports
  <2> QED
    BY <2>1, <2>2, HandShrinks
<1>3. ASSUME NEW r \in results, WriteFails(r) PROVE HandInv'
  <2>1. /\ results' = results \ {r} /\ Answered(r) /\ UNCHANGED <<poll, running, nextId, job>>
    BY <1>3 DEF WriteFails
  <2> QED
    BY <2>1, HandAnswered
<1>4. CASE ApiCrash
  <2>1. /\ UNCHANGED <<job, nextId, running>> /\ results' = {}
        /\ \A b \in Agents : poll'[b] = IdlePoll /\ posting'[b] = {}
    BY <1>4 DEF ApiCrash
  <2>2. Reports'
    BY <2>1 DEF Reports
  <2> QED
    BY <2>1, <2>2, HandShrinks
<1> QED
  BY <1>1, <1>2, <1>3, <1>4 DEF Loss

(* An agent that waits for its answers is one of the agents of Spec. *)
LEMMA AttachedIsSpec == AttachedSpec => Spec
<1>1. [Core \/ Operator \/ Loss]_vars => [Next]_vars
  BY DEF Next
<1> QED
  BY <1>1, PTL DEF AttachedSpec, Spec

(* With agents that wait for their answers there is one run of a job at a time. *)
LEMMA HandKept == AttachedSpec => []HandInv
<1>1. Init => HandInv
  <2> SUFFICES ASSUME Init PROVE HandInv
    OBVIOUS
  <2>1. \A a \in Agents : /\ poll[a].rows = {} /\ poll[a].out = {}
                          /\ running[a] = {} /\ posting[a] = {} /\ poll[a].pc = "idle"
    BY DEF Init, IdlePoll
  <2>2. results = {}
    BY DEF Init
  <2> QED
    BY <2>1, <2>2 DEF HandInv, Mine, OneAtATime, Reports, Open, Held
<1>2. TypeOK /\ TypeOK' /\ EvidenceInv /\ HandInv /\ [Core \/ Operator \/ Loss]_vars => HandInv'
  <2>1. TypeOK /\ HandInv /\ UNCHANGED vars => HandInv'
    BY DEF vars, db, api, site, HandInv, Mine, OneAtATime, Reports, Open, Held
  <2> QED
    BY <2>1, HandEnvironment, HandDispatch, HandReport, HandLoss DEF Core
<1> QED
  BY <1>1, <1>2, AttachedIsSpec, TypeCorrect, EvidenceKept, PTL DEF AttachedSpec

(* A row that the agent's own report closed is closed for good. *)
LEMMA ClosedStays ==
  ASSUME TypeOK, EvidenceInv, HandInv, [Core \/ Operator \/ Loss]_vars,
         NEW j \in JobIds, Closed(job[j])
  PROVE  job'[j].status \in {job[j].status, "deleted"} /\ job'[j].category = job[j].category
<1> USE DEF db, api, site
<1>0. /\ nextId \in Nat /\ j \in Nat /\ \A k \in JobIds : job[k] \in JobRow
      /\ job[j].status \in {"done", "failed"}
  BY RelayAssumption DEF TypeOK, JobIds, Closed
<1>1. j # nextId
  BY <1>0 DEF EvidenceInv
<1>2. CASE UNCHANGED vars \/ Enqueue
  <2>1. job'[j] = job[j]
    BY <1>2, <1>1 DEF vars, Enqueue, routeViaSiteAgent, CreateAgentJob, SelfHealList,
                      SelfHealRoute, TypeOK
  <2> QED
    BY <2>1
<1>3. CASE Dispatch
  <2> PICK a \in Agents : \/ PollCount(a) \/ PollList(a) \/ PollReply(a)
                          \/ \E k \in JobIds : MarkAgentJobDispatched(a, k)
    BY <1>3 DEF Dispatch
  <2>1. CASE PollCount(a) \/ PollList(a) \/ PollReply(a)
    BY <2>1 DEF PollCount, PollList, PollReply
  <2>2. ASSUME NEW k \in JobIds, MarkAgentJobDispatched(a, k) PROVE job'[j] = job[j]
    <3>1. job[k].status \in {"queued", "deleted"}
      BY <2>2 DEF MarkAgentJobDispatched, HandInv, Open
    <3>2. j # k
      BY <3>1, <1>0
    <3> QED
      BY <2>2, <3>2 DEF MarkAgentJobDispatched, Update, TypeOK
  <2> QED
    BY <2>1, <2>2
<1>4. CASE Collect
  BY <1>4 DEF Collect, runJob
<1>5. CASE Report
  <2> PICK r \in results : \/ GetAgentJob(r) \/ Persist(r)
                           \/ RequeueAgentJob(r) \/ CompleteAgentJob(r)
    BY <1>5 DEF Report
  <2>1. CASE GetAgentJob(r) \/ Persist(r)
    BY <2>1 DEF GetAgentJob, Persist
  <2>2. j # r.job
    <3>1. r.agent \in Agents /\ r.job \in Held(r.agent)
      BY HandTypes DEF HandInv, Reports, Held
    <3> QED
      BY <3>1 DEF HandInv, Open
  <2>3. CASE RequeueAgentJob(r) \/ CompleteAgentJob(r)
    <3>1. job'[j] = job[j]
      BY <2>2, <2>3 DEF RequeueAgentJob, CompleteAgentJob, Update, TypeOK
    <3> QED
      BY <3>1
  <2> QED
    BY <2>1, <2>3
<1>6. CASE Time
  <2> PICK k \in JobIds : \/ RequeueStaleAgentJobs(k)
                         \/ BackoffElapses(k) \/ CooldownElapses(k)
    BY <1>6 DEF Time
  <2>1. CASE RequeueStaleAgentJobs(k)
    BY <2>1, <1>0 DEF RequeueStaleAgentJobs, Update, TypeOK
  <2>2. CASE BackoffElapses(k) \/ CooldownElapses(k)
    <3>1. job'[j].status = job[j].status /\ job'[j].category = job[j].category
      BY <2>2, <1>0 DEF BackoffElapses, CooldownElapses, TypeOK, JobRow
    <3> QED
      BY <3>1
  <2> QED
    BY <2>1, <2>2
<1>7. CASE Operator
  <2>1. ASSUME NEW a \in Agents, enqueueAgentTest(a) PROVE job'[j] = job[j]
    BY <2>1, <1>1 DEF enqueueAgentTest, TypeOK
  <2>2. ASSUME NEW a \in Agents, patchRelayAgent(a) PROVE job'[j] = job[j]
    BY <2>2 DEF patchRelayAgent
  <2>3. ASSUME NEW a \in Agents, deleteRelayAgent(a)
        PROVE  job'[j].status \in {job[j].status, "deleted"} /\ job'[j].category = job[j].category
    BY <2>3, <1>0 DEF deleteRelayAgent, JobRow
  <2>4. ASSUME NEW d \in Devices, deleteDevice(d)
        PROVE  job'[j].status \in {job[j].status, "deleted"} /\ job'[j].category = job[j].category
    BY <2>4, <1>0 DEF deleteDevice, JobRow
  <2>5. ASSUME NEW d \in Devices, DirectCollect(d) PROVE job'[j] = job[j]
    BY <2>5 DEF DirectCollect
  <2> QED
    BY <1>7, <2>1, <2>2, <2>3, <2>4, <2>5 DEF Operator
<1>8. CASE Loss
  <2>1. job'[j] = job[j]
    BY <1>8 DEF Loss, PollLost, AgentCrash, PostLost, WriteFails, ApiCrash
  <2> QED
    BY <2>1
<1> QED
  BY <1>2, <1>3, <1>4, <1>5, <1>6, <1>7, <1>8 DEF Core

(* ReportedIsFinal: no interleaving of polls, reaper and handlers reopens or
   rewrites a collection that its agent's report closed. *)
THEOREM ClosedForGood == AttachedSpec => ReportedIsFinal
<1>1. TypeOK /\ EvidenceInv /\ HandInv /\ [Core \/ Operator \/ Loss]_vars =>
        [\A j \in JobIds : Closed(job[j]) =>
           job'[j].status \in {job[j].status, "deleted"} /\ job'[j].category = job[j].category]_vars
  BY ClosedStays
<1> QED
  BY <1>1, AttachedIsSpec, TypeCorrect, EvidenceKept, HandKept, PTL
  DEF AttachedSpec, ReportedIsFinal


-----------------------------------------------------------------------------
(* The retry envelope.                                                     *)

(* Handlers go on or disappear, and the rows they copied keep their count. *)
LEMMA EnvelopeRows ==
  ASSUME TypeOK, EnvelopeInv, \A j \in JobIds : Enveloped(job'[j]),
         \A r \in results' : r.pc # "read" =>
           /\ r \in results /\ job'[r.job].sent = job[r.job].sent
           /\ job'[r.job].kind = job[r.job].kind
  PROVE  EnvelopeInv'
<1>1. \A j \in JobIds : Enveloped(job[j])'
  BY DEF Enveloped
<1> QED
  BY <1>1 DEF EnvelopeInv

(* A row whose counters stay, and that is not put back on the queue. *)
LEMMA EnvelopedSame ==
  ASSUME NEW r, NEW s, Enveloped(r), s.kind = r.kind, s.sent = r.sent, s.attempt = r.attempt,
         s.status = "queued" => r.status = "queued"
  PROVE  Enveloped(s)
BY DEF Enveloped

(* Every step of a system whose agents wait for their answers keeps the
   envelope. *)
LEMMA EnvelopeStep ==
  ASSUME TypeOK, TypeOK', EvidenceInv, HandInv, EnvelopeInv, [Core \/ Operator \/ Loss]_vars
  PROVE  EnvelopeInv'
<1> USE DEF db, api, site
<1>0. /\ nextId \in Nat /\ MaxAttempts \in Nat \ {0}
      /\ \A k \in JobIds : k \in Nat /\ job[k] \in JobRow /\ Enveloped(job[k])
                           /\ job[k].sent \in Nat /\ job[k].attempt \in Nat
      /\ \A r \in results : r \in ResultRec /\ r.job \in JobIds /\ r.attempt \in Nat
      /\ \A r \in results : r.job < nextId
  <2>1. \A r \in results : r.job < nextId
    BY ReportedOnce, RelayAssumption
  <2> QED
    BY <2>1, HandTypes, RelayAssumption DEF JobRow, ResultRec, EnvelopeInv
<1>1. CASE UNCHANGED <<job, results>>
  BY <1>0, <1>1, EnvelopeRows
<1>2. CASE Inserts
  <2>1. PICK a \in Agents, d \in exists \cup {NoDevice}, k \in {"collect_os", "test"},
             h \in BOOLEAN :
          /\ nextId <= MaxJobs /\ results' = results
          /\ job' = [job EXCEPT ![nextId] = NewJob(a, d, k, h)]
    BY <1>2 DEF Inserts
  <2>2. /\ NewJob(a, d, k, h).sent = 0 /\ NewJob(a, d, k, h).attempt = 0
    BY DEF NewJob
  <2>3. Enveloped(NewJob(a, d, k, h))
    BY <1>0, <2>2 DEF Enveloped
  <2>4. \A j \in JobIds : job'[j] = job[j] \/ job'[j] = NewJob(a, d, k, h)
    BY <2>1 DEF TypeOK
  <2>5. \A j \in JobIds : j < nextId => job'[j] = job[j]
    BY <2>1, <1>0 DEF TypeOK
  <2>6. \A j \in JobIds : Enveloped(job'[j])
    BY <2>3, <2>4, <1>0
  <2> QED
    BY <2>1, <2>5, <2>6, <1>0, EnvelopeRows
<1>3. ASSUME NEW a \in Agents, NEW j \in JobIds, MarkAgentJobDispatched(a, j) PROVE EnvelopeInv'
  <2>1. j \in poll[a].rows /\ Update(j, Marked(job[j])) /\ results' = results
    BY <1>3 DEF MarkAgentJobDispatched
  <2>2. \A r \in results : r.job # j
    BY <2>1, ReportedOnce
  <2>3. \A k \in JobIds : k # j => job'[k] = job[k]
    BY <2>1 DEF Update, TypeOK
  <2>4. Enveloped(job'[j])
    <3>1. CASE ~Exists(j)
      BY <2>1, <3>1, <1>0 DEF Update
    <3>2. CASE Exists(j)
      <4>1. job'[j] = Marked(job[j])
        BY <2>1, <3>2 DEF Update, TypeOK
      <4>2. job[j].status = "queued"
        BY <2>1, <3>2 DEF HandInv, Open, Exists
      <4>3. /\ Marked(job[j]).kind = job[j].kind /\ Marked(job[j]).status = "dispatched"
            /\ Marked(job[j]).attempt = job[j].attempt /\ Marked(job[j]).sent = job[j].sent + 1
        BY <1>0 DEF Marked, JobRow
      <4>4. /\ Enveloped(job[j]) /\ job[j].sent \in Nat /\ job[j].attempt \in Nat
            /\ MaxAttempts \in Nat
        BY <1>0
      <4> QED
        BY <4>1, <4>2, <4>3, <4>4 DEF Enveloped
    <3> QED
      BY <3>1, <3>2
  <2> QED
    BY <2>1, <2>2, <2>3, <2>4, <1>0, EnvelopeRows
<1>4. CASE Collect
  <2>1. UNCHANGED job /\ \A r \in results' : r.pc # "read" => r \in results
    BY <1>4 DEF Collect, runJob
  <2> QED
    BY <2>1, <1>0, EnvelopeRows
<1>5. ASSUME NEW r \in results, GetAgentJob(r) PROVE EnvelopeInv'
  <2>1. UNCHANGED job /\ \A s \in results' : s \in results \/ s = Read(r)
    BY <1>5 DEF GetAgentJob
  <2>2. Read(r).job = r.job /\ Read(r).attempt = job[r.job].attempt
    BY <1>0 DEF Read, ResultRec
  <2>3. Enveloped(job[r.job])
    BY <1>0
  <2>4. ASSUME NEW s \in results', s.pc # "read", job[s.job].kind = "collect_os"
        PROVE  job[s.job].sent <= s.attempt + 1
    <3>1. CASE s \in results
      BY <3>1, <2>4 DEF EnvelopeInv
    <3>2. CASE s = Read(r)
      BY <3>2, <2>2, <2>3, <2>4 DEF Enveloped
    <3> QED
      BY <2>1, <3>1, <3>2
  <2>5. \A j \in JobIds : Enveloped(job[j])'
    BY <2>1, <1>0 DEF Enveloped
  <2> QED
    BY <2>1, <2>4, <2>5 DEF EnvelopeInv
<1>6. ASSUME NEW r \in results, Persist(r) PROVE EnvelopeInv'
  <2>1. PICK s \in {[r EXCEPT !.pc = "finish"], [r EXCEPT !.pc = "finish", !.status = "failed"]} :
          UNCHANGED job /\ results' = (results \ {r}) \cup {s}
    BY <1>6 DEF Persist
  <2>2. s.job = r.job /\ s.attempt = r.attempt
    BY <1>0, <2>1 DEF ResultRec
  <2>3. r.pc # "read"
    BY <1>6 DEF Persist
  <2>4. \A t \in results' : t.pc # "read" /\ job[t.job].kind = "collect_os" =>
          job[t.job].sent <= t.attempt + 1
    BY <2>1, <2>2, <2>3 DEF EnvelopeInv
  <2>5. \A j \in JobIds : Enveloped(job[j])'
    BY <2>1, <1>0 DEF Enveloped
  <2> QED
    BY <2>1, <2>4, <2>5 DEF EnvelopeInv
<1>7. ASSUME NEW r \in results, NEW row, Enveloped(row), Update(r.job, row), results' = results \ {r}
      PROVE  EnvelopeInv'
  <2>1. \A j \in JobIds : j # r.job => job'[j] = job[j]
    BY <1>0, <1>7 DEF Update, TypeOK
  <2>2. \A s \in results' : s \in results /\ s.job # r.job
    BY <1>7 DEF HandInv, Reports
  <2>3. \A j \in JobIds : Enveloped(job'[j])
    <3>1. job'[r.job] = row \/ job'[r.job] = job[r.job]
      BY <1>0, <1>7 DEF Update, TypeOK
    <3> QED
      BY <2>1, <3>1, <1>0, <1>7
  <2> QED
    BY <2>1, <2>2, <2>3, <1>0, EnvelopeRows
<1>8. ASSUME NEW r \in results, RequeueAgentJob(r) PROVE EnvelopeInv'
  <2>1. /\ Update(r.job, Requeued(job[r.job], r.category)) /\ results' = results \ {r}
        /\ r.pc = "finish" /\ r.kind = "collect_os" /\ r.attempt + 1 < MaxAttempts
    BY <1>8 DEF RequeueAgentJob, Retries
  <2>2. r.kind = job[r.job].kind
    BY <2>1 DEF EvidenceInv
  <2>3. job[r.job].sent <= r.attempt + 1
    BY <2>1, <2>2 DEF EnvelopeInv
  <2>4. /\ Requeued(job[r.job], r.category).sent = job[r.job].sent
        /\ Requeued(job[r.job], r.category).attempt = job[r.job].attempt + 1
    BY <1>0 DEF Requeued, JobRow
  <2>5. job[r.job].kind = "collect_os" /\ Enveloped(job[r.job])
    BY <1>0, <2>1, <2>2
  <2>6. job[r.job].sent \in Nat /\ job[r.job].attempt \in Nat /\ r.attempt \in Nat /\ MaxAttempts \in Nat
    BY <1>0
  <2>7. Enveloped(Requeued(job[r.job], r.category))
    BY <2>1, <2>3, <2>4, <2>5, <2>6 DEF Enveloped
  <2> QED
    BY <2>1, <2>7, <1>7
<1>9. ASSUME NEW r \in results, CompleteAgentJob(r) PROVE EnvelopeInv'
  <2>1. Update(r.job, Completed(job[r.job], r.status, r.category)) /\ results' = results \ {r}
    BY <1>9 DEF CompleteAgentJob
  <2>2. /\ Completed(job[r.job], r.status, r.category).sent = job[r.job].sent
        /\ Completed(job[r.job], r.status, r.category).attempt = job[r.job].attempt
        /\ Completed(job[r.job], r.status, r.category).kind = job[r.job].kind
        /\ Completed(job[r.job], r.status, r.category).status # "queued"
    BY <1>0 DEF Completed, JobRow, ResultRec
  <2>3. Enveloped(job[r.job])
    BY <1>0
  <2>4. Enveloped(Completed(job[r.job], r.status, r.category))
    BY <2>2, <2>3, EnvelopedSame
  <2> QED
    BY <2>1, <2>4, <1>7
<1>10. ASSUME NEW j \in JobIds, RequeueStaleAgentJobs(j) PROVE EnvelopeInv'
  <2>1. Update(j, Reaped(job[j])) /\ results' = results
    BY <1>10 DEF RequeueStaleAgentJobs
  <2>2. /\ Reaped(job[j]).sent = job[j].sent /\ Reaped(job[j]).kind = job[j].kind
        /\ Reaped(job[j]).attempt = job[j].attempt + 1
        /\ Reaped(job[j]).status = "queued" => job[j].attempt + 1 < MaxAttempts
    <3>1. CASE job[j].attempt + 1 >= MaxAttempts
      BY <3>1, <1>0 DEF Reaped, JobRow
    <3>2. CASE ~(job[j].attempt + 1 >= MaxAttempts)
      BY <3>2, <1>0 DEF Reaped, JobRow
    <3> QED
      BY <3>1, <3>2
  <2>3. Enveloped(job[j]) /\ job[j].sent \in Nat /\ job[j].attempt \in Nat /\ MaxAttempts \in Nat
    BY <1>0
  <2>4. Enveloped(Reaped(job[j]))
    BY <2>2, <2>3 DEF Enveloped
  <2>5. \A k \in JobIds : job'[k] = job[k] \/ (k = j /\ job'[k] = Reaped(job[j]))
    BY <2>1 DEF Update, TypeOK
  <2>6. \A k \in JobIds : /\ Enveloped(job'[k]) /\ job'[k].sent = job[k].sent
                          /\ job'[k].kind = job[k].kind
    BY <2>2, <2>4, <2>5, <1>0
  <2> QED
    BY <2>1, <2>6, <1>0, EnvelopeRows
<1>11. ASSUME \A k \in JobIds : /\ job'[k].kind = job[k].kind /\ job'[k].sent = job[k].sent
                                /\ job'[k].attempt = job[k].attempt
                                /\ job'[k].status \in {job[k].status, "deleted"},
              results' \subseteq results
       PROVE  EnvelopeInv'
  <2>1. \A k \in JobIds : Enveloped(job'[k])
    BY <1>0, <1>11, EnvelopedSame
  <2> QED
    BY <2>1, <1>0, <1>11, EnvelopeRows
<1>12. ASSUME NEW j \in JobIds, BackoffElapses(j) \/ CooldownElapses(j) PROVE EnvelopeInv'
  <2>1. \A k \in JobIds : /\ job'[k].kind = job[k].kind /\ job'[k].sent = job[k].sent
                          /\ job'[k].attempt = job[k].attempt /\ job'[k].status = job[k].status
    <3>1. job[j] \in JobRow
      BY <1>0
    <3> QED
      BY <1>12, <3>1 DEF BackoffElapses, CooldownElapses, TypeOK, JobRow
  <2>2. results' = results
    BY <1>12 DEF BackoffElapses, CooldownElapses
  <2> QED
    BY <2>1, <2>2, <1>11
<1>13. CASE Operator /\ ~Inserts
  <2>1. results' = results
    BY <1>13 DEF Operator, enqueueAgentTest, patchRelayAgent, deleteRelayAgent, deleteDevice,
                 DirectCollect
  <2>2. ASSUME NEW a \in Agents, enqueueAgentTest(a) PROVE EnvelopeInv'
    <3>1. /\ nextId <= MaxJobs /\ job' = [job EXCEPT ![nextId] = NewJob(a, NoDevice, "test", FALSE)]
      BY <2>2 DEF enqueueAgentTest
    <3>2. /\ NewJob(a, NoDevice, "test", FALSE).kind = "test"
      BY DEF NewJob
    <3>3. Enveloped(NewJob(a, NoDevice, "test", FALSE))
      BY <3>2 DEF Enveloped
    <3>4. \A k \in JobIds : job'[k] = job[k] \/ job'[k] = NewJob(a, NoDevice, "test", FALSE)
      BY <3>1 DEF TypeOK
    <3>5. \A k \in JobIds : k < nextId => job'[k] = job[k]
      <4>1. \A k \in JobIds : k < nextId => k # nextId
        BY <1>0
      <4> QED
        BY <3>1, <4>1 DEF TypeOK
    <3>6. \A k \in JobIds : Enveloped(job'[k])
      BY <3>3, <3>4, <1>0
    <3> QED
      BY <2>1, <3>5, <3>6, <1>0, EnvelopeRows
  <2>3. ASSUME NEW a \in Agents, deleteRelayAgent(a) PROVE EnvelopeInv'
    <3>1. \A k \in JobIds : /\ job'[k].kind = job[k].kind /\ job'[k].sent = job[k].sent
                            /\ job'[k].attempt = job[k].attempt
                            /\ job'[k].status \in {job[k].status, "deleted"}
      BY <2>3, <1>0 DEF deleteRelayAgent, JobRow
    <3> QED
      BY <2>1, <3>1, <1>11
  <2>4. ASSUME NEW d \in Devices, deleteDevice(d) PROVE EnvelopeInv'
    <3>1. \A k \in JobIds : /\ job'[k].kind = job[k].kind /\ job'[k].sent = job[k].sent
                            /\ job'[k].attempt = job[k].attempt
                            /\ job'[k].status = job[k].status
      BY <2>4, <1>0 DEF deleteDevice, JobRow
    <3> QED
      BY <2>1, <3>1, <1>11
  <2>5. ASSUME NEW a \in Agents, patchRelayAgent(a) PROVE UNCHANGED job
    BY <2>5 DEF patchRelayAgent
  <2>6. ASSUME NEW d \in Devices, DirectCollect(d) PROVE UNCHANGED job
    BY <2>6 DEF DirectCollect
  <2> QED
    BY <1>13, <1>1, <2>1, <2>2, <2>3, <2>4, <2>5, <2>6 DEF Operator
<1>14. CASE Loss
  <2>1. UNCHANGED job /\ results' \subseteq results
    BY <1>14 DEF Loss, PollLost, AgentCrash, PostLost, WriteFails, ApiCrash
  <2> QED
    BY <2>1, <1>11
<1>15. CASE Enqueue /\ ~Inserts
  <2>1. UNCHANGED <<job, results>>
    <3>1. results' = results
      BY <1>15 DEF Enqueue, routeViaSiteAgent, CreateAgentJob, SelfHealList, SelfHealRoute
    <3>2. nextId' = nextId
      BY <1>15, RowHistory DEF Next, Core
    <3>3. UNCHANGED job
      BY <1>15, <1>0, <3>2 DEF Enqueue, routeViaSiteAgent, CreateAgentJob, SelfHealList,
                               SelfHealRoute
    <3> QED
      BY <3>1, <3>3
  <2> QED
    BY <2>1, <1>1
<1>16. CASE Dispatch
  <2>1. ASSUME NEW a \in Agents, PollCount(a) \/ PollList(a) \/ PollReply(a)
        PROVE  UNCHANGED <<job, results>>
    BY <2>1 DEF PollCount, PollList, PollReply
  <2> QED
    BY <1>16, <1>1, <1>3, <2>1 DEF Dispatch
<1>17. CASE UNCHANGED vars
  BY <1>17, <1>1 DEF vars
<1> QED
  BY <1>2, <1>4, <1>5, <1>6, <1>8, <1>9, <1>10, <1>12, <1>13, <1>14, <1>15, <1>16, <1>17
  DEF Core, Report, Time

(* The counters hold while agents wait for their answers. *)
LEMMA EnvelopeKept == AttachedSpec => []EnvelopeInv
<1>1. Init => EnvelopeInv
  <2> SUFFICES ASSUME Init PROVE EnvelopeInv
    OBVIOUS
  <2>1. \A j \in JobIds : job[j].kind = "test"
    BY DEF Init, NoJob, NewJob
  <2>2. results = {}
    BY DEF Init
  <2> QED
    BY <2>1, <2>2 DEF EnvelopeInv, Enveloped
<1>2. /\ TypeOK /\ TypeOK' /\ EvidenceInv /\ HandInv /\ EnvelopeInv
      /\ [Core \/ Operator \/ Loss]_vars
      => EnvelopeInv'
  BY EnvelopeStep
<1> QED
  BY <1>1, <1>2, AttachedIsSpec, TypeCorrect, EvidenceKept, HandKept, PTL DEF AttachedSpec

(* RetryEnvelope is an invariant when agents wait for their answers: for every
   number of agents, devices and attempts, however the reaper's requeues and the
   reported failures interleave, no collection is dispatched more than
   max_attempts times. *)
THEOREM WithinEnvelope == AttachedSpec => []RetryEnvelope
<1>1. EnvelopeInv => RetryEnvelope
  BY DEF EnvelopeInv, Enveloped, RetryEnvelope
<1> QED
  BY <1>1, EnvelopeKept, PTL

-----------------------------------------------------------------------------
(* Orders.  KeepsOrders is a refinement, and the mapping alone does not carry it.
   A handler that will requeue must not meet a row the reaper has failed for
   good: while the row is dispatched its copy of the attempt is the row's, the
   reaper is the only one to act on the row until the handler is done, and both
   stop at the same attempt.  And who is answered was handed the job. *)
Unanswered(row) == row.status = "failed" /\ row.category = "agent_no_result"

WasHanded == /\ \A j \in JobIds : /\ job[j].status = "dispatched" => job[j].sent > 0
                                  /\ job[j].status = "none" => job[j].sent = 0
             /\ \A a \in Agents : \A j \in Held(a) : job[j].sent > 0 \/ job[j].status = "deleted"

LastAttempt ==
  /\ \A j \in JobIds : Unanswered(job[j]) /\ job[j].kind = "collect_os" =>
       job[j].attempt + 1 >= MaxAttempts
  /\ \A r \in results : r.pc # "read" =>
       /\ r.attempt <= job[r.job].attempt
       /\ job[r.job].status = "dispatched" => r.attempt = job[r.job].attempt
       /\ Unanswered(job[r.job]) /\ job[r.job].kind = "collect_os" =>
            r.attempt + 1 >= MaxAttempts

(* Most steps change nothing of a row that an order shows, give nobody a job and
   copy an attempt only from the row itself. *)
RowKept(j) ==
  /\ job'[j].status = job[j].status /\ job'[j].kind = job[j].kind
  /\ job'[j].category = job[j].category /\ job'[j].sent = job[j].sent
  /\ job'[j].attempt = job[j].attempt

Copied(r) ==
  \/ r.attempt = job[r.job].attempt
  \/ \E s \in results : s.pc # "read" /\ s.job = r.job /\ s.attempt = r.attempt

HandsKept == /\ \A a \in Agents : Held(a)' \subseteq Held(a)
             /\ \A r \in results' : r.pc # "read" => r.job \in JobIds /\ Copied(r)

Calm == HandsKept /\ \A j \in JobIds : RowKept(j)

(* The rest: an insert, one UPDATE of one row, or the deletion of an agent. *)
Busy ==
  \/ Inserts
  \/ \E a \in Agents, j \in JobIds : MarkAgentJobDispatched(a, j)
  \/ \E r \in results : RequeueAgentJob(r) \/ CompleteAgentJob(r)
  \/ \E j \in JobIds : RequeueStaleAgentJobs(j)
  \/ \E a \in Agents : deleteRelayAgent(a)

(* Hands and handlers that only lose something. *)
LEMMA FewerHands ==
  ASSUME TypeOK, results' \subseteq results, \A a \in Agents : Held(a)' \subseteq Held(a)
  PROVE  HandsKept
BY HandTypes DEF HandsKept, Copied

(* A handler moved on with the attempt it had, or with the row's. *)
LEMMA HandlerMoves ==
  ASSUME TypeOK, NEW r \in results, NEW s, results' = (results \ {r}) \cup {s}, s.job = r.job,
         \/ s.attempt = job[r.job].attempt
         \/ r.pc # "read" /\ s.attempt = r.attempt,
         UNCHANGED <<poll, running, posting>>
  PROVE  HandsKept
<1>1. \A a \in Agents : Held(a)' = Held(a)
  BY DEF Held
<1>2. r.job \in JobIds
  BY HandTypes
<1>3. Copied(s)
  BY DEF Copied
<1>4. \A t \in results : t.pc # "read" => t.job \in JobIds /\ Copied(t)
  BY HandTypes DEF Copied
<1> QED
  BY <1>1, <1>2, <1>3, <1>4 DEF HandsKept

(* Every step is calm or one of the busy ones. *)
LEMMA CalmOrBusy ==
  ASSUME TypeOK, TypeOK', EvidenceInv, HandInv, [Core \/ Operator \/ Loss]_vars
  PROVE  Calm \/ Busy
<1> USE DEF db, api, site
<1>0. \A k \in JobIds : job[k] \in JobRow
  BY DEF TypeOK
<1>1. UNCHANGED job => \A k \in JobIds : RowKept(k)
  BY DEF RowKept
<1>2. UNCHANGED <<poll, running, posting, results>> => HandsKept
  <2> SUFFICES ASSUME UNCHANGED <<poll, running, posting, results>> PROVE HandsKept
    OBVIOUS
  <2>1. \A a \in Agents : Held(a)' = Held(a)
    BY DEF Held
  <2> QED
    BY <2>1, FewerHands
<1>3. CASE UNCHANGED vars
  BY <1>1, <1>2, <1>3 DEF vars, Calm
<1>4. CASE Enqueue
  <2>1. UNCHANGED <<poll, running, posting, results>>
    BY <1>4 DEF Enqueue, routeViaSiteAgent, CreateAgentJob, SelfHealList, SelfHealRoute
  <2>2. CASE Inserts
    BY <2>2 DEF Busy
  <2>3. CASE ~Inserts
    <3>1. nextId' = nextId /\ nextId \in Nat
      BY <1>4, <2>3, RowHistory, HandTypes DEF Next, Core
    <3>2. UNCHANGED job
      BY <1>4, <3>1 DEF Enqueue, routeViaSiteAgent, CreateAgentJob, SelfHealList, SelfHealRoute
    <3> QED
      BY <1>1, <1>2, <2>1, <3>2 DEF Calm
  <2> QED
    BY <2>2, <2>3
<1>5. CASE Dispatch
  <2> PICK a \in Agents : \/ PollCount(a) \/ PollList(a) \/ PollReply(a)
                          \/ \E j \in JobIds : MarkAgentJobDispatched(a, j)
    BY <1>5 DEF Dispatch
  <2>0. IdlePoll.out = {}
    BY DEF IdlePoll
  <2>1. CASE PollCount(a) \/ PollList(a)
    <3>1. UNCHANGED <<job, results, running, posting>>
      BY <2>1 DEF PollCount, PollList
    <3>2. \A b \in Agents : b # a => poll'[b] = poll[b]
      BY <2>1 DEF PollCount, PollList, TypeOK
    <3>3. poll'[a].out = {}
      <4>1. CASE PollCount(a)
        BY <4>1 DEF PollCount, TypeOK, IdlePoll
      <4>2. CASE PollList(a)
        <5>1. PICK rows : poll'[a] \in {IdlePoll, [IdlePoll EXCEPT !.pc = "mark", !.rows = rows]}
          BY <4>2 DEF PollList, TypeOK
        <5>2. [IdlePoll EXCEPT !.pc = "mark", !.rows = rows].out = {}
          BY DEF IdlePoll
        <5> QED
          BY <2>0, <5>1, <5>2
      <4> QED
        BY <2>1, <4>1, <4>2
    <3>4. \A b \in Agents : Held(b)' \subseteq Held(b)
      BY <3>1, <3>2, <3>3 DEF Held
    <3> QED
      BY <1>1, <3>1, <3>4, FewerHands DEF Calm
  <2>2. CASE PollReply(a)
    <3>1. UNCHANGED <<job, results, posting>>
      BY <2>2 DEF PollReply
    <3>2. /\ \A b \in Agents : b # a => poll'[b] = poll[b] /\ running'[b] = running[b]
          /\ poll'[a] = IdlePoll /\ running'[a] = poll[a].out
      BY <2>2 DEF PollReply, TypeOK
    <3>3. \A b \in Agents : Held(b)' \subseteq Held(b)
      BY <2>0, <3>1, <3>2 DEF Held
    <3> QED
      BY <1>1, <3>1, <3>3, FewerHands DEF Calm
  <2>3. CASE \E j \in JobIds : MarkAgentJobDispatched(a, j)
    BY <2>3 DEF Busy
  <2> QED
    BY <2>1, <2>2, <2>3
<1>6. CASE Collect
  <2> PICK a \in Agents, j \in JobIds, o \in Outcomes : runJob(a, j, o[1], o[2])
    BY <1>6 DEF Collect
  <2>1. /\ UNCHANGED <<job, poll>> /\ j \in running[a]
        /\ \A b \in Agents : b # a => running'[b] = running[b] /\ posting'[b] = posting[b]
        /\ running'[a] = running[a] \ {j} /\ posting'[a] = posting[a] \cup {j}
        /\ \A r \in results' : r.pc # "read" => r \in results
    BY DEF runJob, TypeOK
  <2>2. \A b \in Agents : Held(b)' \subseteq Held(b)
    BY <2>1 DEF Held
  <2>3. HandsKept
    BY <2>1, <2>2, HandTypes DEF HandsKept, Copied
  <2> QED
    BY <1>1, <2>1, <2>3 DEF Calm
<1>7. CASE Report
  <2> PICK r \in results : \/ GetAgentJob(r) \/ Persist(r)
                           \/ RequeueAgentJob(r) \/ CompleteAgentJob(r)
    BY <1>7 DEF Report
  <2>0. r \in ResultRec /\ r.agent \in Agents
    BY HandTypes
  <2>1. CASE GetAgentJob(r)
    <3>1. UNCHANGED <<job, poll, running>>
      BY <2>1 DEF GetAgentJob
    <3>2. CASE results' = (results \ {r}) \cup {Read(r)} /\ UNCHANGED posting
      <4>1. Read(r).job = r.job /\ Read(r).attempt = job[r.job].attempt
        BY <2>0 DEF Read, ResultRec
      <4>2. HandsKept
        BY <3>1, <3>2, <4>1, HandlerMoves
      <4> QED
        BY <1>1, <3>1, <4>2 DEF Calm
    <3>3. CASE results' = results \ {r} /\ Answered(r)
      <4>1. \A a \in Agents : Held(a)' \subseteq Held(a)
        BY <2>0, <3>1, <3>3 DEF Answered, Held, TypeOK
      <4> QED
        BY <1>1, <3>1, <3>3, <4>1, FewerHands DEF Calm
    <3> QED
      BY <2>1, <3>2, <3>3 DEF GetAgentJob
  <2>2. CASE Persist(r)
    <3>1. UNCHANGED <<job, poll, running, posting>> /\ r.pc # "read"
      BY <2>2 DEF Persist
    <3>2. PICK s \in {[r EXCEPT !.pc = "finish"], [r EXCEPT !.pc = "finish", !.status = "failed"]} :
            results' = (results \ {r}) \cup {s}
      BY <2>2 DEF Persist
    <3>3. s.job = r.job /\ s.attempt = r.attempt
      BY <2>0, <3>2 DEF ResultRec
    <3>4. HandsKept
      BY <3>1, <3>2, <3>3, HandlerMoves
    <3> QED
      BY <1>1, <3>1, <3>4 DEF Calm
  <2>3. CASE RequeueAgentJob(r) \/ CompleteAgentJob(r)
    BY <2>3 DEF Busy
  <2> QED
    BY <2>1, <2>2, <2>3
<1>8. CASE Time
  <2> PICK j \in JobIds : \/ RequeueStaleAgentJobs(j)
                         \/ BackoffElapses(j) \/ CooldownElapses(j)
    BY <1>8 DEF Time
  <2>1. CASE RequeueStaleAgentJobs(j)
    BY <2>1 DEF Busy
  <2>2. CASE BackoffElapses(j) \/ CooldownElapses(j)
    <3>1. \A k \in JobIds : RowKept(k)
      BY <1>0, <2>2 DEF BackoffElapses, CooldownElapses, TypeOK, JobRow, RowKept
    <3>2. UNCHANGED <<poll, running, posting, results>>
      BY <2>2 DEF BackoffElapses, CooldownElapses
    <3> QED
      BY <1>2, <3>1, <3>2 DEF Calm
  <2> QED
    BY <2>1, <2>2
<1>9. CASE Operator
  <2>1. ASSUME NEW a \in Agents, enqueueAgentTest(a) PROVE Busy
    <3>1. Next
      BY <1>9 DEF Next
    <3>2. nextId \in Nat /\ nextId' = nextId + 1
      BY <2>1, HandTypes DEF enqueueAgentTest
    <3>3. nextId' # nextId
      BY <3>2
    <3> QED
      BY <3>1, <3>3, RowHistory DEF Busy
  <2>2. ASSUME NEW a \in Agents, patchRelayAgent(a) PROVE Calm
    BY <1>1, <1>2, <2>2 DEF patchRelayAgent, Calm
  <2>3. ASSUME NEW a \in Agents, deleteRelayAgent(a) PROVE Busy
    BY <2>3 DEF Busy
  <2>4. ASSUME NEW d \in Devices, deleteDevice(d) PROVE Calm
    <3>1. \A k \in JobIds : RowKept(k)
      BY <1>0, <2>4 DEF deleteDevice, JobRow, RowKept
    <3> QED
      BY <1>2, <2>4, <3>1 DEF deleteDevice, Calm
  <2>5. ASSUME NEW d \in Devices, DirectCollect(d) PROVE Calm
    BY <1>1, <1>2, <2>5 DEF DirectCollect, Calm
  <2> QED
    BY <1>9, <2>1, <2>2, <2>3, <2>4, <2>5 DEF Operator
<1>10. CASE Loss
  <2>1. UNCHANGED job /\ results' \subseteq results
    BY <1>10 DEF Loss, PollLost, AgentCrash, PostLost, WriteFails, ApiCrash
  <2>2. ASSUME NEW b \in Agents
        PROVE  /\ poll'[b] \in {poll[b], IdlePoll} /\ running'[b] \subseteq running[b]
               /\ posting'[b] \subseteq posting[b]
    <3>1. ASSUME NEW a \in Agents, \/ PollLost(a) \/ AgentCrash(a)
                                   \/ \E j \in JobIds : PostLost(a, j)
          PROVE  /\ poll'[b] \in {poll[b], IdlePoll} /\ running'[b] \subseteq running[b]
                 /\ posting'[b] \subseteq posting[b]
      BY <3>1 DEF PollLost, AgentCrash, PostLost, TypeOK
    <3>2. ASSUME NEW r \in results, WriteFails(r)
          PROVE  /\ poll'[b] = poll[b] /\ running'[b] = running[b] /\ posting'[b] \subseteq posting[b]
      BY <3>2 DEF WriteFails, Answered, TypeOK
    <3>3. CASE ApiCrash
      BY <3>3 DEF ApiCrash
    <3> QED
      BY <1>10, <3>1, <3>2, <3>3 DEF Loss
  <2>3. IdlePoll.out = {}
    BY DEF IdlePoll
  <2>4. \A b \in Agents : Held(b)' \subseteq Held(b)
    BY <2>2, <2>3 DEF Held
  <2> QED
    BY <1>1, <2>1, <2>4, FewerHands DEF Calm
<1> QED
  BY <1>3, <1>4, <1>5, <1>6, <1>7, <1>8, <1>9, <1>10 DEF Core

(* What the statements make of a row. *)
LEMMA MarkedRow ==
  ASSUME NEW row \in JobRow
  PROVE  /\ Marked(row).status = "dispatched" /\ Marked(row).kind = row.kind
         /\ Marked(row).sent = row.sent + 1 /\ Marked(row).attempt = row.attempt
BY DEF Marked, JobRow

LEMMA RequeuedRow ==
  ASSUME NEW row \in JobRow, NEW cat
  PROVE  /\ Requeued(row, cat).status = "queued" /\ Requeued(row, cat).kind = row.kind
         /\ Requeued(row, cat).sent = row.sent /\ Requeued(row, cat).attempt = row.attempt + 1
BY DEF Requeued, JobRow

LEMMA CompletedRow ==
  ASSUME NEW row \in JobRow, NEW st, NEW cat
  PROVE  /\ Completed(row, st, cat).status = st /\ Completed(row, st, cat).kind = row.kind
         /\ Completed(row, st, cat).sent = row.sent /\ Completed(row, st, cat).category = cat
         /\ Completed(row, st, cat).attempt = row.attempt
BY DEF Completed, JobRow

LEMMA ReapedRow ==
  ASSUME NEW row \in JobRow
  PROVE  /\ Reaped(row).kind = row.kind /\ Reaped(row).sent = row.sent
         /\ Reaped(row).attempt = row.attempt + 1
         /\ \/ Reaped(row).status = "queued"
            \/ Unanswered(Reaped(row)) /\ row.attempt + 1 >= MaxAttempts
<1>1. CASE row.attempt + 1 >= MaxAttempts
  BY <1>1 DEF Reaped, JobRow, Unanswered
<1>2. CASE ~(row.attempt + 1 >= MaxAttempts)
  BY <1>2 DEF Reaped, JobRow
<1> QED
  BY <1>1, <1>2

(* Only one row changes. *)
OnlyRow(j) == \A k \in JobIds : k # j => job'[k] = job[k]

(* The busy steps, as what they do to their row. *)
LEMMA MarkStep ==
  ASSUME TypeOK, EvidenceInv, HandInv, NEW a \in Agents, NEW j \in JobIds,
         MarkAgentJobDispatched(a, j)
  PROVE  /\ OnlyRow(j) /\ results' = results /\ \A r \in results : r.job # j
         /\ \/ job'[j] = Marked(job[j]) /\ job[j].status = "queued"
            \/ job'[j] = job[j] /\ job[j].status = "deleted"
         /\ \A b \in Agents : Held(b)' \subseteq Held(b) \cup {j}
<1>1. j \in poll[a].rows /\ Update(j, Marked(job[j])) /\ UNCHANGED <<results, running, posting>>
  BY DEF MarkAgentJobDispatched, site
<1>2. \A r \in results : r.job # j
  BY <1>1, ReportedOnce
<1>3. OnlyRow(j) /\ job'[j] \in {Marked(job[j]), job[j]} /\ (Exists(j) => job'[j] = Marked(job[j]))
  BY <1>1 DEF OnlyRow, Update, TypeOK
<1>4. job[j].status \in {"queued", "deleted"}
  BY <1>1 DEF HandInv, Open
<1>5. ~Exists(j) => job'[j] = job[j]
  BY <1>1 DEF Update
<1>6. poll[a] \in PollRec
  BY HandTypes
<1>7. /\ poll'[a].out = poll[a].out \cup {j}
      /\ \A b \in Agents : b # a => poll'[b] = poll[b]
  BY <1>6 DEF MarkAgentJobDispatched, TypeOK, PollRec
<1>8. \A b \in Agents : Held(b)' \subseteq Held(b) \cup {j}
  BY <1>1, <1>7 DEF Held
<1> QED
  BY <1>1, <1>2, <1>3, <1>4, <1>5, <1>8 DEF Exists

LEMMA AnswerStep ==
  ASSUME TypeOK, HandInv, NEW r \in results, RequeueAgentJob(r) \/ CompleteAgentJob(r)
  PROVE  /\ r.job \in JobIds /\ r.pc = "finish" /\ r.status \in {"done", "failed"}
         /\ OnlyRow(r.job) /\ \A s \in results' : s \in results /\ s.job # r.job
         /\ \/ job'[r.job] = job[r.job] /\ ~Exists(r.job)
            \/ Exists(r.job) /\ Retries(r) /\ job'[r.job] = Requeued(job[r.job], r.category)
            \/ /\ Exists(r.job) /\ ~Retries(r)
               /\ job'[r.job] = Completed(job[r.job], r.status, r.category)
         /\ \A b \in Agents : Held(b)' \subseteq Held(b) /\ r.job \notin Held(b)'
         /\ r.agent \in Agents /\ r.job \in Held(r.agent)
<1>1. r.job \in JobIds /\ r.agent \in Agents /\ r.status \in {"done", "failed"}
  BY HandTypes DEF ResultRec
<1>2. \/ Retries(r) /\ Update(r.job, Requeued(job[r.job], r.category))
      \/ ~Retries(r) /\ Update(r.job, Completed(job[r.job], r.status, r.category))
  BY DEF RequeueAgentJob, CompleteAgentJob
<1>3. /\ OnlyRow(r.job)
      /\ \/ job'[r.job] = job[r.job] /\ ~Exists(r.job)
         \/ Exists(r.job) /\ Retries(r) /\ job'[r.job] = Requeued(job[r.job], r.category)
         \/ /\ Exists(r.job) /\ ~Retries(r)
            /\ job'[r.job] = Completed(job[r.job], r.status, r.category)
  BY <1>1, <1>2 DEF OnlyRow, Update, TypeOK
<1>4. r.pc = "finish" /\ results' = results \ {r} /\ Answered(r) /\ UNCHANGED <<poll, running>>
  BY DEF RequeueAgentJob, CompleteAgentJob
<1>5. \A s \in results' : s \in results /\ s.job # r.job
  BY <1>4 DEF HandInv, Reports
<1>6. r.job \in Held(r.agent)
  BY <1>1 DEF HandInv, Reports, Held
<1>7. \A b \in Agents : posting'[b] \subseteq posting[b] /\ r.job \notin posting'[b]
  BY <1>1, <1>4, ReportedOnce DEF Answered, TypeOK
<1>8. \A b \in Agents : Held(b)' \subseteq Held(b) /\ r.job \notin Held(b)'
  BY <1>4, <1>7, ReportedOnce DEF Held
<1> QED
  BY <1>1, <1>3, <1>4, <1>5, <1>6, <1>8

LEMMA ReapStep ==
  ASSUME TypeOK, NEW j \in JobIds, RequeueStaleAgentJobs(j)
  PROVE  /\ OnlyRow(j) /\ job[j].kind = "collect_os" /\ job[j].status = "dispatched"
         /\ job'[j] = Reaped(job[j]) /\ results' = results
         /\ \A b \in Agents : Held(b)' = Held(b)
BY DEF RequeueStaleAgentJobs, OnlyRow, Update, Exists, TypeOK, Held, api, site

LEMMA DeleteStep ==
  ASSUME TypeOK, NEW a \in Agents, deleteRelayAgent(a)
  PROVE  /\ \A k \in JobIds : \/ RowKept(k)
                              \/ /\ Exists(k) /\ job'[k].status = "deleted"
                                 /\ job'[k].kind = job[k].kind /\ job'[k].sent = job[k].sent
                                 /\ job'[k].attempt = job[k].attempt
         /\ results' = results /\ \A b \in Agents : Held(b)' = Held(b)
<1>1. \A k \in JobIds : job[k] \in JobRow
  BY DEF TypeOK
<1> QED
  BY <1>1 DEF deleteRelayAgent, JobRow, RowKept, Held, api, site

LEMMA NewRow ==
  ASSUME TypeOK, EvidenceInv, HandInv, Inserts
  PROVE  \E k \in {"collect_os", "test"} :
           /\ nextId \in JobIds /\ OnlyRow(nextId) /\ job[nextId].status = "none"
           /\ job'[nextId].kind = k /\ job'[nextId].status = "queued"
           /\ job'[nextId].sent = 0 /\ job'[nextId].attempt = 0
           /\ results' = results /\ \A r \in results : r.job # nextId
           /\ \A b \in Agents : Held(b)' = Held(b) /\ nextId \notin Held(b)
<1>1. PICK a \in Agents, d \in exists \cup {NoDevice}, c \in {"collect_os", "test"},
           h \in BOOLEAN :
        /\ nextId <= MaxJobs /\ job' = [job EXCEPT ![nextId] = NewJob(a, d, c, h)]
        /\ results' = results /\ poll' = poll /\ running' = running /\ posting' = posting
  BY Zenon DEF Inserts
<1>2. nextId \in JobIds /\ nextId \in Nat
  BY <1>1, RelayAssumption DEF TypeOK, JobIds
<1>3. /\ NewJob(a, d, c, h).sent = 0 /\ NewJob(a, d, c, h).attempt = 0
      /\ NewJob(a, d, c, h).kind = c /\ NewJob(a, d, c, h).status = "queued"
  BY DEF NewJob
<1>4. OnlyRow(nextId) /\ job'[nextId] = NewJob(a, d, c, h)
  BY <1>1, <1>2 DEF OnlyRow, TypeOK
<1>5. job[nextId].status = "none"
  <2>1. nextId >= nextId
    BY <1>2
  <2> QED
    BY <1>2, <2>1 DEF EvidenceInv
<1>6. \A r \in results : r.job # nextId
  <2>1. \A r \in results : r.job < nextId
    BY ReportedOnce, RelayAssumption
  <2>2. ~(nextId < nextId)
    BY <1>2
  <2> QED
    BY <2>1, <2>2
<1>7. \A b \in Agents : Held(b)' = Held(b) /\ nextId \notin Held(b)
  <2>1. ~(nextId < nextId)
    BY <1>2
  <2> QED
    BY <1>1, <2>1 DEF HandInv, Mine, Held
<1> QED
  BY <1>1, <1>2, <1>3, <1>4, <1>5, <1>6, <1>7

(* The counters are numbers. *)
LEMMA Counters ==
  ASSUME TypeOK
  PROVE  /\ \A k \in JobIds : job[k] \in JobRow /\ job[k].sent \in Nat /\ job[k].attempt \in Nat
         /\ \A r \in results : r.job \in JobIds /\ r.attempt \in Nat
         /\ MaxAttempts \in Nat \ {0}
BY HandTypes, RelayAssumption DEF JobRow, ResultRec

(* Nobody holds a job that was never handed out. *)
LEMMA HandedStep ==
  ASSUME TypeOK, TypeOK', EvidenceInv, HandInv, WasHanded, [Core \/ Operator \/ Loss]_vars
  PROVE  WasHanded'
<1>0. \A b \in Agents : Held(b) \subseteq JobIds
  BY HandTypes
<1>1. CASE Calm
  BY <1>0, <1>1 DEF Calm, HandsKept, RowKept, WasHanded
<1>2. CASE Inserts
  <2>1. /\ OnlyRow(nextId) /\ job'[nextId].status = "queued"
        /\ \A b \in Agents : Held(b)' = Held(b) /\ nextId \notin Held(b)
    BY <1>2, NewRow
  <2> QED
    BY <1>0, <2>1 DEF WasHanded, OnlyRow
<1>3. ASSUME NEW a \in Agents, NEW j \in JobIds, MarkAgentJobDispatched(a, j) PROVE WasHanded'
  <2>1. /\ OnlyRow(j) /\ \A b \in Agents : Held(b)' \subseteq Held(b) \cup {j}
        /\ \/ job'[j] = Marked(job[j])
           \/ job'[j] = job[j] /\ job[j].status = "deleted"
    BY <1>3, MarkStep
  <2>2. (job'[j].sent > 0 /\ job'[j].status = "dispatched") \/ job'[j].status = "deleted"
    BY <2>1, MarkedRow, Counters
  <2> QED
    BY <1>0, <2>1, <2>2 DEF WasHanded, OnlyRow
<1>4. ASSUME NEW r \in results, RequeueAgentJob(r) \/ CompleteAgentJob(r) PROVE WasHanded'
  <2>1. /\ r.job \in JobIds /\ OnlyRow(r.job)
        /\ \A b \in Agents : Held(b)' \subseteq Held(b) /\ r.job \notin Held(b)'
    BY <1>4, AnswerStep
  <2>2. job'[r.job].status \in {"dispatched", "none"} => job'[r.job] = job[r.job]
    BY <1>4, AnswerStep, RequeuedRow, CompletedRow, Counters
  <2> QED
    BY <1>0, <2>1, <2>2 DEF WasHanded, OnlyRow
<1>5. ASSUME NEW j \in JobIds, RequeueStaleAgentJobs(j) PROVE WasHanded'
  <2>1. /\ OnlyRow(j) /\ job[j].status = "dispatched" /\ job'[j] = Reaped(job[j])
        /\ \A b \in Agents : Held(b)' = Held(b)
    BY <1>5, ReapStep
  <2>2. job'[j].status \notin {"dispatched", "none"} /\ job'[j].sent = job[j].sent
    BY <2>1, ReapedRow, Counters DEF Unanswered
  <2> QED
    BY <1>0, <2>1, <2>2 DEF WasHanded, OnlyRow
<1>6. ASSUME NEW a \in Agents, deleteRelayAgent(a) PROVE WasHanded'
  <2>1. /\ \A k \in JobIds : RowKept(k) \/ job'[k].status = "deleted"
        /\ \A b \in Agents : Held(b)' = Held(b)
    BY <1>6, DeleteStep
  <2> QED
    BY <1>0, <2>1 DEF WasHanded, RowKept
<1> QED
  BY <1>1, <1>2, <1>3, <1>4, <1>5, <1>6, CalmOrBusy DEF Busy

(* The reaper and the handlers stop at the same attempt. *)
LEMMA LastStep ==
  ASSUME TypeOK, TypeOK', EvidenceInv, HandInv, LastAttempt, [Core \/ Operator \/ Loss]_vars
  PROVE  LastAttempt'
<1>1. CASE Calm
  <2>1. \A j \in JobIds : RowKept(j)
    BY <1>1 DEF Calm
  <2>2. ASSUME NEW r \in results', r.pc # "read"
        PROVE  /\ r.job \in JobIds /\ r.attempt <= job[r.job].attempt
               /\ job[r.job].status = "dispatched" => r.attempt = job[r.job].attempt
               /\ Unanswered(job[r.job]) /\ job[r.job].kind = "collect_os" =>
                    r.attempt + 1 >= MaxAttempts
    <3>1. r.job \in JobIds /\ Copied(r)
      BY <1>1, <2>2 DEF Calm, HandsKept
    <3>2. CASE r.attempt = job[r.job].attempt
      BY <3>1, <3>2, Counters DEF LastAttempt
    <3>3. CASE \E s \in results : s.pc # "read" /\ s.job = r.job /\ s.attempt = r.attempt
      BY <3>1, <3>3 DEF LastAttempt
    <3> QED
      BY <3>1, <3>2, <3>3 DEF Copied
  <2>3. \A j \in JobIds : Unanswered(job'[j]) <=> Unanswered(job[j])
    BY <2>1 DEF RowKept, Unanswered
  <2> QED
    BY <2>1, <2>2, <2>3 DEF LastAttempt, RowKept, Unanswered
<1>2. ASSUME NEW j \in JobIds, OnlyRow(j),
             Unanswered(job'[j]) /\ job'[j].kind = "collect_os" => job'[j].attempt + 1 >= MaxAttempts,
             results' \subseteq results, \A r \in results' : r.job # j
      PROVE  LastAttempt'
  <2>1. \A r \in results' : r \in results /\ job'[r.job] = job[r.job]
    BY <1>2, Counters DEF OnlyRow
  <2>2. \A k \in JobIds : Unanswered(job'[k]) /\ job'[k].kind = "collect_os" =>
          job'[k].attempt + 1 >= MaxAttempts
    BY <1>2 DEF OnlyRow, LastAttempt
  <2> QED
    BY <2>1, <2>2 DEF LastAttempt, Unanswered
<1>3. CASE Inserts
  BY <1>2, <1>3, NewRow DEF Unanswered
<1>4. ASSUME NEW a \in Agents, NEW j \in JobIds, MarkAgentJobDispatched(a, j) PROVE LastAttempt'
  <2>1. /\ OnlyRow(j) /\ results' = results /\ \A r \in results : r.job # j
        /\ \/ job'[j] = Marked(job[j])
           \/ job'[j] = job[j] /\ job[j].status = "deleted"
    BY <1>4, MarkStep
  <2>2. ~Unanswered(job'[j])
    BY <2>1, MarkedRow, Counters DEF Unanswered
  <2> QED
    BY <1>2, <2>1, <2>2
<1>5. ASSUME NEW r \in results, RequeueAgentJob(r) \/ CompleteAgentJob(r) PROVE LastAttempt'
  <2>1. /\ r.job \in JobIds /\ OnlyRow(r.job) /\ r.pc = "finish"
        /\ \A s \in results' : s \in results /\ s.job # r.job
    BY <1>5, AnswerStep
  <2>2. /\ r.kind = job[r.job].kind /\ r.attempt <= job[r.job].attempt
        /\ r.attempt \in Nat /\ job[r.job].attempt \in Nat /\ MaxAttempts \in Nat
    BY <2>1, Counters DEF EvidenceInv, LastAttempt
  <2>3. ASSUME Unanswered(job'[r.job]), job'[r.job].kind = "collect_os"
        PROVE  job'[r.job].attempt + 1 >= MaxAttempts
    <3>1. CASE job'[r.job] = job[r.job]
      BY <2>1, <2>3, <3>1 DEF LastAttempt
    <3>2. CASE job'[r.job] = Requeued(job[r.job], r.category)
      BY <2>1, <2>3, <3>2, RequeuedRow, Counters DEF Unanswered
    <3>3. CASE /\ ~Retries(r) /\ job'[r.job] = Completed(job[r.job], r.status, r.category)
      <4>1. /\ job'[r.job].status = r.status /\ job'[r.job].category = r.category
            /\ job'[r.job].kind = job[r.job].kind /\ job'[r.job].attempt = job[r.job].attempt
        BY <2>1, <3>3, CompletedRow, Counters
      <4>2. r.status = "failed" /\ r.kind = "collect_os" /\ agentJobRetryable(r.category)
        BY <2>2, <2>3, <4>1 DEF Unanswered, agentJobRetryable, Terminal
      <4>3. ~(r.attempt + 1 < MaxAttempts)
        BY <3>3, <4>2 DEF Retries
      <4> QED
        BY <2>2, <4>1, <4>3
    <3> QED
      BY <1>5, <3>1, <3>2, <3>3, AnswerStep
  <2> QED
    BY <1>2, <2>1, <2>3
<1>6. ASSUME NEW j \in JobIds, RequeueStaleAgentJobs(j) PROVE LastAttempt'
  <2>1. /\ OnlyRow(j) /\ job[j].status = "dispatched" /\ job'[j] = Reaped(job[j])
        /\ results' = results
    BY <1>6, ReapStep
  <2>2. /\ job'[j].attempt = job[j].attempt + 1 /\ job'[j].status # "dispatched"
        /\ Unanswered(job'[j]) => job[j].attempt + 1 >= MaxAttempts
        /\ job[j].attempt \in Nat /\ MaxAttempts \in Nat
    BY <2>1, ReapedRow, Counters DEF Unanswered
  <2>3. \A k \in JobIds : Unanswered(job'[k]) /\ job'[k].kind = "collect_os" =>
          job'[k].attempt + 1 >= MaxAttempts
    <3>1. Unanswered(job'[j]) => job'[j].attempt + 1 >= MaxAttempts
      BY <2>2
    <3> QED
      BY <2>1, <3>1 DEF OnlyRow, LastAttempt
  <2>4. ASSUME NEW r \in results, r.pc # "read"
        PROVE  /\ r.attempt <= job'[r.job].attempt
               /\ job'[r.job].status = "dispatched" => r.attempt = job'[r.job].attempt
               /\ Unanswered(job'[r.job]) /\ job'[r.job].kind = "collect_os" =>
                    r.attempt + 1 >= MaxAttempts
    <3>1. r.job \in JobIds
      BY Counters
    <3>2. CASE r.job = j
      <4>1. r.attempt = job[j].attempt
        BY <2>1, <2>4, <3>2 DEF LastAttempt
      <4> QED
        BY <2>2, <3>2, <4>1
    <3>3. CASE r.job # j
      <4>1. job'[r.job] = job[r.job]
        BY <2>1, <3>1, <3>3 DEF OnlyRow
      <4> QED
        BY <2>4, <4>1 DEF LastAttempt
    <3> QED
      BY <3>2, <3>3
  <2> QED
    BY <2>1, <2>3, <2>4 DEF LastAttempt, Unanswered
<1>7. ASSUME NEW a \in Agents, deleteRelayAgent(a) PROVE LastAttempt'
  <2>1. /\ results' = results
        /\ \A k \in JobIds : /\ job'[k].attempt = job[k].attempt /\ job'[k].kind = job[k].kind
                             /\ job'[k].status = "dispatched" => job[k].status = "dispatched"
                             /\ Unanswered(job'[k]) => Unanswered(job[k])
    BY <1>7, DeleteStep DEF RowKept, Unanswered
  <2>2. \A r \in results : r.job \in JobIds
    BY Counters
  <2> QED
    BY <2>1, <2>2 DEF LastAttempt, Unanswered
<1> QED
  BY <1>1, <1>3, <1>4, <1>5, <1>6, <1>7, CalmOrBusy DEF Busy

(* Both hold while agents wait for their answers. *)
LEMMA OrdersKept == AttachedSpec => [](WasHanded /\ LastAttempt)
<1>1. Init => WasHanded /\ LastAttempt
  <2> SUFFICES ASSUME Init PROVE WasHanded /\ LastAttempt
    OBVIOUS
  <2>1. \A j \in JobIds : job[j].sent = 0 /\ job[j].status = "none"
    BY DEF Init, NoJob, NewJob
  <2>2. results = {}
    BY DEF Init
  <2>3. \A a \in Agents : Held(a) = {}
    BY DEF Init, IdlePoll, Held
  <2> QED
    BY <2>1, <2>2, <2>3 DEF WasHanded, LastAttempt, Unanswered
<1>2. /\ TypeOK /\ TypeOK' /\ EvidenceInv /\ HandInv
      /\ WasHanded /\ LastAttempt /\ [Core \/ Operator \/ Loss]_vars
      => (WasHanded /\ LastAttempt)'
  BY HandedStep, LastStep
<1> QED
  BY <1>1, <1>2, AttachedIsSpec, TypeCorrect, EvidenceKept, HandKept, PTL DEF AttachedSpec

(* The mapping, row by row. *)
LEMMA StageOf ==
  ASSUME NEW row \in JobRow
  PROVE  /\ row.kind = "test" \/ row.status = "none" => Stage(row) = "none"
         /\ row.kind = "collect_os" =>
              /\ row.status \in Active => Stage(row) = "open"
              /\ Unanswered(row) => Stage(row) = "unanswered"
              /\ row.status = "failed" /\ ~Unanswered(row) => Stage(row) = "failed"
              /\ row.status = "done" => Stage(row) = "done"
              /\ row.status = "deleted" => Stage(row) = "gone"
BY DEF Stage, JobRow, Active, Unanswered

(* An order looks the same if its row is kept. *)
LEMMA SameStage ==
  ASSUME TypeOK, TypeOK', NEW j \in JobIds, RowKept(j)
  PROVE  Stage(job'[j]) = Stage(job[j]) /\ HandedOut'[j] = HandedOut[j]
BY DEF RowKept, Stage, HandedOut

(* Only one row changes: only one order does. *)
LEMMA OneOrderMoves ==
  ASSUME TypeOK, TypeOK', NEW j \in JobIds, OnlyRow(j)
  PROVE  /\ Stages' = [Stages EXCEPT ![j] = Stage(job'[j])]
         /\ job'[j].kind = job[j].kind /\ job'[j].sent = job[j].sent => HandedOut' = HandedOut
BY DEF OnlyRow, Stages, HandedOut

(* Every step of the queue is a step of the orders, or changes none of them. *)
BoardStep == Board!OrdersNext \/ UNCHANGED <<Stages, HandedOut>>

LEMMA BoardStepTaken ==
  ASSUME TypeOK, TypeOK', EvidenceInv, HandInv, EnvelopeInv, WasHanded, LastAttempt,
         [Core \/ Operator \/ Loss]_vars
  PROVE  BoardStep
<1>0. /\ \A j \in JobIds : Stages[j] = Stage(job[j])
      /\ \A j \in JobIds : job[j].kind = "collect_os" => HandedOut[j] = job[j].sent
      /\ \A j \in JobIds : job[j].kind = "test" => HandedOut[j] = 0
      /\ \A j \in JobIds : job[j] \in JobRow /\ job'[j] \in JobRow
      /\ \A j \in JobIds : job[j].kind \in {"test", "collect_os"}
  BY DEF Stages, HandedOut, TypeOK, JobRow
<1>1. CASE Calm
  <2>1. \A j \in JobIds : Stage(job'[j]) = Stage(job[j]) /\ HandedOut'[j] = HandedOut[j]
    BY <1>1, SameStage DEF Calm
  <2>2. Stages' = Stages /\ HandedOut' = HandedOut
    BY <2>1 DEF Stages, HandedOut
  <2> QED
    BY <2>2 DEF BoardStep
<1>2. CASE Inserts
  <2>1. PICK k \in {"collect_os", "test"} :
           /\ nextId \in JobIds /\ OnlyRow(nextId) /\ job[nextId].status = "none"
           /\ job'[nextId].kind = k /\ job'[nextId].status = "queued" /\ job'[nextId].sent = 0
    BY <1>2, NewRow
  <2>2. Stages' = [Stages EXCEPT ![nextId] = Stage(job'[nextId])]
    BY <2>1, OneOrderMoves
  <2>3. Stages[nextId] = "none"
    BY <1>0, <2>1, StageOf
  <2>4. HandedOut' = HandedOut
    <3>1. HandedOut[nextId] = 0 /\ HandedOut'[nextId] = 0
      BY <2>1 DEF HandedOut, WasHanded
    <3> QED
      BY <2>1, <3>1 DEF HandedOut, OnlyRow
  <2>5. CASE k = "collect_os"
    <3>1. Stage(job'[nextId]) = "open"
      BY <1>0, <2>1, <2>5, StageOf DEF Active
    <3>2. Board!Place(nextId)
      BY <2>2, <2>3, <2>4, <3>1 DEF Board!Place
    <3> QED
      BY <2>1, <3>2 DEF BoardStep, Board!OrdersNext
  <2>6. CASE k = "test"
    <3>1. Stage(job'[nextId]) = "none"
      BY <1>0, <2>1, <2>6, StageOf
    <3>2. Stages' = Stages
      BY <2>1, <2>2, <2>3, <3>1 DEF Stages
    <3> QED
      BY <2>4, <3>2 DEF BoardStep
  <2> QED
    BY <2>5, <2>6
<1>3. ASSUME NEW a \in Agents, NEW j \in JobIds, MarkAgentJobDispatched(a, j) PROVE BoardStep
  <2>1. /\ OnlyRow(j) /\ Stages' = [Stages EXCEPT ![j] = Stage(job'[j])]
        /\ \/ job'[j] = Marked(job[j]) /\ job[j].status = "queued"
           \/ job'[j] = job[j]
    BY <1>3, MarkStep, OneOrderMoves
  <2>2. CASE job'[j] = job[j]
    <3>1. \A k \in JobIds : job'[k] = job[k]
      BY <2>1, <2>2 DEF OnlyRow
    <3> QED
      BY <3>1 DEF BoardStep, Stages, HandedOut
  <2>3. CASE job'[j] = Marked(job[j]) /\ job[j].status = "queued"
    <3>1. /\ job'[j].kind = job[j].kind /\ job'[j].sent = job[j].sent + 1
          /\ job'[j].status = "dispatched"
      BY <1>0, <2>3, MarkedRow
    <3>2. CASE job[j].kind = "test"
      <4>1. Stage(job'[j]) = "none" /\ Stages[j] = "none"
        BY <1>0, <3>1, <3>2, StageOf
      <4>2. Stages' = Stages
        BY <2>1, <4>1 DEF Stages
      <4>3. HandedOut' = HandedOut
        BY <2>1, <3>1, <3>2 DEF HandedOut, OnlyRow
      <4> QED
        BY <4>2, <4>3 DEF BoardStep
    <3>3. CASE job[j].kind = "collect_os"
      <4>1. Stage(job'[j]) = "open" /\ Stages[j] = "open"
        BY <1>0, <2>3, <3>1, <3>3, StageOf DEF Active
      <4>2. Stages' = Stages
        BY <2>1, <4>1 DEF Stages
      <4>3. HandedOut' = [HandedOut EXCEPT ![j] = HandedOut[j] + 1]
        BY <2>1, <3>1, <3>3 DEF HandedOut, OnlyRow
      <4>4. HandedOut[j] < MaxAttempts
        BY <1>0, <2>3, <3>3 DEF EnvelopeInv, Enveloped
      <4>5. Board!HandOut(j)
        BY <4>1, <4>2, <4>3, <4>4 DEF Board!HandOut
      <4> QED
        BY <4>5 DEF BoardStep, Board!OrdersNext
    <3> QED
      BY <1>0, <3>2, <3>3
  <2> QED
    BY <2>1, <2>2, <2>3
<1>4. ASSUME NEW j \in JobIds, OnlyRow(j), job'[j].kind = job[j].kind, job'[j].sent = job[j].sent,
             \/ job[j].kind = "test"
             \/ Stage(job'[j]) = Stages[j]
             \/ Stages[j] \in {"open", "unanswered"} /\ HandedOut[j] > 0
                /\ Stage(job'[j]) \in {"done", "failed"}
             \/ Stages[j] = "open" /\ HandedOut[j] > 0 /\ Stage(job'[j]) = "unanswered"
      PROVE  BoardStep
  <2>1. Stages' = [Stages EXCEPT ![j] = Stage(job'[j])] /\ HandedOut' = HandedOut
    BY <1>4, OneOrderMoves
  <2>2. CASE job[j].kind = "test" \/ Stage(job'[j]) = Stages[j]
    <3>1. Stage(job'[j]) = Stages[j]
      BY <1>0, <1>4, <2>2, StageOf
    <3>2. Stages' = Stages
      BY <2>1, <3>1 DEF Stages
    <3> QED
      BY <2>1, <3>2 DEF BoardStep
  <2>3. CASE Stages[j] \in {"open", "unanswered"} /\ HandedOut[j] > 0
             /\ Stage(job'[j]) \in {"done", "failed"}
    <3>1. Board!Answer(j, Stage(job'[j]))
      BY <2>1, <2>3 DEF Board!Answer
    <3> QED
      BY <2>3, <3>1 DEF BoardStep, Board!OrdersNext
  <2>4. CASE Stages[j] = "open" /\ HandedOut[j] > 0 /\ Stage(job'[j]) = "unanswered"
    <3>1. Board!GiveUp(j)
      BY <2>1, <2>4 DEF Board!GiveUp
    <3> QED
      BY <3>1 DEF BoardStep, Board!OrdersNext
  <2> QED
    BY <1>4, <2>2, <2>3, <2>4
<1>5. ASSUME NEW r \in results, RequeueAgentJob(r) \/ CompleteAgentJob(r) PROVE BoardStep
  <2> DEFINE j == r.job
  <2>1. /\ j \in JobIds /\ OnlyRow(j) /\ r.pc = "finish" /\ r.status \in {"done", "failed"}
        /\ r.agent \in Agents /\ j \in Held(r.agent)
        /\ \/ job'[j] = job[j]
           \/ Exists(j) /\ Retries(r) /\ job'[j] = Requeued(job[j], r.category)
           \/ Exists(j) /\ job'[j] = Completed(job[j], r.status, r.category)
    BY <1>5, AnswerStep
  <2>2. /\ r.kind = job[j].kind /\ ~Closed(job[j])
        /\ Unanswered(job[j]) /\ job[j].kind = "collect_os" => r.attempt + 1 >= MaxAttempts
    BY <2>1 DEF EvidenceInv, HandInv, Open, LastAttempt
  <2>3. Exists(j) => job[j].sent > 0
    BY <2>1 DEF WasHanded, Exists
  <2> HIDE DEF j
  <2>4. CASE job'[j] = job[j]
    BY <1>0, <1>4, <2>1, <2>4
  <2>5. CASE job[j].kind = "test" /\ job'[j] # job[j]
    <3>1. job'[j].kind = job[j].kind /\ job'[j].sent = job[j].sent
      BY <1>0, <2>1, <2>5, RequeuedRow, CompletedRow
    <3> QED
      BY <1>4, <2>1, <2>5, <3>1
  <2>6. CASE job[j].kind = "collect_os" /\ job'[j] # job[j]
    <3>1. Exists(j) /\ HandedOut[j] > 0
      BY <1>0, <2>1, <2>3, <2>6
    <3>2. Stages[j] = "open" \/ (Stages[j] = "unanswered" /\ Unanswered(job[j]))
      <4>1. job[j].status \in Active \/ Unanswered(job[j])
        BY <1>0, <2>1, <2>2, <3>1 DEF JobRow, Exists, Active, Closed, Unanswered
      <4> QED
        BY <1>0, <2>1, <2>6, <4>1, StageOf
    <3>3. CASE Retries(r) /\ job'[j] = Requeued(job[j], r.category)
      <4>1. r.attempt + 1 < MaxAttempts /\ r.attempt \in Nat /\ MaxAttempts \in Nat
        BY <3>3, Counters DEF Retries
      <4>2. ~Unanswered(job[j])
        BY <2>2, <2>6, <4>1
      <4>3. /\ job'[j].kind = job[j].kind /\ job'[j].sent = job[j].sent
            /\ job'[j].status = "queued"
        BY <1>0, <2>1, <3>3, RequeuedRow
      <4>4. Stage(job'[j]) = "open"
        BY <1>0, <2>1, <2>6, <4>3, StageOf DEF Active
      <4> QED
        BY <1>4, <2>1, <3>2, <4>2, <4>3, <4>4
    <3>4. CASE job'[j] = Completed(job[j], r.status, r.category)
      <4>1. /\ job'[j].kind = job[j].kind /\ job'[j].sent = job[j].sent
            /\ job'[j].status = r.status
        BY <1>0, <2>1, <3>4, CompletedRow
      <4>2. Stage(job'[j]) \in {"done", "failed", "unanswered"}
        BY <1>0, <2>1, <2>6, <4>1, StageOf
      <4> QED
        BY <1>4, <2>1, <3>1, <3>2, <4>1, <4>2
    <3> QED
      BY <2>1, <2>6, <3>3, <3>4
  <2> QED
    BY <1>0, <2>1, <2>4, <2>5, <2>6
<1>6. ASSUME NEW j \in JobIds, RequeueStaleAgentJobs(j) PROVE BoardStep
  <2>1. /\ OnlyRow(j) /\ job[j].kind = "collect_os" /\ job[j].status = "dispatched"
        /\ job'[j] = Reaped(job[j])
    BY <1>6, ReapStep
  <2>2. Stages[j] = "open" /\ HandedOut[j] > 0
    <3>1. job[j].status \in Active
      BY <2>1 DEF Active
    <3>2. job[j].sent > 0
      BY <2>1 DEF WasHanded
    <3> QED
      BY <1>0, <2>1, <3>1, <3>2, StageOf
  <2>3. /\ job'[j].kind = job[j].kind /\ job'[j].sent = job[j].sent
        /\ job'[j].status = "queued" \/ Unanswered(job'[j])
    BY <1>0, <2>1, ReapedRow
  <2>4. Stage(job'[j]) \in {"open", "unanswered"}
    BY <1>0, <2>1, <2>3, StageOf DEF Active
  <2> QED
    BY <1>4, <2>1, <2>2, <2>3, <2>4
<1>7. ASSUME NEW a \in Agents, deleteRelayAgent(a) PROVE BoardStep
  <2> DEFINE lost == {j \in JobIds : /\ job[j].kind = "collect_os" /\ job'[j].status = "deleted"
                                     /\ Exists(j)}
  <2>1. \A j \in JobIds : \/ RowKept(j)
                          \/ /\ Exists(j) /\ job'[j].status = "deleted"
                             /\ job'[j].kind = job[j].kind /\ job'[j].sent = job[j].sent
    BY <1>7, DeleteStep
  <2>2. \A j \in lost : Stage(job'[j]) = "gone" /\ Stages[j] # "none"
    <3> SUFFICES ASSUME NEW j \in lost PROVE Stage(job'[j]) = "gone" /\ Stages[j] # "none"
      OBVIOUS
    <3>1. job'[j].kind = "collect_os" /\ job'[j].status = "deleted"
      BY <2>1 DEF RowKept
    <3>2. /\ job[j].status \in {"queued", "dispatched", "done", "failed"}
          /\ job[j].kind = "collect_os"
      BY <1>0 DEF JobRow, Exists
    <3> QED
      BY <1>0, <3>1, <3>2, StageOf DEF Active
  <2>3. \A j \in JobIds : j \notin lost => Stage(job'[j]) = Stages[j]
    <3> SUFFICES ASSUME NEW j \in JobIds, j \notin lost PROVE Stage(job'[j]) = Stages[j]
      OBVIOUS
    <3>1. CASE RowKept(j)
      BY <1>0, <3>1, SameStage
    <3>2. CASE ~RowKept(j)
      <4>1. job[j].kind = "test" /\ job'[j].kind = "test"
        BY <1>0, <2>1, <3>2
      <4> QED
        BY <1>0, <4>1, StageOf
    <3> QED
      BY <3>1, <3>2
  <2>4. Stages' = [j \in JobIds |-> IF j \in lost THEN "gone" ELSE Stages[j]]
    BY <2>2, <2>3 DEF Stages
  <2>5. HandedOut' = HandedOut
    BY <2>1 DEF HandedOut, RowKept
  <2>6. Board!Withdraw(lost)
    BY <2>2, <2>4, <2>5 DEF Board!Withdraw
  <2>7. lost \in SUBSET JobIds
    OBVIOUS
  <2> QED
    BY <2>6, <2>7 DEF BoardStep, Board!OrdersNext
<1> QED
  BY <1>1, <1>2, <1>3, <1>5, <1>6, <1>7, CalmOrBusy DEF Busy

(* The queue keeps its orders, for every number of agents, devices, jobs,
   attempts and faults: what agentPollJobs, agentJobResult and the reaper do
   between them, each on its own copy of a row, is never more than an order
   placed, handed out, given up, answered or withdrawn. *)
THEOREM QueueKeepsOrders == AttachedSpec => KeepsOrders
<1>1. Init => Board!OrdersInit
  <2> SUFFICES ASSUME Init PROVE Board!OrdersInit
    OBVIOUS
  <2>1. \A j \in JobIds : job[j].kind = "test" /\ job[j].status = "none"
    BY DEF Init, NoJob, NewJob
  <2>2. \A j \in JobIds : Stage(job[j]) = "none"
    BY <2>1 DEF Stage
  <2>3. Stages = [j \in JobIds |-> "none"] /\ HandedOut = [j \in JobIds |-> 0]
    BY <2>1, <2>2 DEF Stages, HandedOut
  <2> QED
    BY <2>3 DEF Board!OrdersInit
<1>2. /\ TypeOK /\ TypeOK' /\ EvidenceInv /\ HandInv /\ EnvelopeInv /\ WasHanded /\ LastAttempt
      /\ [Core \/ Operator \/ Loss]_vars
      => [Board!OrdersNext]_<<Stages, HandedOut>>
  BY BoardStepTaken DEF BoardStep
<1> QED
  BY <1>1, <1>2, AttachedIsSpec, TypeCorrect, EvidenceKept, HandKept, EnvelopeKept, OrdersKept, PTL
  DEF AttachedSpec, KeepsOrders, Board!OrdersSpec

=============================================================================
