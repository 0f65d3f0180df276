----------------------------- MODULE RelayQueue -----------------------------
(***************************************************************************)
(* The relay-agent collection queue of HIMS: the agent_jobs table, the two *)
(* HTTP handlers through which an agent pulls jobs and reports results,    *)
(* the routing code that enqueues a collection, the stale-job reaper, the  *)
(* self-heal sweep, and the agent process itself.                          *)
(*                                                                         *)
(* Every SQL statement is atomic; a handler is one action per group of     *)
(* statements between which another actor can be observed.  Time is        *)
(* abstracted to the events it enables: a back-off elapses, a failure      *)
(* outlives the self-heal cooldown, a dispatched job is taken for stale.   *)
(***************************************************************************)
EXTENDS Naturals, FiniteSets

CONSTANTS
  Agents,            \* rows of relay_agents
  Devices,           \* rows of devices
  NoDevice,          \* NULL in agent_jobs.device_id
  Routers,           \* concurrent callers of routeViaSiteAgent (scan workers, API)
  Sweep,             \* the self-heal sweep, which also calls routeViaSiteAgent
  Reported,          \* failure categories an agent reports
  MaxJobs,           \* bound: rows ever inserted into agent_jobs
  MaxAttempts,       \* agent_jobs.max_attempts (5 in the schema)
  DispatchCap,       \* agentDispatchCap
  MaxRounds,         \* selfHealMaxRounds
  MaxFaults          \* bound: crashes, dropped connections, failed writes

ASSUME RelayAssumption ==
  /\ IsFiniteSet(Agents) /\ Agents # {} /\ IsFiniteSet(Devices)
  /\ NoDevice \notin Devices /\ Sweep \notin Routers
  /\ MaxJobs \in Nat /\ MaxAttempts \in Nat \ {0}
  /\ DispatchCap \in 1..64 /\ MaxRounds \in Nat \ {0} /\ MaxFaults \in Nat

VARIABLES
  \* ---- the database -----------------------------------------------------
  job,       \* agent_jobs, by insertion order
  nextId,    \* the next row to insert
  agent,     \* relay_agents: "enabled", "disabled" or "deleted"
  exists,    \* the devices that have not been deleted
  evidence,  \* the devices with an os_inventory row
  \* ---- the API process --------------------------------------------------
  poll,      \* per agent, its agentPollJobs handler
  results,   \* the agentJobResult handlers that are running
  route,     \* per caller, its routeViaSiteAgent call
  sweep,     \* the self-heal candidates still to be routed
  \* ---- the agent processes ----------------------------------------------
  running,   \* per agent, the jobs of its batch it is still collecting
  posting,   \* per agent, the jobs whose result it is waiting to see accepted
  faults     \* faults so far (a bound, not state of the program)

db   == <<job, nextId, agent, exists, evidence>>
api  == <<poll, results, route, sweep>>
site == <<running, posting>>
vars == <<db, api, site, faults>>

JobIds == 1..MaxJobs
Active == {"queued", "dispatched"}
Callers == Routers \cup {Sweep}

(***************************************************************************)
(* Failure categories.  The agent's verdicts a retry cannot change, the    *)
(* ones the load of a scan produces, and the ones the sweep re-collects.   *)
(***************************************************************************)
Terminal == {"auth_failed", "unsupported", "wmi_access_denied", "access_denied",
             "lockout_suspected", "namespace_unavailable"}
LoadInduced == {"winrm_negotiate_error", "winrm_connect_timeout"}
SelfHealable == LoadInduced \cup {"agent_no_result"}
agentJobRetryable(c) == c \notin Terminal
Categories == Reported \cup {"", "success", "agent_no_result"}

JobRow == [status   : {"none", "queued", "dispatched", "done", "failed", "deleted"},
           kind     : {"collect_os", "test"},
           agent    : Agents,
           device   : Devices \cup {NoDevice},
           attempt  : Nat,
           waiting  : BOOLEAN,       \* next_attempt_at is in the future
           category : Categories,
           cooled   : BOOLEAN,       \* finished_at is older than the cooldown
           healed   : BOOLEAN,       \* inserted by the self-heal sweep
           sent     : Nat]           \* history: how often it was dispatched

PollRec == [pc : {"idle", "list", "mark"}, inflight : Nat,
            rows : SUBSET JobIds, out : SUBSET JobIds]

ResultRec == [pc : {"read", "persist", "finish"}, job : JobIds, agent : Agents,
              success : BOOLEAN, category : Categories,
              kind : {"collect_os", "test"}, device : Devices \cup {NoDevice},
              attempt : Nat, status : {"done", "failed"}]

RouteRec == [pc : {"idle", "create"}, device : Devices \cup {NoDevice}, agent : Agents]

-----------------------------------------------------------------------------
(* Queries.                                                                *)

Fault == faults < MaxFaults /\ faults' = faults + 1

Exists(j) == job[j].status \notin {"none", "deleted"}
Dispatched(a) == {j \in JobIds : job[j].agent = a /\ job[j].status = "dispatched"}
Collecting(d) == {j \in JobIds : /\ job[j].device = d /\ job[j].kind = "collect_os"
                                 /\ job[j].status \in Active}
LoadBackoff(a) == {j \in JobIds : /\ job[j].agent = a /\ job[j].kind = "collect_os"
                                  /\ job[j].status = "queued" /\ job[j].waiting
                                  /\ job[j].category \in LoadInduced}
Runnable(a) == {j \in JobIds : /\ job[j].agent = a
                               /\ job[j].status = "queued" /\ ~job[j].waiting}

(* ORDER BY created_at LIMIT n: S holds the n oldest of R. *)
Oldest(S, R, n) ==
  /\ S \subseteq R
  /\ Cardinality(S) <= n
  /\ S = R \/ Cardinality(S) = n
  /\ \A x \in S, y \in R \ S : x < y

(* The device's newest collect_os row, as DISTINCT ON ... created_at DESC. *)
IsLatest(j, d) ==
  /\ Exists(j) /\ job[j].device = d /\ job[j].kind = "collect_os"
  /\ \A k \in JobIds : Exists(k) /\ job[k].device = d /\ job[k].kind = "collect_os" => k <= j

FailedRounds(d) == {j \in JobIds : /\ job[j].device = d /\ job[j].kind = "collect_os"
                                   /\ job[j].status = "failed"}

(* ListSelfHealCandidates; the run lasts less than the 24 hours after which
   a failed round is forgotten. *)
SelfHealCandidatesNoBudget ==                    \* mutant: the 24h round budget is dropped
  {d \in exists \ evidence :
     /\ \E j \in JobIds : /\ IsLatest(j, d) /\ job[j].status = "failed"
                          /\ job[j].category \in SelfHealable /\ job[j].cooled
     /\ Collecting(d) = {}}
SelfHealCandidates ==
  {d \in exists :
     /\ \E j \in JobIds : /\ IsLatest(j, d)
                          /\ job[j].status = "failed"
                          /\ job[j].category \in SelfHealable
                          /\ job[j].cooled
     /\ d \notin evidence
     /\ Collecting(d) = {}
     /\ Cardinality(FailedRounds(d)) < MaxRounds}

-----------------------------------------------------------------------------
(* The dispatch budget.                                                    *)

MaxInt(x, y) == IF x >= y THEN x ELSE y
agentLoadThrottleAt == MaxInt(3, DispatchCap \div 2)
agentThrottledBudget == MaxInt(2, DispatchCap \div 4)

BudgetIgnoringInflight(inflight) == DispatchCap  \* mutant: the jobs in flight are ignored
agentPollBudget(inflight) == IF inflight < DispatchCap THEN DispatchCap - inflight ELSE 0

agentPollBudgetAdaptive(inflight, load) ==
  IF agentPollBudget(inflight) > agentThrottledBudget /\ load >= agentLoadThrottleAt
  THEN agentThrottledBudget
  ELSE agentPollBudget(inflight)

-----------------------------------------------------------------------------
(* The UPDATE statements on one row.  Update applies one by primary key: a row
   deleted in the meantime is not there to be updated, and no statement looks
   at the status it overwrites. *)

Update(j, row) == job' = IF Exists(j) THEN [job EXCEPT ![j] = row] ELSE job

Marked(row) == [row EXCEPT !.status = "dispatched", !.sent = row.sent + 1]

Requeued(row, cat) ==
  [row EXCEPT !.status = "queued", !.waiting = TRUE, !.category = cat,
              !.attempt = row.attempt + 1]

Completed(row, st, cat) == [row EXCEPT !.status = st, !.category = cat, !.cooled = FALSE]

ReapedEarly(row) ==                              \* mutant: given up one attempt early
  IF row.attempt + 2 >= MaxAttempts
  THEN [row EXCEPT !.status = "failed", !.attempt = row.attempt + 1, !.waiting = FALSE,
                   !.category = "agent_no_result", !.cooled = FALSE]
  ELSE [row EXCEPT !.status = "queued", !.attempt = row.attempt + 1, !.waiting = FALSE]
Reaped(row) ==
  IF row.attempt + 1 >= MaxAttempts
  THEN [row EXCEPT !.status = "failed", !.attempt = row.attempt + 1, !.waiting = FALSE,
                   !.category = "agent_no_result", !.cooled = FALSE]
  ELSE [row EXCEPT !.status = "queued", !.attempt = row.attempt + 1, !.waiting = FALSE]

-----------------------------------------------------------------------------
IdlePoll == [pc |-> "idle", inflight |-> 0, rows |-> {}, out |-> {}]

NewJob(a, d, k, h) ==
  [status |-> "queued", kind |-> k, agent |-> a, device |-> d, attempt |-> 0,
   waiting |-> FALSE, category |-> "", cooled |-> FALSE, healed |-> h,
   sent |-> 0]

(* Fillers: a row not yet inserted, a caller that is not in the call. *)
AnyAgent == CHOOSE a \in Agents : TRUE
NoJob == [NewJob(AnyAgent, NoDevice, "test", FALSE) EXCEPT !.status = "none"]
IdleRoute == [pc |-> "idle", device |-> NoDevice, agent |-> AnyAgent]

Init ==
  /\ job = [j \in JobIds |-> NoJob]
  /\ route = [c \in Callers |-> IdleRoute]
  /\ nextId = 1
  /\ agent = [a \in Agents |-> "enabled"]
  /\ exists = Devices
  /\ evidence = {}
  /\ poll = [a \in Agents |-> IdlePoll]
  /\ results = {}
  /\ sweep = {}
  /\ running = [a \in Agents |-> {}]
  /\ posting = [a \in Agents |-> {}]
  /\ faults = 0

-----------------------------------------------------------------------------
(* Routing a device's collection to an agent of its site.                  *)

(* The first half of routeViaSiteAgent: resolve an enabled agent of the site
   (every agent of the model serves it; which one has the freshest heartbeat is
   left open) and look for a collection already in flight.  If there is one the
   call returns and nothing changes. *)
RouteCheck(c, d, a) ==
  /\ route[c].pc = "idle" /\ nextId <= MaxJobs
  /\ agent[a] = "enabled"
  /\ Collecting(d) = {}
  /\ route' = [route EXCEPT ![c] = [pc |-> "create", device |-> d, agent |-> a]]

(* A scan worker or an operator's "collect now". *)
routeViaSiteAgent(c, d, a) ==
  /\ d \in exists
  /\ RouteCheck(c, d, a)
  /\ UNCHANGED <<db, poll, results, sweep, site, faults>>

(* The second half: CreateAgentJob, refused by the foreign keys when the agent
   or the device has gone in the meantime. *)
CreateAgentJob(c) ==
  /\ route[c].pc = "create" /\ nextId <= MaxJobs
  /\ route' = [route EXCEPT ![c] = IdleRoute]
  /\ IF agent[route[c].agent] # "deleted" /\ route[c].device \in exists
     THEN /\ job' = [job EXCEPT ![nextId] =
                       NewJob(route[c].agent, route[c].device, "collect_os", c = Sweep)]
          /\ nextId' = nextId + 1
     ELSE UNCHANGED <<job, nextId>>
  /\ UNCHANGED <<agent, exists, evidence, poll, results, sweep, site, faults>>

(* The sweep lists its candidates once and then routes them one by one. *)
SelfHealList ==
  /\ sweep = {} /\ route[Sweep].pc = "idle"
  /\ SelfHealCandidates # {}
  /\ sweep' = SelfHealCandidates
  /\ UNCHANGED <<db, poll, results, route, site, faults>>

SelfHealRoute(d) ==
  /\ d \in sweep /\ route[Sweep].pc = "idle"
  /\ sweep' = sweep \ {d}
  /\ \/ d \in exists /\ \E a \in Agents : RouteCheck(Sweep, d, a)
     \/ /\ \/ d \notin exists
           \/ Collecting(d) # {}
           \/ \A a \in Agents : agent[a] # "enabled"
           \/ nextId > MaxJobs
        /\ UNCHANGED route
  /\ UNCHANGED <<db, poll, results, site, faults>>

(* An operator queues a no-op test job; nothing checks the agent's state. *)
enqueueAgentTest(a) ==
  /\ agent[a] # "deleted"
  /\ nextId <= MaxJobs
  /\ job' = [job EXCEPT ![nextId] = NewJob(a, NoDevice, "test", FALSE)]
  /\ nextId' = nextId + 1
  /\ UNCHANGED <<agent, exists, evidence, api, site, faults>>

-----------------------------------------------------------------------------
(* agentPollJobs.  The agent polls only when its previous batch is over.   *)

(* Authenticate and count the jobs in flight. *)
PollCount(a) ==
  /\ running[a] = {} /\ posting[a] = {} /\ poll[a].pc = "idle"
  /\ agent[a] = "enabled"
  /\ poll' = [poll EXCEPT ![a] = [IdlePoll EXCEPT !.pc = "list",
                                              !.inflight = Cardinality(Dispatched(a))]]
  /\ UNCHANGED <<db, results, route, sweep, site, faults>>

(* The load governor fixes the budget and ListRunnableAgentJobs takes that many
   of the oldest runnable rows; an exhausted budget answers with an empty list. *)
PollList(a) ==
  /\ poll[a].pc = "list"
  /\ LET budget == agentPollBudgetAdaptive(poll[a].inflight, Cardinality(LoadBackoff(a)))
     IN \E rows \in SUBSET Runnable(a) :
          /\ Oldest(rows, Runnable(a), budget)
          /\ poll' = [poll EXCEPT ![a] = IF budget = 0 THEN IdlePoll
                                         ELSE [IdlePoll EXCEPT !.pc = "mark", !.rows = rows]]
  /\ UNCHANGED <<db, results, route, sweep, site, faults>>

(* MarkAgentJobDispatched, by primary key only. *)
MarkAgentJobDispatched(a, j) ==
  /\ poll[a].pc = "mark" /\ j \in poll[a].rows
  /\ \A k \in poll[a].rows : j <= k
  /\ Update(j, Marked(job[j]))
  /\ poll' = [poll EXCEPT ![a] = [poll[a] EXCEPT !.rows = poll[a].rows \ {j},
                                                 !.out = poll[a].out \cup {j}]]
  /\ UNCHANGED <<nextId, agent, exists, evidence, results, route, sweep, site, faults>>

(* The response reaches the agent, which starts the whole batch. *)
PollReply(a) ==
  /\ poll[a].pc = "mark" /\ poll[a].rows = {}
  /\ running' = [running EXCEPT ![a] = poll[a].out]
  /\ poll' = [poll EXCEPT ![a] = IdlePoll]
  /\ UNCHANGED <<db, results, route, sweep, posting, faults>>

-----------------------------------------------------------------------------
(* The agent runs a job and posts its result once.                         *)

runJob(a, j, ok, cat) ==
  /\ j \in running[a]
  /\ job[j].kind = "test" => ok
  /\ cat = "success" <=> ok
  /\ running' = [running EXCEPT ![a] = @ \ {j}]
  /\ posting' = [posting EXCEPT ![a] = @ \cup {j}]
  /\ results' = results \cup
       {[pc |-> "read", job |-> j, agent |-> a, success |-> ok, category |-> cat,
         kind |-> "test", device |-> NoDevice, attempt |-> 0, status |-> "failed"]}
  /\ UNCHANGED <<db, poll, route, sweep, faults>>

-----------------------------------------------------------------------------
(* agentJobResult.                                                         *)

Answered(r) == posting' = [posting EXCEPT ![r.agent] = @ \ {r.job}]

(* The handler's copy of the row, and the status it starts from. *)
Read(r) == [r EXCEPT !.kind = job[r.job].kind, !.device = job[r.job].device,
                     !.attempt = job[r.job].attempt,
                     !.status = IF r.success THEN "done" ELSE "failed",
                     !.pc = IF /\ r.success /\ job[r.job].kind = "collect_os"
                               /\ job[r.job].device # NoDevice
                            THEN "persist" ELSE "finish"]

(* Authenticate and read the row; only then is the body decoded. *)
GetAgentJob(r) ==
  /\ r \in results /\ r.pc = "read"
  /\ \/ /\ agent[r.agent] = "enabled" /\ Exists(r.job)
        /\ results' = (results \ {r}) \cup {Read(r)}
        /\ UNCHANGED posting
     \/ /\ ~(agent[r.agent] = "enabled" /\ Exists(r.job))
        /\ results' = results \ {r}
        /\ Answered(r)
  /\ UNCHANGED <<db, poll, route, sweep, running, faults>>

(* Mutant: a failed write is ignored and the job still reported done. *)
PersistErrorIgnored(r) ==
  /\ r \in results /\ r.pc = "persist"
  /\ \/ /\ evidence' = evidence \cup ({r.device} \cap exists)
        /\ UNCHANGED faults
     \/ Fault /\ UNCHANGED evidence
  /\ results' = (results \ {r}) \cup {[r EXCEPT !.pc = "finish"]}
  /\ UNCHANGED <<job, nextId, agent, exists, poll, route, sweep, site>>

(* osinv.Persist is a sequence of statements outside a transaction, the
   os_inventory row first: it succeeds, fails on a device that has gone, or
   (a fault) fails before or after that first row is written. *)
Persist(r) ==
  /\ r \in results /\ r.pc = "persist"
  /\ \/ /\ r.device \in exists
        /\ evidence' = evidence \cup {r.device}
        /\ results' = (results \ {r}) \cup {[r EXCEPT !.pc = "finish"]}
        /\ UNCHANGED faults
     \/ /\ r.device \notin exists
        /\ results' = (results \ {r}) \cup {[r EXCEPT !.pc = "finish", !.status = "failed"]}
        /\ UNCHANGED <<evidence, faults>>
     \/ /\ r.device \in exists /\ Fault
        /\ evidence' \in {evidence, evidence \cup {r.device}}
        /\ results' = (results \ {r}) \cup {[r EXCEPT !.pc = "finish", !.status = "failed"]}
  /\ UNCHANGED <<job, nextId, agent, exists, poll, route, sweep, site>>

(* A retryable failure with attempts left, judged on the copy of the row. *)
Retries(r) ==
  /\ r.status = "failed" /\ r.kind = "collect_os"
  /\ agentJobRetryable(r.category)
  /\ r.attempt + 1 < MaxAttempts

(* RequeueAgentJob, by primary key only: attempt is bumped in the database. *)
RequeueAgentJob(r) ==
  /\ r \in results /\ r.pc = "finish" /\ Retries(r)
  /\ Update(r.job, Requeued(job[r.job], r.category))
  /\ results' = results \ {r}
  /\ Answered(r)
  /\ UNCHANGED <<nextId, agent, exists, evidence, poll, route, sweep, running, faults>>

(* CompleteAgentJob, by primary key only. *)
CompleteAgentJob(r) ==
  /\ r \in results /\ r.pc = "finish" /\ ~Retries(r)
  /\ Update(r.job, Completed(job[r.job], r.status, r.category))
  /\ results' = results \ {r}
  /\ Answered(r)
  /\ UNCHANGED <<nextId, agent, exists, evidence, poll, route, sweep, running, faults>>

-----------------------------------------------------------------------------
(* Time.                                                                   *)

(* RequeueStaleAgentJobs on one row that is taken for stale. *)
RequeueAnyStatus(j) ==                           \* mutant: the status is not checked
  /\ job[j].kind = "collect_os" /\ Exists(j) /\ job[j].attempt + 1 < MaxAttempts
  /\ Update(j, Reaped(job[j]))
  /\ UNCHANGED <<nextId, agent, exists, evidence, api, site, faults>>
RequeueWithAttemptsLeft(j) ==                    \* mutant: a last attempt is never reaped
  /\ job[j].kind = "collect_os" /\ job[j].status = "dispatched"
  /\ job[j].attempt + 1 < MaxAttempts
  /\ Update(j, Reaped(job[j]))
  /\ UNCHANGED <<nextId, agent, exists, evidence, api, site, faults>>
RequeueStaleAgentJobs(j) ==
  /\ job[j].kind = "collect_os" /\ job[j].status = "dispatched"
  /\ Update(j, Reaped(job[j]))
  /\ UNCHANGED <<nextId, agent, exists, evidence, api, site, faults>>

BackoffElapses(j) ==
  /\ job[j].status = "queued" /\ job[j].waiting
  /\ job' = [job EXCEPT ![j].waiting = FALSE]
  /\ UNCHANGED <<nextId, agent, exists, evidence, api, site, faults>>

(* Only the categories the sweep looks at make the age of a failure matter. *)
CooldownElapses(j) ==
  /\ job[j].status = "failed" /\ job[j].category \in SelfHealable /\ ~job[j].cooled
  /\ job' = [job EXCEPT ![j].cooled = TRUE]
  /\ UNCHANGED <<nextId, agent, exists, evidence, api, site, faults>>

-----------------------------------------------------------------------------
(* The operator, and the direct collection path.                           *)

patchRelayAgent(a) ==
  /\ agent[a] # "deleted"
  /\ agent' = [agent EXCEPT ![a] = IF @ = "enabled" THEN "disabled" ELSE "enabled"]
  /\ UNCHANGED <<job, nextId, exists, evidence, api, site, faults>>

(* agent_jobs.agent_id REFERENCES relay_agents ON DELETE CASCADE. *)
deleteRelayAgent(a) ==
  /\ agent[a] # "deleted"
  /\ agent' = [agent EXCEPT ![a] = "deleted"]
  /\ job' = [j \in JobIds |-> IF job[j].agent = a /\ Exists(j)
                              THEN [job[j] EXCEPT !.status = "deleted"] ELSE job[j]]
  /\ UNCHANGED <<nextId, exists, evidence, api, site, faults>>

(* agent_jobs.device_id ... ON DELETE SET NULL; os_inventory cascades. *)
deleteDevice(d) ==
  /\ d \in exists
  /\ exists' = exists \ {d}
  /\ evidence' = evidence \ {d}
  /\ job' = [j \in JobIds |-> IF job[j].device = d
                              THEN [job[j] EXCEPT !.device = NoDevice] ELSE job[j]]
  /\ UNCHANGED <<nextId, agent, api, site, faults>>

(* runOSCollection succeeds without an agent. *)
DirectCollect(d) ==
  /\ d \in exists \ evidence
  /\ evidence' = evidence \cup {d}
  /\ UNCHANGED <<job, nextId, agent, exists, api, site, faults>>

-----------------------------------------------------------------------------
(* Faults.                                                                 *)

(* The poll's connection drops: its context is cancelled, so the rows not yet
   marked stay queued, and the ones marked are handed to nobody. *)
PollLost(a) ==
  /\ Fault /\ poll[a].pc # "idle"
  /\ poll' = [poll EXCEPT ![a] = IdlePoll]
  /\ UNCHANGED <<db, results, route, sweep, site>>

(* The agent process dies and restarts with nothing to do; results it is
   posting are lost to it through ConnectionDrops first. *)
AgentCrash(a) ==
  /\ Fault /\ running[a] # {} /\ posting[a] = {}
  /\ running' = [running EXCEPT ![a] = {}]
  /\ UNCHANGED <<db, api, posting>>

(* A post never reaches the API; the agent does not repeat it. *)
PostLost(a, j) ==
  /\ Fault /\ j \in running[a]
  /\ running' = [running EXCEPT ![a] = @ \ {j}]
  /\ UNCHANGED <<db, api, posting>>

(* The agent stops waiting for an answer while the handler, detached from the
   request's context, carries on. *)
ConnectionDrops(a, j) ==
  /\ Fault /\ j \in posting[a]
  /\ posting' = [posting EXCEPT ![a] = @ \ {j}]
  /\ UNCHANGED <<db, api, running>>

(* The handler's last statement fails; its error is ignored and the agent is
   told the result was taken. *)
WriteFails(r) ==
  /\ Fault /\ r \in results /\ r.pc = "finish"
  /\ results' = results \ {r}
  /\ Answered(r)
  /\ UNCHANGED <<db, poll, route, sweep, running>>

(* The API process dies with every handler, and restarts. *)
ApiCrash ==
  /\ Fault
  /\ poll' = [a \in Agents |-> IdlePoll]
  /\ results' = {} /\ sweep' = {}
  /\ route' = [c \in Callers |-> IdleRoute]
  /\ posting' = [a \in Agents |-> {}]
  /\ UNCHANGED <<db, running>>

-----------------------------------------------------------------------------
Outcomes == {<<TRUE, "success">>} \cup {<<FALSE, c>> : c \in Reported}

Enqueue == \/ \E c \in Routers, d \in Devices, a \in Agents : routeViaSiteAgent(c, d, a)
           \/ \E c \in Callers : CreateAgentJob(c)
           \/ SelfHealList
           \/ \E d \in Devices : SelfHealRoute(d)

Dispatch == \E a \in Agents :
              \/ PollCount(a) \/ PollList(a) \/ PollReply(a)
              \/ \E j \in JobIds : MarkAgentJobDispatched(a, j)

Collect == \E a \in Agents, j \in JobIds, o \in Outcomes : runJob(a, j, o[1], o[2])

Report == \E r \in results : \/ GetAgentJob(r) \/ Persist(r)
                             \/ RequeueAgentJob(r) \/ CompleteAgentJob(r)

Time == \E j \in JobIds : \/ RequeueStaleAgentJobs(j)
                          \/ BackoffElapses(j) \/ CooldownElapses(j)

Operator == \/ \E a \in Agents : \/ enqueueAgentTest(a) \/ patchRelayAgent(a)
                                 \/ deleteRelayAgent(a)
            \/ \E d \in Devices : deleteDevice(d) \/ DirectCollect(d)

Loss == \/ \E a \in Agents : \/ PollLost(a) \/ AgentCrash(a)
                             \/ \E j \in JobIds : PostLost(a, j)
        \/ \E r \in results : WriteFails(r)
        \/ ApiCrash

Drop == \E a \in Agents, j \in JobIds : ConnectionDrops(a, j)

(* Nobody but the scan, the agent and the clock acts. *)
Core == Enqueue \/ Dispatch \/ Collect \/ Report \/ Time

Next == Core \/ Operator \/ Loss \/ Drop

Spec == Init /\ [][Next]_vars

(* As Spec, except that an agent never gives up on a result it is posting. *)
AttachedSpec == Init /\ [][Core \/ Operator \/ Loss]_vars

(* The API process and a live agent keep taking the steps they can: every
   handler runs to its end, the agent polls on a timer, the reaper and the
   clock go on.  No operator, no new scan and no sweep is assumed. *)
Fairness ==
  /\ \A c \in Callers : WF_vars(CreateAgentJob(c))
  /\ \A a \in Agents : /\ WF_vars(PollCount(a)) /\ WF_vars(PollList(a))
                       /\ WF_vars(PollReply(a))
                       /\ WF_vars(\E j \in JobIds : MarkAgentJobDispatched(a, j))
  /\ \A a \in Agents, j \in JobIds : WF_vars(\E o \in Outcomes : runJob(a, j, o[1], o[2]))
  /\ \A j \in JobIds :
       /\ WF_vars(\E r \in results : r.job = j /\ (GetAgentJob(r) \/ Persist(r)
                                          \/ RequeueAgentJob(r) \/ CompleteAgentJob(r)))
       /\ WF_vars(RequeueStaleAgentJobs(j))
       /\ WF_vars(BackoffElapses(j))

(* Only collections are queued, and the operator leaves the agents alone. *)
CollectSpec == Init /\ [][Core \/ Loss \/ Drop]_vars /\ Fairness

-----------------------------------------------------------------------------
(* Properties.                                                             *)

(* Every variable of the queue, of its handlers and of the agents has its
   type; a row is always one the CHECK constraints of agent_jobs accept. *)
TypeOK ==
  /\ job \in [JobIds -> JobRow]
  /\ nextId \in 1..(MaxJobs + 1)
  /\ agent \in [Agents -> {"enabled", "disabled", "deleted"}]
  /\ exists \subseteq Devices /\ evidence \subseteq exists
  /\ poll \in [Agents -> PollRec]
  /\ results \subseteq ResultRec
  /\ route \in [Callers -> RouteRec]
  /\ sweep \subseteq Devices
  /\ running \in [Agents -> SUBSET JobIds] /\ posting \in [Agents -> SUBSET JobIds]
  /\ faults \in 0..MaxFaults

(* agentPollJobs never puts one agent above agentDispatchCap jobs in flight,
   although it counts, lists and marks in separate statements while results,
   the reaper and the operator change the same rows. *)
WithinCap == \A a \in Agents : Cardinality(Dispatched(a)) <= DispatchCap

(* A collection is 'done' only with its inventory stored: agentJobResult never
   closes a job as a success whose device has no os_inventory row, whatever
   failed, was deleted or crashed between the report and the completion. *)
DoneHasEvidence ==
  \A j \in JobIds : /\ job[j].status = "done" /\ job[j].kind = "collect_os"
                    /\ job[j].device # NoDevice
                    => job[j].device \in evidence

(* Self-heal is bounded: "a host that has burned selfHealMaxRounds failed jobs
   is left alone".  The failure that makes a device a candidate counts as the
   first, so StartCollectionSelfHeal gives a device fewer collections than
   that, although its list of candidates is out of date when a device is
   routed and late reports still change the rounds it counted.  Deleting an
   agent deletes its jobs, and with them rounds that were burned: then the
   sweep may give a device one collection more. *)
Healed(d) == {j \in JobIds : Exists(j) /\ job[j].device = d /\ job[j].healed}
SelfHealBounded ==
  \A d \in Devices : /\ Cardinality(Healed(d)) <= MaxRounds
                     /\ (\A a \in Agents : agent[a] # "deleted")
                          => Cardinality(Healed(d)) < MaxRounds

(* The retry envelope: however the reaper's requeues and the agent's reported
   failures interleave, a collection is handed to its agent at most
   max_attempts times. *)
RetryEnvelope == \A j \in JobIds : job[j].kind = "collect_os" => job[j].sent <= MaxAttempts

(* A row the agent's own report closed stays closed: only the reaper's verdict
   'agent_no_result' may still be overridden, by the late report itself. *)
Closed(row) == row.status = "done" \/ (row.status = "failed" /\ row.category # "agent_no_result")
ReportedIsFinal ==
  [][\A j \in JobIds : Closed(job[j]) =>
        job'[j].status \in {job[j].status, "deleted"} /\ job'[j].category = job[j].category]_vars

(* The collections as their callers see them: an order for each collect_os row. *)
Stage(row) ==
  CASE row.kind = "test" \/ row.status = "none" -> "none"
    [] row.kind = "collect_os" /\ row.status \in Active -> "open"
    [] row.kind = "collect_os" /\ row.status = "failed" ->
         IF row.category = "agent_no_result" THEN "unanswered" ELSE "failed"
    [] row.kind = "collect_os" /\ row.status = "done" -> "done"
    [] row.kind = "collect_os" /\ row.status = "deleted" -> "gone"
Stages == [j \in JobIds |-> Stage(job[j])]
HandedOut == [j \in JobIds |-> IF job[j].kind = "collect_os" THEN job[j].sent ELSE 0]
Board == INSTANCE CollectionOrders WITH Orders <- JobIds, Limit <- MaxAttempts,
                                        stage <- Stages, handed <- HandedOut

(* The queue keeps its orders: polls, requeues, back-offs, crashes and late
   reports show only as an order handed out again, given up or answered.  Above
   all, a collection that RequeueStaleAgentJobs failed as unanswered is never
   reopened by agentJobResult, which decides on an older copy of the row. *)
KeepsOrders == Board!OrdersSpec

(* Every collection that is queued is eventually settled, done or failed: no
   lost response, crashed agent or dropped report leaves it pending for ever. *)
CollectionsSettle ==
  \A j \in JobIds : (job[j].kind = "collect_os" /\ job[j].status \in Active)
                       ~> job[j].status \notin Active
=============================================================================
