----------------------------- MODULE Management -----------------------------
(***************************************************************************)
(* How one device's management state is established and reported: the      *)
(* agent's Windows ladder over the candidate credentials (hims-agent), the *)
(* handler that stores what it found (agentJobResult), credential tests,   *)
(* and the status page that derives the state from several tables, one     *)
(* query after the other (device_status.go, access_coverage.go).  A test   *)
(* row is its credential kind and category; a row succeeded iff its        *)
(* category is "success".  Module RelayQueue has the job queue itself.     *)
(***************************************************************************)
EXTENDS Naturals, Sequences

CONSTANTS Candidates,  \* credentials the server sends with a job
          MaxAttempts, \* agent_jobs.max_attempts
          Explored,    \* bound: the categories the rungs answer with
          MaxJobs,     \* bound: collections ever routed to the agent
          MaxActs      \* bound: tests recorded and bindings changed by scans and operators

ASSUME ManagementAssumption == {Candidates, MaxAttempts, MaxJobs, MaxActs} \subseteq Nat \ {0}

VARIABLES class,     \* what the device is; "endpoint" is a Windows host
          tests,     \* table credential_test_results: the rows of the device
          last,      \* its latest row per kind
          inventory, \* os_inventory.collection_method
          bound,     \* devices.credential_id is set
          agent,     \* the site's relay agent
          job,       \* the collect_os job: status and attempt
          result,    \* the result the API is storing
          routed, acts,
          view       \* a status request

mgmtVars == <<class, tests, last, inventory, bound, agent, job, result, routed, acts, view>>

Unset    == "none"
TestKinds == {"winrm", "wmi", "http_basic"}
-----------------------------------------------------------------------------
(* The ladder: what each rung may answer, and the category of one attempt. *)

classifyNativeWinRMErr == {"success", "auth_failed", "access_denied", "unreachable",
                           "winrm_connect_timeout", "winrm_negotiate_error"}
ClassifyWinRMError == {"success", "auth_failed", "auth_ok_operation_fault", "error",
                       "winrm_connect_timeout", "winrm_negotiate_error"}
ClassifyWMIError == {"success", "wmi_access_denied", "wmi_auth_failed",
                     "namespace_unavailable", "rpc_unreachable"}

isReachedVerdict(c) == c \in {"auth_failed", "access_denied", "wmi_access_denied", "wmi_auth_failed"}
isTransientWinRM(c) == c \in {"winrm_connect_timeout", "winrm_negotiate_error"}

\* Mutant: a listener that does not answer is taken for the whole host.
winRMShortCircuitsWMI_Transient(c) == c = "auth_failed" \/ isTransientWinRM(c)

winRMShortCircuitsWMI(c) == c = "auth_failed"

\* The first category of the sequence that satisfies Test, or the default.
FirstSuch(s, Test(_), default) ==
  LET hits == {k \in DOMAIN s : Test(s[k])}
  IN  IF hits = {} THEN default ELSE s[CHOOSE k \in hits : \A l \in hits : k <= l]

\* The category of a rung that was not climbed.
NotClimbed == ""

windowsFinalCat(native, winrm, wmi) ==
  LET Telling(c) == c \notin {NotClimbed, "error"} IN
  IF isReachedVerdict(native) THEN native
  ELSE IF wmi = "namespace_unavailable" THEN wmi
  ELSE IF isTransientWinRM(native) THEN native
  ELSE IF isTransientWinRM(winrm) THEN winrm
  ELSE FirstSuch(<<wmi, winrm, native>>, isReachedVerdict,
         FirstSuch(<<winrm, wmi, native>>, Telling, winrm))

\* One credential: native remoting, the Go shell, WMI; a = the rungs' answers.
collectWindows(a) ==
  IF a.native = "success" \/ a.winrm = "success" THEN "success"
  ELSE IF winRMShortCircuitsWMI(a.winrm) THEN windowsFinalCat(a.native, a.winrm, NotClimbed)
  ELSE IF a.wmi = "success" THEN "success"
  ELSE windowsFinalCat(a.native, a.winrm, a.wmi)

Answers == [native : classifyNativeWinRMErr \cap Explored, winrm : ClassifyWinRMError \cap Explored,
            wmi : ClassifyWMIError \cap Explored]
Outcomes == {[cat |-> collectWindows(a),
              wmiWorks |-> a.wmi = "success" /\ a.winrm # "auth_failed"] : a \in Answers}

\* The candidates in order, up to the first success or silent listener; missed:
\* a candidate that WMI would have collected was not.
runJob(o) ==
  LET ends == {k \in 1 .. Candidates : o[k].cat \in {"success", "winrm_connect_timeout"}}
      stop == IF ends = {} THEN Candidates ELSE CHOOSE k \in ends : \A l \in ends : k <= l
  IN  [run    |-> [k \in 1 .. stop |-> o[k].cat],
       missed |-> o[stop].cat # "success" /\ \E k \in 1 .. stop : o[k].wmiWorks]
Runs == {runJob(o) : o \in [1 .. Candidates -> Outcomes]}
-----------------------------------------------------------------------------
(* Credential tests.                                                       *)

InsertCredentialTestResult(kind, cat) ==
  /\ tests' = tests \cup {<<kind, cat>>}
  /\ last' = [last EXCEPT ![kind] = cat]

\* persistScanCredAttempts and persistCredentialTest, row by row.
persistCredentialTest(kind, cat) ==
  /\ acts < MaxActs /\ acts' = acts + 1
  /\ InsertCredentialTestResult(kind, cat)
  /\ UNCHANGED <<class, inventory, bound, agent, job, result, routed, view>>

bindDeviceCredential ==
  /\ acts < MaxActs /\ acts' = acts + 1
  /\ bound' = ~bound
  /\ UNCHANGED <<class, tests, last, inventory, agent, job, result, routed, view>>
-----------------------------------------------------------------------------
(* The agent's job and its result.                                         *)

NoJob    == [status |-> Unset, attempt |-> 0]
NoResult == [at |-> "idle", run |-> << >>, missed |-> FALSE, stored |-> FALSE]

agentJobRetryable(c) ==
  c \notin {"auth_failed", "access_denied", "wmi_access_denied", "namespace_unavailable"}

routeViaSiteAgent ==
  /\ job.status = Unset /\ agent = "online" /\ routed < MaxJobs
  /\ job' = [NoJob EXCEPT !.status = "queued"] /\ routed' = routed + 1
  /\ UNCHANGED <<class, tests, last, inventory, bound, agent, result, acts, view>>

\* The agent polls, climbs the ladder and posts what it found.
AgentRuns ==
  /\ job.status = "queued" /\ agent = "online" /\ result.at = "idle"
  /\ job' = [job EXCEPT !.status = "dispatched"]
  /\ \E r \in Runs : result' = [NoResult EXCEPT !.at = "persist", !.run = r.run, !.missed = r.missed]
  /\ UNCHANGED <<class, tests, last, inventory, bound, agent, routed, acts, view>>

Reported == result.run[Len(result.run)]

\* A success is persisted, with the label of the rung that collected; the
\* write may fail.  A failure goes on to the retry decision.
PersistReport ==
  /\ result.at = "persist"
  /\ \/ /\ Reported = "success"
        /\ inventory' \in {"winrm-native", "winrm-agent", "wmi"}
        /\ result' = [result EXCEPT !.at = "bind", !.stored = TRUE]
     \/ result' = [result EXCEPT !.at = "finish"] /\ UNCHANGED inventory
  /\ UNCHANGED <<class, tests, last, bound, agent, job, routed, acts, view>>

BindWinner ==
  /\ result.at = "bind"
  /\ bound' \in {TRUE, bound} /\ result' = [result EXCEPT !.at = "finish"]
  /\ UNCHANGED <<class, tests, last, inventory, agent, job, routed, acts, view>>

\* A transient failure, a report that could not be stored included, goes back
\* to the queue and leaves no row.
RequeueAgentJob ==
  /\ result.at = "finish" /\ ~result.stored
  /\ agentJobRetryable(Reported) /\ job.attempt + 1 < MaxAttempts
  /\ job' = [status |-> "queued", attempt |-> job.attempt + 1]
  /\ result' = NoResult
  /\ UNCHANGED <<class, tests, last, inventory, bound, agent, routed, acts, view>>

\* Every credential tried is acts, in order; a row may be lost.
RecordAttempt ==
  /\ result.at \in {"finish", "record"} /\ result.run # << >>
  /\ result.at = "finish" => \/ result.stored \/ ~agentJobRetryable(Reported)
                             \/ job.attempt + 1 >= MaxAttempts
  /\ InsertCredentialTestResult("wmi", Head(result.run)) \/ UNCHANGED <<tests, last>>
  /\ result' = [result EXCEPT !.at = "record", !.run = Tail(@)]
  /\ UNCHANGED <<class, inventory, bound, agent, job, routed, acts, view>>

CompleteAgentJob ==
  /\ result.at = "record" /\ result.run = << >>
  /\ job' = NoJob /\ result' = NoResult
  /\ UNCHANGED <<class, tests, last, inventory, bound, agent, routed, acts, view>>

\* The heartbeat of the site's agent.
relayAgentOnline ==
  /\ agent' \in {"online", "offline"} \ {agent}
  /\ UNCHANGED <<class, tests, last, inventory, bound, job, result, routed, acts, view>>
-----------------------------------------------------------------------------
(* The status request: its reads, one after the other.                     *)

\* Mutant: the labels are enumerated, without the agent's own.
ListDeviceAccessSignals_Labels ==
  {<<"wmi", "evidence">> : m \in {inventory} \cap {"wmi", "winrm-native"}}
    \cup {<<t[1], "test_result">> : t \in {x \in tests : x[2] = "success"}}

\* Inventory with any label is evidence; a test that ever succeeded is proof.
ListDeviceAccessSignals ==
  {<<IF inventory = "wmi" THEN "wmi" ELSE "winrm", "evidence">> : m \in {inventory} \ {Unset}}
    \cup {<<t[1], "test_result">> : t \in {x \in tests : x[2] = "success"}}

\* A web login that only authenticated proves nothing was collected.
buildAccessMap(signals) == {s[1] : s \in signals \ {<<"http_basic", "test_result">>}}

categoryIsAuthFailure(c) == c \in {"auth_failed", "access_denied", "wmi_access_denied"}

\* The aggregate over every row, never masked by a later one.
DeviceCredentialSignals == tests

credSignal(rows) ==
  LET Has(cats) == \E t \in rows : t[2] \in cats IN
  [anySuccess    |-> Has({"success"}),
   webSuccess    |-> <<"http_basic", "success">> \in rows,
   legacyAuthOK  |-> Has({"auth_ok_operation_fault"}),
   notAuthorized |-> Has({"access_denied", "wmi_access_denied"}),
   authRejected  |-> Has({"auth_failed"}),
   wmiBroken     |-> Has({"namespace_unavailable"})]

\* The fallback without the aggregate: the latest rows only.
Synthesized(latest) ==
  LET cs == [credSignal({<<k, latest[k]>> : k \in TestKinds}) EXCEPT
               !.legacyAuthOK = latest["winrm"] = "auth_ok_operation_fault", !.wmiBroken = FALSE]
  IN  [cs EXCEPT !.authRejected = @ \/ /\ ~cs.notAuthorized
                                       /\ \E k \in TestKinds : categoryIsAuthFailure(latest[k])]

windowsLike(c) == c = "endpoint"

deriveManagement(v) ==
  LET tested == \E k \in TestKinds : v.latest[k] # Unset
      cs == IF v.signals # {} THEN credSignal(v.signals)
            ELSE IF tested THEN Synthesized(v.latest) ELSE credSignal({})
  IN
  IF v.access # {} \/ class = "nvr_camera" THEN "managed"
  ELSE IF cs.legacyAuthOK \/ (windowsLike(class) /\ v.latest["winrm"] = "auth_ok_operation_fault") THEN
         IF cs.wmiBroken THEN "collection_failed"
         ELSE IF v.agent = "offline" THEN "agent_offline" ELSE "needs_agent"
  ELSE IF cs.webSuccess THEN "web_authenticated"
  ELSE IF cs.notAuthorized /\ ~cs.anySuccess THEN "not_authorized"
  ELSE IF v.active THEN IF v.agent = "offline" THEN "agent_offline" ELSE "pending_collection"
  ELSE IF cs.authRejected /\ ~(cs.anySuccess \/ cs.legacyAuthOK \/ cs.notAuthorized)
         THEN "credential_failed"
  ELSE IF v.bound \/ tested THEN "collection_failed"
  ELSE IF windowsLike(class) THEN "not_attempted"
  ELSE IF class = "switch" THEN "needs_credential"
  ELSE "unmanaged"

statusFor(v) == IF class = "virtual" THEN "virtual" ELSE deriveManagement(v)

\* Ghosts of a request: what was true when it began (had, collected), whether a
\* job was in flight all along (busy), and what it could not read (blind).
NoView == [at |-> "idle", bound |-> FALSE, access |-> {}, latest |-> [k \in TestKinds |-> Unset],
           signals |-> {}, agent |-> Unset, active |-> FALSE, report |-> Unset,
           had |-> FALSE, collected |-> FALSE, busy |-> FALSE, blind |-> {}]

InFlight == job.status # Unset
Authenticated == \/ inventory # Unset
                 \/ \E t \in tests : t[2] \in {"success", "auth_ok_operation_fault",
                                               "access_denied", "wmi_access_denied"}
Viewing(from) == /\ view.at = from
                 /\ UNCHANGED <<class, tests, last, inventory, bound, agent, job, result, routed, acts>>
Sees(v) == view' = [v EXCEPT !.busy = @ /\ InFlight]

listDevices ==
  /\ Viewing("idle")
  /\ view' = [NoView EXCEPT !.at = "access", !.bound = bound, !.busy = InFlight,
                            !.had = Authenticated, !.collected = inventory # Unset]

deviceAccessMap ==
  /\ Viewing("access")
  /\ Sees([view EXCEPT !.at = "tests", !.access = buildAccessMap(ListDeviceAccessSignals)])

deviceTestMap ==
  /\ Viewing("tests") /\ Sees([view EXCEPT !.at = "signals", !.latest = last])

\* buildStatusMaps ignores the errors of the remaining queries.
ReadSignals ==
  /\ Viewing("signals")
  /\ \/ Sees([view EXCEPT !.at = "agents", !.signals = DeviceCredentialSignals])
     \/ Sees([view EXCEPT !.at = "agents", !.blind = @ \cup {"signals"}])

ListRelayAgents ==
  /\ Viewing("agents")
  /\ \E a \in {agent, Unset} : Sees([view EXCEPT !.at = "jobs", !.agent = a])

ListDevicesWithActiveAgentJobs ==
  /\ Viewing("jobs")
  /\ \/ Sees([view EXCEPT !.at = "derive", !.active = InFlight])
     \/ Sees([view EXCEPT !.at = "derive", !.blind = @ \cup {"jobs"}])

enrich ==
  /\ Viewing("derive")
  /\ view' = [NoView EXCEPT !.report = statusFor(view), !.had = view.had, !.busy = view.busy,
                            !.collected = view.collected, !.blind = view.blind]
-----------------------------------------------------------------------------
MgmtInit ==
  /\ class \in {"endpoint", "switch", "nvr_camera", "virtual", "other"}
  /\ tests = {} /\ last = [k \in TestKinds |-> Unset]
  /\ inventory = Unset /\ bound = FALSE /\ agent \in {"online", Unset}
  /\ job = NoJob /\ result = NoResult /\ routed = 0 /\ acts = 0 /\ view = NoView

MgmtNext ==
  \/ \E k \in {"winrm", "http_basic"},
        c \in {"success", "auth_failed", "auth_ok_operation_fault", "unreachable"} :
       /\ k = "http_basic" => c # "auth_ok_operation_fault"
       /\ persistCredentialTest(k, c)
  \/ bindDeviceCredential \/ (class = "endpoint" /\ routeViaSiteAgent)
  \/ AgentRuns \/ PersistReport \/ BindWinner \/ RequeueAgentJob \/ RecordAttempt
  \/ CompleteAgentJob \/ (agent # Unset /\ relayAgentOnline)
  \/ listDevices \/ deviceAccessMap \/ deviceTestMap \/ ReadSignals
  \/ ListRelayAgents \/ ListDevicesWithActiveAgentJobs \/ enrich

MgmtSpec == MgmtInit /\ [][MgmtNext]_mgmtVars
-----------------------------------------------------------------------------
\* "A host is NEVER reported credential_failed when a credential actually
\* worked": once any credential authenticated by any method, no request that
\* begins later blames the credentials, whatever rows come after and however
\* its queries interleave with them, as long as it could read the aggregate.
NeverFailedAfterAuth ==
  view.report = "credential_failed" => ~view.had \/ "signals" \in view.blind

\* "A host that collected once must not regress": every request that begins
\* after the inventory was stored reports the device managed.
CollectedStaysManaged ==
  view.report # Unset /\ view.collected /\ class # "virtual" => view.report = "managed"

\* A host whose collection is in flight all through the request is never
\* reported as rejected, never attempted or without a credential.
InFlightNotBlamed ==
  view.busy /\ "jobs" \notin view.blind =>
    view.report \notin {"credential_failed", "not_attempted", "needs_credential", "unmanaged"}

\* Every candidate gets every transport: a job fails on a host that WMI would
\* have collected only behind a clean rejection of the same credential.
NoWorkingRungMissed == ~result.missed

\* What the status page (deriveManagement) may never say of a device.
HonestStatus == NeverFailedAfterAuth /\ CollectedStaysManaged /\ InFlightNotBlamed
=============================================================================
