------------------------------ MODULE Pipeline ------------------------------
(***************************************************************************)
(* The probe of one host by a scan (internal/discovery): open ports,        *)
(* credential candidates (internal/credresolver, storage/postgres/          *)
(* credresolve.go), the protocol plan, the SNMP and the other logins, the   *)
(* classification, and the camera collection's choice of web credentials    *)
(* (api/discovery.go).  Operators assign credentials to the subnet and      *)
(* delete credentials while the scan runs; lookups fail and deadlines pass. *)
(*                                                                          *)
(* A host is a probe (module Fingerprints) as a complete answer would give  *)
(* it, with what it really accepts: accepts, the credentials; versions, the *)
(* SNMP versions; public, a default community; open, a home page that       *)
(* answers 200 whatever login is sent; legacy, a WinRM that authenticates   *)
(* and then faults.                                                         *)
(***************************************************************************)
EXTENDS Fingerprints

CONSTANTS Hosts,      \* the hosts a scan may meet
          Creds,      \* credential ids, numbers: the last sort key of the resolver
          Kind,       \* the kind of each credential
          Weak,       \* the guessable ones
          Bindings,   \* the credentials bound to the host's location
          Group,      \* the members of a credential group
          Selections, \* the credential sets an operator may choose for a scan
          Scopes,     \* the sets an operator may assign to the subnet
          MaxFaults,  \* lookups and deadlines that fail
          MaxEdits    \* assignments and deletions under one probe

ASSUME PipelineAssumption == /\ Creds \subseteq Nat \ {0} /\ IsFiniteSet(Creds)
                             /\ Weak \cup Bindings \cup Group \subseteq Creds
                             /\ Selections \cup Scopes \subseteq SUBSET Creds /\ {MaxFaults, MaxEdits} \subseteq Nat

VARIABLES host, stored, assigned, onboarded,      \* the host, the credential table, its subnet, its CCTV login
          scan, step, open, plan,                 \* the running probe
          cands, order, todo,                     \* its candidates, what ranks them, those still to try
          session, bound, authed, attempts, match,
          presented, pipeFaults,                  \* what the host was shown, and what disturbed the probe
          scopes, adding, edits                   \* the sets the subnet was meant to have, an assignment under way

edit == <<scopes, adding, edits>>
world == <<host, stored, assigned, onboarded, edit, pipeFaults>>
logins == <<session, bound, authed, attempts, presented>>
choice == <<cands, order, todo, plan>>
pipeVars == <<world, scan, step, open, choice, logins, match>>

Nobody == 0                                        \* no credential
NoKind == ""
Snmp == {"snmp_v2c", "snmp_v3"}
Web == {"http_basic", "onvif", "vendor_api"}

-----------------------------------------------------------------------------
(* Ports, plan and candidates. *)

isWebPort(port) == port \in {80, 443, 8080, 8443} \/ port \in 8000 .. 8255
anyWebPort(ports) == \E port \in ports : isWebPort(port)
cctvWebPortPattern(ports) == ports # {} /\ \A port \in ports : port \in 8001 .. 8255 /\ port # 8080
WinRMPorts == {5985, 5986}

portAllowsProto(ports, kind) ==
    CASE kind = "ssh" -> 22 \in ports
      [] kind = "winrm" -> WinRMPorts \cap ports # {}
      [] kind \in Web -> anyWebPort(ports)
      [] OTHER -> FALSE

\* The kinds the resolver lets through: SNMP is UDP, so it always may be tried.
Allows(ports, kind) == kind \in Snmp \/ portAllowsProto(ports, kind)

Plan(candidate, expected, relevant) == [candidate |-> candidate, expected |-> expected, relevant |-> relevant]

\* What kind of device the open ports and banners suggest, the first that fits.
planProtocols(p) ==
    LET has(ports) == ports \cap p.ports # {}
        vendor == {"cisco_ios", "cisco_unified", "huawei", "aruba", "extreme_networks", "fortigate", "ruckus"}
                    \cap Page(p) # {}
        camera == has({554}) \/ cctvWebPortPattern(p.ports) \/ {"hikvision", "axis", "nvr"} \cap Page(p) # {}
        windows == has({445, 135, 3389} \cup WinRMPorts)
        appliance == /\ has({22})
                     /\ \/ has({8443, 8080, 8000})
                        \/ anyWebPort(p.ports) /\ (vendor \/ "controller" \in Page(p))
        linux == has({22}) /\ {"openssh", "ubuntu"} \cap p.ssh # {}
    IN CASE camera -> Plan("camera", {"onvif", "http_basic"}, Web)
         [] ~camera /\ "vmware" \in Page(p) -> Plan("vmware", {"vendor_api"}, {"vendor_api", "http_basic"})
         [] ~camera /\ "vmware" \notin Page(p) /\ windows ->
                Plan("windows", {"winrm"}, {"winrm"} \cup (IF anyWebPort(p.ports) THEN {"http_basic"} ELSE {}))
         [] OTHER ->
            IF appliance THEN Plan("appliance", Snmp \cup {"ssh"}, Snmp \cup {"ssh", "http_basic"})
            ELSE IF linux THEN Plan("linux", {"ssh"}, {"ssh"})
            ELSE IF vendor THEN Plan("network", Snmp \cup {"ssh"}, Snmp \cup {"ssh"})
            ELSE IF has({9100}) /\ ~anyWebPort(p.ports) /\ ~has({22}) THEN Plan("printer", Snmp, Snmp)
            ELSE Plan("unknown", Snmp \cup (IF has({22}) THEN {"ssh"} ELSE {}),
                      Snmp \cup {"ssh", "http_basic", "vendor_api"})

SNMPRelevant == Snmp \cap plan.relevant # {}

ListCredentialCandidates == stored
ListCredentialCandidatesByIDs(chosen) == chosen \cap stored
ListCredentialGroupMembers(groups) == IF groups THEN Group \cap stored ELSE {}
ResolveCandidatesForIP == Bindings \cap stored          \* the location's groups
SubnetScopedCredentialsForIP == assigned \cap stored

\* The scan's own tiers: the chosen credentials, all the stored ones if none was
\* chosen, and the chosen groups.
scanCredentialTier(chosen, groups) ==
    (IF chosen # {} THEN ListCredentialCandidatesByIDs(chosen) ELSE ListCredentialCandidates)
        \cup ListCredentialGroupMembers(groups)

CredentialCandidates == ResolveCandidatesForIP
SubnetScopedCredentials == SubnetScopedCredentialsForIP

\* The resolver: an exclusive set replaces every group, and kinds the host cannot speak
\* are dropped.
Resolve_FittingOnly(exclusive, extra, ports) ==    \* mutant: a scope that does not fit counts as none
    LET fit == {c \in exclusive : Allows(ports, Kind[c])}
    IN IF fit # {} THEN fit ELSE {c \in extra \cup CredentialCandidates : Allows(ports, Kind[c])}
Resolve(exclusive, extra, ports) ==
    LET pool == IF exclusive # {} THEN exclusive ELSE extra \cup CredentialCandidates
    IN {c \in pool : Allows(ports, Kind[c])}

\* Its sort: strong before weak, the scan's tier before the location's, then by id.
Ranked(c, d) ==
    IF (c \in order.weak) # (d \in order.weak) THEN d \in order.weak
    ELSE IF (c \in order.near) # (d \in order.near) THEN c \in order.near
    ELSE c < d

-----------------------------------------------------------------------------
NoScan == [chosen |-> {}, groups |-> FALSE, extra |-> {}, explicit |-> FALSE]

PipeInit ==
    /\ host \in Hosts /\ stored = Creds /\ assigned \in Scopes
    /\ onboarded \in {Nobody} \cup {c \in Creds : Kind[c] \in Web}
    /\ scan = NoScan /\ step = "idle" /\ open = {} /\ plan = Plan(NoKind, {}, {})
    /\ cands = {} /\ order = [weak |-> {}, near |-> {}] /\ todo = {}
    /\ session = FALSE /\ bound = Nobody /\ authed = NoKind /\ attempts = {} /\ presented = {}
    /\ match = NoMatch /\ pipeFaults = 0
    /\ scopes = {assigned} /\ adding = {} /\ edits = 0

PipeFault == pipeFaults < MaxFaults /\ pipeFaults' = pipeFaults + 1

\* What the probe sees: the SNMP identity only over a session.
Seen == [host.probe EXCEPT !.ports = open,
                           !.oid = IF session THEN @ ELSE <<>>,
                           !.descr = IF session THEN @ ELSE {},
                           !.server = IF anyWebPort(open) THEN @ ELSE {},
                           !.title = IF anyWebPort(open) THEN @ ELSE {},
                           !.body = IF anyWebPort(open) THEN @ ELSE {},
                           !.ssh = IF 22 \in open THEN @ ELSE {}]

\* An operator launches the scan, choosing credentials, a group, both or neither.
\* Any choice makes the selection explicit.
LaunchScan(chosen, groups) ==
    /\ step = "idle"
    /\ scan' = [chosen |-> chosen, groups |-> groups, extra |-> scanCredentialTier(chosen, groups),
                explicit |-> chosen # {} \/ groups]
    /\ step' = "ports"
    /\ UNCHANGED <<world, open, choice, logins, match>>

\* Every connect either succeeds or times out: a busy host may seem to have no port open.
scanPorts(answers) ==
    /\ step = "ports"
    /\ open' = IF answers THEN host.probe.ports ELSE {}
    /\ pipeFaults' = IF answers THEN pipeFaults ELSE pipeFaults + 1
    /\ pipeFaults' <= MaxFaults
    /\ step' = "scope"
    /\ UNCHANGED <<host, stored, assigned, onboarded, edit, scan, choice, logins, match>>

\* The candidates and the plan.  An explicit selection is the exclusive set; otherwise
\* the subnet's is, if it could be read and is not empty.
Scope(readable) ==
    /\ step = "scope"
    /\ LET chosen == scan.explicit /\ scan.extra # {}
           subnet == IF readable THEN SubnetScopedCredentials ELSE {}
           exclusive == IF chosen THEN scan.extra ELSE subnet
       IN /\ cands' = Resolve(exclusive, scan.extra, open)
          /\ order' = [weak |-> IF ~chosen /\ subnet # {} THEN {} ELSE Weak,   \* the subnet's carry no weak flag
                       near |-> IF exclusive # {} THEN {} ELSE scan.extra]
    /\ todo' = {c \in cands' : Kind[c] \in Snmp}
    /\ plan' = planProtocols(Seen)
    /\ step' = "snmp"
    /\ UNCHANGED <<host, stored, assigned, onboarded, edit, scan, open, logins, match>>

ReadScope == Scope(TRUE) /\ UNCHANGED pipeFaults
ScopeUnreadable == Scope(FALSE) /\ PipeFault

-----------------------------------------------------------------------------
(* The logins.  scanDecrypt opens the secret only of a credential about to be tried. *)

\* The candidate whose turn it is.
First(Sooner(_, _)) == {c \in todo : \A d \in todo \ {c} : Sooner(c, d)}

Attempt(c, outcome) == [cred |-> c, outcome |-> outcome]

\* A community is tried as v2c and then as v1.
SnmpAnswers(c) ==
    /\ c \in host.accepts
    /\ IF Kind[c] = "snmp_v2c" THEN {"v2c", "v1"} \cap host.versions # {} ELSE "v3" \in host.versions

\* A failure is recorded only where SNMP was expected.
snmpAttempt(c) == IF SNMPRelevant THEN attempts \cup {Attempt(c, "auth_failed")} ELSE attempts

\* A community that cannot be decrypted is skipped; the first answer binds and ends the search.
TrySNMP ==
    /\ step = "snmp"
    /\ \E c \in First(Ranked) :
       LET tried == c \in stored
           answers == tried /\ SnmpAnswers(c)
       IN /\ todo' = todo \ {c}
          /\ presented' = presented \cup (IF tried THEN {c} ELSE {})
          /\ session' = answers
          /\ bound' = IF answers THEN c ELSE bound
          /\ attempts' = IF answers THEN attempts \cup {Attempt(c, "success")}
                         ELSE IF tried THEN snmpAttempt(c) ELSE attempts
          /\ step' = IF answers THEN "classify" ELSE step
    /\ UNCHANGED <<world, scan, open, cands, order, plan, authed, match>>

DefaultCommunities_Suffice ==                      \* mutant: an answering default community ends the search
    /\ step = "snmp" /\ todo = {}
    /\ session' = (SNMPRelevant /\ host.public /\ {"v2c", "v1"} \cap host.versions # {})
    /\ todo' = {c \in cands : Kind[c] \notin Snmp}
    /\ step' = IF session' THEN "classify" ELSE "login"
    /\ UNCHANGED <<world, scan, open, cands, order, plan, bound, authed, attempts, presented, match>>

\* Without an answer: the default communities, where SNMP is expected.  They give a
\* session and bind nothing.  Then the other logins.
DefaultCommunities ==
    /\ step = "snmp" /\ todo = {}
    /\ session' = (SNMPRelevant /\ host.public /\ {"v2c", "v1"} \cap host.versions # {})
    /\ todo' = {c \in cands : Kind[c] \notin Snmp}
    /\ step' = "login"
    /\ UNCHANGED <<world, scan, open, cands, order, plan, bound, authed, attempts, presented, match>>

\* credtest.  An HTTP login succeeds on any 2xx answer, ONVIF is asked on port 80 only,
\* and a legacy WinRM authenticates and then faults.
testSSH(c) == IF c \in host.accepts THEN "success" ELSE "auth_failed"
testHTTP(c) == IF host.open \/ c \in host.accepts THEN "success" ELSE "auth_failed"
testONVIF(c) == IF 80 \notin open THEN "unreachable" ELSE IF c \in host.accepts THEN "success" ELSE "auth_failed"
testWinRM(c) == IF c \notin host.accepts THEN "auth_failed" ELSE IF host.legacy THEN "operation_fault" ELSE "success"
Test(c) == CASE Kind[c] = "winrm" -> testWinRM(c) [] Kind[c] = "onvif" -> testONVIF(c)
             [] Kind[c] = "ssh" -> testSSH(c)     [] OTHER -> testHTTP(c)

\* Only the kinds the plan holds relevant, on an open port.
Tried(c) == Kind[c] \in plan.relevant /\ portAllowsProto(open, Kind[c]) /\ c \in stored

\* The kinds the plan expects come first.
ExpectedFirst(c, d) ==
    IF (Kind[c] \in plan.expected) # (Kind[d] \in plan.expected) THEN Kind[c] \in plan.expected
    ELSE Ranked(c, d)

TryLogin ==
    /\ step = "login"
    /\ \E c \in First(ExpectedFirst) :
       LET ok == Tried(c) /\ Test(c) = "success"
       IN /\ todo' = todo \ {c}
          /\ presented' = presented \cup (IF Tried(c) THEN {c} ELSE {})
          /\ attempts' = IF Tried(c) THEN attempts \cup {Attempt(c, Test(c))} ELSE attempts
          /\ bound' = IF ok THEN c ELSE bound
          /\ authed' = IF ok THEN Kind[c] ELSE authed
          /\ step' = IF ok THEN "classify" ELSE step
    /\ UNCHANGED <<world, scan, open, cands, order, plan, session, match>>

NoLogin ==
    /\ step = "login" /\ todo = {} /\ step' = "classify"
    /\ UNCHANGED <<world, scan, open, choice, logins, match>>

\* The probe's deadline passes: what is left of the search fails without an answer.
PipeDeadline ==
    /\ step \in {"snmp", "login"} /\ PipeFault
    /\ todo' = {} /\ step' = "classify"
    /\ UNCHANGED <<host, stored, assigned, onboarded, edit, scan, open, cands, order, plan, logins, match>>

-----------------------------------------------------------------------------
(* The verdict, and the camera branch of the scan. *)

Alive == open # {} \/ session

\* A host that did not answer at all is dropped; the others are classified.
Finish ==
    /\ step = "classify"
    /\ match' = IF Alive THEN Classify(Seen, authed, plan.candidate, Library) ELSE NoMatch
    /\ step' = IF match'.cat \in {"camera", "nvr", "dvr"} THEN "cctv" ELSE "done"
    /\ UNCHANGED <<world, scan, open, choice, logins>>

\* The web credentials for a camera: an explicit selection's, else the subnet's (even
\* none of them), else the scan's; an onboarded camera is shown only its own login.
WebOf(set) == {c \in set : Kind[c] \in {"onvif", "http_basic"}}
cctvWebCredsForScan_NoneMeansAll(readable) ==       \* mutant: a scope without web logins counts as none
    IF readable /\ WebOf(SubnetScopedCredentials) # {} THEN WebOf(SubnetScopedCredentials) ELSE WebOf(scan.extra)
cctvWebCredsForScan(readable) ==
    IF readable /\ SubnetScopedCredentials # {} THEN WebOf(SubnetScopedCredentials) ELSE WebOf(scan.extra)

CollectCamera(readable) ==
    /\ step = "cctv"
    /\ LET web == IF onboarded # Nobody THEN {onboarded}
                  ELSE IF scan.explicit THEN WebOf(scan.extra) ELSE cctvWebCredsForScan(readable)
           good == web \cap stored \cap host.accepts
       IN \E shown \in SUBSET (web \cap stored) :     \* in order, up to the first that works
            /\ good # {} => shown \cap good # {}
            /\ good = {} => shown = web \cap stored
            /\ presented' = presented \cup shown
            /\ onboarded' = IF good = {} THEN onboarded ELSE CHOOSE c \in shown \cap good : TRUE
    /\ step' = "done"
    /\ UNCHANGED <<host, stored, assigned, edit, scan, open, choice, session, bound, authed, attempts, match>>

CameraScopeRead == CollectCamera(TRUE) /\ UNCHANGED pipeFaults
CameraScopeUnreadable == CollectCamera(FALSE) /\ PipeFault

-----------------------------------------------------------------------------
(* Meanwhile, an operator. *)

EditPossible == step \notin {"idle", "done"} /\ edits < MaxEdits /\ edits' = edits + 1

\* setSubnetCredentials clears the subnet's set, then adds the new one row by row, not in
\* one transaction.
ClearSubnetCredentials(set) ==
    /\ EditPossible /\ assigned' = {} /\ adding' = set /\ scopes' = scopes \cup {set}
    /\ UNCHANGED <<host, stored, onboarded, pipeFaults, scan, step, open, choice, logins, match>>

AddSubnetCredential ==
    /\ adding # {} /\ \E c \in adding : assigned' = assigned \cup {c} /\ adding' = adding \ {c}
    /\ UNCHANGED <<host, stored, onboarded, scopes, edits, pipeFaults, scan, step, open, choice, logins, match>>

\* Deleting a credential drops its assignments and bindings with it.
deleteCredential(c) ==
    /\ EditPossible /\ c \in stored /\ stored' = stored \ {c}
    /\ assigned' = assigned \ {c} /\ adding' = adding \ {c} /\ scopes' = scopes \cup {assigned \ {c}}
    /\ onboarded' = IF onboarded = c THEN Nobody ELSE onboarded
    /\ UNCHANGED <<host, pipeFaults, scan, step, open, choice, logins, match>>

PipeNext ==
    \/ \E chosen \in Selections, groups \in BOOLEAN : LaunchScan(chosen, groups)
    \/ \E answers \in BOOLEAN : scanPorts(answers)
    \/ ReadScope \/ ScopeUnreadable \/ TrySNMP \/ DefaultCommunities \/ TryLogin \/ NoLogin
    \/ PipeDeadline \/ Finish \/ CameraScopeRead \/ CameraScopeUnreadable
    \/ \E set \in Scopes : ClearSubnetCredentials(set)
    \/ AddSubnetCredential
    \/ \E c \in Creds : deleteCredential(c)

PipeSpec == PipeInit /\ [][PipeNext]_pipeVars

-----------------------------------------------------------------------------
(* Properties *)

Undisturbed == pipeFaults = 0 /\ edits = 0

\* A scan that leaves the credentials to HIMS shows a host of a subnet with assigned
\* credentials only those, in the probe and in the camera collection (or the login an
\* onboarded camera already has), even when none of them fits the host.  Lookups that
\* fail, and assignments changed under the scan, are excepted: there the code falls
\* back to every stored credential.
ScopedSubnetNotSprayed ==
    Undisturbed /\ ~scan.explicit /\ assigned # {} /\ step # "idle"
        => presented \subseteq assigned \cup {onboarded}

Works(c) == IF Kind[c] \in Snmp THEN SnmpAnswers(c) ELSE Tried(c) /\ Test(c) = "success"

\* A probe that nothing disturbed ends bound to a credential whenever some candidate of
\* a kind that matters for the host would have authenticated: neither the order of the
\* search, nor the SNMP version, nor a default community that answers first hides it.
WorkingLoginBinds ==
    Undisturbed /\ step \in {"cctv", "done"} =>
        \A c \in cands : Works(c) => bound # Nobody /\ Attempt(bound, "success") \in attempts

\* Network gear that a driver knows by its enterprise number keeps the driver's category
\* when an SSH login works as well, for every vendor the catalogue has a rule for.
EnterpriseIdentityKept ==
    LET driver == Best(Seen) IN
    /\ step = "done" /\ session /\ driver.conf = 90
    /\ \E r \in MatchWithRejected(Seen, Library) : r.kind = "oid" /\ r.type = driver.cat
    /\ \A r \in MatchWithRejected(Seen, Library) : r.type = driver.cat
    => match.cat = driver.cat

\* The contract of subnet scope: a host of a subnet that always has credentials assigned
\* is shown only credentials it was ever assigned, also while an operator replaces them.
AssignedSubnetNeverSprayed ==
    pipeFaults = 0 /\ ~scan.explicit /\ {} \notin scopes => presented \subseteq UNION scopes \cup {onboarded}
=============================================================================
