---------------------------- MODULE Fingerprints ----------------------------
(***************************************************************************)
(* What a probed host is: the drivers' claims and the best of them          *)
(* (internal/driver), the evidence rules and their merge (internal/         *)
(* classify), and the fingerprint rules with exclusions (internal/          *)
(* fingerprint).  All pure.                                                 *)
(*                                                                          *)
(* A probe is a record: oid, the arcs of sysObjectID below 1.3.6.1.4.1      *)
(* (empty: no SNMP answer), descr, server, title, body and ssh, the sets of *)
(* vendor or product words the sysDescr, the HTTP Server header, page title *)
(* and body and the SSH banner hold, and ports, the open TCP ports.  A word *)
(* stands for every keyword the code treats alike.                          *)
(***************************************************************************)
EXTENDS Integers, FiniteSets, FiniteSetsExt, SequencesExt

Unknown == "unknown"
NoCategory == ""
NoMatch == [cat |-> NoCategory, conf |-> 0]
Claim(cat, conf) == [cat |-> cat, conf |-> conf]

Under(p, prefix) == p.oid # <<>> /\ IsPrefix(prefix, p.oid)
Banner(p) == p.server \cup p.title                  \* what most drivers read
Page(p) == p.server \cup p.title \cup p.body
Spoken(p) == 161 \in p.ports                        \* sysDescr counts only if TCP 161 is open

-----------------------------------------------------------------------------
(* The drivers' Fingerprint methods. *)

\* An SNMP driver: 90 for its enterprise number, less for its name in sysDescr.
ByEnterprise(p, prefixes, words, cat, sure, hint) ==
    IF \E e \in prefixes : IsStrictPrefix(e, p.oid) THEN Claim(cat, sure)
    ELSE IF Spoken(p) /\ words \cap p.descr # {} THEN Claim(cat, hint)
    ELSE NoMatch

cisco(p) == ByEnterprise(p, {<<"9">>}, {"cisco_ios"}, "switch", 90, 70)
huawei(p) == ByEnterprise(p, {<<"2011">>}, {"huawei"}, "switch", 90, 70)
extremesw(p) == ByEnterprise(p, {<<"45">>, <<"1916">>}, {"extreme_networks"}, "switch", 90, 70)
fortigate(p) == IF p.oid = <<"12356">> THEN Claim("firewall", 90)
                ELSE ByEnterprise(p, {<<"12356">>}, {"fortigate"}, "firewall", 90, 70)
esxi(p) == ByEnterprise(p, {<<"6876">>}, {"vmware"}, "virtual_host", 90, 70)
hostsnmp(p) == ByEnterprise(p, {<<"8072">>, <<"311">>}, {"linux", "windows"}, "server", 80, 55)

\* HP printers share HP's enterprise number with its switches.
isHPPrinter(p) == Under(p, <<"11", "2", "3", "9">>) \/ "jetdirect" \in p.descr
aruba(p) == IF isHPPrinter(p) THEN NoMatch
            ELSE ByEnterprise(p, {<<"11">>, <<"14823">>, <<"47196">>}, {"aruba"}, "switch", 90, 70)

cctv(p) ==
    LET cat == IF "nvr" \in Banner(p) THEN "nvr" ELSE "camera"
    IN IF {"hikvision", "axis"} \cap Banner(p) # {} THEN Claim(cat, 75)
       ELSE IF 554 \in p.ports THEN Claim(cat, 60) ELSE NoMatch

wireless(p) ==
    IF {"unifi", "ruckus", "aruba"} \cap Banner(p) = {} THEN NoMatch
    ELSE Claim("wireless_controller", IF {443, 8443} \cap p.ports # {} THEN 78 ELSE 60)

cucm(p) == IF "cisco_unified" \in Banner(p) THEN Claim("pbx", 75) ELSE NoMatch
redfish(p) == IF "idrac" \in Banner(p) THEN Claim("server", 72) ELSE NoMatch
vsphere(p) == IF "vmware" \in Banner(p) THEN Claim("virtual_host", 71) ELSE NoMatch
webapp(p) == IF "kea" \in Page(p) THEN Claim("dhcp", 60) ELSE NoMatch
printer(p) == IF {"jetdirect", "printer"} \cap (p.descr \cup p.server) # {} THEN Claim("printer", 70)
              ELSE IF 9100 \in p.ports THEN Claim("printer", 62) ELSE NoMatch
ups(p) == IF "apc" \in p.descr \cup p.server THEN Claim("ups", 68) ELSE NoMatch

\* drivers/builtin.go: the registered drivers' claims, in the order of their names
\* (the extreme driver is registered and claims nothing).
Builtin(p) == <<aruba(p), cctv(p), cisco(p), cucm(p), extremesw(p), fortigate(p), hostsnmp(p), huawei(p),
                printer(p), redfish(p), ups(p), esxi(p), vsphere(p), webapp(p), wireless(p)>>

\* driver.Registry.Best: the highest confidence wins, a tie goes to the first name.
Best(p) ==
    LET claims == Builtin(p)
        wins == {i \in DOMAIN claims : \A j \in DOMAIN claims : claims[j].conf <= claims[i].conf}
    IN claims[Min(wins)]

-----------------------------------------------------------------------------
(* Evidence rules and their merge. *)

Ev(source, cat, os, conf) == [source |-> source, cat |-> cat, os |-> os, conf |-> conf]
When(condition, e) == IF condition THEN {e} ELSE {}

OpenPorts(p) ==
    When(3389 \in p.ports, Ev("rdp", "endpoint", "windows", 45)) \cup
    When({5985, 5986} \cap p.ports # {}, Ev("winrm", "", "windows", 45)) \cup
    When(445 \in p.ports, Ev("smb", "", "windows", 40)) \cup
    When({88, 389} \subseteq p.ports, Ev("port", "server", "windows", 60)) \cup
    When(554 \in p.ports, Ev("port", "camera", "embedded", 40)) \cup
    When(9100 \in p.ports, Ev("port", "printer", "embedded", 55)) \cup
    When(902 \in p.ports, Ev("port", "virtual_host", "", IF 443 \in p.ports THEN 88 ELSE 80))

\* The first rule that fires, as the switch statements of classify/rules.go.
FirstOf(rules) ==
    LET fired == SelectSeq(rules, LAMBDA r : r[1])
    IN IF fired = <<>> THEN {} ELSE {fired[1][2]}

SNMPSysDescr(p) == FirstOf(<<
    <<"windows" \in p.descr,   Ev("snmp", "server", "windows", 80)>>,
    <<"cisco_ios" \in p.descr, Ev("snmp", "switch", "network", 85)>>,
    <<"fortigate" \in p.descr, Ev("snmp", "firewall", "network", 88)>>,
    <<"huawei" \in p.descr,    Ev("snmp", "switch", "network", 80)>>,
    <<"aruba" \in p.descr,     Ev("snmp", "switch", "network", 78)>>,
    <<"linux" \in p.descr,     Ev("snmp", "server", "linux", 70)>> >>)

HTTPServer(p) == FirstOf(<<
    <<"cisco_ios" \in p.server, Ev("http", "switch", "network", 80)>>,
    <<"iis" \in p.server,       Ev("http", "server", "windows", 70)>>,
    <<"hikvision" \in Banner(p), Ev("http", "camera", "embedded", 45)>> >>)

\* Voice before wireless: "cisco_unified" holds "unifi".
WebVendorMarkers(p) == FirstOf(<<
    <<"vmware" \in Page(p),         Ev("http", "virtual_host", "", 55)>>,
    <<"cisco_unified" \in Page(p),  Ev("http", "pbx", "", 60)>>,
    <<"ruijie" \in Page(p),         Ev("http", "switch", "network", 55)>>,
    <<{"unifi", "aruba", "ruckus"} \cap Page(p) # {}, Ev("http", "wireless_controller", "network", 55)>> >>)

SSHBanner(p) == FirstOf(<<
    <<"ubuntu" \in p.ssh,  Ev("ssh", "server", "linux", 70)>>,
    <<"cisco" \in p.ssh,   Ev("ssh", "switch", "network", 60)>>,
    <<"openssh" \in p.ssh, Ev("ssh", "", "linux", 45)>> >>)

Evidence(p) == OpenPorts(p) \cup SNMPSysDescr(p) \cup HTTPServer(p) \cup WebVendorMarkers(p) \cup SSHBanner(p)

\* The strongest signal of a category, and 5 more for each further source that agrees;
\* a tie goes to the first category of the alphabet.
Categories == <<"camera", "endpoint", "firewall", "pbx", "printer", "server", "switch",
                "virtual_host", "wireless_controller">>
FromEvidence(evidence) ==
    LET Of(c) == {e \in evidence : e.cat = c}
        Score(c) == Min({100, Max({e.conf : e \in Of(c)}) + 5 * (Cardinality({e.source : e \in Of(c)}) - 1)})
        named == {i \in DOMAIN Categories : Of(Categories[i]) # {}}
        wins == {i \in named : \A j \in named : Score(Categories[j]) <= Score(Categories[i])}
    IN IF named = {} THEN Claim(Unknown, 0) ELSE Claim(Categories[Min(wins)], Score(Categories[Min(wins)]))

\* os_family comes from the strongest evidence that names one, ties in the order of the sources.
Sources == <<"http", "port", "rdp", "smb", "snmp", "ssh", "winrm">>
OSFamily(evidence) ==
    LET named == {e \in evidence : e.os # ""}
        best == {e \in named : \A f \in named : f.conf <= e.conf}
        first == Min({i \in DOMAIN Sources : \E e \in best : e.source = Sources[i]})
    IN IF named = {} THEN "" ELSE (CHOOSE e \in best : e.source = Sources[first]).os

-----------------------------------------------------------------------------
(* Fingerprint rules. *)

Rule(kind, pattern, type, conf, exclusions) ==
    [kind |-> kind, pattern |-> pattern, type |-> type, conf |-> conf, exclusions |-> exclusions]
OidRule(oid, type, conf) == Rule("oid", oid, type, conf, {})
WordRule(kind, word, type, conf) == Rule(kind, <<word>>, type, conf, {})

\* The built-in catalogue, for the vendors the drivers know.
Library == {
    OidRule(<<"1916", "2", "284">>, "wireless_controller", 95), OidRule(<<"1916">>, "switch", 82),
    OidRule(<<"9">>, "switch", 80), OidRule(<<"2011">>, "switch", 80), OidRule(<<"12356">>, "firewall", 85),
    OidRule(<<"14823">>, "wireless", 80), OidRule(<<"6876">>, "virtual_host", 85),
    OidRule(<<"8072">>, "server", 65), OidRule(<<"311">>, "server", 68),
    OidRule(<<"11", "2", "3", "9">>, "printer", 80),
    Rule("oid", <<"11">>, "switch", 78, {[kind |-> "oid", pattern |-> <<"11", "2", "3", "9">>],
                                         [kind |-> "service", pattern |-> <<"jetdirect">>]}),
    WordRule("service", "cisco_ios", "switch", 75), WordRule("service", "aruba", "switch", 72),
    WordRule("service", "fortigate", "firewall", 85), WordRule("service", "huawei", "switch", 58),
    WordRule("service", "extreme_networks", "switch", 58), WordRule("service", "vmware", "virtual_host", 70),
    WordRule("service", "windows", "server", 62), WordRule("service", "linux", "server", 55),
    WordRule("service", "apc", "ups", 70), WordRule("service", "hikvision", "camera", 70),
    WordRule("http", "iis", "server", 60), WordRule("http", "idrac", "server", 84),
    WordRule("ssh", "cisco", "switch", 70), WordRule("ssh", "openssh", "server", 30),
    WordRule("port", 9100, "printer", 55), WordRule("port", 554, "camera", 50) }

matchKind(kind, pattern, p) ==
    CASE kind = "oid" -> Under(p, pattern)
      [] kind = "service" -> pattern[1] \in p.descr
      [] kind = "http" -> pattern[1] \in p.server
      [] kind = "ssh" -> pattern[1] \in p.ssh
      [] kind = "port" -> pattern[1] \in p.ports

excludedBy(rule, p) == \E x \in rule.exclusions : matchKind(x.kind, x.pattern, p)
Matches(p, lib) == {r \in lib : matchKind(r.kind, r.pattern, p)}
MatchWithRejected(p, lib) == {r \in Matches(p, lib) : ~excludedBy(r, p)}   \* the winners

kindRank(kind) == CHOOSE i \in 1 .. 6 : <<"oid", "service", "sysname", "http", "ssh", "port">>[i] = kind

\* The top winner: by confidence, then by kind, then the library's own order.
TopMatch(winners) ==
    CHOOSE r \in winners : \A q \in winners :
        \/ r.conf > q.conf
        \/ r.conf = q.conf /\ kindRank(r.kind) <= kindRank(q.kind)

CanonicalCategory(type) ==
    CASE type = "wireless" -> "wireless_controller" [] type = "voip" -> "pbx" [] OTHER -> type

-----------------------------------------------------------------------------
(* Steps 5 to 5c of discovery.Run. *)

\* A login's own provisional category (WinRM: workstation, SSH: server, ONVIF: camera).
provisionalCategory(kind) ==
    CASE kind = "winrm" -> "endpoint" [] kind = "ssh" -> "server" [] kind = "onvif" -> "camera"
      [] OTHER -> Unknown

\* Without a driver's claim the evidence decides; Windows signs alone make an endpoint.
ByEvidence(p) ==
    LET best == FromEvidence(Evidence(p))
    IN IF best.cat # Unknown THEN best
       ELSE IF OSFamily(Evidence(p)) = "windows" THEN Claim("endpoint", 35) ELSE NoMatch

\* A login replaces what the drivers and the evidence said; a camera-shaped port set only fills a gap.
AfterLogin(match, authedKind, candidate) ==
    IF provisionalCategory(authedKind) # Unknown THEN Claim(provisionalCategory(authedKind), 60)
    ELSE IF match.cat \in {NoCategory, Unknown} /\ candidate = "camera" THEN Claim("camera", 40) ELSE match

applyFingerprints_SpecificOnly(match, p, lib) ==    \* mutant: only product rules may override
    LET winners == MatchWithRejected(p, lib)
        top == TopMatch(winners)
    IN IF winners # {} /\ top.conf >= 85 /\ top.conf >= match.conf
       THEN Claim(CanonicalCategory(top.type), top.conf) ELSE match
applyFingerprints(match, p, lib) ==
    LET winners == MatchWithRejected(p, lib)
        top == TopMatch(winners)
    IN IF winners # {} /\ top.conf >= match.conf
       THEN Claim(CanonicalCategory(top.type), top.conf) ELSE match

Classify(p, authedKind, candidate, lib) ==
    LET claimed == IF Best(p).conf > 0 THEN Best(p) ELSE ByEvidence(p)
    IN applyFingerprints(AfterLogin(claimed, authedKind, candidate), p, lib)
=============================================================================
