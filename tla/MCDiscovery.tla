---------------------------- MODULE MCDiscovery ----------------------------
(***************************************************************************)
(* Discovery as TLC runs it: one host in the pipeline, the link table and  *)
(* its rebuilds, the fingerprint catalogue, and the MIB packs of wireless  *)
(* controllers.  A behaviour moves one of the four, its focus, and leaves  *)
(* the others where they start.                                            *)
(***************************************************************************)
EXTENDS Pipeline, Topology, Catalog, MibPacks, TLC

VARIABLE focus

Probe(oid, descr, page, ssh, ports) ==
  [oid |-> oid, descr |-> descr, server |-> page, title |-> {}, body |-> {}, ssh |-> ssh, ports |-> ports]
Host(probe, accepts, versions, public) ==
  [probe |-> probe, accepts |-> accepts, versions |-> versions, public |-> public, open |-> FALSE,
   legacy |-> FALSE]

\* A switch with and without SNMP credentials, a Linux server that still has
\* a default community, a camera and a recorder, Windows hosts with a working
\* and with an old WinRM, a web server without a login, a printer.
MCHosts == {
  Host(Probe(<<"9", "1">>, {"cisco_ios"}, {}, {"cisco"}, {22}), {1, 2}, {"v1"}, FALSE),
  Host(Probe(<<"2011", "2">>, {"huawei"}, {}, {}, {22, 80}), {2}, {"v2c"}, TRUE),
  Host(Probe(<<"8072">>, {"linux"}, {}, {"ubuntu"}, {22, 443}), {2}, {"v2c"}, TRUE),
  Host(Probe(<<>>, {}, {"hikvision"}, {}, {8015}), {3}, {}, FALSE),
  Host(Probe(<<>>, {}, {}, {}, {80, 554}), {}, {}, FALSE),
  Host(Probe(<<>>, {}, {}, {}, {445, 5985, 80}), {3, 4}, {}, FALSE),
  [Host(Probe(<<>>, {}, {"iis"}, {}, {3389, 5985}), {4}, {}, FALSE) EXCEPT !.legacy = TRUE],
  [Host(Probe(<<>>, {}, {}, {}, {80}), {}, {}, FALSE) EXCEPT !.open = TRUE],
  Host(Probe(<<"11", "2", "3", "9">>, {"jetdirect"}, {}, {}, {9100}), {1}, {"v1"}, FALSE) }
MCKind == [c \in 1 .. 4 |-> <<"snmp_v2c", "ssh", "http_basic", "winrm">>[c]]

\* One state is enough of a component that is not the focus.
Resting ==
  /\ focus # "pipeline" => host = (CHOOSE h \in Hosts : TRUE) /\ assigned = {} /\ onboarded = Nobody
  /\ focus # "topology" => fan = [x \in Switches \X Ports |-> CHOOSE n \in Fans : TRUE]
  /\ focus # "catalog"  => Stored = {}
  /\ focus # "mib"      => vendor = "extreme" /\ known = {}

DiscoveryInit ==
  /\ focus \in {"pipeline", "topology", "catalog", "mib"}
  /\ PipeInit /\ TopoInit /\ CatInit /\ MibInit
  /\ Resting

DiscoveryNext ==
  /\ UNCHANGED focus
  /\ \/ focus = "pipeline" /\ PipeNext /\ UNCHANGED <<topoVars, catVars, mibVars>>
     \/ focus = "topology" /\ TopoNext /\ UNCHANGED <<pipeVars, catVars, mibVars>>
     \/ focus = "catalog" /\ CatNext /\ UNCHANGED <<pipeVars, topoVars, mibVars>>
     \/ focus = "mib" /\ MibNext /\ UNCHANGED <<pipeVars, topoVars, catVars>>

DiscoverySpec == DiscoveryInit /\ [][DiscoveryNext]_<<focus, pipeVars, topoVars, catVars, mibVars>>

\* Rebuilders are given the two walkers.
Symmetry == Permutations(Walkers)
=============================================================================
