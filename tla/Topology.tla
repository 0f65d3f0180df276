------------------------------ MODULE Topology ------------------------------
(***************************************************************************)
(* The network map.  Polls leave neighbour rows (LLDP, CDP) and learned    *)
(* MAC addresses behind; a rebuild turns them into links, first the ones a *)
(* neighbour protocol proves, device by device, then the ones the MAC      *)
(* tables suggest, and prunes what was not seen for seven days.  Rebuilds  *)
(* run on a timer and on request, and may overlap.  The path finder reads  *)
(* the links at any moment.                                                *)
(***************************************************************************)
EXTENDS Naturals, Sequences, FiniteSets

CONSTANTS Switches, Firewalls, Servers,  \* the devices, by category
          Ports,                         \* interface indexes of a switch
          Fans,                          \* how many MACs a port may carry
          Rebuilders,                    \* the timer and the operators
          MaxRewire                      \* bound: changes to the network

ASSUME TopologyAssumption ==
  /\ Switches \cap Firewalls = {} /\ Switches \cap Servers = {} /\ Firewalls \cap Servers = {}
  /\ Fans \subseteq Nat /\ Ports \subseteq Nat /\ MaxRewire \in Nat

VARIABLES live,      \* rows of table devices
          neighbors, \* neighbour rows whose remote end resolves to a device
          macs,      \* <<switch, port, device>>: an interface MAC learned
          fan,       \* MACs on each switch port
          links,     \* topology_links
          rebuild,   \* the rebuild each rebuilder is in
          rewired

topoVars == <<live, neighbors, macs, fan, links, rebuild, rewired>>

Devices == Switches \cup Firewalls \cup Servers
Proven == {"lldp", "cdp"}
Week == 1               \* ages: 0 within seven days, 1 older
fdbEdgePortMaxMACs == 64
fdbFabricCats == Switches

Rest == [pc |-> "rest", todo |-> {}, chosen |-> {}, overlapped |-> FALSE]
-----------------------------------------------------------------------------
(* Storage.                                                                *)
Key(l) == <<l.at, l.port, l.to>>
Pair(l) == {l.at, l.to}

\* The foreign keys refuse a link to a device that is gone.
UpsertTopologyLink(old, l) ==
  IF Pair(l) \subseteq live THEN {x \in old : Key(x) # Key(l)} \cup {l} ELSE old

DeleteStaleTopologyLinks(old) == {l \in old : l.age < Week}
ListTopologyLinks(d) == {l \in links : l.at = d}
ListAllTopologyLinks == links
ListFabricInterfaceMACs == live \cap fdbFabricCats
ListNeighbors(d) == {n \in neighbors : n.at = d}
-----------------------------------------------------------------------------
(* rebuildTopologyOnce, step by step.                                      *)
rebuildTopology(r) ==
  /\ rebuild[r].pc = "rest"
  /\ rebuild' = [rebuild EXCEPT ![r] = [Rest EXCEPT !.pc = "build", !.todo = live]]
  /\ UNCHANGED <<live, neighbors, macs, fan, links, rewired>>

\* Neighbours that resolve to another device, by address or by name.  A device
\* seen over both protocols on one port gets one row, from either.
BuildLinks(r, d) ==
  /\ rebuild[r].pc = "build" /\ d \in rebuild[r].todo
  /\ LET seen == {n \in ListNeighbors(d) : n.to # d}
     IN \E new \in SUBSET {[at |-> d, port |-> n.port, to |-> n.to, src |-> n.src, age |-> 0] :
                             n \in seen} :
          /\ {Key(l) : l \in new} = {Key(n) : n \in seen}
          /\ \A l, m \in new : Key(l) = Key(m) => l = m
          /\ links' = {x \in links : Key(x) \notin {Key(n) : n \in seen}}
                      \cup {l \in new : Pair(l) \subseteq live}
  /\ rebuild' = [q \in Rebuilders |->
                   IF q = r THEN [rebuild[r] EXCEPT !.todo = @ \ {d}]
                   ELSE [rebuild[q] EXCEPT !.overlapped = @ \/ rebuild[q].pc = "infer"]]
  /\ UNCHANGED <<live, neighbors, macs, fan, rewired>>

\* What the MAC tables show: switch s carries device d on port p.
Observations ==
  {[at |-> m[1], port |-> m[2], to |-> m[3], src |-> "mac", age |-> 0] :
     m \in {x \in macs : {x[1], x[3]} \subseteq ListFabricInterfaceMACs /\ x[1] # x[3]}}
Fan(o) == fan[<<o.at, o.port>>]
Nearest(obs) == {o \in obs : \A p \in obs : Fan(o) <= Fan(p)}
AuthPairs == {Pair(l) : l \in {x \in ListAllTopologyLinks : x.src \in Proven}}

\* Mutant: pairs a neighbour protocol has proven are inferred too.
Attachments_Unproven(pick) == {o \in pick : Fan(o) <= fdbEdgePortMaxMACs}

\* One attachment for each device, edge-like ports only, proven pairs left out.
Attachments(pick) ==
  {o \in pick : Fan(o) <= fdbEdgePortMaxMACs /\ Pair(o) \notin AuthPairs}

\* Each device hangs off the switch whose port carries the fewest MACs; of two
\* ends that see each other the one with the smaller port is stored.  Ties are
\* broken by the order of a Go map.
InferLinksFromFDB(r) ==
  /\ rebuild[r].pc = "build" /\ rebuild[r].todo = {}
  /\ LET targets == {o.to : o \in Observations}
     IN \E pick \in SUBSET Observations :
          /\ {o.to : o \in pick} = targets /\ Cardinality(pick) = Cardinality(targets)
          /\ \A o \in pick : o \in Nearest({x \in Observations : x.to = o.to})
          /\ \E chosen \in SUBSET Attachments(pick) :
               /\ {Pair(o) : o \in chosen} = {Pair(o) : o \in Attachments(pick)}
               /\ \A o, p \in chosen : Pair(o) = Pair(p) => o = p
               /\ \A o \in chosen :
                    o \in Nearest({x \in Attachments(pick) : Pair(x) = Pair(o)})
               /\ rebuild' = [rebuild EXCEPT ![r] = [@ EXCEPT !.pc = "infer", !.chosen = chosen]]
  /\ UNCHANGED <<live, neighbors, macs, fan, links, rewired>>

UpsertInferred(r) ==
  /\ rebuild[r].pc = "infer"
  /\ \E o \in rebuild[r].chosen :
       /\ links' = UpsertTopologyLink(links, o)
       /\ rebuild' = [rebuild EXCEPT ![r].chosen = @ \ {o}]
  /\ UNCHANGED <<live, neighbors, macs, fan, rewired>>

CleanupStaleLinks(r) ==
  /\ rebuild[r].pc = "infer" /\ rebuild[r].chosen = {}
  /\ links' = DeleteStaleTopologyLinks(links)
  /\ rebuild' = [rebuild EXCEPT ![r] = Rest]
  /\ UNCHANGED <<live, neighbors, macs, fan, rewired>>
-----------------------------------------------------------------------------
(* The network and the inventory change; time passes.                      *)
Toggle(s, x) == IF x \in s THEN s \ {x} ELSE s \cup {x}
Rewiring == rewired < MaxRewire /\ rewired' = rewired + 1

NeighborChanges ==
  /\ Rewiring
  /\ \E d \in live \cap (Switches \cup Firewalls), e \in live, p \in Ports, src \in Proven :
       /\ d # e
       /\ neighbors' = Toggle(neighbors, [at |-> d, port |-> p, to |-> e, src |-> src])
  /\ UNCHANGED <<live, macs, fan, links, rebuild>>

MacsChange ==
  /\ Rewiring
  /\ \E s \in live \cap Switches, d \in live, p \in Ports :
       s # d /\ macs' = Toggle(macs, <<s, p, d>>)
  /\ UNCHANGED <<live, neighbors, fan, links, rebuild>>

\* Deleting a device takes its rows along.
DeleteDevice ==
  /\ Rewiring
  /\ \E d \in live :
       /\ live' = live \ {d}
       /\ neighbors' = {n \in neighbors : d \notin Pair(n)}
       /\ macs' = {m \in macs : d \notin {m[1], m[3]}}
       /\ links' = {l \in links : d \notin Pair(l)}
  /\ UNCHANGED <<fan, rebuild>>

DaysPass ==
  /\ \E l \in links : l.age < Week
  /\ links' = {[l EXCEPT !.age = IF @ < Week THEN @ + 1 ELSE @] : l \in links}
  /\ UNCHANGED <<live, neighbors, macs, fan, rebuild, rewired>>
-----------------------------------------------------------------------------
(* Reading the map.                                                        *)
roleForCategory(d) ==
  IF d \in Firewalls THEN [role |-> "firewall", rank |-> 0]
  ELSE IF d \in Switches THEN [role |-> "uplink", rank |-> 2]
  ELSE [role |-> "uplink", rank |-> 3]

\* Mutant: the first neighbour that was not visited, whatever it is.
nextUpstream_First(ls, visited) ==
  LET free == {l \in ls : l.to \notin visited}
  IN {l \in free : \A m \in free : l.port <= m.port}

\* The links to follow: the neighbours nearest to the edge, of these the ones
\* on the lowest port.
nextUpstream(ls, visited) ==
  LET free == {l \in ls : l.to \notin visited}
      best == {l \in free : \A m \in free : roleForCategory(l.to).rank <= roleForCategory(m.to).rank}
  IN {l \in best : \A m \in best : l.port <= m.port}

AtEdge(path) == roleForCategory(path[Len(path)].to).role = "firewall"

\* One hop further, unless the edge is reached or nothing new is linked.
Upstream(p) ==
  LET next == nextUpstream(ListTopologyLinks(p[Len(p)].to), {p[k].to : k \in DOMAIN p})
  IN IF AtEdge(p) \/ next = {} THEN p
     ELSE LET l == CHOOSE l \in next : TRUE IN Append(p, [to |-> l.to, src |-> l.src])

\* At most six hops from the access switch.
buildPath(acc) ==
  LET walk[n \in 0..6] ==
        IF n = 0 THEN <<[to |-> acc, src |-> "mac"]>> ELSE Upstream(walk[n - 1])
  IN walk[6]

\* Where a MAC was learned: fewest MACs on the port, then the port's role, then
\* the freshest.  Roles: 0 access or edge, 1 another, 2 none, 3 uplink.
Closer(a, b) ==
  \/ a.fan < b.fan
  \/ a.fan = b.fan /\ a.role < b.role
  \/ a.fan = b.fan /\ a.role = b.role /\ a.days < b.days
sortByAttachment(matches) == {a \in matches : \A b \in matches : ~Closer(b, a)}

\* What is known of the term searched for: a device row and whether it has an
\* address, what gave the MAC, the switch ports that learned it; whether it is a
\* Wi-Fi client and the ports of its AP; what the path above the switch is made
\* of.
SearchByIP(ev) == ev.inventory
FindMACByIP(ev) == ev.mac = "arp"
ResolveIPToMAC(ev) == ev.mac = "roster"
SearchByMAC(ev) == ev.ports
FindWirelessClient(ev) == ev.wifi
GetAccessPointByName(ev) == ev.apPorts
wirelessAssociation(ev) == FindWirelessClient(ev)

macToPort(ev) ==
  IF ev.mac = "given" \/ FindMACByIP(ev) \/ ResolveIPToMAC(ev) THEN SearchByMAC(ev) ELSE {}

\* A Wi-Fi client is attached where its AP is, if a switch knows the AP.
buildWirelessPath(ev) ==
  IF wirelessAssociation(ev) /\ GetAccessPointByName(ev) # {} THEN GetAccessPointByName(ev)
  ELSE macToPort(ev)

score(acc, ev) ==
  (IF acc.role = 0 THEN 2 ELSE 0) + (IF acc.days < 1 THEN 2 ELSE IF acc.days < 7 THEN 1 ELSE 0)
  + (IF ev.above = "proven" THEN 2 ELSE IF ev.wifi \/ ev.above = "mac" THEN 1 ELSE 0)
  + (IF FindMACByIP(ev) THEN 1 ELSE 0)

assessConfidence(ev, acc) ==
  IF buildWirelessPath(ev) = {} THEN IF SearchByIP(ev) THEN "low" ELSE "none"
  ELSE IF score(acc, ev) >= 5 THEN "high" ELSE IF score(acc, ev) >= 3 THEN "medium" ELSE "low"

applyWirelessConfidence(ev, conf) ==
  IF wirelessAssociation(ev) /\ buildWirelessPath(ev) = {} /\ conf = "none" THEN "low" ELSE conf

Nowhere == [fan |-> 0, role |-> 2, days |-> 7]

SearchIP(ev) ==
  {applyWirelessConfidence(ev, assessConfidence(ev, acc)) :
     acc \in IF buildWirelessPath(ev) = {} THEN {Nowhere}
             ELSE sortByAttachment(buildWirelessPath(ev))}

\* A MAC is searched as it is, and no device row is looked up.
SearchMAC(ev) == SearchIP([ev EXCEPT !.inventory = FALSE, !.mac = "given"])

\* A device found by name is searched by its address, and not rated without
\* one; a name nobody has may be a Wi-Fi client's.
NotRated == ""
SearchHostname(ev) ==
  IF ev.inventory THEN IF ev.ip THEN SearchIP(ev) ELSE {NotRated}
  ELSE IF ev.wifi THEN SearchIP([ev EXCEPT !.mac = "none"]) ELSE {}
-----------------------------------------------------------------------------
TopoInit ==
  /\ live = Devices /\ neighbors = {} /\ macs = {} /\ links = {}
  /\ fan \in [Switches \X Ports -> Fans]
  /\ rebuild = [r \in Rebuilders |-> Rest] /\ rewired = 0

TopoNext ==
  \/ \E r \in Rebuilders :
       \/ rebuildTopology(r) \/ InferLinksFromFDB(r) \/ UpsertInferred(r) \/ CleanupStaleLinks(r)
       \/ \E d \in Devices : BuildLinks(r, d)
  \/ NeighborChanges \/ MacsChange \/ DeleteDevice \/ DaysPass

TopoSpec == TopoInit /\ [][TopoNext]_topoVars
-----------------------------------------------------------------------------
\* The inference "never overrides" what LLDP or CDP proved: it replaces a
\* proven link only if another rebuild stored that link after the inference
\* had read the proven pairs.
ProvenKept ==
  [][\A l \in links, m \in links' :
       Key(l) = Key(m) /\ l.src \in Proven /\ m.src = "mac" =>
         \E r \in Rebuilders : rebuild[r].pc = "infer" /\ rebuild[r].overlapped]_topoVars

\* Path finder: over any state of the link table a path has no loop, and it
\* leaves for the edge at the first device that has a link to one.
PathTakesTheEdge ==
  \A s \in live \cap Switches :
    LET p == buildPath(s)
    IN /\ \A j, k \in DOMAIN p : p[j].to = p[k].to => j = k
       /\ \A k \in 1..(Len(p) - 1) :
            (\E l \in ListTopologyLinks(p[k].to) : l.to \in Firewalls)
              => k + 1 = Len(p) /\ AtEdge(p)

\* "None" is the answer exactly when the address was found nowhere (a located
\* Wi-Fi client is never "none"), and "high" takes three kinds of evidence out
\* of four: an access port, an entry of the last week, something above the
\* switch or an AP, an ARP entry.
EarnedFrom(ev) ==
  /\ \A c \in SearchIP(ev) :
       /\ (c = "none") = (~ev.inventory /\ ~ev.wifi /\ buildWirelessPath(ev) = {})
       /\ c = "high" =>
            \E acc \in buildWirelessPath(ev) :
              LET has == <<acc.role = 0, acc.days < 7, ev.wifi \/ ev.above # "nothing",
                           ev.mac = "arp">>
              IN Cardinality({k \in DOMAIN has : has[k]}) >= 3
  /\ "none" \in SearchMAC(ev) => ev.ports = {} /\ ~ev.wifi
  /\ "none" \notin SearchHostname(ev)

\* Evidence a search may find: one or two ports, at the limits of every test.
PortMatches == [fan : {1, 64}, role : {0, 3}, days : {0, 1, 7}]
EvidenceCases ==
            [inventory : BOOLEAN, ip : BOOLEAN, mac : {"none", "arp", "roster"}, wifi : BOOLEAN,
             above : {"nothing", "mac", "proven"},
             ports : {{}} \cup {{p, q} : p, q \in PortMatches},
             apPorts : {{}} \cup {{p} : p \in PortMatches}]

\* The rating of an answer is earned whatever SearchIP, SearchMAC or
\* SearchHostname found.
ConfidenceEarned == \A ev \in EvidenceCases : EarnedFrom(ev)

\* What a search (SearchIP, SearchMAC, SearchHostname) may answer.
SearchHonest == PathTakesTheEdge /\ ConfidenceEarned
=============================================================================
