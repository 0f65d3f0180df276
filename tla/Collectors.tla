----------------------------- MODULE Collectors -----------------------------
(***************************************************************************)
(* How a roster (interfaces, neighbours, phones, access points, ...) gets  *)
(* from a device into the database: a collector asks the device section by *)
(* section, over SNMP, HTTP, SSH or WinRM, then the result is stored and   *)
(* what was not in it is pruned.  Sections fail one by one, walks break    *)
(* off, and the device changes between the questions.                      *)
(*                                                                         *)
(* A behaviour follows one roster of one collector (Init picks them).      *)
(* Storing is one step here; how polls interleave row by row is module     *)
(* Snapshots'.  What a row says is left out: a row is known by its key.    *)
(***************************************************************************)
EXTENDS Naturals, Sequences

CONSTANTS Entries,    \* what the roster may contain
          MaxChange   \* bound: entries that come or go

ASSUME CollectorsAssumption == MaxChange \in Nat

VARIABLES collector,  \* the collector
          roster,     \* the section studied
          shownBy,    \* which of its questions shows an entry
          present,    \* entries on the device
          stored,     \* entries in the database
          pass,       \* the collection that runs
          changes

collectVars == <<collector, roster, shownBy, present, stored, pass, changes>>
-----------------------------------------------------------------------------
(* Questions.  Most errors are dropped (`_ = c.BulkWalk(...)`, "if err ==  *)
(* nil"); a walk delivers its rows one by one and may end in the middle.   *)
Walk(s) == <<[sec |-> s, must |-> FALSE, cuts |-> TRUE]>>
Ask(s)  == <<[sec |-> s, must |-> FALSE, cuts |-> FALSE]>>
Need(s) == <<[sec |-> s, must |-> TRUE,  cuts |-> FALSE]>>

CollectSysInfo     == Ask("system")
CollectInterfaces  == Walk("interfaces")
CollectVLANs       == Walk("vlans")
CollectBasePortMap == Walk("ports")
CollectPortVLANs   == CollectBasePortMap \o Walk("port_vlans")
CollectFDB         == CollectBasePortMap \o Walk("macs") \o Walk("macs")
CollectARP         == Walk("arp")
CollectLLDP        == Walk("neighbors")
CollectCDP         == Walk("neighbors")
CollectHostResources == Ask("system") \o Walk("cpu") \o Walk("storage")
CollectSupplies    == Walk("supplies")
walkHAMembers      == Walk("ha_members")
walkVPN            == Walk("vpn_tunnels")
walkLicenses       == Walk("licenses")

SwitchTables == CollectSysInfo \o CollectInterfaces \o CollectVLANs \o CollectPortVLANs
                \o CollectFDB \o CollectARP

cisco      == SwitchTables \o CollectCDP \o CollectLLDP
aruba      == SwitchTables \o CollectLLDP
extremesw  == SwitchTables \o CollectLLDP
huawei     == SwitchTables \o CollectLLDP
hostsnmp   == CollectSysInfo \o CollectHostResources \o CollectInterfaces
esxi       == CollectSysInfo \o CollectHostResources \o CollectInterfaces
fortigate  == Need("system") \o walkHAMembers \o walkVPN \o walkLicenses
              \o CollectInterfaces \o CollectARP
printer    == CollectSysInfo \o Walk("model") \o Walk("serial") \o CollectSupplies
              \o Walk("pages")
ups        == Ask("battery") \o Walk("load")

\* Redfish: the root must answer.  Thermal and power both yield sensors.
collectThermal == Ask("sensors")
collectPower   == Ask("sensors")
collectStorage == Ask("sensors")
redfish == Need("root") \o Ask("system") \o collectStorage \o collectThermal \o collectPower
           \o Ask("manager")

vsphere == Ask("hosts") \o Need("vms") \o Need("storage")
CollectVMs == Need("vms")
hyperv  == CollectVMs
onvif   == Need("camera") \o Ask("profiles")

\* Cloud and on-site controllers: log in, list the access points.
unifiListAPs   == Need("login") \o Need("aps")
omadaListAPs   == Need("login") \o Need("aps")
ruckusListAPs  == Need("login") \o Need("aps")
extremeListAPs == Need("login") \o Need("aps")
unifi   == unifiListAPs
omada   == omadaListAPs
ruckus  == ruckusListAPs
extreme == extremeListAPs

\* The typed method, or the SQL query on releases without it.
listPhonesViaSQL == Need("phones")
ListPhones == listPhonesViaSQL
RegisteredPhoneStatus == Ask("registration")
\* Pages of a terminal grid, up to 40: some may never be shown.
ListSubscribers == Need("session") \o Walk("phones")

\* Extreme XCC and Ruckus ZoneDirector: each roster is a request of its own,
\* tried under several paths.
tryAuth     == Need("login")
fetch(kind) == Ask(kind)
fetchEvents == Ask("events")
extremexcc  == tryAuth \o fetch("aps") \o fetch("ssids") \o fetch("clients") \o fetchEvents
zdLogin     == Need("login")
ruckuszd    == zdLogin \o Need("aps") \o Ask("clients") \o Ask("ssids") \o Ask("system")

\* The controller's CLI: one SSH command each, which it may not know or whose
\* output may not parse.
parseCLIAPRows         == Ask("aps")
parseCLIClientRows     == Ask("clients")
parseWLANRows          == Ask("ssids")
parseSSIDNames         == Ask("ssids")
parseActiveAPSerials   == Ask("active_aps")
parseControllerSummary == Ask("summary")
persistCLIIdentity     == Ask("identity")
persistCLIEvents       == Ask("events")
resolveSSHCred         == Need("login")
xccCLICommands == resolveSSHCred \o parseCLIAPRows \o parseCLIClientRows \o parseWLANRows
                  \o parseActiveAPSerials \o parseSSIDNames \o parseControllerSummary
                  \o persistCLIIdentity \o persistCLIEvents

\* ISAPI: a recorder's channels, proxied and local, their state, its disks.
CollectDeviceInfo          == Need("device_info")
parseNetworkInterfaces     == Ask("network")
parseTimeZone              == Ask("time")
parseNTPServer             == Ask("ntp")
parseInputProxyChannels    == Ask("channels")
parseVideoInputChannels    == Ask("channels")
parseInputProxyStatus      == Ask("status")
collectVideoInputStatus    == Ask("input_status") \o Ask("input_status")
parseStreamingChannelNames == Ask("names")
parseRecordTracks          == Ask("tracks")
parseHDDs                  == Ask("disks")
summarizeWorkingStatus     == Ask("health")
isapi == CollectDeviceInfo \o parseNetworkInterfaces \o parseTimeZone \o parseNTPServer
         \o parseInputProxyChannels \o parseVideoInputChannels \o parseInputProxyStatus
         \o collectVideoInputStatus \o parseStreamingChannelNames \o parseRecordTracks
         \o parseHDDs \o summarizeWorkingStatus

\* The deep OS inventory: one snippet for each section over WinRM, one script
\* whose sections print nothing when their tool is missing over SSH, one
\* document over native remoting or WMI.
CollectWindows == Need("summary") \o Ask("disks") \o Ask("nics") \o Ask("services")
                  \o Ask("processes") \o Ask("software") \o Ask("events")
parseDF       == Ask("disks")
parseNics     == Ask("nics")
parseSystemd  == Ask("services")
parsePS       == Ask("processes")
parsePackages == Ask("software")
ParseLinux    == parseDF \o parseNics \o parseSystemd \o parsePS \o parsePackages
CollectLinux  == Need("script") \o ParseLinux
collectWinRMNative == Need("document") \o Ask("processes") \o Ask("software")
collectWMI         == Need("document") \o Ask("processes") \o Ask("software")
-----------------------------------------------------------------------------
(* Who stores what was collected, and when it prunes.                      *)
IfSeen == "seen"     \* if the roster itself has an entry
Exposed == "any"     \* if any roster has an entry
EachTime == "always"
NotAtAll == "never"

Keeps(steps, prune, rosters) == [steps |-> steps, prune |-> prune, rosters |-> rosters]

SNMPRosters == {"interfaces", "vlans", "port_vlans", "macs", "arp", "neighbors", "storage",
                "ha_members", "vpn_tunnels", "licenses", "supplies"}
Applied(steps) == Keeps(steps, IfSeen, SNMPRosters)

Redfish == Keeps(redfish, IfSeen, {"sensors"})
CUCM    == Keeps(ListPhones, IfSeen, {"phones"})
VSphere == Keeps(vsphere, IfSeen, {"storage"})
\* Virtual machines are never pruned; access points without a source neither.
HyperV  == Keeps(hyperv, NotAtAll, {"vms"})
ONVIF   == Keeps(onvif, NotAtAll, {"camera"})
UniFi   == Keeps(unifi, NotAtAll, {"aps"})
Omada   == Keeps(omada, NotAtAll, {"aps"})
Ruckus  == Keeps(ruckus, NotAtAll, {"aps"})
Extreme == Keeps(extreme, NotAtAll, {"aps"})
VSphereProfile  == Keeps(vsphere, NotAtAll, {"vms"})
WirelessProfile == Keeps(Need("login") \o Need("aps"), NotAtAll, {"aps"})
CUCMProfile     == Keeps(ListPhones \o RegisteredPhoneStatus, NotAtAll, {"phones"})
AlcatelProfile  == Keeps(ListSubscribers, NotAtAll, {"phones"})
persistNVR             == Keeps(isapi, NotAtAll, {"channels", "disks"})

WirelessRosters == {"aps", "ssids", "clients"}
collectXCCProfile      == Keeps(extremexcc, EachTime, WirelessRosters)
collectRuckusZDProfile == Keeps(ruckuszd, EachTime, WirelessRosters)
collectSSHCLI          == Keeps(xccCLICommands, Exposed, WirelessRosters)

OSRosters == {"disks", "nics", "services", "processes", "software"}
PersistOS(steps) == Keeps(steps, EachTime, OSRosters)

Controller == {Redfish, CUCM, VSphere, HyperV, ONVIF, UniFi, Omada, Ruckus, Extreme}

AllCollectors ==
  {Applied(s) : s \in {cisco, aruba, extremesw, huawei, hostsnmp, esxi, fortigate, printer, ups}}
  \cup Controller
  \cup {VSphereProfile, WirelessProfile, CUCMProfile,
        AlcatelProfile, persistNVR,
        collectXCCProfile, collectRuckusZDProfile, collectSSHCLI}
  \cup {PersistOS(s) : s \in {CollectWindows, CollectLinux, collectWinRMNative, collectWMI}}

Sections(c) == {c.steps[k].sec : k \in 1..Len(c.steps)}
ShowingSteps(c, s) == {k \in 1..Len(c.steps) : c.steps[k].sec = s}
-----------------------------------------------------------------------------
\* got: entries received; had: entries that were there to be received; failed,
\* cut: what happened to the roster's questions; others: another roster of the
\* collector has an entry.
NoPass == [k |-> 0, got |-> {}, had |-> {}, failed |-> FALSE, cut |-> FALSE, others |-> FALSE]

Step == collector.steps[pass.k]
Shows == {e \in present : shownBy[e] = pass.k}

BeginPass ==
  /\ pass.k = 0 /\ pass' = [NoPass EXCEPT !.k = 1]
  /\ UNCHANGED <<collector, roster, shownBy, present, stored, changes>>

Asking == pass.k \in 1..Len(collector.steps)

Answered ==
  /\ Asking
  /\ \/ /\ Step.sec = roster
        /\ pass' = [pass EXCEPT !.k = @ + 1, !.got = @ \cup Shows, !.had = @ \cup Shows]
     \/ /\ Step.sec # roster
        /\ \E b \in {FALSE, Step.sec \in collector.rosters} :
             pass' = [pass EXCEPT !.k = @ + 1, !.others = @ \/ b]
  /\ UNCHANGED <<collector, roster, shownBy, present, stored, changes>>

\* A required section ends the collection: nothing is stored, the next
\* credential or the next poll begins again.
Refused ==
  /\ Asking
  /\ pass' = IF Step.must THEN NoPass
             ELSE IF Step.sec = roster
             THEN [pass EXCEPT !.k = @ + 1, !.had = @ \cup Shows, !.failed = TRUE]
             ELSE [pass EXCEPT !.k = @ + 1]
  /\ UNCHANGED <<collector, roster, shownBy, present, stored, changes>>

BrokenOff ==
  /\ Asking /\ Step.cuts /\ Step.sec = roster
  /\ \E part \in SUBSET Shows :
       /\ part # Shows
       /\ pass' = [pass EXCEPT !.k = @ + 1, !.got = @ \cup part, !.had = @ \cup Shows,
                               !.cut = TRUE]
  /\ UNCHANGED <<collector, roster, shownBy, present, stored, changes>>

PruneAfter(prune, got, others) ==
  \/ prune = EachTime
  \/ prune = IfSeen /\ got # {}
  \/ prune = Exposed /\ (got # {} \/ others)

\* Mutant: upserts only.
Merge_NoPrune(prune, got, others, old) == old \cup got

Merge(prune, got, others, old) ==
  IF PruneAfter(prune, got, others) THEN got ELSE old \cup got

Store ==
  /\ pass.k = Len(collector.steps) + 1
  /\ stored' = Merge(collector.prune, pass.got, pass.others, stored)
  /\ pass' = NoPass
  /\ UNCHANGED <<collector, roster, shownBy, present, changes>>

Change ==
  /\ changes < MaxChange /\ changes' = changes + 1
  /\ \E e \in Entries : present' = IF e \in present THEN present \ {e} ELSE present \cup {e}
  /\ UNCHANGED <<collector, roster, shownBy, stored, pass>>
-----------------------------------------------------------------------------
CollectInit ==
  /\ collector \in AllCollectors
  /\ roster \in collector.rosters \cap Sections(collector)
  /\ shownBy \in [Entries -> ShowingSteps(collector, roster)]
  /\ present \in SUBSET Entries /\ stored = {} /\ pass = NoPass /\ changes = 0

CollectNext == BeginPass \/ Answered \/ Refused \/ BrokenOff \/ Store \/ Change

CollectSpec == CollectInit /\ [][CollectNext]_collectVars
-----------------------------------------------------------------------------
\* An entry the device still had when it was asked leaves the database only if
\* a question failed or a walk broke off, and then only if the roster came
\* back with something in it, or its writer prunes without looking at it (the
\* wireless controllers and the deep inventory).  In particular a switch that
\* answers nothing at all keeps everything it had.
LossExplained ==
  [][stored' # stored => \A e \in pass.had : e \in stored \ stored' =>
       /\ pass.cut \/ pass.failed
       /\ pass.got # {} \/ collector.prune \in {EachTime, Exposed}]_collectVars

\* The database forgets what the device forgot: after a pass without a failure
\* it holds what the device showed and nothing else, except that a roster that
\* became empty keeps its last entries (a switch that lost its last neighbour,
\* a controller over SSH without any roster) and that some are never pruned.
LeaversForgotten ==
  [][Store /\ ~pass.failed /\ ~pass.cut =>
       \/ stored' = pass.had
       \/ collector.prune = NotAtAll /\ pass.had \subseteq stored'
       \/ /\ collector.prune \in {IfSeen, Exposed}
          /\ pass.had = {} /\ stored' = stored]_collectVars

\* The stored roster follows the device: it loses nothing without a reason, and
\* keeps nothing without one (swsnmp, apply.go, the controllers, persist.go).
RosterTracksDevice == LossExplained /\ LeaversForgotten
=============================================================================
