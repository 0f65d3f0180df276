------------------------------ MODULE Snapshots ------------------------------
(***************************************************************************)
(* The child tables of a device and what fills them: a driver's facts      *)
(* (apply.go), the operator's form for a device nobody can poll            *)
(* (virtual_devices.go) and the deep OS inventory (osinv/persist.go).  A   *)
(* poll takes the time, upserts every row it saw, then deletes the rows of *)
(* its source that are older.  Each row is a statement of its own, polls of*)
(* a device overlap, and statements fail.                                  *)
(*                                                                         *)
(* Tables share no row, so a behaviour studies one: Init picks it.  Tables *)
(* written alike have the same profile and are explored once.              *)
(***************************************************************************)
EXTENDS Naturals, FiniteSets

CONSTANTS Polls,      \* polls of the device, each run once
          Keys,       \* row keys of the table
          MaxLag,     \* bound: how far the database's clock is behind
          MaxFail     \* bound: failed statements

ASSUME SnapshotsAssumption == MaxLag \in Nat /\ MaxFail \in Nat

VARIABLES profile,   \* the table studied
          rows,      \* its rows of the device
          poll,      \* the polls
          clock,     \* the server's clock
          lag,       \* the database's clock is this much behind
          fails, deviceGone

snapshotVars == <<profile, rows, poll, clock, lag, fails, deviceGone>>
-----------------------------------------------------------------------------
(* The upsert statements: what stamps a row, and whether it can meet the     *)
(* row of an earlier poll.  A neighbour without a chassis id never does:     *)
(* NULLs are distinct in a unique key.                                       *)
Update == "update"     \* ON CONFLICT ... DO UPDATE
Nothing == "nothing"   \* ON CONFLICT DO NOTHING
Insert == "insert"     \* no row conflicts

Stamped(t) == [table |-> t, now |-> FALSE, conflicts |-> {Update}]
Clocked(t) == [table |-> t, now |-> TRUE, conflicts |-> {Update}]

UpsertInterface == Stamped("interfaces")
UpsertVlan == Stamped("vlans")
UpsertPortVlan == Stamped("port_vlans")
UpsertMAC == Stamped("mac_addresses")
UpsertARP == Stamped("arp_entries")
UpsertNeighbor == [Stamped("neighbors") EXCEPT !.conflicts = {Update, Insert}]
UpsertServerStorage == Stamped("server_storage")
UpsertVpnTunnel == Stamped("vpn_tunnels")
UpsertHAMember == Stamped("ha_members")
UpsertLicense == Stamped("licenses")
UpsertFirewallStatus == Stamped("firewall_status")
UpsertBMCInfo == Stamped("bmc_info")
UpsertBMCSensor == Stamped("bmc_sensors")
UpsertPrinterSupply == Stamped("printer_supplies")
UpsertUPSStatus == Stamped("ups_status")
UpsertPbxPhone == Stamped("pbx_phones")
UpsertOSDisk == Stamped("os_disks")
UpsertOSNic == Stamped("os_nics")
UpsertOSService == Stamped("os_services")
UpsertOSProcess == Stamped("os_processes")
UpsertOSSoftware == Stamped("os_software")
UpsertOSRole == Stamped("os_roles")
UpsertOSInventory == Clocked("os_inventory")
UpsertDeviceFact == Clocked("device_facts")
UpsertVM == Clocked("virtual_machines")
UpsertCameraInfo == Clocked("camera_info")
UpsertWLANControllerInfo == Clocked("wlan_controller_info")
UpsertAccessPoint == Clocked("access_points")
UpsertWirelessSSID == Clocked("wireless_ssids")
UpsertWirelessClient == Clocked("wireless_clients")
UpsertWirelessRadio == Clocked("wireless_radios")
InsertWirelessEvent == [Clocked("wireless_events") EXCEPT !.conflicts = {Insert}]
AddDeviceRole == [Clocked("device_roles") EXCEPT !.conflicts = {Nothing}]

Statements ==
  {UpsertInterface, UpsertVlan, UpsertPortVlan, UpsertMAC, UpsertARP, UpsertNeighbor,
   UpsertServerStorage, UpsertVpnTunnel, UpsertHAMember, UpsertLicense, UpsertFirewallStatus,
   UpsertBMCInfo, UpsertBMCSensor, UpsertPrinterSupply, UpsertUPSStatus, UpsertPbxPhone,
   UpsertOSDisk, UpsertOSNic, UpsertOSService, UpsertOSProcess, UpsertOSSoftware, UpsertOSRole,
   UpsertOSInventory, UpsertDeviceFact, UpsertVM, UpsertCameraInfo, UpsertWLANControllerInfo,
   UpsertAccessPoint, UpsertWirelessSSID, UpsertWirelessClient, UpsertWirelessRadio,
   InsertWirelessEvent, AddDeviceRole}
-----------------------------------------------------------------------------
(* The writers: which tables, under which source, and when they prune.       *)
Seen == "seen"         \* after a poll that saw a row
Always == "always"     \* after every poll
Never == "never"       \* the row is overwritten, or stays
First == "first"       \* the source's rows go first, if there are any to insert
Ahead == "ahead"       \* the source's rows go first

Feeds(src, prune, tables) ==
  [src : {src}, prune : {prune}, stops : {FALSE}, table : tables]

applyFacts ==
  Feeds("snmp", Seen, {"interfaces", "vlans", "port_vlans", "mac_addresses", "arp_entries",
                       "neighbors", "server_storage", "printer_supplies"})
  \cup Feeds("snmp", Never, {"device_facts"})
\* A driver that names no source never prunes.
Unnamed == ""
applyWLAN ==
  Feeds("api", Always, {"access_points", "wireless_ssids", "wireless_clients", "wireless_radios"})
  \cup Feeds(Unnamed, Never, {"access_points", "wireless_ssids", "wireless_clients", "wireless_radios"})
  \cup Feeds("api", Never, {"wlan_controller_info"}) \cup Feeds("api", First, {"wireless_events"})
applyOther ==
  Feeds("snmp", Never, {"ups_status", "camera_info", "virtual_machines"})
  \cup Feeds("axl", Seen, {"pbx_phones"})
ApplyRoles == Feeds("port", Never, {"device_roles"})
applyBMC == Feeds("redfish", Never, {"bmc_info"}) \cup Feeds("redfish", Seen, {"bmc_sensors"})
applyFirewall ==
  Feeds("snmp", Never, {"firewall_status"})
  \cup Feeds("snmp", Seen, {"vpn_tunnels", "ha_members", "licenses"})

writeVirtualPorts == Feeds("manual", Always, {"interfaces", "port_vlans"})
writeVirtualVlans == Feeds("manual", Always, {"vlans"})
writeVirtualNeighbors == Feeds("manual", Always, {"neighbors"})
writeVirtualMACs == Feeds("manual", Always, {"mac_addresses"})
writeVirtualFacts == Feeds("manual", Never, {"device_facts"})
writeVirtualSwitch ==
  writeVirtualPorts \cup writeVirtualVlans \cup writeVirtualNeighbors \cup writeVirtualMACs
writeVirtualFirewall ==
  Feeds("manual", Always, {"interfaces", "vpn_tunnels", "ha_members", "licenses"})
  \cup Feeds("manual", Never, {"firewall_status"}) \cup writeVirtualNeighbors
writeVirtualServer ==
  Feeds("manual", Always, {"interfaces", "server_storage"})
  \cup Feeds("manual", Ahead, {"device_roles"})
writeVirtualWorkstation ==
  Feeds("manual", Always, {"os_nics", "os_disks", "os_software", "os_roles"})
  \cup Feeds("manual", Never, {"os_inventory"}) \cup writeVirtualNeighbors
writeVirtualWireless ==
  Feeds("manual", Always, {"access_points", "wireless_ssids", "wireless_clients"})
  \cup Feeds("manual", Never, {"wlan_controller_info"})
writeVirtualUPS == Feeds("manual", Never, {"ups_status"})
writeVirtualGeneric ==
  Feeds("manual", Seen, {"interfaces", "port_vlans", "vlans", "mac_addresses"})
  \cup writeVirtualNeighbors
writeVirtualConfig ==
  writeVirtualFacts \cup writeVirtualSwitch \cup writeVirtualFirewall \cup writeVirtualServer
  \cup writeVirtualWorkstation \cup writeVirtualWireless \cup writeVirtualUPS
  \cup writeVirtualGeneric

\* The transport's family: every Windows method is one source.
baseSource(method) ==
  IF method = "ssh" THEN "ssh" ELSE IF method \in {"snmp", ""} THEN "snmp" ELSE "winrm"

\* Returns at the first error; the other writers ignore them.
Persist ==
  {[f EXCEPT !.stops = TRUE] : f \in UNION {
     Feeds(baseSource(m), Always,
           {"os_disks", "os_nics", "os_services", "os_processes", "os_software", "os_roles"})
     \cup Feeds(baseSource(m), Never, {"os_inventory"}) : m \in {"winrm", "wmi", "ssh"}}}

AllFeeds ==
  ApplyRoles \cup applyFacts \cup applyWLAN \cup applyOther \cup applyBMC \cup applyFirewall
  \cup writeVirtualConfig \cup Persist

Profiles ==
  UNION {{[now |-> s.now, conflict |-> c,
           feeds |-> {[src |-> f.src, prune |-> f.prune, stops |-> f.stops] :
                        f \in {g \in AllFeeds : g.table = s.table}}] : c \in s.conflicts} :
         s \in Statements}
-----------------------------------------------------------------------------
NoFeed == [src |-> "none", prune |-> Never, stops |-> FALSE]
Unborn == [at |-> "unborn", feed |-> NoFeed, time |-> 0, report |-> {}, todo |-> {},
           clean |-> TRUE]

Running(p) == poll[p].at \in {"clear", "upsert"}

\* The poll takes the time.  Whoever overlaps another is not clean.
Begin(p, feed, report) ==
  /\ poll[p].at = "unborn" /\ ~deviceGone
  /\ poll' = [q \in Polls |->
       IF q = p THEN [at |-> IF feed.prune \in {First, Ahead} THEN "clear" ELSE "upsert", feed |-> feed,
                      time |-> clock + 1, report |-> report, todo |-> report,
                      clean |-> ~\E r \in Polls : Running(r)]
       ELSE [poll[q] EXCEPT !.clean = @ /\ ~Running(q)]]
  /\ clock' = clock + 1
  /\ UNCHANGED <<profile, rows, lag, fails, deviceGone>>

Row(p, k) ==
  [key |-> k, src |-> poll[p].feed.src, by |-> p,
   stamp |-> IF profile.now THEN clock - lag ELSE poll[p].time]

\* With DO UPDATE the row changes hands, its source with it.
UpsertRow(p, k) ==
  /\ poll[p].at = "upsert" /\ k \in poll[p].todo /\ ~deviceGone
  /\ rows' = IF profile.conflict = Nothing /\ \E r \in rows : r.key = k THEN rows
             ELSE {r \in rows : profile.conflict = Insert \/ r.key # k} \cup {Row(p, k)}
  /\ poll' = [poll EXCEPT ![p].todo = @ \ {k}]
  /\ UNCHANGED <<profile, clock, lag, fails, deviceGone>>

UpsertFails(p, k) ==
  /\ poll[p].at = "upsert" /\ k \in poll[p].todo
  /\ IF deviceGone THEN UNCHANGED fails ELSE fails < MaxFail /\ fails' = fails + 1
  /\ poll' = [poll EXCEPT ![p].todo = @ \ {k}, ![p].clean = FALSE,
                          ![p].at = IF poll[p].feed.stops THEN "cut" ELSE @]
  /\ UNCHANGED <<profile, rows, clock, lag, deviceGone>>

\* Mutant: rows stamped with the poll's own time count as stale.
Stale_Inclusive(p, r) == r.src = poll[p].feed.src /\ r.stamp <= poll[p].time

Stale(p, r) == r.src = poll[p].feed.src /\ r.stamp < poll[p].time

Prunes(p) ==
  poll[p].feed.prune = Always \/ (poll[p].feed.prune = Seen /\ poll[p].report # {})

DeleteStale(p) ==
  /\ poll[p].at = "upsert" /\ poll[p].todo = {}
  /\ rows' = {r \in rows : ~(Prunes(p) /\ Stale(p, r))}
  /\ poll' = [poll EXCEPT ![p].at = "done"]
  /\ UNCHANGED <<profile, clock, lag, fails, deviceGone>>

\* DeleteWirelessEventsForSource, DeleteManualDeviceRoles.
DeleteForSource(p) ==
  /\ poll[p].at = "clear"
  /\ rows' = IF poll[p].feed.prune = First /\ poll[p].report = {} THEN rows
             ELSE {r \in rows : r.src # poll[p].feed.src}
  /\ poll' = [poll EXCEPT ![p].at = "upsert"]
  /\ UNCHANGED <<profile, clock, lag, fails, deviceGone>>

\* The process ends, or the request's context does.
PollCut(p) ==
  /\ Running(p) /\ fails < MaxFail /\ fails' = fails + 1
  /\ poll' = [poll EXCEPT ![p].at = "cut", ![p].clean = FALSE]
  /\ UNCHANGED <<profile, rows, clock, lag, deviceGone>>

\* ON DELETE CASCADE.
DeviceDeleted ==
  /\ ~deviceGone /\ deviceGone' = TRUE /\ rows' = {}
  /\ poll' = [p \in Polls |-> [poll[p] EXCEPT !.clean = FALSE]]
  /\ UNCHANGED <<profile, clock, lag, fails>>
-----------------------------------------------------------------------------
SnapshotInit ==
  /\ profile \in Profiles /\ lag \in 0..MaxLag
  /\ rows = {} /\ poll = [p \in Polls |-> Unborn]
  /\ clock = MaxLag /\ fails = 0 /\ deviceGone = FALSE

SnapshotNext ==
  \/ \E p \in Polls :
       \/ \E f \in profile.feeds, r \in SUBSET Keys : Begin(p, f, r)
       \/ \E k \in Keys : UpsertRow(p, k) \/ UpsertFails(p, k)
       \/ DeleteStale(p) \/ DeleteForSource(p) \/ PollCut(p)
  \/ DeviceDeleted

SnapshotSpec == SnapshotInit /\ [][SnapshotNext]_snapshotVars
-----------------------------------------------------------------------------
KeysOf(rs) == {r.key : r \in rs}

\* The database stamps the rows and its clock is behind the server's.
LateStamps == profile.now /\ lag > 0

\* A prune deletes no row that its own poll wrote, unless the database stamps
\* with a late clock.  A key the poll saw disappears only when its own upsert
\* failed or an overlapping poll with an earlier time stamped the row back; in
\* the deep inventory, where a failed upsert ends the poll, only by the latter.
SeenRowsSurvivePrune ==
  [][\A p \in Polls : poll[p].at = "upsert" /\ poll'[p].at = "done" /\ ~LateStamps =>
       \A r \in rows \ rows' :
         /\ r.by # p
         /\ r.key \in poll[p].report \ KeysOf(rows') /\ poll[p].feed.stops =>
              poll[r.by].time < poll[p].time]_snapshotVars

\* The snapshot is exact: after a poll that ran alone and without a failure its
\* source owns one row for each key it saw (save a role another source has set)
\* and, where the writer prunes, no other.
CompletePollIsExact ==
  [][\A p \in Polls : poll[p].at = "upsert" /\ poll'[p].at = "done" /\ poll[p].clean
                      /\ ~LateStamps =>
       LET own == {r \in rows' : r.src = poll[p].feed.src}
           replaces == poll[p].feed.prune \in {Always, Ahead} \/ poll[p].report # {} IN
       /\ poll[p].report \subseteq KeysOf(rows')
       /\ replaces /\ poll[p].feed.prune # Never =>
            /\ KeysOf(own) \subseteq poll[p].report
            /\ profile.conflict # Nothing => poll[p].report \subseteq KeysOf(own)
            /\ Cardinality(own) = Cardinality(KeysOf(own))
      ]_snapshotVars

\* What the snapshot tables promise of a poll that writes and prunes them.
SnapshotsFaithful == SeenRowsSurvivePrune /\ CompletePollIsExact
=============================================================================
