------------------------------ MODULE Inventory ------------------------------
(***************************************************************************)
(* The device row of one IP address and everybody who writes it: the scan  *)
(* that reconciles what it found (apply.go), the operator's forms          *)
(* (devices_manual.go, virtual_devices.go, classification.go), the site    *)
(* reconciliation (data_quality_reconcile.go), and the collectors that     *)
(* classify, enrich and bind after they authenticated (cctv, vSphere, OS,  *)
(* wireless, PBX).  Each reads the row, works for a while and writes; no   *)
(* transaction spans the two.  An identity (vendor, model, serial, name)   *)
(* is known by who wrote it; the status column is module Monitoring's.     *)
(***************************************************************************)
EXTENDS Naturals, Sequences

CONSTANTS Workers,    \* requests and scan goroutines at work on the address
          MaxRow,     \* bound: rows ever created for the address
          MaxTask     \* bound: tasks started

ASSUME InventoryAssumption == MaxRow \in Nat /\ MaxTask \in Nat

None == "none"

VARIABLES device,     \* table devices: the live row of the address
          created,    \* ids given out
          task,       \* what each worker does
          started

inventoryVars == <<device, created, task, started>>

Categories == {"unknown", "server", "switch", "nvr"}
Authors    == {"operator", "scan", "collector"}
Sites      == {"s1", "s2"}
Credential == {"snmp", "web"}

\* idx_devices_unique_primary_ip: at most one live row; id 0 is no row.
NoRow == [id |-> 0, category |-> "unknown", identity |-> "scan", locked |-> FALSE,
          site |-> None, cred |-> None, cctv |-> None, virtual |-> FALSE]
Live  == device.id # 0
Idle  == [prog |-> "idle", at |-> "done", seen |-> NoRow, arg |-> None,
          result |-> "ok", deleted |-> FALSE]

IsStickyInfraCategory(c) == c = "switch"
IsCCTV(c) == c = "nvr"

At(w, prog, at) == task[w].prog = prog /\ task[w].at = at
Goes(w, at)     == task' = [task EXCEPT ![w].at = at]
Reads(w, at)    == task' = [task EXCEPT ![w].at = at, ![w].seen = device]
Holds(w, at)    == task' = [task EXCEPT ![w].at = at, ![w].seen = device']
\* Only the id is used from here on.
Names(w, at, row) == task' = [task EXCEPT ![w].at = at, ![w].seen = [NoRow EXCEPT !.id = row.id]]
\* Apply goes on to bind with the row that was written: its id and category.
Written(w) ==
  task' = [task EXCEPT ![w].at = "bind",
                       ![w].seen = [NoRow EXCEPT !.id = device'.id, !.category = device'.category]]
\* Of how a task ended only an error is remembered.
Ends(w, result) ==
  task' = [task EXCEPT ![w] = IF result # "error" THEN Idle ELSE
             [Idle EXCEPT !.prog = task[w].prog, !.result = result, !.deleted = task[w].deleted]]
Starts(w, prog, at, arg) ==
  /\ task[w].at = "done" /\ started < MaxTask
  /\ started' = started + 1
  /\ task' = [task EXCEPT ![w] = [Idle EXCEPT !.prog = prog, !.at = at, !.arg = arg]]
  /\ UNCHANGED <<device, created>>
-----------------------------------------------------------------------------
(* The statements.                                                         *)

\* INSERT; the unique index refuses it while a row is live.
CreateDevice(category, author, site) ==
  /\ ~Live /\ created < MaxRow
  /\ created' = created + 1
  /\ device' = [NoRow EXCEPT !.id = created + 1, !.category = category,
                             !.identity = author, !.site = site]

\* UPDATE ... WHERE id: no effect once the row is gone.
Writes(id, row) == device' = IF Live /\ device.id = id THEN row ELSE device

\* The site is only filled in: COALESCE(location_id, ...).
UpdateDiscoveredDevice(id, category, author, site) ==
  Writes(id, [device EXCEPT !.category = category, !.identity = author,
                            !.site = IF @ = None THEN site ELSE @])

\* Mutant: the statement without its lock condition.
UpdateDeviceClassification_Unguarded(id, category) ==
  Writes(id, [device EXCEPT !.category = category])

\* WHERE classification_locked = false.
UpdateDeviceClassification(id, category) ==
  Writes(id, [device EXCEPT !.category = IF device.locked THEN @ ELSE category])

\* COALESCE(NULLIF(new, ''), old): what was collected replaces what was there.
UpdateDeviceHardwareInfo(id) == Writes(id, [device EXCEPT !.identity = "collector"])
SetDeviceCredential(id, c)     == Writes(id, [device EXCEPT !.cred = c])
SetDeviceCCTVCredential(id, c) == Writes(id, [device EXCEPT !.cctv = c])
MarkDeviceVirtual(id)          == Writes(id, [device EXCEPT !.virtual = TRUE])
SetClassificationLock(id, b)   == Writes(id, [device EXCEPT !.locked = b])

\* Only given fields change, the others keep their value.
BulkAssignClassification(id, site) == Writes(id, [device EXCEPT !.site = site])

\* Every column of the form is written, the ones not edited as they were read.
UpdateDevice(id, category, author, locked, site) ==
  Writes(id, [device EXCEPT !.category = category, !.identity = author,
                            !.locked = locked, !.site = site])
-----------------------------------------------------------------------------
(* The scan: Applier.Apply.  arg: the category found, whether the evidence *)
(* is authoritative, the site and the credential of the scan.              *)

Found == [category : {"server", "switch"}, authoritative : BOOLEAN,
          site : {None, "s1"}, cred : {None, "snmp"}]

ApplyFind(w) ==
  /\ At(w, "apply", "find")
  /\ Reads(w, IF Live THEN "update" ELSE "create")
  /\ UNCHANGED <<device, created, started>>

\* Mutant: a lost insert race is returned as an error instead of looked up.
ApplyCreate_NoRefind(w) ==
  /\ At(w, "apply", "create")
  /\ \/ CreateDevice(task[w].arg.category, "scan", task[w].arg.site) /\ Written(w)
     \/ Live /\ Ends(w, "error") /\ UNCHANGED <<device, created>>
  /\ UNCHANGED started

ApplyCreate(w) ==
  /\ At(w, "apply", "create")
  /\ \/ CreateDevice(task[w].arg.category, "scan", task[w].arg.site) /\ Written(w)
     \/ Live /\ Goes(w, "refind") /\ UNCHANGED <<device, created>>
  /\ UNCHANGED started

ApplyRefind(w) ==
  /\ At(w, "apply", "refind")
  /\ IF Live THEN Reads(w, "update") ELSE Ends(w, "error")
  /\ UNCHANGED <<device, created, started>>

\* reconcile's update: what the row read says decides whose identity stays.
KeepsIdentity(seen, found) ==
  \/ seen.locked
  \/ /\ ~found.authoritative /\ found.category # seen.category
     /\ IsStickyInfraCategory(seen.category)

ApplyUpdate(w) ==
  LET seen == task[w].seen  found == task[w].arg IN
  /\ At(w, "apply", "update")
  /\ IF KeepsIdentity(seen, found)
       THEN UpdateDiscoveredDevice(seen.id, seen.category, seen.identity, found.site)
       ELSE UpdateDiscoveredDevice(seen.id, found.category, "scan", found.site)
  /\ IF device.id = seen.id THEN Written(w) ELSE Ends(w, "error")
  /\ UNCHANGED <<created, started>>

\* The community that answered is bound, except on a camera or recorder.
ApplyBind(w) ==
  LET row == task[w].seen  c == task[w].arg.cred IN
  /\ At(w, "apply", "bind") /\ Ends(w, "ok")
  /\ IF c = None \/ IsCCTV(row.category) THEN UNCHANGED device ELSE SetDeviceCredential(row.id, c)
  /\ UNCHANGED <<created, started>>
-----------------------------------------------------------------------------
(* The operator.                                                           *)

createManualDevice(c, s) ==
  /\ CreateDevice(c, "operator", s) /\ UNCHANGED <<task, started>>

deleteDevice ==
  /\ Live /\ device' = NoRow
  /\ task' = [w \in Workers |->
                [task[w] EXCEPT !.deleted = @ \/ (task[w].prog = "apply" /\ task[w].at # "done")]]
  /\ UNCHANGED <<created, started>>

setClassificationLock(b) ==
  /\ Live /\ device.locked # b /\ SetClassificationLock(device.id, b)
  /\ UNCHANGED <<created, task, started>>

bulkAssignDevices(s) ==
  /\ Live /\ BulkAssignClassification(device.id, s) /\ UNCHANGED <<created, task, started>>

\* updateDevice (PATCH) and updateVirtualDevice (PUT, virtual devices only).
Patch == {"category", "lock", "site", "notes", "virtual"}
EditRead(w) ==
  /\ At(w, "edit", "read")
  /\ IF Live /\ (task[w].arg = "virtual" => device.virtual)
       THEN Reads(w, "write") ELSE Ends(w, "refused")
  /\ UNCHANGED <<device, created, started>>

updateDevice(w) ==
  LET seen == task[w].seen  sets == task[w].arg IN
  /\ At(w, "edit", "write") /\ Ends(w, "ok")
  /\ UpdateDevice(seen.id,
       CASE sets = "category" -> "server" [] sets = "virtual" -> "switch" [] OTHER -> seen.category,
       IF sets \in {"category", "virtual"} THEN "operator" ELSE seen.identity,
       sets = "lock" \/ seen.locked,
       CASE sets = "site" -> "s2" [] sets = "virtual" -> None [] OTHER -> seen.site)
  /\ UNCHANGED <<created, started>>

\* createVirtualDevice: the row, its flag, then notes and criticality written
\* with the whole row as it was created.
persistVirtual(w) ==
  /\ At(w, "virtual", "create")
  /\ \/ CreateDevice("switch", "operator", None) /\ Holds(w, "flag")
     \/ Live /\ Ends(w, "conflict") /\ UNCHANGED <<device, created>>
  /\ UNCHANGED started

FlagVirtual(w) ==
  /\ At(w, "virtual", "flag") /\ Goes(w, "extras") /\ MarkDeviceVirtual(task[w].seen.id)
  /\ UNCHANGED <<created, started>>

setVirtualIdentityExtras(w) ==
  LET seen == task[w].seen IN
  /\ At(w, "virtual", "extras") /\ Ends(w, "ok")
  /\ \/ UpdateDevice(seen.id, seen.category, seen.identity, seen.locked, seen.site)
     \/ UNCHANGED device
  /\ UNCHANGED <<created, started>>

\* reclassifyDevice: probes, then enriches and classifies.
ReclassifyRead(w) ==
  /\ At(w, "reclassify", "read")
  /\ IF Live /\ ~device.locked THEN Names(w, "enrich", device) ELSE Ends(w, "unchanged")
  /\ UNCHANGED <<device, created, started>>

ReclassifyEnrich(w) ==
  /\ At(w, "reclassify", "enrich") /\ Goes(w, "classify")
  /\ UpdateDeviceHardwareInfo(task[w].seen.id) \/ UNCHANGED device
  /\ UNCHANGED <<created, started>>

reclassifyDevice(w) ==
  /\ At(w, "reclassify", "classify") /\ Ends(w, "ok")
  /\ \E c \in Categories \ {"unknown"} : UpdateDeviceClassification(task[w].seen.id, c)
  /\ UNCHANGED <<created, started>>

\* reconcileSites: devices without a site are listed, then assigned in bulk.
SitesListed(w) ==
  /\ At(w, "sites", "list")
  /\ IF Live /\ device.site = None THEN Names(w, "assign", device) ELSE Ends(w, "unmatched")
  /\ UNCHANGED <<device, created, started>>

reconcileSites(w) ==
  /\ At(w, "sites", "assign") /\ Ends(w, "ok")
  /\ BulkAssignClassification(task[w].seen.id, "s1")
  /\ UNCHANGED <<created, started>>
-----------------------------------------------------------------------------
(* The collectors, as the statements they run once a credential has        *)
(* authenticated; a failed collection writes nothing here.                 *)

runCCTVCollection      == <<"nvr", "enrich", "bind", "cctv">>
collectCCTVProfile     == <<"nvr", "enrich", "bind", "cctv">>
runVSphereCollection   == <<"enrich", "server", "bind">>
collectVSphereProfile  == <<"enrich", "server", "bind">>
runOSCollection        == <<"enrich", "bind", "server">>
collectWirelessProfile == <<"switch", "enrich", "bind">>
collectCUCMProfile     == <<"server", "bind">>
collectAlcatelProfile  == <<"server", "bind">>

DeviceCollectors  == {runCCTVCollection, runVSphereCollection, runOSCollection}
ProfileCollectors == {collectCCTVProfile, collectVSphereProfile, collectWirelessProfile,
                      collectCUCMProfile, collectAlcatelProfile}

\* Mutant: the bound credential is tried before the durable web login.
Candidate_BoundFirst(r) == IF r.cred = None THEN r.cctv ELSE r.cred

\* The credential a CCTV collection without a selection tries; a community is
\* not usable.
Candidate(r) == IF r.cctv # None THEN r.cctv ELSE r.cred

\* The device a collector works on; a profile without one makes it.
CollectFind(w) ==
  /\ At(w, "collect", "find") \/ At(w, "profile", "find")
  /\ \/ /\ task[w].prog = "collect" /\ task[w].arg = runCCTVCollection
        /\ Live /\ Candidate(device) # "web"
        /\ task' = [task EXCEPT ![w] = [Idle EXCEPT !.seen = device, !.result = "no_credential"]]
     \/ Live /\ Names(w, "run", device)
     \/ ~Live /\ IF task[w].prog = "profile" THEN Goes(w, "make") ELSE Ends(w, "refused")
  /\ UNCHANGED <<device, created, started>>

resolveProfileDevice(w) ==
  /\ At(w, "profile", "make")
  /\ \/ CreateDevice("unknown", "collector", None) /\ Names(w, "run", device')
     \/ Live /\ Ends(w, "refused") /\ UNCHANGED <<device, created>>
  /\ UNCHANGED started

\* The collector's next statement.
CollectStep(w) ==
  LET s == Head(task[w].arg)  id == task[w].seen.id IN
  /\ task[w].at = "run"
  /\ IF Len(task[w].arg) = 1 THEN Ends(w, "ok") ELSE task' = [task EXCEPT ![w].arg = Tail(@)]
  /\ \/ s = "enrich" /\ UpdateDeviceHardwareInfo(id)
     \/ s = "bind" /\ SetDeviceCredential(id, "web")
     \/ s = "cctv" /\ SetDeviceCCTVCredential(id, "web")
     \/ s \in Categories /\ UpdateDeviceClassification(id, s)
  /\ UNCHANGED <<created, started>>

\* addWirelessController: find or make, then classify what was reused.
ControllerFind(w) ==
  /\ At(w, "wlan", "find")
  /\ IF Live THEN Reads(w, "classify") ELSE Goes(w, "make")
  /\ UNCHANGED <<device, created, started>>

addWirelessController(w) ==
  /\ At(w, "wlan", "make")
  /\ \/ CreateDevice("switch", "operator", None) /\ Ends(w, "ok")
     \/ Live /\ Ends(w, "conflict") /\ UNCHANGED <<device, created>>
  /\ UNCHANGED started

ClassifyController(w) ==
  /\ At(w, "wlan", "classify") /\ Ends(w, "ok")
  /\ IF task[w].seen.category = "switch" THEN UNCHANGED device
     ELSE UpdateDeviceClassification(task[w].seen.id, "switch")
  /\ UNCHANGED <<created, started>>
-----------------------------------------------------------------------------
\* An unknown address, or a recorder the operator locked as a server, collected
\* before over its web login.
InventoryInit ==
  /\ device \in {NoRow, [NoRow EXCEPT !.id = 1, !.category = "server", !.identity = "operator",
                                      !.locked = TRUE, !.cred = "web", !.cctv = "web"]}
  /\ created = device.id
  /\ task = [w \in Workers |-> Idle] /\ started = 0

StartTask(w) ==
  \/ \E f \in Found : Starts(w, "apply", "find", f)
  \/ \E e \in Patch : Starts(w, "edit", "read", e)
  \/ \E c \in DeviceCollectors : Starts(w, "collect", "find", c)
  \/ \E c \in ProfileCollectors : Starts(w, "profile", "find", c)
  \/ Starts(w, "virtual", "create", None) \/ Starts(w, "reclassify", "read", None)
  \/ Starts(w, "sites", "list", None) \/ Starts(w, "wlan", "find", None)

TaskStep(w) ==
  \/ ApplyFind(w) \/ ApplyCreate(w) \/ ApplyRefind(w) \/ ApplyUpdate(w) \/ ApplyBind(w)
  \/ EditRead(w) \/ updateDevice(w)
  \/ persistVirtual(w) \/ FlagVirtual(w) \/ setVirtualIdentityExtras(w)
  \/ ReclassifyRead(w) \/ ReclassifyEnrich(w) \/ reclassifyDevice(w)
  \/ SitesListed(w) \/ reconcileSites(w)
  \/ CollectFind(w) \/ resolveProfileDevice(w) \/ CollectStep(w)
  \/ ControllerFind(w) \/ addWirelessController(w) \/ ClassifyController(w)

InventoryNext ==
  \/ \E w \in Workers : StartTask(w) \/ TaskStep(w)
  \/ createManualDevice("server", "s2") \/ deleteDevice
  \/ \E b \in BOOLEAN : setClassificationLock(b)
  \/ bulkAssignDevices("s2")

InventorySpec == InventoryInit /\ [][InventoryNext]_inventoryVars
-----------------------------------------------------------------------------
\* A worker's step on the row it acts on, and what it had read of it.
Steps(w, prog) == task[w].prog = prog /\ task'[w] # task[w]
SameRow == Live /\ device'.id = device.id

\* The lock holds against everything automatic: apart from the operator's own
\* forms, the category of a locked device is changed only by a scan whose read
\* of the row is out of date, by its lock or by its category (reconcile decides
\* on its snapshot, UpdateDiscoveredDevice does not look again).
LockedCategoryKept ==
  [][SameRow /\ device.locked /\ device'.category # device.category =>
       \E w \in Workers : \/ Steps(w, "edit") \/ Steps(w, "virtual")
                          \/ /\ Steps(w, "apply")
                             /\ \/ ~task[w].seen.locked
                                \/ task[w].seen.category # device.category]_inventoryVars

\* Weak evidence never downgrades managed infrastructure: a scan without
\* authoritative evidence changes a switch's category only if the row was not
\* a switch when the scan read it.
InfraNotDowngraded ==
  [][SameRow /\ IsStickyInfraCategory(device.category) =>
       \A w \in Workers :
         Steps(w, "apply") /\ device'.category # device.category
         /\ ~task[w].arg.authoritative => ~IsStickyInfraCategory(task[w].seen.category)]_inventoryVars

\* A site once set is moved only by the operator's forms, or by the site
\* reconciliation of a listing in which the device had none: no scan and no
\* collector moves a device.
SiteKept ==
  [][SameRow /\ device.site # None /\ device'.site # device.site =>
       \/ UNCHANGED task
       \/ \E w \in Workers : \/ Steps(w, "edit") \/ Steps(w, "virtual")
                             \/ Steps(w, "sites") /\ task[w].seen.site = None]_inventoryVars

\* reconcile survives every insert race: a scan of a live host fails to write
\* its device only if somebody deleted the row meanwhile.
ScanFailsOnlyOnDelete ==
  \A w \in Workers : task[w].prog = "apply" /\ task[w].result = "error" => task[w].deleted

\* The web login that collected a recorder survives the communities that scans
\* bind: a collection that finds no usable credential never had one.
CctvLoginKept ==
  \A w \in Workers : task[w].result = "no_credential" => task[w].seen.cctv # "web"

\* What a scan or a collector may never do to the category and the site that a
\* device was given (reconcile, UpdateDiscoveredDevice, the site collectors).
PlacementGuarded == LockedCategoryKept /\ InfraNotDowngraded /\ SiteKept
=============================================================================
