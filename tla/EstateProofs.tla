---------------------------- MODULE EstateProofs ----------------------------
(***************************************************************************)
(* What is proved of the row of a device, of its writers, of its child     *)
(* tables and of the state of its management, for any number of requests,  *)
(* scans and polls at work on an address, of rows, keys and tasks: where a *)
(* device is placed and what it is classed as is guarded, a scan loses its *)
(* device only to a deletion, a recorder's login stays, the Windows ladder *)
(* misses no rung that works, the status shown is one the evidence         *)
(* supports, a stored roster follows its device, and a prune deletes what  *)
(* is out of date and nothing else.                                        *)
(***************************************************************************)
EXTENDS Inventory, Snapshots, Collectors, Management, FiniteSetTheorems,
        WellFoundedInduction, TLAPS

(* ---- the row and its writers: the inductive invariant ----------------- *)
\* A record with the columns of devices, and one with the fields of a task;
\* what the columns hold plays no part, but for the id.
IsRow(r)  == r = [x \in {"id", "category", "identity", "locked", "site", "cred", "cctv",
                         "virtual"} |-> r[x]]
IsTask(t) == t = [x \in {"prog", "at", "seen", "arg", "result", "deleted"} |-> t[x]]

RowsInv ==
  /\ IsRow(device) /\ device.id \in Nat /\ created \in Nat
  /\ task = [w \in Workers |-> task[w]] /\ \A w \in Workers : IsTask(task[w])

\* What task t may rely on while the row of the address is d.  Only a finished
\* task has a result; a scan that read a row, or lost an insert to one, finds it
\* again unless it was deleted; the site reconciliation listed a row without a
\* site; only collectors run their list of statements; and the two properties
\* themselves.
Sound(t, d) ==
  /\ t.at # "done" => t.result = "ok"
  /\ t.prog = "apply" /\ t.at = "update" => t.seen.id # 0 /\ (d.id = t.seen.id \/ t.deleted)
  /\ t.prog = "apply" /\ t.at = "refind" => d.id # 0 \/ t.deleted
  /\ t.prog = "sites" /\ t.at = "assign" => t.seen.site = None
  /\ t.at = "run" => t.prog \in {"collect", "profile"}
  /\ t.prog = "apply" /\ t.result = "error" => t.deleted
  /\ t.result = "no_credential" => t.seen.cctv # "web"

WritersInv == RowsInv /\ \A w \in Workers : Sound(task[w], device)

\* An insert gives the address a row when it has none; every other statement
\* that a task runs leaves the id alone.
Same == device.id = 0 \/ device'.id = device.id
LEMMA SoundKept ==
  ASSUME NEW t, Sound(t, device), Same
  PROVE  Sound(t, device')
  BY DEF Sound, Same

\* One worker goes on, to a task that is sound.
LEMMA WorkerStep ==
  ASSUME WritersInv, NEW w \in Workers, NEW t, IsTask(t), Sound(t, device'),
         task' = [task EXCEPT ![w] = t],
         IsRow(device'), device'.id \in Nat, created' \in Nat, Same
  PROVE  WritersInv'
<1>1. /\ task' = [v \in Workers |-> task'[v]]
      /\ \A v \in Workers : task'[v] = IF v = w THEN t ELSE task[v]
  BY DEF WritersInv, RowsInv
<1>2. RowsInv'
  BY <1>1 DEF WritersInv, RowsInv
<1>3. \A v \in Workers : Sound(task'[v], device')
  BY <1>1, SoundKept DEF WritersInv
<1> QED
  BY <1>2, <1>3 DEF WritersInv

\* The statements that update a row keep its columns and its id.
LEMMA StatementKeepsRow ==
  ASSUME IsRow(device), device.id \in Nat, created \in Nat,
         NEW id, NEW category, NEW author, NEW locked, NEW site, NEW c,
         \/ UpdateDiscoveredDevice(id, category, author, site)
         \/ UpdateDeviceClassification(id, category)
         \/ UpdateDeviceHardwareInfo(id)
         \/ SetDeviceCredential(id, c) \/ SetDeviceCCTVCredential(id, c)
         \/ MarkDeviceVirtual(id) \/ SetClassificationLock(id, locked)
         \/ BulkAssignClassification(id, site)
         \/ UpdateDevice(id, category, author, locked, site)
         \/ UNCHANGED device
  PROVE  IsRow(device') /\ device'.id = device.id /\ device'.id \in Nat /\ Same
<1>1. IsRow(device') /\ device'.id = device.id
  <2>1. CASE UpdateDiscoveredDevice(id, category, author, site)
    BY <2>1 DEF UpdateDiscoveredDevice, Writes, IsRow
  <2>2. CASE UpdateDeviceClassification(id, category)
    BY <2>2 DEF UpdateDeviceClassification, Writes, IsRow
  <2>3. CASE \/ UpdateDeviceHardwareInfo(id) \/ SetDeviceCredential(id, c)
             \/ SetDeviceCCTVCredential(id, c)
    BY <2>3 DEF UpdateDeviceHardwareInfo, SetDeviceCredential, SetDeviceCCTVCredential, Writes, IsRow
  <2>4. CASE \/ MarkDeviceVirtual(id) \/ SetClassificationLock(id, locked)
             \/ BulkAssignClassification(id, site)
    BY <2>4 DEF MarkDeviceVirtual, SetClassificationLock, BulkAssignClassification, Writes, IsRow
  <2>5. CASE UpdateDevice(id, category, author, locked, site)
    BY <2>5 DEF UpdateDevice, Writes, IsRow
  <2>6. CASE UNCHANGED device
    BY <2>6 DEF IsRow
  <2> QED
    BY <2>1, <2>2, <2>3, <2>4, <2>5, <2>6
<1> QED
  BY <1>1 DEF Same

\* The insert's row is new.
LEMMA InsertRow ==
  ASSUME created \in Nat, NEW category, NEW author, NEW site, CreateDevice(category, author, site)
  PROVE  /\ IsRow(device') /\ device'.id = created + 1 /\ device'.id \in Nat \ {0}
         /\ device.id = 0 /\ created' \in Nat /\ Same
<1>1. IsRow(NoRow)
  BY DEF IsRow, NoRow
<1>2. IsRow(device') /\ device'.id = created + 1
  BY <1>1 DEF CreateDevice, IsRow
<1> QED
  BY <1>2 DEF CreateDevice, Live, Same

\* How a task moves on: to place at, with s in hand.
Moves(w, at, s) == task' = [task EXCEPT ![w] = [task[w] EXCEPT !.at = at, !.seen = s]]
LEMMA TaskMoves ==
  ASSUME RowsInv, NEW w \in Workers, NEW at, NEW row
  PROVE  /\ Goes(w, at) => Moves(w, at, task[w].seen)
         /\ Reads(w, at) => Moves(w, at, device)
         /\ Holds(w, at) => Moves(w, at, device')
         /\ Names(w, at, row) => Moves(w, at, [NoRow EXCEPT !.id = row.id])
         /\ Written(w) => Moves(w, "bind", [NoRow EXCEPT !.id = device'.id,
                                                         !.category = device'.category])
<1>1. IsTask(task[w]) /\ task = [v \in Workers |-> task[v]]
  BY DEF RowsInv
<1>2. Goes(w, at) => Moves(w, at, task[w].seen)
  BY <1>1 DEF Goes, Moves, IsTask
<1>3. Reads(w, at) => Moves(w, at, device)
  BY <1>1 DEF Reads, Moves, IsTask
<1>4. Holds(w, at) => Moves(w, at, device')
  BY <1>1 DEF Holds, Moves, IsTask
<1>5. Names(w, at, row) => Moves(w, at, [NoRow EXCEPT !.id = row.id])
  <2> HIDE DEF NoRow
  <2> QED
    BY <1>1 DEF Names, Moves, IsTask
<1>6. Written(w) => Moves(w, "bind", [NoRow EXCEPT !.id = device'.id,
                                                   !.category = device'.category])
  BY <1>1 DEF Written, Moves, IsTask
<1> QED
  BY <1>2, <1>3, <1>4, <1>5, <1>6

\* A task that goes on, with a sound place to go to.
LEMMA MoveStep ==
  ASSUME WritersInv, NEW w \in Workers, NEW at, NEW s, Moves(w, at, s),
         task[w].at # "done",
         task[w].prog = "apply" /\ at = "update" => s.id # 0 /\ device'.id = s.id,
         task[w].prog = "apply" /\ at = "refind" => device'.id # 0,
         task[w].prog = "sites" /\ at = "assign" => s.site = None,
         at = "run" => task[w].prog \in {"collect", "profile"},
         IsRow(device'), device'.id \in Nat, created' \in Nat, Same
  PROVE  WritersInv'
<1> DEFINE t == [task[w] EXCEPT !.at = at, !.seen = s]
<1>0. IsTask(task[w])
  BY DEF WritersInv, RowsInv
<1>1. /\ IsTask(t) /\ t.prog = task[w].prog /\ t.at = at /\ t.seen = s
      /\ t.result = task[w].result
  BY <1>0 DEF IsTask
<1>2. task[w].result = "ok"
  BY DEF WritersInv, Sound
<1>4. task' = [task EXCEPT ![w] = t]
  BY DEF Moves
<1> HIDE DEF t
<1>3. Sound(t, device')
  BY <1>1, <1>2 DEF Sound
<1> QED
  BY <1>1, <1>3, <1>4, WorkerStep

\* A task that ends.  An error of a scan needs a deletion.
LEMMA EndStep ==
  ASSUME WritersInv, NEW w \in Workers, NEW r, Ends(w, r), r # "no_credential",
         r = "error" /\ task[w].prog = "apply" => task[w].deleted,
         IsRow(device'), device'.id \in Nat, created' \in Nat, Same
  PROVE  WritersInv'
<1> DEFINE e == [Idle EXCEPT !.prog = task[w].prog, !.result = r, !.deleted = task[w].deleted]
<1>1. IsTask(Idle) /\ Idle.at = "done" /\ Idle.result = "ok"
  BY DEF IsTask, Idle
<1>2. /\ IsTask(e) /\ e.prog = task[w].prog /\ e.at = "done" /\ e.result = r
      /\ e.deleted = task[w].deleted
  BY DEF IsTask, Idle
<1>3. task' = [task EXCEPT ![w] = IF r # "error" THEN Idle ELSE e]
  BY DEF Ends
<1> HIDE DEF e
<1>4. Sound(Idle, device') /\ (r = "error" => Sound(e, device'))
  BY <1>1, <1>2 DEF Sound
<1> QED
  BY <1>1, <1>2, <1>3, <1>4, WorkerStep

\* The places of a scan.
LEMMA ApplyStep ==
  ASSUME WritersInv, NEW w \in Workers,
         \/ ApplyFind(w) \/ ApplyCreate(w) \/ ApplyRefind(w) \/ ApplyUpdate(w) \/ ApplyBind(w)
  PROVE  WritersInv'
<1>1. RowsInv /\ IsRow(device) /\ device.id \in Nat /\ created \in Nat
  BY DEF WritersInv, RowsInv
<1>2. ASSUME UNCHANGED device PROVE IsRow(device') /\ device'.id \in Nat /\ Same
  BY <1>1, <1>2 DEF IsRow, Same
<1>3. CASE ApplyFind(w)
  <2>1. /\ task[w].at = "find" /\ UNCHANGED <<device, created>>
        /\ \/ Moves(w, "update", device) /\ device.id # 0
           \/ Moves(w, "create", device)
    BY <1>1, <1>3, TaskMoves DEF ApplyFind, At, Live
  <2> QED
    BY <1>1, <1>2, <2>1, MoveStep
<1>4. CASE ApplyCreate(w)
  <2>1. task[w].at = "create"
    BY <1>4 DEF ApplyCreate, At
  <2>2. CASE CreateDevice(task[w].arg.category, "scan", task[w].arg.site) /\ Written(w)
    <3>1. /\ IsRow(device') /\ device'.id \in Nat /\ created' \in Nat /\ Same
      BY <1>1, <2>2, InsertRow
    <3>2. Moves(w, "bind", [NoRow EXCEPT !.id = device'.id, !.category = device'.category])
      BY <1>1, <2>2, TaskMoves
    <3> QED
      BY <2>1, <3>1, <3>2, MoveStep
  <2>3. CASE Live /\ Goes(w, "refind") /\ UNCHANGED <<device, created>>
    <3>1. Moves(w, "refind", task[w].seen) /\ device'.id # 0
      BY <1>1, <2>3, TaskMoves DEF Live
    <3> QED
      BY <1>1, <1>2, <2>1, <2>3, <3>1, MoveStep
  <2> QED
    BY <1>4, <2>2, <2>3 DEF ApplyCreate
<1>5. CASE ApplyRefind(w)
  <2>1. task[w].prog = "apply" /\ task[w].at = "refind" /\ UNCHANGED <<device, created>>
    BY <1>5 DEF ApplyRefind, At
  <2>2. CASE Live /\ Reads(w, "update")
    <3>1. Moves(w, "update", device) /\ device.id # 0
      BY <1>1, <2>2, TaskMoves DEF Live
    <3> QED
      BY <1>1, <1>2, <2>1, <3>1, MoveStep
  <2>3. CASE ~Live /\ Ends(w, "error")
    <3>1. task[w].deleted
      BY <2>1, <2>3 DEF WritersInv, Sound, Live
    <3> QED
      BY <1>1, <1>2, <2>1, <2>3, <3>1, EndStep
  <2> QED
    BY <1>5, <2>2, <2>3 DEF ApplyRefind
<1>6. CASE ApplyUpdate(w)
  <2>1. task[w].prog = "apply" /\ task[w].at = "update" /\ UNCHANGED created
    BY <1>6 DEF ApplyUpdate, At
  <2>2. IsRow(device') /\ device'.id = device.id /\ device'.id \in Nat /\ Same
    BY <1>1, <1>6, StatementKeepsRow DEF ApplyUpdate
  <2>3. CASE Written(w)
    <3>1. Moves(w, "bind", [NoRow EXCEPT !.id = device'.id, !.category = device'.category])
      BY <1>1, <2>3, TaskMoves
    <3> QED
      BY <1>1, <2>1, <2>2, <3>1, MoveStep
  <2>4. CASE device.id # task[w].seen.id /\ Ends(w, "error")
    <3>1. task[w].deleted
      BY <2>1, <2>4 DEF WritersInv, Sound
    <3> QED
      BY <1>1, <2>1, <2>2, <2>4, <3>1, EndStep
  <2> QED
    BY <1>6, <2>3, <2>4 DEF ApplyUpdate
<1>7. CASE ApplyBind(w)
  <2>1. IsRow(device') /\ device'.id \in Nat /\ Same
    BY <1>1, <1>7, StatementKeepsRow DEF ApplyBind
  <2> QED
    BY <1>1, <1>7, <2>1, EndStep DEF ApplyBind
<1> QED
  BY <1>3, <1>4, <1>5, <1>6, <1>7

\* The operator's forms, the reclassification and the site reconciliation.
LEMMA FormStep ==
  ASSUME WritersInv, NEW w \in Workers,
         \/ EditRead(w) \/ updateDevice(w)
         \/ persistVirtual(w) \/ FlagVirtual(w) \/ setVirtualIdentityExtras(w)
         \/ ReclassifyRead(w) \/ ReclassifyEnrich(w) \/ reclassifyDevice(w)
         \/ SitesListed(w) \/ reconcileSites(w)
  PROVE  WritersInv'
<1>1. RowsInv /\ IsRow(device) /\ device.id \in Nat /\ created \in Nat
  BY DEF WritersInv, RowsInv
<1>2. ASSUME UNCHANGED device PROVE IsRow(device') /\ device'.id \in Nat /\ Same
  BY <1>1, <1>2 DEF IsRow, Same
<1>3. CASE EditRead(w)
  <2>1. /\ task[w].prog = "edit" /\ task[w].at = "read" /\ UNCHANGED <<device, created>>
        /\ Reads(w, "write") \/ Ends(w, "refused")
    BY <1>3 DEF EditRead, At
  <2> QED
    BY <1>1, <1>2, <2>1, TaskMoves, MoveStep, EndStep
<1>4. CASE updateDevice(w)
  <2>1. IsRow(device') /\ device'.id \in Nat /\ Same
    BY <1>1, <1>4, StatementKeepsRow DEF updateDevice
  <2> QED
    BY <1>1, <1>4, <2>1, EndStep DEF updateDevice
<1>5. CASE persistVirtual(w)
  <2>1. task[w].prog = "virtual" /\ task[w].at = "create"
    BY <1>5 DEF persistVirtual, At
  <2>2. CASE CreateDevice("switch", "operator", None) /\ Holds(w, "flag")
    <3>1. IsRow(device') /\ device'.id \in Nat /\ created' \in Nat /\ Same
      BY <1>1, <2>2, InsertRow
    <3>2. Moves(w, "flag", device')
      BY <1>1, <2>2, TaskMoves
    <3> QED
      BY <2>1, <3>1, <3>2, MoveStep
  <2>3. CASE Ends(w, "conflict") /\ UNCHANGED <<device, created>>
    BY <1>1, <1>2, <2>3, EndStep
  <2> QED
    BY <1>5, <2>2, <2>3 DEF persistVirtual
<1>6. CASE FlagVirtual(w)
  <2>1. /\ task[w].prog = "virtual" /\ task[w].at = "flag" /\ UNCHANGED created
        /\ Moves(w, "extras", task[w].seen)
    BY <1>1, <1>6, TaskMoves DEF FlagVirtual, At
  <2>2. IsRow(device') /\ device'.id \in Nat /\ Same
    BY <1>1, <1>6, StatementKeepsRow DEF FlagVirtual
  <2> QED
    BY <1>1, <2>1, <2>2, MoveStep
<1>7. CASE setVirtualIdentityExtras(w)
  <2>1. IsRow(device') /\ device'.id \in Nat /\ Same
    BY <1>1, <1>7, StatementKeepsRow DEF setVirtualIdentityExtras
  <2> QED
    BY <1>1, <1>7, <2>1, EndStep DEF setVirtualIdentityExtras
<1>8. CASE ReclassifyRead(w)
  <2>1. /\ task[w].prog = "reclassify" /\ task[w].at = "read" /\ UNCHANGED <<device, created>>
        /\ Names(w, "enrich", device) \/ Ends(w, "unchanged")
    BY <1>8 DEF ReclassifyRead, At
  <2>2. Names(w, "enrich", device) => Moves(w, "enrich", [NoRow EXCEPT !.id = device.id])
    BY <1>1, TaskMoves
  <2> QED
    BY <1>1, <1>2, <2>1, <2>2, MoveStep, EndStep
<1>9. CASE ReclassifyEnrich(w)
  <2>1. /\ task[w].prog = "reclassify" /\ task[w].at = "enrich" /\ UNCHANGED created
        /\ Moves(w, "classify", task[w].seen)
    BY <1>1, <1>9, TaskMoves DEF ReclassifyEnrich, At
  <2>2. IsRow(device') /\ device'.id \in Nat /\ Same
    BY <1>1, <1>9, StatementKeepsRow DEF ReclassifyEnrich
  <2> QED
    BY <1>1, <2>1, <2>2, MoveStep
<1>10. CASE reclassifyDevice(w)
  <2>1. IsRow(device') /\ device'.id \in Nat /\ Same
    BY <1>1, <1>10, StatementKeepsRow DEF reclassifyDevice
  <2> QED
    BY <1>1, <1>10, <2>1, EndStep DEF reclassifyDevice
<1>11. CASE SitesListed(w)
  <2>1. /\ task[w].prog = "sites" /\ task[w].at = "list" /\ UNCHANGED <<device, created>>
        /\ Names(w, "assign", device) \/ Ends(w, "unmatched")
    BY <1>11 DEF SitesListed, At
  <2>2. Names(w, "assign", device) => Moves(w, "assign", [NoRow EXCEPT !.id = device.id])
    BY <1>1, TaskMoves
  <2>3. [NoRow EXCEPT !.id = device.id].site = None
    BY DEF NoRow
  <2> QED
    BY <1>1, <1>2, <2>1, <2>2, <2>3, MoveStep, EndStep
<1>12. CASE reconcileSites(w)
  <2>1. IsRow(device') /\ device'.id \in Nat /\ Same
    BY <1>1, <1>12, StatementKeepsRow DEF reconcileSites
  <2> QED
    BY <1>1, <1>12, <2>1, EndStep DEF reconcileSites
<1> QED
  BY <1>3, <1>4, <1>5, <1>6, <1>7, <1>8, <1>9, <1>10, <1>11, <1>12

\* Where a collector starts and what its steps leave alone.
LEMMA CollectorStep ==
  ASSUME WritersInv, NEW w \in Workers,
         \/ CollectFind(w) \/ resolveProfileDevice(w) \/ CollectStep(w)
         \/ ControllerFind(w) \/ addWirelessController(w) \/ ClassifyController(w)
  PROVE  WritersInv'
<1>1. RowsInv /\ IsRow(device) /\ device.id \in Nat /\ created \in Nat
  BY DEF WritersInv, RowsInv
<1>2. ASSUME UNCHANGED device PROVE IsRow(device') /\ device'.id \in Nat /\ Same
  BY <1>1, <1>2 DEF IsRow, Same
<1>3. CASE CollectFind(w)
  <2>1. /\ task[w].prog \in {"collect", "profile"} /\ task[w].at = "find"
        /\ UNCHANGED <<device, created>>
    BY <1>3 DEF CollectFind, At
  <2>2. CASE /\ Candidate(device) # "web"
             /\ task' = [task EXCEPT ![w] = [Idle EXCEPT !.seen = device, !.result = "no_credential"]]
    <3> DEFINE t == [Idle EXCEPT !.seen = device, !.result = "no_credential"]
    <3>1. t.prog = "idle" /\ t.at = "done" /\ t.seen = device /\ t.result = "no_credential"
      BY DEF Idle
    <3>2. IsTask(t)
      BY DEF IsTask, Idle
    <3>3. device.cctv # "web"
      BY <2>2 DEF Candidate, None
    <3>5. task' = [task EXCEPT ![w] = t]
      BY <2>2
    <3> HIDE DEF t
    <3>4. Sound(t, device')
      BY <3>1, <3>3 DEF Sound
    <3> QED
      BY <1>1, <1>2, <2>1, <3>2, <3>4, <3>5, WorkerStep
  <2>3. CASE Names(w, "run", device)
    <3>1. Moves(w, "run", [NoRow EXCEPT !.id = device.id])
      BY <1>1, <2>3, TaskMoves
    <3> QED
      BY <1>1, <1>2, <2>1, <3>1, MoveStep
  <2>4. CASE Goes(w, "make")
    <3>1. Moves(w, "make", task[w].seen)
      BY <1>1, <2>4, TaskMoves
    <3> QED
      BY <1>1, <1>2, <2>1, <3>1, MoveStep
  <2>5. CASE Ends(w, "refused")
    BY <1>1, <1>2, <2>1, <2>5, EndStep
  <2> QED
    BY <1>3, <2>2, <2>3, <2>4, <2>5 DEF CollectFind
<1>4. CASE resolveProfileDevice(w)
  <2>1. task[w].prog = "profile" /\ task[w].at = "make"
    BY <1>4 DEF resolveProfileDevice, At
  <2>2. CASE CreateDevice("unknown", "collector", None) /\ Names(w, "run", device')
    <3>1. IsRow(device') /\ device'.id \in Nat /\ created' \in Nat /\ Same
      BY <1>1, <2>2, InsertRow
    <3>2. Moves(w, "run", [NoRow EXCEPT !.id = device'.id])
      BY <1>1, <2>2, TaskMoves
    <3> QED
      BY <2>1, <3>1, <3>2, MoveStep
  <2>3. CASE Ends(w, "refused") /\ UNCHANGED <<device, created>>
    BY <1>1, <1>2, <2>3, EndStep
  <2> QED
    BY <1>4, <2>2, <2>3 DEF resolveProfileDevice
<1>5. CASE CollectStep(w)
  <2>1. IsRow(device') /\ device'.id \in Nat /\ Same /\ UNCHANGED created
    BY <1>1, <1>5, StatementKeepsRow DEF CollectStep
  <2>2. CASE Ends(w, "ok")
    BY <1>1, <2>1, <2>2, EndStep
  <2>3. CASE task' = [task EXCEPT ![w].arg = Tail(@)]
    <3> DEFINE t == [task[w] EXCEPT !.arg = Tail(task[w].arg)]
    <3>1. IsTask(task[w]) /\ Sound(task[w], device) /\ task = [v \in Workers |-> task[v]]
      BY DEF WritersInv, RowsInv
    <3>2. /\ IsTask(t) /\ t.prog = task[w].prog /\ t.at = task[w].at /\ t.seen = task[w].seen
          /\ t.result = task[w].result /\ t.deleted = task[w].deleted
      BY <3>1 DEF IsTask
    <3>3. task' = [task EXCEPT ![w] = t]
      BY <2>3, <3>1
    <3> HIDE DEF t
    <3>5. Sound(t, device)
      BY <3>1, <3>2 DEF Sound
    <3>6. Sound(t, device')
      BY <2>1, <3>5, SoundKept
    <3> QED
      BY <1>1, <2>1, <3>2, <3>3, <3>6, WorkerStep
  <2> QED
    BY <1>5, <2>2, <2>3 DEF CollectStep
<1>6. CASE ControllerFind(w)
  <2>1. /\ task[w].prog = "wlan" /\ task[w].at = "find" /\ UNCHANGED <<device, created>>
        /\ Moves(w, "classify", device) \/ Moves(w, "make", task[w].seen)
    BY <1>1, <1>6, TaskMoves DEF ControllerFind, At
  <2> QED
    BY <1>1, <1>2, <2>1, MoveStep
<1>7. CASE addWirelessController(w)
  <2>1. CASE CreateDevice("switch", "operator", None) /\ Ends(w, "ok")
    <3>1. IsRow(device') /\ device'.id \in Nat /\ created' \in Nat /\ Same
      BY <1>1, <2>1, InsertRow
    <3> QED
      BY <2>1, <3>1, EndStep
  <2>2. CASE Ends(w, "conflict") /\ UNCHANGED <<device, created>>
    BY <1>1, <1>2, <2>2, EndStep
  <2> QED
    BY <1>7, <2>1, <2>2 DEF addWirelessController
<1>8. CASE ClassifyController(w)
  <2>1. IsRow(device') /\ device'.id \in Nat /\ Same
    BY <1>1, <1>8, StatementKeepsRow DEF ClassifyController
  <2> QED
    BY <1>1, <1>8, <2>1, EndStep DEF ClassifyController
<1> QED
  BY <1>3, <1>4, <1>5, <1>6, <1>7, <1>8

\* A deletion is noted by every scan at work.
LEMMA DeleteStep ==
  ASSUME WritersInv, deleteDevice
  PROVE  WritersInv'
<1> DEFINE hit(w) == task[w].deleted \/ (task[w].prog = "apply" /\ task[w].at # "done")
           t(w) == [task[w] EXCEPT !.deleted = hit(w)]
<1>1. device' = NoRow /\ UNCHANGED created /\ task' = [w \in Workers |-> t(w)]
  BY DEF deleteDevice
<1>2. ASSUME NEW w \in Workers
      PROVE  /\ IsTask(t(w)) /\ t(w).prog = task[w].prog /\ t(w).at = task[w].at
             /\ t(w).seen = task[w].seen /\ t(w).result = task[w].result
             /\ t(w).deleted = hit(w)
  BY DEF WritersInv, RowsInv, IsTask
<1>3. \A w \in Workers : task'[w] = t(w)
  BY <1>1
<1> HIDE DEF t
<1>4. \A w \in Workers : IsTask(task'[w])
  BY <1>2, <1>3
<1>5. IsRow(device') /\ device'.id = 0
  BY <1>1 DEF IsRow, NoRow
<1>6. RowsInv'
  BY <1>1, <1>4, <1>5 DEF WritersInv, RowsInv
<1>7. ASSUME NEW w \in Workers PROVE Sound(task'[w], device')
  <2>1. Sound(task[w], device)
    BY DEF WritersInv
  <2> QED
    BY <1>2, <1>3, <1>5, <2>1 DEF Sound
<1> QED
  BY <1>6, <1>7 DEF WritersInv

\* Every step preserves WritersInv.
LEMMA WritersStep == WritersInv /\ [InventoryNext]_inventoryVars => WritersInv'
<1> SUFFICES ASSUME WritersInv, [InventoryNext]_inventoryVars PROVE WritersInv'
  OBVIOUS
<1>1. RowsInv /\ IsRow(device) /\ device.id \in Nat /\ created \in Nat
  BY DEF WritersInv, RowsInv
<1>2. ASSUME UNCHANGED task, IsRow(device'), device'.id \in Nat, created' \in Nat, Same
      PROVE  WritersInv'
  <2>1. RowsInv'
    BY <1>2 DEF WritersInv, RowsInv
  <2>2. \A w \in Workers : Sound(task[w], device')
    BY <1>2, SoundKept DEF WritersInv
  <2> QED
    BY <1>2, <2>1, <2>2 DEF WritersInv
<1>3. ASSUME NEW w \in Workers, StartTask(w) PROVE WritersInv'
  <2>1. PICK prog, at, arg : at # "done" /\ at \notin {"update", "refind", "assign", "run"}
                               /\ Starts(w, prog, at, arg)
    BY <1>3 DEF StartTask
  <2> DEFINE t == [Idle EXCEPT !.prog = prog, !.at = at, !.arg = arg]
  <2>3. task' = [task EXCEPT ![w] = t] /\ UNCHANGED <<device, created>>
    BY <2>1 DEF Starts
  <2>4. IsTask(t) /\ t.at = at /\ t.result = "ok"
    BY DEF IsTask, Idle
  <2> HIDE DEF t
  <2>5. Sound(t, device')
    BY <2>1, <2>4 DEF Sound
  <2> QED
    BY <1>1, <2>3, <2>4, <2>5, WorkerStep DEF IsRow, Same
<1>4. ASSUME NEW w \in Workers, TaskStep(w) PROVE WritersInv'
  BY <1>4, ApplyStep, FormStep, CollectorStep DEF TaskStep
<1>5. CASE createManualDevice("server", "s2")
  BY <1>1, <1>2, <1>5, InsertRow DEF createManualDevice
<1>6. CASE deleteDevice
  BY <1>6, DeleteStep
<1>7. CASE (\E b \in BOOLEAN : setClassificationLock(b)) \/ bulkAssignDevices("s2")
  <2>1. IsRow(device') /\ device'.id \in Nat /\ Same
    BY <1>1, <1>7, StatementKeepsRow DEF setClassificationLock, bulkAssignDevices
  <2> QED
    BY <1>1, <1>2, <1>7, <2>1 DEF setClassificationLock, bulkAssignDevices
<1>8. CASE UNCHANGED inventoryVars
  BY <1>1, <1>2, <1>8 DEF inventoryVars, IsRow, Same
<1> QED
  BY <1>3, <1>4, <1>5, <1>6, <1>7, <1>8 DEF InventoryNext

\* Initially the row, if there is one, is the operator's, and nobody is at work.
LEMMA WritersInit == InventoryInit => WritersInv
<1> SUFFICES ASSUME InventoryInit PROVE WritersInv
  OBVIOUS
<1>1. IsRow(device) /\ device.id \in Nat
  <2>1. IsRow(NoRow) /\ NoRow.id = 0
    BY DEF NoRow, IsRow
  <2>2. CASE device = NoRow
    BY <2>1, <2>2
  <2>3. CASE device # NoRow
    <3>1. device = [NoRow EXCEPT !.id = 1, !.category = "server", !.identity = "operator",
                                 !.locked = TRUE, !.cred = "web", !.cctv = "web"]
      BY <2>3 DEF InventoryInit
    <3> QED
      BY <2>1, <3>1 DEF IsRow
  <2> QED
    BY <2>2, <2>3
<1>2. IsTask(Idle) /\ Idle.at = "done" /\ Idle.result = "ok"
  BY DEF IsTask, Idle
<1>3. RowsInv
  BY <1>1, <1>2 DEF InventoryInit, RowsInv
<1>4. Sound(Idle, device)
  BY <1>2 DEF Sound
<1> QED
  BY <1>3, <1>4 DEF InventoryInit, WritersInv

\* The invariant of the writers.
LEMMA WritersInvariant == InventorySpec => []WritersInv
  BY WritersInit, WritersStep, PTL DEF InventorySpec

\* reconcile survives every insert race (Applier.Apply): with any number of
\* scans, forms and collectors at work, a scan fails to write its device only
\* if the row was deleted while it ran.
THEOREM ScanFails == InventorySpec => []ScanFailsOnlyOnDelete
<1>1. WritersInv => ScanFailsOnlyOnDelete
  BY DEF WritersInv, Sound, ScanFailsOnlyOnDelete
<1> QED
  BY <1>1, WritersInvariant, PTL

\* The web login of a recorder survives (runCCTVCollection): a collection
\* that finds no usable credential looked at a row that has none.
THEOREM CctvLogin == InventorySpec => []CctvLoginKept
<1>1. WritersInv => CctvLoginKept
  BY DEF WritersInv, Sound, CctvLoginKept
<1> QED
  BY <1>1, WritersInvariant, PTL

(* ---- the row and its writers: what a step may do ---------------------- *)
\* What the statements do to the category and the site.
Kept == device'.category = device.category /\ device'.site = device.site
LEMMA StatementEffect ==
  ASSUME IsRow(device), NEW id, NEW category, NEW author, NEW b, NEW site, NEW c
  PROVE  /\ \/ UpdateDeviceHardwareInfo(id) \/ SetDeviceCredential(id, c)
            \/ SetDeviceCCTVCredential(id, c) \/ MarkDeviceVirtual(id)
            \/ SetClassificationLock(id, b) \/ UNCHANGED device
            => Kept
         /\ BulkAssignClassification(id, site) => device'.category = device.category
         /\ UpdateDeviceClassification(id, category)
            => /\ device'.site = device.site
               /\ device.locked => device'.category = device.category
         /\ UpdateDiscoveredDevice(id, category, author, site)
            => /\ device'.category \in {device.category, category}
               /\ device.site # None => device'.site = device.site
<1>1. \/ UpdateDeviceHardwareInfo(id) \/ SetDeviceCredential(id, c)
      \/ SetDeviceCCTVCredential(id, c) \/ MarkDeviceVirtual(id)
      \/ SetClassificationLock(id, b) \/ UNCHANGED device
      => Kept
  BY DEF UpdateDeviceHardwareInfo, SetDeviceCredential, SetDeviceCCTVCredential,
         MarkDeviceVirtual, SetClassificationLock, Writes, IsRow, Kept
<1>2. BulkAssignClassification(id, site) => device'.category = device.category
  BY DEF BulkAssignClassification, Writes, IsRow
<1>3. UpdateDeviceClassification(id, category)
      => device'.site = device.site /\ (device.locked => device'.category = device.category)
  BY DEF UpdateDeviceClassification, Writes, IsRow
<1>4. UpdateDiscoveredDevice(id, category, author, site)
      => /\ device'.category \in {device.category, category}
         /\ device.site # None => device'.site = device.site
  BY DEF UpdateDiscoveredDevice, Writes, IsRow
<1> QED
  BY <1>1, <1>2, <1>3, <1>4

\* A task that ends is another one than before.
LEMMA Ended ==
  ASSUME RowsInv, NEW w \in Workers, NEW r, Ends(w, r), task[w].at # "done"
  PROVE  task'[w] # task[w]
<1>1. task'[w] = Idle \/ task'[w] = [Idle EXCEPT !.prog = task[w].prog, !.result = r,
                                                 !.deleted = task[w].deleted]
  BY DEF RowsInv, Ends
<1>2. task'[w].at = "done"
  <2>1. IsTask(Idle) /\ Idle.at = "done"
    BY DEF IsTask, Idle
  <2> QED
    BY <1>1, <2>1 DEF IsTask
<1> QED
  BY <1>2

\* How a step of worker w can have changed the category or the site.
Effect(w) ==
  /\ \A v \in Workers \ {w} : task'[v] = task[v]
  /\ \/ task[w].prog \in {"edit", "virtual"} /\ task'[w] # task[w]
     \/ /\ task[w].prog = "sites" /\ task'[w] # task[w] /\ task[w].seen.site = None
        /\ device'.category = device.category
     \/ /\ task[w].prog # "apply" /\ device'.site = device.site
        /\ device.locked => device'.category = device.category
     \/ /\ task[w].prog = "apply" /\ task'[w] # task[w]
        /\ device.site # None => device'.site = device.site
        /\ device'.category \in {device.category,
                                 IF KeepsIdentity(task[w].seen, task[w].arg)
                                   THEN task[w].seen.category ELSE task[w].arg.category}

\* The whole table of effects on a row that stays.
LEMMA Effects ==
  ASSUME WritersInv, InventoryNext, SameRow
  PROVE  \/ Kept
         \/ UNCHANGED task /\ device'.category = device.category
         \/ \E w \in Workers : Effect(w)
<1>1. RowsInv /\ IsRow(device) /\ device.id # 0 /\ device'.id = device.id
  BY DEF WritersInv, RowsInv, SameRow, Live
<1>2. \A category, author, site : ~CreateDevice(category, author, site)
  BY <1>1 DEF CreateDevice, Live
<1>3. UNCHANGED device => Kept
  BY DEF Kept
<1>4. ASSUME NEW w \in Workers, StartTask(w) PROVE Kept
  BY <1>3, <1>4 DEF StartTask, Starts
<1>5. ASSUME NEW w \in Workers,
             \/ ApplyFind(w) \/ ApplyCreate(w) \/ ApplyRefind(w) \/ EditRead(w)
             \/ persistVirtual(w) \/ ReclassifyRead(w) \/ SitesListed(w) \/ CollectFind(w)
             \/ resolveProfileDevice(w) \/ ControllerFind(w) \/ addWirelessController(w)
      PROVE  Kept
  BY <1>2, <1>3, <1>5 DEF ApplyFind, ApplyCreate, ApplyRefind, EditRead, persistVirtual,
     ReclassifyRead, SitesListed, CollectFind, resolveProfileDevice, ControllerFind,
     addWirelessController
<1>6. ASSUME NEW w \in Workers, ApplyBind(w) \/ FlagVirtual(w) \/ ReclassifyEnrich(w)
      PROVE  Kept
  <2>1. CASE ApplyBind(w)
    BY <1>1, <1>3, <2>1, StatementEffect DEF ApplyBind
  <2>2. CASE FlagVirtual(w)
    BY <1>1, <2>2, StatementEffect DEF FlagVirtual
  <2>3. CASE ReclassifyEnrich(w)
    BY <1>1, <1>3, <2>3, StatementEffect DEF ReclassifyEnrich
  <2> QED
    BY <1>6, <2>1, <2>2, <2>3
<1>7. ASSUME NEW w \in Workers, NEW r, Ends(w, r) \/ Written(w)
      PROVE  \A v \in Workers \ {w} : task'[v] = task[v]
  BY <1>1, <1>7 DEF Ends, Written, RowsInv
<1>8. ASSUME NEW w \in Workers, ApplyUpdate(w) PROVE Effect(w)
  <2>1. task[w].prog = "apply" /\ task[w].at = "update"
    BY <1>8 DEF ApplyUpdate, At
  <2>2. Ends(w, "error") \/ Written(w)
    BY <1>8 DEF ApplyUpdate
  <2>3. \A v \in Workers \ {w} : task'[v] = task[v]
    BY <1>7, <2>2
  <2>4. task'[w] # task[w]
    <3>1. CASE Ends(w, "error")
      BY <1>1, <2>1, <3>1, Ended
    <3>2. CASE Written(w)
      <4>1. Moves(w, "bind", [NoRow EXCEPT !.id = device'.id, !.category = device'.category])
        BY <1>1, <3>2, TaskMoves
      <4>2. task'[w].at = "bind"
        BY <1>1, <4>1 DEF Moves, RowsInv, IsTask
      <4> QED
        BY <2>1, <4>2
    <3> QED
      BY <2>2, <3>1, <3>2
  <2>5. \/ /\ KeepsIdentity(task[w].seen, task[w].arg)
           /\ UpdateDiscoveredDevice(task[w].seen.id, task[w].seen.category,
                                     task[w].seen.identity, task[w].arg.site)
        \/ /\ ~KeepsIdentity(task[w].seen, task[w].arg)
           /\ UpdateDiscoveredDevice(task[w].seen.id, task[w].arg.category, "scan",
                                     task[w].arg.site)
    BY <1>8 DEF ApplyUpdate
  <2>6. /\ device.site # None => device'.site = device.site
        /\ device'.category \in {device.category,
                                 IF KeepsIdentity(task[w].seen, task[w].arg)
                                   THEN task[w].seen.category ELSE task[w].arg.category}
    BY <1>1, <2>5, StatementEffect
  <2> QED
    BY <2>1, <2>3, <2>4, <2>6 DEF Effect
<1>9. ASSUME NEW w \in Workers, updateDevice(w) \/ setVirtualIdentityExtras(w) PROVE Effect(w)
  <2>1. task[w].prog \in {"edit", "virtual"} /\ task[w].at # "done" /\ Ends(w, "ok")
    BY <1>9 DEF updateDevice, setVirtualIdentityExtras, At
  <2> QED
    BY <1>1, <1>7, <2>1, Ended DEF Effect
<1>10. ASSUME NEW w \in Workers, reconcileSites(w) PROVE Effect(w)
  <2>1. task[w].prog = "sites" /\ task[w].at = "assign" /\ Ends(w, "ok")
    BY <1>10 DEF reconcileSites, At
  <2>2. task[w].seen.site = None
    BY <2>1 DEF WritersInv, Sound
  <2>3. device'.category = device.category
    BY <1>1, <1>10, StatementEffect DEF reconcileSites
  <2> QED
    BY <1>1, <1>7, <2>1, <2>2, <2>3, Ended DEF Effect
<1>11. ASSUME NEW w \in Workers, reclassifyDevice(w) \/ ClassifyController(w) PROVE Effect(w)
  <2>1. task[w].prog # "apply" /\ Ends(w, "ok")
    BY <1>11 DEF reclassifyDevice, ClassifyController, At
  <2>2. device'.site = device.site /\ (device.locked => device'.category = device.category)
    BY <1>1, <1>11, StatementEffect DEF reclassifyDevice, ClassifyController, Kept
  <2> QED
    BY <1>7, <2>1, <2>2 DEF Effect
<1>12. ASSUME NEW w \in Workers, CollectStep(w) PROVE Effect(w)
  <2>1. task[w].prog # "apply"
    BY <1>12 DEF CollectStep, WritersInv, Sound
  <2>2. device'.site = device.site /\ (device.locked => device'.category = device.category)
    BY <1>1, <1>12, StatementEffect DEF CollectStep, Kept
  <2>3. \A v \in Workers \ {w} : task'[v] = task[v]
    BY <1>1, <1>12 DEF CollectStep, Ends, RowsInv
  <2> QED
    BY <2>1, <2>2, <2>3 DEF Effect
<1>13. CASE createManualDevice("server", "s2")
  BY <1>2, <1>13 DEF createManualDevice
<1>14. CASE deleteDevice
  BY <1>1, <1>14 DEF deleteDevice, NoRow
<1>15. CASE \E b \in BOOLEAN : setClassificationLock(b)
  BY <1>1, <1>15, StatementEffect DEF setClassificationLock
<1>16. CASE bulkAssignDevices("s2")
  BY <1>1, <1>16, StatementEffect DEF bulkAssignDevices
<1> QED
  BY <1>4, <1>5, <1>6, <1>8, <1>9, <1>10, <1>11, <1>12, <1>13, <1>14, <1>15, <1>16
     DEF InventoryNext, TaskStep

\* The lock holds against everything automatic but a scan with an old read.
LEMMA LockStep ==
  ASSUME WritersInv, InventoryNext, SameRow, device.locked, device'.category # device.category
  PROVE  \E w \in Workers : \/ Steps(w, "edit") \/ Steps(w, "virtual")
                            \/ /\ Steps(w, "apply")
                               /\ \/ ~task[w].seen.locked
                                  \/ task[w].seen.category # device.category
<1>1. PICK w \in Workers : Effect(w)
  BY Effects DEF Kept
<1> QED
  BY <1>1 DEF Effect, Steps, KeepsIdentity

\* Weak evidence never downgrades managed infrastructure.
LEMMA InfraStep ==
  ASSUME WritersInv, InventoryNext, SameRow, IsStickyInfraCategory(device.category),
         NEW w \in Workers, Steps(w, "apply"), device'.category # device.category,
         ~task[w].arg.authoritative
  PROVE  ~IsStickyInfraCategory(task[w].seen.category)
<1>1. task'[w] # task[w] /\ task[w].prog = "apply"
  BY DEF Steps
<1>2. PICK v \in Workers : Effect(v)
  BY <1>1, Effects DEF Kept
<1>3. v = w
  BY <1>1, <1>2 DEF Effect
<1> QED
  BY <1>1, <1>2, <1>3 DEF Effect, KeepsIdentity, IsStickyInfraCategory

\* No scan and no collector moves a device.
LEMMA SiteStep ==
  ASSUME WritersInv, InventoryNext, SameRow, device.site # None, device'.site # device.site
  PROVE  \/ UNCHANGED task
         \/ \E w \in Workers : \/ Steps(w, "edit") \/ Steps(w, "virtual")
                               \/ Steps(w, "sites") /\ task[w].seen.site = None
<1>1. CASE UNCHANGED task
  BY <1>1
<1>2. CASE task' # task
  <2>1. PICK w \in Workers : Effect(w)
    BY <1>2, Effects DEF Kept
  <2> QED
    BY <2>1 DEF Effect, Steps
<1> QED
  BY <1>1, <1>2

\* What a scan or a collector may never do to the category and the site that a
\* device was given (reconcile, UpdateDiscoveredDevice, the site collectors),
\* with any number of them at work at once.
THEOREM Placement == InventorySpec => PlacementGuarded
<1>1. WritersInv /\ [InventoryNext]_inventoryVars =>
        [SameRow /\ device.locked /\ device'.category # device.category =>
           \E w \in Workers : \/ Steps(w, "edit") \/ Steps(w, "virtual")
                              \/ /\ Steps(w, "apply")
                                 /\ \/ ~task[w].seen.locked
                                    \/ task[w].seen.category # device.category]_inventoryVars
  BY LockStep
<1>2. WritersInv /\ [InventoryNext]_inventoryVars =>
        [SameRow /\ IsStickyInfraCategory(device.category) =>
           \A w \in Workers :
             Steps(w, "apply") /\ device'.category # device.category
             /\ ~task[w].arg.authoritative => ~IsStickyInfraCategory(task[w].seen.category)]_inventoryVars
  BY InfraStep
<1>3. WritersInv /\ [InventoryNext]_inventoryVars =>
        [SameRow /\ device.site # None /\ device'.site # device.site =>
           \/ UNCHANGED task
           \/ \E w \in Workers : \/ Steps(w, "edit") \/ Steps(w, "virtual")
                                 \/ Steps(w, "sites") /\ task[w].seen.site = None]_inventoryVars
  BY SiteStep
<1> QED
  BY <1>1, <1>2, <1>3, WritersInvariant, PTL
     DEF InventorySpec, PlacementGuarded, LockedCategoryKept, InfraNotDowngraded, SiteKept

(* ---- the management state: the ladder --------------------------------- *)
\* A non-empty set of natural numbers has a minimal element of any well-founded
\* relation, and so a least one.
LEMMA MinimalElement ==
  ASSUME NEW S, S \subseteq Nat, S # {}, NEW R, IsWellFoundedOn(R, Nat)
  PROVE  \E x \in S : \A y \in S : ~(<<y, x>> \in R)
  BY WFMin, Zenon

(* A set of numbers has a least one by any well-founded relation that holds <. *)
LEMMA LeastBy ==
  ASSUME NEW S, S \subseteq Nat, S # {}, NEW R, IsWellFoundedOn(R, Nat),
         \A x, y \in Nat : x < y => <<x, y>> \in R
  PROVE  \E k \in S : \A l \in S : k <= l
<1>1. PICK x \in S : \A y \in S : ~(<<y, x>> \in R)
  BY MinimalElement
<1>2. \A y \in S : ~(y < x)
  BY <1>1
<1> QED
  BY <1>2

\* The least number principle, for sets.
LEMMA LeastNumber ==
  ASSUME NEW S, S \subseteq Nat, S # {}
  PROVE  \E k \in S : \A l \in S : k <= l
<1> DEFINE R == OpToRel(<, Nat)
<1>1. IsWellFoundedOn(R, Nat)
  BY NatLessThanWellFounded
<1>2. \A x, y \in Nat : x < y => <<x, y>> \in R
  BY DEF OpToRel
<1> HIDE DEF R
<1> QED
  BY <1>1, <1>2, LeastBy, Zenon

\* A credential that WMI would have collected is collected, by one rung or
\* another, unless the shell rejected it (collectWindows).
LEMMA WorkingRungCollects ==
  ASSUME NEW o \in Outcomes, o.wmiWorks
  PROVE  o.cat = "success"
<1>1. PICK a \in Answers : o = [cat |-> collectWindows(a),
                                wmiWorks |-> a.wmi = "success" /\ a.winrm # "auth_failed"]
  BY DEF Outcomes
<1>2. o.cat = collectWindows(a)
  BY <1>1
<1>3. o.wmiWorks <=> a.wmi = "success" /\ a.winrm # "auth_failed"
  BY <1>1
<1>4. a.wmi = "success" /\ a.winrm # "auth_failed" => collectWindows(a) = "success"
  BY DEF collectWindows, winRMShortCircuitsWMI
<1> QED
  BY <1>2, <1>3, <1>4

\* ... and so by the job, which stops at the first success.
LEMMA JobMissesNothing ==
  ASSUME NEW r \in Runs
  PROVE  ~r.missed
<1>1. PICK o \in [1 .. Candidates -> Outcomes] : r = runJob(o)
  BY DEF Runs
<1> DEFINE ends == {k \in 1 .. Candidates : o[k].cat \in {"success", "winrm_connect_timeout"}}
           stop == IF ends = {} THEN Candidates ELSE CHOOSE k \in ends : \A l \in ends : k <= l
<1>2. Candidates \in Nat \ {0}
  BY ManagementAssumption
<1>3. stop \in 1 .. Candidates /\ \A l \in ends : stop <= l
  <2>1. CASE ends = {}
    BY <1>2, <2>1
  <2>2. CASE ends # {}
    <3>1. \E k \in ends : \A l \in ends : k <= l
      <4>1. ends \subseteq Nat
        BY <1>2
      <4> HIDE DEF ends
      <4> QED
        BY <2>2, <4>1, LeastNumber
    <3>2. stop \in ends /\ \A l \in ends : stop <= l
      <4> HIDE DEF ends
      <4> QED
        BY <2>2, <3>1
    <3> QED
      BY <3>2
  <2> QED
    BY <2>1, <2>2
<1>4. ASSUME NEW k \in 1 .. stop, o[k].wmiWorks PROVE o[stop].cat = "success"
  <2>1. k \in 1 .. Candidates /\ stop \in 1 .. Candidates
    <3> HIDE DEF stop
    <3> QED
      BY <1>2, <1>3, <1>4
  <2>2. o[k].cat = "success"
    BY <1>4, <2>1, WorkingRungCollects
  <2>3. k \in ends
    BY <2>1, <2>2
  <2>4. stop <= k
    BY <1>3, <2>3
  <2>5. k = stop
    <3> HIDE DEF stop
    <3> QED
      BY <1>4, <2>1, <2>4
  <2> QED
    BY <2>2, <2>5
<1>5. r = [run |-> [k \in 1 .. stop |-> o[k].cat],
           missed |-> o[stop].cat # "success" /\ \E k \in 1 .. stop : o[k].wmiWorks]
  BY <1>1 DEF runJob
<1> HIDE DEF stop, ends
<1>6. r.missed <=> o[stop].cat # "success" /\ \E k \in 1 .. stop : o[k].wmiWorks
  BY <1>5
<1> QED
  BY <1>4, <1>6

\* The result that the API is storing: a record with these fields, and it missed
\* no rung.
IsResult(r) == r = [x \in {"at", "run", "missed", "stored"} |-> r[x]]
LadderInv == IsResult(result) /\ ~result.missed

\* The steps that read or write the result keep what the ladder found.
LEMMA LadderStep == LadderInv /\ [MgmtNext]_mgmtVars => LadderInv'
<1> SUFFICES ASSUME LadderInv, [MgmtNext]_mgmtVars PROVE LadderInv'
  OBVIOUS
<1>1. ASSUME UNCHANGED result PROVE LadderInv'
  BY <1>1 DEF LadderInv, IsResult
<1>2. IsResult(NoResult) /\ ~NoResult.missed
  BY DEF IsResult, NoResult
<1>3. CASE AgentRuns
  <2>1. PICK r \in Runs : result' = [NoResult EXCEPT !.at = "persist", !.run = r.run, !.missed = r.missed]
    BY <1>3 DEF AgentRuns
  <2>2. IsResult(result') /\ result'.missed = r.missed
    BY <1>2, <2>1 DEF IsResult
  <2> QED
    BY <2>2, JobMissesNothing DEF LadderInv
<1>4. CASE PersistReport
  <2>1. \/ result' = [result EXCEPT !.at = "bind", !.stored = TRUE]
        \/ result' = [result EXCEPT !.at = "finish"]
    BY <1>4 DEF PersistReport
  <2> QED
    BY <2>1 DEF LadderInv, IsResult
<1>5. CASE BindWinner
  <2>1. result' = [result EXCEPT !.at = "finish"]
    BY <1>5 DEF BindWinner
  <2> QED
    BY <2>1 DEF LadderInv, IsResult
<1>6. CASE RequeueAgentJob \/ CompleteAgentJob
  BY <1>2, <1>6 DEF RequeueAgentJob, CompleteAgentJob, LadderInv
<1>7. CASE RecordAttempt
  <2>1. result' = [result EXCEPT !.at = "record", !.run = Tail(result.run)]
    BY <1>7 DEF RecordAttempt
  <2> QED
    BY <2>1 DEF LadderInv, IsResult
<1>8. CASE \/ \E k, c : persistCredentialTest(k, c)
           \/ bindDeviceCredential \/ routeViaSiteAgent \/ relayAgentOnline
           \/ listDevices \/ deviceAccessMap \/ deviceTestMap \/ ReadSignals
           \/ ListRelayAgents \/ ListDevicesWithActiveAgentJobs \/ enrich
  BY <1>1, <1>8 DEF persistCredentialTest, bindDeviceCredential, routeViaSiteAgent,
     relayAgentOnline, listDevices, deviceAccessMap, deviceTestMap, ReadSignals,
     ListRelayAgents, ListDevicesWithActiveAgentJobs, enrich, Viewing
<1>9. CASE UNCHANGED mgmtVars
  BY <1>1, <1>9 DEF mgmtVars
<1> QED
  BY <1>3, <1>4, <1>5, <1>6, <1>7, <1>8, <1>9 DEF MgmtNext

\* Every candidate gets every transport (runJob, collectWindows): however many
\* candidates a job carries and whatever their rungs answer, a job fails on a
\* host that WMI would have collected only behind a clean rejection.
THEOREM NoRungMissed == MgmtSpec => []NoWorkingRungMissed
<1>1. MgmtInit => LadderInv
  BY DEF MgmtInit, NoResult, LadderInv, IsResult
<1>2. LadderInv => NoWorkingRungMissed
  BY DEF LadderInv, NoWorkingRungMissed
<1> QED
  BY <1>1, <1>2, LadderStep, PTL DEF MgmtSpec

(* ---- the management state: the status page ---------------------------- *)
IsView(v) == v = [x \in {"at", "bound", "access", "latest", "signals", "agent", "active", "report",
                         "had", "collected", "busy", "blind"} |-> v[x]]

\* A row of a test whose credential authenticated.
AuthRow(read) == \E t \in read : t[2] \in {"success", "auth_ok_operation_fault",
                                           "access_denied", "wmi_access_denied"}

\* HonestStatus is about the reports; between the first read of a request and
\* its report, what the request has read must stand for what was true when it
\* began, and where it has not read yet the tables must: they only grow.
ReadsStand ==
  /\ view.at # "idle" => view.report = Unset
  /\ view.at = "access" => /\ view.had => Authenticated
                           /\ view.collected => inventory # Unset
  /\ view.at \notin {"idle", "access"} => (view.collected => view.access # {})
  /\ view.at \in {"tests", "signals"} => (view.had => view.access # {} \/ AuthRow(tests))
  /\ view.at \in {"agents", "jobs", "derive"} =>
       (view.had => view.access # {} \/ "signals" \in view.blind \/ AuthRow(view.signals))
  /\ view.at = "derive" => (view.busy /\ "jobs" \notin view.blind => view.active)
StatusInv == IsView(view) /\ ReadsStand /\ HonestStatus

\* The tables only grow, and a request is not touched by those who write them.
LEMMA TablesGrow ==
  ASSUME StatusInv, UNCHANGED <<view, class>>, tests \subseteq tests',
         inventory' = inventory \/ inventory' # Unset
  PROVE  StatusInv'
<1>1. IsView(view)' /\ HonestStatus'
  BY DEF StatusInv, IsView, HonestStatus, NeverFailedAfterAuth, CollectedStaysManaged,
         InFlightNotBlamed
<1>2. (Authenticated => Authenticated') /\ (AuthRow(tests) => AuthRow(tests'))
  BY DEF Authenticated, AuthRow
<1>3. ReadsStand'
  BY <1>2 DEF StatusInv, ReadsStand, AuthRow
<1> QED
  BY <1>1, <1>3 DEF StatusInv

\* A request between two reads says nothing.
LEMMA ReadingHonest ==
  ASSUME view'.report = Unset
  PROVE  HonestStatus'
  BY DEF HonestStatus, NeverFailedAfterAuth, CollectedStaysManaged, InFlightNotBlamed, Unset

\* A row of a credential that authenticated shows in the aggregate.
LEMMA SignalShows ==
  ASSUME NEW S, AuthRow(S)
  PROVE  \/ credSignal(S).anySuccess \/ credSignal(S).legacyAuthOK \/ credSignal(S).notAuthorized
  BY DEF AuthRow, credSignal

\* The decision table of deriveManagement, as far as HonestStatus goes.
LEMMA DerivedHonest ==
  ASSUME NEW v
  PROVE  /\ v.access # {} /\ class # "virtual" => statusFor(v) = "managed"
         /\ statusFor(v) = "credential_failed" /\ v.signals # {} =>
              /\ v.access = {}
              /\ ~(\/ credSignal(v.signals).anySuccess \/ credSignal(v.signals).legacyAuthOK
                   \/ credSignal(v.signals).notAuthorized)
         /\ statusFor(v) = "credential_failed" => v.access = {}
         /\ v.active => statusFor(v) \notin {"credential_failed", "not_attempted",
                                             "needs_credential", "unmanaged"}
<1>1. v.access # {} /\ class # "virtual" => statusFor(v) = "managed"
  BY DEF statusFor, deriveManagement
<1>2. statusFor(v) = "credential_failed" /\ v.signals # {} =>
        /\ v.access = {}
        /\ ~(\/ credSignal(v.signals).anySuccess \/ credSignal(v.signals).legacyAuthOK
             \/ credSignal(v.signals).notAuthorized)
  BY DEF statusFor, deriveManagement
<1>3. statusFor(v) = "credential_failed" => v.access = {}
  BY DEF statusFor, deriveManagement
<1>4. v.active => statusFor(v) \notin {"credential_failed", "not_attempted",
                                       "needs_credential", "unmanaged"}
  BY DEF statusFor, deriveManagement
<1> QED
  BY <1>1, <1>2, <1>3, <1>4

\* The six reads of a request, in their order.
LEMMA RequestReads ==
  ASSUME StatusInv,
         \/ listDevices \/ deviceAccessMap \/ deviceTestMap \/ ReadSignals
         \/ ListRelayAgents \/ ListDevicesWithActiveAgentJobs
  PROVE  StatusInv'
<1>1. /\ IsView(view) /\ ReadsStand /\ UNCHANGED <<class, tests, last, inventory, job>>
  BY DEF StatusInv, listDevices, deviceAccessMap, deviceTestMap, ReadSignals, ListRelayAgents,
         ListDevicesWithActiveAgentJobs, Viewing
<1>2. (Authenticated' <=> Authenticated) /\ (AuthRow(tests)' <=> AuthRow(tests))
  BY <1>1 DEF Authenticated, AuthRow
<1>3. CASE listDevices
  <2>1. view' = [NoView EXCEPT !.at = "access", !.bound = bound, !.busy = InFlight,
                               !.had = Authenticated, !.collected = inventory # Unset]
    BY <1>3 DEF listDevices
  <2>2. /\ IsView(view)' /\ view'.at = "access" /\ view'.report = Unset
        /\ view'.had <=> Authenticated
        /\ view'.collected <=> inventory # Unset
    BY <2>1 DEF NoView, IsView
  <2>3. ReadsStand'
    BY <1>1, <1>2, <2>2 DEF ReadsStand
  <2> QED
    BY <2>2, <2>3, ReadingHonest DEF StatusInv
<1>4. CASE deviceAccessMap
  <2> DEFINE m == buildAccessMap(ListDeviceAccessSignals)
  <2>1. /\ view.at = "access"
        /\ view' = [[view EXCEPT !.at = "tests", !.access = m] EXCEPT !.busy = @ /\ InFlight]
    BY <1>4 DEF deviceAccessMap, Viewing, Sees
  <2>2. inventory # Unset => m # {}
    <3> SUFFICES ASSUME inventory # Unset PROVE m # {}
      OBVIOUS
    <3> DEFINE e == <<IF inventory = "wmi" THEN "wmi" ELSE "winrm", "evidence">>
    <3>1. e \in ListDeviceAccessSignals
      BY DEF ListDeviceAccessSignals
    <3>2. e # <<"http_basic", "test_result">>
      OBVIOUS
    <3> HIDE DEF e
    <3>3. e[1] \in m
      BY <3>1, <3>2 DEF buildAccessMap
    <3> QED
      BY <3>3
  <2> HIDE DEF m
  <2>3. /\ IsView(view)' /\ view'.at = "tests" /\ view'.access = m
        /\ view'.report = view.report /\ view'.had = view.had /\ view'.collected = view.collected
    BY <1>1, <2>1 DEF IsView
  <2>4. ReadsStand'
    BY <1>1, <1>2, <2>1, <2>2, <2>3 DEF ReadsStand, Authenticated, AuthRow
  <2>5. view'.report = Unset
    BY <1>1, <2>1, <2>3 DEF ReadsStand
  <2> QED
    BY <2>3, <2>4, <2>5, ReadingHonest DEF StatusInv
<1>5. CASE deviceTestMap
  <2>1. /\ view.at = "tests"
        /\ view' = [[view EXCEPT !.at = "signals", !.latest = last] EXCEPT !.busy = @ /\ InFlight]
    BY <1>5 DEF deviceTestMap, Viewing, Sees
  <2>2. /\ IsView(view)' /\ view'.at = "signals" /\ view'.access = view.access
        /\ view'.report = view.report /\ view'.had = view.had /\ view'.collected = view.collected
    BY <1>1, <2>1 DEF IsView
  <2>3. ReadsStand' /\ view'.report = Unset
    BY <1>1, <1>2, <2>1, <2>2 DEF ReadsStand
  <2> QED
    BY <2>2, <2>3, ReadingHonest DEF StatusInv
<1>6. CASE ReadSignals
  <2>1. PICK s, b :
          /\ view.at = "signals"
          /\ view' = [[view EXCEPT !.at = "agents", !.signals = s, !.blind = b]
                        EXCEPT !.busy = @ /\ InFlight]
          /\ s = tests \/ "signals" \in b
    <3>1. CASE Sees([view EXCEPT !.at = "agents", !.signals = DeviceCredentialSignals])
      <4>1. [view EXCEPT !.at = "agents", !.signals = tests]
              = [view EXCEPT !.at = "agents", !.signals = tests, !.blind = view.blind]
        BY <1>1 DEF IsView
      <4>2. view.at = "signals"
        BY <1>6 DEF ReadSignals, Viewing
      <4> QED
        BY <3>1, <4>1, <4>2 DEF Sees, DeviceCredentialSignals
    <3>2. CASE Sees([view EXCEPT !.at = "agents", !.blind = @ \cup {"signals"}])
      <4>1. [view EXCEPT !.at = "agents", !.blind = view.blind \cup {"signals"}]
              = [view EXCEPT !.at = "agents", !.signals = view.signals,
                             !.blind = view.blind \cup {"signals"}]
        BY <1>1 DEF IsView
      <4>2. view.at = "signals" /\ "signals" \in view.blind \cup {"signals"}
        BY <1>6 DEF ReadSignals, Viewing
      <4> QED
        BY <3>2, <4>1, <4>2 DEF Sees
    <3> QED
      BY <1>6, <3>1, <3>2 DEF ReadSignals
  <2>2. /\ IsView(view)' /\ view'.at = "agents" /\ view'.access = view.access
        /\ view'.signals = s /\ view'.blind = b
        /\ view'.report = view.report /\ view'.had = view.had /\ view'.collected = view.collected
    BY <1>1, <2>1 DEF IsView
  <2>3. view.had => view.access # {} \/ AuthRow(tests)
    BY <1>1, <2>1 DEF ReadsStand
  <2>4. ReadsStand' /\ view'.report = Unset
    BY <1>1, <2>1, <2>2, <2>3 DEF ReadsStand, AuthRow
  <2> QED
    BY <2>2, <2>4, ReadingHonest DEF StatusInv
<1>7. CASE ListRelayAgents
  <2>1. PICK a \in {agent, Unset} :
          /\ view.at = "agents"
          /\ view' = [[view EXCEPT !.at = "jobs", !.agent = a] EXCEPT !.busy = @ /\ InFlight]
    BY <1>7 DEF ListRelayAgents, Viewing, Sees
  <2>2. /\ IsView(view)' /\ view'.at = "jobs" /\ view'.access = view.access
        /\ view'.signals = view.signals /\ view'.blind = view.blind
        /\ view'.report = view.report /\ view'.had = view.had /\ view'.collected = view.collected
    BY <1>1, <2>1 DEF IsView
  <2>3. ReadsStand' /\ view'.report = Unset
    BY <1>1, <2>1, <2>2 DEF ReadsStand, AuthRow
  <2> QED
    BY <2>2, <2>3, ReadingHonest DEF StatusInv
<1>8. CASE ListDevicesWithActiveAgentJobs
  <2>0. view.at = "jobs"
    BY <1>8 DEF ListDevicesWithActiveAgentJobs, Viewing
  <2>1. /\ IsView(view)' /\ view'.at = "derive" /\ view'.access = view.access
        /\ view'.signals = view.signals /\ view.blind \subseteq view'.blind
        /\ view'.report = view.report /\ view'.had = view.had /\ view'.collected = view.collected
        /\ view'.busy /\ "jobs" \notin view'.blind => view'.active
    <3>1. CASE Sees([view EXCEPT !.at = "derive", !.active = InFlight])
      <4>1. view' = [[view EXCEPT !.at = "derive", !.active = InFlight] EXCEPT !.busy = @ /\ InFlight]
        BY <3>1 DEF Sees
      <4>2. (view'.busy => InFlight) /\ (InFlight => view'.active)
        BY <1>1, <4>1 DEF IsView
      <4> QED
        BY <1>1, <4>1, <4>2 DEF IsView
    <3>2. CASE Sees([view EXCEPT !.at = "derive", !.blind = @ \cup {"jobs"}])
      <4>1. view' = [[view EXCEPT !.at = "derive", !.blind = view.blind \cup {"jobs"}]
                       EXCEPT !.busy = @ /\ InFlight]
        BY <3>2 DEF Sees
      <4> QED
        BY <1>1, <4>1 DEF IsView
    <3> QED
      BY <1>8, <3>1, <3>2 DEF ListDevicesWithActiveAgentJobs
  <2>2. ReadsStand' /\ view'.report = Unset
    BY <1>1, <2>0, <2>1 DEF ReadsStand, AuthRow
  <2> QED
    BY <2>1, <2>2, ReadingHonest DEF StatusInv
<1> QED
  BY <1>3, <1>4, <1>5, <1>6, <1>7, <1>8

\* The report: what was read decides it.
LEMMA RequestReports ==
  ASSUME StatusInv, enrich
  PROVE  StatusInv'
<1> DEFINE rep == statusFor(view)
<1>1. /\ view.at = "derive" /\ UNCHANGED class
      /\ view' = [NoView EXCEPT !.report = rep, !.had = view.had, !.busy = view.busy,
                                !.collected = view.collected, !.blind = view.blind]
  BY DEF enrich, Viewing
<1>2. /\ view.collected => view.access # {}
      /\ view.had => view.access # {} \/ "signals" \in view.blind \/ AuthRow(view.signals)
      /\ view.busy /\ "jobs" \notin view.blind => view.active
  BY <1>1 DEF StatusInv, ReadsStand
<1>3. rep = "credential_failed" => ~view.had \/ "signals" \in view.blind
  <2>1. AuthRow(view.signals) => view.signals # {}
    BY DEF AuthRow
  <2> QED
    BY <1>2, <2>1, SignalShows, DerivedHonest
<1>4. view.collected /\ class # "virtual" => rep = "managed"
  BY <1>2, DerivedHonest
<1>5. view.busy /\ "jobs" \notin view.blind =>
        rep \notin {"credential_failed", "not_attempted", "needs_credential", "unmanaged"}
  BY <1>2, DerivedHonest
<1> HIDE DEF rep
<1>6. /\ IsView(view)' /\ view'.at = "idle" /\ view'.report = rep /\ view'.had = view.had
      /\ view'.busy = view.busy /\ view'.collected = view.collected /\ view'.blind = view.blind
  BY <1>1 DEF NoView, IsView
<1>7. HonestStatus'
  BY <1>1, <1>3, <1>4, <1>5, <1>6 DEF HonestStatus, NeverFailedAfterAuth, CollectedStaysManaged,
     InFlightNotBlamed
<1>8. ReadsStand'
  BY <1>6 DEF ReadsStand
<1> QED
  BY <1>6, <1>7, <1>8 DEF StatusInv

\* Every step preserves StatusInv.
LEMMA StatusStep == StatusInv /\ [MgmtNext]_mgmtVars => StatusInv'
<1> SUFFICES ASSUME StatusInv, [MgmtNext]_mgmtVars PROVE StatusInv'
  OBVIOUS
<1>1. CASE \/ \E k, c : persistCredentialTest(k, c)
           \/ bindDeviceCredential \/ routeViaSiteAgent \/ AgentRuns \/ BindWinner
           \/ RequeueAgentJob \/ RecordAttempt \/ CompleteAgentJob \/ relayAgentOnline
           \/ UNCHANGED mgmtVars
  <2>1. UNCHANGED <<view, class, inventory>> /\ tests \subseteq tests'
    BY <1>1 DEF persistCredentialTest, InsertCredentialTestResult, bindDeviceCredential,
       routeViaSiteAgent, AgentRuns, BindWinner, RequeueAgentJob, RecordAttempt,
       CompleteAgentJob, relayAgentOnline, mgmtVars
  <2> QED
    BY <2>1, TablesGrow
<1>2. CASE PersistReport
  <2>1. UNCHANGED <<view, class, tests>> /\ (inventory' = inventory \/ inventory' # Unset)
    BY <1>2 DEF PersistReport, Unset
  <2> QED
    BY <2>1, TablesGrow
<1>3. CASE \/ listDevices \/ deviceAccessMap \/ deviceTestMap \/ ReadSignals
           \/ ListRelayAgents \/ ListDevicesWithActiveAgentJobs
  BY <1>3, RequestReads
<1>4. CASE enrich
  BY <1>4, RequestReports
<1> QED
  BY <1>1, <1>2, <1>3, <1>4 DEF MgmtNext

\* What the status page may never say of a device (deriveManagement,
\* buildStatusMaps), however its queries interleave with the tests, jobs and
\* results that are written meanwhile.
THEOREM Honest == MgmtSpec => []HonestStatus
<1>1. MgmtInit => StatusInv
  <2> SUFFICES ASSUME MgmtInit PROVE StatusInv
    OBVIOUS
  <2>1. IsView(view) /\ view.at = "idle" /\ view.report = Unset
    BY DEF MgmtInit, NoView, IsView
  <2>2. HonestStatus
    BY <2>1 DEF HonestStatus, NeverFailedAfterAuth, CollectedStaysManaged, InFlightNotBlamed, Unset
  <2> QED
    BY <2>1, <2>2 DEF StatusInv, ReadsStand
<1>2. StatusInv => HonestStatus
  BY DEF StatusInv
<1> QED
  BY <1>1, <1>2, StatusStep, PTL DEF MgmtSpec

(* ---- the collectors --------------------------------------------------- *)
Prunings == {IfSeen, Exposed, EachTime, NotAtAll}

\* Every collector prunes in one of four ways.
LEMMA CollectorsPrune == \A c \in AllCollectors : c.prune \in Prunings
<1>1. ASSUME NEW steps, NEW rosters
      PROVE  /\ Keeps(steps, IfSeen, rosters).prune \in Prunings
             /\ Keeps(steps, Exposed, rosters).prune \in Prunings
             /\ Keeps(steps, EachTime, rosters).prune \in Prunings
             /\ Keeps(steps, NotAtAll, rosters).prune \in Prunings
  BY DEF Keeps, Prunings
<1>2. ASSUME NEW steps
      PROVE  Applied(steps).prune \in Prunings /\ PersistOS(steps).prune \in Prunings
  BY <1>1, Zenon DEF Applied, PersistOS
<1>3. /\ Redfish.prune \in Prunings /\ CUCM.prune \in Prunings /\ VSphere.prune \in Prunings
      /\ HyperV.prune \in Prunings /\ ONVIF.prune \in Prunings
  BY <1>1, Zenon DEF Redfish, CUCM, VSphere, HyperV, ONVIF
<1>4. /\ UniFi.prune \in Prunings /\ Omada.prune \in Prunings /\ Ruckus.prune \in Prunings
      /\ Extreme.prune \in Prunings /\ VSphereProfile.prune \in Prunings
  BY <1>1, Zenon DEF UniFi, Omada, Ruckus, Extreme, VSphereProfile
<1>5. /\ WirelessProfile.prune \in Prunings /\ CUCMProfile.prune \in Prunings /\ AlcatelProfile.prune \in Prunings
      /\ persistNVR.prune \in Prunings /\ collectXCCProfile.prune \in Prunings
  BY <1>1, Zenon DEF WirelessProfile, CUCMProfile, AlcatelProfile, persistNVR, collectXCCProfile
<1>6. /\ collectRuckusZDProfile.prune \in Prunings /\ collectSSHCLI.prune \in Prunings
  BY <1>1, Zenon DEF collectRuckusZDProfile, collectSSHCLI
<1> QED
  BY <1>2, <1>3, <1>4, <1>5, <1>6, Zenon DEF AllCollectors, Controller

\* While a pass runs it has received only what was there to be received, and
\* all of it unless a question failed or a walk broke off.
IsPass(p) == p = [x \in {"k", "got", "had", "failed", "cut", "others"} |-> p[x]]
Received(p) == p.got \subseteq p.had /\ (~p.failed /\ ~p.cut => p.got = p.had)
RosterInv ==
  /\ collector \in AllCollectors /\ IsPass(pass) /\ Received(pass)
  /\ pass.failed \in BOOLEAN /\ pass.cut \in BOOLEAN

\* What the two parts of RosterTracksDevice say of one step.
LossStep ==
  stored' # stored => \A e \in pass.had : e \in stored \ stored' =>
    /\ pass.cut \/ pass.failed
    /\ pass.got # {} \/ collector.prune \in {EachTime, Exposed}
LeaveStep ==
  Store /\ ~pass.failed /\ ~pass.cut =>
    \/ stored' = pass.had
    \/ collector.prune = NotAtAll /\ pass.had \subseteq stored'
    \/ /\ collector.prune \in {IfSeen, Exposed}
       /\ pass.had = {} /\ stored' = stored

\* Every step of a collection.
LEMMA RosterStep ==
  RosterInv /\ [CollectNext]_collectVars =>
    RosterInv' /\ [LossStep]_collectVars /\ [LeaveStep]_collectVars
<1> SUFFICES ASSUME RosterInv, [CollectNext]_collectVars PROVE RosterInv' /\ LossStep /\ LeaveStep
  OBVIOUS
<1>1. collector.prune \in {IfSeen, Exposed, EachTime, NotAtAll}
  BY CollectorsPrune DEF RosterInv, Prunings
<1>2. CASE Store
  <2>1. /\ stored' = Merge(collector.prune, pass.got, pass.others, stored) /\ pass' = NoPass
        /\ collector' = collector
    BY <1>2 DEF Store
  <2>2. RosterInv'
    BY <2>1 DEF RosterInv, IsPass, Received, NoPass
  <2>3. LossStep
    BY <2>1 DEF LossStep, Merge, PruneAfter, RosterInv, Received
  <2>4. LeaveStep
    BY <1>1, <2>1 DEF LeaveStep, Merge, PruneAfter, RosterInv, Received, IfSeen, Exposed, EachTime,
                      NotAtAll
  <2> QED
    BY <2>2, <2>3, <2>4
<1>3. ASSUME ~Store, UNCHANGED stored PROVE LossStep /\ LeaveStep
  BY <1>3 DEF LossStep, LeaveStep
<1>4. CASE ~Store /\ (BeginPass \/ Answered \/ Refused \/ BrokenOff)
  <2>1. UNCHANGED <<collector, stored>>
    BY <1>4 DEF BeginPass, Answered, Refused, BrokenOff
  <2>2. PICK shows : shows = Shows
    OBVIOUS
  <2>3. \/ pass' = NoPass
        \/ pass' = [NoPass EXCEPT !.k = 1]
        \/ \E k, o : \/ pass' = [pass EXCEPT !.k = k]
                     \/ pass' = [pass EXCEPT !.k = k, !.others = o]
                     \/ pass' = [pass EXCEPT !.k = k, !.got = @ \cup shows, !.had = @ \cup shows]
                     \/ pass' = [pass EXCEPT !.k = k, !.had = @ \cup shows, !.failed = TRUE]
                     \/ \E part \in SUBSET shows :
                          pass' = [pass EXCEPT !.k = k, !.got = @ \cup part, !.had = @ \cup shows,
                                               !.cut = TRUE]
    <3>1. CASE BeginPass \/ Refused
      BY <2>2, <3>1 DEF BeginPass, Refused
    <3>2. CASE Answered
      BY <2>2, <3>2 DEF Answered
    <3>3. CASE BrokenOff
      BY <2>2, <3>3 DEF BrokenOff
    <3> QED
      BY <1>4, <3>1, <3>2, <3>3
  <2>4. \/ pass' = NoPass
        \/ pass' = [NoPass EXCEPT !.k = 1]
        \/ /\ IsPass(pass') /\ pass'.failed \in BOOLEAN /\ pass'.cut \in BOOLEAN
           /\ \/ pass'.got = pass.got /\ pass'.had = pass.had
                /\ pass'.failed = pass.failed /\ pass'.cut = pass.cut
              \/ pass'.got = pass.got \cup shows /\ pass'.had = pass.had \cup shows
                /\ pass'.failed = pass.failed /\ pass'.cut = pass.cut
              \/ pass'.got = pass.got /\ pass'.had = pass.had \cup shows /\ pass'.failed = TRUE
              \/ \E part \in SUBSET shows : /\ pass'.got = pass.got \cup part
                                            /\ pass'.had = pass.had \cup shows /\ pass'.cut = TRUE
    BY <2>3 DEF RosterInv, IsPass
  <2>5. RosterInv'
    <3>1. CASE pass' = NoPass \/ pass' = [NoPass EXCEPT !.k = 1]
      <4>1. /\ pass'.got = {} /\ pass'.had = {}
            /\ pass'.failed = FALSE /\ pass'.cut = FALSE
        BY <3>1 DEF NoPass
      <4>2. IsPass(pass')
        BY <3>1 DEF NoPass, IsPass
      <4> QED
        BY <2>1, <4>1, <4>2 DEF RosterInv, Received
    <3>2. CASE /\ IsPass(pass') /\ pass'.failed \in BOOLEAN /\ pass'.cut \in BOOLEAN
               /\ Received(pass')
      BY <2>1, <3>2 DEF RosterInv
    <3>3. ASSUME pass'.got = pass.got, pass'.had = pass.had,
                 pass'.failed = pass.failed, pass'.cut = pass.cut
          PROVE  Received(pass')
      BY <3>3 DEF RosterInv, Received
    <3>4. ASSUME pass'.got = pass.got \cup shows, pass'.had = pass.had \cup shows,
                 pass'.failed = pass.failed, pass'.cut = pass.cut
          PROVE  Received(pass')
      BY <3>4 DEF RosterInv, Received
    <3>5. ASSUME pass'.got = pass.got, pass'.had = pass.had \cup shows, pass'.failed = TRUE
          PROVE  Received(pass')
      BY <3>5 DEF RosterInv, Received
    <3>6. ASSUME NEW part \in SUBSET shows, pass'.got = pass.got \cup part,
                 pass'.had = pass.had \cup shows, pass'.cut = TRUE
          PROVE  Received(pass')
      BY <3>6 DEF RosterInv, Received
    <3> QED
      BY <2>4, <3>1, <3>2, <3>3, <3>4, <3>5, <3>6
  <2> QED
    BY <1>3, <1>4, <2>1, <2>5
<1>5. CASE ~Store /\ (Change \/ UNCHANGED collectVars)
  <2>1. UNCHANGED <<collector, stored, pass>>
    BY <1>5 DEF Change, collectVars
  <2>2. RosterInv'
    BY <2>1 DEF RosterInv, IsPass, Received
  <2> QED
    BY <1>3, <1>5, <2>1, <2>2
<1> QED
  BY <1>2, <1>3, <1>4, <1>5 DEF CollectNext

\* RosterTracksDevice holds: for every collector, roster and device, however
\* the device changes and its questions fail, the stored roster loses nothing
\* and keeps nothing without a reason.
THEOREM RosterKept == CollectSpec => RosterTracksDevice
<1>1. CollectInit => RosterInv
  BY DEF CollectInit, RosterInv, IsPass, Received, NoPass
<1>2. [LossStep]_collectVars <=>
        [stored' # stored => \A e \in pass.had : e \in stored \ stored' =>
           /\ pass.cut \/ pass.failed
           /\ pass.got # {} \/ collector.prune \in {EachTime, Exposed}]_collectVars
  BY DEF LossStep
<1>3. [LeaveStep]_collectVars <=>
        [Store /\ ~pass.failed /\ ~pass.cut =>
           \/ stored' = pass.had
           \/ collector.prune = NotAtAll /\ pass.had \subseteq stored'
           \/ /\ collector.prune \in {IfSeen, Exposed}
              /\ pass.had = {} /\ stored' = stored]_collectVars
  BY DEF LeaveStep
<1> QED
  BY <1>1, <1>2, <1>3, RosterStep, PTL
     DEF CollectSpec, RosterTracksDevice, LossExplained, LeaversForgotten


(* ---- the child tables: profiles --------------------------------------- *)
PruneRules == {Seen, Always, Never, First, Ahead}
SoundFeed(f) == /\ f.prune \in PruneRules
                /\ f.table = "device_roles" => f.prune \in {Never, Ahead}

\* What a writer's feeds have in common.
LEMMA FeedFields ==
  ASSUME NEW src, NEW prune, NEW tables, NEW f \in Feeds(src, prune, tables)
  PROVE  /\ f.prune = prune /\ f.table \in tables
         /\ f = [x \in {"src", "prune", "stops", "table"} |-> f[x]]
  BY DEF Feeds

\* A writer that prunes does not write the roles, or clears them first.
LEMMA FeedsSound ==
  ASSUME NEW src, NEW tables, NEW prune \in PruneRules,
         "device_roles" \in tables => prune \in {Never, Ahead}
  PROVE  \A f \in Feeds(src, prune, tables) : SoundFeed(f)
  BY FeedFields DEF SoundFeed

\* Every writer keeps to the five ways of pruning, and the table of roles is
\* never pruned by time.
LEMMA AllFeedsSound == \A f \in AllFeeds : SoundFeed(f)
<1> DEFINE Good(F) == \A f \in F : SoundFeed(f)
<1>1. /\ Seen \in PruneRules /\ Always \in PruneRules /\ Never \in PruneRules
      /\ First \in PruneRules /\ Ahead \in PruneRules
  BY DEF PruneRules
<1>2. ASSUME NEW src, NEW tables, "device_roles" \notin tables
      PROVE  /\ Good(Feeds(src, Seen, tables)) /\ Good(Feeds(src, Always, tables))
             /\ Good(Feeds(src, First, tables))
  BY <1>1, <1>2, FeedsSound, Zenon
<1>3. ASSUME NEW src, NEW tables
      PROVE  Good(Feeds(src, Never, tables)) /\ Good(Feeds(src, Ahead, tables))
  BY <1>1, FeedsSound
<1>4. ASSUME NEW F, NEW G, Good(F), Good(G) PROVE Good(F \cup G)
  BY <1>4
<1> HIDE DEF Good
<1>5. Good(applyFacts) /\ Good(applyWLAN)
  <2>1. Good(Feeds("snmp", Seen, {"interfaces", "vlans", "port_vlans", "mac_addresses",
                                  "arp_entries", "neighbors", "server_storage",
                                  "printer_supplies"}))
    BY <1>2
  <2>2. /\ Good(Feeds("api", Always, {"access_points", "wireless_ssids", "wireless_clients",
                                      "wireless_radios"}))
        /\ Good(Feeds("api", First, {"wireless_events"}))
    BY <1>2
  <2>3. /\ Good(Feeds("snmp", Never, {"device_facts"}))
        /\ Good(Feeds(Unnamed, Never, {"access_points", "wireless_ssids", "wireless_clients",
                                       "wireless_radios"}))
        /\ Good(Feeds("api", Never, {"wlan_controller_info"}))
    BY <1>3
  <2>4. Good(applyFacts)
    BY <1>4, <2>1, <2>3 DEF applyFacts
  <2>5. Good(applyWLAN)
    BY <1>4, <2>2, <2>3 DEF applyWLAN
  <2> QED
    BY <2>4, <2>5
<1>6. Good(applyOther) /\ Good(ApplyRoles) /\ Good(applyBMC) /\ Good(applyFirewall)
  BY <1>2, <1>3, <1>4 DEF applyOther, ApplyRoles, applyBMC, applyFirewall
<1>7. Good(writeVirtualNeighbors) /\ Good(writeVirtualFacts) /\ Good(writeVirtualUPS)
  BY <1>2, <1>3 DEF writeVirtualNeighbors, writeVirtualFacts, writeVirtualUPS
<1>8. Good(writeVirtualSwitch)
  <2>1. Good(writeVirtualPorts) /\ Good(writeVirtualVlans) /\ Good(writeVirtualMACs)
    BY <1>2 DEF writeVirtualPorts, writeVirtualVlans, writeVirtualMACs
  <2> QED
    BY <1>4, <1>7, <2>1, Zenon DEF writeVirtualSwitch
<1>9. Good(writeVirtualFirewall) /\ Good(writeVirtualServer) /\ Good(writeVirtualWorkstation)
  <2>1. /\ Good(Feeds("manual", Always, {"interfaces", "vpn_tunnels", "ha_members", "licenses"}))
        /\ Good(Feeds("manual", Always, {"interfaces", "server_storage"}))
        /\ Good(Feeds("manual", Always, {"os_nics", "os_disks", "os_software", "os_roles"}))
    BY <1>2
  <2>2. /\ Good(Feeds("manual", Never, {"firewall_status"}))
        /\ Good(Feeds("manual", Ahead, {"device_roles"}))
        /\ Good(Feeds("manual", Never, {"os_inventory"}))
    BY <1>3
  <2> QED
    BY <1>4, <1>7, <2>1, <2>2
       DEF writeVirtualFirewall, writeVirtualServer, writeVirtualWorkstation
<1>10. Good(writeVirtualWireless) /\ Good(writeVirtualGeneric)
  BY <1>2, <1>3, <1>4, <1>7 DEF writeVirtualWireless, writeVirtualGeneric
<1>11. Good(writeVirtualConfig)
  BY <1>4, <1>7, <1>8, <1>9, <1>10, Zenon DEF writeVirtualConfig
<1>12. Good(Persist)
  <2>1. SUFFICES ASSUME NEW m,
                 NEW f \in Feeds(baseSource(m), Always,
                                 {"os_disks", "os_nics", "os_services", "os_processes",
                                  "os_software", "os_roles"})
                           \cup Feeds(baseSource(m), Never, {"os_inventory"})
                 PROVE  SoundFeed([f EXCEPT !.stops = TRUE])
    BY Zenon DEF Persist, Good
  <2>2. PICK src : src = baseSource(m)
    OBVIOUS
  <2>3. SoundFeed(f)
    <3>1. Good(Feeds(src, Always, {"os_disks", "os_nics", "os_services", "os_processes",
                                   "os_software", "os_roles"}))
      BY <1>2
    <3>2. Good(Feeds(src, Never, {"os_inventory"}))
      BY <1>3
    <3> QED
      BY <2>2, <3>1, <3>2, Zenon DEF Good
  <2>4. f = [x \in {"src", "prune", "stops", "table"} |-> f[x]]
    <3>1. ASSUME NEW prune, NEW tables, f \in Feeds(src, prune, tables)
          PROVE  f = [x \in {"src", "prune", "stops", "table"} |-> f[x]]
      BY <3>1, FeedFields
    <3> QED
      BY <2>1, <2>2, <3>1, Zenon
  <2> QED
    BY <2>3, <2>4 DEF SoundFeed
<1> QED
  BY <1>4, <1>5, <1>6, <1>11, <1>12, Zenon DEF AllFeeds, Good

\* Only the roles are inserted with DO NOTHING.
LEMMA OnlyRolesKept ==
  \A s \in Statements : Nothing \in s.conflicts => s.table = "device_roles"
  BY SMTT(60) DEF Statements, Stamped, Clocked, Nothing, Update, Insert,
     UpsertInterface, UpsertVlan, UpsertPortVlan, UpsertMAC, UpsertARP, UpsertNeighbor,
     UpsertServerStorage, UpsertVpnTunnel, UpsertHAMember, UpsertLicense, UpsertFirewallStatus,
     UpsertBMCInfo, UpsertBMCSensor, UpsertPrinterSupply, UpsertUPSStatus, UpsertPbxPhone,
     UpsertOSDisk, UpsertOSNic, UpsertOSService, UpsertOSProcess, UpsertOSSoftware, UpsertOSRole,
     UpsertOSInventory, UpsertDeviceFact, UpsertVM, UpsertCameraInfo, UpsertWLANControllerInfo,
     UpsertAccessPoint, UpsertWirelessSSID, UpsertWirelessClient, UpsertWirelessRadio,
     InsertWirelessEvent, AddDeviceRole

\* A table's feeds prune in one of five ways, and never by time where a
\* conflicting row is left alone.
LEMMA ProfilesSound ==
  ASSUME NEW pr \in Profiles, NEW f \in pr.feeds
  PROVE  /\ f.prune \in PruneRules
         /\ pr.conflict = Nothing => f.prune \in {Never, Ahead}
<1>1. PICK s \in Statements : \E c \in s.conflicts :
        pr = [now |-> s.now, conflict |-> c,
              feeds |-> {[src |-> g.src, prune |-> g.prune, stops |-> g.stops] :
                           g \in {h \in AllFeeds : h.table = s.table}}]
  BY Zenon DEF Profiles
<1>2. PICK c \in s.conflicts :
      /\ pr.conflict = c
      /\ pr.feeds = {[src |-> g.src, prune |-> g.prune, stops |-> g.stops] :
                       g \in {h \in AllFeeds : h.table = s.table}}
  BY <1>1
<1>3. PICK g \in AllFeeds : g.table = s.table /\ f.prune = g.prune
  BY <1>2
<1>4. SoundFeed(g)
  BY AllFeedsSound
<1>5. c = Nothing => g.table = "device_roles"
  BY <1>3, OnlyRolesKept
<1> QED
  BY <1>2, <1>3, <1>4, <1>5 DEF SoundFeed

(* ---- the child tables: polls and their rows --------------------------- *)
IsPoll(q) == q = [x \in {"at", "feed", "time", "report", "todo", "clean"} |-> q[x]]

PollTypes ==
  /\ profile \in Profiles /\ clock \in Nat /\ lag \in Nat /\ lag <= clock
  /\ IsFiniteSet(rows) /\ poll = [p \in Polls |-> poll[p]]
  /\ \A p \in Polls :
       /\ IsPoll(poll[p]) /\ poll[p].clean \in BOOLEAN
       /\ poll[p].time \in Nat /\ poll[p].time <= clock
       /\ poll[p].todo \subseteq poll[p].report
       /\ Running(p) => poll[p].feed \in profile.feeds
       /\ poll[p].at = "clear" => poll[p].todo = poll[p].report

\* A row was written by a poll that has begun, for a key it saw and has dealt
\* with, under its source and, unless the database's clock is late, not before
\* the poll's own time; and a poll writes a key once.
Accounted(r) ==
  /\ r.by \in Polls /\ r.stamp \in Nat /\ r.stamp <= clock
  /\ poll[r.by].at # "unborn" /\ r.src = poll[r.by].feed.src
  /\ r.key \in poll[r.by].report \ poll[r.by].todo
  /\ ~LateStamps => poll[r.by].time <= r.stamp
TableInv == /\ \A r \in rows : Accounted(r)
           /\ \A r, s \in rows : r.by = s.by /\ r.key = s.key => r = s

\* A running poll that is still clean: nobody else runs, the rows of others are
\* older than it, it has a row for each key it dealt with, and what it clears
\* first is cleared.
Older(p) == \A r \in rows : r.by # p => r.stamp < poll[p].time
Dealt(p) == \A k \in poll[p].report \ poll[p].todo :
              \E r \in rows : r.key = k /\ (profile.conflict = Nothing \/ r.by = p)
Cleared(p) ==
  /\ poll[p].at = "upsert" /\ poll[p].feed.prune \in {First, Ahead}
  /\ poll[p].feed.prune = Ahead \/ poll[p].report # {}
  => \A r \in rows : r.src = poll[p].feed.src => r.by = p
CleanInv ==
  \A p \in Polls : Running(p) /\ poll[p].clean =>
    /\ \A q \in Polls : Running(q) => q = p
    /\ Older(p) /\ Dealt(p) /\ Cleared(p)

SnapInv == PollTypes /\ TableInv /\ CleanInv

\* A step of poll p alone: at what stage, with what left to do, and whether
\* still clean it goes on.
Moved(p, at, todo, clean) ==
  /\ poll' = [q \in Polls |-> poll'[q]] /\ \A q \in Polls \ {p} : poll'[q] = poll[q]
  /\ IsPoll(poll'[p]) /\ poll'[p].at = at /\ poll'[p].todo = todo /\ poll'[p].clean = clean
  /\ poll'[p].feed = poll[p].feed /\ poll'[p].time = poll[p].time
  /\ poll'[p].report = poll[p].report
  /\ UNCHANGED <<profile, clock, lag>>

LEMMA PollMoves ==
  ASSUME PollTypes, NEW p \in Polls, NEW k
  PROVE  /\ UpsertRow(p, k) => Moved(p, "upsert", poll[p].todo \ {k}, poll[p].clean)
         /\ UpsertFails(p, k) =>
              \E at \in {"upsert", "cut"} : Moved(p, at, poll[p].todo \ {k}, FALSE)
         /\ DeleteStale(p) => Moved(p, "done", poll[p].todo, poll[p].clean)
         /\ DeleteForSource(p) => Moved(p, "upsert", poll[p].todo, poll[p].clean)
         /\ PollCut(p) => Moved(p, "cut", poll[p].todo, FALSE)
<1>0. IsPoll(poll[p]) /\ poll = [q \in Polls |-> poll[q]]
  BY DEF PollTypes
<1>1. ASSUME UpsertRow(p, k) PROVE Moved(p, "upsert", poll[p].todo \ {k}, poll[p].clean)
  BY <1>0, <1>1 DEF UpsertRow, Moved, IsPoll
<1>2. ASSUME UpsertFails(p, k)
      PROVE  \E at \in {"upsert", "cut"} : Moved(p, at, poll[p].todo \ {k}, FALSE)
  <2>1. PICK at \in {"upsert", "cut"} :
          poll' = [poll EXCEPT ![p].todo = @ \ {k}, ![p].clean = FALSE, ![p].at = at]
    BY <1>0, <1>2 DEF UpsertFails
  <2>2. UNCHANGED <<profile, clock, lag>>
    BY <1>2 DEF UpsertFails
  <2>3. poll'[p] = [poll[p] EXCEPT !.todo = @ \ {k}, !.clean = FALSE, !.at = at]
    BY <1>0, <2>1 DEF IsPoll
  <2>4. poll' = [q \in Polls |-> poll'[q]] /\ \A q \in Polls \ {p} : poll'[q] = poll[q]
    BY <1>0, <2>1
  <2>5. IsPoll(poll'[p])
    BY <1>0, <2>3 DEF IsPoll
  <2> QED
    BY <1>0, <2>2, <2>3, <2>4, <2>5 DEF Moved, IsPoll
<1>3. ASSUME DeleteStale(p) PROVE Moved(p, "done", poll[p].todo, poll[p].clean)
  BY <1>0, <1>3 DEF DeleteStale, Moved, IsPoll
<1>4. ASSUME DeleteForSource(p) PROVE Moved(p, "upsert", poll[p].todo, poll[p].clean)
  BY <1>0, <1>4 DEF DeleteForSource, Moved, IsPoll
<1>5. ASSUME PollCut(p) PROVE Moved(p, "cut", poll[p].todo, FALSE)
  BY <1>0, <1>5 DEF PollCut, Moved, IsPoll
<1> QED
  BY <1>1, <1>2, <1>3, <1>4, <1>5

\* What Begin does to the polls.
LEMMA PollBegins ==
  ASSUME PollTypes, NEW p \in Polls, NEW f \in profile.feeds, NEW report, Begin(p, f, report)
  PROVE  /\ poll' = [q \in Polls |-> poll'[q]]
         /\ IsPoll(poll'[p]) /\ poll'[p].feed = f /\ poll'[p].report = report
         /\ poll'[p].at = IF f.prune \in {First, Ahead} THEN "clear" ELSE "upsert"
         /\ poll'[p].todo = report /\ poll'[p].time = clock + 1 /\ poll'[p].clean \in BOOLEAN
         /\ poll'[p].clean => \A q \in Polls : ~Running(q)
         /\ \A q \in Polls \ {p} :
              /\ IsPoll(poll'[q]) /\ poll'[q].at = poll[q].at /\ poll'[q].feed = poll[q].feed
              /\ poll'[q].time = poll[q].time /\ poll'[q].report = poll[q].report
              /\ poll'[q].todo = poll[q].todo /\ poll'[q].clean \in BOOLEAN
              /\ poll'[q].clean => ~Running(q)
<1>1. PICK alone \in BOOLEAN : alone = (~\E r \in Polls : Running(r))
  OBVIOUS
<1>2. PICK stage : stage = IF f.prune \in {First, Ahead} THEN "clear" ELSE "upsert"
  OBVIOUS
<1>3. poll' = [q \in Polls |->
        IF q = p THEN [at |-> stage, feed |-> f, time |-> clock + 1, report |-> report,
                       todo |-> report, clean |-> alone]
        ELSE [poll[q] EXCEPT !.clean = @ /\ ~Running(q)]]
  BY <1>1, <1>2 DEF Begin
<1>4. poll'[p] = [at |-> stage, feed |-> f, time |-> clock + 1, report |-> report,
                  todo |-> report, clean |-> alone]
  BY <1>3
<1>5. IsPoll(poll'[p])
  BY <1>4 DEF IsPoll
<1>6. ASSUME NEW q \in Polls \ {p}
      PROVE  /\ IsPoll(poll'[q]) /\ poll'[q].at = poll[q].at /\ poll'[q].feed = poll[q].feed
             /\ poll'[q].time = poll[q].time /\ poll'[q].report = poll[q].report
             /\ poll'[q].todo = poll[q].todo /\ poll'[q].clean \in BOOLEAN
             /\ poll'[q].clean => ~Running(q)
  <2>1. PICK c \in BOOLEAN : c = (poll[q].clean /\ ~Running(q))
    OBVIOUS
  <2>2. poll'[q] = [poll[q] EXCEPT !.clean = c]
    BY <1>3, <2>1
  <2>3. c => ~Running(q)
    BY <2>1
  <2>4. IsPoll(poll[q])
    BY DEF PollTypes
  <2> QED
    BY <2>2, <2>3, <2>4 DEF IsPoll
<1>7. poll'[p].clean => \A q \in Polls : ~Running(q)
  <2>1. poll'[p].clean = alone
    BY <1>4
  <2> QED
    BY <1>1, <2>1
<1> QED
  BY <1>2, <1>3, <1>4, <1>5, <1>6, <1>7

\* The rows that are left by a step that only deletes some.
LEMMA FewerRows ==
  ASSUME SnapInv, NEW p \in Polls, NEW at, NEW todo, NEW clean, Moved(p, at, todo, clean),
         poll[p].at # "unborn", at # "unborn", todo \subseteq poll[p].todo, rows' \subseteq rows
  PROVE  TableInv'
<1>1. \A r \in rows' : Accounted(r)'
  BY DEF SnapInv, TableInv, Accounted, Moved, LateStamps
<1> QED
  BY <1>1 DEF SnapInv, TableInv

LEMMA TypesKept ==
  ASSUME SnapInv, NEW p \in Polls, NEW at, NEW todo, NEW clean \in BOOLEAN,
         Moved(p, at, todo, clean), todo \subseteq poll[p].todo,
         at \in {"upsert", "cut", "done"}, at = "upsert" => Running(p), IsFiniteSet(rows')
  PROVE  PollTypes'
<1>1. ASSUME NEW q \in Polls
      PROVE  /\ IsPoll(poll'[q]) /\ poll'[q].clean \in BOOLEAN
             /\ poll'[q].time \in Nat /\ poll'[q].time <= clock' /\ poll'[q].todo \subseteq poll'[q].report
             /\ Running(q)' => poll'[q].feed \in profile'.feeds
             /\ poll'[q].at = "clear" => poll'[q].todo = poll'[q].report
  <2>1. CASE q = p
    BY <2>1 DEF SnapInv, PollTypes, Moved, Running
  <2>2. CASE q # p
    BY <2>2 DEF SnapInv, PollTypes, Moved, Running
  <2> QED
    BY <2>1, <2>2
<1> QED
  BY <1>1 DEF SnapInv, PollTypes, Moved

\* A poll that stops, or is no longer clean, leaves nothing to show for itself,
\* and a clean one among the others would be running alone.
LEMMA NothingLeftToShow ==
  ASSUME SnapInv, NEW p \in Polls, NEW at, NEW todo, NEW clean, Moved(p, at, todo, clean),
         Running(p), at \in {"cut", "done"} \/ clean = FALSE
  PROVE  CleanInv'
<1>1. ASSUME NEW q \in Polls, Running(q)', poll'[q].clean PROVE FALSE
  <2>1. q # p
    BY <1>1 DEF Moved, Running
  <2>2. Running(q) /\ poll[q].clean
    BY <1>1, <2>1 DEF Moved, Running
  <2> QED
    BY <2>1, <2>2 DEF SnapInv, CleanInv
<1> QED
  BY <1>1 DEF CleanInv

\* The steps that insert nothing.
LEMMA EndsKept ==
  ASSUME SnapInv, NEW p \in Polls, NEW k,
         UpsertFails(p, k) \/ DeleteStale(p) \/ PollCut(p)
  PROVE  SnapInv'
<1>1. Running(p) /\ poll[p].at # "unborn" /\ rows' \subseteq rows /\ IsFiniteSet(rows')
  <2>1. Running(p) /\ poll[p].at # "unborn" /\ rows' \subseteq rows
    BY DEF UpsertFails, DeleteStale, PollCut, Running
  <2> QED
    BY <2>1, FS_Subset DEF SnapInv, PollTypes
<1>2. PICK at \in {"upsert", "cut", "done"}, todo \in SUBSET poll[p].todo, clean \in BOOLEAN :
        /\ Moved(p, at, todo, clean)
        /\ at \in {"cut", "done"} \/ clean = FALSE
  BY PollMoves DEF SnapInv, PollTypes
<1>3. PollTypes'
  BY <1>1, <1>2, TypesKept
<1>4. TableInv'
  BY <1>1, <1>2, FewerRows
<1>5. CleanInv'
  BY <1>1, <1>2, NothingLeftToShow
<1> QED
  BY <1>3, <1>4, <1>5 DEF SnapInv

\* The rows of the source go first.
LEMMA ClearKept ==
  ASSUME SnapInv, NEW p \in Polls, DeleteForSource(p)
  PROVE  SnapInv'
<1>1. /\ Running(p) /\ poll[p].at = "clear" /\ rows' \subseteq rows
      /\ ~(poll[p].feed.prune = First /\ poll[p].report = {}) =>
           \A r \in rows' : r.src # poll[p].feed.src
  BY DEF DeleteForSource, Running
<1>2. Moved(p, "upsert", poll[p].todo, poll[p].clean) /\ poll[p].todo = poll[p].report
  BY <1>1, PollMoves DEF SnapInv, PollTypes
<1>3. IsFiniteSet(rows')
  BY <1>1, FS_Subset DEF SnapInv, PollTypes
<1>4. PollTypes'
  <2>1. poll[p].clean \in BOOLEAN
    BY DEF SnapInv, PollTypes
  <2> QED
    BY <1>1, <1>2, <1>3, <2>1, TypesKept
<1>5. TableInv'
  BY <1>1, <1>2, FewerRows
<1>6. ASSUME NEW q \in Polls, Running(q)', poll'[q].clean
      PROVE  /\ \A s \in Polls : Running(s)' => s = q
             /\ Older(q)' /\ Dealt(q)' /\ Cleared(q)'
  <2>1. q = p /\ poll[p].clean
    BY <1>1, <1>2, <1>6 DEF Moved, Running, SnapInv, CleanInv
  <2>2. \A s \in Polls : Running(s)' => s = q
    BY <1>1, <1>2, <2>1 DEF Moved, Running, SnapInv, CleanInv
  <2>3. Older(q)'
    <3>1. Older(p)
      BY <1>1, <2>1 DEF SnapInv, CleanInv
    <3> QED
      BY <1>1, <1>2, <2>1, <3>1 DEF Older, Moved
  <2>4. Dealt(q)'
    BY <1>2, <2>1 DEF Dealt, Moved
  <2>5. Cleared(q)'
    BY <1>1, <1>2, <2>1 DEF Cleared, Moved, First, Ahead
  <2> QED
    BY <2>2, <2>3, <2>4, <2>5
<1> QED
  BY <1>4, <1>5, <1>6 DEF SnapInv, CleanInv

\* A poll begins.
LEMMA BeginKept ==
  ASSUME SnapInv, NEW p \in Polls, NEW f \in profile.feeds, NEW report, Begin(p, f, report)
  PROVE  SnapInv'
<1>0. PollTypes /\ UNCHANGED <<profile, rows, lag>> /\ clock' = clock + 1 /\ poll[p].at = "unborn"
  BY DEF SnapInv, Begin
<1>1. /\ poll' = [q \in Polls |-> poll'[q]]
      /\ IsPoll(poll'[p]) /\ poll'[p].feed = f /\ poll'[p].report = report
      /\ poll'[p].at = IF f.prune \in {First, Ahead} THEN "clear" ELSE "upsert"
      /\ poll'[p].todo = report /\ poll'[p].time = clock + 1 /\ poll'[p].clean \in BOOLEAN
      /\ poll'[p].clean => \A q \in Polls : ~Running(q)
  BY <1>0, PollBegins
<1>2. \A q \in Polls \ {p} :
         /\ IsPoll(poll'[q]) /\ poll'[q].at = poll[q].at /\ poll'[q].feed = poll[q].feed
         /\ poll'[q].time = poll[q].time /\ poll'[q].report = poll[q].report
         /\ poll'[q].todo = poll[q].todo /\ poll'[q].clean \in BOOLEAN
         /\ poll'[q].clean => ~Running(q)
  BY <1>0, PollBegins
<1>3. PollTypes'
  <2>1. clock' \in Nat /\ lag' \in Nat /\ lag' <= clock'
    BY <1>0 DEF PollTypes
  <2>2. ASSUME NEW q \in Polls
        PROVE  /\ IsPoll(poll'[q]) /\ poll'[q].clean \in BOOLEAN
               /\ poll'[q].time \in Nat /\ poll'[q].time <= clock' /\ poll'[q].todo \subseteq poll'[q].report
               /\ Running(q)' => poll'[q].feed \in profile'.feeds
               /\ poll'[q].at = "clear" => poll'[q].todo = poll'[q].report
    <3>1. CASE q = p
      BY <1>0, <1>1, <3>1 DEF PollTypes
    <3>2. CASE q # p
      BY <1>0, <1>2, <3>2 DEF PollTypes, Running
    <3> QED
      BY <3>1, <3>2
  <2> QED
    BY <1>0, <1>1, <2>1, <2>2 DEF PollTypes
<1>4. TableInv'
  <2>1. ASSUME NEW r \in rows PROVE Accounted(r)'
    <3>1. Accounted(r)
      BY DEF SnapInv, TableInv
    <3>2. r.by \in Polls \ {p}
      BY <1>0, <3>1 DEF Accounted
    <3>3. PICK stamp \in Nat : stamp = r.stamp
      BY <3>1 DEF Accounted
    <3>4. stamp <= clock'
      BY <1>0, <3>1, <3>3 DEF Accounted, PollTypes
    <3> QED
      BY <1>0, <1>2, <3>1, <3>2, <3>3, <3>4 DEF Accounted, LateStamps
  <2> QED
    BY <1>0, <2>1 DEF SnapInv, TableInv
<1>5. ASSUME NEW q \in Polls, Running(q)', poll'[q].clean
      PROVE  /\ \A s \in Polls : Running(s)' => s = q
             /\ Older(q)' /\ Dealt(q)' /\ Cleared(q)'
  <2>1. q = p
    BY <1>2, <1>5 DEF Running
  <2>2. \A s \in Polls : Running(s)' => s = q
    BY <1>1, <1>2, <1>5, <2>1 DEF Running
  <2>3. Older(q)'
    <3>1. ASSUME NEW r \in rows PROVE r.stamp < clock + 1
      <4>1. r.stamp \in Nat /\ r.stamp <= clock /\ clock \in Nat
        BY DEF SnapInv, TableInv, Accounted, PollTypes
      <4> QED
        BY <4>1
    <3> QED
      BY <1>0, <1>1, <2>1, <3>1 DEF Older
  <2>4. Dealt(q)'
    BY <1>1, <2>1 DEF Dealt
  <2>5. Cleared(q)'
    BY <1>1, <2>1 DEF Cleared
  <2> QED
    BY <2>2, <2>3, <2>4, <2>5
<1> QED
  BY <1>3, <1>4, <1>5 DEF SnapInv, CleanInv

\* A row is written.
LEMMA UpsertKept ==
  ASSUME SnapInv, NEW p \in Polls, NEW k, UpsertRow(p, k)
  PROVE  SnapInv'
<1>1. /\ Running(p) /\ poll[p].at = "upsert" /\ k \in poll[p].todo /\ k \in poll[p].report
      /\ Moved(p, "upsert", poll[p].todo \ {k}, poll[p].clean)
  BY PollMoves DEF SnapInv, PollTypes, UpsertRow, Running
<1>2. PICK stamp \in Nat : /\ Row(p, k).stamp = stamp /\ stamp <= clock
                           /\ ~LateStamps => poll[p].time <= stamp
  <2>1. clock \in Nat /\ lag \in Nat /\ lag <= clock /\ poll[p].time \in Nat /\ poll[p].time <= clock
    BY DEF SnapInv, PollTypes
  <2>2. CASE profile.now
    <3>1. Row(p, k).stamp = clock - lag
      BY <2>2 DEF Row
    <3> QED
      BY <2>1, <2>2, <3>1 DEF LateStamps
  <2>3. CASE ~profile.now
    <3>1. Row(p, k).stamp = poll[p].time
      BY <2>3 DEF Row
    <3> QED
      BY <2>1, <3>1
  <2> QED
    BY <2>2, <2>3
<1>3. Row(p, k).key = k /\ Row(p, k).by = p /\ Row(p, k).src = poll[p].feed.src
  BY DEF Row
<1>4. PICK new : new = Row(p, k)
  OBVIOUS
<1>5. \/ rows' = rows /\ profile.conflict = Nothing /\ \E r \in rows : r.key = k
      \/ /\ new \in rows' /\ \A r \in rows' : r = new \/ r \in rows
         /\ \A r \in rows : r.key # k => r \in rows'
  BY <1>4 DEF UpsertRow
<1>6. IsFiniteSet(rows')
  <2>1. IsFiniteSet(rows)
    BY DEF SnapInv, PollTypes
  <2>2. IsFiniteSet(rows \cup {new})
    BY <2>1, FS_AddElement
  <2>3. rows' \subseteq rows \cup {new}
    BY <1>5
  <2> QED
    BY <2>2, <2>3, FS_Subset
<1>7. PollTypes'
  <2>1. poll[p].clean \in BOOLEAN
    BY DEF SnapInv, PollTypes
  <2> QED
    BY <1>1, <1>6, <2>1, TypesKept
<1>8. TableInv'
  <2>1. ASSUME NEW r \in rows PROVE Accounted(r)' /\ ~(r.by = p /\ r.key = k)
    <3>1. Accounted(r)
      BY DEF SnapInv, TableInv
    <3>2. ~(r.by = p /\ r.key = k)
      BY <1>1, <3>1 DEF Accounted
    <3>3. CASE r.by = p
      BY <1>1, <3>1, <3>2, <3>3 DEF Accounted, Moved, LateStamps
    <3>4. CASE r.by # p
      BY <1>1, <3>1, <3>4 DEF Accounted, Moved, LateStamps
    <3> QED
      BY <3>2, <3>3, <3>4
  <2>2. Accounted(new)'
    BY <1>1, <1>2, <1>3, <1>4 DEF Accounted, Moved, LateStamps
  <2>3. \A r \in rows' : Accounted(r)'
    BY <1>5, <2>1, <2>2
  <2>4. \A r, s \in rows' : r.by = s.by /\ r.key = s.key => r = s
    BY <1>3, <1>4, <1>5, <2>1 DEF SnapInv, TableInv
  <2> QED
    BY <2>3, <2>4 DEF TableInv
<1>9. ASSUME NEW q \in Polls, Running(q)', poll'[q].clean
      PROVE  /\ \A s \in Polls : Running(s)' => s = q
             /\ Older(q)' /\ Dealt(q)' /\ Cleared(q)'
  <2>1. q = p /\ poll[p].clean
    BY <1>1, <1>9 DEF Moved, Running, SnapInv, CleanInv
  <2>2. Older(p) /\ Dealt(p) /\ Cleared(p)
    BY <1>1, <2>1 DEF SnapInv, CleanInv
  <2>3. \A s \in Polls : Running(s)' => s = q
    BY <1>1, <2>1 DEF Moved, Running, SnapInv, CleanInv
  <2>4. Older(q)'
    BY <1>1, <1>3, <1>4, <1>5, <2>1, <2>2 DEF Older, Moved
  <2>5. Dealt(q)'
    <3>1. SUFFICES ASSUME NEW d \in poll[p].report \ (poll[p].todo \ {k})
                   PROVE  \E r \in rows' : r.key = d /\ (profile.conflict = Nothing \/ r.by = p)
      BY <1>1, <2>1 DEF Dealt, Moved
    <3>2. CASE d = k
      BY <1>3, <1>4, <1>5, <3>2
    <3>3. CASE d # k
      BY <1>5, <2>2, <3>3 DEF Dealt
    <3> QED
      BY <3>2, <3>3
  <2>6. Cleared(q)'
    BY <1>1, <1>3, <1>4, <1>5, <2>1, <2>2 DEF Cleared, Moved
  <2> QED
    BY <2>3, <2>4, <2>5, <2>6
<1> QED
  BY <1>7, <1>8, <1>9 DEF SnapInv, CleanInv

\* The device goes, with its rows.
LEMMA GoneKept == ASSUME SnapInv, DeviceDeleted PROVE SnapInv'
<1>1. rows' = {} /\ UNCHANGED <<profile, clock, lag>>
  BY DEF DeviceDeleted
<1>2. ASSUME NEW p \in Polls
      PROVE  /\ IsPoll(poll'[p]) /\ poll'[p].at = poll[p].at /\ poll'[p].feed = poll[p].feed
             /\ poll'[p].time = poll[p].time /\ poll'[p].report = poll[p].report
             /\ poll'[p].todo = poll[p].todo /\ poll'[p].clean = FALSE
  BY DEF DeviceDeleted, SnapInv, PollTypes, IsPoll
<1>3. poll' = [p \in Polls |-> poll'[p]]
  BY DEF DeviceDeleted
<1>4. PollTypes'
  BY <1>1, <1>2, <1>3, FS_EmptySet DEF SnapInv, PollTypes, Running
<1>5. TableInv' /\ CleanInv'
  BY <1>1, <1>2 DEF TableInv, CleanInv
<1> QED
  BY <1>4, <1>5 DEF SnapInv

LEMMA SnapStep == SnapInv /\ [SnapshotNext]_snapshotVars => SnapInv'
<1> SUFFICES ASSUME SnapInv, [SnapshotNext]_snapshotVars PROVE SnapInv'
  OBVIOUS
<1>1. CASE UNCHANGED snapshotVars
  BY <1>1 DEF snapshotVars, SnapInv, PollTypes, TableInv, Accounted, CleanInv, Older, Dealt,
              Cleared, Running, LateStamps
<1>2. CASE SnapshotNext
  BY <1>2, BeginKept, UpsertKept, EndsKept, ClearKept, GoneKept DEF SnapshotNext
<1> QED
  BY <1>1, <1>2

LEMMA SnapStart == SnapshotInit => SnapInv
<1> SUFFICES ASSUME SnapshotInit PROVE SnapInv
  OBVIOUS
<1>1. PollTypes
  <2>1. clock \in Nat /\ lag \in Nat /\ lag <= clock
    BY SnapshotsAssumption DEF SnapshotInit
  <2>2. ASSUME NEW p \in Polls
        PROVE  /\ IsPoll(poll[p]) /\ poll[p].clean \in BOOLEAN /\ ~Running(p)
               /\ poll[p].time = 0 /\ poll[p].todo = {} /\ poll[p].at = "unborn"
    BY DEF SnapshotInit, IsPoll, Unborn, Running
  <2>3. profile \in Profiles /\ IsFiniteSet(rows) /\ poll = [p \in Polls |-> poll[p]]
    BY FS_EmptySet DEF SnapshotInit
  <2> QED
    BY <2>1, <2>2, <2>3 DEF PollTypes
<1>2. TableInv /\ CleanInv
  BY DEF SnapshotInit, TableInv, CleanInv, Unborn, Running
<1> QED
  BY <1>1, <1>2 DEF SnapInv

\* A poll ends normally in one way only.
LEMMA EndsByPruning ==
  ASSUME SnapInv, [SnapshotNext]_snapshotVars, NEW p \in Polls,
         poll[p].at = "upsert", poll'[p].at = "done"
  PROVE  DeleteStale(p)
<1>1. ~UNCHANGED snapshotVars
  BY DEF snapshotVars
<1>2. ~DeviceDeleted
  BY DEF DeviceDeleted, SnapInv, PollTypes, IsPoll
<1>3. PICK q \in Polls :
        \/ \E f \in profile.feeds, r \in SUBSET Keys : Begin(q, f, r)
        \/ \E k \in Keys : UpsertRow(q, k) \/ UpsertFails(q, k)
        \/ DeleteStale(q) \/ DeleteForSource(q) \/ PollCut(q)
  BY <1>1, <1>2 DEF SnapshotNext
<1>4. ASSUME NEW f \in profile.feeds, NEW r, Begin(q, f, r) PROVE FALSE
  <2>1. CASE q = p
    BY <1>4, <2>1 DEF Begin
  <2>2. CASE q # p
    BY <1>4, <2>2, PollBegins DEF SnapInv
  <2> QED
    BY <2>1, <2>2
<1>5. ASSUME NEW at, NEW todo, NEW clean, at # "done" PROVE ~Moved(q, at, todo, clean)
  BY <1>5 DEF Moved
<1>6. ASSUME NEW k \in Keys, UpsertRow(q, k) \/ UpsertFails(q, k) PROVE FALSE
  BY <1>5, <1>6, PollMoves DEF SnapInv
<1>7. ~DeleteForSource(q) /\ ~PollCut(q)
  BY <1>5, PollMoves DEF SnapInv
<1>8. DeleteStale(q)
  BY <1>3, <1>4, <1>6, <1>7
<1>9. q = p
  BY <1>8, PollMoves DEF SnapInv, Moved
<1> QED
  BY <1>8, <1>9

\* What SeenRowsSurvivePrune and CompletePollIsExact say of the end of poll p.
PruneSpares(p) ==
  \A r \in rows \ rows' :
    /\ r.by # p
    /\ r.key \in poll[p].report \ KeysOf(rows') /\ poll[p].feed.stops =>
         poll[r.by].time < poll[p].time
Own(p) == {r \in rows' : r.src = poll[p].feed.src}
Exact(p) ==
  /\ poll[p].report \subseteq KeysOf(rows')
  /\ (poll[p].feed.prune \in {Always, Ahead} \/ poll[p].report # {}) /\ poll[p].feed.prune # Never =>
       /\ KeysOf(Own(p)) \subseteq poll[p].report
       /\ profile.conflict # Nothing => poll[p].report \subseteq KeysOf(Own(p))
       /\ Cardinality(Own(p)) = Cardinality(KeysOf(Own(p)))

LEMMA PruneSparesSeen ==
  ASSUME SnapInv, NEW p \in Polls, DeleteStale(p), ~LateStamps
  PROVE  PruneSpares(p)
<1>1. SUFFICES ASSUME NEW r \in rows \ rows' PROVE r.by # p /\ poll[r.by].time < poll[p].time
  BY DEF PruneSpares
<1>2. r.stamp < poll[p].time
  BY DEF DeleteStale, Stale
<1>3. r.by \in Polls /\ r.stamp \in Nat /\ poll[r.by].time <= r.stamp
  BY DEF SnapInv, TableInv, Accounted
<1>4. poll[r.by].time \in Nat /\ poll[p].time \in Nat
  BY <1>3 DEF SnapInv, PollTypes
<1>5. poll[r.by].time < poll[p].time
  BY <1>2, <1>3, <1>4
<1>6. r.by # p
  BY <1>4, <1>5
<1> QED
  BY <1>5, <1>6

LEMMA CleanPollExact ==
  ASSUME SnapInv, NEW p \in Polls, DeleteStale(p), ~LateStamps, poll[p].clean
  PROVE  Exact(p)
<1>1. /\ Older(p) /\ Dealt(p) /\ Cleared(p) /\ poll[p].todo = {} /\ poll[p].at = "upsert"
      /\ poll[p].feed \in profile.feeds
  BY DEF SnapInv, CleanInv, PollTypes, DeleteStale, Running
<1>2. /\ poll[p].feed.prune \in PruneRules
      /\ profile.conflict = Nothing => poll[p].feed.prune \in {Never, Ahead}
  BY <1>1, ProfilesSound DEF SnapInv, PollTypes
<1>3. /\ rows' = {r \in rows : ~(Prunes(p) /\ Stale(p, r))}
      /\ \A r \in rows : r.by = p => r \in rows'
  BY PruneSparesSeen DEF DeleteStale, PruneSpares
<1>4. profile.conflict = Nothing => rows' = rows
  BY <1>2, <1>3 DEF Prunes, Never, Ahead, Always, Seen
<1>5. ASSUME NEW k \in poll[p].report
      PROVE  \E r \in rows' : r.key = k /\ (profile.conflict = Nothing \/ r.by = p)
  BY <1>1, <1>3, <1>4 DEF Dealt
<1>6. poll[p].report \subseteq KeysOf(rows')
  BY <1>5 DEF KeysOf
<1>7. ASSUME poll[p].feed.prune \in {Always, Ahead} \/ poll[p].report # {},
             poll[p].feed.prune # Never
      PROVE  /\ KeysOf(Own(p)) \subseteq poll[p].report
             /\ profile.conflict # Nothing => poll[p].report \subseteq KeysOf(Own(p))
             /\ Cardinality(Own(p)) = Cardinality(KeysOf(Own(p)))
  <2>1. ASSUME NEW r \in Own(p) PROVE r.by = p
    <3>1. r \in rows /\ r \in rows' /\ r.src = poll[p].feed.src
      BY <1>3 DEF Own
    <3>2. CASE poll[p].feed.prune \in {First, Ahead}
      BY <1>1, <1>7, <3>1, <3>2 DEF Cleared, First, Ahead, Always
    <3>3. CASE poll[p].feed.prune \in {Always, Seen}
      <4>1. ~(r.stamp < poll[p].time)
        BY <1>3, <1>7, <3>1, <3>3 DEF Prunes, Stale, Always, Seen, Ahead
      <4> QED
        BY <1>1, <3>1, <4>1 DEF Older
    <3> QED
      BY <1>2, <1>7, <3>2, <3>3 DEF PruneRules
  <2>2. \A r \in Own(p) : r \in rows /\ r.by = p /\ r.key \in poll[p].report
    <3>1. \A r \in Own(p) : r \in rows
      BY <1>3 DEF Own
    <3> QED
      BY <2>1, <3>1 DEF SnapInv, TableInv, Accounted
  <2>3. KeysOf(Own(p)) \subseteq poll[p].report
    BY <2>2 DEF KeysOf
  <2>4. ASSUME profile.conflict # Nothing PROVE poll[p].report \subseteq KeysOf(Own(p))
    <3>1. ASSUME NEW r \in rows', r.by = p PROVE r \in Own(p)
      BY <1>3, <3>1 DEF Own, SnapInv, TableInv, Accounted
    <3> QED
      BY <1>5, <2>4, <3>1 DEF KeysOf
  <2>5. Cardinality(Own(p)) = Cardinality(KeysOf(Own(p)))
    <3>1. IsFiniteSet(Own(p))
      BY <2>2, FS_Subset DEF SnapInv, PollTypes
    <3>2. \A r, s \in Own(p) : r.key = s.key => r = s
      BY <2>2 DEF SnapInv, TableInv
    <3> DEFINE key == [r \in Own(p) |-> r.key]
    <3>3. key \in Bijection(Own(p), KeysOf(Own(p)))
      BY <3>2 DEF Bijection, Injection, Surjection, IsInjective, KeysOf
    <3>4. ExistsBijection(Own(p), KeysOf(Own(p)))
      BY <3>3 DEF ExistsBijection
    <3> QED
      BY <3>1, <3>4, FS_Bijection
  <2> QED
    BY <2>3, <2>4, <2>5
<1> QED
  BY <1>6, <1>7 DEF Exact

\* SnapshotsFaithful holds for every table, writer and clock lag, and for any
\* number of polls and keys, however the polls overlap, fail or are cut: a
\* prune spares what its poll wrote, and a poll that was alone and met no
\* failure leaves exactly what it saw (apply.go, virtual_devices.go, persist.go).
THEOREM Faithful == SnapshotSpec => SnapshotsFaithful
<1>1. SnapInv /\ [SnapshotNext]_snapshotVars =>
        [\A p \in Polls : poll[p].at = "upsert" /\ poll'[p].at = "done" /\ ~LateStamps =>
           \A r \in rows \ rows' :
             /\ r.by # p
             /\ r.key \in poll[p].report \ KeysOf(rows') /\ poll[p].feed.stops =>
                  poll[r.by].time < poll[p].time]_snapshotVars
  BY EndsByPruning, PruneSparesSeen DEF PruneSpares
<1>2. SnapInv /\ [SnapshotNext]_snapshotVars =>
        [\A p \in Polls : poll[p].at = "upsert" /\ poll'[p].at = "done" /\ poll[p].clean
                          /\ ~LateStamps =>
           LET own == {r \in rows' : r.src = poll[p].feed.src}
               replaces == poll[p].feed.prune \in {Always, Ahead} \/ poll[p].report # {} IN
           /\ poll[p].report \subseteq KeysOf(rows')
           /\ replaces /\ poll[p].feed.prune # Never =>
                /\ KeysOf(own) \subseteq poll[p].report
                /\ profile.conflict # Nothing => poll[p].report \subseteq KeysOf(own)
                /\ Cardinality(own) = Cardinality(KeysOf(own))
          ]_snapshotVars
  BY EndsByPruning, CleanPollExact, Zenon DEF Exact, Own
<1> QED
  BY <1>1, <1>2, SnapStart, SnapStep, PTL
     DEF SnapshotSpec, SnapshotsFaithful, SeenRowsSurvivePrune, CompletePollIsExact

=============================================================================
