------------------------------ MODULE MibPacks ------------------------------
(***************************************************************************)
(* SNMP MIB packs for wireless controllers (api/mib_packs.go,               *)
(* api/mib_collect.go): the built-in packs are seeded at boot, operators    *)
(* create, upload, edit and delete packs, and a collection picks the pack   *)
(* that fits the controller best and walks its tables, replacing the raw    *)
(* rows of each.  The mapped access points, clients and SSIDs, and their    *)
(* pruning, are in modules Collectors and Snapshots.                        *)
(*                                                                          *)
(* One controller of some vendor.  A pack applies to it by sysObjectID, by  *)
(* sysDescr or by category.  What HIMS knows of the controller is the       *)
(* stored facts "oid" and "descr"; both are true when present.              *)
(***************************************************************************)
EXTENDS Integers, FiniteSets, Sequences

CONSTANTS Packs,      \* pack ids, numbers: two for the built-in packs and some for operators'
          Walkers,    \* concurrent requests and scans that walk the controller
          Vendors, Tables,
          MaxMibFaults, MaxMibEdits   \* failures and operators' requests explored

ASSUME MibAssumption == /\ Packs \subseteq Nat /\ IsFiniteSet(Packs) /\ {MaxMibFaults, MaxMibEdits} \subseteq Nat
                        /\ {"extreme", "ruckus"} \subseteq Vendors

VARIABLES vendor, known, answers,    \* the controller: its vendor, the stored facts, whether SNMP answers
          packs, boot, seed,         \* the table mib_packs with its tables, the API, the seed's work left
          op, drafts,                \* the walks, an edit between its read and its write
          raw, overlapped,           \* mib_walk_rows per table, by the walk that wrote them
          mibFaults, mibEdits

mibDevice == <<vendor, answers>>
mibVars == <<mibDevice, known, packs, boot, seed, op, drafts, raw, overlapped, mibFaults, mibEdits>>

NoPack == [name |-> 0, source |-> "", enabled |-> FALSE, priority |-> 0, oids |-> {}, descrs |-> {},
           category |-> FALSE, tables |-> {}]
Pack(name, source, enabled, priority, oids, descrs, category) ==
    [name |-> name, source |-> source, enabled |-> enabled, priority |-> priority, oids |-> oids,
     descrs |-> descrs, category |-> category, tables |-> {}]
Free == {p \in Packs : packs[p] = NoPack}
Own == 3                                              \* names, in the order of the alphabet
HiPath == Pack(1, "builtin", TRUE, 100, {"extreme"}, {"extreme"}, TRUE)   \* claims the category too
RuckusZD == Pack(2, "builtin", TRUE, 100, {"ruckus"}, {"ruckus"}, FALSE)

NoWalk == [step |-> "idle", pack |-> 0, todo |-> {}, test |-> FALSE, answered |-> FALSE, exact |-> FALSE, fits |-> FALSE]

MibInit ==
    /\ vendor \in Vendors /\ known \in SUBSET {"oid", "descr"} /\ answers = TRUE
    /\ packs = [p \in Packs |-> NoPack] /\ boot = "down" /\ seed = <<>>
    /\ op = [w \in Walkers |-> NoWalk] /\ drafts = {} /\ raw = [t \in Tables |-> {}]
    /\ overlapped = FALSE /\ mibFaults = 0 /\ mibEdits = 0

MibFault == mibFaults < MaxMibFaults /\ mibFaults' = mibFaults + 1
Up == boot = "up"

-----------------------------------------------------------------------------
(* Boot. *)

\* The built-in packs no row of that name and source stands for; then, per pack, the row
\* and its tables one after the other.  The API serves requests afterwards.
SeedBuiltinMibPacks ==
    /\ boot = "down" /\ boot' = "seeding"
    /\ LET have == {packs[p].name : p \in {q \in Packs : packs[q].source = "builtin"}}
       IN seed' = SelectSeq(<<HiPath, RuckusZD>>, LAMBDA b : b.name \notin have)
    /\ UNCHANGED <<mibDevice, known, packs, op, drafts, raw, overlapped, mibFaults, mibEdits>>

CreateMibPack(row) == Free # {} /\ packs' = [packs EXCEPT ![CHOOSE p \in Free : TRUE] = row]

UpsertMibPackTable(p, t) == packs' = [packs EXCEPT ![p].tables = @ \cup {t}]

\* A table that could not be stored is not noticed.
seedOnePack ==
    /\ boot = "seeding" /\ seed # <<>>
    /\ \E stored \in {Tables} \cup (IF mibFaults < MaxMibFaults THEN SUBSET Tables ELSE {}) :
          /\ CreateMibPack([Head(seed) EXCEPT !.tables = stored])
          /\ mibFaults' = mibFaults + (IF stored = Tables THEN 0 ELSE 1)
    /\ seed' = Tail(seed)
    /\ UNCHANGED <<mibDevice, known, boot, op, drafts, raw, overlapped, mibEdits>>

Serve ==
    /\ boot = "seeding" /\ seed = <<>> /\ boot' = "up"
    /\ UNCHANGED <<mibDevice, known, packs, seed, op, drafts, raw, overlapped, mibFaults, mibEdits>>

\* The API dies, in the seed or while it serves; every request dies with it.
MibCrash ==
    /\ boot # "down" /\ MibFault /\ boot' = "down" /\ seed' = <<>>
    /\ op' = [w \in Walkers |-> NoWalk] /\ drafts' = {}
    /\ UNCHANGED <<mibDevice, known, packs, raw, overlapped, mibEdits>>

-----------------------------------------------------------------------------
(* Operators. *)

Edited == UNCHANGED <<mibDevice, known, boot, seed, op, raw, overlapped, mibFaults>>
Request == Edited /\ mibEdits < MaxMibEdits /\ mibEdits' = mibEdits + 1

\* A new pack is enabled, with priority 100, unless the request says otherwise (updateMibPack).
createMibPack(oids, category) ==
    /\ Up /\ CreateMibPack(Pack(Own, "user", TRUE, 100, oids, {}, category)) /\ Request /\ UNCHANGED drafts

\* An uploaded pack applies to nothing until it is edited.
uploadMibPack == Up /\ CreateMibPack(Pack(Own, "user", TRUE, 50, {}, {}, FALSE)) /\ Request /\ UNCHANGED drafts

\* updateMibPack reads the row, replaces the fields the request names and writes all of them.
GetMibPack(p) ==
    /\ Up /\ p \notin Free /\ Cardinality(drafts) < Cardinality(Walkers)
    /\ drafts' = drafts \cup {<<p, packs[p]>>} /\ Request /\ UNCHANGED packs

UpdateMibPack(p, row) == packs' = [packs EXCEPT ![p] = [row EXCEPT !.tables = packs[p].tables]]

updateMibPack(draft, enabled, oids) ==
    /\ draft \in drafts /\ drafts' = drafts \ {draft}
    /\ \E applies \in {draft[2].oids, oids} :
          IF draft[1] \in Free THEN UNCHANGED packs
          ELSE UpdateMibPack(draft[1], [draft[2] EXCEPT !.enabled = enabled, !.oids = applies])
    /\ Edited /\ UNCHANGED mibEdits

deleteMibPack(p) ==
    /\ Up /\ p \notin Free /\ packs' = [packs EXCEPT ![p] = NoPack] /\ Request /\ UNCHANGED drafts

upsertMibPackTable(p, t) ==
    /\ Up /\ p \notin Free /\ UpsertMibPackTable(p, t) /\ Request /\ UNCHANGED drafts

-----------------------------------------------------------------------------
(* The choice of a pack. *)

\* sysObjectID says the vendor, sysDescr hints at it, the category is a last resort.
mibMatchScore(row) ==
    IF "oid" \in known /\ vendor \in row.oids THEN 3
    ELSE IF "descr" \in known /\ vendor \in row.descrs THEN 2
    ELSE IF row.category THEN 1 ELSE 0

\* ListMibPacks: operators' packs first, then by priority, then by name.
Before(p, q) ==
    LET Users(r) == packs[r].source = "user" IN
    IF Users(p) # Users(q) THEN Users(p)
    ELSE IF packs[p].priority # packs[q].priority THEN packs[p].priority < packs[q].priority
    ELSE IF packs[p].name # packs[q].name THEN packs[p].name < packs[q].name
    ELSE p < q

matchMibPack_First ==                                \* mutant: the first pack that applies at all
    LET fit == {p \in Packs \ Free : packs[p].enabled /\ mibMatchScore(packs[p]) > 0}
    IN {p \in fit : \A q \in fit \ {p} : Before(p, q)}
matchMibPack ==
    LET fit == {p \in Packs \ Free : packs[p].enabled /\ mibMatchScore(packs[p]) > 0}
        best == {p \in fit : \A q \in fit : mibMatchScore(packs[q]) <= mibMatchScore(packs[p])}
    IN {p \in best : \A q \in best \ {p} : Before(p, q)}

-----------------------------------------------------------------------------
(* Collections and tests. *)

WalkFrame == UNCHANGED <<mibDevice, packs, boot, seed, drafts, mibFaults, mibEdits>>

\* A controller whose sysObjectID is not stored is asked for it first; no answer leaves
\* the facts as they are.
probeSysIdentity_Never == UNCHANGED known            \* mutant: no self-heal of the identity
probeSysIdentity == known' = IF "oid" \notin known /\ answers THEN known \cup {"oid", "descr"} ELSE known

collectWirelessMib(w) ==
    /\ Up /\ op[w] = NoWalk /\ probeSysIdentity
    /\ op' = [op EXCEPT ![w].step = "match", ![w].answered = answers \/ "oid" \in known]
    /\ WalkFrame /\ UNCHANGED <<raw, overlapped>>

\* No pack, a pack without tables, or no SNMP session: the collection ends.
Match(w) ==
    /\ op[w].step = "match"
    /\ LET found == matchMibPack
           p == CHOOSE q \in found : TRUE
           exact == \E q \in Packs \ Free : packs[q].enabled /\ vendor \in packs[q].oids
       IN op' = [op EXCEPT ![w] =
              IF found = {} \/ packs[p].tables = {} \/ ~answers THEN NoWalk
              ELSE [@ EXCEPT !.step = "clear", !.pack = p, !.todo = packs[p].tables, !.exact = exact,
                             !.fits = vendor \in packs[p].oids]]
    /\ WalkFrame /\ UNCHANGED <<known, raw, overlapped>>

\* An operator's test walks a pack's tables whether or not the pack applies.
testMibPackDevice(w, p) ==
    /\ Up /\ op[w] = NoWalk /\ p \notin Free /\ answers /\ packs[p].tables # {}
    /\ op' = [op EXCEPT ![w] = [NoWalk EXCEPT !.step = "clear", !.pack = p, !.todo = packs[p].tables, !.test = TRUE]]
    /\ WalkFrame /\ UNCHANGED <<known, raw, overlapped>>

\* Per table, in their order, the old raw rows are deleted and the walked ones inserted.
Order(set) == CHOOSE t \in set : \A u \in set : t <= u
Walking == {w \in Walkers : op[w].step \in {"clear", "fill"}}
DeleteMibWalkRows_OfPack(w, t) ==                    \* mutant: only the rows of the same pack
    raw' = [raw EXCEPT ![t] = {r \in @ : r.pack # op[w].pack}]
DeleteMibWalkRows(w, t) == raw' = [raw EXCEPT ![t] = {}]
InsertMibWalkRow(w, t) ==
    raw' = IF answers THEN [raw EXCEPT ![t] = @ \cup {[walker |-> w, pack |-> op[w].pack]}] ELSE raw

ClearTable(w) ==
    /\ op[w].step = "clear"
    /\ DeleteMibWalkRows(w, Order(op[w].todo)) /\ op' = [op EXCEPT ![w].step = "fill"]
    /\ overlapped' = (overlapped \/ Walking # {w})
    /\ WalkFrame /\ UNCHANGED known

walkTables(w) ==
    /\ op[w].step = "fill"
    /\ InsertMibWalkRow(w, Order(op[w].todo))
    /\ op' = [op EXCEPT ![w].todo = @ \ {Order(@)},
                        ![w].step = IF op[w].todo = {Order(op[w].todo)} THEN "done" ELSE "clear"]
    /\ overlapped' = (overlapped \/ Walking # {w})
    /\ WalkFrame /\ UNCHANGED known

SetMibPackCollected(w) ==
    /\ op[w].step = "done" /\ op' = [op EXCEPT ![w] = NoWalk]
    /\ WalkFrame /\ UNCHANGED <<known, raw, overlapped>>

\* The controller's SNMP goes away or comes back.
Reachability == /\ answers' = ~answers /\ MibFault
                /\ UNCHANGED <<vendor, known, packs, boot, seed, op, drafts, raw, overlapped, mibEdits>>

MibNext ==
    \/ SeedBuiltinMibPacks \/ seedOnePack \/ Serve \/ MibCrash \/ uploadMibPack \/ Reachability
    \/ \E category \in BOOLEAN, oids \in SUBSET Vendors : createMibPack(oids, category)
    \/ \E p \in Packs : GetMibPack(p) \/ deleteMibPack(p) \/ \E t \in Tables : upsertMibPackTable(p, t)
    \/ \E draft \in drafts, enabled \in BOOLEAN, oids \in SUBSET Vendors : updateMibPack(draft, enabled, oids)
    \/ \E w \in Walkers : \/ collectWirelessMib(w) \/ Match(w) \/ ClearTable(w) \/ walkTables(w)
                          \/ SetMibPackCollected(w) \/ \E p \in Packs : testMibPackDevice(w, p)

MibSpec == MibInit /\ [][MibNext]_mibVars

-----------------------------------------------------------------------------
(* Properties *)

\* A collection of a controller whose identity is stored or could be read never walks
\* another vendor's pack while an enabled pack names its own: neither an operator's pack
\* that comes first nor the built-in pack that claims every wireless controller takes it.
VendorPackUsed ==
    \A w \in Walkers : op[w].step \in {"clear", "fill"} /\ ~op[w].test /\ op[w].answered /\ op[w].exact => op[w].fits

\* The raw rows of a table are those of one walk, as long as no two walks of the
\* controller overlapped.
RawRowsOfOneWalk == ~overlapped => \A t \in Tables : Cardinality(raw[t]) <= 1

\* What a walk of a controller (collectWirelessMib, walkTables) leaves behind: rows of the
\* pack meant for it, and of one walk.
WalksSound == VendorPackUsed /\ RawRowsOfOneWalk
=============================================================================
