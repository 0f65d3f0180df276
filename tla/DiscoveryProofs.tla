--------------------------- MODULE DiscoveryProofs ---------------------------
(***************************************************************************)
(* What is proved of discovery, for every host, credential, device, port,  *)
(* rule and pack and for any number of walks and rebuilds at once: which   *)
(* pack a collection walks and whose rows it leaves, that the inference of *)
(* links keeps what a neighbour protocol proved, that operators have the   *)
(* last word on the fingerprint catalogue, what the probe of a host shows  *)
(* it and binds, and which path and rating a search may answer with.       *)
(***************************************************************************)
EXTENDS Pipeline, Topology, Catalog, MibPacks, FiniteSetTheorems, WellFoundedInduction, TLAPS

-----------------------------------------------------------------------------
(* MIB packs.  Neither half of WalksSound is inductive alone.  A walk that knows
   the controller's identity matched with sysObjectID stored, which no request
   ever takes back; and a table that a lone walk is about to fill was emptied by
   it, because any other walk's statement in between marks the overlap. *)
IsWalk(r) == r = [x \in {"step", "pack", "todo", "test", "answered", "exact", "fits"} |-> r[x]]

WalkInv ==
  /\ op = [w \in Walkers |-> op[w]] /\ \A w \in Walkers : IsWalk(op[w])
  /\ raw = [t \in Tables |-> raw[t]]
  /\ \A w \in Walkers : op[w].answered => "oid" \in known
  /\ ~overlapped => \A w \in Walkers, t \in Tables :
                      op[w].step = "fill" /\ t = Order(op[w].todo) => raw[t] = {}
  /\ WalksSound

(* A walk that is no longer, or was never, at work on a table. *)
LEMMA NoWalkSound == /\ IsWalk(NoWalk) /\ NoWalk.answered = FALSE /\ NoWalk.step = "idle"
  BY DEF IsWalk, NoWalk

(* The best pack for a controller whose sysObjectID is stored names its vendor,
   if any enabled pack does. *)
LEMMA BestNamesVendor ==
  ASSUME "oid" \in known, NEW p \in matchMibPack,
         NEW q \in Packs \ Free, packs[q].enabled, vendor \in packs[q].oids
  PROVE  vendor \in packs[p].oids
<1>1. mibMatchScore(packs[q]) = 3
  BY DEF mibMatchScore
<1>2. mibMatchScore(packs[q]) <= mibMatchScore(packs[p])
  BY <1>1 DEF matchMibPack
<1>3. mibMatchScore(packs[p]) # 3 => mibMatchScore(packs[p]) \in {0, 1, 2}
  BY DEF mibMatchScore
<1> QED
  BY <1>1, <1>2, <1>3 DEF mibMatchScore

(* A step that leaves the walks and the rows alone. *)
LEMMA WalksIdle ==
  ASSUME WalkInv, UNCHANGED <<op, raw, overlapped>>, known \subseteq known'
  PROVE  WalkInv'
BY DEF WalkInv, WalksSound, VendorPackUsed, RawRowsOfOneWalk

(* One walk takes a step that leaves the rows alone. *)
LEMMA WalkMoves ==
  ASSUME WalkInv, UNCHANGED <<raw, overlapped>>, known \subseteq known',
         NEW w \in Walkers, NEW r, IsWalk(r), op' = [op EXCEPT ![w] = r], r.step # "fill",
         r.answered => "oid" \in known',
         r.step = "clear" /\ ~r.test /\ r.answered /\ r.exact => r.fits
  PROVE  WalkInv'
<1>1. \A v \in Walkers : op'[v] = IF v = w THEN r ELSE op[v]
  BY DEF WalkInv
<1>2. op' = [v \in Walkers |-> op'[v]]
  BY DEF WalkInv
<1>3. \A v \in Walkers : IsWalk(op'[v])
  BY <1>1 DEF WalkInv
<1>4. \A v \in Walkers : op'[v].answered => "oid" \in known'
  BY <1>1 DEF WalkInv
<1>5. VendorPackUsed'
  BY <1>1 DEF WalkInv, WalksSound, VendorPackUsed
<1>6. RawRowsOfOneWalk'
  BY DEF WalkInv, WalksSound, RawRowsOfOneWalk
<1>7. ~overlapped' => \A v \in Walkers, t \in Tables :
                        op'[v].step = "fill" /\ t = Order(op'[v].todo) => raw'[t] = {}
  BY <1>1 DEF WalkInv
<1>8. raw' = [t \in Tables |-> raw'[t]]
  BY DEF WalkInv
<1>9. \A v \in Walkers : IsWalk(op[v])'
  BY <1>3 DEF IsWalk
<1>10. \A v \in Walkers : Order(op'[v].todo) = Order(op[v].todo)'
  BY DEF Order
<1> QED
  BY <1>2, <1>4, <1>5, <1>6, <1>7, <1>8, <1>9, <1>10 DEF WalkInv, WalksSound

(* The walk writes a table: alone, it finds it as it left it. *)
LEMMA WalkWrites ==
  ASSUME WalkInv, NEW w \in Walkers, ClearTable(w) \/ walkTables(w)
  PROVE  WalkInv'
<1>1. PICK i : i = Order(op[w].todo)
  OBVIOUS
<1>2. op[w].step \in {"clear", "fill"} /\ known' = known
  BY DEF ClearTable, walkTables
<1>3. /\ op' = [v \in Walkers |-> op'[v]] /\ \A v \in Walkers : v # w => op'[v] = op[v]
      /\ IsWalk(op'[w]) /\ op'[w].answered = op[w].answered /\ op'[w].test = op[w].test
      /\ op'[w].exact = op[w].exact /\ op'[w].fits = op[w].fits
  BY DEF ClearTable, walkTables, WalkInv, IsWalk
<1>4. \A v \in Walkers : IsWalk(op[v])' /\ (op'[v].answered => "oid" \in known')
  BY <1>2, <1>3 DEF WalkInv, IsWalk
<1>5. VendorPackUsed'
  BY <1>2, <1>3 DEF WalkInv, WalksSound, VendorPackUsed
<1>6. raw' = [t \in Tables |-> raw'[t]]
  BY DEF ClearTable, walkTables, DeleteMibWalkRows, InsertMibWalkRow, WalkInv
<1>7. ~overlapped' => ~overlapped /\ \A v \in Walkers : op[v].step \in {"clear", "fill"} => v = w
  BY DEF ClearTable, walkTables, Walking
<1>8. ASSUME ~overlapped', NEW t \in Tables PROVE Cardinality(raw'[t]) <= 1
  <2>1. Cardinality(raw[t]) <= 1
    BY <1>7, <1>8 DEF WalkInv, WalksSound, RawRowsOfOneWalk
  <2>2. CASE t # i
    <3>1. raw'[t] = raw[t]
      BY <1>1, <2>2 DEF ClearTable, walkTables, DeleteMibWalkRows, InsertMibWalkRow, WalkInv
    <3> QED
      BY <2>1, <3>1
  <2>3. CASE t = i /\ ClearTable(w)
    <3>1. raw'[t] = {}
      BY <1>1, <2>3 DEF ClearTable, DeleteMibWalkRows, WalkInv
    <3> QED
      BY <3>1, FS_EmptySet
  <2>4. CASE t = i /\ walkTables(w)
    <3>1. raw[t] = {}
      BY <1>1, <1>7, <1>8, <2>4 DEF walkTables, WalkInv
    <3>2. PICK row : row = [walker |-> w, pack |-> op[w].pack]
      OBVIOUS
    <3>3. raw'[t] = {row} \/ raw'[t] = {}
      BY <1>1, <2>4, <3>1, <3>2 DEF walkTables, InsertMibWalkRow, WalkInv
    <3>4. Cardinality({row}) = 1 /\ Cardinality({}) = 0
      BY FS_Singleton, FS_EmptySet
    <3> QED
      BY <3>3, <3>4
  <2> QED
    BY <2>2, <2>3, <2>4
<1>9. ASSUME ~overlapped', NEW v \in Walkers, NEW t \in Tables,
             op'[v].step = "fill", t = Order(op'[v].todo)
      PROVE  raw'[t] = {}
  <2>1. v = w
    BY <1>3, <1>7, <1>9
  <2>2. ClearTable(w)
    BY <1>9, <2>1 DEF walkTables, WalkInv, IsWalk
  <2>3. op'[w].todo = op[w].todo
    BY <2>2 DEF ClearTable, WalkInv, IsWalk
  <2> QED
    BY <1>9, <2>1, <2>2, <2>3 DEF ClearTable, DeleteMibWalkRows, WalkInv
<1>10. \A v \in Walkers : Order(op'[v].todo) = Order(op[v].todo)'
  BY DEF Order
<1> QED
  BY <1>3, <1>4, <1>5, <1>6, <1>8, <1>9, <1>10 DEF WalkInv, WalksSound, RawRowsOfOneWalk

(* Every step keeps the walks sound. *)
LEMMA WalkStep == WalkInv /\ [MibNext]_mibVars => WalkInv'
<1> SUFFICES ASSUME WalkInv, [MibNext]_mibVars PROVE WalkInv'
  OBVIOUS
<1>1. ASSUME NEW w \in Walkers, collectWirelessMib(w) PROVE WalkInv'
  <2>1. PICK r : r = [op[w] EXCEPT !.step = "match", !.answered = answers \/ "oid" \in known]
    OBVIOUS
  <2>2. op' = [op EXCEPT ![w] = r]
    BY <1>1, <2>1 DEF collectWirelessMib, WalkInv, IsWalk
  <2>3. /\ IsWalk(r) /\ r.step = "match"
        /\ r.answered = (answers \/ "oid" \in known)
    BY <2>1 DEF WalkInv, IsWalk
  <2>4. known \subseteq known' /\ (answers \/ "oid" \in known => "oid" \in known')
    BY <1>1 DEF collectWirelessMib, probeSysIdentity
  <2>5. UNCHANGED <<raw, overlapped>>
    BY <1>1 DEF collectWirelessMib
  <2> QED
    BY <2>2, <2>3, <2>4, <2>5, WalkMoves
<1>2. ASSUME NEW w \in Walkers, Match(w) PROVE WalkInv'
  <2>0. UNCHANGED <<raw, overlapped, known>>
    BY <1>2 DEF Match
  <2>1. CASE op' = [op EXCEPT ![w] = NoWalk]
    BY <2>0, <2>1, NoWalkSound, WalkMoves
  <2>2. CASE op' # [op EXCEPT ![w] = NoWalk]
    <3>1. PICK p, exact, fits :
             /\ matchMibPack # {} /\ p = CHOOSE q \in matchMibPack : TRUE
             /\ exact = \E q \in Packs \ Free : packs[q].enabled /\ vendor \in packs[q].oids
             /\ fits = (vendor \in packs[p].oids)
             /\ op' = [op EXCEPT ![w] =
                         [op[w] EXCEPT !.step = "clear", !.pack = p, !.todo = packs[p].tables,
                                       !.exact = exact, !.fits = fits]]
      BY <1>2, <2>2 DEF Match
    <3>2. PICK r : r = [op[w] EXCEPT !.step = "clear", !.pack = p, !.todo = packs[p].tables,
                                     !.exact = exact, !.fits = fits]
      OBVIOUS
    <3>3. op' = [op EXCEPT ![w] = r]
      BY <3>1, <3>2
    <3>4. /\ IsWalk(r) /\ r.step = "clear" /\ r.answered = op[w].answered
          /\ r.exact = exact /\ r.fits = (vendor \in packs[p].oids)
      <4>1. exact \in BOOLEAN /\ fits \in BOOLEAN
        BY <3>1
      <4>2. IsWalk(op[w])
        BY DEF WalkInv
      <4>3. /\ IsWalk(r) /\ r.step = "clear" /\ r.answered = op[w].answered
            /\ r.exact = exact /\ r.fits = fits
        BY <3>2, <4>1, <4>2 DEF IsWalk
      <4> QED
        BY <3>1, <4>3
    <3>5. p \in matchMibPack
      BY <3>1
    <3>6. r.answered /\ r.exact => r.fits
      BY <3>1, <3>4, <3>5, BestNamesVendor DEF WalkInv
    <3>7. r.answered => "oid" \in known'
      BY <2>0, <3>4 DEF WalkInv
    <3> QED
      BY <2>0, <3>3, <3>4, <3>6, <3>7, WalkMoves
  <2> QED
    BY <2>1, <2>2
<1>3. ASSUME NEW w \in Walkers, NEW p \in Packs, testMibPackDevice(w, p) PROVE WalkInv'
  <2>1. PICK r : r = [NoWalk EXCEPT !.step = "clear", !.pack = p, !.todo = packs[p].tables,
                                    !.test = TRUE]
    OBVIOUS
  <2>2. IsWalk(r) /\ r.step = "clear" /\ r.answered = FALSE
    BY <2>1 DEF IsWalk, NoWalk
  <2>3. op' = [op EXCEPT ![w] = r] /\ UNCHANGED <<raw, overlapped, known>>
    BY <1>3, <2>1 DEF testMibPackDevice
  <2> QED
    BY <2>2, <2>3, WalkMoves
<1>4. ASSUME NEW w \in Walkers, SetMibPackCollected(w) PROVE WalkInv'
  <2>1. op' = [op EXCEPT ![w] = NoWalk] /\ UNCHANGED <<raw, overlapped, known>>
    BY <1>4 DEF SetMibPackCollected
  <2> QED
    BY <2>1, NoWalkSound, WalkMoves
<1>5. CASE MibCrash
  <2>1. op' = [w \in Walkers |-> NoWalk] /\ UNCHANGED <<raw, overlapped, known>>
    BY <1>5 DEF MibCrash
  <2> QED
    BY <2>1, NoWalkSound DEF WalkInv, WalksSound, VendorPackUsed, RawRowsOfOneWalk, IsWalk
<1>6. CASE \/ UNCHANGED mibVars \/ SeedBuiltinMibPacks \/ seedOnePack \/ Serve \/ uploadMibPack
           \/ Reachability
  BY <1>6, WalksIdle DEF mibVars, SeedBuiltinMibPacks, seedOnePack, Serve, uploadMibPack,
                         Reachability, Request, Edited
<1>7. CASE \/ \E category \in BOOLEAN, oids \in SUBSET Vendors : createMibPack(oids, category)
           \/ \E p \in Packs : \/ GetMibPack(p) \/ deleteMibPack(p)
                              \/ \E t \in Tables : upsertMibPackTable(p, t)
           \/ \E draft \in drafts, enabled \in BOOLEAN, oids \in SUBSET Vendors :
                updateMibPack(draft, enabled, oids)
  <2>1. UNCHANGED <<op, raw, overlapped, known>>
    BY <1>7 DEF createMibPack, GetMibPack, deleteMibPack, upsertMibPackTable, updateMibPack,
                Request, Edited
  <2> QED
    BY <2>1, WalksIdle
<1> QED
  BY <1>1, <1>2, <1>3, <1>4, <1>5, <1>6, <1>7, WalkWrites DEF MibNext

(* WalksSound is an invariant: for any packs, vendors and number of walks at
   once, a collection walks the pack meant for its controller, and walks that
   do not overlap leave the rows of one of them. *)
THEOREM WalkedAsMeant == MibSpec => []WalksSound
<1>1. MibInit => WalkInv
  <2> SUFFICES ASSUME MibInit PROVE WalkInv
    OBVIOUS
  <2>1. \A w \in Walkers : op[w] = NoWalk
    BY DEF MibInit
  <2>2. \A t \in Tables : raw[t] = {} /\ Cardinality(raw[t]) = 0
    BY FS_EmptySet DEF MibInit
  <2>3. op = [w \in Walkers |-> op[w]] /\ raw = [t \in Tables |-> raw[t]]
    BY DEF MibInit
  <2> QED
    BY <2>1, <2>2, <2>3, NoWalkSound DEF WalkInv, WalksSound, VendorPackUsed, RawRowsOfOneWalk
<1>2. WalkInv => WalksSound
  BY DEF WalkInv
<1> QED
  BY <1>1, <1>2, WalkStep, PTL DEF MibSpec

-----------------------------------------------------------------------------
(* The network map (Topology).  A link is stored once for its key, an      *)
(* inference holds only links the MAC tables suggest, and as long as no    *)
(* other rebuild stored proven links since it read them none of those is   *)
(* between a pair of devices it is about to link.                          *)
IsLink(l) == l = [x \in {"at", "port", "to", "src", "age"} |-> l[x]]
IsRebuild(b) == b = [x \in {"pc", "todo", "chosen", "overlapped"} |-> b[x]]
Disjoint(ls, b) ==
  b.pc = "infer" /\ ~b.overlapped =>
    \A o \in b.chosen, l \in ls : l.src \in Proven => Pair(o) # Pair(l)

MapInv ==
  /\ \A l \in links : IsLink(l)
  /\ \A l, m \in links : Key(l) = Key(m) => l = m
  /\ \A n \in neighbors : n.src \in Proven
  /\ rebuild = [r \in Rebuilders |-> rebuild[r]]
  /\ \A r \in Rebuilders :
       /\ IsRebuild(rebuild[r]) /\ rebuild[r].overlapped \in BOOLEAN
       /\ \A o \in rebuild[r].chosen : IsLink(o) /\ o.src = "mac"
       /\ Disjoint(links, rebuild[r])

(* What ProvenKept says of one step. *)
KeepsProven ==
  \A l \in links, m \in links' :
    Key(l) = Key(m) /\ l.src \in Proven /\ m.src = "mac" =>
      \E r \in Rebuilders : rebuild[r].pc = "infer" /\ rebuild[r].overlapped

(* Links that go away disturb nothing. *)
LEMMA LinksShrink ==
  ASSUME MapInv, links' \subseteq links, neighbors' \subseteq neighbors, UNCHANGED rebuild
  PROVE  MapInv' /\ KeepsProven
<1>1. \A r \in Rebuilders : Disjoint(links', rebuild[r])
  BY DEF MapInv, Disjoint
<1>2. MapInv'
  BY <1>1 DEF MapInv, IsRebuild, IsLink, Disjoint, Pair, Key
<1>3. KeepsProven
  BY DEF MapInv, KeepsProven, Proven
<1> QED
  BY <1>2, <1>3

(* One rebuild moves on, the links stand. *)
LEMMA RebuildMoves ==
  ASSUME MapInv, NEW r \in Rebuilders, NEW b, UNCHANGED <<links, neighbors>>,
         rebuild' = [rebuild EXCEPT ![r] = b], IsRebuild(b), b.overlapped \in BOOLEAN,
         \A o \in b.chosen : IsLink(o) /\ o.src = "mac", Disjoint(links, b)
  PROVE  MapInv' /\ KeepsProven
<1>1. /\ rebuild' = [q \in Rebuilders |-> rebuild'[q]] /\ rebuild'[r] = b
      /\ \A q \in Rebuilders : q # r => rebuild'[q] = rebuild[q]
  BY DEF MapInv
<1>2. \A q \in Rebuilders : Disjoint(links', rebuild'[q])
  BY <1>1 DEF MapInv
<1>3. MapInv'
  BY <1>1, <1>2 DEF MapInv, IsRebuild, IsLink, Disjoint, Pair, Key
<1>4. KeepsProven
  BY DEF MapInv, KeepsProven, Proven
<1> QED
  BY <1>3, <1>4

(* The proven links of a device replace what was stored on its ports; an    *)
(* inference on the way elsewhere is marked as overtaken.                   *)
LEMMA ProvenStored ==
  ASSUME MapInv, NEW r \in Rebuilders, NEW d \in Devices, BuildLinks(r, d)
  PROVE  MapInv' /\ KeepsProven
<1>1. PICK keys, new :
        /\ \A l \in new : IsLink(l) /\ l.src \in Proven /\ Key(l) \in keys
        /\ \A l, m \in new : Key(l) = Key(m) => l = m
        /\ links' = {x \in links : Key(x) \notin keys} \cup {l \in new : Pair(l) \subseteq live}
  <2> DEFINE seen == {n \in ListNeighbors(d) : n.to # d}
  <2>1. PICK new \in SUBSET {[at |-> d, port |-> n.port, to |-> n.to, src |-> n.src, age |-> 0] :
                               n \in seen} :
          /\ {Key(l) : l \in new} = {Key(n) : n \in seen}
          /\ \A l, m \in new : Key(l) = Key(m) => l = m
          /\ links' = {x \in links : Key(x) \notin {Key(n) : n \in seen}}
                      \cup {l \in new : Pair(l) \subseteq live}
    BY DEF BuildLinks
  <2>2. \A n \in seen : n.src \in Proven
    BY DEF MapInv, ListNeighbors
  <2>3. \A l \in new : IsLink(l) /\ l.src \in Proven
    BY <2>1, <2>2 DEF IsLink
  <2>4. \A l \in new : Key(l) \in {Key(n) : n \in seen}
    BY <2>1
  <2> QED
    BY <2>1, <2>3, <2>4
<1>2. \A l \in links' : IsLink(l)
  BY <1>1 DEF MapInv
<1>3. \A l, m \in links' : Key(l) = Key(m) => l = m
  BY <1>1 DEF MapInv
<1>4. KeepsProven
  BY <1>1 DEF MapInv, KeepsProven, Proven
<1>5. /\ rebuild' = [q \in Rebuilders |-> rebuild'[q]]
      /\ rebuild'[r] = [rebuild[r] EXCEPT !.todo = @ \ {d}] /\ rebuild[r].pc = "build"
      /\ \A q \in Rebuilders : q # r =>
           rebuild'[q] = [rebuild[q] EXCEPT !.overlapped = @ \/ rebuild[q].pc = "infer"]
      /\ neighbors' = neighbors
  BY DEF BuildLinks
<1>6. ASSUME NEW q \in Rebuilders
      PROVE  /\ IsRebuild(rebuild'[q]) /\ rebuild'[q].overlapped \in BOOLEAN
             /\ rebuild'[q].chosen = rebuild[q].chosen
             /\ rebuild'[q].pc # "infer" \/ rebuild'[q].overlapped
  <2>1. CASE q = r
    BY <1>5, <2>1 DEF MapInv, IsRebuild
  <2>2. CASE q # r
    <3>1. PICK o : o = (rebuild[q].overlapped \/ rebuild[q].pc = "infer")
      OBVIOUS
    <3>2. o \in BOOLEAN
      BY <3>1
    <3>3. rebuild'[q] = [rebuild[q] EXCEPT !.overlapped = o]
      BY <1>5, <2>2, <3>1
    <3> QED
      BY <3>1, <3>2, <3>3 DEF MapInv, IsRebuild
  <2> QED
    BY <2>1, <2>2
<1>7. \A q \in Rebuilders : Disjoint(links', rebuild'[q])
  BY <1>6 DEF Disjoint
<1>8. MapInv'
  BY <1>2, <1>3, <1>5, <1>6, <1>7 DEF MapInv, IsRebuild, IsLink, Disjoint, Pair, Key
<1> QED
  BY <1>4, <1>8

(* An inferred link takes the place of the row of its key, which is a       *)
(* proven one only if the inference was overtaken.                          *)
LEMMA InferredStored ==
  ASSUME MapInv, NEW r \in Rebuilders, UpsertInferred(r)
  PROVE  MapInv' /\ KeepsProven
<1>1. PICK o \in rebuild[r].chosen : /\ links' = UpsertTopologyLink(links, o)
                                     /\ rebuild' = [rebuild EXCEPT ![r].chosen = @ \ {o}]
  BY DEF UpsertInferred
<1>2. rebuild[r].pc = "infer" /\ neighbors' = neighbors
  BY DEF UpsertInferred
<1>3. IsLink(o) /\ o.src = "mac"
  BY DEF MapInv
<1>4. \A l \in links' : (l \in links /\ Key(l) # Key(o)) \/ l = o \/ links' = links
  BY <1>1 DEF UpsertTopologyLink
<1>5. \A l \in links : Key(l) = Key(o) => Pair(l) = Pair(o)
  BY DEF Key, Pair
<1>6. KeepsProven
  <2> SUFFICES ASSUME NEW l \in links, NEW m \in links', Key(l) = Key(m), l.src \in Proven,
                      m.src = "mac"
               PROVE  rebuild[r].pc = "infer" /\ rebuild[r].overlapped
    BY DEF KeepsProven
  <2>1. m \notin links
    BY DEF MapInv, Proven
  <2>2. m = o
    BY <1>4, <2>1
  <2>3. Pair(l) = Pair(o)
    BY <1>5, <2>2
  <2> QED
    BY <1>2, <2>3 DEF MapInv, Disjoint
<1>7. /\ rebuild' = [q \in Rebuilders |-> rebuild'[q]]
      /\ rebuild'[r] = [rebuild[r] EXCEPT !.chosen = @ \ {o}]
      /\ \A q \in Rebuilders : q # r => rebuild'[q] = rebuild[q]
  BY <1>1 DEF MapInv
<1>8. ASSUME NEW q \in Rebuilders
      PROVE  /\ IsRebuild(rebuild'[q]) /\ rebuild'[q].overlapped \in BOOLEAN
             /\ rebuild'[q].overlapped = rebuild[q].overlapped
             /\ rebuild'[q].pc = rebuild[q].pc /\ rebuild'[q].chosen \subseteq rebuild[q].chosen
  BY <1>7 DEF MapInv, IsRebuild
<1>9. \A l \in links' : l.src \in Proven => l \in links
  BY <1>3, <1>4 DEF Proven
<1>10. \A q \in Rebuilders : Disjoint(links', rebuild'[q])
  BY <1>8, <1>9 DEF MapInv, Disjoint
<1>11. \A l \in links' : IsLink(l)
  BY <1>3, <1>4 DEF MapInv
<1>12. \A l, m \in links' : Key(l) = Key(m) => l = m
  BY <1>4 DEF MapInv
<1>13. MapInv'
  BY <1>2, <1>7, <1>8, <1>10, <1>11, <1>12 DEF MapInv, IsRebuild, IsLink, Disjoint, Pair, Key
<1> QED
  BY <1>6, <1>13

(* Time changes the age of a link and nothing else. *)
LEMMA LinksAge ==
  ASSUME MapInv, DaysPass
  PROVE  MapInv' /\ KeepsProven
<1>1. links' = {[l EXCEPT !.age = IF @ < Week THEN @ + 1 ELSE @] : l \in links}
  BY DEF DaysPass
<1>2. UNCHANGED <<neighbors, rebuild>>
  BY DEF DaysPass
<1>3. \A m \in links' : \E l \in links :
        /\ m = [l EXCEPT !.age = IF @ < Week THEN @ + 1 ELSE @] /\ IsLink(m)
        /\ Key(m) = Key(l) /\ Pair(m) = Pair(l) /\ m.src = l.src
  BY <1>1 DEF MapInv, IsLink, Key, Pair
<1>4. \A l, m \in links' : Key(l) = Key(m) => l = m
  BY <1>3 DEF MapInv
<1>5. KeepsProven
  BY <1>3 DEF MapInv, KeepsProven, Proven
<1>6. \A r \in Rebuilders : Disjoint(links', rebuild[r])
  BY <1>3 DEF MapInv, Disjoint
<1>7. MapInv'
  BY <1>2, <1>3, <1>4, <1>6 DEF MapInv, IsRebuild, IsLink, Disjoint, Pair, Key
<1> QED
  BY <1>5, <1>7

(* Every step keeps the map's invariant and the proven links. *)
LEMMA MapStep == MapInv /\ [TopoNext]_topoVars => MapInv' /\ [KeepsProven]_topoVars
<1> SUFFICES ASSUME MapInv, [TopoNext]_topoVars PROVE MapInv' /\ KeepsProven
  OBVIOUS
<1>1. ASSUME NEW r \in Rebuilders, rebuildTopology(r) PROVE MapInv' /\ KeepsProven
  <2>1. PICK b : b = [Rest EXCEPT !.pc = "build", !.todo = live]
    OBVIOUS
  <2>2. rebuild' = [rebuild EXCEPT ![r] = b] /\ UNCHANGED <<links, neighbors>>
    BY <1>1, <2>1 DEF rebuildTopology
  <2>3. /\ IsRebuild(b) /\ b.overlapped \in BOOLEAN /\ b.chosen = {}
        /\ Disjoint(links, b)
    BY <2>1 DEF IsRebuild, Rest, Disjoint
  <2> QED
    BY <2>2, <2>3, RebuildMoves
<1>2. ASSUME NEW r \in Rebuilders, InferLinksFromFDB(r) PROVE MapInv' /\ KeepsProven
  <2>1. PICK pick \in SUBSET Observations : \E chosen \in SUBSET Attachments(pick) :
               rebuild' = [rebuild EXCEPT ![r] = [@ EXCEPT !.pc = "infer", !.chosen = chosen]]
    BY <1>2 DEF InferLinksFromFDB
  <2>2. PICK chosen \in SUBSET Attachments(pick) :
               rebuild' = [rebuild EXCEPT ![r] = [@ EXCEPT !.pc = "infer", !.chosen = chosen]]
    BY <2>1
  <2>3. PICK b : b = [rebuild[r] EXCEPT !.pc = "infer", !.chosen = chosen]
    OBVIOUS
  <2>4. rebuild' = [rebuild EXCEPT ![r] = b] /\ UNCHANGED <<links, neighbors>>
    BY <1>2, <2>2, <2>3 DEF InferLinksFromFDB, MapInv
  <2>5. IsRebuild(b) /\ b.overlapped \in BOOLEAN /\ b.chosen = chosen
    BY <2>3 DEF MapInv, IsRebuild
  <2>6. \A o \in Observations : IsLink(o) /\ o.src = "mac"
    BY DEF Observations, IsLink
  <2>7. \A o \in chosen : o \in Observations /\ Pair(o) \notin AuthPairs
    BY DEF Attachments
  <2>8. Disjoint(links, b)
    BY <2>5, <2>7 DEF Disjoint, AuthPairs, ListAllTopologyLinks
  <2> QED
    BY <2>4, <2>5, <2>6, <2>7, <2>8, RebuildMoves
<1>3. ASSUME NEW r \in Rebuilders, CleanupStaleLinks(r) PROVE MapInv' /\ KeepsProven
  <2>1. links' \subseteq links /\ rebuild' = [rebuild EXCEPT ![r] = Rest] /\ UNCHANGED neighbors
    BY <1>3 DEF CleanupStaleLinks, DeleteStaleTopologyLinks
  <2>2. /\ IsRebuild(Rest) /\ Rest.overlapped \in BOOLEAN /\ Rest.chosen = {}
        /\ Rest.pc # "infer"
    BY DEF IsRebuild, Rest
  <2>3. KeepsProven
    BY <2>1 DEF MapInv, KeepsProven, Proven
  <2>4. /\ rebuild' = [q \in Rebuilders |-> rebuild'[q]] /\ rebuild'[r] = Rest
        /\ \A q \in Rebuilders : q # r => rebuild'[q] = rebuild[q]
    BY <2>1 DEF MapInv
  <2>5. \A q \in Rebuilders : Disjoint(links', rebuild'[q])
    BY <2>1, <2>2, <2>4 DEF MapInv, Disjoint
  <2>6. MapInv'
    BY <2>1, <2>2, <2>4, <2>5 DEF MapInv, IsRebuild, IsLink, Disjoint, Pair, Key
  <2> QED
    BY <2>3, <2>6
<1>4. CASE NeighborChanges
  <2>1. PICK n : n.src \in Proven /\ neighbors' = Toggle(neighbors, n)
    BY <1>4 DEF NeighborChanges
  <2>2. \A x \in neighbors' : x.src \in Proven
    BY <2>1 DEF MapInv, Toggle
  <2>3. UNCHANGED <<links, rebuild>>
    BY <1>4 DEF NeighborChanges
  <2>4. KeepsProven
    BY <2>3 DEF MapInv, KeepsProven, Proven
  <2> QED
    BY <2>2, <2>3, <2>4 DEF MapInv, IsRebuild, IsLink, Disjoint, Pair, Key
<1>5. CASE MacsChange \/ DeleteDevice \/ UNCHANGED topoVars
  BY <1>5, LinksShrink DEF MacsChange, DeleteDevice, topoVars
<1> QED
  BY <1>1, <1>2, <1>3, <1>4, <1>5, ProvenStored, InferredStored, LinksAge DEF TopoNext

(* ProvenKept holds: for any network and any number of rebuilds at once the  *)
(* MAC tables replace a link a neighbour protocol proved only after another  *)
(* rebuild overtook the inference.                                           *)
THEOREM ProvenStands == TopoSpec => ProvenKept
<1>1. TopoInit => MapInv
  <2>1. /\ IsRebuild(Rest) /\ Rest.overlapped \in BOOLEAN /\ Rest.chosen = {}
        /\ Rest.pc # "infer"
    BY DEF IsRebuild, Rest
  <2> QED
    BY <2>1 DEF TopoInit, MapInv, Disjoint
<1>2. [KeepsProven]_topoVars <=>
        [\A l \in links, m \in links' :
           Key(l) = Key(m) /\ l.src \in Proven /\ m.src = "mac" =>
             \E r \in Rebuilders : rebuild[r].pc = "infer" /\ rebuild[r].overlapped]_topoVars
  BY DEF KeepsProven
<1> QED
  BY <1>1, <1>2, MapStep, PTL DEF TopoSpec, ProvenKept

-----------------------------------------------------------------------------
(* The catalogue (Catalog).  A key has one row at most, and a key an        *)
(* operator switched off has one, which is disabled: that row hides the     *)
(* built-in rule, so a seed has nothing to create for the key.              *)
IsRule(row) == /\ row = [x \in {"key", "source", "enabled", "value"} |-> row[x]]
               /\ row.source \in {"builtin", "user"} /\ row.enabled \in BOOLEAN

CatInv ==
  /\ rows = [i \in Ids |-> rows[i]]
  /\ \A i \in Stored : IsRule(rows[i])
  /\ \A i, j \in Stored : rows[i].key = rows[j].key => i = j
  /\ \A k \in off : \E i \in Stored : rows[i].key = k /\ ~rows[i].enabled

(* What SeedSparesOperatorRules says of one step. *)
SparesOperator ==
  seeding.plan # seeding'.plan =>
    \A i \in Stored : rows[i].source = "user" => rows'[i] = rows[i]

(* A row that is written is a rule and no empty place. *)
LEMMA RuleWritten ==
  ASSUME NEW k, NEW source \in {"builtin", "user"}, NEW enabled \in BOOLEAN, NEW value
  PROVE  LET row == FpRow(k, source, enabled, value)
         IN /\ IsRule(row) /\ row # NoFingerprint /\ row.key = k /\ row.enabled = enabled
            /\ row.source = source
<1>1. FpRow(k, source, enabled, value).source # NoFingerprint.source
  BY DEF FpRow, NoFingerprint
<1> QED
  BY <1>1 DEF FpRow, IsRule

(* One place of the table is written with a rule of a key no other place    *)
(* holds, and the switches follow.                                          *)
LEMMA RowWritten ==
  ASSUME CatInv, NEW i \in Ids, NEW row, IsRule(row), row # NoFingerprint,
         rows' = [rows EXCEPT ![i] = row], RowOf(row.key) \subseteq {i},
         \A k \in off' : (k = row.key /\ ~row.enabled)
                         \/ (k \in off /\ k # row.key /\ (i \in Stored => k # rows[i].key))
  PROVE  CatInv'
<1>1. /\ rows' = [j \in Ids |-> rows'[j]] /\ rows'[i] = row
      /\ \A j \in Ids : j # i => rows'[j] = rows[j]
  BY DEF CatInv
<1>2. Stored' = Stored \cup {i}
  BY <1>1 DEF Stored
<1>3. \A j \in Stored' : IsRule(rows'[j])
  BY <1>1, <1>2 DEF CatInv
<1>4. \A j \in Stored : rows[j].key = row.key => j = i
  BY DEF RowOf
<1>5. \A j, l \in Stored' : rows'[j].key = rows'[l].key => j = l
  BY <1>1, <1>2, <1>4 DEF CatInv, Stored
<1>6. ASSUME NEW k \in off' PROVE \E j \in Stored' : rows'[j].key = k /\ ~rows'[j].enabled
  <2>1. CASE k = row.key /\ ~row.enabled
    BY <1>1, <1>2, <2>1
  <2>2. CASE k \in off /\ k # row.key /\ (i \in Stored => k # rows[i].key)
    <3>1. PICK j \in Stored : rows[j].key = k /\ ~rows[j].enabled
      BY <2>2 DEF CatInv
    <3>2. j # i /\ j \in Ids
      BY <2>2, <3>1 DEF Stored
    <3> QED
      BY <1>1, <1>2, <3>1, <3>2
  <2> QED
    BY <1>6, <2>1, <2>2
<1> QED
  BY <1>1, <1>3, <1>5, <1>6 DEF CatInv, IsRule

(* A new row takes an empty place. *)
LEMMA RowCreated ==
  ASSUME CatInv, NEW k, NEW source \in {"builtin", "user"}, NEW enabled \in BOOLEAN, NEW value,
         CreateVendorFingerprint(k, source, enabled, value),
         off' = Switch(off, k, enabled) \/ (off' = off /\ enabled)
  PROVE  CatInv' /\ \A j \in Stored : rows'[j] = rows[j]
<1>1. PICK i \in Ids \ Stored : rows' = [rows EXCEPT ![i] = FpRow(k, source, enabled, value)]
  BY DEF CreateVendorFingerprint
<1>2. RowOf(k) = {}
  BY DEF CreateVendorFingerprint
<1>3. k \notin off
  BY <1>2 DEF CatInv, RowOf
<1>4. PICK row : /\ row = FpRow(k, source, enabled, value) /\ IsRule(row) /\ row # NoFingerprint
                 /\ row.key = k /\ row.enabled = enabled
  BY RuleWritten
<1>5. \A l \in off' : (l = row.key /\ ~row.enabled)
                      \/ (l \in off /\ l # row.key /\ (i \in Stored => l # rows[i].key))
  BY <1>3, <1>4 DEF Switch
<1>6. rows' = [rows EXCEPT ![i] = row] /\ RowOf(row.key) \subseteq {i}
  BY <1>1, <1>2, <1>4
<1>7. CatInv'
  BY <1>4, <1>5, <1>6, RowWritten
<1>8. \A j \in Stored : rows'[j] = rows[j]
  BY <1>6 DEF CatInv, Stored
<1> QED
  BY <1>7, <1>8

(* The last word is the operator's while the invariant holds. *)
LEMMA OffIsOff == CatInv => OptOutRespected
<1> SUFFICES ASSUME CatInv, NEW r \in scanFingerprintLibrary(TRUE) PROVE r.key \notin off
  BY DEF OptOutRespected
<1>1. CASE r \in dbToPrints
  <2>1. PICK j \in Stored : rows[j].enabled /\ r = rows[j]
    BY <1>1 DEF dbToPrints
  <2> QED
    BY <2>1 DEF CatInv
<1>2. CASE r \in {FpRow(k, "builtin", TRUE, "shipped") : k \in {l \in Shipped : RowOf(l) = {}}}
  <2>1. PICK k \in Shipped : RowOf(k) = {} /\ r = FpRow(k, "builtin", TRUE, "shipped")
    BY <1>2
  <2>2. r.key = k
    BY <2>1 DEF FpRow
  <2> QED
    BY <2>1, <2>2 DEF CatInv, RowOf
<1> QED
  BY <1>1, <1>2 DEF scanFingerprintLibrary

(* A step of the seed. *)
LEMMA SeedSteps ==
  ASSUME CatInv, SeedStep
  PROVE  CatInv' /\ SparesOperator
<1>0. off' = off
  BY DEF SeedStep
<1>1. ASSUME NEW a, SeedCreate(a) PROVE CatInv' /\ SparesOperator
  <2>1. CreateVendorFingerprint(a.key, "builtin", TRUE, "shipped")
    BY <1>1 DEF SeedCreate
  <2> QED
    BY <1>0, <2>1, RowCreated DEF SparesOperator
<1>2. ASSUME NEW a, SeedConflict(a) PROVE CatInv' /\ SparesOperator
  <2>1. rows' = rows
    BY <1>2 DEF SeedConflict
  <2>2. SparesOperator
    BY <2>1 DEF SparesOperator
  <2>3. Stored' = Stored
    BY <2>1 DEF Stored
  <2> QED
    BY <1>0, <2>1, <2>2, <2>3 DEF CatInv, IsRule
<1>3. ASSUME NEW a, SeedRefresh(a) PROVE CatInv' /\ SparesOperator
  <2>1. CASE rows' = rows
    <3>1. Stored' = Stored /\ SparesOperator
      BY <2>1 DEF Stored, SparesOperator
    <3> QED
      BY <1>0, <2>1, <3>1 DEF CatInv, IsRule
  <2>2. CASE rows' # rows
    <3>1. /\ a.id \in Stored /\ rows[a.id].source = "builtin"
          /\ rows' = [rows EXCEPT ![a.id].value = "shipped"]
      BY <1>3, <2>2 DEF SeedRefresh, RefreshBuiltinVendorFingerprint
    <3>2. PICK row : row = [rows[a.id] EXCEPT !.value = "shipped"]
      OBVIOUS
    <3>3. /\ IsRule(row) /\ row.key = rows[a.id].key /\ row.enabled = rows[a.id].enabled
          /\ row.source = "builtin"
      <4>1. IsRule(rows[a.id])
        BY <3>1 DEF CatInv
      <4> QED
        BY <3>1, <3>2, <4>1 DEF IsRule
    <3>4. row # NoFingerprint
      BY <3>3 DEF NoFingerprint
    <3>5. /\ rows' = [j \in Ids |-> rows'[j]] /\ rows'[a.id] = row
          /\ \A j \in Ids : j # a.id => rows'[j] = rows[j]
      BY <3>1, <3>2 DEF CatInv, Stored
    <3>6. Stored' = Stored
      BY <3>1, <3>4, <3>5 DEF Stored
    <3>7. \A j \in Stored : /\ IsRule(rows'[j]) /\ rows'[j].key = rows[j].key
                            /\ rows'[j].enabled = rows[j].enabled
      BY <3>3, <3>5 DEF CatInv, Stored
    <3>8. CatInv'
      <4>1. \A i, j \in Stored : rows'[i].key = rows'[j].key => i = j
        BY <3>7 DEF CatInv
      <4>2. \A k \in off : \E i \in Stored : rows'[i].key = k /\ ~rows'[i].enabled
        BY <3>7 DEF CatInv
      <4> QED
        BY <1>0, <3>5, <3>6, <3>7, <4>1, <4>2 DEF CatInv, IsRule
    <3>9. SparesOperator
      BY <3>1, <3>5 DEF SparesOperator, Stored
    <3> QED
      BY <3>8, <3>9
  <2> QED
    BY <2>1, <2>2
<1> QED
  BY <1>1, <1>2, <1>3 DEF SeedStep

(* An operator's request. *)
LEMMA OperatorSteps ==
  ASSUME CatInv, NEW k, NEW enabled \in BOOLEAN,
         \/ createVendorFingerprint(k, enabled)
         \/ \E i \in Stored : updateVendorFingerprint(i, k, enabled)
         \/ \E sourced \in BOOLEAN : importVendorFingerprints(k, enabled, sourced)
         \/ \E i \in Stored : deleteVendorFingerprint(i)
  PROVE  CatInv' /\ SparesOperator
<1>0. SparesOperator
  BY DEF SparesOperator, createVendorFingerprint, updateVendorFingerprint,
         importVendorFingerprints, deleteVendorFingerprint
<1>1. CASE createVendorFingerprint(k, enabled)
  BY <1>0, <1>1, RowCreated DEF createVendorFingerprint
<1>2. ASSUME NEW i \in Stored, updateVendorFingerprint(i, k, enabled) PROVE CatInv'
  <2>1. PICK value : UpdateVendorFingerprint(i, k, enabled, value)
    BY <1>2 DEF updateVendorFingerprint
  <2>2. rows[i].source \in {"builtin", "user"} /\ i \in Ids
    BY DEF CatInv, IsRule, Stored
  <2>3. PICK row : /\ row = FpRow(k, rows[i].source, enabled, value) /\ IsRule(row)
                   /\ row # NoFingerprint /\ row.key = k /\ row.enabled = enabled
    BY <2>2, RuleWritten
  <2>4. rows' = [rows EXCEPT ![i] = row] /\ RowOf(row.key) \subseteq {i}
    BY <2>1, <2>2, <2>3 DEF UpdateVendorFingerprint
  <2>5. off' = Switch(off \ {rows[i].key}, k, enabled)
    BY <1>2 DEF updateVendorFingerprint
  <2>6. \A l \in off' : (l = row.key /\ ~row.enabled)
                        \/ (l \in off /\ l # row.key /\ (i \in Stored => l # rows[i].key))
    BY <2>3, <2>5 DEF Switch
  <2> QED
    BY <2>2, <2>3, <2>4, <2>6, RowWritten
<1>3. ASSUME NEW sourced \in BOOLEAN, importVendorFingerprints(k, enabled, sourced) PROVE CatInv'
  <2>1. PICK e \in BOOLEAN : UpsertVendorFingerprint(k, e, "own") /\ off' = Switch(off, k, e)
    BY <1>3 DEF importVendorFingerprints
  <2>2. CASE CreateVendorFingerprint(k, "user", e, "own")
    BY <2>1, <2>2, RowCreated
  <2>3. CASE \E i \in RowOf(k) : rows' = [rows EXCEPT ![i] = FpRow(k, "user", e, "own")]
    <3>1. PICK i \in RowOf(k) : rows' = [rows EXCEPT ![i] = FpRow(k, "user", e, "own")]
      BY <2>3
    <3>2. i \in Stored /\ rows[i].key = k /\ i \in Ids
      BY DEF RowOf, Stored
    <3>3. PICK row : /\ row = FpRow(k, "user", e, "own") /\ IsRule(row)
                     /\ row # NoFingerprint /\ row.key = k /\ row.enabled = e
      BY RuleWritten
    <3>4. RowOf(row.key) \subseteq {i}
      BY <3>2, <3>3 DEF RowOf, CatInv
    <3>5. \A l \in off' : (l = row.key /\ ~row.enabled)
                          \/ (l \in off /\ l # row.key /\ (i \in Stored => l # rows[i].key))
      BY <2>1, <3>2, <3>3 DEF Switch
    <3>6. rows' = [rows EXCEPT ![i] = row]
      BY <3>1, <3>3
    <3> QED
      BY <3>2, <3>3, <3>4, <3>5, <3>6, RowWritten
  <2> QED
    BY <2>1, <2>2, <2>3 DEF UpsertVendorFingerprint
<1>4. ASSUME NEW i \in Stored, deleteVendorFingerprint(i) PROVE CatInv'
  <2>1. rows' = [rows EXCEPT ![i] = NoFingerprint] /\ off' = off \ {rows[i].key}
    BY <1>4 DEF deleteVendorFingerprint, DeleteVendorFingerprint
  <2>2. /\ rows' = [j \in Ids |-> rows'[j]] /\ rows'[i] = NoFingerprint
        /\ \A j \in Ids : j # i => rows'[j] = rows[j]
    BY <2>1 DEF CatInv, Stored
  <2>3. Stored' = Stored \ {i}
    BY <2>2 DEF Stored
  <2>4. \A j \in Stored' : j \in Stored /\ rows'[j] = rows[j]
    BY <2>2, <2>3 DEF Stored
  <2>5. ASSUME NEW l \in off' PROVE \E j \in Stored' : rows'[j].key = l /\ ~rows'[j].enabled
    <3>1. PICK j \in Stored : rows[j].key = l /\ ~rows[j].enabled
      BY <2>1, <2>5 DEF CatInv
    <3>2. j # i
      BY <2>1, <2>5, <3>1
    <3> QED
      BY <2>3, <2>4, <3>1, <3>2
  <2> QED
    <3>1. \A j \in Stored' : IsRule(rows'[j])
      BY <2>4 DEF CatInv
    <3>2. \A j, l \in Stored' : rows'[j].key = rows'[l].key => j = l
      BY <2>4 DEF CatInv
    <3> QED
      BY <2>2, <2>5, <3>1, <3>2 DEF CatInv, IsRule
<1> QED
  BY <1>0, <1>1, <1>2, <1>3, <1>4

(* What an earlier release seeded: one row for each key. *)
LEMMA CatFirst == CatInit => CatInv
<1> SUFFICES ASSUME CatInit PROVE CatInv
  OBVIOUS
<1>1. PICK seeded \in SUBSET Shipped, place \in [Shipped -> Ids] :
        rows = [i \in Ids |-> IF \E k \in seeded : place[k] = i
                              THEN FpRow(CHOOSE k \in seeded : place[k] = i, "builtin", TRUE, "old")
                              ELSE NoFingerprint]
  BY DEF CatInit
<1>2. off = {}
  BY DEF CatInit
<1>3. ASSUME NEW i \in Stored
      PROVE  \E k : place[k] = i /\ rows[i] = FpRow(k, "builtin", TRUE, "old")
  <2>1. i \in Ids /\ \E k \in seeded : place[k] = i
    BY <1>1, <1>3 DEF Stored
  <2>2. PICK k : k = CHOOSE l \in seeded : place[l] = i
    OBVIOUS
  <2>3. place[k] = i
    BY <2>1, <2>2
  <2>4. rows[i] = FpRow(k, "builtin", TRUE, "old")
    BY <1>1, <2>1, <2>2
  <2> QED
    BY <2>3, <2>4
<1>4. ASSUME NEW k
      PROVE  IsRule(FpRow(k, "builtin", TRUE, "old")) /\ FpRow(k, "builtin", TRUE, "old").key = k
  BY DEF FpRow, IsRule
<1>5. \A i, j \in Stored : rows[i].key = rows[j].key => i = j
  <2> SUFFICES ASSUME NEW i \in Stored, NEW j \in Stored, rows[i].key = rows[j].key PROVE i = j
    OBVIOUS
  <2>1. PICK k : place[k] = i /\ rows[i] = FpRow(k, "builtin", TRUE, "old")
    BY <1>3
  <2>2. PICK l : place[l] = j /\ rows[j] = FpRow(l, "builtin", TRUE, "old")
    BY <1>3
  <2>3. rows[i].key = k /\ rows[j].key = l
    BY <1>4, <2>1, <2>2
  <2> QED
    BY <2>1, <2>2, <2>3
<1>6. \A i \in Stored : IsRule(rows[i])
  BY <1>3, <1>4
<1>7. rows = [i \in Ids |-> rows[i]]
  BY <1>1
<1> QED
  BY <1>2, <1>5, <1>6, <1>7 DEF CatInv

(* OperatorRulesStand holds: for any table and library, whatever operators  *)
(* do while a seed works through its plan, the seed leaves their rules      *)
(* alone and no scan applies a rule they switched off.                      *)
THEOREM OperatorHasLastWord == CatSpec => OperatorRulesStand
<1>1. CatInv /\ [CatNext]_catVars => CatInv' /\ [SparesOperator]_catVars
  <2> SUFFICES ASSUME CatInv, [CatNext]_catVars PROVE CatInv' /\ SparesOperator
    OBVIOUS
  <2>1. CASE seedVendorFingerprints \/ SeedEnds \/ UNCHANGED catVars
    <3>1. rows' = rows /\ off' = off
      BY <2>1 DEF seedVendorFingerprints, SeedEnds, catVars
    <3>2. Stored' = Stored /\ SparesOperator
      BY <3>1 DEF Stored, SparesOperator
    <3> QED
      BY <3>1, <3>2 DEF CatInv, IsRule
  <2>2. CASE \E i \in Stored : deleteVendorFingerprint(i)
    <3>1. PICK k, enabled \in BOOLEAN : k = enabled
      OBVIOUS
    <3> QED
      BY <2>2, OperatorSteps
  <2> QED
    BY <2>1, <2>2, SeedSteps, OperatorSteps DEF CatNext
<1>2. [SparesOperator]_catVars <=>
        [seeding.plan # seeding'.plan =>
           \A i \in Stored : rows[i].source = "user" => rows'[i] = rows[i]]_catVars
  BY DEF SparesOperator
<1> QED
  BY <1>1, <1>2, CatFirst, OffIsOff, PTL DEF CatSpec, OperatorRulesStand, SeedSparesOperatorRules

-----------------------------------------------------------------------------
(* The probe of a host (Pipeline).  While nothing disturbs the probe the    *)
(* credential table and the subnet's set stand as they were; the candidates *)
(* of a scan that leaves the choice to HIMS are the subnet's; the host is   *)
(* shown candidates only, until the camera collection; and a candidate that *)
(* was tried and works is the one bound.                                    *)
IsScan(s) == /\ s = [x \in {"chosen", "groups", "extra", "explicit"} |-> s[x]]
             /\ s.extra \subseteq Creds /\ s.explicit \in BOOLEAN
Started == step \notin {"idle", "ports", "scope"}
Past == {c \in cands : /\ step = "snmp" => Kind[c] \in Snmp
                       /\ step \in {"snmp", "login"} => c \notin todo}

ProbeTypes ==
  /\ step \in {"idle", "ports", "scope", "snmp", "login", "classify", "cctv", "done"}
  /\ pipeFaults \in Nat /\ edits \in Nat
  /\ IsScan(scan) /\ stored \subseteq Creds /\ assigned \subseteq Creds /\ adding \subseteq Creds
  /\ cands \subseteq Creds /\ todo \subseteq cands
  /\ step = "snmp" => \A c \in todo : Kind[c] \in Snmp
  /\ step = "login" => \A c \in todo : Kind[c] \notin Snmp

ProbeInv ==
  /\ ProbeTypes
  /\ edits = 0 => stored = Creds /\ adding = {}
  /\ ~Started => cands = {}
  /\ step # "done" => presented \subseteq cands
  /\ Undisturbed /\ ~scan.explicit /\ assigned # {} => cands \subseteq assigned
  /\ ScopedSubnetNotSprayed
  /\ bound # Nobody => Attempt(bound, "success") \in attempts
  /\ Undisturbed => \A c \in Past : Works(c) => bound # Nobody


(* Whether a credential works depends on the host, its open ports, the plan *)
(* and the credential table.                                                *)
LEMMA WorksSame ==
  ASSUME UNCHANGED <<host, open, plan, stored>>, NEW c
  PROVE  Works(c)' <=> Works(c)
<1>1. SnmpAnswers(c)' <=> SnmpAnswers(c)
  BY DEF SnmpAnswers
<1>2. Tried(c)' <=> Tried(c)
  BY DEF Tried, portAllowsProto
<1>3. /\ testSSH(c)' = testSSH(c) /\ testHTTP(c)' = testHTTP(c)
      /\ testONVIF(c)' = testONVIF(c) /\ testWinRM(c)' = testWinRM(c)
  BY DEF testSSH, testHTTP, testONVIF, testWinRM
<1>4. Test(c)' = Test(c)
  BY <1>3 DEF Test
<1> QED
  BY <1>1, <1>2, <1>4 DEF Works

(* Once something has disturbed the probe only the shape of its state, what *)
(* it was shown and what it bound are left to keep.                         *)
LEMMA Disturbed ==
  ASSUME ProbeInv, ProbeTypes', edits' # 0, UNCHANGED <<bound, attempts, step, cands, presented>>
  PROVE  ProbeInv'
<1>1. ~Undisturbed'
  BY DEF Undisturbed
<1>2. (bound # Nobody => Attempt(bound, "success") \in attempts)'
  BY DEF ProbeInv, Attempt
<1> QED
  BY <1>1, <1>2 DEF ProbeInv, ScopedSubnetNotSprayed, Started

(* A step that leaves the candidates and the logins alone, and does not     *)
(* call a candidate past that was not.                                      *)
LEMMA ProbeMoves ==
  ASSUME ProbeInv, ProbeTypes',
         UNCHANGED <<host, stored, assigned, onboarded, edits, adding, scan, cands, bound, attempts,
                     presented, open, plan>>,
         pipeFaults' = 0 => pipeFaults = 0, Started' <=> Started, step = "idle" <=> step' = "idle",
         step = "done" => step' = "done", Undisturbed' => Past' \subseteq Past
  PROVE  ProbeInv'
<1>1. Undisturbed' => Undisturbed
  BY DEF Undisturbed
<1>2. Undisturbed' => \A c \in Past' : Works(c)' => bound' # Nobody
  BY <1>1, WorksSame DEF ProbeInv
<1> QED
  BY <1>1, <1>2 DEF ProbeInv, ScopedSubnetNotSprayed

(* A login attempt: candidate c leaves the list; if it works it is bound,   *)
(* and the success recorded.                                                *)
LEMMA Attempted ==
  ASSUME ProbeInv, ProbeTypes', NEW c \in todo, step \in {"snmp", "login"},
         UNCHANGED <<host, stored, assigned, onboarded, edits, adding, pipeFaults, scan, cands, open, plan>>,
         todo' = todo \ {c}, presented' \subseteq presented \cup {c},
         step' \in {step, "classify"}, step' = "classify" => bound' = c,
         bound' \in {bound, c}, attempts \subseteq attempts',
         bound' # bound => Attempt(bound', "success") \in attempts',
         Undisturbed /\ Works(c) => bound' = c
  PROVE  ProbeInv'
<1>1. c \in cands /\ c \in Creds /\ c # Nobody
  BY PipelineAssumption DEF ProbeInv, ProbeTypes, Nobody
<1>2. Undisturbed' <=> Undisturbed
  BY DEF Undisturbed
<1>3. ASSUME Undisturbed', NEW d \in Past', Works(d)' PROVE bound' # Nobody
  <2>1. Works(d)
    BY <1>3, WorksSame
  <2>2. CASE d = c
    BY <1>1, <1>2, <1>3, <2>1, <2>2
  <2>3. CASE step' = "classify"
    BY <1>1, <2>3
  <2>4. CASE d # c /\ step' = step
    <3>1. d \in Past
      BY <1>3, <2>4 DEF Past
    <3>2. bound # Nobody
      BY <1>2, <1>3, <2>1, <3>1 DEF ProbeInv
    <3> QED
      BY <1>1, <3>2
  <2> QED
    BY <2>2, <2>3, <2>4
<1>4. presented' \subseteq cands'
  BY <1>1 DEF ProbeInv
<1>5. ScopedSubnetNotSprayed'
  BY <1>2, <1>4 DEF ProbeInv, ScopedSubnetNotSprayed
<1>6. bound' # Nobody => Attempt(bound', "success") \in attempts'
  BY DEF ProbeInv, Attempt
<1>7. Started'
  BY DEF Started
<1>8. (bound # Nobody => Attempt(bound, "success") \in attempts)'
  BY <1>6 DEF Attempt
<1>9. (Undisturbed /\ ~scan.explicit /\ assigned # {} => cands \subseteq assigned)'
  BY <1>2 DEF ProbeInv
<1> QED
  BY <1>3, <1>4, <1>5, <1>7, <1>8, <1>9 DEF ProbeInv

(* The candidates: the explicit selection's, the subnet's, or everybody's.  *)
LEMMA Scoped ==
  ASSUME ProbeInv, NEW readable \in BOOLEAN, Scope(readable),
         \/ readable /\ UNCHANGED pipeFaults
         \/ pipeFaults' = pipeFaults + 1
  PROVE  ProbeInv'
<1>0. /\ step = "scope" /\ step' = "snmp" /\ todo' = {c \in cands' : Kind[c] \in Snmp}
      /\ UNCHANGED <<host, stored, assigned, onboarded, scopes, adding, edits, scan, session, bound,
                     authed, attempts, presented>>
  BY DEF Scope, edit, logins
<1>1. PICK exclusive :
        /\ cands' = Resolve(exclusive, scan.extra, open)
        /\ exclusive \subseteq Creds
        /\ Undisturbed' /\ ~scan.explicit => exclusive = assigned \cap stored
  <2> DEFINE chosen == scan.explicit /\ scan.extra # {}
             subnet == IF readable THEN SubnetScopedCredentials ELSE {}
             exclusive == IF chosen THEN scan.extra ELSE subnet
  <2>1. cands' = Resolve(exclusive, scan.extra, open)
    BY DEF Scope
  <2>2. exclusive \subseteq Creds
    BY DEF ProbeInv, ProbeTypes, IsScan, SubnetScopedCredentials, SubnetScopedCredentialsForIP
  <2>3. Undisturbed' => readable
    BY DEF Undisturbed, ProbeInv, ProbeTypes
  <2>4. Undisturbed' /\ ~scan.explicit => exclusive = assigned \cap stored
    BY <2>3 DEF SubnetScopedCredentials, SubnetScopedCredentialsForIP
  <2> QED
    BY <2>1, <2>2, <2>4
<1>2. cands' \subseteq Creds
  BY <1>1, PipelineAssumption
     DEF Resolve, CredentialCandidates, ResolveCandidatesForIP, ProbeInv, ProbeTypes, IsScan
<1>3. Undisturbed' => Undisturbed /\ edits = 0
  BY <1>0 DEF Undisturbed, ProbeInv, ProbeTypes
<1>4. ASSUME Undisturbed', ~scan.explicit, assigned # {} PROVE cands' \subseteq assigned
  <2>1. assigned \cap stored = assigned
    BY <1>3, <1>4 DEF ProbeInv, ProbeTypes
  <2> QED
    BY <1>1, <1>4, <2>1 DEF Resolve
<1>5. ProbeTypes'
  BY <1>0, <1>2 DEF ProbeInv, ProbeTypes, IsScan
<1>6. presented = {} /\ presented' = {}
  BY <1>0 DEF ProbeInv, Started
<1>7. Past' = {}
  BY <1>0 DEF Past
<1>8. ScopedSubnetNotSprayed'
  BY <1>6 DEF ScopedSubnetNotSprayed
<1>9. (bound # Nobody => Attempt(bound, "success") \in attempts)'
  BY <1>0 DEF ProbeInv, Attempt
<1> QED
  BY <1>0, <1>4, <1>5, <1>6, <1>7, <1>8, <1>9 DEF ProbeInv, Started

(* The camera collection shows the subnet's web logins, or the one the      *)
(* camera already has.                                                      *)
LEMMA CameraCollected ==
  ASSUME ProbeInv, NEW readable \in BOOLEAN, CollectCamera(readable),
         \/ readable /\ UNCHANGED pipeFaults
         \/ pipeFaults' = pipeFaults + 1
  PROVE  ProbeInv'
<1>0. /\ step = "cctv" /\ step' = "done"
      /\ UNCHANGED <<host, stored, assigned, scopes, adding, edits, scan, open, cands, order, todo,
                     plan, session, bound, authed, attempts>>
  BY DEF CollectCamera, edit, choice
<1> DEFINE web == IF onboarded # Nobody THEN {onboarded}
                  ELSE IF scan.explicit THEN WebOf(scan.extra) ELSE cctvWebCredsForScan(readable)
           good == web \cap stored \cap host.accepts
<1>1. PICK shown \in SUBSET (web \cap stored) :
        /\ good # {} => shown \cap good # {}
        /\ presented' = presented \cup shown
        /\ onboarded' = IF good = {} THEN onboarded ELSE CHOOSE c \in shown \cap good : TRUE
  BY DEF CollectCamera
<1>2. onboarded' = onboarded \/ onboarded' \in shown
  BY <1>1
<1>3. Undisturbed' => readable /\ Undisturbed
  BY <1>0 DEF Undisturbed, ProbeInv, ProbeTypes
<1>4. ASSUME Undisturbed', ~scan.explicit, assigned # {}
      PROVE  presented' \subseteq assigned \cup {onboarded'}
  <2>1. presented \subseteq assigned
    BY <1>0, <1>3, <1>4 DEF ProbeInv
  <2>2. CASE onboarded # Nobody
    BY <1>1, <1>2, <2>1, <2>2
  <2>3. CASE onboarded = Nobody
    <3>1. SubnetScopedCredentials = assigned
      BY <1>3, <1>4 DEF ProbeInv, ProbeTypes, Undisturbed, SubnetScopedCredentials,
                        SubnetScopedCredentialsForIP
    <3>2. web \subseteq assigned
      BY <1>3, <1>4, <2>3, <3>1 DEF cctvWebCredsForScan, WebOf
    <3> QED
      BY <1>1, <2>1, <3>2
  <2> QED
    BY <2>2, <2>3
<1>5. ScopedSubnetNotSprayed'
  BY <1>0, <1>4 DEF ScopedSubnetNotSprayed
<1>6. ProbeTypes'
  BY <1>0 DEF ProbeInv, ProbeTypes, IsScan
<1>7. ASSUME Undisturbed', NEW c \in Past', Works(c)' PROVE bound' # Nobody
  <2>1. c \in Past
    BY <1>0, <1>7 DEF Past
  <2>2. Works(c)
    BY <1>0, <1>7, WorksSame
  <2> QED
    BY <1>0, <1>3, <1>7, <2>1, <2>2 DEF ProbeInv
<1>8. (bound # Nobody => Attempt(bound, "success") \in attempts)'
  BY <1>0 DEF ProbeInv, Attempt
<1>9. (Undisturbed /\ ~scan.explicit /\ assigned # {} => cands \subseteq assigned)'
  BY <1>0, <1>3 DEF ProbeInv
<1> QED
  BY <1>0, <1>5, <1>6, <1>7, <1>8, <1>9 DEF ProbeInv, Started

(* Every step of the probe, and of the operator meanwhile. *)
LEMMA ProbeStep == ProbeInv /\ [PipeNext]_pipeVars => ProbeInv'
<1> SUFFICES ASSUME ProbeInv, [PipeNext]_pipeVars PROVE ProbeInv'
  OBVIOUS
<1> USE DEF pipeVars, world, edit, choice, logins
<1>1. ASSUME NEW chosen \in Selections, NEW groups \in BOOLEAN, LaunchScan(chosen, groups)
      PROVE  ProbeInv'
  <2>1. chosen \subseteq Creds
    BY PipelineAssumption
  <2>2. scanCredentialTier(chosen, groups) \subseteq Creds
    BY <2>1 DEF scanCredentialTier, ListCredentialCandidates, ListCredentialCandidatesByIDs,
                ListCredentialGroupMembers, ProbeInv, ProbeTypes
  <2>3. PICK explicit : explicit = (chosen # {} \/ groups)
    OBVIOUS
  <2>4. explicit \in BOOLEAN
    BY <2>3
  <2>5. scan' = [chosen |-> chosen, groups |-> groups, extra |-> scanCredentialTier(chosen, groups),
                 explicit |-> explicit]
    BY <1>1, <2>3 DEF LaunchScan
  <2>6. IsScan(scan')
    BY <2>2, <2>4, <2>5 DEF IsScan
  <2>7. /\ step = "idle" /\ step' = "ports"
        /\ UNCHANGED <<host, stored, assigned, onboarded, adding, edits, pipeFaults, cands, todo,
                       bound, attempts, presented, open, plan>>
    BY <1>1 DEF LaunchScan
  <2>8. cands = {} /\ presented = {} /\ Past' = {}
    BY <2>7 DEF ProbeInv, Started, Past
  <2>9. ProbeTypes'
    BY <2>6, <2>7 DEF ProbeInv, ProbeTypes, IsScan
  <2> QED
    BY <2>7, <2>8, <2>9 DEF ProbeInv, Started, ScopedSubnetNotSprayed, Attempt
<1>2. ASSUME NEW up \in BOOLEAN, scanPorts(up) PROVE ProbeInv'
  <2>1. /\ step = "ports" /\ step' = "scope"
        /\ UNCHANGED <<host, stored, assigned, onboarded, adding, edits, scan, cands, todo,
                       bound, attempts, presented>>
        /\ pipeFaults' \in {pipeFaults, pipeFaults + 1}
    BY <1>2 DEF scanPorts
  <2>2. cands = {} /\ presented = {} /\ Past' = {}
    BY <2>1 DEF ProbeInv, Started, Past
  <2>3. ProbeTypes'
    BY <2>1 DEF ProbeInv, ProbeTypes, IsScan
  <2> QED
    BY <2>1, <2>2, <2>3 DEF ProbeInv, Started, ScopedSubnetNotSprayed, Attempt
<1>3. CASE ReadScope \/ ScopeUnreadable
  BY <1>3, Scoped DEF ReadScope, ScopeUnreadable, PipeFault
<1>4. CASE TrySNMP
  <2>1. PICK c \in todo :
          LET tried == c \in stored
              works == tried /\ SnmpAnswers(c)
          IN /\ todo' = todo \ {c}
             /\ presented' = presented \cup (IF tried THEN {c} ELSE {})
             /\ bound' = IF works THEN c ELSE bound
             /\ attempts' = IF works THEN attempts \cup {Attempt(c, "success")}
                            ELSE IF tried THEN snmpAttempt(c) ELSE attempts
             /\ step' = IF works THEN "classify" ELSE step
    BY <1>4 DEF TrySNMP, First
  <2>2. /\ step = "snmp"
        /\ UNCHANGED <<host, stored, assigned, onboarded, edits, adding, pipeFaults, scan, cands,
                       open, plan>>
    BY <1>4 DEF TrySNMP
  <2>3. Kind[c] \in Snmp
    BY <2>2 DEF ProbeInv, ProbeTypes
  <2>4. attempts \subseteq attempts'
    BY <2>1 DEF snmpAttempt
  <2>5. ProbeTypes'
    BY <2>1, <2>2 DEF ProbeInv, ProbeTypes, IsScan
  <2>6. Undisturbed => c \in stored
    BY DEF ProbeInv, ProbeTypes, Undisturbed
  <2>7. Undisturbed /\ Works(c) => bound' = c
    BY <2>1, <2>3, <2>6 DEF Works
  <2>8. bound' # bound => Attempt(bound', "success") \in attempts'
    BY <2>1
  <2>9. /\ presented' \subseteq presented \cup {c} /\ step' \in {step, "classify"}
        /\ bound' \in {bound, c} /\ (step' = "classify" => bound' = c)
    BY <2>1, <2>2
  <2> QED
    BY <2>1, <2>2, <2>3, <2>4, <2>5, <2>7, <2>8, <2>9, Attempted
<1>5. CASE TryLogin
  <2>1. PICK c \in todo :
          LET ok == Tried(c) /\ Test(c) = "success"
          IN /\ todo' = todo \ {c}
             /\ presented' = presented \cup (IF Tried(c) THEN {c} ELSE {})
             /\ attempts' = IF Tried(c) THEN attempts \cup {Attempt(c, Test(c))} ELSE attempts
             /\ bound' = IF ok THEN c ELSE bound
             /\ step' = IF ok THEN "classify" ELSE step
    BY <1>5 DEF TryLogin, First
  <2>2. /\ step = "login"
        /\ UNCHANGED <<host, stored, assigned, onboarded, edits, adding, pipeFaults, scan, cands,
                       open, plan>>
    BY <1>5 DEF TryLogin
  <2>3. Kind[c] \notin Snmp
    BY <2>2 DEF ProbeInv, ProbeTypes
  <2>4. attempts \subseteq attempts'
    BY <2>1
  <2>5. ProbeTypes'
    BY <2>1, <2>2 DEF ProbeInv, ProbeTypes, IsScan
  <2>6. Works(c) => bound' = c
    BY <2>1, <2>3 DEF Works
  <2>7. bound' # bound => Attempt(bound', "success") \in attempts'
    BY <2>1
  <2>8. /\ presented' \subseteq presented \cup {c} /\ step' \in {step, "classify"}
        /\ bound' \in {bound, c} /\ (step' = "classify" => bound' = c)
    BY <2>1, <2>2
  <2> QED
    BY <2>1, <2>2, <2>4, <2>5, <2>6, <2>7, <2>8, Attempted
<1>6. CASE DefaultCommunities \/ NoLogin \/ PipeDeadline \/ Finish
  <2>1. /\ UNCHANGED <<host, stored, assigned, onboarded, edits, adding, scan, cands, bound, attempts,
                       presented, open, plan>>
        /\ pipeFaults' \in {pipeFaults, pipeFaults + 1}
        /\ step \in {"snmp", "login", "classify"} /\ step' \in {"login", "classify", "cctv", "done"}
    BY <1>6 DEF DefaultCommunities, NoLogin, PipeDeadline, Finish, PipeFault
  <2>2. ProbeTypes'
    <3>1. /\ todo' \subseteq cands
          /\ step' = "login" => \A c \in todo' : Kind[c] \notin Snmp
      BY <1>6, <2>1 DEF DefaultCommunities, NoLogin, PipeDeadline, Finish, ProbeInv, ProbeTypes
    <3> QED
      BY <2>1, <3>1 DEF ProbeInv, ProbeTypes, IsScan
  <2>3. Undisturbed' => Past' \subseteq Past
    BY <1>6, <2>1 DEF DefaultCommunities, NoLogin, PipeDeadline, Finish, PipeFault, Past,
                      Undisturbed, ProbeInv, ProbeTypes
  <2>4. /\ pipeFaults' = 0 => pipeFaults = 0
        /\ Started' <=> Started /\ (step = "idle" <=> step' = "idle")
        /\ step # "done"
    BY <2>1 DEF ProbeInv, ProbeTypes, Started
  <2> QED
    BY <2>1, <2>2, <2>3, <2>4, ProbeMoves
<1>7. CASE CameraScopeRead \/ CameraScopeUnreadable
  BY <1>7, CameraCollected DEF CameraScopeRead, CameraScopeUnreadable, PipeFault
<1>8. ASSUME NEW set \in Scopes, ClearSubnetCredentials(set) PROVE ProbeInv'
  <2>1. set \subseteq Creds
    BY PipelineAssumption
  <2>2. /\ edits' = edits + 1 /\ assigned' = {} /\ adding' = set
        /\ UNCHANGED <<stored, pipeFaults, scan, step, cands, todo, bound, attempts, presented>>
    BY <1>8 DEF ClearSubnetCredentials, EditPossible
  <2>3. ProbeTypes' /\ edits' # 0
    BY <2>1, <2>2 DEF ProbeInv, ProbeTypes, IsScan
  <2> QED
    BY <2>2, <2>3, Disturbed
<1>9. CASE AddSubnetCredential
  <2>1. /\ adding # {} /\ adding' \subseteq adding /\ assigned' \subseteq assigned \cup adding
        /\ UNCHANGED <<stored, edits, pipeFaults, scan, step, cands, todo, bound, attempts, presented>>
    BY <1>9 DEF AddSubnetCredential
  <2>2. ProbeTypes' /\ edits' # 0
    BY <2>1 DEF ProbeInv, ProbeTypes, IsScan
  <2> QED
    BY <2>1, <2>2, Disturbed
<1>10. ASSUME NEW c \in Creds, deleteCredential(c) PROVE ProbeInv'
  <2>1. /\ edits' = edits + 1 /\ stored' \subseteq stored /\ assigned' \subseteq assigned
        /\ adding' \subseteq adding
        /\ UNCHANGED <<pipeFaults, scan, step, cands, todo, bound, attempts, presented>>
    BY <1>10 DEF deleteCredential, EditPossible
  <2>2. ProbeTypes' /\ edits' # 0
    BY <2>1 DEF ProbeInv, ProbeTypes, IsScan
  <2> QED
    BY <2>1, <2>2, Disturbed
<1>11. CASE UNCHANGED pipeVars
  <2>1. ProbeTypes' /\ (Past' = Past) /\ (Started' <=> Started)
    BY <1>11 DEF ProbeInv, ProbeTypes, IsScan, Past, Started
  <2> QED
    BY <1>11, <2>1, ProbeMoves
<1> QED
  BY <1>1, <1>2, <1>3, <1>4, <1>5, <1>6, <1>7, <1>8, <1>9, <1>10, <1>11 DEF PipeNext

(* The probe's invariant holds throughout. *)
LEMMA Probed == PipeSpec => []ProbeInv
<1>1. ASSUME PipeInit PROVE ProbeInv
  <2>1. /\ step = "idle" /\ pipeFaults = 0 /\ edits = 0 /\ scan = NoScan /\ stored = Creds
        /\ assigned \subseteq Creds /\ adding = {} /\ cands = {} /\ todo = {} /\ presented = {}
        /\ bound = Nobody
    BY <1>1, PipelineAssumption DEF PipeInit
  <2>2. IsScan(NoScan)
    BY DEF IsScan, NoScan
  <2> QED
    BY <2>1, <2>2 DEF ProbeInv, ProbeTypes, Started, ScopedSubnetNotSprayed, Past
<1> QED
  BY <1>1, ProbeStep, PTL DEF PipeSpec

(* ScopedSubnetNotSprayed is an invariant: for any host, credentials and    *)
(* scopes an undisturbed scan without a selection shows a host of a subnet  *)
(* with credentials only those, or the login an onboarded camera has.       *)
THEOREM NotSprayed == PipeSpec => []ScopedSubnetNotSprayed
<1>1. ProbeInv => ScopedSubnetNotSprayed
  BY DEF ProbeInv
<1> QED
  BY <1>1, Probed, PTL

(* WorkingLoginBinds is an invariant: for any host and candidates an        *)
(* undisturbed probe that ends with a candidate that works has bound one,   *)
(* and recorded its success.                                                *)
THEOREM WorkingBinds == PipeSpec => []WorkingLoginBinds
<1>1. ProbeInv => WorkingLoginBinds
  BY DEF ProbeInv, WorkingLoginBinds, Past
<1> QED
  BY <1>1, Probed, PTL

-----------------------------------------------------------------------------
(* The classification (Fingerprints).  The drivers claim a category with    *)
(* confidence 90 for an enterprise number only, and then one that is its    *)
(* own canonical name; a rule of the catalogue that matches an enterprise   *)
(* number is surer than any login.                                          *)

(* A non-empty set of natural numbers has a minimal element of any          *)
(* well-founded relation.                                                   *)
LEMMA MinimalElement ==
  ASSUME NEW S, S \subseteq Nat, S # {}, NEW R, IsWellFoundedOn(R, Nat)
  PROVE  \E x \in S : \A y \in S : ~(<<y, x>> \in R)
  BY WFMin, Zenon

(* It has a least one by any well-founded relation that holds <. *)
LEMMA LeastBy ==
  ASSUME NEW S, S \subseteq Nat, S # {}, NEW R, IsWellFoundedOn(R, Nat),
         \A x, y \in Nat : x < y => <<x, y>> \in R
  PROVE  \E k \in S : \A l \in S : k <= l
<1>1. PICK x \in S : \A y \in S : ~(<<y, x>> \in R)
  BY MinimalElement
<1>2. \A y \in S : ~(y < x)
  BY <1>1
<1> QED
  BY <1>2

(* The least number principle, for sets. *)
LEMMA LeastNumber ==
  ASSUME NEW S, S \subseteq Nat, S # {}
  PROVE  \E k \in S : \A l \in S : k <= l
<1> DEFINE R == OpToRel(<, Nat)
<1>1. IsWellFoundedOn(R, Nat)
  BY NatLessThanWellFounded
<1>2. \A x, y \in Nat : x < y => <<x, y>> \in R
  BY DEF OpToRel
<1> HIDE DEF R
<1> QED
  BY <1>1, <1>2, LeastBy, Zenon

Gear == {"switch", "firewall", "virtual_host"}
SoundClaim(c) == c.conf \in 0 .. 100 /\ (c.conf = 90 => c.cat \in Gear)
SoundRule(r) == /\ r.conf \in 0 .. 100 /\ r.kind \in {"oid", "service", "http", "ssh", "port"}
                /\ r.kind = "oid" => r.conf >= 65

(* Every driver's claim is sound. *)
LEMMA DriversSound ==
  ASSUME NEW p
  PROVE  DOMAIN Builtin(p) = 1 .. 15 /\ \A i \in 1 .. 15 : SoundClaim(Builtin(p)[i])
<1>0. ASSUME NEW prefixes, NEW words, NEW cat \in Gear
      PROVE  SoundClaim(ByEnterprise(p, prefixes, words, cat, 90, 70))
  BY DEF ByEnterprise, SoundClaim, Claim, NoMatch
<1>1. /\ SoundClaim(cisco(p)) /\ SoundClaim(huawei(p)) /\ SoundClaim(extremesw(p))
      /\ SoundClaim(esxi(p)) /\ SoundClaim(hostsnmp(p))
  <2>1. "switch" \in Gear /\ "firewall" \in Gear /\ "virtual_host" \in Gear
    BY DEF Gear
  <2>2. SoundClaim(cisco(p))
    BY <1>0, <2>1, Zenon DEF cisco
  <2>3. SoundClaim(huawei(p))
    BY <1>0, <2>1, Zenon DEF huawei
  <2>4. SoundClaim(extremesw(p))
    BY <1>0, <2>1, Zenon DEF extremesw
  <2>5. SoundClaim(esxi(p))
    BY <1>0, <2>1, Zenon DEF esxi
  <2>6. SoundClaim(hostsnmp(p))
    <3>1. ASSUME NEW prefixes, NEW words, NEW cat
          PROVE  SoundClaim(ByEnterprise(p, prefixes, words, cat, 80, 55))
      BY DEF ByEnterprise, SoundClaim, Claim, NoMatch
    <3> QED
      BY <3>1, Zenon DEF hostsnmp
  <2> QED
    BY <2>2, <2>3, <2>4, <2>5, <2>6
<1>2. SoundClaim(NoMatch)
  BY DEF SoundClaim, NoMatch
<1>3. ASSUME NEW cat, NEW conf \in 0 .. 89 PROVE SoundClaim(Claim(cat, conf))
  BY DEF SoundClaim, Claim
<1>4. SoundClaim(fortigate(p))
  <2>1. SoundClaim(Claim("firewall", 90))
    BY DEF SoundClaim, Claim, Gear
  <2>2. SoundClaim(ByEnterprise(p, {<<"12356">>}, {"fortigate"}, "firewall", 90, 70))
    <3>1. "firewall" \in Gear
      BY DEF Gear
    <3> QED
      BY <1>0, <3>1, Zenon
  <2> QED
    BY <2>1, <2>2 DEF fortigate
<1>5. SoundClaim(aruba(p))
  <2>1. SoundClaim(ByEnterprise(p, {<<"11">>, <<"14823">>, <<"47196">>}, {"aruba"}, "switch", 90, 70))
    <3>1. "switch" \in Gear
      BY DEF Gear
    <3> QED
      BY <1>0, <3>1, Zenon
  <2> QED
    BY <1>2, <2>1 DEF aruba
<1>6. SoundClaim(cctv(p)) /\ SoundClaim(wireless(p))
  BY <1>2, <1>3 DEF cctv, wireless
<1>7. SoundClaim(cucm(p)) /\ SoundClaim(redfish(p)) /\ SoundClaim(vsphere(p)) /\ SoundClaim(webapp(p))
  <2>0. \A cat : SoundClaim(Claim(cat, 75)) /\ SoundClaim(Claim(cat, 72))
    BY <1>3
  <2>1. SoundClaim(cucm(p)) /\ SoundClaim(redfish(p))
    BY <1>2, <2>0, Zenon DEF cucm, redfish
  <2>2. SoundClaim(vsphere(p)) /\ SoundClaim(webapp(p))
    BY <1>2, <1>3 DEF vsphere, webapp
  <2> QED
    BY <2>1, <2>2
<1>8. SoundClaim(printer(p)) /\ SoundClaim(ups(p))
  BY <1>2, <1>3 DEF printer, ups
<1>9. DOMAIN Builtin(p) = 1 .. 15
  BY DEF Builtin
<1>10. \A i \in 1 .. 15 : SoundClaim(Builtin(p)[i])
  BY <1>1, <1>4, <1>5, <1>6, <1>7, <1>8 DEF Builtin
<1> QED
  BY <1>9, <1>10

(* And so is the best of them. *)
LEMMA BestSound ==
  ASSUME NEW p
  PROVE  SoundClaim(Best(p))
<1> DEFINE claims == Builtin(p)
           doubts == {100 - claims[i].conf : i \in 1 .. 15}
           wins == {i \in DOMAIN claims : \A j \in DOMAIN claims : claims[j].conf <= claims[i].conf}
<1>1. \A i \in 1 .. 15 : claims[i].conf \in 0 .. 100
  BY DriversSound DEF SoundClaim
<1>2. DOMAIN claims = 1 .. 15
  BY DriversSound
<1> HIDE DEF claims
<1>3. doubts \subseteq Nat /\ doubts # {}
  <2>0. \A a \in 0 .. 100 : 100 - a \in Nat
    OBVIOUS
  <2>1. \A i \in 1 .. 15 : 100 - claims[i].conf \in Nat
    BY <1>1, <2>0, Zenon
  <2>2. 1 \in 1 .. 15
    OBVIOUS
  <2>3. 100 - claims[1].conf \in doubts
    BY <2>2
  <2> QED
    BY <2>1, <2>3
<1> HIDE DEF doubts
<1>4. PICK k \in doubts : \A l \in doubts : k <= l
  BY <1>3, LeastNumber
<1>5. PICK i \in wins : TRUE
  <2>1. PICK i \in 1 .. 15 : k = 100 - claims[i].conf
    BY <1>4 DEF doubts
  <2>2. ASSUME NEW j \in 1 .. 15 PROVE claims[j].conf <= claims[i].conf
    <3>1. k <= 100 - claims[j].conf
      BY <1>4 DEF doubts
    <3>2. PICK a, b : a = claims[i].conf /\ b = claims[j].conf
      OBVIOUS
    <3>3. a \in 0 .. 100 /\ b \in 0 .. 100 /\ 100 - a <= 100 - b
      BY <1>1, <2>1, <3>1, <3>2
    <3>4. b <= a
      BY <3>3
    <3> QED
      BY <3>2, <3>4
  <2> QED
    BY <1>2, <2>2
<1>6. wins \subseteq Nat /\ wins # {} /\ wins \subseteq 1 .. 15
  BY <1>2, <1>5
<1>7. \E m \in wins : \A n \in wins : m <= n
  BY <1>6, LeastNumber
<1>8. Min(wins) \in wins
  BY <1>7 DEF Min
<1>9. Best(p) = claims[Min(wins)]
  BY DEF Best, claims
<1>10. SoundClaim(claims[Min(wins)])
  BY <1>6, <1>8, DriversSound DEF claims
<1> QED
  BY <1>9, <1>10

(* The rules of the catalogue. *)
LEMMA LibrarySound == \A r \in Library : SoundRule(r)
  BY SMTT(60) DEF Library, SoundRule, OidRule, WordRule, Rule

(* The rule that is applied is one of those that match, and none is surer.  *)
LEMMA TopIsSurest ==
  ASSUME NEW p, MatchWithRejected(p, Library) # {}
  PROVE  LET top == TopMatch(MatchWithRejected(p, Library))
         IN /\ top \in MatchWithRejected(p, Library)
            /\ \A r \in MatchWithRejected(p, Library) : r.conf <= top.conf
<1> DEFINE winners == MatchWithRejected(p, Library)
           Doubt(r) == (100 - r.conf) * 10 + kindRank(r.kind)
           doubts == {Doubt(r) : r \in winners}
<1>1. \A r \in winners : SoundRule(r)
  BY LibrarySound DEF MatchWithRejected, Matches
<1>2. ASSUME NEW kind \in {"oid", "service", "http", "ssh", "port"} PROVE kindRank(kind) \in 1 .. 6
  <2>1. \E i \in 1 .. 6 : <<"oid", "service", "sysname", "http", "ssh", "port">>[i] = kind
    OBVIOUS
  <2> QED
    BY <2>1 DEF kindRank
<1>3. \A r \in winners : r.conf \in 0 .. 100 /\ kindRank(r.kind) \in 1 .. 6
  BY <1>1, <1>2 DEF SoundRule
<1> HIDE DEF winners
<1>4. doubts \subseteq Nat /\ doubts # {}
  <2>1. winners # {}
    BY DEF winners
  <2> QED
    BY <1>3, <2>1
<1>5. PICK k \in doubts : \A l \in doubts : k <= l
  BY <1>4, LeastNumber
<1>6. PICK r \in winners : k = Doubt(r)
  BY <1>5
<1>7. ASSUME NEW q \in winners
      PROVE  \/ r.conf > q.conf
             \/ r.conf = q.conf /\ kindRank(r.kind) <= kindRank(q.kind)
  <2>1. Doubt(r) <= Doubt(q)
    BY <1>5, <1>6
  <2>2. PICK a, b, c, d : a = r.conf /\ b = q.conf /\ c = kindRank(r.kind) /\ d = kindRank(q.kind)
    OBVIOUS
  <2>3. /\ a \in 0 .. 100 /\ b \in 0 .. 100 /\ c \in 1 .. 6 /\ d \in 1 .. 6
        /\ (100 - a) * 10 + c <= (100 - b) * 10 + d
    BY <1>3, <2>1, <2>2
  <2>4. a > b \/ (a = b /\ c <= d)
    BY <2>3
  <2> QED
    BY <2>2, <2>4
<1>8. /\ TopMatch(winners) \in winners
      /\ \A q \in winners : \/ TopMatch(winners).conf > q.conf
                            \/ TopMatch(winners).conf = q.conf
  BY <1>7 DEF TopMatch
<1>9. \A q \in winners : q.conf <= TopMatch(winners).conf
  BY <1>3, <1>8
<1> QED
  BY <1>8, <1>9 DEF winners

(* Gear a driver knows by its enterprise number, for which the catalogue    *)
(* has a rule of that number and none that disagrees, keeps its category    *)
(* whatever login worked.                                                   *)
LEMMA GearKept ==
  ASSUME NEW p, NEW kind, NEW candidate, Best(p).conf = 90,
         \E r \in MatchWithRejected(p, Library) : r.kind = "oid",
         \A r \in MatchWithRejected(p, Library) : r.type = Best(p).cat
  PROVE  Classify(p, kind, candidate, Library).cat = Best(p).cat
<1> DEFINE driver == Best(p)
           winners == MatchWithRejected(p, Library)
           top == TopMatch(winners)
           m == AfterLogin(driver, kind, candidate)
<1>1. driver.cat \in Gear
  BY BestSound DEF SoundClaim
<1>2. top \in winners /\ \A r \in winners : r.conf <= top.conf
  BY TopIsSurest
<1>3. PICK r \in winners : r.kind = "oid"
  OBVIOUS
<1>4. \A q \in winners : SoundRule(q)
  BY LibrarySound DEF MatchWithRejected, Matches
<1>5. top.conf >= 65 /\ top.type = driver.cat /\ top.conf \in Nat
  BY <1>2, <1>3, <1>4 DEF SoundRule
<1>6. CanonicalCategory(driver.cat) = driver.cat
  BY <1>1 DEF CanonicalCategory, Gear
<1>7. m = driver \/ m.conf \in {40, 60}
  BY DEF AfterLogin, Claim
<1>8. Classify(p, kind, candidate, Library) =
        IF winners # {} /\ top.conf >= m.conf
        THEN Claim(CanonicalCategory(top.type), top.conf) ELSE m
  BY DEF Classify, applyFingerprints
<1> HIDE DEF driver, winners, top, m
<1>9. CASE m = driver
  BY <1>5, <1>6, <1>8, <1>9 DEF Claim, driver
<1>10. CASE m.conf \in {40, 60}
  BY <1>2, <1>5, <1>6, <1>8, <1>10 DEF Claim, driver
<1> QED
  BY <1>7, <1>9, <1>10

(* What was decided stands on what the probe still sees. *)
MatchInv ==
  step \in {"cctv", "done"} =>
    match = IF Alive THEN Classify(Seen, authed, plan.candidate, Library) ELSE NoMatch

(* EnterpriseIdentityKept is an invariant: for any host, whatever login     *)
(* worked, a vendor the catalogue knows keeps the category its driver gave. *)
THEOREM IdentityKept == PipeSpec => []EnterpriseIdentityKept
<1>1. ASSUME PipeInit PROVE MatchInv
  <2>1. step = "idle"
    BY <1>1 DEF PipeInit
  <2> QED
    BY <2>1 DEF MatchInv
<1>2. ASSUME MatchInv, [PipeNext]_pipeVars PROVE MatchInv'
  <2> USE DEF pipeVars, world, edit, choice, logins
  <2>1. CASE Finish
    <3>1. Seen' = Seen /\ (Alive' <=> Alive) /\ authed' = authed /\ plan' = plan
      BY <2>1 DEF Finish, Seen, Alive
    <3>2. match' = IF Alive THEN Classify(Seen, authed, plan.candidate, Library) ELSE NoMatch
      BY <2>1 DEF Finish
    <3> QED
      BY <3>1, <3>2 DEF MatchInv
  <2>2. ASSUME step' \in {"cctv", "done"}, ~Finish
        PROVE  step \in {"cctv", "done"} /\ UNCHANGED <<host, open, session, authed, plan, match>>
    BY <1>2, <2>2 DEF PipeNext, LaunchScan, scanPorts, ReadScope, ScopeUnreadable, Scope, TrySNMP,
         DefaultCommunities, TryLogin, NoLogin, PipeDeadline, CameraScopeRead,
         CameraScopeUnreadable, CollectCamera, ClearSubnetCredentials, AddSubnetCredential,
         deleteCredential
  <2>3. UNCHANGED <<host, open, session>> => Seen' = Seen /\ (Alive' <=> Alive)
    BY DEF Seen, Alive
  <2>4. CASE ~Finish
    BY <1>2, <2>2, <2>3, <2>4 DEF MatchInv
  <2> QED
    BY <2>1, <2>4
<1>3. ASSUME MatchInv PROVE EnterpriseIdentityKept
  <2>1. session => Alive
    BY DEF Alive
  <2> QED
    BY <1>3, <2>1, GearKept DEF MatchInv, EnterpriseIdentityKept
<1> QED
  BY <1>1, <1>2, <1>3, PTL DEF PipeSpec

-----------------------------------------------------------------------------
(* Searches (Topology).  A path of the finder meets no device twice; it    *)
(* reaches the edge with its last hop only, and takes a hop to the edge    *)
(* from every device that has one, since only the edge ranks lowest and no *)
(* visited device is one.                                                  *)
Hops == [to : {l.to : l \in links} \cup Devices, src : {l.src : l \in links} \cup {"mac"}]

SoundPath(p) ==
  /\ p \in Seq(Hops) /\ Len(p) >= 1
  /\ \A j, k \in 1 .. Len(p) : p[j].to = p[k].to => j = k
  /\ \A k \in 1 .. Len(p) : k < Len(p) => p[k].to \notin Firewalls
  /\ \A k \in 1 .. Len(p) :
       k < Len(p) /\ (\E l \in links : l.at = p[k].to /\ l.to \in Firewalls)
         => p[k + 1].to \in Firewalls

(* The edge is where the firewalls are. *)
LEMMA EdgeIsFirewall ==
  ASSUME NEW p PROVE AtEdge(p) <=> p[Len(p)].to \in Firewalls
  BY DEF AtEdge, roleForCategory

(* The links followed are new, and lead to the edge if any of the links to   *)
(* devices not visited does.                                                 *)
LEMMA FollowsEdge ==
  ASSUME NEW ls, NEW visited, NEW l \in nextUpstream(ls, visited)
  PROVE  /\ l \in ls /\ l.to \notin visited
         /\ \A m \in ls : m.to \notin visited /\ m.to \in Firewalls => l.to \in Firewalls
  BY DEF nextUpstream, roleForCategory

(* One hop more keeps a path sound. *)
LEMMA UpstreamSound ==
  ASSUME NEW p, SoundPath(p) PROVE SoundPath(Upstream(p))
<1> DEFINE here == p[Len(p)].to
           visited == {p[k].to : k \in DOMAIN p}
           next == nextUpstream(ListTopologyLinks(here), visited)
<1>1. CASE AtEdge(p) \/ next = {}
  BY <1>1 DEF Upstream
<1>2. CASE ~AtEdge(p) /\ next # {}
  <2>1. PICK l \in next : Upstream(p) = Append(p, [to |-> l.to, src |-> l.src])
    BY <1>2 DEF Upstream
  <2>2. /\ l \in links /\ l.at = here /\ l.to \notin visited
        /\ \A m \in links : m.at = here /\ m.to \notin visited /\ m.to \in Firewalls => l.to \in Firewalls
    BY <2>1, FollowsEdge DEF ListTopologyLinks
  <2>3. PICK h \in Hops : h = [to |-> l.to, src |-> l.src] /\ h.to = l.to
    <3>1. /\ l.to \in {x.to : x \in links} \cup Devices
          /\ l.src \in {x.src : x \in links} \cup {"mac"}
      BY <2>2
    <3>2. [to |-> l.to, src |-> l.src] \in Hops
      BY <3>1, Zenon DEF Hops
    <3> QED
      BY <3>2
  <2>4. PICK q : q = Append(p, h)
    OBVIOUS
  <2>5. p \in Seq(Hops) /\ Len(p) \in Nat /\ Len(p) >= 1
    BY DEF SoundPath
  <2>6. /\ q \in Seq(Hops) /\ Len(q) = Len(p) + 1 /\ q[Len(p) + 1] = h
        /\ \A k \in 1 .. Len(p) : q[k] = p[k]
    BY <2>4, <2>5
  <2>7. \A k \in 1 .. Len(p) : p[k].to \in visited /\ p[k].to \notin Firewalls
    BY <1>2, <2>5, EdgeIsFirewall DEF SoundPath
  <2>8. \A j, k \in 1 .. Len(q) : q[j].to = q[k].to => j = k
    <3>1. \A k \in 1 .. Len(q) : k \in 1 .. Len(p) \/ k = Len(p) + 1
      BY <2>5, <2>6
    <3>2. \A k \in 1 .. Len(p) : q[k].to # h.to
      BY <2>2, <2>3, <2>6, <2>7
    <3>3. \A j, k \in 1 .. Len(p) : q[j].to = q[k].to => j = k
      BY <2>6 DEF SoundPath
    <3>4. QED
      BY <2>6, <3>1, <3>2, <3>3
  <2>9. \A k \in 1 .. Len(q) : k < Len(q) => k \in 1 .. Len(p) /\ q[k].to = p[k].to
    BY <2>5, <2>6
  <2>10. \A k \in 1 .. Len(q) : k < Len(q) => q[k].to \notin Firewalls
    BY <2>7, <2>9
  <2>11. ASSUME NEW k \in 1 .. Len(q), k < Len(q), NEW m \in links, m.at = q[k].to, m.to \in Firewalls
         PROVE  q[k + 1].to \in Firewalls
    <3>1. k \in 1 .. Len(p) /\ m.at = p[k].to
      BY <2>9, <2>11
    <3>2. CASE k < Len(p)
      <4>1. p[k + 1].to \in Firewalls
        BY <2>11, <3>1, <3>2 DEF SoundPath
      <4>2. k + 1 \in 1 .. Len(p)
        BY <2>5, <3>1, <3>2
      <4>3. QED
        BY <2>6, <4>1, <4>2
    <3>3. CASE k = Len(p)
      <4>1. m.at = here /\ m.to \notin visited
        BY <2>5, <2>7, <2>11, <3>1, <3>3
      <4>2. h.to \in Firewalls
        BY <2>2, <2>3, <2>11, <4>1
      <4>3. QED
        BY <2>6, <3>3, <4>2
    <3>4. QED
      BY <2>5, <3>1, <3>2, <3>3
  <2>12. SoundPath(q)
    BY <2>5, <2>6, <2>8, <2>10, <2>11 DEF SoundPath
  <2>13. QED
    BY <2>1, <2>3, <2>4, <2>12
<1>3. QED
  BY <1>1, <1>2

(* w[k] is the path after k hops, up to n. *)
WalksTo(w, n, acc) ==
  w = [k \in 0 .. n |-> IF k = 0 THEN <<[to |-> acc, src |-> "mac"]>> ELSE Upstream(w[k - 1])]

(* The walk of the path finder is defined. *)
LEMMA WalkDefined ==
  ASSUME NEW acc, NEW n \in Nat PROVE \E w : WalksTo(w, n, acc)
<1> DEFINE Missing == {m \in Nat : ~ \E w : WalksTo(w, m, acc)}
<1> SUFFICES ASSUME Missing # {} PROVE FALSE
  OBVIOUS
<1>1. PICK m \in Missing : \A l \in Missing : m <= l
  BY LeastNumber
<1>2. CASE m = 0
  <2> DEFINE w == [k \in 0 .. 0 |-> <<[to |-> acc, src |-> "mac"]>>]
  <2>1. \A k \in 0 .. 0 : k = 0
    OBVIOUS
  <2>2. WalksTo(w, 0, acc)
    BY <2>1 DEF WalksTo
  <2> QED
    BY <1>1, <1>2, <2>2
<1>3. CASE m > 0
  <2>1. m - 1 \in Nat /\ m - 1 \notin Missing
    BY <1>1, <1>3
  <2>2. PICK v : WalksTo(v, m - 1, acc)
    BY <2>1
  <2> DEFINE w == [k \in 0 .. m |-> IF k = 0 THEN <<[to |-> acc, src |-> "mac"]>> ELSE Upstream(v[k - 1])]
  <2>3. \A k \in 0 .. m - 1 : k \in 0 .. m /\ w[k] = v[k]
    BY <2>1, <2>2 DEF WalksTo
  <2>4. \A k \in 0 .. m : k # 0 => k - 1 \in 0 .. m - 1
    BY <2>1
  <2>5. w = [k \in 0 .. m |-> IF k = 0 THEN <<[to |-> acc, src |-> "mac"]>> ELSE Upstream(w[k - 1])]
    BY <2>3, <2>4
  <2>6. WalksTo(w, m, acc)
    BY <2>5 DEF WalksTo
  <2> QED
    BY <1>1, <2>6
<1> QED
  BY <1>1, <1>2, <1>3

(* Every path it finds from a switch is sound. *)
LEMMA PathSound ==
  ASSUME NEW acc \in Devices PROVE SoundPath(buildPath(acc))
<1> DEFINE w == CHOOSE w : WalksTo(w, 6, acc)
<1>1. buildPath(acc) = w[6]
  BY DEF buildPath, WalksTo
<1>2. WalksTo(w, 6, acc)
  BY WalkDefined
<1> HIDE DEF w
<1>3. /\ w[0] = <<[to |-> acc, src |-> "mac"]>>
      /\ \A k \in 0 .. 6 : k # 0 => w[k] = Upstream(w[k - 1])
  BY <1>2 DEF WalksTo
<1>4. SoundPath(w[0])
  <2>1. PICK h \in Hops : h = [to |-> acc, src |-> "mac"]
    BY DEF Hops
  <2>2. w[0] = <<h>>
    BY <1>3, <2>1
  <2> QED
    BY <2>2 DEF SoundPath
<1>5. SoundPath(w[1])
  BY <1>3, <1>4, UpstreamSound
<1>6. SoundPath(w[2])
  BY <1>3, <1>5, UpstreamSound
<1>7. SoundPath(w[3])
  BY <1>3, <1>6, UpstreamSound
<1>8. SoundPath(w[4])
  BY <1>3, <1>7, UpstreamSound
<1>9. SoundPath(w[5])
  BY <1>3, <1>8, UpstreamSound
<1>10. SoundPath(w[6])
  BY <1>3, <1>9, UpstreamSound
<1> QED
  BY <1>1, <1>10

(* The path finder leaves for the edge at the first device linked to one. *)
LEMMA PathEdge == PathTakesTheEdge
<1> SUFFICES ASSUME NEW s \in live \cap Switches, NEW p, p = buildPath(s)
             PROVE  /\ \A j, k \in DOMAIN p : p[j].to = p[k].to => j = k
                    /\ \A k \in 1..(Len(p) - 1) :
                         (\E l \in ListTopologyLinks(p[k].to) : l.to \in Firewalls)
                           => k + 1 = Len(p) /\ AtEdge(p)
  BY DEF PathTakesTheEdge
<1>1. SoundPath(p)
  BY PathSound DEF Devices
<1>2. p \in Seq(Hops) /\ Len(p) \in Nat /\ DOMAIN p = 1 .. Len(p)
  BY <1>1 DEF SoundPath
<1>3. ASSUME NEW k \in 1 .. (Len(p) - 1), NEW l \in ListTopologyLinks(p[k].to), l.to \in Firewalls
      PROVE  k + 1 = Len(p) /\ AtEdge(p)
  <2>1. k \in 1 .. Len(p) /\ k < Len(p) /\ k + 1 \in 1 .. Len(p) /\ l \in links /\ l.at = p[k].to
    BY <1>2, <1>3 DEF ListTopologyLinks
  <2>2. p[k + 1].to \in Firewalls
    BY <1>1, <1>3, <2>1 DEF SoundPath
  <2>3. ~(k + 1 < Len(p))
    BY <1>1, <2>1, <2>2 DEF SoundPath
  <2>4. k + 1 = Len(p)
    <3>1. PICK n \in Nat : n = Len(p)
      BY <1>2
    <3>2. k + 1 \in 1 .. n /\ ~(k + 1 < n) /\ k \in Nat
      BY <2>1, <2>3, <3>1
    <3> QED
      BY <3>1, <3>2
  <2> QED
    BY <2>2, <2>4, EdgeIsFirewall
<1> QED
  BY <1>1, <1>2, <1>3 DEF SoundPath

(* What a search may find, with ports of any fan, role and age. *)
AnyPort == [fan : Nat, role : 0 .. 3, days : Nat]
AnyEvidence ==
  [inventory : BOOLEAN, ip : BOOLEAN, mac : {"none", "arp", "roster", "given"}, wifi : BOOLEAN,
   above : {"nothing", "mac", "proven"}, ports : SUBSET AnyPort, apPorts : SUBSET AnyPort]

(* Three members of a set of four numbers are at least three. *)
LEMMA ThreeOf ==
  ASSUME NEW S \in SUBSET (1 .. 4), NEW i \in S, NEW j \in S, NEW k \in S, i # j, j # k, i # k
  PROVE  Cardinality(S) >= 3
<1>1. IsFiniteSet(1 .. 4)
  BY FS_Interval, 1 \in Int, 4 \in Int
<1>2. IsFiniteSet(S) /\ Cardinality(S) \in Nat
  BY <1>1, FS_Subset, FS_CardinalityType
<1>3. IsFiniteSet({i, j, k}) /\ Cardinality({i, j, k}) = 3
  <2>1. IsFiniteSet({i}) /\ Cardinality({i}) = 1
    BY FS_Singleton
  <2>2. IsFiniteSet({i} \cup {j}) /\ Cardinality({i} \cup {j}) = 2
    BY <2>1, FS_AddElement
  <2>3. IsFiniteSet({i} \cup {j} \cup {k}) /\ Cardinality({i} \cup {j} \cup {k}) = 3
    BY <2>2, FS_AddElement
  <2>4. {i} \cup {j} \cup {k} = {i, j, k}
    OBVIOUS
  <2> QED
    BY <2>3, <2>4
<1>4. {i, j, k} \subseteq S
  OBVIOUS
<1>5. Cardinality({i, j, k}) <= Cardinality(S)
  BY <1>2, <1>4, FS_Subset
<1> QED
  BY <1>2, <1>3, <1>5

(* A score of five takes three kinds of evidence. *)
LEMMA ScoreEarned ==
  ASSUME NEW ev \in AnyEvidence, NEW acc \in AnyPort, score(acc, ev) >= 5
  PROVE  LET has == <<acc.role = 0, acc.days < 7, ev.wifi \/ ev.above # "nothing", ev.mac = "arp">>
         IN Cardinality({k \in DOMAIN has : has[k]}) >= 3
<1>0. PICK n \in Nat : n = acc.days
  BY DEF AnyPort
<1>1. PICK a \in BOOLEAN : a = (acc.role = 0)
  OBVIOUS
<1>2. PICK b \in BOOLEAN : b = (acc.days < 7)
  <2>1. CASE n < 7
    <3>1. (acc.days < 7) = TRUE
      BY <1>0, <2>1
    <3> QED
      BY <3>1, Zenon
  <2>2. CASE ~(n < 7)
    <3>1. (acc.days < 7) = FALSE
      BY <1>0, <2>2
    <3> QED
      BY <3>1, Zenon
  <2> QED
    BY <2>1, <2>2
<1>3. PICK c \in BOOLEAN : c = (ev.wifi \/ ev.above # "nothing")
  OBVIOUS
<1>4. PICK d \in BOOLEAN : d = (ev.mac = "arp")
  OBVIOUS
<1>5. PICK x \in {0, 2} : x = IF acc.role = 0 THEN 2 ELSE 0
  OBVIOUS
<1>6. PICK y \in {0, 1, 2} : /\ y = IF n < 1 THEN 2 ELSE IF n < 7 THEN 1 ELSE 0
                             /\ y # 0 => n < 7
  <2>1. CASE n < 1
    BY <2>1
  <2>2. CASE ~(n < 1) /\ n < 7
    BY <2>2
  <2>3. CASE ~(n < 1) /\ ~(n < 7)
    BY <2>3
  <2> QED
    BY <2>1, <2>2, <2>3
<1>7. PICK z \in {0, 1, 2} : z = IF ev.above = "proven" THEN 2 ELSE IF ev.wifi \/ ev.above = "mac" THEN 1 ELSE 0
  OBVIOUS
<1>8. PICK u \in {0, 1} : u = IF FindMACByIP(ev) THEN 1 ELSE 0
  OBVIOUS
<1>9. x + y + z + u >= 5
  BY <1>0, <1>5, <1>6, <1>7, <1>8 DEF score
<1>10. /\ x # 0 => a
       /\ y # 0 => b
       /\ z # 0 => c
       /\ u # 0 => d
  <2>1. x # 0 => a
    BY <1>1, <1>5
  <2>2. y # 0 => b
    BY <1>0, <1>2, <1>6
  <2>3. z # 0 => c
    BY <1>3, <1>7
  <2>4. u # 0 => d
    BY <1>4, <1>8 DEF FindMACByIP
  <2> QED
    BY <2>1, <2>2, <2>3, <2>4
<1>11. \/ a /\ b /\ c
       \/ a /\ b /\ d
       \/ a /\ c /\ d
       \/ b /\ c /\ d
  BY <1>9, <1>10
<1> DEFINE has == <<a, b, c, d>>
           S == {k \in DOMAIN has : has[k]}
<1>12. S \in SUBSET (1 .. 4) /\ (1 \in S <=> a) /\ (2 \in S <=> b) /\ (3 \in S <=> c) /\ (4 \in S <=> d)
  OBVIOUS
<1> HIDE DEF S
<1>13. Cardinality(S) >= 3
  BY <1>11, <1>12, ThreeOf
<1> QED
  BY <1>0, <1>1, <1>2, <1>3, <1>4, <1>13 DEF S

(* The ports a search attaches the address to. *)
LEMMA AttachedTo ==
  ASSUME NEW ev \in AnyEvidence
  PROVE  /\ buildWirelessPath(ev) \subseteq AnyPort
         /\ \A c : c \in SearchIP(ev) <=>
              \E acc \in IF buildWirelessPath(ev) = {} THEN {Nowhere}
                         ELSE sortByAttachment(buildWirelessPath(ev)) :
                c = applyWirelessConfidence(ev, assessConfidence(ev, acc))
<1>1. buildWirelessPath(ev) \subseteq AnyPort
  BY DEF buildWirelessPath, macToPort, SearchByMAC, GetAccessPointByName, AnyEvidence
<1> QED
  BY <1>1 DEF SearchIP

(* "none" is answered for what was found nowhere, "high" for a score of five. *)
LEMMA AnswerEarned ==
  ASSUME NEW ev \in AnyEvidence, NEW c \in SearchIP(ev)
  PROVE  /\ c = "none" <=> ~ev.inventory /\ ~ev.wifi /\ buildWirelessPath(ev) = {}
         /\ c = "high" => \E acc \in buildWirelessPath(ev) : score(acc, ev) >= 5
<1>1. PICK acc \in IF buildWirelessPath(ev) = {} THEN {Nowhere} ELSE sortByAttachment(buildWirelessPath(ev)) :
        c = applyWirelessConfidence(ev, assessConfidence(ev, acc))
  BY AttachedTo
<1>2. CASE buildWirelessPath(ev) = {}
  BY <1>1, <1>2 DEF applyWirelessConfidence, assessConfidence, wirelessAssociation, FindWirelessClient, SearchByIP
<1>3. CASE buildWirelessPath(ev) # {}
  <2>1. acc \in buildWirelessPath(ev)
    BY <1>1, <1>3 DEF sortByAttachment
  <2>2. c = IF score(acc, ev) >= 5 THEN "high" ELSE IF score(acc, ev) >= 3 THEN "medium" ELSE "low"
    BY <1>1, <1>3 DEF applyWirelessConfidence, assessConfidence
  <2> QED
    BY <1>3, <2>1, <2>2
<1> QED
  BY <1>2, <1>3

(* Whatever was found, the answer is earned: "none" says that nothing was,  *)
(* "high" takes three kinds of evidence out of four, for any number of      *)
(* ports of any fan, role and age (assessConfidence).                       *)
THEOREM AnyAnswerEarned == \A ev \in AnyEvidence : EarnedFrom(ev)
<1> SUFFICES ASSUME NEW ev \in AnyEvidence PROVE EarnedFrom(ev)
  OBVIOUS
<1>1. ASSUME NEW c \in SearchIP(ev)
      PROVE  (c = "none") = (~ev.inventory /\ ~ev.wifi /\ buildWirelessPath(ev) = {})
  <2>1. c = "none" <=> ~ev.inventory /\ ~ev.wifi /\ buildWirelessPath(ev) = {}
    BY AnswerEarned
  <2> QED
    BY <2>1
<1>2. ASSUME NEW c \in SearchIP(ev), c = "high"
      PROVE  \E acc \in buildWirelessPath(ev) :
               LET has == <<acc.role = 0, acc.days < 7, ev.wifi \/ ev.above # "nothing", ev.mac = "arp">>
               IN Cardinality({k \in DOMAIN has : has[k]}) >= 3
  <2>1. PICK acc \in buildWirelessPath(ev) : score(acc, ev) >= 5
    BY <1>2, AnswerEarned
  <2>2. acc \in AnyPort
    BY AttachedTo
  <2>3. LET has == <<acc.role = 0, acc.days < 7, ev.wifi \/ ev.above # "nothing", ev.mac = "arp">>
        IN Cardinality({k \in DOMAIN has : has[k]}) >= 3
    BY <2>1, <2>2, ScoreEarned
  <2> QED
    BY <2>3
<1>3. ASSUME "none" \in SearchMAC(ev) PROVE ev.ports = {} /\ ~ev.wifi
  <2>1. PICK e : e = [ev EXCEPT !.inventory = FALSE, !.mac = "given"]
    OBVIOUS
  <2>2. e \in AnyEvidence /\ e.wifi = ev.wifi /\ e.ports = ev.ports /\ e.mac = "given"
    BY <2>1 DEF AnyEvidence
  <2>3. "none" \in SearchIP(e)
    BY <1>3, <2>1 DEF SearchMAC
  <2>4. ~e.wifi /\ buildWirelessPath(e) = {}
    BY <2>2, <2>3, AnswerEarned
  <2>5. buildWirelessPath(e) = e.ports
    BY <2>2, <2>4 DEF buildWirelessPath, wirelessAssociation, FindWirelessClient, macToPort, SearchByMAC
  <2> QED
    BY <2>2, <2>4, <2>5
<1>4. "none" \notin SearchHostname(ev)
  <2>1. NotRated # "none"
    BY Zenon DEF NotRated
  <2>2. ev.inventory => "none" \notin SearchIP(ev)
    BY AnswerEarned
  <2>3. ev.wifi => "none" \notin SearchIP([ev EXCEPT !.mac = "none"])
    <3>1. PICK e : e = [ev EXCEPT !.mac = "none"]
      OBVIOUS
    <3>2. e \in AnyEvidence /\ e.wifi = ev.wifi
      BY <3>1 DEF AnyEvidence
    <3> QED
      BY <3>1, <3>2, AnswerEarned
  <2> QED
    BY <2>1, <2>2, <2>3 DEF SearchHostname
<1> QED
  BY <1>1, <1>2, <1>3, <1>4 DEF EarnedFrom

(* SearchHonest holds in every state the link table can be in, during a      *)
(* rebuild, between two, and with loops in it.                               *)
THEOREM SearchesHonest == TopoSpec => []SearchHonest
<1>1. EvidenceCases \subseteq AnyEvidence
  <2>1. PortMatches \subseteq AnyPort
    BY DEF PortMatches, AnyPort
  <2>2. ASSUME NEW ev \in EvidenceCases
        PROVE  ev.ports \in SUBSET AnyPort /\ ev.apPorts \in SUBSET AnyPort
    BY <2>1 DEF EvidenceCases
  <2> QED
    BY <2>2 DEF EvidenceCases, AnyEvidence
<1>2. ConfidenceEarned
  BY <1>1, AnyAnswerEarned DEF ConfidenceEarned
<1>3. SearchHonest
  BY <1>2, PathEdge DEF SearchHonest
<1> QED
  BY <1>3, PTL
=============================================================================
