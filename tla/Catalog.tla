------------------------------- MODULE Catalog -------------------------------
(***************************************************************************)
(* The vendor fingerprint catalogue (api/fingerprints.go, api/admin.go):    *)
(* the rules a scan classifies with are the stored rows and the built-in    *)
(* rules no row stands for.  Operators edit and import rows while the       *)
(* built-in rules are seeded, entry by entry, from a plan made on an        *)
(* earlier reading of the table.                                            *)
(*                                                                          *)
(* A row has a key (its kind and pattern, unique), its source, whether it   *)
(* is enabled, and a value standing for vendor, type, model, confidence and *)
(* exclusions: "shipped" as this release ships it, "old" as an earlier one  *)
(* did, "own" as an operator wrote it.                                      *)
(***************************************************************************)
EXTENDS Integers, FiniteSets

CONSTANTS Ids,       \* row ids
          Keys,      \* kinds and patterns
          Shipped    \* those the built-in library has

ASSUME CatalogAssumption == Shipped \subseteq Keys /\ IsFiniteSet(Keys) /\ IsFiniteSet(Ids)

VARIABLES rows,      \* the table vendor_fingerprints
          seeding,   \* the seed's actions still to do, and whether a seed runs
          off        \* the keys an operator has switched off

catVars == <<rows, seeding, off>>

NoFingerprint == [key |-> "none", source |-> "none", enabled |-> FALSE, value |-> "none"]
VendorFingerprint == [key : Keys, source : {"builtin", "user"}, enabled : BOOLEAN, value : {"shipped", "old", "own"}]
Stored == {i \in Ids : rows[i] # NoFingerprint}
RowOf(k) == {i \in Stored : rows[i].key = k}
FpRow(k, source, enabled, value) == [key |-> k, source |-> source, enabled |-> enabled, value |-> value]

CatTypeOK ==
    /\ rows \in [Ids -> VendorFingerprint \cup {NoFingerprint}]
    /\ \A i, j \in Stored : rows[i].key = rows[j].key => i = j
    /\ off \subseteq Keys

\* What an earlier release seeded.
CatInit ==
    /\ \E seeded \in SUBSET Shipped, place \in [Shipped -> Ids] :
          /\ \A k, l \in seeded : place[k] = place[l] => k = l
          /\ rows = [i \in Ids |-> IF \E k \in seeded : place[k] = i
                                   THEN FpRow(CHOOSE k \in seeded : place[k] = i, "builtin", TRUE, "old")
                                   ELSE NoFingerprint]
    /\ seeding = [on |-> FALSE, plan |-> {}] /\ off = {}

-----------------------------------------------------------------------------
(* The library a scan takes. *)

dbToPrints == {rows[i] : i \in {j \in Stored : rows[j].enabled}}

\* Every stored row, a disabled one too, stands for the built-in rule of its key; if the
\* table cannot be read the built-in rules alone are used.
scanFingerprintLibrary_EnabledShadow(readable) ==   \* mutant: only enabled rows hide a built-in rule
    IF ~readable THEN {FpRow(k, "builtin", TRUE, "shipped") : k \in Shipped}
    ELSE dbToPrints \cup {FpRow(k, "builtin", TRUE, "shipped") :
                             k \in {l \in Shipped : \A i \in RowOf(l) : ~rows[i].enabled}}
scanFingerprintLibrary(readable) ==
    IF ~readable THEN {FpRow(k, "builtin", TRUE, "shipped") : k \in Shipped}
    ELSE dbToPrints \cup {FpRow(k, "builtin", TRUE, "shipped") : k \in {l \in Shipped : RowOf(l) = {}}}

-----------------------------------------------------------------------------
(* Statements. *)

CreateVendorFingerprint(k, source, enabled, value) ==
    /\ RowOf(k) = {}
    /\ \E i \in Ids \ Stored : rows' = [rows EXCEPT ![i] = FpRow(k, source, enabled, value)]

UpdateVendorFingerprint(i, k, enabled, value) ==     \* the source stays
    /\ RowOf(k) \subseteq {i}
    /\ rows' = [rows EXCEPT ![i] = FpRow(k, @.source, enabled, value)]

DeleteVendorFingerprint(i) == rows' = [rows EXCEPT ![i] = NoFingerprint]

UpsertVendorFingerprint(k, enabled, value) ==
    \/ \E i \in RowOf(k) : rows' = [rows EXCEPT ![i] = FpRow(k, "user", enabled, value)]
    \/ CreateVendorFingerprint(k, "user", enabled, value)

RefreshBuiltinVendorFingerprint_Unguarded(i) ==      \* mutant: no source in the WHERE clause
    rows' = IF i \in Stored THEN [rows EXCEPT ![i].value = "shipped"] ELSE rows
RefreshBuiltinVendorFingerprint(i) ==
    rows' = IF i \in Stored /\ rows[i].source = "builtin" THEN [rows EXCEPT ![i].value = "shipped"] ELSE rows

-----------------------------------------------------------------------------
(* The seed. *)

builtinRowMatchesCatalog(row) == row.value = "shipped"

\* One action per built-in rule, decided on the rows as listed.
planBuiltinSeed ==
    {[do |-> "create", key |-> k, id |-> 0] : k \in {l \in Shipped : RowOf(l) = {}}} \cup
    {[do |-> "refresh", key |-> rows[i].key, id |-> i] :
        i \in {j \in Stored : /\ rows[j].key \in Shipped /\ rows[j].source = "builtin"
                              /\ ~builtinRowMatchesCatalog(rows[j])}}

seedVendorFingerprints ==
    /\ ~seeding.on /\ seeding' = [on |-> TRUE, plan |-> planBuiltinSeed]
    /\ UNCHANGED <<rows, off>>

SeedCreate(a) ==
    /\ a.do = "create" /\ RowOf(a.key) = {} /\ CreateVendorFingerprint(a.key, "builtin", TRUE, "shipped")
    /\ seeding' = [seeding EXCEPT !.plan = @ \ {a}]

\* A row of that key appeared since the listing: the insert fails and ends the seed.
SeedConflict(a) ==
    /\ a.do = "create" /\ RowOf(a.key) # {} /\ seeding' = [on |-> FALSE, plan |-> {}] /\ UNCHANGED rows

SeedRefresh(a) ==
    /\ a.do = "refresh" /\ RefreshBuiltinVendorFingerprint(a.id)
    /\ seeding' = [seeding EXCEPT !.plan = @ \ {a}]

SeedStep == /\ \E a \in seeding.plan : SeedCreate(a) \/ SeedConflict(a) \/ SeedRefresh(a)
            /\ UNCHANGED off

\* All done; or the request is cut off with the rest of the plan undone.
SeedEnds == seeding.on /\ seeding' = [on |-> FALSE, plan |-> {}] /\ UNCHANGED <<rows, off>>

-----------------------------------------------------------------------------
(* The operators' requests; a key already in use is refused with 409. *)

Switch(keys, k, enabled) == IF enabled THEN keys \ {k} ELSE keys \cup {k}

createVendorFingerprint(k, enabled) ==
    /\ CreateVendorFingerprint(k, "user", enabled, "own")
    /\ off' = Switch(off, k, enabled) /\ UNCHANGED seeding

\* The form sends every field, so a row may move to another key.
updateVendorFingerprint(i, k, enabled) ==
    /\ \E value \in {rows[i].value, "own"} : UpdateVendorFingerprint(i, k, enabled, value)
    /\ off' = Switch(off \ {rows[i].key}, k, enabled) /\ UNCHANGED seeding

deleteVendorFingerprint(i) ==
    /\ DeleteVendorFingerprint(i) /\ off' = off \ {rows[i].key} /\ UNCHANGED seeding

\* An imported rule belongs to the operator; without a source in the file it is enabled.
importVendorFingerprints(k, enabled, sourced) ==
    /\ UpsertVendorFingerprint(k, enabled \/ ~sourced, "own")
    /\ off' = Switch(off, k, enabled \/ ~sourced) /\ UNCHANGED seeding

CatNext ==
    \/ seedVendorFingerprints \/ SeedStep \/ SeedEnds
    \/ \E k \in Keys, enabled \in BOOLEAN :
          \/ createVendorFingerprint(k, enabled)
          \/ \E i \in Stored : updateVendorFingerprint(i, k, enabled)
          \/ \E sourced \in BOOLEAN : importVendorFingerprints(k, enabled, sourced)
    \/ \E i \in Stored : deleteVendorFingerprint(i)

CatSpec == CatInit /\ [][CatNext]_catVars

-----------------------------------------------------------------------------
(* Properties *)

\* Seeding never touches a rule an operator owns, also not one that was a built-in rule
\* when the seed listed the table and was imported over before the seed reached it.
SeedSparesOperatorRules ==
    [][seeding.plan # seeding'.plan => \A i \in Stored : rows[i].source = "user" => rows'[i] = rows[i]]_catVars

\* A key an operator switched off stays off for every scan that can read the table,
\* whatever is seeded, refreshed, moved or deleted around it.
OptOutRespected ==
    \A r \in scanFingerprintLibrary(TRUE) : r.key \notin off

\* The operator has the last word on the catalogue, at every seed and in every scan.
OperatorRulesStand == SeedSparesOperatorRules /\ []OptOutRespected
=============================================================================
