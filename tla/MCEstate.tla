------------------------------ MODULE MCEstate ------------------------------
(***************************************************************************)
(* What is known of a device, as TLC runs it: its row and its writers, its *)
(* snapshot tables, the collectors that fill them, and the management      *)
(* state reported of it.  A behaviour moves one of the four, its focus,    *)
(* and leaves the others where they start.                                 *)
(***************************************************************************)
EXTENDS Inventory, Snapshots, Collectors, Management, TLC

VARIABLE focus

\* A state of a component that is not the focus: one is enough.
Resting ==
  /\ focus # "inventory"  => device = NoRow
  /\ focus # "snapshots"  => profile = (CHOOSE p \in Profiles : TRUE) /\ lag = 0
  /\ focus # "collectors" => /\ collector = CUCM /\ roster = "phones"
                             /\ shownBy = [e \in Entries |-> 1] /\ present = {}
  /\ focus # "management" => class = "endpoint" /\ agent = "online"

EstateInit ==
  /\ focus \in {"inventory", "snapshots", "collectors", "management"}
  /\ InventoryInit /\ SnapshotInit /\ CollectInit /\ MgmtInit
  /\ Resting

EstateNext ==
  /\ UNCHANGED focus
  /\ \/ /\ focus = "inventory" /\ InventoryNext
        /\ UNCHANGED <<snapshotVars, collectVars, mgmtVars>>
     \/ /\ focus = "snapshots" /\ SnapshotNext
        /\ UNCHANGED <<inventoryVars, collectVars, mgmtVars>>
     \/ /\ focus = "collectors" /\ CollectNext
        /\ UNCHANGED <<inventoryVars, snapshotVars, mgmtVars>>
     \/ /\ focus = "management" /\ MgmtNext
        /\ UNCHANGED <<inventoryVars, snapshotVars, collectVars>>

EstateSpec ==
  EstateInit /\ [][EstateNext]_<<focus, inventoryVars, snapshotVars, collectVars, mgmtVars>>

\* Polls are given the two workers.
Symmetry == Permutations(Workers)
=============================================================================
