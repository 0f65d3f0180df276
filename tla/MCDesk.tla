------------------------------- MODULE MCDesk -------------------------------
(***************************************************************************)
(* The administrators' desk as TLC runs it: the credential vault, accounts *)
(* and sessions, and work orders with their stock.  The three share no     *)
(* state, so a behaviour moves one of them, its focus, and leaves the      *)
(* others where they start.                                                *)
(***************************************************************************)
EXTENDS Vault, Access, Operations

VARIABLE focus

DeskInit ==
  /\ focus \in {"vault", "access", "operations"}
  /\ VaultInit /\ AccessInit /\ OpsInit
  \* The vault's initial choices matter to its own focus only.
  /\ focus # "vault" => made = 0

DeskNext ==
  /\ UNCHANGED focus
  /\ \/ focus = "vault" /\ VaultNext /\ UNCHANGED <<accessVars, opsVars>>
     \/ focus = "access" /\ AccessNext /\ UNCHANGED <<vaultVars, opsVars>>
     \/ focus = "operations" /\ OpsNext /\ UNCHANGED <<vaultVars, accessVars>>

DeskSpec == DeskInit /\ [][DeskNext]_<<focus, vaultVars, accessVars, opsVars>>

\* Slots, Desks and Clerks are given the same two requests.
Symmetry == Permutations(Slots)
=============================================================================
