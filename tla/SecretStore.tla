---------------------------- MODULE SecretStore ----------------------------
(***************************************************************************)
(* What the credential vault promises its users, with no word on keys,     *)
(* ciphers, requests or restarts.  A secret is offered for a credential    *)
(* and then stored, once, or dropped; the credential holds it until        *)
(* another is stored or it is erased.  Besides that it may only come back  *)
(* to a copy that was taken of it and is still kept.                       *)
(***************************************************************************)
EXTENDS Naturals

CONSTANT Credentials

VARIABLES secret,   \* what each credential holds: one secret, or nothing
          typed,    \* how many secrets were ever offered; the k-th is k
          offered,  \* pairs: a credential and a secret about to be stored
          copies    \* pairs: a credential and a secret it held, kept aside

StoreInit ==
  /\ secret = [c \in Credentials |-> {}]
  /\ typed = 0 /\ offered = {} /\ copies = {}

Offer(c) ==
  /\ typed' = typed + 1
  /\ offered' = offered \cup {<<c, typed'>>}
  /\ UNCHANGED <<secret, copies>>

\* What was offered is stored: p is a pair of offered.
Write(p) ==
  /\ secret' = [secret EXCEPT ![p[1]] = {p[2]}]
  /\ offered' = offered \ {p}
  /\ UNCHANGED <<typed, copies>>

Erase(gone) ==
  /\ secret' = [c \in Credentials |-> IF c \in gone THEN {} ELSE secret[c]]
  /\ UNCHANGED <<typed, offered, copies>>

TakeCopies ==
  /\ \A p \in copies' : p \in copies \/ p[2] \in secret[p[1]]
  /\ UNCHANGED <<secret, typed, offered>>

\* A copy is put back: p is a pair of copies.
FallBack(p) ==
  /\ secret' = [secret EXCEPT ![p[1]] = {p[2]}]
  /\ copies' \subseteq copies
  /\ UNCHANGED <<typed, offered>>

Drop ==
  /\ offered' \subseteq offered /\ copies' \subseteq copies
  /\ UNCHANGED <<secret, typed>>

\* One credential is erased (deleted), or all are (reset).
StoreNext ==
  \/ \E c \in Credentials : Offer(c) \/ Erase({c})
  \/ (\E p \in offered : Write(p)) \/ (\E p \in copies : FallBack(p))
  \/ Erase(Credentials) \/ TakeCopies \/ Drop

StoreSpec == StoreInit /\ [][StoreNext]_<<secret, typed, offered, copies>>
=============================================================================
