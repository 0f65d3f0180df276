------------------------------- MODULE Vault -------------------------------
(***************************************************************************)
(* The credential vault: the process-wide cipher, the stored fingerprint   *)
(* of its key, and the sealed secrets of the credentials, as the handlers  *)
(* of security.go and credentials.go change them.  Requests run            *)
(* concurrently, one per slot; every database statement and every swap of  *)
(* the cipher is a step of its own.  A key is a number, and stands for its *)
(* key id and fingerprint too (no two keys share either); a sealed blob is *)
(* the version of the secret it holds and the key it was sealed with.      *)
(* Keys live in the process and with the operator, never in the database:  *)
(* `held' is what the operator was shown, `lost' the keys of rotations     *)
(* that ended without showing theirs.                                      *)
(***************************************************************************)
EXTENDS Naturals, FiniteSets

CONSTANTS NCred,      \* credentials, 1..NCred in name order
          Slots,      \* concurrent requests
          MaxKey,     \* bound: keys ever generated
          MaxEdit,    \* bound: secrets ever typed in
          MaxRestart  \* bound: restarts of the API process

ASSUME VaultAssumption == /\ NCred \in Nat /\ MaxEdit \in Nat /\ MaxRestart \in Nat
                          /\ MaxKey \in Nat \ {0}

NoKey == 0
Creds == 1 .. NCred
Keys  == 1 .. MaxKey

VARIABLES serving,        \* the API process is serving
          cipher,    \* Server.enc: the loaded key
          env,       \* HIMS_ENCRYPTION_KEY
          stored,    \* encryption_metadata.fingerprint
          row,       \* table credentials
          req,       \* the request of each slot
          made,      \* keys generated so far
          edits,     \* secrets typed so far
          held,      \* keys the operator knows
          restarts,
          used,      \* ids ever given to a credential
          lost,      \* ghost: keys of rotations cut before their answer
          raced,     \* ghost: credentials reset between the two statements of an edit
          blind      \* ghost: a boot whose count of encrypted rows failed

vaultVars == <<serving, cipher, env, stored, row, req, made, edits, held, restarts,
          used, lost, raced, blind>>

NoCredential == [exists |-> FALSE, plain |-> 0, key |-> NoKey, reentry |-> FALSE]
NoRequest   == [op |-> "idle"]

\* WHERE octet_length(encrypted_blob) > 0.
Sealed == {c \in Creds : row[c].key # NoKey}

\* Cipher.Seal and Cipher.Open: a blob opens under the key of its id only.
Seal(k, plain) == [plain |-> plain, key |-> k]
Opens(k, blob) == blob.key = k

\* Mutant: ReKey wipes the opened secret before it seals it.
ReKey_Wiped(new, blob) == Seal(new, 0)

\* ReKey: the same secret under the new key; defined when Opens(old, blob).
ReKey(new, blob) == Seal(new, blob.plain)

\* UPDATE ... WHERE id: nothing happens to a row that is gone.
WithSecret(r, blob) == IF r.exists THEN [r EXCEPT !.plain = blob.plain, !.key = blob.key] ELSE r

WithoutSecret(r) == IF r.key = NoKey THEN r
                    ELSE [exists |-> r.exists, plain |-> 0, key |-> NoKey, reentry |-> TRUE]
FlagCleared(r) == [r EXCEPT !.reentry = FALSE]

Free(s)       == serving /\ req[s] = NoRequest
Running(s, o) == serving /\ req[s].op = o
Done(s)       == req' = [req EXCEPT ![s] = NoRequest]
Goes(s, o)    == req' = [req EXCEPT ![s].op = o]

RotationOps == {"rotate", "swap", "answer"}
\* Keys that so far only a running rotation knows.
InFlight == {req[s].new : s \in {t \in Slots : req[t].op \in RotationOps}}
-----------------------------------------------------------------------------
(* Credentials: create, edit, delete.                                      *)

\* createCredential up to Seal: the cipher of this moment is used.
createCredential(s, c) ==
  /\ Free(s) /\ cipher # NoKey /\ edits < MaxEdit
  /\ c \notin used /\ \A t \in Slots : req[t].op = "create" => req[t].cred # c
  /\ edits' = edits + 1
  /\ req' = [req EXCEPT ![s] = [op |-> "create", cred |-> c,
                                blob |-> Seal(cipher, edits + 1)]]
  /\ UNCHANGED <<serving, cipher, env, stored, row, made, held, restarts, used, lost, raced, blind>>

\* The INSERT; it may fail.
CreateCredential(s) ==
  /\ Running(s, "create")
  /\ Done(s)
  /\ \/ LET b == req[s].blob IN
        /\ row' = [row EXCEPT ![req[s].cred] =
                     [exists |-> TRUE, plain |-> b.plain, key |-> b.key, reentry |-> FALSE]]
        /\ used' = used \cup {req[s].cred}
     \/ UNCHANGED <<row, used>>
  /\ UNCHANGED <<serving, cipher, env, stored, made, edits, held, restarts, lost, raced, blind>>

\* updateCredential with a secret: read the row, seal with the cipher of now.
updateCredential(s, c) ==
  /\ Free(s) /\ row[c].exists /\ cipher # NoKey /\ edits < MaxEdit
  /\ edits' = edits + 1
  /\ req' = [req EXCEPT ![s] = [op |-> "update", cred |-> c,
                                blob |-> Seal(cipher, edits + 1)]]
  /\ UNCHANGED <<serving, cipher, env, stored, row, made, held, restarts, used, lost, raced, blind>>

\* Its UPDATE of the secret; a failed one ends the request.
UpdateCredentialSecret(s) ==
  /\ Running(s, "update")
  /\ \/ /\ row' = [row EXCEPT ![req[s].cred] = WithSecret(@, req[s].blob)]
        /\ Goes(s, "flag")
     \/ Done(s) /\ UNCHANGED row
  /\ UNCHANGED <<serving, cipher, env, stored, made, edits, held, restarts, used, lost, raced, blind>>

\* ClearReentryFlag, its error ignored, and the rename.
ClearReentryFlag(s) ==
  /\ Running(s, "flag")
  /\ Done(s)
  /\ \/ row' = [row EXCEPT ![req[s].cred] = FlagCleared(@)]
     \/ UNCHANGED row
  /\ UNCHANGED <<serving, cipher, env, stored, made, edits, held, restarts, used, lost, raced, blind>>

deleteCredential(c) ==
  /\ serving /\ row[c].exists
  /\ row' = [row EXCEPT ![c] = NoCredential]
  /\ UNCHANGED <<serving, cipher, env, stored, req, made, edits, held, restarts, used, lost, raced, blind>>

\* encryptionResetCredentials: one UPDATE over every sealed row.  An edit
\* between its secret and its flag then clears the flag of an empty row; a
\* rotation that listed a row before puts its secret back.
encryptionResetCredentials ==
  /\ serving /\ Sealed # {}
  /\ row' = [c \in Creds |-> WithoutSecret(row[c])]
  /\ raced' = raced \cup {req[s].cred : s \in {t \in Slots : req[t].op = "flag"}}
  /\ UNCHANGED <<serving, cipher, env, stored, req, made, edits, held, restarts, used, lost, blind>>
-----------------------------------------------------------------------------
(* The key: status, generate, unlock, rotate.                              *)

\* computeEncState finds a cipher and no stored fingerprint ...
computeEncState(s) ==
  /\ Free(s) /\ cipher # NoKey /\ stored = NoKey
  /\ req' = [req EXCEPT ![s] = [op |-> "baseline", key |-> cipher]]
  /\ UNCHANGED <<serving, cipher, env, stored, row, made, edits, held, restarts, used, lost, raced, blind>>

\* ... and stores that of the cipher it read.
AdoptBaseline(s) ==
  /\ Running(s, "baseline")
  /\ stored' = req[s].key
  /\ Done(s)
  /\ UNCHANGED <<serving, cipher, env, row, made, edits, held, restarts, used, lost, raced, blind>>

\* encryptionGenerate is refused while a key is loaded; the check comes first.
encryptionGenerate(s) ==
  /\ Free(s) /\ cipher = NoKey /\ made < MaxKey
  /\ req' = [req EXCEPT ![s] = [op |-> "generate", new |-> made + 1]]
  /\ made' = made + 1
  /\ UNCHANGED <<serving, cipher, env, stored, row, edits, held, restarts, used, lost, raced, blind>>

\* The metadata is written, then the key is shown; it is not loaded.
UpsertEncryptionMetadata(s) ==
  /\ Running(s, "generate")
  /\ stored' = req[s].new
  /\ held' = held \cup {req[s].new}
  /\ Done(s)
  /\ UNCHANGED <<serving, cipher, env, row, made, edits, restarts, used, lost, raced, blind>>

\* encryptionUnlock: a valid key is compared with the stored fingerprint; a
\* mismatch is refused unless the operator adopts the key.
encryptionUnlock(s, k, adopt) ==
  /\ Free(s) /\ k \in held
  /\ stored \in {NoKey, k} \/ adopt
  /\ req' = [req EXCEPT ![s] = [op |-> "unlock", key |-> k, saw |-> stored]]
  /\ UNCHANGED <<serving, cipher, env, stored, row, made, edits, held, restarts, used, lost, raced, blind>>

\* The key is loaded before the baseline is written ...
UnlockLoad(s) ==
  /\ Running(s, "unlock")
  /\ cipher' = req[s].key
  /\ IF req[s].saw = req[s].key THEN Done(s) ELSE Goes(s, "record")
  /\ UNCHANGED <<serving, env, stored, row, made, edits, held, restarts, used, lost, raced, blind>>

\* ... and the write may fail, leaving the key loaded.
UnlockRecord(s) ==
  /\ Running(s, "record")
  /\ stored' \in {req[s].key, stored}
  /\ Done(s)
  /\ UNCHANGED <<serving, cipher, env, row, made, edits, held, restarts, used, lost, raced, blind>>

\* encryptionRotate: a fresh key, and one listing of the sealed rows.
encryptionRotate(s) ==
  /\ Free(s) /\ cipher # NoKey /\ made < MaxKey
  /\ made' = made + 1
  /\ req' = [req EXCEPT ![s] = [op |-> "rotate", cur |-> cipher, new |-> made + 1,
                                blobs |-> [c \in Sealed |-> Seal(row[c].key, row[c].plain)],
                                failed |-> {}]]
  /\ UNCHANGED <<serving, cipher, env, stored, row, edits, held, restarts, used, lost, raced, blind>>

\* One turn of its loop: the listed copy is re-keyed and written whatever the
\* row holds by now; a copy the old key does not open, or a failed write, is
\* reported and skipped.
RotateBlob(s) ==
  /\ Running(s, "rotate")
  /\ \E c \in DOMAIN req[s].blobs :
       LET b    == req[s].blobs[c]
           rest == [d \in DOMAIN req[s].blobs \ {c} |-> req[s].blobs[d]]
       IN /\ \A d \in DOMAIN req[s].blobs : c <= d      \* ORDER BY name
          /\ \/ /\ Opens(req[s].cur, b)
                /\ row' = [row EXCEPT ![c] = WithSecret(@, ReKey(req[s].new, b))]
                /\ req' = [req EXCEPT ![s] = [@ EXCEPT !.blobs = rest]]
             \/ /\ UNCHANGED row
                /\ req' = [req EXCEPT ![s] = [@ EXCEPT !.blobs = rest, !.failed = req[s].failed \cup {c}]]
  /\ UNCHANGED <<serving, cipher, env, stored, made, edits, held, restarts, used, lost, raced, blind>>

RecordRotation(s) ==
  /\ Running(s, "rotate") /\ DOMAIN req[s].blobs = {}
  /\ stored' = req[s].new
  /\ Goes(s, "swap")
  /\ UNCHANGED <<serving, cipher, env, row, made, edits, held, restarts, used, lost, raced, blind>>

\* RecordRotation fails, or the client is gone and its request's context with
\* it: the handler returns without loading or showing the new key.
RotateCut(s) ==
  /\ Running(s, "rotate")
  /\ lost' = lost \cup {req[s].new}
  /\ Done(s)
  /\ UNCHANGED <<serving, cipher, env, stored, row, made, edits, held, restarts, used, raced, blind>>

setCipher(s) ==
  /\ Running(s, "swap")
  /\ cipher' = req[s].new
  /\ Goes(s, "answer")
  /\ UNCHANGED <<serving, env, stored, row, made, edits, held, restarts, used, lost, raced, blind>>

\* Mutant: the answer of a rotation that skipped a credential leaves the key out.
RotateAnswer_HidesKeyOnFailure(s) ==
  /\ Running(s, "answer")
  /\ \/ held' = (IF req[s].failed = {} THEN held \cup {req[s].new} ELSE held) /\ UNCHANGED lost
     \/ lost' = lost \cup {req[s].new} /\ UNCHANGED held
  /\ Done(s)
  /\ UNCHANGED <<serving, cipher, env, stored, row, made, edits, restarts, used, raced, blind>>

\* The answer shows the new key once; it may not arrive.
RotateAnswer(s) ==
  /\ Running(s, "answer")
  /\ \/ held' = held \cup {req[s].new} /\ UNCHANGED lost
     \/ lost' = lost \cup {req[s].new} /\ UNCHANGED held
  /\ Done(s)
  /\ UNCHANGED <<serving, cipher, env, stored, row, made, edits, restarts, used, raced, blind>>
-----------------------------------------------------------------------------
(* The process.                                                            *)

\* Requests end with the process, and the key is gone from its memory.
Crash ==
  /\ serving /\ restarts < MaxRestart
  /\ serving' = FALSE
  /\ restarts' = restarts + 1
  /\ cipher' = NoKey
  /\ req' = [s \in Slots |-> NoRequest]
  /\ lost' = lost \cup InFlight
  /\ UNCHANGED <<env, stored, row, made, edits, held, used, raced, blind>>

\* The operator edits the deployment's environment before the next start.
SetEnv(k) ==
  /\ ~serving /\ k \in held \cup {NoKey} /\ env' = k
  /\ UNCHANGED <<serving, cipher, stored, row, req, made, edits, held, restarts, used, lost, raced, blind>>

\* main: without a key the API refuses to start over encrypted rows, unless
\* the count itself fails.
Boot ==
  /\ ~serving
  /\ \/ (env # NoKey \/ Sealed = {}) /\ UNCHANGED blind
     \/ env = NoKey /\ Sealed # {} /\ blind' = TRUE
  /\ serving' = TRUE
  /\ cipher' = env
  /\ UNCHANGED <<env, stored, row, req, made, edits, held, restarts, used, lost, raced>>
-----------------------------------------------------------------------------
\* A fresh installation, or one that already has its key; the fingerprint of
\* a key set before the first status request is not stored yet.
VaultInit ==
  /\ serving = TRUE
  /\ made \in {0, 1}
  /\ env = made /\ cipher = env
  /\ stored \in {NoKey, env}
  /\ row = [c \in Creds |-> NoCredential]
  /\ req = [s \in Slots |-> NoRequest]
  /\ held = IF made = 1 THEN {1} ELSE {}
  /\ edits = 0 /\ restarts = 0
  /\ used = {}
  /\ lost = {} /\ raced = {} /\ blind = FALSE

VaultNext ==
  \/ \E s \in Slots :
        \/ \E c \in Creds : createCredential(s, c) \/ updateCredential(s, c)
        \/ CreateCredential(s) \/ UpdateCredentialSecret(s) \/ ClearReentryFlag(s)
        \/ computeEncState(s) \/ AdoptBaseline(s)
        \/ encryptionGenerate(s) \/ UpsertEncryptionMetadata(s)
        \/ \E k \in Keys, adopt \in BOOLEAN : encryptionUnlock(s, k, adopt)
        \/ UnlockLoad(s) \/ UnlockRecord(s)
        \/ encryptionRotate(s) \/ RotateBlob(s) \/ RecordRotation(s) \/ RotateCut(s)
        \/ setCipher(s) \/ RotateAnswer(s)
  \/ \E c \in Creds : deleteCredential(c)
  \/ encryptionResetCredentials
  \/ Crash \/ Boot
  \/ \E k \in Keys \cup {NoKey} : SetEnv(k)

VaultSpec == VaultInit /\ [][VaultNext]_vaultVars
-----------------------------------------------------------------------------
\* What a request carries between its steps.
Typed  == [plain : 1 .. MaxEdit, key : Keys]                  \* a secret just typed in
Copy   == [plain : 0 .. MaxEdit, key : Keys \cup {NoKey}]     \* a row's secret, as listed
Edit     == [op : {"create", "update", "flag"}, cred : Creds, blob : Typed]
Baseline == [op : {"baseline"}, key : Keys]
Generate == [op : {"generate"}, new : Keys]
Unlock   == [op : {"unlock", "record"}, key : Keys, saw : Keys \cup {NoKey}]
Rotation == [op : RotationOps, cur : Keys, new : Keys,
             blobs : UNION {[listed -> Copy] : listed \in SUBSET Creds}, failed : SUBSET Creds]
Request == {NoRequest} \cup Edit \cup Baseline \cup Generate \cup Unlock \cup Rotation

Credential == [exists : BOOLEAN, plain : 0 .. MaxEdit, key : Keys \cup {NoKey}, reentry : BOOLEAN]

\* Types of the vault's state.
VaultTypeOK ==
  /\ serving \in BOOLEAN /\ blind \in BOOLEAN
  /\ cipher \in Keys \cup {NoKey} /\ env \in Keys \cup {NoKey} /\ stored \in Keys \cup {NoKey}
  /\ row \in [Creds -> Credential]
  /\ req \in [Slots -> Request]
  /\ made \in 0 .. MaxKey /\ edits \in 0 .. MaxEdit /\ restarts \in 0 .. MaxRestart
  /\ held \subseteq Keys /\ lost \subseteq Keys
  /\ used \subseteq Creds
  /\ raced \subseteq Creds

\* encryptionRotate, encryptionUnlock, encryptionGenerate and a restart never
\* leave a secret under a key nobody has: a stored blob opens with a key the
\* operator was shown or a rotation still at work is about to show.  The one
\* exception is a rotation cut off before its answer, which loses its own new
\* key and no other.
SecretsRecoverable ==
  \A c \in Sealed : row[c].key \in held \cup InFlight \cup lost

\* The abstract store's view of the vault.
SecretOf == [c \in Creds |-> IF row[c].key = NoKey THEN {} ELSE {row[c].plain}]
Offered  == {p \in Creds \X (1 .. MaxEdit) :
               \E s \in Slots : /\ req[s].op \in {"create", "update"}
                               /\ req[s].cred = p[1] /\ req[s].blob.plain = p[2]}
Copies   == {p \in Creds \X (0 .. MaxEdit) :
               \E s \in Slots : /\ req[s].op = "rotate"
                               /\ p[1] \in DOMAIN req[s].blobs /\ req[s].blobs[p[1]].plain = p[2]}
Store == INSTANCE SecretStore WITH Credentials <- Creds, secret <- SecretOf, typed <- edits,
                                   offered <- Offered, copies <- Copies

\* The vault implements the secret store: sealing, rotating, unlocking, losing
\* and reloading keys, failing and restarting are invisible in what the
\* credentials hold.  The one thing they show is that a rotation puts back the
\* copies it listed, over an edit or a reset that came meanwhile (security.go,
\* encryptionRotate's loop).
KeepsSecrets == Store!StoreSpec

\* A credential left without a secret is on the re-entry list, except one
\* whose edit was between its two statements when the reset ran.
BlankIsFlagged ==
  \A c \in Creds : row[c].exists /\ row[c].key = NoKey
                      => row[c].reentry \/ c \in raced

\* The start-up guard of main holds for the whole life of the process: the
\* API never serves without a cipher over encrypted credentials, unless the
\* guard's own count failed.
NeverKeylessOverSecrets ==
  serving /\ cipher = NoKey /\ ~blind => Sealed = {}

\* What the vault's handlers and main may never let happen to stored secrets.
VaultGuarded == SecretsRecoverable /\ BlankIsFlagged /\ NeverKeylessOverSecrets
=============================================================================
