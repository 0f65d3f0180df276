---------------------------- MODULE VaultProofs ----------------------------
(***************************************************************************)
(* What is proved of the credential vault, for any number of credentials,  *)
(* concurrent requests, keys and restarts: VaultGuarded is an invariant of *)
(* VaultSpec, and VaultSpec implements the secret store.                   *)
(***************************************************************************)
EXTENDS Vault, TLAPS

\* The keys somebody has, is about to be shown, or was never shown.
Known == held \cup InFlight \cup lost

\* Every key in use is one of those: a key enters the process from the
\* operator's hands or from a rotation, and leaves a rotation for `held' or
\* for `lost'.
KeyInv ==
  /\ \A c \in Creds : row[c].key \in Known \cup {NoKey}
  /\ cipher \in Known \cup {NoKey}
  /\ env \in held \cup {NoKey}
  /\ \A s \in Slots : req[s].op \in {"create", "update"} => req[s].blob.key \in Known
  /\ \A s \in Slots : req[s].op = "unlock" => req[s].key \in held

\* Without a cipher nothing is sealed, and no request at work will seal
\* anything; without a process there is no request.
KeylessInv ==
  /\ ~serving => \A s \in Slots : req[s] = NoRequest
  /\ serving /\ cipher = NoKey /\ ~blind =>
       /\ \A c \in Creds : row[c].key = NoKey
       /\ \A s \in Slots : req[s].op \notin {"create", "update", "rotate"}

\* A blank credential is flagged, and an edit that is about to clear the flag
\* is about a credential that holds a secret, unless a reset came between.
FlagInv ==
  /\ BlankIsFlagged
  /\ \A s \in Slots : req[s].op = "flag" =>
       \/ row[req[s].cred].exists => row[req[s].cred].key # NoKey
       \/ req[s].cred \in raced

\* No two requests write the same secret.
OfferInv ==
  \A s \in Slots : req[s].op \in {"create", "update"} =>
    /\ req[s].blob.plain <= edits
    /\ \A t \in Slots : req[t].op \in {"create", "update"} /\ t # s =>
         req[t].blob.plain # req[s].blob.plain

VaultInv == VaultTypeOK /\ KeyInv /\ KeylessInv /\ FlagInv /\ OfferInv

\* The body of RotateBlob for the credential whose turn it is.
RotateTurn(s, c) ==
  LET b    == req[s].blobs[c]
      rest == [d \in DOMAIN req[s].blobs \ {c} |-> req[s].blobs[d]]
  IN \/ /\ Opens(req[s].cur, b)
        /\ row' = [row EXCEPT ![c] = WithSecret(@, ReKey(req[s].new, b))]
        /\ req' = [req EXCEPT ![s] = [@ EXCEPT !.blobs = rest]]
     \/ /\ UNCHANGED row
        /\ req' = [req EXCEPT ![s] = [@ EXCEPT !.blobs = rest, !.failed = req[s].failed \cup {c}]]
-----------------------------------------------------------------------------
(* Requests and rows, by their types.                                      *)

\* A request is of the kind its op says.
LEMMA Kinds ==
  ASSUME NEW r \in Request
  PROVE  /\ r.op \in {"create", "update", "flag"} => r \in Edit
         /\ r.op = "baseline" => r \in Baseline
         /\ r.op = "generate" => r \in Generate
         /\ r.op \in {"unlock", "record"} => r \in Unlock
         /\ r.op \in RotationOps => r \in Rotation
         /\ r.op = "idle" => r = NoRequest
  BY DEF Request, NoRequest, Edit, Baseline, Generate, Unlock, Rotation, RotationOps

\* Sealing, clearing and flagging keep a row's type.
LEMMA RowTypes ==
  ASSUME NEW r \in Credential
  PROVE  /\ \A b \in Copy : WithSecret(r, b) \in Credential
         /\ WithoutSecret(r) \in Credential /\ FlagCleared(r) \in Credential
         /\ NoCredential \in Credential
<1>1. \A b \in Copy : WithSecret(r, b) \in Credential
  BY DEF Credential, Copy, WithSecret
<1>2. WithoutSecret(r) \in Credential
  BY VaultAssumption DEF Credential, WithoutSecret
<1>3. FlagCleared(r) \in Credential
  BY DEF Credential, FlagCleared
<1>4. NoCredential \in Credential
  BY VaultAssumption DEF Credential, NoCredential
<1>5. QED
  BY <1>1, <1>2, <1>3, <1>4

\* What WithSecret and FlagCleared write.
LEMMA RowFields ==
  ASSUME NEW r \in Credential
  PROVE  /\ \A b \in Copy : LET w == WithSecret(r, b) IN
              /\ w.exists = r.exists /\ w.reentry = r.reentry
              /\ w.plain = IF r.exists THEN b.plain ELSE r.plain
              /\ w.key = IF r.exists THEN b.key ELSE r.key
              /\ ~r.exists => w = r
         /\ LET f == FlagCleared(r) IN f.exists = r.exists /\ f.plain = r.plain /\ f.key = r.key
<1>1. ASSUME NEW b \in Copy, r.exists
      PROVE  LET w == WithSecret(r, b) IN
               w.exists = r.exists /\ w.reentry = r.reentry /\ w.plain = b.plain /\ w.key = b.key
  BY <1>1 DEF WithSecret, Credential
<1>2. ASSUME NEW b \in Copy, ~r.exists
      PROVE  WithSecret(r, b) = r
  BY <1>2 DEF WithSecret
<1>3. LET f == FlagCleared(r) IN f.exists = r.exists /\ f.plain = r.plain /\ f.key = r.key
  BY DEF FlagCleared, Credential
<1>4. QED
  BY <1>1, <1>2, <1>3

\* Ending a request, or moving it on within its kind, keeps its type.
LEMMA RequestTypes ==
  ASSUME NEW r \in Request
  PROVE  /\ NoRequest \in Request
         /\ r \in Edit => [r EXCEPT !.op = "flag"] \in Request
         /\ r \in Unlock => [r EXCEPT !.op = "record"] \in Request
         /\ r \in Rotation => /\ [r EXCEPT !.op = "swap"] \in Request
                              /\ [r EXCEPT !.op = "answer"] \in Request
  BY DEF Request, Edit, Unlock, Rotation, RotationOps

\* Types are kept by every step.
LEMMA TypeStep ==
  ASSUME VaultTypeOK, [VaultNext]_vaultVars
  PROVE  VaultTypeOK'
<1>1. ASSUME NEW s \in Slots, NEW c \in Creds, createCredential(s, c) PROVE VaultTypeOK'
  <2>1. [op |-> "create", cred |-> c, blob |-> Seal(cipher, edits + 1)] \in Request
    BY <1>1, VaultAssumption DEF createCredential, VaultTypeOK, Free, Seal, Request, Edit, Typed, Keys, NoKey
  <2>2. req' \in [Slots -> Request]
    BY <1>1, <2>1 DEF createCredential, VaultTypeOK, Free
  <2>3. QED
    BY <1>1, <2>2, VaultAssumption DEF createCredential, VaultTypeOK, Keys
<1>2. ASSUME NEW s \in Slots, NEW c \in Creds, updateCredential(s, c) PROVE VaultTypeOK'
  <2>1. [op |-> "update", cred |-> c, blob |-> Seal(cipher, edits + 1)] \in Request
    BY <1>2, VaultAssumption DEF updateCredential, VaultTypeOK, Free, Seal, Request, Edit, Typed, Keys, NoKey
  <2>2. req' \in [Slots -> Request]
    BY <1>2, <2>1 DEF updateCredential, VaultTypeOK, Free
  <2>3. QED
    BY <1>2, <2>2, VaultAssumption DEF updateCredential, VaultTypeOK, Keys
<1>3. ASSUME NEW s \in Slots, CreateCredential(s) PROVE VaultTypeOK'
  <2>1. req[s] \in Request /\ NoRequest \in Request
    BY RequestTypes DEF VaultTypeOK
  <2>2. req' \in [Slots -> Request]
    BY <1>3, <2>1 DEF CreateCredential, VaultTypeOK, Done, Running
  <2>3. req[s] \in Edit
    BY <1>3, <2>1, Kinds DEF CreateCredential, Running, RotationOps
  <2>4. LET b == req[s].blob IN
        [exists |-> TRUE, plain |-> b.plain, key |-> b.key, reentry |-> FALSE] \in Credential
    BY <2>3 DEF Edit, Typed, Credential
  <2>5. row' \in [Creds -> Credential]
    BY <1>3, <2>4 DEF CreateCredential, VaultTypeOK, Running
  <2>6. used' \subseteq Creds
    BY <1>3, <2>3 DEF CreateCredential, VaultTypeOK, Edit
  <2>7. QED
    BY <1>3, <2>2, <2>5, <2>6 DEF CreateCredential, VaultTypeOK
<1>4. ASSUME NEW s \in Slots, UpdateCredentialSecret(s) PROVE VaultTypeOK'
  <2>1. req[s] \in Request /\ NoRequest \in Request
    BY RequestTypes DEF VaultTypeOK
  <2>2. req[s] \in Edit
    BY <1>4, <2>1, Kinds DEF UpdateCredentialSecret, Running, RotationOps
  <2>3. [req[s] EXCEPT !.op = "flag"] \in Request
    BY <2>1, <2>2, RequestTypes
  <2>4. req' \in [Slots -> Request]
    BY <1>4, <2>1, <2>3 DEF UpdateCredentialSecret, VaultTypeOK, Done, Goes
  <2>5. req[s].blob \in Copy /\ req[s].cred \in Creds
    BY <2>2 DEF Edit, Typed, Copy
  <2>6. row' \in [Creds -> Credential]
    BY <1>4, <2>5, RowTypes DEF UpdateCredentialSecret, VaultTypeOK, Running
  <2>7. raced' \subseteq Creds
    BY <1>4, <2>5 DEF UpdateCredentialSecret, VaultTypeOK
  <2>8. QED
    BY <1>4, <2>4, <2>6, <2>7 DEF UpdateCredentialSecret, VaultTypeOK
<1>5. ASSUME NEW s \in Slots, ClearReentryFlag(s) PROVE VaultTypeOK'
  <2>1. req[s] \in Request /\ NoRequest \in Request
    BY RequestTypes DEF VaultTypeOK
  <2>2. req' \in [Slots -> Request]
    BY <1>5, <2>1 DEF ClearReentryFlag, VaultTypeOK, Done, Running
  <2>3. req[s] \in Edit
    BY <1>5, <2>1, Kinds DEF ClearReentryFlag, Running, RotationOps
  <2>4. row' \in [Creds -> Credential]
    BY <1>5, RowTypes DEF ClearReentryFlag, VaultTypeOK, Running
  <2>5. QED
    BY <1>5, <2>2, <2>4 DEF ClearReentryFlag, VaultTypeOK
<1>6. ASSUME NEW s \in Slots, computeEncState(s) PROVE VaultTypeOK'
  <2>1. [op |-> "baseline", key |-> cipher] \in Request
    BY <1>6, VaultAssumption DEF computeEncState, VaultTypeOK, Free, Request, Baseline
  <2>2. req' \in [Slots -> Request]
    BY <1>6, <2>1 DEF computeEncState, VaultTypeOK, Free
  <2>3. QED
    BY <1>6, <2>2, VaultAssumption DEF computeEncState, VaultTypeOK, Keys
<1>7. ASSUME NEW s \in Slots, AdoptBaseline(s) PROVE VaultTypeOK'
  <2>1. req[s] \in Request /\ NoRequest \in Request
    BY RequestTypes DEF VaultTypeOK
  <2>2. req' \in [Slots -> Request]
    BY <1>7, <2>1 DEF AdoptBaseline, VaultTypeOK, Done, Running
  <2>3. req[s] \in Baseline
    BY <1>7, <2>1, Kinds DEF AdoptBaseline, Running, RotationOps
  <2>4. QED
    BY <1>7, <2>2, <2>3 DEF AdoptBaseline, VaultTypeOK, Baseline
<1>8. ASSUME NEW s \in Slots, encryptionGenerate(s) PROVE VaultTypeOK'
  <2>1. [op |-> "generate", new |-> made + 1] \in Request
    BY <1>8, VaultAssumption DEF encryptionGenerate, VaultTypeOK, Free, Request, Generate, Keys
  <2>2. req' \in [Slots -> Request]
    BY <1>8, <2>1 DEF encryptionGenerate, VaultTypeOK, Free
  <2>3. QED
    BY <1>8, <2>2, VaultAssumption DEF encryptionGenerate, VaultTypeOK, Keys
<1>9. ASSUME NEW s \in Slots, UpsertEncryptionMetadata(s) PROVE VaultTypeOK'
  <2>1. req[s] \in Request /\ NoRequest \in Request
    BY RequestTypes DEF VaultTypeOK
  <2>2. req' \in [Slots -> Request]
    BY <1>9, <2>1 DEF UpsertEncryptionMetadata, VaultTypeOK, Done, Running
  <2>3. req[s] \in Generate
    BY <1>9, <2>1, Kinds DEF UpsertEncryptionMetadata, Running, RotationOps
  <2>4. QED
    BY <1>9, <2>2, <2>3 DEF UpsertEncryptionMetadata, VaultTypeOK, Generate
<1>10. ASSUME NEW s \in Slots, NEW k \in Keys, NEW adopt \in BOOLEAN, encryptionUnlock(s, k, adopt) PROVE VaultTypeOK'
  <2>1. [op |-> "unlock", key |-> k, saw |-> stored] \in Request
    BY <1>10, VaultAssumption DEF encryptionUnlock, VaultTypeOK, Free, Request, Unlock
  <2>2. req' \in [Slots -> Request]
    BY <1>10, <2>1 DEF encryptionUnlock, VaultTypeOK, Free
  <2>3. QED
    BY <1>10, <2>2, VaultAssumption DEF encryptionUnlock, VaultTypeOK, Keys
<1>11. ASSUME NEW s \in Slots, UnlockLoad(s) PROVE VaultTypeOK'
  <2>1. req[s] \in Request /\ NoRequest \in Request
    BY RequestTypes DEF VaultTypeOK
  <2>2. req[s] \in Unlock
    BY <1>11, <2>1, Kinds DEF UnlockLoad, Running, RotationOps
  <2>3. [req[s] EXCEPT !.op = "record"] \in Request
    BY <2>1, <2>2, RequestTypes
  <2>4. req' \in [Slots -> Request]
    BY <1>11, <2>1, <2>3 DEF UnlockLoad, VaultTypeOK, Done, Goes
  <2>5. QED
    BY <1>11, <2>4, <2>2 DEF UnlockLoad, VaultTypeOK, Unlock
<1>12. ASSUME NEW s \in Slots, UnlockRecord(s) PROVE VaultTypeOK'
  <2>1. req[s] \in Request /\ NoRequest \in Request
    BY RequestTypes DEF VaultTypeOK
  <2>2. req' \in [Slots -> Request]
    BY <1>12, <2>1 DEF UnlockRecord, VaultTypeOK, Done, Running
  <2>3. req[s] \in Unlock
    BY <1>12, <2>1, Kinds DEF UnlockRecord, Running, RotationOps
  <2>4. QED
    BY <1>12, <2>2, <2>3 DEF UnlockRecord, VaultTypeOK, Unlock
<1>13. ASSUME NEW s \in Slots, encryptionRotate(s) PROVE VaultTypeOK'
  <2>1. [c \in Sealed |-> Seal(row[c].key, row[c].plain)]
          \in UNION {[listed -> Copy] : listed \in SUBSET Creds}
    <3>1. Sealed \in SUBSET Creds
      BY DEF Sealed
    <3>2. \A c \in Creds : Seal(row[c].key, row[c].plain) \in Copy
      BY DEF VaultTypeOK, Credential, Seal, Copy
    <3>3. [c \in Sealed |-> Seal(row[c].key, row[c].plain)] \in [Sealed -> Copy]
      BY <3>1, <3>2
    <3>4. QED
      BY <3>1, <3>3
  <2>2. [op |-> "rotate", cur |-> cipher, new |-> made + 1,
         blobs |-> [c \in Sealed |-> Seal(row[c].key, row[c].plain)], failed |-> {}] \in Request
    BY <1>13, <2>1, VaultAssumption
       DEF encryptionRotate, VaultTypeOK, Free, Request, Rotation, RotationOps, Keys
  <2>3. req' \in [Slots -> Request]
    BY <1>13, <2>2 DEF encryptionRotate, VaultTypeOK
  <2>4. QED
    BY <1>13, <2>3, VaultAssumption DEF encryptionRotate, VaultTypeOK
<1>14. ASSUME NEW s \in Slots, RotateBlob(s) PROVE VaultTypeOK'
  <2>1. req[s] \in Request /\ req[s] \in Rotation
    BY <1>14, Kinds DEF RotateBlob, Running, RotationOps, VaultTypeOK
  <2>2. PICK listed \in SUBSET Creds : req[s].blobs \in [listed -> Copy]
    BY <2>1 DEF Rotation
  <2>3. PICK c \in DOMAIN req[s].blobs : RotateTurn(s, c)
    BY <1>14 DEF RotateBlob, RotateTurn
  <2> DEFINE rest == [d \in DOMAIN req[s].blobs \ {c} |-> req[s].blobs[d]]
  <2>4. c \in Creds /\ req[s].blobs[c] \in Copy /\ rest \in [listed \ {c} -> Copy]
    BY <2>2
  <2>5. rest \in UNION {[l -> Copy] : l \in SUBSET Creds}
    BY <2>4
  <2>6. /\ [req[s] EXCEPT !.blobs = rest] \in Request
        /\ [req[s] EXCEPT !.blobs = rest, !.failed = req[s].failed \cup {c}] \in Request
    BY <2>1, <2>4, <2>5 DEF Rotation, Request
  <2>7. req' \in [Slots -> Request]
    BY <2>3, <2>6 DEF RotateTurn, VaultTypeOK
  <2>8. ReKey(req[s].new, req[s].blobs[c]) \in Copy
    BY <2>1, <2>4 DEF Rotation, Copy, ReKey, Seal
  <2>9. row' \in [Creds -> Credential]
    BY <2>3, <2>4, <2>8, RowTypes DEF RotateTurn, VaultTypeOK
  <2>10. QED
    BY <1>14, <2>7, <2>9 DEF RotateBlob, VaultTypeOK
<1>15. ASSUME NEW s \in Slots, RecordRotation(s) PROVE VaultTypeOK'
  <2>1. req[s] \in Request /\ NoRequest \in Request
    BY RequestTypes DEF VaultTypeOK
  <2>2. req[s] \in Rotation
    BY <1>15, <2>1, Kinds DEF RecordRotation, Running, RotationOps
  <2>3. [req[s] EXCEPT !.op = "swap"] \in Request
    BY <2>1, <2>2, RequestTypes
  <2>4. req' \in [Slots -> Request]
    BY <1>15, <2>1, <2>3 DEF RecordRotation, VaultTypeOK, Done, Goes
  <2>5. QED
    BY <1>15, <2>4, <2>2 DEF RecordRotation, VaultTypeOK, Rotation
<1>16. ASSUME NEW s \in Slots, RotateCut(s) PROVE VaultTypeOK'
  <2>1. req[s] \in Request /\ NoRequest \in Request
    BY RequestTypes DEF VaultTypeOK
  <2>2. req' \in [Slots -> Request]
    BY <1>16, <2>1 DEF RotateCut, VaultTypeOK, Done, Running
  <2>3. req[s] \in Rotation
    BY <1>16, <2>1, Kinds DEF RotateCut, Running, RotationOps
  <2>4. QED
    BY <1>16, <2>2, <2>3 DEF RotateCut, VaultTypeOK, Rotation
<1>17. ASSUME NEW s \in Slots, setCipher(s) PROVE VaultTypeOK'
  <2>1. req[s] \in Request /\ NoRequest \in Request
    BY RequestTypes DEF VaultTypeOK
  <2>2. req[s] \in Rotation
    BY <1>17, <2>1, Kinds DEF setCipher, Running, RotationOps
  <2>3. [req[s] EXCEPT !.op = "answer"] \in Request
    BY <2>1, <2>2, RequestTypes
  <2>4. req' \in [Slots -> Request]
    BY <1>17, <2>1, <2>3 DEF setCipher, VaultTypeOK, Done, Goes
  <2>5. QED
    BY <1>17, <2>4, <2>2 DEF setCipher, VaultTypeOK, Rotation
<1>18. ASSUME NEW s \in Slots, RotateAnswer(s) PROVE VaultTypeOK'
  <2>1. req[s] \in Request /\ NoRequest \in Request
    BY RequestTypes DEF VaultTypeOK
  <2>2. req' \in [Slots -> Request]
    BY <1>18, <2>1 DEF RotateAnswer, VaultTypeOK, Done, Running
  <2>3. req[s] \in Rotation
    BY <1>18, <2>1, Kinds DEF RotateAnswer, Running, RotationOps
  <2>4. QED
    BY <1>18, <2>2, <2>3 DEF RotateAnswer, VaultTypeOK, Rotation
<1>19. ASSUME NEW c \in Creds, deleteCredential(c) PROVE VaultTypeOK'
  <2>1. row' \in [Creds -> Credential]
    BY <1>19, RowTypes DEF deleteCredential, VaultTypeOK
  <2>2. QED
    BY <1>19, <2>1 DEF deleteCredential, VaultTypeOK
<1>20. ASSUME encryptionResetCredentials PROVE VaultTypeOK'
  <2>1. row' \in [Creds -> Credential]
    BY <1>20, RowTypes DEF encryptionResetCredentials, VaultTypeOK
  <2>2. \A t \in Slots : req[t].op = "flag" => req[t].cred \in Creds
    BY Kinds DEF VaultTypeOK, Edit
  <2>3. raced' \subseteq Creds
    BY <1>20, <2>2 DEF encryptionResetCredentials, VaultTypeOK, Sealed
  <2>4. QED
    BY <1>20, <2>1, <2>3 DEF encryptionResetCredentials, VaultTypeOK
<1>21. ASSUME Crash PROVE VaultTypeOK'
  <2>1. req' \in [Slots -> Request]
    BY <1>21, RequestTypes DEF Crash, VaultTypeOK, Request
  <2>2. InFlight \subseteq Keys
    BY Kinds DEF InFlight, VaultTypeOK, Rotation
  <2>3. restarts' \in 0 .. MaxRestart
    BY <1>21, VaultAssumption DEF Crash, VaultTypeOK
  <2>4. cipher' \in Keys \cup {NoKey} /\ lost' \subseteq Keys /\ serving' \in BOOLEAN
    BY <1>21, <2>2 DEF Crash, VaultTypeOK
  <2>5. QED
    BY <1>21, <2>1, <2>3, <2>4 DEF Crash, VaultTypeOK
<1>22. ASSUME Boot PROVE VaultTypeOK'
  BY <1>22 DEF Boot, VaultTypeOK
<1>23. ASSUME NEW k \in Keys \cup {NoKey}, SetEnv(k) PROVE VaultTypeOK'
  BY <1>23 DEF SetEnv, VaultTypeOK
<1>24. CASE UNCHANGED vaultVars
  BY <1>24 DEF VaultTypeOK, vaultVars
<1>25. QED
  BY <1>1, <1>2, <1>3, <1>4, <1>5, <1>6, <1>7, <1>8, <1>9, <1>10, <1>11, <1>12, <1>13,
     <1>14, <1>15, <1>16, <1>17, <1>18, <1>19, <1>20, <1>21, <1>22, <1>23, <1>24 DEF VaultNext

-----------------------------------------------------------------------------
(* Keys.                                                                   *)

\* No key is forgotten: a rotation goes on, or its key is shown or lost.
Carried ==
  /\ held \subseteq held' /\ lost \subseteq lost'
  /\ \A t \in Slots : req[t].op \in RotationOps =>
       \/ req'[t].op \in RotationOps /\ req'[t].new = req[t].new
       \/ req[t].new \in held' \cup lost'

\* Every step carries the keys over.
LEMMA CarriedStep ==
  ASSUME VaultTypeOK, [VaultNext]_vaultVars
  PROVE  Carried
<1>1. ASSUME NEW s \in Slots, NEW c \in Creds, createCredential(s, c) PROVE Carried
  <2>1. \A t \in Slots : t # s => req'[t] = req[t]
    BY <1>1 DEF createCredential, VaultTypeOK
  <2>2. QED
    BY <1>1, <2>1 DEF createCredential, Carried, Free, NoRequest, RotationOps
<1>2. ASSUME NEW s \in Slots, NEW c \in Creds, updateCredential(s, c) PROVE Carried
  <2>1. \A t \in Slots : t # s => req'[t] = req[t]
    BY <1>2 DEF updateCredential, VaultTypeOK
  <2>2. QED
    BY <1>2, <2>1 DEF updateCredential, Carried, Free, NoRequest, RotationOps
<1>3. ASSUME NEW s \in Slots, CreateCredential(s) PROVE Carried
  <2>1. \A t \in Slots : t # s => req'[t] = req[t]
    BY <1>3 DEF CreateCredential, VaultTypeOK, Done, Goes
  <2>2. QED
    BY <1>3, <2>1 DEF CreateCredential, Carried, Running, RotationOps
<1>4. ASSUME NEW s \in Slots, UpdateCredentialSecret(s) PROVE Carried
  <2>1. \A t \in Slots : t # s => req'[t] = req[t]
    BY <1>4 DEF UpdateCredentialSecret, VaultTypeOK, Done, Goes
  <2>2. QED
    BY <1>4, <2>1 DEF UpdateCredentialSecret, Carried, Running, RotationOps
<1>5. ASSUME NEW s \in Slots, ClearReentryFlag(s) PROVE Carried
  <2>1. \A t \in Slots : t # s => req'[t] = req[t]
    BY <1>5 DEF ClearReentryFlag, VaultTypeOK, Done, Goes
  <2>2. QED
    BY <1>5, <2>1 DEF ClearReentryFlag, Carried, Running, RotationOps
<1>6. ASSUME NEW s \in Slots, computeEncState(s) PROVE Carried
  <2>1. \A t \in Slots : t # s => req'[t] = req[t]
    BY <1>6 DEF computeEncState, VaultTypeOK
  <2>2. QED
    BY <1>6, <2>1 DEF computeEncState, Carried, Free, NoRequest, RotationOps
<1>7. ASSUME NEW s \in Slots, AdoptBaseline(s) PROVE Carried
  <2>1. \A t \in Slots : t # s => req'[t] = req[t]
    BY <1>7 DEF AdoptBaseline, VaultTypeOK, Done, Goes
  <2>2. QED
    BY <1>7, <2>1 DEF AdoptBaseline, Carried, Running, RotationOps
<1>8. ASSUME NEW s \in Slots, encryptionGenerate(s) PROVE Carried
  <2>1. \A t \in Slots : t # s => req'[t] = req[t]
    BY <1>8 DEF encryptionGenerate, VaultTypeOK
  <2>2. QED
    BY <1>8, <2>1 DEF encryptionGenerate, Carried, Free, NoRequest, RotationOps
<1>9. ASSUME NEW s \in Slots, UpsertEncryptionMetadata(s) PROVE Carried
  <2>1. \A t \in Slots : t # s => req'[t] = req[t]
    BY <1>9 DEF UpsertEncryptionMetadata, VaultTypeOK, Done, Goes
  <2>2. QED
    BY <1>9, <2>1 DEF UpsertEncryptionMetadata, Carried, Running, RotationOps
<1>10. ASSUME NEW s \in Slots, NEW k \in Keys, NEW adopt \in BOOLEAN, encryptionUnlock(s, k, adopt) PROVE Carried
  <2>1. \A t \in Slots : t # s => req'[t] = req[t]
    BY <1>10 DEF encryptionUnlock, VaultTypeOK
  <2>2. QED
    BY <1>10, <2>1 DEF encryptionUnlock, Carried, Free, NoRequest, RotationOps
<1>11. ASSUME NEW s \in Slots, UnlockLoad(s) PROVE Carried
  <2>1. \A t \in Slots : t # s => req'[t] = req[t]
    BY <1>11 DEF UnlockLoad, VaultTypeOK, Done, Goes
  <2>2. QED
    BY <1>11, <2>1 DEF UnlockLoad, Carried, Running, RotationOps
<1>12. ASSUME NEW s \in Slots, UnlockRecord(s) PROVE Carried
  <2>1. \A t \in Slots : t # s => req'[t] = req[t]
    BY <1>12 DEF UnlockRecord, VaultTypeOK, Done, Goes
  <2>2. QED
    BY <1>12, <2>1 DEF UnlockRecord, Carried, Running, RotationOps
<1>13. ASSUME NEW s \in Slots, encryptionRotate(s) PROVE Carried
  <2>1. \A t \in Slots : t # s => req'[t] = req[t]
    BY <1>13 DEF encryptionRotate, VaultTypeOK
  <2>2. QED
    BY <1>13, <2>1 DEF encryptionRotate, Carried, Free, NoRequest, RotationOps
<1>14. ASSUME NEW s \in Slots, RotateBlob(s) PROVE Carried
  <2>1. req[s] \in Rotation
    BY <1>14, Kinds DEF RotateBlob, Running, RotationOps, VaultTypeOK
  <2>2. PICK c \in DOMAIN req[s].blobs : RotateTurn(s, c)
    BY <1>14 DEF RotateBlob, RotateTurn
  <2>3. req'[s].op = req[s].op /\ req'[s].new = req[s].new
    BY <2>1, <2>2 DEF RotateTurn, Rotation, VaultTypeOK
  <2>4. \A t \in Slots : t # s => req'[t] = req[t]
    BY <2>2 DEF RotateTurn, VaultTypeOK
  <2>5. QED
    BY <1>14, <2>3, <2>4 DEF RotateBlob, Carried
<1>15. ASSUME NEW s \in Slots, RecordRotation(s) PROVE Carried
  <2>1. \A t \in Slots : t # s => req'[t] = req[t]
    BY <1>15 DEF RecordRotation, VaultTypeOK, Goes
  <2>2. req[s] \in Rotation
    BY <1>15, Kinds DEF RecordRotation, VaultTypeOK, Running, RotationOps
  <2>3. req'[s].op \in RotationOps /\ req'[s].new = req[s].new
    BY <1>15, <2>2 DEF RecordRotation, VaultTypeOK, Goes, Rotation, RotationOps
  <2>4. QED
    BY <1>15, <2>1, <2>3 DEF RecordRotation, Carried
<1>16. ASSUME NEW s \in Slots, RotateCut(s) PROVE Carried
  <2>1. \A t \in Slots : t # s => req'[t] = req[t]
    BY <1>16 DEF RotateCut, VaultTypeOK, Done, Goes
  <2>2. QED
    BY <1>16, <2>1 DEF RotateCut, Carried, Running, RotationOps
<1>17. ASSUME NEW s \in Slots, setCipher(s) PROVE Carried
  <2>1. \A t \in Slots : t # s => req'[t] = req[t]
    BY <1>17 DEF setCipher, VaultTypeOK, Goes
  <2>2. req[s] \in Rotation
    BY <1>17, Kinds DEF setCipher, VaultTypeOK, Running, RotationOps
  <2>3. req'[s].op \in RotationOps /\ req'[s].new = req[s].new
    BY <1>17, <2>2 DEF setCipher, VaultTypeOK, Goes, Rotation, RotationOps
  <2>4. QED
    BY <1>17, <2>1, <2>3 DEF setCipher, Carried
<1>18. ASSUME NEW s \in Slots, RotateAnswer(s) PROVE Carried
  <2>1. \A t \in Slots : t # s => req'[t] = req[t]
    BY <1>18 DEF RotateAnswer, VaultTypeOK, Done, Goes
  <2>2. QED
    BY <1>18, <2>1 DEF RotateAnswer, Carried, Running, RotationOps
<1>19. ASSUME NEW c \in Creds, deleteCredential(c) PROVE Carried
  BY <1>19 DEF deleteCredential, Carried
<1>20. ASSUME encryptionResetCredentials PROVE Carried
  BY <1>20 DEF encryptionResetCredentials, Carried
<1>21. ASSUME Crash PROVE Carried
  <2>1. \A t \in Slots : req[t].op \in RotationOps => req[t].new \in InFlight
    BY DEF InFlight
  <2>2. QED
    BY <1>21, <2>1 DEF Crash, Carried
<1>22. ASSUME Boot PROVE Carried
  BY <1>22 DEF Boot, Carried
<1>23. ASSUME NEW k \in Keys \cup {NoKey}, SetEnv(k) PROVE Carried
  BY <1>23 DEF SetEnv, Carried
<1>24. CASE UNCHANGED vaultVars
  BY <1>24 DEF Carried, vaultVars
<1>25. QED
  BY <1>1, <1>2, <1>3, <1>4, <1>5, <1>6, <1>7, <1>8, <1>9, <1>10, <1>11, <1>12, <1>13,
     <1>14, <1>15, <1>16, <1>17, <1>18, <1>19, <1>20, <1>21, <1>22, <1>23, <1>24 DEF VaultNext

\* So what is known stays known.
LEMMA KnownGrows ==
  ASSUME Carried
  PROVE  Known \subseteq Known'
<1>1. InFlight \subseteq held' \cup lost' \cup InFlight'
  BY DEF Carried, InFlight
<1>2. QED
  BY <1>1 DEF Carried, Known


\* The key part of the invariant is kept.
LEMMA KeyStep ==
  ASSUME VaultTypeOK, KeyInv, [VaultNext]_vaultVars
  PROVE  KeyInv'
<1>1. Known \subseteq Known' /\ held \subseteq held' /\ held \subseteq Known
  BY CarriedStep, KnownGrows DEF Carried, Known
<1>2. ASSUME NEW s \in Slots, NEW c \in Creds, createCredential(s, c) PROVE KeyInv'
  BY <1>2, <1>1 DEF createCredential, KeyInv, VaultTypeOK, Free, Seal
<1>3. ASSUME NEW s \in Slots, NEW c \in Creds, updateCredential(s, c) PROVE KeyInv'
  BY <1>3, <1>1 DEF updateCredential, KeyInv, VaultTypeOK, Free, Seal
<1>4. ASSUME NEW s \in Slots, CreateCredential(s) PROVE KeyInv'
  <2>1. req[s] \in Edit /\ req[s].blob.key \in Known
    BY <1>4, Kinds DEF CreateCredential, Running, VaultTypeOK, KeyInv
  <2>2. \A c \in Creds : row'[c].key \in Known \cup {NoKey}
    BY <1>4, <2>1 DEF CreateCredential, KeyInv, VaultTypeOK
  <2>3. QED
    BY <1>4, <1>1, <2>2 DEF CreateCredential, KeyInv, VaultTypeOK, Done, NoRequest
<1>5. ASSUME NEW s \in Slots, UpdateCredentialSecret(s) PROVE KeyInv'
  <2>1. req[s] \in Edit /\ req[s].blob.key \in Known
    BY <1>5, Kinds DEF UpdateCredentialSecret, Running, VaultTypeOK, KeyInv
  <2>2. \A c \in Creds : row'[c].key \in Known \cup {NoKey}
    BY <1>5, <2>1, RowFields DEF UpdateCredentialSecret, KeyInv, VaultTypeOK, Edit, Typed, Copy
  <2>3. \A t \in Slots : req'[t].op \in {"create", "update", "unlock"} => req'[t] = req[t]
    BY <1>5, <2>1 DEF UpdateCredentialSecret, VaultTypeOK, Done, Goes, Edit, NoRequest
  <2>4. QED
    BY <1>5, <1>1, <2>2, <2>3 DEF UpdateCredentialSecret, KeyInv, VaultTypeOK
<1>6. ASSUME NEW s \in Slots, ClearReentryFlag(s) PROVE KeyInv'
  <2>1. \A c \in Creds : row'[c].key = row[c].key
    BY <1>6 DEF ClearReentryFlag, FlagCleared, VaultTypeOK, Credential
  <2>2. QED
    BY <1>6, <1>1, <2>1 DEF ClearReentryFlag, KeyInv, VaultTypeOK, Done, NoRequest
<1>7. ASSUME NEW s \in Slots, computeEncState(s) PROVE KeyInv'
  BY <1>7, <1>1 DEF computeEncState, KeyInv, VaultTypeOK, Free, Seal
<1>8. ASSUME NEW s \in Slots, AdoptBaseline(s) PROVE KeyInv'
  BY <1>8, <1>1 DEF AdoptBaseline, KeyInv, VaultTypeOK, Done, NoRequest
<1>9. ASSUME NEW s \in Slots, encryptionGenerate(s) PROVE KeyInv'
  BY <1>9, <1>1 DEF encryptionGenerate, KeyInv, VaultTypeOK, Free, Seal
<1>10. ASSUME NEW s \in Slots, UpsertEncryptionMetadata(s) PROVE KeyInv'
  BY <1>10, <1>1 DEF UpsertEncryptionMetadata, KeyInv, VaultTypeOK, Done, NoRequest
<1>11. ASSUME NEW s \in Slots, NEW k \in Keys, NEW adopt \in BOOLEAN, encryptionUnlock(s, k, adopt) PROVE KeyInv'
  BY <1>11, <1>1 DEF encryptionUnlock, KeyInv, VaultTypeOK
<1>12. ASSUME NEW s \in Slots, UnlockLoad(s) PROVE KeyInv'
  <2>1. req[s] \in Unlock /\ req[s].key \in Known
    BY <1>12, Kinds DEF UnlockLoad, Running, VaultTypeOK, KeyInv, Known
  <2>2. \A t \in Slots : req'[t].op \in {"create", "update", "unlock"} => req'[t] = req[t]
    BY <1>12, <2>1 DEF UnlockLoad, VaultTypeOK, Done, Goes, Unlock, NoRequest
  <2>3. QED
    BY <1>12, <1>1, <2>1, <2>2 DEF UnlockLoad, KeyInv, VaultTypeOK
<1>13. ASSUME NEW s \in Slots, UnlockRecord(s) PROVE KeyInv'
  BY <1>13, <1>1 DEF UnlockRecord, KeyInv, VaultTypeOK, Done, NoRequest
<1>14. ASSUME NEW s \in Slots, encryptionRotate(s) PROVE KeyInv'
  BY <1>14, <1>1 DEF encryptionRotate, KeyInv, VaultTypeOK, Free, Seal
<1>15. ASSUME NEW s \in Slots, RotateBlob(s) PROVE KeyInv'
  <2>1. req[s] \in Rotation /\ req[s].new \in Known
    BY <1>15, Kinds DEF RotateBlob, Running, VaultTypeOK, Known, InFlight, RotationOps
  <2>2. PICK c \in DOMAIN req[s].blobs : RotateTurn(s, c)
    BY <1>15 DEF RotateBlob, RotateTurn
  <2>3. c \in Creds
    BY <2>1 DEF Rotation
  <2>4. \A d \in Creds : row'[d].key \in Known \cup {NoKey}
    <3>1. LET b == ReKey(req[s].new, req[s].blobs[c]) IN b \in Copy /\ b.key = req[s].new
      BY <2>1 DEF Rotation, Copy, ReKey, Seal
    <3>2. QED
      BY <2>1, <2>2, <2>3, <3>1, RowFields DEF RotateTurn, KeyInv, VaultTypeOK
  <2>5. req'[s].op = "rotate" /\ \A t \in Slots : t # s => req'[t] = req[t]
    BY <1>15, <2>1, <2>2 DEF RotateBlob, RotateTurn, Running, Rotation, VaultTypeOK
  <2>6. QED
    BY <1>15, <1>1, <2>4, <2>5 DEF RotateBlob, KeyInv, VaultTypeOK
<1>16. ASSUME NEW s \in Slots, RecordRotation(s) PROVE KeyInv'
  <2>1. req[s] \in Rotation /\ req[s].new \in Known
    BY <1>16, Kinds DEF RecordRotation, Running, VaultTypeOK, Known, InFlight, RotationOps
  <2>2. \A t \in Slots : req'[t].op \in {"create", "update", "unlock"} => req'[t] = req[t]
    BY <1>16, <2>1 DEF RecordRotation, VaultTypeOK, Goes, Rotation
  <2>3. QED
    BY <1>16, <1>1, <2>1, <2>2 DEF RecordRotation, KeyInv, VaultTypeOK
<1>17. ASSUME NEW s \in Slots, RotateCut(s) PROVE KeyInv'
  BY <1>17, <1>1 DEF RotateCut, KeyInv, VaultTypeOK, Done, NoRequest
<1>18. ASSUME NEW s \in Slots, setCipher(s) PROVE KeyInv'
  <2>1. req[s] \in Rotation /\ req[s].new \in Known
    BY <1>18, Kinds DEF setCipher, Running, VaultTypeOK, Known, InFlight, RotationOps
  <2>2. \A t \in Slots : req'[t].op \in {"create", "update", "unlock"} => req'[t] = req[t]
    BY <1>18, <2>1 DEF setCipher, VaultTypeOK, Goes, Rotation
  <2>3. QED
    BY <1>18, <1>1, <2>1, <2>2 DEF setCipher, KeyInv, VaultTypeOK
<1>19. ASSUME NEW s \in Slots, RotateAnswer(s) PROVE KeyInv'
  BY <1>19, <1>1 DEF RotateAnswer, KeyInv, VaultTypeOK, Done, NoRequest
<1>20. ASSUME NEW c \in Creds, deleteCredential(c) PROVE KeyInv'
  BY <1>20, <1>1 DEF deleteCredential, KeyInv, VaultTypeOK, NoCredential
<1>21. ASSUME encryptionResetCredentials PROVE KeyInv'
  BY <1>21, <1>1 DEF encryptionResetCredentials, KeyInv, VaultTypeOK, WithoutSecret
<1>22. ASSUME Crash PROVE KeyInv'
  BY <1>22, <1>1 DEF Crash, KeyInv, VaultTypeOK, NoRequest
<1>23. ASSUME Boot PROVE KeyInv'
  BY <1>23, <1>1 DEF Boot, KeyInv, VaultTypeOK, Known
<1>24. ASSUME NEW k \in Keys \cup {NoKey}, SetEnv(k) PROVE KeyInv'
  BY <1>24, <1>1 DEF SetEnv, KeyInv, VaultTypeOK
<1>25. CASE UNCHANGED vaultVars
  BY <1>25, <1>1 DEF KeyInv, vaultVars
<1>26. QED
  BY <1>2, <1>3, <1>4, <1>5, <1>6, <1>7, <1>8, <1>9, <1>10, <1>11, <1>12, <1>13, <1>14,
     <1>15, <1>16, <1>17, <1>18, <1>19, <1>20, <1>21, <1>22, <1>23, <1>24, <1>25 DEF VaultNext

-----------------------------------------------------------------------------
(* The start-up guard and the re-entry flag.                               *)

\* The guard's part of the invariant is kept.
LEMMA KeylessStep ==
  ASSUME VaultTypeOK, KeylessInv, [VaultNext]_vaultVars
  PROVE  KeylessInv'
<1>1. ASSUME NEW s \in Slots, NEW c \in Creds, createCredential(s, c) PROVE KeylessInv'
  BY <1>1 DEF createCredential, KeylessInv, VaultTypeOK, Free
<1>2. ASSUME NEW s \in Slots, NEW c \in Creds, updateCredential(s, c) PROVE KeylessInv'
  BY <1>2 DEF updateCredential, KeylessInv, VaultTypeOK, Free
<1>3. ASSUME NEW s \in Slots, CreateCredential(s) PROVE KeylessInv'
  BY <1>3 DEF CreateCredential, KeylessInv, VaultTypeOK, Running, Done, NoRequest
<1>4. ASSUME NEW s \in Slots, UpdateCredentialSecret(s) PROVE KeylessInv'
  BY <1>4 DEF UpdateCredentialSecret, KeylessInv, Running
<1>5. ASSUME NEW s \in Slots, ClearReentryFlag(s) PROVE KeylessInv'
  <2>1. \A c \in Creds : row'[c].key = row[c].key
    BY <1>5, RowFields DEF ClearReentryFlag, VaultTypeOK
  <2>2. QED
    BY <1>5, <2>1 DEF ClearReentryFlag, KeylessInv, VaultTypeOK, Running, Done, NoRequest
<1>6. ASSUME NEW s \in Slots, computeEncState(s) PROVE KeylessInv'
  BY <1>6 DEF computeEncState, KeylessInv, VaultTypeOK, Free
<1>7. ASSUME NEW s \in Slots, AdoptBaseline(s) PROVE KeylessInv'
  BY <1>7 DEF AdoptBaseline, KeylessInv, VaultTypeOK, Running, Done, NoRequest
<1>8. ASSUME NEW s \in Slots, encryptionGenerate(s) PROVE KeylessInv'
  BY <1>8 DEF encryptionGenerate, KeylessInv, VaultTypeOK, Free
<1>9. ASSUME NEW s \in Slots, UpsertEncryptionMetadata(s) PROVE KeylessInv'
  BY <1>9 DEF UpsertEncryptionMetadata, KeylessInv, VaultTypeOK, Running, Done, NoRequest
<1>10. ASSUME NEW s \in Slots, NEW k \in Keys, NEW adopt \in BOOLEAN, encryptionUnlock(s, k, adopt) PROVE KeylessInv'
  BY <1>10 DEF encryptionUnlock, KeylessInv, VaultTypeOK, Free
<1>11. ASSUME NEW s \in Slots, UnlockLoad(s) PROVE KeylessInv'
  <2>1. cipher' # NoKey
    BY <1>11, Kinds DEF UnlockLoad, Running, VaultTypeOK, Unlock, Keys, NoKey
  <2>2. QED
    BY <1>11, <2>1 DEF UnlockLoad, KeylessInv, Running
<1>12. ASSUME NEW s \in Slots, UnlockRecord(s) PROVE KeylessInv'
  BY <1>12 DEF UnlockRecord, KeylessInv, VaultTypeOK, Running, Done, NoRequest
<1>13. ASSUME NEW s \in Slots, encryptionRotate(s) PROVE KeylessInv'
  BY <1>13 DEF encryptionRotate, KeylessInv, VaultTypeOK, Free
<1>14. ASSUME NEW s \in Slots, RotateBlob(s) PROVE KeylessInv'
  BY <1>14 DEF RotateBlob, KeylessInv, Running
<1>15. ASSUME NEW s \in Slots, RecordRotation(s) PROVE KeylessInv'
  BY <1>15 DEF RecordRotation, KeylessInv, Running
<1>16. ASSUME NEW s \in Slots, RotateCut(s) PROVE KeylessInv'
  BY <1>16 DEF RotateCut, KeylessInv, VaultTypeOK, Running, Done, NoRequest
<1>17. ASSUME NEW s \in Slots, setCipher(s) PROVE KeylessInv'
  <2>1. cipher' # NoKey
    BY <1>17, Kinds DEF setCipher, Running, VaultTypeOK, Rotation, RotationOps, Keys, NoKey
  <2>2. QED
    BY <1>17, <2>1 DEF setCipher, KeylessInv, Running
<1>18. ASSUME NEW s \in Slots, RotateAnswer(s) PROVE KeylessInv'
  BY <1>18 DEF RotateAnswer, KeylessInv, VaultTypeOK, Running, Done, NoRequest
<1>19. ASSUME NEW c \in Creds, deleteCredential(c) PROVE KeylessInv'
  BY <1>19 DEF deleteCredential, KeylessInv, VaultTypeOK, NoCredential
<1>20. ASSUME encryptionResetCredentials PROVE KeylessInv'
  BY <1>20 DEF encryptionResetCredentials, KeylessInv, VaultTypeOK, WithoutSecret
<1>21. ASSUME Crash PROVE KeylessInv'
  BY <1>21 DEF Crash, KeylessInv, VaultTypeOK
<1>22. ASSUME Boot PROVE KeylessInv'
  BY <1>22 DEF Boot, KeylessInv, VaultTypeOK, Sealed, NoRequest
<1>23. ASSUME NEW k \in Keys \cup {NoKey}, SetEnv(k) PROVE KeylessInv'
  BY <1>23 DEF SetEnv, KeylessInv
<1>24. CASE UNCHANGED vaultVars
  BY <1>24 DEF KeylessInv, vaultVars
<1>25. QED
  BY <1>1, <1>2, <1>3, <1>4, <1>5, <1>6, <1>7, <1>8, <1>9, <1>10, <1>11, <1>12, <1>13,
     <1>14, <1>15, <1>16, <1>17, <1>18, <1>19, <1>20, <1>21, <1>22, <1>23, <1>24 DEF VaultNext


\* The flag's part of the invariant is kept.
LEMMA FlagStep ==
  ASSUME VaultTypeOK, FlagInv, [VaultNext]_vaultVars
  PROVE  FlagInv'
<1>1. ASSUME NEW s \in Slots, NEW c \in Creds, createCredential(s, c) PROVE FlagInv'
  BY <1>1 DEF createCredential, FlagInv, BlankIsFlagged, VaultTypeOK
<1>2. ASSUME NEW s \in Slots, NEW c \in Creds, updateCredential(s, c) PROVE FlagInv'
  BY <1>2 DEF updateCredential, FlagInv, BlankIsFlagged, VaultTypeOK
<1>3. ASSUME NEW s \in Slots, CreateCredential(s) PROVE FlagInv'
  <2>1. req[s] \in Edit /\ req[s].blob.key # NoKey
    BY <1>3, Kinds DEF CreateCredential, Running, VaultTypeOK, Edit, Typed, Keys, NoKey
  <2>2. \A c \in Creds : row'[c] = row[c] \/ row'[c].key # NoKey
    BY <1>3, <2>1 DEF CreateCredential, VaultTypeOK
  <2>3. \A t \in Slots : req'[t].op = "flag" => req'[t] = req[t] /\ req[t].cred \in Creds
    BY <1>3, Kinds DEF CreateCredential, Done, NoRequest, VaultTypeOK, Edit
  <2>4. QED
    BY <1>3, <2>2, <2>3 DEF CreateCredential, FlagInv, BlankIsFlagged
<1>4. ASSUME NEW s \in Slots, UpdateCredentialSecret(s) PROVE FlagInv'
  <2>1. req[s] \in Edit /\ req[s].blob.key # NoKey /\ req[s].blob \in Copy
    BY <1>4, Kinds DEF UpdateCredentialSecret, Running, VaultTypeOK, Edit, Typed, Copy, Keys, NoKey
  <2>2. \A c \in Creds : row'[c] = row[c] \/ row'[c].key # NoKey
    BY <1>4, <2>1, RowFields DEF UpdateCredentialSecret, VaultTypeOK, Edit
  <2>3. raced \subseteq raced'
    BY <1>4 DEF UpdateCredentialSecret
  <2>4. \A t \in Slots : t # s => req'[t] = req[t]
    BY <1>4 DEF UpdateCredentialSecret, Done, Goes, VaultTypeOK
  <2>5. req'[s].op = "flag" => /\ req'[s].cred = req[s].cred /\ req[s].cred \in Creds
                               /\ row'[req[s].cred].exists => row'[req[s].cred].key # NoKey
    BY <1>4, <2>1, RowFields
       DEF UpdateCredentialSecret, Done, Goes, NoRequest, VaultTypeOK, Edit
  <2>6. \A t \in Slots : req[t].op = "flag" => req[t].cred \in Creds
    BY Kinds DEF VaultTypeOK, Edit
  <2>7. QED
    BY <2>2, <2>3, <2>4, <2>5, <2>6 DEF FlagInv, BlankIsFlagged
<1>5. ASSUME NEW s \in Slots, ClearReentryFlag(s) PROVE FlagInv'
  <2>1. req[s] \in Edit
    BY <1>5, Kinds DEF ClearReentryFlag, Running, VaultTypeOK
  <2>2. \A c \in Creds : /\ row'[c].key = row[c].key /\ row'[c].exists = row[c].exists
                         /\ c # req[s].cred => row'[c].reentry = row[c].reentry
    BY <1>5, RowFields DEF ClearReentryFlag, VaultTypeOK
  <2>3. \A t \in Slots : req'[t].op = "flag" => req'[t] = req[t] /\ req[t].cred \in Creds
    BY <1>5, Kinds DEF ClearReentryFlag, Done, NoRequest, VaultTypeOK, Edit
  <2>4. row[req[s].cred].exists /\ row[req[s].cred].key = NoKey => req[s].cred \in raced
    BY <1>5 DEF ClearReentryFlag, Running, FlagInv
  <2>5. QED
    BY <1>5, <2>2, <2>3, <2>4 DEF ClearReentryFlag, FlagInv, BlankIsFlagged
<1>6. ASSUME NEW s \in Slots, computeEncState(s) PROVE FlagInv'
  BY <1>6 DEF computeEncState, FlagInv, BlankIsFlagged, VaultTypeOK
<1>7. ASSUME NEW s \in Slots, AdoptBaseline(s) PROVE FlagInv'
  BY <1>7 DEF AdoptBaseline, FlagInv, BlankIsFlagged, VaultTypeOK, Done, NoRequest
<1>8. ASSUME NEW s \in Slots, encryptionGenerate(s) PROVE FlagInv'
  BY <1>8 DEF encryptionGenerate, FlagInv, BlankIsFlagged, VaultTypeOK
<1>9. ASSUME NEW s \in Slots, UpsertEncryptionMetadata(s) PROVE FlagInv'
  BY <1>9 DEF UpsertEncryptionMetadata, FlagInv, BlankIsFlagged, VaultTypeOK, Done, NoRequest
<1>10. ASSUME NEW s \in Slots, NEW k \in Keys, NEW adopt \in BOOLEAN, encryptionUnlock(s, k, adopt) PROVE FlagInv'
  BY <1>10 DEF encryptionUnlock, FlagInv, BlankIsFlagged, VaultTypeOK
<1>11. ASSUME NEW s \in Slots, UnlockLoad(s) PROVE FlagInv'
  <2>1. req[s] \in Unlock
    BY <1>11, Kinds DEF UnlockLoad, Running, VaultTypeOK, RotationOps
  <2>2. \A t \in Slots : req'[t].op = "flag" => req'[t] = req[t]
    BY <1>11, <2>1 DEF UnlockLoad, VaultTypeOK, Done, Goes, NoRequest, Unlock
  <2>3. QED
    BY <1>11, <2>2 DEF UnlockLoad, FlagInv, BlankIsFlagged
<1>12. ASSUME NEW s \in Slots, UnlockRecord(s) PROVE FlagInv'
  BY <1>12 DEF UnlockRecord, FlagInv, BlankIsFlagged, VaultTypeOK, Done, NoRequest
<1>13. ASSUME NEW s \in Slots, encryptionRotate(s) PROVE FlagInv'
  BY <1>13 DEF encryptionRotate, FlagInv, BlankIsFlagged, VaultTypeOK
<1>14. ASSUME NEW s \in Slots, RotateBlob(s) PROVE FlagInv'
  <2>1. req[s] \in Rotation /\ req[s].new # NoKey /\ req[s].op = "rotate"
    BY <1>14, Kinds DEF RotateBlob, Running, VaultTypeOK, RotationOps, Rotation, Keys, NoKey
  <2>2. PICK c \in DOMAIN req[s].blobs : RotateTurn(s, c)
    BY <1>14 DEF RotateBlob, RotateTurn
  <2>3. LET b == ReKey(req[s].new, req[s].blobs[c]) IN c \in Creds /\ b \in Copy /\ b.key # NoKey
    BY <2>1 DEF Rotation, Copy, ReKey, Seal
  <2>4. \A d \in Creds : row'[d] = row[d] \/ row'[d].key # NoKey
    BY <2>2, <2>3, RowFields DEF RotateTurn, VaultTypeOK
  <2>5. \A t \in Slots : req'[t].op = "flag" => req'[t] = req[t] /\ req[t].cred \in Creds
    <3>1. req'[s].op = "rotate" /\ \A t \in Slots : t # s => req'[t] = req[t]
      BY <2>1, <2>2 DEF RotateTurn, Rotation, VaultTypeOK
    <3>2. QED
      BY <3>1, Kinds DEF VaultTypeOK, Edit
  <2>6. QED
    BY <1>14, <2>4, <2>5 DEF RotateBlob, FlagInv, BlankIsFlagged
<1>15. ASSUME NEW s \in Slots, RecordRotation(s) PROVE FlagInv'
  <2>1. req[s] \in Rotation
    BY <1>15, Kinds DEF RecordRotation, Running, VaultTypeOK, RotationOps
  <2>2. \A t \in Slots : req'[t].op = "flag" => req'[t] = req[t]
    BY <1>15, <2>1 DEF RecordRotation, VaultTypeOK, Goes, Rotation
  <2>3. QED
    BY <1>15, <2>2 DEF RecordRotation, FlagInv, BlankIsFlagged
<1>16. ASSUME NEW s \in Slots, RotateCut(s) PROVE FlagInv'
  BY <1>16 DEF RotateCut, FlagInv, BlankIsFlagged, VaultTypeOK, Done, NoRequest
<1>17. ASSUME NEW s \in Slots, setCipher(s) PROVE FlagInv'
  <2>1. req[s] \in Rotation
    BY <1>17, Kinds DEF setCipher, Running, VaultTypeOK, RotationOps
  <2>2. \A t \in Slots : req'[t].op = "flag" => req'[t] = req[t]
    BY <1>17, <2>1 DEF setCipher, VaultTypeOK, Goes, Rotation
  <2>3. QED
    BY <1>17, <2>2 DEF setCipher, FlagInv, BlankIsFlagged
<1>18. ASSUME NEW s \in Slots, RotateAnswer(s) PROVE FlagInv'
  BY <1>18 DEF RotateAnswer, FlagInv, BlankIsFlagged, VaultTypeOK, Done, NoRequest
<1>19. ASSUME NEW c \in Creds, deleteCredential(c) PROVE FlagInv'
  <2>1. \A t \in Slots : req[t].op = "flag" => req[t].cred \in Creds
    BY Kinds DEF VaultTypeOK, Edit
  <2>2. QED
    BY <1>19, <2>1 DEF deleteCredential, FlagInv, BlankIsFlagged, VaultTypeOK, NoCredential
<1>20. ASSUME encryptionResetCredentials PROVE FlagInv'
  <2>1. raced \subseteq raced'
        /\ \A t \in Slots : req[t].op = "flag" => req[t].cred \in raced'
    BY <1>20 DEF encryptionResetCredentials
  <2>2. \A c \in Creds : row'[c] = row[c] \/ row'[c].reentry
    BY <1>20 DEF encryptionResetCredentials, WithoutSecret, VaultTypeOK
  <2>3. QED
    BY <1>20, <2>1, <2>2 DEF encryptionResetCredentials, FlagInv, BlankIsFlagged
<1>21. ASSUME Crash PROVE FlagInv'
  BY <1>21 DEF Crash, FlagInv, BlankIsFlagged, NoRequest
<1>22. ASSUME Boot PROVE FlagInv'
  BY <1>22 DEF Boot, FlagInv, BlankIsFlagged
<1>23. ASSUME NEW k \in Keys \cup {NoKey}, SetEnv(k) PROVE FlagInv'
  BY <1>23 DEF SetEnv, FlagInv, BlankIsFlagged
<1>24. CASE UNCHANGED vaultVars
  BY <1>24 DEF FlagInv, BlankIsFlagged, vaultVars
<1>25. QED
  BY <1>1, <1>2, <1>3, <1>4, <1>5, <1>6, <1>7, <1>8, <1>9, <1>10, <1>11, <1>12, <1>13,
     <1>14, <1>15, <1>16, <1>17, <1>18, <1>19, <1>20, <1>21, <1>22, <1>23, <1>24 DEF VaultNext

-----------------------------------------------------------------------------
(* What requests hold for the store: secrets to be written, copies.        *)

Carrying == {"create", "update", "rotate"}

\* A step that the store does not see, except that a request may end.
Passive ==
  /\ \A t \in Slots : req'[t].op \in Carrying => req'[t] = req[t]
  /\ edits' = edits /\ SecretOf' = SecretOf

\* Most steps are passive; these are the others.
LEMMA MostlyPassive ==
  ASSUME VaultTypeOK, [VaultNext]_vaultVars
  PROVE  \/ Passive
         \/ \E s \in Slots, c \in Creds : createCredential(s, c) \/ updateCredential(s, c)
         \/ \E s \in Slots : \/ CreateCredential(s) \/ UpdateCredentialSecret(s)
                             \/ encryptionRotate(s) \/ RotateBlob(s)
         \/ \E c \in Creds : deleteCredential(c)
         \/ encryptionResetCredentials
<1>1. ASSUME NEW s \in Slots, ClearReentryFlag(s) PROVE Passive
  <2>1. \A c \in Creds : row'[c].plain = row[c].plain /\ row'[c].key = row[c].key
    BY <1>1, RowFields DEF ClearReentryFlag, VaultTypeOK
  <2>2. SecretOf' = SecretOf
    BY <2>1 DEF SecretOf
  <2>3. QED
    BY <1>1, <2>2 DEF ClearReentryFlag, Passive, Carrying, Done, NoRequest, VaultTypeOK
<1>2. ASSUME NEW s \in Slots, computeEncState(s) PROVE Passive
  BY <1>2 DEF computeEncState, Passive, Carrying, SecretOf, VaultTypeOK
<1>3. ASSUME NEW s \in Slots, AdoptBaseline(s) PROVE Passive
  BY <1>3 DEF AdoptBaseline, Passive, Carrying, SecretOf, VaultTypeOK, Done, NoRequest
<1>4. ASSUME NEW s \in Slots, encryptionGenerate(s) PROVE Passive
  BY <1>4 DEF encryptionGenerate, Passive, Carrying, SecretOf, VaultTypeOK
<1>5. ASSUME NEW s \in Slots, UpsertEncryptionMetadata(s) PROVE Passive
  BY <1>5 DEF UpsertEncryptionMetadata, Passive, Carrying, SecretOf, VaultTypeOK, Done, NoRequest
<1>6. ASSUME NEW s \in Slots, NEW k \in Keys, NEW adopt \in BOOLEAN,
             encryptionUnlock(s, k, adopt) PROVE Passive
  BY <1>6 DEF encryptionUnlock, Passive, Carrying, SecretOf, VaultTypeOK
<1>7. ASSUME NEW s \in Slots, UnlockLoad(s) PROVE Passive
  <2>1. req[s] \in Unlock
    BY <1>7, Kinds DEF UnlockLoad, Running, VaultTypeOK, RotationOps
  <2>2. QED
    BY <1>7, <2>1 DEF UnlockLoad, Passive, Carrying, SecretOf, Done, Goes, NoRequest, Unlock, VaultTypeOK
<1>8. ASSUME NEW s \in Slots, UnlockRecord(s) PROVE Passive
  BY <1>8 DEF UnlockRecord, Passive, Carrying, SecretOf, VaultTypeOK, Done, NoRequest
<1>9. ASSUME NEW s \in Slots, RecordRotation(s) PROVE Passive
  <2>1. req[s] \in Rotation
    BY <1>9, Kinds DEF RecordRotation, Running, VaultTypeOK, RotationOps
  <2>2. QED
    BY <1>9, <2>1 DEF RecordRotation, Passive, Carrying, SecretOf, Goes, Rotation, VaultTypeOK
<1>10. ASSUME NEW s \in Slots, RotateCut(s) PROVE Passive
  BY <1>10 DEF RotateCut, Passive, Carrying, SecretOf, VaultTypeOK, Done, NoRequest
<1>11. ASSUME NEW s \in Slots, setCipher(s) PROVE Passive
  <2>1. req[s] \in Rotation
    BY <1>11, Kinds DEF setCipher, Running, VaultTypeOK, RotationOps
  <2>2. QED
    BY <1>11, <2>1 DEF setCipher, Passive, Carrying, SecretOf, Goes, Rotation, VaultTypeOK
<1>12. ASSUME NEW s \in Slots, RotateAnswer(s) PROVE Passive
  BY <1>12 DEF RotateAnswer, Passive, Carrying, SecretOf, VaultTypeOK, Done, NoRequest
<1>13. ASSUME Crash PROVE Passive
  BY <1>13 DEF Crash, Passive, Carrying, SecretOf, VaultTypeOK, NoRequest
<1>14. ASSUME Boot PROVE Passive
  BY <1>14 DEF Boot, Passive, Carrying, SecretOf, VaultTypeOK
<1>15. ASSUME NEW k \in Keys \cup {NoKey}, SetEnv(k) PROVE Passive
  BY <1>15 DEF SetEnv, Passive, Carrying, SecretOf, VaultTypeOK
<1>16. CASE UNCHANGED vaultVars
  BY <1>16 DEF vaultVars, Passive, SecretOf
<1>17. QED
  BY <1>1, <1>2, <1>3, <1>4, <1>5, <1>6, <1>7, <1>8, <1>9, <1>10,
     <1>11, <1>12, <1>13, <1>14, <1>15, <1>16 DEF VaultNext

\* The invariant's part on offers is kept.
LEMMA OfferStep ==
  ASSUME VaultTypeOK, OfferInv, [VaultNext]_vaultVars
  PROVE  OfferInv'
<1> USE VaultAssumption
<1>1. CASE Passive
  BY <1>1 DEF Passive, Carrying, OfferInv
<1>2. ASSUME NEW s \in Slots, NEW c \in Creds, createCredential(s, c) \/ updateCredential(s, c)
      PROVE  OfferInv'
  <2>1. \A t \in Slots : t # s => req'[t] = req[t]
    BY <1>2 DEF createCredential, updateCredential, VaultTypeOK
  <2>2. req'[s].blob.plain = edits + 1 /\ edits' = edits + 1
    BY <1>2 DEF createCredential, updateCredential, VaultTypeOK, Seal
  <2>3. \A t \in Slots : req[t].op \in {"create", "update"} => req[t].blob.plain \in 1 .. MaxEdit
    BY Kinds DEF VaultTypeOK, Edit, Typed
  <2>4. \A t \in Slots : t # s /\ req'[t].op \in {"create", "update"} =>
          req'[t].blob.plain <= edits /\ req'[t].blob.plain \in 1 .. MaxEdit
    BY <2>1, <2>3 DEF OfferInv
  <2>5. edits \in 0 .. MaxEdit
    BY DEF VaultTypeOK
  <2>6. \A t, u \in Slots : /\ t # s /\ u # s /\ t # u
                            /\ req'[t].op \in {"create", "update"} /\ req'[u].op \in {"create", "update"}
                            => req'[t].blob.plain # req'[u].blob.plain
    BY <2>1 DEF OfferInv
  <2>7. \A t \in Slots : req'[t].op \in {"create", "update"} =>
          /\ req'[t].blob.plain <= edits'
          /\ t # s => req'[t].blob.plain # req'[s].blob.plain
    BY <2>2, <2>4, <2>5
  <2>8. QED
    BY <2>6, <2>7 DEF OfferInv
<1>3. ASSUME NEW s \in Slots,
             \/ CreateCredential(s) \/ UpdateCredentialSecret(s)
             \/ encryptionRotate(s) \/ RotateBlob(s)
      PROVE  OfferInv'
  <2>1. \A t \in Slots : t # s => req'[t] = req[t]
    BY <1>3 DEF CreateCredential, UpdateCredentialSecret, encryptionRotate, RotateBlob, Done, Goes,
                VaultTypeOK
  <2>2. req'[s].op \notin {"create", "update"}
    <3>1. CASE CreateCredential(s)
      BY <3>1 DEF CreateCredential, Done, NoRequest, VaultTypeOK
    <3>2. CASE UpdateCredentialSecret(s)
      <4>1. req[s] \in Edit
        BY <3>2, Kinds DEF UpdateCredentialSecret, Running, VaultTypeOK
      <4>2. QED
        BY <3>2, <4>1 DEF UpdateCredentialSecret, Done, Goes, NoRequest, VaultTypeOK, Edit
    <3>3. CASE encryptionRotate(s)
      BY <3>3 DEF encryptionRotate, VaultTypeOK
    <3>4. CASE RotateBlob(s)
      <4>1. req[s] \in Rotation /\ req[s].op = "rotate"
        BY <3>4, Kinds DEF RotateBlob, Running, VaultTypeOK, RotationOps
      <4>2. PICK c \in DOMAIN req[s].blobs : RotateTurn(s, c)
        BY <3>4 DEF RotateBlob, RotateTurn
      <4>3. req'[s].op = "rotate"
        BY <4>1, <4>2 DEF RotateTurn, VaultTypeOK, Rotation
      <4>4. QED
        BY <4>3
    <3>5. QED
      BY <1>3, <3>1, <3>2, <3>3, <3>4
  <2>3. edits' = edits
    BY <1>3 DEF CreateCredential, UpdateCredentialSecret, encryptionRotate, RotateBlob
  <2>4. QED
    BY <2>1, <2>2, <2>3 DEF OfferInv
<1>4. ASSUME NEW c \in Creds, deleteCredential(c) PROVE OfferInv'
  BY <1>4 DEF deleteCredential, OfferInv
<1>5. ASSUME encryptionResetCredentials PROVE OfferInv'
  BY <1>5 DEF encryptionResetCredentials, OfferInv
<1>6. QED
  BY <1>1, <1>2, <1>3, <1>4, <1>5, MostlyPassive

-----------------------------------------------------------------------------
(* The secret store.                                                       *)

StoreStep == Store!StoreNext \/ UNCHANGED <<SecretOf, edits, Offered, Copies>>

\* Writing the secret that a request carries, and ending or advancing it.
LEMMA WriteStep ==
  ASSUME VaultTypeOK, OfferInv, NEW s \in Slots, req[s].op \in {"create", "update"},
         \A t \in Slots : t # s => req'[t] = req[t],
         req'[s].op \notin Carrying, edits' = edits,
         NEW c, c = req[s].cred, NEW v, v = req[s].blob.plain,
         \A d \in Creds : d # c => row'[d] = row[d],
         row'[c] = row[c] \/ (row'[c].plain = v /\ row'[c].key # NoKey)
  PROVE  StoreStep
<1>1. c \in Creds /\ v \in 1 .. MaxEdit
  BY Kinds DEF VaultTypeOK, Edit, Typed
<1>2. Copies' = Copies
  BY DEF Copies, Carrying
<1>3. Offered' = Offered \ {<<c, v>>}
  BY <1>1 DEF Offered, Carrying, OfferInv
<1>4. <<c, v>> \in Offered
  BY <1>1 DEF Offered
<1>5. CASE row'[c] = row[c]
  <2>1. SecretOf' = SecretOf
    BY <1>5 DEF SecretOf
  <2>2. Store!Drop
    BY <1>2, <1>3, <2>1 DEF Store!Drop
  <2>3. QED
    BY <2>2 DEF StoreStep, Store!StoreNext
<1>6. CASE row'[c].plain = v /\ row'[c].key # NoKey
  <2>1. SecretOf' = [SecretOf EXCEPT ![c] = {v}]
    BY <1>1, <1>6 DEF SecretOf
  <2>2. Store!Write(<<c, v>>)
    BY <1>2, <1>3, <2>1 DEF Store!Write
  <2>3. QED
    BY <1>4, <2>2 DEF StoreStep, Store!StoreNext
<1>7. QED
  BY <1>5, <1>6

\* Every step of the vault is a step of the store, or changes nothing in it.
LEMMA StoreStepTaken ==
  ASSUME VaultTypeOK, OfferInv, [VaultNext]_vaultVars
  PROVE  StoreStep
<1>1. CASE Passive
  <2>1. Offered' \subseteq Offered /\ Copies' \subseteq Copies
    BY <1>1 DEF Passive, Carrying, Offered, Copies
  <2>2. Store!Drop
    BY <1>1, <2>1 DEF Passive, Store!Drop
  <2>3. QED
    BY <2>2 DEF StoreStep, Store!StoreNext
<1>2. ASSUME NEW s \in Slots, NEW c \in Creds, createCredential(s, c) \/ updateCredential(s, c)
      PROVE  StoreStep
  <2>1. \A t \in Slots : t # s => req'[t] = req[t]
    BY <1>2 DEF createCredential, updateCredential, VaultTypeOK
  <2>2. /\ req'[s].op \in {"create", "update"} /\ req'[s].cred = c
        /\ req'[s].blob.plain = edits + 1 /\ edits' = edits + 1
        /\ req[s].op = "idle"
    BY <1>2 DEF createCredential, updateCredential, VaultTypeOK, Seal, Free, NoRequest
  <2>3. edits + 1 \in 1 .. MaxEdit
    BY <1>2, VaultAssumption DEF createCredential, updateCredential, VaultTypeOK
  <2>4. Offered' = Offered \cup {<<c, edits + 1>>}
    BY <2>1, <2>2, <2>3 DEF Offered
  <2>5. Copies' = Copies
    BY <2>1, <2>2 DEF Copies
  <2>6. SecretOf' = SecretOf
    BY <1>2 DEF createCredential, updateCredential, SecretOf
  <2>7. Store!Offer(c)
    BY <2>2, <2>4, <2>5, <2>6 DEF Store!Offer
  <2>8. QED
    BY <2>7 DEF StoreStep, Store!StoreNext
<1>3. ASSUME NEW s \in Slots, CreateCredential(s) PROVE StoreStep
  <2>1. req[s] \in Edit /\ req[s].op = "create"
    BY <1>3, Kinds DEF CreateCredential, Running, VaultTypeOK
  <2>2. /\ \A t \in Slots : t # s => req'[t] = req[t]
        /\ req'[s].op \notin Carrying /\ edits' = edits
    BY <1>3 DEF CreateCredential, Done, NoRequest, Carrying, VaultTypeOK
  <2>3. req[s].cred \in Creds /\ req[s].blob.key # NoKey
    BY <2>1 DEF Edit, Typed, Keys, NoKey
  <2>4. \A d \in Creds : d # req[s].cred => row'[d] = row[d]
    BY <1>3 DEF CreateCredential, VaultTypeOK
  <2>5. \/ row'[req[s].cred] = row[req[s].cred]
        \/ /\ row'[req[s].cred].plain = req[s].blob.plain
           /\ row'[req[s].cred].key # NoKey
    BY <1>3, <2>3 DEF CreateCredential, VaultTypeOK
  <2>6. QED
    BY <2>1, <2>2, <2>4, <2>5, WriteStep
<1>4. ASSUME NEW s \in Slots, UpdateCredentialSecret(s) PROVE StoreStep
  <2>1. req[s] \in Edit /\ req[s].op = "update"
    BY <1>4, Kinds DEF UpdateCredentialSecret, Running, VaultTypeOK
  <2>2. /\ \A t \in Slots : t # s => req'[t] = req[t]
        /\ req'[s].op \notin Carrying /\ edits' = edits
    BY <1>4, <2>1 DEF UpdateCredentialSecret, Done, Goes, NoRequest, Carrying, VaultTypeOK, Edit
  <2>3. req[s].cred \in Creds /\ req[s].blob \in Copy /\ req[s].blob.key # NoKey
    BY <2>1 DEF Edit, Typed, Copy, Keys, NoKey
  <2>4. \A d \in Creds : d # req[s].cred => row'[d] = row[d]
    BY <1>4 DEF UpdateCredentialSecret, VaultTypeOK
  <2>5. \/ row'[req[s].cred] = row[req[s].cred]
        \/ /\ row'[req[s].cred].plain = req[s].blob.plain
           /\ row'[req[s].cred].key # NoKey
    BY <1>4, <2>3, RowFields DEF UpdateCredentialSecret, VaultTypeOK
  <2>6. QED
    BY <2>1, <2>2, <2>4, <2>5, WriteStep
<1>5. ASSUME NEW s \in Slots, encryptionRotate(s) PROVE StoreStep
  <2>1. \A t \in Slots : t # s => req'[t] = req[t]
    BY <1>5 DEF encryptionRotate, VaultTypeOK
  <2>2. /\ req'[s].op = "rotate" /\ DOMAIN req'[s].blobs = Sealed
        /\ \A c \in Sealed : req'[s].blobs[c].plain = row[c].plain
        /\ req[s].op = "idle"
    BY <1>5 DEF encryptionRotate, VaultTypeOK, Seal, Free, NoRequest
  <2>3. Offered' = Offered
    BY <2>1, <2>2 DEF Offered
  <2>4. \A c \in Sealed : c \in Creds /\ SecretOf[c] = {row[c].plain}
    BY DEF Sealed, SecretOf
  <2>5. \A p \in Copies' : p \in Copies \/ p[2] \in SecretOf[p[1]]
    BY <2>1, <2>2, <2>4 DEF Copies
  <2>6. SecretOf' = SecretOf /\ edits' = edits
    BY <1>5 DEF encryptionRotate, SecretOf
  <2>7. Store!TakeCopies
    BY <2>3, <2>5, <2>6 DEF Store!TakeCopies
  <2>8. QED
    BY <2>7 DEF StoreStep, Store!StoreNext
<1>6. ASSUME NEW s \in Slots, RotateBlob(s) PROVE StoreStep
  <2>1. req[s] \in Rotation /\ req[s].op = "rotate"
    BY <1>6, Kinds DEF RotateBlob, Running, VaultTypeOK, RotationOps
  <2>2. PICK c \in DOMAIN req[s].blobs : RotateTurn(s, c)
    BY <1>6 DEF RotateBlob, RotateTurn
  <2>3. PICK listed \in SUBSET Creds : req[s].blobs \in [listed -> Copy]
    BY <2>1 DEF Rotation
  <2> DEFINE b == ReKey(req[s].new, req[s].blobs[c])
             v == req[s].blobs[c].plain
  <2>4. c \in Creds
    BY <2>3
  <2>5. b \in Copy /\ b.plain = v /\ b.key # NoKey
    BY <2>1, <2>3 DEF Rotation, Copy, ReKey, Seal, Keys, NoKey
  <2>6. \A t \in Slots : t # s => req'[t] = req[t]
    BY <2>2 DEF RotateTurn, VaultTypeOK
  <2>7. /\ req'[s].op = "rotate"
        /\ req'[s].blobs = [d \in DOMAIN req[s].blobs \ {c} |-> req[s].blobs[d]]
    BY <2>1, <2>2 DEF RotateTurn, VaultTypeOK, Rotation
  <2>8. Offered' = Offered
    BY <2>1, <2>6, <2>7 DEF Offered
  <2>9. Copies' \subseteq Copies
    BY <2>1, <2>6, <2>7 DEF Copies
  <2>10. edits' = edits
    BY <1>6 DEF RotateBlob
  <2>11. \A d \in Creds : d # c => row'[d] = row[d]
    BY <2>2 DEF RotateTurn, VaultTypeOK
  <2>12. row'[c] = row[c] \/ (row'[c].plain = v /\ row'[c].key # NoKey)
    BY <2>2, <2>4, <2>5, RowFields DEF RotateTurn, VaultTypeOK
  <2>13. CASE row'[c] = row[c]
    <3>1. SecretOf' = SecretOf
      BY <2>11, <2>13 DEF SecretOf
    <3>2. Store!Drop
      BY <2>8, <2>9, <2>10, <3>1 DEF Store!Drop
    <3>3. QED
      BY <3>2 DEF StoreStep, Store!StoreNext
  <2>14. CASE row'[c].plain = v /\ row'[c].key # NoKey
    <3>1. SecretOf' = [SecretOf EXCEPT ![c] = {v}]
      BY <2>4, <2>11, <2>14 DEF SecretOf
    <3>2. <<c, v>> \in Copies
      BY <2>1, <2>3, <2>4 DEF Copies, Copy
    <3>3. Store!FallBack(<<c, v>>)
      BY <2>8, <2>9, <2>10, <3>1 DEF Store!FallBack
    <3>4. QED
      BY <3>2, <3>3 DEF StoreStep, Store!StoreNext
  <2>15. QED
    BY <2>12, <2>13, <2>14
<1>7. ASSUME NEW c \in Creds, deleteCredential(c) PROVE StoreStep
  <2>1. row'[c].key = NoKey /\ \A d \in Creds : d # c => row'[d] = row[d]
    BY <1>7 DEF deleteCredential, NoCredential, VaultTypeOK
  <2>2. SecretOf' = [d \in Creds |-> IF d \in {c} THEN {} ELSE SecretOf[d]]
    BY <2>1 DEF SecretOf
  <2>3. Offered' = Offered /\ Copies' = Copies /\ edits' = edits
    BY <1>7 DEF deleteCredential, Offered, Copies
  <2>4. Store!Erase({c})
    BY <2>2, <2>3 DEF Store!Erase
  <2>5. QED
    BY <2>4 DEF StoreStep, Store!StoreNext
<1>8. ASSUME encryptionResetCredentials PROVE StoreStep
  <2>1. \A c \in Creds : row'[c].key = NoKey
    BY <1>8 DEF encryptionResetCredentials, WithoutSecret
  <2>2. SecretOf' = [c \in Creds |-> IF c \in Creds THEN {} ELSE SecretOf[c]]
    BY <2>1 DEF SecretOf
  <2>3. Offered' = Offered /\ Copies' = Copies /\ edits' = edits
    BY <1>8 DEF encryptionResetCredentials, Offered, Copies
  <2>4. Store!Erase(Creds)
    BY <2>2, <2>3 DEF Store!Erase
  <2>5. QED
    BY <2>4 DEF StoreStep, Store!StoreNext
<1>9. QED
  BY <1>1, <1>2, <1>3, <1>4, <1>5, <1>6, <1>7, <1>8, MostlyPassive

-----------------------------------------------------------------------------
(* Theorems.                                                               *)

\* The invariant holds when the API first starts.
LEMMA InvInit == VaultInit => VaultInv
<1> SUFFICES ASSUME VaultInit PROVE VaultInv
  OBVIOUS
<1>1. \A c \in Creds : row[c] = NoCredential
  BY DEF VaultInit
<1>2. \A s \in Slots : req[s].op = "idle"
  BY DEF VaultInit, NoRequest
<1>3. VaultTypeOK
  <2>1. row \in [Creds -> Credential]
    BY VaultAssumption DEF VaultInit, NoCredential, Credential
  <2>2. req \in [Slots -> Request]
    BY DEF VaultInit, Request
  <2>3. 0 \in Keys \cup {NoKey} /\ 1 \in Keys /\ made \in 0 .. MaxKey
    BY VaultAssumption DEF VaultInit, Keys, NoKey
  <2>4. held \subseteq Keys
    BY <2>3 DEF VaultInit
  <2>5. cipher \in Keys \cup {NoKey} /\ env \in Keys \cup {NoKey} /\ stored \in Keys \cup {NoKey}
    BY <2>3 DEF VaultInit
  <2>6. edits \in 0 .. MaxEdit /\ restarts \in 0 .. MaxRestart
    BY VaultAssumption DEF VaultInit
  <2>7. QED
    BY <2>1, <2>2, <2>3, <2>4, <2>5, <2>6 DEF VaultInit, VaultTypeOK
<1>4. KeyInv
  BY <1>1, <1>2 DEF VaultInit, KeyInv, NoCredential, Known, NoKey
<1>5. KeylessInv
  BY <1>1, <1>2 DEF VaultInit, KeylessInv, NoCredential
<1>6. FlagInv
  BY <1>1, <1>2 DEF FlagInv, BlankIsFlagged, NoCredential
<1>7. OfferInv
  BY <1>2 DEF OfferInv
<1>8. QED
  BY <1>3, <1>4, <1>5, <1>6, <1>7 DEF VaultInv

\* The invariant is inductive, and holds throughout.
LEMMA InvHolds == VaultSpec => []VaultInv
<1>1. VaultInv /\ [VaultNext]_vaultVars => VaultInv'
  BY TypeStep, KeyStep, KeylessStep, FlagStep, OfferStep DEF VaultInv
<1>2. QED
  BY <1>1, InvInit, PTL DEF VaultSpec

\* For any number of credentials, concurrent requests, keys and restarts: no
\* rotation, unlock, edit, reset or crash leaves a secret under a key nobody
\* has, a blank credential unflagged, or a keyless API over sealed secrets,
\* outside the exceptions VaultGuarded names (security.go, credentials.go).
THEOREM Guarded == VaultSpec => []VaultGuarded
<1>1. VaultInv => VaultGuarded
  BY DEF VaultInv, KeyInv, KeylessInv, FlagInv, VaultGuarded, SecretsRecoverable,
         NeverKeylessOverSecrets, Sealed, Known
<1>2. QED
  BY <1>1, InvHolds, PTL

\* The vault implements the secret store: encryptionRotate and its loop, the
\* unlocks and the restarts are invisible in what the credentials hold.
THEOREM StoreKept == VaultSpec => KeepsSecrets
<1>1. VaultInit => Store!StoreInit
  <2> SUFFICES ASSUME VaultInit PROVE Store!StoreInit
    OBVIOUS
  <2>1. SecretOf = [c \in Creds |-> {}]
    BY DEF VaultInit, NoCredential, SecretOf
  <2>2. Offered = {} /\ Copies = {}
    BY DEF VaultInit, NoRequest, Offered, Copies
  <2>3. QED
    BY <2>1, <2>2 DEF VaultInit, Store!StoreInit
<1>2. VaultInv /\ [VaultNext]_vaultVars => [Store!StoreNext]_<<SecretOf, edits, Offered, Copies>>
  BY StoreStepTaken DEF VaultInv, StoreStep
<1>3. QED
  BY <1>1, <1>2, InvHolds, PTL DEF VaultSpec, KeepsSecrets, Store!StoreSpec

=============================================================================
