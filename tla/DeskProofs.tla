----------------------------- MODULE DeskProofs -----------------------------
(***************************************************************************)
(* What is proved of the operators' accounts, of the work orders and of    *)
(* outgoing messages, for any number of users, tokens, roles, requests,    *)
(* orders, clerks, parts, channels and alerts: the API is open only while  *)
(* no account has a password, sessions follow the password they rest on, a *)
(* timeline tells its order's status, no unit of a spare part is spent     *)
(* twice, and an alert is sent to a channel once, except where the log     *)
(* could not tell of it.                                                   *)
(***************************************************************************)
EXTENDS Access, Operations, Notifier, FiniteSetTheorems, TLAPS

(* ---- accounts: types -------------------------------------------------- *)
UserRow    == [exists : BOOLEAN, active : BOOLEAN, password : Nat]
SessionRow == [owner : Users \cup {NoUser}, verified : Nat, expired : BOOLEAN]

LoginRequest   == [op : {"login"}, who : Users, token : Tokens, verified : Nat]
RevokeRequest  == [op : {"revoke", "revokeAndEnforce"}, who : Users]
EnforceRequest == [op : {"enforce"}]
RolesRequest   == [op : {"roles"}, who : Users, todo : SUBSET Roles]
PermsRequest   == [op : {"perms"}, role : Roles, todo : SUBSET Perms]
DeskRequest    == {Quiet} \cup LoginRequest \cup RevokeRequest \cup EnforceRequest
                    \cup RolesRequest \cup PermsRequest

AccessTypeOK ==
  /\ running \in BOOLEAN /\ authActive \in BOOLEAN
  /\ user \in [Users -> UserRow]
  /\ session \in [Tokens -> SessionRow]
  /\ desk \in [Desks -> DeskRequest]
  /\ spared \in SUBSET Tokens

(* ---- accounts: the inductive invariant -------------------------------- *)
\* A stopped process enforces nothing and serves no request.
StoppedInv == ~running => ~authActive /\ \A k \in Desks : desk[k] = Quiet

\* Some password is set.
Protected == \E u \in Users : user[u].password # 0

\* OpenOnlyWithoutPasswords, without the count.
OpenInv ==
  running /\ ~authActive /\ Protected
    => \E k \in Desks : desk[k].op \in {"revokeAndEnforce", "enforce"}

\* A missing account has no password, and a session rests on a password of
\* an account that exists.
RowsInv ==
  /\ \A u \in Users : ~user[u].exists => user[u].password = 0
  /\ \A t \in Tokens : Live(t) => user[session[t].owner].exists /\ session[t].verified # 0

\* A login under way has verified the password the account still has, or its
\* token is one a revocation could not reach.
LoginsFollow ==
  \A k \in Desks : desk[k].op = "login" =>
    /\ desk[k].verified # 0
    /\ desk[k].verified = user[desk[k].who].password \/ desk[k].token \in spared

SessionInv == RowsInv /\ LoginsFollow /\ SessionsFollowPassword

AccessInv == AccessTypeOK /\ StoppedInv /\ OpenInv /\ SessionInv

-----------------------------------------------------------------------------
(* Accounts.                                                               *)

\* A request is of the kind its op says.
LEMMA DeskKinds ==
  ASSUME NEW r \in DeskRequest
  PROVE  /\ r.op = "login" => r \in LoginRequest
         /\ r.op \in {"revoke", "revokeAndEnforce"} => r \in RevokeRequest
         /\ r.op = "roles" => r \in RolesRequest
         /\ r.op = "perms" => r \in PermsRequest
         /\ r.op = "enforce" => r \in EnforceRequest
  BY DEF DeskRequest, Quiet, LoginRequest, RevokeRequest, EnforceRequest, RolesRequest, PermsRequest

\* The count BootstrapAdmin decides by is positive exactly when some
\* account has a password.
LEMMA CountTellsProtected == CountUsersWithPassword > 0 <=> Protected
<1> DEFINE S == {u \in Users : user[u].password # 0}
<1>1. IsFiniteSet(S)
  BY AccessAssumption, FS_Subset
<1>2. Cardinality(S) \in Nat /\ (Cardinality(S) = 0 <=> S = {})
  BY <1>1, FS_CardinalityType, FS_EmptySet
<1>3. QED
  BY <1>2 DEF CountUsersWithPassword, Protected

\* A new password is a later version.
LEMMA SetUserPasswordType ==
  ASSUME AccessTypeOK, NEW u \in Users
  PROVE  /\ SetUserPassword(u) \in [Users -> UserRow]
         /\ \A v \in Users : v # u => SetUserPassword(u)[v] = user[v]
         /\ SetUserPassword(u)[u].exists = user[u].exists
         /\ ~user[u].exists => SetUserPassword(u) = user
  BY DEF AccessTypeOK, SetUserPassword, UserRow

\* Every operation keeps the types.
LEMMA AccessTypeStep ==
  ASSUME AccessTypeOK, [AccessNext]_accessVars
  PROVE  AccessTypeOK'
<1>1. ASSUME NEW k \in Desks, NEW u \in Users, NEW t \in Tokens, login(k, u, t)
      PROVE  AccessTypeOK'
  BY <1>1 DEF login, LoginRequest, GetUserByUsername, AccessTypeOK, DeskRequest, UserRow, SessionRow
<1>2. ASSUME NEW k \in Desks, LoginStores(k) PROVE AccessTypeOK'
  <2>1. desk[k] \in LoginRequest
    BY <1>2, DeskKinds DEF LoginStores, At, AccessTypeOK
  <2>2. CreateSession(desk[k].who, desk[k].token, desk[k].verified) \in [Tokens -> SessionRow]
    BY <2>1 DEF CreateSession, LoginRequest, AccessTypeOK, SessionRow
  <2>3. QED
    BY <1>2, <2>2 DEF LoginStores, Close, AccessTypeOK, DeskRequest
<1>3. ASSUME NEW k \in Desks, RevokeSessions(k) PROVE AccessTypeOK'
  <2>1. desk[k] \in RevokeRequest
    BY <1>3, DeskKinds DEF RevokeSessions, AccessTypeOK
  <2>2. session' \in [Tokens -> SessionRow]
    <3>1. NoSession \in SessionRow
      BY DEF NoSession, SessionRow
    <3>2. QED
      BY <1>3, <3>1 DEF RevokeSessions, DeleteUserSessions, AccessTypeOK
  <2>3. spared' \in SUBSET Tokens
    BY <1>3 DEF RevokeSessions, TokensOf, AccessTypeOK
  <2>4. desk' \in [Desks -> DeskRequest]
    BY <1>3 DEF RevokeSessions, Close, AccessTypeOK, DeskRequest, EnforceRequest
  <2>5. QED
    BY <1>3, <2>2, <2>3, <2>4 DEF RevokeSessions, AccessTypeOK
<1>4. ASSUME NEW k \in Desks, Enforce(k) PROVE AccessTypeOK'
  BY <1>4 DEF Enforce, Close, AccessTypeOK, DeskRequest
<1>5. ASSUME NEW k \in Desks, NEW t \in Tokens, changePassword(k, t) PROVE AccessTypeOK'
  <2>0. session[t].owner \in Users
    BY <1>5 DEF changePassword, resolveSession, GetSession, Live, AccessTypeOK, SessionRow
  <2>1. Overtaken(session[t].owner) \subseteq Tokens
    <3>1. \A d \in Desks : desk[d].op = "login" => desk[d].token \in Tokens
      BY DeskKinds DEF AccessTypeOK, LoginRequest
    <3>2. QED
      BY <3>1 DEF Overtaken
  <2>2. user' \in [Users -> UserRow]
    BY <1>5, <2>0, SetUserPasswordType DEF changePassword
  <2>3. desk' \in [Desks -> DeskRequest]
    BY <1>5, <2>0 DEF changePassword, RevokeRequest, AccessTypeOK, DeskRequest
  <2>4. QED
    BY <1>5, <2>1, <2>2, <2>3 DEF changePassword, AccessTypeOK
<1>6. ASSUME NEW k \in Desks, NEW u \in Users, adminSetPassword(k, u) PROVE AccessTypeOK'
  <2>1. Overtaken(u) \subseteq Tokens
    <3>1. \A d \in Desks : desk[d].op = "login" => desk[d].token \in Tokens
      BY DeskKinds DEF AccessTypeOK, LoginRequest
    <3>2. QED
      BY <3>1 DEF Overtaken
  <2>2. user' \in [Users -> UserRow]
    BY <1>6, SetUserPasswordType DEF adminSetPassword
  <2>3. desk' \in [Desks -> DeskRequest]
    BY <1>6 DEF adminSetPassword, RevokeRequest, AccessTypeOK, DeskRequest
  <2>4. QED
    BY <1>6, <2>1, <2>2, <2>3 DEF adminSetPassword, AccessTypeOK
<1>7. ASSUME NEW k \in Desks, NEW u \in Users, NEW rs \in SUBSET Roles, setUserRoles(k, u, rs)
      PROVE  AccessTypeOK'
  BY <1>7 DEF setUserRoles, RolesRequest, AccessTypeOK, DeskRequest
<1>8. ASSUME NEW k \in Desks, NEW r \in Roles, NEW ps \in SUBSET Perms, setRolePermissions(k, r, ps)
      PROVE  AccessTypeOK'
  BY <1>8 DEF setRolePermissions, PermsRequest, AccessTypeOK, DeskRequest
<1>9. ASSUME NEW k \in Desks, SetUserRolesAdd(k) PROVE AccessTypeOK'
  <2>1. desk[k] \in RolesRequest
    BY <1>9, DeskKinds DEF SetUserRolesAdd, At, AccessTypeOK
  <2>2. \A r : [desk[k] EXCEPT !.todo = @ \ {r}] \in RolesRequest
    BY <2>1 DEF RolesRequest
  <2>3. desk' \in [Desks -> DeskRequest]
    BY <1>9, <2>2 DEF SetUserRolesAdd, Close, AccessTypeOK, DeskRequest
  <2>4. QED
    BY <1>9, <2>3 DEF SetUserRolesAdd, AccessTypeOK
<1>10. ASSUME NEW k \in Desks, SetRolePermissionsAdd(k) PROVE AccessTypeOK'
  <2>1. desk[k] \in PermsRequest
    BY <1>10, DeskKinds DEF SetRolePermissionsAdd, At, AccessTypeOK
  <2>2. \A p : [desk[k] EXCEPT !.todo = @ \ {p}] \in PermsRequest
    BY <2>1 DEF PermsRequest
  <2>3. \/ desk' = [desk EXCEPT ![k] = Quiet]
        \/ \E p : desk' = [desk EXCEPT ![k] = [desk[k] EXCEPT !.todo = @ \ {p}]]
    BY <1>10 DEF SetRolePermissionsAdd, Close
  <2>4. desk' \in [Desks -> DeskRequest]
    BY <2>2, <2>3 DEF AccessTypeOK, DeskRequest
  <2>5. QED
    BY <1>10, <2>4 DEF SetRolePermissionsAdd, AccessTypeOK
<1>11. ASSUME NEW t \in Tokens, logout(t) PROVE AccessTypeOK'
  BY <1>11 DEF logout, DeleteSession, NoSession, AccessTypeOK, SessionRow
<1>12. ASSUME NEW t \in Tokens, Expire(t) PROVE AccessTypeOK'
  BY <1>12 DEF Expire, AccessTypeOK, SessionRow
<1>13. ASSUME StartSessionGC PROVE AccessTypeOK'
  BY <1>13 DEF StartSessionGC, DeleteExpiredSessions, NoSession, AccessTypeOK, SessionRow
<1>14. ASSUME NEW u \in Users, updateUser(u) PROVE AccessTypeOK'
  BY <1>14 DEF updateUser, UpdateUser, AccessTypeOK, UserRow
<1>15. ASSUME NEW u \in Users, deleteUser(u) PROVE AccessTypeOK'
  <2>1. Overtaken(u) \subseteq Tokens
    <3>1. \A d \in Desks : desk[d].op = "login" => desk[d].token \in Tokens
      BY DeskKinds DEF AccessTypeOK, LoginRequest
    <3>2. QED
      BY <3>1 DEF Overtaken
  <2>2. user' \in [Users -> UserRow]
    BY <1>15 DEF deleteUser, DeleteUser, NoRow, AccessTypeOK, UserRow
  <2>3. session' \in [Tokens -> SessionRow]
    BY <1>15 DEF deleteUser, DeleteUserSessions, NoSession, AccessTypeOK, SessionRow
  <2>4. QED
    BY <1>15, <2>1, <2>2, <2>3 DEF deleteUser, AccessTypeOK
<1>16. ASSUME NEW u \in Users, NEW active \in BOOLEAN, createUser(u, active)
      PROVE  AccessTypeOK'
  BY <1>16 DEF createUser, CreateUser, AccessTypeOK, UserRow
<1>17. ASSUME NEW r \in Roles, createRole(r) PROVE AccessTypeOK'
  BY <1>17 DEF createRole, AccessTypeOK
<1>18. ASSUME NEW r \in Roles, deleteRole(r) PROVE AccessTypeOK'
  BY <1>18 DEF deleteRole, AccessTypeOK
<1>19. ASSUME AccessCrash PROVE AccessTypeOK'
  BY <1>19 DEF AccessCrash, TokensOf, AccessTypeOK, DeskRequest
<1>20. ASSUME NEW named \in {Bootstrap, NoUser}, BootstrapAdmin(named) PROVE AccessTypeOK'
  <2>1. user' \in [Users -> UserRow]
    <3>1. CASE UNCHANGED user
      BY <3>1 DEF AccessTypeOK
    <3>2. CASE ~UNCHANGED user
      <4>1. /\ named \in Users
            /\ user' = [user EXCEPT ![named] =
                          [exists |-> TRUE, active |-> @.active \/ ~@.exists, password |-> 1]]
        BY <1>20, <3>2, AccessAssumption DEF BootstrapAdmin
      <4>2. (user[named].active \/ ~user[named].exists) \in BOOLEAN
        OBVIOUS
      <4>3. [exists |-> TRUE, active |-> user[named].active \/ ~user[named].exists,
             password |-> 1] \in UserRow
        BY <4>2 DEF UserRow
      <4>4. QED
        BY <4>1, <4>3 DEF AccessTypeOK
    <3>3. QED
      BY <3>1, <3>2
  <2>2. running' \in BOOLEAN /\ authActive' \in BOOLEAN
    <3>1. authActive' = TRUE \/ authActive' = (CountUsersWithPassword > 0)
      BY <1>20 DEF BootstrapAdmin
    <3>2. (CountUsersWithPassword > 0) \in BOOLEAN
      OBVIOUS
    <3>3. QED
      BY <1>20, <3>1, <3>2 DEF BootstrapAdmin
  <2>3. QED
    BY <1>20, <2>1, <2>2 DEF BootstrapAdmin, AccessTypeOK
<1>21. CASE UNCHANGED accessVars
  BY <1>21 DEF accessVars, AccessTypeOK
<1>22. QED
  BY <1>1, <1>2, <1>3, <1>4, <1>5, <1>6, <1>7, <1>8, <1>9, <1>10, <1>11, <1>12, <1>13,
     <1>14, <1>15, <1>16, <1>17, <1>18, <1>19, <1>20, <1>21 DEF AccessNext

\* A password set in open mode is followed by the switch to enforcement.
LEMMA OpenStep ==
  ASSUME AccessTypeOK, StoppedInv, OpenInv, [AccessNext]_accessVars
  PROVE  StoppedInv' /\ OpenInv'
<1>1. ASSUME NEW k \in Desks, NEW u \in Users, NEW t \in Tokens, login(k, u, t)
      PROVE  StoppedInv' /\ OpenInv'
  <2>1. running /\ running' = running /\ \A d \in Desks : d # k => desk'[d] = desk[d]
    BY <1>1 DEF login, Open, AccessTypeOK
  <2>2. desk[k] = Quiet /\ UNCHANGED <<authActive, user>>
    BY <1>1 DEF login, Open
  <2>3. QED
    BY <2>1, <2>2 DEF StoppedInv, OpenInv, Protected, Quiet
<1>2. ASSUME NEW k \in Desks, LoginStores(k) PROVE StoppedInv' /\ OpenInv'
  <2>1. running /\ running' = running /\ \A d \in Desks : d # k => desk'[d] = desk[d]
    BY <1>2 DEF LoginStores, At, Close, AccessTypeOK
  <2>2. desk[k].op = "login" /\ UNCHANGED <<authActive, user>>
    BY <1>2 DEF LoginStores, At
  <2>3. QED
    BY <2>1, <2>2 DEF StoppedInv, OpenInv, Protected
<1>3. ASSUME NEW k \in Desks, RevokeSessions(k) PROVE StoppedInv' /\ OpenInv'
  <2>1. running /\ running' = running /\ \A d \in Desks : d # k => desk'[d] = desk[d]
    BY <1>3 DEF RevokeSessions, Close, AccessTypeOK
  <2>2. UNCHANGED <<authActive, user>>
    BY <1>3 DEF RevokeSessions
  <2>3. desk[k].op = "revoke" \/ desk'[k].op = "enforce"
    BY <1>3 DEF RevokeSessions, AccessTypeOK
  <2>4. QED
    BY <2>1, <2>2, <2>3 DEF StoppedInv, OpenInv, Protected
<1>4. ASSUME NEW k \in Desks, Enforce(k) PROVE StoppedInv' /\ OpenInv'
  <2>1. running /\ running' = running /\ \A d \in Desks : d # k => desk'[d] = desk[d]
    BY <1>4 DEF Enforce, At, Close, AccessTypeOK
  <2>2. authActive'
    BY <1>4 DEF Enforce
  <2>3. QED
    BY <2>1, <2>2 DEF StoppedInv, OpenInv
<1>5. ASSUME NEW k \in Desks, NEW t \in Tokens, changePassword(k, t)
      PROVE  StoppedInv' /\ OpenInv'
  <2>1. running /\ running' = running /\ \A d \in Desks : d # k => desk'[d] = desk[d]
    BY <1>5 DEF changePassword, Open, AccessTypeOK
  <2>2. authActive'
    BY <1>5 DEF changePassword
  <2>3. QED
    BY <2>1, <2>2 DEF StoppedInv, OpenInv
<1>6. ASSUME NEW k \in Desks, NEW u \in Users, adminSetPassword(k, u)
      PROVE  StoppedInv' /\ OpenInv'
  <2>1. running /\ running' = running /\ \A d \in Desks : d # k => desk'[d] = desk[d]
    BY <1>6 DEF adminSetPassword, Open, AccessTypeOK
  <2>2. desk'[k].op = "revokeAndEnforce"
    BY <1>6 DEF adminSetPassword, AccessTypeOK
  <2>3. QED
    BY <2>1, <2>2 DEF StoppedInv, OpenInv
<1>7. ASSUME NEW k \in Desks, NEW u \in Users, NEW rs \in SUBSET Roles, setUserRoles(k, u, rs)
      PROVE  StoppedInv' /\ OpenInv'
  <2>1. running /\ running' = running /\ \A d \in Desks : d # k => desk'[d] = desk[d]
    BY <1>7 DEF setUserRoles, Open, AccessTypeOK
  <2>2. desk[k] = Quiet /\ UNCHANGED <<authActive, user>>
    BY <1>7 DEF setUserRoles, Open
  <2>3. QED
    BY <2>1, <2>2 DEF StoppedInv, OpenInv, Protected, Quiet
<1>8. ASSUME NEW k \in Desks, NEW r \in Roles, NEW ps \in SUBSET Perms, setRolePermissions(k, r, ps)
      PROVE  StoppedInv' /\ OpenInv'
  <2>1. running /\ running' = running /\ \A d \in Desks : d # k => desk'[d] = desk[d]
    BY <1>8 DEF setRolePermissions, Open, AccessTypeOK
  <2>2. desk[k] = Quiet /\ UNCHANGED <<authActive, user>>
    BY <1>8 DEF setRolePermissions, Open
  <2>3. QED
    BY <2>1, <2>2 DEF StoppedInv, OpenInv, Protected, Quiet
<1>9. ASSUME NEW k \in Desks, SetUserRolesAdd(k) PROVE StoppedInv' /\ OpenInv'
  <2>1. running /\ running' = running /\ \A d \in Desks : d # k => desk'[d] = desk[d]
    BY <1>9 DEF SetUserRolesAdd, At, Close, AccessTypeOK
  <2>2. desk[k].op = "roles" /\ UNCHANGED <<authActive, user>>
    BY <1>9 DEF SetUserRolesAdd, At
  <2>3. QED
    BY <2>1, <2>2 DEF StoppedInv, OpenInv, Protected
<1>10. ASSUME NEW k \in Desks, SetRolePermissionsAdd(k) PROVE StoppedInv' /\ OpenInv'
  <2>1. running /\ running' = running /\ \A d \in Desks : d # k => desk'[d] = desk[d]
    BY <1>10 DEF SetRolePermissionsAdd, At, Close, AccessTypeOK
  <2>2. desk[k].op = "perms" /\ UNCHANGED <<authActive, user>>
    BY <1>10 DEF SetRolePermissionsAdd, At
  <2>3. QED
    BY <2>1, <2>2 DEF StoppedInv, OpenInv, Protected
<1>11. ASSUME NEW t \in Tokens, logout(t) PROVE StoppedInv' /\ OpenInv'
  BY <1>11 DEF logout, StoppedInv, OpenInv, Protected
<1>12. ASSUME NEW t \in Tokens, Expire(t) PROVE StoppedInv' /\ OpenInv'
  BY <1>12 DEF Expire, StoppedInv, OpenInv, Protected
<1>13. ASSUME StartSessionGC PROVE StoppedInv' /\ OpenInv'
  BY <1>13 DEF StartSessionGC, StoppedInv, OpenInv, Protected
<1>14. ASSUME NEW u \in Users, updateUser(u) PROVE StoppedInv' /\ OpenInv'
  <2>1. Protected' => Protected
    BY <1>14 DEF updateUser, UpdateUser, Protected, AccessTypeOK, UserRow
  <2>2. QED
    BY <1>14, <2>1 DEF updateUser, StoppedInv, OpenInv
<1>15. ASSUME NEW u \in Users, deleteUser(u) PROVE StoppedInv' /\ OpenInv'
  <2>1. Protected' => Protected
    BY <1>15 DEF deleteUser, DeleteUser, NoRow, Protected, AccessTypeOK, UserRow
  <2>2. QED
    BY <1>15, <2>1 DEF deleteUser, StoppedInv, OpenInv
<1>16. ASSUME NEW u \in Users, NEW active \in BOOLEAN, createUser(u, active)
      PROVE  StoppedInv' /\ OpenInv'
  <2>1. Protected' => Protected
    BY <1>16 DEF createUser, CreateUser, Protected, AccessTypeOK, UserRow
  <2>2. QED
    BY <1>16, <2>1 DEF createUser, StoppedInv, OpenInv
<1>17. ASSUME NEW r \in Roles, createRole(r) PROVE StoppedInv' /\ OpenInv'
  BY <1>17 DEF createRole, StoppedInv, OpenInv, Protected
<1>18. ASSUME NEW r \in Roles, deleteRole(r) PROVE StoppedInv' /\ OpenInv'
  BY <1>18 DEF deleteRole, StoppedInv, OpenInv, Protected
<1>19. ASSUME AccessCrash PROVE StoppedInv' /\ OpenInv'
  BY <1>19 DEF AccessCrash, StoppedInv, OpenInv
<1>20. ASSUME NEW named \in {Bootstrap, NoUser}, BootstrapAdmin(named)
      PROVE  StoppedInv' /\ OpenInv'
  <2>1. Protected /\ UNCHANGED user => authActive'
    BY <1>20, CountTellsProtected DEF BootstrapAdmin
  <2>2. UNCHANGED user \/ authActive'
    BY <1>20 DEF BootstrapAdmin
  <2>3. UNCHANGED user => (Protected <=> Protected')
    BY DEF Protected
  <2>4. running'
    BY <1>20 DEF BootstrapAdmin
  <2>5. QED
    BY <2>1, <2>2, <2>3, <2>4 DEF StoppedInv, OpenInv
<1>21. CASE UNCHANGED accessVars
  BY <1>21 DEF accessVars, StoppedInv, OpenInv, Protected
<1>22. QED
  BY <1>1, <1>2, <1>3, <1>4, <1>5, <1>6, <1>7, <1>8, <1>9, <1>10, <1>11, <1>12, <1>13,
     <1>14, <1>15, <1>16, <1>17, <1>18, <1>19, <1>20, <1>21 DEF AccessNext

\* A session keeps resting on the account's password, or is one a revocation
\* did not reach.
LEMMA SessionStep ==
  ASSUME AccessTypeOK, StoppedInv, SessionInv, [AccessNext]_accessVars
  PROVE  SessionInv'
<1>1. ASSUME NEW k \in Desks, NEW u \in Users, NEW t \in Tokens, login(k, u, t)
      PROVE  SessionInv'
  <2>1. \A d \in Desks : d # k => desk'[d] = desk[d]
    BY <1>1 DEF login, AccessTypeOK
  <2>2. /\ desk[k] = Quiet /\ desk'[k].op = "login" /\ desk'[k].who = u /\ desk'[k].token = t
        /\ desk'[k].verified = user[u].password /\ user[u].password # 0
        /\ ~Live(t) /\ spared' = spared \ {t} /\ UNCHANGED <<user, session>>
        /\ \A e \in Desks : desk[e].op = "login" => desk[e].token # t
    BY <1>1 DEF login, Open, AccessTypeOK
  <2>3. QED
    BY <2>1, <2>2 DEF Quiet, SessionInv, RowsInv, LoginsFollow, SessionsFollowPassword, Live, Revoking
<1>2. ASSUME NEW k \in Desks, LoginStores(k) PROVE SessionInv'
  <2>1. \A d \in Desks : d # k => desk'[d] = desk[d]
    BY <1>2 DEF LoginStores, Close, AccessTypeOK
  <2>2. /\ desk[k] \in LoginRequest /\ desk[k].op = "login" /\ desk'[k].op = "quiet"
        /\ UNCHANGED <<user, spared>>
    BY <1>2, DeskKinds DEF LoginStores, At, Close, Quiet, AccessTypeOK
  <2>3. CASE UNCHANGED session
    BY <2>1, <2>2, <2>3 DEF SessionInv, RowsInv, LoginsFollow, SessionsFollowPassword, Live, Revoking
  <2>4. CASE /\ user[desk[k].who].exists
             /\ session' = CreateSession(desk[k].who, desk[k].token, desk[k].verified)
    <3>1. /\ session'[desk[k].token].owner = desk[k].who
          /\ session'[desk[k].token].verified = desk[k].verified
          /\ \A t \in Tokens : t # desk[k].token => session'[t] = session[t]
      BY <2>2, <2>4 DEF CreateSession, AccessTypeOK, LoginRequest
    <3>2. /\ desk[k].verified # 0
          /\ desk[k].verified = user[desk[k].who].password \/ desk[k].token \in spared
      BY <2>2 DEF SessionInv, LoginsFollow
    <3>3. RowsInv'
      BY <2>2, <2>4, <3>1, <3>2 DEF SessionInv, RowsInv, Live
    <3>4. LoginsFollow'
      BY <2>1, <2>2, <3>1 DEF SessionInv, LoginsFollow
    <3>5. SessionsFollowPassword'
      <4>1. \A e \in Revoking : e \in Revoking' /\ desk'[e] = desk[e]
        BY <2>1, <2>2 DEF Revoking
      <4>2. QED
        BY <2>2, <3>1, <3>2, <4>1 DEF SessionInv, SessionsFollowPassword, Live
    <3>6. QED
      BY <3>3, <3>4, <3>5 DEF SessionInv
  <2>5. QED
    BY <1>2, <2>3, <2>4 DEF LoginStores
<1>3. ASSUME NEW k \in Desks, RevokeSessions(k) PROVE SessionInv'
  <2>1. \A d \in Desks : d # k => desk'[d] = desk[d]
    BY <1>3 DEF RevokeSessions, Close, AccessTypeOK
  <2>2. /\ desk[k] \in RevokeRequest /\ desk[k].op \in {"revoke", "revokeAndEnforce"}
        /\ desk'[k].op \in {"quiet", "enforce"} /\ UNCHANGED user
    BY <1>3, DeskKinds DEF RevokeSessions, Close, Quiet, AccessTypeOK
  <2>3. CASE session' = DeleteUserSessions(desk[k].who) /\ UNCHANGED spared
    <3>1. \A t \in Tokens : session'[t] = IF session[t].owner = desk[k].who THEN NoSession
                                          ELSE session[t]
      BY <2>3 DEF DeleteUserSessions
    <3>2. QED
      BY <2>1, <2>2, <2>3, <3>1 DEF NoSession, SessionInv, RowsInv, LoginsFollow, SessionsFollowPassword, Live, Revoking
  <2>4. CASE spared' = spared \cup TokensOf({desk[k].who}) /\ UNCHANGED session
    <3>1. \A t \in Tokens : session[t].owner = desk[k].who => t \in spared'
      BY <2>4 DEF TokensOf
    <3>2. spared \subseteq spared'
      BY <2>4
    <3>3. RowsInv' /\ LoginsFollow'
      BY <2>1, <2>2, <2>4, <3>2 DEF SessionInv, RowsInv, LoginsFollow, Live
    <3>4. SessionsFollowPassword'
      <4>1. \A e \in Revoking : e # k => e \in Revoking' /\ desk'[e] = desk[e]
        BY <2>1 DEF Revoking
      <4>2. QED
        BY <2>2, <2>4, <3>1, <3>2, <4>1 DEF SessionInv, SessionsFollowPassword, Live
    <3>5. QED
      BY <3>3, <3>4 DEF SessionInv
  <2>5. QED
    BY <1>3, <2>3, <2>4 DEF RevokeSessions
<1>4. ASSUME NEW k \in Desks, Enforce(k) PROVE SessionInv'
  <2>1. \A d \in Desks : d # k => desk'[d] = desk[d]
    BY <1>4 DEF Enforce, Close, AccessTypeOK
  <2>2. /\ desk[k].op = "enforce" /\ desk'[k].op \in {"quiet", "quiet"}
        /\ UNCHANGED <<user, session, spared>>
    BY <1>4 DEF Enforce, At, Close, Quiet, AccessTypeOK
  <2>3. QED
    BY <2>1, <2>2 DEF SessionInv, RowsInv, LoginsFollow, SessionsFollowPassword, Live, Revoking
<1>5. ASSUME NEW k \in Desks, NEW t \in Tokens, changePassword(k, t) PROVE SessionInv'
  <2> DEFINE w == session[t].owner
  <2>0. w \in Users
    BY <1>5 DEF changePassword, resolveSession, GetSession, Live, AccessTypeOK, SessionRow
  <2>1. \A d \in Desks : d # k => desk'[d] = desk[d]
    BY <1>5 DEF changePassword, AccessTypeOK
  <2>2. desk[k] = Quiet /\ desk'[k].op = "revoke" /\ desk'[k].who = w /\ UNCHANGED session
    BY <1>5 DEF changePassword, Open, AccessTypeOK
  <2>3. \A d \in Desks : desk[d].op = "login" /\ desk[d].who = w => desk[d].token \in spared'
    BY <1>5 DEF changePassword, Overtaken
  <2>4. spared \subseteq spared' /\ user' = SetUserPassword(w)
    BY <1>5 DEF changePassword
  <2>5. /\ \A v \in Users : v # w => user'[v] = user[v]
        /\ user'[w].exists = user[w].exists /\ (~user[w].exists => user' = user)
    BY <2>0, <2>4, SetUserPasswordType
  <2>6. QED
    <3>1. RowsInv'
      BY <2>0, <2>2, <2>5 DEF AccessTypeOK, SessionRow, SessionInv, RowsInv, Live
    <3>2. LoginsFollow'
      BY <2>0, <2>1, <2>2, <2>3, <2>4, <2>5, DeskKinds DEF LoginRequest, AccessTypeOK, SessionInv, LoginsFollow
    <3>3. SessionsFollowPassword'
      BY <2>0, <2>1, <2>2, <2>4, <2>5 DEF Quiet, AccessTypeOK, SessionRow, SessionInv, SessionsFollowPassword, Live, Revoking
    <3>4. QED
      BY <3>1, <3>2, <3>3 DEF SessionInv
<1>6. ASSUME NEW k \in Desks, NEW u \in Users, adminSetPassword(k, u) PROVE SessionInv'
  <2>1. \A d \in Desks : d # k => desk'[d] = desk[d]
    BY <1>6 DEF adminSetPassword, AccessTypeOK
  <2>2. desk[k] = Quiet /\ desk'[k].op = "revokeAndEnforce" /\ desk'[k].who = u /\ UNCHANGED session
    BY <1>6 DEF adminSetPassword, Open, AccessTypeOK
  <2>3. \A d \in Desks : desk[d].op = "login" /\ desk[d].who = u => desk[d].token \in spared'
    BY <1>6 DEF adminSetPassword, Overtaken
  <2>4. spared \subseteq spared' /\ user' = SetUserPassword(u)
    BY <1>6 DEF adminSetPassword
  <2>5. /\ \A v \in Users : v # u => user'[v] = user[v]
        /\ user'[u].exists = user[u].exists /\ (~user[u].exists => user' = user)
    BY <2>4, SetUserPasswordType
  <2>6. QED
    <3>1. RowsInv'
      BY <2>2, <2>5 DEF AccessTypeOK, SessionRow, SessionInv, RowsInv, Live
    <3>2. LoginsFollow'
      BY <2>1, <2>2, <2>3, <2>4, <2>5, DeskKinds DEF LoginRequest, AccessTypeOK, SessionInv, LoginsFollow
    <3>3. SessionsFollowPassword'
      BY <2>1, <2>2, <2>4, <2>5 DEF Quiet, AccessTypeOK, SessionRow, SessionInv, SessionsFollowPassword, Live, Revoking
    <3>4. QED
      BY <3>1, <3>2, <3>3 DEF SessionInv
<1>7. ASSUME NEW k \in Desks, NEW u \in Users, NEW rs \in SUBSET Roles, setUserRoles(k, u, rs)
      PROVE  SessionInv'
  <2>1. \A d \in Desks : d # k => desk'[d] = desk[d]
    BY <1>7 DEF setUserRoles, AccessTypeOK
  <2>2. desk[k] = Quiet /\ desk'[k].op = "roles" /\ UNCHANGED <<user, session, spared>>
    BY <1>7 DEF setUserRoles, Open, AccessTypeOK
  <2>3. QED
    BY <2>1, <2>2 DEF Quiet, SessionInv, RowsInv, LoginsFollow, SessionsFollowPassword, Live, Revoking
<1>8. ASSUME NEW k \in Desks, NEW r \in Roles, NEW ps \in SUBSET Perms, setRolePermissions(k, r, ps)
      PROVE  SessionInv'
  <2>1. \A d \in Desks : d # k => desk'[d] = desk[d]
    BY <1>8 DEF setRolePermissions, AccessTypeOK
  <2>2. desk[k] = Quiet /\ desk'[k].op = "perms" /\ UNCHANGED <<user, session, spared>>
    BY <1>8 DEF setRolePermissions, Open, AccessTypeOK
  <2>3. QED
    BY <2>1, <2>2 DEF Quiet, SessionInv, RowsInv, LoginsFollow, SessionsFollowPassword, Live, Revoking
<1>9. ASSUME NEW k \in Desks, SetUserRolesAdd(k) PROVE SessionInv'
  <2>1. \A d \in Desks : d # k => desk'[d] = desk[d]
    BY <1>9 DEF SetUserRolesAdd, Close, AccessTypeOK
  <2>0. desk[k] \in RolesRequest /\ desk[k].op = "roles"
    BY <1>9, DeskKinds DEF SetUserRolesAdd, At, AccessTypeOK
  <2>2. desk'[k].op \in {"quiet", "roles"} /\ UNCHANGED <<user, session, spared>>
    BY <1>9, <2>0 DEF SetUserRolesAdd, Close, Quiet, AccessTypeOK, RolesRequest
  <2>3. QED
    BY <2>0, <2>1, <2>2 DEF SessionInv, RowsInv, LoginsFollow, SessionsFollowPassword, Live, Revoking
<1>10. ASSUME NEW k \in Desks, SetRolePermissionsAdd(k) PROVE SessionInv'
  <2>1. \A d \in Desks : d # k => desk'[d] = desk[d]
    BY <1>10 DEF SetRolePermissionsAdd, Close, AccessTypeOK
  <2>0. desk[k] \in PermsRequest /\ desk[k].op = "perms"
    BY <1>10, DeskKinds DEF SetRolePermissionsAdd, At, AccessTypeOK
  <2>2. desk'[k].op \in {"quiet", "perms"} /\ UNCHANGED <<user, session, spared>>
    BY <1>10, <2>0 DEF SetRolePermissionsAdd, Close, Quiet, AccessTypeOK, PermsRequest
  <2>3. QED
    BY <2>0, <2>1, <2>2 DEF SessionInv, RowsInv, LoginsFollow, SessionsFollowPassword, Live, Revoking
<1>11. ASSUME NEW t \in Tokens, logout(t) PROVE SessionInv'
  <2>1. \A s \in Tokens : session'[s] = session[s] \/ session'[s] = NoSession
    BY <1>11 DEF logout, DeleteSession, AccessTypeOK
  <2>2. QED
    BY <1>11, <2>1 DEF logout, NoSession, SessionInv, RowsInv, LoginsFollow, SessionsFollowPassword, Live, Revoking
<1>12. ASSUME NEW t \in Tokens, Expire(t) PROVE SessionInv'
  <2>1. \A s \in Tokens : session'[s].owner = session[s].owner /\ session'[s].verified = session[s].verified
    BY <1>12 DEF Expire, AccessTypeOK, SessionRow
  <2>2. QED
    BY <1>12, <2>1 DEF Expire, SessionInv, RowsInv, LoginsFollow, SessionsFollowPassword, Live, Revoking
<1>13. ASSUME StartSessionGC PROVE SessionInv'
  <2>1. \A s \in Tokens : session'[s] = session[s] \/ session'[s] = NoSession
    BY <1>13 DEF StartSessionGC, DeleteExpiredSessions
  <2>2. QED
    BY <1>13, <2>1 DEF StartSessionGC, NoSession, SessionInv, RowsInv, LoginsFollow, SessionsFollowPassword, Live, Revoking
<1>14. ASSUME NEW u \in Users, updateUser(u) PROVE SessionInv'
  <2>1. \A v \in Users : user'[v].exists = user[v].exists /\ user'[v].password = user[v].password
    BY <1>14 DEF updateUser, UpdateUser, AccessTypeOK, UserRow
  <2>2. /\ \A s \in Tokens : Live(s) => session[s].owner \in Users
        /\ \A d \in Desks : desk[d].op = "login" => desk[d].who \in Users
    BY DeskKinds DEF AccessTypeOK, SessionRow, LoginRequest, Live
  <2>3. QED
    BY <1>14, <2>1, <2>2 DEF updateUser, SessionInv, RowsInv, LoginsFollow, SessionsFollowPassword, Live, Revoking
<1>15. ASSUME NEW u \in Users, deleteUser(u) PROVE SessionInv'
  <2>1. user'[u] = NoRow /\ \A v \in Users : v # u => user'[v] = user[v]
    BY <1>15 DEF deleteUser, DeleteUser, AccessTypeOK
  <2>2. \A s \in Tokens : session'[s] = IF session[s].owner = u THEN NoSession ELSE session[s]
    BY <1>15 DEF deleteUser, DeleteUserSessions
  <2>3. \A d \in Desks : desk[d].op = "login" /\ desk[d].who = u => desk[d].token \in spared'
    BY <1>15 DEF deleteUser, Overtaken
  <2>4. spared \subseteq spared' /\ UNCHANGED desk
    BY <1>15 DEF deleteUser
  <2>5. /\ \A s \in Tokens : Live(s) => session[s].owner \in Users
        /\ \A d \in Desks : desk[d].op = "login" => desk[d].who \in Users
    BY DeskKinds DEF AccessTypeOK, SessionRow, LoginRequest, Live
  <2>6. QED
    BY <2>1, <2>2, <2>3, <2>4, <2>5 DEF NoRow, NoSession, SessionInv, RowsInv, LoginsFollow, SessionsFollowPassword, Live, Revoking
<1>16. ASSUME NEW u \in Users, NEW active \in BOOLEAN, createUser(u, active)
      PROVE  SessionInv'
  <2>1. /\ ~user[u].exists /\ user'[u].password = 0 /\ user'[u].exists
        /\ \A v \in Users : v # u => user'[v] = user[v]
    BY <1>16 DEF createUser, CreateUser, AccessTypeOK
  <2>2. user[u].password = 0
    BY <2>1 DEF SessionInv, RowsInv
  <2>3. /\ \A s \in Tokens : Live(s) => session[s].owner \in Users
        /\ \A d \in Desks : desk[d].op = "login" => desk[d].who \in Users
    BY DeskKinds DEF AccessTypeOK, SessionRow, LoginRequest, Live
  <2>4. QED
    BY <1>16, <2>1, <2>2, <2>3 DEF createUser, SessionInv, RowsInv, LoginsFollow, SessionsFollowPassword, Live, Revoking
<1>17. ASSUME NEW r \in Roles, createRole(r) PROVE SessionInv'
  BY <1>17 DEF createRole, SessionInv, RowsInv, LoginsFollow, SessionsFollowPassword, Live, Revoking
<1>18. ASSUME NEW r \in Roles, deleteRole(r) PROVE SessionInv'
  BY <1>18 DEF deleteRole, SessionInv, RowsInv, LoginsFollow, SessionsFollowPassword, Live, Revoking
<1>19. ASSUME AccessCrash PROVE SessionInv'
  <2>1. /\ \A k \in Desks : desk'[k].op = "quiet"
        /\ UNCHANGED <<user, session>>
        /\ spared' = spared \cup TokensOf({desk[k].who : k \in Revoking})
    BY <1>19 DEF AccessCrash, Quiet
  <2>2. \A s \in Tokens, k \in Revoking : desk[k].who = session[s].owner => s \in spared'
    BY <2>1 DEF TokensOf
  <2>3. QED
    BY <2>1, <2>2 DEF SessionInv, RowsInv, LoginsFollow, SessionsFollowPassword, Live, Revoking
<1>20. ASSUME NEW named \in {Bootstrap, NoUser}, BootstrapAdmin(named) PROVE SessionInv'
  <2>1. \A k \in Desks : desk[k].op = "quiet"
    BY <1>20 DEF BootstrapAdmin, StoppedInv, Quiet
  <2>2. UNCHANGED <<session, desk, spared>>
    BY <1>20 DEF BootstrapAdmin
  <2>3. CASE UNCHANGED user
    BY <2>1, <2>2, <2>3 DEF SessionInv, RowsInv, LoginsFollow, SessionsFollowPassword, Live, Revoking
  <2>4. CASE ~UNCHANGED user
    <3>1. /\ named \in Users /\ ~(CountUsersWithPassword > 0)
          /\ user' = [user EXCEPT ![named] =
                        [exists |-> TRUE, active |-> @.active \/ ~@.exists, password |-> 1]]
      BY <1>20, <2>4, AccessAssumption DEF BootstrapAdmin
    <3>2. \A v \in Users : user[v].password = 0
      BY <3>1, CountTellsProtected DEF Protected
    <3>3. user'[named].exists /\ \A v \in Users : v # named => user'[v] = user[v]
      BY <3>1 DEF AccessTypeOK
    <3>4. \A s \in Tokens : Live(s) => session[s].owner \in Users
      BY DEF AccessTypeOK, SessionRow, Live
    <3>5. \A s \in Tokens : Live(s) => s \in spared
      BY <2>1, <3>2, <3>4 DEF SessionInv, RowsInv, LoginsFollow, SessionsFollowPassword, Live, Revoking
    <3>6. QED
      BY <2>1, <2>2, <3>3, <3>4, <3>5 DEF SessionInv, RowsInv, LoginsFollow, SessionsFollowPassword, Live, Revoking
  <2>5. QED
    BY <2>3, <2>4
<1>21. CASE UNCHANGED accessVars
  BY <1>21 DEF accessVars, SessionInv, RowsInv, LoginsFollow, SessionsFollowPassword, Live, Revoking
<1>22. QED
  BY <1>1, <1>2, <1>3, <1>4, <1>5, <1>6, <1>7, <1>8, <1>9, <1>10, <1>11, <1>12, <1>13,
     <1>14, <1>15, <1>16, <1>17, <1>18, <1>19, <1>20, <1>21 DEF AccessNext

\* The inductive invariant of the accounts holds in every reachable state.
LEMMA AccessInvariant == AccessSpec => []AccessInv
<1>1. AccessInit => AccessInv
  <2> SUFFICES ASSUME AccessInit PROVE AccessInv
    OBVIOUS
  <2>1. AccessTypeOK
    BY DEF AccessInit, AccessTypeOK, NoRow, NoSession, UserRow, SessionRow, DeskRequest
  <2>2. StoppedInv /\ OpenInv
    BY DEF AccessInit, StoppedInv, OpenInv
  <2>3. SessionInv
    BY DEF AccessInit, NoRow, NoSession, Quiet, SessionInv, RowsInv, LoginsFollow,
           SessionsFollowPassword, Live
  <2>4. QED
    BY <2>1, <2>2, <2>3 DEF AccessInv
<1>2. AccessInv /\ [AccessNext]_accessVars => AccessInv'
  BY AccessTypeStep, OpenStep, SessionStep DEF AccessInv
<1>3. QED
  BY <1>1, <1>2, PTL DEF AccessSpec

\* Across restarts, bootstraps, password changes and deletions the API is in
\* open mode only while no account has a password, up to the switch that
\* adminSetPassword is about to make (authMiddleware, BootstrapAdmin).
THEOREM OpenOnly == AccessSpec => []OpenOnlyWithoutPasswords
<1>1. AccessInv => OpenOnlyWithoutPasswords
  BY CountTellsProtected DEF AccessInv, OpenInv, OpenOnlyWithoutPasswords
<1>2. QED
  BY <1>1, AccessInvariant, PTL

\* Once the revocation of a password change has run no session rests on an
\* earlier password, except the ones it could not reach (changePassword,
\* adminSetPassword, DeleteUserSessions).
THEOREM SessionsFollow == AccessSpec => []SessionsFollowPassword
<1>1. AccessInv => SessionsFollowPassword
  BY DEF AccessInv, SessionInv
<1>2. QED
  BY <1>1, AccessInvariant, PTL

-----------------------------------------------------------------------------
(* Work orders.                                                            *)

OrderRow == [exists : BOOLEAN, status : Statuses, priority : Priorities, resolved : BOOLEAN]
Update   == [op : {"write", "event"}, order : Orders, prev : Statuses, status : Statuses,
             priority : Priorities]

OpsTypeOK ==
  /\ order \in [Orders -> OrderRow]
  /\ timeline \in [Orders -> Seq(Statuses)]
  /\ clerk \in [Clerks -> {Away} \cup Update]
  /\ gaps \in SUBSET Orders

\* Clerk c is updating order w.
On(c, w) == clerk[c] # Away /\ clerk[c].order = w

\* The timeline of order w ends with status st.
Tells(w, st) == timeline[w] # << >> /\ Last(timeline[w]) = st

\* Of an order without a gap: one update at most is between its write and its
\* event, it wrote the status the order has over the one the timeline tells,
\* and an update that has yet to write has read the status the order has.
TimelineInv ==
  \A w \in Orders : w \notin gaps =>
    /\ \A c \in Clerks : On(c, w) /\ clerk[c].op = "event" =>
         /\ order[w].status = clerk[c].status
         /\ Tells(w, clerk[c].prev)
         /\ \A d \in Clerks : On(d, w) /\ clerk[d].op = "event" => d = c
    /\ \A c \in Clerks : On(c, w) /\ clerk[c].op = "write" => clerk[c].prev = order[w].status
    /\ \/ ~order[w].exists
       \/ \E c \in Clerks : On(c, w) /\ clerk[c].op = "event"
       \/ Tells(w, order[w].status)

\* Only orders that exist are updated.
UpdatesExist == \A c \in Clerks, w \in Orders : On(c, w) => order[w].exists

OpsInv == OpsTypeOK /\ UpdatesExist /\ TimelineInv

\* An appended event is the one the timeline tells.
LEMMA AppendTells ==
  ASSUME OpsTypeOK, NEW w \in Orders, NEW st \in Statuses
  PROVE  /\ AddWorkOrderEvent(w, st) \in [Orders -> Seq(Statuses)]
         /\ \A v \in Orders : v # w => AddWorkOrderEvent(w, st)[v] = timeline[v]
         /\ AddWorkOrderEvent(w, st)[w] # << >>
         /\ Last(AddWorkOrderEvent(w, st)[w]) = st
<1>1. timeline[w] \in Seq(Statuses)
  BY DEF OpsTypeOK
<1>2. AddWorkOrderEvent(w, st)[w] = Append(timeline[w], st)
  BY DEF AddWorkOrderEvent, OpsTypeOK
<1>3. Append(timeline[w], st) \in Seq(Statuses) /\ Len(Append(timeline[w], st)) = Len(timeline[w]) + 1
  BY <1>1
<1>4. Append(timeline[w], st)[Len(timeline[w]) + 1] = st
  BY <1>1
<1>5. Append(timeline[w], st) # << >>
  BY <1>1
<1>6. QED
  BY <1>2, <1>3, <1>4, <1>5 DEF AddWorkOrderEvent, Last, OpsTypeOK

\* An update that reads an order leaves its timeline in step with it.
LEMMA ReadKeepsTimeline ==
  ASSUME TimelineInv, NEW c \in Clerks, NEW w \in Orders,
         UNCHANGED <<order, timeline, gaps>>,
         \A d \in Clerks : d # c => clerk'[d] = clerk[d],
         clerk'[c].op = "write" /\ clerk'[c].order = w /\ clerk'[c].prev = order[w].status,
         \A d \in Clerks, v \in Orders : d # c => (On(d, v) <=> On(d, v)'),
         \A v \in Orders : ~On(c, v) /\ (On(c, v)' => v = w)
  PROVE  TimelineInv'
<1> SUFFICES ASSUME NEW v \in Orders, v \notin gaps'
             PROVE  /\ \A e \in Clerks : On(e, v)' /\ clerk'[e].op = "event" =>
                         /\ order'[v].status = clerk'[e].status
                         /\ Tells(v, clerk[e].prev)'
                         /\ \A d \in Clerks : On(d, v)' /\ clerk'[d].op = "event" => d = e
                    /\ \A e \in Clerks : On(e, v)' /\ clerk'[e].op = "write" =>
                         clerk'[e].prev = order'[v].status
                    /\ \/ ~order'[v].exists
                       \/ \E e \in Clerks : On(e, v)' /\ clerk'[e].op = "event"
                       \/ Tells(v, order[v].status)'
  BY DEF TimelineInv
<1>1. v \notin gaps
  OBVIOUS
<1>2. \A e \in Clerks : On(e, v)' /\ clerk'[e].op = "event" =>
        e # c /\ On(e, v) /\ clerk'[e] = clerk[e] /\ clerk[e].op = "event"
  OBVIOUS
<1>3. \A e \in Clerks : On(e, v) => On(e, v)' /\ clerk'[e] = clerk[e]
  OBVIOUS
<1>4. \A e \in Clerks : On(e, v)' /\ clerk'[e].op = "write" =>
        \/ e = c /\ v = w
        \/ On(e, v) /\ clerk'[e] = clerk[e] /\ clerk[e].op = "write"
  OBVIOUS
<1>5. UNCHANGED <<order, timeline>>
  OBVIOUS
<1>6. \A e \in Clerks : On(e, v)' /\ clerk'[e].op = "event" =>
        /\ order'[v].status = clerk'[e].status
        /\ Tells(v, clerk[e].prev)'
        /\ \A d \in Clerks : On(d, v)' /\ clerk'[d].op = "event" => d = e
  BY <1>1, <1>2, <1>5 DEF TimelineInv, Tells
<1>7. \A e \in Clerks : On(e, v)' /\ clerk'[e].op = "write" => clerk'[e].prev = order'[v].status
  BY <1>1, <1>4, <1>5 DEF TimelineInv
<1>8. \/ ~order'[v].exists
      \/ \E e \in Clerks : On(e, v)' /\ clerk'[e].op = "event"
      \/ Tells(v, order[v].status)'
  BY <1>1, <1>3, <1>5 DEF TimelineInv, Tells
<1>9. QED
  BY <1>6, <1>7, <1>8

\* Every operation keeps the timelines in step with the orders they are of.
LEMMA TimelineStep ==
  ASSUME OpsInv, [OpsNext]_opsVars
  PROVE  OpsInv'
<1>1. ASSUME NEW w \in Orders, NEW pr \in Priorities, createWorkOrder(w, pr) PROVE OpsInv'
  <2>1. /\ ~order[w].exists
        /\ order'[w].exists /\ order'[w].status = "open" /\ order' \in [Orders -> OrderRow]
        /\ \A v \in Orders : v # w => order'[v] = order[v]
    <3> DEFINE new == [NoOrder EXCEPT !.exists = TRUE, !.priority = pr]
    <3>1. new \in OrderRow /\ new.exists /\ new.status = "open"
      BY DEF NoOrder, OrderRow, Statuses, Priorities
    <3>2. order' = [order EXCEPT ![w] = new] /\ ~order[w].exists
      BY <1>1 DEF createWorkOrder, CreateWorkOrder
    <3> HIDE DEF new
    <3>3. QED
      BY <3>1, <3>2 DEF OpsInv, OpsTypeOK
  <2>2. UNCHANGED clerk
    BY <1>1 DEF createWorkOrder
  <2>3. \A c \in Clerks : ~On(c, w)
    BY <2>1 DEF OpsInv, UpdatesExist
  <2>4. CASE timeline' = AddWorkOrderEvent(w, "open") /\ UNCHANGED gaps
    <3>1. /\ timeline' \in [Orders -> Seq(Statuses)] /\ Tells(w, "open")'
          /\ \A v \in Orders : v # w => timeline'[v] = timeline[v]
      BY <2>4, AppendTells DEF OpsInv, Statuses, Tells
    <3>2. OpsTypeOK' /\ UpdatesExist'
      BY <2>1, <2>2, <2>4, <3>1 DEF OpsInv, OpsTypeOK, UpdatesExist, On
    <3>3. TimelineInv'
      BY <2>1, <2>2, <2>3, <2>4, <3>1 DEF OpsInv, TimelineInv, Tells, On
    <3>4. QED
      BY <3>2, <3>3 DEF OpsInv
  <2>5. CASE gaps' = gaps \cup {w} /\ UNCHANGED timeline
    <3>1. OpsTypeOK' /\ UpdatesExist'
      BY <2>1, <2>2, <2>5 DEF OpsInv, OpsTypeOK, UpdatesExist, On
    <3>2. TimelineInv'
      BY <2>1, <2>2, <2>5 DEF OpsInv, TimelineInv, Tells, On
    <3>3. QED
      BY <3>1, <3>2 DEF OpsInv
  <2>6. QED
    BY <1>1, <2>4, <2>5 DEF createWorkOrder
<1>2. ASSUME NEW c \in Clerks, NEW w \in Orders, NEW st \in Statuses \cup {""}, NEW pr \in Priorities \cup {""}, updateWorkOrder(c, w, st, pr)
      PROVE  OpsInv'
  <2>1. /\ clerk[c] = Away /\ order[w].exists /\ UNCHANGED <<order, timeline, gaps>>
        /\ \A d \in Clerks : d # c => clerk'[d] = clerk[d]
    BY <1>2 DEF updateWorkOrder, OpsInv, OpsTypeOK
  <2>2. clerk'[c] \in Update /\ clerk' \in [Clerks -> {Away} \cup Update]
    BY <1>2 DEF updateWorkOrder, GetWorkOrder, OpsInv, OpsTypeOK, OrderRow, Update
  <2>3. clerk'[c].op = "write" /\ clerk'[c].order = w /\ clerk'[c].prev = order[w].status
    BY <1>2 DEF updateWorkOrder, GetWorkOrder, OpsInv, OpsTypeOK
  <2>4. /\ \A d \in Clerks, v \in Orders : d # c => (On(d, v) <=> On(d, v)')
        /\ \A v \in Orders : ~On(c, v) /\ (On(c, v)' => v = w)
    BY <2>1, <2>3 DEF On
  <2>5. OpsTypeOK' /\ UpdatesExist'
    BY <2>1, <2>2, <2>4 DEF OpsInv, OpsTypeOK, UpdatesExist
  <2>6. TimelineInv'
    BY <2>1, <2>3, <2>4, ReadKeepsTimeline DEF OpsInv
  <2>7. QED
    BY <2>5, <2>6 DEF OpsInv
<1>3. ASSUME NEW c \in Clerks, WriteOrder(c) PROVE OpsInv'
  <2> DEFINE w == clerk[c].order
  <2>1. clerk[c] \in Update /\ clerk[c].op = "write" /\ w \in Orders /\ On(c, w)
    BY <1>3 DEF WriteOrder, OpsInv, OpsTypeOK, Away, Update, On
  <2>2. /\ clerk'[c].op = "event" /\ clerk'[c].order = w /\ clerk'[c].prev = clerk[c].prev
        /\ clerk'[c].status = clerk[c].status /\ clerk'[c] \in Update
        /\ \A d \in Clerks : d # c => clerk'[d] = clerk[d]
    BY <1>3, <2>1 DEF WriteOrder, OpsInv, OpsTypeOK, Update
  <2>3. clerk' \in [Clerks -> {Away} \cup Update]
    BY <1>3, <2>2 DEF WriteOrder, OpsInv, OpsTypeOK
  <2>4. /\ order'[w].exists = order[w].exists /\ order'[w].status = clerk[c].status
        /\ \A v \in Orders : v # w => order'[v] = order[v]
    BY <1>3, <2>1 DEF WriteOrder, UpdateWorkOrder, OpsInv, OpsTypeOK, OrderRow
  <2>5. order' \in [Orders -> OrderRow]
    <3>1. ResolvedAt(order[w], clerk[c].status) \in BOOLEAN
      BY DEF ResolvedAt
    <3>2. [order[w] EXCEPT !.status = clerk[c].status, !.priority = clerk[c].priority,
                           !.resolved = ResolvedAt(order[w], clerk[c].status)] \in OrderRow
      <4>1. order[w] \in OrderRow
        BY <2>1 DEF OpsInv, OpsTypeOK
      <4>2. clerk[c].status \in Statuses /\ clerk[c].priority \in Priorities
        BY <2>1 DEF Update
      <4>3. QED
        BY <3>1, <4>1, <4>2 DEF OrderRow
    <3>3. order' = [order EXCEPT ![w] =
                     [order[w] EXCEPT !.status = clerk[c].status, !.priority = clerk[c].priority,
                                      !.resolved = ResolvedAt(order[w], clerk[c].status)]]
      BY <1>3, <2>1 DEF WriteOrder, UpdateWorkOrder, OpsInv, OpsTypeOK, OrderRow
    <3>4. QED
      BY <3>2, <3>3 DEF OpsInv, OpsTypeOK
  <2>6. /\ UNCHANGED timeline /\ gaps' \in {gaps, gaps \cup {w}}
        /\ w \notin gaps' => \A d \in Clerks : d # c => ~On(d, w)
    BY <1>3 DEF WriteOrder, On
  <2>7. /\ \A d \in Clerks, v \in Orders : d # c => (On(d, v) <=> On(d, v)')
        /\ \A v \in Orders : (On(c, v) <=> v = w) /\ (On(c, v)' <=> v = w)
    BY <2>1, <2>2 DEF On, Away, Update
  <2>8. OpsTypeOK' /\ UpdatesExist'
    BY <2>1, <2>3, <2>4, <2>5, <2>6, <2>7 DEF OpsInv, OpsTypeOK, UpdatesExist
  <2>9. ASSUME NEW v \in Orders, v \notin gaps', v # w
        PROVE  /\ \A e \in Clerks : On(e, v)' /\ clerk'[e].op = "event" =>
                    /\ order'[v].status = clerk'[e].status
                    /\ Tells(v, clerk[e].prev)' /\ clerk'[e].prev = clerk[e].prev
                    /\ \A d \in Clerks : On(d, v)' /\ clerk'[d].op = "event" => d = e
               /\ \A e \in Clerks : On(e, v)' /\ clerk'[e].op = "write" => clerk'[e].prev = order'[v].status
               /\ \/ ~order'[v].exists
                  \/ \E e \in Clerks : On(e, v)' /\ clerk'[e].op = "event"
                  \/ Tells(v, order[v].status)' /\ order'[v].status = order[v].status
    BY <2>2, <2>4, <2>6, <2>7, <2>9 DEF OpsInv, TimelineInv, Tells
  <2>10. w \notin gaps' => Tells(w, clerk[c].prev)
    <3> SUFFICES ASSUME w \notin gaps' PROVE Tells(w, clerk[c].prev)
      OBVIOUS
    <3>1. w \notin gaps /\ order[w].exists /\ clerk[c].prev = order[w].status
      BY <2>1, <2>6 DEF OpsInv, TimelineInv, UpdatesExist
    <3>2. ~ \E e \in Clerks : On(e, w) /\ clerk[e].op = "event"
      BY <2>1, <2>6
    <3>3. QED
      BY <2>1, <3>1, <3>2 DEF OpsInv, TimelineInv
  <2>11. TimelineInv'
    BY <2>2, <2>4, <2>6, <2>7, <2>9, <2>10 DEF TimelineInv, Tells
  <2>12. QED
    BY <2>8, <2>11 DEF OpsInv
<1>4. ASSUME NEW c \in Clerks, RecordEvent(c) PROVE OpsInv'
  <2>0. clerk[c] \in Update /\ clerk[c].op = "event"
    BY <1>4 DEF RecordEvent, OpsInv, OpsTypeOK, Away
  <2> PICK w \in Orders : w = clerk[c].order
    BY <2>0 DEF Update
  <2>1. clerk[c] \in Update /\ clerk[c].op = "event" /\ w = clerk[c].order /\ On(c, w)
    BY <2>0 DEF Away, On
  <2>2. /\ clerk'[c] = Away /\ UNCHANGED order /\ clerk' \in [Clerks -> {Away} \cup Update]
        /\ \A d \in Clerks : d # c => clerk'[d] = clerk[d]
    BY <1>4 DEF RecordEvent, OpsInv, OpsTypeOK
  <2>3. /\ \A d \in Clerks, v \in Orders : d # c => (On(d, v) <=> On(d, v)')
        /\ \A v \in Orders : (On(c, v) <=> v = w) /\ ~On(c, v)'
    BY <2>1, <2>2 DEF On
  <2>4. /\ gaps' \in {gaps, gaps \cup {w}} /\ timeline' \in [Orders -> Seq(Statuses)]
        /\ \A v \in Orders : v # w => timeline'[v] = timeline[v]
        /\ w \notin gaps' => w \notin gaps /\ Tells(w, order[w].status)'
    <3>1. w \notin gaps => order[w].status = clerk[c].status /\ Tells(w, clerk[c].prev)
      BY <2>1 DEF OpsInv, TimelineInv
    <3>2. CASE UNCHANGED <<timeline, gaps>> /\ clerk[c].status = clerk[c].prev
      BY <2>1, <2>2, <3>1, <3>2 DEF OpsInv, OpsTypeOK, Tells
    <3>3. CASE timeline' = AddWorkOrderEvent(w, clerk[c].status) /\ UNCHANGED gaps
      <4>1. clerk[c].status \in Statuses
        BY <2>1 DEF Update
      <4>2. QED
        BY <2>1, <2>2, <3>1, <3>3, <4>1, AppendTells DEF OpsInv, Tells
    <3>4. CASE gaps' = gaps \cup {w} /\ UNCHANGED timeline
      BY <3>4 DEF OpsInv, OpsTypeOK
    <3>5. QED
      BY <1>4, <3>2, <3>3, <3>4 DEF RecordEvent
  <2>5. OpsTypeOK' /\ UpdatesExist'
    BY <2>1, <2>2, <2>3, <2>4 DEF OpsInv, OpsTypeOK, UpdatesExist
  <2>6. ASSUME NEW v \in Orders, v \notin gaps', v # w
        PROVE  /\ \A e \in Clerks : On(e, v)' /\ clerk'[e].op = "event" =>
                    /\ order'[v].status = clerk'[e].status
                    /\ Tells(v, clerk[e].prev)' /\ clerk'[e].prev = clerk[e].prev
                    /\ \A d \in Clerks : On(d, v)' /\ clerk'[d].op = "event" => d = e
               /\ \A e \in Clerks : On(e, v)' /\ clerk'[e].op = "write" => clerk'[e].prev = order'[v].status
               /\ \/ ~order'[v].exists
                  \/ \E e \in Clerks : On(e, v)' /\ clerk'[e].op = "event"
                  \/ Tells(v, order[v].status)'
    <3>1. v \notin gaps /\ timeline'[v] = timeline[v] /\ order' = order
      BY <2>2, <2>4, <2>6
    <3>2. \A e \in Clerks : On(e, v)' <=> On(e, v)
      BY <2>3, <2>6
    <3>3. \A e \in Clerks : On(e, v) => clerk'[e] = clerk[e]
      BY <2>2, <2>3, <2>6
    <3>4. \A e \in Clerks : On(e, v)' /\ clerk'[e].op = "event" =>
            /\ order'[v].status = clerk'[e].status
            /\ Tells(v, clerk[e].prev)' /\ clerk'[e].prev = clerk[e].prev
            /\ \A d \in Clerks : On(d, v)' /\ clerk'[d].op = "event" => d = e
      BY <3>1, <3>2, <3>3 DEF OpsInv, TimelineInv, Tells
    <3>5. QED
      BY <3>1, <3>2, <3>3, <3>4 DEF OpsInv, TimelineInv, Tells
  <2>7. w \notin gaps => /\ \A e \in Clerks : ~(On(e, w)' /\ clerk'[e].op = "event")
                         /\ \A e \in Clerks : On(e, w)' /\ clerk'[e].op = "write" => clerk'[e].prev = order[w].status
    BY <2>1, <2>2, <2>3 DEF OpsInv, TimelineInv
  <2>8. TimelineInv'
    BY <2>2, <2>4, <2>6, <2>7 DEF TimelineInv, Tells
  <2>9. QED
    BY <2>5, <2>8 DEF OpsInv
<1>5. ASSUME NEW p \in Parts, NEW q \in 0 .. MaxStock, NEW low \in {0, 1}, createSparePart(p, q, low)
      PROVE  OpsInv'
  BY <1>5 DEF createSparePart, OpsInv, OpsTypeOK, UpdatesExist, TimelineInv, Tells, On
<1>6. ASSUME NEW p \in Parts, NEW low \in {0, 1}, updateSparePart(p, low) PROVE OpsInv'
  BY <1>6 DEF updateSparePart, OpsInv, OpsTypeOK, UpdatesExist, TimelineInv, Tells, On
<1>7. ASSUME NEW p \in Parts, NEW q \in 0 .. MaxStock, adjustSparePartStock(p, q)
      PROVE  OpsInv'
  BY <1>7 DEF adjustSparePartStock, OpsInv, OpsTypeOK, UpdatesExist, TimelineInv, Tells, On
<1>8. ASSUME NEW p \in Parts, deleteSparePart(p) PROVE OpsInv'
  BY <1>8 DEF deleteSparePart, OpsInv, OpsTypeOK, UpdatesExist, TimelineInv, Tells, On
<1>9. ASSUME NEW w \in Orders, NEW p \in Parts, NEW n \in 1 .. MaxStock, addWorkOrderPart(w, p, n)
      PROVE  OpsInv'
  BY <1>9 DEF addWorkOrderPart, OpsInv, OpsTypeOK, UpdatesExist, TimelineInv, Tells, On
<1>10. CASE UNCHANGED opsVars
  BY <1>10 DEF opsVars, OpsInv, OpsTypeOK, UpdatesExist, TimelineInv, Tells, On
<1>11. QED
  BY <1>1, <1>2, <1>3, <1>4, <1>5, <1>6, <1>7, <1>8, <1>9, <1>10 DEF OpsNext

\* The last status event of a work order's timeline is the status the order
\* has, up to the update between its statements, the events that failed and
\* the updates that overlapped (createWorkOrder, updateWorkOrder).
THEOREM TimelineTells == OpsSpec => []TimelineTellsStatus
<1>1. OpsInit => OpsInv
  <2> SUFFICES ASSUME OpsInit PROVE OpsInv
    OBVIOUS
  <2>1. NoOrder \in OrderRow
    BY DEF NoOrder, OrderRow, Statuses, Priorities
  <2>2. OpsTypeOK
    BY <2>1 DEF OpsInit, OpsTypeOK
  <2>3. UpdatesExist /\ TimelineInv
    BY DEF OpsInit, NoOrder, UpdatesExist, TimelineInv, On
  <2>4. QED
    BY <2>2, <2>3 DEF OpsInv
<1>2. OpsInv /\ [OpsNext]_opsVars => OpsInv'
  BY TimelineStep
<1>3. OpsInv => TimelineTellsStatus
  BY DEF OpsInv, TimelineInv, On, Tells, TimelineTellsStatus
<1>4. QED
  BY <1>1, <1>2, <1>3, PTL DEF OpsSpec

-----------------------------------------------------------------------------
(* Stock.  The units the work orders took of a part are a fold over the    *)
(* orders.  What a fold computes is proved by the least counterexample, on *)
(* the number of orders it has gone through.                               *)

\* Least number principle.
LEMMA LeastCount ==
  ASSUME NEW S, S \subseteq Nat, S # {}
  PROVE  \E k \in S : \A l \in S : k <= l
<1> DEFINE R == OpToRel(<, Nat)
<1>1. IsWellFoundedOn(R, Nat)
  BY NatLessThanWellFounded
<1>2. \A x, y \in Nat : x < y => <<x, y>> \in R
  BY DEF OpToRel
<1> HIDE DEF R
<1>3. PICK x \in S : \A y \in S : ~(<<y, x>> \in R)
  BY <1>1, WFMin, Zenon
<1>4. \A y \in S : ~(y < x)
  BY <1>2, <1>3
<1>5. QED
  BY <1>4

\* The order a fold takes next.
FirstOf(s) == CHOOSE w \in s : TRUE

\* it[s] is the sum of f over s, for the sets s of D, taken in the fold's order.
Adds(it, D, f) ==
  it = [s \in D |-> IF s = {} THEN 0 ELSE f[FirstOf(s)] + it[s \ {FirstOf(s)}]]

\* The sets of at most n orders.
UpTo(n) == {s \in SUBSET Orders : Cardinality(s) <= n}

\* A set of orders without one of its members is a smaller one.
LEMMA Smaller ==
  ASSUME NEW s \in SUBSET Orders
  PROVE  /\ IsFiniteSet(s) /\ Cardinality(s) \in Nat /\ Cardinality(s) <= Cardinality(Orders)
         /\ s # {} => /\ FirstOf(s) \in s /\ s \ {FirstOf(s)} \in SUBSET Orders
                      /\ Cardinality(s) > 0
                      /\ Cardinality(s \ {FirstOf(s)}) = Cardinality(s) - 1
<1>1. IsFiniteSet(s) /\ Cardinality(s) \in Nat /\ Cardinality(s) <= Cardinality(Orders)
  BY OpsAssumption, FS_Subset, FS_CardinalityType
<1>2. s # {} => FirstOf(s) \in s
  BY DEF FirstOf
<1>3. s # {} => Cardinality(s) # 0
  BY <1>1, FS_EmptySet
<1>4. s # {} => Cardinality(s \ {FirstOf(s)}) = Cardinality(s) - 1
  BY <1>1, <1>2, FS_RemoveElement
<1>5. QED
  BY <1>1, <1>2, <1>3, <1>4

\* The sums of the sets of one order more.
LEMMA AddsOneMore ==
  ASSUME NEW f \in [Orders -> Int], NEW n \in Nat, n > 0,
         NEW g \in [UpTo(n - 1) -> Int], Adds(g, UpTo(n - 1), f)
  PROVE  \E h \in [UpTo(n) -> Int] : Adds(h, UpTo(n), f)
<1> DEFINE h == [s \in UpTo(n) |-> IF s = {} THEN 0 ELSE f[FirstOf(s)] + g[s \ {FirstOf(s)}]]
<1>1. \A s \in UpTo(n) : s # {} => /\ FirstOf(s) \in Orders
                                   /\ s \ {FirstOf(s)} \in UpTo(n - 1)
                                   /\ s \ {FirstOf(s)} \in UpTo(n)
  BY Smaller DEF UpTo
<1>2. h \in [UpTo(n) -> Int]
  BY <1>1
<1>3. \A s \in UpTo(n - 1) : s \in UpTo(n) /\ h[s] = g[s]
  <2> TAKE s \in UpTo(n - 1)
  <2>1. s \in UpTo(n)
    <3>1. s \in SUBSET Orders /\ Cardinality(s) <= n - 1
      BY DEF UpTo
    <3>2. Cardinality(s) \in Nat
      BY <3>1, Smaller
    <3>3. QED
      BY <3>1, <3>2 DEF UpTo
  <2>2. g[s] = IF s = {} THEN 0 ELSE f[FirstOf(s)] + g[s \ {FirstOf(s)}]
    BY DEF Adds
  <2>3. QED
    BY <2>1, <2>2
<1>4. \A s \in UpTo(n) : h[s] = IF s = {} THEN 0 ELSE f[FirstOf(s)] + h[s \ {FirstOf(s)}]
  BY <1>1, <1>3
<1>5. Adds(h, UpTo(n), f)
  BY <1>2, <1>4 DEF Adds
<1>6. QED
  BY <1>2, <1>5

\* The fold over the orders is defined.
LEMMA AddsExists ==
  ASSUME NEW f \in [Orders -> Int]
  PROVE  \E it \in [SUBSET Orders -> Int] : Adds(it, SUBSET Orders, f)
<1> DEFINE Missing == {n \in Nat : ~ \E g \in [UpTo(n) -> Int] : Adds(g, UpTo(n), f)}
<1>1. 0 \notin Missing
  <2> DEFINE g == [s \in UpTo(0) |-> 0]
  <2>1. ASSUME NEW s \in UpTo(0) PROVE s = {}
    <3>1. s \in SUBSET Orders /\ Cardinality(s) <= 0
      BY DEF UpTo
    <3>2. Cardinality(s) \in Nat /\ IsFiniteSet(s)
      BY <3>1, Smaller
    <3>3. Cardinality(s) = 0
      BY <3>1, <3>2
    <3>4. QED
      BY <3>2, <3>3, FS_EmptySet
  <2>2. g \in [UpTo(0) -> Int] /\ Adds(g, UpTo(0), f)
    BY <2>1 DEF Adds
  <2>3. QED
    BY <2>2
<1>2. Missing = {}
  <2> SUFFICES ASSUME Missing # {} PROVE FALSE
    OBVIOUS
  <2>1. PICK n \in Missing : \A m \in Missing : n <= m
    BY LeastCount
  <2>2. n \in Nat /\ n > 0 /\ n - 1 \in Nat /\ n - 1 \notin Missing
    BY <1>1, <2>1
  <2>3. QED
    BY <2>1, <2>2, AddsOneMore
<1>3. UpTo(Cardinality(Orders)) = SUBSET Orders /\ Cardinality(Orders) \in Nat
  BY Smaller DEF UpTo
<1>4. \E g \in [UpTo(Cardinality(Orders)) -> Int] : Adds(g, UpTo(Cardinality(Orders)), f)
  BY <1>2, <1>3
<1>5. QED
  BY <1>3, <1>4

\* It has one value.
LEMMA AddsUnique ==
  ASSUME NEW f, NEW F, Adds(F, SUBSET Orders, f), NEW G, Adds(G, SUBSET Orders, f)
  PROVE  G = F
<1> DEFINE Sizes == {k \in Nat : \E s \in SUBSET Orders : Cardinality(s) = k /\ F[s] # G[s]}
<1>1. Sizes = {}
  <2> SUFFICES ASSUME Sizes # {} PROVE FALSE
    OBVIOUS
  <2>1. PICK k \in Sizes : \A l \in Sizes : k <= l
    BY LeastCount
  <2>2. PICK s \in SUBSET Orders : Cardinality(s) = k /\ F[s] # G[s]
    OBVIOUS
  <2>3. /\ F[s] = IF s = {} THEN 0 ELSE f[FirstOf(s)] + F[s \ {FirstOf(s)}]
        /\ G[s] = IF s = {} THEN 0 ELSE f[FirstOf(s)] + G[s \ {FirstOf(s)}]
    BY DEF Adds
  <2>4. s # {}
    BY <2>2, <2>3
  <2> DEFINE t == s \ {FirstOf(s)}
  <2>5. t \in SUBSET Orders /\ Cardinality(t) = k - 1 /\ k - 1 \in Nat
    BY <2>2, <2>4, Smaller
  <2>6. F[t] = G[t]
    BY <2>1, <2>5
  <2>7. QED
    BY <2>2, <2>3, <2>4, <2>6
<1>2. \A s \in SUBSET Orders : F[s] = G[s]
  BY <1>1, Smaller
<1>3. F = [s \in SUBSET Orders |-> F[s]] /\ G = [s \in SUBSET Orders |-> G[s]]
  BY DEF Adds
<1>4. QED
  BY <1>2, <1>3

\* F and G are the sums of two functions that differ at order w only.
Differ(f, g, w, F, G) ==
  /\ f \in [Orders -> Int] /\ g \in [Orders -> Int]
  /\ \A v \in Orders : v # w => g[v] = f[v]
  /\ F \in [SUBSET Orders -> Int] /\ Adds(F, SUBSET Orders, f)
  /\ G \in [SUBSET Orders -> Int] /\ Adds(G, SUBSET Orders, g)

\* They differ by as much.
LEMMA AddsDiffer ==
  ASSUME NEW f, NEW g, NEW w \in Orders, NEW F, NEW G, Differ(f, g, w, F, G)
  PROVE  G[Orders] = F[Orders] + (g[w] - f[w])
<1>0. /\ f \in [Orders -> Int] /\ g \in [Orders -> Int]
      /\ \A v \in Orders : v # w => g[v] = f[v]
      /\ F \in [SUBSET Orders -> Int] /\ G \in [SUBSET Orders -> Int]
  BY DEF Differ
<1> DEFINE Off(s) == G[s] # IF w \in s THEN F[s] + (g[w] - f[w]) ELSE F[s]
           Sizes == {k \in Nat : \E s \in SUBSET Orders : Cardinality(s) = k /\ Off(s)}
<1> SUFFICES ASSUME Sizes # {} PROVE FALSE
  BY Smaller
<1>1. PICK k \in Sizes : \A l \in Sizes : k <= l
  BY LeastCount
<1>2. PICK s \in SUBSET Orders : Cardinality(s) = k /\ Off(s)
  OBVIOUS
<1>3. /\ F[s] = IF s = {} THEN 0 ELSE f[FirstOf(s)] + F[s \ {FirstOf(s)}]
      /\ G[s] = IF s = {} THEN 0 ELSE g[FirstOf(s)] + G[s \ {FirstOf(s)}]
  BY DEF Differ, Adds
<1>4. s # {}
  BY <1>2, <1>3
<1> DEFINE x == FirstOf(s)
           t == s \ {FirstOf(s)}
<1>5. x \in s /\ x \in Orders /\ t \in SUBSET Orders /\ Cardinality(t) = k - 1 /\ k - 1 \in Nat
  BY <1>2, <1>4, Smaller
<1>6. ~Off(t)
  BY <1>1, <1>5
<1>7. F[s] = f[x] + F[t] /\ G[s] = g[x] + G[t]
  BY <1>3, <1>4
<1>8. /\ f[x] \in Int /\ g[x] \in Int /\ F[t] \in Int /\ f[w] \in Int /\ g[w] \in Int
      /\ x = w => w \in s /\ w \notin t
      /\ x # w => g[x] = f[x] /\ (w \in s <=> w \in t)
  BY <1>0, <1>5
<1> HIDE DEF x, t, Sizes
<1>9. QED
  BY <1>2, <1>6, <1>7, <1>8

\* The sum of nothing but zeros.
LEMMA AddsZero ==
  ASSUME NEW f \in [Orders -> Int], \A v \in Orders : f[v] = 0,
         NEW F \in [SUBSET Orders -> Int], Adds(F, SUBSET Orders, f)
  PROVE  \A s \in SUBSET Orders : F[s] = 0
<1> DEFINE Sizes == {k \in Nat : \E s \in SUBSET Orders : Cardinality(s) = k /\ F[s] # 0}
<1> SUFFICES ASSUME Sizes # {} PROVE FALSE
  BY Smaller
<1>1. PICK k \in Sizes : \A l \in Sizes : k <= l
  BY LeastCount
<1>2. PICK s \in SUBSET Orders : Cardinality(s) = k /\ F[s] # 0
  OBVIOUS
<1>3. F[s] = IF s = {} THEN 0 ELSE f[FirstOf(s)] + F[s \ {FirstOf(s)}]
  BY DEF Adds
<1>4. s # {}
  BY <1>2, <1>3
<1> DEFINE t == s \ {FirstOf(s)}
<1>5. FirstOf(s) \in Orders /\ t \in SUBSET Orders /\ Cardinality(t) = k - 1 /\ k - 1 \in Nat
  BY <1>2, <1>4, Smaller
<1>6. F[t] = 0
  BY <1>1, <1>5
<1>7. QED
  BY <1>2, <1>3, <1>4, <1>5, <1>6

\* The units of part p the orders took, order by order.
OfPart(t, p) == [w \in Orders |-> t[w][p]]

\* StockConserved's sum is the sum over all orders.
LEMMA TotalAdds ==
  ASSUME NEW t, NEW p, DOMAIN t = Orders, OfPart(t, p) \in [Orders -> Int]
  PROVE  \E it \in [SUBSET Orders -> Int] :
           Adds(it, SUBSET Orders, OfPart(t, p)) /\ UnitsTaken(t, p) = it[Orders]
<1> DEFINE P(it) == it = [s \in SUBSET Orders |->
                           IF s = {} THEN 0
                           ELSE t[CHOOSE w \in s : TRUE][p] + it[s \ {CHOOSE w \in s : TRUE}]]
<1>1. UnitsTaken(t, p) = (CHOOSE it : P(it))[Orders]
  BY DEF UnitsTaken, FoldFunction, FoldFunctionOnSet, MapThenFoldSet
<1>2. ASSUME NEW it PROVE P(it) <=> Adds(it, SUBSET Orders, OfPart(t, p))
  <2>1. \A s \in SUBSET Orders : s # {} => OfPart(t, p)[FirstOf(s)] = t[CHOOSE w \in s : TRUE][p]
    BY Smaller DEF OfPart, FirstOf
  <2>2. [s \in SUBSET Orders |->
           IF s = {} THEN 0
           ELSE t[CHOOSE w \in s : TRUE][p] + it[s \ {CHOOSE w \in s : TRUE}]]
        = [s \in SUBSET Orders |->
             IF s = {} THEN 0 ELSE OfPart(t, p)[FirstOf(s)] + it[s \ {FirstOf(s)}]]
    BY <2>1 DEF FirstOf
  <2>3. QED
    BY <2>2 DEF Adds
<1>3. PICK f \in [SUBSET Orders -> Int] : Adds(f, SUBSET Orders, OfPart(t, p))
  BY AddsExists
<1>4. P(CHOOSE it : P(it))
  <2>1. P(f)
    BY <1>2, <1>3
  <2> HIDE DEF P
  <2>2. QED
    BY <2>1, Zenon
<1> DEFINE it == CHOOSE it : P(it)
<1>5. Adds(it, SUBSET Orders, OfPart(t, p))
  BY <1>2, <1>4
<1>6. it \in [SUBSET Orders -> Int]
  BY <1>3, <1>5, AddsUnique
<1>7. QED
  BY <1>1, <1>5, <1>6

\* What one order takes of p is what the total of p grows by.
LEMMA TotalGrows ==
  ASSUME NEW t \in [Orders -> [Parts -> Int]], NEW u \in [Orders -> [Parts -> Int]],
         NEW p \in Parts, NEW w \in Orders,
         \A v \in Orders : v # w => u[v][p] = t[v][p]
  PROVE  UnitsTaken(u, p) = UnitsTaken(t, p) + (u[w][p] - t[w][p])
<1>1. PICK f \in [Orders -> Int] : f = OfPart(t, p)
  BY DEF OfPart
<1>2. PICK g \in [Orders -> Int] : g = OfPart(u, p)
  BY DEF OfPart
<1>3. f[w] = t[w][p] /\ g[w] = u[w][p]
  BY <1>1, <1>2 DEF OfPart
<1>d. DOMAIN t = Orders /\ DOMAIN u = Orders
  OBVIOUS
<1>v. \A v \in Orders : v # w => g[v] = f[v]
  BY <1>1, <1>2 DEF OfPart
<1>4. PICK F \in [SUBSET Orders -> Int] :
        Adds(F, SUBSET Orders, f) /\ UnitsTaken(t, p) = F[Orders]
  <2>1. OfPart(t, p) \in [Orders -> Int]
    BY DEF OfPart
  <2>2. \E it \in [SUBSET Orders -> Int] :
          Adds(it, SUBSET Orders, OfPart(t, p)) /\ UnitsTaken(t, p) = it[Orders]
    BY <1>d, <2>1, TotalAdds
  <2>3. QED
    BY <1>1, <2>2, Zenon
<1>5. PICK G \in [SUBSET Orders -> Int] :
        Adds(G, SUBSET Orders, g) /\ UnitsTaken(u, p) = G[Orders]
  <2>1. OfPart(u, p) \in [Orders -> Int]
    BY DEF OfPart
  <2>2. \E it \in [SUBSET Orders -> Int] :
          Adds(it, SUBSET Orders, OfPart(u, p)) /\ UnitsTaken(u, p) = it[Orders]
    BY <1>d, <2>1, TotalAdds
  <2>3. QED
    BY <1>2, <2>2, Zenon
<1>6. G[Orders] = F[Orders] + (g[w] - f[w])
  <2>1. Differ(f, g, w, F, G)
    BY <1>v, <1>4, <1>5 DEF Differ
  <2>2. QED
    BY <2>1, AddsDiffer
<1>7. QED
  BY <1>3, <1>4, <1>5, <1>6

\* The total of a part depends on what the orders took of it only.
LEMMA TotalSame ==
  ASSUME NEW t \in [Orders -> [Parts -> Int]], NEW u \in [Orders -> [Parts -> Int]],
         NEW p \in Parts, \A v \in Orders : u[v][p] = t[v][p]
  PROVE  UnitsTaken(t, p) \in Int /\ UnitsTaken(u, p) = UnitsTaken(t, p)
<1>1. OfPart(t, p) \in [Orders -> Int] /\ OfPart(u, p) = OfPart(t, p)
  BY DEF OfPart
<1>2. PICK F \in [SUBSET Orders -> Int] :
        Adds(F, SUBSET Orders, OfPart(t, p)) /\ UnitsTaken(t, p) = F[Orders]
  BY <1>1, TotalAdds
<1>3. PICK G \in [SUBSET Orders -> Int] :
        Adds(G, SUBSET Orders, OfPart(t, p)) /\ UnitsTaken(u, p) = G[Orders]
  BY <1>1, TotalAdds
<1>4. QED
  BY <1>2, <1>3, AddsUnique

\* A part nobody took has the total zero.
LEMMA TotalZero ==
  ASSUME NEW t \in [Orders -> [Parts -> Int]], NEW p \in Parts, \A v \in Orders : t[v][p] = 0
  PROVE  UnitsTaken(t, p) = 0
<1>1. OfPart(t, p) \in [Orders -> Int] /\ \A v \in Orders : OfPart(t, p)[v] = 0
  BY DEF OfPart
<1>2. PICK F \in [SUBSET Orders -> Int] :
        Adds(F, SUBSET Orders, OfPart(t, p)) /\ UnitsTaken(t, p) = F[Orders]
  BY <1>1, TotalAdds
<1>3. QED
  BY <1>1, <1>2, AddsZero

\* A part without a row is on no order and was counted zero times, so that a new
\* row of it starts a new account; units are never negative.
StockInv ==
  /\ stock \in [Parts -> [exists : BOOLEAN, quantity : Nat, minimum : Nat]]
  /\ taken \in [Orders -> [Parts -> Nat]]
  /\ counted \in [Parts -> Int]
  /\ \A p \in Parts : ~stock[p].exists => \A w \in Orders : taken[w][p] = 0
  /\ StockConserved

\* What an operation on part p leaves behind.
StockMoved(p, s, c, t) ==
  /\ stock' = [stock EXCEPT ![p] = s] /\ counted' = [counted EXCEPT ![p] = c]
  /\ taken' = t

\* One part's account is settled by one operation, the others stand.
LEMMA AccountMoves ==
  ASSUME StockInv, NEW p \in Parts, NEW s \in [exists : BOOLEAN, quantity : Nat, minimum : Nat],
         NEW c \in Int, NEW t \in [Orders -> [Parts -> Nat]],
         StockMoved(p, s, c, t),
         \A w \in Orders, q \in Parts : q # p => t[w][q] = taken[w][q],
         ~s.exists => \A w \in Orders : t[w][p] = 0,
         s.quantity + UnitsTaken(t, p) = c
  PROVE  StockInv'
<1>1. /\ stock' \in [Parts -> [exists : BOOLEAN, quantity : Nat, minimum : Nat]]
      /\ taken' = t /\ counted' \in [Parts -> Int]
      /\ stock'[p] = s /\ counted'[p] = c
      /\ \A q \in Parts : q # p => stock'[q] = stock[q] /\ counted'[q] = counted[q]
  BY DEF StockInv, StockMoved
<1>2. ASSUME NEW q \in Parts, ~stock'[q].exists PROVE \A w \in Orders : taken'[w][q] = 0
  <2>1. CASE q = p
    BY <1>1, <1>2, <2>1
  <2>2. CASE q # p
    BY <1>1, <1>2, <2>2 DEF StockInv
  <2>3. QED
    BY <2>1, <2>2
<1>3. \A q \in Parts : q # p => UnitsTaken(t, q) = UnitsTaken(taken, q)
  <2>1. /\ t \in [Orders -> [Parts -> Int]] /\ taken \in [Orders -> [Parts -> Int]]
    BY DEF StockInv
  <2>2. QED
    BY <2>1, TotalSame
<1>4. \A q \in Parts : stock[q].quantity + UnitsTaken(taken, q) = counted[q]
  BY DEF StockInv, StockConserved
<1>5. \A q \in Parts : stock'[q].quantity + UnitsTaken(t, q) = counted'[q]
  BY <1>1, <1>3, <1>4
<1>6. StockConserved'
  BY <1>1, <1>5 DEF StockConserved
<1>7. QED
  BY <1>1, <1>2, <1>6 DEF StockInv

\* Every operation of the desk keeps the accounts of all parts.
LEMMA StockStep == StockInv /\ [OpsNext]_opsVars => StockInv'
<1> SUFFICES ASSUME StockInv, [OpsNext]_opsVars PROVE StockInv'
  OBVIOUS
<1> DEFINE Row == [exists : BOOLEAN, quantity : Nat, minimum : Nat]
<1>0. /\ stock \in [Parts -> Row] /\ taken \in [Orders -> [Parts -> Nat]] /\ counted \in [Parts -> Int]
      /\ \A p \in Parts : ~stock[p].exists => \A w \in Orders : taken[w][p] = 0
      /\ taken \in [Orders -> [Parts -> Int]]
      /\ MaxStock \in Nat
  BY OpsAssumption DEF StockInv
<1>c. \A p \in Parts : stock[p].quantity + UnitsTaken(taken, p) = counted[p] /\ UnitsTaken(taken, p) \in Int
  BY <1>0, TotalSame DEF StockInv, StockConserved
<1>1. CASE UNCHANGED <<stock, taken, counted>>
  BY <1>1 DEF StockInv, StockConserved
<1>2. ASSUME NEW p \in Parts, NEW q \in 0 .. MaxStock, NEW low \in {0, 1}, createSparePart(p, q, low)
      PROVE  StockInv'
  <2>1. PICK s \in Row : s.exists /\ s.quantity = q /\ stock' = [stock EXCEPT ![p] = s]
    <3>1. PICK s : s = [exists |-> TRUE, quantity |-> q, minimum |-> low]
      OBVIOUS
    <3>2. stock' = [stock EXCEPT ![p] = s]
      BY <1>2, <3>1 DEF createSparePart, CreateSparePart
    <3>3. s \in Row /\ s.exists /\ s.quantity = q
      BY <1>0, <3>1
    <3>4. QED
      BY <3>2, <3>3
  <2>2. StockMoved(p, s, q, taken)
    BY <1>2, <2>1 DEF createSparePart, StockMoved
  <2>3. UnitsTaken(taken, p) = 0
    BY <1>0, <1>2, TotalZero DEF createSparePart
  <2>4. QED
    BY <1>0, <2>1, <2>2, <2>3, AccountMoves
<1>3. ASSUME NEW p \in Parts, NEW low \in {0, 1}, updateSparePart(p, low) PROVE StockInv'
  <2>1. PICK s \in Row : /\ s.exists /\ s.quantity = stock[p].quantity
                         /\ stock' = [stock EXCEPT ![p] = s]
    <3>1. PICK s : s = [stock[p] EXCEPT !.minimum = low]
      OBVIOUS
    <3>2. stock' = [stock EXCEPT ![p] = s] /\ stock[p].exists
      BY <1>0, <1>3, <3>1 DEF updateSparePart, UpdateSparePart
    <3>3. stock[p] \in Row
      BY <1>0
    <3>4. s \in Row
      BY <1>0, <3>1, <3>2, <3>3
    <3>5. s.exists
      BY <3>1, <3>2, <3>3
    <3>6. QED
      BY <1>0, <3>1, <3>2, <3>3, <3>4, <3>5
  <2>2. StockMoved(p, s, counted[p], taken)
    BY <1>0, <1>3, <2>1 DEF updateSparePart, StockMoved
  <2>3. QED
    BY <1>0, <1>c, <2>1, <2>2, AccountMoves
<1>4. ASSUME NEW p \in Parts, NEW q \in 0 .. MaxStock, adjustSparePartStock(p, q) PROVE StockInv'
  <2>1. PICK s \in Row : s.exists /\ s.quantity = q /\ stock' = [stock EXCEPT ![p] = s]
    <3>1. PICK s : s = [stock[p] EXCEPT !.quantity = q]
      OBVIOUS
    <3>2. stock' = [stock EXCEPT ![p] = s] /\ stock[p].exists
      BY <1>0, <1>4, <3>1 DEF adjustSparePartStock, AdjustSparePartStock
    <3>3. stock[p] \in Row
      BY <1>0
    <3>4. s \in Row
      BY <1>0, <3>1, <3>2, <3>3
    <3>5. s.exists
      BY <3>1, <3>2, <3>3
    <3>6. QED
      BY <1>0, <3>1, <3>2, <3>3, <3>4, <3>5
  <2>2. PICK c \in Int : c = counted[p] + q - stock[p].quantity
    BY <1>0
  <2>3. StockMoved(p, s, c, taken)
    BY <1>0, <1>4, <2>1, <2>2 DEF adjustSparePartStock, StockMoved
  <2>4. s.quantity + UnitsTaken(taken, p) = c
    BY <1>0, <1>c, <2>1, <2>2
  <2>5. QED
    BY <1>0, <2>1, <2>3, <2>4, AccountMoves
<1>5. ASSUME NEW p \in Parts, deleteSparePart(p) PROVE StockInv'
  <2> DEFINE t == [w \in Orders |-> [taken[w] EXCEPT ![p] = 0]]
  <2>1. NoPart \in Row /\ ~NoPart.exists /\ NoPart.quantity = 0
    BY DEF NoPart
  <2>2. /\ t \in [Orders -> [Parts -> Nat]] /\ t \in [Orders -> [Parts -> Int]]
        /\ \A w \in Orders : t[w][p] = 0
        /\ \A w \in Orders, q \in Parts : q # p => t[w][q] = taken[w][q]
    BY <1>0
  <2>3. StockMoved(p, NoPart, 0, t)
    BY <1>5 DEF deleteSparePart, DeleteSparePart, StockMoved
  <2> HIDE DEF t
  <2>4. UnitsTaken(t, p) = 0
    BY <2>2, TotalZero
  <2>5. QED
    BY <2>1, <2>2, <2>3, <2>4, AccountMoves
<1>6. ASSUME NEW w \in Orders, NEW p \in Parts, NEW n \in 1 .. MaxStock, addWorkOrderPart(w, p, n)
      PROVE  StockInv'
  <2> DEFINE t == [taken EXCEPT ![w][p] = @ + n]
  <2>1. PICK s \in Row : /\ s.exists /\ s.quantity = stock[p].quantity - n
                         /\ stock' = [stock EXCEPT ![p] = s]
    <3>1. PICK s : s = [stock[p] EXCEPT !.quantity = @ - n]
      OBVIOUS
    <3>2. stock' = [stock EXCEPT ![p] = s] /\ stock[p].exists /\ stock[p].quantity >= n
      BY <1>0, <1>6, <3>1 DEF addWorkOrderPart, ConsumePartToWorkOrder
    <3>3. stock[p] \in Row
      BY <1>0
    <3>4. s \in Row
      BY <1>0, <3>1, <3>2, <3>3
    <3>5. s.exists
      BY <3>1, <3>2, <3>3
    <3>6. QED
      BY <1>0, <3>1, <3>2, <3>3, <3>4, <3>5
  <2>2. /\ t \in [Orders -> [Parts -> Nat]] /\ t \in [Orders -> [Parts -> Int]]
        /\ \A v \in Orders : v # w => t[v][p] = taken[v][p]
        /\ t[w][p] = taken[w][p] + n
        /\ \A v \in Orders, q \in Parts : q # p => t[v][q] = taken[v][q]
    BY <1>0
  <2>3. StockMoved(p, s, counted[p], t)
    BY <1>0, <1>6, <2>1 DEF addWorkOrderPart, StockMoved
  <2> HIDE DEF t
  <2>4. UnitsTaken(t, p) = UnitsTaken(taken, p) + n
    <3>1. UnitsTaken(t, p) = UnitsTaken(taken, p) + (t[w][p] - taken[w][p])
      BY <1>0, <2>2, TotalGrows
    <3>2. taken[w][p] \in Int /\ UnitsTaken(taken, p) \in Int
      BY <1>0, <1>c
    <3>3. QED
      BY <2>2, <3>1, <3>2
  <2>5. s.quantity + UnitsTaken(t, p) = counted[p]
    BY <1>0, <1>c, <2>1, <2>4
  <2>6. QED
    BY <1>0, <2>1, <2>2, <2>3, <2>5, AccountMoves
<1>7. QED
  BY <1>1, <1>2, <1>3, <1>4, <1>5, <1>6
     DEF OpsNext, opsVars, createWorkOrder, updateWorkOrder, WriteOrder, RecordEvent

\* No unit is spent twice: what is left of a part and what the work orders took
\* of it are what was counted in, for any number of orders, parts and clerks
\* (addWorkOrderPart, adjustSparePartStock, deleteSparePart).
THEOREM StockAccounted == OpsSpec => []StockConserved
<1>1. OpsInit => StockInv
  <2> SUFFICES ASSUME OpsInit PROVE StockInv
    OBVIOUS
  <2>1. /\ stock \in [Parts -> [exists : BOOLEAN, quantity : Nat, minimum : Nat]]
        /\ taken \in [Orders -> [Parts -> Nat]] /\ taken \in [Orders -> [Parts -> Int]]
        /\ counted \in [Parts -> Int]
        /\ \A w \in Orders, p \in Parts : taken[w][p] = 0
        /\ \A p \in Parts : stock[p].quantity = 0 /\ counted[p] = 0
    BY DEF OpsInit, NoPart
  <2>2. StockConserved
    BY <2>1, TotalZero DEF StockConserved
  <2>3. QED
    BY <2>1, <2>2 DEF StockInv
<1>2. StockInv => StockConserved
  BY DEF StockInv
<1>3. QED
  BY <1>1, <1>2, StockStep, PTL DEF OpsSpec

(* ---- messages: types -------------------------------------------------- *)
LoopPass == [at : {"loop"}, todo : SUBSET Pairs]
LogPass  == [at : {"log"}, todo : SUBSET Pairs, pair : Pairs]

NotifyType ==
  /\ channel \in [Channels -> [exists : BOOLEAN, enabled : BOOLEAN, key : Nat]]
  /\ loaded \in Nat /\ logged \in SUBSET Pairs
  /\ pass \in {Waiting} \cup LoopPass \cup LogPass
  /\ delivered \in [Pairs -> Nat] /\ excused \in [Pairs -> Nat]

(* ---- messages: the inductive invariant -------------------------------- *)
\* The dispatcher has sent p and not yet written its log row.
Unwritten(p) == pass.at = "log" /\ pass.pair = p

\* Another message to p would still be accounted for.
Owed(p) == delivered[p] <= excused[p]

\* OncePerPairUnlessUnlogged counts messages and says nothing of the state that
\* lets the next one out.  A pair of the pass that is not sent yet is owed,
\* although the pass read the log long ago, and so is a pair without a log row
\* while its channel exists: a deletion takes the log rows with it, but a new
\* channel has an id nothing was ever sent to.
NotifyInv ==
  /\ NotifyType
  /\ OncePerPairUnlessUnlogged
  /\ pass # Waiting => \A p \in pass.todo : Owed(p) \/ Unwritten(p)
  /\ \A p \in Pairs : channel[p[1]].exists => p \in logged \/ Owed(p) \/ Unwritten(p)


\* Where the dispatcher is tells which fields it has.
LEMMA PassKinds ==
  ASSUME NotifyType
  PROVE  /\ pass.at = "loop" => pass \in LoopPass /\ pass.todo \in SUBSET Pairs
         /\ pass.at = "log" => pass \in LogPass /\ pass.todo \in SUBSET Pairs /\ pass.pair \in Pairs
         /\ pass.at \notin {"loop", "log"} => pass = Waiting
         /\ Waiting.at = "timer"
<1>1. Waiting.at = "timer"
  BY DEF Waiting
<1>2. \A x \in LoopPass : x.at = "loop" /\ x.todo \in SUBSET Pairs
  BY DEF LoopPass
<1>3. \A x \in LogPass : x.at = "log" /\ x.todo \in SUBSET Pairs /\ x.pair \in Pairs
  BY DEF LogPass
<1> QED
  BY <1>1, <1>2, <1>3 DEF NotifyType

\* The dispatcher's places after a step.
LEMMA PassPlaces ==
  ASSUME NEW S \in SUBSET Pairs
  PROVE  LET loop == [at |-> "loop", todo |-> S]
         IN loop \in LoopPass /\ loop.at = "loop" /\ loop.todo = S
  BY DEF LoopPass

\* Steps outside the dispatcher that make no channel and delete no log row of a
\* channel that is left.
LEMMA OutsideStep ==
  ASSUME NotifyInv, NotifyType', UNCHANGED <<pass, delivered, excused>>,
         \A p \in Pairs : channel'[p[1]].exists => channel[p[1]].exists,
         \A p \in logged : channel'[p[1]].exists => p \in logged'
  PROVE  NotifyInv'
<1>1. \A p \in Pairs : (Owed(p)' <=> Owed(p)) /\ (Unwritten(p)' <=> Unwritten(p))
  BY DEF Owed, Unwritten
<1>2. OncePerPairUnlessUnlogged'
  BY DEF NotifyInv, OncePerPairUnlessUnlogged
<1>3. pass' # Waiting => \A p \in pass'.todo : Owed(p)' \/ Unwritten(p)'
  BY DEF NotifyInv, Owed, Unwritten
<1>4. \A p \in Pairs : channel'[p[1]].exists => p \in logged' \/ Owed(p)' \/ Unwritten(p)'
  BY <1>1 DEF NotifyInv
<1> QED
  BY <1>2, <1>3, <1>4 DEF NotifyInv

\* The start of a pass: what it will send is owed, because the log says so or
\* because it could not be read.
LEMMA ReadStep ==
  ASSUME NotifyInv, dispatchNotifications \/ PairsUnread
  PROVE  NotifyInv'
<1>1. /\ pass = Waiting /\ Waiting.at = "timer"
      /\ delivered \in [Pairs -> Nat] /\ excused \in [Pairs -> Nat]
      /\ UNCHANGED <<loaded, channel, logged, delivered>>
  BY PassKinds DEF NotifyInv, NotifyType, dispatchNotifications, PairsUnread, PassReads
<1>2. PICK S \in SUBSET Pairs :
        /\ pass' = [at |-> "loop", todo |-> S]
        /\ \A p \in S : channel[p[1]].exists
        /\ \/ UNCHANGED excused /\ \A p \in S : p \notin logged
           \/ excused' = [p \in Pairs |-> IF p \in logged THEN excused[p] + 1 ELSE excused[p]]
  <2> DEFINE due(sent) ==
        {p \in Pairs : /\ p[1] \in ListNotificationChannels /\ channel[p[1]].enabled /\ Opens(p[1])
                       /\ p[2] \in ListNotifiableAlerts /\ p \notin sent
                       /\ ShouldNotify(Severity[p[2]], MinSeverity[p[1]],
                                       InQuietHours(QuietStart, QuietEnd, minute))}
  <2>1. \A sent : /\ due(sent) \in SUBSET Pairs
                  /\ \A p \in due(sent) : p \notin sent /\ channel[p[1]].exists
    BY DEF Opens
  <2>2. CASE dispatchNotifications
    <3>1. pass' = [at |-> "loop", todo |-> due(logged)] /\ UNCHANGED excused
      BY <2>2 DEF dispatchNotifications, PassReads, ListSentNotificationPairs
    <3> HIDE DEF due
    <3> QED
      BY <2>1, <3>1
  <2>3. CASE PairsUnread
    <3>1. /\ pass' = [at |-> "loop", todo |-> due({})]
          /\ excused' = [p \in Pairs |-> IF p \in logged THEN excused[p] + 1 ELSE excused[p]]
      BY <2>3 DEF PairsUnread, PassReads
    <3> HIDE DEF due
    <3> QED
      BY <2>1, <3>1
  <2> QED
    BY <2>2, <2>3
<1>3. pass' \in LoopPass /\ pass'.at = "loop" /\ pass'.todo = S
  BY <1>2, PassPlaces
<1>4. excused' \in [Pairs -> Nat] /\ \A p \in Pairs : excused'[p] >= excused[p]
  BY <1>1, <1>2
<1>5. NotifyType'
  BY <1>1, <1>3, <1>4 DEF NotifyInv, NotifyType
<1>6. \A p \in Pairs : ~Unwritten(p) /\ (Owed(p) => Owed(p)')
  BY <1>1, <1>4 DEF Unwritten, Owed
<1>7. OncePerPairUnlessUnlogged'
  BY <1>1, <1>4 DEF NotifyInv, OncePerPairUnlessUnlogged
<1>8. \A p \in S : Owed(p)'
  <2> SUFFICES ASSUME NEW p \in S PROVE Owed(p)'
    OBVIOUS
  <2>1. CASE p \notin logged
    BY <1>2, <1>6, <2>1 DEF NotifyInv
  <2>2. CASE p \in logged
    BY <1>1, <1>2, <2>2 DEF NotifyInv, OncePerPairUnlessUnlogged, Owed
  <2> QED
    BY <2>1, <2>2
<1>9. \A p \in Pairs : channel'[p[1]].exists => p \in logged' \/ Owed(p)'
  BY <1>1, <1>6 DEF NotifyInv
<1> QED
  BY <1>3, <1>5, <1>7, <1>8, <1>9 DEF NotifyInv

\* A message uses up what was owed, and its pair is the one not written yet.
LEMMA SendStep ==
  ASSUME NotifyInv, NEW p \in Pairs, Send(p)
  PROVE  NotifyInv'
<1>1. /\ pass.at = "loop" /\ p \in pass.todo /\ pass # Waiting /\ pass.todo \in SUBSET Pairs
      /\ delivered \in [Pairs -> Nat] /\ excused \in [Pairs -> Nat]
      /\ delivered' = [delivered EXCEPT ![p] = delivered[p] + 1]
      /\ pass' = [at |-> "log", todo |-> pass.todo, pair |-> p]
      /\ UNCHANGED <<loaded, channel, logged, excused>>
  BY PassKinds DEF NotifyInv, NotifyType, Send
<1>2. pass' \in LogPass /\ pass'.at = "log" /\ pass'.todo = pass.todo /\ pass'.pair = p
  BY <1>1 DEF LogPass
<1>3. delivered' \in [Pairs -> Nat]
  BY <1>1
<1>4. NotifyType'
  BY <1>1, <1>2, <1>3 DEF NotifyInv, NotifyType
<1>5. \A q \in Pairs : ~Unwritten(q)
  BY <1>1 DEF Unwritten
<1>6. Owed(p)
  BY <1>1, <1>5 DEF NotifyInv
<1>7. Unwritten(p)' /\ \A q \in Pairs \ {p} : Owed(q) => Owed(q)'
  BY <1>1, <1>2 DEF Unwritten, Owed
<1>8. OncePerPairUnlessUnlogged'
  BY <1>1, <1>6 DEF NotifyInv, OncePerPairUnlessUnlogged, Owed
<1>9. \A q \in pass'.todo : Owed(q)' \/ Unwritten(q)'
  BY <1>1, <1>2, <1>5, <1>7 DEF NotifyInv
<1>10. \A q \in Pairs : channel'[q[1]].exists => q \in logged' \/ Owed(q)' \/ Unwritten(q)'
  BY <1>1, <1>5, <1>7 DEF NotifyInv
<1> QED
  BY <1>4, <1>8, <1>9, <1>10 DEF NotifyInv

\* What follows the send: the log row, or one more excuse.
LEMMA LogStep ==
  ASSUME NotifyInv, InsertNotificationLog \/ LogFails
  PROVE  NotifyInv'
<1>0. PICK p : p = pass.pair
  OBVIOUS
<1>1. /\ pass.at = "log" /\ pass # Waiting /\ p \in Pairs /\ pass.todo \in SUBSET Pairs
      /\ delivered \in [Pairs -> Nat] /\ excused \in [Pairs -> Nat] /\ logged \in SUBSET Pairs
      /\ pass' = [at |-> "loop", todo |-> pass.todo \ {p}]
      /\ UNCHANGED <<loaded, channel, delivered>>
  BY <1>0, PassKinds DEF NotifyInv, NotifyType, InsertNotificationLog, LogFails, Logged
<1>2. \/ logged' = logged \cup {p} /\ UNCHANGED excused
      \/ excused' = [excused EXCEPT ![p] = excused[p] + 1] /\ UNCHANGED logged
  BY <1>0 DEF InsertNotificationLog, LogFails
<1>3. pass' \in LoopPass /\ pass'.at = "loop" /\ pass'.todo = pass.todo \ {p}
  BY <1>1, PassPlaces
<1>4. /\ logged' \in SUBSET Pairs /\ excused' \in [Pairs -> Nat]
      /\ logged \subseteq logged' /\ \A q \in Pairs : excused'[q] >= excused[q]
  BY <1>1, <1>2
<1>5. NotifyType'
  BY <1>1, <1>3, <1>4 DEF NotifyInv, NotifyType
<1>6. \A q \in Pairs : Unwritten(q) => q = p
  BY <1>0 DEF Unwritten
<1>7. \A q \in Pairs : Owed(q) => Owed(q)'
  BY <1>1, <1>4 DEF Owed
<1>8. p \in logged' \/ Owed(p)'
  BY <1>1, <1>2 DEF NotifyInv, OncePerPairUnlessUnlogged, Owed
<1>9. OncePerPairUnlessUnlogged'
  BY <1>1, <1>4 DEF NotifyInv, OncePerPairUnlessUnlogged
<1>10. \A q \in pass'.todo : Owed(q)'
  BY <1>1, <1>3, <1>6, <1>7 DEF NotifyInv
<1>11. \A q \in Pairs : channel'[q[1]].exists => q \in logged' \/ Owed(q)'
  BY <1>1, <1>4, <1>6, <1>7, <1>8 DEF NotifyInv
<1> QED
  BY <1>5, <1>9, <1>10, <1>11 DEF NotifyInv

\* A pass gets shorter, ends, or dies with the process.
LEMMA PassStep ==
  ASSUME NotifyInv,
         \/ \E p \in Pairs : SendFails(p)
         \/ PassEnds
         \/ \E k \in {Locked, 1, 2} : NotifierCrash(k)
  PROVE  NotifyInv'
<1>1. /\ delivered \in [Pairs -> Nat] /\ excused \in [Pairs -> Nat]
      /\ UNCHANGED <<channel, logged, delivered>> /\ loaded' \in Nat
  BY DEF NotifyInv, NotifyType, SendFails, PassEnds, NotifierCrash, Locked
<1>2. CASE \E p \in Pairs : SendFails(p)
  <2>1. PICK p \in Pairs : SendFails(p)
    BY <1>2
  <2>2. /\ pass.at = "loop" /\ pass \in LoopPass /\ pass # Waiting /\ UNCHANGED excused
        /\ pass' = [pass EXCEPT !.todo = pass.todo \ {p}]
    BY <2>1, PassKinds DEF SendFails, NotifyInv
  <2>3. pass' \in LoopPass /\ pass'.at = "loop" /\ pass'.todo = pass.todo \ {p}
    BY <2>2 DEF LoopPass
  <2>4. NotifyType'
    BY <1>1, <2>2, <2>3 DEF NotifyInv, NotifyType
  <2>5. \A q \in Pairs : ~Unwritten(q) /\ (Owed(q)' <=> Owed(q))
    BY <1>1, <2>2 DEF Unwritten, Owed
  <2>6. pass.todo \in SUBSET Pairs
    BY <2>2 DEF LoopPass
  <2>7. \A q \in pass'.todo : Owed(q)'
    BY <2>2, <2>3, <2>5, <2>6 DEF NotifyInv
  <2>8. \A q \in Pairs : channel'[q[1]].exists => q \in logged' \/ Owed(q)'
    BY <1>1, <2>5 DEF NotifyInv
  <2>9. OncePerPairUnlessUnlogged'
    BY <1>1, <2>2 DEF NotifyInv, OncePerPairUnlessUnlogged
  <2> QED
    BY <2>4, <2>7, <2>8, <2>9 DEF NotifyInv
<1>3. CASE PassEnds \/ \E k \in {Locked, 1, 2} : NotifierCrash(k)
  <2>1. /\ pass' = Waiting
        /\ IF pass.at = "log" THEN excused' = [excused EXCEPT ![pass.pair] = @ + 1]
                              ELSE UNCHANGED excused
    BY <1>3 DEF PassEnds, NotifierCrash
  <2>2. pass.at = "log" => pass.pair \in Pairs
    BY PassKinds DEF NotifyInv
  <2>3. /\ excused' \in [Pairs -> Nat] /\ \A q \in Pairs : excused'[q] >= excused[q]
        /\ \A q \in Pairs : Unwritten(q) => excused'[q] = excused[q] + 1
    BY <1>1, <2>1, <2>2 DEF Unwritten
  <2>4. NotifyType'
    BY <1>1, <2>1, <2>3 DEF NotifyInv, NotifyType
  <2>5. \A q \in Pairs : Owed(q) \/ Unwritten(q) => Owed(q)'
    BY <1>1, <2>3 DEF NotifyInv, OncePerPairUnlessUnlogged, Owed
  <2>6. \A q \in Pairs : channel'[q[1]].exists => q \in logged' \/ Owed(q)'
    BY <1>1, <2>5 DEF NotifyInv
  <2>7. OncePerPairUnlessUnlogged'
    BY <1>1, <2>3 DEF NotifyInv, OncePerPairUnlessUnlogged
  <2> QED
    BY <2>1, <2>4, <2>6, <2>7 DEF NotifyInv
<1> QED
  BY <1>2, <1>3

\* A new channel's pairs are owed, since nothing was ever sent to its id.
LEMMA ChannelStep ==
  ASSUME NotifyInv, NEW c \in Channels, createNotificationChannel(c)
  PROVE  NotifyInv'
<1>1. /\ \A a \in Alerts : delivered[<<c, a>>] = 0
      /\ channel' = [channel EXCEPT ![c] = [exists |-> TRUE, enabled |-> TRUE, key |-> loaded]]
      /\ UNCHANGED <<loaded, logged, pass, delivered, excused>>
      /\ delivered \in [Pairs -> Nat] /\ excused \in [Pairs -> Nat] /\ loaded \in Nat
      /\ channel \in [Channels -> [exists : BOOLEAN, enabled : BOOLEAN, key : Nat]]
  BY DEF createNotificationChannel, CreateNotificationChannel, NotifyInv, NotifyType
<1>2. channel' \in [Channels -> [exists : BOOLEAN, enabled : BOOLEAN, key : Nat]]
  BY <1>1
<1>3. NotifyType'
  BY <1>1, <1>2 DEF NotifyInv, NotifyType
<1>4. \A p \in Pairs : (Owed(p)' <=> Owed(p)) /\ (Unwritten(p)' <=> Unwritten(p))
  BY <1>1 DEF Owed, Unwritten
<1>5. \A p \in Pairs : p[1] = c => Owed(p)
  BY <1>1 DEF Pairs, Owed
<1>6. \A p \in Pairs : p[1] # c => channel'[p[1]] = channel[p[1]]
  BY <1>1 DEF Pairs
<1>7. \A p \in Pairs : channel'[p[1]].exists => p \in logged' \/ Owed(p)' \/ Unwritten(p)'
  BY <1>1, <1>4, <1>5, <1>6 DEF NotifyInv
<1>8. OncePerPairUnlessUnlogged'
  BY <1>1 DEF NotifyInv, OncePerPairUnlessUnlogged
<1>9. pass' # Waiting => \A p \in pass'.todo : Owed(p)' \/ Unwritten(p)'
  BY <1>1 DEF NotifyInv, Owed, Unwritten
<1> QED
  BY <1>3, <1>7, <1>8, <1>9 DEF NotifyInv

\* Every step preserves NotifyInv.
LEMMA NotifyStep == NotifyInv /\ [NotifierNext]_notifyVars => NotifyInv'
<1> SUFFICES ASSUME NotifyInv, [NotifierNext]_notifyVars PROVE NotifyInv'
  OBVIOUS
<1>1. /\ channel \in [Channels -> [exists : BOOLEAN, enabled : BOOLEAN, key : Nat]]
      /\ logged \in SUBSET Pairs
  BY DEF NotifyInv, NotifyType
<1>2. ASSUME UNCHANGED <<channel, logged, pass, delivered, excused>>, loaded' \in Nat
      PROVE  NotifyInv'
  BY <1>2, OutsideStep DEF NotifyInv, NotifyType
<1>3. CASE Dispatch
  BY <1>3, ReadStep, SendStep, LogStep, PassStep DEF Dispatch
<1>4. ASSUME NEW k \in {Locked, 1, 2}, NotifierCrash(k) \/ KeyChanges(k) PROVE NotifyInv'
  BY <1>2, <1>4, PassStep DEF KeyChanges, Locked
<1>5. ASSUME NEW c \in Channels, setNotificationChannelEnabled(c) PROVE NotifyInv'
  <2>1. /\ channel' = [channel EXCEPT ![c].enabled = ~channel[c].enabled]
        /\ UNCHANGED <<loaded, logged, pass, delivered, excused>>
    BY <1>5 DEF setNotificationChannelEnabled, SetNotificationChannelEnabled
  <2>2. /\ channel' \in [Channels -> [exists : BOOLEAN, enabled : BOOLEAN, key : Nat]]
        /\ \A d \in Channels : channel'[d].exists = channel[d].exists
    BY <1>1, <2>1
  <2>3. \A p \in Pairs : channel'[p[1]].exists => channel[p[1]].exists
    BY <2>2 DEF Pairs
  <2>4. NotifyType'
    BY <2>1, <2>2 DEF NotifyInv, NotifyType
  <2> QED
    BY <2>1, <2>3, <2>4, OutsideStep
<1>6. ASSUME NEW c \in Channels, deleteNotificationChannel(c) PROVE NotifyInv'
  <2>1. /\ channel' = [channel EXCEPT ![c] = NoChannel] /\ logged' = {p \in logged : p[1] # c}
        /\ UNCHANGED <<loaded, pass, delivered, excused>>
    BY <1>6 DEF deleteNotificationChannel, DeleteNotificationChannel
  <2>2. NoChannel \in [exists : BOOLEAN, enabled : BOOLEAN, key : Nat] /\ ~NoChannel.exists
    BY DEF NoChannel, Locked
  <2>3. /\ channel' \in [Channels -> [exists : BOOLEAN, enabled : BOOLEAN, key : Nat]]
        /\ \A d \in Channels : channel'[d].exists => d # c /\ channel[d].exists
    BY <1>1, <2>1, <2>2
  <2>4. \A p \in Pairs : channel'[p[1]].exists => channel[p[1]].exists /\ p[1] # c
    BY <2>3 DEF Pairs
  <2>5. NotifyType' /\ \A p \in logged : channel'[p[1]].exists => p \in logged'
    BY <1>1, <2>1, <2>3, <2>4 DEF NotifyInv, NotifyType
  <2> QED
    BY <2>1, <2>4, <2>5, OutsideStep
<1>7. ASSUME NEW c \in Channels, createNotificationChannel(c) PROVE NotifyInv'
  BY <1>7, ChannelStep
<1>8. CASE \/ \E a \in Alerts : AlertOpens(a) \/ AlertResolves(a) \/ AlertAges(a)
           \/ Tick \/ UNCHANGED notifyVars
  <2>1. UNCHANGED <<loaded, channel, logged, pass, delivered, excused>>
    BY <1>8 DEF AlertOpens, AlertResolves, AlertAges, Tick, notifyVars
  <2> QED
    BY <1>2, <2>1 DEF NotifyInv, NotifyType
<1> QED
  BY <1>3, <1>4, <1>5, <1>6, <1>7, <1>8 DEF NotifierNext

\* The log keeps an alert from being sent twice to a channel, however crashes,
\* failed statements, key changes, deletions and new channels fall between the
\* steps of a pass (dispatchNotifications): a second message is one the log
\* could not tell of.
THEOREM OncePerPair == NotifierSpec => []OncePerPairUnlessUnlogged
<1>1. NotifierInit => NotifyInv
  <2> SUFFICES ASSUME NotifierInit PROVE NotifyInv
    OBVIOUS
  <2>1. NoChannel \in [exists : BOOLEAN, enabled : BOOLEAN, key : Nat] /\ ~NoChannel.exists
    BY DEF NoChannel, Locked
  <2>2. NotifyType
    BY <2>1 DEF NotifierInit, NotifyType, Locked
  <2>3. OncePerPairUnlessUnlogged /\ \A p \in Pairs : Owed(p)
    BY DEF NotifierInit, OncePerPairUnlessUnlogged, Owed
  <2> QED
    BY <2>2, <2>3 DEF NotifierInit, NotifyInv
<1>2. NotifyInv => OncePerPairUnlessUnlogged
  BY DEF NotifyInv
<1> QED
  BY <1>1, <1>2, NotifyStep, PTL DEF NotifierSpec
=============================================================================
