------------------------------- MODULE Access -------------------------------
(***************************************************************************)
(* Operator accounts: users, roles and permissions (admin.go), passwords,  *)
(* sessions and the switch between open mode and enforcement (auth.go).    *)
(* The process reads and writes the tables one statement at a time, so a   *)
(* login, a password change and a change of roles interleave; a request is *)
(* authorised once, by the middleware, before its handler runs.            *)
(* A password is its version, 0 when none is set; a session remembers the  *)
(* version its login verified (a ghost).  Permissions are abstracted to    *)
(* rbac.manage, which stands for all others too, and one ordinary one.     *)
(***************************************************************************)
EXTENDS Naturals, FiniteSets

CONSTANTS Users, Roles, Tokens,
          Desks,          \* concurrent requests
          Bootstrap,      \* the user the environment may name at a start
          MaxPassword     \* bound: versions of a password

NoUser == "nobody"
Perms  == {"rbac.manage", "devices.read"}

\* The tables are finite, and the bootstrap user is a user.
ASSUME AccessAssumption ==
  /\ IsFiniteSet(Users) /\ Bootstrap \in Users /\ NoUser \notin Users
  /\ MaxPassword \in Nat

Admin  == CHOOSE r \in Roles : TRUE        \* the role named admin

VARIABLES running,    \* the API process serves requests
          authActive, \* Server.authActive: enforcement is on
          user,       \* table users
          roleExists, rolePerm,            \* tables roles, role_permissions
          userRole,                        \* table user_roles
          session,    \* table sessions, by token
          desk,       \* the request of each desk
          spared      \* ghost: tokens a revocation could not reach

accessVars == <<running, authActive, user, roleExists, rolePerm, userRole,
                session, desk, spared>>

NoRow     == [exists |-> FALSE, active |-> FALSE, password |-> 0]
NoSession == [owner |-> NoUser, verified |-> 0, expired |-> FALSE]
Quiet     == [op |-> "quiet"]

Live(t) == session[t].owner # NoUser
(* ---- statements ------------------------------------------------------- *)
CountUsersWithPassword == Cardinality({u \in Users : user[u].password # 0})
\* Permissions a user holds through any role.
PermissionsForUser(u) == UNION {rolePerm[r] : r \in userRole[u]}
\* A token resolves while its session has not expired.
GetSession(t) == Live(t) /\ ~session[t].expired
\* ON DELETE CASCADE: a user's sessions and role memberships go too.
DeleteUserSessions(u) == [t \in Tokens |-> IF session[t].owner = u THEN NoSession ELSE session[t]]
DeleteExpiredSessions == [t \in Tokens |-> IF session[t].expired THEN NoSession ELSE session[t]]
CreateSession(u, t, v) ==
  [session EXCEPT ![t] = [owner |-> u, verified |-> v, expired |-> FALSE]]
DeleteSession(t)      == [session EXCEPT ![t] = NoSession]
GetUserByUsername(u)  == user[u].exists /\ user[u].active
SetUserPassword(u)    == IF user[u].exists THEN [user EXCEPT ![u].password = @ + 1] ELSE user
AddUserRole(u, r)     == [userRole EXCEPT ![u] = @ \cup {r}]
SetUserRolesClear(u)  == [userRole EXCEPT ![u] = {}]
SetRolePermissionsClear(r) == [rolePerm EXCEPT ![r] = {}]
AddRolePermission(r, p)    == [rolePerm EXCEPT ![r] = @ \cup {p}]
CreateUser(u, active) == [user EXCEPT ![u] = [exists |-> TRUE, active |-> active, password |-> 0]]
UpdateUser(u)         == [user EXCEPT ![u].active = ~@]
DeleteUser(u)         == [user EXCEPT ![u] = NoRow]
CreateRole(r)         == [roleExists EXCEPT ![r] = TRUE]
DeleteRole(r)         == [roleExists EXCEPT ![r] = FALSE]

(* ---- the middleware --------------------------------------------------- *)
\* resolveSession: the session's user must still be active.
resolveSession(t) == GetSession(t) /\ user[session[t].owner].active
\* identity.can, with rbac.manage standing for every permission.
can(t, perm) == PermissionsForUser(session[t].owner) \cap {perm, "rbac.manage"} # {}
\* A request on an /rbac route gets past the middleware.
Allowed(perm) == \/ ~authActive
                 \/ \E t \in Tokens : resolveSession(t) /\ can(t, perm)
Open(k)  == running /\ desk[k] = Quiet
At(k, o) == running /\ desk[k].op = o
Close(k) == desk' = [desk EXCEPT ![k] = Quiet]
-----------------------------------------------------------------------------
(* Sessions.                                                               *)

\* login: the account is read and its password verified ...
login(k, u, t) ==
  /\ Open(k) /\ ~Live(t)
  /\ \A d \in Desks : desk[d].op = "login" => desk[d].token # t
  /\ GetUserByUsername(u) /\ user[u].password # 0
  /\ desk' = [desk EXCEPT ![k] = [op |-> "login", who |-> u, token |-> t,
                                  verified |-> user[u].password]]
  /\ spared' = spared \ {t}
  /\ UNCHANGED <<running, authActive, user, roleExists, rolePerm, userRole, session>>

\* ... and only then the session is stored (the user may be gone by now).
LoginStores(k) ==
  /\ At(k, "login")
  /\ session' = IF user[desk[k].who].exists
                THEN CreateSession(desk[k].who, desk[k].token, desk[k].verified) ELSE session
  /\ Close(k)
  /\ UNCHANGED <<running, authActive, user, roleExists, rolePerm, userRole, spared>>

logout(t) ==
  /\ running /\ Live(t)
  /\ session' = DeleteSession(t)
  /\ UNCHANGED <<running, authActive, user, roleExists, rolePerm, userRole, desk, spared>>

\* sessionTTL passes.
Expire(t) ==
  /\ Live(t) /\ ~session[t].expired
  /\ session' = [session EXCEPT ![t].expired = TRUE]
  /\ UNCHANGED <<running, authActive, user, roleExists, rolePerm, userRole, desk, spared>>

StartSessionGC ==
  /\ running /\ \E t \in Tokens : session[t].expired
  /\ session' = DeleteExpiredSessions
  /\ UNCHANGED <<running, authActive, user, roleExists, rolePerm, userRole, desk, spared>>
-----------------------------------------------------------------------------
(* Passwords.                                                              *)

\* A login under way for u will be overtaken by a new password.
Overtaken(u) == {desk[d].token : d \in {e \in Desks : desk[e].op = "login" /\ desk[e].who = u}}

TokensOf(us) == {t \in Tokens : session[t].owner \in us}
Revoking     == {k \in Desks : desk[k].op \in {"revoke", "revokeAndEnforce"}}

\* changePassword: the user's own session, the current password, the UPDATE.
changePassword(k, t) ==
  /\ Open(k) /\ resolveSession(t)
  /\ authActive                            \* open mode carries no identity
  /\ LET u == session[t].owner IN
     /\ user[u].password \in 1 .. MaxPassword - 1
     /\ user' = SetUserPassword(u)
     /\ spared' = spared \cup Overtaken(u)
     /\ desk' = [desk EXCEPT ![k] = [op |-> "revoke", who |-> u]]
  /\ UNCHANGED <<running, authActive, roleExists, rolePerm, userRole, session>>

\* adminSetPassword: an UPDATE that a missing user does not refuse.
adminSetPassword(k, u) ==
  /\ Open(k) /\ Allowed("rbac.manage")
  /\ user[u].password < MaxPassword
  /\ user' = SetUserPassword(u)
  /\ spared' = spared \cup Overtaken(u)
  /\ desk' = [desk EXCEPT ![k] = [op |-> "revokeAndEnforce", who |-> u]]
  /\ UNCHANGED <<running, authActive, roleExists, rolePerm, userRole, session>>

\* Mutant: the password is changed and the other sessions are kept.
RevokeSessions_Keep(k) ==
  /\ running /\ desk[k].op \in {"revoke", "revokeAndEnforce"}
  /\ session' = session
  /\ IF desk[k].op = "revoke" THEN Close(k)
     ELSE desk' = [desk EXCEPT ![k] = [op |-> "enforce"]]
  /\ UNCHANGED <<running, authActive, user, roleExists, rolePerm, userRole, spared>>

\* DeleteUserSessions after either; its error is ignored.
RevokeSessions(k) ==
  /\ running /\ desk[k].op \in {"revoke", "revokeAndEnforce"}
  /\ \/ session' = DeleteUserSessions(desk[k].who) /\ UNCHANGED spared
     \/ spared' = spared \cup TokensOf({desk[k].who}) /\ UNCHANGED session
  /\ IF desk[k].op = "revoke" THEN Close(k)
     ELSE desk' = [desk EXCEPT ![k] = [op |-> "enforce"]]
  /\ UNCHANGED <<running, authActive, user, roleExists, rolePerm, userRole>>

\* authActive.Store(true).
Enforce(k) ==
  /\ At(k, "enforce")
  /\ authActive' = TRUE
  /\ Close(k)
  /\ UNCHANGED <<running, user, roleExists, rolePerm, userRole, session, spared>>
-----------------------------------------------------------------------------
(* Users, roles, permissions.                                              *)

createUser(u, active) ==
  /\ running /\ Allowed("rbac.manage") /\ ~user[u].exists
  /\ user' = CreateUser(u, active)
  /\ UNCHANGED <<running, authActive, roleExists, rolePerm, userRole, session, desk, spared>>

updateUser(u) ==
  /\ running /\ Allowed("rbac.manage") /\ user[u].exists
  /\ user' = UpdateUser(u)
  /\ UNCHANGED <<running, authActive, roleExists, rolePerm, userRole, session, desk, spared>>

deleteUser(u) ==
  /\ running /\ Allowed("rbac.manage") /\ user[u].exists
  /\ user' = DeleteUser(u)
  /\ session' = DeleteUserSessions(u)
  /\ userRole' = SetUserRolesClear(u)
  /\ spared' = spared \cup Overtaken(u)
  /\ UNCHANGED <<running, authActive, roleExists, rolePerm, desk>>

\* setUserRoles: clear, then one INSERT per role, in no transaction.
setUserRoles(k, u, rs) ==
  /\ Open(k) /\ Allowed("rbac.manage")
  /\ userRole' = SetUserRolesClear(u)
  /\ desk' = [desk EXCEPT ![k] = [op |-> "roles", who |-> u, todo |-> rs]]
  /\ UNCHANGED <<running, authActive, user, roleExists, rolePerm, session, spared>>

\* A missing user or role breaks the foreign key, and the loop stops there.
SetUserRolesAdd(k) ==
  /\ At(k, "roles")
  /\ IF desk[k].todo = {} THEN Close(k) /\ UNCHANGED userRole
     ELSE LET r == CHOOSE x \in desk[k].todo : TRUE IN
          IF user[desk[k].who].exists /\ roleExists[r]
          THEN /\ userRole' = AddUserRole(desk[k].who, r)
               /\ desk' = [desk EXCEPT ![k].todo = @ \ {r}]
          ELSE Close(k) /\ UNCHANGED userRole
  /\ UNCHANGED <<running, authActive, user, roleExists, rolePerm, session, spared>>

createRole(r) ==
  /\ running /\ Allowed("rbac.manage") /\ ~roleExists[r]
  /\ roleExists' = CreateRole(r)
  /\ UNCHANGED <<running, authActive, user, rolePerm, userRole, session, desk, spared>>

deleteRole(r) ==
  /\ running /\ Allowed("rbac.manage") /\ roleExists[r]
  /\ roleExists' = DeleteRole(r)
  /\ rolePerm' = SetRolePermissionsClear(r)
  /\ userRole' = [u \in Users |-> userRole[u] \ {r}]
  /\ UNCHANGED <<running, authActive, user, session, desk, spared>>

\* setRolePermissions: clear, then one INSERT per permission.
setRolePermissions(k, r, ps) ==
  /\ Open(k) /\ Allowed("rbac.manage")
  /\ rolePerm' = SetRolePermissionsClear(r)
  /\ desk' = [desk EXCEPT ![k] = [op |-> "perms", role |-> r, todo |-> ps]]
  /\ UNCHANGED <<running, authActive, user, roleExists, userRole, session, spared>>

SetRolePermissionsAdd(k) ==
  /\ At(k, "perms")
  /\ IF desk[k].todo = {} \/ ~roleExists[desk[k].role] THEN Close(k) /\ UNCHANGED rolePerm
     ELSE LET p == CHOOSE x \in desk[k].todo : TRUE IN
          /\ rolePerm' = AddRolePermission(desk[k].role, p)
          /\ desk' = [desk EXCEPT ![k].todo = @ \ {p}]
  /\ UNCHANGED <<running, authActive, user, roleExists, userRole, session, spared>>
-----------------------------------------------------------------------------
(* The process.                                                            *)

AccessCrash ==
  /\ running
  /\ running' = FALSE /\ authActive' = FALSE
  /\ desk' = [k \in Desks |-> Quiet]
  /\ spared' = spared \cup TokensOf({desk[k].who : k \in Revoking})
  /\ UNCHANGED <<user, roleExists, rolePerm, userRole, session>>

\* Mutant: enforcement waits for an active user with a password.
BootstrapAdmin_ActiveOnly(named) ==
  /\ ~running /\ running' = TRUE
  /\ CountUsersWithPassword > 0 \/ named = NoUser
  /\ authActive' = (\E u \in Users : user[u].active /\ user[u].password # 0)
  /\ UNCHANGED <<user, roleExists, rolePerm, userRole, session, desk, spared>>

\* BootstrapAdmin(named), before the server listens: enforcement is on when any
\* password exists; otherwise the named user is created or adopted, granted
\* the admin role with every permission, and given a password.
BootstrapAdmin(named) ==
  /\ ~running /\ running' = TRUE
  /\ IF CountUsersWithPassword > 0 \/ named = NoUser
     THEN /\ authActive' = (CountUsersWithPassword > 0)
          /\ UNCHANGED <<user, roleExists, rolePerm, userRole>>
     ELSE /\ authActive' = TRUE
          /\ user' = [user EXCEPT ![named] =
                        [exists |-> TRUE, active |-> @.active \/ ~@.exists, password |-> 1]]
          /\ roleExists' = CreateRole(Admin)
          /\ rolePerm' = [rolePerm EXCEPT ![Admin] = Perms]
          /\ userRole' = AddUserRole(named, Admin)
  /\ UNCHANGED <<session, desk, spared>>
-----------------------------------------------------------------------------
AccessInit ==
  /\ running = FALSE /\ authActive = FALSE
  /\ user = [u \in Users |-> NoRow]
  /\ roleExists = [r \in Roles |-> FALSE] /\ rolePerm = [r \in Roles |-> {}]
  /\ userRole = [u \in Users |-> {}]
  /\ session = [t \in Tokens |-> NoSession]
  /\ desk = [k \in Desks |-> Quiet]
  /\ spared = {}

AccessNext ==
  \/ \E k \in Desks :
        \/ \E u \in Users, t \in Tokens : login(k, u, t)
        \/ LoginStores(k) \/ RevokeSessions(k) \/ Enforce(k)
        \/ \E t \in Tokens : changePassword(k, t)
        \/ \E u \in Users : adminSetPassword(k, u) \/ \E rs \in SUBSET Roles : setUserRoles(k, u, rs)
        \/ \E r \in Roles, ps \in SUBSET Perms : setRolePermissions(k, r, ps)
        \/ SetUserRolesAdd(k) \/ SetRolePermissionsAdd(k)
  \/ \E t \in Tokens : logout(t) \/ Expire(t)
  \/ StartSessionGC
  \/ \E u \in Users : updateUser(u) \/ deleteUser(u) \/ \E a \in BOOLEAN : createUser(u, a)
  \/ \E r \in Roles : createRole(r) \/ deleteRole(r)
  \/ AccessCrash \/ BootstrapAdmin(Bootstrap) \/ BootstrapAdmin(NoUser)

AccessSpec == AccessInit /\ [][AccessNext]_accessVars
-----------------------------------------------------------------------------
\* The promise of authMiddleware's comment, "while NO user has a password set
\* yet": across restarts, bootstraps and deletions the API is in open mode
\* only while no account has a password, up to the moment between the first
\* password's UPDATE and the switch.
OpenOnlyWithoutPasswords ==
  running /\ ~authActive /\ CountUsersWithPassword > 0
    => \E k \in Desks : desk[k].op \in {"revokeAndEnforce", "enforce"}

\* changePassword and adminSetPassword end the account's other sessions: once
\* the revocation has run no session rests on an earlier password, except one
\* it could not reach: a login that had verified the old password and not yet
\* stored its session, or a revocation that failed or was cut by a crash.
SessionsFollowPassword ==
  \A t \in Tokens :
    Live(t) => \/ session[t].verified = user[session[t].owner].password
               \/ t \in spared
               \/ \E k \in Revoking : desk[k].who = session[t].owner
=============================================================================
