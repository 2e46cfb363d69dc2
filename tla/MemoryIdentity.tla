--------------------------- MODULE MemoryIdentity ---------------------------
(***************************************************************************)
(* The identity store of development mode (internal/store: identity.go,    *)
(* memory.go, access_tokens.go).  A mutex makes an operation one step.     *)
(* Three operations hash a password without holding it and are two steps:  *)
(* what the first step read is checked again by the second.                *)
(* A call that is refused changes nothing unless an action says so.        *)
(***************************************************************************)
EXTENDS Identity

\* validateSetupLocked.
SetupOpen == setup = 0 /\ NoUsers

memorySetupAdmin(q, u) ==
    /\ SetupOpen /\ Begin(q, [op |-> "setup", user |-> u])
    /\ UNCHANGED <<users, cred, member, setup>>

\* Variant: what was read before the hashing is not checked again.
memorySetupCommitUnchecked(q) ==
    /\ call[q].op = "setup" /\ End(q)
    /\ users' = [users EXCEPT ![call[q].user] = NewAccount(TRUE)]
    /\ setup' = setup + 1
    /\ UNCHANGED <<cred, member>>

memorySetupCommit(q) ==
    /\ call[q].op = "setup" /\ End(q)
    /\ IF SetupOpen
       THEN /\ users' = [users EXCEPT ![call[q].user] = NewAccount(TRUE)]
            /\ setup' = setup + 1
       ELSE UNCHANGED <<users, setup>>
    /\ UNCHANGED <<cred, member>>

\* The password is compared with the hash that was read.
memoryLogin(q, u) ==
    /\ Active(u) /\ Begin(q, [op |-> "login", user |-> u, pw |-> users[u].pw])
    /\ UNCHANGED <<users, cred, member, setup>>

memoryLoginCommit(q) ==
    LET u == call[q].user IN
    /\ call[q].op = "login" /\ End(q)
    /\ IF Active(u) /\ users[u].pw = call[q].pw
       THEN Issue("session", u, users[u])
       ELSE UNCHANGED cred
    /\ UNCHANGED <<users, member, setup>>

\* A session that does not authenticate any more is removed.
memoryAuthenticateSession(k) ==
    /\ k \in DOMAIN cred /\ cred[k].kind = "session" /\ ~Usable(k, "session")
    /\ cred' = DeadAt(k)
    /\ UNCHANGED <<users, member, setup, call>>

memoryRecoverSession(k) ==
    /\ k \in DOMAIN cred /\ Usable(k, "session") /\ Len(cred) < MaxCredentials
    /\ cred' = Rotated(k)
    /\ UNCHANGED <<users, member, setup, call>>

memoryLogout(k) ==
    /\ k \in DOMAIN cred /\ cred[k].kind = "session"
    /\ cred' = DeadAt(k)
    /\ UNCHANGED <<users, member, setup, call>>

memoryCreateUser(a, u, admin) ==
    /\ requirePlatformAdmin(a) /\ users[u].status = "none"
    /\ users' = [users EXCEPT ![u] = NewAccount(admin)]
    /\ UNCHANGED <<cred, member, setup, call>>

\* The account after an update of status and roles.
Updated(account, status, admin) ==
    [account EXCEPT !.status = status, !.admin = admin,
                    !.epoch = IF status = "disabled" /\ account.status = "active" THEN @ + 1 ELSE @]
Disables(u, status) == Active(u) /\ status = "disabled"
RemovesActiveAdmin(u, status, admin) ==
    requirePlatformAdmin(u) /\ (status # "active" \/ ~admin)

\* Variant: an account that is disabled keeps its API and console tokens.
memoryUpdateUserKeepsTokens(a, u, status, admin) ==
    /\ requirePlatformAdmin(a) /\ users[u].status # "none"
    /\ RemovesActiveAdmin(u, status, admin) => Cardinality(Admins) > 1
    /\ Disables(u, status) => Total("epoch") < MaxDisables
    /\ users' = [users EXCEPT ![u] = Updated(@, status, admin)]
    /\ cred' = (IF status # "active" THEN RevokedOf(u, {"session", "reset"}) ELSE cred)
    /\ UNCHANGED <<member, setup, call>>

memoryUpdateUser(a, u, status, admin) ==
    /\ requirePlatformAdmin(a) /\ users[u].status # "none"
    /\ RemovesActiveAdmin(u, status, admin) => Cardinality(Admins) > 1
    /\ Disables(u, status) => Total("epoch") < MaxDisables
    /\ users' = [users EXCEPT ![u] = Updated(@, status, admin)]
    /\ cred' = (IF status # "active" THEN RevokedOf(u, Kinds) ELSE cred)
    /\ UNCHANGED <<member, setup, call>>

memoryIssuePasswordResetToken(a, u) ==
    /\ requirePlatformAdmin(a) /\ Active(u)
    /\ Issue("reset", u, users[u])
    /\ UNCHANGED <<users, member, setup, call>>

\* A token that is not valid is removed, by the first check or the second.
memoryResetPassword(q, k) ==
    /\ k \in DOMAIN cred /\ cred[k].kind = "reset" /\ call[q] = NoCall
    /\ IF Usable(k, "reset")
       THEN Begin(q, [op |-> "reset", key |-> k]) /\ UNCHANGED cred
       ELSE cred' = DeadAt(k) /\ UNCHANGED call
    /\ UNCHANGED <<users, member, setup>>

memoryResetCommit(q) ==
    LET k == call[q].key
        u == cred[k].user
    IN  /\ call[q].op = "reset" /\ End(q)
        /\ IF Usable(k, "reset")
           THEN /\ Total("pw") < MaxResets
                /\ users' = [users EXCEPT ![u].pw = @ + 1]
                /\ cred' = Consumed(RevokedOf(u, Kinds), k)
           ELSE cred' = DeadAt(k) /\ UNCHANGED users
        /\ UNCHANGED <<member, setup>>

memoryPutServerMembership(a, u, permissions) ==
    /\ requirePlatformAdmin(a) /\ Active(u)
    /\ member' = [member EXCEPT ![u] = permissions]
    /\ UNCHANGED <<users, cred, setup, call>>

memoryDeleteServerMembership(a, u) ==
    /\ requirePlatformAdmin(a) /\ member[u] # {}
    /\ member' = [member EXCEPT ![u] = {}]
    /\ UNCHANGED <<users, cred, setup, call>>

memoryCreateAPIToken(u) ==
    /\ Active(u) /\ Issue("api", u, users[u])
    /\ UNCHANGED <<users, member, setup, call>>

memoryRevokeAPIToken(k) ==
    /\ k \in DOMAIN cred /\ cred[k].kind = "api" /\ Active(cred[k].user)
    /\ cred' = DeadAt(k)
    /\ UNCHANGED <<users, member, setup, call>>

memoryIssueConsoleConnectionToken(u) ==
    /\ AuthorizeServer(u, "servers.console") /\ Issue("console", u, users[u])
    /\ UNCHANGED <<users, member, setup, call>>

\* The token is gone whether or not the connection is allowed.
memoryConsumeConsoleConnectionToken(k) ==
    /\ k \in DOMAIN cred /\ cred[k].kind = "console" /\ cred[k].state # "dead"
    /\ cred' = (IF Live(k, "console") /\ AuthorizeServer(cred[k].user, "servers.console")
                THEN Consumed(cred, k) ELSE DeadAt(k))
    /\ UNCHANGED <<users, member, setup, call>>

MemoryIdentityNext ==
    /\ store = "memory" /\ UNCHANGED store
    /\ \/ \E q \in Calls, u \in People : memorySetupAdmin(q, u) \/ memoryLogin(q, u)
       \/ \E q \in Calls, k \in DOMAIN cred : memoryResetPassword(q, k)
       \/ \E q \in Calls : memorySetupCommit(q) \/ memoryLoginCommit(q) \/ memoryResetCommit(q)
       \/ \E k \in DOMAIN cred :
             \/ memoryAuthenticateSession(k) \/ memoryRecoverSession(k) \/ memoryLogout(k)
             \/ memoryRevokeAPIToken(k) \/ memoryConsumeConsoleConnectionToken(k)
             \/ Expires(k)
       \/ \E a, u \in People :
             \/ \E admin \in BOOLEAN : memoryCreateUser(a, u, admin)
             \/ \E input \in Updates : memoryUpdateUser(a, u, input.status, input.admin)
             \/ memoryIssuePasswordResetToken(a, u)
             \/ \E permissions \in Memberships : memoryPutServerMembership(a, u, permissions)
             \/ memoryDeleteServerMembership(a, u)
       \/ \E u \in People : memoryCreateAPIToken(u) \/ memoryIssueConsoleConnectionToken(u)

MemoryIdentitySpec == IdentityInit /\ store = "memory" /\ [][MemoryIdentityNext]_identityVars
-----------------------------------------------------------------------------
\* The development store decides under one lock: every credential belongs to an
\* account that may use it, and an administrator is left, whatever requests meet.
\* (PostgresIdentity makes no such promise: its requests check before they write.)
MemoryAccountsSound == store = "memory" => CredentialsFollowAccount /\ AdministratorRemains
=============================================================================
