-------------------------- MODULE PostgresIdentity --------------------------
(***************************************************************************)
(* The identity store of production (internal/store: postgres_identity.go, *)
(* postgres_session.go, access_tokens.go).  Transactions are READ          *)
(* COMMITTED: an operation that reads before it writes is two steps, and   *)
(* what it read may be out of date when it writes.  Row locks (FOR UPDATE, *)
(* and the lock every UPDATE takes until its transaction ends) are guards  *)
(* of the steps that would wait for them.  A call can fail in between.     *)
(* Passwords and disables are not counted here: every credential a reset   *)
(* or a disabling finds it revokes, but one whose insertion is still under *)
(* way is not found, so that no property of this store is about them.      *)
(***************************************************************************)
EXTENDS Identity

\* A call that failed: a statement's error, its timeout, a deadlock.
CallFails(q) ==
    /\ call[q] # NoCall /\ End(q)
    /\ UNCHANGED <<users, cred, member, setup>>

\* BEGIN; verifyBootstrapToken; SELECT COUNT(*) FROM users.
postgresSetupAdmin(q, u) ==
    /\ NoUsers /\ Begin(q, [op |-> "setup", user |-> u])
    /\ UNCHANGED <<users, cred, member, setup>>

\* INSERT INTO users; COMMIT.  E-mail addresses are unique.
postgresSetupInsert(q) ==
    LET u == call[q].user IN
    /\ call[q].op = "setup" /\ users[u].status = "none" /\ End(q)
    /\ users' = [users EXCEPT ![u] = NewAccount(TRUE)]
    /\ setup' = setup + 1
    /\ UNCHANGED <<cred, member>>

postgresCreateUser(q, a, u, admin) ==
    /\ requirePlatformAdmin(a) /\ users[u].status = "none"
    /\ Begin(q, [op |-> "create", user |-> u, admin |-> admin])
    /\ UNCHANGED <<users, cred, member, setup>>

postgresCreateInsert(q) ==
    LET u == call[q].user IN
    /\ call[q].op = "create" /\ users[u].status = "none" /\ End(q)
    /\ users' = [users EXCEPT ![u] = NewAccount(call[q].admin)]
    /\ UNCHANGED <<cred, member, setup>>

\* Reads the account and, when it would lose an active administrator, counts
\* them.
postgresUpdateUser(q, a, u, input) ==
    /\ requirePlatformAdmin(a) /\ users[u].status # "none"
    /\ (requirePlatformAdmin(u) /\ (input.status # "active" \/ ~input.admin)) => Cardinality(Admins) > 1
    /\ Begin(q, [op |-> "update", user |-> u, input |-> input])
    /\ UNCHANGED <<users, cred, member, setup>>

\* The status is written unless the call also renames the user; credentials
\* are revoked whenever the status it asks for is not active.  A reset that
\* holds its token's row makes the transaction wait.
postgresUpdateWrite(q) ==
    LET c == call[q]
        status == IF c.input.renamed THEN users[c.user].status ELSE c.input.status
    IN  /\ c.op = "update" /\ End(q)
        /\ \A p \in Calls : call[p].op = "reset" => cred[call[p].key].user # c.user
        /\ users' = [users EXCEPT ![c.user].status = status, ![c.user].admin = c.input.admin]
        /\ cred' = (IF c.input.status # "active" THEN RevokedOf(c.user, Kinds) ELSE cred)
        /\ UNCHANGED <<member, setup>>

postgresIssuePasswordResetToken(q, a, u) ==
    /\ requirePlatformAdmin(a) /\ Active(u)
    /\ Begin(q, [op |-> "insert", kind |-> "reset", user |-> u])
    /\ UNCHANGED <<users, cred, member, setup>>

Unlocked(k) == \A p \in Calls : call[p].op = "reset" => call[p].key # k

\* Variant: the token is read without FOR UPDATE.
postgresResetPasswordUnlocked(q, k) ==
    /\ k \in DOMAIN cred /\ Usable(k, "reset")
    /\ Begin(q, [op |-> "reset", key |-> k])
    /\ UNCHANGED <<users, cred, member, setup>>

\* SELECT ... FROM password_reset_tokens ... FOR UPDATE, then the status.
postgresResetPassword(q, k) ==
    /\ k \in DOMAIN cred /\ Usable(k, "reset") /\ Unlocked(k)
    /\ Begin(q, [op |-> "reset", key |-> k])
    /\ UNCHANGED <<users, cred, member, setup>>

\* The updates and COMMIT; another reset of the same user that holds the row
\* of its token makes the transaction wait.
postgresResetWrite(q) ==
    LET k == call[q].key
        u == cred[k].user
    IN  /\ call[q].op = "reset" /\ End(q)
        /\ \A p \in Calls \ {q} :
              call[p].op = "reset" => cred[call[p].key].user # u \/ call[p].key = k
        /\ cred' = Consumed(RevokedOf(u, Kinds), k)
        /\ UNCHANGED <<users, member, setup>>

\* Reads the hash and verifies the password; the session is inserted later,
\* whatever has happened to the account.
postgresLogin(q, u) ==
    /\ Active(u)
    /\ Begin(q, [op |-> "insert", kind |-> "session", user |-> u])
    /\ UNCHANGED <<users, cred, member, setup>>

postgresInsertCredential(q) ==
    /\ call[q].op = "insert" /\ End(q)
    /\ Issue(call[q].kind, call[q].user, [pw |-> 0, epoch |-> 0])
    /\ UNCHANGED <<users, member, setup>>

postgresAuthenticateSession(k) ==
    /\ k \in DOMAIN cred /\ cred[k].kind = "session" /\ cred[k].state # "dead"
    /\ ~Usable(k, "session")
    /\ cred' = DeadAt(k)
    /\ UNCHANGED <<users, member, setup, call>>

\* One transaction that holds the session's row: rotated, or revoked when it
\* is expired or its user is not active.
postgresRecoverSession(k) ==
    /\ k \in DOMAIN cred /\ cred[k].kind = "session" /\ cred[k].state # "dead"
    /\ IF Usable(k, "session")
       THEN Len(cred) < MaxCredentials /\ cred' = Rotated(k)
       ELSE cred' = DeadAt(k)
    /\ UNCHANGED <<users, member, setup, call>>

postgresLogout(k) ==
    /\ k \in DOMAIN cred /\ cred[k].kind = "session" /\ cred[k].state # "dead"
    /\ cred' = DeadAt(k)
    /\ UNCHANGED <<users, member, setup, call>>

postgresPutServerMembership(q, a, u, permissions) ==
    /\ requirePlatformAdmin(a) /\ Active(u)
    /\ Begin(q, [op |-> "member", user |-> u, permissions |-> permissions])
    /\ UNCHANGED <<users, cred, member, setup>>

postgresDeleteServerMembership(q, a, u) ==
    /\ requirePlatformAdmin(a)
    /\ Begin(q, [op |-> "member", user |-> u, permissions |-> {}])
    /\ UNCHANGED <<users, cred, member, setup>>

postgresWriteMembership(q) ==
    /\ call[q].op = "member" /\ End(q)
    /\ member' = [member EXCEPT ![call[q].user] = call[q].permissions]
    /\ UNCHANGED <<users, cred, setup>>

postgresCreateAPIToken(q, u) ==
    /\ Active(u)
    /\ Begin(q, [op |-> "insert", kind |-> "api", user |-> u])
    /\ UNCHANGED <<users, cred, member, setup>>

postgresRevokeAPIToken(k) ==
    /\ k \in DOMAIN cred /\ Live(k, "api")
    /\ cred' = DeadAt(k)
    /\ UNCHANGED <<users, member, setup, call>>

postgresIssueConsoleConnectionToken(q, u) ==
    /\ AuthorizeServer(u, "servers.console")
    /\ Begin(q, [op |-> "insert", kind |-> "console", user |-> u])
    /\ UNCHANGED <<users, cred, member, setup>>

\* UPDATE ... SET consumed_at WHERE consumed_at IS NULL, then authorize: the
\* token is used up even if the connection is refused.
postgresConsumeConsoleConnectionToken(k) ==
    /\ k \in DOMAIN cred /\ Live(k, "console")
    /\ cred' = Consumed(cred, k)
    /\ UNCHANGED <<users, member, setup, call>>

PostgresIdentityNext ==
    /\ store = "postgres" /\ UNCHANGED store
    /\ \/ \E q \in Calls, u \in People :
             \/ postgresSetupAdmin(q, u) \/ postgresLogin(q, u)
             \/ postgresCreateAPIToken(q, u) \/ postgresIssueConsoleConnectionToken(q, u)
       \/ \E q \in Calls, k \in DOMAIN cred : postgresResetPassword(q, k)
       \/ \E q \in Calls :
             \/ CallFails(q)
             \/ postgresSetupInsert(q) \/ postgresCreateInsert(q) \/ postgresUpdateWrite(q)
             \/ postgresResetWrite(q) \/ postgresInsertCredential(q) \/ postgresWriteMembership(q)
       \/ \E q \in Calls, a, u \in People :
             \/ \E admin \in BOOLEAN : postgresCreateUser(q, a, u, admin)
             \/ \E input \in Updates : postgresUpdateUser(q, a, u, input)
             \/ postgresIssuePasswordResetToken(q, a, u)
             \/ \E permissions \in Memberships : postgresPutServerMembership(q, a, u, permissions)
             \/ postgresDeleteServerMembership(q, a, u)
       \/ \E k \in DOMAIN cred :
             \/ postgresAuthenticateSession(k) \/ postgresRecoverSession(k) \/ postgresLogout(k)
             \/ postgresRevokeAPIToken(k) \/ postgresConsumeConsoleConnectionToken(k)
             \/ Expires(k)

PostgresIdentitySpec == IdentityInit /\ store = "postgres" /\ [][PostgresIdentityNext]_identityVars
=============================================================================
