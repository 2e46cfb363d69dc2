------------------------------ MODULE Identity ------------------------------
(***************************************************************************)
(* Accounts and credentials of the control plane: the state that the two   *)
(* identity stores keep (internal/store: MemoryIdentity for development,   *)
(* PostgresIdentity for production) and what both do alike.                *)
(*                                                                         *)
(* Sessions, API tokens, console connection tokens and password reset      *)
(* tokens are rows of one table, numbered as they are issued: a plaintext  *)
(* is a random string that is seen once, so its number stands for it.      *)
(* A password is the number of resets before it was set.  One server has   *)
(* members.  Which of the stores a process uses is decided when it starts  *)
(* (cmd/control-plane: production has a database).                         *)
(***************************************************************************)
EXTENDS Naturals, Sequences, FiniteSets

CONSTANTS
    People,          \* users, by e-mail
    Calls,           \* store calls that overlap
    MaxCredentials,  \* bound: credentials ever issued
    MaxResets,       \* bound: password resets
    MaxDisables,     \* bound: times an account is disabled
    Grants,          \* permissions given to members
    Updates          \* what an update of an account asks for

ASSUME IdentityAssumption ==
    /\ IsFiniteSet(People)
    /\ MaxCredentials \in Nat /\ MaxResets \in Nat /\ MaxDisables \in Nat
    /\ \A P \in Grants : "servers.read" \in P
    /\ Updates \subseteq [status : {"active", "disabled"}, admin : BOOLEAN, renamed : BOOLEAN]

VARIABLES
    store,   \* "memory" or "postgres": the store of this process
    users,   \* account of each user
    cred,    \* credentials, in the order they were issued
    member,  \* server permissions of each user; {} when not a member
    setup,   \* setup calls that created an administrator
    call     \* store calls in progress

identityVars == <<store, users, cred, member, setup, call>>

Kinds == {"session", "api", "console", "reset"}
\* normalizePermissions: a membership includes servers.read.
Memberships == {P \in Grants : "servers.read" \in P}

NoAccount == [status |-> "none", admin |-> FALSE, pw |-> 0, epoch |-> 0]
NoCall == [op |-> "idle"]

IdentityTypeOK ==
    /\ store \in {"memory", "postgres"}
    /\ users \in [People -> [status : {"none", "active", "disabled"}, admin : BOOLEAN,
                             pw : Nat, epoch : Nat]]
    /\ Len(cred) <= MaxCredentials
    /\ \A k \in DOMAIN cred :
          cred[k] \in [kind : Kinds, user : People, pw : Nat, epoch : Nat, used : 0 .. 1,
                       state : {"live", "expired", "dead"}]
    /\ member \in [People -> Memberships \cup {{}}]
    /\ setup \in Nat

\* An installation that waits for its first administrator.
IdentityInit ==
    /\ store \in {"memory", "postgres"}
    /\ users = [u \in People |-> NoAccount]
    /\ cred = <<>>
    /\ member = [u \in People |-> {}]
    /\ setup = 0
    /\ call = [q \in Calls |-> NoCall]

Active(u) == users[u].status = "active"
\* requirePlatformAdmin: read from the store, never from the caller's copy.
requirePlatformAdmin(u) == Active(u) /\ users[u].admin
Admins == {u \in People : requirePlatformAdmin(u)}
NoUsers == \A u \in People : users[u].status = "none"

\* AuthorizeServer: administrators may do everything, others need the
\* permission in their membership.
AuthorizeServer(u, permission) ==
    Active(u) /\ (users[u].admin \/ permission \in member[u])

Total(field) == LET S[U \in SUBSET People] ==
                        IF U = {} THEN 0
                        ELSE LET u == CHOOSE x \in U : TRUE IN users[u][field] + S[U \ {u}]
                IN  S[People]

NewAccount(admin) == [status |-> "active", admin |-> admin, pw |-> 0, epoch |-> 0]

Live(k, kind) == cred[k].kind = kind /\ cred[k].state = "live"
Usable(k, kind) == Live(k, kind) /\ Active(cred[k].user)

\* A credential issued on what was read of the account.
Credential(kind, u, account) ==
    [kind |-> kind, user |-> u, pw |-> account.pw, epoch |-> account.epoch,
     used |-> 0, state |-> "live"]
Issue(kind, u, account) ==
    Len(cred) < MaxCredentials /\ cred' = Append(cred, Credential(kind, u, account))

Dead(c) == [c EXCEPT !.state = "dead", !.pw = 0, !.epoch = 0]
DeadAt(k) == [cred EXCEPT ![k] = Dead(@)]
\* What reset and disable do to the credentials of a user.
RevokedOf(u, kinds) ==
    [k \in DOMAIN cred |->
        IF cred[k].user = u /\ cred[k].kind \in kinds THEN Dead(cred[k]) ELSE cred[k]]
\* A credential is used: it is dead from now on.
Consumed(c, k) == [c EXCEPT ![k] = [Dead(c[k]) EXCEPT !.used = c[k].used + 1]]

\* The session goes on under a new token; the old one is used up.
Rotated(k) == Append(Consumed(cred, k), [cred[k] EXCEPT !.used = 0])

Begin(q, c) == call[q] = NoCall /\ call' = [call EXCEPT ![q] = c]
End(q) == call' = [call EXCEPT ![q] = NoCall]

\* Time passes: a session, a token expires.
Expires(k) ==
    /\ k \in DOMAIN cred /\ cred[k].state = "live"
    /\ cred' = [cred EXCEPT ![k].state = "expired"]
    /\ UNCHANGED <<users, member, setup, call>>
-----------------------------------------------------------------------------
(***************************************************************************)
(* Correctness.                                                            *)
(***************************************************************************)
\* A reset token changes one password, a console token opens one connection,
\* and of the recoveries of one session cookie, however they overlap, one wins
\* ("only one request can consume the old session", RecoverSession).
SecretsUsedOnce == \A k \in DOMAIN cred : cred[k].used <= 1

\* Every credential that works belongs to an active account and was issued
\* after its last password reset and after it was last disabled.
CredentialsFollowAccount ==
    \A k \in DOMAIN cred : cred[k].state # "dead" =>
        LET u == users[cred[k].user] IN
        /\ u.status = "active"
        /\ cred[k].pw = u.pw /\ cred[k].epoch = u.epoch

\* Setup creates one administrator, and from then on there is always one who
\* is active (validateSetupLocked, removesActiveAdmin).
AdministratorRemains == setup <= 1 /\ (NoUsers \/ Admins # {})
=============================================================================
