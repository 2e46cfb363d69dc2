------------------------------ MODULE HttpApi -------------------------------
(***************************************************************************)
(* The HTTP API's way from a request to its effect (internal/httpapi):     *)
(* authenticate, pass the route's gate, the CSRF check and the form of the *)
(* request, then call the production store, which for some operations      *)
(* checks the actor again.  Each of these reads the database by itself, so *)
(* an administrator may take the actor's rights away between any two.      *)
(*                                                                         *)
(* A route says who may use it (gate and permission), whether it writes,   *)
(* and what its store operation looks at: nothing, the roles read at       *)
(* authentication ("copy"), or the database ("store").                     *)
(***************************************************************************)
EXTENDS Naturals, FiniteSets

CONSTANTS
    ServerPermissions,  \* permissions a membership may hold
    MemberSets,        \* sets of them that members are given
    MaxChanges          \* bound: changes to the actor's rights

ASSUME HttpAssumption ==
    /\ \A P \in MemberSets : P \subseteq ServerPermissions
    /\ MaxChanges \in Nat

VARIABLES
    account,   \* the actor: active, admin, permissions on the server
    session,   \* is the actor's session open?
    apiToken,  \* is the actor's API token valid?
    request,   \* the request in progress; ghost: was its actor entitled to it,
               \* did its credential allow it, at some moment since it arrived
    changes    \* changes to the actor's rights so far

httpVars == <<account, session, apiToken, request, changes>>

Read(name, gate, permission) ==
    [name |-> name, gate |-> gate, permission |-> permission, write |-> FALSE, check |-> "none"]
Write(name, gate, permission, check) ==
    [name |-> name, gate |-> gate, permission |-> permission, write |-> TRUE, check |-> check]
AdminRead(name) == Read(name, "admin", "platform.admin")
AdminWrite(name, check) == Write(name, "admin", "platform.admin", check)
ServerRead(name, permission) == Read(name, "server", permission)
ServerWrite(name, permission) == Write(name, "server", permission, "store")

\* "own": the actor's API tokens, for a session only.  "any": whoever is signed in.
LogoutRoutes == {Write("logout", "any", "none", "none")}

UserRoutes ==
    {AdminRead(n) : n \in {"users", "user"}}
    \cup {AdminWrite(n, "store") : n \in {"createUser", "updateUser", "issuePasswordResetToken"}}

TokenRoutes ==
    {Read("apiTokens", "own", "none"), Write("createAPIToken", "own", "none", "store"),
     Write("revokeAPIToken", "own", "none", "none")}

ServerRoutes ==
    {AdminRead("overview"), Read("servers", "any", "none"), ServerRead("server", "servers.read"),
     Read("serverPermissions", "any", "none"), AdminWrite("createServer", "none"),
     ServerWrite("power", "servers.power")}

NetworkRoutes ==
    {ServerRead("allocations", "servers.network.read")}
    \cup {ServerWrite(n, "servers.network.write") :
            n \in {"createAllocation", "setPrimaryAllocation", "deleteAllocation"}}

StartupRoutes ==
    {ServerRead("startup", "servers.startup.read"), ServerWrite("updateStartup", "servers.startup.write")}

MembershipRoutes ==
    {AdminRead("serverMembership")}
    \cup {AdminWrite(n, "store") : n \in {"putServerMembership", "deleteServerMembership"}}

\* An operation is read first, then the permission on its server; the list is
\* filtered by the store.  Neither looks at the scopes of an API token.
OperationRoutes ==
    {Read("operation", "visible", "servers.read"), Read("operations", "any", "none"),
     AdminRead("nodes"), Read("games", "any", "none"), AdminRead("audit")}

ConsoleRoutes ==
    {ServerRead("console", "servers.console"), ServerWrite("issueConsoleToken", "servers.console"),
     ServerWrite("consoleCommand", "servers.console")}

FileRoutes ==
    {ServerRead(n, "servers.files.read") : n \in {"files", "fileContent"}}
    \cup {ServerWrite(n, "servers.files.write") :
            n \in {"writeFileContent", "createDirectory", "moveFile", "deleteFile"}}

BackupRoutes ==
    {ServerRead("backups", "servers.backups.read"), [ServerRead("downloadBackup", "servers.backups.read") EXCEPT !.check = "store"],
     ServerWrite("createBackup", "servers.backups.create"),
     ServerWrite("restoreBackup", "servers.backups.restore"),
     ServerWrite("deleteBackup", "servers.backups.delete")}

CatalogRoutes ==
    {AdminRead(n) : n \in {"bundleSources", "bundleTrustRoots", "bundleRevisions"}}
    \cup {AdminWrite(n, "copy") : n \in {"createBundleSource", "createBundleTrustRoot",
            "revokeBundleTrustRoot", "importBundleRevision"}}

UpgradeRoutes ==
    {AdminWrite("reviewBundleRevision", "copy")}
    \cup {ServerWrite(n, "servers.startup.write") : n \in {"upgradeServer", "rollbackServer"}}

ScheduleRoutes ==
    {AdminRead(n) : n \in {"schedules", "scheduleRuns"}}
    \cup {AdminWrite(n, "copy") : n \in {"createSchedule", "deleteSchedule"}}
    \cup {ServerRead("backupPolicy", "servers.backups.read"),
          ServerWrite("putBackupPolicy", "servers.backups.delete")}

NotificationRoutes ==
    {Read("notifications", "any", "none"), Write("acknowledgeNotification", "any", "none", "none"),
     AdminRead("webhooks")}
    \cup {AdminWrite(n, "copy") : n \in {"createWebhook", "testWebhook"}}

CapacityRoutes ==
    {AdminRead("quota"), AdminRead("capacity"), AdminRead("outboxDeadLetters"),
     AdminWrite("replayOutboxDeadLetter", "none")}
    \cup {AdminWrite(n, "copy") : n \in {"putQuota", "drainNode", "undrainNode"}}

EnrollmentRoutes == {AdminWrite(n, "copy") : n \in {"issueAgentEnrollmentToken", "revokeNode"}}

Routes ==
    UNION {LogoutRoutes, UserRoutes, TokenRoutes, ServerRoutes, NetworkRoutes, StartupRoutes,
           MembershipRoutes, OperationRoutes, ConsoleRoutes, FileRoutes, BackupRoutes, CatalogRoutes,
           UpgradeRoutes, ScheduleRoutes, NotificationRoutes, CapacityRoutes, EnrollmentRoutes}

\* AuthorizeServer: read from the database each time.
AuthorizedBy(a, permission) == a.active /\ (a.admin \/ permission \in a.member)
Authorized(permission) == AuthorizedBy(account, permission)

\* What an account must be able to do for the route to be its user's.
EntitledBy(a, r) ==
    /\ a.active
    /\ r.gate = "admin" => a.admin
    /\ r.gate \in {"server", "visible"} => AuthorizedBy(a, r.permission)
Entitled(r) == EntitledBy(account, r)

\* Ghost: what the credential of a request must allow.
PresentedBy(s, t, q) ==
    IF q.via = "session" THEN s
    ELSE /\ t /\ q.route.gate # "own"
         /\ q.route.gate \in {"admin", "server"} => q.route.permission \in q.scopes

NoRequest == [at |-> "none"]
AtStep(step) == request.at = step
Refuse == request' = NoRequest
Advance(step) == request' = [request EXCEPT !.at = step]

HttpInit ==
    /\ account \in [active : {TRUE}, admin : BOOLEAN, member : MemberSets \cup {{}}]
    /\ session = TRUE /\ apiToken = TRUE
    /\ request = NoRequest
    /\ changes = 0

\* A request arrives: its route, its credential, whether its CSRF header is
\* that of the session, whether body, query and If-Match are well formed.
Arrives ==
    /\ AtStep("none")
    /\ \E r \in Routes, via \in {"session", "token"}, csrf, form \in BOOLEAN :
       \E scopes \in IF via = "token" THEN {{}, {r.permission}, ServerPermissions} ELSE {{}} :
          LET q == [at |-> "auth", route |-> r, via |-> via, csrf |-> csrf, form |-> form,
                    scopes |-> scopes, roles |-> FALSE, entitled |-> Entitled(r), presented |-> FALSE]
          IN  request' = [q EXCEPT !.presented = PresentedBy(session, apiToken, q)]
    /\ UNCHANGED <<account, session, apiToken, changes>>

\* auth: AuthenticateAPIToken or AuthenticateSession; the user's roles are kept
\* with the request.
auth ==
    /\ AtStep("auth")
    /\ IF account.active /\ (IF request.via = "session" THEN session ELSE apiToken)
       THEN request' = [request EXCEPT !.at = "gate", !.roles = account.admin]
       ELSE Refuse
    /\ UNCHANGED <<account, session, apiToken, changes>>

ScopeAllows == request.via = "token" => request.route.permission \in request.scopes

\* Variant: the scopes of an API token are not looked at.
adminGateAnyScope == request.roles

adminGate == ScopeAllows /\ request.roles
serverGate == ScopeAllows /\ Authorized(request.route.permission)

Gate ==
    /\ AtStep("gate")
    /\ LET g == request.route.gate
           open == CASE g = "admin" -> adminGate
                     [] g = "server" -> serverGate
                     [] g = "visible" -> Authorized(request.route.permission)
                     [] g = "own" -> request.via = "session"
                     [] g = "any" -> TRUE
       IN  IF open THEN Advance(IF request.route.write THEN "csrf" ELSE "form") ELSE Refuse
    /\ UNCHANGED <<account, session, apiToken, changes>>

\* A request by API token has no CSRF token; the session must still be open.
requireCSRF ==
    /\ AtStep("csrf")
    /\ IF request.via = "token" \/ (request.csrf /\ session) THEN Advance("form") ELSE Refuse
    /\ UNCHANGED <<account, session, apiToken, changes>>

\* ifMatchGeneration, decodeJSON and the handler's own checks.
decodeJSON ==
    /\ AtStep("form")
    /\ IF request.form THEN Advance("check") ELSE Refuse
    /\ UNCHANGED <<account, session, apiToken, changes>>

\* The store operation's own look at the actor.
StoreChecks ==
    /\ AtStep("check")
    /\ LET r == request.route
           open == CASE r.check = "none" -> TRUE
                     [] r.check = "copy" -> request.roles
                     [] r.check = "store" -> Entitled(r)
       IN  IF open THEN Advance("effect") ELSE Refuse
    /\ UNCHANGED <<account, session, apiToken, changes>>

\* The effect: rows are written, data is returned.  Logout closes the session.
Effect ==
    /\ AtStep("effect") /\ Refuse
    /\ session' = (session /\ request.route.name # "logout")
    /\ UNCHANGED <<account, apiToken, changes>>

\* Another request changes the actor's rights: UpdateUser (a disabled account
\* loses its credentials), memberships, logout elsewhere, session recovery,
\* RevokeAPIToken, login.
Change(a, s, t) ==
    /\ changes < MaxChanges /\ changes' = changes + 1
    /\ account' = a /\ session' = s /\ apiToken' = t
    /\ request' = (IF AtStep("none") THEN request
                   ELSE [request EXCEPT !.entitled = @ \/ EntitledBy(a, request.route),
                                         !.presented = @ \/ PresentedBy(s, t, request)])

RightsChange ==
    \/ \E active, admin \in BOOLEAN, P \in MemberSets \cup {{}} :
          Change([active |-> active, admin |-> admin, member |-> P],
                 session /\ active, apiToken /\ active)
    \/ Change(account, FALSE, apiToken)
    \/ Change(account, session, FALSE)
    \/ account.active /\ Change(account, TRUE, TRUE)

HttpNext ==
    \/ Arrives \/ auth \/ Gate \/ requireCSRF \/ decodeJSON \/ StoreChecks \/ Effect
    \/ RightsChange

HttpSpec == HttpInit /\ [][HttpNext]_httpVars
-----------------------------------------------------------------------------
\* Only an actor who was entitled to it at some moment since the request arrived, and
\* whose credential allowed it at some such moment, gets an effect: a request that
\* arrives after rights, scopes, session or token are gone has none, though every check
\* on its way reads a different moment and some read a copy.  Rights that are lost
\* while the request is under way may still have been enough.  No scope of a token is
\* asked for on the routes that filter by what the user may see, or have no gate.
EffectIsAuthorized == AtStep("effect") => request.entitled /\ request.presented
=============================================================================
