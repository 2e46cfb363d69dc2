---------------------------- MODULE AccessProofs ----------------------------
(***************************************************************************)
(* What requests of users may do, for any number of users, calls and       *)
(* credentials and any number of changes to their rights: one-time secrets *)
(* are used once in both identity stores, the development store leaves no  *)
(* credential behind a reset or a disabled account and always an           *)
(* administrator, no request has an effect its actor was never entitled    *)
(* to, and the operations of the development store stay consistent; no     *)
(* account or address is tried more often than the limit, and a client     *)
(* that pages through a list misses nothing that stayed.                   *)
(***************************************************************************)
EXTENDS MemoryIdentity, PostgresIdentity, HttpApi, MemoryOperations, AttemptLimiter, Listing,
        SequenceTheorems, FiniteSetTheorems, WellFoundedInduction, TLAPS

-----------------------------------------------------------------------------
(* The HTTP API.                                                            *)

Gates == {"admin", "server", "visible", "own", "any"}
Scopes == ServerPermissions \cup {r.permission : r \in Routes}
Requests ==
    [at : {"auth", "gate", "csrf", "form", "check", "effect"}, route : Routes,
     via : {"session", "token"}, csrf : BOOLEAN, form : BOOLEAN, scopes : SUBSET Scopes,
     roles : BOOLEAN, entitled : BOOLEAN, presented : BOOLEAN]

(* Each route has one of the gates that Gate knows.                         *)
LEMMA RouteGates ==
  ASSUME NEW r \in Routes
  PROVE  r.gate \in Gates
<1> USE DEF Gates, Read, Write, AdminRead, AdminWrite, ServerRead, ServerWrite
<1>1. CASE r \in LogoutRoutes \cup UserRoutes \cup TokenRoutes \cup ServerRoutes \cup NetworkRoutes
                 \cup StartupRoutes \cup MembershipRoutes
  BY <1>1 DEF LogoutRoutes, UserRoutes, TokenRoutes, ServerRoutes, NetworkRoutes, StartupRoutes,
              MembershipRoutes
<1>2. CASE r \in OperationRoutes \cup ConsoleRoutes \cup FileRoutes \cup BackupRoutes
  BY <1>2 DEF OperationRoutes, ConsoleRoutes, FileRoutes, BackupRoutes
<1>3. CASE r \in CatalogRoutes \cup UpgradeRoutes \cup ScheduleRoutes
  BY <1>3 DEF CatalogRoutes, UpgradeRoutes, ScheduleRoutes
<1>4. CASE r \in NotificationRoutes \cup CapacityRoutes \cup EnrollmentRoutes
  BY <1>4 DEF NotificationRoutes, CapacityRoutes, EnrollmentRoutes
<1> QED BY <1>1, <1>2, <1>3, <1>4 DEF Routes

(* What an API token's scopes and the kind of credential must be, whatever  *)
(* happens to rights meanwhile.                                             *)
CredentialFits(q) ==
    q.via # "session" => /\ q.route.gate # "own"
                         /\ q.route.gate \in {"admin", "server"} => q.route.permission \in q.scopes

(* The ghosts are no less than what is true now; a request that was         *)
(* authenticated presented its credential while that was valid, and the     *)
(* roles kept with it were the actor's; past the gate both ghosts are true. *)
HttpInv ==
    /\ account \in [active : BOOLEAN, admin : BOOLEAN, member : SUBSET ServerPermissions]
    /\ session \in BOOLEAN /\ apiToken \in BOOLEAN
    /\ request = NoRequest \/ request \in Requests
    /\ ~AtStep("none") =>
         /\ EntitledBy(account, request.route) => request.entitled
         /\ PresentedBy(session, apiToken, request) => request.presented
         /\ ~AtStep("auth") =>
              /\ CredentialFits(request) => request.presented
              /\ request.roles /\ request.route.gate = "admin" => request.entitled
              /\ request.route.gate \in {"own", "any"} => request.entitled
         /\ request.at \in {"csrf", "form", "check", "effect"} =>
              request.entitled /\ request.presented

(* A request is none, or one on its way.                                    *)
LEMMA RequestKinds ==
  /\ AtStep("none") /\ request \in Requests => FALSE
  /\ NoRequest.at = "none"
BY DEF AtStep, NoRequest, Requests

(* A request goes on to another step, with what it carries.                 *)
LEMMA RequestAdvances ==
  ASSUME request \in Requests, NEW step \in {"auth", "gate", "csrf", "form", "check", "effect"},
         Advance(step)
  PROVE  /\ request' \in Requests /\ request'.at = step
         /\ request'.route = request.route /\ request'.via = request.via
         /\ request'.scopes = request.scopes /\ request'.roles = request.roles
         /\ request'.entitled = request.entitled /\ request'.presented = request.presented
BY DEF Advance, Requests

(* Nothing is owed for a request that is over.                              *)
LEMMA NoRequestInv ==
  ASSUME HttpInv, request' = NoRequest, account' = account,
         session' \in BOOLEAN, apiToken' = apiToken
  PROVE  HttpInv'
BY RequestKinds DEF HttpInv, AtStep, NoRequest

(* A request that is past its gate, or went on without passing one.         *)
LEMMA AdvanceInv ==
  ASSUME HttpInv, ~AtStep("none"), UNCHANGED <<account, session, apiToken>>,
         NEW step \in {"csrf", "form", "check", "effect"}, Advance(step),
         request.entitled, request.presented
  PROVE  HttpInv'
<1>1. request \in Requests
  BY RequestKinds DEF HttpInv, AtStep
<1>2. /\ request' \in Requests /\ request'.at = step
      /\ request'.entitled = request.entitled /\ request'.presented = request.presented
  BY <1>1, RequestAdvances
<1> QED BY <1>2 DEF HttpInv, AtStep

(* The request arrives.                                                     *)
LEMMA ArrivesInv ==
  ASSUME HttpInv, Arrives
  PROVE  HttpInv'
<1>1. PICK r \in Routes, via \in {"session", "token"}, csrf \in BOOLEAN, form \in BOOLEAN :
      \E scopes \in IF via = "token" THEN {{}, {r.permission}, ServerPermissions} ELSE {{}} :
          LET q == [at |-> "auth", route |-> r, via |-> via, csrf |-> csrf, form |-> form,
                    scopes |-> scopes, roles |-> FALSE, entitled |-> Entitled(r), presented |-> FALSE]
          IN  request' = [q EXCEPT !.presented = PresentedBy(session, apiToken, q)]
  BY DEF Arrives
<1>2. PICK scopes \in IF via = "token" THEN {{}, {r.permission}, ServerPermissions} ELSE {{}} :
          LET q == [at |-> "auth", route |-> r, via |-> via, csrf |-> csrf, form |-> form,
                    scopes |-> scopes, roles |-> FALSE, entitled |-> Entitled(r), presented |-> FALSE]
          IN  request' = [q EXCEPT !.presented = PresentedBy(session, apiToken, q)]
  BY <1>1
<1> DEFINE q == [at |-> "auth", route |-> r, via |-> via, csrf |-> csrf, form |-> form,
                 scopes |-> scopes, roles |-> FALSE, entitled |-> Entitled(r), presented |-> FALSE]
           presented == PresentedBy(session, apiToken, q)
<1>3. scopes \in SUBSET Scopes
  BY <1>2 DEF Scopes
<1>4. Entitled(r) \in BOOLEAN /\ presented \in BOOLEAN
  <2>1. session \in BOOLEAN
    BY DEF HttpInv
  <2> QED BY <2>1 DEF Entitled, EntitledBy, PresentedBy
<1>5. /\ q \in Requests /\ q.at = "auth" /\ q.route = r /\ q.via = via /\ q.scopes = scopes
      /\ q.entitled = Entitled(r)
  BY <1>3, <1>4 DEF Requests
<1>6. request' = [q EXCEPT !.presented = presented]
  BY <1>2
<1> HIDE DEF q, presented
<1>7. /\ request' \in Requests /\ request'.at = "auth" /\ request'.route = r /\ request'.via = via
      /\ request'.scopes = scopes /\ request'.entitled = Entitled(r) /\ request'.presented = presented
  BY <1>4, <1>5, <1>6 DEF Requests
<1>8. UNCHANGED <<account, session, apiToken>>
  BY DEF Arrives
<1>9. PresentedBy(session', apiToken', request') = presented
  BY <1>5, <1>7, <1>8 DEF presented, PresentedBy
<1>10. EntitledBy(account', request'.route) = Entitled(r)
  BY <1>7, <1>8 DEF Entitled
<1> QED BY <1>7, <1>8, <1>9, <1>10 DEF HttpInv, AtStep

(* auth lets a request pass while its credential is valid and its actor     *)
(* active.                                                                  *)
LEMMA AuthInv ==
  ASSUME HttpInv, auth
  PROVE  HttpInv'
<1>1. AtStep("auth") /\ UNCHANGED <<account, session, apiToken>>
  BY DEF auth
<1>2. CASE request' = NoRequest
  BY <1>1, <1>2, NoRequestInv DEF HttpInv
<1>3. CASE /\ account.active /\ (IF request.via = "session" THEN session ELSE apiToken)
           /\ request' = [request EXCEPT !.at = "gate", !.roles = account.admin]
  <2>1. request \in Requests
    BY <1>1 DEF HttpInv, AtStep, NoRequest
  <2>2. account.admin \in BOOLEAN /\ account.active
    BY <1>3 DEF HttpInv
  <2>3. /\ request' \in Requests /\ request'.at = "gate" /\ request'.roles = account.admin
        /\ request'.route = request.route /\ request'.via = request.via
        /\ request'.scopes = request.scopes
        /\ request'.entitled = request.entitled /\ request'.presented = request.presented
    BY <1>3, <2>1, <2>2 DEF Requests
  <2>4. /\ EntitledBy(account, request.route) => request.entitled
        /\ PresentedBy(session, apiToken, request) => request.presented
    BY <1>1 DEF HttpInv, AtStep
  <2>5. /\ account.admin /\ request.route.gate = "admin" => EntitledBy(account, request.route)
        /\ request.route.gate \in {"own", "any"} => EntitledBy(account, request.route)
    BY <2>2 DEF EntitledBy
  <2>6. CredentialFits(request) => PresentedBy(session, apiToken, request)
    BY <1>3 DEF CredentialFits, PresentedBy
  <2>7. /\ CredentialFits(request') = CredentialFits(request)
        /\ PresentedBy(session', apiToken', request') = PresentedBy(session, apiToken, request)
    BY <1>1, <2>3 DEF CredentialFits, PresentedBy
  <2> QED BY <1>1, <2>3, <2>4, <2>5, <2>6, <2>7 DEF HttpInv, AtStep
<1> QED BY <1>2, <1>3 DEF auth, Refuse

(* The gate of a route lets through who may use it, with a credential that  *)
(* fits it.                                                                 *)
LEMMA GateInv ==
  ASSUME HttpInv, Gate
  PROVE  HttpInv'
<1> DEFINE g == request.route.gate
           open == CASE g = "admin" -> adminGate
                     [] g = "server" -> serverGate
                     [] g = "visible" -> Authorized(request.route.permission)
                     [] g = "own" -> request.via = "session"
                     [] g = "any" -> TRUE
<1>1. AtStep("gate") /\ UNCHANGED <<account, session, apiToken>>
  BY DEF Gate
<1>2. CASE request' = NoRequest
  BY <1>1, <1>2, NoRequestInv DEF HttpInv
<1>3. CASE open /\ Advance(IF request.route.write THEN "csrf" ELSE "form")
  <2>1. request \in Requests /\ request.route \in Routes /\ request.via \in {"session", "token"}
    BY <1>1 DEF HttpInv, AtStep, NoRequest, Requests
  <2>2. g \in {"admin", "server", "visible", "own", "any"}
    BY <2>1, RouteGates DEF Gates
  <2>3. /\ EntitledBy(account, request.route) => request.entitled
        /\ CredentialFits(request) => request.presented
        /\ request.roles /\ request.route.gate = "admin" => request.entitled
        /\ request.route.gate \in {"own", "any"} => request.entitled
    BY <1>1 DEF HttpInv, AtStep
  <2>4. ASSUME g = "admin" PROVE request.entitled /\ request.presented
    BY <1>3, <2>1, <2>3, <2>4 DEF adminGate, ScopeAllows, CredentialFits
  <2>5. ASSUME g = "server" PROVE request.entitled /\ request.presented
    <3>1. ScopeAllows /\ AuthorizedBy(account, request.route.permission)
      BY <1>3, <2>5 DEF serverGate, Authorized
    <3>2. EntitledBy(account, request.route)
      BY <2>5, <3>1 DEF EntitledBy, AuthorizedBy
    <3>3. CredentialFits(request)
      BY <2>1, <2>5, <3>1 DEF ScopeAllows, CredentialFits
    <3> QED BY <2>3, <3>2, <3>3
  <2>6. ASSUME g = "visible" PROVE request.entitled /\ request.presented
    <3>1. AuthorizedBy(account, request.route.permission)
      BY <1>3, <2>6 DEF Authorized
    <3>2. EntitledBy(account, request.route)
      BY <2>6, <3>1 DEF EntitledBy, AuthorizedBy
    <3>3. CredentialFits(request)
      BY <2>6 DEF CredentialFits
    <3> QED BY <2>3, <3>2, <3>3
  <2>7. ASSUME g \in {"own", "any"} PROVE request.entitled /\ request.presented
    BY <1>3, <2>3, <2>7 DEF CredentialFits
  <2>8. request.entitled /\ request.presented
    BY <2>2, <2>4, <2>5, <2>6, <2>7
  <2> QED BY <1>1, <1>3, <2>8, AdvanceInv DEF AtStep
<1> QED BY <1>2, <1>3 DEF Gate, Refuse

(* Past the gate a request is refused or goes on, and it ends.              *)
LEMMA PastGateInv ==
  ASSUME HttpInv, requireCSRF \/ decodeJSON \/ StoreChecks \/ Effect
  PROVE  HttpInv'
<1>1. UNCHANGED <<account, apiToken>> /\ session' \in BOOLEAN
  BY DEF HttpInv, requireCSRF, decodeJSON, StoreChecks, Effect
<1>2. ~AtStep("none") /\ request.entitled /\ request.presented
  BY DEF HttpInv, AtStep, requireCSRF, decodeJSON, StoreChecks, Effect
<1>3. CASE request' = NoRequest
  BY <1>1, <1>3, NoRequestInv
<1>4. CASE session' = session /\ \E step \in {"form", "check", "effect"} : Advance(step)
  BY <1>1, <1>2, <1>4, AdvanceInv
<1>5. \/ request' = NoRequest
      \/ session' = session /\ \E step \in {"form", "check", "effect"} : Advance(step)
  <2>1. CASE requireCSRF
    BY <2>1 DEF requireCSRF, Refuse
  <2>2. CASE decodeJSON
    BY <2>2 DEF decodeJSON, Refuse
  <2>3. CASE StoreChecks
    BY <2>3 DEF StoreChecks, Refuse
  <2>4. CASE Effect
    BY <2>4 DEF Effect, Refuse
  <2> QED BY <2>1, <2>2, <2>3, <2>4
<1> QED BY <1>3, <1>4, <1>5

(* Rights change under a request: its ghosts follow.                        *)
LEMMA ChangeInv ==
  ASSUME HttpInv, NEW a \in [active : BOOLEAN, admin : BOOLEAN, member : SUBSET ServerPermissions],
         NEW s \in BOOLEAN, NEW t \in BOOLEAN, Change(a, s, t)
  PROVE  HttpInv'
<1>1. account' = a /\ session' = s /\ apiToken' = t
  BY DEF Change
<1>2. CASE AtStep("none")
  <2>1. request' = NoRequest
    BY <1>2, RequestKinds DEF Change, HttpInv
  <2> QED BY <1>1, <2>1 DEF HttpInv, AtStep, NoRequest
<1>3. CASE ~AtStep("none")
  <2> DEFINE entitled == request.entitled \/ EntitledBy(a, request.route)
             presented == request.presented \/ PresentedBy(s, t, request)
  <2>1. request \in Requests
    BY <1>3 DEF HttpInv, AtStep, NoRequest
  <2>2. entitled \in BOOLEAN /\ presented \in BOOLEAN
    OBVIOUS
  <2>3. request' = [request EXCEPT !.entitled = entitled, !.presented = presented]
    BY <1>3 DEF Change
  <2>4. /\ EntitledBy(a, request.route) => entitled
        /\ PresentedBy(s, t, request) => presented
        /\ request.entitled => entitled
        /\ request.presented => presented
    OBVIOUS
  <2> HIDE DEF entitled, presented
  <2>5. /\ request' \in Requests /\ request'.at = request.at /\ request'.route = request.route
        /\ request'.via = request.via /\ request'.scopes = request.scopes
        /\ request'.roles = request.roles
        /\ request'.entitled = entitled /\ request'.presented = presented
    BY <2>1, <2>2, <2>3 DEF Requests
  <2>6. /\ EntitledBy(account', request'.route) => entitled
        /\ PresentedBy(session', apiToken', request') => presented
        /\ CredentialFits(request') = CredentialFits(request)
    BY <1>1, <2>4, <2>5 DEF PresentedBy, CredentialFits
  <2>7. /\ ~AtStep("auth") =>
              /\ CredentialFits(request) => presented
              /\ request.roles /\ request.route.gate = "admin" => entitled
              /\ request.route.gate \in {"own", "any"} => entitled
        /\ request.at \in {"csrf", "form", "check", "effect"} => entitled /\ presented
    BY <1>3, <2>4 DEF HttpInv
  <2> QED BY <1>1, <2>5, <2>6, <2>7 DEF HttpInv, AtStep
<1> QED BY <1>2, <1>3

(* A step of the HTTP API, or of those who change rights.                   *)
LEMMA HttpStepInv ==
  ASSUME HttpInv, [HttpNext]_httpVars
  PROVE  HttpInv'
<1>1. CASE UNCHANGED httpVars
  BY <1>1 DEF httpVars, HttpInv, AtStep
<1>2. CASE RightsChange
  <2>1. /\ account \in [active : BOOLEAN, admin : BOOLEAN, member : SUBSET ServerPermissions]
        /\ session \in BOOLEAN /\ apiToken \in BOOLEAN
    BY DEF HttpInv
  <2>2. ASSUME NEW active \in BOOLEAN, NEW admin \in BOOLEAN, NEW P \in MemberSets \cup {{}},
               Change([active |-> active, admin |-> admin, member |-> P],
                      session /\ active, apiToken /\ active)
        PROVE  HttpInv'
    <3>1. P \in SUBSET ServerPermissions
      BY HttpAssumption
    <3>2. [active |-> active, admin |-> admin, member |-> P] \in
             [active : BOOLEAN, admin : BOOLEAN, member : SUBSET ServerPermissions]
      BY <3>1
    <3>3. (session /\ active) \in BOOLEAN /\ (apiToken /\ active) \in BOOLEAN
      OBVIOUS
    <3> QED BY <2>2, <3>2, <3>3, ChangeInv
  <2>3. CASE \/ Change(account, FALSE, apiToken) \/ Change(account, session, FALSE)
             \/ Change(account, TRUE, TRUE)
    BY <2>1, <2>3, ChangeInv
  <2> QED BY <1>2, <2>2, <2>3 DEF RightsChange
<1> QED BY <1>1, <1>2, ArrivesInv, AuthInv, GateInv, PastGateInv DEF HttpNext

(* A request gets to its effect only if its actor was entitled to it, and   *)
(* its credential allowed it, at some moment since it arrived: whatever     *)
(* rights, sessions and tokens are taken away between authentication, gate, *)
(* CSRF check and the store's own check.                                    *)
THEOREM EffectsAreAuthorized == HttpSpec => []EffectIsAuthorized
<1>1. HttpInit => HttpInv
  <2> SUFFICES ASSUME HttpInit PROVE HttpInv
    OBVIOUS
  <2>1. account \in [active : BOOLEAN, admin : BOOLEAN, member : SUBSET ServerPermissions]
    <3>1. \A P \in MemberSets \cup {{}} : P \in SUBSET ServerPermissions
      BY HttpAssumption
    <3> QED BY <3>1 DEF HttpInit
  <2> QED BY <2>1, RequestKinds DEF HttpInit, HttpInv, AtStep
<1>2. HttpInv /\ [HttpNext]_httpVars => HttpInv'
  BY HttpStepInv
<1>3. HttpInv => EffectIsAuthorized
  BY DEF HttpInv, EffectIsAuthorized, AtStep
<1> QED BY <1>1, <1>2, <1>3, PTL DEF HttpSpec

-----------------------------------------------------------------------------
(* Accounts and credentials, in either store.                               *)

CredRows == [kind : Kinds, user : People, pw : Nat, epoch : Nat, used : Nat,
             state : {"live", "expired", "dead"}]
AccountRows == [status : {"none", "active", "disabled"}, admin : BOOLEAN, pw : Nat, epoch : Nat]

(* A secret that was used is dead, and was used once.                       *)
SecretSound(c) == c.used <= 1 /\ (c.state # "dead" => c.used = 0)
SecretsSound(x) == x \in Seq(CredRows) /\ \A k \in DOMAIN x : SecretSound(x[k])

(* The credentials x come of cred by killing some of them.                  *)
Killed(x) ==
    /\ x \in Seq(CredRows) /\ DOMAIN x = DOMAIN cred
    /\ \A j \in DOMAIN cred :
         /\ x[j].kind = cred[j].kind /\ x[j].user = cred[j].user
         /\ x[j] = cred[j] \/ x[j].state = "dead"

(* A credential that is revoked.                                            *)
LEMMA DeadRow ==
  ASSUME NEW c \in CredRows
  PROVE  /\ Dead(c) \in CredRows /\ Dead(c).state = "dead" /\ Dead(c).used = c.used
         /\ Dead(c).kind = c.kind /\ Dead(c).user = c.user
BY DEF Dead, CredRows

(* A credential that is used.                                               *)
UsedUp(c) == [Dead(c) EXCEPT !.used = c.used + 1]

(* It is dead, and used once more.                                          *)
LEMMA UsedRow ==
  ASSUME NEW c \in CredRows
  PROVE  /\ UsedUp(c) \in CredRows /\ UsedUp(c).state = "dead" /\ UsedUp(c).used = c.used + 1
         /\ UsedUp(c).kind = c.kind /\ UsedUp(c).user = c.user
<1> DEFINE d == Dead(c)
<1>1. /\ d \in CredRows /\ d.state = "dead" /\ d.used = c.used /\ d.kind = c.kind /\ d.user = c.user
      /\ UsedUp(c) = [d EXCEPT !.used = c.used + 1]
  BY DeadRow DEF UsedUp
<1> HIDE DEF d
<1> QED BY <1>1 DEF CredRows

(* A table of the same length as another is a table.                        *)
LEMMA SameLength ==
  ASSUME cred \in Seq(CredRows), NEW x, x = [j \in DOMAIN cred |-> x[j]],
         \A j \in DOMAIN cred : x[j] \in CredRows
  PROVE  x \in Seq(CredRows) /\ DOMAIN x = DOMAIN cred
<1>1. Len(cred) \in Nat /\ DOMAIN cred = 1 .. Len(cred)
  BY LenProperties
<1>2. x \in [1 .. Len(cred) -> CredRows]
  BY <1>1
<1> QED BY <1>1, <1>2, SeqDef

(* The table with one credential revoked or used, with those of a user      *)
(* revoked, and with one of them used on top of that.                       *)
LEMMA DeadAtKills ==
  ASSUME cred \in Seq(CredRows), NEW k \in DOMAIN cred
  PROVE  /\ Killed(DeadAt(k)) /\ DeadAt(k)[k].state = "dead"
         /\ \A j \in DOMAIN cred : DeadAt(k)[j].used = cred[j].used /\ (j # k => DeadAt(k)[j] = cred[j])
<1> DEFINE x == DeadAt(k)
<1>1. \A j \in DOMAIN cred : cred[j] \in CredRows
  OBVIOUS
<1>2. x = [j \in DOMAIN cred |-> x[j]] /\ x[k] = Dead(cred[k]) /\ \A j \in DOMAIN cred : j # k => x[j] = cred[j]
  BY DEF DeadAt
<1> HIDE DEF x
<1>3. x[k] \in CredRows /\ x[k].state = "dead" /\ x[k].used = cred[k].used
      /\ x[k].kind = cred[k].kind /\ x[k].user = cred[k].user
  <2>1. cred[k] \in CredRows
    BY <1>1
  <2> QED BY <1>2, <2>1, DeadRow
<1>4. x \in Seq(CredRows) /\ DOMAIN x = DOMAIN cred
  BY <1>1, <1>2, <1>3, SameLength
<1>5. Killed(x) /\ x[k].state = "dead"
      /\ \A j \in DOMAIN cred : x[j].used = cred[j].used /\ (j # k => x[j] = cred[j])
  BY <1>2, <1>3, <1>4 DEF Killed
<1> QED BY <1>5 DEF x

(* As above.                                                                *)
LEMMA RevokedKills ==
  ASSUME cred \in Seq(CredRows), NEW u, NEW kinds
  PROVE  /\ Killed(RevokedOf(u, kinds))
         /\ \A j \in DOMAIN cred :
              /\ RevokedOf(u, kinds)[j].used = cred[j].used
              /\ cred[j].user = u /\ cred[j].kind \in kinds => RevokedOf(u, kinds)[j].state = "dead"
              /\ cred[j].user # u => RevokedOf(u, kinds)[j] = cred[j]
<1> DEFINE x == RevokedOf(u, kinds)
<1>1. \A j \in DOMAIN cred : cred[j] \in CredRows
  OBVIOUS
<1>2. x = [j \in DOMAIN cred |-> x[j]]
      /\ \A j \in DOMAIN cred : x[j] = IF cred[j].user = u /\ cred[j].kind \in kinds THEN Dead(cred[j]) ELSE cred[j]
  BY DEF RevokedOf
<1> HIDE DEF x
<1>3. \A j \in DOMAIN cred : x[j] \in CredRows /\ x[j].used = cred[j].used
      /\ x[j].kind = cred[j].kind /\ x[j].user = cred[j].user /\ (x[j] = cred[j] \/ x[j].state = "dead")
      /\ (cred[j].user = u /\ cred[j].kind \in kinds => x[j].state = "dead")
      /\ (cred[j].user # u => x[j] = cred[j])
  BY <1>1, <1>2, DeadRow
<1>4. x \in Seq(CredRows) /\ DOMAIN x = DOMAIN cred
  BY <1>2, <1>3, SameLength
<1>5. Killed(x)
  BY <1>3, <1>4 DEF Killed
<1> QED BY <1>3, <1>5 DEF x

(* As above.                                                                *)
LEMMA ConsumedKills ==
  ASSUME cred \in Seq(CredRows), NEW x, Killed(x), NEW k \in DOMAIN cred, x[k].used = cred[k].used
  PROVE  /\ Killed(Consumed(x, k)) /\ Consumed(x, k)[k].used = cred[k].used + 1
         /\ Consumed(x, k)[k].state = "dead"
         /\ \A j \in DOMAIN cred : j # k => Consumed(x, k)[j] = x[j]
<1> DEFINE y == Consumed(x, k)
           c == x[k]
<1>1. /\ x \in Seq(CredRows) /\ DOMAIN x = DOMAIN cred
      /\ \A j \in DOMAIN cred : x[j] \in CredRows
  BY DEF Killed
<1>2. /\ y = [j \in DOMAIN cred |-> y[j]]
      /\ y[k] = UsedUp(c)
      /\ \A j \in DOMAIN cred : j # k => y[j] = x[j]
  <2>1. y = [x EXCEPT ![k] = UsedUp(c)]
    BY DEF Consumed, UsedUp
  <2>2. x = [j \in DOMAIN cred |-> x[j]]
    BY <1>1
  <2> HIDE DEF y, c
  <2> QED BY <1>1, <2>1, <2>2
<1>3. c \in CredRows /\ c.used = cred[k].used /\ c.kind = cred[k].kind /\ c.user = cred[k].user
  BY <1>1 DEF Killed
<1> HIDE DEF y, c
<1>4. y[k] \in CredRows /\ y[k].state = "dead" /\ y[k].used = cred[k].used + 1
      /\ y[k].kind = cred[k].kind /\ y[k].user = cred[k].user
  BY <1>2, <1>3, UsedRow
<1>5. y \in Seq(CredRows) /\ DOMAIN y = DOMAIN cred
  BY <1>1, <1>2, <1>4, SameLength
<1>6. Killed(y)
  BY <1>2, <1>4, <1>5 DEF Killed
<1> QED BY <1>2, <1>4, <1>6 DEF y

(* No credential changes hands, none is used but K, and every one that      *)
(* works descends from one that did.                                        *)
CredKeeps(K) ==
    /\ SecretsSound(cred')
    /\ \A j \in DOMAIN cred : /\ j \in DOMAIN cred' /\ cred'[j].kind = cred[j].kind
                              /\ cred'[j].user = cred[j].user
                              /\ cred'[j].used = cred[j].used \/ j = K
Descends ==
    \A j \in DOMAIN cred' : cred'[j].state # "dead" =>
        \E i \in DOMAIN cred : /\ cred[i].state # "dead" /\ cred'[j].user = cred[i].user
                               /\ cred'[j].pw = cred[i].pw /\ cred'[j].epoch = cred[i].epoch

(* Credentials are revoked or expire, and none is used.                     *)
LEMMA KillStep ==
  ASSUME SecretsSound(cred), Killed(cred'), \A j \in DOMAIN cred : cred'[j].used = cred[j].used
  PROVE  CredKeeps(0) /\ Descends
<1>1. \A j \in DOMAIN cred' : SecretSound(cred'[j])
  BY DEF SecretsSound, SecretSound, Killed
<1>2. SecretsSound(cred')
  BY <1>1 DEF SecretsSound, Killed
<1>3. CredKeeps(0)
  BY <1>2 DEF CredKeeps, Killed
<1>4. Descends
  BY DEF Descends, Killed
<1> QED BY <1>3, <1>4

(* A credential that was not used before is used.                           *)
LEMMA ConsumeStep ==
  ASSUME SecretsSound(cred), NEW x, Killed(x), \A j \in DOMAIN cred : x[j].used = cred[j].used,
         NEW k \in DOMAIN cred, cred[k].used = 0, cred' = Consumed(x, k)
  PROVE  CredKeeps(k) /\ Descends /\ Killed(cred')
         /\ cred'[k].state = "dead" /\ \A j \in DOMAIN cred : j # k => cred'[j] = x[j]
<1>1. cred \in Seq(CredRows) /\ x[k].used = cred[k].used
  BY DEF SecretsSound
<1>2. /\ Killed(cred') /\ cred'[k].used = 1 /\ cred'[k].state = "dead"
      /\ \A j \in DOMAIN cred : j # k => cred'[j] = x[j]
  <2>1. /\ Killed(Consumed(x, k)) /\ Consumed(x, k)[k].used = cred[k].used + 1
        /\ Consumed(x, k)[k].state = "dead"
        /\ \A j \in DOMAIN cred : j # k => Consumed(x, k)[j] = x[j]
    BY <1>1, ConsumedKills
  <2> QED BY <2>1
<1>3. \A j \in DOMAIN cred : j # k => SecretSound(cred'[j])
  BY <1>2 DEF SecretsSound, SecretSound, Killed
<1>4. SecretsSound(cred')
  BY <1>2, <1>3 DEF SecretsSound, SecretSound, Killed
<1>5. CredKeeps(k)
  BY <1>2, <1>4 DEF CredKeeps, Killed
<1>6. Descends
  BY <1>2 DEF Descends, Killed
<1> QED BY <1>2, <1>5, <1>6

(* A session that is live goes on under a new token.                        *)
LEMMA RotateStep ==
  ASSUME SecretsSound(cred), NEW k \in DOMAIN cred, cred[k].state = "live", cred' = Rotated(k)
  PROVE  CredKeeps(k) /\ Descends
<1> DEFINE y == Consumed(cred, k)
           c == [cred[k] EXCEPT !.used = 0]
<1>1. cred \in Seq(CredRows) /\ cred[k] \in CredRows /\ cred[k].used = 0
  BY DEF SecretsSound, SecretSound
<1>2. c \in CredRows /\ c.used = 0 /\ c.state = "live" /\ c.user = cred[k].user
      /\ c.pw = cred[k].pw /\ c.epoch = cred[k].epoch
  BY <1>1 DEF CredRows
<1>3. Killed(cred)
  BY <1>1 DEF Killed
<1>4. /\ Killed(y) /\ y[k].used = 1 /\ y[k].state = "dead"
      /\ \A j \in DOMAIN cred : j # k => y[j] = cred[j]
  <2>1. /\ Killed(Consumed(cred, k)) /\ Consumed(cred, k)[k].used = cred[k].used + 1
        /\ Consumed(cred, k)[k].state = "dead"
        /\ \A j \in DOMAIN cred : j # k => Consumed(cred, k)[j] = cred[j]
    BY <1>1, <1>3, ConsumedKills
  <2> QED BY <1>1, <2>1
<1>5. cred' = Append(y, c)
  BY DEF Rotated
<1> HIDE DEF y, c
<1>6. y \in Seq(CredRows) /\ Len(y) \in Nat /\ DOMAIN y = 1 .. Len(y) /\ DOMAIN cred = 1 .. Len(y)
  BY <1>4, LenProperties DEF Killed
<1>7. /\ cred' \in Seq(CredRows) /\ Len(cred') = Len(y) + 1
      /\ \A j \in 1 .. Len(y) : cred'[j] = y[j]
      /\ cred'[Len(y) + 1] = c
  BY <1>2, <1>5, <1>6, AppendProperties
<1>8. DOMAIN cred' = 1 .. (Len(y) + 1)
  BY <1>7, LenProperties
<1>9. \A j \in DOMAIN cred' : j \in DOMAIN cred \/ j = Len(y) + 1
  BY <1>6, <1>8
<1>10. \A j \in DOMAIN cred : j \in DOMAIN cred'
  BY <1>6, <1>8
<1>11. \A j \in DOMAIN cred : SecretSound(cred'[j])
  BY <1>4, <1>6, <1>7 DEF SecretsSound, SecretSound
<1>12. SecretSound(c)
  BY <1>2 DEF SecretSound
<1>13. SecretsSound(cred')
  BY <1>7, <1>9, <1>11, <1>12 DEF SecretsSound
<1>14. CredKeeps(k)
  BY <1>4, <1>6, <1>7, <1>10, <1>13 DEF CredKeeps, Killed
<1>15. Descends
  BY <1>2, <1>4, <1>6, <1>7, <1>9 DEF Descends, Killed
<1> QED BY <1>14, <1>15

(* A credential is issued.                                                  *)
LEMMA IssueStep ==
  ASSUME SecretsSound(cred), NEW kind \in Kinds, NEW u \in People, NEW account0,
         account0.pw \in Nat, account0.epoch \in Nat, Issue(kind, u, account0)
  PROVE  /\ CredKeeps(0)
         /\ \A j \in DOMAIN cred' :
              \/ j \in DOMAIN cred /\ cred'[j] = cred[j]
              \/ cred'[j] = Credential(kind, u, account0)
<1> DEFINE c == Credential(kind, u, account0)
<1>1. c \in CredRows /\ c.used = 0 /\ c.state = "live"
  BY DEF Credential, CredRows
<1>2. cred \in Seq(CredRows) /\ cred' = Append(cred, c)
  BY DEF SecretsSound, Issue
<1> HIDE DEF c
<1>3. Len(cred) \in Nat /\ DOMAIN cred = 1 .. Len(cred)
  BY <1>2, LenProperties
<1>4. /\ cred' \in Seq(CredRows) /\ Len(cred') = Len(cred) + 1
      /\ \A j \in 1 .. Len(cred) : cred'[j] = cred[j]
      /\ cred'[Len(cred) + 1] = c
  BY <1>1, <1>2, AppendProperties
<1>5. DOMAIN cred' = 1 .. (Len(cred) + 1)
  BY <1>4, LenProperties
<1>6. \A j \in DOMAIN cred' : (j \in DOMAIN cred /\ cred'[j] = cred[j]) \/ cred'[j] = c
  BY <1>3, <1>4, <1>5
<1>7. \A j \in DOMAIN cred : j \in DOMAIN cred' /\ cred'[j] = cred[j]
  BY <1>3, <1>4, <1>5
<1>8. SecretsSound(cred')
  BY <1>1, <1>4, <1>6 DEF SecretsSound, SecretSound
<1>9. CredKeeps(0)
  BY <1>7, <1>8 DEF CredKeeps
<1> QED BY <1>6, <1>9 DEF c

(* A credential expires.                                                    *)
LEMMA ExpireStep ==
  ASSUME SecretsSound(cred), NEW k \in DOMAIN cred, Expires(k)
  PROVE  CredKeeps(0) /\ Descends
<1> DEFINE c == [cred[k] EXCEPT !.state = "expired"]
<1>1. cred \in Seq(CredRows) /\ cred[k] \in CredRows /\ cred[k].state = "live"
  BY DEF SecretsSound, Expires
<1>2. /\ c \in CredRows /\ c.used = cred[k].used /\ c.state = "expired" /\ c.user = cred[k].user
      /\ c.kind = cred[k].kind /\ c.pw = cred[k].pw /\ c.epoch = cred[k].epoch
  BY <1>1 DEF CredRows
<1>3. cred' = [cred EXCEPT ![k] = c]
  BY DEF Expires
<1> HIDE DEF c
<1>4. /\ cred' = [j \in DOMAIN cred |-> cred'[j]] /\ cred'[k] = c
      /\ \A j \in DOMAIN cred : j # k => cred'[j] = cred[j]
  BY <1>1, <1>3
<1>5. \A j \in DOMAIN cred : cred'[j] \in CredRows
  BY <1>1, <1>2, <1>4
<1>6. cred' \in Seq(CredRows) /\ DOMAIN cred' = DOMAIN cred
  BY <1>1, <1>4, <1>5, SameLength
<1>7. SecretsSound(cred')
  BY <1>1, <1>2, <1>4, <1>6 DEF SecretsSound, SecretSound
<1>8. CredKeeps(0)
  BY <1>2, <1>4, <1>6, <1>7 DEF CredKeeps
<1>9. Descends
  BY <1>1, <1>2, <1>4, <1>6 DEF Descends
<1> QED BY <1>8, <1>9

-----------------------------------------------------------------------------
(* The store of production.                                                 *)

(* Calls that are not resets; an insertion knows what it inserts.           *)
PlainCall(c) == c.op # "reset" /\ (c.op = "insert" => c.kind \in Kinds /\ c.user \in People)

(* A reset that is under way holds a reset token that was not used, and no  *)
(* two hold the same one: that is what FOR UPDATE and the token's own row   *)
(* are for.  Whatever else was read before is not relied upon.              *)
PostgresInv ==
    /\ SecretsSound(cred)
    /\ call = [q \in Calls |-> call[q]]
    /\ \A q \in Calls :
         \/ PlainCall(call[q])
         \/ /\ call[q].op = "reset" /\ call[q].key \in DOMAIN cred
            /\ cred[call[q].key].kind = "reset" /\ cred[call[q].key].used = 0
    /\ \A p, q \in Calls : p # q /\ call[p].op = "reset" /\ call[q].op = "reset" =>
         call[p].key # call[q].key

(* The places of a table of credentials are positive.                       *)
LEMMA NoZeroth ==
  ASSUME SecretsSound(cred)
  PROVE  0 \notin DOMAIN cred
<1>1. cred \in Seq(CredRows)
  BY DEF SecretsSound
<1>2. DOMAIN cred = 1 .. Len(cred) /\ Len(cred) \in Nat
  BY <1>1, LenProperties
<1> QED BY <1>2

(* A table that does not change.                                            *)
LEMMA SameCred ==
  ASSUME SecretsSound(cred), cred' = cred
  PROVE  CredKeeps(0) /\ Descends
<1>1. SecretsSound(cred')
  BY DEF SecretsSound
<1>2. CredKeeps(0)
  BY <1>1 DEF CredKeeps
<1> QED BY <1>2 DEF Descends

(* A step that uses no token but K, of which no reset is left, and begins   *)
(* no reset.                                                                *)
LEMMA CallsKeep ==
  ASSUME PostgresInv, NEW K, CredKeeps(K),
         call' = [p \in Calls |-> call'[p]],
         \A p \in Calls : call'[p] = call[p] \/ PlainCall(call'[p]),
         \A p \in Calls : call'[p].op = "reset" => call'[p].key # K
  PROVE  PostgresInv'
<1>1. SecretsSound(cred')
  BY DEF CredKeeps
<1>2. ASSUME NEW q \in Calls
      PROVE  \/ PlainCall(call'[q])
             \/ /\ call'[q].op = "reset" /\ call'[q].key \in DOMAIN cred'
                /\ cred'[call'[q].key].kind = "reset" /\ cred'[call'[q].key].used = 0
  BY DEF PostgresInv, CredKeeps
<1>3. \A p, q \in Calls : p # q /\ call'[p].op = "reset" /\ call'[q].op = "reset" =>
         call'[p].key # call'[q].key
  BY DEF PostgresInv, PlainCall
<1> QED BY <1>1, <1>2, <1>3 DEF PostgresInv, PlainCall, SecretsSound, SecretSound, CredRows, Kinds

(* A call of another kind begins or ends, and no token is used.             *)
LEMMA CallStep ==
  ASSUME PostgresInv, CredKeeps(0), NEW q \in Calls, NEW c, PlainCall(c),
         call' = [call EXCEPT ![q] = c]
  PROVE  PostgresInv'
<1>1. call' = [p \in Calls |-> call'[p]]
  BY DEF PostgresInv
<1>2. \A p \in Calls : call'[p] = call[p] \/ PlainCall(call'[p])
  BY DEF PostgresInv
<1>3. ASSUME NEW p \in Calls, call'[p].op = "reset"
      PROVE  call'[p].key # 0
  <2>1. call'[p] = call[p] /\ call[p].op = "reset"
    BY <1>2, <1>3 DEF PlainCall
  <2>2. call[p].key \in DOMAIN cred
    BY <2>1 DEF PostgresInv, PlainCall
  <2> QED BY <2>1, <2>2, NoZeroth DEF PostgresInv
<1> QED BY <1>1, <1>2, <1>3, CallsKeep

(* A call that ends without using a token, or begins.                       *)
LEMMA EndStep ==
  ASSUME PostgresInv, CredKeeps(0), NEW q \in Calls, End(q)
  PROVE  PostgresInv'
<1>1. PlainCall(NoCall)
  BY DEF PlainCall, NoCall
<1> QED BY <1>1, CallStep DEF End

(* As above.                                                                *)
LEMMA BeginStep ==
  ASSUME PostgresInv, UNCHANGED cred, NEW q \in Calls, NEW c, PlainCall(c), Begin(q, c)
  PROVE  PostgresInv'
<1>1. CredKeeps(0)
  BY SameCred DEF PostgresInv
<1> QED BY <1>1, CallStep DEF Begin

(* A token is revoked or used while the calls go on.                        *)
LEMMA CredStep ==
  ASSUME PostgresInv, UNCHANGED call, NEW K, CredKeeps(K),
         K = 0 \/ (K \in DOMAIN cred /\ cred[K].kind # "reset")
  PROVE  PostgresInv'
<1>1. \A p \in Calls : call[p].op = "reset" => call[p].key \in DOMAIN cred /\ cred[call[p].key].kind = "reset"
  BY DEF PostgresInv, PlainCall
<1>2. \A p \in Calls : call[p].op = "reset" => call[p].key # K
  BY <1>1, NoZeroth DEF PostgresInv
<1>3. call' = [p \in Calls |-> call'[p]]
  BY DEF PostgresInv
<1> QED BY <1>2, <1>3, CallsKeep

(* One credential is revoked.                                               *)
LEMMA DeadAtStep ==
  ASSUME SecretsSound(cred), NEW k \in DOMAIN cred, cred' = DeadAt(k)
  PROVE  CredKeeps(0) /\ Descends
<1>1. cred \in Seq(CredRows)
  BY DEF SecretsSound
<1>2. Killed(cred') /\ \A j \in DOMAIN cred : cred'[j].used = cred[j].used
  BY <1>1, DeadAtKills
<1> QED BY <1>2, KillStep

(* Those of a user are revoked.                                             *)
LEMMA RevokeStep ==
  ASSUME SecretsSound(cred), NEW u, NEW kinds, cred' = RevokedOf(u, kinds)
  PROVE  CredKeeps(0) /\ Descends
<1>1. cred \in Seq(CredRows)
  BY DEF SecretsSound
<1>2. Killed(cred') /\ \A j \in DOMAIN cred : cred'[j].used = cred[j].used
  BY <1>1, RevokedKills
<1> QED BY <1>2, KillStep

(* A live credential is used.                                               *)
LEMMA UseStep ==
  ASSUME SecretsSound(cred), NEW k \in DOMAIN cred, cred[k].state = "live", cred' = Consumed(cred, k)
  PROVE  CredKeeps(k) /\ Descends
<1>1. cred \in Seq(CredRows) /\ cred[k].used = 0
  BY DEF SecretsSound, SecretSound
<1>2. Killed(cred) /\ \A j \in DOMAIN cred : cred[j].used = cred[j].used
  BY <1>1 DEF Killed
<1> QED BY <1>1, <1>2, ConsumeStep

(* A reset token is used and the user's credentials are revoked.            *)
LEMMA ResetStep ==
  ASSUME SecretsSound(cred), NEW k \in DOMAIN cred, cred[k].used = 0, NEW u,
         cred' = Consumed(RevokedOf(u, Kinds), k)
  PROVE  /\ CredKeeps(k) /\ Killed(cred')
         /\ \A j \in DOMAIN cred : cred[j].user = u => cred'[j].state = "dead"
<1> DEFINE x == RevokedOf(u, Kinds)
<1>1. cred \in Seq(CredRows) /\ \A j \in DOMAIN cred : cred[j] \in CredRows
  BY DEF SecretsSound
<1>2. Killed(x) /\ \A j \in DOMAIN cred : x[j].used = cred[j].used /\ (cred[j].user = u /\ cred[j].kind \in Kinds => x[j].state = "dead")
  BY <1>1, RevokedKills
<1>3. cred' = Consumed(x, k)
  OBVIOUS
<1> HIDE DEF x
<1>4. CredKeeps(k) /\ Killed(cred') /\ cred'[k].state = "dead" /\ \A j \in DOMAIN cred : j # k => cred'[j] = x[j]
  BY <1>2, <1>3, ConsumeStep
<1>5. \A j \in DOMAIN cred : cred[j].kind \in Kinds
  BY <1>1 DEF CredRows
<1> QED BY <1>2, <1>4, <1>5

(* Production: the calls of a user, and those on an account.                *)
LEMMA PostgresBegins ==
  ASSUME PostgresInv, NEW q \in Calls, NEW u \in People,
         \/ postgresSetupAdmin(q, u) \/ postgresLogin(q, u)
         \/ postgresCreateAPIToken(q, u) \/ postgresIssueConsoleConnectionToken(q, u)
         \/ \E a \in People :
              \/ \E admin \in BOOLEAN : postgresCreateUser(q, a, u, admin)
              \/ \E input \in Updates : postgresUpdateUser(q, a, u, input)
              \/ postgresIssuePasswordResetToken(q, a, u)
              \/ \E permissions \in Memberships : postgresPutServerMembership(q, a, u, permissions)
              \/ postgresDeleteServerMembership(q, a, u)
  PROVE  PostgresInv'
<1>1. ASSUME NEW kind \in Kinds PROVE PlainCall([op |-> "insert", kind |-> kind, user |-> u])
  BY DEF PlainCall
<1>2. CASE postgresSetupAdmin(q, u)
  <2>1. PlainCall([op |-> "setup", user |-> u])
    BY DEF PlainCall
  <2> QED BY <1>2, <2>1, BeginStep DEF postgresSetupAdmin
<1>3. CASE postgresLogin(q, u)
  <2>1. PlainCall([op |-> "insert", kind |-> "session", user |-> u])
    BY <1>1 DEF Kinds
  <2> QED BY <1>3, <2>1, BeginStep DEF postgresLogin
<1>4. CASE postgresCreateAPIToken(q, u)
  <2>1. PlainCall([op |-> "insert", kind |-> "api", user |-> u])
    BY <1>1 DEF Kinds
  <2> QED BY <1>4, <2>1, BeginStep DEF postgresCreateAPIToken
<1>5. CASE postgresIssueConsoleConnectionToken(q, u)
  <2>1. PlainCall([op |-> "insert", kind |-> "console", user |-> u])
    BY <1>1 DEF Kinds
  <2> QED BY <1>5, <2>1, BeginStep DEF postgresIssueConsoleConnectionToken
<1>6. ASSUME NEW a \in People, NEW admin \in BOOLEAN, postgresCreateUser(q, a, u, admin)
      PROVE  PostgresInv'
  <2>1. PlainCall([op |-> "create", user |-> u, admin |-> admin])
    BY DEF PlainCall
  <2> QED BY <1>6, <2>1, BeginStep DEF postgresCreateUser
<1>7. ASSUME NEW a \in People, NEW input \in Updates, postgresUpdateUser(q, a, u, input)
      PROVE  PostgresInv'
  <2>1. PlainCall([op |-> "update", user |-> u, input |-> input])
    BY DEF PlainCall
  <2> QED BY <1>7, <2>1, BeginStep DEF postgresUpdateUser
<1>8. ASSUME NEW a \in People, postgresIssuePasswordResetToken(q, a, u)
      PROVE  PostgresInv'
  <2>1. PlainCall([op |-> "insert", kind |-> "reset", user |-> u])
    BY <1>1 DEF Kinds
  <2> QED BY <1>8, <2>1, BeginStep DEF postgresIssuePasswordResetToken
<1>9. ASSUME NEW permissions PROVE PlainCall([op |-> "member", user |-> u, permissions |-> permissions])
  BY DEF PlainCall
<1>10. ASSUME NEW a \in People, NEW permissions \in Memberships, postgresPutServerMembership(q, a, u, permissions)
       PROVE  PostgresInv'
  BY <1>9, <1>10, BeginStep DEF postgresPutServerMembership
<1>11. ASSUME NEW a \in People, postgresDeleteServerMembership(q, a, u)
       PROVE  PostgresInv'
  BY <1>9, <1>11, BeginStep DEF postgresDeleteServerMembership
<1> QED BY <1>2, <1>3, <1>4, <1>5, <1>6, <1>7, <1>8, <1>10, <1>11

(* A reset begins: it takes the row of its token.                           *)
LEMMA PostgresResetBegins ==
  ASSUME PostgresInv, NEW q \in Calls, NEW k \in DOMAIN cred, postgresResetPassword(q, k)
  PROVE  PostgresInv'
<1> DEFINE c == [op |-> "reset", key |-> k]
<1>1. c.op = "reset" /\ c.key = k
  OBVIOUS
<1>2. call' = [call EXCEPT ![q] = c] /\ cred' = cred
  BY DEF postgresResetPassword, Begin
<1>3. cred[k].kind = "reset" /\ cred[k].used = 0 /\ \A p \in Calls : call[p].op = "reset" => call[p].key # k
  BY DEF postgresResetPassword, Usable, Live, Unlocked, PostgresInv, SecretsSound, SecretSound
<1> HIDE DEF c
<1>4. call' = [p \in Calls |-> call'[p]] /\ call'[q] = c /\ \A p \in Calls : p # q => call'[p] = call[p]
  BY <1>2 DEF PostgresInv
<1>5. SecretsSound(cred')
  BY <1>2 DEF PostgresInv, SecretsSound
<1>6. ASSUME NEW p \in Calls
      PROVE  \/ PlainCall(call'[p])
             \/ /\ call'[p].op = "reset" /\ call'[p].key \in DOMAIN cred'
                /\ cred'[call'[p].key].kind = "reset" /\ cred'[call'[p].key].used = 0
  BY <1>1, <1>2, <1>3, <1>4 DEF PostgresInv
<1>7. \A p, r \in Calls : p # r /\ call'[p].op = "reset" /\ call'[r].op = "reset" => call'[p].key # call'[r].key
  BY <1>1, <1>3, <1>4 DEF PostgresInv
<1> QED BY <1>4, <1>5, <1>6, <1>7 DEF PostgresInv, PlainCall, SecretsSound, SecretSound, CredRows, Kinds

(* A call of production writes and ends, or fails.                          *)
LEMMA PostgresEnds ==
  ASSUME PostgresInv, NEW q \in Calls,
         \/ CallFails(q) \/ postgresSetupInsert(q) \/ postgresCreateInsert(q) \/ postgresUpdateWrite(q)
         \/ postgresResetWrite(q) \/ postgresInsertCredential(q) \/ postgresWriteMembership(q)
  PROVE  PostgresInv'
<1>1. SecretsSound(cred)
  BY DEF PostgresInv
<1>2. CASE \/ CallFails(q) \/ postgresSetupInsert(q) \/ postgresCreateInsert(q) \/ postgresWriteMembership(q)
  <2>1. End(q) /\ cred' = cred
    BY <1>2 DEF CallFails, postgresSetupInsert, postgresCreateInsert, postgresWriteMembership
  <2> QED BY <1>1, <2>1, SameCred, EndStep
<1>3. CASE postgresUpdateWrite(q)
  <2>1. End(q) /\ (cred' = RevokedOf(call[q].user, Kinds) \/ cred' = cred)
    BY <1>3 DEF postgresUpdateWrite
  <2>2. CredKeeps(0)
    BY <1>1, <2>1, SameCred, RevokeStep
  <2> QED BY <2>1, <2>2, EndStep
<1>4. CASE postgresInsertCredential(q)
  <2> DEFINE fresh == [pw |-> 0, epoch |-> 0]
  <2>1. End(q) /\ Issue(call[q].kind, call[q].user, fresh) /\ call[q].op = "insert"
    BY <1>4 DEF postgresInsertCredential
  <2>2. call[q].kind \in Kinds /\ call[q].user \in People
    BY <2>1 DEF PostgresInv, PlainCall
  <2>3. fresh.pw \in Nat /\ fresh.epoch \in Nat
    OBVIOUS
  <2> HIDE DEF fresh
  <2>4. CredKeeps(0)
    BY <1>1, <2>1, <2>2, <2>3, IssueStep
  <2> QED BY <2>1, <2>4, EndStep
<1>5. CASE postgresResetWrite(q)
  <2> DEFINE k == call[q].key
             u == cred[k].user
  <2>1. End(q) /\ call[q].op = "reset" /\ cred' = Consumed(RevokedOf(u, Kinds), k)
    BY <1>5 DEF postgresResetWrite
  <2>2. k \in DOMAIN cred /\ cred[k].used = 0
    BY <2>1 DEF PostgresInv, PlainCall
  <2>3. \A p \in Calls : p # q /\ call[p].op = "reset" => call[p].key # k
    BY <2>1 DEF PostgresInv
  <2> HIDE DEF k, u
  <2>4. CredKeeps(k)
    BY <1>1, <2>1, <2>2, ResetStep
  <2>5. call' = [call EXCEPT ![q] = NoCall]
    BY <2>1 DEF End
  <2>6. call' = [p \in Calls |-> call'[p]] /\ call'[q] = NoCall /\ \A p \in Calls : p # q => call'[p] = call[p]
    BY <2>5 DEF PostgresInv
  <2>7. NoCall.op = "idle" /\ PlainCall(NoCall)
    BY DEF NoCall, PlainCall
  <2>8. \A p \in Calls : call'[p] = call[p] \/ PlainCall(call'[p])
    BY <2>6, <2>7
  <2>9. \A p \in Calls : call'[p].op = "reset" => call'[p].key # k
    BY <2>3, <2>6, <2>7
  <2> QED BY <2>4, <2>6, <2>8, <2>9, CallsKeep
<1> QED BY <1>2, <1>3, <1>4, <1>5

(* A step of production on one credential.                                  *)
LEMMA PostgresUses ==
  ASSUME PostgresInv, NEW k \in DOMAIN cred,
         \/ postgresAuthenticateSession(k) \/ postgresRecoverSession(k) \/ postgresLogout(k)
         \/ postgresRevokeAPIToken(k) \/ postgresConsumeConsoleConnectionToken(k) \/ Expires(k)
  PROVE  PostgresInv'
<1>1. SecretsSound(cred)
  BY DEF PostgresInv
<1>2. UNCHANGED call
  BY DEF postgresAuthenticateSession, postgresRecoverSession, postgresLogout, postgresRevokeAPIToken,
         postgresConsumeConsoleConnectionToken, Expires
<1>3. CASE cred' = DeadAt(k)
  BY <1>1, <1>2, <1>3, DeadAtStep, CredStep
<1>4. CASE Expires(k)
  BY <1>1, <1>2, <1>4, ExpireStep, CredStep
<1>5. CASE postgresRecoverSession(k) /\ cred' # DeadAt(k)
  <2>1. cred[k].kind = "session" /\ cred[k].state = "live" /\ cred' = Rotated(k)
    BY <1>5 DEF postgresRecoverSession, Usable, Live
  <2>2. CredKeeps(k)
    BY <1>1, <2>1, RotateStep
  <2>3. cred[k].kind # "reset"
    BY <2>1
  <2> QED BY <1>2, <2>2, <2>3, CredStep
<1>6. CASE postgresConsumeConsoleConnectionToken(k)
  <2>1. cred[k].kind = "console" /\ cred[k].state = "live" /\ cred' = Consumed(cred, k)
    BY <1>6 DEF postgresConsumeConsoleConnectionToken, Live
  <2>2. CredKeeps(k)
    BY <1>1, <2>1, UseStep
  <2>3. cred[k].kind # "reset"
    BY <2>1
  <2> QED BY <1>2, <2>2, <2>3, CredStep
<1> QED BY <1>3, <1>4, <1>5, <1>6 DEF postgresAuthenticateSession, postgresRecoverSession, postgresLogout,
         postgresRevokeAPIToken

(* An empty installation, and every step of the store of production.        *)
LEMMA PostgresInit == IdentityInit => PostgresInv
<1> SUFFICES ASSUME IdentityInit PROVE PostgresInv
  OBVIOUS
<1>1. cred \in Seq(CredRows) /\ DOMAIN cred = {}
  BY EmptySeq DEF IdentityInit
<1>2. call = [q \in Calls |-> call[q]] /\ \A q \in Calls : call[q].op = "idle"
  BY DEF IdentityInit, NoCall
<1>3. SecretsSound(cred)
  BY <1>1 DEF SecretsSound
<1> QED BY <1>2, <1>3 DEF PostgresInv, PlainCall

(* A call begins, is in the middle of its transaction, or ends.             *)
LEMMA PostgresStep == PostgresInv /\ [PostgresIdentityNext]_identityVars => PostgresInv'
<1> SUFFICES ASSUME PostgresInv, [PostgresIdentityNext]_identityVars PROVE PostgresInv'
  OBVIOUS
<1>1. CASE UNCHANGED identityVars
  BY <1>1 DEF identityVars, PostgresInv, PlainCall, SecretsSound, SecretSound
<1>2. CASE PostgresIdentityNext
  BY <1>2, PostgresBegins, PostgresResetBegins, PostgresEnds, PostgresUses DEF PostgresIdentityNext
<1> QED BY <1>1, <1>2

(* In production, however the calls overlap, fail and expire, a reset token *)
(* changes one password, a console token opens one connection and of the    *)
(* recoveries of one session cookie one wins.                               *)
THEOREM PostgresSecretsUsedOnce == PostgresIdentitySpec => []SecretsUsedOnce
<1>1. IdentityInit => PostgresInv
  BY PostgresInit
<1>2. PostgresInv /\ [PostgresIdentityNext]_identityVars => PostgresInv'
  BY PostgresStep
<1>3. PostgresInv => SecretsUsedOnce
  BY DEF PostgresInv, SecretsSound, SecretSound, SecretsUsedOnce
<1> QED BY <1>1, <1>2, <1>3, PTL DEF PostgresIdentitySpec

-----------------------------------------------------------------------------
(* The store of development.                                                *)

(* What the two-step operations remember names a user or a credential.      *)
MemoryCall(c) ==
    /\ c.op \in {"setup", "login"} => c.user \in People
    /\ c.op = "reset" => c.key \in DOMAIN cred
MemoryInv ==
    /\ users \in [People -> AccountRows] /\ setup \in Nat
    /\ SecretsSound(cred)
    /\ call = [q \in Calls |-> call[q]] /\ \A q \in Calls : MemoryCall(call[q])
    /\ CredentialsFollowAccount
    /\ AdministratorRemains

(* Calls keep naming what they name when one begins or ends.                *)
LEMMA MemoryCalls ==
  ASSUME MemoryInv, NEW K, CredKeeps(K),
         \/ UNCHANGED call
         \/ \E q \in Calls : End(q)
  PROVE  (call = [q \in Calls |-> call[q]])' /\ \A q \in Calls : MemoryCall(call[q])'
<1>1. \A j \in DOMAIN cred : j \in DOMAIN cred'
  BY DEF CredKeeps
<1>2. CASE UNCHANGED call
  BY <1>1, <1>2 DEF MemoryInv, MemoryCall
<1>3. ASSUME NEW q \in Calls, End(q)
      PROVE  (call = [p \in Calls |-> call[p]])' /\ \A p \in Calls : MemoryCall(call[p])'
  <2>1. NoCall.op = "idle"
    BY DEF NoCall
  <2>2. call' = [call EXCEPT ![q] = NoCall]
    BY <1>3 DEF End
  <2>3. call' = [p \in Calls |-> call'[p]] /\ call'[q] = NoCall /\ \A p \in Calls : p # q => call'[p] = call[p]
    BY <2>2 DEF MemoryInv
  <2> QED BY <1>1, <2>1, <2>3 DEF MemoryInv, MemoryCall
<1> QED BY <1>2, <1>3

(* A call begins.                                                           *)
LEMMA MemoryBegins ==
  ASSUME MemoryInv, NEW q \in Calls, NEW c, MemoryCall(c), Begin(q, c), UNCHANGED <<users, cred, setup>>
  PROVE  MemoryInv'
<1>1. call' = [call EXCEPT ![q] = c]
  BY DEF Begin
<1>2. call' = [p \in Calls |-> call'[p]] /\ call'[q] = c /\ \A p \in Calls : p # q => call'[p] = call[p]
  BY <1>1 DEF MemoryInv
<1>3. \A p \in Calls : MemoryCall(call[p])'
  BY <1>2 DEF MemoryInv, MemoryCall
<1>4. CredentialsFollowAccount' /\ AdministratorRemains'
  BY DEF MemoryInv, CredentialsFollowAccount, AdministratorRemains, NoUsers, Admins, requirePlatformAdmin, Active
<1>5. SecretsSound(cred')
  BY DEF MemoryInv, SecretsSound
<1> QED BY <1>2, <1>3, <1>4, <1>5 DEF MemoryInv, SecretsSound

(* The accounts do not change and no credential comes from nowhere.         *)
LEMMA SameAccounts ==
  ASSUME MemoryInv, UNCHANGED <<users, setup>>, NEW K, CredKeeps(K), Descends,
         UNCHANGED call \/ \E q \in Calls : End(q)
  PROVE  MemoryInv'
<1>1. (call = [q \in Calls |-> call[q]])' /\ \A q \in Calls : MemoryCall(call[q])'
  BY MemoryCalls
<1>2. CredentialsFollowAccount'
  BY DEF MemoryInv, CredentialsFollowAccount, Descends
<1>3. AdministratorRemains'
  BY DEF MemoryInv, AdministratorRemains, NoUsers, Admins, requirePlatformAdmin, Active
<1>4. SecretsSound(cred')
  BY DEF CredKeeps
<1> QED BY <1>1, <1>2, <1>3, <1>4 DEF MemoryInv, SecretsSound

(* A credential is issued to an active user, on the account of now.         *)
LEMMA MemoryIssues ==
  ASSUME MemoryInv, UNCHANGED <<users, setup>>, NEW kind \in Kinds, NEW u \in People, Active(u),
         Issue(kind, u, users[u]), UNCHANGED call \/ \E q \in Calls : End(q)
  PROVE  MemoryInv'
<1>1. users[u] \in AccountRows
  BY DEF MemoryInv
<1>2. users[u].pw \in Nat /\ users[u].epoch \in Nat
  BY <1>1 DEF AccountRows
<1>3. /\ CredKeeps(0)
      /\ \A j \in DOMAIN cred' : \/ j \in DOMAIN cred /\ cred'[j] = cred[j]
                                 \/ cred'[j] = Credential(kind, u, users[u])
  BY <1>2, IssueStep DEF MemoryInv
<1>4. (call = [q \in Calls |-> call[q]])' /\ \A q \in Calls : MemoryCall(call[q])'
  BY <1>3, MemoryCalls
<1> DEFINE c == Credential(kind, u, users[u])
<1>5. c.user = u /\ c.pw = users[u].pw /\ c.epoch = users[u].epoch
  BY DEF Credential
<1>6. \A j \in DOMAIN cred' : (j \in DOMAIN cred /\ cred'[j] = cred[j]) \/ cred'[j] = c
  BY <1>3
<1> HIDE DEF c
<1>7. CredentialsFollowAccount'
  BY <1>5, <1>6 DEF MemoryInv, CredentialsFollowAccount, Active
<1>8. AdministratorRemains'
  BY DEF MemoryInv, AdministratorRemains, NoUsers, Admins, requirePlatformAdmin, Active
<1>9. SecretsSound(cred')
  BY <1>3 DEF CredKeeps
<1> QED BY <1>4, <1>7, <1>8, <1>9 DEF MemoryInv, SecretsSound

(* The account of one user changes and no credential of theirs works after. *)
LEMMA AccountChanges ==
  ASSUME MemoryInv, NEW u \in People, NEW account0 \in AccountRows,
         users' = [users EXCEPT ![u] = account0], NEW K, CredKeeps(K), Killed(cred'),
         \A j \in DOMAIN cred : cred[j].user = u => cred'[j].state = "dead",
         setup' \in Nat, AdministratorRemains',
         UNCHANGED call \/ \E q \in Calls : End(q)
  PROVE  MemoryInv'
<1>1. (call = [q \in Calls |-> call[q]])' /\ \A q \in Calls : MemoryCall(call[q])'
  BY MemoryCalls
<1>2. users' \in [People -> AccountRows] /\ \A v \in People : v # u => users'[v] = users[v]
  BY DEF MemoryInv
<1>3. \A j \in DOMAIN cred : cred[j].user \in People
  <2>1. \A j \in DOMAIN cred : cred[j] \in CredRows
    BY DEF MemoryInv, SecretsSound
  <2> QED BY <2>1 DEF CredRows
<1>4. CredentialsFollowAccount'
  BY <1>2, <1>3 DEF MemoryInv, CredentialsFollowAccount, Killed
<1>5. SecretsSound(cred')
  BY DEF CredKeeps
<1> QED BY <1>1, <1>2, <1>4, <1>5 DEF MemoryInv, SecretsSound

(* An account that does not exist or is disabled has no credential that     *)
(* works.                                                                   *)
LEMMA NoneWorks ==
  ASSUME MemoryInv, NEW u \in People, ~Active(u), cred' = cred
  PROVE  /\ CredKeeps(0) /\ Killed(cred')
         /\ \A j \in DOMAIN cred : cred[j].user = u => cred'[j].state = "dead"
<1>1. CredKeeps(0)
  BY SameCred DEF MemoryInv
<1>2. Killed(cred')
  BY DEF Killed, MemoryInv, SecretsSound
<1> QED BY <1>1, <1>2 DEF MemoryInv, CredentialsFollowAccount, Active

(* A new account.                                                           *)
LEMMA NewAccountRow ==
  ASSUME NEW admin \in BOOLEAN
  PROVE  /\ NewAccount(admin) \in AccountRows
         /\ NewAccount(admin).status = "active" /\ NewAccount(admin).admin = admin
BY DEF NewAccount, AccountRows

(* There is an administrator as long as one is named.                       *)
LEMMA OneRemains ==
  ASSUME MemoryInv, setup' <= 1, NEW a \in People, users'[a].status = "active", users'[a].admin
  PROVE  AdministratorRemains'
BY DEF AdministratorRemains, Admins, requirePlatformAdmin, Active

(* Setup creates an administrator where there is none.                      *)
LEMMA MemorySetupInv ==
  ASSUME MemoryInv, NEW q \in Calls, memorySetupCommit(q)
  PROVE  MemoryInv'
<1> DEFINE u == call[q].user
<1>1. u \in People /\ End(q) /\ cred' = cred
  BY DEF memorySetupCommit, MemoryInv, MemoryCall
<1>2. ASSUME ~SetupOpen PROVE MemoryInv'
  <2>1. UNCHANGED <<users, setup>>
    BY <1>2 DEF memorySetupCommit
  <2>2. CredKeeps(0) /\ Descends
    BY <1>1, SameCred DEF MemoryInv
  <2> QED BY <1>1, <2>1, <2>2, SameAccounts
<1>3. ASSUME SetupOpen PROVE MemoryInv'
  <2> DEFINE n == NewAccount(TRUE)
  <2>1. users' = [users EXCEPT ![u] = n] /\ setup' = 1
    <3>1. users' = [users EXCEPT ![u] = n] /\ setup' = setup + 1
      BY <1>3 DEF memorySetupCommit
    <3>2. setup = 0
      BY <1>3 DEF SetupOpen
    <3> QED BY <3>1, <3>2
  <2>2. ~Active(u)
    BY <1>1, <1>3 DEF SetupOpen, NoUsers, Active
  <2>3. n \in AccountRows /\ n.status = "active" /\ n.admin = TRUE
    BY NewAccountRow
  <2> HIDE DEF n, u
  <2>4. /\ CredKeeps(0) /\ Killed(cred')
        /\ \A j \in DOMAIN cred : cred[j].user = u => cred'[j].state = "dead"
    BY <1>1, <2>2, NoneWorks
  <2>5. users'[u] = n
    BY <1>1, <2>1 DEF MemoryInv
  <2>6. AdministratorRemains'
    BY <1>1, <2>1, <2>3, <2>5, OneRemains
  <2> QED BY <1>1, <2>1, <2>3, <2>4, <2>6, AccountChanges
<1> QED BY <1>2, <1>3

(* An administrator creates an account.                                     *)
LEMMA MemoryCreateInv ==
  ASSUME MemoryInv, NEW a \in People, NEW u \in People, NEW admin \in BOOLEAN, memoryCreateUser(a, u, admin)
  PROVE  MemoryInv'
<1> DEFINE n == NewAccount(admin)
<1>1. users' = [users EXCEPT ![u] = n] /\ UNCHANGED <<cred, setup, call>>
  BY DEF memoryCreateUser
<1>2. ~Active(u) /\ Active(a) /\ users[a].admin
  BY DEF memoryCreateUser, requirePlatformAdmin, Active
<1>3. n \in AccountRows
  BY NewAccountRow
<1> HIDE DEF n
<1>4. /\ CredKeeps(0) /\ Killed(cred')
      /\ \A j \in DOMAIN cred : cred[j].user = u => cred'[j].state = "dead"
  BY <1>1, <1>2, NoneWorks
<1>5. users'[a] = users[a] /\ setup' <= 1 /\ setup' \in Nat
  BY <1>1, <1>2 DEF MemoryInv, AdministratorRemains
<1>6. AdministratorRemains'
  BY <1>2, <1>5, OneRemains DEF Active
<1> QED BY <1>1, <1>3, <1>4, <1>5, <1>6, AccountChanges

(* A reset changes a password and revokes everything of the user.           *)
LEMMA MemoryResetInv ==
  ASSUME MemoryInv, NEW q \in Calls, memoryResetCommit(q)
  PROVE  MemoryInv'
<1> DEFINE k == call[q].key
           u == cred[k].user
<1>1. k \in DOMAIN cred /\ End(q) /\ UNCHANGED setup /\ SecretsSound(cred)
  BY DEF memoryResetCommit, MemoryInv, MemoryCall
<1>2. cred[k] \in CredRows
  BY <1>1 DEF SecretsSound
<1>3. u \in People
  BY <1>2 DEF CredRows
<1>4. ASSUME ~Usable(k, "reset") PROVE MemoryInv'
  <2>1. cred' = DeadAt(k) /\ UNCHANGED users
    BY <1>4 DEF memoryResetCommit
  <2> HIDE DEF k
  <2>2. CredKeeps(0) /\ Descends
    BY <1>1, <2>1, DeadAtStep
  <2> QED BY <1>1, <2>1, <2>2, SameAccounts
<1>5. ASSUME Usable(k, "reset") PROVE MemoryInv'
  <2> DEFINE n == [users[u] EXCEPT !.pw = users[u].pw + 1]
  <2>1. users' = [users EXCEPT ![u] = n] /\ cred' = Consumed(RevokedOf(u, Kinds), k)
    BY <1>5 DEF memoryResetCommit
  <2>2. users[u] \in AccountRows
    BY <1>3 DEF MemoryInv
  <2>3. n \in AccountRows /\ n.status = users[u].status /\ n.admin = users[u].admin
    BY <2>2 DEF AccountRows
  <2>4. cred[k].used = 0
    BY <1>1, <1>5 DEF Usable, Live, SecretsSound, SecretSound
  <2> HIDE DEF n, u, k
  <2>5. /\ CredKeeps(k) /\ Killed(cred')
        /\ \A j \in DOMAIN cred : cred[j].user = u => cred'[j].state = "dead"
    BY <1>1, <2>1, <2>4, ResetStep
  <2>6. \A v \in People : users'[v].status = users[v].status /\ users'[v].admin = users[v].admin
    BY <1>3, <2>1, <2>3 DEF MemoryInv
  <2>7. AdministratorRemains' /\ setup' \in Nat
    BY <1>1, <2>6 DEF MemoryInv, AdministratorRemains, NoUsers, Admins, requirePlatformAdmin, Active
  <2> QED BY <1>1, <1>3, <2>1, <2>3, <2>5, <2>7, AccountChanges
<1> QED BY <1>4, <1>5

(* Of two administrators one remains when the other goes.                   *)
LEMMA AnotherAdmin ==
  ASSUME NEW u \in Admins, Cardinality(Admins) > 1
  PROVE  \E v \in Admins : v # u
<1>1. IsFiniteSet(Admins)
  BY IdentityAssumption, FS_Subset DEF Admins
<1>2. CASE Admins = {u}
  <2>1. Cardinality({u}) = 1
    BY FS_Singleton
  <2> QED BY <1>2, <2>1
<1> QED BY <1>2

(* An update never takes the last administrator away.                       *)
LEMMA UpdateKeepsAdmin ==
  ASSUME MemoryInv, NEW a \in People, NEW u \in People, NEW status, NEW admin, memoryUpdateUser(a, u, status, admin),
         NEW account0 \in AccountRows, users' = [users EXCEPT ![u] = account0],
         account0.status = status, account0.admin = admin
  PROVE  AdministratorRemains'
<1>1. users'[u] = account0 /\ \A v \in People : v # u => users'[v] = users[v]
  BY DEF MemoryInv
<1>2. setup' <= 1
  BY DEF MemoryInv, AdministratorRemains, memoryUpdateUser
<1>3. Active(a) /\ users[a].admin
  BY DEF memoryUpdateUser, requirePlatformAdmin
<1>4. CASE a # u
  <2>1. users'[a].status = "active" /\ users'[a].admin
    BY <1>1, <1>3, <1>4 DEF Active
  <2> QED BY <1>2, <2>1, OneRemains
<1>5. CASE a = u /\ RemovesActiveAdmin(u, status, admin)
  <2>1. u \in Admins /\ Cardinality(Admins) > 1
    BY <1>5 DEF memoryUpdateUser, RemovesActiveAdmin, Admins
  <2>2. PICK v \in Admins : v # u
    BY <2>1, AnotherAdmin
  <2>3. v \in People /\ users[v].status = "active" /\ users[v].admin
    BY DEF Admins, requirePlatformAdmin, Active
  <2>4. users'[v].status = "active" /\ users'[v].admin
    BY <1>1, <2>2, <2>3
  <2> QED BY <1>2, <2>3, <2>4, OneRemains
<1>6. CASE a = u /\ ~RemovesActiveAdmin(u, status, admin)
  <2>1. status = "active" /\ admin
    BY <1>3, <1>6 DEF RemovesActiveAdmin, requirePlatformAdmin
  <2>2. users'[u].status = "active" /\ users'[u].admin
    BY <1>1, <2>1
  <2> QED BY <1>2, <2>2, OneRemains
<1> QED BY <1>4, <1>5, <1>6

(* An update of status and roles; an account that is disabled loses every   *)
(* credential.                                                              *)
LEMMA MemoryUpdateInv ==
  ASSUME MemoryInv, NEW a \in People, NEW u \in People, NEW status \in {"active", "disabled"}, NEW admin \in BOOLEAN,
         memoryUpdateUser(a, u, status, admin)
  PROVE  MemoryInv'
<1> DEFINE n == Updated(users[u], status, admin)
<1>1. users' = [users EXCEPT ![u] = n] /\ UNCHANGED <<setup, call>>
  BY DEF memoryUpdateUser
<1>2. users[u] \in AccountRows /\ setup' \in Nat
  BY <1>1 DEF MemoryInv
<1>3. n \in AccountRows /\ n.status = status /\ n.admin = admin /\ n.pw = users[u].pw
      /\ (status = "active" => n.epoch = users[u].epoch)
  <2> DEFINE r == users[u]
             e == IF status = "disabled" /\ r.status = "active" THEN r.epoch + 1 ELSE r.epoch
  <2>1. n = [r EXCEPT !.status = status, !.admin = admin, !.epoch = e]
    BY DEF Updated
  <2>2. r \in AccountRows
    BY <1>2
  <2>3. e \in Nat /\ (status = "active" => e = r.epoch)
    BY <2>2 DEF AccountRows
  <2>4. r = users[u]
    OBVIOUS
  <2> HIDE DEF n, e, r
  <2>5. n \in AccountRows /\ n.status = status /\ n.admin = admin /\ n.pw = r.pw /\ n.epoch = e
    BY <2>1, <2>2, <2>3 DEF AccountRows
  <2> QED BY <2>3, <2>4, <2>5
<1> HIDE DEF n
<1>4. AdministratorRemains'
  BY <1>1, <1>3, UpdateKeepsAdmin
<1>5. CASE status = "disabled"
  <2>1. cred' = RevokedOf(u, Kinds)
    BY <1>5 DEF memoryUpdateUser
  <2>2. cred \in Seq(CredRows) /\ \A j \in DOMAIN cred : cred[j] \in CredRows
    BY DEF MemoryInv, SecretsSound
  <2>3. \A j \in DOMAIN cred : cred[j].kind \in Kinds
    BY <2>2 DEF CredRows
  <2>4. Killed(cred') /\ \A j \in DOMAIN cred : cred[j].user = u => cred'[j].state = "dead"
    BY <2>1, <2>2, <2>3, RevokedKills
  <2>5. CredKeeps(0)
    BY <2>1, RevokeStep DEF MemoryInv
  <2> QED BY <1>1, <1>2, <1>3, <1>4, <2>4, <2>5, AccountChanges
<1>6. CASE status = "active" /\ ~Active(u)
  <2>1. cred' = cred
    BY <1>6 DEF memoryUpdateUser
  <2>2. /\ CredKeeps(0) /\ Killed(cred')
        /\ \A j \in DOMAIN cred : cred[j].user = u => cred'[j].state = "dead"
    BY <1>6, <2>1, NoneWorks
  <2> QED BY <1>1, <1>2, <1>3, <1>4, <2>2, AccountChanges
<1>7. CASE status = "active" /\ Active(u)
  <2>1. cred' = cred
    BY <1>7 DEF memoryUpdateUser
  <2>2. CredKeeps(0)
    BY <2>1, SameCred DEF MemoryInv
  <2>3. (call = [q \in Calls |-> call[q]])' /\ \A q \in Calls : MemoryCall(call[q])'
    BY <1>1, <2>2, MemoryCalls
  <2>4. /\ users' \in [People -> AccountRows]
        /\ \A v \in People : users'[v].pw = users[v].pw /\ users'[v].epoch = users[v].epoch
                             /\ (Active(v) => users'[v].status = "active")
    BY <1>1, <1>3, <1>7 DEF MemoryInv, Active
  <2>5. \A j \in DOMAIN cred : cred[j] \in CredRows
    BY DEF MemoryInv, SecretsSound
  <2>6. \A j \in DOMAIN cred : cred[j].user \in People
    BY <2>5 DEF CredRows
  <2>7. CredentialsFollowAccount'
    BY <2>1, <2>4, <2>6 DEF MemoryInv, CredentialsFollowAccount, Active
  <2>8. SecretsSound(cred')
    BY <2>2 DEF CredKeeps
  <2> QED BY <1>2, <1>4, <2>3, <2>4, <2>7, <2>8 DEF MemoryInv, SecretsSound
<1> QED BY <1>5, <1>6, <1>7

(* The first steps, and a login's second.                                   *)
LEMMA MemoryCallInv ==
  ASSUME MemoryInv, NEW q \in Calls,
         \/ \E u \in People : memorySetupAdmin(q, u) \/ memoryLogin(q, u)
         \/ \E k \in DOMAIN cred : memoryResetPassword(q, k)
         \/ memoryLoginCommit(q)
  PROVE  MemoryInv'
<1>1. ASSUME NEW u \in People, memorySetupAdmin(q, u) PROVE MemoryInv'
  <2>1. MemoryCall([op |-> "setup", user |-> u])
    BY DEF MemoryCall
  <2> QED BY <1>1, <2>1, MemoryBegins DEF memorySetupAdmin
<1>2. ASSUME NEW u \in People, memoryLogin(q, u) PROVE MemoryInv'
  <2>1. MemoryCall([op |-> "login", user |-> u, pw |-> users[u].pw])
    BY DEF MemoryCall
  <2> QED BY <1>2, <2>1, MemoryBegins DEF memoryLogin
<1>3. ASSUME NEW k \in DOMAIN cred, memoryResetPassword(q, k) PROVE MemoryInv'
  <2>1. MemoryCall([op |-> "reset", key |-> k])
    BY DEF MemoryCall
  <2>2. CASE Usable(k, "reset")
    BY <1>3, <2>1, <2>2, MemoryBegins DEF memoryResetPassword
  <2>3. CASE ~Usable(k, "reset")
    <3>1. cred' = DeadAt(k) /\ UNCHANGED <<users, setup, call>>
      BY <1>3, <2>3 DEF memoryResetPassword
    <3>2. CredKeeps(0) /\ Descends
      BY <3>1, DeadAtStep DEF MemoryInv
    <3> QED BY <3>1, <3>2, SameAccounts
  <2> QED BY <2>2, <2>3
<1>4. ASSUME memoryLoginCommit(q) PROVE MemoryInv'
  <2> DEFINE u == call[q].user
  <2>1. u \in People /\ End(q) /\ UNCHANGED <<users, setup>>
    BY <1>4 DEF memoryLoginCommit, MemoryInv, MemoryCall
  <2>2. CASE Active(u) /\ Issue("session", u, users[u])
    <3>1. "session" \in Kinds
      BY DEF Kinds
    <3> HIDE DEF u
    <3> QED BY <2>1, <2>2, <3>1, MemoryIssues
  <2>3. CASE cred' = cred
    BY <2>1, <2>3, SameCred, SameAccounts DEF MemoryInv
  <2> QED BY <1>4, <2>2, <2>3 DEF memoryLoginCommit
<1> QED BY <1>1, <1>2, <1>3, <1>4

(* A step on one credential.                                                *)
LEMMA MemoryUseInv ==
  ASSUME MemoryInv, NEW k \in DOMAIN cred,
         \/ memoryAuthenticateSession(k) \/ memoryRecoverSession(k) \/ memoryLogout(k)
         \/ memoryRevokeAPIToken(k) \/ memoryConsumeConsoleConnectionToken(k) \/ Expires(k)
  PROVE  MemoryInv'
<1>1. SecretsSound(cred)
  BY DEF MemoryInv
<1>2. UNCHANGED <<users, setup, call>>
  BY DEF memoryAuthenticateSession, memoryRecoverSession, memoryLogout, memoryRevokeAPIToken,
         memoryConsumeConsoleConnectionToken, Expires
<1>3. ASSUME NEW K, CredKeeps(K), Descends PROVE MemoryInv'
  BY <1>2, <1>3, SameAccounts
<1>4. CASE cred' = DeadAt(k)
  BY <1>1, <1>3, <1>4, DeadAtStep
<1>5. CASE Expires(k)
  BY <1>1, <1>3, <1>5, ExpireStep
<1>6. CASE memoryRecoverSession(k)
  BY <1>1, <1>3, <1>6, RotateStep DEF memoryRecoverSession, Usable, Live
<1>7. CASE Live(k, "console") /\ cred' = Consumed(cred, k)
  BY <1>1, <1>3, <1>7, UseStep DEF Live
<1> QED BY <1>4, <1>5, <1>6, <1>7 DEF memoryAuthenticateSession, memoryLogout, memoryRevokeAPIToken,
         memoryConsumeConsoleConnectionToken

(* Tokens that are issued, and memberships.                                 *)
LEMMA MemoryGrantInv ==
  ASSUME MemoryInv, NEW u \in People,
         \/ memoryCreateAPIToken(u) \/ memoryIssueConsoleConnectionToken(u)
         \/ \E a \in People :
              \/ memoryIssuePasswordResetToken(a, u)
              \/ \E permissions \in Memberships : memoryPutServerMembership(a, u, permissions)
              \/ memoryDeleteServerMembership(a, u)
  PROVE  MemoryInv'
<1>1. "api" \in Kinds /\ "console" \in Kinds /\ "reset" \in Kinds
  BY DEF Kinds
<1>2. CASE memoryCreateAPIToken(u)
  BY <1>1, <1>2, MemoryIssues DEF memoryCreateAPIToken
<1>3. CASE memoryIssueConsoleConnectionToken(u)
  BY <1>1, <1>3, MemoryIssues DEF memoryIssueConsoleConnectionToken, AuthorizeServer
<1>4. ASSUME NEW a \in People, memoryIssuePasswordResetToken(a, u) PROVE MemoryInv'
  BY <1>1, <1>4, MemoryIssues DEF memoryIssuePasswordResetToken
<1>5. ASSUME UNCHANGED <<users, cred, setup, call>> PROVE MemoryInv'
  BY <1>5, SameCred, SameAccounts DEF MemoryInv
<1> QED BY <1>2, <1>3, <1>4, <1>5 DEF memoryPutServerMembership, memoryDeleteServerMembership

(* An empty installation has no credential, and no administrator to lose.   *)
LEMMA MemoryStart == IdentityInit => MemoryInv
<1> SUFFICES ASSUME IdentityInit PROVE MemoryInv
  OBVIOUS
<1>1. cred \in Seq(CredRows) /\ DOMAIN cred = {}
  BY EmptySeq DEF IdentityInit
<1>2. call = [q \in Calls |-> call[q]] /\ \A q \in Calls : call[q].op = "idle"
  BY DEF IdentityInit, NoCall
<1>3. NoAccount \in AccountRows /\ NoAccount.status = "none"
  BY DEF NoAccount, AccountRows
<1>4. users \in [People -> AccountRows] /\ NoUsers /\ setup = 0
  BY <1>3 DEF IdentityInit, NoUsers
<1>5. SecretsSound(cred) /\ CredentialsFollowAccount
  BY <1>1 DEF SecretsSound, CredentialsFollowAccount
<1> QED BY <1>2, <1>4, <1>5 DEF MemoryInv, MemoryCall, AdministratorRemains

(* Every step of the store of development, by what it touches.              *)
LEMMA MemoryStep == MemoryInv /\ [MemoryIdentityNext]_identityVars => MemoryInv'
<1> SUFFICES ASSUME MemoryInv, [MemoryIdentityNext]_identityVars PROVE MemoryInv'
  OBVIOUS
<1>1. CASE UNCHANGED identityVars
  BY <1>1, SameCred, SameAccounts DEF identityVars, MemoryInv
<1>2. ASSUME NEW a \in People, NEW u \in People, NEW input \in Updates, memoryUpdateUser(a, u, input.status, input.admin)
      PROVE  MemoryInv'
  <2>1. input.status \in {"active", "disabled"} /\ input.admin \in BOOLEAN
    BY IdentityAssumption
  <2> QED BY <1>2, <2>1, MemoryUpdateInv
<1>3. CASE MemoryIdentityNext
  BY <1>2, <1>3, MemorySetupInv, MemoryCallInv, MemoryResetInv, MemoryUseInv, MemoryCreateInv, MemoryGrantInv
  DEF MemoryIdentityNext
<1> QED BY <1>1, <1>3

(* The invariant of the development store.                                  *)
THEOREM MemoryInvariant == MemoryIdentitySpec => []MemoryInv
<1>1. IdentityInit => MemoryInv
  BY MemoryStart
<1>2. MemoryInv /\ [MemoryIdentityNext]_identityVars => MemoryInv'
  BY MemoryStep
<1> QED BY <1>1, <1>2, PTL DEF MemoryIdentitySpec

(* In development mode a secret is used once, whatever happens between the  *)
(* two steps of the operations that hash a password.                        *)
THEOREM MemorySecretsUsedOnce == MemoryIdentitySpec => []SecretsUsedOnce
<1>1. MemoryInv => SecretsUsedOnce
  BY DEF MemoryInv, SecretsSound, SecretSound, SecretsUsedOnce
<1> QED BY <1>1, MemoryInvariant, PTL

(* Nor does a credential survive a password reset or the disabling of its   *)
(* account: one that works belongs to an active account and was issued      *)
(* after both.  Setup succeeds once, and after it an administrator remains. *)
THEOREM MemoryAccountsFollow == MemoryIdentitySpec => [](CredentialsFollowAccount /\ AdministratorRemains)
<1>1. MemoryInv => CredentialsFollowAccount /\ AdministratorRemains
  BY DEF MemoryInv
<1> QED BY <1>1, MemoryInvariant, PTL

(* The control plane with the store that it was started with: whatever      *)
(* requests meet, a secret is used once in either, and the promise of the   *)
(* development store about accounts holds wherever that is the store.       *)
IdentitySpec ==
    IdentityInit /\ [][MemoryIdentityNext \/ PostgresIdentityNext]_identityVars

(* The invariant of the store there is.                                     *)
IdentityInv ==
    /\ store \in {"memory", "postgres"}
    /\ store = "memory" => MemoryInv
    /\ store = "postgres" => PostgresInv

(* A process does not change its store, and each store keeps its invariant. *)
LEMMA IdentityKept ==
  IdentityInv /\ [MemoryIdentityNext \/ PostgresIdentityNext]_identityVars => IdentityInv'
<1> SUFFICES ASSUME IdentityInv, [MemoryIdentityNext \/ PostgresIdentityNext]_identityVars
             PROVE  IdentityInv'
  OBVIOUS
<1>1. CASE MemoryIdentityNext
  <2>1. store = "memory" /\ store' = store
    BY <1>1 DEF MemoryIdentityNext
  <2>2. MemoryInv'
    BY <1>1, <2>1, MemoryStep DEF IdentityInv
  <2> QED BY <2>1, <2>2 DEF IdentityInv
<1>2. CASE PostgresIdentityNext
  <2>1. store = "postgres" /\ store' = store
    BY <1>2 DEF PostgresIdentityNext
  <2>2. PostgresInv'
    BY <1>2, <2>1, PostgresStep DEF IdentityInv
  <2> QED BY <2>1, <2>2 DEF IdentityInv
<1>3. CASE UNCHANGED identityVars
  <2>1. store' = store
    BY <1>3 DEF identityVars
  <2>2. (MemoryInv => MemoryInv') /\ (PostgresInv => PostgresInv')
    BY <1>3, MemoryStep, PostgresStep
  <2> QED BY <2>1, <2>2 DEF IdentityInv
<1> QED BY <1>1, <1>2, <1>3

(* Secrets are used once in either store, and the development store keeps   *)
(* its credentials and its administrators.                                  *)
THEOREM IdentitySound == IdentitySpec => [](SecretsUsedOnce /\ MemoryAccountsSound)
<1>1. IdentityInit => IdentityInv
  BY MemoryStart, PostgresInit DEF IdentityInv, IdentityInit
<1>2. IdentityInv /\ [MemoryIdentityNext \/ PostgresIdentityNext]_identityVars => IdentityInv'
  BY IdentityKept
<1>3. IdentityInv => SecretsUsedOnce /\ MemoryAccountsSound
  BY DEF IdentityInv, MemoryInv, PostgresInv, SecretsSound, SecretSound, SecretsUsedOnce, MemoryAccountsSound
<1> QED BY <1>1, <1>2, <1>3, PTL DEF IdentitySpec

(* A store call in progress names what its second step will write.          *)
CallTyped(c) ==
    /\ c.op \in {"setup", "create", "update", "member"} => c.user \in People
    /\ c.op = "create" => c.admin \in BOOLEAN
    /\ c.op = "update" => c.input \in Updates
    /\ c.op = "member" => c.permissions \in Memberships \cup {{}}

(* Types that the invariants of the two stores do not need.                 *)
IdentityTypes ==
    /\ users \in [People -> AccountRows] /\ setup \in Nat
    /\ member \in [People -> Memberships \cup {{}}]
    /\ Len(cred) <= MaxCredentials
    /\ \A q \in Calls : CallTyped(call[q])

(* The table is as long as it was, or one row longer and not yet full.      *)
Grows ==
    \/ DOMAIN cred' = DOMAIN cred
    \/ Len(cred) < MaxCredentials /\ Len(cred') = Len(cred) + 1

(* What the steps that issue and rotate do to the length.                   *)
LEMMA LongerByOne ==
  ASSUME SecretsSound(cred)
  PROVE  /\ \A kind, u, account0 : Issue(kind, u, account0) => Grows
         /\ \A k \in DOMAIN cred : Len(cred) < MaxCredentials /\ cred' = Rotated(k) => Grows
<1>1. cred \in Seq(CredRows) /\ Killed(cred)
  BY DEF SecretsSound, Killed
<1>2. ASSUME NEW x \in Seq(CredRows), DOMAIN x = DOMAIN cred, NEW row, cred' = Append(x, row)
      PROVE  Len(cred') = Len(cred) + 1
  <2>1. Len(x) = Len(cred)
    BY <1>1, <1>2
  <2>2. Len(Append(x, row)) = Len(x) + 1
    BY <1>2
  <2> QED BY <1>2, <2>1, <2>2
<1>3. ASSUME NEW kind, NEW u, NEW account0, Issue(kind, u, account0) PROVE Grows
  BY <1>1, <1>2, <1>3 DEF Issue, Grows
<1>4. ASSUME NEW k \in DOMAIN cred, Len(cred) < MaxCredentials, cred' = Rotated(k) PROVE Grows
  <2>1. Consumed(cred, k) \in Seq(CredRows) /\ DOMAIN Consumed(cred, k) = DOMAIN cred
    BY <1>1, ConsumedKills DEF Killed
  <2>2. \E row : cred' = Append(Consumed(cred, k), row)
    BY <1>4 DEF Rotated
  <2> QED BY <1>2, <1>4, <2>1, <2>2 DEF Grows
<1> QED BY <1>3, <1>4

(* The steps that only revoke, use or expire.                               *)
LEMMA SameRows ==
  ASSUME SecretsSound(cred)
  PROVE  /\ \A u, kinds : cred' = RevokedOf(u, kinds) => Grows
         /\ \A k : cred' = DeadAt(k) => Grows
         /\ \A k : cred' = Consumed(cred, k) => Grows
         /\ \A u, kinds, k : cred' = Consumed(RevokedOf(u, kinds), k) => Grows
         /\ \A k : Expires(k) => Grows
         /\ UNCHANGED cred => Grows
BY DEF Grows, RevokedOf, DeadAt, Consumed, Expires

(* In both stores.                                                          *)
LEMMA MemoryGrows ==
  ASSUME SecretsSound(cred), MemoryIdentityNext
  PROVE  Grows
<1> HIDE DEF Grows
<1>1. ASSUME NEW q \in Calls, memorySetupCommit(q) \/ memoryLoginCommit(q) \/ memoryResetCommit(q) PROVE Grows
  BY <1>1, LongerByOne, SameRows DEF memorySetupCommit, memoryLoginCommit, memoryResetCommit
<1>2. ASSUME NEW q \in Calls, NEW u \in People, memorySetupAdmin(q, u) \/ memoryLogin(q, u) PROVE Grows
  BY <1>2, SameRows DEF memorySetupAdmin, memoryLogin
<1>3. ASSUME NEW q \in Calls, NEW k \in DOMAIN cred, memoryResetPassword(q, k) PROVE Grows
  BY <1>3, SameRows DEF memoryResetPassword
<1>4. ASSUME NEW k \in DOMAIN cred,
             \/ memoryAuthenticateSession(k) \/ memoryRecoverSession(k) \/ memoryLogout(k)
             \/ memoryRevokeAPIToken(k) \/ memoryConsumeConsoleConnectionToken(k) \/ Expires(k)
      PROVE  Grows
  BY <1>4, LongerByOne, SameRows
  DEF memoryAuthenticateSession, memoryRecoverSession, memoryLogout, memoryRevokeAPIToken,
      memoryConsumeConsoleConnectionToken
<1>5. ASSUME NEW a \in People, NEW u \in People, NEW admin \in BOOLEAN, memoryCreateUser(a, u, admin) PROVE Grows
  BY <1>5, SameRows DEF memoryCreateUser
<1>6. ASSUME NEW a \in People, NEW u \in People, NEW input \in Updates, memoryUpdateUser(a, u, input.status, input.admin)
      PROVE  Grows
  BY <1>6, SameRows DEF memoryUpdateUser
<1>7. ASSUME NEW a \in People, NEW u \in People,
             \/ memoryIssuePasswordResetToken(a, u) \/ memoryDeleteServerMembership(a, u)
             \/ \E permissions \in Memberships : memoryPutServerMembership(a, u, permissions)
             \/ memoryCreateAPIToken(u) \/ memoryIssueConsoleConnectionToken(u)
      PROVE  Grows
  BY <1>7, LongerByOne, SameRows
  DEF memoryIssuePasswordResetToken, memoryDeleteServerMembership, memoryPutServerMembership,
      memoryCreateAPIToken, memoryIssueConsoleConnectionToken
<1> QED BY <1>1, <1>2, <1>3, <1>4, <1>5, <1>6, <1>7 DEF MemoryIdentityNext

(* As above.                                                                *)
LEMMA PostgresGrows ==
  ASSUME SecretsSound(cred), PostgresIdentityNext
  PROVE  Grows
<1> HIDE DEF Grows
<1>1. ASSUME NEW q \in Calls,
             \/ CallFails(q) \/ postgresSetupInsert(q) \/ postgresCreateInsert(q) \/ postgresUpdateWrite(q)
             \/ postgresResetWrite(q) \/ postgresInsertCredential(q) \/ postgresWriteMembership(q)
      PROVE  Grows
  BY <1>1, LongerByOne, SameRows
  DEF CallFails, postgresSetupInsert, postgresCreateInsert, postgresUpdateWrite, postgresResetWrite,
      postgresInsertCredential, postgresWriteMembership
<1>2. ASSUME NEW k \in DOMAIN cred,
             \/ postgresAuthenticateSession(k) \/ postgresRecoverSession(k) \/ postgresLogout(k)
             \/ postgresRevokeAPIToken(k) \/ postgresConsumeConsoleConnectionToken(k) \/ Expires(k)
      PROVE  Grows
  BY <1>2, LongerByOne, SameRows
  DEF postgresAuthenticateSession, postgresRecoverSession, postgresLogout, postgresRevokeAPIToken,
      postgresConsumeConsoleConnectionToken
<1>3. ASSUME UNCHANGED cred PROVE Grows
  BY <1>3, SameRows
<1> QED BY <1>1, <1>2, <1>3
    DEF PostgresIdentityNext, postgresSetupAdmin, postgresLogin, postgresCreateAPIToken,
        postgresIssueConsoleConnectionToken, postgresResetPassword, postgresCreateUser, postgresUpdateUser,
        postgresIssuePasswordResetToken, postgresPutServerMembership, postgresDeleteServerMembership

(* The table does not outgrow its bound.                                    *)
LEMMA LengthTyped ==
  ASSUME SecretsSound(cred), SecretsSound(cred'), Len(cred) <= MaxCredentials, Grows
  PROVE  Len(cred') <= MaxCredentials
<1>1. /\ Len(cred) \in Nat /\ Len(cred') \in Nat
      /\ DOMAIN cred = 1 .. Len(cred) /\ DOMAIN cred' = 1 .. Len(cred')
  BY LenProperties DEF SecretsSound
<1>2. MaxCredentials \in Nat
  BY IdentityAssumption
<1>3. CASE DOMAIN cred' = DOMAIN cred
  <2>1. ASSUME NEW m \in Nat, NEW n \in Nat, 1 .. m = 1 .. n PROVE ~(m < n)
    <3>1. n \in 1 .. n => n \in 1 .. m
      BY <2>1
    <3> QED BY <3>1
  <2>2. ASSUME NEW m \in Nat, NEW n \in Nat, 1 .. m = 1 .. n PROVE m = n
    BY <2>1, <2>2
  <2>3. Len(cred') = Len(cred)
    BY <1>1, <1>3, <2>2, Zenon
  <2> QED BY <2>3
<1>4. CASE Len(cred) < MaxCredentials /\ Len(cred') = Len(cred) + 1
  BY <1>1, <1>2, <1>4
<1> QED BY <1>3, <1>4 DEF Grows

(* A call that begins with its arguments, and one that ends.                *)
LEMMA CallsTyped ==
  ASSUME \A q \in Calls : CallTyped(call[q]), call = [q \in Calls |-> call[q]]
  PROVE  /\ \A q \in Calls : \A c : Begin(q, c) /\ CallTyped(c) => \A p \in Calls : CallTyped(call'[p])
         /\ \A q \in Calls : End(q) => \A p \in Calls : CallTyped(call'[p])
         /\ UNCHANGED call => \A p \in Calls : CallTyped(call'[p])
<1>1. CallTyped(NoCall)
  BY DEF CallTyped, NoCall
<1> HIDE DEF CallTyped
<1> QED BY <1>1 DEF Begin, End

(* The development store: accounts and setup follow from its invariant.     *)
LEMMA MemoryTypes ==
  ASSUME MemoryInv, MemoryInv', IdentityTypes, MemoryIdentityNext
  PROVE  IdentityTypes'
<1>1. users' \in [People -> AccountRows] /\ setup' \in Nat
  BY DEF MemoryInv
<1>2. Len(cred') <= MaxCredentials
  BY MemoryGrows, LengthTyped DEF MemoryInv, IdentityTypes
<1>3. member' \in [People -> Memberships \cup {{}}]
  <2>1. ASSUME NEW u \in People, NEW P \in Memberships \cup {{}}, member' = [member EXCEPT ![u] = P]
        PROVE  member' \in [People -> Memberships \cup {{}}]
    BY <2>1 DEF IdentityTypes
  <2>2. CASE UNCHANGED member
    BY <2>2 DEF IdentityTypes
  <2>3. \/ UNCHANGED member
        \/ \E u \in People, P \in Memberships \cup {{}} : member' = [member EXCEPT ![u] = P]
    BY DEF MemoryIdentityNext, memorySetupAdmin, memoryLogin, memoryResetPassword, memorySetupCommit,
           memoryLoginCommit, memoryResetCommit, memoryAuthenticateSession, memoryRecoverSession,
           memoryLogout, memoryRevokeAPIToken, memoryConsumeConsoleConnectionToken, Expires,
           memoryCreateUser, memoryUpdateUser, memoryIssuePasswordResetToken,
           memoryPutServerMembership, memoryDeleteServerMembership, memoryCreateAPIToken,
           memoryIssueConsoleConnectionToken
  <2> QED BY <2>1, <2>2, <2>3
<1>4. \A p \in Calls : CallTyped(call'[p])
  <2>1. \A q \in Calls : CallTyped(call[q])
    BY DEF IdentityTypes
  <2>2. \/ UNCHANGED call
        \/ \E q \in Calls : End(q)
        \/ \E q \in Calls, u \in People : Begin(q, [op |-> "setup", user |-> u])
        \/ \E q \in Calls, u \in People : Begin(q, [op |-> "login", user |-> u, pw |-> users[u].pw])
        \/ \E q \in Calls, k \in DOMAIN cred : Begin(q, [op |-> "reset", key |-> k])
    BY DEF MemoryIdentityNext, memorySetupAdmin, memoryLogin, memoryResetPassword, memorySetupCommit,
           memoryLoginCommit, memoryResetCommit, memoryAuthenticateSession, memoryRecoverSession,
           memoryLogout, memoryRevokeAPIToken, memoryConsumeConsoleConnectionToken, Expires,
           memoryCreateUser, memoryUpdateUser, memoryIssuePasswordResetToken,
           memoryPutServerMembership, memoryDeleteServerMembership, memoryCreateAPIToken,
           memoryIssueConsoleConnectionToken
  <2>3. /\ \A u \in People : CallTyped([op |-> "setup", user |-> u])
        /\ \A u, n : CallTyped([op |-> "login", user |-> u, pw |-> n])
        /\ \A k : CallTyped([op |-> "reset", key |-> k])
    BY DEF CallTyped
  <2>4. call = [q \in Calls |-> call[q]]
    BY DEF MemoryInv
  <2> HIDE DEF CallTyped
  <2> QED BY <2>1, <2>2, <2>3, <2>4, CallsTyped
<1> QED BY <1>1, <1>2, <1>3, <1>4 DEF IdentityTypes, CallTyped

(* A transaction writes accounts and members that its call has named.       *)
LEMMA PostgresWrites ==
  ASSUME IdentityTypes, NEW q \in Calls,
         \/ postgresSetupInsert(q) \/ postgresCreateInsert(q)
         \/ postgresUpdateWrite(q) \/ postgresWriteMembership(q)
  PROVE  /\ users' \in [People -> AccountRows] /\ setup' \in Nat
         /\ member' \in [People -> Memberships \cup {{}}]
<1> DEFINE u == call[q].user
<1>1. CallTyped(call[q]) /\ users \in [People -> AccountRows] /\ setup \in Nat
  BY DEF IdentityTypes
<1>2. member \in [People -> Memberships \cup {{}}]
  BY DEF IdentityTypes
<1>3. ASSUME NEW admin \in BOOLEAN PROVE NewAccount(admin) \in AccountRows
  BY DEF NewAccount, AccountRows
<1>4. CASE postgresSetupInsert(q)
  <2>1. u \in People /\ users' = [users EXCEPT ![u] = NewAccount(TRUE)]
    BY <1>1, <1>4 DEF postgresSetupInsert, CallTyped
  <2>2. users' \in [People -> AccountRows]
    BY <2>1, <1>1, <1>3
  <2>3. member' = member /\ (setup' = setup \/ setup' = setup + 1)
    BY <1>4 DEF postgresSetupInsert
  <2> QED BY <2>2, <2>3, <1>1, <1>2
<1>5. CASE postgresCreateInsert(q)
  <2>1. u \in People /\ call[q].admin \in BOOLEAN /\ users' = [users EXCEPT ![u] = NewAccount(call[q].admin)]
    BY <1>1, <1>5 DEF postgresCreateInsert, CallTyped
  <2>2. users' \in [People -> AccountRows]
    BY <2>1, <1>1, <1>3
  <2>3. member' = member /\ (setup' = setup \/ setup' = setup + 1)
    BY <1>5 DEF postgresCreateInsert
  <2> QED BY <2>2, <2>3, <1>1, <1>2
<1>6. CASE postgresUpdateWrite(q)
  <2> DEFINE input == call[q].input
             status == IF input.renamed THEN users[u].status ELSE input.status
  <2>1. u \in People /\ input \in Updates
    BY <1>1, <1>6 DEF postgresUpdateWrite, CallTyped
  <2>2. users' = [users EXCEPT ![u].status = status, ![u].admin = input.admin]
    BY <1>6 DEF postgresUpdateWrite
  <2>3. input.status \in {"active", "disabled"} /\ input.admin \in BOOLEAN
    BY <2>1, IdentityAssumption
  <2>4. users[u] \in AccountRows
    BY <1>1, <2>1
  <2>5. users[u].status \in {"none", "active", "disabled"}
    BY <2>4 DEF AccountRows
  <2>6. status \in {"none", "active", "disabled"}
    BY <2>3, <2>5
  <2> HIDE DEF input, status
  <2>7. users' = [users EXCEPT ![u] = [users[u] EXCEPT !.status = status, !.admin = input.admin]]
    BY <1>1, <2>1, <2>2, <2>4 DEF AccountRows
  <2>8. [users[u] EXCEPT !.status = status, !.admin = input.admin] \in AccountRows
    BY <2>3, <2>4, <2>6 DEF AccountRows
  <2>9. users' \in [People -> AccountRows]
    BY <1>1, <2>1, <2>7, <2>8
  <2> QED BY <2>9, <1>1, <1>2, <1>6 DEF postgresUpdateWrite
<1>7. CASE postgresWriteMembership(q)
  <2>1. /\ u \in People /\ call[q].permissions \in Memberships \cup {{}}
        /\ member' = [member EXCEPT ![u] = call[q].permissions]
    BY <1>1, <1>7 DEF postgresWriteMembership, CallTyped
  <2>2. member' \in [People -> Memberships \cup {{}}]
    BY <2>1, <1>2
  <2> QED BY <2>2, <1>1, <1>7 DEF postgresWriteMembership
<1> QED BY <1>4, <1>5, <1>6, <1>7

(* What the production store begins names users, updates and permissions.   *)
LEMMA PostgresCallTyped ==
  ASSUME PostgresInv, IdentityTypes, PostgresIdentityNext
  PROVE  \A p \in Calls : CallTyped(call'[p])
<1>1. (\A q \in Calls : CallTyped(call[q])) /\ call = [q \in Calls |-> call[q]]
  BY DEF IdentityTypes, PostgresInv
<1>2. ASSUME NEW u \in People
      PROVE  /\ CallTyped([op |-> "setup", user |-> u])
             /\ \A kind : CallTyped([op |-> "insert", kind |-> kind, user |-> u])
             /\ \A admin \in BOOLEAN : CallTyped([op |-> "create", user |-> u, admin |-> admin])
             /\ \A input \in Updates : CallTyped([op |-> "update", user |-> u, input |-> input])
             /\ \A P \in Memberships \cup {{}} : CallTyped([op |-> "member", user |-> u, permissions |-> P])
  BY DEF CallTyped
<1>3. \A k : CallTyped([op |-> "reset", key |-> k])
  BY DEF CallTyped
<1> HIDE DEF CallTyped
<1>4. ASSUME NEW q \in Calls, NEW u \in People,
             \/ postgresSetupAdmin(q, u) \/ postgresLogin(q, u)
             \/ postgresCreateAPIToken(q, u) \/ postgresIssueConsoleConnectionToken(q, u)
      PROVE  \A p \in Calls : CallTyped(call'[p])
  BY <1>1, <1>2, <1>4, CallsTyped
  DEF postgresSetupAdmin, postgresLogin, postgresCreateAPIToken, postgresIssueConsoleConnectionToken
<1>5. ASSUME NEW q \in Calls, NEW k \in DOMAIN cred, postgresResetPassword(q, k)
      PROVE  \A p \in Calls : CallTyped(call'[p])
  BY <1>1, <1>3, <1>5, CallsTyped DEF postgresResetPassword
<1>6. ASSUME NEW q \in Calls,
             \/ CallFails(q) \/ postgresSetupInsert(q) \/ postgresCreateInsert(q) \/ postgresUpdateWrite(q)
             \/ postgresResetWrite(q) \/ postgresInsertCredential(q) \/ postgresWriteMembership(q)
      PROVE  \A p \in Calls : CallTyped(call'[p])
  <2>1. End(q)
    BY <1>6 DEF CallFails, postgresSetupInsert, postgresCreateInsert, postgresUpdateWrite,
                postgresResetWrite, postgresInsertCredential, postgresWriteMembership
  <2> QED BY <1>1, <2>1, CallsTyped
<1>7. ASSUME NEW q \in Calls, NEW a \in People, NEW u \in People,
             \/ \E admin \in BOOLEAN : postgresCreateUser(q, a, u, admin)
             \/ \E input \in Updates : postgresUpdateUser(q, a, u, input)
             \/ postgresIssuePasswordResetToken(q, a, u)
             \/ \E permissions \in Memberships : postgresPutServerMembership(q, a, u, permissions)
             \/ postgresDeleteServerMembership(q, a, u)
      PROVE  \A p \in Calls : CallTyped(call'[p])
  <2>1. \/ \E admin \in BOOLEAN : Begin(q, [op |-> "create", user |-> u, admin |-> admin])
        \/ \E input \in Updates : Begin(q, [op |-> "update", user |-> u, input |-> input])
        \/ Begin(q, [op |-> "insert", kind |-> "reset", user |-> u])
        \/ \E P \in Memberships \cup {{}} : Begin(q, [op |-> "member", user |-> u, permissions |-> P])
    BY <1>7 DEF postgresCreateUser, postgresUpdateUser, postgresIssuePasswordResetToken,
                postgresPutServerMembership, postgresDeleteServerMembership
  <2> QED BY <1>1, <1>2, <2>1, CallsTyped
<1>8. ASSUME NEW k \in DOMAIN cred,
             \/ postgresAuthenticateSession(k) \/ postgresRecoverSession(k) \/ postgresLogout(k)
             \/ postgresRevokeAPIToken(k) \/ postgresConsumeConsoleConnectionToken(k) \/ Expires(k)
      PROVE  \A p \in Calls : CallTyped(call'[p])
  <2>1. UNCHANGED call
    BY <1>8 DEF postgresAuthenticateSession, postgresRecoverSession, postgresLogout,
                postgresRevokeAPIToken, postgresConsumeConsoleConnectionToken, Expires
  <2> QED BY <1>1, <2>1, CallsTyped
<1> QED BY <1>4, <1>5, <1>6, <1>7, <1>8 DEF PostgresIdentityNext

(* The production store: what is written was typed when the call began.     *)
LEMMA PostgresTypes ==
  ASSUME PostgresInv, PostgresInv', IdentityTypes, PostgresIdentityNext
  PROVE  IdentityTypes'
<1>1. Len(cred') <= MaxCredentials
  BY PostgresGrows, LengthTyped DEF PostgresInv, IdentityTypes
<1>2. /\ users' \in [People -> AccountRows] /\ setup' \in Nat
      /\ member' \in [People -> Memberships \cup {{}}]
  <2>1. \/ UNCHANGED <<users, setup, member>>
        \/ \E q \in Calls :
              \/ postgresSetupInsert(q) \/ postgresCreateInsert(q)
              \/ postgresUpdateWrite(q) \/ postgresWriteMembership(q)
    BY DEF PostgresIdentityNext, postgresSetupAdmin, postgresLogin, postgresCreateAPIToken,
           postgresIssueConsoleConnectionToken, postgresResetPassword, CallFails, postgresResetWrite,
           postgresInsertCredential, postgresCreateUser, postgresUpdateUser,
           postgresIssuePasswordResetToken, postgresPutServerMembership,
           postgresDeleteServerMembership, postgresAuthenticateSession, postgresRecoverSession,
           postgresLogout, postgresRevokeAPIToken, postgresConsumeConsoleConnectionToken, Expires
  <2>2. CASE UNCHANGED <<users, setup, member>>
    BY <2>2 DEF IdentityTypes
  <2>3. ASSUME NEW q \in Calls,
               \/ postgresSetupInsert(q) \/ postgresCreateInsert(q)
               \/ postgresUpdateWrite(q) \/ postgresWriteMembership(q)
        PROVE  /\ users' \in [People -> AccountRows] /\ setup' \in Nat
               /\ member' \in [People -> Memberships \cup {{}}]
    BY <2>3, PostgresWrites
  <2> QED BY <2>1, <2>2, <2>3
<1>3. \A p \in Calls : CallTyped(call'[p])
  BY PostgresCallTyped
<1> QED BY <1>1, <1>2, <1>3 DEF IdentityTypes, CallTyped

(* Accounts, credentials, memberships and the setup counter have their      *)
(* types in both stores, and no more credentials are issued than the bound. *)
THEOREM IdentityTypeCorrect == IdentitySpec => []IdentityTypeOK
<1> DEFINE Inv == IdentityInv /\ IdentityTypes
<1>1. IdentityInit => Inv
  <2> SUFFICES ASSUME IdentityInit PROVE Inv
    OBVIOUS
  <2>1. IdentityInv
    BY MemoryStart, PostgresInit DEF IdentityInv, IdentityInit
  <2>2. users \in [People -> AccountRows] /\ setup = 0 /\ member \in [People -> Memberships \cup {{}}]
    BY DEF IdentityInit, NoAccount, AccountRows
  <2>3. Len(cred) <= MaxCredentials
    BY IdentityAssumption DEF IdentityInit
  <2>4. \A q \in Calls : CallTyped(call[q])
    BY DEF IdentityInit, CallTyped, NoCall
  <2> HIDE DEF CallTyped
  <2> QED BY <2>1, <2>2, <2>3, <2>4 DEF IdentityTypes
<1>2. Inv /\ [MemoryIdentityNext \/ PostgresIdentityNext]_identityVars => Inv'
  <2> SUFFICES ASSUME Inv, [MemoryIdentityNext \/ PostgresIdentityNext]_identityVars
               PROVE  Inv'
    OBVIOUS
  <2>1. IdentityInv'
    BY IdentityKept
  <2>2. CASE MemoryIdentityNext
    <3>1. store = "memory" /\ store' = store
      BY <2>2 DEF MemoryIdentityNext
    <3>2. MemoryInv /\ MemoryInv'
      BY <2>1, <3>1 DEF IdentityInv
    <3> QED BY <2>1, <2>2, <3>2, MemoryTypes
  <2>3. CASE PostgresIdentityNext
    <3>1. store = "postgres" /\ store' = store
      BY <2>3 DEF PostgresIdentityNext
    <3>2. PostgresInv /\ PostgresInv'
      BY <2>1, <3>1 DEF IdentityInv
    <3> QED BY <2>1, <2>3, <3>2, PostgresTypes
  <2>4. CASE UNCHANGED identityVars
    <3>1. IdentityTypes'
      BY <2>4 DEF identityVars, IdentityTypes, CallTyped
    <3> QED BY <2>1, <3>1
  <2> QED BY <2>2, <2>3, <2>4
<1>3. Inv => IdentityTypeOK
  <2> SUFFICES ASSUME Inv PROVE IdentityTypeOK
    OBVIOUS
  <2>1. SecretsSound(cred) /\ store \in {"memory", "postgres"}
    BY DEF IdentityInv, MemoryInv, PostgresInv
  <2>2. ASSUME NEW k \in DOMAIN cred
        PROVE  cred[k] \in [kind : Kinds, user : People, pw : Nat, epoch : Nat, used : 0 .. 1,
                            state : {"live", "expired", "dead"}]
    <3>1. cred[k] \in CredRows /\ cred[k].used <= 1
      BY <2>1 DEF SecretsSound, SecretSound
    <3>2. cred[k].used \in 0 .. 1
      BY <3>1 DEF CredRows
    <3> QED BY <3>1, <3>2 DEF CredRows
  <2>3. users \in [People -> AccountRows] /\ setup \in Nat /\ member \in [People -> Memberships \cup {{}}]
        /\ Len(cred) <= MaxCredentials
    BY DEF IdentityTypes
  <2> QED BY <2>1, <2>2, <2>3 DEF IdentityTypeOK, AccountRows
<1> HIDE DEF Inv
<1> QED BY <1>1, <1>2, <1>3, PTL DEF IdentitySpec

-----------------------------------------------------------------------------
(* Operations of the development store.                                     *)

BackupTypes == {"backup", "restore", "backup-delete"}
OperationTypes == PowerTypes \cup BackupTypes \cup {"provision", "reconcile"}
PointStates == {"absent", "creating", "ready", "failed", "restoring", "deleting", "deleted"}
Locked == {"creating", "restoring", "deleting"}
LockOf == {<<"backup", "creating">>, <<"restore", "restoring">>, <<"backup-delete", "deleting">>}

Rows == [type : OperationTypes, status : {"queued", "running", "succeeded", "failed"},
         generation : Nat, point : Points \cup {"none"}, from : PointStates \cup {"none"}]
Servers == [lifecycle : {"absent", "provisioning", "ready"}, desired : {"running", "stopped"},
            observed : {"running", "stopped", "starting", "stopping", "unknown"},
            generation : Nat, observedGeneration : Nat, container : BOOLEAN]

(* Besides types: an operation on a backup names one, and before the server *)
(* exists there are no operations and no backups, for CreateServer does not *)
(* look for operations that are under way.                                  *)
OperationsInv ==
    /\ operation = [o \in DOMAIN operation |-> operation[o]]
    /\ \A o \in DOMAIN operation :
         /\ operation[o] \in Rows
         /\ operation[o].type \in BackupTypes => operation[o].point \in Points
    /\ managed \in Servers /\ realRuntime \in BOOLEAN
    /\ point \in [Points -> PointStates]
    /\ managed.lifecycle = "absent" =>
         Unfinished = {} /\ \A b \in Points : point[b] = "absent"
    /\ OperationsAreSound

(* A number is free as long as there are numbers left.                      *)
LEMMA NextIsFree ==
  ASSUME Operations \ DOMAIN operation # {}
  PROVE  NextOperation \in Operations \ DOMAIN operation
<1> DEFINE free == Operations \ DOMAIN operation
           R == OpToRel(<, Nat)
<1>1. free \subseteq Nat
  BY MemoryOperationsAssumption
<1>2. \E o \in free : \A p \in free : ~(<<p, o>> \in R)
  <2> HIDE DEF free, R
  <2>1. free # {}
    BY DEF free
  <2>2. IsWellFoundedOn(R, Nat)
    BY NatLessThanWellFounded, Zenon DEF R
  <2> QED BY <1>1, <2>1, <2>2, WFMin, Zenon
<1>3. \A o, p \in free : ~(<<p, o>> \in R) => o <= p
  BY <1>1 DEF OpToRel
<1>4. \E o \in free : \A p \in free : o <= p
  BY <1>2, <1>3, Zenon
<1> QED BY <1>4 DEF NextOperation

(* A new row.                                                               *)
LEMMA EnqueueRow ==
  ASSUME OperationsInv, NEW type \in OperationTypes, NEW generation \in Nat, NEW b \in Points \cup {"none"}
  PROVE  [type |-> type, status |-> "queued", generation |-> generation, point |-> b,
          from |-> IF b \in Points THEN point[b] ELSE "none"] \in Rows
<1> DEFINE from == IF b \in Points THEN point[b] ELSE "none"
<1>1. from \in PointStates \cup {"none"}
  BY DEF OperationsInv
<1> HIDE DEF from
<1>2. [type |-> type, status |-> "queued", generation |-> generation, point |-> b, from |-> from] \in Rows
  BY <1>1 DEF Rows
<1> QED BY <1>2 DEF from

(* A request that nothing else is under way for creates the one operation   *)
(* that is.                                                                 *)
LEMMA EnqueueStep ==
  ASSUME OperationsInv, NEW scope, NEW digest, NEW type \in OperationTypes, NEW generation \in Nat,
         NEW b \in Points \cup {"none"}, type \in BackupTypes => b \in Points,
         Unfinished = {}, Enqueue(scope, digest, type, generation, b),
         managed' \in Servers, managed'.lifecycle # "absent", managed'.generation = generation,
         \/ type \notin BackupTypes /\ point' = point
         \/ \E lock \in Locked : <<type, lock>> \in LockOf /\ point' = [point EXCEPT ![b] = lock]
  PROVE  OperationsInv'
<1> DEFINE o == NextOperation
           row == [type |-> type, status |-> "queued", generation |-> generation, point |-> b,
                   from |-> IF b \in Points THEN point[b] ELSE "none"]
<1>1. o \notin DOMAIN operation
  BY NextIsFree DEF Enqueue
<1>2. operation' = [p \in DOMAIN operation \cup {o} |-> IF p = o THEN row ELSE operation[p]]
  BY DEF Enqueue
<1>3. row \in Rows /\ row.type = type /\ row.status = "queued" /\ row.generation = generation /\ row.point = b
  BY EnqueueRow
<1> HIDE DEF o, row
<1>4. /\ DOMAIN operation' = DOMAIN operation \cup {o} /\ operation'[o] = row
      /\ \A p \in DOMAIN operation : operation'[p] = operation[p]
  BY <1>1, <1>2
<1>5. Unfinished' = {o}
  <2>1. \A p \in DOMAIN operation : operation[p].status \in {"succeeded", "failed"}
    BY DEF Unfinished, isTerminalOperation
  <2> QED BY <1>1, <1>3, <1>4, <2>1 DEF Unfinished, isTerminalOperation
<1>6. \A c \in Points : point[c] \notin Locked
  BY DEF OperationsInv, OperationsAreSound, Locked
<1>7. point' \in [Points -> PointStates]
  BY DEF OperationsInv, Locked, PointStates, LockOf, BackupTypes
<1>8. ASSUME NEW c \in Points
      PROVE  point'[c] \in Locked <=> (b = c /\ <<type, point'[c]>> \in LockOf)
  <2>1. CASE type \notin BackupTypes /\ point' = point
    BY <1>6, <2>1 DEF LockOf, BackupTypes, Locked
  <2>2. ASSUME NEW lock \in Locked, <<type, lock>> \in LockOf, point' = [point EXCEPT ![b] = lock]
        PROVE  point'[c] \in Locked <=> (b = c /\ <<type, point'[c]>> \in LockOf)
    <3>1. point'[c] = IF c = b THEN lock ELSE point[c]
      BY <2>2 DEF OperationsInv
    <3> QED BY <1>6, <2>2, <3>1
  <2> QED BY <2>1, <2>2
<1>9. OperationsAreSound'
  <2>1. \A x, y \in Unfinished' : x = y
    BY <1>5
  <2>2. \A x \in Unfinished' : operation'[x].generation = managed'.generation
    BY <1>3, <1>4, <1>5
  <2>3. ASSUME NEW c \in Points
        PROVE  point'[c] \in {"creating", "restoring", "deleting"} <=>
               \E x \in Unfinished' :
                  /\ operation'[x].point = c
                  /\ <<operation'[x].type, point'[c]>> \in
                       {<<"backup", "creating">>, <<"restore", "restoring">>, <<"backup-delete", "deleting">>}
    BY <1>3, <1>4, <1>5, <1>8 DEF Locked, LockOf
  <2> QED BY <2>1, <2>2, <2>3 DEF OperationsAreSound, Targets
<1>10. \A p \in DOMAIN operation' : /\ operation'[p] \in Rows
                                    /\ operation'[p].type \in BackupTypes => operation'[p].point \in Points
  BY <1>3, <1>4 DEF OperationsInv
<1>11. operation' = [p \in DOMAIN operation' |-> operation'[p]]
  BY <1>2
<1> QED BY <1>7, <1>9, <1>10, <1>11 DEF OperationsInv, Enqueue

(* The operation that is under way ends; a backup it worked on is free.     *)
LEMMA FinishStep ==
  ASSUME OperationsInv, NEW o \in DOMAIN operation, operation[o].status = "running", UNCHANGED realRuntime,
         NEW status \in {"succeeded", "failed"}, operation' = [operation EXCEPT ![o].status = status],
         managed' \in Servers, managed'.lifecycle # "absent",
         point' \in [Points -> PointStates],
         \/ operation[o].type \notin BackupTypes /\ point' = point
         \/ \A c \in Points : point'[c] \notin Locked \/ (c # operation[o].point /\ point'[c] = point[c])
  PROVE  OperationsInv'
<1> DEFINE row == [operation[o] EXCEPT !.status = status]
<1>1. operation[o] \in Rows
  BY DEF OperationsInv
<1>2. row \in Rows /\ row.type = operation[o].type /\ row.point = operation[o].point /\ row.status = status
  BY <1>1 DEF Rows
<1>3. operation' = [operation EXCEPT ![o] = row]
  OBVIOUS
<1> HIDE DEF row
<1>4. /\ DOMAIN operation' = DOMAIN operation /\ operation'[o] = row
      /\ operation' = [p \in DOMAIN operation' |-> operation'[p]]
      /\ \A p \in DOMAIN operation : p # o => operation'[p] = operation[p]
  BY <1>3 DEF OperationsInv
<1>5. o \in Unfinished
  BY DEF Unfinished, isTerminalOperation
<1>6. \A p \in Unfinished : p = o
  BY <1>5 DEF OperationsInv, OperationsAreSound
<1>7. Unfinished' = {}
  BY <1>2, <1>4, <1>6 DEF Unfinished, isTerminalOperation
<1>8. \A c \in Points : point[c] \in Locked => operation[o].point = c /\ operation[o].type \in BackupTypes
  BY <1>6 DEF OperationsInv, OperationsAreSound, Locked, BackupTypes
<1>9. \A c \in Points : point'[c] \notin Locked
  BY <1>8
<1>10. OperationsAreSound'
  BY <1>7, <1>9 DEF OperationsAreSound, Locked
<1>11. \A p \in DOMAIN operation' : /\ operation'[p] \in Rows
                                    /\ operation'[p].type \in BackupTypes => operation'[p].point \in Points
  BY <1>2, <1>4 DEF OperationsInv
<1> QED BY <1>4, <1>10, <1>11 DEF OperationsInv

(* What a power request asks for.                                           *)
LEMMA RequestedServer ==
  ASSUME managed \in Servers, NEW action \in PowerTypes
  PROVE  /\ Requested(action) \in Servers /\ Requested(action).lifecycle = managed.lifecycle
         /\ Requested(action).generation = managed.generation + 1
<1> DEFINE d == CASE action = "start" -> "running"
                  [] action \in {"stop", "kill"} -> "stopped"
                  [] OTHER -> managed.desired
           s == IF action = "start" THEN "starting" ELSE "stopping"
           g == managed.generation + 1
<1>1. Requested(action) = [managed EXCEPT !.generation = g, !.desired = d, !.observed = s]
  BY DEF Requested
<1>2. d \in {"running", "stopped"} /\ s \in {"starting", "stopping"}
  BY DEF Servers, PowerTypes
<1>3. g \in Nat
  BY DEF Servers
<1> HIDE DEF d, s, g
<1>4. Requested(action) \in Servers /\ Requested(action).lifecycle = managed.lifecycle
      /\ Requested(action).generation = g
  BY <1>1, <1>2, <1>3 DEF Servers
<1> QED BY <1>4 DEF g

(* Requests.                                                                *)
LEMMA RequestInv ==
  ASSUME OperationsInv, NEW k \in RetryKeys,
         \/ CreateServer(k)
         \/ \E action \in PowerTypes : RequestPower(action, k)
         \/ \E g \in 0 .. MaxGeneration : requestReconcile(g, k)
         \/ \E b \in Points : CreateBackup(b, k) \/ RestoreBackup(b, k) \/ DeleteBackup(b, k)
  PROVE  OperationsInv'
<1>1. managed \in Servers
  BY DEF OperationsInv
<1>2. managed.generation \in Nat /\ managed.generation + 1 \in Nat
  BY <1>1 DEF Servers
<1>3. ASSUME UNCHANGED <<realRuntime, managed, operation, point>> PROVE OperationsInv'
  BY <1>3 DEF OperationsInv, OperationsAreSound, Unfinished, isTerminalOperation, Targets
<1>4. CASE CreateServer(k)
  <2> DEFINE m == [managed EXCEPT !.lifecycle = "provisioning", !.generation = 1]
  <2>1. m \in Servers /\ m.lifecycle = "provisioning" /\ m.generation = 1
    BY <1>1 DEF Servers
  <2>2. managed' = m /\ point' = point /\ Unfinished = {}
        /\ Enqueue(<<"create", "none", k>>, "none", "provision", 1, "none")
    BY <1>4 DEF CreateServer, OperationsInv
  <2> HIDE DEF m
  <2>3. "provision" \in OperationTypes /\ "provision" \notin BackupTypes
    BY DEF OperationTypes, BackupTypes
  <2> QED BY <2>1, <2>2, <2>3, EnqueueStep
<1>5. ASSUME NEW action \in PowerTypes, RequestPower(action, k) PROVE OperationsInv'
  <2>1. CASE \E o \in Unfinished : operation[o].type = action /\ JoinActive(<<"power", "none", k>>, action, o)
    BY <1>3, <2>1 DEF JoinActive
  <2>2. CASE /\ Unfinished = {} /\ managed.lifecycle = "ready" /\ managed' = Requested(action)
             /\ Enqueue(<<"power", "none", k>>, action, action, managed.generation + 1, "none")
             /\ UNCHANGED point
    <3>1. action \in OperationTypes /\ action \notin BackupTypes
      BY DEF OperationTypes, PowerTypes, BackupTypes
    <3>2. managed' \in Servers /\ managed'.lifecycle # "absent" /\ managed'.generation = managed.generation + 1
      BY <1>1, <2>2, RequestedServer
    <3> QED BY <1>2, <2>2, <3>1, <3>2, EnqueueStep
  <2> QED BY <1>5, <2>1, <2>2 DEF RequestPower
<1>6. ASSUME NEW g \in 0 .. MaxGeneration, requestReconcile(g, k) PROVE OperationsInv'
  <2> DEFINE m == [managed EXCEPT !.generation = managed.generation + 1]
  <2>1. m \in Servers /\ m.lifecycle = managed.lifecycle /\ m.generation = managed.generation + 1
    BY <1>1 DEF Servers
  <2>2. managed' = m /\ point' = point /\ Unfinished = {} /\ managed.lifecycle = "ready"
        /\ Enqueue(<<"reconcile", "none", k>>, g, "reconcile", managed.generation + 1, "none")
    BY <1>6 DEF requestReconcile
  <2> HIDE DEF m
  <2>3. "reconcile" \in OperationTypes /\ "reconcile" \notin BackupTypes
    BY DEF OperationTypes, BackupTypes
  <2> QED BY <1>2, <2>1, <2>2, <2>3, EnqueueStep
<1>7. ASSUME NEW b \in Points, CreateBackup(b, k) PROVE OperationsInv'
  <2>1. CASE \E o \in Unfinished : operation[o].type = "backup" /\ JoinActive(<<"backup", "none", k>>, "none", o)
    BY <1>3, <2>1 DEF JoinActive
  <2>2. CASE /\ Unfinished = {} /\ managed.lifecycle = "ready"
             /\ Enqueue(<<"backup", "none", k>>, "none", "backup", managed.generation, b)
             /\ point' = [point EXCEPT ![b] = "creating"]
             /\ UNCHANGED managed
    <3>1. "backup" \in OperationTypes /\ "creating" \in Locked /\ <<"backup", "creating">> \in LockOf
      BY DEF OperationTypes, BackupTypes, Locked, LockOf
    <3> QED BY <1>1, <1>2, <2>2, <3>1, EnqueueStep
  <2> QED BY <1>7, <2>1, <2>2 DEF CreateBackup
<1>8. ASSUME NEW b \in Points, RestoreBackup(b, k) PROVE OperationsInv'
  <2> DEFINE g == managed.generation + 1
             m == [managed EXCEPT !.generation = g, !.desired = "stopped"]
  <2>1. m \in Servers /\ m.lifecycle = managed.lifecycle /\ m.generation = managed.generation + 1
    <3>1. g \in Nat
      BY <1>2
    <3> HIDE DEF g
    <3>2. m \in Servers /\ m.lifecycle = managed.lifecycle /\ m.generation = g
      BY <1>1, <3>1 DEF Servers
    <3> QED BY <3>2 DEF g
  <2>2. managed' = m /\ point' = [point EXCEPT ![b] = "restoring"] /\ Unfinished = {} /\ managed.lifecycle = "ready"
        /\ Enqueue(<<"restore", b, k>>, b, "restore", managed.generation + 1, b)
    BY <1>8 DEF RestoreBackup
  <2> HIDE DEF m
  <2>3. "restore" \in OperationTypes /\ "restoring" \in Locked /\ <<"restore", "restoring">> \in LockOf
    BY DEF OperationTypes, BackupTypes, Locked, LockOf
  <2> QED BY <1>2, <2>1, <2>2, <2>3, EnqueueStep
<1>9. ASSUME NEW b \in Points, DeleteBackup(b, k) PROVE OperationsInv'
  <2>1. managed' = managed /\ point' = [point EXCEPT ![b] = "deleting"] /\ Unfinished = {}
        /\ Enqueue(<<"backup-delete", b, k>>, b, "backup-delete", managed.generation, b)
        /\ point[b] # "absent"
    BY <1>9 DEF DeleteBackup
  <2>2. managed.lifecycle # "absent"
    BY <2>1 DEF OperationsInv
  <2>3. "backup-delete" \in OperationTypes /\ "deleting" \in Locked /\ <<"backup-delete", "deleting">> \in LockOf
    BY DEF OperationTypes, BackupTypes, Locked, LockOf
  <2> QED BY <1>1, <1>2, <2>1, <2>2, <2>3, EnqueueStep
<1> QED BY <1>4, <1>5, <1>6, <1>7, <1>8, <1>9

(* What a goroutine that still targets the server's generation writes.      *)
LEMMA SeenServer ==
  ASSUME NEW m \in Servers
  PROVE  Seen(m) \in Servers /\ Seen(m).lifecycle = m.lifecycle
BY DEF Seen, Servers

(* An operation begins.                                                     *)
LEMMA BeginInv ==
  ASSUME OperationsInv, NEW o \in DOMAIN operation, beginOperation(o)
  PROVE  OperationsInv'
<1> DEFINE row == [operation[o] EXCEPT !.status = "running"]
<1>1. operation[o] \in Rows /\ operation[o].status = "queued"
  BY DEF OperationsInv, beginOperation
<1>2. row \in Rows /\ row.type = operation[o].type /\ row.point = operation[o].point /\ row.status = "running"
      /\ row.generation = operation[o].generation
  BY <1>1 DEF Rows
<1>3. operation' = [operation EXCEPT ![o] = row] /\ UNCHANGED <<managed, point>>
  BY DEF beginOperation
<1> HIDE DEF row
<1>4. /\ DOMAIN operation' = DOMAIN operation /\ operation'[o] = row
      /\ operation' = [p \in DOMAIN operation' |-> operation'[p]]
      /\ \A p \in DOMAIN operation : p # o => operation'[p] = operation[p]
  BY <1>3 DEF OperationsInv
<1>5. Unfinished' = Unfinished
  BY <1>1, <1>2, <1>4 DEF Unfinished, isTerminalOperation
<1>6. \A p \in DOMAIN operation : /\ operation'[p].type = operation[p].type
                                  /\ operation'[p].point = operation[p].point
                                  /\ operation'[p].generation = operation[p].generation
  BY <1>2, <1>4
<1>7. \A p \in Unfinished : p \in DOMAIN operation
  BY DEF Unfinished
<1>8. OperationsAreSound'
  <2>1. \A x, y \in Unfinished' : x = y
    BY <1>5 DEF OperationsInv, OperationsAreSound
  <2>2. \A x \in Unfinished' : operation'[x].generation = managed'.generation
    BY <1>3, <1>5, <1>6, <1>7 DEF OperationsInv, OperationsAreSound, Targets
  <2>3. ASSUME NEW c \in Points
        PROVE  point'[c] \in {"creating", "restoring", "deleting"} <=>
               \E x \in Unfinished' :
                  /\ operation'[x].point = c
                  /\ <<operation'[x].type, point'[c]>> \in
                       {<<"backup", "creating">>, <<"restore", "restoring">>, <<"backup-delete", "deleting">>}
    BY <1>3, <1>5, <1>6, <1>7 DEF OperationsInv, OperationsAreSound
  <2> QED BY <2>1, <2>2, <2>3 DEF OperationsAreSound, Targets
<1>9. \A p \in DOMAIN operation' : /\ operation'[p] \in Rows
                                   /\ operation'[p].type \in BackupTypes => operation'[p].point \in Points
  BY <1>2, <1>4 DEF OperationsInv
<1> QED BY <1>3, <1>4, <1>5, <1>8, <1>9 DEF OperationsInv, beginOperation

(* Goroutines end their operation, and the runtime may fail one.            *)
LEMMA GoroutineInv ==
  ASSUME OperationsInv, NEW o \in DOMAIN operation,
         \/ finishProvision(o) \/ finishPower(o) \/ runtimeFails(o) \/ finishReconcile(o)
         \/ finishBackup(o) \/ finishRestoreBackup(o) \/ finishDeleteBackup(o)
  PROVE  OperationsInv'
<1>1. managed \in Servers /\ operation[o] \in Rows /\ point \in [Points -> PointStates]
      /\ (operation[o].type \in BackupTypes => operation[o].point \in Points)
  BY DEF OperationsInv
<1>2. operation[o].status = "running" /\ UNCHANGED realRuntime
  BY DEF finishProvision, finishPower, runtimeFails, finishReconcile, finishBackup, finishRestoreBackup,
         finishDeleteBackup, Running, Complete
<1>3. o \in Unfinished
  BY <1>2 DEF Unfinished, isTerminalOperation
<1>4. Targets(o) /\ managed.lifecycle # "absent"
  BY <1>3 DEF OperationsInv, OperationsAreSound
<1>5. ASSUME NEW m \in Servers, m.lifecycle # "absent" PROVE Seen(m) \in Servers /\ Seen(m).lifecycle # "absent"
  BY <1>5, SeenServer
<1> DEFINE b == operation[o].point
<1>6. ASSUME NEW status \in {"succeeded", "failed"}, operation' = [operation EXCEPT ![o].status = status],
             managed' \in Servers, managed'.lifecycle # "absent",
             \/ operation[o].type \notin BackupTypes /\ point' = point
             \/ \E s \in PointStates \ Locked : b \in Points /\ point' = [point EXCEPT ![b] = s]
      PROVE  OperationsInv'
  <2>1. CASE operation[o].type \notin BackupTypes /\ point' = point
    BY <1>1, <1>2, <1>6, <2>1, FinishStep
  <2>2. ASSUME NEW s \in PointStates \ Locked, b \in Points, point' = [point EXCEPT ![b] = s] PROVE OperationsInv'
    <3>1. point' \in [Points -> PointStates] /\ point'[b] = s /\ \A c \in Points : c # b => point'[c] = point[c]
      BY <1>1, <2>2
    <3>2. \A c \in Points : point'[c] \notin Locked \/ (c # operation[o].point /\ point'[c] = point[c])
      BY <3>1
    <3> QED BY <1>2, <1>6, <3>1, <3>2, FinishStep
  <2> QED BY <1>6, <2>1, <2>2
<1>7. CASE finishProvision(o)
  <2> DEFINE m == [managed EXCEPT !.lifecycle = "ready", !.observed = "stopped", !.container = realRuntime]
  <2>1. operation[o].type = "provision" /\ point' = point /\ managed' = Seen(m)
        /\ operation' = [operation EXCEPT ![o].status = "succeeded"]
    BY <1>4, <1>7 DEF finishProvision, Complete, Running
  <2>2. m \in Servers /\ m.lifecycle = "ready"
    BY <1>1 DEF Servers, OperationsInv
  <2> HIDE DEF m
  <2>3. operation[o].type \notin BackupTypes
    BY <2>1 DEF BackupTypes
  <2> QED BY <1>5, <1>6, <2>1, <2>2, <2>3
<1>8. CASE finishPower(o)
  <2>1. PICK power \in {"running", "stopped", "starting", "unknown"} :
          managed' = Seen([managed EXCEPT !.observed = power])
    BY <1>4, <1>8 DEF finishPower
  <2> DEFINE m == [managed EXCEPT !.observed = power]
  <2>2. operation[o].type \in PowerTypes /\ point' = point /\ managed' = Seen(m)
        /\ operation' = [operation EXCEPT ![o].status = "succeeded"]
    BY <1>4, <1>8, <2>1 DEF finishPower, Complete, Running
  <2>3. m \in Servers /\ m.lifecycle # "absent"
    BY <1>1, <1>4 DEF Servers
  <2> HIDE DEF m
  <2>4. operation[o].type \notin BackupTypes
    BY <2>2 DEF BackupTypes, PowerTypes
  <2> QED BY <1>5, <1>6, <2>2, <2>3, <2>4
<1>9. CASE runtimeFails(o)
  <2>1. operation[o].type \in PowerTypes \cup {"provision"} /\ point' = point /\ managed' = managed
        /\ operation' = [operation EXCEPT ![o].status = "failed"]
    BY <1>9 DEF runtimeFails, Running
  <2>2. operation[o].type \notin BackupTypes
    BY <2>1 DEF BackupTypes, PowerTypes
  <2> QED BY <1>1, <1>4, <1>6, <2>1, <2>2
<1>10. CASE finishReconcile(o)
  <2>1. operation[o].type = "reconcile" /\ point' = point /\ managed' = Seen(managed)
        /\ operation' = [operation EXCEPT ![o].status = "succeeded"]
    BY <1>4, <1>10 DEF finishReconcile, Complete, Running
  <2>2. operation[o].type \notin BackupTypes
    BY <2>1 DEF BackupTypes
  <2> QED BY <1>1, <1>4, <1>5, <1>6, <2>1, <2>2
<1>11. {"ready", "deleted"} \subseteq PointStates \ Locked
  BY DEF PointStates, Locked
<1>12. CASE finishBackup(o)
  <2>1. operation[o].type = "backup" /\ point' = [point EXCEPT ![b] = "ready"] /\ managed' = managed
        /\ operation' = [operation EXCEPT ![o].status = "succeeded"]
    BY <1>4, <1>12 DEF finishBackup, Complete, Running
  <2>2. b \in Points
    BY <1>1, <2>1 DEF BackupTypes
  <2> HIDE DEF b
  <2> QED BY <1>1, <1>4, <1>6, <1>11, <2>1, <2>2
<1>13. CASE finishRestoreBackup(o)
  <2> DEFINE m == [managed EXCEPT !.desired = "stopped", !.observed = "stopped"]
  <2>1. operation[o].type = "restore" /\ point' = [point EXCEPT ![b] = "ready"] /\ managed' = Seen(m)
        /\ operation' = [operation EXCEPT ![o].status = "succeeded"]
    BY <1>4, <1>13 DEF finishRestoreBackup, Complete, Running
  <2>2. b \in Points
    BY <1>1, <2>1 DEF BackupTypes
  <2>3. m \in Servers /\ m.lifecycle # "absent"
    BY <1>1, <1>4 DEF Servers
  <2> HIDE DEF b, m
  <2> QED BY <1>5, <1>6, <1>11, <2>1, <2>2, <2>3
<1>14. CASE finishDeleteBackup(o)
  <2>1. operation[o].type = "backup-delete" /\ point' = [point EXCEPT ![b] = "deleted"] /\ managed' = managed
        /\ operation' = [operation EXCEPT ![o].status = "succeeded"]
    BY <1>4, <1>14 DEF finishDeleteBackup, Complete, Running
  <2>2. b \in Points
    BY <1>1, <2>1 DEF BackupTypes
  <2> HIDE DEF b
  <2> QED BY <1>1, <1>4, <1>6, <1>11, <2>1, <2>2
<1> QED BY <1>7, <1>8, <1>9, <1>10, <1>12, <1>13, <1>14

(* In development mode one operation of a server is under way at a time,    *)
(* none ends as stale, and a backup is locked exactly while the operation   *)
(* that locked it runs, although only the request checks under the lock and *)
(* the goroutine ends later.                                                *)
THEOREM MemoryOperationsAreSound == MemorySpec => []OperationsAreSound
<1>1. MemoryInit => OperationsInv
  <2> SUFFICES ASSUME MemoryInit PROVE OperationsInv
    OBVIOUS
  <2>1. DOMAIN operation = {} /\ operation = [o \in DOMAIN operation |-> operation[o]]
    BY EmptySeq DEF MemoryInit
  <2>2. managed \in Servers
    BY DEF MemoryInit, Servers
  <2>3. point \in [Points -> PointStates] /\ \A b \in Points : point[b] = "absent"
    BY DEF MemoryInit, PointStates
  <2>4. Unfinished = {}
    BY <2>1 DEF Unfinished
  <2>5. OperationsAreSound
    BY <2>3, <2>4 DEF OperationsAreSound
  <2> QED BY <2>1, <2>2, <2>3, <2>4, <2>5 DEF OperationsInv, MemoryInit
<1>2. OperationsInv /\ [MemoryNext]_memoryVars => OperationsInv'
  <2> SUFFICES ASSUME OperationsInv, [MemoryNext]_memoryVars PROVE OperationsInv'
    OBVIOUS
  <2>1. CASE UNCHANGED <<realRuntime, managed, operation, point>>
    BY <2>1 DEF OperationsInv, OperationsAreSound, Unfinished, isTerminalOperation, Targets
  <2>2. CASE Heartbeat \/ HeartbeatAges \/ reconcileNodeLiveness \/ UNCHANGED memoryVars
    BY <2>1, <2>2 DEF Heartbeat, HeartbeatAges, reconcileNodeLiveness, memoryVars
  <2>3. CASE MemoryNext
    BY <2>2, <2>3, RequestInv, BeginInv, GoroutineInv DEF MemoryNext
  <2> QED BY <2>2, <2>3
<1>3. OperationsInv => OperationsAreSound
  BY DEF OperationsInv
<1> QED BY <1>1, <1>2, <1>3, PTL DEF MemorySpec

-----------------------------------------------------------------------------
(* The limiter of attempts.                                                 *)

(* A set of natural numbers that is not empty has a least element.          *)
LEMMA LeastNatural ==
  ASSUME NEW S \in SUBSET Nat, S # {}
  PROVE  \E n \in S : \A m \in S : n <= m
<1> DEFINE R == OpToRel(<, Nat)
<1>1. IsWellFoundedOn(R, Nat)
  BY NatLessThanWellFounded
<1>2. \E n \in S : \A m \in S : ~(<<m, n>> \in R)
  <2> HIDE DEF R
  <2> QED BY <1>1, WFMin
<1>3. \A m, n \in Nat : m < n => <<m, n>> \in R
  BY DEF OpToRel
<1> HIDE DEF R
<1>4. PICK n \in S : \A m \in S : ~(<<m, n>> \in R)
  BY <1>2
<1>5. \A m \in S : n <= m
  <2> TAKE m \in S
  <2>1. ~(<<m, n>> \in R) /\ m \in Nat /\ n \in Nat
    BY <1>4
  <2>2. ~(m < n)
    BY <1>3, <2>1
  <2> QED BY <2>1, <2>2
<1> QED BY <1>5

(* The loop over firstCurrent: it stops, at the end or at a failure that    *)
(* counts, and what it has passed does not.                                 *)
LEMMA CurrentCuts ==
  ASSUME NEW f \in Seq(Nat), NEW now \in Nat
  PROVE  \E n \in 0 .. Len(f) :
            /\ \A i \in 1 .. n : f[i] + Window < now
            /\ n < Len(f) => f[n + 1] + Window >= now
            /\ Current(f, now) = SubSeq(f, n + 1, Len(f))
<1> DEFINE Stops(n) == n = Len(f) \/ f[n + 1] + Window >= now
           S == {n \in 0 .. Len(f) : Stops(n)}
           Fits(n) == /\ \A i \in 1 .. n : f[i] + Window < now
                      /\ n < Len(f) => f[n + 1] + Window >= now
<1>1. Window \in Nat /\ Len(f) \in Nat /\ \A i \in 1 .. Len(f) : f[i] \in Nat
  BY LimiterAssumption
<1>2. S \in SUBSET Nat /\ Len(f) \in S
  BY <1>1
<1>3. PICK n \in S : \A m \in S : n <= m
  <2> HIDE DEF S
  <2> QED BY <1>2, LeastNatural
<1>4. \A i \in 1 .. n : f[i] + Window < now
  <2> TAKE i \in 1 .. n
  <2>1. i - 1 \in 0 .. Len(f) /\ i - 1 < n /\ (i - 1) + 1 = i /\ i - 1 # Len(f)
    BY <1>1, <1>3
  <2>2. ~Stops(i - 1)
    <3>1. ~(n <= i - 1)
      BY <2>1, <1>1, <1>3
    <3>2. i - 1 \notin S
      BY <1>3, <3>1
    <3> QED BY <3>2, <2>1
  <2> QED BY <2>1, <2>2, <1>1
<1>5. n \in 0 .. Len(f) /\ Fits(n)
  BY <1>1, <1>3, <1>4
<1> DEFINE first == CHOOSE m \in 0 .. Len(f) : Fits(m)
<1>6. first \in 0 .. Len(f) /\ Fits(first)
  <2> HIDE DEF Fits
  <2> QED BY <1>5
<1>7. Current(f, now) = SubSeq(f, first + 1, Len(f))
  BY DEF Current
<1> HIDE DEF first
<1> QED BY <1>6, <1>7

EntryRows == [failures : Seq(Nat), blockedUntil : Nat, inFlight : Nat, lastActivity : Nat]

(* r is the end of f.                                                       *)
EndOf(r, f) ==
    \E d \in Nat : Len(f) = d + Len(r) /\ \A i \in 1 .. Len(r) : r[i] = f[d + i]

(* What an entry and the failures of its key that are younger than Window   *)
(* have to do with each other: without a block the entry has them all; a    *)
(* block begins when nothing is in flight any more, and outlives them.      *)
KeySound(s, r, now) ==
    /\ s \in EntryRows
    /\ r \in Seq(Nat) /\ \A i \in 1 .. Len(r) : r[i] <= now
    /\ Len(r) > 0 => r[1] + Window > now
    /\ Len(s.failures) + s.inFlight <= Maximum
    /\ s.blockedUntil = 0 => EndOf(r, s.failures)
    /\ s.blockedUntil # 0 =>
         /\ s.inFlight = 0 /\ s.failures = <<>> /\ Len(r) <= Maximum
         /\ \A i \in 1 .. Len(r) : r[i] + BlockFor <= s.blockedUntil

(* Cutting the failures that are too old keeps every one that is recent.    *)
LEMMA CurrentEnd ==
  ASSUME NEW f \in Seq(Nat), NEW r \in Seq(Nat), NEW now \in Nat,
         EndOf(r, f), Len(r) > 0 => r[1] + Window >= now
  PROVE  /\ Current(f, now) \in Seq(Nat) /\ Len(Current(f, now)) <= Len(f)
         /\ EndOf(r, Current(f, now))
<1>1. PICK n \in 0 .. Len(f) :
        /\ \A i \in 1 .. n : f[i] + Window < now
        /\ n < Len(f) => f[n + 1] + Window >= now
        /\ Current(f, now) = SubSeq(f, n + 1, Len(f))
  BY CurrentCuts
<1>2. PICK d \in Nat : Len(f) = d + Len(r) /\ \A i \in 1 .. Len(r) : r[i] = f[d + i]
  BY DEF EndOf
<1>3. Window \in Nat /\ Len(f) \in Nat /\ Len(r) \in Nat /\ \A i \in 1 .. Len(f) : f[i] \in Nat
  BY LimiterAssumption
<1>4. n <= d
  <2>1. CASE Len(r) = 0
    BY <2>1, <1>1, <1>2, <1>3
  <2>2. CASE Len(r) > 0
    <3>1. r[1] = f[d + 1] /\ d + 1 \in 1 .. Len(f) /\ r[1] + Window >= now
      BY <2>2, <1>2, <1>3
    <3>2. d + 1 \notin 1 .. n
      <4>1. SUFFICES ASSUME d + 1 \in 1 .. n PROVE FALSE
        OBVIOUS
      <4>2. f[d + 1] + Window < now /\ f[d + 1] \in Nat
        BY <4>1, <3>1, <1>1, <1>3
      <4> QED BY <4>2, <3>1, <1>3
    <3> QED BY <3>2, <1>1, <1>2, <1>3
  <2> QED BY <2>1, <2>2, <1>3
<1> DEFINE c == SubSeq(f, n + 1, Len(f))
<1>5. c \in Seq(Nat) /\ Len(c) = Len(f) - n /\ \A i \in 1 .. Len(f) - n : c[i] = f[n + i]
  BY <1>1, <1>3
<1>6. Len(c) = (d - n) + Len(r) /\ d - n \in Nat
  BY <1>1, <1>2, <1>3, <1>4, <1>5
<1> HIDE DEF c
<1>7. \A i \in 1 .. Len(r) : r[i] = c[(d - n) + i]
  <2> TAKE i \in 1 .. Len(r)
  <2>1. (d - n) + i \in 1 .. Len(f) - n /\ n + ((d - n) + i) = d + i
    BY <1>2, <1>3, <1>4, <1>1
  <2> QED BY <2>1, <1>2, <1>5
<1>8. EndOf(r, c)
  BY <1>6, <1>7 DEF EndOf
<1> QED BY <1>1, <1>5, <1>8, <1>3 DEF c

(* An entry as its fields, for the steps that change several of them.       *)
Entry(failures, blockedUntil, inFlight, lastActivity) ==
    [failures |-> failures, blockedUntil |-> blockedUntil, inFlight |-> inFlight,
     lastActivity |-> lastActivity]

(* The types of an entry, and of the parameters it is compared with.        *)
LEMMA RowTyped ==
  ASSUME NEW s \in EntryRows
  PROVE  /\ s.failures \in Seq(Nat) /\ Len(s.failures) \in Nat
         /\ s.blockedUntil \in Nat /\ s.inFlight \in Nat /\ s.lastActivity \in Nat
<1>1. /\ s.failures \in Seq(Nat) /\ s.blockedUntil \in Nat
      /\ s.inFlight \in Nat /\ s.lastActivity \in Nat
  BY DEF EntryRows
<1>2. ASSUME NEW f \in Seq(Nat) PROVE Len(f) \in Nat
  OBVIOUS
<1> QED BY <1>1, <1>2

(* As above, of an entry that an invariant speaks of.                       *)
LEMMA KeyTyped ==
  ASSUME NEW s, NEW r, NEW now, KeySound(s, r, now)
  PROVE  /\ s \in EntryRows /\ s.failures \in Seq(Nat) /\ Len(s.failures) \in Nat
         /\ s.blockedUntil \in Nat /\ s.inFlight \in Nat /\ s.lastActivity \in Nat
         /\ r \in Seq(Nat) /\ Len(r) \in Nat
         /\ Window \in Nat /\ BlockFor \in Nat /\ Window <= BlockFor /\ Maximum \in Nat
<1>1. s \in EntryRows /\ r \in Seq(Nat)
  BY DEF KeySound
<1>2. Len(r) \in Nat
  BY <1>1
<1>3. Window \in Nat /\ BlockFor \in Nat /\ Window <= BlockFor /\ Maximum \in Nat
  BY LimiterAssumption
<1> QED BY <1>1, <1>2, <1>3, RowTyped

(* What happens to an entry between its steps.                              *)
LEMMA PruneSound ==
  ASSUME time \in Nat, NEW s, NEW r, KeySound(s, r, time)
  PROVE  /\ KeySound(prune(s), r, time)
         /\ prune(s).inFlight = s.inFlight
         /\ prune(s).blockedUntil # 0 => Blocked(prune(s))
         /\ Len(prune(s).failures) <= Len(s.failures)
         /\ s.inFlight > 0 => prune(s).blockedUntil = 0
<1> DEFINE p == prune(s)
<1>1. /\ s \in EntryRows /\ s.failures \in Seq(Nat) /\ Len(s.failures) \in Nat
      /\ s.blockedUntil \in Nat /\ s.inFlight \in Nat /\ s.lastActivity \in Nat
      /\ r \in Seq(Nat) /\ Len(r) \in Nat
      /\ Window \in Nat /\ BlockFor \in Nat /\ Window <= BlockFor /\ Maximum \in Nat
  BY KeyTyped
<1>2. CASE time < s.blockedUntil
  <2>1. p = s
    BY <1>2 DEF prune
  <2>2. s.blockedUntil # 0 /\ s.inFlight = 0
    BY <1>1, <1>2 DEF KeySound
  <2> QED BY <2>1, <2>2, <1>1, <1>2 DEF Blocked
<1>3. CASE ~(time < s.blockedUntil) /\ s.blockedUntil # 0
  <2>1. p = Entry(<<>>, 0, s.inFlight, s.lastActivity)
    BY <1>1, <1>3 DEF prune, Entry, EntryRows
  <2>2. s.inFlight = 0 /\ s.failures = <<>> /\ \A i \in 1 .. Len(r) : r[i] + BlockFor <= s.blockedUntil
    BY <1>3 DEF KeySound
  <2>3. Len(r) = 0
    <3>1. SUFFICES ASSUME Len(r) # 0 PROVE FALSE
      OBVIOUS
    <3>2. 1 \in 1 .. Len(r) /\ r[1] \in Nat
      BY <3>1, <1>1
    <3>3. r[1] + BlockFor <= s.blockedUntil /\ r[1] + Window > time
      BY <3>2, <2>2, <1>1 DEF KeySound
    <3> QED BY <3>2, <3>3, <1>1, <1>3
  <2>4. <<>> \in Seq(Nat) /\ Len(<<>>) = 0
    OBVIOUS
  <2>5. EndOf(r, <<>>)
    BY <2>3, <2>4 DEF EndOf
  <2>6. p \in EntryRows /\ p.failures = <<>> /\ p.blockedUntil = 0 /\ p.inFlight = s.inFlight
    BY <2>1, <2>4, <1>1 DEF EntryRows, Entry
  <2> HIDE DEF p
  <2>7. KeySound(p, r, time)
    BY <2>2, <2>3, <2>4, <2>5, <2>6, <1>1 DEF KeySound
  <2>8. Len(p.failures) = 0 /\ Len(p.failures) <= Len(s.failures)
    BY <2>4, <2>6, <1>1
  <2>9. p.inFlight = s.inFlight /\ p.blockedUntil = 0 /\ (s.inFlight > 0 => p.blockedUntil = 0)
    BY <2>6
  <2> QED BY <2>7, <2>8, <2>9 DEF p
<1>4. CASE s.blockedUntil = 0
  <2> DEFINE c == Current(s.failures, time)
  <2>1. p = Entry(c, 0, s.inFlight, s.lastActivity)
    <3>1. ~(time < s.blockedUntil)
      BY <1>4
    <3>2. p = [s EXCEPT !.failures = c, !.blockedUntil = 0]
      BY <3>1, <1>4 DEF prune
    <3> HIDE DEF c, p
    <3> QED BY <3>2, <1>1 DEF Entry, EntryRows
  <2>2. EndOf(r, s.failures)
    BY <1>4 DEF KeySound
  <2>3. Len(r) > 0 => r[1] + Window >= time
    <3>1. ASSUME Len(r) > 0 PROVE r[1] \in Nat
      BY <3>1, <1>1
    <3> QED BY <3>1, <1>1 DEF KeySound
  <2>4. c \in Seq(Nat) /\ Len(c) <= Len(s.failures) /\ EndOf(r, c)
    BY <2>2, <2>3, <1>1, CurrentEnd
  <2> HIDE DEF c
  <2>5. p \in EntryRows /\ p.failures = c /\ p.blockedUntil = 0 /\ p.inFlight = s.inFlight
    BY <2>1, <2>4, <1>1 DEF EntryRows, Entry
  <2> HIDE DEF p
  <2>6. Len(c) \in Nat
    BY <2>4
  <2>7. Len(s.failures) + s.inFlight <= Maximum
    BY DEF KeySound
  <2>8. Len(c) + s.inFlight <= Maximum
    BY <2>4, <2>6, <2>7, <1>1
  <2>9. KeySound(p, r, time)
    BY <2>4, <2>5, <2>8 DEF KeySound
  <2> QED BY <2>4, <2>5, <2>9 DEF p
<1> QED BY <1>1, <1>2, <1>3, <1>4

(* An entry that says nothing has no failure that is recent.                *)
LEMMA StoreSound ==
  ASSUME NEW s, NEW r, NEW now, KeySound(s, r, now)
  PROVE  /\ KeySound(storeOrDelete(s), r, now)
         /\ storeOrDelete(s).inFlight = s.inFlight
         /\ storeOrDelete(s).blockedUntil = s.blockedUntil
         /\ storeOrDelete(s).failures = s.failures
         /\ storeOrDelete(s) = Absent => Len(r) = 0
<1>1. /\ s \in EntryRows /\ s.failures \in Seq(Nat) /\ Len(s.failures) \in Nat
      /\ s.inFlight \in Nat /\ r \in Seq(Nat) /\ Len(r) \in Nat /\ Maximum \in Nat
  BY KeyTyped
<1>2. /\ Absent \in EntryRows /\ Absent.failures = <<>> /\ Absent.blockedUntil = 0
      /\ Absent.inFlight = 0
  BY DEF Absent, EntryRows
<1>3. ASSUME s.failures = <<>>, s.blockedUntil = 0 PROVE Len(r) = 0
  <2>1. EndOf(r, <<>>)
    BY <1>3 DEF KeySound
  <2> QED BY <2>1, <1>1 DEF EndOf
<1>4. CASE Blank(s)
  <2>1. storeOrDelete(s) = Absent
    BY <1>4 DEF storeOrDelete
  <2>2. s.failures = <<>> /\ s.blockedUntil = 0 /\ s.inFlight = 0
    BY <1>4 DEF Blank
  <2> HIDE DEF Absent
  <2>3. KeySound(Absent, r, now)
    BY <2>2, <1>2 DEF KeySound
  <2> QED BY <2>1, <2>2, <2>3, <1>2, <1>3
<1>5. CASE ~Blank(s)
  <2>1. storeOrDelete(s) = s
    BY <1>5 DEF storeOrDelete
  <2>2. s # Absent
    BY <1>2, <1>5 DEF Blank
  <2> QED BY <2>1, <2>2
<1> QED BY <1>4, <1>5

(* A completed attempt: a failure is added, or begins a block when it is    *)
(* the last that is allowed, and then nothing else is in flight.            *)
LEMMA CompletedSound ==
  ASSUME time \in Nat, NEW s, NEW r, KeySound(s, r, time), s.inFlight > 0,
         NEW failure \in BOOLEAN, NEW reset \in BOOLEAN,
         NEW q, q = (IF failure THEN Append(r, time) ELSE IF reset THEN <<>> ELSE r)
  PROVE  /\ KeySound(Completed(s, failure, reset), q, time)
         /\ Completed(s, failure, reset).inFlight = s.inFlight - 1
         /\ Completed(s, failure, reset) = Absent => Len(q) = 0
<1> DEFINE p == prune(s)
           t == [p EXCEPT !.inFlight = IF @ > 0 THEN @ - 1 ELSE 0, !.lastActivity = time]
           u == IF failure THEN Failed(t)
                ELSE IF reset THEN [t EXCEPT !.failures = <<>>, !.blockedUntil = 0] ELSE t
           f == p.failures
           m == s.inFlight - 1
<1>1. KeySound(p, r, time) /\ p.inFlight = s.inFlight /\ p.blockedUntil = 0
  BY PruneSound
<1>2. /\ s.inFlight \in Nat /\ p \in EntryRows /\ r \in Seq(Nat)
      /\ \A i \in 1 .. Len(r) : r[i] <= time
      /\ Len(r) > 0 => r[1] + Window > time
      /\ Len(p.failures) + s.inFlight <= Maximum
      /\ EndOf(r, p.failures)
  <2> HIDE DEF p
  <2>1. s.inFlight \in Nat
    BY KeyTyped
  <2> QED BY <2>1, <1>1 DEF KeySound
<1>3. /\ Window \in Nat /\ Window > 0 /\ BlockFor \in Nat /\ Window <= BlockFor
      /\ Maximum \in Nat /\ Maximum > 0
  BY LimiterAssumption
<1>4. f \in Seq(Nat) /\ Len(f) \in Nat /\ Len(r) \in Nat /\ m \in Nat
  <2> HIDE DEF p
  <2> QED BY <1>2 DEF EntryRows
<1>5. PICK d \in Nat : Len(f) = d + Len(r) /\ \A i \in 1 .. Len(r) : r[i] = f[d + i]
  BY <1>2 DEF EndOf
<1>6. t = Entry(f, 0, m, time)
  <2>1. t = [p EXCEPT !.inFlight = m, !.lastActivity = time]
    <3> HIDE DEF p
    <3> QED BY <1>1
  <2> HIDE DEF p, t, m
  <2> QED BY <2>1, <1>1, <1>2, <1>4 DEF Entry, EntryRows
<1>7. Completed(s, failure, reset) = storeOrDelete(u)
  BY DEF Completed
<1> HIDE DEF p, t, f, m
<1>8. Len(f) + m + 1 <= Maximum
  BY <1>2, <1>4 DEF f, m
<1>9. KeySound(u, q, time) /\ u.inFlight = m
  <2>1. <<>> \in Seq(Nat) /\ Len(<<>>) = 0
    OBVIOUS
  <2>2. CASE failure
    <3>1. /\ q \in Seq(Nat) /\ Len(q) = Len(r) + 1 /\ q[Len(r) + 1] = time
          /\ \A i \in 1 .. Len(r) : q[i] = r[i] /\ r[i] \in Nat
      BY <2>2, <1>2
    <3>2. \A i \in 1 .. Len(q) : q[i] <= time /\ q[i] \in Nat
      <4> TAKE i \in 1 .. Len(q)
      <4>1. i \in 1 .. Len(r) \/ i = Len(r) + 1
        BY <3>1, <1>4
      <4> QED BY <4>1, <3>1, <1>2
    <3>3. q[1] + Window > time
      <4>1. CASE Len(r) = 0
        BY <4>1, <3>1, <1>3
      <4>2. CASE Len(r) > 0
        BY <4>2, <3>1, <1>2, <1>4
      <4> QED BY <4>1, <4>2, <1>4
    <3>4. ~Blocked(t) /\ u = Failed(t)
      BY <2>2, <1>6 DEF Blocked, Entry
    <3>5. CASE Len(f) + 1 >= Maximum
      <4>1. u = Entry(<<>>, time + BlockFor, m, time)
        BY <3>4, <3>5, <1>6 DEF Failed, Entry
      <4>2. m = 0 /\ Len(q) <= Maximum
        BY <3>1, <3>5, <1>3, <1>4, <1>5, <1>8
      <4>3. /\ u \in EntryRows /\ u.failures = <<>> /\ u.inFlight = m
            /\ u.blockedUntil = time + BlockFor /\ u.blockedUntil # 0
        <5> HIDE DEF u
        <5> QED BY <4>1, <2>1, <1>3, <1>4 DEF Entry, EntryRows
      <4>4. \A i \in 1 .. Len(q) : q[i] + BlockFor <= u.blockedUntil
        BY <4>3, <3>2, <1>3
      <4> HIDE DEF u
      <4> QED BY <4>2, <4>3, <4>4, <3>1, <3>2, <3>3, <2>1, <1>3 DEF KeySound
    <3>6. CASE ~(Len(f) + 1 >= Maximum)
      <4> DEFINE g == Append(f, time)
      <4>1. u = Entry(g, 0, m, time)
        BY <3>4, <3>6, <1>6 DEF Failed, Entry
      <4>2. /\ g \in Seq(Nat) /\ Len(g) = Len(f) + 1 /\ g[Len(f) + 1] = time
            /\ \A i \in 1 .. Len(f) : g[i] = f[i]
        BY <1>4
      <4> HIDE DEF g
      <4>3. /\ u \in EntryRows /\ u.failures = g /\ u.inFlight = m /\ u.blockedUntil = 0
        <5> HIDE DEF u
        <5> QED BY <4>1, <4>2, <1>4 DEF Entry, EntryRows
      <4>4. Len(g) = d + Len(q) /\ \A i \in 1 .. Len(q) : q[i] = g[d + i]
        <5>1. Len(g) = d + Len(q)
          BY <4>2, <3>1, <1>4, <1>5
        <5>2. ASSUME NEW i \in 1 .. Len(q) PROVE q[i] = g[d + i]
          <6>1. CASE i \in 1 .. Len(r)
            <7>1. d + i \in 1 .. Len(f)
              BY <6>1, <1>4, <1>5
            <7> QED BY <6>1, <7>1, <4>2, <3>1, <1>5
          <6>2. CASE i = Len(r) + 1
            <7>1. d + i = Len(f) + 1
              BY <6>2, <1>4, <1>5
            <7> QED BY <6>2, <7>1, <4>2, <3>1
          <6> QED BY <6>1, <6>2, <3>1, <1>4
        <5> QED BY <5>1, <5>2
      <4>5. EndOf(q, g)
        BY <4>4 DEF EndOf
      <4>6. Len(g) + m <= Maximum
        BY <4>2, <1>4, <1>8, <1>3
      <4> HIDE DEF u
      <4> QED BY <4>3, <4>5, <4>6, <3>1, <3>2, <3>3 DEF KeySound
    <3> QED BY <3>5, <3>6
  <2>3. CASE ~failure /\ reset
    <3>1. u = Entry(<<>>, 0, m, time) /\ q = <<>>
      BY <2>3, <1>6 DEF Entry
    <3>2. /\ u \in EntryRows /\ u.failures = <<>> /\ u.inFlight = m /\ u.blockedUntil = 0
      <4> HIDE DEF u
      <4> QED BY <3>1, <2>1, <1>4 DEF Entry, EntryRows
    <3>3. EndOf(<<>>, <<>>)
      BY <2>1 DEF EndOf
    <3>4. m <= Maximum
      BY <1>3, <1>4, <1>8
    <3>5. Len(u.failures) + u.inFlight <= Maximum
      <4> HIDE DEF u
      <4> QED BY <3>2, <3>4, <2>1, <1>4
    <3>6. q \in Seq(Nat) /\ Len(q) = 0 /\ EndOf(q, u.failures)
      <4> HIDE DEF u
      <4> QED BY <3>1, <3>2, <3>3, <2>1
    <3> HIDE DEF u
    <3> QED BY <3>2, <3>5, <3>6 DEF KeySound
  <2>4. CASE ~failure /\ ~reset
    <3>1. u = Entry(f, 0, m, time) /\ q = r
      BY <2>4, <1>6 DEF Entry
    <3>2. /\ u \in EntryRows /\ u.failures = f /\ u.inFlight = m /\ u.blockedUntil = 0
      <4> HIDE DEF u
      <4> QED BY <3>1, <1>4 DEF Entry, EntryRows
    <3>3. EndOf(r, f)
      BY <1>2 DEF f
    <3>4. Len(f) + m <= Maximum
      BY <1>3, <1>4, <1>8
    <3> HIDE DEF u
    <3> QED BY <3>1, <3>2, <3>3, <3>4, <1>2 DEF KeySound
  <2> QED BY <2>2, <2>3, <2>4
<1> HIDE DEF u
<1> QED BY <1>7, <1>9, StoreSound DEF m

(* Time passes: the failures that are Window old are recent no longer.      *)
LEMMA TickSound ==
  ASSUME NEW now \in Nat, NEW s, NEW r, KeySound(s, r, now)
  PROVE  KeySound(s, Current(r, now + 2), now + 1)
<1>1. /\ r \in Seq(Nat) /\ Len(r) \in Nat /\ now + 2 \in Nat /\ Window \in Nat
      /\ \A i \in 1 .. Len(r) : r[i] \in Nat /\ r[i] <= now
      /\ s \in EntryRows /\ s.blockedUntil \in Nat /\ BlockFor \in Nat /\ Maximum \in Nat
  <2>1. r \in Seq(Nat) /\ \A i \in 1 .. Len(r) : r[i] <= now
    BY DEF KeySound
  <2>2. s \in EntryRows /\ s.blockedUntil \in Nat
    BY KeyTyped
  <2> QED BY <2>1, <2>2, LimiterAssumption
<1>2. PICK n \in 0 .. Len(r) :
        /\ n < Len(r) => r[n + 1] + Window >= now + 2
        /\ Current(r, now + 2) = SubSeq(r, n + 1, Len(r))
  BY <1>1, CurrentCuts
<1> DEFINE c == SubSeq(r, n + 1, Len(r))
<1>3. c \in Seq(Nat) /\ Len(c) = Len(r) - n /\ \A i \in 1 .. Len(r) - n : c[i] = r[n + i]
  BY <1>1, <1>2
<1> HIDE DEF c
<1>4. \A i \in 1 .. Len(c) : n + i \in 1 .. Len(r) /\ c[i] = r[n + i]
  BY <1>1, <1>2, <1>3
<1>5. \A i \in 1 .. Len(c) : c[i] <= now + 1
  <2> TAKE i \in 1 .. Len(c)
  <2>1. c[i] \in Nat /\ c[i] <= now
    BY <1>1, <1>4
  <2> QED BY <2>1
<1>6. Len(c) > 0 => c[1] + Window > now + 1
  <2>1. SUFFICES ASSUME Len(c) > 0 PROVE c[1] + Window > now + 1
    OBVIOUS
  <2>2. n < Len(r) /\ c[1] = r[n + 1] /\ n + 1 \in 1 .. Len(r)
    BY <2>1, <1>1, <1>2, <1>3
  <2> QED BY <2>2, <1>1, <1>2
<1>7. s.blockedUntil = 0 => EndOf(c, s.failures)
  <2>1. SUFFICES ASSUME s.blockedUntil = 0 PROVE EndOf(c, s.failures)
    OBVIOUS
  <2>2. PICK d \in Nat : Len(s.failures) = d + Len(r) /\ \A i \in 1 .. Len(r) : r[i] = s.failures[d + i]
    BY <2>1 DEF KeySound, EndOf
  <2>3. d + n \in Nat /\ Len(s.failures) = (d + n) + Len(c)
    BY <2>2, <1>1, <1>2, <1>3
  <2>4. ASSUME NEW i \in 1 .. Len(c) PROVE c[i] = s.failures[(d + n) + i]
    <3>1. c[i] = s.failures[d + (n + i)]
      BY <1>4, <2>2
    <3> QED BY <3>1, <1>1, <1>2, <1>3, <2>2
  <2> QED BY <2>3, <2>4 DEF EndOf
<1>8. s.blockedUntil # 0 =>
        Len(c) <= Maximum /\ \A i \in 1 .. Len(c) : c[i] + BlockFor <= s.blockedUntil
  <2>1. SUFFICES ASSUME s.blockedUntil # 0
                 PROVE  Len(c) <= Maximum /\ \A i \in 1 .. Len(c) : c[i] + BlockFor <= s.blockedUntil
    OBVIOUS
  <2>2. Len(r) <= Maximum /\ \A i \in 1 .. Len(r) : r[i] + BlockFor <= s.blockedUntil
    BY <2>1 DEF KeySound
  <2>3. Len(c) <= Maximum
    BY <2>2, <1>1, <1>2, <1>3
  <2> QED BY <2>2, <2>3, <1>4
<1>9. KeySound(s, c, now + 1)
  BY <1>3, <1>5, <1>6, <1>7, <1>8 DEF KeySound
<1> QED BY <1>2, <1>9 DEF c

Holders(k) == {a \in Attempts : k \in attempt[a]}

(* Every key is sound and counts the attempts that hold it.                 *)
LimiterInv ==
    /\ time \in Nat
    /\ attempt \in [Attempts -> SUBSET LimitKeys]
    /\ \A k \in LimitKeys :
          /\ KeySound(entries[k], recent[k], time)
          /\ entries[k].inFlight = Cardinality(Holders(k))

(* An attempt that ends gives back one reservation of each of its keys.     *)
LEMMA CompleteInv ==
  ASSUME LimiterInv, NEW a \in Attempts, NEW failure \in BOOLEAN, NEW cleared,
         complete(a, failure, cleared)
  PROVE  LimiterInv'
<1>1. time' = time /\ attempt' = [attempt EXCEPT ![a] = {}] /\ attempt[a] \in SUBSET LimitKeys
  BY DEF complete, LimiterInv
<1>2. attempt' \in [Attempts -> SUBSET LimitKeys]
  BY <1>1 DEF LimiterInv
<1>3. ASSUME NEW k \in LimitKeys
      PROVE  /\ KeySound(entries'[k], recent'[k], time)
             /\ entries'[k].inFlight = Cardinality(Holders(k)')
  <2>1. KeySound(entries[k], recent[k], time) /\ entries[k].inFlight = Cardinality(Holders(k)) /\ time \in Nat
    BY DEF LimiterInv
  <2>2. IsFiniteSet(Holders(k))
    BY LimiterAssumption, FS_Subset DEF Holders
  <2>3. CASE k \notin attempt[a]
    <3>1. entries'[k] = entries[k] /\ recent'[k] = recent[k]
      BY <2>3 DEF complete
    <3>2. Holders(k)' = Holders(k)
      BY <2>3, <1>1 DEF Holders, LimiterInv
    <3> QED BY <2>1, <3>1, <3>2
  <2>4. CASE k \in attempt[a]
    <3>1. a \in Holders(k) /\ Holders(k)' = Holders(k) \ {a}
      BY <2>4, <1>1 DEF Holders, LimiterInv
    <3>2. Cardinality(Holders(k)') = Cardinality(Holders(k)) - 1 /\ Cardinality(Holders(k)) \in Nat
      BY <2>2, <3>1, FS_RemoveElement, FS_CardinalityType
    <3>3. entries[k].inFlight > 0
      <4>1. Cardinality(Holders(k)) # 0
        BY <2>2, <3>1, FS_EmptySet
      <4> QED BY <2>1, <3>2, <4>1
    <3>4. entries[k] # Absent
      BY <3>3 DEF Absent
    <3> DEFINE q == recent'[k]
               reset == k \in cleared
    <3>5. /\ entries'[k] = Completed(entries[k], failure, reset) /\ reset \in BOOLEAN
          /\ q = (IF failure THEN Append(recent[k], time) ELSE IF reset THEN <<>> ELSE recent[k])
      BY <2>4, <3>4 DEF complete
    <3> DEFINE s == entries[k]
               r == recent[k]
    <3>6. KeySound(s, r, time) /\ s.inFlight > 0 /\ time \in Nat /\ reset \in BOOLEAN
      BY <2>1, <3>3, <3>5
    <3>7. q = (IF failure THEN Append(r, time) ELSE IF reset THEN <<>> ELSE r)
      BY <3>5
    <3> HIDE DEF q, reset, s, r
    <3>8. /\ KeySound(Completed(s, failure, reset), q, time)
          /\ Completed(s, failure, reset).inFlight = s.inFlight - 1
      BY <3>6, <3>7, CompletedSound
    <3> QED BY <2>1, <3>2, <3>5, <3>8 DEF q, s
  <2> QED BY <2>3, <2>4
<1> HIDE DEF KeySound, Holders
<1> QED BY <1>1, <1>2, <1>3 DEF LimiterInv

(* What ensureCapacity may drop: entries of other keys without an attempt.  *)
LEMMA EvictionsSpare ==
  ASSUME NEW E, NEW keys, NEW V \in Evictions(E, keys), NEW k \in V
  PROVE  k \in LimitKeys /\ k \notin keys /\ E[k].inFlight = 0
BY DEF Evictions, Evictable, Kept

(* An attempt that is admitted takes one reservation of each of its keys.   *)
LEMMA ReserveInv ==
  ASSUME LimiterInv, NEW a \in Attempts, NEW keys \in SUBSET LimitKeys, Reserve(a, keys)
  PROVE  LimiterInv'
<1> DEFINE E == [k \in LimitKeys |-> storeOrDelete(prune(entries[k]))]
<1>1. /\ attempt[a] = {} /\ \A k \in keys : Admits(E[k])
      /\ time' = time /\ attempt' = [attempt EXCEPT ![a] = keys]
  BY DEF Reserve
<1>2. PICK V \in Evictions(E, keys) :
        /\ entries' = [k \in LimitKeys |->
                IF k \in keys THEN [E[k] EXCEPT !.inFlight = @ + 1, !.lastActivity = time]
                ELSE IF k \in V THEN Absent ELSE E[k]]
        /\ recent' = [k \in LimitKeys |-> IF k \in V THEN <<>> ELSE recent[k]]
  BY DEF Reserve
<1>3. attempt' \in [Attempts -> SUBSET LimitKeys]
  BY <1>1 DEF LimiterInv
<1>4. ASSUME NEW k \in LimitKeys
      PROVE  /\ KeySound(E[k], recent[k], time)
             /\ E[k].inFlight = entries[k].inFlight
             /\ E[k].blockedUntil # 0 => Blocked(E[k])
  <2> DEFINE p == prune(entries[k])
  <2>1. KeySound(entries[k], recent[k], time) /\ time \in Nat
    BY DEF LimiterInv
  <2>2. KeySound(p, recent[k], time) /\ p.inFlight = entries[k].inFlight /\ (p.blockedUntil # 0 => Blocked(p))
    BY <2>1, PruneSound
  <2>3. E[k] = storeOrDelete(p)
    OBVIOUS
  <2> HIDE DEF p, E
  <2>4. KeySound(E[k], recent[k], time) /\ E[k].inFlight = p.inFlight /\ E[k].blockedUntil = p.blockedUntil
    BY <2>2, <2>3, StoreSound
  <2> QED BY <2>2, <2>4 DEF Blocked
<1> HIDE DEF E
<1>5. ASSUME NEW k \in LimitKeys
      PROVE  /\ KeySound(entries'[k], recent'[k], time)
             /\ entries'[k].inFlight = Cardinality(Holders(k)')
  <2>1. entries[k].inFlight = Cardinality(Holders(k)) /\ IsFiniteSet(Holders(k)) /\ a \notin Holders(k) /\ time \in Nat
    BY <1>1, LimiterAssumption, FS_Subset DEF Holders, LimiterInv
  <2>2. KeySound(E[k], recent[k], time) /\ E[k].inFlight = entries[k].inFlight
    BY <1>4
  <2>3. CASE k \in keys
    <3>1. k \notin V /\ recent'[k] = recent[k]
      BY <2>3, <1>2, EvictionsSpare
    <3>2. Holders(k)' = Holders(k) \cup {a}
      BY <2>3, <1>1 DEF Holders, LimiterInv
    <3>3. Cardinality(Holders(k)') = Cardinality(Holders(k)) + 1
      BY <2>1, <3>2, FS_AddElement
    <3>4. E[k].blockedUntil = 0 /\ Len(E[k].failures) + E[k].inFlight < Maximum
      BY <2>3, <1>1, <1>4 DEF Admits
    <3> DEFINE s == E[k]
               r == recent[k]
               t == [s EXCEPT !.inFlight = @ + 1, !.lastActivity = time]
    <3>5. entries'[k] = t
      BY <2>3, <1>2
    <3>6. s \in EntryRows /\ s.inFlight \in Nat /\ Len(s.failures) \in Nat /\ Maximum \in Nat
      BY <2>2, KeyTyped
    <3>7. KeySound(s, r, time) /\ s.blockedUntil = 0 /\ Len(s.failures) + s.inFlight < Maximum
      BY <2>2, <3>4
    <3> HIDE DEF s, r
    <3>8. /\ t \in EntryRows /\ t.failures = s.failures /\ t.blockedUntil = 0
          /\ t.inFlight = s.inFlight + 1
      <4>1. t = [s EXCEPT !.inFlight = s.inFlight + 1, !.lastActivity = time]
        OBVIOUS
      <4>2. s.inFlight + 1 \in Nat
        BY <3>6
      <4> HIDE DEF t
      <4> QED BY <4>1, <4>2, <2>1, <3>6, <3>7 DEF EntryRows
    <3> HIDE DEF t
    <3>9. Len(t.failures) + t.inFlight <= Maximum
      BY <3>6, <3>7, <3>8
    <3>10. KeySound(t, r, time)
      BY <3>7, <3>8, <3>9 DEF KeySound
    <3>11. t.inFlight = Cardinality(Holders(k)')
      BY <2>1, <2>2, <3>3, <3>8 DEF s
    <3> QED BY <3>1, <3>5, <3>10, <3>11 DEF r
  <2>4. CASE k \notin keys
    <3>1. Holders(k)' = Holders(k)
      BY <2>4, <1>1 DEF Holders, LimiterInv
    <3>2. CASE k \in V
      <4>1. E[k].inFlight = 0
        BY <3>2, EvictionsSpare
      <4>2. entries'[k] = Absent /\ recent'[k] = <<>>
        BY <2>4, <3>2, <1>2
      <4>3. /\ Absent \in EntryRows /\ Absent.failures = <<>> /\ Absent.blockedUntil = 0
            /\ Absent.inFlight = 0 /\ <<>> \in Seq(Nat) /\ Len(<<>>) = 0 /\ Maximum \in Nat
        BY LimiterAssumption DEF Absent, EntryRows
      <4>4. EndOf(<<>>, <<>>)
        BY <4>3 DEF EndOf
      <4>5. KeySound(Absent, <<>>, time)
        <5> HIDE DEF Absent
        <5>1. Len(Absent.failures) + Absent.inFlight <= Maximum
          BY <4>3
        <5> QED BY <4>3, <4>4, <5>1 DEF KeySound
      <4> QED BY <4>1, <4>2, <4>3, <4>5, <2>1, <2>2, <3>1
    <3>3. CASE k \notin V
      BY <2>1, <2>2, <2>4, <3>1, <3>3, <1>2
    <3> QED BY <3>2, <3>3
  <2> QED BY <2>3, <2>4
<1> QED BY <1>1, <1>3, <1>5 DEF LimiterInv

(* An attempt that is refused: entries are pruned, nothing else.            *)
LEMMA RefusedInv ==
  ASSUME LimiterInv, NEW a \in Attempts, NEW keys, ReserveRefused(a, keys)
  PROVE  LimiterInv'
<1>1. UNCHANGED <<limiter, time, attempt, recent>>
  BY DEF ReserveRefused
<1>2. \A k \in LimitKeys : entries'[k] \in {entries[k], storeOrDelete(prune(entries[k]))}
  BY DEF ReserveRefused
<1>3. ASSUME NEW k \in LimitKeys
      PROVE  /\ KeySound(entries'[k], recent[k], time)
             /\ entries'[k].inFlight = entries[k].inFlight
  <2> DEFINE p == prune(entries[k])
  <2>1. KeySound(entries[k], recent[k], time) /\ time \in Nat
    BY DEF LimiterInv
  <2>2. KeySound(p, recent[k], time) /\ p.inFlight = entries[k].inFlight
    BY <2>1, PruneSound
  <2>3. entries'[k] \in {entries[k], storeOrDelete(p)}
    BY <1>2
  <2> HIDE DEF p
  <2>4. KeySound(storeOrDelete(p), recent[k], time) /\ storeOrDelete(p).inFlight = p.inFlight
    BY <2>2, StoreSound
  <2> QED BY <2>1, <2>2, <2>3, <2>4
<1>4. \A k \in LimitKeys : Holders(k)' = Holders(k)
  BY <1>1 DEF Holders
<1> QED BY <1>1, <1>3, <1>4 DEF LimiterInv

(* No key sees more than Maximum failures younger than Window, however many *)
(* attempts of it overlap and whatever entries had to make room: those in   *)
(* flight count as failures until they end, and a block lasts at least as   *)
(* long as the failures that began it are recent.                           *)
THEOREM AttemptsLimited == LimiterSpec => []AttemptsAreLimited
<1>1. LimiterInit => LimiterInv
  <2> SUFFICES ASSUME LimiterInit PROVE LimiterInv
    OBVIOUS
  <2>1. /\ Absent \in EntryRows /\ Absent.failures = <<>> /\ Absent.blockedUntil = 0
        /\ Absent.inFlight = 0 /\ <<>> \in Seq(Nat) /\ Len(<<>>) = 0 /\ Maximum \in Nat
    BY LimiterAssumption DEF Absent, EntryRows
  <2>2. EndOf(<<>>, <<>>)
    BY <2>1 DEF EndOf
  <2>3. KeySound(Absent, <<>>, 1)
    <3> HIDE DEF Absent
    <3>1. Len(Absent.failures) + Absent.inFlight <= Maximum
      BY <2>1
    <3> QED BY <2>1, <2>2, <3>1 DEF KeySound
  <2>4. time = 1 /\ \A k \in LimitKeys : entries[k] = Absent /\ recent[k] = <<>> /\ Holders(k) = {}
    BY DEF LimiterInit, Holders
  <2>5. attempt \in [Attempts -> SUBSET LimitKeys]
    BY DEF LimiterInit
  <2> HIDE DEF Absent
  <2>6. \A k \in LimitKeys : entries[k].inFlight = Cardinality(Holders(k))
    BY <2>1, <2>4, FS_EmptySet
  <2> QED BY <2>3, <2>4, <2>5, <2>6 DEF LimiterInv
<1>2. LimiterInv /\ [LimiterNext]_limiterVars => LimiterInv'
  <2> SUFFICES ASSUME LimiterInv, [LimiterNext]_limiterVars PROVE LimiterInv'
    OBVIOUS
  <2>1. ASSUME NEW a \in Attempts, login(a) \/ allowSensitiveRequest(a) PROVE LimiterInv'
    <3>1. PICK keys \in SUBSET LimitKeys : Reserve(a, keys) \/ ReserveRefused(a, keys)
      BY <2>1 DEF login, allowSensitiveRequest, LimitKeys
    <3> QED BY <3>1, ReserveInv, RefusedInv
  <2>2. ASSUME NEW a \in Attempts, loginFails(a) \/ passwordResetFails(a) PROVE LimiterInv'
    BY <2>2, CompleteInv DEF loginFails, passwordResetFails
  <2>3. ASSUME NEW a \in Attempts, loginSucceeds(a) \/ passwordReset(a) PROVE LimiterInv'
    BY <2>3, CompleteInv DEF loginSucceeds, passwordReset
  <2>4. CASE LimiterTick
    <3>1. time \in Nat /\ time' = time + 1 /\ UNCHANGED <<entries, attempt>>
      BY <2>4 DEF LimiterTick, LimiterInv
    <3>2. ASSUME NEW k \in LimitKeys PROVE KeySound(entries[k], recent'[k], time + 1)
      <4>1. recent'[k] = Current(recent[k], time + 2) /\ KeySound(entries[k], recent[k], time)
        BY <2>4 DEF LimiterTick, LimiterInv
      <4> QED BY <3>1, <4>1, TickSound
    <3>3. \A k \in LimitKeys : Holders(k)' = Holders(k)
      BY <3>1 DEF Holders
    <3>4. time + 1 \in Nat
      BY <3>1
    <3> QED BY <3>1, <3>2, <3>3, <3>4 DEF LimiterInv
  <2>5. CASE UNCHANGED limiterVars
    BY <2>5 DEF limiterVars, LimiterInv, Holders
  <2> QED BY <2>1, <2>2, <2>3, <2>4, <2>5 DEF LimiterNext
<1>3. LimiterInv => AttemptsAreLimited
  <2> SUFFICES ASSUME LimiterInv, NEW k \in LimitKeys
               PROVE  /\ Len(recent[k]) <= Maximum
                      /\ entries[k].inFlight = Cardinality({a \in Attempts : k \in attempt[a]})
                      /\ Len(entries[k].failures) + entries[k].inFlight <= Maximum
    BY DEF AttemptsAreLimited
  <2> DEFINE s == entries[k]
             r == recent[k]
  <2>1. KeySound(s, r, time) /\ s.inFlight = Cardinality(Holders(k))
    BY DEF LimiterInv
  <2> HIDE DEF s, r
  <2>2. /\ Len(r) \in Nat /\ Len(s.failures) \in Nat /\ s.inFlight \in Nat /\ Maximum \in Nat
        /\ Len(s.failures) + s.inFlight <= Maximum
    <3>1. Len(s.failures) + s.inFlight <= Maximum
      BY <2>1 DEF KeySound
    <3> QED BY <2>1, <3>1, KeyTyped
  <2>3. CASE s.blockedUntil = 0
    <3>1. Len(r) <= Len(s.failures)
      BY <2>1, <2>2, <2>3 DEF KeySound, EndOf
    <3> QED BY <2>1, <2>2, <3>1 DEF Holders, s, r
  <2>4. CASE s.blockedUntil # 0
    <3>1. Len(r) <= Maximum
      BY <2>1, <2>4 DEF KeySound
    <3> QED BY <2>1, <2>2, <3>1 DEF Holders, s, r
  <2> QED BY <2>3, <2>4
<1> QED BY <1>1, <1>2, <1>3, PTL DEF LimiterSpec

-----------------------------------------------------------------------------
(* Paging.                                                                  *)

(* While there is more to come, what was given lies up to the cursor and    *)
(* what stayed and was not given lies after it; nothing was given twice.    *)
ListingInv ==
    /\ visible \subseteq Times /\ stayed \subseteq visible
    /\ cursor \in Times \cup {0}
    /\ given \in [Times -> {0, 1}]
    /\ paging = "more" =>
         /\ \A x \in Times : given[x] = 1 => cursor # 0 /\ (x = cursor \/ Before(x, cursor))
         /\ \A x \in stayed : given[x] = 1 \/ cursor = 0 \/ Before(cursor, x)
    /\ paging = "all" => \A x \in stayed : given[x] = 1

(* A page: nothing on it was given before, and all that is left lies after  *)
(* its last item.                                                           *)
LEMMA GivenInv ==
  ASSUME ListingInv, paging = "more", Given(AfterCursor(cursor)),
         UNCHANGED <<listing, visible, stayed>>
  PROVE  ListingInv'
<1> DEFINE rest == AfterCursor(cursor)
<1>1. PICK page \in SUBSET rest :
        /\ \A x \in page, y \in rest \ page : Before(x, y)
        /\ IF Cardinality(rest) > PageSize
           THEN /\ Cardinality(page) = PageSize /\ paging' = "more"
                /\ \E last \in page : (\A x \in page : ~Before(last, x)) /\ cursor' = last
           ELSE page = rest /\ paging' = "all" /\ UNCHANGED cursor
        /\ given' = [x \in Times |-> IF x \in page THEN given[x] + 1 ELSE given[x]]
  BY DEF Given
<1>2. rest \subseteq Times /\ \A x \in visible : x \in rest <=> cursor = 0 \/ Before(cursor, x)
  BY DEF ListingInv, AfterCursor
<1>3. Times \subseteq Nat /\ 0 \notin Times /\ cursor \in Nat
  BY ListingAssumption DEF ListingInv
<1> HIDE DEF rest
<1>4. \A x \in page : given[x] = 0
  BY <1>1, <1>2, <1>3 DEF ListingInv, Before, AfterCursor, rest
<1>5. /\ given' \in [Times -> {0, 1}]
      /\ \A x \in Times : given'[x] = 1 <=> given[x] = 1 \/ x \in page
  BY <1>1, <1>2, <1>4 DEF ListingInv
<1>6. \A x, y : Before(x, y)' <=> Before(x, y)
  BY DEF Before
<1>7. CASE Cardinality(rest) > PageSize
  <2>1. PICK last \in page : (\A x \in page : ~Before(last, x)) /\ cursor' = last /\ paging' = "more"
    BY <1>1, <1>7
  <2>2. \A x \in page : x = last \/ Before(x, last)
    BY <2>1, <1>2, <1>3 DEF Before
  <2>3. cursor = 0 \/ Before(cursor, last)
    BY <2>1, <1>2 DEF AfterCursor, rest
  <2>4. \A x \in Times : given'[x] = 1 => x = last \/ Before(x, last)
    BY <2>1, <2>2, <2>3, <1>2, <1>3, <1>5 DEF ListingInv, Before
  <2>5. \A x \in stayed : given'[x] = 1 \/ Before(last, x)
    BY <2>1, <1>1, <1>2, <1>5 DEF ListingInv
  <2>6. last \in Times /\ last # 0
    BY <2>1, <1>2, <1>3
  <2> QED BY <2>1, <2>4, <2>5, <2>6, <1>5, <1>6 DEF ListingInv
<1>8. CASE ~(Cardinality(rest) > PageSize)
  <2>1. page = rest /\ paging' = "all" /\ cursor' = cursor
    BY <1>1, <1>8
  <2>2. \A x \in stayed : given'[x] = 1
    BY <2>1, <1>2, <1>5 DEF ListingInv
  <2> QED BY <2>1, <2>2, <1>5 DEF ListingInv
<1> QED BY <1>7, <1>8

(* However a list changes between two pages, a client that reaches its end  *)
(* has been given all that was visible throughout, and nothing twice.       *)
THEOREM PagingComplete == ListingSpec => []PagingIsComplete
<1>1. ListingInit => ListingInv
  BY DEF ListingInit, ListingInv
<1>2. ListingInv /\ [ListingNext]_listingVars => ListingInv'
  <2> SUFFICES ASSUME ListingInv, [ListingNext]_listingVars PROVE ListingInv'
    OBVIOUS
  <2>1. CASE paginate
    <3>1. CASE cursor = 0 \/ cursor \in visible
      BY <2>1, <3>1, GivenInv DEF paginate
    <3>2. CASE ~(cursor = 0 \/ cursor \in visible)
      BY <2>1, <3>2 DEF paginate, ListingInv
    <3> QED BY <3>1, <3>2
  <2>2. CASE AuditEventsPage
    BY <2>2, GivenInv DEF AuditEventsPage
  <2>3. ASSUME NEW x \in Times, Appears(x) PROVE ListingInv'
    BY <2>3 DEF Appears, ListingInv, Before
  <2>4. ASSUME NEW x \in Times, Disappears(x) PROVE ListingInv'
    BY <2>4 DEF Disappears, ListingInv, Before
  <2>5. CASE UNCHANGED listingVars
    BY <2>5 DEF listingVars, ListingInv, Before
  <2> QED BY <2>1, <2>2, <2>3, <2>4, <2>5 DEF ListingNext
<1>3. ListingInv => PagingIsComplete
  BY DEF ListingInv, PagingIsComplete
<1> QED BY <1>1, <1>2, <1>3, PTL DEF ListingSpec
=============================================================================
