------------------------------ MODULE MCAccess ------------------------------
(***************************************************************************)
(* What requests of users do and see: accounts and credentials in both     *)
(* stores, the gates of the HTTP API, the limiter of failed attempts,      *)
(* paged lists, and the operations of the development store.  The parts    *)
(* share no state, so the part that moves is chosen at the start.          *)
(***************************************************************************)
EXTENDS MemoryIdentity, PostgresIdentity, HttpApi, AttemptLimiter, Listing,
        MemoryOperations, TLC

VARIABLE part

\* Members get read and console access; accounts are disabled and demoted, or only
\* demoted.  In the Postgres store, where such requests are two steps, only the
\* former, and an administrator's request does not overlap with another request:
\* it uses no one-time secret, and nothing else is promised of that store.
MCGrants == {{"servers.read", "servers.console"}}
MCUpdates == {[status |-> "disabled", admin |-> FALSE, renamed |-> FALSE],
              [status |-> "active", admin |-> FALSE, renamed |-> FALSE]}
OneAdministration ==
    \A q \in Calls :
      LET others == {call[p].op : p \in Calls \ {q}} \ {"idle"} IN
      /\ call[q].op = "update" => call[q].input.status = "disabled"
      /\ call[q].op \in {"create", "update", "member"} => others = {}

MCServerPermissions == {r.permission : r \in {x \in Routes : x.gate = "server"}}
MCMemberSets == {{"servers.read"}, MCServerPermissions \ {"servers.read"}, MCServerPermissions}

Symmetric == Permutations(Calls) \cup Permutations(People)

requestVars == <<httpVars, limiterVars, listingVars>>

AccessInit ==
    /\ part \in {"identity", "http", "limiter", "listing", "operations"}
    /\ IdentityInit /\ HttpInit /\ LimiterInit /\ ListingInit /\ MemoryInit
    /\ part # "identity" => store = "memory"
    /\ part # "http" => account.admin /\ account.member = {}
    /\ part # "limiter" => limiter = "login"
    /\ part # "listing" => listing = "servers" /\ visible = {}
    /\ part # "operations" => ~realRuntime

AccessNext ==
    /\ UNCHANGED part
    /\ \/ /\ part = "identity"
          /\ MemoryIdentityNext \/ (PostgresIdentityNext /\ OneAdministration')
          /\ UNCHANGED <<requestVars, memoryVars>>
       \/ /\ part = "http" /\ HttpNext
          /\ UNCHANGED <<identityVars, limiterVars, listingVars, memoryVars>>
       \/ /\ part = "limiter" /\ LimiterNext
          /\ UNCHANGED <<identityVars, httpVars, listingVars, memoryVars>>
       \/ /\ part = "listing" /\ ListingNext
          /\ UNCHANGED <<identityVars, httpVars, limiterVars, memoryVars>>
       \/ /\ part = "operations" /\ MemoryNext
          /\ UNCHANGED <<identityVars, requestVars>>

AccessSpec ==
    AccessInit /\ [][AccessNext]_<<part, identityVars, requestVars, memoryVars>>
=============================================================================
