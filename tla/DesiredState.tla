---------------------------- MODULE DesiredState ----------------------------
(***************************************************************************)
(* What a server is asked to be, and which game revisions it may be asked  *)
(* to run: the signed catalog (catalog_admin.go, signed_catalog.go,        *)
(* bundletrust) and the writes of the desired state - create, network      *)
(* allocations, startup variables, bundle upgrade - each of which snapshots *)
(* the state it leaves behind into a task for the agent (desired_runtime.go, *)
(* postgres_controlplane.go, network_startup.go).                          *)
(*                                                                         *)
(* Reviews, imports and creates read before the transaction that writes,   *)
(* and the others may commit in between; the remaining writes hold the     *)
(* server's row from the first check on and are one step.  A replayed      *)
(* idempotency key changes nothing and is left out (see TaskStore).        *)
(***************************************************************************)
EXTENDS Naturals, FiniteSets

CONSTANTS
    Managed,      \* servers that may be created, all on one node
    Ports,        \* a set of port numbers of the node's address
    Revisions,    \* signed bundle revisions of one game
    Roots,        \* trust roots
    Signer,       \* [Revisions -> Roots]: the key a revision is signed with
    Declared,     \* [Revisions -> SUBSET variables]: its startup variables
    MaxGenerations, \* bound: generations of a server
    MaxReviews    \* bound: imports and reviews, over a behaviour

ASSUME DesiredAssumption ==
    /\ Ports \subseteq Nat /\ Signer \in [Revisions -> Roots]
    /\ MaxGenerations \in Nat \ {0} /\ MaxReviews \in Nat
    /\ "nobody" \notin Managed

VARIABLES
    trustRoot,    \* Roots -> "none", "active", "revoked"
    revision,     \* Revisions -> review status of the stored document
    definition,   \* review status of the game definition
    curation,     \* the import or review in flight, with the roots it read
    reviews,      \* imports and reviews begun
    server,       \* Managed -> [life, gen, revision, values]
    allocation,   \* Ports -> [server, primary]: rows not released
    order,        \* Managed -> the active task's input
    creating      \* Managed -> what a CreateServer call has read

catalogVars == <<trustRoot, revision, definition, curation, reviews>>
desiredVars == <<trustRoot, revision, definition, curation, reviews,
                 server, allocation, order, creating>>

Nobody == "nobody"
Free == [server |-> Nobody, primary |-> FALSE]
NoCuration == [at |-> "idle", revision |-> Nobody, active |-> {}]
NoCall == [revision |-> Nobody, port |-> 0, revoked |-> {}]
NoOrder == [gen |-> 0, revision |-> Nobody, ports |-> {}, primary |-> {},
            values |-> {}, revoked |-> {}]
Variables == UNION {Declared[r] : r \in Revisions}
ReviewStates == {"none", "pending", "approved", "rejected", "revoked"}

DesiredInit ==
    /\ trustRoot = [k \in Roots |-> "none"]
    /\ revision = [r \in Revisions |-> "none"]
    /\ definition = "none"
    /\ curation = NoCuration
    /\ reviews = 0
    /\ server = [s \in Managed |->
           [life |-> "absent", gen |-> 0, revision |-> Nobody, values |-> {}]]
    /\ allocation = [p \in Ports |-> Free]
    /\ order = [s \in Managed |-> NoOrder]
    /\ creating = [s \in Managed |-> NoCall]

DesiredTypeOK ==
    /\ trustRoot \in [Roots -> {"none", "active", "revoked"}]
    /\ revision \in [Revisions -> ReviewStates]
    /\ definition \in {"none", "pending", "approved"}
    /\ curation.at \in {"idle", "import", "approve"}
    /\ \A s \in Managed : /\ server[s].life \in {"absent", "provisioning", "ready"}
                          /\ server[s].gen \in 0..MaxGenerations
                          /\ server[s].values \subseteq Variables
    /\ allocation \in [Ports -> [server : Managed \cup {Nobody}, primary : BOOLEAN]]

-----------------------------------------------------------------------------
(* The catalog.                                                              *)

ActiveRoots == {k \in Roots : trustRoot[k] = "active"}
RevokedRoots == {k \in Roots : trustRoot[k] = "revoked"}

CreateBundleTrustRoot(k) ==
    /\ trustRoot[k] = "none"
    /\ trustRoot' = [trustRoot EXCEPT ![k] = "active"]
    /\ UNCHANGED <<revision, definition, curation, reviews,
                   server, allocation, order, creating>>

(* One transaction revokes the root and every revision it signed that is    *)
(* stored by then.                                                          *)
RevokeBundleTrustRoot(k) ==
    /\ trustRoot[k] = "active"
    /\ trustRoot' = [trustRoot EXCEPT ![k] = "revoked"]
    /\ revision' = [r \in Revisions |->
           IF Signer[r] = k /\ revision[r] # "none" THEN "revoked" ELSE revision[r]]
    /\ UNCHANGED <<definition, curation, reviews, server, allocation, order, creating>>

(* Verify: the signature is the root's, over this content.                  *)
Verify(r, k) == Signer[r] = k

(* ImportBundle reads the root, and only then opens the transaction that    *)
(* stores the revision as pending; a digest already stored is kept as it is.*)
ImportBundle(r) ==
    /\ curation = NoCuration /\ reviews < MaxReviews
    /\ \E k \in ActiveRoots : Verify(r, k)
    /\ curation' = [at |-> "import", revision |-> r, active |-> ActiveRoots]
    /\ reviews' = reviews + 1
    /\ UNCHANGED <<trustRoot, revision, definition, server, allocation, order, creating>>

importBundleCommits ==
    /\ curation.at = "import"
    /\ revision' = [revision EXCEPT ![curation.revision] =
           IF @ = "none" THEN "pending" ELSE @]
    /\ definition' = IF definition = "none" THEN "pending" ELSE definition
    /\ curation' = NoCuration
    /\ UNCHANGED <<trustRoot, reviews, server, allocation, order, creating>>

(* ReviewBundle locks the revision, not the root: the statement that waits  *)
(* for the lock goes on with the root it saw before it waited.              *)
ReviewBundle(r) ==
    /\ curation = NoCuration /\ reviews < MaxReviews /\ revision[r] # "none"
    /\ \E k \in ActiveRoots : Verify(r, k)
    /\ curation' = [at |-> "approve", revision |-> r, active |-> ActiveRoots]
    /\ reviews' = reviews + 1
    /\ UNCHANGED <<trustRoot, revision, definition, server, allocation, order, creating>>

reviewBundleApproves ==
    /\ curation.at = "approve"
    /\ revision' = [revision EXCEPT ![curation.revision] = "approved"]
    /\ definition' = "approved"
    /\ curation' = NoCuration
    /\ UNCHANGED <<trustRoot, reviews, server, allocation, order, creating>>

(* A rejection or a revocation needs no root.                               *)
reviewBundleDeclines(r, decision) ==
    /\ curation = NoCuration /\ reviews < MaxReviews
    /\ revision[r] \notin {"none", decision}
    /\ revision' = [revision EXCEPT ![r] = decision]
    /\ reviews' = reviews + 1
    /\ UNCHANGED <<trustRoot, definition, curation, server, allocation, order, creating>>

(* Variant: the recorded review is believed.       *)
believedCatalogRevision(r) == definition = "approved" /\ revision[r] = "approved"

(* The review, and the signature again with a root that is active now.      *)
trustedCatalogRevision(r) ==
    /\ definition = "approved" /\ revision[r] = "approved"
    /\ \E k \in ActiveRoots : Verify(r, k)

-----------------------------------------------------------------------------
(* The desired state of a server.                                            *)

PortsOf(A, s) == {p \in Ports : A[p].server = s}
PrimaryOf(A, s) == {p \in PortsOf(A, s) : A[p].primary}

(* materializeDesiredRuntimeTx, from the rows as the transaction leaves     *)
(* them: generation, revision, allocations and variables of the server.     *)
materializeDesiredRuntimeTx(s, S, A, revoked) ==
    [gen |-> S[s].gen, revision |-> S[s].revision, ports |-> PortsOf(A, s),
     primary |-> PrimaryOf(A, s), values |-> S[s].values, revoked |-> revoked]

(* CreateServer checks the quota, the revision and the node, and picks the  *)
(* lowest free port, before it opens its transaction.                       *)
nextAvailablePort ==
    {p \in Ports : allocation[p] = Free /\ \A q \in Ports : q < p => allocation[q] # Free}

CreateServer(s, r) ==
    /\ server[s].life = "absent" /\ creating[s] = NoCall
    /\ trustedCatalogRevision(r)
    /\ \E p \in nextAvailablePort :
         creating' = [creating EXCEPT ![s] =
             [revision |-> r, port |-> p, revoked |-> RevokedRoots]]
    /\ UNCHANGED <<trustRoot, revision, definition, curation, reviews,
                   server, allocation, order>>

(* The port may be gone by now: the unique index refuses the second row and *)
(* the whole transaction.                                                   *)
createServerCommits(s) ==
    /\ creating[s] # NoCall
    /\ LET c == creating[s]
           S == [server EXCEPT ![s] = [life |-> "provisioning", gen |-> 1,
                     revision |-> c.revision, values |-> Declared[c.revision]]]
           A == [allocation EXCEPT ![c.port] = [server |-> s, primary |-> TRUE]]
       IN \/ /\ allocation[c.port] = Free
             /\ server' = S /\ allocation' = A
             /\ order' = [order EXCEPT ![s] =
                    materializeDesiredRuntimeTx(s, S, A, c.revoked)]
          \/ /\ allocation[c.port] # Free
             /\ UNCHANGED <<server, allocation, order>>
    /\ creating' = [creating EXCEPT ![s] = NoCall]
    /\ UNCHANGED catalogVars

(* What every write below asks first, with the server's row locked: its     *)
(* node able to reconcile, the caller's generation current (else refused),  *)
(* no task active.                                                          *)
lockServerRow(s) ==
    /\ server[s].life # "absent" /\ server[s].gen < MaxGenerations
    /\ order[s] = NoOrder

(* An upgrade is all that does not ask for a ready server.                  *)
requestReconcile(s) == lockServerRow(s) /\ server[s].life = "ready"

(* Variant: the state is snapshotted before the change.   *)
commitWriteTaskEarly(s, S, A) ==
    /\ trustedCatalogRevision(S[s].revision)
    /\ server' = [S EXCEPT ![s].gen = @ + 1] /\ allocation' = A
    /\ order' = [order EXCEPT ![s] =
           materializeDesiredRuntimeTx(s, server, allocation, RevokedRoots)]
    /\ UNCHANGED <<trustRoot, revision, definition, curation, reviews, creating>>

(* The common end of the writes: the generation advances, the new state is  *)
(* snapshotted and the task committed with it.  A revision that is no       *)
(* longer trusted refuses the write.                                        *)
commitWriteTask(s, S, A) ==
    /\ trustedCatalogRevision(S[s].revision)
    /\ LET T == [S EXCEPT ![s].gen = @ + 1] IN
         /\ server' = T /\ allocation' = A
         /\ order' = [order EXCEPT ![s] =
                materializeDesiredRuntimeTx(s, T, A, RevokedRoots)]
    /\ UNCHANGED <<trustRoot, revision, definition, curation, reviews, creating>>

(* The changes to the allocations, the same in both stores.                 *)
Added(A, s, p, primary) ==
    LET first == primary \/ PortsOf(A, s) = {} IN
      [q \in Ports |->
          IF q = p THEN [server |-> s, primary |-> first]
          ELSE IF first /\ A[q].server = s THEN [A[q] EXCEPT !.primary = FALSE]
          ELSE A[q]]

Switched(A, s, p) ==
    [q \in Ports |-> IF A[q].server = s THEN [A[q] EXCEPT !.primary = (q = p)] ELSE A[q]]

CreateAllocation(s, p, primary) ==
    /\ requestReconcile(s)
    /\ allocation[p] = Free
    /\ commitWriteTask(s, server, Added(allocation, s, p, primary))

SetPrimaryAllocation(s, p) ==
    /\ requestReconcile(s)
    /\ allocation[p].server = s
    /\ commitWriteTask(s, server, Switched(allocation, s, p))

DeleteAllocation(s, p) ==
    /\ requestReconcile(s)
    /\ allocation[p].server = s /\ Cardinality(PortsOf(allocation, s)) > 1
    /\ ~allocation[p].primary
    /\ commitWriteTask(s, server, [allocation EXCEPT ![p] = Free])

(* UpdateStartup sets or clears a variable the revision declares.           *)
UpdateStartup(s, v) ==
    /\ requestReconcile(s)
    /\ v \in Declared[server[s].revision]
    /\ \E values \in {server[s].values \cup {v}, server[s].values \ {v}} :
         commitWriteTask(s, [server EXCEPT ![s].values = values], allocation)

(* UpgradeServer, and RollbackServer to a revision applied before.          *)
UpgradeServer(s, r) ==
    /\ lockServerRow(s)
    /\ r # server[s].revision
    /\ commitWriteTask(s, [server EXCEPT ![s].revision = r], allocation)

(* The task ends.  Success of the first one, which provisions the server,   *)
(* makes it ready.  A failed upgrade goes back to the revision it came from *)
(* (TaskStore), which is one of those the server may be asked to run.       *)
reconcileEnds(s) ==
    /\ order[s] # NoOrder
    /\ order' = [order EXCEPT ![s] = NoOrder]
    /\ \/ order[s].gen = 1 /\ server' = [server EXCEPT ![s].life = "ready"]
       \/ UNCHANGED server
    /\ UNCHANGED <<trustRoot, revision, definition, curation, reviews,
                   allocation, creating>>

CatalogNext ==
    \/ \E k \in Roots : CreateBundleTrustRoot(k) \/ RevokeBundleTrustRoot(k)
    \/ \E r \in Revisions : \/ ImportBundle(r) \/ ReviewBundle(r)
                            \/ \E d \in {"rejected", "revoked"} : reviewBundleDeclines(r, d)
    \/ importBundleCommits \/ reviewBundleApproves

DesiredNext ==
    \/ CatalogNext
    \/ \E s \in Managed :
         \/ createServerCommits(s) \/ reconcileEnds(s)
         \/ \E r \in Revisions : CreateServer(s, r) \/ UpgradeServer(s, r)
         \/ \E p \in Ports : \/ SetPrimaryAllocation(s, p) \/ DeleteAllocation(s, p)
                             \/ \E primary \in BOOLEAN : CreateAllocation(s, p, primary)
         \/ \E v \in Variables : UpdateStartup(s, v)

DesiredSpec == DesiredInit /\ [][DesiredNext]_desiredVars

-----------------------------------------------------------------------------
(* While a task is active, what it tells the agent to apply is the desired  *)
(* state of its server: nothing changes allocations, variables, revision or *)
(* generation under a snapshot, and no snapshot is taken before its change. *)
TaskAppliesDesired ==
    \A s \in Managed : order[s] # NoOrder =>
      order[s] = materializeDesiredRuntimeTx(s, server, allocation, order[s].revoked)

(* Once a trust root is revoked, no request that begins afterwards hands an *)
(* agent a revision signed with it, even if an import or an approval that   *)
(* had already read the root stores or approves one after the revocation.   *)
RevokedRootStopsTasks ==
    \A s \in Managed : order[s] # NoOrder =>
      Signer[order[s].revision] \notin order[s].revoked
=============================================================================
