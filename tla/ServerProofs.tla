---------------------------- MODULE ServerProofs ----------------------------
(***************************************************************************)
(* Proofs about what a server is asked to be, about its scheduled runs,    *)
(* about requests for its files, and about the webhook deliveries and the  *)
(* outbox events of the control plane.                                     *)
(***************************************************************************)
EXTENDS DesiredState, ScheduleRuns, ServerFiles, WebhookDelivery, OutboxPublisher, SequenceTheorems,
        TLAPS

-----------------------------------------------------------------------------
(* Desired state: the snapshot of a task and the desired state it was taken  *)
(* from, for every set of servers, ports, revisions and trust roots.         *)

ServerRows == [life : {"absent", "provisioning", "ready"}, gen : 0 .. MaxGenerations,
               revision : Revisions \cup {Nobody}, values : SUBSET Variables]
AllocationRows == [server : Managed \cup {Nobody}, primary : BOOLEAN]

\* The types, with those of the rows a write goes through.
DesiredTypes ==
    /\ trustRoot \in [Roots -> {"none", "active", "revoked"}]
    /\ revision \in [Revisions -> ReviewStates]
    /\ definition \in {"none", "pending", "approved"}
    /\ curation.at \in {"idle", "import", "approve"}
    /\ server \in [Managed -> ServerRows]
    /\ allocation \in [Ports -> AllocationRows]
    /\ DOMAIN order = Managed /\ DOMAIN creating = Managed
    /\ \A s \in Managed : creating[s] # NoCall =>
          creating[s].revision \in Revisions /\ creating[s].port \in Ports

\* What a CreateServer call read before its transaction: a revision that no root
\* revoked by then has signed.
CallIsTrusted ==
    \A s \in Managed : creating[s] # NoCall =>
        Signer[creating[s].revision] \notin creating[s].revoked

DesiredInv == DesiredTypes /\ CallIsTrusted /\ TaskAppliesDesired /\ RevokedRootStopsTasks

\* The snapshot of a server depends on its own row and its own allocations.
LEMMA SnapshotIsLocal ==
    ASSUME NEW s \in Managed, NEW S, NEW T, NEW A, NEW B, NEW revoked,
           S[s].gen = T[s].gen, S[s].revision = T[s].revision, S[s].values = T[s].values,
           PortsOf(A, s) = PortsOf(B, s), PrimaryOf(A, s) = PrimaryOf(B, s)
    PROVE  materializeDesiredRuntimeTx(s, S, A, revoked)
              = materializeDesiredRuntimeTx(s, T, B, revoked)
  BY DEF materializeDesiredRuntimeTx

\* A revision that is trusted now is signed by no revoked root.
LEMMA TrustedIsNotRevoked ==
    ASSUME NEW r, trustedCatalogRevision(r)
    PROVE  Signer[r] \notin RevokedRoots
  BY DEF trustedCatalogRevision, ActiveRoots, RevokedRoots, Verify

\* Allocation rows of others do not move: then neither does what they are given.
LEMMA OthersKeepPorts ==
    ASSUME NEW A, NEW B, NEW t \in Managed,
           \A p \in Ports : A[p].server = t \/ B[p].server = t => A[p] = B[p]
    PROVE  PortsOf(A, t) = PortsOf(B, t) /\ PrimaryOf(A, t) = PrimaryOf(B, t)
  BY DEF PortsOf, PrimaryOf

\* A step that gives server s the order taken of the new state, and leaves the rows
\* of the other servers alone, keeps the invariant.
LEMMA WriteInv ==
    ASSUME DesiredInv, DesiredTypes', CallIsTrusted', NEW s \in Managed,
           \A t \in Managed \ {s} :
              /\ order'[t] = order[t]
              /\ server'[t] = server[t]
              /\ \A p \in Ports : allocation[p].server = t \/ allocation'[p].server = t
                                     => allocation[p] = allocation'[p],
           NEW revoked,
           \/ order'[s] = NoOrder
           \/ /\ order'[s] = materializeDesiredRuntimeTx(s, server', allocation', revoked)
              /\ Signer[server'[s].revision] \notin revoked
    PROVE  DesiredInv'
<1>1. ASSUME NEW t \in Managed, t # s, order'[t] # NoOrder
      PROVE  /\ order'[t] = materializeDesiredRuntimeTx(t, server', allocation', order'[t].revoked)
             /\ Signer[order'[t].revision] \notin order'[t].revoked
  <2>1. /\ order[t] # NoOrder /\ order'[t] = order[t] /\ server'[t] = server[t]
    BY <1>1
  <2>2. /\ PortsOf(allocation, t) = PortsOf(allocation', t)
        /\ PrimaryOf(allocation, t) = PrimaryOf(allocation', t)
    BY <1>1, OthersKeepPorts
  <2>3. /\ order[t] = materializeDesiredRuntimeTx(t, server, allocation, order[t].revoked)
        /\ Signer[order[t].revision] \notin order[t].revoked
    BY <2>1 DEF DesiredInv, TaskAppliesDesired, RevokedRootStopsTasks
  <2> QED
    BY <2>1, <2>2, <2>3, SnapshotIsLocal
<1>2. ASSUME order'[s] # NoOrder
      PROVE  /\ order'[s] = materializeDesiredRuntimeTx(s, server', allocation', order'[s].revoked)
             /\ Signer[order'[s].revision] \notin order'[s].revoked
  <2>1. order'[s] = materializeDesiredRuntimeTx(s, server', allocation', revoked)
        /\ Signer[server'[s].revision] \notin revoked
    BY <1>2
  <2>2. order'[s].revoked = revoked /\ order'[s].revision = server'[s].revision
    BY <2>1 DEF materializeDesiredRuntimeTx
  <2> QED
    BY <2>1, <2>2
<1> QED
  BY <1>1, <1>2 DEF DesiredInv, TaskAppliesDesired, RevokedRootStopsTasks

\* commitWriteTask: the row of s as the caller changed it, its generation advanced.
LEMMA CommitInv ==
    ASSUME DesiredInv, NEW s \in Managed, lockServerRow(s), NEW S, NEW A,
           commitWriteTask(s, S, A), S \in [Managed -> ServerRows],
           \A t \in Managed \ {s} : S[t] = server[t],
           S[s].gen = server[s].gen,
           A \in [Ports -> AllocationRows],
           \A t \in Managed \ {s} : \A p \in Ports :
               allocation[p].server = t \/ A[p].server = t => allocation[p] = A[p]
    PROVE  DesiredInv'
<1> DEFINE T == [S EXCEPT ![s].gen = @ + 1]
           row == [S[s] EXCEPT !.gen = S[s].gen + 1]
<1>1. /\ trustedCatalogRevision(S[s].revision) /\ server' = T /\ allocation' = A
      /\ order' = [order EXCEPT ![s] = materializeDesiredRuntimeTx(s, T, A, RevokedRoots)]
      /\ UNCHANGED <<trustRoot, revision, definition, curation, reviews, creating>>
  BY DEF commitWriteTask
<1>2. server[s].gen \in 0 .. MaxGenerations /\ server[s].gen < MaxGenerations
  BY DEF lockServerRow, DesiredInv, DesiredTypes, ServerRows
<1>3. S[s].gen + 1 \in 0 .. MaxGenerations
  BY <1>2, DesiredAssumption
<1>4. row \in ServerRows /\ row.revision = S[s].revision
  BY <1>3 DEF ServerRows
<1>5. T = [S EXCEPT ![s] = row]
  BY DEF ServerRows
<1> HIDE DEF row, T
<1>6. /\ T \in [Managed -> ServerRows] /\ T[s] = row
      /\ \A t \in Managed \ {s} : T[t] = server[t]
  BY <1>4, <1>5
<1>7. DesiredTypes' /\ CallIsTrusted'
  BY <1>1, <1>6 DEF DesiredInv, DesiredTypes, CallIsTrusted
<1>8. /\ order'[s] = materializeDesiredRuntimeTx(s, server', allocation', RevokedRoots)
      /\ \A t \in Managed \ {s} : order'[t] = order[t]
  BY <1>1 DEF DesiredInv, DesiredTypes
<1>9. Signer[server'[s].revision] \notin RevokedRoots
  BY <1>1, <1>4, <1>6, TrustedIsNotRevoked
<1> QED
  BY <1>1, <1>6, <1>7, <1>8, <1>9, WriteInv

\* The writes of allocations, startup variables and revision.
LEMMA DesiredWriteInv ==
    ASSUME DesiredInv, NEW s \in Managed,
           \/ \E r \in Revisions : UpgradeServer(s, r)
           \/ \E p \in Ports : \/ SetPrimaryAllocation(s, p) \/ DeleteAllocation(s, p)
                               \/ \E primary \in BOOLEAN : CreateAllocation(s, p, primary)
           \/ \E v \in Variables : UpdateStartup(s, v)
    PROVE  DesiredInv'
<1>1. /\ server \in [Managed -> ServerRows] /\ allocation \in [Ports -> AllocationRows]
      /\ Nobody \notin Managed
  BY DesiredAssumption DEF DesiredInv, DesiredTypes, Nobody
<1>2. ASSUME NEW r \in Revisions, UpgradeServer(s, r)
      PROVE  DesiredInv'
  <2> DEFINE S == [server EXCEPT ![s].revision = r]
             row == [server[s] EXCEPT !.revision = r]
  <2>1. lockServerRow(s) /\ commitWriteTask(s, S, allocation)
    BY <1>2 DEF UpgradeServer
  <2>2. S = [server EXCEPT ![s] = row] /\ row \in ServerRows /\ row.gen = server[s].gen
    BY <1>1 DEF ServerRows
  <2> HIDE DEF S, row
  <2>3. /\ S \in [Managed -> ServerRows] /\ S[s].gen = server[s].gen
        /\ \A t \in Managed \ {s} : S[t] = server[t]
    BY <1>1, <2>2
  <2> QED
    BY <1>1, <2>1, <2>3, CommitInv
<1>3. ASSUME NEW v \in Variables, UpdateStartup(s, v)
      PROVE  DesiredInv'
  <2>1. PICK values \in {server[s].values \cup {v}, server[s].values \ {v}} :
           commitWriteTask(s, [server EXCEPT ![s].values = values], allocation)
    BY <1>3 DEF UpdateStartup, requestReconcile
  <2> DEFINE S == [server EXCEPT ![s].values = values]
             row == [server[s] EXCEPT !.values = values]
  <2>2. lockServerRow(s) /\ commitWriteTask(s, S, allocation)
    BY <1>3, <2>1 DEF UpdateStartup, requestReconcile
  <2>3. values \in SUBSET Variables
    <3>1. server[s].values \in SUBSET Variables
      BY <1>1 DEF ServerRows
    <3> QED
      BY <2>1, <3>1
  <2>4. S = [server EXCEPT ![s] = row] /\ row \in ServerRows /\ row.gen = server[s].gen
    BY <1>1, <2>3 DEF ServerRows
  <2> HIDE DEF S, row
  <2>5. /\ S \in [Managed -> ServerRows] /\ S[s].gen = server[s].gen
        /\ \A t \in Managed \ {s} : S[t] = server[t]
    BY <1>1, <2>4
  <2> QED
    BY <1>1, <2>2, <2>5, CommitInv
<1>4. ASSUME NEW p \in Ports, SetPrimaryAllocation(s, p)
      PROVE  DesiredInv'
  <2> DEFINE A == Switched(allocation, s, p)
  <2>1. lockServerRow(s) /\ commitWriteTask(s, server, A)
    BY <1>4 DEF SetPrimaryAllocation, requestReconcile
  <2>2. \A q \in Ports : /\ allocation[q].server # s => A[q] = allocation[q]
                         /\ A[q].server = allocation[q].server
                         /\ A[q] \in AllocationRows
    BY <1>1 DEF Switched, AllocationRows
  <2>3. A \in [Ports -> AllocationRows]
    <3>1. A = [q \in Ports |-> A[q]]
      BY DEF Switched
    <3> HIDE DEF A
    <3> QED
      BY <2>2, <3>1
  <2> HIDE DEF A
  <2>4. \A t \in Managed \ {s} : \A q \in Ports :
           allocation[q].server = t \/ A[q].server = t => allocation[q] = A[q]
    BY <2>2
  <2> QED
    BY <1>1, <2>1, <2>3, <2>4, CommitInv
<1>5. ASSUME NEW p \in Ports, DeleteAllocation(s, p)
      PROVE  DesiredInv'
  <2> DEFINE A == [allocation EXCEPT ![p] = Free]
  <2>1. lockServerRow(s) /\ commitWriteTask(s, server, A) /\ allocation[p].server = s
    BY <1>5 DEF DeleteAllocation, requestReconcile
  <2>2. Free \in AllocationRows /\ Free.server = Nobody
    BY DEF Free, AllocationRows
  <2>3. /\ A \in [Ports -> AllocationRows]
        /\ \A t \in Managed \ {s} : \A q \in Ports :
              allocation[q].server = t \/ A[q].server = t => allocation[q] = A[q]
    BY <1>1, <2>1, <2>2
  <2> HIDE DEF A
  <2> QED
    BY <1>1, <2>1, <2>3, CommitInv
<1>6. ASSUME NEW p \in Ports, NEW primary \in BOOLEAN, CreateAllocation(s, p, primary)
      PROVE  DesiredInv'
  <2> DEFINE A == Added(allocation, s, p, primary)
  <2>1. lockServerRow(s) /\ commitWriteTask(s, server, A) /\ allocation[p] = Free
    BY <1>6 DEF CreateAllocation, requestReconcile
  <2>2. allocation[p].server = Nobody
    BY <2>1 DEF Free
  <2>3. \A q \in Ports : /\ q # p /\ allocation[q].server # s => A[q] = allocation[q]
                         /\ A[q].server = IF q = p THEN s ELSE allocation[q].server
                         /\ A[q] \in AllocationRows
    BY <1>1 DEF Added, AllocationRows
  <2>4. A \in [Ports -> AllocationRows]
    <3>1. A = [q \in Ports |-> A[q]]
      BY DEF Added
    <3> HIDE DEF A
    <3> QED
      BY <2>3, <3>1
  <2> HIDE DEF A
  <2>5. \A t \in Managed \ {s} : \A q \in Ports :
           allocation[q].server = t \/ A[q].server = t => allocation[q] = A[q]
    BY <1>1, <2>2, <2>3
  <2> QED
    BY <1>1, <2>1, <2>4, <2>5, CommitInv
<1> QED
  BY <1>2, <1>3, <1>4, <1>5, <1>6

\* A call to create a server reads a revision that is trusted then, and the roots
\* that are revoked then.
LEMMA CreateServerInv ==
    ASSUME DesiredInv, NEW s \in Managed, NEW r \in Revisions, CreateServer(s, r)
    PROVE  DesiredInv'
<1>1. PICK p \in nextAvailablePort :
         creating' = [creating EXCEPT ![s] =
             [revision |-> r, port |-> p, revoked |-> RevokedRoots]]
  BY DEF CreateServer
<1>2. UNCHANGED <<trustRoot, revision, definition, curation, reviews, server,
                  allocation, order>> /\ p \in Ports
  BY <1>1 DEF CreateServer, nextAvailablePort
<1> DEFINE c == [revision |-> r, port |-> p, revoked |-> RevokedRoots]
<1>3. c.revision = r /\ c.port = p /\ c.revoked = RevokedRoots
  OBVIOUS
<1>4. Signer[r] \notin RevokedRoots
  BY TrustedIsNotRevoked DEF CreateServer
<1>5. creating' = [creating EXCEPT ![s] = c]
  BY <1>1
<1> HIDE DEF c
<1>6. DesiredTypes' /\ CallIsTrusted'
  BY <1>2, <1>3, <1>4, <1>5 DEF DesiredInv, DesiredTypes, CallIsTrusted
<1> QED
  BY <1>2, <1>6 DEF DesiredInv, TaskAppliesDesired, RevokedRootStopsTasks,
     materializeDesiredRuntimeTx, PortsOf, PrimaryOf

\* The transaction of the call: the port is still free, or nothing is written.
LEMMA CreateCommitsInv ==
    ASSUME DesiredInv, NEW s \in Managed, createServerCommits(s)
    PROVE  DesiredInv'
<1> DEFINE c == creating[s]
           row == [life |-> "provisioning", gen |-> 1, revision |-> c.revision,
                   values |-> Declared[c.revision]]
           S == [server EXCEPT ![s] = row]
           A == [allocation EXCEPT ![c.port] = [server |-> s, primary |-> TRUE]]
<1>1. /\ c # NoCall /\ creating' = [creating EXCEPT ![s] = NoCall]
      /\ UNCHANGED <<trustRoot, revision, definition, curation, reviews>>
  BY DEF createServerCommits, catalogVars
<1>2. /\ c.revision \in Revisions /\ c.port \in Ports
      /\ Signer[c.revision] \notin c.revoked
      /\ server \in [Managed -> ServerRows] /\ allocation \in [Ports -> AllocationRows]
      /\ Nobody \notin Managed
  BY <1>1, DesiredAssumption DEF DesiredInv, DesiredTypes, CallIsTrusted, Nobody
<1>3. CASE /\ allocation[c.port] = Free /\ server' = S /\ allocation' = A
           /\ order' = [order EXCEPT ![s] = materializeDesiredRuntimeTx(s, S, A, c.revoked)]
  <2>1. row \in ServerRows /\ row.revision = c.revision
    <3>1. Declared[c.revision] \in SUBSET Variables
      BY <1>2 DEF Variables
    <3>2. 1 \in 0 .. MaxGenerations
      BY DesiredAssumption
    <3> QED
      BY <1>2, <3>1, <3>2 DEF ServerRows
  <2>2. [server |-> s, primary |-> TRUE] \in AllocationRows
    BY DEF AllocationRows
  <2>3. allocation[c.port].server = Nobody
    BY <1>3 DEF Free
  <2> HIDE DEF row
  <2>4. /\ S \in [Managed -> ServerRows] /\ S[s] = row
        /\ \A t \in Managed \ {s} : S[t] = server[t]
    BY <1>2, <2>1
  <2>5. /\ A \in [Ports -> AllocationRows]
        /\ \A q \in Ports : q # c.port => A[q] = allocation[q]
        /\ A[c.port].server = s
    BY <1>2, <2>2
  <2>6. /\ order'[s] = materializeDesiredRuntimeTx(s, server', allocation', c.revoked)
        /\ \A t \in Managed \ {s} : order'[t] = order[t]
    BY <1>3 DEF DesiredInv, DesiredTypes
  <2> HIDE DEF S, A, c
  <2>7. DesiredTypes' /\ CallIsTrusted'
    BY <1>1, <1>3, <2>4, <2>5 DEF DesiredInv, DesiredTypes, CallIsTrusted
  <2>8. \A t \in Managed \ {s} : /\ server'[t] = server[t]
                                 /\ \A p \in Ports :
                                      allocation[p].server = t \/ allocation'[p].server = t
                                         => allocation[p] = allocation'[p]
    BY <1>2, <1>3, <2>3, <2>4, <2>5
  <2>9. Signer[server'[s].revision] \notin c.revoked
    BY <1>2, <1>3, <2>1, <2>4
  <2> QED
    BY <2>6, <2>7, <2>8, <2>9, WriteInv
<1>4. CASE UNCHANGED <<server, allocation, order>>
  <2>1. DesiredTypes' /\ CallIsTrusted'
    BY <1>1, <1>4 DEF DesiredInv, DesiredTypes, CallIsTrusted
  <2> QED
    BY <1>4, <2>1 DEF DesiredInv, TaskAppliesDesired, RevokedRootStopsTasks,
       materializeDesiredRuntimeTx, PortsOf, PrimaryOf
<1> QED
  BY <1>3, <1>4 DEF createServerCommits

\* The end of a task takes its snapshot away.
LEMMA ReconcileEndsInv ==
    ASSUME DesiredInv, NEW s \in Managed, reconcileEnds(s)
    PROVE  DesiredInv'
<1> DEFINE row == [server[s] EXCEPT !.life = "ready"]
<1>1. /\ order' = [order EXCEPT ![s] = NoOrder]
      /\ UNCHANGED <<trustRoot, revision, definition, curation, reviews, allocation, creating>>
      /\ server \in [Managed -> ServerRows]
  BY DEF reconcileEnds, DesiredInv, DesiredTypes
<1>2. server' \in {server, [server EXCEPT ![s] = row]} /\ row \in ServerRows
  BY <1>1 DEF reconcileEnds, ServerRows
<1> HIDE DEF row
<1>3. DesiredTypes' /\ CallIsTrusted'
  BY <1>1, <1>2 DEF DesiredInv, DesiredTypes, CallIsTrusted
<1>4. /\ \A t \in Managed \ {s} : /\ order'[t] = order[t] /\ server'[t] = server[t]
                                  /\ \A p \in Ports : allocation[p] = allocation'[p]
      /\ order'[s] = NoOrder
  BY <1>1, <1>2 DEF DesiredInv, DesiredTypes
<1> QED
  BY <1>3, <1>4, WriteInv

\* The catalog changes under the snapshots and leaves them alone.
LEMMA CatalogInv ==
    ASSUME DesiredInv, CatalogNext
    PROVE  DesiredInv'
<1>1. UNCHANGED <<server, allocation, order, creating>>
  BY DEF CatalogNext, CreateBundleTrustRoot, RevokeBundleTrustRoot, ImportBundle,
     ReviewBundle, reviewBundleDeclines, importBundleCommits, reviewBundleApproves
<1>2. /\ trustRoot' \in [Roots -> {"none", "active", "revoked"}]
      /\ revision' \in [Revisions -> ReviewStates]
      /\ definition' \in {"none", "pending", "approved"}
      /\ curation'.at \in {"idle", "import", "approve"}
  <2>1. /\ trustRoot \in [Roots -> {"none", "active", "revoked"}]
        /\ revision \in [Revisions -> ReviewStates]
        /\ definition \in {"none", "pending", "approved"}
        /\ curation.at \in {"idle", "import", "approve"}
    BY DEF DesiredInv, DesiredTypes
  <2> QED
    BY <2>1 DEF CatalogNext, CreateBundleTrustRoot, RevokeBundleTrustRoot, ImportBundle,
       ReviewBundle, reviewBundleDeclines, importBundleCommits, reviewBundleApproves,
       ReviewStates, NoCuration
<1> QED
  BY <1>1, <1>2 DEF DesiredInv, DesiredTypes, CallIsTrusted, TaskAppliesDesired,
     RevokedRootStopsTasks, materializeDesiredRuntimeTx, PortsOf, PrimaryOf

\* Snapshots and desired state agree in every reachable state.
THEOREM DesiredInvariant == DesiredSpec => []DesiredInv
<1>1. DesiredInit => DesiredInv
  <2> SUFFICES ASSUME DesiredInit PROVE DesiredInv
    OBVIOUS
  <2>1. [life |-> "absent", gen |-> 0, revision |-> Nobody, values |-> {}] \in ServerRows
    BY DesiredAssumption DEF ServerRows
  <2>2. Free \in AllocationRows /\ NoCuration.at = "idle"
    BY DEF Free, AllocationRows, NoCuration
  <2> QED
    BY <2>1, <2>2 DEF DesiredInit, DesiredInv, DesiredTypes, CallIsTrusted,
       TaskAppliesDesired, RevokedRootStopsTasks, ReviewStates
<1>2. DesiredInv /\ [DesiredNext]_desiredVars => DesiredInv'
  <2> SUFFICES ASSUME DesiredInv, [DesiredNext]_desiredVars
               PROVE  DesiredInv'
    OBVIOUS
  <2>1. CASE UNCHANGED desiredVars
    BY <2>1 DEF desiredVars, DesiredInv, DesiredTypes, CallIsTrusted, TaskAppliesDesired,
       RevokedRootStopsTasks, materializeDesiredRuntimeTx, PortsOf, PrimaryOf
  <2> QED
    BY <2>1, CatalogInv, CreateServerInv, CreateCommitsInv, ReconcileEndsInv,
       DesiredWriteInv DEF DesiredNext
<1> QED
  BY <1>1, <1>2, PTL DEF DesiredSpec

\* The rows of the desired state keep their types and generations their bound.
THEOREM DesiredTypeCorrect == DesiredSpec => []DesiredTypeOK
<1>1. DesiredInv => DesiredTypeOK
  BY DEF DesiredInv, DesiredTypes, DesiredTypeOK, ServerRows, AllocationRows
<1> QED
  BY <1>1, DesiredInvariant, PTL

\* What a task in progress carries to the agent is the desired state, whichever
\* creates, writes and reviews run at the same time.
THEOREM TasksApplyDesired == DesiredSpec => []TaskAppliesDesired
<1>1. DesiredInv => TaskAppliesDesired
  BY DEF DesiredInv
<1> QED
  BY <1>1, DesiredInvariant, PTL

\* Revoking a trust root stops its revisions, whatever review was under way.
THEOREM RevocationStopsTasks == DesiredSpec => []RevokedRootStopsTasks
<1>1. DesiredInv => RevokedRootStopsTasks
  BY DEF DesiredInv
<1> QED
  BY <1>1, DesiredInvariant, PTL

-----------------------------------------------------------------------------
(* File requests and the tasks of the server, for every set of requests and  *)
(* every number of control-plane processes and tasks.                        *)

FileRows == [kind : FileKinds, pc : {"new", "checked", "waiting", "returned"},
             panel : Panels \cup {NoRequest}, seen : Nat]
WorkRows == [request : FileRequests \cup {NoRequest},
             step : {"idle", "start", "exec", "settle"},
             wasRunning : BOOLEAN, cut : BOOLEAN]
TaskRows == [type : {"none", "start", "stop", "restore"},
             step : {"none", "queued", "restoring"}, serial : Nat]

\* The types, and the request an agent works on.
FilesTypes ==
    /\ file \in [FileRequests -> FileRows]
    /\ frames \in Seq(FileRequests)
    /\ work \in WorkRows
    /\ work.step # "idle" => work.request \in FileRequests
    /\ running \in BOOLEAN /\ intended \in BOOLEAN /\ disturbed \in BOOLEAN
    /\ serverTask \in TaskRows

\* A container is up for a file alone only where it was found stopped as intended;
\* otherwise it runs as the last power task left it.
PowerInv ==
    /\ work.step = "start" => Borrowed
    /\ work.step = "settle" => file[work.request].kind # "write"
    /\ ~disturbed /\ Borrowed => intended = FALSE
    /\ ~disturbed /\ (Borrowed => work.step = "start") => running = intended

\* The check of a mutation under way is older than a restore task under way.
SeenInv ==
    \A q \in FileRequests :
        file[q].kind \in Mutations /\ file[q].pc \in {"checked", "waiting"} =>
            /\ file[q].seen <= serverTask.serial
            /\ serverTask.type = "restore" => file[q].seen < serverTask.serial

FilesInv == FilesTypes /\ PowerInv /\ SeenInv

\* An answer ends requests and changes nothing else about them.
LEMMA ReturnedEnds ==
    ASSUME file \in [FileRequests -> FileRows], NEW Q, Returned(Q)
    PROVE  /\ file' \in [FileRequests -> FileRows]
           /\ \A q \in FileRequests : /\ file'[q].kind = file[q].kind
                                      /\ file'[q].seen = file[q].seen
                                      /\ file'[q].pc \in {file[q].pc, "returned"}
<1>1. \A q \in FileRequests :
         LET row == [file[q] EXCEPT !.pc = "returned"] IN
         /\ row \in FileRows /\ row.kind = file[q].kind /\ row.seen = file[q].seen
         /\ row.pc = "returned"
  BY DEF FileRows
<1> QED
  BY <1>1 DEF Returned

\* Mutations that end, or stay, under a task that stays.
LEMMA SeenStays ==
    ASSUME SeenInv, serverTask' = serverTask,
           \A q \in FileRequests : /\ file'[q].kind = file[q].kind
                                   /\ file'[q].seen = file[q].seen
                                   /\ \/ file'[q].pc = file[q].pc
                                      \/ file'[q].pc = "returned"
                                      \/ file[q].pc = "checked" /\ file'[q].pc = "waiting"
                                      \/ file[q].kind = "read"
    PROVE  SeenInv'
  BY DEF SeenInv, Mutations

\* What the power state depends on stays.
LEMMA PowerStays ==
    ASSUME PowerInv, FilesTypes, UNCHANGED <<work, running, intended, disturbed>>,
           \A q \in FileRequests : file'[q].kind = file[q].kind
    PROVE  PowerInv'
  BY DEF PowerInv, Borrowed, FilesTypes

\* The steps of the control plane.
LEMMA PanelInv ==
    ASSUME FilesInv, NEW q \in FileRequests,
           \/ readFiles(q) \/ DispatchFile(q) \/ DispatchTimesOut(q)
           \/ \E p \in Panels : beginFileMutation(q, p)
    PROVE  FilesInv'
<1>1. /\ UNCHANGED <<work, running, disturbed, intended, serverTask>>
      /\ file \in [FileRequests -> FileRows] /\ file[q] \in FileRows
      /\ frames \in Seq(FileRequests)
  BY DEF readFiles, DispatchFile, DispatchTimesOut, beginFileMutation, atAgent, atTasks,
     FilesInv, FilesTypes
<1>2. frames' \in Seq(FileRequests)
  <2>1. Append(frames, q) \in Seq(FileRequests)
    BY <1>1, AppendProperties
  <2> QED
    BY <1>1, <2>1 DEF readFiles, DispatchFile, DispatchTimesOut, beginFileMutation
<1>3. ASSUME file' \in [FileRequests -> FileRows]
      PROVE  FilesTypes'
  BY <1>1, <1>2, <1>3 DEF FilesInv, FilesTypes
<1>4. CASE readFiles(q)
  <2> DEFINE row == [file[q] EXCEPT !.pc = "checked"]
  <2>1. file' = [file EXCEPT ![q] = row] /\ file[q].kind = "read"
    BY <1>1, <1>4 DEF readFiles
  <2>2. row \in FileRows /\ row.kind = file[q].kind /\ row.seen = file[q].seen
    BY <1>1 DEF FileRows
  <2> HIDE DEF row
  <2> QED
    BY <1>1, <1>3, <2>1, <2>2, SeenStays, PowerStays DEF FilesInv
<1>5. CASE DispatchFile(q)
  <2> DEFINE row == [file[q] EXCEPT !.pc = "waiting"]
  <2>1. file' = [file EXCEPT ![q] = row] /\ file[q].pc = "checked"
    BY <1>1, <1>5 DEF DispatchFile
  <2>2. /\ row \in FileRows /\ row.kind = file[q].kind /\ row.seen = file[q].seen
        /\ row.pc = "waiting"
    BY <1>1 DEF FileRows
  <2> HIDE DEF row
  <2> QED
    BY <1>1, <1>3, <2>1, <2>2, SeenStays, PowerStays DEF FilesInv
<1>6. CASE Returned({q})
  BY <1>1, <1>3, <1>6, ReturnedEnds, SeenStays, PowerStays DEF FilesInv
<1>7. ASSUME NEW p \in Panels, beginFileMutation(q, p), serverTask.type # "restore"
      PROVE  FilesInv'
  <2> DEFINE row == [file[q] EXCEPT !.pc = "checked", !.panel = p, !.seen = serverTask.serial]
  <2>1. file' = [file EXCEPT ![q] = row]
    BY <1>1, <1>7 DEF beginFileMutation
  <2>2. serverTask.serial \in Nat
    BY DEF FilesInv, FilesTypes, TaskRows
  <2>3. /\ row \in FileRows /\ row.kind = file[q].kind /\ row.seen = serverTask.serial
    BY <1>1, <2>2 DEF FileRows
  <2> HIDE DEF row
  <2>4. file' \in [FileRequests -> FileRows] /\ file'[q] = row
        /\ \A r \in FileRequests : r # q => file'[r] = file[r]
    BY <1>1, <2>1, <2>3
  <2>5. SeenInv'
    BY <1>1, <1>7, <2>2, <2>3, <2>4 DEF FilesInv, SeenInv
  <2>6. \A r \in FileRequests : file'[r].kind = file[r].kind
    BY <2>3, <2>4
  <2> QED
    BY <1>1, <1>3, <2>4, <2>5, <2>6, PowerStays DEF FilesInv
<1> QED
  BY <1>4, <1>5, <1>6, <1>7 DEF DispatchTimesOut, beginFileMutation

\* The agent takes a request up, or answers it at once.
LEMMA ExecuteInv ==
    ASSUME FilesInv, ExecuteFileOperation
    PROVE  FilesInv'
<1>1. /\ work.step = "idle" /\ frames # <<>> /\ frames \in Seq(FileRequests)
      /\ frames' = Tail(frames) /\ UNCHANGED <<running, disturbed, intended, serverTask>>
      /\ file \in [FileRequests -> FileRows]
  BY DEF ExecuteFileOperation, FilesInv, FilesTypes, atTasks
<1>2. Head(frames) \in FileRequests /\ frames' \in Seq(FileRequests)
  BY <1>1, HeadTailProperties
<1>3. CASE Answer(Head(frames)) /\ UNCHANGED work
  <2>1. FilesTypes'
    BY <1>1, <1>2, <1>3, ReturnedEnds DEF FilesInv, FilesTypes, Answer
  <2> QED
    BY <1>1, <1>3, <2>1, ReturnedEnds, SeenStays, PowerStays DEF FilesInv, Answer
<1>4. CASE /\ work' = [request |-> Head(frames), wasRunning |-> running, cut |-> FALSE,
                       step |-> IF running \/ file[Head(frames)].kind = "write"
                                THEN "exec" ELSE "start"]
           /\ UNCHANGED <<file, gates>>
  <2> DEFINE q == Head(frames)
  <2>1. /\ work' \in WorkRows /\ work'.request = q /\ work'.wasRunning = running
        /\ work'.step \in {"exec", "start"}
        /\ work'.step = "start" => ~running /\ file[q].kind # "write"
        /\ work'.step = "exec" => running \/ file[q].kind = "write"
    BY <1>2, <1>4 DEF WorkRows, FilesInv, FilesTypes
  <2>2. FilesTypes'
    BY <1>1, <1>2, <1>4, <2>1 DEF FilesInv, FilesTypes
  <2>3. ~disturbed => running = intended
    BY <1>1 DEF FilesInv, PowerInv, Borrowed
  <2>4. Borrowed' <=> work'.step = "start"
    BY <1>4, <2>1 DEF Borrowed
  <2>5. PowerInv'
    BY <1>1, <2>1, <2>3, <2>4 DEF PowerInv, FilesInv, FilesTypes
  <2>6. SeenInv'
    BY <1>1, <1>4 DEF FilesInv, SeenInv
  <2> QED
    BY <2>2, <2>5, <2>6 DEF FilesInv
<1> QED
  BY <1>3, <1>4 DEF ExecuteFileOperation

\* NoWork is no work.
LEMMA NoWorkIsIdle == NoWork \in WorkRows /\ NoWork.step = "idle"
  BY DEF NoWork, WorkRows

\* The agent is done with a request: the container is as intended again.
LEMMA WorkEnds ==
    ASSUME FilesInv, work' = NoWork, NEW Q, Returned(Q),
           frames' \in Seq(FileRequests), running' \in BOOLEAN, disturbed' \in BOOLEAN,
           UNCHANGED <<intended, serverTask>>,
           ~disturbed' => running' = intended
    PROVE  FilesInv'
<1>1. file \in [FileRequests -> FileRows]
  BY DEF FilesInv, FilesTypes
<1>2. FilesTypes'
  BY <1>1, ReturnedEnds, NoWorkIsIdle DEF FilesInv, FilesTypes
<1>3. ~Borrowed'
  BY NoWorkIsIdle DEF Borrowed
<1>4. PowerInv'
  BY <1>3, NoWorkIsIdle DEF PowerInv
<1>5. SeenInv'
  BY <1>1, ReturnedEnds, SeenStays DEF FilesInv
<1> QED
  BY <1>2, <1>4, <1>5 DEF FilesInv

\* The agent goes on with a request.
LEMMA WorkGoesOn ==
    ASSUME FilesInv, NEW step \in {"exec", "settle"}, work.step # "idle",
           work' = [work EXCEPT !.step = step],
           running' \in BOOLEAN, UNCHANGED <<file, frames, disturbed, intended, serverTask>>,
           step = "settle" => file[work.request].kind # "write",
           ~Borrowed => running' = running /\ work.step # "start"
    PROVE  FilesInv'
<1>1. /\ work' \in WorkRows /\ work'.step = step /\ work'.request = work.request
      /\ work'.wasRunning = work.wasRunning
  BY DEF FilesInv, FilesTypes, WorkRows
<1>2. FilesTypes'
  BY <1>1 DEF FilesInv, FilesTypes
<1>3. Borrowed' <=> Borrowed
  BY <1>1 DEF Borrowed
<1>4. PowerInv'
  BY <1>1, <1>3 DEF FilesInv, PowerInv
<1>5. SeenInv'
  BY DEF FilesInv, SeenInv
<1> QED
  BY <1>2, <1>4, <1>5 DEF FilesInv

\* Start the container, run the operation, put the power state back.
LEMMA AgentFileInv ==
    ASSUME FilesInv, ensureContainerRunning \/ runFileOperation \/ restoreContainerState
    PROVE  FilesInv'
<1>1. /\ UNCHANGED <<frames, intended, serverTask>> /\ frames \in Seq(FileRequests)
      /\ running \in BOOLEAN /\ disturbed \in BOOLEAN /\ work \in WorkRows
      /\ work.wasRunning \in BOOLEAN /\ work.cut \in BOOLEAN
  BY DEF ensureContainerRunning, runFileOperation, restoreContainerState, atTasks,
     FilesInv, FilesTypes, WorkRows
<1>2. CASE ensureContainerRunning
  <2>1. work.step = "start" /\ Borrowed
    BY <1>2 DEF ensureContainerRunning, FilesInv, PowerInv
  <2>2. CASE /\ running' = TRUE /\ work' = [work EXCEPT !.step = "exec"]
             /\ UNCHANGED <<file, gates, disturbed>>
    BY <1>1, <2>1, <2>2, WorkGoesOn
  <2>3. CASE /\ running' \in {running, running \/ AgentFails}
             /\ disturbed' = (disturbed \/ running' # running)
             /\ work' = NoWork /\ Answer(work.request)
    <3>1. ~disturbed => running = intended
      BY <2>1 DEF FilesInv, PowerInv
    <3>2. running' \in BOOLEAN /\ disturbed' \in BOOLEAN
      BY <1>1, <2>3
    <3>3. ~disturbed' => ~disturbed /\ running' = running
      BY <2>3
    <3>4. ~disturbed' => running' = intended
      BY <3>1, <3>3
    <3> QED
      BY <1>1, <2>1, <2>3, <3>2, <3>4, WorkEnds DEF Answer
  <2> QED
    BY <1>2, <2>2, <2>3 DEF ensureContainerRunning
<1>3. CASE runFileOperation
  <2>1. work.step = "exec" /\ disturbed' = disturbed /\ running' = running
    BY <1>3 DEF runFileOperation
  <2>2. CASE file[work.request].kind = "write"
    <3>1. ~disturbed => running = intended
      BY <2>1, <2>2 DEF FilesInv, PowerInv, Borrowed
    <3>2. work' = NoWork /\ Answer(work.request)
      BY <1>3, <2>2 DEF runFileOperation
    <3> QED
      BY <1>1, <2>1, <3>1, <3>2, WorkEnds DEF Answer
  <2>3. CASE file[work.request].kind # "write"
    <3>1. work' = [work EXCEPT !.step = "settle"] /\ UNCHANGED file
      BY <1>3, <2>3 DEF runFileOperation
    <3> QED
      BY <1>1, <2>1, <2>3, <3>1, WorkGoesOn
  <2> QED
    BY <2>2, <2>3
<1>4. CASE restoreContainerState
  <2>1. work.step = "settle" /\ work' = NoWork /\ Answer(work.request)
    BY <1>4 DEF restoreContainerState
  <2>2. ~work.wasRunning => Borrowed
    BY <2>1 DEF FilesInv, PowerInv, Borrowed
  <2>3. CASE work.wasRunning /\ UNCHANGED <<running, disturbed>>
    <3>1. ~disturbed => running = intended
      BY <2>1, <2>3 DEF FilesInv, PowerInv, Borrowed
    <3> QED
      BY <1>1, <2>1, <2>3, <3>1, WorkEnds DEF Answer
  <2>4. CASE ~work.wasRunning /\ running' = FALSE /\ UNCHANGED disturbed
    <3>1. ~disturbed => intended = FALSE
      BY <2>2, <2>4 DEF FilesInv, PowerInv
    <3> QED
      BY <1>1, <2>1, <2>4, <3>1, WorkEnds DEF Answer
  <2>5. CASE disturbed' = TRUE /\ UNCHANGED running
    BY <1>1, <2>1, <2>5, WorkEnds DEF Answer
  <2> QED
    BY <1>4, <2>3, <2>4, <2>5 DEF restoreContainerState
<1> QED
  BY <1>2, <1>3, <1>4

\* The session or the agent ends.
LEMMA AgentLostInv ==
    ASSUME FilesInv, SessionLost \/ AgentDies
    PROVE  FilesInv'
<1>1. /\ UNCHANGED <<running, intended, serverTask>> /\ frames' = <<>>
      /\ Returned({q \in FileRequests : file[q].pc = "waiting"})
      /\ file \in [FileRequests -> FileRows] /\ work \in WorkRows
      /\ running \in BOOLEAN /\ disturbed \in BOOLEAN
  BY DEF SessionLost, AgentDies, atTasks, FilesInv, FilesTypes
<1>2. frames' \in Seq(FileRequests)
  BY <1>1
<1>3. CASE SessionLost
  <2>1. work' = [work EXCEPT !.cut = work.step # "idle"] /\ disturbed' = disturbed
    BY <1>3 DEF SessionLost
  <2>2. /\ work' \in WorkRows /\ work'.step = work.step /\ work'.request = work.request
        /\ work'.wasRunning = work.wasRunning
    BY <1>1, <2>1 DEF WorkRows
  <2>3. FilesTypes'
    BY <1>1, <1>2, <2>1, <2>2, ReturnedEnds DEF FilesInv, FilesTypes
  <2>4. /\ Borrowed' <=> Borrowed
        /\ work.step # "idle" => file'[work.request].kind = file[work.request].kind
    BY <1>1, <2>2, ReturnedEnds DEF Borrowed, FilesInv, FilesTypes
  <2>5. PowerInv'
    BY <1>1, <2>1, <2>2, <2>4 DEF FilesInv, PowerInv
  <2>6. SeenInv'
    BY <1>1, ReturnedEnds, SeenStays DEF FilesInv
  <2> QED
    BY <2>3, <2>5, <2>6 DEF FilesInv
<1>4. CASE AgentDies
  <2>1. disturbed' = (disturbed \/ Borrowed) /\ work' = NoWork
    BY <1>4 DEF AgentDies
  <2>2. disturbed' \in BOOLEAN
    BY <2>1
  <2>3. ~disturbed' => running = intended
    BY <2>1 DEF FilesInv, PowerInv
  <2> QED
    BY <1>1, <1>2, <2>1, <2>2, <2>3, WorkEnds
<1> QED
  BY <1>3, <1>4

\* The tasks of the server.
LEMMA ServerTaskInv ==
    ASSUME FilesInv,
           \/ \E type \in {"start", "stop", "restore"} : RequestTask(type)
           \/ powerTask \/ restoreTask \/ restoreTaskEnds
    PROVE  FilesInv'
<1>1. /\ UNCHANGED <<file, frames, work>> /\ serverTask \in TaskRows
      /\ serverTask.serial \in Nat
  BY DEF RequestTask, powerTask, restoreTask, restoreTaskEnds, atAgent, FilesInv,
     FilesTypes, TaskRows
<1>2. \A q \in FileRequests : file[q].seen \in Nat
  BY DEF FilesInv, FilesTypes, FileRows
<1>3. ASSUME NEW type \in {"start", "stop", "restore"}, RequestTask(type)
      PROVE  FilesInv'
  <2>1. /\ serverTask' = [type |-> type, step |-> "queued", serial |-> serverTask.serial + 1]
        /\ UNCHANGED <<running, intended, disturbed>>
    BY <1>3 DEF RequestTask, atAgent
  <2>2. serverTask' \in TaskRows /\ serverTask'.serial = serverTask.serial + 1
    BY <1>1, <2>1 DEF TaskRows
  <2>3. SeenInv'
    BY <1>1, <1>2, <2>2 DEF FilesInv, SeenInv
  <2>4. PowerInv'
    BY <1>1, <2>1 DEF FilesInv, PowerInv, Borrowed
  <2> QED
    BY <1>1, <2>1, <2>2, <2>3, <2>4 DEF FilesInv, FilesTypes
<1>4. ASSUME \/ serverTask' = TaskEnded
             \/ serverTask' = [serverTask EXCEPT !.step = "restoring"]
             \/ serverTask' = serverTask
      PROVE  serverTask' \in TaskRows /\ SeenInv'
  <2>1. /\ serverTask' \in TaskRows /\ serverTask'.serial = serverTask.serial
        /\ serverTask'.type \in {"none", serverTask.type}
    BY <1>1, <1>4 DEF TaskEnded, TaskRows
  <2> QED
    BY <1>1, <2>1 DEF FilesInv, SeenInv
<1>5. CASE powerTask
  <2>1. /\ serverTask' \in {serverTask, TaskEnded}
        /\ \/ /\ running' = (serverTask.type = "start") /\ intended' = running'
              /\ disturbed' = (disturbed \/ Borrowed)
           \/ /\ running' \in {running, serverTask.type = "start"}
              /\ disturbed' = (disturbed \/ running' # running) /\ UNCHANGED intended
    BY <1>5 DEF powerTask
  <2>2. running \in BOOLEAN /\ intended \in BOOLEAN /\ disturbed \in BOOLEAN
    BY DEF FilesInv, FilesTypes
  <2>3. running' \in BOOLEAN /\ intended' \in BOOLEAN /\ disturbed' \in BOOLEAN
    BY <2>1, <2>2
  <2>4. Borrowed' <=> Borrowed
    BY <1>1 DEF Borrowed
  <2>5. ~disturbed' => /\ ~disturbed
                       /\ \/ running' = intended' /\ ~Borrowed
                          \/ running' = running /\ intended' = intended
    BY <2>1
  <2>6. PowerInv'
    BY <1>1, <2>3, <2>4, <2>5 DEF FilesInv, PowerInv
  <2> QED
    BY <1>1, <1>4, <2>1, <2>3, <2>6 DEF FilesInv, FilesTypes
<1>6. CASE restoreTask \/ restoreTaskEnds
  <2>1. UNCHANGED <<running, intended, disturbed>>
    BY <1>6 DEF restoreTask, restoreTaskEnds, atAgent
  <2>2. serverTask' \in TaskRows /\ SeenInv'
    BY <1>4, <1>6 DEF restoreTask, restoreTaskEnds
  <2>3. PowerInv'
    BY <1>1, <2>1 DEF FilesInv, PowerInv, Borrowed
  <2> QED
    BY <1>1, <2>1, <2>2, <2>3 DEF FilesInv, FilesTypes
<1> QED
  BY <1>3, <1>5, <1>6

\* The power state and the checks of mutations, in every reachable state.
THEOREM FilesInvariant == FilesSpec => []FilesInv
<1>1. FilesInit => FilesInv
  <2> SUFFICES ASSUME FilesInit PROVE FilesInv
    OBVIOUS
  <2>1. PICK kind \in [FileRequests -> FileKinds] :
          file = [q \in FileRequests |->
                     [kind |-> kind[q], pc |-> "new", panel |-> NoRequest, seen |-> 0]]
    BY DEF FilesInit
  <2>2. /\ \A q \in FileRequests : file[q] \in FileRows /\ file[q].pc = "new"
        /\ file \in [FileRequests -> FileRows]
    BY <2>1 DEF FileRows
  <2>3. [type |-> "none", step |-> "none", serial |-> 0] \in TaskRows
    BY DEF TaskRows
  <2>4. FilesTypes
    <3>1. running \in BOOLEAN /\ intended \in BOOLEAN /\ disturbed \in BOOLEAN
      BY DEF FilesInit
    <3>2. frames = <<>> /\ work = NoWork /\ serverTask \in TaskRows
      BY <2>3 DEF FilesInit
    <3>3. frames \in Seq(FileRequests)
      BY <3>2
    <3> QED
      BY <2>2, <3>1, <3>2, <3>3, NoWorkIsIdle DEF FilesTypes
  <2>5. PowerInv
    BY NoWorkIsIdle DEF FilesInit, PowerInv, Borrowed
  <2>6. SeenInv
    BY <2>2 DEF SeenInv
  <2> QED
    BY <2>4, <2>5, <2>6 DEF FilesInv
<1>2. FilesInv /\ [FilesNext]_filesVars => FilesInv'
  <2> SUFFICES ASSUME FilesInv, [FilesNext]_filesVars
               PROVE  FilesInv'
    OBVIOUS
  <2>1. CASE UNCHANGED filesVars
    BY <2>1 DEF filesVars, FilesInv, FilesTypes, PowerInv, SeenInv, Borrowed
  <2> QED
    BY <2>1, PanelInv, ExecuteInv, AgentFileInv, AgentLostInv, ServerTaskInv DEF FilesNext
<1> QED
  BY <1>1, <1>2, PTL DEF FilesSpec

\* File operations give the power state back, and mutations that a restore meets
\* passed their check before it was asked for.
THEOREM FilesRespectTheTasks == FilesSpec => []FilesRespectTasks
<1>1. FilesInv => FilesRespectTasks
  <2> SUFFICES ASSUME FilesInv PROVE FilesRespectTasks
    OBVIOUS
  <2>1. AtRest /\ ~disturbed => running = intended
    BY DEF AtRest, FilesInv, PowerInv, Borrowed
  <2> QED
    BY <2>1 DEF FilesInv, SeenInv, FilesRespectTasks
<1> QED
  BY <1>1, FilesInvariant, PTL

-----------------------------------------------------------------------------
(* Scheduled runs, for every set of schedules and replicas, every period,    *)
(* batch and number of crashes.                                              *)

\* The times of a schedule: the next one is later, and none is in between.
LEMMA NextAfterIsNext ==
    ASSUME NEW t \in Nat
    PROVE  /\ NextAfter(t) \in Nat /\ t < NextAfter(t) /\ NextAfter(t) % Period = 0
           /\ t % Period = 0 =>
                 \A u \in Nat : u % Period = 0 /\ u < NextAfter(t) => u <= t
<1>1. Period \in Nat \ {0}
  BY ScheduleAssumption
<1>2. t \div Period \in Nat /\ t < (t \div Period + 1) * Period
  BY <1>1
<1>3. \A q \in Nat : (q * Period) % Period = 0 /\ q * Period \in Nat
  BY <1>1
<1>4. ASSUME t % Period = 0, NEW u \in Nat, u % Period = 0, u < NextAfter(t)
      PROVE  u <= t
  <2>1. /\ u \div Period \in Nat /\ u = (u \div Period) * Period
        /\ t = (t \div Period) * Period
    BY <1>1, <1>4
  <2>2. u \div Period <= t \div Period
    <3>1. (u \div Period) * Period < (t \div Period + 1) * Period
      BY <1>4, <2>1 DEF NextAfter
    <3>2. \A m, n \in Nat : m * Period < (n + 1) * Period => m <= n
      BY <1>1
    <3> QED
      BY <1>2, <2>1, <3>1, <3>2
  <2>3. \A m, n \in Nat : m <= n => m * Period <= n * Period
    BY <1>1
  <2> QED
    BY <1>2, <2>1, <2>2, <2>3
<1> QED
  BY <1>2, <1>3, <1>4 DEF NextAfter

\* A run is a schedule and one of its times.
LEMMA KeysArePairs ==
    /\ \A k \in Keys : k[1] \in Schedules /\ k[2] \in Times /\ k = <<k[1], k[2]>>
    /\ \A s \in Schedules, t \in Times : <<s, t>> \in Keys
    /\ \A t \in Times : t \in Nat /\ t % Period = 0
    /\ \A t \in Nat : t > 0 /\ t <= MaxTime /\ t % Period = 0 => t \in Times
  BY ScheduleAssumption DEF Keys, Times

InProgress == {"queued", "running"}
Ended == {"succeeded", "failed", "skipped"}
Working == {"acting", "recording"}

\* next_run_at is a time of the schedule, and everything known of its runs is of
\* earlier times: a time is claimed once.
NextIsNew ==
    /\ \A s \in Schedules : schedule[s].status # "absent" =>
          schedule[s].next > 0 /\ schedule[s].next % Period = 0
    /\ \A k \in Keys : run[k] # "none" \/ task[k] # "none" \/ acted[k] # 0 =>
          schedule[k[1]].status # "absent" /\ k[2] < schedule[k[1]].next

\* A replica at work has a run of its own, which waits for its result or went with
\* its schedule.
WorkIsOwn ==
    /\ \A r \in Replicas : scheduler[r].pc \in Working =>
          LET k == scheduler[r].key IN
          /\ k \in Keys /\ k[2] < schedule[k[1]].next
          /\ schedule[k[1]].status # "absent"
          /\ run[k] \in {"queued", "none"}
          /\ run[k] = "none" => schedule[k[1]].status = "deleted"
          /\ scheduler[r].pc = "acting" => acted[k] = 0
          /\ scheduler[r].pc = "recording" =>
                /\ scheduler[r].result # "none"
                /\ (scheduler[r].result = "running" <=> task[k] # "none")
    /\ \A r, q \in Replicas : r # q /\ scheduler[r].pc \in Working
                                    /\ scheduler[q].pc \in Working =>
          scheduler[r].key # scheduler[q].key

\* Runs, tasks and calls of the action agree.
RunsMatchTasks ==
    \A k \in Keys : /\ acted[k] = 0 => task[k] = "none"
                    /\ run[k] = "running" => task[k] # "none"

ScheduleInv ==
    /\ ScheduleTypeOK /\ NextIsNew /\ WorkIsOwn /\ RunsMatchTasks
    /\ RunsDoNotOverlap /\ ActsOnce /\ RunTellsTaskEnd /\ CatchUpIsComplete

SchedulerRows == [pc : {"idle", "looping", "acting", "recording"}, now : 0 .. MaxTime,
                  left : 0 .. ScheduleBatch, key : Keys \cup {None},
                  result : {"none", "running", "succeeded", "failed"}]
ScheduleRows == [status : {"absent", "enabled", "deleted"}, next : Nat]
RunStatuses == {"none", "queued", "running", "succeeded", "failed", "skipped"}
TaskStatuses == {"none", "active", "succeeded", "failed"}

\* The parts that depend on schedules, runs, tasks and calls, but on no replica.
LEMMA QuietSchedulers ==
    ASSUME ScheduleInv, ScheduleTypeOK', UNCHANGED <<schedule, run, task, created, acted>>
    PROVE  WorkIsOwn' => ScheduleInv'
  BY DEF ScheduleInv, NextIsNew, RunsMatchTasks, RunsDoNotOverlap, ActsOnce,
     RunTellsTaskEnd, CatchUpIsComplete

\* A replica that is not at work, and the others as they were.
LEMMA OneSchedulerRests ==
    ASSUME WorkIsOwn, NEW r \in Replicas, NEW row, row.pc \notin Working,
           scheduler \in [Replicas -> SchedulerRows],
           scheduler' = [scheduler EXCEPT ![r] = row],
           UNCHANGED <<schedule, run, task, acted>>
    PROVE  WorkIsOwn'
<1>1. \A q \in Replicas : scheduler'[q].pc \in Working => q # r /\ scheduler'[q] = scheduler[q]
  OBVIOUS
<1> QED
  BY <1>1 DEF WorkIsOwn

\* Time, ticks and crashes.
LEMMA TickInv ==
    ASSUME ScheduleInv,
           \/ TimePasses
           \/ \E r \in Replicas : StartScheduleTick(r) \/ SchedulerCrashes(r)
    PROVE  ScheduleInv'
<1>1. /\ UNCHANGED <<schedule, run, task, created, acted>>
      /\ scheduler \in [Replicas -> SchedulerRows] /\ clock \in 1 .. MaxTime
      /\ schedulerCrashes \in 0 .. MaxSchedulerCrashes /\ abandoned \subseteq Keys
  BY DEF TimePasses, StartScheduleTick, SchedulerCrashes, ScheduleInv, ScheduleTypeOK,
     SchedulerRows
<1>2. /\ IdleScheduler \in SchedulerRows /\ IdleScheduler.pc = "idle"
  BY ScheduleAssumption DEF IdleScheduler, SchedulerRows
<1>3. CASE TimePasses
  <2>1. clock' \in 1 .. MaxTime /\ UNCHANGED <<scheduler, schedulerCrashes, abandoned>>
    BY <1>1, <1>3, ScheduleAssumption DEF TimePasses
  <2>2. ScheduleTypeOK'
    BY <1>1, <2>1 DEF ScheduleInv, ScheduleTypeOK
  <2>3. WorkIsOwn'
    BY <1>1, <2>1 DEF ScheduleInv, WorkIsOwn
  <2> QED
    BY <1>1, <2>2, <2>3, QuietSchedulers
<1>4. ASSUME NEW r \in Replicas, StartScheduleTick(r)
      PROVE  ScheduleInv'
  <2> DEFINE row == [IdleScheduler EXCEPT !.pc = "looping", !.now = clock, !.left = ScheduleBatch]
  <2>1. row \in SchedulerRows /\ row.pc = "looping"
    <3>1. clock \in 0 .. MaxTime /\ ScheduleBatch \in 0 .. ScheduleBatch
      BY <1>1, ScheduleAssumption
    <3> QED
      BY <1>2, <3>1 DEF SchedulerRows
  <2>2. /\ scheduler' = [scheduler EXCEPT ![r] = row]
        /\ UNCHANGED <<clock, schedulerCrashes, abandoned>>
    BY <1>4 DEF StartScheduleTick
  <2> HIDE DEF row
  <2>3. ScheduleTypeOK'
    BY <1>1, <2>1, <2>2 DEF ScheduleInv, ScheduleTypeOK, SchedulerRows
  <2>4. WorkIsOwn'
    BY <1>1, <2>1, <2>2, OneSchedulerRests DEF ScheduleInv, Working
  <2> QED
    BY <1>1, <2>3, <2>4, QuietSchedulers
<1>5. ASSUME NEW r \in Replicas, SchedulerCrashes(r)
      PROVE  ScheduleInv'
  <2>1. /\ scheduler' = [scheduler EXCEPT ![r] = IdleScheduler]
        /\ UNCHANGED clock
        /\ schedulerCrashes' \in 0 .. MaxSchedulerCrashes
    BY <1>1, <1>5, ScheduleAssumption DEF SchedulerCrashes
  <2>2. abandoned' \subseteq Keys
    <3>1. scheduler[r].key \in Keys \cup {None}
      BY <1>1 DEF SchedulerRows
    <3> QED
      BY <1>1, <1>5, <3>1 DEF SchedulerCrashes
  <2>3. ScheduleTypeOK'
    BY <1>1, <1>2, <2>1, <2>2 DEF ScheduleInv, ScheduleTypeOK, SchedulerRows
  <2>4. WorkIsOwn'
    BY <1>1, <1>2, <2>1, OneSchedulerRests DEF ScheduleInv, Working
  <2> QED
    BY <1>1, <2>3, <2>4, QuietSchedulers
<1> QED
  BY <1>3, <1>4, <1>5

\* A schedule comes with a first time of its own.
LEMMA CreateScheduleInv ==
    ASSUME ScheduleInv, NEW s \in Schedules, CreateSchedule(s)
    PROVE  ScheduleInv'
<1> DEFINE new == [status |-> "enabled", next |-> NextAfter(clock)]
<1>1. /\ schedule[s].status = "absent" /\ schedule' = [schedule EXCEPT ![s] = new]
      /\ created' = [created EXCEPT ![s] = NextAfter(clock)]
      /\ UNCHANGED <<clock, run, task, scheduler, schedulerCrashes, acted, abandoned>>
  BY DEF CreateSchedule
<1>2. clock \in Nat
  BY DEF ScheduleInv, ScheduleTypeOK
<1>3. /\ NextAfter(clock) \in Nat /\ NextAfter(clock) > 0 /\ NextAfter(clock) % Period = 0
  BY <1>2, NextAfterIsNext
<1>4. /\ new \in ScheduleRows /\ new.status = "enabled" /\ new.next = NextAfter(clock)
  BY <1>3 DEF ScheduleRows
<1> HIDE DEF new
<1>5. /\ schedule' \in [Schedules -> ScheduleRows] /\ schedule'[s] = new
      /\ \A u \in Schedules : u # s => schedule'[u] = schedule[u] /\ created'[u] = created[u]
      /\ created' \in [Schedules -> Nat] /\ created'[s] = NextAfter(clock)
  BY <1>1, <1>3, <1>4 DEF ScheduleInv, ScheduleTypeOK, ScheduleRows
<1>6. ScheduleTypeOK'
  BY <1>1, <1>5 DEF ScheduleInv, ScheduleTypeOK, ScheduleRows
<1>7. NextIsNew'
  <2>1. \A k \in Keys : run[k] # "none" \/ task[k] # "none" \/ acted[k] # 0 => k[1] # s
    BY <1>1 DEF ScheduleInv, NextIsNew
  <2> QED
    BY <1>1, <1>3, <1>4, <1>5, <2>1, KeysArePairs DEF ScheduleInv, NextIsNew
<1>8. WorkIsOwn'
  <2>1. \A r \in Replicas : scheduler[r].pc \in Working =>
           scheduler[r].key \in Keys /\ scheduler[r].key[1] # s
    BY <1>1 DEF ScheduleInv, WorkIsOwn
  <2> QED
    BY <1>1, <1>5, <2>1, KeysArePairs DEF ScheduleInv, WorkIsOwn
<1>9. CatchUpIsComplete'
  BY <1>1, <1>3, <1>4, <1>5, KeysArePairs DEF ScheduleInv, CatchUpIsComplete
<1> QED
  BY <1>1, <1>6, <1>7, <1>8, <1>9 DEF ScheduleInv, RunsMatchTasks, RunsDoNotOverlap,
     ActsOnce, RunTellsTaskEnd

\* A schedule goes with its runs; its tasks and the replicas at work stay.
LEMMA DeleteScheduleInv ==
    ASSUME ScheduleInv, NEW s \in Schedules, DeleteSchedule(s)
    PROVE  ScheduleInv'
<1> DEFINE new == [schedule[s] EXCEPT !.status = "deleted"]
<1>1. /\ run' = [k \in Keys |-> IF k[1] = s THEN "none" ELSE run[k]]
      /\ UNCHANGED <<clock, task, scheduler, schedulerCrashes, created, acted, abandoned>>
      /\ schedule \in [Schedules -> ScheduleRows] /\ run \in [Keys -> RunStatuses]
      /\ schedule[s].status = "enabled"
  BY DEF DeleteSchedule, ScheduleInv, ScheduleTypeOK, ScheduleRows, RunStatuses
<1>2. /\ schedule' = [schedule EXCEPT ![s] = new] /\ new \in ScheduleRows
      /\ new.status = "deleted" /\ new.next = schedule[s].next
  BY <1>1 DEF DeleteSchedule, ScheduleRows
<1> HIDE DEF new
<1>3. /\ schedule' \in [Schedules -> ScheduleRows] /\ schedule'[s] = new
      /\ \A u \in Schedules : schedule'[u].next = schedule[u].next
      /\ \A u \in Schedules : u # s => schedule'[u] = schedule[u]
      /\ run' \in [Keys -> RunStatuses]
      /\ \A k \in Keys : run'[k] = IF k[1] = s THEN "none" ELSE run[k]
  BY <1>1, <1>2 DEF RunStatuses
<1>4. ScheduleTypeOK'
  BY <1>1, <1>3 DEF ScheduleInv, ScheduleTypeOK, ScheduleRows, RunStatuses
<1>5. NextIsNew'
  BY <1>1, <1>2, <1>3, KeysArePairs DEF ScheduleInv, NextIsNew
<1>6. WorkIsOwn'
  BY <1>1, <1>2, <1>3, KeysArePairs DEF ScheduleInv, WorkIsOwn
<1>7. CatchUpIsComplete' /\ RunsDoNotOverlap'
  BY <1>1, <1>2, <1>3, KeysArePairs DEF ScheduleInv, CatchUpIsComplete, RunsDoNotOverlap
<1>8. RunsMatchTasks' /\ ActsOnce' /\ RunTellsTaskEnd'
  BY <1>1, <1>3 DEF ScheduleInv, RunsMatchTasks, ActsOnce, RunTellsTaskEnd
<1> QED
  BY <1>4, <1>5, <1>6, <1>7, <1>8 DEF ScheduleInv

\* A claim, seen as what it does: the row of the schedule moves on to a later time,
\* the run is recorded, and the replica holds it unless it was skipped.
LEMMA ClaimKeepsInv ==
    ASSUME ScheduleInv, NEW r \in Replicas, NEW s \in Schedules, NEW next \in Times,
           NEW k \in Keys, k = <<s, next>>, k[1] = s, k[2] = next,
           schedule[s].next = next, schedule[s].status = "enabled",
           run[k] = "none", task[k] = "none", acted[k] = 0,
           NEW later \in Nat, next < later, later % Period = 0,
           Missed[s] = "catch-up" => \A u \in Nat : u % Period = 0 /\ u < later => u <= next,
           NEW new \in ScheduleRows, new.next = later, new.status = "enabled",
           NEW skipped \in BOOLEAN,
           NEW status \in {"skipped", "queued"}, status = "queued" <=> ~skipped,
           ~skipped => \/ Concurrency[s] = "allow"
                       \/ \A t \in Times : run[<<s, t>>] \notin InProgress,
           NEW row \in SchedulerRows,
           row.pc = IF skipped THEN "looping" ELSE "acting",
           row.key = IF skipped THEN None ELSE k,
           schedule' = [schedule EXCEPT ![s] = new],
           run' = [run EXCEPT ![k] = status],
           scheduler' = [scheduler EXCEPT ![r] = row],
           UNCHANGED <<clock, task, schedulerCrashes, created, acted, abandoned>>
    PROVE  ScheduleInv'
<1>1. /\ schedule \in [Schedules -> ScheduleRows] /\ run \in [Keys -> RunStatuses]
      /\ scheduler \in [Replicas -> SchedulerRows] /\ next \in Nat
  BY KeysArePairs DEF ScheduleInv, ScheduleTypeOK, ScheduleRows, RunStatuses, SchedulerRows
<1>11. /\ schedule' \in [Schedules -> ScheduleRows] /\ schedule'[s] = new
       /\ \A u \in Schedules : u # s => schedule'[u] = schedule[u]
       /\ run' \in [Keys -> RunStatuses] /\ run'[k] = status
       /\ \A l \in Keys : l # k => run'[l] = run[l]
       /\ scheduler' \in [Replicas -> SchedulerRows] /\ scheduler'[r] = row
       /\ \A q \in Replicas : q # r => scheduler'[q] = scheduler[q]
  BY <1>1 DEF RunStatuses
<1>12. ScheduleTypeOK'
  BY <1>1, <1>11 DEF ScheduleInv, ScheduleTypeOK, ScheduleRows, RunStatuses, SchedulerRows
<1>13. \A u \in Schedules : /\ schedule'[u].next \in Nat /\ schedule[u].next \in Nat
                            /\ schedule[u].next <= schedule'[u].next
                            /\ schedule'[u].status = schedule[u].status
  BY <1>1, <1>11 DEF ScheduleRows
<1>14. NextIsNew'
  <2>1. \A u \in Schedules : schedule'[u].status # "absent" =>
           schedule'[u].next > 0 /\ schedule'[u].next % Period = 0
    BY <1>1, <1>11 DEF ScheduleInv, NextIsNew
  <2>2. ASSUME NEW l \in Keys, run'[l] # "none" \/ task[l] # "none" \/ acted[l] # 0
        PROVE  schedule'[l[1]].status # "absent" /\ l[2] < schedule'[l[1]].next
    <3>1. CASE l = k
      BY <1>1, <1>11, <3>1
    <3>2. CASE l # k
      <4>1. /\ schedule[l[1]].status # "absent" /\ l[2] < schedule[l[1]].next
            /\ l[1] \in Schedules /\ l[2] \in Nat
        BY <1>11, <2>2, <3>2, KeysArePairs DEF ScheduleInv, NextIsNew
      <4> QED
        BY <1>13, <4>1
    <3> QED
      BY <3>1, <3>2
  <2> QED
    BY <1>1, <2>1, <2>2 DEF NextIsNew
<1>15. \A q \in Replicas : scheduler[q].pc \in Working => scheduler[q].key # k
  BY <1>1 DEF ScheduleInv, WorkIsOwn
<1>16. WorkIsOwn'
  <2>1. ASSUME NEW q \in Replicas, q # r, scheduler'[q].pc \in Working
        PROVE  LET l == scheduler'[q].key IN
               /\ l \in Keys /\ l[2] < schedule'[l[1]].next
               /\ schedule'[l[1]].status # "absent"
               /\ run'[l] \in {"queued", "none"}
               /\ run'[l] = "none" => schedule'[l[1]].status = "deleted"
               /\ scheduler'[q].pc = "acting" => acted'[l] = 0
               /\ scheduler'[q].pc = "recording" =>
                     /\ scheduler'[q].result # "none"
                     /\ (scheduler'[q].result = "running" <=> task'[l] # "none")
    <3> DEFINE l == scheduler[q].key
    <3>1. scheduler'[q] = scheduler[q] /\ scheduler[q].pc \in Working
      BY <1>11, <2>1
    <3>2. /\ l \in Keys /\ l[2] < schedule[l[1]].next /\ schedule[l[1]].status # "absent"
          /\ run[l] \in {"queued", "none"}
          /\ run[l] = "none" => schedule[l[1]].status = "deleted"
          /\ scheduler[q].pc = "acting" => acted[l] = 0
          /\ scheduler[q].pc = "recording" =>
                /\ scheduler[q].result # "none"
                /\ (scheduler[q].result = "running" <=> task[l] # "none")
      BY <3>1 DEF ScheduleInv, WorkIsOwn
    <3>3. l # k /\ l[1] \in Schedules /\ l[2] \in Nat
      BY <1>15, <3>1, <3>2, KeysArePairs
    <3> QED
      BY <1>1, <1>11, <1>13, <3>1, <3>2, <3>3
  <2>2. ASSUME scheduler'[r].pc \in Working
        PROVE  /\ scheduler'[r].key = k /\ scheduler'[r].pc = "acting" /\ run'[k] = "queued"
               /\ k[2] < schedule'[k[1]].next /\ schedule'[k[1]].status # "absent"
    BY <1>1, <1>11, <2>2 DEF Working
  <2>3. \A q, p \in Replicas : q # p /\ scheduler'[q].pc \in Working
                                     /\ scheduler'[p].pc \in Working =>
           scheduler'[q].key # scheduler'[p].key
    BY <1>11, <1>15, <2>2 DEF ScheduleInv, WorkIsOwn
  <2>4. ASSUME NEW q \in Replicas, scheduler'[q].pc \in Working
        PROVE  LET l == scheduler'[q].key IN
               /\ l \in Keys /\ l[2] < schedule'[l[1]].next
               /\ schedule'[l[1]].status # "absent"
               /\ run'[l] \in {"queued", "none"}
               /\ run'[l] = "none" => schedule'[l[1]].status = "deleted"
               /\ scheduler'[q].pc = "acting" => acted'[l] = 0
               /\ scheduler'[q].pc = "recording" =>
                     /\ scheduler'[q].result # "none"
                     /\ (scheduler'[q].result = "running" <=> task'[l] # "none")
    <3>1. CASE q = r
      BY <1>1, <2>2, <2>4, <3>1
    <3> QED
      BY <2>1, <2>4, <3>1
  <2> QED
    BY <2>3, <2>4 DEF WorkIsOwn
<1>17. RunsMatchTasks' /\ ActsOnce' /\ RunTellsTaskEnd'
  BY <1>1, <1>11 DEF ScheduleInv, RunsMatchTasks, ActsOnce, RunTellsTaskEnd
<1>18. RunsDoNotOverlap'
  <2>1. ASSUME NEW u \in Schedules, Concurrency[u] # "allow", NEW t \in Times, NEW v \in Times,
               run'[<<u, t>>] \in InProgress, run'[<<u, v>>] \in InProgress
        PROVE  t = v
    <3>1. <<u, t>> \in Keys /\ <<u, v>> \in Keys
      BY KeysArePairs
    <3>2. CASE <<u, t>> # k /\ <<u, v>> # k
      BY <1>11, <2>1, <3>1, <3>2 DEF ScheduleInv, RunsDoNotOverlap, InProgress
    <3>3. CASE (<<u, t>> = k \/ <<u, v>> = k) /\ t # v
      <4>1. u = s /\ status = "queued"
        BY <1>1, <1>11, <2>1, <3>3 DEF InProgress
      <4>2. \A w \in Times : run[<<s, w>>] \notin InProgress
        BY <1>1, <2>1, <4>1
      <4> QED
        BY <1>11, <2>1, <3>1, <3>3, <4>1, <4>2
    <3> QED
      BY <3>2, <3>3
  <2> QED
    BY <2>1 DEF RunsDoNotOverlap, InProgress
<1>19. CatchUpIsComplete'
  <2>1. ASSUME NEW u \in Schedules, Missed[u] = "catch-up", schedule'[u].status = "enabled",
               NEW t \in Times, created[u] <= t, t < schedule'[u].next
        PROVE  run'[<<u, t>>] # "none"
    <3>1. <<u, t>> \in Keys /\ t \in Nat /\ t % Period = 0
      BY KeysArePairs
    <3>2. CASE <<u, t>> = k
      BY <1>1, <1>11, <3>2
    <3>3. CASE <<u, t>> # k
      <4>1. t < schedule[u].next
        <5>1. CASE u # s
          BY <1>11, <2>1, <5>1
        <5>2. CASE u = s
          <6>1. t <= next /\ t # next
            BY <1>1, <1>11, <2>1, <3>1, <3>3, <5>2
          <6> QED
            BY <1>1, <3>1, <5>2, <6>1
        <5> QED
          BY <5>1, <5>2
      <4>2. run[<<u, t>>] # "none"
        BY <1>13, <2>1, <4>1 DEF ScheduleInv, CatchUpIsComplete
      <4> QED
        BY <1>11, <3>1, <3>3, <4>2
    <3> QED
      BY <3>2, <3>3
  <2> QED
    BY <1>1, <2>1 DEF CatchUpIsComplete
<1> QED
  BY <1>12, <1>14, <1>16, <1>17, <1>18, <1>19 DEF ScheduleInv

\* The claim of a due time: it is the first of that time, by any replica.
LEMMA ClaimInv ==
    ASSUME ScheduleInv, NEW r \in Replicas, ClaimDueSchedule(r)
    PROVE  ScheduleInv'
<1> DEFINE now == scheduler[r].now
<1>1. PICK s \in Schedules :
         LET k == <<s, schedule[s].next>>
             skipped == ActiveRun(s) /\ Concurrency[s] # "allow"
         IN
         /\ FirstDue(s, now)
         /\ schedule' = [schedule EXCEPT ![s].next = NextAfter(Base(s, now))]
         /\ run' = IF run[k] # "none" THEN run
                   ELSE [run EXCEPT ![k] = IF skipped THEN "skipped" ELSE "queued"]
         /\ scheduler' = [scheduler EXCEPT ![r].left = @ - 1,
                                       ![r].pc = IF skipped THEN "looping" ELSE "acting",
                                       ![r].key = IF skipped THEN None ELSE k]
  BY DEF ClaimDueSchedule
<1> DEFINE next == schedule[s].next
           k == <<s, next>>
           skipped == ActiveRun(s) /\ Concurrency[s] # "allow"
           later == NextAfter(Base(s, now))
           new == [schedule[s] EXCEPT !.next = later]
           status == IF skipped THEN "skipped" ELSE "queued"
           row == [scheduler[r] EXCEPT !.left = scheduler[r].left - 1,
                       !.pc = IF skipped THEN "looping" ELSE "acting",
                       !.key = IF skipped THEN None ELSE k]
<1>2. /\ UNCHANGED <<clock, task, schedulerCrashes, created, acted, abandoned>>
      /\ scheduler[r].left > 0
      /\ schedule \in [Schedules -> ScheduleRows] /\ run \in [Keys -> RunStatuses]
      /\ scheduler \in [Replicas -> SchedulerRows] /\ scheduler[r] \in SchedulerRows
      /\ now \in Nat /\ now <= MaxTime /\ next \in Nat /\ next <= now
      /\ schedule[s].status = "enabled"
  BY <1>1, ScheduleAssumption DEF ClaimDueSchedule, ScheduleInv, ScheduleTypeOK, ScheduleRows,
     RunStatuses, SchedulerRows, FirstDue, Due
<1>3. next > 0 /\ next % Period = 0
  BY <1>2 DEF ScheduleInv, NextIsNew
<1>4. k \in Keys /\ k[1] = s /\ k[2] = next /\ next \in Times /\ k = <<s, next>>
  BY <1>2, <1>3, ScheduleAssumption, KeysArePairs
<1>5. run[k] = "none" /\ task[k] = "none" /\ acted[k] = 0
  BY <1>2, <1>4 DEF ScheduleInv, NextIsNew
<1>6. /\ later \in Nat /\ next < later /\ later % Period = 0
      /\ Missed[s] = "catch-up" => \A u \in Nat : u % Period = 0 /\ u < later => u <= next
  <2>1. Base(s, now) \in Nat /\ next <= Base(s, now)
    BY <1>2 DEF Base
  <2>2. Missed[s] = "catch-up" => Base(s, now) = next
    BY DEF Base
  <2>3. later \in Nat /\ Base(s, now) < later /\ later % Period = 0
    BY <2>1, NextAfterIsNext
  <2> QED
    BY <1>2, <1>3, <2>1, <2>2, <2>3, NextAfterIsNext
<1>7. /\ schedule' = [schedule EXCEPT ![s] = new] /\ new \in ScheduleRows
      /\ new.next = later /\ new.status = "enabled"
  BY <1>1, <1>2, <1>6 DEF ScheduleRows
<1>8. run' = [run EXCEPT ![k] = status]
  BY <1>1, <1>5
<1>9. /\ scheduler' = [scheduler EXCEPT ![r] = row]
      /\ row \in SchedulerRows
      /\ row.pc = IF skipped THEN "looping" ELSE "acting"
      /\ row.key = IF skipped THEN None ELSE k
  <2>1. scheduler[r].left - 1 \in 0 .. ScheduleBatch
    BY <1>2, ScheduleAssumption DEF SchedulerRows
  <2> QED
    BY <1>1, <1>2, <1>4, <2>1 DEF SchedulerRows
<1>10. /\ skipped \in BOOLEAN /\ status \in {"skipped", "queued"}
       /\ status = "queued" <=> ~skipped
       /\ ~skipped => \/ Concurrency[s] = "allow"
                      \/ \A t \in Times : run[<<s, t>>] \notin InProgress
  BY DEF ActiveRun, InProgress
<1>11. UNCHANGED <<clock, task, schedulerCrashes, created, acted, abandoned>>
  BY <1>2
<1>12. schedule[s].next = next /\ schedule[s].status = "enabled"
  BY <1>2
<1> HIDE DEF new, status, row, skipped, later, k, next
<1> QED
  BY <1>4, <1>5, <1>6, <1>7, <1>8, <1>9, <1>10, <1>11, <1>12, ClaimKeepsInv

\* What a replica at work may rely on.
LEMMA WorkFacts ==
    ASSUME ScheduleInv, NEW r \in Replicas, scheduler[r].pc \in Working
    PROVE  LET k == scheduler[r].key IN
           /\ k \in Keys /\ k[1] \in Schedules /\ k[2] < schedule[k[1]].next
           /\ schedule[k[1]].status # "absent"
           /\ run[k] \in {"queued", "none"}
           /\ scheduler[r].pc = "acting" => acted[k] = 0 /\ task[k] = "none"
           /\ \A q \in Replicas : q # r /\ scheduler[q].pc \in Working =>
                 scheduler[q].key # k
  BY KeysArePairs DEF ScheduleInv, WorkIsOwn, RunsMatchTasks

\* The action of a run is called once, by the replica that holds it.
LEMMA ActKeepsInv ==
    ASSUME ScheduleInv, NEW r \in Replicas, scheduler[r].pc = "acting",
           NEW k \in Keys, k = scheduler[r].key,
           NEW row \in SchedulerRows, row.pc = "recording", row.key = k,
           row.result # "none",
           scheduler' = [scheduler EXCEPT ![r] = row],
           acted' = [acted EXCEPT ![k] = 1],
           NEW status \in TaskStatuses, task' = [task EXCEPT ![k] = status],
           row.result = "running" <=> status # "none",
           UNCHANGED <<clock, schedule, run, schedulerCrashes, created, abandoned>>
    PROVE  ScheduleInv'
<1>1. /\ scheduler \in [Replicas -> SchedulerRows] /\ task \in [Keys -> TaskStatuses]
      /\ acted \in [Keys -> Nat]
  BY DEF ScheduleInv, ScheduleTypeOK, SchedulerRows, TaskStatuses
<1>2. /\ k[1] \in Schedules /\ k[2] < schedule[k[1]].next /\ schedule[k[1]].status # "absent"
      /\ run[k] \in {"queued", "none"} /\ acted[k] = 0 /\ task[k] = "none"
      /\ \A q \in Replicas : q # r /\ scheduler[q].pc \in Working => scheduler[q].key # k
  BY WorkFacts DEF Working
<1>3. /\ scheduler' \in [Replicas -> SchedulerRows] /\ scheduler'[r] = row
      /\ \A q \in Replicas : q # r => scheduler'[q] = scheduler[q]
      /\ task' \in [Keys -> TaskStatuses] /\ task'[k] = status
      /\ \A l \in Keys : l # k => task'[l] = task[l] /\ acted'[l] = acted[l]
      /\ acted' \in [Keys -> Nat] /\ acted'[k] = 1
  BY <1>1
<1>4. ScheduleTypeOK'
  BY <1>3 DEF ScheduleInv, ScheduleTypeOK, SchedulerRows, TaskStatuses
<1>5. NextIsNew'
  BY <1>2, <1>3, KeysArePairs DEF ScheduleInv, NextIsNew
<1>6. WorkIsOwn'
  <2>1. ASSUME NEW q \in Replicas, scheduler'[q].pc \in Working
        PROVE  LET l == scheduler'[q].key IN
               /\ l \in Keys /\ l[2] < schedule[l[1]].next
               /\ schedule[l[1]].status # "absent"
               /\ run[l] \in {"queued", "none"}
               /\ run[l] = "none" => schedule[l[1]].status = "deleted"
               /\ scheduler'[q].pc = "acting" => acted'[l] = 0
               /\ scheduler'[q].pc = "recording" =>
                     /\ scheduler'[q].result # "none"
                     /\ (scheduler'[q].result = "running" <=> task'[l] # "none")
    <3>1. CASE q = r
      <4>1. run[k] = "none" => schedule[k[1]].status = "deleted"
        BY DEF ScheduleInv, WorkIsOwn, Working
      <4> QED
        BY <1>2, <1>3, <3>1, <4>1
    <3>2. CASE q # r
      <4>1. scheduler'[q] = scheduler[q] /\ scheduler[q].key # k
        BY <1>2, <1>3, <2>1, <3>2
      <4> QED
        BY <1>3, <2>1, <4>1 DEF ScheduleInv, WorkIsOwn
    <3> QED
      BY <3>1, <3>2
  <2>2. \A q, p \in Replicas : q # p /\ scheduler'[q].pc \in Working
                                     /\ scheduler'[p].pc \in Working =>
           scheduler'[q].key # scheduler'[p].key
    BY <1>2, <1>3 DEF ScheduleInv, WorkIsOwn
  <2> QED
    BY <2>1, <2>2 DEF WorkIsOwn
<1>7. RunsMatchTasks' /\ ActsOnce' /\ RunTellsTaskEnd'
  BY <1>2, <1>3 DEF ScheduleInv, RunsMatchTasks, ActsOnce, RunTellsTaskEnd
<1>8. RunsDoNotOverlap' /\ CatchUpIsComplete'
  BY DEF ScheduleInv, RunsDoNotOverlap, CatchUpIsComplete
<1> QED
  BY <1>4, <1>5, <1>6, <1>7, <1>8 DEF ScheduleInv

\* Whatever becomes of the call, its replica knows whether there is a task.
LEMMA ActInv ==
    ASSUME ScheduleInv, NEW r \in Replicas, Act(r)
    PROVE  ScheduleInv'
<1> DEFINE k == scheduler[r].key
<1>1. /\ scheduler[r].pc = "acting" /\ acted' = [acted EXCEPT ![k] = @ + 1]
      /\ UNCHANGED <<clock, schedule, run, schedulerCrashes, created, abandoned>>
      /\ scheduler \in [Replicas -> SchedulerRows] /\ scheduler[r] \in SchedulerRows
  BY DEF Act, ScheduleInv, ScheduleTypeOK, SchedulerRows
<1>2. k \in Keys /\ acted[k] = 0 /\ task[k] = "none"
  BY <1>1, WorkFacts DEF Working
<1>3. acted' = [acted EXCEPT ![k] = 1]
  BY <1>1, <1>2 DEF ScheduleInv, ScheduleTypeOK
<1>4. ASSUME NEW result \in {"running", "failed", "succeeded"},
             scheduler' = [scheduler EXCEPT ![r].pc = "recording", ![r].result = result],
             NEW status \in TaskStatuses, task' = [task EXCEPT ![k] = status],
             result = "running" <=> status # "none"
      PROVE  ScheduleInv'
  <2> DEFINE row == [scheduler[r] EXCEPT !.pc = "recording", !.result = result]
  <2>1. /\ scheduler' = [scheduler EXCEPT ![r] = row] /\ row \in SchedulerRows
        /\ row.pc = "recording" /\ row.key = k /\ row.result = result
    BY <1>1, <1>4 DEF SchedulerRows
  <2> HIDE DEF row, k
  <2>2. k = scheduler[r].key
    BY DEF k
  <2>3. row.result # "none" /\ (row.result = "running" <=> status # "none")
    BY <1>4, <2>1
  <2> QED
    BY <1>1, <1>2, <1>3, <1>4, <2>1, <2>2, <2>3, ActKeepsInv
<1>5. CASE /\ task' = [task EXCEPT ![k] = "active"]
           /\ scheduler' = [scheduler EXCEPT ![r].pc = "recording", ![r].result = "running"]
  BY <1>4, <1>5 DEF TaskStatuses
<1>6. CASE /\ task' = task
           /\ \E result \in {"failed", "succeeded"} :
                scheduler' = [scheduler EXCEPT ![r].pc = "recording", ![r].result = result]
  <2>1. task' = [task EXCEPT ![k] = "none"]
    BY <1>2, <1>6 DEF ScheduleInv, ScheduleTypeOK
  <2>2. PICK result \in {"failed", "succeeded"} :
          scheduler' = [scheduler EXCEPT ![r].pc = "recording", ![r].result = result]
    BY <1>6
  <2> QED
    BY <1>4, <2>1, <2>2 DEF TaskStatuses
<1> QED
  BY <1>5, <1>6 DEF Act

\* The result is recorded in the run that the replica claimed, if it is still there.
LEMMA RecordInv ==
    ASSUME ScheduleInv, NEW r \in Replicas, Record(r)
    PROVE  ScheduleInv'
<1> DEFINE k == scheduler[r].key
           result == scheduler[r].result
           row == [scheduler[r] EXCEPT !.pc = "looping", !.key = None, !.result = "none"]
<1>1. /\ scheduler[r].pc = "recording"
      /\ run' = IF run[k] = "none" THEN run ELSE [run EXCEPT ![k] = result]
      /\ UNCHANGED <<clock, schedule, task, schedulerCrashes, created, acted, abandoned>>
      /\ scheduler \in [Replicas -> SchedulerRows] /\ scheduler[r] \in SchedulerRows
      /\ run \in [Keys -> RunStatuses]
  BY DEF Record, ScheduleInv, ScheduleTypeOK, SchedulerRows, RunStatuses
<1>2. /\ scheduler' = [scheduler EXCEPT ![r] = row] /\ row \in SchedulerRows
      /\ row.pc = "looping"
  BY <1>1 DEF Record, SchedulerRows
<1>3. /\ k \in Keys /\ k[1] \in Schedules /\ k[2] < schedule[k[1]].next
      /\ schedule[k[1]].status # "absent" /\ run[k] \in {"queued", "none"}
      /\ result \in {"running", "succeeded", "failed"}
      /\ (result = "running" <=> task[k] # "none")
      /\ \A q \in Replicas : q # r /\ scheduler[q].pc \in Working => scheduler[q].key # k
  <2>1. result # "none" /\ (result = "running" <=> task[k] # "none")
    BY <1>1 DEF ScheduleInv, WorkIsOwn, Working
  <2> QED
    BY <1>1, <2>1, WorkFacts DEF Working, SchedulerRows
<1> HIDE DEF k, result, row
<1>4. /\ run' \in [Keys -> RunStatuses]
      /\ \A l \in Keys : l # k => run'[l] = run[l]
      /\ run'[k] = IF run[k] = "none" THEN "none" ELSE result
      /\ scheduler' \in [Replicas -> SchedulerRows] /\ scheduler'[r] = row
      /\ \A q \in Replicas : q # r => scheduler'[q] = scheduler[q]
  BY <1>1, <1>2, <1>3 DEF RunStatuses
<1>5. ScheduleTypeOK'
  BY <1>1, <1>4 DEF ScheduleInv, ScheduleTypeOK, SchedulerRows, RunStatuses
<1>6. \A l \in Keys : /\ run'[l] = "none" <=> run[l] = "none"
                      /\ run'[l] \in InProgress => run[l] \in InProgress
  BY <1>3, <1>4 DEF InProgress
<1>7. NextIsNew'
  BY <1>1, <1>6 DEF ScheduleInv, NextIsNew
<1>8. WorkIsOwn'
  <2>1. \A q \in Replicas : scheduler'[q].pc \in Working =>
           /\ q # r /\ scheduler'[q] = scheduler[q]
           /\ scheduler[q].key # k /\ scheduler[q].key \in Keys
    BY <1>2, <1>3, <1>4 DEF Working, ScheduleInv, WorkIsOwn
  <2> QED
    BY <1>1, <1>4, <2>1 DEF ScheduleInv, WorkIsOwn
<1>9. RunsMatchTasks' /\ ActsOnce' /\ RunTellsTaskEnd'
  BY <1>1, <1>3, <1>4 DEF ScheduleInv, RunsMatchTasks, ActsOnce, RunTellsTaskEnd
<1>10. RunsDoNotOverlap' /\ CatchUpIsComplete'
  BY <1>1, <1>6, KeysArePairs
     DEF ScheduleInv, RunsDoNotOverlap, CatchUpIsComplete, InProgress
<1> QED
  BY <1>5, <1>7, <1>8, <1>9, <1>10 DEF ScheduleInv

\* ReconcileScheduleRuns ends the runs whose tasks have ended, and no other.
LEMMA LoopEndsInv ==
    ASSUME ScheduleInv, NEW r \in Replicas, LoopEnds(r)
    PROVE  ScheduleInv'
<1>1. /\ scheduler' = [scheduler EXCEPT ![r] = IdleScheduler]
      /\ run' = [k \in Keys |-> RunAfter(k)]
      /\ UNCHANGED <<clock, schedule, task, schedulerCrashes, created, acted, abandoned>>
      /\ scheduler \in [Replicas -> SchedulerRows] /\ run \in [Keys -> RunStatuses]
  BY DEF LoopEnds, ScheduleInv, ScheduleTypeOK, SchedulerRows, RunStatuses
<1>2. /\ IdleScheduler \in SchedulerRows /\ IdleScheduler.pc = "idle"
  BY ScheduleAssumption DEF IdleScheduler, SchedulerRows
<1>3. /\ run' \in [Keys -> RunStatuses]
      /\ \A l \in Keys : \/ run'[l] = run[l]
                         \/ /\ run[l] = "running" /\ run'[l] = task[l]
                            /\ task[l] \in {"succeeded", "failed"}
  BY <1>1 DEF RunAfter, RunStatuses
<1>4. /\ scheduler' \in [Replicas -> SchedulerRows] /\ scheduler'[r] = IdleScheduler
      /\ \A q \in Replicas : q # r => scheduler'[q] = scheduler[q]
  BY <1>1, <1>2
<1>5. ScheduleTypeOK'
  BY <1>1, <1>3, <1>4 DEF ScheduleInv, ScheduleTypeOK, SchedulerRows, RunStatuses
<1>6. \A l \in Keys : /\ run'[l] = "none" <=> run[l] = "none"
                      /\ run'[l] \in InProgress => run[l] \in InProgress
  BY <1>3 DEF InProgress
<1>7. NextIsNew'
  BY <1>1, <1>6 DEF ScheduleInv, NextIsNew
<1>8. WorkIsOwn'
  <2>1. \A q \in Replicas : scheduler'[q].pc \in Working =>
           /\ q # r /\ scheduler'[q] = scheduler[q]
           /\ scheduler[q].key \in Keys /\ run'[scheduler[q].key] = run[scheduler[q].key]
    BY <1>2, <1>3, <1>4 DEF Working, ScheduleInv, WorkIsOwn
  <2> QED
    BY <1>1, <2>1 DEF ScheduleInv, WorkIsOwn
<1>9. RunsMatchTasks' /\ ActsOnce' /\ RunTellsTaskEnd'
  BY <1>1, <1>3 DEF ScheduleInv, RunsMatchTasks, ActsOnce, RunTellsTaskEnd
<1>10. RunsDoNotOverlap' /\ CatchUpIsComplete'
  BY <1>1, <1>6, KeysArePairs
     DEF ScheduleInv, RunsDoNotOverlap, CatchUpIsComplete, InProgress
<1> QED
  BY <1>5, <1>7, <1>8, <1>9, <1>10 DEF ScheduleInv

\* A task ends only while its run has no end.
LEMMA TaskEndsInv ==
    ASSUME ScheduleInv, NEW k \in Keys, TaskEnds(k)
    PROVE  ScheduleInv'
<1>1. PICK result \in {"succeeded", "failed"} : task' = [task EXCEPT ![k] = result]
  BY DEF TaskEnds
<1>2. /\ task[k] = "active" /\ task \in [Keys -> TaskStatuses]
      /\ UNCHANGED <<clock, schedule, run, scheduler, schedulerCrashes, created, acted,
                     abandoned>>
  BY DEF TaskEnds, ScheduleInv, ScheduleTypeOK, TaskStatuses
<1>3. /\ task' \in [Keys -> TaskStatuses] /\ task'[k] = result
      /\ \A l \in Keys : l # k => task'[l] = task[l]
      /\ \A l \in Keys : task'[l] = "none" <=> task[l] = "none"
  BY <1>1, <1>2 DEF TaskStatuses
<1>4. ScheduleTypeOK'
  BY <1>2, <1>3 DEF ScheduleInv, ScheduleTypeOK, TaskStatuses
<1>5. NextIsNew' /\ RunsMatchTasks'
  BY <1>2, <1>3 DEF ScheduleInv, NextIsNew, RunsMatchTasks
<1>6. WorkIsOwn'
  BY <1>2, <1>3 DEF ScheduleInv, WorkIsOwn
<1>7. RunTellsTaskEnd'
  BY <1>2, <1>3 DEF ScheduleInv, RunTellsTaskEnd
<1>8. ActsOnce' /\ RunsDoNotOverlap' /\ CatchUpIsComplete'
  BY <1>2 DEF ScheduleInv, ActsOnce, RunsDoNotOverlap, CatchUpIsComplete
<1> QED
  BY <1>4, <1>5, <1>6, <1>7, <1>8 DEF ScheduleInv

\* Claims, calls, runs and tasks, in every reachable state.
THEOREM ScheduleInvariant == ScheduleSpec => []ScheduleInv
<1>1. ScheduleInit => ScheduleInv
  <2> SUFFICES ASSUME ScheduleInit PROVE ScheduleInv
    OBVIOUS
  <2>1. /\ IdleScheduler \in SchedulerRows /\ IdleScheduler.pc = "idle"
    BY ScheduleAssumption DEF IdleScheduler, SchedulerRows
  <2>2. [status |-> "absent", next |-> 0] \in ScheduleRows
    BY DEF ScheduleRows
  <2>3. 1 \in 1 .. MaxTime /\ 0 \in 0 .. MaxSchedulerCrashes
    BY ScheduleAssumption
  <2>4. ScheduleTypeOK
    BY <2>1, <2>2, <2>3 DEF ScheduleInit, ScheduleTypeOK, SchedulerRows, ScheduleRows
  <2>5. \A s \in Schedules : schedule[s].status = "absent"
    BY DEF ScheduleInit
  <2>6. NextIsNew /\ RunsMatchTasks /\ ActsOnce /\ RunTellsTaskEnd
    BY <2>5 DEF ScheduleInit, NextIsNew, RunsMatchTasks, ActsOnce, RunTellsTaskEnd
  <2>7. WorkIsOwn
    BY <2>1 DEF ScheduleInit, WorkIsOwn, Working
  <2>8. RunsDoNotOverlap /\ CatchUpIsComplete
    BY <2>5, KeysArePairs DEF ScheduleInit, RunsDoNotOverlap, CatchUpIsComplete
  <2> QED
    BY <2>4, <2>6, <2>7, <2>8 DEF ScheduleInv
<1>2. ScheduleInv /\ [ScheduleNext]_scheduleVars => ScheduleInv'
  <2> SUFFICES ASSUME ScheduleInv, [ScheduleNext]_scheduleVars
               PROVE  ScheduleInv'
    OBVIOUS
  <2>1. CASE UNCHANGED scheduleVars
    <3>1. UNCHANGED <<clock, schedule, run, task, scheduler, schedulerCrashes, created,
                      acted, abandoned>>
      BY <2>1 DEF scheduleVars
    <3>2. ScheduleTypeOK' /\ WorkIsOwn'
      BY <3>1 DEF ScheduleInv, ScheduleTypeOK, WorkIsOwn
    <3> QED
      BY <3>1, <3>2, QuietSchedulers
  <2> QED
    BY <2>1, TickInv, CreateScheduleInv, DeleteScheduleInv, ClaimInv, ActInv, RecordInv,
       LoopEndsInv, TaskEndsInv DEF ScheduleNext
<1> QED
  BY <1>1, <1>2, PTL DEF ScheduleSpec

\* Schedules, runs, tasks and replicas keep the values that the code gives them.
THEOREM ScheduleTypeCorrect == ScheduleSpec => []ScheduleTypeOK
<1>1. ScheduleInv => ScheduleTypeOK
  BY DEF ScheduleInv
<1> QED
  BY <1>1, ScheduleInvariant, PTL

\* What claimDueSchedule and RunDueSchedules promise of the runs, however many
\* replicas tick, crash and race, and whatever the period.
THEOREM ScheduledRunsAreSound == ScheduleSpec => []RunsAreSound
<1>1. ScheduleInv => RunsAreSound
  BY DEF ScheduleInv, RunsAreSound
<1> QED
  BY <1>1, ScheduleInvariant, PTL

-----------------------------------------------------------------------------
(* Webhook deliveries, for any replicas, endpoints and limits.               *)

DeliveryStates == {"none", "pending", "leased", "delivered", "failed", "dead-letter"}
DeliveryRows == [status : DeliveryStates, attempt : 0 .. MaxDeliveryAttempts, due : BOOLEAN,
                 owner : Replicas \cup {None}]
SenderRows == [pc : {"idle", "looping", "sending", "succeeded", "failed"},
               claim : Deliveries \cup {None}, left : 0 .. DeliveryBatch]
Busy == {"sending", "succeeded", "failed"}

\* A row that is still to be sent has attempts left.
RowSound(row) ==
    /\ row \in DeliveryRows
    /\ row.status \in {"none", "pending", "failed"} => row.attempt < MaxDeliveryAttempts

\* A sender that has claimed a row works on it within its batch, and the row is
\* leased to it: so no two send the same row, and none sends a settled one.
SenderSound(r) ==
    /\ sender[r].pc \in Busy <=> sender[r].claim # None
    /\ sender[r].claim # None =>
         /\ sender[r].left > 0
         /\ delivery[sender[r].claim].status = "leased" /\ delivery[sender[r].claim].owner = r

WebhookInv ==
    /\ delivery \in [Deliveries -> DeliveryRows] /\ \A d \in Deliveries : RowSound(delivery[d])
    /\ sender \in [Replicas -> SenderRows] /\ \A r \in Replicas : SenderSound(r)
    /\ posted \in [Deliveries -> Nat] /\ endpoints \subseteq Endpoints
    /\ deliveryFaults \in 0 .. MaxDeliveryFaults /\ orphaned \subseteq Deliveries

Settled(d) == delivery[d].status \in {"delivered", "dead-letter"}
WebhookStep ==
    \A d \in Deliveries : Settled(d) => delivery'[d] = delivery[d] /\ posted'[d] = posted[d]

(* Rows that nobody holds change; the senders go on as they were.           *)
LEMMA RowsChange ==
  ASSUME WebhookInv, UNCHANGED <<sender, posted, endpoints, deliveryFaults, orphaned>>,
         delivery' = [d \in Deliveries |-> delivery'[d]],
         \A d \in Deliveries : RowSound(delivery'[d]),
         \A d \in Deliveries : delivery'[d] = delivery[d] \/ delivery[d].status \notin {"leased", "delivered", "dead-letter"}
  PROVE  WebhookInv' /\ WebhookStep
<1>1. delivery' \in [Deliveries -> DeliveryRows]
  BY DEF RowSound
<1>2. \A r \in Replicas : sender[r] \in SenderRows
  BY DEF WebhookInv
<1>3. \A r \in Replicas : sender[r].claim \in Deliveries \cup {None}
  BY <1>2 DEF SenderRows
<1>4. \A r \in Replicas : SenderSound(r)'
  BY <1>3 DEF WebhookInv, SenderSound
<1>5. WebhookStep
  BY DEF WebhookStep, Settled
<1> QED BY <1>1, <1>4, <1>5 DEF WebhookInv

(* A sender that holds no row begins or ends, or one lets its row go.       *)
LEMMA SenderRests ==
  ASSUME WebhookInv, NEW r \in Replicas, NEW row \in SenderRows, row.claim = None, row.pc \notin Busy,
         sender' = [sender EXCEPT ![r] = row], UNCHANGED <<delivery, posted, endpoints>>,
         deliveryFaults' \in 0 .. MaxDeliveryFaults, orphaned' \subseteq Deliveries
  PROVE  WebhookInv' /\ WebhookStep
<1>1. sender' \in [Replicas -> SenderRows] /\ sender'[r] = row /\ \A q \in Replicas : q # r => sender'[q] = sender[q]
  BY DEF WebhookInv
<1>2. \A q \in Replicas : SenderSound(q)'
  BY <1>1 DEF WebhookInv, SenderSound
<1>3. WebhookStep
  BY DEF WebhookStep
<1> QED BY <1>1, <1>2, <1>3 DEF WebhookInv

(* Requests and time.                                                       *)
LEMMA NotificationInv ==
  ASSUME WebhookInv,
         \/ \E w \in Endpoints : CreateWebhook(w)
         \/ \E n \in Notifications : EmitNotification(n) \/ \E w \in Endpoints : TestWebhook(n, w)
         \/ \E d \in Deliveries : DeliveryBackoffEnds(d)
  PROVE  WebhookInv' /\ WebhookStep
<1>1. \A d \in Deliveries : delivery[d] \in DeliveryRows /\ RowSound(delivery[d])
  BY DEF WebhookInv
<1>2. ASSUME NEW w \in Endpoints, CreateWebhook(w) PROVE WebhookInv' /\ WebhookStep
  BY <1>2 DEF CreateWebhook, WebhookInv, WebhookStep, SenderSound
<1>3. ASSUME NEW d \in Deliveries, delivery[d].status = "none" PROVE RowSound([delivery[d] EXCEPT !.status = "pending"])
  <2> DEFINE x == delivery[d]
             y == [x EXCEPT !.status = "pending"]
  <2>1. x \in DeliveryRows /\ x.attempt < MaxDeliveryAttempts
    BY <1>1, <1>3 DEF RowSound
  <2> HIDE DEF x
  <2>2. y \in DeliveryRows /\ y.attempt = x.attempt
    BY <2>1 DEF DeliveryRows, DeliveryStates
  <2>3. RowSound(y)
    BY <2>1, <2>2 DEF RowSound
  <2> QED BY <2>3 DEF x
<1>4. ASSUME NEW n \in Notifications, EmitNotification(n) PROVE WebhookInv' /\ WebhookStep
  <2>1. delivery' = [d \in Deliveries |-> IF d[1] = n /\ d[2] \in endpoints THEN Emitted(d) ELSE delivery[d]]
        /\ UNCHANGED <<sender, posted, endpoints, deliveryFaults, orphaned>>
    BY <1>4 DEF EmitNotification
  <2>2. ASSUME NEW d \in Deliveries
        PROVE  /\ Emitted(d) = delivery[d] \/ delivery[d].status = "none"
               /\ RowSound(Emitted(d))
    BY <1>1, <1>3 DEF Emitted
  <2>3. /\ delivery' = [d \in Deliveries |-> delivery'[d]]
        /\ \A d \in Deliveries : delivery'[d] = delivery[d] \/ delivery'[d] = Emitted(d)
    BY <2>1
  <2>4. \A d \in Deliveries : RowSound(delivery'[d])
    BY <1>1, <2>2, <2>3
  <2>5. \A d \in Deliveries : delivery'[d] = delivery[d] \/ delivery[d].status \notin {"leased", "delivered", "dead-letter"}
    BY <2>2, <2>3
  <2> QED BY <2>1, <2>3, <2>4, <2>5, RowsChange
<1>5. ASSUME NEW d \in Deliveries, NEW row, RowSound(row), delivery' = [delivery EXCEPT ![d] = row],
             delivery[d].status \notin {"leased", "delivered", "dead-letter"},
             UNCHANGED <<sender, posted, endpoints, deliveryFaults, orphaned>>
      PROVE  WebhookInv' /\ WebhookStep
  <2>1. /\ delivery' = [c \in Deliveries |-> delivery'[c]] /\ delivery'[d] = row
        /\ \A c \in Deliveries : c # d => delivery'[c] = delivery[c]
    BY <1>5 DEF WebhookInv
  <2>2. \A c \in Deliveries : RowSound(delivery'[c])
    BY <1>1, <1>5, <2>1
  <2>3. \A c \in Deliveries : delivery'[c] = delivery[c] \/ delivery[c].status \notin {"leased", "delivered", "dead-letter"}
    BY <1>5, <2>1
  <2> QED BY <1>5, <2>1, <2>2, <2>3, RowsChange
<1>6. ASSUME NEW n \in Notifications, NEW w \in Endpoints, TestWebhook(n, w) PROVE WebhookInv' /\ WebhookStep
  <2> DEFINE d == <<n, w>>
             row == [delivery[d] EXCEPT !.status = "pending"]
  <2>1. d \in Deliveries
    BY DEF Deliveries
  <2>2. delivery[d].status = "none" /\ delivery' = [delivery EXCEPT ![d] = row]
        /\ UNCHANGED <<sender, posted, endpoints, deliveryFaults, orphaned>>
    BY <1>6 DEF TestWebhook
  <2>3. RowSound(row)
    BY <1>3, <2>1, <2>2
  <2> HIDE DEF d, row
  <2> QED BY <1>5, <2>1, <2>2, <2>3
<1>7. ASSUME NEW d \in Deliveries, DeliveryBackoffEnds(d) PROVE WebhookInv' /\ WebhookStep
  <2> DEFINE x == delivery[d]
             row == [x EXCEPT !.due = TRUE]
  <2>1. x \in DeliveryRows /\ x.attempt < MaxDeliveryAttempts /\ x.status = "failed"
    BY <1>1, <1>7 DEF RowSound, DeliveryBackoffEnds
  <2>2. delivery' = [delivery EXCEPT ![d] = row] /\ UNCHANGED <<sender, posted, endpoints, deliveryFaults, orphaned>>
    BY <1>7 DEF DeliveryBackoffEnds
  <2>3. delivery[d].status \notin {"leased", "delivered", "dead-letter"}
    BY <1>7 DEF DeliveryBackoffEnds
  <2> HIDE DEF x
  <2>4. row \in DeliveryRows /\ row.attempt = x.attempt
    BY <2>1 DEF DeliveryRows
  <2>5. RowSound(row)
    BY <2>1, <2>4 DEF RowSound
  <2> HIDE DEF row
  <2> QED BY <1>5, <2>2, <2>3, <2>5
<1> QED BY <1>2, <1>4, <1>6, <1>7

(* A tick begins or ends, and an outcome that is lost.                      *)
LEMMA SenderTickInv ==
  ASSUME WebhookInv, NEW r \in Replicas, StartDeliveryTick(r) \/ DeliveryTickEnds(r) \/ OutcomeLost(r)
  PROVE  WebhookInv' /\ WebhookStep
<1>1. /\ IdleSender \in SenderRows /\ IdleSender.claim = None /\ IdleSender.pc = "idle"
  BY WebhookAssumption DEF IdleSender, SenderRows
<1>2. CASE StartDeliveryTick(r)
  <2> DEFINE row == [pc |-> "looping", claim |-> None, left |-> DeliveryBatch]
  <2>1. row \in SenderRows /\ row.claim = None /\ row.pc = "looping"
    <3>1. row = [pc |-> "looping", claim |-> None, left |-> DeliveryBatch]
      BY DEF IdleSender
    <3>2. DeliveryBatch \in 0 .. DeliveryBatch
      BY WebhookAssumption
    <3> HIDE DEF row
    <3> QED BY <3>1, <3>2 DEF SenderRows
  <2>2. sender' = [sender EXCEPT ![r] = row] /\ UNCHANGED <<delivery, posted, endpoints, deliveryFaults, orphaned>>
    BY <1>2 DEF StartDeliveryTick
  <2> HIDE DEF row
  <2> QED BY <2>1, <2>2, SenderRests DEF Busy, WebhookInv
<1>3. CASE DeliveryTickEnds(r)
  BY <1>1, <1>3, SenderRests DEF DeliveryTickEnds, Busy, WebhookInv
<1>4. CASE OutcomeLost(r)
  <2>1. sender[r] \in SenderRows
    BY DEF WebhookInv
  <2>2. sender[r].claim \in Deliveries
    BY <1>4, <2>1 DEF OutcomeLost, SenderRows
  <2>3. orphaned' \subseteq Deliveries /\ deliveryFaults' \in 0 .. MaxDeliveryFaults
    BY <1>4, <2>2, WebhookAssumption DEF OutcomeLost, WebhookInv
  <2>4. sender' = [sender EXCEPT ![r] = IdleSender] /\ UNCHANGED <<delivery, posted, endpoints>>
    BY <1>4 DEF OutcomeLost
  <2> QED BY <1>1, <2>3, <2>4, SenderRests DEF Busy
<1> QED BY <1>2, <1>3, <1>4

(* A row is leased: whoever holds another goes on holding it.               *)
LEMMA ClaimDeliveryInv ==
  ASSUME WebhookInv, NEW r \in Replicas, ClaimDelivery(r)
  PROVE  WebhookInv' /\ WebhookStep
<1>1. PICK d \in Deliveries :
        /\ Sendable(d)
        /\ delivery' = [delivery EXCEPT ![d] = Leased(d, r)]
        /\ sender' = [sender EXCEPT ![r].pc = "sending", ![r].claim = d]
  BY DEF ClaimDelivery
<1> DEFINE x == delivery[d]
           y == [x EXCEPT !.status = "leased", !.attempt = x.attempt + 1, !.owner = r]
           s == sender[r]
           t == [s EXCEPT !.pc = "sending", !.claim = d]
<1>2. x \in DeliveryRows /\ x.attempt < MaxDeliveryAttempts /\ x.status \in {"pending", "failed"}
  BY <1>1 DEF Sendable, WebhookInv, RowSound
<1>3. s \in SenderRows /\ s.left > 0 /\ s.pc = "looping"
  BY DEF ClaimDelivery, WebhookInv
<1>4. delivery' = [delivery EXCEPT ![d] = y] /\ sender' = [sender EXCEPT ![r] = t]
  BY <1>1 DEF Leased
<1>5. delivery[d] = x /\ sender[r] = s
  OBVIOUS
<1> HIDE DEF x, s
<1>6. x.attempt + 1 \in 0 .. MaxDeliveryAttempts
  BY <1>2, WebhookAssumption DEF DeliveryRows
<1>7. y \in DeliveryRows /\ y.status = "leased" /\ y.owner = r
  <2> DEFINE n == x.attempt + 1
  <2>1. n \in 0 .. MaxDeliveryAttempts /\ y = [x EXCEPT !.status = "leased", !.attempt = n, !.owner = r]
    BY <1>6
  <2> HIDE DEF n, y
  <2> QED BY <1>2, <2>1 DEF DeliveryRows, DeliveryStates
<1>8. t \in SenderRows /\ t.pc = "sending" /\ t.claim = d /\ t.left = s.left
  BY <1>3 DEF SenderRows
<1> HIDE DEF y, t
<1>9. /\ delivery' \in [Deliveries -> DeliveryRows] /\ delivery'[d] = y
      /\ \A c \in Deliveries : c # d => delivery'[c] = delivery[c]
  BY <1>4, <1>7 DEF WebhookInv
<1>10. /\ sender' \in [Replicas -> SenderRows] /\ sender'[r] = t
       /\ \A q \in Replicas : q # r => sender'[q] = sender[q]
  BY <1>4, <1>8 DEF WebhookInv
<1>11. \A c \in Deliveries : RowSound(delivery'[c])
  BY <1>7, <1>9 DEF WebhookInv, RowSound
<1>12. \A q \in Replicas : sender[q] \in SenderRows
  BY DEF WebhookInv
<1>13. \A q \in Replicas : sender[q].claim \in Deliveries \cup {None}
  BY <1>12 DEF SenderRows
<1>14. d # None
  BY WebhookAssumption DEF Deliveries
<1>15. SenderSound(r)'
  BY <1>3, <1>7, <1>8, <1>9, <1>10, <1>14 DEF SenderSound, Busy
<1>16. \A q \in Replicas : q # r => SenderSound(q)'
  BY <1>2, <1>5, <1>9, <1>10, <1>13 DEF SenderSound, WebhookInv
<1>17. WebhookStep
  BY <1>2, <1>5, <1>9 DEF WebhookStep, Settled, ClaimDelivery
<1> QED BY <1>9, <1>10, <1>11, <1>15, <1>16, <1>17 DEF WebhookInv, ClaimDelivery

(* A row that is sent is leased, hence not settled.                         *)
LEMMA SendInv ==
  ASSUME WebhookInv, NEW r \in Replicas, SendWebhook(r)
  PROVE  WebhookInv' /\ WebhookStep
<1>1. PICK answer \in {"succeeded", "failed"}, accepted \in {0, 1} :
        /\ posted' = [posted EXCEPT ![sender[r].claim] = @ + accepted]
        /\ sender' = [sender EXCEPT ![r].pc = answer]
  BY DEF SendWebhook
<1> DEFINE s == sender[r]
           t == [s EXCEPT !.pc = answer]
           d == s.claim
<1>2. s \in SenderRows /\ s.pc = "sending" /\ s.claim # None /\ SenderSound(r)
  BY DEF SendWebhook, WebhookInv, SenderSound, Busy
<1>3. sender' = [sender EXCEPT ![r] = t] /\ posted' = [posted EXCEPT ![d] = posted[d] + accepted]
  BY <1>1
<1>4. sender[r] = s
  OBVIOUS
<1> HIDE DEF s
<1>5. d \in Deliveries
  BY <1>2 DEF SenderRows
<1>6. t \in SenderRows /\ t.pc = answer /\ t.claim = d /\ t.left = s.left
  BY <1>2 DEF SenderRows
<1>7. delivery[d].status = "leased" /\ delivery[d].owner = r /\ s.left > 0
  BY <1>2, <1>4 DEF SenderSound
<1>8. d # None
  BY <1>2
<1> HIDE DEF t, d
<1>9. /\ sender' \in [Replicas -> SenderRows] /\ sender'[r] = t
      /\ \A q \in Replicas : q # r => sender'[q] = sender[q]
  BY <1>3, <1>6 DEF WebhookInv
<1>10. posted' \in [Deliveries -> Nat] /\ \A c \in Deliveries : c # d => posted'[c] = posted[c]
  <2>1. posted[d] \in Nat
    BY <1>5 DEF WebhookInv
  <2>2. posted[d] + accepted \in Nat
    BY <2>1
  <2> QED BY <1>3, <2>2 DEF WebhookInv
<1>11. UNCHANGED <<endpoints, delivery, deliveryFaults, orphaned>>
  BY DEF SendWebhook
<1>12. SenderSound(r)'
  BY <1>6, <1>7, <1>8, <1>9, <1>11 DEF SenderSound, Busy
<1>13. \A q \in Replicas : q # r => SenderSound(q)'
  BY <1>9, <1>11 DEF SenderSound, WebhookInv
<1>14. WebhookStep
  BY <1>7, <1>10, <1>11 DEF WebhookStep, Settled
<1> QED BY <1>9, <1>10, <1>11, <1>12, <1>13, <1>14 DEF WebhookInv

(* The outcome settles the row or makes it wait; the lease ends with it.    *)
LEMMA RecordOutcomeInv ==
  ASSUME WebhookInv, NEW r \in Replicas, RecordOutcome(r)
  PROVE  WebhookInv' /\ WebhookStep
<1> DEFINE s == sender[r]
           d == s.claim
           x == delivery[d]
           left == IF s.pc = "succeeded" THEN s.left - 1 ELSE s.left
           t == [pc |-> "looping", claim |-> None, left |-> left]
           status == CASE s.pc = "succeeded" -> "delivered"
                       [] s.pc = "failed" /\ x.attempt >= MaxDeliveryAttempts -> "dead-letter"
                       [] OTHER -> "failed"
           due == (s.pc = "succeeded")
           y == [x EXCEPT !.owner = None, !.due = due, !.status = status]
<1>1. s \in SenderRows /\ s.pc \in {"succeeded", "failed"} /\ s.claim # None /\ SenderSound(r)
  BY DEF RecordOutcome, WebhookInv, SenderSound, Busy
<1>2. d \in Deliveries
  BY <1>1 DEF SenderRows
<1>3. x \in DeliveryRows /\ x.status = "leased" /\ x.owner = r /\ s.left > 0
  BY <1>1, <1>2 DEF WebhookInv, SenderSound
<1>4. delivery' = [delivery EXCEPT ![d] = y] /\ sender' = [sender EXCEPT ![r] = t]
      /\ UNCHANGED <<endpoints, posted, deliveryFaults, orphaned>>
  BY <1>3 DEF RecordOutcome, Recorded
<1>5. left \in 0 .. DeliveryBatch
  BY <1>1, <1>3, WebhookAssumption DEF SenderRows
<1>6. /\ status \in {"delivered", "dead-letter", "failed"} /\ due \in BOOLEAN
      /\ status = "failed" => x.attempt < MaxDeliveryAttempts
  <2>1. x.attempt \in Nat /\ MaxDeliveryAttempts \in Nat
    BY <1>3, WebhookAssumption DEF DeliveryRows
  <2> HIDE DEF x, s
  <2> QED BY <1>1, <2>1
<1>7. delivery[d] = x /\ sender[r] = s
  OBVIOUS
<1> HIDE DEF s, x, d, left, status, due
<1>8. y \in DeliveryRows /\ y.status = status /\ y.attempt = x.attempt
  BY <1>3, <1>6 DEF DeliveryRows, DeliveryStates
<1>9. t \in SenderRows /\ t.pc = "looping" /\ t.claim = None
  BY <1>5 DEF SenderRows
<1>10. RowSound(y)
  BY <1>6, <1>8 DEF RowSound
<1> HIDE DEF t, y
<1>11. /\ delivery' \in [Deliveries -> DeliveryRows] /\ delivery'[d] = y
       /\ \A c \in Deliveries : c # d => delivery'[c] = delivery[c]
  BY <1>2, <1>4, <1>8 DEF WebhookInv
<1>12. /\ sender' \in [Replicas -> SenderRows] /\ sender'[r] = t
       /\ \A q \in Replicas : q # r => sender'[q] = sender[q]
  BY <1>4, <1>9 DEF WebhookInv
<1>13. \A c \in Deliveries : RowSound(delivery'[c])
  BY <1>10, <1>11 DEF WebhookInv
<1>14. \A q \in Replicas : sender[q] \in SenderRows
  BY DEF WebhookInv
<1>15. \A q \in Replicas : sender[q].claim \in Deliveries \cup {None}
  BY <1>14 DEF SenderRows
<1>16. SenderSound(r)'
  BY <1>9, <1>12 DEF SenderSound, Busy
<1>17. \A q \in Replicas : q # r => SenderSound(q)'
  BY <1>3, <1>7, <1>11, <1>12, <1>15 DEF SenderSound, WebhookInv
<1>18. WebhookStep
  BY <1>3, <1>4, <1>7, <1>11 DEF WebhookStep, Settled
<1> QED BY <1>4, <1>11, <1>12, <1>13, <1>16, <1>17, <1>18 DEF WebhookInv

(* Every step keeps the invariant and what is settled.                      *)
LEMMA WebhookStepInv ==
  ASSUME WebhookInv, [WebhookNext]_webhookVars
  PROVE  WebhookInv' /\ WebhookStep
<1>1. CASE UNCHANGED webhookVars
  BY <1>1 DEF webhookVars, WebhookInv, WebhookStep, SenderSound
<1>2. CASE WebhookNext
  BY <1>2, NotificationInv, SenderTickInv, ClaimDeliveryInv, SendInv, RecordOutcomeInv DEF WebhookNext
<1> QED BY <1>1, <1>2

\* Deliveries and senders have their types: no delivery is attempted more often
\* than MaxDeliveryAttempts, whichever replicas try.
THEOREM WebhookInvariant == WebhookSpec => []WebhookInv
<1>1. WebhookInit => WebhookInv
  <2> SUFFICES ASSUME WebhookInit PROVE WebhookInv
    OBVIOUS
  <2> DEFINE row == [status |-> "none", attempt |-> 0, due |-> TRUE, owner |-> None]
  <2>1. row \in DeliveryRows /\ row.attempt < MaxDeliveryAttempts
    BY WebhookAssumption DEF DeliveryRows, DeliveryStates
  <2>2. IdleSender \in SenderRows /\ IdleSender.claim = None /\ IdleSender.pc = "idle"
    BY WebhookAssumption DEF IdleSender, SenderRows
  <2>3. RowSound(row)
    BY <2>1 DEF RowSound
  <2>4. delivery = [d \in Deliveries |-> row]
    BY DEF WebhookInit
  <2> HIDE DEF row
  <2>5. \A r \in Replicas : SenderSound(r)
    BY <2>2 DEF WebhookInit, SenderSound, Busy
  <2>6. delivery \in [Deliveries -> DeliveryRows] /\ \A d \in Deliveries : RowSound(delivery[d])
    BY <2>1, <2>3, <2>4
  <2>7. sender \in [Replicas -> SenderRows]
    BY <2>2 DEF WebhookInit
  <2>8. posted \in [Deliveries -> Nat] /\ endpoints \subseteq Endpoints /\ orphaned \subseteq Deliveries
        /\ deliveryFaults \in 0 .. MaxDeliveryFaults
    BY WebhookAssumption DEF WebhookInit
  <2> QED BY <2>5, <2>6, <2>7, <2>8 DEF WebhookInv
<1>2. WebhookInv /\ [WebhookNext]_webhookVars => WebhookInv'
  BY WebhookStepInv
<1> QED BY <1>1, <1>2, PTL DEF WebhookSpec

\* As above: attempts stay within MaxDeliveryAttempts, batches within DeliveryBatch.
THEOREM WebhookTypeCorrect == WebhookSpec => []WebhookTypeOK
<1>1. WebhookInv => WebhookTypeOK
  BY DEF WebhookInv, WebhookTypeOK, DeliveryRows, DeliveryStates, SenderRows
<1> QED BY <1>1, WebhookInvariant, PTL

\* A delivered or dead delivery is never changed or sent again, whatever is emitted
\* again and whichever replicas are sending.
THEOREM SettledDeliveriesAreFinal == WebhookSpec => SettledIsFinal
<1>1. WebhookInv /\ [WebhookNext]_webhookVars =>
        [\A d \in Deliveries : delivery[d].status \in {"delivered", "dead-letter"} =>
           delivery'[d] = delivery[d] /\ posted'[d] = posted[d]]_webhookVars
  BY WebhookStepInv DEF WebhookStep, Settled
<1> QED BY <1>1, WebhookInvariant, PTL DEF WebhookSpec, SettledIsFinal

-----------------------------------------------------------------------------
(* The outbox: an event is in the stream once for its publication and once   *)
(* for every fault, for every set of events and replicas.                    *)

EventRows == [status : {"none", "pending", "published", "dead"}, attempts : Nat, due : BOOLEAN]
PublisherRows == [pc : {"idle", "looping", "publishing", "acknowledged"},
                  event : Events \cup {None}, left : 0 .. PublishBatch]
Holds(row) == row.pc \in {"publishing", "acknowledged"}

\* A publisher at work holds the row of its event, which is not published yet; once
\* XADD is acknowledged the event is in the stream.
PublisherSound(r) ==
    Holds(publisher[r]) =>
      /\ publisher[r].event \in Events /\ rowLock[publisher[r].event] = r /\ publisher[r].left > 0
      /\ event[publisher[r].event].status = "pending"
      /\ publisher[r].pc = "acknowledged" => stream[publisher[r].event] > 0

Acknowledged(e) == \E r \in Replicas : publisher[r].pc = "acknowledged" /\ publisher[r].event = e

\* Attempts count up to the limit; an event is in the stream more often than faults
\* hit it only when it is published or about to be marked so.
EventSound(e) ==
    /\ event[e].status \in {"none", "pending"} => event[e].attempts < MaxPublishAttempts
    /\ event[e].status = "dead" => event[e].attempts = MaxPublishAttempts
    /\ event[e].status = "published" => stream[e] > 0
    /\ stream[e] <= hit[e] + 1
    /\ event[e].status # "published" /\ ~Acknowledged(e) => stream[e] <= hit[e]

OutboxInv ==
    /\ event \in [Events -> EventRows] /\ rowLock \in [Events -> Replicas \cup {None}]
    /\ publisher \in [Replicas -> PublisherRows]
    /\ stream \in [Events -> Nat] /\ hit \in [Events -> Nat]
    /\ publishFaults \in 0 .. MaxPublishFaults /\ replays \in 0 .. MaxReplays
    /\ \A r \in Replicas : PublisherSound(r)
    /\ \A e \in Events : EventSound(e)

(* A step of the publisher that holds the row of an event, or takes it.      *)
LEMMA PublisherMoves ==
  ASSUME OutboxInv, NEW r \in Replicas, NEW e \in Events,
         NEW row \in PublisherRows, NEW ev \in EventRows, NEW l \in Replicas \cup {None},
         NEW n \in Nat, NEW h \in Nat,
         publisher' = [publisher EXCEPT ![r] = row], event' = [event EXCEPT ![e] = ev],
         rowLock' = [rowLock EXCEPT ![e] = l], stream' = [stream EXCEPT ![e] = n],
         hit' = [hit EXCEPT ![e] = h],
         publishFaults' \in 0 .. MaxPublishFaults, replays' \in 0 .. MaxReplays,
         \A q \in Replicas : q # r /\ Holds(publisher[q]) => publisher[q].event # e,
         publisher[r].pc = "acknowledged" => publisher[r].event = e,
         Holds(row) => row.event = e /\ l = r /\ ev.status = "pending" /\ row.left > 0,
         row.pc = "acknowledged" => n > 0,
         ev.status \in {"none", "pending"} => ev.attempts < MaxPublishAttempts,
         ev.status = "dead" => ev.attempts = MaxPublishAttempts,
         ev.status = "published" => n > 0,
         n <= h + 1,
         ev.status # "published" /\ row.pc # "acknowledged" => n <= h
  PROVE  OutboxInv'
<1>1. /\ publisher \in [Replicas -> PublisherRows] /\ event \in [Events -> EventRows]
      /\ rowLock \in [Events -> Replicas \cup {None}]
      /\ stream \in [Events -> Nat] /\ hit \in [Events -> Nat]
  BY DEF OutboxInv
<1>2. /\ publisher' \in [Replicas -> PublisherRows] /\ publisher'[r] = row
      /\ \A q \in Replicas : q # r => publisher'[q] = publisher[q]
  BY <1>1
<1>3. /\ event' \in [Events -> EventRows] /\ event'[e] = ev
      /\ \A d \in Events : d # e => event'[d] = event[d]
  BY <1>1
<1>4. /\ rowLock' \in [Events -> Replicas \cup {None}] /\ rowLock'[e] = l
      /\ \A d \in Events : d # e => rowLock'[d] = rowLock[d]
  BY <1>1
<1>5. /\ stream' \in [Events -> Nat] /\ stream'[e] = n
      /\ \A d \in Events : d # e => stream'[d] = stream[d]
  BY <1>1
<1>6. /\ hit' \in [Events -> Nat] /\ hit'[e] = h
      /\ \A d \in Events : d # e => hit'[d] = hit[d]
  BY <1>1
<1>7. ASSUME NEW q \in Replicas PROVE PublisherSound(q)'
  <2>1. CASE q = r
    BY <1>2, <1>3, <1>4, <1>5, <2>1 DEF PublisherSound, Holds
  <2>2. CASE q # r
    <3>1. PublisherSound(q) /\ publisher'[q] = publisher[q]
      BY <1>2, <2>2 DEF OutboxInv
    <3>2. Holds(publisher[q]) => publisher[q].event # e
      BY <2>2
    <3> QED BY <1>3, <1>4, <1>5, <3>1, <3>2 DEF PublisherSound, Holds
  <2> QED BY <2>1, <2>2
<1>8. ASSUME NEW d \in Events PROVE EventSound(d)'
  <2>1. CASE d = e
    <3>1. Acknowledged(e)' \/ row.pc # "acknowledged"
      BY <1>2 DEF Acknowledged, Holds
    <3> QED BY <1>3, <1>5, <1>6, <2>1, <3>1 DEF EventSound
  <2>2. CASE d # e
    <3>1. Acknowledged(d) => Acknowledged(d)'
      BY <1>2, <2>2 DEF Acknowledged
    <3> QED BY <1>3, <1>5, <1>6, <2>2, <3>1 DEF EventSound, OutboxInv
  <2> QED BY <2>1, <2>2
<1> QED BY <1>2, <1>3, <1>4, <1>5, <1>6, <1>7, <1>8 DEF OutboxInv

(* Between events a publisher starts and ends its ticks.                     *)
LEMMA PublisherRests ==
  ASSUME OutboxInv, NEW r \in Replicas, ~Holds(publisher[r]),
         NEW row \in PublisherRows, ~Holds(row),
         publisher' = [publisher EXCEPT ![r] = row],
         UNCHANGED <<event, rowLock, stream, publishFaults, replays, hit>>
  PROVE  OutboxInv'
<1>1. /\ publisher \in [Replicas -> PublisherRows]
      /\ publisher' \in [Replicas -> PublisherRows] /\ publisher'[r] = row
      /\ \A q \in Replicas : q # r => publisher'[q] = publisher[q]
  BY DEF OutboxInv
<1>2. ASSUME NEW q \in Replicas PROVE PublisherSound(q)'
  BY <1>1 DEF OutboxInv, PublisherSound, Holds
<1>3. ASSUME NEW e \in Events PROVE EventSound(e)'
  <2>1. Acknowledged(e) => Acknowledged(e)'
    BY <1>1 DEF Acknowledged, Holds
  <2> QED BY <2>1 DEF OutboxInv, EventSound
<1> QED BY <1>1, <1>2, <1>3 DEF OutboxInv

(* An event is recorded, becomes due again or is replayed.                   *)
LEMMA EventMoves ==
  ASSUME OutboxInv, NEW e \in Events, NEW ev \in EventRows,
         event' = [event EXCEPT ![e] = ev], UNCHANGED <<rowLock, publisher, stream, publishFaults, hit>>,
         replays' \in 0 .. MaxReplays,
         event[e].status # "published", ev.status = "pending", ev.attempts < MaxPublishAttempts
  PROVE  OutboxInv'
<1>1. /\ event \in [Events -> EventRows] /\ event' \in [Events -> EventRows] /\ event'[e] = ev
      /\ \A d \in Events : d # e => event'[d] = event[d]
  BY DEF OutboxInv
<1>2. ASSUME NEW q \in Replicas PROVE PublisherSound(q)'
  BY <1>1 DEF OutboxInv, PublisherSound, Holds
<1>3. ASSUME NEW d \in Events PROVE EventSound(d)'
  <2>1. Acknowledged(d)' <=> Acknowledged(d)
    BY DEF Acknowledged
  <2>2. EventSound(d)
    BY DEF OutboxInv
  <2> QED BY <1>1, <2>1, <2>2 DEF EventSound
<1> QED BY <1>1, <1>2, <1>3 DEF OutboxInv

(* What the step of a publisher at work may rely on.                         *)
LEMMA PublisherFacts ==
  ASSUME OutboxInv, NEW r \in Replicas, Holds(publisher[r])
  PROVE  LET e == publisher[r].event IN
         /\ e \in Events /\ event[e].status = "pending" /\ publisher[r].left > 0
         /\ event[e] \in EventRows /\ publisher[r] \in PublisherRows
         /\ event[e].attempts \in Nat /\ event[e].attempts < MaxPublishAttempts
         /\ stream[e] \in Nat /\ hit[e] \in Nat /\ stream[e] <= hit[e] + 1
         /\ publisher[r].pc = "acknowledged" => stream[e] > 0
         /\ publisher[r].pc = "publishing" => stream[e] <= hit[e]
         /\ \A q \in Replicas : q # r /\ Holds(publisher[q]) => publisher[q].event # e
<1> DEFINE e == publisher[r].event
<1>1. /\ e \in Events /\ rowLock[e] = r /\ event[e].status = "pending" /\ publisher[r].left > 0
      /\ publisher[r].pc = "acknowledged" => stream[e] > 0
  BY DEF OutboxInv, PublisherSound
<1>2. \A q \in Replicas : q # r /\ Holds(publisher[q]) => publisher[q].event # e
  BY <1>1 DEF OutboxInv, PublisherSound
<1>3. event[e] \in EventRows /\ publisher[r] \in PublisherRows /\ stream[e] \in Nat /\ hit[e] \in Nat
  BY <1>1 DEF OutboxInv
<1>4. EventSound(e)
  BY <1>1 DEF OutboxInv
<1>5. publisher[r].pc = "publishing" => ~Acknowledged(e)
  BY <1>2 DEF Acknowledged, Holds
<1>6. event[e].attempts \in Nat
  BY <1>3 DEF EventRows
<1> QED BY <1>1, <1>2, <1>3, <1>4, <1>5, <1>6 DEF EventSound

(* The row is taken: nobody else is at work on it.                           *)
LEMMA SelectEventInv ==
  ASSUME OutboxInv, NEW r \in Replicas, SelectEvent(r)
  PROVE  OutboxInv'
<1>1. PICK e \in Events :
         /\ Selectable(e)
         /\ rowLock' = [rowLock EXCEPT ![e] = r]
         /\ publisher' = [publisher EXCEPT ![r].pc = "publishing", ![r].event = e]
  BY DEF SelectEvent
<1> DEFINE row == [publisher[r] EXCEPT !.pc = "publishing", !.event = e]
<1>2. publisher[r] \in PublisherRows /\ publisher[r].pc = "looping" /\ publisher[r].left > 0
  BY DEF OutboxInv, SelectEvent, UnderLimit
<1>3. row \in PublisherRows /\ row.pc = "publishing" /\ row.event = e /\ row.left > 0
  BY <1>2 DEF PublisherRows
<1>4. publisher' = [publisher EXCEPT ![r] = row]
  BY <1>1, <1>2 DEF OutboxInv
<1> HIDE DEF row
<1>5. /\ event \in [Events -> EventRows] /\ event[e] \in EventRows
      /\ stream \in [Events -> Nat] /\ hit \in [Events -> Nat]
      /\ stream[e] \in Nat /\ hit[e] \in Nat
      /\ UNCHANGED <<event, stream, publishFaults, replays, hit>>
  BY DEF OutboxInv, SelectEvent
<1>6. /\ event' = [event EXCEPT ![e] = event[e]] /\ stream' = [stream EXCEPT ![e] = stream[e]]
      /\ hit' = [hit EXCEPT ![e] = hit[e]]
      /\ publishFaults' \in 0 .. MaxPublishFaults /\ replays' \in 0 .. MaxReplays
  BY <1>5 DEF OutboxInv
<1>7. event[e].status = "pending" /\ rowLock[e] = None
  BY <1>1 DEF Selectable
<1>8. \A q \in Replicas : Holds(publisher[q]) => publisher[q].event # e
  BY <1>7, OutboxAssumption DEF OutboxInv, PublisherSound
<1>9. ~Acknowledged(e)
  BY <1>8 DEF Acknowledged, Holds
<1>10. event[e].attempts < MaxPublishAttempts /\ stream[e] <= hit[e] /\ stream[e] <= hit[e] + 1
  BY <1>7, <1>9, <1>5 DEF OutboxInv, EventSound
<1>11. /\ \A q \in Replicas : q # r /\ Holds(publisher[q]) => publisher[q].event # e
       /\ publisher[r].pc = "acknowledged" => publisher[r].event = e
       /\ Holds(row) => row.event = e /\ r = r /\ event[e].status = "pending" /\ row.left > 0
       /\ row.pc = "acknowledged" => stream[e] > 0
       /\ event[e].status \in {"none", "pending"} => event[e].attempts < MaxPublishAttempts
       /\ event[e].status = "dead" => event[e].attempts = MaxPublishAttempts
       /\ event[e].status = "published" => stream[e] > 0
       /\ event[e].status # "published" /\ row.pc # "acknowledged" => stream[e] <= hit[e]
  BY <1>2, <1>3, <1>7, <1>8, <1>10
<1>12. rowLock' = [rowLock EXCEPT ![e] = r] /\ r \in Replicas \cup {None}
  BY <1>1
<1>13. stream[e] \in Nat /\ hit[e] \in Nat /\ event[e] \in EventRows
  BY <1>5
<1> QED BY <1>3, <1>4, <1>6, <1>10, <1>11, <1>12, <1>13, PublisherMoves

(* XADD is acknowledged: the one time the event is in the stream without a   *)
(* fault.                                                                    *)
LEMMA PublishInv ==
  ASSUME OutboxInv, NEW r \in Replicas, Publish(r)
  PROVE  OutboxInv'
<1> DEFINE e == publisher[r].event
           row == [publisher[r] EXCEPT !.pc = "acknowledged"]
           n == stream[e] + 1
<1>1. Holds(publisher[r]) /\ publisher[r].pc = "publishing"
  BY DEF Publish, Holds
<1>2. /\ e \in Events /\ event[e].status = "pending" /\ publisher[r].left > 0
      /\ event[e] \in EventRows /\ publisher[r] \in PublisherRows
      /\ event[e].attempts < MaxPublishAttempts
      /\ stream[e] \in Nat /\ hit[e] \in Nat /\ stream[e] <= hit[e]
      /\ \A q \in Replicas : q # r /\ Holds(publisher[q]) => publisher[q].event # e
  BY <1>1, PublisherFacts
<1>3. row \in PublisherRows /\ row.pc = "acknowledged" /\ row.event = e /\ row.left > 0
  BY <1>2 DEF PublisherRows
<1>4. publisher' = [publisher EXCEPT ![r] = row] /\ stream' = [stream EXCEPT ![e] = n]
  BY DEF Publish, OutboxInv
<1>5. n \in Nat /\ n > 0 /\ n <= hit[e] + 1
  BY <1>2
<1>6. rowLock[e] = r /\ rowLock \in [Events -> Replicas \cup {None}]
  BY <1>1 DEF OutboxInv, PublisherSound
<1>7. /\ event' = [event EXCEPT ![e] = event[e]] /\ hit' = [hit EXCEPT ![e] = hit[e]]
      /\ rowLock' = [rowLock EXCEPT ![e] = r]
      /\ publishFaults' \in 0 .. MaxPublishFaults /\ replays' \in 0 .. MaxReplays
  BY <1>2, <1>6 DEF Publish, OutboxInv
<1> HIDE DEF row, n, e
<1>8. /\ publisher[r].pc = "acknowledged" => publisher[r].event = e
      /\ Holds(row) => row.event = e /\ r = r /\ event[e].status = "pending" /\ row.left > 0
      /\ row.pc = "acknowledged" => n > 0
      /\ event[e].status \in {"none", "pending"} => event[e].attempts < MaxPublishAttempts
      /\ event[e].status = "dead" => event[e].attempts = MaxPublishAttempts
      /\ event[e].status = "published" => n > 0
      /\ event[e].status # "published" /\ row.pc # "acknowledged" => n <= hit[e]
  BY <1>1, <1>2, <1>3, <1>5
<1> QED BY <1>2, <1>3, <1>4, <1>5, <1>7, <1>8, PublisherMoves

(* The event is marked: what is in the stream is now its publication.        *)
LEMMA MarkPublishedInv ==
  ASSUME OutboxInv, NEW r \in Replicas, MarkPublished(r)
  PROVE  OutboxInv'
<1> DEFINE e == publisher[r].event
           more == event[e].attempts + 1
           fewer == publisher[r].left - 1
           ev == [event[e] EXCEPT !.status = "published", !.attempts = more]
           row == [pc |-> "looping", event |-> None, left |-> fewer]
<1>1. Holds(publisher[r]) /\ publisher[r].pc = "acknowledged"
  BY DEF MarkPublished, Holds
<1>2. /\ e \in Events /\ event[e] \in EventRows /\ publisher[r] \in PublisherRows
      /\ event[e].attempts \in Nat /\ publisher[r].left > 0
      /\ stream[e] \in Nat /\ hit[e] \in Nat /\ stream[e] <= hit[e] + 1 /\ stream[e] > 0
      /\ \A q \in Replicas : q # r /\ Holds(publisher[q]) => publisher[q].event # e
  BY <1>1, PublisherFacts
<1>3. more \in Nat /\ publisher[r].left \in 0 .. PublishBatch
  BY <1>2 DEF PublisherRows
<1>4. event' = [event EXCEPT ![e] = ev] /\ publisher' = [publisher EXCEPT ![r] = row]
  BY <1>2 DEF MarkPublished, OutboxInv
<1>5. fewer \in 0 .. PublishBatch
  BY <1>2, <1>3, OutboxAssumption
<1> HIDE DEF more, fewer
<1>6. row \in PublisherRows /\ row.pc = "looping"
  BY <1>5 DEF PublisherRows
<1>7. ev \in EventRows /\ ev.status = "published"
  BY <1>2, <1>3 DEF EventRows
<1>8. /\ stream' = [stream EXCEPT ![e] = stream[e]] /\ hit' = [hit EXCEPT ![e] = hit[e]]
      /\ rowLock' = [rowLock EXCEPT ![e] = None] /\ None \in Replicas \cup {None}
      /\ publishFaults' \in 0 .. MaxPublishFaults /\ replays' \in 0 .. MaxReplays
  BY <1>2 DEF MarkPublished, OutboxInv
<1> HIDE DEF row, ev, e
<1>9. /\ publisher[r].pc = "acknowledged" => publisher[r].event = e
      /\ Holds(row) => row.event = e /\ None = r /\ ev.status = "pending" /\ row.left > 0
      /\ row.pc = "acknowledged" => stream[e] > 0
      /\ ev.status \in {"none", "pending"} => ev.attempts < MaxPublishAttempts
      /\ ev.status = "dead" => ev.attempts = MaxPublishAttempts
      /\ ev.status = "published" => stream[e] > 0
      /\ ev.status # "published" /\ row.pc # "acknowledged" => stream[e] <= hit[e]
  BY <1>2, <1>6, <1>7 DEF Holds, e
<1> QED BY <1>2, <1>4, <1>6, <1>7, <1>8, <1>9, PublisherMoves

(* A publisher lets its row go: the attempt is counted or a fault is.        *)
LEMMA LetsGoInv ==
  ASSUME OutboxInv, NEW r \in Replicas, PublishFails(r) \/ RollsBack(r)
  PROVE  OutboxInv'
<1> DEFINE e == publisher[r].event
<1>1. Holds(publisher[r]) /\ IdlePublisher \in PublisherRows /\ IdlePublisher.pc = "idle"
  BY OutboxAssumption DEF PublishFails, RollsBack, Holds, IdlePublisher, PublisherRows
<1>2. /\ e \in Events /\ event[e].status = "pending"
      /\ event[e] \in EventRows /\ publisher[r] \in PublisherRows
      /\ event[e].attempts \in Nat /\ event[e].attempts < MaxPublishAttempts
      /\ stream[e] \in Nat /\ hit[e] \in Nat /\ stream[e] <= hit[e] + 1
      /\ publisher[r].pc = "publishing" => stream[e] <= hit[e]
      /\ \A q \in Replicas : q # r /\ Holds(publisher[q]) => publisher[q].event # e
  BY <1>1, PublisherFacts
<1>3. /\ publisher' = [publisher EXCEPT ![r] = IdlePublisher]
      /\ rowLock' = [rowLock EXCEPT ![e] = None] /\ None \in Replicas \cup {None}
      /\ replays' \in 0 .. MaxReplays
  BY DEF PublishFails, RollsBack, OutboxInv
<1>4. publishFaults' \in 0 .. MaxPublishFaults
  BY OutboxAssumption DEF PublishFails, RollsBack, Fault, OutboxInv
<1>5. CASE PublishFails(r)
  <2> DEFINE more == event[e].attempts + 1
             ev == [event[e] EXCEPT !.attempts = more, !.due = FALSE,
                      !.status = IF more >= MaxPublishAttempts THEN "dead" ELSE "pending"]
             n == stream'[e]
             h == hit'[e]
  <2>1. event' = [event EXCEPT ![e] = ev]
    BY <1>2, <1>5 DEF PublishFails, AfterFailure, OutboxInv
  <2>2. more \in Nat /\ (more < MaxPublishAttempts \/ more = MaxPublishAttempts)
    BY <1>2, OutboxAssumption
  <2>3. /\ ev \in EventRows
        /\ ev.status = IF more >= MaxPublishAttempts THEN "dead" ELSE "pending"
        /\ ev.attempts = more
    <3> HIDE DEF more
    <3> QED BY <1>2, <2>2 DEF EventRows
  <2>4. \/ UNCHANGED <<stream, hit>>
        \/ stream' = [stream EXCEPT ![e] = stream[e] + 1] /\ hit' = [hit EXCEPT ![e] = hit[e] + 1]
    BY <1>5 DEF PublishFails, Fault
  <2>5. /\ stream \in [Events -> Nat] /\ hit \in [Events -> Nat]
        /\ stream[e] <= hit[e]
    BY <1>2, <1>5 DEF PublishFails, OutboxInv
  <2>6. /\ stream' = [stream EXCEPT ![e] = n] /\ hit' = [hit EXCEPT ![e] = h]
        /\ n \in Nat /\ h \in Nat /\ n <= h /\ n <= h + 1
    BY <1>2, <2>4, <2>5
  <2> HIDE DEF ev, e, n, h
  <2>7. /\ publisher[r].pc = "acknowledged" => publisher[r].event = e
        /\ Holds(IdlePublisher) => IdlePublisher.event = e /\ None = r /\ ev.status = "pending"
                                     /\ IdlePublisher.left > 0
        /\ IdlePublisher.pc = "acknowledged" => n > 0
        /\ ev.status \in {"none", "pending"} => ev.attempts < MaxPublishAttempts
        /\ ev.status = "dead" => ev.attempts = MaxPublishAttempts
        /\ ev.status = "published" => n > 0
        /\ ev.status # "published" /\ IdlePublisher.pc # "acknowledged" => n <= h
    <3>1. (ev.status = "dead" /\ more = MaxPublishAttempts) \/ (ev.status = "pending" /\ more < MaxPublishAttempts)
      BY <2>2, <2>3, OutboxAssumption
    <3> HIDE DEF more
    <3> QED BY <1>1, <2>3, <2>6, <3>1 DEF Holds, e
  <2> QED BY <1>1, <1>2, <1>3, <1>4, <2>1, <2>3, <2>6, <2>7, PublisherMoves
<1>6. CASE RollsBack(r)
  <2> DEFINE h == hit[e] + 1
  <2>1. /\ hit' = [hit EXCEPT ![e] = h] /\ stream' = [stream EXCEPT ![e] = stream[e]]
        /\ event' = [event EXCEPT ![e] = event[e]]
    BY <1>2, <1>6 DEF RollsBack, Fault, OutboxInv
  <2>2. h \in Nat /\ stream[e] <= h /\ stream[e] <= h + 1
    BY <1>2
  <2> HIDE DEF e, h
  <2>3. /\ publisher[r].pc = "acknowledged" => publisher[r].event = e
        /\ Holds(IdlePublisher) => IdlePublisher.event = e /\ None = r /\ event[e].status = "pending"
                                     /\ IdlePublisher.left > 0
        /\ IdlePublisher.pc = "acknowledged" => stream[e] > 0
        /\ event[e].status \in {"none", "pending"} => event[e].attempts < MaxPublishAttempts
        /\ event[e].status = "dead" => event[e].attempts = MaxPublishAttempts
        /\ event[e].status = "published" => stream[e] > 0
        /\ event[e].status # "published" /\ IdlePublisher.pc # "acknowledged" => stream[e] <= h
    BY <1>1, <1>2, <2>2 DEF Holds, e
  <2> QED BY <1>1, <1>2, <1>3, <1>4, <2>1, <2>2, <2>3, PublisherMoves
<1> QED BY <1>5, <1>6

(* Events come, become due and are replayed; ticks start and end.            *)
LEMMA OutboxQuietInv ==
  ASSUME OutboxInv
  PROVE  /\ \A e \in Events : RecordEvent(e) \/ PublishBackoffEnds(e) \/ ReplayDeadLetter(e) => OutboxInv'
         /\ \A r \in Replicas : StartPublishTick(r) \/ PublishTickEnds(r) => OutboxInv'
<1>1. ASSUME NEW e \in Events, RecordEvent(e) PROVE OutboxInv'
  <2> DEFINE ev == [event[e] EXCEPT !.status = "pending"]
  <2>1. event[e] \in EventRows /\ event' = [event EXCEPT ![e] = ev] /\ event[e].status = "none"
    BY <1>1 DEF RecordEvent, OutboxInv
  <2>2. event[e].attempts < MaxPublishAttempts
    BY <2>1 DEF OutboxInv, EventSound
  <2>3. ev \in EventRows /\ ev.status = "pending" /\ ev.attempts < MaxPublishAttempts
    BY <2>1, <2>2 DEF EventRows
  <2>4. UNCHANGED <<rowLock, publisher, stream, publishFaults, hit>> /\ replays' \in 0 .. MaxReplays
    BY <1>1 DEF RecordEvent, OutboxInv
  <2>5. event[e].status # "published"
    BY <2>1
  <2> HIDE DEF ev
  <2> QED BY <2>1, <2>3, <2>4, <2>5, EventMoves
<1>2. ASSUME NEW e \in Events, PublishBackoffEnds(e) PROVE OutboxInv'
  <2> DEFINE ev == [event[e] EXCEPT !.due = TRUE]
  <2>1. event[e] \in EventRows /\ event' = [event EXCEPT ![e] = ev] /\ event[e].status = "pending"
    BY <1>2 DEF PublishBackoffEnds, OutboxInv
  <2>2. event[e].attempts < MaxPublishAttempts
    BY <2>1 DEF OutboxInv, EventSound
  <2>3. ev \in EventRows /\ ev.status = "pending" /\ ev.attempts < MaxPublishAttempts
    BY <2>1, <2>2 DEF EventRows
  <2>4. UNCHANGED <<rowLock, publisher, stream, publishFaults, hit>> /\ replays' \in 0 .. MaxReplays
    BY <1>2 DEF PublishBackoffEnds, OutboxInv
  <2>5. event[e].status # "published"
    BY <2>1
  <2> HIDE DEF ev
  <2> QED BY <2>1, <2>3, <2>4, <2>5, EventMoves
<1>3. ASSUME NEW e \in Events, ReplayDeadLetter(e) PROVE OutboxInv'
  <2>1. /\ Replayed(e) \in EventRows /\ Replayed(e).status = "pending"
        /\ Replayed(e).attempts < MaxPublishAttempts
    BY OutboxAssumption DEF Replayed, EventRows
  <2>2. event' = [event EXCEPT ![e] = Replayed(e)] /\ event[e].status # "published"
    BY <1>3 DEF ReplayDeadLetter
  <2>3. UNCHANGED <<rowLock, publisher, stream, publishFaults, hit>> /\ replays' \in 0 .. MaxReplays
    BY <1>3, OutboxAssumption DEF ReplayDeadLetter, OutboxInv
  <2> QED BY <2>1, <2>2, <2>3, EventMoves
<1>4. ASSUME NEW r \in Replicas, StartPublishTick(r) PROVE OutboxInv'
  <2> DEFINE row == [pc |-> "looping", event |-> None, left |-> PublishBatch]
  <2>1. row \in PublisherRows /\ ~Holds(row)
    BY OutboxAssumption DEF PublisherRows, Holds
  <2>2. ~Holds(publisher[r]) /\ publisher' = [publisher EXCEPT ![r] = row]
        /\ UNCHANGED <<event, rowLock, stream, publishFaults, replays, hit>>
    BY <1>4 DEF StartPublishTick, Holds
  <2> HIDE DEF row
  <2> QED BY <2>1, <2>2, PublisherRests
<1>5. ASSUME NEW r \in Replicas, PublishTickEnds(r) PROVE OutboxInv'
  <2>1. IdlePublisher \in PublisherRows /\ ~Holds(IdlePublisher)
    BY OutboxAssumption DEF PublisherRows, Holds, IdlePublisher
  <2>2. ~Holds(publisher[r]) /\ publisher' = [publisher EXCEPT ![r] = IdlePublisher]
        /\ UNCHANGED <<event, rowLock, stream, publishFaults, replays, hit>>
    BY <1>5 DEF PublishTickEnds, Holds
  <2> QED BY <2>1, <2>2, PublisherRests
<1> QED BY <1>1, <1>2, <1>3, <1>4, <1>5

\* Whoever is at work on an event holds its row and the event is not published yet.
THEOREM OutboxInvariant == OutboxSpec => []OutboxInv
<1>1. OutboxInit => OutboxInv
  <2> SUFFICES ASSUME OutboxInit PROVE OutboxInv
    OBVIOUS
  <2> DEFINE ev == [status |-> "none", attempts |-> 0, due |-> TRUE]
  <2>1. ev \in EventRows /\ ev.attempts < MaxPublishAttempts /\ ev.status = "none"
    BY OutboxAssumption DEF EventRows
  <2>2. IdlePublisher \in PublisherRows /\ ~Holds(IdlePublisher)
    BY OutboxAssumption DEF PublisherRows, Holds, IdlePublisher
  <2>3. event = [e \in Events |-> ev]
    BY DEF OutboxInit
  <2> HIDE DEF ev
  <2>4. event \in [Events -> EventRows] /\ publisher \in [Replicas -> PublisherRows]
    BY <2>1, <2>2, <2>3 DEF OutboxInit
  <2>5. /\ rowLock \in [Events -> Replicas \cup {None}]
        /\ stream \in [Events -> Nat] /\ hit \in [Events -> Nat]
    BY DEF OutboxInit
  <2>6. publishFaults \in 0 .. MaxPublishFaults /\ replays \in 0 .. MaxReplays
    BY OutboxAssumption DEF OutboxInit
  <2>7. \A r \in Replicas : PublisherSound(r)
    BY <2>2 DEF OutboxInit, PublisherSound
  <2>8. \A e \in Events : EventSound(e)
    BY <2>1, <2>3 DEF OutboxInit, EventSound
  <2> QED BY <2>4, <2>5, <2>6, <2>7, <2>8 DEF OutboxInv
<1>2. OutboxInv /\ [OutboxNext]_outboxVars => OutboxInv'
  <2> SUFFICES ASSUME OutboxInv, [OutboxNext]_outboxVars PROVE OutboxInv'
    OBVIOUS
  <2>1. CASE UNCHANGED outboxVars
    BY <2>1 DEF outboxVars, OutboxInv, PublisherSound, EventSound, Acknowledged
  <2>2. CASE OutboxNext
    BY <2>2, OutboxQuietInv, SelectEventInv, PublishInv, MarkPublishedInv, LetsGoInv DEF OutboxNext
  <2> QED BY <2>1, <2>2
<1> QED BY <1>1, <1>2, PTL DEF OutboxSpec

\* Events, their row locks, the publishers and the stream keep the values that the
\* code gives them.
THEOREM OutboxTypeCorrect == OutboxSpec => []OutboxTypeOK
<1>1. OutboxInv => OutboxTypeOK
  BY DEF OutboxInv, OutboxTypeOK, EventRows, PublisherRows
<1> QED BY <1>1, OutboxInvariant, PTL

\* No event is marked published that is not in the stream, none waits without an attempt
\* left, and a duplicate needs a fault while that event was being published, whichever
\* replicas publish.
THEOREM OutboxPublishesSoundly == OutboxSpec => []PublishingIsSound
<1>1. OutboxInv => PublishingIsSound
  <2> SUFFICES ASSUME OutboxInv, NEW e \in Events
               PROVE  /\ event[e].status = "published" => stream[e] > 0
                      /\ event[e].status = "pending" => event[e].attempts < MaxPublishAttempts
                      /\ event[e].status = "dead" => event[e].attempts = MaxPublishAttempts
                      /\ stream[e] <= 1 + hit[e]
    BY DEF PublishingIsSound, PublishedIsInStream, DeadWhenExhausted, DuplicatesNeedFaults
  <2>1. EventSound(e) /\ stream[e] \in Nat /\ hit[e] \in Nat
    BY DEF OutboxInv
  <2> QED BY <2>1 DEF EventSound
<1> QED BY <1>1, OutboxInvariant, PTL
=============================================================================
