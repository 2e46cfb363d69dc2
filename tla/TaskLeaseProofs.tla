--------------------------- MODULE TaskLeaseProofs ---------------------------
(***************************************************************************)
(* The lease protocol for every set of tasks, servers, nodes and epochs    *)
(* and every attempt limit.                                                *)
(***************************************************************************)
EXTENDS TaskLease, TLAPS

\* A row with a lease token is held by an agent, and a row that does not exist
\* yet has never been delivered.
RowsWellFormed ==
    \A t \in Tasks :
        /\ tasks[t].token # NoToken => tasks[t].status \in Open
        /\ tasks[t].status = "absent" => tasks[t].attempt = 0

\* The grants of the past: their tokens have been minted, and no grant is ahead
\* of the attempt counter of its row.
GrantsArePast ==
    \A f \in granted :
        /\ f.token \in 1..minted
        /\ f.attempt <= tasks[f.task].attempt

\* The inductive invariant.
LeaseInv ==
    /\ LeaseTypeOK
    /\ OneActivePerServer
    /\ QueuedIsClaimable
    /\ RowsWellFormed
    /\ GrantsArePast
    /\ AttemptsCountClaims

-----------------------------------------------------------------------------
\* What an agent presents names an existing task of the store: a grant, or the
\* grant without its token.
LEMMA PresentedType ==
    ASSUME LeaseTypeOK, NEW f \in Presented
    PROVE  f.task \in Tasks
<1>1. granted \subseteq Fence
  BY DEF LeaseTypeOK
<1>2. CASE f \in granted
  BY <1>1, <1>2 DEF Fence
<1>3. CASE f \in {Legacy(g) : g \in granted}
  <2>1. PICK g \in granted : f = Legacy(g)
    BY <1>3
  <2>2. g \in Fence
    BY <1>1
  <2> QED
    BY <2>1, <2>2 DEF Legacy, Fence
<1> QED
  BY <1>2, <1>3 DEF Presented

\* Clearing or renewing the lease of a row gives a row.
LEMMA RowUpdates ==
    ASSUME NEW row \in Row, NEW status \in {"absent"} \cup Active \cup Terminal
    PROVE  /\ Released(row, status) \in Row
           /\ Renewed(row, status) \in Row
           /\ Released(row, status).status = status
           /\ Released(row, status).server = row.server
           /\ Released(row, status).attempt = row.attempt
           /\ Released(row, status).token = NoToken
           /\ Renewed(row, status).status = status
           /\ Renewed(row, status).server = row.server
           /\ Renewed(row, status).attempt = row.attempt
           /\ Renewed(row, status).token = row.token
  BY DEF Released, Renewed, Row, NoToken, Active, Open, Terminal

\* The row ClaimTask writes.
Claimed(row, attempt, token, e) ==
    [row EXCEPT !.status = "leased", !.attempt = attempt, !.token = token, !.epoch = e,
                !.expired = FALSE]

\* A claimed row is a row.
LEMMA ClaimedRow ==
    ASSUME NEW row \in Row, NEW attempt \in 0..MaxAttempts, NEW token \in Nat,
           NEW e \in Epochs
    PROVE  /\ Claimed(row, attempt, token, e) \in Row
           /\ Claimed(row, attempt, token, e).status = "leased"
           /\ Claimed(row, attempt, token, e).attempt = attempt
           /\ Claimed(row, attempt, token, e).token = token
           /\ Claimed(row, attempt, token, e).server = row.server
  BY DEF Row, Claimed, Active, Open

\* A step that hands out nothing keeps the invariant, if it moves each row as a
\* holder of the lease or the reconciler does: server and attempt stay, only an
\* active row becomes active, a re-queued row has an attempt left, and a row that
\* is not held has no token.
Quiet(row, new) ==
    /\ new \in Row
    /\ new.server = row.server
    /\ new.attempt = row.attempt
    /\ new.status \in Active => row.status \in Active
    /\ new.status = "queued" => new.attempt < MaxAttempts
    /\ new.token # NoToken => new.status \in Open
    /\ new.status = "absent" => row.status = "absent"

\* The invariant is kept by every such step.
LEMMA QuietStep ==
    ASSUME LeaseInv, UNCHANGED <<granted, minted>>,
           tasks' = [t \in Tasks |-> tasks'[t]],
           \A t \in Tasks : Quiet(tasks[t], tasks'[t])
    PROVE  LeaseInv'
<1> USE DEF LeaseInv
<1>1. LeaseTypeOK'
  BY DEF LeaseTypeOK, Quiet
<1>2. OneActivePerServer'
  BY DEF OneActivePerServer, Quiet
<1>3. QueuedIsClaimable'
  BY DEF QueuedIsClaimable, Quiet
<1>4. RowsWellFormed'
  BY DEF RowsWellFormed, Quiet
<1>5. GrantsArePast'
  <2> SUFFICES ASSUME NEW f \in granted
               PROVE  f.token \in 1..minted /\ f.attempt <= tasks'[f.task].attempt
    BY DEF GrantsArePast
  <2>1. f.task \in Tasks
    BY DEF LeaseTypeOK, Fence
  <2> QED
    BY <2>1 DEF GrantsArePast, Quiet
<1>6. AttemptsCountClaims'
  BY DEF AttemptsCountClaims, Quiet
<1> QED
  BY <1>1, <1>2, <1>3, <1>4, <1>5, <1>6

\* A row that a step leaves alone.
LEMMA QuietSame ==
    ASSUME LeaseInv, NEW t \in Tasks
    PROVE  Quiet(tasks[t], tasks[t])
<1>1. tasks[t] \in Row
  BY DEF LeaseInv, LeaseTypeOK
<1> QED
  BY <1>1 DEF LeaseInv, QueuedIsClaimable, RowsWellFormed, Quiet

\* The step of one row.
LEMMA QuietRow ==
    ASSUME LeaseInv, NEW u \in Tasks, NEW new, Quiet(tasks[u], new),
           tasks' = [tasks EXCEPT ![u] = new], UNCHANGED <<granted, minted>>
    PROVE  LeaseInv'
<1>1. tasks \in [Tasks -> Row]
  BY DEF LeaseInv, LeaseTypeOK
<1>2. tasks' = [t \in Tasks |-> tasks'[t]]
  BY <1>1
<1>3. \A t \in Tasks : Quiet(tasks[t], tasks'[t])
  BY <1>1, QuietSame
<1> QED
  BY <1>2, <1>3, QuietStep

-----------------------------------------------------------------------------
\* Every state of the empty table satisfies the invariant.
LEMMA InitInv == LeaseInit => LeaseInv
<1> SUFFICES ASSUME LeaseInit PROVE LeaseInv
  OBVIOUS
<1>1. PICK s \in Servers : s = CHOOSE x \in Servers : TRUE
  BY TaskLeaseAssumption
<1>2. tasks = [t \in Tasks |-> [status |-> "absent", server |-> s, attempt |-> 0,
                  token |-> NoToken, epoch |-> NoEpoch, expired |-> FALSE]]
  BY <1>1 DEF LeaseInit
<1>3. [status |-> "absent", server |-> s, attempt |-> 0, token |-> NoToken,
       epoch |-> NoEpoch, expired |-> FALSE] \in Row
  BY TaskLeaseAssumption DEF Row, NoToken, NoEpoch
<1>4. LeaseTypeOK
  BY <1>2, <1>3 DEF LeaseInit, LeaseTypeOK
<1>5. OneActivePerServer /\ QueuedIsClaimable
  BY <1>2 DEF OneActivePerServer, QueuedIsClaimable, Active, Open
<1>6. RowsWellFormed /\ GrantsArePast
  BY <1>2 DEF RowsWellFormed, GrantsArePast, LeaseInit
<1>7. AttemptsCountClaims
  BY <1>2 DEF AttemptsCountClaims, LeaseInit
<1> QED
  BY <1>4, <1>5, <1>6, <1>7 DEF LeaseInv

\* A new task: the exclusive index is what keeps OneActivePerServer.
LEMMA EnqueueInv ==
    ASSUME LeaseInv, NEW t \in Tasks, NEW s \in Servers, EnqueueTask(t, s)
    PROVE  LeaseInv'
<1> DEFINE new == [status |-> "queued", server |-> s, attempt |-> 0,
                   token |-> NoToken, epoch |-> NoEpoch, expired |-> FALSE]
<1>1. /\ tasks \in [Tasks -> Row]
      /\ tasks' = [tasks EXCEPT ![t] = new]
      /\ tasks[t].status = "absent"
      /\ UNCHANGED <<granted, minted>>
  BY DEF EnqueueTask, LeaseInv, LeaseTypeOK
<1>2. new \in Row
  BY TaskLeaseAssumption DEF Row, NoToken, NoEpoch, Active
<1>3. /\ new.status = "queued" /\ new.attempt = 0
      /\ new.token = NoToken /\ new.server = s
  OBVIOUS
<1>4. \A u \in Tasks : tasks'[u] = IF u = t THEN new ELSE tasks[u]
  BY <1>1
<1> HIDE DEF new
<1>5. LeaseTypeOK'
  BY <1>1, <1>2 DEF LeaseInv, LeaseTypeOK
<1>6. OneActivePerServer'
  <2>1. \A u \in Tasks : tasks[u].status \in Active => tasks[u].server # s
    BY DEF EnqueueTask, ActiveOn
  <2> QED
    BY <1>3, <1>4, <2>1 DEF LeaseInv, OneActivePerServer
<1>7. QueuedIsClaimable'
  BY <1>3, <1>4, TaskLeaseAssumption DEF LeaseInv, QueuedIsClaimable
<1>8. RowsWellFormed'
  BY <1>3, <1>4 DEF LeaseInv, RowsWellFormed
<1>9. GrantsArePast'
  <2> SUFFICES ASSUME NEW f \in granted
               PROVE  f.token \in 1..minted /\ f.attempt <= tasks'[f.task].attempt
    BY <1>1 DEF GrantsArePast
  <2>1. f.task \in Tasks
    BY DEF LeaseInv, LeaseTypeOK, Fence
  <2>2. tasks[t].attempt = 0
    BY <1>1 DEF LeaseInv, RowsWellFormed
  <2> QED
    BY <1>3, <1>4, <2>1, <2>2 DEF LeaseInv, GrantsArePast
<1>10. AttemptsCountClaims'
  <2>1. tasks[t].attempt = 0
    BY <1>1 DEF LeaseInv, RowsWellFormed
  <2>2. \A u \in Tasks : tasks'[u].attempt = tasks[u].attempt
    BY <1>3, <1>4, <2>1
  <2> QED
    BY <1>1, <2>2 DEF LeaseInv, AttemptsCountClaims
<1> QED
  BY <1>5, <1>6, <1>7, <1>8, <1>9, <1>10 DEF LeaseInv

\* A claim: one more token, one more attempt, one more grant.
LEMMA ClaimInv ==
    ASSUME LeaseInv, NEW t \in Tasks, NEW e \in Epochs, ClaimTask(t, e)
    PROVE  LeaseInv'
<1> DEFINE row == tasks[t]
           new == Claimed(row, row.attempt + 1, minted + 1, e)
           grant == [task |-> t, node |-> NodeOf[row.server], epoch |-> e,
                     attempt |-> row.attempt + 1, token |-> minted + 1]
<1>1. /\ tasks \in [Tasks -> Row] /\ row \in Row /\ minted \in Nat
      /\ granted \subseteq Fence
      /\ row.status = "queued" /\ row.attempt < MaxAttempts
      /\ tasks' = [tasks EXCEPT ![t] = new]
      /\ minted' = minted + 1
      /\ granted' = granted \cup {grant}
  BY DEF ClaimTask, LeaseInv, LeaseTypeOK, Claimed
<1>2. /\ new \in Row /\ new.status = "leased" /\ new.attempt = row.attempt + 1
      /\ new.token = minted + 1 /\ new.server = row.server
  <2>1. row.attempt + 1 \in 0..MaxAttempts
    BY <1>1, TaskLeaseAssumption DEF Row
  <2>2. minted + 1 \in Nat
    BY <1>1
  <2> QED
    BY <1>1, <2>1, <2>2, ClaimedRow
<1>3. /\ grant \in Fence /\ grant.task = t /\ grant.attempt = row.attempt + 1
      /\ grant.token = minted + 1
  BY <1>1, TaskLeaseAssumption DEF Row, Fence
<1>4. \A u \in Tasks : tasks'[u] = IF u = t THEN new ELSE tasks[u]
  BY <1>1
<1>5. row.attempt \in Nat
  BY <1>1, TaskLeaseAssumption DEF Row
<1> HIDE DEF new, grant
<1>6. LeaseTypeOK'
  BY <1>1, <1>2, <1>3 DEF LeaseTypeOK
<1>7. OneActivePerServer'
  <2>1. row.status \in Active /\ new.status \in Active
    BY <1>1, <1>2 DEF Active, Open
  <2> QED
    BY <1>2, <1>4, <2>1 DEF LeaseInv, OneActivePerServer
<1>8. QueuedIsClaimable'
  BY <1>2, <1>4 DEF LeaseInv, QueuedIsClaimable
<1>9. RowsWellFormed'
  BY <1>2, <1>4 DEF LeaseInv, RowsWellFormed, Open
<1>10. GrantsArePast'
  <2> SUFFICES ASSUME NEW f \in granted'
               PROVE  f.token \in 1..minted' /\ f.attempt <= tasks'[f.task].attempt
    BY DEF GrantsArePast
  <2>1. CASE f = grant
    BY <1>1, <1>2, <1>3, <1>4, <1>5, <2>1
  <2>2. CASE f \in granted
    <3>1. /\ f.task \in Tasks /\ f.attempt \in Nat /\ f.token \in 1..minted
          /\ f.attempt <= tasks[f.task].attempt
      BY <1>1, <2>2 DEF Fence, LeaseInv, GrantsArePast
    <3> QED
      BY <1>1, <1>2, <1>4, <1>5, <3>1
  <2> QED
    BY <1>1, <2>1, <2>2
<1>11. AttemptsCountClaims'
  <2> SUFFICES ASSUME NEW u \in Tasks
               PROVE  {f.attempt : f \in {g \in granted' : g.task = u}}
                         = 1..tasks'[u].attempt
    BY DEF AttemptsCountClaims
  <2>1. {f.attempt : f \in {g \in granted : g.task = u}} = 1..tasks[u].attempt
    BY DEF LeaseInv, AttemptsCountClaims
  <2>2. CASE u = t
    <3>1. {f.attempt : f \in {g \in granted' : g.task = u}}
             = {f.attempt : f \in {g \in granted : g.task = u}} \cup {row.attempt + 1}
      BY <1>1, <1>3, <2>2
    <3>2. 1..(row.attempt + 1) = 1..row.attempt \cup {row.attempt + 1}
      BY <1>5
    <3> QED
      BY <1>2, <1>4, <2>1, <2>2, <3>1, <3>2
  <2>3. CASE u # t
    <3>1. {g \in granted' : g.task = u} = {g \in granted : g.task = u}
      BY <1>1, <1>3, <2>3
    <3> QED
      BY <1>4, <2>1, <2>3, <3>1
  <2> QED
    BY <2>2, <2>3
<1> QED
  BY <1>6, <1>7, <1>8, <1>9, <1>10, <1>11 DEF LeaseInv

\* The messages of the holder: acks, progress, renewals and results.
LEMMA MessageInv ==
    ASSUME LeaseInv, NEW f \in Presented,
           \/ AckAccepted(f) \/ AckRejected(f) \/ ReportTaskProgress(f)
           \/ RenewTaskLease(f) \/ \E succeeded \in BOOLEAN : CompleteTask(f, succeeded)
    PROVE  LeaseInv'
<1> DEFINE row == tasks[f.task]
<1>1. f.task \in Tasks
  BY PresentedType DEF LeaseInv
<1>2. row \in Row
  BY <1>1 DEF LeaseInv, LeaseTypeOK
<1>3. row.status \in Open /\ UNCHANGED <<granted, minted>>
  BY DEF AckAccepted, AckRejected, ReportTaskProgress, RenewTaskLease, CompleteTask,
         Touches, Open
<1>4. \/ \E status \in Open : tasks' = [tasks EXCEPT ![f.task] = Renewed(row, status)]
      \/ \E status \in Terminal : tasks' = [tasks EXCEPT ![f.task] = Released(row, status)]
  BY <1>3 DEF AckAccepted, AckRejected, ReportTaskProgress, RenewTaskLease, CompleteTask,
              Open, Terminal
<1>5. ASSUME NEW status \in Open
      PROVE  Quiet(row, Renewed(row, status))
  <2>1. status \in {"absent"} \cup Active \cup Terminal
    BY DEF Active
  <2> QED
    BY <1>2, <1>3, <2>1, RowUpdates DEF Quiet, Open, Active
<1>6. ASSUME NEW status \in Terminal
      PROVE  Quiet(row, Released(row, status))
  BY <1>2, <1>3, RowUpdates DEF Quiet, Terminal, Active, Open
<1> QED
  BY <1>1, <1>3, <1>4, <1>5, <1>6, QuietRow

\* Time passing, and the two halves of the reconciler.
LEMMA ReconcileInv ==
    ASSUME LeaseInv,
           (\E t \in Tasks : LeaseLapses(t)) \/ RequeueLapsed \/ FailExhausted
    PROVE  LeaseInv'
<1>1. tasks \in [Tasks -> Row]
  BY DEF LeaseInv, LeaseTypeOK
<1>2. CASE \E t \in Tasks : LeaseLapses(t)
  <2>1. PICK t \in Tasks : LeaseLapses(t)
    BY <1>2
  <2>2. /\ tasks' = [tasks EXCEPT ![t] = [tasks[t] EXCEPT !.expired = TRUE]]
        /\ UNCHANGED <<granted, minted>>
    BY <1>1, <2>1 DEF LeaseLapses
  <2>3. tasks[t] \in Row /\ Quiet(tasks[t], tasks[t])
    BY <1>1, QuietSame
  <2>4. Quiet(tasks[t], [tasks[t] EXCEPT !.expired = TRUE])
    BY <2>3 DEF Quiet, Row
  <2> QED
    BY <2>2, <2>4, QuietRow
<1>3. CASE RequeueLapsed
  <2>1. ASSUME NEW t \in Lapsed \ Exhausted
        PROVE  Quiet(tasks[t], Released(tasks[t], "queued"))
    <3>1. /\ t \in Tasks /\ tasks[t] \in Row /\ tasks[t].status = "leased"
          /\ tasks[t].attempt < MaxAttempts
      BY <1>1, TaskLeaseAssumption DEF Lapsed, Exhausted, Row
    <3>2. "queued" \in {"absent"} \cup Active \cup Terminal
      BY DEF Active
    <3>3. tasks[t].status \in Active
      BY <3>1 DEF Active, Open
    <3> QED
      BY <3>1, <3>2, <3>3, RowUpdates DEF Quiet
  <2>2. \A t \in Tasks : Quiet(tasks[t], tasks'[t])
    BY <1>3, <2>1, QuietSame DEF RequeueLapsed
  <2> QED
    BY <1>3, <2>2, QuietStep DEF RequeueLapsed
<1>4. CASE FailExhausted
  <2>1. ASSUME NEW t \in Exhausted
        PROVE  Quiet(tasks[t], Released(tasks[t], "failed"))
    <3>1. t \in Tasks /\ tasks[t] \in Row
      BY <1>1 DEF Lapsed, Exhausted
    <3> QED
      BY <3>1, RowUpdates DEF Quiet, Active, Open, Terminal
  <2>2. \A t \in Tasks : Quiet(tasks[t], tasks'[t])
    BY <1>4, <2>1, QuietSame DEF FailExhausted
  <2> QED
    BY <1>4, <2>2, QuietStep DEF FailExhausted
<1> QED
  BY <1>2, <1>3, <1>4

\* Every step of the protocol keeps the invariant.
LEMMA StepInv ==
    ASSUME LeaseInv, [LeaseNext]_leaseVars
    PROVE  LeaseInv'
<1>1. CASE UNCHANGED leaseVars
  BY <1>1 DEF leaseVars, LeaseInv, LeaseTypeOK, OneActivePerServer, QueuedIsClaimable,
              RowsWellFormed, GrantsArePast, AttemptsCountClaims
<1>2. CASE LeaseNext
  <2>1. CASE \E t \in Tasks, s \in Servers : EnqueueTask(t, s)
    BY <2>1, EnqueueInv
  <2>2. CASE \E t \in Tasks, e \in Epochs : ClaimTask(t, e)
    BY <2>2, ClaimInv
  <2>3. CASE \E f \in Presented :
               \/ AckAccepted(f) \/ AckRejected(f) \/ ReportTaskProgress(f)
               \/ RenewTaskLease(f)
               \/ \E succeeded \in BOOLEAN : CompleteTask(f, succeeded)
    BY <2>3, MessageInv
  <2>4. CASE (\E t \in Tasks : LeaseLapses(t)) \/ RequeueLapsed \/ FailExhausted
    BY <2>4, ReconcileInv
  <2> QED
    BY <1>2, <2>1, <2>2, <2>3, <2>4 DEF LeaseNext
<1> QED
  BY <1>1, <1>2

-----------------------------------------------------------------------------
\* The invariant holds in every reachable state of the task table.
THEOREM LeaseInvariant == LeaseSpec => []LeaseInv
<1>1. LeaseInit => LeaseInv
  BY InitInv
<1>2. LeaseInv /\ [LeaseNext]_leaseVars => LeaseInv'
  BY StepInv
<1> QED
  BY <1>1, <1>2, PTL DEF LeaseSpec

\* The rows, the grants and the counter keep their types (the schema of
\* server_tasks, TaskLeaseFence).
THEOREM TypeCorrect == LeaseSpec => []LeaseTypeOK
  BY LeaseInvariant, PTL DEF LeaseInv

\* A server never has two tasks in progress, whatever acks, results, lapses and
\* requeues happen between requests.
THEOREM ExclusiveTasks == LeaseSpec => []OneActivePerServer
  BY LeaseInvariant, PTL DEF LeaseInv

\* ReconcileTaskLeases never leaves a task in the queue that ClaimTask skips.
THEOREM QueueDrains == LeaseSpec => []QueuedIsClaimable
  BY LeaseInvariant, PTL DEF LeaseInv

\* A task is delivered at most max_attempts times, each under its own attempt.
THEOREM DeliveriesCounted == LeaseSpec => []AttemptsCountClaims
  BY LeaseInvariant, PTL DEF LeaseInv

\* Only the lease of the latest claim passes the fence of AckTask,
\* ReportTaskProgress, RenewTaskLease and CompleteTask, and only while it is held.
THEOREM FenceIsSound == LeaseSpec => []OnlyCurrentLeaseMatches
<1>1. LeaseInv => OnlyCurrentLeaseMatches
  <2> SUFFICES ASSUME LeaseInv, NEW f \in granted, TaskFenceMatches(f)
               PROVE  /\ tasks[f.task].status \in Open
                      /\ \A g \in granted : g.task = f.task => g.attempt <= f.attempt
    BY DEF OnlyCurrentLeaseMatches
  <2>1. f.task \in Tasks
    BY DEF LeaseInv, LeaseTypeOK, Fence
  <2>2. f.token # NoToken
    BY DEF LeaseInv, LeaseTypeOK, GrantsArePast, NoToken
  <2>3. tasks[f.task].token # NoToken /\ tasks[f.task].attempt = f.attempt
    BY <2>2 DEF TaskFenceMatches
  <2> QED
    BY <2>1, <2>3 DEF LeaseInv, RowsWellFormed, GrantsArePast
<1> QED
  BY <1>1, LeaseInvariant, PTL

\* No late message and no reconciler pass changes a task that has ended.
THEOREM EndedStaysEnded == LeaseSpec => TerminalIsFinal
<1> DEFINE Final == \A t \in Tasks : tasks[t].status \in Terminal => tasks'[t] = tasks[t]
<1>1. LeaseInv /\ [LeaseNext]_leaseVars => [Final]_leaseVars
  <2> SUFFICES ASSUME LeaseInv, LeaseNext, NEW t \in Tasks, tasks[t].status \in Terminal
               PROVE  tasks'[t] = tasks[t]
    OBVIOUS
  <2>1. tasks \in [Tasks -> Row] /\ tasks[t].status \notin Active \cup {"absent"}
    BY DEF LeaseInv, LeaseTypeOK, Terminal, Active, Open
  <2>2. CASE \E u \in Tasks, s \in Servers : EnqueueTask(u, s)
    BY <2>1, <2>2 DEF EnqueueTask
  <2>3. CASE \E u \in Tasks, e \in Epochs : ClaimTask(u, e)
    BY <2>1, <2>3 DEF ClaimTask, Active
  <2>4. CASE \E f \in Presented :
               \/ AckAccepted(f) \/ AckRejected(f) \/ ReportTaskProgress(f)
               \/ RenewTaskLease(f)
               \/ \E succeeded \in BOOLEAN : CompleteTask(f, succeeded)
    <3>1. PICK f \in Presented :
             /\ tasks[f.task].status \in Open
             /\ \E new : tasks' = [tasks EXCEPT ![f.task] = new]
      BY <2>4 DEF AckAccepted, AckRejected, ReportTaskProgress, RenewTaskLease,
                  CompleteTask, Touches, Open
    <3> QED
      BY <2>1, <3>1 DEF Active
  <2>5. CASE (\E u \in Tasks : LeaseLapses(u)) \/ RequeueLapsed \/ FailExhausted
    BY <2>1, <2>5 DEF LeaseLapses, RequeueLapsed, FailExhausted, Lapsed, Exhausted,
                      Active, Open
  <2> QED
    BY <2>2, <2>3, <2>4, <2>5 DEF LeaseNext
<1> QED
  BY <1>1, LeaseInvariant, PTL DEF LeaseSpec, TerminalIsFinal

\* A re-queued task is revived by nothing but a new claim under a fresh token:
\* late messages of the lost lease, with or without token, do not touch it.
THEOREM RequeuedIsReclaimed == LeaseSpec => QueuedLeavesByClaim
<1> DEFINE Reclaimed ==
       \A t \in Tasks : tasks[t].status = "queued" /\ tasks'[t] # tasks[t] =>
            /\ tasks'[t].status = "leased"
            /\ tasks'[t].attempt = tasks[t].attempt + 1
            /\ \A f \in granted : f.token # tasks'[t].token
<1>1. LeaseInv /\ [LeaseNext]_leaseVars => [Reclaimed]_leaseVars
  <2> SUFFICES ASSUME LeaseInv, LeaseNext, NEW t \in Tasks,
                      tasks[t].status = "queued", tasks'[t] # tasks[t]
               PROVE  /\ tasks'[t].status = "leased"
                      /\ tasks'[t].attempt = tasks[t].attempt + 1
                      /\ \A f \in granted : f.token # tasks'[t].token
    OBVIOUS
  <2>1. /\ tasks \in [Tasks -> Row] /\ tasks[t].status \notin Open
        /\ tasks[t].status # "absent"
    BY DEF LeaseInv, LeaseTypeOK, Open
  <2>2. CASE \E u \in Tasks, s \in Servers : EnqueueTask(u, s)
    BY <2>1, <2>2 DEF EnqueueTask
  <2>3. CASE \E u \in Tasks, e \in Epochs : ClaimTask(u, e)
    <3>1. PICK u \in Tasks, e \in Epochs : ClaimTask(u, e)
      BY <2>3
    <3>2. tasks' = [tasks EXCEPT ![u] =
                       Claimed(tasks[u], tasks[u].attempt + 1, minted + 1, e)]
      BY <3>1 DEF ClaimTask, Claimed
    <3>3. u = t
      BY <2>1, <3>2
    <3>4. /\ tasks[t] \in Row /\ tasks[t].attempt + 1 \in 0..MaxAttempts
          /\ minted \in Nat /\ minted + 1 \in Nat
      BY <3>1, <3>3, TaskLeaseAssumption DEF LeaseInv, LeaseTypeOK, ClaimTask, Row
    <3>5. /\ tasks'[t].status = "leased"
          /\ tasks'[t].attempt = tasks[t].attempt + 1
          /\ tasks'[t].token = minted + 1
      BY <2>1, <3>2, <3>3, <3>4, ClaimedRow
    <3>6. \A f \in granted : f.token # minted + 1
      BY <3>4 DEF LeaseInv, GrantsArePast
    <3> QED
      BY <3>5, <3>6
  <2>4. CASE \E f \in Presented :
               \/ AckAccepted(f) \/ AckRejected(f) \/ ReportTaskProgress(f)
               \/ RenewTaskLease(f)
               \/ \E succeeded \in BOOLEAN : CompleteTask(f, succeeded)
    <3>1. PICK f \in Presented :
             /\ tasks[f.task].status \in Open
             /\ \E new : tasks' = [tasks EXCEPT ![f.task] = new]
      BY <2>4 DEF AckAccepted, AckRejected, ReportTaskProgress, RenewTaskLease,
                  CompleteTask, Touches, Open
    <3> QED
      BY <2>1, <3>1
  <2>5. CASE (\E u \in Tasks : LeaseLapses(u)) \/ RequeueLapsed \/ FailExhausted
    BY <2>1, <2>5 DEF LeaseLapses, RequeueLapsed, FailExhausted, Lapsed, Exhausted, Open
  <2> QED
    BY <2>2, <2>3, <2>4, <2>5 DEF LeaseNext
<1> QED
  BY <1>1, LeaseInvariant, PTL DEF LeaseSpec, QueuedLeavesByClaim
=============================================================================
