----------------------------- MODULE TaskLease -----------------------------
(***************************************************************************)
(* The rows of server_tasks as the lease protocol of the control plane     *)
(* moves them (internal/store/postgres_tasks.go): a task is enqueued,      *)
(* claimed for one connection of its node under a fresh lease token,       *)
(* acknowledged, renewed and completed by messages that must present that  *)
(* lease, and re-queued or failed by the reconciler when the lease lapses. *)
(*                                                                         *)
(* Every action is one database transaction.  The agents are not part of   *)
(* this module: any lease ever handed out may be presented again, at any   *)
(* time and any number of times, with its token or (the previous stable    *)
(* agent) without it, so lost, late, duplicated and reordered messages are *)
(* all covered.  A message whose fence does not match, or whose row is in  *)
(* the wrong status, changes nothing: it is a stuttering step.             *)
(***************************************************************************)
EXTENDS Naturals, FiniteSets

CONSTANTS
    Tasks,        \* the operation ids that may be created
    Servers,      \* the game servers
    Nodes,        \* the machines that run an agent
    NodeOf,       \* the node each server is placed on
    Epochs,       \* connection epochs (one per Connect session of a node)
    MaxAttempts   \* server_tasks.max_attempts (3 in the code)

ASSUME TaskLeaseAssumption ==
    /\ NodeOf \in [Servers -> Nodes]
    /\ Servers # {}
    /\ Epochs \subseteq Nat
    /\ MaxAttempts \in Nat \ {0}

VARIABLES
    tasks,        \* server_tasks: one row for each operation id
    granted,      \* the leases ClaimTask has handed out, ever
    minted        \* how many lease tokens gen_random_uuid() has produced

leaseVars == <<tasks, granted, minted>>

-----------------------------------------------------------------------------
NoToken == 0      \* lease_token IS NULL, or a message that carries no token
NoEpoch == 0

Open     == {"leased", "running"}                  \* an agent holds the task
Active   == {"queued"} \cup Open                   \* server_tasks_exclusive_idx
Terminal == {"succeeded", "failed"}

\* A row.  expired stands for lease_expires_at < now.
Row == [status : {"absent"} \cup Active \cup Terminal,
        server : Servers, attempt : 0..MaxAttempts,
        token : Nat, epoch : Epochs \cup {NoEpoch}, expired : BOOLEAN]

\* TaskLeaseFence: the lease identity a message of an agent presents.
Fence == [task : Tasks, node : Nodes, epoch : Epochs \cup {NoEpoch},
          attempt : 1..MaxAttempts, token : Nat]

\* The same lease presented by an agent that does not know lease tokens.
Legacy(f) == [f EXCEPT !.token = NoToken, !.epoch = NoEpoch]

Presented == granted \cup {Legacy(f) : f \in granted}

\* taskFenceMatches, on the row selected by operation id and node.
TaskFenceMatches(f) ==
    LET row == tasks[f.task] IN
    /\ row.status # "absent"
    /\ f.node = NodeOf[row.server]
    /\ f.attempt = row.attempt
    /\ f.token # NoToken => (f.epoch = row.epoch /\ f.token = row.token)

\* Variant: the UPDATE does not repeat the status.
TouchesAnyStatus(f, statuses) == TaskFenceMatches(f)

\* The fence matches and the row is in one of the statuses the UPDATE asks for.
Touches(f, statuses) == TaskFenceMatches(f) /\ tasks[f.task].status \in statuses

\* Variant: the token survives.
ReleasedKeepsToken(row, status) == [row EXCEPT !.status = status, !.expired = FALSE]

\* A row with its lease cleared.
Released(row, status) ==
    [row EXCEPT !.status = status, !.token = NoToken, !.expired = FALSE]

\* lease_expires_at = now() + taskLeaseDuration
Renewed(row, status) == [row EXCEPT !.status = status, !.expired = FALSE]

ActiveOn(s) == {t \in Tasks : tasks[t].status \in Active /\ tasks[t].server = s}

-----------------------------------------------------------------------------
LeaseInit ==
    /\ tasks = [t \in Tasks |-> [status |-> "absent",
                                 server |-> CHOOSE s \in Servers : TRUE,
                                 attempt |-> 0, token |-> NoToken,
                                 epoch |-> NoEpoch, expired |-> FALSE]]
    /\ granted = {}
    /\ minted = 0

\* Variant: no exclusive index.
EnqueueTaskUnchecked(t, s) ==
    /\ tasks[t].status = "absent"
    /\ tasks' = [tasks EXCEPT ![t].status = "queued", ![t].server = s]
    /\ UNCHANGED <<granted, minted>>

\* INSERT INTO server_tasks; the partial unique index refuses a second active
\* task of the server.
EnqueueTask(t, s) ==
    /\ tasks[t].status = "absent"
    /\ ActiveOn(s) = {}
    /\ tasks' = [tasks EXCEPT ![t] = [status |-> "queued", server |-> s,
                     attempt |-> 0, token |-> NoToken, epoch |-> NoEpoch,
                     expired |-> FALSE]]
    /\ UNCHANGED <<granted, minted>>

\* ClaimTask picks the oldest queued row that no other transaction has locked
\* (FOR UPDATE SKIP LOCKED), so any queued row of the node may be the one.
ClaimTask(t, e) ==
    LET row == tasks[t] IN
    /\ row.status = "queued"
    /\ row.attempt < MaxAttempts
    /\ minted' = minted + 1
    /\ tasks' = [tasks EXCEPT ![t] = [row EXCEPT !.status = "leased",
                     !.attempt = row.attempt + 1, !.token = minted + 1,
                     !.epoch = e, !.expired = FALSE]]
    /\ granted' = granted \cup {[task |-> t, node |-> NodeOf[row.server],
                     epoch |-> e, attempt |-> row.attempt + 1,
                     token |-> minted + 1]}

\* An accepted TaskAck.
AckAccepted(f) ==
    /\ Touches(f, {"leased"})
    /\ tasks' = [tasks EXCEPT ![f.task] = Renewed(@, "running")]
    /\ UNCHANGED <<granted, minted>>

\* A rejected TaskAck fails the task terminally.
AckRejected(f) ==
    /\ Touches(f, Open)
    /\ tasks' = [tasks EXCEPT ![f.task] = Released(@, "failed")]
    /\ UNCHANGED <<granted, minted>>

\* A progress frame also confirms execution.
ReportTaskProgress(f) ==
    /\ Touches(f, Open)
    /\ tasks' = [tasks EXCEPT ![f.task] = Renewed(@, "running")]
    /\ UNCHANGED <<granted, minted>>

RenewTaskLease(f) ==
    /\ Touches(f, Open)
    /\ tasks' = [tasks EXCEPT ![f.task] = Renewed(@, @.status)]
    /\ UNCHANGED <<granted, minted>>

\* The terminal transition of CompleteTask.
CompleteTask(f, succeeded) ==
    /\ Touches(f, Open)
    /\ tasks' = [tasks EXCEPT ![f.task] =
                    Released(@, IF succeeded THEN "succeeded" ELSE "failed")]
    /\ UNCHANGED <<granted, minted>>

\* Thirty seconds pass without a renewal.
LeaseLapses(t) ==
    /\ tasks[t].status \in Open
    /\ ~tasks[t].expired
    /\ tasks' = [tasks EXCEPT ![t].expired = TRUE]
    /\ UNCHANGED <<granted, minted>>

\* The rows ReconcileTaskLeases looks at: status = 'leased' and expired.
Lapsed == {t \in Tasks : tasks[t].status = "leased" /\ tasks[t].expired}

\* Variant: off by one.
ExhaustedTooLate == {t \in Lapsed : tasks[t].attempt > MaxAttempts}

\* Those that have used all their attempts.
Exhausted == {t \in Lapsed : tasks[t].attempt >= MaxAttempts}

\* First statement of ReconcileTaskLeases.
RequeueLapsed ==
    /\ Lapsed \ Exhausted # {}
    /\ tasks' = [t \in Tasks |-> IF t \in Lapsed \ Exhausted
                                 THEN Released(tasks[t], "queued") ELSE tasks[t]]
    /\ UNCHANGED <<granted, minted>>

\* Second transaction of ReconcileTaskLeases.
FailExhausted ==
    /\ Exhausted # {}
    /\ tasks' = [t \in Tasks |-> IF t \in Exhausted
                                 THEN Released(tasks[t], "failed") ELSE tasks[t]]
    /\ UNCHANGED <<granted, minted>>

LeaseNext ==
    \/ \E t \in Tasks, s \in Servers : EnqueueTask(t, s)
    \/ \E t \in Tasks, e \in Epochs : ClaimTask(t, e)
    \/ \E f \in Presented : AckAccepted(f)
    \/ \E f \in Presented : AckRejected(f)
    \/ \E f \in Presented : ReportTaskProgress(f)
    \/ \E f \in Presented : RenewTaskLease(f)
    \/ \E f \in Presented, succeeded \in BOOLEAN : CompleteTask(f, succeeded)
    \/ \E t \in Tasks : LeaseLapses(t)
    \/ RequeueLapsed
    \/ FailExhausted

LeaseSpec == LeaseInit /\ [][LeaseNext]_leaseVars

-----------------------------------------------------------------------------
\* Rows, leases and the token counter have the shape the schema gives them.
LeaseTypeOK ==
    /\ tasks \in [Tasks -> Row]
    /\ granted \subseteq Fence
    /\ minted \in Nat

\* Exclusive operations: a server never has two tasks in progress
\* (server_tasks_exclusive_idx, relied on by activeTaskInTx).
OneActivePerServer ==
    \A t, u \in Tasks :
        /\ tasks[t].status \in Active
        /\ tasks[u].status \in Active
        /\ tasks[t].server = tasks[u].server
        => t = u

\* A queued task can always be claimed: no requeue leaves a row that ClaimTask
\* (attempt < max_attempts) would skip forever while it blocks its server.
QueuedIsClaimable ==
    \A t \in Tasks : tasks[t].status = "queued" => tasks[t].attempt < MaxAttempts

\* A lease token opens its task only while that very claim is the current one:
\* if a granted fence matches, the row is held by an agent and no later claim
\* of the task exists.  A message of an older attempt, a dead connection or a
\* revoked lease can therefore never reach the row.
OnlyCurrentLeaseMatches ==
    \A f \in granted : TaskFenceMatches(f) =>
        /\ tasks[f.task].status \in Open
        /\ \A g \in granted : g.task = f.task => g.attempt <= f.attempt

\* Deliveries are counted: a task has been handed out exactly attempt times,
\* each time under another attempt number, hence at most max_attempts times.
AttemptsCountClaims ==
    \A t \in Tasks :
        {f.attempt : f \in {g \in granted : g.task = t}} = 1..tasks[t].attempt

\* Late results, acks and reconciler passes never overwrite a terminal state.
TerminalIsFinal ==
    [][\A t \in Tasks : tasks[t].status \in Terminal => tasks'[t] = tasks[t]]_leaseVars

\* A re-queued task is not revived by a late message of the lost lease (a
\* legacy one matches its attempt number still): it leaves the queue only by a
\* new claim, under a token no earlier lease carries.
QueuedLeavesByClaim ==
    [][\A t \in Tasks : tasks[t].status = "queued" /\ tasks'[t] # tasks[t] =>
            /\ tasks'[t].status = "leased"
            /\ tasks'[t].attempt = tasks[t].attempt + 1
            /\ \A f \in granted : f.token # tasks'[t].token]_leaseVars
=============================================================================
