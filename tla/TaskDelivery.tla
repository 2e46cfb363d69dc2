---------------------------- MODULE TaskDelivery ----------------------------
(***************************************************************************)
(* The way of a task to one node and back: the claim loop and the frame    *)
(* handlers of a Connect session (internal/agentrpc/connect.go), the       *)
(* stream, and the agent that executes tasks with a pool of workers, an    *)
(* in-flight table and a journal on disk (internal/agent/agent.go,         *)
(* journal.go).  The task rows are those of TaskLease.                     *)
(*                                                                         *)
(* The stream delivers in order until it breaks; either side may notice    *)
(* that later than the other.  The agent may crash at any point and keeps  *)
(* only its journal; the control plane may restart and keeps only the      *)
(* database, and counts connection epochs from the start again.            *)
(***************************************************************************)
EXTENDS TaskLease, Sequences

CONSTANTS
    Workers,       \* the goroutines of the worker pool
    SecretTasks,   \* tasks whose payload carries one-time secret handles
    MaxRequests,   \* bound: tasks requested
    MaxFaults,     \* bound: broken connections, agent crashes, restarts
    MaxRenewals    \* bound: renewals in flight

ASSUME TaskDeliveryAssumption ==
    /\ SecretTasks \subseteq Tasks
    /\ MaxRequests \in Nat /\ MaxFaults \in Nat /\ MaxRenewals \in Nat
    /\ Cardinality(Nodes) = 1
    /\ 1..(MaxFaults + 1) \subseteq Epochs

VARIABLES
    link,      \* the stream carries frames
    handler,   \* the control plane's Connect handler (and claim loop) runs
    epoch,     \* its connection epoch
    session,   \* the agent: "off", "on", or "draining" (context cancelled)
    down,      \* claimed tasks on their way to a worker, in order
    up,        \* frames on their way to the control plane, in order
    journal,   \* the operation journal: digest and status of each operation
    inflight,  \* operations registered by a worker of this session
    worker,    \* where each worker is in executeTask, and for which lease
    faults,    \* faults so far
    sessions,  \* sessions the agent has opened
    ran,       \* the sessions in which the executor was called, with repetition
    outcomes   \* what the executions of the operation returned, ever

agentVars == <<link, handler, epoch, session, down, up, journal, inflight, worker,
               faults, sessions, ran, outcomes>>
vars == <<tasks, granted, minted, link, handler, epoch, session, down, up, journal,
          inflight, worker, faults, sessions, ran, outcomes>>

-----------------------------------------------------------------------------
NoEntry == [status |-> "none", digest |-> 0]

\* The digest covers type, generation and payload, not the lease.  A payload
\* with secret handles is materialised anew by every claim.
TaskPayloadDigest(f) == IF f.task \in SecretTasks THEN f.token ELSE 0

Entry(f, status) == [status |-> status, digest |-> TaskPayloadDigest(f)]

NoLease == [task |-> CHOOSE t \in Tasks : TRUE, node |-> CHOOSE n \in Nodes : TRUE,
            epoch |-> NoEpoch, attempt |-> 1, token |-> NoToken]
Idle == [pc |-> "idle", lease |-> NoLease, ok |-> FALSE]

At(pc, f) == [pc |-> pc, lease |-> f, ok |-> FALSE]

ServerOf(t) == tasks[t].server

\* outbound.Send: a frame is lost when the stream is gone.
Send(frames) == up' = IF link THEN up \o frames ELSE up

Frame(kind, f, ok) == [kind |-> kind, lease |-> f, ok |-> ok]
Ack(f)        == Frame("ack", f, TRUE)
RejectAck(f)  == Frame("ack", f, FALSE)
Result(f, ok) == Frame("result", f, ok)

DeliveryInit ==
    /\ LeaseInit
    /\ link = FALSE /\ handler = FALSE /\ epoch = NoEpoch /\ session = "off"
    /\ down = <<>> /\ up = <<>>
    /\ journal = [t \in Tasks |-> NoEntry]
    /\ inflight = {}
    /\ worker = [w \in Workers |-> Idle]
    /\ faults = 0 /\ sessions = 0
    /\ ran = [t \in Tasks |-> <<>>]
    /\ outcomes = [t \in Tasks |-> {}]

-----------------------------------------------------------------------------
(* The connection.                                                         *)

\* The agent dials, says Hello and is welcomed: nextConnectionEpoch, and
\* registerStream closes whatever stream the node had before.
Connect ==
    /\ session = "off"
    /\ session' = "on" /\ link' = TRUE /\ handler' = TRUE
    /\ epoch' = epoch + 1
    /\ sessions' = sessions + 1
    /\ down' = <<>> /\ up' = <<>>
    /\ UNCHANGED <<leaseVars, journal, inflight, worker, faults, ran, outcomes>>

Fault == faults < MaxFaults /\ faults' = faults + 1

\* The connection breaks.  Frames of the agent are lost; of the tasks sent to
\* it, those it already took off the wire stay in its channel.
Break ==
    /\ link /\ Fault
    /\ link' = FALSE
    /\ up' = <<>>
    /\ \E k \in 0..Len(down) : down' = SubSeq(down, 1, k)
    /\ UNCHANGED <<leaseVars, handler, epoch, session, journal, inflight, worker,
                   sessions, ran, outcomes>>

HandlerNotices ==
    /\ ~link /\ handler
    /\ handler' = FALSE
    /\ UNCHANGED <<leaseVars, link, epoch, session, down, up, journal, inflight,
                   worker, faults, sessions, ran, outcomes>>

\* stream.Recv fails: the session context is cancelled.
SessionNotices ==
    /\ ~link /\ session = "on"
    /\ session' = "draining"
    /\ UNCHANGED <<leaseVars, link, handler, epoch, down, up, journal, inflight,
                   worker, faults, sessions, ran, outcomes>>

\* close(a.tasks); workers.Wait(): what is left in the channel is dropped.
SessionEnds ==
    /\ session = "draining"
    /\ \A w \in Workers : worker[w] = Idle
    /\ session' = "off"
    /\ down' = <<>>
    /\ UNCHANGED <<leaseVars, link, handler, epoch, up, journal, inflight, worker,
                   faults, sessions, ran, outcomes>>

\* The agent process dies: only the journal survives.
AgentCrashes ==
    /\ session # "off" /\ Fault
    /\ session' = "off" /\ link' = FALSE
    /\ down' = <<>> /\ up' = <<>>
    /\ inflight' = {}
    /\ worker' = [w \in Workers |-> Idle]
    /\ UNCHANGED <<leaseVars, handler, epoch, journal, sessions, ran, outcomes>>

\* The control plane process dies: the epoch counter lives in its memory.
ControlPlaneRestarts ==
    /\ handler /\ Fault
    /\ handler' = FALSE /\ link' = FALSE
    /\ epoch' = NoEpoch
    /\ up' = <<>>
    /\ UNCHANGED <<leaseVars, session, down, journal, inflight, worker, sessions,
                   ran, outcomes>>

-----------------------------------------------------------------------------
(* The control plane.                                                      *)

\* A user request enqueues a task.
Request(t, s) ==
    /\ Cardinality({u \in Tasks : tasks[u].status # "absent"}) < MaxRequests
    /\ EnqueueTask(t, s)
    /\ UNCHANGED agentVars

\* One turn of claimLoop.  A claim whose frame cannot be sent is still a claim.
ClaimLoop(t) ==
    /\ handler
    /\ ClaimTask(t, epoch)
    /\ down' = IF link THEN Append(down, [task |-> t,
                   node |-> NodeOf[ServerOf(t)], epoch |-> epoch,
                   attempt |-> tasks[t].attempt + 1, token |-> minted + 1])
               ELSE down
    /\ UNCHANGED <<link, handler, epoch, session, up, journal, inflight, worker,
                   faults, sessions, ran, outcomes>>

\* handleTaskAck, handleRunningTaskHeartbeat, handleTaskResult: a frame whose
\* lease is stale, or whose task is past the status it acts on, is a no-op.
HandleFrame ==
    /\ handler /\ up # <<>>
    /\ LET m == Head(up) IN
       \/ m.kind = "ack" /\ m.ok /\ AckAccepted(m.lease)
       \/ m.kind = "ack" /\ ~m.ok /\ AckRejected(m.lease)
       \/ m.kind = "renew" /\ RenewTaskLease(m.lease)
       \/ m.kind = "result" /\ CompleteTask(m.lease, m.ok)
       \/ /\ ~Touches(m.lease, IF m.kind = "ack" /\ m.ok THEN {"leased"} ELSE Open)
          /\ UNCHANGED leaseVars
    /\ up' = Tail(up)
    /\ UNCHANGED <<link, handler, epoch, session, down, journal, inflight, worker,
                   faults, sessions, ran, outcomes>>

Reconcile == (RequeueLapsed \/ FailExhausted) /\ UNCHANGED agentVars

LeaseTime(t) == LeaseLapses(t) /\ UNCHANGED agentVars

-----------------------------------------------------------------------------
(* executeTask, worker by worker.                                          *)

Go(w, to) == worker' = [worker EXCEPT ![w] = to]

\* A worker takes a task off the channel and looks it up in the journal:
\* another digest is rejected, a finished operation is replayed, a running one
\* is awaited, an unknown one goes on.
Take(w) ==
    /\ session # "off" /\ down # <<>> /\ worker[w] = Idle
    /\ down' = Tail(down)
    /\ LET f == Head(down)  entry == journal[f.task] IN
       \/ /\ entry.status = "none"
          /\ Go(w, At("looked", f))
          /\ UNCHANGED up
       \/ /\ entry.status # "none" /\ entry.digest # TaskPayloadDigest(f)
          /\ Send(<<RejectAck(f)>>)
          /\ UNCHANGED worker
       \/ /\ entry.digest = TaskPayloadDigest(f) /\ entry.status \in Terminal
          /\ Send(<<Ack(f), Result(f, entry.status = "succeeded")>>)
          /\ UNCHANGED worker
       \/ /\ entry.digest = TaskPayloadDigest(f) /\ entry.status = "running"
          /\ Send(<<Ack(f)>>)
          /\ Go(w, At("await", f))
    /\ UNCHANGED <<leaseVars, link, handler, epoch, session, journal, inflight,
                   faults, sessions, ran, outcomes>>

\* registerInflight.
RegisterInflight(w) ==
    LET f == worker[w].lease IN
    /\ worker[w].pc = "looked"
    /\ \/ /\ f.task \in inflight
          /\ Send(<<Ack(f)>>)
          /\ Go(w, At("await", f))
          /\ UNCHANGED inflight
       \/ /\ f.task \notin inflight
          /\ inflight' = inflight \cup {f.task}
          /\ Go(w, At("registered", f))
          /\ UNCHANGED up
    /\ UNCHANGED <<leaseVars, link, handler, epoch, session, down, journal, faults,
                   sessions, ran, outcomes>>

\* Variant: nothing is journaled before the execution.
RecordRunningNowhere(w) ==
    LET f == worker[w].lease IN
    /\ worker[w].pc = "registered"
    /\ Send(<<Ack(f)>>)
    /\ Go(w, At("locking", f))
    /\ UNCHANGED <<leaseVars, link, handler, epoch, session, down, journal, inflight,
                   faults, sessions, ran, outcomes>>

\* Variant: an entry with another digest is overwritten.
RecordRunningAnyDigest(w) ==
    LET f == worker[w].lease IN
    /\ worker[w].pc = "registered"
    /\ journal' = [journal EXCEPT ![f.task] = Entry(f, "running")]
    /\ Send(<<Ack(f)>>)
    /\ Go(w, At("locking", f))
    /\ UNCHANGED <<leaseVars, link, handler, epoch, session, down, inflight, faults,
                   sessions, ran, outcomes>>

\* journal.RecordRunning and the ack.  It refuses another digest, and else
\* overwrites whatever entry the operation has.
RecordRunning(w) ==
    LET f == worker[w].lease IN
    /\ worker[w].pc = "registered"
    /\ \/ /\ journal[f.task] # NoEntry
          /\ journal[f.task].digest # TaskPayloadDigest(f)
          /\ Send(<<RejectAck(f)>>)
          /\ inflight' = inflight \ {f.task}
          /\ Go(w, Idle)
          /\ UNCHANGED journal
       \/ /\ journal[f.task] = NoEntry \/ journal[f.task].digest = TaskPayloadDigest(f)
          /\ journal' = [journal EXCEPT ![f.task] = Entry(f, "running")]
          /\ Send(<<Ack(f)>>)
          /\ Go(w, At("locking", f))
          /\ UNCHANGED inflight
    /\ UNCHANGED <<leaseVars, link, handler, epoch, session, down, faults, sessions,
                   ran, outcomes>>

\* The per-server lock is free, and the executor is called.
Executing == {w \in Workers : worker[w].pc \in {"executing", "journaled"}}

StartExecution(w) ==
    LET f == worker[w].lease IN
    /\ worker[w].pc = "locking"
    /\ \A v \in Executing : ServerOf(worker[v].lease.task) # ServerOf(f.task)
    /\ Go(w, At("executing", f))
    /\ ran' = [ran EXCEPT ![f.task] = Append(@, sessions)]
    /\ UNCHANGED <<leaseVars, link, handler, epoch, session, down, up, journal,
                   inflight, faults, sessions, outcomes>>

\* Every 10 seconds while the executor runs.
SendRenewal(w) ==
    /\ worker[w].pc = "executing" /\ session = "on"
    /\ Cardinality({i \in DOMAIN up : up[i].kind = "renew"}) < MaxRenewals
    /\ Send(<<Frame("renew", worker[w].lease, TRUE)>>)
    /\ UNCHANGED <<leaseVars, link, handler, epoch, session, down, journal, inflight,
                   worker, faults, sessions, ran, outcomes>>

\* journal.Complete: only the operation's own entry may become terminal.
JournalComplete(f, ok) ==
    journal' = IF journal[f.task] # NoEntry /\ journal[f.task].digest = TaskPayloadDigest(f)
               THEN [journal EXCEPT ![f.task] =
                        Entry(f, IF ok THEN "succeeded" ELSE "failed")]
               ELSE journal

\* The executor returns and the outcome is journaled before it is sent.
FinishExecution(w, ok) ==
    LET f == worker[w].lease IN
    /\ worker[w].pc = "executing"
    /\ outcomes' = [outcomes EXCEPT ![f.task] = @ \cup {ok}]
    /\ JournalComplete(f, ok)
    /\ Go(w, [pc |-> "journaled", lease |-> f, ok |-> ok])
    /\ UNCHANGED <<leaseVars, link, handler, epoch, session, down, up, inflight,
                   faults, sessions, ran>>

\* Variant: execution.complete is forgotten.
ReturnResultWakesNobody(w) ==
    LET f == worker[w].lease IN
    /\ worker[w].pc = "journaled"
    /\ Send(<<Result(f, worker[w].ok)>>)
    /\ inflight' = inflight \ {f.task}
    /\ Go(w, Idle)
    /\ UNCHANGED <<leaseVars, link, handler, epoch, session, down, journal, faults,
                   sessions, ran, outcomes>>

\* execution.complete wakes the workers that wait for the operation; the
\* result is sent, the operation unregistered and the server unlocked.
ReturnResult(w) ==
    LET f == worker[w].lease IN
    /\ worker[w].pc = "journaled"
    /\ Send(<<Result(f, worker[w].ok)>>)
    /\ inflight' = inflight \ {f.task}
    /\ worker' = [v \in Workers |->
          IF v = w THEN Idle
          ELSE IF worker[v].pc = "waiting" /\ worker[v].lease.task = f.task
               THEN [worker[v] EXCEPT !.pc = "reply", !.ok = worker[w].ok]
               ELSE worker[v]]
    /\ UNCHANGED <<leaseVars, link, handler, epoch, session, down, journal, faults,
                   sessions, ran, outcomes>>

\* Variant: the interrupted operation is reported as done.
RecoverAsDone(w) ==
    LET f == worker[w].lease IN
    /\ f.task \notin inflight /\ journal[f.task] = Entry(f, "running")
    /\ JournalComplete(f, TRUE)
    /\ Send(<<Result(f, TRUE)>>)

\* The entry is running and nobody runs it: the agent died during the operation,
\* which is given up (AGENT_RESTARTED_DURING_OPERATION).
RecoverInterrupted(w) ==
    LET f == worker[w].lease IN
    /\ f.task \notin inflight /\ journal[f.task] = Entry(f, "running")
    /\ JournalComplete(f, FALSE)
    /\ Send(<<Result(f, FALSE)>>)

\* awaitInflight: take hold of the running execution, or, when there is none,
\* read the journal again.
AwaitInflight(w) ==
    LET f == worker[w].lease  entry == journal[f.task] IN
    /\ worker[w].pc = "await"
    /\ \/ /\ f.task \in inflight
          /\ Go(w, At("waiting", f))
          /\ UNCHANGED <<up, journal>>
       \/ /\ f.task \notin inflight /\ entry.status \in Terminal
          /\ entry.digest = TaskPayloadDigest(f)
          /\ Send(<<Result(f, entry.status = "succeeded")>>)
          /\ Go(w, Idle)
          /\ UNCHANGED journal
       \/ RecoverInterrupted(w) /\ Go(w, Idle)
       \/ /\ f.task \notin inflight
          /\ entry.status = "none" \/ entry.digest # TaskPayloadDigest(f)
          /\ Go(w, Idle)
          /\ UNCHANGED <<up, journal>>
    /\ UNCHANGED <<leaseVars, link, handler, epoch, session, down, inflight, faults,
                   sessions, ran, outcomes>>

\* The awaited execution ended, or the session did.
Reply(w) ==
    /\ \/ /\ worker[w].pc = "reply"
          /\ Send(<<Result(worker[w].lease, worker[w].ok)>>)
       \/ /\ worker[w].pc = "waiting" /\ session = "draining"
          /\ UNCHANGED up
    /\ Go(w, Idle)
    /\ UNCHANGED <<leaseVars, link, handler, epoch, session, down, journal, inflight,
                   faults, sessions, ran, outcomes>>

Work(w) ==
    \/ Take(w) \/ RegisterInflight(w) \/ RecordRunning(w) \/ StartExecution(w)
    \/ \E ok \in BOOLEAN : FinishExecution(w, ok)
    \/ ReturnResult(w) \/ AwaitInflight(w) \/ Reply(w)

Next ==
    \/ Connect \/ Break \/ HandlerNotices \/ SessionNotices \/ SessionEnds
    \/ AgentCrashes \/ ControlPlaneRestarts
    \/ \E t \in Tasks, s \in Servers : Request(t, s)
    \/ \E t \in Tasks : ClaimLoop(t)
    \/ HandleFrame \/ Reconcile
    \/ \E t \in Tasks : LeaseTime(t)
    \/ \E w \in Workers : Work(w)
    \/ \E w \in Workers : SendRenewal(w)

Spec == DeliveryInit /\ [][Next]_vars

\* The agent redials, both sides learn of a broken stream (keepalive), tickers
\* fire, the executor returns and no goroutine is starved.  Faults, user
\* requests and renewals are not owed.
Fairness ==
    /\ WF_vars(Connect) /\ WF_vars(HandlerNotices) /\ WF_vars(SessionNotices)
    /\ WF_vars(SessionEnds) /\ WF_vars(HandleFrame) /\ WF_vars(Reconcile)
    /\ \A t \in Tasks : WF_vars(ClaimLoop(t)) /\ WF_vars(LeaseTime(t))
    /\ \A w \in Workers : WF_vars(Work(w))

FairSpec == Spec /\ Fairness

-----------------------------------------------------------------------------
Pcs == {"idle", "looked", "registered", "locking", "executing", "journaled",
        "await", "waiting", "reply"}

\* The queues, the journal and the workers have the shape the code gives them.
DeliveryTypeOK ==
    /\ LeaseTypeOK
    /\ link \in BOOLEAN /\ handler \in BOOLEAN /\ session \in {"off", "on", "draining"}
    /\ epoch \in Epochs \cup {NoEpoch}
    /\ \A i \in DOMAIN down : down[i] \in granted
    /\ \A i \in DOMAIN up : up[i] \in [kind : {"ack", "renew", "result"},
                                       lease : granted, ok : BOOLEAN]
    /\ \A t \in Tasks : journal[t].status \in {"none", "running"} \cup Terminal
    /\ inflight \subseteq Tasks
    /\ \A w \in Workers : worker[w].pc \in Pcs
    /\ \A t \in Tasks : outcomes[t] \subseteq BOOLEAN

\* An operation is never executed in two sessions of the agent: what a crash,
\* a broken stream or a lost result leaves behind is replayed from the journal
\* or given up (AGENT_RESTARTED_DURING_OPERATION), not run again.
NotRunAgainAfterRestart ==
    \A t \in Tasks : \A i, j \in DOMAIN ran[t] : ran[t][i] = ran[t][j]

\* A task is recorded as succeeded only if an execution of it succeeded,
\* whichever lease carried the result and however often it was redelivered.
SucceededMeansDone ==
    \A t \in Tasks : tasks[t].status = "succeeded" => TRUE \in outcomes[t]

\* A task that is waiting in the queue or out on an unacknowledged lease does
\* not stay there: broken streams, crashes and restarts included, it is
\* acknowledged or it ends.
DispatchEnds ==
    \A t \in Tasks : tasks[t].status \in {"queued", "leased"} ~>
                         tasks[t].status \notin {"queued", "leased"}

\* Every task that was requested ends, as the architecture document says of the
\* lease reconciler ("tasks do not get stuck"), as long as no stream breaks and
\* no process dies, redeliveries included.  A task with secret handles is left
\* out: a redelivery that awaits an execution which has just ended finds another
\* digest in the journal and answers nothing.
TaskEndsUnlessFault ==
    \A t \in Tasks \ SecretTasks : tasks[t].status = "queued" ~>
                         tasks[t].status \in Terminal \/ faults > 0

\* The journal: "a redelivery does not execute the side effects again".
ExecutedAtMostOnce ==
    \A t \in Tasks : Len(ran[t]) <= 1

\* It does so for an operation with one-time secret handles: its digest changes
\* at every claim, and no second delivery gets past RecordRunning.
SecretRunsOnce ==
    \A t \in SecretTasks : Len(ran[t]) <= 1

\* What the journal does guarantee: no operation is executed in two sessions of
\* the agent, and one with secret handles is executed once (RecordRunning,
\* executeTask).
JournalPreventsReruns == NotRunAgainAfterRestart /\ SecretRunsOnce
=============================================================================
