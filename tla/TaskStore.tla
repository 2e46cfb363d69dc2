----------------------------- MODULE TaskStore -----------------------------
(***************************************************************************)
(* The PostgreSQL store around the task rows: every user request that      *)
(* creates a task, and what the end of a task does to its server, to the   *)
(* recovery point it works on, to the desired bundle revision and to the   *)
(* outbox.  Requests (postgres_controlplane.go, postgres_entities.go,      *)
(* catalog_admin.go) and terminal transitions (postgres_tasks.go) are one  *)
(* transaction each.                                                       *)
(*                                                                         *)
(* A request refused for its actor, its quota, its If-Match generation, a  *)
(* node that is not available or a replayed idempotency key changes        *)
(* nothing; only the guards that read the state kept here are modelled.    *)
(***************************************************************************)
EXTENDS TaskLease

CONSTANTS
    Backups,      \* the backup ids that may be created
    Bundles,      \* the game bundle revisions of the servers' game
    PowerActions, \* the power operations users ask for
    Rejectable    \* the types of task whose TaskAck an agent may reject

ASSUME TaskStoreAssumption ==
    /\ PowerActions \subseteq {"start", "stop", "restart", "kill"}
    /\ Rejectable \subseteq {"provision", "reconcile"}

VARIABLES
    servers,      \* lifecycle_state, generation, observed_power, game_bundle_id
    backups,      \* status, server_id, failure_code IS NOT NULL
    jobs,         \* what a task row was created for; never changed afterwards
    history,      \* server_bundle_history.status of the task's upgrade
    events        \* outbox rows of the task

storeVars == <<servers, backups, jobs, history, events>>
vars == <<tasks, granted, minted, servers, backups, jobs, history, events>>

-----------------------------------------------------------------------------
BackupTypes == {"backup", "restore", "backup-delete"}
TaskTypes   == {"provision", "reconcile"} \cup PowerActions \cup BackupTypes

Powers == {"unknown", "stopped", "starting", "running", "stopping"}

\* What an agent reports about a container.
Reported == {"unknown", "stopped", "running"}

\* The status that marks a backup as taken by a task of each type.
Transient == [type \in BackupTypes |->
    CASE type = "backup" -> "creating" [] type = "restore" -> "restoring"
      [] type = "backup-delete" -> "deleting"]

NoBackup == "no backup"
NoBundle == "no bundle"

Statuses == {"absent", "creating", "ready", "failed", "restoring", "deleting",
             "deleted"}

\* prior is what DeleteBackup found before it marked the backup deleting; no
\* code reads it.
NoJob == [type |-> "none", gen |-> 0, backup |-> NoBackup, from |-> NoBundle,
          prior |-> "absent"]

Job(type, gen, b, from, prior) ==
    [type |-> type, gen |-> gen, backup |-> b, from |-> from, prior |-> prior]

StoreInit ==
    /\ LeaseInit
    /\ servers = [s \in Servers |-> [life |-> "absent", gen |-> 0,
                       observed |-> "unknown", bundle |-> NoBundle]]
    /\ backups = [b \in Backups |-> [status |-> "absent",
                       server |-> CHOOSE s \in Servers : TRUE, failure |-> FALSE]]
    /\ jobs = [t \in Tasks |-> NoJob]
    /\ history = [t \in Tasks |-> "none"]
    /\ events = [t \in Tasks |-> [created |-> 0, completed |-> 0]]

-----------------------------------------------------------------------------
\* enqueueTaskTx: the row and its task.created event in the caller's
\* transaction.
Enqueue(t, s, job) ==
    /\ EnqueueTask(t, s)
    /\ jobs' = [jobs EXCEPT ![t] = job]
    /\ events' = [events EXCEPT ![t].created = @ + 1]

Ready(s) == servers[s].life = "ready"

CreateServer(t, s, bundle) ==
    /\ servers[s].life = "absent"
    /\ servers' = [servers EXCEPT ![s] = [life |-> "provisioning", gen |-> 1,
                       observed |-> "unknown", bundle |-> bundle]]
    /\ Enqueue(t, s, Job("provision", 1, NoBackup, NoBundle, "absent"))
    /\ UNCHANGED <<backups, history>>

RequestPower(t, s, action) ==
    /\ Ready(s)
    /\ servers' = [servers EXCEPT ![s].gen = @ + 1,
           ![s].observed = IF action = "start" THEN "starting" ELSE "stopping"]
    /\ Enqueue(t, s, Job(action, servers[s].gen + 1, NoBackup, NoBundle, "absent"))
    /\ UNCHANGED <<backups, history>>

\* CreateAllocation, SetPrimaryAllocation, DeleteAllocation, UpdateStartup:
\* the desired runtime changes and a reconcile task carries it to the node.
RequestReconcile(t, s) ==
    /\ Ready(s)
    /\ servers' = [servers EXCEPT ![s].gen = @ + 1]
    /\ Enqueue(t, s, Job("reconcile", servers[s].gen + 1, NoBackup, NoBundle, "absent"))
    /\ UNCHANGED <<backups, history>>

\* Variant: the task carries the generation from before the upgrade.
UpgradeServerOldGeneration(t, s, bundle) ==
    /\ servers[s].life # "absent"
    /\ bundle # servers[s].bundle
    /\ servers' = [servers EXCEPT ![s].gen = @ + 1, ![s].bundle = bundle]
    /\ Enqueue(t, s, Job("reconcile", servers[s].gen, NoBackup,
                         servers[s].bundle, "absent"))
    /\ history' = [history EXCEPT ![t] = "reconciling"]
    /\ UNCHANGED backups

\* UpgradeServer, and RollbackServer, which picks the revision and calls it.
\* It does not ask for lifecycle_state = 'ready'.
UpgradeServer(t, s, bundle) ==
    /\ servers[s].life # "absent"
    /\ bundle # servers[s].bundle
    /\ servers' = [servers EXCEPT ![s].gen = @ + 1, ![s].bundle = bundle]
    /\ Enqueue(t, s, Job("reconcile", servers[s].gen + 1, NoBackup,
                         servers[s].bundle, "absent"))
    /\ history' = [history EXCEPT ![t] = "reconciling"]
    /\ UNCHANGED backups

CreateBackup(t, s, b) ==
    /\ Ready(s)
    /\ backups[b].status = "absent"
    /\ backups' = [backups EXCEPT ![b] = [status |-> "creating", server |-> s,
                                          failure |-> FALSE]]
    /\ Enqueue(t, s, Job("backup", servers[s].gen, b, NoBundle, "absent"))
    /\ UNCHANGED <<servers, history>>

\* Variant: the backup is not marked.
RestoreBackupUnmarked(t, s, b) ==
    /\ Ready(s)
    /\ servers[s].observed = "stopped"
    /\ backups[b].server = s /\ backups[b].status = "ready"
    /\ servers' = [servers EXCEPT ![s].gen = @ + 1]
    /\ Enqueue(t, s, Job("restore", servers[s].gen + 1, b, NoBundle, "ready"))
    /\ UNCHANGED <<backups, history>>

\* backups_restore_lock_idx allows one restoring backup per server.
RestoreBackup(t, s, b) ==
    /\ Ready(s)
    /\ servers[s].observed = "stopped"
    /\ backups[b].server = s /\ backups[b].status = "ready"
    /\ \A c \in Backups : backups[c].server = s => backups[c].status # "restoring"
    /\ servers' = [servers EXCEPT ![s].gen = @ + 1]
    /\ backups' = [backups EXCEPT ![b].status = "restoring"]
    /\ Enqueue(t, s, Job("restore", servers[s].gen + 1, b, NoBundle, "ready"))
    /\ UNCHANGED history

\* Variant: the failure code of an earlier restore is kept.
DeleteBackupKeepsFailure(t, s, b) ==
    LET was == backups[b].status IN
    /\ backups[b].server = s /\ was \in {"ready", "failed"}
    /\ backups' = [backups EXCEPT ![b].status = "deleting"]
    /\ Enqueue(t, s, Job("backup-delete", servers[s].gen, b, NoBundle, was))
    /\ UNCHANGED <<servers, history>>

\* The failure code is kept only where the backup has failed: compensation reads
\* it to find out which status to give back.
DeleteBackup(t, s, b) ==
    LET was == backups[b].status IN
    /\ backups[b].server = s /\ was \in {"ready", "failed"}
    /\ backups' = [backups EXCEPT ![b].status = "deleting",
                       ![b].failure = (was = "failed") /\ @]
    /\ Enqueue(t, s, Job("backup-delete", servers[s].gen, b, NoBundle, was))
    /\ UNCHANGED <<servers, history>>

\* UpdateServerObserved: the last report wins, whatever its generation.
UpdateServerObserved(s, power) ==
    /\ servers[s].life # "absent"
    /\ servers' = [servers EXCEPT ![s].observed = power]
    /\ UNCHANGED <<tasks, granted, minted, backups, jobs, history, events>>

-----------------------------------------------------------------------------
\* Variant: a failed restore condemns the recovery point.
CompensatedAsFailed(t) ==
    [backups[jobs[t].backup] EXCEPT !.status = "failed", !.failure = TRUE]

\* compensateBackupTaskTx: what the backup of a failed task becomes.
Compensated(t) ==
    LET b == backups[jobs[t].backup] IN
    [b EXCEPT !.status = CASE jobs[t].type = "backup" -> "failed"
                           [] jobs[t].type = "restore" -> "ready"
                           [] OTHER -> IF b.failure THEN "failed" ELSE "ready",
              !.failure = TRUE]

\* What the backup of a successful task becomes.
Concluded(t) ==
    LET b == backups[jobs[t].backup] IN
    [b EXCEPT !.status = IF jobs[t].type = "backup-delete" THEN "deleted" ELSE "ready",
              !.failure = FALSE]

OnBackup(t) == jobs[t].type \in BackupTypes

\* requireBackupTransition: the UPDATE found the backup in the status the task
\* put it in.
BackupHeld(t) ==
    /\ backups[jobs[t].backup].server = tasks[t].server
    /\ backups[jobs[t].backup].status = Transient[jobs[t].type]

\* A conflict rolls the whole transaction back, the task's end included.
CommitsComplete(t, ok) ==
    /\ OnBackup(t) => BackupHeld(t)
    /\ ok /\ jobs[t].type = "restore" => servers[tasks[t].server].gen = jobs[t].gen

\* What the end of a task does to its server's row: a provisioned server is
\* ready, a restored one stopped, and a failed upgrade gives the bundle back
\* if no newer generation is desired.
ServerAfter(t, ok) ==
    LET row == servers[tasks[t].server] IN
    CASE ok /\ jobs[t].type = "provision" -> [row EXCEPT !.life = "ready"]
      [] ok /\ jobs[t].type = "restore" -> [row EXCEPT !.observed = "stopped"]
      [] ~ok /\ history[t] = "reconciling" /\ row.gen = jobs[t].gen ->
             [row EXCEPT !.bundle = jobs[t].from]
      [] OTHER -> row

\* Variant: the event goes out after the commit, and is lost.
CompletedEventLost(ended) == events

\* recordTaskOutboxEvent("task.completed"), in the transaction that ends the tasks.
CompletedEvent(ended) ==
    [t \in Tasks |-> IF t \in ended THEN [events[t] EXCEPT !.completed = @ + 1]
                     ELSE events[t]]

\* CompleteTask.  valid is validBackupTaskResult: a backup task that reports
\* success without a usable result is failed (BACKUP_INTEGRITY_FAILED).
Complete(f, succeeded, valid) ==
    LET t  == f.task
        ok == succeeded /\ (jobs[t].type = "backup" => valid) IN
    /\ CompleteTask(f, ok)
    /\ CommitsComplete(t, ok)
    /\ servers' = [servers EXCEPT ![tasks[t].server] = ServerAfter(t, ok)]
    /\ backups' = IF OnBackup(t)
                  THEN [backups EXCEPT ![jobs[t].backup] =
                            IF ok THEN Concluded(t) ELSE Compensated(t)]
                  ELSE backups
    /\ history' = IF history[t] = "reconciling"
                  THEN [history EXCEPT ![t] = IF ok THEN "applied" ELSE "rolled-back"]
                  ELSE history
    /\ events' = CompletedEvent({t})
    /\ UNCHANGED jobs

\* A rejected TaskAck ends the row and nothing else: no compensation, no event,
\* no bundle rollback.  The agent rejects a redelivered operation whose payload
\* digest changed, which happens to the types whose payload carries one-time
\* secret handles.
Reject(f) ==
    /\ jobs[f.task].type \in Rejectable
    /\ AckRejected(f)
    /\ UNCHANGED storeVars

\* Variant: no compensation.
FailExhaustedUncompensated ==
    /\ FailExhausted
    /\ events' = CompletedEvent(Exhausted)
    /\ UNCHANGED <<servers, backups, jobs, history>>

\* The failing half of ReconcileTaskLeases: one transaction for all exhausted
\* tasks; a compensation that conflicts rolls all of them back.
FailExhaustedTasks ==
    /\ FailExhausted
    /\ \A t \in Exhausted : OnBackup(t) => BackupHeld(t)
    /\ backups' = [b \in Backups |->
           IF \E t \in Exhausted : OnBackup(t) /\ jobs[t].backup = b
           THEN Compensated(CHOOSE t \in Exhausted : OnBackup(t) /\ jobs[t].backup = b)
           ELSE backups[b]]
    /\ events' = CompletedEvent(Exhausted)
    /\ UNCHANGED <<servers, jobs, history>>

\* The lease steps that concern the row alone.
LeaseStep ==
    /\ \/ \E t \in Tasks, e \in Epochs : ClaimTask(t, e)
       \/ \E f \in Presented : AckAccepted(f)
       \/ \E f \in Presented : ReportTaskProgress(f)
       \/ \E f \in Presented : RenewTaskLease(f)
       \/ \E t \in Tasks : LeaseLapses(t)
       \/ RequeueLapsed
    /\ UNCHANGED storeVars

Next ==
    \/ \E t \in Tasks, s \in Servers :
         \/ \E bundle \in Bundles : CreateServer(t, s, bundle)
         \/ \E action \in PowerActions : RequestPower(t, s, action)
         \/ RequestReconcile(t, s)
         \/ \E bundle \in Bundles : UpgradeServer(t, s, bundle)
         \/ \E b \in Backups : CreateBackup(t, s, b)
         \/ \E b \in Backups : RestoreBackup(t, s, b)
         \/ \E b \in Backups : DeleteBackup(t, s, b)
    \/ \E s \in Servers, power \in Reported : UpdateServerObserved(s, power)
    \/ LeaseStep
    \/ \E f \in Presented, succeeded, valid \in BOOLEAN : Complete(f, succeeded, valid)
    \/ \E f \in Presented : Reject(f)
    \/ FailExhaustedTasks

Spec == StoreInit /\ [][Next]_vars

-----------------------------------------------------------------------------
\* The columns have the values the schema allows; a server has a bundle revision.
StoreTypeOK ==
    /\ LeaseTypeOK
    /\ servers \in [Servers -> [life : {"absent", "provisioning", "ready"},
           gen : Nat, observed : Powers, bundle : Bundles \cup {NoBundle}]]
    /\ \A s \in Servers : servers[s].life # "absent" => servers[s].bundle \in Bundles
    /\ backups \in [Backups -> [status : Statuses, server : Servers, failure : BOOLEAN]]
    /\ jobs \in [Tasks -> [type : TaskTypes \cup {"none"}, gen : Nat,
           backup : Backups \cup {NoBackup}, from : Bundles \cup {NoBundle},
           prior : Statuses]]
    /\ history \in [Tasks -> {"none", "reconciling", "applied", "rolled-back"}]
    /\ events \in [Tasks -> [created : Nat, completed : Nat]]

\* While a backup, restore or delete task is in progress its backup is in the
\* status that task put it in.  This is what makes CompleteTask and the
\* reconciler terminate: were it false, requireBackupTransition would roll the
\* task's end back every time, and one such row would keep the reconciler's
\* transaction from failing any exhausted task.
ActiveTaskHoldsBackup ==
    \A t \in Tasks : tasks[t].status \in Active /\ OnBackup(t) => BackupHeld(t)

\* A server's generation does not move while a task of it is in progress, so a
\* restore result is never refused as SERVER_STATE_CONFLICT and the rollback of
\* a failed upgrade never misses its row (WHERE generation = $4).
GenerationHeldByTask ==
    \A t \in Tasks : tasks[t].status \in Active =>
        jobs[t].gen = servers[tasks[t].server].gen

\* A task that succeeded has its task.completed event, no task has two, and an
\* event is never ahead of its task (the outbox is written in the same
\* transaction: "no task succeeded, event missing" state exists).
EventsMatchTasks ==
    \A t \in Tasks :
        /\ events[t].created = (IF tasks[t].status = "absent" THEN 0 ELSE 1)
        /\ events[t].completed <= 1
        /\ tasks[t].status = "succeeded" => events[t].completed = 1
        /\ events[t].completed = 1 => tasks[t].status \in Terminal

\* The converse: a backup is in creation, being restored or being deleted only
\* while a task of that type works on it.  However the task ends (result,
\* integrity failure, exhausted attempts) the backup leaves the transient
\* status, so the last known-good recovery point stays usable and the restore
\* lock of the server (backups_restore_lock_idx) is always released.
TakenBackupHasTask ==
    \A b \in Backups : backups[b].status \in {"creating", "restoring", "deleting"} =>
        \E t \in Tasks : /\ tasks[t].status \in Active
                         /\ jobs[t].backup = b
                         /\ backups[b].status = Transient[jobs[t].type]

\* A task and what it works on stay together, from the request to whatever end:
\* its backup, its server's generation, and no backup taken without a task.
TaskHoldsItsObjects == ActiveTaskHoldsBackup /\ GenerationHeldByTask /\ TakenBackupHasTask

\* A deletion that fails gives the backup back the status it had: a good
\* recovery point is not downgraded to failed because an earlier restore of it
\* left a failure code, and a failed one is not promoted to ready.
FailedDeleteRestoresStatus ==
    [][\A t \in Tasks :
         /\ tasks[t].status \in Active /\ tasks'[t].status = "failed"
         /\ jobs[t].type = "backup-delete"
         => backups'[jobs[t].backup].status = jobs[t].prior]_vars

\* The store moves backups only as domain.BackupStatusTransitionAllowed says.
Recovery == INSTANCE BackupStatus WITH status <- [b \in Backups |-> backups[b].status]
ImplementsBackupStatus == Recovery!BackupSpec

-----------------------------------------------------------------------------
\* CompleteTask: "Restore the desired revision in the same transaction so the
\* API never advertises the failed revision."  So whenever an upgrade task has
\* failed, its revision has been rolled back.
FailedUpgradeNotAdvertised ==
    \A t \in Tasks :
        tasks[t].status = "failed" /\ history[t] # "none" => history[t] = "rolled-back"
=============================================================================
