-------------------------- MODULE TaskStoreProofs --------------------------
(***************************************************************************)
(* The store around the task rows, for every set of tasks, servers,        *)
(* backups and bundle revisions: it implements the lease protocol, so that *)
(* all of TaskLeaseProofs holds of it, and tasks, the objects they work on *)
(* and their events stay together whatever the end of the task.            *)
(***************************************************************************)
EXTENDS TaskStore, TaskLeaseProofs

-----------------------------------------------------------------------------
(* The lease protocol.                                                       *)

\* The requests that create a task.
Request(t, s) ==
    \/ \E bundle \in Bundles : CreateServer(t, s, bundle)
    \/ \E action \in PowerActions : RequestPower(t, s, action)
    \/ RequestReconcile(t, s)
    \/ \E bundle \in Bundles : UpgradeServer(t, s, bundle)
    \/ \E b \in Backups : CreateBackup(t, s, b)
    \/ \E b \in Backups : RestoreBackup(t, s, b)
    \/ \E b \in Backups : DeleteBackup(t, s, b)

\* Each of them adds a row under the exclusive index.
LEMMA RequestEnqueues ==
    ASSUME NEW t \in Tasks, NEW s \in Servers, Request(t, s)
    PROVE  EnqueueTask(t, s)
<1>1. ASSUME NEW bundle \in Bundles, CreateServer(t, s, bundle) PROVE EnqueueTask(t, s)
  BY <1>1 DEF CreateServer, Enqueue
<1>2. ASSUME NEW action \in PowerActions, RequestPower(t, s, action)
      PROVE  EnqueueTask(t, s)
  BY <1>2 DEF RequestPower, Enqueue
<1>3. ASSUME RequestReconcile(t, s) PROVE EnqueueTask(t, s)
  BY <1>3 DEF RequestReconcile, Enqueue
<1>4. ASSUME NEW bundle \in Bundles, UpgradeServer(t, s, bundle) PROVE EnqueueTask(t, s)
  BY <1>4 DEF UpgradeServer, Enqueue
<1>5. ASSUME NEW b \in Backups, CreateBackup(t, s, b) PROVE EnqueueTask(t, s)
  BY <1>5 DEF CreateBackup, Enqueue
<1>6. ASSUME NEW b \in Backups, RestoreBackup(t, s, b) PROVE EnqueueTask(t, s)
  BY <1>6 DEF RestoreBackup, Enqueue
<1>7. ASSUME NEW b \in Backups, DeleteBackup(t, s, b) PROVE EnqueueTask(t, s)
  BY <1>7 DEF DeleteBackup, Enqueue
<1> QED
  BY <1>1, <1>2, <1>3, <1>4, <1>5, <1>6, <1>7 DEF Request

\* A request adds a row, whatever else it does; the other steps of the store are
\* those of the protocol, or leave the rows alone.
LEMMA StoreStepIsLeaseStep ==
    ASSUME [Next]_vars
    PROVE  [LeaseNext]_leaseVars
<1>1. CASE UNCHANGED vars
  BY <1>1 DEF vars, leaseVars
<1>2. CASE \E t \in Tasks, s \in Servers : Request(t, s)
  BY <1>2, RequestEnqueues DEF LeaseNext
<1>3. CASE \E s \in Servers, power \in Reported : UpdateServerObserved(s, power)
  BY <1>3 DEF UpdateServerObserved, leaseVars
<1>4. CASE LeaseStep
  BY <1>4 DEF LeaseStep, LeaseNext
<1>5. CASE \E f \in Presented, succeeded, valid \in BOOLEAN : Complete(f, succeeded, valid)
  <2>1. \E f \in Presented, ok \in BOOLEAN : CompleteTask(f, ok)
    BY <1>5 DEF Complete
  <2> QED
    BY <2>1 DEF LeaseNext
<1>6. CASE \E f \in Presented : Reject(f)
  BY <1>6 DEF Reject, LeaseNext
<1>7. CASE FailExhaustedTasks
  BY <1>7 DEF FailExhaustedTasks, LeaseNext
<1> QED
  BY <1>1, <1>2, <1>3, <1>4, <1>5, <1>6, <1>7 DEF Next, Request

\* The store implements the lease protocol: what its requests and task ends do
\* besides never moves a row in a way the protocol does not know.
THEOREM StoreImplementsLease == Spec => LeaseSpec
<1>1. StoreInit => LeaseInit
  BY DEF StoreInit
<1>2. [Next]_vars => [LeaseNext]_leaseVars
  BY StoreStepIsLeaseStep
<1> QED
  BY <1>1, <1>2, PTL DEF Spec, LeaseSpec

\* Exclusive operations, claimable queues and sound fences in the store itself.
THEOREM StoreLeaseSound ==
    Spec => [](OneActivePerServer /\ QueuedIsClaimable /\ OnlyCurrentLeaseMatches)
  BY StoreImplementsLease, ExclusiveTasks, QueueDrains, FenceIsSound, PTL

\* Late results, acks and reconciler passes of the store leave ended tasks alone.
THEOREM StoreEndedStaysEnded == Spec => TerminalIsFinal
  BY StoreImplementsLease, EndedStaysEnded

-----------------------------------------------------------------------------
(* Tasks, the objects they work on and their events.                         *)

\* The rows of the store.
ServerRow == [life : {"absent", "provisioning", "ready"}, gen : Nat, observed : Powers,
              bundle : Bundles \cup {NoBundle}]
BackupRow == [status : Statuses, server : Servers, failure : BOOLEAN]
JobRow    == [type : TaskTypes \cup {"none"}, gen : Nat, backup : Backups \cup {NoBackup},
              from : Bundles \cup {NoBundle}, prior : Statuses]
HistoryStatuses == {"none", "reconciling", "applied", "rolled-back"}
EventRow  == [created : Nat, completed : Nat]

\* The statuses of a backup that a task works on.
Taken == {"creating", "restoring", "deleting"}

\* A task on a backup names one.
JobsNameBackups == \A t \in Tasks : OnBackup(t) => jobs[t].backup \in Backups

\* TakenBackupHasTask, with the type of the task.
TakenBackupHasItsTask ==
    \A b \in Backups : backups[b].status \in Taken =>
        \E t \in Tasks : tasks[t].status \in Active /\ OnBackup(t) /\ jobs[t].backup = b

\* What compensation reads: a failed backup has its failure code, and while a
\* deletion is in progress the code tells what the backup was before.
DeletionRemembers ==
    /\ \A b \in Backups : backups[b].status = "failed" => backups[b].failure
    /\ \A t \in Tasks : tasks[t].status \in Active /\ jobs[t].type = "backup-delete" =>
          /\ jobs[t].prior \in {"ready", "failed"}
          /\ backups[jobs[t].backup].failure = (jobs[t].prior = "failed")

\* An upgrade can be rolled back: its task knows the revision it came from.
UpgradeKnowsBundle ==
    \A t \in Tasks : history[t] # "none" =>
        tasks[t].status # "absent" /\ jobs[t].from \in Bundles

\* What is being provisioned is there.
ProvisionHasServer ==
    \A t \in Tasks : tasks[t].status \in Active /\ jobs[t].type = "provision" =>
        servers[tasks[t].server].life # "absent"

\* The inductive invariant, besides that of the rows.
StoreInv ==
    /\ StoreTypeOK
    /\ JobsNameBackups
    /\ ActiveTaskHoldsBackup
    /\ GenerationHeldByTask
    /\ TakenBackupHasItsTask
    /\ DeletionRemembers
    /\ UpgradeKnowsBundle
    /\ ProvisionHasServer
    /\ EventsMatchTasks

\* The types of tasks on backups, and the status each of them gives its backup.
LEMMA BackupJobs ==
    /\ BackupTypes = {"backup", "restore", "backup-delete"}
    /\ Transient["backup"] = "creating"
    /\ Transient["restore"] = "restoring"
    /\ Transient["backup-delete"] = "deleting"
    /\ \A type \in BackupTypes : Transient[type] \in Taken
    /\ "provision" \notin BackupTypes /\ "reconcile" \notin BackupTypes
    /\ \A action \in PowerActions : action \notin BackupTypes
  BY TaskStoreAssumption DEF BackupTypes, Transient, Taken

\* A count of at most one that is not one is none.
LEMMA BelowOne == \A n \in Nat : n <= 1 /\ n # 1 => n = 0
  OBVIOUS

\* Two tasks in progress never work on one backup: both would be tasks of the
\* server it belongs to.
LEMMA OneTaskPerBackup ==
    ASSUME ActiveTaskHoldsBackup, OneActivePerServer, NEW t \in Tasks, NEW u \in Tasks,
           tasks[t].status \in Active, tasks[u].status \in Active,
           OnBackup(t), OnBackup(u), jobs[t].backup = jobs[u].backup
    PROVE  t = u
  BY DEF ActiveTaskHoldsBackup, BackupHeld, OneActivePerServer

\* A step that ends no task and creates none keeps the invariant, if the rows only
\* move among the active statuses and no generation moves.
LEMMA QuietStoreStep ==
    ASSUME StoreInv, LeaseInv',
           \A t \in Tasks : /\ tasks'[t].server = tasks[t].server
                            /\ tasks'[t].status \in Active <=> tasks[t].status \in Active
                            /\ tasks[t].status \notin Active =>
                                  tasks'[t].status = tasks[t].status,
           UNCHANGED <<backups, jobs, history, events>>,
           servers' \in [Servers -> ServerRow],
           \A s \in Servers : /\ servers'[s].gen = servers[s].gen
                              /\ servers'[s].life = "absent" => servers[s].life = "absent"
                              /\ servers'[s].life # "absent" => servers'[s].bundle \in Bundles
    PROVE  StoreInv'
<1>1. \A t \in Tasks : tasks[t].server \in Servers
  BY DEF StoreInv, StoreTypeOK, LeaseTypeOK, Row
<1>2. StoreTypeOK'
  BY DEF StoreInv, StoreTypeOK, LeaseInv, ServerRow
<1>3. JobsNameBackups'
  BY DEF StoreInv, JobsNameBackups, OnBackup
<1>4. ActiveTaskHoldsBackup'
  BY DEF StoreInv, ActiveTaskHoldsBackup, OnBackup, BackupHeld
<1>5. GenerationHeldByTask'
  BY <1>1 DEF StoreInv, GenerationHeldByTask
<1>6. TakenBackupHasItsTask'
  BY DEF StoreInv, TakenBackupHasItsTask, OnBackup
<1>7. DeletionRemembers'
  BY DEF StoreInv, DeletionRemembers
<1>8. \A t \in Tasks :
        /\ tasks'[t].status = "absent" <=> tasks[t].status = "absent"
        /\ tasks'[t].status = "succeeded" <=> tasks[t].status = "succeeded"
        /\ tasks[t].status \in Terminal => tasks'[t].status \in Terminal
  BY DEF Active, Open, Terminal
<1>9. UpgradeKnowsBundle'
  BY <1>8 DEF StoreInv, UpgradeKnowsBundle
<1>10. EventsMatchTasks'
  BY <1>8 DEF StoreInv, EventsMatchTasks
<1>11. ProvisionHasServer'
  BY <1>1 DEF StoreInv, ProvisionHasServer
<1> QED
  BY <1>2, <1>3, <1>4, <1>5, <1>6, <1>7, <1>9, <1>10, <1>11 DEF StoreInv

\* A request keeps the invariant, if its task carries the generation it leaves the
\* server with, and the one backup it changes, if any, was not taken, belongs to the
\* server, and gets the status of the task's type.
LEMMA RequestKeepsInv ==
    ASSUME StoreInv, LeaseInv, LeaseInv',
           NEW t \in Tasks, NEW s \in Servers, NEW job \in JobRow, NEW row \in ServerRow,
           Enqueue(t, s, job),
           servers' = [servers EXCEPT ![s] = row],
           row.gen = job.gen, row.life # "absent" => row.bundle \in Bundles,
           job.type = "provision" => row.life # "absent",
           history' \in [Tasks -> HistoryStatuses],
           \A u \in Tasks : history'[u] = history[u] \/ (u = t /\ job.from \in Bundles),
           backups' \in [Backups -> BackupRow],
           \A b \in Backups :
               backups'[b] = backups[b] \/ (job.type \in BackupTypes /\ job.backup = b),
           job.type \in BackupTypes =>
               /\ job.backup \in Backups
               /\ backups[job.backup].status \notin Taken
               /\ backups'[job.backup].server = s
               /\ backups'[job.backup].status = Transient[job.type],
           job.type = "backup-delete" =>
               /\ job.prior \in {"ready", "failed"}
               /\ backups'[job.backup].failure = (job.prior = "failed")
    PROVE  StoreInv'
<1>1. /\ tasks \in [Tasks -> Row] /\ jobs \in [Tasks -> JobRow]
      /\ events \in [Tasks -> EventRow] /\ servers \in [Servers -> ServerRow]
      /\ backups \in [Backups -> BackupRow]
      /\ \A u \in Tasks : tasks[u].server \in Servers
  BY DEF StoreInv, StoreTypeOK, LeaseTypeOK, Row, JobRow, EventRow, ServerRow, BackupRow
<1>2. /\ tasks[t].status = "absent"
      /\ \A u \in Tasks : tasks[u].status \in Active => tasks[u].server # s
      /\ tasks'[t].status = "queued" /\ tasks'[t].server = s
      /\ \A u \in Tasks \ {t} : tasks'[u] = tasks[u]
  BY <1>1 DEF Enqueue, EnqueueTask, ActiveOn
<1>3. /\ jobs' = [jobs EXCEPT ![t] = job]
      /\ jobs'[t] = job /\ \A u \in Tasks \ {t} : jobs'[u] = jobs[u]
  BY <1>1 DEF Enqueue
<1>4. /\ events' \in [Tasks -> EventRow]
      /\ events'[t].created = events[t].created + 1
      /\ events'[t].completed = events[t].completed
      /\ \A u \in Tasks \ {t} : events'[u] = events[u]
  BY <1>1 DEF Enqueue, EventRow
<1>5. /\ servers'[s] = row /\ \A r \in Servers \ {s} : servers'[r] = servers[r]
  BY <1>1
<1>6. "queued" \in Active /\ "absent" \notin Active /\ "queued" \notin Terminal
  BY DEF Active, Open, Terminal
<1>7. \A u \in Tasks \ {t} : tasks[u].status \in Active /\ OnBackup(u)
                               => backups'[jobs[u].backup] = backups[jobs[u].backup]
  <2> SUFFICES ASSUME NEW u \in Tasks \ {t}, tasks[u].status \in Active, OnBackup(u),
                      job.type \in BackupTypes, job.backup = jobs[u].backup
               PROVE  FALSE
    BY DEF StoreInv, JobsNameBackups
  <2>1. jobs[u].type \in BackupTypes /\ backups[job.backup].status = Transient[jobs[u].type]
    BY DEF StoreInv, ActiveTaskHoldsBackup, BackupHeld, OnBackup
  <2> QED
    BY <2>1, BackupJobs
<1>8. StoreTypeOK'
  <2>1. servers' \in [Servers -> ServerRow]
    BY <1>1
  <2>2. \A r \in Servers : servers'[r].life # "absent" => servers'[r].bundle \in Bundles
    BY <1>5 DEF StoreInv, StoreTypeOK
  <2>3. jobs' \in [Tasks -> JobRow]
    BY <1>1, <1>3
  <2> QED
    BY <1>4, <2>1, <2>2, <2>3
    DEF StoreTypeOK, LeaseInv, ServerRow, BackupRow, JobRow, EventRow, HistoryStatuses
<1>9. JobsNameBackups'
  BY <1>3 DEF StoreInv, JobsNameBackups, OnBackup
<1>10. ActiveTaskHoldsBackup'
  <2> SUFFICES ASSUME NEW u \in Tasks, tasks'[u].status \in Active,
                      jobs'[u].type \in BackupTypes
               PROVE  /\ backups'[jobs'[u].backup].server = tasks'[u].server
                      /\ backups'[jobs'[u].backup].status = Transient[jobs'[u].type]
    BY DEF ActiveTaskHoldsBackup, OnBackup, BackupHeld
  <2>1. CASE u = t
    BY <1>2, <1>3, <2>1
  <2>2. CASE u # t
    BY <1>2, <1>3, <1>7, <2>2 DEF StoreInv, ActiveTaskHoldsBackup, OnBackup, BackupHeld
  <2> QED
    BY <2>1, <2>2
<1>11. GenerationHeldByTask'
  <2> SUFFICES ASSUME NEW u \in Tasks, tasks'[u].status \in Active
               PROVE  jobs'[u].gen = servers'[tasks'[u].server].gen
    BY DEF GenerationHeldByTask
  <2>1. CASE u = t
    BY <1>2, <1>3, <1>5, <2>1
  <2>2. CASE u # t
    BY <1>1, <1>2, <1>3, <1>5, <2>2 DEF StoreInv, GenerationHeldByTask
  <2> QED
    BY <2>1, <2>2
<1>12. TakenBackupHasItsTask'
  <2> SUFFICES ASSUME NEW b \in Backups, backups'[b].status \in Taken
               PROVE  \E u \in Tasks : /\ tasks'[u].status \in Active
                                       /\ jobs'[u].type \in BackupTypes
                                       /\ jobs'[u].backup = b
    BY DEF TakenBackupHasItsTask, OnBackup
  <2>1. CASE job.type \in BackupTypes /\ job.backup = b
    BY <1>2, <1>3, <1>6, <2>1
  <2>2. CASE backups'[b] = backups[b]
    <3>1. PICK u \in Tasks : tasks[u].status \in Active /\ OnBackup(u) /\ jobs[u].backup = b
      BY <2>2 DEF StoreInv, TakenBackupHasItsTask
    <3> QED
      BY <1>2, <1>3, <1>6, <3>1 DEF OnBackup
  <2> QED
    BY <2>1, <2>2
<1>13. DeletionRemembers'
  <2>1. ASSUME NEW b \in Backups, backups'[b].status = "failed"
        PROVE  backups'[b].failure
    <3>1. "failed" \notin Taken
      BY DEF Taken
    <3>2. backups'[b] = backups[b]
      BY <2>1, <3>1, BackupJobs
    <3> QED
      BY <2>1, <3>2 DEF StoreInv, DeletionRemembers
  <2>2. ASSUME NEW u \in Tasks, tasks'[u].status \in Active,
               jobs'[u].type = "backup-delete"
        PROVE  /\ jobs'[u].prior \in {"ready", "failed"}
               /\ backups'[jobs'[u].backup].failure = (jobs'[u].prior = "failed")
    <3>1. CASE u = t
      BY <1>3, <2>2, <3>1
    <3>2. CASE u # t
      <4>1. OnBackup(u)
        BY <1>3, <2>2, <3>2 DEF OnBackup, BackupTypes
      <4> QED
        BY <1>2, <1>3, <1>7, <2>2, <3>2, <4>1 DEF StoreInv, DeletionRemembers
    <3> QED
      BY <3>1, <3>2
  <2> QED
    BY <2>1, <2>2 DEF DeletionRemembers
<1>14. EventsMatchTasks'
  <2> SUFFICES ASSUME NEW u \in Tasks
               PROVE  /\ events'[u].created = (IF tasks'[u].status = "absent" THEN 0 ELSE 1)
                      /\ events'[u].completed <= 1
                      /\ tasks'[u].status = "succeeded" => events'[u].completed = 1
                      /\ events'[u].completed = 1 => tasks'[u].status \in Terminal
    BY DEF EventsMatchTasks
  <2>1. CASE u = t
    BY <1>2, <1>4, <2>1 DEF StoreInv, EventsMatchTasks, Terminal
  <2>2. CASE u # t
    BY <1>2, <1>4, <2>2 DEF StoreInv, EventsMatchTasks
  <2> QED
    BY <2>1, <2>2
<1>15. UpgradeKnowsBundle'
  <2> SUFFICES ASSUME NEW u \in Tasks, history'[u] # "none"
               PROVE  tasks'[u].status # "absent" /\ jobs'[u].from \in Bundles
    BY DEF UpgradeKnowsBundle
  <2>1. CASE u = t
    <3>1. history[t] = "none"
      BY <1>2 DEF StoreInv, UpgradeKnowsBundle
    <3> QED
      BY <1>2, <1>3, <2>1, <3>1
  <2>2. CASE u # t
    BY <1>2, <1>3, <2>2 DEF StoreInv, UpgradeKnowsBundle
  <2> QED
    BY <2>1, <2>2
<1>16. ProvisionHasServer'
  <2> SUFFICES ASSUME NEW u \in Tasks, tasks'[u].status \in Active,
                      jobs'[u].type = "provision"
               PROVE  servers'[tasks'[u].server].life # "absent"
    BY DEF ProvisionHasServer
  <2>1. CASE u = t
    BY <1>2, <1>3, <1>5, <2>1
  <2>2. CASE u # t
    BY <1>1, <1>2, <1>3, <1>5, <2>2 DEF StoreInv, ProvisionHasServer
  <2> QED
    BY <2>1, <2>2
<1> QED
  BY <1>8, <1>9, <1>10, <1>11, <1>12, <1>13, <1>14, <1>15, <1>16 DEF StoreInv

\* Ending tasks keeps the invariant, if the backup of each of them leaves its taken
\* status, no other backup changes, no generation moves, and each end is told once
\* (a rejected task, which never succeeds, may end untold).
LEMMA EndKeepsInv ==
    ASSUME StoreInv, LeaseInv, LeaseInv', NEW E \in SUBSET Tasks,
           \A t \in E : /\ tasks[t].status \in Active
                        /\ tasks'[t].status \in Terminal,
           \A t \in Tasks \ E : tasks'[t] = tasks[t],
           UNCHANGED jobs,
           servers' \in [Servers -> ServerRow],
           \A s \in Servers : /\ servers'[s].gen = servers[s].gen
                              /\ servers'[s].life = "absent" => servers[s].life = "absent"
                              /\ servers'[s].life # "absent" => servers'[s].bundle \in Bundles,
           history' \in [Tasks -> HistoryStatuses],
           \A t \in Tasks : history'[t] # "none" => history[t] # "none",
           \/ events' = CompletedEvent(E)
           \/ events' = events /\ \A t \in E : tasks'[t].status # "succeeded",
           backups' \in [Backups -> BackupRow],
           \A b \in Backups :
               IF \E t \in E : OnBackup(t) /\ jobs[t].backup = b
               THEN /\ backups'[b].status \notin Taken
                    /\ backups'[b].server = backups[b].server
                    /\ backups'[b].status = "failed" => backups'[b].failure
               ELSE backups'[b] = backups[b]
    PROVE  StoreInv'
<1>1. /\ tasks \in [Tasks -> Row]
      /\ events \in [Tasks -> EventRow] /\ jobs \in [Tasks -> JobRow]
      /\ \A u \in Tasks : tasks[u].server \in Servers
  BY DEF StoreInv, StoreTypeOK, LeaseTypeOK, Row, JobRow, EventRow
<1>2. Active \cap Terminal = {}
  BY DEF Active, Open, Terminal
<1>3. \A u \in Tasks : tasks'[u].status \in Active =>
         u \notin E /\ tasks'[u] = tasks[u] /\ tasks[u].status \in Active
  BY <1>2
<1>4. \A u \in Tasks : tasks'[u].status \in Active /\ OnBackup(u)
                           => backups'[jobs[u].backup] = backups[jobs[u].backup]
  <2> SUFFICES ASSUME NEW u \in Tasks, tasks'[u].status \in Active, OnBackup(u)
               PROVE  ~ \E t \in E : OnBackup(t) /\ jobs[t].backup = jobs[u].backup
    BY DEF StoreInv, JobsNameBackups
  <2> QED
    BY <1>3, OneTaskPerBackup DEF StoreInv, LeaseInv
<1>5. /\ events' \in [Tasks -> EventRow]
      /\ \A u \in Tasks \ E : events'[u] = events[u]
      /\ \A u \in E : /\ events'[u].created = events[u].created
                      /\ \/ events'[u].completed = events[u].completed + 1
                         \/ events'[u] = events[u] /\ tasks'[u].status # "succeeded"
  BY <1>1 DEF CompletedEvent, EventRow
<1>6. StoreTypeOK'
  BY <1>5 DEF StoreInv, StoreTypeOK, LeaseInv, ServerRow, BackupRow, JobRow, EventRow,
              HistoryStatuses
<1>7. JobsNameBackups'
  BY DEF StoreInv, JobsNameBackups, OnBackup
<1>8. ActiveTaskHoldsBackup'
  BY <1>3, <1>4 DEF StoreInv, ActiveTaskHoldsBackup, OnBackup, BackupHeld
<1>9. GenerationHeldByTask'
  BY <1>1, <1>3 DEF StoreInv, GenerationHeldByTask
<1>10. TakenBackupHasItsTask'
  <2> SUFFICES ASSUME NEW b \in Backups, backups'[b].status \in Taken
               PROVE  \E u \in Tasks : /\ tasks'[u].status \in Active
                                       /\ OnBackup(u) /\ jobs[u].backup = b
    BY DEF TakenBackupHasItsTask, OnBackup
  <2>1. /\ ~ \E t \in E : OnBackup(t) /\ jobs[t].backup = b
        /\ backups'[b] = backups[b]
    OBVIOUS
  <2>2. PICK u \in Tasks : tasks[u].status \in Active /\ OnBackup(u) /\ jobs[u].backup = b
    BY <2>1 DEF StoreInv, TakenBackupHasItsTask
  <2>3. u \notin E /\ tasks'[u] = tasks[u]
    BY <2>1, <2>2
  <2> QED
    BY <2>2, <2>3
<1>11. DeletionRemembers'
  <2>1. ASSUME NEW b \in Backups, backups'[b].status = "failed"
        PROVE  backups'[b].failure
    BY <2>1 DEF StoreInv, DeletionRemembers
  <2>2. ASSUME NEW u \in Tasks, tasks'[u].status \in Active, jobs[u].type = "backup-delete"
        PROVE  /\ jobs[u].prior \in {"ready", "failed"}
               /\ backups'[jobs[u].backup].failure = (jobs[u].prior = "failed")
    <3>1. OnBackup(u)
      BY <2>2 DEF OnBackup, BackupTypes
    <3> QED
      BY <1>3, <1>4, <2>2, <3>1 DEF StoreInv, DeletionRemembers
  <2> QED
    BY <2>1, <2>2 DEF DeletionRemembers
<1>12. EventsMatchTasks'
  <2> SUFFICES ASSUME NEW u \in Tasks
               PROVE  /\ events'[u].created = (IF tasks'[u].status = "absent" THEN 0 ELSE 1)
                      /\ events'[u].completed <= 1
                      /\ tasks'[u].status = "succeeded" => events'[u].completed = 1
                      /\ events'[u].completed = 1 => tasks'[u].status \in Terminal
    BY DEF EventsMatchTasks
  <2>1. CASE u \in E
    <3>1. /\ tasks[u].status # "absent" /\ tasks'[u].status # "absent"
          /\ tasks[u].status \notin Terminal /\ tasks'[u].status \in Terminal
      BY <2>1 DEF Active, Open, Terminal
    <3>2. events[u].completed \in Nat
      BY <1>1 DEF EventRow
    <3>3. /\ events[u].created = 1 /\ events[u].completed <= 1
          /\ events[u].completed # 1
      BY <3>1 DEF StoreInv, EventsMatchTasks
    <3>4. events[u].completed = 0
      BY <3>2, <3>3, BelowOne
    <3>5. /\ events'[u].created = 1
          /\ \/ events'[u].completed = 1
             \/ events'[u].completed = 0 /\ tasks'[u].status # "succeeded"
      BY <1>5, <2>1, <3>3, <3>4
    <3> QED
      BY <3>1, <3>5
  <2>2. CASE u \notin E
    BY <1>5, <2>2 DEF StoreInv, EventsMatchTasks
  <2> QED
    BY <2>1, <2>2
<1>13. UpgradeKnowsBundle'
  <2>1. \A t \in Tasks : tasks[t].status # "absent" => tasks'[t].status # "absent"
    BY DEF Terminal
  <2> QED
    BY <2>1 DEF StoreInv, UpgradeKnowsBundle
<1>14. ProvisionHasServer'
  BY <1>1, <1>3 DEF StoreInv, ProvisionHasServer
<1> QED
  BY <1>6, <1>7, <1>8, <1>9, <1>10, <1>11, <1>12, <1>13, <1>14 DEF StoreInv

-----------------------------------------------------------------------------
\* The empty store.
LEMMA StoreInitInv == StoreInit => StoreInv
<1> SUFFICES ASSUME StoreInit PROVE StoreInv
  OBVIOUS
<1>1. (CHOOSE s \in Servers : TRUE) \in Servers
  BY TaskLeaseAssumption
<1>2. LeaseTypeOK
  BY InitInv DEF StoreInit, LeaseInv
<1>3. \A t \in Tasks : tasks[t].status = "absent" /\ jobs[t] = NoJob
                       /\ events[t].created = 0 /\ events[t].completed = 0
  BY DEF StoreInit, LeaseInit
<1>4. \A b \in Backups : backups[b].status = "absent"
  BY DEF StoreInit
<1>5. jobs \in [Tasks -> JobRow]
  BY DEF StoreInit, NoJob, JobRow, Statuses
<1>6. StoreTypeOK
  BY <1>1, <1>2, <1>5 DEF StoreInit, StoreTypeOK, JobRow, Powers, Statuses
<1>7. JobsNameBackups
  BY <1>3 DEF JobsNameBackups, OnBackup, NoJob, BackupTypes
<1>8. /\ ActiveTaskHoldsBackup /\ GenerationHeldByTask /\ EventsMatchTasks
      /\ ProvisionHasServer
  BY <1>3 DEF ActiveTaskHoldsBackup, GenerationHeldByTask, EventsMatchTasks,
              ProvisionHasServer, Active, Open
<1>9. TakenBackupHasItsTask /\ DeletionRemembers
  BY <1>3, <1>4 DEF TakenBackupHasItsTask, DeletionRemembers, Taken, Active, Open
<1>10. UpgradeKnowsBundle
  BY DEF StoreInit, UpgradeKnowsBundle
<1> QED
  BY <1>6, <1>7, <1>8, <1>9, <1>10 DEF StoreInv

\* Every request that creates a task.
LEMMA RequestInv ==
    ASSUME StoreInv, LeaseInv, LeaseInv', NEW t \in Tasks, NEW s \in Servers, Request(t, s)
    PROVE  StoreInv'
<1> DEFINE row == servers[s]
<1>1. /\ servers \in [Servers -> ServerRow] /\ backups \in [Backups -> BackupRow]
      /\ history \in [Tasks -> HistoryStatuses] /\ row \in ServerRow
      /\ row.gen \in Nat /\ row.gen + 1 \in Nat
      /\ row.life # "absent" => row.bundle \in Bundles
  BY DEF StoreInv, StoreTypeOK, ServerRow, BackupRow, HistoryStatuses
<1>2. /\ "provision" \in TaskTypes /\ "reconcile" \in TaskTypes
      /\ \A action \in PowerActions : action \in TaskTypes
      /\ BackupTypes \subseteq TaskTypes
      /\ {"absent", "ready", "failed"} \subseteq Statuses
  BY DEF TaskTypes, BackupTypes, Statuses
<1>3. ASSUME NEW bundle \in Bundles, CreateServer(t, s, bundle)
      PROVE  StoreInv'
  <2> DEFINE new == [life |-> "provisioning", gen |-> 1, observed |-> "unknown",
                     bundle |-> bundle]
             job == Job("provision", 1, NoBackup, NoBundle, "absent")
  <2>1. /\ new \in ServerRow /\ new.gen = 1 /\ new.bundle \in Bundles
        /\ new.life = "provisioning"
    BY DEF ServerRow, Powers
  <2>2. job \in JobRow /\ job.gen = 1 /\ job.type = "provision"
    BY <1>2 DEF Job, JobRow
  <2>3. /\ servers' = [servers EXCEPT ![s] = new] /\ Enqueue(t, s, job)
        /\ backups' = backups /\ history' = history
    BY <1>3 DEF CreateServer
  <2> HIDE DEF new, job
  <2> QED
    BY <1>1, <2>1, <2>2, <2>3, BackupJobs, RequestKeepsInv
<1>4. ASSUME NEW action \in PowerActions, RequestPower(t, s, action)
      PROVE  StoreInv'
  <2> DEFINE new == [row EXCEPT !.gen = row.gen + 1,
                         !.observed = IF action = "start" THEN "starting" ELSE "stopping"]
             job == Job(action, row.gen + 1, NoBackup, NoBundle, "absent")
  <2>1. /\ new \in ServerRow /\ new.gen = row.gen + 1 /\ new.life = row.life
        /\ new.bundle = row.bundle
    BY <1>1 DEF ServerRow, Powers
  <2>2. job \in JobRow /\ job.gen = row.gen + 1 /\ job.type = action
    BY <1>1, <1>2 DEF Job, JobRow
  <2>3. /\ servers' = [servers EXCEPT ![s] = new] /\ Enqueue(t, s, job)
        /\ backups' = backups /\ history' = history
    BY <1>1, <1>4 DEF RequestPower, ServerRow
  <2>4. /\ job.type \notin BackupTypes /\ job.type # "backup-delete"
        /\ job.type # "provision"
    BY <2>2, BackupJobs, TaskStoreAssumption
  <2> HIDE DEF new, job
  <2> QED
    BY <1>1, <2>1, <2>2, <2>3, <2>4, RequestKeepsInv
<1>5. ASSUME RequestReconcile(t, s)
      PROVE  StoreInv'
  <2> DEFINE new == [row EXCEPT !.gen = row.gen + 1]
             job == Job("reconcile", row.gen + 1, NoBackup, NoBundle, "absent")
  <2>1. /\ new \in ServerRow /\ new.gen = row.gen + 1 /\ new.life = row.life
        /\ new.bundle = row.bundle
    BY <1>1 DEF ServerRow
  <2>2. job \in JobRow /\ job.gen = row.gen + 1 /\ job.type = "reconcile"
    BY <1>1, <1>2 DEF Job, JobRow
  <2>3. /\ servers' = [servers EXCEPT ![s] = new] /\ Enqueue(t, s, job)
        /\ backups' = backups /\ history' = history
    BY <1>1, <1>5 DEF RequestReconcile, ServerRow
  <2> HIDE DEF new, job
  <2> QED
    BY <1>1, <2>1, <2>2, <2>3, BackupJobs, RequestKeepsInv
<1>6. ASSUME NEW bundle \in Bundles, UpgradeServer(t, s, bundle)
      PROVE  StoreInv'
  <2> DEFINE new == [row EXCEPT !.gen = row.gen + 1, !.bundle = bundle]
             job == Job("reconcile", row.gen + 1, NoBackup, row.bundle, "absent")
  <2>1. /\ new \in ServerRow /\ new.gen = row.gen + 1 /\ new.bundle \in Bundles
    BY <1>1 DEF ServerRow
  <2>2. /\ job \in JobRow /\ job.gen = row.gen + 1 /\ job.type = "reconcile"
        /\ job.from \in Bundles
    <3>1. row.bundle \in Bundles
      BY <1>1, <1>6 DEF UpgradeServer
    <3> QED
      BY <1>1, <1>2, <3>1 DEF Job, JobRow
  <2>3. /\ servers' = [servers EXCEPT ![s] = new] /\ Enqueue(t, s, job)
        /\ backups' = backups
        /\ history' = [history EXCEPT ![t] = "reconciling"]
    BY <1>1, <1>6 DEF UpgradeServer, ServerRow
  <2>4. /\ history' \in [Tasks -> HistoryStatuses]
        /\ \A u \in Tasks : history'[u] = history[u] \/ u = t
    BY <1>1, <2>3 DEF HistoryStatuses
  <2> HIDE DEF new, job
  <2> QED
    BY <1>1, <2>1, <2>2, <2>3, <2>4, BackupJobs, RequestKeepsInv
<1>7. servers' = servers => servers' = [servers EXCEPT ![s] = row]
  BY <1>1
<1>8. ASSUME NEW b \in Backups, CreateBackup(t, s, b)
      PROVE  StoreInv'
  <2> DEFINE new == [status |-> "creating", server |-> s, failure |-> FALSE]
             job == Job("backup", row.gen, b, NoBundle, "absent")
  <2>1. /\ new \in BackupRow /\ new.status = "creating" /\ new.server = s
    BY DEF BackupRow, Statuses
  <2>2. job \in JobRow /\ job.gen = row.gen /\ job.type = "backup" /\ job.backup = b
    BY <1>1, <1>2, BackupJobs DEF Job, JobRow
  <2>3. /\ servers' = servers /\ Enqueue(t, s, job) /\ history' = history
        /\ backups' = [backups EXCEPT ![b] = new]
        /\ backups[b].status \notin Taken
    BY <1>8 DEF CreateBackup, Taken
  <2> HIDE DEF new, job
  <2>4. /\ backups' \in [Backups -> BackupRow]
        /\ backups'[b] = new
        /\ \A c \in Backups : backups'[c] = backups[c] \/ job.backup = c
    BY <1>1, <2>1, <2>2, <2>3
  <2> QED
    BY <1>1, <1>7, <2>1, <2>2, <2>3, <2>4, BackupJobs, RequestKeepsInv
<1>9. ASSUME NEW b \in Backups, RestoreBackup(t, s, b)
       PROVE  StoreInv'
  <2> DEFINE srow == [row EXCEPT !.gen = row.gen + 1]
             new == [backups[b] EXCEPT !.status = "restoring"]
             job == Job("restore", row.gen + 1, b, NoBundle, "ready")
  <2>1. /\ srow \in ServerRow /\ srow.gen = row.gen + 1 /\ srow.life = row.life
        /\ srow.bundle = row.bundle
    BY <1>1 DEF ServerRow
  <2>2. /\ new \in BackupRow /\ new.status = "restoring" /\ new.server = backups[b].server
    BY <1>1 DEF BackupRow, Statuses
  <2>3. job \in JobRow /\ job.gen = row.gen + 1 /\ job.type = "restore" /\ job.backup = b
    BY <1>1, <1>2, BackupJobs DEF Job, JobRow
  <2>4. /\ servers' = [servers EXCEPT ![s] = srow] /\ Enqueue(t, s, job)
        /\ history' = history
        /\ backups' = [backups EXCEPT ![b] = new]
        /\ backups[b].status \notin Taken /\ backups[b].server = s
    BY <1>1, <1>9 DEF RestoreBackup, Taken, ServerRow, BackupRow
  <2> HIDE DEF srow, new, job
  <2>5. /\ backups' \in [Backups -> BackupRow]
        /\ backups'[b] = new
        /\ \A c \in Backups : backups'[c] = backups[c] \/ job.backup = c
    BY <1>1, <2>2, <2>3, <2>4
  <2>6. /\ job.type \in BackupTypes /\ job.type # "backup-delete"
        /\ job.type # "provision"
        /\ backups'[job.backup].server = s
        /\ backups'[job.backup].status = Transient[job.type]
        /\ backups[job.backup].status \notin Taken
    BY <2>2, <2>3, <2>4, <2>5, BackupJobs
  <2>7. history' \in [Tasks -> HistoryStatuses]
    BY <1>1, <2>4
  <2>8. srow.gen = job.gen /\ (srow.life # "absent" => srow.bundle \in Bundles)
    BY <1>1, <2>1, <2>3
  <2> QED
    BY <2>1, <2>3, <2>4, <2>5, <2>6, <2>7, <2>8, RequestKeepsInv
<1>10. ASSUME NEW b \in Backups, DeleteBackup(t, s, b)
       PROVE  StoreInv'
  <2> DEFINE was == backups[b].status
             new == [backups[b] EXCEPT !.status = "deleting",
                         !.failure = (was = "failed") /\ backups[b].failure]
             job == Job("backup-delete", row.gen, b, NoBundle, was)
  <2>1. was \in {"ready", "failed"} /\ backups[b].server = s
    BY <1>10 DEF DeleteBackup
  <2>2. backups[b] \in BackupRow /\ backups[b].failure \in BOOLEAN
    BY <1>1 DEF BackupRow
  <2>3. was = "failed" => backups[b].failure
    BY DEF StoreInv, DeletionRemembers
  <2>4. /\ new \in BackupRow /\ new.status = "deleting" /\ new.server = backups[b].server
        /\ new.failure = ((was = "failed") /\ backups[b].failure)
    BY <2>2 DEF BackupRow, Statuses
  <2>5. new.failure = (was = "failed")
    BY <2>2, <2>3, <2>4
  <2>6. /\ job \in JobRow /\ job.gen = row.gen /\ job.type = "backup-delete"
        /\ job.backup = b /\ job.prior = was
    BY <1>1, <1>2, <2>1, BackupJobs DEF Job, JobRow
  <2>7. /\ servers' = servers /\ Enqueue(t, s, job) /\ history' = history
        /\ backups' = [backups EXCEPT ![b] = new]
    BY <1>1, <1>10 DEF DeleteBackup, BackupRow
  <2>8. was \notin Taken
    BY <2>1 DEF Taken
  <2> HIDE DEF was, new, job
  <2>9. /\ backups' \in [Backups -> BackupRow]
        /\ backups'[b] = new
        /\ \A c \in Backups : backups'[c] = backups[c] \/ job.backup = c
    BY <1>1, <2>4, <2>6, <2>7
  <2> QED
    BY <1>1, <1>7, <2>1, <2>4, <2>5, <2>6, <2>7, <2>8, <2>9, BackupJobs, RequestKeepsInv
       DEF was
<1> QED
  BY <1>3, <1>4, <1>5, <1>6, <1>8, <1>9, <1>10 DEF Request

\* The steps that concern a row alone move it among the active statuses.
LEMMA LeaseStepIsQuiet ==
    ASSUME LeaseInv, LeaseStep
    PROVE  \A t \in Tasks : /\ tasks'[t].server = tasks[t].server
                            /\ tasks'[t].status \in Active <=> tasks[t].status \in Active
                            /\ tasks[t].status \notin Active =>
                                  tasks'[t].status = tasks[t].status
<1>1. tasks \in [Tasks -> Row]
  BY DEF LeaseInv, LeaseTypeOK
<1>2. /\ Active \subseteq {"absent"} \cup Active \cup Terminal /\ Open \subseteq Active
      /\ "queued" \in {"absent"} \cup Active \cup Terminal
      /\ "queued" \in Active /\ "leased" \in Active /\ "running" \in Active
  BY DEF Active, Open
<1>3. ASSUME NEW u \in Tasks, NEW new, tasks' = [tasks EXCEPT ![u] = new],
             new.server = tasks[u].server, new.status \in Active, tasks[u].status \in Active
      PROVE  \A t \in Tasks : /\ tasks'[t].server = tasks[t].server
                              /\ tasks'[t].status \in Active <=> tasks[t].status \in Active
                              /\ tasks[t].status \notin Active =>
                                    tasks'[t].status = tasks[t].status
  BY <1>1, <1>3
<1>4. CASE \E t \in Tasks, e \in Epochs : ClaimTask(t, e)
  <2>1. PICK t \in Tasks, e \in Epochs : ClaimTask(t, e)
    BY <1>4
  <2> DEFINE new == Claimed(tasks[t], tasks[t].attempt + 1, minted + 1, e)
  <2>2. /\ tasks' = [tasks EXCEPT ![t] = new] /\ tasks[t].status = "queued"
        /\ tasks[t] \in Row /\ minted + 1 \in Nat
        /\ tasks[t].attempt + 1 \in 0..MaxAttempts
    BY <1>1, <2>1, TaskLeaseAssumption DEF ClaimTask, Claimed, LeaseInv, LeaseTypeOK, Row
  <2>3. new.server = tasks[t].server /\ new.status = "leased"
    BY <2>2, ClaimedRow
  <2> HIDE DEF new
  <2> QED
    BY <1>2, <1>3, <2>2, <2>3
<1>5. CASE \E f \in Presented :
             AckAccepted(f) \/ ReportTaskProgress(f) \/ RenewTaskLease(f)
  <2>1. PICK f \in Presented :
          AckAccepted(f) \/ ReportTaskProgress(f) \/ RenewTaskLease(f)
    BY <1>5
  <2>2. f.task \in Tasks /\ tasks[f.task] \in Row
    BY <1>1, PresentedType DEF LeaseInv
  <2>3. tasks[f.task].status \in Open
    BY <2>1 DEF AckAccepted, ReportTaskProgress, RenewTaskLease, Touches, Open
  <2>4. PICK status \in Open : tasks' = [tasks EXCEPT ![f.task] = Renewed(tasks[f.task], status)]
    BY <2>1, <2>3 DEF AckAccepted, ReportTaskProgress, RenewTaskLease, Open
  <2>5. /\ Renewed(tasks[f.task], status).server = tasks[f.task].server
        /\ Renewed(tasks[f.task], status).status = status
    BY <1>2, <2>2, RowUpdates
  <2> QED
    BY <1>2, <1>3, <2>2, <2>3, <2>4, <2>5
<1>6. CASE \E t \in Tasks : LeaseLapses(t)
  <2>1. PICK t \in Tasks : LeaseLapses(t)
    BY <1>6
  <2> DEFINE new == [tasks[t] EXCEPT !.expired = TRUE]
  <2>2. tasks' = [tasks EXCEPT ![t] = new] /\ tasks[t].status \in Open
    BY <1>1, <2>1 DEF LeaseLapses
  <2>3. new.server = tasks[t].server /\ new.status = tasks[t].status
    BY <1>1 DEF Row
  <2> HIDE DEF new
  <2> QED
    BY <1>2, <1>3, <2>2, <2>3
<1>7. CASE RequeueLapsed
  <2> SUFFICES ASSUME NEW t \in Tasks
               PROVE  /\ tasks'[t].server = tasks[t].server
                      /\ tasks'[t].status \in Active <=> tasks[t].status \in Active
                      /\ tasks[t].status \notin Active => tasks'[t].status = tasks[t].status
    OBVIOUS
  <2>1. CASE t \in Lapsed \ Exhausted
    <3>1. /\ tasks'[t] = Released(tasks[t], "queued") /\ tasks[t] \in Row
          /\ tasks[t].status = "leased"
      BY <1>1, <1>7, <2>1 DEF RequeueLapsed, Lapsed
    <3>2. /\ Released(tasks[t], "queued").server = tasks[t].server
          /\ Released(tasks[t], "queued").status = "queued"
      BY <3>1 DEF Released, Row
    <3> QED
      BY <1>2, <3>1, <3>2
  <2>2. CASE t \notin Lapsed \ Exhausted
    BY <1>7, <2>2 DEF RequeueLapsed
  <2> QED
    BY <2>1, <2>2
<1> QED
  BY <1>4, <1>5, <1>6, <1>7 DEF LeaseStep

\* What the end of a task makes of its server: a row with the same generation.
LEMMA ServerAfterRow ==
    ASSUME StoreInv, NEW t \in Tasks, NEW ok \in BOOLEAN, tasks[t].status \in Active
    PROVE  LET row == servers[tasks[t].server]
               new == ServerAfter(t, ok) IN
           /\ new \in ServerRow /\ new.gen = row.gen
           /\ new.life = "absent" => row.life = "absent"
           /\ new.life # "absent" => new.bundle \in Bundles
<1> DEFINE row == servers[tasks[t].server]
           new == ServerAfter(t, ok)
<1>1. tasks[t].server \in Servers
  BY DEF StoreInv, StoreTypeOK, LeaseTypeOK, Row
<1>2. row \in ServerRow /\ (row.life # "absent" => row.bundle \in Bundles)
  BY <1>1 DEF StoreInv, StoreTypeOK, ServerRow
<1>3. history[t] = "reconciling" => jobs[t].from \in Bundles
  BY DEF StoreInv, UpgradeKnowsBundle
<1>4. jobs[t].type = "provision" => row.life # "absent"
  BY DEF StoreInv, ProvisionHasServer
<1>5. \/ new = [row EXCEPT !.life = "ready"] /\ jobs[t].type = "provision"
      \/ new = [row EXCEPT !.observed = "stopped"]
      \/ new = [row EXCEPT !.bundle = jobs[t].from] /\ history[t] = "reconciling"
      \/ new = row
  BY DEF ServerAfter
<1> HIDE DEF row, new
<1>6. /\ new \in ServerRow /\ new.gen = row.gen
      /\ new.life = "absent" => row.life = "absent"
      /\ new.life # "absent" => new.bundle \in Bundles
  BY <1>2, <1>3, <1>4, <1>5 DEF ServerRow, Powers
<1> QED
  BY <1>6 DEF row, new

\* What the end of a task makes of its backup: it is given up or settled, as the
\* state machine of recovery points allows, and a failed deletion gives back the
\* status the backup had.
LEMMA BackupAfterTask ==
    ASSUME StoreInv, NEW t \in Tasks, tasks[t].status \in Active, OnBackup(t)
    PROVE  /\ jobs[t].backup \in Backups
           /\ Compensated(t) \in BackupRow /\ Concluded(t) \in BackupRow
           /\ Compensated(t).server = backups[jobs[t].backup].server
           /\ Concluded(t).server = backups[jobs[t].backup].server
           /\ Compensated(t).status \in {"ready", "failed"} /\ Compensated(t).failure
           /\ Concluded(t).status \in {"ready", "deleted"}
           /\ jobs[t].type = "backup-delete" => Compensated(t).status = jobs[t].prior
           /\ Recovery!BackupStatusTransitionAllowed(
                  backups[jobs[t].backup].status, Compensated(t).status)
           /\ Recovery!BackupStatusTransitionAllowed(
                  backups[jobs[t].backup].status, Concluded(t).status)
<1> DEFINE b == backups[jobs[t].backup]
<1>1. jobs[t].backup \in Backups
  BY DEF StoreInv, JobsNameBackups
<1>2. b \in BackupRow /\ b.failure \in BOOLEAN
  BY <1>1 DEF StoreInv, StoreTypeOK, BackupRow
<1>3. /\ jobs[t].type \in {"backup", "restore", "backup-delete"}
      /\ b.status = Transient[jobs[t].type]
  BY DEF StoreInv, ActiveTaskHoldsBackup, BackupHeld, OnBackup, BackupTypes
<1>4. jobs[t].type = "backup-delete" =>
        jobs[t].prior \in {"ready", "failed"} /\ b.failure = (jobs[t].prior = "failed")
  BY DEF StoreInv, DeletionRemembers
<1> DEFINE given == CASE jobs[t].type = "backup" -> "failed"
                      [] jobs[t].type = "restore" -> "ready"
                      [] OTHER -> IF b.failure THEN "failed" ELSE "ready"
           settled == IF jobs[t].type = "backup-delete" THEN "deleted" ELSE "ready"
<1>5. /\ Compensated(t) = [b EXCEPT !.status = given, !.failure = TRUE]
      /\ Concluded(t) = [b EXCEPT !.status = settled, !.failure = FALSE]
  BY DEF Compensated, Concluded
<1>6. given \in {"ready", "failed"} /\ settled \in {"ready", "deleted"}
  BY <1>3
<1>7. jobs[t].type = "backup-delete" => given = jobs[t].prior
  BY <1>4
<1>8. /\ Recovery!BackupStatusTransitionAllowed(b.status, given)
      /\ Recovery!BackupStatusTransitionAllowed(b.status, settled)
  BY <1>3, <1>6, BackupJobs DEF Recovery!BackupStatusTransitionAllowed
<1> HIDE DEF b, given, settled
<1>9. /\ Compensated(t) \in BackupRow /\ Concluded(t) \in BackupRow
      /\ Compensated(t).server = b.server /\ Concluded(t).server = b.server
      /\ Compensated(t).status = given /\ Concluded(t).status = settled
      /\ Compensated(t).failure
  BY <1>2, <1>5, <1>6 DEF BackupRow, Statuses
<1> QED
  BY <1>1, <1>6, <1>7, <1>8, <1>9 DEF b

\* A result, good or bad: what CompleteTask does to the rows around the task.
LEMMA CompleteEffects ==
    ASSUME StoreInv, LeaseInv, NEW f \in Presented, NEW succeeded \in BOOLEAN,
           NEW valid \in BOOLEAN, Complete(f, succeeded, valid)
    PROVE  LET t == f.task IN
           /\ t \in Tasks /\ tasks[t].status \in Active /\ tasks'[t].status \in Terminal
           /\ \A u \in Tasks \ {t} : tasks'[u] = tasks[u]
           /\ OnBackup(t) =>
                 backups' = [backups EXCEPT ![jobs[t].backup] =
                     IF tasks'[t].status = "succeeded" THEN Concluded(t) ELSE Compensated(t)]
           /\ ~OnBackup(t) => backups' = backups
           /\ \E ok \in BOOLEAN :
                 servers' = [servers EXCEPT ![tasks[t].server] = ServerAfter(t, ok)]
<1> DEFINE t == f.task
           ok == succeeded /\ (jobs[t].type = "backup" => valid)
           end == IF ok THEN "succeeded" ELSE "failed"
<1>1. t \in Tasks
  BY PresentedType DEF LeaseInv
<1>2. ok \in BOOLEAN
  OBVIOUS
<1>3. /\ CompleteTask(f, ok)
      /\ servers' = [servers EXCEPT ![tasks[t].server] = ServerAfter(t, ok)]
      /\ backups' = IF OnBackup(t)
                    THEN [backups EXCEPT ![jobs[t].backup] =
                              IF ok THEN Concluded(t) ELSE Compensated(t)]
                    ELSE backups
  BY DEF Complete
<1> HIDE DEF ok
<1>4. /\ tasks[t].status \in Open
      /\ tasks' = [tasks EXCEPT ![t] = Released(tasks[t], end)]
  BY <1>3 DEF CompleteTask, Touches
<1>5. tasks \in [Tasks -> Row] /\ tasks[t] \in Row
  BY <1>1 DEF LeaseInv, LeaseTypeOK
<1>6. /\ tasks'[t].status = end /\ \A u \in Tasks \ {t} : tasks'[u] = tasks[u]
  BY <1>1, <1>4, <1>5 DEF Released, Row
<1>7. end \in Terminal /\ (end = "succeeded" <=> ok)
  BY <1>2 DEF Terminal
<1> QED
  BY <1>1, <1>2, <1>3, <1>4, <1>6, <1>7 DEF Active

\* A result keeps the invariant.
LEMMA CompleteInv ==
    ASSUME StoreInv, LeaseInv, LeaseInv', NEW f \in Presented, NEW succeeded \in BOOLEAN,
           NEW valid \in BOOLEAN, Complete(f, succeeded, valid)
    PROVE  StoreInv'
<1> DEFINE t == f.task
<1>1. /\ t \in Tasks /\ tasks[t].status \in Active /\ tasks'[t].status \in Terminal
      /\ \A u \in Tasks \ {t} : tasks'[u] = tasks[u]
      /\ OnBackup(t) =>
            backups' = [backups EXCEPT ![jobs[t].backup] =
                IF tasks'[t].status = "succeeded" THEN Concluded(t) ELSE Compensated(t)]
      /\ ~OnBackup(t) => backups' = backups
  BY CompleteEffects
<1>2. PICK ok \in BOOLEAN :
        servers' = [servers EXCEPT ![tasks[t].server] = ServerAfter(t, ok)]
  BY CompleteEffects
<1>3. /\ servers \in [Servers -> ServerRow] /\ backups \in [Backups -> BackupRow]
      /\ history \in [Tasks -> HistoryStatuses] /\ tasks[t].server \in Servers
      /\ \A s \in Servers : servers[s].life # "absent" => servers[s].bundle \in Bundles
  BY <1>1 DEF StoreInv, StoreTypeOK, LeaseTypeOK, ServerRow, BackupRow, HistoryStatuses, Row
<1>4. /\ servers' \in [Servers -> ServerRow]
      /\ \A s \in Servers : /\ servers'[s].gen = servers[s].gen
                            /\ servers'[s].life = "absent" => servers[s].life = "absent"
                            /\ servers'[s].life # "absent" => servers'[s].bundle \in Bundles
  BY <1>1, <1>2, <1>3, ServerAfterRow
<1>5. /\ UNCHANGED jobs /\ events' = CompletedEvent({t})
      /\ history' = IF history[t] = "reconciling"
                    THEN [history EXCEPT ![t] = IF succeeded /\ (jobs[t].type = "backup" => valid)
                                                THEN "applied" ELSE "rolled-back"]
                    ELSE history
  BY DEF Complete
<1>6. /\ history' \in [Tasks -> HistoryStatuses]
      /\ \A u \in Tasks : history'[u] # "none" => history[u] # "none"
  BY <1>1, <1>3, <1>5 DEF HistoryStatuses
<1>7. /\ backups' \in [Backups -> BackupRow]
      /\ \A b \in Backups :
           IF \E u \in {t} : OnBackup(u) /\ jobs[u].backup = b
           THEN /\ backups'[b].status \notin Taken
                /\ backups'[b].server = backups[b].server
                /\ backups'[b].status = "failed" => backups'[b].failure
           ELSE backups'[b] = backups[b]
  <2>1. CASE ~OnBackup(t)
    BY <1>1, <1>3, <2>1
  <2>2. CASE OnBackup(t)
    <3> DEFINE new == IF tasks'[t].status = "succeeded" THEN Concluded(t) ELSE Compensated(t)
    <3>1. /\ jobs[t].backup \in Backups /\ new \in BackupRow
          /\ new.server = backups[jobs[t].backup].server
          /\ new.status \in {"ready", "failed", "deleted"}
          /\ new.status = "failed" => new.failure
      BY <1>1, <2>2, BackupAfterTask
    <3>2. backups' = [backups EXCEPT ![jobs[t].backup] = new]
      BY <1>1, <2>2
    <3> HIDE DEF new
    <3>3. {"ready", "failed", "deleted"} \cap Taken = {}
      BY DEF Taken
    <3> QED
      BY <1>3, <2>2, <3>1, <3>2, <3>3
  <2> QED
    BY <2>1, <2>2
<1> QED
  BY <1>1, <1>4, <1>5, <1>6, <1>7, EndKeepsInv

\* A rejected TaskAck ends its row and nothing else; it is never that of a task on
\* a backup, which would stay taken.
LEMMA RejectEffects ==
    ASSUME LeaseInv, NEW f \in Presented, Reject(f)
    PROVE  /\ f.task \in Tasks /\ tasks[f.task].status \in Active
           /\ tasks'[f.task].status = "failed" /\ ~OnBackup(f.task)
           /\ \A u \in Tasks \ {f.task} : tasks'[u] = tasks[u]
           /\ UNCHANGED <<servers, backups, jobs, history, events>>
<1>1. f.task \in Tasks /\ tasks \in [Tasks -> Row]
  BY PresentedType DEF LeaseInv, LeaseTypeOK
<1>2. /\ tasks[f.task].status \in Open /\ UNCHANGED storeVars
      /\ tasks' = [tasks EXCEPT ![f.task] = Released(tasks[f.task], "failed")]
      /\ jobs[f.task].type \in Rejectable
  BY DEF Reject, AckRejected, Touches
<1>3. ~OnBackup(f.task)
  BY <1>2, TaskStoreAssumption DEF OnBackup, BackupTypes
<1>4. tasks[f.task] \in Row
  BY <1>1
<1>5. Released(tasks[f.task], "failed").status = "failed"
  BY <1>4 DEF Released, Row
<1> QED
  BY <1>1, <1>2, <1>3, <1>5 DEF Active, storeVars

\* A rejection keeps the invariant.
LEMMA RejectInv ==
    ASSUME StoreInv, LeaseInv, LeaseInv', NEW f \in Presented, Reject(f)
    PROVE  StoreInv'
<1> DEFINE t == f.task
<1>1. /\ t \in Tasks /\ tasks[t].status \in Active /\ tasks'[t].status = "failed"
      /\ ~OnBackup(t) /\ \A u \in Tasks \ {t} : tasks'[u] = tasks[u]
      /\ UNCHANGED <<servers, backups, jobs, history, events>>
  BY RejectEffects
<1>2. /\ servers \in [Servers -> ServerRow] /\ backups \in [Backups -> BackupRow]
      /\ history \in [Tasks -> HistoryStatuses]
      /\ \A s \in Servers : servers[s].life # "absent" => servers[s].bundle \in Bundles
  BY DEF StoreInv, StoreTypeOK, ServerRow, BackupRow, HistoryStatuses
<1>3. PICK E \in SUBSET Tasks : E = {t}
  BY <1>1
<1> HIDE DEF t
<1>4. \A u \in E : tasks[u].status \in Active /\ tasks'[u].status \in Terminal
  BY <1>1, <1>3 DEF Terminal
<1>5. \/ events' = CompletedEvent(E)
      \/ events' = events /\ \A u \in E : tasks'[u].status # "succeeded"
  BY <1>1, <1>3
<1>6. \A u \in Tasks \ E : tasks'[u] = tasks[u]
  BY <1>1, <1>3
<1>7. \A b \in Backups :
         IF \E u \in E : OnBackup(u) /\ jobs[u].backup = b
         THEN /\ backups'[b].status \notin Taken
              /\ backups'[b].server = backups[b].server
              /\ backups'[b].status = "failed" => backups'[b].failure
         ELSE backups'[b] = backups[b]
  BY <1>1, <1>3
<1>8. /\ servers' \in [Servers -> ServerRow] /\ backups' \in [Backups -> BackupRow]
      /\ history' \in [Tasks -> HistoryStatuses] /\ UNCHANGED jobs
      /\ \A s \in Servers : /\ servers'[s].gen = servers[s].gen
                            /\ servers'[s].life = "absent" => servers[s].life = "absent"
                            /\ servers'[s].life # "absent" => servers'[s].bundle \in Bundles
      /\ \A u \in Tasks : history'[u] # "none" => history[u] # "none"
  BY <1>1, <1>2
<1> QED
  BY <1>4, <1>5, <1>6, <1>7, <1>8, EndKeepsInv

\* The reconciler gives up exhausted tasks, each backup by its own task.
LEMMA ExhaustedEffects ==
    ASSUME StoreInv, LeaseInv, FailExhaustedTasks
    PROVE  /\ Exhausted \subseteq Tasks
           /\ \A t \in Exhausted :
                /\ tasks[t].status \in Active /\ tasks'[t].status = "failed"
                /\ OnBackup(t) => backups'[jobs[t].backup] = Compensated(t)
           /\ \A t \in Tasks \ Exhausted : tasks'[t] = tasks[t]
           /\ backups' = [b \in Backups |-> backups'[b]]
           /\ \A b \in Backups : backups'[b] # backups[b] =>
                \E t \in Exhausted : OnBackup(t) /\ jobs[t].backup = b
<1>1. /\ FailExhausted
      /\ backups' = [b \in Backups |->
             IF \E t \in Exhausted : OnBackup(t) /\ jobs[t].backup = b
             THEN Compensated(CHOOSE t \in Exhausted : OnBackup(t) /\ jobs[t].backup = b)
             ELSE backups[b]]
  BY DEF FailExhaustedTasks
<1>2. Exhausted \subseteq Tasks /\ \A t \in Exhausted : tasks[t].status \in Active
  BY DEF Exhausted, Lapsed, Active, Open
<1>3. tasks \in [Tasks -> Row]
  BY DEF LeaseInv, LeaseTypeOK
<1>4. ASSUME NEW t \in Exhausted
      PROVE  tasks'[t].status = "failed"
  <2>1. tasks'[t] = Released(tasks[t], "failed") /\ tasks[t] \in Row
    BY <1>1, <1>2, <1>3 DEF FailExhausted
  <2> QED
    BY <2>1 DEF Released, Row
<1>5. ASSUME NEW t \in Exhausted, OnBackup(t)
      PROVE  backups'[jobs[t].backup] = Compensated(t)
  <2> DEFINE P(u) == OnBackup(u) /\ jobs[u].backup = jobs[t].backup
             c == CHOOSE u \in Exhausted : P(u)
  <2>1. c \in Exhausted /\ P(c)
    BY <1>5
  <2>2. c = t
    BY <1>2, <1>5, <2>1, OneTaskPerBackup DEF StoreInv, LeaseInv
  <2>3. jobs[t].backup \in Backups
    BY <1>2, <1>5 DEF StoreInv, JobsNameBackups
  <2>4. backups'[jobs[t].backup] = Compensated(c)
    BY <1>1, <1>5, <2>3
  <2> QED
    BY <2>2, <2>4
<1> QED
  BY <1>1, <1>2, <1>4, <1>5 DEF FailExhausted

\* The failing half of the reconciler keeps the invariant.
LEMMA ExhaustedInv ==
    ASSUME StoreInv, LeaseInv, LeaseInv', FailExhaustedTasks
    PROVE  StoreInv'
<1>1. /\ servers \in [Servers -> ServerRow] /\ backups \in [Backups -> BackupRow]
      /\ history \in [Tasks -> HistoryStatuses]
      /\ \A s \in Servers : servers[s].life # "absent" => servers[s].bundle \in Bundles
  BY DEF StoreInv, StoreTypeOK, ServerRow, BackupRow, HistoryStatuses
<1>2. UNCHANGED <<servers, jobs, history>> /\ events' = CompletedEvent(Exhausted)
  BY DEF FailExhaustedTasks
<1>3. ASSUME NEW b \in Backups
      PROVE  /\ backups'[b] \in BackupRow
             /\ IF \E t \in Exhausted : OnBackup(t) /\ jobs[t].backup = b
                THEN /\ backups'[b].status \notin Taken
                     /\ backups'[b].server = backups[b].server
                     /\ backups'[b].status = "failed" => backups'[b].failure
                ELSE backups'[b] = backups[b]
  <2>1. CASE \E t \in Exhausted : OnBackup(t) /\ jobs[t].backup = b
    <3>1. PICK t \in Exhausted : OnBackup(t) /\ jobs[t].backup = b
      BY <2>1
    <3>2. t \in Tasks /\ tasks[t].status \in Active /\ backups'[b] = Compensated(t)
      BY <3>1, ExhaustedEffects
    <3>3. {"ready", "failed"} \cap Taken = {}
      BY DEF Taken
    <3> QED
      BY <2>1, <3>1, <3>2, <3>3, BackupAfterTask
  <2>2. CASE ~ \E t \in Exhausted : OnBackup(t) /\ jobs[t].backup = b
    BY <1>1, <2>2, ExhaustedEffects
  <2> QED
    BY <2>1, <2>2
<1>4. backups' \in [Backups -> BackupRow]
  BY <1>3, ExhaustedEffects
<1>5. "failed" \in Terminal
  BY DEF Terminal
<1>6. /\ Exhausted \in SUBSET Tasks
      /\ \A t \in Exhausted : tasks[t].status \in Active /\ tasks'[t].status \in Terminal
      /\ \A t \in Tasks \ Exhausted : tasks'[t] = tasks[t]
  BY <1>5, ExhaustedEffects
<1> QED
  BY <1>1, <1>2, <1>3, <1>4, <1>6, EndKeepsInv

\* Every step of the store keeps the invariant.
LEMMA StoreStepInv ==
    ASSUME StoreInv, LeaseInv, LeaseInv', [Next]_vars
    PROVE  StoreInv'
<1>1. /\ servers \in [Servers -> ServerRow]
      /\ \A s \in Servers : servers[s].life # "absent" => servers[s].bundle \in Bundles
  BY DEF StoreInv, StoreTypeOK, ServerRow
<1>2. CASE UNCHANGED vars
  BY <1>1, <1>2, QuietStoreStep DEF vars
<1>3. CASE \E t \in Tasks, s \in Servers : Request(t, s)
  BY <1>3, RequestInv
<1>4. CASE \E s \in Servers, power \in Reported : UpdateServerObserved(s, power)
  <2>1. PICK s \in Servers, power \in Reported : UpdateServerObserved(s, power)
    BY <1>4
  <2> DEFINE new == [servers[s] EXCEPT !.observed = power]
  <2>2. /\ servers' = [servers EXCEPT ![s] = new]
        /\ UNCHANGED <<tasks, granted, minted, backups, jobs, history, events>>
    BY <1>1, <2>1 DEF UpdateServerObserved
  <2>3. /\ new \in ServerRow /\ new.gen = servers[s].gen /\ new.life = servers[s].life
        /\ new.bundle = servers[s].bundle
    BY <1>1 DEF ServerRow, Reported, Powers
  <2> HIDE DEF new
  <2>4. /\ servers' \in [Servers -> ServerRow]
        /\ \A r \in Servers : /\ servers'[r].gen = servers[r].gen
                              /\ servers'[r].life = servers[r].life
                              /\ servers'[r].bundle = servers[r].bundle
    BY <1>1, <2>2, <2>3
  <2> QED
    BY <1>1, <2>2, <2>4, QuietStoreStep
<1>5. CASE LeaseStep
  <2>1. UNCHANGED <<servers, backups, jobs, history, events>>
    BY <1>5 DEF LeaseStep, storeVars
  <2> QED
    BY <1>1, <1>5, <2>1, LeaseStepIsQuiet, QuietStoreStep
<1>6. CASE \E f \in Presented, succeeded, valid \in BOOLEAN : Complete(f, succeeded, valid)
  BY <1>6, CompleteInv
<1>7. CASE \E f \in Presented : Reject(f)
  BY <1>7, RejectInv
<1>8. CASE FailExhaustedTasks
  BY <1>8, ExhaustedInv
<1> QED
  BY <1>2, <1>3, <1>4, <1>5, <1>6, <1>7, <1>8 DEF Next, Request

-----------------------------------------------------------------------------
\* The invariants of rows and objects hold in every reachable state of the store.
THEOREM StoreInvariant == Spec => [](LeaseInv /\ StoreInv)
<1>1. Spec => []LeaseInv
  BY StoreImplementsLease, LeaseInvariant, PTL
<1>2. StoreInit => StoreInv
  BY StoreInitInv
<1>3. LeaseInv /\ LeaseInv' /\ StoreInv /\ [Next]_vars => StoreInv'
  BY StoreStepInv
<1> QED
  BY <1>1, <1>2, <1>3, PTL DEF Spec

\* The rows of the store keep the values its schema allows.
THEOREM StoreTypeCorrect == Spec => []StoreTypeOK
<1>1. StoreInv => StoreTypeOK
  BY DEF StoreInv
<1> QED
  BY <1>1, StoreInvariant, PTL

\* CompleteTask and the reconciler are never rolled back for good: a task in
\* progress holds its backup and its server's generation, and every backup in a
\* transient status has the task that will take it out of it.
THEOREM TasksHoldObjects == Spec => []TaskHoldsItsObjects
<1>1. StoreInv => TaskHoldsItsObjects
  <2> SUFFICES ASSUME StoreInv
               PROVE  TakenBackupHasTask
    BY DEF StoreInv, TaskHoldsItsObjects
  <2>1. ASSUME NEW b \in Backups, backups[b].status \in {"creating", "restoring", "deleting"}
        PROVE  \E t \in Tasks : /\ tasks[t].status \in Active
                                /\ jobs[t].backup = b
                                /\ backups[b].status = Transient[jobs[t].type]
    <3>1. PICK t \in Tasks : tasks[t].status \in Active /\ OnBackup(t) /\ jobs[t].backup = b
      BY <2>1 DEF StoreInv, TakenBackupHasItsTask, Taken
    <3>2. BackupHeld(t)
      BY <3>1 DEF StoreInv, ActiveTaskHoldsBackup
    <3> QED
      BY <3>1, <3>2 DEF BackupHeld
  <2> QED
    BY <2>1 DEF TakenBackupHasTask
<1> QED
  BY <1>1, StoreInvariant, PTL

\* The outbox and the rows agree after every transaction.
THEOREM EventsComplete == Spec => []EventsMatchTasks
<1>1. StoreInv => EventsMatchTasks
  BY DEF StoreInv
<1> QED
  BY <1>1, StoreInvariant, PTL

-----------------------------------------------------------------------------
(* What a step does to the backups.                                          *)

\* A request marks at most one backup, and only as the state machine allows.
LEMMA RequestMovesBackups ==
    ASSUME StoreInv, NEW t \in Tasks, NEW s \in Servers, Request(t, s)
    PROVE  \A b \in Backups : Recovery!BackupStatusTransitionAllowed(
               backups[b].status, backups'[b].status)
<1>1. backups \in [Backups -> BackupRow]
  BY DEF StoreInv, StoreTypeOK, BackupRow
<1>2. CASE backups' = backups
  BY <1>2 DEF Recovery!BackupStatusTransitionAllowed
<1>3. ASSUME NEW b \in Backups, CreateBackup(t, s, b)
      PROVE  \A c \in Backups : Recovery!BackupStatusTransitionAllowed(
                 backups[c].status, backups'[c].status)
  BY <1>1, <1>3 DEF CreateBackup, Recovery!BackupStatusTransitionAllowed
<1>4. ASSUME NEW b \in Backups, RestoreBackup(t, s, b)
      PROVE  \A c \in Backups : Recovery!BackupStatusTransitionAllowed(
                 backups[c].status, backups'[c].status)
  BY <1>1, <1>4 DEF RestoreBackup, Recovery!BackupStatusTransitionAllowed, BackupRow
<1>5. ASSUME NEW b \in Backups, DeleteBackup(t, s, b)
      PROVE  \A c \in Backups : Recovery!BackupStatusTransitionAllowed(
                 backups[c].status, backups'[c].status)
  BY <1>1, <1>5 DEF DeleteBackup, Recovery!BackupStatusTransitionAllowed, BackupRow
<1> QED
  BY <1>2, <1>3, <1>4, <1>5
     DEF Request, CreateServer, RequestPower, RequestReconcile, UpgradeServer

\* Every step moves every backup as the state machine allows.
LEMMA StepMovesBackups ==
    ASSUME StoreInv, LeaseInv, [Next]_vars
    PROVE  \A b \in Backups : Recovery!BackupStatusTransitionAllowed(
               backups[b].status, backups'[b].status)
<1>1. CASE backups' = backups
  BY <1>1 DEF Recovery!BackupStatusTransitionAllowed
<1>2. CASE \E t \in Tasks, s \in Servers : Request(t, s)
  BY <1>2, RequestMovesBackups
<1>3. ASSUME NEW f \in Presented, NEW succeeded \in BOOLEAN, NEW valid \in BOOLEAN,
             Complete(f, succeeded, valid), NEW b \in Backups
      PROVE  Recovery!BackupStatusTransitionAllowed(backups[b].status, backups'[b].status)
  <2> DEFINE t == f.task
             new == IF tasks'[t].status = "succeeded" THEN Concluded(t) ELSE Compensated(t)
  <2>1. /\ t \in Tasks /\ tasks[t].status \in Active
        /\ OnBackup(t) => backups' = [backups EXCEPT ![jobs[t].backup] = new]
        /\ ~OnBackup(t) => backups' = backups
    BY <1>3, CompleteEffects
  <2>2. OnBackup(t) => Recovery!BackupStatusTransitionAllowed(
                           backups[jobs[t].backup].status, new.status)
    BY <2>1, BackupAfterTask
  <2>3. backups \in [Backups -> BackupRow]
    BY DEF StoreInv, StoreTypeOK, BackupRow
  <2> HIDE DEF new, t
  <2>4. CASE OnBackup(t) /\ b = jobs[t].backup
    BY <2>1, <2>2, <2>3, <2>4
  <2>5. CASE ~(OnBackup(t) /\ b = jobs[t].backup)
    <3>1. backups'[b] = backups[b]
      BY <2>1, <2>3, <2>5
    <3> QED
      BY <3>1 DEF Recovery!BackupStatusTransitionAllowed
  <2> QED
    BY <2>4, <2>5
<1>4. ASSUME FailExhaustedTasks, NEW b \in Backups
      PROVE  Recovery!BackupStatusTransitionAllowed(backups[b].status, backups'[b].status)
  <2>1. CASE backups'[b] = backups[b]
    BY <2>1 DEF Recovery!BackupStatusTransitionAllowed
  <2>2. CASE backups'[b] # backups[b]
    <3>1. PICK t \in Exhausted : OnBackup(t) /\ jobs[t].backup = b
      BY <1>4, <2>2, ExhaustedEffects
    <3>2. t \in Tasks /\ tasks[t].status \in Active /\ backups'[b] = Compensated(t)
      BY <1>4, <3>1, ExhaustedEffects
    <3> QED
      BY <3>1, <3>2, BackupAfterTask
  <2> QED
    BY <2>1, <2>2
<1>5. CASE \E f \in Presented : Reject(f)
  BY <1>1, <1>5, RejectEffects
<1> QED
  BY <1>1, <1>2, <1>3, <1>4, <1>5 DEF Next, Request, vars, LeaseStep, storeVars,
     UpdateServerObserved

\* domain.BackupStatusTransitionAllowed is never bypassed: whatever request, result
\* or reconciler pass moves a recovery point, it moves along the state machine.
THEOREM StoreImplementsBackupStatus == Spec => ImplementsBackupStatus
<1> DEFINE status == [b \in Backups |-> backups[b].status]
<1>1. StoreInit => Recovery!BackupInit
  BY DEF StoreInit, Recovery!BackupInit
<1>2. StoreInv /\ StoreInv' /\ LeaseInv /\ [Next]_vars
         => [Recovery!BackupNext]_status
  <2> SUFFICES ASSUME StoreInv, StoreInv', LeaseInv, [Next]_vars
               PROVE  Recovery!BackupNext
    OBVIOUS
  <2>1. status' \in [Backups -> Recovery!Statuses]
    BY DEF StoreInv, StoreTypeOK, Statuses, Recovery!Statuses
  <2> QED
    BY <2>1, StepMovesBackups DEF Recovery!BackupNext
<1> QED
  BY <1>1, <1>2, StoreInvariant, PTL
     DEF Spec, ImplementsBackupStatus, Recovery!BackupSpec

\* The failed deletion of a backup puts back the status the backup had.
LEMMA FailedDeleteStep ==
    ASSUME StoreInv, LeaseInv, [Next]_vars, NEW t \in Tasks,
           tasks[t].status \in Active, tasks'[t].status = "failed",
           jobs[t].type = "backup-delete"
    PROVE  backups'[jobs[t].backup].status = jobs[t].prior
<1>1. /\ OnBackup(t) /\ "failed" \notin Active
  BY DEF OnBackup, BackupTypes, Active, Open
<1>2. /\ jobs[t].backup \in Backups /\ Compensated(t).status = jobs[t].prior
  BY <1>1, BackupAfterTask
<1>3. CASE UNCHANGED tasks
  BY <1>1, <1>3
<1>4. CASE \E u \in Tasks, s \in Servers : Request(u, s)
  <2>1. PICK u \in Tasks, s \in Servers : EnqueueTask(u, s)
    BY <1>4, RequestEnqueues
  <2> QED
    BY <1>1, <2>1 DEF EnqueueTask, LeaseInv, LeaseTypeOK, Row, Active, Open
<1>5. CASE LeaseStep
  BY <1>1, <1>5, LeaseStepIsQuiet
<1>6. CASE \E f \in Presented, succeeded, valid \in BOOLEAN : Complete(f, succeeded, valid)
  <2>1. PICK f \in Presented, succeeded \in BOOLEAN, valid \in BOOLEAN :
           Complete(f, succeeded, valid)
    BY <1>6
  <2>2. f.task = t
    BY <1>1, <2>1, CompleteEffects
  <2>3. backups' = [backups EXCEPT ![jobs[t].backup] = Compensated(t)]
    BY <1>1, <2>1, <2>2, CompleteEffects
  <2> QED
    BY <1>2, <2>3 DEF StoreInv, StoreTypeOK
<1>7. CASE \E f \in Presented : Reject(f)
  BY <1>1, <1>7, RejectEffects
<1>8. CASE FailExhaustedTasks
  BY <1>1, <1>2, <1>8, ExhaustedEffects
<1> QED
  BY <1>3, <1>4, <1>5, <1>6, <1>7, <1>8 DEF Next, Request, vars, UpdateServerObserved

\* compensateBackupTaskTx reads the status to give back from the failure code; it
\* always reads the right one.
THEOREM DeleteFailureRestores == Spec => FailedDeleteRestoresStatus
<1>1. StoreInv /\ LeaseInv /\ [Next]_vars =>
        [\A t \in Tasks :
           /\ tasks[t].status \in Active /\ tasks'[t].status = "failed"
           /\ jobs[t].type = "backup-delete"
           => backups'[jobs[t].backup].status = jobs[t].prior]_vars
  BY FailedDeleteStep
<1> QED
  BY <1>1, StoreInvariant, PTL DEF Spec, FailedDeleteRestoresStatus
=============================================================================
