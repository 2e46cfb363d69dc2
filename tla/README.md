# GuGuManager: a TLA+ model of the control plane and its agents

GuGuManager runs game servers on a fleet of machines. A control plane, in one or
several replicas, keeps every fact in PostgreSQL and turns user requests into *tasks*;
an agent on each machine holds one stream to the control plane, receives tasks, runs
them against Docker and the file system, and reports back. This directory holds the
TLA+ specifications of that system, the configurations that check them with TLC and the
proofs TLAPS checks.

    tlc -config MCTaskStore.cfg MCTaskStore        # a run (see "Runs" for the others)
    tlapm TaskLeaseProofs.tla                      # the proofs about the lease protocol
                                                   # (likewise the other ...Proofs modules)

## 1. Inventory

| Component | Source | State | Operations | Hard behaviour |
|---|---|---|---|---|
| Task table and lease protocol | `internal/store/postgres_tasks.go`, migration 000009 | `server_tasks` rows: status, attempt, lease token, connection epoch, expiry | enqueue, claim, ack, progress, renew, complete, reconcile leases | late, repeated and reordered messages; lease expiry racing results |
| Requests and task ends | `postgres_controlplane.go`, `postgres_entities.go`, `catalog_admin.go`, `CompleteTask` | servers, backups, bundle history, outbox | create, power, startup/network reconcile, upgrade, backup, restore, delete; their completion and compensation | a task's end touches several rows and may conflict; compensation from another code path |
| Backup state machine | `internal/domain/backup.go` | status of a recovery point | allowed transitions | – |
| Agent gateway | `internal/agentrpc/connect.go`, `server.go` | stream per node, epoch counters, pending console and file requests | Enroll, Connect, claim loop, frame handlers, dispatch with deadline | dead streams, replaced streams, answers after the deadline |
| Agent | `internal/agent/agent.go`, `journal.go` | worker pool, in-flight table, per-server locks, journal and credentials on disk | execute, replay, await, renew, drain, enrol, rotate | crash during execution, redelivery, two workers on one operation, file requests that take no lock of the server, a stop between two file writes |
| Docker executor | `docker_executor.go`, `runtime/docker.go` | containers, their names and volumes | provision, power, reconcile with rollback, backup, restore | a call that fails half-way through a switch, with or without effect; a file request that starts or stops the container meanwhile |
| Archives on a node | `agent/backup.go` | data directory, staging, marker, archive files | publish, restore, recover | a stop between two renames; an attempt after one that was cut off |
| Desired state and catalog | `network_startup.go`, `desired_runtime.go`, `signed_catalog.go`, `catalog_admin.go` | allocations, startup values, revisions, trust roots | allocate, set primary, update, upgrade, import, review, revoke | reads before the transaction that writes |
| Server files | `postgres_controlplane.go`, `agent/file_operations.go` | gates, requests in flight, the container | list, read, write, make, move, remove | a container started for a file meets a power task; a write meets a restore |
| Object archive | `object_backups.go`, `internal/objectstore` | manifests, tombstones, remote objects | archive, attach, delete | reference counting against concurrent attach; crash between upload and row |
| Outbox, webhooks | `postgres_outbox.go`, `automation.go` | events, deliveries, retries, dead letters | publish, deliver, replay | crash after delivery |
| Automation | `automation.go` | schedules, windows, runs | due run, claim, finish | overlapping runs |
| Identity | `identity.go`, `postgres_identity.go`, `postgres_session.go`, `access_tokens.go` | accounts, members, sessions, tokens | set up, log in, recover, reset, issue, revoke | requests that check before they write |
| Attempt limiter | `identity/login_limiter.go` | failures, blocks and reservations per key | reserve, complete, evict | overlapping attempts; a full table |
| Enrollment, certificates | `enrollment_tokens.go`, `agentca`, `agent.go` | tokens, nodes, key pairs, credential files | issue, enrol, connect, rotate, revoke | lost answers, stops between two writes |
| HTTP API | `internal/httpapi` | – | authenticate, gate, CSRF, store check, effect; pages | every check reads another moment |
| Console stream | `console_hub.go`, `console_metrics_buffer.go`, `httpapi`, `main.go` | log rows, buffer per replica, channels | record, broadcast, subscribe, reconnect | lines lost between replicas, in full channels and in failed batches; numbers that are drawn again |
| Memory store | `memory.go`, `operations.go`, `backups.go`, `identity.go` | the same facts in one process | the same requests, goroutines that finish them | mutex sections and timers |

Components interact through the database (requests and handlers are transactions on
shared rows), through the Connect stream (tasks down; acks, renewals, results, logs and
observations up), through Redis (events and console lines between replicas) and through
periodic reconcilers. `PROJECT.json` lists every component with its status, and under
`hazards` the places where the code is hard to test.

What makes each part correct: at most one task in progress per server; no message of
a lost lease reaches a row; a task ends once and its end is applied once to server,
backup, bundle revision and outbox; an operation's side effects do not run twice and
no success is reported that did not happen; every task ends. What a task tells the agent
is what the server asks for. A failed change of a container or of its data leaves the
old one. A remote copy can be read as long as a backup refers to it. Calls over a stream
return, and with their own answers; a console skips no recorded line in silence; an
event or a webhook is delivered at least once and marked only if it was; scheduled runs
neither overlap nor repeat. One-time secrets are used once, revoked access ends, and no
request has an effect its actor was never entitled to.

## 2. Modules

### Tasks

**TaskLease** – the rows of `server_tasks`. One action per transaction of
`postgres_tasks.go`: `EnqueueTask`, `ClaimTask`, `AckAccepted` and `AckRejected`
(`AckTask`), `ReportTaskProgress`, `RenewTaskLease`, `CompleteTask` (its effect on the
row), `LeaseLapses` (30 seconds pass), `RequeueLapsed` and `FailExhausted` (the two
transactions of `ReconcileTaskLeases`). `granted` remembers every lease ever handed out;
any of them may be presented again at any time, with its token or as a legacy message
without, so no assumption on the network or the agents is made. A message that the code
answers with a silent no-op is a stuttering step. `lease_token` is a counter: what
matters of `gen_random_uuid()` is that no value repeats. Progress percent, checkpoints,
`state_version` and timestamps are left out.

**TaskStore** extends TaskLease with the rows around a task: servers, backups, the
upgrade history and the outbox. A request is one action (`CreateServer`,
`RequestPower`, `RequestReconcile`, `UpgradeServer`, `CreateBackup`, `RestoreBackup`,
`DeleteBackup`), and so is `Complete` (the whole of `CompleteTask`), `Reject` and
`FailExhaustedTasks` (the second transaction of `ReconcileTaskLeases` with its
compensation). Refusals that read state outside the model (quota, permissions,
If-Match, node availability, idempotent replay) change nothing and are stuttering.
`jobs[t].prior` is a history variable: what a backup was before its deletion started.

**BackupStatus** – the abstract specification: a recovery point moves only along
`domain.BackupStatusTransitionAllowed`. TaskStore implements it under the mapping of
each backup to its status.

**TaskDelivery** extends TaskLease with one node: the stream (`link`, `down`, `up`), the
control plane's session (`handler`, `epoch`, `ClaimLoop`, `HandleFrame`) and the agent
(`session`, `worker`, `inflight`, `journal`). A worker goes through `executeTask` in the
steps between which others can run: `Take` (journal lookup), `RegisterInflight`,
`RecordRunning`, `StartExecution` (per-server lock), `FinishExecution` (journal),
`ReturnResult`; or `AwaitInflight` and `Reply` for a redelivery. `Break`,
`AgentCrashes` and `ControlPlaneRestarts` are the faults; each side learns of a broken
stream on its own (`HandlerNotices`, `SessionNotices`, `SessionEnds`). Frames are lost
when the stream breaks; a frame of an old stream handled after the new one opened is
not modelled here but covered by TaskLease, where any lease may be presented at any
time. `ran` and `outcomes` are history variables. Journal I/O errors and eviction are
left out.

### A server and its data

**DesiredState** – what a server is asked to be (`server`, `allocation`), the signed
catalog that says what it may be asked (`trustRoot`, `revision`, `definition`), and
`order`, the input of its active task. `CreateServer`, imports and reviews read before
their transaction and are two steps; `UpgradeServer`, `UpdateStartup`,
`CreateAllocation`, `SetPrimaryAllocation` and `DeleteAllocation` hold the server's row
and are one; all but the upgrade ask for a ready server. A signature is the root it was
made with.

**ServerRuntime** – the Docker executor for one server. A container is known by the
generation it was created for; names, volumes and files are what reconcile switches,
clones and could lose. Every Docker call of a task is a step that succeeds, fails without
effect, or fails with effect (a lost answer), and the agent may stop between any two. Tasks
of a server take turns (`keyedLock`), file requests do not: they run in the agent's receive
loop (`agent.go:571`) at any step of a task, one after the other, and `fileInspect`,
`fileStart` and `fileStop` are their calls (`borrow` is where the request is; a start or a
stop may fail, with effect or without). An inspection that fails at the start of a
reconcile is taken for one that finds nothing, as in the code; `job.was` remembers what is
there all the same. `ExecInContainer` ignores exit codes, so a restore of a volume that
removed some files, or unpacked some, succeeds too.

**AgentArchive** – archive files and the data directory on a node, one file-system call
per step: the publication of an archive by link or exclusive copy
(`publishBackupArchive`, `copyArchive`, `finishCopy` for the calls that make the copy
durable), by attempts that take turns under the lock of the server, and
`replaceServerDataFromBackup` with its marker, undone or completed by
`recoverRestoreMarker` when the agent starts. The replacement is the path of runtimes that
have no `RestoreNamedVolume`; the shipped `DockerRuntime` has one, and what it does is in
ServerRuntime.

**ServerFiles** – file requests: `beginFileMutation` with the gate of its process and
the check for restores, the dispatch with its deadline, the agent's receive loop that
runs them one at a time and starts a stopped container for it, and the worker that runs
power and restore tasks beside it. Starts, stops and power tasks may fail, carried out or
not. `disturbed` is a ghost: a task met a container that was up for a file only, or a
container was left as a failed call left it.

**ObjectArchive** – the remote copies of backups, for several control-plane replicas.
`backups`, `manifests` and `tombs` are the rows of `backups`, `object_manifests` and
`object_tombstones`, `objects` the object store. A replica goes through
`ArchivePendingBackups` (`ExpireUploads`, `ClaimRemoteBackup`, `LookupManifest` under
the advisory lock of the content, `Upload`, `InsertManifest`, `AttachManifest`) and then
`ReconcileObjectTombstones` (`LeaseTombstone`, `CountReferences`, `DeleteObject`,
`FinishTombstone`), each statement a step; it may crash between any two and leases may
lapse. `KeepsExisting` chooses the store: the local one keeps an object that is there,
S3 replaces it. Encryption is reduced to which data key fits which object. The deletion
of a backup executes in the agent and commits in two steps, so a replica can get in
between.

### Background loops

**ScheduleRuns** – schedules and their runs. A tick of `RunDueSchedules` is
`StartScheduleTick` (which takes the time), then `ClaimDueSchedule`, `Act` and `Record`
for each due schedule, then `LoopEnds` with `ReconcileScheduleRuns`. Time advances by
minutes; the cron expression is a period. `created`, `acted` and `abandoned` are history
variables.

**OutboxPublisher**, **WebhookDelivery** – the two delivery loops. An outbox row is
locked by the transaction that publishes it; a webhook delivery is leased in one
transaction and its outcome recorded in another. `hit` counts the faults of each event, so
that duplicates can be charged to the event they are of. **ControlPlane** names the replicas.

### Connections

**NodeStream** – the Connect streams of one node and the calls that wait on them.
`conn` holds handler, transport, `done` channel, bounded queue and writer of each
stream, `current` is `Server.streams[node]`, `call` the console commands and file
operations in progress (being in the pending table is the same as being in progress).
A `select` with several ready cases may take any. Frames of the claim loop travel on the
same queue and are left out.

**ConsoleStream** – the lines of one server: `drawn` (the agent's counter), `tailer` (the
log follower of each session, which draws from the counter once and counts on by itself),
`logs` (rows), `buffer` (each replica's memory), `onStream` (what a replica has still to
read from Redis), `socket` (the handler with its bounded channel) and `client` (what is
shown, and the rule to reconnect when a number is missing). A session may begin at any
replica of `AgentReplicas`, of the same process or of a new one whose counter starts from
nothing; the echo of a command draws two numbers from the counter. Batches may fail to be
recorded, committed or not, and numbers that are taken are skipped. A line is its number:
what the lines say is left out, and so are the polling of the REST console, which repairs
the list while it runs, and the client's limit of 500 lines. `recorded` and `ordered` are
history variables.

**NodeEnrollment** – `token`, `node` (rows), `files` (credentials on disk), `machine` (where
the agent's process is), `keys` and `age` (certificates). `Enroll`, the writes of
`ensureCredentials`, `Connect`, `Heartbeat`, rotation and revocation are steps; a process
may stop between any two.

### Requests of users

**Identity** is the state of accounts and credentials and of which store the process was
started with (`buildService`); **MemoryIdentity** and **PostgresIdentity** are the
operations of the two stores on it. The first decides under
a mutex and re-checks after hashing; in the second an operation that reads before it
writes is two steps, and row locks are guards. **HttpApi** takes a request of every
route through `auth`, `Gate`, `requireCSRF`, `decodeJSON`, the check of its store operation and
its effect, while rights change. **AttemptLimiter** is `Reserve` and `complete` with the
handlers that call them; its ghost `recent` holds the failures of a key that are younger
than the window, whether or not its entry still has them. **Listing** is the paging of
servers, operations and audit events while rows come and go: a page is the first items,
in the order of the list, of those after the cursor, and `given` counts how often the
client got each. **MemoryOperations** is the development store: requests
with idempotency keys, and the goroutines that finish them.

**…Proofs** – the theorems (section 4). **MC…** – instances for TLC.
`MCBackground`, `MCConnections`, `MCServers` and `MCAccess` put several modules into one
run. Those share no variables, so each behaviour moves one of them, chosen in the
initial state: the states are the sum of theirs and not the product, and nothing a
property says is lost.

Definitions under a comment that starts with *Variant* are broken forms of the
definition they stand before. No specification uses them; with one of them in place TLC
finds a property violated, which shows that the property depends on the code it is about
(`mutants` in `PROJECT.json`). A module's `…TypeOK` states its types for the reader and
is a theorem of its specification; the runs spend their time on the other properties.

## 3. Runs

| Run | Configuration | Result | What it shows |
|---|---|---|---|
| store | `MCTaskStore.cfg` | holds | exclusivity, no unclaimable task in the queue, terminal states final; a task in progress holds its backup and its generation and no backup is left in a transient status; events match tasks; a failed deletion restores the status; BackupStatus is implemented |
| upgrade_exhausted | `MCTaskStoreUpgrade.cfg` | **violated** | MAX_ATTEMPTS does not roll an upgrade back |
| delivery | `MCTaskDelivery.cfg` | holds | through two faults: the fence is sound, the journal keeps an operation from running in two sessions, success only if it happened, no task left queued or unacknowledged; without a fault every task without secret handles ends |
| delivery_twice | `MCTaskDeliveryTwice.cfg` | **violated** | two workers can execute one operation twice |
| background | `MCBackground.cfg` | holds | marked events are in the stream, attempts decide on dead letters, duplicates need faults; settled deliveries stay so; runs, events, deliveries, uploads and tombstones settle through a fault, except a run or delivery that a dying replica had taken |
| servers | `MCServers.cfg` | holds | runs do not overlap, act once and tell the end of their task, catch-up leaves none out; a task applies the desired state and no revoked root; a failed reconcile restores the old container, a switch loses no file, no live volume is copied or overwritten (with the exceptions below); replacing a data directory is atomic and a reported archive stored; remote copies are readable and deleted backups stay detached; file requests respect tasks |
| archive_lost | `MCObjectArchiveLost.cfg` | **violated** | with two replicas a backup may be attached to an object that is about to be deleted |
| files_power | `ServerFilesPower.cfg` | **violated** | a file operation stops a server that was started meanwhile |
| connections | `MCConnections.cfg` | holds | one live stream per node, answers reach their own call and none is dropped on the live stream, calls and writers end; the console skips no recorded line while the agent stays with one replica, and closes when access is lost; a token enrols one node, a revoked node stays out |
| console_echo | `ConsoleStreamEcho.cfg` | **violated** | the echo of a command gets numbers that are taken and is dropped |
| rotation_missed | `NodeEnrollmentRotation.cfg` | **violated** | a connection that stays open never rotates its certificate |
| access | `MCAccess.cfg` | holds | one-time secrets are used once in both stores; the memory store leaves no credential of a disabled or reset account and always an administrator; every effect was authorized; attempts are limited; pages are complete; operations of the memory store stay consistent |

The violations are disagreements between the code and what its own comments or
documents say; `findings` in `PROJECT.json` quotes the lines.

*Bounds.* `store` has one server, one backup and four tasks with two attempts: create
server, create backup, restore, delete is the longest chain in which each step depends
on what an earlier failure left behind (failure code, bundle revision). Task ids are
given out in order (`InOrder`), since they are interchangeable, and at most two of the
tasks change the server without touching its backup (`FewChanges`). The lease protocol
with more servers and nodes is covered by the theorems, which need no bound. `delivery`
requests one task (`MaxRequests`), t1 without or t2 with secret handles, because
operations of different tasks meet only at the per-server lock; two workers are needed
for two deliveries to meet, and two faults for a crash during the recovery from the
first. Two attempts are the last one and one before it. `MaxRenewals` bounds the
renewals in flight; one is enough since they are idempotent. The runs about replicas
have two of them, since every hazard there is a race of two transactions, and one fault.
`background` gives two backups distinct contents, because the case of equal ones fails
(see the observations); in `servers` they share theirs, the case in which manifests are
shared. Attempts are limited to two where the code has eight or ten. `servers` has two
servers on three ports, so that they compete for one and can each have a second; three
generations, so that a reconcile follows one that failed; one failing Docker call and
one stop, because a failure during a rollback is excepted in the property
(`BoundedRuntime`: a server with a backup, or with a file request that starts its
container, has had two generations, no stop and no lost answer, and not both at once,
enough to restore into a container that replaced another and to meet each step of a
reconcile; one that has three generations has had one failure or one stop, so that a third
generation follows an attempt that failed or one that was interrupted); two backups of one content of which one
can be deleted and fail, so that the other shows what is lost with it; two restores, so
that one starts from what the other left; four minutes of schedules with a period of
two, the later time after the first has been missed; two file requests and two tasks,
the least with which one request can see the trace of another. `connections` has two
streams of which the second replaces the first, and a queue of one frame for which a
command and a file operation compete; four lines with two retained, so that retention
and a full channel both happen, two sessions of the agent and one command
(`BoundedConsole`: three of a session, a command, a failure, a restart and a revocation in
one behaviour); two agents with one token. `access` has two users, two
overlapping calls and two credentials, every route, a limiter table with room for three
of four keys, and pages of two over five rows. `OneAdministration` keeps an
administrative request of the production store from overlapping with another request:
such races are known (see the observations), no property promises anything of them, and
they use none of the one-time secrets. All runs may stop (everything ended, no faults
left), so deadlock is not checked.

*Fairness* (`TaskDelivery!Fairness`): weak fairness of the agent's redial loop, of both
sides noticing a broken stream (gRPC keepalive, failed Recv), of the end of a cancelled
session, of the claim ticker, the frame loop, the reconciler ticker, of lease time
passing, and of each worker's next step, including the return of the executor (its
calls run under contexts and timeouts). User requests, faults and renewals are owed to
nobody.

`ObjectArchive!ArchiveFairness` gives every replica weak fairness of its next step,
strong fairness of obtaining the advisory lock (PostgreSQL queues those who wait), and
time that passes for abandoned leases; `Prompt` says that a lease outlives the work of a
replica that is alive, which two-minute and ten-minute leases are chosen for.
`NodeStream!StreamFairness` lets the goroutines of the control plane run and the
deadline of a command pass, and promises nothing of the agent, of `Send`, or of the
deadline of a file operation, which is its caller's. `ConsoleFairness` lets the handler
run and its one-second ticker fire, `EnrollmentFairness` the agent's loop, its
heartbeats and the age of certificates. The delivery loops and the scheduler get weak
fairness of their tickers, of their next step (requests run under contexts) and of
backoff times. No fairness is given to tasks in `ScheduleRuns`, since a task may stay in
progress. The composed runs state the same fairness, conjunct by conjunct, under the
condition that the part in question moves.

Some promises are stated with an exception, because the code keeps no more than that:

- A run whose replica died before it recorded the outcome is `abandoned`, a webhook
  delivery in that case `orphaned`. Nothing takes it up again (`claimDelivery`,
  `automation.go:575`, skips leased rows although their lease lapses;
  `ReconcileScheduleRuns` skips queued runs), so it stays in the database as it is, and an
  abandoned run makes every later run of a schedule that forbids overlap a skipped one.
  `LoopsSettle` excepts exactly these two; what it does say is that such a death holds
  nothing else up.
- `TaskEndsUnlessFault` holds without faults and without secret handles, so it tells
  nothing of a task whose agent is gone after the ack (see the observations).
- `FailedReconcileRestoresOld` and `QuietVolume` except calls that failed with effect and
  a second failure (it may be the rollback's, whose errors are ignored). After a failed
  inspection the candidate has the volume `<id>-data`, which may be the live one, and
  artifacts are unpacked into it while the old container runs: the old container still has
  its name and its power state, but not its files, and no volume is quiet. A file request
  that starts or stops a container during an operation (`spent.met`) may start the frozen
  old one while it is copied, or stop the one that a rollback started again: then the power
  state is not promised and no volume is quiet; name and files are promised all the same,
  and so is `SwitchKeepsData`, which excepts nothing. `QuietVolume` excepts an agent that
  was stopped as well.
- `RestoreIsAtomic` is about the replacement of a data directory. The shipped
  `DockerRuntime` restores a named volume in place (`docker_executor.go:298`): a restore
  that is cut off leaves neither the old data nor the new, and since the exit code of the
  command is ignored (`runtime/docker.go:571`) it may even be reported as done.
- `FilesRespectTasks` excepts what `disturbed` records: a power task that met a container
  which was up only for a file; a start or stop that failed although it was carried out; a
  container started for a file whose stop failed (`file_operations.go:289` only logs it) or
  whose session or agent ended before it.
- `NoSilentGap` excepts a batch that `RecordConsoleLines` failed to record
  (`connect.go:288` drops it, the agent's numbers go on, and a number that is missing for
  that reason looks like one nobody used), and all that comes after a number was inserted
  below the stored ones. It is true while the agent's stream stays with one replica: a
  replica answers the snapshot from its own memory, to which only the one that has the
  agent's stream adds (`console_metrics_buffer.go:83`), and with
  `AgentReplicas = {r1, r2}` TLC finds a list without a recorded line.
- `MemoryAccountsSound` is about the development store only.

### Observations

Met while modelling; not kept as runs, but each can be seen in the models or at the line
named.

*Tasks*

- *An acknowledged task can stay running.* `ReconcileTaskLeases`
  (`postgres_tasks.go:829`) re-queues and fails only `leased` rows. A row whose agent
  lost its stream or died after the ack is not looked at again and keeps the server's
  exclusive slot. `docs/design/03-architecture.md:77` says of the reconciler
  "副本故障切换后任务不卡死". `DispatchEnds` is the part that does hold.
- *A redelivered task with secret handles is refused.* Every claim puts new one-time
  handles into the payload (`secret_handles.go:103`), so the digest differs and the
  agent answers OPERATION_DIGEST_MISMATCH, although `agent.go:597` says that a changed
  digest means a changed instruction. If the redelivery waits for an execution that has
  just ended, `awaitInflight` (`agent.go:805`) finds the other digest and answers
  nothing: the task was acknowledged and never ends. That it runs once is what the
  digest does achieve (`JournalPreventsReruns`).

*Containers and data on a node*

- A stop of the agent between the two renames of a reconcile leaves no container under
  the canonical name; a rename whose answer was lost leaves the old one running under
  its rollback name on the volume of the new one; a leftover candidate keeps its name and
  ports; a `StopContainer` whose answer was lost leaves the old one stopped.
- A transient error of `InspectContainer` is taken for "no previous instance" (in the
  model), and a volume `-data-gN` left by an earlier attempt is overlaid, not emptied, by a retry.
- `ExecInContainer` does not look at exit codes, so a file operation that failed inside
  the container counts as done.
- The production `beginFileMutation` (`postgres_controlplane.go:1696`) says it mirrors
  the restore exclusion of the memory store, but `RestoreBackup` never takes the gate and
  a gate belongs to one process: a restore requested after the check overlaps with the
  write. A file operation whose request timed out still runs after its gate opened, and
  one cut off by a lost session leaves the container running.

*Object archive*

- `Local.Put` (`objectstore/local.go:72`) keeps an object of the same size, so the retry
  after a crash between `Put` and the INSERT records a manifest that does not fit the
  object. Hence the hypothesis `~KeepsExisting` of `ArchiveReadable`.
- A backup deleted during its upload has no manifest and gets no tombstone; the uploader
  leaves object and manifest behind (`object_backups.go:158`).
- A failure does not count towards the limit of `ArchivePendingBackups`
  (`object_backups.go:58`) and the backup is claimable again at once, so tombstones are
  not swept meanwhile. `background` has no `Flaky` backup.
- Content deleted once cannot be archived again: `object_key` and `plaintext_digest`
  are unique whatever the status of the manifest (migration 000014).

*Desired state and catalog*

- An import or approval that had read a root before its revocation leaves an approved
  revision under a revoked root; no task is made from it (`RevokedRootStopsTasks`).
  The decision "rejected" on a revoked revision takes the revocation back.
- `SetPrimaryAllocation` moves the primary with one UPDATE under a partial unique index
  that is not deferrable: the order in which rows are visited may make it fail.
- Allocations on 0.0.0.0 and on an address of the same node do not exclude each other;
  quotas are counted outside the transaction that inserts (`postgres_entities.go:623`);
  an upgrade gives no defaults to required variables the new revision adds.

*Background loops*

- `claimDueSchedule` (`automation.go:257`) tells only catch-up from the other policies of
  `openapi.yaml:2617`: "skip" is "run-once".
- `main.go:599` says that SKIP LOCKED makes replicas consume only once; a rollback after
  XADD publishes again, as the comment of `PublishOutboxEventsTo` says.

*Connections*

- `server.go:337` says that closing the stream makes sure a timed out command "cannot be
  delivered later"; a `Send` entered before the deadline can succeed until the handler
  returns.
- An agent that stops between writing certificate and key, or does not get the answer to
  `Enroll`, is locked out: its token is consumed (`agent.go:302`). So is one whose
  certificate expired, since a pair that loads is reused whatever its age. A rotation is
  signed for a node that is revoked (it still cannot connect).
- Line numbers start again with the agent's process, and a session of the same process
  draws the next of a counter that its log follower never advances (`agent.go:1108`, 1166),
  while rows are unique by number: new lines and echoes are dropped as conflicts until they
  pass the old ones. Run `console_echo` shows it for an echo.

*Accounts (production store)*

- Two `SetupAdmin` calls that both count no users create two administrators, although
  `postgres_identity.go:30` says "atomically"; two demotions that both count two
  administrators leave none.
- A login, API token, console token or reset token whose insertion overlaps with a
  password reset or the disabling of the account survives it, although
  `docs/design/09-security.md:11` has a reset end all sessions.
- `ResetPassword` with an expired token marks it consumed and rolls that back.
- Some administrative operations decide with the roles read at authentication (`check =
  "copy"` in HttpApi), others make no check of their own; `EffectIsAuthorized` is what
  holds all the same.

*Memory store*

- With a real runtime a failed provision leaves the server "provisioning", a failed
  power request leaves it "starting" or "stopping", and a restart of a stopped server
  runs it while "stopped" is desired.

## 4. Proofs

TLC checks small instances; the theorems hold for every value of the constants that
satisfies the named assumptions of the modules (`TaskLeaseAssumption`,
`IdentityAssumption` and so on: naturals where counters are bounded, distinct markers for
"none", finiteness of the set of users). A bound in a guard only makes fewer behaviours
and is part of no argument but those about types: a counter that a guard caps is typed by
its cap, and so are TaskDelivery's epochs (by the bound on faults) and the length of the
credential table. Every theorem `Spec => []P` is shown from an inductive
invariant, one lemma per action or group of actions that do the same to a row; the
action properties follow from the invariant step by step. `PROJECT.json` lists the
theorems; those that state a property of a run name it.

**TaskLeaseProofs** – `TypeCorrect`, `ExclusiveTasks`, `QueueDrains`,
`DeliveriesCounted`, `FenceIsSound`, `EndedStaysEnded`, `RequeuedIsReclaimed`. The fence
property is not inductive: that a granted token opens only its own claim depends on
tokens being cleared with the lease and on grants never being ahead of the attempt
counter. `LeaseInv` adds `RowsWellFormed` (a token only on a held row, no attempts on a
row that does not exist) and `GrantsArePast` (every granted token has been minted, every
granted attempt reached). Most actions touch one row or several in the same modest way;
`Quiet` names that way, `QuietStep` proves once that it keeps the invariant. Only
`EnqueueTask` and `ClaimTask` need proofs of their own.

**TaskStoreProofs** – the store with all its requests and completions implements the
lease protocol (`StoreImplementsLease`), so the theorems above hold of it
(`StoreLeaseSound`, `StoreEndedStaysEnded`), and implements the state machine of
recovery points (`StoreImplementsBackupStatus`). `TasksHoldObjects`, `EventsComplete` and
`DeleteFailureRestores` rest on `StoreInv`: besides the events, a task in progress names a
backup in the status its type gives it, a backup in a transient status has exactly such a
task, a task holds the generation of its server, a deletion remembers the status it has to
give back, and an upgrade and a provision know what they will write. Each clause is what
one branch of `CompleteTask` or of `compensateBackupTaskTx` takes for granted.

**TaskDeliveryProofs** – gateway, stream and agent implement the lease protocol too
(`DeliveryImplementsLease`, `DeliveryFenceIsSound`); `ReportedSuccessIsReal`,
`JournalKeepsFromRerunning` and `DeliveryTypeCorrect`. `DeliveryInv` says that every lease
in a queue, a frame or a worker was granted; that a result on its way or in the journal is
that of an execution; that an entry is on disk before its execution starts, so that a later
session finds it, and that a worker about to execute knows that no earlier session did;
and, for operations with secret handles, that no two claims share
a digest and that after the execution nobody else holds the claim it was made under. The
epochs of connections cannot run out because each needs a fault of which the model counts
the number.

**ObjectArchiveProofs** – for every number of replicas, backups, contents and crashes:
`ArchiveTypeCorrect`; `ArchiveReadable`, that an active manifest fits its object if the
store replaces objects (`~KeepsExisting`); and `DeletedIsFinal`. Readability needs the
advisory lock: the invariant says that a replica between lookup and insert holds the
lock of its content, that no other does, that it uploads only while no active manifest
exists, and that the keys it is about to insert fit what it has stored.

**AgentArchiveProofs** – `RestoreNeverLosesData` from `RestoreInv`: at each step the data
is in place, set aside or replaced, and while a directory is set aside there is a marker
of this very attempt, so a stop at any point, recoveries included, finds what it needs.
`ReportedIsStored` from `PublishInv`: one attempt at a time is at work, and there is no
archive until it publishes; an incomplete archive is what a copy under way, or
one that was cut off, left, nobody reports it, and a complete one is what every attempt
that is done reported.

The Docker executor is in the same module. `ReconcileKeepsData` from `RuntimeInv`: the old
container stays, the new one exists from its creation on and is another one, and what was
frozen is in the old volume until it is copied and in the new one afterwards; nothing is
assumed of failures, lost answers, stops or file requests. `OldGenerationRestored` and
`VolumesAreQuiet` from `Kept`, which follows who has the canonical name and who runs
through every operation with file requests at every step (`Told`, `NameKept`, `OldKept`,
`QuietKept`): at most one container has the name, and because Docker gives the ports of a
server to one container at most one runs; before the switch the old one has the name, at
the rollback it has it again, and a rollback without a failure behind it (the ports were
taken) is one where the old container did not run. File requests find a container by the
canonical name, so they touch neither names nor files that are there, but who runs is
known only as long as none met an operation; an inspection that failed is the one failure,
so every call after it succeeds or the exception applies. Both hold for any number of
failing calls and file requests in what they do not except.

**ServerProofs** – `TasksApplyDesired` and `RevocationStopsTasks` (the two are inductive
together, once what a `CreateServer` call read before its transaction is known to be
trusted); `FilesRespectTheTasks` (`FilesInv`: who has started the container and what each
mutation saw of the server's tasks, with starts, stops and tasks that fail); `ScheduledRunsAreSound` (`ScheduleInv`: everything
known of a schedule is of times before `next_run_at`, a replica at work has a run of its
own, and runs, tasks and calls agree), with `ScheduleTypeCorrect`; `WebhookTypeCorrect`, the limit of attempts, and
`SettledDeliveriesAreFinal` (`WebhookInv`: whoever sends a delivery holds its lease, and
one that is still to be sent has attempts left); `OutboxPublishesSoundly` (`OutboxInv`: a
publisher at work holds the row of its event, which is not published, and the event is in
the stream no more often than faults hit it until XADD is acknowledged), with
`OutboxTypeCorrect`.

**ConnectionProofs** – `TokensEnrollOnce` (`UsedOnce`: a token that an agent holds
consumed, or that its node was enrolled with, is spent and that agent's alone, from the
moment the transaction commits and not only when a node appears); `StreamsAreSound` and
`LiveAnswersArrive` (`StreamInv`: answers under way are of calls that ran);
`ConsoleHasNoHole`, under the hypothesis `OneAgentReplica` that the agent's stream stays
with one replica (see the exceptions above for why it is needed; `ConsoleInv`: as long as
numbers are inserted in order, what any replica holds is rising and lacks no recorded line
between its ends, the buffer beside the agent lacks none at its end either, and the table
has lost only its oldest recorded lines).

**AccessProofs** – `EffectsAreAuthorized`: the request has recorded every entitlement and
credential since it arrived, and each gate it passed was open at such a moment.
`PostgresSecretsUsedOnce`: a used secret is dead, a reset under way holds a reset token
that was not used, and no two hold the same one (`PostgresInv`; the second is what `FOR
UPDATE` is for). `MemorySecretsUsedOnce` and `MemoryAccountsFollow`: the same secrets in
the development store, and there also that every credential that works is of an active
account and no older than its last reset or disabling, and that an administrator remains.
`IdentitySound` joins the two: a process keeps the store it was started with, so secrets
are used once in either and `MemoryAccountsSound` holds. `IdentityTypeCorrect` needs what
a call has read: a PostgreSQL transaction writes the user, update or permissions that its
first step was given (`CallTyped`). `MemoryOperationsAreSound` needs that nothing exists
before the server does, because `CreateServer` does not look for operations under way.

`AttemptsLimited` needs to know why a key cannot be tried more often although entries are
pruned, evicted and reset by blocks (`LimiterInv`, `KeySound` for each key): without a
block the entry's failures end with all the recent ones, and together with the attempts in
flight they are at most `Maximum`; so the failure that begins a block is that of the last
attempt in flight, nothing can be added while the block lasts, and because a block lasts
at least as long as the window (`LimiterAssumption`; five and fifteen minutes in `New`)
nothing is recent any more when it is over and the failures are forgotten. `CurrentCuts`
says where the loop of `prune` stops. `PagingComplete` rests on `ListingInv`: as long as
more is to come, what was given lies up to the cursor, and what stayed and was not given
lies after it, also when the cursor's own row has gone and come back.

Only model-checked, and why:

- all liveness (`DispatchEnds`, `TaskEndsUnlessFault`, `LoopsSettle`, `ArchiveSettles`,
  `CallsAndWritersEnd`, `RevokedStreamCloses`, `RevokedNodeStaysOut`): out of the prover's
  reach. Every invariant and every other action property of the runs is a theorem.

No proof goes by induction over data; the one place that needs it, where a loop over a
list stops, takes the least element of a set of positions (`LeastNatural`, from
`WFMin` of the library). Definitions the proofs reach select from lists by positions
and from sets by quantifiers; `Total`, which bounds resets and disables, is the only
recursive one, and no proof looks into it.

## 5. Not modelled

Cryptography, X.509, password hashing, signatures and canonical digests (reduced to who
made what); path confinement and atomic writes of the development file system; the
content of archives; eviction from the agent's journal above 512 entries; secret handles
that cannot be materialised; metric samples; which backups retention deletes; quotas and
placement; seed data; the migrations runner; configuration, commands and installer;
generated protocol code; the web console except its reconnection rule (no polling, no limit of 500 lines); the extension
runner.

## 6. Plan

Done: tasks (TaskLease, TaskStore, BackupStatus, TaskDelivery), a server and its data
(DesiredState, ServerRuntime, AgentArchive, ServerFiles, ObjectArchive), background
loops, connections, requests of users; proofs of every safety property of the passing
runs, in eight modules.

Open: the liveness properties as theorems, once a prover for ENABLED and fairness is at
hand; a model of the agent's journal at its limit of 512 entries.
