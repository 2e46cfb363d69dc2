--------------------------- MODULE ServerRuntime ---------------------------
(***************************************************************************)
(* The Docker executor of an Agent (internal/agent/docker_executor.go) and *)
(* the Docker calls it makes (internal/runtime/docker.go), for one server. *)
(*                                                                         *)
(* The tasks of a server take turns (keyedLock), so operations do not      *)
(* overlap; what makes them hard is that each is a series of Docker calls, *)
(* any of which can fail, and that the Agent can stop between two of them. *)
(* File requests take no such turn: the receive loop runs them, one after  *)
(* the other, while a task is at any of its calls.  They find the          *)
(* container by its canonical name.                                        *)
(*                                                                         *)
(* A container is identified by the generation it was created for, which   *)
(* is what its desired digest tells apart.  Its name is "canonical"        *)
(* (gugu-server-<id>), or the candidate or rollback name of a generation.  *)
(* The volume <id>-data is volume 0, <id>-data-g<n> is volume n.  The      *)
(* content of a volume is the set of files in it: files are numbered as    *)
(* the game or a request writes them, and file 0 stands for the Bundle's   *)
(* artifacts.                                                              *)
(*                                                                         *)
(* Left out: files that requests move or remove, and an inspection that    *)
(* fails although the server has a container of the task's own generation, *)
(* which would make a second one of it.                                    *)
(***************************************************************************)
EXTENDS Naturals

CONSTANTS
    MaxGeneration,  \* bound: generations of the server
    MaxFiles,       \* bound: files the game and file requests write
    MaxFailures,    \* bound: Docker calls and health checks of operations that fail
    MaxAgentStops,  \* bound: times the Agent stops during an operation
    LocalBackups,   \* backup ids
    NoContainer     \* no container, no archive

Generations == 1 .. MaxGeneration
Files == 0 .. MaxFiles
\* Names are pairs: what the container is, and the generation where that is part of it.
Canonical == <<"canonical", 0>>
ContainerNames == {Canonical} \cup ({"candidate", "rollback"} \X Generations)
ContainerRows == [name : ContainerNames, vol : 0 .. MaxGeneration, running : BOOLEAN]

ASSUME RuntimeAssumption ==
    /\ MaxGeneration \in Nat /\ MaxFiles \in Nat
    /\ MaxFailures \in Nat /\ MaxAgentStops \in Nat
    /\ NoContainer \notin Nat /\ NoContainer \notin ContainerRows

VARIABLES
    cont,     \* containers, by generation
    vol,      \* content of the named volumes
    archives, \* local archives, by backup
    job,      \* the operation in progress
    borrow,   \* a file request that found the container stopped: what it does next
    last,     \* the outcome of the last operation
    gen,      \* the latest generation
    spent     \* so far: files written, failures, Agent stops; was an answer lost, did a
              \* file request start or stop a container during an operation?

runtimeVars == <<cont, vol, archives, job, borrow, last, gen, spent>>

Steps == {"create", "stop", "clone", "install", "start", "health", "aside",
          "switch", "remove", "restore", "undo", "unname", "drop", "fail", "idle"}

RuntimeTypeOK ==
    /\ \A g \in Generations :
          \/ cont[g] = NoContainer
          \/ cont[g].name \in ContainerNames /\ cont[g].vol \in 0 .. MaxGeneration
    /\ vol \in [0 .. MaxGeneration -> SUBSET Files]
    /\ job.step \in Steps
    /\ borrow \in {"no", "start", "stop"}
    /\ gen \in 0 .. MaxGeneration

Idle == [step |-> "idle"]

RuntimeInit ==
    /\ cont = [g \in Generations |-> NoContainer]
    /\ vol = [v \in 0 .. MaxGeneration |-> {}]
    /\ archives = [b \in LocalBackups |-> NoContainer]
    /\ job = Idle /\ borrow = "no"
    /\ last = [kind |-> "none", ok |-> TRUE, retry |-> FALSE]
    /\ gen = 0
    /\ spent = [files |-> 0, failures |-> 0, stops |-> 0, lost |-> FALSE, met |-> FALSE]

Exists(g) == g # NoContainer /\ cont[g] # NoContainer
NameFree(name) == \A g \in Generations : Exists(g) => cont[g].name # name

\* InspectContainer by the canonical name.
InspectContainer ==
    IF NameFree(Canonical) THEN NoContainer
    ELSE CHOOSE g \in Generations : Exists(g) /\ cont[g].name = Canonical

\* Docker starts no second container on the host ports of the server.
PortsFree(g) == \A h \in Generations \ {g} : Exists(h) => ~cont[h].running

(***************************************************************************)
(* Effects of the Docker calls.                                            *)
(***************************************************************************)
Created(g, name, v) == [cont EXCEPT ![g] = [name |-> name, vol |-> v, running |-> FALSE]]
Started(g) == [cont EXCEPT ![g].running = TRUE]
Stopped(g) == [cont EXCEPT ![g].running = FALSE]
Removed(g) == [cont EXCEPT ![g] = NoContainer]
Renamed(g, name) == [cont EXCEPT ![g].name = name]
\* CopyArchiveToContainer unpacks over what the volume holds.
Copied(files, v) == [vol EXCEPT ![v] = @ \cup files]

FailsWith(lost) ==
    /\ spent.failures < MaxFailures
    /\ spent' = [spent EXCEPT !.failures = @ + 1, !.lost = @ \/ lost]
Fails == FailsWith(FALSE)
At(step) == job.step = step
\* The next step; data remembers what the old container had when it was frozen.
Goto(step) ==
    job' = [job EXCEPT !.step = step,
                !.data = IF At("stop") /\ Exists(job.old) THEN vol[cont[job.old].vol] ELSE @]

\* A Docker call: it takes effect and the operation goes on, or it is reported
\* as failed, without effect or with it (the answer was lost), and the operation
\* goes to its error path.
Call(cont2, vol2, next, error) ==
    \/ cont' = cont2 /\ vol' = vol2 /\ Goto(next) /\ UNCHANGED spent
    \/ \E lost \in BOOLEAN :
          /\ FailsWith(lost)
          /\ cont' = (IF lost THEN cont2 ELSE cont)
          /\ vol' = (IF lost THEN vol2 ELSE vol)
          /\ Goto(error)

\* A call whose error is ignored.
BestEffort(cont2) ==
    \/ cont' = cont2 /\ UNCHANGED spent
    \/ Fails /\ UNCHANGED cont

Finish(ok, retry) ==
    /\ last' = [kind |-> job.kind, ok |-> ok, retry |-> retry]
    /\ job' = Idle

\* An operation that is refused before it touches Docker.
Refuse(kind, retry) ==
    /\ last' = [kind |-> kind, ok |-> FALSE, retry |-> retry]
    /\ UNCHANGED <<cont, vol, archives, job, spent>>

\* The generation of a task: a new one, or the same one when a failed attempt
\* is retried or a finished one is delivered again.
TaskGeneration(g, kind) ==
    \/ g = gen + 1
    \/ g = gen /\ last.kind = kind /\ (last.ok \/ last.retry)

(***************************************************************************)
(* executeProvision.                                                       *)
(***************************************************************************)
\* Without trusted evidence, or with an incomplete target, nothing is created.
executeProvision(g, trusted, run, install) ==
    /\ At("idle") /\ TaskGeneration(g, "provision") /\ (gen = 0 \/ g = gen)
    /\ gen' = g
    /\ \/ ~trusted /\ Refuse("provision", FALSE)
       \/ /\ trusted
          /\ job' = [kind |-> "provision", step |-> "create", gen |-> g, run |-> run,
                     install |-> install, old |-> NoContainer, oldRan |-> FALSE,
                     data |-> {}, was |-> NoContainer, ran |-> FALSE]
          /\ UNCHANGED <<cont, vol, archives, last, spent>>

\* CreateContainer.  The container of a provision without artifacts is started
\* by the same call, which removes it again when that fails.
provisionCreate ==
    /\ At("create") /\ job.kind = "provision"
    /\ UNCHANGED <<archives, gen, last>>
    /\ IF NameFree(Canonical)
       THEN Call(Created(job.gen, Canonical, 0), vol, "install", "fail")
       ELSE Goto("fail") /\ UNCHANGED <<cont, vol, spent>>

(***************************************************************************)
(* executeReconcile.                                                       *)
(***************************************************************************)
\* What the Agent finds under the canonical name (old), and what is there (was).  An
\* inspection that fails is taken for one that finds nothing.
ReconcileOf(g, run, install, old, was) ==
    [kind |-> "reconcile", step |-> IF old = g THEN "remove" ELSE "create",
     gen |-> g, run |-> run, install |-> install,
     old |-> old, oldRan |-> Exists(old) /\ cont[old].running,
     data |-> IF Exists(old) THEN vol[cont[old].vol] ELSE {},
     was |-> was, ran |-> Exists(was) /\ cont[was].running]

executeReconcile(g, trusted, run, install) ==
    LET was == InspectContainer IN
    /\ At("idle") /\ gen > 0 /\ TaskGeneration(g, "reconcile")
    /\ gen' = g
    /\ \/ ~trusted /\ Refuse("reconcile", FALSE)
       \/ /\ trusted /\ UNCHANGED <<cont, vol, archives, last>>
          /\ \/ job' = ReconcileOf(g, run, install, was, was) /\ UNCHANGED spent
             \/ /\ was \notin {g, NoContainer} /\ Fails
                /\ job' = ReconcileOf(g, run, install, NoContainer, was)

\* A candidate that an earlier attempt left behind keeps its name.
reconcileCreate ==
    /\ At("create") /\ job.kind = "reconcile"
    /\ UNCHANGED <<archives, gen, last>>
    /\ IF ~Exists(job.gen)
       THEN Call(Created(job.gen, <<"candidate", job.gen>>,
                         IF Exists(job.old) THEN job.gen ELSE 0),
                 vol, "stop", "fail")
       ELSE Goto("fail") /\ UNCHANGED <<cont, vol, spent>>

\* The old container is frozen before its volume is copied.
reconcileStop ==
    /\ At("stop")
    /\ UNCHANGED <<archives, gen, last>>
    /\ IF job.oldRan THEN Call(Stopped(job.old), vol, "clone", "drop")
       ELSE Goto("clone") /\ UNCHANGED <<cont, vol, spent>>

\* Variant: a copy that fails is ignored.
cloneBestEffort ==
    /\ At("clone")
    /\ UNCHANGED <<archives, gen, last>>
    /\ IF Exists(job.old)
       THEN Call(cont, Copied(vol[cont[job.old].vol], cont[job.gen].vol), "install", "install")
       ELSE Goto("install") /\ UNCHANGED <<cont, vol, spent>>

cloneContainerData ==
    /\ At("clone")
    /\ UNCHANGED <<archives, gen, last>>
    /\ IF Exists(job.old)
       THEN Call(cont, Copied(vol[cont[job.old].vol], cont[job.gen].vol), "install", "undo")
       ELSE Goto("install") /\ UNCHANGED <<cont, vol, spent>>

\* Where the operation goes on after the artifacts, and when a call fails.
AfterInstall == IF job.run THEN "start" ELSE IF job.kind = "provision" THEN "remove" ELSE "aside"
OnError == IF job.kind = "provision" THEN "drop" ELSE "undo"

installBundleArtifacts ==
    /\ At("install")
    /\ UNCHANGED <<archives, gen, last>>
    /\ IF job.install
       THEN Call(cont, Copied({0}, cont[job.gen].vol), AfterInstall, OnError)
       ELSE Goto(AfterInstall) /\ UNCHANGED <<cont, vol, spent>>

StartContainer ==
    /\ At("start")
    /\ UNCHANGED <<archives, gen, last>>
    /\ IF PortsFree(job.gen)
       THEN Call(Started(job.gen), vol,
                 IF job.kind = "provision" THEN "remove" ELSE "health", OnError)
       ELSE Goto(OnError) /\ UNCHANGED <<cont, vol, spent>>

\* The candidate becomes healthy, or it exits or does not in time.
waitForHealthyRuntime ==
    /\ At("health")
    /\ UNCHANGED <<vol, archives, gen, last>>
    /\ \/ Goto("aside") /\ UNCHANGED <<cont, spent>>
       \/ Fails /\ Goto("undo") /\ cont' \in {cont, Stopped(job.gen)}

renameOldAside ==
    /\ At("aside")
    /\ UNCHANGED <<archives, gen, last>>
    /\ IF Exists(job.old)
       THEN Call(Renamed(job.old, <<"rollback", job.gen>>), vol, "switch", "undo")
       ELSE Goto("switch") /\ UNCHANGED <<cont, vol, spent>>

renameCandidate ==
    /\ At("switch")
    /\ UNCHANGED <<archives, gen, last>>
    /\ IF NameFree(Canonical)
       THEN Call(Renamed(job.gen, Canonical), vol, "remove", "unname")
       ELSE Goto("unname") /\ UNCHANGED <<cont, vol, spent>>

\* Removing the old container is best effort; the operation succeeded.
reportSuccess ==
    /\ At("remove")
    /\ UNCHANGED <<vol, archives, gen>>
    /\ Finish(TRUE, FALSE)
    /\ IF job.kind = "reconcile" /\ Exists(job.old) /\ job.old # job.gen
       THEN BestEffort(Removed(job.old))
       ELSE UNCHANGED <<cont, spent>>

\* The candidate could not take the name: the old container gets it back.
restoreName ==
    /\ At("unname")
    /\ UNCHANGED <<vol, archives, gen, last>>
    /\ Goto("undo")
    /\ IF Exists(job.old) /\ NameFree(Canonical)
       THEN BestEffort(Renamed(job.old, Canonical))
       ELSE UNCHANGED <<cont, spent>>

\* Variant: the old container is not started again.
rollbackRemovesOnly ==
    /\ At("undo")
    /\ UNCHANGED <<vol, archives, gen>>
    /\ Finish(FALSE, TRUE)
    /\ BestEffort(Removed(job.gen))

\* Stop and remove the candidate, then start what was running.
rollback ==
    /\ At("undo")
    /\ UNCHANGED <<vol, archives, gen>>
    /\ Finish(FALSE, TRUE)
    /\ BestEffort([g \in Generations |->
                      IF g = job.gen THEN NoContainer
                      ELSE IF g = job.old THEN [cont[g] EXCEPT !.running = @ \/ job.oldRan]
                      ELSE cont[g]])

\* The paths that only remove what was created, and the ones that do not even
\* do that.
removeCreated ==
    /\ job.step \in {"drop", "fail"}
    /\ UNCHANGED <<vol, archives, gen>>
    /\ Finish(FALSE, TRUE)
    /\ IF At("drop") THEN BestEffort(Removed(job.gen)) ELSE UNCHANGED <<cont, spent>>

(***************************************************************************)
(* executePower: one call on the canonical container.  Docker kills no     *)
(* container that does not run, and starts none whose ports are taken.     *)
(***************************************************************************)
Report(kind, ok) == last' = [kind |-> kind, ok |-> ok, retry |-> ~ok]

executePower(action) ==
    LET g == InspectContainer
        stops == action \in {"stop", "kill"}
        possible == /\ g # NoContainer
                    /\ action = "kill" => cont[g].running
                    /\ ~stops => PortsFree(g)
    IN  /\ At("idle")
        /\ UNCHANGED <<vol, archives, job, gen>>
        /\ \/ /\ possible /\ UNCHANGED spent
              /\ cont' = (IF stops THEN Stopped(g) ELSE Started(g))
              /\ Report("power", TRUE)
           \/ ~possible /\ Report("power", FALSE) /\ UNCHANGED <<cont, spent>>
           \/ Fails /\ Report("power", FALSE) /\ UNCHANGED cont

(***************************************************************************)
(* executeBackup.  A backup is taken inside the running container; an      *)
(* archive that exists is never taken again.  A restore wants the server   *)
(* stopped when it begins, and may fail to inspect it.                     *)
(***************************************************************************)
createBackup(b) ==
    LET g == InspectContainer
        runs == Exists(g) /\ cont[g].running
    IN  /\ At("idle")
        /\ archives' = [archives EXCEPT ![b] =
                           IF @ = NoContainer /\ runs THEN vol[cont[g].vol] ELSE @]
        /\ Report("backup", archives'[b] # NoContainer)
        /\ UNCHANGED <<cont, vol, job, gen, spent>>

\* Variant: a restore does not want the server stopped.
restoreBackupLive(b) ==
    LET g == InspectContainer IN
    /\ At("idle") /\ Exists(g) /\ archives[b] # NoContainer
    /\ job' = [kind |-> "restore", step |-> "restore", gen |-> g, old |-> g,
               oldRan |-> FALSE, data |-> archives[b], was |-> g, ran |-> FALSE]
    /\ UNCHANGED <<cont, vol, archives, gen, last, spent>>

restoreBackup(b) ==
    LET g == InspectContainer
        allowed == Exists(g) /\ ~cont[g].running /\ archives[b] # NoContainer
    IN  /\ At("idle")
        /\ UNCHANGED <<cont, vol, archives, gen, spent>>
        /\ \/ Report("restore", FALSE) /\ UNCHANGED job
           \/ /\ allowed /\ UNCHANGED last
              /\ job' = [kind |-> "restore", step |-> "restore", gen |-> g, old |-> g,
                         oldRan |-> FALSE, data |-> archives[b], was |-> g, ran |-> FALSE]

\* RestoreNamedVolume: a command in a helper container empties the volume and unpacks
\* the archive.  ExecInContainer does not look at its exit code, so the restore that
\* got no further than removing some files, or unpacking some, succeeds as well.
RestoreNamedVolume ==
    LET v == cont[job.gen].vol IN
    /\ At("restore")
    /\ UNCHANGED <<cont, archives, gen>>
    /\ \E files \in (SUBSET vol[v]) \cup (SUBSET job.data) : vol' = [vol EXCEPT ![v] = files]
    /\ \/ Finish(TRUE, FALSE) /\ UNCHANGED spent
       \/ Fails /\ Finish(FALSE, TRUE)

deleteBackup(b) ==
    /\ At("idle")
    /\ archives' = [archives EXCEPT ![b] = NoContainer]
    /\ Report("backup", TRUE)
    /\ UNCHANGED <<cont, vol, job, gen, spent>>

(***************************************************************************)
(* File requests (ExecuteFileOperation), at any step of an operation: one  *)
(* that lists, reads, makes, moves or removes runs in the container, which *)
(* it starts for that if it finds it stopped, and stops again afterwards,  *)
(* whatever happened to it or to its name in between.                      *)
(***************************************************************************)
\* The container is started or stopped for a file: does an operation notice?
Meets == spent' = [spent EXCEPT !.met = @ \/ ~At("idle")]

\* ensureContainerRunning: InspectContainer.
fileInspect ==
    LET g == InspectContainer IN
    /\ borrow = "no" /\ g # NoContainer /\ ~cont[g].running
    /\ borrow' = "start"
    /\ UNCHANGED <<cont, vol, archives, job, last, gen, spent>>

\* ensureContainerRunning: StartContainer.  When it is reported as failed the request
\* ends there, and nobody stops the container if it has started all the same.
fileStart ==
    LET g == InspectContainer IN
    /\ borrow = "start"
    /\ UNCHANGED <<vol, archives, job, last, gen>>
    /\ \/ /\ g # NoContainer /\ PortsFree(g) /\ cont' = Started(g) /\ Meets
          /\ borrow' \in {"stop", "no"}
       \/ borrow' = "no" /\ UNCHANGED <<cont, spent>>

\* restoreContainerState; an error is only logged.
fileStop ==
    LET g == InspectContainer IN
    /\ borrow = "stop" /\ borrow' = "no"
    /\ UNCHANGED <<vol, archives, job, last, gen>>
    /\ \/ g # NoContainer /\ cont' = Stopped(g) /\ Meets
       \/ UNCHANGED <<cont, spent>>

Written(g) ==
    /\ spent.files < MaxFiles
    /\ vol' = Copied({spent.files + 1}, cont[g].vol)
    /\ spent' = [spent EXCEPT !.files = @ + 1]
    /\ UNCHANGED <<cont, archives, job, borrow, last, gen>>

\* writeFile unpacks into the container, which need not run (ensureContainerExists).
writeFile == InspectContainer # NoContainer /\ Written(InspectContainer)

(***************************************************************************)
(* The environment: the game writes files; the Agent stops, and the        *)
(* interrupted operation is not run again (NotRunAgainAfterRestart).       *)
(***************************************************************************)
GameWrites(g) == Exists(g) /\ cont[g].running /\ Written(g)

AgentStops ==
    /\ ~At("idle") \/ borrow # "no"
    /\ spent.stops < MaxAgentStops
    /\ job' = Idle /\ borrow' = "no"
    /\ last' = IF At("idle") THEN last
               ELSE [kind |-> "interrupted", ok |-> FALSE, retry |-> FALSE]
    /\ spent' = [spent EXCEPT !.stops = @ + 1]
    /\ UNCHANGED <<cont, vol, archives, gen>>

\* The steps of the tasks.
TaskStep ==
    \/ \E g \in Generations, trusted, run, install \in BOOLEAN :
          \/ executeProvision(g, trusted, run, install)
          \/ executeReconcile(g, trusted, run, install)
    \/ provisionCreate \/ reconcileCreate \/ reconcileStop \/ cloneContainerData
    \/ installBundleArtifacts \/ StartContainer \/ waitForHealthyRuntime
    \/ renameOldAside \/ renameCandidate \/ reportSuccess
    \/ restoreName \/ rollback \/ removeCreated
    \/ \E action \in {"start", "stop", "restart", "kill"} : executePower(action)
    \/ \E b \in LocalBackups : createBackup(b) \/ restoreBackup(b) \/ deleteBackup(b)
    \/ RestoreNamedVolume

RuntimeNext ==
    \/ TaskStep /\ UNCHANGED borrow
    \/ fileInspect \/ fileStart \/ fileStop \/ writeFile
    \/ \E g \in Generations : GameWrites(g)
    \/ AgentStops

RuntimeSpec == RuntimeInit /\ [][RuntimeNext]_runtimeVars

-----------------------------------------------------------------------------
(***************************************************************************)
(* Correctness.                                                            *)
(***************************************************************************)
\* Faults that are excepted below: a second failure may hit the rollback itself, and
\* a call that failed with effect is not undone.
OneFailure == spent.failures <= 1 /\ ~spent.lost

\* Did the inspection find the container that has the canonical name?
Found == job.old = job.was

ReconcileFails ==
    ~At("idle") /\ job.kind = "reconcile" /\ job' = Idle /\ last'.kind = "reconcile" /\ ~last'.ok

\* When a reconcile fails because one Docker call, the inspection or the health check
\* did, at whatever step, the container it was to replace has its name when it ends:
\* "Any failed start/health/rename restores the old generation"
\* (docker_executor.go:518).  It has its files, unless the inspection failed: then
\* artifacts were unpacked over them.  And it runs if and only if it did, unless a file
\* request started or stopped a container during an operation, which nothing in the
\* code prevents.  Second failures and lost answers are excepted (OneFailure).
FailedReconcileRestoresOld ==
    [][(ReconcileFails /\ OneFailure' /\ job.was # NoContainer) =>
          /\ cont'[job.was] # NoContainer
          /\ cont'[job.was].name = Canonical
          /\ Found => job.data \subseteq vol'[cont'[job.was].vol]
          /\ ~spent.met => cont'[job.was].running = job.ran]_runtimeVars

\* A reconcile that replaces a container loses none of its files, however many
\* attempts, failed, half done or interrupted, came before, and whatever file requests
\* do meanwhile: what the old container had when it was frozen is in the new one's
\* volume when the names switch.
SwitchKeepsData ==
    [][(At("switch") /\ job'.step = "remove" /\ Exists(job.old)) =>
          job.data \subseteq vol[cont[job.gen].vol]]_runtimeVars

\* Nothing is copied or restored into a volume that a running container has
\* mounted, and no volume is copied that one writes (executeProvision commits
\* artifacts while the container is stopped, executeReconcile freezes the source
\* of the copy).  Excepted is what the code does not prevent: a container that an
\* interrupted operation, a rollback that failed or a lost answer left running, one that
\* a file request started during an operation, and one that the inspection did not find.
QuietVolume ==
    (/\ spent.stops = 0 /\ OneFailure /\ ~spent.met
     /\ job.step \in {"clone", "install", "restore"} /\ Found) =>
        \A g \in Generations :
            (Exists(g) /\ cont[g].running) =>
                /\ cont[g].vol # cont[job.gen].vol
                /\ (job.step = "clone" => g # job.old)
=============================================================================
