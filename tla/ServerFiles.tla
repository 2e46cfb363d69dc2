---------------------------- MODULE ServerFiles -----------------------------
(***************************************************************************)
(* File requests for one server in production: the control plane checks    *)
(* and dispatches them (store/postgres_controlplane.go), the agent runs    *)
(* them one at a time in the receive loop of its session, in a container   *)
(* that it starts for that when it is stopped (agent/file_operations.go),  *)
(* while a worker of the agent runs the power or restore task of the       *)
(* server.  What a request does to the files is left out: exec does not    *)
(* even tell whether it was done.  How frames travel is NodeStream's.      *)
(***************************************************************************)
EXTENDS Naturals, Sequences

CONSTANTS
    FileRequests,  \* requests to list, read, write, make, move or remove
    Panels,        \* control-plane processes, each with gates of its own
    NoRequest,
    MaxTasks,      \* bound on the tasks of the server
    AgentFails     \* may Docker refuse a call, a session end and the agent die?

ASSUME ServerFilesAssumption ==
    NoRequest \notin FileRequests /\ MaxTasks \in Nat /\ AgentFails \in BOOLEAN

FileKinds == {"read", "exec", "write"}   \* list and read; make, move and remove; write
Mutations == {"exec", "write"}

VARIABLES
    file,      \* each request: kind, progress, panel, tasks requested before its check
    gates,     \* fileMutationGates of each panel: the request that holds the lock
    frames,    \* requests on their way to the agent
    work,      \* the request the agent is at, and whether it found the container running
    running,   \* is the container running?
    intended,  \* the power state of the last power task
    serverTask, \* the task of the server that is under way
    disturbed  \* ghost: a power task met a container started for a file, or the call that
               \* was to leave the container as it should be failed

filesVars == <<file, gates, frames, work, running, intended, serverTask, disturbed>>

NoWork == [request |-> NoRequest, step |-> "idle", wasRunning |-> FALSE, cut |-> FALSE]

FilesInit ==
    /\ \E kind \in [FileRequests -> FileKinds] :
         file = [q \in FileRequests |-> [kind |-> kind[q], pc |-> "new", panel |-> NoRequest, seen |-> 0]]
    /\ gates = [p \in Panels |-> NoRequest]
    /\ frames = <<>>
    /\ work = NoWork
    /\ running \in BOOLEAN /\ intended = running
    /\ serverTask = [type |-> "none", step |-> "none", serial |-> 0]
    /\ disturbed = FALSE

atAgent == <<work, running, disturbed>>
atTasks == <<intended, serverTask>>

-----------------------------------------------------------------------------
(* Control plane *)

Returned(Q) ==
    /\ file' = [q \in FileRequests |-> IF q \in Q THEN [file[q] EXCEPT !.pc = "returned"] ELSE file[q]]
    /\ gates' = [p \in Panels |-> IF gates[p] \in Q THEN NoRequest ELSE gates[p]]

\* Files and ReadFile take no gate.
readFiles(q) ==
    /\ file[q].pc = "new" /\ file[q].kind = "read"
    /\ file' = [file EXCEPT ![q].pc = "checked"]
    /\ UNCHANGED <<gates, frames, atAgent, atTasks>>

\* Variant: whether the server is being restored is not asked.
beginFileMutationBlind(q, p) ==
    /\ file[q].pc = "new" /\ file[q].kind \in Mutations /\ gates[p] = NoRequest
    /\ gates' = [gates EXCEPT ![p] = q]
    /\ file' = [file EXCEPT ![q] = [@ EXCEPT !.pc = "checked", !.panel = p, !.seen = serverTask.serial]]
    /\ UNCHANGED <<frames, atAgent, atTasks>>

(* beginFileMutation: lock the gate, then ask for a restore task that is     *)
(* queued, leased or running; refused, it unlocks.                           *)
beginFileMutation(q, p) ==
    /\ file[q].pc = "new" /\ file[q].kind \in Mutations /\ gates[p] = NoRequest
    /\ IF serverTask.type = "restore"
       THEN Returned({q})
       ELSE /\ gates' = [gates EXCEPT ![p] = q]
            /\ file' = [file EXCEPT ![q] = [@ EXCEPT !.pc = "checked", !.panel = p, !.seen = serverTask.serial]]
    /\ UNCHANGED <<frames, atAgent, atTasks>>

DispatchFile(q) ==
    /\ file[q].pc = "checked"
    /\ file' = [file EXCEPT ![q].pc = "waiting"]
    /\ frames' = Append(frames, q)
    /\ UNCHANGED <<gates, atAgent, atTasks>>

\* fileOpTimeout: the request returns and its gate opens; the agent goes on.
DispatchTimesOut(q) ==
    /\ file[q].pc = "waiting"
    /\ Returned({q})
    /\ UNCHANGED <<frames, atAgent, atTasks>>

-----------------------------------------------------------------------------
(* Agent: ExecuteFileOperation *)

\* The answer goes to the request if it still waits.
Answer(q) == Returned({q} \cap {r \in FileRequests : file[r].pc = "waiting"})

(* handleFileOperation: ensureContainerExists for a write, else the          *)
(* InspectContainer of ensureContainerRunning; either may fail.              *)
ExecuteFileOperation ==
    /\ work.step = "idle" /\ frames # <<>>
    /\ frames' = Tail(frames)
    /\ \/ /\ Answer(Head(frames)) /\ UNCHANGED work
       \/ /\ work' = [request |-> Head(frames), wasRunning |-> running, cut |-> FALSE,
                      step |-> IF running \/ file[Head(frames)].kind = "write" THEN "exec" ELSE "start"]
          /\ UNCHANGED <<file, gates>>
    /\ UNCHANGED <<running, disturbed, atTasks>>

(* StartContainer, which may fail although the container started: the        *)
(* request is then answered and nobody stops the container.                  *)
ensureContainerRunning ==
    /\ work.step = "start"
    /\ \/ /\ ~work.cut /\ running' = TRUE
          /\ work' = [work EXCEPT !.step = "exec"]
          /\ UNCHANGED <<file, gates, disturbed>>
       \/ /\ running' \in {running, running \/ AgentFails}
          /\ disturbed' = (disturbed \/ running' # running)
          /\ work' = NoWork
          /\ Answer(work.request)
    /\ UNCHANGED <<frames, atTasks>>

\* listFiles, readFile, makeDirectory, moveFile, removeFile; writeFile.
runFileOperation ==
    /\ work.step = "exec"
    /\ IF file[work.request].kind = "write"
       THEN work' = NoWork /\ Answer(work.request)
       ELSE work' = [work EXCEPT !.step = "settle"] /\ UNCHANGED <<file, gates>>
    /\ UNCHANGED <<frames, running, disturbed, atTasks>>

\* Variant: the container is stopped whatever state it was found in.
stopContainerAfter ==
    /\ work.step = "settle"
    /\ \/ ~work.cut /\ running' = FALSE /\ UNCHANGED disturbed
       \/ AgentFails /\ disturbed' = TRUE /\ UNCHANGED running
    /\ work' = NoWork /\ Answer(work.request)
    /\ UNCHANGED <<frames, atTasks>>

(* restoreContainerState: stop the container if it was not running.  Any     *)
(* error of the stop leaves it up and is only logged; with the session's     *)
(* context cancelled the stop always fails.                                  *)
restoreContainerState ==
    /\ work.step = "settle"
    /\ \/ work.wasRunning /\ UNCHANGED <<running, disturbed>>
       \/ ~work.wasRunning /\ ~work.cut /\ running' = FALSE /\ UNCHANGED disturbed
       \/ ~work.wasRunning /\ AgentFails /\ disturbed' = TRUE /\ UNCHANGED running
    /\ work' = NoWork /\ Answer(work.request)
    /\ UNCHANGED <<frames, atTasks>>

\* Is the container up, or about to be, for a file operation alone?
Borrowed == work.step # "idle" /\ file[work.request].kind # "write" /\ ~work.wasRunning

\* The session ends: its context is cancelled, and every request in it fails.
SessionLost ==
    /\ AgentFails
    /\ frames # <<>> \/ work.step # "idle"
    /\ Returned({q \in FileRequests : file[q].pc = "waiting"})
    /\ frames' = <<>>
    /\ work' = [work EXCEPT !.cut = work.step # "idle"]
    /\ UNCHANGED <<running, disturbed, atTasks>>

\* The agent dies in the middle of an operation, and nothing is undone.
AgentDies ==
    /\ AgentFails /\ work.step # "idle"
    /\ Returned({q \in FileRequests : file[q].pc = "waiting"})
    /\ frames' = <<>> /\ work' = NoWork
    /\ disturbed' = (disturbed \/ Borrowed)
    /\ UNCHANGED <<running, atTasks>>

-----------------------------------------------------------------------------
(* Tasks of the server, one at a time *)

RequestTask(type) ==
    /\ serverTask.type = "none" /\ serverTask.serial < MaxTasks
    /\ type = "restore" => ~intended
    /\ serverTask' = [type |-> type, step |-> "queued", serial |-> serverTask.serial + 1]
    /\ UNCHANGED <<file, gates, frames, atAgent, intended>>

TaskEnded == [serverTask EXCEPT !.type = "none", !.step = "none"]

(* executePower: one call to the runtime.  It may fail, carried out or not,  *)
(* and the task is delivered again while attempts are left.                  *)
powerTask ==
    /\ serverTask.type \in {"start", "stop"}
    /\ \/ /\ running' = (serverTask.type = "start") /\ intended' = running'
          /\ disturbed' = (disturbed \/ Borrowed)
          /\ serverTask' = TaskEnded
       \/ /\ AgentFails /\ running' \in {running, serverTask.type = "start"}
          /\ disturbed' = (disturbed \/ running' # running)
          /\ serverTask' \in {serverTask, TaskEnded} /\ UNCHANGED intended
    /\ UNCHANGED <<file, gates, frames, work>>

\* restoreBackup: refused while the container runs.
restoreTask ==
    /\ serverTask.type = "restore" /\ serverTask.step = "queued"
    /\ serverTask' = IF running THEN TaskEnded ELSE [serverTask EXCEPT !.step = "restoring"]
    /\ UNCHANGED <<file, gates, frames, atAgent, intended>>

restoreTaskEnds ==
    /\ serverTask.step = "restoring"
    /\ serverTask' = TaskEnded
    /\ UNCHANGED <<file, gates, frames, atAgent, intended>>

-----------------------------------------------------------------------------
FilesNext ==
    \/ \E q \in FileRequests :
         \/ readFiles(q) \/ DispatchFile(q) \/ DispatchTimesOut(q)
         \/ \E p \in Panels : beginFileMutation(q, p)
    \/ ExecuteFileOperation \/ ensureContainerRunning \/ runFileOperation
    \/ restoreContainerState \/ SessionLost \/ AgentDies
    \/ \E type \in {"start", "stop", "restore"} : RequestTask(type)
    \/ powerTask \/ restoreTask \/ restoreTaskEnds

FilesSpec == FilesInit /\ [][FilesNext]_filesVars

-----------------------------------------------------------------------------
AtRest == work.step = "idle" /\ serverTask.type = "none"

\* File operations leave the server in the power state of the last power task that
\* succeeded, however many of them follow each other on the same container and whatever
\* times out.  Excepted are a power task that met a container which was up only for a
\* file, a start or a stop that failed although it was carried out, and a container
\* started for a file that was not stopped again: Docker refused the stop, or the
\* session or the agent ended before it.  And a mutation that is under way during a
\* restore passed its check before the restore was requested.
FilesRespectTasks ==
    /\ AtRest /\ ~disturbed => running = intended
    /\ \A q \in FileRequests :
         /\ file[q].kind \in Mutations /\ file[q].pc \in {"checked", "waiting"}
         /\ serverTask.type = "restore"
         => file[q].seen < serverTask.serial

\* What ExecuteFileOperation's comment says of a container it starts for a file: it
\* is stopped again "to preserve the user's intended power state".
PowerPreserved == AtRest => running = intended
=============================================================================
