------------------------------ MODULE MCServers ------------------------------
(***************************************************************************)
(* What happens to a server and its data: the desired state and the tasks  *)
(* that apply it, scheduled runs, the container on the node, the archives  *)
(* of its backups there and in the object store, and its files.  The parts *)
(* share no state, so the part that moves is chosen at the start.          *)
(***************************************************************************)
EXTENDS DesiredState, ScheduleRuns, ServerRuntime, AgentArchive,
        ObjectArchive, ServerFiles, TLC

CONSTANTS server1, server2, revision1, revision2, root, variable, schedule1

VARIABLE part

MCSigner == [r \in Revisions |-> root]
MCDeclared == [r \in Revisions |-> {variable}]

\* One schedule of each kind: schedule1 forbids overlap and catches up, the
\* other allows overlap and does not catch up.  Both are of one server.
MCServerOf == [s \in Schedules |-> server1]
MCMissed == [s \in Schedules |-> IF s = schedule1 THEN "catch-up" ELSE "run-once"]
MCConcurrency == [s \in Schedules |-> IF s = schedule1 THEN "forbid" ELSE "allow"]

\* The two backups have the same content, so they share an object.
MCDigestOf == [b \in Backups |-> 1]

Symmetric == Permutations(Replicas) \cup Permutations(Panels) \cup Permutations(FileRequests)

\* A server with a backup on the node, or with a file request that starts its container,
\* has had two generations, no stop of the agent and no lost answer, and not both of them
\* at once.  One that has the last generation has had one failure or one stop.
BoundedRuntime ==
    LET stored == \E b \in LocalBackups : archives[b] # NoContainer
        started == borrow # "no" \/ spent.met
    IN  /\ stored \/ started => spent.stops = 0 /\ gen <= 2 /\ ~spent.lost
        /\ ~(stored /\ started)
        /\ gen = MaxGeneration => spent.failures + spent.stops <= 1

serversInit ==
    /\ part \in {"desired", "schedule", "runtime", "local", "remote", "files"}
    /\ DesiredInit /\ ScheduleInit /\ RuntimeInit /\ ArchiveFsInit /\ Init /\ FilesInit
    /\ part # "files" => running /\ \A q \in FileRequests : file[q].kind = "read"

serversNext ==
    /\ UNCHANGED part
    /\ \/ /\ part = "desired" /\ DesiredNext
          /\ UNCHANGED <<scheduleVars, runtimeVars, archiveFsVars, vars, filesVars>>
       \/ /\ part = "schedule" /\ ScheduleNext
          /\ UNCHANGED <<desiredVars, runtimeVars, archiveFsVars, vars, filesVars>>
       \/ /\ part = "runtime" /\ RuntimeNext /\ BoundedRuntime'
          /\ UNCHANGED <<desiredVars, scheduleVars, archiveFsVars, vars, filesVars>>
       \/ /\ part = "local" /\ ArchiveFsNext
          /\ UNCHANGED <<desiredVars, scheduleVars, runtimeVars, vars, filesVars>>
       \/ /\ part = "remote" /\ Next
          /\ UNCHANGED <<desiredVars, scheduleVars, runtimeVars, archiveFsVars, filesVars>>
       \/ /\ part = "files" /\ FilesNext
          /\ UNCHANGED <<desiredVars, scheduleVars, runtimeVars, archiveFsVars, vars>>

ServersSpec ==
    serversInit /\ [][serversNext]_<<part, desiredVars, scheduleVars, runtimeVars,
                                     archiveFsVars, vars, filesVars>>
=============================================================================
