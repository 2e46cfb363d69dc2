-------------------------- MODULE MemoryOperations --------------------------
(***************************************************************************)
(* Operations on one server of the development store (store/operations.go, *)
(* backups.go, network_startup.go, runtime_adapter.go, node_liveness.go):  *)
(* a request checks and writes under the store's lock and leaves the rest  *)
(* to a goroutine, which takes the lock again to begin and to finish.      *)
(*                                                                         *)
(* A request carries an idempotency key; its scope is the request, what it *)
(* is about, and the key, and its digest is the rest of its content.       *)
(***************************************************************************)
EXTENDS Naturals

CONSTANTS
    Operations,    \* operation ids: numbers, in the order they are created
    Points,        \* backup ids
    RetryKeys,     \* idempotency keys
    MaxGeneration  \* bound on the generations of the server

ASSUME MemoryOperationsAssumption ==
    /\ Operations \subseteq Nat \ {0}
    /\ MaxGeneration \in Nat

PowerTypes == {"start", "stop", "restart", "kill"}

VARIABLES
    realRuntime,  \* is a RuntimeAdapter configured? EnableRealRuntime comes before all else
    machine,      \* the node: available or offline, and whether its heartbeat is too old
    managed,      \* the server row
    operation,    \* rows of m.operations, with what their goroutine was given
    point,        \* status of each backup
    idempotency   \* scope |-> the operation it was answered with, and its digest

memoryVars == <<realRuntime, machine, managed, operation, point, idempotency>>

MemoryInit ==
    /\ realRuntime \in BOOLEAN
    /\ machine = [condition |-> "available", aged |-> FALSE]
    /\ managed = [lifecycle |-> "absent", desired |-> "stopped", observed |-> "unknown",
                  generation |-> 0, observedGeneration |-> 0, container |-> FALSE]
    /\ operation = << >>
    /\ point = [b \in Points |-> "absent"]
    /\ idempotency = << >>

-----------------------------------------------------------------------------
(* Nodes *)

\* Heartbeat.
Heartbeat ==
    /\ machine' = [condition |-> "available", aged |-> FALSE]
    /\ UNCHANGED <<realRuntime, managed, operation, point, idempotency>>

\* nodeOfflineAfter passes without a heartbeat.
HeartbeatAges ==
    /\ machine' = [machine EXCEPT !.aged = TRUE]
    /\ UNCHANGED <<realRuntime, managed, operation, point, idempotency>>

\* reconcileNodeLivenessLocked: on every read, and before the checks of every
\* request but DeleteBackup.
reconcileNodeLiveness ==
    /\ machine.aged
    /\ machine' = [machine EXCEPT !.condition = "offline"]
    /\ UNCHANGED <<realRuntime, managed, operation, point, idempotency>>

Available == machine.condition = "available" /\ ~machine.aged

-----------------------------------------------------------------------------
(* Requests *)

isTerminalOperation(o) == operation[o].status \in {"succeeded", "failed"}

\* activeExclusiveOperationLocked: every operation that is not at its end.
Unfinished == {o \in DOMAIN operation : ~isTerminalOperation(o)}

NextOperation == CHOOSE o \in Operations \ DOMAIN operation :
                    \A p \in Operations \ DOMAIN operation : o <= p

(* NewQueuedOperation, its idempotency record, and the generation it is for. *)
Enqueue(scope, digest, type, generation, b) ==
    /\ Operations \ DOMAIN operation # {}
    /\ LET o == NextOperation IN
       /\ operation' = [p \in DOMAIN operation \cup {o} |->
            IF p = o
            THEN [type |-> type, status |-> "queued", generation |-> generation, point |-> b,
                  from |-> IF b \in Points THEN point[b] ELSE "none"]
            ELSE operation[p]]
       /\ idempotency' = [s \in DOMAIN idempotency \cup {scope} |->
            IF s = scope THEN [operation |-> o, digest |-> digest] ELSE idempotency[s]]
    /\ UNCHANGED <<realRuntime, machine>>

\* A request whose scope is known is answered with its operation, or refused.
New(scope) == scope \notin DOMAIN idempotency

\* A request for what an operation is already doing is answered with it.
JoinActive(scope, digest, o) ==
    /\ idempotency' = [s \in DOMAIN idempotency \cup {scope} |->
         IF s = scope THEN [operation |-> o, digest |-> digest] ELSE idempotency[s]]
    /\ UNCHANGED <<realRuntime, machine, managed, operation, point>>

CreateServer(k) ==
    LET scope == <<"create", "none", k>> IN
    /\ New(scope) /\ Available /\ managed.lifecycle = "absent"
    /\ Enqueue(scope, "none", "provision", 1, "none")
    /\ managed' = [managed EXCEPT !.lifecycle = "provisioning", !.generation = 1]
    /\ UNCHANGED point

Requested(action) ==
    [managed EXCEPT
       !.generation = @ + 1,
       !.desired = CASE action = "start" -> "running"
                     [] action \in {"stop", "kill"} -> "stopped"
                     [] OTHER -> @,
       !.observed = IF action = "start" THEN "starting" ELSE "stopping"]

RequestPower(action, k) ==
    LET scope == <<"power", "none", k>> IN
    /\ New(scope) /\ Available
    /\ \/ \E o \in Unfinished : operation[o].type = action /\ JoinActive(scope, action, o)
       \/ /\ Unfinished = {} /\ managed.lifecycle = "ready"
          /\ managed.generation < MaxGeneration
          /\ managed' = Requested(action)
          /\ Enqueue(scope, action, action, managed.generation + 1, "none")
          /\ UNCHANGED point

\* Variant: nothing is asked about the operations that are not at their end.
requestReconcileBusy(g, k) ==
    LET scope == <<"reconcile", "none", k>> IN
    /\ New(scope) /\ Available
    /\ managed.generation = g /\ managed.lifecycle = "ready" /\ g < MaxGeneration
    /\ managed' = [managed EXCEPT !.generation = g + 1]
    /\ Enqueue(scope, g, "reconcile", g + 1, "none")
    /\ UNCHANGED point

(* requestReconcile, for a change of allocations or of startup values that   *)
(* the caller made for generation g.                                         *)
requestReconcile(g, k) ==
    LET scope == <<"reconcile", "none", k>> IN
    /\ New(scope) /\ Available
    /\ managed.generation = g /\ Unfinished = {} /\ managed.lifecycle = "ready" /\ g < MaxGeneration
    /\ managed' = [managed EXCEPT !.generation = g + 1]
    /\ Enqueue(scope, g, "reconcile", g + 1, "none")
    /\ UNCHANGED point

CreateBackup(b, k) ==
    LET scope == <<"backup", "none", k>> IN
    /\ New(scope) /\ Available /\ managed.lifecycle = "ready"
    /\ \/ \E o \in Unfinished : operation[o].type = "backup" /\ JoinActive(scope, "none", o)
       \/ /\ Unfinished = {} /\ point[b] = "absent"
          /\ Enqueue(scope, "none", "backup", managed.generation, b)
          /\ point' = [point EXCEPT ![b] = "creating"]
          /\ UNCHANGED managed

RestoreBackup(b, k) ==
    LET scope == <<"restore", b, k>> IN
    /\ New(scope) /\ Available /\ managed.lifecycle = "ready" /\ managed.observed = "stopped"
    /\ point[b] = "ready" /\ Unfinished = {} /\ managed.generation < MaxGeneration
    /\ managed' = [managed EXCEPT !.generation = @ + 1, !.desired = "stopped"]
    /\ Enqueue(scope, b, "restore", managed.generation + 1, b)
    /\ point' = [point EXCEPT ![b] = "restoring"]

DeleteBackup(b, k) ==
    LET scope == <<"backup-delete", b, k>> IN
    /\ New(scope) /\ point[b] \in {"ready", "failed"} /\ Unfinished = {}
    /\ Enqueue(scope, b, "backup-delete", managed.generation, b)
    /\ point' = [point EXCEPT ![b] = "deleting"]
    /\ UNCHANGED managed

-----------------------------------------------------------------------------
(* Goroutines *)

beginOperation(o) ==
    /\ operation[o].status = "queued"
    /\ operation' = [operation EXCEPT ![o].status = "running"]
    /\ UNCHANGED <<realRuntime, machine, managed, point, idempotency>>

Running(o, types) == operation[o].status = "running" /\ operation[o].type \in types

Targets(o) == operation[o].generation = managed.generation

(* completeOperationForGenerationLocked: OPERATION_STALE unless the server   *)
(* is still at the operation's generation.                                   *)
Complete(o) ==
    /\ operation' = [operation EXCEPT ![o].status = IF Targets(o) THEN "succeeded" ELSE "failed"]
    /\ UNCHANGED <<realRuntime, machine, idempotency>>

Seen(change) == [change EXCEPT !.observedGeneration = change.generation]

finishProvision(o) ==
    /\ Running(o, {"provision"})
    /\ Complete(o) /\ UNCHANGED point
    /\ managed' = IF Targets(o)
                  THEN Seen([managed EXCEPT !.lifecycle = "ready", !.observed = "stopped",
                                            !.container = realRuntime])
                  ELSE managed

(* finishPower: what the action leads to, or with a runtime whatever         *)
(* GetServerStatus says of the container.                                    *)
finishPower(o) ==
    /\ Running(o, PowerTypes)
    /\ realRuntime => managed.container
    /\ \E power \in {"running", "stopped", "starting", "unknown"} :
         /\ \/ realRuntime
            \/ power = IF \/ operation[o].type = "start"
                          \/ operation[o].type = "restart" /\ managed.desired = "running"
                       THEN "running" ELSE "stopped"
         /\ managed' = IF Targets(o) THEN Seen([managed EXCEPT !.observed = power]) ELSE managed
    /\ Complete(o) /\ UNCHANGED point

(* finishProvisionWithRuntime and finishPowerWithRuntime: the runtime fails. *)
runtimeFails(o) ==
    /\ realRuntime /\ Running(o, PowerTypes \cup {"provision"})
    /\ operation' = [operation EXCEPT ![o].status = "failed"]
    /\ UNCHANGED <<realRuntime, machine, managed, point, idempotency>>

finishReconcile(o) ==
    /\ Running(o, {"reconcile"})
    /\ Complete(o) /\ UNCHANGED point
    /\ managed' = IF Targets(o) THEN Seen(managed) ELSE managed

finishBackup(o) ==
    /\ Running(o, {"backup"})
    /\ Complete(o) /\ UNCHANGED managed
    /\ point' = [point EXCEPT ![operation[o].point] = IF Targets(o) THEN "ready" ELSE "failed"]

\* A restore that fails leaves its backup as good as it was.
finishRestoreBackup(o) ==
    /\ Running(o, {"restore"})
    /\ Complete(o)
    /\ point' = [point EXCEPT ![operation[o].point] = "ready"]
    /\ managed' = IF Targets(o)
                  THEN Seen([managed EXCEPT !.desired = "stopped", !.observed = "stopped"])
                  ELSE managed

finishDeleteBackup(o) ==
    /\ Running(o, {"backup-delete"})
    /\ Complete(o) /\ UNCHANGED managed
    /\ point' = [point EXCEPT ![operation[o].point] =
         IF Targets(o) THEN "deleted" ELSE operation[o].from]

-----------------------------------------------------------------------------
MemoryNext ==
    \/ Heartbeat \/ HeartbeatAges \/ reconcileNodeLiveness
    \/ \E k \in RetryKeys :
         \/ CreateServer(k)
         \/ \E action \in PowerTypes : RequestPower(action, k)
         \/ \E g \in 0 .. MaxGeneration : requestReconcile(g, k)
         \/ \E b \in Points : CreateBackup(b, k) \/ RestoreBackup(b, k) \/ DeleteBackup(b, k)
    \/ \E o \in DOMAIN operation :
         \/ beginOperation(o) \/ finishProvision(o) \/ finishPower(o) \/ runtimeFails(o)
         \/ finishReconcile(o) \/ finishBackup(o) \/ finishRestoreBackup(o)
         \/ finishDeleteBackup(o)

MemorySpec == MemoryInit /\ [][MemoryNext]_memoryVars

-----------------------------------------------------------------------------
\* At most one operation of the server is under way; it is for the generation the
\* server is at, so that none ever ends as OPERATION_STALE; and a backup is
\* creating, restoring or deleting exactly while the operation that does it is
\* under way: no goroutine leaves a backup locked, and none works on a backup
\* that another request has taken.
OperationsAreSound ==
    /\ \A o, p \in Unfinished : o = p
    /\ \A o \in Unfinished : Targets(o)
    /\ \A b \in Points :
         point[b] \in {"creating", "restoring", "deleting"} <=>
         \E o \in Unfinished :
            /\ operation[o].point = b
            /\ <<operation[o].type, point[b]>> \in
                 {<<"backup", "creating">>, <<"restore", "restoring">>, <<"backup-delete", "deleting">>}
=============================================================================
