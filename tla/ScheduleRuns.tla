---------------------------- MODULE ScheduleRuns ----------------------------
(*****************************************************************************)
(* Scheduled actions (store/automation.go, reconcileAutomation): every       *)
(* control-plane replica claims due schedules, performs their actions and    *)
(* records the outcome in schedule_runs.                                     *)
(*                                                                           *)
(* Time is counted in minutes.  A schedule is due at the multiples of        *)
(* Period; a run is identified by its schedule and its time, as in the       *)
(* unique index of schedule_runs.  Disabled schedules never become due and   *)
(* are left out.                                                             *)
(*****************************************************************************)
EXTENDS ControlPlane, Integers, FiniteSets

CONSTANTS
    Schedules,
    Servers,
    ServerOf,       \* [Schedules -> Servers]
    Cleanup,        \* schedules whose action is retention-cleanup: no task
    Missed,         \* missed_run_policy of each schedule
    Concurrency,    \* concurrency_policy of each schedule
    Period,         \* minutes between two runs, from the cron expression
    ScheduleBatch,  \* schedules processed in one tick (16 in the code)
    MaxTime,        \* bound on the clock
    MaxSchedulerCrashes \* bound on crashes of replicas

ASSUME ScheduleAssumption ==
    /\ Period \in Nat \ {0} /\ ScheduleBatch \in Nat \ {0}
    /\ MaxTime \in Nat \ {0} /\ MaxSchedulerCrashes \in Nat
    /\ Cleanup \subseteq Schedules
    /\ ServerOf \in [Schedules -> Servers]
    /\ Missed \in [Schedules -> {"skip", "run-once", "catch-up"}]
    /\ Concurrency \in [Schedules -> {"forbid", "allow", "replace"}]

Times == {t \in 1..MaxTime : t % Period = 0}
Keys == Schedules \X Times

(* A run that is more than a minute late was missed. *)
Grace == 1

VARIABLES
    clock,
    schedule,   \* schedules: status and next_run_at
    run,        \* schedule_runs.status, "none" for no row
    task,       \* server_tasks of the runs, by idempotency key
    scheduler,  \* progress of RunDueSchedules in each process
    schedulerCrashes,
    created,    \* history: the first time a schedule was to run
    acted,      \* history: how often the action of a run was called
    abandoned   \* history: runs whose replica died

scheduleVars == <<clock, schedule, run, task, scheduler, schedulerCrashes, created, acted, abandoned>>

IdleScheduler == [pc |-> "idle", now |-> 0, left |-> 0, key |-> None, result |-> "none"]

ScheduleInit ==
    /\ clock = 1
    /\ schedule = [s \in Schedules |-> [status |-> "absent", next |-> 0]]
    /\ run = [k \in Keys |-> "none"]
    /\ task = [k \in Keys |-> "none"]
    /\ scheduler = [r \in Replicas |-> IdleScheduler]
    /\ schedulerCrashes = 0
    /\ created = [s \in Schedules |-> 0]
    /\ acted = [k \in Keys |-> 0]
    /\ abandoned = {}

-----------------------------------------------------------------------------
(* Schedules and time *)

(* Variant: a time on the schedule counts as its own successor. *)
NextFrom(t) == ((t + Period - 1) \div Period) * Period

(* parsed.Next: the first time of the schedule strictly after t. *)
NextAfter(t) == (t \div Period + 1) * Period

TimePasses ==
    /\ clock < MaxTime
    /\ clock' = clock + 1
    /\ UNCHANGED <<schedule, run, task, scheduler, schedulerCrashes, created, acted, abandoned>>

CreateSchedule(s) ==
    /\ schedule[s].status = "absent"
    /\ schedule' = [schedule EXCEPT ![s] = [status |-> "enabled", next |-> NextAfter(clock)]]
    /\ created' = [created EXCEPT ![s] = NextAfter(clock)]
    /\ UNCHANGED <<clock, run, task, scheduler, schedulerCrashes, acted, abandoned>>

(* The runs go with the schedule (ON DELETE CASCADE), its tasks do not. *)
DeleteSchedule(s) ==
    /\ schedule[s].status = "enabled"
    /\ schedule' = [schedule EXCEPT ![s].status = "deleted"]
    /\ run' = [k \in Keys |-> IF k[1] = s THEN "none" ELSE run[k]]
    /\ UNCHANGED <<clock, task, scheduler, schedulerCrashes, created, acted, abandoned>>

-----------------------------------------------------------------------------
(* RunDueSchedules *)

(* A tick of reconcileAutomation: the time is taken once for the whole loop. *)
StartScheduleTick(r) ==
    /\ scheduler[r].pc = "idle"
    /\ scheduler' = [scheduler EXCEPT ![r] = [IdleScheduler EXCEPT !.pc = "looping", !.now = clock, !.left = ScheduleBatch]]
    /\ UNCHANGED <<clock, schedule, run, task, schedulerCrashes, created, acted, abandoned>>

Due(s, now) == schedule[s].status = "enabled" /\ schedule[s].next <= now

(* ORDER BY next_run_at LIMIT 1 *)
FirstDue(s, now) == Due(s, now) /\ \A u \in Schedules : Due(u, now) => schedule[s].next <= schedule[u].next

(* Variant: only runs that have started are counted. *)
StartedRun(s) == \E t \in Times : run[<<s, t>>] = "running"

ActiveRun(s) == \E t \in Times : run[<<s, t>>] \in {"queued", "running"}

(* Variant: missed runs are dropped whatever the policy. *)
BaseNow(s, now) == IF now - schedule[s].next > Grace THEN now ELSE schedule[s].next

(* The time from which the next run is computed. *)
Base(s, now) ==
    IF Missed[s] # "catch-up" /\ now - schedule[s].next > Grace THEN now ELSE schedule[s].next

(* claimDueSchedule: one transaction under the leader lock. *)
ClaimDueSchedule(r) ==
    LET now == scheduler[r].now IN
    /\ scheduler[r].pc = "looping" /\ scheduler[r].left > 0
    /\ \E s \in Schedules :
         LET k == <<s, schedule[s].next>>
             skipped == ActiveRun(s) /\ Concurrency[s] # "allow"
         IN
         /\ FirstDue(s, now)
         /\ schedule' = [schedule EXCEPT ![s].next = NextAfter(Base(s, now))]
         /\ run' = IF run[k] # "none" THEN run
                   ELSE [run EXCEPT ![k] = IF skipped THEN "skipped" ELSE "queued"]
         /\ scheduler' = [scheduler EXCEPT ![r].left = @ - 1,
                                       ![r].pc = IF skipped THEN "looping" ELSE "acting",
                                       ![r].key = IF skipped THEN None ELSE k]
    /\ UNCHANGED <<clock, task, schedulerCrashes, created, acted, abandoned>>

(* server_tasks_exclusive_idx: one task in progress per server. *)
ServerIdle(s) == \A k \in Keys : ServerOf[k[1]] = ServerOf[s] => task[k] # "active"

(* CreateBackup, RequestPower or ApplyBackupRetention.  Any of them may be   *)
(* refused: the creator is gone, the quota used up, another task running.    *)
Act(r) ==
    LET k == scheduler[r].key IN
    /\ scheduler[r].pc = "acting"
    /\ acted' = [acted EXCEPT ![k] = @ + 1]
    /\ \/ /\ k[1] \notin Cleanup /\ ServerIdle(k[1])
          /\ task' = [task EXCEPT ![k] = "active"]
          /\ scheduler' = [scheduler EXCEPT ![r].pc = "recording", ![r].result = "running"]
       \/ /\ task' = task
          /\ \E result \in {"failed"} \cup (IF k[1] \in Cleanup THEN {"succeeded"} ELSE {}) :
               scheduler' = [scheduler EXCEPT ![r].pc = "recording", ![r].result = result]
    /\ UNCHANGED <<clock, schedule, run, schedulerCrashes, created, abandoned>>

(* completeScheduleRun, or the run becomes running. *)
Record(r) ==
    LET k == scheduler[r].key IN
    /\ scheduler[r].pc = "recording"
    /\ run' = IF run[k] = "none" THEN run ELSE [run EXCEPT ![k] = scheduler[r].result]
    /\ scheduler' = [scheduler EXCEPT ![r].pc = "looping", ![r].key = None, ![r].result = "none"]
    /\ UNCHANGED <<clock, schedule, task, schedulerCrashes, created, acted, abandoned>>

(* Variant: a run whose task has not succeeded has failed. *)
RunAfterAny(k) ==
    IF run[k] = "running" THEN IF task[k] = "succeeded" THEN "succeeded" ELSE "failed" ELSE run[k]

(* Variant: only successful tasks are looked for. *)
RunAfterSuccess(k) ==
    IF run[k] = "running" /\ task[k] = "succeeded" THEN task[k] ELSE run[k]

(* What ReconcileScheduleRuns makes of run k. *)
RunAfter(k) ==
    IF run[k] = "running" /\ task[k] \in {"succeeded", "failed"} THEN task[k] ELSE run[k]

(* The loop ends when its limit is reached, nothing is due, or another       *)
(* replica holds the leader lock; then the runs are reconciled.              *)
LoopEnds(r) ==
    /\ scheduler[r].pc = "looping"
    /\ \/ scheduler[r].left = 0
       \/ \A s \in Schedules : ~Due(s, scheduler[r].now)
       \/ \E q \in Replicas \ {r} : scheduler[q].pc = "looping" /\ scheduler[q].left > 0
    /\ scheduler' = [scheduler EXCEPT ![r] = IdleScheduler]
    /\ run' = [k \in Keys |-> RunAfter(k)]
    /\ UNCHANGED <<clock, schedule, task, schedulerCrashes, created, acted, abandoned>>

(* The process dies, its shutdown cancels the loop, or the error of the      *)
(* recording UPDATE is ignored.                                              *)
SchedulerCrashes(r) ==
    /\ schedulerCrashes < MaxSchedulerCrashes /\ scheduler[r].pc # "idle"
    /\ schedulerCrashes' = schedulerCrashes + 1
    /\ abandoned' = abandoned \cup ({scheduler[r].key} \ {None})
    /\ scheduler' = [scheduler EXCEPT ![r] = IdleScheduler]
    /\ UNCHANGED <<clock, schedule, run, task, created, acted>>

(* CompleteTask, AckTask or ReconcileTaskLeases: see TaskStore. *)
TaskEnds(k) ==
    /\ task[k] = "active"
    /\ \E result \in {"succeeded", "failed"} : task' = [task EXCEPT ![k] = result]
    /\ UNCHANGED <<clock, schedule, run, scheduler, schedulerCrashes, created, acted, abandoned>>

-----------------------------------------------------------------------------
ScheduleNext ==
    \/ TimePasses
    \/ \E s \in Schedules : CreateSchedule(s) \/ DeleteSchedule(s)
    \/ \E r \in Replicas :
         \/ StartScheduleTick(r) \/ ClaimDueSchedule(r) \/ Act(r) \/ Record(r) \/ LoopEnds(r) \/ SchedulerCrashes(r)
    \/ \E k \in Keys : TaskEnds(k)

ScheduleStep(r) ==
    ClaimDueSchedule(r) \/ Act(r) \/ Record(r) \/ LoopEnds(r)

ScheduleSpec == ScheduleInit /\ [][ScheduleNext]_scheduleVars

(* The ticker of every replica and its loop go on.  Nothing is assumed of    *)
(* tasks: one may stay in progress for ever (see TaskDelivery).              *)
ScheduleFairness ==
    \A r \in Replicas :
      /\ WF_scheduleVars(StartScheduleTick(r))
      /\ WF_scheduleVars(ScheduleStep(r))

-----------------------------------------------------------------------------
(* Schedules, runs, tasks and replicas have their types. *)
ScheduleTypeOK ==
    /\ clock \in 1..MaxTime /\ schedulerCrashes \in 0..MaxSchedulerCrashes
    /\ schedule \in [Schedules -> [status : {"absent", "enabled", "deleted"}, next : Nat]]
    /\ run \in [Keys -> {"none", "queued", "running", "succeeded", "failed", "skipped"}]
    /\ task \in [Keys -> {"none", "active", "succeeded", "failed"}]
    /\ scheduler \in [Replicas -> [pc : {"idle", "looping", "acting", "recording"}, now : 0..MaxTime,
                                 left : 0..ScheduleBatch, key : Keys \cup {None},
                                 result : {"none", "running", "succeeded", "failed"}]]
    /\ created \in [Schedules -> Nat] /\ acted \in [Keys -> Nat] /\ abandoned \subseteq Keys

(* Two runs of a schedule are in progress together only if its concurrency   *)
(* policy allows it, whichever replicas claimed them (claimDueSchedule).     *)
RunsDoNotOverlap ==
    \A s \in Schedules : Concurrency[s] # "allow" =>
      \A t, u \in Times : run[<<s, t>>] \in {"queued", "running"} /\ run[<<s, u>>] \in {"queued", "running"} => t = u

(* The action of a run is called at most once, by one replica, through       *)
(* stale ticks, crashes and deletions (claimDueSchedule, RunDueSchedules).   *)
ActsOnce == \A k \in Keys : acted[k] <= 1

(* A run that has ended says what became of its task, and it never ends      *)
(* before the task (RunDueSchedules, ReconcileScheduleRuns).                 *)
RunTellsTaskEnd ==
    \A k \in Keys : run[k] \in {"succeeded", "failed", "skipped"} => task[k] \in {"none", run[k]}

(* With catch-up no run is left out: every time before next_run_at has its   *)
(* run (claimDueSchedule).                                                   *)
CatchUpIsComplete ==
    \A s \in Schedules : Missed[s] = "catch-up" /\ schedule[s].status = "enabled" =>
      \A t \in Times : created[s] <= t /\ t < schedule[s].next => run[<<s, t>>] # "none"

(* Every run ends once its task has, or fails without one, unless the        *)
(* replica that claimed it died before it was recorded (RunDueSchedules).    *)
EveryRunEnds ==
    \A k \in Keys : run[k] \in {"queued", "running"} /\ task[k] # "active"
      ~> run[k] \notin {"queued", "running"} \/ task[k] = "active" \/ k \in abandoned

(* What claimDueSchedule and RunDueSchedules promise of the runs, through    *)
(* two replicas, stale ticks, crashes and deletions.                         *)
RunsAreSound == RunsDoNotOverlap /\ ActsOnce /\ RunTellsTaskEnd /\ CatchUpIsComplete
=============================================================================
