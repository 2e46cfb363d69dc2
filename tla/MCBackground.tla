---------------------------- MODULE MCBackground ----------------------------
(***************************************************************************)
(* The background loops of the control plane, under the fairness their     *)
(* tickers have: schedules, outbox, webhooks and archiving.  They share no *)
(* state, so a behaviour that moves one of them tells as much about it as  *)
(* one that moves all: the loop that moves is chosen at the start.         *)
(***************************************************************************)
EXTENDS ScheduleRuns, OutboxPublisher, WebhookDelivery, ObjectArchive

CONSTANT server1

VARIABLE loop

MCServerOf == [s \in Schedules |-> server1]
MCMissed == [s \in Schedules |-> "skip"]
MCConcurrency == [s \in Schedules |-> "forbid"]
MCDigestOf == [b \in Backups |-> b]

backgroundVars == <<loop, scheduleVars, outboxVars, webhookVars, vars>>

BackgroundInit ==
    /\ loop \in {"schedule", "outbox", "webhook", "archive"}
    /\ ScheduleInit /\ OutboxInit /\ WebhookInit /\ Init

BackgroundNext ==
    /\ UNCHANGED loop
    /\ \/ loop = "schedule" /\ ScheduleNext /\ UNCHANGED <<outboxVars, webhookVars, vars>>
       \/ loop = "outbox" /\ OutboxNext /\ UNCHANGED <<scheduleVars, webhookVars, vars>>
       \/ loop = "webhook" /\ WebhookNext /\ UNCHANGED <<scheduleVars, outboxVars, vars>>
       \/ loop = "archive" /\ Next /\ UNCHANGED <<scheduleVars, outboxVars, webhookVars>>

\* The fairness of each loop, as its module states it, when that loop moves.
LoopsGoOn ==
    /\ \A r \in Replicas :
         /\ WF_scheduleVars(loop = "schedule" /\ StartScheduleTick(r))
         /\ WF_scheduleVars(loop = "schedule" /\ ScheduleStep(r))
         /\ WF_outboxVars(loop = "outbox" /\ StartPublishTick(r))
         /\ WF_outboxVars(loop = "outbox" /\ PublishStep(r))
         /\ WF_webhookVars(loop = "webhook" /\ StartDeliveryTick(r))
         /\ WF_webhookVars(loop = "webhook" /\ DeliveryStep(r))
         /\ WF_vars(loop = "archive" /\ (Archive(r) \/ Sweep(r)))
         /\ SF_vars(loop = "archive" /\ LookupManifest(r))
    /\ \A e \in Events : WF_outboxVars(loop = "outbox" /\ PublishBackoffEnds(e))
    /\ \A d \in Deliveries : WF_webhookVars(loop = "webhook" /\ DeliveryBackoffEnds(d))
    /\ \A b \in Backups :
         /\ WF_vars(loop = "archive" /\ (DeletionExecutes(b) \/ DeleteFails(b)))
         /\ WF_vars(loop = "archive" /\ DeletionCommits(b))
         /\ WF_vars(loop = "archive" /\ UploadLeaseLapses(b))
    /\ \A d \in Digests : WF_vars(loop = "archive" /\ TombstoneLeaseLapses(d))

BackgroundSpec == BackgroundInit /\ [][BackgroundNext]_backgroundVars /\ LoopsGoOn

\* A replica that dies, or fails to write, holds nothing up but what it had in hand:
\* every run of a schedule ends once its task has, every event is published or dead
\* and every delivery is settled.  Excepted are the runs and deliveries taken by that
\* replica whose outcome it did not record: nothing takes those up again and they may
\* stay as they are for ever (abandoned, orphaned; claimDelivery, automation.go:575).
LoopsSettle == EveryRunEnds /\ EventSettles /\ DeliverySettles
=============================================================================
