-------------------------- MODULE OutboxPublisher --------------------------
(*****************************************************************************)
(* The outbox publisher (store/postgres_outbox.go, publishOutboxEvents):     *)
(* every replica takes unpublished events one by one, each in a              *)
(* transaction that holds the row, adds them to a Redis stream and marks     *)
(* them.  TaskStore writes the events.                                       *)
(*****************************************************************************)
EXTENDS ControlPlane, Integers

CONSTANTS
    Events,              \* numbers, in the order of created_at
    MaxPublishAttempts,  \* outboxMaxPublishAttempts (10 in the code)
    PublishBatch,        \* events published in one tick (50 in the code)
    MaxPublishFaults,    \* bound on rolled back transactions and lost acknowledgements
    MaxReplays           \* bound on replays of dead letters

ASSUME OutboxAssumption ==
    /\ Events \subseteq Nat /\ None \notin Replicas /\ None \notin Events
    /\ MaxPublishAttempts \in Nat \ {0} /\ PublishBatch \in Nat \ {0}
    /\ MaxPublishFaults \in Nat /\ MaxReplays \in Nat

VARIABLES
    event,          \* rows of outbox_events
    rowLock,           \* the transaction that holds a row
    publisher,      \* progress of PublishOutboxEventsTo in each process
    stream,         \* how often an event is in the Redis stream
    publishFaults,
    replays,
    hit             \* history: faults while an event was being published

outboxVars == <<event, rowLock, publisher, stream, publishFaults, replays, hit>>

IdlePublisher == [pc |-> "idle", event |-> None, left |-> 0]

OutboxInit ==
    /\ event = [e \in Events |-> [status |-> "none", attempts |-> 0, due |-> TRUE]]
    /\ rowLock = [e \in Events |-> None]
    /\ publisher = [r \in Replicas |-> IdlePublisher]
    /\ stream = [e \in Events |-> 0]
    /\ publishFaults = 0
    /\ replays = 0
    /\ hit = [e \in Events |-> 0]

-----------------------------------------------------------------------------
(* The transaction that wrote the event commits; created_at is the time it   *)
(* began, so events may appear in another order.                             *)
RecordEvent(e) ==
    /\ event[e].status = "none"
    /\ event' = [event EXCEPT ![e].status = "pending"]
    /\ UNCHANGED <<rowLock, publisher, stream, publishFaults, replays, hit>>

StartPublishTick(r) ==
    /\ publisher[r].pc = "idle"
    /\ publisher' = [publisher EXCEPT ![r] = [pc |-> "looping", event |-> None, left |-> PublishBatch]]
    /\ UNCHANGED <<event, rowLock, stream, publishFaults, replays, hit>>

(* Variant: the row is not locked. *)
SelectableShared(e) == event[e].status = "pending" /\ event[e].due

(* FOR UPDATE SKIP LOCKED *)
Selectable(e) == event[e].status = "pending" /\ event[e].due /\ rowLock[e] = None

(* published < limit *)
UnderLimit(r) == publisher[r].left > 0

(* The oldest such event is taken. *)
SelectEvent(r) ==
    /\ publisher[r].pc = "looping" /\ UnderLimit(r)
    /\ \E e \in Events :
         /\ Selectable(e) /\ \A d \in Events : Selectable(d) => e <= d
         /\ rowLock' = [rowLock EXCEPT ![e] = r]
         /\ publisher' = [publisher EXCEPT ![r].pc = "publishing", ![r].event = e]
    /\ UNCHANGED <<event, stream, publishFaults, replays, hit>>

PublishTickEnds(r) ==
    /\ publisher[r].pc = "looping"
    /\ ~UnderLimit(r) \/ \A e \in Events : ~Selectable(e)
    /\ publisher' = [publisher EXCEPT ![r] = IdlePublisher]
    /\ UNCHANGED <<event, rowLock, stream, publishFaults, replays, hit>>

(* XADD is acknowledged. *)
Publish(r) ==
    /\ publisher[r].pc = "publishing"
    /\ stream' = [stream EXCEPT ![publisher[r].event] = @ + 1]
    /\ publisher' = [publisher EXCEPT ![r].pc = "acknowledged"]
    /\ UNCHANGED <<event, rowLock, publishFaults, replays, hit>>

(* Variant: a failure is retried without being counted. *)
AfterFailureUncounted(e) == [event[e] EXCEPT !.due = FALSE]

(* Back off; the attempt that reaches the limit makes a dead letter. *)
AfterFailure(e) ==
    [event[e] EXCEPT !.attempts = @ + 1, !.due = FALSE,
                     !.status = IF event[e].attempts + 1 >= MaxPublishAttempts THEN "dead" ELSE @]

(* Variant: the error is logged and the event marked all the same. *)
PublishFailsSilently(r) ==
    /\ publisher[r].pc = "publishing"
    /\ publisher' = [publisher EXCEPT ![r].pc = "acknowledged"]
    /\ UNCHANGED <<event, rowLock, stream, publishFaults, replays, hit>>

(* Something fails while an event is being published. *)
Fault(e) ==
    /\ publishFaults < MaxPublishFaults
    /\ publishFaults' = publishFaults + 1
    /\ hit' = [hit EXCEPT ![e] = @ + 1]

(* XADD returns an error, which a lost acknowledgement may be; the failure   *)
(* is recorded and the tick ends.                                            *)
PublishFails(r) ==
    LET e == publisher[r].event IN
    /\ publisher[r].pc = "publishing"
    /\ \/ UNCHANGED <<stream, publishFaults, hit>>
       \/ /\ Fault(e)
          /\ stream' = [stream EXCEPT ![e] = @ + 1]
    /\ event' = [event EXCEPT ![e] = AfterFailure(e)]
    /\ rowLock' = [rowLock EXCEPT ![e] = None]
    /\ publisher' = [publisher EXCEPT ![r] = IdlePublisher]
    /\ UNCHANGED replays

(* published_at is set and the transaction commits. *)
MarkPublished(r) ==
    LET e == publisher[r].event IN
    /\ publisher[r].pc = "acknowledged"
    /\ event' = [event EXCEPT ![e].status = "published", ![e].attempts = @ + 1]
    /\ rowLock' = [rowLock EXCEPT ![e] = None]
    /\ publisher' = [publisher EXCEPT ![r] = [pc |-> "looping", event |-> None, left |-> publisher[r].left - 1]]
    /\ UNCHANGED <<stream, publishFaults, replays, hit>>

(* The process dies or the database fails: the transaction is rolled back.   *)
RollsBack(r) ==
    /\ publisher[r].pc \in {"publishing", "acknowledged"} /\ Fault(publisher[r].event)
    /\ rowLock' = [rowLock EXCEPT ![publisher[r].event] = None]
    /\ publisher' = [publisher EXCEPT ![r] = IdlePublisher]
    /\ UNCHANGED <<event, stream, replays>>

(* next_attempt_at is reached. *)
PublishBackoffEnds(e) ==
    /\ event[e].status = "pending" /\ ~event[e].due
    /\ event' = [event EXCEPT ![e].due = TRUE]
    /\ UNCHANGED <<rowLock, publisher, stream, publishFaults, replays, hit>>

(* Variant: the attempts of a replayed event are kept. *)
Unburied(e) == [event[e] EXCEPT !.status = "pending", !.due = TRUE]

Replayed(e) == [status |-> "pending", attempts |-> 0, due |-> TRUE]

ReplayDeadLetter(e) ==
    /\ event[e].status = "dead" /\ replays < MaxReplays
    /\ event' = [event EXCEPT ![e] = Replayed(e)]
    /\ replays' = replays + 1
    /\ UNCHANGED <<rowLock, publisher, stream, publishFaults, hit>>

-----------------------------------------------------------------------------
OutboxNext ==
    \/ \E e \in Events : RecordEvent(e) \/ PublishBackoffEnds(e) \/ ReplayDeadLetter(e)
    \/ \E r \in Replicas :
         \/ StartPublishTick(r) \/ SelectEvent(r) \/ PublishTickEnds(r) \/ Publish(r) \/ PublishFails(r)
         \/ MarkPublished(r) \/ RollsBack(r)

PublishStep(r) ==
    SelectEvent(r) \/ PublishTickEnds(r) \/ Publish(r) \/ PublishFails(r) \/ MarkPublished(r)

OutboxSpec == OutboxInit /\ [][OutboxNext]_outboxVars

(* The ticker and the loop of every replica go on, XADD returns and time     *)
(* passes.                                                                   *)
OutboxFairness ==
    /\ \A r \in Replicas :
         /\ WF_outboxVars(StartPublishTick(r))
         /\ WF_outboxVars(PublishStep(r))
    /\ \A e \in Events : WF_outboxVars(PublishBackoffEnds(e))

-----------------------------------------------------------------------------
(* Rows, locks and publishers have their types. *)
OutboxTypeOK ==
    /\ event \in [Events -> [status : {"none", "pending", "published", "dead"},
                             attempts : Nat, due : BOOLEAN]]
    /\ rowLock \in [Events -> Replicas \cup {None}]
    /\ publisher \in [Replicas -> [pc : {"idle", "looping", "publishing", "acknowledged"},
                                   event : Events \cup {None}, left : 0..PublishBatch]]
    /\ stream \in [Events -> Nat] /\ publishFaults \in 0..MaxPublishFaults /\ replays \in 0..MaxReplays
    /\ hit \in [Events -> Nat]

(* published_at is set only for an event that is in the stream: "broker      *)
(* acknowledgement gates the published timestamp" (PublishOutboxEventsTo).   *)
PublishedIsInStream == \A e \in Events : event[e].status = "published" => stream[e] > 0

(* An event waits for another attempt exactly while it has one left, also    *)
(* after a replay (PublishOutboxEventsTo, ReplayDeadLetter).                 *)
DeadWhenExhausted ==
    \A e \in Events :
      /\ event[e].status = "pending" => event[e].attempts < MaxPublishAttempts
      /\ event[e].status = "dead" => event[e].attempts = MaxPublishAttempts

(* Only a fault while the event was being published makes a duplicate of it, *)
(* and each at most one, however many replicas publish (FOR UPDATE SKIP      *)
(* LOCKED).                                                                  *)
DuplicatesNeedFaults == \A e \in Events : stream[e] <= 1 + hit[e]

(* Every event is published or becomes a dead letter, through failures,      *)
(* faults and replays (PublishOutboxEventsTo).                               *)
EventSettles == \A e \in Events : event[e].status = "pending" ~> event[e].status \in {"published", "dead"}

(* What PublishOutboxEventsTo and ReplayDeadLetter promise of the events:    *)
(* none is marked published that is not in the stream, none waits without an *)
(* attempt left, and only faults make duplicates.                            *)
PublishingIsSound == PublishedIsInStream /\ DeadWhenExhausted /\ DuplicatesNeedFaults
=============================================================================
