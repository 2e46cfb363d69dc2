-------------------------- MODULE WebhookDelivery --------------------------
(*****************************************************************************)
(* Notifications and their webhook deliveries (store/automation.go): every   *)
(* replica leases due deliveries, posts them to their endpoint and records   *)
(* the outcome under the lease.  Endpoints are created enabled; nothing in   *)
(* the code disables one.  Among the due deliveries any may be next: the     *)
(* order of next_attempt_at is left out.                                     *)
(*****************************************************************************)
EXTENDS ControlPlane, Integers

CONSTANTS
    Notifications,        \* by dedupe key
    Endpoints,            \* webhooks
    MaxDeliveryAttempts,  \* 8 in the code
    DeliveryBatch,        \* deliveries made in one tick (16 in the code)
    MaxDeliveryFaults     \* bound on crashes and lost updates

ASSUME WebhookAssumption ==
    /\ MaxDeliveryAttempts \in Nat \ {0} /\ DeliveryBatch \in Nat \ {0} /\ MaxDeliveryFaults \in Nat
    /\ None \notin Replicas /\ None \notin Notifications \X Endpoints

Deliveries == Notifications \X Endpoints

VARIABLES
    endpoints,       \* webhook_endpoints
    delivery,        \* notification_deliveries of the channel webhook
    sender,          \* progress of DeliverNotifications in each process
    posted,          \* how often an endpoint has accepted a delivery
    deliveryFaults,
    orphaned         \* history: deliveries whose outcome was never recorded

webhookVars == <<endpoints, delivery, sender, posted, deliveryFaults, orphaned>>

IdleSender == [pc |-> "idle", claim |-> None, left |-> 0]

WebhookInit ==
    /\ endpoints = {}
    /\ delivery = [d \in Deliveries |-> [status |-> "none", attempt |-> 0, due |-> TRUE, owner |-> None]]
    /\ sender = [r \in Replicas |-> IdleSender]
    /\ posted = [d \in Deliveries |-> 0]
    /\ deliveryFaults = 0
    /\ orphaned = {}

-----------------------------------------------------------------------------
CreateWebhook(w) ==
    /\ w \notin endpoints
    /\ endpoints' = endpoints \cup {w}
    /\ UNCHANGED <<delivery, sender, posted, deliveryFaults, orphaned>>

(* Variant: a repeated notification is delivered again. *)
EmittedAgain(d) ==
    IF delivery[d].status \in {"none", "delivered"} THEN [delivery[d] EXCEPT !.status = "pending", !.attempt = 0]
    ELSE delivery[d]

(* ON CONFLICT DO NOTHING *)
Emitted(d) == IF delivery[d].status = "none" THEN [delivery[d] EXCEPT !.status = "pending"] ELSE delivery[d]

(* Possibly repeated with the same dedupe key. *)
EmitNotification(n) ==
    /\ delivery' = [d \in Deliveries |-> IF d[1] = n /\ d[2] \in endpoints THEN Emitted(d) ELSE delivery[d]]
    /\ UNCHANGED <<endpoints, sender, posted, deliveryFaults, orphaned>>

(* A notification of its own, with a fresh key, for one endpoint. *)
TestWebhook(n, w) ==
    /\ w \in endpoints /\ \A v \in Endpoints : delivery[<<n, v>>].status = "none"
    /\ delivery' = [delivery EXCEPT ![<<n, w>>].status = "pending"]
    /\ UNCHANGED <<endpoints, sender, posted, deliveryFaults, orphaned>>

-----------------------------------------------------------------------------
(* DeliverNotifications *)

StartDeliveryTick(r) ==
    /\ sender[r].pc = "idle"
    /\ sender' = [sender EXCEPT ![r] = [pc |-> "looping", claim |-> None, left |-> DeliveryBatch]]
    /\ UNCHANGED <<endpoints, delivery, posted, deliveryFaults, orphaned>>

Sendable(d) == delivery[d].status \in {"pending", "failed"} /\ delivery[d].due

(* Variant: claiming does not count as an attempt. *)
LeasedUncounted(d, r) == [delivery[d] EXCEPT !.status = "leased", !.owner = r]

Leased(d, r) == [delivery[d] EXCEPT !.status = "leased", !.attempt = @ + 1, !.owner = r]

ClaimDelivery(r) ==
    /\ sender[r].pc = "looping" /\ sender[r].left > 0
    /\ \E d \in Deliveries :
         /\ Sendable(d)
         /\ delivery' = [delivery EXCEPT ![d] = Leased(d, r)]
         /\ sender' = [sender EXCEPT ![r].pc = "sending", ![r].claim = d]
    /\ UNCHANGED <<endpoints, posted, deliveryFaults, orphaned>>

DeliveryTickEnds(r) ==
    /\ sender[r].pc = "looping"
    /\ sender[r].left = 0 \/ \A d \in Deliveries : ~Sendable(d)
    /\ sender' = [sender EXCEPT ![r] = IdleSender]
    /\ UNCHANGED <<endpoints, delivery, posted, deliveryFaults, orphaned>>

(* sendWebhook: the endpoint accepts the request, refuses it, or accepts it  *)
(* with a response that is lost.                                             *)
SendWebhook(r) ==
    /\ sender[r].pc = "sending"
    /\ \E answer \in {"succeeded", "failed"} : \E accepted \in {0, 1} :
         /\ answer = "succeeded" => accepted = 1
         /\ posted' = [posted EXCEPT ![sender[r].claim] = @ + accepted]
         /\ sender' = [sender EXCEPT ![r].pc = answer]
    /\ UNCHANGED <<endpoints, delivery, deliveryFaults, orphaned>>

(* The row after the outcome: the eighth failure is the last. *)
Recorded(d, outcome) ==
    [delivery[d] EXCEPT !.owner = None, !.due = (outcome = "succeeded"),
       !.status = CASE outcome = "succeeded" -> "delivered"
                    [] outcome = "failed" /\ delivery[d].attempt >= MaxDeliveryAttempts -> "dead-letter"
                    [] OTHER -> "failed"]

(* The outcome is recorded if the lease is still the sender's; only          *)
(* successes count towards the limit.                                        *)
RecordOutcome(r) ==
    LET d == sender[r].claim IN
    /\ sender[r].pc \in {"succeeded", "failed"}
    /\ delivery' = IF delivery[d].owner = r THEN [delivery EXCEPT ![d] = Recorded(d, sender[r].pc)] ELSE delivery
    /\ sender' = [sender EXCEPT ![r] =
         [pc |-> "looping", claim |-> None,
          left |-> IF sender[r].pc = "succeeded" THEN sender[r].left - 1 ELSE sender[r].left]]
    /\ UNCHANGED <<endpoints, posted, deliveryFaults, orphaned>>

(* The process dies, or the error of the recording UPDATE is ignored. *)
OutcomeLost(r) ==
    /\ deliveryFaults < MaxDeliveryFaults /\ sender[r].claim # None
    /\ deliveryFaults' = deliveryFaults + 1
    /\ orphaned' = orphaned \cup {sender[r].claim}
    /\ sender' = [sender EXCEPT ![r] = IdleSender]
    /\ UNCHANGED <<endpoints, delivery, posted>>

(* next_attempt_at is reached. *)
DeliveryBackoffEnds(d) ==
    /\ delivery[d].status = "failed" /\ ~delivery[d].due
    /\ delivery' = [delivery EXCEPT ![d].due = TRUE]
    /\ UNCHANGED <<endpoints, sender, posted, deliveryFaults, orphaned>>

-----------------------------------------------------------------------------
WebhookNext ==
    \/ \E w \in Endpoints : CreateWebhook(w)
    \/ \E n \in Notifications : EmitNotification(n) \/ \E w \in Endpoints : TestWebhook(n, w)
    \/ \E d \in Deliveries : DeliveryBackoffEnds(d)
    \/ \E r \in Replicas :
         \/ StartDeliveryTick(r) \/ ClaimDelivery(r) \/ DeliveryTickEnds(r) \/ SendWebhook(r)
         \/ RecordOutcome(r) \/ OutcomeLost(r)

DeliveryStep(r) ==
    ClaimDelivery(r) \/ DeliveryTickEnds(r) \/ SendWebhook(r) \/ RecordOutcome(r)

WebhookSpec == WebhookInit /\ [][WebhookNext]_webhookVars

(* The ticker and the loop of every replica go on, requests time out and     *)
(* time passes.                                                              *)
WebhookFairness ==
    /\ \A r \in Replicas :
         /\ WF_webhookVars(StartDeliveryTick(r))
         /\ WF_webhookVars(DeliveryStep(r))
    /\ \A d \in Deliveries : WF_webhookVars(DeliveryBackoffEnds(d))

-----------------------------------------------------------------------------
(* Endpoints, deliveries and senders have their types; attempts are bounded. *)
WebhookTypeOK ==
    /\ endpoints \subseteq Endpoints
    /\ delivery \in [Deliveries -> [status : {"none", "pending", "leased", "delivered", "failed", "dead-letter"},
                                    attempt : 0..MaxDeliveryAttempts, due : BOOLEAN, owner : Replicas \cup {None}]]
    /\ sender \in [Replicas -> [pc : {"idle", "looping", "sending", "succeeded", "failed"},
                                claim : Deliveries \cup {None}, left : 0..DeliveryBatch]]
    /\ posted \in [Deliveries -> Nat] /\ deliveryFaults \in 0..MaxDeliveryFaults /\ orphaned \subseteq Deliveries

(* A delivered or dead row is never changed or sent again, although its      *)
(* notification may be emitted again and replicas send with old leases       *)
(* (EmitNotification, claimDelivery).                                        *)
SettledIsFinal ==
    [][\A d \in Deliveries : delivery[d].status \in {"delivered", "dead-letter"} =>
         delivery'[d] = delivery[d] /\ posted'[d] = posted[d]]_webhookVars

(* Every delivery is made or becomes a dead letter, unless its outcome was   *)
(* lost: the lease of an orphaned row lapses, but nothing takes it up again  *)
(* (claimDelivery).                                                          *)
DeliverySettles ==
    \A d \in Deliveries : delivery[d].status \notin {"none", "delivered", "dead-letter"}
      ~> delivery[d].status \in {"delivered", "dead-letter"} \/ d \in orphaned
=============================================================================
