--------------------------- MODULE Notifications ---------------------------
(***************************************************************************)
(* The webhooks of notification_service, for one merchant: the messages    *)
(* that transaction_service sends when a transfer is completed, the task   *)
(* that makes a delivery for every active endpoint, the task that posts    *)
(* it, the pass that is to retry deliveries, the cleanup, and the changes  *)
(* of the endpoints meanwhile.                                             *)
(*                                                                         *)
(* The tasks run in Celery workers that acknowledge a message before they  *)
(* work on it: a worker that dies loses it.                                *)
(***************************************************************************)
EXTENDS Integers, FiniteSets

CONSTANTS
    Messages,     \* completed transfers
    Endpoints,    \* the merchant's endpoints
    MaxAttempts   \* after which retry_failed_webhooks gives up (5 in the code)

ASSUME NotificationsAssumption == MaxAttempts \in Nat

VARIABLES
    endpoint,   \* per endpoint, whether it is there and active
    trigger,    \* what has become of each message
    targets,    \* endpoints its task has still to make a delivery for
    delivery,   \* the WebhookDelivery row of a message and an endpoint
    job,        \* what has become of its dispatch_webhook
    outcome,    \* what the post in progress was answered
    posts,      \* how often it was posted
    accepted    \* deliveries the merchant's server has accepted

triggering == <<trigger, targets>>
jobs       == <<job, outcome>>
record     == <<posts, accepted>>
hookVars   == <<endpoint, triggering, delivery, jobs, record>>

Deliveries == Messages \X Endpoints
HookStatus == {"pending", "sent", "failed"}
Row        == [status : HookStatus, attempts : Nat, due : BOOLEAN]
NoRow      == [status |-> "absent"]
JobSteps   == {"none", "made", "queued", "posting", "saving", "done", "lost"}

\* What the server answers: a status below 400, another one, or nothing that
\* reaches the worker, which leaves open whether it has accepted.
Outcomes == {"none", "accepted", "refused", "exception"}

NotificationsTypeOK ==
    /\ endpoint \in [Endpoints -> {"active", "inactive", "deleted"}]
    /\ trigger \in [Messages -> {"none", "queued", "running", "done", "lost"}]
    /\ targets \in [Messages -> SUBSET Endpoints]
    /\ delivery \in [Deliveries -> Row \cup {NoRow}]
    /\ job \in [Deliveries -> JobSteps]
    /\ outcome \in [Deliveries -> Outcomes]
    /\ posts \in [Deliveries -> Nat]
    /\ accepted \subseteq Deliveries

NotificationsInit ==
    /\ endpoint = [e \in Endpoints |-> "active"]
    /\ trigger = [m \in Messages |-> "none"]
    /\ targets = [m \in Messages |-> {}]
    /\ delivery = [d \in Deliveries |-> NoRow]
    /\ job = [d \in Deliveries |-> "none"]
    /\ outcome = [d \in Deliveries |-> "none"]
    /\ posts = [d \in Deliveries |-> 0]
    /\ accepted = {}

Stored(d) == delivery[d] # NoRow

JobGoes(d, to) == job' = [job EXCEPT ![d] = to]

-----------------------------------------------------------------------------
(* trigger_transaction_webhook                                               *)

\* process_transaction_async sends the message once the transfer is completed.
SendTrigger(m) ==
    /\ trigger[m] = "none"
    /\ trigger' = [trigger EXCEPT ![m] = "queued"]
    /\ UNCHANGED <<endpoint, targets, delivery, jobs, record>>

\* The active endpoints are looked up once.
StartTrigger(m) ==
    /\ trigger[m] = "queued"
    /\ trigger' = [trigger EXCEPT ![m] = "running"]
    /\ targets' = [targets EXCEPT ![m] = {e \in Endpoints : endpoint[e] = "active"}]
    /\ UNCHANGED <<endpoint, delivery, jobs, record>>

\* A delivery is created for the next of them; the foreign key fails for one
\* that has been deleted, and the loop with it.
CreateDelivery(m, e) ==
    /\ trigger[m] = "running"
    /\ e \in targets[m]
    /\ \A f \in Endpoints : job[<<m, f>>] # "made"
    /\ endpoint[e] # "deleted"
    /\ delivery' = [delivery EXCEPT ![<<m, e>>] =
                       [status |-> "pending", attempts |-> 0, due |-> FALSE]]
    /\ targets' = [targets EXCEPT ![m] = @ \ {e}]
    /\ JobGoes(<<m, e>>, "made")
    /\ UNCHANGED <<endpoint, trigger, outcome, record>>

\* Its dispatch is queued right afterwards.
QueueDispatch(d) ==
    /\ trigger[d[1]] = "running"
    /\ job[d] = "made"
    /\ JobGoes(d, "queued")
    /\ UNCHANGED <<endpoint, triggering, delivery, outcome, record>>

EndTrigger(m) ==
    /\ trigger[m] = "running"
    /\ targets[m] = {}
    /\ \A e \in Endpoints : job[<<m, e>>] # "made"
    /\ trigger' = [trigger EXCEPT ![m] = "done"]
    /\ UNCHANGED <<endpoint, targets, delivery, jobs, record>>

\* The worker dies, or the broker or the database refuses a step.
LoseTrigger(m) ==
    /\ trigger[m] \in {"queued", "running"}
    /\ trigger' = [trigger EXCEPT ![m] = "lost"]
    /\ UNCHANGED <<endpoint, targets, delivery, jobs, record>>

-----------------------------------------------------------------------------
(* dispatch_webhook                                                          *)

StartJob(d) ==
    /\ job[d] = "queued"
    /\ JobGoes(d, IF Stored(d) THEN "posting" ELSE "done")
    /\ UNCHANGED <<endpoint, triggering, delivery, outcome, record>>

Post(d, answer, reached) ==
    /\ job[d] = "posting"
    /\ answer = "accepted" => reached
    /\ answer = "refused" => ~reached
    /\ posts' = [posts EXCEPT ![d] = @ + 1]
    /\ accepted' = IF reached THEN accepted \cup {d} ELSE accepted
    /\ outcome' = [outcome EXCEPT ![d] = answer]
    /\ JobGoes(d, "saving")
    /\ UNCHANGED <<endpoint, triggering, delivery>>

\* Mutant of Judged: only a server error counts as a failure.
JudgedMildly(d) ==
    [delivery[d] EXCEPT !.status = IF outcome[d] = "exception" THEN "failed" ELSE "sent"]

\* attempts and next_retry_at are saved as they were read.
Judged(d) ==
    [delivery[d] EXCEPT !.status = IF outcome[d] = "accepted" THEN "sent" ELSE "failed"]

\* The row of a deleted endpoint is gone; saving it fails on the foreign key.
SaveJob(d) ==
    /\ job[d] = "saving"
    /\ delivery' = IF Stored(d) THEN [delivery EXCEPT ![d] = Judged(d)] ELSE delivery
    /\ outcome' = [outcome EXCEPT ![d] = "none"]
    /\ JobGoes(d, "done")
    /\ UNCHANGED <<endpoint, triggering, record>>

LoseJob(d) ==
    /\ job[d] \in {"queued", "posting", "saving"}
    /\ JobGoes(d, "lost")
    /\ outcome' = [outcome EXCEPT ![d] = "none"]
    /\ UNCHANGED <<endpoint, triggering, delivery, record>>

-----------------------------------------------------------------------------
(* Periodic tasks                                                            *)

\* retry_failed_webhooks, over the deliveries that are pending and due.
Due == {d \in Deliveries : Stored(d) /\ delivery[d].status = "pending" /\ delivery[d].due}

Tried(d) == d \in Due /\ delivery[d].attempts < MaxAttempts

Retried(row, ok) ==
    IF row.attempts >= MaxAttempts THEN [row EXCEPT !.status = "failed"]
    ELSE [status |-> IF ok THEN "sent" ELSE "pending",
          attempts |-> row.attempts + 1, due |-> ~ok]

RetryPass ==
    \E ok \in [Due -> BOOLEAN] :
        /\ delivery' = [d \in Deliveries |->
              IF d \in Due THEN Retried(delivery[d], ok[d]) ELSE delivery[d]]
        /\ posts' = [d \in Deliveries |-> IF Tried(d) THEN posts[d] + 1 ELSE posts[d]]
        /\ accepted' = accepted \cup {d \in Due : Tried(d) /\ ok[d]}
        /\ UNCHANGED <<endpoint, triggering, jobs>>

\* cleanup_old_deliveries, thirty days later: no task works on the row any more.
CleanUp(d) ==
    /\ Stored(d)
    /\ delivery[d].status = "sent"
    /\ job[d] \in {"done", "lost"}
    /\ delivery' = [delivery EXCEPT ![d] = NoRow]
    /\ UNCHANGED <<endpoint, triggering, jobs, record>>

-----------------------------------------------------------------------------
\* WebhookEndpointViewSet: an endpoint is switched on and off ...
ToggleEndpoint(e) ==
    /\ endpoint[e] # "deleted"
    /\ endpoint' = [endpoint EXCEPT ![e] = IF @ = "active" THEN "inactive" ELSE "active"]
    /\ UNCHANGED <<triggering, delivery, jobs, record>>

\* ... or deleted, with its deliveries.
DeleteEndpoint(e) ==
    /\ endpoint[e] # "deleted"
    /\ endpoint' = [endpoint EXCEPT ![e] = "deleted"]
    /\ delivery' = [d \in Deliveries |-> IF d[2] = e THEN NoRow ELSE delivery[d]]
    /\ UNCHANGED <<triggering, jobs, record>>

NotificationsNext ==
    \/ \E m \in Messages :
          \/ SendTrigger(m)
          \/ StartTrigger(m)
          \/ EndTrigger(m)
          \/ LoseTrigger(m)
          \/ \E e \in Endpoints : CreateDelivery(m, e)
    \/ \E d \in Deliveries :
          \/ QueueDispatch(d)
          \/ StartJob(d)
          \/ \E answer \in Outcomes \ {"none"}, reached \in BOOLEAN : Post(d, answer, reached)
          \/ SaveJob(d)
          \/ LoseJob(d)
          \/ CleanUp(d)
    \/ RetryPass
    \/ \E e \in Endpoints : ToggleEndpoint(e) \/ DeleteEndpoint(e)

NotificationsSpec == NotificationsInit /\ [][NotificationsNext]_hookVars

\* Beat runs the retry pass for ever, and workers get on with their jobs.
NotificationsFairSpec ==
    /\ NotificationsSpec
    /\ WF_hookVars(RetryPass)
    /\ \A d \in Deliveries :
          WF_hookVars(StartJob(d) \/ SaveJob(d) \/ \E reached \in BOOLEAN :
                         \E answer \in Outcomes \ {"none"} : Post(d, answer, reached))

-----------------------------------------------------------------------------
(* Properties                                                                *)

\* A delivery is posted at most once; it says "sent" only if the merchant's
\* server has accepted it, and "pending" only while its dispatch is under way,
\* unless a worker or the broker has lost it.
DeliveriesAreTrue ==
    \A d \in Deliveries :
        /\ posts[d] <= 1
        /\ Stored(d) /\ delivery[d].status = "sent" => d \in accepted
        /\ Stored(d) /\ delivery[d].status = "pending" =>
              \/ job[d] \in {"queued", "posting", "saving", "lost"}
              \/ job[d] = "made" /\ trigger[d[1]] \in {"running", "lost"}

\* "Webhook Retry System": a delivery that failed is attempted again, or gone.
FailedIsRetried ==
    \A d \in Deliveries :
        (Stored(d) /\ delivery[d].status = "failed") ~> (posts[d] > 1 \/ ~Stored(d))
=============================================================================
