---------------------------- MODULE MCWorkExchange ----------------------------
(***************************************************************************)
(* Model checking of the queues that work comes in by and its events go    *)
(* out by: WorkIntake, TaskProjection, EventSubscription and               *)
(* StreamDelivery.  They share nothing here: a behaviour runs one of them. *)
(* The fairness of the others asks nothing, since their steps need a       *)
(* message, a registration or an event first.                              *)
(***************************************************************************)
EXTENDS TaskProjection, WorkIntake, EventSubscription, StreamDelivery

OneReport == {"ReportTaskProgress"}

VARIABLE program \* the one that runs, and for the intake the message that is received

vars == <<boardVars, intakeVars, subscriptionVars, streamVars, program>>

Init ==
    /\ ProjectionInit /\ IntakeInit /\ SubscriptionInit /\ StreamInit
    /\ program \in {"projection", "subscription", "stream"} \cup Messages

Next ==
    \/ /\ program = "projection"
       /\ ProjectionNext
       /\ UNCHANGED <<intakeVars, subscriptionVars, streamVars, program>>
    \/ /\ program \in Messages
       /\ IntakeNext
       /\ \A c \in Receivers : receiver'[c].message \in {program, NoMessage}
       /\ UNCHANGED <<boardVars, subscriptionVars, streamVars, program>>
    \/ /\ program = "subscription"
       /\ SubscriptionNext
       /\ UNCHANGED <<boardVars, intakeVars, streamVars, program>>
    \/ /\ program = "stream"
       /\ StreamNext
       /\ UNCHANGED <<boardVars, intakeVars, subscriptionVars, program>>

Spec ==
    /\ Init /\ [][Next]_vars
    /\ ProjectionFairness /\ IntakeFairness /\ SubscriptionFairness /\ StreamFairness

TypeOK == ProjectionTypeOK /\ IntakeTypeOK /\ SubscriptionTypeOK /\ StreamTypeOK

\* A message has one fate and one task, and what its sender and the operator are told of it is
\* so, however often it, its card and its intake are delivered; it is given to the agent at most
\* once, or, if it is an ordinary one without a response stream, once for each row that a
\* redelivery added (c4-receive.js:746-749,777-822, c4-db.js:1599-1645,
\* c4-work-intake-confirmations.js:397-401,418-432,464-468).
IntakeKeepsItsWord == OneFate /\ RowsShownOnce /\ IntakeTellsTruth

\* Whoever is told of the events of a request hears of them in their order, the consumers of the
\* run ledger and the adapters of the response stream (event-subscription.js:553-600,
\* assistant-response-stream.js:2464-2482).
EventsInOrder == SubscriptionInOrder /\ StreamInOrder

\* Nothing that a queue has taken on is left lying, though workers die, are too slow, lose
\* their claims or fail to settle: every event of a registered projection is acknowledged or a
\* dead letter (projection-outbox.js:648, projection-worker.js:128), every task intent is
\* ingested or failed (c4-db.js:1524-1645), and a request that always fails or whose records
\* are damaged does not hold up the events of the others
\* (event-subscription.js:566-609), and an event of the response stream is settled or a dead
\* letter (c4-response-stream-supervisor.js:125-188).
QueuesDrain == []<>~(ProjectionOwes \/ IntakeOwes \/ SubscriptionOwes \/ StreamOwes)
=============================================================================
