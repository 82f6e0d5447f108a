-------------------------- MODULE EventSubscription ---------------------------
(***************************************************************************)
(* One consumer of the run events and its workers                          *)
(* (skills/comm-bridge/scripts/event-subscription.js).  Every operation is *)
(* an immediate transaction that first copies new events into the          *)
(* consumer's deliveries and checks the chain of every request; one that   *)
(* throws takes that back with the rest.                                   *)
(*                                                                         *)
(* What the check finds is abstracted to whether a request's records are   *)
(* damaged.  Claim epochs only order requests by their last claim, which   *)
(* is what is kept; a lease's token is the worker that holds it.           *)
(***************************************************************************)
EXTENDS Naturals, Sequences, FiniteSets, SequencesExt

CONSTANTS
    Requests,      \* whose runs append events
    Stubborn,      \* the requests whose events the consumer cannot handle
    Subscribers,   \* workers of the consumer
    LogLength,     \* bound on the events of a request
    MaxInFlight,   \* maxInFlightPerConsumer
    MaxMishaps,    \* bound on what goes wrong: damage, deaths, late and failed handling
    NoClaim

ASSUME EventSubscriptionAssumption ==
    /\ Stubborn \subseteq Requests
    /\ LogLength \in Nat /\ MaxInFlight \in Nat \ {0} /\ MaxMishaps \in Nat
    /\ NoClaim \notin Subscribers \cup (Requests \X (1..LogLength))

VARIABLES
    log,       \* how many events each request has appended
    damaged,   \* requests whose records are no longer canonical
    degraded,  \* assistant_event_stream_health
    given,     \* assistant_event_deliveries, by request and sequence
    claimed,   \* requests by their last claim, the latest last
    holding,   \* the event each worker handles
    mishaps

subscriptionVars == <<log, damaged, degraded, given, claimed, holding, mishaps>>

Numbers == 1..LogLength
Events == Requests \X Numbers
\* live: the lease has not expired; waits: available_at has not come.
Missing == [status |-> "absent", owner |-> NoClaim, live |-> FALSE, waits |-> FALSE]
Undelivered == [Missing EXCEPT !.status = "pending"]

SubscriptionTypeOK ==
    /\ log \in [Requests -> 0..LogLength]
    /\ damaged \subseteq Requests /\ degraded \subseteq damaged
    /\ given \in [Events -> [status : {"absent", "pending", "processing", "acknowledged"},
                                owner : Subscribers \cup {NoClaim}, live : BOOLEAN,
                                waits : BOOLEAN]]
    /\ claimed \in Seq(Requests) /\ IsInjective(claimed)
    /\ holding \in [Subscribers -> Events \cup {NoClaim}]
    /\ mishaps \in 0..MaxMishaps
    \* Only events there are get delivered.
    /\ \A e \in Events : given[e].status # "absent" => e[2] <= log[e[1]]

SubscriptionInit ==
    /\ log = [r \in Requests |-> 0]
    /\ damaged = {} /\ degraded = {}
    /\ given = [e \in Events |-> Missing]
    /\ claimed = <<>>
    /\ holding = [w \in Subscribers |-> NoClaim]
    /\ mishaps = 0

Mishap == mishaps < MaxMishaps /\ mishaps' = mishaps + 1

\* The run ledger appends an event.
AppendEvent(r) ==
    /\ log[r] < LogLength
    /\ log' = [log EXCEPT ![r] = @ + 1]
    /\ UNCHANGED <<damaged, degraded, given, claimed, holding, mishaps>>

\* A record of the request is changed or lost, or was never canonical.
Damage(r) ==
    /\ Mishap
    /\ damaged' = damaged \cup {r}
    /\ UNCHANGED <<log, degraded, given, claimed, holding>>

-----------------------------------------------------------------------------
\* materializeAndValidate, with the recovery of expired leases that a claim adds.
Materialized ==
    [e \in Events |->
        IF e[1] \notin damaged /\ e[2] <= log[e[1]] /\ given[e].status = "absent"
        THEN Undelivered ELSE given[e]]
Recovered ==
    [e \in Events |->
        IF Materialized[e].status = "processing" /\ ~Materialized[e].live
        THEN Undelivered ELSE Materialized[e]]

\* subscribe again, getConsumer, getStream and getState commit what the check finds.
Look ==
    /\ given' = Materialized
    /\ degraded' = damaged
    /\ UNCHANGED <<log, damaged, claimed, holding, mishaps>>

InFlight == {e \in Events : given[e].status = "processing" /\ given[e].live
                            /\ e[1] \notin damaged}

Ready ==
    {e \in Events :
        /\ Recovered[e].status = "pending" /\ ~Recovered[e].waits /\ e[1] \notin damaged
        /\ \A n \in 1..(e[2] - 1) : Recovered[<<e[1], n>>].status = "acknowledged"}

\* The event of the request that has waited longest for a claim; one never claimed has rank 0.
Rank(r) == IF Contains(claimed, r) THEN CHOOSE i \in DOMAIN claimed : claimed[i] = r ELSE 0
\* Seeded fault: any event that is ready, whoever was served before.
AnyOf(ready) == ready
NextOf(ready) == {e \in ready : \A o \in ready : Rank(e[1]) <= Rank(o[1])}

\* claimNext returns nothing when enough is in flight, and then commits what the check has
\* found.  With nothing ready but degraded requests it throws, and nothing is kept.
ClaimEvent(w) ==
    /\ holding[w] = NoClaim
    /\ IF Cardinality(InFlight) >= MaxInFlight \/ (Ready = {} /\ damaged = {})
       THEN /\ given' = Recovered
            /\ degraded' = damaged
            /\ UNCHANGED <<claimed, holding>>
       ELSE \E e \in NextOf(Ready) :
            /\ given' = [Recovered EXCEPT ![e] =
                   [status |-> "processing", owner |-> w, live |-> TRUE, waits |-> FALSE]]
            /\ degraded' = damaged
            /\ claimed' = Append(RemoveAt(claimed, Rank(e[1])), e[1])
            /\ holding' = [holding EXCEPT ![w] = e]
    /\ UNCHANGED <<log, damaged, mishaps>>

\* The lease is the worker's and has not expired, and its request is healthy; otherwise the
\* call throws and the worker is left with nothing.
Holds(w) ==
    LET d == given[holding[w]]
    IN  d.status = "processing" /\ d.owner = w /\ d.live /\ holding[w][1] \notin damaged

SettleEvent(w, d) ==
    /\ IF Holds(w)
       THEN given' = [Materialized EXCEPT ![holding[w]] = d] /\ degraded' = damaged
       ELSE UNCHANGED <<given, degraded>>
    /\ holding' = [holding EXCEPT ![w] = NoClaim]
    /\ UNCHANGED <<log, damaged, claimed>>

Ack(w) ==
    /\ holding[w] # NoClaim
    /\ holding[w][1] \notin Stubborn
    /\ SettleEvent(w, [given[holding[w]] EXCEPT !.status = "acknowledged"])
    /\ UNCHANGED mishaps

Fail(w) ==
    /\ holding[w] # NoClaim
    /\ IF holding[w][1] \in Stubborn THEN UNCHANGED mishaps ELSE Mishap
    /\ \E delayed \in BOOLEAN : SettleEvent(w, [Undelivered EXCEPT !.waits = delayed])

SubscriberDies(w) ==
    /\ holding[w] # NoClaim
    /\ Mishap
    /\ holding' = [holding EXCEPT ![w] = NoClaim]
    /\ UNCHANGED <<log, damaged, degraded, given, claimed>>

\* A lease runs out after its worker died, or while a slow worker still handles the event.
EventLeaseEnds(e) ==
    /\ given[e].status = "processing" /\ given[e].live
    /\ IF \E w \in Subscribers : holding[w] = e THEN Mishap ELSE UNCHANGED mishaps
    /\ given' = [given EXCEPT ![e].live = FALSE]
    /\ UNCHANGED <<log, damaged, degraded, claimed, holding>>

RetryComes(e) ==
    /\ given[e].waits
    /\ given' = [given EXCEPT ![e].waits = FALSE]
    /\ UNCHANGED <<log, damaged, degraded, claimed, holding, mishaps>>

SubscriptionNext ==
    \/ \E r \in Requests : AppendEvent(r) \/ Damage(r)
    \/ \E w \in Subscribers : ClaimEvent(w) \/ Ack(w) \/ Fail(w) \/ SubscriberDies(w)
    \/ \E e \in Events : EventLeaseEnds(e) \/ RetryComes(e)
    \/ Look

\* Workers claim again and again, every handler returns, and leases and delays end.
SubscriptionFairness ==
    /\ \A w \in Subscribers : /\ WF_subscriptionVars(ClaimEvent(w))
                              /\ WF_subscriptionVars(Ack(w) \/ Fail(w))
    /\ \A e \in Events : /\ WF_subscriptionVars(EventLeaseEnds(e))
                         /\ WF_subscriptionVars(RetryComes(e))

-----------------------------------------------------------------------------
(* Properties *)

\* The events of a request reach the consumer one by one and in their order, across retries,
\* expired leases and several workers: what is acknowledged is a beginning of the log, only
\* the event after it is in anybody's hands, and no more than the limit is in flight
\* (event-subscription.js:553-600).
SubscriptionInOrder ==
    /\ \A e \in Events : given[e].status \in {"processing", "acknowledged"} =>
          \A n \in 1..(e[2] - 1) : given[<<e[1], n>>].status = "acknowledged"
    /\ Cardinality(InFlight) <= MaxInFlight

\* An event of a healthy request that the consumer could handle and has not.
SubscriptionOwes ==
    \E e \in Events :
        /\ e[2] <= log[e[1]] /\ e[1] \notin Stubborn \cup damaged
        /\ given[e].status # "acknowledged"
=============================================================================
