----------------------------- MODULE StreamDelivery ----------------------------
(***************************************************************************)
(* How the events of the live response stream reach a channel's adapter:   *)
(* claimDeliveries, acknowledgeDeliveries, retryDeliveries and             *)
(* redriveDeadLetters of skills/comm-bridge/scripts/                       *)
(* assistant-response-stream.js, and the workers around them               *)
(* (c4-response-stream-supervisor.js).                                     *)
(*                                                                         *)
(* Each operation is one transaction.  A worker claims a batch of several  *)
(* requests, all under leases that end together, and then waits for the    *)
(* adapter once per request, so that it may come late to the last ones     *)
(* while another worker (a process that is being replaced) has them.       *)
(* Lease tokens are replaced by the worker that holds the batch: it claims *)
(* again only after it has done with all of it.                            *)
(***************************************************************************)
EXTENDS Naturals, FiniteSets

CONSTANTS
    Streams,       \* requests whose events are delivered
    Brief,         \* those of them that come to one event
    StreamLength,  \* bound on the events of a request
    MaxAppended,   \* bound on the events of all requests
    Deliverers,    \* supervisor processes alive at once
    ClaimLimit,    \* limit of claimDeliveries
    DeliveryTries, \* maxAttempts of retryDeliveries
    MaxTroubles,   \* bound on crashes, leases that end under a worker and late deltas
    MaxRedriven,   \* bound on redrives by an operator
    NoStream

ASSUME StreamDeliveryAssumption ==
    /\ NoStream \notin Streams \cup Deliverers /\ Brief \subseteq Streams
    /\ {StreamLength, MaxAppended, MaxTroubles, MaxRedriven} \subseteq Nat
    /\ {ClaimLimit, DeliveryTries} \subseteq Nat \ {0}

VARIABLES
    sent,     \* delivery columns of assistant_response_events, by request and sequence
    batch,    \* the events each worker has claimed and not yet settled
    calling,  \* the request whose adapter a worker waits for, and how that will end
    reached,  \* the events an adapter has been given
    troubles,
    redriven

streamVars == <<sent, batch, calling, reached, troubles, redriven>>

Positions == 1..StreamLength
StreamEvents == Streams \X Positions
\* waits: available_at has not come; holder, live: the lease.
Unsent == [status |-> "absent", tries |-> 0, waits |-> FALSE, holder |-> NoStream, live |-> FALSE]
Quiet == [stream |-> NoStream, ok |-> FALSE]

StreamTypeOK ==
    /\ sent \in [StreamEvents -> [
           status : {"absent", "pending", "processing", "settled", "dead_letter"},
           tries : 0..DeliveryTries, waits : BOOLEAN, holder : Deliverers \cup {NoStream},
           live : BOOLEAN]]
    /\ batch \in [Deliverers -> SUBSET StreamEvents]
    /\ calling \in [Deliverers -> [stream : Streams \cup {NoStream}, ok : BOOLEAN]]
    /\ reached \subseteq StreamEvents
    /\ troubles \in 0..MaxTroubles /\ redriven \in 0..MaxRedriven
    \* Only what is in delivery has a lease.
    /\ \A e \in StreamEvents :
          (sent[e].holder # NoStream) = (sent[e].status = "processing")

StreamInit ==
    /\ sent = [e \in StreamEvents |-> Unsent]
    /\ batch = [w \in Deliverers |-> {}]
    /\ calling = [w \in Deliverers |-> Quiet]
    /\ reached = {}
    /\ troubles = 0 /\ redriven = 0

Trouble == troubles < MaxTroubles /\ troubles' = troubles + 1

Earlier(e) == {e[1]} \X (1..(e[2] - 1))

\* appendEvent, at the end of the request's events.  A delta that comes after its request has
\* ended is stored as a dead letter; here it may come at any time, and more events after it.
AppendToStream(e) ==
    /\ sent[e].status = "absent" /\ (e[1] \in Brief => e[2] = 1)
    /\ Cardinality({o \in StreamEvents : sent[o].status # "absent"}) < MaxAppended
    /\ \A o \in Earlier(e) : sent[o].status # "absent"
    /\ \/ sent' = [sent EXCEPT ![e].status = "pending"] /\ UNCHANGED troubles
       \/ sent' = [sent EXCEPT ![e].status = "dead_letter"] /\ Trouble
    /\ UNCHANGED <<batch, calling, reached, redriven>>

-----------------------------------------------------------------------------
(* The operations of the stream *)

\* What a claim makes of deliveries whose lease has ended.
Retaken ==
    [e \in StreamEvents |->
        IF sent[e].status = "processing" /\ ~sent[e].live
        THEN [Unsent EXCEPT !.status = "pending", !.tries = sent[e].tries] ELSE sent[e]]

Due(e) == Retaken[e].status = "pending" /\ ~Retaken[e].waits

\* Due, and so is every earlier event of the request that is not settled.
\* Seeded fault: an earlier event may be waiting for its retry.
DeliverableAround(e) ==
    Due(e) /\ \A o \in Earlier(e) : Retaken[o].status \in {"settled", "pending"}
Deliverable(e) == Due(e) /\ \A o \in Earlier(e) : Retaken[o].status = "settled" \/ Due(o)

\* The first ClaimLimit rows; those of a request are in the order of its events.
FirstOf(set) ==
    {s \in SUBSET set :
        /\ Cardinality(s) = IF Cardinality(set) < ClaimLimit THEN Cardinality(set) ELSE ClaimLimit
        /\ \A e \in s : Earlier(e) \cap set \subseteq s}

ClaimDeliveries(w) ==
    /\ batch[w] = {}
    /\ \E s \in FirstOf({e \in StreamEvents : Deliverable(e)}) :
          /\ sent' = [e \in StreamEvents |->
                 IF e \in s
                 THEN [Retaken[e] EXCEPT !.status = "processing", !.holder = w, !.live = TRUE]
                 ELSE Retaken[e]]
          /\ batch' = [batch EXCEPT ![w] = s]
    /\ UNCHANGED <<calling, reached, troubles, redriven>>

\* Both updates ask for the token, neither for a lease that has not ended.
Token(w, e) == sent[e].status = "processing" /\ sent[e].holder = w

Acknowledged(e) == [Unsent EXCEPT !.status = "settled"]

RetriedLater(e) ==
    LET tries == sent[e].tries + 1
    IN  [Unsent EXCEPT !.status = IF tries >= DeliveryTries THEN "dead_letter" ELSE "pending",
                       !.tries = tries, !.waits = tries < DeliveryTries]

SettlesGroup(w, group, acknowledged) ==
    LET Outcome(e) == IF acknowledged THEN Acknowledged(e) ELSE RetriedLater(e)
    IN  sent' = [e \in StreamEvents |->
                    IF e \in group /\ Token(w, e) THEN Outcome(e) ELSE sent[e]]

DeadUpTo(r, n) == {e \in {r} \X (1..n) : sent[e].status = "dead_letter"}

\* The first dead letters of a request, as many as the operator's limit allows.
RedriveDeadLetters(r) ==
    \E n \in Positions :
        /\ DeadUpTo(r, n) # {} /\ redriven < MaxRedriven
        /\ sent' = [e \in StreamEvents |->
               IF e \in DeadUpTo(r, n) THEN [Unsent EXCEPT !.status = "pending"] ELSE sent[e]]
        /\ redriven' = redriven + 1
        /\ UNCHANGED <<batch, calling, reached, troubles>>

-----------------------------------------------------------------------------
(* drainOnce *)

GroupOf(w, r) == {e \in batch[w] : e[1] = r}

\* The adapter takes the group of a request, or is missing or fails; its answer may be lost
\* although it has taken them.
CallAdapter(w) ==
    /\ calling[w] = Quiet
    /\ \E r \in Streams :
          /\ GroupOf(w, r) # {}
          /\ \E took \in BOOLEAN, ok \in BOOLEAN :
                /\ ok => took
                /\ reached' = IF took THEN reached \cup GroupOf(w, r) ELSE reached
                /\ calling' = [calling EXCEPT ![w] = [stream |-> r, ok |-> ok]]
    /\ UNCHANGED <<sent, batch, troubles, redriven>>

SettleGroup(w) ==
    LET group == GroupOf(w, calling[w].stream)
    IN  /\ calling[w] # Quiet
        /\ SettlesGroup(w, group, calling[w].ok)
        /\ batch' = [batch EXCEPT ![w] = @ \ group]
        /\ calling' = [calling EXCEPT ![w] = Quiet]
        /\ UNCHANGED <<reached, troubles, redriven>>

\* The process is killed, or a settlement cannot be written and the loop goes on to the next
\* drain: what was claimed and not settled is left to its lease.
DelivererDies(w) ==
    /\ batch[w] # {}
    /\ Trouble
    /\ batch' = [batch EXCEPT ![w] = {}]
    /\ calling' = [calling EXCEPT ![w] = Quiet]
    /\ UNCHANGED <<sent, reached, redriven>>

Live(w) == {e \in StreamEvents : Token(w, e) /\ sent[e].live}

LeasesEnd(claim) ==
    /\ claim # {}
    /\ sent' = [e \in StreamEvents |->
           IF e \in claim THEN [sent[e] EXCEPT !.live = FALSE] ELSE sent[e]]
    /\ UNCHANGED <<batch, calling, reached, redriven>>

\* The leases of a claim end together, while its worker is still delivering.
ClaimEnds(w) == LeasesEnd(Live(w) \cap batch[w]) /\ Trouble

\* So do those of a claim that was abandoned, whatever the worker has claimed since.  If there
\* are several they end here in any order, event by event.
AbandonedEnds(w) ==
    /\ \E e \in Live(w) \ batch[w] : LeasesEnd({e})
    /\ UNCHANGED troubles

BackoffEnds(e) ==
    /\ sent[e].waits
    /\ sent' = [sent EXCEPT ![e].waits = FALSE]
    /\ UNCHANGED <<batch, calling, reached, troubles, redriven>>

DrainStep(w) == ClaimDeliveries(w) \/ CallAdapter(w) \/ SettleGroup(w)

StreamNext ==
    \/ \E e \in StreamEvents : AppendToStream(e) \/ BackoffEnds(e)
    \/ \E w \in Deliverers : DrainStep(w) \/ DelivererDies(w) \/ ClaimEnds(w) \/ AbandonedEnds(w)
    \/ \E r \in Streams : RedriveDeadLetters(r)

\* The supervisor polls again and again and PM2 restarts it; leases and delays end.
StreamFairness ==
    /\ \A w \in Deliverers : WF_streamVars(DrainStep(w)) /\ WF_streamVars(AbandonedEnds(w))
    /\ \A e \in StreamEvents : WF_streamVars(BackoffEnds(e))

-----------------------------------------------------------------------------
(* Properties *)

\* An adapter is never given an event of a request before all earlier ones, whatever is
\* retried, taken over or redriven, and what counts as settled is what it was given, up to the
\* first event it was not (assistant-response-stream.js:2464-2482).
StreamInOrder ==
    /\ \A e \in reached : Earlier(e) \subseteq reached
    /\ \A e \in StreamEvents : sent[e].status = "settled" =>
          e \in reached /\ \A o \in Earlier(e) : sent[o].status = "settled"

\* An event that nothing but a worker is needed for: a dead letter waits for an operator, and
\* so does what follows it.
StreamOwes ==
    \E e \in StreamEvents :
        /\ sent[e].status \in {"pending", "processing"}
        /\ \A o \in Earlier(e) : sent[o].status # "dead_letter"
=============================================================================
