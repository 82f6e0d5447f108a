-------------------------- MODULE RuntimePendingQueue --------------------------
(***************************************************************************)
(* The queue in front of the one shared runtime:                           *)
(* skills/comm-bridge/scripts/runtime-pending-queue.js.                    *)
(*                                                                         *)
(* A claim reserves the runtime for the next run of some conversation lane *)
(* (an admission in "submitted"); the run becomes active only when the     *)
(* runtime confirms that it started.  Submission can fail (release), and   *)
(* an admission that is older than a caller's threshold is fenced off: its *)
(* run goes back to the queue in a new generation.                         *)
(*                                                                         *)
(* Callers hold admission ids and generations they were given earlier, so  *)
(* the inputs range over all of them, stale ones included.  The staleness  *)
(* threshold is the caller's choice (any time), so every admission may be  *)
(* stale; what the operation does never depends on the times themselves.   *)
(***************************************************************************)
EXTENDS RunLedger

\* Seeded fault: a reservation does not occupy the runtime.
OccupiedByStarted == \E a \in AdmissionIds : admission[a].status = "started"

Occupied == \E a \in AdmissionIds : admission[a].status \in Occupying

\* Seeded fault: only a running predecessor holds back its lane.
EligibleBehindQueued(r, runtimeIdle) ==
    /\ run[r].status = "queued"
    /\ run[r].requireIdle => runtimeIdle
    /\ ~\E q \in Requests :
          /\ run[q].lane = run[r].lane
          /\ run[q].laneSequence < run[r].laneSequence
          /\ run[q].status \in {"active", "cancel_requested"}

\* A queued run whose lane holds no earlier unfinished run, and whose idle gate
\* is open.
Eligible(r, runtimeIdle) ==
    /\ run[r].status = "queued"
    /\ run[r].requireIdle => runtimeIdle
    /\ ~\E q \in Requests :
          /\ run[q].lane = run[r].lane
          /\ run[q].laneSequence < run[r].laneSequence
          /\ run[q].status \in Unfinished

Before(r, q) ==
    \/ run[r].priority < run[q].priority
    \/ run[r].priority = run[q].priority /\ r < q

Candidate(r, runtimeIdle) ==
    /\ Eligible(r, runtimeIdle)
    /\ \A q \in Requests \ {r} : Eligible(q, runtimeIdle) => Before(r, q)

FreshAdmission(a) ==
    /\ admission[a].status = "none"
    /\ \A b \in AdmissionIds : b < a => admission[b].status # "none"

ClaimNext(runtimeIdle) ==
    /\ ~Occupied
    /\ \E r \in Requests, a \in AdmissionIds :
        /\ Candidate(r, runtimeIdle)
        /\ FreshAdmission(a)
        /\ admission' = [admission EXCEPT ![a] =
              [NoAdmission EXCEPT !.request = r, !.generation = run[r].generation,
                                  !.status = "submitted"]]
    /\ UNCHANGED <<receipts, run, request, conversation, events, cancels>>

\* The caller's fence: the run is still in generation g and admission a is one
\* of its admissions in that generation.
Fenced(a, r, g) ==
    /\ run[r].generation = g
    /\ a \in AdmissionsOf(r, g)

ConfirmStarted(a, r, g, s) ==
    /\ Fenced(a, r, g)
    /\ admission[a].status = "submitted"
    /\ run[r].status = "queued"
    /\ request[r].status = "queued"
    /\ admission' = [admission EXCEPT ![a].status = "started", ![a].session = s]
    /\ run' = [run EXCEPT ![r].status = "active"]
    /\ request' = [request EXCEPT ![r] = [status |-> "started", session |-> s]]
    /\ conversation' =
          [conversation EXCEPT ![r] = [status |-> "delivered", action |-> "runtime-started"]]
    /\ AppendTo(r, [Event("RunStarted", g) EXCEPT !.session = s])
    /\ UNCHANGED <<receipts, cancels>>

ReleaseSubmitted(a, r, g) ==
    /\ Fenced(a, r, g)
    /\ admission[a].status = "submitted"
    /\ admission' = [admission EXCEPT ![a].status = "released",
                                      ![a].reason = "runtime_submit_failed"]
    /\ UNCHANGED <<receipts, run, request, conversation, events, cancels>>

\* The oldest occupying admission, if the run it was made for is still in its
\* generation, gives up its run to a new generation.
RecoverStale ==
    \E a \in AdmissionIds, r \in Requests :
        /\ admission[a].status \in Occupying
        /\ \A b \in AdmissionIds : b < a => admission[b].status \notin Occupying
        /\ admission[a].request = r
        /\ run[r].generation = admission[a].generation
        /\ run[r].generation < MaxGeneration
        /\ run[r].status \in Unfinished
        /\ request[r].status \in {"queued", "started"}
        /\ admission' = [admission EXCEPT
              ![a].status = "released",
              ![a].reason = IF admission[a].status = "submitted"
                            THEN "stale_unconfirmed" ELSE "stale_started"]
        /\ run' = [run EXCEPT ![r].status = "queued", ![r].generation = @ + 1]
        /\ request' = [request EXCEPT ![r] = [status |-> "queued", session |-> NoSession]]
        /\ conversation' =
              [conversation EXCEPT ![r] = [status |-> "pending", action |-> "queued"]]
        /\ AppendTo(r, [Event("RunQueued", run[r].generation + 1) EXCEPT
                           !.recovered = admission[a].status])
        /\ UNCHANGED <<receipts, cancels>>

QueueNext ==
    \/ \E runtimeIdle \in BOOLEAN : ClaimNext(runtimeIdle)
    \/ \E a \in AdmissionIds, r \in Requests, g \in Generations :
        \/ \E s \in Sessions : ConfirmStarted(a, r, g, s)
        \/ ReleaseSubmitted(a, r, g)
    \/ RecoverStale
=============================================================================
