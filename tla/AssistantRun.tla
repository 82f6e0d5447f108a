----------------------------- MODULE AssistantRun -----------------------------
(***************************************************************************)
(* The life of an assistant request, from the message that is accepted to  *)
(* the reply that is decided: the run ledger, the runtime pending queue,   *)
(* and the outcome transaction of skills/comm-bridge/scripts/              *)
(* reply-outcome.js, over one database.                                    *)
(*                                                                         *)
(* commitRunOutcome writes the outcome, the terminal event, the reply      *)
(* intent and the end of the run in one transaction.                       *)
(***************************************************************************)
EXTENDS RuntimePendingQueue

VARIABLES
    outcome,  \* assistant_reply_outcomes, at most one per request
    intent    \* assistant_reply_intents caused by a run's terminal event

replyVars == <<outcome, intent>>
vars == <<receipts, run, request, conversation, events, admission, cancels, outcome, intent>>

OutcomeKinds == {"answer", "silent", "failure"}
NoOutcome == [kind |-> "none", generation |-> 0]

TypeOK ==
    /\ LedgerTypeOK
    /\ outcome \in [Requests -> [kind : OutcomeKinds \cup {"none"},
                                 generation : 0..MaxGeneration]]
    /\ intent \in [Requests -> {"none", "send", "failure_notice"}]

Init ==
    /\ LedgerInit
    /\ outcome = [r \in Requests |-> NoOutcome]
    /\ intent = [r \in Requests |-> "none"]

TerminalOf(kind) == IF kind = "failure" THEN "RunFailed" ELSE "RunCompleted"

\* The reply decision an outcome calls for: only an explicit silent outcome
\* leaves no intent.
Disposition(kind) ==
    [answer |-> "send", failure |-> "failure_notice", silent |-> "none"][kind]

\* The runtime reports how its turn ended.  cause is the event it believes to be
\* the head of the chain.
CommitOutcome(r, g, kind, cause) ==
    /\ run[r].generation = g
    /\ cause = Len(events[r])
    /\ run[r].status = "active"
    /\ outcome[r] = NoOutcome
    /\ PersistenceOK(r)
    /\ LastEvent(r).generation = g
    /\ LastEvent(r).type \in {"RunStarted", "ProgressUpdated", "OutputDelta"}
    /\ request[r].status = "started"
    /\ ~HasTerminal(r)
    /\ run[r].replyMode = "none" => kind = "silent"
    /\ \E a \in AdmissionsOf(r, g) : admission[a].status \in Occupying
    /\ outcome' = [outcome EXCEPT ![r] = [kind |-> kind, generation |-> g]]
    /\ intent' = [intent EXCEPT ![r] = Disposition(kind)]
    /\ EndRun(r, g, TerminalOf(kind))
    /\ UNCHANGED <<receipts, conversation, cancels>>

Next ==
    \/ LedgerNext /\ UNCHANGED replyVars
    \/ QueueNext /\ UNCHANGED replyVars
    \/ \E r \in Requests, g \in Generations, kind \in OutcomeKinds :
          \E cause \in 1..Len(events[r]) : CommitOutcome(r, g, kind, cause)

Spec == Init /\ [][Next]_vars

-----------------------------------------------------------------------------
(* Safety *)

SingleOwner ==
    \A a, b \in AdmissionIds :
        admission[a].status \in Occupying /\ admission[b].status \in Occupying => a = b

OwnerIsCurrent ==
    \A a \in AdmissionIds : admission[a].status \in Occupying =>
        \E r \in Requests :
            /\ admission[a].request = r
            /\ admission[a].generation = run[r].generation
            /\ IF admission[a].status = "submitted"
               THEN run[r].status = "queued"
               ELSE run[r].status \in {"active", "cancel_requested"}

RunningIsOwner ==
    \A r \in Requests : run[r].status \in {"active", "cancel_requested"} =>
        \E a \in AdmissionIds :
            admission[a].request = r /\ admission[a].status = "started"

\* The shared runtime has one owner (RUNTIME_LANE_CAPACITY = 1), and it knows
\* which: an occupying admission belongs to the current generation of an
\* unfinished run, is "started" exactly while that run is active, and a running
\* run always holds it.  Cancel, completion, release and recovery each end it.
OneOwner == SingleOwner /\ OwnerIsCurrent /\ RunningIsOwner

\* Within a conversation lane runs reach the runtime in acceptance order: while
\* one is submitted or running, every run accepted before it in that lane has
\* ended.  Recovery, which puts a run back in the queue, must not let a later
\* run pass it.
LaneOrder ==
    \A q, r \in Requests :
        /\ q < r
        /\ run[r].status # "none"
        /\ run[q].lane = run[r].lane
        => /\ run[q].laneSequence < run[r].laneSequence
           /\ (\E a \in AdmissionIds :
                    admission[a].request = r /\ admission[a].status \in Occupying)
                => run[q].status \in Finished

\* A run's history is one canonical chain, it ends with a terminal event exactly
\* when the run has ended, with that result, and nothing follows a terminal.
HistoryMatchesRun ==
    \A r \in Requests : run[r].status # "none" =>
        /\ ChainOK(events[r])
        /\ LastEvent(r).generation = run[r].generation
        /\ \A i \in 1..Len(events[r]) :
              events[r][i].type \in TerminalTypes =>
                /\ i = Len(events[r])
                /\ run[r].status = TerminalStatus[events[r][i].type]
        /\ run[r].status \in Finished => LastEvent(r).type \in TerminalTypes

\* Turns are fenced: along a chain generations never go back, and only a
\* recovery starts the next one, so no late event of an abandoned turn is in it.
GenerationsAdvance ==
    \A r \in Requests : \A i \in 2..Len(events[r]) :
        IF events[r][i].recovered = "none"
        THEN events[r][i].generation = events[r][i - 1].generation
        ELSE events[r][i].generation = events[r][i - 1].generation + 1

\* An outcome was committed by the run's last turn and its terminal event says
\* the same; a reply is due exactly for outcomes that are not silent, so a
\* cancelled run never replies and no run replies twice.
OutcomeMatchesRun ==
    \A r \in Requests :
        /\ intent[r] # "none" <=> outcome[r].kind \in {"answer", "failure"}
        /\ outcome[r].kind # "none" =>
              /\ outcome[r].generation = run[r].generation
              /\ LastEvent(r).type = TerminalOf(outcome[r].kind)
        /\ run[r].replyMode = "none" => intent[r] = "none"

\* A message delivered again under any of its identities (idempotency key,
\* transport event, logical message) is the same request: the receipts of one
\* request agree on the payload, and every accepted request holds at least one
\* receipt of each kind.
ReceiptsIdentify ==
    /\ \A j, k \in IdentityKinds, x, y \in Keys :
          receipts[j][x].request = receipts[k][y].request
            => receipts[j][x].payload = receipts[k][y].payload
    /\ \A r \in Requests, k \in IdentityKinds : run[r].status # "none" =>
          \E x \in Keys : receipts[k][x].request = r

\* A cancellation is confirmed exactly when its run was cancelled in the turn it
\* named, and a cancelled run was asked to.
CancelsMatchRuns ==
    /\ \A k \in CancelKeys : cancels[k].status = "confirmed" =>
          /\ run[cancels[k].request].status = "cancelled"
          /\ run[cancels[k].request].generation = cancels[k].generation
    /\ \A r \in Requests : run[r].status = "cancelled" =>
          /\ \E k \in CancelKeys : cancels[k].request = r /\ cancels[k].status = "confirmed"
          /\ \A k \in CancelKeys :
                ~PendingCancel(k, r, run[r].generation)

\* Receipts, history, turns, outcome and cancellations tell one story of a run, whatever calls
\* came late, twice, under other identities or for another turn (run-ledger.js, the queue and
\* reply-outcome.js each write some of these tables).
RunsTellOneStory ==
    /\ ReceiptsIdentify
    /\ HistoryMatchesRun
    /\ GenerationsAdvance
    /\ OutcomeMatchesRun
    /\ CancelsMatchRuns

-----------------------------------------------------------------------------
(* Action properties *)

\* What has ended stays as it ended: nothing rewrites a finished run, its
\* events, its request row, its outcome or its intent.
EndIsFinal ==
    [][\A r \in Requests : run[r].status \in Finished =>
          /\ run'[r] = run[r]
          /\ request'[r] = request[r]
          /\ events'[r] = events[r]
          /\ outcome'[r] = outcome[r]
          /\ intent'[r] = intent[r]]_vars

-----------------------------------------------------------------------------
(* A claim of the repository that the code does not meet. *)

\* reply-outcome.test.js:491: a run that was recovered and started again can
\* complete.  An active run's facts must pass the check commitRunOutcome makes.
ActiveRunCanComplete ==
    \A r \in Requests : run[r].status = "active" => PersistenceOK(r)
=============================================================================
