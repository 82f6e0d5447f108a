---------------------------- MODULE TaskProjection ----------------------------
(***************************************************************************)
(* Task events on their way to an external task system: the deliveries of  *)
(* one projection (projection-outbox.js), the workers that claim, publish  *)
(* and settle them in batches (projection-worker.js), and what the adapter *)
(* does to the remote task (feishu-task-projection.js).                    *)
(*                                                                         *)
(* An outbox operation is one immediate transaction.  A worker awaits the  *)
(* target and the remote call, so other processes run in between.  Leases  *)
(* and retry delays end at any time.  The remote system is outside the     *)
(* repository: it may fail to answer, whether the call took effect or not. *)
(***************************************************************************)
EXTENDS TaskRuns

CONSTANTS
    Publishers,   \* workerId of the projection workers
    BatchSize,    \* limit of a claim
    MaxAttempts,  \* maxAttempts of the workers
    MaxRedrives,  \* bound on redrives: none after a delivery had so many
    MaxFaults,    \* bound on crashes, slow publications, failed settlements
    Unregistered  \* the baseline of a projection that is not registered

ASSUME TaskProjectionAssumption ==
    /\ BatchSize \in Nat \ {0}
    /\ MaxAttempts \in Nat \ {0}
    /\ MaxRedrives \in Nat
    /\ MaxFaults \in Nat
    /\ IsFiniteSet(Tasks)
    /\ Unregistered \notin Nat

VARIABLES
    baseline, \* the registration: the last outbox row it leaves out, or Unregistered
    delivery, \* commitment_projection_deliveries, by outbox row
    linked,   \* the tasks with an external link
    publisher,\* a worker between its claim and its last settlement
    accepted, \* the task versions whose snapshot the remote has acknowledged
    faults

projectionVars == <<baseline, delivery, linked, publisher, accepted, faults>>
boardVars == <<task, taskEvents, outbox, run, runEvents,
               baseline, delivery, linked, publisher, accepted, faults>>

MaxRows == MaxVersion * Cardinality(Tasks)
OutboxRows == 1..MaxRows
Versions == 1..MaxVersion

\* waits: the lease has not run out, or the retry is not due yet.
Pending == [status |-> "pending", attempt |-> 0, version |-> 0, worker |-> "none",
            waits |-> FALSE, generation |-> 0]
Delivery == [status : {"pending", "leased", "retry_wait", "acknowledged", "dead_letter"},
             attempt : Nat, version : Nat, worker : Publishers \cup {"none"}, waits : BOOLEAN,
             generation : 0..MaxRedrives]

Outcomes == {"none", "published", "retryable", "permanent"}
Entry == [row : OutboxRows, version : Nat, outcome : Outcomes]
Resting == [pc |-> "idle", batch |-> <<>>, at |-> 0, snapshot |-> 0]
Publisher == [pc : {"idle", "publish", "resolve", "call", "settle"}, batch : Seq(Entry),
              at : 0..BatchSize + 1, snapshot : 0..MaxVersion]

ProjectionTypeOK ==
    /\ TasksTypeOK
    /\ baseline \in 0..MaxRows \cup {Unregistered}
    /\ delivery \in [OutboxRows -> Delivery]
    /\ linked \subseteq Tasks
    /\ publisher \in [Publishers -> Publisher]
    /\ accepted \subseteq Tasks \X Versions
    /\ faults \in 0..MaxFaults

ProjectionInit ==
    /\ TasksInit
    /\ baseline = Unregistered
    /\ delivery = [i \in OutboxRows |-> Pending]
    /\ linked = {}
    /\ publisher = [w \in Publishers |-> Resting]
    /\ accepted = {}
    /\ faults = 0

-----------------------------------------------------------------------------
(* The outbox *)

\* register, from_beginning or from_now.
\* Seeded fault: the baseline is the next row.
RegisterPastEnd(policy) ==
    /\ baseline = Unregistered
    /\ baseline' = IF policy = "from_now" THEN Len(outbox) + 1 ELSE 0
    /\ UNCHANGED <<taskVars, delivery, linked, publisher, accepted, faults>>
Register(policy) ==
    /\ baseline = Unregistered
    /\ baseline' = IF policy = "from_now" THEN Len(outbox) ELSE 0
    /\ UNCHANGED <<taskVars, delivery, linked, publisher, accepted, faults>>

Claimable(i) ==
    /\ i > baseline
    /\ delivery[i].status \in {"pending", "leased", "retry_wait"}
    /\ ~delivery[i].waits

\* claim: the first deliveries of the outbox that are new, due, or abandoned, in its order.
Candidates == {i \in 1..Len(outbox) : Claimable(i)}
Chosen == {i \in Candidates : Cardinality({j \in Candidates : j < i}) < BatchSize}

ClaimBatch(w) ==
    /\ baseline # Unregistered
    /\ publisher[w].pc = "idle"
    /\ Chosen # {}
    /\ delivery' = [i \in OutboxRows |->
           IF i \in Chosen
           THEN [delivery[i] EXCEPT !.status = "leased", !.attempt = @ + 1,
                     !.version = @ + 1, !.worker = w, !.waits = TRUE]
           ELSE delivery[i]]
    /\ \E rows \in [1..Cardinality(Chosen) -> Chosen] :
        /\ \A k, l \in DOMAIN rows : k < l => rows[k] < rows[l]
        /\ publisher' = [publisher EXCEPT ![w] = [Resting EXCEPT
               !.pc = "publish", !.at = 1,
               !.batch = [k \in DOMAIN rows |-> [row |-> rows[k],
                   version |-> delivery[rows[k]].version + 1, outcome |-> "none"]]]]
    /\ UNCHANGED <<taskVars, baseline, linked, accepted, faults>>

\* assertOwnedActiveLease.
OwnsLease(w, entry) ==
    LET d == delivery[entry.row]
    IN  /\ d.version = entry.version
        /\ d.status = "leased"
        /\ d.waits
        /\ d.worker = w

Settled(entry, status, waits) ==
    [delivery EXCEPT ![entry.row] =
        [@ EXCEPT !.status = status, !.version = delivery[entry.row].version + 1,
                  !.worker = "none", !.waits = waits]]

\* The status a failure leaves.
Failed(entry) ==
    IF entry.outcome = "permanent" \/ delivery[entry.row].attempt >= MaxAttempts
    THEN "dead_letter" ELSE "retry_wait"

\* redrive, by an operator.
Redrive(i) ==
    /\ delivery[i].status = "dead_letter"
    /\ \A j \in OutboxRows : delivery[j].generation < MaxRedrives
    /\ delivery' = [delivery EXCEPT ![i] = [@ EXCEPT !.status = "retry_wait", !.attempt = 0,
           !.version = delivery[i].version + 1, !.generation = delivery[i].generation + 1]]
    /\ UNCHANGED <<taskVars, baseline, linked, publisher, accepted, faults>>

\* Time passes beyond a retry delay.
RetryDue(i) ==
    /\ delivery[i].status = "retry_wait"
    /\ delivery[i].waits
    /\ delivery' = [delivery EXCEPT ![i].waits = FALSE]
    /\ UNCHANGED <<taskVars, baseline, linked, publisher, accepted, faults>>

\* A worker still holds the claim that leased this delivery.
AtWork(i) ==
    \E w \in Publishers : \E k \in DOMAIN publisher[w].batch :
        /\ publisher[w].batch[k].row = i
        /\ publisher[w].batch[k].version = delivery[i].version

\* Time passes beyond a lease; that its worker is still at it is a fault.
LeaseEnds(i) ==
    /\ delivery[i].status = "leased"
    /\ delivery[i].waits
    /\ delivery' = [delivery EXCEPT ![i].waits = FALSE]
    /\ IF AtWork(i) THEN faults < MaxFaults /\ faults' = faults + 1 ELSE UNCHANGED faults
    /\ UNCHANGED <<taskVars, baseline, linked, publisher, accepted>>

-----------------------------------------------------------------------------
(* A worker *)

EntryOf(w) == publisher[w].batch[publisher[w].at]
TaskOf(w) == outbox[EntryOf(w).row][1]
VersionOf(w) == outbox[EntryOf(w).row][2]

\* The outcome of one publication, and the next one, or the settlements.
Publishes(w, outcome) ==
    publisher' = [publisher EXCEPT ![w] = [@ EXCEPT
        !.batch = [publisher[w].batch EXCEPT ![publisher[w].at].outcome = outcome],
        !.pc = IF publisher[w].at = Len(publisher[w].batch) THEN "settle" ELSE "publish",
        !.at = IF publisher[w].at = Len(publisher[w].batch) THEN 1 ELSE publisher[w].at + 1,
        !.snapshot = 0]]

\* publishOne reads the task: an older version is superseded, the current one is published.
\* Seeded fault: the current version counts as superseded.
SupersededEvenIfCurrent(w) == VersionOf(w) <= task[TaskOf(w)].version
Superseded(w) == VersionOf(w) < task[TaskOf(w)].version

ReadTask(w) ==
    /\ publisher[w].pc = "publish"
    /\ IF Superseded(w)
       THEN Publishes(w, "published")
       ELSE publisher' = [publisher EXCEPT ![w] = [@ EXCEPT
                !.pc = "resolve", !.snapshot = task[TaskOf(w)].version]]
    /\ UNCHANGED <<taskVars, baseline, delivery, linked, accepted, faults>>

\* After the target is resolved, the remote task is created or updated.
Call(w) ==
    /\ publisher[w].pc = "resolve"
    /\ publisher' = [publisher EXCEPT ![w].pc = "call"]
    /\ UNCHANGED <<taskVars, baseline, delivery, linked, accepted, faults>>

\* The target cannot be resolved.
NoTarget(w) ==
    /\ publisher[w].pc = "resolve"
    /\ Publishes(w, "permanent")
    /\ UNCHANGED <<taskVars, baseline, delivery, linked, accepted, faults>>

\* The call succeeds; a created task is linked before the delivery counts as published.
Answered(w) ==
    /\ publisher[w].pc = "call"
    /\ accepted' = accepted \cup {<<TaskOf(w), publisher[w].snapshot>>}
    /\ linked' = linked \cup {TaskOf(w)}
    /\ Publishes(w, "published")
    /\ UNCHANGED <<taskVars, baseline, delivery, faults>>

\* The call has no answer, whether it took effect or not, or is rejected for good.
Unanswered(w) ==
    /\ publisher[w].pc = "call"
    /\ Publishes(w, "retryable") \/ Publishes(w, "permanent")
    /\ UNCHANGED <<taskVars, baseline, delivery, linked, accepted, faults>>

\* The next settlement, or the end of the cycle.
Settles(w) ==
    publisher' = [publisher EXCEPT ![w] =
        IF publisher[w].at = Len(publisher[w].batch) THEN Resting
        ELSE [@ EXCEPT !.at = publisher[w].at + 1]]

\* ack or fail of the next delivery; a lease that was lost meanwhile is not settled.
Settle(w) ==
    LET entry == EntryOf(w)
    IN  /\ publisher[w].pc = "settle"
        /\ IF ~OwnsLease(w, entry) THEN UNCHANGED delivery
           ELSE IF entry.outcome = "published"
           THEN delivery' = Settled(entry, "acknowledged", FALSE)
           ELSE delivery' = Settled(entry, Failed(entry), Failed(entry) = "retry_wait")
        /\ Settles(w)
        /\ UNCHANGED <<taskVars, baseline, linked, accepted, faults>>

\* A settlement throws, and the worker goes on (settlementFailed).
SettlementFails(w) ==
    /\ publisher[w].pc = "settle"
    /\ faults < MaxFaults
    /\ faults' = faults + 1
    /\ Settles(w)
    /\ UNCHANGED <<taskVars, baseline, delivery, linked, accepted>>

\* The process dies.
Crash(w) ==
    /\ publisher[w].pc # "idle"
    /\ faults < MaxFaults
    /\ faults' = faults + 1
    /\ publisher' = [publisher EXCEPT ![w] = Resting]
    /\ UNCHANGED <<taskVars, baseline, delivery, linked, accepted>>

-----------------------------------------------------------------------------
Work(w) == ClaimBatch(w) \/ ReadTask(w) \/ Call(w) \/ Answered(w) \/ Unanswered(w) \/ Settle(w)

ProjectionNext ==
    \/ (TaskStep \/ Sweep) /\ UNCHANGED projectionVars
    \/ \E policy \in {"from_now", "from_beginning"} : Register(policy)
    \/ \E i \in OutboxRows : Redrive(i) \/ RetryDue(i) \/ LeaseEnds(i)
    \/ \E w \in Publishers :
        Work(w) \/ NoTarget(w) \/ SettlementFails(w) \/ Crash(w)

\* The supervisors keep cycling, time passes, and expired runs are swept.
ProjectionFairness ==
    /\ \A w \in Publishers : WF_boardVars(Work(w))
    /\ \A i \in OutboxRows : WF_boardVars(RetryDue(i)) /\ WF_boardVars(LeaseEnds(i))

-----------------------------------------------------------------------------
(* Properties of the projection *)

RowOf(t) == CHOOSE i \in DOMAIN outbox : outbox[i] = <<t, task[t].version>>

\* Superseded versions are acknowledged without a write, so nothing else may be: once the
\* delivery of a task's newest version is acknowledged, the remote system has answered a call
\* with that very snapshot and the task is linked, whatever was claimed in which order, expired,
\* retried or settled by others (feishu-task-projection.js:118, 151).
NewestWasPublished ==
    \A t \in Tasks :
        task[t] # NoTask /\ delivery[RowOf(t)].status = "acknowledged" =>
            <<t, task[t].version>> \in accepted /\ t \in linked

\* What follows the baseline of a registered projection is owed to it until it is acknowledged
\* or a dead letter that an operator can see.
ProjectionOwes ==
    \E i \in DOMAIN outbox :
        /\ baseline # Unregistered /\ i > baseline
        /\ delivery[i].status \notin {"acknowledged", "dead_letter"}
=============================================================================
