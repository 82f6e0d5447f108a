----------------------------- MODULE ReplyOutbox -----------------------------
(***************************************************************************)
(* The reply intent outbox (skills/comm-bridge/scripts/                    *)
(* reply-intent-outbox.js): workers claim committed reply intents under    *)
(* leases, send or reconcile them on a chat platform, and record what the  *)
(* platform answered.  Every operation is one immediate transaction, hence *)
(* one action; a worker's calls to the platform are actions of their own,  *)
(* because the worker may crash, stall or lose its lease around them.      *)
(*                                                                         *)
(* Lease tokens are left out: a token factory may repeat itself (the tests *)
(* do), so owner, action, attempt and claim epoch must fence on their own. *)
(***************************************************************************)
EXTENDS Naturals, FiniteSets
LOCAL INSTANCE FiniteSetsExt

CONSTANTS
    MaxIntents,     \* intents 1..MaxIntents, in (created_at, intent_id) order
    Workers,        \* owner ids
    NoWorker,       \* a row that is not leased
    Leases,         \* lease lengths workers ask for
    RetryDelay,     \* retryDelaySeconds
    MaxAttempts,    \* maxAttempts
    MaxRedrives,    \* bound on redrives of one intent
    MaxClaims,      \* bound on the claims of all intents
    MaxTime         \* bound on the clock

ASSUME OutboxAssumption ==
    /\ NoWorker \notin Workers
    /\ Leases \subseteq Nat \ {0}
    /\ MaxAttempts \in Nat \ {0}
    /\ {MaxIntents, RetryDelay, MaxRedrives, MaxClaims, MaxTime} \subseteq Nat

Intents == 1..MaxIntents

VARIABLES
    prompt,       \* whether workers call the platform only before their lease expires
    now,          \* the clock
    delivery,     \* delivery columns of assistant_reply_intents
    receipts,     \* assistant_delivery_receipts of each intent
    settlements,  \* assistant_delivery_settlements of each intent
    job,          \* the claim each worker believes it holds, and the platform's answer
    presented     \* the attempts of each intent the platform has shown its user

vars == <<prompt, now, delivery, receipts, settlements, job, presented>>

InFlight == {"sending", "reconcile_required"}
Settled == {"accepted", "unpresentable"}
Outcomes == {"platform_accepted", "unknown", "reconciled", "rejected"}
Bases == {"platform_accepted", "reconciled", "retry_exhausted"}

\* current_attempt_id numbers the attempt; 0 stands for NULL.  redrive_count
\* equals delivery_generation in every row and is left out.
Rows == [state : {"absent", "pending", "retrying"} \cup InFlight \cup Settled,
         attempts : Nat, tries : Nat, attempt : Nat, epoch : Nat,
         generation : 0..MaxRedrives, availableAt : Nat,
         owner : Workers \cup {NoWorker}, expires : Nat]

Receipts == [epoch : Nat, attempt : Nat, generation : 0..MaxRedrives, outcome : Outcomes]
Settlements == [generation : 0..MaxRedrives, basis : Bases]

NoJob == [intent |-> 0, action |-> "none", attempt |-> 0, epoch |-> 0, expires |-> 0,
          answer |-> "none", retryable |-> FALSE]
Jobs == [intent : 0..MaxIntents, action : {"none", "send", "reconcile"}, attempt : Nat,
         epoch : Nat, expires : Nat, answer : Outcomes \cup {"none"}, retryable : BOOLEAN]

TypeOK ==
    /\ prompt \in BOOLEAN
    /\ now \in 0..MaxTime
    /\ delivery \in [Intents -> Rows]
    /\ receipts \in [Intents -> SUBSET Receipts]
    /\ settlements \in [Intents -> SUBSET Settlements]
    /\ job \in [Workers -> Jobs]
    /\ presented \in [Intents -> SUBSET Nat]

Absent == [state |-> "absent", attempts |-> 0, tries |-> 0, attempt |-> 0, epoch |-> 0,
           generation |-> 0, availableAt |-> 0, owner |-> NoWorker, expires |-> 0]

\* A row of the release before claim epochs, caught in its first send or while that was in
\* doubt, and a lease if a worker had it.
LegacyRow(state, w) ==
    [Absent EXCEPT !.state = state, !.attempts = 1, !.tries = 1, !.attempt = 1,
                   !.owner = w, !.expires = IF w = NoWorker THEN 0 ELSE 1]

LegacyInFlight ==
    {LegacyRow("sending", w) : w \in Workers}
    \cup {LegacyRow("reconcile_required", w) : w \in Workers \cup {NoWorker}}

Init ==
    /\ prompt \in BOOLEAN
    /\ now = 0
    /\ delivery \in [Intents -> {Absent} \cup LegacyInFlight]
    /\ receipts = [i \in Intents |-> {}]
    /\ settlements = [i \in Intents |-> {}]
    /\ job = [w \in Workers |-> NoJob]
    /\ presented \in [Intents -> {{}, {1}}]
    /\ \A i \in Intents : delivery[i] = Absent => presented[i] = {}

-----------------------------------------------------------------------------
(* The ledger *)

\* validateDeliveryLedger: what every operation demands of the rows it touches.  That rows are
\* unaltered, and the intent is one its cause allows, is left out: nothing changes them.
LedgerValid(i) ==
    /\ delivery[i].tries <= delivery[i].attempts
    /\ \A r \in receipts[i] \cup settlements[i] : r.generation <= delivery[i].generation
    /\ \A s \in settlements[i] :
          /\ \E r \in receipts[i] :
                /\ r.generation = s.generation
                /\ r.outcome = IF s.basis = "retry_exhausted" THEN "rejected" ELSE s.basis
          /\ \A t \in settlements[i] : t.generation = s.generation => t = s
    /\ delivery[i].state \in Settled =>
          \E s \in settlements[i] :
              /\ s.generation = delivery[i].generation
              /\ (s.basis = "retry_exhausted") <=> (delivery[i].state = "unpresentable")

Released(row) == [row EXCEPT !.owner = NoWorker, !.expires = 0]

Expired(row) ==
    /\ row.state \in InFlight
    /\ row.epoch > 0
    /\ row.owner # NoWorker
    /\ row.expires <= now

\* Seeded fault: an expired send is simply sent again.
RecoveredForRetry(row) ==
    IF Expired(row) THEN [Released(row) EXCEPT !.state = "retrying"] ELSE row

\* A lease that ran out leaves its delivery in doubt.
Recovered(row) ==
    IF Expired(row) THEN [Released(row) EXCEPT !.state = "reconcile_required"] ELSE row

\* recoverLegacyLeases, when a process opens the outbox: a lease without a
\* claim epoch proves nothing.
Legacy(row) == row.epoch = 0 /\ (row.state \in InFlight \/ row.owner # NoWorker)

RecoverLegacyLeases ==
    /\ \E i \in Intents : Legacy(delivery[i])
    /\ delivery' =
          [i \in Intents |->
              IF ~Legacy(delivery[i]) THEN delivery[i]
              ELSE [Released(delivery[i]) EXCEPT
                       !.epoch = 1,
                       !.state = IF @ = "sending" THEN "reconcile_required" ELSE @]]
    /\ UNCHANGED <<prompt, now, receipts, settlements, job, presented>>

\* The outcome transaction commits an intent (reply-outcome.js); here they may be numbered in
\* another order than they are committed in.
Commit(i) ==
    /\ delivery[i].state = "absent"
    /\ delivery' = [delivery EXCEPT ![i] = [Absent EXCEPT !.state = "pending",
                                                         !.availableAt = now]]
    /\ UNCHANGED <<prompt, now, receipts, settlements, job, presented>>

-----------------------------------------------------------------------------
(* Claims *)

View(i, row) ==
    [NoJob EXCEPT !.intent = i, !.attempt = row.attempt, !.epoch = row.epoch,
                  !.expires = row.expires,
                  !.action = IF row.state = "sending" THEN "send" ELSE "reconcile"]

\* What a worker already holds is what it gets again.
Held(w) ==
    {i \in Intents : /\ delivery[i].owner = w /\ delivery[i].expires > now
                     /\ delivery[i].epoch > 0 /\ delivery[i].state \in InFlight}

ClaimReplay(w) ==
    /\ \E i \in Held(w) :
          /\ \A j \in Held(w) : i <= j
          /\ LedgerValid(i)
          /\ job' = [job EXCEPT ![w] = View(i, delivery[i])]
    /\ UNCHANGED <<prompt, now, delivery, receipts, settlements, presented>>

Claimable(row) ==
    /\ row.owner = NoWorker
    /\ \/ row.state = "reconcile_required"
       \/ row.state \in {"pending", "retrying"} /\ row.availableAt <= now

\* Doubtful deliveries first, then by the time they became due.
Rank(row) == IF row.state = "reconcile_required" THEN 0 ELSE 1
Before(rows, i, j) ==
    \/ Rank(rows[i]) < Rank(rows[j])
    \/ /\ Rank(rows[i]) = Rank(rows[j])
       /\ \/ rows[i].availableAt < rows[j].availableAt
          \/ rows[i].availableAt = rows[j].availableAt /\ i <= j

\* Seeded fault: the word the event deliveries use for a claimed row.
ClaimedAsProcessing(row, w, lease) ==
    [row EXCEPT !.owner = w, !.expires = now + lease, !.epoch = @ + 1, !.state = "processing"]

\* Seeded fault: attempts are not counted within their generation.
ClaimedUncounted(row, w, lease) ==
    LET leased == [row EXCEPT !.owner = w, !.expires = now + lease, !.epoch = @ + 1]
    IN  IF row.state = "reconcile_required" THEN leased
        ELSE [leased EXCEPT !.state = "sending", !.attempts = @ + 1,
                            !.attempt = row.attempts + 1]

\* A send starts a new attempt; a reconciliation is about the last one.
Claimed(row, w, lease) ==
    LET leased == [row EXCEPT !.owner = w, !.expires = now + lease, !.epoch = @ + 1]
    IN  IF row.state = "reconcile_required" THEN leased
        ELSE [leased EXCEPT !.state = "sending", !.attempts = @ + 1, !.tries = @ + 1,
                            !.attempt = row.attempts + 1]

ClaimFresh(w) ==
    /\ Held(w) = {}
    /\ MapThenSumSet(LAMBDA i : delivery[i].epoch, Intents) < MaxClaims
    /\ \A i \in Intents : Expired(delivery[i]) => LedgerValid(i)
    /\ \E i \in Intents, lease \in Leases :
          LET rows == [j \in Intents |-> Recovered(delivery[j])]
          IN  /\ Claimable(rows[i])
              /\ \A j \in Intents : Claimable(rows[j]) => Before(rows, i, j)
              /\ LedgerValid(i)
              /\ rows[i].state = "reconcile_required" => rows[i].attempt # 0
              /\ delivery' = [rows EXCEPT ![i] = Claimed(@, w, lease)]
              /\ job' = [job EXCEPT ![w] = View(i, delivery'[i])]
    /\ UNCHANGED <<prompt, now, receipts, settlements, presented>>

ClaimNext(w) == job[w] = NoJob /\ (ClaimReplay(w) \/ ClaimFresh(w))

-----------------------------------------------------------------------------
(* The platform and the worker's side of it (the adapters are not in the      *)
(* repository): an adapter uses the attempt id, so the platform shows one     *)
(* attempt once and never refuses what it has shown.                          *)

OnTime(w) == prompt => now < job[w].expires

Answer(w, answer, retryable) ==
    job' = [job EXCEPT ![w].answer = answer, ![w].retryable = retryable]

\* The call may succeed, be refused, or leave the worker without an answer.
CallSend(w) ==
    /\ job[w].action = "send" /\ job[w].answer = "none" /\ OnTime(w)
    /\ LET i == job[w].intent
           shown == [presented EXCEPT ![i] = @ \cup {job[w].attempt}]
       IN  \/ presented' = shown /\ Answer(w, "platform_accepted", FALSE)
           \/ presented' \in {presented, shown} /\ Answer(w, "unknown", FALSE)
           \/ /\ job[w].attempt \notin presented[i]
              /\ \E retryable \in BOOLEAN : Answer(w, "rejected", retryable)
              /\ UNCHANGED presented
    /\ UNCHANGED <<prompt, now, delivery, receipts, settlements>>

\* The worker asks what became of the attempt.
CallReconcile(w) ==
    /\ job[w].action = "reconcile" /\ job[w].answer = "none" /\ OnTime(w)
    /\ IF job[w].attempt \in presented[job[w].intent]
       THEN Answer(w, "reconciled", FALSE)
       ELSE \E retryable \in BOOLEAN : Answer(w, "rejected", retryable)
    /\ UNCHANGED <<prompt, now, delivery, receipts, settlements, presented>>

\* The worker crashes, or is done with its job.
Drop(w) ==
    /\ job[w] # NoJob
    /\ job' = [job EXCEPT ![w] = NoJob]
    /\ UNCHANGED <<prompt, now, delivery, receipts, settlements, presented>>

-----------------------------------------------------------------------------
(* Receipts *)

\* Seeded fault: a claim is recognised by its action and attempt.
OwnsByAttempt(row, j) ==
    /\ row.state = IF j.action = "send" THEN "sending" ELSE "reconcile_required"
    /\ row.attempt = j.attempt
    /\ row.owner # NoWorker
    /\ now < row.expires

\* The receipt's lease still owns the delivery.
Owns(row, j) ==
    /\ row.state = IF j.action = "send" THEN "sending" ELSE "reconcile_required"
    /\ row.attempt = j.attempt
    /\ row.epoch = j.epoch
    /\ row.owner # NoWorker
    /\ now < row.expires

\* The receipt transaction and the trigger that keeps one settlement per
\* generation.
Settle(i, basis) ==
    LET s == [generation |-> delivery[i].generation, basis |-> basis]
    IN  /\ \A t \in settlements[i] : t.generation = s.generation => t = s
        /\ settlements' = [settlements EXCEPT ![i] = @ \cup {s}]

MayRetry(i, retryable) == retryable /\ delivery[i].tries < MaxAttempts

\* Seeded fault: giving up is not settled.
AppliedUnsettled(i, answer, retryable) ==
    LET becomes(state) == delivery' = [delivery EXCEPT ![i] = [Released(@) EXCEPT !.state = state]]
    IN  \/ answer = "unknown" /\ becomes("reconcile_required") /\ UNCHANGED settlements
        \/ answer \in {"platform_accepted", "reconciled"} /\ becomes("accepted") /\ Settle(i, answer)
        \/ /\ answer = "rejected" /\ MayRetry(i, retryable)
           /\ becomes("retrying") /\ UNCHANGED settlements
        \/ /\ answer = "rejected" /\ ~MayRetry(i, retryable)
           /\ becomes("unpresentable") /\ UNCHANGED settlements

\* What an answer makes of the delivery.
Applied(i, answer, retryable) ==
    LET row == Released(delivery[i])
    IN  \/ /\ answer = "unknown"
           /\ delivery' = [delivery EXCEPT ![i] = [row EXCEPT !.state = "reconcile_required"]]
           /\ UNCHANGED settlements
        \/ /\ answer \in {"platform_accepted", "reconciled"}
           /\ delivery' = [delivery EXCEPT ![i] = [row EXCEPT !.state = "accepted"]]
           /\ Settle(i, answer)
        \/ /\ answer = "rejected" /\ MayRetry(i, retryable)
           /\ delivery' = [delivery EXCEPT ![i] = [row EXCEPT !.state = "retrying",
                                                    !.availableAt = now + RetryDelay]]
           /\ UNCHANGED settlements
        \/ /\ answer = "rejected" /\ ~MayRetry(i, retryable)
           /\ delivery' = [delivery EXCEPT ![i] = [row EXCEPT !.state = "unpresentable"]]
           /\ Settle(i, "retry_exhausted")

\* A receipt that was recorded before is answered from the ledger and changes
\* nothing; one whose lease is gone is refused.
RecordReceipt(w) ==
    LET j == job[w]
        i == j.intent
    IN  /\ j.answer # "none"
        /\ LedgerValid(i)
        /\ Owns(delivery[i], j)
        /\ receipts' = [receipts EXCEPT ![i] = @ \cup
                          {[epoch |-> j.epoch, attempt |-> j.attempt,
                            generation |-> delivery[i].generation, outcome |-> j.answer]}]
        /\ Applied(i, j.answer, j.retryable)
        /\ UNCHANGED <<prompt, now, job, presented>>

Redriven(row) ==
    [row EXCEPT !.state = "pending", !.availableAt = now, !.generation = @ + 1,
                !.tries = 0, !.attempt = 0, !.owner = NoWorker, !.expires = 0]

MayRedrive(i) == delivery[i].state = "unpresentable"

\* An operator asks again for a delivery that was given up; repeating the
\* request before the next claim changes nothing.
Redrive(i) ==
    /\ MayRedrive(i)
    /\ LedgerValid(i)
    /\ delivery[i].generation < MaxRedrives
    /\ delivery' = [delivery EXCEPT ![i] = Redriven(@)]
    /\ UNCHANGED <<prompt, now, receipts, settlements, job, presented>>

Tick ==
    /\ now < MaxTime
    /\ now' = now + 1
    /\ UNCHANGED <<prompt, delivery, receipts, settlements, job, presented>>

Next ==
    \/ RecoverLegacyLeases
    \/ \E i \in Intents : Commit(i) \/ Redrive(i)
    \/ \E w \in Workers :
          ClaimNext(w) \/ CallSend(w) \/ CallReconcile(w) \/ RecordReceipt(w) \/ Drop(w)
    \/ Tick

Spec == Init /\ [][Next]_vars

-----------------------------------------------------------------------------
(* Safety *)

\* Another attempt is started only when every earlier one is known to be
\* refused: a crash, a lost answer or an expired lease is reconciled first.
NoBlindResend ==
    \A i \in Intents : \A n \in 1..delivery[i].attempts - 1 :
        \E r \in receipts[i] : r.attempt = n /\ r.outcome = "rejected"

\* Retries are bounded: at most MaxAttempts sends per redrive, over all workers,
\* crashes and reconciliations.
AttemptsBounded ==
    \A i \in Intents :
        /\ delivery[i].tries <= MaxAttempts
        /\ delivery[i].attempts <= MaxAttempts * (delivery[i].generation + 1)

\* The settlements tell the delivery's story: every generation that was redriven
\* was exhausted, the current one is settled exactly when the delivery is, so a
\* delivery is accepted at most once and last.
SettlementsTellHistory ==
    \A i \in Intents :
        /\ \A g \in 0..delivery[i].generation - 1 :
              [generation |-> g, basis |-> "retry_exhausted"] \in settlements[i]
        /\ \A s \in settlements[i] :
              /\ s.generation <= delivery[i].generation
              /\ s.generation < delivery[i].generation => s.basis = "retry_exhausted"
        /\ delivery[i].state \in Settled <=>
              \E s \in settlements[i] : s.generation = delivery[i].generation

\* The ledger of every delivery tells a possible story: it passes
\* validateDeliveryLedger, so that no row ever makes claimNext throw and stop the
\* deliveries behind it, no send is blind, none is one too many, and the
\* settlements agree.
LedgerStaysValid ==
    /\ \A i \in Intents : LedgerValid(i)
    /\ NoBlindResend
    /\ AttemptsBounded
    /\ SettlementsTellHistory

\* The platform's view, for workers that call it before their lease expires: a
\* reply is shown at most once however often it is retried, reconciled or
\* redriven, it has been shown when the ledger calls it accepted, and has not
\* when the ledger may send it again or has given it up.
ShownOnce == prompt =>
    \A i \in Intents :
        /\ \A m, n \in presented[i] : m = n
        /\ delivery[i].state = "accepted" => presented[i] # {}
        /\ delivery[i].state \in {"pending", "retrying", "unpresentable"} => presented[i] = {}

-----------------------------------------------------------------------------
(* Action properties *)

\* While a lease is live, only the answer to that very claim changes the
\* delivery: no stale worker, no other claim and no redrive.
LeaseExcludes ==
    [][\A i \in Intents :
          /\ delivery[i].owner # NoWorker /\ now < delivery[i].expires
          /\ delivery[i].epoch > 0
          /\ delivery'[i] # delivery[i]
          => \E w \in Workers :
                /\ job[w].intent = i /\ job[w].epoch = delivery[i].epoch
                /\ \E r \in receipts'[i] \ receipts[i] : r.epoch = delivery[i].epoch]_vars

-----------------------------------------------------------------------------
(* The outbox implements ReplyDelivery. *)

PhaseOf(row) ==
    CASE row.state = "absent" -> "absent"
      [] row.state \in {"pending", "retrying"} -> "due"
      [] row.state = "sending" -> IF row.epoch = 0 THEN "in_doubt" ELSE "trying"
      [] row.state = "reconcile_required" -> "in_doubt"
      [] row.state = "accepted" -> "accepted"
      [] OTHER                            -> "exhausted"

Delivery == INSTANCE ReplyDelivery WITH
    phase <- [i \in Intents |-> PhaseOf(delivery[i])],
    tries <- [i \in Intents |-> delivery[i].tries]

\* What happens to each reply is a behaviour of ReplyDelivery.
DeliverySpec == Delivery!Spec
=============================================================================
