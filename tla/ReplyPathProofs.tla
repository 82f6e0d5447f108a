---------------------------- MODULE ReplyPathProofs ----------------------------
(***************************************************************************)
(* What the two ends of the way of an answer guarantee: ReplyOutbox, for   *)
(* any number of intents, workers, attempts and redrives, and              *)
(* ResponseTurns, for any number of conversations, sessions, hooks and     *)
(* steps.  They share no state.                                            *)
(***************************************************************************)
EXTENDS ReplyOutbox, ResponseTurns, FiniteSetTheorems, TLAPS

-----------------------------------------------------------------------------
(* The inductive invariant *)

\* A leased row is in flight, a row that is being sent is leased, and what is in flight is the
\* last attempt; a row that was never committed is as the schema made it.
RowOK(row) ==
    /\ row.state = "absent" => row = Absent
    /\ row.owner # NoWorker => row.state \in InFlight
    /\ row.state = "sending" => row.owner # NoWorker
    /\ row.state \in InFlight => row.attempt = row.attempts /\ row.attempts > 0
    /\ row.tries <= row.attempts
    /\ row.tries <= MaxAttempts
    /\ row.attempts <= MaxAttempts * row.generation + row.tries
    /\ row.state = "pending" => row.tries = 0
    /\ row.state = "retrying" => row.tries < MaxAttempts

RowsOK == \A i \in Intents : RowOK(delivery[i])

\* Every attempt but the one that is in flight, or was accepted, is known to be refused.
RefusalsKnown ==
    \A i \in Intents : \A n \in 1..delivery[i].attempts :
        (n < delivery[i].attempts \/ delivery[i].state \in {"pending", "retrying", "unpresentable"})
        => \E r \in receipts[i] : r.attempt = n /\ r.outcome = "rejected"

\* The claim of a live lease has no receipt yet.
ReceiptsFenced ==
    \A i \in Intents : \A r \in receipts[i] :
        /\ r.epoch <= delivery[i].epoch
        /\ delivery[i].owner # NoWorker => r.epoch < delivery[i].epoch

Holds(row, w, j) ==
    /\ row.owner = w
    /\ row.state = IF j.action = "send" THEN "sending" ELSE "reconcile_required"
    /\ row.attempt = j.attempt
    /\ row.expires = j.expires

\* A worker's job is a claim: of its epoch there is one, and before it expires only the
\* worker's own answer ends it.
JobOK(w, j, row) ==
    /\ j.epoch \in 1..row.epoch
    /\ j.epoch = row.epoch /\ row.owner # NoWorker => Holds(row, w, j)
    /\ j.answer = "none" /\ now < j.expires => j.epoch = row.epoch /\ row.owner # NoWorker

JobsOK ==
    \A w \in Workers :
        /\ job[w].action = "none" => job[w].answer = "none"
        /\ job[w].action # "none" =>
             job[w].intent \in Intents /\ JobOK(w, job[w], delivery[job[w].intent])

\* An answer was true when it was given, and a refusal stays true while its lease lives.
AnswersTrue ==
    \A w \in Workers : job[w].action # "none" =>
        /\ job[w].answer \in {"platform_accepted", "reconciled"} =>
              job[w].attempt \in presented[job[w].intent]
        /\ /\ prompt /\ job[w].answer = "rejected"
           /\ job[w].epoch = delivery[job[w].intent].epoch
           /\ delivery[job[w].intent].owner # NoWorker
           => job[w].attempt \notin presented[job[w].intent]

\* Only the last attempt can have been shown.
LastIsShown == prompt =>
    \A i \in Intents :
        /\ presented[i] \subseteq {delivery[i].attempts}
        /\ delivery[i].state = "accepted" => presented[i] # {}
        /\ delivery[i].state \in {"absent", "pending", "retrying", "unpresentable"} =>
              presented[i] = {}

LedgersOK == (\A i \in Intents : LedgerValid(i)) /\ SettlementsTellHistory

IInv ==
    /\ TypeOK
    /\ RowsOK
    /\ RefusalsKnown
    /\ ReceiptsFenced
    /\ JobsOK
    /\ AnswersTrue
    /\ LastIsShown
    /\ LedgersOK

-----------------------------------------------------------------------------
(* The initial states *)

LEMMA AbsentRow ==
    /\ Absent \in Rows
    /\ Absent.state = "absent" /\ Absent.attempts = 0 /\ Absent.tries = 0 /\ Absent.attempt = 0
    /\ Absent.epoch = 0 /\ Absent.generation = 0 /\ Absent.owner = NoWorker
  BY OutboxAssumption DEF Absent, Rows

LEMMA LegacyRowFits ==
    ASSUME NEW row \in LegacyInFlight
    PROVE  /\ row \in Rows
           /\ row.state \in InFlight /\ row.attempts = 1 /\ row.tries = 1 /\ row.attempt = 1
           /\ row.epoch = 0 /\ row.generation = 0
           /\ row.state = "sending" => row.owner # NoWorker
  <1>1. PICK s \in InFlight, w \in Workers \cup {NoWorker} :
          row = LegacyRow(s, w) /\ (s = "sending" => w # NoWorker)
    BY OutboxAssumption DEF LegacyInFlight, InFlight
  <1> QED
    BY <1>1, AbsentRow DEF LegacyRow, Rows, InFlight

LEMMA InitIInv == Init => IInv
  <1> SUFFICES ASSUME Init PROVE IInv
    OBVIOUS
  <1>1. \A i \in Intents :
          /\ delivery[i] \in Rows
          /\ \/ delivery[i] = Absent /\ delivery[i].state = "absent"
                /\ delivery[i].attempts = 0 /\ delivery[i].tries = 0
                /\ delivery[i].owner = NoWorker /\ presented[i] = {}
             \/ delivery[i].state \in InFlight /\ delivery[i].attempts = 1
                /\ delivery[i].attempt = 1 /\ delivery[i].tries = 1
                /\ (delivery[i].state = "sending" => delivery[i].owner # NoWorker)
          /\ delivery[i].generation = 0
    BY AbsentRow, LegacyRowFits, OutboxAssumption DEF Init
  <1>2. TypeOK
    BY <1>1, OutboxAssumption DEF Init, TypeOK, Receipts, Settlements, NoJob, Jobs
  <1>3. RowsOK
    BY <1>1, OutboxAssumption DEF RowsOK, RowOK, InFlight
  <1>4. RefusalsKnown /\ ReceiptsFenced
    BY <1>1 DEF Init, RefusalsKnown, ReceiptsFenced, InFlight
  <1>5. JobsOK /\ AnswersTrue
    BY DEF Init, JobsOK, AnswersTrue, NoJob
  <1>6. LastIsShown
    BY <1>1 DEF Init, LastIsShown, InFlight
  <1>7. LedgersOK
    BY <1>1 DEF Init, LedgersOK, LedgerValid, SettlementsTellHistory, Settled, InFlight
  <1> QED
    BY <1>2, <1>3, <1>4, <1>5, <1>6, <1>7 DEF IInv

-----------------------------------------------------------------------------
(* The steps *)

LEMMA TickKeeps ==
    ASSUME IInv, Tick
    PROVE  IInv'
  <1> USE DEF IInv, Tick
  <1>1. TypeOK'
    BY OutboxAssumption DEF TypeOK
  <1>2. JobsOK'
    BY DEF JobsOK, JobOK, Holds, TypeOK, Jobs
  <1>3. RowsOK' /\ RefusalsKnown' /\ ReceiptsFenced' /\ AnswersTrue' /\ LastIsShown'
    BY DEF RowsOK, RowOK, RefusalsKnown, ReceiptsFenced, AnswersTrue, LastIsShown
  <1>4. LedgersOK'
    BY DEF LedgersOK, LedgerValid, SettlementsTellHistory
  <1> QED
    BY <1>1, <1>2, <1>3, <1>4

LEMMA DropKeeps ==
    ASSUME IInv, NEW w \in Workers, Drop(w)
    PROVE  IInv'
  <1> USE DEF IInv, Drop
  <1>1. TypeOK'
    BY OutboxAssumption DEF TypeOK, NoJob, Jobs
  <1>2. \A v \in Workers : job'[v] = NoJob \/ job'[v] = job[v]
    BY DEF TypeOK
  <1>3. JobsOK' /\ AnswersTrue'
    BY <1>2 DEF JobsOK, JobOK, Holds, AnswersTrue, NoJob
  <1>4. RowsOK' /\ RefusalsKnown' /\ ReceiptsFenced' /\ LastIsShown'
    BY DEF RowsOK, RowOK, RefusalsKnown, ReceiptsFenced, LastIsShown
  <1>5. LedgersOK'
    BY DEF LedgersOK, LedgerValid, SettlementsTellHistory
  <1> QED
    BY <1>1, <1>3, <1>4, <1>5

LEMMA CommitKeeps ==
    ASSUME IInv, NEW i \in Intents, Commit(i)
    PROVE  IInv'
  <1> USE DEF IInv, Commit
  <1> DEFINE new == [Absent EXCEPT !.state = "pending", !.availableAt = now]
  <1>1. /\ delivery[i] = Absent
        /\ delivery'[i] = new
        /\ \A j \in Intents \ {i} : delivery'[j] = delivery[j]
    BY DEF TypeOK, RowsOK, RowOK
  <1>2. /\ new \in Rows
        /\ new.state = "pending" /\ new.attempts = 0 /\ new.tries = 0 /\ new.attempt = 0
        /\ new.epoch = 0 /\ new.generation = 0 /\ new.owner = NoWorker
    <2>1. now \in Nat
      BY OutboxAssumption DEF TypeOK
    <2> QED
      BY <2>1, AbsentRow DEF Rows
  <1> HIDE DEF new
  <1>3. TypeOK'
    BY <1>1, <1>2 DEF TypeOK
  <1>4. RowsOK'
    <2>1. RowOK(new)
      BY <1>2, OutboxAssumption DEF RowOK, InFlight
    <2> QED
      BY <1>1, <2>1 DEF RowsOK
  <1>5. RefusalsKnown' /\ ReceiptsFenced' /\ LastIsShown'
    BY <1>1, <1>2, AbsentRow DEF RefusalsKnown, ReceiptsFenced, LastIsShown
  <1>6. JobsOK' /\ AnswersTrue'
    BY <1>1, <1>2, AbsentRow DEF JobsOK, JobOK, Holds, AnswersTrue, TypeOK
  <1>7. LedgersOK'
    BY <1>1, <1>2, AbsentRow DEF LedgersOK, LedgerValid, SettlementsTellHistory, Settled, TypeOK
  <1> QED
    BY <1>3, <1>4, <1>5, <1>6, <1>7

\* One more generation makes room for MaxAttempts more attempts.
LEMMA NextGeneration ==
    ASSUME NEW n \in Nat, NEW g \in Nat, NEW t \in Nat,
           n <= MaxAttempts * g + t, t <= MaxAttempts
    PROVE  n <= MaxAttempts * (g + 1) + 0
  <1>1. MaxAttempts \in Nat /\ MaxAttempts * (g + 1) = MaxAttempts * g + MaxAttempts
    BY OutboxAssumption
  <1>2. MaxAttempts * g \in Nat
    BY OutboxAssumption
  <1> QED
    BY <1>1, <1>2

LEMMA RedriveKeeps ==
    ASSUME IInv, NEW i \in Intents, Redrive(i)
    PROVE  IInv'
  <1> USE DEF IInv
  <1> DEFINE old == delivery[i]
             new == Redriven(old)
  <1>1. /\ old.state = "unpresentable" /\ old.generation < MaxRedrives
        /\ old \in Rows /\ RowOK(old) /\ LedgerValid(i)
        /\ delivery' = [delivery EXCEPT ![i] = new]
        /\ UNCHANGED <<prompt, now, receipts, settlements, job, presented>>
    BY DEF Redrive, MayRedrive, TypeOK, RowsOK
  <1>2. /\ delivery'[i] = new
        /\ \A j \in Intents \ {i} : delivery'[j] = delivery[j]
    BY <1>1 DEF TypeOK
  <1>3. /\ new \in Rows
        /\ new.state = "pending" /\ new.attempts = old.attempts /\ new.tries = 0
        /\ new.epoch = old.epoch /\ new.generation = old.generation + 1 /\ new.owner = NoWorker
    <2>1. now \in Nat /\ old.generation + 1 \in 0..MaxRedrives
      BY <1>1, OutboxAssumption DEF TypeOK, Rows
    <2> QED
      BY <1>1, <2>1 DEF Redriven, Rows
  <1> HIDE DEF new
  <1>4. TypeOK'
    BY <1>1, <1>2, <1>3 DEF TypeOK
  <1>5. RowsOK'
    <2>1. old.attempts <= MaxAttempts * (old.generation + 1) + 0
      BY <1>1, NextGeneration DEF RowOK, Rows
    <2>2. RowOK(new)
      BY <1>1, <1>3, <2>1, OutboxAssumption DEF RowOK, InFlight, Rows
    <2> QED
      BY <1>2, <2>2 DEF RowsOK
  <1>6. RefusalsKnown'
    BY <1>1, <1>2, <1>3 DEF RefusalsKnown
  <1>7. ReceiptsFenced' /\ LastIsShown'
    BY <1>1, <1>2, <1>3 DEF ReceiptsFenced, LastIsShown, RowOK, InFlight
  <1>8. JobsOK' /\ AnswersTrue'
    <2>1. old.owner = NoWorker
      BY <1>1 DEF RowOK, InFlight
    <2> QED
      BY <1>1, <1>2, <1>3, <2>1 DEF JobsOK, JobOK, Holds, AnswersTrue
  <1>9. LedgersOK'
    <2>1. \A j \in Intents \ {i} : LedgerValid(j)'
      BY <1>1, <1>2 DEF LedgersOK, LedgerValid
    <2>2. PICK s \in settlements[i] : s.generation = old.generation /\ s.basis = "retry_exhausted"
      BY <1>1 DEF LedgerValid, Settled
    <2>3. s = [generation |-> old.generation, basis |-> "retry_exhausted"]
      BY <2>2 DEF TypeOK, Settlements
    <2>0. \A r \in receipts[i] \cup settlements[i] : r.generation <= old.generation + 1
      <3> TAKE r \in receipts[i] \cup settlements[i]
      <3>1. r.generation \in Nat /\ old.generation \in Nat /\ r.generation <= old.generation
        BY <1>1, OutboxAssumption DEF LedgerValid, TypeOK, Receipts, Settlements, Rows
      <3> QED
        BY <3>1
    <2>4. LedgerValid(i)'
      BY <1>1, <1>2, <1>3, <2>0 DEF LedgerValid, Settled, Rows
    <2>5. \A t \in settlements[i] : t.generation <= old.generation /\ t.generation \in Nat
      BY OutboxAssumption DEF LedgersOK, SettlementsTellHistory, TypeOK, Settlements
    <2>6. old.generation \in Nat
      BY <1>1, OutboxAssumption DEF Rows
    <2>7. \A g \in 0..old.generation :
             [generation |-> g, basis |-> "retry_exhausted"] \in settlements[i]
      <3> TAKE g \in 0..old.generation
      <3>1. CASE g = old.generation
        BY <3>1, <2>2, <2>3
      <3>2. CASE g \in 0..old.generation - 1
        BY <3>2 DEF LedgersOK, SettlementsTellHistory
      <3> QED
        BY <3>1, <3>2, <2>6
    <2>8. \A t \in settlements[i] : t.basis = "retry_exhausted"
      <3> TAKE t \in settlements[i]
      <3>1. CASE t.generation = old.generation
        BY <3>1, <2>2, <1>1 DEF LedgerValid
      <3>2. CASE t.generation < old.generation
        BY <3>2 DEF LedgersOK, SettlementsTellHistory
      <3> QED
        BY <3>1, <3>2, <2>5, <2>6
    <2>9. SettlementsTellHistory'
      BY <1>1, <1>2, <1>3, <2>5, <2>6, <2>7, <2>8 DEF LedgersOK, SettlementsTellHistory, Settled
    <2> QED
      BY <2>1, <2>4, <2>9 DEF LedgersOK
  <1> QED
    BY <1>4, <1>5, <1>6, <1>7, <1>8, <1>9

LEMMA LegacyKeeps ==
    ASSUME IInv, RecoverLegacyLeases
    PROVE  IInv'
  <1> USE DEF IInv
  <1>1. UNCHANGED <<prompt, now, receipts, settlements, job, presented>>
    BY DEF RecoverLegacyLeases
  <1>2. \A i \in Intents :
          \/ delivery'[i] = delivery[i]
          \/ /\ Legacy(delivery[i])
             /\ delivery'[i] = [Released(delivery[i]) EXCEPT
                       !.epoch = 1,
                       !.state = IF @ = "sending" THEN "reconcile_required" ELSE @]
    BY DEF RecoverLegacyLeases
  <1>3. \A i \in Intents :
          \/ delivery'[i] = delivery[i]
          \/ /\ delivery[i].epoch = 0 /\ delivery'[i].epoch = 1
             /\ delivery[i].state \in InFlight /\ delivery'[i].state = "reconcile_required"
             /\ delivery'[i] \in Rows
             /\ delivery'[i].owner = NoWorker
             /\ delivery'[i].attempts = delivery[i].attempts
             /\ delivery'[i].attempt = delivery[i].attempt
             /\ delivery'[i].tries = delivery[i].tries
             /\ delivery'[i].generation = delivery[i].generation
    <2> TAKE i \in Intents
    <2>1. delivery[i] \in Rows /\ (Legacy(delivery[i]) => delivery[i].state \in InFlight)
      BY DEF TypeOK, RowsOK, RowOK, Legacy
    <2>2. Released(delivery[i]) \in Rows
      BY <2>1 DEF Released, Rows
    <2>3. CASE delivery'[i] = delivery[i]
      BY <2>3
    <2>4. CASE Legacy(delivery[i]) /\ delivery'[i] # delivery[i]
      <3> DEFINE row == delivery[i]
                 freed == Released(row)
      <3>1. /\ freed \in Rows /\ freed.state = row.state /\ freed.attempts = row.attempts
            /\ freed.attempt = row.attempt /\ freed.tries = row.tries
            /\ freed.generation = row.generation /\ freed.owner = NoWorker
        BY <2>1, <2>2 DEF Released, Rows
      <3>3. row.state \in InFlight /\ row.epoch = 0
        BY <2>1, <2>4 DEF Legacy
      <3>2. delivery'[i] = [freed EXCEPT !.epoch = 1, !.state = "reconcile_required"]
        BY <1>2, <2>4, <3>1, <3>3 DEF InFlight, Rows
      <3> HIDE DEF freed
      <3>4. delivery'[i] \in Rows
        <4>1. \A x \in Rows : [x EXCEPT !.epoch = 1, !.state = "reconcile_required"] \in Rows
          BY DEF Rows, InFlight
        <4> QED
          BY <3>1, <3>2, <4>1
      <3>5. /\ delivery'[i].epoch = 1 /\ delivery'[i].state = "reconcile_required"
            /\ delivery'[i].owner = NoWorker /\ delivery'[i].attempts = row.attempts
            /\ delivery'[i].attempt = row.attempt /\ delivery'[i].tries = row.tries
            /\ delivery'[i].generation = row.generation
        BY <3>1, <3>2 DEF Rows
      <3> QED
        BY <3>3, <3>4, <3>5
    <2> QED
      BY <1>2, <2>3, <2>4
  <1>4. TypeOK'
    <2>1. delivery' \in [Intents -> Rows]
      BY <1>3 DEF TypeOK, RecoverLegacyLeases
    <2> QED
      BY <1>1, <2>1 DEF TypeOK
  <1>5. RowsOK'
    BY <1>3 DEF RowsOK, RowOK, InFlight
  <1>6. RefusalsKnown' /\ ReceiptsFenced' /\ LastIsShown'
    BY <1>1, <1>3 DEF RefusalsKnown, ReceiptsFenced, LastIsShown, InFlight, TypeOK, Receipts
  <1>7. JobsOK' /\ AnswersTrue'
    BY <1>1, <1>3 DEF JobsOK, JobOK, Holds, AnswersTrue, TypeOK, Jobs
  <1>8. LedgersOK'
    BY <1>1, <1>3 DEF LedgersOK, LedgerValid, SettlementsTellHistory, Settled, InFlight
  <1> QED
    BY <1>4, <1>5, <1>6, <1>7, <1>8

LEMMA ViewIsJob ==
    ASSUME NEW i \in Intents, NEW row \in Rows
    PROVE  LET j == View(i, row)
           IN  /\ j \in Jobs
               /\ j.intent = i /\ j.attempt = row.attempt /\ j.epoch = row.epoch
               /\ j.expires = row.expires /\ j.answer = "none"
               /\ j.action = IF row.state = "sending" THEN "send" ELSE "reconcile"
  <1>1. NoJob \in Jobs /\ NoJob.answer = "none"
    BY OutboxAssumption DEF NoJob, Jobs
  <1>2. i \in 0..MaxIntents
    BY OutboxAssumption DEF Intents
  <1> QED
    BY <1>1, <1>2 DEF View, Jobs, Rows

LEMMA ReplayKeeps ==
    ASSUME IInv, NEW w \in Workers, ClaimReplay(w)
    PROVE  IInv'
  <1> USE DEF IInv
  <1>1. PICK i \in Intents :
          /\ delivery[i].owner = w /\ delivery[i].expires > now
          /\ delivery[i].epoch > 0 /\ delivery[i].state \in InFlight
          /\ job' = [job EXCEPT ![w] = View(i, delivery[i])]
    BY DEF ClaimReplay, Held
  <1>2. UNCHANGED <<prompt, now, delivery, receipts, settlements, presented>>
    BY DEF ClaimReplay
  <1> DEFINE new == View(i, delivery[i])
  <1>3. /\ new \in Jobs
        /\ new.intent = i /\ new.attempt = delivery[i].attempt /\ new.epoch = delivery[i].epoch
        /\ new.expires = delivery[i].expires /\ new.answer = "none"
        /\ new.action = IF delivery[i].state = "sending" THEN "send" ELSE "reconcile"
    BY ViewIsJob DEF TypeOK
  <1> HIDE DEF new
  <1>4. job'[w] = new /\ \A v \in Workers \ {w} : job'[v] = job[v]
    BY <1>1 DEF TypeOK, new
  <1>5. TypeOK'
    BY <1>1, <1>2, <1>3 DEF TypeOK, new
  <1>6. JobsOK'
    <2>1. delivery[i].epoch \in 1..delivery[i].epoch
      BY <1>1 DEF TypeOK, Rows
    <2>2. JobOK(w, new, delivery[i])
      BY <1>1, <1>3, <2>1, OutboxAssumption DEF JobOK, Holds, InFlight
    <2> QED
      BY <1>2, <1>3, <1>4, <2>2 DEF JobsOK, JobOK, Holds
  <1>7. AnswersTrue'
    BY <1>2, <1>3, <1>4 DEF AnswersTrue
  <1>8. RowsOK' /\ RefusalsKnown' /\ ReceiptsFenced' /\ LastIsShown'
    BY <1>2 DEF RowsOK, RowOK, RefusalsKnown, ReceiptsFenced, LastIsShown
  <1>9. LedgersOK'
    BY <1>2 DEF LedgersOK, LedgerValid, SettlementsTellHistory
  <1> QED
    BY <1>5, <1>6, <1>7, <1>8, <1>9

\* A worker that calls the platform in time still owns its delivery.
LEMMA OnTimeOwns ==
    ASSUME IInv, NEW w \in Workers, prompt, OnTime(w),
           job[w].action # "none", job[w].answer = "none"
    PROVE  LET i == job[w].intent
           IN  /\ i \in Intents
               /\ job[w].epoch = delivery[i].epoch /\ Holds(delivery[i], w, job[w])
               /\ job[w].attempt = delivery[i].attempts
               /\ delivery[i].state \in InFlight
  BY OutboxAssumption DEF IInv, OnTime, JobsOK, JobOK, Holds, RowsOK, RowOK, InFlight

\* What an answer changes about the job of a worker.
LEMMA AnsweredJob ==
    ASSUME TypeOK, NEW w \in Workers, NEW answer \in Outcomes, NEW retryable \in BOOLEAN,
           Answer(w, answer, retryable)
    PROVE  /\ job' \in [Workers -> Jobs]
           /\ job'[w].answer = answer
           /\ job'[w].intent = job[w].intent /\ job'[w].attempt = job[w].attempt
           /\ job'[w].epoch = job[w].epoch /\ job'[w].expires = job[w].expires
           /\ job'[w].action = job[w].action
           /\ \A v \in Workers \ {w} : job'[v] = job[v]
  <1> DEFINE new == [job[w] EXCEPT !.answer = answer, !.retryable = retryable]
  <1>1. job[w] \in Jobs
    BY DEF TypeOK
  <1>2. /\ new \in Jobs
        /\ new.answer = answer
        /\ new.intent = job[w].intent /\ new.attempt = job[w].attempt
        /\ new.epoch = job[w].epoch /\ new.expires = job[w].expires
        /\ new.action = job[w].action
    BY <1>1 DEF Jobs
  <1>3. job' = [job EXCEPT ![w] = new]
    BY <1>1 DEF Answer, Jobs, TypeOK
  <1> QED
    BY <1>2, <1>3 DEF TypeOK

\* An answer touches no row, and a job that has one claims nothing.
LEMMA AnswerFrame ==
    ASSUME IInv, NEW w \in Workers, NEW answer \in Outcomes, NEW retryable \in BOOLEAN,
           Answer(w, answer, retryable), job[w].action # "none",
           presented' \in [Intents -> SUBSET Nat],
           UNCHANGED <<prompt, now, delivery, receipts, settlements>>
    PROVE  /\ TypeOK' /\ RowsOK' /\ RefusalsKnown' /\ ReceiptsFenced' /\ JobsOK' /\ LedgersOK'
  <1> USE DEF IInv
  <1>1. /\ job' \in [Workers -> Jobs]
        /\ job'[w].answer = answer
        /\ job'[w].intent = job[w].intent /\ job'[w].attempt = job[w].attempt
        /\ job'[w].epoch = job[w].epoch /\ job'[w].expires = job[w].expires
        /\ job'[w].action = job[w].action
        /\ \A v \in Workers \ {w} : job'[v] = job[v]
    BY AnsweredJob
  <1>2. TypeOK'
    BY <1>1 DEF TypeOK
  <1>3. answer # "none"
    BY DEF Outcomes
  <1>4. JobsOK'
    BY <1>1, <1>3 DEF JobsOK, JobOK, Holds
  <1>5. RowsOK' /\ RefusalsKnown' /\ ReceiptsFenced'
    BY DEF RowsOK, RowOK, RefusalsKnown, ReceiptsFenced
  <1>6. LedgersOK'
    BY DEF LedgersOK, LedgerValid, SettlementsTellHistory
  <1> QED
    BY <1>2, <1>4, <1>5, <1>6

LEMMA SendKeeps ==
    ASSUME IInv, NEW w \in Workers, CallSend(w)
    PROVE  IInv'
  <1> USE DEF IInv
  <1> DEFINE i == job[w].intent
             shown == [presented EXCEPT ![i] = @ \cup {job[w].attempt}]
  <1>1. /\ job[w].action = "send" /\ job[w].answer = "none" /\ OnTime(w)
        /\ UNCHANGED <<prompt, now, delivery, receipts, settlements>>
    BY DEF CallSend
  <1>2. i \in Intents /\ job[w].attempt \in Nat /\ presented[i] \subseteq Nat
    BY <1>1 DEF JobsOK, TypeOK, Jobs
  <1>3. shown \in [Intents -> SUBSET Nat]
    BY <1>2 DEF TypeOK
  <1>4. PICK answer \in {"platform_accepted", "unknown", "rejected"}, retryable \in BOOLEAN :
          /\ Answer(w, answer, retryable)
          /\ presented' \in {presented, shown}
          /\ answer = "platform_accepted" => presented' = shown
          /\ answer = "rejected" => presented' = presented /\ job[w].attempt \notin presented[i]
    BY DEF CallSend
  <1>5. presented' \in [Intents -> SUBSET Nat]
    BY <1>3, <1>4 DEF TypeOK
  <1>6. answer \in Outcomes
    BY DEF Outcomes
  <1>7. /\ TypeOK' /\ RowsOK' /\ RefusalsKnown' /\ ReceiptsFenced' /\ JobsOK' /\ LedgersOK'
    BY <1>1, <1>4, <1>5, <1>6, AnswerFrame
  <1>8. /\ \A j \in Intents \ {i} : presented'[j] = presented[j]
        /\ presented[i] \subseteq presented'[i]
        /\ presented'[i] \subseteq presented[i] \cup {job[w].attempt}
        /\ answer = "platform_accepted" => job[w].attempt \in presented'[i]
        /\ answer = "rejected" => job[w].attempt \notin presented'[i]
    BY <1>2, <1>3, <1>4 DEF TypeOK
  <1>9. /\ job'[w].answer = answer
        /\ job'[w].intent = i /\ job'[w].attempt = job[w].attempt
        /\ \A v \in Workers \ {w} : job'[v] = job[v]
    BY <1>4, <1>6, AnsweredJob
  <1>10. prompt => /\ job[w].epoch = delivery[i].epoch /\ Holds(delivery[i], w, job[w])
                   /\ job[w].attempt = delivery[i].attempts
                   /\ delivery[i].state \in InFlight
    BY <1>1, OnTimeOwns
  <1>11. AnswersTrue'
    <2> SUFFICES ASSUME NEW v \in Workers, job'[v].action # "none"
                 PROVE  /\ job'[v].answer \in {"platform_accepted", "reconciled"} =>
                             job'[v].attempt \in presented'[job'[v].intent]
                        /\ /\ prompt /\ job'[v].answer = "rejected"
                           /\ job'[v].epoch = delivery[job'[v].intent].epoch
                           /\ delivery[job'[v].intent].owner # NoWorker
                           => job'[v].attempt \notin presented'[job'[v].intent]
      BY <1>1 DEF AnswersTrue
    <2>1. CASE v = w
      BY <2>1, <1>8, <1>9
    <2>2. CASE v # w
      <3>1. job'[v] = job[v] /\ job[v].intent \in Intents
        BY <2>2, <1>9 DEF JobsOK
      <3>2. job[v].intent = i /\ prompt /\ job[v].epoch = delivery[i].epoch
              => delivery[i].owner = w
        BY <1>10 DEF Holds
      <3>3. job[v].intent = i /\ job[v].epoch = delivery[i].epoch /\ delivery[i].owner # NoWorker
              => delivery[i].owner = v
        BY <3>1 DEF JobsOK, JobOK, Holds
      <3> QED
        BY <2>2, <3>1, <3>2, <3>3, <1>8 DEF AnswersTrue
    <2> QED
      BY <2>1, <2>2
  <1>12. LastIsShown'
    BY <1>1, <1>2, <1>8, <1>10 DEF LastIsShown, InFlight
  <1> QED
    BY <1>7, <1>11, <1>12

LEMMA ReconcileKeeps ==
    ASSUME IInv, NEW w \in Workers, CallReconcile(w)
    PROVE  IInv'
  <1> USE DEF IInv
  <1>1. /\ job[w].action = "reconcile" /\ job[w].answer = "none"
        /\ UNCHANGED <<prompt, now, delivery, receipts, settlements, presented>>
    BY DEF CallReconcile
  <1>2. PICK answer \in {"reconciled", "rejected"}, retryable \in BOOLEAN :
          /\ Answer(w, answer, retryable)
          /\ answer = "reconciled" => job[w].attempt \in presented[job[w].intent]
          /\ answer = "rejected" => job[w].attempt \notin presented[job[w].intent]
    BY DEF CallReconcile
  <1>3. answer \in Outcomes
    BY DEF Outcomes
  <1>4. /\ TypeOK' /\ RowsOK' /\ RefusalsKnown' /\ ReceiptsFenced' /\ JobsOK' /\ LedgersOK'
    BY <1>1, <1>2, <1>3, AnswerFrame DEF TypeOK
  <1>5. /\ job'[w].answer = answer
        /\ job'[w].intent = job[w].intent /\ job'[w].attempt = job[w].attempt
        /\ \A v \in Workers \ {w} : job'[v] = job[v]
    BY <1>2, <1>3, AnsweredJob
  <1>6. AnswersTrue'
    BY <1>1, <1>2, <1>5 DEF AnswersTrue
  <1>7. LastIsShown'
    BY <1>1 DEF LastIsShown
  <1> QED
    BY <1>4, <1>6, <1>7

LEMMA RecoveredRow ==
    ASSUME NEW row \in Rows, RowOK(row)
    PROVE  LET new == Recovered(row)
           IN  /\ new \in Rows /\ RowOK(new)
               /\ new.attempts = row.attempts /\ new.tries = row.tries
               /\ new.epoch = row.epoch /\ new.generation = row.generation
               /\ \/ ~Expired(row) /\ new = row
                  \/ /\ Expired(row) /\ row.state \in InFlight
                     /\ new.state = "reconcile_required" /\ new.owner = NoWorker
  <1>1. \A x \in Rows :
          LET new == [[x EXCEPT !.owner = NoWorker, !.expires = 0]
                         EXCEPT !.state = "reconcile_required"]
          IN  /\ new \in Rows
              /\ new.state = "reconcile_required" /\ new.owner = NoWorker
              /\ new.attempts = x.attempts /\ new.tries = x.tries
              /\ new.epoch = x.epoch /\ new.generation = x.generation
              /\ new.attempt = x.attempt
    BY DEF Rows, InFlight
  <1>2. CASE Expired(row)
    BY <1>1, <1>2 DEF Recovered, Released, Expired, RowOK, InFlight
  <1>3. CASE ~Expired(row)
    BY <1>3 DEF Recovered
  <1> QED
    BY <1>2, <1>3

\* A live job keeps its lease through a claim's recovery.
LEMMA LiveLeaseStays ==
    ASSUME IInv, NEW v \in Workers, job[v].action # "none", job[v].answer = "none",
           now < job[v].expires
    PROVE  LET row == delivery[job[v].intent]
           IN  row.owner # NoWorker /\ job[v].epoch = row.epoch /\ ~Expired(row)
  BY OutboxAssumption DEF IInv, JobsOK, JobOK, Holds, Expired, TypeOK, Rows, Jobs

Sent(row, n, t) == [row EXCEPT !.state = "sending", !.attempts = n, !.tries = t, !.attempt = n]

LEMMA SentRow ==
    ASSUME NEW row \in Rows, NEW n \in Nat, NEW t \in Nat
    PROVE  LET new == Sent(row, n, t)
           IN  /\ new \in Rows
               /\ new.state = "sending" /\ new.owner = row.owner /\ new.epoch = row.epoch
               /\ new.attempts = n /\ new.tries = t
               /\ new.attempt = n /\ new.generation = row.generation
  BY DEF Sent, Rows, InFlight

LEMMA ClaimedRow ==
    ASSUME NEW row \in Rows, RowOK(row), Claimable(row),
           NEW w \in Workers, NEW lease \in Leases, now \in Nat
    PROVE  LET new == Claimed(row, w, lease)
           IN  /\ new \in Rows /\ RowOK(new)
               /\ new.epoch = row.epoch + 1 /\ new.owner = w /\ new.generation = row.generation
               /\ new.state \in InFlight
               /\ IF row.state = "reconcile_required"
                  THEN new.state = "reconcile_required" /\ new.attempts = row.attempts
                  ELSE new.state = "sending" /\ new.attempts = row.attempts + 1
  <1> DEFINE leased == [row EXCEPT !.owner = w, !.expires = now + lease, !.epoch = @ + 1]
  <1>1. /\ leased \in Rows
        /\ leased.owner = w /\ leased.epoch = row.epoch + 1 /\ leased.state = row.state
        /\ leased.attempts = row.attempts /\ leased.tries = row.tries
        /\ leased.attempt = row.attempt /\ leased.generation = row.generation
    <2>1. now + lease \in Nat /\ row.epoch + 1 \in Nat
      BY OutboxAssumption DEF Rows
    <2> QED
      BY <2>1 DEF Rows
  <1>2. w # NoWorker
    BY OutboxAssumption
  <1>3. CASE row.state = "reconcile_required"
    BY <1>1, <1>2, <1>3 DEF Claimed, RowOK, InFlight
  <1>4. CASE row.state # "reconcile_required"
    <2> DEFINE new == [leased EXCEPT !.state = "sending", !.attempts = @ + 1, !.tries = @ + 1,
                            !.attempt = row.attempts + 1]
    <2>1. Claimed(row, w, lease) = new
      BY <1>4 DEF Claimed
    <2> HIDE DEF leased
    <2>2. row.attempts \in Nat /\ row.tries \in Nat
      BY DEF Rows
    <2>3. /\ new \in Rows
          /\ new.state = "sending" /\ new.owner = w /\ new.epoch = row.epoch + 1
          /\ new.attempts = row.attempts + 1 /\ new.tries = row.tries + 1
          /\ new.attempt = row.attempts + 1 /\ new.generation = row.generation
      <3>1. row.attempts + 1 \in Nat /\ row.tries + 1 \in Nat
        BY <2>2
      <3>2. new = Sent(leased, row.attempts + 1, row.tries + 1)
        BY <1>1 DEF Sent, Rows
      <3> HIDE DEF new
      <3> QED
        BY ZenonT(40), <1>1, <3>1, <3>2, SentRow
    <2>4. row.tries < MaxAttempts
      BY <1>4, OutboxAssumption DEF Claimable, RowOK
    <2>5. row.attempts + 1 <= MaxAttempts * row.generation + (row.tries + 1)
      <3>1. MaxAttempts * row.generation \in Nat
        BY OutboxAssumption DEF Rows
      <3> QED
        BY <3>1, <2>2 DEF RowOK
    <2> HIDE DEF new
    <2>6. RowOK(new)
      BY <1>2, <2>2, <2>3, <2>4, <2>5, OutboxAssumption DEF RowOK, InFlight
    <2> QED
      BY <1>4, <2>1, <2>3, <2>6 DEF InFlight
  <1> QED
    BY <1>3, <1>4

LEMMA FreshKeeps ==
    ASSUME IInv, NEW w \in Workers, job[w] = NoJob, ClaimFresh(w)
    PROVE  IInv'
  <1> USE DEF IInv
  <1> DEFINE rows == [j \in Intents |-> Recovered(delivery[j])]
  <1>1. PICK i \in Intents, lease \in Leases :
          /\ Claimable(rows[i])
          /\ delivery' = [rows EXCEPT ![i] = Claimed(@, w, lease)]
          /\ job' = [job EXCEPT ![w] = View(i, delivery'[i])]
    BY DEF ClaimFresh
  <1>2. UNCHANGED <<prompt, now, receipts, settlements, presented>>
    BY DEF ClaimFresh
  <1> DEFINE mid == Recovered(delivery[i])
             new == Claimed(mid, w, lease)
  <1>3. /\ delivery'[i] = new
        /\ \A j \in Intents \ {i} : delivery'[j] = Recovered(delivery[j])
        /\ Claimable(mid)
    BY <1>1
  <1>4. \A j \in Intents : delivery[j] \in Rows /\ RowOK(delivery[j])
    BY DEF TypeOK, RowsOK
  <1>5. now \in Nat
    BY OutboxAssumption DEF TypeOK
  <1>6. /\ mid \in Rows /\ RowOK(mid)
        /\ mid.attempts = delivery[i].attempts
        /\ mid.epoch = delivery[i].epoch /\ mid.generation = delivery[i].generation
        /\ \/ ~Expired(delivery[i]) /\ mid = delivery[i]
           \/ /\ Expired(delivery[i]) /\ delivery[i].state \in InFlight
              /\ mid.state = "reconcile_required" /\ mid.owner = NoWorker
    BY <1>4, RecoveredRow
  <1> HIDE DEF mid
  <1>7. /\ new \in Rows /\ RowOK(new)
        /\ new.epoch = mid.epoch + 1 /\ new.owner = w /\ new.generation = mid.generation
        /\ new.state \in InFlight
        /\ IF mid.state = "reconcile_required"
           THEN new.state = "reconcile_required" /\ new.attempts = mid.attempts
           ELSE new.state = "sending" /\ new.attempts = mid.attempts + 1
    BY <1>3, <1>5, <1>6, ClaimedRow
  <1> HIDE DEF new
  <1>8. /\ mid.owner = NoWorker
        /\ mid.state \in {"reconcile_required", "pending", "retrying"}
        /\ mid.state # "reconcile_required" => mid = delivery[i]
    BY <1>3, <1>6 DEF Claimable
  <1>9. \A j \in Intents \ {i} :
          /\ delivery'[j] \in Rows /\ RowOK(delivery'[j])
          /\ delivery'[j].attempts = delivery[j].attempts
          /\ delivery'[j].epoch = delivery[j].epoch
          /\ delivery'[j].generation = delivery[j].generation
          /\ \/ ~Expired(delivery[j]) /\ delivery'[j] = delivery[j]
             \/ /\ Expired(delivery[j]) /\ delivery[j].state \in InFlight
                /\ delivery'[j].state = "reconcile_required" /\ delivery'[j].owner = NoWorker
    BY <1>3, <1>4, RecoveredRow
  <1>10. /\ job'[w] = View(i, new)
         /\ \A v \in Workers \ {w} : job'[v] = job[v]
    BY <1>1, <1>3 DEF TypeOK
  <1>11. /\ View(i, new) \in Jobs
         /\ View(i, new).intent = i /\ View(i, new).attempt = new.attempt
         /\ View(i, new).epoch = new.epoch /\ View(i, new).expires = new.expires
         /\ View(i, new).answer = "none"
         /\ View(i, new).action = IF new.state = "sending" THEN "send" ELSE "reconcile"
    BY <1>7, ViewIsJob
  <1>12. TypeOK'
    <2>1. delivery' \in [Intents -> Rows]
      BY <1>1, <1>3, <1>7, <1>9
    <2>2. job' \in [Workers -> Jobs]
      BY <1>1, <1>3, <1>11 DEF TypeOK
    <2> QED
      BY <1>2, <2>1, <2>2 DEF TypeOK
  <1>13. RowsOK'
    BY <1>3, <1>7, <1>9 DEF RowsOK
  <1>14. RefusalsKnown'
    <2> SUFFICES ASSUME NEW j \in Intents, NEW n \in 1..delivery'[j].attempts,
                        \/ n < delivery'[j].attempts
                        \/ delivery'[j].state \in {"pending", "retrying", "unpresentable"}
                 PROVE  \E r \in receipts[j] : r.attempt = n /\ r.outcome = "rejected"
      BY <1>2 DEF RefusalsKnown
    <2>1. CASE j # i
      BY <2>1, <1>9 DEF RefusalsKnown
    <2>2. CASE j = i
      <3>1. n < new.attempts
        BY <2>2, <1>3, <1>7 DEF InFlight
      <3>2. n \in Nat /\ n > 0 /\ delivery[i].attempts \in Nat
        BY <1>4, <1>3, <1>7, <2>2 DEF Rows
      <3>3. CASE mid.state = "reconcile_required"
        BY <3>1, <3>2, <3>3, <2>2, <1>6, <1>7 DEF RefusalsKnown
      <3>4. CASE mid.state # "reconcile_required"
        <4>1. n <= delivery[i].attempts /\ delivery[i].state \in {"pending", "retrying"}
          BY <3>1, <3>2, <3>4, <1>6, <1>7, <1>8
        <4> QED
          BY <4>1, <3>2, <2>2 DEF RefusalsKnown
      <3> QED
        BY <3>3, <3>4
    <2> QED
      BY <2>1, <2>2
  <1>15. ReceiptsFenced'
    <2>1. \A r \in receipts[i] : r.epoch \in Nat /\ r.epoch <= delivery[i].epoch
      BY DEF ReceiptsFenced, TypeOK, Receipts
    <2>2. delivery[i].epoch \in Nat
      BY <1>4 DEF Rows
    <2>3. \A r \in receipts[i] : r.epoch < new.epoch
      BY <2>1, <2>2, <1>6, <1>7
    <2> QED
      BY <2>3, <1>2, <1>3, <1>9, <2>2, <2>1, <1>6, <1>7 DEF ReceiptsFenced
  <1>16. JobsOK'
    <2> SUFFICES ASSUME NEW v \in Workers, job'[v].action # "none"
                 PROVE  job'[v].intent \in Intents /\ JobOK(v, job'[v], delivery'[job'[v].intent])
      <3>1. job'[w].answer = "none"
        BY <1>10, <1>11
      <3> QED
        BY <3>1, <1>2, <1>10 DEF JobsOK, JobOK, Holds
    <2>1. CASE v = w
      <3>1. new.epoch \in 1..new.epoch
        BY <1>4, <1>6, <1>7 DEF Rows
      <3> QED
        BY <2>1, <3>1, <1>3, <1>7, <1>10, <1>11, OutboxAssumption DEF JobOK, Holds, InFlight
    <2>2. CASE v # w
      <3> DEFINE j == job[v].intent
      <3>1. /\ job'[v] = job[v] /\ j \in Intents
            /\ JobOK(v, job[v], delivery[j])
        BY <2>2, <1>10 DEF JobsOK
      <3>2. job[v].answer = "none" /\ now < job[v].expires =>
               /\ delivery[j].owner # NoWorker /\ job[v].epoch = delivery[j].epoch
               /\ ~Expired(delivery[j])
        BY <2>2, <3>1, LiveLeaseStays
      <3>3. CASE j # i
        BY <3>1, <3>2, <3>3, <1>2, <1>9 DEF JobOK, Holds
      <3>4. CASE j = i
        <4>1. ~(job[v].answer = "none" /\ now < job[v].expires)
          BY <3>2, <3>4, <1>6, <1>8
        <4>2. job[v].epoch \in 1..new.epoch /\ job[v].epoch # new.epoch
          BY <3>1, <3>4, <1>4, <1>6, <1>7 DEF JobOK, Rows
        <4> QED
          BY <3>1, <3>4, <4>1, <4>2, <1>2, <1>3 DEF JobOK
      <3> QED
        BY <3>3, <3>4
    <2> QED
      BY <2>1, <2>2
  <1>17. AnswersTrue'
    <2>1. job'[w].answer = "none"
      BY <1>10, <1>11
    <2>2. \A v \in Workers \ {w} :
             job[v].action # "none" /\ job[v].intent = i => job[v].epoch # delivery'[i].epoch
      BY <1>3, <1>4, <1>6, <1>7 DEF JobsOK, JobOK, Rows
    <2>3. \A v \in Workers \ {w} : job[v].action # "none" => job[v].intent \in Intents
      BY DEF JobsOK
    <2> QED
      BY <2>1, <2>2, <2>3, <1>2, <1>9, <1>10 DEF AnswersTrue
  <1>18. LastIsShown'
    BY <1>2, <1>3, <1>6, <1>7, <1>8, <1>9 DEF LastIsShown, InFlight
  <1>19. LedgersOK'
    <2>1. \A j \in Intents : /\ delivery'[j].generation = delivery[j].generation
                             /\ delivery'[j].state \in Settled <=> delivery[j].state \in Settled
                             /\ delivery'[j].state \in Settled => delivery'[j] = delivery[j]
                             /\ delivery'[j].tries <= delivery'[j].attempts
      BY <1>3, <1>6, <1>7, <1>8, <1>9 DEF InFlight, Settled, RowOK
    <2> QED
      BY <2>1, <1>2 DEF LedgersOK, LedgerValid, SettlementsTellHistory
  <1> QED
    BY <1>12, <1>13, <1>14, <1>15, <1>16, <1>17, <1>18, <1>19

\* Whatever the answer was, its delivery is free again and keeps its counters.
Freed(row, state, at) == [Released(row) EXCEPT !.state = state, !.availableAt = at]

LEMMA FreedRow ==
    ASSUME NEW row \in Rows, NEW state \in {"reconcile_required", "accepted", "retrying",
                                            "unpresentable"}, NEW at \in Nat
    PROVE  LET new == Freed(row, state, at)
           IN  /\ new \in Rows
               /\ new.state = state /\ new.owner = NoWorker
               /\ new.attempts = row.attempts /\ new.tries = row.tries
               /\ new.attempt = row.attempt /\ new.epoch = row.epoch
               /\ new.generation = row.generation
  <1>1. /\ Released(row) \in Rows /\ Released(row).owner = NoWorker
        /\ Released(row).attempts = row.attempts /\ Released(row).tries = row.tries
        /\ Released(row).attempt = row.attempt /\ Released(row).epoch = row.epoch
        /\ Released(row).generation = row.generation
    BY DEF Released, Rows
  <1>2. state \in {"absent", "pending", "retrying"} \cup InFlight \cup Settled
    BY DEF InFlight, Settled
  <1> QED
    BY <1>1, <1>2 DEF Freed, Rows

LEMMA AppliedFrees ==
    ASSUME NEW i \in Intents, NEW answer \in Outcomes, NEW retryable,
           delivery[i] \in Rows, now \in Nat, Applied(i, answer, retryable)
    PROVE  LET row == delivery[i]
               basis == IF answer = "rejected" THEN "retry_exhausted" ELSE answer
           IN  \E state \in {"reconcile_required", "accepted", "retrying", "unpresentable"},
                  at \in Nat :
                  /\ delivery' = [delivery EXCEPT ![i] = Freed(row, state, at)]
                  /\ state = "accepted" <=> answer \in {"platform_accepted", "reconciled"}
                  /\ state = "reconcile_required" <=> answer = "unknown"
                  /\ state = "retrying" => row.tries < MaxAttempts
                  /\ IF state \in Settled THEN Settle(i, basis) ELSE UNCHANGED settlements
  <1> DEFINE row == delivery[i]
  <1>1. \A state : [Released(row) EXCEPT !.state = state] = Freed(row, state, row.availableAt)
    BY DEF Freed, Released, Rows
  <1>2. now + RetryDelay \in Nat /\ row.availableAt \in Nat
    BY OutboxAssumption DEF Rows
  <1>3. CASE answer = "unknown"
    BY <1>1, <1>2, <1>3 DEF Applied, Settled
  <1>4. CASE answer \in {"platform_accepted", "reconciled"}
    BY <1>1, <1>2, <1>4 DEF Applied, Settled
  <1>5. CASE answer = "rejected" /\ MayRetry(i, retryable)
    BY <1>2, <1>5 DEF Applied, Settled, MayRetry, Freed
  <1>6. CASE answer = "rejected" /\ ~MayRetry(i, retryable)
    BY <1>1, <1>2, <1>6 DEF Applied, Settled
  <1> QED
    BY <1>3, <1>4, <1>5, <1>6 DEF Applied

LEMMA ReceiptKeeps ==
    ASSUME IInv, NEW w \in Workers, RecordReceipt(w)
    PROVE  IInv'
  <1> USE DEF IInv
  <1> DEFINE j == job[w]
             i == j.intent
             old == delivery[i]
             new == delivery'[i]
             receipt == [epoch |-> j.epoch, attempt |-> j.attempt,
                         generation |-> old.generation, outcome |-> j.answer]
             basis == IF j.answer = "rejected" THEN "retry_exhausted" ELSE j.answer
             s == [generation |-> old.generation, basis |-> basis]
  <1>1. /\ j.answer # "none"
        /\ Owns(old, j)
        /\ receipts' = [receipts EXCEPT ![i] = @ \cup {receipt}]
        /\ Applied(i, j.answer, j.retryable)
        /\ UNCHANGED <<prompt, now, job, presented>>
    BY DEF RecordReceipt
  <1>2. /\ i \in Intents /\ j \in Jobs /\ old \in Rows /\ RowOK(old)
        /\ j.action # "none" /\ JobOK(w, j, old) /\ LedgerValid(i)
    BY <1>1 DEF JobsOK, TypeOK, RowsOK, LedgersOK
  <1>3. /\ old.state \in InFlight /\ old.owner # NoWorker
        /\ old.epoch = j.epoch /\ old.attempt = j.attempt /\ old.attempts = j.attempt
    BY <1>1, <1>2 DEF Owns, InFlight, RowOK
  <1>4. now \in Nat /\ now + RetryDelay \in Nat /\ old.availableAt \in Nat
    BY <1>2, OutboxAssumption DEF TypeOK, Rows
  <1>5. PICK state \in {"reconcile_required", "accepted", "retrying", "unpresentable"}, at \in Nat :
          /\ delivery' = [delivery EXCEPT ![i] = Freed(old, state, at)]
          /\ state = "accepted" <=> j.answer \in {"platform_accepted", "reconciled"}
          /\ state = "reconcile_required" <=> j.answer = "unknown"
          /\ state = "retrying" => old.tries < MaxAttempts
          /\ IF state \in Settled THEN Settle(i, basis) ELSE UNCHANGED settlements
    BY <1>1, <1>2, <1>4, AppliedFrees DEF Jobs
  <1>6. /\ new \in Rows
        /\ new.state \in {"reconcile_required", "accepted", "retrying", "unpresentable"}
        /\ new.owner = NoWorker
        /\ new.attempts = old.attempts /\ new.tries = old.tries
        /\ new.attempt = old.attempt /\ new.epoch = old.epoch /\ new.generation = old.generation
        /\ new.state = "accepted" <=> j.answer \in {"platform_accepted", "reconciled"}
        /\ new.state = "reconcile_required" <=> j.answer = "unknown"
        /\ new.state = "retrying" => old.tries < MaxAttempts
        /\ IF new.state \in Settled THEN Settle(i, basis) ELSE UNCHANGED settlements
        /\ \A k \in Intents \ {i} : delivery'[k] = delivery[k]
        /\ delivery' \in [Intents -> Rows]
    <2> DEFINE freed == Freed(old, state, at)
    <2>1. /\ freed \in Rows
          /\ freed.state = state /\ freed.owner = NoWorker
          /\ freed.attempts = old.attempts /\ freed.tries = old.tries
          /\ freed.attempt = old.attempt /\ freed.epoch = old.epoch
          /\ freed.generation = old.generation
      BY ZenonT(40), <1>2, FreedRow
    <2>2. new = freed /\ \A k \in Intents \ {i} : delivery'[k] = delivery[k]
      BY <1>2, <1>5 DEF TypeOK
    <2>3. delivery' \in [Intents -> Rows]
      BY <1>2, <1>5, <2>1 DEF TypeOK
    <2> HIDE DEF freed
    <2> QED
      BY <1>5, <2>1, <2>2, <2>3
  <1>7. j.answer \in Outcomes
    BY <1>1, <1>2 DEF Jobs
  <1>8. receipt \in Receipts /\ (new.state \in Settled => s \in Settlements)
    <2>1. old.generation \in 0..MaxRedrives /\ j.epoch \in Nat /\ j.attempt \in Nat
      BY <1>2 DEF Rows, Jobs
    <2>2. new.state \in Settled => basis \in Bases
      BY <1>6, <1>7 DEF Settled, Bases, Outcomes
    <2> QED
      BY <1>7, <2>1, <2>2 DEF Receipts, Settlements
  <1>9. /\ receipts'[i] = receipts[i] \cup {receipt}
        /\ \A k \in Intents \ {i} : receipts'[k] = receipts[k]
        /\ receipts' \in [Intents -> SUBSET Receipts]
    BY <1>1, <1>2, <1>8 DEF TypeOK
  <1>10. /\ settlements' \in [Intents -> SUBSET Settlements]
         /\ IF new.state \in Settled THEN settlements'[i] = settlements[i] \cup {s}
                                    ELSE settlements'[i] = settlements[i]
         /\ \A k \in Intents \ {i} : settlements'[k] = settlements[k]
    BY <1>2, <1>6, <1>8 DEF TypeOK, Settle
  <1> HIDE DEF new, old, receipt, s, basis
  <1>11. TypeOK'
    BY <1>1, <1>6, <1>9, <1>10 DEF TypeOK
  <1>12. RowsOK'
    <2>1. RowOK(new)
      BY <1>2, <1>3, <1>6 DEF RowOK, InFlight
    <2> QED
      BY <2>1, <1>6 DEF RowsOK, new
  <1>13. RefusalsKnown'
    <2> SUFFICES ASSUME NEW k \in Intents, NEW n \in 1..delivery'[k].attempts,
                        \/ n < delivery'[k].attempts
                        \/ delivery'[k].state \in {"pending", "retrying", "unpresentable"}
                 PROVE  \E r \in receipts'[k] : r.attempt = n /\ r.outcome = "rejected"
      BY DEF RefusalsKnown
    <2>1. CASE k # i
      BY <2>1, <1>6, <1>9 DEF RefusalsKnown, new
    <2>2. CASE k = i /\ n < old.attempts
      <3>1. n \in 1..old.attempts
        BY <2>2, <1>2, <1>6 DEF Rows, new
      <3>2. PICK r \in receipts[i] : r.attempt = n /\ r.outcome = "rejected"
        BY <2>2, <3>1, <1>2 DEF RefusalsKnown, old
      <3> QED
        BY <3>2, <2>2, <1>9
    <2>3. CASE k = i /\ ~(n < old.attempts)
      <3>1. n = old.attempts
        BY <2>3, <1>2, <1>6 DEF Rows, new
      <3>2. j.answer = "rejected"
        BY <2>3, <3>1, <1>6, <1>7, <1>2 DEF new, Rows, Outcomes
      <3>3. receipt.attempt = n /\ receipt.outcome = "rejected"
        BY <3>1, <3>2, <1>3 DEF receipt
      <3> QED
        BY <3>3, <2>3, <1>9
    <2> QED
      BY <2>1, <2>2, <2>3
  <1>14. ReceiptsFenced'
    <2>1. receipt.epoch = old.epoch /\ old.epoch \in Nat
      BY <1>2, <1>3 DEF receipt, Rows
    <2>2. \A r \in receipts'[i] : r.epoch <= new.epoch
      BY <2>1, <1>2, <1>6, <1>9 DEF ReceiptsFenced, old
    <2> QED
      BY <2>2, <1>6, <1>9 DEF ReceiptsFenced, new
  <1>15. JobsOK'
    <2> SUFFICES ASSUME NEW v \in Workers, job[v].action # "none"
                 PROVE  job[v].intent \in Intents /\ JobOK(v, job[v], delivery'[job[v].intent])
      BY <1>1 DEF JobsOK, JobOK, Holds
    <2>1. job[v].intent \in Intents /\ JobOK(v, job[v], delivery[job[v].intent])
      BY DEF JobsOK
    <2>2. CASE job[v].intent # i
      BY <2>1, <2>2, <1>6
    <2>3. CASE job[v].intent = i
      <3>1. v # w => job[v].epoch # old.epoch
        BY <2>1, <2>3, <1>2, <1>3 DEF JobOK, Holds, old
      <3>2. ~(job[v].answer = "none" /\ now < job[v].expires)
        BY <2>1, <2>3, <3>1, <1>1 DEF JobOK, old
      <3> QED
        BY <2>1, <2>3, <3>2, <1>6 DEF JobOK, old, new
    <2> QED
      BY <2>2, <2>3
  <1>16. AnswersTrue'
    BY <1>1, <1>6 DEF AnswersTrue, JobsOK, new
  <1>17. LastIsShown'
    <2>1. prompt /\ new.state = "accepted" => presented[i] # {}
      BY <1>2, <1>6 DEF AnswersTrue
    <2>2. prompt /\ j.answer = "rejected" => presented[i] = {}
      BY <1>2, <1>3 DEF AnswersTrue, LastIsShown, old
    <2>3. new.state \in {"retrying", "unpresentable"} => j.answer = "rejected"
      BY <1>6, <1>7 DEF Outcomes
    <2> QED
      BY <2>1, <2>2, <2>3, <1>1, <1>2, <1>6 DEF LastIsShown, old, new
  <1>18. LedgersOK'
    <2>1. \A k \in Intents \ {i} : LedgerValid(k)'
      BY <1>6, <1>9, <1>10 DEF LedgersOK, LedgerValid
    <2>2. old.state \notin Settled
      BY <1>3 DEF InFlight, Settled
    <2>3. \A t \in settlements[i] : t.generation \in Nat /\ t.generation < old.generation
      <3>1. \A t \in settlements[i] : t.generation \in Nat
        BY <1>2, OutboxAssumption DEF TypeOK, Settlements
      <3>2. \A t \in settlements[i] : t.generation <= old.generation
                                    /\ t.generation # old.generation
        BY <1>2, <2>2 DEF LedgersOK, SettlementsTellHistory, old
      <3>3. old.generation \in Nat
        BY <1>2, OutboxAssumption DEF Rows
      <3> QED
        BY <3>1, <3>2, <3>3
    <2>4. /\ s.generation = old.generation
          /\ receipt.generation = old.generation
          /\ new.state \in Settled =>
               receipt.outcome = IF s.basis = "retry_exhausted" THEN "rejected" ELSE s.basis
          /\ new.state \in Settled =>
               (s.basis = "retry_exhausted" <=> new.state = "unpresentable")
      BY <1>6, <1>7 DEF s, basis, receipt, Settled, Outcomes
    <2>5. ASSUME NEW k \in Intents, k = i
          PROVE  LedgerValid(k)'
      <3>1. new.tries <= new.attempts
        BY <1>2, <1>6 DEF RowOK
      <3>2. \A t \in settlements'[i] :
              \E r \in receipts'[i] :
                 /\ r.generation = t.generation
                 /\ r.outcome = IF t.basis = "retry_exhausted" THEN "rejected" ELSE t.basis
        BY <1>2, <1>9, <1>10, <2>4 DEF LedgerValid
      <3>3. \A t, u \in settlements'[i] : u.generation = t.generation => u = t
        BY <1>2, <1>10, <2>3, <2>4 DEF LedgerValid
      <3>4. new.state \in Settled =>
              \E t \in settlements'[i] :
                 /\ t.generation = new.generation
                 /\ (t.basis = "retry_exhausted") <=> (new.state = "unpresentable")
        BY <1>6, <1>10, <2>4
      <3>5. \A r \in receipts'[i] \cup settlements'[i] : r.generation <= new.generation
        <4>1. old.generation \in Nat /\ new.generation = old.generation
          BY <1>2, <1>6, OutboxAssumption DEF Rows
        <4>2. \A r \in receipts[i] \cup settlements[i] : r.generation <= old.generation
          BY <1>2 DEF LedgerValid, old
        <4>3. \A r \in receipts'[i] : r \in receipts[i] \/ r = receipt
          BY <1>9
        <4>4. \A r \in settlements'[i] : r \in settlements[i] \/ r = s
          BY <1>10
        <4> HIDE DEF receipt, s, old, new
        <4> QED
          BY <2>4, <4>1, <4>2, <4>3, <4>4
      <3> QED
        BY <2>5, <3>1, <3>2, <3>3, <3>4, <3>5 DEF LedgerValid, new
    <2>6. SettlementsTellHistory'
      <3> SUFFICES ASSUME NEW k \in Intents
                   PROVE  /\ \A g \in 0..delivery'[k].generation - 1 :
                             [generation |-> g, basis |-> "retry_exhausted"] \in settlements'[k]
                          /\ \A t \in settlements'[k] :
                             /\ t.generation <= delivery'[k].generation
                             /\ t.generation < delivery'[k].generation =>
                                   t.basis = "retry_exhausted"
                          /\ delivery'[k].state \in Settled <=>
                                \E t \in settlements'[k] : t.generation = delivery'[k].generation
        BY DEF SettlementsTellHistory
      <3>1. CASE k # i
        BY <3>1, <1>6, <1>10 DEF LedgersOK, SettlementsTellHistory
      <3>2. CASE k = i
        <4>1. old.generation \in Nat
          BY <1>2, OutboxAssumption DEF Rows
        <4>2. \A g \in 0..old.generation - 1 :
                 [generation |-> g, basis |-> "retry_exhausted"] \in settlements'[i]
          BY <1>2, <1>10 DEF LedgersOK, SettlementsTellHistory, old
        <4>3. \A t \in settlements'[i] :
                 /\ t.generation <= old.generation
                 /\ t.generation < old.generation => t.basis = "retry_exhausted"
          <5>1. \A t \in settlements[i] : t.basis = "retry_exhausted"
            BY <2>3, <1>2 DEF LedgersOK, SettlementsTellHistory, old
          <5> QED
            BY <5>1, <2>3, <2>4, <4>1, <1>10
        <4>4. new.state \in Settled <=> \E t \in settlements'[i] : t.generation = new.generation
          BY <2>3, <2>4, <4>1, <1>6, <1>10
        <4> QED
          BY <3>2, <4>2, <4>3, <4>4, <1>6 DEF new
      <3> QED
        BY <3>1, <3>2
    <2> QED
      BY <2>1, <2>5, <2>6 DEF LedgersOK
  <1> QED
    BY <1>11, <1>12, <1>13, <1>14, <1>15, <1>16, <1>17, <1>18

\* Every step keeps the inductive invariant.
LEMMA StepKeeps == IInv /\ [Next]_vars => IInv'
  <1> SUFFICES ASSUME IInv, [Next]_vars
               PROVE  IInv'
    OBVIOUS
  <1>1. CASE RecoverLegacyLeases
    BY <1>1, LegacyKeeps
  <1>2. ASSUME NEW i \in Intents, Commit(i) \/ Redrive(i)
        PROVE  IInv'
    BY <1>2, CommitKeeps, RedriveKeeps
  <1>3. ASSUME NEW w \in Workers, ClaimNext(w)
        PROVE  IInv'
    BY <1>3, ReplayKeeps, FreshKeeps DEF ClaimNext
  <1>4. ASSUME NEW w \in Workers, CallSend(w) \/ CallReconcile(w) \/ RecordReceipt(w) \/ Drop(w)
        PROVE  IInv'
    BY <1>4, SendKeeps, ReconcileKeeps, ReceiptKeeps, DropKeeps
  <1>5. CASE Tick
    BY <1>5, TickKeeps
  <1>6. CASE UNCHANGED vars
    BY <1>6 DEF vars, IInv, TypeOK, RowsOK, RowOK, RefusalsKnown, ReceiptsFenced, JobsOK, JobOK,
       Holds, AnswersTrue, LastIsShown, LedgersOK, LedgerValid, SettlementsTellHistory
  <1> QED
    BY <1>1, <1>2, <1>3, <1>4, <1>5, <1>6 DEF Next

LEMMA Invariance == Spec => []IInv
  BY InitIInv, StepKeeps, PTL DEF Spec

-----------------------------------------------------------------------------
(* Theorems *)

\* Every row, receipt, settlement and claim is well typed.
THEOREM OutboxTypeCorrect == Spec => []TypeOK
  <1>1. IInv => TypeOK
    BY DEF IInv
  <1> QED
    BY <1>1, Invariance, PTL

\* validateDeliveryLedger never finds a row to throw at, no send is blind or one too many, and
\* settlements tell the history of every delivery (reply-intent-outbox.js).
THEOREM LedgerIsValid == Spec => []LedgerStaysValid
  <1>1. IInv => LedgerStaysValid
    <2> SUFFICES ASSUME IInv
                 PROVE  NoBlindResend /\ AttemptsBounded
      BY DEF IInv, LedgersOK, LedgerStaysValid
    <2>1. \A i \in Intents : delivery[i] \in Rows /\ RowOK(delivery[i])
      BY DEF IInv, TypeOK, RowsOK
    <2>2. NoBlindResend
      <3> SUFFICES ASSUME NEW i \in Intents, NEW n \in 1..delivery[i].attempts - 1
                   PROVE  \E r \in receipts[i] : r.attempt = n /\ r.outcome = "rejected"
        BY DEF NoBlindResend
      <3>1. n \in 1..delivery[i].attempts /\ n < delivery[i].attempts
        BY <2>1 DEF Rows
      <3> QED
        BY <3>1 DEF IInv, RefusalsKnown
    <2>3. AttemptsBounded
      <3> SUFFICES ASSUME NEW i \in Intents
                   PROVE  /\ delivery[i].tries <= MaxAttempts
                          /\ delivery[i].attempts <= MaxAttempts * (delivery[i].generation + 1)
        BY DEF AttemptsBounded
      <3>1. /\ delivery[i].attempts \in Nat /\ delivery[i].tries \in Nat
            /\ delivery[i].generation \in Nat
        BY <2>1, OutboxAssumption DEF Rows
      <3>2. delivery[i].attempts <= MaxAttempts * (delivery[i].generation + 1) + 0
        BY <2>1, <3>1, NextGeneration DEF RowOK
      <3>3. MaxAttempts * (delivery[i].generation + 1) \in Nat
        BY <3>1, OutboxAssumption
      <3> QED
        BY <2>1, <3>1, <3>2, <3>3 DEF RowOK
    <2> QED
      BY <2>2, <2>3
  <1> QED
    BY <1>1, Invariance, PTL

\* The user sees a reply at most once, and the ledger knows whether, as long as workers call
\* the platform before their lease expires.
THEOREM ReplyShownOnce == Spec => []ShownOnce
  <1>1. IInv => ShownOnce
    BY DEF IInv, LastIsShown, ShownOnce
  <1> QED
    BY <1>1, Invariance, PTL

LEMMA ReceiptAnswersItsClaim ==
    ASSUME IInv, NEW w \in Workers, RecordReceipt(w)
    PROVE  LET i == job[w].intent
           IN  /\ i \in Intents /\ job[w].epoch = delivery[i].epoch
               /\ \A j \in Intents \ {i} : delivery'[j] = delivery[j]
               /\ \E r \in receipts'[i] \ receipts[i] : r.epoch = delivery[i].epoch
  <1> DEFINE i == job[w].intent
             receipt == [epoch |-> job[w].epoch, attempt |-> job[w].attempt,
                         generation |-> delivery[i].generation, outcome |-> job[w].answer]
  <1>1. /\ job[w].answer # "none" /\ Owns(delivery[i], job[w])
        /\ receipts' = [receipts EXCEPT ![i] = @ \cup {receipt}]
        /\ Applied(i, job[w].answer, job[w].retryable)
    BY DEF RecordReceipt
  <1>2. i \in Intents /\ delivery[i].owner # NoWorker /\ job[w].epoch = delivery[i].epoch
    BY <1>1 DEF IInv, JobsOK, Owns
  <1>3. \A j \in Intents \ {i} : delivery'[j] = delivery[j]
    BY <1>1, <1>2 DEF Applied, IInv, TypeOK
  <1>4. receipt \in receipts'[i] /\ receipt.epoch = delivery[i].epoch
    BY <1>1, <1>2 DEF IInv, TypeOK
  <1>5. \A r \in receipts[i] : r.epoch < delivery[i].epoch /\ r.epoch \in Nat
    BY <1>2 DEF IInv, ReceiptsFenced, TypeOK, Receipts
  <1>6. receipt \notin receipts[i]
    BY <1>2, <1>4, <1>5 DEF IInv, TypeOK, Rows
  <1> QED
    BY <1>2, <1>3, <1>4, <1>6

\* While a lease is live only the answer to its own claim changes the delivery, whatever stale
\* workers, other claims, redrives and restarts do.
THEOREM LeaseIsExclusive == Spec => LeaseExcludes
  <1> DEFINE Exclusive == \A i \in Intents :
          /\ delivery[i].owner # NoWorker /\ now < delivery[i].expires
          /\ delivery[i].epoch > 0
          /\ delivery'[i] # delivery[i]
          => \E w \in Workers :
                /\ job[w].intent = i /\ job[w].epoch = delivery[i].epoch
                /\ \E r \in receipts'[i] \ receipts[i] : r.epoch = delivery[i].epoch
  <1>1. IInv /\ [Next]_vars => [Exclusive]_vars
    <2> SUFFICES ASSUME IInv, Next, NEW i \in Intents,
                        delivery[i].owner # NoWorker, now < delivery[i].expires,
                        delivery[i].epoch > 0, delivery'[i] # delivery[i]
                 PROVE  \E w \in Workers :
                           /\ job[w].intent = i /\ job[w].epoch = delivery[i].epoch
                           /\ \E r \in receipts'[i] \ receipts[i] : r.epoch = delivery[i].epoch
      OBVIOUS
    <2>1. delivery[i] \in Rows /\ delivery[i].state \in InFlight /\ ~Expired(delivery[i])
      BY OutboxAssumption DEF IInv, TypeOK, RowsOK, RowOK, Expired, Rows
    <2>2. ~RecoverLegacyLeases
      <3>1. ~Legacy(delivery[i])
        BY <2>1 DEF Legacy, Rows
      <3> QED
        BY <3>1 DEF RecoverLegacyLeases
    <2>3. \A k \in Intents : ~Commit(k) /\ ~Redrive(k)
      BY <2>1 DEF Commit, Redrive, MayRedrive, IInv, TypeOK, InFlight
    <2>4. \A w \in Workers : ~ClaimReplay(w) /\ ~CallSend(w) /\ ~CallReconcile(w) /\ ~Drop(w)
      BY DEF ClaimReplay, CallSend, CallReconcile, Drop
    <2>5. \A w \in Workers : ~ClaimFresh(w)
      <3> SUFFICES ASSUME NEW w \in Workers, ClaimFresh(w)
                   PROVE  FALSE
        OBVIOUS
      <3> DEFINE rows == [j \in Intents |-> Recovered(delivery[j])]
      <3>1. PICK k \in Intents, lease \in Leases :
              Claimable(rows[k]) /\ delivery' = [rows EXCEPT ![k] = Claimed(@, w, lease)]
        BY DEF ClaimFresh
      <3>2. rows[i] = delivery[i]
        BY <2>1 DEF Recovered
      <3>3. k # i
        BY <3>1, <3>2 DEF Claimable
      <3> QED
        BY <3>1, <3>2, <3>3
    <2>6. ~Tick
      BY DEF Tick
    <2>7. PICK w \in Workers : RecordReceipt(w)
      BY <2>2, <2>3, <2>4, <2>5, <2>6 DEF Next, ClaimNext
    <2> QED
      BY <2>7, ReceiptAnswersItsClaim
  <1> QED
    BY <1>1, Invariance, PTL DEF Spec, LeaseExcludes

-----------------------------------------------------------------------------
(* The refinement of ReplyDelivery *)

LEMMA InitRefines == Init => Delivery!Init
  <1> SUFFICES ASSUME Init, NEW i \in Intents
               PROVE  /\ PhaseOf(delivery[i]) \in {"absent", "in_doubt"}
                      /\ delivery[i].tries = IF PhaseOf(delivery[i]) = "absent" THEN 0 ELSE 1
    BY DEF Delivery!Init
  <1>1. \/ delivery[i].state = "absent" /\ delivery[i].tries = 0
        \/ delivery[i].state \in InFlight /\ delivery[i].epoch = 0 /\ delivery[i].tries = 1
    BY AbsentRow, LegacyRowFits DEF Init
  <1> QED
    BY <1>1 DEF PhaseOf, InFlight

\* A row as ReplyDelivery sees it, before and after a step.
Moves(old, new) ==
    LET p == PhaseOf(old)
        q == PhaseOf(new)
        same == new.tries = old.tries
    IN  \/ p = "absent" /\ q = "due" /\ new.tries = 0
        \/ p = "due" /\ old.tries < MaxAttempts /\ q = "trying" /\ new.tries = old.tries + 1
        \/ p = "trying" /\ q = "in_doubt" /\ same
        \/ p \in {"trying", "in_doubt"} /\ q = "accepted" /\ same
        \/ p \in {"trying", "in_doubt"} /\ old.tries < MaxAttempts /\ q = "due" /\ same
        \/ p \in {"trying", "in_doubt"} /\ q = "exhausted" /\ same
        \/ p = "exhausted" /\ q = "due" /\ new.tries = 0
        \/ q = p /\ same

LEMMA MovesAreMoves ==
    ASSUME NEW i \in Intents, Moves(delivery[i], delivery'[i])
    PROVE  Delivery!Move(i)
  BY DEF Moves, Delivery!Move, Delivery!Becomes, Delivery!Commit, Delivery!Try, Delivery!Doubt,
     Delivery!Accept, Delivery!Refuse, Delivery!Redrive, Delivery!Stay

LEMMA RecoveryMoves ==
    ASSUME NEW row \in Rows, RowOK(row)
    PROVE  Moves(row, Recovered(row))
  <1>1. CASE Expired(row)
    <2>1. Recovered(row).state = "reconcile_required" /\ Recovered(row).tries = row.tries
      BY <1>1, RecoveredRow
    <2>2. row.state \in InFlight /\ row.epoch > 0
      BY <1>1 DEF Expired
    <2> QED
      BY <2>1, <2>2 DEF Moves, PhaseOf, InFlight, Rows
  <1>2. CASE ~Expired(row)
    BY <1>2 DEF Recovered, Moves
  <1> QED
    BY <1>1, <1>2

LEMMA ClaimMoves ==
    ASSUME NEW row \in Rows, RowOK(row), Claimable(Recovered(row)),
           NEW w \in Workers, NEW lease \in Leases, now \in Nat
    PROVE  Moves(row, Claimed(Recovered(row), w, lease))
  <1> DEFINE mid == Recovered(row)
             new == Claimed(mid, w, lease)
  <1>1. /\ mid \in Rows /\ RowOK(mid) /\ mid.tries = row.tries
        /\ \/ mid = row
           \/ /\ Expired(row) /\ row.state \in InFlight /\ mid.state = "reconcile_required"
    BY RecoveredRow
  <1>2. /\ mid.state \in {"reconcile_required", "pending", "retrying"}
    BY DEF Claimable
  <1>3. CASE mid.state = "reconcile_required"
    <2>1. new.state = "reconcile_required" /\ new.tries = mid.tries
      BY <1>1, <1>3 DEF Claimed, Rows
    <2>2. row.state = "reconcile_required" \/ (row.state = "sending" /\ row.epoch > 0)
      BY <1>1, <1>3 DEF Expired, InFlight
    <2> QED
      BY <1>1, <2>1, <2>2 DEF Moves, PhaseOf, Rows
  <1>4. CASE mid.state \in {"pending", "retrying"}
    <2>1. mid = row /\ row.tries < MaxAttempts
      BY <1>1, <1>4, OutboxAssumption DEF RowOK
    <2>2. new.state = "sending" /\ new.epoch = row.epoch + 1
      BY <1>1, <1>4, <2>1, ClaimedRow
    <2>3. new.tries = row.tries + 1
      BY <1>4, <2>1 DEF Claimed, Rows
    <2> QED
      BY <1>4, <2>1, <2>2, <2>3 DEF Moves, PhaseOf, Rows
  <1> QED
    BY <1>2, <1>3, <1>4

\* Whatever an operation does to a row is a move of its delivery.
LEMMA RowsMove ==
    ASSUME IInv, [Next]_vars, NEW i \in Intents
    PROVE  Moves(delivery[i], delivery'[i])
  <1> DEFINE row == delivery[i]
             new == delivery'[i]
  <1>1. row \in Rows /\ RowOK(row) /\ delivery \in [Intents -> Rows]
    BY DEF IInv, TypeOK, RowsOK
  <1>2. CASE new = row
    BY <1>2 DEF Moves
  <1>3. CASE RecoverLegacyLeases
    <2>1. CASE Legacy(row)
      <3>1. row.state \in InFlight /\ row.epoch = 0
        BY <1>1, <2>1 DEF Legacy, RowOK
      <3>2. new.state = "reconcile_required" /\ new.tries = row.tries
        BY <1>1, <1>3, <2>1, <3>1 DEF RecoverLegacyLeases, Released, Rows, InFlight
      <3> QED
        BY <3>1, <3>2 DEF Moves, PhaseOf, InFlight
    <2> QED
      BY <1>2, <1>3, <2>1 DEF RecoverLegacyLeases
  <1>4. ASSUME NEW k \in Intents, Commit(k)
        PROVE  Moves(row, new)
    <2>1. CASE k = i
      <3>1. new.state = "pending" /\ new.tries = 0 /\ row.state = "absent"
        BY <1>1, <1>4, <2>1, AbsentRow DEF Commit, Rows
      <3> QED
        BY <3>1 DEF Moves, PhaseOf
    <2> QED
      BY <1>1, <1>2, <1>4, <2>1 DEF Commit
  <1>5. ASSUME NEW k \in Intents, Redrive(k)
        PROVE  Moves(row, new)
    <2>1. CASE k = i
      <3>1. new.state = "pending" /\ new.tries = 0 /\ row.state = "unpresentable"
        BY <1>1, <1>5, <2>1 DEF Redrive, MayRedrive, Redriven, Rows
      <3> QED
        BY <3>1 DEF Moves, PhaseOf
    <2> QED
      BY <1>1, <1>2, <1>5, <2>1 DEF Redrive
  <1>6. ASSUME NEW w \in Workers, ClaimFresh(w)
        PROVE  Moves(row, new)
    <2> DEFINE rows == [j \in Intents |-> Recovered(delivery[j])]
    <2>1. PICK k \in Intents, lease \in Leases :
            Claimable(rows[k]) /\ delivery' = [rows EXCEPT ![k] = Claimed(@, w, lease)]
      BY <1>6 DEF ClaimFresh
    <2>2. now \in Nat
      BY OutboxAssumption DEF IInv, TypeOK
    <2>3. CASE k = i
      <3>1. Claimable(Recovered(row)) /\ new = Claimed(Recovered(row), w, lease)
        BY <2>1, <2>3
      <3> QED
        BY <1>1, <2>2, <3>1, ClaimMoves
    <2>4. CASE k # i
      <3>1. new = Recovered(row)
        BY <2>1, <2>4
      <3> QED
        BY <1>1, <3>1, RecoveryMoves
    <2> QED
      BY <2>3, <2>4
  <1>7. ASSUME NEW w \in Workers, RecordReceipt(w)
        PROVE  Moves(row, new)
    <2>1. /\ Owns(delivery[job[w].intent], job[w]) /\ job[w].answer # "none"
          /\ Applied(job[w].intent, job[w].answer, job[w].retryable)
      BY <1>7 DEF RecordReceipt
    <2>2. CASE job[w].intent = i
      <3>1. row.state \in InFlight /\ row.owner # NoWorker /\ row.epoch = job[w].epoch
        BY <2>1, <2>2 DEF Owns, InFlight
      <3>2. row.epoch > 0
        BY <2>1, <2>2, <3>1 DEF IInv, JobsOK, JobOK
      <3>3. PICK state \in {"reconcile_required", "accepted", "retrying", "unpresentable"},
                 at \in Nat :
              /\ delivery' = [delivery EXCEPT ![i] = Freed(row, state, at)]
              /\ state = "retrying" => row.tries < MaxAttempts
        <4>1. job[w].answer \in Outcomes /\ now \in Nat
          BY <2>1, OutboxAssumption DEF IInv, TypeOK, Jobs
        <4> QED
          BY <1>1, <2>1, <2>2, <4>1, AppliedFrees
      <3>4. new.state = state /\ new.tries = row.tries
        BY SMTT(30), <1>1, <3>3, FreedRow
      <3> QED
        BY <3>1, <3>2, <3>3, <3>4, <1>1 DEF Moves, PhaseOf, InFlight, Rows
    <2>3. CASE job[w].intent # i
      BY <1>2, <1>7, <2>3, ReceiptAnswersItsClaim
    <2> QED
      BY <2>2, <2>3
  <1>8. ASSUME NEW w \in Workers,
               ClaimReplay(w) \/ CallSend(w) \/ CallReconcile(w) \/ Drop(w)
        PROVE  Moves(row, new)
    BY <1>2, <1>8 DEF ClaimReplay, CallSend, CallReconcile, Drop
  <1>9. CASE Tick \/ UNCHANGED vars
    BY <1>2, <1>9 DEF Tick, vars
  <1> QED
    BY <1>3, <1>4, <1>5, <1>6, <1>7, <1>8, <1>9 DEF Next, ClaimNext

LEMMA StepRefines == IInv /\ IInv' /\ [Next]_vars => [Delivery!Next]_(Delivery!vars)
  <1> SUFFICES ASSUME IInv, IInv', [Next]_vars
               PROVE  Delivery!Next
    OBVIOUS
  <1>1. ASSUME NEW i \in Intents
        PROVE  PhaseOf(delivery'[i]) \in Delivery!Phases /\ delivery'[i].tries \in 0..MaxAttempts
    <2>1. delivery'[i] \in Rows /\ RowOK(delivery'[i])
      BY DEF IInv, TypeOK, RowsOK
    <2> QED
      BY <2>1, OutboxAssumption DEF Rows, RowOK, PhaseOf, Delivery!Phases
  <1>2. \A i \in Intents : Delivery!Move(i)
    BY RowsMove, MovesAreMoves
  <1> QED
    BY <1>1, <1>2 DEF Delivery!Next

\* The outbox implements ReplyDelivery: a delivery is tried at most MaxAttempts times between two
\* redrives, a doubt is resolved before the next try, and what is accepted is over.
THEOREM OutboxImplementsDelivery == Spec => DeliverySpec
  <1>1. Spec => Delivery!Init /\ [][Delivery!Next]_(Delivery!vars)
    BY InitRefines, StepRefines, Invariance, PTL DEF Spec
  <1> QED
    BY <1>1 DEF DeliverySpec, Delivery!Spec

-----------------------------------------------------------------------------
(* The rows, field by field *)

RequestRow == [status : Open \cup Terminal, session : Sessions \cup {NoSession}, output : Nat,
               text : Texts \cup {"shown"}, quiet : BOOLEAN]
Admission == [status : {"submitted", "started"}, no : Nat, item : Items,
              request : Streamed \cup {NoRequest}, session : Sessions \cup {NoSession},
              since : Nat, binding : {"pending", "bound", "rejected"},
              seen : [at : Nat, id : Nat], quiet : BOOLEAN, watched : BOOLEAN]
Mark == [request : Streamed, turn : Nat, id : Nat \ {0}, session : Sessions, at : Nat,
         output : Nat, status : {"active", "invalidated", "consumed"}]
EventOf == [request : Streamed, id : Nat, part : Kinds \cup {"stop"},
            of : Items \cup {NoRequest}, at : Nat \ {0}, late : BOOLEAN, turn : Nat]
Projection == [session : Sessions, request : Streamed, at : Nat]
Database == [request : [Streamed -> RequestRow], turn : Admission \cup {NoTurn}, turns : Nat,
             marks : SUBSET Mark, events : SUBSET EventOf, unprojected : SUBSET Projection]
Binding == [mode : {"none", "bound", "rejected", "closed"}, request : Streamed \cup {NoRequest},
            at : Nat]
HookProcess == [id : Nat, kind : Kinds \cup {"prompt", "stop"}, final : BOOLEAN,
                session : Sessions, at : Nat \ {0}, seen : Nat \ {0}, of : Items \cup {NoRequest},
                request : Streamed \cup {NoRequest},
                step : {"start", "touch", "resolve", "bind", "bound", "rejected", "report",
                        "append", "mark", "finish", "close"},
                text : Texts]

-----------------------------------------------------------------------------
(* What a transaction does to the database *)

\* Requests keep what they are bound to and have shown.
SameRequests(d, e) ==
    \A r \in Streamed : /\ e.request[r].status = d.request[r].status
                        /\ e.request[r].session = d.request[r].session
                        /\ e.request[r].output = d.request[r].output
                        /\ e.request[r].text = d.request[r].text
\* All but the request r.
OtherRequests(d, e, r) == \A o \in Streamed \ {r} : e.request[o] = d.request[o]

LEMMA NoTurnIsNone == \A x \in Admission : x # NoTurn /\ x.status # "none"
  BY DEF Admission, NoTurn

LEMMA TurnOfDatabase ==
    ASSUME NEW d \in Database
    PROVE  /\ Active(d) => d.turn \in Admission
           /\ ~Active(d) => d.turn = NoTurn
           /\ d.turn.status \in {"none", "submitted", "started"}
  BY NoTurnIsNone DEF Database, Active, Admission, NoTurn

LEMMA BumpOfTurn ==
    ASSUME NEW x \in Admission
    PROVE  /\ Bump(x) \in Admission
           /\ Bump(x) = [x EXCEPT !.quiet = FALSE, !.watched = FALSE]
           /\ Bump(x).status = x.status /\ Bump(x).no = x.no /\ Bump(x).item = x.item
           /\ Bump(x).request = x.request /\ Bump(x).session = x.session
           /\ Bump(x).since = x.since /\ Bump(x).binding = x.binding /\ Bump(x).seen = x.seen
           /\ ~Bump(x).quiet /\ ~Bump(x).watched
  BY DEF Bump, Admission

LEMMA RequestOfDatabase ==
    ASSUME NEW d \in Database, NEW r \in Streamed
    PROVE  d.request[r] \in RequestRow
  BY DEF Database

LEMMA AppendEffect ==
    ASSUME NEW d \in Database, NEW r \in Streamed, NEW e,
           [e EXCEPT !.request = r] \in EventOf
    PROVE  LET f == Append(d, r, e) IN
           /\ f \in Database
           /\ f.events = d.events \cup {[e EXCEPT !.request = r]}
           /\ f.turn = d.turn /\ f.turns = d.turns /\ f.marks = d.marks
           /\ f.unprojected = d.unprojected
           /\ SameRequests(d, f)
  <1> DEFINE f == Append(d, r, e)
             row == [d.request[r] EXCEPT !.quiet = FALSE]
  <1>1. row \in RequestRow
    BY RequestOfDatabase DEF RequestRow
  <1>2. /\ f.request = [d.request EXCEPT ![r] = row]
        /\ f = [d EXCEPT !.events = d.events \cup {[e EXCEPT !.request = r]},
                         !.request = [d.request EXCEPT ![r] = row]]
    BY DEF Append, Database
  <1>3. f \in Database
    <2>1. [d.request EXCEPT ![r] = row] \in [Streamed -> RequestRow]
      BY <1>1 DEF Database
    <2>2. d.events \cup {[e EXCEPT !.request = r]} \in SUBSET EventOf
      BY DEF Database
    <2> HIDE DEF row
    <2> QED
      BY <1>2, <2>1, <2>2 DEF Database
  <1>4. /\ f.events = d.events \cup {[e EXCEPT !.request = r]}
        /\ f.turn = d.turn /\ f.turns = d.turns /\ f.marks = d.marks
        /\ f.unprojected = d.unprojected
    BY <1>2 DEF Database
  <1>5. SameRequests(d, f)
    BY <1>2 DEF Database, RequestRow, SameRequests
  <1> QED
    BY <1>3, <1>4, <1>5

LEMMA CloseMarksEffect ==
    ASSUME NEW d \in Database, NEW r \in Streamed, NEW s \in {"invalidated", "consumed"}
    PROVE  LET f == CloseMarks(d, r, s) IN
           /\ f \in Database
           /\ f.marks = {IF m \in ActiveMark(d, r) THEN [m EXCEPT !.status = s] ELSE m : m \in d.marks}
           /\ f.turn = d.turn /\ f.turns = d.turns /\ f.events = d.events
           /\ f.unprojected = d.unprojected /\ f.request = d.request
           /\ \A m \in d.marks : m.status = "consumed" => m \in f.marks
           /\ \A m \in ActiveMark(d, r) : [m EXCEPT !.status = s] \in f.marks
  BY DEF CloseMarks, Database, Mark, ActiveMark

\* One row is written.
WithRow(d, r, row) == [d EXCEPT !.request = [d.request EXCEPT ![r] = row]]

LEMMA RowIsWritten ==
    ASSUME NEW d \in Database, NEW r \in Streamed, NEW row \in RequestRow
    PROVE  LET f == WithRow(d, r, row) IN
           /\ f \in Database
           /\ f.request[r] = row /\ OtherRequests(d, f, r)
           /\ f.turn = d.turn /\ f.turns = d.turns /\ f.marks = d.marks /\ f.events = d.events
           /\ f.unprojected = d.unprojected
  <1>1. [d.request EXCEPT ![r] = row] \in [Streamed -> RequestRow]
    BY DEF Database
  <1> QED
    BY <1>1 DEF WithRow, Database, OtherRequests

\* A request ends: what it has, and nothing else.
EndsAs(d, f, r, status) ==
    /\ f \in Database /\ OtherRequests(d, f, r)
    /\ f.request[r].status = status
    /\ f.request[r].session = d.request[r].session
    /\ f.request[r].output = d.request[r].output
    /\ f.turn = d.turn /\ f.turns = d.turns /\ f.events = d.events
    /\ f.unprojected = d.unprojected
    /\ \A m \in d.marks : m.status = "consumed" => m \in f.marks

LEMMA FailRunEffect ==
    ASSUME NEW d \in Database, NEW r \in Streamed
    PROVE  LET f == FailRun(d, r) IN
           /\ d.request[r].status \notin Open => f = d
           /\ d.request[r].status \in Open => EndsAs(d, f, r, "failed")
  <1> DEFINE c == CloseMarks(d, r, "invalidated")
             row == [d.request[r] EXCEPT !.status = "failed", !.quiet = FALSE]
  <1>1. CASE d.request[r].status \in Open
    <2>1. /\ c \in Database /\ c.request = d.request /\ c.turn = d.turn /\ c.turns = d.turns
          /\ c.events = d.events /\ c.unprojected = d.unprojected
          /\ \A m \in d.marks : m.status = "consumed" => m \in c.marks
      BY CloseMarksEffect
    <2>2. row \in RequestRow /\ row.status = "failed" /\ row.session = d.request[r].session
          /\ row.output = d.request[r].output
      BY RequestOfDatabase DEF RequestRow, Terminal
    <2> HIDE DEF c
    <2>3. FailRun(d, r) = WithRow(c, r, row)
      BY <1>1, <2>1 DEF FailRun, WithRow, Database, c
    <2> HIDE DEF row
    <2> QED
      BY <1>1, <2>1, <2>2, <2>3, RowIsWritten DEF EndsAs, OtherRequests
  <1>2. CASE d.request[r].status \notin Open
    BY <1>2 DEF FailRun
  <1> QED
    BY <1>1, <1>2

LEMMA CompleteRunEffect ==
    ASSUME NEW d \in Database, NEW r \in Streamed, NEW text \in Texts \cup {"shown"}
    PROVE  LET f == CompleteRun(d, r, text) IN
           /\ d.request[r].status \notin Open => f = d
           /\ d.request[r].status \in Open =>
                 /\ EndsAs(d, f, r, "completed") /\ f.request[r].text = text
                 /\ \A m \in ActiveMark(d, r) : [m EXCEPT !.status = "consumed"] \in f.marks
  <1> DEFINE c == CloseMarks(d, r, "consumed")
             row == [d.request[r] EXCEPT !.status = "completed", !.text = text, !.quiet = FALSE]
  <1>1. CASE d.request[r].status \in Open
    <2>1. /\ c \in Database /\ c.request = d.request /\ c.turn = d.turn /\ c.turns = d.turns
          /\ c.events = d.events /\ c.unprojected = d.unprojected
          /\ \A m \in d.marks : m.status = "consumed" => m \in c.marks
          /\ \A m \in ActiveMark(d, r) : [m EXCEPT !.status = "consumed"] \in c.marks
      BY CloseMarksEffect
    <2>2. row \in RequestRow /\ row.status = "completed" /\ row.session = d.request[r].session
          /\ row.output = d.request[r].output /\ row.text = text
      BY RequestOfDatabase DEF RequestRow, Terminal
    <2> HIDE DEF c
    <2>3. CompleteRun(d, r, text) = WithRow(c, r, row)
      BY <1>1, <2>1 DEF CompleteRun, WithRow, Database, c
    <2> HIDE DEF row
    <2> QED
      BY <1>1, <2>1, <2>2, <2>3, RowIsWritten DEF EndsAs, OtherRequests
  <1>2. CASE d.request[r].status \notin Open
    BY <1>2 DEF CompleteRun
  <1> QED
    BY <1>1, <1>2

LEMMA FailRunsEffect ==
    ASSUME NEW d \in Database, NEW rs \in SUBSET Streamed
    PROVE  LET f == FailRuns(d, rs) IN
           /\ f \in Database
           /\ f.turn = d.turn /\ f.turns = d.turns /\ f.events = d.events
           /\ f.unprojected = d.unprojected
           /\ \A m \in d.marks : m.status = "consumed" => m \in f.marks
           /\ \A r \in Streamed \ rs : f.request[r] = d.request[r]
           /\ \A r \in rs : /\ f.request[r].status = "failed"
                            /\ f.request[r].session = d.request[r].session
                            /\ f.request[r].output = d.request[r].output
  <1> DEFINE marks == {IF m.request \in rs /\ m.status = "active"
                       THEN [m EXCEPT !.status = "invalidated"] ELSE m : m \in d.marks}
             rows == [r \in Streamed |-> IF r \in rs
                          THEN [d.request[r] EXCEPT !.status = "failed", !.quiet = FALSE]
                          ELSE d.request[r]]
  <1>1. marks \in SUBSET Mark /\ \A m \in d.marks : m.status = "consumed" => m \in marks
    BY DEF Database, Mark
  <1>2. /\ rows \in [Streamed -> RequestRow]
        /\ \A r \in Streamed \ rs : rows[r] = d.request[r]
        /\ \A r \in rs : /\ rows[r].status = "failed" /\ rows[r].session = d.request[r].session
                         /\ rows[r].output = d.request[r].output
    <2>1. \A r \in Streamed : d.request[r] \in RequestRow
      BY DEF Database
    <2>2. \A r \in Streamed :
             LET row == [d.request[r] EXCEPT !.status = "failed", !.quiet = FALSE] IN
             /\ row \in RequestRow /\ row.status = "failed"
             /\ row.session = d.request[r].session /\ row.output = d.request[r].output
      BY <2>1 DEF RequestRow, Terminal
    <2> QED
      BY <2>1, <2>2
  <1>3. FailRuns(d, rs) = [d EXCEPT !.marks = marks, !.request = rows]
    BY DEF FailRuns, Database
  <1> HIDE DEF marks, rows
  <1> QED
    BY <1>1, <1>2, <1>3 DEF Database

LEMMA StartRunEffect ==
    ASSUME NEW d \in Database, NEW r \in Streamed
    PROVE  LET f == StartRun(d, r) IN
           /\ d.request[r].status # "queued" => f = d
           /\ d.request[r].status = "queued" =>
                 EndsAs(d, f, r, "started") /\ f.request[r].text = d.request[r].text
  <1> DEFINE row == [d.request[r] EXCEPT !.status = "started", !.quiet = FALSE]
  <1>1. CASE d.request[r].status = "queued"
    <2>2. row \in RequestRow /\ row.status = "started" /\ row.session = d.request[r].session
          /\ row.output = d.request[r].output /\ row.text = d.request[r].text
      BY DEF Database, RequestRow, Open
    <2>3. StartRun(d, r) = WithRow(d, r, row)
      BY <1>1 DEF StartRun, WithRow, Database
    <2> HIDE DEF row
    <2> QED
      BY <1>1, <2>2, <2>3, RowIsWritten DEF EndsAs, OtherRequests
  <1>2. CASE d.request[r].status # "queued"
    BY <1>2 DEF StartRun
  <1> QED
    BY <1>1, <1>2

\* Only the admission is written.
WithTurn(d, x) == [d EXCEPT !.turn = x]
LEMMA TurnIsWritten ==
    ASSUME NEW d \in Database, NEW x \in Admission \cup {NoTurn}
    PROVE  LET f == WithTurn(d, x) IN
           /\ f \in Database /\ f.turn = x
           /\ f.turns = d.turns /\ f.request = d.request /\ f.marks = d.marks
           /\ f.events = d.events /\ f.unprojected = d.unprojected
  BY DEF WithTurn, Database

LEMMA StartTurnEffect ==
    ASSUME NEW d \in Database, NEW s \in Sessions, NEW at \in Nat
    PROVE  LET f == StartTurn(d, s, at) IN
           /\ d.turn.status = "submitted" =>
                 /\ Active(d)
                 /\ f = WithTurn(d, [Bump(d.turn) EXCEPT !.status = "started", !.session = s,
                                                        !.since = at])
           /\ Started(d, s) => Active(d) /\ f = WithTurn(d, Bump(d.turn))
           /\ d.turn.status # "submitted" /\ ~Started(d, s) => f = d
           /\ f \in Database
  <1>1. Active(d) => [Bump(d.turn) EXCEPT !.status = "started", !.session = s, !.since = at]
                     \in Admission
    <2> SUFFICES ASSUME Active(d)
                 PROVE  [Bump(d.turn) EXCEPT !.status = "started", !.session = s, !.since = at]
                        \in Admission
      OBVIOUS
    <2>1. Bump(d.turn) \in Admission
      BY TurnOfDatabase, BumpOfTurn
    <2> QED
      BY <2>1 DEF Admission
  <1>2. Active(d) => Bump(d.turn) \in Admission
    BY TurnOfDatabase, BumpOfTurn
  <1>3. CASE d.turn.status = "submitted"
    <2>1. Active(d) /\ ~Started(d, s)
      BY <1>3 DEF Active, Started
    <2>2. StartTurn(d, s, at) = WithTurn(d, [Bump(d.turn) EXCEPT !.status = "started",
                                                  !.session = s, !.since = at])
      BY <1>3, <2>1 DEF StartTurn, WithTurn
    <2> QED
      BY <1>1, <1>3, <2>1, <2>2, TurnIsWritten
  <1>4. CASE Started(d, s)
    <2>1. Active(d) /\ d.turn.status # "submitted"
      BY <1>4 DEF Active, Started
    <2>2. StartTurn(d, s, at) = WithTurn(d, Bump(d.turn))
      BY <1>4, <2>1 DEF StartTurn, WithTurn
    <2> QED
      BY <1>2, <1>4, <2>1, <2>2, TurnIsWritten
  <1>5. CASE d.turn.status # "submitted" /\ ~Started(d, s)
    BY <1>5 DEF StartTurn
  <1> QED
    BY <1>3, <1>4, <1>5

-----------------------------------------------------------------------------
(* What the rows say of what happened, for any number of faults *)

Does(e) == ~e.late /\ e.part \in {"tool", "reasoning", "answer"}
ShownOf(d, r) == {e \in d.events : e.request = r /\ e.part = "answer" /\ ~e.late}
Shows(d, r) == d.request[r].status = "completed" /\ d.request[r].text = "shown"

\* Nothing the agent did in a turn came after the mark.
LastShown(d, r) ==
    \E m \in d.marks :
        /\ m.request = r /\ m.status = "consumed" /\ m.output = d.request[r].output
        /\ \A e \in d.events : e.request = r /\ e.turn = m.turn /\ Does(e)
                                  => e.at < m.at \/ (e.at = m.at /\ e.id = m.id)

\* What an admission has seen is not before what its hooks have told.
Covers(x, e) == e.at < x.seen.at \/ (e.at = x.seen.at /\ x.seen.id \in {0, e.id})
TurnTyped(x) ==
    /\ x.status = "submitted" => x.session = NoSession
    /\ x.status = "started" => x.session \in Sessions
TurnSaw(d) ==
    Active(d) => /\ d.turn.no \in 1..d.turns /\ TurnTyped(d.turn)
                 /\ \A e \in d.events : e.turn = d.turn.no /\ Does(e) => Covers(d.turn, e)

OneRequest(d) ==
    \A r, o \in Streamed : r # o /\ {d.request[r].status, d.request[o].status} \subseteq Open
        => d.request[r].session = NoSession \/ d.request[r].session # d.request[o].session

DataInv(d) ==
    /\ d \in Database /\ IsFiniteSet(d.events)
    /\ OneRequest(d)
    /\ \A r \in Streamed : d.request[r].output = Cardinality(ShownOf(d, r))
    /\ \A r \in Streamed : Shows(d, r) => LastShown(d, r)
    /\ \A e \in d.events : e.turn <= d.turns
    /\ TurnSaw(d)

\* What writes no event, and completes a request only with the last of its turn, is harmless.
SameTurnOrNone(d, f) ==
    Active(f) => /\ Active(d) /\ f.turn.no = d.turn.no /\ TurnTyped(f.turn)
                 /\ \A e \in d.events : Covers(d.turn, e) => Covers(f.turn, e)
RequestsGoOn(d, f) ==
    \A r \in Streamed :
        /\ f.request[r].output = d.request[r].output
        /\ f.request[r].session = d.request[r].session
        /\ f.request[r].status \in Open => d.request[r].status \in Open
        /\ Shows(f, r) => Shows(d, r) \/ LastShown(f, r)

LEMMA DataFrame ==
    ASSUME NEW d, NEW f, DataInv(d), f \in Database,
           f.events = d.events, f.turns = d.turns,
           \A m \in d.marks : m.status = "consumed" => m \in f.marks,
           SameTurnOrNone(d, f), RequestsGoOn(d, f)
    PROVE  DataInv(f)
  <1>1. OneRequest(f)
    BY DEF DataInv, OneRequest, RequestsGoOn
  <1>2. \A r \in Streamed : ShownOf(f, r) = ShownOf(d, r)
    BY DEF ShownOf
  <1>3. \A r \in Streamed : LastShown(d, r) => LastShown(f, r)
    BY DEF LastShown, RequestsGoOn
  <1>4. TurnSaw(f)
    BY DEF DataInv, TurnSaw, SameTurnOrNone, Covers
  <1> QED
    BY <1>1, <1>2, <1>3, <1>4 DEF DataInv, RequestsGoOn

\* An event that tells of nothing the agent did.
LEMMA DataAppend ==
    ASSUME NEW d, DataInv(d), NEW r \in Streamed, NEW e,
           [e EXCEPT !.request = r] \in EventOf, e.turn <= d.turns,
           e.late \/ e.part \in {"post", "stop"}
    PROVE  DataInv(Append(d, r, e))
  <1> DEFINE f == Append(d, r, e)
             n == [e EXCEPT !.request = r]
  <1>1. /\ f \in Database /\ f.events = d.events \cup {n}
        /\ f.turn = d.turn /\ f.turns = d.turns /\ f.marks = d.marks
        /\ SameRequests(d, f)
    BY AppendEffect DEF DataInv
  <1>2. n \in EventOf /\ n.turn = e.turn /\ n.late = e.late /\ n.part = e.part
    BY DEF EventOf
  <1>3. ~Does(n) /\ ~(n.part = "answer" /\ ~n.late)
    BY <1>2 DEF Does
  <1> HIDE DEF f, n
  <1>4. IsFiniteSet(f.events)
    BY <1>1, FS_AddElement DEF DataInv
  <1>5. \A o \in Streamed : ShownOf(f, o) = ShownOf(d, o)
    BY <1>1, <1>3 DEF ShownOf
  <1>6. \A o \in Streamed : LastShown(d, o) => LastShown(f, o)
    BY <1>1, <1>3 DEF LastShown, SameRequests
  <1>7. TurnSaw(f)
    BY <1>1, <1>3 DEF DataInv, TurnSaw, Active
  <1>8. OneRequest(f)
    BY <1>1 DEF DataInv, OneRequest, SameRequests
  <1>9. \A o \in Streamed : Shows(f, o) => Shows(d, o)
    BY <1>1 DEF Shows, SameRequests
  <1> QED
    BY <1>1, <1>2, <1>4, <1>5, <1>6, <1>7, <1>8, <1>9 DEF DataInv, SameRequests, f

LEMMA DataEnds ==
    ASSUME NEW d, NEW f, DataInv(d), NEW r \in Streamed, NEW status, EndsAs(d, f, r, status),
           status \in Open => d.request[r].status \in Open,
           Shows(f, r) => Shows(d, r) \/ LastShown(f, r)
    PROVE  DataInv(f)
  <1>1. SameTurnOrNone(d, f)
    BY DEF EndsAs, SameTurnOrNone, DataInv, TurnSaw, Active
  <1>2. RequestsGoOn(d, f)
    BY DEF EndsAs, RequestsGoOn, OtherRequests, Shows
  <1> QED
    BY <1>1, <1>2, DataFrame DEF EndsAs

LEMMA DataFail ==
    ASSUME NEW d, DataInv(d), NEW r \in Streamed
    PROVE  DataInv(FailRun(d, r))
  <1>1. d \in Database
    BY DEF DataInv
  <1>2. d.request[r].status \in Open => EndsAs(d, FailRun(d, r), r, "failed")
    BY <1>1, FailRunEffect
  <1>3. d.request[r].status \notin Open => FailRun(d, r) = d
    BY <1>1, FailRunEffect
  <1> QED
    BY <1>2, <1>3, DataEnds DEF EndsAs, Shows, Open

LEMMA DataFails ==
    ASSUME NEW d, DataInv(d), NEW rs \in SUBSET Streamed
    PROVE  DataInv(FailRuns(d, rs))
  <1> DEFINE f == FailRuns(d, rs)
  <1>1. d \in Database
    BY DEF DataInv
  <1>2. /\ f \in Database
        /\ f.turn = d.turn /\ f.turns = d.turns /\ f.events = d.events
        /\ \A m \in d.marks : m.status = "consumed" => m \in f.marks
        /\ \A r \in Streamed \ rs : f.request[r] = d.request[r]
        /\ \A r \in rs : /\ f.request[r].status = "failed"
                         /\ f.request[r].session = d.request[r].session
                         /\ f.request[r].output = d.request[r].output
    BY <1>1, FailRunsEffect
  <1> HIDE DEF f
  <1>3. SameTurnOrNone(d, f)
    BY <1>2 DEF SameTurnOrNone, DataInv, TurnSaw, Active
  <1>4. RequestsGoOn(d, f)
    BY <1>2 DEF RequestsGoOn, Shows, Open
  <1> QED
    BY <1>2, <1>3, <1>4, DataFrame DEF f

\* The mark of a request that is completed as shown was its last.
IsLast(d, r, m) ==
    /\ m \in ActiveMark(d, r) /\ m.output = d.request[r].output
    /\ \A e \in d.events : e.turn = m.turn /\ Does(e)
                              => e.at < m.at \/ (e.at = m.at /\ e.id = m.id)

LEMMA DataComplete ==
    ASSUME NEW d, DataInv(d), NEW r \in Streamed, NEW text \in Texts \cup {"shown"},
           text = "shown" => \E m \in d.marks : IsLast(d, r, m)
    PROVE  DataInv(CompleteRun(d, r, text))
  <1> DEFINE f == CompleteRun(d, r, text)
  <1>1. d \in Database
    BY DEF DataInv
  <1>2. CASE d.request[r].status \notin Open
    BY <1>1, <1>2, CompleteRunEffect
  <1>3. CASE d.request[r].status \in Open
    <2>1. /\ EndsAs(d, f, r, "completed") /\ f.request[r].text = text
          /\ \A m \in ActiveMark(d, r) : [m EXCEPT !.status = "consumed"] \in f.marks
      BY <1>1, <1>3, CompleteRunEffect
    <2> HIDE DEF f
    <2>2. ASSUME text = "shown"
          PROVE  LastShown(f, r)
      <3>1. PICK m \in d.marks : IsLast(d, r, m)
        BY <2>2
      <3> DEFINE c == [m EXCEPT !.status = "consumed"]
      <3>2. c \in f.marks
        BY <2>1, <3>1 DEF IsLast
      <3>3. m \in Mark
        BY <1>1 DEF Database
      <3>4. c.request = r /\ c.status = "consumed" /\ c.output = m.output /\ c.turn = m.turn
            /\ c.at = m.at /\ c.id = m.id
        BY <3>1, <3>3 DEF Mark, IsLast, ActiveMark
      <3> HIDE DEF c
      <3> QED
        BY <2>1, <3>1, <3>2, <3>4 DEF LastShown, IsLast, EndsAs
    <2> QED
      BY <2>1, <2>2, DataEnds DEF Shows, Open, f
  <1> QED
    BY <1>2, <1>3

\* A candidate that is still valid is the last of its turn.
LEMMA ValidIsLast ==
    ASSUME NEW d, DataInv(d), Active(d), NEW r \in Streamed, NEW m \in ValidCandidate(d, r)
    PROVE  m \in d.marks /\ IsLast(d, r, m)
  <1>1. m \in d.marks /\ m \in Mark /\ m.id # 0 /\ m.at \in Nat
    BY DEF ValidCandidate, ActiveMark, DataInv, Database, Mark
  <1>2. d.turn.seen.at \in Nat
    BY TurnOfDatabase DEF DataInv, Admission
  <1>3. \A e \in d.events : e.at \in Nat \ {0}
    BY DEF DataInv, Database, EventOf
  <1>4. \A e \in d.events : e.turn = d.turn.no /\ Does(e) => Covers(d.turn, e)
    BY DEF DataInv, TurnSaw
  <1>5. /\ m.turn = d.turn.no /\ m.output = d.request[r].output /\ m \in ActiveMark(d, r)
        /\ \/ d.turn.seen.at = 0 /\ FALSE
           \/ d.turn.seen.at = 0
           \/ m.at > d.turn.seen.at
           \/ m.at = d.turn.seen.at /\ m.id = d.turn.seen.id
    BY DEF ValidCandidate
  <1> QED
    BY <1>1, <1>2, <1>3, <1>4, <1>5 DEF IsLast, Covers
-----------------------------------------------------------------------------
(* Binding, activity, and the ends of an admission *)

Owners(d, r, s) == {o \in Streamed \ {r} : d.request[o].session = s /\ d.request[o].status \in Open}

LEMMA BindEffect ==
    ASSUME NEW d \in Database, OneRequest(d), NEW r, NEW s \in Sessions, CanBind(d, r, s)
    PROVE  LET f == Bind(d, r, s) IN
           /\ f \in Database /\ r \in Streamed
           /\ f.turns = d.turns /\ f.events = d.events /\ f.unprojected = d.unprojected
           /\ Active(d) => f.turn = [Bump(d.turn) EXCEPT !.binding = "bound"]
           /\ ~Active(d) => f.turn = d.turn
           /\ \A m \in d.marks : m.status = "consumed" => m \in f.marks
           /\ f.request[r].session = s /\ f.request[r].status = d.request[r].status
           /\ f.request[r].output = d.request[r].output
           /\ f.request[r].text = d.request[r].text
           /\ \A o \in Streamed \ {r} :
                 /\ f.request[o].session = d.request[o].session
                 /\ f.request[o].output = d.request[o].output
                 /\ o \notin Owners(d, r, s) => f.request[o] = d.request[o]
                 /\ o \in Owners(d, r, s) => f.request[o].status \notin Open \cup {"completed"}
  <1> DEFINE owners == Owners(d, r, s)
             freed == IF owners = {} THEN d ELSE FailRun(d, CHOOSE o \in owners : TRUE)
             row == [freed.request[r] EXCEPT !.session = s, !.quiet = FALSE]
             bound == IF d.request[r].session = s THEN d ELSE WithRow(freed, r, row)
             turn == [Bump(d.turn) EXCEPT !.binding = "bound"]
             f == Bind(d, r, s)
             Kept(e) == /\ e \in Database
                        /\ e.turns = d.turns /\ e.events = d.events /\ e.unprojected = d.unprojected
                        /\ e.turn = d.turn
                        /\ \A m \in d.marks : m.status = "consumed" => m \in e.marks
                        /\ \A o \in Streamed \ {r} :
                              /\ e.request[o].session = d.request[o].session
                              /\ e.request[o].output = d.request[o].output
                              /\ o \notin owners => e.request[o] = d.request[o]
                              /\ o \in owners => e.request[o].status \notin Open \cup {"completed"}
  <1>1. r \in Streamed /\ NoSession \notin Sessions /\ s # NoSession
        /\ d.request[r].session \in {s, NoSession} /\ d.request[r].status \in Open
        /\ (Active(d) => Started(d, s))
    BY NoneAssumption DEF CanBind
  <1>2. \A o, p \in owners : o = p
    BY <1>1 DEF OneRequest, Owners
  <1>3. ASSUME d.request[r].session = s
        PROVE  owners = {}
    BY <1>1, <1>3 DEF OneRequest, Owners
  <1>4. freed \in Database /\ freed.request[r] = d.request[r] /\ Kept(freed)
    <2>1. CASE owners = {}
      BY <2>1
    <2>2. CASE owners # {}
      <3>1. PICK o : o = (CHOOSE x \in owners : TRUE)
        OBVIOUS
      <3>2. o \in owners /\ owners = {o}
        BY <2>2, <3>1, <1>2
      <3>3. o \in Streamed \ {r} /\ d.request[o].status \in Open
        BY <3>2 DEF Owners
      <3>4. EndsAs(d, FailRun(d, o), o, "failed")
        BY <3>3, FailRunEffect
      <3>5. freed = FailRun(d, o)
        BY <2>2, <3>1
      <3> HIDE DEF owners
      <3> QED
        BY <1>1, <3>2, <3>3, <3>4, <3>5 DEF EndsAs, OtherRequests, Open
    <2> QED
      BY <2>1, <2>2
  <1>5. row \in RequestRow /\ row.session = s /\ row.status = d.request[r].status
        /\ row.output = d.request[r].output /\ row.text = d.request[r].text
    <2> HIDE DEF freed, Kept
    <2>1. freed.request[r] \in RequestRow /\ s \in Sessions
      BY <1>1, <1>4 DEF Database
    <2> QED
      BY <2>1, <1>4 DEF RequestRow
  <1>6. /\ Kept(bound)
        /\ bound.request[r].session = s /\ bound.request[r].status = d.request[r].status
        /\ bound.request[r].output = d.request[r].output /\ bound.request[r].text = d.request[r].text
    <2> HIDE DEF freed, row
    <2>1. CASE d.request[r].session = s
      BY <2>1, <1>3
    <2>2. CASE d.request[r].session # s
      <3>1. bound = WithRow(freed, r, row)
        BY <2>2
      <3> HIDE DEF bound, owners
      <3> QED
        BY <1>1, <1>4, <1>5, <3>1, RowIsWritten DEF OtherRequests
    <2> QED
      BY <2>1, <2>2
  <1>7. f = IF Active(d) THEN WithTurn(bound, turn) ELSE bound
    <2>1. d.request[r].session # s => WithRow(freed, r, row)
                = [freed EXCEPT !.request[r].session = s, !.request[r].quiet = FALSE]
      <3> HIDE DEF freed
      <3> QED
        BY <1>1, <1>4 DEF WithRow, Database, RequestRow
    <2>2. f = IF Active(d) THEN [bound EXCEPT !.turn = [Bump(@) EXCEPT !.binding = "bound"]] ELSE bound
      <3>1. CASE d.request[r].session = s
        BY <3>1 DEF Bind
      <3>2. CASE d.request[r].session # s
        <4>1. bound = [freed EXCEPT !.request[r].session = s, !.request[r].quiet = FALSE]
          BY <2>1, <3>2
        <4>2. Bind(d, r, s) = LET b == [freed EXCEPT !.request[r].session = s,
                                                     !.request[r].quiet = FALSE]
                              IN  IF Active(d)
                                  THEN [b EXCEPT !.turn = [Bump(@) EXCEPT !.binding = "bound"]] ELSE b
          BY <3>2 DEF Bind, Owners
        <4> HIDE DEF freed, bound
        <4> QED
          BY <4>1, <4>2
      <3> QED
        BY <3>1, <3>2
    <2> HIDE DEF freed, row, bound, owners, f
    <2> QED
      BY <2>2, <1>6 DEF WithTurn, Database
  <1>8. Active(d) => turn \in Admission
    <2>1. Active(d) => Bump(d.turn) \in Admission
      BY TurnOfDatabase, BumpOfTurn
    <2> QED
      BY <2>1 DEF Admission
  <1> HIDE DEF freed, row, bound, turn, f
  <1>9. CASE Active(d)
    <2>1. f = WithTurn(bound, turn)
      BY <1>7, <1>9
    <2>2. /\ f \in Database /\ f.turn = turn
          /\ f.turns = bound.turns /\ f.request = bound.request /\ f.marks = bound.marks
          /\ f.events = bound.events /\ f.unprojected = bound.unprojected
      BY <1>6, <1>8, <1>9, <2>1, TurnIsWritten
    <2>3. f.turn = [Bump(d.turn) EXCEPT !.binding = "bound"]
      BY <2>2 DEF turn
    <2> HIDE DEF owners
    <2> QED
      BY <1>1, <1>6, <1>9, <2>2, <2>3 DEF f, owners
  <1>10. CASE ~Active(d)
    <2>1. f = bound
      BY <1>7, <1>10
    <2> HIDE DEF owners
    <2> QED
      BY <1>1, <1>6, <1>10, <2>1 DEF f, owners
  <1> QED
    BY <1>9, <1>10

LEMMA DataBind ==
    ASSUME NEW d, DataInv(d), NEW r, NEW s \in Sessions, CanBind(d, r, s)
    PROVE  DataInv(Bind(d, r, s))
  <1> DEFINE f == Bind(d, r, s)
  <1>1. d \in Database /\ OneRequest(d) /\ TurnSaw(d)
    BY DEF DataInv
  <1>2. /\ f \in Database /\ r \in Streamed
        /\ f.turns = d.turns /\ f.events = d.events
        /\ Active(d) => f.turn = [Bump(d.turn) EXCEPT !.binding = "bound"]
        /\ ~Active(d) => f.turn = d.turn
        /\ \A m \in d.marks : m.status = "consumed" => m \in f.marks
        /\ f.request[r].session = s /\ f.request[r].status = d.request[r].status
        /\ f.request[r].output = d.request[r].output
        /\ f.request[r].text = d.request[r].text
        /\ \A o \in Streamed \ {r} :
              /\ f.request[o].session = d.request[o].session
              /\ f.request[o].output = d.request[o].output
              /\ o \notin Owners(d, r, s) => f.request[o] = d.request[o]
              /\ o \in Owners(d, r, s) => f.request[o].status \notin Open \cup {"completed"}
    BY <1>1, BindEffect
  <1> HIDE DEF f
  <1>3. d.request[r].status \in Open
    BY DEF CanBind
  <1>4. OneRequest(f)
    <2> SUFFICES ASSUME NEW p \in Streamed, NEW o \in Streamed, p # o,
                        f.request[p].status \in Open, f.request[o].status \in Open,
                        f.request[p].session # NoSession
                 PROVE  f.request[p].session # f.request[o].session
      BY DEF OneRequest
    <2>1. \A q \in {p, o} \ {r} : q \notin Owners(d, r, s) /\ f.request[q] = d.request[q]
      BY <1>2
    <2>2. \A q \in {p, o} \ {r} : f.request[q].session # s
      BY <2>1 DEF Owners
    <2>3. CASE p # r /\ o # r
      BY <1>1, <2>1, <2>3 DEF OneRequest
    <2>4. CASE p = r
      BY <1>2, <2>2, <2>4
    <2>5. CASE o = r
      BY <1>2, <2>2, <2>5
    <2> QED
      BY <2>3, <2>4, <2>5
  <1>5. \A o \in Streamed : ShownOf(f, o) = ShownOf(d, o)
    BY <1>2 DEF ShownOf
  <1>6. \A o \in Streamed : f.request[o].output = d.request[o].output
    BY <1>2
  <1>7. \A o \in Streamed : Shows(f, o) => Shows(d, o)
    BY <1>2 DEF Shows
  <1>8. \A o \in Streamed : LastShown(d, o) => LastShown(f, o)
    BY <1>2, <1>6 DEF LastShown
  <1>9. TurnSaw(f)
    <2>1. CASE Active(d)
      <3>1. d.turn \in Admission /\ Bump(d.turn) \in Admission
        BY <1>1, <2>1, TurnOfDatabase, BumpOfTurn
      <3>2. f.turn.no = d.turn.no /\ f.turn.seen = d.turn.seen /\ f.turn.status = d.turn.status
            /\ f.turn.session = d.turn.session
        <4>1. f.turn.no = Bump(d.turn).no /\ f.turn.seen = Bump(d.turn).seen
              /\ f.turn.status = Bump(d.turn).status /\ f.turn.session = Bump(d.turn).session
          BY <1>2, <2>1, <3>1 DEF Admission
        <4> QED
          BY <3>1, <4>1, BumpOfTurn
      <3> QED
        BY <1>1, <1>2, <2>1, <3>2 DEF TurnSaw, TurnTyped, Covers
    <2>2. CASE ~Active(d)
      BY <1>1, <1>2, <2>2 DEF TurnSaw, Active
    <2> QED
      BY <2>1, <2>2
  <1> QED
    BY <1>2, <1>4, <1>5, <1>6, <1>7, <1>8, <1>9 DEF DataInv, f

LEMMA RejectEffect ==
    ASSUME NEW d \in Database, NEW s \in Sessions, NEW at
    PROVE  LET f == RejectBinding(d, s, at) IN
           /\ f \in Database
           /\ Started(d, s) /\ ~Stale(d, at) /\ d.turn.binding = "pending" =>
                 Active(d) /\ f = WithTurn(d, [Bump(d.turn) EXCEPT !.binding = "rejected"])
           /\ ~(Started(d, s) /\ ~Stale(d, at) /\ d.turn.binding = "pending") => f = d
  <1>1. CASE Started(d, s) /\ ~Stale(d, at) /\ d.turn.binding = "pending"
    <2>1. Active(d)
      BY <1>1 DEF Started, Active
    <2>2. Bump(d.turn) \in Admission
      BY <2>1, TurnOfDatabase, BumpOfTurn
    <2>3. [Bump(d.turn) EXCEPT !.binding = "rejected"] \in Admission
      BY <2>2 DEF Admission
    <2>4. RejectBinding(d, s, at) = WithTurn(d, [Bump(d.turn) EXCEPT !.binding = "rejected"])
      BY <1>1 DEF RejectBinding, WithTurn
    <2> QED
      BY <1>1, <2>1, <2>3, <2>4, TurnIsWritten
  <1>2. CASE ~(Started(d, s) /\ ~Stale(d, at) /\ d.turn.binding = "pending")
    BY <1>2 DEF RejectBinding
  <1> QED
    BY <1>1, <1>2

\* An admission is written, and what it has seen stays.
LEMMA DataTurn ==
    ASSUME NEW d, DataInv(d), Active(d), NEW x \in Admission,
           x.no = d.turn.no, TurnTyped(x), x.seen = d.turn.seen
    PROVE  DataInv(WithTurn(d, x))
  <1>1. d \in Database
    BY DEF DataInv
  <1> DEFINE f == WithTurn(d, x)
  <1>2. /\ f \in Database /\ f.turn = x
        /\ f.turns = d.turns /\ f.request = d.request /\ f.marks = d.marks
        /\ f.events = d.events
    BY <1>1, TurnIsWritten
  <1> HIDE DEF f
  <1>3. SameTurnOrNone(d, f)
    BY <1>2 DEF SameTurnOrNone, Covers
  <1>4. RequestsGoOn(d, f)
    BY <1>2 DEF RequestsGoOn, Shows
  <1> QED
    BY <1>2, <1>3, <1>4, DataFrame DEF f

LEMMA DataBump ==
    ASSUME NEW d, DataInv(d), Active(d)
    PROVE  DataInv(WithTurn(d, Bump(d.turn)))
  <1>1. d.turn \in Admission /\ TurnTyped(d.turn)
    BY TurnOfDatabase DEF DataInv, TurnSaw
  <1>2. TurnTyped(Bump(d.turn))
    BY <1>1, BumpOfTurn DEF TurnTyped
  <1> QED
    BY <1>1, <1>2, BumpOfTurn, DataTurn

LEMMA DataStart ==
    ASSUME NEW d, DataInv(d), NEW s \in Sessions, NEW at \in Nat
    PROVE  DataInv(StartTurn(d, s, at))
  <1>1. d \in Database
    BY DEF DataInv
  <1>2. CASE d.turn.status = "submitted"
    <2> DEFINE x == [Bump(d.turn) EXCEPT !.status = "started", !.session = s, !.since = at]
    <2>1. Active(d) /\ d.turn \in Admission
      BY <1>1, <1>2, TurnOfDatabase DEF Active
    <2>2. Bump(d.turn) \in Admission
      BY <2>1, BumpOfTurn
    <2>3. x \in Admission /\ x.no = Bump(d.turn).no /\ x.seen = Bump(d.turn).seen /\ TurnTyped(x)
      BY <2>2 DEF Admission, TurnTyped
    <2>4. StartTurn(d, s, at) = WithTurn(d, x)
      BY <1>1, <1>2, StartTurnEffect
    <2>5. x.no = d.turn.no /\ x.seen = d.turn.seen
      BY <2>1, <2>3, BumpOfTurn
    <2> HIDE DEF x
    <2> QED
      BY <2>1, <2>3, <2>4, <2>5, DataTurn
  <1>3. CASE Started(d, s)
    BY <1>1, <1>3, StartTurnEffect, DataBump
  <1>4. CASE d.turn.status # "submitted" /\ ~Started(d, s)
    BY <1>1, <1>4, StartTurnEffect
  <1> QED
    BY <1>2, <1>3, <1>4

LEMMA DataReject ==
    ASSUME NEW d, DataInv(d), NEW s \in Sessions, NEW at
    PROVE  DataInv(RejectBinding(d, s, at))
  <1>1. d \in Database /\ TurnSaw(d)
    BY DEF DataInv
  <1>2. CASE Started(d, s) /\ ~Stale(d, at) /\ d.turn.binding = "pending"
    <2> DEFINE x == [Bump(d.turn) EXCEPT !.binding = "rejected"]
    <2>1. Active(d) /\ RejectBinding(d, s, at) = WithTurn(d, x)
      BY <1>1, <1>2, RejectEffect
    <2>2. d.turn \in Admission /\ Bump(d.turn) \in Admission /\ TurnTyped(d.turn)
      BY <1>1, <2>1, TurnOfDatabase, BumpOfTurn DEF TurnSaw
    <2>3. x \in Admission /\ x.no = d.turn.no /\ x.seen = d.turn.seen /\ TurnTyped(x)
      BY <2>2, BumpOfTurn DEF Admission, TurnTyped
    <2> HIDE DEF x
    <2> QED
      BY <2>1, <2>3, DataTurn
  <1>3. CASE ~(Started(d, s) /\ ~Stale(d, at) /\ d.turn.binding = "pending")
    BY <1>1, <1>3, RejectEffect
  <1> QED
    BY <1>2, <1>3
\* The admission has seen what happened at at, and nothing less than before.
Acted(d, f, at, id) ==
    /\ f \in Database /\ Active(f)
    /\ f.request = d.request /\ f.events = d.events /\ f.turns = d.turns
    /\ f.unprojected = d.unprojected
    /\ \E moved \in [at : Nat, id : Nat] : f.turn = [Bump(d.turn) EXCEPT !.seen = moved]
    /\ \A e \in EventOf : Covers(d.turn, e) => Covers(f.turn, e)
    /\ \A e \in EventOf : e.at = at /\ e.id = id => Covers(f.turn, e)
    /\ \A m \in d.marks : m.status = "consumed" => m \in f.marks

LEMMA RecordActivityEffect ==
    ASSUME NEW d \in Database, Active(d), NEW r \in Streamed, NEW at \in Nat, NEW id \in Nat
    PROVE  Acted(d, RecordActivity(d, r, at, id), at, id)
  <1> DEFINE seen == d.turn.seen
             moved == CASE seen.at < at -> [at |-> at, id |-> id]
                        [] seen.at = at /\ seen.id # id -> [at |-> at, id |-> 0]
                        [] OTHER -> seen
             x == [Bump(d.turn) EXCEPT !.seen = moved]
             t == WithTurn(d, x)
             f == RecordActivity(d, r, at, id)
  <1>1. d.turn \in Admission /\ Bump(d.turn) \in Admission
    BY TurnOfDatabase, BumpOfTurn
  <1>2. seen \in [at : Nat, id : Nat]
    BY <1>1 DEF Admission
  <1>3. moved \in [at : Nat, id : Nat]
    BY <1>2
  <1>4. \A e \in EventOf : /\ e.at < seen.at \/ (e.at = seen.at /\ seen.id \in {0, e.id})
                              => e.at < moved.at \/ (e.at = moved.at /\ moved.id \in {0, e.id})
                           /\ e.at = at /\ e.id = id
                              => e.at < moved.at \/ (e.at = moved.at /\ moved.id \in {0, e.id})
    <2> SUFFICES ASSUME NEW e \in EventOf
                 PROVE  /\ e.at < seen.at \/ (e.at = seen.at /\ seen.id \in {0, e.id})
                              => e.at < moved.at \/ (e.at = moved.at /\ moved.id \in {0, e.id})
                        /\ e.at = at /\ e.id = id
                              => e.at < moved.at \/ (e.at = moved.at /\ moved.id \in {0, e.id})
      OBVIOUS
    <2>1. e.at \in Nat /\ e.id \in Nat
      BY DEF EventOf
    <2>2. CASE seen.at < at
      BY <1>2, <2>1, <2>2
    <2>3. CASE seen.at = at /\ seen.id # id
      BY <1>2, <2>1, <2>3
    <2>4. CASE ~(seen.at < at) /\ ~(seen.at = at /\ seen.id # id)
      BY <1>2, <2>1, <2>4
    <2> QED
      BY <2>2, <2>3, <2>4
  <1> HIDE DEF moved
  <1>5. x \in Admission /\ x.seen = moved
    BY <1>1, <1>3 DEF Admission
  <1> HIDE DEF x
  <1>6. /\ t \in Database /\ t.turn = x
        /\ t.turns = d.turns /\ t.request = d.request /\ t.marks = d.marks
        /\ t.events = d.events /\ t.unprojected = d.unprojected
    BY <1>5, TurnIsWritten
  <1>7. f = t \/ f = CloseMarks(t, r, "invalidated")
    BY DEF RecordActivity, WithTurn, x, moved
  <1>8. CloseMarks(t, r, "invalidated") \in Database
    BY <1>6, CloseMarksEffect
  <1> HIDE DEF t, f
  <1>9. /\ f \in Database /\ f.turn = x
        /\ f.turns = d.turns /\ f.request = d.request
        /\ f.events = d.events /\ f.unprojected = d.unprojected
        /\ \A m \in d.marks : m.status = "consumed" => m \in f.marks
    BY <1>6, <1>7, CloseMarksEffect
  <1>10. x = [Bump(d.turn) EXCEPT !.seen = moved]
    BY DEF x
  <1>11. \A e \in EventOf : (Covers(d.turn, e) => Covers(f.turn, e))
                            /\ (e.at = at /\ e.id = id => Covers(f.turn, e))
    BY <1>4, <1>5, <1>9 DEF Covers
  <1>12. Active(f)
    BY <1>5, <1>9, NoTurnIsNone DEF Active
  <1> QED
    BY <1>3, <1>5, <1>9, <1>10, <1>11, <1>12 DEF f, Acted

LEMMA MovedTurn ==
    ASSUME NEW x \in Admission, NEW moved \in [at : Nat, id : Nat]
    PROVE  LET y == [Bump(x) EXCEPT !.seen = moved] IN
           /\ y \in Admission
           /\ y.status = x.status /\ y.no = x.no /\ y.item = x.item /\ y.request = x.request
           /\ y.session = x.session /\ y.since = x.since /\ y.binding = x.binding
           /\ ~y.quiet /\ ~y.watched
  <1>1. Bump(x) \in Admission
    BY BumpOfTurn
  <1> DEFINE y == [Bump(x) EXCEPT !.seen = moved]
  <1>2. /\ y \in Admission
        /\ y.status = Bump(x).status /\ y.no = Bump(x).no /\ y.item = Bump(x).item
        /\ y.request = Bump(x).request
        /\ y.session = Bump(x).session /\ y.since = Bump(x).since /\ y.binding = Bump(x).binding
        /\ y.quiet = Bump(x).quiet /\ y.watched = Bump(x).watched
    BY <1>1 DEF Admission
  <1> HIDE DEF y
  <1> QED
    BY <1>2, BumpOfTurn DEF y

LEMMA DataActivity ==
    ASSUME NEW d, DataInv(d), Active(d), NEW r \in Streamed, NEW at \in Nat, NEW id \in Nat
    PROVE  DataInv(RecordActivity(d, r, at, id))
  <1> DEFINE f == RecordActivity(d, r, at, id)
  <1>1. d \in Database /\ TurnSaw(d) /\ d.events \in SUBSET EventOf
    BY DEF DataInv, Database
  <1>2. /\ f \in Database /\ Active(f)
        /\ f.request = d.request /\ f.events = d.events /\ f.turns = d.turns
        /\ \A e \in EventOf : Covers(d.turn, e) => Covers(f.turn, e)
        /\ \A m \in d.marks : m.status = "consumed" => m \in f.marks
        /\ \E moved \in [at : Nat, id : Nat] : f.turn = [Bump(d.turn) EXCEPT !.seen = moved]
    <2>1. Acted(d, f, at, id)
      BY <1>1, RecordActivityEffect
    <2> QED
      BY <2>1 DEF Acted
  <1> HIDE DEF f
  <1>3. d.turn \in Admission
    BY <1>1, TurnOfDatabase
  <1>4. f.turn.no = d.turn.no /\ f.turn.status = d.turn.status /\ f.turn.session = d.turn.session
    BY <1>2, <1>3, MovedTurn
  <1>5. SameTurnOrNone(d, f)
    BY <1>1, <1>2, <1>4 DEF SameTurnOrNone, TurnSaw, TurnTyped
  <1>6. RequestsGoOn(d, f)
    BY <1>2 DEF RequestsGoOn, Shows
  <1> QED
    BY <1>2, <1>5, <1>6, DataFrame DEF f

\* A hook tells of something the agent did; an answer is one output more.
Longer(d, r, e) ==
    IF e.part = "answer" THEN [Append(d, r, e) EXCEPT !.request[r].output = @ + 1] ELSE Append(d, r, e)

LEMMA LongerEffect ==
    ASSUME NEW d \in Database, NEW r \in Streamed, NEW e \in EventOf, e.request = r
    PROVE  LET f == Longer(d, r, e) IN
           /\ f \in Database
           /\ f.events = d.events \cup {e} /\ f.turn = d.turn /\ f.turns = d.turns
           /\ f.marks = d.marks /\ f.unprojected = d.unprojected
           /\ \A o \in Streamed : /\ f.request[o].status = d.request[o].status
                                  /\ f.request[o].session = d.request[o].session
                                  /\ f.request[o].text = d.request[o].text
           /\ \A o \in Streamed \ {r} : f.request[o].output = d.request[o].output
           /\ f.request[r].output = IF e.part = "answer" THEN d.request[r].output + 1
                                    ELSE d.request[r].output
  <1> DEFINE told == Append(d, r, e)
             row == [told.request[r] EXCEPT !.output = @ + 1]
  <1>1. [e EXCEPT !.request = r] = e
    BY DEF EventOf
  <1>2. /\ told \in Database
        /\ told.events = d.events \cup {e}
        /\ told.turn = d.turn /\ told.turns = d.turns /\ told.marks = d.marks
        /\ told.unprojected = d.unprojected
        /\ SameRequests(d, told)
    BY <1>1, AppendEffect
  <1>3. CASE e.part = "answer"
    <2> HIDE DEF told
    <2>1. told.request[r] \in RequestRow
      BY <1>2 DEF Database
    <2>2. row \in RequestRow /\ row.output = told.request[r].output + 1
          /\ row.status = told.request[r].status /\ row.session = told.request[r].session
          /\ row.text = told.request[r].text
      BY <2>1 DEF RequestRow
    <2>3. Longer(d, r, e) = WithRow(told, r, row)
      BY <1>2, <1>3 DEF Longer, WithRow, Database, told
    <2> HIDE DEF row
    <2> QED
      BY <1>2, <1>3, <2>2, <2>3, RowIsWritten DEF SameRequests, OtherRequests
  <1>4. CASE e.part # "answer"
    BY <1>2, <1>4 DEF Longer, SameRequests
  <1> QED
    BY <1>3, <1>4

LEMMA DataTells ==
    ASSUME NEW d, DataInv(d), Active(d), NEW r \in Streamed, d.request[r].status \in Open,
           NEW e \in EventOf, e.request = r, ~e.late, e.part \in Kinds, e.turn = d.turn.no,
           \A o \in d.events : ~(o.request = r /\ o.id = e.id /\ o.part = e.part)
    PROVE  DataInv(RecordActivity(Longer(d, r, e), r, e.at, e.id))
  <1> DEFINE l == Longer(d, r, e)
             f == RecordActivity(l, r, e.at, e.id)
  <1>1. d \in Database /\ TurnSaw(d) /\ d.events \in SUBSET EventOf /\ d.turn \in Admission
    BY TurnOfDatabase DEF DataInv, Database
  <1>2. /\ l \in Database
        /\ l.events = d.events \cup {e} /\ l.turn = d.turn /\ l.turns = d.turns
        /\ l.marks = d.marks
        /\ \A o \in Streamed : /\ l.request[o].status = d.request[o].status
                               /\ l.request[o].session = d.request[o].session
                               /\ l.request[o].text = d.request[o].text
        /\ \A o \in Streamed \ {r} : l.request[o].output = d.request[o].output
        /\ l.request[r].output = IF e.part = "answer" THEN d.request[r].output + 1
                                 ELSE d.request[r].output
    BY <1>1, LongerEffect
  <1>3. e.at \in Nat /\ e.id \in Nat
    BY DEF EventOf
  <1> HIDE DEF l
  <1>4. Active(l)
    BY <1>2 DEF Active
  <1>5. /\ f \in Database /\ Active(f)
        /\ f.request = l.request /\ f.events = l.events /\ f.turns = l.turns
        /\ \E moved \in [at : Nat, id : Nat] : f.turn = [Bump(l.turn) EXCEPT !.seen = moved]
        /\ \A o \in EventOf : Covers(l.turn, o) => Covers(f.turn, o)
        /\ \A o \in EventOf : o.at = e.at /\ o.id = e.id => Covers(f.turn, o)
        /\ \A m \in l.marks : m.status = "consumed" => m \in f.marks
    <2>1. Acted(l, f, e.at, e.id)
      BY <1>2, <1>3, <1>4, RecordActivityEffect
    <2> QED
      BY <2>1 DEF Acted
  <1>6. f.turn.no = d.turn.no /\ f.turn.status = d.turn.status /\ f.turn.session = d.turn.session
    <2>1. PICK moved \in [at : Nat, id : Nat] : f.turn = [Bump(d.turn) EXCEPT !.seen = moved]
      BY <1>2, <1>5
    <2> QED
      BY <1>1, <2>1, MovedTurn
  <1> HIDE DEF f
  <1>7. e \notin d.events
    OBVIOUS
  <1>8. \A o \in Streamed : f.request[o].output = Cardinality(ShownOf(f, o))
    <2> SUFFICES ASSUME NEW o \in Streamed
                 PROVE  f.request[o].output = Cardinality(ShownOf(f, o))
      OBVIOUS
    <2>1. d.request[o].output = Cardinality(ShownOf(d, o)) /\ IsFiniteSet(d.events)
      BY DEF DataInv
    <2>2. IsFiniteSet(ShownOf(d, o))
      BY <2>1, FS_Subset DEF ShownOf
    <2>3. CASE o = r /\ e.part = "answer"
      <3>1. ShownOf(f, o) = ShownOf(d, o) \cup {e} /\ e \notin ShownOf(d, o)
        BY <1>2, <1>5, <1>7, <2>3 DEF ShownOf
      <3>2. Cardinality(ShownOf(f, o)) = Cardinality(ShownOf(d, o)) + 1
        BY <2>2, <3>1, FS_AddElement
      <3> QED
        BY <1>2, <1>5, <2>1, <2>3, <3>2
    <2>4. CASE ~(o = r /\ e.part = "answer")
      <3>1. ShownOf(f, o) = ShownOf(d, o)
        BY <1>2, <1>5, <2>4 DEF ShownOf
      <3> QED
        BY <1>2, <1>5, <2>1, <2>4, <3>1
    <2> QED
      BY <2>3, <2>4
  <1>9. \A o \in Streamed : Shows(f, o) => LastShown(f, o)
    <2> SUFFICES ASSUME NEW o \in Streamed, Shows(f, o)
                 PROVE  LastShown(f, o)
      OBVIOUS
    <2>1. Shows(d, o) /\ o # r
      BY <1>2, <1>5 DEF Shows, Open
    <2>2. LastShown(d, o)
      BY <2>1 DEF DataInv
    <2> QED
      BY <1>2, <1>5, <2>1, <2>2 DEF LastShown
  <1>10. TurnSaw(f)
    <2>1. \A o \in d.events : o.turn = d.turn.no /\ Does(o) => Covers(d.turn, o)
      BY <1>1 DEF TurnSaw
    <2>2. \A o \in f.events : o.turn = f.turn.no /\ Does(o) => Covers(f.turn, o)
      BY <1>1, <1>2, <1>5, <1>6, <2>1
    <2> QED
      BY <1>1, <1>2, <1>5, <1>6, <2>2 DEF TurnSaw, TurnTyped
  <1>11. IsFiniteSet(f.events) /\ \A o \in f.events : o.turn <= f.turns
    <2>1. IsFiniteSet(d.events) /\ \A o \in d.events : o.turn <= d.turns
      BY DEF DataInv
    <2>2. e.turn <= d.turns
      BY <1>1 DEF TurnSaw, Database
    <2> QED
      BY <1>2, <1>5, <2>1, <2>2, FS_AddElement
  <1>12. OneRequest(f)
    BY <1>2, <1>5 DEF DataInv, OneRequest
  <1> QED
    BY <1>5, <1>8, <1>9, <1>10, <1>11, <1>12 DEF DataInv, f, l

LEMMA EndTurnEffect ==
    ASSUME NEW d \in Database, Active(d), NEW s \in Sessions, NEW at \in Nat
    PROVE  LET f == EndTurn(d, s, at) IN
           /\ f \in Database /\ ~Active(f) /\ f.turn = NoTurn
           /\ f.turns = d.turns /\ f.request = d.request /\ f.marks = d.marks /\ f.events = d.events
           /\ f.unprojected = IF d.turn.request = NoRequest THEN d.unprojected
                ELSE d.unprojected \cup {[session |-> s, request |-> d.turn.request, at |-> at]}
  <1>1. d.turn.request # NoRequest =>
            [session |-> s, request |-> d.turn.request, at |-> at] \in Projection
    BY TurnOfDatabase DEF Admission, Projection
  <1> QED
    BY <1>1 DEF EndTurn, Database, NoTurn, Active

LEMMA DataEndTurn ==
    ASSUME NEW d, DataInv(d), Active(d), NEW s \in Sessions, NEW at \in Nat
    PROVE  DataInv(EndTurn(d, s, at))
  <1> DEFINE f == EndTurn(d, s, at)
  <1>1. /\ f \in Database /\ ~Active(f)
        /\ f.turns = d.turns /\ f.request = d.request /\ f.marks = d.marks /\ f.events = d.events
    BY EndTurnEffect DEF DataInv
  <1> HIDE DEF f
  <1>2. SameTurnOrNone(d, f) /\ RequestsGoOn(d, f)
    BY <1>1 DEF SameTurnOrNone, RequestsGoOn, Shows
  <1> QED
    BY <1>1, <1>2, DataFrame DEF f
\* recoverRuntimeTurn fails a request without an answer, and withdraws its text.
GivenUp(d, r) == [CloseMarks(d, r, "invalidated") EXCEPT
                      !.request[r].status = "failed", !.request[r].text = "none",
                      !.request[r].quiet = FALSE]

LEMMA GivenUpEffect ==
    ASSUME NEW d \in Database, NEW r \in Streamed
    PROVE  EndsAs(d, GivenUp(d, r), r, "failed")
  <1> DEFINE c == CloseMarks(d, r, "invalidated")
             row == [d.request[r] EXCEPT !.status = "failed", !.text = "none", !.quiet = FALSE]
  <1>1. /\ c \in Database /\ c.request = d.request /\ c.turn = d.turn /\ c.turns = d.turns
        /\ c.events = d.events /\ c.unprojected = d.unprojected
        /\ \A m \in d.marks : m.status = "consumed" => m \in c.marks
    BY CloseMarksEffect
  <1>2. row \in RequestRow /\ row.status = "failed" /\ row.session = d.request[r].session
        /\ row.output = d.request[r].output
    BY RequestOfDatabase DEF RequestRow, Terminal, Texts
  <1> HIDE DEF c
  <1>3. GivenUp(d, r) = WithRow(c, r, row)
    BY <1>1 DEF GivenUp, WithRow, Database, c
  <1> HIDE DEF row
  <1> QED
    BY <1>1, <1>2, <1>3, RowIsWritten DEF EndsAs, OtherRequests

LEMMA DataGivenUp ==
    ASSUME NEW d, DataInv(d), NEW r \in Streamed, d.request[r].status \in Open
    PROVE  DataInv(GivenUp(d, r))
  <1>1. EndsAs(d, GivenUp(d, r), r, "failed")
    BY GivenUpEffect DEF DataInv
  <1> QED
    BY <1>1, DataEnds DEF EndsAs, Shows, Open

\* A mark is made of what an admission shows last, and withdraws the one before.
WithMark(d, r, mark) == [CloseMarks(d, r, "invalidated") EXCEPT !.marks = @ \cup {mark}]

LEMMA WithMarkEffect ==
    ASSUME NEW d \in Database, NEW r \in Streamed, NEW mark \in Mark
    PROVE  LET f == WithMark(d, r, mark) IN
           /\ f \in Database
           /\ f.turn = d.turn /\ f.turns = d.turns /\ f.events = d.events /\ f.request = d.request
           /\ f.unprojected = d.unprojected
           /\ \A m \in d.marks : m.status = "consumed" => m \in f.marks
  <1> DEFINE c == CloseMarks(d, r, "invalidated")
  <1>1. /\ c \in Database /\ c.request = d.request /\ c.turn = d.turn /\ c.turns = d.turns
        /\ c.events = d.events /\ c.unprojected = d.unprojected
        /\ \A m \in d.marks : m.status = "consumed" => m \in c.marks
    BY CloseMarksEffect
  <1>2. WithMark(d, r, mark) = [c EXCEPT !.marks = @ \cup {mark}]
    BY DEF WithMark
  <1> HIDE DEF c
  <1> QED
    BY <1>1, <1>2 DEF Database

LEMMA DataMark ==
    ASSUME NEW d, DataInv(d), NEW r \in Streamed, NEW mark \in Mark
    PROVE  DataInv(WithMark(d, r, mark))
  <1> DEFINE f == WithMark(d, r, mark)
  <1>1. /\ f \in Database
        /\ f.turn = d.turn /\ f.turns = d.turns /\ f.events = d.events /\ f.request = d.request
        /\ \A m \in d.marks : m.status = "consumed" => m \in f.marks
    BY WithMarkEffect DEF DataInv
  <1> HIDE DEF f
  <1>2. SameTurnOrNone(d, f)
    BY <1>1 DEF SameTurnOrNone, DataInv, TurnSaw, Active
  <1>3. RequestsGoOn(d, f)
    BY <1>1 DEF RequestsGoOn, Shows
  <1> QED
    BY <1>1, <1>2, <1>3, DataFrame DEF f

\* A conversation is admitted.
NewTurn(d, i, at) == [status |-> "submitted", no |-> d.turns + 1, item |-> i,
                      request |-> IF i \in Streamed THEN i ELSE NoRequest,
                      session |-> NoSession, since |-> at, binding |-> "pending",
                      seen |-> [at |-> 0, id |-> 0], quiet |-> FALSE, watched |-> FALSE]
Admitted(d, i, at) == [d EXCEPT !.turns = @ + 1, !.turn = NewTurn(d, i, at)]

LEMMA AdmittedEffect ==
    ASSUME NEW d \in Database, NEW i \in Items, NEW at \in Nat
    PROVE  LET f == Admitted(d, i, at) IN
           /\ f \in Database /\ f.turn = NewTurn(d, i, at) /\ f.turn \in Admission
           /\ f.turns = d.turns + 1 /\ f.request = d.request /\ f.marks = d.marks
           /\ f.events = d.events /\ f.unprojected = d.unprojected
  <1>1. NewTurn(d, i, at) \in Admission
    BY DEF NewTurn, Admission, Database
  <1>2. d.turns + 1 \in Nat
    BY DEF Database
  <1>3. Admitted(d, i, at) = [d EXCEPT !.turns = d.turns + 1, !.turn = NewTurn(d, i, at)]
    BY DEF Admitted
  <1> DEFINE x == NewTurn(d, i, at)
             n == d.turns + 1
  <1>4. Admitted(d, i, at) = [d EXCEPT !.turns = n, !.turn = x] /\ x \in Admission /\ n \in Nat
    BY <1>1, <1>2, <1>3
  <1> HIDE DEF x, n
  <1>5. LET f == Admitted(d, i, at) IN
        /\ f \in Database /\ f.turn = x /\ f.turn \in Admission
        /\ f.turns = n /\ f.request = d.request /\ f.marks = d.marks
        /\ f.events = d.events /\ f.unprojected = d.unprojected
    BY <1>4 DEF Database
  <1> QED
    BY <1>5 DEF x, n

LEMMA DataAdmitted ==
    ASSUME NEW d, DataInv(d), NEW i \in Items, NEW at \in Nat
    PROVE  DataInv(Admitted(d, i, at))
  <1> DEFINE f == Admitted(d, i, at)
  <1>1. d \in Database /\ d.turns \in Nat
    BY DEF DataInv, Database
  <1>2. /\ f \in Database /\ f.turn = NewTurn(d, i, at)
        /\ f.turns = d.turns + 1 /\ f.request = d.request /\ f.marks = d.marks
        /\ f.events = d.events
    BY <1>1, AdmittedEffect
  <1> HIDE DEF f
  <1>3. \A e \in d.events : e.turn \in Nat /\ e.turn <= d.turns
    BY DEF DataInv, Database, EventOf
  <1>4. TurnSaw(f)
    BY <1>1, <1>2, <1>3 DEF TurnSaw, TurnTyped, NewTurn
  <1>5. \A r \in Streamed : ShownOf(f, r) = ShownOf(d, r)
    BY <1>2 DEF ShownOf
  <1>6. \A r \in Streamed : (Shows(f, r) => Shows(d, r)) /\ (LastShown(d, r) => LastShown(f, r))
    BY <1>2 DEF Shows, LastShown
  <1>7. OneRequest(f) /\ \A e \in f.events : e.turn <= f.turns
    BY <1>1, <1>2, <1>3 DEF DataInv, OneRequest
  <1> QED
    BY <1>2, <1>4, <1>5, <1>6, <1>7 DEF DataInv, f

-----------------------------------------------------------------------------
(* The hook processes *)

StepsOf(kind) ==
    CASE kind = "prompt" -> {"start", "bind", "bound", "rejected"}
      [] kind = "tool" -> {"start", "report"}
      [] kind = "post" -> {"touch", "report"}
      [] kind = "stop" -> {"resolve", "finish", "close"}
      [] OTHER -> {"touch", "append", "mark"}

HookFits(h, c) ==
    /\ h.step \in StepsOf(h.kind)
    /\ h.seen <= h.at /\ h.at <= c
    /\ h.kind \notin {"reasoning", "answer"} => h.seen = h.at
    /\ h.kind \notin {"prompt", "stop"} => h.id # 0
    /\ h.kind = "prompt" => /\ h.of \in Items
                            /\ h.request = IF h.of \in Streamed THEN h.of ELSE NoRequest
    /\ h.step \in {"bound", "report", "append", "mark", "close"} => h.request \in Streamed

HooksFit(hs, c) ==
    /\ hs \in SUBSET HookProcess /\ IsFiniteSet(hs) /\ Cardinality(hs) <= MaxInFlight
    /\ \A h \in hs : HookFits(h, c)

LEMMA BecomesFits ==
    ASSUME HooksFit(hooks, clock), NEW h \in hooks, NEW g, Become(h, g),
           g.step = "done" \/ (g \in HookProcess /\ HookFits(g, clock))
    PROVE  HooksFit(hooks', clock)
  <1>1. IsFiniteSet(hooks \ {h}) /\ Cardinality(hooks \ {h}) = Cardinality(hooks) - 1
        /\ Cardinality(hooks) \in Nat /\ MaxInFlight \in Nat
    BY FS_RemoveElement, FS_CardinalityType, BoundsAssumption DEF HooksFit
  <1>2. CASE g.step = "done"
    BY <1>1, <1>2 DEF Become, HooksFit
  <1>3. CASE g.step # "done"
    <2>1. hooks' = (hooks \ {h}) \cup {g}
      BY <1>3 DEF Become
    <2> DEFINE rest == hooks \ {h}
    <2> HIDE DEF rest
    <2>4. IsFiniteSet(rest \cup {g}) /\ Cardinality(rest \cup {g}) \in {Cardinality(rest), Cardinality(rest) + 1}
      BY <1>1, FS_AddElement DEF rest
    <2>2. IsFiniteSet(hooks') /\ Cardinality(hooks') <= Cardinality(hooks)
      BY <1>1, <2>1, <2>4 DEF rest
    <2>3. Cardinality(hooks') \in Nat
      BY <2>2, FS_CardinalityType
    <2> QED
      BY <1>1, <1>3, <2>1, <2>2, <2>3 DEF HooksFit
  <1> QED
    BY <1>2, <1>3

LEMMA FewerFit ==
    ASSUME HooksFit(hooks, clock), NEW h \in hooks
    PROVE  HooksFit(hooks \ {h}, clock)
  <1>1. IsFiniteSet(hooks \ {h}) /\ Cardinality(hooks \ {h}) = Cardinality(hooks) - 1
        /\ Cardinality(hooks) \in Nat /\ MaxInFlight \in Nat
    BY FS_RemoveElement, FS_CardinalityType, BoundsAssumption DEF HooksFit
  <1> QED
    BY <1>1 DEF HooksFit

LEMMA LaunchFits ==
    ASSUME HooksFit(hooks, clock), clock \in Nat, NEW h \in HookProcess, Launch(h), HookFits(h, h.at),
           h.at >= clock
    PROVE  HooksFit(hooks', clock')
  <1>1. IsFiniteSet(hooks) /\ Cardinality(hooks) \in Nat /\ MaxInFlight \in Nat
    BY FS_CardinalityType, BoundsAssumption DEF HooksFit
  <1>2. hooks' = hooks \cup {h} /\ clock' = h.at /\ Cardinality(hooks) < MaxInFlight
    BY DEF Launch
  <1>3. IsFiniteSet(hooks') /\ Cardinality(hooks') <= Cardinality(hooks) + 1
        /\ Cardinality(hooks') \in Nat
    <2>1. IsFiniteSet(hooks \cup {h}) /\ Cardinality(hooks \cup {h}) \in {Cardinality(hooks), Cardinality(hooks) + 1}
      BY <1>1, FS_AddElement
    <2> QED
      BY <1>1, <1>2, <2>1, FS_CardinalityType
  <1>4. \A g \in hooks : HookFits(g, clock')
    BY <1>2 DEF HooksFit, HookFits, HookProcess
  <1> QED
    BY <1>1, <1>2, <1>3, <1>4 DEF HooksFit

LEMMA LaterFits ==
    ASSUME NEW hs, NEW c \in Nat, NEW k \in Nat, HooksFit(hs, c), c <= k
    PROVE  HooksFit(hs, k)
  BY DEF HooksFit, HookFits, HookProcess
-----------------------------------------------------------------------------
(* Types, and what holds of the database after any number of faults *)

FilesFit(f) == /\ f \in [Sessions -> Binding]
               /\ \A s \in Sessions : f[s].mode = "bound" => f[s].request \in Streamed
PumpFits ==
    /\ pump \in [step : {"rest", "recover", "send", "sent"}, item : Items \cup {NoRequest}]
    /\ pump.step = "send" => pump.item \in Items
    /\ pump.step = "sent" => pump.item \in Streamed
RuntimeFits ==
    runtime \in [session : Sessions, typed : SUBSET Items, doing : Items \cup {NoRequest},
                 prompted : BOOLEAN]
StateInv ==
    /\ DataInv(db)
    /\ FilesFit(file)
    /\ conv \in [Items -> {"pending", "delivered"}]
    /\ PumpFits
    /\ RuntimeFits
    /\ HooksFit(hooks, clock)
    /\ clock \in Nat \ {0}
    /\ spent \in [steps : Nat, faults : Nat]

LEMMA WriteFits ==
    ASSUME NEW f, FilesFit(f), NEW s \in Sessions,
           NEW mode \in {"bound", "rejected", "closed"}, NEW r \in Streamed \cup {NoRequest},
           NEW at \in Nat, mode = "bound" => r \in Streamed
    PROVE  FilesFit(Write(f, s, mode, r, at))
  BY DEF FilesFit, Write, Binding

Told(h, r) == [h EXCEPT !.request = r, !.step = AfterResolve(h)]
GivesUp(h) == IF h.kind = "stop" THEN Become(h, Told(h, NoRequest)) ELSE To(h, "done")
Resolved(d, h) ==
    LET s == h.session IN
    \/ /\ file[s].mode = "bound" /\ db' = d /\ UNCHANGED file
       /\ Become(h, Told(h, file[s].request))
    \/ /\ file[s].mode # "bound" /\ (file[s].mode # "none" \/ h.kind = "stop")
       /\ db' = d /\ UNCHANGED file /\ GivesUp(h)
    \/ /\ file[s].mode = "none" /\ h.kind # "stop"
       /\ \E r \in NextRun(d, s) :
             /\ CanBind(d, r, s) /\ db' = Bind(d, r, s)
             /\ file' = Write(file, s, "bound", r, h.at) /\ Become(h, Told(h, r))
    \/ /\ file[s].mode = "none" /\ h.kind # "stop"
       /\ \A r \in NextRun(d, s) : ~CanBind(d, r, s)
       /\ db' = RejectBinding(d, s, h.at)
       /\ file' = Write(file, s, "rejected", NoRequest, h.at) /\ GivesUp(h)

LEMMA ResolveCases ==
    ASSUME NEW d, NEW h, Resolve(d, h)
    PROVE  Resolved(d, h)
  <1> DEFINE only == {r \in NextRun(d, h.session) : CanBind(d, r, h.session)}
  <1>1. CASE file[h.session].mode # "none" \/ h.kind = "stop"
    BY <1>1 DEF Resolve, Resolved, Told, GivesUp
  <1>2. CASE ~(file[h.session].mode # "none" \/ h.kind = "stop") /\ only # {}
    BY <1>2 DEF Resolve, Resolved, Told, GivesUp
  <1>3. CASE ~(file[h.session].mode # "none" \/ h.kind = "stop") /\ only = {}
    BY <1>3 DEF Resolve, Resolved, Told, GivesUp
  <1> QED
    BY <1>1, <1>2, <1>3

LEMMA ToldFits ==
    ASSUME NEW c, NEW h \in HookProcess, HookFits(h, c), h.kind # "prompt",
           NEW r \in Streamed \cup {NoRequest}, r = NoRequest => h.kind = "stop"
    PROVE  Told(h, r) \in HookProcess /\ HookFits(Told(h, r), c)
  <1>1. AfterResolve(h) = IF h.kind = "stop" THEN "finish"
                          ELSE IF h.kind \in {"tool", "post"} THEN "report" ELSE "append"
    BY DEF AfterResolve
  <1>2. Told(h, r) \in HookProcess
    BY <1>1 DEF Told, HookProcess
  <1>3. AfterResolve(h) \in StepsOf(h.kind)
    BY <1>1 DEF StepsOf, HookProcess, Kinds
  <1>4. AfterResolve(h) \in {"bound", "report", "append", "mark", "close"} => r \in Streamed
    BY <1>1
  <1> QED
    BY <1>2, <1>3, <1>4 DEF Told, HookFits, HookProcess

LEMMA StepFits ==
    ASSUME NEW c, NEW h \in HookProcess, HookFits(h, c), NEW step, step \in StepsOf(h.kind),
           step \in {"bound", "report", "append", "mark", "close"} => h.request \in Streamed
    PROVE  /\ [h EXCEPT !.step = step] \in HookProcess
           /\ HookFits([h EXCEPT !.step = step], c)
  <1>1. step \in {"start", "touch", "resolve", "bind", "bound", "rejected", "report",
                  "append", "mark", "finish", "close"}
    BY DEF StepsOf
  <1> QED
    BY <1>1 DEF HookFits, HookProcess

LEMMA EndsFit ==
    ASSUME StateInv, NEW h \in hooks, To(h, "done")
    PROVE  HooksFit(hooks', clock)
  <1>1. [h EXCEPT !.step = "done"].step = "done"
    BY DEF StateInv, HooksFit, HookProcess
  <1> QED
    BY <1>1, BecomesFits DEF To, StateInv

LEMMA StepsFit ==
    ASSUME StateInv, NEW h \in hooks, NEW step, To(h, step), step \in StepsOf(h.kind),
           step \in {"bound", "report", "append", "mark", "close"} => h.request \in Streamed
    PROVE  HooksFit(hooks', clock)
  <1>1. HooksFit(hooks, clock) /\ h \in HookProcess /\ HookFits(h, clock)
    BY DEF StateInv, HooksFit
  <1>2. [h EXCEPT !.step = step] \in HookProcess /\ HookFits([h EXCEPT !.step = step], clock)
    BY <1>1, StepFits
  <1> QED
    BY <1>1, <1>2, BecomesFits DEF To

LEMMA GivesUpFits ==
    ASSUME StateInv, NEW h \in hooks, h.kind # "prompt", GivesUp(h)
    PROVE  HooksFit(hooks', clock)
  <1>1. HooksFit(hooks, clock) /\ h \in HookProcess /\ HookFits(h, clock)
    BY DEF StateInv, HooksFit
  <1>2. CASE h.kind = "stop"
    <2>1. Told(h, NoRequest) \in HookProcess /\ HookFits(Told(h, NoRequest), clock)
      BY <1>1, <1>2, ToldFits
    <2> QED
      BY <1>1, <1>2, <2>1, BecomesFits DEF GivesUp
  <1>3. CASE h.kind # "stop"
    BY <1>3, EndsFit DEF GivesUp
  <1> QED
    BY <1>2, <1>3

LEMMA ResolveFits ==
    ASSUME StateInv, NEW d, DataInv(d), NEW h \in hooks, h.kind # "prompt", Resolve(d, h)
    PROVE  DataInv(db') /\ FilesFit(file') /\ HooksFit(hooks', clock)
  <1>1. HooksFit(hooks, clock) /\ h \in HookProcess /\ HookFits(h, clock) /\ FilesFit(file)
        /\ h.session \in Sessions /\ h.at \in Nat
    BY DEF StateInv, HooksFit, HookProcess
  <1> DEFINE s == h.session
  <1>2. Resolved(d, h)
    BY ResolveCases
  <1>3. CASE /\ file[s].mode = "bound" /\ db' = d /\ UNCHANGED file
             /\ Become(h, Told(h, file[s].request))
    <2>1. file[s].request \in Streamed
      BY <1>1, <1>3 DEF FilesFit
    <2>2. Told(h, file[s].request) \in HookProcess /\ HookFits(Told(h, file[s].request), clock)
      BY <1>1, <2>1, ToldFits, NoneAssumption, ItemsAssumption
    <2> QED
      BY <1>1, <1>3, <2>2, BecomesFits
  <1>4. CASE /\ file[s].mode # "bound" /\ (file[s].mode # "none" \/ h.kind = "stop")
             /\ db' = d /\ UNCHANGED file /\ GivesUp(h)
    BY <1>1, <1>4, GivesUpFits
  <1>5. ASSUME NEW r \in NextRun(d, s),
               CanBind(d, r, s), db' = Bind(d, r, s),
               file' = Write(file, s, "bound", r, h.at), Become(h, Told(h, r))
        PROVE  DataInv(db') /\ FilesFit(file') /\ HooksFit(hooks', clock)
    <2>1. r \in Streamed
      BY <1>5 DEF CanBind
    <2>2. Told(h, r) \in HookProcess /\ HookFits(Told(h, r), clock)
      BY <1>1, <2>1, ToldFits, NoneAssumption, ItemsAssumption
    <2>3. DataInv(db')
      BY <1>1, <1>5, DataBind
    <2>4. FilesFit(file')
      BY <1>1, <1>5, <2>1, WriteFits
    <2> QED
      BY <1>1, <1>5, <2>2, <2>3, <2>4, BecomesFits
  <1>6. CASE /\ db' = RejectBinding(d, s, h.at)
             /\ file' = Write(file, s, "rejected", NoRequest, h.at) /\ GivesUp(h)
    <2>1. FilesFit(file')
      BY <1>1, <1>6, WriteFits
    <2> QED
      BY <1>1, <1>6, <2>1, DataReject, GivesUpFits
  <1> QED
    BY <1>2, <1>3, <1>4, <1>5, <1>6 DEF Resolved

LEMMA EventTyped ==
    ASSUME StateInv, NEW h \in HookProcess, NEW part \in Kinds \cup {"stop"}, NEW late \in BOOLEAN,
           NEW r \in Streamed
    PROVE  LET e == Event(h, part, late) IN
           /\ [e EXCEPT !.request = r] \in EventOf
           /\ h.request = r => e \in EventOf /\ e.request = r
           /\ e.id = h.id /\ e.part = part /\ e.late = late /\ e.at = h.seen /\ e.of = h.of
           /\ e.turn = IF Active(db) THEN db.turn.no ELSE 0
           /\ e.turn <= db.turns
  <1>1. (IF Active(db) THEN db.turn.no ELSE 0) \in Nat
        /\ (IF Active(db) THEN db.turn.no ELSE 0) <= db.turns
    BY DEF StateInv, DataInv, TurnSaw, Database
  <1> QED
    BY <1>1 DEF Event, EventOf, HookProcess
LEMMA TurnsInitState ==
    ASSUME TurnsInit
    PROVE  StateInv
  <1>1. NewRequest \in RequestRow
    BY DEF NewRequest, RequestRow, Open, Texts
  <1>2. [r \in Streamed |-> NewRequest] \in [Streamed -> RequestRow]
    BY <1>1
  <1> DEFINE rows == [r \in Streamed |-> NewRequest]
  <1>3. /\ db.request = rows /\ db.turn = NoTurn /\ db.turns = 0 /\ db.marks = {}
        /\ db.events = {} /\ db.unprojected = {}
    BY DEF TurnsInit
  <1>4. db \in Database
    <2> HIDE DEF rows
    <2>1. rows \in [Streamed -> RequestRow]
      BY <1>2 DEF rows
    <2>2. db = [request |-> rows, turn |-> NoTurn, turns |-> 0, marks |-> {}, events |-> {},
                unprojected |-> {}]
      BY DEF TurnsInit, rows
    <2> QED
      BY <2>1, <2>2 DEF Database
  <1>5. \A r \in Streamed : rows[r].session = NoSession /\ rows[r].output = 0
                            /\ rows[r].status = "queued"
    BY DEF NewRequest
  <1> HIDE DEF rows
  <1>6. OneRequest(db)
    BY <1>3, <1>5 DEF OneRequest
  <1>7. \A r \in Streamed : ShownOf(db, r) = {} /\ ~Shows(db, r)
    BY <1>3, <1>5 DEF ShownOf, Shows
  <1>8. TurnSaw(db)
    BY <1>3 DEF TurnSaw, Active, NoTurn
  <1>9. DataInv(db)
    BY <1>3, <1>4, <1>5, <1>6, <1>7, <1>8, FS_EmptySet DEF DataInv
  <1>10. FilesFit(file)
    BY DEF TurnsInit, FilesFit, NoFile, Binding
  <1>11. PumpFits /\ conv \in [Items -> {"pending", "delivered"}]
    BY DEF TurnsInit, PumpFits
  <1>12. RuntimeFits
    BY NoneAssumption DEF TurnsInit, RuntimeFits
  <1>13. HooksFit(hooks, clock)
    BY FS_EmptySet, BoundsAssumption DEF TurnsInit, HooksFit
  <1> QED
    BY <1>9, <1>10, <1>11, <1>12, <1>13 DEF TurnsInit, StateInv

LEMMA StateBegins ==
    ASSUME StateInv, NEW i \in Items, BeginTurn(i)
    PROVE  StateInv'
  <1> DEFINE h == [Hook("prompt", "start", clock + 1) EXCEPT !.of = i,
                       !.request = IF i \in Streamed THEN i ELSE NoRequest]
  <1>1. /\ h \in HookProcess /\ h.kind = "prompt" /\ h.step = "start" /\ h.of = i
        /\ h.at = clock + 1 /\ h.seen = clock + 1
        /\ h.request = IF i \in Streamed THEN i ELSE NoRequest
    <2> DEFINE g == Hook("prompt", "start", clock + 1)
    <2>1. g \in HookProcess /\ g.kind = "prompt" /\ g.step = "start" /\ g.at = clock + 1
          /\ g.seen = clock + 1
      <3>1. RuntimeFits /\ clock + 1 \in Nat \ {0}
        BY DEF StateInv
      <3> QED
        BY <3>1 DEF Hook, HookProcess, RuntimeFits, Texts
    <2> HIDE DEF g
    <2>2. h = [g EXCEPT !.of = i, !.request = IF i \in Streamed THEN i ELSE NoRequest]
      BY DEF g
    <2> HIDE DEF h
    <2> QED
      BY <2>1, <2>2 DEF HookProcess
  <1>2. Launch(h)
    BY DEF BeginTurn
  <1>3. h \in HookProcess /\ HookFits(h, h.at) /\ h.at = clock + 1
    BY <1>1 DEF HookFits, StepsOf, StateInv
  <1> HIDE DEF h
  <1>4. HooksFit(hooks', clock')
    BY <1>2, <1>3, LaunchFits DEF StateInv
  <1>5. RuntimeFits'
    BY DEF BeginTurn, StateInv, RuntimeFits
  <1>6. clock' \in Nat \ {0}
    BY <1>2, <1>3 DEF Launch, StateInv
  <1> QED
    BY <1>4, <1>5, <1>6 DEF BeginTurn, StateInv, PumpFits

LEMMA StateWorks ==
    ASSUME StateInv, NEW k \in Steps, NEW at \in {clock, clock + 1}, Work(k, at)
    PROVE  StateInv'
  <1> DEFINE step == IF k.kind = "tool" THEN "start" ELSE "touch"
             h == [Hook(k.kind, step, at) EXCEPT !.final = k.final, !.id = spent.steps + 1]
  <1>1. k.kind \in Kinds /\ k.final \in BOOLEAN
    BY StepsAssumption
  <1>2. /\ h \in HookProcess /\ h.kind = k.kind /\ h.step = step /\ h.at = at /\ h.seen = at
        /\ h.id = spent.steps + 1 /\ h.id # 0
    <2> DEFINE g == Hook(k.kind, step, at)
    <2>1. step \in {"start", "touch", "resolve"} /\ at \in Nat \ {0}
          /\ spent.steps + 1 \in Nat \ {0}
      BY DEF StateInv
    <2> HIDE DEF step
    <2>2. g \in HookProcess /\ g.kind = k.kind /\ g.step = step /\ g.at = at /\ g.seen = at
      <3>1. RuntimeFits
        BY DEF StateInv
      <3> QED
        BY <1>1, <2>1, <3>1 DEF Hook, HookProcess, RuntimeFits, Texts
    <2> HIDE DEF g
    <2>3. h = [g EXCEPT !.final = k.final, !.id = spent.steps + 1]
      BY DEF g
    <2> HIDE DEF h
    <2> QED
      BY <1>1, <2>1, <2>2, <2>3 DEF HookProcess
  <1>3. Launch(h) /\ spent' = [spent EXCEPT !.steps = @ + 1]
    BY DEF Work
  <1>4. h \in HookProcess /\ HookFits(h, h.at) /\ h.at = at
    <2>1. step \in {"start", "touch"} /\ step \in StepsOf(k.kind)
      BY <1>1 DEF StepsOf, Kinds
    <2> HIDE DEF step, h
    <2> QED
      BY <1>1, <1>2, <2>1 DEF HookFits, Kinds, HookProcess
  <1> HIDE DEF h
  <1>5. HooksFit(hooks', clock')
    <2>1. h.at >= clock
      BY <1>4 DEF StateInv
    <2> QED
      BY <1>3, <1>4, <2>1, LaunchFits DEF StateInv
  <1>6. clock' \in Nat \ {0}
    BY <1>3, <1>4 DEF Launch, StateInv
  <1>7. spent' \in [steps : Nat, faults : Nat]
    BY <1>3 DEF StateInv
  <1> QED
    BY <1>5, <1>6, <1>7 DEF Work, StateInv, PumpFits, RuntimeFits

LEMMA StateStops ==
    ASSUME StateInv, NEW text \in Texts, StopTurn(text)
    PROVE  StateInv'
  <1> DEFINE h == [Hook("stop", "resolve", clock + 1) EXCEPT !.text = text]
  <1>1. /\ h \in HookProcess /\ h.kind = "stop" /\ h.step = "resolve"
        /\ h.at = clock + 1 /\ h.seen = clock + 1
    <2> DEFINE g == Hook("stop", "resolve", clock + 1)
    <2>1. g \in HookProcess /\ g.kind = "stop" /\ g.step = "resolve" /\ g.at = clock + 1
          /\ g.seen = clock + 1
      <3>1. RuntimeFits /\ clock + 1 \in Nat \ {0}
        BY DEF StateInv
      <3> QED
        BY <3>1 DEF Hook, HookProcess, RuntimeFits, Texts
    <2> HIDE DEF g
    <2>2. h = [g EXCEPT !.text = text]
      BY DEF g
    <2> HIDE DEF h
    <2> QED
      BY <2>1, <2>2 DEF HookProcess
  <1>2. Launch(h)
    BY DEF StopTurn
  <1>3. h \in HookProcess /\ HookFits(h, h.at) /\ h.at = clock + 1
    BY <1>1 DEF HookFits, StepsOf, StateInv
  <1> HIDE DEF h
  <1>4. HooksFit(hooks', clock')
    BY <1>2, <1>3, LaunchFits DEF StateInv
  <1>5. RuntimeFits'
    BY DEF StopTurn, StateInv, RuntimeFits
  <1>6. clock' \in Nat \ {0}
    BY <1>2, <1>3 DEF Launch, StateInv
  <1> QED
    BY <1>4, <1>5, <1>6 DEF StopTurn, StateInv, PumpFits

LEMMA StateReplies ==
    ASSUME StateInv, NEW sent \in BOOLEAN, SendReply(sent)
    PROVE  StateInv'
  <1>1. runtime.doing \in Streamed
    BY DEF SendReply
  <1>2. DataInv(CompleteRun(db, runtime.doing, "sent")) /\ DataInv(FailRun(db, runtime.doing))
    BY <1>1, DataComplete, DataFail DEF StateInv, Texts
  <1>3. DataInv(db')
    BY <1>2 DEF SendReply
  <1> QED
    BY <1>3 DEF SendReply, StateInv, PumpFits, RuntimeFits

LEMMA FaultFits ==
    ASSUME StateInv, Fault
    PROVE  spent' \in [steps : Nat, faults : Nat]
  BY DEF StateInv, Fault

LEMMA StateRestarts ==
    ASSUME StateInv, RuntimeRestarts
    PROVE  StateInv'
  <1>1. RuntimeFits'
    BY NoneAssumption DEF RuntimeRestarts, RuntimeFits
  <1> QED
    BY <1>1, FaultFits DEF RuntimeRestarts, StateInv, PumpFits

LEMMA StateHookDies ==
    ASSUME StateInv, NEW h \in hooks, HookDies(h)
    PROVE  StateInv'
  <1>1. RuntimeFits'
    BY DEF HookDies, RuntimeFits, StateInv
  <1>2. HooksFit(hooks', clock')
    BY FewerFit DEF HookDies, StateInv
  <1> QED
    BY <1>1, <1>2, FaultFits DEF HookDies, StateInv, PumpFits

LEMMA StateRetries ==
    ASSUME StateInv, NEW h \in hooks, HookIsRetried(h)
    PROVE  StateInv'
  <1> DEFINE g == [h EXCEPT !.step = "touch", !.at = clock]
  <1>1. h \in HookProcess /\ HookFits(h, clock) /\ h.step = "mark" /\ HooksFit(hooks, clock)
        /\ clock \in Nat \ {0}
    BY DEF HookIsRetried, StateInv, HooksFit
  <1>2. h.kind \in {"reasoning", "answer"}
    BY <1>1 DEF HookFits, StepsOf, HookProcess, Kinds
  <1>3. g \in HookProcess
    BY <1>1 DEF HookProcess
  <1>4. HookFits(g, clock)
    BY <1>1, <1>2 DEF HookProcess, HookFits, StepsOf
  <1>5. g.step # "done"
    BY <1>1 DEF HookProcess
  <1>6. Become(h, g)
    BY <1>5 DEF HookIsRetried, Become
  <1> HIDE DEF g
  <1>7. HooksFit(hooks', clock)
    BY <1>1, <1>3, <1>4, <1>6, BecomesFits
  <1> QED
    BY <1>7, FaultFits DEF HookIsRetried, StateInv, PumpFits, RuntimeFits

LEMMA SilentData ==
    ASSUME NEW d, DataInv(d), NEW x \in Admission \cup {NoTurn}, NEW rows \in [Streamed -> RequestRow],
           d.turn = NoTurn => x = NoTurn,
           d.turn # NoTurn => /\ x # NoTurn /\ x.no = d.turn.no /\ x.seen = d.turn.seen
                              /\ x.status = d.turn.status /\ x.session = d.turn.session,
           \A r \in Streamed : /\ rows[r].status = d.request[r].status
                               /\ rows[r].session = d.request[r].session
                               /\ rows[r].output = d.request[r].output
                               /\ rows[r].text = d.request[r].text
    PROVE  DataInv([d EXCEPT !.request = rows, !.turn = x])
  <1> DEFINE f == [d EXCEPT !.request = rows, !.turn = x]
  <1>1. /\ f \in Database /\ f.request = rows /\ f.turn = x /\ f.turns = d.turns
        /\ f.marks = d.marks /\ f.events = d.events
    BY DEF DataInv, Database
  <1> HIDE DEF f
  <1>2. SameTurnOrNone(d, f)
    BY <1>1, TurnOfDatabase DEF SameTurnOrNone, DataInv, TurnSaw, TurnTyped, Covers, Active, NoTurn
  <1>3. RequestsGoOn(d, f)
    BY <1>1 DEF RequestsGoOn, Shows
  <1> QED
    BY <1>1, <1>2, <1>3, DataFrame DEF f

LEMMA SilenceEffect ==
    ASSUME StateInv, SilencePasses
    PROVE  /\ DataInv(db')
           /\ Active(db) <=> Active(db')
           /\ Active(db) => db'.turn = [db.turn EXCEPT !.quiet = TRUE] /\ db.turn \in Admission
                            /\ db'.turn \in Admission
           /\ ~Active(db) => db'.turn = db.turn
           /\ db'.unprojected = db.unprojected
           /\ SameRequests(db, db')
  <1> DEFINE rows == [r \in Streamed |-> IF Waiting(r) THEN [db.request[r] EXCEPT !.quiet = TRUE]
                                     ELSE db.request[r]]
             x == IF Active(db) THEN [db.turn EXCEPT !.quiet = TRUE] ELSE db.turn
  <1>1. db \in Database
    BY DEF StateInv, DataInv
  <1>2. \A r \in Streamed : Waiting(r) \in BOOLEAN
    BY DEF Waiting
  <1>3. /\ rows \in [Streamed -> RequestRow]
        /\ \A r \in Streamed : /\ rows[r].status = db.request[r].status
                               /\ rows[r].session = db.request[r].session
                               /\ rows[r].output = db.request[r].output
                               /\ rows[r].text = db.request[r].text
    <2>1. \A r \in Streamed : db.request[r] \in RequestRow
      BY <1>1 DEF Database
    <2>2. \A r \in Streamed :
             LET row == [db.request[r] EXCEPT !.quiet = TRUE] IN
             /\ row \in RequestRow /\ row.status = db.request[r].status
             /\ row.session = db.request[r].session /\ row.output = db.request[r].output
             /\ row.text = db.request[r].text
      BY <2>1 DEF RequestRow
    <2> QED
      BY <1>2, <2>1, <2>2
  <1>4. Active(db) => db.turn \in Admission /\ x \in Admission /\ x.no = db.turn.no
                      /\ x.seen = db.turn.seen
                      /\ x.status = db.turn.status /\ x.session = db.turn.session
    BY <1>1, TurnOfDatabase DEF Admission
  <1>5. ~Active(db) => x = NoTurn /\ db.turn = NoTurn
    BY <1>1, TurnOfDatabase
  <1>6. db' = [db EXCEPT !.request = rows, !.turn = x]
    BY DEF SilencePasses
  <1>7. Active(db) => db.turn # NoTurn /\ x # NoTurn
    BY <1>4, NoTurnIsNone
  <1>9. x = IF Active(db) THEN [db.turn EXCEPT !.quiet = TRUE] ELSE db.turn
    OBVIOUS
  <1> HIDE DEF rows, x
  <1>8. DataInv(db')
    <2>1. x \in Admission \cup {NoTurn}
      BY <1>4, <1>5
    <2> QED
      BY <1>3, <1>4, <1>5, <1>6, <1>7, <2>1, SilentData DEF StateInv
  <1>10. db'.turn = x /\ db'.request = rows /\ db'.unprojected = db.unprojected
    BY <1>1, <1>6 DEF Database
  <1>11. Active(db) <=> Active(db')
    BY <1>4, <1>5, <1>10 DEF Active
  <1> QED
    BY <1>3, <1>4, <1>8, <1>9, <1>10, <1>11 DEF SameRequests

LEMMA StateSilence ==
    ASSUME StateInv, SilencePasses
    PROVE  StateInv'
  BY SilenceEffect DEF SilencePasses, StateInv, PumpFits, RuntimeFits
\* What a hook tells of touches the admission and ends nothing.
LikeTurn(x, y) ==
    /\ y \in Admission
    /\ y.status = x.status /\ y.no = x.no /\ y.item = x.item /\ y.request = x.request
    /\ y.session = x.session /\ y.since = x.since /\ y.binding = x.binding
    /\ ~y.quiet /\ ~y.watched
Alike(d, f) ==
    /\ f.unprojected = d.unprojected
    /\ \A r \in Streamed : /\ f.request[r].status = d.request[r].status
                           /\ f.request[r].session = d.request[r].session
    /\ f.turn = d.turn \/ (Active(d) /\ LikeTurn(d.turn, f.turn))

LEMMA BumpIsLike == \A x \in Admission : LikeTurn(x, Bump(x))
  BY BumpOfTurn DEF LikeTurn

LEMMA ActedIsAlike ==
    ASSUME NEW d \in Database, Active(d), NEW f, NEW at, NEW id, Acted(d, f, at, id)
    PROVE  Alike(d, f)
  <1>1. PICK moved \in [at : Nat, id : Nat] : f.turn = [Bump(d.turn) EXCEPT !.seen = moved]
    BY DEF Acted
  <1>2. d.turn \in Admission
    BY TurnOfDatabase
  <1>3. LikeTurn(d.turn, f.turn)
    BY <1>1, <1>2, MovedTurn DEF LikeTurn
  <1> QED
    BY <1>3 DEF Acted, Alike

\* What it writes is of the admission's request, which its turn owned when it was observed.
Tells(h, r) == \A e \in db'.events : e \in db.events \/ (e.request = r /\ e.of = h.of)
TellsOwn(h) ==
    \/ db' = db
    \/ VerifyOwnership(db, h.request, h.session, h.seen) /\ Tells(h, h.request)
LEMMA ReportEffect ==
    ASSUME StateInv, NEW h \in hooks, HookReports(h)
    PROVE  DataInv(db') /\ Alike(db, db') /\ TellsOwn(h)
  <1> DEFINE r == h.request
             e == Event(h, h.kind, FALSE)
             told == Append(db, r, e)
             f == RecordActivity(told, r, h.at, h.id)
             go == /\ db.request[r].status = "started" /\ VerifyOwnership(db, r, h.session, h.at)
                   /\ ~Written(db, r, h, h.kind)
  <1>1. h \in HookProcess /\ HookFits(h, clock) /\ db \in Database /\ DataInv(db)
    BY DEF StateInv, HooksFit, DataInv
  <1>2. r \in Streamed /\ h.kind \in {"tool", "post"} /\ h.kind \in Kinds /\ h.at = h.seen
        /\ h.at \in Nat /\ h.id \in Nat
    BY <1>1 DEF HookReports, HookFits, StepsOf, HookProcess, Kinds
  <1>3. CASE ~go
    <2>1. db' = db
      BY <1>3 DEF HookReports
    <2> QED
      BY <1>1, <2>1 DEF Alike, TellsOwn
  <1>4. CASE go
    <2>1. db' = IF h.kind = "tool" THEN f ELSE told
      BY <1>4 DEF HookReports
    <2>2. Active(db) /\ db.request[r].status \in Open
      BY <1>4 DEF VerifyOwnership, Started, Active, Open
    <2>3. /\ [e EXCEPT !.request = r] \in EventOf
          /\ e \in EventOf /\ e.request = r
          /\ e.id = h.id /\ e.part = h.kind /\ e.late = FALSE /\ e.at = h.seen /\ e.of = h.of
          /\ e.turn = db.turn.no /\ e.turn <= db.turns
      <3>1. db.turn.no \in Nat /\ db.turn.no <= db.turns
        BY <2>2 DEF StateInv, DataInv, TurnSaw, Database
      <3> QED
        BY <1>1, <1>2, <2>2, <3>1 DEF Event, EventOf, HookProcess
    <2>4. \A o \in db.events : ~(o.request = r /\ o.id = e.id /\ o.part = e.part)
      BY <1>4, <2>3 DEF Written
    <2>9. VerifyOwnership(db, r, h.session, h.seen)
      BY <1>2, <1>4
    <2> HIDE DEF e, go
    <2>5. /\ told \in Database /\ told.turn = db.turn /\ told.events = db.events \cup {e}
          /\ told.unprojected = db.unprojected /\ SameRequests(db, told)
      <3>1. [e EXCEPT !.request = r] = e
        BY <2>3 DEF EventOf
      <3> QED
        BY <1>1, <1>2, <2>3, <3>1, AppendEffect
    <2>6. Alike(db, told)
      BY <2>5 DEF Alike, SameRequests
    <2>7. CASE h.kind = "tool"
      <3>1. told = Longer(db, r, e)
        BY <2>3, <2>7 DEF Longer
      <3>2. DataInv(f)
        BY <1>1, <1>2, <2>2, <2>3, <2>4, <2>7, <3>1, DataTells
      <3>3. Active(told)
        BY <2>2, <2>5 DEF Active
      <3>4. Acted(told, f, h.at, h.id)
        BY <1>2, <2>5, <3>3, RecordActivityEffect
      <3>5. Alike(told, f)
        BY <2>5, <3>3, <3>4, ActedIsAlike
      <3>6. Alike(db, f)
        BY <2>5, <2>6, <3>5 DEF Alike, Active
      <3>7. TellsOwn(h)
        BY <2>1, <2>3, <2>5, <2>7, <2>9, <3>4 DEF Acted, TellsOwn, Tells
      <3> QED
        BY <2>1, <2>7, <3>2, <3>6, <3>7
    <2>8. CASE h.kind # "tool"
      <3>1. DataInv(told)
        BY <1>1, <1>2, <2>3, <2>8, DataAppend
      <3>2. TellsOwn(h)
        BY <2>1, <2>3, <2>5, <2>8, <2>9 DEF TellsOwn, Tells
      <3> QED
        BY <2>1, <2>6, <2>8, <3>1, <3>2
    <2> QED
      BY <2>7, <2>8
  <1> QED
    BY <1>3, <1>4

LEMMA AppendsEffect ==
    ASSUME StateInv, NEW h \in hooks, HookAppends(h)
    PROVE  DataInv(db') /\ Alike(db, db') /\ TellsOwn(h)
  <1> DEFINE r == h.request
             live == db.request[r].status = "started"
             e == Event(h, h.kind, ~live)
             told == Append(db, r, e)
             longer == IF h.kind = "answer" THEN [told EXCEPT !.request[r].output = @ + 1] ELSE told
             f == RecordActivity(longer, r, h.seen, h.id)
             dead == ~VerifyOwnership(db, r, h.session, h.seen) \/ Written(db, r, h, h.kind)
  <1>1. h \in HookProcess /\ HookFits(h, clock) /\ db \in Database /\ DataInv(db)
    BY DEF StateInv, HooksFit, DataInv
  <1>2. r \in Streamed /\ h.kind \in {"reasoning", "answer"} /\ h.kind \in Kinds
        /\ h.seen \in Nat /\ h.id \in Nat
    BY <1>1 DEF HookAppends, HookFits, StepsOf, HookProcess, Kinds
  <1>3. CASE dead
    <2>1. db' = db
      BY <1>3 DEF HookAppends
    <2> QED
      BY <1>1, <2>1 DEF Alike, TellsOwn
  <1>4. CASE ~dead
    <2>1. db' = IF live THEN f ELSE told
      BY <1>4 DEF HookAppends
    <2>2. Active(db)
      BY <1>4 DEF VerifyOwnership, Started, Active
    <2>3. /\ [e EXCEPT !.request = r] \in EventOf
          /\ e \in EventOf /\ e.request = r
          /\ e.id = h.id /\ e.part = h.kind /\ e.late = ~live /\ e.at = h.seen /\ e.of = h.of
          /\ e.turn = db.turn.no /\ e.turn <= db.turns
      <3>1. db.turn.no \in Nat /\ db.turn.no <= db.turns
        BY <2>2 DEF StateInv, DataInv, TurnSaw, Database
      <3>2. (~live) \in BOOLEAN
        OBVIOUS
      <3> HIDE DEF live
      <3> QED
        BY <1>1, <1>2, <2>2, <3>1, <3>2 DEF Event, EventOf, HookProcess
    <2>4. \A o \in db.events : ~(o.request = r /\ o.id = e.id /\ o.part = e.part)
      BY <1>4, <2>3 DEF Written
    <2>8. VerifyOwnership(db, r, h.session, h.seen)
      BY <1>4
    <2>10. e.part = h.kind
      BY <2>3
    <2> HIDE DEF e, dead
    <2>9. longer = Longer(db, r, e)
      BY <2>10 DEF Longer
    <2>5. /\ told \in Database /\ told.turn = db.turn /\ told.events = db.events \cup {e}
          /\ told.unprojected = db.unprojected /\ SameRequests(db, told)
      <3>1. [e EXCEPT !.request = r] = e
        BY <2>3 DEF EventOf
      <3> QED
        BY <1>1, <1>2, <2>3, <3>1, AppendEffect
    <2>6. CASE live
      <3>0. db.request[r].status \in Open
        BY <2>6 DEF Open
      <3> HIDE DEF longer, live
      <3>1. /\ longer \in Database /\ longer.turn = db.turn
            /\ longer.unprojected = db.unprojected /\ longer.events = db.events \cup {e}
            /\ \A o \in Streamed : /\ longer.request[o].status = db.request[o].status
                                   /\ longer.request[o].session = db.request[o].session
        BY <1>1, <1>2, <2>3, <2>9, LongerEffect
      <3>2. DataInv(f)
        BY <1>1, <1>2, <2>2, <2>3, <2>4, <2>6, <2>9, <3>0, DataTells
      <3>3. Active(longer)
        BY <2>2, <3>1 DEF Active
      <3>4. Acted(longer, f, h.seen, h.id)
        BY <1>2, <3>1, <3>3, RecordActivityEffect
      <3>5. Alike(longer, f)
        BY <3>1, <3>3, <3>4, ActedIsAlike
      <3>6. Alike(db, f)
        BY <3>1, <3>5 DEF Alike, Active
      <3>7. TellsOwn(h)
        BY <2>1, <2>3, <2>6, <2>8, <3>1, <3>4 DEF Acted, TellsOwn, Tells
      <3> QED
        BY <2>1, <2>6, <3>2, <3>6, <3>7
    <2>7. CASE ~live
      <3>1. DataInv(told)
        BY <1>1, <1>2, <2>3, <2>7, DataAppend
      <3>2. Alike(db, told)
        BY <2>5 DEF Alike, SameRequests
      <3>3. TellsOwn(h)
        BY <2>1, <2>3, <2>5, <2>7, <2>8 DEF TellsOwn, Tells
      <3> QED
        BY <2>1, <2>7, <3>1, <3>2, <3>3
    <2> QED
      BY <2>6, <2>7
  <1> QED
    BY <1>3, <1>4

LEMMA MarksEffect ==
    ASSUME StateInv, NEW h \in hooks, HookMarks(h)
    PROVE  DataInv(db') /\ Alike(db, db') /\ TellsOwn(h)
  <1> DEFINE r == h.request
             moved == RecordActivity(db, r, h.seen, h.id)
             mark == [request |-> r, turn |-> db.turn.no, id |-> h.id, session |-> h.session,
                      at |-> h.seen, output |-> db.request[r].output,
                      status |-> IF CausallyStale(db.turn, h) THEN "invalidated" ELSE "active"]
             f == WithMark(moved, r, mark)
  <1>1. h \in HookProcess /\ HookFits(h, clock) /\ db \in Database /\ DataInv(db)
    BY DEF StateInv, HooksFit, DataInv
  <1>2. r \in Streamed /\ h.kind \in {"reasoning", "answer"} /\ h.seen \in Nat /\ h.id \in Nat \ {0}
        /\ h.session \in Sessions
    BY <1>1 DEF HookMarks, HookFits, StepsOf, HookProcess, Kinds
  <1>3. \/ db' = db
        \/ VerifyOwnership(db, r, h.session, h.seen) /\ (db' = moved \/ db' = f)
    BY DEF HookMarks, WithMark
  <1>4. CASE db' = db
    BY <1>1, <1>4 DEF Alike, TellsOwn
  <1>5. CASE VerifyOwnership(db, r, h.session, h.seen) /\ (db' = moved \/ db' = f)
    <2>1. Active(db)
      BY <1>5 DEF VerifyOwnership, Started, Active
    <2>2. DataInv(moved)
      BY <1>1, <1>2, <2>1, DataActivity
    <2>3. Acted(db, moved, h.seen, h.id)
      BY <1>1, <1>2, <2>1, RecordActivityEffect
    <2>4. Alike(db, moved)
      BY <1>1, <2>1, <2>3, ActedIsAlike
    <2>5. mark \in Mark
      <3>1. db.turn \in Admission
        BY <1>1, <2>1, TurnOfDatabase
      <3>2. db.turn.no \in Nat /\ db.request[r].output \in Nat
        BY <1>1, <1>2, <3>1 DEF Admission, Database, RequestRow
      <3> QED
        BY <1>2, <3>2 DEF Mark
    <2> HIDE DEF moved, mark
    <2>6. DataInv(f)
      BY <1>2, <2>2, <2>5, DataMark
    <2>7. f.turn = moved.turn /\ f.request = moved.request /\ f.unprojected = moved.unprojected
          /\ f.events = moved.events
      BY <1>2, <2>2, <2>5, WithMarkEffect DEF DataInv
    <2>8. Alike(db, f)
      BY <2>4, <2>7 DEF Alike
    <2>9. TellsOwn(h)
      BY <1>5, <2>3, <2>7 DEF Acted, TellsOwn, Tells
    <2> QED
      BY <1>5, <2>2, <2>4, <2>6, <2>8, <2>9
  <1> QED
    BY <1>3, <1>4, <1>5

LEMMA StateTells ==
    ASSUME StateInv, NEW h \in hooks, HookReports(h) \/ HookAppends(h) \/ HookMarks(h)
    PROVE  StateInv'
  <1>1. DataInv(db')
    BY ReportEffect, AppendsEffect, MarksEffect
  <1>2. HooksFit(hooks', clock)
    <2>1. To(h, "done") \/ (h.step = "append" /\ To(h, "mark"))
      BY DEF HookReports, HookAppends, HookMarks
    <2>2. CASE To(h, "done")
      BY <2>2, EndsFit
    <2>3. CASE h.step = "append" /\ To(h, "mark")
      <3>1. h \in HookProcess /\ HookFits(h, clock)
        BY DEF StateInv, HooksFit
      <3>2. h.kind \in {"reasoning", "answer"} /\ h.request \in Streamed
        BY <2>3, <3>1 DEF HookFits, StepsOf, HookProcess, Kinds
      <3>3. "mark" \in StepsOf(h.kind)
        BY <3>2 DEF StepsOf
      <3> QED
        BY <2>3, <3>2, <3>3, StepsFit
    <2> QED
      BY <2>1, <2>2, <2>3
  <1> QED
    BY <1>1, <1>2 DEF HookReports, HookAppends, HookMarks, HookKeeps, StateInv, PumpFits, RuntimeFits
\* At most the request r ends, whatever it had.
AtMostEnds(d, f, r) ==
    /\ \A o \in Streamed : /\ f.request[o].session = d.request[o].session
                           /\ o # r => f.request[o].status = d.request[o].status
    /\ f.request[r].status \in {d.request[r].status} \cup Terminal
    /\ f.turn = d.turn /\ f.unprojected = d.unprojected

LEMMA FailIsEnd ==
    ASSUME NEW d \in Database, NEW r \in Streamed
    PROVE  AtMostEnds(d, FailRun(d, r), r) /\ FailRun(d, r).request[r].status \in Terminal
           /\ FailRun(d, r) \in Database /\ FailRun(d, r).events = d.events
  <1> DEFINE f == FailRun(d, r)
  <1>1. d.request[r].status \notin Open => f = d
    BY FailRunEffect
  <1>2. d.request[r].status \in Open => EndsAs(d, f, r, "failed")
    BY FailRunEffect
  <1>3. d.request[r].status \in Open \cup Terminal
    BY DEF Database, RequestRow
  <1> HIDE DEF f
  <1>4. AtMostEnds(d, f, r) /\ f.request[r].status \in Terminal /\ f \in Database /\ f.events = d.events
    BY <1>1, <1>2, <1>3 DEF AtMostEnds, EndsAs, OtherRequests, Terminal
  <1> QED
    BY <1>4 DEF f

LEMMA CompleteIsEnd ==
    ASSUME NEW d \in Database, NEW r \in Streamed, NEW text \in Texts \cup {"shown"}
    PROVE  AtMostEnds(d, CompleteRun(d, r, text), r)
           /\ CompleteRun(d, r, text).request[r].status \in Terminal
           /\ CompleteRun(d, r, text) \in Database /\ CompleteRun(d, r, text).events = d.events
  <1> DEFINE f == CompleteRun(d, r, text)
  <1>1. d.request[r].status \notin Open => f = d
    BY CompleteRunEffect
  <1>2. d.request[r].status \in Open => EndsAs(d, f, r, "completed")
    BY CompleteRunEffect
  <1>3. d.request[r].status \in Open \cup Terminal
    BY DEF Database, RequestRow
  <1> HIDE DEF f
  <1>4. AtMostEnds(d, f, r) /\ f.request[r].status \in Terminal /\ f \in Database /\ f.events = d.events
    BY <1>1, <1>2, <1>3 DEF AtMostEnds, EndsAs, OtherRequests, Terminal
  <1> QED
    BY <1>4 DEF f

\* What an admission with a request leaves when it ends.
Leaves(d, f, s, at) ==
    /\ f.turn = NoTurn
    /\ d.turn.request = NoRequest => f.unprojected = d.unprojected
    /\ d.turn.request # NoRequest => f.unprojected =
            d.unprojected \cup {[session |-> s, request |-> d.turn.request, at |-> at]}
    /\ \A o \in Streamed : /\ f.request[o].session = d.request[o].session
                           /\ o # d.turn.request => f.request[o].status = d.request[o].status
    /\ d.turn.request # NoRequest => f.request[d.turn.request].status \in Terminal

Closes(h, r) == Become(h, [h EXCEPT !.step = "close", !.request = r])
Finished(h) ==
    LET r == db.turn.request IN
    \/ /\ ~Active(db) /\ h.request # NoRequest
       /\ AtMostEnds(db, db', h.request) /\ To(h, "close")
    \/ /\ db' = db /\ To(h, "done")
       /\ Active(db) \/ h.request = NoRequest
       /\ \/ ~Started(db, h.session) \/ Stale(db, h.at) \/ h.request \notin {NoRequest, r}
          \/ r # NoRequest /\ db.turn.binding = "bound" /\ db.request[r].session # h.session
          \/ r # NoRequest /\ db.turn.binding = "bound" /\ db.request[r].status \notin Open
    \/ /\ Started(db, h.session) /\ ~Stale(db, h.at) /\ h.request \in {NoRequest, r}
       /\ r = NoRequest /\ Leaves(db, db', h.session, h.at) /\ To(h, "done")
    \/ /\ Started(db, h.session) /\ ~Stale(db, h.at) /\ h.request \in {NoRequest, r}
       /\ r # NoRequest /\ Leaves(db, db', h.session, h.at)
       /\ Closes(h, r)

\* The Stop hook tells of its turn's request as long as that is open.
TellsEnd(h) ==
    \/ db'.events = db.events
    \/ ~Active(db) /\ h.request # NoRequest /\ Tells(h, h.request)
    \/ /\ Started(db, h.session) /\ ~Stale(db, h.at) /\ db.turn.request # NoRequest
       /\ db.turn.binding = "bound" /\ db.request[db.turn.request].status \in Open
       /\ Tells(h, db.turn.request)

LEMMA LegacyEnds ==
    ASSUME StateInv, NEW h \in hooks, HookFinishes(h), ~Active(db), h.request # NoRequest
    PROVE  DataInv(db') /\ Finished(h) /\ TellsEnd(h)
  <1> DEFINE r == h.request
             e == Event(h, "stop", FALSE)
             logged == Append(db, r, e)
  <1>1. h \in HookProcess /\ HookFits(h, clock) /\ db \in Database /\ DataInv(db) /\ r \in Streamed
        /\ h.text \in Texts
    BY DEF StateInv, HooksFit, DataInv, HookProcess
  <1>2. /\ To(h, "close")
        /\ \/ db' = FailRun(db, r)
           \/ db' = CompleteRun(logged, r, h.text)
           \/ db' = db
    BY DEF HookFinishes, To
  <1>3. [e EXCEPT !.request = r] \in EventOf /\ e.turn <= db.turns /\ e.part = "stop"
        /\ [e EXCEPT !.request = r].request = r /\ [e EXCEPT !.request = r].of = h.of
    <2>1. e = [request |-> r, id |-> h.id, part |-> "stop", of |-> h.of, at |-> h.seen,
               late |-> FALSE, turn |-> 0]
      BY DEF Event
    <2> HIDE DEF e
    <2>2. e \in EventOf
      BY <1>1, <2>1 DEF EventOf, HookProcess
    <2>4. e.request = r /\ e.of = h.of
      BY <2>1
    <2>3. [e EXCEPT !.request = r] = e
      BY <2>2, <2>4 DEF EventOf
    <2> QED
      BY <1>1, <2>1, <2>2, <2>3 DEF Database
  <1> HIDE DEF e
  <1>4. DataInv(logged)
    BY <1>1, <1>3, DataAppend
  <1>5. logged \in Database /\ logged.turn = db.turn /\ logged.unprojected = db.unprojected
        /\ SameRequests(db, logged)
        /\ logged.events = db.events \cup {[e EXCEPT !.request = r]}
    BY <1>1, <1>3, AppendEffect
  <1> HIDE DEF logged
  <1>6. h.text # "shown"
    BY <1>1 DEF Texts
  <1>7. CASE db' = FailRun(db, r)
    BY <1>1, <1>2, <1>7, DataFail, FailIsEnd DEF Finished, TellsEnd
  <1>8. CASE db' = CompleteRun(logged, r, h.text)
    <2>1. DataInv(db')
      BY <1>1, <1>4, <1>6, <1>8, DataComplete
    <2>2. AtMostEnds(logged, db', r) /\ db'.events = logged.events
      BY <1>1, <1>5, <1>8, CompleteIsEnd
    <2>3. AtMostEnds(db, db', r)
      BY <1>1, <1>5, <2>2 DEF AtMostEnds, SameRequests
    <2>4. TellsEnd(h)
      BY <1>3, <1>5, <2>2 DEF TellsEnd, Tells
    <2> QED
      BY <1>2, <2>1, <2>3, <2>4 DEF Finished
  <1>9. CASE db' = db
    BY <1>1, <1>2, <1>9 DEF Finished, AtMostEnds, TellsEnd
  <1> QED
    BY <1>2, <1>7, <1>8, <1>9

LEMMA EndLeaves ==
    ASSUME NEW d, DataInv(d), Active(d), NEW f, DataInv(f), f.turn = d.turn,
           f.unprojected = d.unprojected,
           \A o \in Streamed : /\ f.request[o].session = d.request[o].session
                               /\ o # d.turn.request => f.request[o].status = d.request[o].status,
           d.turn.request # NoRequest => f.request[d.turn.request].status \in Terminal,
           NEW s \in Sessions, NEW at \in Nat
    PROVE  DataInv(EndTurn(f, s, at)) /\ Leaves(d, EndTurn(f, s, at), s, at)
           /\ EndTurn(f, s, at).events = f.events
  <1> DEFINE g == EndTurn(f, s, at)
  <1>1. Active(f) /\ f \in Database
    BY DEF Active, DataInv
  <1>2. DataInv(g)
    BY <1>1, DataEndTurn
  <1>3. /\ g.turn = NoTurn /\ g.request = f.request /\ g.events = f.events
        /\ g.unprojected = IF f.turn.request = NoRequest THEN f.unprojected
                ELSE f.unprojected \cup {[session |-> s, request |-> f.turn.request, at |-> at]}
    BY <1>1, EndTurnEffect
  <1> HIDE DEF g
  <1>4. Leaves(d, g, s, at)
    BY <1>3 DEF Leaves
  <1> QED
    BY <1>2, <1>3, <1>4 DEF g

LEMMA TurnEnds ==
    ASSUME StateInv, NEW h \in hooks, HookFinishes(h), Active(db) \/ h.request = NoRequest
    PROVE  DataInv(db') /\ Finished(h) /\ TellsEnd(h)
  <1> DEFINE t == db.turn
             r == t.request
             shown == IF h.text = "none" THEN ValidCandidate(db, r) ELSE {}
             text == IF h.text # "none" THEN h.text ELSE "shown"
             e == Event(h, "stop", FALSE)
             told == IF db.request[r].status \in Open THEN Append(db, r, e) ELSE db
             out == \/ ~Started(db, h.session) \/ Stale(db, h.at)
                    \/ h.request \notin {NoRequest, r}
                    \/ r # NoRequest /\ t.binding = "bound" /\ db.request[r].session # h.session
  <1>1. h \in HookProcess /\ HookFits(h, clock) /\ db \in Database /\ DataInv(db)
        /\ h.session \in Sessions /\ h.at \in Nat /\ h.text \in Texts
    BY DEF StateInv, HooksFit, DataInv, HookProcess
  <1>2. CASE out
    BY <1>1, <1>2 DEF HookFinishes, Finished, TellsEnd
  <1>3. CASE ~out
    <2>1. Active(db) /\ Started(db, h.session) /\ ~Stale(db, h.at) /\ h.request \in {NoRequest, r}
      BY <1>3 DEF Started, Active
    <2>2. t \in Admission /\ r \in Streamed \cup {NoRequest}
      BY <1>1, <2>1, TurnOfDatabase DEF Admission
    <2>3. CASE r = NoRequest
      <3>1. db' = EndTurn(db, h.session, h.at) /\ To(h, "done")
        BY <1>3, <2>1, <2>3 DEF HookFinishes
      <3>2. DataInv(db') /\ Leaves(db, db', h.session, h.at) /\ db'.events = db.events
        BY <1>1, <2>1, <2>3, <3>1, EndLeaves
      <3> QED
        BY <2>1, <2>3, <3>1, <3>2 DEF Finished, TellsEnd
    <2>4. ASSUME r # NoRequest
          PROVE  \/ /\ db' = EndTurn(CompleteRun(told, r, text), h.session, h.at)
                    /\ Become(h, [h EXCEPT !.step = "close", !.request = r])
                    /\ text = "shown" => ValidCandidate(db, r) # {}
                    /\ t.binding = "bound"
                 \/ /\ db' = EndTurn(FailRun(db, r), h.session, h.at)
                    /\ Become(h, [h EXCEPT !.step = "close", !.request = r])
                 \/ t.binding = "bound" /\ ~CanComplete(db, r, text) /\ db' = db /\ To(h, "done")
      <3>1. \/ /\ t.binding = "bound" /\ (h.text # "none" \/ shown # {})
               /\ IF CanComplete(db, r, text)
                  THEN /\ db' = EndTurn(CompleteRun(told, r, text), h.session, h.at)
                       /\ Become(h, [h EXCEPT !.step = "close", !.request = r])
                  ELSE db' = db /\ To(h, "done")
            \/ /\ db' = EndTurn(FailRun(db, r), h.session, h.at)
               /\ Become(h, [h EXCEPT !.step = "close", !.request = r])
        BY <1>3, <2>1, <2>4 DEF HookFinishes
      <3>2. text = "shown" => h.text = "none"
        BY <1>1 DEF Texts
      <3>3. h.text # "none" \/ shown # {} => (text = "shown" => ValidCandidate(db, r) # {})
        BY <3>2
      <3> HIDE DEF shown, text, told, e
      <3> QED
        BY <3>1, <3>3
    <2>5. CASE r # NoRequest
      <3>1. r \in Streamed
        BY <2>2, <2>5
      <3>2. text \in Texts \cup {"shown"}
        BY <1>1
      <3>3. [e EXCEPT !.request = r] \in EventOf /\ e.part = "stop" /\ e.turn <= db.turns
            /\ [e EXCEPT !.request = r].part = "stop"
            /\ [e EXCEPT !.request = r].request = r /\ [e EXCEPT !.request = r].of = h.of
        <4>1. db.turn.no \in Nat /\ db.turn.no <= db.turns
          BY <1>1, <2>1 DEF DataInv, TurnSaw, Database
        <4> QED
          BY <1>1, <2>1, <3>1, <4>1 DEF Event, EventOf, HookProcess
      <3> HIDE DEF e
      <3>4. /\ DataInv(told) /\ told \in Database /\ told.turn = db.turn
            /\ told.unprojected = db.unprojected /\ SameRequests(db, told)
            /\ told.marks = db.marks
            /\ \A x \in told.events : x \in db.events \/ x.part = "stop"
            /\ \/ told.events = db.events
               \/ /\ db.request[r].status \in Open
                  /\ \A x \in told.events : x \in db.events \/ (x.request = r /\ x.of = h.of)
        <4>1. CASE db.request[r].status \in Open
          <5>1. told = Append(db, r, e)
            BY <4>1
          <5>2. DataInv(told)
            BY <1>1, <3>1, <3>3, <5>1, DataAppend
          <5>3. /\ told \in Database /\ told.turn = db.turn
                /\ told.unprojected = db.unprojected /\ SameRequests(db, told)
                /\ told.marks = db.marks
                /\ told.events = db.events \cup {[e EXCEPT !.request = r]}
            BY <1>1, <3>1, <3>3, <5>1, AppendEffect
          <5> QED
            BY <3>3, <4>1, <5>2, <5>3
        <4>2. CASE db.request[r].status \notin Open
          BY <1>1, <4>2 DEF SameRequests
        <4> QED
          BY <4>1, <4>2
      <3> HIDE DEF told, text
      <3>5. CASE /\ db' = EndTurn(CompleteRun(told, r, text), h.session, h.at)
                 /\ Become(h, [h EXCEPT !.step = "close", !.request = r])
                 /\ text = "shown" => ValidCandidate(db, r) # {}
                 /\ t.binding = "bound"
        <4>1. ASSUME text = "shown"
              PROVE  \E m \in told.marks : IsLast(told, r, m)
          <5>1. PICK m \in ValidCandidate(db, r) : TRUE
            BY <3>5, <4>1
          <5>2. m \in db.marks /\ IsLast(db, r, m)
            BY <1>1, <2>1, <3>1, <5>1, ValidIsLast
          <5>3. IsLast(told, r, m)
            BY <3>1, <3>4, <5>2 DEF IsLast, ActiveMark, Does, SameRequests
          <5> QED
            BY <3>4, <5>2, <5>3
        <4>2. DataInv(CompleteRun(told, r, text))
          BY <3>1, <3>2, <3>4, <4>1, DataComplete
        <4> DEFINE f == CompleteRun(told, r, text)
        <4>3. AtMostEnds(told, f, r) /\ f.request[r].status \in Terminal /\ f.events = told.events
          BY <3>1, <3>2, <3>4, CompleteIsEnd
        <4> HIDE DEF f
        <4>4. DataInv(EndTurn(f, h.session, h.at)) /\ Leaves(db, EndTurn(f, h.session, h.at), h.session, h.at)
          <5>1. DataInv(f)
            BY <4>2 DEF f
          <5>2. /\ f.turn = db.turn /\ f.unprojected = db.unprojected
                /\ \A o \in Streamed : /\ f.request[o].session = db.request[o].session
                                       /\ o # db.turn.request =>
                                            f.request[o].status = db.request[o].status
            BY <3>4, <4>3 DEF AtMostEnds, SameRequests
          <5> QED
            BY <1>1, <2>1, <4>3, <5>1, <5>2, EndLeaves
        <4>5. EndTurn(f, h.session, h.at).events = told.events
          <5>1. f \in Database /\ f.turn = db.turn /\ f.events = told.events
            BY <3>4, <4>2, <4>3 DEF AtMostEnds, DataInv, f
          <5>2. Active(f)
            BY <2>1, <5>1 DEF Active
          <5> QED
            BY <1>1, <5>1, <5>2, EndTurnEffect
        <4>6. TellsEnd(h)
          BY <2>1, <2>5, <3>4, <3>5, <4>5 DEF TellsEnd, Tells, f
        <4> QED
          BY <2>1, <2>5, <3>5, <4>4, <4>6 DEF Finished, Closes, f
      <3>6. CASE /\ db' = EndTurn(FailRun(db, r), h.session, h.at)
                 /\ Become(h, [h EXCEPT !.step = "close", !.request = r])
        <4> DEFINE f == FailRun(db, r)
        <4>1. DataInv(f)
          BY <1>1, <3>1, DataFail
        <4>2. AtMostEnds(db, f, r) /\ f.request[r].status \in Terminal /\ f.events = db.events
          BY <1>1, <3>1, FailIsEnd
        <4> HIDE DEF f
        <4>3. DataInv(EndTurn(f, h.session, h.at)) /\ Leaves(db, EndTurn(f, h.session, h.at), h.session, h.at)
              /\ EndTurn(f, h.session, h.at).events = db.events
          <5>1. /\ f.turn = db.turn /\ f.unprojected = db.unprojected
                /\ \A o \in Streamed : /\ f.request[o].session = db.request[o].session
                                       /\ o # db.turn.request =>
                                            f.request[o].status = db.request[o].status
            BY <4>2 DEF AtMostEnds
          <5> QED
            BY <1>1, <2>1, <4>1, <4>2, <5>1, EndLeaves
        <4> QED
          BY <2>1, <2>5, <3>6, <4>3 DEF Finished, Closes, TellsEnd, f
      <3>7. CASE t.binding = "bound" /\ ~CanComplete(db, r, text) /\ db' = db /\ To(h, "done")
        <4>1. db.request[r].status \notin Open
          BY <3>7 DEF CanComplete
        <4> QED
          BY <1>1, <2>1, <2>5, <3>7, <4>1 DEF Finished, TellsEnd
      <3> QED
        BY <2>4, <2>5, <3>5, <3>6, <3>7
    <2> QED
      BY <2>3, <2>5
  <1> QED
    BY <1>2, <1>3
LEMMA StateFinishes ==
    ASSUME StateInv, NEW h \in hooks, HookFinishes(h)
    PROVE  StateInv' /\ Finished(h) /\ TellsEnd(h)
  <1>1. DataInv(db') /\ Finished(h)
    BY LegacyEnds, TurnEnds
  <1>11. TellsEnd(h)
    BY LegacyEnds, TurnEnds
  <1>2. h \in HookProcess /\ HookFits(h, clock) /\ db \in Database /\ HooksFit(hooks, clock)
    BY DEF StateInv, HooksFit, DataInv
  <1>3. h.kind = "stop" /\ h.step = "finish"
    BY <1>2 DEF HookFinishes, HookFits, StepsOf, HookProcess, Kinds
  <1>4. "close" \in StepsOf(h.kind)
    BY <1>3 DEF StepsOf
  <1>5. ASSUME To(h, "done")
        PROVE  HooksFit(hooks', clock)
    BY <1>5, EndsFit
  <1>6. ASSUME NEW r \in Streamed, Closes(h, r)
        PROVE  HooksFit(hooks', clock)
    <2> DEFINE g == [h EXCEPT !.step = "close", !.request = r]
    <2>1. g \in HookProcess /\ HookFits(g, clock)
      BY <1>2, <1>3, <1>4 DEF HookProcess, HookFits
    <2> HIDE DEF g
    <2> QED
      BY <1>2, <1>6, <2>1, BecomesFits DEF g, Closes
  <1>7. ASSUME h.request # NoRequest, To(h, "close")
        PROVE  HooksFit(hooks', clock)
    <2>1. h.request \in Streamed
      BY <1>2, <1>7 DEF HookProcess
    <2> QED
      BY <1>4, <1>7, <2>1, StepsFit
  <1>8. Active(db) => db.turn.request \in Streamed \cup {NoRequest}
    BY <1>2, TurnOfDatabase DEF Admission
  <1>9. Started(db, h.session) => Active(db)
    BY DEF Started, Active
  <1>12. \/ To(h, "done")
         \/ h.request # NoRequest /\ To(h, "close")
         \/ \E r \in Streamed : Closes(h, r)
    BY <1>1, <1>8, <1>9 DEF Finished
  <1>10. HooksFit(hooks', clock)
    BY <1>5, <1>6, <1>7, <1>12
  <1> QED
    BY <1>1, <1>10, <1>11 DEF HookFinishes, HookKeeps, StateInv, PumpFits, RuntimeFits

LEMMA StateStarts ==
    ASSUME StateInv, NEW h \in hooks, HookStarts(h)
    PROVE  StateInv'
  <1> DEFINE started == StartTurn(db, h.session, h.at)
  <1>1. h \in HookProcess /\ HookFits(h, clock) /\ DataInv(db) /\ h.session \in Sessions
        /\ h.at \in Nat
    BY DEF StateInv, HooksFit, HookProcess
  <1>2. DataInv(started)
    BY <1>1, DataStart
  <1>3. CASE To(h, "done") /\ UNCHANGED <<db, file>>
    BY <1>3, EndsFit DEF HookStarts, HookKeeps, StateInv, PumpFits, RuntimeFits
  <1>4. CASE h.kind = "prompt" /\ db' = started /\ To(h, "bind") /\ UNCHANGED file
    <2>1. "bind" \in StepsOf(h.kind)
      BY <1>4 DEF StepsOf
    <2>2. HooksFit(hooks', clock)
      BY <1>4, <2>1, StepsFit
    <2> QED
      BY <1>2, <1>4, <2>2 DEF HookStarts, HookKeeps, StateInv, PumpFits, RuntimeFits
  <1>5. CASE h.kind # "prompt" /\ Resolve(started, h)
    <2>1. DataInv(db') /\ FilesFit(file') /\ HooksFit(hooks', clock)
      BY <1>2, <1>5, ResolveFits
    <2> QED
      BY <2>1 DEF HookStarts, HookKeeps, StateInv, PumpFits, RuntimeFits
  <1> QED
    BY <1>3, <1>4, <1>5 DEF HookStarts

LEMMA TouchCases ==
    ASSUME StateInv, NEW h \in hooks, HookTouches(h)
    PROVE  /\ h.kind \notin {"prompt", "stop", "tool"}
           /\ \/ /\ Started(db, h.session) /\ ~Stale(db, h.at) /\ Active(db)
                 /\ Resolve(WithTurn(db, Bump(db.turn)), h)
                 /\ DataInv(WithTurn(db, Bump(db.turn)))
              \/ To(h, "done") /\ UNCHANGED <<db, file>> /\ Active(db)
              \/ ~Active(db) /\ Resolve(db, h)
  <1>1. h \in HookProcess /\ HookFits(h, clock) /\ DataInv(db)
    BY DEF StateInv, HooksFit
  <1>2. h.kind \notin {"prompt", "stop", "tool"}
    BY <1>1 DEF HookTouches, HookFits, StepsOf
  <1>3. CASE Started(db, h.session) /\ ~Stale(db, h.at)
    <2>1. Active(db)
      BY <1>3 DEF Started, Active
    <2>2. [db EXCEPT !.turn = Bump(@)] = WithTurn(db, Bump(db.turn))
      BY DEF WithTurn
    <2>3. Resolve([db EXCEPT !.turn = Bump(@)], h)
      BY <1>3 DEF HookTouches
    <2> QED
      BY <1>1, <1>2, <1>3, <2>1, <2>2, <2>3, DataBump
  <1>4. CASE ~(Started(db, h.session) /\ ~Stale(db, h.at))
    BY <1>2, <1>4 DEF HookTouches
  <1> QED
    BY <1>3, <1>4

LEMMA StateTouches ==
    ASSUME StateInv, NEW h \in hooks, HookTouches(h)
    PROVE  StateInv'
  <1>1. ASSUME NEW d, DataInv(d), Resolve(d, h)
        PROVE  DataInv(db') /\ FilesFit(file') /\ HooksFit(hooks', clock)
    BY <1>1, TouchCases, ResolveFits
  <1>2. DataInv(db)
    BY DEF StateInv
  <1>3. CASE To(h, "done") /\ UNCHANGED <<db, file>>
    BY <1>3, EndsFit DEF HookTouches, HookKeeps, StateInv, PumpFits, RuntimeFits
  <1>4. CASE DataInv(db') /\ FilesFit(file') /\ HooksFit(hooks', clock)
    BY <1>4 DEF HookTouches, HookKeeps, StateInv, PumpFits, RuntimeFits
  <1> QED
    BY <1>1, <1>2, <1>3, <1>4, TouchCases

LEMMA StateStopReads ==
    ASSUME StateInv, NEW h \in hooks, StopReadsFile(h)
    PROVE  StateInv'
  <1>1. DataInv(db') /\ FilesFit(file') /\ HooksFit(hooks', clock)
    BY ResolveFits DEF StopReadsFile, StateInv
  <1> QED
    BY <1>1 DEF StopReadsFile, HookKeeps, StateInv, PumpFits, RuntimeFits

LEMMA StateBinds ==
    ASSUME StateInv, NEW h \in hooks, PromptBinds(h)
    PROVE  StateInv'
  <1>1. h \in HookProcess /\ HookFits(h, clock) /\ DataInv(db) /\ h.session \in Sessions
    BY DEF StateInv, HooksFit, HookProcess
  <1>2. h.kind = "prompt"
    BY <1>1 DEF PromptBinds, HookFits, StepsOf, HookProcess, Kinds
  <1>3. "bound" \in StepsOf(h.kind) /\ "rejected" \in StepsOf(h.kind)
    BY <1>2 DEF StepsOf
  <1>4. DataInv(db')
    BY <1>1, DataBind, DataReject DEF PromptBinds
  <1>5. HooksFit(hooks', clock)
    <2>1. CASE CanBind(db, h.request, h.session)
      <3>1. h.request \in Streamed
        BY <2>1 DEF CanBind
      <3> QED
        BY <1>3, <2>1, <3>1, StepsFit DEF PromptBinds
    <2>2. CASE ~CanBind(db, h.request, h.session)
      BY <1>3, <2>2, StepsFit DEF PromptBinds
    <2> QED
      BY <2>1, <2>2
  <1> QED
    BY <1>4, <1>5 DEF PromptBinds, HookKeeps, StateInv, PumpFits, RuntimeFits

LEMMA StateWrites ==
    ASSUME StateInv, NEW h \in hooks, HookWritesFile(h)
    PROVE  StateInv'
  <1>1. h \in HookProcess /\ HookFits(h, clock) /\ FilesFit(file) /\ h.session \in Sessions
        /\ h.at \in Nat
    BY DEF StateInv, HooksFit, HookProcess
  <1>2. h.step = "bound" => h.request \in Streamed
    BY <1>1 DEF HookFits
  <1>3. FilesFit(file')
    BY <1>1, <1>2, WriteFits DEF HookWritesFile
  <1> QED
    BY <1>3, EndsFit DEF HookWritesFile, HookKeeps, StateInv, PumpFits, RuntimeFits

LEMMA DataProjects ==
    ASSUME NEW d, DataInv(d), NEW us \in SUBSET d.unprojected
    PROVE  LET f == [d EXCEPT !.unprojected = us] IN
           /\ DataInv(f)
           /\ f.turn = d.turn /\ f.request = d.request /\ f.unprojected = us
  <1> DEFINE f == [d EXCEPT !.unprojected = us]
  <1>1. /\ f \in Database /\ f.request = d.request /\ f.turn = d.turn /\ f.turns = d.turns
        /\ f.marks = d.marks /\ f.events = d.events /\ f.unprojected = us
    BY DEF DataInv, Database
  <1> HIDE DEF f
  <1>2. SameTurnOrNone(d, f)
    BY <1>1 DEF SameTurnOrNone, DataInv, TurnSaw, Active
  <1>3. RequestsGoOn(d, f)
    BY <1>1 DEF RequestsGoOn, Shows
  <1> QED
    BY <1>1, <1>2, <1>3, DataFrame DEF f

LEMMA StateCloses ==
    ASSUME StateInv, NEW h \in hooks, HookCloses(h)
    PROVE  StateInv'
  <1>1. h \in HookProcess /\ HookFits(h, clock) /\ FilesFit(file) /\ h.session \in Sessions
        /\ h.at \in Nat /\ DataInv(db) /\ h.request \in Streamed \cup {NoRequest}
    BY DEF StateInv, HooksFit, HookProcess
  <1>2. FilesFit(file')
    BY <1>1, WriteFits DEF HookCloses
  <1> DEFINE us == {p \in db.unprojected : ~(p.session = h.session /\ p.at = h.at)}
  <1>3. db' = [db EXCEPT !.unprojected = us]
    BY DEF HookCloses
  <1>4. DataInv(db')
    BY <1>1, <1>3, DataProjects
  <1> QED
    BY <1>2, <1>4, EndsFit DEF HookCloses, HookKeeps, StateInv, PumpFits, RuntimeFits
\* What recoverRuntimeTurn, the dispatcher's pass and the supervisor do.
RecoveryEnds(d, r, shown) ==
    IF r = NoRequest \/ d.request[r].status \notin Open THEN d
    ELSE IF shown THEN CompleteRun(d, r, "shown") ELSE GivenUp(d, r)

LEMMA RecoverEffect ==
    ASSUME StateInv, RecoverTurn
    PROVE  /\ db'.events = db.events
           /\ DataInv(db') /\ clock' \in Nat \ {0} /\ clock <= clock'
           /\ \/ db' = db
              \/ /\ db.turn.status = "started" /\ db.turn.watched /\ db.turn.session \in Sessions
                 /\ clock' = clock + 1
                 /\ Leaves(db, db', db.turn.session, clock + 1)
  <1> DEFINE r == db.turn.request
             shown == r # NoRequest /\ db.turn.binding = "bound" /\ ValidCandidate(db, r) # {}
             ended == RecoveryEnds(db, r, shown)
  <1>1. DataInv(db) /\ db \in Database /\ clock \in Nat \ {0}
    BY DEF StateInv, DataInv
  <1>2. CASE ~(db.turn.status = "started" /\ db.turn.watched)
    <2>1. db' = db /\ clock' = clock
      BY <1>2 DEF RecoverTurn
    <2> QED
      BY <1>1, <2>1
  <1>3. CASE db.turn.status = "started" /\ db.turn.watched
    <2>1. Active(db) /\ db.turn.session \in Sessions
      BY <1>1, <1>3 DEF Active, DataInv, TurnSaw, TurnTyped
    <2>2. db.turn \in Admission /\ r \in Streamed \cup {NoRequest}
      BY <1>1, <2>1, TurnOfDatabase DEF Admission
    <2>3. db' = EndTurn(ended, db.turn.session, clock + 1) /\ clock' = clock + 1
      <3>1. CASE r = NoRequest \/ db.request[r].status \notin Open
        BY <1>3, <3>1 DEF RecoverTurn, RecoveryEnds
      <3>2. CASE ~(r = NoRequest \/ db.request[r].status \notin Open) /\ shown
        BY <1>3, <3>2 DEF RecoverTurn, RecoveryEnds, CompleteRun
      <3>3. CASE ~(r = NoRequest \/ db.request[r].status \notin Open) /\ ~shown
        BY <1>3, <3>3 DEF RecoverTurn, RecoveryEnds, GivenUp
      <3> QED
        BY <3>1, <3>2, <3>3
    <2>4. /\ DataInv(ended) /\ ended.events = db.events /\ ended.turn = db.turn /\ ended.unprojected = db.unprojected
          /\ \A o \in Streamed : /\ ended.request[o].session = db.request[o].session
                                 /\ o # db.turn.request =>
                                      ended.request[o].status = db.request[o].status
          /\ db.turn.request # NoRequest => ended.request[db.turn.request].status \in Terminal
      <3>1. CASE r = NoRequest \/ db.request[r].status \notin Open
        <4>1. ended = db
          BY <3>1 DEF RecoveryEnds
        <4>2. r # NoRequest => db.request[r].status \in Terminal
          BY <1>1, <2>2, <3>1 DEF Database, RequestRow
        <4> QED
          BY <1>1, <4>1, <4>2
      <3>2. CASE ~(r = NoRequest \/ db.request[r].status \notin Open) /\ shown
        <4>1. ended = CompleteRun(db, r, "shown") /\ r \in Streamed
          BY <2>2, <3>2 DEF RecoveryEnds
        <4>2. PICK m \in ValidCandidate(db, r) : TRUE
          BY <3>2
        <4>3. m \in db.marks /\ IsLast(db, r, m)
          BY <1>1, <2>1, <4>1, <4>2, ValidIsLast
        <4> HIDE DEF ended
        <4>4. DataInv(ended)
          BY <1>1, <4>1, <4>3, DataComplete
        <4>5. AtMostEnds(db, ended, r) /\ ended.events = db.events /\ ended.request[r].status \in Terminal
          BY <1>1, <4>1, CompleteIsEnd
        <4> QED
          BY <4>1, <4>4, <4>5 DEF AtMostEnds
      <3>3. CASE ~(r = NoRequest \/ db.request[r].status \notin Open) /\ ~shown
        <4>1. ended = GivenUp(db, r) /\ r \in Streamed /\ db.request[r].status \in Open
          BY <2>2, <3>3 DEF RecoveryEnds
        <4> HIDE DEF ended
        <4>2. DataInv(ended)
          BY <1>1, <4>1, DataGivenUp
        <4>3. EndsAs(db, ended, r, "failed")
          BY <1>1, <4>1, GivenUpEffect
        <4> QED
          BY <4>1, <4>2, <4>3 DEF EndsAs, OtherRequests, Terminal
      <3> QED
        BY <3>1, <3>2, <3>3
    <2> HIDE DEF ended
    <2>5. DataInv(EndTurn(ended, db.turn.session, clock + 1))
          /\ Leaves(db, EndTurn(ended, db.turn.session, clock + 1), db.turn.session, clock + 1)
          /\ EndTurn(ended, db.turn.session, clock + 1).events = db.events
      <3>1. clock + 1 \in Nat
        BY <1>1
      <3> QED
        BY <1>1, <2>1, <2>4, <3>1, EndLeaves
    <2> QED
      BY <1>1, <1>3, <2>1, <2>3, <2>5
  <1> QED
    BY <1>2, <1>3

LEMMA StateRecovers ==
    ASSUME StateInv, RecoverTurn
    PROVE  StateInv'
  <1>1. DataInv(db') /\ clock' \in Nat \ {0} /\ clock <= clock'
    BY RecoverEffect
  <1>2. HooksFit(hooks, clock')
    BY <1>1, LaterFits DEF StateInv
  <1>3. PumpFits'
    BY DEF RecoverTurn, Release, PumpFits
  <1> QED
    BY <1>1, <1>2, <1>3 DEF RecoverTurn, PumpKeeps, StateInv, RuntimeFits

LEMMA StateLooks ==
    ASSUME StateInv, NEW i \in Items, LookAtTurn(i)
    PROVE  /\ StateInv'
           /\ db' = WithTurn(db, [db.turn EXCEPT !.watched = TRUE])
           /\ [db.turn EXCEPT !.watched = TRUE] \in Admission
           /\ db'.turn = [db.turn EXCEPT !.watched = TRUE] /\ db'.request = db.request
           /\ db'.unprojected = db.unprojected
  <1> DEFINE x == [db.turn EXCEPT !.watched = TRUE]
  <1>1. DataInv(db) /\ db \in Database /\ Active(db)
    BY DEF StateInv, DataInv, LookAtTurn, Active
  <1>2. db.turn \in Admission /\ TurnTyped(db.turn)
    BY <1>1, TurnOfDatabase DEF DataInv, TurnSaw
  <1>3. x \in Admission /\ x.no = db.turn.no /\ x.seen = db.turn.seen /\ TurnTyped(x)
    BY <1>2 DEF Admission, TurnTyped
  <1>4. db' = WithTurn(db, x)
    BY DEF LookAtTurn, WithTurn
  <1> HIDE DEF x
  <1>5. DataInv(db')
    BY <1>1, <1>3, <1>4, DataTurn
  <1>6. PumpFits'
    BY DEF LookAtTurn, PumpFits, StateInv
  <1>7. StateInv'
    BY <1>5, <1>6 DEF LookAtTurn, PumpKeeps, StateInv, RuntimeFits
  <1>8. db'.turn = x /\ db'.request = db.request /\ db'.unprojected = db.unprojected
    BY <1>1, <1>3, <1>4, TurnIsWritten
  <1> QED
    BY <1>3, <1>4, <1>7, <1>8 DEF x

LEMMA StateProjects ==
    ASSUME StateInv, NEW p \in db.unprojected, Project(p)
    PROVE  StateInv'
  <1>1. p \in Projection /\ DataInv(db) /\ FilesFit(file)
    BY DEF StateInv, DataInv, Database
  <1>2. FilesFit(file')
    BY <1>1, WriteFits DEF Project, Projection
  <1>3. db' = [db EXCEPT !.unprojected = db.unprojected \ {p}]
    BY DEF Project
  <1>4. DataInv(db')
    BY <1>1, <1>3, DataProjects
  <1> QED
    BY <1>2, <1>4 DEF Project, PumpKeeps, StateInv, PumpFits, RuntimeFits

LEMMA StateUnblocks ==
    ASSUME StateInv, NEW i \in Items, Unblock(i)
    PROVE  StateInv'
  <1>1. PICK r \in Streamed : db' = FailRun(db, r)
    BY DEF Unblock, Blocking
  <1>2. DataInv(db')
    BY <1>1, DataFail DEF StateInv
  <1> QED
    BY <1>2 DEF Unblock, PumpKeeps, StateInv, PumpFits, RuntimeFits

LEMMA StateAdmits ==
    ASSUME StateInv, NEW i \in Items, Admit(i)
    PROVE  StateInv' /\ db' = Admitted(db, i, clock + 1)
  <1>1. DataInv(db) /\ clock + 1 \in Nat \ {0} /\ clock \in Nat /\ clock <= clock + 1
        /\ clock + 1 \in Nat
    BY DEF StateInv
  <1>2. db' = Admitted(db, i, clock + 1) /\ clock' = clock + 1
    BY DEF Admit, Admitted, NewTurn
  <1>3. DataInv(db')
    BY <1>1, <1>2, DataAdmitted
  <1>4. HooksFit(hooks, clock')
    BY <1>1, <1>2, LaterFits DEF StateInv
  <1>5. PumpFits'
    BY DEF Admit, PumpFits
  <1> QED
    BY <1>1, <1>2, <1>3, <1>4, <1>5 DEF Admit, PumpKeeps, StateInv, RuntimeFits

LEMMA StateSends ==
    ASSUME StateInv, Send
    PROVE  StateInv'
  <1>1. PumpFits'
    BY DEF Send, Release, PumpFits, StateInv
  <1>2. RuntimeFits'
    BY DEF Send, RuntimeFits, PumpFits, StateInv
  <1>3. conv' \in [Items -> {"pending", "delivered"}]
    BY DEF Send, StateInv
  <1> QED
    BY <1>1, <1>2, <1>3 DEF Send, StateInv

LEMMA DataReleases ==
    ASSUME NEW d, DataInv(d)
    PROVE  DataInv(WithTurn(d, NoTurn))
  <1> DEFINE f == WithTurn(d, NoTurn)
  <1>1. /\ f \in Database /\ f.turn = NoTurn
        /\ f.turns = d.turns /\ f.request = d.request /\ f.marks = d.marks
        /\ f.events = d.events
    BY TurnIsWritten DEF DataInv
  <1> HIDE DEF f
  <1>2. SameTurnOrNone(d, f)
    BY <1>1 DEF SameTurnOrNone, Active, NoTurn
  <1>3. RequestsGoOn(d, f)
    BY <1>1 DEF RequestsGoOn, Shows
  <1> QED
    BY <1>1, <1>2, <1>3, DataFrame DEF f

LEMMA SendFailsCases ==
    ASSUME StateInv, NEW pasted \in BOOLEAN, SendFails(pasted)
    PROVE  \/ /\ db.turn.status = "submitted" /\ db.turn.item = pump.item
              /\ db' = WithTurn(db, NoTurn) /\ UNCHANGED runtime
           \/ /\ ~(db.turn.status = "submitted" /\ db.turn.item = pump.item)
              /\ db' = db /\ UNCHANGED runtime
           \/ /\ pasted /\ db' = db
              /\ \/ UNCHANGED runtime
                 \/ runtime' = [runtime EXCEPT !.typed = @ \cup {pump.item}]
  <1>1. db.turn = (IF FALSE THEN NoTurn ELSE db.turn) /\ [db EXCEPT !.turn = db.turn] = db
    BY DEF StateInv, DataInv, Database
  <1> QED
    BY <1>1 DEF SendFails, WithTurn

LEMMA StateSendFails ==
    ASSUME StateInv, NEW pasted \in BOOLEAN, SendFails(pasted)
    PROVE  StateInv'
  <1>1. DataInv(db')
    BY SendFailsCases, DataReleases DEF StateInv
  <1>2. PumpFits'
    BY DEF SendFails, Release, PumpFits
  <1>3. RuntimeFits'
    BY DEF SendFails, RuntimeFits, PumpFits, StateInv
  <1> QED
    BY <1>1, <1>2, <1>3, FaultFits DEF SendFails, StateInv

LEMMA StateRecordsStart ==
    ASSUME StateInv, RecordStart
    PROVE  /\ StateInv' /\ pump.item \in Streamed
           /\ db'.turn = db.turn /\ db'.unprojected = db.unprojected
           /\ \A o \in Streamed : /\ db'.request[o].session = db.request[o].session
                                  /\ o # pump.item => db'.request[o].status = db.request[o].status
           /\ db'.request[pump.item].status = IF db.request[pump.item].status = "queued"
                                              THEN "started" ELSE db.request[pump.item].status
  <1> DEFINE r == pump.item
  <1>1. r \in Streamed /\ DataInv(db) /\ db \in Database
    BY DEF RecordStart, StateInv, PumpFits, DataInv
  <1>2. db' = StartRun(db, r)
    BY DEF RecordStart
  <1>3. db.request[r].status # "queued" => db' = db
    BY <1>1, <1>2, StartRunEffect
  <1>4. db.request[r].status = "queued" =>
            EndsAs(db, db', r, "started") /\ db'.request[r].text = db.request[r].text
    BY <1>1, <1>2, StartRunEffect
  <1>5. db.request[r].status = "queued" => DataInv(db')
    <2> SUFFICES ASSUME db.request[r].status = "queued"
                 PROVE  DataInv(db')
      OBVIOUS
    <2>1. ~Shows(db', r)
      BY <1>4 DEF EndsAs, Shows
    <2>2. db.request[r].status \in Open
      BY DEF Open
    <2> QED
      BY <1>1, <1>4, <2>1, <2>2, DataEnds
  <1>6. DataInv(db')
    BY <1>1, <1>3, <1>5
  <1>7. PumpFits'
    BY DEF RecordStart, Release, PumpFits
  <1>8. StateInv'
    BY <1>6, <1>7 DEF RecordStart, PumpKeeps, StateInv, RuntimeFits
  <1> QED
    BY <1>1, <1>3, <1>4, <1>8 DEF EndsAs, OtherRequests

LEMMA StatePumpDies ==
    ASSUME StateInv, PumpDies
    PROVE  StateInv'
  <1>1. PumpFits'
    BY DEF PumpDies, Release, PumpFits
  <1> QED
    BY <1>1, FaultFits DEF PumpDies, StateInv, RuntimeFits

LEMMA StateExpires ==
    ASSUME StateInv, ExpireStaleRuns
    PROVE  StateInv'
  <1>1. DataInv(db')
    BY DataFails DEF ExpireStaleRuns, StateInv
  <1> QED
    BY <1>1 DEF ExpireStaleRuns, StateInv, PumpFits, RuntimeFits
LEMMA StateInvariance ==
    ASSUME StateInv, [TurnsNext]_turnsVars
    PROVE  StateInv'
  <1>1. CASE UNCHANGED turnsVars
    BY <1>1 DEF turnsVars, StateInv, PumpFits, RuntimeFits
  <1>2. CASE \E i \in Items : BeginTurn(i)
    BY <1>2, StateBegins
  <1>3. CASE \E k \in Steps, at \in {clock, clock + 1} : Work(k, at)
    BY <1>3, StateWorks
  <1>4. CASE \E text \in Texts : StopTurn(text)
    BY <1>4, StateStops
  <1>5. CASE \E sent \in BOOLEAN : SendReply(sent) \/ SendFails(sent)
    BY <1>5, StateReplies, StateSendFails
  <1>6. CASE RuntimeRestarts \/ (\E h \in hooks : HookDies(h) \/ HookIsRetried(h))
    BY <1>6, StateRestarts, StateHookDies, StateRetries
  <1>7. CASE HookSteps
    BY <1>7, StateStarts, StateTouches, StateBinds, StateWrites, StateStopReads, StateTells,
       StateFinishes, StateCloses DEF HookSteps
  <1>8. CASE PumpSteps
    BY <1>8, StateLooks, StateUnblocks, StateAdmits, StateProjects, StateRecovers, StateSends,
       StateRecordsStart DEF PumpSteps
  <1>9. CASE PumpDies \/ SilencePasses \/ ExpireStaleRuns
    BY <1>9, StatePumpDies, StateSilence, StateExpires
  <1> QED
    BY <1>1, <1>2, <1>3, <1>4, <1>5, <1>6, <1>7, <1>8, <1>9 DEF TurnsNext

LEMMA StateAlways == TurnsSpec => []StateInv
  <1>1. TurnsInit => StateInv
    BY TurnsInitState
  <1>2. StateInv /\ [TurnsNext]_turnsVars => StateInv'
    BY StateInvariance
  <1> QED
    BY <1>1, <1>2, PTL DEF TurnsSpec

\* The rows of the database, the binding files, the dispatcher, the runtime and the hooks are
\* what ResponseTurns says they are, whatever is lost, retried or restarted.
THEOREM TurnTypes == TurnsSpec => []TurnsTypeOK
  <1>1. ASSUME StateInv
        PROVE  TurnsTypeOK
    <2>1. DataInv(db) /\ db \in Database
      BY <1>1 DEF StateInv, DataInv
    <2>2. \A i \in Streamed :
              /\ db.request[i].status \in Open \cup Terminal
              /\ db.request[i].session \in Sessions \cup {NoSession}
              /\ db.request[i].output \in Nat
      BY <2>1 DEF Database, RequestRow
    <2>3. /\ db.turn.status \in {"none", "submitted", "started"}
          /\ db.turn.status = "submitted" => db.turn.session = NoSession
          /\ db.turn.status = "started" => db.turn.session \in Sessions
      BY <2>1, TurnOfDatabase DEF DataInv, TurnSaw, TurnTyped, Active
    <2>4. \A s \in Sessions : file[s].mode \in {"none", "bound", "rejected", "closed"}
      BY <1>1 DEF StateInv, FilesFit, Binding
    <2>5. conv \in [Items -> {"pending", "delivered"}] /\ pump.item \in Items \cup {NoRequest}
      BY <1>1 DEF StateInv, PumpFits
    <2>6. runtime.typed \subseteq Items /\ runtime.doing \in Items \cup {NoRequest}
      BY <1>1 DEF StateInv, RuntimeFits
    <2>7. Cardinality(hooks) <= MaxInFlight
      BY <1>1 DEF StateInv, HooksFit
    <2> QED
      BY <2>2, <2>3, <2>4, <2>5, <2>6, <2>7 DEF TurnsTypeOK
  <1> QED
    BY <1>1, StateAlways, PTL

\* What the database says of the turns holds together however many hooks die, are retried or
\* come late and however often the runtime restarts: an answer that recovery took for the
\* final one was the last thing its turn did, no batch is shown twice, and a session has at
\* most one open request.
THEOREM DatabaseHoldsTogether ==
    TurnsSpec => [](RecoveredAnswerWasLast /\ OutputOnce /\ SessionHasOneRequest)
  <1>1. ASSUME StateInv
        PROVE  RecoveredAnswerWasLast /\ OutputOnce /\ SessionHasOneRequest
    <2>1. DataInv(db)
      BY <1>1 DEF StateInv
    <2>2. RecoveredAnswerWasLast
      BY <2>1 DEF DataInv, Shows, LastShown, Does, RecoveredAnswerWasLast
    <2>3. OutputOnce
      BY <2>1 DEF DataInv, ShownOf, OutputOnce
    <2>4. SessionHasOneRequest
      BY <2>1 DEF DataInv, OneRequest, SessionHasOneRequest
    <2> QED
      BY <2>2, <2>3, <2>4
  <1> QED
    BY <1>1, StateAlways, PTL
-----------------------------------------------------------------------------
(* The protocol between the agent, the hooks and the dispatcher, with at   *)
(* most one fault                                                          *)

Here(h) == h.session = runtime.session
Fresh(h) == h.seen >= db.turn.since
IsOpen(r) == db.request[r].status \in Open
Lives(kinds) == \E h \in hooks : Here(h) /\ h.kind \in kinds
Unfinished(h) == h.kind = "stop" /\ h.step \in {"resolve", "finish"}
Own == db.turn.status = "started" /\ db.turn.session = runtime.session
\* The admission's request has ended before it.
Void == db.turn.binding = "bound" /\ ~IsOpen(db.turn.request)
Past(s) == file[s].mode \in {"rejected", "closed"}

Times == /\ \A s \in Sessions : file[s].at <= clock
         /\ Active(db) => db.turn.since <= clock
         /\ \A u \in db.unprojected : u.at <= clock

\* The agent waits for the hooks of one phase before the next.
PromptAlone == \A p \in hooks : p.kind = "prompt" =>
    /\ Here(p) => runtime.prompted /\ runtime.doing = p.of
    /\ \A h \in hooks \ {p} : h.kind # "prompt"
                        /\ (h.session = p.session => h.kind = "post" /\ h.seen < p.seen)
StopAlone == \A p \in hooks : p.kind = "stop" =>
    \A h \in hooks \ {p} : h.session = p.session => h.kind = "post" /\ h.at <= p.at
Resting == runtime.doing = NoRequest => ~Lives({"prompt", "tool", "reasoning", "answer"})
Working == runtime.doing # NoRequest => ~Lives({"stop"})
OfDoing == \A h \in hooks : Here(h) =>
    /\ h.kind \in {"tool", "reasoning", "answer"} =>
            h.of = IF runtime.prompted THEN runtime.doing ELSE NoRequest
    /\ h.kind = "stop" => (h.of = NoRequest <=> ~runtime.prompted)
OneFault == /\ spent.faults <= 1
            /\ \A h \in hooks : Here(h) \/ (spent.faults = 1 /\ runtime.prompted)
            /\ (\E h \in hooks : ~Here(h)) => \A h \in hooks : h.of # NoRequest
            /\ ~runtime.prompted => spent.faults = 1
Phases == PromptAlone /\ StopAlone /\ Resting /\ Working /\ OfDoing /\ OneFault

TurnShape == Active(db) =>
    /\ db.turn.request = IF db.turn.item \in Streamed THEN db.turn.item ELSE NoRequest
    /\ db.turn.binding = "bound" =>
          /\ db.turn.status = "started" /\ db.turn.request \in Streamed
          /\ db.request[db.turn.request].session = db.turn.session
    /\ db.turn.status = "submitted" => db.turn.binding = "pending"
    /\ db.turn.watched => db.turn.quiet
    /\ db.unprojected = {}
    /\ conv[db.turn.item] = "pending" => \A o \in Items : conv[o] = "pending" => db.turn.item <= o

PumpShape ==
    /\ pump.step = "send" => /\ conv[pump.item] = "pending"
                             /\ \A o \in Items : conv[o] = "pending" => pump.item <= o
    /\ pump.step = "sent" => conv[pump.item] = "delivered"
    /\ pump.step \in {"send", "sent"} /\ Active(db) => ~db.turn.quiet /\ db.turn.item = pump.item

\* Whatever has begun for a request that is open belongs to its admission.
Touched(r) ==
    \/ conv[r] = "delivered" \/ db.request[r].status = "started"
    \/ db.request[r].session # NoSession
    \/ r \in runtime.typed \/ r = runtime.doing
    \/ pump.step \in {"send", "sent"} /\ pump.item = r
    \/ \E h \in hooks : h.of = r
TouchedIsAdmitted == \A r \in Streamed : IsOpen(r) /\ Touched(r) => Active(db) /\ db.turn.item = r

\* Nothing but its own prompt can start an admission that waits, unless that prompt was lost.
SubmittedWaits == db.turn.status = "submitted" =>
    /\ \A h \in hooks : Fresh(h) /\ h.of # NoRequest => h.kind = "prompt" /\ h.step = "start"
    /\ runtime.prompted /\ runtime.doing # NoRequest =>
          \E p \in hooks : Here(p) /\ p.kind = "prompt" /\ p.step = "start"

PromptTurn == \A p \in hooks : p.kind = "prompt" /\ Active(db) =>
    /\ Fresh(p)
    /\ p.step = "start" => db.turn.status = "submitted" \/ (db.turn.session = p.session /\ Void)
    /\ p.step # "start" => db.turn.status = "started" /\ db.turn.session = p.session
    /\ p.step = "bind" => (db.turn.since = p.seen /\ db.turn.binding = "pending") \/ Void
    /\ p.step = "bound" => /\ db.turn.since = p.seen /\ db.turn.binding = "bound"
                           /\ db.turn.request = p.request
    /\ p.step = "rejected" => db.turn.binding = "rejected" \/ Void

\* The prompt of a session that is gone.
OldPrompt == \A p \in hooks : p.kind = "prompt" /\ ~Here(p) =>
    /\ Active(db) /\ ~db.turn.quiet
    /\ runtime.typed = {} /\ runtime.doing = NoRequest /\ pump.step # "send"
BoundPrompt == \A p \in hooks : p.kind = "prompt" /\ p.step = "bound" =>
    Active(db) /\ ~db.turn.quiet
OldTurn == db.turn.status = "started" /\ ~Own =>
    runtime.typed = {} /\ runtime.doing = NoRequest /\ pump.step # "send"

\* An admission that outlives its turn lets no other conversation in, or its request is over.
Leftover == Own /\ runtime.doing = NoRequest /\ ~(\E h \in hooks : Here(h) /\ Unfinished(h)) =>
    (runtime.typed = {} /\ pump.step # "send") \/ Void
StopTurnIsOwn == \A h \in hooks :
    Unfinished(h) /\ db.turn.status = "started" /\ db.turn.session = h.session =>
        /\ Fresh(h)
        /\ h.step = "finish" => h.request \in {NoRequest, db.turn.request}

\* A binding file that says bound is that of the admission, or is about to be closed.
FileOfTurn == \A s \in Sessions : file[s].mode = "bound" =>
    \/ /\ db.turn.status = "started" /\ db.turn.session = s /\ db.turn.binding = "bound"
       /\ db.turn.request = file[s].request
    \/ \E u \in db.unprojected : u.session = s /\ u.at >= file[s].at
FileTimes == \A h \in hooks :
    /\ h.kind = "prompt" /\ file[h.session].mode \in {"none", "bound"} => file[h.session].at <= h.at
    /\ h.kind = "stop" /\ file[h.session].mode = "bound" => file[h.session].at <= h.at
StopFile == \A h \in hooks : h.kind = "stop" /\ h.of # NoRequest =>
    /\ h.step = "finish" => h.request \in {h.of, NoRequest}
    /\ h.step = "resolve" => file[h.session].mode # "none"
    /\ h.step = "resolve" /\ file[h.session].mode = "bound" => file[h.session].request = h.of
WorkFile == runtime.prompted /\ runtime.doing # NoRequest /\ ~Lives({"prompt"}) =>
    /\ file[runtime.session].mode # "none"
    /\ file[runtime.session].mode = "bound" => file[runtime.session].request = runtime.doing

\* A hook of another turn, or a turn of another conversation, finds the admission closed.
Stranger(h) == /\ db.turn.status = "started" /\ h.session = db.turn.session /\ Fresh(h)
               /\ h.of \notin {NoRequest, db.turn.item}
KeptOut(h) ==
    \/ db.turn.binding = "rejected"
    \/ /\ db.turn.binding = "pending"
       /\ h.kind = "prompt" /\ h.step = "bind" /\ db.turn.since = h.seen
    \/ Void /\ (\/ h.kind = "prompt" /\ h.step # "bound"
                \/ h.request # db.turn.request /\ Past(h.session))
StrangersKeptOut == \A h \in hooks : Stranger(h) => KeptOut(h)
StrangerAtWork == Own /\ runtime.prompted /\ runtime.doing \notin {NoRequest, db.turn.item} =>
    \/ db.turn.binding = "rejected"
    \/ (db.turn.binding = "pending" \/ Void) /\ Lives({"prompt"})
    \/ Void /\ Past(runtime.session)

\* Before any fault the parties take one conversation after the other.
CleanHooks == runtime.prompted /\ \A h \in hooks : h.of # NoRequest /\ Here(h)
CleanSend == pump.step = "send" =>
    /\ db.turn.status = "submitted" /\ db.turn.item = pump.item
    /\ runtime.typed = {} /\ runtime.doing = NoRequest /\ \A h \in hooks : ~Fresh(h)
CleanTyped == runtime.typed # {} =>
    /\ runtime.typed = {db.turn.item} /\ db.turn.status = "submitted" /\ ~db.turn.quiet
    /\ runtime.doing = NoRequest
CleanDoing == runtime.doing # NoRequest =>
    Active(db) /\ db.turn.item = runtime.doing /\ runtime.typed = {} /\ ~db.turn.watched
CleanPrompt == \A p \in hooks : p.kind = "prompt" => Active(db) /\ ~db.turn.quiet
CleanPending == \A i \in Items : conv[i] = "pending" =>
    /\ i \notin runtime.typed /\ i # runtime.doing /\ \A h \in hooks : h.of # i
    /\ i \in Streamed => db.request[i].session = NoSession /\ db.request[i].status # "started"
    /\ Active(db) /\ db.turn.item = i =>
          db.turn.status = "submitted" /\ pump.step = "send" /\ pump.item = i
CleanQueued == \A r \in Streamed : db.request[r].status = "queued" /\ conv[r] = "delivered" =>
    pump.step = "sent" /\ pump.item = r
Clean == spent.faults = 0 =>
    CleanHooks /\ CleanSend /\ CleanTyped /\ CleanDoing /\ CleanPrompt /\ CleanPending /\ CleanQueued

\* What still ends a request that is delivered and has not started: its turn goes on.
WaitsTyped(r) ==
    /\ db.turn.status = "submitted" /\ runtime.typed = {r} /\ runtime.doing = NoRequest
    /\ ~db.turn.quiet /\ db.request[r].session = NoSession
WaitsPrompt(r) ==
    /\ runtime.doing = r /\ runtime.typed = {} /\ db.request[r].session = NoSession
    /\ \E p \in hooks : /\ p.kind = "prompt" /\ file[runtime.session].at <= p.at
                        /\ \/ db.turn.status = "submitted" /\ p.step = "start" /\ ~db.turn.quiet
                           \/ Own /\ p.step = "bind" /\ db.turn.binding = "pending"
WaitsWork(r) ==
    /\ runtime.doing = r /\ runtime.typed = {} /\ Own /\ db.turn.binding = "bound"
    /\ \/ file[runtime.session].mode = "bound" /\ file[runtime.session].request = r
       \/ \E p \in hooks : /\ p.kind = "prompt" /\ p.step = "bound"
                           /\ file[runtime.session].at <= p.at
WaitsStop(r) ==
    /\ runtime.doing = NoRequest /\ runtime.typed = {} /\ Own /\ db.turn.binding = "bound"
    /\ \E h \in hooks :
          /\ h.kind = "stop" /\ h.of = r
          /\ \/ /\ h.step = "resolve"
                /\ file[runtime.session].mode = "bound" /\ file[runtime.session].request = r
             \/ h.step = "finish" /\ h.request = r
Waits(r) ==
    /\ Active(db) /\ db.turn.item = r /\ ~db.turn.watched /\ pump.step # "send"
    /\ runtime.prompted /\ \A h \in hooks : Here(h)
    /\ WaitsTyped(r) \/ WaitsPrompt(r) \/ WaitsWork(r) \/ WaitsStop(r)
QueuedWaits == \A r \in Streamed : db.request[r].status = "queued" /\ conv[r] = "delivered" =>
    \/ pump.step = "sent" /\ pump.item = r /\ spent.faults >= 1
    \/ Waits(r)

Protocol ==
    /\ Times /\ Phases /\ TurnShape /\ PumpShape /\ TouchedIsAdmitted /\ SubmittedWaits
    /\ PromptTurn /\ OldPrompt /\ BoundPrompt /\ OldTurn /\ Leftover /\ StopTurnIsOwn
    /\ FileOfTurn /\ FileTimes /\ StopFile /\ WorkFile /\ StrangersKeptOut /\ StrangerAtWork
    /\ Clean /\ QueuedWaits /\ ActivityStaysInItsTurn
HookRow(h) ==
    /\ h.kind \in {"prompt", "tool", "post", "reasoning", "answer", "stop"}
    /\ h.session \in Sessions /\ h.at \in Nat /\ h.seen \in Nat /\ h.seen <= h.at /\ h.at <= clock
    /\ h.of \in Items \cup {NoRequest} /\ h.request \in Streamed \cup {NoRequest}
    /\ h.kind \notin {"reasoning", "answer"} => h.seen = h.at
    /\ h.kind = "prompt" => /\ h.step \in {"start", "bind", "bound", "rejected"} /\ h.of \in Items
                            /\ h.request = IF h.of \in Streamed THEN h.of ELSE NoRequest
    /\ h.kind = "tool" => h.step \in {"start", "report"}
    /\ h.kind = "post" => h.step \in {"touch", "report"}
    /\ h.kind \in {"reasoning", "answer"} => h.step \in {"touch", "append", "mark"}
    /\ h.kind = "stop" => h.step \in {"resolve", "finish", "close"}
    /\ h.step \in {"bound", "report", "append", "mark", "close"} => h.request \in Streamed
RowsTyped ==
    /\ \A h \in hooks : HookRow(h)
    /\ \A r \in Streamed : /\ db.request[r].status \in {"queued", "started", "completed", "failed"}
                           /\ db.request[r].session \in Sessions \cup {NoSession}
    /\ db.turn.status \in {"none", "submitted", "started"}
    /\ db.turn.status # "none" =>
          /\ db.turn.item \in Items /\ db.turn.request \in Streamed \cup {NoRequest}
          /\ db.turn.since \in Nat /\ db.turn.binding \in {"pending", "bound", "rejected"}
          /\ db.turn.quiet \in BOOLEAN /\ db.turn.watched \in BOOLEAN
          /\ db.turn \in Admission
    /\ db.turn.status = "submitted" => db.turn.session = NoSession
    /\ db.turn.status = "started" => db.turn.session \in Sessions
    /\ db.unprojected \subseteq Projection
    /\ \A s \in Sessions : /\ file[s].mode \in {"none", "bound", "rejected", "closed"}
                           /\ file[s].at \in Nat
                           /\ file[s].mode = "bound" => file[s].request \in Streamed
    /\ conv \in [Items -> {"pending", "delivered"}]
    /\ pump.step \in {"rest", "recover", "send", "sent"} /\ pump.item \in Items \cup {NoRequest}
    /\ pump.step = "send" => pump.item \in Items
    /\ pump.step = "sent" => pump.item \in Streamed
    /\ runtime.session \in Sessions /\ runtime.typed \subseteq Items
    /\ runtime.doing \in Items \cup {NoRequest} /\ runtime.prompted \in BOOLEAN
    /\ clock \in Nat \ {0} /\ spent.steps \in Nat /\ spent.faults \in Nat
    /\ Streamed \subseteq Items /\ Items \subseteq Nat
    /\ NoRequest \notin Items /\ NoSession \notin Sessions

LEMMA StateRows ==
    ASSUME StateInv
    PROVE  RowsTyped
  <1>1. \A h \in hooks : HookRow(h)
    <2> SUFFICES ASSUME NEW h \in hooks
                 PROVE  HookRow(h)
      OBVIOUS
    <2>1. h \in HookProcess /\ HookFits(h, clock)
      BY DEF StateInv, HooksFit
    <2>2. h.kind \in {"prompt", "tool", "post", "reasoning", "answer", "stop"}
      BY <2>1 DEF HookProcess, Kinds
    <2>3. /\ h.kind = "prompt" => StepsOf(h.kind) = {"start", "bind", "bound", "rejected"}
          /\ h.kind = "tool" => StepsOf(h.kind) = {"start", "report"}
          /\ h.kind = "post" => StepsOf(h.kind) = {"touch", "report"}
          /\ h.kind \in {"reasoning", "answer"} => StepsOf(h.kind) = {"touch", "append", "mark"}
          /\ h.kind = "stop" => StepsOf(h.kind) = {"resolve", "finish", "close"}
      BY DEF StepsOf
    <2> QED
      BY <2>1, <2>2, <2>3 DEF HookFits, HookRow, HookProcess
  <1>2. db \in Database /\ TurnSaw(db)
    BY DEF StateInv, DataInv
  <1>3. \A r \in Streamed : /\ db.request[r].status \in {"queued", "started", "completed", "failed"}
                            /\ db.request[r].session \in Sessions \cup {NoSession}
    BY <1>2 DEF Database, RequestRow, Open, Terminal
  <1>4. /\ db.turn.status \in {"none", "submitted", "started"}
        /\ db.turn.status # "none" =>
              /\ db.turn.item \in Items /\ db.turn.request \in Streamed \cup {NoRequest}
              /\ db.turn.since \in Nat /\ db.turn.binding \in {"pending", "bound", "rejected"}
              /\ db.turn.quiet \in BOOLEAN /\ db.turn.watched \in BOOLEAN
              /\ db.turn \in Admission
        /\ db.turn.status = "submitted" => db.turn.session = NoSession
        /\ db.turn.status = "started" => db.turn.session \in Sessions
    BY <1>2, TurnOfDatabase DEF TurnSaw, TurnTyped, Active, Admission
  <1>5. db.unprojected \subseteq Projection
    BY <1>2 DEF Database
  <1>6. \A s \in Sessions : /\ file[s].mode \in {"none", "bound", "rejected", "closed"}
                            /\ file[s].at \in Nat
                            /\ file[s].mode = "bound" => file[s].request \in Streamed
    BY DEF StateInv, FilesFit, Binding
  <1>7. /\ conv \in [Items -> {"pending", "delivered"}]
        /\ pump.step \in {"rest", "recover", "send", "sent"} /\ pump.item \in Items \cup {NoRequest}
        /\ pump.step = "send" => pump.item \in Items
        /\ pump.step = "sent" => pump.item \in Streamed
    BY DEF StateInv, PumpFits
  <1>8. /\ runtime.session \in Sessions /\ runtime.typed \subseteq Items
        /\ runtime.doing \in Items \cup {NoRequest} /\ runtime.prompted \in BOOLEAN
        /\ clock \in Nat \ {0} /\ spent.steps \in Nat /\ spent.faults \in Nat
    BY DEF StateInv, RuntimeFits
  <1> QED
    BY <1>1, <1>3, <1>4, <1>5, <1>6, <1>7, <1>8, ItemsAssumption, NoneAssumption DEF RowsTyped

\* Requests that end: the agent's own reply, the dispatcher's gate, the supervisor's expiry.
Ends(d, f) ==
    /\ f.turn = d.turn /\ f.unprojected = d.unprojected /\ f.events = d.events
    /\ \A r \in Streamed : /\ f.request[r].session = d.request[r].session
                           /\ f.request[r].status \in {d.request[r].status} \cup Terminal

LEMMA ProtocolEnds ==
    ASSUME StateInv, Protocol, Ends(db, db'),
           UNCHANGED <<file, conv, pump, runtime, hooks, clock, spent>>
    PROVE  Protocol'
  <1>1. \A r \in Streamed : /\ db'.request[r].session = db.request[r].session
                            /\ IsOpen(r)' => IsOpen(r) /\ db'.request[r].status = db.request[r].status
                            /\ db'.request[r].status \in Open => db'.request[r].status = db.request[r].status
    BY DEF Ends, IsOpen, Open, Terminal
  <1>2. db'.turn = db.turn /\ db'.unprojected = db.unprojected /\ db'.events = db.events
        /\ UNCHANGED <<file, conv, pump, runtime, hooks, clock, spent>>
    BY DEF Ends
  <1>3. RowsTyped
    BY StateRows
  <1>4. (Active(db) <=> Active(db)') /\ (Own <=> Own') /\ (TurnShape /\ Void /\ Active(db) => Void')
    BY <1>1, <1>2, <1>3 DEF Active, Own, Void, TurnShape, RowsTyped
  <1>5. Times'
    BY <1>2, <1>4 DEF Protocol, Times
  <1>6. Phases'
    BY <1>2 DEF Protocol, Phases, PromptAlone, StopAlone, Resting, Working, OfDoing, OneFault, Here, Lives
  <1>7. TurnShape' /\ PumpShape'
    <2>1. TurnShape'
      BY <1>1, <1>2, <1>4 DEF Protocol, TurnShape
    <2>2. PumpShape'
      BY <1>1, <1>2, <1>4, <1>3 DEF Protocol, PumpShape, RowsTyped
    <2> QED
      BY <2>1, <2>2
  <1>8. TouchedIsAdmitted'
    BY <1>1, <1>2, <1>4 DEF Protocol, TouchedIsAdmitted, Touched, IsOpen, Open
  <1>9. SubmittedWaits'
    BY <1>2 DEF Protocol, SubmittedWaits, Fresh, Here
  <1>10. PromptTurn'
    BY <1>2, <1>4 DEF Protocol, PromptTurn, Fresh
  <1>11. OldPrompt' /\ BoundPrompt' /\ OldTurn'
    BY <1>2, <1>4 DEF Protocol, OldPrompt, BoundPrompt, OldTurn, Here
  <1>12. Leftover' /\ StopTurnIsOwn'
    BY <1>2, <1>4 DEF Protocol, Leftover, StopTurnIsOwn, Here, Unfinished, Fresh, Own, Active
  <1>13. FileOfTurn' /\ FileTimes' /\ StopFile' /\ WorkFile'
    BY <1>2 DEF Protocol, FileOfTurn, FileTimes, StopFile, WorkFile, Lives, Here
  <1>14. StrangersKeptOut' /\ StrangerAtWork'
    BY <1>2, <1>4 DEF Protocol, StrangersKeptOut, StrangerAtWork, Stranger, KeptOut, Own, Active, Lives, Here, Fresh, Past
  <1>15. Clean'
    BY <1>1, <1>2, <1>4 DEF Protocol, Clean, CleanHooks, CleanSend, CleanTyped, CleanDoing, CleanPrompt, CleanPending, CleanQueued, Here, Fresh, Open
  <1>16. QueuedWaits'
    BY <1>1, <1>2, <1>4 DEF Protocol, QueuedWaits, Waits, WaitsTyped, WaitsPrompt, WaitsWork, WaitsStop, Here, Open
  <1>17. ActivityStaysInItsTurn'
    BY <1>2 DEF Protocol, ActivityStaysInItsTurn
  <1> QED
    BY <1>5, <1>6, <1>7, <1>8, <1>9, <1>10, <1>11, <1>12, <1>13, <1>14, <1>15, <1>16, <1>17 DEF Protocol

-----------------------------------------------------------------------------
(* A hook process goes on with its next step, or ends. *)
SameHook(h, g) ==
    /\ g.kind = h.kind /\ g.session = h.session /\ g.at = h.at /\ g.seen = h.seen /\ g.of = h.of
HookEnds(h) == hooks' = hooks \ {h}
HookGoes(h, r, step) ==
    \E g : /\ SameHook(h, g) /\ g.request = r /\ g.step = step
           /\ hooks' = (hooks \ {h}) \cup {g}

LEMMA ToEnds ==
    ASSUME StateInv, NEW h \in hooks, To(h, "done")
    PROVE  HookEnds(h)
  <1>1. [h EXCEPT !.step = "done"].step = "done"
    BY DEF StateInv, HooksFit, HookProcess
  <1> QED
    BY <1>1 DEF To, Become, HookEnds

LEMMA ToGoes ==
    ASSUME StateInv, NEW h \in hooks, NEW step, step # "done", To(h, step)
    PROVE  HookGoes(h, h.request, step)
  <1> DEFINE g == [h EXCEPT !.step = step]
  <1>1. g.step = step /\ g.request = h.request /\ SameHook(h, g)
    BY DEF StateInv, HooksFit, HookProcess, SameHook
  <1>2. Become(h, g)
    BY DEF To
  <1> HIDE DEF g
  <1> QED
    BY <1>1, <1>2 DEF Become, HookGoes

LEMMA ToldGoes ==
    ASSUME StateInv, NEW h \in hooks, NEW r, Become(h, Told(h, r))
    PROVE  HookGoes(h, r, AfterResolve(h))
  <1> DEFINE g == Told(h, r)
  <1>1. g.step = AfterResolve(h) /\ g.request = r /\ SameHook(h, g) /\ AfterResolve(h) # "done"
    BY DEF StateInv, HooksFit, HookProcess, SameHook, Told, AfterResolve
  <1> HIDE DEF g
  <1>2. Become(h, g)
    BY DEF g
  <1> QED
    BY <1>1, <1>2 DEF Become, HookGoes

LEMMA CloseGoes ==
    ASSUME StateInv, NEW h \in hooks, NEW r, Closes(h, r)
    PROVE  HookGoes(h, r, "close")
  <1> DEFINE g == [h EXCEPT !.step = "close", !.request = r]
  <1>1. g.step = "close" /\ g.request = r /\ SameHook(h, g)
    BY DEF StateInv, HooksFit, HookProcess, SameHook
  <1>2. Become(h, g)
    BY DEF Closes
  <1> HIDE DEF g
  <1> QED
    BY <1>1, <1>2 DEF Become, HookGoes

LEMMA PhasesGoOn ==
    ASSUME Phases, NEW h \in hooks, UNCHANGED <<runtime, spent>>,
           HookEnds(h) \/ (\E r, step : HookGoes(h, r, step))
    PROVE  Phases'
  <1>1. ASSUME HookEnds(h)
        PROVE  Phases'
    BY <1>1 DEF HookEnds, Phases, PromptAlone, StopAlone, Resting, Working, OfDoing, OneFault, Here, Lives
  <1>2. ASSUME NEW g, SameHook(h, g), hooks' = (hooks \ {h}) \cup {g}
        PROVE  Phases'
    <2>1. PromptAlone' /\ StopAlone'
      BY <1>2 DEF SameHook, Phases, PromptAlone, StopAlone, Here
    <2>2. Resting' /\ Working'
      BY <1>2 DEF SameHook, Phases, Resting, Working, Here, Lives
    <2>3. OfDoing' /\ OneFault'
      BY <1>2 DEF SameHook, Phases, OfDoing, OneFault, Here
    <2> QED
      BY <2>1, <2>2, <2>3 DEF Phases
  <1> QED
    BY <1>1, <1>2 DEF HookGoes

\* A tool, a display batch: it tells of what was done, or of nothing.
LEMMA ProtocolTells ==
    ASSUME StateInv, Protocol, NEW h \in hooks, h.kind \in {"tool", "post", "reasoning", "answer"},
           Alike(db, db'), db'.events = db.events \/ TellsOwn(h),
           UNCHANGED <<file, conv, pump, runtime, clock, spent>>,
           \/ HookEnds(h)
           \/ \E r, step : /\ r = h.request \/ file[h.session].mode = "bound"
                           /\ HookGoes(h, r, step)
    PROVE  Protocol'
  <1>1. \A r \in Streamed : /\ db'.request[r].session = db.request[r].session
                            /\ db'.request[r].status = db.request[r].status
    BY DEF Alike
  <1>2. /\ db'.turn.status = db.turn.status
        /\ Active(db) =>
              /\ db'.turn.item = db.turn.item /\ db'.turn.request = db.turn.request
              /\ db'.turn.session = db.turn.session /\ db'.turn.since = db.turn.since
              /\ db'.turn.binding = db.turn.binding
              /\ db'.turn.quiet => db.turn.quiet
              /\ db'.turn.watched => db.turn.watched /\ db'.turn.quiet
        /\ db'.unprojected = db.unprojected
    BY DEF Alike, LikeTurn, Protocol, TurnShape
  <1>3. RowsTyped /\ HookRow(h)
    BY StateRows DEF RowsTyped
  <1>4. (Active(db) <=> Active(db)') /\ (Own <=> Own') /\ (Active(db) => (Void <=> Void'))
        /\ (Active(db) => \A g : Fresh(g) <=> Fresh(g)')
        /\ (\A r \in Streamed : IsOpen(r) <=> IsOpen(r)')
    <2>1. (Active(db) <=> Active(db)') /\ (Own <=> Own') /\ (Active(db) => \A g : Fresh(g) <=> Fresh(g)')
      BY <1>2 DEF Active, Own, Fresh
    <2>2. \A r \in Streamed : IsOpen(r) <=> IsOpen(r)'
      BY <1>1 DEF IsOpen
    <2>3. Active(db) => (Void <=> Void')
      BY <1>1, <1>2, <2>2 DEF Void, Protocol, TurnShape, IsOpen
    <2> QED
      BY <2>1, <2>2, <2>3
  <1>5. \/ hooks' = hooks \ {h}
        \/ \E g : /\ SameHook(h, g)
                  /\ g.request = h.request \/ file[h.session].mode = "bound"
                  /\ hooks' = (hooks \ {h}) \cup {g}
    BY DEF HookEnds, HookGoes
  <1>6. /\ \A p \in hooks : p.kind \in {"prompt", "stop"} => p \in hooks'
        /\ \A g \in hooks' : \E o \in hooks :
              /\ SameHook(o, g) /\ (g.kind \in {"prompt", "stop"} => g = o)
              /\ g.request = o.request \/ file[o.session].mode = "bound"
    <2>1. \A g \in hooks : SameHook(g, g)
      BY DEF SameHook
    <2>2. \A g : SameHook(h, g) => g.kind \notin {"prompt", "stop"}
      BY DEF SameHook
    <2>3. h.kind \notin {"prompt", "stop"}
      OBVIOUS
    <2>4. \A p \in hooks : p.kind \in {"prompt", "stop"} => p \in hooks'
      BY <1>5, <2>3
    <2>5. ASSUME NEW g \in hooks'
          PROVE  \E o \in hooks : /\ SameHook(o, g) /\ (g.kind \in {"prompt", "stop"} => g = o)
                                  /\ g.request = o.request \/ file[o.session].mode = "bound"
      <3>1. CASE g \in hooks
        BY <2>1, <3>1
      <3>2. CASE SameHook(h, g) /\ (g.request = h.request \/ file[h.session].mode = "bound")
        BY <2>2, <3>2
      <3> QED
        BY <1>5, <3>1, <3>2
    <2> QED
      BY <2>4, <2>5
  <1>7. Times'
    BY <1>2, <1>4 DEF Protocol, Times
  <1>8. Phases'
    BY PhasesGoOn DEF Protocol
  <1>9. TurnShape' /\ PumpShape'
    <2>1. TurnShape'
      BY <1>1, <1>2, <1>4 DEF Protocol, TurnShape
    <2>2. PumpShape'
      BY <1>2, <1>4 DEF Protocol, PumpShape
    <2> QED
      BY <2>1, <2>2
  <1>10. TouchedIsAdmitted'
    BY <1>1, <1>2, <1>4, <1>6 DEF Protocol, TouchedIsAdmitted, Touched, SameHook
  <1>11. SubmittedWaits'
    BY <1>2, <1>4, <1>6 DEF Protocol, SubmittedWaits, Fresh, Here, SameHook, Active
  <1>12. PromptTurn'
    BY <1>2, <1>4, <1>6 DEF Protocol, PromptTurn, SameHook
  <1>13. OldPrompt' /\ BoundPrompt' /\ OldTurn'
    BY <1>2, <1>4, <1>6 DEF Protocol, OldPrompt, BoundPrompt, OldTurn, Here, SameHook
  <1>14. Leftover' /\ StopTurnIsOwn'
    BY <1>2, <1>4, <1>6 DEF Protocol, Leftover, StopTurnIsOwn, Here, Unfinished, Own, Active, SameHook
  <1>15. FileOfTurn' /\ FileTimes' /\ StopFile' /\ WorkFile'
    BY <1>2, <1>6 DEF Protocol, FileOfTurn, FileTimes, StopFile, WorkFile, Lives, Here, SameHook, Active
  <1>16. StrangersKeptOut'
    <2> SUFFICES ASSUME NEW g \in hooks', Stranger(g)'
                 PROVE  KeptOut(g)'
      BY DEF StrangersKeptOut
    <2>1. PICK o \in hooks : /\ SameHook(o, g) /\ (g.kind \in {"prompt", "stop"} => g = o)
                             /\ g.request = o.request \/ file[o.session].mode = "bound"
      BY <1>6
    <2>2. Active(db) /\ Stranger(o)
      BY <1>2, <1>4, <2>1 DEF Stranger, Active, SameHook, Fresh
    <2>3. KeptOut(o)
      BY <2>2 DEF Protocol, StrangersKeptOut
    <2> QED
      BY <1>2, <1>4, <2>1, <2>2, <2>3 DEF KeptOut, SameHook, Past
  <1>17. StrangerAtWork'
    BY <1>2, <1>4, <1>6 DEF Protocol, StrangerAtWork, Own, Active, Lives, Here, Past
  <1>18. Clean'
    <2> SUFFICES ASSUME spent.faults = 0
                 PROVE  CleanHooks' /\ CleanSend' /\ CleanTyped' /\ CleanDoing' /\ CleanPrompt'
                        /\ CleanPending' /\ CleanQueued'
      BY DEF Clean
    <2>1. CleanHooks /\ CleanSend /\ CleanTyped /\ CleanDoing /\ CleanPrompt /\ CleanPending /\ CleanQueued
      BY DEF Protocol, Clean
    <2>2. CleanHooks' /\ CleanPrompt'
      BY <1>2, <1>4, <1>6, <2>1 DEF CleanHooks, CleanPrompt, Here, SameHook
    <2>3. CleanSend' /\ CleanTyped' /\ CleanDoing'
      BY <1>2, <1>4, <1>6, <2>1 DEF CleanSend, CleanTyped, CleanDoing, SameHook, Active, Fresh
    <2>4. CleanPending' /\ CleanQueued'
      BY <1>1, <1>2, <1>4, <1>6, <2>1 DEF CleanPending, CleanQueued, SameHook
    <2> QED
      BY <2>2, <2>3, <2>4
  <1>19. QueuedWaits'
    BY <1>1, <1>2, <1>4, <1>6 DEF Protocol, QueuedWaits, Waits, WaitsTyped, WaitsPrompt, WaitsWork, WaitsStop, Here, SameHook, Active
  <1>20. ActivityStaysInItsTurn'
    <2>1. CASE db'.events = db.events
      BY <2>1 DEF Protocol, ActivityStaysInItsTurn
    <2>2. CASE VerifyOwnership(db, h.request, h.session, h.seen) /\ Tells(h, h.request)
      <3>1. /\ db.turn.status = "started" /\ db.turn.session = h.session
            /\ db.turn.request = h.request /\ db.turn.binding = "bound" /\ Fresh(h)
        BY <1>3, <2>2 DEF VerifyOwnership, Started, Stale, Fresh, Active, HookRow, RowsTyped
      <3>2. ~KeptOut(h)
        BY <3>1 DEF KeptOut
      <3>3. h.of \in {NoRequest, db.turn.item}
        BY <3>1, <3>2 DEF Protocol, StrangersKeptOut, Stranger
      <3>4. db.turn.item = h.request
        BY <1>3, <3>1 DEF Protocol, TurnShape, RowsTyped, Active
      <3> QED
        BY <2>2, <3>3, <3>4 DEF Tells, Protocol, ActivityStaysInItsTurn
    <2> QED
      BY <2>1, <2>2 DEF TellsOwn
  <1> QED
    BY <1>7, <1>8, <1>9, <1>10, <1>11, <1>12, <1>13, <1>14, <1>15, <1>16, <1>17, <1>18, <1>19, <1>20 DEF Protocol

-----------------------------------------------------------------------------
(* The agent *)
LEMMA BeginsHook ==
    ASSUME StateInv, NEW i \in Items, BeginTurn(i)
    PROVE  \E p : /\ p.kind = "prompt" /\ p.step = "start" /\ p.session = runtime.session
                  /\ p.at = clock + 1 /\ p.seen = clock + 1 /\ p.of = i
                  /\ p.request = IF i \in Streamed THEN i ELSE NoRequest
                  /\ hooks' = hooks \cup {p} /\ clock' = clock + 1
  <1> DEFINE g == Hook("prompt", "start", clock + 1)
             p == [g EXCEPT !.of = i, !.request = IF i \in Streamed THEN i ELSE NoRequest]
  <1>1. /\ p.kind = "prompt" /\ p.step = "start" /\ p.session = runtime.session
        /\ p.at = clock + 1 /\ p.seen = clock + 1 /\ p.of = i
        /\ p.request = IF i \in Streamed THEN i ELSE NoRequest
    BY DEF Hook
  <1>2. Launch(p)
    BY DEF BeginTurn
  <1> HIDE DEF p
  <1> QED
    BY <1>1, <1>2 DEF Launch

LEMMA ProtocolBegins ==
    ASSUME StateInv, Protocol, NEW i \in Items, BeginTurn(i)
    PROVE  Protocol'
  <1>1. PICK p : /\ p.kind = "prompt" /\ p.step = "start" /\ p.session = runtime.session
                 /\ p.at = clock + 1 /\ p.seen = clock + 1 /\ p.of = i
                 /\ p.request = IF i \in Streamed THEN i ELSE NoRequest
                 /\ hooks' = hooks \cup {p} /\ clock' = clock + 1
    BY BeginsHook
  <1>2. /\ runtime.doing = NoRequest /\ i \in runtime.typed
        /\ \A h \in hooks : Here(h) => h.kind # "stop"
        /\ UNCHANGED <<db, file, conv, pump, spent>>
        /\ runtime'.session = runtime.session /\ runtime'.typed = runtime.typed \ {i}
        /\ runtime'.doing = i /\ runtime'.prompted = TRUE
    BY DEF BeginTurn, Ended, Here, StateInv, RuntimeFits
  <1>3. RowsTyped /\ clock \in Nat /\ i # NoRequest
    BY StateRows DEF RowsTyped
  <1>4. /\ \A h \in hooks : h.kind # "prompt"
        /\ \A h \in hooks : Here(h) => h.kind = "post"
    <2>1. \A h \in hooks : HookRow(h)
      BY <1>3 DEF RowsTyped
    <2>2. \A h \in hooks : h.kind # "prompt"
      BY <1>2, <1>3, <2>1 DEF Protocol, Phases, PromptAlone, OldPrompt, HookRow, RowsTyped
    <2> QED
      BY <1>2, <2>1, <2>2 DEF Protocol, Phases, Resting, Lives, HookRow
  <1>5. \A h \in hooks : Here(h) <=> Here(h)'
    BY <1>2 DEF Here
  <1>6. db.turn.status = "started" => Own /\ Void
    BY <1>2, <1>4 DEF Protocol, OldTurn, Leftover, Unfinished
  <1>7. Times'
    BY <1>1, <1>2, <1>3 DEF Protocol, Times, RowsTyped, Active, Projection
  <1>8. Phases'
    <2>1. \A h \in hooks : h.seen <= clock /\ h.seen \in Nat
      BY <1>3 DEF RowsTyped, HookRow
    <2>2. PromptAlone'
      BY <1>1, <1>2, <1>3, <1>4, <2>1 DEF PromptAlone, Here
    <2>3. StopAlone' /\ Resting' /\ Working'
      BY <1>1, <1>2, <1>3, <1>4 DEF Protocol, Phases, StopAlone, Resting, Working, Lives, Here
    <2>4. OfDoing' /\ OneFault'
      BY <1>1, <1>2, <1>3, <1>4 DEF Protocol, Phases, OfDoing, OneFault, Here
    <2> QED
      BY <2>2, <2>3, <2>4 DEF Phases
  <1>9. TurnShape' /\ PumpShape'
    BY <1>2 DEF Protocol, TurnShape, PumpShape, Active
  <1>10. TouchedIsAdmitted'
    BY <1>1, <1>2 DEF Protocol, TouchedIsAdmitted, Touched, IsOpen, Active
  <1>11. SubmittedWaits'
    BY <1>1, <1>2 DEF Protocol, SubmittedWaits, Here, Fresh
  <1>12. PromptTurn'
    <2>1. Active(db) => db.turn.since <= clock /\ db.turn.since \in Nat
      BY <1>3 DEF Protocol, Times, RowsTyped, Active
    <2> QED
      BY <1>1, <1>2, <1>3, <1>4, <1>6, <2>1 DEF PromptTurn, Fresh, Own, Void, IsOpen, RowsTyped, Active
  <1>13. OldPrompt' /\ BoundPrompt' /\ OldTurn'
    BY <1>1, <1>2, <1>4, <1>6 DEF OldPrompt, BoundPrompt, OldTurn, Here, Own
  <1>14. Leftover' /\ StopTurnIsOwn'
    BY <1>1, <1>2, <1>3 DEF Protocol, Leftover, StopTurnIsOwn, Unfinished, Fresh
  <1>15. FileOfTurn' /\ FileTimes' /\ StopFile' /\ WorkFile'
    <2>1. file[runtime.session].at <= clock /\ file[runtime.session].at \in Nat
      BY <1>3 DEF Protocol, Times, RowsTyped
    <2> QED
      BY <1>1, <1>2, <1>3, <2>1 DEF Protocol, FileOfTurn, FileTimes, StopFile, WorkFile, Lives, Here
  <1>16. StrangersKeptOut' /\ StrangerAtWork'
    BY <1>1, <1>2, <1>6 DEF Protocol, StrangersKeptOut, StrangerAtWork, Stranger, KeptOut, Own, Void, IsOpen,
       Lives, Here, Fresh, Past
  <1>17. Clean'
    <2> SUFFICES ASSUME spent.faults = 0
                 PROVE  CleanHooks' /\ CleanSend' /\ CleanTyped' /\ CleanDoing' /\ CleanPrompt'
                        /\ CleanPending' /\ CleanQueued'
      BY <1>2 DEF Clean
    <2>1. CleanHooks /\ CleanSend /\ CleanTyped /\ CleanPending /\ CleanQueued
      BY DEF Protocol, Clean
    <2>2. CleanHooks'
      BY <1>1, <1>2, <1>3, <2>1 DEF CleanHooks, Here
    <2>3. db.turn.item = i /\ runtime.typed = {i} /\ db.turn.status = "submitted" /\ ~db.turn.quiet
      BY <1>2, <2>1 DEF CleanTyped
    <2>4. CleanSend' /\ CleanTyped' /\ CleanDoing' /\ CleanPrompt'
      BY <1>1, <1>2, <1>4, <2>1, <2>3 DEF CleanSend, CleanTyped, CleanDoing, CleanPrompt, Active,
         Protocol, TurnShape
    <2>5. CleanPending' /\ CleanQueued'
      BY <1>1, <1>2, <2>1 DEF CleanPending, CleanQueued, Active
    <2> QED
      BY <2>2, <2>4, <2>5
  <1>18. QueuedWaits'
    <2>1. file[runtime.session].at <= clock /\ file[runtime.session].at \in Nat
      BY <1>3 DEF Protocol, Times, RowsTyped
    <2>2. ASSUME NEW r \in Streamed, Waits(r)
          PROVE  Waits(r)'
      <3>1. WaitsTyped(r) /\ i = r
        BY <1>2, <2>2 DEF Waits, WaitsTyped, WaitsPrompt, WaitsWork, WaitsStop
      <3>2. WaitsPrompt(r)'
        BY <1>1, <1>2, <1>3, <2>1, <3>1 DEF WaitsTyped, WaitsPrompt
      <3> QED
        BY <1>1, <1>2, <2>2, <3>2 DEF Waits, Active, Here
    <2> QED
      BY <1>2, <2>2 DEF Protocol, QueuedWaits
  <1>19. ActivityStaysInItsTurn'
    BY <1>2 DEF Protocol, ActivityStaysInItsTurn
  <1> QED
    BY <1>7, <1>8, <1>9, <1>10, <1>11, <1>12, <1>13, <1>14, <1>15, <1>16, <1>17, <1>18, <1>19 DEF Protocol

\* The request of the turn, as far as its hooks can know it.
KnownTurn == IF runtime.prompted THEN runtime.doing ELSE NoRequest

LEMMA WorksHook ==
    ASSUME StateInv, NEW k \in Steps, NEW at \in {clock, clock + 1}, Work(k, at)
    PROVE  \E h : /\ h.kind \in {"tool", "post", "reasoning", "answer"} /\ h.session = runtime.session
                  /\ h.at = at /\ h.seen = at /\ h.of = KnownTurn /\ h.request = NoRequest
                  /\ h.step \in {"start", "touch"}
                  /\ hooks' = hooks \cup {h} /\ clock' = at
  <1> DEFINE step == IF k.kind = "tool" THEN "start" ELSE "touch"
             g == Hook(k.kind, step, at)
             h == [g EXCEPT !.final = k.final, !.id = spent.steps + 1]
  <1>1. k.kind \in Kinds
    BY StepsAssumption
  <1>2. /\ h.kind = k.kind /\ h.step = step /\ h.session = runtime.session /\ h.at = at
        /\ h.seen = at /\ h.of = KnownTurn /\ h.request = NoRequest
    BY DEF Hook, KnownTurn
  <1>3. Launch(h)
    BY DEF Work
  <1> HIDE DEF h
  <1> QED
    BY <1>1, <1>2, <1>3 DEF Launch, Kinds

LEMMA ProtocolWorks ==
    ASSUME StateInv, Protocol, NEW k \in Steps, NEW at \in {clock, clock + 1}, Work(k, at)
    PROVE  Protocol'
  <1>1. PICK n : /\ n.kind \in {"tool", "post", "reasoning", "answer"} /\ n.session = runtime.session
                 /\ n.at = at /\ n.seen = at /\ n.of = KnownTurn /\ n.request = NoRequest
                 /\ n.step \in {"start", "touch"}
                 /\ hooks' = hooks \cup {n} /\ clock' = at
    BY WorksHook
  <1>2. /\ runtime.doing # NoRequest /\ \A h \in hooks : Here(h) => h.kind # "prompt"
        /\ UNCHANGED <<db, file, conv, pump, runtime>> /\ spent'.faults = spent.faults
    BY DEF Work, Ended, Here, StateInv
  <1>3. RowsTyped /\ clock \in Nat /\ clock <= at /\ at \in Nat
    BY StateRows DEF RowsTyped
  <1>4. \A h \in hooks : h.kind # "prompt"
    BY <1>2 DEF Protocol, OldPrompt
  <1>5. Times'
    BY <1>1, <1>2, <1>3 DEF Protocol, Times, RowsTyped, Active, Projection
  <1>6. Phases'
    <2>1. PromptAlone' /\ StopAlone' /\ Resting' /\ Working'
      BY <1>1, <1>2, <1>4 DEF Protocol, Phases, PromptAlone, StopAlone, Resting, Working, Lives, Here
    <2>2. OfDoing' /\ OneFault'
      BY <1>1, <1>2 DEF Protocol, Phases, OfDoing, OneFault, Here, KnownTurn
    <2> QED
      BY <2>1, <2>2 DEF Phases
  <1>7. TurnShape' /\ PumpShape'
    BY <1>2 DEF Protocol, TurnShape, PumpShape, Active
  <1>8. n.of # NoRequest => runtime.prompted /\ n.of = runtime.doing
    BY <1>1 DEF KnownTurn
  <1>9. TouchedIsAdmitted'
    BY <1>1, <1>2, <1>3, <1>8 DEF Protocol, TouchedIsAdmitted, Touched, IsOpen, Active, RowsTyped
  <1>10. SubmittedWaits'
    BY <1>1, <1>2, <1>4, <1>8 DEF Protocol, SubmittedWaits, Here, Fresh
  <1>11. PromptTurn' /\ OldPrompt' /\ BoundPrompt' /\ OldTurn'
    BY <1>1, <1>2, <1>4 DEF Protocol, PromptTurn, OldPrompt, BoundPrompt, OldTurn, Own
  <1>12. Leftover' /\ StopTurnIsOwn'
    BY <1>1, <1>2 DEF Protocol, Leftover, StopTurnIsOwn, Unfinished, Fresh, Own
  <1>13. FileOfTurn' /\ FileTimes' /\ StopFile' /\ WorkFile'
    BY <1>1, <1>2 DEF Protocol, FileOfTurn, FileTimes, StopFile, WorkFile, Lives, Here
  <1>14. ASSUME Stranger(n)
         PROVE  KeptOut(n)
    <2>1. \/ db.turn.binding = "rejected"
          \/ Void /\ Past(runtime.session)
      BY <1>1, <1>2, <1>4, <1>8, <1>14 DEF Protocol, StrangerAtWork, Stranger, Own, Lives
    <2>2. Void => n.request # db.turn.request
      BY <1>1, <1>3, <1>14 DEF Void, Protocol, TurnShape, Active, Stranger, RowsTyped
    <2> QED
      BY <1>1, <2>1, <2>2 DEF KeptOut
  <1>15. StrangersKeptOut'
    BY <1>1, <1>2, <1>14 DEF Protocol, StrangersKeptOut, Stranger, KeptOut, Void, IsOpen, Fresh, Past
  <1>16. StrangerAtWork'
    BY <1>1, <1>2, <1>4 DEF Protocol, StrangerAtWork, Own, Void, IsOpen, Lives, Here, Past
  <1>17. Clean'
    <2> SUFFICES ASSUME spent.faults = 0
                 PROVE  CleanHooks' /\ CleanSend' /\ CleanTyped' /\ CleanDoing' /\ CleanPrompt'
                        /\ CleanPending' /\ CleanQueued'
      BY <1>2 DEF Clean
    <2>1. CleanHooks /\ CleanSend /\ CleanTyped /\ CleanDoing /\ CleanPrompt /\ CleanPending /\ CleanQueued
      BY DEF Protocol, Clean
    <2>2. CleanHooks' /\ CleanSend' /\ CleanTyped' /\ CleanDoing' /\ CleanPrompt'
      BY <1>1, <1>2, <2>1 DEF CleanHooks, Here, CleanSend, CleanTyped, CleanDoing, CleanPrompt, Active,
         KnownTurn
    <2>3. CleanPending' /\ CleanQueued'
      BY <1>1, <1>2, <1>3, <1>8, <2>1 DEF CleanPending, CleanQueued, Active, RowsTyped
    <2> QED
      BY <2>2, <2>3
  <1>18. QueuedWaits'
    <2>1. ASSUME NEW r \in Streamed, Waits(r)
          PROVE  Waits(r)'
      BY <1>1, <1>2, <2>1 DEF Waits, WaitsTyped, WaitsPrompt, WaitsWork, WaitsStop, Here, Own, Active
    <2> QED
      BY <1>2, <2>1 DEF Protocol, QueuedWaits
  <1>19. ActivityStaysInItsTurn'
    BY <1>2 DEF Protocol, ActivityStaysInItsTurn
  <1> QED
    BY <1>5, <1>6, <1>7, <1>9, <1>10, <1>11, <1>12, <1>13, <1>15, <1>16, <1>17, <1>18, <1>19 DEF Protocol

LEMMA StopsHook ==
    ASSUME StateInv, NEW text \in Texts, StopTurn(text)
    PROVE  \E h : /\ h.kind = "stop" /\ h.session = runtime.session /\ h.step = "resolve"
                  /\ h.at = clock + 1 /\ h.seen = clock + 1 /\ h.of = KnownTurn
                  /\ h.request = NoRequest
                  /\ hooks' = hooks \cup {h} /\ clock' = clock + 1
  <1> DEFINE g == Hook("stop", "resolve", clock + 1)
             h == [g EXCEPT !.text = text]
  <1>1. /\ h.kind = "stop" /\ h.step = "resolve" /\ h.session = runtime.session /\ h.at = clock + 1
        /\ h.seen = clock + 1 /\ h.of = KnownTurn /\ h.request = NoRequest
    BY DEF Hook, KnownTurn
  <1>2. Launch(h)
    BY DEF StopTurn
  <1> HIDE DEF h
  <1> QED
    BY <1>1, <1>2 DEF Launch

LEMMA ProtocolStops ==
    ASSUME StateInv, Protocol, NEW text \in Texts, StopTurn(text)
    PROVE  Protocol'
  <1>1. PICK n : /\ n.kind = "stop" /\ n.session = runtime.session /\ n.step = "resolve"
                 /\ n.at = clock + 1 /\ n.seen = clock + 1 /\ n.of = KnownTurn
                 /\ n.request = NoRequest
                 /\ hooks' = hooks \cup {n} /\ clock' = clock + 1
    BY StopsHook
  <1>2. /\ runtime.doing # NoRequest
        /\ \A h \in hooks : Here(h) => h.kind \notin {"prompt", "tool", "reasoning", "answer"}
        /\ UNCHANGED <<db, file, conv, pump, spent>>
        /\ runtime'.session = runtime.session /\ runtime'.typed = runtime.typed
        /\ runtime'.doing = NoRequest /\ runtime'.prompted = runtime.prompted
    BY DEF StopTurn, Ended, Here, StateInv, RuntimeFits
  <1>3. RowsTyped /\ clock \in Nat
    BY StateRows DEF RowsTyped
  <1>4. /\ \A h \in hooks : h.kind # "prompt"
        /\ \A h \in hooks : Here(h) => h.kind = "post"
    <2>1. \A h \in hooks : HookRow(h)
      BY <1>3 DEF RowsTyped
    <2>2. \A h \in hooks : h.kind # "prompt"
      BY <1>2 DEF Protocol, OldPrompt
    <2> QED
      BY <1>2, <2>1, <2>2 DEF Protocol, Phases, Working, Lives, HookRow
  <1>5. n.of # NoRequest => runtime.prompted /\ n.of = runtime.doing
    BY <1>1 DEF KnownTurn
  <1>6. db.turn.status = "started" => Own
    BY <1>2 DEF Protocol, OldTurn
  <1>7. Times'
    BY <1>1, <1>2, <1>3 DEF Protocol, Times, RowsTyped, Active, Projection
  <1>8. Phases'
    <2>1. \A h \in hooks : h.at <= clock /\ h.at \in Nat
      BY <1>3 DEF RowsTyped, HookRow
    <2>2. PromptAlone' /\ Resting' /\ Working'
      BY <1>1, <1>2, <1>4 DEF PromptAlone, Resting, Working, Lives, Here
    <2>3. StopAlone'
      BY <1>1, <1>2, <1>3, <1>4, <2>1 DEF Protocol, Phases, StopAlone, Here
    <2>4. OfDoing' /\ OneFault'
      BY <1>1, <1>2, <1>4 DEF Protocol, Phases, OfDoing, OneFault, Here, KnownTurn
    <2> QED
      BY <2>2, <2>3, <2>4 DEF Phases
  <1>9. TurnShape' /\ PumpShape'
    BY <1>2 DEF Protocol, TurnShape, PumpShape, Active
  <1>10. TouchedIsAdmitted'
    BY <1>1, <1>2, <1>3, <1>5 DEF Protocol, TouchedIsAdmitted, Touched, IsOpen, Active, RowsTyped
  <1>11. SubmittedWaits'
    BY <1>1, <1>2, <1>4, <1>5 DEF Protocol, SubmittedWaits, Here, Fresh
  <1>12. PromptTurn' /\ OldPrompt' /\ BoundPrompt' /\ OldTurn'
    BY <1>1, <1>2, <1>4, <1>6 DEF PromptTurn, OldPrompt, BoundPrompt, OldTurn, Own
  <1>13. Leftover'
    BY <1>1, <1>2 DEF Leftover, Unfinished, Here
  <1>14. StopTurnIsOwn'
    <2>1. Active(db) => db.turn.since <= clock /\ db.turn.since \in Nat
      BY <1>3 DEF Protocol, Times, RowsTyped, Active
    <2> QED
      BY <1>1, <1>2, <1>3, <2>1 DEF Protocol, StopTurnIsOwn, Unfinished, Fresh, Active
  <1>15. FileOfTurn' /\ FileTimes' /\ StopFile' /\ WorkFile'
    <2>1. file[runtime.session].at <= clock /\ file[runtime.session].at \in Nat
      BY <1>3 DEF Protocol, Times, RowsTyped
    <2> QED
      BY <1>1, <1>2, <1>3, <1>4, <1>5, <2>1 DEF Protocol, FileOfTurn, FileTimes, StopFile, WorkFile, Lives
  <1>16. ASSUME Stranger(n)
         PROVE  KeptOut(n)
    <2>1. \/ db.turn.binding = "rejected"
          \/ Void /\ Past(runtime.session)
      BY <1>1, <1>2, <1>4, <1>5, <1>16 DEF Protocol, StrangerAtWork, Stranger, Own, Lives
    <2>2. Void => n.request # db.turn.request
      BY <1>1, <1>3, <1>16 DEF Void, Protocol, TurnShape, Active, Stranger, RowsTyped
    <2> QED
      BY <1>1, <2>1, <2>2 DEF KeptOut
  <1>17. StrangersKeptOut' /\ StrangerAtWork'
    BY <1>1, <1>2, <1>16 DEF Protocol, StrangersKeptOut, StrangerAtWork, Stranger, KeptOut, Void, IsOpen,
       Fresh, Past
  <1>18. Clean'
    <2> SUFFICES ASSUME spent.faults = 0
                 PROVE  CleanHooks' /\ CleanSend' /\ CleanTyped' /\ CleanDoing' /\ CleanPrompt'
                        /\ CleanPending' /\ CleanQueued'
      BY <1>2 DEF Clean
    <2>1. CleanHooks /\ CleanSend /\ CleanTyped /\ CleanDoing /\ CleanPrompt /\ CleanPending /\ CleanQueued
      BY DEF Protocol, Clean
    <2>2. CleanHooks' /\ CleanSend' /\ CleanTyped' /\ CleanDoing' /\ CleanPrompt'
      BY <1>1, <1>2, <2>1 DEF CleanHooks, Here, CleanSend, CleanTyped, CleanDoing, CleanPrompt, Active,
         KnownTurn
    <2>3. CleanPending' /\ CleanQueued'
      BY <1>1, <1>2, <1>3, <1>5, <2>1 DEF CleanPending, CleanQueued, Active, RowsTyped
    <2> QED
      BY <2>2, <2>3
  <1>19. QueuedWaits'
    <2>1. ASSUME NEW r \in Streamed, Waits(r)
          PROVE  Waits(r)'
      <3>1. WaitsWork(r) /\ runtime.prompted
        BY <1>2, <1>4, <2>1 DEF Waits, WaitsTyped, WaitsPrompt, WaitsStop
      <3>2. WaitsStop(r)'
        BY <1>1, <1>2, <1>4, <3>1 DEF WaitsWork, WaitsStop, Own, KnownTurn
      <3> QED
        BY <1>1, <1>2, <2>1, <3>2 DEF Waits, Here, Active
    <2> QED
      BY <1>2, <2>1 DEF Protocol, QueuedWaits
  <1>20. ActivityStaysInItsTurn'
    BY <1>2 DEF Protocol, ActivityStaysInItsTurn
  <1> QED
    BY <1>7, <1>8, <1>9, <1>10, <1>11, <1>12, <1>13, <1>14, <1>15, <1>17, <1>18, <1>19, <1>20 DEF Protocol

-----------------------------------------------------------------------------
(* The one fault *)
LEMMA FaultIsFirst ==
    ASSUME MaxFaults <= 1, StateInv, Protocol, Fault
    PROVE  /\ spent.faults = 0 /\ spent'.faults = 1
           /\ CleanHooks /\ CleanSend /\ CleanTyped /\ CleanDoing /\ CleanPrompt
           /\ CleanPending /\ CleanQueued
  <1>1. spent \in [steps : Nat, faults : Nat] /\ MaxFaults \in Nat
    BY BoundsAssumption DEF StateInv
  <1> QED
    BY <1>1 DEF Fault, Protocol, Clean

LEMMA ProtocolRestarts ==
    ASSUME MaxFaults <= 1, StateInv, Protocol, RuntimeRestarts
    PROVE  Protocol'
  <1>1. /\ spent.faults = 0 /\ spent'.faults = 1
        /\ CleanHooks /\ CleanSend /\ CleanTyped /\ CleanPrompt /\ CleanQueued
    BY FaultIsFirst DEF RuntimeRestarts
  <1>2. /\ UNCHANGED <<db, file, conv, pump, hooks, clock>>
        /\ runtime'.session # runtime.session /\ runtime'.typed = {}
        /\ runtime'.doing = NoRequest /\ runtime'.prompted = TRUE
    BY DEF RuntimeRestarts
  <1>3. RowsTyped
    BY StateRows
  <1>4. Times' /\ TurnShape' /\ PumpShape'
    BY <1>2 DEF Protocol, Times, TurnShape, PumpShape, Active
  <1>5. Phases'
    <2>1. PromptAlone' /\ StopAlone'
      BY <1>1, <1>2 DEF Protocol, Phases, PromptAlone, StopAlone, CleanHooks, Here
    <2>2. Resting' /\ Working' /\ OfDoing' /\ OneFault'
      BY <1>1, <1>2 DEF CleanHooks, Resting, Working, OfDoing, OneFault, Lives, Here
    <2> QED
      BY <2>1, <2>2 DEF Phases
  <1>6. TouchedIsAdmitted'
    BY <1>2, <1>3 DEF Protocol, TouchedIsAdmitted, Touched, IsOpen, Active, RowsTyped
  <1>7. SubmittedWaits' /\ PromptTurn'
    BY <1>2 DEF Protocol, SubmittedWaits, PromptTurn, Fresh, Void, IsOpen, Active
  <1>8. pump.step = "send" => db.turn.status = "submitted" /\ \A p \in hooks : p.kind # "prompt"
    BY <1>1 DEF CleanSend, CleanPrompt, Protocol, PromptTurn, Fresh
  <1>9. OldPrompt' /\ BoundPrompt' /\ OldTurn' /\ Leftover'
    BY <1>1, <1>2, <1>8 DEF Protocol, OldPrompt, BoundPrompt, OldTurn, Leftover, CleanPrompt, Own, Active
  <1>10. StopTurnIsOwn' /\ FileOfTurn' /\ FileTimes' /\ StopFile' /\ WorkFile'
    BY <1>2 DEF Protocol, StopTurnIsOwn, FileOfTurn, FileTimes, StopFile, WorkFile, Unfinished, Fresh
  <1>11. StrangersKeptOut' /\ StrangerAtWork'
    BY <1>2 DEF Protocol, StrangersKeptOut, StrangerAtWork, Stranger, KeptOut, Void, IsOpen, Fresh, Past
  <1>12. Clean'
    BY <1>1 DEF Clean
  <1>13. QueuedWaits'
    BY <1>1, <1>2 DEF QueuedWaits, CleanQueued
  <1>14. ActivityStaysInItsTurn'
    BY <1>2 DEF Protocol, ActivityStaysInItsTurn
  <1> QED
    BY <1>4, <1>5, <1>6, <1>7, <1>9, <1>10, <1>11, <1>12, <1>13, <1>14 DEF Protocol

LEMMA ProtocolHookDies ==
    ASSUME MaxFaults <= 1, StateInv, Protocol, NEW h \in hooks, HookDies(h)
    PROVE  Protocol'
  <1>1. /\ spent.faults = 0 /\ spent'.faults = 1
        /\ CleanHooks /\ CleanSend /\ CleanTyped /\ CleanPrompt /\ CleanQueued
    BY FaultIsFirst DEF HookDies
  <1>2. /\ UNCHANGED <<db, file, conv, pump, clock>> /\ hooks' = hooks \ {h}
        /\ runtime'.session = runtime.session /\ runtime'.typed = runtime.typed
        /\ runtime'.doing = runtime.doing
        /\ IF h.kind = "prompt" THEN runtime'.prompted = FALSE ELSE runtime'.prompted = runtime.prompted
    BY DEF HookDies, StateInv, RuntimeFits
  <1>3. RowsTyped
    BY StateRows
  <1>4. Times' /\ TurnShape' /\ PumpShape'
    BY <1>2 DEF Protocol, Times, TurnShape, PumpShape, Active
  <1>5. Phases'
    <2>1. h.kind = "prompt" => \A g \in hooks' : g.kind = "post"
      BY <1>1, <1>2 DEF Protocol, Phases, PromptAlone, CleanHooks, Here
    <2>2. PromptAlone' /\ StopAlone'
      BY <1>2, <2>1 DEF Protocol, Phases, PromptAlone, StopAlone, Here
    <2>3. Resting' /\ Working'
      BY <1>2 DEF Protocol, Phases, Resting, Working, Lives, Here
    <2>4. OfDoing'
      BY <1>2, <2>1 DEF Protocol, Phases, OfDoing, Here
    <2>5. OneFault'
      BY <1>1, <1>2 DEF CleanHooks, OneFault, Here
    <2> QED
      BY <2>2, <2>3, <2>4, <2>5 DEF Phases
  <1>6. TouchedIsAdmitted'
    BY <1>2, <1>3 DEF Protocol, TouchedIsAdmitted, Touched, IsOpen, Active, RowsTyped
  <1>7. SubmittedWaits' /\ PromptTurn'
    BY <1>2 DEF Protocol, SubmittedWaits, PromptTurn, Fresh, Void, IsOpen, Active, Here
  <1>8. OldPrompt' /\ BoundPrompt' /\ OldTurn' /\ Leftover'
    BY <1>1, <1>2 DEF Protocol, OldPrompt, BoundPrompt, OldTurn, Leftover, CleanSend, CleanTyped, Own,
       Active, Here
  <1>9. StopTurnIsOwn' /\ FileOfTurn' /\ FileTimes' /\ StopFile' /\ WorkFile'
    BY <1>2 DEF Protocol, StopTurnIsOwn, FileOfTurn, FileTimes, StopFile, WorkFile, Unfinished, Fresh,
       Lives, Here
  <1>10. StrangersKeptOut' /\ StrangerAtWork'
    BY <1>2 DEF Protocol, StrangersKeptOut, StrangerAtWork, Stranger, KeptOut, Void, IsOpen, Fresh, Past,
       Own, Lives, Here
  <1>11. Clean'
    BY <1>1 DEF Clean
  <1>12. QueuedWaits'
    BY <1>1, <1>2 DEF QueuedWaits, CleanQueued
  <1>13. ActivityStaysInItsTurn'
    BY <1>2 DEF Protocol, ActivityStaysInItsTurn
  <1> QED
    BY <1>4, <1>5, <1>6, <1>7, <1>8, <1>9, <1>10, <1>11, <1>12, <1>13 DEF Protocol

LEMMA ProtocolRetries ==
    ASSUME MaxFaults <= 1, StateInv, Protocol, NEW h \in hooks, HookIsRetried(h)
    PROVE  Protocol'
  <1>1. spent.faults = 0 /\ spent'.faults = 1 /\ CleanHooks /\ CleanQueued
    BY FaultIsFirst DEF HookIsRetried
  <1>2. RowsTyped /\ HookRow(h) /\ h.step = "mark"
    BY StateRows DEF RowsTyped, HookIsRetried
  <1>3. h.kind \in {"reasoning", "answer"}
    BY <1>2 DEF HookRow
  <1>4. PICK g : /\ g.kind = h.kind /\ g.session = h.session /\ g.seen = h.seen /\ g.of = h.of
                 /\ g.request = h.request /\ hooks' = (hooks \ {h}) \cup {g}
    <2> DEFINE g == [h EXCEPT !.step = "touch", !.at = clock]
    <2>1. /\ g.kind = h.kind /\ g.session = h.session /\ g.seen = h.seen /\ g.of = h.of
          /\ g.request = h.request
      BY DEF StateInv, HooksFit, HookProcess
    <2>2. hooks' = (hooks \ {h}) \cup {g}
      BY DEF HookIsRetried
    <2> HIDE DEF g
    <2> QED
      BY <2>1, <2>2
  <1>5. UNCHANGED <<db, file, conv, pump, runtime, clock>>
    BY DEF HookIsRetried
  <1>6. /\ \A p \in hooks : p.kind \in {"prompt", "stop"} => p \in hooks'
        /\ \A p \in hooks' : p.kind \in {"prompt", "stop", "post", "tool"} => p \in hooks
        /\ \A o \in hooks' : o = g \/ o \in hooks
    BY <1>3, <1>4
  <1>7. Times' /\ TurnShape' /\ PumpShape'
    BY <1>5 DEF Protocol, Times, TurnShape, PumpShape, Active
  <1>8. Phases'
    <2>1. PromptAlone' /\ StopAlone'
      BY <1>3, <1>4, <1>5 DEF Protocol, Phases, PromptAlone, StopAlone, Here
    <2>2. Resting' /\ Working' /\ OfDoing' /\ OneFault'
      BY <1>1, <1>3, <1>4, <1>5 DEF Protocol, Phases, CleanHooks, Resting, Working, OfDoing, OneFault, Lives, Here
    <2> QED
      BY <2>1, <2>2 DEF Phases
  <1>9. TouchedIsAdmitted'
    BY <1>4, <1>5 DEF Protocol, TouchedIsAdmitted, Touched, IsOpen, Active
  <1>10. SubmittedWaits' /\ PromptTurn'
    BY <1>3, <1>4, <1>5, <1>6 DEF Protocol, SubmittedWaits, PromptTurn, Fresh, Void, IsOpen, Active, Here
  <1>11. OldPrompt' /\ BoundPrompt' /\ OldTurn' /\ Leftover'
    BY <1>5, <1>6 DEF Protocol, OldPrompt, BoundPrompt, OldTurn, Leftover, Own, Active, Here, Void, IsOpen,
       Unfinished
  <1>12. StopTurnIsOwn' /\ FileOfTurn' /\ FileTimes' /\ StopFile' /\ WorkFile'
    BY <1>5, <1>6 DEF Protocol, StopTurnIsOwn, FileOfTurn, FileTimes, StopFile, WorkFile, Unfinished,
       Fresh, Lives, Here
  <1>13. Stranger(g) => Stranger(h) /\ (KeptOut(h) => KeptOut(g))
    BY <1>3, <1>4 DEF Stranger, KeptOut, Fresh
  <1>14. StrangersKeptOut' /\ StrangerAtWork'
    BY <1>5, <1>6, <1>13 DEF Protocol, StrangersKeptOut, StrangerAtWork, Stranger, KeptOut, Void, IsOpen,
       Fresh, Past, Own, Lives, Here
  <1>15. Clean'
    BY <1>1 DEF Clean
  <1>16. QueuedWaits'
    BY <1>1, <1>5 DEF QueuedWaits, CleanQueued
  <1>17. ActivityStaysInItsTurn'
    BY <1>5 DEF Protocol, ActivityStaysInItsTurn
  <1> QED
    BY <1>7, <1>8, <1>9, <1>10, <1>11, <1>12, <1>14, <1>15, <1>16, <1>17 DEF Protocol

LEMMA ProtocolPumpDies ==
    ASSUME MaxFaults <= 1, StateInv, Protocol, PumpDies
    PROVE  Protocol'
  <1>1. spent.faults = 0 /\ spent'.faults = 1 /\ CleanHooks
    BY FaultIsFirst DEF PumpDies
  <1>2. UNCHANGED <<db, file, conv, runtime, hooks, clock>> /\ pump'.step = "rest"
    BY DEF PumpDies, Release
  <1>3. Times' /\ TurnShape' /\ PumpShape'
    BY <1>2 DEF Protocol, Times, TurnShape, PumpShape, Active
  <1>4. Phases'
    BY <1>1, <1>2 DEF Protocol, Phases, PromptAlone, StopAlone, Resting, Working, OfDoing, OneFault,
       Lives, Here, CleanHooks
  <1>5. TouchedIsAdmitted'
    BY <1>2 DEF Protocol, TouchedIsAdmitted, Touched, IsOpen, Active
  <1>6. SubmittedWaits' /\ PromptTurn' /\ OldPrompt' /\ BoundPrompt'
    BY <1>2 DEF Protocol, SubmittedWaits, PromptTurn, OldPrompt, BoundPrompt, Fresh, Void, IsOpen,
       Active, Here
  <1>7. OldTurn' /\ Leftover' /\ StopTurnIsOwn'
    BY <1>2 DEF Protocol, OldTurn, Leftover, StopTurnIsOwn, Unfinished, Own, Void, IsOpen, Fresh, Here
  <1>8. FileOfTurn' /\ FileTimes' /\ StopFile' /\ WorkFile'
    BY <1>2 DEF Protocol, FileOfTurn, FileTimes, StopFile, WorkFile, Lives, Here
  <1>9. StrangersKeptOut' /\ StrangerAtWork'
    BY <1>2 DEF Protocol, StrangersKeptOut, StrangerAtWork, Stranger, KeptOut, Void, IsOpen, Fresh, Past,
       Own, Lives, Here
  <1>10. Clean'
    BY <1>1 DEF Clean
  <1>11. QueuedWaits'
    BY <1>1, <1>2 DEF Protocol, QueuedWaits, Waits, WaitsTyped, WaitsPrompt, WaitsWork, WaitsStop, Own,
       Active, Here
  <1>12. ActivityStaysInItsTurn'
    BY <1>2 DEF Protocol, ActivityStaysInItsTurn
  <1> QED
    BY <1>3, <1>4, <1>5, <1>6, <1>7, <1>8, <1>9, <1>10, <1>11, <1>12 DEF Protocol

-----------------------------------------------------------------------------
(* Time, and the dispatcher *)
LEMMA PhasesStay ==
    ASSUME Phases, UNCHANGED <<hooks, spent>>, runtime'.session = runtime.session,
           runtime'.doing = runtime.doing, runtime'.prompted = runtime.prompted
    PROVE  Phases'
  BY DEF Phases, PromptAlone, StopAlone, Resting, Working, OfDoing, OneFault, Here, Lives

LEMMA ProtocolSilence ==
    ASSUME StateInv, Protocol, SilencePasses
    PROVE  Protocol'
  <1>1. /\ db'.turn.status = db.turn.status
        /\ Active(db) =>
              /\ db'.turn.item = db.turn.item /\ db'.turn.request = db.turn.request
              /\ db'.turn.session = db.turn.session /\ db'.turn.since = db.turn.since
              /\ db'.turn.binding = db.turn.binding /\ db'.turn.watched = db.turn.watched
              /\ db'.turn.quiet = TRUE
        /\ db'.unprojected = db.unprojected
        /\ \A r \in Streamed : /\ db'.request[r].session = db.request[r].session
                               /\ db'.request[r].status = db.request[r].status
    BY SilenceEffect DEF SameRequests, Admission
  <1>2. /\ hooks = {} /\ pump.step \notin {"send", "sent"}
        /\ runtime.doing = NoRequest => runtime.typed = {}
        /\ UNCHANGED <<file, conv, pump, runtime, hooks, clock, spent>>
    BY DEF SilencePasses
  <1>3. db'.events = db.events
    BY DEF SilencePasses, StateInv, DataInv, Database
  <1>4. /\ (Active(db) <=> Active(db)') /\ (Own <=> Own')
        /\ \A r \in Streamed : IsOpen(r) <=> IsOpen(r)'
        /\ Active(db) => (Void <=> Void')
    <2>1. (Active(db) <=> Active(db)') /\ (Own <=> Own')
      BY <1>1, <1>2 DEF Active, Own
    <2>2. \A r \in Streamed : IsOpen(r) <=> IsOpen(r)'
      BY <1>1 DEF IsOpen
    <2> QED
      BY <1>1, <2>1, <2>2 DEF Void, Protocol, TurnShape, IsOpen
  <1>5. Times' /\ TurnShape' /\ PumpShape'
    BY <1>1, <1>2, <1>4 DEF Protocol, Times, TurnShape, PumpShape
  <1>6. Phases'
    BY <1>2, PhasesStay DEF Protocol
  <1>7. TouchedIsAdmitted'
    BY <1>1, <1>2, <1>4 DEF Protocol, TouchedIsAdmitted, Touched
  <1>8. SubmittedWaits' /\ PromptTurn' /\ OldPrompt' /\ BoundPrompt' /\ OldTurn'
    BY <1>1, <1>2, <1>4 DEF Protocol, SubmittedWaits, PromptTurn, OldPrompt, BoundPrompt, OldTurn
  <1>9. Leftover' /\ StopTurnIsOwn' /\ FileOfTurn' /\ FileTimes' /\ StopFile' /\ WorkFile'
    BY <1>1, <1>2, <1>4 DEF Protocol, Leftover, StopTurnIsOwn, FileOfTurn, FileTimes, StopFile, WorkFile,
       Own, Lives, Active
  <1>10. StrangersKeptOut' /\ StrangerAtWork'
    BY <1>1, <1>2, <1>4 DEF Protocol, StrangersKeptOut, StrangerAtWork, Own, Active, Past, Lives
  <1>11. Clean'
    <2> SUFFICES ASSUME spent.faults = 0
                 PROVE  CleanHooks' /\ CleanSend' /\ CleanTyped' /\ CleanDoing' /\ CleanPrompt'
                        /\ CleanPending' /\ CleanQueued'
      BY <1>2 DEF Clean
    <2>1. CleanHooks /\ CleanSend /\ CleanTyped /\ CleanDoing /\ CleanPrompt /\ CleanPending /\ CleanQueued
      BY DEF Protocol, Clean
    <2> QED
      BY <1>1, <1>2, <1>4, <2>1 DEF CleanHooks, CleanSend, CleanTyped, CleanDoing, CleanPrompt,
         CleanPending, CleanQueued, Here
  <1>12. QueuedWaits'
    BY <1>1, <1>2, <1>4 DEF Protocol, QueuedWaits, Waits, WaitsTyped, WaitsPrompt, WaitsWork, WaitsStop
  <1>13. ActivityStaysInItsTurn'
    BY <1>3 DEF Protocol, ActivityStaysInItsTurn
  <1> QED
    BY <1>5, <1>6, <1>7, <1>8, <1>9, <1>10, <1>11, <1>12, <1>13 DEF Protocol

\* What the agent being idle excludes.
LEMMA IdleMeans ==
    ASSUME StateInv, Protocol, NEW i \in Items, Oldest(i)
    PROVE  /\ pump.step = "rest" /\ conv[i] = "pending"
           /\ \A o \in Items : conv[o] = "pending" => i <= o
           /\ runtime.prompted => runtime.doing = NoRequest /\ \A h \in hooks : Here(h) => h.kind # "stop"
           /\ \A p \in hooks : p.kind = "prompt" => Active(db) /\ ~db.turn.quiet
           /\ \A r \in Streamed : Waits(r) => WaitsTyped(r)
  <1>1. /\ pump.step = "rest" /\ conv[i] = "pending"
        /\ \A o \in Items : conv[o] = "pending" => i <= o
        /\ runtime.prompted => runtime.doing = NoRequest /\ \A h \in hooks : Here(h) => h.kind # "stop"
    BY DEF Oldest, Idle, Ended, Here
  <1>2. RowsTyped
    BY StateRows
  <1>3. \A p \in hooks : p.kind = "prompt" => Active(db) /\ ~db.turn.quiet
    BY <1>1, <1>2 DEF Protocol, Phases, PromptAlone, OldPrompt, RowsTyped, HookRow
  <1>4. \A r \in Streamed : Waits(r) => WaitsTyped(r)
    BY <1>1, <1>2 DEF Waits, WaitsPrompt, WaitsWork, WaitsStop, RowsTyped
  <1> QED
    BY <1>1, <1>3, <1>4

LEMMA ProtocolLooks ==
    ASSUME StateInv, Protocol, NEW i \in Items, LookAtTurn(i)
    PROVE  Protocol'
  <1>1. /\ db.turn.status = "started" /\ db.turn.quiet = TRUE
        /\ db'.turn.status = db.turn.status
        /\ db'.turn.item = db.turn.item /\ db'.turn.request = db.turn.request
        /\ db'.turn.session = db.turn.session /\ db'.turn.since = db.turn.since
        /\ db'.turn.binding = db.turn.binding /\ db'.turn.quiet = db.turn.quiet
        /\ db'.unprojected = db.unprojected /\ db'.request = db.request /\ db'.events = db.events
    <2>1. db.turn.status = "started" /\ db.turn.quiet
      BY DEF LookAtTurn
    <2>2. db.turn \in Admission
      BY <2>1, StateRows DEF RowsTyped
    <2>3. db'.events = db.events
      BY DEF LookAtTurn, StateInv, DataInv, Database
    <2> QED
      BY <2>1, <2>2, <2>3, StateLooks DEF Admission
  <1>2. Oldest(i) /\ UNCHANGED <<file, conv, clock, runtime, hooks, spent>> /\ pump'.step = "recover"
    BY DEF LookAtTurn, PumpKeeps
  <1>3. /\ runtime.prompted => runtime.doing = NoRequest
        /\ \A p \in hooks : p.kind # "prompt"
        /\ pump.step = "rest" /\ \A r \in Streamed : ~Waits(r)
    BY <1>1, <1>2, IdleMeans DEF WaitsTyped
  <1>4. Active(db) /\ Active(db)'
    BY <1>1 DEF Active
  <1>5. Times' /\ TurnShape' /\ PumpShape'
    BY <1>1, <1>2, <1>4 DEF Protocol, Times, TurnShape, PumpShape
  <1>6. Phases'
    BY <1>2, PhasesStay DEF Protocol
  <1>7. TouchedIsAdmitted'
    BY <1>1, <1>2, <1>3, <1>4 DEF Protocol, TouchedIsAdmitted, Touched, IsOpen
  <1>8. SubmittedWaits' /\ PromptTurn' /\ OldPrompt' /\ BoundPrompt' /\ OldTurn'
    BY <1>1, <1>2, <1>3 DEF Protocol, SubmittedWaits, PromptTurn, OldPrompt, BoundPrompt, OldTurn, Own
  <1>9. Leftover' /\ StopTurnIsOwn' /\ FileOfTurn' /\ FileTimes' /\ StopFile' /\ WorkFile'
    BY <1>1, <1>2, <1>3 DEF Protocol, Leftover, StopTurnIsOwn, FileOfTurn, FileTimes, StopFile, WorkFile,
       Own, Lives, Here, Void, IsOpen, Fresh, Unfinished
  <1>10. StrangersKeptOut' /\ StrangerAtWork'
    BY <1>1, <1>2 DEF Protocol, StrangersKeptOut, StrangerAtWork, Own, Past, Lives, Here, Void, IsOpen,
       Stranger, KeptOut, Fresh
  <1>11. Clean'
    <2> SUFFICES ASSUME spent.faults = 0
                 PROVE  CleanHooks' /\ CleanSend' /\ CleanTyped' /\ CleanDoing' /\ CleanPrompt'
                        /\ CleanPending' /\ CleanQueued'
      BY <1>2 DEF Clean
    <2>1. CleanHooks /\ CleanTyped /\ CleanDoing /\ CleanPending /\ CleanQueued
      BY DEF Protocol, Clean
    <2> QED
      BY <1>1, <1>2, <1>3, <1>4, <2>1 DEF CleanHooks, CleanSend, CleanTyped, CleanDoing, CleanPrompt,
         CleanPending, CleanQueued, Here
  <1>12. QueuedWaits'
    BY <1>1, <1>2, <1>3 DEF Protocol, QueuedWaits
  <1>13. ActivityStaysInItsTurn'
    BY <1>1 DEF Protocol, ActivityStaysInItsTurn
  <1> QED
    BY <1>5, <1>6, <1>7, <1>8, <1>9, <1>10, <1>11, <1>12, <1>13 DEF Protocol

LEMMA ProtocolRecovers ==
    ASSUME StateInv, Protocol, RecoverTurn
    PROVE  Protocol'
  <1>1. /\ UNCHANGED <<file, conv, runtime, hooks, spent>> /\ pump'.step = "rest"
        /\ pump.step = "recover"
    BY DEF RecoverTurn, Release, PumpKeeps
  <1>2. RowsTyped /\ clock \in Nat /\ clock' \in Nat /\ clock <= clock' /\ db'.events = db.events
    BY StateRows, RecoverEffect DEF RowsTyped
  <1>3. Phases'
    BY <1>1, PhasesStay DEF Protocol
  <1>4. ActivityStaysInItsTurn'
    BY <1>2 DEF Protocol, ActivityStaysInItsTurn
  <1>5. CASE db' = db
    <2>1. Times' /\ TurnShape' /\ PumpShape'
      BY <1>1, <1>2, <1>5 DEF Protocol, Times, TurnShape, PumpShape, RowsTyped, Active, Projection
    <2>2. TouchedIsAdmitted'
      BY <1>1, <1>5 DEF Protocol, TouchedIsAdmitted, Touched, IsOpen, Active
    <2>3. SubmittedWaits' /\ PromptTurn' /\ OldPrompt' /\ BoundPrompt' /\ OldTurn'
      BY <1>1, <1>5 DEF Protocol, SubmittedWaits, PromptTurn, OldPrompt, BoundPrompt, OldTurn, Own, Fresh,
         Here, Void, IsOpen, Active
    <2>4. Leftover' /\ StopTurnIsOwn' /\ FileOfTurn' /\ FileTimes' /\ StopFile' /\ WorkFile'
      BY <1>1, <1>5 DEF Protocol, Leftover, StopTurnIsOwn, FileOfTurn, FileTimes, StopFile, WorkFile,
         Own, Lives, Here, Void, IsOpen, Fresh, Unfinished
    <2>5. StrangersKeptOut' /\ StrangerAtWork'
      BY <1>1, <1>5 DEF Protocol, StrangersKeptOut, StrangerAtWork, Own, Past, Lives, Here, Void, IsOpen,
         Stranger, KeptOut, Fresh
    <2>6. Clean'
      BY <1>1, <1>5 DEF Protocol, Clean, CleanHooks, CleanSend, CleanTyped, CleanDoing, CleanPrompt,
         CleanPending, CleanQueued, Here, Active
    <2>7. QueuedWaits'
      BY <1>1, <1>5 DEF Protocol, QueuedWaits, Waits, WaitsTyped, WaitsPrompt, WaitsWork, WaitsStop, Own,
         Here, Active
    <2> QED
      BY <1>3, <1>4, <2>1, <2>2, <2>3, <2>4, <2>5, <2>6, <2>7 DEF Protocol
  <1>6. CASE /\ db.turn.status = "started" /\ db.turn.watched /\ db.turn.session \in Sessions
             /\ clock' = clock + 1
             /\ Leaves(db, db', db.turn.session, clock + 1)
    <2>1. db'.turn.status = "none" /\ ~Active(db)' /\ Active(db)
      BY <1>6 DEF Leaves, Active, NoTurn
    <2>2. db.turn.quiet /\ db.unprojected = {}
      BY <1>6, <2>1 DEF Protocol, TurnShape
    <2>3. \A p \in hooks : p.kind = "prompt" => Here(p) /\ p.step # "bound"
      BY <2>2 DEF Protocol, OldPrompt, BoundPrompt
    <2>4. Times'
      BY <1>1, <1>2, <1>6, <2>1, <2>2 DEF Protocol, Times, Leaves, RowsTyped, Projection
    <2>5. TurnShape' /\ PumpShape' /\ SubmittedWaits' /\ PromptTurn'
      BY <1>1, <2>1 DEF TurnShape, PumpShape, SubmittedWaits, PromptTurn
    <2>6. TouchedIsAdmitted'
      <3>1. \A r \in Streamed : IsOpen(r)' => r # db.turn.request
                                /\ db'.request[r].status = db.request[r].status
                                /\ db'.request[r].session = db.request[r].session
        BY <1>2, <1>6 DEF Leaves, IsOpen, Open, Terminal, RowsTyped
      <3>2. \A r \in Streamed : IsOpen(r)' /\ Touched(r)' => IsOpen(r) /\ Touched(r)
        BY <1>1, <3>1 DEF Touched, IsOpen
      <3> QED
        BY <2>1, <3>1, <3>2 DEF Protocol, TouchedIsAdmitted, TurnShape
    <2>7. OldPrompt' /\ BoundPrompt' /\ OldTurn' /\ Leftover' /\ StopTurnIsOwn'
      BY <1>1, <2>1, <2>3 DEF OldPrompt, BoundPrompt, OldTurn, Leftover, StopTurnIsOwn, Own, Here
    <2>8. FileOfTurn'
      <3> SUFFICES ASSUME NEW s \in Sessions, file[s].mode = "bound"
                   PROVE  \E u \in db'.unprojected : u.session = s /\ u.at >= file[s].at
        BY <1>1 DEF FileOfTurn
      <3>1. db.turn.session = s /\ db.turn.request \in Streamed
        BY <1>2, <2>1, <2>2 DEF Protocol, FileOfTurn, TurnShape
      <3>2. db.turn.request # NoRequest
        BY <1>2, <3>1 DEF RowsTyped
      <3> DEFINE u == [session |-> s, request |-> db.turn.request, at |-> clock + 1]
      <3>3. u \in db'.unprojected /\ u.session = s /\ u.at = clock + 1
        BY <1>6, <3>1, <3>2 DEF Leaves
      <3>4. file[s].at <= clock /\ file[s].at \in Nat
        BY <1>2 DEF Protocol, Times, RowsTyped
      <3> HIDE DEF u
      <3> QED
        BY <1>2, <3>3, <3>4
    <2>9. FileTimes' /\ StopFile' /\ WorkFile'
      BY <1>1 DEF Protocol, FileTimes, StopFile, WorkFile, Lives, Here
    <2>10. StrangersKeptOut' /\ StrangerAtWork'
      BY <2>1 DEF StrangersKeptOut, StrangerAtWork, Stranger, Own
    <2>11. \A r \in Streamed : db'.request[r].status = "queued" => db.request[r].status = "queued"
      BY <1>2, <1>6 DEF Leaves, Terminal, RowsTyped
    <2>12. Clean'
      <3> SUFFICES ASSUME spent.faults = 0
                   PROVE  CleanHooks' /\ CleanSend' /\ CleanTyped' /\ CleanDoing' /\ CleanPrompt'
                          /\ CleanPending' /\ CleanQueued'
        BY <1>1 DEF Clean
      <3>1. CleanHooks /\ CleanTyped /\ CleanDoing /\ CleanPrompt /\ CleanPending /\ CleanQueued
        BY DEF Protocol, Clean
      <3>2. \A r \in Streamed : db'.request[r].session = db.request[r].session
                                /\ (db.request[r].status # "started" => db'.request[r].status # "started")
        BY <1>2, <1>6 DEF Leaves, Terminal, RowsTyped
      <3>3. CleanHooks' /\ CleanSend' /\ CleanTyped' /\ CleanDoing' /\ CleanPrompt'
        BY <1>1, <1>6, <2>2, <3>1 DEF CleanHooks, CleanSend, CleanTyped, CleanDoing, CleanPrompt, Here
      <3>4. CleanPending' /\ CleanQueued'
        BY <1>1, <2>1, <2>11, <3>1, <3>2 DEF CleanPending, CleanQueued
      <3> QED
        BY <3>3, <3>4
    <2>13. QueuedWaits'
      BY <1>1, <1>6, <2>11 DEF Protocol, QueuedWaits, Waits
    <2> QED
      BY <1>3, <1>4, <2>4, <2>5, <2>6, <2>7, <2>8, <2>9, <2>10, <2>12, <2>13 DEF Protocol
  <1> QED
    BY <1>5, <1>6, RecoverEffect

\* A binding file keeps what is newer than what is written.
LEMMA WriteEffect ==
    ASSUME NEW f, FilesFit(f), NEW s \in Sessions, NEW mode, NEW r, NEW at
    PROVE  LET g == Write(f, s, mode, r, at) IN
           /\ \A t \in Sessions \ {s} : g[t] = f[t]
           /\ f[s].at > at => g[s] = f[s]
           /\ ~(f[s].at > at) => g[s].mode = mode /\ g[s].request = r /\ g[s].at = at
  BY DEF Write, FilesFit

LEMMA ProtocolProjects ==
    ASSUME StateInv, Protocol, NEW p \in db.unprojected, Project(p)
    PROVE  Protocol'
  <1>1. /\ UNCHANGED <<conv, clock, pump, runtime, hooks, spent>>
        /\ file' = Write(file, p.session, "closed", p.request, p.at)
    BY DEF Project, PumpKeeps
  <1>2. db'.turn = db.turn /\ db'.request = db.request /\ db'.events = db.events
        /\ db'.unprojected = db.unprojected \ {p}
    BY DEF Project, StateInv, DataInv, Database
  <1>3. RowsTyped /\ p \in Projection /\ p.session \in Sessions /\ p.at \in Nat /\ p.at <= clock
    BY StateRows DEF RowsTyped, Projection, Protocol, Times
  <1>4. ~Active(db) /\ ~Active(db)' /\ db.turn.status = "none" /\ db'.turn.status = "none"
    BY <1>2 DEF Protocol, TurnShape, Active
  <1>5. \A s \in Sessions : \/ s = p.session /\ file'[s].mode = "closed" /\ file'[s].at = p.at
                            \/ /\ file'[s] = file[s]
                               /\ s = p.session => file[s].at > p.at
    BY <1>1, <1>3, WriteEffect DEF StateInv
  <1>6. Times'
    BY <1>1, <1>2, <1>3, <1>4, <1>5 DEF Protocol, Times
  <1>7. Phases'
    BY <1>1, PhasesStay DEF Protocol
  <1>8. TurnShape' /\ PumpShape' /\ SubmittedWaits' /\ PromptTurn'
    BY <1>1, <1>2, <1>4 DEF Protocol, TurnShape, PumpShape, SubmittedWaits, PromptTurn
  <1>9. TouchedIsAdmitted'
    BY <1>1, <1>2 DEF Protocol, TouchedIsAdmitted, Touched, IsOpen, Active
  <1>10. OldPrompt' /\ BoundPrompt' /\ OldTurn' /\ Leftover' /\ StopTurnIsOwn'
    BY <1>1, <1>2, <1>4 DEF Protocol, OldPrompt, BoundPrompt, OldTurn, Leftover, StopTurnIsOwn, Own,
       Here, Active
  <1>11. FileOfTurn'
    <2> SUFFICES ASSUME NEW s \in Sessions, file'[s].mode = "bound"
                 PROVE  \E u \in db'.unprojected : u.session = s /\ u.at >= file'[s].at
      BY DEF FileOfTurn
    <2>1. file'[s] = file[s] /\ (s = p.session => file[s].at > p.at)
      BY <1>5
    <2>2. PICK u \in db.unprojected : u.session = s /\ u.at >= file[s].at
      BY <1>4, <2>1 DEF Protocol, FileOfTurn
    <2>3. file[s].at \in Nat
      BY <1>3 DEF RowsTyped
    <2>4. u # p
      BY <1>3, <2>1, <2>2, <2>3
    <2> QED
      BY <1>2, <2>1, <2>2, <2>4
  <1>12. FileTimes' /\ StopFile' /\ WorkFile'
    <2>1. \A h \in hooks : h.session \in Sessions
      BY <1>3 DEF RowsTyped, HookRow
    <2>2. runtime.session \in Sessions
      BY <1>3 DEF RowsTyped
    <2> QED
      BY <1>1, <1>5, <2>1, <2>2 DEF Protocol, FileTimes, StopFile, WorkFile, Lives, Here
  <1>13. StrangersKeptOut' /\ StrangerAtWork'
    BY <1>4 DEF StrangersKeptOut, StrangerAtWork, Stranger, Own
  <1>14. Clean'
    BY <1>1, <1>2 DEF Protocol, Clean, CleanHooks, CleanSend, CleanTyped, CleanDoing, CleanPrompt,
       CleanPending, CleanQueued, Here, Active, Fresh
  <1>15. QueuedWaits'
    BY <1>1, <1>2, <1>4 DEF Protocol, QueuedWaits, Waits
  <1>16. ActivityStaysInItsTurn'
    BY <1>2 DEF Protocol, ActivityStaysInItsTurn
  <1> QED
    BY <1>6, <1>7, <1>8, <1>9, <1>10, <1>11, <1>12, <1>13, <1>14, <1>15, <1>16 DEF Protocol

LEMMA ProtocolAdmits ==
    ASSUME StateInv, Protocol, NEW i \in Items, Admit(i)
    PROVE  Protocol'
  <1>1. /\ Oldest(i) /\ db.unprojected = {} /\ Blocking(i) = {}
        /\ Active(db) => db.turn.status = "submitted" /\ db.turn.quiet
        /\ clock' = clock + 1 /\ pump' = [step |-> "send", item |-> i]
        /\ UNCHANGED <<file, conv, runtime, hooks, spent>>
    BY DEF Admit, PumpKeeps
  <1>2. /\ db'.turn.status = "submitted" /\ db'.turn.item = i
        /\ db'.turn.request = IF i \in Streamed THEN i ELSE NoRequest
        /\ db'.turn.since = clock + 1 /\ db'.turn.binding = "pending"
        /\ db'.turn.quiet = FALSE /\ db'.turn.watched = FALSE
        /\ db'.request = db.request /\ db'.events = db.events /\ db'.unprojected = {}
    <2>1. db' = Admitted(db, i, clock + 1)
      BY StateAdmits
    <2>2. clock + 1 \in Nat /\ db \in Database
      BY DEF StateInv, DataInv
    <2>3. /\ db'.turn = NewTurn(db, i, clock + 1) /\ db'.request = db.request
          /\ db'.events = db.events /\ db'.unprojected = db.unprojected
      BY <2>1, <2>2, AdmittedEffect
    <2> QED
      BY <1>1, <2>3 DEF NewTurn
  <1>3. RowsTyped /\ clock \in Nat
    BY StateRows DEF RowsTyped
  <1>4. /\ pump.step = "rest" /\ conv[i] = "pending"
        /\ \A o \in Items : conv[o] = "pending" => i <= o
        /\ runtime.prompted => runtime.doing = NoRequest
        /\ \A p \in hooks : p.kind # "prompt"
        /\ \A r \in Streamed : ~Waits(r)
    <2>1. /\ pump.step = "rest" /\ conv[i] = "pending"
          /\ \A o \in Items : conv[o] = "pending" => i <= o
          /\ runtime.prompted => runtime.doing = NoRequest
      BY <1>1, IdleMeans
    <2>2. \A p \in hooks : p.kind # "prompt"
      <3>1. \A p \in hooks : p.kind = "prompt" => Active(db) /\ ~db.turn.quiet
        BY <1>1, IdleMeans
      <3> QED
        BY <1>1, <3>1
    <2>3. \A r \in Streamed : ~Waits(r)
      <3>1. \A r \in Streamed : Waits(r) => WaitsTyped(r)
        BY <1>1, IdleMeans
      <3> QED
        BY <1>1, <3>1 DEF WaitsTyped, Active
    <2> QED
      BY <2>1, <2>2, <2>3
  <1>5. \A h \in hooks : h.seen < clock + 1
    BY <1>3 DEF RowsTyped, HookRow
  <1>6. \A s \in Sessions : file[s].mode # "bound"
    BY <1>1 DEF Protocol, FileOfTurn, Active
  <1>7. \A r \in Streamed : db.request[r].status = "queued" => conv[r] # "delivered"
    BY <1>4 DEF Protocol, QueuedWaits
  <1>8. Times'
    BY <1>1, <1>2, <1>3 DEF Protocol, Times, RowsTyped
  <1>9. Phases'
    BY <1>1, PhasesStay DEF Protocol
  <1>10. TurnShape' /\ PumpShape'
    BY <1>1, <1>2, <1>4 DEF TurnShape, PumpShape
  <1>11. TouchedIsAdmitted'
    <2> SUFFICES ASSUME NEW r \in Streamed, IsOpen(r), Touched(r)'
                 PROVE  r = i
      BY <1>2 DEF TouchedIsAdmitted, Active, IsOpen
    <2>1. CASE Touched(r)
      <3>1. Active(db) /\ db.turn.item = r /\ r \in Items
        BY <1>3, <2>1 DEF Protocol, TouchedIsAdmitted, RowsTyped
      <3>2. CASE conv[r] = "pending"
        <4>1. r <= i /\ i <= r /\ r \in Nat /\ i \in Nat
          BY <1>3, <1>4, <3>1, <3>2 DEF Protocol, TurnShape, RowsTyped
        <4> QED
          BY <4>1
      <3>3. CASE conv[r] # "pending"
        <4>1. db.request[r].status = "started"
          BY <1>3, <1>7, <3>1, <3>3 DEF IsOpen, Open, RowsTyped
        <4> QED
          BY <1>1, <4>1 DEF Blocking
      <3> QED
        BY <3>2, <3>3
    <2>2. CASE ~Touched(r)
      BY <1>1, <1>2, <2>2 DEF Touched
    <2> QED
      BY <2>1, <2>2
  <1>12. SubmittedWaits' /\ PromptTurn' /\ OldPrompt' /\ BoundPrompt' /\ OldTurn'
    BY <1>1, <1>2, <1>3, <1>4, <1>5 DEF SubmittedWaits, PromptTurn, OldPrompt, BoundPrompt, OldTurn, Fresh,
       RowsTyped, HookRow
  <1>13. Leftover' /\ StopTurnIsOwn' /\ FileOfTurn'
    BY <1>1, <1>2, <1>6 DEF Leftover, StopTurnIsOwn, FileOfTurn, Own
  <1>14. FileTimes' /\ StopFile' /\ WorkFile'
    BY <1>1 DEF Protocol, FileTimes, StopFile, WorkFile, Lives, Here
  <1>15. StrangersKeptOut' /\ StrangerAtWork'
    BY <1>2 DEF StrangersKeptOut, StrangerAtWork, Stranger, Own
  <1>16. Clean'
    <2> SUFFICES ASSUME spent.faults = 0
                 PROVE  CleanHooks' /\ CleanSend' /\ CleanTyped' /\ CleanDoing' /\ CleanPrompt'
                        /\ CleanPending' /\ CleanQueued'
      BY <1>1 DEF Clean
    <2>1. CleanHooks /\ CleanTyped /\ CleanPending
      BY DEF Protocol, Clean
    <2>2. runtime.typed = {} /\ runtime.doing = NoRequest
      BY <1>1, <1>4, <2>1 DEF CleanTyped, CleanHooks, Active
    <2>3. CleanHooks' /\ CleanTyped' /\ CleanDoing' /\ CleanPrompt'
      BY <1>1, <1>4, <2>1, <2>2 DEF CleanHooks, CleanTyped, CleanDoing, CleanPrompt, Here
    <2>4. CleanSend'
      BY <1>1, <1>2, <1>3, <1>5, <2>2 DEF CleanSend, Fresh, RowsTyped, HookRow
    <2>5. CleanPending' /\ CleanQueued'
      BY <1>1, <1>2, <1>7, <2>1 DEF CleanPending, CleanQueued
    <2> QED
      BY <2>3, <2>4, <2>5
  <1>17. QueuedWaits'
    BY <1>1, <1>2, <1>7 DEF QueuedWaits
  <1>18. ActivityStaysInItsTurn'
    BY <1>2 DEF Protocol, ActivityStaysInItsTurn
  <1> QED
    BY <1>8, <1>9, <1>10, <1>11, <1>12, <1>13, <1>14, <1>15, <1>16, <1>17, <1>18 DEF Protocol

LEMMA ProtocolSends ==
    ASSUME StateInv, Protocol, Send
    PROVE  Protocol'
  <1> DEFINE i == pump.item
  <1>1. RowsTyped /\ i \in Items
    BY StateRows DEF RowsTyped, Send
  <1>2. /\ pump.step = "send"
        /\ runtime'.session = runtime.session /\ runtime'.typed = runtime.typed \cup {i}
        /\ runtime'.doing = runtime.doing /\ runtime'.prompted = runtime.prompted
        /\ \/ i \in Streamed /\ pump'.step = "sent" /\ pump'.item = i
           \/ i \notin Streamed /\ pump'.step = "rest"
        /\ UNCHANGED <<db, file, clock, hooks, spent>>
    BY DEF Send, Release, StateInv, RuntimeFits, PumpFits
  <1>3. conv'[i] = "delivered" /\ \A o \in Items \ {i} : conv'[o] = conv[o]
    BY <1>1 DEF Send, StateInv
  <1> HIDE DEF i
  <1>4. conv[i] = "pending" /\ (\A o \in Items : conv[o] = "pending" => i <= o)
        /\ (Active(db) => ~db.turn.quiet /\ db.turn.item = i)
    BY <1>2 DEF Protocol, PumpShape, i
  <1>5. Times'
    BY <1>2 DEF Protocol, Times, Active
  <1>6. Phases'
    BY <1>2, PhasesStay DEF Protocol
  <1>7. TurnShape' /\ PumpShape'
    BY <1>1, <1>2, <1>3, <1>4 DEF Protocol, TurnShape, PumpShape, Active, RowsTyped
  <1>8. TouchedIsAdmitted'
    <2> SUFFICES ASSUME NEW r \in Streamed, IsOpen(r), Touched(r)'
                 PROVE  Touched(r)
      BY <1>2 DEF Protocol, TouchedIsAdmitted, IsOpen
    <2>1. CASE r = i
      BY <1>2, <2>1 DEF Touched, i
    <2>2. CASE r # i
      BY <1>1, <1>2, <1>3, <2>2 DEF Touched, RowsTyped
    <2> QED
      BY <2>1, <2>2
  <1>9. SubmittedWaits' /\ PromptTurn' /\ OldPrompt' /\ BoundPrompt' /\ OldTurn'
    BY <1>2 DEF Protocol, SubmittedWaits, PromptTurn, OldPrompt, BoundPrompt, OldTurn, Own, Fresh, Here,
       Void, IsOpen, Active
  <1>10. Leftover' /\ StopTurnIsOwn' /\ FileOfTurn'
    BY <1>2 DEF Protocol, Leftover, StopTurnIsOwn, FileOfTurn, Own, Here, Void, IsOpen, Unfinished, Fresh
  <1>11. FileTimes' /\ StopFile' /\ WorkFile'
    BY <1>2 DEF Protocol, FileTimes, StopFile, WorkFile, Lives, Here
  <1>12. StrangersKeptOut' /\ StrangerAtWork'
    BY <1>2 DEF Protocol, StrangersKeptOut, StrangerAtWork, Stranger, KeptOut, Own, Past, Lives, Here, Void,
       IsOpen, Fresh
  <1>13. ASSUME spent.faults = 0
         PROVE  /\ CleanHooks /\ CleanTyped /\ CleanDoing /\ CleanPrompt /\ CleanPending /\ CleanQueued
                /\ db.turn.status = "submitted" /\ db.turn.item = i
                /\ runtime.typed = {} /\ runtime.doing = NoRequest
    BY <1>2, <1>13 DEF Protocol, Clean, CleanSend, i
  <1>14. Clean'
    <2> SUFFICES ASSUME spent.faults = 0
                 PROVE  CleanHooks' /\ CleanSend' /\ CleanTyped' /\ CleanDoing' /\ CleanPrompt'
                        /\ CleanPending' /\ CleanQueued'
      BY <1>2 DEF Clean
    <2>1. CleanHooks' /\ CleanSend' /\ CleanTyped' /\ CleanDoing' /\ CleanPrompt'
      BY <1>2, <1>4, <1>13 DEF CleanHooks, CleanSend, CleanTyped, CleanDoing, CleanPrompt, Here, Active
    <2>2. CleanPending'
      BY <1>1, <1>2, <1>3, <1>13 DEF CleanPending, Active
    <2>3. CleanQueued'
      BY <1>1, <1>2, <1>3, <1>13 DEF CleanQueued, RowsTyped
    <2> QED
      BY <2>1, <2>2, <2>3
  <1>15. QueuedWaits'
    <2> SUFFICES ASSUME NEW r \in Streamed, db.request[r].status = "queued", conv'[r] = "delivered"
                 PROVE  \/ pump'.step = "sent" /\ pump'.item = r /\ spent.faults >= 1
                        \/ Waits(r)'
      BY <1>2 DEF QueuedWaits
    <2>1. r = i
      BY <1>1, <1>2, <1>3 DEF Protocol, QueuedWaits, Waits, RowsTyped
    <2>2. CASE spent.faults # 0
      BY <1>1, <1>2, <2>1, <2>2 DEF RowsTyped
    <2>3. CASE spent.faults = 0
      <3>1. Active(db) /\ ~db.turn.quiet /\ ~db.turn.watched
        BY <1>4, <1>13, <2>3 DEF Active, Protocol, TurnShape
      <3>2. db.request[r].session = NoSession
        BY <1>1, <1>4, <1>13, <2>1, <2>3 DEF CleanPending
      <3>3. WaitsTyped(r)'
        BY <1>2, <1>13, <2>1, <2>3, <3>1, <3>2 DEF WaitsTyped
      <3> QED
        BY <1>2, <1>13, <2>1, <2>3, <3>1, <3>3 DEF Waits, CleanHooks, Here, Active
    <2> QED
      BY <2>2, <2>3
  <1>16. ActivityStaysInItsTurn'
    BY <1>2 DEF Protocol, ActivityStaysInItsTurn
  <1> QED
    BY <1>5, <1>6, <1>7, <1>8, <1>9, <1>10, <1>11, <1>12, <1>14, <1>15, <1>16 DEF Protocol
LEMMA ProtocolSendFails ==
    ASSUME MaxFaults <= 1, StateInv, Protocol, NEW pasted \in BOOLEAN, SendFails(pasted)
    PROVE  Protocol'
  <1>1. /\ spent.faults = 0 /\ spent'.faults = 1
        /\ CleanHooks /\ CleanSend /\ CleanPending /\ CleanQueued
    BY FaultIsFirst DEF SendFails
  <1>2. /\ pump.step = "send" /\ pump'.step = "rest"
        /\ UNCHANGED <<file, conv, clock, hooks>>
    BY DEF SendFails, Release
  <1>3. RowsTyped
    BY StateRows
  <1>4. /\ db.turn.status = "submitted" /\ db.turn.item = pump.item /\ Active(db)
        /\ runtime.typed = {} /\ runtime.doing = NoRequest /\ \A h \in hooks : ~Fresh(h)
        /\ conv[pump.item] = "pending"
    BY <1>1, <1>2 DEF CleanSend, Active, Protocol, PumpShape
  <1>5. /\ db'.request = db.request /\ db'.events = db.events /\ db'.unprojected = db.unprojected
        /\ runtime'.session = runtime.session /\ runtime'.doing = runtime.doing
        /\ runtime'.prompted = runtime.prompted
        /\ \/ db'.turn = NoTurn /\ runtime' = runtime
           \/ db'.turn = db.turn /\ runtime'.typed \subseteq {pump.item}
    <2>1. CASE db' = WithTurn(db, NoTurn) /\ UNCHANGED runtime
      <3>1. db \in Database
        BY DEF StateInv, DataInv
      <3> QED
        BY <2>1, <3>1, TurnIsWritten
    <2>2. CASE db' = db /\ \/ UNCHANGED runtime
                           \/ runtime' = [runtime EXCEPT !.typed = @ \cup {pump.item}]
      BY <1>4, <2>2 DEF StateInv, RuntimeFits
    <2> QED
      BY <1>4, <2>1, <2>2, SendFailsCases
  <1>6. \A p \in hooks : p.kind # "prompt"
    BY <1>4 DEF Protocol, PromptTurn
  <1>7. Phases'
    BY <1>1, <1>2, <1>5 DEF Protocol, Phases, PromptAlone, StopAlone, Resting, Working, OfDoing, OneFault,
       Lives, Here, CleanHooks
  <1>8. Times' /\ TurnShape' /\ PumpShape'
    BY <1>2, <1>4, <1>5 DEF Protocol, Times, TurnShape, PumpShape, Active, NoTurn
  <1>9. QueuedWaits'
    BY <1>1, <1>2, <1>5 DEF CleanQueued, QueuedWaits
  <1>10. Clean' /\ ActivityStaysInItsTurn'
    BY <1>1, <1>5 DEF Protocol, Clean, ActivityStaysInItsTurn
  <1>11. FileTimes' /\ StopFile' /\ WorkFile'
    BY <1>2, <1>5 DEF Protocol, FileTimes, StopFile, WorkFile, Lives, Here
  <1>12. FileOfTurn'
    BY <1>2, <1>4, <1>5 DEF Protocol, FileOfTurn, TurnShape
  <1>13. OldPrompt' /\ BoundPrompt' /\ PromptTurn'
    BY <1>2, <1>6 DEF OldPrompt, BoundPrompt, PromptTurn
  <1>14. db'.turn.status \in {"none", "submitted"}
    BY <1>4, <1>5 DEF NoTurn
  <1>15. OldTurn' /\ Leftover' /\ StopTurnIsOwn' /\ StrangersKeptOut' /\ StrangerAtWork'
    BY <1>14 DEF OldTurn, Leftover, StopTurnIsOwn, StrangersKeptOut, StrangerAtWork, Stranger, Own
  <1>16. SubmittedWaits'
    BY <1>2, <1>4, <1>5 DEF Protocol, SubmittedWaits, Fresh, NoTurn
  <1>17. TouchedIsAdmitted'
    <2> SUFFICES ASSUME NEW r \in Streamed, IsOpen(r), Touched(r)'
                 PROVE  Active(db)' /\ db'.turn.item = r
      BY <1>5 DEF TouchedIsAdmitted, IsOpen
    <2>1. Touched(r)
      BY <1>2, <1>5 DEF Touched
    <2>2. db.turn.item = r /\ r \in Items
      BY <1>3, <2>1 DEF Protocol, TouchedIsAdmitted, RowsTyped
    <2>3. CASE db'.turn = NoTurn /\ runtime' = runtime
      BY <1>1, <1>2, <1>4, <1>5, <2>2, <2>3 DEF CleanPending, Touched
    <2>4. CASE db'.turn = db.turn
      BY <1>4, <2>2, <2>4 DEF Active
    <2> QED
      BY <1>5, <2>3, <2>4
  <1> QED
    BY <1>7, <1>8, <1>9, <1>10, <1>11, <1>12, <1>13, <1>15, <1>16, <1>17 DEF Protocol

LEMMA ProtocolRecordsStart ==
    ASSUME StateInv, Protocol, RecordStart
    PROVE  Protocol'
  <1> DEFINE i == pump.item
  <1>1. RowsTyped
    BY StateRows
  <1>2. /\ i \in Streamed /\ i \in Items /\ pump.step = "sent" /\ pump'.step = "rest"
        /\ conv[i] = "delivered" /\ UNCHANGED <<file, conv, clock, runtime, hooks, spent>>
    BY <1>1, StateRecordsStart DEF RecordStart, Release, PumpKeeps, Protocol, PumpShape, RowsTyped
  <1>3. /\ db'.turn = db.turn /\ db'.unprojected = db.unprojected
        /\ \A o \in Streamed : /\ db'.request[o].session = db.request[o].session
                               /\ o # i => db'.request[o].status = db.request[o].status
        /\ db'.request[i].status = IF db.request[i].status = "queued"
                                   THEN "started" ELSE db.request[i].status
    BY StateRecordsStart
  <1>4. db'.events = db.events
    BY <1>2, StartRunEffect DEF RecordStart, StateInv, DataInv, EndsAs
  <1> HIDE DEF i
  <1>5. /\ \A r \in Streamed : IsOpen(r)' <=> IsOpen(r)
        /\ Active(db)' <=> Active(db)
        /\ Own' <=> Own
        /\ \A h : Fresh(h)' <=> Fresh(h)
    BY <1>2, <1>3 DEF IsOpen, Open, Active, Own, Fresh
  <1>6. TurnShape /\ Active(db) => (Void' <=> Void)
    BY <1>3, <1>5 DEF TurnShape, Void
  <1>7. Phases'
    BY <1>2, PhasesStay DEF Protocol
  <1>8. Times' /\ TurnShape' /\ PumpShape'
    BY <1>2, <1>3, <1>5 DEF Protocol, Times, TurnShape, PumpShape
  <1>9. TouchedIsAdmitted'
    <2> SUFFICES ASSUME NEW r \in Streamed, IsOpen(r), Touched(r)'
                 PROVE  Touched(r)
      BY <1>3, <1>5 DEF Protocol, TouchedIsAdmitted
    <2> QED
      BY <1>2, <1>3 DEF Touched
  <1>10. SubmittedWaits' /\ PromptTurn' /\ OldPrompt' /\ BoundPrompt' /\ OldTurn'
    BY <1>2, <1>3, <1>5, <1>6 DEF Protocol, SubmittedWaits, PromptTurn, OldPrompt, BoundPrompt, OldTurn, Here
  <1>11. Leftover' /\ StopTurnIsOwn' /\ FileOfTurn'
    BY <1>2, <1>3, <1>5, <1>6 DEF Protocol, Leftover, StopTurnIsOwn, FileOfTurn, Here, Unfinished, Own, Active
  <1>12. FileTimes' /\ StopFile' /\ WorkFile'
    BY <1>2 DEF Protocol, FileTimes, StopFile, WorkFile, Lives, Here
  <1>13. StrangersKeptOut' /\ StrangerAtWork'
    BY <1>2, <1>3, <1>5, <1>6 DEF Protocol, StrangersKeptOut, StrangerAtWork, Stranger, KeptOut, Past,
       Lives, Here, Own, Active
  <1>14. Clean'
    <2> SUFFICES ASSUME spent.faults = 0
                 PROVE  CleanHooks' /\ CleanSend' /\ CleanTyped' /\ CleanDoing' /\ CleanPrompt'
                        /\ CleanPending' /\ CleanQueued'
      BY <1>2 DEF Clean
    <2>1. CleanHooks /\ CleanTyped /\ CleanDoing /\ CleanPrompt /\ CleanPending /\ CleanQueued
      BY DEF Protocol, Clean
    <2>2. CleanHooks' /\ CleanSend' /\ CleanTyped' /\ CleanDoing' /\ CleanPrompt'
      BY <1>2, <1>3, <1>5, <2>1 DEF CleanHooks, CleanSend, CleanTyped, CleanDoing, CleanPrompt, Here
    <2>3. CleanPending' /\ CleanQueued'
      BY <1>2, <1>3, <2>1 DEF CleanPending, CleanQueued, Active, i
    <2> QED
      BY <2>2, <2>3
  <1>15. QueuedWaits'
    <2> SUFFICES ASSUME NEW r \in Streamed, db'.request[r].status = "queued", conv[r] = "delivered"
                 PROVE  Waits(r)'
      BY <1>2 DEF QueuedWaits
    <2>1. r # i /\ Waits(r)
      BY <1>2, <1>3 DEF Protocol, QueuedWaits, i
    <2> QED
      BY <1>2, <1>3, <1>5, <2>1 DEF Waits, WaitsTyped, WaitsPrompt, WaitsWork, WaitsStop, Here
  <1>16. ActivityStaysInItsTurn'
    BY <1>4 DEF Protocol, ActivityStaysInItsTurn
  <1> QED
    BY <1>7, <1>8, <1>9, <1>10, <1>11, <1>12, <1>13, <1>14, <1>15, <1>16 DEF Protocol

\* Requests end by the agent's reply, the gate of the dispatcher, the supervisor's expiry.
LEMMA ProtocolReplies ==
    ASSUME StateInv, Protocol, NEW sent \in BOOLEAN, SendReply(sent)
    PROVE  Protocol'
  <1> DEFINE r == runtime.doing
  <1>1. /\ r \in Streamed /\ db \in Database
        /\ db' = IF sent THEN CompleteRun(db, r, "sent") ELSE FailRun(db, r)
        /\ UNCHANGED <<file, conv, pump, runtime, hooks, clock, spent>>
    BY DEF SendReply, StateInv, DataInv
  <1>2. AtMostEnds(db, db', r) /\ db'.events = db.events
    BY <1>1, FailIsEnd, CompleteIsEnd DEF Texts
  <1>3. Ends(db, db')
    BY <1>1, <1>2 DEF AtMostEnds, Ends
  <1> QED
    BY <1>1, <1>3, ProtocolEnds

LEMMA ProtocolUnblocks ==
    ASSUME StateInv, Protocol, NEW i \in Items, Unblock(i)
    PROVE  Protocol'
  <1>1. PICK r \in Blocking(i) : db' = FailRun(db, r)
    BY DEF Unblock
  <1>2. /\ r \in Streamed /\ db \in Database
        /\ UNCHANGED <<file, conv, pump, runtime, hooks, clock, spent>>
    BY DEF Unblock, PumpKeeps, Blocking, StateInv, DataInv
  <1>3. AtMostEnds(db, db', r) /\ db'.events = db.events
    BY <1>1, <1>2, FailIsEnd
  <1>4. Ends(db, db')
    BY <1>2, <1>3 DEF AtMostEnds, Ends
  <1> QED
    BY <1>2, <1>4, ProtocolEnds

LEMMA ProtocolExpires ==
    ASSUME StateInv, Protocol, ExpireStaleRuns
    PROVE  Protocol'
  <1> DEFINE rs == {r \in Streamed : Silent(r)}
  <1>1. /\ db' = FailRuns(db, rs) /\ rs \in SUBSET Streamed /\ db \in Database
        /\ UNCHANGED <<file, conv, pump, runtime, hooks, clock, spent>>
    BY DEF ExpireStaleRuns, StateInv, DataInv
  <1> HIDE DEF rs
  <1>2. /\ db'.turn = db.turn /\ db'.events = db.events /\ db'.unprojected = db.unprojected
        /\ \A r \in Streamed \ rs : db'.request[r] = db.request[r]
        /\ \A r \in rs : /\ db'.request[r].status = "failed"
                         /\ db'.request[r].session = db.request[r].session
    BY <1>1, FailRunsEffect
  <1>3. Ends(db, db')
    BY <1>1, <1>2 DEF Ends, Terminal
  <1> QED
    BY <1>1, <1>3, ProtocolEnds
-----------------------------------------------------------------------------
(* The hooks *)
LEMMA ProtocolReports ==
    ASSUME StateInv, Protocol, NEW h \in hooks, HookReports(h)
    PROVE  Protocol'
  <1>1. h.kind \in {"tool", "post"}
    BY StateRows DEF HookReports, RowsTyped, HookRow
  <1>2. HookEnds(h) /\ UNCHANGED <<file, conv, pump, runtime, clock, spent>>
    BY ToEnds DEF HookReports, HookKeeps
  <1> QED
    BY <1>1, <1>2, ReportEffect, ProtocolTells

LEMMA ProtocolAppends ==
    ASSUME StateInv, Protocol, NEW h \in hooks, HookAppends(h)
    PROVE  Protocol'
  <1>1. h.kind \in {"reasoning", "answer"}
    BY StateRows DEF HookAppends, RowsTyped, HookRow
  <1>2. HookEnds(h) \/ HookGoes(h, h.request, "mark")
    BY ToEnds, ToGoes DEF HookAppends
  <1>3. UNCHANGED <<file, conv, pump, runtime, clock, spent>>
    BY DEF HookAppends, HookKeeps
  <1> QED
    BY <1>1, <1>2, <1>3, AppendsEffect, ProtocolTells

LEMMA ProtocolMarks ==
    ASSUME StateInv, Protocol, NEW h \in hooks, HookMarks(h)
    PROVE  Protocol'
  <1>1. h.kind \in {"reasoning", "answer"}
    BY StateRows DEF HookMarks, RowsTyped, HookRow
  <1>2. HookEnds(h) /\ UNCHANGED <<file, conv, pump, runtime, clock, spent>>
    BY ToEnds DEF HookMarks, HookKeeps
  <1> QED
    BY <1>1, <1>2, MarksEffect, ProtocolTells

LEMMA ProtocolCloses ==
    ASSUME StateInv, Protocol, NEW h \in hooks, HookCloses(h)
    PROVE  Protocol'
  <1>1. RowsTyped /\ HookRow(h) /\ h.kind = "stop" /\ h.step = "close" /\ h.session \in Sessions
    BY StateRows DEF HookCloses, RowsTyped, HookRow
  <1>2. hooks' = hooks \ {h} /\ UNCHANGED <<conv, pump, runtime, clock, spent>>
    BY ToEnds DEF HookCloses, HookKeeps, HookEnds
  <1>3. /\ db'.turn = db.turn /\ db'.request = db.request /\ db'.events = db.events
        /\ db'.unprojected \subseteq db.unprojected
        /\ \A u \in db.unprojected : u.session # h.session \/ u.at # h.at => u \in db'.unprojected
    BY DEF HookCloses, StateInv, DataInv, Database
  <1>4. \A s \in Sessions : \/ s = h.session /\ file'[s].mode = "closed" /\ file'[s].at = h.at
                            \/ /\ file'[s] = file[s]
                               /\ s = h.session => file[s].at > h.at
    BY <1>1, WriteEffect DEF StateInv, HookCloses
  <1>5. \A p \in hooks : p.session = h.session => p = h \/ p.kind = "post"
    BY <1>1 DEF Protocol, Phases, StopAlone
  <1>6. Here(h) => runtime.doing = NoRequest
    BY <1>1 DEF Protocol, Phases, Working, Lives
  <1>7. Phases'
    BY <1>2, PhasesGoOn DEF Protocol, HookEnds
  <1>8. Times'
    BY <1>1, <1>2, <1>3, <1>4 DEF Protocol, Times, HookRow, Active
  <1>9. TurnShape' /\ PumpShape'
    BY <1>2, <1>3 DEF Protocol, TurnShape, PumpShape, Active
  <1>10. TouchedIsAdmitted'
    BY <1>2, <1>3 DEF Protocol, TouchedIsAdmitted, Touched, IsOpen, Active
  <1>11. SubmittedWaits' /\ PromptTurn' /\ OldPrompt' /\ BoundPrompt' /\ OldTurn'
    BY <1>1, <1>2, <1>3 DEF Protocol, SubmittedWaits, PromptTurn, OldPrompt, BoundPrompt, OldTurn, Own,
       Here, Fresh, Void, IsOpen, Active
  <1>12. Leftover' /\ StopTurnIsOwn'
    BY <1>1, <1>2, <1>3 DEF Protocol, Leftover, StopTurnIsOwn, Unfinished, Own, Here, Fresh, Void, IsOpen
  <1>13. FileOfTurn'
    <2> SUFFICES ASSUME NEW s \in Sessions, file'[s].mode = "bound",
                        NEW u \in db.unprojected, u.session = s, u.at >= file[s].at
                 PROVE  u \in db'.unprojected
      BY <1>3, <1>4 DEF Protocol, FileOfTurn
    <2>1. file[s].at \in Nat /\ h.at \in Nat /\ u.at \in Nat
      BY <1>1 DEF RowsTyped, HookRow, Projection
    <2>2. s = h.session => file[s].at > h.at
      BY <1>4
    <2> QED
      BY <1>3, <2>1, <2>2
  <1>14. FileTimes' /\ StopFile'
    <2>1. \A p \in hooks' : p.session \in Sessions /\ p \in hooks /\ p # h
      BY <1>1, <1>2 DEF RowsTyped, HookRow
    <2> QED
      BY <1>4, <1>5, <2>1 DEF Protocol, FileTimes, StopFile
  <1>15. WorkFile'
    <2>1. runtime.session \in Sessions
      BY <1>1 DEF RowsTyped
    <2> QED
      BY <1>1, <1>2, <1>4, <1>6, <2>1 DEF Protocol, WorkFile, Lives, Here
  <1>16. \A s \in Sessions : Past(s) => Past(s)'
    BY <1>1, <1>4 DEF Past
  <1>17. StrangersKeptOut'
    <2> SUFFICES ASSUME NEW g \in hooks, Stranger(g)
                 PROVE  KeptOut(g)'
      BY <1>2, <1>3 DEF StrangersKeptOut, Stranger, Fresh
    <2>1. KeptOut(g) /\ g.session \in Sessions
      BY <1>1 DEF Protocol, StrangersKeptOut, RowsTyped, HookRow
    <2> QED
      BY <1>3, <1>16, <2>1 DEF KeptOut, Void, IsOpen
  <1>18. StrangerAtWork'
    <2>1. runtime.session \in Sessions
      BY <1>1 DEF RowsTyped
    <2>2. Past(runtime.session) => Past(runtime.session)'
      BY <1>2, <1>16, <2>1 DEF Past
    <2>4. Lives({"prompt"}) => Lives({"prompt"})'
      BY <1>1, <1>2 DEF Lives, Here
    <2>5. (Own <=> Own') /\ (Void <=> Void')
      BY <1>2, <1>3 DEF Own, Void, IsOpen
    <2> QED
      BY <1>2, <1>3, <2>2, <2>4, <2>5 DEF Protocol, StrangerAtWork, Past
  <1>19. Clean'
    BY <1>2, <1>3 DEF Protocol, Clean, CleanHooks, CleanSend, CleanTyped, CleanDoing, CleanPrompt,
       CleanPending, CleanQueued, Here, Active, Fresh
  <1>20. \A r \in Streamed : Waits(r) => WaitsTyped(r)
    BY <1>1, <1>5, <1>6 DEF Waits, WaitsPrompt, WaitsWork, WaitsStop, RowsTyped, Here
  <1>21. QueuedWaits'
    <2>1. \A r \in Streamed : Waits(r) => Waits(r)'
      BY <1>2, <1>3, <1>20 DEF Waits, WaitsTyped, Active, Here
    <2> QED
      BY <1>2, <1>3, <2>1 DEF Protocol, QueuedWaits
  <1>22. ActivityStaysInItsTurn'
    BY <1>3 DEF Protocol, ActivityStaysInItsTurn
  <1> QED
    BY <1>7, <1>8, <1>9, <1>10, <1>11, <1>12, <1>13, <1>14, <1>15, <1>17, <1>18, <1>19, <1>21,
       <1>22 DEF Protocol
LEMMA ProtocolStopReads ==
    ASSUME StateInv, Protocol, NEW h \in hooks, StopReadsFile(h)
    PROVE  Protocol'
  <1>1. RowsTyped /\ HookRow(h) /\ h.kind = "stop" /\ h.step = "resolve" /\ h.session \in Sessions
    BY StateRows DEF StopReadsFile, RowsTyped, HookRow
  <1>2. db' = db /\ UNCHANGED <<file, conv, pump, runtime, clock, spent>>
    BY <1>1, ResolveCases DEF StopReadsFile, HookKeeps, Resolved
  <1>3. \E r : /\ Become(h, Told(h, r))
               /\ r = IF file[h.session].mode = "bound" THEN file[h.session].request ELSE NoRequest
    BY <1>1, ResolveCases DEF StopReadsFile, Resolved, GivesUp
  <1>4. PICK g : /\ SameHook(h, g) /\ g.step = "finish"
                 /\ g.request = IF file[h.session].mode = "bound" THEN file[h.session].request
                                ELSE NoRequest
                 /\ hooks' = (hooks \ {h}) \cup {g}
    <2>1. AfterResolve(h) = "finish"
      BY <1>1 DEF AfterResolve
    <2> QED
      BY <1>3, <2>1, ToldGoes DEF HookGoes
  <1>5. g.kind = "stop" /\ g.session = h.session /\ g.at = h.at /\ g.seen = h.seen /\ g.of = h.of
    BY <1>1, <1>4 DEF SameHook
  <1>6. Phases'
    BY <1>2, <1>4, PhasesGoOn DEF Protocol, HookGoes
  <1>7. Times' /\ TurnShape' /\ PumpShape'
    BY <1>2 DEF Protocol, Times, TurnShape, PumpShape, Active
  <1>8. TouchedIsAdmitted'
    BY <1>2, <1>4, <1>5 DEF Protocol, TouchedIsAdmitted, Touched, IsOpen, Active
  <1>9. SubmittedWaits' /\ PromptTurn' /\ OldPrompt' /\ BoundPrompt' /\ OldTurn'
    BY <1>1, <1>2, <1>4, <1>5 DEF Protocol, SubmittedWaits, PromptTurn, OldPrompt, BoundPrompt, OldTurn,
       Own, Here, Fresh, Void, IsOpen, Active
  <1>10. Leftover'
    BY <1>1, <1>2, <1>4, <1>5 DEF Protocol, Leftover, Unfinished, Own, Here, Void, IsOpen
  <1>11. StopTurnIsOwn'
    <2>1. ASSUME db.turn.status = "started", db.turn.session = h.session
          PROVE  Fresh(h) /\ g.request \in {NoRequest, db.turn.request}
      BY <1>1, <1>4, <2>1 DEF Protocol, StopTurnIsOwn, Unfinished, FileOfTurn, TurnShape, Active
    <2> QED
      BY <1>2, <1>4, <1>5, <2>1 DEF Protocol, StopTurnIsOwn, Unfinished, Fresh
  <1>12. FileOfTurn' /\ FileTimes' /\ StopFile'
    BY <1>1, <1>2, <1>4, <1>5 DEF Protocol, FileOfTurn, FileTimes, StopFile
  <1>13. WorkFile' /\ StrangerAtWork'
    BY <1>1, <1>2, <1>4, <1>5 DEF Protocol, WorkFile, StrangerAtWork, Own, Past, Lives, Here, Void, IsOpen
  <1>14. StrangersKeptOut'
    <2>1. ASSUME Stranger(h)
          PROVE  KeptOut(g)
      <3>1. KeptOut(h) /\ Active(db)
        BY <2>1 DEF Protocol, StrangersKeptOut, Stranger, Active
      <3>2. Void => db.turn.request # NoRequest
        BY <1>1, <3>1 DEF Void, Protocol, TurnShape, RowsTyped
      <3> QED
        BY <1>1, <1>4, <1>5, <3>1, <3>2 DEF KeptOut, Past
    <2> QED
      BY <1>2, <1>4, <1>5, <2>1 DEF Protocol, StrangersKeptOut, Stranger, KeptOut, Past, Fresh, Void, IsOpen
  <1>15. Clean'
    BY <1>1, <1>2, <1>4, <1>5 DEF Protocol, Clean, CleanHooks, CleanSend, CleanTyped, CleanDoing,
       CleanPrompt, CleanPending, CleanQueued, Here, Active, Fresh
  <1>16. QueuedWaits'
    <2>1. ASSUME NEW r \in Streamed, Waits(r)
          PROVE  Waits(r)'
      <3>1. \A p \in hooks : p = h \/ p \in hooks'
        BY <1>4
      <3>2. CASE WaitsTyped(r) \/ WaitsPrompt(r) \/ WaitsWork(r)
        BY <1>1, <1>2, <1>4, <1>5, <2>1, <3>1, <3>2 DEF Waits, WaitsTyped, WaitsPrompt, WaitsWork, Own, Here, Active
      <3>3. CASE WaitsStop(r)
        <4>1. WaitsStop(r)'
          BY <1>1, <1>2, <1>4, <1>5, <2>1, <3>1, <3>3 DEF Waits, WaitsStop, Own, Here
        <4> QED
          BY <1>2, <1>4, <1>5, <2>1, <4>1 DEF Waits, Here, Active
      <3> QED
        BY <2>1, <3>2, <3>3 DEF Waits
    <2> QED
      BY <1>2, <2>1 DEF Protocol, QueuedWaits
  <1>17. ActivityStaysInItsTurn'
    BY <1>2 DEF Protocol, ActivityStaysInItsTurn
  <1> QED
    BY <1>6, <1>7, <1>8, <1>9, <1>10, <1>11, <1>12, <1>13, <1>14, <1>15, <1>16, <1>17 DEF Protocol

\* A Stop hook that ends nothing.
LEMMA ProtocolEndsNothing ==
    ASSUME StateInv, Protocol, NEW h \in hooks, h.kind = "stop", h.step = "finish",
           UNCHANGED <<db, file, conv, pump, runtime, clock, spent>>, HookEnds(h),
           Active(db) \/ h.request = NoRequest,
           LET r == db.turn.request IN
           \/ ~Started(db, h.session) \/ Stale(db, h.at) \/ h.request \notin {NoRequest, r}
           \/ r # NoRequest /\ db.turn.binding = "bound" /\ db.request[r].session # h.session
           \/ r # NoRequest /\ db.turn.binding = "bound" /\ db.request[r].status \notin Open
    PROVE  Protocol'
  <1>1. RowsTyped /\ HookRow(h)
    BY StateRows DEF RowsTyped
  <1>2. hooks' = hooks \ {h}
    BY DEF HookEnds
  <1>3. Own /\ Here(h) => Void
    <2>1. ASSUME Own, Here(h)
          PROVE  Void
      <3>1. Active(db) /\ db.turn.status = "started" /\ db.turn.session = h.session
        BY <2>1 DEF Own, Here, Active
      <3>2. Fresh(h) /\ h.request \in {NoRequest, db.turn.request}
        BY <3>1 DEF Protocol, StopTurnIsOwn, Unfinished
      <3>3. ~Stale(db, h.at)
        BY <1>1, <3>1, <3>2 DEF Stale, Fresh, HookRow, RowsTyped, Active
      <3>4. db.turn.binding = "bound" => db.request[db.turn.request].session = h.session
        BY <3>1 DEF Protocol, TurnShape
      <3> QED
        BY <3>1, <3>2, <3>3, <3>4 DEF Started, Void, IsOpen
    <2> QED
      BY <2>1
  <1>4. Phases'
    BY <1>2, PhasesGoOn DEF Protocol
  <1>5. Times' /\ TurnShape' /\ PumpShape'
    BY DEF Protocol, Times, TurnShape, PumpShape, Active
  <1>6. TouchedIsAdmitted'
    BY <1>2 DEF Protocol, TouchedIsAdmitted, Touched, IsOpen, Active
  <1>7. SubmittedWaits' /\ PromptTurn' /\ OldPrompt' /\ BoundPrompt' /\ OldTurn'
    BY <1>2 DEF Protocol, SubmittedWaits, PromptTurn, OldPrompt, BoundPrompt, OldTurn,
       Own, Here, Fresh, Void, IsOpen, Active
  <1>8. Leftover'
    BY <1>2, <1>3 DEF Protocol, Leftover, Unfinished, Own, Here, Void, IsOpen
  <1>9. StopTurnIsOwn' /\ FileOfTurn' /\ FileTimes' /\ StopFile'
    BY <1>2 DEF Protocol, StopTurnIsOwn, FileOfTurn, FileTimes, StopFile, Fresh, Unfinished
  <1>10. WorkFile' /\ StrangerAtWork'
    BY <1>2 DEF Protocol, WorkFile, StrangerAtWork, Own, Past, Lives, Here, Void, IsOpen
  <1>11. StrangersKeptOut'
    BY <1>2 DEF Protocol, StrangersKeptOut, Stranger, KeptOut, Past, Fresh, Void, IsOpen
  <1>12. Clean'
    BY <1>2 DEF Protocol, Clean, CleanHooks, CleanSend, CleanTyped, CleanDoing,
       CleanPrompt, CleanPending, CleanQueued, Here, Active, Fresh
  <1>13. QueuedWaits'
    <2>1. ASSUME NEW r \in Streamed, Waits(r), db.request[r].status = "queued"
          PROVE  Waits(r)'
      <3>1. \A p \in hooks : p = h \/ p \in hooks'
        BY <1>2
      <3>2. CASE WaitsTyped(r) \/ WaitsPrompt(r) \/ WaitsWork(r)
        BY <1>2, <2>1, <3>1, <3>2 DEF Waits, WaitsTyped, WaitsPrompt, WaitsWork, Own, Here, Active
      <3>3. CASE WaitsStop(r)
        <4>1. Void
          BY <1>3, <2>1, <3>3 DEF Waits, WaitsStop
        <4>2. db.turn.request = r
          BY <2>1 DEF Waits, Protocol, TurnShape
        <4> QED
          BY <2>1, <4>1, <4>2 DEF Void, IsOpen, Open
      <3> QED
        BY <2>1, <3>2, <3>3 DEF Waits
    <2> QED
      BY <2>1 DEF Protocol, QueuedWaits
  <1>14. ActivityStaysInItsTurn'
    BY DEF Protocol, ActivityStaysInItsTurn
  <1> QED
    BY <1>4, <1>5, <1>6, <1>7, <1>8, <1>9, <1>10, <1>11, <1>12, <1>13, <1>14 DEF Protocol
\* A Stop hook of an install without admissions.
LEMMA ProtocolLegacy ==
    ASSUME StateInv, Protocol, NEW h \in hooks, h.kind = "stop", h.step = "finish",
           UNCHANGED <<file, conv, pump, runtime, clock, spent>>,
           ~Active(db), h.request # NoRequest, AtMostEnds(db, db', h.request), TellsEnd(h),
           HookGoes(h, h.request, "close")
    PROVE  Protocol'
  <1>1. RowsTyped /\ HookRow(h)
    BY StateRows DEF RowsTyped
  <1>2. PICK g : /\ SameHook(h, g) /\ g.request = h.request /\ g.step = "close"
                 /\ hooks' = (hooks \ {h}) \cup {g}
    BY DEF HookGoes
  <1>3. g.kind = "stop" /\ g.session = h.session /\ g.at = h.at /\ g.seen = h.seen /\ g.of = h.of
    BY <1>2 DEF SameHook
  <1>4. /\ db'.turn = db.turn /\ db'.unprojected = db.unprojected
        /\ db.turn.status = "none" /\ db'.turn.status = "none" /\ ~Active(db)'
        /\ \A r \in Streamed : /\ db'.request[r].session = db.request[r].session
                               /\ IsOpen(r)' => IsOpen(r) /\ db'.request[r].status = db.request[r].status
    <2>1. h.request \in Streamed
      BY <1>1 DEF HookRow
    <2> QED
      BY <2>1 DEF AtMostEnds, IsOpen, Open, Terminal, Active
  <1>5. Phases'
    BY PhasesGoOn DEF Protocol
  <1>6. Times' /\ TurnShape' /\ PumpShape' /\ SubmittedWaits' /\ PromptTurn'
    BY <1>4 DEF Protocol, Times, TurnShape, PumpShape, SubmittedWaits, PromptTurn
  <1>7. TouchedIsAdmitted'
    <2> SUFFICES ASSUME NEW r \in Streamed, IsOpen(r)', Touched(r)'
                 PROVE  IsOpen(r) /\ Touched(r)
      BY <1>4 DEF Protocol, TouchedIsAdmitted
    <2> QED
      BY <1>2, <1>3, <1>4 DEF Touched
  <1>8. OldPrompt' /\ BoundPrompt' /\ OldTurn' /\ Leftover' /\ StopTurnIsOwn'
    BY <1>2, <1>3, <1>4 DEF Protocol, OldPrompt, BoundPrompt, OldTurn, Leftover, StopTurnIsOwn, Own, Here, Active
  <1>9. FileOfTurn'
    BY <1>4 DEF Protocol, FileOfTurn
  <1>10. FileTimes' /\ StopFile' /\ WorkFile'
    BY <1>2, <1>3 DEF Protocol, FileTimes, StopFile, WorkFile, Lives, Here
  <1>11. StrangersKeptOut' /\ StrangerAtWork'
    BY <1>4 DEF StrangersKeptOut, StrangerAtWork, Stranger, Own
  <1>12. Clean'
    <2> SUFFICES ASSUME spent.faults = 0
                 PROVE  CleanHooks' /\ CleanSend' /\ CleanTyped' /\ CleanDoing' /\ CleanPrompt'
                        /\ CleanPending' /\ CleanQueued'
      BY DEF Clean
    <2>1. CleanHooks /\ CleanSend /\ CleanTyped /\ CleanDoing /\ CleanPrompt /\ CleanPending /\ CleanQueued
      BY DEF Protocol, Clean
    <2>2. CleanHooks' /\ CleanSend' /\ CleanTyped' /\ CleanDoing' /\ CleanPrompt'
      BY <1>2, <1>3, <1>4, <2>1 DEF CleanHooks, CleanSend, CleanTyped, CleanDoing, CleanPrompt, Here
    <2>3. CleanPending' /\ CleanQueued'
      BY <1>2, <1>3, <1>4, <2>1 DEF CleanPending, CleanQueued, IsOpen, Open
    <2> QED
      BY <2>2, <2>3
  <1>13. QueuedWaits'
    BY <1>4 DEF Protocol, QueuedWaits, Waits, IsOpen, Open
  <1>14. ActivityStaysInItsTurn'
    <2>1. h.of \in {h.request, NoRequest}
      BY DEF Protocol, StopFile
    <2>2. db'.events = db.events \/ Tells(h, h.request)
      BY <1>4 DEF TellsEnd, Started
    <2> QED
      BY <2>1, <2>2 DEF Protocol, ActivityStaysInItsTurn, Tells
  <1> QED
    BY <1>5, <1>6, <1>7, <1>8, <1>9, <1>10, <1>11, <1>12, <1>13, <1>14 DEF Protocol

\* A Stop hook that ends the admission of its turn.
LEMMA ProtocolLeaves ==
    ASSUME StateInv, Protocol, NEW h \in hooks, h.kind = "stop", h.step = "finish",
           UNCHANGED <<file, conv, pump, runtime, clock, spent>>,
           Started(db, h.session), ~Stale(db, h.at), Leaves(db, db', h.session, h.at), TellsEnd(h),
           HookEnds(h) \/ (\E r : HookGoes(h, r, "close"))
    PROVE  Protocol'
  <1>1. RowsTyped /\ HookRow(h) /\ Active(db) /\ Fresh(h)
        /\ db.turn.status = "started" /\ db.turn.session = h.session
    BY StateRows DEF RowsTyped, HookRow, Started, Stale, Fresh, Active
  <1>2. /\ \A g \in hooks' : g \in hooks \ {h}
                            \/ (SameHook(h, g) /\ g.kind = "stop" /\ g.step = "close" /\ g.of = h.of
                                /\ g.session = h.session /\ g.at = h.at)
    BY DEF HookEnds, HookGoes, SameHook
  <1>3. \A p \in hooks : p.kind # "prompt"
    <2> SUFFICES ASSUME NEW p \in hooks, p.kind = "prompt"
                 PROVE  FALSE
      OBVIOUS
    <2>1. p.session = h.session
      BY <1>1 DEF Protocol, PromptTurn
    <2> QED
      BY <2>1 DEF Protocol, Phases, PromptAlone
  <1>4. /\ db'.turn.status = "none" /\ ~Active(db)' /\ db.unprojected = {}
        /\ \A r \in Streamed : /\ db'.request[r].session = db.request[r].session
                               /\ IsOpen(r)' => /\ IsOpen(r) /\ db'.request[r].status = db.request[r].status
                                                /\ r # db.turn.item
    <2>1. db'.turn = NoTurn
      BY DEF Leaves
    <2>2. db.unprojected = {} /\ (db.turn.request = IF db.turn.item \in Streamed THEN db.turn.item ELSE NoRequest)
      BY <1>1 DEF Protocol, TurnShape
    <2>3. ASSUME NEW r \in Streamed
          PROVE  /\ db'.request[r].session = db.request[r].session
                 /\ IsOpen(r)' => /\ IsOpen(r) /\ db'.request[r].status = db.request[r].status
                                  /\ r # db.turn.item
      <3>1. NoRequest \notin Streamed
        BY <1>1 DEF RowsTyped
      <3> QED
        BY <2>2, <3>1 DEF Leaves, IsOpen, Open, Terminal
    <2> QED
      BY <2>1, <2>2, <2>3 DEF NoTurn, Active
  <1>5. Phases'
    BY PhasesGoOn DEF Protocol
  <1>6. Times'
    <2>1. \A u \in db'.unprojected : u.at <= clock
      BY <1>1, <1>4 DEF Leaves, HookRow
    <2> QED
      BY <1>4, <2>1 DEF Protocol, Times
  <1>7. TurnShape' /\ PumpShape' /\ SubmittedWaits' /\ PromptTurn'
    BY <1>4 DEF Protocol, TurnShape, PumpShape, SubmittedWaits, PromptTurn
  <1>8. TouchedIsAdmitted'
    <2> SUFFICES ASSUME NEW r \in Streamed, IsOpen(r)', Touched(r)'
                 PROVE  FALSE
      BY DEF TouchedIsAdmitted
    <2>1. IsOpen(r) /\ r # db.turn.item
      BY <1>4
    <2>2. Touched(r)
      BY <1>2, <1>4 DEF Touched
    <2> QED
      BY <2>1, <2>2 DEF Protocol, TouchedIsAdmitted
  <1>9. OldPrompt' /\ BoundPrompt'
    BY <1>2, <1>3 DEF OldPrompt, BoundPrompt
  <1>10. OldTurn' /\ Leftover' /\ StopTurnIsOwn' /\ StrangersKeptOut' /\ StrangerAtWork'
    BY <1>4 DEF OldTurn, Leftover, StopTurnIsOwn, StrangersKeptOut, StrangerAtWork, Stranger, Own
  <1>11. FileOfTurn'
    <2> SUFFICES ASSUME NEW s \in Sessions, file[s].mode = "bound"
                 PROVE  \E u \in db'.unprojected : u.session = s /\ u.at >= file[s].at
      BY DEF FileOfTurn
    <2>1. s = h.session /\ db.turn.request \in Streamed
      BY <1>1, <1>4 DEF Protocol, FileOfTurn, RowsTyped
    <2>2. db.turn.request # NoRequest
      BY <1>1, <2>1 DEF RowsTyped
    <2>3. file[s].at <= h.at /\ file[s].at \in Nat /\ h.at \in Nat
      BY <1>1, <2>1 DEF Protocol, FileTimes, RowsTyped, HookRow
    <2> DEFINE u == [session |-> h.session, request |-> db.turn.request, at |-> h.at]
    <2>4. u \in db'.unprojected /\ u.session = s /\ u.at = h.at
      BY <2>1, <2>2 DEF Leaves
    <2> HIDE DEF u
    <2> QED
      BY <2>3, <2>4
  <1>12. FileTimes'
    BY <1>2, <1>3 DEF Protocol, FileTimes
  <1>13. StopFile' /\ WorkFile'
    BY <1>2, <1>3 DEF Protocol, StopFile, WorkFile, Lives, Here
  <1>14. Clean'
    <2> SUFFICES ASSUME spent.faults = 0
                 PROVE  CleanHooks' /\ CleanSend' /\ CleanTyped' /\ CleanDoing' /\ CleanPrompt'
                        /\ CleanPending' /\ CleanQueued'
      BY DEF Clean
    <2>1. CleanHooks /\ CleanSend /\ CleanTyped /\ CleanPending /\ CleanQueued
      BY DEF Protocol, Clean
    <2>2. runtime.typed = {} /\ pump.step # "send"
      BY <1>1, <2>1 DEF CleanTyped, CleanSend
    <2>3. runtime.doing = NoRequest
      BY <2>1 DEF CleanHooks, Protocol, Phases, Working, Lives
    <2>4. CleanHooks' /\ CleanSend' /\ CleanTyped' /\ CleanDoing' /\ CleanPrompt'
      BY <1>2, <1>3, <2>1, <2>2, <2>3 DEF CleanHooks, CleanSend, CleanTyped, CleanDoing, CleanPrompt, Here
    <2>5. CleanPending' /\ CleanQueued'
      BY <1>2, <1>4, <2>1 DEF CleanPending, CleanQueued, IsOpen, Open
    <2> QED
      BY <2>4, <2>5
  <1>15. QueuedWaits'
    BY <1>4 DEF Protocol, QueuedWaits, Waits, IsOpen, Open
  <1>16. ActivityStaysInItsTurn'
    <2>1. CASE db'.events = db.events
      BY <2>1 DEF Protocol, ActivityStaysInItsTurn
    <2>2. CASE /\ db.turn.request # NoRequest /\ db.turn.binding = "bound"
               /\ db.request[db.turn.request].status \in Open /\ Tells(h, db.turn.request)
      <3>1. ~KeptOut(h)
        BY <2>2 DEF KeptOut, Void, IsOpen
      <3>2. h.of \in {NoRequest, db.turn.item}
        BY <1>1, <3>1 DEF Protocol, StrangersKeptOut, Stranger
      <3>3. db.turn.item = db.turn.request
        BY <1>1, <2>2 DEF Protocol, TurnShape
      <3> QED
        BY <2>2, <3>2, <3>3 DEF Protocol, ActivityStaysInItsTurn, Tells
    <2> QED
      BY <1>1, <2>1, <2>2 DEF TellsEnd
  <1> QED
    BY <1>5, <1>6, <1>7, <1>8, <1>9, <1>10, <1>11, <1>12, <1>13, <1>14, <1>15, <1>16 DEF Protocol

LEMMA ProtocolFinishes ==
    ASSUME StateInv, Protocol, NEW h \in hooks, HookFinishes(h)
    PROVE  Protocol'
  <1>1. Finished(h) /\ TellsEnd(h)
    BY StateFinishes
  <1>2. /\ h.kind = "stop" /\ h.step = "finish"
        /\ UNCHANGED <<file, conv, pump, runtime, clock, spent>>
    BY StateRows DEF HookFinishes, HookKeeps, RowsTyped, HookRow
  <1>3. CASE /\ ~Active(db) /\ h.request # NoRequest
             /\ AtMostEnds(db, db', h.request) /\ To(h, "close")
    <2>1. HookGoes(h, h.request, "close")
      BY <1>3, ToGoes
    <2> QED
      BY <1>1, <1>2, <1>3, <2>1, ProtocolLegacy
  <1>4. CASE /\ db' = db /\ To(h, "done")
             /\ Active(db) \/ h.request = NoRequest
             /\ LET r == db.turn.request IN
                \/ ~Started(db, h.session) \/ Stale(db, h.at) \/ h.request \notin {NoRequest, r}
                \/ r # NoRequest /\ db.turn.binding = "bound" /\ db.request[r].session # h.session
                \/ r # NoRequest /\ db.turn.binding = "bound" /\ db.request[r].status \notin Open
    <2>1. HookEnds(h)
      BY <1>4, ToEnds
    <2> QED
      BY <1>2, <1>4, <2>1, ProtocolEndsNothing
  <1>5. CASE Started(db, h.session) /\ ~Stale(db, h.at) /\ Leaves(db, db', h.session, h.at)
             /\ To(h, "done")
    <2>1. HookEnds(h)
      BY <1>5, ToEnds
    <2> QED
      BY <1>1, <1>2, <1>5, <2>1, ProtocolLeaves
  <1>6. CASE Started(db, h.session) /\ ~Stale(db, h.at) /\ Leaves(db, db', h.session, h.at)
             /\ Closes(h, db.turn.request)
    <2>1. HookGoes(h, db.turn.request, "close")
      BY <1>6, CloseGoes
    <2> QED
      BY <1>1, <1>2, <1>6, <2>1, ProtocolLeaves
  <1> QED
    BY <1>1, <1>3, <1>4, <1>5, <1>6 DEF Finished
\* The same admission, written anew.
SameTurn(x, y) ==
    /\ y.status = x.status /\ y.item = x.item /\ y.request = x.request
    /\ y.session = x.session /\ y.since = x.since
    /\ y.quiet = FALSE /\ y.watched = FALSE
SameRows(d, f) ==
    \A r \in Streamed : /\ f.request[r].status = d.request[r].status
                        /\ f.request[r].session = d.request[r].session

LikeBump(x) ==
    /\ Bump(x) \in Admission
    /\ Bump(x).status = x.status /\ Bump(x).item = x.item /\ Bump(x).request = x.request
    /\ Bump(x).session = x.session /\ Bump(x).since = x.since /\ Bump(x).binding = x.binding
    /\ Bump(x).quiet = FALSE /\ Bump(x).watched = FALSE
LEMMA BumpLike == \A x \in Admission : LikeBump(x)
  BY DEF LikeBump, Bump, Admission

BindsTurn(d, f, r, s) ==
    /\ f.events = d.events /\ f.unprojected = d.unprojected
    /\ \A o \in Streamed : /\ f.request[o].status = d.request[o].status
                           /\ o # r => f.request[o].session = d.request[o].session
    /\ f.request[r].session = s
    /\ SameTurn(d.turn, f.turn) /\ f.turn.binding = "bound"
\* No session that binds has another open request, so nothing fails for the binding.
LEMMA TurnBinds ==
    ASSUME StateInv, Protocol, Active(db), NEW d, DataInv(d), d.request = db.request, Active(d),
           NEW r \in Streamed, r = db.turn.item, NEW s \in Sessions, CanBind(d, r, s)
    PROVE  BindsTurn(d, Bind(d, r, s), r, s)
  <1> DEFINE f == Bind(d, r, s)
  <1>1. Owners(d, r, s) = {}
    <2> SUFFICES ASSUME NEW o \in Owners(d, r, s)
                 PROVE  FALSE
      OBVIOUS
    <2>1. o \in Streamed /\ o # r /\ IsOpen(o) /\ db.request[o].session = s
      BY DEF Owners, IsOpen
    <2>2. Touched(o)
      BY <2>1, NoneAssumption DEF Touched
    <2> QED
      BY <2>1, <2>2 DEF Protocol, TouchedIsAdmitted
  <1>2. d \in Database /\ OneRequest(d) /\ d.turn \in Admission
    BY TurnOfDatabase DEF DataInv
  <1>3. /\ f.events = d.events /\ f.unprojected = d.unprojected
        /\ f.turn = [Bump(d.turn) EXCEPT !.binding = "bound"]
        /\ f.request[r].session = s /\ f.request[r].status = d.request[r].status
        /\ \A o \in Streamed \ {r} : f.request[o] = d.request[o]
    BY <1>1, <1>2, BindEffect
  <1> HIDE DEF f
  <1>4. SameTurn(d.turn, f.turn) /\ f.turn.binding = "bound"
    <2>1. LikeBump(d.turn)
      BY <1>2, BumpLike
    <2> QED
      BY <1>2, <1>3, <2>1 DEF SameTurn, LikeBump, Admission
  <1>5. \A o \in Streamed : /\ f.request[o].status = d.request[o].status
                            /\ o # r => f.request[o].session = d.request[o].session
    BY <1>3
  <1> QED
    BY <1>3, <1>4, <1>5 DEF f, BindsTurn

RejectsTurn(d, f, s, at) ==
    /\ f.events = d.events /\ f.unprojected = d.unprojected /\ f.request = d.request
    /\ Started(d, s) /\ ~Stale(d, at) /\ d.turn.binding = "pending" =>
          SameTurn(d.turn, f.turn) /\ f.turn.binding = "rejected"
    /\ ~(Started(d, s) /\ ~Stale(d, at) /\ d.turn.binding = "pending") => f = d
LEMMA TurnRejects ==
    ASSUME NEW d, DataInv(d), NEW s, s \in Sessions, NEW at
    PROVE  RejectsTurn(d, RejectBinding(d, s, at), s, at)
  <1> DEFINE f == RejectBinding(d, s, at)
  <1>1. d \in Database
    BY DEF DataInv
  <1>2. CASE ~(Started(d, s) /\ ~Stale(d, at) /\ d.turn.binding = "pending")
    <2>1. f = d
      BY <1>1, <1>2, RejectEffect
    <2> QED
      BY <1>2, <2>1 DEF RejectsTurn
  <1>3. CASE Started(d, s) /\ ~Stale(d, at) /\ d.turn.binding = "pending"
    <2>1. Active(d) /\ f = WithTurn(d, [Bump(d.turn) EXCEPT !.binding = "rejected"])
      BY <1>1, <1>3, RejectEffect
    <2>2. d.turn \in Admission
      BY <1>1, <2>1, TurnOfDatabase
    <2> DEFINE x == [Bump(d.turn) EXCEPT !.binding = "rejected"]
    <2>3. x \in Admission /\ SameTurn(d.turn, x) /\ x.binding = "rejected"
      BY <2>2, BumpLike DEF Admission, SameTurn, LikeBump
    <2> HIDE DEF x
    <2>4. f = WithTurn(d, x)
      BY <2>1 DEF x
    <2>5. f.turn = x /\ f.events = d.events /\ f.unprojected = d.unprojected /\ f.request = d.request
      BY <1>1, <2>3, <2>4, TurnIsWritten
    <2> QED
      BY <1>3, <2>3, <2>5 DEF RejectsTurn
  <1> QED
    BY <1>2, <1>3

\* The start of a turn, seen by what it does to the admission.
StartsTurn(d, e, s, at) ==
    /\ DataInv(e) /\ e.request = d.request /\ e.events = d.events
    /\ e.unprojected = d.unprojected
    /\ d.turn.status = "submitted" =>
          /\ e.turn.status = "started" /\ e.turn.session = s /\ e.turn.since = at
          /\ e.turn.item = d.turn.item /\ e.turn.request = d.turn.request
          /\ e.turn.binding = d.turn.binding
          /\ e.turn.quiet = FALSE /\ e.turn.watched = FALSE
    /\ Started(d, s) => SameTurn(d.turn, e.turn) /\ e.turn.binding = d.turn.binding
    /\ d.turn.status # "submitted" /\ ~Started(d, s) => e = d
LEMMA TurnStarts ==
    ASSUME NEW d, DataInv(d), NEW s \in Sessions, NEW at \in Nat
    PROVE  StartsTurn(d, StartTurn(d, s, at), s, at)
  <1> DEFINE e == StartTurn(d, s, at)
  <1>1. d \in Database
    BY DEF DataInv
  <1>5. DataInv(e)
    BY DataStart
  <1>2. CASE d.turn.status = "submitted"
    <2> DEFINE x == [Bump(d.turn) EXCEPT !.status = "started", !.session = s, !.since = at]
    <2>0. Active(d)
      BY <1>2 DEF Active
    <2>1. e = WithTurn(d, x)
      BY <1>1, <1>2, StartTurnEffect
    <2>2. d.turn \in Admission
      BY <1>1, <2>0, TurnOfDatabase
    <2>3. /\ x \in Admission /\ x.status = "started" /\ x.session = s /\ x.since = at
          /\ x.item = d.turn.item /\ x.request = d.turn.request /\ x.binding = d.turn.binding
          /\ x.quiet = FALSE /\ x.watched = FALSE
      BY <2>2, BumpLike DEF Admission, LikeBump
    <2> HIDE DEF x
    <2>4. ~Started(d, s)
      BY <1>2 DEF Started
    <2>5. e.turn = x /\ e.request = d.request /\ e.events = d.events /\ e.unprojected = d.unprojected
      BY <1>1, <2>1, <2>3, TurnIsWritten
    <2> QED
      BY <1>5, <1>2, <2>3, <2>4, <2>5 DEF StartsTurn
  <1>3. CASE Started(d, s)
    <2>0. Active(d)
      BY <1>3 DEF Active, Started
    <2>1. e = WithTurn(d, Bump(d.turn))
      BY <1>1, <1>3, StartTurnEffect
    <2>2. d.turn \in Admission
      BY <1>1, <2>0, TurnOfDatabase
    <2>3. Bump(d.turn) \in Admission /\ SameTurn(d.turn, Bump(d.turn))
          /\ Bump(d.turn).binding = d.turn.binding
      BY <2>2, BumpLike DEF SameTurn, LikeBump
    <2>4. d.turn.status # "submitted"
      BY <1>3 DEF Started
    <2>5. e.turn = Bump(d.turn) /\ e.request = d.request /\ e.events = d.events
          /\ e.unprojected = d.unprojected
      BY <1>1, <2>1, <2>3, TurnIsWritten
    <2> QED
      BY <1>5, <1>3, <2>3, <2>4, <2>5 DEF StartsTurn
  <1>4. CASE d.turn.status # "submitted" /\ ~Started(d, s)
    <2>1. StartTurn(d, s, at) = d
      BY <1>1, <1>4, StartTurnEffect
    <2> QED
      BY <1>4, <1>5, <2>1 DEF StartsTurn
  <1> QED
    BY <1>2, <1>3, <1>4
\* A prompt's hook keeps the session to itself.
LEMMA PromptMeans ==
    ASSUME StateInv, Protocol, NEW h \in hooks, h.kind = "prompt"
    PROVE  /\ RowsTyped /\ HookRow(h)
           /\ \A p \in hooks : p # h => p.kind # "prompt"
           /\ \A p \in hooks : p # h /\ p.session = h.session => p.kind = "post" /\ p.seen < h.seen
           /\ Here(h) => runtime.prompted /\ runtime.doing = h.of /\ runtime.doing # NoRequest
           /\ Active(db) => Fresh(h) /\ ~Stale(db, h.at)
           /\ h.at = h.seen
           /\ \A r \in Streamed : Waits(r) =>
                 /\ Here(h) /\ Active(db) /\ db.turn.item = r /\ db.turn.request = r
                 /\ h.of = r /\ h.request = r
                 /\ WaitsPrompt(r) \/ (WaitsWork(r) /\ h.step = "bound" /\ ~Void)
                    \/ (WaitsWork(r) /\ Void)
  <1>1. RowsTyped /\ HookRow(h) /\ h.at = h.seen /\ NoRequest \notin Items
    BY StateRows DEF RowsTyped, HookRow
  <1>2. /\ \A p \in hooks : p # h => p.kind # "prompt"
        /\ \A p \in hooks : p # h /\ p.session = h.session => p.kind = "post" /\ p.seen < h.seen
        /\ Here(h) => runtime.prompted /\ runtime.doing = h.of
    BY DEF Protocol, Phases, PromptAlone
  <1>3. Here(h) => runtime.doing # NoRequest
    BY <1>1, <1>2 DEF HookRow
  <1>4. Active(db) => Fresh(h) /\ ~Stale(db, h.at)
    BY <1>1 DEF Protocol, PromptTurn, Fresh, Stale, HookRow, RowsTyped, Active
  <1>5. ASSUME NEW r \in Streamed, Waits(r)
        PROVE  /\ Here(h) /\ Active(db) /\ db.turn.item = r /\ db.turn.request = r
               /\ h.of = r /\ h.request = r
               /\ WaitsPrompt(r) \/ (WaitsWork(r) /\ h.step = "bound" /\ ~Void)
                  \/ (WaitsWork(r) /\ Void)
    <2>1. Here(h) /\ Active(db) /\ db.turn.item = r /\ db.turn.request = r
      BY <1>5 DEF Waits, Protocol, TurnShape
    <2>2. WaitsPrompt(r) \/ WaitsWork(r)
      BY <1>3, <1>5, <2>1 DEF Waits, WaitsTyped, WaitsStop
    <2>3. runtime.doing = r
      BY <2>2 DEF WaitsPrompt, WaitsWork
    <2>4. h.of = r /\ h.request = r
      BY <1>1, <1>2, <2>1, <2>3 DEF HookRow
    <2>5. WaitsWork(r) /\ ~Void => h.step = "bound"
      BY <1>1, <2>1 DEF WaitsWork, Protocol, PromptTurn, HookRow, Own
    <2> QED
      BY <2>1, <2>2, <2>4, <2>5
  <1> QED
    BY <1>1, <1>2, <1>3, <1>4, <1>5

LEMMA ProtocolPromptStarts ==
    ASSUME StateInv, Protocol, NEW h \in hooks, h.kind = "prompt", HookStarts(h)
    PROVE  Protocol'
  <1> DEFINE d == StartTurn(db, h.session, h.at)
  <1>1. /\ RowsTyped /\ HookRow(h) /\ h.step = "start" /\ h.at = h.seen
        /\ UNCHANGED <<file, conv, pump, runtime, clock, spent>>
        /\ \A p \in hooks : p # h => p.kind # "prompt"
        /\ \A p \in hooks : p # h /\ p.session = h.session => p.kind = "post" /\ p.seen < h.seen
        /\ Here(h) => runtime.prompted /\ runtime.doing = h.of /\ runtime.doing # NoRequest
        /\ Active(db) => Fresh(h) /\ ~Stale(db, h.at)
        /\ h.session \in Sessions /\ h.at \in Nat /\ h.at <= clock
    BY PromptMeans DEF HookStarts, HookKeeps, HookRow
  <1>2. db.turn.status = "submitted" \/ (Started(db, h.session) /\ Void) \/ ~Active(db)
    BY <1>1 DEF Protocol, PromptTurn, Active, Started, RowsTyped
  <1>3. db' = d /\ To(h, "bind")
    BY <1>1, <1>2 DEF HookStarts, Stale, Started, Active
  <1>4. PICK g : /\ SameHook(h, g) /\ g.request = h.request /\ g.step = "bind"
                 /\ hooks' = (hooks \ {h}) \cup {g}
    BY <1>3, ToGoes DEF HookGoes
  <1>5. g.kind = "prompt" /\ g.session = h.session /\ g.at = h.at /\ g.seen = h.seen /\ g.of = h.of
    BY <1>4 DEF SameHook
  <1>6. /\ db'.request = db.request /\ db'.events = db.events /\ db'.unprojected = db.unprojected
        /\ db.turn.status = "submitted" =>
              /\ db'.turn.status = "started" /\ db'.turn.session = h.session /\ db'.turn.since = h.at
              /\ db'.turn.item = db.turn.item /\ db'.turn.request = db.turn.request
              /\ db'.turn.binding = db.turn.binding
              /\ db'.turn.quiet = FALSE /\ db'.turn.watched = FALSE
        /\ Started(db, h.session) => SameTurn(db.turn, db'.turn) /\ db'.turn.binding = db.turn.binding
        /\ ~Active(db) => db' = db
    <2>1. DataInv(db)
      BY DEF StateInv
    <2>0. h.session \in Sessions /\ h.at \in Nat
      BY <1>1
    <2>2. StartsTurn(db, d, h.session, h.at)
      BY <2>0, <2>1, TurnStarts
    <2>3. ~Active(db) => db.turn.status # "submitted" /\ ~Started(db, h.session)
      BY DEF Active, Started
    <2>4. db' = d
      BY <1>3
    <2> HIDE DEF d
    <2> QED
      BY <2>2, <2>3, <2>4 DEF StartsTurn
  <1> HIDE DEF d
  <1>7. Phases'
    BY <1>1, <1>4, PhasesGoOn DEF Protocol, HookGoes
  <1>8. ActivityStaysInItsTurn'
    BY <1>6 DEF Protocol, ActivityStaysInItsTurn
  <1>9. FileTimes' /\ StopFile' /\ WorkFile'
    BY <1>1, <1>4, <1>5 DEF Protocol, FileTimes, StopFile, WorkFile, Lives, Here
  <1>10. (\A r \in Streamed : IsOpen(r)' <=> IsOpen(r)) /\ (\A r : Touched(r)' => Touched(r))
    BY <1>1, <1>4, <1>5, <1>6 DEF IsOpen, Touched
  <1>11. CASE db.turn.status = "submitted"
    <2>1. /\ db'.turn.status = "started" /\ db'.turn.session = h.session /\ db'.turn.since = h.seen
          /\ db'.turn.item = db.turn.item /\ db'.turn.request = db.turn.request
          /\ db'.turn.binding = "pending" /\ db'.turn.quiet = FALSE /\ db'.turn.watched = FALSE
          /\ Active(db) /\ Active(db)' /\ db.unprojected = {}
      BY <1>1, <1>6, <1>11 DEF Protocol, TurnShape, Active
    <2>2. Times' /\ TurnShape' /\ PumpShape'
      BY <1>1, <1>6, <1>11, <2>1 DEF Protocol, Times, TurnShape, PumpShape
    <2>3. TouchedIsAdmitted'
      BY <1>10, <2>1 DEF Protocol, TouchedIsAdmitted
    <2>4. SubmittedWaits' /\ BoundPrompt'
      BY <1>1, <1>4, <1>5, <2>1 DEF SubmittedWaits, BoundPrompt
    <2>5. PromptTurn'
      BY <1>1, <1>4, <1>5, <2>1 DEF PromptTurn, Fresh, HookRow
    <2>6. OldPrompt'
      BY <1>1, <1>4, <1>5, <2>1 DEF Protocol, OldPrompt, Here
    <2>7. OldTurn'
      BY <1>1, <2>1 DEF Protocol, OldPrompt, OldTurn, Own, Here
    <2>8. Leftover' /\ StopTurnIsOwn'
      BY <1>1, <1>4, <1>5, <2>1 DEF Leftover, StopTurnIsOwn, Own, Here, Unfinished
    <2>9. FileOfTurn'
      BY <1>1, <1>11, <2>1 DEF Protocol, FileOfTurn
    <2>10. StrangersKeptOut'
      <3> SUFFICES ASSUME NEW q \in hooks', Stranger(q)'
                   PROVE  KeptOut(q)'
        BY DEF StrangersKeptOut
      <3>1. q.session = h.session /\ q.seen >= h.seen
        BY <2>1 DEF Stranger, Fresh
      <3>2. q = g
        BY <1>1, <1>4, <3>1 DEF RowsTyped, HookRow
      <3> QED
        BY <1>4, <1>5, <2>1, <3>2 DEF KeptOut
    <2>11. StrangerAtWork'
      BY <1>1, <1>4, <1>5, <2>1 DEF StrangerAtWork, Own, Lives, Here
    <2>12. Clean'
      <3> SUFFICES ASSUME spent.faults = 0
                   PROVE  CleanHooks' /\ CleanSend' /\ CleanTyped' /\ CleanDoing' /\ CleanPrompt'
                          /\ CleanPending' /\ CleanQueued'
        BY <1>1 DEF Clean
      <3>1. CleanHooks /\ CleanSend /\ CleanTyped /\ CleanDoing /\ CleanPrompt /\ CleanPending /\ CleanQueued
        BY DEF Protocol, Clean
      <3>2. runtime.doing # NoRequest /\ runtime.typed = {} /\ pump.step # "send"
        BY <1>1, <3>1 DEF CleanHooks, CleanTyped, CleanSend
      <3>3. CleanHooks' /\ CleanSend' /\ CleanTyped' /\ CleanDoing' /\ CleanPrompt'
        BY <1>1, <1>4, <1>5, <2>1, <3>1, <3>2 DEF CleanHooks, CleanSend, CleanTyped, CleanDoing, CleanPrompt, Here
      <3>4. CleanPending' /\ CleanQueued'
        BY <1>1, <1>4, <1>5, <1>6, <2>1, <3>1, <3>2 DEF CleanPending, CleanQueued
      <3> QED
        BY <3>3, <3>4
    <2>13. QueuedWaits'
      <3>1. ASSUME NEW r \in Streamed, Waits(r)
            PROVE  Waits(r)'
        <4>1. Here(h) /\ WaitsPrompt(r)
          BY <1>11, <3>1, PromptMeans DEF WaitsWork, Own
        <4>2. WaitsPrompt(r)'
          BY <1>1, <1>4, <1>5, <1>6, <1>11, <2>1, <4>1 DEF WaitsPrompt, Own, Here
        <4> QED
          BY <1>1, <1>4, <1>5, <2>1, <3>1, <4>1, <4>2 DEF Waits, Here
      <3> QED
        BY <1>1, <1>6, <3>1 DEF Protocol, QueuedWaits
    <2> QED
      BY <1>7, <1>8, <1>9, <2>2, <2>3, <2>4, <2>5, <2>6, <2>7, <2>8, <2>9, <2>10, <2>11, <2>12, <2>13
      DEF Protocol
  <1>12. CASE Started(db, h.session) /\ Void
    <2>1. /\ db'.turn.status = "started" /\ db'.turn.session = h.session /\ db'.turn.since = db.turn.since
          /\ db.turn.status = "started" /\ db.turn.session = h.session
          /\ db'.turn.item = db.turn.item /\ db'.turn.request = db.turn.request
          /\ db'.turn.binding = db.turn.binding /\ db'.turn.quiet = FALSE /\ db'.turn.watched = FALSE
          /\ Active(db) /\ Active(db)' /\ db.turn.request \in Streamed /\ db.unprojected = {}
      BY <1>6, <1>12 DEF SameTurn, Started, Active, Protocol, TurnShape, Void
    <2>2. Void' /\ Void /\ (Own <=> Own') /\ (\A p : Fresh(p) <=> Fresh(p)')
      BY <1>1, <1>10, <1>12, <2>1 DEF Void, Own, Fresh
    <2>3. Times' /\ TurnShape' /\ PumpShape'
      BY <1>1, <1>6, <2>1 DEF Protocol, Times, TurnShape, PumpShape
    <2>4. TouchedIsAdmitted'
      BY <1>10, <2>1 DEF Protocol, TouchedIsAdmitted
    <2>5. SubmittedWaits' /\ PromptTurn' /\ OldPrompt' /\ BoundPrompt' /\ OldTurn'
      BY <1>1, <1>4, <1>5, <2>1, <2>2 DEF Protocol, SubmittedWaits, PromptTurn, OldPrompt, BoundPrompt,
         OldTurn, Here, Fresh
    <2>6. Leftover' /\ StopTurnIsOwn'
      BY <1>1, <1>4, <1>5, <2>1, <2>2 DEF Protocol, Leftover, StopTurnIsOwn, Unfinished
    <2>7. FileOfTurn'
      BY <1>1, <2>1 DEF Protocol, FileOfTurn
    <2>8. StrangersKeptOut' /\ StrangerAtWork'
      BY <1>1, <1>4, <1>5, <2>1, <2>2 DEF Protocol, StrangersKeptOut, StrangerAtWork, Stranger, KeptOut,
         Past, Lives, Here
    <2>9. Clean'
      BY <1>1, <1>4, <1>5, <1>6, <2>1, <2>2 DEF Protocol, Clean, CleanHooks, CleanSend, CleanTyped,
         CleanDoing, CleanPrompt, CleanPending, CleanQueued, Here
    <2>10. \A r \in Streamed : db.request[r].status = "queued" => ~Waits(r)
      BY <2>1, <2>2, PromptMeans DEF Void, IsOpen, Open
    <2>11. QueuedWaits'
      BY <1>1, <1>6, <2>10 DEF Protocol, QueuedWaits
    <2> QED
      BY <1>7, <1>8, <1>9, <2>3, <2>4, <2>5, <2>6, <2>7, <2>8, <2>9, <2>11 DEF Protocol
  <1>13. CASE ~Active(db)
    <2>1. db' = db /\ db.turn.status = "none"
      BY <1>6, <1>13 DEF Active
    <2>2. Times' /\ TurnShape' /\ PumpShape' /\ SubmittedWaits' /\ PromptTurn' /\ OldTurn'
      BY <1>1, <1>13, <2>1 DEF Protocol, Times, TurnShape, PumpShape, SubmittedWaits, PromptTurn, OldTurn, Active
    <2>3. TouchedIsAdmitted'
      BY <1>10, <2>1 DEF Protocol, TouchedIsAdmitted, Active
    <2>4. OldPrompt' /\ BoundPrompt'
      BY <1>1, <1>4, <1>5, <1>13, <2>1 DEF Protocol, OldPrompt, BoundPrompt, Here, Active
    <2>5. Leftover' /\ StopTurnIsOwn' /\ StrangersKeptOut' /\ StrangerAtWork' /\ FileOfTurn'
      BY <1>1, <2>1 DEF Protocol, Leftover, StopTurnIsOwn, StrangersKeptOut, StrangerAtWork, Stranger, Own, FileOfTurn
    <2>6. Clean'
      BY <1>1, <1>4, <1>5, <1>13, <2>1 DEF Protocol, Clean, CleanHooks, CleanSend, CleanTyped,
         CleanDoing, CleanPrompt, CleanPending, CleanQueued, Here, Active
    <2>7. QueuedWaits'
      BY <1>1, <1>13, <2>1 DEF Protocol, QueuedWaits, Waits
    <2> QED
      BY <1>7, <1>8, <1>9, <2>2, <2>3, <2>4, <2>5, <2>6, <2>7 DEF Protocol
  <1> QED
    BY <1>2, <1>11, <1>12, <1>13

LEMMA ProtocolBinds ==
    ASSUME StateInv, Protocol, NEW h \in hooks, PromptBinds(h)
    PROVE  Protocol'
  <1>1. h.kind = "prompt" /\ h.step = "bind" /\ UNCHANGED <<file, conv, pump, runtime, clock, spent>>
    BY StateRows DEF PromptBinds, HookKeeps, RowsTyped, HookRow
  <1>2. /\ RowsTyped /\ HookRow(h) /\ h.at = h.seen /\ h.session \in Sessions
        /\ \A p \in hooks : p # h => p.kind # "prompt"
        /\ \A p \in hooks : p # h /\ p.session = h.session => p.kind = "post" /\ p.seen < h.seen
        /\ Here(h) => runtime.prompted /\ runtime.doing = h.of /\ runtime.doing # NoRequest
        /\ Active(db) => Fresh(h) /\ ~Stale(db, h.at)
    BY <1>1, PromptMeans DEF HookRow
  <1>3. DataInv(db)
    BY DEF StateInv
  <1>4. Active(db) => /\ db.turn.status = "started" /\ db.turn.session = h.session
                      /\ (db.turn.since = h.seen /\ db.turn.binding = "pending") \/ Void
    BY <1>1 DEF Protocol, PromptTurn
  <1>5. (\A r \in Streamed : Waits(r) => WaitsPrompt(r) \/ Void)
    BY <1>1, PromptMeans
  <1>6. CASE CanBind(db, h.request, h.session)
    <2> DEFINE r == h.request
    <2>1. r \in Streamed /\ IsOpen(r) /\ h.of = r
      BY <1>1, <1>2, <1>6, NoneAssumption, ItemsAssumption DEF CanBind, IsOpen, HookRow
    <2>2. Active(db) /\ db.turn.item = r /\ db.turn.request = r
      BY <2>1 DEF Protocol, TouchedIsAdmitted, Touched, TurnShape
    <2>3. db.turn.since = h.seen /\ db.turn.binding = "pending"
      BY <1>4, <2>1, <2>2 DEF Void
    <2>4. BindsTurn(db, db', r, h.session) /\ To(h, "bound")
      BY <1>2, <1>3, <1>6, <2>1, <2>2, TurnBinds DEF PromptBinds
    <2>5. PICK g : /\ SameHook(h, g) /\ g.request = r /\ g.step = "bound"
                   /\ hooks' = (hooks \ {h}) \cup {g}
      BY <2>4, ToGoes DEF HookGoes
    <2> HIDE DEF r
    <2>6. g.kind = "prompt" /\ g.session = h.session /\ g.at = h.at /\ g.seen = h.seen /\ g.of = r
      BY <1>1, <2>1, <2>5 DEF SameHook
    <2>7. /\ db'.turn.status = "started" /\ db'.turn.item = r /\ db'.turn.request = r
          /\ db'.turn.session = h.session /\ db'.turn.since = h.seen /\ db'.turn.binding = "bound"
          /\ db'.turn.quiet = FALSE /\ db'.turn.watched = FALSE /\ Active(db)' /\ db.unprojected = {}
          /\ db'.events = db.events /\ db'.unprojected = {}
          /\ \A o \in Streamed : /\ db'.request[o].status = db.request[o].status
                                 /\ o # r => db'.request[o].session = db.request[o].session
          /\ db'.request[r].session = h.session
      BY <1>4, <2>2, <2>3, <2>4 DEF BindsTurn, SameTurn, Active, Protocol, TurnShape
    <2>8. \A o \in Streamed : IsOpen(o)' <=> IsOpen(o)
      BY <2>7 DEF IsOpen
    <2>9. Phases'
      BY <1>1, <2>5, PhasesGoOn DEF Protocol, HookGoes
    <2>10. Times' /\ TurnShape' /\ PumpShape'
      BY <1>1, <1>4, <2>1, <2>2, <2>3, <2>7 DEF Protocol, Times, TurnShape, PumpShape
    <2>11. TouchedIsAdmitted'
      <3> SUFFICES ASSUME NEW o \in Streamed, IsOpen(o), Touched(o)'
                   PROVE  o = r
        BY <2>7, <2>8 DEF TouchedIsAdmitted
      <3>1. o = r \/ Touched(o)
        BY <1>1, <2>1, <2>5, <2>6, <2>7 DEF Touched
      <3> QED
        BY <2>2, <3>1 DEF Protocol, TouchedIsAdmitted
    <2>12. SubmittedWaits' /\ OldTurn'
      BY <1>1, <1>4, <2>2, <2>7 DEF Protocol, SubmittedWaits, OldTurn, Own, Active
    <2>13. PromptTurn' /\ BoundPrompt'
      BY <1>2, <2>5, <2>6, <2>7 DEF PromptTurn, BoundPrompt, Fresh, HookRow
    <2>14. OldPrompt'
      BY <1>1, <1>2, <2>5, <2>6, <2>7 DEF Protocol, OldPrompt, Here
    <2>15. Leftover' /\ StopTurnIsOwn'
      BY <1>1, <1>2, <2>5, <2>6, <2>7 DEF Leftover, StopTurnIsOwn, Own, Here, Unfinished
    <2>16. FileOfTurn'
      BY <1>1, <2>2, <2>3, <2>7 DEF Protocol, FileOfTurn, TurnShape
    <2>17. FileTimes' /\ StopFile' /\ WorkFile'
      BY <1>1, <2>1, <2>5, <2>6 DEF Protocol, FileTimes, StopFile, WorkFile, Lives, Here
    <2>18. StrangersKeptOut'
      <3> SUFFICES ASSUME NEW q \in hooks', Stranger(q)'
                   PROVE  FALSE
        BY DEF StrangersKeptOut
      <3>1. q.session = h.session /\ q.seen >= h.seen /\ q.of # r
        BY <2>7 DEF Stranger, Fresh
      <3> QED
        BY <1>2, <2>5, <2>6, <3>1 DEF RowsTyped, HookRow
    <2>19. StrangerAtWork'
      BY <1>1, <1>2, <2>1, <2>7 DEF StrangerAtWork, Own, Here
    <2>20. Clean'
      <3> SUFFICES ASSUME spent.faults = 0
                   PROVE  CleanHooks' /\ CleanSend' /\ CleanTyped' /\ CleanDoing' /\ CleanPrompt'
                          /\ CleanPending' /\ CleanQueued'
        BY <1>1 DEF Clean
      <3>1. CleanHooks /\ CleanSend /\ CleanTyped /\ CleanDoing /\ CleanPrompt /\ CleanPending /\ CleanQueued
        BY DEF Protocol, Clean
      <3>2. CleanHooks' /\ CleanSend' /\ CleanTyped' /\ CleanDoing' /\ CleanPrompt'
        BY <1>1, <1>2, <1>4, <2>1, <2>2, <2>5, <2>6, <2>7, <3>1 DEF CleanHooks, CleanSend, CleanTyped,
           CleanDoing, CleanPrompt, Here
      <3>3. CleanPending' /\ CleanQueued'
        BY <1>1, <1>4, <2>1, <2>2, <2>5, <2>6, <2>7, <3>1 DEF CleanPending, CleanQueued
      <3> QED
        BY <3>2, <3>3
    <2>21. QueuedWaits'
      <3>1. ASSUME NEW o \in Streamed, Waits(o)
            PROVE  Waits(o)'
        <4>1. o = r /\ WaitsPrompt(o) /\ Here(h)
          BY <1>1, <1>5, <2>1, <2>2, <3>1, PromptMeans DEF Void
        <4>2. file[runtime.session].at <= h.at
          BY <1>2, <4>1 DEF WaitsPrompt
        <4>3. WaitsWork(o)'
          BY <1>1, <1>2, <2>5, <2>6, <2>7, <2>1, <4>1, <4>2 DEF WaitsPrompt, WaitsWork, Own, Here
        <4> QED
          BY <1>1, <2>2, <2>5, <2>6, <2>7, <3>1, <4>1, <4>3 DEF Waits, Here
      <3> QED
        BY <1>1, <2>7, <3>1 DEF Protocol, QueuedWaits
    <2>22. ActivityStaysInItsTurn'
      BY <2>7 DEF Protocol, ActivityStaysInItsTurn
    <2> QED
      BY <2>9, <2>10, <2>11, <2>12, <2>13, <2>14, <2>15, <2>16, <2>17, <2>18, <2>19, <2>20, <2>21, <2>22
      DEF Protocol
  <1>7. CASE ~CanBind(db, h.request, h.session)
    <2>1. RejectsTurn(db, db', h.session, h.at) /\ To(h, "rejected")
      BY <1>2, <1>3, <1>7, TurnRejects DEF PromptBinds
    <2>2. PICK g : /\ SameHook(h, g) /\ g.request = h.request /\ g.step = "rejected"
                   /\ hooks' = (hooks \ {h}) \cup {g}
      BY <2>1, ToGoes DEF HookGoes
    <2>3. g.kind = "prompt" /\ g.session = h.session /\ g.at = h.at /\ g.seen = h.seen /\ g.of = h.of
      BY <1>1, <2>2 DEF SameHook
    <2>4. /\ db'.request = db.request /\ db'.events = db.events /\ db'.unprojected = db.unprojected
          /\ ~Active(db) => db' = db
          /\ Active(db) => /\ db'.turn.status = "started" /\ db'.turn.item = db.turn.item
                           /\ db'.turn.request = db.turn.request /\ db'.turn.session = h.session
                           /\ db'.turn.since = db.turn.since
                           /\ db'.turn.quiet => db.turn.quiet
                           /\ db'.turn.watched => db.turn.watched /\ db'.turn.quiet
                           /\ \/ db'.turn.binding = "rejected"
                              \/ db'.turn.binding = db.turn.binding /\ Void
      <3>1. CASE ~Active(db)
        BY <2>1, <3>1 DEF RejectsTurn, Started, Active
      <3>2. CASE Active(db) /\ db.turn.binding = "pending"
        BY <1>2, <1>4, <2>1, <3>2 DEF RejectsTurn, SameTurn, Started, Active
      <3>3. CASE Active(db) /\ db.turn.binding # "pending"
        BY <1>2, <1>4, <2>1, <3>3 DEF RejectsTurn, Protocol, TurnShape
      <3> QED
        BY <3>1, <3>2, <3>3
    <2>5. /\ Active(db)' <=> Active(db)
          /\ Own' <=> Own
          /\ \A p : Active(db) => (Fresh(p)' <=> Fresh(p))
          /\ Active(db) /\ Void => Void'
      BY <1>1, <1>4, <2>1, <2>4 DEF Active, Own, Fresh, Void, IsOpen, RejectsTurn
    <2>6. Phases'
      BY <1>1, <2>2, PhasesGoOn DEF Protocol, HookGoes
    <2>7. Times' /\ TurnShape' /\ PumpShape'
      BY <1>1, <1>4, <2>4, <2>5 DEF Protocol, Times, TurnShape, PumpShape
    <2>8. TouchedIsAdmitted'
      <3> SUFFICES ASSUME NEW o \in Streamed, IsOpen(o), Touched(o)'
                   PROVE  Touched(o)
        BY <2>4, <2>5 DEF Protocol, TouchedIsAdmitted, IsOpen
      <3> QED
        BY <1>1, <2>2, <2>3, <2>4 DEF Touched
    <2>9. SubmittedWaits'
      BY <1>4, <2>4, <2>5 DEF SubmittedWaits, Active
    <2>10. PromptTurn'
      <3> SUFFICES ASSUME NEW p \in hooks', p.kind = "prompt", Active(db)
                   PROVE  Fresh(p)' /\ p.step = "rejected" /\ (db'.turn.binding = "rejected" \/ Void')
                          /\ db'.turn.status = "started" /\ db'.turn.session = p.session
        BY <2>5 DEF PromptTurn
      <3>1. p = g /\ Fresh(h)
        BY <1>2, <2>2
      <3>2. Fresh(g)'
        BY <2>3, <2>4, <3>1 DEF Fresh
      <3> QED
        BY <2>2, <2>3, <2>4, <2>5, <3>1, <3>2
    <2>11. OldPrompt' /\ BoundPrompt' /\ OldTurn'
      BY <1>1, <1>2, <2>2, <2>3, <2>4, <2>5 DEF Protocol, OldPrompt, BoundPrompt, OldTurn, Own, Here, Active
    <2>12. Leftover' /\ StopTurnIsOwn'
      <3>1. Own => Here(h)
        BY <1>4 DEF Own, Here, Active
      <3> QED
        BY <1>1, <1>2, <1>4, <2>2, <2>3, <2>4, <2>5, <3>1 DEF Leftover, StopTurnIsOwn, Unfinished, Here, Active
    <2>13. FileOfTurn'
      BY <1>1, <1>4, <2>4, <2>5 DEF Protocol, FileOfTurn, Void, TurnShape, Active
    <2>14. FileTimes' /\ StopFile' /\ WorkFile'
      BY <1>1, <2>2, <2>3 DEF Protocol, FileTimes, StopFile, WorkFile, Lives, Here
    <2>15. StrangersKeptOut'
      <3> SUFFICES ASSUME NEW q \in hooks', Stranger(q)', db'.turn.binding # "rejected"
                   PROVE  KeptOut(q)'
        BY DEF StrangersKeptOut, KeptOut
      <3>1. Active(db) /\ Void /\ Void' /\ db'.turn.binding = db.turn.binding
        BY <2>4, <2>5 DEF Stranger, Active
      <3>2. CASE q = g
        BY <2>2, <2>3, <3>1, <3>2 DEF KeptOut
      <3>3. CASE q # g
        <4>1. q \in hooks /\ Stranger(q)
          BY <1>4, <2>2, <2>4, <2>5, <3>1, <3>3 DEF Stranger
        <4> QED
          BY <1>1, <2>4, <3>1, <4>1 DEF Protocol, StrangersKeptOut, KeptOut, Past, Void
      <3> QED
        BY <3>2, <3>3
    <2>16. StrangerAtWork'
      <3> SUFFICES ASSUME Own, runtime.prompted, runtime.doing \notin {NoRequest, db'.turn.item}
                   PROVE  db'.turn.binding = "rejected" \/ (Void' /\ Lives({"prompt"})')
        BY <1>1, <2>5 DEF StrangerAtWork
      <3>1. Active(db) /\ Here(h)
        BY <1>4 DEF Own, Active, Here
      <3> QED
        BY <1>1, <2>2, <2>3, <2>4, <2>5, <3>1 DEF Lives, Here
    <2>17. Clean'
      BY <1>1, <1>2, <1>4, <2>2, <2>3, <2>4, <2>5 DEF Protocol, Clean, CleanHooks, CleanSend, CleanTyped,
         CleanDoing, CleanPrompt, CleanPending, CleanQueued, Here, Active
    <2>18. ASSUME NEW r \in Streamed, Waits(r), db.request[r].status = "queued"
           PROVE  FALSE
      <3>1. Here(h) /\ Active(db) /\ db.turn.item = r /\ db.turn.request = r /\ h.request = r
        BY <1>1, <2>18, PromptMeans
      <3>2. ~Void
        BY <2>18, <3>1 DEF Void, IsOpen, Open
      <3>3. WaitsPrompt(r) /\ db.turn.binding = "pending"
        BY <1>4, <1>5, <2>18, <3>1, <3>2
      <3>4. CanBind(db, r, h.session)
        BY <1>4, <2>18, <3>1, <3>3 DEF WaitsPrompt, CanBind, Started, Open
      <3> QED
        BY <1>7, <3>1, <3>4
    <2>19. QueuedWaits'
      BY <1>1, <2>4, <2>18 DEF Protocol, QueuedWaits
    <2>20. ActivityStaysInItsTurn'
      BY <2>4 DEF Protocol, ActivityStaysInItsTurn
    <2> QED
      BY <2>6, <2>7, <2>8, <2>9, <2>10, <2>11, <2>12, <2>13, <2>14, <2>15, <2>16, <2>17, <2>19, <2>20
      DEF Protocol
  <1> QED
    BY <1>6, <1>7
LEMMA ProtocolWrites ==
    ASSUME StateInv, Protocol, NEW h \in hooks, HookWritesFile(h)
    PROVE  Protocol'
  <1>1. /\ h.kind = "prompt" /\ h.step \in {"bound", "rejected"}
        /\ UNCHANGED <<db, conv, pump, runtime, clock, spent>>
        /\ file' = Write(file, h.session, h.step,
                         IF h.step = "bound" THEN h.request ELSE NoRequest, h.at)
    BY StateRows DEF HookWritesFile, HookKeeps, RowsTyped, HookRow
  <1>2. /\ RowsTyped /\ HookRow(h) /\ h.at = h.seen /\ h.session \in Sessions
        /\ \A p \in hooks : p # h => p.kind # "prompt"
        /\ \A p \in hooks : p # h /\ p.session = h.session => p.kind = "post" /\ p.seen < h.seen
        /\ Here(h) => runtime.prompted /\ runtime.doing = h.of /\ runtime.doing # NoRequest
        /\ Active(db) => Fresh(h) /\ ~Stale(db, h.at)
    BY <1>1, PromptMeans DEF HookRow
  <1>3. hooks' = hooks \ {h}
    BY ToEnds DEF HookWritesFile, HookEnds
  <1>4. \A t \in Sessions \ {h.session} : file'[t] = file[t]
    BY <1>1, <1>2, WriteEffect DEF StateInv
  <1>5. \/ /\ file'[h.session] = file[h.session] /\ file[h.session].mode \in {"rejected", "closed"}
           /\ file[h.session].at > h.at
        \/ /\ file'[h.session].mode = h.step /\ file'[h.session].at = h.at
           /\ h.step = "bound" => file'[h.session].request = h.request
    <2>1. file[h.session].at > h.at => file[h.session].mode \in {"rejected", "closed"}
      BY <1>1, <1>2 DEF Protocol, FileTimes, RowsTyped, HookRow
    <2> QED
      BY <1>1, <1>2, <2>1, WriteEffect DEF StateInv
  <1>6. h.step = "bound" =>
            /\ Active(db) /\ db.turn.status = "started" /\ db.turn.session = h.session
            /\ db.turn.since = h.seen /\ db.turn.binding = "bound" /\ db.turn.request = h.request
            /\ h.request \in Streamed /\ h.of = h.request /\ db.turn.item = h.request
    <2>1. h.step = "bound" =>
              /\ Active(db) /\ db.turn.status = "started" /\ db.turn.session = h.session
              /\ db.turn.since = h.seen /\ db.turn.binding = "bound" /\ db.turn.request = h.request
      BY <1>1 DEF Protocol, BoundPrompt, PromptTurn
    <2>2. h.step = "bound" => h.request \in Streamed /\ h.of = h.request
      BY <1>1, <1>2, NoneAssumption, ItemsAssumption DEF HookRow
    <2>3. h.step = "bound" => db.turn.item = h.request
      BY <2>1, <2>2, NoneAssumption, ItemsAssumption DEF Protocol, TurnShape
    <2> QED
      BY <2>1, <2>2, <2>3
  <1>7. Active(db) => db.turn.status = "started" /\ db.turn.session = h.session
    BY <1>1 DEF Protocol, PromptTurn
  <1>8. h.step = "rejected" /\ Active(db) => db.turn.binding = "rejected" \/ Void
    BY <1>1 DEF Protocol, PromptTurn
  <1>9. Times'
    BY <1>1, <1>2, <1>4, <1>5 DEF Protocol, Times, HookRow, Active
  <1>10. Phases'
    BY <1>1, <1>3, PhasesGoOn DEF Protocol, HookEnds
  <1>11. TurnShape' /\ PumpShape' /\ FileOfTurn'
    <2>1. TurnShape' /\ PumpShape'
      BY <1>1 DEF Protocol, TurnShape, PumpShape, Active
    <2>2. FileOfTurn'
      BY <1>1, <1>2, <1>4, <1>5, <1>6 DEF Protocol, FileOfTurn
    <2> QED
      BY <2>1, <2>2
  <1>12. TouchedIsAdmitted'
    BY <1>1, <1>3 DEF Protocol, TouchedIsAdmitted, Touched, IsOpen, Active
  <1>13. SubmittedWaits' /\ PromptTurn' /\ OldPrompt' /\ BoundPrompt' /\ OldTurn'
    BY <1>1, <1>2, <1>3, <1>7 DEF Protocol, SubmittedWaits, PromptTurn, OldPrompt, BoundPrompt, OldTurn,
       Own, Active
  <1>14. Leftover' /\ StopTurnIsOwn'
    BY <1>1, <1>3 DEF Protocol, Leftover, StopTurnIsOwn, Unfinished, Own, Here, Fresh, Void, IsOpen
  <1>15. FileTimes' /\ StopFile'
    <2>1. \A p \in hooks' : p \in hooks /\ p # h /\ p.session \in Sessions /\ p.kind # "prompt"
                            /\ (p.kind = "stop" => p.session # h.session)
      BY <1>2, <1>3 DEF RowsTyped, HookRow
    <2> QED
      BY <1>4, <2>1 DEF Protocol, FileTimes, StopFile
  <1>16. WorkFile'
    <2> SUFFICES ASSUME runtime.prompted, runtime.doing # NoRequest
                 PROVE  /\ file'[runtime.session].mode # "none"
                        /\ file'[runtime.session].mode = "bound"
                              => file'[runtime.session].request = runtime.doing
      BY <1>1 DEF WorkFile
    <2>1. Here(h)
      BY <1>1 DEF Protocol, OldPrompt
    <2> QED
      BY <1>1, <1>2, <1>5, <1>6, <2>1 DEF Here
  <1>17. Past(h.session)' \/ h.step = "bound"
    BY <1>1, <1>5 DEF Past
  <1>18. StrangersKeptOut'
    <2> SUFFICES ASSUME NEW g \in hooks', Stranger(g)
                 PROVE  KeptOut(g)'
      BY <1>1 DEF StrangersKeptOut, Stranger, Fresh
    <2>1. g \in hooks /\ g # h /\ g.kind # "prompt" /\ KeptOut(g)
      BY <1>2, <1>3 DEF Protocol, StrangersKeptOut
    <2>2. Active(db) /\ g.session = h.session
      BY <1>7 DEF Stranger, Active
    <2>3. h.step # "bound"
      BY <1>2, <1>6, <2>1, <2>2 DEF Stranger, Fresh, RowsTyped, HookRow
    <2> QED
      BY <1>1, <1>17, <2>1, <2>2, <2>3 DEF KeptOut, Void, IsOpen, Past
  <1>19. StrangerAtWork'
    <2> SUFFICES ASSUME Own, runtime.prompted, runtime.doing \notin {NoRequest, db.turn.item}
                 PROVE  db.turn.binding = "rejected" \/ (Void /\ Past(runtime.session)')
      BY <1>1 DEF StrangerAtWork, Own, Void, IsOpen, Past
    <2>1. Active(db) /\ Here(h)
      BY <1>7 DEF Own, Active, Here
    <2>2. h.step = "rejected"
      BY <1>1, <1>2, <1>6, <2>1
    <2> QED
      BY <1>1, <1>8, <1>17, <2>1, <2>2 DEF Here, Past
  <1>20. Clean'
    BY <1>1, <1>3 DEF Protocol, Clean, CleanHooks, CleanSend, CleanTyped, CleanDoing, CleanPrompt,
       CleanPending, CleanQueued, Here, Active, Fresh
  <1>21. QueuedWaits'
    <2>1. ASSUME NEW r \in Streamed, Waits(r), db.request[r].status = "queued"
          PROVE  Waits(r)'
      <3>1. /\ Here(h) /\ Active(db) /\ h.request = r /\ db.turn.request = r
            /\ WaitsPrompt(r) \/ (WaitsWork(r) /\ h.step = "bound" /\ ~Void) \/ (WaitsWork(r) /\ Void)
        BY <1>1, <2>1, PromptMeans
      <3>2. ~Void
        BY <2>1, <3>1 DEF Void, IsOpen, Open
      <3>3. WaitsWork(r) /\ h.step = "bound"
        BY <1>1, <1>2, <3>1, <3>2 DEF WaitsPrompt
      <3>4. file[h.session].at <= h.at
        BY <1>1, <1>2, <3>1, <3>3 DEF WaitsWork, Protocol, FileTimes, Here
      <3>5. file'[h.session].mode = "bound" /\ file'[h.session].request = r
        BY <1>2, <1>5, <3>1, <3>3, <3>4 DEF RowsTyped, HookRow
      <3>6. WaitsWork(r)'
        BY <1>1, <3>1, <3>3, <3>5 DEF WaitsWork, Own, Here
      <3> QED
        BY <1>1, <1>3, <2>1, <3>6 DEF Waits, Here, Active
    <2> QED
      BY <1>1, <2>1 DEF Protocol, QueuedWaits
  <1>22. ActivityStaysInItsTurn'
    BY <1>1 DEF Protocol, ActivityStaysInItsTurn
  <1> QED
    BY <1>9, <1>10, <1>11, <1>12, <1>13, <1>14, <1>15, <1>16, <1>18, <1>19, <1>20, <1>21, <1>22
    DEF Protocol
\* What a hook that reads the binding file does to the turn d and to the file.
Resolves(d, h) ==
    \/ /\ file[h.session].mode = "bound" /\ db' = d /\ file' = file
       /\ HookGoes(h, file[h.session].request, AfterResolve(h))
    \/ /\ file[h.session].mode \notin {"none", "bound"} /\ db' = d /\ file' = file /\ HookEnds(h)
    \/ /\ file[h.session].mode = "none" /\ HookGoes(h, d.turn.request, AfterResolve(h))
       /\ Active(d) /\ d.turn.request \in Streamed /\ d.turn.request = db.turn.item
       /\ CanBind(d, d.turn.request, h.session)
       /\ BindsTurn(d, db', d.turn.request, h.session)
       /\ file' = Write(file, h.session, "bound", d.turn.request, h.at)
    \/ /\ file[h.session].mode = "none" /\ HookEnds(h)
       /\ Active(d) /\ d.turn.request # NoRequest => ~CanBind(d, d.turn.request, h.session)
       /\ RejectsTurn(d, db', h.session, h.at)
       /\ file' = Write(file, h.session, "rejected", NoRequest, h.at)
LEMMA HookResolves ==
    ASSUME StateInv, Protocol, NEW h \in hooks, h.kind \in {"tool", "post", "reasoning", "answer"},
           NEW d, DataInv(d), d.request = db.request, Active(d) <=> Active(db),
           Active(d) => d.turn.request = db.turn.request, Resolve(d, h)
    PROVE  Resolves(d, h)
  <1>1. RowsTyped /\ HookRow(h) /\ h.session \in Sessions
    BY StateRows DEF RowsTyped, HookRow
  <1> DEFINE s == h.session
  <1>2. Resolved(d, h)
    BY ResolveCases
  <1>3. GivesUp(h) => HookEnds(h)
    BY ToEnds DEF GivesUp
  <1>4. CASE file[s].mode = "bound" /\ db' = d /\ UNCHANGED file /\ Become(h, Told(h, file[s].request))
    BY <1>4, ToldGoes DEF Resolves
  <1>5. CASE file[s].mode # "bound" /\ file[s].mode # "none" /\ db' = d /\ UNCHANGED file /\ GivesUp(h)
    BY <1>3, <1>5 DEF Resolves
  <1>6. ASSUME file[s].mode = "none", NEW r \in NextRun(d, s), CanBind(d, r, s), db' = Bind(d, r, s),
               file' = Write(file, s, "bound", r, h.at), Become(h, Told(h, r))
        PROVE  Resolves(d, h)
    <2>1. r \in Streamed /\ d.request[r].status \in Open
      BY <1>6 DEF CanBind
    <2>2. Active(d)
      <3> SUFFICES ASSUME ~Active(d)
                   PROVE  FALSE
        OBVIOUS
      <3>1. d.request[r].session = s \/ d.request[r].status = "started"
        BY <1>6 DEF NextRun
      <3>2. Touched(r) /\ IsOpen(r)
        BY <1>1, <2>1, <3>1, NoneAssumption DEF Touched, IsOpen
      <3> QED
        BY <2>1, <3>2 DEF Protocol, TouchedIsAdmitted
    <2>3. r = d.turn.request
      BY <1>6, <2>2 DEF NextRun
    <2>4. r = db.turn.item
      BY <2>1, <2>2, <2>3, NoneAssumption, ItemsAssumption DEF Protocol, TurnShape
    <2>5. BindsTurn(d, db', r, s)
      BY <1>1, <1>6, <2>1, <2>2, <2>4, TurnBinds
    <2> QED
      BY <1>6, <2>1, <2>2, <2>3, <2>4, <2>5, ToldGoes DEF Resolves
  <1>7. CASE /\ file[s].mode = "none" /\ \A r \in NextRun(d, s) : ~CanBind(d, r, s)
             /\ db' = RejectBinding(d, s, h.at)
             /\ file' = Write(file, s, "rejected", NoRequest, h.at) /\ GivesUp(h)
    <2>1. RejectsTurn(d, db', s, h.at)
      BY <1>1, <1>7, TurnRejects
    <2>2. Active(d) /\ d.turn.request # NoRequest => d.turn.request \in NextRun(d, s)
      BY DEF NextRun
    <2> QED
      BY <1>3, <1>7, <2>1, <2>2 DEF Resolves
  <1> QED
    BY <1>2, <1>4, <1>5, <1>6, <1>7 DEF Resolved

\* A turn whose prompt hook was lost is started by a tool.
LEMMA ProtocolLateStart ==
    ASSUME StateInv, Protocol, NEW h \in hooks, h.kind = "tool", HookStarts(h),
           db.turn.status = "submitted", ~Stale(db, h.at)
    PROVE  Protocol'
  <1> DEFINE d == StartTurn(db, h.session, h.at)
             s == h.session
  <1>1. /\ RowsTyped /\ HookRow(h) /\ h.seen = h.at /\ s \in Sessions /\ h.at \in Nat /\ h.at <= clock
        /\ Active(db) /\ db.turn.since \in Nat
        /\ UNCHANGED <<conv, pump, runtime, clock, spent>>
    BY StateRows DEF RowsTyped, HookRow, HookStarts, HookKeeps, Active
  <1>2. h.of = NoRequest /\ db.unprojected = {} /\ db.turn.binding = "pending" /\ Fresh(h)
    BY <1>1 DEF Protocol, TurnShape, SubmittedWaits, Stale, Fresh, HookRow
  <1>3. (\A p \in hooks : Here(p)) /\ Here(h)
    BY <1>2 DEF Protocol, Phases, OneFault
  <1>4. runtime.doing # NoRequest /\ ~runtime.prompted /\ spent.faults = 1
    BY <1>2, <1>3 DEF Protocol, Phases, Resting, Lives, OfDoing, OneFault
  <1>5. \A p \in hooks : p.kind \notin {"prompt", "stop"}
    BY <1>3, <1>4 DEF Protocol, Phases, PromptAlone, Working, Lives
  <1>6. file[s].mode # "bound"
    BY <1>1, <1>2 DEF Protocol, FileOfTurn
  <1>7. StartsTurn(db, d, s, h.at)
    BY <1>1, TurnStarts DEF StateInv
  <1>8. Resolve(d, h)
    BY DEF HookStarts, Started
  <1> HIDE DEF d
  <1>9. /\ DataInv(d) /\ d.request = db.request /\ d.events = db.events /\ d.unprojected = {}
        /\ d.turn.status = "started" /\ d.turn.session = s /\ d.turn.since = h.seen
        /\ d.turn.item = db.turn.item /\ d.turn.request = db.turn.request
        /\ d.turn.binding = "pending" /\ d.turn.quiet = FALSE /\ d.turn.watched = FALSE
        /\ Active(d)
    BY <1>1, <1>2, <1>7 DEF StartsTurn, Active
  <1>10. Resolves(d, h)
    BY <1>1, <1>8, <1>9, HookResolves
  <1>11. /\ db'.events = db.events /\ db'.unprojected = {}
         /\ \A r \in Streamed :
               /\ db'.request[r].status = db.request[r].status
               /\ r # db.turn.item => db'.request[r].session = db.request[r].session
         /\ db'.turn.status = "started" /\ db'.turn.session = s /\ db'.turn.since = h.seen
         /\ db'.turn.item = db.turn.item /\ db'.turn.request = db.turn.request
         /\ db'.turn.quiet = FALSE /\ db'.turn.watched = FALSE
         /\ db'.turn.binding = "bound" => /\ db.turn.request \in Streamed
                                          /\ db'.request[db.turn.request].session = s
    BY <1>6, <1>9, <1>10 DEF Resolves, BindsTurn, RejectsTurn, SameTurn
  <1>12. /\ \A t \in Sessions \ {s} : file'[t] = file[t]
         /\ \/ file'[s] = file[s]
            \/ file'[s].mode = "rejected" /\ file'[s].at = h.at
            \/ /\ file'[s].mode = "bound" /\ file'[s].at = h.at /\ file'[s].request = db.turn.request
               /\ db'.turn.binding = "bound"
    BY <1>1, <1>6, <1>9, <1>10, WriteEffect DEF StateInv, Resolves, BindsTurn
  <1>13. HookEnds(h) \/ (\E r, step : HookGoes(h, r, step))
    BY <1>10 DEF Resolves
  <1>14. \A g \in hooks' : \E o \in hooks : SameHook(o, g)
    BY <1>13 DEF HookEnds, HookGoes, SameHook
  <1>15. \A g \in hooks' : g.kind \notin {"prompt", "stop"}
    BY <1>5, <1>14 DEF SameHook
  <1>16. Phases'
    BY <1>1, <1>13, PhasesGoOn DEF Protocol
  <1>17. Times' /\ TurnShape' /\ PumpShape'
    <2>1. Times'
      BY <1>1, <1>11, <1>12 DEF Protocol, Times, HookRow
    <2>2. TurnShape'
      BY <1>1, <1>11 DEF Protocol, TurnShape
    <2>3. PumpShape'
      BY <1>1, <1>11 DEF Protocol, PumpShape
    <2> QED
      BY <2>1, <2>2, <2>3
  <1>18. TouchedIsAdmitted'
    BY <1>1, <1>11, <1>14 DEF Protocol, TouchedIsAdmitted, Touched, IsOpen, Active, SameHook
  <1>19. SubmittedWaits' /\ PromptTurn' /\ OldPrompt' /\ BoundPrompt' /\ OldTurn' /\ Leftover' /\ StopTurnIsOwn'
    BY <1>1, <1>3, <1>4, <1>11, <1>15 DEF SubmittedWaits, PromptTurn, OldPrompt, BoundPrompt, OldTurn,
       Leftover, StopTurnIsOwn, Unfinished, Own, Here
  <1>20. FileOfTurn'
    BY <1>1, <1>2, <1>6, <1>11, <1>12 DEF Protocol, FileOfTurn
  <1>21. FileTimes' /\ StopFile' /\ WorkFile' /\ StrangerAtWork'
    BY <1>1, <1>4, <1>15 DEF FileTimes, StopFile, WorkFile, StrangerAtWork
  <1>22. StrangersKeptOut'
    <2> SUFFICES ASSUME NEW g \in hooks', Stranger(g)'
                 PROVE  FALSE
      BY DEF StrangersKeptOut
    <2>1. PICK o \in hooks : SameHook(o, g)
      BY <1>14
    <2>2. o.seen >= h.seen /\ o.of # NoRequest /\ o.seen \in Nat /\ h.seen \in Nat
      BY <1>1, <1>11, <2>1 DEF Stranger, Fresh, SameHook, RowsTyped, HookRow
    <2>3. Fresh(o)
      BY <1>1, <1>2, <2>2 DEF Fresh
    <2> QED
      BY <1>5, <2>2, <2>3 DEF Protocol, SubmittedWaits
  <1>23. Clean'
    BY <1>1, <1>4 DEF Clean
  <1>24. QueuedWaits'
    BY <1>1, <1>4, <1>11 DEF Protocol, QueuedWaits, Waits
  <1>25. ActivityStaysInItsTurn'
    BY <1>11 DEF Protocol, ActivityStaysInItsTurn
  <1> QED
    BY <1>16, <1>17, <1>18, <1>19, <1>20, <1>21, <1>22, <1>23, <1>24, <1>25 DEF Protocol
\* A hook that finds no binding file in a session whose turn has started binds the turn.
LEMMA ProtocolBindsLate ==
    ASSUME StateInv, Protocol, NEW h \in hooks, h.kind \in {"tool", "post", "reasoning", "answer"},
           UNCHANGED <<conv, pump, runtime, clock, spent>>, NEW d,
           Started(db, h.session), ~Stale(db, h.at), SameTurn(db.turn, d.turn),
           d.turn.binding = db.turn.binding, d.request = db.request, d.events = db.events,
           d.unprojected = db.unprojected,
           file[h.session].mode = "none", HookGoes(h, d.turn.request, AfterResolve(h)),
           d.turn.request \in Streamed, d.turn.request = db.turn.item,
           CanBind(d, d.turn.request, h.session),
           BindsTurn(d, db', d.turn.request, h.session),
           file' = Write(file, h.session, "bound", d.turn.request, h.at)
    PROVE  Protocol'
  <1> DEFINE s == h.session
             r == db.turn.item
  <1>1. RowsTyped /\ HookRow(h) /\ s \in Sessions /\ h.at \in Nat /\ h.at <= clock
    BY StateRows DEF RowsTyped, HookRow
  <1>2. /\ db.turn.status = "started" /\ db.turn.session = s /\ r \in Streamed /\ db.turn.request = r
        /\ h.at >= db.turn.since /\ db.unprojected = {} /\ Active(db)
    <2>1. db.turn.status = "started" /\ db.turn.session = s /\ Active(db)
      BY DEF Started, Active
    <2>2. r \in Streamed /\ db.turn.request = r
      BY DEF SameTurn
    <2>3. h.at >= db.turn.since /\ db.unprojected = {}
      BY <1>1, <2>1 DEF Stale, Protocol, TurnShape, RowsTyped
    <2> QED
      BY <2>1, <2>2, <2>3
  <1>3. IsOpen(r) /\ ~Void /\ db.turn.binding # "rejected"
    BY <1>2 DEF CanBind, Active, IsOpen, Void, SameTurn
  <1>4. /\ db'.events = db.events /\ db'.unprojected = {}
        /\ \A o \in Streamed : /\ db'.request[o].status = db.request[o].status
                               /\ o # r => db'.request[o].session = db.request[o].session
        /\ db'.request[r].session = s
        /\ db'.turn.status = "started" /\ db'.turn.session = s /\ db'.turn.since = db.turn.since
        /\ db'.turn.item = r /\ db'.turn.request = r /\ db'.turn.binding = "bound"
        /\ db'.turn.quiet = FALSE /\ db'.turn.watched = FALSE
    BY <1>2 DEF BindsTurn, SameTurn
  <1>5. /\ \A t \in Sessions \ {s} : file'[t] = file[t]
        /\ \/ file'[s] = file[s]
           \/ file'[s].mode = "bound" /\ file'[s].at = h.at /\ file'[s].request = r
    BY <1>1, <1>2, WriteEffect DEF StateInv
  <1>6. PICK g : /\ SameHook(h, g) /\ g.request = r /\ hooks' = (hooks \ {h}) \cup {g}
    BY <1>2 DEF HookGoes
  <1>7. \A p \in hooks : p.kind # "prompt"
    <2> SUFFICES ASSUME NEW p \in hooks, p.kind = "prompt"
                 PROVE  FALSE
      OBVIOUS
    <2>1. p.session = s /\ HookRow(p)
      BY <1>1, <1>2 DEF Protocol, PromptTurn, RowsTyped
    <2>2. h.kind = "post" /\ h.seen < p.seen
      BY <2>1 DEF Protocol, Phases, PromptAlone
    <2>3. h.seen >= db.turn.since
      BY <1>1, <1>2, <2>2 DEF HookRow
    <2>4. db.turn.since # p.seen
      BY <1>1, <1>2, <2>1, <2>2, <2>3 DEF HookRow, RowsTyped
    <2> QED
      BY <1>2, <1>3, <2>1, <2>4 DEF Protocol, PromptTurn, HookRow
  <1>8. /\ \A q \in hooks' : q \in hooks \/ (SameHook(h, q) /\ q = g)
        /\ \A q \in hooks' : q.kind \in {"prompt", "stop"} => q \in hooks /\ q # h
        /\ \A q \in hooks : q.kind \in {"prompt", "stop"} => q \in hooks'
        /\ \A q \in hooks' : q.kind # "prompt"
    BY <1>6, <1>7 DEF SameHook
  <1>9. Here(h) => ~runtime.prompted \/ runtime.doing = NoRequest
    BY <1>7 DEF Protocol, WorkFile, Lives, Here
  <1>10. \A q \in hooks : q.kind = "stop" /\ q.session = s => h.at <= q.at
    BY DEF Protocol, Phases, StopAlone
  <1>11. (Own' <=> Own) /\ Active(db)' /\ (\A q : Fresh(q)' <=> Fresh(q))
         /\ \A o \in Streamed : IsOpen(o)' <=> IsOpen(o)
    BY <1>2, <1>4 DEF Own, Active, Fresh, IsOpen
  <1> HIDE DEF s, r
  <1>12. Phases'
    BY PhasesGoOn DEF Protocol
  <1>13. Times' /\ TurnShape' /\ PumpShape'
    <2>1. Times'
      BY <1>1, <1>2, <1>4, <1>5 DEF Protocol, Times
    <2>2. TurnShape' /\ PumpShape'
      BY <1>2, <1>4 DEF Protocol, TurnShape, PumpShape
    <2> QED
      BY <2>1, <2>2
  <1>14. TouchedIsAdmitted'
    <2> SUFFICES ASSUME NEW o \in Streamed, IsOpen(o), Touched(o)'
                 PROVE  o = r
      BY <1>4, <1>11 DEF TouchedIsAdmitted
    <2>1. o = r \/ Touched(o)
      BY <1>4, <1>8 DEF Touched, SameHook
    <2> QED
      BY <2>1 DEF Protocol, TouchedIsAdmitted, r
  <1>15. SubmittedWaits' /\ PromptTurn' /\ OldPrompt' /\ BoundPrompt' /\ OldTurn'
    BY <1>2, <1>4, <1>8, <1>11 DEF Protocol, SubmittedWaits, PromptTurn, OldPrompt, BoundPrompt, OldTurn
  <1>16. Leftover' /\ StopTurnIsOwn'
    BY <1>2, <1>3, <1>4, <1>8, <1>11 DEF Protocol, Leftover, StopTurnIsOwn, Unfinished, Here
  <1>17. FileOfTurn'
    BY <1>2, <1>4, <1>5 DEF Protocol, FileOfTurn
  <1>18. FileTimes' /\ StopFile' /\ WorkFile'
    <2>1. \A q \in hooks' : q.kind = "stop" => q \in hooks /\ q.session \in Sessions
      BY <1>1, <1>8 DEF RowsTyped, HookRow
    <2>2. runtime.session \in Sessions
      BY <1>1 DEF RowsTyped
    <2>3. FileTimes' /\ StopFile'
      <3>1. FileTimes'
        BY <1>1, <1>5, <1>8, <1>10, <2>1 DEF Protocol, FileTimes, s
      <3>2. StopFile'
        BY <1>1, <1>5, <1>8, <1>10, <2>1 DEF Protocol, StopFile, s
      <3> QED
        BY <3>1, <3>2
    <2>4. WorkFile'
      BY <1>5, <1>7, <1>9, <2>2 DEF Protocol, WorkFile, Lives, Here, s
    <2> QED
      BY <2>3, <2>4
  <1>19. StrangersKeptOut' /\ StrangerAtWork'
    <2>1. \A q \in hooks : ~Stranger(q)
      BY <1>3, <1>7 DEF Protocol, StrangersKeptOut, KeptOut
    <2>2. \A q \in hooks' : ~Stranger(q)'
      BY <1>2, <1>4, <1>8, <1>11, <2>1 DEF Stranger, SameHook, Fresh, r, s
    <2>3. StrangerAtWork'
      BY <1>3, <1>4, <1>7, <1>11 DEF Protocol, StrangerAtWork, Lives, r
    <2> QED
      BY <2>2, <2>3 DEF StrangersKeptOut
  <1>20. Clean'
    <2> SUFFICES ASSUME spent.faults = 0
                 PROVE  CleanHooks' /\ CleanSend' /\ CleanTyped' /\ CleanDoing' /\ CleanPrompt'
                        /\ CleanPending' /\ CleanQueued'
      BY DEF Clean
    <2>1. CleanHooks /\ CleanSend /\ CleanTyped /\ CleanDoing /\ CleanPrompt /\ CleanPending /\ CleanQueued
      BY DEF Protocol, Clean
    <2>2. CleanHooks' /\ CleanPrompt' /\ CleanSend' /\ CleanTyped' /\ CleanDoing'
      BY <1>2, <1>4, <1>8, <1>11, <2>1 DEF CleanHooks, CleanPrompt, CleanSend, CleanTyped, CleanDoing,
         Here, SameHook, r
    <2>3. CleanPending' /\ CleanQueued'
      BY <1>2, <1>4, <1>8, <1>11, <2>1 DEF CleanPending, CleanQueued, SameHook, r
    <2> QED
      BY <2>2, <2>3
  <1>21. QueuedWaits'
    <2>1. ASSUME NEW o \in Streamed, Waits(o)
          PROVE  Waits(o)'
      <3>1. o = r /\ WaitsStop(o) /\ runtime.session = s
        <4>1. o = r /\ ~WaitsTyped(o) /\ ~WaitsPrompt(o)
          BY <1>2, <1>7, <2>1 DEF Waits, WaitsTyped, WaitsPrompt, r
        <4>2. Own => runtime.session = s
          BY <1>2 DEF Own
        <4>3. ~WaitsWork(o)
          BY <1>7, <4>2 DEF WaitsWork, s
        <4> QED
          BY <2>1, <4>1, <4>2, <4>3 DEF Waits, WaitsStop
      <3>2. PICK q \in hooks : q.kind = "stop" /\ q.of = o /\ q.step = "finish" /\ q.request = o
        BY <3>1 DEF WaitsStop, s
      <3>3. WaitsStop(o)'
        BY <1>4, <1>8, <1>11, <3>1, <3>2 DEF WaitsStop
      <3> QED
        BY <1>4, <1>8, <1>11, <2>1, <3>1, <3>3 DEF Waits, Here, SameHook, r
    <2> QED
      BY <1>4, <2>1 DEF Protocol, QueuedWaits
  <1>22. ActivityStaysInItsTurn'
    BY <1>4 DEF Protocol, ActivityStaysInItsTurn
  <1> QED
    BY <1>12, <1>13, <1>14, <1>15, <1>16, <1>17, <1>18, <1>19, <1>20, <1>21, <1>22 DEF Protocol
\* A hook that finds neither a binding file nor a request to bind closes the session's file.
LEMMA ProtocolRejectsLate ==
    ASSUME StateInv, Protocol, NEW h \in hooks, h.kind \in {"tool", "post", "reasoning", "answer"},
           UNCHANGED <<conv, pump, runtime, clock, spent>>, NEW d,
           Started(db, h.session), ~Stale(db, h.at), SameTurn(db.turn, d.turn),
           d.turn.binding = db.turn.binding, d.request = db.request, d.events = db.events,
           d.unprojected = db.unprojected,
           file[h.session].mode = "none", HookEnds(h),
           d.turn.request # NoRequest => ~CanBind(d, d.turn.request, h.session),
           RejectsTurn(d, db', h.session, h.at),
           file' = Write(file, h.session, "rejected", NoRequest, h.at)
    PROVE  Protocol'
  <1> DEFINE s == h.session
  <1>1. /\ RowsTyped /\ HookRow(h) /\ s \in Sessions /\ h.at \in Nat /\ h.at <= clock
        /\ hooks' = hooks \ {h}
    BY StateRows DEF RowsTyped, HookRow, HookEnds
  <1>2. /\ db.turn.status = "started" /\ db.turn.session = s /\ h.at >= db.turn.since
        /\ db.unprojected = {} /\ Active(db)
    BY <1>1 DEF Started, Active, Stale, Protocol, TurnShape, RowsTyped
  <1>3. Started(d, s) /\ ~Stale(d, h.at)
    BY <1>2 DEF Started, Stale, Active, SameTurn
  <1>4. /\ db'.events = db.events /\ db'.unprojected = {} /\ db'.request = db.request
        /\ db'.turn.status = "started" /\ db'.turn.session = s /\ db'.turn.since = db.turn.since
        /\ db'.turn.item = db.turn.item /\ db'.turn.request = db.turn.request
        /\ db'.turn.quiet = FALSE /\ db'.turn.watched = FALSE
        /\ db'.turn.binding = IF db.turn.binding = "pending" THEN "rejected" ELSE db.turn.binding
    <2>1. CASE db.turn.binding = "pending"
      BY <1>2, <1>3, <2>1 DEF RejectsTurn, SameTurn
    <2>2. CASE db.turn.binding # "pending"
      BY <1>2, <1>3, <2>2 DEF RejectsTurn, SameTurn
    <2> QED
      BY <2>1, <2>2
  <1>5. db.turn.binding \in {"pending", "rejected"} \/ Void
    <2> SUFFICES ASSUME db.turn.binding = "bound"
                 PROVE  ~IsOpen(db.turn.request)
      BY <1>1, <1>2 DEF RowsTyped, Void
    <2>1. /\ db.turn.request \in Streamed /\ db.turn.request # NoRequest
          /\ db.request[db.turn.request].session = s
      BY <1>2, NoneAssumption, ItemsAssumption DEF Protocol, TurnShape
    <2>2. ~CanBind(d, db.turn.request, s) /\ d.turn.request = db.turn.request
      BY <2>1 DEF SameTurn
    <2> QED
      BY <1>3, <2>1, <2>2 DEF CanBind, IsOpen
  <1>6. /\ \A t \in Sessions \ {s} : file'[t] = file[t]
        /\ file'[s] = file[s] \/ (file'[s].mode = "rejected" /\ file'[s].at = h.at)
    BY <1>1, WriteEffect DEF StateInv
  <1>7. \A p \in hooks : p.kind = "prompt" => p.session = s /\ p.step # "bound"
                                             /\ (Void \/ db.turn.binding = "rejected")
    <2> SUFFICES ASSUME NEW p \in hooks, p.kind = "prompt"
                 PROVE  p.session = s /\ p.step # "bound" /\ (Void \/ db.turn.binding = "rejected")
      OBVIOUS
    <2>1. p.session = s /\ HookRow(p)
      BY <1>1, <1>2 DEF Protocol, PromptTurn, RowsTyped
    <2>2. h.kind = "post" /\ h.seen < p.seen
      BY <2>1 DEF Protocol, Phases, PromptAlone
    <2>3. h.seen >= db.turn.since
      BY <1>1, <1>2, <2>2 DEF HookRow
    <2>4. db.turn.since # p.seen
      BY <1>1, <1>2, <2>1, <2>2, <2>3 DEF HookRow, RowsTyped
    <2> QED
      BY <1>2, <2>1, <2>4 DEF Protocol, PromptTurn, HookRow
  <1>8. Here(h) => ~runtime.prompted \/ runtime.doing = NoRequest \/ Lives({"prompt"})
    BY DEF Protocol, WorkFile, Here
  <1>9. /\ (Own' <=> Own) /\ Active(db)' /\ (\A q : Fresh(q)' <=> Fresh(q)) /\ (Void' <=> Void)
        /\ \A o \in Streamed : IsOpen(o)' <=> IsOpen(o)
        /\ db'.turn.binding = "rejected" \/ Void'
    <2>1. (Own' <=> Own) /\ Active(db)' /\ (\A q : Fresh(q)' <=> Fresh(q)) /\ (Void' <=> Void)
          /\ \A o \in Streamed : IsOpen(o)' <=> IsOpen(o)
      BY <1>2, <1>4 DEF Own, Active, Fresh, IsOpen, Void
    <2> QED
      BY <1>4, <1>5, <2>1
  <1> HIDE DEF s
  <1>10. Phases'
    BY PhasesGoOn DEF Protocol
  <1>11. Times' /\ TurnShape' /\ PumpShape'
    <2>1. Times'
      BY <1>1, <1>2, <1>4, <1>6 DEF Protocol, Times
    <2>2. TurnShape' /\ PumpShape'
      BY <1>2, <1>4 DEF Protocol, TurnShape, PumpShape
    <2> QED
      BY <2>1, <2>2
  <1>12. TouchedIsAdmitted'
    BY <1>1, <1>2, <1>4, <1>9 DEF Protocol, TouchedIsAdmitted, Touched
  <1>13. SubmittedWaits' /\ PromptTurn' /\ OldPrompt' /\ BoundPrompt' /\ OldTurn'
    <2>1. SubmittedWaits' /\ OldPrompt' /\ BoundPrompt' /\ OldTurn'
      BY <1>1, <1>2, <1>4, <1>9 DEF Protocol, SubmittedWaits, OldPrompt, BoundPrompt, OldTurn, Here
    <2>2. PromptTurn'
      BY <1>1, <1>2, <1>4, <1>7, <1>9 DEF Protocol, PromptTurn
    <2> QED
      BY <2>1, <2>2
  <1>14. Leftover' /\ StopTurnIsOwn'
    BY <1>1, <1>2, <1>4, <1>9 DEF Protocol, Leftover, StopTurnIsOwn, Unfinished, Here
  <1>15. FileOfTurn'
    BY <1>2, <1>4, <1>6 DEF Protocol, FileOfTurn, s
  <1>16. FileTimes' /\ StopFile' /\ WorkFile'
    <2>1. \A q \in hooks' : q \in hooks /\ q # h /\ q.session \in Sessions
      BY <1>1 DEF RowsTyped, HookRow
    <2>2. runtime.session \in Sessions
      BY <1>1 DEF RowsTyped
    <2>3. FileTimes' /\ StopFile'
      BY <1>1, <1>6, <2>1 DEF Protocol, FileTimes, StopFile, s
    <2>4. Lives({"prompt"})' <=> Lives({"prompt"})
      BY <1>1 DEF Lives, Here
    <2>5. WorkFile'
      BY <1>6, <1>8, <2>2, <2>4 DEF Protocol, WorkFile, Here, s
    <2> QED
      BY <2>3, <2>5
  <1>17. StrangersKeptOut'
    <2> SUFFICES ASSUME NEW g \in hooks', Stranger(g)', Void, Void', db'.turn.binding # "rejected"
                 PROVE  KeptOut(g)'
      BY <1>9 DEF StrangersKeptOut, KeptOut
    <2>1. g \in hooks /\ g.session = s /\ Stranger(g)
      BY <1>1, <1>2, <1>4, <1>9 DEF Stranger
    <2>2. db.turn.binding = "bound"
      BY DEF Void
    <2>3. KeptOut(g)
      BY <2>1 DEF Protocol, StrangersKeptOut
    <2>4. ~Past(s)
      BY DEF Past, s
    <2> QED
      BY <2>1, <2>2, <2>3, <2>4 DEF KeptOut
  <1>18. StrangerAtWork'
    <2> SUFFICES ASSUME Own, runtime.prompted, runtime.doing \notin {NoRequest, db.turn.item},
                        Void, Void', db'.turn.binding # "rejected"
                 PROVE  Lives({"prompt"})'
      BY <1>4, <1>9 DEF StrangerAtWork
    <2>1. db.turn.binding = "bound" /\ runtime.session = s
      BY <1>2 DEF Void, Own
    <2>2. Lives({"prompt"})
      BY <2>1 DEF Protocol, StrangerAtWork, Past, s
    <2> QED
      BY <1>1, <2>2 DEF Lives, Here
  <1>19. Clean'
    BY <1>1, <1>2, <1>4, <1>9 DEF Protocol, Clean, CleanHooks, CleanSend, CleanTyped, CleanDoing,
       CleanPrompt, CleanPending, CleanQueued, Here
  <1>20. QueuedWaits'
    <2>1. ASSUME NEW o \in Streamed, Waits(o), db.request[o].status = "queued"
          PROVE  FALSE
      <3>1. db.turn.item = o /\ db.turn.request = o
        BY <2>1 DEF Waits, Protocol, TurnShape
      <3>2. ~Void /\ db.turn.binding # "bound"
        BY <1>5, <2>1, <3>1 DEF Void, IsOpen, Open
      <3>3. WaitsPrompt(o)
        BY <1>2, <2>1, <3>2 DEF Waits, WaitsTyped, WaitsWork, WaitsStop
      <3> QED
        BY <1>2, <1>7, <3>2, <3>3 DEF WaitsPrompt
    <2> QED
      BY <1>4, <2>1 DEF Protocol, QueuedWaits
  <1>21. ActivityStaysInItsTurn'
    BY <1>4 DEF Protocol, ActivityStaysInItsTurn
  <1> QED
    BY <1>10, <1>11, <1>12, <1>13, <1>14, <1>15, <1>16, <1>17, <1>18, <1>19, <1>20, <1>21 DEF Protocol

\* Without an admission such a hook does no more.
LEMMA ProtocolRejectsNone ==
    ASSUME StateInv, Protocol, NEW h \in hooks, h.kind \in {"tool", "post", "reasoning", "answer"},
           UNCHANGED <<db, conv, pump, runtime, clock, spent>>, ~Active(db),
           file[h.session].mode = "none", HookEnds(h),
           file' = Write(file, h.session, "rejected", NoRequest, h.at)
    PROVE  Protocol'
  <1>1. /\ RowsTyped /\ HookRow(h) /\ h.session \in Sessions /\ h.at \in Nat /\ h.at <= clock
        /\ hooks' = hooks \ {h} /\ db.turn.status = "none"
    BY StateRows DEF RowsTyped, HookRow, HookEnds, Active
  <1>2. /\ \A t \in Sessions \ {h.session} : file'[t] = file[t]
        /\ \/ file'[h.session] = file[h.session]
           \/ file'[h.session].mode = "rejected" /\ file'[h.session].at = h.at
    BY <1>1, WriteEffect DEF StateInv
  <1>3. Phases'
    BY PhasesGoOn DEF Protocol
  <1>4. Times' /\ TurnShape' /\ PumpShape'
    BY <1>1, <1>2 DEF Protocol, Times, TurnShape, PumpShape, Active
  <1>5. TouchedIsAdmitted'
    BY <1>1 DEF Protocol, TouchedIsAdmitted, Touched, IsOpen
  <1>6. SubmittedWaits' /\ PromptTurn' /\ OldPrompt' /\ BoundPrompt' /\ OldTurn' /\ Leftover' /\ StopTurnIsOwn'
    BY <1>1 DEF Protocol, SubmittedWaits, PromptTurn, OldPrompt, BoundPrompt, OldTurn, Leftover,
       StopTurnIsOwn, Own, Here, Active, Unfinished
  <1>7. FileOfTurn'
    BY <1>1, <1>2 DEF Protocol, FileOfTurn
  <1>8. FileTimes' /\ StopFile' /\ WorkFile'
    <2>1. \A q \in hooks' : q \in hooks /\ q.session \in Sessions
      BY <1>1 DEF RowsTyped, HookRow
    <2>2. runtime.session \in Sessions
      BY <1>1 DEF RowsTyped
    <2>3. FileTimes' /\ StopFile'
      BY <1>2, <2>1 DEF Protocol, FileTimes, StopFile
    <2>4. Lives({"prompt"})' <=> Lives({"prompt"})
      BY <1>1 DEF Lives, Here
    <2>5. WorkFile'
      BY <1>2, <2>2, <2>4 DEF Protocol, WorkFile
    <2> QED
      BY <2>3, <2>5
  <1>9. StrangersKeptOut' /\ StrangerAtWork'
    BY <1>1 DEF StrangersKeptOut, StrangerAtWork, Stranger, Own
  <1>10. Clean'
    BY <1>1 DEF Protocol, Clean, CleanHooks, CleanSend, CleanTyped, CleanDoing, CleanPrompt,
       CleanPending, CleanQueued, Here, Active, Fresh
  <1>11. QueuedWaits'
    BY <1>1 DEF Protocol, QueuedWaits, Waits
  <1>12. ActivityStaysInItsTurn'
    BY DEF Protocol, ActivityStaysInItsTurn
  <1> QED
    BY <1>3, <1>4, <1>5, <1>6, <1>7, <1>8, <1>9, <1>10, <1>11, <1>12 DEF Protocol
\* A hook that has found its turn, or no admission at all, reads the binding file.
LEMMA ProtocolResolves ==
    ASSUME StateInv, Protocol, NEW h \in hooks, h.kind \in {"tool", "post", "reasoning", "answer"},
           UNCHANGED <<conv, pump, runtime, clock, spent>>, NEW d, DataInv(d), Resolve(d, h),
           d.request = db.request, d.events = db.events, d.unprojected = db.unprojected,
           \/ /\ Started(db, h.session) /\ ~Stale(db, h.at)
              /\ SameTurn(db.turn, d.turn) /\ d.turn.binding = db.turn.binding
              /\ Alike(db, d)
           \/ ~Active(db) /\ d = db
    PROVE  Protocol'
  <1>1. (Active(d) <=> Active(db)) /\ (Active(d) => d.turn.request = db.turn.request)
    BY DEF Active, Started, SameTurn
  <1>2. Resolves(d, h)
    BY <1>1, HookResolves
  <1>3. CASE file[h.session].mode # "none"
    <2>1. Alike(db, db') /\ db'.events = db.events /\ UNCHANGED file
      BY <1>2, <1>3 DEF Resolves, Alike
    <2>2. \/ HookEnds(h)
          \/ \E r, step : (r = h.request \/ file[h.session].mode = "bound") /\ HookGoes(h, r, step)
      BY <1>2, <1>3 DEF Resolves
    <2> QED
      BY <2>1, <2>2, ProtocolTells
  <1>4. CASE file[h.session].mode = "none" /\ HookEnds(h)
             /\ (Active(d) /\ d.turn.request # NoRequest => ~CanBind(d, d.turn.request, h.session))
             /\ RejectsTurn(d, db', h.session, h.at)
             /\ file' = Write(file, h.session, "rejected", NoRequest, h.at)
    <2>1. CASE ~Active(db) /\ d = db
      <3>1. db' = db
        BY <1>4, <2>1 DEF RejectsTurn, Started, Active
      <3> QED
        BY <1>4, <2>1, <3>1, ProtocolRejectsNone
    <2>2. CASE /\ Started(db, h.session) /\ ~Stale(db, h.at)
               /\ SameTurn(db.turn, d.turn) /\ d.turn.binding = db.turn.binding
      <3>1. Active(d)
        BY <1>1, <2>2 DEF Started, Active
      <3> QED
        BY <1>4, <2>2, <3>1, ProtocolRejectsLate
    <2> QED
      BY <2>1, <2>2
  <1>5. CASE /\ file[h.session].mode = "none" /\ HookGoes(h, d.turn.request, AfterResolve(h))
             /\ Active(d) /\ d.turn.request \in Streamed /\ d.turn.request = db.turn.item
             /\ CanBind(d, d.turn.request, h.session)
             /\ BindsTurn(d, db', d.turn.request, h.session)
             /\ file' = Write(file, h.session, "bound", d.turn.request, h.at)
    <2>1. ~(~Active(db) /\ d = db)
      BY <1>5
    <2>2. CASE /\ Started(db, h.session) /\ ~Stale(db, h.at)
               /\ SameTurn(db.turn, d.turn) /\ d.turn.binding = db.turn.binding
      BY <1>5, <2>2, ProtocolBindsLate
    <2> QED
      BY <2>1, <2>2
  <1> QED
    BY <1>2, <1>3, <1>4, <1>5 DEF Resolves

LEMMA ProtocolToolStarts ==
    ASSUME StateInv, Protocol, NEW h \in hooks, h.kind = "tool", HookStarts(h)
    PROVE  Protocol'
  <1>1. /\ RowsTyped /\ HookRow(h) /\ h.session \in Sessions /\ h.at \in Nat /\ DataInv(db)
        /\ UNCHANGED <<conv, pump, runtime, clock, spent>>
    BY StateRows DEF RowsTyped, HookRow, HookStarts, HookKeeps, StateInv
  <1> DEFINE d == StartTurn(db, h.session, h.at)
             lost == Stale(db, h.at) \/ (db.turn.status = "started" /\ ~Started(db, h.session))
  <1>2. CASE lost
    <2>1. To(h, "done") /\ UNCHANGED <<db, file>>
      BY <1>2 DEF HookStarts
    <2>2. HookEnds(h) /\ Alike(db, db')
      BY <2>1, ToEnds DEF Alike
    <2> QED
      BY <1>1, <2>1, <2>2, ProtocolTells
  <1>3. CASE ~lost /\ db.turn.status = "submitted"
    BY <1>3, ProtocolLateStart
  <1>4. CASE ~lost /\ db.turn.status # "submitted"
    <2>1. Resolve(d, h) /\ ~Stale(db, h.at) /\ (Started(db, h.session) \/ ~Active(db))
      BY <1>1, <1>4 DEF HookStarts, RowsTyped, Active
    <2>2. StartsTurn(db, d, h.session, h.at)
      BY <1>1, TurnStarts
    <2>3. ~Active(db) => ~Started(db, h.session)
      BY DEF Active, Started
    <2>4. Started(db, h.session) => d = WithTurn(db, Bump(db.turn)) /\ Active(db)
      BY <1>1, StartTurnEffect DEF DataInv, Active, Started
    <2>5. Started(db, h.session) => Alike(db, d)
      <3>1. Started(db, h.session) => LikeTurn(db.turn, Bump(db.turn)) /\ Bump(db.turn) \in Admission
        BY <1>1, <2>4, BumpIsLike, TurnOfDatabase DEF DataInv, LikeTurn
      <3>2. Started(db, h.session) => d.turn = Bump(db.turn)
        BY <1>1, <2>4, <3>1, TurnIsWritten DEF DataInv
      <3> QED
        BY <2>2, <2>4, <3>1, <3>2 DEF Alike, StartsTurn
    <2>6. /\ DataInv(d) /\ d.request = db.request /\ d.events = db.events
          /\ d.unprojected = db.unprojected
          /\ Started(db, h.session) => SameTurn(db.turn, d.turn) /\ d.turn.binding = db.turn.binding
          /\ ~Started(db, h.session) => d = db
      BY <1>4, <2>2 DEF StartsTurn
    <2> HIDE DEF d
    <2> QED
      BY <1>1, <2>1, <2>3, <2>5, <2>6, ProtocolResolves
  <1> QED
    BY <1>2, <1>3, <1>4

LEMMA ProtocolTouches ==
    ASSUME StateInv, Protocol, NEW h \in hooks, HookTouches(h)
    PROVE  Protocol'
  <1>1. /\ RowsTyped /\ HookRow(h) /\ DataInv(db)
        /\ UNCHANGED <<conv, pump, runtime, clock, spent>>
    BY StateRows DEF RowsTyped, HookTouches, HookKeeps, StateInv
  <1>2. h.kind \in {"tool", "post", "reasoning", "answer"}
    BY <1>1, TouchCases DEF HookRow
  <1> DEFINE d == WithTurn(db, Bump(db.turn))
  <1>3. CASE /\ Started(db, h.session) /\ ~Stale(db, h.at) /\ Active(db)
             /\ Resolve(d, h) /\ DataInv(d)
    <2>1. LikeTurn(db.turn, Bump(db.turn)) /\ Bump(db.turn) \in Admission
      BY <1>1, <1>3, BumpIsLike, TurnOfDatabase DEF DataInv, LikeTurn
    <2>2. d.turn = Bump(db.turn) /\ d.request = db.request /\ d.events = db.events
          /\ d.unprojected = db.unprojected
      BY <1>1, <2>1, TurnIsWritten DEF DataInv
    <2>3. Alike(db, d) /\ SameTurn(db.turn, d.turn) /\ d.turn.binding = db.turn.binding
      <3>1. SameTurn(db.turn, Bump(db.turn)) /\ Bump(db.turn).binding = db.turn.binding
        BY <1>1, <1>3, BumpLike, TurnOfDatabase DEF DataInv, SameTurn, LikeBump
      <3> QED
        BY <1>3, <2>1, <2>2, <3>1 DEF Alike
    <2> HIDE DEF d
    <2> QED
      BY <1>1, <1>2, <1>3, <2>2, <2>3, ProtocolResolves
  <1>4. CASE To(h, "done") /\ UNCHANGED <<db, file>>
    <2>1. HookEnds(h) /\ Alike(db, db')
      BY <1>4, ToEnds DEF Alike
    <2> QED
      BY <1>1, <1>2, <1>4, <2>1, ProtocolTells
  <1>5. CASE ~Active(db) /\ Resolve(db, h)
    BY <1>1, <1>2, <1>5, ProtocolResolves
  <1> QED
    BY <1>3, <1>4, <1>5, TouchCases
-----------------------------------------------------------------------------
LEMMA ProtocolInit ==
    ASSUME TurnsInit
    PROVE  Protocol
  <1>1. /\ db.turn.status = "none" /\ db.events = {} /\ db.unprojected = {} /\ ~Active(db)
        /\ hooks = {} /\ clock = 1 /\ spent.faults = 0
        /\ \A s \in Sessions : file[s].mode = "none" /\ file[s].at = 0
        /\ \A i \in Items : conv[i] = "pending"
        /\ \A r \in Streamed : db.request[r].status = "queued" /\ db.request[r].session = NoSession
        /\ runtime.typed = {} /\ runtime.doing = NoRequest /\ runtime.prompted
        /\ pump.step = "rest"
    BY DEF TurnsInit, NoTurn, NoFile, NewRequest, Active
  <1>2. \A r \in Streamed : ~Touched(r)
    BY <1>1, NoneAssumption, ItemsAssumption DEF Touched
  <1>3. Times /\ TurnShape /\ PumpShape /\ TouchedIsAdmitted /\ SubmittedWaits
    BY <1>1, <1>2 DEF Times, TurnShape, PumpShape, TouchedIsAdmitted, SubmittedWaits
  <1>4. Phases
    BY <1>1 DEF Phases, PromptAlone, StopAlone, Resting, Working, OfDoing, OneFault, Lives
  <1>5. PromptTurn /\ OldPrompt /\ BoundPrompt /\ OldTurn /\ Leftover /\ StopTurnIsOwn
    BY <1>1 DEF PromptTurn, OldPrompt, BoundPrompt, OldTurn, Leftover, StopTurnIsOwn, Own
  <1>6. FileOfTurn /\ FileTimes /\ StopFile /\ WorkFile /\ StrangersKeptOut /\ StrangerAtWork
    BY <1>1 DEF FileOfTurn, FileTimes, StopFile, WorkFile, StrangersKeptOut, StrangerAtWork, Own
  <1>7. Clean
    BY <1>1, NoneAssumption, ItemsAssumption DEF Clean, CleanHooks, CleanSend, CleanTyped, CleanDoing,
       CleanPrompt, CleanPending, CleanQueued
  <1>8. QueuedWaits /\ ActivityStaysInItsTurn
    BY <1>1, ItemsAssumption DEF QueuedWaits, ActivityStaysInItsTurn
  <1> QED
    BY <1>3, <1>4, <1>5, <1>6, <1>7, <1>8 DEF Protocol

LEMMA ProtocolStays ==
    ASSUME StateInv, Protocol, UNCHANGED turnsVars
    PROVE  Protocol'
  <1>1. UNCHANGED <<db, file, conv, pump, runtime, hooks, clock, spent>>
    BY DEF turnsVars
  <1>2. (Times /\ TurnShape /\ PumpShape /\ TouchedIsAdmitted /\ SubmittedWaits)'
    BY <1>1 DEF Protocol, Times, TurnShape, PumpShape, TouchedIsAdmitted, Touched, IsOpen,
       SubmittedWaits, Fresh, Here, Active
  <1>3. (PromptTurn /\ OldPrompt /\ BoundPrompt /\ OldTurn /\ Leftover /\ StopTurnIsOwn)'
    BY <1>1 DEF Protocol, PromptTurn, OldPrompt, BoundPrompt, OldTurn, Leftover, StopTurnIsOwn,
       Unfinished, Own, Here, Fresh, Void, IsOpen, Active
  <1>4. (FileOfTurn /\ FileTimes /\ StopFile /\ WorkFile)'
    BY <1>1 DEF Protocol, FileOfTurn, FileTimes, StopFile, WorkFile, Lives, Here
  <1>5. (StrangersKeptOut /\ StrangerAtWork)'
    BY <1>1 DEF Protocol, StrangersKeptOut, StrangerAtWork, Stranger, KeptOut, Fresh, Past, Void,
       IsOpen, Own, Lives, Here
  <1>6. Clean'
    BY <1>1 DEF Protocol, Clean, CleanHooks, CleanSend, CleanTyped, CleanDoing, CleanPrompt,
       CleanPending, CleanQueued, Here, Fresh, Active
  <1>7. (QueuedWaits /\ ActivityStaysInItsTurn)'
    BY <1>1 DEF Protocol, QueuedWaits, Waits, WaitsTyped, WaitsPrompt, WaitsWork, WaitsStop, Own,
       Here, Active, ActivityStaysInItsTurn
  <1>8. Phases'
    BY <1>1, PhasesStay DEF Protocol
  <1> QED
    BY <1>2, <1>3, <1>4, <1>5, <1>6, <1>7, <1>8 DEF Protocol

LEMMA ProtocolInvariance ==
    ASSUME MaxFaults <= 1, StateInv, Protocol, [TurnsNext]_turnsVars
    PROVE  Protocol'
  <1>1. CASE UNCHANGED turnsVars
    BY <1>1, ProtocolStays
  <1>2. CASE \E i \in Items : BeginTurn(i)
    BY <1>2, ProtocolBegins
  <1>3. CASE \E k \in Steps, at \in {clock, clock + 1} : Work(k, at)
    BY <1>3, ProtocolWorks
  <1>4. CASE \E text \in Texts : StopTurn(text)
    BY <1>4, ProtocolStops
  <1>5. CASE \E sent \in BOOLEAN : SendReply(sent) \/ SendFails(sent)
    BY <1>5, ProtocolReplies, ProtocolSendFails
  <1>6. CASE RuntimeRestarts \/ (\E h \in hooks : HookDies(h) \/ HookIsRetried(h))
    BY <1>6, ProtocolRestarts, ProtocolHookDies, ProtocolRetries
  <1>7. CASE HookSteps
    <2>1. ASSUME NEW h \in hooks, HookStarts(h)
          PROVE  Protocol'
      <3>1. HookRow(h)
        BY StateRows DEF RowsTyped
      <3>2. h.kind \in {"prompt", "tool"}
        BY <2>1, <3>1 DEF HookRow, HookStarts
      <3> QED
        BY <2>1, <3>2, ProtocolPromptStarts, ProtocolToolStarts
    <2>2. ASSUME NEW h \in hooks, HookTouches(h) \/ PromptBinds(h) \/ HookWritesFile(h) \/ StopReadsFile(h)
          PROVE  Protocol'
      BY <2>2, ProtocolTouches, ProtocolBinds, ProtocolWrites, ProtocolStopReads
    <2>3. ASSUME NEW h \in hooks,
                 HookReports(h) \/ HookAppends(h) \/ HookMarks(h) \/ HookFinishes(h) \/ HookCloses(h)
          PROVE  Protocol'
      BY <2>3, ProtocolReports, ProtocolAppends, ProtocolMarks, ProtocolFinishes, ProtocolCloses
    <2> QED
      BY <1>7, <2>1, <2>2, <2>3 DEF HookSteps
  <1>8. CASE PumpSteps
    BY <1>8, ProtocolLooks, ProtocolUnblocks, ProtocolAdmits, ProtocolProjects, ProtocolRecovers,
       ProtocolSends, ProtocolRecordsStart DEF PumpSteps
  <1>9. CASE PumpDies \/ SilencePasses \/ ExpireStaleRuns
    BY <1>9, ProtocolPumpDies, ProtocolSilence, ProtocolExpires
  <1> QED
    BY <1>1, <1>2, <1>3, <1>4, <1>5, <1>6, <1>7, <1>8, <1>9 DEF TurnsNext

LEMMA ProtocolAlways ==
    ASSUME MaxFaults <= 1
    PROVE  TurnsSpec => []Protocol
  <1>1. TurnsInit => Protocol
    BY ProtocolInit
  <1>2. StateInv /\ Protocol /\ [TurnsNext]_turnsVars => Protocol'
    BY ProtocolInvariance
  <1> QED
    BY <1>1, <1>2, StateAlways, PTL DEF TurnsSpec

\* With one fault, whatever it is and wherever it strikes, whatever a turn did is recorded for
\* the request whose prompt began it, and the rest of what the database says of the turns
\* holds with it: the hook that records it owns the admission of the request it is told of
\* (verifyTurnOwnership), and no hook of another turn can become its owner.
THEOREM TurnsAreToldRight ==
    ASSUME MaxFaults <= 1
    PROVE  TurnsSpec => []TurnsTellOneStory
  <1>1. Protocol => ActivityStaysInItsTurn
    BY DEF Protocol
  <1>2. ActivityStaysInItsTurn /\ RecoveredAnswerWasLast /\ OutputOnce /\ SessionHasOneRequest
           => TurnsTellOneStory
    BY DEF TurnsTellOneStory
  <1> QED
    BY <1>1, <1>2, ProtocolAlways, DatabaseHoldsTogether, PTL

\* With one fault no request that has not started is forgotten: its message waits, is held or
\* typed, or its turn goes on to a Stop hook that finds the request its own.
THEOREM NoRequestIsForgotten ==
    ASSUME MaxFaults <= 1
    PROVE  TurnsSpec => []SomebodyEndsIt
  <1>1. ASSUME StateInv, Protocol
        PROVE  SomebodyEndsIt
    <2> SUFFICES ASSUME NEW r \in Streamed, db.request[r].status = "queued", conv[r] # "pending"
                 PROVE  \/ pump.item = r
                        \/ r \in runtime.typed \/ runtime.doing = r
                        \/ \E h \in hooks : h.kind = "stop" /\ h.of \in {r, NoRequest}
      BY DEF SomebodyEndsIt
    <2>1. conv[r] = "delivered"
      BY <1>1, StateRows DEF RowsTyped
    <2>2. pump.item = r \/ Waits(r)
      BY <1>1, <2>1 DEF Protocol, QueuedWaits
    <2> QED
      BY <2>2 DEF Waits, WaitsTyped, WaitsPrompt, WaitsWork, WaitsStop
  <1> QED
    BY <1>1, StateAlways, ProtocolAlways, PTL
================================================================================
