------------------------------ MODULE WorkIntake ------------------------------
(***************************************************************************)
(* How a message becomes a task.  A channel adapter starts a c4-receive    *)
(* process for every message it receives (again) and for every choice a    *)
(* person makes on a confirmation card (skills/comm-bridge/scripts/        *)
(* c4-receive.js, c4-work-intake-confirmations.js, c4-task-intake.js).     *)
(* Tasks go through the intake queue of c4-db.js, whose workers            *)
(* (c4-intake-worker.js, c4-intake-supervisor.js) call commitment core;    *)
(* ordinary messages go to the agent.                                      *)
(*                                                                         *)
(* Each process is cut where another one can come between: an action is    *)
(* one transaction on the C4 database or on that of commitment core.  A    *)
(* process may end between any two.  Times are abstracted to whether they  *)
(* have passed.  Every delivery of a message carries the same content, and *)
(* only its sender may choose, so conflicts and refusals are no steps.     *)
(***************************************************************************)
EXTENDS Naturals

CONSTANTS
    Natural,        \* messages in natural language, which C4 classifies
    Streamed,       \* those of them whose adapter asks for a response stream
    Explicit,       \* messages whose adapter attaches a task envelope
    Receivers,      \* c4-receive processes alive at once
    IntakeWorkers,  \* the supervisor, and workers an operator runs by hand
    MaxCalls,       \* bound on the calls of adapters
    IntakeRetries,  \* INTAKE_MAX_RETRIES
    MaxGenerations, \* bound on retries by an operator
    MaxDeaths,      \* bound on workers that die
    NoMessage

ASSUME WorkIntakeAssumption ==
    /\ Streamed \subseteq Natural
    /\ Natural \cap Explicit = {}
    /\ NoMessage \notin Natural \cup Explicit
    /\ IntakeRetries \in Nat \ {0}
    /\ {MaxCalls, MaxGenerations, MaxDeaths} \subseteq Nat

Messages == Natural \cup Explicit

VARIABLES
    decision,     \* work_intake_decisions
    confirmation, \* work_intake_confirmations
    intake,       \* commitment_intake_queue
    conv,         \* conversations: of the message itself, and of its intake
    again,        \* further conversations of a message that is received again
    shown,        \* how often the agent was given such a row
    created,      \* how many tasks commitment core has made of a message
    receiver,     \* c4-receive processes
    worker,       \* intake workers
    dispatched,   \* the row the dispatcher works on
    spent         \* calls and deaths

intakeVars == <<decision, confirmation, intake, conv, again, shown, created, receiver, worker,
                dispatched, spent>>

Actions == {"create_task", "chat_only", "edit"}
Convs == Messages \X {"chat", "task"}
NoConv == <<NoMessage, "chat">>
Absent == [status |-> "absent", action |-> "none"]
NotAgain == [rows |-> 0, pending |-> 0, shown |-> 0]
NoConfirmation == [choice |-> "absent", effect |-> "none"]
\* stale: claimed 60 seconds ago or more; waits: available_at has not come.
NoIntake == [status |-> "absent", retries |-> 0, generation |-> 0, stale |-> FALSE,
             waits |-> FALSE]
Idle == [pc |-> "idle", message |-> NoMessage, choice |-> "none", created |-> FALSE]
AtRest == [pc |-> "idle", message |-> NoMessage]

IntakeTypeOK ==
    /\ decision \in [Messages -> {"none", "create_task", "chat_only", "confirm"}]
    /\ confirmation \in [Messages -> [choice : {"absent", "none"} \cup Actions,
                                      effect : {"none", "pending", "applied"}]]
    /\ intake \in [Messages -> [
           status : {"absent", "pending", "processing", "completed", "failed"},
           retries : 0..IntakeRetries, generation : 0..MaxGenerations,
           stale : BOOLEAN, waits : BOOLEAN]]
    /\ conv \in [Convs -> [status : {"absent", "pending", "running", "delivered"},
           action : {"none", "confirm", "chat_only", "suppressed", "task-intake-failed"}]]
    /\ again \in [Messages -> [rows : Nat, pending : Nat, shown : Nat]]
    /\ shown \in [Convs -> Nat]
    /\ created \in [Messages -> Nat]
    /\ receiver \in [Receivers -> [pc : {"idle", "confirm", "chat", "promote", "persist",
                                         "effect", "update"},
           message : Messages \cup {NoMessage}, choice : {"none"} \cup Actions,
           created : BOOLEAN]]
    /\ worker \in [IntakeWorkers -> [pc : {"idle", "ingest", "complete", "retry"},
                                     message : Messages \cup {NoMessage}]]
    /\ dispatched \in Convs \cup {NoConv}
    /\ spent \in [calls : 0..MaxCalls, deaths : 0..MaxDeaths]
    \* The queue holds one row per message, with the conversation of the same transaction.
    /\ \A m \in Messages :
          /\ (intake[m].status = "absent") = (conv[<<m, "task">>].status = "absent")
          /\ intake[m].stale => intake[m].status = "processing"
          /\ intake[m].waits => intake[m].status = "pending"
    \* A worker that has claimed a row finds it there.
    /\ \A w \in IntakeWorkers :
          worker[w].pc # "idle" => intake[worker[w].message].status # "absent"

IntakeInit ==
    /\ decision = [m \in Messages |-> "none"]
    /\ confirmation = [m \in Messages |-> NoConfirmation]
    /\ intake = [m \in Messages |-> NoIntake]
    /\ conv = [r \in Convs |-> Absent]
    /\ again = [m \in Messages |-> NotAgain]
    /\ shown = [r \in Convs |-> 0]
    /\ created = [m \in Messages |-> 0]
    /\ receiver = [c \in Receivers |-> Idle]
    /\ worker = [w \in IntakeWorkers |-> AtRest]
    /\ dispatched = NoConv
    /\ spent = [calls |-> 0, deaths |-> 0]

-----------------------------------------------------------------------------
(* c4-receive.js *)

Called(c) ==
    /\ receiver[c].pc = "idle"
    /\ spent.calls < MaxCalls
    /\ spent' = [spent EXCEPT !.calls = @ + 1]

Continues(c, pc) == receiver' = [receiver EXCEPT ![c].pc = pc]
Ends(c) == receiver' = [receiver EXCEPT ![c] = Idle]

\* recordWorkIntakeDecision: the first classification stands, whatever a later release says.
Decision(m, d) == IF decision[m] = "none" THEN d ELSE decision[m]

ReceiveNatural(c, m) ==
    /\ Called(c)
    /\ \E d \in {"create_task", "chat_only", "confirm"} :
          LET is == Decision(m, d)
          IN  /\ decision' = [decision EXCEPT ![m] = is]
              /\ receiver' = [receiver EXCEPT ![c] = [Idle EXCEPT !.message = m,
                     !.pc = CASE is = "create_task" -> "persist"
                              [] is = "chat_only" -> "chat"
                              [] is = "confirm" -> "confirm"]]
    /\ UNCHANGED <<confirmation, intake, conv, again, shown, created, worker, dispatched>>

ReceiveExplicit(c, m) ==
    /\ Called(c)
    /\ receiver' = [receiver EXCEPT ![c] = [Idle EXCEPT !.message = m, !.pc = "persist"]]
    /\ UNCHANGED <<decision, confirmation, intake, conv, again, shown, created, worker, dispatched>>

\* recordWorkIntakeConfirmation: the message is held, as delivered, until its sender chooses.
Hold(c) ==
    LET m == receiver[c].message
    IN  /\ receiver[c].pc = "confirm"
        /\ IF confirmation[m].choice = "absent"
           THEN /\ confirmation' = [confirmation EXCEPT ![m].choice = "none"]
                /\ conv' = [conv EXCEPT ![<<m, "chat">>] =
                       [status |-> "delivered", action |-> "confirm"]]
           ELSE UNCHANGED <<confirmation, conv>>
        /\ Ends(c)
        /\ UNCHANGED <<decision, intake, again, shown, created, worker, dispatched, spent>>

\* An ordinary message: queued, or, without a response stream, answered at once with a status
\* notice if the agent is not well.  A redelivery finds the row of its response stream; without
\* one it is another row.
\* Seeded fault: a redelivered request makes another row, too.
AlwaysAnotherRow(m) == conv[<<m, "chat">>].status # "absent"
AnotherRow(m) == conv[<<m, "chat">>].status # "absent" /\ m \notin Streamed

Chat(c) ==
    LET m == receiver[c].message
    IN  /\ receiver[c].pc = "chat"
        /\ \E s \in {"pending"} \cup IF m \in Streamed THEN {} ELSE {"delivered"} :
              /\ conv' = IF conv[<<m, "chat">>].status = "absent"
                         THEN [conv EXCEPT ![<<m, "chat">>].status = s] ELSE conv
              /\ again' = IF AnotherRow(m)
                          THEN [again EXCEPT ![m].rows = @ + 1,
                                             ![m].pending = IF s = "pending" THEN @ + 1 ELSE @]
                          ELSE again
        /\ Ends(c)
        /\ UNCHANGED <<decision, confirmation, intake, shown, created, worker, dispatched,
                       spent>>

\* resolveWorkIntakeConfirmation: the first choice stands, a repeated one is continued and
\* another one refused.
MayResolve(m, a) == confirmation[m].choice \in {"none", a}

Resolve(c, m, a) ==
    LET first == confirmation[m].choice # a
        applied == ~first /\ confirmation[m].effect = "applied"
    IN  /\ Called(c)
        /\ MayResolve(m, a)
        /\ confirmation' = IF first
               THEN [confirmation EXCEPT ![m] = [choice |-> a, effect |-> "pending"]]
               ELSE confirmation
        /\ receiver' = [receiver EXCEPT ![c] =
               CASE a = "edit" \/ (applied /\ a # "create_task") -> Idle
                 [] a = "chat_only" /\ ~applied ->
                       [Idle EXCEPT !.pc = "promote", !.message = m, !.choice = a]
                 [] a = "create_task" ->
                       [Idle EXCEPT !.pc = "persist", !.message = m, !.choice = a]]
        /\ UNCHANGED <<decision, intake, conv, again, shown, created, worker, dispatched>>

\* queueConfirmedWorkIntakeChat: the held conversation goes to the ordinary queue with the
\* receipt of its effect.
Promotes(m) == confirmation[m].choice = "chat_only" /\ confirmation[m].effect = "pending"

Promote(c) ==
    LET m == receiver[c].message
    IN  /\ receiver[c].pc = "promote"
        /\ IF Promotes(m)
           THEN /\ \E s \in {"pending", "delivered"} :
                      conv' = [conv EXCEPT ![<<m, "chat">>] =
                                   [status |-> s, action |-> "chat_only"]]
                /\ confirmation' = [confirmation EXCEPT ![m].effect = "applied"]
           ELSE UNCHANGED <<conv, confirmation>>
        /\ Ends(c)
        /\ UNCHANGED <<decision, intake, again, shown, created, worker, dispatched, spent>>

\* The adapter has sent the guidance of an edit and acknowledges it with its effect key.
AcknowledgeEdit(m) ==
    /\ confirmation[m] = [choice |-> "edit", effect |-> "pending"]
    /\ confirmation' = [confirmation EXCEPT ![m].effect = "applied"]
    /\ UNCHANGED <<decision, intake, conv, again, shown, created, receiver, worker, dispatched,
                   spent>>

\* persistTaskBeforeRoute, recordInbound: the intake and its conversation, or the ones of an
\* earlier delivery.  The conversation of a classified message is only a record of it.
Persist(c) ==
    LET m == receiver[c].message
        new == intake[m].status = "absent"
    IN  /\ receiver[c].pc = "persist"
        /\ intake' = [intake EXCEPT ![m].status = IF new THEN "pending" ELSE @]
        /\ conv' = IF new
               THEN [conv EXCEPT ![<<m, "task">>].status =
                        IF m \in Natural THEN "delivered" ELSE "pending"]
               ELSE conv
        /\ receiver' = [receiver EXCEPT ![c] =
               CASE intake[m].status = "failed" -> Idle
                 [] intake[m].status # "failed" /\ @.choice = "create_task" ->
                       [@ EXCEPT !.pc = "effect", !.created = new]
                 [] new /\ @.choice # "create_task" -> [@ EXCEPT !.pc = "update"]
                 [] OTHER -> Idle]
        /\ UNCHANGED <<decision, confirmation, again, shown, created, worker, dispatched, spent>>

\* completeWorkIntakeConfirmationEffect, once the intake exists.
CompleteEffect(c) ==
    LET m == receiver[c].message
    IN  /\ receiver[c].pc = "effect"
        /\ confirmation' = [confirmation EXCEPT ![m].effect = "applied"]
        /\ IF receiver[c].created THEN Continues(c, "update") ELSE Ends(c)
        /\ UNCHANGED <<decision, intake, conv, again, shown, created, worker, dispatched, spent>>

\* After the route is known, updateConversation writes the row by its id, whatever has
\* become of it meanwhile.
UpdateConversation(c) ==
    LET m == receiver[c].message
    IN  /\ receiver[c].pc = "update"
        /\ \E recovered \in BOOLEAN : \E suppressed \in {"none", "suppressed"} :
              /\ recovered => suppressed = "none"
              /\ conv' = [conv EXCEPT ![<<m, "task">>] =
                     [status |-> IF m \in Explicit /\ recovered THEN "pending" ELSE "delivered",
                      action |-> suppressed]]
        /\ Ends(c)
        /\ UNCHANGED <<decision, confirmation, intake, again, shown, created, worker, dispatched,
                       spent>>

ReceiverEnds(c) ==
    /\ receiver[c].pc # "idle"
    /\ Ends(c)
    /\ UNCHANGED <<decision, confirmation, intake, conv, again, shown, created, worker,
                   dispatched, spent>>

-----------------------------------------------------------------------------
(* The intake queue and its workers *)

\* Stale recovery, in the transaction of every claim.
Reclaimed(q) == IF q.status = "processing" /\ q.stale
                THEN [q EXCEPT !.status = "pending", !.stale = FALSE] ELSE q

\* claimNext: the oldest available row; as times are abstracted, any of them.
ClaimIntake(w) ==
    LET recovered == [m \in Messages |-> Reclaimed(intake[m])]
    IN  /\ worker[w].pc = "idle"
        /\ \E m \in Messages :
              /\ recovered[m].status = "pending" /\ ~recovered[m].waits
              /\ intake' = [recovered EXCEPT ![m].status = "processing"]
              /\ worker' = [worker EXCEPT ![w] = [pc |-> "ingest", message |-> m]]
        /\ UNCHANGED <<decision, confirmation, conv, again, shown, created, receiver, dispatched,
                       spent>>

\* ingest looks the source up before it makes a task.
\* Seeded fault: a task is made for every claim.
IngestedBlindly(m) == created[m] + 1
Ingested(m) == IF created[m] > 0 THEN created[m] ELSE 1

IngestIntake(w) ==
    /\ worker[w].pc = "ingest"
    /\ created' = [created EXCEPT ![worker[w].message] = Ingested(worker[w].message)]
    /\ worker' = [worker EXCEPT ![w].pc = "complete"]
    /\ UNCHANGED <<decision, confirmation, intake, conv, again, shown, receiver, dispatched, spent>>

\* Commitment core refuses the envelope, is busy or cannot be opened.
IngestFails(w) ==
    /\ worker[w].pc = "ingest"
    /\ worker' = [worker EXCEPT ![w].pc = "retry"]
    /\ UNCHANGED <<decision, confirmation, intake, conv, again, shown, created, receiver,
                   dispatched, spent>>

\* markCompleted throws if nobody has the row in work any more; who has it does not matter.
MarkCompleted(w) ==
    LET m == worker[w].message
    IN  /\ worker[w].pc = "complete"
        /\ intake' = IF intake[m].status = "processing"
               THEN [intake EXCEPT ![m].status = "completed", ![m].stale = FALSE]
               ELSE intake
        /\ worker' = [worker EXCEPT ![w] = AtRest]
        /\ UNCHANGED <<decision, confirmation, conv, again, shown, created, receiver, dispatched,
                       spent>>

\* retryOrFail
InWork(m) == intake[m].status = "processing"

RetryOrFail(w) ==
    LET m == worker[w].message
        n == intake[m].retries + 1
        fails == n >= IntakeRetries
    IN  /\ worker[w].pc = "retry"
        /\ IF InWork(m)
           THEN /\ intake' = [intake EXCEPT ![m] = [@ EXCEPT
                       !.status = IF fails THEN "failed" ELSE "pending",
                       !.retries = n, !.waits = ~fails, !.stale = FALSE]]
                /\ conv' = IF fails
                       THEN [conv EXCEPT ![<<m, "task">>].action = "task-intake-failed"] ELSE conv
           ELSE UNCHANGED <<intake, conv>>
        /\ worker' = [worker EXCEPT ![w] = AtRest]
        /\ UNCHANGED <<decision, confirmation, again, shown, created, receiver, dispatched, spent>>

WorkerDies(w) ==
    /\ worker[w].pc # "idle"
    /\ spent.deaths < MaxDeaths
    /\ worker' = [worker EXCEPT ![w] = AtRest]
    /\ spent' = [spent EXCEPT !.deaths = @ + 1]
    /\ UNCHANGED <<decision, confirmation, intake, conv, again, shown, created, receiver,
                   dispatched>>

\* retryFailed, by an operator.
RetryFailed(m) ==
    /\ intake[m].status = "failed"
    /\ intake[m].generation < MaxGenerations
    /\ intake' = [intake EXCEPT ![m] = [@ EXCEPT !.status = "pending", !.retries = 0,
                                            !.generation = intake[m].generation + 1]]
    /\ conv' = [conv EXCEPT ![<<m, "task">>].action =
                    IF @ = "task-intake-failed" THEN "none" ELSE @]
    /\ UNCHANGED <<decision, confirmation, again, shown, created, receiver, worker, dispatched,
                   spent>>

GoesStale(m) ==
    /\ intake[m].status = "processing" /\ ~intake[m].stale
    /\ intake' = [intake EXCEPT ![m].stale = TRUE]
    /\ UNCHANGED <<decision, confirmation, conv, again, shown, created, receiver, worker,
                   dispatched, spent>>

DelayEnds(m) ==
    /\ intake[m].waits
    /\ intake' = [intake EXCEPT ![m].waits = FALSE]
    /\ UNCHANGED <<decision, confirmation, conv, again, shown, created, receiver, worker,
                   dispatched, spent>>

-----------------------------------------------------------------------------
(* The dispatcher, as far as it writes the same rows (see Dispatcher) *)

DispatcherClaims(r) ==
    /\ dispatched = NoConv
    /\ conv[r].status = "pending"
    /\ conv' = [conv EXCEPT ![r].status = "running"]
    /\ dispatched' = r
    /\ UNCHANGED <<decision, confirmation, intake, again, shown, created, receiver, worker, spent>>

DispatcherDelivers ==
    /\ dispatched # NoConv
    /\ conv' = [conv EXCEPT ![dispatched].status = "delivered"]
    /\ shown' = [shown EXCEPT ![dispatched] = @ + 1]
    /\ dispatched' = NoConv
    /\ UNCHANGED <<decision, confirmation, intake, again, created, receiver, worker, spent>>

\* Nobody else writes a further row, so its claim and its delivery are one step.
DispatcherShowsAgain(m) ==
    /\ dispatched = NoConv
    /\ again[m].pending > 0
    /\ again' = [again EXCEPT ![m].pending = @ - 1, ![m].shown = @ + 1]
    /\ UNCHANGED <<decision, confirmation, intake, conv, shown, created, receiver, worker,
                   dispatched, spent>>

-----------------------------------------------------------------------------

ReceiverStep(c) ==
    \/ \E m \in Natural : ReceiveNatural(c, m) \/ \E a \in Actions : Resolve(c, m, a)
    \/ \E m \in Explicit : ReceiveExplicit(c, m)
    \/ Hold(c) \/ Chat(c) \/ Promote(c) \/ Persist(c) \/ CompleteEffect(c)
    \/ UpdateConversation(c) \/ ReceiverEnds(c)

WorkerStep(w) ==
    ClaimIntake(w) \/ IngestIntake(w) \/ IngestFails(w) \/ MarkCompleted(w) \/ RetryOrFail(w)

IntakeNext ==
    \/ \E c \in Receivers : ReceiverStep(c)
    \/ \E w \in IntakeWorkers : WorkerStep(w) \/ WorkerDies(w)
    \/ \E m \in Messages :
          AcknowledgeEdit(m) \/ RetryFailed(m) \/ GoesStale(m) \/ DelayEnds(m)
    \/ \E r \in Convs : DispatcherClaims(r)
    \/ \E m \in Messages : DispatcherShowsAgain(m)
    \/ DispatcherDelivers

\* The supervisor drains again every two seconds and PM2 restarts it; time passes.
IntakeFairness ==
    /\ \A w \in IntakeWorkers : WF_intakeVars(WorkerStep(w))
    /\ \A m \in Messages : WF_intakeVars(GoesStale(m)) /\ WF_intakeVars(DelayEnds(m))

-----------------------------------------------------------------------------
(* Properties *)

\* A classified message has one fate however often it and its sender's choices arrive: it is
\* given to the agent or becomes a task, never both, "Leaving it pending would ... create a
\* second task" (c4-receive.js:746-749), and an effect that is recorded as applied has happened
\* (c4-work-intake-confirmations.js:397-401,464-468).
GivenToAgent(m) ==
    \/ conv[<<m, "chat">>].status \in {"pending", "running"} \/ shown[<<m, "chat">>] > 0
    \/ again[m].pending > 0 \/ again[m].shown > 0

OneFate ==
    \A m \in Natural :
        /\ ~(GivenToAgent(m) /\ intake[m].status # "absent")
        /\ confirmation[m].effect = "applied" =>
              CASE confirmation[m].choice = "create_task" -> intake[m].status # "absent"
                [] confirmation[m].choice = "chat_only" -> conv[<<m, "chat">>].action = "chat_only"
                [] confirmation[m].choice = "edit" ->
                      ~GivenToAgent(m) /\ intake[m].status = "absent"

\* No row is given to the agent twice, and the only messages with more than one row are the
\* ordinary ones without a response stream, which get one with every redelivery: a confirmed
\* message and one with a stream are given at most once (c4-receive.js:777-822,
\* c4-work-intake-confirmations.js:418-432).
RowsShownOnce ==
    \A m \in Natural :
        /\ shown[<<m, "chat">>] <= 1 /\ shown[<<m, "task">>] = 0
        /\ again[m].shown + again[m].pending <= again[m].rows
        /\ again[m].rows > 0 => m \notin Streamed /\ decision[m] = "chat_only"
                                /\ confirmation[m].choice = "absent"

\* What the queue says of an intake is so, though a slow worker and its successor both finish
\* it: a completed one has its task, there is never a second task, and a conversation marked
\* as failed waits for an operator (c4-db.js:1599-1645, references/c4-intake-worker.md:53-66).
IntakeTellsTruth ==
    \A m \in Messages :
        /\ intake[m].status = "completed" => created[m] = 1
        /\ created[m] <= 1
        /\ conv[<<m, "task">>].action = "task-intake-failed" => intake[m].status = "failed"

\* An accepted task intent that is neither ingested nor failed for an operator to see.
IntakeOwes == \E m \in Messages : intake[m].status \in {"pending", "processing"}
=============================================================================
