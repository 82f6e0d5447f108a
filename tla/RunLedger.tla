------------------------------ MODULE RunLedger ------------------------------
(***************************************************************************)
(* The Assistant run ledger: skills/comm-bridge/scripts/run-ledger.js, and *)
(* canonical-run-event.js, the rules a chain of run events obeys.          *)
(*                                                                         *)
(* Every exported operation of the ledger is one SQLite transaction opened *)
(* with BEGIN IMMEDIATE, so every operation is one action here; a call the *)
(* code answers with an error or with the stored result of an earlier call *)
(* rolls back or writes nothing, and is no step.  The variables are the    *)
(* tables the ledger shares with RuntimePendingQueue and AssistantRun.     *)
(*                                                                         *)
(* A request is known by its acceptance order.  A turn id is               *)
(* `turn:<request>:<generation>`, so a generation stands for both; the     *)
(* trace id never changes within a request and is left out.                *)
(***************************************************************************)
EXTENDS Integers, Sequences

CONSTANTS
    Commands,        \* the AcceptMessage commands that adapters may send
    Keys,            \* source identity keys, of any kind
    Payloads,        \* payload hashes
    Lanes,           \* conversation lane keys
    CancelKeys,      \* idempotency keys of CancelRequest commands
    Sessions,        \* runtime session ids
    NoPayload, NoLane, NoSession,
    MaxRequests,     \* bound: requests accepted
    MaxGeneration,   \* bound: generations of a run
    MaxAdmissions,   \* bound: rows of runtime_turn_admissions
    MaxOrdinal,      \* bound: numbers in progress and delta idempotency keys
    MaxOutputs       \* bound: progress and delta events of a request

IdentityKinds == {"idempotency", "transport", "logical"}
RequestClasses == {"ordinary", "maintenance", "control"}
ReplyModes == {"required", "optional", "none"}

AcceptMessage ==
    [idempotency : Keys, transport : Keys, logical : Keys, payload : Payloads,
     lane : Lanes, priority : 1..3, class : RequestClasses, replyMode : ReplyModes]

ASSUME LedgerAssumption ==
    /\ Commands \subseteq AcceptMessage
    /\ NoPayload \notin Payloads /\ NoLane \notin Lanes /\ NoSession \notin Sessions
    /\ {MaxRequests, MaxAdmissions, MaxOrdinal, MaxOutputs} \subseteq Nat
    /\ MaxGeneration \in Nat \ {0}

Requests == 1..MaxRequests
Generations == 1..MaxGeneration
AdmissionIds == 1..MaxAdmissions

VARIABLES
    receipts,      \* assistant_source_receipts
    run,           \* assistant_run_ledger
    request,       \* assistant_requests
    conversation,  \* conversations
    events,        \* assistant_response_events, one chain per request
    admission,     \* runtime_turn_admissions, by row id
    cancels        \* assistant_cancel_requests, by idempotency key

ledgerVars == <<receipts, run, request, conversation, events, admission, cancels>>

-----------------------------------------------------------------------------
(* Rows. *)

RunStatus == {"none", "queued", "active", "cancel_requested", "completed", "failed", "cancelled"}
Unfinished == {"queued", "active", "cancel_requested"}
Finished == {"completed", "failed", "cancelled"}
RequestStatus == {"none", "queued", "started"} \cup Finished
AdmissionStatus == {"none", "submitted", "started", "completed", "released"}
Occupying == {"submitted", "started"}

EventTypes == {"RunAccepted", "RunQueued", "RunStarted", "ProgressUpdated", "OutputDelta",
               "RunCompleted", "RunFailed", "RunCancelled"}
OutputTypes == {"ProgressUpdated", "OutputDelta"}
TerminalTypes == {"RunCompleted", "RunFailed", "RunCancelled"}
TerminalStatus ==
    [RunCompleted |-> "completed", RunFailed |-> "failed", RunCancelled |-> "cancelled"]

AdmissionReasons == {"none", "runtime_submit_failed", "stale_unconfirmed", "stale_started"}
                        \cup TerminalTypes

NoReceipt == [request |-> 0, payload |-> NoPayload]
NoRun == [lane |-> NoLane, laneSequence |-> 0, priority |-> 0, requireIdle |-> FALSE,
          replyMode |-> "none", generation |-> 0, status |-> "none"]
NoRequest == [status |-> "none", session |-> NoSession]
NoConversation == [status |-> "none", action |-> "none"]
NoAdmission == [request |-> 0, generation |-> 0, status |-> "none", session |-> NoSession,
                reason |-> "none"]
NoCancel == [request |-> 0, generation |-> 0, status |-> "none"]

\* An event with the fields its type uses: the number in its idempotency key,
\* the session that started, and for RunQueued the status of the admission it
\* was recovered from ("none": queued by acceptance).
Event(type, generation) ==
    [type |-> type, generation |-> generation, ordinal |-> 0,
     session |-> NoSession, recovered |-> "none"]

Events == [type : EventTypes, generation : Generations, ordinal : 0..MaxOrdinal,
           session : Sessions \cup {NoSession}, recovered : Occupying \cup {"none"}]

ReceiptRows == [request : 0..MaxRequests, payload : Payloads \cup {NoPayload}]
RunRows == [lane : Lanes \cup {NoLane}, laneSequence : 0..MaxRequests, priority : 0..3,
            requireIdle : BOOLEAN, replyMode : ReplyModes,
            generation : 0..MaxGeneration, status : RunStatus]
RequestRows == [status : RequestStatus, session : Sessions \cup {NoSession}]
ConversationRows == [status : {"none", "pending", "delivered", "failed"},
                     action : {"none", "queued", "runtime-started", "cancelled"}]
AdmissionRows == [request : 0..MaxRequests, generation : 0..MaxGeneration,
                  status : AdmissionStatus, session : Sessions \cup {NoSession},
                  reason : AdmissionReasons]
CancelRows == [request : 0..MaxRequests, generation : 0..MaxGeneration,
               status : {"none", "requested", "confirmed"}]

LedgerTypeOK ==
    /\ receipts \in [IdentityKinds -> [Keys -> ReceiptRows]]
    /\ run \in [Requests -> RunRows]
    /\ request \in [Requests -> RequestRows]
    /\ conversation \in [Requests -> ConversationRows]
    /\ events \in [Requests -> Seq(Events)]
    /\ admission \in [AdmissionIds -> AdmissionRows]
    /\ cancels \in [CancelKeys -> CancelRows]

LedgerInit ==
    /\ receipts = [kind \in IdentityKinds |-> [key \in Keys |-> NoReceipt]]
    /\ run = [r \in Requests |-> NoRun]
    /\ request = [r \in Requests |-> NoRequest]
    /\ conversation = [r \in Requests |-> NoConversation]
    /\ events = [r \in Requests |-> <<>>]
    /\ admission = [a \in AdmissionIds |-> NoAdmission]
    /\ cancels = [k \in CancelKeys |-> NoCancel]

-----------------------------------------------------------------------------
(* The canonical event chain (canonical-run-event.js). *)

LastEvent(r) == events[r][Len(events[r])]

Predecessors ==
    LET running == {"RunStarted", "ProgressUpdated", "OutputDelta"}
    IN  [RunAccepted |-> {},
         RunQueued |-> {"RunAccepted", "RunQueued"} \cup running,
         RunStarted |-> {"RunQueued"},
         ProgressUpdated |-> running,
         OutputDelta |-> running,
         RunCompleted |-> running,
         RunFailed |-> running,
         RunCancelled |-> {"RunQueued"} \cup running]

\* event e may follow event p
LinkOK(e, p) ==
    /\ p.type \in Predecessors[e.type]
    /\ e.type = "RunQueued" =>
          IF e.recovered = "none"
          THEN p.type = "RunAccepted" /\ e.generation = p.generation
          ELSE p.type # "RunAccepted" /\ e.generation = p.generation + 1
    /\ e.type \notin {"RunQueued", "RunCancelled"} => e.generation = p.generation

ChainOK(chain) ==
    /\ chain # <<>>
    /\ \A i \in 1..Len(chain) : (chain[i].type = "RunAccepted") <=> (i = 1)
    /\ \A i \in 2..Len(chain) : LinkOK(chain[i], chain[i - 1])

HasTerminal(r) == \E i \in 1..Len(events[r]) : events[r][i].type \in TerminalTypes

ExpectedRequestStatus ==
    [queued |-> "queued", active |-> "started",
     completed |-> "completed", failed |-> "failed", cancelled |-> "cancelled"]

AdmissionsOf(r, g) ==
    {a \in AdmissionIds : admission[a].request = r /\ admission[a].generation = g}
LatestAdmission(a, r, g) == a \in AdmissionsOf(r, g) /\ \A b \in AdmissionsOf(r, g) : b <= a
FirstAdmission(a, r, g) == a \in AdmissionsOf(r, g) /\ \A b \in AdmissionsOf(r, g) : a <= b

\* Every recovery event names an admission that was released for staleness.
\* The code looks for the first admission with that turn and generation.
RecoveriesRecorded(r) ==
    \A i \in 1..Len(events[r]) :
        events[r][i].recovered # "none" =>
            \E a \in AdmissionIds :
                /\ FirstAdmission(a, r, events[r][i].generation - 1)
                /\ admission[a].status = "released"
                /\ admission[a].reason = IF events[r][i].recovered = "submitted"
                                         THEN "stale_unconfirmed" ELSE "stale_started"

\* The last RunStarted of the chain agrees with the admission of the run's
\* current generation, whichever generation that event belongs to.
StartRecorded(r) ==
    LET starts == {i \in 1..Len(events[r]) : events[r][i].type = "RunStarted"}
    IN  IF starts = {}
        THEN run[r].status # "active"
        ELSE \E i \in starts, a \in AdmissionIds :
                /\ \A j \in starts : j <= i
                /\ LatestAdmission(a, r, run[r].generation)
                /\ admission[a].status \in {"started", "completed"}
                /\ admission[a].session = events[r][i].session
                /\ request[r].session = events[r][i].session

\* The durable facts of a run agree: the check in front of RunLedger.get, of a
\* reply outcome, and of every event a subscription delivers.
PersistenceOK(r) ==
    /\ ChainOK(events[r])
    /\ LastEvent(r).generation = run[r].generation
    /\ IF LastEvent(r).type \in TerminalTypes
       THEN run[r].status = TerminalStatus[LastEvent(r).type]
       ELSE run[r].status \notin Finished
    /\ LastEvent(r).type \in {"RunStarted", "ProgressUpdated", "OutputDelta"} =>
          run[r].status \in {"active", "cancel_requested"} /\ request[r].status = "started"
    /\ run[r].status \in DOMAIN ExpectedRequestStatus =>
          request[r].status = ExpectedRequestStatus[run[r].status]
    /\ RecoveriesRecorded(r)
    /\ StartRecorded(r)

-----------------------------------------------------------------------------
(* accept *)

Matching(c) == {receipts[kind][c[kind]] : kind \in IdentityKinds} \ {NoReceipt}

\* The receipts a command leaves behind: its own identities, where no earlier
\* command holds them.
Recorded(c, r) ==
    [kind \in IdentityKinds |->
        [key \in Keys |->
            IF key = c[kind] /\ receipts[kind][key] = NoReceipt
            THEN [request |-> r, payload |-> c.payload]
            ELSE receipts[kind][key]]]

\* n is one more than the highest lane sequence of the lane
NextLaneSequence(lane, n) ==
    /\ \A q \in Requests : run[q].lane = lane => run[q].laneSequence < n
    /\ n # 1 => \E q \in Requests : run[q].lane = lane /\ run[q].laneSequence = n - 1

\* request ids are fresh; the row ids order requests by acceptance
Fresh(r) == /\ run[r].status = "none"
            /\ \A q \in Requests : q < r => run[q].status # "none"

AcceptNew(c) ==
    /\ Matching(c) = {}
    /\ \E r \in Requests, n \in 1..MaxRequests :
        /\ Fresh(r)
        /\ NextLaneSequence(c.lane, n)
        /\ run' = [run EXCEPT ![r] =
                      [lane |-> c.lane, laneSequence |-> n, priority |-> c.priority,
                       requireIdle |-> c.class # "ordinary", replyMode |-> c.replyMode,
                       generation |-> 1, status |-> "queued"]]
        /\ request' = [request EXCEPT ![r] = [status |-> "queued", session |-> NoSession]]
        /\ conversation' =
              [conversation EXCEPT ![r] = [status |-> "pending", action |-> "queued"]]
        /\ events' = [events EXCEPT ![r] = <<Event("RunAccepted", 1), Event("RunQueued", 1)>>]
        /\ receipts' = Recorded(c, r)
    /\ UNCHANGED <<admission, cancels>>

\* The same message again, under all or some of its identities.
AcceptReplay(c) ==
    /\ Matching(c) # {}
    /\ \A m \in Matching(c) : m.payload = c.payload
    /\ \E r \in Requests :
        /\ \A m \in Matching(c) : m.request = r
        /\ run[r].replyMode = c.replyMode
        /\ receipts' = Recorded(c, r)
    /\ UNCHANGED <<run, request, conversation, events, admission, cancels>>

Accept(c) == AcceptNew(c) \/ AcceptReplay(c)

-----------------------------------------------------------------------------
(* appendEvent.  A caller sends the turn it believes current and, as the     *)
(* cause, the event it believes to be the head of the chain.                 *)

AppendTo(r, e) == events' = [events EXCEPT ![r] = Append(@, e)]

\* Seeded fault: only the type of the predecessor is checked.
MayAppendUnfenced(r, e) ==
    /\ ~HasTerminal(r)
    /\ LastEvent(r).type \in Predecessors[e.type]

\* Guards common to every event: the generation fence, no event after a
\* terminal, and a legal link to the head.
MayAppend(r, e) ==
    /\ run[r].generation = e.generation
    /\ ~HasTerminal(r)
    /\ LinkOK(e, LastEvent(r))

\* The admissions once run r has ended in generation g: the one that holds
\* the runtime for it is closed.
Closed(r, g, type) ==
    [a \in AdmissionIds |->
        IF a \in AdmissionsOf(r, g) /\ admission[a].status \in Occupying
        THEN [admission[a] EXCEPT !.status = "completed", !.reason = type]
        ELSE admission[a]]

\* What a terminal event writes besides itself.
EndRun(r, g, type) ==
    /\ AppendTo(r, Event(type, g))
    /\ run' = [run EXCEPT ![r].status = TerminalStatus[type]]
    /\ request' = [request EXCEPT ![r].status = TerminalStatus[type]]
    /\ admission' = Closed(r, g, type)

IsOutput(e) == e.type \in OutputTypes
MayOutput(r) == Len(SelectSeq(events[r], IsOutput)) < MaxOutputs

AppendOutput(r, g, type, n, cause) ==
    LET e == [Event(type, g) EXCEPT !.ordinal = n]
    IN  /\ \A i \in 1..Len(events[r]) : events[r][i].type # type \/ events[r][i].ordinal # n
        /\ MayAppend(r, e)
        /\ run[r].status = "active"
        /\ cause = Len(events[r])
        /\ MayOutput(r)
        /\ AppendTo(r, e)
        /\ UNCHANGED <<receipts, run, request, conversation, admission, cancels>>

AppendTerminal(r, g, type, cause) ==
    /\ MayAppend(r, Event(type, g))
    /\ run[r].status = "active"
    /\ cause = Len(events[r])
    /\ EndRun(r, g, type)
    /\ UNCHANGED <<receipts, conversation, cancels>>

-----------------------------------------------------------------------------
(* cancel and confirmCancellation *)

\* Seeded fault: the two columns are swapped.
CancelledConversationSwapped(r) ==
    conversation' = [conversation EXCEPT
        ![r].status = "cancelled",
        ![r].action = IF conversation[r].status = "pending" THEN "failed" ELSE @]

CancelledConversation(r) ==
    conversation' = [conversation EXCEPT
        ![r].status = IF @ = "pending" THEN "failed" ELSE @,
        ![r].action = "cancelled"]

NewCancel(k, r, g, status) ==
    /\ cancels[k].status = "none"
    /\ run[r].generation = g
    /\ cancels' = [cancels EXCEPT ![k] = [request |-> r, generation |-> g, status |-> status]]

CancelQueued(k, r, g) ==
    /\ run[r].status = "queued"
    /\ NewCancel(k, r, g, "confirmed")
    /\ MayAppend(r, Event("RunCancelled", g))
    /\ EndRun(r, g, "RunCancelled")
    /\ CancelledConversation(r)
    /\ UNCHANGED receipts

\* Seeded fault: a run that has ended can be asked to cancel.
CancelEnded(k, r, g) ==
    /\ run[r].status \notin {"none", "queued"}
    /\ NewCancel(k, r, g, "requested")
    /\ run' = [run EXCEPT ![r].status = "cancel_requested"]
    /\ UNCHANGED <<receipts, request, conversation, events, admission>>

CancelRunning(k, r, g) ==
    /\ run[r].status \in {"active", "cancel_requested"}
    /\ NewCancel(k, r, g, "requested")
    /\ run' = [run EXCEPT ![r].status = "cancel_requested"]
    /\ UNCHANGED <<receipts, request, conversation, events, admission>>

Cancel(k, r, g) == CancelQueued(k, r, g) \/ CancelRunning(k, r, g)

PendingCancel(k, r, g) ==
    cancels[k] = [request |-> r, generation |-> g, status |-> "requested"]

ConfirmCancellation(r, g) ==
    /\ run[r].generation = g
    /\ run[r].status = "cancel_requested"
    /\ \E k \in CancelKeys : PendingCancel(k, r, g)
    /\ MayAppend(r, Event("RunCancelled", g))
    /\ EndRun(r, g, "RunCancelled")
    /\ CancelledConversation(r)
    /\ cancels' = [k \in CancelKeys |-> IF PendingCancel(k, r, g)
                                        THEN [cancels[k] EXCEPT !.status = "confirmed"]
                                        ELSE cancels[k]]
    /\ UNCHANGED receipts

LedgerNext ==
    \/ \E c \in Commands : Accept(c)
    \/ \E r \in Requests, g \in Generations :
        \/ \E type \in OutputTypes, n \in 1..MaxOrdinal, cause \in 1..Len(events[r]) :
              AppendOutput(r, g, type, n, cause)
        \/ \E type \in {"RunCompleted", "RunFailed"}, cause \in 1..Len(events[r]) :
              AppendTerminal(r, g, type, cause)
        \/ \E k \in CancelKeys : Cancel(k, r, g)
        \/ ConfirmCancellation(r, g)
=============================================================================
