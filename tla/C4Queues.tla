------------------------------ MODULE C4Queues ------------------------------
(***************************************************************************)
(* The two queues of the comm-bridge database (skills/comm-bridge/scripts/ *)
(* c4-db.js): conversations that wait for the runtime, and controls        *)
(* (heartbeats, maintenance commands, keystrokes) that wait for it and for *)
(* an acknowledgement.  Every operation is one SQLite statement or         *)
(* transaction; c4-receive.js, c4-control.js, the activity monitor and the *)
(* dispatcher run them from processes of their own.                        *)
(***************************************************************************)
EXTENDS Naturals, FiniteSets

CONSTANTS
    ControlKinds,       \* the controls that are enqueued
    ConversationKinds,  \* the messages that arrive
    Contents,           \* raw contents of controls
    NoKind,             \* the kind of a row not inserted yet
    MaxControls,        \* bound on control rows
    MaxConversations,   \* bound on conversation rows
    MaxRetries,         \* CONTROL_MAX_RETRIES
    MaxTime             \* bound on the clock

Forms == {"text", "keystroke", "heartbeat", "recovery_heartbeat"}

\* deadlineIn and delay are 0 for "none".
ControlKind == [raw : Contents, priority : Nat, requireIdle : BOOLEAN, bypass : BOOLEAN,
                deadlineIn : Nat, delay : Nat, ackSuffix : BOOLEAN, form : Forms]

\* How a message comes in.  "plain": stored once, to be typed or, when its sender was told
\* that the agent is away, as delivered.  "task": an explicit task, stored before its
\* receiver asks how the agent is and written once more afterwards.  "audit": the record of
\* a WorkIntake task, which the intake queue carries out.  "question": a WorkIntake
\* confirmation, queued when the user says that it was only a message.
Entries == {"plain", "task", "audit", "question"}
ConversationKind == [priority : 1..3, requireIdle : BOOLEAN, entry : Entries]

ASSUME QueuesAssumption ==
    /\ ControlKinds \subseteq ControlKind
    /\ ConversationKinds \subseteq ConversationKind
    /\ NoKind \notin ControlKinds \cup ConversationKinds
    /\ {MaxControls, MaxConversations, MaxTime} \subseteq Nat
    /\ MaxRetries \in Nat \ {0}

Controls == 1..MaxControls
Conversations == 1..MaxConversations

VARIABLES
    now,           \* unix seconds
    control,       \* control_queue
    conversation   \* conversations, the incoming ones

queueVars == <<now, control, conversation>>

ControlFinal == {"done", "failed", "timeout", "superseded"}
ControlStatus == {"none", "pending", "running", "deleted"} \cup ControlFinal
ConversationStatus == {"none", "pending", "running", "delivered"}

ControlRows == [kind : ControlKinds \cup {NoKind}, status : ControlStatus,
                retries : 0..MaxRetries, deadline : Nat, availableAt : Nat]

\* owed: its receiver may still write its status again.  told: it was its receiver, and not
\* the dispatcher, that wrote it as delivered.
ConversationRows == [kind : ConversationKinds \cup {NoKind}, status : ConversationStatus,
                     at : Nat, owed : BOOLEAN, told : BOOLEAN]

QueuesTypeOK ==
    /\ now \in 0..MaxTime
    /\ control \in [Controls -> ControlRows]
    /\ conversation \in [Conversations -> ConversationRows]

QueuesInit ==
    /\ now = 0
    /\ control = [c \in Controls |-> [kind |-> NoKind, status |-> "none", retries |-> 0,
                                      deadline |-> 0, availableAt |-> 0]]
    /\ conversation = [m \in Conversations |-> [kind |-> NoKind, status |-> "none", at |-> 0,
                                              owed |-> FALSE, told |-> FALSE]]

-----------------------------------------------------------------------------
(* Conversations *)

\* Seeded fault: the record of a WorkIntake task is stored like any message.
StoredPending(entry) == IF entry = "question" THEN {"delivered"} ELSE {"pending"}

\* The status a message is stored with, and the one its receiver writes later.
StoredAs(entry) ==
    CASE entry = "plain" -> {"pending", "delivered"}
      [] entry = "task" -> {"pending"}
      [] OTHER -> {"delivered"}

RewrittenAs(entry) == IF entry = "audit" THEN {"delivered"} ELSE {"pending", "delivered"}

StoredRow(kind, status) == [kind |-> kind, status |-> status, at |-> now,
                            owed |-> kind.entry # "plain", told |-> status = "delivered"]
RewrittenRow(row, status) ==
    [row EXCEPT !.status = status, !.owed = FALSE, !.told = (status = "delivered")]

\* insertConversation and its like: ids are given out in order.
InsertConversation(kind) ==
    /\ \E m \in Conversations, status \in StoredAs(kind.entry) :
          /\ conversation[m].status = "none"
          /\ \A n \in Conversations : n < m => conversation[n].status # "none"
          /\ conversation' = [conversation EXCEPT ![m] = StoredRow(kind, status)]
    /\ UNCHANGED <<now, control>>

\* updateConversation, queueConfirmedWorkIntakeChat: whatever the dispatcher has made of
\* the row meanwhile.
RewriteConversation ==
    /\ \E m \in Conversations :
          /\ conversation[m].owed
          /\ \E status \in RewrittenAs(conversation[m].kind.entry) :
                conversation' = [conversation EXCEPT ![m] = RewrittenRow(@, status)]
    /\ UNCHANGED <<now, control>>

\* Seeded fault: newest message of a priority first.
MessageBeforeNewest(m, n) ==
    \/ conversation[m].kind.priority < conversation[n].kind.priority
    \/ /\ conversation[m].kind.priority = conversation[n].kind.priority
       /\ conversation[m].at >= conversation[n].at

\* getNextPending orders by priority, then by a timestamp of whole seconds.
MessageBefore(m, n) ==
    \/ conversation[m].kind.priority < conversation[n].kind.priority
    \/ /\ conversation[m].kind.priority = conversation[n].kind.priority
       /\ conversation[m].at <= conversation[n].at

PendingConversations == {m \in Conversations : conversation[m].status = "pending"}

NextConversation(m) ==
    /\ m \in PendingConversations
    /\ \A n \in PendingConversations : MessageBefore(m, n)

\* requeueConversation leaves alone what is not running.
RequeuedConversation(row) == IF row.status = "running" THEN [row EXCEPT !.status = "pending"]
                             ELSE row

-----------------------------------------------------------------------------
(* Controls *)

Superseded(row, kind) ==
    IF row.status = "pending" /\ row.kind.raw = kind.raw
    THEN [row EXCEPT !.status = "superseded"] ELSE row

\* insertControl: the new row replaces the pending ones with its content.
InsertControl(kind) ==
    /\ \E c \in Controls :
          /\ control[c].status = "none"
          /\ \A d \in Controls : d < c => control[d].status # "none"
          /\ control' =
                [d \in Controls |->
                    IF d = c
                    THEN [kind |-> kind, status |-> "pending", retries |-> 0,
                          deadline |-> IF kind.deadlineIn = 0 THEN 0 ELSE now + kind.deadlineIn,
                          availableAt |-> now + kind.delay]
                    ELSE Superseded(control[d], kind)]
    /\ UNCHANGED <<now, conversation>>

DueControls == {c \in Controls : control[c].status = "pending" /\ control[c].availableAt <= now}

NextControl(c) ==
    /\ c \in DueControls
    /\ \A d \in DueControls :
          \/ control[c].kind.priority < control[d].kind.priority
          \/ control[c].kind.priority = control[d].kind.priority /\ c <= d

\* Seeded fault: only controls that still wait for delivery time out.
OverduePending(row) == row.status = "pending" /\ row.deadline # 0 /\ row.deadline < now

Overdue(row) ==
    row.status \in {"pending", "running"} /\ row.deadline # 0 /\ row.deadline < now

\* ackControl: too late is a timeout, final rows stay as they are.
Acked(row) ==
    CASE Overdue(row) -> [row EXCEPT !.status = "timeout"]
      [] row.status \in ControlFinal \cup {"deleted"} -> row
      [] OTHER -> [row EXCEPT !.status = "done"]

RequeuedControl(row) == IF row.status = "running" THEN [row EXCEPT !.status = "pending"] ELSE row

\* Seeded fault: controls are retried for ever.
RetriedForEver(row) == [row EXCEPT !.retries = @ + 1, !.status = "pending"]

\* retryOrFailControl writes the row whatever its status has become.
Retried(row) ==
    IF row.status = "deleted" THEN row
    ELSE [row EXCEPT !.retries = @ + 1,
                     !.status = IF row.retries + 1 >= MaxRetries THEN "failed" ELSE "pending"]

ExpiredControls(rows) ==
    [c \in Controls |->
        IF Overdue(rows[c]) THEN [rows[c] EXCEPT !.status = "timeout"] ELSE rows[c]]

\* cleanupControlQueue deletes the final rows that are older than the retention
\* time; ages are left out, so any of them may be.
Cleaned(rows, old) ==
    [c \in Controls |-> IF c \in old /\ rows[c].status \in ControlFinal
                       THEN [rows[c] EXCEPT !.status = "deleted"] ELSE rows[c]]

\* c4-control.js get sweeps deadlines before it reads.
GetControl ==
    /\ \E c \in Controls : Overdue(control[c])
    /\ control' = ExpiredControls(control)
    /\ UNCHANGED <<now, conversation>>

Tick ==
    /\ now < MaxTime
    /\ now' = now + 1
    /\ UNCHANGED <<control, conversation>>
=============================================================================
