--------------------------- MODULE DispatcherProofs ---------------------------
(* Theorems about Dispatcher: its types, that no probe counts as done that the agent never saw, *)
(* what becomes of the messages, and their order.                                               *)
EXTENDS Dispatcher, TLAPS

-----------------------------------------------------------------------------
(* The inductive invariant of the dispatcher and the controls *)

InHand == pc \in {"gate", "deliver", "verify"}

\* The row in hand, and what is known of it while no other process can take it.
PlaceOK ==
    /\ pc \in {"claim", "gate", "deliver", "verify"} => item \in Items
    /\ pc = "verify" => item \in shown

\* A control that may still be sent has a retry left, and so has the one in hand, whatever has
\* become of it meanwhile.
RetriesLeft ==
    \A c \in Controls :
        \/ control[c].status \in {"pending", "running"}
        \/ InHand /\ item = <<"control", c>>
        => control[c].retries < MaxRetries

IInv == TypeOK /\ PlaceOK /\ RetriesLeft /\ DoneWasShown

-----------------------------------------------------------------------------
(* Rows *)

LEMMA ItemParts ==
    ASSUME NEW x \in Items
    PROVE  \/ x[1] = "control" /\ x[2] \in Controls /\ x = <<"control", x[2]>>
           \/ x[1] = "conversation" /\ x[2] \in Conversations /\ x = <<"conversation", x[2]>>
  BY DEF Items

\* What time does to a control, or nothing: it is final, or as it was.
Ages(old, new) ==
    /\ new \in ControlRows /\ new.kind = old.kind /\ new.retries = old.retries
    /\ new.status = old.status \/ new.status \in {"timeout", "deleted", "superseded"}

LEMMA AgingRow ==
    ASSUME NEW row \in ControlRows, NEW s \in {"timeout", "deleted", "superseded"}
    PROVE  Ages(row, [row EXCEPT !.status = s])
  BY DEF Ages, ControlRows, ControlStatus, ControlFinal

LEMMA AgedTwice ==
    ASSUME NEW a, NEW b, NEW c, Ages(a, b), Ages(b, c)
    PROVE  Ages(a, c)
  BY DEF Ages

LEMMA AckedRow ==
    ASSUME NEW row \in ControlRows
    PROVE  /\ Acked(row) \in ControlRows /\ Acked(row).kind = row.kind
           /\ Acked(row).retries = row.retries
           /\ Acked(row).status \in ControlFinal \cup {"deleted"}
  <1>1. \A s \in ControlStatus : LET new == [row EXCEPT !.status = s]
                                IN  /\ new \in ControlRows /\ new.kind = row.kind
                                    /\ new.retries = row.retries /\ new.status = s
    BY DEF ControlRows
  <1>2. "timeout" \in ControlStatus /\ "done" \in ControlStatus
        /\ "timeout" \in ControlFinal /\ "done" \in ControlFinal
    BY DEF ControlStatus, ControlFinal
  <1> QED
    BY <1>1, <1>2, Zenon DEF Acked

LEMMA RetriedRow ==
    ASSUME NEW row \in ControlRows, row.retries < MaxRetries
    PROVE  /\ Retried(row) \in ControlRows /\ Retried(row).kind = row.kind
           /\ Retried(row).status \in {"deleted", "failed", "pending"}
           /\ Retried(row).status = "pending" => Retried(row).retries < MaxRetries
  <1>1. MaxRetries \in Nat /\ row.retries \in Nat
    BY QueuesAssumption DEF ControlRows
  <1>2. \A s \in ControlStatus, n \in 0..MaxRetries :
          LET new == [row EXCEPT !.retries = n, !.status = s]
          IN  /\ new \in ControlRows /\ new.kind = row.kind
              /\ new.retries = n /\ new.status = s
    BY DEF ControlRows
  <1>3. {"failed", "pending"} \subseteq ControlStatus
    BY DEF ControlStatus, ControlFinal
  <1> DEFINE s == IF row.retries + 1 >= MaxRetries THEN "failed" ELSE "pending"
             n == row.retries + 1
  <1>4. s \in {"failed", "pending"} /\ n \in 0..MaxRetries /\ (s = "pending" => n < MaxRetries)
    BY <1>1
  <1>5. Retried(row) = IF row.status = "deleted" THEN row
                       ELSE [row EXCEPT !.retries = n, !.status = s]
    BY Zenon DEF Retried
  <1> HIDE DEF s, n
  <1>6. CASE row.status = "deleted"
    BY <1>5, <1>6
  <1>7. CASE row.status # "deleted"
    <2> DEFINE new == [row EXCEPT !.retries = n, !.status = s]
    <2>1. new \in ControlRows /\ new.kind = row.kind /\ new.retries = n /\ new.status = s
      BY <1>2, <1>3, <1>4, Zenon
    <2>2. Retried(row) = new
      BY <1>5, <1>7, Zenon
    <2> HIDE DEF new
    <2> QED
      BY <1>4, <2>1, <2>2
  <1> QED
    BY <1>6, <1>7

LEMMA RequeuedControlRow ==
    ASSUME NEW row \in ControlRows
    PROVE  LET new == RequeuedControl(row)
           IN  /\ new \in ControlRows /\ new.kind = row.kind /\ new.retries = row.retries
               /\ new.status = row.status \/ new.status = "pending"
  BY DEF RequeuedControl, ControlRows, ControlStatus

\* What a message keeps when only its status is written.
SameMessage(old, new) ==
    /\ new \in ConversationRows /\ new.kind = old.kind /\ new.at = old.at
    /\ new.owed = old.owed /\ new.told = old.told

LEMMA ConversationRow ==
    ASSUME NEW row \in ConversationRows, NEW s \in ConversationStatus
    PROVE  LET new == [row EXCEPT !.status = s]
           IN  SameMessage(row, new) /\ new.status = s
  BY DEF ConversationRows, SameMessage

LEMMA RequeuedConversationRow ==
    ASSUME NEW row \in ConversationRows
    PROVE  LET new == RequeuedConversation(row)
           IN  /\ SameMessage(row, new)
               /\ \/ new.status = row.status
                  \/ row.status = "running" /\ new.status = "pending"
  <1>1. SameMessage(row, row)
    BY DEF SameMessage
  <1> QED
    BY <1>1, ConversationRow DEF RequeuedConversation, ConversationStatus

LEMMA StoredMessage ==
    ASSUME NEW kind \in ConversationKinds, NEW status \in {"pending", "delivered"}, now \in Nat
    PROVE  LET new == StoredRow(kind, status)
           IN  /\ new \in ConversationRows /\ new.kind = kind /\ new.status = status
               /\ new.at = now /\ (new.owed <=> kind.entry # "plain")
               /\ (new.told <=> status = "delivered")
  BY DEF ConversationRows, ConversationStatus, StoredRow

LEMMA WrittenStatus ==
    ASSUME NEW entry
    PROVE  /\ StoredAs(entry) \subseteq {"pending", "delivered"}
           /\ RewrittenAs(entry) \subseteq {"pending", "delivered"}
  <1>1. StoredAs(entry) \in {{"pending", "delivered"}, {"pending"}, {"delivered"}}
    BY Zenon DEF StoredAs
  <1> QED
    BY <1>1 DEF RewrittenAs

LEMMA RewrittenMessage ==
    ASSUME NEW row \in ConversationRows, NEW status \in {"pending", "delivered"}
    PROVE  LET new == RewrittenRow(row, status)
           IN  /\ new \in ConversationRows /\ new.kind = row.kind /\ new.status = status
               /\ new.at = row.at /\ ~new.owed /\ (new.told <=> status = "delivered")
  BY DEF ConversationRows, ConversationStatus, RewrittenRow

-----------------------------------------------------------------------------
(* Steps *)

LEMMA InitIInv == Init => IInv
  <1> SUFFICES ASSUME Init
               PROVE  IInv
    OBVIOUS
  <1>1. TypeOK
    <2>1. control \in [Controls -> ControlRows]
      BY QueuesAssumption DEF Init, QueuesInit, ControlRows, ControlStatus
    <2>2. conversation \in [Conversations -> ConversationRows]
      BY DEF Init, QueuesInit, ConversationRows, ConversationStatus
    <2>3. /\ now = 0 /\ pc = "ready" /\ item = NoItem /\ shown = {} /\ faults = 0
          /\ agent \in AgentStates /\ seenAt = agent
      BY Zenon DEF Init, QueuesInit
    <2> QED
      BY <2>1, <2>2, <2>3, QueuesAssumption, DispatcherAssumption DEF TypeOK, QueuesTypeOK, PCs
  <1>2. /\ pc = "ready"
        /\ \A c \in Controls : control[c].status = "none"
    BY DEF Init, QueuesInit
  <1> QED
    BY <1>1, <1>2 DEF IInv, PlaceOK, RetriesLeft, DoneWasShown, InHand

\* A step that only lets controls age, and gives the dispatcher nothing new to do.
LEMMA AgingKeeps ==
    ASSUME IInv, NEW w \in 0..MaxTime, now' = w, now <= w,
           control' \in [Controls -> ControlRows],
           \A c \in Controls : Ages(control[c], control'[c]),
           conversation' = conversation, UNCHANGED <<item, shown, faults>>,
           seenAt' \in AgentStates, agent' \in AgentStates,
           \/ pc' = pc
           \/ pc' \in PCs /\ pc' \notin {"claim", "gate", "deliver", "verify"}
    PROVE  IInv'
  <1>1. now \in Nat /\ now' \in 0..MaxTime /\ now' \in Nat
    BY QueuesAssumption DEF IInv, TypeOK, QueuesTypeOK
  <1>2. TypeOK'
    BY <1>1 DEF IInv, TypeOK, QueuesTypeOK
  <1>3. PlaceOK'
    BY DEF IInv, PlaceOK, IsControl
  <1>4. RetriesLeft'
    BY DEF IInv, RetriesLeft, InHand, Ages
  <1>5. DoneWasShown'
    BY DEF IInv, DoneWasShown, Ages
  <1> QED
    BY <1>2, <1>3, <1>4, <1>5 DEF IInv

\* The round ends with one row of the control written.
LEMMA ReleaseKeeps ==
    ASSUME IInv, Release, UNCHANGED <<now, seenAt, agent>>,
           faults' \in 0..MaxFaults,
           control' \in [Controls -> ControlRows],
           conversation' \in [Conversations -> ConversationRows],
           shown \subseteq shown', shown' \subseteq Items,
           \A c \in Controls :
              /\ control'[c].status \in {"pending", "running"} => control'[c].retries < MaxRetries
              /\ control'[c].status = "done" =>
                    \/ control[c].status = "done" /\ control'[c].kind = control[c].kind
                    \/ control'[c].kind.form = "heartbeat"
                    \/ <<"control", c>> \in shown'
    PROVE  IInv'
  <1>1. TypeOK'
    BY DEF IInv, TypeOK, QueuesTypeOK, Release, PCs
  <1>2. PlaceOK' /\ RetriesLeft'
    BY DEF PlaceOK, RetriesLeft, InHand, Release
  <1>3. DoneWasShown'
    BY DEF IInv, DoneWasShown
  <1> QED
    BY <1>1, <1>2, <1>3 DEF IInv

LEMMA ExpiredAge ==
    ASSUME NEW rows \in [Controls -> ControlRows]
    PROVE  /\ ExpiredControls(rows) \in [Controls -> ControlRows]
           /\ \A c \in Controls : Ages(rows[c], ExpiredControls(rows)[c])
  <1>1. ASSUME NEW c \in Controls
        PROVE  Ages(rows[c], IF Overdue(rows[c]) THEN [rows[c] EXCEPT !.status = "timeout"]
                             ELSE rows[c])
    <2>1. CASE Overdue(rows[c])
      BY <2>1, AgingRow
    <2>2. CASE ~Overdue(rows[c])
      BY <2>2 DEF Ages
    <2> QED
      BY <2>1, <2>2
  <1> QED
    BY <1>1 DEF ExpiredControls, Ages

LEMMA CleanedAge ==
    ASSUME NEW rows \in [Controls -> ControlRows], NEW old
    PROVE  /\ Cleaned(rows, old) \in [Controls -> ControlRows]
           /\ \A c \in Controls : Ages(rows[c], Cleaned(rows, old)[c])
  <1>1. ASSUME NEW c \in Controls
        PROVE  Ages(rows[c], IF c \in old /\ rows[c].status \in ControlFinal
                             THEN [rows[c] EXCEPT !.status = "deleted"] ELSE rows[c])
    <2>1. CASE c \in old /\ rows[c].status \in ControlFinal
      BY <2>1, AgingRow
    <2>2. CASE ~(c \in old /\ rows[c].status \in ControlFinal)
      BY <2>2 DEF Ages
    <2> QED
      BY <2>1, <2>2
  <1> QED
    BY <1>1 DEF Cleaned, Ages

LEMMA SweepKeeps ==
    ASSUME IInv, Sweep
    PROVE  IInv'
  <1>1. control \in [Controls -> ControlRows] /\ now \in 0..MaxTime /\ now <= now
        /\ agent \in AgentStates
    BY QueuesAssumption DEF IInv, TypeOK, QueuesTypeOK
  <1>2. PICK old \in SUBSET Controls : control' = ExpiredControls(Cleaned(control, old))
    BY DEF Sweep
  <1>3. /\ control' \in [Controls -> ControlRows]
        /\ \A c \in Controls : Ages(control[c], control'[c])
    BY <1>1, <1>2, CleanedAge, ExpiredAge, AgedTwice
  <1>4. /\ now' = now /\ conversation' = conversation /\ UNCHANGED <<item, shown, faults>>
        /\ seenAt' = agent /\ agent' = agent /\ pc' = "choose"
    BY DEF Sweep
  <1>5. "choose" \in PCs \ {"claim", "gate", "deliver", "verify"}
    BY DEF PCs
  <1> QED
    BY <1>1, <1>3, <1>4, <1>5, AgingKeeps

\* Time, the agent's state, and the sweep that another process makes.
LEMMA OutsideKeeps ==
    ASSUME IInv, AgentChanges \/ Sweeps \/ Clock
    PROVE  IInv'
  <1>1. control \in [Controls -> ControlRows] /\ now \in 0..MaxTime /\ now <= now
        /\ agent \in AgentStates /\ seenAt \in AgentStates /\ MaxTime \in Nat
    BY QueuesAssumption DEF IInv, TypeOK, QueuesTypeOK
  <1>2. \A c \in Controls : Ages(control[c], control[c])
    BY <1>1 DEF Ages
  <1>3. CASE AgentChanges
    BY <1>1, <1>2, <1>3, AgingKeeps DEF AgentChanges
  <1>4. CASE Sweeps
    <2>1. control' = ExpiredControls(control) /\ UNCHANGED <<now, conversation, dispatcherVars>>
      BY <1>4 DEF Sweeps, GetControl
    <2> QED
      BY <1>1, <2>1, ExpiredAge, AgingKeeps DEF dispatcherVars
  <1>5. CASE Clock
    <2>1. /\ now' = now + 1 /\ now < MaxTime
          /\ UNCHANGED <<control, conversation, dispatcherVars>>
      BY <1>5 DEF Clock, Tick
    <2>2. now' \in 0..MaxTime /\ now <= now'
      BY <1>1, <2>1
    <2> QED
      BY <1>1, <1>2, <2>1, <2>2, AgingKeeps DEF dispatcherVars
  <1> QED
    BY <1>3, <1>4, <1>5

\* Its receiver stores a message, or writes its status again.
LEMMA ReceiveConversationKeeps ==
    ASSUME IInv, UNCHANGED dispatcherVars,
           RewriteConversation \/ \E kind \in ConversationKinds : InsertConversation(kind)
    PROVE  IInv'
  <1>1. /\ now' = now /\ control' = control
        /\ UNCHANGED <<pc, item, seenAt, agent, shown, faults>>
    BY DEF InsertConversation, RewriteConversation, dispatcherVars
  <1>2. now \in Nat /\ conversation \in [Conversations -> ConversationRows]
    BY QueuesAssumption DEF IInv, TypeOK, QueuesTypeOK
  <1>3. conversation' \in [Conversations -> ConversationRows]
    <2>1. CASE \E kind \in ConversationKinds : InsertConversation(kind)
      <3>1. PICK kind \in ConversationKinds, m \in Conversations,
                 status \in {"pending", "delivered"} :
              conversation' = [conversation EXCEPT ![m] = StoredRow(kind, status)]
        BY <2>1, WrittenStatus DEF InsertConversation
      <3> QED
        BY <1>2, <3>1, StoredMessage
    <2>2. CASE RewriteConversation
      <3>1. PICK m \in Conversations, status \in {"pending", "delivered"} :
              conversation' = [conversation EXCEPT ![m] = RewrittenRow(conversation[m], status)]
        BY <2>2, WrittenStatus DEF RewriteConversation
      <3> QED
        BY <1>2, <3>1, RewrittenMessage
    <2> QED
      BY <2>1, <2>2
  <1>4. TypeOK'
    BY <1>1, <1>3 DEF IInv, TypeOK, QueuesTypeOK
  <1>5. PlaceOK' /\ RetriesLeft' /\ DoneWasShown'
    BY <1>1 DEF IInv, PlaceOK, RetriesLeft, InHand, DoneWasShown
  <1> QED
    BY <1>4, <1>5 DEF IInv

LEMMA ReceiveControlKeeps ==
    ASSUME IInv, NEW kind \in ControlKinds, InsertControl(kind), UNCHANGED dispatcherVars
    PROVE  IInv'
  <1> DEFINE new == [kind |-> kind, status |-> "pending", retries |-> 0,
                     deadline |-> IF kind.deadlineIn = 0 THEN 0 ELSE now + kind.deadlineIn,
                     availableAt |-> now + kind.delay]
  <1>1. PICK c \in Controls :
          control' = [d \in Controls |-> IF d = c THEN new ELSE Superseded(control[d], kind)]
    BY DEF InsertControl
  <1>2. /\ now' = now /\ conversation' = conversation
        /\ UNCHANGED <<pc, item, seenAt, agent, shown, faults>>
    BY DEF InsertControl, dispatcherVars
  <1>3. control \in [Controls -> ControlRows] /\ now \in Nat /\ MaxRetries \in Nat \ {0}
    BY QueuesAssumption DEF IInv, TypeOK, QueuesTypeOK
  <1>4. new \in ControlRows /\ new.status = "pending" /\ new.retries = 0
    <2>1. kind \in ControlKind
      BY QueuesAssumption
    <2>2. kind.deadlineIn \in Nat /\ kind.delay \in Nat
      BY <2>1 DEF ControlKind
    <2>3. "pending" \in ControlStatus /\ 0 \in 0..MaxRetries
      BY <1>3 DEF ControlStatus
    <2>4. now + kind.delay \in Nat /\ now + kind.deadlineIn \in Nat
      BY <1>3, <2>2
    <2> QED
      BY <2>3, <2>4 DEF ControlRows
  <1> HIDE DEF new
  <1>5. ASSUME NEW d \in Controls \ {c}
        PROVE  Ages(control[d], control'[d])
    <2>1. control'[d] = Superseded(control[d], kind) /\ control[d] \in ControlRows
      BY <1>1, <1>3
    <2> QED
      BY <2>1, AgingRow DEF Superseded, Ages
  <1>6. control'[c] = new
    BY <1>1
  <1>7. control' \in [Controls -> ControlRows]
    <2>1. \A d \in Controls : control'[d] \in ControlRows
      BY <1>4, <1>5, <1>6 DEF Ages
    <2> QED
      BY <1>1, <2>1
  <1>8. TypeOK'
    BY <1>2, <1>7 DEF IInv, TypeOK, QueuesTypeOK
  <1>9. PlaceOK'
    BY <1>2 DEF IInv, PlaceOK
  <1>10. RetriesLeft'
    <2>1. ASSUME NEW d \in Controls,
                 \/ control'[d].status \in {"pending", "running"}
                 \/ InHand /\ item = <<"control", d>>
          PROVE  control'[d].retries < MaxRetries
      <3>1. CASE d = c
        BY <1>3, <1>4, <1>6, <3>1
      <3>2. CASE d # c
        BY <1>5, <2>1, <3>2 DEF IInv, RetriesLeft, Ages
      <3> QED
        BY <3>1, <3>2
    <2> QED
      BY <1>2, <2>1 DEF RetriesLeft, InHand
  <1>11. DoneWasShown'
    BY <1>2, <1>4, <1>5, <1>6 DEF IInv, DoneWasShown, Ages
  <1> QED
    BY <1>8, <1>9, <1>10, <1>11 DEF IInv

\* A row is chosen, and not claimed yet.
LEMMA ChoiceKeeps ==
    ASSUME IInv, ChooseControl \/ ChooseConversation
    PROVE  IInv'
  <1>1. /\ pc' = "claim" /\ item' \in Items
        /\ UNCHANGED <<now, control, conversation, seenAt, agent, shown, faults>>
    BY DEF ChooseControl, ChooseConversation, Items
  <1>2. TypeOK'
    BY <1>1 DEF IInv, TypeOK, QueuesTypeOK, PCs
  <1>3. PlaceOK'
    BY <1>1 DEF PlaceOK
  <1>4. RetriesLeft' /\ DoneWasShown'
    BY <1>1 DEF IInv, RetriesLeft, DoneWasShown, InHand
  <1> QED
    BY <1>2, <1>3, <1>4 DEF IInv

LEMMA Facts ==
    ASSUME IInv
    PROVE  /\ control \in [Controls -> ControlRows]
           /\ conversation \in [Conversations -> ConversationRows]
           /\ shown \subseteq Items /\ faults \in 0..MaxFaults
           /\ \A c \in Controls : control[c].status \in {"pending", "running"}
                                     => control[c].retries < MaxRetries
  BY DEF IInv, TypeOK, QueuesTypeOK, RetriesLeft

\* The round ends and nothing is written.
LEMMA NothingWritten ==
    ASSUME IInv, Release, UNCHANGED <<now, control, conversation, seenAt, agent, shown>>,
           faults' \in 0..MaxFaults
    PROVE  IInv'
  BY Facts, ReleaseKeeps

\* The round ends and the control in hand is written.
LEMMA ControlWritten ==
    ASSUME IInv, NEW c \in Controls, item = <<"control", c>>, NEW row \in ControlRows,
           Release, WriteControl(row), UNCHANGED <<now, seenAt, agent, faults>>,
           shown \subseteq shown', shown' \subseteq Items,
           row.kind = control[c].kind,
           row.status \in {"pending", "running"} => row.retries < MaxRetries,
           row.status = "done" =>
              control[c].status = "done" \/ row.kind.form = "heartbeat" \/ item \in shown'
    PROVE  IInv'
  <1>1. /\ control' = [control EXCEPT ![c] = row] /\ conversation' = conversation
    BY DEF WriteControl
  <1>2. /\ control'[c] = row /\ \A d \in Controls \ {c} : control'[d] = control[d]
        /\ control' \in [Controls -> ControlRows]
    BY <1>1, Facts
  <1>3. \A d \in Controls :
           /\ control'[d].status \in {"pending", "running"} => control'[d].retries < MaxRetries
           /\ control'[d].status = "done" =>
                 \/ control[d].status = "done" /\ control'[d].kind = control[d].kind
                 \/ control'[d].kind.form = "heartbeat"
                 \/ <<"control", d>> \in shown'
    BY <1>2, Facts
  <1>4. faults' \in 0..MaxFaults /\ conversation' \in [Conversations -> ConversationRows]
    BY <1>1, Facts
  <1> QED
    BY <1>1, <1>2, <1>3, <1>4, ReleaseKeeps

\* The round ends and the message in hand is written.
LEMMA MessageWritten ==
    ASSUME IInv, NEW m \in Conversations, item = <<"conversation", m>>,
           NEW row \in ConversationRows,
           Release, WriteConversation(row), UNCHANGED <<now, seenAt, agent, shown, faults>>
    PROVE  IInv'
  <1>1. /\ conversation' = [conversation EXCEPT ![m] = row] /\ control' = control
    BY DEF WriteConversation
  <1>2. /\ conversation'[m] = row
        /\ \A n \in Conversations \ {m} : conversation'[n] = conversation[n]
        /\ conversation' \in [Conversations -> ConversationRows]
    BY <1>1, Facts
  <1>3. \A c \in Controls :
           /\ control'[c].status \in {"pending", "running"} => control'[c].retries < MaxRetries
           /\ control'[c].status = "done" =>
                 control[c].status = "done" /\ control'[c].kind = control[c].kind
    BY <1>1, Facts
  <1> QED
    BY <1>1, <1>2, <1>3, Facts, ReleaseKeeps

\* What the dispatcher holds once it has a row.
LEMMA HeldItem ==
    ASSUME IInv, pc \in {"claim", "gate", "deliver", "verify"}
    PROVE  \/ /\ IsControl /\ item[2] \in Controls /\ item = <<"control", item[2]>>
              /\ control[item[2]] \in ControlRows
              /\ pc # "claim" => control[item[2]].retries < MaxRetries
           \/ /\ ~IsControl /\ item[2] \in Conversations /\ item = <<"conversation", item[2]>>
              /\ conversation[item[2]] \in ConversationRows
  <1>1. item \in Items
    BY DEF IInv, PlaceOK
  <1>2. CASE item[1] = "control"
    <2>1. item[2] \in Controls /\ item = <<"control", item[2]>>
      BY <1>1, <1>2, ItemParts
    <2>2. pc # "claim" => control[item[2]].retries < MaxRetries
      BY <2>1 DEF IInv, RetriesLeft, InHand
    <2> QED
      BY <1>2, <2>1, <2>2, Facts DEF IsControl
  <1>3. CASE item[1] # "control"
    <2>1. item[2] \in Conversations /\ item = <<"conversation", item[2]>>
      BY <1>1, <1>3, ItemParts
    <2> QED
      BY <1>3, <2>1, Facts DEF IsControl
  <1> QED
    BY <1>2, <1>3

LEMMA PutBackKeeps ==
    ASSUME IInv, pc \in {"gate", "deliver", "verify"}, PutBack,
           UNCHANGED <<now, seenAt, agent, shown, faults>>
    PROVE  IInv'
  <1> DEFINE x == item[2]
  <1>1. CASE IsControl
    <2>1. /\ x \in Controls /\ item = <<"control", x>> /\ control[x] \in ControlRows
          /\ control[x].retries < MaxRetries
      BY <1>1, HeldItem
    <2> DEFINE row == RequeuedControl(control[x])
    <2>2. /\ row \in ControlRows /\ row.kind = control[x].kind
          /\ row.retries = control[x].retries
          /\ row.status = control[x].status \/ row.status = "pending"
      BY <2>1, RequeuedControlRow
    <2>3. Release /\ WriteControl(row)
      BY <1>1 DEF PutBack
    <2> HIDE DEF x, row
    <2> QED
      BY <2>1, <2>2, <2>3, Facts, ControlWritten
  <1>2. CASE ~IsControl
    <2>1. /\ x \in Conversations /\ item = <<"conversation", x>>
          /\ conversation[x] \in ConversationRows
      BY <1>2, HeldItem
    <2> DEFINE row == RequeuedConversation(conversation[x])
    <2>2. row \in ConversationRows
      BY <2>1, RequeuedConversationRow DEF SameMessage
    <2>3. Release /\ WriteConversation(row)
      BY <1>2 DEF PutBack
    <2> HIDE DEF x, row
    <2> QED
      BY <2>1, <2>2, <2>3, MessageWritten
  <1> QED
    BY <1>1, <1>2

\* A send that failed.
LEMMA FailedKeeps ==
    ASSUME IInv, pc \in {"deliver", "verify"}, Failed,
           UNCHANGED <<now, seenAt, agent, shown, faults>>
    PROVE  IInv'
  <1> DEFINE x == item[2]
  <1>1. CASE IsControl
    <2>1. /\ x \in Controls /\ item = <<"control", x>> /\ control[x] \in ControlRows
          /\ control[x].retries < MaxRetries
      BY <1>1, HeldItem
    <2> DEFINE row == Retried(control[x])
    <2>2. /\ row \in ControlRows /\ row.kind = control[x].kind
          /\ row.status \in {"deleted", "failed", "pending"}
          /\ row.status = "pending" => row.retries < MaxRetries
      BY <2>1, RetriedRow
    <2>3. Release /\ WriteControl(row)
      BY <1>1 DEF Failed
    <2> HIDE DEF x, row
    <2> QED
      BY <2>1, <2>2, <2>3, Facts, ControlWritten
  <1>2. CASE ~IsControl
    <2>1. PutBack
      BY <1>2 DEF Failed, PutBack
    <2> QED
      BY <2>1, PutBackKeeps
  <1> QED
    BY <1>1, <1>2

\* The control in hand is acknowledged.
LEMMA AckKeeps ==
    ASSUME IInv, pc \in {"deliver", "verify"}, IsControl, Release,
           WriteControl(Acked(control[item[2]])), UNCHANGED <<now, seenAt, agent, faults>>,
           shown' = shown \/ shown' = shown \cup {item},
           item \in shown' \/ Kind.form = "heartbeat"
    PROVE  IInv'
  <1> DEFINE x == item[2]
             row == Acked(control[x])
  <1>1. x \in Controls /\ item = <<"control", x>> /\ control[x] \in ControlRows
    BY HeldItem
  <1>2. /\ row \in ControlRows /\ row.kind = control[x].kind
        /\ row.status \in ControlFinal \cup {"deleted"}
    BY <1>1, AckedRow
  <1>3. Kind = control[x].kind
    BY DEF Kind
  <1>4. item \in Items
    BY DEF IInv, PlaceOK
  <1>5. shown \subseteq shown' /\ shown' \subseteq Items
    BY <1>4, Facts
  <1>6. WriteControl(row)
    OBVIOUS
  <1>7. {"pending", "running"} \cap (ControlFinal \cup {"deleted"}) = {}
    BY DEF ControlFinal
  <1> HIDE DEF x, row
  <1> QED
    BY <1>1, <1>2, <1>3, <1>5, <1>6, <1>7, ControlWritten

LEMMA ClaimKeeps ==
    ASSUME IInv, Claim
    PROVE  IInv'
  <1> DEFINE x == item[2]
  <1>1. pc = "claim" /\ item \in Items /\ UNCHANGED <<now, seenAt, agent, shown, faults>>
    BY DEF Claim, IInv, PlaceOK
  <1>2. CASE IsControl /\ control[x].status = "pending" /\ pc' = "gate" /\ item' = item
             /\ WriteControl([control[x] EXCEPT !.status = "running"])
    <2> DEFINE row == [control[x] EXCEPT !.status = "running"]
    <2>1. x \in Controls /\ item = <<"control", x>> /\ control[x] \in ControlRows
      BY <1>1, <1>2, HeldItem
    <2>2. row \in ControlRows /\ row.kind = control[x].kind /\ row.retries = control[x].retries
          /\ row.status = "running"
      BY <2>1 DEF ControlRows, ControlStatus
    <2>3. control' = [control EXCEPT ![x] = row] /\ UNCHANGED conversation
      BY <1>2, Zenon DEF WriteControl
    <2> HIDE DEF x, row
    <2>4. /\ control'[x] = row /\ \A d \in Controls \ {x} : control'[d] = control[d]
          /\ control' \in [Controls -> ControlRows]
      BY <2>1, <2>2, <2>3, Facts
    <2>5. control[x].retries < MaxRetries
      BY <1>2, <2>1, Facts
    <2>6. TypeOK'
      BY <1>1, <1>2, <2>3, <2>4 DEF IInv, TypeOK, QueuesTypeOK, PCs
    <2>7. PlaceOK'
      BY <1>1, <1>2 DEF IInv, PlaceOK
    <2>8. RetriesLeft'
      BY <1>2, <2>1, <2>2, <2>4, <2>5 DEF IInv, RetriesLeft
    <2>9. DoneWasShown'
      BY <1>1, <2>2, <2>4 DEF IInv, DoneWasShown
    <2> QED
      BY <2>6, <2>7, <2>8, <2>9 DEF IInv
  <1>3. CASE ~IsControl /\ conversation[x].status = "pending" /\ pc' = "gate" /\ item' = item
             /\ WriteConversation([conversation[x] EXCEPT !.status = "running"])
    <2>1. x \in Conversations /\ item = <<"conversation", x>> /\ conversation[x] \in ConversationRows
      BY <1>1, <1>3, HeldItem
    <2>2. /\ conversation' = [conversation EXCEPT
                                 ![x] = [conversation[x] EXCEPT !.status = "running"]]
          /\ control' = control
      BY <1>3 DEF WriteConversation
    <2>3. [conversation[x] EXCEPT !.status = "running"] \in ConversationRows
      BY <2>1, ConversationRow DEF ConversationStatus, SameMessage
    <2> HIDE DEF x
    <2>4. conversation' \in [Conversations -> ConversationRows]
      BY <2>1, <2>2, <2>3, Facts
    <2>5. TypeOK'
      BY <1>1, <1>3, <2>2, <2>4 DEF IInv, TypeOK, QueuesTypeOK, PCs
    <2>6. PlaceOK'
      BY <1>1, <1>3 DEF IInv, PlaceOK
    <2>7. RetriesLeft' /\ DoneWasShown'
      BY <1>1, <1>3, <2>1, <2>2 DEF IInv, RetriesLeft, DoneWasShown
    <2> QED
      BY <2>5, <2>6, <2>7 DEF IInv
  <1>4. CASE Release /\ UNCHANGED <<control, conversation>>
    BY <1>1, <1>4, Facts, NothingWritten
  <1> QED
    BY <1>1, <1>2, <1>3, <1>4 DEF Claim

\* The row stays in hand.
LEMMA GoesOn ==
    ASSUME IInv, InHand, pc' \in {"deliver", "verify"}, item \in Items,
           UNCHANGED <<now, control, conversation, item, seenAt, agent, faults>>,
           shown' = shown \/ shown' = shown \cup {item},
           pc' = "verify" => item \in shown'
    PROVE  IInv'
  <1>1. shown \subseteq shown' /\ shown' \subseteq Items
    BY Facts
  <1>2. TypeOK'
    BY <1>1 DEF IInv, TypeOK, QueuesTypeOK, PCs
  <1>3. PlaceOK'
    BY DEF PlaceOK
  <1>4. RetriesLeft'
    BY DEF IInv, RetriesLeft, InHand
  <1>5. DoneWasShown'
    BY <1>1 DEF IInv, DoneWasShown
  <1> QED
    BY <1>2, <1>3, <1>4, <1>5 DEF IInv

LEMMA SubmittedKeeps ==
    ASSUME IInv, Submitted
    PROVE  IInv'
  <1> DEFINE x == item[2]
  <1>1. /\ pc = "verify" /\ item \in shown /\ Release
        /\ UNCHANGED <<now, seenAt, agent, shown, faults>>
    BY DEF IInv, PlaceOK, Submitted
  <1>2. CASE ~IsControl
    <2> DEFINE row == [conversation[x] EXCEPT !.status = "delivered"]
    <2>1. /\ x \in Conversations /\ item = <<"conversation", x>>
          /\ conversation[x] \in ConversationRows
      BY <1>1, <1>2, HeldItem
    <2>2. row \in ConversationRows
      BY <2>1, ConversationRow DEF ConversationStatus, SameMessage
    <2>3. WriteConversation(row)
      BY <1>2 DEF Submitted
    <2> HIDE DEF x, row
    <2> QED
      BY <1>1, <2>1, <2>2, <2>3, MessageWritten
  <1>3. CASE IsControl /\ Kind.ackSuffix
    BY <1>1, <1>3, Facts, NothingWritten DEF Submitted
  <1>4. CASE IsControl /\ ~Kind.ackSuffix
    <2>1. WriteControl(Acked(control[item[2]]))
      BY <1>4 DEF Submitted
    <2> QED
      BY <1>1, <1>4, <2>1, AckKeeps
  <1> QED
    BY <1>2, <1>3, <1>4

LEMMA KeystrokeKeeps ==
    ASSUME IInv, Keystroke
    PROVE  IInv'
  <1>1. pc = "deliver" /\ IsControl /\ Release /\ UNCHANGED <<now, seenAt, agent, faults>>
    BY DEF Keystroke, IsKeystroke
  <1>2. CASE WriteControl(Acked(control[item[2]])) /\ shown' = shown \cup {item}
    BY <1>1, <1>2, AckKeeps
  <1>3. CASE WriteControl(Retried(control[item[2]])) /\ UNCHANGED shown
    <2>1. Failed
      BY <1>1, <1>3 DEF Failed
    <2> QED
      BY <1>1, <1>3, <2>1, FailedKeeps
  <1> QED
    BY <1>2, <1>3 DEF Keystroke

LEMMA AutoAckKeeps ==
    ASSUME IInv, AutoAck
    PROVE  IInv'
  <1>1. pc = "deliver" /\ Bypass /\ Kind.form = "heartbeat" /\ Release
        /\ WriteControl(Acked(control[item[2]])) /\ UNCHANGED <<now, seenAt, agent, shown, faults>>
    BY DEF AutoAck, MayAutoAck
  <1>2. IsControl
    BY <1>1 DEF Bypass
  <1> QED
    BY <1>1, <1>2, AckKeeps

\* The agent acknowledges a control while the dispatcher is anywhere.
LEMMA AgentAcksKeeps ==
    ASSUME IInv, AgentAcks
    PROVE  IInv'
  <1>1. PICK c \in Controls :
          <<"control", c>> \in shown /\ control' = [control EXCEPT ![c] = Acked(control[c])]
    BY DEF AgentAcks
  <1>2. UNCHANGED <<now, conversation, pc, item, seenAt, agent, shown, faults>>
    BY DEF AgentAcks, dispatcherVars
  <1> DEFINE row == Acked(control[c])
  <1>3. /\ row \in ControlRows /\ row.kind = control[c].kind /\ row.retries = control[c].retries
        /\ row.status \notin {"pending", "running"}
    BY Facts, AckedRow DEF ControlFinal
  <1> HIDE DEF row
  <1>4. /\ control'[c] = row /\ \A d \in Controls \ {c} : control'[d] = control[d]
        /\ control' \in [Controls -> ControlRows]
    BY <1>1, <1>3, Facts DEF row
  <1>5. TypeOK'
    BY <1>2, <1>4 DEF IInv, TypeOK, QueuesTypeOK
  <1>6. PlaceOK'
    BY <1>2 DEF IInv, PlaceOK
  <1>7. RetriesLeft'
    BY <1>2, <1>3, <1>4 DEF IInv, RetriesLeft, InHand
  <1>8. DoneWasShown'
    BY <1>1, <1>2, <1>4 DEF IInv, DoneWasShown
  <1> QED
    BY <1>5, <1>6, <1>7, <1>8 DEF IInv

LEMMA DispatcherKeeps ==
    ASSUME IInv, DispatcherStep \/ Fault
    PROVE  IInv'
  <1>1. CASE ChooseNothing
    BY <1>1, Facts, NothingWritten DEF ChooseNothing
  <1>2. CASE GateDefers
    BY <1>2, PutBackKeeps DEF GateDefers
  <1>3. CASE GatePasses
    BY <1>3, GoesOn DEF GatePasses, InHand, IInv, PlaceOK
  <1>4. CASE Paste
    BY <1>4, GoesOn DEF Paste, InHand, IInv, PlaceOK
  <1>5. CASE PasteFails
    BY <1>5, FailedKeeps DEF PasteFails
  <1>6. CASE VerifyFails
    BY <1>6, FailedKeeps DEF VerifyFails
  <1>7. CASE Fault
    <2>1. faults' \in 0..MaxFaults
      BY <1>7, Facts, DispatcherAssumption DEF Fault
    <2> QED
      BY <1>7, <2>1, NothingWritten DEF Fault
  <1> QED
    BY <1>1, <1>2, <1>3, <1>4, <1>5, <1>6, <1>7, SweepKeeps, ChoiceKeeps,
       ClaimKeeps, AutoAckKeeps, KeystrokeKeeps, SubmittedKeeps
       DEF DispatcherStep

LEMMA StepKeepsIInv ==
    ASSUME IInv, [Next]_vars
    PROVE  IInv'
  <1>1. CASE Receive
    BY <1>1, ReceiveConversationKeeps, ReceiveControlKeeps DEF Receive
  <1>2. CASE UNCHANGED vars
    BY <1>2 DEF vars, IInv, TypeOK, QueuesTypeOK, PlaceOK, RetriesLeft,
       DoneWasShown, InHand
  <1> QED
    BY <1>1, <1>2, DispatcherKeeps, OutsideKeeps, AgentAcksKeeps DEF Next

-----------------------------------------------------------------------------
(* Theorems *)

\* The queues and the dispatcher are well typed: no control is retried more often than it may
\* be, though the agent, the monitor and the dispatcher write its row from their own processes.
THEOREM DispatcherTypeCorrect == Spec => []TypeOK
  <1>1. IInv => TypeOK
    BY DEF IInv
  <1> QED
    BY <1>1, InitIInv, StepKeepsIInv, PTL DEF Spec

\* A control that counts as done was put into the agent's terminal; only the primary heartbeat
\* may be acknowledged for the agent (c4-dispatcher.js:226).
THEOREM NothingDoneUnseen == Spec => []DoneWasShown
  <1>1. IInv => DoneWasShown
    BY DEF IInv
  <1> QED
    BY <1>1, InitIInv, StepKeepsIInv, PTL DEF Spec

-----------------------------------------------------------------------------
(* The inductive invariant of the messages *)

Chosen(m) == pc = "claim" /\ item = <<"conversation", m>>
Held(m) == InHand /\ item = <<"conversation", m>>
Typed(m) == <<"conversation", m>> \in shown

\* A message is known before anything is done with it.
Arrived(m) ==
    /\ conversation[m].status # "none" =>
          conversation[m].kind \in ConversationKinds /\ conversation[m].at <= now
    /\ conversation[m].owed \/ Chosen(m) \/ Held(m) \/ Typed(m) => conversation[m].status # "none"

\* What its receiver took off the queue, the dispatcher has not seen, unless it is an explicit
\* task; and only such a task may still be written when it is not taken off.
LeftAlone(m) ==
    /\ conversation[m].told /\ conversation[m].kind.entry # "task" =>
          conversation[m].status = "delivered" /\ ~Chosen(m) /\ ~Held(m) /\ ~Typed(m)
    /\ conversation[m].owed =>
          /\ conversation[m].kind.entry # "plain"
          /\ conversation[m].kind.entry # "task" => conversation[m].told

Delivered(m) == conversation[m].status = "delivered" => Typed(m) \/ conversation[m].told

\* A message that was taken is the oldest of its priority among those that still have to come.
Taken(m) == conversation[m].status = "running" \/ Chosen(m)
Waiting(m) == Untouched(m) /\ (conversation[m].status = "pending" \/ Held(m))
Older(m, n) ==
    conversation[m].kind.priority = conversation[n].kind.priority
        => conversation[m].at <= conversation[n].at
OldestTaken == \A m, n \in Conversations : Taken(m) /\ Waiting(n) => Older(m, n)

MInv ==
    /\ \A m \in Conversations : Arrived(m) /\ LeftAlone(m) /\ Delivered(m)
    /\ OldestTaken

LEMMA InitMInv == Init => MInv
  <1> SUFFICES ASSUME Init
               PROVE  MInv
    OBVIOUS
  <1>1. pc = "ready" /\ shown = {}
    BY Zenon DEF Init, QueuesInit
  <1>2. \A m \in Conversations :
           /\ conversation[m].status = "none" /\ ~conversation[m].owed /\ ~conversation[m].told
    BY DEF Init, QueuesInit
  <1> QED
    BY <1>1, <1>2 DEF MInv, Arrived, LeftAlone, Delivered, OldestTaken, Taken, Waiting, Chosen,
       Held, Typed, InHand

\* What the dispatcher may do with the row of a message.
RowStep(m) ==
    LET old == conversation[m]
        new == conversation'[m]
    IN  /\ new.kind = old.kind /\ new.at = old.at /\ new.owed = old.owed /\ new.told = old.told
        /\ \/ new.status = old.status
           \/ old.status = "pending" /\ new.status = "running" /\ Chosen(m)
           \/ old.status = "running" /\ new.status = "pending" /\ Held(m)
           \/ new.status = "delivered" /\ Held(m) /\ Typed(m)

\* How it comes to choose, hold and type one.
PlaceStep(m) ==
    /\ Chosen(m)' => Chosen(m) \/ (NextConversation(m) /\ ~InHand)
    /\ Held(m)' => Held(m) \/ (Chosen(m) /\ conversation[m].status = "pending")
    /\ Typed(m)' => Typed(m) \/ Held(m)
    /\ Typed(m) => Typed(m)'

LEMMA MessageStepKeeps ==
    ASSUME IInv, MInv, now' \in Nat, now <= now',
           \A m \in Conversations : RowStep(m) /\ PlaceStep(m)
    PROVE  MInv'
  <1>1. now \in Nat /\ \A m \in Conversations : conversation[m].at \in Nat
    BY QueuesAssumption DEF IInv, TypeOK, QueuesTypeOK, ConversationRows
  <1>2. ASSUME NEW m \in Conversations
        PROVE  Arrived(m)' /\ LeftAlone(m)' /\ Delivered(m)'
    <2> DEFINE old == conversation[m]
               new == conversation'[m]
    <2>1. Arrived(m) /\ LeftAlone(m) /\ Delivered(m) /\ RowStep(m) /\ PlaceStep(m)
      BY <1>2 DEF MInv
    <2>2. NextConversation(m) => conversation[m].status = "pending"
      BY DEF NextConversation, PendingConversations
    <2>3. new.status # "none" => old.status # "none"
      BY <2>1 DEF RowStep, Arrived
    <2>4. old.status # "none" => new.status # "none"
      BY <2>1 DEF RowStep
    <2>5. Arrived(m)'
      BY <1>1, <2>1, <2>2, <2>3, <2>4 DEF RowStep, PlaceStep, Arrived
    <2>6. LeftAlone(m)'
      BY <2>1, <2>2 DEF RowStep, PlaceStep, LeftAlone
    <2>7. Delivered(m)'
      BY <2>1 DEF RowStep, PlaceStep, Delivered
    <2> QED
      BY <2>5, <2>6, <2>7
  <1>3. ASSUME NEW m \in Conversations, NEW n \in Conversations, Taken(m)', Waiting(n)'
        PROVE  Older(m, n)'
    <2>1. RowStep(m) /\ PlaceStep(m) /\ RowStep(n) /\ PlaceStep(n)
      OBVIOUS
    <2>2. Taken(m) \/ (NextConversation(m) /\ ~InHand)
      BY <1>3, <2>1 DEF Taken, RowStep, PlaceStep
    <2>3. Waiting(n)
      BY <1>3, <2>1 DEF Waiting, Untouched, RowStep, PlaceStep
    <2>4. CASE Taken(m)
      <3>1. Older(m, n)
        BY <2>3, <2>4 DEF MInv, OldestTaken
      <3> QED
        BY <2>1, <3>1 DEF Older, RowStep
    <2>5. CASE NextConversation(m) /\ ~InHand
      <3>1. m \in PendingConversations /\ n \in PendingConversations
        BY <2>3, <2>5 DEF Waiting, Held, PendingConversations, NextConversation
      <3>2. MessageBefore(m, n)
        BY <2>5, <3>1 DEF NextConversation
      <3>3. conversation[m].kind \in ConversationKind
        BY <3>1, QueuesAssumption DEF MInv, Arrived, PendingConversations
      <3>4. conversation[m].kind.priority \in Nat
        BY <3>3 DEF ConversationKind
      <3>5. Older(m, n)
        BY <3>2, <3>4 DEF MessageBefore, Older
      <3> QED
        BY <2>1, <3>5 DEF Older, RowStep
    <2> QED
      BY <2>2, <2>4, <2>5
  <1> QED
    BY <1>2, <1>3 DEF MInv, OldestTaken

\* Nothing is written to the messages, and none is taken up.
LEMMA QuietKeeps ==
    ASSUME IInv, MInv, UNCHANGED conversation, now' \in Nat, now <= now',
           \A m \in Conversations : PlaceStep(m)
    PROVE  MInv'
  <1>1. \A m \in Conversations : RowStep(m)
    BY DEF RowStep
  <1> QED
    BY <1>1, MessageStepKeeps

LEMMA TimeStands ==
    ASSUME IInv, UNCHANGED now
    PROVE  now' \in Nat /\ now <= now'
  BY QueuesAssumption DEF IInv, TypeOK, QueuesTypeOK

\* The row in hand is let go of.
LEMMA ReleasedPlace ==
    ASSUME Release, shown' = shown \/ (shown' = shown \cup {item} /\ InHand)
    PROVE  \A m : PlaceStep(m)
  BY DEF Release, PlaceStep, Chosen, Held, Typed, InHand

\* The row in hand is let go of, and written if it is a message's.
LEMMA MessageReleased ==
    ASSUME IInv, MInv, InHand, ~IsControl, Release, NEW row, WriteConversation(row),
           UNCHANGED <<now, shown>>,
           SameMessage(conversation[item[2]], row),
           \/ row.status = conversation[item[2]].status
           \/ conversation[item[2]].status = "running" /\ row.status = "pending"
           \/ row.status = "delivered" /\ item \in shown
    PROVE  MInv'
  <1> DEFINE x == item[2]
  <1>1. x \in Conversations /\ item = <<"conversation", x>>
    BY HeldItem DEF InHand
  <1>2. conversation' = [conversation EXCEPT ![x] = row]
    BY DEF WriteConversation
  <1> HIDE DEF x
  <1>3. ASSUME NEW m \in Conversations
        PROVE  RowStep(m)
    <2>1. CASE m = x
      <3>1. conversation'[m] = row
        BY <1>1, <1>2, <2>1, Facts
      <3>2. Held(m) /\ (item \in shown => Typed(m))
        BY <1>1, <2>1 DEF Held, Typed
      <3> QED
        BY <2>1, <3>1, <3>2 DEF RowStep, SameMessage, x
    <2>2. CASE m # x
      BY <1>2, <2>2, Facts DEF RowStep
    <2> QED
      BY <2>1, <2>2
  <1>4. \A m \in Conversations : PlaceStep(m)
    BY ReleasedPlace
  <1> QED
    BY <1>3, <1>4, TimeStands, MessageStepKeeps

LEMMA PutBackKeepsMessages ==
    ASSUME IInv, MInv, InHand, PutBack, UNCHANGED <<now, shown>>
    PROVE  MInv'
  <1>1. CASE IsControl
    BY <1>1, ReleasedPlace, TimeStands, QuietKeeps DEF PutBack, WriteControl
  <1>2. CASE ~IsControl
    <2>1. item[2] \in Conversations /\ conversation[item[2]] \in ConversationRows
      BY <1>2, HeldItem DEF InHand
    <2> QED
      BY <1>2, <2>1, RequeuedConversationRow, MessageReleased DEF PutBack
  <1> QED
    BY <1>1, <1>2

LEMMA FailedKeepsMessages ==
    ASSUME IInv, MInv, InHand, Failed, UNCHANGED <<now, shown>>
    PROVE  MInv'
  <1>1. CASE IsControl
    BY <1>1, ReleasedPlace, TimeStands, QuietKeeps DEF Failed, WriteControl
  <1>2. CASE ~IsControl
    BY <1>2, PutBackKeepsMessages DEF Failed, PutBack
  <1> QED
    BY <1>1, <1>2

LEMMA SubmittedKeepsMessages ==
    ASSUME IInv, MInv, Submitted
    PROVE  MInv'
  <1>1. /\ pc = "verify" /\ item \in shown /\ Release /\ UNCHANGED <<now, shown>> /\ InHand
    BY DEF IInv, PlaceOK, Submitted, InHand
  <1>2. CASE IsControl
    BY <1>1, <1>2, ReleasedPlace, TimeStands, QuietKeeps DEF Submitted, WriteControl
  <1>3. CASE ~IsControl
    <2>1. item[2] \in Conversations /\ conversation[item[2]] \in ConversationRows
      BY <1>1, <1>3, HeldItem
    <2>2. LET row == [conversation[item[2]] EXCEPT !.status = "delivered"]
          IN  SameMessage(conversation[item[2]], row) /\ row.status = "delivered"
      BY <2>1, ConversationRow DEF ConversationStatus
    <2> QED
      BY <1>1, <1>3, <2>2, MessageReleased DEF Submitted
  <1> QED
    BY <1>2, <1>3

LEMMA ChoiceKeepsMessages ==
    ASSUME IInv, MInv, ChooseControl \/ ChooseConversation
    PROVE  MInv'
  <1>1. /\ pc = "choose" /\ pc' = "claim" /\ UNCHANGED <<now, conversation, shown>>
        /\ \/ \E c \in Controls : item' = <<"control", c>>
           \/ \E m \in Conversations : NextConversation(m) /\ item' = <<"conversation", m>>
    BY DEF ChooseControl, ChooseConversation
  <1>2. \A m \in Conversations : PlaceStep(m)
    BY <1>1 DEF PlaceStep, Chosen, Held, Typed, InHand
  <1> QED
    BY <1>1, <1>2, TimeStands, QuietKeeps

LEMMA ClaimKeepsMessages ==
    ASSUME IInv, MInv, Claim
    PROVE  MInv'
  <1> DEFINE x == item[2]
  <1>1. pc = "claim" /\ UNCHANGED <<now, shown>>
    BY DEF Claim
  <1>2. CASE IsControl /\ pc' = "gate" /\ item' = item /\ UNCHANGED conversation
    <2>1. \A m \in Conversations : PlaceStep(m)
      BY <1>1, <1>2 DEF PlaceStep, Chosen, Held, Typed, InHand, IsControl
    <2> QED
      BY <1>1, <1>2, <2>1, TimeStands, QuietKeeps
  <1>3. CASE ~IsControl /\ conversation[x].status = "pending" /\ pc' = "gate" /\ item' = item
             /\ WriteConversation([conversation[x] EXCEPT !.status = "running"])
    <2> DEFINE row == [conversation[x] EXCEPT !.status = "running"]
    <2>1. x \in Conversations /\ item = <<"conversation", x>> /\ conversation[x] \in ConversationRows
      BY <1>1, <1>3, HeldItem
    <2>2. SameMessage(conversation[x], row) /\ row.status = "running"
      BY <2>1, ConversationRow DEF ConversationStatus
    <2>3. conversation' = [conversation EXCEPT ![x] = row]
      BY <1>3 DEF WriteConversation
    <2>4. conversation[x].status = "pending"
      BY <1>3
    <2> HIDE DEF x, row
    <2>5. ASSUME NEW m \in Conversations
          PROVE  RowStep(m) /\ PlaceStep(m)
      <3>1. CASE m = x
        <4>1. conversation'[m] = row /\ Chosen(m)
          BY <1>1, <2>1, <2>3, <3>1, Facts DEF Chosen
        <4>2. RowStep(m)
          BY <2>2, <2>4, <3>1, <4>1 DEF RowStep, SameMessage
        <4>3. PlaceStep(m)
          BY <1>1, <1>3, <2>4, <3>1, <4>1 DEF PlaceStep, Chosen, Held, Typed, InHand
        <4> QED
          BY <4>2, <4>3
      <3>2. CASE m # x
        <4>1. RowStep(m)
          BY <2>3, <3>2, Facts DEF RowStep
        <4>2. PlaceStep(m)
          BY <1>1, <1>3, <2>1, <3>2 DEF PlaceStep, Chosen, Held, Typed
        <4> QED
          BY <4>1, <4>2
      <3> QED
        BY <3>1, <3>2
    <2> QED
      BY <1>1, <2>5, TimeStands, MessageStepKeeps
  <1>4. CASE Release /\ UNCHANGED <<control, conversation>>
    BY <1>1, <1>4, ReleasedPlace, TimeStands, QuietKeeps
  <1> QED
    BY <1>2, <1>3, <1>4 DEF Claim, WriteControl


\* A message that comes in later is no older than one that was taken.
LEMMA InsertKeepsMessages ==
    ASSUME IInv, MInv, NEW kind \in ConversationKinds, InsertConversation(kind),
           UNCHANGED dispatcherVars
    PROVE  MInv'
  <1>1. PICK x \in Conversations, status \in StoredAs(kind.entry) :
          /\ conversation[x].status = "none"
          /\ conversation' = [conversation EXCEPT ![x] = StoredRow(kind, status)]
    BY DEF InsertConversation
  <1>2. now' = now /\ UNCHANGED <<pc, item, shown>>
    BY DEF InsertConversation, dispatcherVars
  <1>3. now \in Nat /\ status \in {"pending", "delivered"}
    BY QueuesAssumption, WrittenStatus DEF IInv, TypeOK, QueuesTypeOK
  <1> DEFINE new == StoredRow(kind, status)
  <1>4. /\ new.kind = kind /\ new.status = status /\ new.at = now
        /\ (new.owed <=> kind.entry # "plain") /\ (new.told <=> status = "delivered")
    BY <1>3, StoredMessage
  <1>5. conversation'[x] = new /\ \A n \in Conversations \ {x} : conversation'[n] = conversation[n]
    BY <1>1, Facts
  <1> HIDE DEF new
  <1>6. \A m : /\ Chosen(m)' <=> Chosen(m)
               /\ Held(m)' <=> Held(m)
               /\ Typed(m)' <=> Typed(m)
    BY <1>2 DEF Chosen, Held, Typed, InHand
  <1>7. ~Chosen(x) /\ ~Held(x) /\ ~Typed(x)
    BY <1>1 DEF MInv, Arrived
  <1>8. Arrived(x)' /\ Delivered(x)'
    BY <1>2, <1>3, <1>4, <1>5, <1>6, <1>7 DEF Arrived, Delivered
  <1>9. LeftAlone(x)'
    <2>1. kind.entry \in Entries
      BY QueuesAssumption DEF ConversationKind
    <2>2. kind.entry \notin {"plain", "task"} => status = "delivered"
      BY <1>1, <2>1, Zenon DEF StoredAs, Entries
    <2> QED
      BY <1>4, <1>5, <1>6, <1>7, <2>2 DEF LeftAlone
  <1>10. ASSUME NEW m \in Conversations \ {x}
         PROVE  Arrived(m)' /\ LeftAlone(m)' /\ Delivered(m)'
    BY <1>2, <1>5, <1>6 DEF MInv, Arrived, LeftAlone, Delivered
  <1>11. ASSUME NEW m \in Conversations, NEW n \in Conversations, Taken(m)', Waiting(n)'
         PROVE  Older(m, n)'
    <2>1. m # x
      BY <1>3, <1>4, <1>5, <1>6, <1>7, <1>11 DEF Taken
    <2>2. Taken(m) /\ conversation'[m] = conversation[m]
      BY <1>5, <1>6, <1>11, <2>1 DEF Taken
    <2>3. CASE n = x
      <3>1. conversation[m].at <= now
        BY <2>2 DEF MInv, Arrived, Taken
      <3> QED
        BY <1>4, <1>5, <2>2, <2>3, <3>1 DEF Older
    <2>4. CASE n # x
      <3>1. Waiting(n) /\ conversation'[n] = conversation[n]
        BY <1>5, <1>6, <1>11, <2>4 DEF Waiting, Untouched
      <3> QED
        BY <2>2, <3>1 DEF MInv, OldestTaken, Older
    <2> QED
      BY <2>3, <2>4
  <1> QED
    BY <1>8, <1>9, <1>10, <1>11 DEF MInv, OldestTaken

\* A message that its receiver writes again is waited for no longer.
LEMMA RewriteKeepsMessages ==
    ASSUME IInv, MInv, RewriteConversation, UNCHANGED dispatcherVars
    PROVE  MInv'
  <1>1. PICK x \in Conversations, status \in {"pending", "delivered"} :
          /\ conversation[x].owed
          /\ conversation' = [conversation EXCEPT ![x] = RewrittenRow(conversation[x], status)]
    BY WrittenStatus DEF RewriteConversation
  <1>2. now' = now /\ UNCHANGED <<pc, item, shown>>
    BY DEF RewriteConversation, dispatcherVars
  <1> DEFINE new == RewrittenRow(conversation[x], status)
  <1>3. /\ new.kind = conversation[x].kind /\ new.status = status /\ new.at = conversation[x].at
        /\ ~new.owed /\ (new.told <=> status = "delivered")
    BY Facts, RewrittenMessage
  <1>4. conversation'[x] = new /\ \A n \in Conversations \ {x} : conversation'[n] = conversation[n]
    BY <1>1, Facts
  <1> HIDE DEF new
  <1>5. \A m : /\ Chosen(m)' <=> Chosen(m)
               /\ Held(m)' <=> Held(m)
               /\ Typed(m)' <=> Typed(m)
    BY <1>2 DEF Chosen, Held, Typed, InHand
  <1>6. Arrived(x) /\ LeftAlone(x)
    BY DEF MInv
  <1>7. conversation[x].status # "none"
    BY <1>1, <1>6 DEF Arrived
  <1>8. Arrived(x)' /\ Delivered(x)'
    BY <1>2, <1>3, <1>4, <1>5, <1>6, <1>7 DEF Arrived, Delivered
  <1>9. LeftAlone(x)'
    BY <1>1, <1>3, <1>4, <1>5, <1>6 DEF LeftAlone
  <1>10. ASSUME NEW m \in Conversations \ {x}
         PROVE  Arrived(m)' /\ LeftAlone(m)' /\ Delivered(m)'
    BY <1>2, <1>4, <1>5 DEF MInv, Arrived, LeftAlone, Delivered
  <1>11. ASSUME NEW m \in Conversations, NEW n \in Conversations, Taken(m)', Waiting(n)'
         PROVE  Older(m, n)'
    <2>1. Taken(m)
      BY <1>3, <1>4, <1>5, <1>11 DEF Taken
    <2>2. n # x
      BY <1>1, <1>3, <1>4, <1>6, <1>11 DEF Waiting, Untouched, LeftAlone
    <2>3. Waiting(n)
      BY <1>4, <1>5, <1>11, <2>2 DEF Waiting, Untouched
    <2> QED
      BY <1>3, <1>4, <2>1, <2>2, <2>3 DEF MInv, OldestTaken, Older
  <1> QED
    BY <1>8, <1>9, <1>10, <1>11 DEF MInv, OldestTaken

LEMMA DispatcherKeepsMessages ==
    ASSUME IInv, MInv, DispatcherStep \/ Fault
    PROVE  MInv'
  <1>1. CASE Sweep
    <2>1. \A m : PlaceStep(m)
      BY <1>1 DEF Sweep, PlaceStep, Chosen, Held, Typed, InHand
    <2> QED
      BY <1>1, <2>1, TimeStands, QuietKeeps DEF Sweep
  <1>2. CASE ChooseNothing \/ Fault
    BY <1>2, ReleasedPlace, TimeStands, QuietKeeps DEF ChooseNothing, Fault
  <1>3. CASE GateDefers
    BY <1>3, PutBackKeepsMessages DEF GateDefers, InHand
  <1>4. CASE GatePasses \/ Paste
    <2>1. \A m : PlaceStep(m)
      BY <1>4 DEF GatePasses, Paste, PlaceStep, Chosen, Held, Typed, InHand
    <2> QED
      BY <1>4, <2>1, TimeStands, QuietKeeps DEF GatePasses, Paste
  <1>5. CASE PasteFails \/ VerifyFails
    BY <1>5, FailedKeepsMessages DEF PasteFails, VerifyFails, InHand
  <1>6. CASE AutoAck \/ Keystroke
    <2>1. InHand /\ Release /\ UNCHANGED <<now, conversation>>
          /\ (shown' = shown \/ shown' = shown \cup {item})
      BY <1>6 DEF AutoAck, Keystroke, InHand, WriteControl
    <2> QED
      BY <2>1, ReleasedPlace, TimeStands, QuietKeeps
  <1> QED
    BY <1>1, <1>2, <1>3, <1>4, <1>5, <1>6, ChoiceKeepsMessages, ClaimKeepsMessages,
       SubmittedKeepsMessages DEF DispatcherStep

LEMMA StepKeepsMInv ==
    ASSUME IInv, MInv, [Next]_vars
    PROVE  MInv'
  <1>1. CASE Receive
    <2>1. CASE \E kind \in ControlKinds : InsertControl(kind)
      <3>1. \A m : PlaceStep(m)
        BY <1>1 DEF Receive, dispatcherVars, PlaceStep, Chosen, Held, Typed, InHand
      <3> QED
        BY <2>1, <3>1, TimeStands, QuietKeeps DEF InsertControl
    <2> QED
      BY <1>1, <2>1, InsertKeepsMessages, RewriteKeepsMessages DEF Receive
  <1>2. CASE AgentAcks \/ AgentChanges \/ Sweeps \/ UNCHANGED vars
    <2>1. UNCHANGED <<now, conversation, pc, item, shown>>
      BY <1>2 DEF AgentAcks, AgentChanges, Sweeps, GetControl, dispatcherVars, vars
    <2>2. \A m : PlaceStep(m)
      BY <2>1 DEF PlaceStep, Chosen, Held, Typed, InHand
    <2> QED
      BY <2>1, <2>2, TimeStands, QuietKeeps
  <1>3. CASE Clock
    <2>1. now' = now + 1 /\ UNCHANGED <<conversation, pc, item, shown>>
      BY <1>3 DEF Clock, Tick, dispatcherVars
    <2>2. now' \in Nat /\ now <= now'
      BY <2>1, TimeStands, QueuesAssumption DEF IInv, TypeOK, QueuesTypeOK
    <2>3. \A m : PlaceStep(m)
      BY <2>1 DEF PlaceStep, Chosen, Held, Typed, InHand
    <2> QED
      BY <2>1, <2>2, <2>3, QuietKeeps
  <1> QED
    BY <1>1, <1>2, <1>3, DispatcherKeepsMessages DEF Next

\* A message is delivered because it reached the terminal or because its receiver answered for it,
\* which the dispatcher then never types unless it is an explicit task; and messages of one priority
\* that nobody else wrote come in the order they arrived (c4-receive.js:707, getNextPending,
\* requeueConversation).
THEOREM MessagesComeInTurn == Spec => MessagesInTurn
  <1>1. ASSUME MInv, MInv', [Next]_vars
        PROVE  [OldestFirst /\ MessagesAccounted']_vars
    <2>1. OldestFirst
      BY <1>1 DEF MInv, OldestTaken, Taken, Waiting, Older, OldestFirst
    <2>2. MessagesAccounted'
      BY <1>1 DEF MInv, LeftAlone, Delivered, Typed, MessagesAccounted
    <2> QED
      BY <2>1, <2>2
  <1>2. Init /\ [][Next]_vars => [](IInv /\ MInv)
    <2>1. Init => IInv /\ MInv
      BY InitIInv, InitMInv
    <2>2. IInv /\ MInv /\ [Next]_vars => (IInv /\ MInv)'
      BY StepKeepsIInv, StepKeepsMInv
    <2> QED
      BY <2>1, <2>2, PTL
  <1> QED
    BY <1>1, <1>2, PTL DEF Spec, MessagesInTurn
=============================================================================
