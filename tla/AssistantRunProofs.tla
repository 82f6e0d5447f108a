--------------------------- MODULE AssistantRunProofs ---------------------------
(***************************************************************************)
(* Theorems about AssistantRun, for every set of messages, every bound and *)
(* every schedule of the callers.                                          *)
(***************************************************************************)
EXTENDS AssistantRun, TLAPS, SequenceTheorems

-----------------------------------------------------------------------------
(* Type correctness. *)

LEMMA InitTypeOK == Init => TypeOK
<1> SUFFICES ASSUME Init PROVE TypeOK
    OBVIOUS
<1> USE LedgerAssumption DEF Init, LedgerInit
<1>1. NoReceipt \in ReceiptRows /\ NoRun \in RunRows /\ NoRequest \in RequestRows
    BY DEF NoReceipt, ReceiptRows, NoRun, RunRows, ReplyModes, RunStatus, NoRequest,
           RequestRows, RequestStatus
<1>2. NoConversation \in ConversationRows /\ NoAdmission \in AdmissionRows /\ NoCancel \in CancelRows
    BY DEF NoConversation, ConversationRows, NoAdmission, AdmissionRows, AdmissionStatus,
           AdmissionReasons, TerminalTypes, NoCancel, CancelRows
<1>3. events \in [Requests -> Seq(Events)]
    OBVIOUS
<1>4. /\ outcome \in [Requests -> [kind : OutcomeKinds \cup {"none"}, generation : 0..MaxGeneration]]
      /\ intent \in [Requests -> {"none", "send", "failure_notice"}]
    BY DEF NoOutcome
<1> QED
    BY <1>1, <1>2, <1>3, <1>4 DEF TypeOK, LedgerTypeOK

LEMMA AcceptType == ASSUME TypeOK, NEW c \in Commands, Accept(c), UNCHANGED replyVars
                    PROVE  TypeOK'
<1> USE DEF TypeOK, LedgerTypeOK, replyVars
<1>0. c \in AcceptMessage
    BY LedgerAssumption
<1>1. ASSUME NEW r \in Requests
      PROVE  Recorded(c, r) \in [IdentityKinds -> [Keys -> ReceiptRows]]
    BY <1>0, LedgerAssumption DEF Recorded, AcceptMessage, ReceiptRows, Requests
<1>2. CASE AcceptNew(c)
  <2>1. PICK r \in Requests, n \in 1..MaxRequests :
          /\ run' = [run EXCEPT ![r] =
                [lane |-> c.lane, laneSequence |-> n, priority |-> c.priority,
                 requireIdle |-> c.class # "ordinary", replyMode |-> c.replyMode,
                 generation |-> 1, status |-> "queued"]]
          /\ request' = [request EXCEPT ![r] = [status |-> "queued", session |-> NoSession]]
          /\ conversation' =
                [conversation EXCEPT ![r] = [status |-> "pending", action |-> "queued"]]
          /\ events' = [events EXCEPT ![r] = <<Event("RunAccepted", 1), Event("RunQueued", 1)>>]
          /\ receipts' = Recorded(c, r)
      BY <1>2 DEF AcceptNew
  <2>2. /\ Event("RunAccepted", 1) \in Events
        /\ Event("RunQueued", 1) \in Events
      BY LedgerAssumption DEF Event, Events, EventTypes, Generations
  <2>3. events' \in [Requests -> Seq(Events)]
      BY <2>1, <2>2
  <2>4. run' \in [Requests -> RunRows]
      BY <2>1, <1>0, LedgerAssumption DEF AcceptMessage, RunStatus, RunRows
  <2>5. request' \in [Requests -> RequestRows] /\ conversation' \in [Requests -> ConversationRows]
      BY <2>1 DEF RequestRows, RequestStatus, ConversationRows
  <2> QED
      BY <1>1, <1>2, <2>1, <2>3, <2>4, <2>5 DEF AcceptNew
<1>3. CASE AcceptReplay(c)
    BY <1>1, <1>3 DEF AcceptReplay
<1> QED
    BY <1>2, <1>3 DEF Accept

\* What Append and Closed preserve, for every action that ends a run or extends
\* its chain.
LEMMA AppendType == ASSUME TypeOK, NEW r \in Requests, NEW e \in Events, AppendTo(r, e)
                    PROVE  events' \in [Requests -> Seq(Events)]
<1>1. events[r] \in Seq(Events)
    BY DEF TypeOK, LedgerTypeOK
<1>2. Append(events[r], e) \in Seq(Events)
    BY <1>1
<1>3. events' = [events EXCEPT ![r] = Append(events[r], e)]
    BY DEF AppendTo
<1> QED
    BY <1>2, <1>3 DEF TypeOK, LedgerTypeOK

LEMMA EventType == ASSUME NEW type \in EventTypes, NEW g \in Generations
                   PROVE  Event(type, g) \in Events
    BY LedgerAssumption DEF Event, Events

\* A row keeps its type when its status (and what goes with it) changes.
LEMMA RunRowType == ASSUME NEW x \in RunRows, NEW s \in RunStatus
                    PROVE  [x EXCEPT !.status = s] \in RunRows
    BY DEF RunRows

LEMMA AdmissionRowType ==
    ASSUME NEW x \in AdmissionRows, NEW s \in AdmissionStatus
    PROVE  /\ \A y \in AdmissionReasons : [x EXCEPT !.status = s, !.reason = y] \in AdmissionRows
           /\ \A z \in Sessions : [x EXCEPT !.status = s, !.session = z] \in AdmissionRows
    BY DEF AdmissionRows

LEMMA ConversationType ==
    ASSUME TypeOK, NEW r \in Requests, CancelledConversation(r)
    PROVE  conversation' \in [Requests -> ConversationRows]
<1>1. conversation[r] \in ConversationRows
    BY DEF TypeOK, LedgerTypeOK
<1>2. [conversation[r] EXCEPT !.status = IF @ = "pending" THEN "failed" ELSE @,
                              !.action = "cancelled"] \in ConversationRows
    BY <1>1 DEF ConversationRows
<1> QED
    BY <1>1, <1>2 DEF CancelledConversation, TypeOK, LedgerTypeOK, ConversationRows

LEMMA EndRunType ==
    ASSUME TypeOK, NEW r \in Requests, NEW g \in Generations, NEW type \in TerminalTypes,
           EndRun(r, g, type)
    PROVE  /\ run' \in [Requests -> RunRows]
           /\ request' \in [Requests -> RequestRows]
           /\ events' \in [Requests -> Seq(Events)]
           /\ admission' \in [AdmissionIds -> AdmissionRows]
<1>1. TerminalStatus[type] \in RunStatus /\ TerminalStatus[type] \in RequestStatus
    BY DEF TerminalStatus, TerminalTypes, RunStatus, RequestStatus, Finished
<1>2. events' \in [Requests -> Seq(Events)]
    BY EventType, AppendType DEF EndRun, EventTypes, TerminalTypes
<1>3. run' \in [Requests -> RunRows]
    BY <1>1, RunRowType DEF EndRun, TypeOK, LedgerTypeOK
<1>4. request' \in [Requests -> RequestRows]
  <2>1. [request[r] EXCEPT !.status = TerminalStatus[type]] \in RequestRows
      BY <1>1 DEF RequestRows, TypeOK, LedgerTypeOK
  <2> QED
      BY <2>1 DEF EndRun, TypeOK, LedgerTypeOK
<1>5. admission' \in [AdmissionIds -> AdmissionRows]
  <2>1. "completed" \in AdmissionStatus /\ type \in AdmissionReasons
      BY DEF AdmissionStatus, AdmissionReasons
  <2>2. \A a \in AdmissionIds :
            [admission[a] EXCEPT !.status = "completed", !.reason = type] \in AdmissionRows
      BY <2>1, AdmissionRowType DEF TypeOK, LedgerTypeOK
  <2> QED
      BY <2>2 DEF EndRun, Closed, TypeOK, LedgerTypeOK
<1> QED
    BY <1>2, <1>3, <1>4, <1>5

LEMMA CancelRowType ==
    ASSUME TypeOK, NEW k \in CancelKeys, NEW r \in Requests, NEW g \in Generations,
           NEW s \in {"requested", "confirmed"}, NewCancel(k, r, g, s)
    PROVE  cancels' \in [CancelKeys -> CancelRows]
<1>1. [request |-> r, generation |-> g, status |-> s] \in CancelRows
    BY LedgerAssumption DEF CancelRows, Requests, Generations
<1> QED
    BY <1>1 DEF NewCancel, TypeOK, LedgerTypeOK

LEMMA LedgerStepType ==
    ASSUME TypeOK, LedgerNext, UNCHANGED replyVars
    PROVE  TypeOK'
<1> USE DEF replyVars
<1>0. "RunCancelled" \in TerminalTypes /\ {"RunCompleted", "RunFailed"} \subseteq TerminalTypes
    BY DEF TerminalTypes
<1>1. ASSUME NEW c \in Commands, Accept(c) PROVE TypeOK'
    BY <1>1, AcceptType
<1>2. ASSUME NEW r \in Requests, NEW g \in Generations, NEW type \in OutputTypes,
             NEW n \in 1..MaxOrdinal, NEW cause \in 1..Len(events[r]),
             AppendOutput(r, g, type, n, cause)
      PROVE  TypeOK'
  <2>1. [Event(type, g) EXCEPT !.ordinal = n] \in Events
      BY LedgerAssumption DEF Event, Events, OutputTypes, EventTypes
  <2>2. events' \in [Requests -> Seq(Events)]
      BY <1>2, <2>1, AppendType DEF AppendOutput
  <2> QED
      BY <1>2, <2>2 DEF AppendOutput, TypeOK, LedgerTypeOK
<1>3. ASSUME NEW r \in Requests, NEW g \in Generations, NEW type \in {"RunCompleted", "RunFailed"},
             NEW cause \in 1..Len(events[r]), AppendTerminal(r, g, type, cause)
      PROVE  TypeOK'
    BY <1>0, <1>3, EndRunType DEF AppendTerminal, TypeOK, LedgerTypeOK
<1>4. ASSUME NEW r \in Requests, NEW g \in Generations, NEW k \in CancelKeys, Cancel(k, r, g)
      PROVE  TypeOK'
  <2>1. CASE CancelQueued(k, r, g)
      BY <1>0, <2>1, EndRunType, ConversationType, CancelRowType
         DEF CancelQueued, TypeOK, LedgerTypeOK
  <2>2. CASE CancelRunning(k, r, g)
    <3>1. run' \in [Requests -> RunRows]
        BY <2>2, RunRowType DEF CancelRunning, TypeOK, LedgerTypeOK, RunStatus
    <3> QED
        BY <2>2, <3>1, CancelRowType DEF CancelRunning, TypeOK, LedgerTypeOK
  <2> QED
      BY <1>4, <2>1, <2>2 DEF Cancel
<1>5. ASSUME NEW r \in Requests, NEW g \in Generations, ConfirmCancellation(r, g)
      PROVE  TypeOK'
  <2>1. \A k \in CancelKeys : [cancels[k] EXCEPT !.status = "confirmed"] \in CancelRows
      BY DEF TypeOK, LedgerTypeOK, CancelRows
  <2>2. cancels' \in [CancelKeys -> CancelRows]
      BY <1>5, <2>1 DEF ConfirmCancellation, TypeOK, LedgerTypeOK
  <2> QED
      BY <1>0, <1>5, <2>2, EndRunType, ConversationType
         DEF ConfirmCancellation, TypeOK, LedgerTypeOK
<1> QED
    BY <1>1, <1>2, <1>3, <1>4, <1>5 DEF LedgerNext

LEMMA QueueStepType ==
    ASSUME TypeOK, QueueNext, UNCHANGED replyVars
    PROVE  TypeOK'
<1> USE DEF replyVars
<1>1. ASSUME NEW runtimeIdle \in BOOLEAN, ClaimNext(runtimeIdle) PROVE TypeOK'
  <2>1. PICK r \in Requests, a \in AdmissionIds : admission' = [admission EXCEPT ![a] =
              [NoAdmission EXCEPT !.request = r, !.generation = run[r].generation,
                                  !.status = "submitted"]]
      BY <1>1 DEF ClaimNext
  <2>2. [NoAdmission EXCEPT !.request = r, !.generation = run[r].generation,
                            !.status = "submitted"] \in AdmissionRows
    <3>1. run[r].generation \in 0..MaxGeneration /\ r \in 0..MaxRequests
        BY LedgerAssumption DEF TypeOK, LedgerTypeOK, RunRows, Requests
    <3> QED
        BY <3>1 DEF NoAdmission, AdmissionRows, AdmissionStatus, AdmissionReasons
  <2> QED
      BY <1>1, <2>1, <2>2 DEF ClaimNext, TypeOK, LedgerTypeOK
<1>2. ASSUME NEW a \in AdmissionIds, NEW r \in Requests, NEW g \in Generations,
             NEW s \in Sessions, ConfirmStarted(a, r, g, s)
      PROVE  TypeOK'
  <2>1. [Event("RunStarted", g) EXCEPT !.session = s] \in Events
      BY LedgerAssumption DEF Event, Events, EventTypes
  <2>2. events' \in [Requests -> Seq(Events)]
      BY <1>2, <2>1, AppendType DEF ConfirmStarted
  <2>3. run' \in [Requests -> RunRows]
      BY <1>2, RunRowType DEF ConfirmStarted, TypeOK, LedgerTypeOK, RunStatus
  <2>4. admission' \in [AdmissionIds -> AdmissionRows]
      BY <1>2, AdmissionRowType DEF ConfirmStarted, TypeOK, LedgerTypeOK, AdmissionStatus
  <2>5. request' \in [Requests -> RequestRows] /\ conversation' \in [Requests -> ConversationRows]
      BY <1>2 DEF ConfirmStarted, TypeOK, LedgerTypeOK, RequestRows, RequestStatus,
                  ConversationRows
  <2> QED
      BY <1>2, <2>2, <2>3, <2>4, <2>5 DEF ConfirmStarted, TypeOK, LedgerTypeOK
<1>3. ASSUME NEW a \in AdmissionIds, NEW r \in Requests, NEW g \in Generations,
             ReleaseSubmitted(a, r, g)
      PROVE  TypeOK'
  <2>1. admission' \in [AdmissionIds -> AdmissionRows]
      BY <1>3, AdmissionRowType
         DEF ReleaseSubmitted, TypeOK, LedgerTypeOK, AdmissionStatus, AdmissionReasons
  <2> QED
      BY <1>3, <2>1 DEF ReleaseSubmitted, TypeOK, LedgerTypeOK
<1>4. ASSUME RecoverStale PROVE TypeOK'
  <2>1. PICK a \in AdmissionIds, r \in Requests : RecoverStale!(a, r)
      BY <1>4 DEF RecoverStale
  <2>2. [Event("RunQueued", run[r].generation + 1) EXCEPT !.recovered = admission[a].status]
            \in Events
      BY <2>1, LedgerAssumption
         DEF Event, Events, EventTypes, Occupying, TypeOK, LedgerTypeOK, RunRows, Generations
  <2>3. events' \in [Requests -> Seq(Events)]
      BY <2>1, <2>2, AppendType
  <2>4. run' \in [Requests -> RunRows]
    <3>0. run[r] \in RunRows /\ run[r].generation + 1 \in 0..MaxGeneration
        BY <2>1, LedgerAssumption DEF TypeOK, LedgerTypeOK, RunRows
    <3>1. [run[r] EXCEPT !.status = "queued", !.generation = @ + 1] \in RunRows
        BY <3>0 DEF RunRows, RunStatus
    <3>2. run' = [run EXCEPT ![r] = [run[r] EXCEPT !.status = "queued", !.generation = @ + 1]]
        BY <2>1 DEF TypeOK, LedgerTypeOK
    <3> QED
        BY <3>1, <3>2 DEF TypeOK, LedgerTypeOK
  <2>5. admission' \in [AdmissionIds -> AdmissionRows]
      BY <2>1, AdmissionRowType DEF TypeOK, LedgerTypeOK, AdmissionStatus, AdmissionReasons
  <2>6. request' \in [Requests -> RequestRows] /\ conversation' \in [Requests -> ConversationRows]
      BY <2>1 DEF TypeOK, LedgerTypeOK, RequestRows, RequestStatus, ConversationRows
  <2> QED
      BY <2>1, <2>3, <2>4, <2>5, <2>6 DEF TypeOK, LedgerTypeOK
<1> QED
    BY <1>1, <1>2, <1>3, <1>4 DEF QueueNext

LEMMA CommitType ==
    ASSUME TypeOK, NEW r \in Requests, NEW g \in Generations, NEW kind \in OutcomeKinds,
           NEW cause \in 1..Len(events[r]), CommitOutcome(r, g, kind, cause)
    PROVE  TypeOK'
<1>1. TerminalOf(kind) \in TerminalTypes
    BY DEF TerminalOf, TerminalTypes
<1>2. Disposition(kind) \in {"none", "send", "failure_notice"}
    BY DEF Disposition, OutcomeKinds
<1>3. [kind |-> kind, generation |-> g] \in [kind : OutcomeKinds \cup {"none"},
                                             generation : 0..MaxGeneration]
    BY LedgerAssumption DEF Generations
<1> QED
    BY <1>1, <1>2, <1>3, EndRunType DEF CommitOutcome, TypeOK, LedgerTypeOK

\* Every reachable state is well typed: in particular the columns only ever hold
\* the values their CHECK constraints in c4-db.js allow, and counters stay
\* within their bounds.
THEOREM TypeCorrect == Spec => []TypeOK
<1>1. TypeOK /\ [Next]_vars => TypeOK'
  <2> SUFFICES ASSUME TypeOK, [Next]_vars PROVE TypeOK'
      OBVIOUS
  <2>1. CASE Next
      BY <2>1, LedgerStepType, QueueStepType, CommitType DEF Next
  <2>2. CASE UNCHANGED vars
      BY <2>2 DEF vars, TypeOK, LedgerTypeOK
  <2> QED
      BY <2>1, <2>2
<1> QED
    BY InitTypeOK, <1>1, PTL DEF Spec

-----------------------------------------------------------------------------
(* One owner of the runtime.  OneOwner is inductive: each part carries what   *)
(* the others need of the one occupying admission and its run.                *)

\* The steps that write neither a run's status or generation nor an admission.
LEMMA OwnerFrame ==
    ASSUME TypeOK, OneOwner, admission' = admission,
           \A r \in Requests : run[r].status \in Unfinished =>
              (run'[r].generation = run[r].generation /\ run'[r].status = run[r].status),
           \A r \in Requests : run'[r].status \in {"active", "cancel_requested"} =>
              run[r].status \in {"active", "cancel_requested"}
    PROVE  OneOwner'
<1>1. SingleOwner'
    BY DEF OneOwner, SingleOwner
<1>2. OwnerIsCurrent'
  <2> SUFFICES ASSUME NEW a \in AdmissionIds, admission[a].status \in Occupying
               PROVE  \E q \in Requests :
                        /\ admission[a].request = q
                        /\ admission[a].generation = run'[q].generation
                        /\ IF admission[a].status = "submitted"
                           THEN run'[q].status = "queued"
                           ELSE run'[q].status \in {"active", "cancel_requested"}
      BY DEF OwnerIsCurrent
  <2>1. PICK q \in Requests :
          /\ admission[a].request = q
          /\ admission[a].generation = run[q].generation
          /\ IF admission[a].status = "submitted"
             THEN run[q].status = "queued"
             ELSE run[q].status \in {"active", "cancel_requested"}
      BY DEF OneOwner, OwnerIsCurrent
  <2>2. run[q].status \in Unfinished
      BY <2>1 DEF Unfinished
  <2> QED
      BY <2>1, <2>2
<1>3. RunningIsOwner'
    BY DEF OneOwner, RunningIsOwner
<1> QED
    BY <1>1, <1>2, <1>3 DEF OneOwner

\* A run that ends gives up the admission of its generation.
LEMMA OwnerEnd ==
    ASSUME TypeOK, OneOwner, NEW r \in Requests, NEW g \in Generations,
           NEW type \in TerminalTypes, run[r].generation = g, EndRun(r, g, type)
    PROVE  OneOwner'
<1>1. TerminalStatus[type] \in Finished
    BY DEF TerminalStatus, TerminalTypes, Finished
<1>2. /\ \A q \in Requests \ {r} : run'[q] = run[q]
      /\ run'[r].status \in Finished
    BY <1>1 DEF EndRun, TypeOK, LedgerTypeOK, RunRows
<1>3. \A a \in AdmissionIds :
        /\ admission'[a].status \in Occupying =>
              admission'[a] = admission[a] /\ a \notin AdmissionsOf(r, g)
        /\ a \notin AdmissionsOf(r, g) => admission'[a] = admission[a]
    BY DEF EndRun, Closed, TypeOK, LedgerTypeOK, AdmissionRows, Occupying
<1>4. SingleOwner'
    BY <1>3 DEF OneOwner, SingleOwner
<1>5. OwnerIsCurrent'
  <2> SUFFICES ASSUME NEW a \in AdmissionIds, admission'[a].status \in Occupying
               PROVE  \E q \in Requests :
                        /\ admission'[a].request = q
                        /\ admission'[a].generation = run'[q].generation
                        /\ IF admission'[a].status = "submitted"
                           THEN run'[q].status = "queued"
                           ELSE run'[q].status \in {"active", "cancel_requested"}
      BY DEF OwnerIsCurrent
  <2>1. admission'[a] = admission[a] /\ a \notin AdmissionsOf(r, g)
      BY <1>3
  <2>2. PICK q \in Requests :
          /\ admission[a].request = q
          /\ admission[a].generation = run[q].generation
          /\ IF admission[a].status = "submitted"
             THEN run[q].status = "queued"
             ELSE run[q].status \in {"active", "cancel_requested"}
      BY <2>1 DEF OneOwner, OwnerIsCurrent
  <2>3. q # r
      BY <2>1, <2>2 DEF AdmissionsOf
  <2> QED
      BY <1>2, <2>1, <2>2, <2>3
<1>6. RunningIsOwner'
  <2> SUFFICES ASSUME NEW q \in Requests, run'[q].status \in {"active", "cancel_requested"}
               PROVE  \E a \in AdmissionIds :
                        admission'[a].request = q /\ admission'[a].status = "started"
      BY DEF RunningIsOwner
  <2>1. q # r
      BY <1>2 DEF Finished
  <2>2. PICK a \in AdmissionIds : admission[a].request = q /\ admission[a].status = "started"
      BY <1>2, <2>1 DEF OneOwner, RunningIsOwner
  <2>3. a \notin AdmissionsOf(r, g)
      BY <2>1, <2>2 DEF AdmissionsOf
  <2> QED
      BY <1>3, <2>2, <2>3
<1> QED
    BY <1>4, <1>5, <1>6 DEF OneOwner

LEMMA OwnerLedgerStep ==
    ASSUME TypeOK, OneOwner, LedgerNext
    PROVE  OneOwner'
<1>0. "RunCancelled" \in TerminalTypes /\ {"RunCompleted", "RunFailed"} \subseteq TerminalTypes
    BY DEF TerminalTypes
<1>1. ASSUME NEW c \in Commands, Accept(c) PROVE OneOwner'
  <2>1. CASE AcceptNew(c)
    <3>1. \A r \in Requests :
            run'[r] = run[r] \/ (run[r].status = "none" /\ run'[r].status = "queued")
        BY <2>1 DEF AcceptNew, Fresh, TypeOK, LedgerTypeOK
    <3> QED
        BY <2>1, <3>1, OwnerFrame DEF AcceptNew, Unfinished
  <2>2. CASE AcceptReplay(c)
      BY <2>2, OwnerFrame DEF AcceptReplay
  <2> QED
      BY <1>1, <2>1, <2>2 DEF Accept
<1>2. ASSUME NEW r \in Requests, NEW g \in Generations, NEW type \in OutputTypes,
             NEW n \in 1..MaxOrdinal, NEW cause \in 1..Len(events[r]),
             AppendOutput(r, g, type, n, cause)
      PROVE  OneOwner'
    BY <1>2, OwnerFrame DEF AppendOutput
<1>3. ASSUME NEW r \in Requests, NEW g \in Generations, NEW type \in {"RunCompleted", "RunFailed"},
             NEW cause \in 1..Len(events[r]), AppendTerminal(r, g, type, cause)
      PROVE  OneOwner'
  <2>1. run[r].generation = g
      BY <1>3 DEF AppendTerminal, MayAppend, Event
  <2> QED
      BY <1>0, <1>3, <2>1, OwnerEnd DEF AppendTerminal
<1>4. ASSUME NEW r \in Requests, NEW g \in Generations, NEW k \in CancelKeys, Cancel(k, r, g)
      PROVE  OneOwner'
  <2>1. CASE CancelQueued(k, r, g)
      BY <1>0, <2>1, OwnerEnd DEF CancelQueued, NewCancel
  <2>2. CASE CancelRunning(k, r, g)
    <3>1. \A q \in Requests :
            /\ run'[q].generation = run[q].generation
            /\ q # r => run'[q].status = run[q].status
        BY <2>2 DEF CancelRunning, TypeOK, LedgerTypeOK, RunRows
    <3>2. /\ run[r].status \in {"active", "cancel_requested"}
          /\ run'[r].status = "cancel_requested"
        BY <2>2 DEF CancelRunning, TypeOK, LedgerTypeOK, RunRows
    <3>3. admission' = admission
        BY <2>2 DEF CancelRunning
    <3> QED
        BY <3>1, <3>2, <3>3 DEF OneOwner, SingleOwner, OwnerIsCurrent, RunningIsOwner
  <2> QED
      BY <1>4, <2>1, <2>2 DEF Cancel
<1>5. ASSUME NEW r \in Requests, NEW g \in Generations, ConfirmCancellation(r, g)
      PROVE  OneOwner'
    BY <1>0, <1>5, OwnerEnd DEF ConfirmCancellation
<1> QED
    BY <1>1, <1>2, <1>3, <1>4, <1>5 DEF LedgerNext

LEMMA OwnerQueueStep ==
    ASSUME TypeOK, OneOwner, QueueNext
    PROVE  OneOwner'
<1>1. ASSUME NEW runtimeIdle \in BOOLEAN, ClaimNext(runtimeIdle) PROVE OneOwner'
  <2>1. PICK r \in Requests, a \in AdmissionIds :
          /\ run[r].status = "queued"
          /\ admission' = [admission EXCEPT ![a] =
                [NoAdmission EXCEPT !.request = r, !.generation = run[r].generation,
                                    !.status = "submitted"]]
      BY <1>1 DEF ClaimNext, Candidate, Eligible
  <2>2. /\ \A b \in AdmissionIds \ {a} : admission'[b] = admission[b]
        /\ admission'[a].request = r
        /\ admission'[a].generation = run[r].generation
        /\ admission'[a].status = "submitted"
      BY <2>1 DEF TypeOK, LedgerTypeOK, NoAdmission
  <2>3. \A b \in AdmissionIds : admission[b].status \notin Occupying
      BY <1>1 DEF ClaimNext, Occupied
  <2>4. run' = run
      BY <1>1 DEF ClaimNext
  <2>5. \A q \in Requests : run[q].status \notin {"active", "cancel_requested"}
      BY <2>3 DEF OneOwner, RunningIsOwner, Occupying
  <2>6. SingleOwner'
      BY <2>2, <2>3 DEF SingleOwner
  <2>7. OwnerIsCurrent'
      BY <2>1, <2>2, <2>3, <2>4 DEF OwnerIsCurrent
  <2>8. RunningIsOwner'
      BY <2>4, <2>5 DEF RunningIsOwner
  <2> QED
      BY <2>6, <2>7, <2>8 DEF OneOwner
<1>2. ASSUME NEW a \in AdmissionIds, NEW r \in Requests, NEW g \in Generations,
             NEW s \in Sessions, ConfirmStarted(a, r, g, s)
      PROVE  OneOwner'
  <2>1. /\ \A q \in Requests \ {r} : run'[q] = run[q]
        /\ run'[r].status = "active" /\ run'[r].generation = run[r].generation
      BY <1>2 DEF ConfirmStarted, TypeOK, LedgerTypeOK, RunRows
  <2>2. /\ \A b \in AdmissionIds \ {a} : admission'[b] = admission[b]
        /\ admission'[a].status = "started"
        /\ admission'[a].request = r /\ admission'[a].generation = run[r].generation
      BY <1>2 DEF ConfirmStarted, Fenced, AdmissionsOf, TypeOK, LedgerTypeOK, AdmissionRows
  <2>3. \A b \in AdmissionIds \ {a} : admission[b].status \notin Occupying
      BY <1>2 DEF ConfirmStarted, OneOwner, SingleOwner, Occupying
  <2>4. \A q \in Requests : run[q].status \notin {"active", "cancel_requested"}
      BY <1>2, <2>3 DEF ConfirmStarted, OneOwner, RunningIsOwner, Occupying
  <2>5. SingleOwner'
      BY <2>2, <2>3 DEF SingleOwner
  <2>6. OwnerIsCurrent'
      BY <2>1, <2>2, <2>3 DEF OwnerIsCurrent
  <2>7. RunningIsOwner'
      BY <2>1, <2>2, <2>4 DEF RunningIsOwner
  <2> QED
      BY <2>5, <2>6, <2>7 DEF OneOwner
<1>3. ASSUME NEW a \in AdmissionIds, NEW r \in Requests, NEW g \in Generations,
             ReleaseSubmitted(a, r, g)
      PROVE  OneOwner'
  <2>1. /\ \A b \in AdmissionIds \ {a} : admission'[b] = admission[b]
        /\ admission'[a].status = "released"
        /\ admission[a].status = "submitted"
        /\ run' = run
      BY <1>3 DEF ReleaseSubmitted, TypeOK, LedgerTypeOK, AdmissionRows
  <2> QED
      BY <2>1 DEF OneOwner, SingleOwner, OwnerIsCurrent, RunningIsOwner, Occupying
<1>4. ASSUME RecoverStale PROVE OneOwner'
  <2>1. PICK a \in AdmissionIds, r \in Requests : RecoverStale!(a, r)
      BY <1>4 DEF RecoverStale
  <2>2. /\ \A b \in AdmissionIds \ {a} : admission'[b] = admission[b]
        /\ admission'[a].status = "released"
        /\ admission[a].request = r
      BY <2>1 DEF TypeOK, LedgerTypeOK, AdmissionRows
  <2>3. /\ \A q \in Requests \ {r} : run'[q] = run[q]
        /\ run'[r].status = "queued"
      BY <2>1 DEF TypeOK, LedgerTypeOK, RunRows
  <2>4. \A b \in AdmissionIds : admission'[b].status \notin Occupying
      BY <2>1, <2>2 DEF OneOwner, SingleOwner, Occupying
  <2>5. \A q \in Requests \ {r} : run[q].status \notin {"active", "cancel_requested"}
      BY <2>1, <2>2 DEF OneOwner, SingleOwner, RunningIsOwner, Occupying
  <2> QED
      BY <2>3, <2>4, <2>5 DEF OneOwner, SingleOwner, OwnerIsCurrent, RunningIsOwner
<1> QED
    BY <1>1, <1>2, <1>3, <1>4 DEF QueueNext

\* The runtime never has two owners, and its owner is always the current turn of
\* a run that is being submitted or is running, whatever callers repeat, delay
\* or recover (claimTransaction, confirmStartedTransaction, recoverStaleTransaction).
THEOREM RuntimeHasOneOwner == Spec => []OneOwner
<1>1. Init => OneOwner
  <2> SUFFICES ASSUME Init PROVE OneOwner
      OBVIOUS
  <2>1. /\ \A a \in AdmissionIds : admission[a].status = "none"
        /\ \A r \in Requests : run[r].status = "none"
      BY DEF Init, LedgerInit, NoAdmission, NoRun
  <2> QED
      BY <2>1 DEF OneOwner, SingleOwner, OwnerIsCurrent, RunningIsOwner, Occupying
<1>2. TypeOK /\ OneOwner /\ [Next]_vars => OneOwner'
  <2> SUFFICES ASSUME TypeOK, OneOwner, [Next]_vars PROVE OneOwner'
      OBVIOUS
  <2>1. ASSUME NEW r \in Requests, NEW g \in Generations, NEW kind \in OutcomeKinds,
               NEW cause \in 1..Len(events[r]), CommitOutcome(r, g, kind, cause)
        PROVE  OneOwner'
    <3>1. TerminalOf(kind) \in TerminalTypes
        BY DEF TerminalOf, TerminalTypes
    <3> QED
        BY <2>1, <3>1, OwnerEnd DEF CommitOutcome
  <2>2. CASE Next
      BY <2>1, <2>2, OwnerLedgerStep, OwnerQueueStep DEF Next
  <2>3. CASE UNCHANGED vars
      BY <2>3 DEF vars, OneOwner, SingleOwner, OwnerIsCurrent, RunningIsOwner
  <2> QED
      BY <2>2, <2>3
<1> QED
    BY TypeCorrect, <1>1, <1>2, PTL DEF Spec

-----------------------------------------------------------------------------
(* The history of a run, its receipts, its outcome, its cancellations and its lane. *)

Running == {"RunStarted", "ProgressUpdated", "OutputDelta"}

\* What the last event of a run says of its status.
Tells(type, status) ==
    \/ status = "queued" /\ type = "RunQueued"
    \/ status \in {"active", "cancel_requested"} /\ type \in Running
    \/ status \in Finished /\ type \in TerminalTypes /\ status = TerminalStatus[type]

Turns(E) == \A i \in 2..Len(E) :
    IF E[i].recovered = "none" THEN E[i].generation = E[i - 1].generation
    ELSE E[i].generation = E[i - 1].generation + 1

Story(row, E) ==
    /\ row.status = "none" => E = <<>>
    /\ row.status # "none" =>
          /\ ChainOK(E)
          /\ Turns(E)
          /\ Tells(E[Len(E)].type, row.status)
          /\ E[Len(E)].generation = row.generation
          /\ \A i \in 1..Len(E) - 1 : E[i].type \notin TerminalTypes

Stories == \A r \in Requests : Story(run[r], events[r])

LanesSorted ==
    \A q, r \in Requests : q < r /\ run[r].status # "none" =>
        /\ run[q].status # "none"
        /\ run[q].lane = run[r].lane => run[q].laneSequence < run[r].laneSequence

\* Whoever has the runtime has waited for its lane.
LaneWaited ==
    \A q, r \in Requests : \A a \in AdmissionIds :
        /\ q < r /\ run[q].lane = run[r].lane
        /\ admission[a].request = r /\ admission[a].status \in Occupying
        => run[q].status \in Finished

ReceiptsOK ==
    /\ ReceiptsIdentify
    /\ \A k \in IdentityKinds, x \in Keys :
          IF receipts[k][x].request = 0 THEN receipts[k][x] = NoReceipt
          ELSE run[receipts[k][x].request].status # "none"

OutcomesOK ==
    /\ OutcomeMatchesRun
    /\ \A r \in Requests : run[r].status = "none" => outcome[r] = NoOutcome

CancelsOK ==
    /\ CancelsMatchRuns
    /\ \A k \in CancelKeys : cancels[k].status # "none" =>
          /\ cancels[k].request \in Requests
          /\ run[cancels[k].request].status # "none"
          /\ cancels[k].generation <= run[cancels[k].request].generation
    /\ \A k \in CancelKeys, r \in Requests :
          PendingCancel(k, r, run[r].generation) => run[r].status = "cancel_requested"

IInv ==
    /\ Stories
    /\ LanesSorted
    /\ LaneWaited
    /\ ReceiptsOK
    /\ OutcomesOK
    /\ CancelsOK

-----------------------------------------------------------------------------
(* Chains *)

LEMMA EventRow ==
    ASSUME NEW E \in Seq(Events), NEW i \in 1..Len(E)
    PROVE  /\ E[i] \in Events /\ E[i].type \in EventTypes
           /\ E[i].generation \in Generations /\ E[i].generation \in Nat
           /\ E[i].recovered \in Occupying \cup {"none"}
  <1>1. E[i] \in Events
    BY ElementOfSeq
  <1> QED
    BY <1>1, LedgerAssumption DEF Events, Generations

\* A legal event continues a chain that has not ended.
LEMMA ChainGoesOn ==
    ASSUME NEW E \in Seq(Events), ChainOK(E), Turns(E),
           \A i \in 1..Len(E) : E[i].type \notin TerminalTypes,
           NEW e \in Events, e.type # "RunAccepted", LinkOK(e, E[Len(E)]),
           IF e.recovered = "none" THEN e.generation = E[Len(E)].generation
           ELSE e.generation = E[Len(E)].generation + 1
    PROVE  LET F == Append(E, e)
           IN  /\ F \in Seq(Events) /\ F # <<>> /\ F[Len(F)] = e
               /\ ChainOK(F) /\ Turns(F)
               /\ \A i \in 1..Len(F) - 1 : F[i].type \notin TerminalTypes
  <1> DEFINE F == Append(E, e)
             n == Len(E)
  <1>1. /\ F \in Seq(Events) /\ F # <<>> /\ Len(F) = n + 1 /\ F[n + 1] = e
        /\ \A i \in 1..n : F[i] = E[i]
    BY AppendProperties
  <1>2. n \in Nat /\ n > 0
    BY EmptySeq, LenProperties DEF ChainOK
  <1> HIDE DEF F
  <1>3. ASSUME NEW i \in 2..Len(F)
        PROVE  /\ i - 1 \in 1..n /\ F[i - 1] = E[i - 1]
               /\ \/ i = n + 1 /\ F[i] = e /\ F[i - 1] = E[n]
                  \/ i \in 2..n /\ F[i] = E[i]
    BY <1>1, <1>2
  <1>4. \A i \in 2..Len(F) : LinkOK(F[i], F[i - 1])
    BY <1>3 DEF ChainOK
  <1>5. Turns(F)
    BY <1>3 DEF Turns
  <1>6. \A i \in 1..Len(F) : (F[i].type = "RunAccepted") <=> (i = 1)
    <2> SUFFICES ASSUME NEW i \in 1..Len(F)
                 PROVE  (F[i].type = "RunAccepted") <=> (i = 1)
      OBVIOUS
    <2>1. CASE i = n + 1
      BY <1>1, <1>2, <2>1
    <2>2. CASE i # n + 1
      <3>1. i \in 1..n
        BY <1>1, <1>2, <2>2
      <3> QED
        BY <1>1, <3>1 DEF ChainOK
    <2> QED
      BY <2>1, <2>2
  <1>7. \A i \in 1..Len(F) - 1 : F[i].type \notin TerminalTypes
    BY <1>1, <1>2
  <1> QED
    BY <1>1, <1>4, <1>5, <1>6, <1>7 DEF ChainOK, F

LEMMA LastOfStory ==
    ASSUME NEW row, NEW E \in Seq(Events), Story(row, E), row.status # "none"
    PROVE  /\ Len(E) \in Nat /\ Len(E) > 0 /\ Len(E) \in 1..Len(E)
           /\ E[Len(E)].type \in EventTypes /\ E[Len(E)].generation \in Nat
           /\ row.status \notin Finished => \A i \in 1..Len(E) : E[i].type \notin TerminalTypes
  <1>1. Len(E) \in Nat /\ Len(E) > 0
    BY EmptySeq, LenProperties DEF Story, ChainOK
  <1>2. Len(E) \in 1..Len(E)
    BY <1>1
  <1>3. E[Len(E)].type \in EventTypes /\ E[Len(E)].generation \in Nat
    BY <1>2, EventRow
  <1>4. ASSUME row.status \notin Finished, NEW i \in 1..Len(E)
        PROVE  E[i].type \notin TerminalTypes
    <2>1. CASE i = Len(E)
      BY <1>4, <2>1 DEF Story, Tells, TerminalTypes, Running
    <2>2. CASE i # Len(E)
      <3>1. i \in 1..Len(E) - 1
        BY <1>1, <2>2
      <3> QED
        BY <3>1 DEF Story
    <2> QED
      BY <2>1, <2>2
  <1> QED
    BY <1>1, <1>2, <1>3, <1>4

LEMMA StoryGoesOn ==
    ASSUME NEW row, NEW next, NEW E \in Seq(Events), Story(row, E),
           row.status \in Unfinished,
           NEW e \in Events, e.type # "RunAccepted", LinkOK(e, E[Len(E)]),
           next.generation = e.generation, next.status # "none", Tells(e.type, next.status),
           IF e.recovered = "none" THEN e.generation = row.generation
           ELSE e.generation = row.generation + 1
    PROVE  Story(next, Append(E, e))
  <1>1. row.status # "none" /\ row.status \notin Finished
    BY DEF Unfinished, Finished
  <1>2. /\ ChainOK(E) /\ Turns(E) /\ E[Len(E)].generation = row.generation
        /\ \A i \in 1..Len(E) : E[i].type \notin TerminalTypes
    BY <1>1, LastOfStory DEF Story
  <1>3. LET F == Append(E, e)
        IN  /\ F \in Seq(Events) /\ F # <<>> /\ F[Len(F)] = e
            /\ ChainOK(F) /\ Turns(F)
            /\ \A i \in 1..Len(F) - 1 : F[i].type \notin TerminalTypes
    BY <1>2, ChainGoesOn
  <1> QED
    BY <1>3 DEF Story

-----------------------------------------------------------------------------
(* What a step does to a run *)

Still(r) == run'[r] = run[r] /\ events'[r] = events[r] /\ request'[r] = request[r]

OthersStill(r) == \A q \in Requests \ {r} : Still(q)

Begins(r) ==
    /\ \E c \in Commands : AcceptNew(c)
    /\ run[r].status = "none" /\ run'[r].status = "queued" /\ run'[r].generation = 1
    /\ events'[r] = <<Event("RunAccepted", 1), Event("RunQueued", 1)>>
    /\ \A q \in Requests : q < r =>
          /\ run[q].status # "none"
          /\ run[q].lane = run'[r].lane => run[q].laneSequence < run'[r].laneSequence
    /\ OthersStill(r)

SameLane(r) ==
    /\ run'[r].lane = run[r].lane /\ run'[r].laneSequence = run[r].laneSequence
    /\ run'[r].replyMode = run[r].replyMode

Adds(r, e) ==
    /\ e \in Events /\ e.type # "RunAccepted" /\ LinkOK(e, LastEvent(r))
    /\ events'[r] = Append(events[r], e)
    /\ run'[r].generation = e.generation /\ Tells(e.type, run'[r].status)
    /\ IF e.recovered = "none" THEN e.generation = run[r].generation
       ELSE e.generation = run[r].generation + 1 /\ run'[r].status = "queued"

Stops(r) ==
    /\ run[r].status \in {"active", "cancel_requested"} /\ run'[r].status = "cancel_requested"
    /\ run'[r].generation = run[r].generation /\ events'[r] = events[r]

Continues(r) ==
    /\ run[r].status \in Unfinished /\ run'[r].status \in RunStatus \ {"none"} /\ SameLane(r)
    /\ Stops(r) \/ \E e \in Events : Adds(r, e)

LEMMA RunRow ==
    ASSUME TypeOK, NEW r \in Requests
    PROVE  /\ run[r] \in RunRows /\ run[r].status \in RunStatus /\ events[r] \in Seq(Events)
           /\ run[r].generation \in 0..MaxGeneration /\ run[r].generation \in Nat
           /\ run[r].laneSequence \in 0..MaxRequests /\ run[r].laneSequence \in Nat
           /\ request[r] \in RequestRows /\ Requests \subseteq Nat /\ 0 \notin Requests
  <1>1. MaxRequests \in Nat /\ MaxGeneration \in Nat
    BY LedgerAssumption
  <1>2. run[r] \in RunRows /\ events[r] \in Seq(Events) /\ request[r] \in RequestRows
    BY DEF TypeOK, LedgerTypeOK
  <1>3. /\ run[r].status \in RunStatus /\ run[r].generation \in 0..MaxGeneration
        /\ run[r].laneSequence \in 0..MaxRequests
    BY <1>2 DEF RunRows
  <1>4. run[r].generation \in Nat /\ run[r].laneSequence \in Nat
    BY <1>1, <1>3
  <1>5. Requests \subseteq Nat /\ 0 \notin Requests
    BY <1>1 DEF Requests
  <1> QED
    BY <1>2, <1>3, <1>4, <1>5

LEMMA EventFields ==
    ASSUME NEW type, NEW g
    PROVE  /\ Event(type, g).type = type /\ Event(type, g).generation = g
           /\ Event(type, g).recovered = "none"
  BY DEF Event

\* A run whose status changes.
LEMMA StatusChanges ==
    ASSUME TypeOK, NEW r \in Requests, NEW s, run' = [run EXCEPT ![r].status = s]
    PROVE  /\ run'[r].status = s /\ run'[r].generation = run[r].generation /\ SameLane(r)
           /\ \A q \in Requests \ {r} : run'[q] = run[q]
  <1>1. run \in [Requests -> RunRows]
    BY DEF TypeOK, LedgerTypeOK
  <1>2. run'[r] = [run[r] EXCEPT !.status = s] /\ \A q \in Requests \ {r} : run'[q] = run[q]
    BY <1>1
  <1>3. run[r] \in RunRows
    BY <1>1
  <1> QED
    BY <1>2, <1>3 DEF SameLane, RunRows

LEMMA Appended ==
    ASSUME TypeOK, NEW r \in Requests, NEW e, AppendTo(r, e)
    PROVE  /\ events'[r] = Append(events[r], e)
           /\ \A q \in Requests \ {r} : events'[q] = events[q]
  BY DEF AppendTo, TypeOK, LedgerTypeOK

LEMMA EndingTells ==
    ASSUME NEW type \in TerminalTypes
    PROVE  /\ TerminalStatus[type] \in Finished /\ TerminalStatus[type] \in RunStatus \ {"none"}
           /\ Tells(type, TerminalStatus[type])
           /\ type \in EventTypes /\ type # "RunAccepted"
  BY DEF TerminalTypes, TerminalStatus, Finished, RunStatus, Tells, EventTypes

\* A terminal event ends a run that has not ended.
LEMMA EndContinues ==
    ASSUME TypeOK, NEW r \in Requests, NEW g \in Generations, NEW type \in TerminalTypes,
           run[r].status \in Unfinished, run[r].generation = g,
           LinkOK(Event(type, g), LastEvent(r)), EndRun(r, g, type)
    PROVE  /\ Continues(r) /\ OthersStill(r)
           /\ run'[r].status = TerminalStatus[type] /\ run'[r].generation = g
           /\ events'[r] = Append(events[r], Event(type, g))
  <1> DEFINE e == Event(type, g)
  <1>1. e \in Events /\ e.type = type /\ e.generation = g /\ e.recovered = "none"
    BY EventType, EventFields, EndingTells
  <1>2. /\ run'[r].status = TerminalStatus[type] /\ run'[r].generation = g /\ SameLane(r)
        /\ \A q \in Requests \ {r} : run'[q] = run[q]
    BY StatusChanges DEF EndRun
  <1>3. /\ events'[r] = Append(events[r], e)
        /\ \A q \in Requests \ {r} : events'[q] = events[q]
    BY Appended DEF EndRun
  <1>4. \A q \in Requests \ {r} : request'[q] = request[q]
    BY DEF EndRun, TypeOK, LedgerTypeOK
  <1> HIDE DEF e
  <1>5. Adds(r, e)
    BY <1>1, <1>2, <1>3, EndingTells DEF Adds, e
  <1> QED
    BY <1>1, <1>2, <1>3, <1>4, <1>5, EndingTells DEF Continues, OthersStill, Still, e

LEMMA AcceptSteps ==
    ASSUME TypeOK, NEW c \in Commands, Accept(c)
    PROVE  \A r \in Requests : Still(r) \/ Begins(r)
  <1>1. CASE AcceptNew(c)
    <2>1. PICK r \in Requests, n \in 1..MaxRequests :
            /\ Fresh(r) /\ NextLaneSequence(c.lane, n)
            /\ run' = [run EXCEPT ![r] =
                 [lane |-> c.lane, laneSequence |-> n, priority |-> c.priority,
                  requireIdle |-> c.class # "ordinary", replyMode |-> c.replyMode,
                  generation |-> 1, status |-> "queued"]]
            /\ request' = [request EXCEPT ![r] = [status |-> "queued", session |-> NoSession]]
            /\ events' = [events EXCEPT ![r] = <<Event("RunAccepted", 1), Event("RunQueued", 1)>>]
      BY <1>1 DEF AcceptNew
    <2>3. OthersStill(r)
      BY <2>1 DEF OthersStill, Still, TypeOK, LedgerTypeOK
    <2>4. /\ run'[r].lane = c.lane /\ run'[r].laneSequence = n
          /\ run'[r].status = "queued" /\ run'[r].generation = 1
          /\ events'[r] = <<Event("RunAccepted", 1), Event("RunQueued", 1)>>
      BY <2>1 DEF TypeOK, LedgerTypeOK
    <2>2. Begins(r)
      BY <1>1, <2>1, <2>3, <2>4 DEF Begins, Fresh, NextLaneSequence
    <2> QED
      BY <2>2, <2>3 DEF OthersStill
  <1>2. CASE AcceptReplay(c)
    BY <1>2 DEF AcceptReplay, Still
  <1> QED
    BY <1>1, <1>2 DEF Accept

LEMMA OutputSteps ==
    ASSUME TypeOK, NEW r \in Requests, NEW g \in Generations, NEW type \in OutputTypes,
           NEW n \in 1..MaxOrdinal, NEW cause, AppendOutput(r, g, type, n, cause)
    PROVE  Continues(r) /\ OthersStill(r)
  <1> DEFINE e == [Event(type, g) EXCEPT !.ordinal = n]
  <1>1. e \in Events /\ e.type = type /\ e.generation = g /\ e.recovered = "none"
    <2>1. Event(type, g) \in Events /\ Event(type, g).type = type
          /\ Event(type, g).generation = g /\ Event(type, g).recovered = "none"
      BY EventType, EventFields DEF OutputTypes, EventTypes
    <2> QED
      BY <2>1, LedgerAssumption DEF Events
  <1>2. /\ LinkOK(e, LastEvent(r)) /\ run[r].generation = e.generation
        /\ run[r].status = "active" /\ AppendTo(r, e) /\ run' = run /\ request' = request
    BY DEF AppendOutput, MayAppend
  <1> HIDE DEF e
  <1>3. Adds(r, e)
    BY <1>1, <1>2, Appended DEF Adds, OutputTypes, Tells, Running
  <1> QED
    BY <1>2, <1>3, Appended DEF Continues, OthersStill, Still, SameLane, Unfinished, RunStatus,
       Adds

LEMMA TerminalSteps ==
    ASSUME TypeOK, NEW r \in Requests, NEW g \in Generations,
           NEW type \in {"RunCompleted", "RunFailed"}, NEW cause, AppendTerminal(r, g, type, cause)
    PROVE  Continues(r) /\ OthersStill(r)
  <1>1. type \in TerminalTypes
    BY DEF TerminalTypes
  <1>2. /\ run[r].generation = g /\ LinkOK(Event(type, g), LastEvent(r))
        /\ run[r].status \in Unfinished
    BY EventFields DEF AppendTerminal, MayAppend, Unfinished
  <1> QED
    BY <1>1, <1>2, EndContinues DEF AppendTerminal

LEMMA CancelSteps ==
    ASSUME TypeOK, NEW r \in Requests, NEW g \in Generations, NEW k \in CancelKeys, Cancel(k, r, g)
    PROVE  Continues(r) /\ OthersStill(r)
  <1>1. CASE CancelQueued(k, r, g)
    <2>1. "RunCancelled" \in TerminalTypes
      BY DEF TerminalTypes
    <2>2. run[r].generation = g /\ LinkOK(Event("RunCancelled", g), LastEvent(r))
          /\ run[r].status \in Unfinished
      BY <1>1 DEF CancelQueued, NewCancel, MayAppend, Unfinished
    <2> QED
      BY <1>1, <2>1, <2>2, EndContinues DEF CancelQueued
  <1>2. CASE CancelRunning(k, r, g)
    <2>1. /\ run[r].status \in {"active", "cancel_requested"}
          /\ run' = [run EXCEPT ![r].status = "cancel_requested"]
          /\ events' = events /\ request' = request
      BY <1>2 DEF CancelRunning
    <2>2. /\ run'[r].status = "cancel_requested" /\ run'[r].generation = run[r].generation
          /\ SameLane(r) /\ \A q \in Requests \ {r} : run'[q] = run[q]
      BY <2>1, StatusChanges
    <2> QED
      BY <2>1, <2>2 DEF Continues, Stops, OthersStill, Still, Unfinished, RunStatus
  <1> QED
    BY <1>1, <1>2 DEF Cancel

LEMMA ConfirmCancellationSteps ==
    ASSUME TypeOK, NEW r \in Requests, NEW g \in Generations, ConfirmCancellation(r, g)
    PROVE  Continues(r) /\ OthersStill(r)
  <1>1. "RunCancelled" \in TerminalTypes
    BY DEF TerminalTypes
  <1>2. run[r].generation = g /\ LinkOK(Event("RunCancelled", g), LastEvent(r))
        /\ run[r].status \in Unfinished
    BY DEF ConfirmCancellation, MayAppend, Unfinished
  <1> QED
    BY <1>1, <1>2, EndContinues DEF ConfirmCancellation

LEMMA StartSteps ==
    ASSUME TypeOK, Stories, NEW a \in AdmissionIds, NEW r \in Requests, NEW g \in Generations,
           NEW s \in Sessions, ConfirmStarted(a, r, g, s)
    PROVE  Continues(r) /\ OthersStill(r)
  <1> DEFINE e == [Event("RunStarted", g) EXCEPT !.session = s]
  <1>1. e \in Events /\ e.type = "RunStarted" /\ e.generation = g /\ e.recovered = "none"
    <2>1. Event("RunStarted", g) \in Events /\ Event("RunStarted", g).type = "RunStarted"
          /\ Event("RunStarted", g).generation = g /\ Event("RunStarted", g).recovered = "none"
      BY EventType, EventFields DEF EventTypes
    <2> QED
      BY <2>1, LedgerAssumption DEF Events
  <1>2. /\ run[r].generation = g /\ run[r].status = "queued" /\ AppendTo(r, e)
        /\ run' = [run EXCEPT ![r].status = "active"]
        /\ \A q \in Requests \ {r} : request'[q] = request[q]
    BY DEF ConfirmStarted, Fenced, TypeOK, LedgerTypeOK
  <1>3. LastEvent(r).type = "RunQueued" /\ LastEvent(r).generation = g
    BY <1>2, RunRow DEF Stories, Story, Tells, LastEvent, Finished
  <1> HIDE DEF e
  <1>4. LinkOK(e, LastEvent(r))
    BY <1>1, <1>3 DEF LinkOK, Predecessors
  <1>5. /\ run'[r].status = "active" /\ run'[r].generation = g /\ SameLane(r)
        /\ \A q \in Requests \ {r} : run'[q] = run[q]
    BY <1>2, StatusChanges
  <1>6. Adds(r, e)
    BY <1>1, <1>2, <1>4, <1>5, Appended DEF Adds, Tells, Running
  <1> QED
    BY <1>1, <1>2, <1>5, <1>6, Appended DEF Continues, OthersStill, Still, Unfinished, RunStatus

LEMMA RecoverySteps ==
    ASSUME TypeOK, Stories, RecoverStale
    PROVE  \E r \in Requests : Continues(r) /\ OthersStill(r)
  <1>1. PICK a \in AdmissionIds, r \in Requests :
          /\ admission[a].status \in Occupying /\ run[r].generation < MaxGeneration
          /\ run[r].status \in Unfinished
          /\ run' = [run EXCEPT ![r].status = "queued", ![r].generation = @ + 1]
          /\ request' = [request EXCEPT ![r] = [status |-> "queued", session |-> NoSession]]
          /\ AppendTo(r, [Event("RunQueued", run[r].generation + 1) EXCEPT
                             !.recovered = admission[a].status])
    BY Zenon DEF RecoverStale
  <1> DEFINE g == run[r].generation + 1
             e == [Event("RunQueued", g) EXCEPT !.recovered = admission[a].status]
  <1>2. g \in Generations
    BY <1>1, RunRow, LedgerAssumption DEF Generations
  <1>3. e \in Events /\ e.type = "RunQueued" /\ e.generation = g
        /\ e.recovered = admission[a].status /\ e.recovered # "none"
    <2>1. Event("RunQueued", g) \in Events /\ Event("RunQueued", g).type = "RunQueued"
          /\ Event("RunQueued", g).generation = g
      BY <1>2, EventType, EventFields DEF EventTypes
    <2> HIDE DEF g
    <2> QED
      BY <1>1, <2>1 DEF Events, Occupying
  <1>4. /\ run'[r].status = "queued" /\ run'[r].generation = g /\ SameLane(r)
        /\ \A q \in Requests \ {r} : run'[q] = run[q]
    <2>1. run \in [Requests -> RunRows] /\ run[r] \in RunRows
      BY DEF TypeOK, LedgerTypeOK
    <2> QED
      BY <1>1, <2>1 DEF SameLane, RunRows
  <1>5. /\ events'[r] = Append(events[r], e)
        /\ \A q \in Requests \ {r} : events'[q] = events[q] /\ request'[q] = request[q]
    BY <1>1, Appended DEF TypeOK, LedgerTypeOK
  <1>6. /\ LastEvent(r).type \in {"RunQueued"} \cup Running
        /\ LastEvent(r).generation = run[r].generation
    BY <1>1, RunRow DEF Stories, Story, Tells, LastEvent, Unfinished, Finished
  <1> HIDE DEF g, e
  <1>7. LinkOK(e, LastEvent(r))
    BY <1>3, <1>6 DEF LinkOK, Predecessors, Running, g
  <1>8. Adds(r, e)
    BY <1>3, <1>4, <1>5, <1>7 DEF Adds, Tells, g
  <1> QED
    BY <1>1, <1>3, <1>4, <1>5, <1>8 DEF Continues, OthersStill, Still, RunStatus

LEMMA OutcomeSteps ==
    ASSUME TypeOK, NEW r \in Requests, NEW g \in Generations, NEW kind \in OutcomeKinds, NEW cause,
           CommitOutcome(r, g, kind, cause)
    PROVE  /\ Continues(r) /\ OthersStill(r)
           /\ run'[r].generation = g /\ run'[r].status \in Finished
           /\ events'[r] = Append(events[r], Event(TerminalOf(kind), g))
  <1>1. TerminalOf(kind) \in {"RunCompleted", "RunFailed"} /\ TerminalOf(kind) \in TerminalTypes
    BY DEF TerminalOf, TerminalTypes
  <1>2. /\ run[r].generation = g /\ run[r].status \in Unfinished
        /\ LastEvent(r).generation = g /\ LastEvent(r).type \in Running
        /\ EndRun(r, g, TerminalOf(kind))
    BY DEF CommitOutcome, Unfinished, Running
  <1>3. LinkOK(Event(TerminalOf(kind), g), LastEvent(r))
    BY <1>1, <1>2, EventFields DEF LinkOK, Predecessors, Running
  <1> QED
    BY <1>1, <1>2, <1>3, EndContinues, EndingTells

\* A run stays as it is, is accepted, or continues before it has ended, and only one does.
LEMMA StepKinds ==
    ASSUME TypeOK, Stories, [Next]_vars, NEW r \in Requests
    PROVE  Still(r) \/ Begins(r) \/ Continues(r)
  <1>1. ASSUME NEW c \in Commands, Accept(c)
        PROVE  Still(r) \/ Begins(r)
    BY <1>1, AcceptSteps
  <1>2. CASE LedgerNext
    <2>1. ASSUME NEW q \in Requests, Continues(q) /\ OthersStill(q)
          PROVE  Still(r) \/ Continues(r)
      BY <2>1 DEF OthersStill
    <2> QED
      BY <1>1, <1>2, <2>1, OutputSteps, TerminalSteps, CancelSteps, ConfirmCancellationSteps
         DEF LedgerNext
  <1>3. CASE QueueNext
    <2>1. ASSUME NEW runtimeIdle, ClaimNext(runtimeIdle)
          PROVE  Still(r)
      BY <2>1 DEF ClaimNext, Still
    <2>2. ASSUME NEW a, NEW q, NEW g, ReleaseSubmitted(a, q, g)
          PROVE  Still(r)
      BY <2>2 DEF ReleaseSubmitted, Still
    <2>3. ASSUME NEW q \in Requests, Continues(q) /\ OthersStill(q)
          PROVE  Still(r) \/ Continues(r)
      BY <2>3 DEF OthersStill
    <2> QED
      BY <1>3, <2>1, <2>2, <2>3, StartSteps, RecoverySteps DEF QueueNext
  <1>4. ASSUME NEW q \in Requests, NEW g \in Generations, NEW kind \in OutcomeKinds, NEW cause,
               CommitOutcome(q, g, kind, cause)
        PROVE  Still(r) \/ Continues(r)
    BY <1>4, OutcomeSteps DEF OthersStill
  <1>5. CASE UNCHANGED vars
    BY <1>5 DEF vars, Still
  <1> QED
    BY <1>2, <1>3, <1>4, <1>5 DEF Next

LEMMA StoriesKept ==
    ASSUME TypeOK, Stories, [Next]_vars
    PROVE  Stories'
  <1> SUFFICES ASSUME NEW r \in Requests
               PROVE  Story(run'[r], events'[r])
    BY DEF Stories
  <1>1. Story(run[r], events[r]) /\ events[r] \in Seq(Events)
    BY RunRow DEF Stories
  <1>2. CASE Still(r)
    BY <1>1, <1>2 DEF Still
  <1>3. CASE Begins(r)
    <2> DEFINE a == Event("RunAccepted", 1)
               q == Event("RunQueued", 1)
               E == <<a, q>>
    <2>1. /\ a.type = "RunAccepted" /\ a.generation = 1 /\ a.recovered = "none"
          /\ q.type = "RunQueued" /\ q.generation = 1 /\ q.recovered = "none"
      BY EventFields
    <2> HIDE DEF a, q
    <2>2. Len(E) = 2 /\ E[1] = a /\ E[2] = q /\ E # <<>>
      OBVIOUS
    <2> HIDE DEF E
    <2>3. LinkOK(q, a)
      BY <2>1 DEF LinkOK, Predecessors
    <2>4. ChainOK(E) /\ Turns(E)
      BY <2>1, <2>2, <2>3 DEF ChainOK, Turns
    <2>5. Tells("RunQueued", "queued") /\ "RunAccepted" \notin TerminalTypes
      BY DEF Tells, TerminalTypes
    <2>6. events'[r] = E
      BY <1>3 DEF Begins, E, a, q
    <2> QED
      BY <1>3, <2>1, <2>2, <2>4, <2>5, <2>6 DEF Begins, Story
  <1>4. CASE Continues(r)
    <2>1. CASE Stops(r)
      BY <1>1, <2>1 DEF Stops, Story, Tells, Finished
    <2>2. ASSUME NEW e \in Events, Adds(r, e)
          PROVE  Story(run'[r], events'[r])
      BY <1>1, <1>4, <2>2, StoryGoesOn DEF Adds, Continues, LastEvent
    <2> QED
      BY <1>4, <2>1, <2>2 DEF Continues
  <1> QED
    BY <1>2, <1>3, <1>4, StepKinds

-----------------------------------------------------------------------------
(* Lanes *)

LEMMA LanesSortedKept ==
    ASSUME TypeOK, IInv, [Next]_vars
    PROVE  LanesSorted'
  <1> SUFFICES ASSUME NEW q \in Requests, NEW r \in Requests, q < r, run'[r].status # "none"
               PROVE  /\ run'[q].status # "none"
                      /\ run'[q].lane = run'[r].lane =>
                            run'[q].laneSequence < run'[r].laneSequence
    BY DEF LanesSorted
  <1>1. q # r
    BY RunRow
  <1>2. CASE Begins(r)
    BY <1>1, <1>2 DEF Begins, OthersStill, Still
  <1>3. CASE Still(r) \/ Continues(r)
    <2>1. /\ run[r].status # "none" /\ run'[r].lane = run[r].lane
          /\ run'[r].laneSequence = run[r].laneSequence
      BY <1>3 DEF Still, Continues, SameLane, Unfinished
    <2>2. /\ run[q].status # "none"
          /\ run[q].lane = run[r].lane => run[q].laneSequence < run[r].laneSequence
      BY <2>1 DEF IInv, LanesSorted
    <2>3. Still(q) \/ Continues(q)
      BY <2>2, StepKinds DEF Begins, IInv
    <2> QED
      BY <2>1, <2>2, <2>3 DEF Still, Continues, SameLane
  <1> QED
    BY <1>2, <1>3, StepKinds DEF IInv

\* An admission comes to occupy the runtime only by being claimed for the next of its lane.
LEMMA OccupyingKinds ==
    ASSUME TypeOK, [Next]_vars, NEW a \in AdmissionIds, admission'[a].status \in Occupying
    PROVE  \/ /\ admission[a].status \in Occupying
              /\ admission'[a].request = admission[a].request
           \/ /\ run' = run
              /\ \E r \in Requests, idle \in BOOLEAN :
                    Eligible(r, idle) /\ admission'[a].request = r
  <1> DEFINE Kept == /\ admission[a].status \in Occupying
                     /\ admission'[a].request = admission[a].request
  <1>1. admission \in [AdmissionIds -> AdmissionRows] /\ admission[a] \in AdmissionRows
    BY DEF TypeOK, LedgerTypeOK
  <1>2. CASE admission' = admission
    BY <1>2
  <1>3. ASSUME NEW r \in Requests, NEW g \in Generations, NEW type, EndRun(r, g, type)
        PROVE  Kept
    <2>1. admission'[a] = IF a \in AdmissionsOf(r, g) /\ admission[a].status \in Occupying
                          THEN [admission[a] EXCEPT !.status = "completed", !.reason = type]
                          ELSE admission[a]
      BY <1>3, Zenon DEF EndRun, Closed
    <2>2. [admission[a] EXCEPT !.status = "completed", !.reason = type].status = "completed"
      BY <1>1 DEF AdmissionRows
    <2>3. "completed" \notin Occupying
      BY DEF Occupying
    <2> QED
      BY <2>1, <2>2, <2>3
  <1>4. ASSUME NEW idle \in BOOLEAN, ClaimNext(idle)
        PROVE  Kept \/ (run' = run /\ \E r \in Requests :
                           Eligible(r, idle) /\ admission'[a].request = r)
    <2>1. PICK r \in Requests, b \in AdmissionIds :
            /\ Candidate(r, idle)
            /\ admission' = [admission EXCEPT ![b] =
                 [NoAdmission EXCEPT !.request = r, !.generation = run[r].generation,
                                     !.status = "submitted"]]
      BY <1>4 DEF ClaimNext
    <2>2. CASE a = b
      <3>1. admission'[a] = [NoAdmission EXCEPT !.request = r, !.generation = run[r].generation,
                                                !.status = "submitted"]
        BY <1>1, <2>1, <2>2, Zenon
      <3>2. admission'[a].request = r
        BY <3>1 DEF NoAdmission
      <3> QED
        BY <1>4, <2>1, <3>2 DEF ClaimNext, Candidate
    <2>3. CASE a # b
      BY <1>1, <2>1, <2>3
    <2> QED
      BY <2>2, <2>3
  <1>5. ASSUME NEW b \in AdmissionIds, NEW r, NEW g, NEW s, ConfirmStarted(b, r, g, s)
        PROVE  Kept
    <2>1. /\ admission[b].status = "submitted"
          /\ admission' = [admission EXCEPT ![b] =
                 [admission[b] EXCEPT !.status = "started", !.session = s]]
      BY <1>5, Zenon DEF ConfirmStarted
    <2>2. \A x \in AdmissionRows :
            [x EXCEPT !.status = "started", !.session = s].request = x.request
      BY DEF AdmissionRows
    <2> HIDE DEF Kept
    <2>3. CASE a = b
      <3>1. admission'[a] = [admission[a] EXCEPT !.status = "started", !.session = s]
        BY <1>1, <2>1, <2>3, Zenon
      <3> QED
        BY <1>1, <2>1, <2>2, <2>3, <3>1 DEF Kept, Occupying
    <2>4. CASE a # b
      BY <1>1, <2>1, <2>4 DEF Kept
    <2> QED
      BY <2>3, <2>4
  <1>6. ASSUME NEW b \in AdmissionIds, NEW row,
               admission' = [admission EXCEPT ![b] = row], row.status = "released"
        PROVE  Kept
    <2>1. a # b
      BY <1>1, <1>6 DEF Occupying
    <2> QED
      BY <1>1, <1>6, <2>1
  <1>7. \A x \in AdmissionRows : \A reason :
          [x EXCEPT !.status = "released", !.reason = reason].status = "released"
    BY DEF AdmissionRows
  <1>8. ASSUME NEW b \in AdmissionIds, NEW r, NEW g, ReleaseSubmitted(b, r, g)
        PROVE  Kept
    <2>1. admission' = [admission EXCEPT ![b] = [admission[b] EXCEPT
              !.status = "released", !.reason = "runtime_submit_failed"]]
      BY <1>8, Zenon DEF ReleaseSubmitted
    <2>2. admission[b] \in AdmissionRows
      BY <1>1
    <2> QED
      BY <1>6, <1>7, <2>1, <2>2
  <1>9. ASSUME RecoverStale
        PROVE  Kept
    <2> DEFINE reason(b) == IF admission[b].status = "submitted"
                            THEN "stale_unconfirmed" ELSE "stale_started"
    <2>3. PICK b \in AdmissionIds :
            admission' = [admission EXCEPT ![b].status = "released", ![b].reason = reason(b)]
      BY <1>9 DEF RecoverStale
    <2> HIDE DEF reason
    <2>1. admission' = [admission EXCEPT ![b] = [admission[b] EXCEPT
              !.status = "released", !.reason = reason(b)]]
      BY <2>3, Zenon
    <2>2. admission[b] \in AdmissionRows
      BY <1>1
    <2> QED
      BY <1>6, <1>7, <2>1, <2>2
  <1>10. CASE LedgerNext
    <2>1. ASSUME NEW c, Accept(c)
          PROVE  admission' = admission
      BY <2>1 DEF Accept, AcceptNew, AcceptReplay
    <2>2. ASSUME NEW r \in Requests, NEW g \in Generations, NEW k, Cancel(k, r, g)
          PROVE  Kept
      BY <1>2, <1>3, <2>2 DEF Cancel, CancelQueued, CancelRunning
    <2> QED
      BY ZenonT(40), <1>2, <1>3, <1>10, <2>1, <2>2 DEF LedgerNext, AppendOutput, AppendTerminal,
         ConfirmCancellation
  <1>11. CASE QueueNext
    BY <1>4, <1>5, <1>8, <1>9, <1>11 DEF QueueNext
  <1>12. CASE UNCHANGED vars
    BY <1>2, <1>12 DEF vars
  <1> QED
    BY <1>3, <1>10, <1>11, <1>12 DEF Next, CommitOutcome

LEMMA LaneWaitedKept ==
    ASSUME TypeOK, OneOwner, IInv, [Next]_vars
    PROVE  LaneWaited'
  <1> SUFFICES ASSUME NEW q \in Requests, NEW r \in Requests, NEW a \in AdmissionIds,
                      q < r, run'[q].lane = run'[r].lane,
                      admission'[a].request = r, admission'[a].status \in Occupying
               PROVE  run'[q].status \in Finished
    BY DEF LaneWaited
  <1>1. CASE admission[a].status \in Occupying /\ admission'[a].request = admission[a].request
    <2>1. run[r].status \in Unfinished
      BY <1>1 DEF OneOwner, OwnerIsCurrent, Unfinished
    <2>2. run'[r].lane = run[r].lane /\ run[r].status # "none"
      BY <2>1, StepKinds DEF Still, Begins, Continues, SameLane, Unfinished, IInv
    <2>3. run[q].status # "none"
      BY <2>2 DEF IInv, LanesSorted
    <2>4. run'[q].lane = run[q].lane
      BY <2>3, StepKinds DEF Still, Begins, Continues, SameLane, IInv
    <2>5. run[q].status \in Finished
      BY <1>1, <2>2, <2>4 DEF IInv, LaneWaited
    <2>6. Still(q)
      BY <2>5, StepKinds DEF Begins, Continues, Unfinished, Finished, IInv
    <2> QED
      BY <2>5, <2>6 DEF Still
  <1>2. CASE run' = run /\ \E x \in Requests, idle \in BOOLEAN :
                Eligible(x, idle) /\ admission'[a].request = x
    <2>1. PICK idle \in BOOLEAN : Eligible(r, idle)
      BY <1>2
    <2>2. /\ run[q].status # "none" /\ run[q].laneSequence < run[r].laneSequence
          /\ run[q].lane = run[r].lane
      BY <1>2, <2>1 DEF IInv, LanesSorted, Eligible
    <2>3. run[q].status \notin Unfinished /\ run[q].status \in RunStatus
      BY <2>1, <2>2, RunRow DEF Eligible
    <2> QED
      BY <1>2, <2>2, <2>3 DEF RunStatus, Unfinished, Finished
  <1> QED
    BY <1>1, <1>2, OccupyingKinds

-----------------------------------------------------------------------------
(* Which tables a step leaves alone *)

\* A run goes on without being cancelled: a cancellation that waits for it still waits, or the run
\* is in its next turn.
Spares(r) ==
    /\ Continues(r) /\ run'[r].status # "cancelled"
    /\ \/ run[r].status # "cancel_requested" /\ run'[r].generation = run[r].generation
       \/ run'[r].generation = run[r].generation + 1

AllSpare == \A r \in Requests : Still(r) \/ Spares(r)

ReceiptsUnchanged == receipts' = receipts
CancelsUnchanged == cancels' = cancels
RepliesUnchanged == outcome' = outcome /\ intent' = intent

LEMMA OutputSpares ==
    ASSUME TypeOK, NEW r \in Requests, NEW g \in Generations, NEW type \in OutputTypes,
           NEW n \in 1..MaxOrdinal, NEW cause, AppendOutput(r, g, type, n, cause)
    PROVE  AllSpare /\ ReceiptsUnchanged /\ CancelsUnchanged
  <1>1. Continues(r) /\ OthersStill(r)
    BY OutputSteps
  <1>2. run[r].status = "active" /\ run' = run /\ receipts' = receipts /\ cancels' = cancels
    BY DEF AppendOutput
  <1> QED
    BY <1>1, <1>2 DEF AllSpare, OthersStill, Spares, ReceiptsUnchanged, CancelsUnchanged

LEMMA TerminalSpares ==
    ASSUME TypeOK, NEW r \in Requests, NEW g \in Generations,
           NEW type \in {"RunCompleted", "RunFailed"}, NEW cause, AppendTerminal(r, g, type, cause)
    PROVE  AllSpare /\ ReceiptsUnchanged /\ CancelsUnchanged
  <1>1. type \in TerminalTypes /\ TerminalStatus[type] # "cancelled"
    BY DEF TerminalTypes, TerminalStatus
  <1>2. /\ run[r].generation = g /\ LinkOK(Event(type, g), LastEvent(r))
        /\ run[r].status = "active" /\ EndRun(r, g, type) /\ receipts' = receipts
        /\ cancels' = cancels
    BY EventFields DEF AppendTerminal, MayAppend
  <1>3. /\ Continues(r) /\ OthersStill(r) /\ run'[r].status = TerminalStatus[type]
        /\ run'[r].generation = g
    BY <1>1, <1>2, EndContinues DEF Unfinished
  <1> QED
    BY <1>1, <1>2, <1>3 DEF AllSpare, OthersStill, Spares, ReceiptsUnchanged, CancelsUnchanged

LEMMA OutcomeSpares ==
    ASSUME TypeOK, NEW r \in Requests, NEW g \in Generations, NEW kind \in OutcomeKinds, NEW cause,
           CommitOutcome(r, g, kind, cause)
    PROVE  AllSpare /\ ReceiptsUnchanged /\ CancelsUnchanged
  <1>1. /\ TerminalOf(kind) \in {"RunCompleted", "RunFailed"} /\ TerminalOf(kind) \in TerminalTypes
        /\ TerminalStatus[TerminalOf(kind)] # "cancelled"
    BY DEF TerminalOf, TerminalTypes, TerminalStatus
  <1>2. /\ run[r].generation = g /\ run[r].status = "active" /\ receipts' = receipts
        /\ run' = [run EXCEPT ![r].status = TerminalStatus[TerminalOf(kind)]]
        /\ cancels' = cancels
    BY DEF CommitOutcome, EndRun
  <1>3. Continues(r) /\ OthersStill(r) /\ run'[r].generation = g
    BY OutcomeSteps
  <1>4. run'[r].status = TerminalStatus[TerminalOf(kind)]
    BY <1>2, StatusChanges
  <1> QED
    BY <1>1, <1>2, <1>3, <1>4 DEF AllSpare, OthersStill, Spares, ReceiptsUnchanged, CancelsUnchanged

LEMMA StartSpares ==
    ASSUME TypeOK, Stories, NEW a \in AdmissionIds, NEW r \in Requests, NEW g \in Generations,
           NEW s \in Sessions, ConfirmStarted(a, r, g, s)
    PROVE  AllSpare /\ ReceiptsUnchanged /\ CancelsUnchanged
  <1>1. /\ run[r].status = "queued" /\ run' = [run EXCEPT ![r].status = "active"]
        /\ receipts' = receipts /\ cancels' = cancels
    BY DEF ConfirmStarted
  <1>2. run'[r].status = "active" /\ run'[r].generation = run[r].generation
    BY <1>1, StatusChanges
  <1> QED
    BY <1>1, <1>2, StartSteps DEF AllSpare, OthersStill, Spares, ReceiptsUnchanged,
       CancelsUnchanged

LEMMA RecoverySpares ==
    ASSUME TypeOK, Stories, RecoverStale
    PROVE  AllSpare /\ ReceiptsUnchanged /\ CancelsUnchanged
  <1>1. PICK r \in Requests :
          /\ run' = [run EXCEPT ![r].status = "queued", ![r].generation = @ + 1]
          /\ run[r].status \in Unfinished /\ receipts' = receipts /\ cancels' = cancels
    BY Zenon DEF RecoverStale
  <1>2. /\ run'[r].status = "queued" /\ run'[r].generation = run[r].generation + 1
        /\ \A q \in Requests \ {r} : run'[q] = run[q]
    <2>1. run \in [Requests -> RunRows] /\ run[r] \in RunRows
      BY DEF TypeOK, LedgerTypeOK
    <2> QED
      BY <1>1, <2>1 DEF RunRows
  <1>3. PICK q \in Requests : Continues(q) /\ OthersStill(q)
    BY RecoverySteps
  <1>4. q = r
    BY <1>2, <1>3, RunRow DEF OthersStill, Still
  <1> QED
    BY <1>1, <1>2, <1>3, <1>4 DEF AllSpare, OthersStill, Spares, ReceiptsUnchanged,
       CancelsUnchanged

\* Only accept writes receipts, only cancel and confirmCancellation write cancellations, and only
\* commitRunOutcome writes outcomes.
LEMMA StepFrames ==
    ASSUME TypeOK, Stories, [Next]_vars
    PROVE  \/ (\E c \in Commands : Accept(c)) /\ CancelsUnchanged /\ RepliesUnchanged
           \/ /\ \E r \in Requests, g \in Generations :
                    (\E k \in CancelKeys : Cancel(k, r, g)) \/ ConfirmCancellation(r, g)
              /\ ReceiptsUnchanged /\ RepliesUnchanged
           \/ /\ \E r \in Requests, g \in Generations, kind \in OutcomeKinds :
                    \E cause \in 1..Len(events[r]) : CommitOutcome(r, g, kind, cause)
              /\ AllSpare /\ ReceiptsUnchanged /\ CancelsUnchanged
           \/ AllSpare /\ ReceiptsUnchanged /\ CancelsUnchanged /\ RepliesUnchanged
  <1>1. ASSUME NEW c, Accept(c)
        PROVE  CancelsUnchanged
    BY <1>1 DEF Accept, AcceptNew, AcceptReplay, CancelsUnchanged
  <1>2. ASSUME NEW k, NEW r, NEW g, Cancel(k, r, g)
        PROVE  ReceiptsUnchanged
    <2>1. CASE CancelQueued(k, r, g)
      BY <2>1 DEF CancelQueued, ReceiptsUnchanged
    <2>2. CASE CancelRunning(k, r, g)
      BY <2>2 DEF CancelRunning, ReceiptsUnchanged
    <2> QED
      BY <1>2, <2>1, <2>2 DEF Cancel
  <1>3. ASSUME NEW r, NEW g, ConfirmCancellation(r, g)
        PROVE  ReceiptsUnchanged
    BY <1>3 DEF ConfirmCancellation, ReceiptsUnchanged
  <1>4. ASSUME NEW idle, ClaimNext(idle)
        PROVE  AllSpare /\ ReceiptsUnchanged /\ CancelsUnchanged
    BY <1>4 DEF ClaimNext, AllSpare, Still, ReceiptsUnchanged, CancelsUnchanged
  <1>5. ASSUME NEW a, NEW r, NEW g, ReleaseSubmitted(a, r, g)
        PROVE  AllSpare /\ ReceiptsUnchanged /\ CancelsUnchanged
    BY <1>5 DEF ReleaseSubmitted, AllSpare, Still, ReceiptsUnchanged, CancelsUnchanged
  <1>6. CASE LedgerNext /\ UNCHANGED replyVars
    <2>1. RepliesUnchanged
      BY <1>6 DEF replyVars, RepliesUnchanged
    <2> QED
      BY <1>1, <1>2, <1>3, <1>6, <2>1, OutputSpares, TerminalSpares DEF LedgerNext
  <1>7. CASE QueueNext /\ UNCHANGED replyVars
    <2>1. RepliesUnchanged
      BY <1>7 DEF replyVars, RepliesUnchanged
    <2> QED
      BY <1>4, <1>5, <1>7, <2>1, StartSpares, RecoverySpares DEF QueueNext
  <1>8. CASE UNCHANGED vars
    BY <1>8 DEF vars, AllSpare, Still, ReceiptsUnchanged, CancelsUnchanged, RepliesUnchanged
  <1> QED
    BY <1>6, <1>7, <1>8, OutcomeSpares DEF Next

-----------------------------------------------------------------------------
(* Receipts *)

LEMMA AcceptedStays ==
    ASSUME TypeOK, IInv, [Next]_vars, NEW r \in Requests, run[r].status # "none"
    PROVE  run'[r].status # "none"
  BY StepKinds DEF Still, Begins, Continues, IInv

\* The receipts that one request adds to.
LEMMA ReceiptsRecorded ==
    ASSUME TypeOK, IInv, NEW c \in Commands, NEW r \in Requests, receipts' = Recorded(c, r),
           \A q \in Requests : run[q].status # "none" => run'[q].status # "none",
           run'[r].status # "none",
           \A q \in Requests : run'[q].status # "none" =>
              (run[q].status # "none" \/ (q = r /\ Matching(c) = {})),
           \A k \in IdentityKinds, x \in Keys :
              receipts[k][x].request = r => receipts[k][x].payload = c.payload
    PROVE  ReceiptsOK'
  <1>1. /\ receipts \in [IdentityKinds -> [Keys -> ReceiptRows]]
        /\ NoReceipt.request = 0 /\ 0 \notin Requests
    BY RunRow DEF TypeOK, LedgerTypeOK, NoReceipt
  <1>2. c \in AcceptMessage /\ \A k \in IdentityKinds : c[k] \in Keys
    BY LedgerAssumption DEF AcceptMessage, IdentityKinds
  <1> DEFINE new == [request |-> r, payload |-> c.payload]
  <1>3. ASSUME NEW k \in IdentityKinds, NEW x \in Keys
        PROVE  \/ receipts'[k][x] = receipts[k][x]
               \/ /\ receipts[k][x] = NoReceipt /\ receipts'[k][x] = new
    BY Zenon DEF Recorded
  <1>4. new.request = r /\ new.payload = c.payload
    OBVIOUS
  <1> HIDE DEF new
  <1>5. \A j, k \in IdentityKinds, x, y \in Keys :
          receipts'[j][x].request = receipts'[k][y].request
            => receipts'[j][x].payload = receipts'[k][y].payload
    BY <1>1, <1>3, <1>4 DEF IInv, ReceiptsOK, ReceiptsIdentify
  <1>6. ASSUME NEW q \in Requests, NEW k \in IdentityKinds, run'[q].status # "none"
        PROVE  \E x \in Keys : receipts'[k][x].request = q
    <2>1. CASE run[q].status # "none"
      <3>1. PICK x \in Keys : receipts[k][x].request = q
        BY <2>1 DEF IInv, ReceiptsOK, ReceiptsIdentify
      <3> QED
        BY <1>1, <1>3, <3>1
    <2>2. CASE q = r /\ Matching(c) = {}
      <3>1. receipts[k][c[k]] = NoReceipt
        BY <2>2 DEF Matching
      <3>2. receipts'[k][c[k]] = new
        BY <1>2, <3>1 DEF Recorded, new
      <3> QED
        BY <1>2, <1>4, <2>2, <3>2
    <2> QED
      BY <1>6, <2>1, <2>2
  <1>7. ASSUME NEW k \in IdentityKinds, NEW x \in Keys
        PROVE  IF receipts'[k][x].request = 0 THEN receipts'[k][x] = NoReceipt
               ELSE run'[receipts'[k][x].request].status # "none"
    <2>1. receipts[k][x] \in ReceiptRows
      BY <1>1
    <2>2. receipts[k][x].request \in Requests \cup {0}
      BY <2>1, LedgerAssumption DEF ReceiptRows, Requests
    <2> QED
      BY <1>1, <1>3, <1>4, <2>2 DEF IInv, ReceiptsOK
  <1> QED
    BY <1>5, <1>6, <1>7 DEF ReceiptsOK, ReceiptsIdentify

LEMMA ReceiptsKept ==
    ASSUME TypeOK, IInv, [Next]_vars
    PROVE  ReceiptsOK'
  <1>1. ASSUME receipts' = receipts, \A q \in Requests : ~Begins(q)
        PROVE  ReceiptsOK'
    <2>1. \A q \in Requests : (run'[q].status = "none") <=> (run[q].status = "none")
      BY <1>1, StepKinds DEF Still, Continues, Unfinished, IInv
    <2>2. \A k \in IdentityKinds, x \in Keys : receipts[k][x].request \in Requests \cup {0}
      BY LedgerAssumption DEF TypeOK, LedgerTypeOK, ReceiptRows, Requests
    <2> QED
      BY <1>1, <2>1, <2>2 DEF IInv, ReceiptsOK, ReceiptsIdentify
  <1>2. ASSUME NEW c \in Commands, AcceptNew(c)
        PROVE  ReceiptsOK'
    <2>1. PICK r \in Requests, n \in 1..MaxRequests :
            /\ Fresh(r) /\ Matching(c) = {} /\ receipts' = Recorded(c, r)
            /\ run' = [run EXCEPT ![r] =
                 [lane |-> c.lane, laneSequence |-> n, priority |-> c.priority,
                  requireIdle |-> c.class # "ordinary", replyMode |-> c.replyMode,
                  generation |-> 1, status |-> "queued"]]
      BY <1>2 DEF AcceptNew
    <2>2. /\ run'[r].status = "queued" /\ run[r].status = "none"
          /\ \A q \in Requests \ {r} : run'[q] = run[q]
      BY <2>1 DEF Fresh, TypeOK, LedgerTypeOK
    <2>3. \A k \in IdentityKinds, x \in Keys : receipts[k][x].request # r
      BY <2>2, RunRow DEF IInv, ReceiptsOK
    <2> QED
      BY <2>1, <2>2, <2>3, ReceiptsRecorded
  <1>3. ASSUME NEW c \in Commands, AcceptReplay(c)
        PROVE  ReceiptsOK'
    <2>1. PICK r \in Requests :
            /\ \A m \in Matching(c) : m.request = r
            /\ receipts' = Recorded(c, r)
      BY <1>3 DEF AcceptReplay
    <2>2. Matching(c) # {} /\ run' = run /\ \A m \in Matching(c) : m.payload = c.payload
      BY <1>3 DEF AcceptReplay
    <2>3. PICK k \in IdentityKinds :
            receipts[k][c[k]].request = r /\ receipts[k][c[k]].payload = c.payload
      BY <2>1, <2>2 DEF Matching
    <2>4. c[k] \in Keys
      BY LedgerAssumption DEF AcceptMessage, IdentityKinds
    <2>5. run[r].status # "none"
      BY <2>3, <2>4, RunRow DEF IInv, ReceiptsOK
    <2>6. \A j \in IdentityKinds, x \in Keys :
            receipts[j][x].request = r => receipts[j][x].payload = c.payload
      BY <2>3, <2>4 DEF IInv, ReceiptsOK, ReceiptsIdentify
    <2> QED
      BY <2>1, <2>2, <2>5, <2>6, ReceiptsRecorded
  <1>5. CASE ReceiptsUnchanged
    <2>1. ASSUME NEW q \in Requests, Begins(q)
          PROVE  ReceiptsOK'
      BY <1>2, <2>1 DEF Begins
    <2> QED
      BY <1>1, <1>5, <2>1 DEF ReceiptsUnchanged
  <1>6. Stories
    BY DEF IInv
  <1> QED
    BY <1>2, <1>3, <1>5, <1>6, StepFrames DEF Accept

-----------------------------------------------------------------------------
(* Outcomes *)

\* A finished run is left as it is.
LEMMA FinishedStays ==
    ASSUME TypeOK, Stories, [Next]_vars, NEW r \in Requests, run[r].status \in Finished
    PROVE  Still(r)
  BY StepKinds DEF Begins, Continues, Unfinished, Finished

\* An outcome belongs to a run that has ended.
LEMMA OutcomeEnds ==
    ASSUME TypeOK, IInv, NEW r \in Requests, outcome[r].kind # "none"
    PROVE  run[r].status \in Finished
  <1>1. run[r].status # "none"
    BY DEF IInv, OutcomesOK, NoOutcome
  <1>2. LastEvent(r).type = TerminalOf(outcome[r].kind)
    BY DEF IInv, OutcomesOK, OutcomeMatchesRun
  <1>3. Tells(LastEvent(r).type, run[r].status)
    BY <1>1 DEF IInv, Stories, Story, LastEvent
  <1> QED
    BY <1>2, <1>3 DEF TerminalOf, Tells, Running

LEMMA OutcomesKept ==
    ASSUME TypeOK, IInv, [Next]_vars
    PROVE  OutcomesOK'
  <1>1. outcome \in [Requests -> [kind : OutcomeKinds \cup {"none"}, generation : 0..MaxGeneration]]
        /\ intent \in [Requests -> {"none", "send", "failure_notice"}]
    BY DEF TypeOK
  <1>2. Stories
    BY DEF IInv
  <1> DEFINE Good(r) ==
               /\ intent'[r] # "none" <=> outcome'[r].kind \in {"answer", "failure"}
               /\ outcome'[r].kind # "none" =>
                     /\ outcome'[r].generation = run'[r].generation
                     /\ events'[r][Len(events'[r])].type = TerminalOf(outcome'[r].kind)
               /\ run'[r].replyMode = "none" => intent'[r] = "none"
               /\ run'[r].status = "none" => outcome'[r] = NoOutcome
  <1>3. SUFFICES ASSUME NEW r \in Requests
                 PROVE  Good(r)
    BY DEF OutcomesOK, OutcomeMatchesRun, LastEvent
  <1>4. /\ intent[r] # "none" <=> outcome[r].kind \in {"answer", "failure"}
        /\ outcome[r].kind # "none" =>
              /\ outcome[r].generation = run[r].generation
              /\ LastEvent(r).type = TerminalOf(outcome[r].kind)
        /\ run[r].replyMode = "none" => intent[r] = "none"
        /\ run[r].status = "none" => outcome[r] = NoOutcome
    BY DEF IInv, OutcomesOK, OutcomeMatchesRun
  <1>5. ASSUME outcome'[r] = outcome[r], intent'[r] = intent[r]
        PROVE  Good(r)
    <2>1. CASE Still(r)
      BY <1>4, <1>5, <2>1 DEF Still, LastEvent
    <2>2. CASE Begins(r) \/ Continues(r)
      <3>1. run[r].status \notin Finished
        BY <2>2 DEF Begins, Continues, Unfinished, Finished
      <3>2. outcome[r].kind = "none"
        BY <3>1, OutcomeEnds
      <3>3. intent[r] = "none"
        BY <1>4, <3>2
      <3>4. run'[r].status # "none"
        BY <2>2 DEF Begins, Continues
      <3> QED
        BY <1>5, <3>2, <3>3, <3>4
    <2> QED
      BY <1>2, <2>1, <2>2, StepKinds
  <1>6. ASSUME NEW q \in Requests, NEW g \in Generations, NEW kind \in OutcomeKinds, NEW cause,
               CommitOutcome(q, g, kind, cause)
        PROVE  Good(r)
    <2>1. /\ outcome' = [outcome EXCEPT ![q] = [kind |-> kind, generation |-> g]]
          /\ intent' = [intent EXCEPT ![q] = Disposition(kind)]
          /\ run[q].replyMode = "none" => kind = "silent"
      BY <1>6 DEF CommitOutcome
    <2>2. CASE r = q
      <3>1. outcome'[r].kind = kind /\ outcome'[r].generation = g /\ intent'[r] = Disposition(kind)
        BY <1>1, <2>1, <2>2
      <3>2. /\ run'[r].generation = g /\ run'[r].status \in Finished
            /\ run'[r].replyMode = run[r].replyMode
            /\ events'[r] = Append(events[r], Event(TerminalOf(kind), g))
        BY <1>6, <2>2, OutcomeSteps DEF Continues, SameLane
      <3>3. events'[r][Len(events'[r])] = Event(TerminalOf(kind), g)
        <4>1. Event(TerminalOf(kind), g) \in Events
          BY <1>6, EventType DEF TerminalOf, EventTypes
        <4>2. events[r] \in Seq(Events)
          BY RunRow
        <4> HIDE DEF Event
        <4> QED
          BY <3>2, <4>1, <4>2, AppendProperties, LenProperties
      <3>4. events'[r][Len(events'[r])].type = TerminalOf(kind)
        BY <3>3, EventFields
      <3>5. /\ Disposition(kind) # "none" <=> kind \in {"answer", "failure"}
            /\ kind = "silent" => Disposition(kind) = "none"
        BY <1>6 DEF Disposition, OutcomeKinds
      <3> QED
        BY <2>1, <2>2, <3>1, <3>2, <3>4, <3>5 DEF Finished
    <2>3. CASE r # q
      BY <1>1, <1>5, <2>1, <2>3
    <2> QED
      BY <2>2, <2>3
  <1> QED
    BY <1>2, <1>5, <1>6, StepFrames DEF RepliesUnchanged

-----------------------------------------------------------------------------
(* Cancellations *)

LEMMA CancelRow ==
    ASSUME TypeOK, NEW k \in CancelKeys
    PROVE  /\ cancels[k] \in CancelRows
           /\ \A r, g : PendingCancel(k, r, g) <=>
                 (cancels[k].request = r /\ cancels[k].generation = g
                                         /\ cancels[k].status = "requested")
           /\ cancels[k].generation \in Nat
           /\ cancels[k].status \in {"none", "requested", "confirmed"}
  <1>1. cancels[k] \in CancelRows
    BY DEF TypeOK, LedgerTypeOK
  <1>2. ASSUME NEW row \in CancelRows, NEW r, NEW g
        PROVE  row = [request |-> r, generation |-> g, status |-> "requested"] <=>
                  (row.request = r /\ row.generation = g /\ row.status = "requested")
    BY DEF CancelRows
  <1>3. cancels[k].generation \in Nat
    BY <1>1, LedgerAssumption DEF CancelRows
  <1> QED
    BY <1>1, <1>2, <1>3 DEF PendingCancel, CancelRows

\* The cancellations one by one, without the rows.
CancelsTell ==
    /\ \A k \in CancelKeys : cancels[k].status # "none" =>
          /\ cancels[k].request \in Requests
          /\ run[cancels[k].request].status # "none"
          /\ cancels[k].generation <= run[cancels[k].request].generation
          /\ cancels[k].status = "confirmed" =>
                /\ run[cancels[k].request].status = "cancelled"
                /\ run[cancels[k].request].generation = cancels[k].generation
          /\ (cancels[k].status = "requested" /\
              cancels[k].generation = run[cancels[k].request].generation) =>
                run[cancels[k].request].status = "cancel_requested"
    /\ \A r \in Requests : run[r].status = "cancelled" =>
          \E k \in CancelKeys : cancels[k].request = r /\ cancels[k].status = "confirmed"

LEMMA CancelsAreTold ==
    ASSUME TypeOK
    PROVE  CancelsOK <=> CancelsTell
  BY CancelRow DEF CancelsOK, CancelsMatchRuns, CancelsTell

LEMMA CancelsSpared ==
    ASSUME TypeOK, CancelsTell, CancelsUnchanged,
           \A r \in Requests : Still(r) \/ Begins(r) \/ Spares(r)
    PROVE  CancelsTell'
  <1>1. ASSUME NEW k \in CancelKeys, cancels[k].status # "none"
        PROVE  LET r == cancels[k].request
               IN  /\ r \in Requests
                   /\ run'[r].status # "none"
                   /\ cancels[k].generation <= run'[r].generation
                   /\ cancels[k].status = "confirmed" =>
                         run'[r].status = "cancelled" /\ run'[r].generation = cancels[k].generation
                   /\ (cancels[k].status = "requested" /\
                       cancels[k].generation = run'[r].generation) =>
                         run'[r].status = "cancel_requested"
    <2> DEFINE r == cancels[k].request
    <2>1. /\ r \in Requests /\ run[r].status # "none"
          /\ cancels[k].generation <= run[r].generation
          /\ cancels[k].status = "confirmed" =>
                run[r].status = "cancelled" /\ run[r].generation = cancels[k].generation
          /\ (cancels[k].status = "requested" /\ cancels[k].generation = run[r].generation) =>
                run[r].status = "cancel_requested"
      BY <1>1 DEF CancelsTell
    <2> HIDE DEF r
    <2>2. cancels[k].generation \in Nat /\ run[r].generation \in Nat
      BY <2>1, CancelRow, RunRow
    <2>3. CASE Still(r)
      BY <2>1, <2>3 DEF Still, r
    <2>4. CASE Spares(r)
      BY <2>1, <2>2, <2>4 DEF Spares, Continues, Unfinished, r
    <2> QED
      BY <2>1, <2>3, <2>4 DEF Begins, r
  <1>2. ASSUME NEW r \in Requests, run'[r].status = "cancelled"
        PROVE  \E k \in CancelKeys : cancels[k].request = r /\ cancels[k].status = "confirmed"
    BY <1>2 DEF CancelsTell, Still, Begins, Spares
  <1> QED
    BY <1>1, <1>2 DEF CancelsUnchanged, CancelsTell

LEMMA NewCancelRow ==
    ASSUME TypeOK, NEW k \in CancelKeys, NEW r \in Requests, NEW g, NEW status,
           NewCancel(k, r, g, status)
    PROVE  /\ cancels'[k].request = r /\ cancels'[k].generation = g
           /\ cancels'[k].status = status /\ cancels[k].status = "none"
           /\ \A j \in CancelKeys \ {k} : cancels'[j] = cancels[j]
  BY DEF NewCancel, TypeOK, LedgerTypeOK

LEMMA CancelTells ==
    ASSUME TypeOK, CancelsTell, NEW r \in Requests, NEW g \in Generations, NEW k \in CancelKeys,
           Cancel(k, r, g)
    PROVE  CancelsTell'
  <1>1. OthersStill(r) /\ \A j \in CancelKeys : cancels[j].generation \in Nat
    BY CancelSteps, CancelRow
  <1>2. run[r].generation \in Nat
    BY RunRow
  <1>3. CASE CancelQueued(k, r, g)
    <2>1. "RunCancelled" \in TerminalTypes /\ TerminalStatus["RunCancelled"] = "cancelled"
      BY DEF TerminalTypes, TerminalStatus
    <2>2. /\ run[r].status = "queued" /\ run[r].generation = g
          /\ run' = [run EXCEPT ![r].status = TerminalStatus["RunCancelled"]]
      BY <1>3 DEF CancelQueued, NewCancel, EndRun
    <2>3. run'[r].status = "cancelled" /\ run'[r].generation = g
      BY <2>1, <2>2, StatusChanges
    <2>4. /\ cancels'[k].request = r /\ cancels'[k].generation = g
          /\ cancels'[k].status = "confirmed" /\ cancels[k].status = "none"
          /\ \A j \in CancelKeys \ {k} : cancels'[j] = cancels[j]
      BY <1>3, NewCancelRow DEF CancelQueued
    <2> QED
      BY <1>1, <1>2, <2>2, <2>3, <2>4 DEF CancelsTell, OthersStill, Still
  <1>4. CASE CancelRunning(k, r, g)
    <2>1. /\ run[r].status \in {"active", "cancel_requested"} /\ run[r].generation = g
          /\ run' = [run EXCEPT ![r].status = "cancel_requested"]
      BY <1>4 DEF CancelRunning, NewCancel
    <2>2. run'[r].status = "cancel_requested" /\ run'[r].generation = g
      BY <2>1, StatusChanges
    <2>3. /\ cancels'[k].request = r /\ cancels'[k].generation = g
          /\ cancels'[k].status = "requested" /\ cancels[k].status = "none"
          /\ \A j \in CancelKeys \ {k} : cancels'[j] = cancels[j]
      BY <1>4, NewCancelRow DEF CancelRunning
    <2> QED
      BY <1>1, <1>2, <2>1, <2>2, <2>3 DEF CancelsTell, OthersStill, Still
  <1> QED
    BY <1>3, <1>4 DEF Cancel

LEMMA ConfirmationTells ==
    ASSUME TypeOK, CancelsTell, NEW r \in Requests, NEW g \in Generations,
           ConfirmCancellation(r, g)
    PROVE  CancelsTell'
  <1>1. OthersStill(r) /\ run[r].generation \in Nat
    BY ConfirmCancellationSteps, RunRow
  <1>2. "RunCancelled" \in TerminalTypes /\ TerminalStatus["RunCancelled"] = "cancelled"
    BY DEF TerminalTypes, TerminalStatus
  <1>3. /\ run[r].status = "cancel_requested" /\ run[r].generation = g
        /\ run' = [run EXCEPT ![r].status = TerminalStatus["RunCancelled"]]
        /\ \E k \in CancelKeys : PendingCancel(k, r, g)
    BY DEF ConfirmCancellation, EndRun
  <1>4. run'[r].status = "cancelled" /\ run'[r].generation = g
    BY <1>2, <1>3, StatusChanges
  <1>5. ASSUME NEW k \in CancelKeys
        PROVE  /\ cancels'[k].request = cancels[k].request
               /\ cancels'[k].generation = cancels[k].generation
               /\ cancels'[k].status = IF PendingCancel(k, r, g) THEN "confirmed"
                                       ELSE cancels[k].status
    <2>1. cancels'[k] = IF PendingCancel(k, r, g) THEN [cancels[k] EXCEPT !.status = "confirmed"]
                        ELSE cancels[k]
      BY DEF ConfirmCancellation
    <2>2. \A row \in CancelRows : LET n == [row EXCEPT !.status = "confirmed"]
                                  IN  /\ n.request = row.request /\ n.generation = row.generation
                                      /\ n.status = "confirmed"
      BY DEF CancelRows
    <2> QED
      BY <2>1, <2>2, CancelRow
  <1>6. \A k \in CancelKeys : /\ PendingCancel(k, r, g) <=>
                                    (cancels[k].request = r /\ cancels[k].generation = g
                                                            /\ cancels[k].status = "requested")
                              /\ cancels[k].generation \in Nat
    BY CancelRow
  <1> HIDE DEF PendingCancel
  <1>7. ASSUME NEW q \in Requests, run'[q].status = "cancelled"
        PROVE  \E k \in CancelKeys : cancels'[k].request = q /\ cancels'[k].status = "confirmed"
    <2>1. CASE q = r
      BY <1>3, <1>5, <1>6, <2>1
    <2>2. CASE q # r
      <3>1. run[q].status = "cancelled"
        BY <1>1, <1>7, <2>2 DEF OthersStill, Still
      <3> QED
        BY <1>5, <1>6, <2>2, <3>1 DEF CancelsTell
    <2> QED
      BY <2>1, <2>2
  <1>8. ASSUME NEW k \in CancelKeys, cancels'[k].status # "none"
        PROVE  /\ cancels'[k].request \in Requests
               /\ run'[cancels'[k].request].status # "none"
               /\ cancels'[k].generation <= run'[cancels'[k].request].generation
               /\ cancels'[k].status = "confirmed" =>
                     /\ run'[cancels'[k].request].status = "cancelled"
                     /\ run'[cancels'[k].request].generation = cancels'[k].generation
               /\ (cancels'[k].status = "requested" /\
                   cancels'[k].generation = run'[cancels'[k].request].generation) =>
                     run'[cancels'[k].request].status = "cancel_requested"
    <2>1. cancels[k].status # "none"
      BY <1>5, <1>6, <1>8
    <2>2. CASE cancels[k].request = r
      BY <1>1, <1>3, <1>4, <1>5, <1>6, <2>1, <2>2 DEF CancelsTell
    <2>3. CASE cancels[k].request # r
      BY <1>1, <1>5, <1>6, <2>1, <2>3 DEF CancelsTell, OthersStill, Still
    <2> QED
      BY <2>2, <2>3
  <1> QED
    BY <1>7, <1>8 DEF CancelsTell

LEMMA CancelsKept ==
    ASSUME TypeOK, TypeOK', IInv, [Next]_vars
    PROVE  CancelsOK'
  <1>1. Stories /\ CancelsTell
    BY CancelsAreTold DEF IInv
  <1>2. CancelsTell'
    <2>1. ASSUME NEW c \in Commands, Accept(c), CancelsUnchanged
          PROVE  CancelsTell'
      BY <1>1, <2>1, AcceptSteps, CancelsSpared
    <2>2. ASSUME AllSpare, CancelsUnchanged
          PROVE  CancelsTell'
      BY <1>1, <2>2, CancelsSpared DEF AllSpare
    <2> QED
      BY <1>1, <2>1, <2>2, StepFrames, CancelTells, ConfirmationTells
  <1>3. (TypeOK => (CancelsOK <=> CancelsTell))'
    BY CancelsAreTold, PTL
  <1> QED
    BY <1>2, <1>3

-----------------------------------------------------------------------------
(* The invariant and what follows *)

LEMMA InitIInv == Init => IInv
  <1> SUFFICES ASSUME Init
               PROVE  IInv
    OBVIOUS
  <1>1. /\ \A r \in Requests : run[r] = NoRun /\ events[r] = <<>> /\ outcome[r] = NoOutcome
                               /\ intent[r] = "none"
        /\ \A k \in IdentityKinds, x \in Keys : receipts[k][x] = NoReceipt
        /\ \A a \in AdmissionIds : admission[a] = NoAdmission
        /\ \A k \in CancelKeys : cancels[k] = NoCancel
    BY DEF Init, LedgerInit
  <1>2. Stories /\ LanesSorted /\ LaneWaited
    BY <1>1 DEF Stories, Story, LanesSorted, LaneWaited, NoRun, NoAdmission, Occupying
  <1>3. ReceiptsOK
    BY <1>1 DEF ReceiptsOK, ReceiptsIdentify, NoReceipt, NoRun
  <1>4. OutcomesOK
    BY <1>1 DEF OutcomesOK, OutcomeMatchesRun, NoOutcome, NoRun
  <1>5. CancelsOK
    BY <1>1 DEF CancelsOK, CancelsMatchRuns, NoCancel, NoRun, PendingCancel
  <1> QED
    BY <1>2, <1>3, <1>4, <1>5 DEF IInv

LEMMA StepKeepsIInv ==
    ASSUME TypeOK, TypeOK', OneOwner, IInv, [Next]_vars
    PROVE  IInv'
  <1>1. Stories
    BY DEF IInv
  <1> QED
    BY <1>1, StoriesKept, LanesSortedKept, LaneWaitedKept, ReceiptsKept, OutcomesKept, CancelsKept
       DEF IInv

\* In every behaviour of the ledger, its queue and the outcome transaction the inductive invariant
\* of this module holds.
THEOREM StoryInvariant == Spec => []IInv
  <1>1. TypeOK /\ TypeOK' /\ OneOwner /\ IInv /\ [Next]_vars => IInv'
    BY StepKeepsIInv
  <1> QED
    BY InitIInv, TypeCorrect, RuntimeHasOneOwner, <1>1, PTL DEF Spec

\* Runs of one conversation lane reach the runtime in the order they were accepted: recovery,
\* which puts a run back in the queue, never lets a later one pass it (claimNext).
THEOREM LanesKeepOrder == Spec => []LaneOrder
  <1>1. IInv => LaneOrder
    BY DEF IInv, LanesSorted, LaneWaited, LaneOrder
  <1> QED
    BY <1>1, StoryInvariant, PTL

\* The history of a run is the history its status claims.
LEMMA StoryIsHistory ==
    ASSUME TypeOK, IInv
    PROVE  HistoryMatchesRun /\ GenerationsAdvance
  <1> SUFFICES ASSUME NEW r \in Requests
               PROVE  /\ run[r].status # "none" =>
                           /\ ChainOK(events[r])
                           /\ LastEvent(r).generation = run[r].generation
                           /\ \A i \in 1..Len(events[r]) :
                                 events[r][i].type \in TerminalTypes =>
                                   /\ i = Len(events[r])
                                   /\ run[r].status = TerminalStatus[events[r][i].type]
                           /\ run[r].status \in Finished => LastEvent(r).type \in TerminalTypes
                      /\ \A i \in 2..Len(events[r]) :
                           IF events[r][i].recovered = "none"
                           THEN events[r][i].generation = events[r][i - 1].generation
                           ELSE events[r][i].generation = events[r][i - 1].generation + 1
    BY DEF HistoryMatchesRun, GenerationsAdvance
  <1>1. Story(run[r], events[r]) /\ events[r] \in Seq(Events)
    BY RunRow DEF IInv, Stories
  <1>2. CASE run[r].status = "none"
    BY <1>1, <1>2 DEF Story
  <1>3. CASE run[r].status # "none"
    <2> DEFINE n == Len(events[r])
    <2>1. n \in Nat /\ n > 0
      BY <1>1, <1>3, LastOfStory
    <2>2. /\ ChainOK(events[r]) /\ Turns(events[r]) /\ Tells(events[r][n].type, run[r].status)
          /\ events[r][n].generation = run[r].generation
          /\ \A i \in 1..n - 1 : events[r][i].type \notin TerminalTypes
      BY <1>1, <1>3 DEF Story
    <2>3. ASSUME NEW i \in 1..n, events[r][i].type \in TerminalTypes
          PROVE  i = n /\ run[r].status = TerminalStatus[events[r][i].type]
      <3>1. i = n
        BY <2>1, <2>2, <2>3
      <3> QED
        BY <2>2, <2>3, <3>1 DEF Tells, TerminalTypes, Running
    <2>4. run[r].status \in Finished => events[r][n].type \in TerminalTypes
      BY <2>2 DEF Tells, Finished
    <2> HIDE DEF n
    <2>5. n = Len(events[r])
      BY DEF n
    <2> QED
      BY <2>2, <2>3, <2>4, <2>5 DEF LastEvent, Turns
  <1> QED
    BY <1>2, <1>3

\* Receipts, history, turns, outcome and cancellations tell one story of a run, whatever calls
\* came late, twice or for another turn (run-ledger.js, runtime-pending-queue.js and
\* reply-outcome.js).
THEOREM RunsAlwaysTellOneStory == Spec => []RunsTellOneStory
  <1>1. TypeOK /\ IInv => RunsTellOneStory
    BY StoryIsHistory DEF RunsTellOneStory, IInv, ReceiptsOK, OutcomesOK, CancelsOK
  <1> QED
    BY <1>1, TypeCorrect, StoryInvariant, PTL

\* Nothing rewrites a finished run, its events, its request row, its outcome or its intent.
THEOREM EndsStayFinal == Spec => EndIsFinal
  <1> DEFINE Kept(r) == /\ run'[r] = run[r] /\ request'[r] = request[r] /\ events'[r] = events[r]
                        /\ outcome'[r] = outcome[r] /\ intent'[r] = intent[r]
  <1>1. ASSUME TypeOK, IInv, [Next]_vars, NEW r \in Requests, run[r].status \in Finished
        PROVE  Kept(r)
    <2>1. Stories
      BY <1>1 DEF IInv
    <2>2. Still(r)
      BY <1>1, <2>1, FinishedStays
    <2>3. ASSUME NEW q \in Requests, NEW g, NEW kind, NEW cause, CommitOutcome(q, g, kind, cause)
          PROVE  outcome'[r] = outcome[r] /\ intent'[r] = intent[r]
      <3>1. q # r
        BY <1>1, <2>3 DEF CommitOutcome, Finished
      <3>2. /\ outcome' = [outcome EXCEPT ![q] = [kind |-> kind, generation |-> g]]
            /\ intent' = [intent EXCEPT ![q] = Disposition(kind)]
        BY <2>3 DEF CommitOutcome
      <3> QED
        BY <1>1, <3>1, <3>2 DEF TypeOK
    <2>4. outcome'[r] = outcome[r] /\ intent'[r] = intent[r]
      BY <1>1, <2>1, <2>3, StepFrames DEF RepliesUnchanged
    <2> QED
      BY <2>2, <2>4 DEF Still
  <1>2. TypeOK /\ IInv /\ [Next]_vars =>
          [\A r \in Requests : run[r].status \in Finished =>
             /\ run'[r] = run[r]
             /\ request'[r] = request[r]
             /\ events'[r] = events[r]
             /\ outcome'[r] = outcome[r]
             /\ intent'[r] = intent[r]]_vars
    BY <1>1
  <1> QED
    BY <1>2, TypeCorrect, StoryInvariant, PTL DEF Spec, EndIsFinal
=============================================================================
