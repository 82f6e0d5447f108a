---------------------------- MODULE ResponseTurns ----------------------------
(***************************************************************************)
(* The turns of the Claude runtime and the requests they answer            *)
(* (skills/comm-bridge/scripts/assistant-response-stream.js), driven by    *)
(* the three parties that share the database: the dispatcher, which admits *)
(* one conversation at a time to the runtime (c4-dispatcher.js), the hook  *)
(* processes the runtime starts at every step of a turn                    *)
(* (activity-monitor/scripts/hook-activity.js), and the stream supervisor, *)
(* which expires silent runs.                                              *)
(*                                                                         *)
(* db is what the response stream keeps; an operator over it is one        *)
(* transaction, and an action one transaction or one file write of one     *)
(* process.  Hooks are reordered, delayed and lost.  An output is the      *)
(* number of its chunks.  A clock is a count of hooks and admissions; that *)
(* a row has not been written for long enough (30 s, 60 s, 15 min) is its  *)
(* flag quiet, which SilencePasses sets and every write clears.            *)
(*                                                                         *)
(* The code's calls that are one step here: a hook's touch or start of the *)
(* admission with its reading of the binding file, and the dispatcher's    *)
(* claim, gates and admission of a conversation (LookAtTurn, Project and   *)
(* Unblock are the gates that write).                                      *)
(***************************************************************************)
EXTENDS Integers, FiniteSets

CONSTANTS
    Items,          \* the conversations users have sent, in the order of their ids
    Streamed,       \* those of a channel with a response stream: each has a request
    Sessions,       \* the sessions the runtime may have, one after the other
    NoRequest,      \* a conversation without an assistant request
    NoSession,
    Steps,          \* what the runtime does in a turn: records [kind, final]
    MaxSteps,       \* how many such hooks it starts in all
    MaxInFlight,    \* hook processes alive at once
    MaxFaults       \* deaths, refusals and retries in all

Kinds == {"tool", "post", "reasoning", "answer"}
ASSUME StepsAssumption == Steps \subseteq [kind : Kinds, final : BOOLEAN]
ASSUME BoundsAssumption == {MaxSteps, MaxInFlight, MaxFaults} \subseteq Nat
ASSUME ItemsAssumption == Items \subseteq Nat /\ Streamed \subseteq Items
ASSUME NoneAssumption == NoRequest \notin Items /\ NoSession \notin Sessions /\ Sessions # {}

VARIABLES
    db,         \* requests, the active admission, final-output candidates, events
    file,       \* session -> its binding file, a projection of the admissions
    conv,       \* item -> pending, or delivered to the terminal
    pump,       \* the dispatcher: its step and the item it holds
    runtime,    \* the agent: its session, the items typed to it, the one it works on, and
                \* whether that turn's prompt hook has not been lost
    hooks,      \* the hook processes that have started and not ended
    clock,        \* the clock: the newest observation
    spent       \* hooks started and faults taken

turnsVars == <<db, file, conv, pump, runtime, hooks, clock, spent>>

NoTurn == [status |-> "none"]
NoFile == [mode |-> "none", request |-> NoRequest, at |-> 0]
Open == {"queued", "started"}
Terminal == {"completed", "failed"}

NewRequest == [status |-> "queued", session |-> NoSession, output |-> 0, text |-> "none",
               quiet |-> FALSE]

TurnsInit ==
    /\ db = [request |-> [r \in Streamed |-> NewRequest],
             turn |-> NoTurn,
             turns |-> 0,
             marks |-> {},
             events |-> {},
             unprojected |-> {}]
    /\ file = [s \in Sessions |-> NoFile]
    /\ conv = [i \in Items |-> "pending"]
    /\ pump = [step |-> "rest", item |-> NoRequest]
    /\ runtime = [session |-> CHOOSE s \in Sessions : TRUE, typed |-> {}, doing |-> NoRequest,
                  prompted |-> TRUE]
    /\ hooks = {}
    /\ clock = 1
    /\ spent = [steps |-> 0, faults |-> 0]

-----------------------------------------------------------------------------
(* Transactions: each takes what the database holds and returns what it    *)
(* holds afterwards.                                                       *)

\* Every write of the active admission raises its lifecycle version.
Bump(t) == [t EXCEPT !.quiet = FALSE, !.watched = FALSE]

Active(d) == d.turn.status # "none"
Started(d, s) == d.turn.status = "started" /\ d.turn.session = s
Stale(d, at) == Active(d) /\ at < d.turn.since

\* appendEvent, with the idempotency key of the hook that wrote it.
Append(d, r, e) ==
    [d EXCEPT !.events = @ \cup {[e EXCEPT !.request = r]}, !.request[r].quiet = FALSE]
Written(d, r, h, part) == \E e \in d.events : e.request = r /\ e.id = h.id /\ e.part = part

ActiveMark(d, r) == {m \in d.marks : m.request = r /\ m.status = "active"}
CloseMarks(d, r, status) ==
    [d EXCEPT !.marks = {IF m \in ActiveMark(d, r) THEN [m EXCEPT !.status = status] ELSE m :
                         m \in d.marks}]

FailRun(d, r) ==
    IF d.request[r].status \notin Open THEN d
    ELSE [CloseMarks(d, r, "invalidated") EXCEPT
              !.request[r].status = "failed", !.request[r].quiet = FALSE]
FailRuns(d, rs) ==
    [d EXCEPT !.marks = {IF m.request \in rs /\ m.status = "active"
                         THEN [m EXCEPT !.status = "invalidated"] ELSE m : m \in @},
              !.request = [r \in Streamed |->
                  IF r \in rs THEN [@[r] EXCEPT !.status = "failed", !.quiet = FALSE]
                  ELSE @[r]]]

\* CompleteRun throws on a failed request, and on a completed one with another text.
CanComplete(d, r, text) ==
    \/ d.request[r].status \in Open
    \/ d.request[r].status = "completed" /\ d.request[r].text = text
CompleteRun(d, r, text) ==
    IF d.request[r].status \notin Open THEN d
    ELSE [CloseMarks(d, r, "consumed") EXCEPT
              !.request[r].status = "completed", !.request[r].text = text,
              !.request[r].quiet = FALSE]

StartRun(d, r) ==
    IF d.request[r].status # "queued" THEN d
    ELSE [d EXCEPT !.request[r].status = "started", !.request[r].quiet = FALSE]

\* startRuntimeTurn: the first hook of a session starts the admission that waits.
\* Seeded fault: the admission starts without the session that started it.
StartTurnUnclaimed(d, s, at) ==
    IF d.turn.status \in {"submitted", "started"}
    THEN [d EXCEPT !.turn = [Bump(@) EXCEPT !.status = "started", !.since = at]] ELSE d

StartTurn(d, s, at) ==
    CASE d.turn.status = "submitted" ->
            [d EXCEPT !.turn = [Bump(@) EXCEPT !.status = "started", !.session = s, !.since = at]]
      [] Started(d, s) -> [d EXCEPT !.turn = Bump(@)]
      [] OTHER -> d

\* bindTurn, where it does not throw; a request of the session that is still open fails.
CanBind(d, r, s) ==
    /\ Active(d) => Started(d, s) /\ d.turn.request = r /\ d.turn.binding # "rejected"
    /\ r \in Streamed /\ d.request[r].status \in Open
    /\ d.request[r].session \in {s, NoSession}
Bind(d, r, s) ==
    LET owners == {o \in Streamed \ {r} : d.request[o].session = s /\ d.request[o].status \in Open}
        freed == IF owners = {} THEN d ELSE FailRun(d, CHOOSE o \in owners : TRUE)
        bound == IF d.request[r].session = s THEN d
                 ELSE [freed EXCEPT !.request[r].session = s, !.request[r].quiet = FALSE]
    IN  IF Active(d) THEN [bound EXCEPT !.turn = [Bump(@) EXCEPT !.binding = "bound"]] ELSE bound

RejectBinding(d, s, at) ==
    IF Started(d, s) /\ ~Stale(d, at) /\ d.turn.binding = "pending"
    THEN [d EXCEPT !.turn = [Bump(@) EXCEPT !.binding = "rejected"]] ELSE d

\* What bindNextRun would bind for an install whose prompt hook was missed.
NextRun(d, s) ==
    LET unbound == {r \in Streamed : d.request[r].status = "started"
                                    /\ d.request[r].session = NoSession}
        own == {r \in Streamed : d.request[r].status \in Open /\ d.request[r].session = s}
    IN  CASE Active(d) -> {d.turn.request} \ {NoRequest}
          [] ~Active(d) /\ own # {} -> own
          [] OTHER -> IF Cardinality(unbound) = 1 THEN unbound ELSE {}

VerifyOwnership(d, r, s, at) ==
    Started(d, s) /\ d.turn.request = r /\ d.turn.binding = "bound" /\ ~Stale(d, at)

\* Later activity moves the admission's mark of it, and withdraws an older final output.
\* Seeded fault: the final output that was marked earlier stays valid.
RecordActivityOnly(d, r, at, id) == [d EXCEPT !.turn = Bump(@)]

RecordActivity(d, r, at, id) ==
    LET seen == d.turn.seen
        moved == CASE seen.at < at -> [at |-> at, id |-> id]
                   [] seen.at = at /\ seen.id # id -> [at |-> at, id |-> 0]
                   [] OTHER -> seen
        passed == {m \in ActiveMark(d, r) : at > m.at \/ (at = m.at /\ id # m.id)}
        t == [d EXCEPT !.turn = [Bump(@) EXCEPT !.seen = moved]]
    IN  IF passed = {} THEN t ELSE CloseMarks(t, r, "invalidated")

ValidCandidate(d, r) ==
    {m \in ActiveMark(d, r) :
        /\ m.turn = d.turn.no /\ m.session = d.turn.session
        /\ d.request[r].session = d.turn.session
        /\ d.request[r].output > 0 /\ m.output = d.request[r].output
        /\ \/ d.turn.seen.at = 0
           \/ m.at > d.turn.seen.at
           \/ m.at = d.turn.seen.at /\ m.id = d.turn.seen.id}

\* The end of an admission that had a request must still reach its binding file.
EndTurn(d, s, at) ==
    [d EXCEPT !.turn = NoTurn,
              !.unprojected = IF d.turn.request = NoRequest THEN @
                              ELSE @ \cup {[session |-> s, request |-> d.turn.request, at |-> at]}]

\* writeAssistantTurnBinding keeps a newer state.
Write(f, s, mode, r, at) ==
    IF f[s].at > at THEN f ELSE [f EXCEPT ![s] = [mode |-> mode, request |-> r, at |-> at]]

-----------------------------------------------------------------------------
(* The user, the agent, and time.                                          *)

\* The runtime starts a hook process, which reads the clock before anything else.
Launch(h) ==
    /\ Cardinality(hooks) < MaxInFlight
    /\ hooks' = hooks \cup {h}
    /\ clock' = h.at

Hook(kind, step, at) ==
    [id |-> 0, kind |-> kind, final |-> FALSE, session |-> runtime.session, at |-> at, seen |-> at,
     of |-> IF runtime.prompted THEN runtime.doing ELSE NoRequest,
     request |-> NoRequest, step |-> step, text |-> "none"]

\* The agent waits for its synchronous hooks before the next phase of its turn
\* (sync-settings-hooks.js); those of one phase run side by side.
Ended(kinds) == \A h \in hooks : ~(h.session = runtime.session /\ h.kind \in kinds)

BeginTurn(i) ==
    /\ runtime.doing = NoRequest /\ i \in runtime.typed /\ Ended({"stop"})
    /\ runtime' = [runtime EXCEPT !.doing = i, !.typed = @ \ {i}, !.prompted = TRUE]
    /\ Launch([Hook("prompt", "start", clock + 1) EXCEPT !.of = i,
                  !.request = IF i \in Streamed THEN i ELSE NoRequest])
    /\ UNCHANGED <<db, file, conv, pump, spent>>

\* A tool or a display batch; two that overlap may have begun in one millisecond.
Work(k, at) ==
    /\ at = clock => hooks # {}
    /\ runtime.doing # NoRequest /\ Ended({"prompt"}) /\ spent.steps < MaxSteps
    /\ Launch([Hook(k.kind, IF k.kind = "tool" THEN "start" ELSE "touch", at)
               EXCEPT !.final = k.final, !.id = spent.steps + 1])
    /\ spent' = [spent EXCEPT !.steps = @ + 1]
    /\ UNCHANGED <<db, file, conv, pump, runtime>>

\* It ends with no message, with its answer, or with the message it has sent.
Texts == {"none", "sent", "answer"}
StopTurn(text) ==
    /\ text = "sent" => \E r \in Streamed \cap {runtime.doing} : db.request[r].text = "sent"
    /\ runtime.doing # NoRequest /\ Ended({"prompt", "tool", "reasoning", "answer"})
    /\ runtime' = [runtime EXCEPT !.doing = NoRequest]
    /\ Launch([Hook("stop", "resolve", clock + 1) EXCEPT !.text = text])
    /\ UNCHANGED <<db, file, conv, pump, spent>>

\* The agent answers with c4-send --request-id, and the channel takes it or does not.
SendReply(sent) ==
    LET r == runtime.doing IN
    /\ r \in Streamed /\ Ended({"prompt"}) /\ db.request[r].status \in Open
    /\ db' = IF sent THEN CompleteRun(db, r, "sent") ELSE FailRun(db, r)
    /\ UNCHANGED <<file, conv, pump, runtime, hooks, clock, spent>>

Fault == spent.faults < MaxFaults /\ spent' = [spent EXCEPT !.faults = @ + 1]

\* A new runtime has a new session and nothing of what was typed to the old one.
RuntimeRestarts ==
    /\ Fault
    /\ \E s \in Sessions \ {runtime.session} :
          runtime' = [session |-> s, typed |-> {}, doing |-> NoRequest, prompted |-> TRUE]
    /\ UNCHANGED <<db, file, conv, pump, hooks, clock>>

HookDies(h) ==
    /\ Fault
    /\ hooks' = hooks \ {h}
    /\ runtime' = [runtime EXCEPT !.prompted = @ /\ h.kind # "prompt"]
    /\ UNCHANGED <<db, file, conv, pump, clock>>

\* A display batch whose hook died before its state was saved is emitted again, with
\* the time it was first observed at (message-display-sequencer.js).
HookIsRetried(h) ==
    /\ Fault
    /\ h.step = "mark"
    /\ hooks' = (hooks \ {h}) \cup {[h EXCEPT !.step = "touch", !.at = clock]}
    /\ UNCHANGED <<db, file, conv, pump, runtime, clock>>

Waiting(r) == db.request[r].status = "started" /\ ~db.request[r].quiet
\* Half a minute is longer than a hook may run (5 s), a paste takes, or an agent that
\* rests needs to take what was typed to it.
SilencePasses ==
    /\ hooks = {} /\ pump.step \notin {"send", "sent"}
    /\ runtime.doing = NoRequest => runtime.typed = {}
    /\ (Active(db) /\ ~db.turn.quiet) \/ \E r \in Streamed : Waiting(r)
    /\ db' = [db EXCEPT !.request = [r \in Streamed |->
                            IF Waiting(r) THEN [@[r] EXCEPT !.quiet = TRUE] ELSE @[r]],
                        !.turn = IF Active(db) THEN [@ EXCEPT !.quiet = TRUE] ELSE @]
    /\ UNCHANGED <<file, conv, pump, runtime, hooks, clock, spent>>

-----------------------------------------------------------------------------
(* Hook processes (emitAssistantLifecycle), one transaction at a time.     *)

Become(h, next) == hooks' = (hooks \ {h}) \cup (IF next.step = "done" THEN {} ELSE {next})
To(h, step) == Become(h, [h EXCEPT !.step = step])
HookKeeps == UNCHANGED <<conv, pump, runtime, clock, spent>>

\* resolveTurnBinding: the file decides; without one, the only run it could be.
AfterResolve(h) ==
    CASE h.kind = "stop" -> "finish" [] h.kind \in {"tool", "post"} -> "report" [] OTHER -> "append"
Resolve(d, h) ==
    LET f == file[h.session]
        next(r) == Become(h, [h EXCEPT !.request = r, !.step = AfterResolve(h)])
        give_up == IF h.kind = "stop" THEN next(NoRequest) ELSE To(h, "done")
        only == {r \in NextRun(d, h.session) : CanBind(d, r, h.session)}
    IN  IF f.mode # "none" \/ h.kind = "stop"
        THEN /\ IF f.mode = "bound" THEN next(f.request) ELSE give_up
             /\ db' = d /\ UNCHANGED file
        ELSE IF only # {}
        THEN \E r \in only : /\ db' = Bind(d, r, h.session)
                             /\ file' = Write(file, h.session, "bound", r, h.at)
                             /\ next(r)
        ELSE /\ db' = RejectBinding(d, h.session, h.at)
             /\ file' = Write(file, h.session, "rejected", NoRequest, h.at)
             /\ give_up

\* A prompt and a tool that is about to run are boundaries of a turn.
HookStarts(h) ==
    /\ h.step = "start"
    /\ LET started == StartTurn(db, h.session, h.at) IN
       IF Stale(db, h.at) \/ (db.turn.status = "started" /\ ~Started(db, h.session))
       THEN To(h, "done") /\ UNCHANGED <<db, file>>
       ELSE IF h.kind = "prompt" THEN db' = started /\ To(h, "bind") /\ UNCHANGED file
       ELSE Resolve(started, h)
    /\ HookKeeps

\* Any other hook only keeps its own, started turn alive.
HookTouches(h) ==
    /\ h.step = "touch"
    /\ IF Started(db, h.session) /\ ~Stale(db, h.at)
       THEN Resolve([db EXCEPT !.turn = Bump(@)], h)
       ELSE IF Active(db) THEN To(h, "done") /\ UNCHANGED <<db, file>>
       ELSE Resolve(db, h)
    /\ HookKeeps

PromptBinds(h) ==
    /\ h.step = "bind"
    /\ IF CanBind(db, h.request, h.session)
       THEN db' = Bind(db, h.request, h.session) /\ To(h, "bound")
       ELSE db' = RejectBinding(db, h.session, h.at) /\ To(h, "rejected")
    /\ UNCHANGED file /\ HookKeeps

HookWritesFile(h) ==
    /\ h.step \in {"bound", "rejected"}
    /\ file' = Write(file, h.session, h.step,
                     IF h.step = "bound" THEN h.request ELSE NoRequest, h.at)
    /\ To(h, "done")
    /\ UNCHANGED db /\ HookKeeps

StopReadsFile(h) ==
    /\ h.kind = "stop" /\ h.step = "resolve"
    /\ Resolve(db, h)
    /\ HookKeeps

Event(h, part, late) ==
    [request |-> h.request, id |-> h.id, part |-> part, of |-> h.of, at |-> h.seen, late |-> late,
     turn |-> IF Active(db) THEN db.turn.no ELSE 0]

\* ReportRequestToolProgress: only the start of a tool is activity.
HookReports(h) ==
    /\ h.step = "report"
    /\ LET r == h.request IN
       IF /\ db.request[r].status = "started" /\ VerifyOwnership(db, r, h.session, h.at)
          /\ ~Written(db, r, h, h.kind)
       THEN LET told == Append(db, r, Event(h, h.kind, FALSE))
            IN  db' = IF h.kind = "tool" THEN RecordActivity(told, r, h.at, h.id) ELSE told
       ELSE db' = db
    /\ To(h, "done")
    /\ UNCHANGED file /\ HookKeeps

\* AppendPublicReasoningDelta and AppendOutputDelta: after the end it is a dead letter.
HookAppends(h) ==
    /\ h.step = "append"
    /\ LET r == h.request
           live == db.request[r].status = "started"
           told == Append(db, r, Event(h, h.kind, ~live))
           longer == IF h.kind = "answer" THEN [told EXCEPT !.request[r].output = @ + 1] ELSE told
       IN  IF ~VerifyOwnership(db, r, h.session, h.seen) \/ Written(db, r, h, h.kind)
           THEN db' = db
           ELSE db' = IF live THEN RecordActivity(longer, r, h.seen, h.id) ELSE told
    /\ To(h, IF h.final THEN "mark" ELSE "done")
    /\ UNCHANGED file /\ HookKeeps

\* MarkFinalOutputCandidate
CausallyStale(t, h) == h.seen < t.seen.at \/ (h.seen = t.seen.at /\ h.id # t.seen.id)
HookMarks(h) ==
    /\ h.step = "mark"
    /\ LET r == h.request
           exact == {m \in db.marks : m.request = r /\ m.turn = db.turn.no /\ m.id = h.id}
           moved == RecordActivity(db, r, h.seen, h.id)
           mark == [request |-> r, turn |-> db.turn.no, id |-> h.id, session |-> h.session,
                    at |-> h.seen, output |-> db.request[r].output,
                    status |-> IF CausallyStale(db.turn, h) THEN "invalidated" ELSE "active"]
       IN  IF \/ db.request[r].status # "started" \/ db.request[r].session # h.session
              \/ ~VerifyOwnership(db, r, h.session, h.seen) \/ exact # {}
           THEN db' = db
           ELSE IF db.request[r].output = 0 THEN db' = moved
           ELSE db' = [CloseMarks(moved, r, "invalidated") EXCEPT !.marks = @ \cup {mark}]
    /\ To(h, "done")
    /\ UNCHANGED file /\ HookKeeps

\* finishRuntimeTurn, all of it in one transaction that a throw of CompleteRun undoes.
HookFinishes(h) ==
    /\ h.step = "finish"
    /\ LET t == db.turn
           r == t.request
           shown == IF h.text = "none" THEN ValidCandidate(db, r) ELSE {}
           text == IF h.text # "none" THEN h.text ELSE "shown"
           told == IF db.request[r].status \in Open
                   THEN Append(db, r, Event(h, "stop", FALSE)) ELSE db
           legacy == h.request
       IN  IF ~Active(db) /\ legacy # NoRequest
           THEN /\ IF h.text = "none" THEN db' = FailRun(db, legacy)
                   ELSE IF CanComplete(db, legacy, h.text)
                   THEN LET logged == Append(db, legacy, Event(h, "stop", FALSE))
                        IN  db' = CompleteRun(logged, legacy, h.text)
                   ELSE db' = db
                /\ Become(h, [h EXCEPT !.step = "close"])
           ELSE IF \/ ~Started(db, h.session) \/ Stale(db, h.at)
                   \/ h.request \notin {NoRequest, r}
                   \/ r # NoRequest /\ t.binding = "bound" /\ db.request[r].session # h.session
           THEN db' = db /\ To(h, "done")
           ELSE IF r = NoRequest THEN db' = EndTurn(db, h.session, h.at) /\ To(h, "done")
           ELSE IF t.binding = "bound" /\ (h.text # "none" \/ shown # {})
           THEN IF CanComplete(db, r, text)
                THEN /\ db' = EndTurn(CompleteRun(told, r, text), h.session, h.at)
                     /\ Become(h, [h EXCEPT !.step = "close", !.request = r])
                ELSE db' = db /\ To(h, "done")
           ELSE /\ db' = EndTurn(FailRun(db, r), h.session, h.at)
                /\ Become(h, [h EXCEPT !.step = "close", !.request = r])
    /\ UNCHANGED file /\ HookKeeps

HookCloses(h) ==
    /\ h.step = "close"
    /\ file' = Write(file, h.session, "closed", h.request, h.at)
    /\ db' = [db EXCEPT !.unprojected = {p \in @ : ~(p.session = h.session /\ p.at = h.at)}]
    /\ To(h, "done")
    /\ HookKeeps

-----------------------------------------------------------------------------
(* The dispatcher with the conversation it holds (processNextMessage), the *)
(* supervisor's expiry, and the next-state relation.                       *)

PumpKeeps == UNCHANGED <<runtime, hooks, spent>>
Release == pump' = [step |-> "rest", item |-> NoRequest]

\* The agent is idle, says the monitor: a turn is busy from the fact of its prompt hook
\* to the one its Stop hook publishes when it has closed the turn.
Idle == IF runtime.prompted THEN runtime.doing = NoRequest /\ Ended({"stop"}) ELSE TRUE

\* It rests between two passes; a pass takes the oldest conversation to an idle agent.
Oldest(i) == /\ pump.step = "rest" /\ conv[i] = "pending" /\ Idle
             /\ \A o \in Items : conv[o] = "pending" => i <= o

\* getActiveRuntimeTurn: an admission nobody has touched while the agent was idle.
LookAtTurn(i) ==
    /\ Oldest(i)
    /\ db.turn.status = "started" /\ db.turn.quiet
    /\ db' = [db EXCEPT !.turn.watched = TRUE]
    /\ pump' = [step |-> "recover", item |-> i]
    /\ UNCHANGED <<file, conv, clock>> /\ PumpKeeps

\* recoverRuntimeTurn, if the admission is still the one that was looked at.
RecoverTurn ==
    /\ pump.step = "recover" /\ Release
    /\ IF db.turn.status = "started" /\ db.turn.watched
       THEN LET r == db.turn.request
                shown == r # NoRequest /\ db.turn.binding = "bound" /\ ValidCandidate(db, r) # {}
                ended == IF r = NoRequest \/ db.request[r].status \notin Open THEN db
                         ELSE [CloseMarks(db, r, IF shown THEN "consumed" ELSE "invalidated") EXCEPT
                                   !.request[r].status = IF shown THEN "completed" ELSE "failed",
                                   !.request[r].text = IF shown THEN "shown" ELSE "none",
                                   !.request[r].quiet = FALSE]
            IN  db' = EndTurn(ended, db.turn.session, clock + 1) /\ clock' = clock + 1
       ELSE UNCHANGED <<db, clock>>
    /\ UNCHANGED <<file, conv>> /\ PumpKeeps

\* flushPendingRuntimeTurnBindingProjections, oldest first
Project(p) ==
    /\ \E i \in Items : Oldest(i)
    /\ \A o \in db.unprojected : p.at <= o.at
    /\ file' = Write(file, p.session, "closed", p.request, p.at)
    /\ db' = [db EXCEPT !.unprojected = @ \ {p}]
    /\ UNCHANGED <<conv, clock, pump>> /\ PumpKeeps

\* reconcileBlockingAssistantRun: another request that has started is in the way, unless
\* nothing has happened to it while the agent was idle (RecoverIdleRun).
Blocking(i) == {r \in Streamed \ {i} : db.request[r].status = "started"}
Unblock(i) ==
    /\ Oldest(i)
    /\ \E r \in Blocking(i) : db.request[r].quiet /\ db' = FailRun(db, r)
    /\ UNCHANGED <<file, conv, clock, pump>> /\ PumpKeeps

\* acquireRuntimeTurn: one admission at a time; a submitted one may be replaced once stale.
Admit(i) ==
    /\ Oldest(i) /\ db.unprojected = {} /\ Blocking(i) = {}
    /\ Active(db) => db.turn.status = "submitted" /\ db.turn.quiet
    /\ db' = [db EXCEPT
                  !.turns = @ + 1,
                  !.turn = [status |-> "submitted", no |-> db.turns + 1, item |-> i,
                            request |-> IF i \in Streamed THEN i ELSE NoRequest,
                            session |-> NoSession, since |-> clock + 1, binding |-> "pending",
                            seen |-> [at |-> 0, id |-> 0], quiet |-> FALSE, watched |-> FALSE]]
    /\ clock' = clock + 1
    /\ pump' = [step |-> "send", item |-> i]
    /\ UNCHANGED <<file, conv>> /\ PumpKeeps

Send ==
    /\ pump.step = "send"
    /\ conv' = [conv EXCEPT ![pump.item] = "delivered"]
    /\ runtime' = [runtime EXCEPT !.typed = @ \cup {pump.item}]
    /\ IF pump.item \in Streamed THEN pump' = [pump EXCEPT !.step = "sent"] ELSE Release
    /\ UNCHANGED <<db, file, clock, hooks, spent>>

\* The paste fails: releaseRuntimeTurn.  Enter is swallowed: the text may be there or not.
\* Seeded fault: the message counts as delivered.
SendFailsDropping(pasted) ==
    /\ pump.step = "send" /\ Fault /\ Release
    /\ conv' = [conv EXCEPT ![pump.item] = "delivered"]
    /\ UNCHANGED <<db, runtime, file, clock, hooks>>

SendFails(pasted) ==
    /\ pump.step = "send" /\ Fault /\ Release
    /\ \/ ~pasted /\ db' = [db EXCEPT !.turn = IF @.status = "submitted" /\ @.item = pump.item
                                               THEN NoTurn ELSE @]
                 /\ UNCHANGED runtime
       \/ pasted /\ db' = db /\ \/ UNCHANGED runtime
                                 \/ runtime' = [runtime EXCEPT !.typed = @ \cup {pump.item}]
    /\ UNCHANGED <<file, conv, clock, hooks>>

RecordStart ==
    /\ pump.step = "sent"
    /\ db' = StartRun(db, pump.item)
    /\ Release
    /\ UNCHANGED <<file, conv, clock>> /\ PumpKeeps

\* It dies, or the write that records the start fails.
PumpDies ==
    /\ pump.step # "rest" /\ Fault /\ Release
    /\ UNCHANGED <<db, file, conv, runtime, hooks, clock>>

\* ExpireStaleRuns: an active admission's own writes keep its request alive.
Silent(r) ==
    /\ db.request[r].status = "started" /\ db.request[r].quiet
    /\ db.turn.status = "started" /\ db.turn.request = r /\ db.turn.session = db.request[r].session
          => db.turn.quiet
ExpireStaleRuns ==
    /\ \E r \in Streamed : Silent(r)
    /\ db' = FailRuns(db, {r \in Streamed : Silent(r)})
    /\ UNCHANGED <<file, conv, pump, runtime, hooks, clock, spent>>

PumpSteps ==
    \/ \E i \in Items : LookAtTurn(i) \/ Unblock(i) \/ Admit(i)
    \/ \E p \in db.unprojected : Project(p)
    \/ RecoverTurn \/ Send \/ RecordStart
HookSteps == \E h \in hooks :
    \/ HookStarts(h) \/ HookTouches(h) \/ PromptBinds(h) \/ HookWritesFile(h) \/ StopReadsFile(h)
    \/ HookReports(h) \/ HookAppends(h) \/ HookMarks(h) \/ HookFinishes(h)
    \/ HookCloses(h)

TurnsNext ==
    \/ \E i \in Items : BeginTurn(i)
    \/ \E k \in Steps, at \in {clock, clock + 1} : Work(k, at)
    \/ \E text \in Texts : StopTurn(text)
    \/ \E sent \in BOOLEAN : SendReply(sent) \/ SendFails(sent)
    \/ RuntimeRestarts \/ (\E h \in hooks : HookDies(h) \/ HookIsRetried(h))
    \/ HookSteps \/ PumpSteps \/ PumpDies
    \/ SilencePasses \/ ExpireStaleRuns

TurnsSpec == TurnsInit /\ [][TurnsNext]_turnsVars

-----------------------------------------------------------------------------
TurnsTypeOK ==
    /\ \A i \in Streamed :
          /\ db.request[i].status \in Open \cup Terminal
          /\ db.request[i].session \in Sessions \cup {NoSession}
          /\ db.request[i].output \in Nat
    /\ db.turn.status \in {"none", "submitted", "started"}
    /\ db.turn.status = "submitted" => db.turn.session = NoSession
    /\ db.turn.status = "started" => db.turn.session \in Sessions
    /\ \A s \in Sessions : file[s].mode \in {"none", "bound", "rejected", "closed"}
    /\ conv \in [Items -> {"pending", "delivered"}]
    /\ pump.item \in Items \cup {NoRequest}
    /\ runtime.typed \subseteq Items /\ runtime.doing \in Items \cup {NoRequest}
    /\ Cardinality(hooks) <= MaxInFlight

(* What the database says of the turns holds together. *)

(* Whatever a turn did is recorded for the request whose prompt began it, however late
   its hook comes and whatever has been admitted meanwhile (hook-activity.js:255 says
   that late hooks must never promote a newly queued admission).  Of a turn whose prompt
   hook was lost nobody knows the request. *)
ActivityStaysInItsTurn == \A e \in db.events : e.of \in {e.request, NoRequest}

(* A request that idle recovery completed with the text its user had been shown is
   complete: the text is that of the mark, and nothing the agent did in the turn came
   after it (validFinalOutputCandidate, assistant-response-stream.js:539). *)
RecoveredAnswerWasLast ==
    \A r \in Streamed : db.request[r].status = "completed" /\ db.request[r].text = "shown" =>
        \E m \in db.marks :
            /\ m.request = r /\ m.status = "consumed" /\ m.output = db.request[r].output
            /\ \A e \in db.events :
                  /\ e.request = r /\ e.turn = m.turn /\ ~e.late
                  /\ e.part \in {"tool", "reasoning", "answer"}
                  => e.at < m.at \/ (e.at = m.at /\ e.id = m.id)

(* A batch that is emitted again is shown once (assistant-response-stream.js:370). *)
OutputOnce ==
    \A r \in Streamed : db.request[r].output =
        Cardinality({e \in db.events : e.request = r /\ e.part = "answer" /\ ~e.late})

(* A session works on one open request (assistant-response-stream.js:822). *)
SessionHasOneRequest ==
    \A r, o \in Streamed : r # o /\ {db.request[r].status, db.request[o].status} \subseteq Open
        => db.request[r].session = NoSession \/ db.request[r].session # db.request[o].session

TurnsTellOneStory ==
    ActivityStaysInItsTurn /\ RecoveredAnswerWasLast /\ OutputOnce /\ SessionHasOneRequest

(* A request that has not started is never forgotten: its message waits, is held by the
   dispatcher or typed to the agent, the agent works on it, or the Stop hook of its turn
   is still to come.  ExpireStaleRuns and RecoverIdleRun end only requests that have
   started (assistant-response-stream.js:1544, 1569), so nothing else would end it. *)
SomebodyEndsIt ==
    \A r \in Streamed : db.request[r].status = "queued" =>
        \/ conv[r] = "pending" \/ pump.item = r
        \/ r \in runtime.typed \/ runtime.doing = r
        \/ \E h \in hooks : h.kind = "stop" /\ h.of \in {r, NoRequest}
=============================================================================
