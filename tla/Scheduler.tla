------------------------------- MODULE Scheduler ------------------------------
(***************************************************************************)
(* The scheduler's tasks and their runs.  One daemon claims due tasks,     *)
(* sends each run to the agent through C4, schedules repeating tasks again *)
(* and times out runs (daemon.js, daemon-tasks.js, task-dispatch.js,       *)
(* task-runs.js).  Beside it the agent and people call the CLI (cli.js),   *)
(* whose processes share only the database with the daemon.                *)
(*                                                                         *)
(* An action is what no other process can see halfway: one transaction,    *)
(* one statement, or a read whose conditions its write states again.  Two  *)
(* commands, pause and resume, write without looking again; they take two  *)
(* actions, and so does a dispatch, since the daemon waits for C4 between  *)
(* its claim and its verdict.  Of a task's history only its newest run and *)
(* the number of older runs still open can matter.                         *)
(***************************************************************************)
EXTENDS Naturals

CONSTANTS
    Tasks,       \* an id is random; a removed task's name serves a new one when no process holds it
    NoTask,
    Callers,     \* CLI processes that may be under way at once
    MaxCommands, \* add, update, remove, pause and resume
    MaxMishaps   \* failed sends, crashes of the daemon, absences of the agent

ASSUME SchedulerAssumption ==
    NoTask \notin Tasks /\ MaxCommands \in Nat /\ MaxMishaps \in Nat

VARIABLES
    tasks,    \* the table tasks
    history,  \* the table task_history
    daemon,   \* where the daemon is in its loop, the tasks it has read there, and the one it sends
    cli,      \* pause and resume commands between their read and their write
    alive,    \* the agent is busy or idle, says the status file
    commands,
    mishaps

schedulerVars == <<tasks, history, daemon, cli, alive, commands, mishaps>>

Task == [
    status : {"gone", "pending", "running", "completed", "failed", "paused"},
    repeats : BOOLEAN,             \* recurring or interval, not one-time
    due : {"no", "due", "late"},   \* next_run_at: ahead, past, past by more than miss_threshold
    stale : BOOLEAN,               \* updated_at is more than TASK_TIMEOUT ago
    error : BOOLEAN]               \* last_error and failed_at

History == [
    last : {"none", "started", "success", "failed", "timeout"}, \* the newest run
    open : Nat]                                                 \* older runs still "started"

Added(repeats) == [status |-> "pending", repeats |-> repeats, due |-> "no",
                   stale |-> FALSE, error |-> FALSE]
Gone == [Added(FALSE) EXCEPT !.status = "gone"]
NoRuns == [last |-> "none", open |-> 0]
Idle == [cmd |-> "none", task |-> NoTask]
At(pc, todo) == [pc |-> pc, todo |-> todo, task |-> NoTask]

SchedulerTypeOK ==
    /\ tasks \in [Tasks -> Task]
    /\ history \in [Tasks -> History]
    /\ \A t \in Tasks : tasks[t].status = "gone" => history[t] = NoRuns
    /\ daemon \in [pc : {"down", "boot", "asleep", "pick", "completed", "missed", "stale",
                         "sendPicked", "sendMissed"},
                   todo : SUBSET Tasks, task : Tasks \cup {NoTask}]
    /\ (daemon.pc \in {"sendPicked", "sendMissed"}) = (daemon.task # NoTask)
    /\ cli \in [Callers -> [cmd : {"none", "pause", "resume"}, task : Tasks \cup {NoTask}]]
    /\ alive \in BOOLEAN
    /\ commands \in 0..MaxCommands
    /\ mishaps \in 0..MaxMishaps

SchedulerInit ==
    /\ tasks \in [Tasks -> {Added(TRUE), Added(FALSE), Gone}]
    /\ history = [t \in Tasks |-> NoRuns]
    /\ daemon = At("down", {})
    /\ cli = [c \in Callers |-> Idle]
    /\ alive \in BOOLEAN
    /\ commands = 0
    /\ mishaps = 0

Mishap == mishaps < MaxMishaps /\ mishaps' = mishaps + 1
Command == commands < MaxCommands /\ commands' = commands + 1

-----------------------------------------------------------------------------
(* Changes of one task and its runs *)

\* The row of a claimed run; the run before it stays open if nothing has ended it.
Begun(h) == [last |-> "started", open |-> IF h.last = "started" THEN h.open + 1 ELSE h.open]

\* The id of the active run is that of the newest open one.
Active(h) ==
    IF h.last = "started" THEN "last" ELSE IF h.open > 0 THEN "older" ELSE "none"
RunEnded(h, which, outcome) ==
    IF which = "last" THEN [h EXCEPT !.last = outcome] ELSE [h EXCEPT !.open = @ - 1]

Overrun(t) == tasks[t].status = "running" /\ tasks[t].stale /\ Active(history[t]) # "none"
ToReschedule(t) == tasks[t].status = "completed" /\ tasks[t].repeats
Overdue(t) == tasks[t].status = "pending" /\ tasks[t].repeats /\ tasks[t].due # "no"

\* updateNextRunTime; a cron expression that no longer has a next time fails the task.
\* Seeded fault: the new time is written and the status is not.
RescheduledInPlace(t) ==
    tasks' \in {[tasks EXCEPT ![t].due = "no", ![t].stale = FALSE],
                [tasks EXCEPT ![t].status = "failed", ![t].error = TRUE, ![t].stale = FALSE]}
Rescheduled(t) ==
    tasks' \in {[tasks EXCEPT ![t].status = "pending", ![t].due = "no", ![t].stale = FALSE],
                [tasks EXCEPT ![t].status = "failed", ![t].error = TRUE, ![t].stale = FALSE]}

-----------------------------------------------------------------------------
(* The daemon *)

\* Each phase reads its tasks once.  A missed task is more than five minutes overdue, whatever
\* its own threshold is.
Begins(pc) ==
    CASE pc = "completed" -> daemon' = At(pc, {t \in Tasks : ToReschedule(t)}')
      [] pc = "missed" -> \E todo \in SUBSET {t \in Tasks : Overdue(t)} : daemon' = At(pc, todo)
      [] OTHER -> daemon' = At(pc, {t \in Tasks : Overrun(t)})
HandledOf(t) == daemon' = [daemon EXCEPT !.todo = @ \ {t}]

DaemonStarts ==
    /\ daemon.pc = "down"
    /\ Begins("boot")
    /\ UNCHANGED <<tasks, history, cli, alive, commands, mishaps>>

\* What it was sending may have reached the agent or not.
DaemonCrashes ==
    /\ daemon.pc # "down" /\ Mishap
    /\ daemon' = At("down", {})
    /\ UNCHANGED <<tasks, history, cli, alive, commands>>

Wakes ==
    /\ daemon.pc = "asleep" /\ alive
    /\ daemon' = At("pick", {})
    /\ UNCHANGED <<tasks, history, cli, alive, commands, mishaps>>

\* startTaskRun: the claim and the run's row in one transaction.
Claim(t) ==
    /\ tasks[t].status = "pending" /\ tasks[t].due = "due"
    /\ tasks' = [tasks EXCEPT ![t].status = "running", ![t].stale = FALSE]
    /\ history' = [history EXCEPT ![t] = Begun(@)]
    /\ daemon' = [pc |-> IF daemon.pc = "pick" THEN "sendPicked" ELSE "sendMissed",
                  todo |-> daemon.todo \ {t}, task |-> t]
    /\ UNCHANGED <<cli, alive, commands, mishaps>>

Sending == daemon.pc \in {"sendPicked", "sendMissed"}
AfterDispatch ==
    IF daemon.pc = "sendPicked" THEN Begins("completed") ELSE daemon' = At("missed", daemon.todo)

SendSucceeds ==
    /\ Sending
    /\ UNCHANGED <<tasks, history, cli, alive, commands, mishaps>>
    /\ AfterDispatch

\* A task that is no longer running ends the pass of the loop with an error instead.
SendFails ==
    /\ Sending /\ Mishap
    /\ LET t == daemon.task
       IN  IF tasks[t].status = "running"
           THEN /\ tasks' = [tasks EXCEPT ![t].status = "pending", ![t].error = TRUE, ![t].stale = FALSE]
                /\ history' = [history EXCEPT ![t].last = "failed"]
                /\ AfterDispatch
           ELSE /\ daemon' = At("asleep", {})
                /\ UNCHANGED <<tasks, history>>
    /\ UNCHANGED <<cli, alive, commands>>

\* One due task: dispatched or, when it is too late for it, failed or scheduled again.
Picks(t) == daemon.pc = "pick" /\ Claim(t)
PicksLate(t) ==
    /\ daemon.pc = "pick"
    /\ tasks[t].status = "pending" /\ tasks[t].due = "late"
    /\ IF tasks[t].repeats THEN Rescheduled(t)
       ELSE tasks' = [tasks EXCEPT ![t].status = "failed", ![t].error = TRUE, ![t].stale = FALSE]
    /\ Begins("completed")
    /\ UNCHANGED <<history, cli, alive, commands, mishaps>>
PicksNone ==
    /\ daemon.pc = "pick"
    /\ \A t \in Tasks : ~(tasks[t].status = "pending" /\ tasks[t].due # "no")
    /\ UNCHANGED <<tasks, history, cli, alive, commands, mishaps>>
    /\ Begins("completed")

\* processCompletedTasks: each write looks at the task again.
Reschedules(t) ==
    /\ daemon.pc = "completed" /\ t \in daemon.todo
    /\ IF ToReschedule(t) THEN Rescheduled(t) ELSE UNCHANGED tasks
    /\ HandledOf(t)
    /\ UNCHANGED <<history, cli, alive, commands, mishaps>>

\* handleMissedTasks: within its own threshold the task is dispatched, past it it is skipped; a
\* task that changed since the phase read it, or an absent agent, leaves it as it is.
DispatchesMissed(t) ==
    /\ daemon.pc = "missed" /\ t \in daemon.todo /\ alive
    /\ Claim(t)
SkipsMissed(t) ==
    /\ daemon.pc = "missed" /\ t \in daemon.todo
    /\ Overdue(t) /\ tasks[t].due = "late"
    /\ Rescheduled(t) /\ HandledOf(t)
    /\ UNCHANGED <<history, cli, alive, commands, mishaps>>
LeavesMissed(t) ==
    /\ daemon.pc = "missed" /\ t \in daemon.todo
    /\ ~alive \/ ~(tasks[t].status = "pending" /\ tasks[t].due = "due")
    /\ HandledOf(t)
    /\ UNCHANGED <<tasks, history, cli, alive, commands, mishaps>>

\* handleStaleRunningTasks, when the daemon starts and at the end of each pass.
TimesOut(t) ==
    /\ daemon.pc \in {"boot", "stale"} /\ t \in daemon.todo
    /\ IF Overrun(t)
       THEN /\ tasks' = [tasks EXCEPT ![t].status = IF tasks[t].repeats THEN "completed" ELSE "failed",
                                      ![t].error = TRUE, ![t].stale = FALSE]
            /\ history' = [history EXCEPT ![t] = RunEnded(@, Active(@), "timeout")]
       ELSE UNCHANGED <<tasks, history>>
    /\ HandledOf(t)
    /\ UNCHANGED <<cli, alive, commands, mishaps>>

Proceeds ==
    /\ daemon.todo = {}
    /\ \/ daemon.pc = "completed" /\ Begins("missed")
       \/ daemon.pc = "missed" /\ Begins("stale")
       \/ daemon.pc \in {"boot", "stale"} /\ daemon' = At("asleep", {})
    /\ UNCHANGED <<tasks, history, cli, alive, commands, mishaps>>

DaemonStep ==
    \/ DaemonStarts \/ Wakes \/ SendSucceeds \/ PicksNone \/ Proceeds
    \/ \E t \in Tasks : \/ Picks(t) \/ PicksLate(t) \/ Reschedules(t) \/ TimesOut(t)
                        \/ DispatchesMissed(t) \/ SkipsMissed(t) \/ LeavesMissed(t)

-----------------------------------------------------------------------------
(* The CLI *)

\* cmdDone, with the id of any run of the task: only the active run of a running task ends.
\* Seeded fault: any open run of the task will do.
DoneAny(t, which) ==
    /\ IF which = "last" THEN history[t].last = "started" ELSE history[t].open > 0
    /\ tasks[t].status = "running"
    /\ tasks' = [tasks EXCEPT ![t].status = "completed", ![t].error = FALSE, ![t].stale = FALSE]
    /\ history' = [history EXCEPT ![t] = RunEnded(@, which, "success")]
    /\ UNCHANGED <<daemon, cli, alive, commands, mishaps>>
Done(t, which) ==
    /\ Active(history[t]) = which
    /\ tasks[t].status = "running"
    /\ tasks' = [tasks EXCEPT ![t].status = "completed", ![t].error = FALSE, ![t].stale = FALSE]
    /\ history' = [history EXCEPT ![t] = RunEnded(@, which, "success")]
    /\ UNCHANGED <<daemon, cli, alive, commands, mishaps>>

Held(t) == t \in daemon.todo \cup {daemon.task} \/ \E c \in Callers : cli[c].task = t

cmdAdd(t) ==
    /\ tasks[t].status = "gone" /\ ~Held(t) /\ Command
    /\ \E repeats \in BOOLEAN : tasks' = [tasks EXCEPT ![t] = Added(repeats)]
    /\ UNCHANGED <<history, daemon, cli, alive, mishaps>>

\* The history goes with the task.
cmdRemove(t) ==
    /\ tasks[t].status # "gone" /\ Command
    /\ tasks' = [tasks EXCEPT ![t] = Gone]
    /\ history' = [history EXCEPT ![t] = NoRuns]
    /\ UNCHANGED <<daemon, cli, alive, mishaps>>

\* Whatever the status: a new schedule, a new threshold, or only the time of the update.
cmdUpdate(t) ==
    /\ tasks[t].status # "gone" /\ Command
    /\ \E repeats \in BOOLEAN, due \in {"no", "due", "late"} :
          /\ due = "no" \/ (tasks[t].due # "no" /\ repeats = tasks[t].repeats)
          /\ tasks' = [tasks EXCEPT ![t].repeats = repeats, ![t].due = due, ![t].stale = FALSE]
    /\ UNCHANGED <<history, daemon, cli, alive, mishaps>>

Reads(c, cmd, t) ==
    /\ cli[c] = Idle /\ Command
    /\ tasks[t].status = IF cmd = "pause" THEN "pending" ELSE "paused"
    /\ cli' = [cli EXCEPT ![c] = [cmd |-> cmd, task |-> t]]
    /\ UNCHANGED <<tasks, history, daemon, alive, mishaps>>
cmdPause(c, t) == Reads(c, "pause", t)
cmdResume(c, t) == Reads(c, "resume", t)

\* By its id, whatever the task's status is by now.
Writes(c) ==
    /\ cli[c] # Idle
    /\ LET t == cli[c].task
       IN  IF tasks[t].status = "gone" THEN UNCHANGED tasks
           ELSE tasks' = [tasks EXCEPT ![t].stale = FALSE, ![t].status =
                             IF cli[c].cmd = "pause" THEN "paused" ELSE "pending"]
    /\ cli' = [cli EXCEPT ![c] = Idle]
    /\ UNCHANGED <<history, daemon, alive, commands, mishaps>>

-----------------------------------------------------------------------------
(* Time and the agent's absences *)

DueComes(t) ==
    /\ tasks[t].status # "gone" /\ tasks[t].due # "late"
    /\ tasks' = [tasks EXCEPT ![t].due = IF @ = "no" THEN "due" ELSE "late"]
    /\ UNCHANGED <<history, daemon, cli, alive, commands, mishaps>>

HourPasses(t) ==
    /\ tasks[t].status = "running" /\ ~tasks[t].stale
    /\ tasks' = [tasks EXCEPT ![t].stale = TRUE]
    /\ UNCHANGED <<history, daemon, cli, alive, commands, mishaps>>

AgentLeaves ==
    /\ alive /\ Mishap
    /\ alive' = FALSE
    /\ UNCHANGED <<tasks, history, daemon, cli, commands>>
AgentReturns ==
    /\ ~alive
    /\ alive' = TRUE
    /\ UNCHANGED <<tasks, history, daemon, cli, commands, mishaps>>

-----------------------------------------------------------------------------
SchedulerNext ==
    \/ DaemonStep \/ DaemonCrashes \/ SendFails
    \/ \E t \in Tasks :
          \/ \E which \in {"last", "older"} : Done(t, which)
          \/ cmdAdd(t) \/ cmdRemove(t) \/ cmdUpdate(t)
          \/ \E c \in Callers : cmdPause(c, t) \/ cmdResume(c, t)
          \/ DueComes(t) \/ HourPasses(t)
    \/ \E c \in Callers : Writes(c)
    \/ AgentLeaves \/ AgentReturns

\* PM2 starts the daemon again, its loop goes on, time passes, the agent comes back.  Among tasks
\* of one priority the daemon picks the one due first, so that each has its turn; a task below
\* others of a higher priority may wait as long as those are due, and is not modelled.
SchedulerFairness ==
    /\ WF_schedulerVars(DaemonStep) /\ WF_schedulerVars(AgentReturns)
    /\ \A t \in Tasks : /\ SF_schedulerVars(Picks(t) \/ PicksLate(t))
                        /\ WF_schedulerVars(HourPasses(t))
                        /\ WF_schedulerVars(tasks[t].due = "due" /\ DueComes(t))

SchedulerSpec == SchedulerInit /\ [][SchedulerNext]_schedulerVars /\ SchedulerFairness

-----------------------------------------------------------------------------
(* Properties *)

\* A task and its newest run tell one story: a running task's newest run is open, so that the
\* command its message carries can end it; a completed task's has ended, and its error says how;
\* a run that failed or timed out has left its error on the task.  It holds although a pause or
\* resume that comes late may leave an open run behind, whose completion must then find nothing
\* to complete (task-runs.js:13-147, task-dispatch.js:33-55).
StoryAgrees ==
    \A t \in Tasks :
       LET task == tasks[t]  last == history[t].last
       IN  /\ task.status = "running" => last = "started"
           /\ task.status = "completed" => last = IF task.error THEN "timeout" ELSE "success"
           /\ last \in {"failed", "timeout"} => task.error

\* Nothing waits for ever: a run ends or is timed out, however the daemon crashed between its
\* claim, its message and its verdict; a due task is dispatched or given up; a repeating task
\* that has run is scheduled again (daemon.js:139-204, daemon-tasks.js:86-138).
WorkIsSettled ==
    \A t \in Tasks :
       /\ tasks[t].status = "running" ~> tasks[t].status # "running"
       /\ (tasks[t].status = "pending" /\ tasks[t].due # "no")
             ~> ~(tasks[t].status = "pending" /\ tasks[t].due # "no")
       /\ ToReschedule(t) ~> ~ToReschedule(t)
=============================================================================
