------------------------------- MODULE TaskRuns -------------------------------
(***************************************************************************)
(* Tasks and the runs that execute them (skills/commitment-core/scripts/   *)
(* core.js and task-runs.js).  A task is a versioned state machine; a run  *)
(* is a lease of one worker on a task in progress.  Every operation is one *)
(* immediate transaction: it writes the task, its event, the outbox row of *)
(* that event, the run and the run's event together, or nothing.           *)
(*                                                                         *)
(* A request that repeats an idempotency key is answered from its receipt  *)
(* or refused and is no step; a run is named by the key of its claim, so a *)
(* repeated claim is no step either.  A lease lasts as long as its claimer *)
(* asked for: it may run out at any time and in any order.                 *)
(***************************************************************************)
EXTENDS Naturals, Sequences, FiniteSets

CONSTANTS
    Tasks,         \* ids of tasks, one per source key
    Runs,          \* idempotency keys of claims, the ids of runs
    RunWorkers,    \* workerId: the runtime processes
    Owner,         \* ownerId of every task
    Acceptor,      \* acceptorId
    Assignee,      \* assigneeId, or NoOne
    NoOne,
    CommandTypes,  \* the task commands callers use
    MaxVersion,    \* bound on the versions of a task
    MaxRunVersion, \* bound on the versions of a run, that is on heartbeats
    SweepLimit     \* how many runs one sweep expires at most

Actors == {Owner, Acceptor, Assignee} \ {NoOne}
TaskStates == {"ready", "in_progress", "review", "done", "cancelled"}
RunStatuses == {"active", "completed", "released", "expired", "interrupted"}

\* The actor who works on a task.
Executor == IF Assignee = NoOne THEN Owner ELSE Assignee

Judges == {Owner, Acceptor}
Open == {"ready", "in_progress", "review"}
Participants == Judges \cup ({Assignee} \ {NoOne})

Transition(from, to, event, by) == [from |-> from, to |-> to, event |-> event, by |-> by]
COMMAND_DEFINITIONS == [
    StartTask |-> Transition({"ready"}, "in_progress", "TaskStarted", {Executor}),
    SubmitForReview |->
        Transition({"in_progress"}, "review", "TaskSubmittedForReview", {Executor}),
    AcceptTask |-> Transition({"review"}, "done", "TaskAccepted", {Acceptor}),
    RequestChanges |-> Transition({"review"}, "ready", "TaskChangesRequested", {Acceptor}),
    CancelTask |-> Transition(Open, "cancelled", "TaskCancelled", Judges),
    ReopenTask |-> Transition({"done"}, "ready", "TaskReopened", Judges),
    UpdateTaskReminder |-> Transition(Open, "same", "TaskReminderUpdated", Judges),
    PostponeTask |-> Transition(Open, "same", "TaskDueUpdated", Participants),
    ReportTaskProgress |-> Transition(Open, "same", "TaskProgressReported", Participants)]

ASSUME TaskRunsAssumption ==
    /\ NoOne \notin {Owner, Acceptor}
    /\ CommandTypes \subseteq DOMAIN COMMAND_DEFINITIONS
    /\ MaxVersion \in Nat
    /\ MaxRunVersion \in Nat \ {0}
    /\ SweepLimit \in Nat \ {0}
    /\ IsFiniteSet(Runs)

VARIABLES
    task,       \* commitment_tasks
    taskEvents, \* the events of each task, by version
    outbox,     \* commitment_projection_outbox: which event, in the order of its rows
    run,        \* commitment_task_runs
    runEvents   \* the events of each run, by run version

taskVars == <<task, taskEvents, outbox, run, runEvents>>

NoTask == [state |-> "none", version |-> 0]
Task == [state : TaskStates, version : 1..MaxVersion]
TaskEventTypes == {"TaskCreated", "TaskStarted", "TaskSubmittedForReview", "TaskAccepted",
    "TaskChangesRequested", "TaskCancelled", "TaskReopened", "TaskReminderUpdated",
    "TaskDueUpdated", "TaskProgressReported", "TaskRunReleased"}
TaskEvent == [type : TaskEventTypes, from : TaskStates \cup {"none"}, to : TaskStates]

NoRun == [status |-> "none"]
Run == [task : Tasks, worker : RunWorkers, status : RunStatuses, version : 1..MaxRunVersion + 1,
        live : BOOLEAN]
RunEvent == [type : {"Claimed", "Heartbeat", "completed", "released", "expired", "interrupted"},
             taskVersion : 1..MaxVersion]

TasksTypeOK ==
    /\ task \in [Tasks -> Task \cup {NoTask}]
    /\ taskEvents \in [Tasks -> Seq(TaskEvent)]
    /\ outbox \in Seq(Tasks \X (1..MaxVersion))
    /\ run \in [Runs -> Run \cup {NoRun}]
    /\ runEvents \in [Runs -> Seq(RunEvent)]

TasksInit ==
    /\ task = [t \in Tasks |-> NoTask]
    /\ taskEvents = [t \in Tasks |-> <<>>]
    /\ outbox = <<>>
    /\ run = [r \in Runs |-> NoRun]
    /\ runEvents = [r \in Runs |-> <<>>]

ActiveRuns(t) == {r \in Runs : run[r].status = "active" /\ run[r].task = t}

-----------------------------------------------------------------------------
(* Tasks *)

\* Moves the task to a state, with its event and the event's outbox row.
TaskMoves(t, to, type) ==
    LET version == task[t].version + 1
    IN  /\ version <= MaxVersion
        /\ task' = [task EXCEPT ![t] = [state |-> to, version |-> version]]
        /\ taskEvents' = [taskEvents EXCEPT ![t] = Append(@,
               [type |-> type, from |-> task[t].state, to |-> to])]
        /\ outbox' = Append(outbox, <<t, version>>)

\* Ends or renews a run, with its event.
\* Seeded fault: the status stays as it was.
RunBecomesSilently(r, status, type, taskVersion) ==
    /\ run' = [run EXCEPT ![r].version = @ + 1]
    /\ runEvents' = [runEvents EXCEPT ![r] = Append(@,
           [type |-> type, taskVersion |-> taskVersion])]
RunBecomes(r, status, type, taskVersion) ==
    /\ run' = [run EXCEPT ![r].status = status, ![r].version = @ + 1]
    /\ runEvents' = [runEvents EXCEPT ![r] = Append(@,
           [type |-> type, taskVersion |-> taskVersion])]

\* ingest: a task is created once per source.
Ingest(t) ==
    /\ task[t] = NoTask
    /\ TaskMoves(t, "ready", "TaskCreated")
    /\ UNCHANGED <<run, runEvents>>

\* What a command does to the run of its task (coordinateTaskCommand).
\* Seeded fault: cancelling leaves the run alone.
CoordinatedIdly(t, type) ==
    /\ type = "SubmitForReview" => ActiveRuns(t) = {}
    /\ UNCHANGED <<run, runEvents>>
Coordinated(t, type) ==
    /\ type = "SubmitForReview" => ActiveRuns(t) = {}
    /\ IF type = "CancelTask" /\ ActiveRuns(t) # {}
       THEN \E r \in ActiveRuns(t) :
                RunBecomes(r, "interrupted", "interrupted", task[t].version + 1)
       ELSE UNCHANGED <<run, runEvents>>

\* A command whose expected version is the task's.  A reminder, date or report that
\* changes nothing leaves the task alone and is no step.
Command(t, type, actor) ==
    LET definition == COMMAND_DEFINITIONS[type]
    IN  /\ task[t].state \in definition.from
        /\ actor \in definition.by
        /\ TaskMoves(t, IF definition.to = "same" THEN task[t].state ELSE definition.to,
                     definition.event)
        /\ Coordinated(t, type)

-----------------------------------------------------------------------------
(* Runs *)

\* Seeded fault: a run starts without a version.
NewRunUnversioned(t, w) ==
    [task |-> t, worker |-> w, status |-> "active", version |-> 0, live |-> TRUE]
NewRun(t, w) == [task |-> t, worker |-> w, status |-> "active", version |-> 1, live |-> TRUE]

\* The task's state and version after a claim.
Started(t) ==
    IF task[t].state = "ready"
    THEN TaskMoves(t, "in_progress", "TaskStarted")
    ELSE UNCHANGED <<task, taskEvents, outbox>>

\* The tables of runs with the new run, and the expired one of before, if any.
Admitted(r, t, w, taskVersion) ==
    /\ \A old \in ActiveRuns(t) : ~run[old].live
    /\ run' = [x \in Runs |->
           IF x = r THEN NewRun(t, w)
           ELSE IF x \in ActiveRuns(t)
                THEN [run[x] EXCEPT !.status = "expired", !.version = @ + 1]
                ELSE run[x]]
    /\ runEvents' = [x \in Runs |->
           IF x = r THEN <<[type |-> "Claimed", taskVersion |-> taskVersion]>>
           ELSE IF x \in ActiveRuns(t)
                THEN Append(runEvents[x], [type |-> "expired", taskVersion |-> task[t].version])
                ELSE runEvents[x]]

Claim(r, t, w) ==
    /\ run[r] = NoRun
    /\ task[t].state \in {"ready", "in_progress"}
    /\ Started(t)
    /\ Admitted(r, t, w, task'[t].version)

\* assertActiveLease.
HoldsLease(r, w) ==
    /\ run[r].status = "active"
    /\ run[r].live
    /\ run[r].worker = w

Heartbeat(r, w) ==
    /\ HoldsLease(r, w)
    /\ run[r].version < MaxRunVersion
    /\ task[run[r].task].state = "in_progress"
    /\ RunBecomes(r, "active", "Heartbeat", task[run[r].task].version)
    /\ UNCHANGED <<task, taskEvents, outbox>>

\* complete and release.
Finish(r, w, status, to, event) ==
    LET t == run[r].task
    IN  /\ HoldsLease(r, w)
        /\ task[t].state = "in_progress"
        /\ TaskMoves(t, to, event)
        /\ RunBecomes(r, status, status, task[t].version + 1)
Complete(r, w) == Finish(r, w, "completed", "review", "TaskSubmittedForReview")
Release(r, w) == Finish(r, w, "released", "ready", "TaskRunReleased")

\* sweepExpired; the task stays in progress, for a later claim.
Sweep ==
    LET Expired == {r \in Runs : run[r].status = "active" /\ ~run[r].live}
    IN  /\ Expired # {}
        /\ \E batch \in SUBSET Expired :
            /\ Cardinality(batch) =
                 IF Cardinality(Expired) < SweepLimit THEN Cardinality(Expired) ELSE SweepLimit
            /\ run' = [r \in Runs |-> IF r \in batch
                   THEN [run[r] EXCEPT !.status = "expired", !.version = @ + 1] ELSE run[r]]
            /\ runEvents' = [r \in Runs |-> IF r \in batch
                   THEN Append(runEvents[r],
                               [type |-> "expired", taskVersion |-> task[run[r].task].version])
                   ELSE runEvents[r]]
        /\ UNCHANGED <<task, taskEvents, outbox>>

\* Time passes beyond the end of a lease.
RunLeaseEnds(r) ==
    /\ run[r].status = "active"
    /\ run[r].live
    /\ run' = [run EXCEPT ![r].live = FALSE]
    /\ UNCHANGED <<task, taskEvents, outbox, runEvents>>

TaskStep ==
    \/ \E t \in Tasks : Ingest(t)
    \/ \E t \in Tasks, type \in CommandTypes, actor \in Actors : Command(t, type, actor)
    \/ \E r \in Runs, t \in Tasks, w \in RunWorkers : Claim(r, t, w)
    \/ \E r \in Runs, w \in RunWorkers : Heartbeat(r, w) \/ Complete(r, w) \/ Release(r, w)
    \/ \E r \in Runs : RunLeaseEnds(r)

-----------------------------------------------------------------------------
(* Properties of tasks and runs *)

\* An active run is the only one of its task, and its task is in progress: no command, claim,
\* finish or sweep leaves a worker with a lease on a task that has moved on, or two workers
\* with one task (task-runs.js:276, 536, 592, 676).
ActiveRunOwnsTask ==
    \A r \in Runs : run[r].status = "active" =>
        /\ task[run[r].task].state = "in_progress"
        /\ ActiveRuns(run[r].task) = {r}

\* What the events of a task tell: they follow each other without a gap from its creation, each
\* starts where the one before ended, and the last one ended in the task's state and version.
TaskStory(t) ==
    LET E == taskEvents[t]
    IN  /\ Len(E) = task[t].version
        /\ \A i \in DOMAIN E : E[i].from = IF i = 1 THEN "none" ELSE E[i - 1].to
        /\ E # <<>> => E[1].type = "TaskCreated" /\ E[Len(E)].to = task[t].state

\* What the events of a run tell: claimed, renewed, then ended once in the way its status says;
\* their task versions never go back, and a run that ended by finishing or by a cancellation
\* names the version of the task event of that end.
RunStory(r) ==
    LET E == runEvents[r]
        end == E[Len(E)]
        T == taskEvents[run[r].task]
    IN  run[r] # NoRun =>
        /\ Len(E) = run[r].version
        /\ E[1].type = "Claimed"
        /\ \A i \in 2..Len(E) - 1 : E[i].type = "Heartbeat"
        /\ \A i \in 2..Len(E) : E[i - 1].taskVersion <= E[i].taskVersion
        /\ IF run[r].status = "active" THEN end.type \in {"Claimed", "Heartbeat"}
           ELSE end.type = run[r].status
        /\ end.type = "completed" => T[end.taskVersion].to = "review"
        /\ end.type = "released" => T[end.taskVersion].to = "ready"
        /\ end.type = "interrupted" => T[end.taskVersion].to = "cancelled"

\* The histories of tasks and runs agree with the rows and with each other, whoever wrote them
\* (transitionTask, expireAndRecord, finish, coordinateTaskCommand).
StoriesAgree == (\A t \in Tasks : TaskStory(t)) /\ (\A r \in Runs : RunStory(r))

\* A run ends once, and only in a step that its lease allows: it completes or is released while
\* it holds an unexpired lease, it expires only after its lease has run out.
RunsEndOnTime ==
    [][\A r \in Runs : run[r].status = "active" /\ run'[r].status # "active" =>
           CASE run'[r].status \in {"completed", "released"} -> run[r].live
             [] run'[r].status = "expired" -> ~run[r].live
             [] OTHER -> task'[run[r].task].state = "cancelled"]_taskVars
=============================================================================
