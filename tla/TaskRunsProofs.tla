----------------------------- MODULE TaskRunsProofs -----------------------------
(* What TaskRuns, and RunLeaseSweep over it, guarantee for any number of tasks, runs, workers    *)
(* and supervisors, and for all bounds.  WorkExchangeProofs takes the lemmas about TaskRuns too.  *)
EXTENDS RunLeaseSweep, TLAPS, FiniteSetTheorems, SequenceTheorems

-----------------------------------------------------------------------------
(* TaskRuns: the inductive invariant *)

\* What TaskStory and RunStory say, of a row and its events.
TaskTold(row, E) ==
    /\ Len(E) = row.version
    /\ \A i \in DOMAIN E : E[i].from = IF i = 1 THEN "none" ELSE E[i - 1].to
    /\ E # <<>> => E[1].type = "TaskCreated" /\ E[Len(E)].to = row.state

EndsWell(status, T, version) ==
    /\ status = "completed" => T[version].to = "review"
    /\ status = "released" => T[version].to = "ready"
    /\ status = "interrupted" => T[version].to = "cancelled"

RunTold(row, E, T, version) ==
    row # NoRun =>
        /\ Len(E) = row.version
        /\ E[1].type = "Claimed"
        /\ \A i \in 2..Len(E) - 1 : E[i].type = "Heartbeat"
        /\ \A i \in 2..Len(E) : E[i - 1].taskVersion <= E[i].taskVersion
        /\ \A i \in 1..Len(E) : E[i].taskVersion <= version
        /\ IF row.status = "active" THEN \A i \in 2..Len(E) : E[i].type = "Heartbeat"
           ELSE E[Len(E)].type = row.status
        /\ EndsWell(E[Len(E)].type, T, E[Len(E)].taskVersion)

\* A run is renewed only below the bound, and its task was created.
RunsBounded == \A r \in Runs : run[r] # NoRun =>
    /\ run[r].status = "active" => run[r].version <= MaxRunVersion
    /\ task[run[r].task] \in Task

Stories ==
    /\ \A t \in Tasks : TaskTold(task[t], taskEvents[t])
    /\ \A r \in Runs : RunTold(run[r], runEvents[r], taskEvents[run[r].task],
                               task[run[r].task].version)

TasksIInv == TasksTypeOK /\ RunsBounded /\ ActiveRunOwnsTask /\ Stories

-----------------------------------------------------------------------------
(* Rows *)

LEMMA NoTaskRow == NoTask.state = "none" /\ NoTask.version = 0 /\ NoTask \notin Task
  BY DEF NoTask, Task, TaskStates

LEMMA NoRunRow == NoRun.status = "none" /\ NoRun \notin Run
  BY DEF NoRun, Run, RunStatuses

LEMMA TaskRow ==
    ASSUME NEW row \in Task \cup {NoTask}
    PROVE  /\ row.version \in Nat
           /\ row.state \in TaskStates \cup {"none"}
           /\ (row = NoTask) <=> (row.state = "none")
           /\ (row = NoTask) <=> (row.version = 0)
  BY NoTaskRow, TaskRunsAssumption DEF Task, TaskStates

\* A status and one more version.
Became(row, status) == [row EXCEPT !.status = status, !.version = @ + 1]

LEMMA RunRow ==
    ASSUME NEW row \in Run, row.version <= MaxRunVersion, NEW status \in RunStatuses
    PROVE  /\ Became(row, status) \in Run /\ Became(row, status) # NoRun
           /\ Became(row, status).status = status
           /\ Became(row, status).version = row.version + 1
           /\ Became(row, status).task = row.task
           /\ Became(row, status).live = row.live
           /\ Became(row, status).worker = row.worker
  <1> DEFINE next == Became(row, status)
  <1>1. row.version + 1 \in 1..MaxRunVersion + 1
    BY TaskRunsAssumption DEF Run
  <1>2. /\ next.status = status /\ next.version = row.version + 1
        /\ next.task = row.task /\ next.live = row.live /\ next.worker = row.worker
    BY DEF Run, Became
  <1>3. next \in Run
    BY <1>1 DEF Run, Became
  <1>4. next # NoRun
    BY <1>3, NoRunRow
  <1> QED
    BY <1>2, <1>3, <1>4

LEMMA NewRunRow ==
    ASSUME NEW t \in Tasks, NEW w \in RunWorkers
    PROVE  /\ NewRun(t, w) \in Run /\ NewRun(t, w) # NoRun
           /\ NewRun(t, w).status = "active" /\ NewRun(t, w).version = 1
           /\ NewRun(t, w).task = t
  BY NoRunRow, TaskRunsAssumption DEF NewRun, Run, RunStatuses

\* The story of a task goes on.
LEMMA TaskGoesOn ==
    ASSUME NEW row \in Task \cup {NoTask}, NEW E \in Seq(TaskEvent), TaskTold(row, E),
           NEW to \in TaskStates, NEW type \in TaskEventTypes,
           row = NoTask => type = "TaskCreated", row.version + 1 <= MaxVersion
    PROVE  LET next == [state |-> to, version |-> row.version + 1]
               event == [type |-> type, from |-> row.state, to |-> to]
           IN  /\ next \in Task
               /\ event \in TaskEvent
               /\ Append(E, event) \in Seq(TaskEvent)
               /\ TaskTold(next, Append(E, event))
  <1> DEFINE next == [state |-> to, version |-> row.version + 1]
             event == [type |-> type, from |-> row.state, to |-> to]
             F == Append(E, event)
  <1>1. next \in Task /\ next.state = to /\ next.version = row.version + 1
    BY TaskRow, TaskRunsAssumption DEF Task
  <1>2. event \in TaskEvent /\ event.type = type /\ event.from = row.state /\ event.to = to
    BY TaskRow DEF TaskEvent
  <1> HIDE DEF next, event
  <1>3. /\ F \in Seq(TaskEvent) /\ F # <<>> /\ Len(F) = Len(E) + 1 /\ F[Len(E) + 1] = event
        /\ \A i \in 1..Len(E) : F[i] = E[i]
    BY <1>2, AppendProperties
  <1>4. Len(E) = row.version /\ Len(E) \in Nat
    BY DEF TaskTold
  <1>5. DOMAIN F = 1..Len(E) + 1
    BY <1>3, <1>4
  <1>6. ASSUME NEW i \in DOMAIN F
        PROVE  F[i].from = IF i = 1 THEN "none" ELSE F[i - 1].to
    <2>1. CASE i = Len(E) + 1
      <3>1. CASE Len(E) = 0
        <4>1. row.state = "none"
          BY <1>4, <3>1, TaskRow
        <4> QED
          BY <1>2, <1>3, <2>1, <3>1, <4>1
      <3>2. CASE Len(E) # 0
        <4>1. E # <<>> /\ Len(E) \in 1..Len(E) /\ i # 1 /\ i - 1 = Len(E)
          BY <1>4, <2>1, <3>2
        <4> QED
          BY <1>2, <1>3, <2>1, <4>1 DEF TaskTold
      <3> QED
        BY <3>1, <3>2
    <2>2. CASE i # Len(E) + 1
      <3>1. i \in 1..Len(E) /\ (i # 1 => i - 1 \in 1..Len(E))
        BY <1>4, <1>5, <2>2
      <3> QED
        BY <1>3, <3>1 DEF TaskTold
    <2> QED
      BY <2>1, <2>2
  <1>7. F[1].type = "TaskCreated" /\ F[Len(F)].to = next.state
    <2>1. CASE Len(E) = 0
      <3>1. F[1] = event /\ Len(F) = 1
        BY <1>3, <2>1
      <3>2. row = NoTask
        BY <1>4, <2>1, TaskRow
      <3> QED
        BY <1>1, <1>2, <3>1, <3>2
    <2>2. CASE Len(E) # 0
      <3>1. 1 \in 1..Len(E) /\ E # <<>>
        BY <1>4, <2>2
      <3> QED
        BY <1>1, <1>2, <1>3, <3>1 DEF TaskTold
    <2> QED
      BY <2>1, <2>2
  <1>8. TaskTold(next, F)
    BY <1>1, <1>3, <1>4, <1>6, <1>7 DEF TaskTold
  <1> QED
    BY <1>1, <1>2, <1>3, <1>8 DEF next, event

\* What a task's events say of a version stays said.
Longer(T, U) ==
    /\ T \in Seq(TaskEvent) /\ U \in Seq(TaskEvent) /\ Len(T) <= Len(U)
    /\ \A i \in 1..Len(T) : U[i] = T[i]

LEMMA EventRow ==
    ASSUME NEW E \in Seq(RunEvent), NEW i \in 1..Len(E)
    PROVE  /\ E[i] \in RunEvent
           /\ E[i].taskVersion \in Nat /\ E[i].taskVersion >= 1
  <1>1. E[i] \in RunEvent
    BY ElementOfSeq
  <1> QED
    BY <1>1, TaskRunsAssumption DEF RunEvent

LEMMA RunKept ==
    ASSUME NEW row \in Run \cup {NoRun}, NEW E \in Seq(RunEvent), NEW T, NEW U,
           Longer(T, U), RunTold(row, E, T, Len(T))
    PROVE  RunTold(row, E, U, Len(U))
  <1> SUFFICES ASSUME row # NoRun
               PROVE  RunTold(row, E, U, Len(U))
    BY DEF RunTold
  <1>1. Len(E) \in Nat /\ Len(E) > 0 /\ Len(T) \in Nat /\ Len(U) \in Nat
    BY DEF RunTold, Run, Longer
  <1>2. \A i \in 1..Len(E) : E[i].taskVersion \in Nat /\ E[i].taskVersion >= 1
    BY EventRow, TaskRunsAssumption DEF RunEvent
  <1>3. \A i \in 1..Len(E) : E[i].taskVersion <= Len(U)
    BY <1>1, <1>2 DEF RunTold, Longer
  <1>4. Len(E) \in 1..Len(E)
    BY <1>1
  <1>5. E[Len(E)].taskVersion \in 1..Len(T)
    BY <1>1, <1>2, <1>4 DEF RunTold
  <1>6. EndsWell(E[Len(E)].type, U, E[Len(E)].taskVersion)
    BY <1>5 DEF RunTold, EndsWell, Longer
  <1> QED
    BY <1>3, <1>6 DEF RunTold

\* The story of an active run goes on, or ends.
LEMMA RunGoesOn ==
    ASSUME NEW row \in Run, NEW E \in Seq(RunEvent), NEW T, RunTold(row, E, T, Len(T)),
           row.status = "active",
           NEW U, Longer(T, U),
           NEW next \in Run, next.version = row.version + 1,
           NEW event \in RunEvent, Len(T) <= event.taskVersion, event.taskVersion <= Len(U),
           IF next.status = "active" THEN event.type = "Heartbeat"
           ELSE event.type = next.status /\ EndsWell(event.type, U, event.taskVersion)
    PROVE  /\ Append(E, event) \in Seq(RunEvent)
           /\ RunTold(next, Append(E, event), U, Len(U))
  <1> DEFINE F == Append(E, event)
  <1>0. row # NoRun
    BY NoRunRow
  <1>1. /\ F \in Seq(RunEvent) /\ Len(F) = Len(E) + 1 /\ F[Len(E) + 1] = event
        /\ \A i \in 1..Len(E) : F[i] = E[i]
    BY AppendProperties
  <1>2. Len(E) \in Nat /\ Len(E) > 0 /\ Len(T) \in Nat /\ Len(U) \in Nat
    BY <1>0 DEF RunTold, Run, Longer
  <1>3. /\ \A i \in 1..Len(E) : E[i].taskVersion \in Nat
        /\ event.taskVersion \in Nat
    <2>1. event.taskVersion \in Nat
      BY TaskRunsAssumption DEF RunEvent
    <2> QED
      BY <2>1, EventRow
  <1>4. Len(E) \in 1..Len(E) /\ 1 \in 1..Len(E)
    BY <1>2
  <1>5. Len(F) = next.version /\ F[1].type = "Claimed"
    BY <1>0, <1>1, <1>4 DEF RunTold
  <1>6. \A i \in 2..Len(F) - 1 : F[i].type = "Heartbeat"
    <2> SUFFICES ASSUME NEW i \in 2..Len(F) - 1
                 PROVE  F[i].type = "Heartbeat"
      OBVIOUS
    <2>1. i \in 1..Len(E) /\ i \in 2..Len(E)
      BY <1>1, <1>2
    <2> QED
      BY <1>0, <1>1, <2>1 DEF RunTold
  <1>10. next.status = "active" => \A i \in 2..Len(F) : F[i].type = "Heartbeat"
    <2> SUFFICES ASSUME next.status = "active", NEW i \in 2..Len(F), i \notin 2..Len(F) - 1
                 PROVE  F[i].type = "Heartbeat"
      BY <1>6
    <2>1. i = Len(E) + 1
      BY <1>1, <1>2
    <2> QED
      BY <1>1, <2>1
  <1>7. ASSUME NEW i \in 1..Len(F)
        PROVE  F[i].taskVersion <= Len(U)
    <2>1. CASE i = Len(E) + 1
      BY <1>1, <2>1
    <2>2. CASE i # Len(E) + 1
      <3>1. i \in 1..Len(E)
        BY <1>1, <1>2, <2>2
      <3> QED
        BY <1>0, <1>1, <1>2, <1>3, <3>1 DEF RunTold, Longer
    <2> QED
      BY <2>1, <2>2
  <1>8. ASSUME NEW i \in 2..Len(F)
        PROVE  F[i - 1].taskVersion <= F[i].taskVersion
    <2>1. CASE i = Len(E) + 1
      <3>1. i - 1 = Len(E) /\ F[i - 1] = E[Len(E)] /\ F[i] = event
        BY <1>1, <1>2, <1>4, <2>1
      <3>2. E[Len(E)].taskVersion <= Len(T)
        BY <1>0, <1>4 DEF RunTold
      <3> QED
        BY <1>2, <1>3, <1>4, <3>1, <3>2
    <2>2. CASE i # Len(E) + 1
      <3>1. i \in 2..Len(E) /\ i \in 1..Len(E) /\ i - 1 \in 1..Len(E)
        BY <1>1, <1>2, <2>2
      <3> QED
        BY <1>0, <1>1, <3>1 DEF RunTold
    <2> QED
      BY <2>1, <2>2
  <1>9. EndsWell(event.type, U, event.taskVersion)
    BY DEF EndsWell
  <1> QED
    BY <1>1, <1>5, <1>6, <1>7, <1>8, <1>9, <1>10 DEF RunTold

-----------------------------------------------------------------------------
(* What all steps have in common *)

\* The tables of tasks after a step.
TasksMoved ==
    /\ task' \in [Tasks -> Task \cup {NoTask}]
    /\ taskEvents' \in [Tasks -> Seq(TaskEvent)]
    /\ outbox' \in Seq(Tasks \X (1..MaxVersion))
    /\ \A u \in Tasks :
        /\ TaskTold(task'[u], taskEvents'[u])
        /\ Longer(taskEvents[u], taskEvents'[u])
        /\ task[u] \in Task => task'[u] \in Task

LEMMA TasksMove ==
    ASSUME TasksIInv, NEW t \in Tasks, NEW to \in TaskStates, NEW type \in TaskEventTypes,
           task[t] = NoTask => type = "TaskCreated", TaskMoves(t, to, type)
    PROVE  /\ TasksMoved
           /\ task'[t] \in Task /\ task'[t].state = to /\ task'[t].version = task[t].version + 1
           /\ taskEvents'[t][task[t].version + 1].to = to
           /\ \A u \in Tasks \ {t} : task'[u] = task[u] /\ taskEvents'[u] = taskEvents[u]
  <1> DEFINE row == task[t]
             E == taskEvents[t]
             next == [state |-> to, version |-> row.version + 1]
             event == [type |-> type, from |-> row.state, to |-> to]
  <1>1. /\ row \in Task \cup {NoTask} /\ E \in Seq(TaskEvent) /\ TaskTold(row, E)
        /\ row.version + 1 <= MaxVersion /\ row.version \in Nat
    BY TaskRow DEF TasksIInv, TasksTypeOK, Stories, TaskMoves
  <1>2. next \in Task /\ event \in TaskEvent
        /\ Append(E, event) \in Seq(TaskEvent) /\ TaskTold(next, Append(E, event))
    BY <1>1, TaskGoesOn
  <1>3. next.state = to /\ next.version = row.version + 1 /\ event.to = to
    OBVIOUS
  <1>4. /\ task' = [task EXCEPT ![t] = next]
        /\ taskEvents' = [taskEvents EXCEPT ![t] = Append(@, event)]
        /\ outbox' = Append(outbox, <<t, row.version + 1>>)
    BY DEF TaskMoves
  <1> HIDE DEF next, event
  <1>5. task' \in [Tasks -> Task \cup {NoTask}] /\ taskEvents' \in [Tasks -> Seq(TaskEvent)]
    BY <1>1, <1>2, <1>4 DEF TasksIInv, TasksTypeOK
  <1>6. outbox' \in Seq(Tasks \X (1..MaxVersion))
    <2>1. <<t, row.version + 1>> \in Tasks \X (1..MaxVersion)
      BY <1>1, TaskRunsAssumption
    <2> QED
      BY <1>4, <2>1, AppendProperties DEF TasksIInv, TasksTypeOK
  <1>7. /\ task'[t] = next /\ taskEvents'[t] = Append(E, event)
        /\ \A u \in Tasks \ {t} : task'[u] = task[u] /\ taskEvents'[u] = taskEvents[u]
    BY <1>4 DEF TasksIInv, TasksTypeOK
  <1>8. /\ Len(Append(E, event)) = Len(E) + 1 /\ Append(E, event)[Len(E) + 1] = event
        /\ \A i \in 1..Len(E) : Append(E, event)[i] = E[i]
    BY <1>1, <1>2, AppendProperties
  <1>9. Len(E) = row.version
    BY <1>1 DEF TaskTold
  <1>10. \A u \in Tasks : Longer(taskEvents[u], taskEvents'[u])
    <2>1. Longer(E, Append(E, event))
      BY <1>1, <1>2, <1>8, <1>9 DEF Longer
    <2>2. \A u \in Tasks : Longer(taskEvents[u], taskEvents[u])
      BY LenProperties DEF Longer, TasksIInv, TasksTypeOK
    <2> QED
      BY <1>7, <2>1, <2>2
  <1>11. \A u \in Tasks : TaskTold(task'[u], taskEvents'[u])
    BY <1>2, <1>7 DEF TasksIInv, Stories
  <1> QED
    BY <1>2, <1>3, <1>5, <1>6, <1>7, <1>8, <1>9, <1>10, <1>11 DEF TasksMoved

LEMMA TasksStay ==
    ASSUME TasksIInv, UNCHANGED <<task, taskEvents, outbox>>
    PROVE  TasksMoved
  <1>1. \A u \in Tasks : Longer(taskEvents[u], taskEvents[u])
    BY LenProperties DEF Longer, TasksIInv, TasksTypeOK
  <1> QED
    BY <1>1 DEF TasksMoved, TasksIInv, TasksTypeOK, Stories

\* The row and the story of one run after a step.
RunStays(r) == run'[r] = run[r] /\ runEvents'[r] = runEvents[r]
RunTells(r) ==
    /\ run'[r] \in Run /\ runEvents'[r] \in Seq(RunEvent)
    /\ run'[r].status = "active" => run'[r].version <= MaxRunVersion
    /\ task'[run'[r].task] \in Task
    /\ RunTold(run'[r], runEvents'[r], taskEvents'[run'[r].task], task'[run'[r].task].version)

LEMMA VersionsAreLengths ==
    ASSUME TasksIInv, TasksMoved, NEW u \in Tasks
    PROVE  /\ task[u].version = Len(taskEvents[u]) /\ task'[u].version = Len(taskEvents'[u])
           /\ Longer(taskEvents[u], taskEvents'[u])
  BY DEF TasksIInv, Stories, TasksMoved, TaskTold

LEMMA RunRows ==
    ASSUME TasksIInv, NEW r \in Runs, run[r] # NoRun
    PROVE  /\ run[r] \in Run /\ run[r].task \in Tasks /\ run[r].status \in RunStatuses
           /\ run[r].status = "active" => run[r].version <= MaxRunVersion
           /\ task[run[r].task] \in Task
           /\ runEvents[r] \in Seq(RunEvent)
           /\ RunTold(run[r], runEvents[r], taskEvents[run[r].task], task[run[r].task].version)
  BY DEF TasksIInv, TasksTypeOK, RunsBounded, Stories, Run

LEMMA RunBecomesTells ==
    ASSUME TasksIInv, TasksMoved, NEW r \in Runs, run[r].status = "active",
           NEW status \in RunStatuses, NEW type, NEW version \in 1..MaxVersion,
           task[run[r].task].version <= version, version <= task'[run[r].task].version,
           IF status = "active" THEN type = "Heartbeat" /\ run[r].version < MaxRunVersion
           ELSE type = status /\ EndsWell(type, taskEvents'[run[r].task], version),
           run'[r] = Became(run[r], status),
           runEvents'[r] = Append(runEvents[r], [type |-> type, taskVersion |-> version])
    PROVE  RunTells(r) /\ run'[r].task = run[r].task /\ run'[r].status = status
  <1> DEFINE event == [type |-> type, taskVersion |-> version]
             t == run[r].task
  <1>1. run[r] # NoRun
    BY NoRunRow
  <1>2. /\ run[r] \in Run /\ t \in Tasks /\ run[r].version <= MaxRunVersion /\ task[t] \in Task
        /\ runEvents[r] \in Seq(RunEvent)
        /\ RunTold(run[r], runEvents[r], taskEvents[t], task[t].version)
    BY <1>1, RunRows
  <1>3. /\ run'[r] \in Run /\ run'[r].status = status /\ run'[r].version = run[r].version + 1
        /\ run'[r].task = t
    BY <1>2, RunRow
  <1>4. event \in RunEvent /\ event.type = type /\ event.taskVersion = version
    BY DEF RunEvent, RunStatuses
  <1>5. /\ Longer(taskEvents[t], taskEvents'[t])
        /\ task[t].version = Len(taskEvents[t]) /\ task'[t].version = Len(taskEvents'[t])
    BY <1>2, VersionsAreLengths
  <1> HIDE DEF event
  <1>9. IF run'[r].status = "active" THEN event.type = "Heartbeat"
        ELSE event.type = run'[r].status
             /\ EndsWell(event.type, taskEvents'[t], event.taskVersion)
    BY <1>3, <1>4
  <1>6. /\ Append(runEvents[r], event) \in Seq(RunEvent)
        /\ RunTold(run'[r], Append(runEvents[r], event), taskEvents'[t], Len(taskEvents'[t]))
    <2> DEFINE T == taskEvents[t]
               U == taskEvents'[t]
               next == run'[r]
    <2>1. /\ RunTold(run[r], runEvents[r], T, Len(T)) /\ Longer(T, U)
          /\ Len(T) <= event.taskVersion /\ event.taskVersion <= Len(U)
      BY <1>2, <1>4, <1>5
    <2> HIDE DEF T, U, t
    <2> QED
      BY <1>2, <1>3, <1>4, <1>9, <2>1, RunGoesOn DEF U
  <1>7. runEvents'[r] = Append(runEvents[r], event)
    BY DEF event
  <1>8. run'[r].status = "active" => run'[r].version <= MaxRunVersion
    BY <1>2, <1>3, TaskRunsAssumption DEF Run
  <1> QED
    BY <1>2, <1>3, <1>5, <1>6, <1>7, <1>8 DEF RunTells, TasksMoved

\* A step that leaves every run as it is or tells its story on keeps all but the ownership.
LEMMA RunsTold ==
    ASSUME TasksIInv, TasksMoved, run' \in [Runs -> Run \cup {NoRun}],
           runEvents' \in [Runs -> Seq(RunEvent)],
           \A r \in Runs : RunStays(r) \/ RunTells(r)
    PROVE  TasksTypeOK' /\ RunsBounded' /\ Stories'
  <1>1. TasksTypeOK'
    BY DEF TasksTypeOK, TasksMoved
  <1>2. ASSUME NEW r \in Runs, RunStays(r), run[r] # NoRun
        PROVE  RunTells(r)
    <2>1. /\ run[r] \in Run /\ run[r].task \in Tasks /\ runEvents[r] \in Seq(RunEvent)
          /\ run[r].status = "active" => run[r].version <= MaxRunVersion
          /\ task[run[r].task] \in Task
          /\ RunTold(run[r], runEvents[r], taskEvents[run[r].task], task[run[r].task].version)
      BY <1>2, RunRows
    <2> DEFINE t == run[r].task
    <2>2. /\ task[t].version = Len(taskEvents[t]) /\ task'[t].version = Len(taskEvents'[t])
          /\ Longer(taskEvents[t], taskEvents'[t])
      BY <2>1, VersionsAreLengths
    <2>3. RunTold(run[r], runEvents[r], taskEvents'[t], task'[t].version)
      BY <2>1, <2>2, RunKept
    <2> QED
      BY <1>2, <2>1, <2>3 DEF RunStays, RunTells, TasksMoved
  <1>3. RunsBounded'
    BY <1>2 DEF RunsBounded, RunTells, RunStays
  <1>4. \A r \in Runs : RunTold(run'[r], runEvents'[r], taskEvents'[run'[r].task],
                                task'[run'[r].task].version)
    <2> SUFFICES ASSUME NEW r \in Runs, run'[r] # NoRun
                 PROVE  RunTells(r)
      BY DEF RunTold, RunTells
    <2> QED
      BY <1>2 DEF RunStays
  <1> QED
    BY <1>1, <1>3, <1>4 DEF Stories, TasksMoved

-----------------------------------------------------------------------------
(* The steps of tasks and runs *)

LEMMA OneRunBecomes ==
    ASSUME TasksIInv, TasksMoved, NEW r \in Runs, run[r].status = "active",
           NEW status \in RunStatuses, NEW type, NEW version \in 1..MaxVersion,
           task[run[r].task].version <= version, version <= task'[run[r].task].version,
           IF status = "active" THEN type = "Heartbeat" /\ run[r].version < MaxRunVersion
           ELSE type = status /\ EndsWell(type, taskEvents'[run[r].task], version),
           RunBecomes(r, status, type, version)
    PROVE  /\ TasksTypeOK' /\ RunsBounded' /\ Stories'
           /\ run'[r].task = run[r].task /\ run'[r].status = status
           /\ \A x \in Runs \ {r} : run'[x] = run[x]
  <1> DEFINE event == [type |-> type, taskVersion |-> version]
  <1>1. run \in [Runs -> Run \cup {NoRun}] /\ runEvents \in [Runs -> Seq(RunEvent)]
    BY DEF TasksIInv, TasksTypeOK
  <1>2. /\ run' = [run EXCEPT ![r] = Became(run[r], status)]
        /\ runEvents' = [runEvents EXCEPT ![r] = Append(runEvents[r], event)]
    BY Zenon DEF RunBecomes, Became
  <1>3. run'[r] = Became(run[r], status) /\ runEvents'[r] = Append(runEvents[r], event)
    BY <1>1, <1>2
  <1>4. RunTells(r) /\ run'[r].task = run[r].task /\ run'[r].status = status
    BY <1>3, RunBecomesTells
  <1>5. \A x \in Runs \ {r} : run'[x] = run[x] /\ runEvents'[x] = runEvents[x]
    BY <1>1, <1>2
  <1>6. run' \in [Runs -> Run \cup {NoRun}] /\ runEvents' \in [Runs -> Seq(RunEvent)]
    BY <1>1, <1>2, <1>3, <1>4 DEF RunTells
  <1>7. \A x \in Runs : RunStays(x) \/ RunTells(x)
    BY <1>4, <1>5 DEF RunStays
  <1> QED
    BY <1>4, <1>5, <1>6, <1>7, RunsTold

LEMMA NoRunBecomes ==
    ASSUME TasksIInv, TasksMoved, UNCHANGED <<run, runEvents>>
    PROVE  TasksTypeOK' /\ RunsBounded' /\ Stories'
  <1>1. run' \in [Runs -> Run \cup {NoRun}] /\ runEvents' \in [Runs -> Seq(RunEvent)]
    BY DEF TasksIInv, TasksTypeOK
  <1> QED
    BY <1>1, RunsTold DEF RunStays

LEMMA IngestKeeps ==
    ASSUME TasksIInv, NEW t \in Tasks, Ingest(t)
    PROVE  TasksIInv'
  <1>1. /\ TasksMoved
        /\ \A u \in Tasks \ {t} : task'[u] = task[u]
    BY TasksMove DEF Ingest, TaskStates, TaskEventTypes
  <1>2. TasksTypeOK' /\ RunsBounded' /\ Stories'
    BY <1>1, NoRunBecomes DEF Ingest
  <1>3. ActiveRunOwnsTask'
    <2>1. \A r \in Runs : run[r].status = "active" => run[r].task # t
      BY NoTaskRow DEF TasksIInv, ActiveRunOwnsTask, Ingest
    <2> QED
      BY <1>1, <2>1, NoRunRow, RunRows DEF TasksIInv, ActiveRunOwnsTask, ActiveRuns, Ingest
  <1> QED
    BY <1>2, <1>3 DEF TasksIInv

\* A command moves its task to a state that it names, and it may not leave a worker behind.
LEMMA CommandMoves ==
    ASSUME TasksIInv, NEW t \in Tasks, NEW type \in CommandTypes, NEW actor, Command(t, type, actor)
    PROVE  \E to \in TaskStates, event \in TaskEventTypes :
              /\ task[t] # NoTask /\ TaskMoves(t, to, event)
              /\ type = "CancelTask" => to = "cancelled"
              /\ ActiveRuns(t) # {} => type = "CancelTask" \/ to = "in_progress"
  <1> DEFINE definition == COMMAND_DEFINITIONS[type]
             to == IF definition.to = "same" THEN task[t].state ELSE definition.to
  <1>1. /\ task[t].state \in definition.from /\ TaskMoves(t, to, definition.event)
        /\ Coordinated(t, type)
    BY DEF Command
  <1>2. task[t] \in Task \cup {NoTask} /\ task[t].state \in TaskStates \cup {"none"}
    BY TaskRow DEF TasksIInv, TasksTypeOK
  <1>3. ActiveRuns(t) # {} => task[t].state = "in_progress"
    BY DEF TasksIInv, ActiveRunOwnsTask, ActiveRuns
  <1>4. /\ definition.from \subseteq TaskStates /\ definition.to \in TaskStates \cup {"same"}
        /\ definition.event \in TaskEventTypes
        /\ type = "CancelTask" => definition.to = "cancelled"
        /\ "in_progress" \in definition.from =>
              type \in {"CancelTask", "SubmitForReview"} \/ definition.to = "same"
    BY TaskRunsAssumption DEF COMMAND_DEFINITIONS, Transition, TaskStates, TaskEventTypes, Open
  <1>5. task[t] # NoTask /\ task[t].state \in TaskStates
    BY <1>1, <1>4, NoTaskRow DEF TaskStates
  <1>6. type = "SubmitForReview" => ActiveRuns(t) = {}
    BY <1>1 DEF Coordinated
  <1>7. /\ to \in TaskStates /\ definition.event \in TaskEventTypes
        /\ type = "CancelTask" => to = "cancelled"
        /\ ActiveRuns(t) # {} => type = "CancelTask" \/ to = "in_progress"
    BY <1>1, <1>3, <1>4, <1>5, <1>6 DEF TaskStates
  <1> QED
    BY <1>1, <1>5, <1>7

LEMMA CommandKeeps ==
    ASSUME TasksIInv, NEW t \in Tasks, NEW type \in CommandTypes, NEW actor, Command(t, type, actor)
    PROVE  TasksIInv'
  <1>1. PICK to \in TaskStates, event \in TaskEventTypes :
          /\ task[t] # NoTask /\ TaskMoves(t, to, event)
          /\ type = "CancelTask" => to = "cancelled"
          /\ ActiveRuns(t) # {} => type = "CancelTask" \/ to = "in_progress"
    BY CommandMoves
  <1>2. /\ TasksMoved
        /\ task'[t] \in Task /\ task'[t].state = to /\ task'[t].version = task[t].version + 1
        /\ taskEvents'[t][task[t].version + 1].to = to
        /\ \A u \in Tasks \ {t} : task'[u] = task[u]
    BY <1>1, TasksMove
  <1>3. CASE type = "CancelTask" /\ ActiveRuns(t) # {}
    <2>1. PICK r \in ActiveRuns(t) :
            RunBecomes(r, "interrupted", "interrupted", task[t].version + 1)
      BY <1>3 DEF Command, Coordinated
    <2>2. r \in Runs /\ run[r].status = "active" /\ run[r].task = t /\ ActiveRuns(t) = {r}
      BY <2>1 DEF ActiveRuns, TasksIInv, ActiveRunOwnsTask
    <2>3. /\ task[t].version <= task[t].version + 1
          /\ task[t].version + 1 <= task'[t].version
          /\ task[t].version + 1 \in 1..MaxVersion
      <3>1. task[t].version \in Nat
        BY TaskRow DEF TasksIInv, TasksTypeOK
      <3>2. task'[t].version \in 1..MaxVersion
        BY <1>2 DEF Task
      <3> QED
        BY <1>2, <3>1, <3>2, TaskRunsAssumption
    <2>4. EndsWell("interrupted", taskEvents'[t], task[t].version + 1)
      BY <1>1, <1>2, <1>3 DEF EndsWell
    <2>5. /\ TasksTypeOK' /\ RunsBounded' /\ Stories'
          /\ run'[r].status = "interrupted"
          /\ \A x \in Runs \ {r} : run'[x] = run[x]
      BY <1>2, <2>1, <2>2, <2>3, <2>4, OneRunBecomes DEF RunStatuses
    <2>6. ActiveRunOwnsTask'
      <3>1. \A x \in Runs : run'[x].status = "active" =>
              run[x].status = "active" /\ run'[x] = run[x] /\ run[x].task \in Tasks \ {t}
        BY <2>2, <2>5, NoRunRow, RunRows DEF ActiveRuns
      <3> QED
        BY <1>2, <2>2, <2>5, <3>1 DEF TasksIInv, ActiveRunOwnsTask, ActiveRuns
    <2> QED
      BY <2>5, <2>6 DEF TasksIInv
  <1>4. CASE ~(type = "CancelTask" /\ ActiveRuns(t) # {})
    <2>1. UNCHANGED <<run, runEvents>>
      BY <1>4 DEF Command, Coordinated
    <2>2. TasksTypeOK' /\ RunsBounded' /\ Stories'
      BY <1>2, <2>1, NoRunBecomes
    <2>3. ActiveRunOwnsTask'
      <3>1. ASSUME NEW x \in Runs, run[x].status = "active"
            PROVE  task'[run[x].task].state = "in_progress"
        <4>1. run[x].task \in Tasks /\ task[run[x].task].state = "in_progress"
          BY <3>1, NoRunRow, RunRows DEF TasksIInv, ActiveRunOwnsTask
        <4>2. run[x].task = t => to = "in_progress"
          BY <1>1, <1>4, <3>1 DEF ActiveRuns
        <4> QED
          BY <1>2, <4>1, <4>2
      <3> QED
        BY <2>1, <3>1 DEF TasksIInv, ActiveRunOwnsTask, ActiveRuns
    <2> QED
      BY <2>2, <2>3 DEF TasksIInv
  <1> QED
    BY <1>3, <1>4

\* A claim starts the task if it was ready.
LEMMA ClaimMoves ==
    ASSUME TasksIInv, NEW t \in Tasks, Started(t), task[t].state \in {"ready", "in_progress"}
    PROVE  /\ TasksMoved
           /\ task'[t] \in Task /\ task'[t].state = "in_progress"
           /\ task[t].version \in 1..MaxVersion /\ task'[t].version \in 1..MaxVersion
           /\ task[t].version <= task'[t].version
           /\ \A u \in Tasks \ {t} : task'[u] = task[u]
  <1>1. task[t] \in Task /\ task[t] # NoTask
    BY NoTaskRow DEF TasksIInv, TasksTypeOK
  <1>2. task[t].version \in Nat /\ task[t].version \in 1..MaxVersion
    BY <1>1, TaskRow DEF Task
  <1>3. CASE task[t].state = "ready"
    <2>1. TaskMoves(t, "in_progress", "TaskStarted")
      BY <1>3 DEF Started
    <2>2. /\ TasksMoved
          /\ task'[t] \in Task /\ task'[t].state = "in_progress"
          /\ task'[t].version = task[t].version + 1
          /\ \A u \in Tasks \ {t} : task'[u] = task[u]
      BY <1>1, <2>1, TasksMove DEF TaskStates, TaskEventTypes
    <2> QED
      BY <1>2, <2>2 DEF Task
  <1>4. CASE task[t].state # "ready"
    <2>1. UNCHANGED <<task, taskEvents, outbox>>
      BY <1>4 DEF Started
    <2> QED
      BY <1>1, <1>2, <1>4, <2>1, TasksStay DEF TasksIInv, TasksTypeOK
  <1> QED
    BY <1>3, <1>4

LEMMA ClaimedRunTells ==
    ASSUME TasksIInv, NEW r \in Runs, NEW t \in Tasks, NEW w \in RunWorkers,
           task'[t] \in Task, run'[r] = NewRun(t, w),
           runEvents'[r] = <<[type |-> "Claimed", taskVersion |-> task'[t].version]>>
    PROVE  RunTells(r)
  <1> DEFINE event == [type |-> "Claimed", taskVersion |-> task'[t].version]
  <1>1. /\ run'[r] \in Run /\ run'[r].status = "active" /\ run'[r].version = 1
        /\ run'[r].task = t
    BY NewRunRow
  <1>2. event \in RunEvent /\ event.type = "Claimed" /\ event.taskVersion = task'[t].version
    BY DEF RunEvent, Task
  <1>3. runEvents'[r] = <<event>>
    OBVIOUS
  <1> HIDE DEF event
  <1>4. <<event>> \in Seq(RunEvent) /\ Len(<<event>>) = 1 /\ <<event>>[1] = event
    BY <1>2
  <1>5. event.taskVersion \in Nat
    BY <1>2, TaskRunsAssumption DEF Task
  <1>6. RunTold(run'[r], <<event>>, taskEvents'[t], task'[t].version)
    BY <1>1, <1>2, <1>4, <1>5 DEF RunTold, EndsWell
  <1> QED
    BY <1>1, <1>3, <1>4, <1>6, TaskRunsAssumption DEF RunTells

LEMMA ClaimKeeps ==
    ASSUME TasksIInv, NEW r \in Runs, NEW t \in Tasks, NEW w \in RunWorkers, Claim(r, t, w)
    PROVE  TasksIInv'
  <1> DEFINE old == ActiveRuns(t)
  <1>1. /\ run[r] = NoRun /\ task[t].state \in {"ready", "in_progress"} /\ Started(t)
        /\ Admitted(r, t, w, task'[t].version)
    BY DEF Claim
  <1>2. /\ TasksMoved
        /\ task'[t] \in Task /\ task'[t].state = "in_progress"
        /\ task[t].version \in 1..MaxVersion /\ task'[t].version \in 1..MaxVersion
        /\ task[t].version <= task'[t].version
        /\ \A u \in Tasks \ {t} : task'[u] = task[u]
    BY <1>1, ClaimMoves
  <1>3. r \notin old
    BY <1>1, NoRunRow DEF ActiveRuns
  <1>4. /\ run'[r] = NewRun(t, w)
        /\ runEvents'[r] = <<[type |-> "Claimed", taskVersion |-> task'[t].version]>>
        /\ \A x \in old :
              /\ run'[x] = Became(run[x], "expired")
              /\ runEvents'[x] = Append(runEvents[x],
                                        [type |-> "expired", taskVersion |-> task[t].version])
        /\ \A x \in Runs \ (old \cup {r}) : run'[x] = run[x] /\ runEvents'[x] = runEvents[x]
    BY <1>1, <1>3, Zenon DEF Admitted, ActiveRuns, Became
  <1>5. RunTells(r) /\ run'[r].status = "active" /\ run'[r].task = t
    BY <1>2, <1>4, ClaimedRunTells, NewRunRow
  <1>6. ASSUME NEW x \in old
        PROVE  RunTells(x) /\ run'[x].status = "expired"
    <2>1. x \in Runs /\ run[x].status = "active" /\ run[x].task = t
      BY DEF ActiveRuns
    <2>2. EndsWell("expired", taskEvents'[t], task[t].version)
      BY DEF EndsWell
    <2> QED
      BY <1>2, <1>4, <2>1, <2>2, RunBecomesTells DEF RunStatuses
  <1>7. /\ \A x \in Runs : RunStays(x) \/ RunTells(x)
        /\ \A x \in Runs \ (old \cup {r}) : RunStays(x)
    BY <1>4, <1>5, <1>6 DEF RunStays
  <1>8. run' \in [Runs -> Run \cup {NoRun}] /\ runEvents' \in [Runs -> Seq(RunEvent)]
    <2>1. \A x \in Runs : run'[x] \in Run \cup {NoRun} /\ runEvents'[x] \in Seq(RunEvent)
      BY <1>7 DEF RunStays, RunTells, TasksIInv, TasksTypeOK
    <2>2. run' = [x \in Runs |-> run'[x]] /\ runEvents' = [x \in Runs |-> runEvents'[x]]
      BY <1>1 DEF Admitted
    <2> QED
      BY <2>1, <2>2
  <1>9. TasksTypeOK' /\ RunsBounded' /\ Stories'
    BY <1>2, <1>7, <1>8, RunsTold
  <1>10. ActiveRunOwnsTask'
    <2>1. ASSUME NEW x \in Runs \ {r}, run'[x].status = "active"
          PROVE  run[x].status = "active" /\ run'[x] = run[x] /\ run[x].task \in Tasks \ {t}
      <3>1. x \notin old /\ run'[x] = run[x]
        BY <1>6, <1>7, <2>1 DEF RunStays
      <3> QED
        BY <2>1, <3>1, NoRunRow, RunRows DEF ActiveRuns
    <2>2. SUFFICES ASSUME NEW x \in Runs, run'[x].status = "active"
                   PROVE  /\ task'[run'[x].task].state = "in_progress"
                          /\ {y \in Runs : run'[y].status = "active"
                                            /\ run'[y].task = run'[x].task} = {x}
      BY DEF ActiveRunOwnsTask, ActiveRuns
    <2>3. CASE x = r
      BY <1>2, <1>5, <2>1, <2>3 DEF ActiveRuns
    <2>4. CASE x # r
      <3>1. run[x].status = "active" /\ run'[x] = run[x] /\ run[x].task \in Tasks \ {t}
        BY <2>1, <2>2, <2>4
      <3>2. task[run[x].task].state = "in_progress" /\ ActiveRuns(run[x].task) = {x}
        BY <3>1 DEF TasksIInv, ActiveRunOwnsTask
      <3>3. \A y \in Runs : run'[y].status = "active" /\ run'[y].task = run[x].task => y = x
        BY <1>5, <2>1, <3>1, <3>2 DEF ActiveRuns
      <3> QED
        BY <1>2, <2>2, <3>1, <3>2, <3>3 DEF ActiveRuns
    <2> QED
      BY <2>3, <2>4
  <1> QED
    BY <1>9, <1>10 DEF TasksIInv

LEMMA HeartbeatKeeps ==
    ASSUME TasksIInv, NEW r \in Runs, NEW w \in RunWorkers, Heartbeat(r, w)
    PROVE  TasksIInv'
  <1>1. TasksMoved
    BY TasksStay DEF Heartbeat
  <1>2. run[r].status = "active" /\ run[r].task \in Tasks /\ task[run[r].task] \in Task
    BY NoRunRow, RunRows DEF Heartbeat, HoldsLease
  <1>3. /\ task[run[r].task].version \in 1..MaxVersion
        /\ task[run[r].task].version <= task'[run[r].task].version
    BY <1>2, TaskRunsAssumption DEF Task, Heartbeat
  <1>4. /\ TasksTypeOK' /\ RunsBounded' /\ Stories'
        /\ run'[r].task = run[r].task /\ run'[r].status = "active"
        /\ \A x \in Runs \ {r} : run'[x] = run[x]
    BY <1>1, <1>2, <1>3, OneRunBecomes DEF Heartbeat, RunStatuses
  <1>5. ActiveRunOwnsTask'
    <2>1. \A x \in Runs : run'[x].status = run[x].status
                          /\ (run[x].status = "active" => run'[x].task = run[x].task)
      BY <1>2, <1>4
    <2> QED
      BY <2>1 DEF TasksIInv, ActiveRunOwnsTask, ActiveRuns, Heartbeat
  <1> QED
    BY <1>4, <1>5 DEF TasksIInv

LEMMA FinishKeeps ==
    ASSUME TasksIInv, NEW r \in Runs, NEW w \in RunWorkers, NEW status \in RunStatuses \ {"active"},
           NEW to \in TaskStates, NEW event \in TaskEventTypes,
           status = "completed" => to = "review", status = "released" => to = "ready",
           status # "interrupted", Finish(r, w, status, to, event)
    PROVE  TasksIInv'
  <1> DEFINE t == run[r].task
  <1>1. run[r].status = "active" /\ t \in Tasks /\ task[t] \in Task /\ ActiveRuns(t) = {r}
    BY NoRunRow, RunRows DEF Finish, HoldsLease, TasksIInv, ActiveRunOwnsTask
  <1>2. TaskMoves(t, to, event) /\ RunBecomes(r, status, status, task[t].version + 1)
    BY DEF Finish
  <1>3. /\ TasksMoved
        /\ task'[t] \in Task /\ task'[t].version = task[t].version + 1
        /\ taskEvents'[t][task[t].version + 1].to = to
        /\ \A u \in Tasks \ {t} : task'[u] = task[u]
    BY <1>1, <1>2, TasksMove, NoTaskRow
  <1>4. /\ task[t].version <= task[t].version + 1
        /\ task[t].version + 1 <= task'[t].version
        /\ task[t].version + 1 \in 1..MaxVersion
    BY <1>1, <1>3, TaskRunsAssumption DEF Task
  <1>5. EndsWell(status, taskEvents'[t], task[t].version + 1)
    BY <1>3 DEF EndsWell
  <1>6. /\ TasksTypeOK' /\ RunsBounded' /\ Stories'
        /\ run'[r].status = status
        /\ \A x \in Runs \ {r} : run'[x] = run[x]
    BY <1>1, <1>2, <1>3, <1>4, <1>5, OneRunBecomes
  <1>7. ActiveRunOwnsTask'
    <2>1. \A x \in Runs : run'[x].status = "active" =>
            run[x].status = "active" /\ run'[x] = run[x] /\ run[x].task \in Tasks \ {t}
      BY <1>1, <1>6, NoRunRow, RunRows DEF ActiveRuns
    <2> QED
      BY <1>1, <1>3, <1>6, <2>1 DEF TasksIInv, ActiveRunOwnsTask, ActiveRuns
  <1> QED
    BY <1>6, <1>7 DEF TasksIInv

LEMMA RunLeaseEndsKeeps ==
    ASSUME TasksIInv, NEW r \in Runs, RunLeaseEnds(r)
    PROVE  TasksIInv'
  <1>1. TasksMoved
    BY TasksStay DEF RunLeaseEnds
  <1>2. run[r] # NoRun /\ run[r] \in Run
    BY NoRunRow, RunRows DEF RunLeaseEnds
  <1>3. /\ run' \in [Runs -> Run \cup {NoRun}] /\ run'[r] \in Run
        /\ run'[r].status = run[r].status /\ run'[r].task = run[r].task
        /\ run'[r].version = run[r].version
        /\ \A x \in Runs \ {r} : run'[x] = run[x]
    <2>1. [run[r] EXCEPT !.live = FALSE] \in Run
      BY <1>2 DEF Run
    <2> QED
      BY <1>2, <2>1 DEF RunLeaseEnds, TasksIInv, TasksTypeOK, Run
  <1>4. RunTells(r)
    BY <1>1, <1>2, <1>3, RunRows DEF RunTells, RunTold, RunLeaseEnds, TasksMoved
  <1>5. \A x \in Runs : RunStays(x) \/ RunTells(x)
    BY <1>3, <1>4 DEF RunStays, RunLeaseEnds
  <1>6. TasksTypeOK' /\ RunsBounded' /\ Stories'
    BY <1>1, <1>3, <1>5, RunsTold DEF RunLeaseEnds, TasksIInv, TasksTypeOK
  <1>7. ActiveRunOwnsTask'
    <2>1. \A x \in Runs : run'[x].status = run[x].status
                          /\ (run[x].status = "active" => run'[x].task = run[x].task)
      BY <1>3
    <2> QED
      BY <2>1 DEF TasksIInv, ActiveRunOwnsTask, ActiveRuns, RunLeaseEnds
  <1> QED
    BY <1>6, <1>7 DEF TasksIInv

LEMMA SweepKeeps ==
    ASSUME TasksIInv, Sweep
    PROVE  TasksIInv'
  <1>1. TasksMoved
    BY TasksStay DEF Sweep
  <1>2. PICK batch \in SUBSET {r \in Runs : run[r].status = "active" /\ ~run[r].live} :
          /\ run' = [r \in Runs |-> IF r \in batch THEN Became(run[r], "expired") ELSE run[r]]
          /\ runEvents' = [r \in Runs |-> IF r \in batch
                 THEN Append(runEvents[r],
                             [type |-> "expired", taskVersion |-> task[run[r].task].version])
                 ELSE runEvents[r]]
    BY Zenon DEF Sweep, Became
  <1>3. task' = task
    BY DEF Sweep
  <1>4. ASSUME NEW x \in batch
        PROVE  RunTells(x) /\ run'[x].status = "expired"
    <2>1. x \in Runs /\ run[x].status = "active"
      BY <1>2
    <2>2. run[x].task \in Tasks /\ task[run[x].task] \in Task
      BY <2>1, NoRunRow, RunRows
    <2>3. /\ task[run[x].task].version \in 1..MaxVersion
          /\ task[run[x].task].version <= task[run[x].task].version
          /\ task[run[x].task].version <= task'[run[x].task].version
      <3>1. task[run[x].task].version \in 1..MaxVersion
        BY <2>2 DEF Task
      <3> QED
        BY <1>3, <3>1, TaskRunsAssumption
    <2>4. EndsWell("expired", taskEvents'[run[x].task], task[run[x].task].version)
      BY DEF EndsWell
    <2>5. /\ run'[x] = Became(run[x], "expired")
          /\ runEvents'[x] = Append(runEvents[x],
                 [type |-> "expired", taskVersion |-> task[run[x].task].version])
      BY <1>2, <2>1
    <2> QED
      BY <1>1, <2>1, <2>3, <2>4, <2>5, RunBecomesTells DEF RunStatuses
  <1>5. \A x \in Runs \ batch : RunStays(x)
    BY <1>2 DEF RunStays
  <1>6. run' \in [Runs -> Run \cup {NoRun}] /\ runEvents' \in [Runs -> Seq(RunEvent)]
    <2>1. \A x \in Runs : run'[x] \in Run \cup {NoRun} /\ runEvents'[x] \in Seq(RunEvent)
      BY <1>4, <1>5 DEF RunStays, RunTells, TasksIInv, TasksTypeOK
    <2>2. run' = [x \in Runs |-> run'[x]] /\ runEvents' = [x \in Runs |-> runEvents'[x]]
      BY <1>2
    <2> QED
      BY <2>1, <2>2
  <1>7. TasksTypeOK' /\ RunsBounded' /\ Stories'
    BY <1>1, <1>4, <1>5, <1>6, RunsTold
  <1>8. ActiveRunOwnsTask'
    <2>1. \A x \in Runs : run'[x].status = "active" => run'[x] = run[x]
      BY <1>4, <1>5 DEF RunStays
    <2> QED
      BY <2>1 DEF TasksIInv, ActiveRunOwnsTask, ActiveRuns, Sweep
  <1> QED
    BY <1>7, <1>8 DEF TasksIInv

LEMMA InitTasks == TasksInit => TasksIInv
  <1> SUFFICES ASSUME TasksInit PROVE TasksIInv
    OBVIOUS
  <1>1. TasksTypeOK
    BY DEF TasksInit, TasksTypeOK
  <1>2. RunsBounded /\ ActiveRunOwnsTask
    BY NoRunRow DEF TasksInit, RunsBounded, ActiveRunOwnsTask
  <1>3. Stories
    BY NoTaskRow DEF TasksInit, Stories, TaskTold, RunTold
  <1> QED
    BY <1>1, <1>2, <1>3 DEF TasksIInv

LEMMA TaskStepKeeps ==
    ASSUME TasksIInv, TaskStep \/ Sweep \/ UNCHANGED taskVars
    PROVE  TasksIInv'
  <1>1. ASSUME NEW r \in Runs, NEW w \in RunWorkers, Complete(r, w) \/ Release(r, w)
        PROVE  TasksIInv'
    BY <1>1, FinishKeeps DEF Complete, Release, RunStatuses, TaskStates, TaskEventTypes
  <1>2. CASE TaskStep
    BY <1>1, <1>2, IngestKeeps, CommandKeeps, ClaimKeeps, HeartbeatKeeps, RunLeaseEndsKeeps
       DEF TaskStep
  <1>3. CASE UNCHANGED taskVars
    BY <1>3 DEF taskVars, TasksIInv, TasksTypeOK, RunsBounded, ActiveRunOwnsTask, ActiveRuns,
       Stories
  <1> QED
    BY <1>2, <1>3, SweepKeeps

-----------------------------------------------------------------------------
(* RunLeaseSweep: the inductive invariant *)

\* Every fencing token but that of a process that goes round with a live lease has cost a lapse.
Rounds(pc) == pc \in {"cycle", "sweep"}
Held == lease.live /\ \E s \in Supervisors : Rounds(supervisor[s].pc) /\ Owns(s)
TokensCounted ==
    /\ Held => lease.token <= lapses + 1
    /\ ~Held => lease.token <= lapses

Phases == {"off", "cycle", "sweep", "once", "leave"}
Processes == [pc : Phases, token : Tokens]

SweepIInv == TasksIInv /\ SweepTypeOK /\ TokensCounted

-----------------------------------------------------------------------------
(* The steps of supervisors *)

LEMMA InitIInv == SweepInit => SweepIInv
  <1> SUFFICES ASSUME SweepInit PROVE SweepIInv
    OBVIOUS
  <1>1. TasksIInv
    BY InitTasks DEF SweepInit
  <1>2. SweepTypeOK /\ TokensCounted
    BY <1>1, SweepAssumption DEF SweepInit, TasksIInv, SweepTypeOK, Off, Tokens, TokensCounted, Held
  <1> QED
    BY <1>1, <1>2 DEF SweepIInv

LEMMA AcquireKeeps ==
    ASSUME SweepIInv, NEW s \in Supervisors, Acquire(s) \/ AcquireForOnce(s)
    PROVE  SweepTypeOK' /\ TokensCounted'
  <1>1. PICK pc \in {"cycle", "once"} :
          /\ Acquires(s, pc)
          /\ IF pc = "cycle" THEN lapses' = lapses ELSE lapses < MaxLapses /\ lapses' = lapses + 1
          /\ UNCHANGED taskVars
    BY DEF Acquire, AcquireForOnce
  <1>2. /\ lease.token \in Nat /\ lapses \in 0..MaxLapses /\ lapses \in Nat
        /\ lease.token <= lapses
    BY <1>1, SweepAssumption DEF SweepIInv, SweepTypeOK, Tokens, TokensCounted, Held, Acquires
  <1>3. lease.token + 1 \in Tokens /\ lapses' \in 0..MaxLapses /\ lapses' \in Nat
    BY <1>1, <1>2, SweepAssumption DEF Tokens
  <1>4. TasksTypeOK'
    BY <1>1 DEF SweepIInv, SweepTypeOK, taskVars, TasksTypeOK
  <1>5. SweepTypeOK'
    BY <1>1, <1>3, <1>4 DEF Acquires, SweepIInv, SweepTypeOK
  <1>6. lease'.token = lease.token + 1
    BY <1>1 DEF Acquires
  <1>7. pc = "cycle" => Held'
    BY <1>1 DEF Held, Rounds, Owns, Acquires, SweepIInv, SweepTypeOK
  <1>8. TokensCounted'
    BY <1>1, <1>2, <1>3, <1>6, <1>7 DEF TokensCounted
  <1> QED
    BY <1>5, <1>8

\* A step that leaves the lease and its owner alone, or that costs a lapse.
LEMMA CountKept ==
    ASSUME SweepIInv, NEW s \in Supervisors, NEW next,
           supervisor' = [supervisor EXCEPT ![s] = next],
           lease' = lease \/ (Owns(s) /\ lease' = [lease EXCEPT !.live = FALSE]),
           \/ /\ lapses' = lapses
              /\ \/ /\ Rounds(supervisor[s].pc) => Rounds(next.pc)
                    /\ next.token = supervisor[s].token /\ lease' = lease
                 \/ ~Rounds(supervisor[s].pc) \/ ~Owns(s) \/ ~lease.live
           \/ lapses' = lapses + 1
    PROVE  TokensCounted'
  <1>1. lease.token \in Nat /\ lapses \in Nat /\ lease.token <= lapses + 1
    BY SweepAssumption DEF SweepIInv, SweepTypeOK, Tokens, TokensCounted
  <1>2. lease'.token = lease.token /\ lease'.owner = lease.owner
    BY DEF SweepIInv, SweepTypeOK
  <1>3. CASE lapses' = lapses + 1
    BY <1>1, <1>2, <1>3 DEF TokensCounted
  <1>4. CASE lapses' = lapses /\ ~lease.live
    BY <1>1, <1>2, <1>4 DEF TokensCounted, Held, SweepIInv, SweepTypeOK
  <1>5. CASE lapses' = lapses /\ lease' = lease
             /\ \/ (Rounds(supervisor[s].pc) => Rounds(next.pc)) /\ next.token = supervisor[s].token
                \/ ~Rounds(supervisor[s].pc) \/ ~Owns(s)
    <2>1. Held => Held'
      <3> SUFFICES ASSUME Held PROVE Held'
        OBVIOUS
      <3>1. PICK x \in Supervisors : Rounds(supervisor[x].pc) /\ Owns(x)
        BY DEF Held
      <3>2. Rounds(supervisor'[x].pc) /\ supervisor'[x].token = supervisor[x].token
        BY <1>5, <3>1 DEF SweepIInv, SweepTypeOK
      <3> QED
        BY <1>5, <3>1, <3>2 DEF Held, Owns
    <2> QED
      BY <1>1, <1>5, <2>1 DEF TokensCounted, SweepIInv
  <1>6. CASE lapses' = lapses /\ lease' # lease /\ ~Rounds(supervisor[s].pc) /\ Owns(s)
    <2>1. ~Held
      BY <1>6 DEF Held, Owns
    <2> QED
      BY <1>1, <1>2, <1>6, <2>1 DEF TokensCounted, SweepIInv
  <1>7. CASE lapses' = lapses /\ lease' # lease /\ ~Owns(s)
    BY <1>7
  <1> QED
    BY <1>3, <1>4, <1>5, <1>6, <1>7

LEMMA StepKeeps == SweepIInv /\ [SweepNext]_taskRunsVars => SweepIInv'
  <1> SUFFICES ASSUME SweepIInv, [SweepNext]_taskRunsVars PROVE SweepIInv'
    OBVIOUS
  <1>1. TasksIInv'
    BY TaskStepKeeps DEF SweepIInv, SweepNext, Cycle, Acquire, AcquireForOnce, Renew, SweepOnce,
       SweepNothing, SweepThrows, Leave, Stop, SweepCrash, SweepLeaseEnds, taskRunsVars, taskVars
  <1>2. TasksTypeOK'
    BY <1>1 DEF TasksIInv
  <1>3. /\ lease \in [owner : Supervisors \cup {Nobody}, token : Tokens, live : BOOLEAN]
        /\ supervisor \in [Supervisors -> Processes]
        /\ lapses \in 0..MaxLapses
    BY DEF SweepIInv, SweepTypeOK, Processes, Phases
  <1>4. /\ Off \in Processes /\ Off.pc = "off"
        /\ \A s \in Supervisors : \A pc \in Phases :
              /\ [supervisor[s] EXCEPT !.pc = pc] \in Processes
              /\ [supervisor[s] EXCEPT !.pc = pc].pc = pc
              /\ [supervisor[s] EXCEPT !.pc = pc].token = supervisor[s].token
    BY <1>3, SweepAssumption DEF Off, Tokens, Processes, Phases
  <1>13. ASSUME lease' \in [owner : Supervisors \cup {Nobody}, token : Tokens, live : BOOLEAN],
                supervisor' \in [Supervisors -> Processes], lapses' \in 0..MaxLapses
         PROVE  SweepTypeOK'
    BY <1>2, <1>13 DEF SweepTypeOK, Processes, Phases
  <1>11. lease' = [lease EXCEPT !.live = FALSE] =>
           /\ lease' \in [owner : Supervisors \cup {Nobody}, token : Tokens, live : BOOLEAN]
           /\ lease'.token = lease.token
    BY <1>3
  <1>12. lapses < MaxLapses /\ lapses' = lapses + 1 => lapses' \in 0..MaxLapses
    BY <1>3, SweepAssumption
  <1>5. ASSUME NEW s \in Supervisors, Renew(s)
        PROVE  SweepTypeOK' /\ TokensCounted'
    <2> DEFINE next == IF Owns(s) /\ lease.live THEN [supervisor[s] EXCEPT !.pc = "sweep"] ELSE Off
    <2>1. /\ supervisor' = [supervisor EXCEPT ![s] = next] /\ lease' = lease /\ lapses' = lapses
      BY <1>5 DEF Renew
    <2>2. /\ next \in Processes
          /\ \/ Rounds(next.pc) /\ next.token = supervisor[s].token
             \/ ~Owns(s)
             \/ ~lease.live
      BY <1>4 DEF Rounds, Phases
    <2> HIDE DEF next
    <2>3. SweepTypeOK'
      BY <1>3, <1>13, <2>1, <2>2
    <2> QED
      BY <2>1, <2>2, <2>3, CountKept
  <1>6. ASSUME NEW s \in Supervisors, SweepOnce(s) \/ SweepNothing(s) \/ SweepThrows(s)
        PROVE  SweepTypeOK' /\ TokensCounted'
    <2> DEFINE pc == IF supervisor[s].pc = "sweep" THEN "cycle" ELSE "leave"
               next == [supervisor[s] EXCEPT !.pc = pc]
    <2>1. supervisor' = [supervisor EXCEPT ![s] = next] /\ supervisor[s].pc \in {"sweep", "once"}
      BY <1>6, Zenon DEF SweepOnce, SweepNothing, SweepThrows, Swept, Sweeping
    <2>4. lease' = lease /\ (lapses' = lapses \/ (lapses < MaxLapses /\ lapses' = lapses + 1))
      <3>1. SweepOnce(s) \/ SweepNothing(s) => lease' = lease /\ lapses' = lapses
        BY DEF SweepOnce, SweepNothing
      <3>2. SweepThrows(s) => lease' = lease /\ lapses < MaxLapses /\ lapses' = lapses + 1
        BY DEF SweepThrows
      <3> QED
        BY <1>6, <3>1, <3>2
    <2>2. /\ next \in Processes /\ next.token = supervisor[s].token
          /\ Rounds(supervisor[s].pc) => Rounds(next.pc)
      <3>1. pc \in Phases /\ (Rounds(supervisor[s].pc) => Rounds(pc))
        BY <2>1 DEF Phases, Rounds
      <3> QED
        BY <1>4, <3>1
    <2> HIDE DEF next
    <2>3. SweepTypeOK'
      BY <1>3, <1>12, <1>13, <2>1, <2>2, <2>4
    <2> QED
      BY <2>1, <2>2, <2>3, <2>4, CountKept
  <1>7. ASSUME NEW s \in Supervisors, Stop(s) \/ SweepCrash(s) \/ Leave(s)
        PROVE  SweepTypeOK' /\ TokensCounted'
    <2>1. /\ supervisor' = [supervisor EXCEPT ![s] = Off]
          /\ lease' = lease \/ (Owns(s) /\ lease' = [lease EXCEPT !.live = FALSE])
          /\ \/ lapses < MaxLapses /\ lapses' = lapses + 1
             \/ ~Rounds(supervisor[s].pc) /\ lapses' = lapses
      BY <1>7 DEF Stop, SweepCrash, Leave, ReleaseLease, Rounds
    <2>2. SweepTypeOK'
      BY <1>3, <1>4, <1>11, <1>12, <1>13, <2>1
    <2> QED
      BY <2>1, <2>2, CountKept
  <1>8. ASSUME SweepLeaseEnds
        PROVE  SweepTypeOK' /\ TokensCounted'
    <2>1. /\ lease' = [lease EXCEPT !.live = FALSE] /\ supervisor' = supervisor
          /\ \/ lapses < MaxLapses /\ lapses' = lapses + 1
             \/ ~Held /\ lapses' = lapses
      BY <1>8 DEF SweepLeaseEnds, Held, Rounds
    <2>2. SweepTypeOK'
      BY <1>3, <1>11, <1>12, <1>13, <2>1
    <2>3. lease.token \in Nat /\ lapses \in Nat /\ lease'.token = lease.token
      BY <1>3, <1>11, <2>1, SweepAssumption DEF Tokens
    <2>4. lease'.token <= lapses'
      BY <2>1, <2>3 DEF SweepIInv, TokensCounted
    <2>5. lapses' \in Nat
      BY <2>1, <2>3
    <2> QED
      <3>1. lease'.token <= lapses' + 1
        BY <2>3, <2>4, <2>5
      <3> QED
        BY <2>2, <2>4, <3>1 DEF TokensCounted
  <1>9. ASSUME UNCHANGED sweepVars
        PROVE  SweepTypeOK' /\ TokensCounted'
    <2>1. lease' = lease /\ supervisor' = supervisor /\ lapses' = lapses
      BY <1>9 DEF sweepVars
    <2>2. SweepTypeOK'
      BY <1>3, <1>13, <2>1
    <2>3. TokensCounted'
      BY <2>1, Zenon DEF SweepIInv, TokensCounted, Held, Owns
    <2> QED
      BY <2>2, <2>3
  <1>10. SweepTypeOK' /\ TokensCounted'
    <2>1. CASE SweepNext
      BY <1>5, <1>6, <1>7, <1>8, <1>9, <2>1, AcquireKeeps, Zenon DEF SweepNext, Cycle
    <2>2. CASE UNCHANGED taskRunsVars
      <3>1. UNCHANGED sweepVars
        BY <2>2 DEF taskRunsVars, sweepVars
      <3> QED
        BY <1>9, <3>1
    <2> QED
      BY <2>1, <2>2
  <1> QED
    BY <1>1, <1>10 DEF SweepIInv

LEMMA SweepInvariance == SweepSpec => []SweepIInv
  BY InitIInv, StepKeeps, PTL DEF SweepSpec

-----------------------------------------------------------------------------
(* Theorems *)

\* Every row and every event of tasks, runs and supervisors is well typed: versions, fencing tokens
\* and lapses stay within their bounds.
THEOREM TaskRunsTypeCorrect == SweepSpec => []SweepTypeOK
  <1>1. SweepIInv => SweepTypeOK
    BY DEF SweepIInv
  <1> QED
    BY <1>1, SweepInvariance, PTL

\* An active run is the only one of its task, and its task is in progress (task-runs.js).
THEOREM RunOwnsItsTask == SweepSpec => []ActiveRunOwnsTask
  <1>1. SweepIInv => ActiveRunOwnsTask
    BY DEF SweepIInv, TasksIInv
  <1> QED
    BY <1>1, SweepInvariance, PTL

\* The events of every task and run tell how their row came to be (core.js, task-runs.js).
THEOREM EventsTellTheRows == SweepSpec => []StoriesAgree
  <1>1. SweepIInv => StoriesAgree
    <2> SUFFICES ASSUME SweepIInv
                 PROVE  /\ \A t \in Tasks : TaskStory(t)
                        /\ \A r \in Runs : RunStory(r)
      BY DEF StoriesAgree
    <2>1. \A t \in Tasks : TaskStory(t)
      BY DEF SweepIInv, TasksIInv, Stories, TaskTold, TaskStory
    <2>2. ASSUME NEW r \in Runs, run[r] # NoRun
          PROVE  RunStory(r)
      <3> DEFINE E == runEvents[r]
      <3>1. RunTold(run[r], E, taskEvents[run[r].task], task[run[r].task].version)
        BY DEF SweepIInv, TasksIInv, Stories
      <3>2. Len(E) \in Nat /\ Len(E) > 0
        BY <2>2, <3>1 DEF RunTold, SweepIInv, TasksIInv, TasksTypeOK, Run
      <3>3. run[r].status = "active" => E[Len(E)].type \in {"Claimed", "Heartbeat"}
        <4>2. \A n \in Nat : n > 0 => n = 1 \/ n \in 2..n
          OBVIOUS
        <4>1. Len(E) = 1 \/ Len(E) \in 2..Len(E)
          BY <3>2, <4>2
        <4> QED
          BY <2>2, <3>1, <4>1 DEF RunTold
      <3> QED
        BY <2>2, <3>1, <3>3 DEF RunTold, RunStory, EndsWell
    <2>3. \A r \in Runs : RunStory(r)
      BY <2>2 DEF RunStory
    <2> QED
      BY <2>1, <2>3
  <1> QED
    BY <1>1, SweepInvariance, PTL

\* How a run that was active can have ended.
EndsOnTime(r) ==
    CASE run'[r].status \in {"completed", "released"} -> run[r].live
      [] run'[r].status = "expired" -> ~run[r].live
      [] OTHER -> task'[run[r].task].state = "cancelled"

LEMMA EndedOnTime ==
    ASSUME TasksIInv, TaskStep \/ Sweep,
           NEW r \in Runs, run[r].status = "active", run'[r].status # "active"
    PROVE  EndsOnTime(r)
  <1>1. run \in [Runs -> Run \cup {NoRun}] /\ run[r] \in Run /\ run[r].task \in Tasks
    BY NoRunRow, RunRows DEF TasksIInv, TasksTypeOK
  <1>2. ASSUME NEW x \in Runs, NEW status, NEW type, NEW version,
               RunBecomes(x, status, type, version)
        PROVE  /\ run'[r] # run[r] => r = x
               /\ r = x => run'[r].status = status
    <2>1. run' = [run EXCEPT ![x] = Became(run[x], status)]
      BY <1>2, Zenon DEF RunBecomes, Became
    <2>2. r = x => run'[r] = Became(run[r], status)
      BY <1>1, <2>1
    <2>3. Became(run[r], status).status = status
      BY <1>1 DEF Became, Run
    <2>4. r # x => run'[r] = run[r]
      BY <1>1, <2>1
    <2> QED
      BY <2>2, <2>3, <2>4
  <1>3. ASSUME NEW t \in Tasks, Ingest(t)
        PROVE  FALSE
    BY <1>3 DEF Ingest
  <1>4. ASSUME NEW t \in Tasks, NEW type \in CommandTypes, NEW actor, Command(t, type, actor)
        PROVE  EndsOnTime(r)
    <2>1. type = "CancelTask" /\ ActiveRuns(t) # {}
      BY <1>4 DEF Command, Coordinated
    <2>2. PICK x \in ActiveRuns(t) :
            RunBecomes(x, "interrupted", "interrupted", task[t].version + 1)
      BY <1>4, <2>1 DEF Command, Coordinated
    <2>3. r = x /\ run'[r].status = "interrupted" /\ run[r].task = t
      BY <1>2, <2>2 DEF ActiveRuns
    <2>4. task'[t].state = "cancelled"
      <3>1. PICK to \in TaskStates, event \in TaskEventTypes :
              task[t] # NoTask /\ TaskMoves(t, to, event) /\ to = "cancelled"
        BY <1>4, <2>1, CommandMoves
      <3> QED
        BY <3>1, TasksMove
    <2> QED
      BY <2>3, <2>4 DEF EndsOnTime
  <1>5. ASSUME NEW x \in Runs, NEW t \in Tasks, NEW w \in RunWorkers, Claim(x, t, w)
        PROVE  EndsOnTime(r)
    <2>1. run[x] = NoRun /\ Admitted(x, t, w, task'[t].version)
      BY <1>5 DEF Claim
    <2>2. r # x
      BY <2>1, NoRunRow
    <2>3. r \in ActiveRuns(t) /\ run'[r] = Became(run[r], "expired") /\ ~run[r].live
      BY <2>1, <2>2, Zenon DEF Admitted, Became
    <2>4. run'[r].status = "expired"
      BY <1>1, <2>3 DEF Became, Run
    <2> QED
      BY <2>3, <2>4 DEF EndsOnTime
  <1>6. ASSUME NEW x \in Runs, NEW w \in RunWorkers, Heartbeat(x, w)
        PROVE  FALSE
    BY <1>2, <1>6 DEF Heartbeat
  <1>7. ASSUME NEW x \in Runs, NEW w \in RunWorkers, Complete(x, w) \/ Release(x, w)
        PROVE  EndsOnTime(r)
    <2>1. r = x /\ run'[r].status \in {"completed", "released"} /\ run[r].live
      BY <1>2, <1>7 DEF Complete, Release, Finish, HoldsLease
    <2> QED
      BY <2>1 DEF EndsOnTime
  <1>8. ASSUME NEW x \in Runs, RunLeaseEnds(x)
        PROVE  FALSE
    BY <1>1, <1>8 DEF RunLeaseEnds, Run
  <1>9. CASE Sweep
    <2>1. PICK batch \in SUBSET {x \in Runs : run[x].status = "active" /\ ~run[x].live} :
            run' = [x \in Runs |-> IF x \in batch THEN Became(run[x], "expired") ELSE run[x]]
      BY <1>9, Zenon DEF Sweep, Became
    <2>2. r \in batch /\ run'[r] = Became(run[r], "expired") /\ ~run[r].live
      BY <2>1
    <2>3. run'[r].status = "expired"
      BY <1>1, <2>2 DEF Became, Run
    <2> QED
      BY <2>2, <2>3 DEF EndsOnTime
  <1> QED
    BY <1>3, <1>4, <1>5, <1>6, <1>7, <1>8, <1>9 DEF TaskStep

\* A run ends once, and only in a step that its lease allows; the lease of the sweep is ended by
\* its owner or by time, and passes on with a higher token, however processes stop and crash.
THEOREM LeasesDecideEnds == SweepSpec => LeasesDecide
  <1>1. SweepIInv /\ [SweepNext]_taskRunsVars => [\A r \in Runs :
          run[r].status = "active" /\ run'[r].status # "active" =>
             CASE run'[r].status \in {"completed", "released"} -> run[r].live
               [] run'[r].status = "expired" -> ~run[r].live
               [] OTHER -> task'[run[r].task].state = "cancelled"]_taskVars
    <2> SUFFICES ASSUME SweepIInv, [SweepNext]_taskRunsVars, ~(UNCHANGED taskVars)
                 PROVE  TaskStep \/ Sweep
      BY EndedOnTime DEF EndsOnTime, SweepIInv
    <2> QED
      BY DEF SweepNext, Cycle, Acquire, Renew, SweepOnce, SweepNothing, SweepThrows, Stop,
         SweepCrash, SweepLeaseEnds, AcquireForOnce, Leave, taskRunsVars, taskVars
  <1>2. SweepIInv /\ [SweepNext]_taskRunsVars => [
          /\ lease.live /\ ~lease'.live /\ supervisor' # supervisor =>
               \E s \in Supervisors : Owns(s) /\ supervisor'[s].pc = "off"
          /\ lease' # lease /\ lease'.live => ~lease.live /\ lease'.token = lease.token + 1]_taskRunsVars
    <2> SUFFICES ASSUME SweepIInv, SweepNext, lease' # lease
                 PROVE  /\ lease.live /\ ~lease'.live /\ supervisor' # supervisor =>
                             \E s \in Supervisors : Owns(s) /\ supervisor'[s].pc = "off"
                        /\ lease'.live => ~lease.live /\ lease'.token = lease.token + 1
      OBVIOUS
    <2>1. /\ lease \in [owner : Supervisors \cup {Nobody}, token : Tokens, live : BOOLEAN]
          /\ [lease EXCEPT !.live = FALSE].live = FALSE
          /\ supervisor \in [Supervisors -> Processes]
      BY DEF SweepIInv, SweepTypeOK, Processes, Phases
    <2>2. ASSUME NEW s \in Supervisors, Acquire(s) \/ AcquireForOnce(s)
          PROVE  ~lease.live /\ lease'.token = lease.token + 1
      BY <2>2 DEF Acquire, AcquireForOnce, Acquires
    <2>3. ASSUME NEW s \in Supervisors, Stop(s) \/ Leave(s)
          PROVE  Owns(s) /\ supervisor'[s].pc = "off" /\ lease'.live = FALSE
      <3>1. Owns(s) /\ lease' = [lease EXCEPT !.live = FALSE]
        BY <2>3 DEF Stop, Leave, ReleaseLease
      <3>2. supervisor'[s] = Off
        BY <2>1, <2>3 DEF Stop, Leave, ReleaseLease
      <3> QED
        BY <2>1, <3>1, <3>2 DEF Off
    <2>4. CASE SweepLeaseEnds
      BY <2>1, <2>4 DEF SweepLeaseEnds
    <2>5. \A s \in Supervisors : ~Renew(s) /\ ~SweepOnce(s) /\ ~SweepNothing(s)
                                 /\ ~SweepThrows(s) /\ ~SweepCrash(s)
      BY DEF Renew, SweepOnce, SweepNothing, SweepThrows, SweepCrash
    <2>6. CASE \E s \in Supervisors : Acquire(s) \/ AcquireForOnce(s)
      BY <2>2, <2>6
    <2>7. CASE \E s \in Supervisors : Stop(s) \/ Leave(s)
      BY <2>3, <2>7
    <2> QED
      BY <2>4, <2>5, <2>6, <2>7 DEF SweepNext, Cycle, sweepVars
  <1> QED
    BY <1>1, <1>2, SweepInvariance, PTL DEF SweepSpec, LeasesDecide, RunsEndOnTime, LeaseChangesHands
=============================================================================
