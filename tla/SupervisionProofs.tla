--------------------------- MODULE SupervisionProofs ---------------------------
(* Theorems about the scheduler, alone and beside the activity monitor. *)
EXTENDS MCSupervision, TLAPS

-----------------------------------------------------------------------------
(* Rows of the scheduler *)

LEMMA TaskRow ==
    ASSUME NEW row \in Task
    PROVE  /\ row.status \in {"gone", "pending", "running", "completed", "failed", "paused"}
           /\ row.repeats \in BOOLEAN /\ row.due \in {"no", "due", "late"}
           /\ row.stale \in BOOLEAN /\ row.error \in BOOLEAN
  BY DEF Task

\* A row with another status, another time and another error.
Written(row, s, due, error) ==
    [row EXCEPT !.status = s, !.due = due, !.error = error, !.stale = FALSE]

\* One task changes; its row and its runs go together.
Changes(t, row, h) ==
    /\ tasks' = [tasks EXCEPT ![t] = row]
    /\ history' = [history EXCEPT ![t] = h]

\* A row and the history of its newest run tell one story.
Agrees(row, h) ==
    /\ row.status = "running" => h.last = "started"
    /\ row.status = "completed" => h.last = IF row.error THEN "timeout" ELSE "success"
    /\ h.last \in {"failed", "timeout"} => row.error

Good(row, h) ==
    /\ row \in Task /\ h \in History /\ Agrees(row, h)
    /\ row.status = "gone" => h = NoRuns

RowsOK ==
    /\ tasks \in [Tasks -> Task] /\ history \in [Tasks -> History]
    /\ \A t \in Tasks : Good(tasks[t], history[t])

\* Where the daemon is, and the tasks it has read there.
DaemonOK ==
    /\ daemon \in [pc : {"down", "boot", "asleep", "pick", "completed", "missed", "stale",
                         "sendPicked", "sendMissed"},
                   todo : SUBSET Tasks, task : Tasks \cup {NoTask}]
    /\ (daemon.pc \in {"sendPicked", "sendMissed"}) = (daemon.task # NoTask)

LEMMA AtIsOK ==
    ASSUME NEW pc \in {"down", "boot", "asleep", "pick", "completed", "missed", "stale"},
           NEW todo \in SUBSET Tasks, daemon' = At(pc, todo)
    PROVE  DaemonOK'
  BY SchedulerAssumption DEF DaemonOK, At

LEMMA BeginsOK ==
    ASSUME NEW pc \in {"boot", "completed", "missed", "stale"}, Begins(pc)
    PROVE  DaemonOK'
  <1>1. CASE pc = "completed"
    <2>1. daemon' = At(pc, {t \in Tasks : ToReschedule(t)}')
      BY <1>1 DEF Begins
    <2> QED
      BY <2>1, AtIsOK
  <1>2. CASE pc = "missed"
    <2>1. \E todo \in SUBSET Tasks : daemon' = At(pc, todo)
      BY <1>2 DEF Begins
    <2> QED
      BY <2>1, AtIsOK
  <1>3. CASE pc \in {"boot", "stale"}
    <2>1. daemon' = At(pc, {t \in Tasks : Overrun(t)})
      BY <1>3 DEF Begins
    <2> QED
      BY <2>1, AtIsOK
  <1> QED
    BY <1>1, <1>2, <1>3

LEMMA HandledOK ==
    ASSUME DaemonOK, NEW t, HandledOf(t)
    PROVE  DaemonOK'
  BY DEF DaemonOK, HandledOf

-----------------------------------------------------------------------------
(* Changes of one task *)

LEMMA OneChanges ==
    ASSUME RowsOK, NEW t \in Tasks, NEW row, NEW h, Good(row, h), Changes(t, row, h)
    PROVE  RowsOK'
  BY DEF RowsOK, Changes, Good

LEMMA WrittenRow ==
    ASSUME NEW row \in Task, NEW due \in {"no", "due", "late"}, NEW error \in BOOLEAN,
           NEW s \in {"gone", "pending", "running", "completed", "failed", "paused"}
    PROVE  /\ Written(row, s, due, error) \in Task
           /\ Written(row, s, due, error).status = s
           /\ Written(row, s, due, error).error = error
  BY DEF Task, Written

\* A row that is given another status, without its history.
LEMMA StatusWritten ==
    ASSUME RowsOK, NEW t \in Tasks, NEW due \in {"no", "due", "late"}, NEW error \in BOOLEAN,
           NEW s \in {"pending", "failed", "paused"}, tasks[t].error => error,
           tasks' = [tasks EXCEPT ![t] = Written(tasks[t], s, due, error)],
           history' = history
    PROVE  RowsOK'
  <1>1. tasks[t] \in Task /\ history[t] \in History /\ Agrees(tasks[t], history[t])
    BY DEF RowsOK, Good
  <1> DEFINE row == Written(tasks[t], s, due, error)
  <1>0. s \in {"gone", "pending", "running", "completed", "failed", "paused"}
    OBVIOUS
  <1>2. row \in Task /\ row.status = s /\ row.error = error
    BY <1>0, <1>1 DEF Task, Written
  <1> HIDE DEF row
  <1>3. Good(row, history[t])
    BY <1>1, <1>2 DEF Good, Agrees
  <1>4. Changes(t, row, history[t])
    BY DEF Changes, RowsOK, row
  <1> QED
    BY <1>3, <1>4, OneChanges

\* The same, spelled as the actions do.
LEMMA SpelledOut ==
    ASSUME NEW t \in Tasks, NEW s, NEW due, tasks \in [Tasks -> Task]
    PROVE  /\ [tasks EXCEPT ![t].status = s, ![t].due = due, ![t].stale = FALSE]
                = [tasks EXCEPT ![t] = Written(tasks[t], s, due, tasks[t].error)]
           /\ [tasks EXCEPT ![t].status = s, ![t].error = TRUE, ![t].stale = FALSE]
                = [tasks EXCEPT ![t] = Written(tasks[t], s, tasks[t].due, TRUE)]
           /\ [tasks EXCEPT ![t].status = s, ![t].stale = FALSE]
                = [tasks EXCEPT ![t] = Written(tasks[t], s, tasks[t].due, tasks[t].error)]
           /\ [tasks EXCEPT ![t].status = s, ![t].error = FALSE, ![t].stale = FALSE]
                = [tasks EXCEPT ![t] = Written(tasks[t], s, tasks[t].due, FALSE)]
  <1>1. tasks[t] = [status |-> tasks[t].status, repeats |-> tasks[t].repeats, due |-> tasks[t].due,
                    stale |-> tasks[t].stale, error |-> tasks[t].error]
    BY DEF Task
  <1> QED
    BY <1>1, Zenon DEF Written

\* updateNextRunTime keeps the story.
LEMMA RescheduledOK ==
    ASSUME RowsOK, NEW t \in Tasks, Rescheduled(t), history' = history
    PROVE  RowsOK'
  <1>1. tasks \in [Tasks -> Task] /\ tasks[t].error \in BOOLEAN
        /\ tasks[t].due \in {"no", "due", "late"}
    BY TaskRow DEF RowsOK
  <1>2. CASE tasks' = [tasks EXCEPT ![t].status = "pending", ![t].due = "no", ![t].stale = FALSE]
    <2> DEFINE row == Written(tasks[t], "pending", "no", tasks[t].error)
    <2>1. tasks' = [tasks EXCEPT ![t] = row]
      <3>1. tasks[t] = [tasks[t] EXCEPT !.error = tasks[t].error]
        BY <1>1, TaskRow DEF Task
      <3> QED
        BY ZenonT(40), <1>2, <3>1 DEF Written
    <2> QED
      BY <1>1, <2>1, StatusWritten
  <1>3. CASE tasks' = [tasks EXCEPT ![t].status = "failed", ![t].error = TRUE, ![t].stale = FALSE]
    <2>1. tasks' = [tasks EXCEPT ![t] = Written(tasks[t], "failed", tasks[t].due, TRUE)]
      BY <1>1, <1>3, SpelledOut
    <2> QED
      BY <1>1, <2>1, StatusWritten
  <1> QED
    BY <1>2, <1>3 DEF Rescheduled

OthersOK ==
    /\ cli \in [Callers -> [cmd : {"none", "pause", "resume"}, task : Tasks \cup {NoTask}]]
    /\ alive \in BOOLEAN
    /\ commands \in 0..MaxCommands
    /\ mishaps \in 0..MaxMishaps

SInv == RowsOK /\ DaemonOK /\ OthersOK

LEMMA SInvSays == SInv <=> SchedulerTypeOK /\ StoryAgrees
  BY DEF SInv, RowsOK, DaemonOK, OthersOK, SchedulerTypeOK, StoryAgrees, Good, Agrees

LEMMA OthersSame ==
    ASSUME OthersOK, UNCHANGED <<cli, alive, commands, mishaps>>
    PROVE  OthersOK'
  BY DEF OthersOK

LEMMA RowsSame ==
    ASSUME RowsOK, UNCHANGED <<tasks, history>>
    PROVE  RowsOK'
  BY DEF RowsOK

LEMMA DaemonSame ==
    ASSUME DaemonOK, UNCHANGED daemon
    PROVE  DaemonOK'
  BY DEF DaemonOK

LEMMA MishapOK ==
    ASSUME OthersOK, Mishap
    PROVE  mishaps' \in 0..MaxMishaps
  BY SchedulerAssumption DEF OthersOK, Mishap

LEMMA CommandOK ==
    ASSUME OthersOK, Command
    PROVE  commands' \in 0..MaxCommands
  BY SchedulerAssumption DEF OthersOK, Command

\* A claim opens a run.
LEMMA ClaimOK ==
    ASSUME RowsOK, DaemonOK, NEW t \in Tasks, Claim(t)
    PROVE  RowsOK' /\ DaemonOK'
  <1>1. /\ tasks' = [tasks EXCEPT ![t].status = "running", ![t].stale = FALSE]
        /\ history' = [history EXCEPT ![t] = Begun(history[t])]
        /\ daemon' = [pc |-> IF daemon.pc = "pick" THEN "sendPicked" ELSE "sendMissed",
                      todo |-> daemon.todo \ {t}, task |-> t]
    BY DEF Claim
  <1>2. tasks \in [Tasks -> Task] /\ tasks[t] \in Task /\ history[t] \in History
    BY DEF RowsOK
  <1> DEFINE row == Written(tasks[t], "running", tasks[t].due, tasks[t].error)
             h == Begun(history[t])
  <1>3. tasks' = [tasks EXCEPT ![t] = row]
    BY <1>1, <1>2, SpelledOut
  <1>4. row \in Task /\ row.status = "running"
    BY <1>2, TaskRow DEF Written, Task
  <1>5. h \in History /\ h.last = "started"
    BY <1>2 DEF Begun, History
  <1> HIDE DEF row, h
  <1>6. Good(row, h)
    BY <1>4, <1>5 DEF Good, Agrees
  <1>7. Changes(t, row, h)
    BY <1>1, <1>3 DEF Changes, h
  <1>8. DaemonOK'
    BY <1>1, SchedulerAssumption DEF DaemonOK
  <1> QED
    BY <1>6, <1>7, <1>8, OneChanges

\* A send that ends leaves the daemon in its next phase.
LEMMA AfterDispatchOK ==
    ASSUME DaemonOK, AfterDispatch
    PROVE  DaemonOK'
  <1>1. CASE daemon.pc = "sendPicked"
    BY <1>1, BeginsOK DEF AfterDispatch
  <1>2. CASE daemon.pc # "sendPicked"
    <2>1. daemon.todo \in SUBSET Tasks
      BY DEF DaemonOK
    <2> QED
      BY <1>2, <2>1, AtIsOK DEF AfterDispatch
  <1> QED
    BY <1>1, <1>2

\* A send that fails ends the run it was for, if the task still has it.
LEMMA SendFailsOK ==
    ASSUME RowsOK, DaemonOK, SendFails
    PROVE  RowsOK' /\ DaemonOK'
  <1> DEFINE t == daemon.task
  <1>1. t \in Tasks
    BY DEF SendFails, Sending, DaemonOK
  <1>2. tasks \in [Tasks -> Task] /\ tasks[t] \in Task /\ history[t] \in History
        /\ history \in [Tasks -> History]
    BY <1>1 DEF RowsOK
  <1>3. CASE tasks[t].status = "running"
    <2>1. /\ tasks' = [tasks EXCEPT ![t].status = "pending", ![t].error = TRUE, ![t].stale = FALSE]
          /\ history' = [history EXCEPT ![t].last = "failed"]
          /\ AfterDispatch
      BY <1>3 DEF SendFails
    <2> DEFINE row == Written(tasks[t], "pending", tasks[t].due, TRUE)
               h == [history[t] EXCEPT !.last = "failed"]
    <2>2. tasks' = [tasks EXCEPT ![t] = row]
      BY <1>1, <1>2, <2>1, SpelledOut
    <2>3. row \in Task /\ row.status = "pending" /\ row.error
      BY <1>2, TaskRow DEF Written, Task
    <2>4. h \in History /\ h.last = "failed"
      BY <1>2 DEF History
    <2>5. history' = [history EXCEPT ![t] = h]
      BY <2>1, Zenon
    <2> HIDE DEF row, h
    <2>6. Good(row, h)
      BY <2>3, <2>4 DEF Good, Agrees
    <2>7. Changes(t, row, h)
      BY <2>2, <2>5 DEF Changes
    <2> QED
      BY <1>1, <2>1, <2>6, <2>7, OneChanges, AfterDispatchOK
  <1>4. CASE tasks[t].status # "running"
    <2>1. daemon' = At("asleep", {}) /\ UNCHANGED <<tasks, history>>
      BY <1>4 DEF SendFails
    <2> QED
      BY <2>1, AtIsOK, RowsSame
  <1> QED
    BY <1>3, <1>4

\* A row whose times change, but neither its status nor its error.
LEMMA TimesChange ==
    ASSUME RowsOK, NEW t \in Tasks, NEW row \in Task, tasks' = [tasks EXCEPT ![t] = row],
           row.status = tasks[t].status, row.error = tasks[t].error, history' = history
    PROVE  RowsOK'
  <1>1. Good(row, history[t])
    BY DEF RowsOK, Good, Agrees
  <1>2. Changes(t, row, history[t])
    BY DEF Changes, RowsOK
  <1> QED
    BY <1>1, <1>2, OneChanges

LEMMA TimesOutOK ==
    ASSUME RowsOK, NEW t \in Tasks, TimesOut(t)
    PROVE  RowsOK'
  <1>1. tasks \in [Tasks -> Task] /\ tasks[t] \in Task /\ history[t] \in History
        /\ Agrees(tasks[t], history[t])
    BY DEF RowsOK, Good
  <1>2. CASE Overrun(t)
    <2> DEFINE s == IF tasks[t].repeats THEN "completed" ELSE "failed"
               row == Written(tasks[t], s, tasks[t].due, TRUE)
               h == RunEnded(history[t], Active(history[t]), "timeout")
    <2>1. /\ tasks' = [tasks EXCEPT ![t].status = s, ![t].error = TRUE, ![t].stale = FALSE]
          /\ history' = [history EXCEPT ![t] = h]
      BY <1>2 DEF TimesOut
    <2>2. history[t].last = "started"
      BY <1>1, <1>2 DEF Overrun, Agrees
    <2>3. h = [history[t] EXCEPT !.last = "timeout"]
      BY <2>2, Zenon DEF Active, RunEnded
    <2>4. h \in History /\ h.last = "timeout"
      BY <1>1, <2>3 DEF History
    <2>5. row \in Task /\ row.status = s /\ row.error
      BY <1>1, TaskRow DEF Written, Task
    <2>6. s \in {"completed", "failed"}
      OBVIOUS
    <2>7. tasks' = [tasks EXCEPT ![t] = row]
      BY <1>1, <2>1, SpelledOut
    <2> HIDE DEF s, row, h
    <2>8. Good(row, h)
      BY <2>4, <2>5, <2>6 DEF Good, Agrees
    <2>9. Changes(t, row, h)
      BY <2>1, <2>7 DEF Changes
    <2> QED
      BY <2>8, <2>9, OneChanges
  <1>3. CASE ~Overrun(t)
    BY <1>3, RowsSame DEF TimesOut
  <1> QED
    BY <1>2, <1>3

\* The completion of a task ends its newest run, whatever run it names.
LEMMA DoneOK ==
    ASSUME RowsOK, NEW t \in Tasks, NEW which, Done(t, which)
    PROVE  RowsOK'
  <1>1. tasks \in [Tasks -> Task] /\ tasks[t] \in Task /\ history[t] \in History
        /\ Agrees(tasks[t], history[t])
    BY DEF RowsOK, Good
  <1> DEFINE row == Written(tasks[t], "completed", tasks[t].due, FALSE)
             h == RunEnded(history[t], which, "success")
  <1>2. /\ tasks' = [tasks EXCEPT ![t].status = "completed", ![t].error = FALSE, ![t].stale = FALSE]
        /\ history' = [history EXCEPT ![t] = h]
        /\ history[t].last = "started" /\ which = Active(history[t])
    BY <1>1 DEF Done, Agrees
  <1>3. which = "last"
    BY <1>2, Zenon DEF Active
  <1>4. h = [history[t] EXCEPT !.last = "success"]
    BY <1>3 DEF RunEnded
  <1>5. h \in History /\ h.last = "success"
    BY <1>1, <1>4 DEF History
  <1>6. row \in Task /\ row.status = "completed" /\ row.error = FALSE
    BY <1>1, TaskRow DEF Written, Task
  <1>7. tasks' = [tasks EXCEPT ![t] = row]
    BY <1>1, <1>2, SpelledOut
  <1> HIDE DEF row, h
  <1>8. Good(row, h)
    BY <1>5, <1>6 DEF Good, Agrees
  <1>9. Changes(t, row, h)
    BY <1>2, <1>7 DEF Changes
  <1> QED
    BY <1>8, <1>9, OneChanges

LEMMA AddedRow ==
    ASSUME NEW repeats \in BOOLEAN
    PROVE  /\ Added(repeats) \in Task /\ Added(repeats).status = "pending"
           /\ Gone \in Task /\ Gone.status = "gone"
           /\ NoRuns \in History /\ NoRuns.last = "none"
  BY DEF Added, Gone, Task, NoRuns, History

LEMMA AddOK ==
    ASSUME RowsOK, NEW t \in Tasks, cmdAdd(t)
    PROVE  RowsOK'
  <1>1. PICK repeats \in BOOLEAN : tasks' = [tasks EXCEPT ![t] = Added(repeats)]
    BY DEF cmdAdd
  <1>2. history[t] = NoRuns /\ history' = history
    BY DEF cmdAdd, RowsOK, Good
  <1>3. Good(Added(repeats), NoRuns)
    BY AddedRow DEF Good, Agrees
  <1>4. Changes(t, Added(repeats), NoRuns)
    BY <1>1, <1>2 DEF Changes, RowsOK
  <1> QED
    BY <1>3, <1>4, OneChanges

LEMMA RemoveOK ==
    ASSUME RowsOK, NEW t \in Tasks, cmdRemove(t)
    PROVE  RowsOK'
  <1>1. Good(Gone, NoRuns)
    BY AddedRow DEF Good, Agrees
  <1>2. Changes(t, Gone, NoRuns)
    BY DEF cmdRemove, Changes
  <1> QED
    BY <1>1, <1>2, OneChanges

LEMMA UpdateOK ==
    ASSUME RowsOK, NEW t \in Tasks, cmdUpdate(t)
    PROVE  RowsOK'
  <1>1. PICK repeats \in BOOLEAN, due \in {"no", "due", "late"} :
          tasks' = [tasks EXCEPT ![t].repeats = repeats, ![t].due = due, ![t].stale = FALSE]
    BY DEF cmdUpdate
  <1> DEFINE row == [tasks[t] EXCEPT !.repeats = repeats, !.due = due, !.stale = FALSE]
  <1>2. tasks' = [tasks EXCEPT ![t] = row]
    BY <1>1, Zenon
  <1>3. tasks[t] \in Task
    BY DEF RowsOK
  <1>4. row \in Task /\ row.status = tasks[t].status /\ row.error = tasks[t].error
    BY <1>3 DEF Task
  <1>5. history' = history
    BY DEF cmdUpdate
  <1> HIDE DEF row
  <1> QED
    BY <1>2, <1>4, <1>5, TimesChange

\* A pause or a resume writes its status over whatever has become of the task.
LEMMA WritesOK ==
    ASSUME RowsOK, OthersOK, NEW c \in Callers, Writes(c)
    PROVE  RowsOK' /\ OthersOK'
  <1> DEFINE t == cli[c].task
             s == IF cli[c].cmd = "pause" THEN "paused" ELSE "pending"
  <1>1. history' = history /\ cli' = [cli EXCEPT ![c] = Idle]
        /\ UNCHANGED <<alive, commands, mishaps>>
    BY DEF Writes
  <1>2. OthersOK'
    <2>1. Idle \in [cmd : {"none", "pause", "resume"}, task : Tasks \cup {NoTask}]
      BY DEF Idle
    <2> QED
      BY <1>1, <2>1 DEF OthersOK
  <1>3. CASE tasks' = tasks
    BY <1>1, <1>2, <1>3, RowsSame
  <1>4. CASE tasks' # tasks
    <2>1. tasks' = [tasks EXCEPT ![t].stale = FALSE, ![t].status = s]
      BY <1>4 DEF Writes
    <2>2. t \in Tasks
      BY <1>4, <2>1 DEF RowsOK
    <2>3. tasks[t] \in Task
      BY <2>2 DEF RowsOK
    <2>4. [tasks EXCEPT ![t].stale = FALSE, ![t].status = s]
            = [tasks EXCEPT ![t] = [tasks[t] EXCEPT !.stale = FALSE, !.status = s]]
      BY Zenon
    <2>5. [tasks[t] EXCEPT !.stale = FALSE, !.status = s]
            = Written(tasks[t], s, tasks[t].due, tasks[t].error)
      BY <2>3 DEF Written, Task
    <2>6. tasks' = [tasks EXCEPT ![t] = Written(tasks[t], s, tasks[t].due, tasks[t].error)]
      BY <2>1, <2>4, <2>5, Zenon
    <2>7. s \in {"pending", "failed", "paused"} /\ tasks[t].due \in {"no", "due", "late"}
          /\ tasks[t].error \in BOOLEAN
      BY <2>3, TaskRow
    <2> HIDE DEF s, t
    <2> QED
      BY <1>1, <1>2, <2>2, <2>6, <2>7, StatusWritten
  <1> QED
    BY <1>3, <1>4

LEMMA TimePasses ==
    ASSUME RowsOK, NEW t \in Tasks, DueComes(t) \/ HourPasses(t)
    PROVE  RowsOK'
  <1>1. tasks[t] \in Task
    BY DEF RowsOK
  <1>2. CASE DueComes(t)
    <2> DEFINE due == IF tasks[t].due = "no" THEN "due" ELSE "late"
               row == [tasks[t] EXCEPT !.due = due]
    <2>1. /\ tasks' = [tasks EXCEPT ![t].due = IF @ = "no" THEN "due" ELSE "late"]
          /\ history' = history
      BY <1>2 DEF DueComes
    <2>2. tasks' = [tasks EXCEPT ![t] = row]
      BY <2>1, Zenon
    <2>3. due \in {"no", "due", "late"}
      OBVIOUS
    <2> HIDE DEF due
    <2>4. row \in Task /\ row.status = tasks[t].status /\ row.error = tasks[t].error
      BY <1>1, <2>3 DEF Task
    <2> HIDE DEF row
    <2> QED
      BY <2>1, <2>2, <2>4, TimesChange
  <1>3. CASE HourPasses(t)
    <2> DEFINE row == [tasks[t] EXCEPT !.stale = TRUE]
    <2>1. tasks' = [tasks EXCEPT ![t].stale = TRUE] /\ history' = history
      BY <1>3 DEF HourPasses
    <2>2. tasks' = [tasks EXCEPT ![t] = row]
      BY <2>1, Zenon
    <2>3. row \in Task /\ row.status = tasks[t].status /\ row.error = tasks[t].error
      BY <1>1 DEF Task
    <2> HIDE DEF row
    <2> QED
      BY <2>1, <2>2, <2>3, TimesChange
  <1> QED
    BY <1>2, <1>3

LEMMA PicksLateOK ==
    ASSUME RowsOK, NEW t \in Tasks, PicksLate(t)
    PROVE  RowsOK'
  <1>1. history' = history /\ tasks[t].status = "pending"
    BY DEF PicksLate
  <1>2. CASE Rescheduled(t)
    BY <1>1, <1>2, RescheduledOK
  <1>3. CASE ~Rescheduled(t)
    <2>1. tasks \in [Tasks -> Task] /\ tasks[t].due \in {"no", "due", "late"}
      BY TaskRow DEF RowsOK
    <2>2. tasks' = [tasks EXCEPT ![t].status = "failed", ![t].error = TRUE, ![t].stale = FALSE]
      BY <1>3 DEF PicksLate
    <2>3. tasks' = [tasks EXCEPT ![t] = Written(tasks[t], "failed", tasks[t].due, TRUE)]
      BY <2>1, <2>2, SpelledOut
    <2> QED
      BY <1>1, <2>1, <2>3, StatusWritten
  <1> QED
    BY <1>2, <1>3
-----------------------------------------------------------------------------
(* The scheduler keeps its story *)

LEMMA SchedulerStarts == SchedulerInit => SInv
  <1> SUFFICES ASSUME SchedulerInit PROVE SInv
    OBVIOUS
  <1>1. RowsOK
    <2>1. tasks \in [Tasks -> {Added(TRUE), Added(FALSE), Gone}]
          /\ history = [t \in Tasks |-> NoRuns]
      BY DEF SchedulerInit
    <2>2. \A row \in {Added(TRUE), Added(FALSE), Gone} : Good(row, NoRuns)
      BY AddedRow DEF Good, Agrees
    <2> QED
      BY <2>1, <2>2 DEF RowsOK, Good
  <1>2. DaemonOK
    BY SchedulerAssumption DEF SchedulerInit, DaemonOK, At
  <1>3. OthersOK
    <2>1. Idle \in [cmd : {"none", "pause", "resume"}, task : Tasks \cup {NoTask}]
      BY DEF Idle
    <2> QED
      BY <2>1, SchedulerAssumption DEF SchedulerInit, OthersOK
  <1> QED
    BY <1>1, <1>2, <1>3 DEF SInv

LEMMA DaemonKeeps ==
    ASSUME SInv, DaemonStep
    PROVE  SInv'
  <1> USE DEF SInv
  <1>1. CASE DaemonStarts
    BY <1>1, BeginsOK, RowsSame, OthersSame DEF DaemonStarts
  <1>2. CASE Wakes
    BY <1>2, AtIsOK, RowsSame, OthersSame DEF Wakes
  <1>3. CASE SendSucceeds
    BY <1>3, AfterDispatchOK, RowsSame, OthersSame DEF SendSucceeds
  <1>4. CASE PicksNone
    BY <1>4, BeginsOK, RowsSame, OthersSame DEF PicksNone
  <1>5. CASE Proceeds
    <2>1. DaemonOK'
      BY <1>5, BeginsOK, AtIsOK DEF Proceeds
    <2> QED
      BY <1>5, <2>1, RowsSame, OthersSame DEF Proceeds
  <1>6. ASSUME NEW t \in Tasks, Picks(t) PROVE SInv'
    BY <1>6, ClaimOK, OthersSame DEF Picks, Claim
  <1>7. ASSUME NEW t \in Tasks, PicksLate(t) PROVE SInv'
    <2>1. RowsOK'
      BY <1>7, PicksLateOK
    <2> QED
      BY <1>7, <2>1, BeginsOK, OthersSame DEF PicksLate
  <1>8. ASSUME NEW t \in Tasks, Reschedules(t) PROVE SInv'
    <2>1. RowsOK'
      BY <1>8, RescheduledOK, RowsSame DEF Reschedules
    <2> QED
      BY <1>8, <2>1, HandledOK, OthersSame DEF Reschedules
  <1>9. ASSUME NEW t \in Tasks, TimesOut(t) PROVE SInv'
    <2>1. RowsOK'
      BY <1>9, TimesOutOK
    <2> QED
      BY <1>9, <2>1, HandledOK, OthersSame DEF TimesOut
  <1>10. ASSUME NEW t \in Tasks, DispatchesMissed(t) PROVE SInv'
    BY <1>10, ClaimOK, OthersSame DEF DispatchesMissed, Claim
  <1>11. ASSUME NEW t \in Tasks, SkipsMissed(t) PROVE SInv'
    <2>1. RowsOK'
      BY <1>11, RescheduledOK DEF SkipsMissed
    <2> QED
      BY <1>11, <2>1, HandledOK, OthersSame DEF SkipsMissed
  <1>12. ASSUME NEW t \in Tasks, LeavesMissed(t) PROVE SInv'
    BY <1>12, HandledOK, RowsSame, OthersSame DEF LeavesMissed
  <1> QED
    BY <1>1, <1>2, <1>3, <1>4, <1>5, <1>6, <1>7, <1>8, <1>9, <1>10, <1>11, <1>12 DEF DaemonStep

LEMMA SchedulerKeeps ==
    ASSUME SInv, [SchedulerNext]_schedulerVars
    PROVE  SInv'
  <1> USE DEF SInv
  <1>1. CASE DaemonStep
    BY <1>1, DaemonKeeps
  <1>2. CASE DaemonCrashes
    <2>1. DaemonOK'
      BY <1>2, AtIsOK DEF DaemonCrashes
    <2>2. OthersOK'
      BY <1>2, MishapOK DEF DaemonCrashes, OthersOK
    <2> QED
      BY <1>2, <2>1, <2>2, RowsSame DEF DaemonCrashes
  <1>3. CASE SendFails
    <2>1. RowsOK' /\ DaemonOK'
      BY <1>3, SendFailsOK
    <2>2. Mishap /\ UNCHANGED <<cli, alive, commands>>
      BY <1>3 DEF SendFails
    <2>3. OthersOK'
      BY <2>2, MishapOK DEF OthersOK
    <2> QED
      BY <2>1, <2>3
  <1>4. ASSUME NEW t \in Tasks, NEW which \in {"last", "older"}, Done(t, which) PROVE SInv'
    <2>1. RowsOK'
      BY <1>4, DoneOK
    <2> QED
      BY <1>4, <2>1, DaemonSame, OthersSame DEF Done
  <1>5. ASSUME NEW t \in Tasks, cmdAdd(t) \/ cmdRemove(t) \/ cmdUpdate(t) PROVE SInv'
    <2>1. RowsOK'
      BY <1>5, AddOK, RemoveOK, UpdateOK
    <2>2. Command /\ UNCHANGED <<daemon, cli, alive, mishaps>>
      BY <1>5 DEF cmdAdd, cmdRemove, cmdUpdate
    <2>3. OthersOK'
      BY <2>2, CommandOK DEF OthersOK
    <2> QED
      BY <2>1, <2>2, <2>3, DaemonSame
  <1>6. ASSUME NEW t \in Tasks, NEW c \in Callers, cmdPause(c, t) \/ cmdResume(c, t) PROVE SInv'
    <2>1. PICK cmd \in {"pause", "resume"} : Reads(c, cmd, t)
      BY <1>6 DEF cmdPause, cmdResume
    <2>2. Command /\ UNCHANGED <<tasks, history, daemon, alive, mishaps>>
          /\ cli' = [cli EXCEPT ![c] = [cmd |-> cmd, task |-> t]]
      BY <2>1 DEF Reads
    <2>3. OthersOK'
      BY <2>2, CommandOK DEF OthersOK
    <2> QED
      BY <2>2, <2>3, RowsSame, DaemonSame
  <1>7. ASSUME NEW t \in Tasks, DueComes(t) \/ HourPasses(t) PROVE SInv'
    <2>1. RowsOK'
      BY <1>7, TimePasses
    <2>2. UNCHANGED <<daemon, cli, alive, commands, mishaps>>
      BY <1>7 DEF DueComes, HourPasses
    <2> QED
      BY <2>1, <2>2, DaemonSame, OthersSame
  <1>8. ASSUME NEW c \in Callers, Writes(c) PROVE SInv'
    <2>1. RowsOK' /\ OthersOK'
      BY <1>8, WritesOK
    <2> QED
      BY <1>8, <2>1, DaemonSame DEF Writes
  <1>9. CASE AgentLeaves
    <2>1. OthersOK'
      BY <1>9, MishapOK DEF AgentLeaves, OthersOK
    <2> QED
      BY <1>9, <2>1, RowsSame, DaemonSame DEF AgentLeaves
  <1>10. CASE AgentReturns
    <2>1. OthersOK'
      BY <1>10 DEF AgentReturns, OthersOK
    <2> QED
      BY <1>10, <2>1, RowsSame, DaemonSame DEF AgentReturns
  <1>11. CASE UNCHANGED schedulerVars
    BY <1>11, RowsSame, DaemonSame, OthersSame DEF schedulerVars
  <1> QED
    BY <1>1, <1>2, <1>3, <1>4, <1>5, <1>6, <1>7, <1>8, <1>9, <1>10, <1>11 DEF SchedulerNext
-----------------------------------------------------------------------------
(* The health engine's fields *)

LEMMA EngineFields ==
    ASSUME NEW e \in Engine
    PROVE  /\ e.health \in Health /\ e.failing \in BOOLEAN /\ e.waits \in BOOLEAN
           /\ e.signal \in {"none", "grace", "due"} /\ e.cooling \in BOOLEAN
           /\ e.postRestart \in BOOLEAN /\ e.hits \in {"none", "rate", "sticky"}
           /\ e.running \in {"unknown", "yes", "no"}
  BY DEF Engine

\* One or two of its fields change.
LEMMA FieldsChange ==
    ASSUME NEW e \in Engine, NEW v \in BOOLEAN, NEW w \in BOOLEAN,
           NEW s \in {"none", "grace", "due"}, NEW h \in {"none", "rate", "sticky"}
    PROVE  /\ [e EXCEPT !.failing = v, !.waits = w] \in Engine
           /\ [e EXCEPT !.waits = w] \in Engine
           /\ [e EXCEPT !.cooling = v] \in Engine
           /\ [e EXCEPT !.postRestart = v] \in Engine
           /\ [e EXCEPT !.signal = s] \in Engine
           /\ [e EXCEPT !.hits = h] \in Engine
  BY DEF Engine

LEMMA BecomesOK ==
    ASSUME NEW e \in Engine, NEW health \in Health
    PROVE  Becomes(e, health) \in Engine
  <1>1. /\ (e.cooling /\ health = "rate_limited") \in BOOLEAN
        /\ (e.postRestart /\ (health \notin {"ok", "rate_limited"} \/ e.health = health))
              \in BOOLEAN
    BY EngineFields
  <1> QED
    BY <1>1 DEF Becomes, Engine

LEMMA RateLimitedOK ==
    ASSUME NEW e \in Engine
    PROVE  RateLimited(e) \subseteq Engine
  <1> DEFINE b == Becomes(e, "rate_limited")
  <1>1. b \in Engine
    BY BecomesOK DEF Health
  <1> HIDE DEF b
  <1>2. [b EXCEPT !.failing = FALSE, !.waits = FALSE, !.signal = "none", !.cooling = TRUE]
          \in Engine
    BY <1>1 DEF Engine
  <1> QED
    BY <1>2, FieldsChange DEF RateLimited, b

LEMMA EngineSteps ==
    ASSUME NEW e \in Engine
    PROVE  /\ engine \in Engine => Attempted(e) \in Engine
           /\ Notified(e) \in Engine
           /\ Restarted(e) \in Engine
           /\ \A running \in BOOLEAN : Tracked(e, running) \in Engine
  <1>1. engine \in Engine => Attempted(e) \in Engine
    BY EngineFields, FieldsChange DEF Attempted
  <1>2. Notified(e) \in Engine
    BY FieldsChange DEF Notified
  <1>3. Restarted(e) \in Engine
    BY DEF Restarted, Engine
  <1>4. ASSUME NEW running \in BOOLEAN PROVE Tracked(e, running) \in Engine
    BY DEF Tracked, Engine
  <1> QED
    BY <1>1, <1>2, <1>3, <1>4
-----------------------------------------------------------------------------
(* The monitor's heartbeats, and the rest of its state *)

EngineOK == engine \in Engine

\* A heartbeat that the pending file or a probe names is still a row of the queue.
BeatsOK ==
    /\ pending \in [beat : Beats \cup {NoBeat}, old : BOOLEAN]
    /\ control \in [Beats -> {"free", "waiting", "done", "lost"}]
    /\ probe \in [Probes -> [pc : {"idle", "auth", "poll"}, beat : Beats \cup {NoBeat}]]
    /\ pending.beat # NoBeat => control[pending.beat] # "free"
    /\ \A p \in Probes : (probe[p].pc = "poll") = (probe[p].beat # NoBeat)
    /\ \A p \in Probes : probe[p].beat # NoBeat => control[probe[p].beat] # "free"

MonitorOK ==
    /\ notice \in [Notices -> {"idle", "sleep", "auth"}]
    /\ watchdog \in {"idle", "sent", "escalated"}
    /\ monitor \in [pc : {"idle", "tick"}, saw : BOOLEAN, grace : BOOLEAN]
    /\ status \in Health

SessionOK == session \in {"up", "starting", "down"} /\ faults \in 0..MaxFaults

HInv == EngineOK /\ BeatsOK /\ MonitorOK /\ SessionOK

LEMMA HInvSays == HInv => HealthTypeOK
  BY DEF HInv, EngineOK, BeatsOK, MonitorOK, SessionOK, HealthTypeOK

LEMMA SessionKeeps ==
    ASSUME SessionOK, Fault \/ NoFault,
           session' \in {"up", "starting", "down"} \cup {session} \cup Killed
    PROVE  SessionOK'
  BY HealthMonitorAssumption DEF SessionOK, Fault, NoFault, Killed

LEMMA BeatsSame ==
    ASSUME BeatsOK, UNCHANGED <<pending, control, probe>>
    PROVE  BeatsOK'
  BY DEF BeatsOK

LEMMA MonitorSame ==
    ASSUME MonitorOK, UNCHANGED <<notice, watchdog, monitor, status>>
    PROVE  MonitorOK'
  BY DEF MonitorOK

\* The rows that are kept are those that somebody waits for.
LEMMA CollectedOK ==
    ASSUME BeatsOK, NEW file, file \in {Nothing, pending}, NEW calls,
           calls = probe \/ \E p \in Probes : calls = [probe EXCEPT ![p] = NoProbe],
           pending' = file, control' = Collected(control, file, calls), probe' = calls
    PROVE  BeatsOK'
  <1>1. /\ probe' \in [Probes -> [pc : {"idle", "auth", "poll"}, beat : Beats \cup {NoBeat}]]
        /\ \A p \in Probes : probe'[p] \in {probe[p], NoProbe}
    BY DEF BeatsOK, NoProbe
  <1>2. pending' \in [beat : Beats \cup {NoBeat}, old : BOOLEAN]
        /\ pending'.beat \in {pending.beat, NoBeat}
    <2>1. Nothing \in [beat : Beats \cup {NoBeat}, old : BOOLEAN] /\ Nothing.beat = NoBeat
      BY DEF Nothing
    <2> QED
      BY <2>1 DEF BeatsOK
  <1>3. control' \in [Beats -> {"free", "waiting", "done", "lost"}]
    BY DEF BeatsOK, Collected
  <1>4. pending'.beat # NoBeat => control'[pending'.beat] # "free"
    BY <1>2 DEF BeatsOK, Collected, Referred
  <1>5. \A p \in Probes : (probe'[p].pc = "poll") = (probe'[p].beat # NoBeat)
    BY <1>1 DEF BeatsOK, NoProbe
  <1>6. \A p \in Probes : probe'[p].beat # NoBeat => control'[probe'[p].beat] # "free"
    BY <1>1 DEF BeatsOK, NoProbe, Collected, Referred
  <1> QED
    BY <1>1, <1>2, <1>3, <1>4, <1>5, <1>6 DEF BeatsOK

LEMMA SuccessOK ==
    ASSUME HInv, NEW calls, Success(calls),
           calls = probe \/ \E p \in Probes : calls = [probe EXCEPT ![p] = NoProbe],
           probe' = calls
    PROVE  EngineOK' /\ BeatsOK' /\ SessionOK'
  <1>1. BeatsOK'
    BY CollectedOK DEF Success, HInv
  <1>2. EngineOK'
    <2> DEFINE b == Becomes(engine, "ok")
    <2>1. b \in Engine
      BY BecomesOK DEF Health, HInv, EngineOK
    <2> HIDE DEF b
    <2>2. [b EXCEPT !.failing = FALSE, !.waits = FALSE, !.signal = "none", !.cooling = FALSE,
                    !.postRestart = FALSE] \in Engine
      BY <2>1 DEF Engine
    <2> QED
      BY <2>2 DEF Success, EngineOK, b
  <1>3. SessionOK'
    BY SessionKeeps DEF Success, HInv
  <1> QED
    BY <1>1, <1>2, <1>3

LEMMA RecoveryOK ==
    ASSUME HInv, Recovery
    PROVE  EngineOK' /\ session' \in {session} \cup Killed
  <1>1. CASE RecoveryRefused
    BY <1>1 DEF Recovery, HInv, EngineOK
  <1>2. CASE ~RecoveryRefused
    <2> DEFINE health == IF engine.health = "ok" THEN "unavailable" ELSE engine.health
               b == Becomes(engine, health)
    <2>1. health \in Health
      BY EngineFields DEF HInv, EngineOK, Health
    <2>2. b \in Engine
      BY <2>1, BecomesOK DEF HInv, EngineOK
    <2>3. engine' = [b EXCEPT !.failing = TRUE, !.waits = TRUE] /\ session' \in Killed
      BY <1>2 DEF Recovery
    <2> HIDE DEF b
    <2> QED
      BY <2>2, <2>3, FieldsChange DEF EngineOK
  <1> QED
    BY <1>1, <1>2

LEMMA FailureOK ==
    ASSUME HInv, NEW calls, Failure(calls),
           calls = probe \/ \E p \in Probes : calls = [probe EXCEPT ![p] = NoProbe],
           probe' = calls
    PROVE  EngineOK' /\ BeatsOK' /\ SessionOK'
  <1>1. BeatsOK'
    BY CollectedOK DEF Failure, HInv
  <1>2. CASE Fault /\ engine' \in RateLimited(engine) /\ UNCHANGED session
    BY <1>1, <1>2, RateLimitedOK, SessionKeeps DEF HInv, EngineOK
  <1>3. CASE /\ NoFault /\ UNCHANGED session
             /\ engine' = [Becomes(engine, "unavailable") EXCEPT !.failing = TRUE, !.waits = TRUE]
    <2>1. Becomes(engine, "unavailable") \in Engine
      BY BecomesOK DEF Health, HInv, EngineOK
    <2> QED
      BY <1>1, <1>3, <2>1, FieldsChange, SessionKeeps DEF HInv, EngineOK
  <1>4. CASE NoFault /\ Recovery
    BY <1>1, <1>4, RecoveryOK, SessionKeeps DEF HInv
  <1> QED
    BY <1>2, <1>3, <1>4 DEF Failure

LEMMA EnqueuedOK ==
    ASSUME BeatsOK, NEW b \in Beats, Enqueued(b),
           \/ probe' = probe
           \/ \E p \in Probes : probe' = [probe EXCEPT ![p] = [pc |-> "poll", beat |-> b]]
    PROVE  BeatsOK'
  <1>1. control' = [control EXCEPT ![b] = "waiting"] /\ pending' = [beat |-> b, old |-> FALSE]
    BY DEF Enqueued
  <1>2. /\ probe' \in [Probes -> [pc : {"idle", "auth", "poll"}, beat : Beats \cup {NoBeat}]]
        /\ \A p \in Probes : probe'[p] \in {probe[p], [pc |-> "poll", beat |-> b]}
    BY DEF BeatsOK
  <1>3. \A p \in Probes : (probe'[p].pc = "poll") = (probe'[p].beat # NoBeat)
    BY <1>2, HealthMonitorAssumption DEF BeatsOK
  <1>4. \A p \in Probes : probe'[p].beat # NoBeat => control'[probe'[p].beat] # "free"
    BY <1>1, <1>2, HealthMonitorAssumption DEF BeatsOK
  <1> QED
    BY <1>1, <1>2, <1>3, <1>4 DEF BeatsOK
-----------------------------------------------------------------------------
(* The monitor's steps *)

LEMMA VerdictOK ==
    ASSUME HInv, CycleVerdict
    PROVE  HInv'
  <1>1. MonitorOK' /\ probe' = probe
    BY MonitorSame DEF CycleVerdict, CycleFrame, HInv
  <1>2. Success(probe) \/ Failure(probe)
    BY DEF CycleVerdict
  <1> QED
    BY <1>1, <1>2, SuccessOK, FailureOK DEF HInv

LEMMA CycleOK ==
    ASSUME HInv, CycleAccelerates \/ CycleBeats
    PROVE  HInv'
  <1>1. MonitorOK' /\ probe' = probe
    BY MonitorSame DEF CycleAccelerates, CycleBeats, CycleFrame, HInv
  <1>2. EngineOK'
    <2>1. [engine EXCEPT !.signal = "none"] \in Engine
      BY FieldsChange DEF HInv, EngineOK
    <2> QED
      BY <2>1, EngineSteps DEF HInv, EngineOK, CycleAccelerates, CycleBeats
  <1>3. CASE EnqueueFails
    BY <1>1, <1>2, <1>3, BeatsSame, SessionKeeps
    DEF HInv, EnqueueFails, CycleAccelerates, CycleBeats
  <1>4. ASSUME NEW b \in Beats, Enqueued(b) PROVE HInv'
    <2>1. BeatsOK'
      BY <1>1, <1>4, EnqueuedOK DEF HInv
    <2>2. NoFault /\ UNCHANGED session
      BY <1>4 DEF Enqueued, CycleAccelerates, CycleBeats
    <2> QED
      BY <1>1, <1>2, <2>1, <2>2, SessionKeeps DEF HInv
  <1> QED
    BY <1>3, <1>4 DEF CycleAccelerates, CycleBeats

LEMMA TimersOK ==
    ASSUME HInv, CooldownEnds \/ BackoffEnds \/ SignalGraceEnds
    PROVE  HInv'
  <1>1. MonitorOK' /\ BeatsOK'
    BY MonitorSame, BeatsSame DEF CooldownEnds, BackoffEnds, SignalGraceEnds, CycleFrame, HInv
  <1>2. EngineOK'
    BY FieldsChange DEF CooldownEnds, BackoffEnds, SignalGraceEnds, HInv, EngineOK
  <1>3. SessionOK'
    BY SessionKeeps DEF CooldownEnds, BackoffEnds, SignalGraceEnds, HInv
  <1> QED
    BY <1>1, <1>2, <1>3 DEF HInv

\* An idle probe asks whether the agent is logged in, and holds no heartbeat.
LEMMA ProbeGoesOn ==
    ASSUME BeatsOK, NEW p \in Probes, probe[p].pc = "idle",
           probe' = [probe EXCEPT ![p].pc = "auth"], UNCHANGED <<pending, control>>
    PROVE  BeatsOK'
  <1>1. /\ probe[p].beat = NoBeat
        /\ probe[p] \in [pc : {"idle", "auth", "poll"}, beat : Beats \cup {NoBeat}]
    BY DEF BeatsOK
  <1> DEFINE call == [pc |-> "auth", beat |-> NoBeat]
  <1>2. [probe[p] EXCEPT !.pc = "auth"] = call
    BY <1>1
  <1>3. probe' = [probe EXCEPT ![p] = call]
    BY <1>2, Zenon
  <1> QED
    BY <1>3 DEF BeatsOK

LEMMA ProbedOK ==
    ASSUME HInv, NEW p \in Probes, NEW e \in Engine, Probed(p, e)
    PROVE  HInv'
  <1>1. MonitorOK'
    BY MonitorSame DEF Probed, ProbeFrame, HInv
  <1>2. EngineOK' /\ UNCHANGED session
    BY EngineSteps DEF Probed, HInv, EngineOK
  <1>3. CASE /\ probe' = [probe EXCEPT ![p].pc = "auth"]
             /\ UNCHANGED <<pending, control, faults>>
    <2>1. probe[p].pc = "idle"
      BY DEF Probed
    <2>2. BeatsOK'
      BY <1>3, <2>1, Zenon, ProbeGoesOn DEF HInv
    <2> QED
      BY <1>1, <1>2, <1>3, <2>2 DEF HInv, SessionOK
  <1>4. CASE /\ pending.beat # NoBeat
             /\ probe' = [probe EXCEPT ![p] = [pc |-> "poll", beat |-> pending.beat]]
             /\ UNCHANGED <<pending, control, faults>>
    <2>1. BeatsOK'
      BY <1>4 DEF BeatsOK, HInv
    <2> QED
      BY <1>1, <1>2, <1>4, <2>1 DEF HInv, SessionOK
  <1>5. ASSUME NEW b \in Beats, Enqueued(b),
               probe' = [probe EXCEPT ![p] = [pc |-> "poll", beat |-> b]]
        PROVE  HInv'
    <2>1. BeatsOK'
      BY <1>5, EnqueuedOK DEF HInv
    <2> QED
      BY <1>1, <1>2, <1>5, <2>1, SessionKeeps DEF HInv, Enqueued
  <1>6. CASE EnqueueFails /\ UNCHANGED probe
    BY <1>1, <1>2, <1>6, BeatsSame, SessionKeeps DEF HInv, EnqueueFails
  <1> QED
    BY <1>3, <1>4, <1>5, <1>6 DEF Probed
LEMMA ProbesOK ==
    ASSUME HInv, NEW p \in Probes,
           RouteStarts(p) \/ RouteProbes(p) \/ ProbeAuthenticated(p) \/ ProbePolls(p)
             \/ ProbeTimesOut(p)
    PROVE  HInv'
  <1>1. CASE RouteStarts(p)
    BY <1>1, EngineSteps, ProbedOK DEF RouteStarts, HInv, EngineOK
  <1>2. CASE RouteProbes(p)
    BY <1>2, ProbedOK DEF RouteProbes, HInv, EngineOK
  <1>3. CASE ProbeAuthenticated(p)
    <2>1. MonitorOK'
      BY <1>3, MonitorSame DEF ProbeAuthenticated, ProbeFrame, HInv
    <2>2. BeatsOK'
      BY <1>3 DEF ProbeAuthenticated, Ended, BeatsOK, HInv, NoProbe
    <2>3. Becomes(engine, "unavailable") \in Engine /\ Becomes(engine, "auth_failed") \in Engine
      BY BecomesOK DEF Health, HInv, EngineOK
    <2>4. EngineOK'
      BY <1>3, <2>3, FieldsChange DEF ProbeAuthenticated, EngineOK
    <2>5. SessionOK'
      BY <1>3, SessionKeeps DEF ProbeAuthenticated, HInv
    <2> QED
      BY <2>1, <2>2, <2>4, <2>5 DEF HInv
  <1>4. CASE ProbePolls(p)
    <2>1. MonitorOK'
      BY <1>4, MonitorSame DEF ProbePolls, ProbeFrame, HInv
    <2>2. probe' = [probe EXCEPT ![p] = NoProbe] /\ (Success(probe') \/ Failure(probe'))
      BY <1>4 DEF ProbePolls, Ended
    <2>3. EngineOK' /\ BeatsOK' /\ SessionOK'
      BY <2>2, SuccessOK, FailureOK
    <2> QED
      BY <2>1, <2>3 DEF HInv
  <1>5. CASE ProbeTimesOut(p)
    <2>1. MonitorOK' /\ EngineOK' /\ SessionOK'
      BY <1>5, MonitorSame, SessionKeeps DEF ProbeTimesOut, ProbeFrame, HInv, EngineOK
    <2>2. BeatsOK'
      BY <1>5, CollectedOK DEF ProbeTimesOut, Ended, HInv
    <2> QED
      BY <2>1, <2>2 DEF HInv
  <1> QED
    BY <1>1, <1>2, <1>3, <1>4, <1>5

LEMMA PostRestartOK ==
    ASSUME HInv, PostRestartProbe
    PROVE  HInv'
  <1> DEFINE e == [engine EXCEPT !.postRestart = FALSE]
  <1>1. e \in Engine
    BY FieldsChange DEF HInv, EngineOK
  <1> HIDE DEF e
  <1>2. ASSUME NEW p \in Probes, Probed(p, e) PROVE HInv'
    BY <1>1, <1>2, ProbedOK
  <1>3. CASE engine' = e /\ UNCHANGED <<pending, control, probe, session, faults>> /\ ProbeFrame
    BY <1>1, <1>3, BeatsSame, MonitorSame DEF HInv, EngineOK, SessionOK, ProbeFrame
  <1> QED
    BY <1>2, <1>3 DEF PostRestartProbe, e

LEMMA NoticesOK ==
    ASSUME HInv, NEW n \in Notices, Delivered(n) \/ NoticeChecks(n) \/ NoticeAuthenticates(n)
    PROVE  HInv'
  <1>1. MonitorOK' /\ BeatsOK'
    <2>1. UNCHANGED <<pending, control, probe, watchdog, monitor, status>>
      BY DEF Delivered, NoticeChecks, NoticeAuthenticates, NoticeFrame
    <2>2. notice' \in [Notices -> {"idle", "sleep", "auth"}]
      BY DEF Delivered, NoticeChecks, NoticeAuthenticates, NoticeEnds, HInv, MonitorOK
    <2> QED
      BY <2>1, <2>2, BeatsSame DEF HInv, MonitorOK
  <1>2. Fault \/ NoFault
    BY DEF Delivered, NoticeChecks, NoticeAuthenticates, NoFault
  <1> DEFINE e == [engine EXCEPT !.hits = "none"]
  <1>3. e \in Engine /\ [engine EXCEPT !.hits = "rate"] \in Engine
        /\ [engine EXCEPT !.hits = "sticky"] \in Engine
    BY FieldsChange DEF HInv, EngineOK
  <1> HIDE DEF e
  <1>4. /\ Becomes(e, "unavailable") \in Engine /\ Becomes(e, "auth_failed") \in Engine
        /\ RateLimited(e) \subseteq Engine
    BY <1>3, BecomesOK, RateLimitedOK DEF Health
  <1>5. CASE Delivered(n)
    BY <1>1, <1>2, <1>5, SessionKeeps DEF Delivered, HInv, EngineOK
  <1>6. CASE NoticeAuthenticates(n)
    BY <1>1, <1>2, <1>3, <1>4, <1>6, SessionKeeps DEF NoticeAuthenticates, HInv, EngineOK, e
  <1>7. CASE NoticeChecks(n)
    <2>1. CASE engine.health # "ok"
      BY <1>1, <1>7, <2>1 DEF NoticeChecks, HInv, EngineOK, SessionOK
    <2>2. CASE engine.health = "ok"
      <3>1. PICK verdict \in Verdicts :
              CASE verdict = "rate" ->
                    /\ engine' \in IF engine.hits = "rate" THEN RateLimited(e)
                                   ELSE {[engine EXCEPT !.hits = "rate"]}
                    /\ UNCHANGED session
               [] verdict = "sticky" ->
                    \/ engine' = [engine EXCEPT !.hits = "sticky"] /\ UNCHANGED session
                    \/ /\ engine.hits = "sticky"
                       /\ engine' = Becomes(e, "unavailable")
                       /\ session' \in Killed
               [] verdict = "clean" -> engine' = e /\ UNCHANGED session
               [] OTHER -> UNCHANGED <<engine, session>>
        BY <1>7, <2>2 DEF NoticeChecks, e
      <3>2. EngineOK' /\ session' \in {session} \cup Killed
        BY <1>3, <1>4, <3>1 DEF Verdicts, HInv, EngineOK
      <3> QED
        BY <1>1, <1>2, <3>2, SessionKeeps DEF HInv
    <2> QED
      BY <2>1, <2>2
  <1> QED
    BY <1>5, <1>6, <1>7

\* What the monitor writes of a health is a health.
LEMMA PublicHealth ==
    ASSUME NEW health \in Health
    PROVE  Public(health) \in Health
  BY DEF Public, Health

LEMMA TicksOK ==
    ASSUME HInv, Tick \/ TickFrozen \/ GraceEnds
    PROVE  HInv'
  <1>1. UNCHANGED <<probe, notice>>
    BY DEF Tick, TickLooks, TickNotRunning, TickRunning, TickFrozen, GraceEnds, TickFrame
  <1>0. BeatsOK'
    <2>1. CASE UNCHANGED <<pending, control>>
      BY <1>1, <2>1, BeatsSame DEF HInv
    <2>2. CASE pending' = Nothing /\ control' = Collected(control, Nothing, probe)
      BY <1>1, <2>2, CollectedOK DEF HInv
    <2> QED
      BY <2>1, <2>2 DEF Tick, TickLooks, TickNotRunning, TickRunning, TickFrozen, GraceEnds,
           TickFrame
  <1>2. BeatsOK' /\ engine \in Engine /\ monitor.pc \in {"idle", "tick"}
        /\ monitor.saw \in BOOLEAN /\ monitor.grace \in BOOLEAN
    BY <1>0 DEF HInv, EngineOK, MonitorOK
  <1>3. \A pc \in {"idle", "tick"}, saw \in BOOLEAN, grace \in BOOLEAN :
          /\ [monitor EXCEPT !.pc = pc, !.saw = saw] \in
                [pc : {"idle", "tick"}, saw : BOOLEAN, grace : BOOLEAN]
          /\ [monitor EXCEPT !.pc = pc, !.grace = grace] \in
                [pc : {"idle", "tick"}, saw : BOOLEAN, grace : BOOLEAN]
          /\ [monitor EXCEPT !.pc = pc] \in
                [pc : {"idle", "tick"}, saw : BOOLEAN, grace : BOOLEAN]
          /\ [monitor EXCEPT !.grace = grace] \in
                [pc : {"idle", "tick"}, saw : BOOLEAN, grace : BOOLEAN]
    BY DEF HInv, MonitorOK
  <1> DEFINE up == Tracked(engine, TRUE)
             down == Tracked(engine, FALSE)
  <1>4. up \in Engine /\ down \in Engine /\ Restarted(down) \in Engine
    BY <1>2, EngineSteps
  <1> HIDE DEF up, down
  <1>5. CASE TickLooks
    BY <1>1, <1>2, <1>3, <1>5, SessionKeeps DEF TickLooks, HInv, EngineOK, MonitorOK
  <1>6. CASE TickNotRunning
    <2>1. engine' \in {down, Restarted(down)}
      BY <1>6 DEF TickNotRunning, down
    <2>2. EngineOK' /\ Public(engine'.health) \in Health
      BY <1>4, <2>1, EngineFields, PublicHealth DEF EngineOK
    <2>3. MonitorOK'
      BY ZenonT(40), <1>1, <1>3, <1>6, <2>2 DEF TickNotRunning, HInv, MonitorOK
    <2>4. SessionOK'
      BY <1>6, SessionKeeps DEF TickNotRunning, HInv
    <2> QED
      BY <1>2, <2>2, <2>3, <2>4 DEF HInv
  <1>7. CASE TickRunning
    <2> DEFINE b == Becomes(up, "unavailable")
    <2>1. b \in Engine
      BY <1>4, BecomesOK DEF Health
    <2>2. engine' \in {up, [b EXCEPT !.failing = TRUE, !.waits = TRUE]}
      BY <1>7 DEF TickRunning, up
    <2> HIDE DEF b
    <2>3. EngineOK' /\ Public(engine'.health) \in Health
      BY <1>4, <2>1, <2>2, EngineFields, PublicHealth, FieldsChange DEF EngineOK
    <2>4. watchdog' \in {"idle", "sent", "escalated"} /\ (Fault \/ NoFault)
          /\ session' \in {session} \cup Killed
      BY <1>7 DEF TickRunning, HInv, MonitorOK
    <2>5. MonitorOK'
      BY <1>1, <1>3, <1>7, <2>3, <2>4 DEF TickRunning, HInv, MonitorOK
    <2> QED
      BY <1>2, <2>3, <2>4, <2>5, SessionKeeps DEF HInv
  <1>8. CASE TickFrozen
    <2>1. EngineOK'
      BY <1>4, <1>8 DEF TickFrozen, EngineOK, up
    <2>2. MonitorOK'
      BY <1>1, <1>3, <1>8 DEF TickFrozen, HInv, MonitorOK
    <2> QED
      BY <1>2, <1>8, <2>1, <2>2, SessionKeeps DEF TickFrozen, HInv
  <1>9. CASE GraceEnds
    BY <1>1, <1>2, <1>3, <1>9, SessionKeeps DEF GraceEnds, HInv, EngineOK, MonitorOK
  <1> QED
    BY <1>5, <1>6, <1>7, <1>8, <1>9 DEF Tick

LEMMA RestartOK ==
    ASSUME HInv, MonitorRestarts
    PROVE  HInv'
  <1>1. status \in Health /\ Fresh(status) \in Engine
    BY DEF HInv, MonitorOK, Fresh, Engine
  <1>2. EngineOK'
    BY <1>1, RateLimitedOK DEF MonitorRestarts, EngineOK
  <1>3. BeatsOK'
    <2>1. /\ probe' = [p \in Probes |-> NoProbe] /\ pending' = pending
          /\ control' = [b \in Beats |-> IF b = pending.beat THEN control[b] ELSE "free"]
      BY HealthMonitorAssumption DEF MonitorRestarts, Collected, Referred, NoProbe
    <2> QED
      BY <2>1 DEF HInv, BeatsOK, NoProbe
  <1>4. MonitorOK'
    BY <1>1 DEF MonitorRestarts, HInv, MonitorOK
  <1>5. SessionOK'
    BY SessionKeeps DEF MonitorRestarts, HInv
  <1> QED
    BY <1>2, <1>3, <1>4, <1>5 DEF HInv

LEMMA WorldOK ==
    ASSUME HInv,
           \/ Launched \/ LaunchFails \/ AgentDies \/ PendingAges
           \/ \E b \in Beats : Answers(b) \/ DeadlinePasses(b)
    PROVE  HInv'
  <1>1. EngineOK' /\ MonitorOK' /\ probe' = probe
    BY MonitorSame DEF Launched, LaunchFails, AgentDies, PendingAges, Answers, DeadlinePasses,
         SessionMoves, Settles, WorldFrame, HInv, EngineOK
  <1>2. SessionOK'
    BY SessionKeeps DEF Launched, LaunchFails, AgentDies, PendingAges, Answers, DeadlinePasses,
         SessionMoves, Settles, HInv
  <1>3. CASE Launched \/ LaunchFails \/ AgentDies
    BY <1>1, <1>2, <1>3, BeatsSame DEF Launched, LaunchFails, AgentDies, SessionMoves, HInv
  <1>4. CASE PendingAges
    <2>1. BeatsOK'
      BY <1>1, <1>4 DEF PendingAges, HInv, BeatsOK
    <2> QED
      BY <1>1, <1>2, <2>1 DEF HInv
  <1>5. ASSUME NEW b \in Beats, Answers(b) \/ DeadlinePasses(b) PROVE HInv'
    <2>1. PICK verdict \in {"done", "lost"} : control' = [control EXCEPT ![b] = verdict]
      BY <1>5 DEF Answers, DeadlinePasses, Settles
    <2>2. pending' = pending
      BY <1>5 DEF Answers, DeadlinePasses, Settles
    <2>3. BeatsOK'
      BY <1>1, <2>1, <2>2 DEF HInv, BeatsOK
    <2> QED
      BY <1>1, <1>2, <2>3 DEF HInv
  <1> QED
    BY <1>3, <1>4, <1>5

LEMMA MonitorStarts == HealthInit => HInv
  <1> SUFFICES ASSUME HealthInit PROVE HInv
    OBVIOUS
  <1>1. EngineOK
    BY DEF HealthInit, EngineOK, Fresh, Engine
  <1>2. BeatsOK
    BY HealthMonitorAssumption DEF HealthInit, BeatsOK, Nothing, NoProbe
  <1>3. MonitorOK /\ SessionOK
    BY HealthMonitorAssumption DEF HealthInit, MonitorOK, SessionOK
  <1> QED
    BY <1>1, <1>2, <1>3 DEF HInv

LEMMA MonitorKeeps ==
    ASSUME HInv, [HealthNext]_healthVars
    PROVE  HInv'
  <1>1. CASE UNCHANGED healthVars
    BY <1>1, BeatsSame, MonitorSame DEF healthVars, HInv, EngineOK, SessionOK
  <1> QED
    BY <1>1, VerdictOK, CycleOK, TimersOK, ProbesOK, PostRestartOK, NoticesOK, TicksOK, RestartOK,
       WorldOK DEF HealthNext

-----------------------------------------------------------------------------
(* Theorems *)

\* The scheduler, whatever its daemon, its agent and the commands do, for every number of tasks,
\* callers, commands and mishaps: a task and its newest run tell one story (task-runs.js,
\* task-dispatch.js, daemon-tasks.js, cli.js).  The invariant is inductive once the types are
\* known, although a late pause or resume overwrites a status: what it writes claims nothing of
\* a run.
THEOREM TasksTellTheirStory == SchedulerSpec => []StoryAgrees
  <1>1. SchedulerInit => SInv
    BY SchedulerStarts
  <1>2. SInv /\ [SchedulerNext]_schedulerVars => SInv'
    BY SchedulerKeeps
  <1>3. SInv => StoryAgrees
    BY SInvSays
  <1> QED
    BY <1>1, <1>2, <1>3, PTL DEF SchedulerSpec

\* The health engine and all that acts on it: no heartbeat that the pending file or a recovery
\* probe waits for has left the control queue, whoever of them ends first and however the
\* monitor restarts, so that each finds its verdict (health-engine.js:278-489,567-619).
NobodyWaitsInVain ==
    /\ pending.beat # NoBeat => control[pending.beat] # "free"
    /\ \A p \in Probes : probe[p].pc = "poll" =>
          probe[p].beat # NoBeat /\ control[probe[p].beat] # "free"
THEOREM ProbesFindTheirVerdict == HealthSpec => []NobodyWaitsInVain
  <1>1. HealthInit => HInv
    BY MonitorStarts
  <1>2. HInv /\ [HealthNext]_healthVars => HInv'
    BY MonitorKeeps
  <1>3. HInv => NobodyWaitsInVain
    BY DEF HInv, BeatsOK, NobodyWaitsInVain
  <1> QED
    BY <1>1, <1>2, <1>3, PTL DEF HealthSpec

LEMMA SupervisionStarts == Init => HInv /\ SInv
  BY MonitorStarts, SchedulerStarts DEF Init

LEMMA SupervisionKeeps ==
    ASSUME HInv, SInv, [Next]_vars
    PROVE  HInv' /\ SInv'
  <1>1. [HealthNext]_healthVars /\ [SchedulerNext]_schedulerVars
    BY DEF Next, vars
  <1> QED
    BY <1>1, MonitorKeeps, SchedulerKeeps

\* The two programs of the model, in types: all that the runs of the two loops say.
THEOREM SupervisionTypeCorrect == Spec => []TypeOK
  <1>1. HInv /\ SInv /\ [Next]_vars => (HInv /\ SInv)'
    BY SupervisionKeeps
  <1>2. HInv /\ SInv => TypeOK
    BY HInvSays, SInvSays DEF TypeOK
  <1> QED
    BY SupervisionStarts, <1>1, <1>2, PTL DEF Spec

\* The story as the run checks it, of the scheduler beside the monitor.
THEOREM SupervisedTasksTellTheirStory == Spec => []StoryAgrees
  <1>1. HInv /\ SInv /\ [Next]_vars => (HInv /\ SInv)'
    BY SupervisionKeeps
  <1>2. HInv /\ SInv => StoryAgrees
    BY SInvSays
  <1> QED
    BY SupervisionStarts, <1>1, <1>2, PTL DEF Spec
=============================================================================
