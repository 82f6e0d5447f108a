---------------------------- MODULE TaskConvergence ----------------------------
(***************************************************************************)
(* The convergence of the native Tasks of Core and Feishu                  *)
(* (scripts/native-task-convergence.js): a run applies business commands   *)
(* one after the other under a lock, each through a runner of its own      *)
(* (native-task-convergence-runner.js), a process that starts the command  *)
(* in its own process group and watches it and the run.  A later run takes *)
(* over the lock of a dead one, if it can tell that nothing is at work,    *)
(* and repeats every step.                                                 *)
(*                                                                         *)
(* Runs are numbered: a number is the pid and start token of the run, and  *)
(* of its runner and command, which follow one another.  All share one     *)
(* directory of reports.  Every update of the lock is a reading and a      *)
(* renaming, two steps.  Manifests and sources that do not match end a run *)
(* before it does anything; the writes that announce one attempt of a step *)
(* are one step here.  A process that cannot be identified (UNKNOWN) does  *)
(* not occur, nor do the adapters of tests.                                *)
(***************************************************************************)
EXTENDS Naturals, FiniteSets

CONSTANTS
    MaxConvergences,  \* bound on the runs
    BusinessSteps,    \* number of commands that a run applies
    MaxMishaps        \* bound on kills, timeouts and commands that a signal ends

ASSUME ConvergenceAssumption ==
    /\ {MaxConvergences, BusinessSteps} \subseteq Nat \ {0}
    /\ MaxMishaps \in Nat

Convergences == 1..MaxConvergences
StepNumbers == 1..BusinessSteps
ActivePhases == {"CHILD_STARTING", "CHILD_RUNNING"}
TerminalPhases == {"FINISHED", "STEP_FAILED", "RUNNER_FAILED", "CHILD_EXITED_UNKNOWN"}
Phases == {"PARENT_READY", "RUNNER_READY"} \cup ActivePhases \cup TerminalPhases

VARIABLES
    applyLock,     \* native-task-convergence.lock
    report,        \* summary.json
    receipts,      \* the last receipt of each step
    convergence,   \* what each run does
    runner,        \* what the runner of each run does, and the lock as it has read it
    runnerResult,  \* the result file of its step
    business,      \* the command: its process group, and how the command itself ended
    succeeded,     \* steps whose command has ended well
    robbed,        \* whether a lock was renamed away that was not the one examined; the end
    mishaps

convergenceVars == <<applyLock, report, receipts, convergence, runner, runnerResult, business,
                     succeeded, robbed, mishaps>>

NoLock == [owner |-> 0, phase |-> "PARENT_READY", runner |-> "none", child |-> "none"]
OwnLock(r) == [NoLock EXCEPT !.owner = r]
NotBegun == [at |-> "idle", step |-> 0, seen |-> NoLock, verdict |-> "none"]
NoRunner == [at |-> "none", copy |-> NoLock, unknown |-> FALSE]
NoCommand == [step |-> 0, group |-> "none", ended |-> "none"]

\* A process that is gone holds nothing in its memory.
ConvergenceTypeOK ==
    /\ applyLock.owner \in 0..MaxConvergences /\ applyLock.phase \in Phases
    /\ applyLock.runner \in {"none", "READY", "EXITED"}
    /\ applyLock.child \in {"none", "RUNNING", "EXITED", "UNKNOWN"}
    /\ report \in {"none", "RUNNING", "HOLD", "PASS"}
    /\ \A k \in StepNumbers : receipts[k] \in {"none", "RUNNING", "PASS", "HOLD", "UNKNOWN"}
    /\ \A r \in Convergences :
          /\ convergence[r].step \in 0..BusinessSteps
          /\ runner[r].at = "gone" => runner[r] = [NoRunner EXCEPT !.at = "gone"]
          /\ runnerResult[r] \in {"none", "PASS", "HOLD", "UNKNOWN"}
          /\ business[r].group \in {"none", "running", "lingering", "gone"}
          /\ business[r].ended \in {"none", "ok", "failed", "signal"}
    /\ succeeded \subseteq StepNumbers /\ robbed \in BOOLEAN /\ mishaps \in 0..MaxMishaps

ConvergenceInit ==
    /\ applyLock = NoLock /\ report = "none"
    /\ receipts = [k \in StepNumbers |-> "none"]
    /\ convergence = [r \in Convergences |-> NotBegun]
    /\ runner = [r \in Convergences |-> NoRunner]
    /\ runnerResult = [r \in Convergences |-> "none"]
    /\ business = [r \in Convergences |-> NoCommand]
    /\ succeeded = {} /\ robbed = FALSE /\ mishaps = 0

-----------------------------------------------------------------------------
Goes(r, place) == convergence' = [convergence EXCEPT ![r].at = place]
Ends(r) == convergence' = [convergence EXCEPT ![r] = [NotBegun EXCEPT !.at = "ended"]]
IsAt(r, place) == convergence[r].at = place
RunLives(r) == convergence[r].at \notin {"idle", "ended"}
RunnerLives(r) == runner[r].at \notin {"none", "gone"}
GroupLives(r) == business[r].group \in {"running", "lingering"}
Mishap == mishaps < MaxMishaps /\ mishaps' = mishaps + 1
Evidence == <<report, receipts>>
Processes == <<runner, runnerResult, business, succeeded>>

\* A summary that says PASS is never resumed; it is read before the lock is taken.
BeginConvergence(r) ==
    /\ IsAt(r, "idle") /\ \A q \in 1..(r - 1) : ~IsAt(q, "idle")
    /\ IF report = "PASS" THEN Ends(r) ELSE Goes(r, "acquire")
    /\ UNCHANGED <<applyLock, Evidence, Processes, robbed, mishaps>>

\* verifyStaleLockCanBeReclaimed: RUNNER_READY is none of the phases that can be.
Reclaimable(l) ==
    /\ ~RunLives(l.owner) /\ l.phase # "RUNNER_READY"
    /\ l.phase \in ActivePhases => l.runner # "none" /\ l.child # "none"
    /\ l.runner # "none" => ~RunnerLives(l.owner)
    /\ l.child # "none" => ~GroupLives(l.owner)

AcquireApplyLock(r) ==
    /\ IsAt(r, "acquire")
    /\ \/ applyLock = NoLock /\ applyLock' = OwnLock(r) /\ Goes(r, "open")
       \/ /\ applyLock # NoLock /\ Reclaimable(applyLock) /\ UNCHANGED applyLock
          /\ convergence' = [convergence EXCEPT ![r].at = "reclaim", ![r].seen = applyLock]
       \/ applyLock # NoLock /\ ~Reclaimable(applyLock) /\ Ends(r) /\ UNCHANGED applyLock
    /\ UNCHANGED <<Evidence, Processes, robbed, mishaps>>

\* Whatever lock is there by now is renamed away.
ReclaimLock(r) ==
    /\ IsAt(r, "reclaim")
    /\ applyLock' = NoLock
    /\ robbed' = (robbed \/ applyLock \notin {NoLock, convergence[r].seen})
    /\ convergence' = [convergence EXCEPT ![r].at = "create", ![r].seen = NoLock]
    /\ UNCHANGED <<Evidence, Processes, mishaps>>

CreateLock(r) ==
    /\ IsAt(r, "create")
    /\ IF applyLock = NoLock THEN applyLock' = OwnLock(r) /\ Goes(r, "open")
                             ELSE UNCHANGED applyLock /\ Ends(r)
    /\ UNCHANGED <<Evidence, Processes, robbed, mishaps>>

OpenReport(r) ==
    /\ IsAt(r, "open")
    /\ report' = "RUNNING"
    /\ convergence' = [convergence EXCEPT ![r].at = "attempt", ![r].step = 1]
    /\ UNCHANGED <<applyLock, receipts, Processes, robbed, mishaps>>

AttemptStep(r) ==
    /\ IsAt(r, "attempt")
    /\ receipts' = [receipts EXCEPT ![convergence[r].step] = "RUNNING"]
    /\ Goes(r, "claim")
    /\ UNCHANGED <<applyLock, report, Processes, robbed, mishaps>>

\* updateApplyLock; a run that has lost the lock leaves the summary as it is.
ClaimStep(r) ==
    /\ IsAt(r, "claim")
    /\ IF applyLock.owner = r THEN Goes(r, "prepare") /\ UNCHANGED receipts
       ELSE Ends(r) /\ receipts' = [receipts EXCEPT ![convergence[r].step] = "UNKNOWN"]
    /\ UNCHANGED <<applyLock, report, Processes, robbed, mishaps>>

PrepareStep(r) ==
    /\ IsAt(r, "prepare")
    /\ applyLock' = OwnLock(r)
    /\ Goes(r, "launch")
    /\ UNCHANGED <<Evidence, Processes, robbed, mishaps>>

\* spawnSync: the run waits for the runner's end.
LaunchRunner(r) ==
    /\ IsAt(r, "launch")
    /\ runner' = [runner EXCEPT ![r] = [NoRunner EXCEPT !.at = "start"]]
    /\ runnerResult' = [runnerResult EXCEPT ![r] = "none"]
    /\ business' = [business EXCEPT ![r] = [NoCommand EXCEPT !.step = convergence[r].step]]
    /\ Goes(r, "wait")
    /\ UNCHANGED <<applyLock, Evidence, succeeded, robbed, mishaps>>

\* A command that ends well may still report what is no PASS.
RecordStep(r) ==
    LET k == convergence[r].step
        verdicts == CASE runnerResult[r] = "PASS" -> {"PASS", "HOLD"}
                      [] runnerResult[r] = "HOLD" -> {"HOLD"}
                      [] OTHER -> {"UNKNOWN"}
    IN  /\ IsAt(r, "wait") /\ ~RunnerLives(r)
        /\ \E v \in verdicts :
              /\ receipts' = [receipts EXCEPT ![k] = v]
              /\ convergence' =
                    IF v = "PASS" /\ k < BusinessSteps
                    THEN [convergence EXCEPT ![r].at = "attempt", ![r].step = k + 1]
                    ELSE [convergence EXCEPT ![r].at = "close",
                                             ![r].verdict = IF v = "PASS" THEN v ELSE "HOLD"]
        /\ UNCHANGED <<applyLock, report, Processes, robbed, mishaps>>

CloseReport(r) ==
    /\ IsAt(r, "close")
    /\ report' = convergence[r].verdict
    /\ Goes(r, "release")
    /\ UNCHANGED <<applyLock, receipts, Processes, robbed, mishaps>>

\* releaseApplyLock.  The run itself lives, and everything it has started has exited, by its own
\* account and by the system's; or its runner died before it introduced itself.
NoWorkStarted(l) == l.phase = "PARENT_READY" /\ l.runner = "none" /\ l.child = "none"
MayRelease(r) ==
    /\ applyLock.owner = r
    /\ NoWorkStarted(applyLock) \/ applyLock.phase \in TerminalPhases \ {"CHILD_EXITED_UNKNOWN"}
    /\ applyLock.runner # "none" => applyLock.runner = "EXITED" /\ ~RunnerLives(r)
    /\ applyLock.child # "none" => applyLock.child = "EXITED" /\ ~GroupLives(r)

CheckRelease(r) ==
    /\ IsAt(r, "release")
    /\ IF MayRelease(r) THEN Goes(r, "unlink") /\ UNCHANGED report
                        ELSE Ends(r) /\ report' = "HOLD"
    /\ UNCHANGED <<applyLock, receipts, Processes, robbed, mishaps>>

UnlinkLock(r) ==
    /\ IsAt(r, "unlink")
    /\ applyLock' = NoLock
    /\ Ends(r)
    /\ UNCHANGED <<Evidence, Processes, robbed, mishaps>>

-----------------------------------------------------------------------------
\* The runner.  It writes what it has read of the lock with its changes, over whatever is there
\* by then, and throws if the lock it reads is not of its run.
RunnerIsAt(r, place) == runner[r].at = place
RunnerGoes(r, place) == runner' = [runner EXCEPT ![r].at = place]
RunnerGone(r) == runner' = [runner EXCEPT ![r] = [NoRunner EXCEPT !.at = "gone"]]
RunSteady == UNCHANGED <<Evidence, convergence, robbed>>
LockSteady == UNCHANGED <<applyLock, mishaps>>

ReadsLock(r, place, next) ==
    /\ RunnerIsAt(r, place)
    /\ \/ /\ applyLock.owner = r
          /\ runner' = [runner EXCEPT ![r].at = next, ![r].copy = applyLock]
          /\ UNCHANGED runnerResult
       \/ /\ applyLock.owner # r
          /\ RunnerGone(r) /\ runnerResult' = [runnerResult EXCEPT ![r] = "UNKNOWN"]
    /\ UNCHANGED <<business, succeeded>> /\ LockSteady /\ RunSteady

WritesLock(r, place, next, lock) ==
    /\ RunnerIsAt(r, place)
    /\ applyLock' = lock
    /\ runner' = [runner EXCEPT ![r].at = next, ![r].copy = NoLock]
    /\ UNCHANGED <<runnerResult, business, succeeded, mishaps>> /\ RunSteady

\* assertParentAlive
MissesRun(r) ==
    /\ runner[r].at \in {"start", "confirm"} /\ ~RunLives(r)
    /\ RunnerGone(r) /\ runnerResult' = [runnerResult EXCEPT ![r] = "UNKNOWN"]
    /\ UNCHANGED <<business, succeeded>> /\ LockSteady /\ RunSteady

Introduce(r) ==
    \/ RunLives(r) /\ ReadsLock(r, "start", "introduce")
    \/ WritesLock(r, "introduce", "confirm",
                  [runner[r].copy EXCEPT !.phase = "RUNNER_READY", !.runner = "READY",
                                         !.child = "none"])

\* The run is asked for again, after the update that would stop another from taking the lock.
ConfirmRun(r) ==
    \/ RunLives(r) /\ ReadsLock(r, "confirm", "starting")
    \/ WritesLock(r, "starting", "spawn", [runner[r].copy EXCEPT !.phase = "CHILD_STARTING"])

SpawnCommand(r) ==
    /\ RunnerIsAt(r, "spawn")
    /\ \/ business' = [business EXCEPT ![r].group = "running"] /\ RunnerGoes(r, "note")
       \/ UNCHANGED business /\ RunnerGoes(r, "fail")
    /\ UNCHANGED <<runnerResult, succeeded>> /\ LockSteady /\ RunSteady

FailToSpawn(r) ==
    \/ ReadsLock(r, "fail", "failing")
    \/ WritesLock(r, "failing", "throw",
                  [runner[r].copy EXCEPT !.phase = "RUNNER_FAILED", !.runner = "EXITED",
                                         !.child = "none"])

NoteCommand(r) ==
    \/ ReadsLock(r, "note", "noting")
    \/ WritesLock(r, "noting", "watch",
                  [runner[r].copy EXCEPT !.phase = "CHILD_RUNNING", !.child = "RUNNING"])

\* The process group is killed when the run is gone or the time is over.
TerminateCommand(r) ==
    /\ RunnerIsAt(r, "watch")
    /\ IF RunLives(r) THEN Mishap ELSE UNCHANGED mishaps
    /\ business' = [business EXCEPT ![r].group = "gone",
                                    ![r].ended = IF @ = "none" THEN "signal" ELSE @]
    /\ runner' = [runner EXCEPT ![r].at = "settle", ![r].unknown = TRUE]
    /\ UNCHANGED <<applyLock, runnerResult, succeeded>> /\ RunSteady

\* What the command has left in its group is killed too.
CommandCloses(r) ==
    /\ RunnerIsAt(r, "watch") /\ business[r].group \in {"lingering", "gone"}
    /\ business' = [business EXCEPT ![r].group = "gone"]
    /\ RunnerGoes(r, "settle")
    /\ UNCHANGED <<runnerResult, succeeded>> /\ LockSteady /\ RunSteady

TerminalPhase(r) ==
    CASE runner[r].unknown -> "CHILD_EXITED_UNKNOWN"
      [] ~runner[r].unknown /\ business[r].ended = "ok" -> "FINISHED"
      [] OTHER -> "STEP_FAILED"

SettleCommand(r) ==
    \/ ReadsLock(r, "settle", "settling")
    \/ WritesLock(r, "settling", "answer",
                  [runner[r].copy EXCEPT !.phase = TerminalPhase(r), !.runner = "EXITED",
                       !.child = IF runner[r].unknown THEN "UNKNOWN" ELSE "EXITED"])

AnswerRun(r) ==
    /\ runner[r].at \in {"answer", "throw"}
    /\ runnerResult' = [runnerResult EXCEPT ![r] =
           CASE runner[r].at = "throw" \/ runner[r].unknown -> "UNKNOWN"
             [] runner[r].at = "answer" /\ TerminalPhase(r) = "FINISHED" -> "PASS"
             [] OTHER -> "HOLD"]
    /\ RunnerGone(r)
    /\ UNCHANGED <<business, succeeded>> /\ LockSteady /\ RunSteady

\* A command ends by itself, with or without what it has started, or by a signal.
CommandEnds(r) ==
    /\ business[r].group = "running"
    /\ \E how \in {"ok", "failed", "signal"}, rest \in {"lingering", "gone"} :
          /\ business' = [business EXCEPT ![r].group = rest, ![r].ended = how]
          /\ IF how = "signal" \/ rest = "lingering" THEN Mishap ELSE UNCHANGED mishaps
          /\ succeeded' = IF how = "ok" THEN succeeded \cup {business[r].step} ELSE succeeded
    /\ UNCHANGED <<applyLock, runner, runnerResult>> /\ RunSteady

LingererEnds(r) ==
    /\ business[r].group = "lingering"
    /\ business' = [business EXCEPT ![r].group = "gone"]
    /\ UNCHANGED <<runner, runnerResult, succeeded>> /\ LockSteady /\ RunSteady

KillRun(r) ==
    /\ RunLives(r) /\ Mishap /\ Ends(r)
    /\ UNCHANGED <<applyLock, Evidence, Processes, robbed>>

KillRunner(r) ==
    /\ RunnerLives(r) /\ Mishap /\ RunnerGone(r)
    /\ UNCHANGED <<applyLock, Evidence, convergence, runnerResult, business, succeeded, robbed>>

RunNativeTaskConvergence(r) ==
    \/ BeginConvergence(r) \/ AcquireApplyLock(r) \/ ReclaimLock(r) \/ CreateLock(r)
    \/ OpenReport(r) \/ AttemptStep(r) \/ ClaimStep(r) \/ PrepareStep(r) \/ LaunchRunner(r)
    \/ RecordStep(r) \/ CloseReport(r) \/ CheckRelease(r) \/ UnlinkLock(r)

RunJob(r) ==
    \/ MissesRun(r) \/ Introduce(r) \/ ConfirmRun(r) \/ SpawnCommand(r) \/ FailToSpawn(r)
    \/ NoteCommand(r) \/ TerminateCommand(r) \/ CommandCloses(r) \/ SettleCommand(r)
    \/ AnswerRun(r)

\* What follows the loss of a lock to a second that took it over is not looked at any more.
ConvergenceNext ==
    ~robbed /\ \E r \in Convergences :
        \/ RunNativeTaskConvergence(r) \/ RunJob(r)
        \/ CommandEnds(r) \/ LingererEnds(r) \/ KillRun(r) \/ KillRunner(r)

-----------------------------------------------------------------------------
(* Properties *)

\* No two business commands work at once, whichever of their run, their runner and they themselves
\* has died, and none works when there is no lock
\* (native-task-convergence.js:850-854: a runner left behind cannot start its command).  Excused
\* is a lock renamed away that was not the one examined (lines 736-739), the lock of another run
\* that took over first.
OneCommandAtATime ==
    ~robbed =>
        LET working == {r \in Convergences : GroupLives(r)}
        IN  Cardinality(working) <= 1 /\ (applyLock = NoLock => working = {})

\* What is reported as PASS was done: a receipt of a step says so only if its command has ended
\* well, and the summary only if every receipt does, whatever later runs repeat.
PassIsTrue ==
    /\ \A k \in StepNumbers : receipts[k] = "PASS" => k \in succeeded
    /\ report = "PASS" => succeeded = StepNumbers
    /\ report = "PASS" /\ ~robbed => \A k \in StepNumbers : receipts[k] = "PASS"

\* A run that lives owns its lock from its first attempt until it unlinks it, and takes nobody's
\* lock away with it; only the runner of a dead run may write over it.
LockIsKept ==
    ~robbed => \A r \in Convergences :
        RunLives(r) /\ convergence[r].at \notin {"acquire", "reclaim", "create"} =>
            \/ applyLock.owner = r
            \/ applyLock.phase = "RUNNER_READY" /\ ~RunLives(applyLock.owner)
=============================================================================
