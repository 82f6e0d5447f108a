----------------------------- MODULE HealthMonitor ----------------------------
(***************************************************************************)
(* How the activity monitor keeps the agent alive and says whether it is:  *)
(* the health engine (health-engine.js), whose one-second cycle, recovery  *)
(* probes, timers and delivery notices all act on one pending heartbeat    *)
(* and one health; the guardian that launches the agent again              *)
(* (guardian.js); the tool watchdog and the sampler that may kill its      *)
(* session (tool-watchdog.js, monitor-orchestrator.js); and the messages   *)
(* that start a probe (message-router.js).                                 *)
(*                                                                         *)
(* One Node process runs all of them, so an action is what runs between    *)
(* two awaits.  Times are abstracted to whether they have passed, and pass *)
(* at any moment.  What goes wrong outside (a lost answer, an error in the *)
(* pane, a failed check or launch, a death, a restart) is a fault, and     *)
(* there are at most MaxFaults of them.                                    *)
(***************************************************************************)
EXTENDS Naturals

CONSTANTS
    Beats,   \* control ids of heartbeats; an id nobody holds any more is used again
    NoBeat,
    Probes,  \* runRecoveryProbe calls that may be under way at once
    Notices, \* onUserMessageDelivered calls that may be under way at once
    MaxFaults

ASSUME HealthMonitorAssumption == NoBeat \notin Beats /\ MaxFaults \in Nat

VARIABLES
    engine,   \* the health engine's fields and timers
    pending,  \* heartbeat-pending.json: the beat and whether it is too old
    control,  \* the heartbeats' rows in the control queue
    probe,    \* recovery probes, across their awaits
    notice,   \* delivery notices, across their awaits
    watchdog, \* what the tool watchdog has done about the tool that runs
    monitor,  \* the monitor's tick, and the guardian's grace after a launch
    status,   \* the health in the status file
    session,  \* the agent in its tmux session
    faults

healthVars == <<engine, pending, control, probe, notice, watchdog, monitor, status, session, faults>>

Health == {"ok", "unavailable", "down", "rate_limited", "auth_failed"}
Verdicts == {"clean", "rate", "auth", "sticky"}

Engine == [
    health : Health,
    failing : BOOLEAN,      \* restartFailureCount > 0
    waits : BOOLEAN,        \* within the backoff delay of lastRecoveryAt
    signal : {"none", "grace", "due"}, \* signalDetectedAt
    cooling : BOOLEAN,      \* the rate limit's cooldown runs
    postRestart : BOOLEAN,  \* postRestartProbeTimer is set
    hits : {"none", "rate", "sticky"}, \* the consecutive hits of delivery notices
    running : {"unknown", "yes", "no"}]

Fresh(health) == [health |-> health, failing |-> FALSE, waits |-> FALSE, signal |-> "none",
                  cooling |-> FALSE, postRestart |-> FALSE, hits |-> "none",
                  running |-> "unknown"]
Nothing == [beat |-> NoBeat, old |-> FALSE]
NoProbe == [pc |-> "idle", beat |-> NoBeat]

HealthTypeOK ==
    /\ engine \in Engine
    /\ pending \in [beat : Beats \cup {NoBeat}, old : BOOLEAN]
    /\ control \in [Beats -> {"free", "waiting", "done", "lost"}]
    /\ probe \in [Probes -> [pc : {"idle", "auth", "poll"}, beat : Beats \cup {NoBeat}]]
    /\ notice \in [Notices -> {"idle", "sleep", "auth"}]
    /\ watchdog \in {"idle", "sent", "escalated"}
    /\ monitor \in [pc : {"idle", "tick"}, saw : BOOLEAN, grace : BOOLEAN]
    /\ status \in Health
    /\ session \in {"up", "starting", "down"}
    /\ faults \in 0..MaxFaults
    \* A heartbeat that somebody waits for is still a row of the queue.
    /\ pending.beat # NoBeat => control[pending.beat] # "free"
    /\ \A p \in Probes : (probe[p].pc = "poll") = (probe[p].beat # NoBeat)

\* "down" is only read back from the status file of an earlier release.
HealthInit ==
    /\ status \in Health
    /\ engine = Fresh(status)
    /\ pending = Nothing
    /\ control = [b \in Beats |-> "free"]
    /\ probe = [p \in Probes |-> NoProbe]
    /\ notice = [n \in Notices |-> "idle"]
    /\ watchdog = "idle"
    /\ monitor = [pc |-> "idle", saw |-> FALSE, grace |-> FALSE]
    /\ session \in {"up", "down"}
    /\ faults = 0

Fault == faults < MaxFaults /\ faults' = faults + 1
NoFault == UNCHANGED faults

-----------------------------------------------------------------------------
(* Health *)

Recovering(health) == health = "unavailable"
\* What the status file says of a health.
Public(health) == IF health = "down" THEN "unavailable" ELSE health
PostRestartState(health) == health \in {"unavailable", "down", "auth_failed"}

\* setHealth.
Becomes(e, health) ==
    [e EXCEPT !.health = health,
              !.cooling = @ /\ health = "rate_limited",
              !.postRestart = @ /\ (health \notin {"ok", "rate_limited"} \/ e.health = health)]

\* enterRateLimited: only a later reset extends a cooldown.
RateLimited(e) ==
    IF e.health = "rate_limited" THEN {e, [e EXCEPT !.cooling = TRUE]}
    ELSE {[Becomes(e, "rate_limited") EXCEPT !.failing = FALSE, !.waits = FALSE,
                                             !.signal = "none", !.cooling = TRUE]}

\* A recovery attempt delays the next one, if attempts have failed before.
Attempted(e) == [e EXCEPT !.waits = e.failing]

Killed == IF session = "starting" THEN {"starting", "down"} ELSE {"down"}

\* triggerRecovery.
RecoveryRefused == engine.health \in {"down", "rate_limited"}
Recovery ==
    IF RecoveryRefused THEN UNCHANGED <<engine, session>>
    ELSE /\ engine' = [Becomes(engine, IF engine.health = "ok" THEN "unavailable" ELSE engine.health)
                          EXCEPT !.failing = TRUE, !.waits = TRUE]
         /\ session' \in Killed

\* The row of a heartbeat that no one waits for any more says nothing.
Referred(b, file, calls) == b = file.beat \/ \E p \in Probes : calls[p].beat = b
Collected(rows, file, calls) ==
    [b \in Beats |-> IF Referred(b, file, calls) THEN rows[b] ELSE "free"]

\* enqueueHeartbeat writes the row, then the pending file; it fails while the queue is busy.
Enqueued(b) ==
    /\ control[b] = "free" /\ NoFault
    /\ pending' = [beat |-> b, old |-> FALSE]
    /\ control' = [control EXCEPT ![b] = "waiting"]
EnqueueFails == Fault /\ UNCHANGED <<pending, control>>

\* onHeartbeatSuccess, of whichever beat: the file is cleared.
Success(calls) ==
    /\ pending' = Nothing
    /\ control' = Collected(control, Nothing, calls)
    /\ engine' = [Becomes(engine, "ok") EXCEPT !.failing = FALSE, !.waits = FALSE,
                      !.signal = "none", !.cooling = FALSE, !.postRestart = FALSE]
    /\ UNCHANGED session /\ NoFault

\* onHeartbeatFailure.  The pane decides whether the limit, and not the agent, is to blame.
\* Seeded fault: the pending file stays.
FailureKeepsFile(calls) ==
    /\ UNCHANGED <<pending, control>> /\ NoFault
    /\ Recovery
Failure(calls) ==
    /\ pending' = Nothing
    /\ control' = Collected(control, Nothing, calls)
    /\ \/ /\ Fault /\ engine.health \in {"ok", "unavailable", "rate_limited"}
          /\ engine' \in RateLimited(engine)
          /\ UNCHANGED session
       \/ /\ NoFault
          /\ IF engine.health = "rate_limited"
             THEN /\ engine' = [Becomes(engine, "unavailable") EXCEPT !.failing = TRUE,
                                                                     !.waits = TRUE]
                  /\ UNCHANGED session
             ELSE Recovery

-----------------------------------------------------------------------------
(* runMaintenanceCycle *)

CycleFrame == UNCHANGED <<probe, notice, watchdog, monitor, status>>

\* The pending heartbeat has a verdict: an answer, a loss, or too long a wait.
CycleVerdict ==
    /\ pending.beat # NoBeat
    /\ \/ control[pending.beat] = "done" /\ Success(probe)
       \/ control[pending.beat] = "lost" /\ Failure(probe)
       \/ control[pending.beat] = "waiting" /\ pending.old /\ Failure(probe)
    /\ CycleFrame

\* The signal of a restarted process is verified at once, once its grace has passed.
CycleAccelerates ==
    /\ pending.beat = NoBeat /\ engine.running = "yes"
    /\ PostRestartState(engine.health) /\ engine.signal = "due"
    /\ \/ /\ engine' = [engine EXCEPT !.signal = "none"]
          /\ \E b \in Beats : Enqueued(b)
       \/ /\ engine' = Attempted([engine EXCEPT !.signal = "none"])
          /\ EnqueueFails
    /\ UNCHANGED session /\ CycleFrame

\* A recovery heartbeat after each backoff, a check while down, and the periodic one.
CycleBeats ==
    /\ pending.beat = NoBeat /\ engine.running = "yes"
    /\ engine.health # "rate_limited" /\ ~engine.waits
    /\ ~(PostRestartState(engine.health) /\ engine.signal = "due")
    /\ \/ \E b \in Beats : Enqueued(b) /\ UNCHANGED engine
       \/ /\ engine' = IF Recovering(engine.health) THEN Attempted(engine) ELSE engine
          /\ EnqueueFails
    /\ UNCHANGED session /\ CycleFrame

\* A cooldown that is over starts nothing: the next message does.
CooldownEnds ==
    /\ engine.cooling
    /\ engine' = [engine EXCEPT !.cooling = FALSE]
    /\ UNCHANGED <<pending, control, session>> /\ CycleFrame /\ NoFault

BackoffEnds ==
    /\ engine.waits
    /\ engine' = [engine EXCEPT !.waits = FALSE]
    /\ UNCHANGED <<pending, control, session>> /\ CycleFrame /\ NoFault

SignalGraceEnds ==
    /\ engine.signal = "grace"
    /\ engine' = [engine EXCEPT !.signal = "due"]
    /\ UNCHANGED <<pending, control, session>> /\ CycleFrame /\ NoFault

Cycle == CycleVerdict \/ CycleAccelerates \/ (engine.health # "ok" /\ CycleBeats)

-----------------------------------------------------------------------------
(* runRecoveryProbe: started by a message or by the timer after a restart *)

ProbeFrame == UNCHANGED <<notice, watchdog, monitor, status>>

\* The probe takes the pending heartbeat, whoever sent it, or sends one.
Probed(p, e) ==
    /\ probe[p].pc = "idle" /\ UNCHANGED session
    /\ engine' = Attempted(e)
    /\ IF e.health = "auth_failed"
       THEN /\ probe' = [probe EXCEPT ![p].pc = "auth"]
            /\ UNCHANGED <<pending, control, faults>>
       ELSE IF pending.beat # NoBeat
       THEN /\ probe' = [probe EXCEPT ![p] = [pc |-> "poll", beat |-> pending.beat]]
            /\ UNCHANGED <<pending, control, faults>>
       ELSE \/ \E b \in Beats :
                   Enqueued(b) /\ probe' = [probe EXCEPT ![p] = [pc |-> "poll", beat |-> b]]
            \/ EnqueueFails /\ UNCHANGED probe
    /\ ProbeFrame

\* notifyUserMessage: a message resets the cooldown or the backoff.
Notified(e) ==
    CASE e.health = "rate_limited" -> [e EXCEPT !.cooling = FALSE]
      [] Recovering(e.health) -> [e EXCEPT !.failing = FALSE, !.waits = FALSE]
      [] OTHER -> e

\* route: a message that does not come too soon after another resets; it is answered from the
\* cache or by a probe under way, or starts one.
RouteStarts(p) ==
    /\ engine.health # "ok"
    /\ Probed(p, Notified(engine))

\* A message that comes too soon, or wants no reply, resets nothing and respects the backoff.
RouteProbes(p) ==
    /\ engine.health # "ok"
    /\ ~(engine.health \in {"unavailable", "down"} /\ engine.waits)
    /\ Probed(p, engine)

PostRestartProbe ==
    /\ engine.postRestart
    /\ LET e == [engine EXCEPT !.postRestart = FALSE]
       IN  IF e.health = "ok"
           THEN engine' = e /\ UNCHANGED <<pending, control, probe, session, faults>> /\ ProbeFrame
           ELSE \E p \in Probes : Probed(p, e)

\* Seeded fault: a probe that is over still holds its heartbeat.
EndedHolding(p) == [probe EXCEPT ![p].pc = "idle"]
Ended(p) == [probe EXCEPT ![p] = NoProbe]

\* The health is not read again after the check.
ProbeAuthenticated(p) ==
    /\ probe[p].pc = "auth"
    /\ probe' = Ended(p)
    /\ \/ /\ engine' = [Becomes(engine, "unavailable") EXCEPT !.failing = FALSE, !.waits = FALSE]
          /\ session' \in Killed /\ NoFault
       \/ /\ Fault
          /\ engine' = Becomes(engine, "auth_failed")
          /\ UNCHANGED session
    /\ UNCHANGED <<pending, control>> /\ ProbeFrame

\* The verdict on the beat the probe holds, whatever is pending now.
ProbePolls(p) ==
    /\ probe[p].pc = "poll"
    /\ probe' = Ended(p)
    /\ \/ control[probe[p].beat] = "done" /\ Success(probe')
       \/ control[probe[p].beat] = "lost" /\ Failure(probe')
    /\ ProbeFrame

ProbeTimesOut(p) ==
    /\ probe[p].pc = "poll"
    /\ control[probe[p].beat] = "waiting" /\ Fault
    /\ probe' = Ended(p)
    /\ control' = Collected(control, pending, probe')
    /\ UNCHANGED <<engine, pending, session>> /\ ProbeFrame

-----------------------------------------------------------------------------
(* onUserMessageDelivered *)

NoticeFrame == UNCHANGED <<pending, control, probe, watchdog, monitor, status>>
NoticeEnds(n) == notice' = [notice EXCEPT ![n] = "idle"]

Delivered(n) ==
    /\ notice[n] = "idle" /\ engine.health = "ok"
    /\ notice' = [notice EXCEPT ![n] = "sleep"]
    /\ UNCHANGED <<engine, session>> /\ NoticeFrame /\ NoFault

\* Two rate limits in a row, or two API errors at least 30 seconds apart.
NoticeChecks(n) ==
    /\ notice[n] = "sleep"
    /\ IF engine.health # "ok" THEN NoticeEnds(n) /\ UNCHANGED <<engine, session, faults>>
       ELSE \E verdict \in Verdicts :
          /\ IF verdict = "clean" THEN NoFault ELSE Fault
          /\ IF verdict = "auth" THEN notice' = [notice EXCEPT ![n] = "auth"] ELSE NoticeEnds(n)
          /\ CASE verdict = "rate" ->
                    /\ engine' \in IF engine.hits = "rate"
                                   THEN RateLimited([engine EXCEPT !.hits = "none"])
                                   ELSE {[engine EXCEPT !.hits = "rate"]}
                    /\ UNCHANGED session
               [] verdict = "sticky" ->
                    \/ engine' = [engine EXCEPT !.hits = "sticky"] /\ UNCHANGED session
                    \/ /\ engine.hits = "sticky"
                       /\ engine' = Becomes([engine EXCEPT !.hits = "none"], "unavailable")
                       /\ session' \in Killed
               [] verdict = "clean" ->
                    engine' = [engine EXCEPT !.hits = "none"] /\ UNCHANGED session
               [] OTHER -> UNCHANGED <<engine, session>>
    /\ NoticeFrame

\* Here, too, the health is not read again after the check.
NoticeAuthenticates(n) ==
    /\ notice[n] = "auth"
    /\ NoticeEnds(n)
    /\ LET e == [engine EXCEPT !.hits = "none"]
       IN  \/ engine' = e /\ NoFault
           \/ engine' = Becomes(e, "auth_failed") /\ Fault
    /\ UNCHANGED session /\ NoticeFrame

-----------------------------------------------------------------------------
(* The monitor's tick: the guardian, the watchdog, the sampler, the status file *)

TickFrame == UNCHANGED <<pending, control, probe, notice>>

\* setAgentRunning.
Tracked(e, running) ==
    [e EXCEPT !.running = IF running THEN "yes" ELSE "no",
              !.signal = IF e.running = "no" /\ running /\ PostRestartState(e.health)
                         THEN "grace" ELSE @]

\* onProcessRestarted.
Restarted(e) ==
    [e EXCEPT !.failing = FALSE, !.waits = FALSE,
              !.signal = IF e.health = "ok" THEN @ ELSE "grace",
              !.postRestart = @ \/ e.health # "ok"]

\* No session: known at once.  Otherwise isRunning is awaited.
TickLooks ==
    /\ monitor.pc = "idle"
    /\ monitor' = [monitor EXCEPT !.pc = "tick", !.saw = session = "up"]
    /\ UNCHANGED <<engine, watchdog, status, session>> /\ TickFrame /\ NoFault

\* The agent does not run: nothing within the grace of a launch, then a launch after a while,
\* which clears the pending heartbeat of the agent before.
TickNotRunning ==
    /\ monitor.pc = "tick" /\ ~monitor.saw
    /\ \/ /\ engine' = Tracked(engine, FALSE)
          /\ monitor' = [monitor EXCEPT !.pc = "idle"]
          /\ IF monitor.grace THEN UNCHANGED <<status, watchdog>>
             ELSE status' = Public(engine'.health) /\ watchdog' = "idle"
          /\ UNCHANGED <<pending, control, session>>
       \/ /\ ~monitor.grace
          /\ pending' = Nothing
          /\ control' = Collected(control, Nothing, probe)
          /\ engine' = Restarted(Tracked(engine, FALSE))
          /\ monitor' = [monitor EXCEPT !.pc = "idle", !.grace = TRUE]
          /\ status' = Public(engine'.health)
          /\ watchdog' = "idle"
          /\ session' = "starting"
    /\ UNCHANGED <<probe, notice>> /\ NoFault

\* Seconds without a running agent are counted down; most launches are up by then.
GraceEnds ==
    /\ monitor.grace /\ session # "up"
    /\ IF session = "starting" THEN Fault ELSE NoFault
    /\ monitor' = [monitor EXCEPT !.grace = FALSE]
    /\ UNCHANGED <<engine, watchdog, status, session>> /\ TickFrame

\* The agent runs.  A tool that hangs is interrupted, and when that does not help its session
\* is killed, once.
TickRunning ==
    /\ monitor.pc = "tick" /\ monitor.saw
    /\ monitor' = [monitor EXCEPT !.pc = "idle", !.grace = FALSE]
    /\ LET e == Tracked(engine, TRUE)
       IN  \/ /\ engine' = e
              /\ watchdog' = "idle"
              /\ UNCHANGED session /\ NoFault
           \/ /\ Fault /\ e.health = "ok"
              /\ engine' = e
              /\ watchdog' = IF watchdog = "idle" THEN "sent" ELSE watchdog
              /\ UNCHANGED session
           \/ /\ Fault /\ e.health = "ok" /\ watchdog = "sent"
              /\ engine' = [Becomes(e, "unavailable") EXCEPT !.failing = TRUE, !.waits = TRUE]
              /\ watchdog' = "escalated"
              /\ session' \in Killed
    /\ status' = Public(engine'.health)
    /\ TickFrame

\* The sampler kills the session of a process that makes no progress.
TickFrozen ==
    /\ monitor.pc = "tick" /\ monitor.saw /\ Fault
    /\ monitor' = [monitor EXCEPT !.pc = "idle", !.grace = FALSE]
    /\ engine' = Tracked(engine, TRUE)
    /\ session' \in Killed
    /\ UNCHANGED <<watchdog, status>> /\ TickFrame

\* The monitor's process dies and PM2 starts it again: what is not in a file is lost.
MonitorRestarts ==
    /\ Fault
    /\ engine' \in LET e == Fresh(status)
                   IN  {e} \cup IF status = "rate_limited" THEN RateLimited(e) ELSE {}
    /\ probe' = [p \in Probes |-> NoProbe]
    /\ notice' = [n \in Notices |-> "idle"]
    /\ monitor' = [pc |-> "idle", saw |-> FALSE, grace |-> FALSE]
    /\ control' = Collected(control, pending, probe')
    /\ UNCHANGED <<pending, watchdog, status, session>>

Tick == TickLooks \/ TickNotRunning \/ TickRunning

-----------------------------------------------------------------------------
(* The agent and the control queue *)

WorldFrame == UNCHANGED <<engine, probe, notice, watchdog, monitor, status>>

SessionMoves(from, to) ==
    /\ session = from /\ session' = to
    /\ UNCHANGED <<pending, control>> /\ WorldFrame
Launched == NoFault /\ SessionMoves("starting", "up")
LaunchFails == Fault /\ SessionMoves("starting", "down")
AgentDies == Fault /\ SessionMoves("up", "down")

Settles(b, verdict) ==
    /\ control[b] = "waiting"
    /\ control' = [control EXCEPT ![b] = verdict]
    /\ UNCHANGED <<pending, session>> /\ WorldFrame
Answers(b) == NoFault /\ session = "up" /\ Settles(b, "done")
DeadlinePasses(b) == Fault /\ Settles(b, "lost")

\* A verdict of the cycle without an answer: ten minutes have passed, the row cannot be read,
\* or the pane shows an API error.
PendingAges ==
    /\ pending.beat # NoBeat /\ Fault
    /\ pending' = [pending EXCEPT !.old = TRUE]
    /\ UNCHANGED <<control, session>> /\ WorldFrame

HealthNext ==
    \/ CycleVerdict \/ CycleAccelerates \/ CycleBeats
    \/ CooldownEnds \/ BackoffEnds \/ SignalGraceEnds
    \/ \E p \in Probes : \/ RouteStarts(p) \/ RouteProbes(p) \/ ProbeAuthenticated(p)
                         \/ ProbePolls(p) \/ ProbeTimesOut(p)
    \/ PostRestartProbe
    \/ \E n \in Notices : Delivered(n) \/ NoticeChecks(n) \/ NoticeAuthenticates(n)
    \/ Tick \/ GraceEnds \/ TickFrozen \/ MonitorRestarts
    \/ Launched \/ LaunchFails \/ AgentDies \/ PendingAges
    \/ \E b \in Beats : Answers(b) \/ DeadlinePasses(b)

HealthSpec == HealthInit /\ [][HealthNext]_healthVars

\* The cycle and the tick come round every second, time passes, calls return, a launch comes up,
\* the agent answers, and people go on writing.
HealthFairness ==
    /\ WF_healthVars(Cycle)
    /\ WF_healthVars(TickLooks) /\ WF_healthVars(TickRunning)
    /\ WF_healthVars(TickNotRunning)
    /\ SF_healthVars(TickNotRunning /\ session' = "starting")
    /\ WF_healthVars(BackoffEnds) /\ WF_healthVars(GraceEnds)
    /\ WF_healthVars(Launched) /\ \A b \in Beats : WF_healthVars(Answers(b))
    /\ \A p \in Probes : /\ WF_healthVars(ProbeAuthenticated(p))
                         /\ WF_healthVars(ProbePolls(p))
    /\ \A n \in Notices : /\ WF_healthVars(NoticeChecks(n))
                          /\ WF_healthVars(NoticeAuthenticates(n))
    /\ WF_healthVars(\E p \in Probes : RouteStarts(p))

-----------------------------------------------------------------------------
(* Properties *)

\* When the faults are over, whatever they did to the agent, its session, its limits and its
\* credentials, the monitor brings the session up, calls it ok, and leaves it alone from then on:
\* no state of the engine, no probe, verdict or timer left over keeps it unavailable or kills it
\* again and again (health-engine.js:278-489,567-619, guardian.js:151-185).
HealthReturns == <>[](engine.health = "ok" /\ session = "up")
=============================================================================
