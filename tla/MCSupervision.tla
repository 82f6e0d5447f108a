---------------------------- MODULE MCSupervision -----------------------------
(***************************************************************************)
(* Model checking of the two loops that PM2 keeps up beside the            *)
(* dispatcher: the activity monitor's (HealthMonitor) and the scheduler's. *)
(* They share nothing but the agent's status file, which the scheduler     *)
(* only reads: a behaviour runs one of them.                               *)
(***************************************************************************)
EXTENDS HealthMonitor, Scheduler

VARIABLE program \* the one that runs

vars == <<healthVars, schedulerVars, program>>

Init ==
    /\ HealthInit /\ SchedulerInit
    /\ program \in {"monitor", "scheduler"}
    /\ program = "scheduler" => engine.health = "ok" /\ session = "up"
    /\ program = "monitor" => alive /\ \A t \in Tasks : tasks[t] = Gone

Monitors == program = "monitor"
Schedules == program = "scheduler"

Next ==
    \/ Monitors /\ HealthNext /\ UNCHANGED <<schedulerVars, program>>
    \/ Schedules /\ SchedulerNext /\ UNCHANGED <<healthVars, program>>

\* As HealthFairness and SchedulerFairness, each while its program runs.
MonitorFair ==
    /\ WF_healthVars(Monitors /\ Cycle)
    /\ WF_healthVars(Monitors /\ TickLooks) /\ WF_healthVars(Monitors /\ TickRunning)
    /\ WF_healthVars(Monitors /\ TickNotRunning)
    /\ SF_healthVars(Monitors /\ TickNotRunning /\ session' = "starting")
    /\ WF_healthVars(Monitors /\ BackoffEnds) /\ WF_healthVars(Monitors /\ GraceEnds)
    /\ WF_healthVars(Monitors /\ Launched) /\ \A b \in Beats : WF_healthVars(Monitors /\ Answers(b))
    /\ \A p \in Probes : /\ WF_healthVars(Monitors /\ ProbeAuthenticated(p))
                         /\ WF_healthVars(Monitors /\ ProbePolls(p))
    /\ \A n \in Notices : /\ WF_healthVars(Monitors /\ NoticeChecks(n))
                          /\ WF_healthVars(Monitors /\ NoticeAuthenticates(n))
    /\ WF_healthVars(Monitors /\ \E p \in Probes : RouteStarts(p))

SchedulerFair ==
    /\ WF_schedulerVars(Schedules /\ DaemonStep) /\ WF_schedulerVars(Schedules /\ AgentReturns)
    /\ \A t \in Tasks : /\ SF_schedulerVars(Schedules /\ (Picks(t) \/ PicksLate(t)))
                        /\ WF_schedulerVars(Schedules /\ HourPasses(t))
                        /\ WF_schedulerVars(Schedules /\ tasks[t].due = "due" /\ DueComes(t))

Spec == Init /\ [][Next]_vars /\ MonitorFair /\ SchedulerFair

TypeOK == HealthTypeOK /\ SchedulerTypeOK
=============================================================================
