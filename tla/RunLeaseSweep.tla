----------------------------- MODULE RunLeaseSweep -----------------------------
(***************************************************************************)
(* The background sweep of expired task runs (skills/commitment-core/      *)
(* scripts/run-lease-sweep-supervisor.js) over TaskRuns.  Supervisors are  *)
(* processes that an operator starts; a row in a database of their own     *)
(* makes one of them the owner, under a lease and a fencing token.  The    *)
(* sweep itself is a transaction on another database, so an owner may lose *)
(* its lease between its renewal and its sweep.  One started with --once   *)
(* sweeps under the lease it was given and releases it.                    *)
(***************************************************************************)
EXTENDS TaskRuns

CONSTANTS
    Supervisors, \* processes; each start has an owner token of its own
    MaxLapses,   \* bound on runs with --once, stops, crashes, failed sweeps, and leases that end
                 \* under their owner
    Nobody

ASSUME SweepAssumption ==
    /\ MaxLapses \in Nat
    /\ Nobody \notin Supervisors

VARIABLES
    lease,      \* the row of supervisor_leases
    supervisor, \* what each process does, and the fencing token it was given
    lapses

sweepVars == <<lease, supervisor, lapses>>
taskRunsVars == <<task, taskEvents, outbox, run, runEvents, lease, supervisor, lapses>>

Off == [pc |-> "off", token |-> 0]
Tokens == 0..(MaxLapses + 1)

SweepTypeOK ==
    /\ TasksTypeOK
    /\ lease \in [owner : Supervisors \cup {Nobody}, token : Tokens, live : BOOLEAN]
    /\ supervisor \in [Supervisors -> [
           pc : {"off", "cycle", "sweep", "once", "leave"}, token : Tokens]]
    /\ lapses \in 0..MaxLapses

SweepInit ==
    /\ TasksInit
    /\ lease = [owner |-> Nobody, token |-> 0, live |-> FALSE]
    /\ supervisor = [s \in Supervisors |-> Off]
    /\ lapses = 0

\* Seeded fault: the row of an earlier owner is not overwritten.
AcquireUnowned(s) ==
    /\ supervisor[s].pc = "off"
    /\ lease.owner = Nobody
    /\ lease' = [owner |-> s, token |-> lease.token + 1, live |-> TRUE]
    /\ supervisor' = [supervisor EXCEPT ![s] = [pc |-> "cycle", token |-> lease.token + 1]]
    /\ UNCHANGED <<taskVars, lapses>>

\* acquireRunSweepLease: a new owner with the next fencing token, unless the lease is live.
Acquires(s, pc) ==
    /\ supervisor[s].pc = "off"
    /\ ~lease.live
    /\ lease' = [owner |-> s, token |-> lease.token + 1, live |-> TRUE]
    /\ supervisor' = [supervisor EXCEPT ![s] = [pc |-> pc, token |-> lease.token + 1]]

Acquire(s) == Acquires(s, "cycle") /\ UNCHANGED <<taskVars, lapses>>

\* The process was started with --once.
AcquireForOnce(s) ==
    /\ Acquires(s, "once")
    /\ lapses < MaxLapses
    /\ lapses' = lapses + 1
    /\ UNCHANGED taskVars

Owns(s) == lease.owner = s /\ lease.token = supervisor[s].token

\* renew, before each sweep; a lost lease ends the process, whose release then changes nothing.
Renew(s) ==
    /\ supervisor[s].pc = "cycle"
    /\ supervisor' = [supervisor EXCEPT ![s] =
           IF Owns(s) /\ lease.live THEN [@ EXCEPT !.pc = "sweep"] ELSE Off]
    /\ UNCHANGED <<taskVars, lease, lapses>>

Sweeping(s) == supervisor[s].pc \in {"sweep", "once"}
Swept(s) == [supervisor EXCEPT ![s].pc = IF @ = "sweep" THEN "cycle" ELSE "leave"]

\* A sweep that finds expired runs, and one that finds none or throws.
SweepOnce(s) ==
    /\ Sweeping(s)
    /\ Sweep
    /\ supervisor' = Swept(s)
    /\ UNCHANGED <<lease, lapses>>
SweepNothing(s) ==
    /\ Sweeping(s)
    /\ \A r \in Runs : run[r].status = "active" => run[r].live
    /\ supervisor' = Swept(s)
    /\ UNCHANGED <<taskVars, lease, lapses>>
SweepThrows(s) ==
    /\ Sweeping(s)
    /\ lapses < MaxLapses
    /\ lapses' = lapses + 1
    /\ supervisor' = Swept(s)
    /\ UNCHANGED <<taskVars, lease>>

\* release: the row and its token stay.
ReleaseLease(s) ==
    /\ lease' = IF Owns(s) THEN [lease EXCEPT !.live = FALSE] ELSE lease
    /\ supervisor' = [supervisor EXCEPT ![s] = Off]

Leave(s) == supervisor[s].pc = "leave" /\ ReleaseLease(s) /\ UNCHANGED <<taskVars, lapses>>

\* SIGTERM, seen between two sweeps.
\* Seeded fault: whoever stops releases the lease.
StopUnfenced(s) ==
    /\ supervisor[s].pc = "cycle"
    /\ lapses < MaxLapses
    /\ lapses' = lapses + 1
    /\ lease' = [lease EXCEPT !.live = FALSE]
    /\ supervisor' = [supervisor EXCEPT ![s] = Off]
    /\ UNCHANGED taskVars
Stop(s) ==
    /\ supervisor[s].pc = "cycle"
    /\ lapses < MaxLapses
    /\ lapses' = lapses + 1
    /\ ReleaseLease(s)
    /\ UNCHANGED taskVars

SweepCrash(s) ==
    /\ supervisor[s].pc # "off"
    /\ lapses < MaxLapses
    /\ lapses' = lapses + 1
    /\ supervisor' = [supervisor EXCEPT ![s] = Off]
    /\ UNCHANGED <<taskVars, lease>>

\* Time passes beyond the end of the lease; three sweep intervals are long for a live owner.
SweepLeaseEnds ==
    /\ lease.live
    /\ lease' = [lease EXCEPT !.live = FALSE]
    /\ IF \E s \in Supervisors : supervisor[s].pc # "off" /\ Owns(s)
       THEN lapses < MaxLapses /\ lapses' = lapses + 1
       ELSE UNCHANGED lapses
    /\ UNCHANGED <<taskVars, supervisor>>

Cycle(s) == Acquire(s) \/ Renew(s) \/ SweepOnce(s) \/ SweepNothing(s) \/ Leave(s)

SweepNext ==
    \/ TaskStep /\ UNCHANGED sweepVars
    \/ \E s \in Supervisors :
           Cycle(s) \/ AcquireForOnce(s) \/ SweepThrows(s) \/ Stop(s) \/ SweepCrash(s)
    \/ SweepLeaseEnds

SweepSpec == SweepInit /\ [][SweepNext]_taskRunsVars

\* Somebody keeps the supervisors running, and abandoned leases run out.
FairSpec ==
    /\ SweepSpec
    /\ \A s \in Supervisors : WF_taskRunsVars(Cycle(s))
    /\ WF_taskRunsVars(SweepLeaseEnds)

-----------------------------------------------------------------------------
(* Properties *)

\* The sweep's lease is ended by its owner or by time and by no other process, and none is brought
\* back once it has run out or another has taken it: the next one has a higher token
\* (run-lease-sweep-supervisor.js:128, 167, 194, 236).
LeaseChangesHands ==
    [][/\ lease.live /\ ~lease'.live /\ supervisor' # supervisor =>
            \E s \in Supervisors : Owns(s) /\ supervisor'[s].pc = "off"
       /\ lease' # lease /\ lease'.live => ~lease.live /\ lease'.token = lease.token + 1]_taskRunsVars

\* Leases decide, those of runs and that of the sweep.
LeasesDecide == RunsEndOnTime /\ LeaseChangesHands

\* A run whose worker is gone does not keep its task for ever: once its lease has run out some
\* supervisor ends it, whoever owned the sweep and however often the owner changed, and the
\* task can be claimed again.
ExpiredRunsEnd ==
    \A r \in Runs :
        (run[r].status = "active" /\ ~run[r].live) ~> run[r].status # "active"
=============================================================================
