----------------------------- MODULE UpgradeLock -----------------------------
(***************************************************************************)
(* The lock file that upgrades of one component take (cli/lib/lock.js), by *)
(* processes that run `zylos upgrade` and release it when they are done.   *)
(* Every call of the file system is a step of its own: between two of them *)
(* other processes run, end or crash.                                      *)
(*                                                                         *)
(* A process takes the lock once in its life, so it stands for its pid,    *)
(* its process start and its ownership token.                              *)
(***************************************************************************)
EXTENDS Naturals, FiniteSets

CONSTANTS
    Procs,      \* the processes
    Anonymous,  \* those whose start token the host does not tell
    Nobody,     \* no process
    NoFile,     \* no lock file
    MaxDeaths  \* bound on crashes

ASSUME LockAssumption ==
    /\ Anonymous \subseteq Procs
    /\ Nobody \notin Procs
    /\ NoFile \notin [owner : Procs, written : BOOLEAN]
    /\ MaxDeaths \in Nat

VARIABLES
    file,     \* the lock file
    pc,       \* where a process is in acquireLock, its work, and releaseLock
    seen,     \* the owner in the lock a process has parsed
    alive,    \* the processes that run
    deaths

lockVars == <<file, pc, seen, alive, deaths>>

Files == [owner : Procs, written : BOOLEAN]

\* Where a process is once it has the lock.
Holding == {"work", "release", "verify", "reread", "remove"}
PCs == {"exists", "parse", "judge", "unlink", "recheck", "create", "write"} \cup Holding
       \cup {"refused", "done", "gone"}

LockTypeOK ==
    /\ file \in Files \cup {NoFile}
    /\ pc \in [Procs -> PCs]
    /\ seen \in [Procs -> Procs \cup {Nobody}]
    /\ alive \subseteq Procs
    /\ deaths \in 0..MaxDeaths

LockInit ==
    /\ file = NoFile
    /\ pc = [p \in Procs |-> "exists"]
    /\ seen = [p \in Procs |-> Nobody]
    /\ alive = Procs
    /\ deaths = 0

Go(p, from, to) == pc[p] = from /\ pc' = [pc EXCEPT ![p] = to]

\* parseLock: a missing file and one that is not written yet are both invalid.
Valid == file # NoFile /\ file.written

\* ownerState; a pid may be in use again, and a start token unreadable.
OwnerStates(o) ==
    IF o \in alive
    THEN {"unknown"} \cup (IF o \in Anonymous THEN {} ELSE {"live"})
    ELSE {"dead", "unknown"} \cup (IF o \in Anonymous THEN {} ELSE {"reused"})

\* Seeded fault: an owner nothing is known of counts as gone.
ReclaimableUnknown == {"dead", "reused", "unknown"}

Reclaimable == {"dead", "reused"}

-----------------------------------------------------------------------------
(* acquireLock *)

Exists(p) ==
    /\ \/ file = NoFile /\ Go(p, "exists", "create")
       \/ file # NoFile /\ Go(p, "exists", "parse")
    /\ UNCHANGED <<file, seen, alive, deaths>>

Parse(p) ==
    /\ \/ Valid /\ Go(p, "parse", "judge") /\ seen' = [seen EXCEPT ![p] = file.owner]
       \/ ~Valid /\ Go(p, "parse", "refused") /\ UNCHANGED seen
    /\ UNCHANGED <<file, alive, deaths>>

Judge(p) ==
    /\ \E state \in OwnerStates(seen[p]) :
          \/ state \in Reclaimable /\ Go(p, "judge", "unlink")
          \/ state \notin Reclaimable /\ Go(p, "judge", "refused")
    /\ UNCHANGED <<file, seen, alive, deaths>>

\* removeReclaimableLock judges once more and unlinks the path, whatever file is
\* there by now; a missing file is as good.
Unlink(p) ==
    /\ \/ Go(p, "unlink", "create") /\ file' = NoFile
       \/ Go(p, "unlink", "recheck") /\ UNCHANGED file
    /\ UNCHANGED <<seen, alive, deaths>>

Recheck(p) ==
    /\ \/ file = NoFile /\ Go(p, "recheck", "create")
       \/ file # NoFile /\ Go(p, "recheck", "refused")
    /\ UNCHANGED <<file, seen, alive, deaths>>

\* Seeded fault: the file is created without "wx".
CreateShared(p) ==
    /\ Go(p, "create", "write") /\ file' = [owner |-> p, written |-> FALSE]
    /\ UNCHANGED <<seen, alive, deaths>>

\* The file is created exclusively ("wx"), and empty.
Create(p) ==
    /\ \/ file = NoFile /\ Go(p, "create", "write")
          /\ file' = [owner |-> p, written |-> FALSE]
       \/ file # NoFile /\ Go(p, "create", "refused") /\ UNCHANGED file
    /\ UNCHANGED <<seen, alive, deaths>>

\* If the path is another file by now, the contents go to the one unlinked.
Write(p) ==
    /\ Go(p, "write", "work")
    /\ file' = IF file # NoFile /\ file.owner = p THEN [file EXCEPT !.written = TRUE] ELSE file
    /\ UNCHANGED <<seen, alive, deaths>>

-----------------------------------------------------------------------------
(* The upgrade, and releaseLock in its finally block *)

\* Seeded fault: an upgrade that fails skips the release.
WorkMayLeave(p) ==
    /\ Go(p, "work", "release") \/ Go(p, "work", "done")
    /\ UNCHANGED <<file, seen, alive, deaths>>

Work(p) ==
    /\ Go(p, "work", "release")
    /\ UNCHANGED <<file, seen, alive, deaths>>

Mine(p) == Valid /\ file.owner = p

\* A check that fails makes releaseLock return an error, which the upgrade ignores.
Checks(p) ==
    /\ \/ file = NoFile /\ Go(p, "release", "done")
       \/ file # NoFile /\ Go(p, "release", "verify")
       \/ Mine(p) /\ p \notin Anonymous /\ Go(p, "verify", "reread")
       \/ ~(Mine(p) /\ p \notin Anonymous) /\ Go(p, "verify", "done")
       \/ Mine(p) /\ Go(p, "reread", "remove")
       \/ ~Mine(p) /\ Go(p, "reread", "done")
    /\ UNCHANGED <<file, seen, alive, deaths>>

\* The path is unlinked, whatever file is there by now.
Remove(p) ==
    /\ Go(p, "remove", "done")
    /\ file' = NoFile
    /\ UNCHANGED <<seen, alive, deaths>>

-----------------------------------------------------------------------------
(* Processes end *)

Exit(p) ==
    /\ Go(p, "done", "gone") \/ Go(p, "refused", "gone")
    /\ alive' = alive \ {p}
    /\ UNCHANGED <<file, seen, deaths>>

Crash(p) ==
    /\ p \in alive
    /\ deaths < MaxDeaths
    /\ deaths' = deaths + 1
    /\ pc' = [pc EXCEPT ![p] = "gone"]
    /\ alive' = alive \ {p}
    /\ UNCHANGED <<file, seen>>

Step(p) ==
    \/ Exists(p) \/ Parse(p) \/ Judge(p) \/ Unlink(p) \/ Recheck(p) \/ Create(p) \/ Write(p)
    \/ Work(p) \/ Checks(p) \/ Remove(p) \/ Exit(p)

LockNext == \E p \in Procs : Step(p) \/ Crash(p)

LockSpec == LockInit /\ [][LockNext]_lockVars

\* The scheduler of the host runs every process, and upgrades end.
LockFairness == \A p \in Procs : WF_lockVars(Step(p))

-----------------------------------------------------------------------------
(* At most one process upgrades the component.  lock.js:110 calls a lock whose
   owner is dead safe to reclaim, and CHANGELOG.md:1231 names the lock the
   concurrency control of upgrades.  It holds for two processes; with a third, a
   lock that was judged by its former owner is another process's when it is
   unlinked. *)
MutualExclusion ==
    \A p, q \in Procs : pc[p] \in Holding /\ pc[q] \in Holding => p = q

\* Who is about to reclaim the lock has parsed an owner that has ended, for good:
\* neither the age of a lock nor a host that does not tell start tokens makes it
\* take the lock of a live owner it looked at (lock.js:4, lock.js:111).
EvictsOnlyTheDead ==
    \A p \in Procs : pc[p] = "unlink" => seen[p] \in Procs \ alive

\* An upgrade that ends by itself, well or not, gives its lock back, unless the host
\* hides its own start token and it cannot prove that the lock is its.
LockReturns ==
    \A p \in Procs \ Anonymous :
        file # NoFile /\ file.owner = p ~> file = NoFile \/ file.owner # p \/ deaths > 0
=============================================================================
