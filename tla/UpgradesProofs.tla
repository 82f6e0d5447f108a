----------------------------- MODULE UpgradesProofs -----------------------------
(***************************************************************************)
(* What the upgrades guarantee, for any number of processes that contend   *)
(* for the lock, any services, and any number of attempts and crashes.     *)
(*                                                                         *)
(* Each of the three programs has an inductive invariant of its own; the   *)
(* theorems about MCUpgrades put them together.                            *)
(***************************************************************************)
EXTENDS MCUpgrades, TLAPS

-----------------------------------------------------------------------------
(* The lock of an upgrade *)

\* Who judges an owner, or acts on the judgement, has parsed one.
ParsedAnOwner == \A p \in Procs : pc[p] \in {"judge", "unlink"} => seen[p] \in Procs

LockInv == LockTypeOK /\ ParsedAnOwner /\ EvictsOnlyTheDead

LEMMA LockStarts == LockInit => LockInv
  BY LockAssumption DEF LockInit, LockInv, LockTypeOK, ParsedAnOwner, EvictsOnlyTheDead,
     PCs, Holding

\* A step of control moves one process and nothing else.
LEMMA GoMoves ==
    ASSUME LockTypeOK, NEW p \in Procs, NEW from \in PCs, NEW to \in PCs, Go(p, from, to)
    PROVE  /\ pc[p] = from
           /\ pc' \in [Procs -> PCs]
           /\ pc'[p] = to
           /\ \A q \in Procs \ {p} : pc'[q] = pc[q]
  BY DEF LockTypeOK, Go

\* A process that goes anywhere but to the judgement or the eviction, while no
\* process comes to life and no parsed owner changes, keeps the invariant.
LEMMA QuietStep ==
    ASSUME LockInv, NEW p \in Procs,
           LockTypeOK', seen' = seen, alive' \subseteq alive,
           pc'[p] \notin {"judge", "unlink"},
           \A q \in Procs \ {p} : pc'[q] = pc[q]
    PROVE  LockInv'
  BY DEF LockInv, LockTypeOK, ParsedAnOwner, EvictsOnlyTheDead

LEMMA ParseKeeps ==
    ASSUME LockInv, NEW p \in Procs, Parse(p)
    PROVE  LockInv'
  <1>1. CASE /\ Valid /\ Go(p, "parse", "judge") /\ seen' = [seen EXCEPT ![p] = file.owner]
    <2>1. file.owner \in Procs
      BY <1>1 DEF LockInv, LockTypeOK, Files, Valid
    <2>2. /\ pc' \in [Procs -> PCs] /\ pc'[p] = "judge"
          /\ \A q \in Procs \ {p} : pc'[q] = pc[q]
      BY <1>1, GoMoves DEF LockInv, PCs
    <2>3. LockTypeOK'
      BY <1>1, <2>1, <2>2 DEF Parse, LockInv, LockTypeOK
    <2>4. /\ seen'[p] \in Procs
          /\ \A q \in Procs \ {p} : seen'[q] = seen[q]
      BY <1>1, <2>1 DEF LockInv, LockTypeOK
    <2> QED
      BY <2>2, <2>3, <2>4 DEF Parse, LockInv, ParsedAnOwner, EvictsOnlyTheDead
  <1>2. CASE ~Valid /\ Go(p, "parse", "refused") /\ UNCHANGED seen
    <2>1. /\ pc' \in [Procs -> PCs] /\ pc'[p] = "refused"
          /\ \A q \in Procs \ {p} : pc'[q] = pc[q]
      BY <1>2, GoMoves DEF LockInv, PCs
    <2>2. LockTypeOK'
      BY <1>2, <2>1 DEF Parse, LockInv, LockTypeOK
    <2> QED
      BY <1>2, <2>1, <2>2, QuietStep DEF Parse
  <1> QED
    BY <1>1, <1>2 DEF Parse

\* What makes an owner reclaimable is that it has ended.
LEMMA ReclaimableIsDead ==
    ASSUME NEW o \in Procs, NEW state \in OwnerStates(o), state \in Reclaimable
    PROVE  o \notin alive
  BY DEF OwnerStates, Reclaimable

LEMMA JudgeKeeps ==
    ASSUME LockInv, NEW p \in Procs, Judge(p)
    PROVE  LockInv'
  <1>1. PICK state \in OwnerStates(seen[p]) :
           \/ state \in Reclaimable /\ Go(p, "judge", "unlink")
           \/ state \notin Reclaimable /\ Go(p, "judge", "refused")
    BY DEF Judge
  <1>2. CASE state \in Reclaimable /\ Go(p, "judge", "unlink")
    <2>1. /\ pc[p] = "judge"
          /\ pc' \in [Procs -> PCs] /\ pc'[p] = "unlink"
          /\ \A q \in Procs \ {p} : pc'[q] = pc[q]
      BY <1>2, GoMoves DEF LockInv, PCs
    <2>2. seen[p] \in Procs
      BY <2>1 DEF LockInv, ParsedAnOwner
    <2>3. seen[p] \notin alive
      BY <1>2, <2>2, ReclaimableIsDead
    <2>4. LockTypeOK'
      BY <2>1 DEF Judge, LockInv, LockTypeOK
    <2> QED
      BY <2>1, <2>2, <2>3, <2>4 DEF Judge, LockInv, ParsedAnOwner, EvictsOnlyTheDead
  <1>3. CASE state \notin Reclaimable /\ Go(p, "judge", "refused")
    <2>1. /\ pc' \in [Procs -> PCs] /\ pc'[p] = "refused"
          /\ \A q \in Procs \ {p} : pc'[q] = pc[q]
      BY <1>3, GoMoves DEF LockInv, PCs
    <2>2. LockTypeOK'
      BY <2>1 DEF Judge, LockInv, LockTypeOK
    <2> QED
      BY <2>1, <2>2, QuietStep DEF Judge
  <1> QED
    BY <1>1, <1>2, <1>3

\* The steps that neither parse nor judge.
LEMMA OthersKeep ==
    ASSUME LockInv, NEW p \in Procs,
           \/ Exists(p) \/ Unlink(p) \/ Recheck(p) \/ Create(p) \/ Write(p)
           \/ Work(p) \/ Checks(p) \/ Remove(p) \/ Exit(p) \/ Crash(p)
    PROVE  LockInv'
  <1>1. seen' = seen /\ alive' \subseteq alive /\ deaths' \in 0..MaxDeaths
    BY LockAssumption DEF Exists, Unlink, Recheck, Create, Write, Work, Checks, Remove, Exit, Crash,
       LockInv, LockTypeOK
  <1>2. /\ pc' \in [Procs -> PCs]
        /\ pc'[p] \notin {"judge", "unlink"}
        /\ \A q \in Procs \ {p} : pc'[q] = pc[q]
    BY DEF Exists, Unlink, Recheck, Create, Write, Work, Checks, Remove, Exit, Crash,
       Go, LockInv, LockTypeOK, PCs, Holding
  <1>3. file' \in Files \cup {NoFile}
    <2>1. file \in Files \cup {NoFile}
      BY DEF LockInv, LockTypeOK
    <2>2. CASE Create(p)
      <3>1. [owner |-> p, written |-> FALSE] \in Files
        BY DEF Files
      <3>2. file' = file \/ file' = [owner |-> p, written |-> FALSE]
        BY <2>2 DEF Create
      <3> QED
        BY <2>1, <3>1, <3>2
    <2>3. CASE Write(p)
      <3>1. CASE file # NoFile /\ file.owner = p
        <4>1. [file EXCEPT !.written = TRUE] \in Files
          BY <2>1, <3>1 DEF Files
        <4> QED
          BY <2>3, <3>1, <4>1 DEF Write
      <3> QED
        BY <2>1, <2>3, <3>1 DEF Write
    <2>4. CASE Unlink(p) \/ Remove(p)
      BY <2>1, <2>4 DEF Unlink, Remove
    <2>5. CASE Exists(p) \/ Recheck(p) \/ Work(p) \/ Checks(p) \/ Exit(p) \/ Crash(p)
      BY <2>1, <2>5 DEF Exists, Recheck, Work, Checks, Exit, Crash
    <2> QED
      BY <2>2, <2>3, <2>4, <2>5
  <1>4. LockTypeOK'
    BY <1>1, <1>2, <1>3 DEF LockInv, LockTypeOK
  <1> QED
    BY <1>1, <1>2, <1>4, QuietStep

LEMMA LockKeeps == LockInv /\ [LockNext]_lockVars => LockInv'
  <1> SUFFICES ASSUME LockInv, [LockNext]_lockVars
               PROVE  LockInv'
    OBVIOUS
  <1>1. CASE UNCHANGED lockVars
    BY <1>1 DEF LockInv, LockTypeOK, ParsedAnOwner, EvictsOnlyTheDead, lockVars
  <1>2. ASSUME NEW p \in Procs, Step(p)
        PROVE  LockInv'
    BY <1>2, ParseKeeps, JudgeKeeps, OthersKeep DEF Step
  <1>3. ASSUME NEW p \in Procs, Crash(p)
        PROVE  LockInv'
    BY <1>3, OthersKeep
  <1> QED
    BY <1>1, <1>2, <1>3 DEF LockNext

\* The lock's invariant holds, whatever runs under the lock.
THEOREM LockInvHolds == LockSpec => []LockInv
  BY LockStarts, LockKeeps, PTL DEF LockSpec

-----------------------------------------------------------------------------
\* lock.js never evicts on the evidence of a live owner: whoever is about to unlink
\* a lock in acquireLock has parsed an owner that has ended, for any number of
\* processes, crashes and hosts that hide start tokens.
THEOREM EvictionNeedsDeath == LockSpec => []EvictsOnlyTheDead
  <1>1. LockInv => EvictsOnlyTheDead
    BY DEF LockInv
  <1> QED
    BY <1>1, LockInvHolds, PTL

-----------------------------------------------------------------------------
(* The lock between two processes *)

\* A process that has not come to write has no file, and who holds the lock has its own;
\* who has ended stays so; nobody judges itself.
YetToCreate == {"exists", "parse", "judge", "unlink", "recheck", "create", "refused"}

FileIsOfItsMaker == file # NoFile => pc[file.owner] \notin YetToCreate
HolderHasFile ==
    \A p \in Procs : pc[p] \in Holding \cup {"write"} => file # NoFile /\ file.owner = p
EndedAreGone == \A p \in Procs : p \notin alive => pc[p] = "gone"
JudgesOthers == \A p \in Procs : pc[p] \in {"judge", "unlink"} => seen[p] # p

HolderInv ==
    LockInv /\ FileIsOfItsMaker /\ HolderHasFile /\ EndedAreGone /\ JudgesOthers

AtMostTwo == \A p, q, r \in Procs : p = q \/ q = r \/ p = r

LEMMA HolderStarts == LockInit => HolderInv
  BY LockStarts DEF HolderInv, LockInit, FileIsOfItsMaker, HolderHasFile, EndedAreGone,
     JudgesOthers, Holding

\* A step of one process, by what it does to the file.
LEMMA StepMoves ==
    ASSUME LockInv, NEW p \in Procs, Step(p) \/ Crash(p)
    PROVE  /\ pc' \in [Procs -> PCs]
           /\ \A q \in Procs \ {p} : pc'[q] = pc[q]
           /\ alive' = alive \/ (alive' = alive \ {p} /\ pc'[p] = "gone")
  BY DEF Step, Exists, Parse, Judge, Unlink, Recheck, Create, Write, Work, Checks, Remove, Exit,
     Crash, Go, LockInv, LockTypeOK, PCs, Holding

\* Who has the lock is not evicted: the owner that was judged is the other process, and dead.
LEMMA NobodyEvicts ==
    ASSUME HolderInv, AtMostTwo, NEW p \in Procs, pc[p] = "unlink", NEW q \in Procs \ {p}
    PROVE  pc[q] = "gone"
  <1>1. seen[p] \in Procs \ alive /\ seen[p] # p
    BY DEF HolderInv, LockInv, EvictsOnlyTheDead, JudgesOthers
  <1>2. seen[p] = q
    BY <1>1 DEF AtMostTwo
  <1> QED
    BY <1>1, <1>2 DEF HolderInv, EndedAreGone

\* A step that leaves the file alone, or does not take the lock.
LEMMA SameFileKeeps ==
    ASSUME HolderInv, LockInv', NEW p \in Procs, Step(p) \/ Crash(p),
           file' = file, seen' = seen,
           pc'[p] \notin YetToCreate \/ pc[p] \in YetToCreate,
           pc'[p] \in Holding => pc[p] \in Holding \cup {"write"},
           pc'[p] # "write",
           pc'[p] \in {"judge", "unlink"} => pc[p] \in {"judge", "unlink"}
    PROVE  HolderInv'
  <1>1. /\ pc' \in [Procs -> PCs] /\ \A q \in Procs \ {p} : pc'[q] = pc[q]
        /\ alive' = alive \/ (alive' = alive \ {p} /\ pc'[p] = "gone")
    BY StepMoves DEF HolderInv
  <1>2. FileIsOfItsMaker'
    BY <1>1 DEF HolderInv, FileIsOfItsMaker, LockInv, LockTypeOK, Files
  <1>3. HolderHasFile'
    BY <1>1 DEF HolderInv, HolderHasFile
  <1>4. EndedAreGone'
    <2>1. p \notin alive => pc'[p] = "gone"
      BY DEF HolderInv, EndedAreGone, Step, Exists, Parse, Judge, Unlink, Recheck, Create, Write,
         Work, Checks, Remove, Exit, Crash, Go
    <2> QED
      BY <1>1, <2>1 DEF HolderInv, EndedAreGone
  <1>5. JudgesOthers'
    BY <1>1 DEF HolderInv, JudgesOthers
  <1> QED
    BY <1>2, <1>3, <1>4, <1>5 DEF HolderInv

LEMMA CallsKeep ==
    ASSUME HolderInv, LockInv', NEW p \in Procs,
           Exists(p) \/ Judge(p) \/ Recheck(p) \/ Work(p) \/ Checks(p) \/ Exit(p) \/ Crash(p)
    PROVE  HolderInv'
  <1>1. file' = file /\ seen' = seen
    BY DEF Exists, Judge, Recheck, Work, Checks, Exit, Crash
  <1>2. /\ pc'[p] \notin YetToCreate \/ pc[p] \in YetToCreate
        /\ pc'[p] \in Holding => pc[p] \in Holding \cup {"write"}
        /\ pc'[p] # "write"
        /\ pc'[p] \in {"judge", "unlink"} => pc[p] \in {"judge", "unlink"}
    BY DEF Exists, Judge, Recheck, Work, Checks, Exit, Crash, Go, YetToCreate, Holding, HolderInv,
       LockInv, LockTypeOK
  <1>3. Step(p) \/ Crash(p)
    BY DEF Step
  <1> QED
    BY <1>1, <1>2, <1>3, SameFileKeeps

\* The process that moves lives, as it has not ended.
LEMMA MoverLives ==
    ASSUME HolderInv, NEW p \in Procs, pc[p] # "gone"
    PROVE  p \in alive
  BY DEF HolderInv, EndedAreGone

LEMMA ParseFindsOthers ==
    ASSUME HolderInv, LockInv', NEW p \in Procs, Parse(p)
    PROVE  HolderInv'
  <1>1. /\ pc[p] = "parse" /\ file' = file /\ alive' = alive /\ pc'[p] \in {"judge", "refused"}
        /\ pc'[p] = "judge" => file # NoFile /\ seen' = [seen EXCEPT ![p] = file.owner]
        /\ pc'[p] # "judge" => seen' = seen
        /\ pc' \in [Procs -> PCs] /\ \A q \in Procs \ {p} : pc'[q] = pc[q]
    BY DEF Parse, Go, Valid, HolderInv, LockInv, LockTypeOK, PCs
  <1>2. /\ pc'[p] = "judge" => seen'[p] # p
        /\ \A q \in Procs \ {p} : seen'[q] = seen[q]
    BY <1>1 DEF HolderInv, FileIsOfItsMaker, YetToCreate, LockInv, LockTypeOK
  <1>3. FileIsOfItsMaker'
    BY <1>1 DEF HolderInv, FileIsOfItsMaker, YetToCreate, LockInv, LockTypeOK, Files
  <1>4. HolderHasFile' /\ EndedAreGone'
    BY <1>1, MoverLives DEF HolderInv, HolderHasFile, EndedAreGone, Holding
  <1>5. JudgesOthers'
    BY <1>1, <1>2 DEF HolderInv, JudgesOthers
  <1> QED
    BY <1>3, <1>4, <1>5 DEF HolderInv

LEMMA UnlinkSparesHolders ==
    ASSUME HolderInv, AtMostTwo, LockInv', NEW p \in Procs, Unlink(p)
    PROVE  HolderInv'
  <1>1. /\ pc[p] = "unlink" /\ seen' = seen /\ alive' = alive /\ pc'[p] \in {"create", "recheck"}
        /\ file' \in {file, NoFile}
        /\ pc' \in [Procs -> PCs] /\ \A q \in Procs \ {p} : pc'[q] = pc[q]
    BY DEF Unlink, Go, HolderInv, LockInv, LockTypeOK, PCs
  <1>2. \A q \in Procs \ {p} : pc[q] = "gone"
    BY <1>1, NobodyEvicts
  <1>3. FileIsOfItsMaker'
    BY <1>1 DEF HolderInv, FileIsOfItsMaker, YetToCreate, LockInv, LockTypeOK, Files
  <1>4. HolderHasFile' /\ EndedAreGone' /\ JudgesOthers'
    BY <1>1, <1>2, MoverLives DEF HolderInv, HolderHasFile, EndedAreGone, JudgesOthers, Holding
  <1> QED
    BY <1>3, <1>4 DEF HolderInv

LEMMA CreateTakesTheLock ==
    ASSUME HolderInv, LockInv', NEW p \in Procs, Create(p)
    PROVE  HolderInv'
  <1>1. CASE file = NoFile
    <2>1. /\ pc[p] = "create" /\ seen' = seen /\ alive' = alive /\ pc'[p] = "write"
          /\ file' = [owner |-> p, written |-> FALSE]
          /\ pc' \in [Procs -> PCs] /\ \A q \in Procs \ {p} : pc'[q] = pc[q]
      BY <1>1 DEF Create, Go, HolderInv, LockInv, LockTypeOK, PCs
    <2>2. file'.owner = p
      BY <2>1
    <2>3. \A q \in Procs : pc[q] \notin Holding \cup {"write"}
      BY <1>1 DEF HolderInv, HolderHasFile
    <2>4. file' # NoFile
      <3>1. file' \in [owner : Procs, written : BOOLEAN]
        BY <2>1
      <3> QED
        BY <3>1, LockAssumption
    <2> QED
      BY <2>1, <2>2, <2>3, <2>4, MoverLives DEF HolderInv, FileIsOfItsMaker, YetToCreate,
         HolderHasFile, EndedAreGone, JudgesOthers
  <1>2. CASE file # NoFile
    <2>1. /\ pc[p] = "create" /\ seen' = seen /\ file' = file /\ pc'[p] = "refused"
      BY <1>2 DEF Create, Go, HolderInv, LockInv, LockTypeOK
    <2>2. Step(p)
      BY DEF Step
    <2> QED
      BY <2>1, <2>2, SameFileKeeps DEF YetToCreate, Holding
  <1> QED
    BY <1>1, <1>2

LEMMA WriteKeepsTheLock ==
    ASSUME HolderInv, LockInv', NEW p \in Procs, Write(p)
    PROVE  HolderInv'
  <1>1. /\ pc[p] = "write" /\ seen' = seen /\ alive' = alive /\ pc'[p] = "work"
        /\ file' = [file EXCEPT !.written = TRUE]
        /\ file # NoFile /\ file.owner = p
        /\ pc' \in [Procs -> PCs] /\ \A q \in Procs \ {p} : pc'[q] = pc[q]
    BY DEF Write, Go, HolderInv, HolderHasFile, LockInv, LockTypeOK, PCs, Holding
  <1>2. file' \in Files /\ file'.owner = p
    BY <1>1 DEF HolderInv, LockInv, LockTypeOK, Files
  <1>3. file' # NoFile
    BY <1>2, LockAssumption DEF Files
  <1>4. \A q \in Procs \ {p} : pc[q] \notin Holding \cup {"write"}
    BY <1>1 DEF HolderInv, HolderHasFile
  <1> QED
    BY <1>1, <1>2, <1>3, <1>4, MoverLives DEF HolderInv, FileIsOfItsMaker, YetToCreate,
       HolderHasFile, EndedAreGone, JudgesOthers

LEMMA RemoveEndsTheLock ==
    ASSUME HolderInv, LockInv', NEW p \in Procs, Remove(p)
    PROVE  HolderInv'
  <1>1. /\ pc[p] = "remove" /\ seen' = seen /\ alive' = alive /\ pc'[p] = "done"
        /\ file' = NoFile
        /\ pc' \in [Procs -> PCs] /\ \A q \in Procs \ {p} : pc'[q] = pc[q]
    BY DEF Remove, Go, HolderInv, LockInv, LockTypeOK, PCs
  <1>2. \A q \in Procs \ {p} : pc[q] \notin Holding \cup {"write"}
    BY <1>1 DEF HolderInv, HolderHasFile, Holding
  <1> QED
    BY <1>1, <1>2, MoverLives DEF HolderInv, FileIsOfItsMaker, HolderHasFile, EndedAreGone,
       JudgesOthers, Holding

LEMMA HolderKeeps == HolderInv /\ AtMostTwo /\ [LockNext]_lockVars => HolderInv'
  <1> SUFFICES ASSUME HolderInv, AtMostTwo, [LockNext]_lockVars
               PROVE  HolderInv'
    OBVIOUS
  <1>1. LockInv'
    BY LockKeeps DEF HolderInv
  <1>2. CASE UNCHANGED lockVars
    BY <1>1, <1>2 DEF HolderInv, FileIsOfItsMaker, HolderHasFile, EndedAreGone, JudgesOthers,
       lockVars
  <1>3. ASSUME NEW p \in Procs, Step(p) \/ Crash(p)
        PROVE  HolderInv'
    BY <1>1, <1>3, CallsKeep, ParseFindsOthers, UnlinkSparesHolders, CreateTakesTheLock,
       WriteKeepsTheLock, RemoveEndsTheLock DEF Step
  <1> QED
    BY <1>2, <1>3 DEF LockNext

\* Two processes that want to upgrade a component never both do, whatever dies and whatever
\* start tokens the host hides (lock.js:129-176); the run lock_third_process shows that of
\* three processes two may.
THEOREM TwoProcessesExclude ==
    ASSUME AtMostTwo
    PROVE  LockSpec => []MutualExclusion
  <1>1. LockInit => HolderInv
    BY HolderStarts
  <1>2. HolderInv /\ [LockNext]_lockVars => HolderInv'
    BY HolderKeeps
  <1>3. HolderInv => MutualExclusion
    BY DEF HolderInv, HolderHasFile, MutualExclusion
  <1> QED
    BY <1>1, <1>2, <1>3, PTL DEF LockSpec

-----------------------------------------------------------------------------
(* The upgrade of a component *)

\* The attempts, the baseline and the metadata, field by field
Contexts == [pc : Steps \cup Undoing \cup Finishing, found : Disk, ran : Trees \cup {"stopped"},
             backup : Trees \cup {"none"}, transition : BOOLEAN, mutated : BOOLEAN,
             routed : BOOLEAN, journal : BOOLEAN, clean : BOOLEAN]
Baselines == [manifest : Releases, originals : {"old", "new", "gone"}, tmp : BOOLEAN,
                     staged : {"none", "mixed", "new"}]
Metas == [journal : BOOLEAN, marker : Releases, registry : Releases,
                 lock : {"free", "upgrade", "command", "dead"}]
CTypes ==
    /\ disk \in Disk /\ baseline \in Baselines /\ meta \in Metas
    /\ service \in Trees \cup {"stopped"}
    /\ upgrade \in Contexts \cup {NoUpgrade}
    /\ command \in {"idle"} \cup Finishing
    /\ report \in Result \cup {NoResult}
    /\ attempts \in 0..MaxAttempts
    /\ crashes \in 0..MaxCrashes

Active == upgrade.pc # "idle"
Committed == {"swap"} \cup Finishing
\* Where the journal of the attempt has been written, and its new baseline is on its way.
Committing == {"stage", "copy", "commit"} \cup Committed
Merged == {"npm", "routes", "postHook", "start", "postcheck", "journal"} \cup Committing
Installed == Merged \ {"npm"}
Started == {"postcheck", "journal"} \cup Committing
Unrouted == {"capabilities", "backup", "preHook", "stop", "merge", "npm", "routes"}
AsNew == IF upgrade.ran = "stopped" THEN "stopped" ELSE "new"

\* The baseline is being replaced as far as the attempt has come.
BaselineOK ==
    /\ BaselineIsWhole
    /\ upgrade.pc = "stage" => ~baseline.tmp /\ baseline.staged = "none"
    /\ upgrade.pc = "copy" => baseline.tmp /\ baseline.staged = "none"
    /\ upgrade.pc = "commit" => baseline.tmp /\ baseline.staged = "new"
    /\ upgrade.pc = "swap" => ~baseline.tmp /\ baseline.staged = "new"
    /\ Active => (baseline.manifest = "new") = (upgrade.pc \in Committed)

\* What a finisher has done, an attempt's or a command's, that has come to at
MarkedAt(at) ==
    /\ at \in Finishing \ {"inspect"} => baseline.manifest = "new"
    /\ at \in {"lock", "registry", "unlock", "drop"} => meta.marker = "new"
    /\ at \in {"unlock", "drop"} => meta.registry = "new"

\* The metadata are behind the baseline by no more than the journal covers.
MetaOK ==
    /\ MetadataFollowsBaseline
    /\ MarkedAt(upgrade.pc) /\ MarkedAt(command)
    /\ baseline.manifest = "new" => meta.journal \/ (meta.marker = "new" /\ meta.registry = "new")
    /\ Active /\ baseline.manifest = "old" => meta.journal = upgrade.journal
    /\ upgrade.pc \in Committing => upgrade.journal

\* Going forward
ForwardOK ==
    LET u == upgrade
        touched == u.pc \notin {"capabilities", "backup", "preHook", "stop"}
    IN  u.pc \in Steps \cup Finishing =>
        /\ u.clean
        /\ u.backup = (IF u.pc \in {"capabilities", "backup"} THEN "none" ELSE u.found.files)
        /\ u.mutated = touched
        /\ u.transition = (touched /\ u.ran # "stopped")
        /\ u.pc \in {"capabilities", "backup"} => disk.data = u.found.data
        /\ ~u.routed => disk.routes = u.found.routes
        /\ ~touched => disk.files = u.found.files /\ disk.deps = u.found.deps /\ service = u.ran
        /\ u.pc \in Unrouted \/ (u.pc = "recover" /\ ~u.journal) => ~u.routed
        /\ touched /\ u.ran = "stopped" => service = "stopped"
        /\ u.pc \in Merged \/ (u.pc = "recover" /\ u.journal) => disk.files = "new"
        /\ u.pc \in Installed \/ (u.pc = "recover" /\ u.journal) => disk.deps = "new"
        /\ u.pc \in Started \/ (u.pc = "recover" /\ u.journal) => service = AsNew
        /\ u.journal => u.pc \in Committing \cup {"recover"}

\* Routes are of the files' release, unless a merge left files of both.
Fits(routes, files) == files = "mixed" \/ routes = files

\* The rollback
BackwardOK ==
    LET u == upgrade
        touched == u.mutated \/ u.transition
    IN  u.pc \in Undoing =>
        /\ u.backup \in {"none", u.found.files}
        /\ touched \/ u.pc = "undoData" => u.backup # "none"
        /\ u.backup = "none" => disk.data = u.found.data
        /\ ~u.routed => disk.routes = u.found.routes
        /\ ~touched => /\ disk.files = u.found.files /\ disk.deps = u.found.deps
                       /\ service = u.ran /\ ~u.routed
        /\ u.ran = "stopped" => service = "stopped"
        /\ u.pc \in {"undoFiles", "undoDeps", "undoRoutes", "undoService"} => touched
        /\ u.clean =>
            /\ u.pc \in {"undoDeps", "undoData", "undoRoutes", "undoService", "abort"} =>
                   disk.files = u.found.files
            /\ u.pc \in {"undoData", "undoRoutes", "undoService", "abort"} =>
                   disk.deps \in {u.found.deps, u.found.files}
            /\ u.pc \in {"undoRoutes", "undoService", "abort"} => disk.data = u.found.data
            /\ u.pc \in {"undoService", "abort"} =>
                   disk.routes = u.found.routes \/ Fits(disk.routes, u.found.files)
            /\ u.pc = "abort" =>
                   service \in IF u.ran = "stopped" THEN {"stopped"} ELSE {u.ran, u.found.files}

\* An attempt that goes on has reported nothing.
ReportOK == (Active => report = NoResult) /\ UpgradeIsWhole

\* The inductive invariant of the upgrade of a component
CInv == CTypes /\ BaselineOK /\ MetaOK /\ ForwardOK /\ BackwardOK /\ ReportOK

Places == Steps \cup Undoing \cup Finishing

\* What v keeps of the context u, but for its place.
Same(v, u) ==
    /\ v.found = u.found /\ v.ran = u.ran /\ v.backup = u.backup
    /\ v.transition = u.transition /\ v.mutated = u.mutated /\ v.routed = u.routed
    /\ v.journal = u.journal /\ v.clean = u.clean

LEMMA Placed ==
    ASSUME NEW u \in Contexts, NEW at \in Places
    PROVE  LET v == [u EXCEPT !.pc = at]
           IN  v \in Contexts /\ v.pc = at /\ Same(v, u)
  BY DEF Contexts, Same, Places

LEMMA ContextRow ==
    ASSUME NEW u \in Contexts
    PROVE  /\ u.pc \in Places /\ u.found \in Disk /\ u.ran \in Trees \cup {"stopped"}
           /\ u.backup \in Trees \cup {"none"}
           /\ {u.transition, u.mutated, u.routed, u.journal, u.clean} \subseteq BOOLEAN
           /\ u.pc # "idle"
  BY DEF Contexts, Places, Steps, Undoing, Finishing

LEMMA CInit == ComponentInit => CInv
  <1> SUFFICES ASSUME ComponentInit PROVE CInv
    OBVIOUS
  <1>1. upgrade.pc = "idle" /\ report.result = "none"
    BY DEF ComponentInit, NoUpgrade, NoResult
  <1>2. CTypes
    BY ComponentUpgradeAssumption DEF ComponentInit, CTypes, Disk, Baselines, Metas, Releases, Trees
  <1> QED
    BY <1>1, <1>2 DEF CInv, BaselineOK, MetaOK, ForwardOK, BackwardOK, ReportOK, Active,
       BaselineIsWhole, MetadataFollowsBaseline, MarkedAt, ComponentInit, UpgradeIsWhole,
       RollbackRestores, SuccessIsWhole, Committed, Finishing, Unrouted, Merged, Installed,
       Started, Steps, Undoing, Committing

LEMMA StartKeeps == ASSUME CInv, Start PROVE CInv'
  <1>1. attempts' \in 0..MaxAttempts
    BY ComponentUpgradeAssumption DEF CInv, CTypes, Start
  <1> DEFINE u == upgrade'
  <1>2. /\ u \in Contexts /\ u.pc = "capabilities" /\ u.found = disk /\ u.ran = service
        /\ u.backup = "none" /\ u.transition = FALSE /\ u.mutated = FALSE
        /\ u.routed = FALSE /\ u.journal = FALSE /\ u.clean = TRUE
    BY DEF Start, Context, Contexts, CInv, CTypes, Steps
  <1>3. report' = NoResult /\ report'.result = "none"
    BY DEF Start, NoResult
  <1>4. CTypes'
    BY <1>1, <1>2, <1>3 DEF CTypes, CInv, Start
  <1>5. /\ baseline' = baseline /\ meta' = meta /\ disk' = disk /\ service' = service
        /\ command' = command
        /\ baseline.manifest = "old" /\ meta.journal = FALSE
    BY DEF Start, CInv, CTypes, Metas
  <1> HIDE DEF u
  <1>6. BaselineOK'
    BY <1>2, <1>5 DEF u, CInv, BaselineOK, Active, BaselineIsWhole, Committed, Finishing
  <1>7. MetaOK'
    BY <1>2, <1>5 DEF u, CInv, MetaOK, MarkedAt, MetadataFollowsBaseline, Active, Finishing,
       Committing, Committed
  <1>8. ForwardOK'
    BY <1>2, <1>5 DEF u, ForwardOK, Finishing, Committing, Committed, Unrouted, Merged, Installed,
       Started
  <1>9. BackwardOK'
    BY <1>2 DEF u, BackwardOK, Undoing
  <1>10. ReportOK'
    BY <1>3 DEF ReportOK, UpgradeIsWhole, RollbackRestores, SuccessIsWhole
  <1> QED
    BY <1>4, <1>6, <1>7, <1>8, <1>9, <1>10 DEF CInv
\* A step that leaves the baseline, the metadata and the report alone.
LEMMA Moves ==
    ASSUME CInv, upgrade.pc \in (Steps \cup Undoing) \ {"swap"}, upgrade' \in Contexts,
           upgrade'.pc \in (Steps \cup Undoing) \ {"stage", "copy", "commit", "swap"},
           upgrade'.journal = upgrade.journal,
           disk' \in Disk, service' \in Trees \cup {"stopped"},
           UNCHANGED <<baseline, meta, command, report, attempts, crashes>>,
           ForwardOK', BackwardOK'
    PROVE  CInv'
  <1>1. CTypes'
    BY DEF CInv, CTypes
  <1>2. Active /\ Active' /\ upgrade.pc \notin Committed /\ upgrade'.pc \notin Committed
        /\ upgrade'.pc \notin Committing /\ upgrade'.pc \notin Finishing
    BY DEF Active, Steps, Undoing, Committed, Finishing, Committing
  <1>3. BaselineOK'
    BY <1>2 DEF CInv, BaselineOK, BaselineIsWhole
  <1>4. MetaOK'
    BY <1>2 DEF CInv, MetaOK, MarkedAt, MetadataFollowsBaseline, Finishing
  <1>5. ReportOK'
    <2>1. report = NoResult
      BY <1>2 DEF CInv, ReportOK
    <2> QED
      BY <2>1 DEF ReportOK, UpgradeIsWhole, RollbackRestores, SuccessIsWhole, NoResult
  <1> QED
    BY <1>1, <1>3, <1>4, <1>5 DEF CInv

LEMMA VerifyKeeps == ASSUME CInv, VerifyCapabilities PROVE CInv'
  <1> DEFINE u == upgrade
             v == upgrade'
  <1>1. /\ u.pc = "capabilities" /\ u \in Contexts /\ v \in Contexts
        /\ v.pc \in {"backup", "undo"} /\ Same(v, u)
        /\ disk' = disk /\ service' = service
        /\ UNCHANGED <<baseline, meta, command, report, attempts, crashes>>
    BY Placed DEF VerifyCapabilities, After, CInv, CTypes, NoUpgrade, Places, Steps, Undoing
  <1>2. ForwardOK
    BY DEF CInv
  <1>3. ForwardOK'
    BY <1>1, <1>2 DEF ForwardOK, Finishing, Committing, Committed, Unrouted, Merged, Installed,
       Started, Same, Steps
  <1>4. BackwardOK'
    BY <1>1, <1>2 DEF Unrouted, ForwardOK, BackwardOK, Steps, Undoing, Same
  <1> QED
    BY <1>1, <1>3, <1>4, Moves DEF CInv, CTypes, Same, Steps, Undoing

LEMMA BackupKeeps == ASSUME CInv, Backup PROVE CInv'
  <1> DEFINE u == upgrade
             v == upgrade'
  <1>1. /\ u.pc = "backup" /\ u \in Contexts
        /\ disk' = disk /\ service' = service /\ disk \in Disk
        /\ UNCHANGED <<baseline, meta, command, report, attempts, crashes>>
    BY DEF Backup, CInv, CTypes, NoUpgrade
  <1>2. /\ v \in Contexts
        /\ v.pc \in {"preHook", "undo"}
        /\ v.found = u.found /\ v.ran = u.ran
        /\ v.transition = u.transition /\ v.mutated = u.mutated /\ v.routed = u.routed
        /\ v.journal = u.journal /\ v.clean = u.clean
        /\ \/ v.backup = disk.files
           \/ v.backup = u.backup /\ v.pc = "undo"
    <2>1. CASE \E at \in {"preHook", "undo"} : v = [u EXCEPT !.pc = at, !.backup = disk.files]
      BY <1>1, <2>1 DEF Contexts, Steps, Undoing, Disk
    <2>2. CASE v = [u EXCEPT !.pc = "undo"]
      BY <1>1, <2>2 DEF Contexts, Steps, Undoing
    <2> QED
      BY <2>1, <2>2 DEF Backup
  <1>3. ForwardOK
    BY DEF CInv
  <1>4. ForwardOK'
    BY <1>1, <1>2, <1>3 DEF ForwardOK, Finishing, Committing, Committed, Unrouted, Merged,
       Installed, Started, Steps
  <1>5. BackwardOK'
    BY <1>1, <1>2, <1>3 DEF Unrouted, ForwardOK, BackwardOK, Steps, Undoing, Disk
  <1> QED
    BY <1>1, <1>2, <1>4, <1>5, Moves DEF CInv, CTypes, Steps, Undoing

LEMMA DiskRow ==
    ASSUME NEW d \in Disk
    PROVE  /\ d.files \in Trees /\ d.deps \in Trees /\ d.data \in Trees /\ d.routes \in Releases
           /\ \A v \in Trees : LET e == [d EXCEPT !.files = v]
                               IN  e \in Disk /\ e.files = v /\ e.deps = d.deps
                                   /\ e.data = d.data /\ e.routes = d.routes
           /\ \A v \in Trees : LET e == [d EXCEPT !.deps = v]
                               IN  e \in Disk /\ e.files = d.files /\ e.deps = v
                                   /\ e.data = d.data /\ e.routes = d.routes
           /\ \A v \in Trees : LET e == [d EXCEPT !.data = v]
                               IN  e \in Disk /\ e.files = d.files /\ e.deps = d.deps
                                   /\ e.data = v /\ e.routes = d.routes
           /\ \A v \in Releases : LET e == [d EXCEPT !.routes = v]
                                  IN  e \in Disk /\ e.files = d.files /\ e.deps = d.deps
                                      /\ e.data = d.data /\ e.routes = v
  BY DEF Disk

LEMMA HookKeeps ==
    ASSUME CInv, PreUpgradeHook \/ PostUpgradeHook
    PROVE  CInv'
  <1> DEFINE u == upgrade
             v == upgrade'
  <1>1. /\ \/ u.pc = "preHook" /\ v.pc \in {"stop", "undo"}
           \/ u.pc = "postHook" /\ v.pc \in {"start", "undo"}
        /\ u \in Contexts /\ v \in Contexts /\ Same(v, u)
        /\ UNCHANGED <<baseline, meta, service, command, report, attempts, crashes>>
    <2>1. ASSUME NEW step \in {"preHook", "postHook"}, NEW next \in {"stop", "start"},
                 After(step, next)
          PROVE  /\ u.pc = step /\ v.pc \in {next, "undo"}
                 /\ u \in Contexts /\ v \in Contexts /\ Same(v, u)
                 /\ UNCHANGED <<baseline, meta, command, report, attempts, crashes>>
      BY <2>1, Placed DEF After, CInv, CTypes, NoUpgrade, Places, Steps, Undoing
    <2> QED
      BY <2>1 DEF PreUpgradeHook, PostUpgradeHook
  <1>2. /\ disk' \in Disk /\ disk'.files = disk.files /\ disk'.deps = disk.deps
        /\ disk'.routes = disk.routes
    <2>1. disk \in Disk
      BY DEF CInv, CTypes
    <2>2. PICK data \in Leaves(disk.data, "new") : disk' = [disk EXCEPT !.data = data]
      BY DEF PreUpgradeHook, PostUpgradeHook, HookMigrates
    <2>3. data \in Trees
      <3>1. disk.data \in Trees
        BY <2>1, DiskRow
      <3> QED
        BY <2>2, <3>1 DEF Leaves, Trees, Releases
    <2> QED
      BY <2>1, <2>2, <2>3, DiskRow
  <1>3. ForwardOK
    BY DEF CInv
  <1>4. ForwardOK'
    BY <1>1, <1>2, <1>3 DEF ForwardOK, Finishing, Committing, Committed, Unrouted, Merged,
       Installed, Started, Steps, Same, AsNew
  <1>5. BackwardOK'
    <2>1. u.found.files \in Trees /\ "none" \notin Trees
      BY <1>1, DiskRow, ContextRow DEF Trees, Releases
    <2> QED
      BY <1>1, <1>2, <1>3, <2>1 DEF Unrouted, ForwardOK, BackwardOK, Steps, Undoing, Same
  <1> QED
    BY <1>1, <1>2, <1>4, <1>5, Moves DEF CInv, CTypes, Steps, Undoing, Same

LEMMA StopKeeps == ASSUME CInv, StopService PROVE CInv'
  <1> DEFINE u == upgrade
             v == upgrade'
  <1>1. /\ u.pc = "stop" /\ u \in Contexts
        /\ disk' = disk /\ disk \in Disk /\ service \in Trees \cup {"stopped"}
        /\ UNCHANGED <<baseline, meta, command, report, attempts, crashes>>
    BY DEF StopService, CInv, CTypes, NoUpgrade
  <1>2. PICK at \in {"recover", "undo"}, asked \in BOOLEAN :
          /\ asked => service # "stopped"
          /\ at = "recover" /\ service # "stopped" => asked
          /\ v = [u EXCEPT !.pc = at, !.mutated = at = "recover", !.transition = asked]
          /\ \/ asked /\ service' = "stopped"
             \/ (asked => at = "undo") /\ UNCHANGED service
    BY DEF StopService
  <1>3. /\ v \in Contexts /\ v.pc = at
        /\ v.found = u.found /\ v.ran = u.ran /\ v.backup = u.backup
        /\ v.mutated = (at = "recover") /\ v.transition = asked
        /\ v.routed = u.routed /\ v.journal = u.journal /\ v.clean = u.clean
    <2>1. PICK m \in BOOLEAN : m = (at = "recover")
      <3>1. (at = "recover") \in BOOLEAN
        OBVIOUS
      <3> QED
        BY <3>1, Zenon
    <2>2. v = [u EXCEPT !.pc = at, !.mutated = m, !.transition = asked]
      BY <1>2, <2>1, Zenon
    <2>3. /\ v \in Contexts /\ v.pc = at
          /\ v.found = u.found /\ v.ran = u.ran /\ v.backup = u.backup
          /\ v.mutated = m /\ v.transition = asked
          /\ v.routed = u.routed /\ v.journal = u.journal /\ v.clean = u.clean
      BY <1>1, <1>2, <2>2 DEF Contexts, Steps, Undoing
    <2> QED
      BY <2>1, <2>3, Zenon
  <1>4. ForwardOK
    BY DEF CInv
  <1> HIDE DEF v
  <1>5. ForwardOK'
    BY <1>1, <1>2, <1>3, <1>4 DEF v, ForwardOK, Finishing, Committing, Committed, Unrouted,
       Merged, Installed, Started, Steps
  <1>6. BackwardOK'
    <2>1. u.found.files \in Trees /\ "none" \notin Trees
      BY <1>1, DiskRow, ContextRow DEF Trees, Releases
    <2>2. /\ u.clean /\ u.backup = u.found.files /\ ~u.routed
          /\ disk.routes = u.found.routes /\ disk.files = u.found.files
          /\ disk.deps = u.found.deps /\ service = u.ran
      BY <1>1, <1>4 DEF ForwardOK, Unrouted, Steps
    <2>3. at = "undo" => v.mutated = FALSE
      BY <1>3 DEF v
    <2>4. v.pc \in Undoing => at = "undo"
      BY <1>2, <1>3 DEF v, Undoing
    <2>5. u.ran = "stopped" => service' = "stopped"
      BY <1>2, <2>2
    <2>6. ~v.transition => service' = service
      BY <1>2, <1>3 DEF v
    <2> QED
      BY <1>1, <1>3, <2>1, <2>2, <2>3, <2>4, <2>5, <2>6 DEF v, BackwardOK, Undoing
  <1> QED
    BY <1>1, <1>2, <1>3, <1>5, <1>6, Moves DEF v, CInv, CTypes, Steps, Undoing

\* A step that changes the disk only, and whose context moves on or to the rollback.
LEMMA MergeKeeps == ASSUME CInv, SmartMerge PROVE CInv'
  <1> DEFINE u == upgrade
             v == upgrade'
  <1>1. /\ u.pc = "merge" /\ u \in Contexts /\ disk \in Disk /\ service \in Trees \cup {"stopped"}
        /\ UNCHANGED <<baseline, meta, service, command, report, attempts, crashes>>
    BY DEF SmartMerge, CInv, CTypes, NoUpgrade
  <1>2. PICK at \in {"npm", "undo"}, files \in {"new", "mixed"} :
          /\ v = [u EXCEPT !.pc = at] /\ disk' = [disk EXCEPT !.files = files]
          /\ at = "npm" => files = "new"
    BY DEF SmartMerge
  <1>3. v \in Contexts /\ v.pc \in {"npm", "undo"} /\ v.pc = at /\ Same(v, u)
    BY <1>1, <1>2, Placed DEF Places, Steps, Undoing
  <1>10. /\ disk' \in Disk /\ disk'.deps = disk.deps
         /\ disk'.data = disk.data /\ disk'.routes = disk.routes
         /\ v.pc = "npm" => disk'.files = "new"
    <2>1. files \in Trees
      BY <1>2 DEF Trees, Releases
    <2>2. disk' \in Disk /\ disk'.files = files /\ disk'.deps = disk.deps
          /\ disk'.data = disk.data /\ disk'.routes = disk.routes
      BY <1>1, <1>2, <2>1, DiskRow
    <2>3. v.pc = "npm" => files = "new"
      <3> HIDE DEF v
      <3> QED
        BY <1>2, <1>3
    <2> QED
      BY <2>2, <2>3
  <1>4. ForwardOK
    BY DEF CInv
  <1>5. ForwardOK'
    BY <1>1, <1>3, <1>10, <1>4 DEF ForwardOK, Finishing, Committing, Committed, Unrouted, Merged,
       Installed, Started, Steps, Same
  <1>6. BackwardOK'
    <2>1. u.found.files \in Trees /\ "none" \notin Trees
      BY <1>1, DiskRow, ContextRow DEF Trees, Releases
    <2> QED
      BY <1>1, <1>3, <1>10, <1>4, <2>1 DEF Unrouted, ForwardOK, BackwardOK, Steps, Undoing, Same
  <1> QED
    BY <1>1, <1>3, <1>10, <1>5, <1>6, Moves DEF CInv, CTypes, Steps, Undoing, Same

LEMMA NpmKeeps == ASSUME CInv, NpmInstall PROVE CInv'
  <1> DEFINE u == upgrade
             v == upgrade'
  <1>1. /\ u.pc = "npm" /\ u \in Contexts /\ disk \in Disk /\ service \in Trees \cup {"stopped"}
        /\ UNCHANGED <<baseline, meta, service, command, report, attempts, crashes>>
    BY DEF NpmInstall, CInv, CTypes, NoUpgrade
  <1>2. PICK at \in {"routes", "undo"}, deps \in Leaves(disk.deps, "new") :
          /\ at = "routes" => deps = "new"
          /\ v = [u EXCEPT !.pc = at] /\ disk' = [disk EXCEPT !.deps = deps]
    BY DEF NpmInstall
  <1>3. v \in Contexts /\ v.pc = at /\ Same(v, u)
    BY <1>1, <1>2, Placed DEF Places, Steps, Undoing
  <1>4. /\ disk' \in Disk /\ disk'.deps = deps /\ disk'.files = disk.files
        /\ disk'.data = disk.data /\ disk'.routes = disk.routes
    <2>1. disk.deps \in Trees
      BY <1>1, DiskRow
    <2>2. deps \in Trees
      BY <1>2, <2>1 DEF Leaves, Trees, Releases
    <2> QED
      BY <1>1, <1>2, <2>2, DiskRow
  <1>5. ForwardOK
    BY DEF CInv
  <1> HIDE DEF v
  <1>6. ForwardOK'
    BY <1>1, <1>2, <1>3, <1>4, <1>5 DEF v, ForwardOK, Finishing, Committing, Committed, Unrouted,
       Merged, Installed, Started, Steps, Same
  <1>7. BackwardOK'
    <2>1. u.found.files \in Trees /\ "none" \notin Trees
      BY <1>1, DiskRow, ContextRow DEF Trees, Releases
    <2> QED
      BY <1>1, <1>3, <1>4, <1>5, <2>1 DEF v, Unrouted, ForwardOK, BackwardOK, Steps, Undoing, Same
  <1> QED
    BY <1>1, <1>3, <1>4, <1>6, <1>7, Moves DEF v, CInv, CTypes, Steps, Undoing, Same

LEMMA RoutesKeep == ASSUME CInv, UpdateCaddyRoutes PROVE CInv'
  <1> DEFINE u == upgrade
             v == upgrade'
  <1>1. /\ u.pc = "routes" /\ u \in Contexts /\ disk \in Disk /\ service \in Trees \cup {"stopped"}
        /\ UNCHANGED <<baseline, meta, service, command, report, attempts, crashes>>
    BY DEF UpdateCaddyRoutes, CInv, CTypes, NoUpgrade
  <1>2. PICK at \in {"postHook", "undo"}, routed \in BOOLEAN :
          /\ v = [u EXCEPT !.pc = at, !.routed = routed]
          /\ disk' = [disk EXCEPT !.routes = IF routed THEN "new" ELSE @]
    BY DEF UpdateCaddyRoutes
  <1>3. /\ v \in Contexts /\ v.pc = at
        /\ v.found = u.found /\ v.ran = u.ran /\ v.backup = u.backup
        /\ at \in {"postHook", "undo"}
        /\ v.transition = u.transition /\ v.mutated = u.mutated /\ v.routed = routed
        /\ v.journal = u.journal /\ v.clean = u.clean
    BY <1>1, <1>2 DEF Contexts, Steps, Undoing
  <1>4. /\ disk' \in Disk /\ disk'.deps = disk.deps /\ disk'.files = disk.files
        /\ disk'.data = disk.data
        /\ ~routed => disk'.routes = disk.routes
    BY <1>1, <1>2 DEF Disk, Trees, Releases
  <1>5. ForwardOK /\ ~u.routed
    BY <1>1 DEF CInv, ForwardOK, Unrouted, Steps
  <1> HIDE DEF v
  <1>6. ForwardOK'
    BY <1>1, <1>3, <1>4, <1>5 DEF v, ForwardOK, Finishing, Committing, Committed, Unrouted, Merged,
       Installed, Started, Steps, Same
  <1>7. BackwardOK'
    <2>1. u.found.files \in Trees /\ "none" \notin Trees
      BY <1>1, DiskRow, ContextRow DEF Trees, Releases
    <2> QED
      BY <1>1, <1>3, <1>4, <1>5, <2>1 DEF v, Unrouted, ForwardOK, BackwardOK, Steps, Undoing
  <1> QED
    BY <1>1, <1>3, <1>4, <1>6, <1>7, Moves DEF v, CInv, CTypes, Steps, Undoing

LEMMA StartServiceKeeps == ASSUME CInv, StartService PROVE CInv'
  <1> DEFINE u == upgrade
             v == upgrade'
  <1>1. /\ u.pc = "start" /\ u \in Contexts /\ disk \in Disk /\ service \in Trees \cup {"stopped"}
        /\ UNCHANGED <<disk, baseline, meta, command, report, attempts, crashes>>
    BY DEF StartService, CInv, CTypes, NoUpgrade
  <1>2. PICK at \in {"postcheck", "undo"} :
          /\ v = [u EXCEPT !.pc = at]
          /\ IF u.ran = "stopped" THEN service' = service
             ELSE \/ service' = disk.files
                  \/ at = "undo" /\ service' = service
    BY DEF StartService
  <1>3. v \in Contexts /\ v.pc = at /\ Same(v, u)
    BY <1>1, <1>2, Placed DEF Places, Steps, Undoing
  <1>4. service' \in Trees \cup {"stopped"}
    BY <1>1, <1>2, DiskRow
  <1>5. ForwardOK
    BY DEF CInv
  <1> HIDE DEF v
  <1>6. ForwardOK'
    BY <1>1, <1>2, <1>3, <1>5 DEF v, ForwardOK, Finishing, Committing, Committed, Unrouted, Merged,
       Installed, Started, Steps, Same, AsNew
  <1>7. BackwardOK'
    <2>1. u.found.files \in Trees /\ "none" \notin Trees
      BY <1>1, DiskRow, ContextRow DEF Trees, Releases
    <2> QED
      BY <1>1, <1>2, <1>3, <1>5, <2>1 DEF v, Unrouted, ForwardOK, BackwardOK, Steps, Undoing, Same
  <1> QED
    BY <1>1, <1>3, <1>4, <1>6, <1>7, Moves DEF v, CInv, CTypes, Steps, Undoing, Same

\* The check before the commit, and the steps before it that throw.
LEMMA QuietKeeps ==
    ASSUME CInv, Postcheck \/ Throws("journal")
    PROVE  CInv'
  <1> DEFINE u == upgrade
             v == upgrade'
  <1>1. /\ u.pc \in {"postcheck", "journal"}
        /\ u \in Contexts /\ disk \in Disk /\ service \in Trees \cup {"stopped"}
        /\ UNCHANGED <<disk, service, baseline, meta, command, report, attempts, crashes>>
        /\ \E at \in {"journal", "undo"} :
              v = [u EXCEPT !.pc = at] /\ (u.pc = "postcheck" \/ at = "undo")
    BY DEF Postcheck, After, Throws, CInv, CTypes, NoUpgrade
  <1>2. PICK at \in {"journal", "undo"} :
           v = [u EXCEPT !.pc = at] /\ (u.pc = "postcheck" \/ at = "undo")
    BY <1>1
  <1>3. v \in Contexts /\ v.pc = at /\ Same(v, u)
    BY <1>1, <1>2, Placed DEF Places, Steps, Undoing
  <1>4. ForwardOK
    BY DEF CInv
  <1> HIDE DEF v
  <1>5. ForwardOK'
    BY <1>1, <1>2, <1>3, <1>4 DEF v, ForwardOK, Finishing, Committing, Committed, Unrouted, Merged,
       Installed, Started, Steps, Same, AsNew
  <1>6. BackwardOK'
    <2>1. u.found.files \in Trees /\ "none" \notin Trees
      BY <1>1, DiskRow, ContextRow DEF Trees, Releases
    <2>2. /\ u.mutated /\ u.backup = u.found.files
          /\ ~u.routed => disk.routes = u.found.routes
          /\ u.ran = "stopped" => service = "stopped"
      BY <1>1, <1>4 DEF ForwardOK, Steps
    <2>3. v.pc \in Undoing => v.pc = "undo"
      BY <1>2, <1>3 DEF v, Undoing
    <2> QED
      BY <1>1, <1>3, <2>1, <2>2, <2>3 DEF v, BackwardOK, Same
  <1> QED
    BY <1>1, <1>3, <1>5, <1>6, Moves DEF v, CInv, CTypes, Steps, Undoing, Same

\* Where the steps of the baseline lead, and what they may do to its manifest.
BaselineGoes(u, at) ==
    \/ u.pc = "recover" /\ at \in {"recover", "undo", IF u.journal THEN "stage" ELSE "merge"}
    \/ u.pc = "stage" /\ at \in {"copy", "undo"}
    \/ u.pc = "copy" /\ at \in {"commit", "undo"}
    \/ u.pc = "commit" /\ at \in {"swap", "undo"}
    \/ u.pc = "swap" /\ at = "inspect"

LEMMA BaselineStep ==
    ASSUME CInv, NEW at, NEW change, BaselineMoves(at, change), BaselineGoes(upgrade, at),
           change \in Baselines,
           change.manifest = (IF at = "swap" THEN "new" ELSE baseline.manifest),
           upgrade' \in Contexts => BaselineOK'
    PROVE  CInv'
  <1> DEFINE u == upgrade
             v == upgrade'
  <1>1. /\ u \in Contexts /\ disk \in Disk /\ service \in Trees \cup {"stopped"}
        /\ meta \in Metas /\ report = NoResult
        /\ u.pc \in {"recover", "stage", "copy", "commit", "swap"}
        /\ UNCHANGED <<disk, meta, service, command, report, attempts, crashes>>
    BY DEF BaselineMoves, BaselineGoes, CInv, CTypes, NoUpgrade, ReportOK, Active
  <1>2. v = [u EXCEPT !.pc = at] /\ baseline' = change
    BY DEF BaselineMoves
  <1>3. v \in Contexts /\ v.pc = at /\ Same(v, u)
    BY <1>1, <1>2, Placed DEF BaselineGoes, Places, Steps, Undoing, Finishing
  <1>4. /\ ForwardOK /\ MetaOK
        /\ Active => (baseline.manifest = "new") = (upgrade.pc \in Committed)
    BY DEF CInv, BaselineOK
  <1> HIDE DEF v
  <1>5. CTypes'
    BY <1>1, <1>2, <1>3 DEF v, CInv, CTypes
  <1>6. MetaOK'
    <2>1. u.journal \in BOOLEAN /\ baseline.manifest \in Releases /\ u.pc # "idle"
      BY <1>1, ContextRow DEF CInv, CTypes, Baselines
    <2>2. baseline'.manifest = IF at = "swap" THEN "new" ELSE baseline.manifest
      BY <1>2
    <2>3. MetadataFollowsBaseline'
      BY <1>1, <1>4, <2>1, <2>2 DEF MetaOK, MetadataFollowsBaseline, Releases
    <2>4. MarkedAt(upgrade.pc)' /\ MarkedAt(command)'
      BY <1>1, <1>3, <1>4, <2>1, <2>2 DEF v, MetaOK, MarkedAt, BaselineGoes, Finishing, Releases
    <2>5. u.pc = "commit" => meta.journal
      BY <1>4, <2>1 DEF MetaOK, Active, Committing, Committed, Finishing, Releases
    <2>6. baseline'.manifest = "new" =>
             meta'.journal \/ (meta'.marker = "new" /\ meta'.registry = "new")
      BY <1>1, <1>3, <1>4, <2>2, <2>5 DEF MetaOK, BaselineGoes
    <2>7. baseline'.manifest = "old" => meta'.journal = v.journal
      BY <1>1, <1>3, <1>4, <2>1, <2>2 DEF MetaOK, Active, Same, Releases
    <2>8. v.pc \in Committing => v.journal
      BY <1>1, <1>3, <1>4, <2>1 DEF MetaOK, BaselineGoes, Committing, Committed, Finishing, Same
    <2> QED
      BY <2>3, <2>4, <2>6, <2>7, <2>8 DEF v, MetaOK
  <1>7. ForwardOK'
    BY <1>1, <1>3, <1>4 DEF v, BaselineGoes, ForwardOK, Finishing, Committing, Committed,
       Unrouted, Merged, Installed, Started, Steps, Same, AsNew
  <1>8. BackwardOK'
    <2>1. u.found.files \in Trees /\ "none" \notin Trees
      BY <1>1, DiskRow, ContextRow DEF Trees, Releases
    <2> QED
      BY <1>1, <1>3, <1>4, <2>1 DEF v, BaselineGoes, Unrouted, ForwardOK, BackwardOK, Steps,
         Undoing, Same
  <1>9. ReportOK'
    BY <1>1 DEF ReportOK, UpgradeIsWhole, RollbackRestores, SuccessIsWhole, NoResult
  <1> QED
    BY <1>3, <1>5, <1>6, <1>7, <1>8, <1>9 DEF v, CInv

LEMMA BaselineRow ==
    ASSUME NEW b \in Baselines
    PROVE  /\ b.manifest \in Releases /\ b.originals \in {"old", "new", "gone"}
           /\ b.tmp \in BOOLEAN /\ b.staged \in {"none", "mixed", "new"}
  BY DEF Baselines

LEMMA RecoverKeeps == ASSUME CInv, RecoverBaseline PROVE CInv'
  <1> DEFINE b == baseline
  <1>1. /\ upgrade.pc = "recover" /\ upgrade \in Contexts /\ b \in Baselines
        /\ b.manifest = IF ~b.tmp /\ b.staged # "none" THEN b.staged ELSE b.originals
        /\ b.manifest = "old" /\ upgrade.journal \in BOOLEAN
    BY DEF BaselineIsWhole, RecoverBaseline, CInv, CTypes, NoUpgrade, BaselineOK, Active,
       Committed, Finishing, Baselines, Releases, Contexts
  <1> DEFINE Whole(c) ==
            c.manifest = IF ~c.tmp /\ c.staged # "none" THEN c.staged ELSE c.originals
  <1>2. ASSUME NEW at \in {"recover", IF upgrade.journal THEN "stage" ELSE "merge"}, NEW change,
               BaselineMoves(at, change), change \in Baselines,
               change.manifest = b.manifest, Whole(change),
               at # "recover" => change = b /\ ~b.tmp /\ b.staged = "none"
        PROVE  CInv'
    <2>1. baseline' = change /\ upgrade' = [upgrade EXCEPT !.pc = at]
      BY <1>2 DEF BaselineMoves
    <2>2. upgrade'.pc = at
      BY <1>1, <2>1 DEF Contexts
    <2>3. BaselineOK'
      BY <1>1, <1>2, <2>1, <2>2 DEF BaselineOK, BaselineIsWhole, Active, Committed, Finishing
    <2> QED
      BY <1>1, <1>2, <2>3, BaselineStep DEF BaselineGoes
  <1>3. CASE b.tmp /\ b.staged # "none" /\ BaselineMoves("recover", [b EXCEPT !.staged = "none"])
    <2> DEFINE change == [b EXCEPT !.staged = "none"]
    <2>1. BaselineMoves("recover", change)
      BY <1>3
    <2>2. change \in Baselines /\ change.manifest = b.manifest /\ Whole(change)
      BY <1>1, <1>3 DEF Baselines, Releases
    <2> HIDE DEF change
    <2> QED
      BY <1>2, <2>1, <2>2
  <1>4. CASE b.tmp /\ b.staged = "none" /\ BaselineMoves("recover", [b EXCEPT !.tmp = FALSE])
    <2> DEFINE change == [b EXCEPT !.tmp = FALSE]
    <2>1. BaselineMoves("recover", change)
      BY <1>4
    <2>2. change \in Baselines /\ change.manifest = b.manifest /\ Whole(change)
      BY <1>1, <1>4 DEF Baselines, Releases
    <2> HIDE DEF change
    <2> QED
      BY <1>2, <2>1, <2>2
  <1>5. CASE /\ ~b.tmp /\ b.staged # "none" /\ b.originals # "gone"
             /\ BaselineMoves("recover", [b EXCEPT !.originals = "gone"])
    <2> DEFINE change == [b EXCEPT !.originals = "gone"]
    <2>1. BaselineMoves("recover", change)
      BY <1>5
    <2>2. change \in Baselines /\ change.manifest = b.manifest /\ Whole(change)
      BY <1>1, <1>5 DEF Baselines, Releases
    <2> HIDE DEF change
    <2> QED
      BY <1>2, <2>1, <2>2
  <1>6. CASE /\ ~b.tmp /\ b.staged # "none" /\ b.originals = "gone"
             /\ BaselineMoves("recover", [b EXCEPT !.originals = b.staged, !.staged = "none"])
    <2> DEFINE change == [b EXCEPT !.originals = b.staged, !.staged = "none"]
    <2>1. BaselineMoves("recover", change)
      BY <1>6
    <2>2. change \in Baselines /\ change.manifest = b.manifest /\ Whole(change)
      BY <1>1, <1>6 DEF Baselines, Releases
    <2> HIDE DEF change
    <2> QED
      BY <1>2, <2>1, <2>2
  <1>7. CASE /\ ~b.tmp /\ b.staged = "none"
             /\ BaselineMoves(IF upgrade.journal THEN "stage" ELSE "merge", b)
    BY <1>1, <1>2, <1>7 DEF BaselineIsWhole
  <1> QED
    BY <1>3, <1>4, <1>5, <1>6, <1>7 DEF RecoverBaseline

\* What a recovery that fails or dies leaves is still recovered to the live release.
LEMMA HalfRecoveredRow ==
    ASSUME baseline \in Baselines, BaselineIsWhole, NEW left \in HalfRecovered
    PROVE  /\ left \in Baselines /\ left.manifest = baseline.manifest
           /\ left.manifest = IF ~left.tmp /\ left.staged # "none" THEN left.staged
                              ELSE left.originals
  <1>1. CASE left = baseline
    BY <1>1 DEF BaselineIsWhole
  <1>2. CASE baseline.tmp /\ left = [baseline EXCEPT !.staged = "mixed"]
    <2>1. /\ left \in Baselines /\ left.manifest = baseline.manifest
          /\ left.originals = baseline.originals /\ left.tmp = baseline.tmp
      BY <1>2 DEF Baselines
    <2> QED
      BY <1>2, <2>1 DEF BaselineIsWhole
  <1> QED
    BY <1>1, <1>2 DEF HalfRecovered

LEMMA RecoveryFailsKeeps == ASSUME CInv, RecoveryFails PROVE CInv'
  <1>1. PICK left \in HalfRecovered : BaselineMoves("undo", left)
    BY DEF RecoveryFails
  <1>2. /\ upgrade.pc = "recover" /\ upgrade \in Contexts /\ baseline \in Baselines
        /\ BaselineIsWhole
    BY DEF RecoveryFails, CInv, CTypes, NoUpgrade, BaselineOK
  <1>3. /\ left \in Baselines /\ left.manifest = baseline.manifest
        /\ left.manifest = IF ~left.tmp /\ left.staged # "none" THEN left.staged
                           ELSE left.originals
    BY <1>2, HalfRecoveredRow
  <1>4. baseline' = left /\ upgrade' = [upgrade EXCEPT !.pc = "undo"]
    BY <1>1 DEF BaselineMoves
  <1>5. upgrade'.pc = "undo"
    BY <1>2, <1>4 DEF Contexts
  <1>6. baseline.manifest = "old"
    BY <1>2, BaselineRow DEF CInv, BaselineOK, Active, Committed, Finishing, Releases
  <1>7. BaselineOK'
    <2>1. BaselineIsWhole'
      BY <1>3, <1>4, Zenon DEF BaselineIsWhole
    <2>2. baseline'.manifest = "old"
      BY <1>3, <1>4, <1>6
    <2> QED
      BY <1>5, <2>1, <2>2 DEF BaselineOK, Active, Committed, Finishing
  <1> QED
    BY <1>1, <1>2, <1>3, <1>7, BaselineStep DEF BaselineGoes

\* What is staged is never taken for originals while its mark is there.
LEMMA StagingFails ==
    ASSUME CInv, upgrade.pc \in {"stage", "copy", "commit"}, NEW left,
           BaselineMoves("undo", left), left \in Baselines, left.manifest = baseline.manifest,
           left.originals = baseline.originals, left.tmp \/ left.staged = "none"
    PROVE  CInv'
  <1>1. /\ upgrade \in Contexts /\ baseline.manifest = baseline.originals
    BY DEF CInv, CTypes, NoUpgrade, BaselineOK, BaselineIsWhole
  <1>2. baseline' = left /\ upgrade' = [upgrade EXCEPT !.pc = "undo"]
    BY DEF BaselineMoves
  <1>3. upgrade'.pc = "undo"
    BY <1>1, <1>2 DEF Contexts
  <1>4. baseline.manifest = "old"
    BY <1>1, BaselineRow DEF CInv, CTypes, BaselineOK, Active, Committed, Finishing, Releases
  <1>5. BaselineOK'
    BY <1>1, <1>2, <1>3, <1>4 DEF BaselineOK, BaselineIsWhole, Active, Committed, Finishing
  <1> QED
    BY <1>5, BaselineStep DEF BaselineGoes

LEMMA DiscardedRow ==
    ASSUME baseline \in Baselines, NEW staged \in SUBSET {"mixed", "new"},
           NEW left \in Discarded(staged)
    PROVE  /\ left \in Baselines /\ left.manifest = baseline.manifest
           /\ left.originals = baseline.originals /\ (left.tmp \/ left.staged = "none")
  <1>1. CASE left = [baseline EXCEPT !.staged = "none", !.tmp = FALSE]
    BY <1>1 DEF Baselines
  <1>2. ASSUME NEW s \in {"none", "mixed", "new"},
               left = [baseline EXCEPT !.staged = s, !.tmp = TRUE]
        PROVE  /\ left \in Baselines /\ left.manifest = baseline.manifest
               /\ left.originals = baseline.originals /\ (left.tmp \/ left.staged = "none")
    BY <1>2 DEF Baselines
  <1> QED
    BY <1>1, <1>2 DEF Discarded

LEMMA StageKeeps == ASSUME CInv, Stage PROVE CInv'
  <1>1. /\ upgrade.pc = "stage" /\ upgrade \in Contexts /\ baseline \in Baselines
        /\ ~baseline.tmp /\ baseline.staged = "none" /\ baseline.manifest = "old"
        /\ baseline.manifest = baseline.originals
    BY BaselineRow DEF Stage, CInv, CTypes, NoUpgrade, BaselineOK, BaselineIsWhole, Active,
       Committed, Finishing, Releases
  <1>2. CASE BaselineMoves("copy", [baseline EXCEPT !.tmp = TRUE])
    <2> DEFINE change == [baseline EXCEPT !.tmp = TRUE]
    <2>1. /\ change \in Baselines /\ change.manifest = "old" /\ change.originals = "old"
          /\ change.tmp = TRUE /\ change.staged = "none"
      BY <1>1 DEF Baselines
    <2>2. BaselineMoves("copy", change)
      BY <1>2
    <2> HIDE DEF change
    <2>3. baseline' = change /\ upgrade' = [upgrade EXCEPT !.pc = "copy"]
      BY <2>2 DEF BaselineMoves
    <2>4. upgrade'.pc = "copy"
      BY <1>1, <2>3 DEF Contexts
    <2>5. BaselineOK'
      BY <2>1, <2>3, <2>4 DEF BaselineOK, BaselineIsWhole, Active, Committed, Finishing
    <2> QED
      BY <1>1, <2>1, <2>2, <2>5, BaselineStep DEF BaselineGoes
  <1>3. ASSUME NEW left \in Discarded({}), BaselineMoves("undo", left)
        PROVE  CInv'
    BY <1>1, <1>3, DiscardedRow, StagingFails
  <1> QED
    BY <1>2, <1>3 DEF Stage

LEMMA CopyKeeps == ASSUME CInv, CopyOriginals PROVE CInv'
  <1>1. /\ upgrade.pc = "copy" /\ upgrade \in Contexts /\ baseline \in Baselines
        /\ baseline.tmp = TRUE /\ baseline.staged = "none" /\ baseline.manifest = "old"
        /\ baseline.manifest = baseline.originals
    BY BaselineRow DEF CopyOriginals, CInv, CTypes, NoUpgrade, BaselineOK, BaselineIsWhole, Active,
       Committed, Finishing, Releases
  <1>2. CASE BaselineMoves("commit", [baseline EXCEPT !.staged = "new"])
    <2> DEFINE change == [baseline EXCEPT !.staged = "new"]
    <2>1. /\ change \in Baselines /\ change.manifest = "old" /\ change.originals = "old"
          /\ change.tmp = TRUE /\ change.staged = "new"
      BY <1>1 DEF Baselines
    <2>2. BaselineMoves("commit", change)
      BY <1>2
    <2> HIDE DEF change
    <2>3. baseline' = change /\ upgrade' = [upgrade EXCEPT !.pc = "commit"]
      BY <2>2 DEF BaselineMoves
    <2>4. upgrade'.pc = "commit"
      BY <1>1, <2>3 DEF Contexts
    <2>5. BaselineOK'
      BY <2>1, <2>3, <2>4 DEF BaselineOK, BaselineIsWhole, Active, Committed, Finishing
    <2> QED
      BY <1>1, <2>1, <2>2, <2>5, BaselineStep DEF BaselineGoes
  <1>3. ASSUME NEW left \in Discarded({"mixed"}), BaselineMoves("undo", left)
        PROVE  CInv'
    BY <1>1, <1>3, DiscardedRow, StagingFails
  <1> QED
    BY <1>2, <1>3 DEF CopyOriginals

LEMMA CommitKeeps == ASSUME CInv, CommitBaseline PROVE CInv'
  <1>1. /\ upgrade.pc = "commit" /\ upgrade \in Contexts /\ baseline \in Baselines
        /\ baseline.tmp = TRUE /\ baseline.staged = "new" /\ baseline.manifest = "old"
        /\ baseline.manifest = baseline.originals
    BY BaselineRow DEF CommitBaseline, CInv, CTypes, NoUpgrade, BaselineOK, BaselineIsWhole, Active,
       Committed, Finishing, Releases
  <1>2. CASE BaselineMoves("swap", [baseline EXCEPT !.manifest = "new", !.tmp = FALSE])
    <2> DEFINE change == [baseline EXCEPT !.manifest = "new", !.tmp = FALSE]
    <2>1. /\ change \in Baselines /\ change.manifest = "new" /\ change.originals = "old"
          /\ change.tmp = FALSE /\ change.staged = "new"
      BY <1>1 DEF Baselines, Releases
    <2>2. BaselineMoves("swap", change)
      BY <1>2
    <2> HIDE DEF change
    <2>3. baseline' = change /\ upgrade' = [upgrade EXCEPT !.pc = "swap"]
      BY <2>2 DEF BaselineMoves
    <2>4. upgrade'.pc = "swap"
      BY <1>1, <2>3 DEF Contexts
    <2>5. BaselineOK'
      BY <2>1, <2>3, <2>4 DEF BaselineOK, BaselineIsWhole, Active, Committed, Finishing
    <2> QED
      BY <1>1, <2>1, <2>2, <2>5, BaselineStep DEF BaselineGoes
  <1>3. ASSUME NEW left \in Discarded({"mixed", "new"}), BaselineMoves("undo", left)
        PROVE  CInv'
    BY <1>1, <1>3, DiscardedRow, StagingFails
  <1> QED
    BY <1>2, <1>3 DEF CommitBaseline

LEMMA SwapKeeps == ASSUME CInv, SwapOriginals PROVE CInv'
  <1>1. /\ upgrade.pc = "swap" /\ upgrade \in Contexts /\ baseline \in Baselines
        /\ baseline.tmp = FALSE /\ baseline.staged = "new" /\ baseline.manifest = "new"
    BY BaselineRow DEF SwapOriginals, CInv, CTypes, NoUpgrade, BaselineOK, BaselineIsWhole, Active,
       Committed, Finishing, Releases
  <1>2. PICK left : /\ BaselineMoves("inspect", left)
                    /\ left \in {[baseline EXCEPT !.originals = "new", !.staged = "none"],
                                 [baseline EXCEPT !.originals = "gone"], baseline}
    BY DEF SwapOriginals
  <1>3. /\ left \in Baselines /\ left.manifest = "new" /\ left.tmp = FALSE
        /\ left.manifest = IF left.staged # "none" THEN left.staged ELSE left.originals
    <2>1. CASE left = [baseline EXCEPT !.originals = "new", !.staged = "none"]
      BY <1>1, <2>1 DEF Baselines
    <2>2. CASE left = [baseline EXCEPT !.originals = "gone"]
      BY <1>1, <2>2 DEF Baselines
    <2>3. CASE left = baseline
      BY <1>1, <2>3
    <2> QED
      BY <1>2, <2>1, <2>2, <2>3
  <1>4. baseline' = left /\ upgrade' = [upgrade EXCEPT !.pc = "inspect"]
    BY <1>2 DEF BaselineMoves
  <1>5. upgrade'.pc = "inspect"
    BY <1>1, <1>4 DEF Contexts
  <1>6. BaselineOK'
    BY <1>3, <1>4, <1>5 DEF BaselineOK, BaselineIsWhole, Active, Committed, Finishing
  <1> QED
    BY <1>1, <1>2, <1>3, <1>6, BaselineStep DEF BaselineGoes

LEMMA MetaRow ==
    ASSUME NEW m \in Metas
    PROVE  /\ m.journal \in BOOLEAN /\ m.marker \in Releases /\ m.registry \in Releases
           /\ m.lock \in {"free", "upgrade", "command", "dead"}
  BY DEF Metas

LEMMA BeginKeeps == ASSUME CInv, BeginMetadata PROVE CInv'
  <1>1. CASE Throws("journal")
    BY <1>1, QuietKeeps
  <1>2. CASE ~Throws("journal")
    <2> DEFINE u == upgrade
               v == upgrade'
    <2>1. /\ u.pc = "journal" /\ u \in Contexts /\ meta \in Metas /\ report = NoResult
          /\ v = [u EXCEPT !.pc = "recover", !.journal = TRUE]
          /\ meta' = [meta EXCEPT !.journal = TRUE]
          /\ UNCHANGED <<disk, baseline, service, command, report, attempts, crashes>>
      BY <1>2 DEF BeginMetadata, CInv, CTypes, NoUpgrade, ReportOK, Active
    <2>2. /\ v \in Contexts /\ v.pc = "recover"
          /\ v.found = u.found /\ v.ran = u.ran /\ v.backup = u.backup
          /\ v.transition = u.transition /\ v.mutated = u.mutated /\ v.routed = u.routed
          /\ v.journal = TRUE /\ v.clean = u.clean
      BY <2>1 DEF Contexts, Steps
    <2>3. /\ meta' \in Metas /\ meta'.journal = TRUE /\ meta'.marker = meta.marker
          /\ meta'.registry = meta.registry
      BY <2>1 DEF Metas
    <2>4. /\ ForwardOK /\ MetaOK /\ BaselineOK
      BY DEF CInv
    <2> HIDE DEF v
    <2>5. CTypes'
      BY <2>1, <2>2, <2>3 DEF v, CInv, CTypes
    <2>6. BaselineOK'
      BY <2>1, <2>2, <2>4 DEF v, BaselineOK, BaselineIsWhole, Active, Committed, Finishing
    <2>7. MetaOK'
      BY <2>1, <2>2, <2>3, <2>4 DEF v, MetaOK, MetadataFollowsBaseline, MarkedAt, Finishing,
         Committing, Committed
    <2>8. ForwardOK'
      BY <2>1, <2>2, <2>4 DEF v, ForwardOK, Finishing, Committing, Committed, Unrouted, Merged,
         Installed, Started, Steps, AsNew
    <2>9. BackwardOK'
      BY <2>2 DEF v, BackwardOK, Undoing
    <2>10. ReportOK'
      BY <2>1 DEF ReportOK, UpgradeIsWhole, RollbackRestores, SuccessIsWhole, NoResult
    <2> QED
      BY <2>5, <2>6, <2>7, <2>8, <2>9, <2>10 DEF CInv
  <1> QED
    BY <1>1, <1>2

\* What either process makes of the metadata: it only names the new release, and removes the
\* journal only when it names it everywhere.
Advances(m, next) ==
    /\ m \in Metas
    /\ \/ m.journal = meta.journal
       \/ ~m.journal /\ baseline.manifest = "new" /\ m.marker = "new" /\ m.registry = "new"
    /\ m.marker \in {meta.marker, "new"} /\ m.registry \in {meta.registry, "new"}
    /\ "new" \in {m.marker, m.registry} => baseline.manifest = "new"
    /\ next \in Finishing \ {"inspect"} => baseline.manifest = "new"
    /\ next \in {"lock", "registry", "unlock", "drop"} => m.marker = "new"
    /\ next \in {"unlock", "drop"} => m.registry = "new"

LEMMA CommandAdvances ==
    ASSUME CInv, NEW next \in Finishing \cup {"idle"}, NEW m, Advances(m, next),
           meta' = m, command' = next, crashes' \in 0..MaxCrashes,
           UNCHANGED <<disk, baseline, service, upgrade, report, attempts>>
    PROVE  CInv'
  <1>1. CTypes'
    BY DEF CInv, CTypes, Advances
  <1>2. BaselineOK'
    BY DEF CInv, BaselineOK, BaselineIsWhole, Active
  <1>3. MetaOK'
    BY DEF CInv, MetaOK, MetadataFollowsBaseline, MarkedAt, Advances, Active
  <1>4. ForwardOK' /\ BackwardOK'
    BY DEF CInv, ForwardOK, BackwardOK, AsNew
  <1>5. ReportOK'
    <2>1. SuccessIsWhole'
      BY DEF CInv, MetaOK, ReportOK, UpgradeIsWhole, SuccessIsWhole, Advances
    <2>2. RollbackRestores'
      BY DEF CInv, ReportOK, UpgradeIsWhole, RollbackRestores, Advances
    <2> QED
      BY <2>1, <2>2 DEF CInv, ReportOK, UpgradeIsWhole, Active
  <1> QED
    BY <1>1, <1>2, <1>3, <1>4, <1>5 DEF CInv

LEMMA UpgradeAdvances ==
    ASSUME CInv, upgrade.pc \in Finishing, NEW next \in Finishing \cup {"idle"},
           NEW m, Advances(m, next), meta' = m, Goes("upgrade", next), crashes' \in 0..MaxCrashes,
           UNCHANGED <<disk, baseline, service, attempts>>
    PROVE  CInv'
  <1> DEFINE u == upgrade
             v == upgrade'
  <1>1. /\ u \in Contexts /\ u.pc # "idle" /\ report = NoResult /\ command' = command
        /\ ForwardOK /\ BackwardOK /\ BaselineOK /\ MetaOK /\ baseline.manifest = "new"
    BY DEF Goes, CInv, CTypes, NoUpgrade, ReportOK, Active, BaselineOK, Committed, Finishing
  <1>2. CASE next # "idle"
    <2>1. v = [u EXCEPT !.pc = next] /\ report' = report /\ next \in Finishing
      BY <1>2 DEF Goes
    <2>2. v \in Contexts /\ v.pc = next /\ Same(v, u)
      BY <1>1, <2>1, Placed DEF Places
    <2> HIDE DEF v
    <2>3. CTypes'
      BY <1>1, <2>1, <2>2 DEF v, CInv, CTypes, Advances
    <2>4. BaselineOK'
      BY <1>1, <2>1, <2>2 DEF v, BaselineOK, BaselineIsWhole, Active, Committed, Finishing
    <2>5. MetaOK'
      BY <1>1, <2>1, <2>2 DEF v, MetaOK, MetadataFollowsBaseline, MarkedAt, Advances, Finishing,
         Committing, Committed, Same
    <2>6. ForwardOK'
      BY <1>1, <2>1, <2>2 DEF v, ForwardOK, Finishing, Committing, Committed, Unrouted, Merged,
         Installed, Started, Steps, Same, AsNew
    <2>7. BackwardOK'
      BY <2>1, <2>2 DEF v, BackwardOK, Undoing, Finishing
    <2>8. ReportOK'
      BY <1>1, <2>1 DEF ReportOK, UpgradeIsWhole, RollbackRestores, SuccessIsWhole, NoResult
    <2> QED
      BY <2>3, <2>4, <2>5, <2>6, <2>7, <2>8 DEF CInv
  <1>3. CASE next = "idle"
    <2>1. v = NoUpgrade /\ v.pc = "idle"
      BY <1>3 DEF Goes, NoUpgrade
    <2>2. PICK result \in {"success", "hold"} : Reports(result, TRUE)
      BY <1>3 DEF Goes
    <2>3. /\ report' \in Result /\ report'.result = result /\ report'.ran = u.ran
      BY <1>1, <2>2 DEF Reports, Result, Contexts
    <2> HIDE DEF v
    <2>4. CTypes'
      BY <1>1, <2>1, <2>3 DEF v, CInv, CTypes, Advances
    <2>5. BaselineOK'
      BY <1>1, <2>1 DEF v, BaselineOK, BaselineIsWhole, Active
    <2>6. MetaOK'
      BY <1>1, <2>1 DEF v, MetaOK, MetadataFollowsBaseline, MarkedAt, Advances, Active, Finishing,
         Committing, Committed
    <2>7. ForwardOK' /\ BackwardOK'
      BY <2>1 DEF v, ForwardOK, BackwardOK, Steps, Undoing, Finishing
    <2>8. ReportOK'
      <3>1. RollbackRestores'
        BY <2>2, <2>3 DEF RollbackRestores
      <3>2. SuccessIsWhole'
        <4>1. /\ disk.files = "new" /\ disk.deps = "new"
              /\ service = IF u.ran = "stopped" THEN "stopped" ELSE "new"
          BY <1>1 DEF ForwardOK, Merged, Installed, Started, Committing, Committed, AsNew, Finishing
        <4>2. meta'.journal \/ (meta'.marker = "new" /\ meta'.registry = "new")
          BY <1>1, <2>6 DEF MetaOK
        <4> QED
          BY <1>1, <2>3, <4>1, <4>2 DEF SuccessIsWhole
      <3> QED
        BY <2>1, <3>1, <3>2 DEF v, ReportOK, UpgradeIsWhole, Active
    <2> QED
      BY <2>4, <2>5, <2>6, <2>7, <2>8 DEF CInv
  <1> QED
    BY <1>2, <1>3

LEMMA Advance ==
    ASSUME CInv, NEW p \in Finishers, At(p) \in Finishing, NEW next \in Finishing \cup {"idle"},
           NEW m, Advances(m, next), meta' = m, Goes(p, next), crashes' \in 0..MaxCrashes,
           UNCHANGED <<disk, baseline, service, attempts>>
    PROVE  CInv'
  <1>1. CASE p = "command"
    <2>1. command' = next /\ UNCHANGED <<upgrade, report>>
      BY <1>1 DEF Goes
    <2> QED
      BY <2>1, CommandAdvances
  <1>2. CASE p = "upgrade"
    BY <1>2, UpgradeAdvances DEF At
  <1> QED
    BY <1>1, <1>2 DEF Finishers

LEMMA FinishKeeps == ASSUME CInv, NEW p \in Finishers, Finish(p) PROVE CInv'
  <1>1. /\ MarkedAt(At(p)) /\ meta \in Metas /\ MetadataFollowsBaseline
        /\ crashes \in 0..MaxCrashes /\ baseline.manifest \in Releases
    BY BaselineRow DEF CInv, CTypes, MetaOK, Finishers, At
  <1> USE DEF Finishing
  <1>2. CASE Inspect(p)
    <2>1. Advances(meta, IF baseline.manifest = "new" THEN "marker" ELSE "idle")
      BY <1>1 DEF Advances, MetadataFollowsBaseline
    <2> QED
      BY <1>1, <1>2, <2>1, Advance DEF Inspect, Finishes
  <1>3. CASE WriteMarker(p)
    <2> DEFINE m == [meta EXCEPT !.marker = "new"]
    <2>1. m \in Metas /\ m.journal = meta.journal /\ m.marker = "new" /\ m.registry = meta.registry
      BY <1>1 DEF Metas, Releases
    <2>2. At(p) = "marker" /\ meta' = m /\ Goes(p, "lock")
          /\ UNCHANGED <<disk, baseline, service, attempts, crashes>>
      BY <1>3 DEF WriteMarker, Finishes
    <2> HIDE DEF m
    <2>3. Advances(m, "lock")
      BY <1>1, <2>1, <2>2 DEF Advances, MarkedAt, MetadataFollowsBaseline
    <2> QED
      BY <1>1, <2>2, <2>3, Advance
  <1>4. CASE LockRegistry(p)
    <2> DEFINE m == [meta EXCEPT !.lock = p]
    <2>1. m \in Metas /\ m.journal = meta.journal /\ m.marker = meta.marker
          /\ m.registry = meta.registry
      BY <1>1 DEF Metas, Finishers
    <2>2. At(p) = "lock" /\ meta' = m /\ Goes(p, "registry")
          /\ UNCHANGED <<disk, baseline, service, attempts, crashes>>
      BY <1>4 DEF LockRegistry, Finishes
    <2> HIDE DEF m
    <2>3. Advances(m, "registry")
      BY <1>1, <2>1, <2>2 DEF Advances, MarkedAt, MetadataFollowsBaseline
    <2> QED
      BY <1>1, <2>2, <2>3, Advance
  <1>5. CASE WriteRegistry(p)
    <2> DEFINE m == [meta EXCEPT !.registry = "new"]
    <2>1. m \in Metas /\ m.journal = meta.journal /\ m.marker = meta.marker /\ m.registry = "new"
      BY <1>1 DEF Metas, Releases
    <2>2. At(p) = "registry" /\ meta' = m /\ Goes(p, "unlock")
          /\ UNCHANGED <<disk, baseline, service, attempts, crashes>>
      BY <1>5 DEF WriteRegistry, Finishes
    <2> HIDE DEF m
    <2>3. Advances(m, "unlock")
      BY <1>1, <2>1, <2>2 DEF Advances, MarkedAt, MetadataFollowsBaseline
    <2> QED
      BY <1>1, <2>2, <2>3, Advance
  <1>6. CASE UnlockRegistry(p)
    <2> DEFINE m == [meta EXCEPT !.lock = "free"]
    <2>1. m \in Metas /\ m.journal = meta.journal /\ m.marker = meta.marker
          /\ m.registry = meta.registry
      BY <1>1 DEF Metas
    <2>2. At(p) = "unlock" /\ meta' = m /\ Goes(p, "drop")
          /\ UNCHANGED <<disk, baseline, service, attempts, crashes>>
      BY <1>6 DEF UnlockRegistry, Finishes
    <2> HIDE DEF m
    <2>3. Advances(m, "drop")
      BY <1>1, <2>1, <2>2 DEF Advances, MarkedAt, MetadataFollowsBaseline
    <2> QED
      BY <1>1, <2>2, <2>3, Advance
  <1>7. CASE DropJournal(p)
    <2> DEFINE m == [meta EXCEPT !.journal = FALSE]
    <2>1. m \in Metas /\ m.journal = FALSE /\ m.marker = meta.marker /\ m.registry = meta.registry
      BY <1>1 DEF Metas
    <2>2. At(p) = "drop" /\ meta' = m /\ Goes(p, "idle")
          /\ UNCHANGED <<disk, baseline, service, attempts, crashes>>
      BY <1>7 DEF DropJournal, Finishes
    <2> HIDE DEF m
    <2>3. Advances(m, "idle")
      BY <1>1, <2>1, <2>2 DEF Advances, MarkedAt, MetadataFollowsBaseline
    <2> QED
      BY <1>1, <2>2, <2>3, Advance
  <1>8. CASE RegistryBusy(p)
    <2>1. Advances(meta, "idle")
      BY <1>1 DEF Advances, MetadataFollowsBaseline
    <2> QED
      BY <1>1, <1>8, <2>1, Advance DEF RegistryBusy, Finishes
  <1> QED
    BY <1>2, <1>3, <1>4, <1>5, <1>6, <1>7, <1>8 DEF Finish

LEMMA MetadataFailsKeeps == ASSUME CInv, NEW p \in Finishers, MetadataFails(p) PROVE CInv'
  <1>1. /\ meta \in Metas /\ MetadataFollowsBaseline
        /\ crashes' \in 0..MaxCrashes
    BY ComponentUpgradeAssumption DEF CInv, CTypes, MetaOK, MetadataFails
  <1> DEFINE m == [meta EXCEPT !.lock = IF @ = p THEN "free" ELSE @]
  <1>2. m \in Metas /\ m.journal = meta.journal /\ m.marker = meta.marker
        /\ m.registry = meta.registry
    BY <1>1 DEF Metas
  <1>3. At(p) \in Finishing /\ meta' = m /\ Goes(p, "idle")
        /\ UNCHANGED <<disk, baseline, service, attempts>>
    BY DEF MetadataFails
  <1> HIDE DEF m
  <1>4. Advances(m, "idle")
    BY <1>1, <1>2 DEF Advances, MetadataFollowsBaseline, Finishing
  <1> QED
    BY <1>1, <1>3, <1>4, Advance

LEMMA LoadKeeps == ASSUME CInv, LoadComponents PROVE CInv'
  <1>1. Advances(meta, "inspect")
    BY DEF CInv, CTypes, MetaOK, Advances, MetadataFollowsBaseline, Finishing
  <1> QED
    BY <1>1, CommandAdvances DEF LoadComponents, Finishing, CInv, CTypes

LEMMA KillCommandKeeps == ASSUME CInv, KillCommand PROVE CInv'
  <1>1. /\ meta \in Metas /\ MetadataFollowsBaseline /\ crashes' \in 0..MaxCrashes
    BY ComponentUpgradeAssumption DEF CInv, CTypes, MetaOK, KillCommand
  <1> DEFINE m == [meta EXCEPT !.lock = IF @ = "command" THEN "dead" ELSE @]
  <1>2. m \in Metas /\ m.journal = meta.journal /\ m.marker = meta.marker
        /\ m.registry = meta.registry
    BY <1>1 DEF Metas
  <1>3. /\ meta' = m /\ command' = "idle"
        /\ UNCHANGED <<disk, baseline, service, upgrade, report, attempts>>
    BY DEF KillCommand
  <1> HIDE DEF m
  <1>4. Advances(m, "idle")
    BY <1>1, <1>2 DEF Advances, MetadataFollowsBaseline, Finishing
  <1> QED
    BY <1>1, <1>3, <1>4, CommandAdvances

\* What v keeps of the context u when a part of the rollback is done, or fails.
SameUndone(v, u) ==
    /\ v.found = u.found /\ v.ran = u.ran /\ v.backup = u.backup
    /\ v.transition = u.transition /\ v.mutated = u.mutated /\ v.routed = u.routed
    /\ v.journal = u.journal

\* A part of the rollback that keeps BackwardOK keeps the invariant.
LEMMA UndoMoves ==
    ASSUME CInv, upgrade.pc \in Undoing, upgrade' \in Contexts, upgrade'.pc \in Undoing,
           SameUndone(upgrade', upgrade), disk' \in Disk, service' \in Trees \cup {"stopped"},
           UNCHANGED <<baseline, meta, command, report, attempts, crashes>>, BackwardOK'
    PROVE  CInv'
  <1>1. ForwardOK'
    BY DEF ForwardOK, Undoing, Steps, Finishing
  <1> QED
    BY <1>1, Moves DEF Undoing, SameUndone

LEMMA UndoKeeps == ASSUME CInv, Undo PROVE CInv'
  <1> DEFINE u == upgrade
             v == upgrade'
  <1>1. /\ u.pc = "undo" /\ u \in Contexts /\ disk \in Disk /\ service \in Trees \cup {"stopped"}
        /\ UNCHANGED <<disk, service, baseline, meta, command, report, attempts, crashes>>
        /\ BackwardOK
    BY DEF Undo, CInv, CTypes, NoUpgrade
  <1> DEFINE at == IF u.transition \/ u.mutated THEN "undoFiles"
                   ELSE IF u.backup # "none" THEN "undoData" ELSE "abort"
  <1>2. v = [u EXCEPT !.pc = at] /\ at \in Places /\ at \in Undoing
    BY DEF Undo, Places, Undoing
  <1> HIDE DEF at, v
  <1>3. v \in Contexts /\ v.pc = at /\ Same(v, u)
    BY <1>1, <1>2, Placed
  <1>4. BackwardOK'
    BY <1>1, <1>3 DEF v, at, BackwardOK, Undoing, Same
  <1> QED
    BY <1>1, <1>2, <1>3, <1>4, UndoMoves DEF v, Undoing, Same, SameUndone

LEMMA UndoesRow ==
    ASSUME CInv, NEW step \in Undoing, NEW next \in Undoing, NEW done, NEW left,
           Undoes(step, next, done, left)
    PROVE  /\ upgrade.pc = step /\ upgrade \in Contexts /\ disk \in Disk
           /\ service \in Trees \cup {"stopped"} /\ BackwardOK
           /\ upgrade' \in Contexts /\ upgrade'.pc = next /\ SameUndone(upgrade', upgrade)
           /\ \/ upgrade'.clean = upgrade.clean /\ disk' = done
              \/ upgrade'.clean = FALSE /\ disk' \in left
           /\ UNCHANGED <<baseline, meta, service, command, report, attempts, crashes>>
  <1>1. /\ upgrade.pc = step /\ upgrade \in Contexts /\ disk \in Disk /\ next \in Places
        /\ service \in Trees \cup {"stopped"} /\ BackwardOK
        /\ UNCHANGED <<baseline, meta, service, command, report, attempts, crashes>>
    BY DEF Undoes, CInv, CTypes, NoUpgrade, Undoing, Places
  <1>2. CASE disk' = done /\ upgrade' = [upgrade EXCEPT !.pc = next]
    BY <1>1, <1>2, Placed DEF Same, SameUndone
  <1>3. CASE disk' \in left /\ upgrade' = [upgrade EXCEPT !.pc = next, !.clean = FALSE]
    <2>1. upgrade' \in Contexts /\ upgrade'.pc = next /\ SameUndone(upgrade', upgrade)
          /\ upgrade'.clean = FALSE
      BY <1>1, <1>3 DEF Contexts, Places, SameUndone
    <2> QED
      BY <1>1, <1>3, <2>1
  <1> QED
    BY <1>1, <1>2, <1>3 DEF Undoes

LEMMA RestoreFilesKeeps == ASSUME CInv, RestoreFiles PROVE CInv'
  <1> DEFINE u == upgrade
             v == upgrade'
  <1>1. /\ u.pc = "undoFiles" /\ u \in Contexts /\ disk \in Disk
        /\ service \in Trees \cup {"stopped"} /\ BackwardOK
        /\ v \in Contexts /\ v.pc = "undoDeps" /\ SameUndone(v, u)
        /\ \/ v.clean = u.clean /\ disk' = [disk EXCEPT !.files = u.backup]
           \/ /\ v.clean = FALSE
              /\ disk' \in {[disk EXCEPT !.files = w] : w \in {disk.files, "mixed"}}
        /\ UNCHANGED <<baseline, meta, service, command, report, attempts, crashes>>
    BY UndoesRow DEF RestoreFiles, Undoing
  <1>2. u.backup = u.found.files /\ u.backup \in Trees /\ disk.files \in Trees
    BY <1>1, ContextRow, DiskRow DEF BackwardOK, Undoing
  <1>3. /\ disk' \in Disk /\ disk'.deps = disk.deps /\ disk'.data = disk.data
        /\ disk'.routes = disk.routes
        /\ v.clean => u.clean /\ disk'.files = u.backup
    <2>1. PICK w \in Trees : /\ disk' = [disk EXCEPT !.files = w]
                             /\ v.clean => u.clean /\ w = u.backup
      BY <1>1, <1>2 DEF Trees
    <2> QED
      BY <1>1, <2>1, DiskRow
  <1>4. BackwardOK'
    BY <1>1, <1>2, <1>3 DEF BackwardOK, Undoing, SameUndone
  <1> QED
    BY <1>1, <1>3, <1>4, UndoMoves DEF Undoing

LEMMA RestoreDependenciesKeeps == ASSUME CInv, RestoreDependencies PROVE CInv'
  <1> DEFINE u == upgrade
             v == upgrade'
  <1>1. /\ u.pc = "undoDeps" /\ u \in Contexts /\ disk \in Disk
        /\ service \in Trees \cup {"stopped"} /\ BackwardOK
        /\ v \in Contexts /\ v.pc = "undoData" /\ SameUndone(v, u)
        /\ \/ v.clean = u.clean /\ disk' = [disk EXCEPT !.deps = disk.files]
           \/ /\ v.clean = FALSE
              /\ disk' \in {[disk EXCEPT !.deps = w] : w \in {disk.deps, "mixed"}}
        /\ UNCHANGED <<baseline, meta, service, command, report, attempts, crashes>>
    BY UndoesRow DEF RestoreDependencies, Undoing
  <1>2. disk.files \in Trees /\ disk.deps \in Trees
    BY <1>1, DiskRow
  <1>3. /\ disk' \in Disk /\ disk'.files = disk.files /\ disk'.data = disk.data
        /\ disk'.routes = disk.routes
        /\ v.clean => u.clean /\ disk'.deps = disk.files
    <2>1. PICK w \in Trees : /\ disk' = [disk EXCEPT !.deps = w]
                             /\ v.clean => u.clean /\ w = disk.files
      BY <1>1, <1>2 DEF Trees
    <2> QED
      BY <1>1, <2>1, DiskRow
  <1>4. BackwardOK'
    BY <1>1, <1>3 DEF BackwardOK, Undoing, SameUndone
  <1> QED
    BY <1>1, <1>3, <1>4, UndoMoves DEF Undoing

LEMMA RestoreDataKeeps == ASSUME CInv, RestoreData PROVE CInv'
  <1> DEFINE u == upgrade
             v == upgrade'
             at == IF u.transition \/ u.mutated THEN "undoRoutes" ELSE "abort"
  <1>1. /\ u.pc = "undoData" /\ u \in Contexts /\ disk \in Disk
        /\ service \in Trees \cup {"stopped"} /\ BackwardOK
        /\ v \in Contexts /\ v.pc = at /\ at \in Undoing /\ SameUndone(v, u)
        /\ \/ v.clean = u.clean /\ disk' = [disk EXCEPT !.data = u.found.data]
           \/ /\ v.clean = FALSE
              /\ disk' \in {[disk EXCEPT !.data = w] : w \in {disk.data, "mixed"}}
        /\ UNCHANGED <<baseline, meta, service, command, report, attempts, crashes>>
    BY UndoesRow DEF RestoreData, Undoing
  <1>2. u.found.data \in Trees /\ disk.data \in Trees
    BY <1>1, DiskRow, ContextRow
  <1>3. /\ disk' \in Disk /\ disk'.files = disk.files /\ disk'.deps = disk.deps
        /\ disk'.routes = disk.routes
        /\ v.clean => u.clean /\ disk'.data = u.found.data
    <2>1. PICK w \in Trees : /\ disk' = [disk EXCEPT !.data = w]
                             /\ v.clean => u.clean /\ w = u.found.data
      BY <1>1, <1>2 DEF Trees
    <2> QED
      BY <1>1, <2>1, DiskRow
  <1>4. BackwardOK'
    BY <1>1, <1>3 DEF BackwardOK, Undoing, SameUndone
  <1> QED
    BY <1>1, <1>3, <1>4, UndoMoves DEF Undoing

LEMMA RestoreRoutesKeeps == ASSUME CInv, RestoreRoutes PROVE CInv'
  <1> DEFINE u == upgrade
             v == upgrade'
  <1>1. PICK contract \in IF u.backup = "mixed" THEN Releases ELSE {u.backup} :
          Undoes("undoRoutes", "undoService",
                 [disk EXCEPT !.routes = IF u.routed THEN contract ELSE @],
                 IF u.routed THEN {disk} ELSE {})
    BY DEF RestoreRoutes
  <1>2. /\ u.pc = "undoRoutes" /\ u \in Contexts /\ disk \in Disk
        /\ service \in Trees \cup {"stopped"} /\ BackwardOK
        /\ v \in Contexts /\ v.pc = "undoService" /\ SameUndone(v, u)
        /\ \/ v.clean = u.clean
              /\ disk' = [disk EXCEPT !.routes = IF u.routed THEN contract ELSE @]
           \/ v.clean = FALSE /\ disk' \in IF u.routed THEN {disk} ELSE {}
        /\ UNCHANGED <<baseline, meta, service, command, report, attempts, crashes>>
    BY <1>1, UndoesRow DEF Undoing
  <1>3. /\ u.backup = u.found.files /\ u.backup \in Trees /\ disk.routes \in Releases
        /\ contract \in Releases /\ Fits(contract, u.found.files)
    <2>1. u.backup = u.found.files /\ u.backup \in Trees /\ disk.routes \in Releases
      BY <1>2, ContextRow, DiskRow DEF BackwardOK, Undoing
    <2> QED
      BY <1>1, <2>1 DEF Fits, Trees
  <1>4. /\ disk' \in Disk /\ disk'.files = disk.files /\ disk'.deps = disk.deps
        /\ disk'.data = disk.data
        /\ v.clean => u.clean
        /\ ~u.routed => disk'.routes = disk.routes
        /\ v.clean /\ u.routed => disk'.routes = contract
    <2>1. CASE v.clean = u.clean
               /\ disk' = [disk EXCEPT !.routes = IF u.routed THEN contract ELSE @]
      BY <1>2, <1>3, <2>1 DEF Disk
    <2>2. CASE v.clean = FALSE /\ disk' \in IF u.routed THEN {disk} ELSE {}
      BY <1>2, <2>2
    <2> QED
      BY <1>2, <2>1, <2>2
  <1>5. BackwardOK'
    BY <1>2, <1>3, <1>4 DEF BackwardOK, Undoing, SameUndone
  <1> QED
    BY <1>2, <1>4, <1>5, UndoMoves DEF Undoing

LEMMA RestartServiceKeeps == ASSUME CInv, RestartService PROVE CInv'
  <1> DEFINE u == upgrade
             v == upgrade'
  <1>1. /\ u.pc = "undoService" /\ u \in Contexts /\ disk \in Disk
        /\ service \in Trees \cup {"stopped"} /\ BackwardOK
        /\ UNCHANGED <<disk, baseline, meta, command, report, attempts, crashes>>
    BY DEF RestartService, CInv, CTypes, NoUpgrade
  <1>2. /\ v \in Contexts /\ v.pc = "abort" /\ SameUndone(v, u) /\ (v.clean => u.clean)
        /\ \/ service' = (IF u.ran = "stopped" THEN service ELSE disk.files)
           \/ /\ u.ran # "stopped" /\ v.clean = FALSE
              /\ service' \in {service, disk.files, "stopped"}
    <2>1. CASE /\ v = [u EXCEPT !.pc = "abort"]
               /\ service' = IF u.ran = "stopped" THEN service ELSE disk.files
      BY <1>1, <2>1, Placed DEF Places, Undoing, Same, SameUndone
    <2>2. CASE /\ u.ran # "stopped" /\ v = [u EXCEPT !.pc = "abort", !.clean = FALSE]
               /\ service' \in {service, disk.files, "stopped"}
      <3>1. v \in Contexts /\ v.pc = "abort" /\ SameUndone(v, u) /\ v.clean = FALSE
        BY <1>1, <2>2 DEF Contexts, Undoing, SameUndone
      <3> QED
        BY <2>2, <3>1
    <2> QED
      BY <2>1, <2>2 DEF RestartService
  <1>3. service' \in Trees \cup {"stopped"}
    BY <1>1, <1>2, DiskRow
  <1>4. BackwardOK'
    BY <1>1, <1>2 DEF BackwardOK, Undoing, SameUndone
  <1> QED
    BY <1>1, <1>2, <1>3, <1>4, UndoMoves DEF Undoing

\* An attempt that is over, reported or killed, and what it leaves of the journal.
LEMMA AttemptEnds ==
    ASSUME CInv, upgrade' = NoUpgrade, baseline' \in Baselines, BaselineIsWhole',
           baseline'.manifest = baseline.manifest, meta' \in Metas,
           meta'.marker = meta.marker, meta'.registry = meta.registry,
           meta'.journal = meta.journal \/ baseline.manifest = "old",
           disk' \in Disk, service' \in Trees \cup {"stopped"}, command' = command,
           report' \in Result \cup {NoResult}, attempts' = attempts, crashes' \in 0..MaxCrashes,
           UpgradeIsWhole'
    PROVE  CInv'
  <1>1. upgrade'.pc = "idle"
    BY DEF NoUpgrade
  <1>2. CTypes'
    BY DEF CInv, CTypes
  <1>3. BaselineOK'
    BY <1>1 DEF BaselineOK, Active
  <1>4. MetaOK'
    BY <1>1 DEF CInv, MetaOK, MetadataFollowsBaseline, MarkedAt, Active, Finishing, Committing,
       Committed
  <1>5. ForwardOK' /\ BackwardOK'
    BY <1>1 DEF ForwardOK, BackwardOK, Steps, Undoing, Finishing
  <1>6. ReportOK'
    BY <1>1 DEF ReportOK, Active
  <1> QED
    BY <1>2, <1>3, <1>4, <1>5, <1>6 DEF CInv

LEMMA AbortKeeps == ASSUME CInv, AbortMetadata PROVE CInv'
  <1> DEFINE u == upgrade
  <1>1. /\ u.pc = "abort" /\ u \in Contexts /\ meta \in Metas /\ baseline \in Baselines
        /\ BackwardOK /\ BaselineOK /\ MetaOK /\ BaselineIsWhole
        /\ disk \in Disk /\ service \in Trees \cup {"stopped"}
        /\ crashes \in 0..MaxCrashes
        /\ UNCHANGED <<disk, baseline, service, command, attempts, crashes>>
        /\ upgrade' = NoUpgrade
    BY DEF AbortMetadata, CInv, CTypes, NoUpgrade, BaselineOK
  <1>2. baseline.manifest = "old" /\ meta.journal = u.journal
    BY <1>1, BaselineRow DEF BaselineOK, MetaOK, Active, Committed, Finishing, Releases
  <1>3. PICK aborted \in BOOLEAN :
          /\ aborted => u.journal /\ u.clean
          /\ Reports("failed", u.clean /\ (u.journal => aborted))
          /\ meta' = [meta EXCEPT !.journal = @ /\ ~aborted]
    BY DEF AbortMetadata
  <1> DEFINE clean == u.clean /\ (u.journal => aborted)
  <1>4. /\ report' \in Result /\ report'.result = "failed" /\ report'.clean = clean
        /\ report'.found = u.found /\ report'.ran = u.ran
    BY <1>1, <1>3 DEF Reports, Result, Contexts
  <1>5. /\ meta' \in Metas /\ meta'.marker = meta.marker /\ meta'.registry = meta.registry
        /\ meta'.journal = (meta.journal /\ ~aborted)
    BY <1>1, <1>3 DEF Metas
  <1>6. RollbackRestores'
    <2>1. SUFFICES ASSUME clean
                   PROVE  RollbackRestores'
      BY <1>4 DEF RollbackRestores
    <2>2. ~meta'.journal
      BY <1>2, <1>5, <2>1
    <2>3. /\ disk.files = u.found.files /\ disk.deps \in {u.found.deps, u.found.files}
          /\ disk.data = u.found.data
          /\ disk.routes = u.found.routes \/ Fits(disk.routes, u.found.files)
          /\ service \in IF u.ran = "stopped" THEN {"stopped"} ELSE {u.ran, u.found.files}
      BY <1>1, <2>1 DEF BackwardOK, Undoing
    <2>4. disk.routes \in Releases
      BY <1>1, DiskRow
    <2> QED
      BY <1>1, <1>2, <1>4, <2>2, <2>3, <2>4 DEF RollbackRestores, Fits
  <1>7. SuccessIsWhole'
    BY <1>4 DEF SuccessIsWhole
  <1>8. BaselineIsWhole'
    BY <1>1 DEF BaselineIsWhole
  <1> HIDE DEF clean
  <1> QED
    BY <1>1, <1>2, <1>4, <1>5, <1>6, <1>7, <1>8, AttemptEnds DEF UpgradeIsWhole

LEMMA KillUpgradeKeeps == ASSUME CInv, KillUpgrade PROVE CInv'
  <1> DEFINE b == baseline
             c == baseline'
  <1>1. /\ upgrade.pc # "idle" /\ meta \in Metas /\ b \in Baselines /\ disk \in Disk
        /\ BaselineOK /\ service' \in Trees \cup {"stopped"} /\ report = NoResult
        /\ crashes' \in 0..MaxCrashes /\ upgrade' = NoUpgrade
        /\ UNCHANGED <<command, report, attempts>>
    BY ComponentUpgradeAssumption DEF KillUpgrade, CInv, CTypes, ReportOK, Active
  <1>2. /\ meta' \in Metas /\ meta'.marker = meta.marker /\ meta'.registry = meta.registry
        /\ meta'.journal = meta.journal
    <2>1. meta' = [meta EXCEPT !.lock = IF @ = "upgrade" THEN "dead" ELSE @]
      BY DEF KillUpgrade
    <2> QED
      BY <1>1, <2>1 DEF Metas
  <1>3. disk' \in Disk
    <2>1. PICK files \in Torn(upgrade.pc \in {"merge", "undoFiles"}, disk.files),
               deps \in Torn(upgrade.pc \in {"npm", "undoDeps"}, disk.deps),
               data \in Torn(upgrade.pc \in {"preHook", "postHook", "undoData"}, disk.data) :
            disk' = [disk EXCEPT !.files = files, !.deps = deps, !.data = data]
      BY DEF KillUpgrade
    <2>2. disk.files \in Trees /\ disk.deps \in Trees /\ disk.data \in Trees
      BY <1>1, DiskRow
    <2>3. files \in Trees /\ deps \in Trees /\ data \in Trees
      BY <2>1, <2>2 DEF Torn, Trees
    <2> QED
      BY <1>1, <2>1, <2>3 DEF Disk
  <1>4. c \in Baselines /\ c.manifest = b.manifest /\ BaselineIsWhole'
    <2>1. \/ c = b
          \/ upgrade.pc = "copy" /\ c = [b EXCEPT !.staged = "mixed"]
          \/ upgrade.pc = "swap" /\ c = [b EXCEPT !.originals = "gone"]
          \/ c \in HalfRecovered
      BY DEF KillUpgrade
    <2>2. CASE c = b
      BY <1>1, <2>2 DEF BaselineOK, BaselineIsWhole
    <2>3. CASE upgrade.pc = "copy" /\ c = [b EXCEPT !.staged = "mixed"]
      <3>1. /\ c \in Baselines /\ c.manifest = b.manifest /\ c.originals = b.originals
            /\ c.tmp = b.tmp
        BY <1>1, <2>3 DEF Baselines
      <3> QED
        BY <1>1, <2>3, <3>1 DEF BaselineOK, BaselineIsWhole
    <2>4. CASE upgrade.pc = "swap" /\ c = [b EXCEPT !.originals = "gone"]
      <3>1. /\ c \in Baselines /\ c.manifest = b.manifest /\ c.staged = b.staged
            /\ c.tmp = b.tmp
        BY <1>1, <2>4 DEF Baselines
      <3> QED
        BY <1>1, <2>4, <3>1 DEF BaselineOK, BaselineIsWhole
    <2>5. CASE c \in HalfRecovered
      <3>1. /\ c \in Baselines /\ c.manifest = b.manifest
            /\ c.manifest = IF ~c.tmp /\ c.staged # "none" THEN c.staged ELSE c.originals
        BY <1>1, <2>5, HalfRecoveredRow DEF BaselineOK
      <3> QED
        BY <3>1 DEF BaselineIsWhole
    <2> QED
      BY <2>1, <2>2, <2>3, <2>4, <2>5
  <1>5. UpgradeIsWhole'
    BY <1>1 DEF UpgradeIsWhole, RollbackRestores, SuccessIsWhole, NoResult
  <1> QED
    BY <1>1, <1>2, <1>3, <1>4, <1>5, AttemptEnds

LEMMA ComponentNextKeeps == ASSUME CInv, ComponentNext PROVE CInv'
  <1>1. CASE Rollback
    BY <1>1, UndoKeeps, RestoreFilesKeeps, RestoreDependenciesKeeps, RestoreDataKeeps,
       RestoreRoutesKeeps, RestartServiceKeeps, AbortKeeps DEF Rollback
  <1>2. CASE UpgradeStep
    BY <1>1, <1>2, VerifyKeeps, BackupKeeps, HookKeeps, StopKeeps, RecoverKeeps, QuietKeeps,
       MergeKeeps, NpmKeeps, RoutesKeep, StartServiceKeeps, BeginKeeps, StageKeeps, CopyKeeps,
       CommitKeeps, SwapKeeps, FinishKeeps, RecoveryFailsKeeps DEF UpgradeStep, Finishers
  <1>3. CASE CommandStep
    BY <1>3, LoadKeeps, FinishKeeps DEF CommandStep, Finishers
  <1> QED
    BY <1>2, <1>3, StartKeeps, MetadataFailsKeeps, KillUpgradeKeeps, KillCommandKeeps
    DEF ComponentNext

LEMMA ComponentStutters == ASSUME CInv, UNCHANGED componentVars PROVE CInv'
  <1>1. UNCHANGED <<disk, baseline, meta, service, upgrade, command, report, attempts, crashes>>
    BY DEF componentVars
  <1>2. CTypes' /\ BaselineOK' /\ MetaOK'
    BY <1>1 DEF CInv, CTypes, BaselineOK, BaselineIsWhole, Active, MetaOK, MarkedAt,
       MetadataFollowsBaseline
  <1>3. ForwardOK'
    BY <1>1 DEF CInv, ForwardOK, AsNew
  <1>4. BackwardOK'
    BY <1>1 DEF CInv, BackwardOK, Fits
  <1>5. ReportOK'
    BY <1>1 DEF CInv, ReportOK, Active, UpgradeIsWhole, RollbackRestores, SuccessIsWhole
  <1> QED
    BY <1>2, <1>3, <1>4, <1>5 DEF CInv

LEMMA ComponentTypesAreOK == CInv => ComponentTypeOK
  BY DEF CInv, CTypes, ComponentTypeOK, Contexts, NoUpgrade, Baselines, Metas

-----------------------------------------------------------------------------
(* The upgrade of Core *)

First == ctx.first
Finalizer == ctx.finalizer
\* The contexts, the files and the reports, field by field
CoreFiles == [package : CoreTrees, skills : CoreTrees, deps : CoreTrees, baselines : CoreTrees,
              ecosystem : CoreReleases, config : CoreTrees]
FirstPlaces == {"idle"} \cup FirstSteps \cup Restoring
FinalPlaces == {"idle", "killed"} \cup FinalSteps \cup Restoring
SelfContexts(places) ==
    [pc : places, backup : BOOLEAN, ran : SUBSET Services, started : SUBSET Services,
     todo : SUBSET Services, relisted : BOOLEAN, clean : BOOLEAN]
Outcomes == {[result |-> "none"]} \cup
    [result : {"success", "failed"}, clean : BOOLEAN, ran : SUBSET Services,
     started : SUBSET Services, killed : BOOLEAN]
SelfTypes ==
    /\ tree \in CoreFiles
    /\ process \in [Services -> Running \cup {"stopped", "absent"}]
    /\ saved \in [Services -> {"online", "stopped", "absent"}]
    /\ ctx \in [first : SelfContexts(FirstPlaces), finalizer : SelfContexts(FinalPlaces)]
    /\ outcome \in Outcomes

OldTree == /\ tree.package = "old" /\ tree.skills = "old"
           /\ tree.baselines = "old" /\ tree.ecosystem = "old"
NoneAdded == \A s \in AddedServices : process[s] = "absent" /\ saved[s] = "absent"
Finals == FinalSteps \cup Restoring

\* The processes take turns: the first waits for as long as the finalizer has a step to take.
Turns ==
    /\ Finalizer.pc \in Finals <=> First.pc = "wait"
    /\ Finalizer.pc = "killed" => First.pc \in Restoring
    /\ First.pc = "idle" => outcome.result # "none" \/ (OldTree /\ NoneAdded)
    /\ outcome.result # "none" => First.pc = "idle"

\* What the first process knows, and what it has left alone
FirstOK ==
    LET f == First
    IN  /\ f.started = {} /\ f.ran \subseteq CoreServices \cup OwnServices
        /\ f.pc \in {"verify", "backup", "stop"} => f.ran = {}
        /\ f.pc \in {"stop", "npm", "wait"} => f.backup
        /\ f.pc # "idle" /\ ~f.backup => f.ran = {} /\ OldTree
        /\ f.pc \notin {"idle", "wait"} /\ Finalizer.pc # "killed" => NoneAdded
        /\ Finalizer.pc = "killed" => f.backup

Renewed(n) == n.ran \cup n.started

\* What is known of the services at a step of the finalizer
ServicesOK(n) ==
    /\ n.ran = {} => n.started = {} /\ \A s \in AddedServices : saved[s] = "absent"
    /\ \A s \in AddedServices : process[s] = "absent" \/ s \in n.started
    /\ n.pc \in {"restart", "save"} => n.ran # {}
    /\ n.pc \in {"sync", "deps", "configure", "prepare"} => n.started = {}
    /\ n.pc = "restart" => n.todo \subseteq Renewed(n)
    /\ n.pc = "restart" /\ n.clean =>
          \A s \in Renewed(n) \ n.todo : process[s] \in {Runs(s), "stopped"}
    /\ n.pc \in {"save", "services"} =>
          \A s \in Renewed(n) : process[s] \in {Runs(s), "stopped"}
    /\ n.pc \in {"services", "replies", "baselines", "print"} /\ n.ran # {} =>
          saved = Listing(process)
    /\ n.pc \in {"replies", "baselines", "print"} => \A s \in Renewed(n) : process[s] = Runs(s)

\* What the finalizer has been given, and what it has installed
FinalOK ==
    LET n == Finalizer
    IN  n.pc \in Finals =>
        /\ n.backup /\ n.ran \subseteq CoreServices \cup OwnServices
        /\ n.started \subseteq AddedServices
        /\ n.pc \in FinalSteps => tree.package = "new"
        /\ n.pc \in FinalSteps \ {"sync"} => tree.skills = "new"
        /\ n.pc \in FinalSteps \ {"sync", "deps"} => tree.deps = "new"
        /\ n.pc = "print" => tree.baselines = "new"
        /\ ServicesOK(n)

\* What a rollback has restored that comes to the part at, when every part before it was done
Undone(at, ran, killed) ==
    /\ at \in {"undoSkills", "undoEcosystem", "undoAdded", "undoServices", "undoSave"} =>
           tree.package = "old"
    /\ at \in {"undoEcosystem", "undoAdded", "undoServices", "undoSave"} =>
           tree.skills = "old" /\ tree.baselines = "old"
    /\ at \in {"undoAdded", "undoServices", "undoSave"} => tree.ecosystem = "old"
    /\ at \in {"undoServices", "undoSave"} /\ ~killed =>
           \A s \in AddedServices : process[s] = "absent"
    /\ at = "undoSave" => \A s \in ran : process[s] = Runs(s)

RollOK(c) ==
    c.clean => /\ Undone(c.pc, c.ran, Finalizer.pc = "killed")
               /\ c.pc = "undoSave" /\ c.ran # {} => c.relisted

\* The inductive invariant of the upgrade of Core
SInv == SelfTypes /\ Turns /\ FirstOK /\ FinalOK /\ RollOK(First) /\ RollOK(Finalizer)
        /\ SelfUpgradeIsWhole

LEMMA SInit == SelfInit => SInv
  <1> SUFFICES ASSUME SelfInit PROVE SInv
    OBVIOUS
  <1>1. /\ First = Fresh("idle") /\ Finalizer = Fresh("idle") /\ outcome.result = "none"
        /\ First.pc = "idle" /\ Finalizer.pc = "idle" /\ First.started = {} /\ First.ran = {}
    BY DEF SelfInit, First, Finalizer, Fresh
  <1>2. SelfTypes
    <2>1. tree \in CoreFiles
      BY DEF SelfInit, CoreFiles, CoreTrees, CoreReleases
    <2>2. process \in [Services -> Running \cup {"stopped", "absent"}]
      BY DEF SelfInit, Running, CoreTrees
    <2>3. saved \in [Services -> {"online", "stopped", "absent"}]
      BY <2>2 DEF SelfInit, Listing
    <2>4. ctx \in [first : SelfContexts(FirstPlaces), finalizer : SelfContexts(FinalPlaces)]
      BY DEF SelfInit, SelfContexts, FirstPlaces, FinalPlaces, Fresh
    <2>5. outcome \in Outcomes
      BY DEF SelfInit, Outcomes
    <2> QED
      BY <2>1, <2>2, <2>3, <2>4, <2>5 DEF SelfTypes
  <1>3. OldTree /\ NoneAdded
    BY SelfUpgradeAssumption DEF SelfInit, OldTree, NoneAdded, Listing, Services, Running, CoreTrees
  <1>4. Turns /\ FirstOK
    BY <1>1, <1>3 DEF Turns, FirstOK, Finals, FinalSteps, Restoring
  <1>5. FinalOK /\ RollOK(First) /\ RollOK(Finalizer)
    BY <1>1 DEF FinalOK, RollOK, Undone, Finals, FinalSteps, Restoring
  <1>6. SelfUpgradeIsWhole
    BY <1>1 DEF SelfUpgradeIsWhole, SelfSuccessIsWhole, SelfRollbackRestores
  <1> QED
    BY <1>2, <1>4, <1>5, <1>6 DEF SInv

\* What a process makes of its context leaves the other's alone.
LEMMA BecomesOne ==
    ASSUME SelfTypes, NEW c
    PROVE  /\ Becomes("first", c) => ctx' = [first |-> c, finalizer |-> Finalizer]
           /\ Becomes("finalizer", c) => ctx' = [first |-> First, finalizer |-> c]
           /\ First \in SelfContexts(FirstPlaces) /\ Finalizer \in SelfContexts(FinalPlaces)
           /\ ctx["first"] = First /\ ctx["finalizer"] = Finalizer
  BY DEF SelfTypes, Becomes, First, Finalizer

Processes == [Services -> Running \cup {"stopped", "absent"}]

\* The processes after some were restarted, others perhaps not.
LEMMA RestartedRow ==
    ASSUME NEW settled, NEW unsettled, NEW q \in Restarted(settled, unsettled)
    PROVE  /\ q \in Processes
           /\ \A s \in Services :
                 /\ s \in settled => q[s] = Runs(s)
                 /\ s \notin settled \cup unsettled => q[s] = process[s]
  BY DEF Restarted, Processes

\* A step of the installed release, before its finalizer runs.
LEMMA FirstMoves ==
    ASSUME SInv, First.pc \in {"idle"} \cup FirstSteps, First.pc # "wait", outcome.result = "none",
           NEW d \in SelfContexts(FirstPlaces), Becomes("first", d),
           d.pc \in (FirstSteps \cup {"undoPackage"}) \ {"wait"},
           tree' \in CoreFiles, process' \in Processes, saved' = saved, outcome' = outcome,
           FirstOK'
    PROVE  SInv'
  <1>1. First' = d /\ Finalizer' = Finalizer /\ ctx' = [first |-> d, finalizer |-> Finalizer]
        /\ Finalizer \in SelfContexts(FinalPlaces)
    BY BecomesOne DEF SInv, First, Finalizer
  <1>2. Finalizer.pc \notin Finals \cup {"killed"} /\ d.pc \notin {"idle", "wait"}
    BY DEF SInv, Turns, FirstSteps, Restoring
  <1>3. SelfTypes'
    BY <1>1 DEF SInv, SelfTypes, Processes
  <1>4. Turns'
    BY <1>1, <1>2 DEF SInv, Turns
  <1>5. FinalOK'
    BY <1>1, <1>2 DEF FinalOK
  <1>6. RollOK(First)'
    BY <1>1 DEF RollOK, Undone, FirstSteps
  <1>7. RollOK(Finalizer)'
    BY <1>1, <1>2 DEF RollOK, Undone, Finals, Restoring
  <1>8. SelfUpgradeIsWhole'
    BY DEF SelfUpgradeIsWhole, SelfSuccessIsWhole, SelfRollbackRestores
  <1> QED
    BY <1>3, <1>4, <1>5, <1>6, <1>7, <1>8 DEF SInv

LEMMA SelfStartKeeps == ASSUME SInv, SelfStart PROVE SInv'
  <1> DEFINE d == Fresh("verify")
  <1>1. /\ First.pc = "idle" /\ outcome.result = "none" /\ Becomes("first", d)
        /\ UNCHANGED <<tree, process, saved, outcome>>
        /\ tree \in CoreFiles /\ process \in Processes /\ OldTree /\ NoneAdded
    BY DEF SelfStart, First, SInv, SelfTypes, Processes, Turns
  <1>2. /\ d \in SelfContexts(FirstPlaces) /\ d.pc = "verify" /\ d.backup = FALSE /\ d.ran = {}
        /\ d.started = {}
    BY DEF Fresh, SelfContexts, FirstPlaces, FirstSteps
  <1> HIDE DEF d
  <1>3. First' = d /\ Finalizer' = Finalizer
    BY <1>1, BecomesOne DEF SInv, First, Finalizer
  <1>4. Finalizer.pc # "killed"
    BY <1>1 DEF SInv, Turns, Restoring
  <1>5. FirstOK'
    BY <1>1, <1>2, <1>3, <1>4 DEF FirstOK, OldTree, NoneAdded
  <1> QED
    BY <1>1, <1>2, <1>5, FirstMoves DEF FirstSteps

LEMMA VerifyTargetKeeps == ASSUME SInv, VerifyTarget PROVE SInv'
  <1>1. PICK at \in {"backup", "undoPackage"} : Becomes("first", [First EXCEPT !.pc = at])
    BY DEF VerifyTarget, First
  <1> DEFINE d == [First EXCEPT !.pc = at]
  <1>2. /\ First.pc = "verify" /\ UNCHANGED <<tree, process, saved, outcome>>
        /\ tree \in CoreFiles /\ process \in Processes /\ FirstOK /\ outcome.result = "none"
        /\ First \in SelfContexts(FirstPlaces)
    BY BecomesOne DEF VerifyTarget, First, SInv, SelfTypes, Processes, Turns
  <1>3. /\ d \in SelfContexts(FirstPlaces) /\ d.pc = at /\ d.backup = First.backup
        /\ d.ran = First.ran /\ d.started = First.started
    BY <1>2 DEF SelfContexts, FirstPlaces, FirstSteps, Restoring
  <1>4. Becomes("first", d)
    BY <1>1
  <1> HIDE DEF d
  <1>5. First' = d /\ Finalizer' = Finalizer
    BY <1>4, BecomesOne DEF SInv, First, Finalizer
  <1>6. FirstOK'
    BY <1>2, <1>3, <1>5 DEF FirstOK, OldTree, NoneAdded
  <1> QED
    BY <1>2, <1>3, <1>4, <1>6, FirstMoves DEF FirstSteps

LEMMA BackupCoreKeeps == ASSUME SInv, BackupCore PROVE SInv'
  <1>1. /\ First.pc = "backup" /\ UNCHANGED <<tree, process, saved, outcome>>
        /\ tree \in CoreFiles /\ process \in Processes /\ FirstOK /\ outcome.result = "none"
        /\ First \in SelfContexts(FirstPlaces) /\ Finalizer.pc # "killed"
    BY BecomesOne DEF BackupCore, First, SInv, SelfTypes, Processes, Turns, Restoring
  <1>2. PICK d : /\ Becomes("first", d)
                 /\ d \in {[First EXCEPT !.pc = "stop", !.backup = TRUE],
                           [First EXCEPT !.pc = "undoPackage"]}
    BY DEF BackupCore, First
  <1>3. /\ d \in SelfContexts(FirstPlaces)
        /\ \/ d.pc = "stop" /\ d.backup = TRUE
           \/ d.pc = "undoPackage" /\ d.backup = First.backup
        /\ d.ran = First.ran /\ d.started = First.started
    BY <1>1, <1>2 DEF SelfContexts, FirstPlaces, FirstSteps, Restoring
  <1>4. First' = d /\ Finalizer' = Finalizer
    BY <1>2, BecomesOne DEF SInv, First, Finalizer
  <1>5. FirstOK'
    BY <1>1, <1>3, <1>4 DEF FirstOK, OldTree, NoneAdded
  <1> QED
    BY <1>1, <1>2, <1>3, <1>5, FirstMoves DEF FirstSteps

LEMMA StopCoreKeeps == ASSUME SInv, StopCoreServices PROVE SInv'
  <1> DEFINE online == {s \in Services : process[s] \in Running}
  <1>1. /\ First.pc = "stop" /\ UNCHANGED <<tree, saved, outcome>>
        /\ tree \in CoreFiles /\ process \in Processes /\ FirstOK /\ outcome.result = "none"
        /\ First \in SelfContexts(FirstPlaces) /\ Finalizer.pc # "killed" /\ NoneAdded
    BY BecomesOne DEF StopCoreServices, First, SInv, SelfTypes, Processes, Turns, Restoring, FirstOK
  <1>2. online \subseteq CoreServices \cup OwnServices
    BY <1>1 DEF NoneAdded, Services, Running, CoreTrees
  <1>3. PICK d : /\ Becomes("first", d)
                 /\ d \in {[First EXCEPT !.pc = "npm", !.ran = online], [First EXCEPT !.pc = "npm"]}
                 /\ \/ process' = process
                    \/ \E stopped \in SUBSET online :
                          process' = [s \in Services |->
                                          IF s \in stopped THEN "stopped" ELSE process[s]]
    BY DEF StopCoreServices, First
  <1>4. /\ d \in SelfContexts(FirstPlaces) /\ d.pc = "npm" /\ d.backup = First.backup
        /\ d.started = First.started /\ d.ran \in {online, First.ran}
    <2>1. online \in SUBSET Services
      OBVIOUS
    <2> HIDE DEF online
    <2> QED
      BY <1>1, <1>3, <2>1 DEF SelfContexts, FirstPlaces, FirstSteps
  <1>5. process' \in Processes /\ \A s \in AddedServices : process'[s] = process[s]
    BY <1>1, <1>2, <1>3, SelfUpgradeAssumption DEF Processes, Services
  <1>6. First' = d /\ Finalizer' = Finalizer
    BY <1>3, BecomesOne DEF SInv, First, Finalizer
  <1>7. FirstOK'
    BY <1>1, <1>2, <1>4, <1>5, <1>6 DEF FirstOK, OldTree, NoneAdded
  <1> QED
    BY <1>1, <1>3, <1>4, <1>5, <1>7, FirstMoves DEF FirstSteps

LEMMA NpmGlobalKeeps == ASSUME SInv, NpmInstallGlobal PROVE SInv'
  <1>1. /\ First.pc = "npm" /\ UNCHANGED <<process, saved, outcome>>
        /\ tree \in CoreFiles /\ process \in Processes /\ FirstOK /\ outcome.result = "none"
        /\ First \in SelfContexts(FirstPlaces) /\ Finalizer.pc # "killed" /\ NoneAdded
    BY BecomesOne DEF NpmInstallGlobal, First, SInv, SelfTypes, Processes, Turns, Restoring, FirstOK
  <1>2. ASSUME NEW package \in CoreTrees, tree' = [tree EXCEPT !.package = package],
               Becomes("first", [First EXCEPT !.pc = "undoPackage"])
        PROVE  SInv'
    <2> DEFINE d == [First EXCEPT !.pc = "undoPackage"]
    <2>1. /\ d \in SelfContexts(FirstPlaces) /\ d.pc = "undoPackage" /\ d.backup = First.backup
          /\ d.started = First.started /\ d.ran = First.ran
      BY <1>1 DEF SelfContexts, FirstPlaces, Restoring
    <2>2. Becomes("first", d)
      BY <1>2
    <2> HIDE DEF d
    <2>3. First' = d /\ Finalizer' = Finalizer
      BY <2>2, BecomesOne DEF SInv, First, Finalizer
    <2>4. tree' \in CoreFiles
      BY <1>1, <1>2 DEF CoreFiles
    <2>5. FirstOK'
      BY <1>1, <2>1, <2>3 DEF FirstOK, NoneAdded
    <2> QED
      BY <1>1, <2>1, <2>2, <2>4, <2>5, FirstMoves DEF FirstSteps
  <1>3. CASE /\ tree' = [tree EXCEPT !.package = "new"]
             /\ ctx' = [first |-> [ctx.first EXCEPT !.pc = "wait"],
                        finalizer |-> [Fresh("sync") EXCEPT !.backup = ctx.first.backup,
                                                            !.ran = ctx.first.ran]]
    <2> DEFINE d == [First EXCEPT !.pc = "wait"]
               n == [Fresh("sync") EXCEPT !.backup = First.backup, !.ran = First.ran]
    <2>1. /\ d \in SelfContexts(FirstPlaces) /\ d.pc = "wait" /\ d.backup = First.backup
          /\ d.started = First.started /\ d.ran = First.ran
      BY <1>1 DEF SelfContexts, FirstPlaces, FirstSteps
    <2>2. First.backup \in BOOLEAN /\ First.ran \in SUBSET Services
      BY <1>1 DEF SelfContexts
    <2>3. /\ n \in SelfContexts(FinalPlaces) /\ n.pc = "sync" /\ n.backup = First.backup
          /\ n.ran = First.ran /\ n.started = {}
      BY <2>2 DEF SelfContexts, FinalPlaces, FinalSteps, Fresh
    <2>4. ctx' = [first |-> d, finalizer |-> n]
      BY <1>3 DEF First
    <2> HIDE DEF d, n
    <2>5. First' = d /\ Finalizer' = n
      BY <2>4 DEF First, Finalizer
    <2>6. tree' \in CoreFiles /\ tree'.package = "new"
      BY <1>1, <1>3 DEF CoreFiles, CoreTrees
    <2>7. SelfTypes'
      BY <1>1, <2>1, <2>3, <2>4, <2>6 DEF SInv, SelfTypes, Processes
    <2>8. Turns'
      BY <1>1, <2>1, <2>3, <2>5 DEF Turns, Finals, FinalSteps
    <2>9. FirstOK'
      BY <1>1, <2>1, <2>3, <2>5 DEF FirstOK
    <2>10. FinalOK'
      BY <1>1, <2>3, <2>5, <2>6 DEF FinalOK, FirstOK, ServicesOK, NoneAdded
    <2>11. RollOK(First)' /\ RollOK(Finalizer)'
      BY <2>1, <2>3, <2>5 DEF RollOK, Undone
    <2>12. SelfUpgradeIsWhole'
      BY <1>1 DEF SelfUpgradeIsWhole, SelfSuccessIsWhole, SelfRollbackRestores
    <2> QED
      BY <2>7, <2>8, <2>9, <2>10, <2>11, <2>12 DEF SInv
  <1> QED
    BY <1>2, <1>3 DEF NpmInstallGlobal, First, CoreTrees

\* A step of the finalizer, before a rollback.
LEMMA FinalMoves ==
    ASSUME SInv, Finalizer.pc \in FinalSteps, NEW n \in SelfContexts(FinalPlaces),
           Becomes("finalizer", n), n.pc \in FinalSteps \cup {"undoPackage"},
           tree' \in CoreFiles, process' \in Processes,
           saved' \in [Services -> {"online", "stopped", "absent"}], outcome' = outcome,
           FinalOK'
    PROVE  SInv'
  <1>1. First' = First /\ Finalizer' = n /\ ctx' = [first |-> First, finalizer |-> n]
        /\ First \in SelfContexts(FirstPlaces)
    BY BecomesOne DEF SInv, First, Finalizer
  <1>2. /\ Turns /\ FirstOK /\ First.pc = "wait" /\ outcome.result = "none"
        /\ Finalizer.pc # "killed" /\ n.pc # "killed" /\ n.pc \in Finals
    BY DEF SInv, Turns, Finals, FinalSteps, Restoring
  <1>3. SelfTypes'
    BY <1>1 DEF SInv, SelfTypes, Processes
  <1>4. Turns'
    BY <1>1, <1>2 DEF Turns
  <1>5. FirstOK'
    BY <1>1, <1>2 DEF FirstOK
  <1>6. RollOK(First)' /\ RollOK(Finalizer)'
    BY <1>1, <1>2 DEF RollOK, Undone, FinalSteps
  <1>7. SelfUpgradeIsWhole'
    BY <1>2 DEF SelfUpgradeIsWhole, SelfSuccessIsWhole, SelfRollbackRestores
  <1> QED
    BY <1>3, <1>4, <1>5, <1>6, <1>7 DEF SInv

\* A step of the finalizer that changes only files.
LEMMA FinalFiles ==
    ASSUME SInv, Finalizer.pc \in FinalSteps, NEW at \in FinalSteps \cup {"undoPackage"},
           Becomes("finalizer", [Finalizer EXCEPT !.pc = at]),
           UNCHANGED <<process, saved, outcome>>, tree' \in CoreFiles,
           at \in FinalSteps => tree'.package = "new",
           at \in FinalSteps \ {"sync"} => tree'.skills = "new",
           at \in FinalSteps \ {"sync", "deps"} => tree'.deps = "new",
           at = "print" => tree'.baselines = "new",
           at # "restart",
           ServicesOK(Finalizer) =>
              /\ at \in {"deps", "configure", "prepare", "sync"} => Finalizer.started = {}
              /\ at = "save" => Finalizer.ran # {}
              /\ at \in {"save", "services"} =>
                     \A s \in Renewed(Finalizer) : process[s] \in {Runs(s), "stopped"}'
              /\ at \in {"services", "replies", "baselines", "print"} /\ Finalizer.ran # {} =>
                     saved = Listing(process)
              /\ at \in {"replies", "baselines", "print"} =>
                     \A s \in Renewed(Finalizer) : process[s] = Runs(s)'
    PROVE  SInv'
  <1> DEFINE n == [Finalizer EXCEPT !.pc = at]
  <1>1. /\ Finalizer \in SelfContexts(FinalPlaces) /\ process \in Processes
        /\ saved \in [Services -> {"online", "stopped", "absent"}]
        /\ FinalOK /\ Finalizer.pc \in Finals
    BY BecomesOne DEF SInv, SelfTypes, Processes, Finals
  <1>2. /\ n \in SelfContexts(FinalPlaces) /\ n.pc = at /\ n.backup = Finalizer.backup
        /\ n.ran = Finalizer.ran /\ n.started = Finalizer.started /\ n.clean = Finalizer.clean
    BY <1>1 DEF SelfContexts, FinalPlaces, FinalSteps, Restoring
  <1>3. Becomes("finalizer", n)
    OBVIOUS
  <1> HIDE DEF n
  <1>4. Finalizer' = n
    BY <1>3, BecomesOne DEF SInv, First, Finalizer
  <1>5. ServicesOK(Finalizer)
    BY <1>1 DEF FinalOK
  <1>6. ServicesOK(Finalizer)'
    <2>1. Renewed(Finalizer)' = Renewed(Finalizer)
      BY <1>2, <1>4 DEF Renewed
    <2>2. Listing(process)' = Listing(process)
      BY DEF Listing
    <2> QED
      BY <1>2, <1>4, <1>5, <2>1, <2>2 DEF ServicesOK
  <1>7. FinalOK'
    BY <1>1, <1>2, <1>4, <1>6 DEF FinalOK
  <1> QED
    BY <1>1, <1>2, <1>3, <1>7, FinalMoves

\* What every step of the finalizer starts from.
LEMMA FinalNow ==
    ASSUME SInv, Finalizer.pc \in FinalSteps
    PROVE  /\ tree \in CoreFiles /\ process \in Processes /\ tree.package = "new"
           /\ Finalizer.pc # "sync" => tree.skills = "new"
           /\ Finalizer.pc \notin {"sync", "deps"} => tree.deps = "new"
           /\ Finalizer.pc = "print" => tree.baselines = "new"
           /\ Finalizer.backup /\ Finalizer.ran \subseteq CoreServices \cup OwnServices
           /\ Finalizer.started \subseteq AddedServices /\ ServicesOK(Finalizer)
           /\ Finalizer \in SelfContexts(FinalPlaces) /\ ctx.finalizer = Finalizer
           /\ saved \in [Services -> {"online", "stopped", "absent"}]
  BY BecomesOne DEF SInv, SelfTypes, Processes, FinalOK, Finals, Finalizer

LEMMA SyncSkillsKeeps == ASSUME SInv, SyncCoreSkills PROVE SInv'
  <1>1. /\ Finalizer.pc = "sync" /\ UNCHANGED <<process, saved, outcome>>
        /\ Finalizer.pc \in FinalSteps
    BY DEF SyncCoreSkills, FinalStep, Finalizer, FinalSteps
  <1>2. /\ tree \in CoreFiles /\ tree.package = "new" /\ ServicesOK(Finalizer)
    BY <1>1, FinalNow
  <1>3. CASE /\ tree' = [tree EXCEPT !.skills = "new"]
             /\ Becomes("finalizer", [Finalizer EXCEPT !.pc = "deps"])
    <2>1. tree' \in CoreFiles /\ tree'.package = "new" /\ tree'.skills = "new"
      BY <1>2, <1>3 DEF CoreFiles, CoreTrees
    <2>2. Finalizer.started = {}
      BY <1>1, <1>2 DEF ServicesOK
    <2> QED
      BY <1>1, <1>3, <2>1, <2>2, FinalFiles DEF FinalSteps
  <1>4. CASE /\ tree' \in {[tree EXCEPT !.skills = v] : v \in CoreTrees}
             /\ Becomes("finalizer", [Finalizer EXCEPT !.pc = "undoPackage"])
    <2>1. tree' \in CoreFiles
      BY <1>2, <1>4 DEF CoreFiles
    <2> QED
      BY <1>1, <1>4, <2>1, FinalFiles DEF FinalSteps
  <1> QED
    BY <1>3, <1>4 DEF SyncCoreSkills, FinalStep, Finalizer

LEMMA SkillDepsKeeps == ASSUME SInv, InstallSkillDeps PROVE SInv'
  <1>1. /\ Finalizer.pc = "deps" /\ UNCHANGED <<process, saved, outcome>>
        /\ Finalizer.pc \in FinalSteps
        /\ \E v \in CoreTrees : tree' = [tree EXCEPT !.deps = v]
        /\ \/ /\ tree' = [tree EXCEPT !.deps = "new"]
              /\ Becomes("finalizer", [Finalizer EXCEPT !.pc = "configure"])
           \/ Becomes("finalizer", [Finalizer EXCEPT !.pc = "undoPackage"])
    BY DEF InstallSkillDeps, FinalStep, Finalizer, FinalSteps, CoreTrees
  <1>2. /\ tree \in CoreFiles /\ tree.package = "new" /\ tree.skills = "new"
        /\ ServicesOK(Finalizer)
    BY <1>1, FinalNow
  <1>3. Finalizer.started = {}
    BY <1>1, <1>2 DEF ServicesOK
  <1>4. /\ tree' \in CoreFiles /\ tree'.package = "new" /\ tree'.skills = "new"
        /\ tree' = [tree EXCEPT !.deps = "new"] => tree'.deps = "new"
    BY <1>1, <1>2 DEF CoreFiles
  <1> QED
    BY <1>1, <1>3, <1>4, FinalFiles DEF FinalSteps

LEMMA ConfigureKeeps == ASSUME SInv, Configure PROVE SInv'
  <1>1. /\ Finalizer.pc = "configure" /\ UNCHANGED <<process, saved, outcome>>
        /\ Finalizer.pc \in FinalSteps
        /\ \E at \in {"prepare", "undoPackage"} :
              Becomes("finalizer", [Finalizer EXCEPT !.pc = at])
        /\ \E v \in CoreTrees : tree' = [tree EXCEPT !.config = v]
    BY DEF Configure, FinalStep, Finalizer, FinalSteps, CoreTrees
  <1>2. /\ tree \in CoreFiles /\ tree.package = "new" /\ tree.skills = "new"
        /\ tree.deps = "new" /\ ServicesOK(Finalizer)
    BY <1>1, FinalNow
  <1>3. Finalizer.started = {}
    BY <1>1, <1>2 DEF ServicesOK
  <1>4. tree' \in CoreFiles /\ tree'.package = "new" /\ tree'.skills = "new" /\ tree'.deps = "new"
    BY <1>1, <1>2 DEF CoreFiles
  <1> QED
    BY <1>1, <1>3, <1>4, FinalFiles DEF FinalSteps

LEMMA PrepareKeeps == ASSUME SInv, PrepareServices PROVE SInv'
  <1> DEFINE added == {s \in AddedServices : process[s] = "absent"}
  <1>1. /\ Finalizer.pc = "prepare" /\ UNCHANGED <<process, saved, outcome>>
        /\ Finalizer.pc \in FinalSteps
    BY DEF PrepareServices, Finalizer, FinalSteps
  <1>2. /\ tree \in CoreFiles /\ tree.package = "new" /\ tree.skills = "new"
        /\ tree.deps = "new" /\ ServicesOK(Finalizer)
        /\ Finalizer \in SelfContexts(FinalPlaces) /\ Finalizer.backup
        /\ Finalizer.ran \subseteq CoreServices \cup OwnServices
        /\ Finalizer.started = {} /\ process \in Processes
        /\ saved \in [Services -> {"online", "stopped", "absent"}]
    BY <1>1, FinalNow DEF ServicesOK
  <1>3. CASE /\ Finalizer.ran = {} /\ tree' = tree
             /\ Becomes("finalizer", [Finalizer EXCEPT !.pc = "services"])
    BY <1>1, <1>2, <1>3, FinalFiles DEF FinalSteps, Renewed
  <1>4. CASE /\ Finalizer.ran # {}
             /\ \E ecosystem \in {tree.ecosystem, "new"} :
                   tree' = [tree EXCEPT !.ecosystem = ecosystem]
             /\ \/ Becomes("finalizer", [Finalizer EXCEPT !.pc = "restart", !.started = added,
                                                          !.todo = Finalizer.ran \cup added])
                \/ Becomes("finalizer", [Finalizer EXCEPT !.pc = "undoPackage"])
    <2>1. tree' \in CoreFiles /\ tree'.package = "new" /\ tree'.skills = "new" /\ tree'.deps = "new"
      BY <1>2, <1>4 DEF CoreFiles, CoreReleases
    <2>2. CASE Becomes("finalizer", [Finalizer EXCEPT !.pc = "undoPackage"])
      BY <1>1, <2>1, <2>2, FinalFiles DEF FinalSteps
    <2>3. CASE Becomes("finalizer", [Finalizer EXCEPT !.pc = "restart", !.started = added,
                                                      !.todo = Finalizer.ran \cup added])
      <3> DEFINE n == [Finalizer EXCEPT !.pc = "restart", !.started = added,
                                        !.todo = Finalizer.ran \cup added]
      <3>1. added \subseteq AddedServices /\ added \subseteq Services
        BY DEF Services
      <3>2. \A s \in AddedServices : process[s] = "absent" \/ s \in added
        BY <1>2 DEF ServicesOK
      <3> HIDE DEF added
      <3>3. /\ n \in SelfContexts(FinalPlaces) /\ n.pc = "restart" /\ n.backup
            /\ n.ran = Finalizer.ran /\ n.started = added /\ n.todo = Finalizer.ran \cup added
        BY <1>2, <3>1 DEF SelfContexts, FinalPlaces, FinalSteps
      <3>4. Becomes("finalizer", n)
        BY <2>3
      <3> HIDE DEF n
      <3>5. Finalizer' = n
        BY <3>4, BecomesOne DEF SInv, First, Finalizer
      <3>6. ServicesOK(Finalizer)'
        BY <1>1, <1>4, <3>2, <3>3, <3>5 DEF ServicesOK, Renewed
      <3>7. FinalOK'
        BY <1>2, <2>1, <3>1, <3>3, <3>5, <3>6 DEF FinalOK
      <3> QED
        BY <1>1, <1>2, <2>1, <3>3, <3>4, <3>7, FinalMoves DEF FinalSteps
    <2> QED
      BY <1>4, <2>2, <2>3
  <1> QED
    BY <1>3, <1>4 DEF PrepareServices, Finalizer

LEMMA RestartKeeps == ASSUME SInv, RestartServices PROVE SInv'
  <1>1. /\ Finalizer.pc = "restart" /\ UNCHANGED <<tree, saved, outcome>>
        /\ Finalizer.pc \in FinalSteps
    BY DEF RestartServices, Finalizer, FinalSteps
  <1>2. /\ tree \in CoreFiles /\ tree.package = "new" /\ tree.skills = "new"
        /\ tree.deps = "new" /\ ServicesOK(Finalizer)
        /\ Finalizer \in SelfContexts(FinalPlaces) /\ Finalizer.backup
        /\ Finalizer.ran \subseteq CoreServices \cup OwnServices /\ Finalizer.ran # {}
        /\ Finalizer.started \subseteq AddedServices /\ process \in Processes
        /\ saved \in [Services -> {"online", "stopped", "absent"}]
        /\ Finalizer.todo \subseteq Renewed(Finalizer)
    BY <1>1, FinalNow DEF ServicesOK
  <1>3. ASSUME NEW s \in Finalizer.todo, NEW clean \in BOOLEAN,
               Becomes("finalizer", [Finalizer EXCEPT !.todo = Finalizer.todo \ {s},
                                                      !.clean = clean]),
               \/ clean = Finalizer.clean /\ \E v \in {Runs(s), "stopped"} :
                                                process' = [process EXCEPT ![s] = v]
               \/ clean = FALSE /\ process' \in Restarted({}, {s})
        PROVE  SInv'
    <2> DEFINE n == [Finalizer EXCEPT !.todo = Finalizer.todo \ {s}, !.clean = clean]
    <2>1. /\ n \in SelfContexts(FinalPlaces) /\ n.pc = "restart" /\ n.backup
          /\ n.ran = Finalizer.ran /\ n.started = Finalizer.started
          /\ n.todo = Finalizer.todo \ {s} /\ n.clean = clean
      BY <1>1, <1>2 DEF SelfContexts
    <2>2. Becomes("finalizer", n)
      BY <1>3
    <2> HIDE DEF n
    <2>3. Finalizer' = n
      BY <2>2, BecomesOne DEF SInv, First, Finalizer
    <2>4. s \in Services /\ s \in Renewed(Finalizer) /\ Runs(s) \in Running
      BY <1>2 DEF Renewed, Services, Runs, Running, CoreTrees
    <2>5. process' \in Processes /\ \A t \in Services \ {s} : process'[t] = process[t]
      <3>1. CASE process' \in Restarted({}, {s})
        BY <1>2, <3>1, RestartedRow
      <3>2. CASE process' \notin Restarted({}, {s})
        BY <1>2, <1>3, <2>4, <3>2 DEF Processes
      <3> QED
        BY <3>1, <3>2
    <2>7. Renewed(Finalizer)' = Renewed(Finalizer) /\ Renewed(Finalizer) \subseteq Services
          /\ \A t \in Services : Runs(t)' = Runs(t)
      BY <1>1, <1>2, <2>1, <2>3 DEF Renewed, Runs, Services
    <2>8. \A t \in AddedServices : process'[t] = "absent" \/ t \in n.started
      <3>1. \A t \in AddedServices : process[t] = "absent" \/ t \in n.started
        BY <1>2, <2>1 DEF ServicesOK
      <3>2. s \in AddedServices => s \in n.started
        BY <1>2, <2>1, <2>4, SelfUpgradeAssumption DEF Renewed
      <3> QED
        BY <2>5, <3>1, <3>2 DEF Services
    <2>9. n.clean => \A t \in Renewed(Finalizer) \ n.todo : process'[t] \in {Runs(t), "stopped"}
      <3> SUFFICES ASSUME n.clean, NEW t \in Renewed(Finalizer) \ n.todo
                   PROVE  process'[t] \in {Runs(t), "stopped"}
        OBVIOUS
      <3>1. clean = TRUE /\ Finalizer.clean
        BY <1>3, <2>1
      <3>2. t \in Finalizer.todo => t = s
        BY <2>1
      <3>3. CASE t = s
        BY <1>3, <1>2, <2>4, <3>1, <3>3 DEF Processes
      <3>4. CASE t # s
        BY <1>1, <1>2, <2>5, <2>7, <3>1, <3>2, <3>4 DEF ServicesOK
      <3> QED
        BY <3>3, <3>4
    <2>10. ServicesOK(Finalizer)'
      BY <1>1, <1>2, <2>1, <2>3, <2>7, <2>8, <2>9 DEF ServicesOK
    <2>11. FinalOK'
      BY <1>1, <1>2, <2>1, <2>3, <2>10 DEF FinalOK
    <2> QED
      BY <1>1, <1>2, <2>1, <2>2, <2>5, <2>11, FinalMoves
  <1>4. CASE /\ Finalizer.todo = {} /\ process' = process
             /\ Becomes("finalizer", [Finalizer EXCEPT !.clean = TRUE,
                    !.pc = IF Finalizer.clean THEN "save" ELSE "undoPackage"])
    <2> DEFINE at == IF Finalizer.clean THEN "save" ELSE "undoPackage"
               n == [Finalizer EXCEPT !.clean = TRUE, !.pc = at]
    <2>1. at \in {"save", "undoPackage"} /\ (at = "save" => Finalizer.clean)
      OBVIOUS
    <2>2. Becomes("finalizer", n)
      BY <1>4
    <2> HIDE DEF at
    <2>3. /\ n \in SelfContexts(FinalPlaces) /\ n.pc = at /\ n.backup
          /\ n.ran = Finalizer.ran /\ n.started = Finalizer.started
      BY <1>2, <2>1 DEF SelfContexts, FinalPlaces, FinalSteps, Restoring
    <2> HIDE DEF n
    <2>4. Finalizer' = n
      BY <2>2, BecomesOne DEF SInv, First, Finalizer
    <2>5. Renewed(Finalizer)' = Renewed(Finalizer) /\ \A t : Runs(t)' = Runs(t)
      BY <1>1, <2>3, <2>4 DEF Renewed, Runs
    <2>6. ServicesOK(Finalizer)'
      <3>1. at = "save" => \A s \in Renewed(Finalizer) : process[s] \in {Runs(s), "stopped"}
        BY <1>1, <1>2, <1>4, <2>1 DEF ServicesOK
      <3>2. /\ Finalizer.ran = {} =>
                   Finalizer.started = {} /\ \A s \in AddedServices : saved[s] = "absent"
            /\ \A s \in AddedServices : process[s] = "absent" \/ s \in Finalizer.started
        BY <1>2 DEF ServicesOK
      <3>3. n.pc \notin FinalSteps \ {"save"}
        BY <2>1, <2>3 DEF FinalSteps
      <3> QED
        BY <1>1, <1>2, <1>4, <2>3, <2>4, <2>5, <3>1, <3>2, <3>3 DEF ServicesOK, FinalSteps
    <2>7. FinalOK'
      BY <1>1, <1>2, <2>1, <2>3, <2>4, <2>6 DEF FinalOK
    <2> QED
      BY <1>1, <1>2, <1>4, <2>1, <2>2, <2>3, <2>7, FinalMoves DEF FinalSteps
  <1>5. ASSUME NEW s \in Finalizer.todo,
               \/ /\ \E v \in {Runs(s), "stopped"} : process' = [process EXCEPT ![s] = v]
                  /\ Becomes("finalizer", [Finalizer EXCEPT !.todo = Finalizer.todo \ {s}])
               \/ /\ process' \in Restarted({}, {s})
                  /\ Becomes("finalizer", [Finalizer EXCEPT !.todo = Finalizer.todo \ {s},
                                                            !.clean = FALSE])
        PROVE  SInv'
    <2>1. [Finalizer EXCEPT !.todo = Finalizer.todo \ {s}]
              = [Finalizer EXCEPT !.todo = Finalizer.todo \ {s}, !.clean = Finalizer.clean]
      BY <1>2 DEF SelfContexts
    <2>2. Finalizer.clean \in BOOLEAN
      BY <1>2 DEF SelfContexts
    <2> QED
      BY <1>3, <1>5, <2>1, <2>2
  <1> QED
    BY <1>4, <1>5 DEF RestartServices, Finalizer

LEMMA SaveListKeeps == ASSUME SInv, SaveList PROVE SInv'
  <1>1. /\ Finalizer.pc = "save" /\ UNCHANGED <<tree, process, outcome>>
        /\ Finalizer.pc \in FinalSteps
    BY DEF SaveList, Finalizer, FinalSteps
  <1>2. /\ tree \in CoreFiles /\ tree.package = "new" /\ tree.skills = "new"
        /\ tree.deps = "new" /\ ServicesOK(Finalizer)
        /\ Finalizer \in SelfContexts(FinalPlaces) /\ Finalizer.backup
        /\ Finalizer.ran \subseteq CoreServices \cup OwnServices /\ Finalizer.ran # {}
        /\ Finalizer.started \subseteq AddedServices /\ process \in Processes
    BY <1>1, FinalNow DEF ServicesOK
  <1>3. CASE saved' = saved /\ Becomes("finalizer", [Finalizer EXCEPT !.pc = "undoPackage"])
    BY <1>1, <1>2, <1>3, FinalFiles DEF FinalSteps
  <1>4. CASE /\ saved' = Listing(process)
             /\ Becomes("finalizer", [Finalizer EXCEPT !.pc = "services"])
    <2> DEFINE n == [Finalizer EXCEPT !.pc = "services"]
    <2>1. /\ n \in SelfContexts(FinalPlaces) /\ n.pc = "services" /\ n.backup
          /\ n.ran = Finalizer.ran /\ n.started = Finalizer.started
      BY <1>2 DEF SelfContexts, FinalPlaces, FinalSteps
    <2>2. Becomes("finalizer", n)
      BY <1>4
    <2> HIDE DEF n
    <2>3. Finalizer' = n
      BY <2>2, BecomesOne DEF SInv, First, Finalizer
    <2>4. saved' \in [Services -> {"online", "stopped", "absent"}]
      BY <1>2, <1>4 DEF Listing, Processes
    <2>5. saved' = Listing(process)'
      BY <1>1, <1>4 DEF Listing
    <2>6. ServicesOK(Finalizer)'
      BY <1>1, <1>2, <2>1, <2>3, <2>5 DEF ServicesOK, Renewed, Runs
    <2>7. FinalOK'
      BY <1>1, <1>2, <2>1, <2>3, <2>6 DEF FinalOK
    <2> QED
      BY <1>1, <1>2, <2>1, <2>2, <2>4, <2>7, FinalMoves DEF FinalSteps
  <1> QED
    BY <1>3, <1>4 DEF SaveList, Finalizer

LEMMA VerifyServicesKeeps == ASSUME SInv, VerifyServices PROVE SInv'
  <1>1. /\ Finalizer.pc = "services" /\ UNCHANGED <<tree, process, saved, outcome>>
        /\ Finalizer.pc \in FinalSteps
        /\ \E at \in {"replies", "undoPackage"} :
              Becomes("finalizer", [Finalizer EXCEPT !.pc = at])
    BY DEF VerifyServices, ServicesVerified, FinalStep, Finalizer, FinalSteps
  <1>2. /\ tree \in CoreFiles /\ tree.package = "new" /\ tree.skills = "new"
        /\ tree.deps = "new" /\ ServicesOK(Finalizer) /\ Finalizer \in SelfContexts(FinalPlaces)
    BY <1>1, FinalNow
  <1>3. CASE Becomes("finalizer", [Finalizer EXCEPT !.pc = "undoPackage"])
    BY <1>1, <1>2, <1>3, FinalFiles DEF FinalSteps
  <1>4. CASE Becomes("finalizer", [Finalizer EXCEPT !.pc = "replies"])
    <2> DEFINE n == [Finalizer EXCEPT !.pc = "replies"]
    <2>1. n.pc = "replies"
      BY <1>2 DEF SelfContexts
    <2>2. Becomes("finalizer", n)
      BY <1>4
    <2> HIDE DEF n
    <2>3. Finalizer' = n
      BY <2>2, BecomesOne DEF SInv, First, Finalizer
    <2>4. \A s \in Renewed(Finalizer) : process[s] \in Running
      BY <2>1, <2>3 DEF VerifyServices, ServicesVerified, Renewed, Finalizer
    <2>5. \A s \in Renewed(Finalizer) : process[s] = Runs(s)
      BY <1>1, <1>2, <2>4 DEF ServicesOK, Running, CoreTrees
    <2>6. Finalizer.ran # {} => saved = Listing(process)
      BY <1>1, <1>2 DEF ServicesOK
    <2>7. \A s \in Renewed(Finalizer) : process[s] = Runs(s)'
      BY <1>1, <2>5 DEF Runs
    <2> QED
      BY <1>1, <1>2, <1>4, <2>6, <2>7, FinalFiles DEF FinalSteps
  <1> QED
    BY <1>1, <1>3, <1>4

LEMMA VerifyRepliesKeeps == ASSUME SInv, VerifyReplies PROVE SInv'
  <1>1. /\ Finalizer.pc = "replies" /\ UNCHANGED <<tree, process, saved, outcome>>
        /\ Finalizer.pc \in FinalSteps
        /\ \E at \in {"baselines", "undoPackage"} :
              Becomes("finalizer", [Finalizer EXCEPT !.pc = at])
    BY DEF VerifyReplies, FinalStep, Finalizer, FinalSteps
  <1>2. /\ tree \in CoreFiles /\ tree.package = "new" /\ tree.skills = "new"
        /\ tree.deps = "new" /\ ServicesOK(Finalizer)
    BY <1>1, FinalNow
  <1>3. /\ Finalizer.ran # {} => saved = Listing(process)
        /\ \A s \in Renewed(Finalizer) : process[s] = Runs(s)'
    BY <1>1, <1>2 DEF ServicesOK, Runs
  <1> QED
    BY <1>1, <1>2, <1>3, FinalFiles DEF FinalSteps

LEMMA BaselinesKeeps == ASSUME SInv, CommitBaselines PROVE SInv'
  <1>1. /\ Finalizer.pc = "baselines" /\ UNCHANGED <<process, saved, outcome>>
        /\ Finalizer.pc \in FinalSteps
        /\ \E v \in CoreTrees : tree' = [tree EXCEPT !.baselines = v]
        /\ \/ /\ tree' = [tree EXCEPT !.baselines = "new"]
              /\ Becomes("finalizer", [Finalizer EXCEPT !.pc = "print"])
           \/ Becomes("finalizer", [Finalizer EXCEPT !.pc = "undoPackage"])
    BY DEF CommitBaselines, FinalStep, Finalizer, FinalSteps, CoreTrees
  <1>2. /\ tree \in CoreFiles /\ tree.package = "new" /\ tree.skills = "new"
        /\ tree.deps = "new" /\ ServicesOK(Finalizer)
    BY <1>1, FinalNow
  <1>3. /\ tree' \in CoreFiles /\ tree'.package = "new" /\ tree'.skills = "new"
        /\ tree'.deps = "new"
        /\ tree' = [tree EXCEPT !.baselines = "new"] => tree'.baselines = "new"
    BY <1>1, <1>2 DEF CoreFiles
  <1>4. /\ Finalizer.ran # {} => saved = Listing(process)
        /\ \A s \in Renewed(Finalizer) : process[s] = Runs(s)'
    BY <1>1, <1>2, <1>3 DEF ServicesOK, Runs
  <1> QED
    BY <1>1, <1>3, <1>4, FinalFiles DEF FinalSteps

\* The upgrade is over: both contexts are idle again and only the report counts.
LEMMA ItIsOver ==
    ASSUME SInv, ctx' = [first |-> Fresh("idle"), finalizer |-> Fresh("idle")],
           UNCHANGED <<tree, process>>, saved' \in [Services -> {"online", "stopped", "absent"}],
           outcome' \in Outcomes, outcome'.result # "none",
           SelfUpgradeIsWhole'
    PROVE  SInv'
  <1>1. /\ First' = Fresh("idle") /\ Finalizer' = Fresh("idle")
        /\ Fresh("idle").pc = "idle" /\ Fresh("idle").ran = {} /\ Fresh("idle").started = {}
    BY DEF First, Finalizer, Fresh
  <1>2. Fresh("idle") \in SelfContexts(FirstPlaces) /\ Fresh("idle") \in SelfContexts(FinalPlaces)
    BY DEF Fresh, SelfContexts, FirstPlaces, FinalPlaces
  <1>3. SelfTypes'
    BY <1>2 DEF SInv, SelfTypes
  <1>4. Turns' /\ FirstOK'
    BY <1>1 DEF Turns, FirstOK, Finals, FinalSteps, Restoring
  <1>5. FinalOK' /\ RollOK(First)' /\ RollOK(Finalizer)'
    BY <1>1 DEF FinalOK, RollOK, Undone, Finals, FinalSteps, Restoring
  <1> QED
    BY <1>3, <1>4, <1>5 DEF SInv

LEMMA WriteResultKeeps == ASSUME SInv, WriteResult PROVE SInv'
  <1>1. /\ Finalizer.pc = "print" /\ Finalizer.pc \in FinalSteps
        /\ UNCHANGED <<tree, process, saved>>
        /\ outcome' = [result |-> "success", clean |-> TRUE, ran |-> Finalizer.ran,
                       started |-> Finalizer.started, killed |-> FALSE]
        /\ ctx' = [first |-> Fresh("idle"), finalizer |-> Fresh("idle")]
    BY DEF WriteResult, Outcome, Finalizer, FinalSteps
  <1>2. /\ tree.package = "new" /\ tree.skills = "new" /\ tree.baselines = "new"
        /\ tree.deps = "new" /\ ServicesOK(Finalizer) /\ Finalizer \in SelfContexts(FinalPlaces)
        /\ saved \in [Services -> {"online", "stopped", "absent"}] /\ process \in Processes
    BY <1>1, FinalNow
  <1>3. outcome' \in Outcomes /\ outcome'.result = "success"
    BY <1>1, <1>2 DEF Outcomes, SelfContexts
  <1>4. \A s \in Renewed(Finalizer) : process[s] = Runs(s) /\ saved[s] = "online"
    <2> SUFFICES ASSUME NEW s \in Renewed(Finalizer)
                 PROVE  process[s] = Runs(s) /\ saved[s] = "online"
      OBVIOUS
    <2>1. process[s] = Runs(s) /\ Finalizer.ran # {}
      BY <1>1, <1>2 DEF ServicesOK, Renewed
    <2>2. saved = Listing(process) /\ s \in Services
      BY <1>1, <1>2, <2>1 DEF ServicesOK, Renewed, SelfContexts
    <2> QED
      BY <1>2, <2>1, <2>2 DEF Listing, Runs, Running, CoreTrees
  <1>5. SelfSuccessIsWhole'
    BY <1>1, <1>2, <1>4 DEF SelfSuccessIsWhole, Renewed, Runs
  <1>6. SelfUpgradeIsWhole'
    BY <1>3, <1>5 DEF SelfUpgradeIsWhole, SelfRollbackRestores
  <1> QED
    BY <1>1, <1>2, <1>3, <1>6, ItIsOver

LEMMA InterruptedRow ==
    ASSUME process \in Processes, NEW q \in Interrupted(Finalizer)
    PROVE  q \in Processes
  <1>1. Restarted({}, Finalizer.todo) \cup Restarted({}, Finalizer.ran) \subseteq Processes
    BY RestartedRow
  <1>2. \A gone : Deleted(gone) \in Processes
    BY DEF Deleted, Processes
  <1> QED
    BY <1>1, <1>2 DEF Interrupted

LEMMA KillFinalizerKeeps == ASSUME SInv, KillFinalizer PROVE SInv'
  <1> DEFINE d == [First EXCEPT !.pc = "undoPackage"]
             n == Fresh("killed")
  <1>0. /\ tree.skills \in CoreTrees /\ tree.package \in CoreTrees /\ tree.baselines \in CoreTrees
        /\ tree.deps \in CoreTrees /\ tree.config \in CoreTrees /\ "mixed" \in CoreTrees
        /\ process \in Processes /\ saved \in [Services -> {"online", "stopped", "absent"}]
    BY DEF SInv, SelfTypes, CoreFiles, CoreTrees, Processes
  <1>1. /\ Finalizer.pc \notin {"idle", "killed"} /\ outcome' = outcome
        /\ process' \in Processes /\ saved' \in [Services -> {"online", "stopped", "absent"}]
        /\ ctx' = [first |-> d, finalizer |-> n]
        /\ \E skills \in CoreTrees, package \in CoreTrees, baselines \in CoreTrees,
              deps \in CoreTrees, config \in CoreTrees :
              tree' = [tree EXCEPT !.skills = skills, !.package = package,
                                   !.baselines = baselines, !.deps = deps, !.config = config]
    <2>1. /\ Finalizer.pc \notin {"idle", "killed"} /\ outcome' = outcome
          /\ ctx' = [first |-> d, finalizer |-> n]
          /\ process' \in Interrupted(Finalizer) /\ saved' \in {saved, Listing(process)}
      BY DEF KillFinalizer, First, Finalizer
    <2>2. PICK skills \in {tree.skills, "mixed"}, package \in {tree.package, "mixed"},
               baselines \in {tree.baselines, "mixed"}, deps \in {tree.deps, "mixed"},
               config \in {tree.config, "mixed"} :
             tree' = [tree EXCEPT !.skills = skills, !.package = package,
                                  !.baselines = baselines, !.deps = deps, !.config = config]
      BY DEF KillFinalizer
    <2>3. /\ skills \in CoreTrees /\ package \in CoreTrees /\ baselines \in CoreTrees
          /\ deps \in CoreTrees /\ config \in CoreTrees
      BY <1>0, <2>2
    <2>4. Listing(process) \in [Services -> {"online", "stopped", "absent"}]
      BY <1>0 DEF Listing, Processes
    <2>5. process' \in Processes /\ saved' \in [Services -> {"online", "stopped", "absent"}]
      BY <1>0, <2>1, <2>4, InterruptedRow
    <2> QED
      BY <2>1, <2>2, <2>3, <2>5
  <1>2. /\ SelfTypes /\ Turns /\ FirstOK /\ tree \in CoreFiles
        /\ First \in SelfContexts(FirstPlaces) /\ Finalizer \in SelfContexts(FinalPlaces)
    BY BecomesOne DEF SInv, SelfTypes
  <1>3. First.pc = "wait" /\ outcome.result = "none"
    BY <1>1, <1>2 DEF Turns, SelfContexts, FinalPlaces, Finals
  <1>4. /\ d \in SelfContexts(FirstPlaces) /\ d.pc = "undoPackage" /\ d.backup = First.backup
        /\ d.ran = First.ran /\ d.started = First.started
    BY <1>2 DEF SelfContexts, FirstPlaces, Restoring
  <1>5. n \in SelfContexts(FinalPlaces) /\ n.pc = "killed"
    BY DEF Fresh, SelfContexts, FinalPlaces
  <1> HIDE DEF d, n
  <1>6. First' = d /\ Finalizer' = n
    BY <1>1 DEF First, Finalizer
  <1>7. tree' \in CoreFiles
    BY <1>1, <1>2 DEF CoreFiles
  <1>8. SelfTypes'
    BY <1>1, <1>2, <1>4, <1>5, <1>7 DEF SelfTypes, Processes
  <1>9. Turns'
    BY <1>1, <1>3, <1>4, <1>5, <1>6 DEF Turns, Finals, FinalSteps, Restoring
  <1>10. FirstOK'
    BY <1>2, <1>3, <1>4, <1>5, <1>6 DEF FirstOK
  <1>11. FinalOK' /\ RollOK(First)' /\ RollOK(Finalizer)'
    BY <1>4, <1>5, <1>6 DEF FinalOK, RollOK, Undone, Finals, FinalSteps, Restoring
  <1>12. SelfUpgradeIsWhole'
    BY <1>1, <1>3 DEF SelfUpgradeIsWhole, SelfSuccessIsWhole, SelfRollbackRestores
  <1> QED
    BY <1>8, <1>9, <1>10, <1>11, <1>12 DEF SInv

\* What every part of a rollback starts from, whichever process runs it.
LEMMA RollNow ==
    ASSUME SInv, NEW p \in {"first", "finalizer"}, ctx[p].pc \in Restoring
    PROVE  /\ tree \in CoreFiles /\ process \in Processes /\ outcome.result = "none"
           /\ saved \in [Services -> {"online", "stopped", "absent"}]
           /\ ctx[p] \in SelfContexts(Restoring)
           /\ ctx[p].ran \subseteq CoreServices \cup OwnServices
           /\ ctx[p].started \subseteq AddedServices
           /\ ctx[p].backup \/ (OldTree /\ ctx[p].ran = {})
           /\ ctx[p].clean =>
                 /\ Undone(ctx[p].pc, ctx[p].ran, Finalizer.pc = "killed")
                 /\ ctx[p].pc = "undoSave" /\ ctx[p].ran # {} => ctx[p].relisted
           /\ Finalizer.pc = "killed" \/ \A s \in AddedServices :
                 /\ process[s] = "absent" \/ s \in ctx[p].started
                 /\ ctx[p].ran = {} => saved[s] = "absent"
  <1>1. CASE p = "first"
    <2>1. /\ First.pc \in Restoring /\ ctx[p] = First /\ First \in SelfContexts(FirstPlaces)
          /\ First.pc \notin {"idle", "wait"}
      BY <1>1, BecomesOne DEF SInv, Restoring
    <2>2. First \in SelfContexts(Restoring)
      BY <2>1 DEF SelfContexts
    <2>3. outcome.result = "none" /\ FirstOK /\ RollOK(First)
      BY <2>1 DEF SInv, Turns
    <2>4. Finalizer.pc # "killed" => NoneAdded
      BY <2>1, <2>3 DEF FirstOK
    <2> QED
      BY <2>1, <2>2, <2>3, <2>4 DEF SInv, SelfTypes, Processes, FirstOK, RollOK, NoneAdded
  <1>2. CASE p = "finalizer"
    <2>1. /\ Finalizer.pc \in Restoring /\ ctx[p] = Finalizer /\ Finalizer.pc \in Finals
          /\ Finalizer \in SelfContexts(FinalPlaces)
      BY <1>2, BecomesOne DEF SInv, Finals
    <2>2. Finalizer \in SelfContexts(Restoring)
      BY <2>1 DEF SelfContexts
    <2>3. outcome.result = "none" /\ FinalOK /\ RollOK(Finalizer)
      BY <2>1 DEF SInv, Turns
    <2>4. ServicesOK(Finalizer) /\ Finalizer.backup
          /\ Finalizer.ran \subseteq CoreServices \cup OwnServices
          /\ Finalizer.started \subseteq AddedServices
      BY <2>1, <2>3 DEF FinalOK
    <2> QED
      BY <2>1, <2>2, <2>3, <2>4 DEF SInv, SelfTypes, Processes, ServicesOK, RollOK
  <1> QED
    BY <1>1, <1>2

\* A part of a rollback, attempted by either process.
LEMMA RollMoves ==
    ASSUME SInv, NEW p \in {"first", "finalizer"}, ctx[p].pc \in Restoring,
           NEW at \in Restoring \ {"undoPackage"}, NEW clean \in BOOLEAN,
           NEW relisted \in BOOLEAN,
           Becomes(p, [ctx[p] EXCEPT !.pc = at, !.clean = clean, !.relisted = relisted]),
           tree' \in CoreFiles, process' \in Processes, UNCHANGED <<saved, outcome>>,
           ctx[p].backup \/ tree' = tree,
           \A s \in AddedServices : process'[s] \in {process[s], "absent"},
           NEW ran, ran = ctx[p].ran, NEW killed, killed = (Finalizer.pc = "killed"),
           clean => Undone(at, ran, killed)' /\ (at = "undoSave" /\ ran # {} => relisted)
    PROVE  SInv'
  <1> DEFINE d == [ctx[p] EXCEPT !.pc = at, !.clean = clean, !.relisted = relisted]
  <1>1. /\ ctx[p] \in SelfContexts(Restoring) /\ outcome.result = "none"
        /\ ctx[p].ran \subseteq CoreServices \cup OwnServices
        /\ ctx[p].started \subseteq AddedServices
        /\ ctx[p].backup \/ (OldTree /\ ctx[p].ran = {})
        /\ saved \in [Services -> {"online", "stopped", "absent"}]
        /\ Finalizer.pc = "killed" \/ \A s \in AddedServices :
              /\ process[s] = "absent" \/ s \in ctx[p].started
              /\ ctx[p].ran = {} => saved[s] = "absent"
    BY RollNow
  <1>2. /\ d \in SelfContexts(Restoring) /\ d.pc = at /\ d.backup = ctx[p].backup
        /\ d.ran = ctx[p].ran /\ d.started = ctx[p].started /\ d.clean = clean
        /\ d.relisted = relisted
    BY <1>1 DEF SelfContexts
  <1>3. Becomes(p, d)
    OBVIOUS
  <1>4. SelfContexts(Restoring) \subseteq SelfContexts(FirstPlaces)
        /\ SelfContexts(Restoring) \subseteq SelfContexts(FinalPlaces)
    BY DEF SelfContexts, FirstPlaces, FinalPlaces
  <1> HIDE DEF d
  <1>5. SelfUpgradeIsWhole'
    BY <1>1 DEF SelfUpgradeIsWhole, SelfSuccessIsWhole, SelfRollbackRestores
  <1>6. CASE p = "first"
    <2>1. /\ First' = d /\ Finalizer' = Finalizer /\ ctx[p] = First
          /\ ctx' = [first |-> d, finalizer |-> Finalizer]
          /\ Finalizer \in SelfContexts(FinalPlaces)
      BY <1>3, <1>6, BecomesOne DEF SInv, First, Finalizer
    <2>2. First.pc \in Restoring /\ First.pc \notin {"idle", "wait"} /\ d.pc \in Restoring
          /\ d.pc \notin {"idle", "wait"}
      BY <1>2, <2>1 DEF Restoring
    <2>3. Finalizer.pc \notin Finals /\ Turns /\ FirstOK
      BY <2>2 DEF SInv, Turns
    <2>4. SelfTypes'
      BY <1>1, <1>2, <1>4, <2>1 DEF SInv, SelfTypes, Processes
    <2>5. Turns'
      BY <1>1, <2>1, <2>2, <2>3 DEF Turns
    <2>6. Finalizer.pc # "killed" => NoneAdded'
      BY <2>2, <2>3 DEF FirstOK, NoneAdded
    <2>7. d.started = {} /\ d.ran \subseteq CoreServices \cup OwnServices
          /\ (d.backup \/ (OldTree /\ d.ran = {}))
          /\ (Finalizer.pc = "killed" => d.backup)
      BY <1>1, <1>2, <2>1, <2>3 DEF FirstOK
    <2>8. d.backup \/ OldTree'
      BY <1>2, <2>7 DEF OldTree
    <2>9. FirstOK'
      BY <2>1, <2>2, <2>6, <2>7, <2>8 DEF FirstOK, Restoring
    <2>10. FinalOK'
      BY <2>1, <2>3 DEF FinalOK
    <2>11. RollOK(First)'
      BY <1>2, <2>1 DEF RollOK, Undone, Runs
    <2>12. RollOK(Finalizer)'
      <3>1. Finalizer.pc \notin Restoring
        BY <2>3 DEF Finals
      <3> QED
        BY <2>1, <3>1 DEF RollOK, Undone, Restoring
    <2> QED
      BY <1>5, <2>4, <2>5, <2>9, <2>10, <2>11, <2>12 DEF SInv
  <1>7. CASE p = "finalizer"
    <2>1. /\ Finalizer' = d /\ First' = First /\ ctx[p] = Finalizer
          /\ ctx' = [first |-> First, finalizer |-> d]
          /\ First \in SelfContexts(FirstPlaces)
      BY <1>3, <1>7, BecomesOne DEF SInv, First, Finalizer
    <2>2. /\ Finalizer.pc \in Finals /\ d.pc \in Finals /\ d.pc # "killed"
          /\ d.pc \notin FinalSteps /\ Finalizer.pc # "killed"
      BY <1>2, <2>1 DEF Restoring, Finals, FinalSteps
    <2>3. First.pc = "wait" /\ Turns /\ FirstOK
      BY <2>2 DEF SInv, Turns
    <2>4. SelfTypes'
      BY <1>1, <1>2, <1>4, <2>1 DEF SInv, SelfTypes, Processes
    <2>5. Turns'
      BY <1>1, <2>1, <2>2, <2>3 DEF Turns
    <2>6. FirstOK'
      BY <2>1, <2>2, <2>3 DEF FirstOK
    <2>7. Finalizer.backup /\ ServicesOK(Finalizer)
      BY <2>2 DEF SInv, FinalOK
    <2>8. ServicesOK(Finalizer)'
      BY <1>2, <2>1, <2>2, <2>7 DEF ServicesOK, FinalSteps
    <2>9. FinalOK'
      BY <1>1, <1>2, <2>1, <2>2, <2>7, <2>8 DEF FinalOK, FinalSteps
    <2>10. RollOK(First)'
      BY <2>1, <2>3 DEF RollOK, Undone
    <2>11. RollOK(Finalizer)'
      BY <1>2, <2>1, <2>2 DEF RollOK, Undone, Runs
    <2> QED
      BY <1>5, <2>4, <2>5, <2>6, <2>9, <2>10, <2>11 DEF SInv
  <1> QED
    BY <1>6, <1>7

\* What a step of a rollback leaves, in one formula.
RollsTo(p, at, clean, relisted, ran, killed) ==
    /\ ctx[p].pc \in Restoring /\ at \in Restoring \ {"undoPackage"}
    /\ Becomes(p, [ctx[p] EXCEPT !.pc = at, !.clean = clean, !.relisted = relisted])
    /\ tree' \in CoreFiles /\ process' \in Processes /\ UNCHANGED <<saved, outcome>>
    /\ ctx[p].backup \/ tree' = tree
    /\ \A s \in AddedServices : process'[s] \in {process[s], "absent"}
    /\ ran = ctx[p].ran /\ killed = (Finalizer.pc = "killed")
    /\ clean => Undone(at, ran, killed)' /\ (at = "undoSave" /\ ran # {} => relisted)

LEMMA RollingMoves ==
    ASSUME SInv, NEW p \in {"first", "finalizer"}, NEW at, NEW clean \in BOOLEAN,
           NEW relisted \in BOOLEAN, NEW ran, NEW killed,
           RollsTo(p, at, clean, relisted, ran, killed)
    PROVE  SInv'
  <1>1. /\ ctx[p].pc \in Restoring /\ at \in Restoring \ {"undoPackage"}
        /\ Becomes(p, [ctx[p] EXCEPT !.pc = at, !.clean = clean, !.relisted = relisted])
        /\ tree' \in CoreFiles /\ process' \in Processes /\ UNCHANGED <<saved, outcome>>
        /\ ctx[p].backup \/ tree' = tree
        /\ \A s \in AddedServices : process'[s] \in {process[s], "absent"}
        /\ ran = ctx[p].ran /\ killed = (Finalizer.pc = "killed")
    BY DEF RollsTo
  <1>2. clean => Undone(at, ran, killed)' /\ (at = "undoSave" /\ ran # {} => relisted)
    BY DEF RollsTo
  <1> QED
    BY <1>1, <1>2, RollMoves, ZenonT(30)

\* A part that restores files, or fails to.
LEMMA RestoresKeep ==
    ASSUME SInv, NEW p \in {"first", "finalizer"}, NEW step \in Restoring,
           NEW at \in Restoring \ {"undoPackage", "undoSave"}, NEW done, NEW left,
           Restores(p, step, at, done, left),
           done \in CoreFiles, left \subseteq CoreFiles, ctx[p].backup \/ done = tree,
           NEW killed, killed = (Finalizer.pc = "killed"), NEW ran, ran = ctx[p].ran,
           ctx[p].clean /\ tree' = done => Undone(at, ran, killed)'
    PROVE  SInv'
  <1>1. /\ ctx[p].pc = step /\ ctx[p].pc \in Restoring
        /\ UNCHANGED <<process, saved, outcome>>
    BY DEF Restores
  <1>2. /\ ctx[p] \in SelfContexts(Restoring) /\ process \in Processes
        /\ ctx[p].clean \in BOOLEAN /\ ctx[p].relisted \in BOOLEAN
    BY <1>1, RollNow DEF SelfContexts
  <1>3. CASE tree' = done /\ Becomes(p, [ctx[p] EXCEPT !.pc = at])
    <2>1. [ctx[p] EXCEPT !.pc = at]
             = [ctx[p] EXCEPT !.pc = at, !.clean = ctx[p].clean, !.relisted = ctx[p].relisted]
      BY <1>2 DEF SelfContexts
    <2>2. Becomes(p, [ctx[p] EXCEPT !.pc = at, !.clean = ctx[p].clean,
                                    !.relisted = ctx[p].relisted])
      BY <1>3, <2>1, Zenon
    <2> QED
      BY <1>1, <1>2, <1>3, <2>2, RollMoves
  <1>4. CASE /\ tree' \in left /\ ctx[p].backup
             /\ Becomes(p, [ctx[p] EXCEPT !.pc = at, !.clean = FALSE])
    <2>1. [ctx[p] EXCEPT !.pc = at, !.clean = FALSE]
             = [ctx[p] EXCEPT !.pc = at, !.clean = FALSE, !.relisted = ctx[p].relisted]
      BY <1>2 DEF SelfContexts
    <2>2. Becomes(p, [ctx[p] EXCEPT !.pc = at, !.clean = FALSE, !.relisted = ctx[p].relisted])
      BY <1>4, <2>1, Zenon
    <2> QED
      BY <1>1, <1>2, <1>4, <2>2, RollMoves
  <1> QED
    BY <1>3, <1>4 DEF Restores

LEMMA RestorePackageKeeps ==
    ASSUME SInv, NEW p \in {"first", "finalizer"}, RestorePackage(p) PROVE SInv'
  <1> DEFINE done == IF ctx[p].backup THEN [tree EXCEPT !.package = "old"] ELSE tree
             left == {[tree EXCEPT !.package = v] : v \in {tree.package, "mixed"}}
  <1>1. Restores(p, "undoPackage", "undoSkills", done, left)
    BY DEF RestorePackage
  <1>2. /\ ctx[p].pc \in Restoring /\ UNCHANGED process
    BY <1>1 DEF Restores, Restoring
  <1>3. tree \in CoreFiles /\ (ctx[p].backup \/ tree.package = "old")
    BY <1>2, RollNow DEF OldTree
  <1>4. done \in CoreFiles /\ left \subseteq CoreFiles /\ done.package = "old"
    BY <1>3 DEF CoreFiles, CoreTrees
  <1>5. ctx[p].backup \/ done = tree
    OBVIOUS
  <1> HIDE DEF done, left
  <1>6. PICK killed, ran : killed = (Finalizer.pc = "killed") /\ ran = ctx[p].ran
    OBVIOUS
  <1>7. tree' = done => Undone("undoSkills", ran, killed)'
    BY <1>4 DEF Undone
  <1> QED
    BY <1>1, <1>4, <1>5, <1>6, <1>7, RestoresKeep DEF Restoring

LEMMA RestoreSkillsKeeps ==
    ASSUME SInv, NEW p \in {"first", "finalizer"}, RestoreSkills(p) PROVE SInv'
  <1> DEFINE done == IF ctx[p].backup THEN [tree EXCEPT !.skills = "old", !.baselines = "old"]
                     ELSE tree
             left == {[tree EXCEPT !.skills = v, !.baselines = v] : v \in {"mixed"}} \cup {tree}
  <1>1. Restores(p, "undoSkills", "undoEcosystem", done, left)
    BY DEF RestoreSkills
  <1>2. /\ ctx[p].pc = "undoSkills" /\ ctx[p].pc \in Restoring
    BY <1>1 DEF Restores, Restoring
  <1>3. /\ tree \in CoreFiles
        /\ ctx[p].backup \/ (tree.skills = "old" /\ tree.baselines = "old")
        /\ ctx[p].clean => Undone("undoSkills", ctx[p].ran, Finalizer.pc = "killed")
    BY <1>2, RollNow DEF OldTree
  <1>4. /\ done \in CoreFiles /\ done.skills = "old" /\ done.baselines = "old"
        /\ done.package = tree.package
    BY <1>3 DEF CoreFiles, CoreTrees
  <1>5. left \subseteq CoreFiles
    <2>1. \A v \in {"mixed"} : [tree EXCEPT !.skills = v, !.baselines = v] \in CoreFiles
      BY <1>3 DEF CoreFiles, CoreTrees
    <2> QED
      BY <1>3, <2>1
  <1>6. ctx[p].backup \/ done = tree
    OBVIOUS
  <1> HIDE DEF done, left
  <1>7. PICK killed, ran : killed = (Finalizer.pc = "killed") /\ ran = ctx[p].ran
    OBVIOUS
  <1>8. ctx[p].clean /\ tree' = done => Undone("undoEcosystem", ran, killed)'
    BY <1>3, <1>4 DEF Undone
  <1> QED
    BY <1>1, <1>4, <1>5, <1>6, <1>7, <1>8, RestoresKeep DEF Restoring

LEMMA RestoreEcosystemKeeps ==
    ASSUME SInv, NEW p \in {"first", "finalizer"}, RestoreEcosystem(p) PROVE SInv'
  <1> DEFINE done == IF ctx[p].backup THEN [tree EXCEPT !.ecosystem = "old"] ELSE tree
  <1>1. Restores(p, "undoEcosystem", "undoAdded", done, {tree})
    BY DEF RestoreEcosystem
  <1>2. /\ ctx[p].pc = "undoEcosystem" /\ ctx[p].pc \in Restoring
    BY <1>1 DEF Restores, Restoring
  <1>3. /\ tree \in CoreFiles
        /\ ctx[p].backup \/ tree.ecosystem = "old"
        /\ ctx[p].clean => Undone("undoEcosystem", ctx[p].ran, Finalizer.pc = "killed")
    BY <1>2, RollNow DEF OldTree
  <1>4. /\ done \in CoreFiles /\ done.ecosystem = "old" /\ done.skills = tree.skills
        /\ done.package = tree.package /\ done.baselines = tree.baselines
    BY <1>3 DEF CoreFiles, CoreReleases
  <1>5. ctx[p].backup \/ done = tree
    OBVIOUS
  <1> HIDE DEF done
  <1>6. PICK killed, ran : killed = (Finalizer.pc = "killed") /\ ran = ctx[p].ran
    OBVIOUS
  <1>7. ctx[p].clean /\ tree' = done => Undone("undoAdded", ran, killed)'
    BY <1>3, <1>4 DEF Undone
  <1>8. {tree} \subseteq CoreFiles
    BY <1>3
  <1> QED
    BY <1>1, <1>4, <1>5, <1>6, <1>7, <1>8, RestoresKeep DEF Restoring

LEMMA RemoveAddedKeeps ==
    ASSUME SInv, NEW p \in {"first", "finalizer"}, RemoveAdded(p) PROVE SInv'
  <1>1. /\ ctx[p].pc = "undoAdded" /\ ctx[p].pc \in Restoring
        /\ UNCHANGED <<tree, saved, outcome>>
    BY DEF RemoveAdded, Restoring
  <1>2. /\ tree \in CoreFiles /\ process \in Processes /\ ctx[p].clean \in BOOLEAN
        /\ ctx[p].ran \subseteq CoreServices \cup OwnServices
        /\ ctx[p].started \subseteq AddedServices
        /\ ctx[p].clean => Undone("undoAdded", ctx[p].ran, Finalizer.pc = "killed")
        /\ Finalizer.pc = "killed" \/
              \A s \in AddedServices : process[s] = "absent" \/ s \in ctx[p].started
    BY <1>1, RollNow DEF SelfContexts
  <1> DEFINE added == ctx[p].started \ ctx[p].ran
  <1>3. PICK kept \in SUBSET added :
           /\ process' = Deleted(added \ kept)
           /\ Becomes(p, [ctx[p] EXCEPT !.pc = "undoServices", !.clean = @ /\ kept = {},
                                        !.relisted = @ \/ added \ kept # {}])
    BY DEF RemoveAdded
  <1>4. PICK clean \in BOOLEAN, relisted \in BOOLEAN :
           /\ clean => ctx[p].clean /\ kept = {}
           /\ Becomes(p, [ctx[p] EXCEPT !.pc = "undoServices", !.clean = clean,
                                        !.relisted = relisted])
    <2>1. (ctx[p].clean /\ kept = {}) \in BOOLEAN
          /\ (ctx[p].relisted \/ added \ kept # {}) \in BOOLEAN
      OBVIOUS
    <2> QED
      BY <1>3, <2>1, Zenon
  <1>6. process' \in Processes
    BY <1>2, <1>3 DEF Processes, Deleted
  <1>7. \A s \in AddedServices : process'[s] \in {process[s], "absent"}
    BY <1>3 DEF Services, Deleted
  <1>8. kept = {} => \A s \in ctx[p].started : process'[s] = "absent"
    <2>1. ctx[p].started \ ctx[p].ran = ctx[p].started /\ ctx[p].started \subseteq Services
      BY <1>2, SelfUpgradeAssumption DEF Services
    <2> QED
      BY <1>3, <2>1 DEF Deleted
  <1>9. PICK killed, ran : killed = (Finalizer.pc = "killed") /\ ran = ctx[p].ran
    OBVIOUS
  <1>10. clean => Undone("undoServices", ran, killed)'
    <2>1. clean /\ ~killed => \A s \in AddedServices : process'[s] = "absent"
      BY <1>2, <1>4, <1>7, <1>8, <1>9
    <2> QED
      BY <1>1, <1>2, <1>4, <1>9, <2>1 DEF Undone
  <1>11. tree' \in CoreFiles /\ tree' = tree
    BY <1>1, <1>2
  <1>12. "undoServices" \in Restoring \ {"undoPackage"} /\ ctx[p].pc \in Restoring
    BY <1>1 DEF Restoring
  <1>13. RollsTo(p, "undoServices", clean, relisted, ran, killed)
    BY <1>1, <1>4, <1>6, <1>7, <1>9, <1>10, <1>11, <1>12 DEF RollsTo
  <1> QED
    BY <1>12, <1>13, RollingMoves

LEMMA RestartBaselineKeeps ==
    ASSUME SInv, NEW p \in {"first", "finalizer"}, RestartBaseline(p) PROVE SInv'
  <1>1. /\ ctx[p].pc = "undoServices" /\ ctx[p].pc \in Restoring
        /\ UNCHANGED <<tree, saved, outcome>>
    BY DEF RestartBaseline, Restoring
  <1>2. /\ tree \in CoreFiles /\ process \in Processes /\ ctx[p].clean \in BOOLEAN
        /\ ctx[p].ran \subseteq CoreServices \cup OwnServices
        /\ ctx[p].clean => Undone("undoServices", ctx[p].ran, Finalizer.pc = "killed")
    BY <1>1, RollNow DEF SelfContexts
  <1>3. PICK failed \in SUBSET ctx[p].ran :
           /\ process' \in Restarted(ctx[p].ran \ failed, failed)
           /\ Becomes(p, [ctx[p] EXCEPT !.pc = "undoSave", !.clean = @ /\ failed = {},
                                        !.relisted = @ \/ failed # ctx[p].ran])
    BY DEF RestartBaseline
  <1>4. PICK clean \in BOOLEAN, relisted \in BOOLEAN :
           /\ clean => ctx[p].clean /\ failed = {}
           /\ failed # ctx[p].ran => relisted
           /\ Becomes(p, [ctx[p] EXCEPT !.pc = "undoSave", !.clean = clean,
                                        !.relisted = relisted])
    <2>1. (ctx[p].clean /\ failed = {}) \in BOOLEAN
          /\ (ctx[p].relisted \/ failed # ctx[p].ran) \in BOOLEAN
      OBVIOUS
    <2> QED
      BY <1>3, <2>1, Zenon
  <1>6. process' \in Processes
    BY <1>3, RestartedRow
  <1>7. \A s \in AddedServices : process'[s] = process[s]
    <2>1. \A s \in AddedServices : s \in Services /\ s \notin ctx[p].ran
      BY <1>2, SelfUpgradeAssumption DEF Services
    <2> QED
      BY <1>3, <2>1, RestartedRow
  <1>8. PICK killed, ran : killed = (Finalizer.pc = "killed") /\ ran = ctx[p].ran
    OBVIOUS
  <1>9. clean => Undone("undoSave", ran, killed)'
    <2>1. clean => \A s \in ran : process'[s] = Runs(s)'
      BY <1>1, <1>2, <1>3, <1>4, <1>8, RestartedRow DEF Runs, Services
    <2> QED
      BY <1>1, <1>2, <1>4, <1>7, <1>8, <2>1 DEF Undone
  <1>10. tree' \in CoreFiles /\ tree' = tree
    BY <1>1, <1>2
  <1>11. PICK at \in Restoring \ {"undoPackage"} : at = "undoSave"
    BY DEF Restoring
  <1>12. Becomes(p, [ctx[p] EXCEPT !.pc = at, !.clean = clean, !.relisted = relisted])
    BY <1>4, <1>11, Zenon
  <1>13. clean => /\ Undone(at, ran, killed)'
                  /\ at = "undoSave" /\ ran # {} => relisted
    BY <1>4, <1>8, <1>9, <1>11
  <1>14. \A s \in AddedServices : process'[s] \in {process[s], "absent"}
    BY <1>7
  <1>15. RollsTo(p, at, clean, relisted, ran, killed)
    BY <1>1, <1>4, <1>6, <1>8, <1>10, <1>12, <1>13, <1>14 DEF RollsTo
  <1> QED
    BY <1>11, <1>15, RollingMoves

LEMMA SaveRollbackKeeps ==
    ASSUME SInv, NEW p \in {"first", "finalizer"}, SaveRollback(p) PROVE SInv'
  <1>1. /\ ctx[p].pc = "undoSave" /\ ctx[p].pc \in Restoring
        /\ UNCHANGED <<tree, process>>
        /\ ctx' = [first |-> Fresh("idle"), finalizer |-> Fresh("idle")]
    BY DEF SaveRollback, Restoring
  <1>2. PICK done \in BOOLEAN :
           /\ saved' = IF ctx[p].relisted /\ done THEN Listing(process) ELSE saved
           /\ outcome' = [result |-> "failed", clean |-> ctx[p].clean /\ (ctx[p].relisted => done),
                          ran |-> ctx[p].ran, started |-> ctx[p].started,
                          killed |-> Finalizer.pc = "killed"]
    BY DEF SaveRollback, Outcome, Finalizer
  <1>3. /\ process \in Processes /\ ctx[p] \in SelfContexts(Restoring)
        /\ saved \in [Services -> {"online", "stopped", "absent"}]
        /\ ctx[p].clean => /\ Undone("undoSave", ctx[p].ran, Finalizer.pc = "killed")
                           /\ ctx[p].ran # {} => ctx[p].relisted
        /\ Finalizer.pc = "killed" \/
              \A s \in AddedServices : ctx[p].ran = {} => saved[s] = "absent"
    BY <1>1, RollNow
  <1>4. /\ ctx[p].clean \in BOOLEAN /\ ctx[p].relisted \in BOOLEAN /\ ctx[p].ran \in SUBSET Services
        /\ ctx[p].started \in SUBSET Services
    BY <1>3 DEF SelfContexts
  <1>5. saved' \in [Services -> {"online", "stopped", "absent"}]
    BY <1>2, <1>3 DEF Listing, Processes
  <1>6. PICK clean \in BOOLEAN, killed \in BOOLEAN :
           /\ clean <=> ctx[p].clean /\ (ctx[p].relisted => done)
           /\ killed <=> Finalizer.pc = "killed"
           /\ outcome' = [result |-> "failed", clean |-> clean, ran |-> ctx[p].ran,
                          started |-> ctx[p].started, killed |-> killed]
    <2>1. /\ (ctx[p].clean /\ (ctx[p].relisted => done)) \in BOOLEAN
          /\ (Finalizer.pc = "killed") \in BOOLEAN
      OBVIOUS
    <2> QED
      BY <1>2, <2>1, Zenon
  <1>7. outcome' \in Outcomes /\ outcome'.result = "failed"
    BY <1>4, <1>6 DEF Outcomes
  <1>8. SelfRollbackRestores'
    <2> SUFFICES ASSUME clean
                 PROVE  SelfRollbackRestores'
      BY <1>6 DEF SelfRollbackRestores
    <2>1. /\ Undone("undoSave", ctx[p].ran, Finalizer.pc = "killed")
          /\ ctx[p].ran # {} => saved' = Listing(process)
          /\ saved' \in {saved, Listing(process)}
      BY <1>2, <1>3, <1>4, <1>6
    <2>2. /\ tree.package = "old" /\ tree.skills = "old" /\ tree.baselines = "old"
          /\ tree.ecosystem = "old"
      BY <2>1 DEF Undone
    <2>3. \A s \in ctx[p].ran :
             process[s] = (IF s \in OwnServices THEN "own" ELSE "old") /\ saved'[s] = "online"
      BY <1>4, <2>1, <2>2 DEF Undone, Runs, Listing, Running, CoreTrees
    <2>4. killed \/ \A s \in AddedServices : process[s] = "absent" /\ saved'[s] = "absent"
      BY <1>3, <1>6, <2>1 DEF Undone, Listing, Services, Running, CoreTrees
    <2> QED
      BY <1>1, <1>6, <2>2, <2>3, <2>4 DEF SelfRollbackRestores
  <1>9. SelfUpgradeIsWhole'
    BY <1>7, <1>8 DEF SelfUpgradeIsWhole, SelfSuccessIsWhole
  <1> QED
    BY <1>1, <1>5, <1>7, <1>9, ItIsOver

LEMMA SelfNextKeeps == ASSUME SInv, SelfNext PROVE SInv'
  BY SelfStartKeeps, VerifyTargetKeeps, BackupCoreKeeps, StopCoreKeeps, NpmGlobalKeeps,
     SyncSkillsKeeps, SkillDepsKeeps, ConfigureKeeps, PrepareKeeps, RestartKeeps, SaveListKeeps,
     VerifyServicesKeeps, VerifyRepliesKeeps, BaselinesKeeps, WriteResultKeeps,
     KillFinalizerKeeps, RestorePackageKeeps, RestoreSkillsKeeps, RestoreEcosystemKeeps,
     RemoveAddedKeeps, RestartBaselineKeeps, SaveRollbackKeeps
  DEF SelfNext, SelfRollback

LEMMA SelfStutters == ASSUME SInv, UNCHANGED selfVars PROVE SInv'
  <1>1. /\ UNCHANGED <<tree, process, saved, ctx, outcome>>
        /\ First' = First /\ Finalizer' = Finalizer
    BY DEF selfVars, First, Finalizer
  <1>2. SelfTypes' /\ Turns' /\ FirstOK'
    BY <1>1 DEF SInv, SelfTypes, Turns, OldTree, NoneAdded, FirstOK
  <1>3. FinalOK'
    BY <1>1 DEF SInv, FinalOK, ServicesOK, Renewed, Runs, Listing
  <1>4. RollOK(First)' /\ RollOK(Finalizer)'
    BY <1>1 DEF SInv, RollOK, Undone, Runs
  <1>5. SelfUpgradeIsWhole'
    BY <1>1 DEF SInv, SelfUpgradeIsWhole, SelfSuccessIsWhole, SelfRollbackRestores
  <1> QED
    BY <1>2, <1>3, <1>4, <1>5 DEF SInv

LEMMA SelfTypesAreOK == SInv => SelfTypeOK
  <1> SUFFICES ASSUME SInv PROVE SelfTypeOK
    OBVIOUS
  <1>1. SelfTypes
    BY DEF SInv
  <1>2. ctx \in [first : [pc : {"idle"} \cup FirstSteps \cup Restoring, backup : BOOLEAN,
                          ran : SUBSET Services, started : SUBSET Services,
                          todo : SUBSET Services, relisted : BOOLEAN, clean : BOOLEAN],
                 finalizer : [pc : {"idle", "killed"} \cup FinalSteps \cup Restoring,
                              backup : BOOLEAN, ran : SUBSET Services,
                              started : SUBSET Services, todo : SUBSET Services,
                              relisted : BOOLEAN, clean : BOOLEAN]]
    BY <1>1 DEF SelfTypes, SelfContexts, FirstPlaces, FinalPlaces
  <1> QED
    BY <1>1, <1>2 DEF SelfTypeOK, SelfTypes, CoreFiles, Outcomes

-----------------------------------------------------------------------------
(* The three programs *)

IInv == LockInv /\ CInv /\ SInv

LEMMA InitIInv == Init => IInv
  BY LockStarts, CInit, SInit DEF Init, IInv

LEMMA NextIInv == IInv /\ [Next]_vars => IInv'
  <1> SUFFICES ASSUME IInv, [Next]_vars
               PROVE  IInv'
    OBVIOUS
  <1>1. [LockNext]_lockVars
    BY DEF Next, vars, IsRun
  <1>2. ComponentNext \/ UNCHANGED componentVars
    BY DEF Next, vars, IsRun
  <1>3. SelfNext \/ UNCHANGED selfVars
    BY DEF Next, vars, IsRun
  <1> QED
    BY <1>1, <1>2, <1>3, LockKeeps, ComponentNextKeeps, ComponentStutters, SelfNextKeeps,
       SelfStutters DEF IInv

\* The invariants of the three programs hold together.
THEOREM IInvHolds == Spec => []IInv
  BY InitIInv, NextIInv, PTL DEF Spec

\* The files, PM2's list, the journal and the contexts of the upgrades are what their programs
\* write, for any services, processes, attempts and crashes.
THEOREM TypesHold == Spec => []TypeOK
  <1>1. IInv => TypeOK
    BY ComponentTypesAreOK, SelfTypesAreOK DEF IInv, LockInv, TypeOK
  <1> QED
    BY <1>1, IInvHolds, PTL

\* Whatever fails and wherever a process dies, an upgrade that reports success or a clean
\* rollback left one whole release, of a component or of Core, and the next merge starts from a
\* baseline that is not behind what the component's files say they are
\* (upgrade.js:1201-1302, manifest.js:191-252, self-upgrade.js:1883-2003).
THEOREM InstallationStaysWhole == Spec => []InstallationIsWhole
  <1>1. IInv => InstallationIsWhole
    BY DEF IInv, CInv, BaselineOK, MetaOK, ReportOK, SInv, InstallationIsWhole, BaselineLeads
  <1> QED
    BY <1>1, IInvHolds, PTL
=============================================================================
