-------------------------- MODULE InstallationProofs --------------------------
(* What the programs that an operator runs on a host by hand guarantee, for any number of       *)
(* processes, commands, files and runs, and for all bounds.                                     *)
EXTENDS MCInstallation, FiniteSetTheorems, TLAPS

-----------------------------------------------------------------------------
(* HxaUpgrade: the inductive invariant *)

FileStates == Bound \cup {"missing", "mixed"}
UpgradePlaces == {"check", "stage", "recheck", "install", "commit", "postcheck"}
RestorePlaces == {"validate", "place", "read", "write", "start", "verify"}
ScriptRow == [at : {"idle", "lock"} \cup UpgradePlaces \cup RestorePlaces,
              existing : BOOLEAN, before : FileStates, copy : [Targets -> Bound]]
ToldRow == [result : Results, files : FileStates, marker : Bound, before : FileStates]

HxaRows ==
    /\ files \in [Targets -> FileStates]
    /\ marker \in [Targets -> Bound]
    /\ registry \in [Targets -> Bound]
    /\ online \in SUBSET Targets
    /\ journal \in BOOLEAN
    /\ excused \in BOOLEAN
    /\ told \in [Upgraders -> ToldRow]
    /\ scriptRuns \in 0..MaxScriptRuns
    /\ scriptCrashes \in 0..MaxScriptCrashes

\* Who is past its lock holds it, and nobody else holds a lock.
Working(s) == script[s].at \notin {"idle", "lock"}
LocksAreHeld ==
    /\ script \in [Scripts -> ScriptRow]
    /\ scriptLocks \in [ScriptLocks -> Scripts \cup {NoScript, Stale}]
    /\ \A s \in Scripts : Working(s) => scriptLocks[LockOf(s)] = s
    /\ \A l \in ScriptLocks, s \in Scripts : scriptLocks[l] = s => l = LockOf(s) /\ Working(s)

\* An upgrader does not restore, nor a restorer upgrade; the command does not check beforehand.
ScriptsArePlaced ==
    /\ \A s \in Restorers : script[s].at \notin UpgradePlaces
    /\ \A s \in Upgraders : script[s].at \notin RestorePlaces
    /\ script[Command].at \in {"idle", "lock", "install", "commit"}

\* The other components are only ever put back.
OthersArePinned ==
    /\ files["others"] \in {"pinned", "missing"}
    /\ registry["others"] = "pinned"
    /\ \A s \in Scripts : script[s].copy["others"] = "pinned"

\* What is to be committed stays installed.
CommitIsInstalled ==
    \A s \in Upgraders : script[s].at \in {"commit", "postcheck"} => files["hxa"] = "next"

\* As long as nothing is excused, a restorer runs beside no upgrade that has begun its work, its
\* copy of the registry is not stale, and the registry names what is installed or will be.
InOrder ==
    /\ \A s \in Restorers : script[s].at # "idle" =>
          script[Command].at = "idle" /\ script[Upgrader].at \in {"idle", "lock", "check"}
    /\ journal => files["hxa"] = "next"
    /\ \/ files["hxa"] \notin Bound \/ registry["hxa"] = files["hxa"] \/ journal
       \/ \E s \in Upgraders : script[s].at = "commit"
    /\ \A s \in Restorers : script[s].at = "write" => script[s].copy["hxa"] = registry["hxa"]
    /\ script[HxaRestorer].at \in {"place", "read", "write"} => registry["hxa"] = "pinned"
AllIsNamed == ~excused => InOrder

HxaInv ==
    /\ HxaRows /\ LocksAreHeld /\ ScriptsArePlaced /\ OthersArePinned /\ CommitIsInstalled
    /\ ReportsTellTruth /\ AllIsNamed

-----------------------------------------------------------------------------
(* HxaUpgrade: what a step does to the scripts and to their locks *)

LEMMA ScriptFacts ==
    /\ Upgraders \subseteq Scripts /\ Restorers \subseteq Scripts
    /\ Scripts = {Upgrader, Command, HxaRestorer, OthersRestorer}
    /\ \A s \in Scripts : LockOf(s) \in ScriptLocks /\ TargetOf(s) \in Targets
    /\ \A s \in Scripts : s \in Restorers <=> s \notin Upgraders
    /\ \A s \in Scripts : s # NoScript /\ s # Stale
    /\ Waits \in ScriptRow
  BY StaleAssumption
  DEF Scripts, Upgraders, Restorers, Upgrader, Command, HxaRestorer, OthersRestorer, LockOf,
      TargetOf, ScriptLocks, Targets, NoScript, Waits, ScriptRow, FileStates, Bound

\* The parts of the invariant that a step on the scripts and locks alone can disturb.
Scripted == LocksAreHeld /\ ScriptsArePlaced
Suits(s, row) ==
    /\ row \in ScriptRow
    /\ s \in Restorers => row.at \notin UpgradePlaces
    /\ s \in Upgraders => row.at \notin RestorePlaces
    /\ s = Command => row.at \in {"idle", "lock", "install", "commit"}

LEMMA ScriptMoves ==
    ASSUME Scripted, NEW s \in Scripts, NEW row, Suits(s, row),
           script' = [script EXCEPT ![s] = row], UNCHANGED scriptLocks,
           Working(s) <=> row.at \notin {"idle", "lock"}
    PROVE  Scripted' /\ script'[s] = row /\ \A t \in Scripts \ {s} : script'[t] = script[t]
  <1>1. script' \in [Scripts -> ScriptRow]
    BY DEF Scripted, LocksAreHeld, Suits
  <1>2. script'[s] = row /\ \A t \in Scripts \ {s} : script'[t] = script[t]
    BY DEF Scripted, LocksAreHeld
  <1>3. \A t \in Scripts : Working(t)' <=> Working(t)
    BY <1>2 DEF Working
  <1>4. LocksAreHeld'
    BY <1>1, <1>3 DEF Scripted, LocksAreHeld
  <1>5. ScriptsArePlaced'
    BY <1>2, ScriptFacts DEF Scripted, ScriptsArePlaced, Suits
  <1> QED
    BY <1>2, <1>4, <1>5 DEF Scripted

LEMMA ScriptEnds ==
    ASSUME Scripted, NEW s \in Scripts, NEW free \in {NoScript, Stale},
           script' = [script EXCEPT ![s] = Waits],
           scriptLocks' = [l \in ScriptLocks |->
                               IF scriptLocks[l] = s THEN free ELSE scriptLocks[l]]
    PROVE  Scripted' /\ script'[s] = Waits /\ \A t \in Scripts \ {s} : script'[t] = script[t]
  <1>1. script' \in [Scripts -> ScriptRow]
    BY ScriptFacts DEF Scripted, LocksAreHeld
  <1>2. script'[s] = Waits /\ \A t \in Scripts \ {s} : script'[t] = script[t]
    BY DEF Scripted, LocksAreHeld
  <1>3. ~Working(s)' /\ \A t \in Scripts \ {s} : Working(t)' <=> Working(t)
    BY <1>2 DEF Working, Waits
  <1>4. scriptLocks' \in [ScriptLocks -> Scripts \cup {NoScript, Stale}]
    BY DEF Scripted, LocksAreHeld
  <1>5. \A t \in Scripts : Working(t)' => scriptLocks'[LockOf(t)] = t
    BY <1>3, ScriptFacts DEF Scripted, LocksAreHeld
  <1>6. \A l \in ScriptLocks, t \in Scripts :
           scriptLocks'[l] = t => l = LockOf(t) /\ Working(t)'
    BY <1>3, ScriptFacts DEF Scripted, LocksAreHeld
  <1>7. LocksAreHeld'
    BY <1>1, <1>4, <1>5, <1>6 DEF LocksAreHeld
  <1>8. ScriptsArePlaced'
    BY <1>2, ScriptFacts
    DEF Scripted, ScriptsArePlaced, Waits, UpgradePlaces, RestorePlaces
  <1> QED
    BY <1>2, <1>7, <1>8 DEF Scripted

LEMMA ScriptTakesLock ==
    ASSUME Scripted, NEW s \in Scripts, NEW row, Suits(s, row),
           row.at \notin {"idle", "lock"}, scriptLocks[LockOf(s)] \in {NoScript, Stale},
           script' = [script EXCEPT ![s] = row],
           scriptLocks' = [scriptLocks EXCEPT ![LockOf(s)] = s]
    PROVE  Scripted' /\ script'[s] = row /\ \A t \in Scripts \ {s} : script'[t] = script[t]
  <1>1. script' \in [Scripts -> ScriptRow]
    BY DEF Scripted, LocksAreHeld, Suits
  <1>2. script'[s] = row /\ \A t \in Scripts \ {s} : script'[t] = script[t]
    BY DEF Scripted, LocksAreHeld
  <1>3. Working(s)' /\ \A t \in Scripts \ {s} : Working(t)' <=> Working(t)
    BY <1>2 DEF Working
  <1>4. scriptLocks' \in [ScriptLocks -> Scripts \cup {NoScript, Stale}]
    BY DEF Scripted, LocksAreHeld
  <1>5. \A l \in ScriptLocks :
           scriptLocks'[l] = IF l = LockOf(s) THEN s ELSE scriptLocks[l]
    BY ScriptFacts DEF Scripted, LocksAreHeld
  <1>6. \A t \in Scripts : Working(t)' => scriptLocks'[LockOf(t)] = t
    BY <1>3, <1>5, ScriptFacts DEF Scripted, LocksAreHeld
  <1>7. \A l \in ScriptLocks, t \in Scripts :
           scriptLocks'[l] = t => l = LockOf(t) /\ Working(t)'
    BY <1>3, <1>5, ScriptFacts DEF Scripted, LocksAreHeld
  <1>8. LocksAreHeld'
    BY <1>1, <1>4, <1>6, <1>7 DEF LocksAreHeld
  <1>9. ScriptsArePlaced'
    BY <1>2, ScriptFacts DEF Scripted, ScriptsArePlaced, Suits
  <1> QED
    BY <1>2, <1>8, <1>9 DEF Scripted

\* Two that have their lock do not both upgrade.
LEMMA OneUpgrades ==
    ASSUME LocksAreHeld, NEW s \in Upgraders, NEW t \in Upgraders, Working(s), Working(t)
    PROVE  s = t
  BY ScriptFacts DEF LocksAreHeld, LockOf, Upgraders, Restorers, Upgrader, Command, HxaRestorer,
     OthersRestorer

-----------------------------------------------------------------------------
(* HxaUpgrade: each action keeps the invariant *)

LEMMA HxaParts ==
    ASSUME HxaInv
    PROVE  /\ Scripted
           /\ \A c \in Targets : files[c] \in FileStates
           /\ \A c \in Targets : marker[c] \in Bound /\ registry[c] \in Bound
           /\ \A s \in Scripts : script[s] \in ScriptRow
           /\ \A s \in Upgraders : told[s] \in ToldRow
           /\ "hxa" \in Targets /\ "others" \in Targets
  BY DEF HxaInv, HxaRows, LocksAreHeld, Scripted, Targets

\* The other scripts and what they have seen are as they were.
OnlyMoves(s) == \A t \in Scripts \ {s} : script'[t] = script[t]

LEMMA EndScriptKeeps ==
    ASSUME HxaInv, NEW s \in Scripts, NEW result \in Results \ {"ROLLED_BACK"},
           EndScript(s, result), files'["hxa"] \in FileStates, marker'["hxa"] \in Bound,
           result = "PASS" /\ s \in Upgraders => files'["hxa"] = "next" /\ marker'["hxa"] = "next",
           result = "COMMITTED_HOLD" => files'["hxa"] = "next"
    PROVE  /\ Scripted' /\ script'[s] = Waits /\ OnlyMoves(s)
           /\ told' \in [Upgraders -> ToldRow] /\ ReportsTellTruth'
  <1>1. Scripted' /\ script'[s] = Waits /\ OnlyMoves(s)
    BY ScriptEnds, HxaParts DEF EndScript, OnlyMoves
  <1>2. PICK f, m : f = files'["hxa"] /\ m = marker'["hxa"]
    OBVIOUS
  <1>3. told' = [u \in Upgraders |->
                    IF u # s THEN told[u]
                    ELSE [result |-> result, files |-> f, marker |-> m,
                          before |-> script[s].before]]
    BY <1>2 DEF EndScript
  <1>4. script[s].before \in FileStates
    BY HxaParts DEF ScriptRow
  <1>5. told' \in [Upgraders -> ToldRow]
    BY <1>2, <1>3, <1>4, HxaParts DEF ToldRow
  <1>6. ReportsTellTruth'
    BY <1>2, <1>3 DEF HxaInv, ReportsTellTruth
  <1> QED
    BY <1>1, <1>5, <1>6

\* A step that leaves alone what is installed, and begins neither a commit nor a restoration.
LEMMA QuietKeeps ==
    ASSUME HxaInv, NEW s \in Scripts, UNCHANGED <<Installed, Counted>>,
           Scripted', OnlyMoves(s), told' \in [Upgraders -> ToldRow], ReportsTellTruth',
           script'[s].copy["others"] = "pinned",
           script[s].at # "commit", script'[s].at \notin {"commit", "postcheck", "write"},
           script'[s].at \in {"place", "read"} /\ s = HxaRestorer =>
               registry["hxa"] = "pinned" \/ excused,
           script[s].at # "idle",
           \/ script'[s].at \in {"idle", "check"} \/ s # Upgrader \/ excused
           \/ \A t \in Restorers : script[t].at = "idle"
    PROVE  HxaInv'
  <1>1. HxaRows'
    BY DEF HxaInv, HxaRows, Installed, Counted
  <1>2. /\ UNCHANGED <<files, marker, registry, online, journal, excused>>
    BY DEF Installed, Counted
  <1>3. OthersArePinned'
    BY <1>2 DEF OnlyMoves, HxaInv, OthersArePinned
  <1>4. CommitIsInstalled'
    BY <1>2, ScriptFacts DEF OnlyMoves, HxaInv, CommitIsInstalled
  <1>5. AllIsNamed'
    <2> SUFFICES ASSUME ~excused' PROVE InOrder'
      BY DEF AllIsNamed
    <2>1. InOrder
      BY <1>2 DEF HxaInv, AllIsNamed
    <2>2. ASSUME NEW t \in Restorers, script'[t].at # "idle"
          PROVE  script'[Command].at = "idle" /\ script'[Upgrader].at \in {"idle", "lock", "check"}
      <3>1. script[t].at # "idle"
        BY <2>2 DEF OnlyMoves, Scripts
      <3>2. script[Command].at = "idle" /\ script[Upgrader].at \in {"idle", "lock", "check"}
        BY <2>1, <3>1 DEF InOrder
      <3> QED
        BY <1>2, <2>2, <3>1, <3>2, ScriptFacts DEF OnlyMoves
    <2>3. journal' => files'["hxa"] = "next"
      BY <1>2, <2>1 DEF InOrder
    <2>4. \/ files'["hxa"] \notin Bound \/ registry'["hxa"] = files'["hxa"] \/ journal'
          \/ \E t \in Upgraders : script'[t].at = "commit"
      BY <1>2, <2>1, ScriptFacts DEF OnlyMoves, InOrder
    <2>5. \A t \in Restorers : script'[t].at = "write" => script'[t].copy["hxa"] = registry'["hxa"]
      BY <1>2, <2>1, ScriptFacts DEF OnlyMoves, InOrder
    <2>6. script'[HxaRestorer].at \in {"place", "read", "write"} => registry'["hxa"] = "pinned"
      BY <1>2, <2>1, ScriptFacts DEF OnlyMoves, InOrder
    <2> QED
      BY <2>2, <2>3, <2>4, <2>5, <2>6 DEF InOrder
  <1> QED
    BY <1>1, <1>3, <1>4, <1>5 DEF HxaInv, Scripted

LEMMA EndScriptIsQuiet ==
    ASSUME HxaInv, NEW s \in Scripts, NEW result \in Results \ {"ROLLED_BACK"},
           EndScript(s, result), UNCHANGED <<Installed, Counted>>, script[s].at \notin {"idle", "commit"},
           result = "PASS" /\ s \in Upgraders => files["hxa"] = "next" /\ marker["hxa"] = "next",
           result = "COMMITTED_HOLD" => files["hxa"] = "next"
    PROVE  HxaInv'
  <1>1. files' = files /\ marker' = marker
    BY DEF Installed
  <1>2. files'["hxa"] \in FileStates /\ marker'["hxa"] \in Bound
    BY <1>1, HxaParts
  <1>3. /\ Scripted' /\ script'[s] = Waits /\ OnlyMoves(s)
        /\ told' \in [Upgraders -> ToldRow] /\ ReportsTellTruth'
    BY <1>1, <1>2, EndScriptKeeps
  <1>4. script'[s].at = "idle" /\ script'[s].copy["others"] = "pinned"
    BY <1>3 DEF Waits, Targets
  <1> QED
    BY <1>3, <1>4, QuietKeeps

\* A script that goes on, with what is installed as it was.
LEMMA GoingOnIsQuiet ==
    ASSUME HxaInv, NEW s \in Scripts, NEW row, Suits(s, row),
           script' = [script EXCEPT ![s] = row],
           UNCHANGED <<Installed, Counted, told, scriptLocks>>,
           Working(s) <=> row.at \notin {"idle", "lock"}, row.copy["others"] = "pinned",
           script[s].at \notin {"idle", "commit"}, row.at \notin {"commit", "postcheck", "write"},
           row.at \in {"place", "read"} /\ s = HxaRestorer =>
               registry["hxa"] = "pinned" \/ excused,
           \/ row.at \in {"idle", "check"} \/ s # Upgrader \/ excused
           \/ \A t \in Restorers : script[t].at = "idle"
    PROVE  HxaInv'
  <1>1. Scripted' /\ script'[s] = row /\ OnlyMoves(s)
    BY ScriptMoves, HxaParts DEF OnlyMoves
  <1>2. told' \in [Upgraders -> ToldRow] /\ ReportsTellTruth'
    BY DEF HxaInv, HxaRows, ReportsTellTruth
  <1>3. UNCHANGED <<Installed, Counted>>
    OBVIOUS
  <1> QED
    BY <1>1, <1>2, <1>3, QuietKeeps

\* What a script is when it goes on to a place.
LEMMA GoingTo ==
    ASSUME HxaInv, NEW s \in Scripts, NEW to,
           to \in {"idle", "lock"} \cup UpgradePlaces \cup RestorePlaces,
           s \in Restorers => to \notin UpgradePlaces,
           s \in Upgraders => to \notin RestorePlaces,
           s = Command => to \in {"idle", "lock", "install", "commit"},
           ProceedsTo(s, to)
    PROVE  \E row : /\ row = [script[s] EXCEPT !.at = to] /\ Suits(s, row)
                    /\ row.at = to /\ row.copy = script[s].copy
                    /\ row.copy["others"] = "pinned"
                    /\ script' = [script EXCEPT ![s] = row]
  <1>1. script[s] \in ScriptRow /\ script[s].copy["others"] = "pinned"
    BY HxaParts DEF HxaInv, OthersArePinned
  <1> DEFINE row == [script[s] EXCEPT !.at = to]
  <1>2. row \in ScriptRow /\ row.at = to /\ row.copy = script[s].copy
    BY <1>1 DEF ScriptRow
  <1>3. script' = [script EXCEPT ![s] = row]
    BY DEF ProceedsTo
  <1> QED
    BY <1>1, <1>2, <1>3 DEF Suits

LEMMA BeginKeeps ==
    ASSUME HxaInv, NEW s \in Scripts, BeginScript(s)
    PROVE  HxaInv'
  <1>1. PICK row : /\ Suits(s, row) /\ row.at = "lock" /\ row.copy["others"] = "pinned"
                   /\ script' = [script EXCEPT ![s] = row]
    BY GoingTo DEF BeginScript, UpgradePlaces, RestorePlaces
  <1>2. UNCHANGED <<files, marker, registry, online, journal, scriptLocks, scriptCrashes>>
    BY DEF BeginScript, Installed
  <1>3. Scripted' /\ script'[s] = row /\ OnlyMoves(s)
    BY <1>1, <1>2, ScriptMoves, HxaParts DEF OnlyMoves, BeginScript, Working
  <1>4. told' \in [Upgraders -> ToldRow] /\ ReportsTellTruth'
    <2>1. told' = [u \in Upgraders |->
                IF u = s THEN [NothingTold EXCEPT !.result = "RUNNING"] ELSE told[u]]
      BY DEF BeginScript
    <2>2. [NothingTold EXCEPT !.result = "RUNNING"] \in ToldRow
      BY DEF NothingTold, ToldRow, Results, FileStates, Bound
    <2>3. told' \in [Upgraders -> ToldRow]
      BY <2>1, <2>2, HxaParts
    <2>4. ReportsTellTruth'
      BY <2>1 DEF HxaInv, ReportsTellTruth, NothingTold
    <2> QED
      BY <2>3, <2>4
  <1>5. HxaRows'
    BY <1>2, <1>4, ScriptAssumption DEF HxaInv, HxaRows, BeginScript
  <1>6. OthersArePinned'
    BY <1>1, <1>2, <1>3 DEF OnlyMoves, HxaInv, OthersArePinned
  <1>7. CommitIsInstalled'
    BY <1>1, <1>2, <1>3, ScriptFacts DEF OnlyMoves, HxaInv, CommitIsInstalled
  <1>8. AllIsNamed'
    <2> SUFFICES ASSUME ~excused' PROVE InOrder'
      BY DEF AllIsNamed
    <2>1. ~excused /\ ~Unseen(s) /\ script[s].at = "idle"
      BY DEF BeginScript, HxaInv, HxaRows
    <2>2. InOrder
      BY <2>1 DEF HxaInv, AllIsNamed
    <2>3. s \in Restorers => \A u \in Upgraders : script[u].at = "idle"
      BY <2>1, ScriptFacts DEF Unseen, Others
    <2>4. s = Command => \A t \in Restorers : script[t].at = "idle"
      BY <2>1, ScriptFacts DEF Unseen, Others, Command, Restorers, HxaRestorer, OthersRestorer
    <2>5. \A t \in Restorers : script'[t].at # "idle" =>
             script'[Command].at = "idle" /\ script'[Upgrader].at \in {"idle", "lock", "check"}
      <3> SUFFICES ASSUME NEW t \in Restorers, script'[t].at # "idle"
                   PROVE  /\ script'[Command].at = "idle"
                          /\ script'[Upgrader].at \in {"idle", "lock", "check"}
        OBVIOUS
      <3>1. CASE s = t
        BY <1>3, <2>3, <3>1, ScriptFacts DEF OnlyMoves, Upgraders
      <3>2. CASE s # t
        <4>1. /\ script[t].at # "idle" /\ s # Command
              /\ script[Command].at = "idle" /\ script[Upgrader].at \in {"idle", "lock", "check"}
          BY <1>3, <2>2, <2>4, <3>2, ScriptFacts DEF OnlyMoves, InOrder
        <4> QED
          BY <1>1, <1>3, <4>1, ScriptFacts DEF OnlyMoves
      <3> QED
        BY <3>1, <3>2
    <2> QED
      BY <1>1, <1>2, <1>3, <2>1, <2>2, <2>5, ScriptFacts DEF OnlyMoves, InOrder
  <1> QED
    BY <1>3, <1>4, <1>5, <1>6, <1>7, <1>8 DEF HxaInv, Scripted

LEMMA TakeLockKeeps ==
    ASSUME HxaInv, NEW s \in Scripts, TakeScriptLock(s)
    PROVE  HxaInv'
  <1>1. script[s].at = "lock" /\ UNCHANGED <<Installed, Counted>>
    BY DEF TakeScriptLock
  <1>2. CASE ~MayLock(s)
    <2>1. EndScript(s, "HOLD")
      BY <1>2 DEF TakeScriptLock
    <2> QED
      BY <1>1, <2>1, EndScriptIsQuiet DEF Results
  <1>3. CASE MayLock(s)
    <2>1. PICK to \in {"check", "install", "validate"} :
            /\ ProceedsTo(s, to)
            /\ s \in Restorers => to = "validate"
            /\ s = Upgrader => to = "check"
            /\ s = Command => to = "install"
      BY <1>3, ScriptFacts DEF TakeScriptLock, Upgrader, Command, Restorers, HxaRestorer,
         OthersRestorer
    <2>2. PICK row : /\ Suits(s, row) /\ row.at = to /\ row.copy["others"] = "pinned"
                     /\ script' = [script EXCEPT ![s] = row]
      BY <2>1, GoingTo, ScriptFacts DEF Upgraders, UpgradePlaces, RestorePlaces
    <2>3. scriptLocks[LockOf(s)] \in {NoScript, Stale}
      <3>1. scriptLocks[LockOf(s)] # s
        BY <1>1, ScriptFacts DEF HxaInv, LocksAreHeld, Working
      <3> QED
        BY <1>3, <3>1, ScriptFacts
        DEF MayLock, LocksAreFree, Upgrader, Command, Restorers, HxaRestorer, OthersRestorer
    <2>4. /\ scriptLocks' = [scriptLocks EXCEPT ![LockOf(s)] = s]
          /\ UNCHANGED told
      BY <1>3 DEF TakeScriptLock
    <2>5. Scripted' /\ script'[s] = row /\ OnlyMoves(s)
      BY <2>2, <2>3, <2>4, ScriptTakesLock, HxaParts DEF OnlyMoves
    <2>6. told' \in [Upgraders -> ToldRow] /\ ReportsTellTruth'
      BY <2>4 DEF HxaInv, HxaRows, ReportsTellTruth
    <2> QED
      BY <1>1, <2>1, <2>2, <2>5, <2>6, QuietKeeps
  <1> QED
    BY <1>2, <1>3

LEMMA OnlyTheUpgraderChecks ==
    ASSUME HxaInv, NEW s \in Scripts,
           script[s].at \in {"check", "stage", "recheck", "postcheck"}
    PROVE  s = Upgrader /\ s \in Upgraders
  BY ScriptFacts DEF HxaInv, ScriptsArePlaced, UpgradePlaces, Command, Upgrader, Upgraders,
     Restorers, HxaRestorer, OthersRestorer

LEMMA UpgraderGoesTo ==
    ASSUME HxaInv, NEW to \in UpgradePlaces, ProceedsTo(Upgrader, to)
    PROVE  \E row : /\ Suits(Upgrader, row) /\ row.at = to /\ row.copy["others"] = "pinned"
                    /\ script' = [script EXCEPT ![Upgrader] = row]
  <1>1. Upgrader \in Scripts /\ Upgrader \notin Restorers /\ Upgrader # Command
    BY ScriptFacts DEF Upgrader, Command, Restorers, HxaRestorer, OthersRestorer
  <1>2. to \notin RestorePlaces
    BY DEF UpgradePlaces, RestorePlaces
  <1> QED
    BY <1>1, <1>2, GoingTo

LEMMA CheckKeeps ==
    ASSUME HxaInv, NEW s \in Scripts, CheckTarget(s)
    PROVE  HxaInv'
  <1>1. script[s].at \in {"check", "recheck"} /\ UNCHANGED <<Installed, Counted>>
    BY DEF CheckTarget
  <1>2. s = Upgrader /\ s \in Upgraders
    BY <1>1, OnlyTheUpgraderChecks
  <1>3. CASE EndScript(s, "HOLD")
    BY <1>1, <1>3, EndScriptIsQuiet DEF Results
  <1>4. ASSUME NobodyElse(s), NEW to \in {"stage", "install"}, ContinuesTo(s, to)
        PROVE  HxaInv'
    <2>1. PICK row : /\ Suits(s, row) /\ row.at = to /\ row.copy["others"] = "pinned"
                     /\ script' = [script EXCEPT ![s] = row]
      <3>1. ProceedsTo(Upgrader, to) /\ to \in UpgradePlaces
        BY <1>2, <1>4 DEF ContinuesTo, UpgradePlaces
      <3> QED
        BY <1>2, <3>1, UpgraderGoesTo
    <2>2. \A t \in Restorers : script[t].at = "idle"
      BY <1>2, <1>4, ScriptFacts DEF NobodyElse, Others
    <2> QED
      BY <1>1, <1>2, <1>4, <2>1, <2>2, GoingOnIsQuiet
      DEF ContinuesTo, Working, Upgrader, HxaRestorer
  <1> QED
    BY <1>3, <1>4 DEF CheckTarget, Unproven

LEMMA StageKeeps ==
    ASSUME HxaInv, NEW s \in Scripts, StageCandidate(s)
    PROVE  HxaInv'
  <1>1. script[s].at = "stage" /\ UNCHANGED <<Installed, Counted>>
    BY DEF StageCandidate
  <1>2. s = Upgrader /\ s \in Upgraders
    BY <1>1, OnlyTheUpgraderChecks
  <1>3. CASE EndScript(s, "HOLD")
    BY <1>1, <1>3, EndScriptIsQuiet DEF Results
  <1>4. CASE ContinuesTo(s, "recheck")
    <2>1. PICK row : /\ Suits(s, row) /\ row.at = "recheck" /\ row.copy["others"] = "pinned"
                     /\ script' = [script EXCEPT ![s] = row]
      <3>1. ProceedsTo(Upgrader, "recheck") /\ "recheck" \in UpgradePlaces
        BY <1>2, <1>4 DEF ContinuesTo, UpgradePlaces
      <3> QED
        BY <1>2, <3>1, UpgraderGoesTo
    <2>2. excused \/ \A t \in Restorers : script[t].at = "idle"
      BY <1>1, <1>2 DEF HxaInv, AllIsNamed, InOrder
    <2> QED
      BY <1>1, <1>2, <1>4, <2>1, <2>2, GoingOnIsQuiet
      DEF ContinuesTo, Working, Upgrader, HxaRestorer
  <1> QED
    BY <1>3, <1>4 DEF StageCandidate

LEMMA VerifyNextKeeps ==
    ASSUME HxaInv, NEW s \in Scripts, VerifyNext(s)
    PROVE  HxaInv'
  <1>1. script[s].at = "postcheck" /\ UNCHANGED <<Installed, Counted>>
    BY DEF VerifyNext
  <1>2. files["hxa"] = "next"
    BY <1>1, OnlyTheUpgraderChecks DEF HxaInv, CommitIsInstalled
  <1>3. CASE NextIsInstalled /\ EndScript(s, "PASS")
    BY <1>1, <1>3, EndScriptIsQuiet DEF Results, NextIsInstalled
  <1>4. CASE EndScript(s, "COMMITTED_HOLD")
    BY <1>1, <1>2, <1>4, EndScriptIsQuiet DEF Results
  <1> QED
    BY <1>3, <1>4 DEF VerifyNext

LEMMA OnlyARestorerRestores ==
    ASSUME HxaInv, NEW s \in Scripts, script[s].at \in RestorePlaces
    PROVE  s \in Restorers /\ s \notin Upgraders /\ s # Upgrader /\ s # Command
  BY ScriptFacts DEF HxaInv, ScriptsArePlaced, Upgraders, Restorers, Command, Upgrader,
     HxaRestorer, OthersRestorer

LEMMA ValidateKeeps ==
    ASSUME HxaInv, NEW s \in Scripts, ValidateTarget(s)
    PROVE  HxaInv'
  <1>1. script[s].at = "validate" /\ UNCHANGED <<Installed, Counted>>
    BY DEF ValidateTarget
  <1>2. s \in Restorers /\ s \notin Upgraders /\ s # Upgrader /\ s # Command
    BY <1>1, OnlyARestorerRestores DEF RestorePlaces
  <1>3. CASE EndScript(s, "HOLD")
    BY <1>1, <1>3, EndScriptIsQuiet DEF Results
  <1>4. CASE ~EndScript(s, "HOLD")
    <2> DEFINE row == [script[s] EXCEPT !.at = "place",
                                        !.existing = files[TargetOf(s)] # "missing"]
    <2>1. /\ RegistryIsPinned(TargetOf(s)) /\ UNCHANGED <<told, scriptLocks>>
          /\ script' = [script EXCEPT ![s] = row]
      BY <1>4 DEF ValidateTarget
    <2>2. script[s] \in ScriptRow /\ script[s].copy["others"] = "pinned"
      BY HxaParts DEF HxaInv, OthersArePinned
    <2>3. Suits(s, row) /\ row.at = "place" /\ row.copy["others"] = "pinned"
      BY <1>2, <2>2 DEF Suits, ScriptRow, UpgradePlaces, RestorePlaces
    <2>4. s = HxaRestorer => registry["hxa"] = "pinned"
      BY <2>1 DEF RegistryIsPinned, TargetOf, HxaRestorer, OthersRestorer
    <2> HIDE DEF row
    <2> QED
      BY <1>1, <1>2, <2>1, <2>3, <2>4, GoingOnIsQuiet DEF Working
  <1> QED
    BY <1>3, <1>4

LEMMA VerifyRestoredKeeps ==
    ASSUME HxaInv, NEW s \in Scripts, VerifyRestored(s)
    PROVE  HxaInv'
  <1>1. script[s].at = "verify" /\ UNCHANGED <<Installed, Counted>>
    BY DEF VerifyRestored
  <1>2. s \notin Upgraders
    BY <1>1, OnlyARestorerRestores DEF RestorePlaces
  <1>3. CASE EndScript(s, "PASS")
    BY <1>1, <1>2, <1>3, EndScriptIsQuiet DEF Results
  <1>4. CASE EndScript(s, "HOLD")
    BY <1>1, <1>4, EndScriptIsQuiet DEF Results
  <1> QED
    BY <1>3, <1>4 DEF VerifyRestored

-----------------------------------------------------------------------------
(* HxaUpgrade: the actions that change what is installed *)

LEMMA InstallKeeps ==
    ASSUME HxaInv, NEW s \in Scripts, InstallNext(s)
    PROVE  HxaInv'
  <1> DEFINE old == files["hxa"]
  <1>1. /\ script[s].at = "install" /\ ~journal
        /\ UNCHANGED <<marker, registry, journal, scriptRuns, scriptCrashes>>
    BY DEF InstallNext, NothingWaits
  <1>2. s \in Upgraders /\ s \notin Restorers /\ Working(s)
    BY <1>1, ScriptFacts DEF HxaInv, ScriptsArePlaced, UpgradePlaces, Working
  <1>3. \A t \in Upgraders \ {s} : script[t].at \in {"idle", "lock"}
    BY <1>2, OneUpgrades, ScriptFacts DEF HxaInv, Working
  <1>4. ~excused => \A t \in Restorers : script[t].at = "idle"
    BY <1>1, <1>2 DEF HxaInv, AllIsNamed, InOrder, Upgraders
  <1>5. ~excused => old \notin Bound \/ registry["hxa"] = old
    BY <1>1, <1>2, <1>3 DEF HxaInv, AllIsNamed, InOrder
  <1>6. old \in FileStates /\ marker["hxa"] \in Bound /\ script[s] \in ScriptRow
    BY HxaParts
  <1>7. CASE UNCHANGED <<files, online, excused>> /\ EndScript(s, "HOLD")
    BY <1>1, <1>7, EndScriptIsQuiet DEF Results, Installed, Counted
  <1>8. CASE /\ UNCHANGED excused
             /\ files' = [files EXCEPT !["hxa"] = "next"] /\ online' = online \cup {"hxa"}
             /\ script' = [[script EXCEPT ![s].before = old] EXCEPT ![s].at = "commit"]
             /\ UNCHANGED <<told, scriptLocks>>
    <2> DEFINE row == [script[s] EXCEPT !.before = old, !.at = "commit"]
    <2>1. script' = [script EXCEPT ![s] = row]
      BY <1>8 DEF HxaInv, LocksAreHeld
    <2>2. /\ row \in ScriptRow /\ row.at = "commit"
          /\ row.copy = script[s].copy
      BY <1>6 DEF ScriptRow, UpgradePlaces
    <2>3. Suits(s, row) /\ row.copy["others"] = "pinned"
      BY <1>2, <2>2 DEF Suits, HxaInv, OthersArePinned, RestorePlaces
    <2> HIDE DEF row
    <2>4. Scripted' /\ script'[s] = row /\ OnlyMoves(s)
      BY <1>2, <1>8, <2>1, <2>2, <2>3, ScriptMoves, HxaParts DEF OnlyMoves
    <2>5. HxaRows'
      BY <1>1, <1>8 DEF HxaInv, HxaRows, FileStates, Bound, Targets
    <2>6. files'["hxa"] = "next" /\ files'["others"] = files["others"]
      BY <1>8 DEF HxaInv, HxaRows, Targets
    <2>7. OthersArePinned'
      BY <1>1, <2>3, <2>4, <2>6 DEF OnlyMoves, HxaInv, OthersArePinned
    <2>8. CommitIsInstalled'
      BY <2>6 DEF CommitIsInstalled
    <2>9. ReportsTellTruth'
      BY <1>8 DEF HxaInv, ReportsTellTruth
    <2>10. AllIsNamed'
      <3>1. ~excused => \A t \in Restorers : script'[t].at = "idle"
        BY <1>2, <1>4, <2>4, ScriptFacts DEF OnlyMoves
      <3>2. script'[s].at = "commit"
        BY <2>2, <2>4
      <3> QED
        BY <1>1, <1>2, <1>8, <2>6, <3>1, <3>2, ScriptFacts DEF AllIsNamed, InOrder, Restorers
    <2> QED
      BY <2>4, <2>5, <2>7, <2>8, <2>9, <2>10 DEF HxaInv, Scripted
  <1>9. CASE /\ UNCHANGED <<files, online, excused>>
             /\ told' = [told EXCEPT ![s] = [result |-> "ROLLED_BACK", files |-> old,
                                             marker |-> marker["hxa"], before |-> old]]
             /\ script' = [script EXCEPT ![s] = Waits]
             /\ scriptLocks' = [scriptLocks EXCEPT ![LockOf(s)] = NoScript]
    <2>1. scriptLocks' = [l \in ScriptLocks |->
                              IF scriptLocks[l] = s THEN NoScript ELSE scriptLocks[l]]
      BY <1>2, <1>9, ScriptFacts DEF HxaInv, LocksAreHeld
    <2>2. Scripted' /\ script'[s] = Waits /\ OnlyMoves(s)
      BY <1>9, <2>1, ScriptEnds, HxaParts DEF OnlyMoves
    <2>3. told' \in [Upgraders -> ToldRow]
      BY <1>6, <1>9 DEF HxaInv, HxaRows, ToldRow, Results
    <2>4. ReportsTellTruth'
      BY <1>9 DEF HxaInv, HxaRows, ReportsTellTruth
    <2>5. script'[s].at = "idle" /\ script'[s].copy["others"] = "pinned"
      BY <2>2 DEF Waits, Targets
    <2> QED
      BY <1>1, <1>9, <2>2, <2>3, <2>4, <2>5, QuietKeeps DEF Installed, Counted
  <1>10. CASE /\ excused' = TRUE
              /\ \/ files' = [files EXCEPT !["hxa"] = "mixed"]
                 \/ files' = [files EXCEPT !["hxa"] = "next"]
              /\ online' \in {online, online \ {"hxa"}}
              /\ EndScript(s, "HOLD")
    <2>1. files' \in [Targets -> FileStates] /\ files'["others"] = files["others"]
      BY <1>10 DEF HxaInv, HxaRows, FileStates, Bound, Targets
    <2>2. /\ Scripted' /\ script'[s] = Waits /\ OnlyMoves(s)
          /\ told' \in [Upgraders -> ToldRow] /\ ReportsTellTruth'
      <3>1. files'["hxa"] \in FileStates /\ marker'["hxa"] \in Bound
        BY <1>1, <1>6, <2>1 DEF Targets
      <3> QED
        BY <1>10, <3>1, EndScriptKeeps DEF Results
    <2>3. HxaRows'
      BY <1>1, <1>10, <2>1, <2>2 DEF HxaInv, HxaRows
    <2>4. OthersArePinned'
      BY <1>1, <2>1, <2>2 DEF OnlyMoves, HxaInv, OthersArePinned, Waits, Targets
    <2>5. CommitIsInstalled'
      BY <1>3, <2>2, ScriptFacts DEF OnlyMoves, CommitIsInstalled, Waits
    <2> QED
      BY <1>10, <2>2, <2>3, <2>4, <2>5 DEF HxaInv, Scripted, AllIsNamed
  <1> QED
    BY <1>7, <1>8, <1>9, <1>10 DEF InstallNext

LEMMA CommitKeeps ==
    ASSUME HxaInv, NEW s \in Scripts, CommitNext(s)
    PROVE  HxaInv'
  <1>1. /\ script[s].at = "commit" /\ UNCHANGED <<files, online, excused, scriptRuns, scriptCrashes>>
    BY DEF CommitNext, Counted
  <1>2. s \in Upgraders /\ s \notin Restorers /\ Working(s)
    BY <1>1, ScriptFacts DEF HxaInv, ScriptsArePlaced, UpgradePlaces, Working
  <1>3. files["hxa"] = "next"
    BY <1>1, <1>2 DEF HxaInv, CommitIsInstalled
  <1>4. ~excused => \A t \in Restorers : script[t].at = "idle"
    BY <1>1, <1>2 DEF HxaInv, AllIsNamed, InOrder, Upgraders
  \* The metadata are written, or their journal is left.
  <1>5. /\ marker' \in [Targets -> Bound] /\ registry' \in [Targets -> Bound]
        /\ journal' \in BOOLEAN
        /\ registry'["others"] = registry["others"]
        /\ journal' \/ (registry'["hxa"] = "next" /\ marker'["hxa"] = "next")
    BY DEF CommitNext, HxaInv, HxaRows, Bound, Targets
  <1>6. /\ Scripted' /\ OnlyMoves(s) /\ told' \in [Upgraders -> ToldRow] /\ ReportsTellTruth'
        /\ script'[s].at \in {"idle", "postcheck"} /\ script'[s].copy["others"] = "pinned"
    <2>1. CASE s = Upgrader /\ ContinuesTo(s, "postcheck")
      <3>1. PICK row : /\ Suits(s, row) /\ row.at = "postcheck" /\ row.copy["others"] = "pinned"
                       /\ script' = [script EXCEPT ![s] = row]
        <4>1. s # Command /\ s \in Upgraders /\ s \notin Restorers
          BY <1>2, <2>1 DEF Upgrader, Command
        <4> QED
          BY <2>1, <4>1, GoingTo DEF ContinuesTo, UpgradePlaces, RestorePlaces
      <3>2. Scripted' /\ script'[s] = row /\ OnlyMoves(s)
        BY <1>2, <2>1, <3>1, ScriptMoves, HxaParts DEF OnlyMoves, ContinuesTo
      <3> QED
        BY <2>1, <3>1, <3>2 DEF ContinuesTo, HxaInv, HxaRows, ReportsTellTruth
    <2>2. ASSUME NEW result \in {"PASS", "COMMITTED_HOLD"}, EndScript(s, result),
                 result = "PASS" => marker'["hxa"] = "next"
          PROVE  /\ Scripted' /\ OnlyMoves(s) /\ told' \in [Upgraders -> ToldRow]
                 /\ ReportsTellTruth'
                 /\ script'[s].at \in {"idle", "postcheck"}
                 /\ script'[s].copy["others"] = "pinned"
      <3>1. files'["hxa"] = "next" /\ marker'["hxa"] \in Bound /\ "next" \in FileStates
        BY <1>1, <1>3, <1>5 DEF FileStates, Bound, Targets
      <3>2. /\ Scripted' /\ script'[s] = Waits /\ OnlyMoves(s)
            /\ told' \in [Upgraders -> ToldRow] /\ ReportsTellTruth'
        BY <2>2, <3>1, EndScriptKeeps DEF Results
      <3> QED
        BY <3>2 DEF Waits, Targets
    <2>3. marker' = [marker EXCEPT !["hxa"] = "next"] => marker'["hxa"] = "next"
      BY DEF HxaInv, HxaRows, Targets
    <2>4. CASE EndScript(s, "COMMITTED_HOLD")
      BY <2>2, <2>4
    <2>5. CASE EndScript(s, "PASS") /\ marker' = [marker EXCEPT !["hxa"] = "next"]
      BY <2>2, <2>3, <2>5
    <2> QED
      BY <2>1, <2>4, <2>5 DEF CommitNext
  <1>7. HxaRows'
    BY <1>1, <1>5, <1>6 DEF HxaInv, HxaRows
  <1>8. OthersArePinned'
    BY <1>1, <1>5, <1>6 DEF OnlyMoves, HxaInv, OthersArePinned
  <1>9. CommitIsInstalled'
    BY <1>1, <1>3 DEF CommitIsInstalled
  <1>10. AllIsNamed'
    <2>1. ~excused => \A t \in Restorers : script'[t].at = "idle"
      BY <1>2, <1>4, <1>6, ScriptFacts DEF OnlyMoves
    <2> QED
      BY <1>1, <1>3, <1>5, <2>1 DEF AllIsNamed, InOrder, Restorers
  <1> QED
    BY <1>6, <1>7, <1>8, <1>9, <1>10 DEF HxaInv, Scripted

LEMMA RecoverKeeps ==
    ASSUME HxaInv, RecoverJournal
    PROVE  HxaInv'
  <1>1. UNCHANGED <<files, online, scriptLocks, script, told, scriptRuns, scriptCrashes>>
    BY DEF RecoverJournal
  <1>2. /\ marker' \in [Targets -> Bound] /\ registry' \in [Targets -> Bound]
        /\ journal' = FALSE /\ excused' \in BOOLEAN
        /\ registry'["others"] = registry["others"] /\ registry'["hxa"] = "next"
    BY DEF RecoverJournal, HxaInv, HxaRows, Bound, Targets
  <1>3. Scripted' /\ CommitIsInstalled' /\ ReportsTellTruth'
    BY <1>1 DEF HxaInv, Scripted, LocksAreHeld, ScriptsArePlaced, CommitIsInstalled,
       ReportsTellTruth, Working
  <1>4. HxaRows' /\ OthersArePinned'
    BY <1>1, <1>2 DEF HxaInv, HxaRows, OthersArePinned
  <1>5. AllIsNamed'
    <2> SUFFICES ASSUME ~excused' PROVE InOrder'
      BY DEF AllIsNamed
    <2>1. ~excused /\ journal /\ \A t \in Restorers : script[t].at = "idle"
      BY DEF RecoverJournal
    <2>2. files["hxa"] = "next"
      BY <2>1 DEF HxaInv, AllIsNamed, InOrder
    <2> QED
      BY <1>1, <1>2, <2>1, <2>2 DEF InOrder, Restorers
  <1> QED
    BY <1>3, <1>4, <1>5 DEF HxaInv, Scripted

LEMMA PlaceKeeps ==
    ASSUME HxaInv, NEW s \in Scripts, PlaceTarget(s)
    PROVE  HxaInv'
  <1> DEFINE c == TargetOf(s)
  <1>1. /\ script[s].at = "place"
        /\ UNCHANGED <<registry, online, journal, excused, scriptRuns, scriptCrashes>>
    BY DEF PlaceTarget, Counted
  <1>2. s \in Restorers /\ s \notin Upgraders /\ s # Upgrader /\ s # Command
    BY <1>1, OnlyARestorerRestores DEF RestorePlaces
  <1>3. ~excused /\ s = HxaRestorer => registry["hxa"] = "pinned"
    BY <1>1 DEF HxaInv, AllIsNamed, InOrder
  <1>4. CASE UNCHANGED <<files, marker>> /\ EndScript(s, "HOLD")
    BY <1>1, <1>4, EndScriptIsQuiet DEF Results, Installed, Counted
  <1>5. CASE ContinuesTo(s, "read")
    <2>1. PICK row : /\ Suits(s, row) /\ row.at = "read" /\ row.copy["others"] = "pinned"
                     /\ script' = [script EXCEPT ![s] = row]
      BY <1>2, <1>5, GoingTo DEF ContinuesTo, UpgradePlaces, RestorePlaces
    <2>2. CASE UNCHANGED <<files, marker>>
      BY <1>1, <1>2, <1>3, <1>5, <2>1, <2>2, GoingOnIsQuiet
      DEF ContinuesTo, Working, Installed, Counted
    <2>3. CASE /\ files[c] = "missing"
               /\ files' = [files EXCEPT ![c] = "pinned"]
               /\ marker' = [marker EXCEPT ![c] = "pinned"]
      <3>1. Scripted' /\ script'[s] = row /\ OnlyMoves(s)
        BY <1>1, <1>5, <2>1, ScriptMoves, HxaParts DEF OnlyMoves, ContinuesTo, Working
      <3>2. HxaRows'
        BY <1>1, <1>5, <2>3, ScriptFacts DEF HxaInv, HxaRows, FileStates, Bound, ContinuesTo
      <3>3. \A d \in Targets : files'[d] = IF d = c THEN "pinned" ELSE files[d]
        BY <2>3 DEF HxaInv, HxaRows
      <3>4. OthersArePinned'
        BY <1>1, <2>1, <3>1, <3>3 DEF OnlyMoves, HxaInv, OthersArePinned, Targets
      <3>5. c = "hxa" \/ files'["hxa"] = files["hxa"]
        BY <3>3 DEF Targets
      <3>6. c = "hxa" => s = HxaRestorer /\ files["hxa"] = "missing" /\ files'["hxa"] = "pinned"
        BY <1>2, <2>3, <3>3 DEF TargetOf, Restorers, Targets
      <3>7. CommitIsInstalled'
        BY <1>2, <3>1, <3>5, <3>6, ScriptFacts DEF OnlyMoves, HxaInv, CommitIsInstalled
      <3>8. ReportsTellTruth'
        BY <1>5 DEF HxaInv, ReportsTellTruth, ContinuesTo
      <3>9. AllIsNamed'
        <4> SUFFICES ASSUME ~excused' PROVE InOrder'
          BY DEF AllIsNamed
        <4>1. InOrder /\ ~excused
          BY <1>1 DEF HxaInv, AllIsNamed
        <4>2. \A t \in Restorers : script'[t].at # "idle" =>
                 script'[Command].at = "idle" /\ script'[Upgrader].at \in {"idle", "lock", "check"}
          BY <1>1, <1>2, <2>1, <3>1, <4>1, ScriptFacts DEF OnlyMoves, InOrder
        <4>3. journal' => files'["hxa"] = "next"
          BY <1>1, <3>5, <3>6, <4>1 DEF InOrder
        <4>4. \/ files'["hxa"] \notin Bound \/ registry'["hxa"] = files'["hxa"] \/ journal'
              \/ \E t \in Upgraders : script'[t].at = "commit"
          BY <1>1, <1>2, <1>3, <3>1, <3>5, <3>6, <4>1, ScriptFacts DEF OnlyMoves, InOrder
        <4> QED
          BY <1>1, <1>3, <2>1, <3>1, <4>1, <4>2, <4>3, <4>4, ScriptFacts DEF OnlyMoves, InOrder
      <3> QED
        BY <3>1, <3>2, <3>4, <3>7, <3>8, <3>9 DEF HxaInv, Scripted
    <2> QED
      BY <1>4, <1>5, <2>2, <2>3 DEF PlaceTarget
  <1> QED
    BY <1>4, <1>5 DEF PlaceTarget

LEMMA ReadKeeps ==
    ASSUME HxaInv, NEW s \in Scripts, ReadRegistry(s)
    PROVE  HxaInv'
  <1>1. /\ script[s].at = "read"
        /\ UNCHANGED <<files, marker, registry, online, journal, told, scriptLocks,
                       excused, scriptRuns, scriptCrashes>>
    BY DEF ReadRegistry, Installed, Counted
  <1>2. s \in Restorers /\ s \notin Upgraders /\ s # Upgrader /\ s # Command
    BY <1>1, OnlyARestorerRestores DEF RestorePlaces
  <1> DEFINE row == [script[s] EXCEPT !.at = "write", !.copy = registry]
  <1>3. script' = [script EXCEPT ![s] = row]
    BY DEF ReadRegistry
  <1>4. script[s] \in ScriptRow /\ registry \in [Targets -> Bound]
    BY HxaParts DEF HxaInv, HxaRows
  <1>5. Suits(s, row) /\ row.at = "write" /\ row.copy = registry
    BY <1>2, <1>4 DEF Suits, ScriptRow, UpgradePlaces, RestorePlaces
  <1> HIDE DEF row
  <1>6. Scripted' /\ script'[s] = row /\ OnlyMoves(s)
    BY <1>1, <1>3, <1>5, ScriptMoves, HxaParts DEF OnlyMoves, Working
  <1>7. HxaRows' /\ ReportsTellTruth'
    BY <1>1 DEF HxaInv, HxaRows, ReportsTellTruth
  <1>8. OthersArePinned'
    BY <1>1, <1>5, <1>6 DEF OnlyMoves, HxaInv, OthersArePinned
  <1>9. CommitIsInstalled'
    BY <1>1, <1>2, <1>6, ScriptFacts DEF OnlyMoves, HxaInv, CommitIsInstalled
  <1>10. AllIsNamed'
    BY <1>1, <1>2, <1>5, <1>6, ScriptFacts DEF OnlyMoves, HxaInv, AllIsNamed, InOrder
  <1> QED
    BY <1>6, <1>7, <1>8, <1>9, <1>10 DEF HxaInv, Scripted

LEMMA WriteBackKeeps ==
    ASSUME HxaInv, NEW s \in Scripts, WriteRegistryBack(s)
    PROVE  HxaInv'
  <1>1. /\ script[s].at = "write"
        /\ UNCHANGED <<files, marker, online, journal, told, scriptLocks,
                       excused, scriptRuns, scriptCrashes>>
    BY DEF WriteRegistryBack, Counted
  <1>2. s \in Restorers /\ s \notin Upgraders /\ s # Upgrader /\ s # Command
    BY <1>1, OnlyARestorerRestores DEF RestorePlaces
  <1> DEFINE row == [script[s] EXCEPT !.at = "start", !.copy = Waits.copy]
  <1>3. script' = [script EXCEPT ![s] = row]
    BY DEF WriteRegistryBack
  <1>4. script[s] \in ScriptRow /\ script[s].copy["others"] = "pinned"
    BY HxaParts DEF HxaInv, OthersArePinned
  <1>5. Suits(s, row) /\ row.at = "start" /\ row.copy["others"] = "pinned"
    BY <1>2, <1>4
    DEF Suits, ScriptRow, UpgradePlaces, RestorePlaces, Waits, Targets, Bound
  <1> HIDE DEF row
  <1>6. Scripted' /\ script'[s] = row /\ OnlyMoves(s)
    BY <1>1, <1>3, <1>5, ScriptMoves, HxaParts DEF OnlyMoves, Working
  <1>7. /\ registry' \in [Targets -> Bound] /\ registry'["others"] = "pinned"
        /\ registry'["hxa"] = IF s = HxaRestorer THEN "pinned" ELSE script[s].copy["hxa"]
    <2>1. script[s].copy \in [Targets -> Bound]
      BY <1>4 DEF ScriptRow
    <2>2. TargetOf(s) = IF s = HxaRestorer THEN "hxa" ELSE "others"
      BY <1>2 DEF TargetOf, Restorers, HxaRestorer, OthersRestorer
    <2> QED
      BY <1>4, <2>1, <2>2 DEF WriteRegistryBack, Targets, Bound
  <1>8. HxaRows' /\ ReportsTellTruth'
    BY <1>1, <1>7 DEF HxaInv, HxaRows, ReportsTellTruth
  <1>9. OthersArePinned'
    BY <1>1, <1>5, <1>6, <1>7 DEF OnlyMoves, HxaInv, OthersArePinned
  <1>10. CommitIsInstalled'
    BY <1>1, <1>2, <1>6, ScriptFacts DEF OnlyMoves, HxaInv, CommitIsInstalled
  <1>11. AllIsNamed'
    <2> SUFFICES ASSUME ~excused' PROVE InOrder'
      BY DEF AllIsNamed
    <2>1. InOrder
      BY <1>1 DEF HxaInv, AllIsNamed
    <2>2. registry'["hxa"] = registry["hxa"]
      BY <1>1, <1>2, <1>7, <2>1 DEF InOrder
    <2> QED
      BY <1>1, <1>2, <1>5, <1>6, <2>1, <2>2, ScriptFacts DEF OnlyMoves, InOrder
  <1> QED
    BY <1>6, <1>8, <1>9, <1>10, <1>11 DEF HxaInv, Scripted

LEMMA StartKeeps ==
    ASSUME HxaInv, NEW s \in Scripts, StartTarget(s)
    PROVE  HxaInv'
  <1>1. /\ script[s].at = "start"
        /\ UNCHANGED <<files, marker, registry, journal, excused, scriptRuns, scriptCrashes>>
    BY DEF StartTarget, Counted
  <1>2. s \in Restorers /\ s \notin Upgraders /\ s # Upgrader /\ s # Command
    BY <1>1, OnlyARestorerRestores DEF RestorePlaces
  <1>3. online' \in SUBSET Targets
    BY ScriptFacts DEF StartTarget, HxaInv, HxaRows
  <1>4. /\ Scripted' /\ OnlyMoves(s) /\ told' \in [Upgraders -> ToldRow] /\ ReportsTellTruth'
        /\ script'[s].at \in {"idle", "verify"} /\ script'[s].copy["others"] = "pinned"
    <2>1. CASE ContinuesTo(s, "verify")
      <3>1. PICK row : /\ Suits(s, row) /\ row.at = "verify" /\ row.copy["others"] = "pinned"
                       /\ script' = [script EXCEPT ![s] = row]
        BY <1>2, <2>1, GoingTo DEF ContinuesTo, UpgradePlaces, RestorePlaces
      <3>2. Scripted' /\ script'[s] = row /\ OnlyMoves(s)
        BY <1>1, <2>1, <3>1, ScriptMoves, HxaParts DEF OnlyMoves, ContinuesTo, Working
      <3> QED
        BY <2>1, <3>1, <3>2 DEF ContinuesTo, HxaInv, HxaRows, ReportsTellTruth
    <2>2. CASE EndScript(s, "HOLD")
      <3>1. files'["hxa"] \in FileStates /\ marker'["hxa"] \in Bound
        BY <1>1, HxaParts
      <3> QED
        BY <2>2, <3>1, EndScriptKeeps DEF Results, Waits, Targets
    <2> QED
      BY <2>1, <2>2 DEF StartTarget
  <1>5. HxaRows'
    BY <1>1, <1>3, <1>4 DEF HxaInv, HxaRows
  <1>6. OthersArePinned'
    BY <1>1, <1>4 DEF OnlyMoves, HxaInv, OthersArePinned
  <1>7. CommitIsInstalled'
    BY <1>1, <1>2, <1>4, ScriptFacts DEF OnlyMoves, HxaInv, CommitIsInstalled
  <1>8. AllIsNamed'
    BY <1>1, <1>2, <1>4, ScriptFacts DEF OnlyMoves, HxaInv, AllIsNamed, InOrder
  <1> QED
    BY <1>4, <1>5, <1>6, <1>7, <1>8 DEF HxaInv, Scripted

LEMMA KillKeeps ==
    ASSUME HxaInv, NEW s \in Scripts, KillScript(s)
    PROVE  HxaInv'
  <1>1. UNCHANGED <<marker, registry, told, scriptRuns>>
    BY DEF KillScript
  <1>2. Scripted' /\ script'[s] = Waits /\ OnlyMoves(s)
    BY ScriptEnds, HxaParts DEF KillScript, OnlyMoves
  <1>3. script'[s].at = "idle" /\ script'[s].copy["others"] = "pinned"
    BY <1>2 DEF Waits, Targets
  <1>4. files' = files \/ (files' = [files EXCEPT !["hxa"] = "mixed"] /\ script[s].at = "install")
    BY DEF KillScript
  <1>5. files' \in [Targets -> FileStates] /\ files'["others"] = files["others"]
    BY <1>4 DEF HxaInv, HxaRows, FileStates, Targets
  <1>6. HxaRows'
    <2>1. online' \in SUBSET Targets
      BY DEF KillScript, HxaInv, HxaRows
    <2>2. journal' \in BOOLEAN /\ excused' \in BOOLEAN
      BY DEF KillScript, HxaInv, HxaRows
    <2>3. scriptCrashes' \in 0..MaxScriptCrashes
      BY ScriptAssumption DEF KillScript, HxaInv, HxaRows
    <2> QED
      BY <1>1, <1>5, <2>1, <2>2, <2>3 DEF HxaInv, HxaRows
  <1>7. OthersArePinned'
    BY <1>1, <1>2, <1>3, <1>5 DEF OnlyMoves, HxaInv, OthersArePinned
  <1>8. CommitIsInstalled'
    <2>1. CASE files' = files
      BY <1>2, <1>3, <2>1, ScriptFacts DEF OnlyMoves, HxaInv, CommitIsInstalled
    <2>2. CASE script[s].at = "install"
      <3>1. s \in Upgraders /\ Working(s)
        BY <2>2, ScriptFacts DEF HxaInv, ScriptsArePlaced, UpgradePlaces, Working
      <3>2. \A t \in Upgraders \ {s} : script[t].at \in {"idle", "lock"}
        BY <3>1, OneUpgrades, ScriptFacts DEF HxaInv, Working
      <3> QED
        BY <1>2, <1>3, <3>2, ScriptFacts DEF OnlyMoves, CommitIsInstalled
    <2> QED
      BY <1>4, <2>1, <2>2
  <1>9. ReportsTellTruth'
    BY <1>1 DEF HxaInv, ReportsTellTruth
  <1>10. AllIsNamed'
    <2> SUFFICES ASSUME ~excused' PROVE InOrder'
      BY DEF AllIsNamed
    <2>1. ~excused /\ script[s].at \notin {"install", "commit"}
      BY DEF KillScript, HxaInv, HxaRows
    <2>2. InOrder /\ files' = files /\ journal' = journal
      BY <1>4, <2>1 DEF KillScript, HxaInv, HxaRows, AllIsNamed
    <2>3. \A t \in Scripts : script'[t] = script[t] \/ script'[t].at = "idle"
      BY <1>2, <1>3 DEF OnlyMoves
    <2>4. \A t \in Upgraders : script[t].at = "commit" => script'[t].at = "commit"
      BY <1>2, <2>1, ScriptFacts DEF OnlyMoves
    <2>5. \A t \in Restorers : script'[t].at # "idle" =>
             script'[Command].at = "idle" /\ script'[Upgrader].at \in {"idle", "lock", "check"}
      <3> SUFFICES ASSUME NEW t \in Restorers, script'[t].at # "idle"
                   PROVE  /\ script'[Command].at = "idle"
                          /\ script'[Upgrader].at \in {"idle", "lock", "check"}
        OBVIOUS
      <3>1. script[Command].at = "idle" /\ script[Upgrader].at \in {"idle", "lock", "check"}
        BY <2>2, <2>3, ScriptFacts DEF InOrder
      <3> QED
        BY <2>3, <3>1, ScriptFacts
    <2>6. \/ files'["hxa"] \notin Bound \/ registry'["hxa"] = files'["hxa"] \/ journal'
          \/ \E t \in Upgraders : script'[t].at = "commit"
      BY <1>1, <2>2, <2>4 DEF InOrder
    <2> QED
      BY <1>1, <2>2, <2>3, <2>5, <2>6, ScriptFacts DEF InOrder
  <1> QED
    BY <1>2, <1>6, <1>7, <1>8, <1>9, <1>10 DEF HxaInv, Scripted

-----------------------------------------------------------------------------
(* HxaUpgrade: what its specification guarantees *)

LEMMA HxaStarts == HxaInit => HxaInv
  <1> SUFFICES ASSUME HxaInit PROVE HxaInv
    OBVIOUS
  <1>1. script = [s \in Scripts |-> Waits] /\ scriptLocks = [l \in ScriptLocks |-> NoScript]
    BY DEF HxaInit
  <1>2. LocksAreHeld
    BY <1>1, ScriptFacts DEF LocksAreHeld, Working, Waits
  <1>3. ScriptsArePlaced
    BY <1>1, ScriptFacts DEF ScriptsArePlaced, Waits, UpgradePlaces, RestorePlaces
  <1>4. HxaRows
    <2>1. NothingTold \in ToldRow
      BY DEF NothingTold, ToldRow, Results, FileStates, Bound
    <2>2. told \in [Upgraders -> ToldRow]
      BY <2>1 DEF HxaInit
    <2>3. files \in [Targets -> FileStates]
      BY DEF HxaInit, FileStates, Bound
    <2>5. online \in SUBSET Targets /\ journal = FALSE /\ excused = FALSE
      BY DEF HxaInit
    <2>6. scriptRuns \in 0..MaxScriptRuns /\ scriptCrashes \in 0..MaxScriptCrashes
      BY ScriptAssumption DEF HxaInit
    <2>4. marker \in [Targets -> Bound] /\ registry \in [Targets -> Bound]
      BY DEF HxaInit, Bound
    <2> QED
      BY <2>2, <2>3, <2>4, <2>5, <2>6 DEF HxaRows
  <1>5. OthersArePinned /\ CommitIsInstalled
    BY <1>1, ScriptFacts DEF HxaInit, OthersArePinned, CommitIsInstalled, Waits, Targets
  <1>6. ReportsTellTruth
    BY DEF HxaInit, ReportsTellTruth, NothingTold
  <1>7. InOrder
    BY <1>1, ScriptFacts DEF HxaInit, InOrder, Waits, Targets, Bound
  <1> QED
    BY <1>2, <1>3, <1>4, <1>5, <1>6, <1>7 DEF HxaInv, AllIsNamed

LEMMA HxaNextKeeps ==
    ASSUME HxaInv, HxaNext
    PROVE  HxaInv'
  BY BeginKeeps, TakeLockKeeps, CheckKeeps, StageKeeps, InstallKeeps, CommitKeeps,
     VerifyNextKeeps, ValidateKeeps, PlaceKeeps, ReadKeeps, WriteBackKeeps, StartKeeps,
     VerifyRestoredKeeps, KillKeeps, RecoverKeeps
  DEF HxaNext, UpgradeHxa, RestoreTarget

LEMMA HxaStutters ==
    ASSUME HxaInv, UNCHANGED hxaVars
    PROVE  HxaInv'
  BY DEF hxaVars, HxaInv, HxaRows, LocksAreHeld, ScriptsArePlaced, OthersArePinned,
     CommitIsInstalled, ReportsTellTruth, AllIsNamed, InOrder, Working

LEMMA HxaTold ==
    ASSUME HxaInv
    PROVE  HxaTypeOK /\ ReportsTellTruth /\ RegistryNamesInstalled
  <1>1. \A l \in ScriptLocks : scriptLocks[l] \in Scripts => script[scriptLocks[l]].at # "idle"
    BY DEF HxaInv, LocksAreHeld, Working
  <1>2. HxaTypeOK
    BY <1>1 DEF HxaInv, HxaRows, LocksAreHeld, HxaTypeOK, FileStates, ToldRow
  <1>3. RegistryNamesInstalled
    BY ScriptFacts
    DEF HxaInv, AllIsNamed, InOrder, OthersArePinned, RegistryNamesInstalled, Targets, Bound
  <1> QED
    BY <1>2, <1>3 DEF HxaInv

-----------------------------------------------------------------------------
(* TaskConvergence: the inductive invariant *)

LockRow == [owner : 0..MaxConvergences, phase : Phases, runner : {"none", "READY", "EXITED"},
            child : {"none", "RUNNING", "EXITED", "UNKNOWN"}]
Comers == {"idle", "acquire", "reclaim", "create"}
Workers == {"open", "attempt", "claim", "prepare", "launch", "wait", "close", "release", "unlink"}
ConvergenceRow == [at : Comers \cup Workers \cup {"ended"}, step : 0..BusinessSteps,
                   seen : LockRow, verdict : {"none", "PASS", "HOLD"}]
Beginning == {"start", "introduce", "confirm"}
Driving == {"starting", "spawn", "fail", "failing", "note", "noting", "watch", "settle",
            "settling"}
RunnerRow == [at : {"none", "gone", "answer", "throw"} \cup Beginning \cup Driving,
              copy : LockRow, unknown : BOOLEAN]
CommandRow == [step : 0..BusinessSteps, group : {"none", "running", "lingering", "gone"},
               ended : {"none", "ok", "failed", "signal"}]

ConvergenceRows ==
    /\ applyLock \in LockRow
    /\ report \in {"none", "RUNNING", "HOLD", "PASS"}
    /\ receipts \in [StepNumbers -> {"none", "RUNNING", "PASS", "HOLD", "UNKNOWN"}]
    /\ convergence \in [Convergences -> ConvergenceRow]
    /\ runner \in [Convergences -> RunnerRow]
    /\ runnerResult \in [Convergences -> {"none", "PASS", "HOLD", "UNKNOWN"}]
    /\ business \in [Convergences -> CommandRow]
    /\ succeeded \in SUBSET StepNumbers
    /\ robbed \in BOOLEAN
    /\ mishaps \in 0..MaxMishaps

\* A run at work, a runner that is to touch the command or the lock again, a command that works.
Drives(r) == runner[r].at \in Driving
Works(r) == convergence[r].at \in Workers
Engaged(r) == Works(r) \/ Drives(r) \/ GroupLives(r)
\* Once it is over with a run, it stays so.
Over(r) == r \in Convergences /\ convergence[r].at = "ended" /\ ~Drives(r) /\ ~GroupLives(r)

\* A run, its runner and its command follow one another.
InTurn(r) ==
    /\ runner[r].at = "gone" => runner[r] = [NoRunner EXCEPT !.at = "gone"]
    /\ convergence[r].at \notin {"wait", "ended"} => ~RunnerLives(r)
    /\ GroupLives(r) => convergence[r].at \in {"wait", "close", "release", "ended"}
    /\ GroupLives(r) => runner[r].at \in {"note", "noting", "watch", "gone"}
    /\ runnerResult[r] \in {"PASS", "HOLD"} => runner[r].at = "gone" /\ ~GroupLives(r)
    /\ convergence[r].at = "wait" => business[r].step = convergence[r].step
    /\ RunnerLives(r) \/ GroupLives(r) => business[r].step \in StepNumbers
    /\ convergence[r].at \in {"attempt", "claim", "prepare", "launch", "wait"} =>
          convergence[r].step \in StepNumbers
    /\ runner[r].at \in {"introduce", "starting", "failing", "noting", "settling"} =>
          runner[r].copy.owner = r
    /\ runner[r].at \in {"starting", "failing", "noting", "settling"} =>
          runner[r].copy.runner = "READY"
    /\ convergence[r].at = "reclaim" =>
          Over(convergence[r].seen.owner) /\ convergence[r].seen.phase # "RUNNER_READY"

\* What the lock says of the run that it names.
LockTells ==
    /\ applyLock.owner = 0 => applyLock = NoLock
    /\ \A r \in Convergences : applyLock.owner = r =>
          /\ convergence[r].at \notin Comers
          /\ runner[r].at = "confirm" \/ Drives(r) => applyLock.runner = "READY"
          /\ runner[r].at \in {"spawn", "note", "noting", "watch"} => applyLock.phase \in ActivePhases
          /\ GroupLives(r) => applyLock.phase \in ActivePhases

\* One at most is engaged.  The lock is its own, unless the runner of a dead run has written over
\* it what stops everybody.
OneIsEngaged ==
    \A r \in Convergences : Engaged(r) =>
        /\ applyLock.owner = r \/ (applyLock.phase = "RUNNER_READY" /\ Over(applyLock.owner))
        /\ \A q \in Convergences : Engaged(q) => q = r

\* What is recorded was done.
Done(r) ==
    /\ business[r].ended = "ok" => business[r].step \in succeeded
    /\ runnerResult[r] = "PASS" => business[r].ended = "ok"
    /\ convergence[r].at \in {"attempt", "claim", "prepare", "launch", "wait"} =>
          \A k \in StepNumbers : k < convergence[r].step => k \in succeeded
    /\ convergence[r].verdict = "PASS" => StepNumbers \subseteq succeeded
    /\ convergence[r].at \notin {"close", "release", "unlink"} => convergence[r].verdict = "none"

Recorded(r) ==
    /\ convergence[r].at \in {"attempt", "claim", "prepare", "launch", "wait"} =>
          \A k \in StepNumbers : k < convergence[r].step => receipts[k] = "PASS"
    /\ convergence[r].at = "close" /\ convergence[r].verdict = "PASS" =>
          \A k \in StepNumbers : receipts[k] = "PASS"
    /\ report = "PASS" =>
          convergence[r].at \notin {"attempt", "claim", "prepare", "launch", "wait", "close"}

ConvergenceInv ==
    /\ ConvergenceRows
    /\ \A r \in Convergences : InTurn(r)
    /\ \A r \in Convergences : Done(r)
    /\ PassIsTrue
    /\ ~robbed => LockTells /\ OneIsEngaged /\ \A r \in Convergences : Recorded(r)

-----------------------------------------------------------------------------
(* TaskConvergence: the parts of the state, and who may take the lock *)

LEMMA ConvergenceParts ==
    ASSUME ConvergenceInv, NEW r \in Convergences
    PROVE  /\ applyLock \in LockRow
           /\ convergence[r] \in ConvergenceRow
           /\ runner[r] \in RunnerRow
           /\ business[r] \in CommandRow
           /\ runnerResult[r] \in {"none", "PASS", "HOLD", "UNKNOWN"}
           /\ InTurn(r) /\ Done(r)
  BY DEF ConvergenceInv, ConvergenceRows

LEMMA LockRows ==
    /\ NoLock \in LockRow
    /\ \A r \in Convergences : /\ OwnLock(r) \in LockRow /\ OwnLock(r).owner = r
                               /\ OwnLock(r) # NoLock
    /\ NoLock.owner = 0 /\ \A r \in Convergences : r # 0
  BY ConvergenceAssumption
  DEF NoLock, OwnLock, LockRow, Phases, ActivePhases, TerminalPhases, Convergences

\* A runner that lives has a run that waits for it or is gone.
LEMMA RunnerHasRun ==
    ASSUME ConvergenceInv, NEW r \in Convergences
    PROVE  /\ RunnerLives(r) => convergence[r].at \in {"wait", "ended"}
           /\ Drives(r) => RunnerLives(r)
           /\ RunnerLives(r) /\ ~Engaged(r) => Over(r)
           /\ RunnerLives(r) /\ RunLives(r) => Engaged(r)
           /\ ~RunnerLives(r) => ~Drives(r)
  BY ConvergenceParts
  DEF InTurn, RunnerLives, Drives, Driving, Engaged, Over, Works, Workers, RunLives

\* What a lock that may be reclaimed names is over, whatever it was.
LEMMA ReclaimableIsOver ==
    ASSUME ConvergenceInv, ~robbed, applyLock # NoLock, Reclaimable(applyLock)
    PROVE  Over(applyLock.owner) /\ applyLock.phase # "RUNNER_READY"
  <1> DEFINE o == applyLock.owner
  <1>1. o \in Convergences
    <2>1. o \in 0..MaxConvergences /\ o # 0
      BY DEF ConvergenceInv, ConvergenceRows, LockRow, LockTells
    <2> QED
      BY <2>1, ConvergenceAssumption DEF Convergences
  <1>2. /\ convergence[o].at \notin Comers
        /\ Drives(o) => applyLock.runner = "READY"
        /\ GroupLives(o) => applyLock.phase \in ActivePhases
    BY <1>1 DEF ConvergenceInv, LockTells
  <1>3. convergence[o].at = "ended"
    BY <1>2 DEF Reclaimable, RunLives, Comers
  <1>4. ~Drives(o)
    BY <1>1, <1>2, RunnerHasRun DEF Reclaimable
  <1>5. ~GroupLives(o)
    BY <1>2 DEF Reclaimable
  <1> QED
    BY <1>1, <1>3, <1>4, <1>5 DEF Over, Reclaimable

\* Nobody is engaged when there is no lock, or when the lock is of one that is over.
LEMMA NobodyEngaged ==
    ASSUME ConvergenceInv, ~robbed,
           \/ applyLock = NoLock
           \/ Over(applyLock.owner) /\ applyLock.phase # "RUNNER_READY"
    PROVE  \A r \in Convergences : ~Engaged(r)
  <1> SUFFICES ASSUME NEW r \in Convergences, Engaged(r) PROVE FALSE
    OBVIOUS
  <1>1. applyLock.owner = r \/ (applyLock.phase = "RUNNER_READY" /\ Over(applyLock.owner))
    BY DEF ConvergenceInv, OneIsEngaged
  <1>2. ~Over(r)
    BY DEF Engaged, Over, Works, Workers
  <1> QED
    BY <1>1, <1>2, LockRows DEF NoLock, Over

-----------------------------------------------------------------------------
(* TaskConvergence: the steps of a runner and of its command *)

\* What a step makes of the runner, its result, its command and the lock.
RunnerStep(r, x, y, z, l) ==
    /\ runner' = [runner EXCEPT ![r] = x]
    /\ runnerResult' = [runnerResult EXCEPT ![r] = y]
    /\ business' = [business EXCEPT ![r] = z]
    /\ applyLock' = l
    /\ succeeded \subseteq succeeded' /\ succeeded' \in SUBSET StepNumbers
    /\ mishaps' \in 0..MaxMishaps
    /\ RunSteady

Lives(z) == z.group \in {"running", "lingering"}

RunnerStepIsGood(r, x, y, z, l) ==
    /\ x \in RunnerRow /\ z \in CommandRow /\ l \in LockRow
    /\ y \in {"none", "PASS", "HOLD", "UNKNOWN"}
    /\ x.at = "gone" => x = [NoRunner EXCEPT !.at = "gone"]
    /\ x.at \notin {"none", "gone"} => RunnerLives(r)
    /\ x.at \in {"introduce", "starting", "failing", "noting", "settling"} => x.copy.owner = r
    /\ x.at \in {"starting", "failing", "noting", "settling"} => x.copy.runner = "READY"
    /\ x.at \in Driving => Drives(r) \/ (RunLives(r) /\ RunnerLives(r))
    /\ Lives(z) => x.at \in {"note", "noting", "watch", "gone"}
    /\ Lives(z) => GroupLives(r) \/ Drives(r)
    /\ y \in {"PASS", "HOLD"} => x.at = "gone" /\ ~Lives(z)
    /\ y = "PASS" => z.ended = "ok"
    /\ z.step = business[r].step
    /\ z.ended = "ok" => z.step \in succeeded'
    /\ l # applyLock =>
          /\ l.owner = r /\ RunnerLives(r)
          /\ Engaged(r) \/ l.phase = "RUNNER_READY"
    /\ l.owner = r =>
          /\ x.at = "confirm" \/ x.at \in Driving => l.runner = "READY"
          /\ x.at \in {"spawn", "note", "noting", "watch"} => l.phase \in ActivePhases
          /\ Lives(z) => l.phase \in ActivePhases

LEMMA RunnerStepKeeps ==
    ASSUME ConvergenceInv, ~robbed, NEW r \in Convergences, NEW x, NEW y, NEW z, NEW l,
           RunnerStep(r, x, y, z, l), RunnerStepIsGood(r, x, y, z, l)
    PROVE  ConvergenceInv'
  <1>1. /\ runner'[r] = x /\ runnerResult'[r] = y /\ business'[r] = z /\ applyLock' = l
        /\ \A q \in Convergences \ {r} : /\ runner'[q] = runner[q]
                                         /\ runnerResult'[q] = runnerResult[q]
                                         /\ business'[q] = business[q]
    BY DEF RunnerStep, ConvergenceInv, ConvergenceRows
  <1>2. /\ convergence' = convergence /\ report' = report /\ receipts' = receipts
        /\ robbed' = robbed
    BY DEF RunnerStep, RunSteady, Evidence
  <1>3. ConvergenceRows'
    BY <1>2 DEF RunnerStep, RunnerStepIsGood, ConvergenceInv, ConvergenceRows
  <1>4. \A q \in Convergences : Engaged(q)' => Engaged(q)
    <2>1. \A q \in Convergences \ {r} : Engaged(q)' => Engaged(q)
      BY <1>1, <1>2 DEF Engaged, Works, Drives, GroupLives
    <2>2. Engaged(r)' => Engaged(r)
      BY <1>1, <1>2, RunnerHasRun
      DEF Engaged, Works, Drives, GroupLives, RunnerStepIsGood, Lives
    <2> QED
      BY <2>1, <2>2
  <1>5. ASSUME NEW o, Over(o)
        PROVE  Over(o)'
    <2>1. o \in Convergences /\ ~Engaged(o) /\ convergence'[o].at = "ended"
      BY <1>2, <1>5 DEF Over, Engaged, Works, Workers
    <2> QED
      BY <1>4, <2>1 DEF Over, Engaged
  <1>12. \A o : /\ o \in Convergences /\ convergence[o].at = "ended"
                /\ ~Drives(o) /\ ~GroupLives(o)
                => ~(runner'[o].at \in Driving) /\ ~(business'[o].group \in {"running", "lingering"})
    BY <1>5 DEF Over, Drives, GroupLives
  <1>6. \A q \in Convergences : InTurn(q)'
    <2>1. ASSUME NEW q \in Convergences, q # r
          PROVE  InTurn(q)'
      BY <1>1, <1>2, <1>5, <2>1, ConvergenceParts DEF InTurn, RunnerLives, GroupLives
    <2>2. InTurn(r)'
      <3>1. InTurn(r)
        BY ConvergenceParts
      <3>2. convergence[r].at = "reclaim" =>
               /\ Over(convergence[r].seen.owner)'
               /\ convergence'[r].seen.phase # "RUNNER_READY"
        BY <1>2, <1>12, <3>1 DEF InTurn, Over, Drives, GroupLives
      <3>3. RunnerLives(r)' => RunnerLives(r)
        BY <1>1 DEF RunnerLives, RunnerStepIsGood
      <3>4. GroupLives(r)' => convergence[r].at \in {"wait", "close", "release", "ended"}
        BY <1>1, <3>1, RunnerHasRun DEF InTurn, GroupLives, RunnerStepIsGood, Lives
      <3>5. GroupLives(r)' <=> Lives(z)
        BY <1>1 DEF GroupLives, Lives
      <3>6. RunnerLives(r)' \/ GroupLives(r)' => business'[r].step \in StepNumbers
        BY <1>1, <3>1, <3>3, <3>5, RunnerHasRun DEF InTurn, RunnerStepIsGood
      <3> QED
        BY <1>1, <1>2, <3>1, <3>2, <3>3, <3>4, <3>5, <3>6 DEF InTurn, RunnerStepIsGood
    <2> QED
      BY <2>1, <2>2
  <1>7. \A q \in Convergences : Done(q)'
    <2>1. \A k : k \in succeeded => k \in succeeded'
      BY DEF RunnerStep
    <2>2. ASSUME NEW q \in Convergences, q # r
          PROVE  Done(q)'
      BY <1>1, <1>2, <2>1, <2>2, ConvergenceParts DEF Done
    <2>3. Done(r)'
      BY <1>1, <1>2, <2>1, ConvergenceParts DEF Done, RunnerStepIsGood
    <2> QED
      BY <2>2, <2>3
  <1>8. PassIsTrue'
    BY <1>2, <1>3 DEF RunnerStep, ConvergenceInv, ConvergenceRows, PassIsTrue
  <1>9. LockTells'
    <2>1. LockTells
      BY DEF ConvergenceInv
    <2>2. applyLock'.owner = 0 => applyLock' = NoLock
      BY <1>1, <2>1, LockRows DEF LockTells, RunnerStepIsGood
    <2>3. ASSUME NEW q \in Convergences, q # r, applyLock'.owner = q
          PROVE  /\ convergence'[q].at \notin Comers
                 /\ runner'[q].at = "confirm" \/ Drives(q)' => applyLock'.runner = "READY"
                 /\ runner'[q].at \in {"spawn", "note", "noting", "watch"} =>
                       applyLock'.phase \in ActivePhases
                 /\ GroupLives(q)' => applyLock'.phase \in ActivePhases
      <3>1. applyLock' = applyLock
        BY <1>1, <2>3 DEF RunnerStepIsGood
      <3> QED
        BY <1>1, <1>2, <2>1, <2>3, <3>1 DEF LockTells, Drives, GroupLives
    <2>4. ASSUME applyLock'.owner = r
          PROVE  /\ convergence'[r].at \notin Comers
                 /\ runner'[r].at = "confirm" \/ Drives(r)' => applyLock'.runner = "READY"
                 /\ runner'[r].at \in {"spawn", "note", "noting", "watch"} =>
                       applyLock'.phase \in ActivePhases
                 /\ GroupLives(r)' => applyLock'.phase \in ActivePhases
      <3>1. convergence[r].at \notin Comers
        BY <1>1, <2>1, <2>4, RunnerHasRun DEF LockTells, RunnerStepIsGood, Comers
      <3> QED
        BY <1>1, <1>2, <2>4, <3>1 DEF RunnerStepIsGood, Drives, GroupLives, Lives
    <2> QED
      BY <2>2, <2>3, <2>4 DEF LockTells
  <1>10. OneIsEngaged'
    <2>1. OneIsEngaged
      BY DEF ConvergenceInv
    <2> SUFFICES ASSUME NEW q \in Convergences, Engaged(q)'
                 PROVE  /\ \/ applyLock'.owner = q
                           \/ applyLock'.phase = "RUNNER_READY" /\ Over(applyLock.owner)'
                        /\ \A p \in Convergences : Engaged(p)' => p = q
      BY DEF OneIsEngaged
    <2>2. Engaged(q) /\ \A p \in Convergences : Engaged(p)' => p = q
      BY <1>4, <2>1 DEF OneIsEngaged
    <2>3. CASE l = applyLock
      BY <1>1, <1>2, <1>12, <2>1, <2>2, <2>3 DEF OneIsEngaged, Over, Drives, GroupLives
    <2>4. CASE l # applyLock /\ Engaged(r)
      BY <1>1, <2>1, <2>2, <2>4 DEF OneIsEngaged, RunnerStepIsGood
    <2>5. CASE l # applyLock /\ ~Engaged(r)
      <3>1. Over(r)
        BY <2>5, RunnerHasRun DEF RunnerStepIsGood
      <3> QED
        BY <1>1, <1>2, <1>12, <2>2, <2>5, <3>1 DEF RunnerStepIsGood, Over, Drives, GroupLives
    <2> QED
      BY <2>3, <2>4, <2>5
  <1>11. \A q \in Convergences : Recorded(q)'
    BY <1>2 DEF ConvergenceInv, Recorded
  <1> QED
    BY <1>3, <1>6, <1>7, <1>8, <1>9, <1>10, <1>11 DEF ConvergenceInv

\* A step that ends the runner.
LEMMA RunnerGoneKeeps ==
    ASSUME ConvergenceInv, ~robbed, NEW r \in Convergences, RunnerGone(r),
           NEW y \in {"none", "UNKNOWN"} \cup {runnerResult[r]},
           runnerResult' = [runnerResult EXCEPT ![r] = y],
           UNCHANGED <<applyLock, business, succeeded>>, RunSteady, mishaps' \in 0..MaxMishaps,
           RunnerLives(r)
    PROVE  ConvergenceInv'
  <1> DEFINE x == [NoRunner EXCEPT !.at = "gone"]
  <1>1. PICK z, l : z = business[r] /\ l = applyLock
    OBVIOUS
  <1>2. /\ x \in RunnerRow /\ x.at = "gone"
    BY LockRows DEF RunnerRow, NoRunner
  <1>3. runner' = [runner EXCEPT ![r] = x]
    BY DEF RunnerGone
  <1> HIDE DEF x
  <1>4. runnerResult[r] \notin {"PASS", "HOLD"}
    BY ConvergenceParts DEF InTurn, RunnerLives
  <1>5. RunnerStep(r, x, y, z, l)
    BY <1>1, <1>3 DEF RunnerStep, ConvergenceInv, ConvergenceRows
  <1>6. x = [NoRunner EXCEPT !.at = "gone"]
    BY DEF x
  <1>7. applyLock.owner = r /\ Lives(z) => applyLock.phase \in ActivePhases
    BY <1>1 DEF ConvergenceInv, LockTells, Lives, GroupLives
  <1>8. z.ended = "ok" => z.step \in succeeded'
    BY <1>1, ConvergenceParts DEF Done
  <1>9. Lives(z) => GroupLives(r)
    BY <1>1 DEF Lives, GroupLives
  <1>10. RunnerStepIsGood(r, x, y, z, l)
    BY <1>1, <1>2, <1>4, <1>6, <1>7, <1>8, <1>9, ConvergenceParts
    DEF RunnerStepIsGood, Driving
  <1> QED
    BY <1>5, <1>10, RunnerStepKeeps

\* A step of the runner that leaves its result and its command alone.
LEMMA RunnerMoves ==
    ASSUME ConvergenceInv, ~robbed, NEW r \in Convergences, NEW x, NEW l,
           runner' = [runner EXCEPT ![r] = x], applyLock' = l,
           UNCHANGED <<runnerResult, business, succeeded, mishaps>>, RunSteady,
           RunnerLives(r), x \in RunnerRow, l \in LockRow,
           x.at \notin {"none", "gone"},
           x.at \in {"introduce", "starting", "failing", "noting", "settling"} => x.copy.owner = r,
           x.at \in {"starting", "failing", "noting", "settling"} => x.copy.runner = "READY",
           x.at \in Driving => Drives(r) \/ RunLives(r),
           GroupLives(r) => x.at \in {"note", "noting", "watch"},
           l # applyLock => l.owner = r /\ (Engaged(r) \/ l.phase = "RUNNER_READY"),
           l.owner = r =>
              /\ x.at = "confirm" \/ x.at \in Driving => l.runner = "READY"
              /\ x.at \in {"spawn", "note", "noting", "watch"} => l.phase \in ActivePhases
    PROVE  ConvergenceInv'
  <1>1. PICK y, z : y = runnerResult[r] /\ z = business[r]
    OBVIOUS
  <1>2. y \notin {"PASS", "HOLD"}
    BY <1>1, ConvergenceParts DEF InTurn, RunnerLives
  <1>3. RunnerStep(r, x, y, z, l)
    BY <1>1 DEF RunnerStep, ConvergenceInv, ConvergenceRows
  <1>4. z.ended = "ok" => z.step \in succeeded'
    BY <1>1, ConvergenceParts DEF Done
  <1>5. Lives(z) <=> GroupLives(r)
    BY <1>1 DEF Lives, GroupLives
  <1>6. RunnerStepIsGood(r, x, y, z, l)
    BY <1>1, <1>2, <1>4, <1>5, ConvergenceParts DEF RunnerStepIsGood
  <1> QED
    BY <1>3, <1>6, RunnerStepKeeps

LEMMA MissesKeeps ==
    ASSUME ConvergenceInv, ~robbed, NEW r \in Convergences, MissesRun(r)
    PROVE  ConvergenceInv'
  <1>1. RunnerLives(r) /\ mishaps' \in 0..MaxMishaps
    BY DEF MissesRun, RunnerLives, LockSteady, ConvergenceInv, ConvergenceRows
  <1> QED
    BY <1>1, RunnerGoneKeeps DEF MissesRun, LockSteady

\* Reading the lock before a change of it.
LEMMA ReadsKeeps ==
    ASSUME ConvergenceInv, ~robbed, NEW r \in Convergences, NEW place, NEW next,
           ReadsLock(r, place, next),
           \/ place = "start" /\ next = "introduce"
           \/ place = "confirm" /\ next = "starting" /\ RunLives(r)
           \/ place = "fail" /\ next = "failing"
           \/ place = "note" /\ next = "noting"
           \/ place = "settle" /\ next = "settling"
    PROVE  ConvergenceInv'
  <1>1. RunnerLives(r) /\ mishaps' \in 0..MaxMishaps /\ runner[r].at = place
    BY DEF ReadsLock, RunnerIsAt, RunnerLives, LockSteady, ConvergenceInv, ConvergenceRows
  <1>2. CASE applyLock.owner # r
    BY <1>1, <1>2, RunnerGoneKeeps DEF ReadsLock, LockSteady
  <1>3. CASE applyLock.owner = r
    <2> DEFINE x == [runner[r] EXCEPT !.at = next, !.copy = applyLock]
    <2>1. /\ runner' = [runner EXCEPT ![r] = x]
          /\ UNCHANGED <<runnerResult, business, succeeded, mishaps, applyLock>> /\ RunSteady
      BY <1>3 DEF ReadsLock, LockSteady
    <2>2. x \in RunnerRow /\ x.at = next /\ x.copy = applyLock
      BY ConvergenceParts DEF RunnerRow, Beginning, Driving
    <2> HIDE DEF x
    <2>3. /\ place \in {"confirm", "fail", "note", "settle"} => applyLock.runner = "READY"
          /\ place = "note" => applyLock.phase \in ActivePhases
      BY <1>1, <1>3 DEF ConvergenceInv, LockTells, Drives, Driving
    <2>4. GroupLives(r) => place = "note"
      BY <1>1, ConvergenceParts DEF InTurn
    <2>5. next \in Driving => Drives(r) \/ RunLives(r)
      BY <1>1 DEF Drives, Driving
    <2>6. PICK l, xx : l = applyLock /\ xx = x
      OBVIOUS
    <2>7. applyLock' = l /\ l \in LockRow /\ l.owner = r
      BY <1>3, <2>1, <2>6, ConvergenceParts
    <2>8. next \notin {"none", "gone"}
      OBVIOUS
    <2>9. xx.copy.owner = r /\ (next \in Driving => xx.copy.runner = "READY" /\ l.runner = "READY")
      BY <1>3, <2>2, <2>3, <2>6 DEF Driving
    <2>10. next \in {"spawn", "note", "noting", "watch"} => l.phase \in ActivePhases
      BY <2>3, <2>6
    <2>11. GroupLives(r) => next \in {"note", "noting", "watch"}
      BY <2>4
    <2>12. next # "confirm"
      OBVIOUS
    <2>13. xx.at = next /\ xx \in RunnerRow /\ runner' = [runner EXCEPT ![r] = xx]
      BY <2>1, <2>2, <2>6
    <2>14. next \in {"starting", "failing", "noting", "settling"} => next \in Driving
      BY DEF Driving
    <2>15. UNCHANGED <<runnerResult, business, succeeded, mishaps>> /\ RunSteady /\ l = applyLock
      BY <2>1, <2>6
    <2> QED
      BY <1>1, <2>5, <2>7, <2>8, <2>9, <2>10, <2>11, <2>12, <2>13, <2>14, <2>15, RunnerMoves
  <1> QED
    BY <1>2, <1>3

\* Writing what was read of it with the changes.
LEMMA WritesKeeps ==
    ASSUME ConvergenceInv, ~robbed, NEW r \in Convergences, NEW place, NEW next, NEW lock,
           WritesLock(r, place, next, lock), lock \in LockRow, lock.owner = r,
           \/ /\ place = "introduce" /\ next = "confirm"
              /\ lock.phase = "RUNNER_READY" /\ lock.runner = "READY"
           \/ /\ place = "starting" /\ next = "spawn"
              /\ lock.phase = "CHILD_STARTING" /\ lock.runner = "READY"
           \/ place = "failing" /\ next = "throw"
           \/ /\ place = "noting" /\ next = "watch"
              /\ lock.phase = "CHILD_RUNNING" /\ lock.runner = "READY"
           \/ place = "settling" /\ next = "answer"
    PROVE  ConvergenceInv'
  <1>1. RunnerLives(r) /\ runner[r].at = place
    BY DEF WritesLock, RunnerIsAt, RunnerLives
  <1>2. PICK x : x = [runner[r] EXCEPT !.at = next, !.copy = NoLock]
    OBVIOUS
  <1>3. x \in RunnerRow /\ x.at = next
    <2>1. runner[r] \in RunnerRow /\ NoLock \in LockRow
      BY ConvergenceParts, LockRows
    <2>2. next \in {"none", "gone", "answer", "throw"} \cup Beginning \cup Driving
      BY DEF Beginning, Driving
    <2> QED
      BY <1>2, <2>1, <2>2 DEF RunnerRow
  <1>4. /\ runner' = [runner EXCEPT ![r] = x] /\ applyLock' = lock
        /\ UNCHANGED <<runnerResult, business, succeeded, mishaps>> /\ RunSteady
    BY <1>2 DEF WritesLock
  <1>5. GroupLives(r) => place = "noting"
    BY <1>1, ConvergenceParts DEF InTurn
  <1>6. place # "introduce" => Drives(r) /\ Engaged(r)
    BY <1>1 DEF Drives, Driving, Engaged
  <1>7. next \in Driving => place # "introduce" /\ lock.runner = "READY"
    BY DEF Driving
  <1>8. next \in {"spawn", "note", "noting", "watch"} => lock.phase \in ActivePhases
    BY DEF ActivePhases
  <1>9. /\ next \notin {"none", "gone", "introduce", "starting", "failing", "noting", "settling"}
        /\ next = "confirm" => lock.runner = "READY"
        /\ GroupLives(r) => next \in {"note", "noting", "watch"}
        /\ Engaged(r) \/ lock.phase = "RUNNER_READY"
    BY <1>5, <1>6
  <1> QED
    BY <1>1, <1>3, <1>4, <1>6, <1>7, <1>8, <1>9, RunnerMoves

\* What the runner writes is what it has read of its own lock, with some fields changed.
LEMMA CopyIsOwn ==
    ASSUME ConvergenceInv, NEW r \in Convergences,
           runner[r].at \in {"introduce", "starting", "failing", "noting", "settling"}
    PROVE  /\ runner[r].copy \in LockRow /\ runner[r].copy.owner = r
           /\ runner[r].at # "introduce" => runner[r].copy.runner = "READY"
  BY ConvergenceParts DEF InTurn, RunnerRow

LEMMA IntroduceKeeps ==
    ASSUME ConvergenceInv, ~robbed, NEW r \in Convergences, Introduce(r)
    PROVE  ConvergenceInv'
  <1>1. CASE ReadsLock(r, "start", "introduce")
    BY <1>1, ReadsKeeps
  <1>2. CASE WritesLock(r, "introduce", "confirm",
                  [runner[r].copy EXCEPT !.phase = "RUNNER_READY", !.runner = "READY",
                                         !.child = "none"])
    <2>1. PICK c, lock : /\ c = runner[r].copy
                         /\ lock = [c EXCEPT !.phase = "RUNNER_READY", !.runner = "READY",
                                          !.child = "none"]
      OBVIOUS
    <2>2. c \in LockRow /\ c.owner = r
      BY <1>2, <2>1, CopyIsOwn DEF WritesLock, RunnerIsAt
    <2>3. "RUNNER_READY" \in Phases /\ c.child \in {"none", "RUNNING", "EXITED", "UNKNOWN"}
      BY <2>2 DEF LockRow, Phases, ActivePhases, TerminalPhases, TerminalPhase
    <2>4. lock \in LockRow /\ lock.owner = r /\ lock.phase = "RUNNER_READY" /\ lock.runner = "READY"
      BY <2>1, <2>2, <2>3 DEF LockRow
    <2>5. WritesLock(r, "introduce", "confirm", lock)
      BY <1>2, <2>1
    <2> QED
      BY <2>4, <2>5, WritesKeeps
  <1> QED
    BY <1>1, <1>2 DEF Introduce

LEMMA ConfirmKeeps ==
    ASSUME ConvergenceInv, ~robbed, NEW r \in Convergences, ConfirmRun(r)
    PROVE  ConvergenceInv'
  <1>1. CASE RunLives(r) /\ ReadsLock(r, "confirm", "starting")
    BY <1>1, ReadsKeeps
  <1>2. CASE WritesLock(r, "starting", "spawn", [runner[r].copy EXCEPT !.phase = "CHILD_STARTING"])
    <2>1. PICK c, lock : /\ c = runner[r].copy
                         /\ lock = [c EXCEPT !.phase = "CHILD_STARTING"]
      OBVIOUS
    <2>2. c \in LockRow /\ c.owner = r /\ c.runner = "READY"
      BY <1>2, <2>1, CopyIsOwn DEF WritesLock, RunnerIsAt
    <2>3. "CHILD_STARTING" \in Phases /\ c.child \in {"none", "RUNNING", "EXITED", "UNKNOWN"}
      BY <2>2 DEF LockRow, Phases, ActivePhases, TerminalPhases, TerminalPhase
    <2>4. lock \in LockRow /\ lock.owner = r /\ lock.phase = "CHILD_STARTING" /\ lock.runner = "READY"
      BY <2>1, <2>2, <2>3 DEF LockRow
    <2>5. WritesLock(r, "starting", "spawn", lock)
      BY <1>2, <2>1
    <2> QED
      BY <2>4, <2>5, WritesKeeps
  <1> QED
    BY <1>1, <1>2 DEF ConfirmRun

LEMMA FailKeeps ==
    ASSUME ConvergenceInv, ~robbed, NEW r \in Convergences, FailToSpawn(r)
    PROVE  ConvergenceInv'
  <1>1. CASE ReadsLock(r, "fail", "failing")
    BY <1>1, ReadsKeeps
  <1>2. CASE WritesLock(r, "failing", "throw",
                  [runner[r].copy EXCEPT !.phase = "RUNNER_FAILED", !.runner = "EXITED",
                                         !.child = "none"])
    <2>1. PICK c, lock : /\ c = runner[r].copy
                         /\ lock = [c EXCEPT !.phase = "RUNNER_FAILED", !.runner = "EXITED",
                                          !.child = "none"]
      OBVIOUS
    <2>2. c \in LockRow /\ c.owner = r
      BY <1>2, <2>1, CopyIsOwn DEF WritesLock, RunnerIsAt
    <2>3. "RUNNER_FAILED" \in Phases /\ c.child \in {"none", "RUNNING", "EXITED", "UNKNOWN"}
      BY <2>2 DEF LockRow, Phases, ActivePhases, TerminalPhases, TerminalPhase
    <2>4. lock \in LockRow /\ lock.owner = r /\ lock.phase = "RUNNER_FAILED" /\ lock.runner = "EXITED"
      BY <2>1, <2>2, <2>3 DEF LockRow
    <2>5. WritesLock(r, "failing", "throw", lock)
      BY <1>2, <2>1
    <2> QED
      BY <2>4, <2>5, WritesKeeps
  <1> QED
    BY <1>1, <1>2 DEF FailToSpawn

LEMMA NoteKeeps ==
    ASSUME ConvergenceInv, ~robbed, NEW r \in Convergences, NoteCommand(r)
    PROVE  ConvergenceInv'
  <1>1. CASE ReadsLock(r, "note", "noting")
    BY <1>1, ReadsKeeps
  <1>2. CASE WritesLock(r, "noting", "watch",
                  [runner[r].copy EXCEPT !.phase = "CHILD_RUNNING", !.child = "RUNNING"])
    <2>1. PICK c, lock : /\ c = runner[r].copy
                         /\ lock = [c EXCEPT !.phase = "CHILD_RUNNING", !.child = "RUNNING"]
      OBVIOUS
    <2>2. c \in LockRow /\ c.owner = r /\ c.runner = "READY"
      BY <1>2, <2>1, CopyIsOwn DEF WritesLock, RunnerIsAt
    <2>3. "CHILD_RUNNING" \in Phases /\ c.child \in {"none", "RUNNING", "EXITED", "UNKNOWN"}
      BY <2>2 DEF LockRow, Phases, ActivePhases, TerminalPhases, TerminalPhase
    <2>4. lock \in LockRow /\ lock.owner = r /\ lock.phase = "CHILD_RUNNING" /\ lock.runner = "READY"
      BY <2>1, <2>2, <2>3 DEF LockRow
    <2>5. WritesLock(r, "noting", "watch", lock)
      BY <1>2, <2>1
    <2> QED
      BY <2>4, <2>5, WritesKeeps
  <1> QED
    BY <1>1, <1>2 DEF NoteCommand

LEMMA SettleKeeps ==
    ASSUME ConvergenceInv, ~robbed, NEW r \in Convergences, SettleCommand(r)
    PROVE  ConvergenceInv'
  <1>1. CASE ReadsLock(r, "settle", "settling")
    BY <1>1, ReadsKeeps
  <1>2. CASE WritesLock(r, "settling", "answer",
                  [runner[r].copy EXCEPT !.phase = TerminalPhase(r), !.runner = "EXITED",
                       !.child = IF runner[r].unknown THEN "UNKNOWN" ELSE "EXITED"])
    <2>1. PICK c, p, d, lock :
            /\ c = runner[r].copy /\ p = TerminalPhase(r)
            /\ d = IF runner[r].unknown THEN "UNKNOWN" ELSE "EXITED"
            /\ lock = [c EXCEPT !.phase = p, !.runner = "EXITED", !.child = d]
      OBVIOUS
    <2>2. c \in LockRow /\ c.owner = r
      BY <1>2, <2>1, CopyIsOwn DEF WritesLock, RunnerIsAt
    <2>3. p \in Phases
      BY <2>1 DEF TerminalPhase, Phases, TerminalPhases
    <2>4. lock \in LockRow /\ lock.owner = r
      BY <2>1, <2>2, <2>3 DEF LockRow
    <2>5. WritesLock(r, "settling", "answer", lock)
      BY <1>2, <2>1
    <2> QED
      BY <2>4, <2>5, WritesKeeps
  <1> QED
    BY <1>1, <1>2 DEF SettleCommand

\* A step that leaves the lock and the result alone.
LEMMA CommandSteps ==
    ASSUME ConvergenceInv, ~robbed, NEW r \in Convergences, NEW x, NEW z,
           runner' = [runner EXCEPT ![r] = x], business' = [business EXCEPT ![r] = z],
           UNCHANGED <<runnerResult, applyLock>>, RunSteady,
           succeeded \subseteq succeeded', succeeded' \in SUBSET StepNumbers,
           mishaps' \in 0..MaxMishaps,
           RunnerLives(r) \/ GroupLives(r),
           x \in RunnerRow, z \in CommandRow,
           x.at \in Beginning => x = runner[r],
           x.at = "gone" => x = runner[r],
           x.at \notin {"none", "introduce", "starting", "failing", "noting", "settling"}
              \/ x = runner[r],
           x.at \notin {"none", "gone"} => RunnerLives(r),
           x.at \in Driving => Drives(r),
           Lives(z) => x.at \in {"note", "noting", "watch", "gone"},
           Lives(z) => GroupLives(r) \/ runner[r].at = "spawn",
           x.at \in {"spawn", "note", "noting", "watch"} =>
              runner[r].at \in {"spawn", "note", "noting", "watch"},
           z.step = business[r].step, z.ended = "ok" => z.step \in succeeded'
    PROVE  ConvergenceInv'
  <1>1. PICK y, l : y = runnerResult[r] /\ l = applyLock
    OBVIOUS
  <1>2. y \notin {"PASS", "HOLD"} /\ InTurn(r)
    BY <1>1, ConvergenceParts DEF InTurn, RunnerLives
  <1>3. RunnerStep(r, x, y, z, l)
    BY <1>1 DEF RunnerStep, ConvergenceInv, ConvergenceRows
  <1>4. applyLock.owner = r =>
              /\ x.at = "confirm" \/ x.at \in Driving => l.runner = "READY"
              /\ x.at \in {"spawn", "note", "noting", "watch"} => l.phase \in ActivePhases
              /\ Lives(z) => l.phase \in ActivePhases
    BY <1>1 DEF ConvergenceInv, LockTells, Beginning
  <1>5. Lives(z) => GroupLives(r) \/ Drives(r)
    BY DEF Drives, Driving
  <1>6. /\ x.at \in {"introduce", "starting", "failing", "noting", "settling"} => x.copy.owner = r
        /\ x.at \in {"starting", "failing", "noting", "settling"} => x.copy.runner = "READY"
        /\ x.at = "gone" => x = [NoRunner EXCEPT !.at = "gone"]
    BY <1>2 DEF InTurn
  <1>7. RunnerStepIsGood(r, x, y, z, l)
    BY <1>1, <1>2, <1>4, <1>5, <1>6, ConvergenceParts DEF RunnerStepIsGood
  <1> QED
    BY <1>3, <1>7, RunnerStepKeeps

LEMMA SpawnKeeps ==
    ASSUME ConvergenceInv, ~robbed, NEW r \in Convergences, SpawnCommand(r)
    PROVE  ConvergenceInv'
  <1>1. /\ RunnerLives(r) /\ Drives(r) /\ runner[r].at = "spawn"
        /\ UNCHANGED <<runnerResult, succeeded, applyLock, mishaps>> /\ RunSteady
    BY DEF SpawnCommand, RunnerIsAt, RunnerLives, Drives, Driving, LockSteady
  <1>2. succeeded' \in SUBSET StepNumbers /\ mishaps' \in 0..MaxMishaps
    BY <1>1 DEF ConvergenceInv, ConvergenceRows
  <1>3. Done(r) /\ ~GroupLives(r) /\ business[r] \in CommandRow /\ runner[r] \in RunnerRow
    BY <1>1, ConvergenceParts DEF InTurn
  <1>4. PICK z : z = [business[r] EXCEPT !.group = "running"] \/ z = business[r]
    OBVIOUS
  <1>5. ASSUME NEW x, NEW w,
               \/ /\ x = [runner[r] EXCEPT !.at = "note"]
                  /\ w = [business[r] EXCEPT !.group = "running"]
               \/ x = [runner[r] EXCEPT !.at = "fail"] /\ w = business[r],
               runner' = [runner EXCEPT ![r] = x], business' = [business EXCEPT ![r] = w]
        PROVE  ConvergenceInv'
    <2>1. /\ x \in RunnerRow /\ x.at \in {"note", "fail"} /\ w \in CommandRow
          /\ w.step = business[r].step /\ w.ended = business[r].ended
          /\ Lives(w) => x.at = "note"
      BY <1>3, <1>5 DEF RunnerRow, CommandRow, Beginning, Driving, Lives, GroupLives
    <2>2. w.ended = "ok" => w.step \in succeeded'
      BY <1>1, <1>3, <2>1 DEF Done
    <2> QED
      BY <1>1, <1>2, <1>5, <2>1, <2>2, CommandSteps DEF Beginning
  <1>6. CASE business' = [business EXCEPT ![r].group = "running"] /\ RunnerGoes(r, "note")
    BY <1>5, <1>6 DEF RunnerGoes
  <1>7. CASE UNCHANGED business /\ RunnerGoes(r, "fail")
    <2>1. business' = [business EXCEPT ![r] = business[r]]
      BY <1>7 DEF ConvergenceInv, ConvergenceRows
    <2> QED
      BY <1>5, <1>7, <2>1 DEF RunnerGoes
  <1> QED
    BY <1>6, <1>7 DEF SpawnCommand

LEMMA TerminateKeeps ==
    ASSUME ConvergenceInv, ~robbed, NEW r \in Convergences,
           TerminateCommand(r) \/ CommandCloses(r)
    PROVE  ConvergenceInv'
  <1>1. /\ RunnerLives(r) /\ Drives(r) /\ runner[r].at = "watch"
        /\ UNCHANGED <<runnerResult, succeeded, applyLock>> /\ RunSteady
    BY DEF TerminateCommand, CommandCloses, RunnerIsAt, RunnerLives, Drives, Driving, LockSteady
  <1>2. succeeded' \in SUBSET StepNumbers /\ mishaps' \in 0..MaxMishaps
    BY <1>1, ConvergenceAssumption
    DEF ConvergenceInv, ConvergenceRows, TerminateCommand, CommandCloses, Mishap, LockSteady
  <1>3. Done(r) /\ business[r] \in CommandRow /\ runner[r] \in RunnerRow
    BY ConvergenceParts
  <1>4. PICK x, z :
          /\ runner' = [runner EXCEPT ![r] = x] /\ business' = [business EXCEPT ![r] = z]
          /\ x = [runner[r] EXCEPT !.at = "settle"]
             \/ x = [runner[r] EXCEPT !.at = "settle", !.unknown = TRUE]
          /\ z = [business[r] EXCEPT !.group = "gone"]
             \/ z = [business[r] EXCEPT !.group = "gone",
                                        !.ended = IF @ = "none" THEN "signal" ELSE @]
    <2>1. CASE TerminateCommand(r)
      <3>1. /\ runner' = [runner EXCEPT ![r] = [runner[r] EXCEPT !.at = "settle", !.unknown = TRUE]]
            /\ business' = [business EXCEPT ![r] = [business[r] EXCEPT !.group = "gone",
                                        !.ended = IF @ = "none" THEN "signal" ELSE @]]
        BY <2>1 DEF TerminateCommand, ConvergenceInv, ConvergenceRows
      <3> QED
        BY <3>1
    <2>2. CASE CommandCloses(r)
      BY <2>2 DEF CommandCloses, RunnerGoes
    <2> QED
      BY <2>1, <2>2
  <1>5. /\ x \in RunnerRow /\ x.at = "settle" /\ z \in CommandRow /\ ~Lives(z)
        /\ z.step = business[r].step
        /\ z.ended = "ok" => business[r].ended = "ok"
    BY <1>3, <1>4 DEF RunnerRow, CommandRow, Driving, Lives
  <1>6. z.ended = "ok" => z.step \in succeeded'
    BY <1>1, <1>3, <1>4, <1>5 DEF Done, CommandRow
  <1> QED
    BY <1>1, <1>2, <1>4, <1>5, <1>6, CommandSteps DEF Beginning

LEMMA AnswerKeeps ==
    ASSUME ConvergenceInv, ~robbed, NEW r \in Convergences, AnswerRun(r)
    PROVE  ConvergenceInv'
  <1> DEFINE x == [NoRunner EXCEPT !.at = "gone"]
  <1>1. /\ RunnerLives(r) /\ runner[r].at \in {"answer", "throw"}
        /\ UNCHANGED <<business, succeeded, applyLock, mishaps>> /\ RunSteady
        /\ runner' = [runner EXCEPT ![r] = x]
    BY DEF AnswerRun, RunnerLives, LockSteady, RunnerGone
  <1>2. x \in RunnerRow /\ x.at = "gone"
    BY LockRows DEF RunnerRow, NoRunner
  <1>3. x = [NoRunner EXCEPT !.at = "gone"]
    OBVIOUS
  <1> HIDE DEF x
  <1>4. PICK y, z, l :
          /\ y = CASE runner[r].at = "throw" \/ runner[r].unknown -> "UNKNOWN"
                   [] runner[r].at = "answer" /\ TerminalPhase(r) = "FINISHED" -> "PASS"
                   [] OTHER -> "HOLD"
          /\ z = business[r] /\ l = applyLock
    OBVIOUS
  <1>5. y \in {"none", "PASS", "HOLD", "UNKNOWN"} /\ (y = "PASS" => z.ended = "ok")
    BY <1>4 DEF TerminalPhase
  <1>6. Done(r) /\ ~GroupLives(r) /\ business[r] \in CommandRow /\ l \in LockRow
    BY <1>1, <1>4, ConvergenceParts DEF InTurn
  <1>7. RunnerStep(r, x, y, z, l)
    BY <1>1, <1>4 DEF RunnerStep, AnswerRun, ConvergenceInv, ConvergenceRows
  <1>8. ~Lives(z) /\ (z.ended = "ok" => z.step \in succeeded')
    BY <1>1, <1>4, <1>6 DEF Lives, GroupLives, Done
  <1>9. RunnerStepIsGood(r, x, y, z, l)
    BY <1>2, <1>3, <1>4, <1>5, <1>6, <1>8 DEF RunnerStepIsGood, Driving
  <1> QED
    BY <1>7, <1>9, RunnerStepKeeps

LEMMA CommandEndsKeeps ==
    ASSUME ConvergenceInv, ~robbed, NEW r \in Convergences, CommandEnds(r) \/ LingererEnds(r)
    PROVE  ConvergenceInv'
  <1>1. /\ GroupLives(r) /\ UNCHANGED <<runner, runnerResult, applyLock>> /\ RunSteady
    BY DEF CommandEnds, LingererEnds, GroupLives, LockSteady
  <1>2. /\ Done(r) /\ InTurn(r) /\ business[r] \in CommandRow /\ runner[r] \in RunnerRow
    BY ConvergenceParts
  <1>3. PICK x : x = runner[r] /\ runner' = [runner EXCEPT ![r] = x]
    BY <1>1 DEF ConvergenceInv, ConvergenceRows
  <1>4. x.at \in {"note", "noting", "watch", "gone"}
    BY <1>1, <1>2, <1>3 DEF InTurn
  <1>5. mishaps' \in 0..MaxMishaps
    BY ConvergenceAssumption
    DEF ConvergenceInv, ConvergenceRows, CommandEnds, LingererEnds, Mishap, LockSteady
  <1>6. PICK z : /\ business' = [business EXCEPT ![r] = z] /\ z \in CommandRow
                 /\ z.step = business[r].step /\ succeeded \subseteq succeeded'
                 /\ succeeded' \subseteq succeeded \cup {business[r].step}
                 /\ z.ended = "ok" => z.step \in succeeded'
    <2>1. CASE LingererEnds(r)
      <3> DEFINE z == [business[r] EXCEPT !.group = "gone"]
      <3>1. z \in CommandRow /\ z.step = business[r].step /\ z.ended = business[r].ended
        BY <1>2 DEF CommandRow
      <3>2. business' = [business EXCEPT ![r] = z] /\ succeeded' = succeeded
        BY <2>1 DEF LingererEnds
      <3> HIDE DEF z
      <3> QED
        BY <1>2, <3>1, <3>2 DEF Done
    <2>2. CASE CommandEnds(r)
      <3>1. PICK how \in {"ok", "failed", "signal"}, rest \in {"lingering", "gone"} :
              /\ business' = [business EXCEPT ![r].group = rest, ![r].ended = how]
              /\ succeeded' = IF how = "ok" THEN succeeded \cup {business[r].step} ELSE succeeded
        BY <2>2 DEF CommandEnds
      <3> DEFINE z == [business[r] EXCEPT !.group = rest, !.ended = how]
      <3>2. z \in CommandRow /\ z.step = business[r].step /\ z.ended = how
        BY <1>2 DEF CommandRow
      <3>3. business' = [business EXCEPT ![r] = z]
        BY <3>1 DEF ConvergenceInv, ConvergenceRows
      <3> HIDE DEF z
      <3> QED
        BY <3>1, <3>2, <3>3
    <2> QED
      BY <2>1, <2>2
  <1>7. succeeded' \in SUBSET StepNumbers
    <2>1. business[r].step \in StepNumbers
      BY <1>1, <1>2 DEF InTurn
    <2> QED
      BY <1>6, <2>1 DEF ConvergenceInv, ConvergenceRows
  <1>8. /\ x.at = "gone" => x = runner[r]
        /\ x.at \notin {"none"} \cup Beginning
        /\ x.at \notin {"none", "gone"} => RunnerLives(r)
        /\ x.at \in Driving => Drives(r)
    BY <1>3, <1>4 DEF RunnerLives, Drives, Beginning
  <1> QED
    BY <1>1, <1>2, <1>3, <1>4, <1>5, <1>6, <1>7, <1>8, CommandSteps

LEMMA KillRunnerKeeps ==
    ASSUME ConvergenceInv, ~robbed, NEW r \in Convergences, KillRunner(r)
    PROVE  ConvergenceInv'
  <1>1. PICK y : y = runnerResult[r]
    OBVIOUS
  <1>2. runnerResult' = [runnerResult EXCEPT ![r] = y]
    BY <1>1 DEF KillRunner, ConvergenceInv, ConvergenceRows
  <1>3. mishaps' \in 0..MaxMishaps
    BY ConvergenceAssumption DEF KillRunner, Mishap, ConvergenceInv, ConvergenceRows
  <1>4. RunSteady
    BY DEF KillRunner, RunSteady
  <1> QED
    BY <1>1, <1>2, <1>3, <1>4, RunnerGoneKeeps DEF KillRunner

-----------------------------------------------------------------------------
(* TaskConvergence: the steps of a run *)

OnlySteps(r) ==
    \A q \in Convergences \ {r} :
        /\ convergence'[q] = convergence[q]
        /\ runner'[q] = runner[q]
        /\ runnerResult'[q] = runnerResult[q]
        /\ business'[q] = business[q]

\* The lock stays, is gone, or is the own one.
LockStep(r, l) ==
    \/ /\ l = applyLock /\ (Works(r)' => Works(r))
       /\ l.owner = r => convergence'[r].at \notin Comers
    \/ /\ l = NoLock /\ ~Engaged(r)'
       /\ \A q \in Convergences : Engaged(q) => q = r
    \/ /\ l = OwnLock(r) /\ ~Drives(r)' /\ ~GroupLives(r)' /\ runner'[r].at # "confirm"
       /\ convergence'[r].at \notin Comers
       /\ \A q \in Convergences : Engaged(q) => q = r

LEMMA RunStepKeeps ==
    ASSUME ConvergenceInv, ~robbed, NEW r \in Convergences, NEW l,
           ConvergenceRows', OnlySteps(r), applyLock' = l, UNCHANGED succeeded,
           convergence[r].at # "ended",
           InTurn(r)', Done(r)', PassIsTrue',
           Drives(r)' => Drives(r), GroupLives(r)' => GroupLives(r),
           runner'[r] = runner[r] \/ runner'[r].at = "start",
           ~robbed' => LockStep(r, l) /\ \A q \in Convergences : Recorded(q)'
    PROVE  ConvergenceInv'
  <1>1. \A q \in Convergences \ {r} : Engaged(q)' <=> Engaged(q)
    BY DEF OnlySteps, Engaged, Works, Drives, GroupLives
  <1>2. ASSUME NEW o, Over(o)
        PROVE  Over(o)'
    BY <1>2 DEF OnlySteps, Over, Drives, GroupLives
  <1>3. \A q \in Convergences : InTurn(q)'
    <2>1. ASSUME NEW q \in Convergences, q # r
          PROVE  InTurn(q)'
      <3>1. InTurn(q)
        BY ConvergenceParts
      <3>2. PICK o : o = convergence[q].seen.owner
        OBVIOUS
      <3>3. Over(o) => Over(o)'
        BY <1>2
      <3>4. convergence[q].at = "reclaim" => Over(convergence[q].seen.owner)'
        BY <2>1, <3>1, <3>2, <3>3 DEF InTurn, OnlySteps, Over, Drives, GroupLives
      <3> QED
        BY <2>1, <3>1, <3>4 DEF InTurn, OnlySteps, RunnerLives, GroupLives
    <2> QED
      BY <2>1
  <1>4. \A q \in Convergences : Done(q)'
    BY ConvergenceParts DEF Done, OnlySteps
  <1>5. ASSUME ~robbed'
        PROVE  LockTells' /\ OneIsEngaged'
    <2>1. LockTells /\ OneIsEngaged
      BY DEF ConvergenceInv
    <2>2. CASE l = applyLock /\ (Works(r)' => Works(r))
               /\ (l.owner = r => convergence'[r].at \notin Comers)
      <3>1. \A q \in Convergences : Engaged(q)' => Engaged(q)
        BY <1>1, <2>2 DEF Engaged
      <3>2. LockTells'
        BY <2>1, <2>2 DEF LockTells, OnlySteps, Drives, GroupLives, Driving
      <3>3. PICK o : o = applyLock.owner
        OBVIOUS
      <3>4. Over(o) => Over(o)'
        BY <1>2
      <3>5. Over(applyLock.owner) => Over(applyLock.owner)'
        BY <2>2, <3>3, <3>4 DEF Over, Drives, GroupLives
      <3> QED
        BY <2>1, <2>2, <3>1, <3>2, <3>5 DEF OneIsEngaged
    <2>3. CASE l = NoLock /\ ~Engaged(r)' /\ \A q \in Convergences : Engaged(q) => q = r
      <3>1. \A q \in Convergences : ~Engaged(q)'
        BY <1>1, <2>3
      <3>2. LockTells'
        BY <2>3, LockRows DEF LockTells
      <3> QED
        BY <3>1, <3>2 DEF OneIsEngaged
    <2>4. CASE /\ l = OwnLock(r) /\ ~Drives(r)' /\ ~GroupLives(r)' /\ runner'[r].at # "confirm"
               /\ convergence'[r].at \notin Comers
               /\ \A q \in Convergences : Engaged(q) => q = r
      <3>1. \A q \in Convergences : Engaged(q)' => q = r
        BY <1>1, <2>4
      <3>2. l.owner = r /\ l.owner # 0
        BY <2>4, LockRows
      <3>3. LockTells'
        BY <2>4, <3>2 DEF LockTells, Drives, Driving
      <3> QED
        BY <3>1, <3>2, <3>3 DEF OneIsEngaged
    <2> QED
      BY <1>5, <2>2, <2>3, <2>4 DEF LockStep
  <1> QED
    BY <1>3, <1>4, <1>5 DEF ConvergenceInv

\* What a run may become while its runner and its command are as they were.
RunStepIsGood(r, c) ==
    /\ c \in ConvergenceRow /\ c.at # "wait"
    /\ c.at # "ended" => ~RunnerLives(r)
    /\ GroupLives(r) => c.at \in {"close", "release", "ended"}
    /\ c.at \in {"attempt", "claim", "prepare", "launch"} =>
          /\ c.step \in StepNumbers
          /\ \A k \in StepNumbers : k < c.step => k \in succeeded
    /\ c.at = "reclaim" => Over(c.seen.owner) /\ c.seen.phase # "RUNNER_READY"
    /\ c.verdict = "PASS" => StepNumbers \subseteq succeeded
    /\ c.at \notin {"close", "release", "unlink"} => c.verdict = "none"
    /\ convergence[r].at # "ended"

RunBecomes(r, c) ==
    /\ convergence' = [convergence EXCEPT ![r] = c]
    /\ UNCHANGED Processes /\ mishaps' \in 0..MaxMishaps

LEMMA RunBecomesKeeps ==
    ASSUME ConvergenceInv, ~robbed, NEW r \in Convergences, NEW c, NEW l,
           RunBecomes(r, c), RunStepIsGood(r, c),
           applyLock' = l, l \in LockRow,
           report' \in {"none", "RUNNING", "HOLD", "PASS"},
           receipts' \in [StepNumbers -> {"none", "RUNNING", "PASS", "HOLD", "UNKNOWN"}],
           robbed' \in BOOLEAN, PassIsTrue',
           ~robbed' => LockStep(r, l) /\ \A q \in Convergences : Recorded(q)'
    PROVE  ConvergenceInv'
  <1>1. /\ runner' = runner /\ runnerResult' = runnerResult /\ business' = business
        /\ succeeded' = succeeded
    BY DEF RunBecomes, Processes
  <1>2. convergence'[r] = c /\ \A q \in Convergences \ {r} : convergence'[q] = convergence[q]
    BY DEF RunBecomes, ConvergenceInv, ConvergenceRows
  <1>3. ConvergenceRows'
    BY <1>1 DEF RunBecomes, RunStepIsGood, ConvergenceInv, ConvergenceRows
  <1>4. InTurn(r) /\ Done(r)
    BY ConvergenceParts
  <1>5. InTurn(r)'
    <2>1. c.at = "reclaim" => Over(convergence[r].seen.owner)'
      BY <1>1, <1>2 DEF RunStepIsGood, Over, Drives, GroupLives
    <2> QED
      BY <1>1, <1>2, <1>4, <2>1 DEF InTurn, RunStepIsGood, RunnerLives, GroupLives
  <1>6. Done(r)'
    BY <1>1, <1>2, <1>4 DEF Done, RunStepIsGood
  <1>7. OnlySteps(r)
    BY <1>1, <1>2 DEF OnlySteps
  <1>8. (Drives(r)' => Drives(r)) /\ (GroupLives(r)' => GroupLives(r)) /\ convergence[r].at # "ended"
    BY <1>1 DEF Drives, GroupLives, RunStepIsGood
  <1> QED
    BY <1>1, <1>3, <1>5, <1>6, <1>7, <1>8, RunStepKeeps

Stepping == {"attempt", "claim", "prepare", "launch", "wait"}

\* A step that leaves all evidence alone.
LEMMA QuietRunKeeps ==
    ASSUME ConvergenceInv, ~robbed, NEW r \in Convergences, NEW c, NEW l,
           RunBecomes(r, c), RunStepIsGood(r, c), applyLock' = l, l \in LockRow,
           UNCHANGED Evidence, robbed' \in BOOLEAN,
           c.at # "close",
           c.at \in Stepping => convergence[r].at \in Stepping /\ c.step = convergence[r].step,
           ~robbed' => LockStep(r, l)
    PROVE  ConvergenceInv'
  <1>1. report' = report /\ receipts' = receipts /\ succeeded' = succeeded
    BY DEF Evidence, RunBecomes, Processes
  <1>2. PassIsTrue'
    BY <1>1 DEF ConvergenceInv, PassIsTrue
  <1>3. convergence'[r] = c /\ \A q \in Convergences \ {r} : convergence'[q] = convergence[q]
    BY DEF RunBecomes, ConvergenceInv, ConvergenceRows
  <1>4. \A q \in Convergences \ {r} : Recorded(q)'
    BY <1>1, <1>3 DEF ConvergenceInv, Recorded
  <1>5. Recorded(r)'
    BY <1>1, <1>3 DEF ConvergenceInv, Recorded, Stepping
  <1>6. /\ report' \in {"none", "RUNNING", "HOLD", "PASS"}
        /\ receipts' \in [StepNumbers -> {"none", "RUNNING", "PASS", "HOLD", "UNKNOWN"}]
    BY <1>1 DEF ConvergenceInv, ConvergenceRows
  <1> QED
    BY <1>2, <1>4, <1>5, <1>6, RunBecomesKeeps

LEMMA EndedRow ==
    LET c == [NotBegun EXCEPT !.at = "ended"]
    IN  c \in ConvergenceRow /\ c.at = "ended" /\ c.verdict = "none"
  BY LockRows, ConvergenceAssumption DEF NotBegun, ConvergenceRow

\* A run that ends, or is killed, with the evidence and the lock as they are.
LEMMA EndKeeps ==
    ASSUME ConvergenceInv, ~robbed, NEW r \in Convergences, Ends(r),
           UNCHANGED <<applyLock, Evidence, Processes, robbed>>, mishaps' \in 0..MaxMishaps,
           convergence[r].at # "ended"
    PROVE  ConvergenceInv'
  <1>1. PICK c, l : c = [NotBegun EXCEPT !.at = "ended"] /\ l = applyLock
    OBVIOUS
  <1>2. c \in ConvergenceRow /\ c.at = "ended" /\ c.verdict = "none"
    BY <1>1, EndedRow
  <1>3. RunBecomes(r, c)
    BY <1>1 DEF RunBecomes, Ends
  <1>4. RunStepIsGood(r, c)
    BY <1>2 DEF RunStepIsGood
  <1>5. convergence'[r] = c
    BY <1>3 DEF RunBecomes, ConvergenceInv, ConvergenceRows
  <1>6. LockStep(r, l)
    BY <1>1, <1>2, <1>5 DEF LockStep, Works, Workers, Comers
  <1>7. applyLock' = l /\ l \in LockRow /\ robbed' \in BOOLEAN
    BY <1>1 DEF ConvergenceInv, ConvergenceRows
  <1> QED
    BY <1>2, <1>3, <1>4, <1>6, <1>7, QuietRunKeeps DEF Stepping

LEMMA KillRunKeeps ==
    ASSUME ConvergenceInv, ~robbed, NEW r \in Convergences, KillRun(r)
    PROVE  ConvergenceInv'
  <1>1. mishaps' \in 0..MaxMishaps
    BY ConvergenceAssumption DEF KillRun, Mishap, ConvergenceInv, ConvergenceRows
  <1> QED
    BY <1>1, EndKeeps DEF KillRun, RunLives

\* What a run is when it goes on to a place.
LEMMA Going ==
    ASSUME ConvergenceInv, NEW r \in Convergences, NEW place, Goes(r, place),
           place \in Comers \cup Workers, UNCHANGED Processes, UNCHANGED mishaps
    PROVE  \E c : /\ c \in ConvergenceRow /\ c.at = place /\ c.step = convergence[r].step
                  /\ c.verdict = convergence[r].verdict /\ c.seen = convergence[r].seen
                  /\ RunBecomes(r, c) /\ convergence'[r] = c
  <1> DEFINE c == [convergence[r] EXCEPT !.at = place]
  <1>1. /\ c \in ConvergenceRow /\ c.at = place /\ c.step = convergence[r].step
        /\ c.verdict = convergence[r].verdict /\ c.seen = convergence[r].seen
    BY ConvergenceParts DEF ConvergenceRow
  <1>2. convergence' = [convergence EXCEPT ![r] = c]
    BY DEF Goes
  <1> HIDE DEF c
  <1>3. RunBecomes(r, c) /\ convergence'[r] = c
    BY <1>2 DEF RunBecomes, ConvergenceInv, ConvergenceRows
  <1> QED
    BY <1>1, <1>3

\* Where a run is before it waits for a runner, none of its own lives, nor a command.
LEMMA NothingStarted ==
    ASSUME ConvergenceInv, NEW r \in Convergences
    PROVE  /\ convergence[r].at \notin {"wait", "ended"} => ~RunnerLives(r) /\ ~Drives(r)
           /\ convergence[r].at \notin {"wait", "close", "release", "ended"} => ~GroupLives(r)
           /\ convergence[r].at \notin {"close", "release", "unlink"} =>
                 convergence[r].verdict = "none"
           /\ convergence[r].at \in Comers /\ ~robbed => applyLock.owner # r
  <1>1. InTurn(r) /\ Done(r)
    BY ConvergenceParts
  <1>2. Drives(r) => RunnerLives(r)
    BY RunnerHasRun
  <1> QED
    BY <1>1, <1>2 DEF InTurn, Done, ConvergenceInv, LockTells

LEMMA BeginConvergenceKeeps ==
    ASSUME ConvergenceInv, ~robbed, NEW r \in Convergences, BeginConvergence(r)
    PROVE  ConvergenceInv'
  <1>1. /\ convergence[r].at = "idle" /\ UNCHANGED <<applyLock, Evidence, Processes, robbed, mishaps>>
    BY DEF BeginConvergence, IsAt
  <1>2. robbed' \in BOOLEAN /\ mishaps' \in 0..MaxMishaps
    BY <1>1 DEF ConvergenceInv, ConvergenceRows
  <1>3. CASE Ends(r)
    BY <1>1, <1>2, <1>3, EndKeeps
  <1>4. CASE Goes(r, "acquire")
    <2>1. PICK c : /\ c \in ConvergenceRow /\ c.at = "acquire" /\ c.verdict = "none"
                   /\ RunBecomes(r, c) /\ convergence'[r] = c
      BY <1>1, <1>4, Going, NothingStarted DEF Comers
    <2>2. PICK l : l = applyLock /\ l \in LockRow
      BY ConvergenceParts
    <2>3. RunStepIsGood(r, c)
      BY <1>1, <2>1, NothingStarted DEF RunStepIsGood
    <2>4. LockStep(r, l)
      BY <1>1, <2>1, <2>2, NothingStarted DEF LockStep, Works, Workers, Comers
    <2> QED
      BY <1>1, <1>2, <2>1, <2>2, <2>3, <2>4, QuietRunKeeps DEF Stepping
  <1> QED
    BY <1>3, <1>4 DEF BeginConvergence

\* The lock is made where there is none.
LEMMA TakesLock ==
    ASSUME ConvergenceInv, ~robbed, NEW r \in Convergences,
           convergence[r].at \in {"acquire", "create"},
           applyLock = NoLock, applyLock' = OwnLock(r), Goes(r, "open"),
           UNCHANGED <<Evidence, Processes, robbed, mishaps>>
    PROVE  ConvergenceInv'
  <1>1. PICK c : /\ c \in ConvergenceRow /\ c.at = "open" /\ c.verdict = "none"
                 /\ RunBecomes(r, c) /\ convergence'[r] = c
    BY Going, NothingStarted DEF Workers
  <1>2. PICK l : l = OwnLock(r) /\ l \in LockRow
    BY LockRows
  <1>3. RunStepIsGood(r, c)
    BY <1>1, NothingStarted DEF RunStepIsGood
  <1>4. LockStep(r, l)
    <2>1. ~Drives(r)' /\ ~GroupLives(r)' /\ runner'[r].at # "confirm"
      BY NothingStarted DEF Processes, Drives, GroupLives, RunnerLives
    <2> QED
      BY <1>1, <1>2, <2>1, NobodyEngaged DEF LockStep, Comers
  <1>5. robbed' \in BOOLEAN
    BY DEF ConvergenceInv, ConvergenceRows
  <1> QED
    BY <1>1, <1>2, <1>3, <1>4, <1>5, QuietRunKeeps DEF Stepping

LEMMA AcquireKeeps ==
    ASSUME ConvergenceInv, ~robbed, NEW r \in Convergences, AcquireApplyLock(r)
    PROVE  ConvergenceInv'
  <1>1. convergence[r].at = "acquire" /\ UNCHANGED <<Evidence, Processes, robbed, mishaps>>
    BY DEF AcquireApplyLock, IsAt
  <1>2. robbed' \in BOOLEAN /\ mishaps' \in 0..MaxMishaps
    BY <1>1 DEF ConvergenceInv, ConvergenceRows
  <1>3. CASE applyLock = NoLock /\ applyLock' = OwnLock(r) /\ Goes(r, "open")
    BY <1>1, <1>3, TakesLock
  <1>4. CASE Ends(r) /\ UNCHANGED applyLock
    BY <1>1, <1>2, <1>4, EndKeeps
  <1>5. CASE /\ applyLock # NoLock /\ Reclaimable(applyLock) /\ UNCHANGED applyLock
             /\ convergence' = [convergence EXCEPT ![r].at = "reclaim", ![r].seen = applyLock]
    <2>1. PICK l, c : /\ l = applyLock /\ l \in LockRow
                      /\ c = [convergence[r] EXCEPT !.at = "reclaim", !.seen = l]
      BY ConvergenceParts
    <2>2. /\ c \in ConvergenceRow /\ c.at = "reclaim" /\ c.seen = l
          /\ c.verdict = convergence[r].verdict
      BY <2>1, ConvergenceParts DEF ConvergenceRow, Comers
    <2>3. convergence' = [convergence EXCEPT ![r] = c]
      BY <1>5, <2>1 DEF ConvergenceInv, ConvergenceRows
    <2>4. RunBecomes(r, c) /\ convergence'[r] = c
      BY <1>1, <1>2, <2>3 DEF RunBecomes, ConvergenceInv, ConvergenceRows
    <2>5. RunStepIsGood(r, c)
      BY <1>1, <1>5, <2>1, <2>2, NothingStarted, ReclaimableIsOver DEF RunStepIsGood
    <2>6. LockStep(r, l)
      BY <1>1, <2>1, <2>2, <2>4, NothingStarted DEF LockStep, Works, Workers, Comers
    <2> QED
      BY <1>1, <1>2, <1>5, <2>1, <2>2, <2>4, <2>5, <2>6, QuietRunKeeps DEF Stepping
  <1> QED
    BY <1>3, <1>4, <1>5 DEF AcquireApplyLock

LEMMA ReclaimKeeps ==
    ASSUME ConvergenceInv, ~robbed, NEW r \in Convergences, ReclaimLock(r)
    PROVE  ConvergenceInv'
  <1>1. /\ convergence[r].at = "reclaim" /\ applyLock' = NoLock
        /\ robbed' = (robbed \/ applyLock \notin {NoLock, convergence[r].seen})
        /\ UNCHANGED <<Evidence, Processes, mishaps>>
    BY DEF ReclaimLock, IsAt
  <1>2. robbed' \in BOOLEAN /\ mishaps' \in 0..MaxMishaps
    BY <1>1 DEF ConvergenceInv, ConvergenceRows
  <1>3. PICK c, l : c = [convergence[r] EXCEPT !.at = "create", !.seen = l] /\ l = NoLock
    OBVIOUS
  <1>4. c \in ConvergenceRow /\ c.at = "create" /\ c.verdict = convergence[r].verdict
    <2>1. convergence[r] \in ConvergenceRow /\ l \in LockRow
      BY <1>3, ConvergenceParts, LockRows
    <2> QED
      BY <1>3, <2>1 DEF ConvergenceRow, Comers
  <1>5. convergence' = [convergence EXCEPT ![r] = c]
    BY <1>3 DEF ReclaimLock, ConvergenceInv, ConvergenceRows
  <1>6. RunBecomes(r, c) /\ convergence'[r] = c
    BY <1>1, <1>2, <1>5 DEF RunBecomes, ConvergenceInv, ConvergenceRows
  <1>7. RunStepIsGood(r, c)
    BY <1>1, <1>4, NothingStarted DEF RunStepIsGood
  <1>8. ASSUME ~robbed'
        PROVE  LockStep(r, l)
    <2>1. InTurn(r)
      BY ConvergenceParts
    <2>2. applyLock = NoLock \/ (Over(applyLock.owner) /\ applyLock.phase # "RUNNER_READY")
      BY <1>1, <1>8, <2>1 DEF InTurn
    <2>3. \A q \in Convergences : ~Engaged(q)
      BY <2>2, NobodyEngaged
    <2>4. ~Engaged(r)'
      BY <1>1, <1>4, <1>6, <2>3 DEF Engaged, Works, Workers, Drives, GroupLives, Processes
    <2> QED
      BY <1>3, <2>3, <2>4 DEF LockStep
  <1> QED
    BY <1>1, <1>2, <1>3, <1>4, <1>6, <1>7, <1>8, LockRows, QuietRunKeeps DEF Stepping

LEMMA CreateKeeps ==
    ASSUME ConvergenceInv, ~robbed, NEW r \in Convergences, CreateLock(r)
    PROVE  ConvergenceInv'
  <1>1. convergence[r].at = "create" /\ UNCHANGED <<Evidence, Processes, robbed, mishaps>>
    BY DEF CreateLock, IsAt
  <1>2. mishaps' \in 0..MaxMishaps
    BY <1>1 DEF ConvergenceInv, ConvergenceRows
  <1> QED
    BY <1>1, <1>2, TakesLock, EndKeeps DEF CreateLock

\* Who works is alone.
LEMMA WorksAlone ==
    ASSUME ConvergenceInv, ~robbed, NEW r \in Convergences, Works(r)
    PROVE  \A q \in Convergences : Engaged(q) => q = r
  BY DEF ConvergenceInv, OneIsEngaged, Engaged

\* Where the lock stays with one who goes on working, or who ends.
LEMMA LockStays ==
    ASSUME ConvergenceInv, NEW r \in Convergences, Works(r), NEW l, l = applyLock,
           convergence'[r].at \notin Comers
    PROVE  LockStep(r, l)
  BY DEF LockStep

LEMMA OthersRecord ==
    ASSUME ConvergenceInv, ~robbed, NEW r \in Convergences, Works(r),
           \A q \in Convergences \ {r} : convergence'[q] = convergence[q]
    PROVE  \A q \in Convergences \ {r} :
              Recorded(q)' /\ convergence'[q].at \notin Stepping \cup {"close"}
  <1> SUFFICES ASSUME NEW q \in Convergences \ {r}
               PROVE  Recorded(q)' /\ convergence'[q].at \notin Stepping \cup {"close"}
    OBVIOUS
  <1>1. ~Works(q)
    BY WorksAlone DEF Engaged
  <1> QED
    BY <1>1 DEF Works, Workers, Recorded, Stepping

LEMMA OpenKeeps ==
    ASSUME ConvergenceInv, ~robbed, NEW r \in Convergences, OpenReport(r)
    PROVE  ConvergenceInv'
  <1>1. /\ convergence[r].at = "open" /\ report' = "RUNNING" /\ Works(r)
        /\ UNCHANGED <<applyLock, receipts, Processes, robbed, mishaps>>
    BY DEF OpenReport, IsAt, Works, Workers
  <1>2. PICK c, l : c = [convergence[r] EXCEPT !.at = "attempt", !.step = 1] /\ l = applyLock
    OBVIOUS
  <1>3. /\ c \in ConvergenceRow /\ c.at = "attempt" /\ c.step = 1
        /\ c.verdict = convergence[r].verdict
    <2>1. 1 \in 0..BusinessSteps
      BY ConvergenceAssumption
    <2> QED
      BY <1>2, <2>1, ConvergenceParts DEF ConvergenceRow, Workers
  <1>4. convergence' = [convergence EXCEPT ![r] = c]
    BY <1>2 DEF OpenReport, ConvergenceInv, ConvergenceRows
  <1>5. /\ RunBecomes(r, c) /\ convergence'[r] = c
        /\ \A q \in Convergences \ {r} : convergence'[q] = convergence[q]
    BY <1>1, <1>4 DEF RunBecomes, ConvergenceInv, ConvergenceRows
  <1>6. 1 \in StepNumbers /\ \A k \in StepNumbers : ~(k < 1)
    BY ConvergenceAssumption DEF StepNumbers
  <1>7. RunStepIsGood(r, c)
    BY <1>1, <1>3, <1>6, NothingStarted DEF RunStepIsGood
  <1>8. LockStep(r, l)
    BY <1>1, <1>2, <1>3, <1>5, LockStays DEF Comers
  <1>9. Recorded(r)'
    BY <1>1, <1>3, <1>5, <1>6 DEF Recorded
  <1>10. \A q \in Convergences : Recorded(q)'
    BY <1>1, <1>5, <1>9, OthersRecord
  <1>11. PassIsTrue'
    BY <1>1 DEF ConvergenceInv, PassIsTrue, Processes
  <1>12. /\ l \in LockRow /\ applyLock' = l /\ robbed' \in BOOLEAN
         /\ receipts' \in [StepNumbers -> {"none", "RUNNING", "PASS", "HOLD", "UNKNOWN"}]
    BY <1>1, <1>2 DEF ConvergenceInv, ConvergenceRows
  <1> QED
    BY <1>1, <1>5, <1>7, <1>8, <1>10, <1>11, <1>12, RunBecomesKeeps

\* A receipt that says what is not PASS, while the report does not say so either.
LEMMA ReceiptKeepsTruth ==
    ASSUME ConvergenceInv, NEW k \in StepNumbers, NEW v, v = "PASS" => k \in succeeded,
           receipts' = [receipts EXCEPT ![k] = v], report' = report, succeeded' = succeeded,
           report # "PASS"
    PROVE  PassIsTrue'
  BY DEF ConvergenceInv, ConvergenceRows, PassIsTrue

LEMMA AttemptKeeps ==
    ASSUME ConvergenceInv, ~robbed, NEW r \in Convergences, AttemptStep(r)
    PROVE  ConvergenceInv'
  <1>1. /\ convergence[r].at = "attempt" /\ Works(r) /\ Goes(r, "claim")
        /\ UNCHANGED <<applyLock, report, Processes, robbed, mishaps>>
    BY DEF AttemptStep, IsAt, Works, Workers
  <1>2. PICK c, l : /\ c \in ConvergenceRow /\ c.at = "claim" /\ c.verdict = "none"
                    /\ c.step = convergence[r].step
                    /\ RunBecomes(r, c) /\ convergence'[r] = c /\ l = applyLock
    BY <1>1, Going, NothingStarted DEF Workers
  <1>3. InTurn(r) /\ Done(r) /\ Recorded(r)
    BY ConvergenceParts DEF ConvergenceInv
  <1>4. PICK k : k = convergence[r].step /\ k \in StepNumbers
    BY <1>1, <1>3 DEF InTurn
  <1>5. /\ receipts' = [receipts EXCEPT ![k] = "RUNNING"]
        /\ receipts' \in [StepNumbers -> {"none", "RUNNING", "PASS", "HOLD", "UNKNOWN"}]
    BY <1>4 DEF AttemptStep, ConvergenceInv, ConvergenceRows
  <1>6. RunStepIsGood(r, c)
    BY <1>1, <1>2, <1>3, <1>4, NothingStarted DEF RunStepIsGood, Done
  <1>7. LockStep(r, l)
    BY <1>1, <1>2, LockStays DEF Comers
  <1>8. report # "PASS"
    BY <1>1, <1>3 DEF Recorded
  <1>9. PassIsTrue'
    BY <1>1, <1>4, <1>5, <1>8, ReceiptKeepsTruth DEF Processes
  <1>10. Recorded(r)'
    <2>1. \A j \in StepNumbers : j < c.step => receipts'[j] = receipts[j]
      BY <1>2, <1>4, <1>5 DEF StepNumbers, ConvergenceInv, ConvergenceRows
    <2> QED
      BY <1>1, <1>2, <1>3, <1>8, <2>1 DEF Recorded
  <1>11. \A q \in Convergences : Recorded(q)'
    BY <1>1, <1>2, <1>10, OthersRecord DEF RunBecomes, ConvergenceInv, ConvergenceRows
  <1>12. /\ l \in LockRow /\ applyLock' = l /\ robbed' \in BOOLEAN
         /\ report' \in {"none", "RUNNING", "HOLD", "PASS"}
    BY <1>1, <1>2 DEF ConvergenceInv, ConvergenceRows
  <1> QED
    BY <1>2, <1>5, <1>6, <1>7, <1>9, <1>11, <1>12, RunBecomesKeeps

LEMMA ClaimKeeps ==
    ASSUME ConvergenceInv, ~robbed, NEW r \in Convergences, ClaimStep(r)
    PROVE  ConvergenceInv'
  <1>1. /\ convergence[r].at = "claim" /\ Works(r)
        /\ UNCHANGED <<applyLock, report, Processes, robbed, mishaps>>
    BY DEF ClaimStep, IsAt, Works, Workers
  <1>2. InTurn(r) /\ Done(r) /\ Recorded(r)
    BY ConvergenceParts DEF ConvergenceInv
  <1>3. PICK l : l = applyLock /\ l \in LockRow
    BY ConvergenceParts
  <1>4. robbed' \in BOOLEAN /\ report' \in {"none", "RUNNING", "HOLD", "PASS"}
        /\ mishaps' \in 0..MaxMishaps
    BY <1>1 DEF ConvergenceInv, ConvergenceRows
  <1>5. CASE Goes(r, "prepare") /\ UNCHANGED receipts
    <2>1. PICK c : /\ c \in ConvergenceRow /\ c.at = "prepare" /\ c.verdict = "none"
                   /\ c.step = convergence[r].step
                   /\ RunBecomes(r, c) /\ convergence'[r] = c
      BY <1>1, <1>5, Going, NothingStarted DEF Workers
    <2>2. RunStepIsGood(r, c)
      BY <1>1, <1>2, <2>1, NothingStarted DEF RunStepIsGood, Done, InTurn
    <2>3. LockStep(r, l)
      BY <1>1, <1>3, <2>1, LockStays DEF Comers
    <2> QED
      BY <1>1, <1>3, <1>4, <1>5, <2>1, <2>2, <2>3, QuietRunKeeps DEF Evidence, Stepping
  <1>6. CASE Ends(r) /\ receipts' = [receipts EXCEPT ![convergence[r].step] = "UNKNOWN"]
    <2>1. PICK c, k : /\ c = [NotBegun EXCEPT !.at = "ended"]
                      /\ k = convergence[r].step /\ k \in StepNumbers
      BY <1>1, <1>2 DEF InTurn
    <2>2. c \in ConvergenceRow /\ c.at = "ended" /\ c.verdict = "none"
      BY <2>1, EndedRow
    <2>3. RunBecomes(r, c) /\ convergence'[r] = c
      BY <1>1, <1>4, <1>6, <2>1 DEF RunBecomes, Ends, ConvergenceInv, ConvergenceRows
    <2>4. RunStepIsGood(r, c)
      BY <1>1, <2>2 DEF RunStepIsGood
    <2>5. LockStep(r, l)
      BY <1>1, <1>3, <2>2, <2>3, LockStays DEF Comers
    <2>6. report # "PASS"
      BY <1>1, <1>2 DEF Recorded
    <2>7. /\ receipts' = [receipts EXCEPT ![k] = "UNKNOWN"]
          /\ receipts' \in [StepNumbers -> {"none", "RUNNING", "PASS", "HOLD", "UNKNOWN"}]
      BY <1>6, <2>1 DEF ConvergenceInv, ConvergenceRows
    <2>8. PassIsTrue'
      BY <1>1, <2>1, <2>6, <2>7, ReceiptKeepsTruth DEF Processes
    <2>9. \A q \in Convergences \ {r} : Recorded(q)'
      BY <1>1, <2>3, OthersRecord DEF RunBecomes, ConvergenceInv, ConvergenceRows
    <2>10. Recorded(r)'
      BY <1>1, <2>2, <2>3, <2>6 DEF Recorded
    <2> QED
      BY <1>1, <1>3, <1>4, <2>3, <2>4, <2>5, <2>7, <2>8, <2>9, <2>10, RunBecomesKeeps
  <1> QED
    BY <1>5, <1>6 DEF ClaimStep

LEMMA PrepareKeeps ==
    ASSUME ConvergenceInv, ~robbed, NEW r \in Convergences, PrepareStep(r)
    PROVE  ConvergenceInv'
  <1>1. /\ convergence[r].at = "prepare" /\ Works(r) /\ Goes(r, "launch")
        /\ applyLock' = OwnLock(r) /\ UNCHANGED <<Evidence, Processes, robbed, mishaps>>
    BY DEF PrepareStep, IsAt, Works, Workers
  <1>2. PICK c, l : /\ c \in ConvergenceRow /\ c.at = "launch" /\ c.verdict = "none"
                    /\ c.step = convergence[r].step
                    /\ RunBecomes(r, c) /\ convergence'[r] = c /\ l = OwnLock(r) /\ l \in LockRow
    BY <1>1, Going, NothingStarted, LockRows DEF Workers
  <1>3. InTurn(r) /\ Done(r)
    BY ConvergenceParts
  <1>4. RunStepIsGood(r, c)
    BY <1>1, <1>2, <1>3, NothingStarted DEF RunStepIsGood, Done, InTurn
  <1>5. LockStep(r, l)
    <2>1. ~Drives(r)' /\ ~GroupLives(r)' /\ runner'[r].at # "confirm"
      BY <1>1, NothingStarted DEF Processes, Drives, GroupLives, RunnerLives
    <2> QED
      BY <1>1, <1>2, <2>1, WorksAlone DEF LockStep, Comers
  <1>6. robbed' \in BOOLEAN
    BY <1>1 DEF ConvergenceInv, ConvergenceRows
  <1> QED
    BY <1>1, <1>2, <1>4, <1>5, <1>6, QuietRunKeeps DEF Stepping

LEMMA LaunchKeeps ==
    ASSUME ConvergenceInv, ~robbed, NEW r \in Convergences, LaunchRunner(r)
    PROVE  ConvergenceInv'
  <1>1. /\ convergence[r].at = "launch" /\ Works(r) /\ Goes(r, "wait")
        /\ report' = report /\ receipts' = receipts
        /\ UNCHANGED <<applyLock, succeeded, robbed, mishaps>>
    BY DEF LaunchRunner, IsAt, Works, Workers, Evidence
  <1>2. InTurn(r) /\ Done(r) /\ Recorded(r)
    BY ConvergenceParts DEF ConvergenceInv
  <1>3. PICK k, l : k = convergence[r].step /\ k \in StepNumbers /\ l = applyLock
    BY <1>1, <1>2 DEF InTurn
  <1> DEFINE c == [convergence[r] EXCEPT !.at = "wait"]
             x == [NoRunner EXCEPT !.at = "start"]
             z == [NoCommand EXCEPT !.step = k]
  <1>4. /\ c \in ConvergenceRow /\ c.at = "wait" /\ c.step = k
        /\ c.verdict = convergence[r].verdict
    BY <1>3, ConvergenceParts DEF ConvergenceRow, Workers
  <1>5. x \in RunnerRow /\ x.at = "start"
    BY LockRows DEF NoRunner, RunnerRow, Beginning
  <1>6. z \in CommandRow /\ z.step = k /\ z.group = "none" /\ z.ended = "none"
    BY <1>3, ConvergenceAssumption DEF NoCommand, CommandRow, StepNumbers
  <1>7. /\ convergence' = [convergence EXCEPT ![r] = c]
        /\ runner' = [runner EXCEPT ![r] = x]
        /\ runnerResult' = [runnerResult EXCEPT ![r] = "none"]
        /\ business' = [business EXCEPT ![r] = z]
    BY <1>1, <1>3 DEF LaunchRunner, Goes
  <1> HIDE DEF c, x, z
  <1>8. /\ convergence'[r] = c /\ runner'[r] = x /\ runnerResult'[r] = "none" /\ business'[r] = z
        /\ OnlySteps(r)
    BY <1>7 DEF OnlySteps, ConvergenceInv, ConvergenceRows
  <1>9. ConvergenceRows'
    BY <1>1, <1>4, <1>5, <1>6, <1>7 DEF ConvergenceInv, ConvergenceRows
  <1>10. InTurn(r)'
    BY <1>3, <1>4, <1>5, <1>6, <1>8 DEF InTurn, RunnerLives, GroupLives
  <1>11. Done(r)'
    BY <1>1, <1>2, <1>3, <1>4, <1>6, <1>8 DEF Done
  <1>12. PassIsTrue'
    BY <1>1 DEF ConvergenceInv, PassIsTrue
  <1>13. Recorded(r)'
    BY <1>1, <1>2, <1>3, <1>4, <1>8 DEF Recorded
  <1>14. \A q \in Convergences : Recorded(q)'
    BY <1>1, <1>8, <1>13, OthersRecord DEF OnlySteps
  <1>15. LockStep(r, l)
    BY <1>1, <1>3, <1>4, <1>8, LockStays DEF Comers
  <1>16. ~Drives(r)' /\ ~GroupLives(r)'
    BY <1>5, <1>6, <1>8 DEF Drives, Driving, GroupLives
  <1> QED
    BY <1>1, <1>3, <1>5, <1>8, <1>9, <1>10, <1>11, <1>12, <1>14, <1>15, <1>16, RunStepKeeps

LEMMA RecordKeeps ==
    ASSUME ConvergenceInv, ~robbed, NEW r \in Convergences, RecordStep(r)
    PROVE  ConvergenceInv'
  <1>1. /\ convergence[r].at = "wait" /\ ~RunnerLives(r) /\ Works(r)
        /\ UNCHANGED <<applyLock, report, Processes, robbed, mishaps>>
    BY DEF RecordStep, IsAt, Works, Workers
  <1>2. InTurn(r) /\ Done(r) /\ Recorded(r)
    BY ConvergenceParts DEF ConvergenceInv
  <1>3. PICK k, l : k = convergence[r].step /\ k \in StepNumbers /\ l = applyLock /\ l \in LockRow
    BY <1>1, <1>2, ConvergenceParts DEF InTurn
  <1>4. PICK v \in {"PASS", "HOLD", "UNKNOWN"} :
          /\ v = "PASS" => runnerResult[r] = "PASS"
          /\ receipts' = [receipts EXCEPT ![k] = v]
          /\ convergence' =
                IF v = "PASS" /\ k < BusinessSteps
                THEN [convergence EXCEPT ![r].at = "attempt", ![r].step = k + 1]
                ELSE [convergence EXCEPT ![r].at = "close",
                                         ![r].verdict = IF v = "PASS" THEN v ELSE "HOLD"]
    BY <1>3 DEF RecordStep
  <1>5. v = "PASS" => k \in succeeded /\ ~GroupLives(r)
    BY <1>1, <1>2, <1>3, <1>4 DEF InTurn, Done
  <1>6. report # "PASS"
    BY <1>1, <1>2 DEF Recorded
  <1>7. /\ receipts' \in [StepNumbers -> {"none", "RUNNING", "PASS", "HOLD", "UNKNOWN"}]
        /\ \A j \in StepNumbers : receipts'[j] = IF j = k THEN v ELSE receipts[j]
    BY <1>3, <1>4 DEF ConvergenceInv, ConvergenceRows
  <1>8. PassIsTrue'
    BY <1>1, <1>3, <1>4, <1>5, <1>6, ReceiptKeepsTruth DEF Processes
  <1>9. /\ l \in LockRow /\ applyLock' = l /\ robbed' \in BOOLEAN
        /\ report' \in {"none", "RUNNING", "HOLD", "PASS"} /\ mishaps' \in 0..MaxMishaps
    BY <1>1, <1>3 DEF ConvergenceInv, ConvergenceRows
  <1>10. \A j \in StepNumbers : j < k => j \in succeeded /\ receipts[j] = "PASS"
    BY <1>1, <1>2, <1>3 DEF Done, Recorded
  <1>11. CASE v = "PASS" /\ k < BusinessSteps
    <2>1. PICK c : c = [convergence[r] EXCEPT !.at = "attempt", !.step = k + 1]
      OBVIOUS
    <2>2. k + 1 \in StepNumbers /\ k + 1 \in 0..BusinessSteps
          /\ \A j \in StepNumbers : j < k + 1 => j < k \/ j = k
      BY <1>3, <1>11, ConvergenceAssumption DEF StepNumbers
    <2>3. /\ c \in ConvergenceRow /\ c.at = "attempt" /\ c.step = k + 1 /\ c.verdict = "none"
      <3>1. convergence[r] \in ConvergenceRow /\ convergence[r].verdict = "none"
        BY <1>1, ConvergenceParts, NothingStarted
      <3> QED
        BY <2>1, <2>2, <3>1 DEF ConvergenceRow, Workers
    <2>4. convergence' = [convergence EXCEPT ![r] = c]
      BY <1>4, <1>11, <2>1 DEF ConvergenceInv, ConvergenceRows
    <2>5. /\ RunBecomes(r, c) /\ convergence'[r] = c
          /\ \A q \in Convergences \ {r} : convergence'[q] = convergence[q]
      BY <1>1, <1>9, <2>4 DEF RunBecomes, ConvergenceInv, ConvergenceRows
    <2>6. RunStepIsGood(r, c)
      BY <1>1, <1>5, <1>10, <1>11, <2>2, <2>3 DEF RunStepIsGood
    <2>7. LockStep(r, l)
      BY <1>1, <1>3, <2>3, <2>5, LockStays DEF Comers
    <2>8. Recorded(r)'
      BY <1>1, <1>6, <1>7, <1>10, <1>11, <2>2, <2>3, <2>5 DEF Recorded
    <2>9. \A q \in Convergences : Recorded(q)'
      BY <1>1, <2>5, <2>8, OthersRecord
    <2> QED
      BY <1>7, <1>8, <1>9, <2>5, <2>6, <2>7, <2>9, RunBecomesKeeps
  <1>12. CASE ~(v = "PASS" /\ k < BusinessSteps)
    <2>1. PICK c, w : /\ w = (IF v = "PASS" THEN v ELSE "HOLD")
                      /\ c = [convergence[r] EXCEPT !.at = "close", !.verdict = w]
      OBVIOUS
    <2>2. /\ c \in ConvergenceRow /\ c.at = "close" /\ c.verdict = w
      BY <2>1, ConvergenceParts DEF ConvergenceRow, Workers
    <2>3. convergence' = [convergence EXCEPT ![r] = c]
      BY <1>4, <1>12, <2>1 DEF ConvergenceInv, ConvergenceRows
    <2>4. /\ RunBecomes(r, c) /\ convergence'[r] = c
          /\ \A q \in Convergences \ {r} : convergence'[q] = convergence[q]
      BY <1>1, <1>9, <2>3 DEF RunBecomes, ConvergenceInv, ConvergenceRows
    <2>5. w = "PASS" => \A j \in StepNumbers : j \in succeeded /\ receipts'[j] = "PASS"
      <3>1. w = "PASS" => v = "PASS" /\ \A j \in StepNumbers : j < k \/ j = k
        BY <1>3, <1>12, <2>1, ConvergenceAssumption DEF StepNumbers
      <3> QED
        BY <1>5, <1>7, <1>10, <3>1
    <2>6. RunStepIsGood(r, c)
      BY <1>1, <2>2, <2>5 DEF RunStepIsGood
    <2>7. LockStep(r, l)
      BY <1>1, <1>3, <2>2, <2>4, LockStays DEF Comers
    <2>8. Recorded(r)'
      BY <1>1, <1>6, <2>2, <2>4, <2>5 DEF Recorded
    <2>9. \A q \in Convergences : Recorded(q)'
      BY <1>1, <2>4, <2>8, OthersRecord
    <2> QED
      BY <1>7, <1>8, <1>9, <2>4, <2>6, <2>7, <2>9, RunBecomesKeeps
  <1> QED
    BY <1>11, <1>12

LEMMA CloseKeeps ==
    ASSUME ConvergenceInv, ~robbed, NEW r \in Convergences, CloseReport(r)
    PROVE  ConvergenceInv'
  <1>1. /\ convergence[r].at = "close" /\ Works(r) /\ Goes(r, "release")
        /\ report' = convergence[r].verdict
        /\ UNCHANGED <<applyLock, receipts, Processes, robbed, mishaps>>
    BY DEF CloseReport, IsAt, Works, Workers
  <1>2. InTurn(r) /\ Done(r) /\ Recorded(r)
    BY ConvergenceParts DEF ConvergenceInv
  <1>3. PICK c, l : /\ c \in ConvergenceRow /\ c.at = "release"
                    /\ c.verdict = convergence[r].verdict
                    /\ RunBecomes(r, c) /\ convergence'[r] = c
                    /\ l = applyLock /\ l \in LockRow
    BY <1>1, Going, ConvergenceParts DEF Workers
  <1>4. RunStepIsGood(r, c)
    BY <1>1, <1>2, <1>3, NothingStarted DEF RunStepIsGood, Done
  <1>5. LockStep(r, l)
    BY <1>1, <1>3, LockStays DEF Comers
  <1>6. report' = "PASS" => succeeded = StepNumbers /\ \A k \in StepNumbers : receipts[k] = "PASS"
    BY <1>1, <1>2 DEF Done, Recorded, ConvergenceInv, ConvergenceRows
  <1>7. PassIsTrue'
    BY <1>1, <1>6 DEF ConvergenceInv, PassIsTrue, Processes
  <1>8. \A q \in Convergences \ {r} :
           convergence'[q] = convergence[q] /\ convergence'[q].at \notin Stepping \cup {"close"}
    BY <1>1, <1>3, OthersRecord DEF RunBecomes, ConvergenceInv, ConvergenceRows
  <1>9. \A q \in Convergences : Recorded(q)'
    BY <1>3, <1>8 DEF Recorded, Stepping
  <1>10. /\ applyLock' = l /\ robbed' \in BOOLEAN
         /\ receipts' \in [StepNumbers -> {"none", "RUNNING", "PASS", "HOLD", "UNKNOWN"}]
         /\ report' \in {"none", "RUNNING", "HOLD", "PASS"}
    BY <1>1, <1>3, ConvergenceParts DEF ConvergenceInv, ConvergenceRows, ConvergenceRow
  <1> QED
    BY <1>3, <1>4, <1>5, <1>7, <1>9, <1>10, RunBecomesKeeps

LEMMA CheckReleaseKeeps ==
    ASSUME ConvergenceInv, ~robbed, NEW r \in Convergences, CheckRelease(r)
    PROVE  ConvergenceInv'
  <1>1. /\ convergence[r].at = "release" /\ Works(r)
        /\ UNCHANGED <<applyLock, receipts, Processes, robbed, mishaps>>
    BY DEF CheckRelease, IsAt, Works, Workers
  <1>2. InTurn(r) /\ Done(r)
    BY ConvergenceParts
  <1>3. PICK l : l = applyLock /\ l \in LockRow
    BY ConvergenceParts
  <1>4. /\ robbed' \in BOOLEAN /\ mishaps' \in 0..MaxMishaps /\ applyLock' = l
        /\ receipts' \in [StepNumbers -> {"none", "RUNNING", "PASS", "HOLD", "UNKNOWN"}]
    BY <1>1, <1>3 DEF ConvergenceInv, ConvergenceRows
  <1>5. CASE MayRelease(r) /\ Goes(r, "unlink") /\ UNCHANGED report
    <2>1. PICK c : /\ c \in ConvergenceRow /\ c.at = "unlink"
                   /\ c.verdict = convergence[r].verdict
                   /\ RunBecomes(r, c) /\ convergence'[r] = c
      BY <1>1, <1>5, Going DEF Workers
    <2>2. ~GroupLives(r)
      BY <1>5
      DEF MayRelease, NoWorkStarted, TerminalPhases, ActivePhases, ConvergenceInv, LockTells
    <2>3. RunStepIsGood(r, c)
      BY <1>1, <1>2, <2>1, <2>2, NothingStarted DEF RunStepIsGood, Done
    <2>4. LockStep(r, l)
      BY <1>1, <1>3, <2>1, LockStays DEF Comers
    <2> QED
      BY <1>1, <1>3, <1>4, <1>5, <2>1, <2>3, <2>4, QuietRunKeeps DEF Evidence, Stepping
  <1>6. CASE Ends(r) /\ report' = "HOLD"
    <2>1. PICK c : c = [NotBegun EXCEPT !.at = "ended"]
      OBVIOUS
    <2>2. c \in ConvergenceRow /\ c.at = "ended" /\ c.verdict = "none"
      BY <2>1, EndedRow
    <2>3. RunBecomes(r, c) /\ convergence'[r] = c
      BY <1>1, <1>4, <1>6, <2>1 DEF RunBecomes, Ends, ConvergenceInv, ConvergenceRows
    <2>4. RunStepIsGood(r, c)
      BY <1>1, <2>2 DEF RunStepIsGood
    <2>5. LockStep(r, l)
      BY <1>1, <1>3, <2>2, <2>3, LockStays DEF Comers
    <2>6. PassIsTrue'
      BY <1>1, <1>6 DEF ConvergenceInv, PassIsTrue, Processes
    <2>7. Recorded(r)'
      BY <1>6, <2>2, <2>3 DEF Recorded
    <2>8. \A q \in Convergences : Recorded(q)'
      BY <1>1, <2>3, <2>7, OthersRecord DEF RunBecomes, ConvergenceInv, ConvergenceRows
    <2> QED
      BY <1>1, <1>3, <1>4, <1>6, <2>3, <2>4, <2>5, <2>6, <2>8, RunBecomesKeeps
  <1> QED
    BY <1>5, <1>6 DEF CheckRelease

LEMMA UnlinkKeeps ==
    ASSUME ConvergenceInv, ~robbed, NEW r \in Convergences, UnlinkLock(r)
    PROVE  ConvergenceInv'
  <1>1. /\ convergence[r].at = "unlink" /\ Works(r) /\ Ends(r) /\ applyLock' = NoLock
        /\ UNCHANGED <<Evidence, Processes, robbed, mishaps>>
    BY DEF UnlinkLock, IsAt, Works, Workers
  <1>2. PICK c, l : c = [NotBegun EXCEPT !.at = "ended"] /\ l = NoLock /\ l \in LockRow
    BY LockRows
  <1>3. c \in ConvergenceRow /\ c.at = "ended" /\ c.verdict = "none"
    BY <1>2, EndedRow
  <1>4. RunBecomes(r, c) /\ convergence'[r] = c /\ robbed' \in BOOLEAN
    BY <1>1, <1>2 DEF RunBecomes, Ends, ConvergenceInv, ConvergenceRows
  <1>5. RunStepIsGood(r, c)
    BY <1>1, <1>3 DEF RunStepIsGood
  <1>6. LockStep(r, l)
    <2>1. ~Engaged(r)'
      BY <1>1, <1>3, <1>4, NothingStarted
      DEF Engaged, Works, Workers, Drives, GroupLives, Processes
    <2> QED
      BY <1>1, <1>2, <2>1, WorksAlone DEF LockStep
  <1> QED
    BY <1>1, <1>2, <1>3, <1>4, <1>5, <1>6, QuietRunKeeps DEF Stepping

-----------------------------------------------------------------------------
(* TaskConvergence: what its specification guarantees *)

LEMMA ConvergenceStarts == ConvergenceInit => ConvergenceInv
  <1> SUFFICES ASSUME ConvergenceInit PROVE ConvergenceInv
    OBVIOUS
  <1>1. NotBegun \in ConvergenceRow /\ NoRunner \in RunnerRow /\ NoCommand \in CommandRow
    BY LockRows, ConvergenceAssumption
    DEF NotBegun, NoRunner, NoCommand, ConvergenceRow, RunnerRow, CommandRow, Comers
  <1>2. ConvergenceRows
    <2>1. applyLock \in LockRow /\ report = "none" /\ succeeded = {} /\ robbed = FALSE
      BY LockRows DEF ConvergenceInit
    <2>2. receipts \in [StepNumbers -> {"none", "RUNNING", "PASS", "HOLD", "UNKNOWN"}]
      BY DEF ConvergenceInit
    <2>3. convergence \in [Convergences -> ConvergenceRow]
      BY <1>1 DEF ConvergenceInit
    <2>4. runner \in [Convergences -> RunnerRow]
      BY <1>1 DEF ConvergenceInit
    <2>5. runnerResult \in [Convergences -> {"none", "PASS", "HOLD", "UNKNOWN"}]
      BY DEF ConvergenceInit
    <2>6. business \in [Convergences -> CommandRow]
      BY <1>1 DEF ConvergenceInit
    <2>7. mishaps \in 0..MaxMishaps
      BY ConvergenceAssumption DEF ConvergenceInit
    <2> QED
      BY <2>1, <2>2, <2>3, <2>4, <2>5, <2>6, <2>7 DEF ConvergenceRows
  <1>3. \A r \in Convergences : /\ convergence[r].at = "idle" /\ convergence[r].verdict = "none"
                                /\ runner[r].at = "none" /\ runnerResult[r] = "none"
                                /\ business[r].group = "none" /\ business[r].ended = "none"
    BY DEF ConvergenceInit, NotBegun, NoRunner, NoCommand
  <1>4. \A r \in Convergences : InTurn(r) /\ Done(r)
    BY <1>3 DEF InTurn, Done, RunnerLives, GroupLives
  <1>5. report = "none" /\ \A k \in StepNumbers : receipts[k] = "none"
    BY DEF ConvergenceInit
  <1>6. PassIsTrue
    BY <1>5 DEF PassIsTrue
  <1>7. LockTells
    BY LockRows DEF ConvergenceInit, LockTells
  <1>8. OneIsEngaged
    BY <1>3 DEF OneIsEngaged, Engaged, Works, Workers, Drives, Driving, GroupLives
  <1>9. \A r \in Convergences : Recorded(r)
    BY <1>3, <1>5 DEF Recorded
  <1> QED
    BY <1>2, <1>4, <1>6, <1>7, <1>8, <1>9 DEF ConvergenceInv

LEMMA ConvergenceNextKeeps ==
    ASSUME ConvergenceInv, ConvergenceNext
    PROVE  ConvergenceInv'
  <1>1. ~robbed
    BY DEF ConvergenceNext
  <1>2. PICK r \in Convergences :
          \/ RunNativeTaskConvergence(r) \/ RunJob(r)
          \/ CommandEnds(r) \/ LingererEnds(r) \/ KillRun(r) \/ KillRunner(r)
    BY DEF ConvergenceNext
  <1>3. CASE RunNativeTaskConvergence(r)
    BY <1>1, <1>3, BeginConvergenceKeeps, AcquireKeeps, ReclaimKeeps, CreateKeeps, OpenKeeps,
       AttemptKeeps, ClaimKeeps, PrepareKeeps, LaunchKeeps, RecordKeeps, CloseKeeps,
       CheckReleaseKeeps, UnlinkKeeps
    DEF RunNativeTaskConvergence
  <1>4. CASE RunJob(r)
    BY <1>1, <1>4, MissesKeeps, IntroduceKeeps, ConfirmKeeps, SpawnKeeps, FailKeeps, NoteKeeps,
       TerminateKeeps, SettleKeeps, AnswerKeeps
    DEF RunJob
  <1>5. CASE CommandEnds(r) \/ LingererEnds(r) \/ KillRun(r) \/ KillRunner(r)
    BY <1>1, <1>5, CommandEndsKeeps, KillRunKeeps, KillRunnerKeeps
  <1> QED
    BY <1>2, <1>3, <1>4, <1>5

LEMMA ConvergenceStutters ==
    ASSUME ConvergenceInv, UNCHANGED convergenceVars
    PROVE  ConvergenceInv'
  BY DEF convergenceVars, ConvergenceInv, ConvergenceRows, InTurn, Done, PassIsTrue, LockTells,
     OneIsEngaged, Recorded, Engaged, Works, Drives, GroupLives, RunnerLives, Over

LEMMA ConvergenceTold ==
    ASSUME ConvergenceInv
    PROVE  ConvergenceTypeOK /\ OneCommandAtATime /\ PassIsTrue /\ LockIsKept
  <1>1. \A r \in Convergences : InTurn(r)
    BY DEF ConvergenceInv
  <1>2. ConvergenceTypeOK
    BY <1>1 DEF ConvergenceInv, ConvergenceRows, ConvergenceTypeOK, LockRow, ConvergenceRow,
       CommandRow, InTurn
  <1>3. OneCommandAtATime
    <2> SUFFICES ASSUME ~robbed
                 PROVE  /\ Cardinality({r \in Convergences : GroupLives(r)}) <= 1
                        /\ applyLock = NoLock => {r \in Convergences : GroupLives(r)} = {}
      BY DEF OneCommandAtATime
    <2> DEFINE working == {r \in Convergences : GroupLives(r)}
    <2>1. \A q, r \in working : q = r
      BY DEF ConvergenceInv, OneIsEngaged, Engaged
    <2>2. Cardinality(working) <= 1
      <3>1. CASE working = {}
        BY <3>1, FS_EmptySet
      <3>2. CASE working # {}
        <4>1. PICK q : q \in working
          BY <3>2
        <4>2. working = {q}
          BY <2>1, <4>1
        <4> QED
          BY <4>2, FS_Singleton
      <3> QED
        BY <3>1, <3>2
    <2>3. applyLock = NoLock => working = {}
      BY NobodyEngaged DEF Engaged
    <2> QED
      BY <2>2, <2>3
  <1>4. LockIsKept
    <2> SUFFICES ASSUME ~robbed, NEW r \in Convergences, RunLives(r),
                        convergence[r].at \notin {"acquire", "reclaim", "create"}
                 PROVE  \/ applyLock.owner = r
                        \/ applyLock.phase = "RUNNER_READY" /\ ~RunLives(applyLock.owner)
      BY DEF LockIsKept
    <2>1. Works(r)
      BY ConvergenceParts DEF ConvergenceRow, Comers, Works, RunLives
    <2> QED
      BY <2>1 DEF ConvergenceInv, OneIsEngaged, Engaged, Over, RunLives
  <1> QED
    BY <1>2, <1>3, <1>4 DEF ConvergenceInv

-----------------------------------------------------------------------------
(* Initialisation: the inductive invariant *)

OpeningSteps == {"install", "auth", "verify", "state", "reset"}
LastSteps == {"health", "delete", "start", "bypass", "accept", "end"}
InitSteps == {"dirs", "skills", "runtime", "threshold", "deploy", "env", "health", "delete",
              "start", "bypass", "accept", "end"}
SwitchSteps == {"install", "settings", "env", "gate", "runtime", "health", "monitor",
                "dispatcher", "end"}
Losable == {"services", "runtime", "secrets", "instructions", "skills"}
ConfigRow == [runtime : AgentRuntimes \cup {"none"}, threshold : {0, 30, 70}]
SetupRow == [at : {"idle"} \cup OpeningSteps \cup InitSteps \cup SwitchSteps,
             kind : {"init", "switch"}, silent : BOOLEAN,
             existing : AgentRuntimes \cup {"none"}, selected : AgentRuntimes,
             complete : BOOLEAN, key : Keys, pending : BOOLEAN, authenticated : BOOLEAN]

SetupRows ==
    /\ present \in SUBSET Complete
    /\ config \in ConfigRow
    /\ synced \in BOOLEAN /\ ecosystem \in BOOLEAN /\ ready \in BOOLEAN
    /\ instructions \in {"none", "files", "active"}
    /\ secrets \in [settings : Keys, env : Keys]
    /\ status \in AgentRuntimes \cup {"none"}
    /\ running \in [CoreServices -> AgentRuntimes \cup {"stopped"}]
    /\ setup \in SetupRow
    /\ chosen \in AgentRuntimes \cup {"none"}
    /\ lost \in SUBSET Losable
    /\ setupsRun \in 0..MaxSetups /\ setupTroubles \in 0..MaxSetupTroubles

\* What a command has behind it at the place where it is.
Inits(w) == w.kind = "init"
PastDirs(w) == Inits(w) /\ w.at \in InitSteps \ {"dirs"}
LateSkills(w) == w.at = "skills" /\ ~w.complete
PastEnv(w) == Inits(w) /\ (w.at \in LastSteps \/ LateSkills(w))
PastDeploy(w) == PastEnv(w) \/ (Inits(w) /\ w.at = "env")
PastRuntime(w) == \/ PastDeploy(w)
                  \/ w.at \in {"threshold", "deploy", "health", "monitor", "dispatcher", "end"}
PastSkills(w) == /\ Inits(w)
                 /\ \/ w.at \in LastSteps
                    \/ w.complete /\ w.at \in InitSteps \ {"dirs", "skills"}

\* A switch takes the steps of a switch; an init that has found everything skips the directories.
PlacedSetup(w) ==
    /\ w.at = "idle" => w = Unstarted
    /\ w.kind = "switch" => w.at \in SwitchSteps /\ ~w.pending /\ ~w.complete
    /\ Inits(w) => w.at \in {"idle"} \cup OpeningSteps \cup InitSteps
    /\ w.complete => w.at \in InitSteps \ {"dirs"}
    /\ w.at \in {"install", "auth", "verify"} => ~w.pending

\* What is on disk wherever a command is, and what its steps so far have put there.
PartsThere ==
    /\ config # NoConfig \/ "components" \in present => "config" \in present
    /\ (\E x \in CoreServices : running[x] # "stopped") \/ PastDeploy(setup) => ecosystem
    /\ PastDirs(setup) => present = Complete
    /\ setup.complete => present = Complete
    /\ PastSkills(setup) => synced \/ "skills" \in lost
    /\ present = Complete =>
          \/ instructions # "none" \/ "instructions" \in lost
          \/ /\ Inits(setup) /\ ~setup.complete
             /\ setup.at \in {"dirs", "runtime", "threshold", "deploy"}
    /\ ready => present = Complete /\ ecosystem /\ (synced \/ "skills" \in lost)

\* A service may run the runtime of before from the change of config.json to its restart.
MayLag(w, x) ==
    \/ Inits(w) /\ PastRuntime(w) /\ w.at \notin {"start", "bypass", "accept", "end"}
    \/ w.kind = "switch" /\ w.at \in {"health", "monitor"}
    \/ w.at = "dispatcher" /\ x = "dispatcher"
ServicesRead ==
    \/ "services" \in lost
    \/ \A x \in CoreServices :
          running[x] \in {"stopped", RuntimeOf(config)} \/ MayLag(setup, x)

\* A credential that is in the settings and not yet in .env is the one the command was given.
OnItsWay(w) ==
    \/ w.at = "verify"
    \/ w.pending /\ ~PastEnv(w)
    \/ w.kind = "switch" /\ w.at = "env" /\ w.key # "none" /\ w.selected = "claude"
SecretsSaved ==
    /\ \/ "secrets" \in lost \/ OnItsWay(setup)
       \/ secrets.settings = "good" => secrets.env = "good"
    /\ OnItsWay(setup) => setup.selected = "claude" /\ secrets.settings = setup.key
    /\ setup.pending => setup.key = "good"

\* An init changes the runtime by what it read when it started.
RuntimeChosen ==
    /\ PastRuntime(setup) => config.runtime = setup.selected \/ "runtime" \in lost
    /\ ~PastRuntime(setup) /\ setup.at # "idle" =>
           \/ "runtime" \in lost
           \/ setup.existing = config.runtime \/ setup.existing # setup.selected
    /\ ready /\ ~PastRuntime(setup) => RuntimeOf(config) = chosen \/ "runtime" \in lost

SetupInv ==
    /\ SetupRows /\ PlacedSetup(setup) /\ PartsThere
    /\ ServicesRead /\ SecretsSaved /\ RuntimeChosen

-----------------------------------------------------------------------------
(* Initialisation: the order of its steps, and each action keeps the invariant *)

LEMMA SwitchOrder ==
    ASSUME NEW w, w.kind = "switch"
    PROVE  /\ w.at = "settings" => Position(w) = 1 /\ After(w) = "env"
           /\ w.at = "env" => Position(w) = 2 /\ After(w) = "gate"
           /\ w.at = "gate" => Position(w) = 3 /\ After(w) = "runtime"
           /\ w.at = "runtime" => Position(w) = 4 /\ After(w) = "health"
           /\ w.at = "health" => Position(w) = 5 /\ After(w) = "monitor"
           /\ w.at = "monitor" => Position(w) = 6 /\ After(w) = "dispatcher"
           /\ w.at = "dispatcher" => Position(w) = 7 /\ After(w) = "end"
  <1> DEFINE steps == <<"settings", "env", "gate", "runtime", "health", "monitor", "dispatcher">>
  <1>1. StepsOf(w) = steps
    BY DEF StepsOf
  <1>2. Len(steps) = 7 /\ DOMAIN steps = 1..7
    OBVIOUS
  <1>3. ASSUME w.at = "settings"
        PROVE  Position(w) = 1 /\ After(w) = "env"
    <2>1. (CHOOSE n \in DOMAIN steps : steps[n] = w.at) = 1
      BY <1>2, <1>3
    <2> QED
      BY <1>1, <1>2, <1>3, <2>1 DEF Position, After
  <1>4. ASSUME w.at = "env"
        PROVE  Position(w) = 2 /\ After(w) = "gate"
    <2>1. (CHOOSE n \in DOMAIN steps : steps[n] = w.at) = 2
      BY <1>2, <1>4
    <2> QED
      BY <1>1, <1>2, <1>4, <2>1 DEF Position, After
  <1>5. ASSUME w.at = "gate"
        PROVE  Position(w) = 3 /\ After(w) = "runtime"
    <2>1. (CHOOSE n \in DOMAIN steps : steps[n] = w.at) = 3
      BY <1>2, <1>5
    <2> QED
      BY <1>1, <1>2, <1>5, <2>1 DEF Position, After
  <1>6. ASSUME w.at = "runtime"
        PROVE  Position(w) = 4 /\ After(w) = "health"
    <2>1. (CHOOSE n \in DOMAIN steps : steps[n] = w.at) = 4
      BY <1>2, <1>6
    <2> QED
      BY <1>1, <1>2, <1>6, <2>1 DEF Position, After
  <1>7. ASSUME w.at = "health"
        PROVE  Position(w) = 5 /\ After(w) = "monitor"
    <2>1. (CHOOSE n \in DOMAIN steps : steps[n] = w.at) = 5
      BY <1>2, <1>7
    <2> QED
      BY <1>1, <1>2, <1>7, <2>1 DEF Position, After
  <1>8. ASSUME w.at = "monitor"
        PROVE  Position(w) = 6 /\ After(w) = "dispatcher"
    <2>1. (CHOOSE n \in DOMAIN steps : steps[n] = w.at) = 6
      BY <1>2, <1>8
    <2> QED
      BY <1>1, <1>2, <1>8, <2>1 DEF Position, After
  <1>9. ASSUME w.at = "dispatcher"
        PROVE  Position(w) = 7 /\ After(w) = "end"
    <2>1. (CHOOSE n \in DOMAIN steps : steps[n] = w.at) = 7
      BY <1>2, <1>9
    <2> QED
      BY <1>1, <1>2, <1>9, <2>1 DEF Position, After
  <1> QED
    BY <1>3, <1>4, <1>5, <1>6, <1>7, <1>8, <1>9

LEMMA CompleteOrder ==
    ASSUME NEW w, w.kind = "init", w.complete
    PROVE  /\ w.at = "skills" => Position(w) = 1 /\ After(w) = "runtime"
           /\ w.at = "runtime" => Position(w) = 2 /\ After(w) = "threshold"
           /\ w.at = "threshold" => Position(w) = 3 /\ After(w) = "deploy"
           /\ w.at = "deploy" => Position(w) = 4 /\ After(w) = "env"
           /\ w.at = "env" => Position(w) = 5 /\ After(w) = "health"
           /\ w.at = "health" => Position(w) = 6 /\ After(w) = "delete"
           /\ w.at = "delete" => Position(w) = 7 /\ After(w) = "start"
           /\ w.at = "start" => Position(w) = 8 /\ After(w) = "bypass"
           /\ w.at = "bypass" => Position(w) = 9 /\ After(w) = "end"
  <1> DEFINE steps == <<"skills", "runtime", "threshold", "deploy", "env", "health", "delete",
     "start", "bypass">>
  <1>1. StepsOf(w) = steps
    BY DEF StepsOf
  <1>2. Len(steps) = 9 /\ DOMAIN steps = 1..9
    OBVIOUS
  <1>3. ASSUME w.at = "skills"
        PROVE  Position(w) = 1 /\ After(w) = "runtime"
    <2>1. (CHOOSE n \in DOMAIN steps : steps[n] = w.at) = 1
      BY <1>2, <1>3
    <2> QED
      BY <1>1, <1>2, <1>3, <2>1 DEF Position, After
  <1>4. ASSUME w.at = "runtime"
        PROVE  Position(w) = 2 /\ After(w) = "threshold"
    <2>1. (CHOOSE n \in DOMAIN steps : steps[n] = w.at) = 2
      BY <1>2, <1>4
    <2> QED
      BY <1>1, <1>2, <1>4, <2>1 DEF Position, After
  <1>5. ASSUME w.at = "threshold"
        PROVE  Position(w) = 3 /\ After(w) = "deploy"
    <2>1. (CHOOSE n \in DOMAIN steps : steps[n] = w.at) = 3
      BY <1>2, <1>5
    <2> QED
      BY <1>1, <1>2, <1>5, <2>1 DEF Position, After
  <1>6. ASSUME w.at = "deploy"
        PROVE  Position(w) = 4 /\ After(w) = "env"
    <2>1. (CHOOSE n \in DOMAIN steps : steps[n] = w.at) = 4
      BY <1>2, <1>6
    <2> QED
      BY <1>1, <1>2, <1>6, <2>1 DEF Position, After
  <1>7. ASSUME w.at = "env"
        PROVE  Position(w) = 5 /\ After(w) = "health"
    <2>1. (CHOOSE n \in DOMAIN steps : steps[n] = w.at) = 5
      BY <1>2, <1>7
    <2> QED
      BY <1>1, <1>2, <1>7, <2>1 DEF Position, After
  <1>8. ASSUME w.at = "health"
        PROVE  Position(w) = 6 /\ After(w) = "delete"
    <2>1. (CHOOSE n \in DOMAIN steps : steps[n] = w.at) = 6
      BY <1>2, <1>8
    <2> QED
      BY <1>1, <1>2, <1>8, <2>1 DEF Position, After
  <1>9. ASSUME w.at = "delete"
        PROVE  Position(w) = 7 /\ After(w) = "start"
    <2>1. (CHOOSE n \in DOMAIN steps : steps[n] = w.at) = 7
      BY <1>2, <1>9
    <2> QED
      BY <1>1, <1>2, <1>9, <2>1 DEF Position, After
  <1>10. ASSUME w.at = "start"
        PROVE  Position(w) = 8 /\ After(w) = "bypass"
    <2>1. (CHOOSE n \in DOMAIN steps : steps[n] = w.at) = 8
      BY <1>2, <1>10
    <2> QED
      BY <1>1, <1>2, <1>10, <2>1 DEF Position, After
  <1>11. ASSUME w.at = "bypass"
        PROVE  Position(w) = 9 /\ After(w) = "end"
    <2>1. (CHOOSE n \in DOMAIN steps : steps[n] = w.at) = 9
      BY <1>2, <1>11
    <2> QED
      BY <1>1, <1>2, <1>11, <2>1 DEF Position, After
  <1> QED
    BY <1>3, <1>4, <1>5, <1>6, <1>7, <1>8, <1>9, <1>10, <1>11

LEMMA FreshOrder ==
    ASSUME NEW w, w.kind = "init", ~w.complete
    PROVE  /\ w.at = "dirs" => Position(w) = 1 /\ After(w) = "runtime"
           /\ w.at = "runtime" => Position(w) = 2 /\ After(w) = "threshold"
           /\ w.at = "threshold" => Position(w) = 3 /\ After(w) = "deploy"
           /\ w.at = "deploy" => Position(w) = 4 /\ After(w) = "env"
           /\ w.at = "env" => Position(w) = 5 /\ After(w) = "skills"
           /\ w.at = "skills" => Position(w) = 6 /\ After(w) = "health"
           /\ w.at = "health" => Position(w) = 7 /\ After(w) = "delete"
           /\ w.at = "delete" => Position(w) = 8 /\ After(w) = "start"
           /\ w.at = "start" => Position(w) = 9 /\ After(w) = "bypass"
           /\ w.at = "bypass" => Position(w) = 10 /\ After(w) = "end"
  <1> DEFINE steps == <<"dirs", "runtime", "threshold", "deploy", "env", "skills", "health",
     "delete", "start", "bypass">>
  <1>1. StepsOf(w) = steps
    BY DEF StepsOf
  <1>2. Len(steps) = 10 /\ DOMAIN steps = 1..10
    OBVIOUS
  <1>3. ASSUME w.at = "dirs"
        PROVE  Position(w) = 1 /\ After(w) = "runtime"
    <2>1. (CHOOSE n \in DOMAIN steps : steps[n] = w.at) = 1
      BY <1>2, <1>3
    <2> QED
      BY <1>1, <1>2, <1>3, <2>1 DEF Position, After
  <1>4. ASSUME w.at = "runtime"
        PROVE  Position(w) = 2 /\ After(w) = "threshold"
    <2>1. (CHOOSE n \in DOMAIN steps : steps[n] = w.at) = 2
      BY <1>2, <1>4
    <2> QED
      BY <1>1, <1>2, <1>4, <2>1 DEF Position, After
  <1>5. ASSUME w.at = "threshold"
        PROVE  Position(w) = 3 /\ After(w) = "deploy"
    <2>1. (CHOOSE n \in DOMAIN steps : steps[n] = w.at) = 3
      BY <1>2, <1>5
    <2> QED
      BY <1>1, <1>2, <1>5, <2>1 DEF Position, After
  <1>6. ASSUME w.at = "deploy"
        PROVE  Position(w) = 4 /\ After(w) = "env"
    <2>1. (CHOOSE n \in DOMAIN steps : steps[n] = w.at) = 4
      BY <1>2, <1>6
    <2> QED
      BY <1>1, <1>2, <1>6, <2>1 DEF Position, After
  <1>7. ASSUME w.at = "env"
        PROVE  Position(w) = 5 /\ After(w) = "skills"
    <2>1. (CHOOSE n \in DOMAIN steps : steps[n] = w.at) = 5
      BY <1>2, <1>7
    <2> QED
      BY <1>1, <1>2, <1>7, <2>1 DEF Position, After
  <1>8. ASSUME w.at = "skills"
        PROVE  Position(w) = 6 /\ After(w) = "health"
    <2>1. (CHOOSE n \in DOMAIN steps : steps[n] = w.at) = 6
      BY <1>2, <1>8
    <2> QED
      BY <1>1, <1>2, <1>8, <2>1 DEF Position, After
  <1>9. ASSUME w.at = "health"
        PROVE  Position(w) = 7 /\ After(w) = "delete"
    <2>1. (CHOOSE n \in DOMAIN steps : steps[n] = w.at) = 7
      BY <1>2, <1>9
    <2> QED
      BY <1>1, <1>2, <1>9, <2>1 DEF Position, After
  <1>10. ASSUME w.at = "delete"
        PROVE  Position(w) = 8 /\ After(w) = "start"
    <2>1. (CHOOSE n \in DOMAIN steps : steps[n] = w.at) = 8
      BY <1>2, <1>10
    <2> QED
      BY <1>1, <1>2, <1>10, <2>1 DEF Position, After
  <1>11. ASSUME w.at = "start"
        PROVE  Position(w) = 9 /\ After(w) = "bypass"
    <2>1. (CHOOSE n \in DOMAIN steps : steps[n] = w.at) = 9
      BY <1>2, <1>11
    <2> QED
      BY <1>1, <1>2, <1>11, <2>1 DEF Position, After
  <1>12. ASSUME w.at = "bypass"
        PROVE  Position(w) = 10 /\ After(w) = "end"
    <2>1. (CHOOSE n \in DOMAIN steps : steps[n] = w.at) = 10
      BY <1>2, <1>12
    <2> QED
      BY <1>1, <1>2, <1>12, <2>1 DEF Position, After
  <1> QED
    BY <1>3, <1>4, <1>5, <1>6, <1>7, <1>8, <1>9, <1>10, <1>11, <1>12

LEMMA SwitchPast ==
    ASSUME NEW w \in SetupRow, w.kind = "switch", PlacedSetup(w), w.at # "idle"
    PROVE  /\ IsPast(w, "runtime") <=> Position(w) > 4
           /\ IsPast(w, "env") <=> Position(w) > 2
           /\ w.at \in OpeningSteps => Position(w) = 0
           /\ w.at \in {"accept", "end"} => Position(w) = 8
  <1> DEFINE steps == <<"settings", "env", "gate", "runtime", "health", "monitor", "dispatcher">>
  <1>1. StepsOf(w) = steps
    BY DEF StepsOf
  <1>2. Len(steps) = 7
    OBVIOUS
  <1>3. /\ w.at \in OpeningSteps => Position(w) = 0
        /\ w.at \in {"accept", "end"} => Position(w) = 8
    BY <1>1, <1>2 DEF Position, OpeningSteps
  <1>4. Position(w) \in 0..8
    BY <1>3, SwitchOrder DEF PlacedSetup, Inits, OpeningSteps, InitSteps, SwitchSteps
  <1>5. IsPast(w, "runtime") <=> Position(w) > 4
    <2>1. \A n \in 1..7 : steps[n] = "runtime" <=> n = 4
      OBVIOUS
    <2> HIDE DEF steps
    <2> QED
      BY <1>1, <1>4, <2>1 DEF IsPast
  <1>6. IsPast(w, "env") <=> Position(w) > 2
    <2>1. \A n \in 1..7 : steps[n] = "env" <=> n = 2
      OBVIOUS
    <2> HIDE DEF steps
    <2> QED
      BY <1>1, <1>4, <2>1 DEF IsPast
  <1> QED
    BY <1>3, <1>4, <1>5, <1>6

LEMMA CompletePast ==
    ASSUME NEW w \in SetupRow, w.kind = "init", w.complete, PlacedSetup(w), w.at # "idle"
    PROVE  /\ IsPast(w, "runtime") <=> Position(w) > 2
           /\ IsPast(w, "env") <=> Position(w) > 5
           /\ IsPast(w, "deploy") <=> Position(w) > 4
           /\ w.at \in OpeningSteps => Position(w) = 0
           /\ w.at \in {"accept", "end"} => Position(w) = 10
  <1> DEFINE steps == <<"skills", "runtime", "threshold", "deploy", "env", "health", "delete",
     "start", "bypass">>
  <1>1. StepsOf(w) = steps
    BY DEF StepsOf
  <1>2. Len(steps) = 9
    OBVIOUS
  <1>3. /\ w.at \in OpeningSteps => Position(w) = 0
        /\ w.at \in {"accept", "end"} => Position(w) = 10
    BY <1>1, <1>2 DEF Position, OpeningSteps
  <1>4. Position(w) \in 0..10
    BY <1>3, CompleteOrder DEF PlacedSetup, Inits, OpeningSteps, InitSteps, SwitchSteps
  <1>5. IsPast(w, "runtime") <=> Position(w) > 2
    <2>1. \A n \in 1..9 : steps[n] = "runtime" <=> n = 2
      OBVIOUS
    <2> HIDE DEF steps
    <2> QED
      BY <1>1, <1>4, <2>1 DEF IsPast
  <1>6. IsPast(w, "env") <=> Position(w) > 5
    <2>1. \A n \in 1..9 : steps[n] = "env" <=> n = 5
      OBVIOUS
    <2> HIDE DEF steps
    <2> QED
      BY <1>1, <1>4, <2>1 DEF IsPast
  <1>7. IsPast(w, "deploy") <=> Position(w) > 4
    <2>1. \A n \in 1..9 : steps[n] = "deploy" <=> n = 4
      OBVIOUS
    <2> HIDE DEF steps
    <2> QED
      BY <1>1, <1>4, <2>1 DEF IsPast
  <1> QED
    BY <1>3, <1>4, <1>5, <1>6, <1>7

LEMMA FreshPast ==
    ASSUME NEW w \in SetupRow, w.kind = "init", ~w.complete, PlacedSetup(w), w.at # "idle"
    PROVE  /\ IsPast(w, "runtime") <=> Position(w) > 2
           /\ IsPast(w, "env") <=> Position(w) > 5
           /\ IsPast(w, "deploy") <=> Position(w) > 4
           /\ w.at \in OpeningSteps => Position(w) = 0
           /\ w.at \in {"accept", "end"} => Position(w) = 11
  <1> DEFINE steps == <<"dirs", "runtime", "threshold", "deploy", "env", "skills", "health",
     "delete", "start", "bypass">>
  <1>1. StepsOf(w) = steps
    BY DEF StepsOf
  <1>2. Len(steps) = 10
    OBVIOUS
  <1>3. /\ w.at \in OpeningSteps => Position(w) = 0
        /\ w.at \in {"accept", "end"} => Position(w) = 11
    BY <1>1, <1>2 DEF Position, OpeningSteps
  <1>4. Position(w) \in 0..11
    BY <1>3, FreshOrder DEF PlacedSetup, Inits, OpeningSteps, InitSteps, SwitchSteps
  <1>5. IsPast(w, "runtime") <=> Position(w) > 2
    <2>1. \A n \in 1..10 : steps[n] = "runtime" <=> n = 2
      OBVIOUS
    <2> HIDE DEF steps
    <2> QED
      BY <1>1, <1>4, <2>1 DEF IsPast
  <1>6. IsPast(w, "env") <=> Position(w) > 5
    <2>1. \A n \in 1..10 : steps[n] = "env" <=> n = 5
      OBVIOUS
    <2> HIDE DEF steps
    <2> QED
      BY <1>1, <1>4, <2>1 DEF IsPast
  <1>7. IsPast(w, "deploy") <=> Position(w) > 4
    <2>1. \A n \in 1..10 : steps[n] = "deploy" <=> n = 4
      OBVIOUS
    <2> HIDE DEF steps
    <2> QED
      BY <1>1, <1>4, <2>1 DEF IsPast
  <1> QED
    BY <1>3, <1>4, <1>5, <1>6, <1>7

\* What a command that ends leaves undone, by the place where it is.
LEMMA UndoneIs ==
    ASSUME NEW w \in SetupRow, PlacedSetup(w), w.at # "idle"
    PROVE  Undone(w) =
               (IF PastRuntime(w) THEN {"services", "runtime"} ELSE {}) \cup
               (IF OnItsWay(w) \/ (w.kind = "switch" /\ w.at = "env") THEN {"secrets"} ELSE {})
                  \cup
               (IF Inits(w) /\ ~w.complete /\ ~PastDeploy(w) THEN {"instructions"} ELSE {})
  <1>1. IsPast(w, "runtime") <=> PastRuntime(w)
    BY SwitchPast, CompletePast, FreshPast, SwitchOrder, CompleteOrder, FreshOrder
    DEF PastRuntime, PastDeploy, PastEnv, PlacedSetup, Inits, OpeningSteps, InitSteps,
        SwitchSteps, LastSteps, LateSkills, SetupRow
  <1>2. w.pending => (IsPast(w, "env") <=> PastEnv(w))
    BY SwitchPast, CompletePast, FreshPast, SwitchOrder, CompleteOrder, FreshOrder
    DEF PastEnv, PlacedSetup, Inits, OpeningSteps, InitSteps, SwitchSteps, LastSteps, LateSkills,
        SetupRow
  <1>3. Inits(w) => (IsPast(w, "deploy") <=> PastDeploy(w))
    BY CompletePast, FreshPast, CompleteOrder, FreshOrder
    DEF PastDeploy, PastEnv, PlacedSetup, Inits, OpeningSteps, InitSteps, LastSteps, LateSkills
  <1> DEFINE started == IF IsPast(w, "runtime") THEN {"services", "runtime"} ELSE {}
  <1> DEFINE saving == IF \/ w.at = "verify"
                          \/ w.pending /\ ~IsPast(w, "env")
                          \/ w.kind = "switch" /\ w.at = "env" THEN {"secrets"} ELSE {}
  <1> DEFINE activating == IF w.kind = "init" /\ ~w.complete /\ ~IsPast(w, "deploy")
                           THEN {"instructions"} ELSE {}
  <1>4. Undone(w) = started \cup saving \cup activating
    <2>1. Undone(w) = UNION {started, saving, activating}
      BY DEF Undone
    <2> HIDE DEF started, saving, activating
    <2> QED
      BY <2>1
  <1>5. started = IF PastRuntime(w) THEN {"services", "runtime"} ELSE {}
    BY <1>1
  <1> HIDE DEF started, saving, activating
  <1>6. saving = IF OnItsWay(w) \/ (w.kind = "switch" /\ w.at = "env") THEN {"secrets"} ELSE {}
    <2>1. (\/ w.at = "verify" \/ (w.pending /\ ~IsPast(w, "env"))
           \/ (w.kind = "switch" /\ w.at = "env"))
          <=> (OnItsWay(w) \/ (w.kind = "switch" /\ w.at = "env"))
      BY <1>2 DEF OnItsWay
    <2> QED
      BY <2>1 DEF saving
  <1>7. activating = IF Inits(w) /\ ~w.complete /\ ~PastDeploy(w) THEN {"instructions"} ELSE {}
    BY <1>3 DEF activating, Inits
  <1> QED
    BY <1>4, <1>5, <1>6, <1>7

-----------------------------------------------------------------------------
(* The places a command goes to *)

Places == {"idle"} \cup OpeningSteps \cup InitSteps \cup SwitchSteps

LEMMA SetupFields ==
    ASSUME SetupInv
    PROVE  /\ setup \in SetupRow /\ setup = [setup EXCEPT !.at = setup.at]
           /\ setup.at \in Places /\ setup.kind \in {"init", "switch"} /\ setup.silent \in BOOLEAN
           /\ setup.existing \in AgentRuntimes \cup {"none"} /\ setup.selected \in AgentRuntimes
           /\ setup.complete \in BOOLEAN /\ setup.key \in Keys /\ setup.pending \in BOOLEAN
           /\ setup.authenticated \in BOOLEAN
  BY DEF SetupInv, SetupRows, SetupRow, Places

LEMMA SetupGoes ==
    ASSUME NEW w \in SetupRow, NEW p \in Places, NEW v, v = [w EXCEPT !.at = p]
    PROVE  /\ v \in SetupRow /\ v.at = p /\ v.kind = w.kind /\ v.silent = w.silent
           /\ v.existing = w.existing /\ v.selected = w.selected /\ v.complete = w.complete
           /\ v.key = w.key /\ v.pending = w.pending /\ v.authenticated = w.authenticated
  BY DEF SetupRow, Places

LEMMA UnstartedRow ==
    /\ Unstarted \in SetupRow /\ Unstarted.at = "idle" /\ Unstarted.kind = "init"
    /\ ~Unstarted.pending /\ ~Unstarted.complete
  BY DEF Unstarted, SetupRow, AgentRuntimes, Keys

LEMMA InstallCliKeeps ==
    ASSUME SetupInv, InstallCli
    PROVE  SetupInv'
  <1>0. /\ SetupRows /\ PlacedSetup(setup) /\ PartsThere /\ ServicesRead
        /\ SecretsSaved /\ RuntimeChosen
    BY DEF SetupInv
  <1>1. ASSUME setup.at = "install", setup.kind = "switch",
               setup' = [setup EXCEPT !.at = "settings"],
               UNCHANGED <<present, config, synced, ecosystem, instructions,
                           secrets, status, running, lost, ready, chosen, setupsRun,
                              setupTroubles>>
        PROVE  SetupInv'
    <2>1. /\ setup' \in SetupRow /\ setup'.at = "settings" /\ setup'.silent = setup.silent
          /\ setup'.kind = setup.kind /\ setup'.existing = setup.existing
          /\ setup'.selected = setup.selected /\ setup'.complete = setup.complete
          /\ setup'.key = setup.key /\ setup'.pending = setup.pending
          /\ setup'.authenticated = setup.authenticated
      BY <1>1, SetupFields, SetupGoes DEF Places, OpeningSteps, InitSteps, SwitchSteps
    <2>10. SetupRows'
      BY <1>0, <1>1, <2>1
      DEF SetupRows, ConfigRow, Losable, Complete
    <2>11. PlacedSetup(setup)'
      BY <1>0, <1>1, <2>1
      DEF PlacedSetup, Inits, OpeningSteps, InitSteps, SwitchSteps, Unstarted
    <2>12. PartsThere'
      BY <1>0, <1>1, <2>1
      DEF PartsThere, PlacedSetup, Inits, PastDirs, PastSkills, PastDeploy, PastEnv, LateSkills,
              LastSteps, InitSteps, OpeningSteps, SwitchSteps
    <2>13. ServicesRead'
      BY <1>0, <1>1, <2>1
      DEF ServicesRead, MayLag, Inits, PastRuntime, PastDeploy, PastEnv, LateSkills,
              LastSteps, RuntimeOf
    <2>14. SecretsSaved'
      BY <1>0, <1>1, <2>1
      DEF SecretsSaved, PlacedSetup, OnItsWay, Inits, PastEnv, LateSkills, LastSteps
    <2>15. RuntimeChosen'
      BY <1>0, <1>1, <2>1
      DEF RuntimeChosen, Inits, PastRuntime, PastDeploy, PastEnv, LateSkills, LastSteps,
              RuntimeOf
    <2> QED
      BY <2>10, <2>11, <2>12, <2>13, <2>14, <2>15 DEF SetupInv
  <1>2. ASSUME setup.at = "install", setup.kind = "init",
               setup' = [setup EXCEPT !.at = "auth"],
               UNCHANGED <<present, config, synced, ecosystem, instructions,
                           secrets, status, running, lost, ready, chosen, setupsRun,
                              setupTroubles>>
        PROVE  SetupInv'
    <2>1. /\ setup' \in SetupRow /\ setup'.at = "auth" /\ setup'.silent = setup.silent
          /\ setup'.kind = setup.kind /\ setup'.existing = setup.existing
          /\ setup'.selected = setup.selected /\ setup'.complete = setup.complete
          /\ setup'.key = setup.key /\ setup'.pending = setup.pending
          /\ setup'.authenticated = setup.authenticated
      BY <1>2, SetupFields, SetupGoes DEF Places, OpeningSteps, InitSteps, SwitchSteps
    <2>10. SetupRows'
      BY <1>0, <1>2, <2>1
      DEF SetupRows, ConfigRow, Losable, Complete
    <2>11. PlacedSetup(setup)'
      BY <1>0, <1>2, <2>1
      DEF PlacedSetup, Inits, OpeningSteps, InitSteps, SwitchSteps, Unstarted
    <2>12. PartsThere'
      BY <1>0, <1>2, <2>1
      DEF PartsThere, PlacedSetup, Inits, PastDirs, PastSkills, PastDeploy, PastEnv, LateSkills,
              LastSteps, InitSteps, OpeningSteps, SwitchSteps
    <2>13. ServicesRead'
      BY <1>0, <1>2, <2>1
      DEF ServicesRead, MayLag, Inits, PastRuntime, PastDeploy, PastEnv, LateSkills,
              LastSteps, RuntimeOf
    <2>14. SecretsSaved'
      BY <1>0, <1>2, <2>1
      DEF SecretsSaved, PlacedSetup, OnItsWay, Inits, PastEnv, LateSkills, LastSteps
    <2>15. RuntimeChosen'
      BY <1>0, <1>2, <2>1
      DEF RuntimeChosen, Inits, PastRuntime, PastDeploy, PastEnv, LateSkills, LastSteps,
              RuntimeOf
    <2> QED
      BY <2>10, <2>11, <2>12, <2>13, <2>14, <2>15 DEF SetupInv
  <1>3. ASSUME setup.at = "install", Leaves,
               UNCHANGED <<present, config, synced, ecosystem, instructions,
                           secrets, status, running, lost, ready, chosen, setupsRun,
                              setupTroubles>>
        PROVE  SetupInv'
    <2>1. /\ setup' \in SetupRow /\ setup' = Unstarted /\ setup'.at = "idle"
          /\ setup'.kind = "init" /\ ~setup'.pending /\ ~setup'.complete
      BY <1>3, UnstartedRow DEF Leaves
    <2>10. SetupRows'
      BY <1>0, <1>3, <2>1
      DEF SetupRows, ConfigRow, Losable, Complete
    <2>11. PlacedSetup(setup)'
      BY <1>0, <1>3, <2>1
      DEF PlacedSetup, Inits, OpeningSteps, InitSteps, SwitchSteps, Unstarted
    <2>12. PartsThere'
      BY <1>0, <1>3, <2>1
      DEF PartsThere, PlacedSetup, Inits, PastDirs, PastSkills, PastDeploy, PastEnv, LateSkills,
              LastSteps, InitSteps, OpeningSteps, SwitchSteps
    <2>13. ServicesRead'
      BY <1>0, <1>3, <2>1
      DEF ServicesRead, MayLag, Inits, PastRuntime, PastDeploy, PastEnv, LateSkills,
              LastSteps, RuntimeOf
    <2>14. SecretsSaved'
      BY <1>0, <1>3, <2>1
      DEF SecretsSaved, PlacedSetup, OnItsWay, Inits, PastEnv, LateSkills, LastSteps
    <2>15. RuntimeChosen'
      BY <1>0, <1>3, <2>1
      DEF RuntimeChosen, Inits, PastRuntime, PastDeploy, PastEnv, LateSkills, LastSteps,
              RuntimeOf
    <2> QED
      BY <2>10, <2>11, <2>12, <2>13, <2>14, <2>15 DEF SetupInv
  <1> QED
    BY <1>1, <1>2, <1>3, SetupFields DEF InstallCli, At, Lasting, Smooth, Disk

LEMMA AuthenticateKeeps ==
    ASSUME SetupInv, Authenticate
    PROVE  SetupInv'
  <1>0. /\ SetupRows /\ PlacedSetup(setup) /\ PartsThere /\ ServicesRead
        /\ SecretsSaved /\ RuntimeChosen
    BY DEF SetupInv
  <1>1. ASSUME setup.at = "auth", Authenticated, UNCHANGED secrets,
               UNCHANGED <<present, config, synced, ecosystem, instructions,
                           status, running, lost, ready, chosen, setupsRun, setupTroubles>>
        PROVE  SetupInv'
    <2>1. /\ setup' \in SetupRow /\ setup'.at = "state" /\ setup'.authenticated = TRUE
          /\ setup'.silent = setup.silent /\ setup'.kind = setup.kind
          /\ setup'.existing = setup.existing /\ setup'.selected = setup.selected
          /\ setup'.complete = setup.complete /\ setup'.key = setup.key
          /\ setup'.pending = setup.pending
      BY <1>1, SetupFields, SetupGoes DEF Authenticated, SetupRow, OpeningSteps
    <2>10. SetupRows'
      BY <1>0, <1>1, <2>1
      DEF SetupRows, ConfigRow, Losable, Complete
    <2>11. PlacedSetup(setup)'
      BY <1>0, <1>1, <2>1
      DEF PlacedSetup, Inits, OpeningSteps, InitSteps, SwitchSteps, Unstarted
    <2>12. PartsThere'
      BY <1>0, <1>1, <2>1
      DEF PartsThere, PlacedSetup, Inits, PastDirs, PastSkills, PastDeploy, PastEnv, LateSkills,
              LastSteps, InitSteps, OpeningSteps, SwitchSteps
    <2>13. ServicesRead'
      BY <1>0, <1>1, <2>1
      DEF ServicesRead, MayLag, Inits, PastRuntime, PastDeploy, PastEnv, LateSkills,
              LastSteps, RuntimeOf
    <2>14. SecretsSaved'
      BY <1>0, <1>1, <2>1
      DEF SecretsSaved, PlacedSetup, OnItsWay, Inits, PastEnv, LateSkills, LastSteps
    <2>15. RuntimeChosen'
      BY <1>0, <1>1, <2>1
      DEF RuntimeChosen, Inits, PastRuntime, PastDeploy, PastEnv, LateSkills, LastSteps,
              RuntimeOf
    <2> QED
      BY <2>10, <2>11, <2>12, <2>13, <2>14, <2>15 DEF SetupInv
  <1>2. ASSUME setup.at = "auth", NotAuthenticated, UNCHANGED secrets,
               UNCHANGED <<present, config, synced, ecosystem, instructions,
                           status, running, lost, ready, chosen, setupsRun, setupTroubles>>
        PROVE  SetupInv'
    <2>1. /\ setup' \in SetupRow /\ setup'.at = "state" /\ setup'.silent = setup.silent
          /\ setup'.kind = setup.kind /\ setup'.existing = setup.existing
          /\ setup'.selected = setup.selected /\ setup'.complete = setup.complete
          /\ setup'.key = setup.key /\ setup'.pending = setup.pending
          /\ setup'.authenticated = setup.authenticated
      BY <1>2, SetupFields, SetupGoes DEF NotAuthenticated, Places, OpeningSteps
    <2>10. SetupRows'
      BY <1>0, <1>2, <2>1
      DEF SetupRows, ConfigRow, Losable, Complete
    <2>11. PlacedSetup(setup)'
      BY <1>0, <1>2, <2>1
      DEF PlacedSetup, Inits, OpeningSteps, InitSteps, SwitchSteps, Unstarted
    <2>12. PartsThere'
      BY <1>0, <1>2, <2>1
      DEF PartsThere, PlacedSetup, Inits, PastDirs, PastSkills, PastDeploy, PastEnv, LateSkills,
              LastSteps, InitSteps, OpeningSteps, SwitchSteps
    <2>13. ServicesRead'
      BY <1>0, <1>2, <2>1
      DEF ServicesRead, MayLag, Inits, PastRuntime, PastDeploy, PastEnv, LateSkills,
              LastSteps, RuntimeOf
    <2>14. SecretsSaved'
      BY <1>0, <1>2, <2>1
      DEF SecretsSaved, PlacedSetup, OnItsWay, Inits, PastEnv, LateSkills, LastSteps
    <2>15. RuntimeChosen'
      BY <1>0, <1>2, <2>1
      DEF RuntimeChosen, Inits, PastRuntime, PastDeploy, PastEnv, LateSkills, LastSteps,
              RuntimeOf
    <2> QED
      BY <2>10, <2>11, <2>12, <2>13, <2>14, <2>15 DEF SetupInv
  <1>3. ASSUME setup.at = "auth", setup.selected = "claude",
               secrets' = [secrets EXCEPT !.settings = setup.key],
               setup' = [setup EXCEPT !.at = "verify"],
               UNCHANGED <<present, config, synced, ecosystem, instructions,
                           status, running, lost, ready, chosen, setupsRun, setupTroubles>>
        PROVE  SetupInv'
    <2>1. /\ setup' \in SetupRow /\ setup'.at = "verify" /\ setup'.silent = setup.silent
          /\ setup'.kind = setup.kind /\ setup'.existing = setup.existing
          /\ setup'.selected = setup.selected /\ setup'.complete = setup.complete
          /\ setup'.key = setup.key /\ setup'.pending = setup.pending
          /\ setup'.authenticated = setup.authenticated
      BY <1>3, SetupFields, SetupGoes DEF Places, OpeningSteps, InitSteps, SwitchSteps
    <2>2. secrets' \in [settings : Keys, env : Keys] /\ secrets'.settings = setup.key
      BY <1>0, <1>3, SetupFields DEF SetupRows
    <2>10. SetupRows'
      BY <1>0, <1>3, <2>1, <2>2
      DEF SetupRows, ConfigRow, Losable, Complete
    <2>11. PlacedSetup(setup)'
      BY <1>0, <1>3, <2>1, <2>2
      DEF PlacedSetup, Inits, OpeningSteps, InitSteps, SwitchSteps, Unstarted
    <2>12. PartsThere'
      BY <1>0, <1>3, <2>1, <2>2
      DEF PartsThere, PlacedSetup, Inits, PastDirs, PastSkills, PastDeploy, PastEnv, LateSkills,
              LastSteps, InitSteps, OpeningSteps, SwitchSteps
    <2>13. ServicesRead'
      BY <1>0, <1>3, <2>1, <2>2
      DEF ServicesRead, MayLag, Inits, PastRuntime, PastDeploy, PastEnv, LateSkills,
              LastSteps, RuntimeOf
    <2>14. SecretsSaved'
      BY <1>0, <1>3, <2>1, <2>2
      DEF SecretsSaved, PlacedSetup, OnItsWay, Inits, PastEnv, LateSkills, LastSteps
    <2>15. RuntimeChosen'
      BY <1>0, <1>3, <2>1, <2>2
      DEF RuntimeChosen, Inits, PastRuntime, PastDeploy, PastEnv, LateSkills, LastSteps,
              RuntimeOf
    <2> QED
      BY <2>10, <2>11, <2>12, <2>13, <2>14, <2>15 DEF SetupInv
  <1>4. ASSUME setup.at = "auth", setup.selected = "claude", setup.key = "good",
               secrets' = [secrets EXCEPT !.settings = setup.key],
               setup' = [setup EXCEPT !.at = "state", !.pending = TRUE, !.authenticated = TRUE],
               UNCHANGED <<present, config, synced, ecosystem, instructions,
                           status, running, lost, ready, chosen, setupsRun, setupTroubles>>
        PROVE  SetupInv'
    <2>1. /\ setup' \in SetupRow /\ setup'.at = "state" /\ setup'.pending = TRUE
          /\ setup'.authenticated = TRUE /\ setup'.silent = setup.silent
          /\ setup'.kind = setup.kind /\ setup'.existing = setup.existing
          /\ setup'.selected = setup.selected /\ setup'.complete = setup.complete
          /\ setup'.key = setup.key
      BY <1>4, SetupFields, SetupGoes DEF SetupRow, OpeningSteps
    <2>2. secrets' \in [settings : Keys, env : Keys] /\ secrets'.settings = setup.key
      BY <1>0, <1>4, SetupFields DEF SetupRows
    <2>10. SetupRows'
      BY <1>0, <1>4, <2>1, <2>2
      DEF SetupRows, ConfigRow, Losable, Complete
    <2>11. PlacedSetup(setup)'
      BY <1>0, <1>4, <2>1, <2>2
      DEF PlacedSetup, Inits, OpeningSteps, InitSteps, SwitchSteps, Unstarted
    <2>12. PartsThere'
      BY <1>0, <1>4, <2>1, <2>2
      DEF PartsThere, PlacedSetup, Inits, PastDirs, PastSkills, PastDeploy, PastEnv, LateSkills,
              LastSteps, InitSteps, OpeningSteps, SwitchSteps
    <2>13. ServicesRead'
      BY <1>0, <1>4, <2>1, <2>2
      DEF ServicesRead, MayLag, Inits, PastRuntime, PastDeploy, PastEnv, LateSkills,
              LastSteps, RuntimeOf
    <2>14. SecretsSaved'
      BY <1>0, <1>4, <2>1, <2>2
      DEF SecretsSaved, PlacedSetup, OnItsWay, Inits, PastEnv, LateSkills, LastSteps
    <2>15. RuntimeChosen'
      BY <1>0, <1>4, <2>1, <2>2
      DEF RuntimeChosen, Inits, PastRuntime, PastDeploy, PastEnv, LateSkills, LastSteps,
              RuntimeOf
    <2> QED
      BY <2>10, <2>11, <2>12, <2>13, <2>14, <2>15 DEF SetupInv
  <1> QED
    BY <1>1, <1>2, <1>3, <1>4 DEF Authenticate, At, Lasting, Smooth, Disk

LEMMA VerifyTokenKeeps ==
    ASSUME SetupInv, VerifyToken
    PROVE  SetupInv'
  <1>0. /\ SetupRows /\ PlacedSetup(setup) /\ PartsThere /\ ServicesRead
        /\ SecretsSaved /\ RuntimeChosen
    BY DEF SetupInv
  <1>1. ASSUME setup.at = "verify", setup.key = "good", UNCHANGED secrets,
               setup' = [setup EXCEPT !.at = "state", !.pending = TRUE, !.authenticated = TRUE],
               UNCHANGED <<present, config, synced, ecosystem, instructions,
                           status, running, lost, ready, chosen, setupsRun, setupTroubles>>
        PROVE  SetupInv'
    <2>1. /\ setup' \in SetupRow /\ setup'.at = "state" /\ setup'.pending = TRUE
          /\ setup'.authenticated = TRUE /\ setup'.silent = setup.silent
          /\ setup'.kind = setup.kind /\ setup'.existing = setup.existing
          /\ setup'.selected = setup.selected /\ setup'.complete = setup.complete
          /\ setup'.key = setup.key
      BY <1>1, SetupFields, SetupGoes DEF SetupRow, OpeningSteps
    <2>10. SetupRows'
      BY <1>0, <1>1, <2>1
      DEF SetupRows, ConfigRow, Losable, Complete
    <2>11. PlacedSetup(setup)'
      BY <1>0, <1>1, <2>1
      DEF PlacedSetup, Inits, OpeningSteps, InitSteps, SwitchSteps, Unstarted
    <2>12. PartsThere'
      BY <1>0, <1>1, <2>1
      DEF PartsThere, PlacedSetup, Inits, PastDirs, PastSkills, PastDeploy, PastEnv, LateSkills,
              LastSteps, InitSteps, OpeningSteps, SwitchSteps
    <2>13. ServicesRead'
      BY <1>0, <1>1, <2>1
      DEF ServicesRead, MayLag, Inits, PastRuntime, PastDeploy, PastEnv, LateSkills,
              LastSteps, RuntimeOf
    <2>14. SecretsSaved'
      BY <1>0, <1>1, <2>1
      DEF SecretsSaved, PlacedSetup, OnItsWay, Inits, PastEnv, LateSkills, LastSteps
    <2>15. RuntimeChosen'
      BY <1>0, <1>1, <2>1
      DEF RuntimeChosen, Inits, PastRuntime, PastDeploy, PastEnv, LateSkills, LastSteps,
              RuntimeOf
    <2> QED
      BY <2>10, <2>11, <2>12, <2>13, <2>14, <2>15 DEF SetupInv
  <1>2. ASSUME setup.at = "verify", secrets' = [secrets EXCEPT !.settings = "none"],
               NotAuthenticated,
               UNCHANGED <<present, config, synced, ecosystem, instructions,
                           status, running, lost, ready, chosen, setupsRun, setupTroubles>>
        PROVE  SetupInv'
    <2>1. /\ setup' \in SetupRow /\ setup'.at = "state" /\ setup'.silent = setup.silent
          /\ setup'.kind = setup.kind /\ setup'.existing = setup.existing
          /\ setup'.selected = setup.selected /\ setup'.complete = setup.complete
          /\ setup'.key = setup.key /\ setup'.pending = setup.pending
          /\ setup'.authenticated = setup.authenticated
      BY <1>2, SetupFields, SetupGoes DEF NotAuthenticated, Places, OpeningSteps
    <2>2. secrets' \in [settings : Keys, env : Keys] /\ secrets'.settings = "none"
      BY <1>0, <1>2 DEF SetupRows, Keys
    <2>10. SetupRows'
      BY <1>0, <1>2, <2>1, <2>2
      DEF SetupRows, ConfigRow, Losable, Complete
    <2>11. PlacedSetup(setup)'
      BY <1>0, <1>2, <2>1, <2>2
      DEF PlacedSetup, Inits, OpeningSteps, InitSteps, SwitchSteps, Unstarted
    <2>12. PartsThere'
      BY <1>0, <1>2, <2>1, <2>2
      DEF PartsThere, PlacedSetup, Inits, PastDirs, PastSkills, PastDeploy, PastEnv, LateSkills,
              LastSteps, InitSteps, OpeningSteps, SwitchSteps
    <2>13. ServicesRead'
      BY <1>0, <1>2, <2>1, <2>2
      DEF ServicesRead, MayLag, Inits, PastRuntime, PastDeploy, PastEnv, LateSkills,
              LastSteps, RuntimeOf
    <2>14. SecretsSaved'
      BY <1>0, <1>2, <2>1, <2>2
      DEF SecretsSaved, PlacedSetup, OnItsWay, Inits, PastEnv, LateSkills, LastSteps
    <2>15. RuntimeChosen'
      BY <1>0, <1>2, <2>1, <2>2
      DEF RuntimeChosen, Inits, PastRuntime, PastDeploy, PastEnv, LateSkills, LastSteps,
              RuntimeOf
    <2> QED
      BY <2>10, <2>11, <2>12, <2>13, <2>14, <2>15 DEF SetupInv
  <1> QED
    BY <1>1, <1>2 DEF VerifyToken, At, Lasting, Smooth, Disk

LEMMA DetectStateKeeps ==
    ASSUME SetupInv, DetectState
    PROVE  SetupInv'
  <1>0. /\ SetupRows /\ PlacedSetup(setup) /\ PartsThere /\ ServicesRead
        /\ SecretsSaved /\ RuntimeChosen
    BY DEF SetupInv
  <1>1. ASSUME setup.at = "state", present = Complete,
               setup' = [setup EXCEPT !.at = "skills", !.complete = TRUE],
               UNCHANGED <<present, config, synced, ecosystem, instructions,
                           secrets, status, running, lost, ready, chosen, setupsRun,
                              setupTroubles>>
        PROVE  SetupInv'
    <2>1. /\ setup' \in SetupRow /\ setup'.at = "skills" /\ setup'.complete = TRUE
          /\ setup'.silent = setup.silent /\ setup'.kind = setup.kind
          /\ setup'.existing = setup.existing /\ setup'.selected = setup.selected
          /\ setup'.key = setup.key /\ setup'.pending = setup.pending
          /\ setup'.authenticated = setup.authenticated
      BY <1>1, SetupFields, SetupGoes DEF SetupRow, InitSteps
    <2>10. SetupRows'
      BY <1>0, <1>1, <2>1
      DEF SetupRows, ConfigRow, Losable, Complete
    <2>11. PlacedSetup(setup)'
      BY <1>0, <1>1, <2>1
      DEF PlacedSetup, Inits, OpeningSteps, InitSteps, SwitchSteps, Unstarted
    <2>12. PartsThere'
      BY <1>0, <1>1, <2>1
      DEF PartsThere, PlacedSetup, Inits, PastDirs, PastSkills, PastDeploy, PastEnv, LateSkills,
              LastSteps, InitSteps, OpeningSteps, SwitchSteps
    <2>13. ServicesRead'
      BY <1>0, <1>1, <2>1
      DEF ServicesRead, MayLag, Inits, PastRuntime, PastDeploy, PastEnv, LateSkills,
              LastSteps, RuntimeOf
    <2>14. SecretsSaved'
      BY <1>0, <1>1, <2>1
      DEF SecretsSaved, PlacedSetup, OnItsWay, Inits, PastEnv, LateSkills, LastSteps
    <2>15. RuntimeChosen'
      BY <1>0, <1>1, <2>1
      DEF RuntimeChosen, Inits, PastRuntime, PastDeploy, PastEnv, LateSkills, LastSteps,
              RuntimeOf
    <2> QED
      BY <2>10, <2>11, <2>12, <2>13, <2>14, <2>15 DEF SetupInv
  <1>2. ASSUME setup.at = "state", present # Complete,
               setup' = [setup EXCEPT !.at = "dirs"],
               UNCHANGED <<present, config, synced, ecosystem, instructions,
                           secrets, status, running, lost, ready, chosen, setupsRun,
                              setupTroubles>>
        PROVE  SetupInv'
    <2>1. /\ setup' \in SetupRow /\ setup'.at = "dirs" /\ setup'.silent = setup.silent
          /\ setup'.kind = setup.kind /\ setup'.existing = setup.existing
          /\ setup'.selected = setup.selected /\ setup'.complete = setup.complete
          /\ setup'.key = setup.key /\ setup'.pending = setup.pending
          /\ setup'.authenticated = setup.authenticated
      BY <1>2, SetupFields, SetupGoes DEF Places, OpeningSteps, InitSteps, SwitchSteps
    <2>10. SetupRows'
      BY <1>0, <1>2, <2>1
      DEF SetupRows, ConfigRow, Losable, Complete
    <2>11. PlacedSetup(setup)'
      BY <1>0, <1>2, <2>1
      DEF PlacedSetup, Inits, OpeningSteps, InitSteps, SwitchSteps, Unstarted
    <2>12. PartsThere'
      BY <1>0, <1>2, <2>1
      DEF PartsThere, PlacedSetup, Inits, PastDirs, PastSkills, PastDeploy, PastEnv, LateSkills,
              LastSteps, InitSteps, OpeningSteps, SwitchSteps
    <2>13. ServicesRead'
      BY <1>0, <1>2, <2>1
      DEF ServicesRead, MayLag, Inits, PastRuntime, PastDeploy, PastEnv, LateSkills,
              LastSteps, RuntimeOf
    <2>14. SecretsSaved'
      BY <1>0, <1>2, <2>1
      DEF SecretsSaved, PlacedSetup, OnItsWay, Inits, PastEnv, LateSkills, LastSteps
    <2>15. RuntimeChosen'
      BY <1>0, <1>2, <2>1
      DEF RuntimeChosen, Inits, PastRuntime, PastDeploy, PastEnv, LateSkills, LastSteps,
              RuntimeOf
    <2> QED
      BY <2>10, <2>11, <2>12, <2>13, <2>14, <2>15 DEF SetupInv
  <1>3. ASSUME setup.at = "state", setup' = [setup EXCEPT !.at = "reset"],
               UNCHANGED <<present, config, synced, ecosystem, instructions,
                           secrets, status, running, lost, ready, chosen, setupsRun,
                              setupTroubles>>
        PROVE  SetupInv'
    <2>1. /\ setup' \in SetupRow /\ setup'.at = "reset" /\ setup'.silent = setup.silent
          /\ setup'.kind = setup.kind /\ setup'.existing = setup.existing
          /\ setup'.selected = setup.selected /\ setup'.complete = setup.complete
          /\ setup'.key = setup.key /\ setup'.pending = setup.pending
          /\ setup'.authenticated = setup.authenticated
      BY <1>3, SetupFields, SetupGoes DEF Places, OpeningSteps, InitSteps, SwitchSteps
    <2>10. SetupRows'
      BY <1>0, <1>3, <2>1
      DEF SetupRows, ConfigRow, Losable, Complete
    <2>11. PlacedSetup(setup)'
      BY <1>0, <1>3, <2>1
      DEF PlacedSetup, Inits, OpeningSteps, InitSteps, SwitchSteps, Unstarted
    <2>12. PartsThere'
      BY <1>0, <1>3, <2>1
      DEF PartsThere, PlacedSetup, Inits, PastDirs, PastSkills, PastDeploy, PastEnv, LateSkills,
              LastSteps, InitSteps, OpeningSteps, SwitchSteps
    <2>13. ServicesRead'
      BY <1>0, <1>3, <2>1
      DEF ServicesRead, MayLag, Inits, PastRuntime, PastDeploy, PastEnv, LateSkills,
              LastSteps, RuntimeOf
    <2>14. SecretsSaved'
      BY <1>0, <1>3, <2>1
      DEF SecretsSaved, PlacedSetup, OnItsWay, Inits, PastEnv, LateSkills, LastSteps
    <2>15. RuntimeChosen'
      BY <1>0, <1>3, <2>1
      DEF RuntimeChosen, Inits, PastRuntime, PastDeploy, PastEnv, LateSkills, LastSteps,
              RuntimeOf
    <2> QED
      BY <2>10, <2>11, <2>12, <2>13, <2>14, <2>15 DEF SetupInv
  <1> QED
    BY <1>1, <1>2, <1>3 DEF DetectState, At, Lasting, Smooth, Disk

LEMMA MarkersAre ==
    /\ Complete = {"skills", "config", "components"} /\ DOMAIN Markers = 1..3
    /\ Markers[1] = "skills" /\ Markers[2] = "config" /\ Markers[3] = "components"
  <1>1. DOMAIN Markers = 1..3
    BY DEF Markers
  <1>2. Markers[1] = "skills" /\ Markers[2] = "config" /\ Markers[3] = "components"
    BY DEF Markers
  <1>3. Complete = {Markers[1], Markers[2], Markers[3]}
    BY <1>1 DEF Complete
  <1> QED
    BY <1>1, <1>2, <1>3

LEMMA ResetManagedStateKeeps ==
    ASSUME SetupInv, ResetManagedState
    PROVE  SetupInv'
  <1>0. /\ SetupRows /\ PlacedSetup(setup) /\ PartsThere /\ ServicesRead
        /\ SecretsSaved /\ RuntimeChosen
    BY DEF SetupInv
  <1>1. ASSUME setup.at = "reset", ready' = FALSE,
               running' = [x \in CoreServices |-> "stopped"],
               UNCHANGED <<present, config, synced, ecosystem, instructions, setup, lost,
                           secrets, status, chosen, setupsRun, setupTroubles>>
        PROVE  SetupInv'
    <2>1. setup' = setup /\ setup' \in SetupRow
      BY <1>1, SetupFields
    <2>10. SetupRows'
      BY <1>0, <1>1, <2>1
      DEF SetupRows, ConfigRow, Losable, Complete
    <2>11. PlacedSetup(setup)'
      BY <1>0, <1>1, <2>1
      DEF PlacedSetup, Inits, OpeningSteps, InitSteps, SwitchSteps, Unstarted
    <2>12. PartsThere'
      BY <1>0, <1>1, <2>1
      DEF PartsThere, PlacedSetup, Inits, PastDirs, PastSkills, PastDeploy, PastEnv, LateSkills,
              LastSteps, InitSteps, OpeningSteps, SwitchSteps, CoreServices
    <2>13. ServicesRead'
      BY <1>0, <1>1, <2>1
      DEF ServicesRead, MayLag, Inits, PastRuntime, PastDeploy, PastEnv, LateSkills,
              LastSteps, RuntimeOf, CoreServices
    <2>14. SecretsSaved'
      BY <1>0, <1>1, <2>1
      DEF SecretsSaved, PlacedSetup, OnItsWay, Inits, PastEnv, LateSkills, LastSteps
    <2>15. RuntimeChosen'
      BY <1>0, <1>1, <2>1
      DEF RuntimeChosen, Inits, PastRuntime, PastDeploy, PastEnv, LateSkills, LastSteps,
              RuntimeOf
    <2> QED
      BY <2>10, <2>11, <2>12, <2>13, <2>14, <2>15 DEF SetupInv
  <1>2. ASSUME setup.at = "reset", ready' = FALSE, "skills" \in present,
               present' = present \ {"skills"}, synced' = FALSE,
               UNCHANGED <<config, ecosystem, instructions, running,
                           setup, lost, secrets, status, chosen, setupsRun, setupTroubles>>
        PROVE  SetupInv'
    <2>1. setup' = setup /\ setup' \in SetupRow
      BY <1>2, SetupFields
    <2>2. present' # Complete /\ ("config" \in present' <=> "config" \in present)
          /\ ("components" \in present' <=> "components" \in present)
      BY <1>2, MarkersAre
    <2>10. SetupRows'
      BY <1>0, <1>2, <2>1, <2>2
      DEF SetupRows, ConfigRow, Losable, Complete
    <2>11. PlacedSetup(setup)'
      BY <1>0, <1>2, <2>1, <2>2
      DEF PlacedSetup, Inits, OpeningSteps, InitSteps, SwitchSteps, Unstarted
    <2>12. PartsThere'
      BY <1>0, <1>2, <2>1, <2>2
      DEF PartsThere, PlacedSetup, Inits, PastDirs, PastSkills, PastDeploy, PastEnv, LateSkills,
              LastSteps, InitSteps, OpeningSteps, SwitchSteps, CoreServices
    <2>13. ServicesRead'
      BY <1>0, <1>2, <2>1, <2>2
      DEF ServicesRead, MayLag, Inits, PastRuntime, PastDeploy, PastEnv, LateSkills,
              LastSteps, RuntimeOf, CoreServices
    <2>14. SecretsSaved'
      BY <1>0, <1>2, <2>1, <2>2
      DEF SecretsSaved, PlacedSetup, OnItsWay, Inits, PastEnv, LateSkills, LastSteps
    <2>15. RuntimeChosen'
      BY <1>0, <1>2, <2>1, <2>2
      DEF RuntimeChosen, Inits, PastRuntime, PastDeploy, PastEnv, LateSkills, LastSteps,
              RuntimeOf
    <2> QED
      BY <2>10, <2>11, <2>12, <2>13, <2>14, <2>15 DEF SetupInv
  <1>3. ASSUME setup.at = "reset", ready' = FALSE,
               \A x \in CoreServices : running[x] = "stopped",
               present' = {}, config' = NoConfig, ecosystem' = FALSE,
               instructions' = IF instructions = "active" THEN "files" ELSE instructions,
               lost' = IF setup.existing = setup.selected THEN lost \cup {"runtime"} ELSE lost,
               setup' = [setup EXCEPT !.at = "dirs"],
               UNCHANGED <<synced, running, secrets, status, chosen, setupsRun, setupTroubles>>
        PROVE  SetupInv'
    <2>1. /\ setup' \in SetupRow /\ setup'.at = "dirs" /\ setup'.silent = setup.silent
          /\ setup'.kind = setup.kind /\ setup'.existing = setup.existing
          /\ setup'.selected = setup.selected /\ setup'.complete = setup.complete
          /\ setup'.key = setup.key /\ setup'.pending = setup.pending
          /\ setup'.authenticated = setup.authenticated
      BY <1>3, SetupFields, SetupGoes DEF Places, OpeningSteps, InitSteps, SwitchSteps
    <2>2. present' = {} /\ present' # Complete
      BY <1>3, MarkersAre
    <2>10. SetupRows'
      BY <1>0, <1>3, <2>1, <2>2
      DEF SetupRows, ConfigRow, Losable, Complete, NoConfig, AgentRuntimes
    <2>11. PlacedSetup(setup)'
      BY <1>0, <1>3, <2>1, <2>2
      DEF PlacedSetup, Inits, OpeningSteps, InitSteps, SwitchSteps, Unstarted
    <2>12. PartsThere'
      BY <1>0, <1>3, <2>1, <2>2
      DEF PartsThere, PlacedSetup, Inits, PastDirs, PastSkills, PastDeploy, PastEnv, LateSkills,
              LastSteps, InitSteps, OpeningSteps, SwitchSteps, CoreServices
    <2>13. ServicesRead'
      BY <1>0, <1>3, <2>1, <2>2
      DEF ServicesRead, MayLag, Inits, PastRuntime, PastDeploy, PastEnv, LateSkills,
              LastSteps, RuntimeOf, CoreServices
    <2>14. SecretsSaved'
      BY <1>0, <1>3, <2>1, <2>2
      DEF SecretsSaved, PlacedSetup, OnItsWay, Inits, PastEnv, LateSkills, LastSteps
    <2>15. RuntimeChosen'
      BY <1>0, <1>3, <2>1, <2>2
      DEF RuntimeChosen, Inits, PastRuntime, PastDeploy, PastEnv, LateSkills, LastSteps,
              RuntimeOf, NoConfig
    <2> QED
      BY <2>10, <2>11, <2>12, <2>13, <2>14, <2>15 DEF SetupInv
  <1> QED
    BY <1>1, <1>2, <1>3 DEF ResetManagedState, At, Lasting, Smooth, Disk

LEMMA CreateDirectoriesKeeps ==
    ASSUME SetupInv, CreateDirectories
    PROVE  SetupInv'
  <1>0. /\ SetupRows /\ PlacedSetup(setup) /\ PartsThere /\ ServicesRead
        /\ SecretsSaved /\ RuntimeChosen
    BY DEF SetupInv
  <1>1. ASSUME setup.at = "dirs", present = Complete, setup' = [setup EXCEPT !.at = "runtime"],
               UNCHANGED <<present, config, synced, ecosystem, instructions,
                           secrets, status, running, lost, ready, chosen, setupsRun,
                              setupTroubles>>
        PROVE  SetupInv'
    <2>1. /\ setup' \in SetupRow /\ setup'.at = "runtime" /\ setup'.silent = setup.silent
          /\ setup'.kind = setup.kind /\ setup'.existing = setup.existing
          /\ setup'.selected = setup.selected /\ setup'.complete = setup.complete
          /\ setup'.key = setup.key /\ setup'.pending = setup.pending
          /\ setup'.authenticated = setup.authenticated
      BY <1>1, SetupFields, SetupGoes DEF Places, OpeningSteps, InitSteps, SwitchSteps
    <2>10. SetupRows'
      BY <1>0, <1>1, <2>1
      DEF SetupRows, ConfigRow, Losable, Complete
    <2>11. PlacedSetup(setup)'
      BY <1>0, <1>1, <2>1
      DEF PlacedSetup, Inits, OpeningSteps, InitSteps, SwitchSteps, Unstarted
    <2>12. PartsThere'
      BY <1>0, <1>1, <2>1
      DEF PartsThere, PlacedSetup, Inits, PastDirs, PastSkills, PastDeploy, PastEnv, LateSkills,
              LastSteps, InitSteps, OpeningSteps, SwitchSteps
    <2>13. ServicesRead'
      BY <1>0, <1>1, <2>1
      DEF ServicesRead, MayLag, Inits, PastRuntime, PastDeploy, PastEnv, LateSkills,
              LastSteps, RuntimeOf
    <2>14. SecretsSaved'
      BY <1>0, <1>1, <2>1
      DEF SecretsSaved, PlacedSetup, OnItsWay, Inits, PastEnv, LateSkills, LastSteps
    <2>15. RuntimeChosen'
      BY <1>0, <1>1, <2>1
      DEF RuntimeChosen, Inits, PastRuntime, PastDeploy, PastEnv, LateSkills, LastSteps,
              RuntimeOf
    <2> QED
      BY <2>10, <2>11, <2>12, <2>13, <2>14, <2>15 DEF SetupInv
  <1>2. ASSUME setup.at = "dirs", present # Complete,
               NEW m \in Complete, present' = present \cup {m},
                  m = "components" => "config" \in present,
               UNCHANGED <<setup, config, synced, ecosystem, instructions,
                           secrets, status, running, lost, ready, chosen, setupsRun,
                              setupTroubles>>
        PROVE  SetupInv'
    <2>1. setup' = setup /\ setup' \in SetupRow
      BY <1>2, SetupFields
    <2>2. /\ "components" \in present' => "components" \in present \/ m = "components"
          /\ "config" \in present => "config" \in present'
          /\ present' \subseteq Complete
      BY <1>0, <1>2 DEF SetupRows
    <2>3. setup.kind = "init" /\ ~setup.complete
      BY <1>0, <1>2, SetupFields DEF PlacedSetup, SwitchSteps
    <2>10. SetupRows'
      BY <1>0, <1>2, <2>1, <2>2, <2>3
      DEF SetupRows, ConfigRow, Losable, Complete
    <2>11. PlacedSetup(setup)'
      BY <1>0, <1>2, <2>1, <2>2, <2>3
      DEF PlacedSetup, Inits, OpeningSteps, InitSteps, SwitchSteps, Unstarted
    <2>12. PartsThere'
      BY <1>0, <1>2, <2>1, <2>2, <2>3
      DEF PartsThere, PlacedSetup, Inits, PastDirs, PastSkills, PastDeploy, PastEnv, LateSkills,
              LastSteps, InitSteps, OpeningSteps, SwitchSteps
    <2>13. ServicesRead'
      BY <1>0, <1>2, <2>1, <2>2, <2>3
      DEF ServicesRead, MayLag, Inits, PastRuntime, PastDeploy, PastEnv, LateSkills,
              LastSteps, RuntimeOf
    <2>14. SecretsSaved'
      BY <1>0, <1>2, <2>1, <2>2, <2>3
      DEF SecretsSaved, PlacedSetup, OnItsWay, Inits, PastEnv, LateSkills, LastSteps
    <2>15. RuntimeChosen'
      BY <1>0, <1>2, <2>1, <2>2, <2>3
      DEF RuntimeChosen, Inits, PastRuntime, PastDeploy, PastEnv, LateSkills, LastSteps,
              RuntimeOf
    <2> QED
      BY <2>10, <2>11, <2>12, <2>13, <2>14, <2>15 DEF SetupInv
  <1>3. CASE present = Complete
    <2>1. setup.kind = "init" /\ ~setup.complete /\ setup.at = "dirs"
      BY <1>0, SetupFields DEF CreateDirectories, At, PlacedSetup, SwitchSteps
    <2>2. setup' = [setup EXCEPT !.at = "runtime"]
      BY <1>3, <2>1, FreshOrder DEF CreateDirectories, Advance
    <2> QED
      BY <1>1, <1>3, <2>1, <2>2 DEF CreateDirectories, Disk, Lasting, Smooth
  <1>4. CASE present # Complete
    <2> DEFINE First(i) == /\ Markers[i] \notin present
                           /\ \A j \in 1..(i - 1) : Markers[j] \in present
    <2>1. \E i \in DOMAIN Markers : First(i)
      <3>1. \/ "skills" \notin present \/ "config" \notin present
            \/ "components" \notin present
        BY <1>0, <1>4, MarkersAre DEF SetupRows
      <3>2. "skills" \notin present => First(1)
        BY MarkersAre
      <3>3. "skills" \in present /\ "config" \notin present => First(2)
        BY MarkersAre
      <3>4. ASSUME "skills" \in present, "config" \in present, "components" \notin present
            PROVE  First(3)
        <4>1. \A j \in 1..(3 - 1) : j = 1 \/ j = 2
          OBVIOUS
        <4> QED
          BY <3>4, <4>1, MarkersAre
      <3> QED
        BY <3>1, <3>2, <3>3, <3>4, MarkersAre
    <2>2. PICK n : n = CHOOSE i \in DOMAIN Markers : First(i)
      OBVIOUS
    <2>3. n \in 1..3 /\ First(n)
      BY <2>1, <2>2, MarkersAre
    <2>4. Markers[n] = "components" => "config" \in present
      <3>1. Markers[n] = "components" => n = 3
        BY <2>3, MarkersAre
      <3>2. n = 3 => Markers[2] \in present
        BY <2>3
      <3> QED
        BY <3>1, <3>2, MarkersAre
    <2>5. Markers[n] \in Complete /\ present' = present \cup {Markers[n]}
      BY <1>4, <2>2, <2>3, MarkersAre DEF CreateDirectories
    <2> QED
      BY <1>2, <1>4, <2>4, <2>5 DEF CreateDirectories, At, Disk, Lasting, Smooth
  <1> QED
    BY <1>3, <1>4

LEMMA TroubleCounts == SetupInv /\ Trouble => setupTroubles' \in 0..MaxSetupTroubles
  BY SetupAssumption DEF SetupInv, SetupRows, Trouble

LEMMA SetupIsPlaced == SetupInv => PlacedSetup(setup)
  BY DEF SetupInv

LEMMA PersistRuntimeKeeps ==
    ASSUME SetupInv, PersistRuntime
    PROVE  SetupInv'
  <1>a. ASSUME setup.at = "runtime", Advance
        PROVE  /\ setup.kind = "init" => setup' = [setup EXCEPT !.at = "threshold"]
               /\ setup.kind = "switch" => setup' = [setup EXCEPT !.at = "health"]
    BY <1>a, SetupFields, SetupIsPlaced, SwitchOrder, CompleteOrder, FreshOrder
    DEF Advance, PlacedSetup, Inits, OpeningSteps, InitSteps, SwitchSteps
  <1>0. /\ SetupRows /\ PlacedSetup(setup) /\ PartsThere /\ ServicesRead
        /\ SecretsSaved /\ RuntimeChosen
    BY DEF SetupInv
  <1>1. ASSUME setup.kind = "init", setup.existing = setup.selected, UNCHANGED <<config,
                                                                                 present>>,
               setup.at = "runtime", setup' = [setup EXCEPT !.at = "threshold"],
               UNCHANGED <<synced, ecosystem, instructions, secrets, status, running,
                           lost, ready, chosen, setupsRun, setupTroubles>>
        PROVE  SetupInv'
    <2>1. /\ setup' \in SetupRow /\ setup'.at = "threshold" /\ setup'.silent = setup.silent
          /\ setup'.kind = setup.kind /\ setup'.existing = setup.existing
          /\ setup'.selected = setup.selected /\ setup'.complete = setup.complete
          /\ setup'.key = setup.key /\ setup'.pending = setup.pending
          /\ setup'.authenticated = setup.authenticated
      BY <1>1, SetupFields, SetupGoes DEF Places, OpeningSteps, InitSteps, SwitchSteps
    <2>10. SetupRows'
      BY <1>0, <1>1, <2>1
      DEF SetupRows, ConfigRow, Losable, Complete
    <2>11. PlacedSetup(setup)'
      BY <1>0, <1>1, <2>1
      DEF PlacedSetup, Inits, OpeningSteps, InitSteps, SwitchSteps, Unstarted
    <2>12. PartsThere'
      BY <1>0, <1>1, <2>1
      DEF PartsThere, PlacedSetup, Inits, PastDirs, PastSkills, PastDeploy, PastEnv, LateSkills,
              LastSteps, InitSteps, OpeningSteps, SwitchSteps
    <2>13. ServicesRead'
      BY <1>0, <1>1, <2>1
      DEF ServicesRead, MayLag, Inits, PastRuntime, PastDeploy, PastEnv, LateSkills,
              LastSteps, RuntimeOf
    <2>14. SecretsSaved'
      BY <1>0, <1>1, <2>1
      DEF SecretsSaved, PlacedSetup, OnItsWay, Inits, PastEnv, LateSkills, LastSteps
    <2>15. RuntimeChosen'
      BY <1>0, <1>1, <2>1
      DEF RuntimeChosen, Inits, PastRuntime, PastDeploy, PastEnv, LateSkills, LastSteps,
              RuntimeOf
    <2> QED
      BY <2>10, <2>11, <2>12, <2>13, <2>14, <2>15 DEF SetupInv
  <1>2. ASSUME setup.kind = "init", setup.existing # setup.selected,
               config' = [config EXCEPT !.runtime = setup.selected],
                  present' = present \cup {"config"},
               setup.at = "runtime", setup' = [setup EXCEPT !.at = "threshold"],
               UNCHANGED <<synced, ecosystem, instructions, secrets, status, running,
                           lost, ready, chosen, setupsRun, setupTroubles>>
        PROVE  SetupInv'
    <2>1. /\ setup' \in SetupRow /\ setup'.at = "threshold" /\ setup'.silent = setup.silent
          /\ setup'.kind = setup.kind /\ setup'.existing = setup.existing
          /\ setup'.selected = setup.selected /\ setup'.complete = setup.complete
          /\ setup'.key = setup.key /\ setup'.pending = setup.pending
          /\ setup'.authenticated = setup.authenticated
      BY <1>2, SetupFields, SetupGoes DEF Places, OpeningSteps, InitSteps, SwitchSteps
    <2>2. config' \in ConfigRow /\ config'.runtime = setup.selected /\ config' # NoConfig
      BY <1>0, <1>2, SetupFields DEF SetupRows, ConfigRow, NoConfig, AgentRuntimes
    <2>3. /\ "config" \in present' /\ ("components" \in present' <=> "components" \in present)
          /\ present' = Complete => present = Complete
      <3>1. present \subseteq Complete /\ ("components" \in present => "config" \in present)
        BY <1>0 DEF SetupRows, PartsThere
      <3> QED
        BY <1>2, <3>1, MarkersAre
    <2>4. present' \subseteq Complete
      BY <1>0, <1>2, MarkersAre DEF SetupRows
    <2>5. RuntimeOf(config)' = setup.selected
      BY <2>2, SetupFields DEF RuntimeOf, AgentRuntimes
    <2>10. SetupRows'
      BY <1>0, <1>2, <2>1, <2>2, <2>3, <2>4, <2>5
      DEF SetupRows, ConfigRow, Losable, Complete
    <2>11. PlacedSetup(setup)'
      BY <1>0, <1>2, <2>1, <2>2, <2>3, <2>4, <2>5
      DEF PlacedSetup, Inits, OpeningSteps, InitSteps, SwitchSteps, Unstarted
    <2>12. PartsThere'
      BY <1>0, <1>2, <2>1, <2>2, <2>3, <2>4, <2>5
      DEF PartsThere, PlacedSetup, Inits, PastDirs, PastSkills, PastDeploy, PastEnv, LateSkills,
              LastSteps, InitSteps, OpeningSteps, SwitchSteps
    <2>13. ServicesRead'
      BY <1>0, <1>2, <2>1, <2>2, <2>3, <2>4, <2>5
      DEF ServicesRead, MayLag, Inits, PastRuntime, PastDeploy, PastEnv, LateSkills,
              LastSteps, RuntimeOf
    <2>14. SecretsSaved'
      BY <1>0, <1>2, <2>1, <2>2, <2>3, <2>4, <2>5
      DEF SecretsSaved, PlacedSetup, OnItsWay, Inits, PastEnv, LateSkills, LastSteps
    <2>15. RuntimeChosen'
      BY <1>0, <1>2, <2>1, <2>2, <2>3, <2>4, <2>5
      DEF RuntimeChosen, Inits, PastRuntime, PastDeploy, PastEnv, LateSkills, LastSteps,
              RuntimeOf, AgentRuntimes
    <2> QED
      BY <2>10, <2>11, <2>12, <2>13, <2>14, <2>15 DEF SetupInv
  <1>3. ASSUME setup.kind = "switch",
               config' = [config EXCEPT !.runtime = setup.selected],
                  present' = present \cup {"config"},
               setup.at = "runtime", setup' = [setup EXCEPT !.at = "health"],
               UNCHANGED <<synced, ecosystem, instructions, secrets, status, running,
                           lost, ready, chosen, setupsRun, setupTroubles>>
        PROVE  SetupInv'
    <2>1. /\ setup' \in SetupRow /\ setup'.at = "health" /\ setup'.silent = setup.silent
          /\ setup'.kind = setup.kind /\ setup'.existing = setup.existing
          /\ setup'.selected = setup.selected /\ setup'.complete = setup.complete
          /\ setup'.key = setup.key /\ setup'.pending = setup.pending
          /\ setup'.authenticated = setup.authenticated
      BY <1>3, SetupFields, SetupGoes DEF Places, OpeningSteps, InitSteps, SwitchSteps
    <2>2. config' \in ConfigRow /\ config'.runtime = setup.selected /\ config' # NoConfig
      BY <1>0, <1>3, SetupFields DEF SetupRows, ConfigRow, NoConfig, AgentRuntimes
    <2>3. /\ "config" \in present' /\ ("components" \in present' <=> "components" \in present)
          /\ present' = Complete => present = Complete
      <3>1. present \subseteq Complete /\ ("components" \in present => "config" \in present)
        BY <1>0 DEF SetupRows, PartsThere
      <3> QED
        BY <1>3, <3>1, MarkersAre
    <2>4. present' \subseteq Complete
      BY <1>0, <1>3, MarkersAre DEF SetupRows
    <2>5. RuntimeOf(config)' = setup.selected
      BY <2>2, SetupFields DEF RuntimeOf, AgentRuntimes
    <2>10. SetupRows'
      BY <1>0, <1>3, <2>1, <2>2, <2>3, <2>4, <2>5
      DEF SetupRows, ConfigRow, Losable, Complete
    <2>11. PlacedSetup(setup)'
      BY <1>0, <1>3, <2>1, <2>2, <2>3, <2>4, <2>5
      DEF PlacedSetup, Inits, OpeningSteps, InitSteps, SwitchSteps, Unstarted
    <2>12. PartsThere'
      BY <1>0, <1>3, <2>1, <2>2, <2>3, <2>4, <2>5
      DEF PartsThere, PlacedSetup, Inits, PastDirs, PastSkills, PastDeploy, PastEnv, LateSkills,
              LastSteps, InitSteps, OpeningSteps, SwitchSteps
    <2>13. ServicesRead'
      BY <1>0, <1>3, <2>1, <2>2, <2>3, <2>4, <2>5
      DEF ServicesRead, MayLag, Inits, PastRuntime, PastDeploy, PastEnv, LateSkills,
              LastSteps, RuntimeOf
    <2>14. SecretsSaved'
      BY <1>0, <1>3, <2>1, <2>2, <2>3, <2>4, <2>5
      DEF SecretsSaved, PlacedSetup, OnItsWay, Inits, PastEnv, LateSkills, LastSteps
    <2>15. RuntimeChosen'
      BY <1>0, <1>3, <2>1, <2>2, <2>3, <2>4, <2>5
      DEF RuntimeChosen, Inits, PastRuntime, PastDeploy, PastEnv, LateSkills, LastSteps,
              RuntimeOf, AgentRuntimes
    <2> QED
      BY <2>10, <2>11, <2>12, <2>13, <2>14, <2>15 DEF SetupInv
  <1> QED
    BY <1>1, <1>2, <1>3, <1>a, SetupFields DEF PersistRuntime, At, Lasting, Smooth

LEMMA SeedThresholdKeeps ==
    ASSUME SetupInv, SeedThreshold
    PROVE  SetupInv'
  <1>a. ASSUME setup.at = "threshold", Advance
        PROVE  /\ setup' = [setup EXCEPT !.at = "deploy"]
    BY <1>a, SetupFields, SetupIsPlaced, SwitchOrder, CompleteOrder, FreshOrder
    DEF Advance, PlacedSetup, Inits, OpeningSteps, InitSteps, SwitchSteps
  <1>0. /\ SetupRows /\ PlacedSetup(setup) /\ PartsThere /\ ServicesRead
        /\ SecretsSaved /\ RuntimeChosen
    BY DEF SetupInv
  <1>1. ASSUME UNCHANGED <<config, present>>,
               setup.at = "threshold", setup' = [setup EXCEPT !.at = "deploy"],
               UNCHANGED <<synced, ecosystem, instructions, secrets, status, running,
                           lost, ready, chosen, setupsRun, setupTroubles>>
        PROVE  SetupInv'
    <2>1. /\ setup' \in SetupRow /\ setup'.at = "deploy" /\ setup'.silent = setup.silent
          /\ setup'.kind = setup.kind /\ setup'.existing = setup.existing
          /\ setup'.selected = setup.selected /\ setup'.complete = setup.complete
          /\ setup'.key = setup.key /\ setup'.pending = setup.pending
          /\ setup'.authenticated = setup.authenticated
      BY <1>1, SetupFields, SetupGoes DEF Places, OpeningSteps, InitSteps, SwitchSteps
    <2>3. setup.kind = "init"
      BY <1>0, <1>1, SetupFields DEF PlacedSetup, SwitchSteps
    <2>10. SetupRows'
      BY <1>0, <1>1, <2>1, <2>3
      DEF SetupRows, ConfigRow, Losable, Complete
    <2>11. PlacedSetup(setup)'
      BY <1>0, <1>1, <2>1, <2>3
      DEF PlacedSetup, Inits, OpeningSteps, InitSteps, SwitchSteps, Unstarted
    <2>12. PartsThere'
      BY <1>0, <1>1, <2>1, <2>3
      DEF PartsThere, PlacedSetup, Inits, PastDirs, PastSkills, PastDeploy, PastEnv, LateSkills,
              LastSteps, InitSteps, OpeningSteps, SwitchSteps
    <2>13. ServicesRead'
      BY <1>0, <1>1, <2>1, <2>3
      DEF ServicesRead, MayLag, Inits, PastRuntime, PastDeploy, PastEnv, LateSkills,
              LastSteps, RuntimeOf
    <2>14. SecretsSaved'
      BY <1>0, <1>1, <2>1, <2>3
      DEF SecretsSaved, PlacedSetup, OnItsWay, Inits, PastEnv, LateSkills, LastSteps
    <2>15. RuntimeChosen'
      BY <1>0, <1>1, <2>1, <2>3
      DEF RuntimeChosen, Inits, PastRuntime, PastDeploy, PastEnv, LateSkills, LastSteps,
              RuntimeOf
    <2> QED
      BY <2>10, <2>11, <2>12, <2>13, <2>14, <2>15 DEF SetupInv
  <1>2. ASSUME NEW n \in {30, 70}, config' = [config EXCEPT !.threshold = n],
               present' = present \cup {"config"},
               setup.at = "threshold", setup' = [setup EXCEPT !.at = "deploy"],
               UNCHANGED <<synced, ecosystem, instructions, secrets, status, running,
                           lost, ready, chosen, setupsRun, setupTroubles>>
        PROVE  SetupInv'
    <2>1. /\ setup' \in SetupRow /\ setup'.at = "deploy" /\ setup'.silent = setup.silent
          /\ setup'.kind = setup.kind /\ setup'.existing = setup.existing
          /\ setup'.selected = setup.selected /\ setup'.complete = setup.complete
          /\ setup'.key = setup.key /\ setup'.pending = setup.pending
          /\ setup'.authenticated = setup.authenticated
      BY <1>2, SetupFields, SetupGoes DEF Places, OpeningSteps, InitSteps, SwitchSteps
    <2>2. /\ config' \in ConfigRow /\ config'.runtime = config.runtime
          /\ RuntimeOf(config)' = RuntimeOf(config)
      BY <1>0, <1>2 DEF SetupRows, ConfigRow, RuntimeOf
    <2>3. setup.kind = "init" /\ present = Complete /\ "config" \in present /\ present' = present
      BY <1>0, <1>2, SetupFields, MarkersAre
      DEF PartsThere, PlacedSetup, PastDirs, Inits, InitSteps, SwitchSteps
    <2>10. SetupRows'
      BY <1>0, <1>2, <2>1, <2>2, <2>3
      DEF SetupRows, ConfigRow, Losable, Complete
    <2>11. PlacedSetup(setup)'
      BY <1>0, <1>2, <2>1, <2>2, <2>3
      DEF PlacedSetup, Inits, OpeningSteps, InitSteps, SwitchSteps, Unstarted
    <2>12. PartsThere'
      BY <1>0, <1>2, <2>1, <2>2, <2>3
      DEF PartsThere, PlacedSetup, Inits, PastDirs, PastSkills, PastDeploy, PastEnv, LateSkills,
              LastSteps, InitSteps, OpeningSteps, SwitchSteps
    <2>13. ServicesRead'
      BY <1>0, <1>2, <2>1, <2>2, <2>3
      DEF ServicesRead, MayLag, Inits, PastRuntime, PastDeploy, PastEnv, LateSkills,
              LastSteps, RuntimeOf
    <2>14. SecretsSaved'
      BY <1>0, <1>2, <2>1, <2>2, <2>3
      DEF SecretsSaved, PlacedSetup, OnItsWay, Inits, PastEnv, LateSkills, LastSteps
    <2>15. RuntimeChosen'
      BY <1>0, <1>2, <2>1, <2>2, <2>3
      DEF RuntimeChosen, Inits, PastRuntime, PastDeploy, PastEnv, LateSkills, LastSteps,
              RuntimeOf
    <2> QED
      BY <2>10, <2>11, <2>12, <2>13, <2>14, <2>15 DEF SetupInv
  <1>3. setup.at = "threshold" /\ setup' = [setup EXCEPT !.at = "deploy"]
    BY <1>a DEF SeedThreshold, At
  <1>4. CASE config' = config
    BY <1>1, <1>3, <1>4 DEF SeedThreshold, Lasting, Smooth
  <1>5. CASE config' # config
    <2>1. \E n \in {30, 70} : config' = [config EXCEPT !.threshold = n]
      BY <1>5 DEF SeedThreshold
    <2> QED
      BY <1>2, <1>3, <1>5, <2>1 DEF SeedThreshold, Lasting, Smooth
  <1> QED
    BY <1>4, <1>5

LEMMA DeployTemplatesKeeps ==
    ASSUME SetupInv, DeployTemplates
    PROVE  SetupInv'
  <1>a. ASSUME setup.at = "deploy", Advance
        PROVE  /\ setup' = [setup EXCEPT !.at = "env"]
    BY <1>a, SetupFields, SetupIsPlaced, SwitchOrder, CompleteOrder, FreshOrder
    DEF Advance, PlacedSetup, Inits, OpeningSteps, InitSteps, SwitchSteps
  <1>0. /\ SetupRows /\ PlacedSetup(setup) /\ PartsThere /\ ServicesRead
        /\ SecretsSaved /\ RuntimeChosen
    BY DEF SetupInv
  <1>1. ASSUME ecosystem' = TRUE, UNCHANGED <<lost, setupTroubles>>,
               instructions' = IF instructions = "none" /\ ~setup.complete THEN "active" ELSE
                  instructions,
               setup.at = "deploy", setup' = [setup EXCEPT !.at = "env"],
               UNCHANGED <<present, config, synced, secrets, status, running, ready, chosen,
                           setupsRun>>
        PROVE  SetupInv'
    <2>1. /\ setup' \in SetupRow /\ setup'.at = "env" /\ setup'.silent = setup.silent
          /\ setup'.kind = setup.kind /\ setup'.existing = setup.existing
          /\ setup'.selected = setup.selected /\ setup'.complete = setup.complete
          /\ setup'.key = setup.key /\ setup'.pending = setup.pending
          /\ setup'.authenticated = setup.authenticated
      BY <1>1, SetupFields, SetupGoes DEF Places, OpeningSteps, InitSteps, SwitchSteps
    <2>2. setup.kind = "init"
      BY <1>0, <1>1, SetupFields DEF PlacedSetup, SwitchSteps
    <2>10. SetupRows'
      BY <1>0, <1>1, <2>1, <2>2
      DEF SetupRows, ConfigRow, Losable, Complete
    <2>11. PlacedSetup(setup)'
      BY <1>0, <1>1, <2>1, <2>2
      DEF PlacedSetup, Inits, OpeningSteps, InitSteps, SwitchSteps, Unstarted
    <2>12. PartsThere'
      BY <1>0, <1>1, <2>1, <2>2
      DEF PartsThere, PlacedSetup, Inits, PastDirs, PastSkills, PastDeploy, PastEnv, LateSkills,
              LastSteps, InitSteps, OpeningSteps, SwitchSteps
    <2>13. ServicesRead'
      BY <1>0, <1>1, <2>1, <2>2
      DEF ServicesRead, MayLag, Inits, PastRuntime, PastDeploy, PastEnv, LateSkills,
              LastSteps, RuntimeOf
    <2>14. SecretsSaved'
      BY <1>0, <1>1, <2>1, <2>2
      DEF SecretsSaved, PlacedSetup, OnItsWay, Inits, PastEnv, LateSkills, LastSteps
    <2>15. RuntimeChosen'
      BY <1>0, <1>1, <2>1, <2>2
      DEF RuntimeChosen, Inits, PastRuntime, PastDeploy, PastEnv, LateSkills, LastSteps,
              RuntimeOf
    <2> QED
      BY <2>10, <2>11, <2>12, <2>13, <2>14, <2>15 DEF SetupInv
  <1>2. ASSUME setup.at = "deploy", ecosystem' = TRUE, UNCHANGED instructions, Leaves,
               lost' = lost \cup Undone(setup), setupTroubles' \in 0..MaxSetupTroubles,
               UNCHANGED <<present, config, synced, secrets, status, running, ready, chosen,
                           setupsRun>>
        PROVE  SetupInv'
    <2>1. /\ setup' \in SetupRow /\ setup' = Unstarted /\ setup'.at = "idle"
          /\ setup'.kind = "init" /\ ~setup'.pending /\ ~setup'.complete
      BY <1>2, UnstartedRow DEF Leaves
    <2>2. /\ lost \subseteq lost' /\ lost' \in SUBSET Losable
          /\ PastRuntime(setup) => "services" \in lost' /\ "runtime" \in lost'
          /\ OnItsWay(setup) => "secrets" \in lost'
          /\ Inits(setup) /\ ~setup.complete /\ ~PastDeploy(setup) => "instructions" \in lost'
      BY <1>0, <1>2, SetupFields, UndoneIs DEF SetupRows, Losable
    <2>3. PastRuntime(setup) /\ present = Complete
      BY <1>0, <1>2, SetupFields
      DEF PartsThere, PlacedSetup, PastRuntime, PastDirs, Inits, InitSteps, SwitchSteps
    <2>10. SetupRows'
      BY <1>0, <1>2, <2>1, <2>2, <2>3
      DEF SetupRows, ConfigRow, Losable, Complete
    <2>11. PlacedSetup(setup)'
      BY <1>0, <1>2, <2>1, <2>2, <2>3
      DEF PlacedSetup, Inits, OpeningSteps, InitSteps, SwitchSteps, Unstarted
    <2>12. PartsThere'
      BY <1>0, <1>2, <2>1, <2>2, <2>3
      DEF PartsThere, PlacedSetup, Inits, PastDirs, PastSkills, PastDeploy, PastEnv, LateSkills,
              LastSteps, InitSteps, OpeningSteps, SwitchSteps
    <2>13. ServicesRead'
      BY <1>0, <1>2, <2>1, <2>2, <2>3
      DEF ServicesRead, MayLag, Inits, PastRuntime, PastDeploy, PastEnv, LateSkills,
              LastSteps, RuntimeOf
    <2>14. SecretsSaved'
      BY <1>0, <1>2, <2>1, <2>2, <2>3
      DEF SecretsSaved, PlacedSetup, OnItsWay, Inits, PastEnv, LateSkills, LastSteps
    <2>15. RuntimeChosen'
      BY <1>0, <1>2, <2>1, <2>2, <2>3
      DEF RuntimeChosen, Inits, PastRuntime, PastDeploy, PastEnv, LateSkills, LastSteps,
              RuntimeOf
    <2> QED
      BY <2>10, <2>11, <2>12, <2>13, <2>14, <2>15 DEF SetupInv
  <1> QED
    BY <1>1, <1>2, <1>a, TroubleCounts DEF DeployTemplates, At, Lasting, Smooth, Trouble

LEMMA SaveSettingsKeeps ==
    ASSUME SetupInv, SaveSettings
    PROVE  SetupInv'
  <1>a. ASSUME setup.at = "settings", Advance
        PROVE  /\ setup' = [setup EXCEPT !.at = "env"]
    BY <1>a, SetupFields, SetupIsPlaced, SwitchOrder, CompleteOrder, FreshOrder
    DEF Advance, PlacedSetup, Inits, OpeningSteps, InitSteps, SwitchSteps
  <1>0. /\ SetupRows /\ PlacedSetup(setup) /\ PartsThere /\ ServicesRead
        /\ SecretsSaved /\ RuntimeChosen
    BY DEF SetupInv
  <1>1. ASSUME setup.selected = "claude", setup.key # "none",
               secrets' = [secrets EXCEPT !.settings = setup.key],
               setup.at = "settings", setup' = [setup EXCEPT !.at = "env"],
               UNCHANGED <<present, config, synced, ecosystem, instructions,
                           status, running, lost, ready, chosen, setupsRun, setupTroubles>>
        PROVE  SetupInv'
    <2>1. /\ setup' \in SetupRow /\ setup'.at = "env" /\ setup'.silent = setup.silent
          /\ setup'.kind = setup.kind /\ setup'.existing = setup.existing
          /\ setup'.selected = setup.selected /\ setup'.complete = setup.complete
          /\ setup'.key = setup.key /\ setup'.pending = setup.pending
          /\ setup'.authenticated = setup.authenticated
      BY <1>1, SetupFields, SetupGoes DEF Places, OpeningSteps, InitSteps, SwitchSteps
    <2>2. setup.kind = "switch"
      BY <1>0, <1>1, SetupFields DEF PlacedSetup, Inits, OpeningSteps, InitSteps, SwitchSteps
    <2>3. secrets' \in [settings : Keys, env : Keys] /\ secrets'.settings = setup.key
      BY <1>0, <1>1, SetupFields DEF SetupRows
    <2>10. SetupRows'
      BY <1>0, <1>1, <2>1, <2>2, <2>3
      DEF SetupRows, ConfigRow, Losable, Complete
    <2>11. PlacedSetup(setup)'
      BY <1>0, <1>1, <2>1, <2>2, <2>3
      DEF PlacedSetup, Inits, OpeningSteps, InitSteps, SwitchSteps, Unstarted
    <2>12. PartsThere'
      BY <1>0, <1>1, <2>1, <2>2, <2>3
      DEF PartsThere, PlacedSetup, Inits, PastDirs, PastSkills, PastDeploy, PastEnv, LateSkills,
              LastSteps, InitSteps, OpeningSteps, SwitchSteps
    <2>13. ServicesRead'
      BY <1>0, <1>1, <2>1, <2>2, <2>3
      DEF ServicesRead, MayLag, Inits, PastRuntime, PastDeploy, PastEnv, LateSkills,
              LastSteps, RuntimeOf
    <2>14. SecretsSaved'
      BY <1>0, <1>1, <2>1, <2>2, <2>3
      DEF SecretsSaved, PlacedSetup, OnItsWay, Inits, PastEnv, LateSkills, LastSteps
    <2>15. RuntimeChosen'
      BY <1>0, <1>1, <2>1, <2>2, <2>3
      DEF RuntimeChosen, Inits, PastRuntime, PastDeploy, PastEnv, LateSkills, LastSteps,
              RuntimeOf
    <2> QED
      BY <2>10, <2>11, <2>12, <2>13, <2>14, <2>15 DEF SetupInv
  <1>2. ASSUME setup.selected # "claude" \/ setup.key = "none", UNCHANGED secrets,
               setup.at = "settings", setup' = [setup EXCEPT !.at = "env"],
               UNCHANGED <<present, config, synced, ecosystem, instructions,
                           status, running, lost, ready, chosen, setupsRun, setupTroubles>>
        PROVE  SetupInv'
    <2>1. /\ setup' \in SetupRow /\ setup'.at = "env" /\ setup'.silent = setup.silent
          /\ setup'.kind = setup.kind /\ setup'.existing = setup.existing
          /\ setup'.selected = setup.selected /\ setup'.complete = setup.complete
          /\ setup'.key = setup.key /\ setup'.pending = setup.pending
          /\ setup'.authenticated = setup.authenticated
      BY <1>2, SetupFields, SetupGoes DEF Places, OpeningSteps, InitSteps, SwitchSteps
    <2>2. setup.kind = "switch"
      BY <1>0, <1>2, SetupFields DEF PlacedSetup, Inits, OpeningSteps, InitSteps, SwitchSteps
    <2>10. SetupRows'
      BY <1>0, <1>2, <2>1, <2>2
      DEF SetupRows, ConfigRow, Losable, Complete
    <2>11. PlacedSetup(setup)'
      BY <1>0, <1>2, <2>1, <2>2
      DEF PlacedSetup, Inits, OpeningSteps, InitSteps, SwitchSteps, Unstarted
    <2>12. PartsThere'
      BY <1>0, <1>2, <2>1, <2>2
      DEF PartsThere, PlacedSetup, Inits, PastDirs, PastSkills, PastDeploy, PastEnv, LateSkills,
              LastSteps, InitSteps, OpeningSteps, SwitchSteps
    <2>13. ServicesRead'
      BY <1>0, <1>2, <2>1, <2>2
      DEF ServicesRead, MayLag, Inits, PastRuntime, PastDeploy, PastEnv, LateSkills,
              LastSteps, RuntimeOf
    <2>14. SecretsSaved'
      BY <1>0, <1>2, <2>1, <2>2
      DEF SecretsSaved, PlacedSetup, OnItsWay, Inits, PastEnv, LateSkills, LastSteps
    <2>15. RuntimeChosen'
      BY <1>0, <1>2, <2>1, <2>2
      DEF RuntimeChosen, Inits, PastRuntime, PastDeploy, PastEnv, LateSkills, LastSteps,
              RuntimeOf
    <2> QED
      BY <2>10, <2>11, <2>12, <2>13, <2>14, <2>15 DEF SetupInv
  <1> QED
    BY <1>1, <1>2, <1>a DEF SaveSettings, At, Lasting, Smooth, Disk

LEMMA SaveEnvKeeps ==
    ASSUME SetupInv, SaveEnv
    PROVE  SetupInv'
  <1>a. ASSUME setup.at = "env", Advance
        PROVE  /\ setup.kind = "switch" => setup' = [setup EXCEPT !.at = "gate"]
               /\ setup.kind = "init" /\ setup.complete => setup' = [setup EXCEPT !.at = "health"]
               /\ setup.kind = "init" /\ ~setup.complete => setup' = [setup EXCEPT !.at =
                  "skills"]
    BY <1>a, SetupFields, SetupIsPlaced, SwitchOrder, CompleteOrder, FreshOrder
    DEF Advance, PlacedSetup, Inits, OpeningSteps, InitSteps, SwitchSteps
  <1>0. /\ SetupRows /\ PlacedSetup(setup) /\ PartsThere /\ ServicesRead
        /\ SecretsSaved /\ RuntimeChosen
    BY DEF SetupInv
  <1>1. ASSUME NEW p \in {"skills", "health", "gate"}, setup.at = "env",
               setup.kind = "switch" => p = "gate",
               setup.kind = "init" => p = IF setup.complete THEN "health" ELSE "skills",
               setup' = [setup EXCEPT !.at = p],
               setup.selected = "claude",
               setup.kind = "switch" => setup.key # "none", setup.kind = "init" => setup.pending,
               secrets' = [secrets EXCEPT !.env = setup.key],
               lost' = IF secrets'.env = secrets.settings THEN lost \ {"secrets"} ELSE lost,
               setupTroubles' = setupTroubles,
               UNCHANGED <<present, config, synced, ecosystem, instructions, status, running,
                           ready, chosen, setupsRun>>
        PROVE  SetupInv'
    <2>1. /\ setup' \in SetupRow /\ setup'.at = p /\ setup'.silent = setup.silent
          /\ setup'.kind = setup.kind /\ setup'.existing = setup.existing
          /\ setup'.selected = setup.selected /\ setup'.complete = setup.complete
          /\ setup'.key = setup.key /\ setup'.pending = setup.pending
          /\ setup'.authenticated = setup.authenticated
      BY <1>1, SetupFields, SetupGoes DEF Places, OpeningSteps, InitSteps, SwitchSteps
    <2>2. secrets' \in [settings : Keys, env : Keys] /\ lost' \in SUBSET Losable
      BY <1>0, <1>1, SetupFields DEF SetupRows
    <2>3. secrets'.env = setup.key /\ secrets'.settings = secrets.settings
      BY <1>0, <1>1 DEF SetupRows
    <2>4. \/ setup.kind = "switch" /\ p = "gate" /\ ~setup.complete /\ ~setup.pending
          \/ setup.kind = "init" /\ setup.complete /\ p = "health"
          \/ setup.kind = "init" /\ ~setup.complete /\ p = "skills"
      BY <1>0, <1>1, SetupFields DEF PlacedSetup
    <2>10. SetupRows'
      BY <1>0, <1>1, <2>1, <2>2, <2>3, <2>4
      DEF SetupRows, ConfigRow, Losable, Complete
    <2>11. PlacedSetup(setup)'
      BY <1>0, <1>1, <2>1, <2>2, <2>3, <2>4
      DEF PlacedSetup, Inits, OpeningSteps, InitSteps, SwitchSteps, Unstarted
    <2>12. PartsThere'
      BY <1>0, <1>1, <2>1, <2>2, <2>3, <2>4
      DEF PartsThere, PlacedSetup, Inits, PastDirs, PastSkills, PastDeploy, PastEnv, LateSkills,
              LastSteps, InitSteps, OpeningSteps, SwitchSteps
    <2>13. ServicesRead'
      BY <1>0, <1>1, <2>1, <2>2, <2>3, <2>4
      DEF ServicesRead, MayLag, Inits, PastRuntime, PastDeploy, PastEnv, LateSkills,
              LastSteps, RuntimeOf
    <2>14. SecretsSaved'
      BY <1>0, <1>1, <2>1, <2>2, <2>3, <2>4
      DEF SecretsSaved, PlacedSetup, OnItsWay, Inits, PastEnv, LateSkills, LastSteps
    <2>15. RuntimeChosen'
      BY <1>0, <1>1, <2>1, <2>2, <2>3, <2>4
      DEF RuntimeChosen, Inits, PastRuntime, PastDeploy, PastEnv, LateSkills, LastSteps,
              RuntimeOf
    <2> QED
      BY <2>10, <2>11, <2>12, <2>13, <2>14, <2>15 DEF SetupInv
  <1>2. ASSUME NEW p \in {"skills", "health", "gate"}, setup.at = "env",
               setup.kind = "switch" => p = "gate",
               setup.kind = "init" => p = IF setup.complete THEN "health" ELSE "skills",
               setup' = [setup EXCEPT !.at = p],
               ~(setup.selected = "claude" /\ setup.kind = "switch" /\ setup.key # "none"),
               ~(setup.selected = "claude" /\ setup.kind = "init" /\ setup.pending),
               secrets' = secrets,
               lost' = IF secrets'.env = secrets.settings THEN lost \ {"secrets"} ELSE lost,
               setupTroubles' = setupTroubles,
               UNCHANGED <<present, config, synced, ecosystem, instructions, status, running,
                           ready, chosen, setupsRun>>
        PROVE  SetupInv'
    <2>1. /\ setup' \in SetupRow /\ setup'.at = p /\ setup'.silent = setup.silent
          /\ setup'.kind = setup.kind /\ setup'.existing = setup.existing
          /\ setup'.selected = setup.selected /\ setup'.complete = setup.complete
          /\ setup'.key = setup.key /\ setup'.pending = setup.pending
          /\ setup'.authenticated = setup.authenticated
      BY <1>2, SetupFields, SetupGoes DEF Places, OpeningSteps, InitSteps, SwitchSteps
    <2>2. secrets' \in [settings : Keys, env : Keys] /\ lost' \in SUBSET Losable
      BY <1>0, <1>2, SetupFields DEF SetupRows
    <2>4. \/ setup.kind = "switch" /\ p = "gate" /\ ~setup.complete /\ ~setup.pending
          \/ setup.kind = "init" /\ setup.complete /\ p = "health"
          \/ setup.kind = "init" /\ ~setup.complete /\ p = "skills"
      BY <1>0, <1>2, SetupFields DEF PlacedSetup
    <2>10. SetupRows'
      BY <1>0, <1>2, <2>1, <2>2, <2>4
      DEF SetupRows, ConfigRow, Losable, Complete
    <2>11. PlacedSetup(setup)'
      BY <1>0, <1>2, <2>1, <2>2, <2>4
      DEF PlacedSetup, Inits, OpeningSteps, InitSteps, SwitchSteps, Unstarted
    <2>12. PartsThere'
      BY <1>0, <1>2, <2>1, <2>2, <2>4
      DEF PartsThere, PlacedSetup, Inits, PastDirs, PastSkills, PastDeploy, PastEnv, LateSkills,
              LastSteps, InitSteps, OpeningSteps, SwitchSteps
    <2>13. ServicesRead'
      BY <1>0, <1>2, <2>1, <2>2, <2>4
      DEF ServicesRead, MayLag, Inits, PastRuntime, PastDeploy, PastEnv, LateSkills,
              LastSteps, RuntimeOf
    <2>14. SecretsSaved'
      BY <1>0, <1>2, <2>1, <2>2, <2>4
      DEF SecretsSaved, PlacedSetup, OnItsWay, Inits, PastEnv, LateSkills, LastSteps
    <2>15. RuntimeChosen'
      BY <1>0, <1>2, <2>1, <2>2, <2>4
      DEF RuntimeChosen, Inits, PastRuntime, PastDeploy, PastEnv, LateSkills, LastSteps,
              RuntimeOf
    <2> QED
      BY <2>10, <2>11, <2>12, <2>13, <2>14, <2>15 DEF SetupInv
  <1>3. ASSUME NEW p \in {"skills", "health", "gate"}, setup.at = "env",
               setup.kind = "switch" => p = "gate",
               setup.kind = "init" => p = IF setup.complete THEN "health" ELSE "skills",
               setup' = [setup EXCEPT !.at = p],
               lost' = lost \cup {"secrets"}, secrets' = secrets,
               setupTroubles' \in 0..MaxSetupTroubles,
               UNCHANGED <<present, config, synced, ecosystem, instructions, status, running,
                           ready, chosen, setupsRun>>
        PROVE  SetupInv'
    <2>1. /\ setup' \in SetupRow /\ setup'.at = p /\ setup'.silent = setup.silent
          /\ setup'.kind = setup.kind /\ setup'.existing = setup.existing
          /\ setup'.selected = setup.selected /\ setup'.complete = setup.complete
          /\ setup'.key = setup.key /\ setup'.pending = setup.pending
          /\ setup'.authenticated = setup.authenticated
      BY <1>3, SetupFields, SetupGoes DEF Places, OpeningSteps, InitSteps, SwitchSteps
    <2>4. \/ setup.kind = "switch" /\ p = "gate" /\ ~setup.complete /\ ~setup.pending
          \/ setup.kind = "init" /\ setup.complete /\ p = "health"
          \/ setup.kind = "init" /\ ~setup.complete /\ p = "skills"
      BY <1>0, <1>3, SetupFields DEF PlacedSetup
    <2>10. SetupRows'
      BY <1>0, <1>3, <2>1, <2>4
      DEF SetupRows, ConfigRow, Losable, Complete
    <2>11. PlacedSetup(setup)'
      BY <1>0, <1>3, <2>1, <2>4
      DEF PlacedSetup, Inits, OpeningSteps, InitSteps, SwitchSteps, Unstarted
    <2>12. PartsThere'
      BY <1>0, <1>3, <2>1, <2>4
      DEF PartsThere, PlacedSetup, Inits, PastDirs, PastSkills, PastDeploy, PastEnv, LateSkills,
              LastSteps, InitSteps, OpeningSteps, SwitchSteps
    <2>13. ServicesRead'
      BY <1>0, <1>3, <2>1, <2>4
      DEF ServicesRead, MayLag, Inits, PastRuntime, PastDeploy, PastEnv, LateSkills,
              LastSteps, RuntimeOf
    <2>14. SecretsSaved'
      BY <1>0, <1>3, <2>1, <2>4
      DEF SecretsSaved, PlacedSetup, OnItsWay, Inits, PastEnv, LateSkills, LastSteps
    <2>15. RuntimeChosen'
      BY <1>0, <1>3, <2>1, <2>4
      DEF RuntimeChosen, Inits, PastRuntime, PastDeploy, PastEnv, LateSkills, LastSteps,
              RuntimeOf
    <2> QED
      BY <2>10, <2>11, <2>12, <2>13, <2>14, <2>15 DEF SetupInv
  <1> DEFINE p == IF setup.kind = "switch" THEN "gate"
                  ELSE IF setup.complete THEN "health" ELSE "skills"
  <1>4. /\ p \in {"skills", "health", "gate"} /\ setup.at = "env"
        /\ setup' = [setup EXCEPT !.at = p]
    BY <1>a, SetupFields DEF SaveEnv, At
  <1>5. /\ setup.kind = "switch" => p = "gate"
        /\ setup.kind = "init" => p = IF setup.complete THEN "health" ELSE "skills"
    BY SetupFields
  <1> DEFINE saves == /\ setup.selected = "claude"
                      /\ IF setup.kind = "switch" THEN setup.key # "none" ELSE setup.pending
  <1> HIDE DEF p
  <1>6. UNCHANGED <<present, config, synced, ecosystem, instructions, status, running, ready,
                    chosen, setupsRun>>
    BY DEF SaveEnv, Disk, Lasting
  <1>7. \/ /\ secrets' = IF saves THEN [secrets EXCEPT !.env = setup.key] ELSE secrets
           /\ lost' = IF secrets'.env = secrets.settings THEN lost \ {"secrets"} ELSE lost
           /\ setupTroubles' = setupTroubles
        \/ /\ lost' = lost \cup {"secrets"} /\ secrets' = secrets
           /\ setupTroubles' \in 0..MaxSetupTroubles
    BY TroubleCounts DEF SaveEnv, Smooth
  <1>8. CASE /\ saves /\ secrets' = [secrets EXCEPT !.env = setup.key]
             /\ lost' = IF secrets'.env = secrets.settings THEN lost \ {"secrets"} ELSE lost
             /\ setupTroubles' = setupTroubles
    BY <1>1, <1>4, <1>5, <1>6, <1>8, SetupFields
  <1>9. CASE /\ ~saves /\ secrets' = secrets
             /\ lost' = IF secrets'.env = secrets.settings THEN lost \ {"secrets"} ELSE lost
             /\ setupTroubles' = setupTroubles
    BY <1>2, <1>4, <1>5, <1>6, <1>9, SetupFields
  <1>10. CASE /\ lost' = lost \cup {"secrets"} /\ secrets' = secrets
              /\ setupTroubles' \in 0..MaxSetupTroubles
    BY <1>3, <1>4, <1>5, <1>6, <1>10
  <1> QED
    BY <1>7, <1>8, <1>9, <1>10

LEMMA SyncSkillsKeeps ==
    ASSUME SetupInv, SyncSkills
    PROVE  SetupInv'
  <1>a. ASSUME setup.at = "skills", Advance
        PROVE  /\ setup.complete => setup' = [setup EXCEPT !.at = "runtime"]
               /\ ~setup.complete => setup' = [setup EXCEPT !.at = "health"]
    BY <1>a, SetupFields, SetupIsPlaced, SwitchOrder, CompleteOrder, FreshOrder
    DEF Advance, PlacedSetup, Inits, OpeningSteps, InitSteps, SwitchSteps
  <1>0. /\ SetupRows /\ PlacedSetup(setup) /\ PartsThere /\ ServicesRead
        /\ SecretsSaved /\ RuntimeChosen
    BY DEF SetupInv
  <1>1. ASSUME NEW p \in {"runtime", "health"}, setup.at = "skills",
               p = IF setup.complete THEN "runtime" ELSE "health",
               setup' = [setup EXCEPT !.at = p],
               synced' = TRUE, UNCHANGED <<lost, setupTroubles>>,
               UNCHANGED <<present, config, ecosystem, instructions, secrets, status,
                           running, ready, chosen, setupsRun>>
        PROVE  SetupInv'
    <2>1. /\ setup' \in SetupRow /\ setup'.at = p /\ setup'.silent = setup.silent
          /\ setup'.kind = setup.kind /\ setup'.existing = setup.existing
          /\ setup'.selected = setup.selected /\ setup'.complete = setup.complete
          /\ setup'.key = setup.key /\ setup'.pending = setup.pending
          /\ setup'.authenticated = setup.authenticated
      BY <1>1, SetupFields, SetupGoes DEF Places, OpeningSteps, InitSteps, SwitchSteps
    <2>2. setup.kind = "init"
      BY <1>0, <1>1, SetupFields DEF PlacedSetup, Inits, OpeningSteps, InitSteps, SwitchSteps
    <2>10. SetupRows'
      BY <1>0, <1>1, <2>1, <2>2
      DEF SetupRows, ConfigRow, Losable, Complete
    <2>11. PlacedSetup(setup)'
      BY <1>0, <1>1, <2>1, <2>2
      DEF PlacedSetup, Inits, OpeningSteps, InitSteps, SwitchSteps, Unstarted
    <2>12. PartsThere'
      BY <1>0, <1>1, <2>1, <2>2
      DEF PartsThere, PlacedSetup, Inits, PastDirs, PastSkills, PastDeploy, PastEnv, LateSkills,
              LastSteps, InitSteps, OpeningSteps, SwitchSteps
    <2>13. ServicesRead'
      BY <1>0, <1>1, <2>1, <2>2
      DEF ServicesRead, MayLag, Inits, PastRuntime, PastDeploy, PastEnv, LateSkills,
              LastSteps, RuntimeOf
    <2>14. SecretsSaved'
      BY <1>0, <1>1, <2>1, <2>2
      DEF SecretsSaved, PlacedSetup, OnItsWay, Inits, PastEnv, LateSkills, LastSteps
    <2>15. RuntimeChosen'
      BY <1>0, <1>1, <2>1, <2>2
      DEF RuntimeChosen, Inits, PastRuntime, PastDeploy, PastEnv, LateSkills, LastSteps,
              RuntimeOf
    <2> QED
      BY <2>10, <2>11, <2>12, <2>13, <2>14, <2>15 DEF SetupInv
  <1>2. ASSUME NEW p \in {"runtime", "health"}, setup.at = "skills",
               p = IF setup.complete THEN "runtime" ELSE "health",
               setup' = [setup EXCEPT !.at = p],
               synced' = synced, lost' = lost \cup {"skills"},
               setupTroubles' \in 0..MaxSetupTroubles,
               UNCHANGED <<present, config, ecosystem, instructions, secrets, status,
                           running, ready, chosen, setupsRun>>
        PROVE  SetupInv'
    <2>1. /\ setup' \in SetupRow /\ setup'.at = p /\ setup'.silent = setup.silent
          /\ setup'.kind = setup.kind /\ setup'.existing = setup.existing
          /\ setup'.selected = setup.selected /\ setup'.complete = setup.complete
          /\ setup'.key = setup.key /\ setup'.pending = setup.pending
          /\ setup'.authenticated = setup.authenticated
      BY <1>2, SetupFields, SetupGoes DEF Places, OpeningSteps, InitSteps, SwitchSteps
    <2>2. setup.kind = "init"
      BY <1>0, <1>2, SetupFields DEF PlacedSetup, Inits, OpeningSteps, InitSteps, SwitchSteps
    <2>10. SetupRows'
      BY <1>0, <1>2, <2>1, <2>2
      DEF SetupRows, ConfigRow, Losable, Complete
    <2>11. PlacedSetup(setup)'
      BY <1>0, <1>2, <2>1, <2>2
      DEF PlacedSetup, Inits, OpeningSteps, InitSteps, SwitchSteps, Unstarted
    <2>12. PartsThere'
      BY <1>0, <1>2, <2>1, <2>2
      DEF PartsThere, PlacedSetup, Inits, PastDirs, PastSkills, PastDeploy, PastEnv, LateSkills,
              LastSteps, InitSteps, OpeningSteps, SwitchSteps
    <2>13. ServicesRead'
      BY <1>0, <1>2, <2>1, <2>2
      DEF ServicesRead, MayLag, Inits, PastRuntime, PastDeploy, PastEnv, LateSkills,
              LastSteps, RuntimeOf
    <2>14. SecretsSaved'
      BY <1>0, <1>2, <2>1, <2>2
      DEF SecretsSaved, PlacedSetup, OnItsWay, Inits, PastEnv, LateSkills, LastSteps
    <2>15. RuntimeChosen'
      BY <1>0, <1>2, <2>1, <2>2
      DEF RuntimeChosen, Inits, PastRuntime, PastDeploy, PastEnv, LateSkills, LastSteps,
              RuntimeOf
    <2> QED
      BY <2>10, <2>11, <2>12, <2>13, <2>14, <2>15 DEF SetupInv
  <1> DEFINE p == IF setup.complete THEN "runtime" ELSE "health"
  <1>3. /\ p \in {"runtime", "health"} /\ setup.at = "skills"
        /\ setup' = [setup EXCEPT !.at = p]
    BY <1>a, SetupFields DEF SyncSkills, At
  <1>4. p = IF setup.complete THEN "runtime" ELSE "health"
    OBVIOUS
  <1> HIDE DEF p
  <1> QED
    BY <1>1, <1>2, <1>3, <1>4, TroubleCounts DEF SyncSkills, Lasting, Smooth

LEMMA ClearHealthKeeps ==
    ASSUME SetupInv, ClearHealth
    PROVE  SetupInv'
  <1>a. ASSUME setup.at = "health", Advance
        PROVE  /\ setup.kind = "init" => setup' = [setup EXCEPT !.at = "delete"]
               /\ setup.kind = "switch" => setup' = [setup EXCEPT !.at = "monitor"]
    BY <1>a, SetupFields, SetupIsPlaced, SwitchOrder, CompleteOrder, FreshOrder
    DEF Advance, PlacedSetup, Inits, OpeningSteps, InitSteps, SwitchSteps
  <1>0. /\ SetupRows /\ PlacedSetup(setup) /\ PartsThere /\ ServicesRead
        /\ SecretsSaved /\ RuntimeChosen
    BY DEF SetupInv
  <1>1. ASSUME setup.kind = "init", status' \in {status, "none"},
               setup.at = "health", setup' = [setup EXCEPT !.at = "delete"],
               UNCHANGED <<present, config, synced, ecosystem, instructions,
                           secrets, running, lost, ready, chosen, setupsRun, setupTroubles>>
        PROVE  SetupInv'
    <2>1. /\ setup' \in SetupRow /\ setup'.at = "delete" /\ setup'.silent = setup.silent
          /\ setup'.kind = setup.kind /\ setup'.existing = setup.existing
          /\ setup'.selected = setup.selected /\ setup'.complete = setup.complete
          /\ setup'.key = setup.key /\ setup'.pending = setup.pending
          /\ setup'.authenticated = setup.authenticated
      BY <1>1, SetupFields, SetupGoes DEF Places, OpeningSteps, InitSteps, SwitchSteps
    <2>10. SetupRows'
      BY <1>0, <1>1, <2>1
      DEF SetupRows, ConfigRow, Losable, Complete
    <2>11. PlacedSetup(setup)'
      BY <1>0, <1>1, <2>1
      DEF PlacedSetup, Inits, OpeningSteps, InitSteps, SwitchSteps, Unstarted
    <2>12. PartsThere'
      BY <1>0, <1>1, <2>1
      DEF PartsThere, PlacedSetup, Inits, PastDirs, PastSkills, PastDeploy, PastEnv, LateSkills,
              LastSteps, InitSteps, OpeningSteps, SwitchSteps
    <2>13. ServicesRead'
      BY <1>0, <1>1, <2>1
      DEF ServicesRead, MayLag, Inits, PastRuntime, PastDeploy, PastEnv, LateSkills,
              LastSteps, RuntimeOf
    <2>14. SecretsSaved'
      BY <1>0, <1>1, <2>1
      DEF SecretsSaved, PlacedSetup, OnItsWay, Inits, PastEnv, LateSkills, LastSteps
    <2>15. RuntimeChosen'
      BY <1>0, <1>1, <2>1
      DEF RuntimeChosen, Inits, PastRuntime, PastDeploy, PastEnv, LateSkills, LastSteps,
              RuntimeOf
    <2> QED
      BY <2>10, <2>11, <2>12, <2>13, <2>14, <2>15 DEF SetupInv
  <1>2. ASSUME setup.kind = "switch", status' \in {status, "none"},
               setup.at = "health", setup' = [setup EXCEPT !.at = "monitor"],
               UNCHANGED <<present, config, synced, ecosystem, instructions,
                           secrets, running, lost, ready, chosen, setupsRun, setupTroubles>>
        PROVE  SetupInv'
    <2>1. /\ setup' \in SetupRow /\ setup'.at = "monitor" /\ setup'.silent = setup.silent
          /\ setup'.kind = setup.kind /\ setup'.existing = setup.existing
          /\ setup'.selected = setup.selected /\ setup'.complete = setup.complete
          /\ setup'.key = setup.key /\ setup'.pending = setup.pending
          /\ setup'.authenticated = setup.authenticated
      BY <1>2, SetupFields, SetupGoes DEF Places, OpeningSteps, InitSteps, SwitchSteps
    <2>10. SetupRows'
      BY <1>0, <1>2, <2>1
      DEF SetupRows, ConfigRow, Losable, Complete
    <2>11. PlacedSetup(setup)'
      BY <1>0, <1>2, <2>1
      DEF PlacedSetup, Inits, OpeningSteps, InitSteps, SwitchSteps, Unstarted
    <2>12. PartsThere'
      BY <1>0, <1>2, <2>1
      DEF PartsThere, PlacedSetup, Inits, PastDirs, PastSkills, PastDeploy, PastEnv, LateSkills,
              LastSteps, InitSteps, OpeningSteps, SwitchSteps
    <2>13. ServicesRead'
      BY <1>0, <1>2, <2>1
      DEF ServicesRead, MayLag, Inits, PastRuntime, PastDeploy, PastEnv, LateSkills,
              LastSteps, RuntimeOf
    <2>14. SecretsSaved'
      BY <1>0, <1>2, <2>1
      DEF SecretsSaved, PlacedSetup, OnItsWay, Inits, PastEnv, LateSkills, LastSteps
    <2>15. RuntimeChosen'
      BY <1>0, <1>2, <2>1
      DEF RuntimeChosen, Inits, PastRuntime, PastDeploy, PastEnv, LateSkills, LastSteps,
              RuntimeOf
    <2> QED
      BY <2>10, <2>11, <2>12, <2>13, <2>14, <2>15 DEF SetupInv
  <1> QED
    BY <1>1, <1>2, <1>a, SetupFields DEF ClearHealth, At, Lasting, Smooth, Disk

LEMMA LaunchedIs ==
    ASSUME SetupInv
    PROVE  /\ RuntimeOf(config) \in AgentRuntimes
           /\ Launched \in {"stopped", RuntimeOf(config)}
           /\ running \in [CoreServices -> AgentRuntimes \cup {"stopped"}]
  BY DEF SetupInv, SetupRows, ConfigRow, RuntimeOf, Launched, AgentRuntimes

LEMMA DeleteServicesKeeps ==
    ASSUME SetupInv, DeleteServices
    PROVE  SetupInv'
  <1>a. ASSUME setup.at = "delete", Advance
        PROVE  /\ setup' = [setup EXCEPT !.at = "start"]
    BY <1>a, SetupFields, SetupIsPlaced, SwitchOrder, CompleteOrder, FreshOrder
    DEF Advance, PlacedSetup, Inits, OpeningSteps, InitSteps, SwitchSteps
  <1>0. /\ SetupRows /\ PlacedSetup(setup) /\ PartsThere /\ ServicesRead
        /\ SecretsSaved /\ RuntimeChosen
    BY DEF SetupInv
  <1>1. ASSUME running' = [x \in CoreServices |-> "stopped"], UNCHANGED <<lost, setupTroubles>>,
               setup.at = "delete", setup' = [setup EXCEPT !.at = "start"],
               UNCHANGED <<present, config, synced, ecosystem, instructions,
                           secrets, status, ready, chosen, setupsRun>>
        PROVE  SetupInv'
    <2>1. /\ setup' \in SetupRow /\ setup'.at = "start" /\ setup'.silent = setup.silent
          /\ setup'.kind = setup.kind /\ setup'.existing = setup.existing
          /\ setup'.selected = setup.selected /\ setup'.complete = setup.complete
          /\ setup'.key = setup.key /\ setup'.pending = setup.pending
          /\ setup'.authenticated = setup.authenticated
      BY <1>1, SetupFields, SetupGoes DEF Places, OpeningSteps, InitSteps, SwitchSteps
    <2>2. setup.kind = "init"
      BY <1>0, <1>1, SetupFields DEF PlacedSetup, Inits, OpeningSteps, InitSteps, SwitchSteps
    <2>3. running' \in [CoreServices -> AgentRuntimes \cup {"stopped"}]
      BY <1>0, <1>1, LaunchedIs DEF CoreServices, AgentRuntimes
    <2>10. SetupRows'
      BY <1>0, <1>1, <2>1, <2>2, <2>3
      DEF SetupRows, ConfigRow, Losable, Complete
    <2>11. PlacedSetup(setup)'
      BY <1>0, <1>1, <2>1, <2>2, <2>3
      DEF PlacedSetup, Inits, OpeningSteps, InitSteps, SwitchSteps, Unstarted
    <2>12. PartsThere'
      BY <1>0, <1>1, <2>1, <2>2, <2>3
      DEF PartsThere, PlacedSetup, Inits, PastDirs, PastSkills, PastDeploy, PastEnv, LateSkills,
              LastSteps, InitSteps, OpeningSteps, SwitchSteps
    <2>13. ServicesRead'
      BY <1>0, <1>1, <2>1, <2>2, <2>3
      DEF ServicesRead, MayLag, Inits, PastRuntime, PastDeploy, PastEnv, LateSkills,
              LastSteps, RuntimeOf
    <2>14. SecretsSaved'
      BY <1>0, <1>1, <2>1, <2>2, <2>3
      DEF SecretsSaved, PlacedSetup, OnItsWay, Inits, PastEnv, LateSkills, LastSteps
    <2>15. RuntimeChosen'
      BY <1>0, <1>1, <2>1, <2>2, <2>3
      DEF RuntimeChosen, Inits, PastRuntime, PastDeploy, PastEnv, LateSkills, LastSteps,
              RuntimeOf
    <2> QED
      BY <2>10, <2>11, <2>12, <2>13, <2>14, <2>15 DEF SetupInv
  <1>2. setup.at = "delete" /\ setup.kind = "init"
    BY <1>0, SetupFields DEF DeleteServices, At, PlacedSetup, SwitchSteps
  <1>3. ecosystem
    BY <1>0, <1>2 DEF PartsThere, PastDeploy, PastEnv, Inits, LastSteps
  <1> QED
    BY <1>a, <1>1, <1>2, <1>3 DEF DeleteServices, Lasting, Smooth, Disk

LEMMA StartServicesKeeps ==
    ASSUME SetupInv, StartServices
    PROVE  SetupInv'
  <1>a. ASSUME setup.at = "start", Advance
        PROVE  /\ setup' = [setup EXCEPT !.at = "bypass"]
    BY <1>a, SetupFields, SetupIsPlaced, SwitchOrder, CompleteOrder, FreshOrder
    DEF Advance, PlacedSetup, Inits, OpeningSteps, InitSteps, SwitchSteps
  <1>0. /\ SetupRows /\ PlacedSetup(setup) /\ PartsThere /\ ServicesRead
        /\ SecretsSaved /\ RuntimeChosen
    BY DEF SetupInv
  <1>1. ASSUME running' = [x \in CoreServices |-> Launched], lost' = lost \ {"services"},
               UNCHANGED setupTroubles,
               setup.at = "start", setup' = [setup EXCEPT !.at = "bypass"],
               UNCHANGED <<present, config, synced, ecosystem, instructions,
                           secrets, status, ready, chosen, setupsRun>>
        PROVE  SetupInv'
    <2>1. /\ setup' \in SetupRow /\ setup'.at = "bypass" /\ setup'.silent = setup.silent
          /\ setup'.kind = setup.kind /\ setup'.existing = setup.existing
          /\ setup'.selected = setup.selected /\ setup'.complete = setup.complete
          /\ setup'.key = setup.key /\ setup'.pending = setup.pending
          /\ setup'.authenticated = setup.authenticated
      BY <1>1, SetupFields, SetupGoes DEF Places, OpeningSteps, InitSteps, SwitchSteps
    <2>2. setup.kind = "init"
      BY <1>0, <1>1, SetupFields DEF PlacedSetup, Inits, OpeningSteps, InitSteps, SwitchSteps
    <2>3. running' \in [CoreServices -> AgentRuntimes \cup {"stopped"}]
      BY <1>0, <1>1, LaunchedIs DEF CoreServices, AgentRuntimes
    <2>4. ecosystem
      BY <1>0, <1>1, <2>2 DEF PartsThere, PastDeploy, PastEnv, Inits, LastSteps
    <2>5. \A x \in CoreServices : running'[x] \in {"stopped", RuntimeOf(config)}
      BY <1>1, LaunchedIs
    <2>10. SetupRows'
      BY <1>0, <1>1, <2>1, <2>2, <2>3, <2>4, <2>5
      DEF SetupRows, ConfigRow, Losable, Complete
    <2>11. PlacedSetup(setup)'
      BY <1>0, <1>1, <2>1, <2>2, <2>3, <2>4, <2>5
      DEF PlacedSetup, Inits, OpeningSteps, InitSteps, SwitchSteps, Unstarted
    <2>12. PartsThere'
      BY <1>0, <1>1, <2>1, <2>2, <2>3, <2>4, <2>5
      DEF PartsThere, PlacedSetup, Inits, PastDirs, PastSkills, PastDeploy, PastEnv, LateSkills,
              LastSteps, InitSteps, OpeningSteps, SwitchSteps
    <2>13. ServicesRead'
      BY <1>0, <1>1, <2>1, <2>2, <2>3, <2>4, <2>5
      DEF ServicesRead, MayLag, Inits, PastRuntime, PastDeploy, PastEnv, LateSkills,
              LastSteps, RuntimeOf
    <2>14. SecretsSaved'
      BY <1>0, <1>1, <2>1, <2>2, <2>3, <2>4, <2>5
      DEF SecretsSaved, PlacedSetup, OnItsWay, Inits, PastEnv, LateSkills, LastSteps
    <2>15. RuntimeChosen'
      BY <1>0, <1>1, <2>1, <2>2, <2>3, <2>4, <2>5
      DEF RuntimeChosen, Inits, PastRuntime, PastDeploy, PastEnv, LateSkills, LastSteps,
              RuntimeOf
    <2> QED
      BY <2>10, <2>11, <2>12, <2>13, <2>14, <2>15 DEF SetupInv
  <1>2. ASSUME UNCHANGED running, lost' = lost \cup {"services"},
     setupTroubles' \in 0..MaxSetupTroubles,
               setup.at = "start", setup' = [setup EXCEPT !.at = "bypass"],
               UNCHANGED <<present, config, synced, ecosystem, instructions,
                           secrets, status, ready, chosen, setupsRun>>
        PROVE  SetupInv'
    <2>1. /\ setup' \in SetupRow /\ setup'.at = "bypass" /\ setup'.silent = setup.silent
          /\ setup'.kind = setup.kind /\ setup'.existing = setup.existing
          /\ setup'.selected = setup.selected /\ setup'.complete = setup.complete
          /\ setup'.key = setup.key /\ setup'.pending = setup.pending
          /\ setup'.authenticated = setup.authenticated
      BY <1>2, SetupFields, SetupGoes DEF Places, OpeningSteps, InitSteps, SwitchSteps
    <2>2. setup.kind = "init"
      BY <1>0, <1>2, SetupFields DEF PlacedSetup, Inits, OpeningSteps, InitSteps, SwitchSteps
    <2>10. SetupRows'
      BY <1>0, <1>2, <2>1, <2>2
      DEF SetupRows, ConfigRow, Losable, Complete
    <2>11. PlacedSetup(setup)'
      BY <1>0, <1>2, <2>1, <2>2
      DEF PlacedSetup, Inits, OpeningSteps, InitSteps, SwitchSteps, Unstarted
    <2>12. PartsThere'
      BY <1>0, <1>2, <2>1, <2>2
      DEF PartsThere, PlacedSetup, Inits, PastDirs, PastSkills, PastDeploy, PastEnv, LateSkills,
              LastSteps, InitSteps, OpeningSteps, SwitchSteps
    <2>13. ServicesRead'
      BY <1>0, <1>2, <2>1, <2>2
      DEF ServicesRead, MayLag, Inits, PastRuntime, PastDeploy, PastEnv, LateSkills,
              LastSteps, RuntimeOf
    <2>14. SecretsSaved'
      BY <1>0, <1>2, <2>1, <2>2
      DEF SecretsSaved, PlacedSetup, OnItsWay, Inits, PastEnv, LateSkills, LastSteps
    <2>15. RuntimeChosen'
      BY <1>0, <1>2, <2>1, <2>2
      DEF RuntimeChosen, Inits, PastRuntime, PastDeploy, PastEnv, LateSkills, LastSteps,
              RuntimeOf
    <2> QED
      BY <2>10, <2>11, <2>12, <2>13, <2>14, <2>15 DEF SetupInv
  <1> QED
    BY <1>1, <1>2, <1>a, TroubleCounts DEF StartServices, At, Lasting, Smooth, Disk

LEMMA GuideBypassKeeps ==
    ASSUME SetupInv, GuideBypass
    PROVE  SetupInv'
  <1>0. /\ SetupRows /\ PlacedSetup(setup) /\ PartsThere /\ ServicesRead
        /\ SecretsSaved /\ RuntimeChosen
    BY DEF SetupInv
  <1>1. ASSUME running' = [running EXCEPT !["monitor"] = "stopped"],
               setup.at = "bypass", setup' = [setup EXCEPT !.at = "accept"],
               UNCHANGED <<present, config, synced, ecosystem, instructions,
                           secrets, status, lost, ready, chosen, setupsRun, setupTroubles>>
        PROVE  SetupInv'
    <2>1. /\ setup' \in SetupRow /\ setup'.at = "accept" /\ setup'.silent = setup.silent
          /\ setup'.kind = setup.kind /\ setup'.existing = setup.existing
          /\ setup'.selected = setup.selected /\ setup'.complete = setup.complete
          /\ setup'.key = setup.key /\ setup'.pending = setup.pending
          /\ setup'.authenticated = setup.authenticated
      BY <1>1, SetupFields, SetupGoes DEF Places, OpeningSteps, InitSteps, SwitchSteps
    <2>2. setup.kind = "init"
      BY <1>0, <1>1, SetupFields DEF PlacedSetup, Inits, OpeningSteps, InitSteps, SwitchSteps
    <2>3. running' \in [CoreServices -> AgentRuntimes \cup {"stopped"}]
      BY <1>0, <1>1, LaunchedIs DEF CoreServices, AgentRuntimes
    <2>4. ecosystem
      BY <1>0, <1>1, <2>2 DEF PartsThere, PastDeploy, PastEnv, Inits, LastSteps
    <2>5. \A x \in CoreServices : running'[x] \in {"stopped", running[x], RuntimeOf(config)}
      BY <1>1, LaunchedIs
    <2>10. SetupRows'
      BY <1>0, <1>1, <2>1, <2>2, <2>3, <2>4, <2>5
      DEF SetupRows, ConfigRow, Losable, Complete
    <2>11. PlacedSetup(setup)'
      BY <1>0, <1>1, <2>1, <2>2, <2>3, <2>4, <2>5
      DEF PlacedSetup, Inits, OpeningSteps, InitSteps, SwitchSteps, Unstarted
    <2>12. PartsThere'
      BY <1>0, <1>1, <2>1, <2>2, <2>3, <2>4, <2>5
      DEF PartsThere, PlacedSetup, Inits, PastDirs, PastSkills, PastDeploy, PastEnv, LateSkills,
              LastSteps, InitSteps, OpeningSteps, SwitchSteps
    <2>13. ServicesRead'
      BY <1>0, <1>1, <2>1, <2>2, <2>3, <2>4, <2>5
      DEF ServicesRead, MayLag, Inits, PastRuntime, PastDeploy, PastEnv, LateSkills,
              LastSteps, RuntimeOf
    <2>14. SecretsSaved'
      BY <1>0, <1>1, <2>1, <2>2, <2>3, <2>4, <2>5
      DEF SecretsSaved, PlacedSetup, OnItsWay, Inits, PastEnv, LateSkills, LastSteps
    <2>15. RuntimeChosen'
      BY <1>0, <1>1, <2>1, <2>2, <2>3, <2>4, <2>5
      DEF RuntimeChosen, Inits, PastRuntime, PastDeploy, PastEnv, LateSkills, LastSteps,
              RuntimeOf
    <2> QED
      BY <2>10, <2>11, <2>12, <2>13, <2>14, <2>15 DEF SetupInv
  <1>2. ASSUME UNCHANGED running,
               setup.at = "bypass", setup' = [setup EXCEPT !.at = "end"],
               UNCHANGED <<present, config, synced, ecosystem, instructions,
                           secrets, status, lost, ready, chosen, setupsRun, setupTroubles>>
        PROVE  SetupInv'
    <2>1. /\ setup' \in SetupRow /\ setup'.at = "end" /\ setup'.silent = setup.silent
          /\ setup'.kind = setup.kind /\ setup'.existing = setup.existing
          /\ setup'.selected = setup.selected /\ setup'.complete = setup.complete
          /\ setup'.key = setup.key /\ setup'.pending = setup.pending
          /\ setup'.authenticated = setup.authenticated
      BY <1>2, SetupFields, SetupGoes DEF Places, OpeningSteps, InitSteps, SwitchSteps
    <2>2. setup.kind = "init"
      BY <1>0, <1>2, SetupFields DEF PlacedSetup, Inits, OpeningSteps, InitSteps, SwitchSteps
    <2>10. SetupRows'
      BY <1>0, <1>2, <2>1, <2>2
      DEF SetupRows, ConfigRow, Losable, Complete
    <2>11. PlacedSetup(setup)'
      BY <1>0, <1>2, <2>1, <2>2
      DEF PlacedSetup, Inits, OpeningSteps, InitSteps, SwitchSteps, Unstarted
    <2>12. PartsThere'
      BY <1>0, <1>2, <2>1, <2>2
      DEF PartsThere, PlacedSetup, Inits, PastDirs, PastSkills, PastDeploy, PastEnv, LateSkills,
              LastSteps, InitSteps, OpeningSteps, SwitchSteps
    <2>13. ServicesRead'
      BY <1>0, <1>2, <2>1, <2>2
      DEF ServicesRead, MayLag, Inits, PastRuntime, PastDeploy, PastEnv, LateSkills,
              LastSteps, RuntimeOf
    <2>14. SecretsSaved'
      BY <1>0, <1>2, <2>1, <2>2
      DEF SecretsSaved, PlacedSetup, OnItsWay, Inits, PastEnv, LateSkills, LastSteps
    <2>15. RuntimeChosen'
      BY <1>0, <1>2, <2>1, <2>2
      DEF RuntimeChosen, Inits, PastRuntime, PastDeploy, PastEnv, LateSkills, LastSteps,
              RuntimeOf
    <2> QED
      BY <2>10, <2>11, <2>12, <2>13, <2>14, <2>15 DEF SetupInv
  <1> QED
    BY <1>1, <1>2 DEF GuideBypass, At, Lasting, Smooth, Disk

LEMMA AcceptBypassKeeps ==
    ASSUME SetupInv, AcceptBypass
    PROVE  SetupInv'
  <1>0. /\ SetupRows /\ PlacedSetup(setup) /\ PartsThere /\ ServicesRead
        /\ SecretsSaved /\ RuntimeChosen
    BY DEF SetupInv
  <1>1. ASSUME NEW l \in {"stopped", Launched}, running' = [running EXCEPT !["monitor"] = l],
               setup.at = "accept", setup' = [setup EXCEPT !.at = "end"],
               UNCHANGED <<present, config, synced, ecosystem, instructions,
                           secrets, status, lost, ready, chosen, setupsRun, setupTroubles>>
        PROVE  SetupInv'
    <2>1. /\ setup' \in SetupRow /\ setup'.at = "end" /\ setup'.silent = setup.silent
          /\ setup'.kind = setup.kind /\ setup'.existing = setup.existing
          /\ setup'.selected = setup.selected /\ setup'.complete = setup.complete
          /\ setup'.key = setup.key /\ setup'.pending = setup.pending
          /\ setup'.authenticated = setup.authenticated
      BY <1>1, SetupFields, SetupGoes DEF Places, OpeningSteps, InitSteps, SwitchSteps
    <2>2. setup.kind = "init"
      BY <1>0, <1>1, SetupFields DEF PlacedSetup, Inits, OpeningSteps, InitSteps, SwitchSteps
    <2>3. running' \in [CoreServices -> AgentRuntimes \cup {"stopped"}]
      BY <1>0, <1>1, LaunchedIs DEF CoreServices, AgentRuntimes
    <2>4. ecosystem
      BY <1>0, <1>1, <2>2 DEF PartsThere, PastDeploy, PastEnv, Inits, LastSteps
    <2>5. \A x \in CoreServices : running'[x] \in {"stopped", running[x], RuntimeOf(config)}
      BY <1>1, LaunchedIs
    <2>10. SetupRows'
      BY <1>0, <1>1, <2>1, <2>2, <2>3, <2>4, <2>5
      DEF SetupRows, ConfigRow, Losable, Complete
    <2>11. PlacedSetup(setup)'
      BY <1>0, <1>1, <2>1, <2>2, <2>3, <2>4, <2>5
      DEF PlacedSetup, Inits, OpeningSteps, InitSteps, SwitchSteps, Unstarted
    <2>12. PartsThere'
      BY <1>0, <1>1, <2>1, <2>2, <2>3, <2>4, <2>5
      DEF PartsThere, PlacedSetup, Inits, PastDirs, PastSkills, PastDeploy, PastEnv, LateSkills,
              LastSteps, InitSteps, OpeningSteps, SwitchSteps
    <2>13. ServicesRead'
      BY <1>0, <1>1, <2>1, <2>2, <2>3, <2>4, <2>5
      DEF ServicesRead, MayLag, Inits, PastRuntime, PastDeploy, PastEnv, LateSkills,
              LastSteps, RuntimeOf
    <2>14. SecretsSaved'
      BY <1>0, <1>1, <2>1, <2>2, <2>3, <2>4, <2>5
      DEF SecretsSaved, PlacedSetup, OnItsWay, Inits, PastEnv, LateSkills, LastSteps
    <2>15. RuntimeChosen'
      BY <1>0, <1>1, <2>1, <2>2, <2>3, <2>4, <2>5
      DEF RuntimeChosen, Inits, PastRuntime, PastDeploy, PastEnv, LateSkills, LastSteps,
              RuntimeOf
    <2> QED
      BY <2>10, <2>11, <2>12, <2>13, <2>14, <2>15 DEF SetupInv
  <1> QED
    BY <1>1 DEF AcceptBypass, At, Lasting, Smooth, Disk

LEMMA AuthGateKeeps ==
    ASSUME SetupInv, AuthGate
    PROVE  SetupInv'
  <1>a. ASSUME setup.at = "gate", Advance
        PROVE  /\ setup' = [setup EXCEPT !.at = "runtime"]
    BY <1>a, SetupFields, SetupIsPlaced, SwitchOrder, CompleteOrder, FreshOrder
    DEF Advance, PlacedSetup, Inits, OpeningSteps, InitSteps, SwitchSteps
  <1>0. /\ SetupRows /\ PlacedSetup(setup) /\ PartsThere /\ ServicesRead
        /\ SecretsSaved /\ RuntimeChosen
    BY DEF SetupInv
  <1>1. ASSUME setup.at = "gate", setup' = [setup EXCEPT !.at = "runtime"],
               UNCHANGED <<present, config, synced, ecosystem, instructions,
                           secrets, status, running, lost, ready, chosen, setupsRun,
                              setupTroubles>>
        PROVE  SetupInv'
    <2>1. /\ setup' \in SetupRow /\ setup'.at = "runtime" /\ setup'.silent = setup.silent
          /\ setup'.kind = setup.kind /\ setup'.existing = setup.existing
          /\ setup'.selected = setup.selected /\ setup'.complete = setup.complete
          /\ setup'.key = setup.key /\ setup'.pending = setup.pending
          /\ setup'.authenticated = setup.authenticated
      BY <1>1, SetupFields, SetupGoes DEF Places, OpeningSteps, InitSteps, SwitchSteps
    <2>2. setup.kind = "switch"
      BY <1>0, <1>1, SetupFields DEF PlacedSetup, Inits, OpeningSteps, InitSteps, SwitchSteps
    <2>10. SetupRows'
      BY <1>0, <1>1, <2>1, <2>2
      DEF SetupRows, ConfigRow, Losable, Complete
    <2>11. PlacedSetup(setup)'
      BY <1>0, <1>1, <2>1, <2>2
      DEF PlacedSetup, Inits, OpeningSteps, InitSteps, SwitchSteps, Unstarted
    <2>12. PartsThere'
      BY <1>0, <1>1, <2>1, <2>2
      DEF PartsThere, PlacedSetup, Inits, PastDirs, PastSkills, PastDeploy, PastEnv, LateSkills,
              LastSteps, InitSteps, OpeningSteps, SwitchSteps
    <2>13. ServicesRead'
      BY <1>0, <1>1, <2>1, <2>2
      DEF ServicesRead, MayLag, Inits, PastRuntime, PastDeploy, PastEnv, LateSkills,
              LastSteps, RuntimeOf
    <2>14. SecretsSaved'
      BY <1>0, <1>1, <2>1, <2>2
      DEF SecretsSaved, PlacedSetup, OnItsWay, Inits, PastEnv, LateSkills, LastSteps
    <2>15. RuntimeChosen'
      BY <1>0, <1>1, <2>1, <2>2
      DEF RuntimeChosen, Inits, PastRuntime, PastDeploy, PastEnv, LateSkills, LastSteps,
              RuntimeOf
    <2> QED
      BY <2>10, <2>11, <2>12, <2>13, <2>14, <2>15 DEF SetupInv
  <1>2. ASSUME setup.at = "gate", Leaves,
               UNCHANGED <<present, config, synced, ecosystem, instructions,
                           secrets, status, running, lost, ready, chosen, setupsRun,
                              setupTroubles>>
        PROVE  SetupInv'
    <2>1. /\ setup' \in SetupRow /\ setup' = Unstarted /\ setup'.at = "idle"
          /\ setup'.kind = "init" /\ ~setup'.pending /\ ~setup'.complete
      BY <1>2, UnstartedRow DEF Leaves
    <2>2. setup.kind = "switch"
      BY <1>0, <1>2, SetupFields DEF PlacedSetup, Inits, OpeningSteps, InitSteps, SwitchSteps
    <2>10. SetupRows'
      BY <1>0, <1>2, <2>1, <2>2
      DEF SetupRows, ConfigRow, Losable, Complete
    <2>11. PlacedSetup(setup)'
      BY <1>0, <1>2, <2>1, <2>2
      DEF PlacedSetup, Inits, OpeningSteps, InitSteps, SwitchSteps, Unstarted
    <2>12. PartsThere'
      BY <1>0, <1>2, <2>1, <2>2
      DEF PartsThere, PlacedSetup, Inits, PastDirs, PastSkills, PastDeploy, PastEnv, LateSkills,
              LastSteps, InitSteps, OpeningSteps, SwitchSteps
    <2>13. ServicesRead'
      BY <1>0, <1>2, <2>1, <2>2
      DEF ServicesRead, MayLag, Inits, PastRuntime, PastDeploy, PastEnv, LateSkills,
              LastSteps, RuntimeOf
    <2>14. SecretsSaved'
      BY <1>0, <1>2, <2>1, <2>2
      DEF SecretsSaved, PlacedSetup, OnItsWay, Inits, PastEnv, LateSkills, LastSteps
    <2>15. RuntimeChosen'
      BY <1>0, <1>2, <2>1, <2>2
      DEF RuntimeChosen, Inits, PastRuntime, PastDeploy, PastEnv, LateSkills, LastSteps,
              RuntimeOf
    <2> QED
      BY <2>10, <2>11, <2>12, <2>13, <2>14, <2>15 DEF SetupInv
  <1> QED
    BY <1>1, <1>2, <1>a DEF AuthGate, At, Lasting, Smooth, Disk

LEMMA RestartServiceKeeps ==
    ASSUME SetupInv, RestartService
    PROVE  SetupInv'
  <1>a. ASSUME setup.at = "monitor", Advance
        PROVE  /\ setup' = [setup EXCEPT !.at = "dispatcher"]
    BY <1>a, SetupFields, SetupIsPlaced, SwitchOrder, CompleteOrder, FreshOrder
    DEF Advance, PlacedSetup, Inits, OpeningSteps, InitSteps, SwitchSteps
  <1>b. ASSUME setup.at = "dispatcher", Advance
        PROVE  /\ setup' = [setup EXCEPT !.at = "end"]
    BY <1>b, SetupFields, SetupIsPlaced, SwitchOrder, CompleteOrder, FreshOrder
    DEF Advance, PlacedSetup, Inits, OpeningSteps, InitSteps, SwitchSteps
  <1>0. /\ SetupRows /\ PlacedSetup(setup) /\ PartsThere /\ ServicesRead
        /\ SecretsSaved /\ RuntimeChosen
    BY DEF SetupInv
  <1>1. ASSUME NEW x \in CoreServices, setup.at = x, NEW p \in {"dispatcher", "end"},
               p = IF x = "monitor" THEN "dispatcher" ELSE "end",
               setup' = [setup EXCEPT !.at = p],
               running' = [running EXCEPT ![x] = IF ecosystem THEN Launched ELSE @],
               UNCHANGED <<lost, setupTroubles>>,
               UNCHANGED <<present, config, synced, ecosystem, instructions,
                           secrets, status, ready, chosen, setupsRun>>
        PROVE  SetupInv'
    <2>1. /\ setup' \in SetupRow /\ setup'.at = p /\ setup'.silent = setup.silent
          /\ setup'.kind = setup.kind /\ setup'.existing = setup.existing
          /\ setup'.selected = setup.selected /\ setup'.complete = setup.complete
          /\ setup'.key = setup.key /\ setup'.pending = setup.pending
          /\ setup'.authenticated = setup.authenticated
      BY <1>1, SetupFields, SetupGoes DEF Places, OpeningSteps, InitSteps, SwitchSteps
    <2>2. setup.kind = "switch"
      BY <1>0, <1>1, SetupFields DEF PlacedSetup, Inits, OpeningSteps, InitSteps, CoreServices
    <2>3. running' \in [CoreServices -> AgentRuntimes \cup {"stopped"}]
      BY <1>0, <1>1, LaunchedIs DEF CoreServices, AgentRuntimes
    <2>4. ecosystem \/ \A y \in CoreServices : running[y] = "stopped"
      BY <1>0 DEF PartsThere
    <2>5. /\ running'[x] \in {"stopped", RuntimeOf(config)}
          /\ \A y \in CoreServices \ {x} : running'[y] = running[y]
          /\ ~ecosystem => \A y \in CoreServices : running'[y] = "stopped"
      BY <1>1, <2>4, LaunchedIs
    <2>6. p = "dispatcher" => x = "monitor" /\ \A y \in CoreServices \ {x} : y = "dispatcher"
      BY <1>1 DEF CoreServices
    <2>7. p = "end" => x = "dispatcher" /\ \A y \in CoreServices \ {x} : y = "monitor"
      BY <1>1 DEF CoreServices
    <2>10. SetupRows'
      BY <1>0, <1>1, <2>1, <2>2, <2>3, <2>5, <2>6, <2>7
      DEF SetupRows, ConfigRow, Losable, Complete
    <2>11. PlacedSetup(setup)'
      BY <1>0, <1>1, <2>1, <2>2, <2>3, <2>5, <2>6, <2>7
      DEF PlacedSetup, Inits, OpeningSteps, InitSteps, SwitchSteps, Unstarted
    <2>12. PartsThere'
      BY <1>0, <1>1, <2>1, <2>2, <2>3, <2>5, <2>6, <2>7
      DEF PartsThere, PlacedSetup, Inits, PastDirs, PastSkills, PastDeploy, PastEnv, LateSkills,
              LastSteps, InitSteps, OpeningSteps, SwitchSteps
    <2>13. ServicesRead'
      BY <1>0, <1>1, <2>1, <2>2, <2>3, <2>5, <2>6, <2>7
      DEF ServicesRead, MayLag, Inits, PastRuntime, PastDeploy, PastEnv, LateSkills,
              LastSteps, RuntimeOf, CoreServices
    <2>14. SecretsSaved'
      BY <1>0, <1>1, <2>1, <2>2, <2>3, <2>5, <2>6, <2>7
      DEF SecretsSaved, PlacedSetup, OnItsWay, Inits, PastEnv, LateSkills, LastSteps
    <2>15. RuntimeChosen'
      BY <1>0, <1>1, <2>1, <2>2, <2>3, <2>5, <2>6, <2>7
      DEF RuntimeChosen, Inits, PastRuntime, PastDeploy, PastEnv, LateSkills, LastSteps,
              RuntimeOf, CoreServices
    <2> QED
      BY <2>10, <2>11, <2>12, <2>13, <2>14, <2>15 DEF SetupInv
  <1>2. ASSUME NEW x \in CoreServices, setup.at = x, NEW p \in {"dispatcher", "end"},
               p = IF x = "monitor" THEN "dispatcher" ELSE "end",
               setup' = [setup EXCEPT !.at = p],
               running' \in {running, [running EXCEPT ![x] = "stopped"]},
               lost' = lost \cup {"services"}, setupTroubles' \in 0..MaxSetupTroubles,
               UNCHANGED <<present, config, synced, ecosystem, instructions,
                           secrets, status, ready, chosen, setupsRun>>
        PROVE  SetupInv'
    <2>1. /\ setup' \in SetupRow /\ setup'.at = p /\ setup'.silent = setup.silent
          /\ setup'.kind = setup.kind /\ setup'.existing = setup.existing
          /\ setup'.selected = setup.selected /\ setup'.complete = setup.complete
          /\ setup'.key = setup.key /\ setup'.pending = setup.pending
          /\ setup'.authenticated = setup.authenticated
      BY <1>2, SetupFields, SetupGoes DEF Places, OpeningSteps, InitSteps, SwitchSteps
    <2>2. setup.kind = "switch"
      BY <1>0, <1>2, SetupFields DEF PlacedSetup, Inits, OpeningSteps, InitSteps, CoreServices
    <2>3. running' \in [CoreServices -> AgentRuntimes \cup {"stopped"}]
      BY <1>0, <1>2, LaunchedIs DEF CoreServices, AgentRuntimes
    <2>4. \A y \in CoreServices : running'[y] \in {"stopped", running[y]}
      BY <1>2, LaunchedIs
    <2>10. SetupRows'
      BY <1>0, <1>2, <2>1, <2>2, <2>3, <2>4
      DEF SetupRows, ConfigRow, Losable, Complete
    <2>11. PlacedSetup(setup)'
      BY <1>0, <1>2, <2>1, <2>2, <2>3, <2>4
      DEF PlacedSetup, Inits, OpeningSteps, InitSteps, SwitchSteps, Unstarted
    <2>12. PartsThere'
      BY <1>0, <1>2, <2>1, <2>2, <2>3, <2>4
      DEF PartsThere, PlacedSetup, Inits, PastDirs, PastSkills, PastDeploy, PastEnv, LateSkills,
              LastSteps, InitSteps, OpeningSteps, SwitchSteps
    <2>13. ServicesRead'
      BY <1>0, <1>2, <2>1, <2>2, <2>3, <2>4
      DEF ServicesRead, MayLag, Inits, PastRuntime, PastDeploy, PastEnv, LateSkills,
              LastSteps, RuntimeOf
    <2>14. SecretsSaved'
      BY <1>0, <1>2, <2>1, <2>2, <2>3, <2>4
      DEF SecretsSaved, PlacedSetup, OnItsWay, Inits, PastEnv, LateSkills, LastSteps, CoreServices
    <2>15. RuntimeChosen'
      BY <1>0, <1>2, <2>1, <2>2, <2>3, <2>4
      DEF RuntimeChosen, Inits, PastRuntime, PastDeploy, PastEnv, LateSkills, LastSteps,
              RuntimeOf, CoreServices
    <2> QED
      BY <2>10, <2>11, <2>12, <2>13, <2>14, <2>15 DEF SetupInv
  <1>3. PICK x \in CoreServices : /\ setup.at = x /\ Advance
           /\ \/ running' = [running EXCEPT ![x] = IF ecosystem THEN Launched ELSE @]
                 /\ UNCHANGED lost /\ Smooth
              \/ running' \in {running, [running EXCEPT ![x] = "stopped"]}
                 /\ lost' = lost \cup {"services"} /\ Trouble
           /\ UNCHANGED <<Disk, secrets, status>> /\ Lasting
    BY DEF RestartService, At
  <1> DEFINE p == IF x = "monitor" THEN "dispatcher" ELSE "end"
  <1>4. p \in {"dispatcher", "end"} /\ setup' = [setup EXCEPT !.at = p]
    BY <1>a, <1>b, <1>3 DEF CoreServices
  <1>5. p = IF x = "monitor" THEN "dispatcher" ELSE "end"
    OBVIOUS
  <1> HIDE DEF p
  <1>6. UNCHANGED <<present, config, synced, ecosystem, instructions, secrets, status, ready,
                    chosen, setupsRun>>
    BY <1>3 DEF Disk, Lasting
  <1>7. CASE running' = [running EXCEPT ![x] = IF ecosystem THEN Launched ELSE @]
             /\ UNCHANGED lost /\ Smooth
    BY <1>1, <1>3, <1>4, <1>5, <1>6, <1>7 DEF Smooth
  <1>8. CASE running' \in {running, [running EXCEPT ![x] = "stopped"]}
             /\ lost' = lost \cup {"services"} /\ Trouble
    BY <1>2, <1>3, <1>4, <1>5, <1>6, <1>8, TroubleCounts
  <1> QED
    BY <1>3, <1>7, <1>8

LEMMA EndSetupKeeps ==
    ASSUME SetupInv, EndSetup
    PROVE  SetupInv'
  <1>0. /\ SetupRows /\ PlacedSetup(setup) /\ PartsThere /\ ServicesRead
        /\ SecretsSaved /\ RuntimeChosen
    BY DEF SetupInv
  <1>1. ASSUME setup.at = "end", Leaves, chosen' = setup.selected,
               ready' = (ready \/ setup.kind = "init"),
               lost' = IF RuntimeOf(config) = setup.selected THEN lost \ {"runtime"} ELSE lost,
               UNCHANGED <<setupsRun, setupTroubles>>,
               UNCHANGED <<present, config, synced, ecosystem, instructions,
                           secrets, status, running>>
        PROVE  SetupInv'
    <2>1. /\ setup' \in SetupRow /\ setup' = Unstarted /\ setup'.at = "idle"
          /\ setup'.kind = "init" /\ ~setup'.pending /\ ~setup'.complete
      BY <1>1, UnstartedRow DEF Leaves
    <2>2. config.runtime = setup.selected => RuntimeOf(config) = setup.selected
      BY SetupFields DEF RuntimeOf, AgentRuntimes
    <2>3. PastRuntime(setup) /\ chosen' \in AgentRuntimes /\ ready' \in BOOLEAN
      BY <1>0, <1>1, SetupFields DEF PastRuntime, SetupRows
    <2>4. ~OnItsWay(setup)
      BY <1>0, <1>1, SetupFields
      DEF OnItsWay, PlacedSetup, PastEnv, Inits, LastSteps
    <2>5. "secrets" \in lost => "secrets" \in lost'
      BY <1>1
    <2>10. SetupRows'
      BY <1>0, <1>1, <2>1, <2>2, <2>3, <2>4, <2>5
      DEF SetupRows, ConfigRow, Losable, Complete
    <2>11. PlacedSetup(setup)'
      BY <1>0, <1>1, <2>1, <2>2, <2>3, <2>4, <2>5
      DEF PlacedSetup, Inits, OpeningSteps, InitSteps, SwitchSteps, Unstarted
    <2>12. PartsThere'
      BY <1>0, <1>1, <2>1, <2>2, <2>3, <2>4, <2>5
      DEF PartsThere, PlacedSetup, Inits, PastDirs, PastSkills, PastDeploy, PastEnv, LateSkills,
              LastSteps, InitSteps, OpeningSteps, SwitchSteps
    <2>13. ServicesRead'
      BY <1>0, <1>1, <2>1, <2>2, <2>3, <2>4, <2>5
      DEF ServicesRead, MayLag, Inits, PastRuntime, PastDeploy, PastEnv, LateSkills,
              LastSteps, RuntimeOf
    <2>14. SecretsSaved'
      BY <1>0, <1>1, <2>1, <2>2, <2>3, <2>4, <2>5
      DEF SecretsSaved, PlacedSetup, OnItsWay, Inits, PastEnv, LateSkills, LastSteps
    <2>15. RuntimeChosen'
      BY <1>0, <1>1, <2>1, <2>2, <2>3, <2>4, <2>5, SetupFields
      DEF RuntimeChosen, Inits, PastRuntime, PastDeploy, PastEnv, LateSkills, LastSteps,
              RuntimeOf
    <2> QED
      BY <2>10, <2>11, <2>12, <2>13, <2>14, <2>15 DEF SetupInv
  <1> QED
    BY <1>1 DEF EndSetup, At, Smooth, Disk

LEMMA KillSetupKeeps ==
    ASSUME SetupInv, KillSetup
    PROVE  SetupInv'
  <1>0. /\ SetupRows /\ PlacedSetup(setup) /\ PartsThere /\ ServicesRead
        /\ SecretsSaved /\ RuntimeChosen
    BY DEF SetupInv
  <1>1. ASSUME setup.at # "idle", Leaves, lost' = lost \cup Undone(setup),
               setupTroubles' \in 0..MaxSetupTroubles,
               UNCHANGED <<present, config, synced, ecosystem, instructions,
                           secrets, status, running, ready, chosen, setupsRun>>
        PROVE  SetupInv'
    <2>1. /\ setup' \in SetupRow /\ setup' = Unstarted /\ setup'.at = "idle"
          /\ setup'.kind = "init" /\ ~setup'.pending /\ ~setup'.complete
      BY <1>1, UnstartedRow DEF Leaves
    <2>2. /\ lost \subseteq lost' /\ lost' \in SUBSET Losable
          /\ PastRuntime(setup) => "services" \in lost' /\ "runtime" \in lost'
          /\ OnItsWay(setup) => "secrets" \in lost'
          /\ Inits(setup) /\ ~setup.complete /\ ~PastDeploy(setup) => "instructions" \in lost'
      BY <1>0, <1>1, SetupFields, UndoneIs DEF SetupRows, Losable
    <2>10. SetupRows'
      BY <1>0, <1>1, <2>1, <2>2
      DEF SetupRows, ConfigRow, Losable, Complete
    <2>11. PlacedSetup(setup)'
      BY <1>0, <1>1, <2>1, <2>2
      DEF PlacedSetup, Inits, OpeningSteps, InitSteps, SwitchSteps, Unstarted
    <2>12. PartsThere'
      BY <1>0, <1>1, <2>1, <2>2
      DEF PartsThere, PlacedSetup, Inits, PastDirs, PastSkills, PastDeploy, PastEnv, LateSkills,
              LastSteps, InitSteps, OpeningSteps, SwitchSteps
    <2>13. ServicesRead'
      BY <1>0, <1>1, <2>1, <2>2
      DEF ServicesRead, MayLag, Inits, PastRuntime, PastDeploy, PastEnv, LateSkills,
              LastSteps, RuntimeOf
    <2>14. SecretsSaved'
      BY <1>0, <1>1, <2>1, <2>2
      DEF SecretsSaved, PlacedSetup, OnItsWay, Inits, PastEnv, LateSkills, LastSteps
    <2>15. RuntimeChosen'
      BY <1>0, <1>1, <2>1, <2>2
      DEF RuntimeChosen, Inits, PastRuntime, PastDeploy, PastEnv, LateSkills, LastSteps,
              RuntimeOf
    <2> QED
      BY <2>10, <2>11, <2>12, <2>13, <2>14, <2>15 DEF SetupInv
  <1> QED
    BY <1>1, TroubleCounts DEF KillSetup, At, Lasting, Disk

LEMMA MonitorWritesKeeps ==
    ASSUME SetupInv, MonitorWrites
    PROVE  SetupInv'
  <1>0. /\ SetupRows /\ PlacedSetup(setup) /\ PartsThere /\ ServicesRead
        /\ SecretsSaved /\ RuntimeChosen
    BY DEF SetupInv
  <1>1. ASSUME running["monitor"] # "stopped", status' = running["monitor"],
               UNCHANGED <<present, config, synced, ecosystem, instructions,
                           secrets, running, setup, lost, ready, chosen, setupsRun,
                              setupTroubles>>
        PROVE  SetupInv'
    <2>1. setup' = setup /\ setup' \in SetupRow
      BY <1>1, SetupFields
    <2>2. status' \in AgentRuntimes \cup {"none"}
      BY <1>0, <1>1 DEF SetupRows, CoreServices
    <2>10. SetupRows'
      BY <1>0, <1>1, <2>1, <2>2
      DEF SetupRows, ConfigRow, Losable, Complete
    <2>11. PlacedSetup(setup)'
      BY <1>0, <1>1, <2>1, <2>2
      DEF PlacedSetup, Inits, OpeningSteps, InitSteps, SwitchSteps, Unstarted
    <2>12. PartsThere'
      BY <1>0, <1>1, <2>1, <2>2
      DEF PartsThere, PlacedSetup, Inits, PastDirs, PastSkills, PastDeploy, PastEnv, LateSkills,
              LastSteps, InitSteps, OpeningSteps, SwitchSteps
    <2>13. ServicesRead'
      BY <1>0, <1>1, <2>1, <2>2
      DEF ServicesRead, MayLag, Inits, PastRuntime, PastDeploy, PastEnv, LateSkills,
              LastSteps, RuntimeOf
    <2>14. SecretsSaved'
      BY <1>0, <1>1, <2>1, <2>2
      DEF SecretsSaved, PlacedSetup, OnItsWay, Inits, PastEnv, LateSkills, LastSteps
    <2>15. RuntimeChosen'
      BY <1>0, <1>1, <2>1, <2>2
      DEF RuntimeChosen, Inits, PastRuntime, PastDeploy, PastEnv, LateSkills, LastSteps,
              RuntimeOf
    <2> QED
      BY <2>10, <2>11, <2>12, <2>13, <2>14, <2>15 DEF SetupInv
  <1> QED
    BY <1>1 DEF MonitorWrites, Disk, Lasting, Smooth

LEMMA ServiceCrashesKeeps ==
    ASSUME SetupInv, NEW x \in CoreServices, ServiceCrashes(x)
    PROVE  SetupInv'
  <1>0. /\ SetupRows /\ PlacedSetup(setup) /\ PartsThere /\ ServicesRead
        /\ SecretsSaved /\ RuntimeChosen
    BY DEF SetupInv
  <1>1. ASSUME running[x] # "stopped", running' = [running EXCEPT ![x] = Launched],
               setupTroubles' \in 0..MaxSetupTroubles,
               UNCHANGED <<present, config, synced, ecosystem, instructions,
                           secrets, status, setup, lost, ready, chosen, setupsRun>>
        PROVE  SetupInv'
    <2>1. setup' = setup /\ setup' \in SetupRow
      BY <1>1, SetupFields
    <2>2. running' \in [CoreServices -> AgentRuntimes \cup {"stopped"}]
      BY <1>1, LaunchedIs
    <2>3. ecosystem
      BY <1>0, <1>1 DEF PartsThere
    <2>4. \A y \in CoreServices : running'[y] \in {"stopped", running[y], RuntimeOf(config)}
      BY <1>1, LaunchedIs
    <2>10. SetupRows'
      BY <1>0, <1>1, <2>1, <2>2, <2>3, <2>4
      DEF SetupRows, ConfigRow, Losable, Complete
    <2>11. PlacedSetup(setup)'
      BY <1>0, <1>1, <2>1, <2>2, <2>3, <2>4
      DEF PlacedSetup, Inits, OpeningSteps, InitSteps, SwitchSteps, Unstarted
    <2>12. PartsThere'
      BY <1>0, <1>1, <2>1, <2>2, <2>3, <2>4
      DEF PartsThere, PlacedSetup, Inits, PastDirs, PastSkills, PastDeploy, PastEnv, LateSkills,
              LastSteps, InitSteps, OpeningSteps, SwitchSteps
    <2>13. ServicesRead'
      BY <1>0, <1>1, <2>1, <2>2, <2>3, <2>4
      DEF ServicesRead, MayLag, Inits, PastRuntime, PastDeploy, PastEnv, LateSkills,
              LastSteps, RuntimeOf
    <2>14. SecretsSaved'
      BY <1>0, <1>1, <2>1, <2>2, <2>3, <2>4
      DEF SecretsSaved, PlacedSetup, OnItsWay, Inits, PastEnv, LateSkills, LastSteps
    <2>15. RuntimeChosen'
      BY <1>0, <1>1, <2>1, <2>2, <2>3, <2>4
      DEF RuntimeChosen, Inits, PastRuntime, PastDeploy, PastEnv, LateSkills, LastSteps,
              RuntimeOf
    <2> QED
      BY <2>10, <2>11, <2>12, <2>13, <2>14, <2>15 DEF SetupInv
  <1> QED
    BY <1>1, TroubleCounts DEF ServiceCrashes, Disk, Lasting

LEMMA StartSetupKeeps ==
    ASSUME SetupInv, NEW kind \in {"init", "switch"}, StartSetup(kind)
    PROVE  SetupInv'
  <1>0. /\ SetupRows /\ PlacedSetup(setup) /\ PartsThere /\ ServicesRead
        /\ SecretsSaved /\ RuntimeChosen
    BY DEF SetupInv
  <1>1. ASSUME NEW silent \in BOOLEAN, NEW key \in Keys, NEW selected \in AgentRuntimes,
               setup.at = "idle", setupsRun' \in 0..MaxSetups,
               setup' = [Unstarted EXCEPT !.at = "install", !.kind = kind, !.silent = silent,
                                          !.key = key, !.existing = config.runtime,
                                          !.selected = selected],
               UNCHANGED <<present, config, synced, ecosystem, instructions,
                           secrets, status, running, ready, chosen, lost, setupTroubles>>
        PROVE  SetupInv'
    <2>1. /\ setup' \in SetupRow /\ setup'.at = "install" /\ setup'.kind = kind
          /\ setup'.silent = silent /\ setup'.key = key /\ setup'.existing = config.runtime
          /\ setup'.selected = selected /\ setup'.complete = FALSE /\ setup'.pending = FALSE
          /\ setup'.authenticated = FALSE
      <3>1. /\ Unstarted \in SetupRow
            /\ config.runtime \in AgentRuntimes \cup {"none"} /\ "install" \in OpeningSteps
        BY <1>0, UnstartedRow DEF SetupRows, ConfigRow, OpeningSteps
      <3>2. setup' \in SetupRow
        BY <1>1, <3>1 DEF SetupRow
      <3> QED
        BY <1>1, <3>2 DEF SetupRow, Unstarted
    <2>2. setup.kind = "init" /\ ~setup.pending
      BY <1>0, <1>1 DEF PlacedSetup, Unstarted
    <2>10. SetupRows'
      BY <1>0, <1>1, <2>1, <2>2
      DEF SetupRows, ConfigRow, Losable, Complete
    <2>11. PlacedSetup(setup)'
      BY <1>0, <1>1, <2>1, <2>2
      DEF PlacedSetup, Inits, OpeningSteps, InitSteps, SwitchSteps, Unstarted
    <2>12. PartsThere'
      BY <1>0, <1>1, <2>1, <2>2
      DEF PartsThere, PlacedSetup, Inits, PastDirs, PastSkills, PastDeploy, PastEnv, LateSkills,
              LastSteps, InitSteps, OpeningSteps, SwitchSteps
    <2>13. ServicesRead'
      BY <1>0, <1>1, <2>1, <2>2
      DEF ServicesRead, MayLag, Inits, PastRuntime, PastDeploy, PastEnv, LateSkills,
              LastSteps, RuntimeOf
    <2>14. SecretsSaved'
      BY <1>0, <1>1, <2>1, <2>2
      DEF SecretsSaved, PlacedSetup, OnItsWay, Inits, PastEnv, LateSkills, LastSteps
    <2>15. RuntimeChosen'
      BY <1>0, <1>1, <2>1, <2>2
      DEF RuntimeChosen, Inits, PastRuntime, PastDeploy, PastEnv, LateSkills, LastSteps,
              RuntimeOf
    <2> QED
      BY <2>10, <2>11, <2>12, <2>13, <2>14, <2>15 DEF SetupInv
  <1>2. setupsRun' \in 0..MaxSetups
    BY <1>0, SetupAssumption DEF StartSetup, SetupRows
  <1>3. setup.at = "idle" /\ UNCHANGED <<present, config, synced, ecosystem, instructions,
                           secrets, status, running, ready, chosen, lost, setupTroubles>>
    BY DEF StartSetup, At, Disk, Smooth
  <1>4. \E silent \in BOOLEAN, key \in Keys, selected \in AgentRuntimes :
            setup' = [Unstarted EXCEPT !.at = "install", !.kind = kind, !.silent = silent,
                                       !.key = key, !.existing = config.runtime,
                                       !.selected = selected]
    BY DEF StartSetup
  <1> QED
    BY <1>1, <1>2, <1>3, <1>4

-----------------------------------------------------------------------------
(* Initialisation: what its specification guarantees *)

LEMMA SetupStarts == SetupInit => SetupInv
  <1> SUFFICES ASSUME SetupInit PROVE SetupInv
    OBVIOUS
  <1>1. setup = Unstarted /\ setup.at = "idle" /\ setup.kind = "init" /\ setup \in SetupRow
        /\ ~setup.pending /\ ~setup.complete
    BY UnstartedRow DEF SetupInit
  <1>2. present = {} /\ present # Complete
    BY MarkersAre DEF SetupInit
  <1>3. SetupRows
    <2>1. config \in ConfigRow /\ secrets \in [settings : Keys, env : Keys]
      BY DEF SetupInit, NoConfig, ConfigRow, Keys
    <2>2. running \in [CoreServices -> AgentRuntimes \cup {"stopped"}]
      BY DEF SetupInit
    <2>3. setupsRun \in 0..MaxSetups /\ setupTroubles \in 0..MaxSetupTroubles
      BY SetupAssumption DEF SetupInit
    <2> QED
      BY <1>1, <1>2, <2>1, <2>2, <2>3 DEF SetupInit, SetupRows
  <1>4. PlacedSetup(setup)
    BY <1>1 DEF PlacedSetup, Inits
  <1>5. PartsThere
    BY <1>1, <1>2
    DEF SetupInit, PartsThere, PastDeploy, PastEnv, PastDirs, PastSkills, LateSkills, LastSteps,
        InitSteps, Inits
  <1>6. ServicesRead
    BY DEF SetupInit, ServicesRead
  <1>7. SecretsSaved
    BY <1>1 DEF SetupInit, SecretsSaved, OnItsWay
  <1>8. RuntimeChosen
    BY <1>1
    DEF SetupInit, RuntimeChosen, PastRuntime, PastDeploy, PastEnv, LateSkills, LastSteps
  <1> QED
    BY <1>3, <1>4, <1>5, <1>6, <1>7, <1>8 DEF SetupInv

LEMMA SetupNextKeeps ==
    ASSUME SetupInv, SetupNext
    PROVE  SetupInv'
  <1>1. CASE \E kind \in {"init", "switch"} : StartSetup(kind)
    BY <1>1, StartSetupKeeps
  <1>2. CASE SetUp
    BY <1>2, InstallCliKeeps, AuthenticateKeeps, VerifyTokenKeeps, DetectStateKeeps,
       ResetManagedStateKeeps, CreateDirectoriesKeeps, PersistRuntimeKeeps, SeedThresholdKeeps,
       DeployTemplatesKeeps, SaveEnvKeeps, SyncSkillsKeeps, ClearHealthKeeps,
       DeleteServicesKeeps, StartServicesKeeps, GuideBypassKeeps, AcceptBypassKeeps,
       EndSetupKeeps DEF SetUp
  <1>3. CASE SwitchRuntime
    BY <1>3, SaveSettingsKeeps, AuthGateKeeps, RestartServiceKeeps DEF SwitchRuntime
  <1>4. CASE KillSetup \/ MonitorWrites \/ \E x \in CoreServices : ServiceCrashes(x)
    BY <1>4, KillSetupKeeps, MonitorWritesKeeps, ServiceCrashesKeeps
  <1> QED
    BY <1>1, <1>2, <1>3, <1>4 DEF SetupNext

LEMMA SetupStutters ==
    ASSUME SetupInv, UNCHANGED setupVars
    PROVE  SetupInv'
  <1>0. /\ SetupRows /\ PlacedSetup(setup) /\ PartsThere /\ ServicesRead
        /\ SecretsSaved /\ RuntimeChosen
    BY DEF SetupInv
  <1>1. SetupRows'
    BY <1>0 DEF setupVars, SetupRows
  <1>2. PlacedSetup(setup)'
    BY <1>0 DEF setupVars
  <1>3. PartsThere'
    BY <1>0 DEF setupVars, PartsThere
  <1>4. ServicesRead'
    BY <1>0 DEF setupVars, ServicesRead
  <1>5. SecretsSaved'
    BY <1>0 DEF setupVars, SecretsSaved
  <1>6. RuntimeChosen'
    BY <1>0 DEF setupVars, RuntimeChosen
  <1> QED
    BY <1>1, <1>2, <1>3, <1>4, <1>5, <1>6 DEF SetupInv

LEMMA SetupTold ==
    ASSUME SetupInv
    PROVE  InitTypeOK /\ SetupKeepsWord
  <1>0. /\ SetupRows /\ PlacedSetup(setup) /\ PartsThere /\ ServicesRead
        /\ SecretsSaved /\ RuntimeChosen
    BY DEF SetupInv
  <1>1. InitTypeOK
    BY <1>0, UnstartedRow DEF SetupRows, PlacedSetup, PartsThere, ConfigRow, InitTypeOK
  <1>2. ASSUME setup.at = "idle"
        PROVE  ~PastRuntime(setup) /\ ~OnItsWay(setup) /\ \A x : ~MayLag(setup, x)
    BY <1>0, <1>2
    DEF PlacedSetup, PastRuntime, PastDeploy, PastEnv, LateSkills, LastSteps, OnItsWay, MayLag,
        Unstarted
  <1>3. SetupKeepsWord
    BY <1>0, <1>2
    DEF SetupKeepsWord, At, ServicesRead, SecretsSaved, PartsThere, RuntimeChosen
  <1> QED
    BY <1>1, <1>3

-----------------------------------------------------------------------------
(* What a host keeps whichever program runs *)

HostInv == HxaInv /\ SetupInv /\ ConvergenceInv

LEMMA HostStarts == Init => HostInv
  BY HxaStarts, SetupStarts, ConvergenceStarts DEF Init, HostInv

LEMMA HostSteps == HostInv /\ [Next]_vars => HostInv'
  <1> SUFFICES ASSUME HostInv, [Next]_vars
               PROVE  HxaInv' /\ SetupInv' /\ ConvergenceInv'
    BY DEF HostInv
  <1>0. HxaInv /\ SetupInv /\ ConvergenceInv
    BY DEF HostInv
  <1>1. CASE HxaNext /\ UNCHANGED <<setupVars, convergenceVars>>
    BY <1>0, <1>1, HxaNextKeeps, SetupStutters, ConvergenceStutters
  <1>2. CASE SetupNext /\ UNCHANGED <<hxaVars, convergenceVars>>
    BY <1>0, <1>2, HxaStutters, SetupNextKeeps, ConvergenceStutters
  <1>3. CASE ConvergenceNext /\ UNCHANGED <<hxaVars, setupVars>>
    BY <1>0, <1>3, HxaStutters, SetupStutters, ConvergenceNextKeeps
  <1>4. CASE UNCHANGED <<hxaVars, setupVars, convergenceVars>>
    BY <1>0, <1>4, HxaStutters, SetupStutters, ConvergenceStutters
  <1>5. \/ HxaNext /\ UNCHANGED <<setupVars, convergenceVars>>
        \/ SetupNext /\ UNCHANGED <<hxaVars, convergenceVars>>
        \/ ConvergenceNext /\ UNCHANGED <<hxaVars, setupVars>>
        \/ UNCHANGED <<hxaVars, setupVars, convergenceVars>>
    BY DEF Next, vars
  <1> QED
    BY <1>1, <1>2, <1>3, <1>4, <1>5

LEMMA HostInvariance == Spec => []HostInv
  BY HostStarts, HostSteps, PTL DEF Spec

\* The parts of TypeOK and of HostIsSound about the replacement of an npm component: however many
\* upgrades and restores overlap and are killed, the reports of each tell what is on disk, and the
\* registry names what is installed (upgrade-hxa-connect.js:1594-1672).
THEOREM ComponentReportsTellTruth ==
    Spec => [](HxaTypeOK /\ ReportsTellTruth /\ RegistryNamesInstalled)
  <1>1. HostInv => HxaTypeOK /\ ReportsTellTruth /\ RegistryNamesInstalled
    BY HxaTold DEF HostInv
  <1> QED
    BY <1>1, HostInvariance, PTL

\* The parts of TypeOK and of HostIsSound about `zylos init` and `zylos runtime`: however often a
\* host is set up, set up again, reset, switched and killed on the way, the services have read the
\* runtime of the configuration, a good credential is where they are started from, and every part
\* stays in place, unless a kill or a failure left that part undone (init.js:2300-2480,
\* runtime.js:243-341).
THEOREM SetupIsKept == Spec => [](InitTypeOK /\ SetupKeepsWord)
  <1>1. HostInv => InitTypeOK /\ SetupKeepsWord
    BY SetupTold DEF HostInv
  <1> QED
    BY <1>1, HostInvariance, PTL

\* The parts of TypeOK and of HostIsSound about the convergence of Tasks: no two of its commands
\* are at work at once and none without the lock, a report of success is true, and the lock stays
\* with the run that took it, whatever is killed (native-task-convergence.js:579-772).
THEOREM ConvergenceIsExclusive ==
    Spec => [](ConvergenceTypeOK /\ OneCommandAtATime /\ PassIsTrue /\ LockIsKept)
  <1>1. HostInv => ConvergenceTypeOK /\ OneCommandAtATime /\ PassIsTrue /\ LockIsKept
    BY ConvergenceTold DEF HostInv
  <1> QED
    BY <1>1, HostInvariance, PTL
=============================================================================
