------------------------------ MODULE PairUpgrade -----------------------------
(***************************************************************************)
(* The upgrade of Core and its Feishu component as a pair                  *)
(* (scripts/upgrade-fork-pair.js): one transaction per report directory,   *)
(* with a summary that a later process may resume, and the retention of    *)
(* Core's backups after it has passed.                                     *)
(*                                                                         *)
(* Transactions and releases are numbers.  The first PairsBefore           *)
(* transactions have passed before, each with the release of its number;   *)
(* a further one upgrades to any release there has been, again or back,    *)
(* or to a new one.  Each of the two upgrades is one step here, since each *)
(* holds a lock of its own and its inside is ComponentUpgrade and          *)
(* SelfUpgrade; retention is cut at every write and rename.  Nothing but   *)
(* the retention lock keeps two processes apart, not even in one           *)
(* transaction.                                                            *)
(***************************************************************************)
EXTENDS Naturals, Sequences, FiniteSets

CONSTANTS
    Drivers,         \* processes that run the script
    PairsBefore,     \* transactions that have passed before
    MaxPairs,        \* bound on transactions
    MaxBackups,      \* bound on backups of Core
    MaxResumes,      \* bound on transactions resumed
    MaxPairTroubles, \* bound on crashes, lost results and failed writes
    NoDriver, Corpse \* the retention lock is free, or its owner has died

ASSUME PairAssumption ==
    /\ {PairsBefore, MaxPairs, MaxBackups, MaxResumes, MaxPairTroubles} \subseteq Nat
    /\ 0 < PairsBefore /\ PairsBefore <= MaxPairs /\ PairsBefore <= MaxBackups
    /\ NoDriver \notin Drivers /\ Corpse \notin Drivers

Pairs == 1..MaxPairs
CoreBackups == 1..MaxBackups
NoBackup == 0
Halfway == MaxPairs + 1 \* an installation whose rollback failed
PairReleases == 0..Halfway
Modes == {"execute", "repair-only", "dry-run"}

VARIABLES
    summary,      \* summary.json of each transaction
    driver,       \* processes: what each does, for which transaction, and its copy of the summary
    installed,    \* the releases of Core and Feishu, and whether PM2 lists a supervisor without file
    replaced,     \* the release Core ran before (nothing in the code keeps it)
    backups,      \* directories of Core's backups
    claims,       \* backups in the order in which their owner markers were written
    links,        \* backups with symlinks npm has made in them
    quarantine,   \* quarantine generations, by the transaction that made them
    retention,    \* the owner of the retention lock
    passedBefore, \* transactions whose finish is earlier than the start of each
    resumes,      \* transactions resumed, bounded
    pairTroubles

pairVars == <<summary, driver, installed, replaced, backups, claims, links, quarantine,
              retention, passedBefore, resumes, pairTroubles>>

NoSummary == [status |-> "none", mode |-> "execute", target |-> 0, identified |-> FALSE,
              core |-> FALSE, feishu |-> FALSE, backup |-> NoBackup, passes |-> 0]
Rests == [at |-> "idle", pair |-> 0, memory |-> NoSummary, todo |-> {}, held |-> FALSE]
NoProof == [pair |-> 0, backup |-> NoBackup, passes |-> 0]
NoBackupDir == [place |-> "none", content |-> 0, owner |-> NoProof]
NoGeneration == [status |-> "none", creator |-> NoProof, intent |-> NoBackup, moved |-> {},
                 inside |-> {}]

PairTypeOK ==
    /\ \A t \in Pairs :
          /\ summary[t].status \in {"none", "RUNNING", "HOLD", "PASS"}
          /\ summary[t].mode \in Modes /\ summary[t].identified \in BOOLEAN
          /\ summary[t].target \in PairReleases
          /\ (summary[t].target = 0) = (summary[t].status = "none")
          /\ summary[t].backup \in CoreBackups \cup {NoBackup}
          /\ quarantine[t].status \in {"none", "PLANNED", "GC_PENDING", "torn"}
          /\ quarantine[t].moved \cup quarantine[t].inside \subseteq CoreBackups
          /\ passedBefore[t] \subseteq Pairs
    /\ \A d \in Drivers :
          /\ driver[d].pair \in Pairs \cup {0}
          /\ (driver[d].at = "idle") = (driver[d].pair = 0)
          /\ driver[d].at \in {"idle", "unlink"}
                 \/ driver[d].memory.target = summary[driver[d].pair].target
    /\ installed.core \in PairReleases /\ installed.feishu \in PairReleases
    \* What is in a quarantine is in one, and nowhere else.
    /\ \A b \in CoreBackups :
          /\ backups[b].place \in {"none", "live", "quarantined", "deleted"}
          /\ backups[b].content \in PairReleases
          /\ (backups[b].place = "quarantined") = (\E t \in Pairs : b \in quarantine[t].inside)
    /\ \A t, u \in Pairs : t = u \/ quarantine[t].inside \cap quarantine[u].inside = {}
    /\ retention \in Drivers \cup {NoDriver, Corpse}
    /\ resumes \in 0..MaxResumes /\ pairTroubles \in 0..MaxPairTroubles

\* pairSummaryProof, and verifyPairSummaryProof of one a marker has kept: the summary it speaks of
\* is still that of this pass.
ProofOf(t, s) == [pair |-> t, backup |-> s.backup, passes |-> s.passes]
Completed(s) == s.status = "PASS" /\ s.mode = "execute" /\ s.core /\ s.feishu
Verified(proof) ==
    /\ proof # NoProof
    /\ Completed(summary[proof.pair])
    /\ ProofOf(proof.pair, summary[proof.pair]) = proof

PairInit ==
    /\ summary = [t \in Pairs |->
           IF t <= PairsBefore
           THEN [NoSummary EXCEPT !.status = "PASS", !.target = t, !.identified = TRUE,
                                  !.core = TRUE, !.feishu = TRUE, !.backup = t, !.passes = 1]
           ELSE NoSummary]
    /\ driver = [d \in Drivers |-> Rests]
    /\ installed = [core |-> PairsBefore, feishu |-> PairsBefore, orphan |-> FALSE]
    /\ replaced = PairsBefore - 1
    /\ backups = [b \in CoreBackups |->
           IF b <= PairsBefore
           THEN [place |-> "live", content |-> b - 1, owner |-> ProofOf(b, summary[b])]
           ELSE NoBackupDir]
    /\ claims = [b \in 1..PairsBefore |-> b]
    /\ links = CoreBackups
    /\ quarantine = [t \in Pairs |-> NoGeneration]
    /\ retention = NoDriver
    /\ passedBefore = [t \in Pairs |-> {}]
    /\ resumes = 0 /\ pairTroubles = 0

PairTrouble == pairTroubles < MaxPairTroubles /\ pairTroubles' = pairTroubles + 1

-----------------------------------------------------------------------------
(* The transaction *)

GoesOn(d, to) == driver' = [driver EXCEPT ![d].at = to]

\* The process writes its summary as it is in memory, and goes on.
Writes(d, s, to) ==
    /\ summary' = [summary EXCEPT ![driver[d].pair] = s]
    /\ driver' = [driver EXCEPT ![d].memory = s, ![d].at = to]

\* The catch of runForkPairUpgrade.
HoldsWith(d, s) ==
    /\ summary' = [summary EXCEPT ![driver[d].pair] = [s EXCEPT !.status = "HOLD"]]
    /\ driver' = [driver EXCEPT ![d] = Rests]
PutOnHold(d) == HoldsWith(d, driver[d].memory)

Unretained == UNCHANGED <<claims, quarantine, retention, resumes>>

\* Of the target only its form is asked: it may be installed already, or be older than what is.
\* A new release gets the next number; nothing depends on the target of what does not execute.
MayTarget(release, mode) ==
    /\ \A older \in 1..(release - 1) : \E u \in Pairs : summary[u].target = older
    /\ mode # "execute" => release = 1

\* Without --resume a summary must not exist yet.
StartPair(d, t) ==
    /\ driver[d].at = "idle" /\ summary[t].status = "none"
    /\ \A u \in 1..(t - 1) : summary[u].status # "none"
    /\ \E mode \in Modes, target \in Pairs :
          LET s == [NoSummary EXCEPT !.status = "RUNNING", !.mode = mode, !.target = target]
          IN  /\ MayTarget(target, mode)
              /\ summary' = [summary EXCEPT ![t] = s]
              /\ driver' = [driver EXCEPT ![d].at = "stage", ![d].pair = t, ![d].memory = s]
    /\ passedBefore' = [passedBefore EXCEPT ![t] = {u \in Pairs : summary[u].status = "PASS"}]
    /\ Unretained
    /\ UNCHANGED <<installed, replaced, backups, links, pairTroubles>>

\* validatePairResumeSummary: for the same mode and target; it does not ask whether the process
\* it resumes is still there.
ResumePair(d, t) ==
    LET s == [summary[t] EXCEPT !.status = "RUNNING"]
    IN  /\ driver[d].at = "idle"
        /\ summary[t].status \in {"RUNNING", "HOLD"} /\ summary[t].mode # "dry-run"
        /\ resumes < MaxResumes /\ resumes' = resumes + 1
        /\ summary' = [summary EXCEPT ![t] = s]
        /\ driver' = [driver EXCEPT ![d].at = "restage", ![d].pair = t, ![d].memory = s]
        \* It will finish later than whatever has started by now.
        /\ passedBefore' = [u \in Pairs |-> passedBefore[u] \ {t}]
        /\ UNCHANGED <<claims, quarantine, retention>>
        /\ UNCHANGED <<installed, replaced, backups, links, pairTroubles>>

\* A resumed transaction must have recorded the identity of its sources.
SourcesHold(d) == driver[d].at = "stage" \/ driver[d].memory.identified

\* The sources are staged and checked, and their identity is written with the plan of the merge.
\* It may not hold: npm install may have rewritten a lock file before the transaction is resumed.
StageSources(d) ==
    /\ driver[d].at \in {"stage", "restage"}
    /\ \/ /\ SourcesHold(d)
          /\ Writes(d, [driver[d].memory EXCEPT !.identified = TRUE], "preflight")
       \/ PutOnHold(d)
    /\ Unretained
    /\ UNCHANGED <<installed, replaced, backups, links, passedBefore, pairTroubles>>

\* planPm2PreflightRepairs: PM2 forgets the supervisor that an earlier rollback has left.
RepairsPm2 == installed' = [installed EXCEPT !.orphan = FALSE]

\* A rehearsal ends here, and so does the repair of native tasks alone.
EndsEarly(d) ==
    /\ driver[d].memory.mode # "execute"
    /\ summary' = [summary EXCEPT ![driver[d].pair] = [driver[d].memory EXCEPT !.status = "PASS"]]
    /\ driver' = [driver EXCEPT ![d] = Rests]

\* A check, the convergence of native tasks or the gate that nothing of them was lost.
GateFails(d) == PutOnHold(d) /\ UNCHANGED installed

\* It may fail before or after PM2 was repaired.
PreflightPair(d) ==
    /\ driver[d].at = "preflight"
    /\ \/ GateFails(d)
       \/ /\ driver[d].memory.mode = "execute" /\ RepairsPm2
          /\ Writes(d, driver[d].memory, "core") \/ PutOnHold(d)
       \/ EndsEarly(d) /\ UNCHANGED installed
    /\ Unretained
    /\ UNCHANGED <<replaced, backups, links, passedBefore, pairTroubles>>

\* The backup the upgrade of Core makes first.
BacksUp(b) ==
    /\ b \in CoreBackups /\ backups[b].place = "none"
    /\ \A o \in 1..(b - 1) : backups[o].place # "none"
    /\ backups' = [backups EXCEPT ![b].place = "live", ![b].content = installed.core]

CoreBecomes(release) ==
    /\ installed' = [installed EXCEPT !.core = release, !.orphan = FALSE]
    /\ replaced' = IF installed.core \in {release, Halfway} THEN replaced ELSE installed.core

\* npm install in the staged tree, which may rewrite its lock file, then zylos upgrade --self.
UpgradeCore(d) ==
    LET s == driver[d].memory
    IN  /\ driver[d].at = "core"
        /\ \/ PutOnHold(d) /\ UNCHANGED <<installed, replaced, backups, pairTroubles>>
           \/ \E b \in CoreBackups :
                 /\ BacksUp(b)
                 /\ \/ /\ CoreBecomes(s.target)
                       /\ driver' = [driver EXCEPT ![d].at = "upgraded",
                                         ![d].memory = [s EXCEPT !.core = TRUE, !.backup = b]]
                       /\ UNCHANGED <<summary, pairTroubles>>
                    \/ \* It succeeds, but its result is lost.
                       CoreBecomes(s.target) /\ PutOnHold(d) /\ PairTrouble
                    \/ \* It is rolled back, perhaps not wholly.
                       /\ PutOnHold(d) /\ UNCHANGED pairTroubles
                       /\ \/ installed' \in {[installed EXCEPT !.orphan = o] : o \in BOOLEAN}
                             /\ UNCHANGED replaced
                          \/ CoreBecomes(Halfway)
        /\ Unretained
        /\ UNCHANGED <<links, passedBefore>>

\* The installed Core is looked at once, here.
RecordCore(d) ==
    /\ driver[d].at = "upgraded"
    /\ IF installed.core = driver[d].memory.target THEN Writes(d, driver[d].memory, "feishu")
                                                   ELSE PutOnHold(d)
    /\ Unretained
    /\ UNCHANGED <<installed, replaced, backups, links, passedBefore, pairTroubles>>

UpgradeFeishu(d) ==
    /\ driver[d].at = "feishu"
    /\ \/ /\ installed' = [installed EXCEPT !.feishu = driver[d].memory.target]
          /\ \/ /\ driver' = [driver EXCEPT ![d].at = "checks", ![d].memory.feishu = TRUE]
                /\ UNCHANGED <<summary, pairTroubles>>
             \/ PutOnHold(d) /\ PairTrouble
       \/ /\ installed' \in {installed, [installed EXCEPT !.feishu = Halfway]}
          /\ PutOnHold(d) /\ UNCHANGED pairTroubles
    /\ Unretained
    /\ UNCHANGED <<replaced, backups, links, passedBefore>>

PostcheckPair(d) ==
    LET s == driver[d].memory
    IN  /\ driver[d].at = "checks"
        /\ \/ GateFails(d)
           \/ /\ installed.feishu = s.target /\ ~installed.orphan
              /\ Writes(d, [s EXCEPT !.status = "PASS", !.passes = @ + 1], "retain")
              /\ UNCHANGED installed
        /\ Unretained
        /\ UNCHANGED <<replaced, backups, links, passedBefore, pairTroubles>>

\* The last write; if it fails, a transaction that had passed is on hold again.
ReportPair(d) ==
    /\ driver[d].at = "report"
    /\ \/ /\ summary' = [summary EXCEPT ![driver[d].pair] = driver[d].memory]
          /\ driver' = [driver EXCEPT ![d] = Rests] /\ UNCHANGED pairTroubles
       \/ PutOnHold(d) /\ PairTrouble
    /\ Unretained
    /\ UNCHANGED <<installed, replaced, backups, links, passedBefore>>

-----------------------------------------------------------------------------
(* Retention of Core's backups, after the transaction has passed *)

RunUnchanged == UNCHANGED <<installed, replaced, links, passedBefore, resumes, pairTroubles>>

LockRetention(d) ==
    /\ driver[d].at = "retain"
    /\ IF retention = NoDriver THEN retention' = d /\ GoesOn(d, "claim")
                               ELSE GoesOn(d, "report") /\ UNCHANGED retention
    /\ UNCHANGED <<summary, backups, claims, quarantine>> /\ RunUnchanged

\* inspectOwnedCoreBackup
Owned(dirs) == {b \in CoreBackups : dirs[b].place = "live" /\ Verified(dirs[b].owner)}

Newest(set) ==
    {b \in set : \E i \in DOMAIN claims :
                     claims[i] = b /\ \A j \in (i + 1)..Len(claims) : claims[j] \notin set}

\* Seeded fault: only the current backup is kept.
CandidatesAllOthers(current, dirs) == Owned(dirs) \ {current}

\* All that are owned but the current one and the newest of the others.
Candidates(current, dirs) ==
    LET others == Owned(dirs) \ {current} IN others \ Newest(others)

\* claimCurrentBackupOwnership, then planCoreBackupRetention.
ClaimBackup(d) ==
    LET t == driver[d].pair
        proof == ProofOf(t, driver[d].memory)
        owned == [backups EXCEPT ![proof.backup].owner = proof]
    IN  /\ driver[d].at = "claim"
        /\ summary' = [summary EXCEPT ![t] = driver[d].memory]
        /\ IF backups[proof.backup].place = "live" /\ Completed(driver[d].memory)
           THEN /\ backups' = owned
                /\ claims' = Append(SelectSeq(claims, LAMBDA b : b # proof.backup), proof.backup)
                /\ driver' = [driver EXCEPT ![d].at = "gc",
                                  ![d].todo = {u \in Pairs : quarantine[u].status # "none"}]
           ELSE GoesOn(d, "release") /\ UNCHANGED <<backups, claims>>
        /\ UNCHANGED <<quarantine, retention>> /\ RunUnchanged

\* inspectQuarantineGeneration
Sound(u) ==
    /\ quarantine[u].status = "GC_PENDING" /\ quarantine[u].intent = NoBackup
    /\ Verified(quarantine[u].creator)
    /\ quarantine[u].moved \subseteq quarantine[u].inside

\* A generation may go if an upgrade that began after its creator had finished has passed since.
Collectable(t, u) == Sound(u) /\ u # t /\ u \in passedBefore[t]

\* One generation of gcPriorQuarantines.  Whatever is not collected stops this retention.
CollectGarbage(d) ==
    LET t == driver[d].pair
    IN  /\ driver[d].at = "gc"
        /\ \E u \in driver[d].todo :
              /\ IF Collectable(t, u) /\ quarantine[u].inside \cap links = {}
                 THEN \/ /\ quarantine' = [quarantine EXCEPT ![u] = NoGeneration]
                         /\ backups' = [b \in CoreBackups |->
                                IF b \in quarantine[u].inside
                                THEN [backups[b] EXCEPT !.place = "deleted"] ELSE backups[b]]
                      \/ \* The removal stops in the middle.
                         /\ quarantine' = [quarantine EXCEPT ![u].status = "torn"]
                         /\ UNCHANGED backups
                 ELSE UNCHANGED <<quarantine, backups>>
              /\ driver' = [driver EXCEPT ![d].todo = @ \ {u}, ![d].held =
                     @ \/ ~(Collectable(t, u) /\ quarantine'[u].status = "none")]
        /\ UNCHANGED <<summary, claims, retention>> /\ RunUnchanged

\* A generation of this transaction, if nothing of earlier ones is left.
MakeQuarantine(d) ==
    LET t == driver[d].pair
        candidates == Candidates(driver[d].memory.backup, backups)
    IN  /\ driver[d].at = "gc" /\ driver[d].todo = {}
        /\ IF driver[d].held \/ candidates = {} \/ quarantine[t].status # "none"
           THEN GoesOn(d, "release") /\ UNCHANGED quarantine
           ELSE /\ quarantine' = [quarantine EXCEPT ![t] =
                       [NoGeneration EXCEPT !.status = "PLANNED",
                                            !.creator = ProofOf(t, driver[d].memory)]]
                /\ driver' = [driver EXCEPT ![d].at = "move", ![d].todo = candidates]
        /\ UNCHANGED <<summary, backups, claims, retention>> /\ RunUnchanged

\* The intent is written first, if the backup is still what was planned.
IntendMove(d) ==
    LET t == driver[d].pair
    IN  /\ driver[d].at = "move"
        /\ \/ \E b \in driver[d].todo :
                 IF b \in Owned(backups)
                 THEN /\ quarantine' = [quarantine EXCEPT ![t].intent = b]
                      /\ GoesOn(d, "rename")
                 ELSE /\ driver' = [driver EXCEPT ![d].todo = @ \ {b}]
                      /\ UNCHANGED quarantine
           \/ driver[d].todo = {} /\ GoesOn(d, "release") /\ UNCHANGED quarantine
        /\ UNCHANGED <<summary, backups, claims, retention>> /\ RunUnchanged

RenameBackup(d) ==
    LET t == driver[d].pair
        b == quarantine[t].intent
    IN  /\ driver[d].at = "rename"
        /\ \/ /\ backups' = [backups EXCEPT ![b].place = "quarantined"]
              /\ quarantine' = [quarantine EXCEPT ![t].inside = @ \cup {b}]
              /\ GoesOn(d, "confirm")
           \/ \* It fails, and the intent stays.
              /\ driver' = [driver EXCEPT ![d].at = "move", ![d].todo = @ \ {b}]
              /\ UNCHANGED <<backups, quarantine>>
        /\ UNCHANGED <<summary, claims, retention>> /\ RunUnchanged

ConfirmMove(d) ==
    LET t == driver[d].pair
        b == quarantine[t].intent
    IN  /\ driver[d].at = "confirm"
        /\ \/ quarantine' = [quarantine EXCEPT ![t].intent = NoBackup, ![t].moved = @ \cup {b},
                                               ![t].status = "GC_PENDING"]
           \/ UNCHANGED quarantine
        /\ driver' = [driver EXCEPT ![d].at = "move", ![d].todo = @ \ {b}]
        /\ UNCHANGED <<summary, backups, claims, retention>> /\ RunUnchanged

ReleaseRetention(d) ==
    /\ driver[d].at = "release"
    /\ retention' = NoDriver
    /\ driver' = [driver EXCEPT ![d].at = "report", ![d].todo = {}, ![d].held = FALSE]
    /\ UNCHANGED <<summary, backups, claims, quarantine>> /\ RunUnchanged

\* repairCoreBackupQuarantine: an operator has npm's links removed from a quarantine.
RepairQuarantine(d, u) ==
    /\ driver[d].at = "idle" /\ retention = NoDriver
    /\ Sound(u) /\ quarantine[u].inside \cap links # {}
    /\ retention' = d
    /\ driver' = [driver EXCEPT ![d].at = "unlink", ![d].pair = u]
    /\ UNCHANGED <<summary, backups, claims, quarantine>> /\ RunUnchanged

UnlinkLinks(d) ==
    /\ driver[d].at = "unlink"
    /\ links' = IF Sound(driver[d].pair) THEN links \ quarantine[driver[d].pair].inside ELSE links
    /\ retention' = NoDriver
    /\ driver' = [driver EXCEPT ![d] = Rests]
    /\ UNCHANGED <<summary, backups, claims, quarantine, installed, replaced,
                   passedBefore, resumes, pairTroubles>>

DriverDies(d) ==
    /\ driver[d].at # "idle"
    /\ PairTrouble
    /\ driver' = [driver EXCEPT ![d] = Rests]
    /\ retention' = IF retention = d THEN Corpse ELSE retention
    /\ UNCHANGED <<summary, installed, replaced, backups, claims, links, quarantine,
                   passedBefore, resumes>>

RunPair(d) ==
    \/ StageSources(d) \/ PreflightPair(d) \/ UpgradeCore(d) \/ RecordCore(d)
    \/ UpgradeFeishu(d) \/ PostcheckPair(d) \/ ReportPair(d)

RetainBackups(d) ==
    \/ LockRetention(d) \/ ClaimBackup(d) \/ CollectGarbage(d) \/ MakeQuarantine(d)
    \/ IntendMove(d) \/ RenameBackup(d) \/ ConfirmMove(d) \/ ReleaseRetention(d)

PairNext ==
    \E d \in Drivers :
        \/ RunPair(d) \/ RetainBackups(d) \/ UnlinkLinks(d) \/ DriverDies(d)
        \/ \E t \in Pairs : StartPair(d, t) \/ ResumePair(d, t) \/ RepairQuarantine(d, t)

-----------------------------------------------------------------------------
(* Properties *)

\* Backups of three upgrades to one release have been claimed.
ClaimsFor(release) == {i \in DOMAIN claims : summary[backups[claims[i]].owner.pair].target = release}
Insisted == \E release \in Pairs : Cardinality(ClaimsFor(release)) > 2

\* Whatever is resumed, overtaken or cut short, the release Core ran before the present one can
\* be restored: a backup of it is where the upgrade has left it (upgrade-fork-pair.js:1031-1082).
\* Only when operators insist on one release are the two backups that stay of that release.
WayBack ==
    \/ Insisted
    \/ \E b \in CoreBackups : backups[b].place = "live" /\ backups[b].content = replaced

\* The backups of the last two upgrades that have passed stay, and what is deleted was in
\* quarantine when a further upgrade passed (fork-pair-upgrade-runbook.md:295-301).
BackupsOutlive ==
    \A i \in DOMAIN claims :
        /\ backups[claims[i]].place = "quarantined" => i <= Len(claims) - 2
        /\ backups[claims[i]].place = "deleted" => i <= Len(claims) - 3
=============================================================================
