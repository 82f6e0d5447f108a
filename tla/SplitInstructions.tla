--------------------------- MODULE SplitInstructions ---------------------------
(***************************************************************************)
(* The instruction files of an agent, split into a system part that every  *)
(* release replaces and a user part, and the transaction that activates,   *)
(* refreshes or migrates them (cli/lib/runtime/instruction-builder.js,     *)
(* cli/commands/migrate-instructions.js).                                  *)
(*                                                                         *)
(* The files are three: "system" for the system parts of both runtimes and *)
(* what is deployed with them, "user" for ZYLOS.md, "output" for CLAUDE.md *)
(* and AGENTS.md, rendered from the two.  A transaction is known by the    *)
(* number of the command that ran it.  Nothing locks the commands against  *)
(* each other, nor against the agent's hook that renders the output again. *)
(* The pending prompt and the wording of reports are left out.             *)
(***************************************************************************)
EXTENDS Naturals, Sequences, FiniteSets

CONSTANTS
    Commands,        \* processes that may run one of the commands
    MaxCommands,     \* bound on commands run
    MaxDisturbances  \* bound on kills, failures, edits, rebuilds and commands that overlap

ASSUME SplitAssumption == {MaxCommands, MaxDisturbances} \subseteq Nat

Files == {"system", "user", "output"}
Tokens == 1..MaxCommands

\* The three ways in: init of a fresh host, an upgrade or an init of a complete one, and the
\* migration, which goes on as "activate" when its backup is made.
Kinds == {"fresh", "refresh", "migrate", "activate"}

VARIABLES
    inPlace,       \* the files: of which system part and user text they are, and their mtime
    aside,         \* .bak files of transactions
    splitMarker,   \* the transaction that meta.json names, or 0
    litter,        \* stages a dead process has left
    worker,        \* what each command does
    originals,     \* user texts in the durable backups of migrations
    formatVersion, \* instruction-format-version is written
    hooks,         \* settings.json calls the assembler
    legacy,        \* the host had mixed instruction files before
    mine,          \* the user's latest text
    overlapped,    \* two commands have worked at once
    raced,         \* the user or a hook has written where a transaction was under way
    clock,         \* mtimes
    commandsRun, disturbances \* bounded

splitVars == <<inPlace, aside, splitMarker, litter, worker, originals, formatVersion, hooks,
               legacy, mine, overlapped, raced, clock, commandsRun, disturbances>>

Absent == [system |-> 0, user |-> 0, at |-> 0]
Exists(f) == inPlace[f] # Absent

Unemployed == [at |-> "idle", kind |-> "fresh", token |-> 0, todo |-> {}, committed |-> 0,
               failed |-> FALSE, residue |-> FALSE, entries |-> <<>>, text |-> 0,
               stages |-> {}, stagedAt |-> 0, applied |-> <<>>, saved |-> <<>>]

SplitTypeOK ==
    /\ \A f \in Files :
          /\ inPlace[f].system \in Tokens \cup {0} /\ inPlace[f].user \in Nat
          /\ inPlace[f].at <= clock
    /\ splitMarker \in Tokens \cup {0} /\ commandsRun \in 0..MaxCommands
    /\ originals \subseteq 0..(MaxDisturbances + 1) /\ mine \in 0..(MaxDisturbances + 1)
    /\ \A c \in Commands :
          /\ worker[c].at = "idle" <=> worker[c] = Unemployed
          /\ worker[c].kind \in Kinds /\ worker[c].stages \subseteq Files \cup {"marker"}
    \* One transaction sets a file aside at most once.
    /\ \A b, o \in aside : b.file = o.file /\ b.token = o.token => b = o

\* A fresh host, or one with mixed files of a release before the split.
SplitInit ==
    /\ legacy \in BOOLEAN
    /\ inPlace = [f \in Files |->
                      IF legacy /\ f # "system" THEN [system |-> 0, user |-> 1, at |-> 1]
                                                ELSE Absent]
    /\ mine = IF legacy THEN 1 ELSE 0
    /\ aside = {} /\ splitMarker = 0 /\ litter = FALSE
    /\ worker = [c \in Commands |-> Unemployed]
    /\ originals = {} /\ formatVersion = FALSE /\ hooks = FALSE
    /\ overlapped = FALSE /\ raced = FALSE
    /\ clock = 1 /\ commandsRun = 0 /\ disturbances = 0

-----------------------------------------------------------------------------
Told == UNCHANGED <<originals, formatVersion, hooks>>
Bystanders == UNCHANGED <<legacy, mine, raced>>
Steady == UNCHANGED <<overlapped, commandsRun>> /\ Bystanders
Calm == UNCHANGED disturbances
Disturbed == disturbances < MaxDisturbances /\ disturbances' = disturbances + 1

NobodyWorks == \A c \in Commands : worker[c].at = "idle"

EndCommand(c) == worker' = [worker EXCEPT ![c] = Unemployed]
Turns(c, to) == worker' = [worker EXCEPT ![c].at = to]

\* hasSplitTransactionResidue
Residue == aside # {} \/ litter \/ \E c \in Commands : worker[c].stages # {}

\* What recoverSplitTransaction reads before it starts.
Scans(w) == [w EXCEPT !.at = "recover", !.todo = aside, !.committed = splitMarker,
                      !.failed = FALSE]

\* Only the first two are explored side by side, and then without a third.
StartCommand(c, kind) ==
    /\ worker[c].at = "idle" /\ commandsRun < MaxCommands /\ kind # "activate"
    /\ commandsRun > 1 => NobodyWorks /\ ~overlapped
    /\ commandsRun' = commandsRun + 1
    /\ worker' = [worker EXCEPT ![c] = Scans([Unemployed EXCEPT !.kind = kind,
                      !.token = commandsRun + 1, !.residue = kind = "fresh" /\ Residue])]
    /\ IF NobodyWorks
       THEN UNCHANGED overlapped /\ Calm
       ELSE overlapped' = TRUE /\ Disturbed
    /\ UNCHANGED <<inPlace, aside, splitMarker, litter, clock>>
    /\ Told /\ Bystanders

\* Another file of a transaction is discarded, if the marker names it, or put back.
RecoverFile(c) ==
    LET w == worker[c]
    IN  /\ w.at = "recover"
        /\ \E b \in w.todo :
              \/ /\ b \in aside /\ aside' = aside \ {b} /\ Calm
                 /\ inPlace' = IF b.token = w.committed THEN inPlace
                               ELSE [inPlace EXCEPT ![b.file] = b.text]
                 /\ worker' = [worker EXCEPT ![c].todo = @ \ {b}]
              \/ /\ IF b \in aside THEN Disturbed ELSE Calm
                 /\ worker' = [worker EXCEPT ![c].todo = @ \ {b}, ![c].failed = TRUE]
                 /\ UNCHANGED <<inPlace, aside>>
        /\ UNCHANGED <<splitMarker, litter, clock>> /\ Told /\ Steady

\* cleanupSplitTemps removes the stages of whoever works, too.
EndRecovery(c) ==
    LET w == worker[c]
    IN  /\ w.at = "recover" /\ w.todo = {}
        /\ IF w.failed
           THEN EndCommand(c) /\ UNCHANGED litter
           ELSE /\ litter' = FALSE
                /\ worker' = [o \in Commands |->
                       IF o = c THEN [w EXCEPT !.at = "decide"]
                                ELSE [worker[o] EXCEPT !.stages = {}]]
        /\ UNCHANGED <<inPlace, aside, splitMarker, clock>> /\ Told /\ Steady /\ Calm

-----------------------------------------------------------------------------
\* deployInstructionAssets: the instructions stay as they are until a migration.
DeployAssets(c) ==
    /\ clock' = clock + 1
    /\ inPlace' = [inPlace EXCEPT !["system"] = [system |-> 0, user |-> 0, at |-> clock + 1]]
    /\ EndCommand(c)

\* The user's text is read and the output rendered from it.
Plans(c, entries) ==
    /\ worker' = [worker EXCEPT ![c].at = "stage", ![c].entries = entries,
                                ![c].text = inPlace["user"].user,
                                ![c].residue = FALSE]
    /\ UNCHANGED <<inPlace, clock>>

Decided(c, kind) == worker[c].at = "decide" /\ worker[c].kind = kind

\* activateFreshSplitInstructions
DecideFresh(c) ==
    /\ Decided(c, "fresh")
    /\ IF splitMarker # 0
       THEN /\ worker' = [worker EXCEPT ![c] = Scans([@ EXCEPT !.kind = "refresh",
                                                             !.residue = FALSE])]
            /\ UNCHANGED <<inPlace, clock>>
       ELSE IF ~worker[c].residue /\ (Exists("user") \/ Exists("output"))
       THEN DeployAssets(c)
       ELSE Plans(c, IF Exists("user") THEN <<"system", "output">>
                                       ELSE <<"system", "user", "output">>)
    /\ UNCHANGED <<aside, splitMarker, litter>> /\ Told /\ Steady /\ Calm

\* refreshSplitInstructions
DecideRefresh(c) ==
    /\ Decided(c, "refresh")
    /\ IF splitMarker = 0 THEN DeployAssets(c)
       ELSE IF Exists("user") THEN Plans(c, <<"system", "output">>)
       ELSE EndCommand(c) /\ UNCHANGED <<inPlace, clock>>
    /\ UNCHANGED <<aside, splitMarker, litter>> /\ Told /\ Steady /\ Calm

\* migrateInstructionsCommand; it may also refuse, as it does what it cannot classify.
DecideMigrate(c) ==
    /\ Decided(c, "migrate")
    /\ \/ splitMarker # 0 /\ Turns(c, "finish")
       \/ splitMarker = 0 /\ Exists("user")
          /\ worker' = [worker EXCEPT ![c].at = "backup", ![c].text = inPlace["user"].user]
       \/ splitMarker = 0 /\ EndCommand(c)
    /\ UNCHANGED <<inPlace, clock, aside, splitMarker, litter>> /\ Told /\ Steady /\ Calm

\* createMigrationBackup copies what is there by now; a copy that fails ends the migration.
BackupOriginals(c) ==
    /\ worker[c].at = "backup"
    /\ \/ /\ originals' = originals \cup {inPlace[f].user : f \in {"user"} \cap
                                             {f \in Files : Exists(f)}}
          /\ worker' = [worker EXCEPT ![c] = Scans([@ EXCEPT !.kind = "activate"])]
          /\ Calm
       \/ EndCommand(c) /\ UNCHANGED originals /\ Disturbed
    /\ UNCHANGED <<inPlace, clock, aside, splitMarker, litter, formatVersion, hooks>> /\ Steady

\* activateMigratedSplitInstructions, with the text the command has read.
DecideActivate(c) ==
    /\ Decided(c, "activate")
    /\ IF splitMarker # 0 THEN Turns(c, "finish")
       ELSE worker' = [worker EXCEPT ![c].at = "stage",
                                     ![c].entries = <<"user", "system", "output">>]
    /\ UNCHANGED <<inPlace, clock, aside, splitMarker, litter>> /\ Told /\ Steady /\ Calm

-----------------------------------------------------------------------------
(* commitEntries *)

\* If it fails, what is staged is removed again.
StageEntries(c) ==
    LET w == worker[c]
        all == {w.entries[i] : i \in DOMAIN w.entries} \cup {"marker"}
    IN  /\ w.at = "stage"
        /\ clock' = clock + 1
        /\ \/ /\ worker' = [worker EXCEPT ![c].at = "place", ![c].stages = all,
                                          ![c].stagedAt = clock + 1]
              /\ Calm
           \/ EndCommand(c) /\ Disturbed
        /\ UNCHANGED <<inPlace, aside, splitMarker, litter>> /\ Told /\ Steady

StagedText(w, f) ==
    CASE f = "system" -> [system |-> w.token, user |-> 0, at |-> w.stagedAt]
      [] f = "user"   -> [system |-> 0, user |-> w.text, at |-> w.stagedAt]
      [] f = "output" -> [system |-> w.token, user |-> w.text, at |-> w.stagedAt]

SetAside(c) ==
    LET w == worker[c]
        f == Head(w.entries)
    IN  /\ w.at = "place" /\ w.entries # <<>>
        /\ IF Exists(f)
           THEN /\ aside' = aside \cup {[file |-> f, token |-> w.token, text |-> inPlace[f]]}
                /\ inPlace' = [inPlace EXCEPT ![f] = Absent]
                /\ worker' = [worker EXCEPT ![c].at = "rename", ![c].saved = Append(@, f)]
           ELSE Turns(c, "rename") /\ UNCHANGED <<aside, inPlace>>
        /\ UNCHANGED <<splitMarker, litter, clock>> /\ Told /\ Steady /\ Calm

\* A rename fails when the recovery of another command has removed the stage.
PlaceEntry(c) ==
    LET w == worker[c]
        f == Head(w.entries)
    IN  /\ w.at = "rename"
        /\ \/ /\ f \in w.stages /\ Calm
              /\ inPlace' = [inPlace EXCEPT ![f] = StagedText(w, f)]
              /\ worker' = [worker EXCEPT ![c].at = "place", ![c].entries = Tail(@),
                                ![c].stages = @ \ {f}, ![c].applied = Append(@, f)]
           \/ /\ IF f \in w.stages THEN Disturbed ELSE Calm
              /\ Turns(c, "rollback") /\ UNCHANGED inPlace
        /\ UNCHANGED <<aside, splitMarker, litter, clock>> /\ Told /\ Steady

\* The commit point.
RenameMarker(c) ==
    LET w == worker[c]
    IN  /\ w.at = "place" /\ w.entries = <<>>
        /\ \/ /\ "marker" \in w.stages /\ Calm
              /\ splitMarker' = w.token
              /\ worker' = [worker EXCEPT ![c].at = "discard", ![c].stages = {}]
           \/ /\ IF "marker" \in w.stages THEN Disturbed ELSE Calm
              /\ Turns(c, "rollback") /\ UNCHANGED splitMarker
        /\ UNCHANGED <<inPlace, aside, litter, clock>> /\ Told /\ Steady

\* Failures are ignored, and leave files for the next recovery.
DiscardSaved(c) ==
    LET w == worker[c]
        own == {b \in aside : b.token = w.token}
    IN  /\ w.at = "discard"
        /\ \/ aside' = aside \ own /\ Calm
           \/ own # {} /\ aside' \in {aside \ some : some \in SUBSET own \ {own}}
              /\ Disturbed
        /\ IF w.kind = "refresh" THEN EndCommand(c) ELSE Turns(c, "finish")
        /\ UNCHANGED <<inPlace, splitMarker, litter, clock>> /\ Told /\ Steady

LastOf(seq) == seq[Len(seq)]
ButLast(seq) == SubSeq(seq, 1, Len(seq) - 1)

\* A file that cannot be removed, or has been removed, is an error that is only remembered.
RollbackEntry(c) ==
    LET w == worker[c]
        f == LastOf(w.applied)
    IN  /\ w.at = "rollback" /\ w.applied # <<>>
        /\ \/ /\ Exists(f) /\ Calm
              /\ inPlace' = [inPlace EXCEPT ![f] = Absent]
              /\ worker' = [worker EXCEPT ![c].applied = ButLast(@)]
           \/ /\ IF Exists(f) THEN Disturbed ELSE Calm
              /\ worker' = [worker EXCEPT ![c].applied = ButLast(@), ![c].failed = TRUE]
              /\ UNCHANGED inPlace
        /\ UNCHANGED <<aside, splitMarker, litter, clock>> /\ Told /\ Steady

RollbackSaved(c) ==
    LET w == worker[c]
        own == {b \in aside : b.token = w.token /\ b.file = LastOf(w.saved)}
    IN  /\ w.at = "rollback" /\ w.applied = <<>> /\ w.saved # <<>>
        /\ \/ \E b \in own :
                 /\ aside' = aside \ {b} /\ inPlace' = [inPlace EXCEPT ![b.file] = b.text]
                 /\ worker' = [worker EXCEPT ![c].saved = ButLast(@)] /\ Calm
           \/ /\ IF own # {} THEN Disturbed ELSE Calm
              /\ worker' = [worker EXCEPT ![c].saved = ButLast(@), ![c].failed = TRUE]
              /\ UNCHANGED <<aside, inPlace>>
        /\ UNCHANGED <<splitMarker, litter, clock>> /\ Told /\ Steady

\* The stage of the marker is kept when something could not be rolled back.
EndRollback(c) ==
    LET w == worker[c]
    IN  /\ w.at = "rollback" /\ w.applied = <<>> /\ w.saved = <<>>
        /\ litter' = (litter \/ (w.failed /\ "marker" \in w.stages))
        /\ EndCommand(c)
        /\ UNCHANGED <<inPlace, aside, splitMarker, clock>> /\ Told /\ Steady /\ Calm

\* The version is written, or only warned of, and a migration reconciles the hooks, or refuses.
FinishCommand(c) ==
    /\ worker[c].at = "finish"
    /\ formatVersion' \in {formatVersion, TRUE}
    /\ hooks' \in IF worker[c].kind = "fresh" THEN {hooks} ELSE {hooks, TRUE}
    /\ EndCommand(c)
    /\ UNCHANGED <<inPlace, aside, splitMarker, litter, clock, originals>>
    /\ Steady /\ Calm

-----------------------------------------------------------------------------
KillCommandHere(c) ==
    /\ worker[c].at # "idle"
    /\ Disturbed
    /\ litter' \in {litter \/ worker[c].stages # {}, litter \/ worker[c].at = "stage"}
    /\ EndCommand(c)
    /\ UNCHANGED <<inPlace, aside, splitMarker, clock>> /\ Told /\ Steady

\* What a command does between the user's text being read and the new files being there.
UnderWay ==
    \/ aside # {}
    \/ \E c \in Commands :
          \/ worker[c].at \in {"backup", "stage", "place", "rename", "rollback"}
          \/ worker[c].kind = "activate"

EditUser ==
    /\ Exists("user") /\ Disturbed
    /\ clock' = clock + 1 /\ mine' = mine + 1
    /\ inPlace' = [inPlace EXCEPT !["user"] = [system |-> 0, user |-> mine + 1,
                                               at |-> clock + 1]]
    /\ raced' = (raced \/ UnderWay)
    /\ UNCHANGED <<aside, splitMarker, litter, worker, legacy, overlapped, commandsRun>>
    /\ Told

\* needsRebuild goes by mtimes; a file that is put back brings its old one.
RebuildDue ==
    \/ ~Exists("output")
    \/ \E f \in {"system", "user"} : inPlace[f].at > inPlace["output"].at

\* assembleInstruction, before the guardian launches the agent and when a session starts.
RebuildOutput ==
    /\ splitMarker # 0 /\ RebuildDue /\ Exists("system") /\ Exists("user")
    /\ Disturbed
    /\ clock' = clock + 1
    /\ inPlace' = [inPlace EXCEPT !["output"] =
           [system |-> inPlace["system"].system, user |-> inPlace["user"].user,
            at |-> clock + 1]]
    /\ raced' = (raced \/ UnderWay)
    /\ UNCHANGED <<aside, splitMarker, litter, worker, legacy, mine, overlapped,
                   commandsRun>>
    /\ Told

Recovers(c) == RecoverFile(c) \/ EndRecovery(c)

Decides(c) ==
    \/ DecideFresh(c) \/ DecideRefresh(c) \/ DecideMigrate(c) \/ BackupOriginals(c)
    \/ DecideActivate(c)

CommitsEntries(c) ==
    \/ StageEntries(c) \/ SetAside(c) \/ PlaceEntry(c) \/ RenameMarker(c) \/ DiscardSaved(c)
    \/ RollbackEntry(c) \/ RollbackSaved(c) \/ EndRollback(c)

SplitNext ==
    \/ \E c \in Commands :
          \/ \E kind \in Kinds : StartCommand(c, kind)
          \/ Recovers(c) \/ Decides(c) \/ CommitsEntries(c) \/ FinishCommand(c)
          \/ KillCommandHere(c)
    \/ EditUser \/ RebuildOutput

-----------------------------------------------------------------------------
(* Properties *)

\* The user's latest text is never lost: it is in place, set aside where a recovery finds it, or
\* in the backup of a migration, however commands overlap, fail and die
\* (instruction-builder.js:192-328, instruction-migration.js:353-385).
UserTextKept ==
    ~raced /\ mine # 0 =>
        \/ Exists("user") /\ inPlace["user"].user = mine
        \/ \E b \in aside : b.file = "user" /\ b.text.user = mine
        \/ mine \in originals

\* What is in place when nobody works and nothing waits for a recovery is the transaction the
\* marker names, whole, and the output is of its two parts or is due to be rendered again
\* (instruction-builder.js:237-328, assembler.mjs:36-44).
SplitIsWhole ==
    (NobodyWorks /\ aside = {} /\ splitMarker # 0 /\ ~overlapped) =>
        /\ inPlace["system"].system = splitMarker /\ Exists("user")
        /\ raced \/ RebuildDue \/
              /\ inPlace["output"].system = inPlace["system"].system
              /\ inPlace["output"].user = inPlace["user"].user

\* Until the marker is there, mixed files of the release before are as they were.
LegacyStays ==
    (NobodyWorks /\ aside = {} /\ splitMarker = 0 /\ ~overlapped /\ legacy) =>
        /\ Exists("user")
        /\ inPlace["output"] = [system |-> 0, user |-> 1, at |-> 1]
=============================================================================
