---------------------------- MODULE MCInstallation -----------------------------
(***************************************************************************)
(* Model checking of what operators run on a host by hand: PairUpgrade,    *)
(* HxaUpgrade, SplitInstructions, Initialisation and TaskConvergence.      *)
(* They share nothing here: a behaviour runs one program.                  *)
(***************************************************************************)
EXTENDS PairUpgrade, HxaUpgrade, SplitInstructions, Initialisation, TaskConvergence, TLC

VARIABLE program \* the one that runs

vars == <<pairVars, hxaVars, splitVars, setupVars, convergenceVars, program>>

Init ==
    /\ PairInit /\ HxaInit /\ SplitInit /\ SetupInit /\ ConvergenceInit
    /\ program \in {"pair", "hxa", "split", "setup", "converge"}
    /\ program # "hxa" => \A c \in Targets : files[c] = "pinned"
    /\ program # "split" => ~legacy

IsRun(name) == program = name /\ UNCHANGED program

Next ==
    \/ /\ IsRun("pair") /\ PairNext
       /\ UNCHANGED <<hxaVars, splitVars, setupVars, convergenceVars>>
    \/ /\ IsRun("hxa") /\ HxaNext
       /\ UNCHANGED <<pairVars, splitVars, setupVars, convergenceVars>>
    \/ /\ IsRun("split") /\ SplitNext
       /\ UNCHANGED <<pairVars, hxaVars, setupVars, convergenceVars>>
    \/ /\ IsRun("setup") /\ SetupNext
       /\ UNCHANGED <<pairVars, hxaVars, splitVars, convergenceVars>>
    \/ /\ IsRun("converge") /\ ConvergenceNext
       /\ UNCHANGED <<pairVars, hxaVars, splitVars, setupVars>>

Spec == Init /\ [][Next]_vars

\* Processes of a kind are alike.
Symmetry == Permutations(Drivers) \cup Permutations(Commands)

\* The variables of the others stay as they began.
TypeOK ==
    /\ program = "pair" => PairTypeOK
    /\ program = "hxa" => HxaTypeOK
    /\ program = "split" => SplitTypeOK
    /\ program = "setup" => InitTypeOK
    /\ program = "converge" => ConvergenceTypeOK

\* Whatever is killed, resumed or overtaken, the way back to the release before stays open as
\* long as it must (upgrade-fork-pair.js:1031-1082), the reports of a component's replacement
\* and the registry name what is installed (upgrade-hxa-connect.js:1594-1672), the user's
\* instructions survive what activates, refreshes or migrates them
\* (instruction-builder.js:192-328), a host set up, set up again or switched is what the command
\* said (init.js:2300-2480, runtime.js:243-341), and no two convergences of Tasks are at work at
\* once or report what was not done (native-task-convergence.js:579-772).
HostIsSound ==
    /\ program = "pair" => WayBack /\ BackupsOutlive
    /\ program = "hxa" => ReportsTellTruth /\ RegistryNamesInstalled
    /\ program = "split" => UserTextKept /\ SplitIsWhole /\ LegacyStays
    /\ program = "setup" => SetupKeepsWord
    /\ program = "converge" => OneCommandAtATime /\ PassIsTrue /\ LockIsKept
=============================================================================
