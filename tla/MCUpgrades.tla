------------------------------ MODULE MCUpgrades ------------------------------
(* Model checking of UpgradeLock, ComponentUpgrade and SelfUpgrade.  They     *)
(* share nothing here: a behaviour runs one of them, and the state of the      *)
(* services varies only where it is looked at.                                 *)
EXTENDS UpgradeLock, ComponentUpgrade, SelfUpgrade

CONSTANTS p1, p2

TwoProcs == {p1, p2}
One == {p1}

VARIABLE program \* the one that runs

vars == <<lockVars, componentVars, selfVars, program>>

AllOnline == \A s \in CoreServices \cup OwnServices : process[s] \in Running

Init ==
    /\ LockInit /\ ComponentInit /\ SelfInit
    /\ program \in {"lock", "component", "self"}
    /\ program # "self" => AllOnline
    /\ program # "component" => service = "old"

IsRun(name) == program = name /\ UNCHANGED program

Next ==
    \/ IsRun("lock") /\ LockNext /\ UNCHANGED <<componentVars, selfVars>>
    \/ IsRun("component") /\ ComponentNext /\ UNCHANGED <<lockVars, selfVars>>
    \/ IsRun("self") /\ SelfNext /\ UNCHANGED <<lockVars, componentVars>>

\* As LockFairness and ComponentFairness, each while its program runs.
Fairness ==
    /\ \A p \in Procs : WF_lockVars(program = "lock" /\ Step(p))
    /\ WF_componentVars(program = "component" /\ UpgradeStep)
    /\ WF_componentVars(program = "component" /\ CommandStep)

Spec == Init /\ [][Next]_vars /\ Fairness

TypeOK == LockTypeOK /\ ComponentTypeOK /\ SelfTypeOK

\* Whatever fails and wherever a process dies, an upgrade that reports success or a clean
\* rollback left one whole release, of a component or of Core, and the next merge starts from a
\* baseline that is not behind what the component's files say they are
\* (upgrade.js:1201-1302, manifest.js:191-252, self-upgrade.js:1883-2003).
InstallationIsWhole == UpgradeIsWhole /\ BaselineLeads /\ SelfUpgradeIsWhole
=============================================================================
