------------------------------ MODULE MCTaskRuns ------------------------------
(***************************************************************************)
(* RunLeaseSweep, and with it TaskRuns, for TLC.                           *)
(***************************************************************************)
EXTENDS RunLeaseSweep

\* The commands that leave the state alone do the same; one of them stands for all.
OneSameState ==
    DOMAIN COMMAND_DEFINITIONS \ {"UpdateTaskReminder", "PostponeTask"}
=============================================================================
