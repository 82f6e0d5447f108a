----------------------------- MODULE MCDispatcher -----------------------------
(***************************************************************************)
(* Dispatcher for TLC: the kinds of controls the activity monitor really   *)
(* enqueues, messages of two priorities, and an agent that comes and goes. *)
(***************************************************************************)
EXTENDS Dispatcher

Heartbeat == [raw |-> "heartbeat", priority |-> 0, requireIdle |-> FALSE, bypass |-> TRUE,
              deadlineIn |-> 1, delay |-> 0, ackSuffix |-> TRUE, form |-> "heartbeat"]
RecoveryHeartbeat == [Heartbeat EXCEPT !.form = "recovery_heartbeat"]
Key == [raw |-> "key", priority |-> 0, requireIdle |-> FALSE, bypass |-> TRUE,
        deadlineIn |-> 0, delay |-> 1, ackSuffix |-> FALSE, form |-> "keystroke"]
UsageAlert == [raw |-> "alert", priority |-> 1, requireIdle |-> FALSE, bypass |-> FALSE,
               deadlineIn |-> 0, delay |-> 1, ackSuffix |-> FALSE, form |-> "text"]

Task == [priority |-> 3, requireIdle |-> FALSE, entry |-> "task"]
Audit == [Task EXCEPT !.entry = "audit"]
Plain == [Task EXCEPT !.entry = "plain", !.requireIdle = TRUE]
Question == [Task EXCEPT !.entry = "question", !.priority = 1]

Resting == [state |-> "idle", rested |-> TRUE, health |-> "ok"]
Working == [state |-> "busy", rested |-> FALSE, health |-> "ok"]
Gone == [state |-> "offline", rested |-> FALSE, health |-> "ok"]

ProbesAndKeys == {Heartbeat, RecoveryHeartbeat, Key}
Alerts == {UsageAlert}
AllContents == {"heartbeat", "key", "alert"}
EveryEntry == {Plain, Task, Audit, Question}
NoMessages == {}
RestOrWork == {Resting, Working}
RestOrGone == {Resting, Gone}
=============================================================================
