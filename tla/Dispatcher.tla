------------------------------ MODULE Dispatcher ------------------------------
(***************************************************************************)
(* The dispatcher daemon (skills/comm-bridge/scripts/c4-dispatcher.js)     *)
(* takes one item at a time from the C4 queues and types it into the       *)
(* agent's terminal.  Its loop gives way to other processes at every       *)
(* database statement and to the agent while it waits for the terminal, so *)
(* each stretch between two such points is an action.                      *)
(*                                                                         *)
(* The admission gates of the Claude runtime are the run ledger's; here    *)
(* they let the item pass, put it back, or throw.                          *)
(***************************************************************************)
EXTENDS C4Queues

CONSTANTS
    AgentStates,  \* the agent states the activity monitor reports here
    MaxFaults     \* bound on crashes and exceptions of the dispatcher

\* rested: idle for REQUIRE_IDLE_MIN_SECONDS.
AgentState == [state : {"offline", "stopped", "busy", "idle"}, rested : BOOLEAN,
               health : {"ok", "down"}]

ASSUME DispatcherAssumption ==
    /\ AgentStates \subseteq AgentState
    /\ AgentStates # {}
    /\ MaxFaults \in Nat

VARIABLES
    pc,       \* where the dispatcher is in processNextMessage
    item,     \* the row it works on
    seenAt,   \* the agent state it read at the start of the round
    agent,    \* the agent state the monitor reports now
    shown,    \* the rows whose text or key has reached the terminal
    faults

dispatcherVars == <<pc, item, seenAt, agent, shown, faults>>
vars == <<now, control, conversation, pc, item, seenAt, agent, shown, faults>>

Items == ({"control"} \X Controls) \cup ({"conversation"} \X Conversations)
NoItem == <<"none", 0>>
PCs == {"ready", "choose", "claim", "gate", "deliver", "verify"}

TypeOK ==
    /\ QueuesTypeOK
    /\ pc \in PCs
    /\ item \in Items \cup {NoItem}
    /\ {seenAt, agent} \subseteq AgentStates
    /\ shown \subseteq Items
    /\ faults \in 0..MaxFaults

Init ==
    /\ QueuesInit
    /\ pc = "ready"
    /\ item = NoItem
    /\ agent \in AgentStates
    /\ seenAt = agent
    /\ shown = {}
    /\ faults = 0

IsControl == item[1] = "control"
Kind == IF IsControl THEN control[item[2]].kind ELSE conversation[item[2]].kind
Bypass == IsControl /\ control[item[2]].kind.bypass
Away == seenAt.state \in {"offline", "stopped"}

Release == pc' = "ready" /\ item' = NoItem

\* What becomes of the row the dispatcher works on.
WriteControl(row) == control' = [control EXCEPT ![item[2]] = row] /\ UNCHANGED conversation
WriteConversation(row) ==
    conversation' = [conversation EXCEPT ![item[2]] = row] /\ UNCHANGED control

-----------------------------------------------------------------------------
(* One round of processNextMessage *)

\* Sweeps, then a look at the agent's state.
Sweep ==
    /\ pc = "ready"
    /\ \E old \in SUBSET Controls : control' = ExpiredControls(Cleaned(control, old))
    /\ seenAt' = agent
    /\ pc' = "choose"
    /\ UNCHANGED <<now, conversation, item, agent, shown, faults>>

ChooseControl ==
    /\ pc = "choose"
    /\ \E c \in Controls : NextControl(c) /\ item' = <<"control", c>>
    /\ pc' = "claim"
    /\ UNCHANGED <<now, control, conversation, seenAt, agent, shown, faults>>

\* Conversations are looked at only when no control is due.
ChooseConversation ==
    /\ pc = "choose"
    /\ DueControls = {}
    /\ \E m \in Conversations : NextConversation(m) /\ item' = <<"conversation", m>>
    /\ pc' = "claim"
    /\ UNCHANGED <<now, control, conversation, seenAt, agent, shown, faults>>

ChooseNothing ==
    /\ pc = "choose"
    /\ DueControls = {} /\ PendingConversations = {}
    /\ Release
    /\ UNCHANGED <<now, control, conversation, seenAt, agent, shown, faults>>

\* The chosen control may have been acknowledged, superseded or timed out, and the chosen
\* conversation rewritten.
Claim ==
    /\ pc = "claim"
    /\ \/ /\ IsControl /\ control[item[2]].status = "pending"
          /\ WriteControl([control[item[2]] EXCEPT !.status = "running"])
          /\ pc' = "gate" /\ UNCHANGED item
       \/ /\ ~IsControl /\ conversation[item[2]].status = "pending"
          /\ WriteConversation([conversation[item[2]] EXCEPT !.status = "running"])
          /\ pc' = "gate" /\ UNCHANGED item
       \/ /\ IF IsControl THEN control[item[2]].status # "pending"
             ELSE conversation[item[2]].status # "pending"
          /\ Release /\ UNCHANGED <<control, conversation>>
    /\ UNCHANGED <<now, seenAt, agent, shown, faults>>

\* The item has to wait for the agent.
MustWait ==
    \/ ~Bypass /\ (Away \/ seenAt.health # "ok")
    \/ ~IsControl /\ seenAt.state = "busy"
    \/ Kind.requireIdle /\ ~(seenAt.state = "idle" /\ seenAt.rested)

PutBack ==
    /\ Release
    /\ IF IsControl THEN WriteControl(RequeuedControl(control[item[2]]))
       ELSE WriteConversation(RequeuedConversation(conversation[item[2]]))

\* A failed binding projection defers any item, an occupied runtime only
\* conversations.
GateDefers ==
    /\ pc = "gate"
    /\ PutBack
    /\ UNCHANGED <<now, seenAt, agent, shown, faults>>

GatePasses ==
    /\ pc = "gate"
    /\ ~MustWait
    /\ pc' = "deliver"
    /\ UNCHANGED <<now, control, conversation, item, seenAt, agent, shown, faults>>

\* An exception of an admission gate, or the end of the process: the round is
\* over and the row stays as it is.
Fault ==
    /\ pc # "ready"
    /\ faults < MaxFaults
    /\ faults' = faults + 1
    /\ Release
    /\ UNCHANGED <<now, control, conversation, seenAt, agent, shown>>

\* Seeded fault: any heartbeat may be acknowledged for the agent.
MayAutoAckAnyPhase ==
    /\ Bypass /\ Kind.form \in {"heartbeat", "recovery_heartbeat"}
    /\ ~Away

\* shouldAutoAckHeartbeat: the process samples it reads as well may say no.
MayAutoAck ==
    /\ Bypass /\ Kind.form = "heartbeat"
    /\ ~Away

AutoAck ==
    /\ pc = "deliver"
    /\ MayAutoAck
    /\ Release
    /\ WriteControl(Acked(control[item[2]]))
    /\ UNCHANGED <<now, seenAt, agent, shown, faults>>

IsKeystroke == IsControl /\ Kind.form = "keystroke"

Keystroke ==
    /\ pc = "deliver"
    /\ IsKeystroke
    /\ Release
    /\ \/ /\ WriteControl(Acked(control[item[2]]))
          /\ shown' = shown \cup {item}
       \/ /\ WriteControl(Retried(control[item[2]]))
          /\ UNCHANGED shown
    /\ UNCHANGED <<now, seenAt, agent, faults>>

\* The text is pasted; then the dispatcher sleeps, and presses Enter.
Paste ==
    /\ pc = "deliver"
    /\ ~IsKeystroke
    /\ shown' = shown \cup {item}
    /\ pc' = "verify"
    /\ UNCHANGED <<now, control, conversation, item, seenAt, agent, faults>>

\* Seeded fault: a conversation that could not be verified is not put back.
FailedDropped ==
    /\ Release
    /\ IF IsControl THEN WriteControl(Retried(control[item[2]]))
       ELSE UNCHANGED <<control, conversation>>

\* Conversations are retried for ever, controls MaxRetries times.
Failed ==
    /\ Release
    /\ IF IsControl THEN WriteControl(Retried(control[item[2]]))
       ELSE WriteConversation(RequeuedConversation(conversation[item[2]]))

PasteFails ==
    /\ pc = "deliver"
    /\ ~IsKeystroke
    /\ Failed
    /\ UNCHANGED <<now, seenAt, agent, shown, faults>>

\* A control with an ack suffix now waits for the agent's acknowledgement.
Submitted ==
    /\ pc = "verify"
    /\ Release
    /\ IF ~IsControl
       THEN WriteConversation([conversation[item[2]] EXCEPT !.status = "delivered"])
       ELSE IF Kind.ackSuffix THEN UNCHANGED <<control, conversation>>
       ELSE WriteControl(Acked(control[item[2]]))
    /\ UNCHANGED <<now, seenAt, agent, shown, faults>>

\* The input box did not look empty.  A control counts as submitted all the same
\* unless its process sample, which the model leaves open, or the monitor says the
\* agent is gone.
VerifyFails ==
    /\ pc = "verify"
    /\ Failed
    /\ UNCHANGED <<now, seenAt, agent, shown, faults>>

-----------------------------------------------------------------------------
(* The other processes *)

Receive ==
    /\ \/ \E kind \in ConversationKinds : InsertConversation(kind)
       \/ RewriteConversation
       \/ \E kind \in ControlKinds : InsertControl(kind)
    /\ UNCHANGED dispatcherVars

\* The agent acknowledges a control it has read.
AgentAcks ==
    /\ \E c \in Controls :
          /\ <<"control", c>> \in shown
          /\ control[c].kind.ackSuffix
          /\ control' = [control EXCEPT ![c] = Acked(@)]
    /\ UNCHANGED <<now, conversation, dispatcherVars>>

AgentChanges ==
    /\ agent' \in AgentStates \ {agent}
    /\ UNCHANGED <<now, control, conversation, pc, item, seenAt, shown, faults>>

Sweeps == GetControl /\ UNCHANGED dispatcherVars
Clock == Tick /\ UNCHANGED dispatcherVars

DispatcherStep ==
    \/ Sweep \/ ChooseControl \/ ChooseConversation \/ ChooseNothing \/ Claim
    \/ GateDefers \/ GatePasses \/ AutoAck \/ Keystroke
    \/ Paste \/ PasteFails \/ Submitted \/ VerifyFails

Next ==
    \/ DispatcherStep
    \/ Fault
    \/ Receive \/ AgentAcks \/ AgentChanges
    \/ Sweeps \/ Clock

Spec == Init /\ [][Next]_vars

\* The loop never stops (PM2 restarts it); the gates and the terminal let an item
\* through if it comes up again and again.
FairSpec ==
    /\ Spec
    /\ WF_vars(DispatcherStep)
    /\ SF_vars(GatePasses)
    /\ SF_vars(Paste)
    /\ SF_vars(Submitted)
    /\ WF_vars(Clock)

-----------------------------------------------------------------------------
(* Safety *)

\* A recovery heartbeat, the probe that decides whether the agent is restarted, is done only
\* if it reached the agent (c4-dispatcher.js:226), and so is a command or a key.
DoneWasShown ==
    \A c \in Controls :
        control[c].status = "done" /\ control[c].kind.form # "heartbeat"
            => <<"control", c>> \in shown

\* A message is called delivered because it reached the terminal or because its receiver
\* took it off the queue; and what the receiver took off is not typed as well, or the agent
\* would do a WorkIntake task a second time (c4-receive.js:707, 744).  Only an explicit task
\* may be in the dispatcher's hands by then.
MessagesAccounted ==
    \A m \in Conversations :
        /\ conversation[m].status = "delivered"
              => <<"conversation", m>> \in shown \/ conversation[m].told
        /\ conversation[m].told /\ conversation[m].kind.entry # "task"
              => <<"conversation", m>> \notin shown

-----------------------------------------------------------------------------
(* Action properties and liveness *)

\* Only the dispatcher has written the row's status since it was stored.
Untouched(m) == conversation[m].kind.entry = "plain" \/ conversation[m].owed

\* Messages of one priority reach the agent in the order they arrived, whatever
\* deferrals and retries come between; one that a fault left behind is overtaken, and so is
\* one that its receiver put back into the queue.
OldestFirst ==
    \A m \in Conversations :
        conversation[m].status = "running" /\ conversation'[m].status = "delivered"
            => \A n \in Conversations :
                  /\ conversation[n].status = "pending" /\ Untouched(n)
                  /\ conversation[n].kind.priority = conversation[m].kind.priority
                  => conversation[m].at <= conversation[n].at

\* What becomes of the messages: each is accounted for, and they come in their turn.
MessagesInTurn == [][OldestFirst /\ MessagesAccounted']_vars

\* Every message is delivered when the agent ends up healthy and at rest, unless a
\* fault left it running.
Calm == agent.state = "idle" /\ agent.rested /\ agent.health = "ok"
AllDelivered ==
    <>[]Calm => \A m \in Conversations :
        conversation[m].status = "pending" ~> (conversation[m].status = "delivered" \/ faults > 0)

\* A control with a deadline, like every heartbeat, ends with a verdict that stays:
\* acknowledged, failed, timed out or replaced.  The health engine waits for it.
Settled(c) == control[c].status \in ControlFinal \cup {"deleted"}
VerdictsCome ==
    \A c \in Controls : control[c].deadline \in 1..(MaxTime - 1) ~> []Settled(c)

=============================================================================
