---------------------------- MODULE MCAssistantRun ----------------------------
(* Instances of AssistantRun for TLC. *)
EXTENDS AssistantRun, TLC

CONSTANTS k1, k2, p1, p2, lane1, lane2, x1, x2

\* One message per key: its sender redelivers it unchanged.
Message(k, lane, priority, class, replyMode) ==
    [idempotency |-> k, transport |-> k, logical |-> k, payload |-> p1,
     lane |-> lane, priority |-> priority, class |-> class, replyMode |-> replyMode]

\* Two messages of one conversation, the later one more urgent.
Conversation ==
    {Message(k1, lane1, 2, "ordinary", "required"), Message(k2, lane1, 1, "ordinary", "none")}

\* A maintenance request of another conversation, which waits for an idle runtime.
Maintenance == Message(k2, lane2, 1, "maintenance", "optional")

\* The first message again under some of its keys only, as it was and with other
\* contents.
Redeliveries ==
    LET m == Message(k1, lane1, 2, "ordinary", "required")
    IN  {[m EXCEPT !.logical = k2], [m EXCEPT !.transport = k2, !.payload = p2]}

LifecycleCommands == Conversation \cup {Maintenance} \cup Redeliveries
\* Cancel keys differ in nothing but their names.
CancelSymmetry == Permutations({x1, x2})
=============================================================================
