---------------------------- MODULE ReplyDelivery ----------------------------
(***************************************************************************)
(* What the reply intent outbox promises about each intent, without rows,  *)
(* leases or workers.  A delivery is tried at most MaxAttempts times before *)
(* somebody asks for it again; once a try has started, the next one starts *)
(* only after the delivery is known to be refused; when nobody knows what  *)
(* the last try did, the delivery is in doubt and stays so until somebody  *)
(* finds out; an accepted delivery is over.                                *)
(***************************************************************************)
EXTENDS Naturals

CONSTANTS
    Intents,      \* the reply intents
    MaxAttempts   \* tries between two redrives

VARIABLES
    phase,  \* what is known of each delivery
    tries   \* tries since the intent was committed or last redriven

vars == <<phase, tries>>

Phases == {"absent", "due", "trying", "in_doubt", "accepted", "exhausted"}

Init ==
    /\ phase \in [Intents -> {"absent", "in_doubt"}]
    /\ tries = [i \in Intents |-> IF phase[i] = "absent" THEN 0 ELSE 1]

Becomes(i, p, n) == phase'[i] = p /\ tries'[i] = n

Commit(i) == phase[i] = "absent" /\ Becomes(i, "due", 0)

Try(i) ==
    /\ phase[i] = "due"
    /\ tries[i] < MaxAttempts
    /\ Becomes(i, "trying", tries[i] + 1)

Doubt(i) == phase[i] = "trying" /\ Becomes(i, "in_doubt", tries[i])

Accept(i) == phase[i] \in {"trying", "in_doubt"} /\ Becomes(i, "accepted", tries[i])

Refuse(i) ==
    /\ phase[i] \in {"trying", "in_doubt"}
    /\ \/ tries[i] < MaxAttempts /\ Becomes(i, "due", tries[i])
       \/ Becomes(i, "exhausted", tries[i])

Redrive(i) == phase[i] = "exhausted" /\ Becomes(i, "due", 0)

Stay(i) == Becomes(i, phase[i], tries[i])

Move(i) ==
    \/ Commit(i) \/ Try(i) \/ Doubt(i) \/ Accept(i) \/ Refuse(i) \/ Redrive(i)
    \/ Stay(i)

\* One transaction of the outbox may move several deliveries.
Next ==
    /\ phase' \in [Intents -> Phases]
    /\ tries' \in [Intents -> 0..MaxAttempts]
    /\ \A i \in Intents : Move(i)

Spec == Init /\ [][Next]_vars
=============================================================================
