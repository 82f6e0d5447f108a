-------------------------- MODULE MCResponseStream --------------------------
(* ResponseTurns for TLC. *)
EXTENDS ResponseTurns

\* A tool begins and ends, and the answer is shown in batches.
Step(kind, final) == [kind |-> kind, final |-> final]
ToolsAndAnswers ==
    {Step("tool", FALSE), Step("post", FALSE), Step("reasoning", FALSE), Step("answer", FALSE), Step("answer", TRUE)}
=============================================================================
