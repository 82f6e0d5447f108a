---------------------------- MODULE MCReplyOutbox ----------------------------
(***************************************************************************)
(* ReplyOutbox for TLC.                                                    *)
(***************************************************************************)
EXTENDS ReplyOutbox, TLC

CONSTANTS w1, w2

\* Workers differ in nothing but their names.
WorkerSymmetry == Permutations({w1, w2})
=============================================================================
