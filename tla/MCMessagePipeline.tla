-------------------------- MODULE MCMessagePipeline --------------------------
(***************************************************************************)
(* Instances of MessagePipeline for TLC.                                   *)
(***************************************************************************)
EXTENDS MessagePipeline, TLC

CONSTANTS none, w1, w2, s1

\* Message 1 starts a thread and the others reply to it.
OneThread == [e \in Events |-> IF e = 1 THEN None ELSE 1]

WorkerSymmetry == Permutations(Workers)
=============================================================================
