------------------------ MODULE MCDigestGeneration -------------------------
(***************************************************************************)
(* Instances of DigestGeneration for TLC.                                  *)
(***************************************************************************)
EXTENDS DigestGeneration, TLC

\* Every signal is for every member.
AllRelevant == Members \X Threads

\* The model cites every thread there is, given to it or not.
EveryThread == {<<Threads, Threads>>}

WorkerSymmetry == Permutations(Workers)
=============================================================================
