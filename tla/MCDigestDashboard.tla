------------------------- MODULE MCDigestDashboard -------------------------
(***************************************************************************)
(* Instances of DigestDashboard for TLC.                                   *)
(***************************************************************************)
EXTENDS DigestDashboard

\* Every signal is for every member.
AllRelevant == Members \X Threads

\* The model cites every signal there is, given to it or not.  A dashboard
\* shows the messages a digest cites but decides nothing by them.
EverySignal == {<<{}, Threads>>}
=============================================================================
