---------------------------- MODULE MCWorkspace ----------------------------
(***************************************************************************)
(* Instances of Workspace for TLC.                                         *)
(***************************************************************************)
EXTENDS Workspace, TLC

CONSTANTS o1, o2, u1, U1, n1, n2, c1, c2, x1, x2, atlas

\* The user who logs in and the Slack user U1 are the same person; x2 is
\* posted under the name of a persona.
MCUserName == u1 :> n1
MCRealName == U1 :> n1
MCChannelOf == x1 :> c1 @@ x2 :> c2
MCAuthorOf == x1 :> U1 @@ x2 :> n2

\* default_project_name is set: every organisation's project has the same name.
MCProjectName == o1 :> atlas @@ o2 :> atlas

Slots == Permutations(Requests) \cup Permutations(Workers)
=============================================================================
