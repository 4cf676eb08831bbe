----------------------------- MODULE Workspace -----------------------------
(***************************************************************************)
(* Accounts and the Slack connector together: logins and organisation      *)
(* events run beside syncs, routes and disconnects, and meet in the        *)
(* organisation's row and in its memberships.                              *)
(***************************************************************************)
EXTENDS Directory, SlackSource

vars == <<tables, lastRow, ops, requests, source>>

Init ==
    /\ TablesInit \/ \E u \in Users : TablesConnected(u)
    /\ DirectoryInit /\ SourceInit

\* A membership of Home that goes takes the links to it along; deleting Home is
\* also the end of what Slack brought.
Accounts ==
    /\ DirectoryStep
    /\ jobs' = Unlinked({Sub(m) : m \in {k \in members \ members' : k.org = Home}})
    /\ IF orgs[Home] # 0 /\ orgs'[Home] = 0 THEN SourceDeleted ELSE UNCHANGED <<queue, dirty>>

Next == Accounts \/ (SourceStep /\ UNCHANGED requests)

Spec == Init /\ [][Next]_vars
-----------------------------------------------------------------------------
TypeOK == TablesTypeOK /\ RequestsTypeOK /\ SourceTypeOK

\* A disconnect deletes the memberships Slack brought, those alone: who logged
\* in, or was added by an administrator, stays a member until member.removed
\* or the deletion of the organisation.
LoginsSurvive ==
    [][\A k \in members : k.kind # "slack" /\ k \notin members' =>
          orgs'[k.org] = 0 \/ MemberRemoved(k.org, k.key)]_vars

\* The switch of a channel is the administrator's: syncs upsert the channel
\* and leave it as it is.
FlagKept ==
    [][\A c \in Channels : ingest[c] # "none" /\ ingest'[c] \notin {ingest[c], "none"} =>
          ToggleChannel(c)]_vars
=============================================================================
