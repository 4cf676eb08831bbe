----------------------------- MODULE Directory -----------------------------
(***************************************************************************)
(* Accounts: a request with a verified token provisions its organisation,  *)
(* the organisation's project and the user's membership (require_user),    *)
(* each with a select, an insert and a commit of its own, beside the       *)
(* Auth0 organisation webhook and the member routes.                       *)
(***************************************************************************)
EXTENDS WorkspaceTables

CONSTANT Requests    \* bound: requests of this kind served at once

VARIABLE requests    \* the requests in flight, and how the last ones ended

Steps == {"idle", "org", "newOrg", "project", "newProject", "member", "newMember",
          "event", "answered", "failed"}
Request == [step : Steps, org : Orgs \cup {None}, user : Users \cup {None}, row : Nat]

NoRequest == [step |-> "idle", org |-> None, user |-> None, row |-> 0]

DirectoryInit == requests = [r \in Requests |-> NoRequest]

Free(r) == requests[r].step \in {"idle", "answered", "failed"}

Goto(r, step, row) ==
    requests' = [requests EXCEPT ![r] = [step |-> step, org |-> requests[r].org,
                                         user |-> requests[r].user, row |-> row]]

NewOrg(o) == orgs' = [orgs EXCEPT ![o] = lastRow + 1] /\ lastRow' = lastRow + 1

MemberRow(o, u) == [org |-> o, kind |-> "login", key |-> u, name |-> UserName[u]]

\* The row the request holds is still the organisation's (its foreign keys hold).
Current(r) == orgs[requests[r].org] = requests[r].row

-----------------------------------------------------------------------------
\* Variants for the mutation runs.

\* The request goes on without a project when its insert failed.
InsertProjectGoesOn(r) ==
    LET o == requests[r].org IN
    /\ requests[r].step = "newProject"
    /\ Goto(r, "member", requests[r].row)
    /\ IF Current(r) /\ \A p \in projects : p.name # ProjectName[o]
         THEN projects' = projects \cup {[org |-> o, name |-> ProjectName[o]]}
         ELSE UNCHANGED projects
    /\ UNCHANGED <<orgs, members, lastRow, slackTables, ops>>

-----------------------------------------------------------------------------
\* require_user.

Login(r, o, u) ==
    /\ Free(r) /\ Start
    /\ requests' = [requests EXCEPT ![r] = [step |-> "org", org |-> o, user |-> u, row |-> 0]]
    /\ UNCHANGED <<directoryTables, members, lastRow, slackTables>>

\* _get_or_create_org. The loser of two inserts reads the winner's row.
FindOrg(r) ==
    /\ requests[r].step = "org"
    /\ Goto(r, IF orgs[requests[r].org] = 0 THEN "newOrg" ELSE "project", orgs[requests[r].org])
    /\ UNCHANGED <<directoryTables, members, lastRow, slackTables, ops>>

InsertOrg(r) ==
    LET o == requests[r].org IN
    /\ requests[r].step = "newOrg"
    /\ IF orgs[o] = 0
         THEN NewOrg(o) /\ Goto(r, "project", lastRow + 1)
         ELSE Goto(r, "project", orgs[o]) /\ UNCHANGED <<orgs, lastRow>>
    /\ UNCHANGED <<projects, members, slackTables, ops>>

\* _ensure_default_project.
FindProject(r) ==
    LET found == Current(r) /\ HasProject(requests[r].org) IN
    /\ requests[r].step = "project"
    /\ Goto(r, IF found THEN "member" ELSE "newProject", requests[r].row)
    /\ UNCHANGED <<directoryTables, members, lastRow, slackTables, ops>>

\* projects.name is unique in the deployment. An integrity error is rolled
\* back, which expires the org object: reading org.id next is an error, and the
\* request is answered with it.
InsertProject(r) ==
    LET o == requests[r].org IN
    /\ requests[r].step = "newProject"
    /\ IF Current(r) /\ \A p \in projects : p.name # ProjectName[o]
         THEN /\ projects' = projects \cup {[org |-> o, name |-> ProjectName[o]]}
              /\ Goto(r, "member", requests[r].row)
         ELSE Goto(r, "failed", requests[r].row) /\ UNCHANGED projects
    /\ UNCHANGED <<orgs, members, lastRow, slackTables, ops>>

\* _provision_membership. A found row takes the token's name; after a lost
\* insert, org.id is read from the expired object again.
FindMember(r) ==
    LET o == requests[r].org
        u == requests[r].user
        found == Current(r) /\ HasMember(o, "login", u)
    IN
    /\ requests[r].step = "member"
    /\ Goto(r, IF found THEN "answered" ELSE "newMember", requests[r].row)
    /\ UNCHANGED <<directoryTables, members, lastRow, slackTables, ops>>

InsertMember(r) ==
    LET o == requests[r].org
        u == requests[r].user
    IN
    /\ requests[r].step = "newMember"
    /\ IF Current(r) /\ ~HasMember(o, "login", u)
         THEN members' = members \cup {MemberRow(o, u)} /\ Goto(r, "answered", requests[r].row)
         ELSE Goto(r, "failed", requests[r].row) /\ UNCHANGED members
    /\ UNCHANGED <<directoryTables, lastRow, slackTables, ops>>

-----------------------------------------------------------------------------
\* The Auth0 webhook: org.created, org.deleted, member.added, member.removed.

OrgCreated(o) ==
    /\ orgs[o] = 0 /\ Start
    /\ NewOrg(o)
    /\ UNCHANGED <<projects, members, slackTables, requests>>

OrgDeleted(o) ==
    /\ orgs[o] # 0 /\ Start
    /\ DeleteOrg(o)
    /\ UNCHANGED <<lastRow, requests>>

\* Reads the organisation and the membership; nothing to do if both are there.
MemberAdded(r, o, u) ==
    /\ Free(r) /\ ~HasMember(o, "login", u) /\ Start
    /\ requests' = [requests EXCEPT ![r] = [step |-> "event", org |-> o, user |-> u, row |-> orgs[o]]]
    /\ UNCHANGED <<directoryTables, members, lastRow, slackTables>>

\* One commit for what was missing: the event is lost if any of it is there by
\* then, or the organisation is gone.
CommitAdded(r) ==
    LET o == requests[r].org
        u == requests[r].user
    IN
    /\ requests[r].step = "event"
    /\ IF Current(r) /\ ~HasMember(o, "login", u)
         THEN /\ members' = members \cup {MemberRow(o, u)}
              /\ IF orgs[o] = 0 THEN NewOrg(o) ELSE UNCHANGED <<orgs, lastRow>>
         ELSE UNCHANGED <<orgs, lastRow, members>>
    /\ requests' = [requests EXCEPT ![r] = NoRequest]
    /\ UNCHANGED <<projects, slackTables, ops>>

MemberRemoved(o, u) ==
    /\ HasMember(o, "login", u) /\ Start
    /\ DeleteMembers({m \in members : m.org = o /\ m.kind = "login" /\ m.key = u})
    /\ UNCHANGED <<directoryTables, lastRow, connector, ingest, raw, requests>>

-----------------------------------------------------------------------------
\* POST /members: an admin adds a persona.
CreateMember(u, n) ==
    /\ HasMember(Home, "login", u) /\ ~HasMember(Home, "persona", n) /\ Start
    /\ members' = members \cup {[org |-> Home, kind |-> "persona", key |-> n, name |-> n]}
    /\ UNCHANGED <<directoryTables, lastRow, slackTables, requests>>

RequestStep(r) ==
    \/ FindOrg(r) \/ InsertOrg(r) \/ FindProject(r) \/ InsertProject(r)
    \/ FindMember(r) \/ InsertMember(r) \/ CommitAdded(r)

Arrival ==
    \/ \E r \in Requests, o \in Orgs, u \in Users : Login(r, o, u) \/ MemberAdded(r, o, u)
    \/ \E o \in Orgs : OrgCreated(o) \/ OrgDeleted(o)
    \/ \E o \in Orgs, u \in Users : MemberRemoved(o, u)
    \/ \E u \in Users, n \in Names : CreateMember(u, n)

DirectoryStep == Arrival \/ \E r \in Requests : RequestStep(r)

-----------------------------------------------------------------------------
RequestsTypeOK == requests \in [Requests -> Request]

\* Two first requests race for the organisation, the project and the
\* membership; still an organisation has at most one project, and a request is
\* only answered once its organisation, if nobody deleted it since, has one.
Housed ==
    /\ \A p, q \in projects : p.org = q.org => p = q
    /\ \A r \in Requests :
          requests[r].step = "answered" /\ Current(r) => HasProject(requests[r].org)
=============================================================================
