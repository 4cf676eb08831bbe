-------------------------- MODULE WorkspaceTables --------------------------
(***************************************************************************)
(* The tables that accounts and the Slack connector share: organisations,  *)
(* projects, memberships, and the Slack rows of one organisation, Home.    *)
(* A table is a set of rows, or a function where its unique index makes it *)
(* one; ON DELETE clauses are the operators at the end.                    *)
(***************************************************************************)
EXTENDS Integers, FiniteSets

CONSTANTS
    Orgs, Home,          \* organisations of Auth0, and the one Slack is installed in
    Users, UserName,     \* Auth0 users and the display name of each
    ProjectName,         \* default_project_name, or the organisation's name
    Uids, RealName,      \* Slack user ids, and the real name users_info answers
    Names,               \* display names; persona messages are posted under one
    Channels, Messages,  \* what the Slack workspace holds
    ChannelOf, AuthorOf, \* channel of a message, and the id or name it is posted under
    None,
    MaxOps               \* bound: operations started, of every kind

Labels == Uids \cup Names

ASSUME WorkspaceAssumption ==
    /\ Home \in Orgs
    /\ UserName \in [Users -> Names] /\ RealName \in [Uids -> Names]
    /\ ChannelOf \in [Messages -> Channels] /\ AuthorOf \in [Messages -> Labels]
    /\ \A u \in Uids : RealName[u] \notin Uids \ {u}    \* nobody is named as another's id
    /\ MaxOps \in Nat /\ None \notin Orgs \cup Users \cup Labels \cup Channels \cup Messages

VARIABLES
    orgs,       \* row id of each organisation, 0 when it has none
    lastRow,    \* the last row id given out
    projects,   \* rows of projects
    members,    \* rows of org_memberships
    connector,  \* row id of Home's Slack connector, 0 when not installed
    ingest,     \* the flag of each connector_channels row, "none" without a row
    raw,        \* Slack messages with a row in raw_events
    messages,   \* row of each Slack message in messages
    ops         \* operations started

directoryTables == <<orgs, projects>>
slackTables == <<connector, ingest, raw, messages>>
tables == <<directoryTables, members, slackTables>>

Project == [org : Orgs, name : {ProjectName[o] : o \in Orgs}]

\* A membership row: its sub is an Auth0 user, "slack:" and the label a message
\* was posted under (slack_user_id is that label), or "persona:" and a new id.
Member == [org : Orgs, kind : {"login", "slack", "persona"},
           key : Users \cup Labels, name : Labels]
Sub(m) == [kind |-> m.kind, key |-> m.key]
Subs == [kind : {"login", "slack", "persona"}, key : Users \cup Labels]

\* A message row: the membership of its author and the name it shows.
Row == [author : Subs \cup {None}, label : Labels]

HasProject(o) == \E p \in projects : p.org = o
HasMember(o, kind, key) == \E m \in members : m.org = o /\ m.kind = kind /\ m.key = key

TablesInit ==
    /\ orgs = [o \in Orgs |-> 0] /\ lastRow = 0
    /\ projects = {} /\ members = {}
    /\ connector = 0
    /\ ingest = [c \in Channels |-> "none"]
    /\ raw = {}
    /\ messages = [m \in Messages |-> None]
    /\ ops = 0

\* A workspace where a user logged in and Slack was installed and synced once,
\* its channels still empty.
TablesConnected(u) ==
    /\ orgs = [o \in Orgs |-> IF o = Home THEN 1 ELSE 0] /\ lastRow = 2
    /\ projects = {[org |-> Home, name |-> ProjectName[Home]]}
    /\ members = {[org |-> Home, kind |-> "login", key |-> u, name |-> UserName[u]]}
    /\ connector = 2
    /\ ingest = [c \in Channels |-> "on"]
    /\ raw = {}
    /\ messages = [m \in Messages |-> None]
    /\ ops = 0

Start == ops < MaxOps /\ ops' = ops + 1

\* messages.author_membership_id is set to NULL with its membership.
Unlink(gone) ==
    [m \in Messages |->
       IF messages[m] # None /\ messages[m].author \in gone
         THEN [messages[m] EXCEPT !.author = None] ELSE messages[m]]

DeleteMembers(gone) ==
    /\ members' = members \ gone
    /\ messages' = Unlink({Sub(m) : m \in {g \in gone : g.org = Home}})

\* Variant for the mutation runs: the projects do not cascade.
CascadedProjectsKept(o) == projects

CascadedProjects(o) == {p \in projects : p.org # o}

\* Every table refers to orgs with ON DELETE CASCADE.
DeleteOrg(o) ==
    /\ orgs' = [orgs EXCEPT ![o] = 0]
    /\ projects' = CascadedProjects(o)
    /\ members' = {m \in members : m.org # o}
    /\ IF o = Home
         THEN /\ connector' = 0 /\ raw' = {}
              /\ ingest' = [c \in Channels |-> "none"]
              /\ messages' = [m \in Messages |-> None]
         ELSE UNCHANGED slackTables

\* Every row is of its table's type, and the foreign keys hold.
TablesTypeOK ==
    /\ \A p \in projects : orgs[p.org] # 0
    /\ \A m \in members : orgs[m.org] # 0
    /\ connector # 0 => orgs[Home] # 0
    /\ \A c \in Channels : ingest[c] # "none" => connector # 0
    /\ orgs \in [Orgs -> Nat] /\ lastRow \in Nat
    /\ projects \subseteq Project /\ members \subseteq Member
    /\ connector \in Nat
    /\ ingest \in [Channels -> {"none", "on", "off"}]
    /\ raw \subseteq Messages
    /\ messages \in [Messages -> Row \cup {None}]
    /\ ops \in 0..MaxOps
=============================================================================
