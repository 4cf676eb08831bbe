-------------------------- MODULE WorkspaceProofs --------------------------
(***************************************************************************)
(* Proofs about Workspace, for any organisations, users, Slack workspace,  *)
(* jobs at once and bound: types and foreign keys, the project of every    *)
(* answered request, one membership per Slack id, what a disconnect        *)
(* leaves, and what a sync stored.                                         *)
(***************************************************************************)
EXTENDS Workspace, TLAPS

-----------------------------------------------------------------------------
\* What holds of a job between any two steps: c is the connector's row, rows
\* the messages.

Syncing == {"channels", "history", "each", "insert", "done"}

\* A sync below its cap has stored what it went through, if the connector it
\* loaded is still there.
Fetched(j, c, rows) ==
    j.step \in Syncing =>
        /\ j.connector # 0
        /\ j.step # "history" => j.left = {}
        /\ j.step = "history" => /\ j.channel \in Channels
                                 /\ \A m \in j.left : ChannelOf[m] = j.channel
        /\ j.step \in {"each", "insert", "done"} => j.channels = {}
        /\ j.connector = c /\ ~(Cap > 0 /\ j.total >= Cap) =>
             \A m \in Messages :
                ChannelOf[m] \notin j.channels \cup j.failed /\ m \notin j.left => rows[m] # None

Held(j) ==
    /\ j.step \in {"event", "author", "lookup", "create"} => j.msg \in Messages
    /\ j.step \in {"lookup", "create", "insert"} => j.author \in Labels
    /\ j.step \in {"create", "insert"} => j.name \in Labels
    /\ j.made # {} => j.step \in {"commit", "each", "insert"}
    /\ j.step \notin {"idle", "done"} => j.org # 0

Fit(j, c, rows) == j \in Job /\ Held(j) /\ Fetched(j, c, rows)

JobsFit == \A w \in Workers : Fit(jobs[w], connector, messages)

\* Nobody else has, or is about to have, a membership a job has not committed.
Uncommitted(made, others) ==
    /\ \A n \in made : ~ \E k \in others : k.org = Home /\ k.kind = "slack" /\ k.key = n.key
    /\ \A n, o \in made : n.key = o.key => n = o

MadeApart ==
    /\ \A w \in Workers : Uncommitted(jobs[w].made, members)
    /\ \A w, v \in Workers : \A n \in jobs[w].made, o \in jobs[v].made : n.key = o.key => w = v

Tables ==
    /\ orgs \in [Orgs -> Nat] /\ lastRow \in Nat /\ ops \in 0..MaxOps
    /\ projects \subseteq Project /\ members \subseteq Member
    /\ connector \in Nat /\ ingest \in [Channels -> {"none", "on", "off"}]
    /\ raw \subseteq Messages /\ messages \in [Messages -> Row \cup {None}]
    /\ queue \subseteq Messages /\ jobs \in [Workers -> Job] /\ dirty \in {"yes", "no"}
    /\ requests \in [Requests -> Request]

ForeignKeys ==
    /\ \A p \in projects : orgs[p.org] # 0
    /\ \A m \in members : orgs[m.org] # 0
    /\ connector # 0 => orgs[Home] # 0
    /\ \A c \in Channels : ingest[c] # "none" => connector # 0
    /\ orgs[Home] = 0 => queue = {}

\* Ids are given out once, in order.
Ids ==
    /\ \A o \in Orgs : orgs[o] <= lastRow
    /\ connector <= lastRow
    /\ \A w \in Workers : jobs[w].connector <= lastRow
    /\ \A r \in Requests : requests[r].row <= lastRow

\* A request whose organisation is still there has found it or made it, and
\* its project too once it looks for the membership.
RequestFit(q, ids, rows) ==
    /\ q.step # "idle" => q.org \in Orgs /\ q.user \in Users
    /\ q.step \in {"project", "newProject", "member", "newMember", "answered"} => q.row # 0
    /\ q.step \in {"member", "newMember", "answered"} /\ ids[q.org] = q.row =>
          \E p \in rows : p.org = q.org

RequestsFit ==
    /\ \A r \in Requests : RequestFit(requests[r], orgs, projects)
    /\ \A p \in projects : p.name = ProjectName[p.org]

\* With the connector gone and no job running at the purge, none can start.
Quiet == connector = 0 /\ dirty = "no" => queue = {} /\ \A w \in Workers : ~Running(w)

Inv ==
    /\ Tables /\ ForeignKeys /\ Ids /\ RequestsFit /\ JobsFit
    /\ MadeApart /\ OneMemberPerUid /\ Quiet /\ Purged

Assumed == WorkspaceAssumption /\ SourceAssumption /\ LinkAssumption

-----------------------------------------------------------------------------
\* Lemmas about the operators.

\* What users_info answers is a name or an id.
LEMMA ResolvedLabels ==
    ASSUME Assumed, NEW l \in Labels, NEW n \in Resolved(l)
    PROVE  n \in Labels
BY DEF Assumed, WorkspaceAssumption, Resolved, Labels

\* A message is posted under a label, and its new row shows it.
LEMMA AuthorLabel ==
    ASSUME Assumed, NEW m \in Messages
    PROVE  AuthorOf[m] \in Labels /\ Posted(m) \in Row /\ Posted(m) # None
<1>1. AuthorOf[m] \in Labels /\ None \notin Row
    BY DEF Assumed, WorkspaceAssumption, SourceAssumption
<1> QED
    BY <1>1 DEF Posted, Row

\* Who a job sees is a member.
LEMMA VisibleTyped ==
    ASSUME Assumed, Tables, NEW w \in Workers, NEW k \in Visible(w)
    PROVE  k \in Member /\ Sub(k) \in Subs /\ k.name \in Labels
<1>1. jobs[w].made \subseteq Made /\ Home \in Orgs
    BY DEF Tables, Job, Assumed, WorkspaceAssumption
<1>2. k \in Member
    BY <1>1 DEF Visible, MadeRows, Tables, Member, Made
<1> QED
    BY <1>2 DEF Member, Sub, Subs

\* Collecting an update keeps the type of a job's links.
LEMMA LinkedTyped ==
    ASSUME NEW links \in [Labels -> Link \cup {None}], NEW l, NEW sub \in Subs, NEW n \in Labels
    PROVE  Linked(links, l, sub, n) \in [Labels -> Link \cup {None}]
BY DEF Linked, Link

\* A stored message is a row, and stays one.
LEMMA StoredRow ==
    ASSUME Assumed, Tables, NEW m \in Messages
    PROVE  Stored(m) \in Row /\ Stored(m) # None
BY AuthorLabel DEF Stored, Tables, Assumed, SourceAssumption

\* Links keep rows rows.
LEMMA LinkedRows ==
    ASSUME Assumed, Tables, NEW w \in Workers, NEW rows \in [Messages -> Row \cup {None}]
    PROVE  /\ LinkRows(w, rows) \in [Messages -> Row \cup {None}]
           /\ \A m \in Messages : rows[m] # None => LinkRows(w, rows)[m] # None
<1>1. jobs[w].links \in [Labels -> Link \cup {None}]
    BY DEF Tables, Job
<1>2. ASSUME NEW m \in Messages, rows[m] # None
      PROVE  LinkRows(w, rows)[m] \in Row
  <2>1. rows[m] \in Row /\ rows[m].label \in Labels
    BY <1>2 DEF Row
  <2>2. jobs[w].links[rows[m].label] \in Link \cup {None}
    BY <1>1, <2>1
  <2> QED
    BY <1>2, <2>1, <2>2 DEF LinkRows, Row, Link
<1>3. ASSUME NEW m \in Messages, rows[m] = None
      PROVE  LinkRows(w, rows)[m] = None
    BY <1>3 DEF LinkRows
<1> QED
    BY <1>2, <1>3 DEF LinkRows, Assumed, SourceAssumption

\* And so does the commit.
LEMMA CommitRows ==
    ASSUME Assumed, Tables, NEW w \in Workers, NEW rows, Commit(w, rows)
    PROVE  /\ members' = members \cup MadeRows(w) /\ members' \subseteq Member
           /\ messages' = rows
<1>1. jobs[w].made \subseteq Made /\ Home \in Orgs
    BY DEF Tables, Job, Assumed, WorkspaceAssumption
<1> QED
    BY <1>1 DEF Commit, MadeRows, Tables, Member, Made

\* Deleting memberships keeps the rows.
LEMMA UnlinkRows ==
    ASSUME Assumed, Tables, NEW gone
    PROVE  /\ Unlink(gone) \in [Messages -> Row \cup {None}]
           /\ \A m \in Messages : messages[m] # None <=> Unlink(gone)[m] # None
<1>1. \A m \in Messages : messages[m] # None =>
         messages[m] \in Row /\ [messages[m] EXCEPT !.author = None] \in Row
    BY DEF Tables, Row
<1>2. None \notin Row
    BY DEF Assumed, SourceAssumption
<1> QED
    BY <1>1, <1>2 DEF Unlink, Tables

-----------------------------------------------------------------------------
\* What a job's step does to the job itself: w becomes j, and its memberships
\* are kept, committed or dropped, or there is one more nobody has.

SameIds(a, b) == a.msg = b.msg /\ a.connector = b.connector /\ a.org = b.org
SameSync(a, b) ==
    /\ a.channels = b.channels /\ a.channel = b.channel /\ a.left = b.left
    /\ a.total = b.total /\ a.failed = b.failed
SameAuthor(a, b) == a.author = b.author /\ a.name = b.name

Moves(w, j) ==
    /\ Set(w, j) /\ Fit(j, connector, messages')
    /\ j.connector \in {0, jobs[w].connector, connector}
    /\ \/ j.made = jobs[w].made /\ members' = members
       \/ j.made = {} /\ members' \in {members, members \cup MadeRows(w)}
       \/ /\ members' = members
          /\ \E l, n : /\ j.made = jobs[w].made \cup {[key |-> l, name |-> n]}
                       /\ ~MemberLocked(w, l) /\ ~Taken(w, l)

\* Nothing is required of what a route has fetched.
LEMMA RouteFits ==
    ASSUME NEW j \in Job, Held(j), j.step \notin Syncing, NEW c, NEW rows
    PROVE  Fit(j, c, rows)
BY DEF Fit, Fetched

\* A slot that runs nothing.
LEMMA IdleFits ==
    ASSUME Assumed, NEW c, NEW rows
    PROVE  /\ NoJob \in Job /\ Fit(NoJob, c, rows) /\ NoJob.made = {} /\ NoJob.connector = 0
           /\ NoJob.step = "idle"
<1>1. NoLinks \in [Labels -> Link \cup {None}]
    BY DEF NoLinks
<1>2. NoJob \in Job
    BY <1>1 DEF NoJob, Job
<1>3. NoJob.step = "idle" /\ NoJob.made = {} /\ NoJob.connector = 0
    BY DEF NoJob
<1> QED
    BY <1>2, <1>3, RouteFits DEF Held, Syncing

\* A job that ends, in a step that commits its memberships or drops them.
LEMMA EndMoves ==
    ASSUME Assumed, NEW w \in Workers, End(w), members' \in {members, members \cup MadeRows(w)}
    PROVE  Moves(w, NoJob)
BY IdleFits DEF End, Moves

\* What the invariant says of one job.
LEMMA JobNow ==
    ASSUME Inv, NEW w \in Workers
    PROVE  jobs[w] \in Job /\ Fit(jobs[w], connector, messages) /\ Held(jobs[w])
           /\ Fetched(jobs[w], connector, messages)
BY DEF Inv, JobsFit, Fit

-----------------------------------------------------------------------------
\* The route task and the webhook.

\* A webhook request loads its connector.
LEMMA WebhookMoves ==
    ASSUME Assumed, Inv, NEW w \in Workers, NEW m \in Messages, Webhook(w, m)
    PROVE  \E j : Moves(w, j)
<1> DEFINE j == [NoJob EXCEPT !.step = "event", !.msg = m, !.org = orgs[Home]]
<1>1. /\ Home \in Orgs /\ orgs[Home] \in Nat /\ orgs[Home] # 0
      /\ NoLinks \in [Labels -> Link \cup {None}] /\ members' = members /\ Set(w, j)
    BY DEF Assumed, WorkspaceAssumption, Inv, Tables, ForeignKeys, NoLinks, Webhook, tables
<1>2. /\ j \in Job /\ j.step = "event" /\ j.msg = m /\ j.org = orgs[Home] /\ j.made = {}
      /\ j.connector = 0
    BY <1>1 DEF NoJob, Job
<1> HIDE DEF j
<1>3. Fit(j, connector, messages')
    BY <1>1, <1>2, RouteFits DEF Held, Syncing
<1> QED
    BY <1>1, <1>2, <1>3 DEF Moves

\* A route task is taken from the broker.
LEMMA StartRouteMoves ==
    ASSUME Assumed, Inv, NEW w \in Workers, NEW m \in Messages, StartRoute(w, m)
    PROVE  \E j : Moves(w, j)
<1> DEFINE stored == IF messages[m] = None THEN "no" ELSE "yes"
           j == [NoJob EXCEPT !.step = "author", !.msg = m, !.org = orgs[Home], !.stored = stored]
<1>1. /\ Home \in Orgs /\ orgs[Home] \in Nat /\ orgs[Home] # 0
      /\ NoLinks \in [Labels -> Link \cup {None}] /\ members' = members /\ Set(w, j)
      /\ stored \in {"yes", "no"}
    BY DEF Assumed, WorkspaceAssumption, Inv, Tables, ForeignKeys, NoLinks, StartRoute, tables
<1> HIDE DEF stored
<1>2. /\ j \in Job /\ j.step = "author" /\ j.msg = m /\ j.org = orgs[Home] /\ j.made = {}
      /\ j.connector = 0
    BY <1>1 DEF NoJob, Job
<1> HIDE DEF j
<1>3. Fit(j, connector, messages')
    BY <1>1, <1>2, RouteFits DEF Held, Syncing
<1> QED
    BY <1>1, <1>2, <1>3 DEF Moves

\* The job and its links take a member's.
LEMMA LinksMove ==
    ASSUME Assumed, Inv, NEW w \in Workers, NEW l, NEW sub \in Subs, NEW n \in Labels,
           jobs[w].step \in {"author", "lookup"}, UNCHANGED members,
           Set(w, [jobs[w] EXCEPT !.step = "commit", !.links = Linked(@, l, sub, n)])
    PROVE  \E j : Moves(w, j)
<1> DEFINE i == jobs[w]
           links == Linked(i.links, l, sub, n)
<1>1. i \in Job /\ Held(i)
    BY JobNow
<1>2. links \in [Labels -> Link \cup {None}]
    BY <1>1, LinkedTyped DEF Job
<1> HIDE DEF links
<1> DEFINE a == [i EXCEPT !.step = "commit"]
             j == [a EXCEPT !.links = links]
<1>3. /\ a \in Job /\ SameIds(a, i) /\ SameSync(a, i) /\ SameAuthor(a, i)
      /\ a.made = i.made /\ a.step = "commit"
    BY <1>1 DEF Job, SameIds, SameSync, SameAuthor
<1>4. [i EXCEPT !.step = "commit", !.links = links] = j
    OBVIOUS
<1> HIDE DEF a
<1>5. /\ j \in Job /\ SameIds(j, i) /\ SameSync(j, i) /\ SameAuthor(j, i)
      /\ j.made = i.made /\ j.step = "commit"
    BY <1>3, <1>2 DEF Job, SameIds, SameSync, SameAuthor
<1> HIDE DEF j
<1>6. Set(w, j)
    BY <1>4 DEF links
<1>7. Fit(j, connector, messages')
    BY <1>1, <1>5, RouteFits DEF Held, Syncing, SameIds
<1> QED
    BY <1>5, <1>6, <1>7 DEF Moves, SameIds

\* A route looks for its author's membership by Slack id.
LEMMA RouteAuthorMoves ==
    ASSUME Assumed, Inv, NEW w \in Workers, RouteAuthor(w)
    PROVE  \E j : Moves(w, j)
<1> DEFINE i == jobs[w]
           label == AuthorOf[i.msg]
<1>1. i \in Job /\ Held(i) /\ i.step = "author" /\ i.msg \in Messages /\ members' = members
    BY JobNow DEF RouteAuthor, tables, Held
<1>2. label \in Labels
    BY <1>1, AuthorLabel
<1>3. CASE \E k \in ByUid(w, label) :
             Set(w, [i EXCEPT !.step = "commit", !.links = Linked(@, label, Sub(k), k.name)])
  <2>1. PICK k \in ByUid(w, label) :
             Set(w, [i EXCEPT !.step = "commit", !.links = Linked(@, label, Sub(k), k.name)])
    BY <1>3
  <2>2. Sub(k) \in Subs /\ k.name \in Labels
    BY VisibleTyped DEF ByUid, Inv
  <2> QED
    BY <1>1, <2>1, <2>2, LinksMove
<1>4. CASE Set(w, [i EXCEPT !.step = "lookup", !.author = label])
  <2> DEFINE a == [i EXCEPT !.step = "lookup"]
               j == [a EXCEPT !.author = label]
  <2>1. /\ a \in Job /\ SameIds(a, i) /\ SameSync(a, i) /\ SameAuthor(a, i)
        /\ a.made = i.made /\ a.step = "lookup"
      BY <1>1 DEF Job, SameIds, SameSync, SameAuthor
  <2>2. [i EXCEPT !.step = "lookup", !.author = label] = j
      OBVIOUS
  <2> HIDE DEF a
  <2>3. /\ j \in Job /\ SameIds(j, i) /\ SameSync(j, i) /\ j.author = label
        /\ j.name = i.name /\ j.made = i.made /\ j.step = "lookup"
      BY <2>1, <1>2 DEF Job, SameIds, SameSync, SameAuthor
  <2> HIDE DEF j
  <2>4. Fit(j, connector, messages')
    BY <1>1, <1>2, <2>3, RouteFits DEF Held, Syncing, SameIds
  <2> QED
    BY <1>1, <1>4, <2>2, <2>3, <2>4 DEF Moves, SameIds
<1>5. CASE Set(w, [i EXCEPT !.step = "commit"])
  <2> DEFINE j == [i EXCEPT !.step = "commit"]
  <2>1. /\ j \in Job /\ SameIds(j, i) /\ SameSync(j, i) /\ SameAuthor(j, i)
        /\ j.made = i.made /\ j.step = "commit"
      BY <1>1 DEF Job, SameIds, SameSync, SameAuthor
  <2> HIDE DEF j
  <2>2. Set(w, j)
    BY <1>5 DEF j
  <2>3. Fit(j, connector, messages')
    BY <1>1, <2>1, RouteFits DEF Held, Syncing, SameIds
  <2> QED
    BY <1>1, <2>1, <2>2, <2>3 DEF Moves, SameIds
<1> QED
    BY <1>3, <1>4, <1>5 DEF RouteAuthor

\* And then by name.
LEMMA RouteLookupMoves ==
    ASSUME Assumed, Inv, NEW w \in Workers, RouteLookup(w)
    PROVE  \E j : Moves(w, j)
<1> DEFINE i == jobs[w]
<1>1. i \in Job /\ Held(i) /\ i.step = "lookup" /\ i.author \in Labels /\ members' = members
      /\ i.msg \in Messages
    BY JobNow DEF RouteLookup, tables, Held
<1>2. PICK n \in Resolved(i.author) :
          \/ \E k \in ByName(w, n) :
                Set(w, [i EXCEPT !.step = "commit", !.links = Linked(@, i.author, Sub(k), n)])
          \/ Set(w, [i EXCEPT !.step = "create", !.name = n])
    BY DEF RouteLookup
<1>3. n \in Labels
    BY <1>1, ResolvedLabels
<1>4. CASE \E k \in ByName(w, n) :
                Set(w, [i EXCEPT !.step = "commit", !.links = Linked(@, i.author, Sub(k), n)])
  <2>1. PICK k \in ByName(w, n) :
             Set(w, [i EXCEPT !.step = "commit", !.links = Linked(@, i.author, Sub(k), n)])
    BY <1>4
  <2>2. Sub(k) \in Subs
    BY VisibleTyped DEF ByName, Inv
  <2> QED
    BY <1>1, <1>3, <2>1, <2>2, LinksMove
<1>5. CASE Set(w, [i EXCEPT !.step = "create", !.name = n])
  <2> DEFINE a == [i EXCEPT !.step = "create"]
               j == [a EXCEPT !.name = n]
  <2>1. /\ a \in Job /\ SameIds(a, i) /\ SameSync(a, i) /\ SameAuthor(a, i)
        /\ a.made = i.made /\ a.step = "create"
      BY <1>1 DEF Job, SameIds, SameSync, SameAuthor
  <2>2. [i EXCEPT !.step = "create", !.name = n] = j
      OBVIOUS
  <2> HIDE DEF a
  <2>3. /\ j \in Job /\ SameIds(j, i) /\ SameSync(j, i) /\ j.author = i.author /\ j.name = n
        /\ j.made = i.made /\ j.step = "create"
      BY <2>1, <1>3 DEF Job, SameIds, SameSync, SameAuthor
  <2> HIDE DEF j
  <2>4. Fit(j, connector, messages')
    BY <1>1, <1>3, <2>3, RouteFits DEF Held, Syncing, SameIds
  <2> QED
    BY <1>1, <1>5, <2>2, <2>3, <2>4 DEF Moves, SameIds
<1> QED
    BY <1>2, <1>4, <1>5

\* It inserts the membership, or is ended by the row that is there.
LEMMA RouteCreateMoves ==
    ASSUME Assumed, Inv, NEW w \in Workers, RouteCreate(w)
    PROVE  \E j : Moves(w, j)
<1> DEFINE i == jobs[w]
           new == {[key |-> i.author, name |-> i.name]}
           links == Linked(i.links, i.author, SlackSub(i.author), i.name)
<1>1. i \in Job /\ Held(i) /\ i.step = "create" /\ i.author \in Labels /\ i.name \in Labels
      /\ members' = members /\ i.msg \in Messages /\ i.made = {}
    BY JobNow DEF RouteCreate, tables, Held
<1>2. CASE End(w)
    BY <1>1, <1>2, EndMoves
<1>3. CASE /\ ~MemberLocked(w, i.author) /\ ~Taken(w, i.author)
           /\ Set(w, [i EXCEPT !.step = "commit", !.made = new, !.links = links])
  <2>1. new \subseteq Made /\ SlackSub(i.author) \in Subs
    BY <1>1 DEF Made, SlackSub, Subs
  <2>2. links \in [Labels -> Link \cup {None}]
    BY <1>1, <2>1, LinkedTyped DEF Job
  <2>3. new = i.made \cup {[key |-> i.author, name |-> i.name]}
    BY <1>1
  <2> HIDE DEF new, links
  <2> DEFINE a == [i EXCEPT !.step = "commit"]
               b == [a EXCEPT !.made = new]
               j == [b EXCEPT !.links = links]
  <2>4. /\ a \in Job /\ SameIds(a, i) /\ SameSync(a, i) /\ SameAuthor(a, i)
        /\ a.made = i.made /\ a.step = "commit"
      BY <1>1 DEF Job, SameIds, SameSync, SameAuthor
  <2>5. [i EXCEPT !.step = "commit", !.made = new, !.links = links] = j
      OBVIOUS
  <2> HIDE DEF a
  <2>6. /\ b \in Job /\ SameIds(b, i) /\ SameSync(b, i) /\ SameAuthor(b, i) /\ b.made = new
        /\ b.step = "commit"
      BY <2>4, <2>1 DEF Job, SameIds, SameSync, SameAuthor
  <2> HIDE DEF b
  <2>7. /\ j \in Job /\ SameIds(j, i) /\ SameSync(j, i) /\ SameAuthor(j, i) /\ j.made = new
        /\ j.step = "commit"
      BY <2>6, <2>2 DEF Job, SameIds, SameSync, SameAuthor
  <2> HIDE DEF j
  <2>8. Fit(j, connector, messages')
    BY <1>1, <2>7, RouteFits DEF Held, Syncing, SameIds
  <2>9. Set(w, j) /\ ~MemberLocked(w, i.author) /\ ~Taken(w, i.author)
    BY <1>3, <2>5 DEF new, links
  <2>10. j.connector = i.connector /\ j.made = new
    BY <2>7 DEF SameIds
  <2> HIDE DEF i
  <2>11. Moves(w, j)
    BY <1>1, <2>3, <2>8, <2>9, <2>10 DEF Moves, i
  <2> QED
    BY <2>11
<1> QED
    BY <1>2, <1>3 DEF RouteCreate

\* A route commits, and so does a webhook request.
LEMMA RouteCommitMoves ==
    ASSUME Assumed, Inv, NEW w \in Workers, RouteCommit(w) \/ PersistEvent(w)
    PROVE  Moves(w, NoJob)
<1>1. End(w) /\ members' \in {members, members \cup MadeRows(w)}
    BY DEF RouteCommit, PersistEvent, Commit
<1> QED
    BY <1>1, EndMoves

-----------------------------------------------------------------------------
\* The sync task.

\* A sync loads its connector.
LEMMA StartSyncMoves ==
    ASSUME Assumed, Inv, NEW w \in Workers, StartSync(w)
    PROVE  \E j : Moves(w, j)
<1> DEFINE j == [NoJob EXCEPT !.step = "channels", !.connector = connector, !.org = orgs[Home],
                              !.channels = Channels]
<1>1. /\ Home \in Orgs /\ orgs[Home] \in Nat /\ orgs[Home] # 0 /\ connector \in Nat /\ connector # 0
      /\ NoLinks \in [Labels -> Link \cup {None}] /\ members' = members /\ Set(w, j)
    BY DEF Assumed, WorkspaceAssumption, Inv, Tables, ForeignKeys, NoLinks, StartSync, tables
<1>2. /\ j \in Job /\ j.step = "channels" /\ j.org = orgs[Home] /\ j.made = {}
      /\ j.connector = connector /\ j.channels = Channels /\ j.left = {}
    BY <1>1 DEF NoJob, Job
<1> HIDE DEF j
<1>3. ChannelOf \in [Messages -> Channels]
    BY DEF Assumed, WorkspaceAssumption
<1>4. Fetched(j, connector, messages') /\ Held(j)
    BY <1>1, <1>2, <1>3 DEF Fetched, Held
<1> QED
    BY <1>1, <1>2, <1>4 DEF Moves, Fit

\* It goes on to a channel, whose messages are all still to come.
LEMMA SyncChannelMoves ==
    ASSUME Assumed, Inv, NEW w \in Workers, NEW c \in Channels, SyncChannel(w, c)
    PROVE  \E j : Moves(w, j)
<1> DEFINE i == jobs[w]
           rest == i.channels \ {c}
           held == {m \in Messages : ChannelOf[m] = c}
<1>1. i \in Job /\ Held(i) /\ i.step = "channels" /\ members' = members /\ messages' = messages
      /\ Fetched(i, connector, messages)
    BY JobNow DEF SyncChannel
<1>2. CASE End(w)
    BY <1>1, <1>2, EndMoves
<1>3. CASE Set(w, [i EXCEPT !.step = "history", !.channel = c, !.channels = @ \ {c}, !.left = held])
  <2>1. rest \subseteq Channels /\ held \subseteq Messages
    BY <1>1 DEF Job
  <2> DEFINE a == [i EXCEPT !.step = "history"]
               b == [a EXCEPT !.channel = c]
               d == [b EXCEPT !.channels = rest]
               j == [d EXCEPT !.left = held]
  <2>2. /\ a \in Job /\ SameIds(a, i) /\ SameSync(a, i) /\ SameAuthor(a, i)
        /\ a.made = i.made /\ a.step = "history"
      BY <1>1 DEF Job, SameIds, SameSync, SameAuthor
  <2>3. [i EXCEPT !.step = "history", !.channel = c, !.channels = @ \ {c}, !.left = held] = j
      OBVIOUS
  <2> HIDE DEF a
  <2>4. /\ b \in Job /\ SameIds(b, i) /\ b.channels = i.channels /\ b.channel = c
        /\ b.left = i.left /\ b.total = i.total /\ b.failed = i.failed /\ SameAuthor(b, i)
        /\ b.made = i.made /\ b.step = "history"
      BY <2>2 DEF Job, SameIds, SameSync, SameAuthor
  <2> HIDE DEF b
  <2>5. /\ d \in Job /\ SameIds(d, i) /\ d.channels = rest /\ d.channel = c
        /\ d.left = i.left /\ d.total = i.total /\ d.failed = i.failed /\ SameAuthor(d, i)
        /\ d.made = i.made /\ d.step = "history"
      BY <2>4, <2>1 DEF Job, SameIds, SameSync, SameAuthor
  <2> HIDE DEF d
  <2>6. /\ j \in Job /\ SameIds(j, i) /\ j.channels = rest /\ j.channel = c /\ j.left = held
        /\ j.total = i.total /\ j.failed = i.failed /\ SameAuthor(j, i) /\ j.made = i.made
        /\ j.step = "history"
      BY <2>5, <2>1 DEF Job, SameIds, SameSync, SameAuthor
  <2> HIDE DEF j
  <2>7. \A m \in Messages : ChannelOf[m] \notin j.channels \cup j.failed /\ m \notin j.left =>
            ChannelOf[m] \notin i.channels \cup i.failed /\ m \notin i.left
    BY <1>1, <2>6 DEF Fetched, Syncing, SameSync
  <2>8. Fetched(j, connector, messages')
    BY <1>1, <2>6, <2>7 DEF Fetched, Syncing, SameIds
  <2>9. Held(j)
    BY <1>1, <2>6 DEF Held, SameIds
  <2> QED
    BY <1>1, <1>3, <2>3, <2>6, <2>8, <2>9 DEF Moves, SameIds, Fit
<1> QED
    BY <1>2, <1>3 DEF SyncChannel

\* It stores a message, which is one less to come.
LEMMA SyncMessageMoves ==
    ASSUME Assumed, Inv, NEW w \in Workers, NEW m \in Messages, SyncMessage(w, m)
    PROVE  \E j : Moves(w, j)
<1> DEFINE i == jobs[w]
           rest == i.left \ {m}
           total == IF m \in raw THEN i.total ELSE i.total + 1
<1>1. i \in Job /\ Held(i) /\ i.step = "history" /\ members' = members
      /\ Fetched(i, connector, messages)
    BY JobNow DEF SyncMessage
<1>2. CASE End(w)
    BY <1>1, <1>2, EndMoves
<1>3. CASE /\ messages' = [messages EXCEPT ![m] = Stored(m)]
           /\ Set(w, [i EXCEPT !.left = @ \ {m}, !.total = IF m \in raw THEN @ ELSE @ + 1])
  <2>0. messages'[m] # None /\ \A x \in Messages : messages[x] # None => messages'[x] # None
    BY <1>3, StoredRow DEF Inv, Tables
  <2>1. rest \subseteq Messages /\ total \in Nat /\ total >= i.total /\ i.total \in Nat
    BY <1>1 DEF Job
  <2> DEFINE a == [i EXCEPT !.left = rest]
               j == [a EXCEPT !.total = total]
  <2>2. /\ a \in Job /\ SameIds(a, i) /\ a.channels = i.channels /\ a.channel = i.channel
        /\ a.left = rest /\ a.total = i.total /\ a.failed = i.failed /\ SameAuthor(a, i)
        /\ a.made = i.made /\ a.step = i.step
      BY <1>1, <2>1 DEF Job, SameIds, SameSync, SameAuthor
  <2>3. [i EXCEPT !.left = @ \ {m}, !.total = IF m \in raw THEN @ ELSE @ + 1] = j
      OBVIOUS
  <2> HIDE DEF a
  <2>4. /\ j \in Job /\ SameIds(j, i) /\ j.channels = i.channels /\ j.channel = i.channel
        /\ j.left = rest /\ j.total = total /\ j.failed = i.failed /\ SameAuthor(j, i)
        /\ j.made = i.made /\ j.step = i.step
      BY <2>2, <2>1 DEF Job, SameIds, SameSync, SameAuthor
  <2> HIDE DEF j
  <2>5. Cap \in Nat
    BY DEF Assumed, SourceAssumption
  <2>6. /\ Cap > 0 /\ i.total >= Cap => Cap > 0 /\ j.total >= Cap
        /\ \A x \in j.left : ChannelOf[x] = j.channel
    BY <1>1, <2>1, <2>4, <2>5 DEF Fetched, Syncing, SameSync
  <2>7. Fetched(j, connector, messages')
    <3>1. ASSUME j.connector = connector, ~(Cap > 0 /\ j.total >= Cap), NEW x \in Messages,
                 ChannelOf[x] \notin j.channels \cup j.failed, x \notin j.left
          PROVE  messages'[x] # None
        BY <1>1, <2>0, <2>4, <2>6, <3>1 DEF Fetched, Syncing, SameIds, SameSync
    <3> QED
        BY <1>1, <2>4, <2>6, <3>1 DEF Fetched, Syncing, SameIds
  <2>8. Held(j)
    BY <1>1, <2>4 DEF Held, SameIds
  <2> QED
    BY <1>1, <1>3, <2>3, <2>4, <2>7, <2>8 DEF Moves, SameIds, Fit
<1> QED
    BY <1>2, <1>3 DEF SyncMessage

\* A channel ends: it is through, it failed, or the cap is reached.
LEMMA SyncChannelEndsMoves ==
    ASSUME Assumed, Inv, NEW w \in Workers, SyncChannelEnds(w)
    PROVE  \E j : Moves(w, j)
<1> DEFINE i == jobs[w]
           ends == [i EXCEPT !.step = "channels", !.channel = None, !.left = {}]
           failed == i.failed \cup {i.channel}
<1>1. i \in Job /\ Held(i) /\ i.step = "history" /\ members' = members /\ messages' = messages
      /\ Fetched(i, connector, messages)
    BY JobNow DEF SyncChannelEnds, tables, slackTables
<1>2. i.channel \in Channels /\ failed \subseteq Channels
    BY <1>1 DEF Fetched, Syncing, Job
<1> DEFINE a == [i EXCEPT !.step = "channels"]
             b == [a EXCEPT !.channel = None]
             d == [b EXCEPT !.left = {}]
<1>3. /\ a \in Job /\ SameIds(a, i) /\ SameSync(a, i) /\ SameAuthor(a, i)
      /\ a.made = i.made /\ a.step = "channels"
    BY <1>1 DEF Job, SameIds, SameSync, SameAuthor
<1>4. ends = d
    OBVIOUS
<1> HIDE DEF a
<1>5. /\ b \in Job /\ SameIds(b, i) /\ b.channels = i.channels /\ b.channel = None
      /\ b.left = i.left /\ b.total = i.total /\ b.failed = i.failed /\ SameAuthor(b, i)
      /\ b.made = i.made /\ b.step = "channels"
    BY <1>3 DEF Job, SameIds, SameSync, SameAuthor
<1> HIDE DEF b
<1>6. /\ d \in Job /\ SameIds(d, i) /\ d.channels = i.channels /\ d.channel = None
      /\ d.left = {} /\ d.total = i.total /\ d.failed = i.failed /\ SameAuthor(d, i)
      /\ d.made = i.made /\ d.step = "channels"
    BY <1>5 DEF Job, SameIds, SameSync, SameAuthor
<1> HIDE DEF d
<1> DEFINE j == [d EXCEPT !.failed = failed]
<1>7. /\ j \in Job /\ SameIds(j, d) /\ j.channels = d.channels /\ j.left = {} /\ j.total = d.total
      /\ j.failed = failed /\ j.made = d.made /\ j.step = d.step
    BY <1>2, <1>6 DEF Job, SameIds
<1>8. \/ (i.left = {} \/ Full(w)) /\ Set(w, d)
      \/ Set(w, j)
  <2>1. [ends EXCEPT !.failed = @ \cup {i.channel}] = j
    BY <1>4, <1>6 DEF SameSync
  <2> QED
    BY <1>4, <2>1 DEF SyncChannelEnds
<1> HIDE DEF j, ends
<1>9. Held(d) /\ Held(j)
    BY <1>1, <1>6, <1>7 DEF Held, SameIds
<1>10. i.left = {} \/ Full(w) => Fetched(d, connector, messages')
    BY <1>1, <1>6 DEF Fetched, Syncing, SameIds, Full
<1>11. Fetched(j, connector, messages')
  <2>1. \A m \in Messages : ChannelOf[m] \notin j.channels \cup j.failed =>
            ChannelOf[m] \notin i.channels \cup i.failed /\ m \notin i.left
    BY <1>1, <1>6, <1>7 DEF Fetched, Syncing
  <2> QED
    BY <1>1, <1>6, <1>7, <2>1 DEF Fetched, Syncing, SameIds
<1>12. CASE Set(w, d) /\ (i.left = {} \/ Full(w))
    BY <1>1, <1>6, <1>9, <1>10, <1>12 DEF Moves, Fit, SameIds
<1>13. CASE Set(w, j)
    BY <1>1, <1>6, <1>7, <1>9, <1>11, <1>13 DEF Moves, Fit, SameIds
<1> QED
    BY <1>8, <1>12, <1>13

\* The channels are through.
LEMMA SyncAuthorsMoves ==
    ASSUME Assumed, Inv, NEW w \in Workers, SyncAuthors(w)
    PROVE  \E j : Moves(w, j)
<1> DEFINE i == jobs[w]
           authors == {messages[m].label : m \in {x \in Messages :
                          messages[x] # None /\ messages[x].author = None}}
<1>1. /\ i \in Job /\ Held(i) /\ i.step = "channels" /\ members' = members /\ messages' = messages
      /\ Fetched(i, connector, messages) /\ (i.channels = {} \/ Full(w))
      /\ Set(w, [i EXCEPT !.step = "each", !.channels = {}, !.authors = authors])
    BY JobNow DEF SyncAuthors, tables, slackTables
<1>2. authors \subseteq Labels
    BY DEF Inv, Tables, Row
<1> HIDE DEF authors
<1> DEFINE a == [i EXCEPT !.step = "each"]
             b == [a EXCEPT !.channels = {}]
             j == [b EXCEPT !.authors = authors]
<1>3. /\ a \in Job /\ SameIds(a, i) /\ SameSync(a, i) /\ SameAuthor(a, i)
      /\ a.made = i.made /\ a.step = "each"
    BY <1>1 DEF Job, SameIds, SameSync, SameAuthor
<1>4. [i EXCEPT !.step = "each", !.channels = {}, !.authors = authors] = j
    OBVIOUS
<1> HIDE DEF a
<1>5. /\ b \in Job /\ SameIds(b, i) /\ b.channels = {} /\ b.channel = i.channel
      /\ b.left = i.left /\ b.total = i.total /\ b.failed = i.failed /\ SameAuthor(b, i)
      /\ b.made = i.made /\ b.step = "each"
    BY <1>3 DEF Job, SameIds, SameSync, SameAuthor
<1> HIDE DEF b
<1>6. /\ j \in Job /\ SameIds(j, i) /\ j.channels = {} /\ j.channel = i.channel
      /\ j.left = i.left /\ j.total = i.total /\ j.failed = i.failed /\ SameAuthor(j, i)
      /\ j.made = i.made /\ j.step = "each"
    BY <1>5, <1>2 DEF Job, SameIds, SameSync, SameAuthor
<1> HIDE DEF j
<1>7. Fetched(j, connector, messages')
    BY <1>1, <1>6 DEF Fetched, Syncing, SameIds, Full
<1>8. Held(j)
    BY <1>1, <1>6 DEF Held, SameIds
<1> QED
    BY <1>1, <1>4, <1>6, <1>7, <1>8 DEF Moves, SameIds, Fit

\* A sync whose channels are through stays one that fetched what it had.
LEMMA StillFetched ==
    ASSUME NEW i, NEW j, NEW c, NEW rows, NEW rows2, Fetched(i, c, rows),
           i.step \in {"each", "insert"}, j.step \in {"each", "insert", "done"},
           SameIds(j, i), SameSync(j, i), \A m \in Messages : rows[m] # None => rows2[m] # None
    PROVE  Fetched(j, c, rows2)
BY DEF Fetched, Syncing, SameIds, SameSync

\* An author's membership is found, or is to be created.
LEMMA SyncLookupMoves ==
    ASSUME Assumed, Inv, NEW w \in Workers, NEW l \in Labels, SyncLookup(w, l)
    PROVE  \E j : Moves(w, j)
<1> DEFINE i == jobs[w]
           rest == i.authors \ {l}
           job == [i EXCEPT !.authors = rest]
<1>1. i \in Job /\ Held(i) /\ i.step = "each" /\ members' = members /\ messages' = messages
      /\ Fetched(i, connector, messages)
    BY JobNow DEF SyncLookup, tables, slackTables
<1>2. rest \subseteq Labels
    BY <1>1 DEF Job
<1>3. PICK n \in Resolved(l) :
         LET found == IF ByUid(w, l) # {} THEN ByUid(w, l) ELSE ByName(w, n) IN
         \/ \E k \in found : Set(w, [job EXCEPT !.links = Linked(@, l, Sub(k), n)])
         \/ Set(w, [job EXCEPT !.step = "insert", !.author = l, !.name = n])
    BY DEF SyncLookup
<1>4. n \in Labels
    BY ResolvedLabels
<1>5. /\ job \in Job /\ SameIds(job, i) /\ SameSync(job, i) /\ SameAuthor(job, i)
      /\ job.made = i.made /\ job.step = "each"
    BY <1>1, <1>2 DEF Job, SameIds, SameSync, SameAuthor
<1> HIDE DEF job
<1>6. ASSUME NEW k \in Visible(w), Set(w, [job EXCEPT !.links = Linked(@, l, Sub(k), n)])
      PROVE  \E j : Moves(w, j)
  <2> DEFINE links == Linked(job.links, l, Sub(k), n)
             j == [job EXCEPT !.links = links]
  <2>1. links \in [Labels -> Link \cup {None}]
    BY <1>4, <1>5, VisibleTyped, LinkedTyped DEF Inv, Job
  <2>2. Set(w, j)
    BY <1>6
  <2> HIDE DEF links
  <2>3. /\ j \in Job /\ SameIds(j, i) /\ SameSync(j, i) /\ j.made = i.made /\ j.step = "each"
    BY <1>5, <2>1 DEF Job, SameIds, SameSync
  <2> HIDE DEF j
  <2>4. Fetched(j, connector, messages')
    BY <1>1, <2>3, StillFetched
  <2>5. Held(j)
    BY <1>1, <2>3 DEF Held, SameIds
  <2> QED
    BY <1>1, <2>2, <2>3, <2>4, <2>5 DEF Moves, SameIds, Fit
<1>7. CASE Set(w, [job EXCEPT !.step = "insert", !.author = l, !.name = n])
  <2> DEFINE a == [job EXCEPT !.step = "insert"]
             b == [a EXCEPT !.author = l]
             j == [b EXCEPT !.name = n]
  <2>1. /\ a \in Job /\ SameIds(a, i) /\ SameSync(a, i) /\ a.made = i.made /\ a.step = "insert"
    BY <1>5 DEF Job, SameIds, SameSync
  <2>2. [job EXCEPT !.step = "insert", !.author = l, !.name = n] = j
    OBVIOUS
  <2> HIDE DEF a
  <2>3. /\ b \in Job /\ SameIds(b, i) /\ SameSync(b, i) /\ b.made = i.made /\ b.step = "insert"
        /\ b.author = l
    BY <2>1 DEF Job, SameIds, SameSync
  <2> HIDE DEF b
  <2>4. /\ j \in Job /\ SameIds(j, i) /\ SameSync(j, i) /\ j.made = i.made /\ j.step = "insert"
        /\ j.author = l /\ j.name = n
    BY <1>4, <2>3 DEF Job, SameIds, SameSync
  <2> HIDE DEF j
  <2>5. Fetched(j, connector, messages')
    BY <1>1, <2>4, StillFetched
  <2>6. Held(j)
    BY <1>1, <1>4, <2>4 DEF Held, SameIds
  <2> QED
    BY <1>1, <1>7, <2>2, <2>4, <2>5, <2>6 DEF Moves, SameIds, Fit
<1>8. ByUid(w, l) \subseteq Visible(w) /\ ByName(w, n) \subseteq Visible(w)
    BY DEF ByUid, ByName
<1> QED
    BY <1>3, <1>6, <1>7, <1>8

\* It is inserted beside those of no other job.
LEMMA SyncCreateMoves ==
    ASSUME Assumed, Inv, NEW w \in Workers, SyncCreate(w)
    PROVE  \E j : Moves(w, j)
<1> DEFINE i == jobs[w]
           more == i.made \cup {[key |-> i.author, name |-> i.name]}
           links == Linked(i.links, i.author, SlackSub(i.author), i.name)
<1>1. i \in Job /\ Held(i) /\ i.step = "insert" /\ i.author \in Labels /\ i.name \in Labels
      /\ members' = members /\ messages' = messages /\ Fetched(i, connector, messages)
    BY JobNow DEF SyncCreate, tables, slackTables, Held
<1>2. CASE End(w)
    BY <1>1, <1>2, EndMoves
<1>3. CASE /\ ~MemberLocked(w, i.author) /\ ~Taken(w, i.author)
           /\ Set(w, [i EXCEPT !.step = "each", !.author = None, !.name = None,
                               !.made = @ \cup {[key |-> i.author, name |-> i.name]},
                               !.links = Linked(@, i.author, SlackSub(i.author), i.name)])
  <2>1. more \subseteq Made /\ SlackSub(i.author) \in Subs
    BY <1>1 DEF Made, SlackSub, Subs, Job
  <2>2. links \in [Labels -> Link \cup {None}]
    BY <1>1, <2>1, LinkedTyped DEF Job
  <2>3. /\ Set(w, [i EXCEPT !.step = "each", !.author = None, !.name = None, !.made = more,
                            !.links = links])
        /\ \E l, n : /\ more = i.made \cup {[key |-> l, name |-> n]}
                     /\ ~MemberLocked(w, l) /\ ~Taken(w, l)
    BY <1>3
  <2> HIDE DEF more, links
  <2> DEFINE a == [i EXCEPT !.step = "each"]
               b == [a EXCEPT !.author = None]
               d == [b EXCEPT !.name = None]
               e == [d EXCEPT !.made = more]
               j == [e EXCEPT !.links = links]
  <2>4. /\ a \in Job /\ SameIds(a, i) /\ SameSync(a, i) /\ SameAuthor(a, i)
        /\ a.made = i.made /\ a.step = "each"
      BY <1>1 DEF Job, SameIds, SameSync, SameAuthor
  <2>5. [i EXCEPT !.step = "each", !.author = None, !.name = None, !.made = more, !.links = links] = j
      OBVIOUS
  <2> HIDE DEF a
  <2>6. /\ b \in Job /\ SameIds(b, i) /\ SameSync(b, i) /\ b.author = None
        /\ b.name = i.name /\ b.made = i.made /\ b.step = "each"
      BY <2>4 DEF Job, SameIds, SameSync, SameAuthor
  <2> HIDE DEF b
  <2>7. /\ d \in Job /\ SameIds(d, i) /\ SameSync(d, i) /\ d.author = None /\ d.name = None
        /\ d.made = i.made /\ d.step = "each"
      BY <2>6 DEF Job, SameIds, SameSync, SameAuthor
  <2> HIDE DEF d
  <2>8. /\ e \in Job /\ SameIds(e, i) /\ SameSync(e, i) /\ e.author = None /\ e.name = None
        /\ e.made = more /\ e.step = "each"
      BY <2>7, <2>1 DEF Job, SameIds, SameSync, SameAuthor
  <2> HIDE DEF e
  <2>9. /\ j \in Job /\ SameIds(j, i) /\ SameSync(j, i) /\ j.author = None /\ j.name = None
        /\ j.made = more /\ j.step = "each"
      BY <2>8, <2>2 DEF Job, SameIds, SameSync, SameAuthor
  <2> HIDE DEF j
  <2>10. Fetched(j, connector, messages')
    BY <1>1, <2>9, StillFetched
  <2>11. Held(j)
    BY <1>1, <2>9 DEF Held, SameIds
  <2>12. \E l, n : /\ j.made = i.made \cup {[key |-> l, name |-> n]}
                   /\ ~MemberLocked(w, l) /\ ~Taken(w, l)
    BY <2>3, <2>9
  <2>13. Set(w, j)
    BY <2>3, <2>5
  <2>14. Fit(j, connector, messages') /\ j.connector = i.connector
    BY <2>9, <2>10, <2>11 DEF SameIds, Fit
  <2> QED
    BY <1>1, <2>12, <2>13, <2>14 DEF Moves
<1> QED
    BY <1>2, <1>3 DEF SyncCreate

\* The memberships are committed with their links.
LEMMA SyncCommitMoves ==
    ASSUME Assumed, Inv, NEW w \in Workers, SyncCommit(w)
    PROVE  \E j : Moves(w, j)
<1> DEFINE i == jobs[w]
<1>1. i \in Job /\ Held(i) /\ i.step = "each" /\ Fetched(i, connector, messages)
    BY JobNow DEF SyncCommit
<1>2. CASE End(w) /\ UNCHANGED members
    BY <1>1, <1>2, EndMoves
<1>3. CASE /\ Commit(w, LinkRows(w, messages))
           /\ Set(w, [i EXCEPT !.step = "done", !.made = {}, !.links = NoLinks])
  <2>1. /\ members' = members \cup MadeRows(w)
        /\ \A m \in Messages : messages[m] # None => messages'[m] # None
    BY <1>3, LinkedRows, CommitRows DEF Inv, Tables
  <2>2. NoLinks \in [Labels -> Link \cup {None}]
    BY DEF NoLinks
  <2> DEFINE a == [i EXCEPT !.step = "done"]
               b == [a EXCEPT !.made = {}]
               j == [b EXCEPT !.links = NoLinks]
  <2>3. /\ a \in Job /\ SameIds(a, i) /\ SameSync(a, i) /\ SameAuthor(a, i)
        /\ a.made = i.made /\ a.step = "done"
      BY <1>1 DEF Job, SameIds, SameSync, SameAuthor
  <2>4. [i EXCEPT !.step = "done", !.made = {}, !.links = NoLinks] = j
      OBVIOUS
  <2> HIDE DEF a
  <2>5. /\ b \in Job /\ SameIds(b, i) /\ SameSync(b, i) /\ SameAuthor(b, i) /\ b.made = {}
        /\ b.step = "done"
      BY <2>3 DEF Job, SameIds, SameSync, SameAuthor
  <2> HIDE DEF b
  <2>6. /\ j \in Job /\ SameIds(j, i) /\ SameSync(j, i) /\ SameAuthor(j, i) /\ j.made = {}
        /\ j.step = "done"
      BY <2>5, <2>2 DEF Job, SameIds, SameSync, SameAuthor
  <2> HIDE DEF j
  <2>7. Fetched(j, connector, messages')
    BY <1>1, <2>1, <2>6, StillFetched
  <2>8. Held(j)
    BY <1>1, <2>6 DEF Held, SameIds
  <2> QED
    BY <1>1, <1>3, <2>1, <2>4, <2>6, <2>7, <2>8 DEF Moves, SameIds, Fit
<1> QED
    BY <1>2, <1>3 DEF SyncCommit

\* Whatever the step, the job moves as above.
LEMMA JobStepMoves ==
    ASSUME Assumed, Inv, NEW w \in Workers, RouteStep(w) \/ SyncStep(w)
    PROVE  \E j : Moves(w, j)
BY WebhookMoves, StartRouteMoves, RouteAuthorMoves, RouteLookupMoves, RouteCreateMoves,
   RouteCommitMoves, StartSyncMoves, SyncChannelMoves, SyncMessageMoves, SyncChannelEndsMoves,
   SyncAuthorsMoves, SyncLookupMoves, SyncCreateMoves, SyncCommitMoves DEF RouteStep, SyncStep

-----------------------------------------------------------------------------
\* What a job's step does to the tables.

RowsGrow ==
    /\ messages' \in [Messages -> Row \cup {None}]
    /\ \A m \in Messages : messages[m] # None => messages'[m] # None

\* A job whose organisation is still there: it has a row.
LEMMA SettledHome ==
    ASSUME Assumed, Inv, NEW w \in Workers, Running(w), Settled(w)
    PROVE  orgs[Home] # 0
BY JobNow DEF Running, Settled, Held

\* Messages are only added.
LEMMA JobRows ==
    ASSUME Assumed, Inv, NEW w \in Workers, RouteStep(w) \/ SyncStep(w)
    PROVE  RowsGrow /\ members' \subseteq Member
<1>1. Tables
    BY DEF Inv
<1>2. CASE UNCHANGED <<messages, members>>
    BY <1>1, <1>2 DEF RowsGrow, Tables
<1>3. ASSUME RouteCommit(w), ~UNCHANGED <<messages, members>>
      PROVE  RowsGrow /\ members' \subseteq Member
  <2> DEFINE m == jobs[w].msg
             k == jobs[w].links[AuthorOf[m]]
             row == IF jobs[w].author = None /\ k # None
                      THEN [author |-> k.sub, label |-> k.name] ELSE Stored(m)
             rows == [messages EXCEPT ![m] = row]
  <2>1. /\ m \in Messages /\ jobs[w].links \in [Labels -> Link \cup {None}]
        /\ Commit(w, IF jobs[w].author = None THEN rows ELSE LinkRows(w, rows))
    BY <1>1, <1>3 DEF RouteCommit, Tables, Job
  <2>2. k \in Link \cup {None} /\ Stored(m) \in Row
    BY <1>1, <2>1, AuthorLabel, StoredRow
  <2>3. row \in Row /\ row # None
    BY <2>2 DEF Link, Row, Assumed, SourceAssumption
  <2> HIDE DEF row, k, m
  <2>4. /\ rows \in [Messages -> Row \cup {None}]
        /\ \A x \in Messages : messages[x] # None => rows[x] # None
    BY <1>1, <2>1, <2>3 DEF Tables
  <2>5. ASSUME NEW some \in [Messages -> Row \cup {None}], Commit(w, some),
               \A x \in Messages : messages[x] # None => some[x] # None
        PROVE  RowsGrow /\ members' \subseteq Member
    BY <1>1, <2>5, CommitRows DEF RowsGrow
  <2>6. CASE jobs[w].author = None
    BY <2>1, <2>4, <2>5, <2>6
  <2>7. CASE jobs[w].author # None
    <3>1. /\ LinkRows(w, rows) \in [Messages -> Row \cup {None}]
          /\ \A x \in Messages : messages[x] # None => LinkRows(w, rows)[x] # None
        BY <1>1, <2>4, LinkedRows
    <3>2. Commit(w, LinkRows(w, rows))
        BY <2>1, <2>7
    <3> QED
        BY <2>5, <3>1, <3>2
  <2> QED
    BY <2>6, <2>7
<1>4. ASSUME NEW m \in Messages, SyncMessage(w, m)
      PROVE  RowsGrow /\ members' \subseteq Member
  <2>1. /\ members' = members
        /\ messages' = [messages EXCEPT ![m] = Stored(m)] \/ messages' = messages
    BY <1>4 DEF SyncMessage
  <2> QED
    BY <1>1, <2>1, StoredRow DEF RowsGrow, Tables
<1>5. ASSUME SyncCommit(w), ~UNCHANGED <<messages, members>>
      PROVE  RowsGrow /\ members' \subseteq Member
  <2>1. Commit(w, LinkRows(w, messages))
    BY <1>5 DEF SyncCommit
  <2> QED
    BY <1>1, <2>1, LinkedRows, CommitRows DEF RowsGrow, Tables
<1>6. \/ UNCHANGED <<messages, members>> \/ RouteCommit(w) \/ SyncCommit(w)
      \/ \E m \in Messages : SyncMessage(w, m)
    BY DEF RouteStep, SyncStep, Webhook, StartRoute, PersistEvent, RouteAuthor, RouteLookup,
           RouteCreate, StartSync, SyncChannel, SyncChannelEnds, SyncAuthors, SyncLookup,
           SyncCreate, tables, slackTables
<1> QED
    BY <1>2, <1>3, <1>4, <1>5, <1>6

\* The rest: a job ends where its organisation or connector is gone.
LEMMA JobFrame ==
    ASSUME Assumed, Inv, NEW w \in Workers, RouteStep(w) \/ SyncStep(w)
    PROVE  /\ UNCHANGED <<orgs, projects, lastRow, connector, dirty>>
           /\ ops' \in 0..MaxOps
           /\ raw' \subseteq Messages /\ queue' \subseteq Messages
           /\ ingest' \in [Channels -> {"none", "on", "off"}]
           /\ ingest' = ingest \/ connector # 0
           /\ queue' \subseteq queue \/ orgs[Home] # 0
           /\ members' = members \/ (members' = members \cup MadeRows(w) /\ orgs[Home] # 0)
           /\ ~(connector = 0 /\ dirty = "no")
<1>1. /\ raw \subseteq Messages /\ queue \subseteq Messages /\ jobs[w] \in Job /\ Held(jobs[w])
      /\ ingest \in [Channels -> {"none", "on", "off"}] /\ ops \in 0..MaxOps /\ MaxOps \in Nat
    BY JobNow DEF Inv, Tables, Assumed, WorkspaceAssumption
<1>2. UNCHANGED <<orgs, projects, lastRow, connector, dirty>>
  <2>1. CASE RouteStep(w)
    BY <2>1 DEF RouteStep, Webhook, StartRoute, PersistEvent, RouteAuthor, RouteLookup,
           RouteCreate, RouteCommit, tables, slackTables, directoryTables
  <2>2. CASE SyncStep(w)
    BY <2>2 DEF SyncStep, StartSync, SyncChannel, SyncMessage, SyncChannelEnds, SyncAuthors,
           SyncLookup, SyncCreate, SyncCommit, tables, slackTables, directoryTables
  <2> QED
    BY <2>1, <2>2
<1>3. ops' \in 0..MaxOps
  <2>1. ops' = ops \/ Start
    BY DEF RouteStep, Webhook, StartRoute, PersistEvent, RouteAuthor, RouteLookup,
           RouteCreate, RouteCommit, SyncStep, StartSync, SyncChannel, SyncMessage,
           SyncChannelEnds, SyncAuthors, SyncLookup, SyncCreate, SyncCommit
  <2> QED
    BY <1>1, <2>1 DEF Start
<1>4. /\ raw' \subseteq Messages /\ queue' \subseteq Messages
      /\ queue' \subseteq queue \/ orgs[Home] # 0
  <2>1. CASE UNCHANGED <<raw, queue>>
    BY <1>1, <2>1
  <2>2. ASSUME NEW m \in Messages, StartRoute(w, m)
        PROVE  raw' \subseteq Messages /\ queue' \subseteq queue
    BY <1>1, <2>2 DEF StartRoute, tables, slackTables
  <2>3. ASSUME PersistEvent(w), ~UNCHANGED <<raw, queue>>
        PROVE  raw' \subseteq Messages /\ queue' \subseteq Messages /\ orgs[Home] # 0
    <3>1. Settled(w) /\ Running(w) /\ jobs[w].msg \in Messages
        BY <1>1, <2>3 DEF PersistEvent, Running, Held
    <3> QED
        BY <1>1, <2>3, <3>1, SettledHome DEF PersistEvent, Enqueue
  <2>4. ASSUME NEW m \in Messages, SyncMessage(w, m), ~UNCHANGED <<raw, queue>>
        PROVE  raw' \subseteq Messages /\ queue' \subseteq Messages /\ orgs[Home] # 0
    <3>1. Settled(w) /\ Running(w)
        BY <2>4 DEF SyncMessage, Running
    <3> QED
        BY <1>1, <2>4, <3>1, SettledHome DEF SyncMessage, Enqueue
  <2>5. \/ UNCHANGED <<raw, queue>> \/ PersistEvent(w)
        \/ \E m \in Messages : StartRoute(w, m) \/ SyncMessage(w, m)
    BY DEF RouteStep, SyncStep, Webhook, RouteAuthor, RouteLookup, RouteCreate, RouteCommit,
           StartSync, SyncChannel, SyncChannelEnds, SyncAuthors, SyncLookup, SyncCreate,
           SyncCommit, tables, slackTables
  <2> QED
    BY <1>1, <2>1, <2>2, <2>3, <2>4, <2>5
<1>5. /\ ingest' \in [Channels -> {"none", "on", "off"}]
      /\ ingest' = ingest \/ connector # 0
  <2>1. ASSUME NEW c \in Channels, SyncChannel(w, c)
        PROVE  /\ ingest' \in [Channels -> {"none", "on", "off"}]
               /\ ingest' = ingest \/ connector # 0
    <3>1. jobs[w].connector # 0
        BY <2>1, JobNow DEF SyncChannel, Fetched, Syncing
    <3>2. Upserted(c) \in {"none", "on", "off"}
        BY <1>1 DEF Upserted
    <3> QED
        BY <1>1, <2>1, <3>1, <3>2 DEF SyncChannel
  <2>2. ingest' = ingest \/ \E c \in Channels : SyncChannel(w, c)
    BY DEF RouteStep, SyncStep, Webhook, StartRoute, PersistEvent, RouteAuthor, RouteLookup,
           RouteCreate, RouteCommit, StartSync, SyncMessage, SyncChannelEnds, SyncAuthors,
           SyncLookup, SyncCreate, SyncCommit, tables, slackTables
  <2> QED
    BY <1>1, <2>1, <2>2
<1>6. members' = members \/ (members' = members \cup MadeRows(w) /\ orgs[Home] # 0)
  <2>1. CASE RouteCommit(w) \/ SyncCommit(w)
    <3>1. Running(w)
        BY <2>1 DEF RouteCommit, SyncCommit, Running
    <3> QED
        BY <2>1, <3>1, SettledHome DEF RouteCommit, SyncCommit, Commit
  <2>2. members' = members \/ RouteCommit(w) \/ SyncCommit(w)
    BY DEF RouteStep, SyncStep, Webhook, StartRoute, PersistEvent, RouteAuthor, RouteLookup,
           RouteCreate, StartSync, SyncChannel, SyncMessage, SyncChannelEnds, SyncAuthors,
           SyncLookup, SyncCreate, tables
  <2> QED
    BY <2>1, <2>2
<1>7. ~(connector = 0 /\ dirty = "no")
  <2> SUFFICES ASSUME connector = 0, dirty = "no" PROVE FALSE
    OBVIOUS
  <2>1. queue = {} /\ ~Running(w)
    BY DEF Inv, Quiet
  <2>2. jobs[w].step \in {"idle", "done"}
    BY <2>1 DEF Running
  <2> QED
    BY <2>1, <2>2
       DEF RouteStep, SyncStep, Webhook, StartRoute, PersistEvent, RouteAuthor, RouteLookup,
           RouteCreate, RouteCommit, StartSync, SyncChannel, SyncMessage, SyncChannelEnds,
           SyncAuthors, SyncLookup, SyncCreate, SyncCommit
<1> QED
    BY <1>2, <1>3, <1>4, <1>5, <1>6, <1>7

-----------------------------------------------------------------------------
\* One membership per Slack id.

\* However a job moves, no Slack id gets a second membership.
LEMMA MovesApart ==
    ASSUME Inv, NEW w \in Workers, NEW j, Moves(w, j)
    PROVE  MadeApart' /\ OneMemberPerUid'
<1>1. /\ jobs \in [Workers -> Job] /\ MadeApart /\ OneMemberPerUid
      /\ \A v \in Workers : jobs'[v] = IF v = w THEN j ELSE jobs[v]
    BY DEF Inv, Tables, Moves, Set
<1>2. CASE j.made = jobs[w].made /\ members' = members
  <2>1. \A v \in Workers : jobs'[v].made = jobs[v].made
    BY <1>1, <1>2
  <2> QED
    BY <1>1, <1>2, <2>1 DEF MadeApart, Uncommitted, OneMemberPerUid
<1>3. CASE j.made = {} /\ members' \in {members, members \cup MadeRows(w)}
  <2>1. \A v \in Workers : jobs'[v].made = IF v = w THEN {} ELSE jobs[v].made
    BY <1>1, <1>3
  <2>2. ASSUME NEW k \in MadeRows(w)
        PROVE  /\ k.org = Home /\ k.kind = "slack"
               /\ \E n \in jobs[w].made : k = [org |-> Home, kind |-> "slack", key |-> n.key, name |-> n.name]
    BY <2>2 DEF MadeRows
  <2>3. ASSUME NEW v \in Workers PROVE Uncommitted(jobs'[v].made, members')
    <3>1. CASE v = w
        BY <2>1, <3>1 DEF Uncommitted
    <3>2. CASE v # w
      <4>1. \A n \in jobs[v].made : ~ \E k \in members \cup MadeRows(w) :
                k.org = Home /\ k.kind = "slack" /\ k.key = n.key
          BY <1>1, <2>2, <3>2 DEF MadeApart, Uncommitted
      <4> QED
          BY <1>1, <1>3, <2>1, <3>2, <4>1 DEF MadeApart, Uncommitted
    <3> QED
        BY <3>1, <3>2
  <2>4. MadeApart'
    BY <1>1, <2>1, <2>3 DEF MadeApart
  <2>5. OneMemberPerUid'
    <3> SUFFICES ASSUME NEW k \in members', NEW l \in members', k.org = l.org, Sub(k) = Sub(l)
                 PROVE  k = l
        BY DEF OneMemberPerUid, Sub
    <3>1. k.kind = l.kind /\ k.key = l.key
        BY DEF Sub
    <3>2. CASE k \in members /\ l \in members
        BY <1>1, <3>2 DEF OneMemberPerUid
    <3>3. CASE k \in MadeRows(w) /\ l \in MadeRows(w)
        BY <1>1, <2>2, <3>1, <3>3 DEF MadeApart, Uncommitted
    <3>4. CASE k \in MadeRows(w) /\ l \in members
        BY <1>1, <2>2, <3>1, <3>4 DEF MadeApart, Uncommitted
    <3>5. CASE k \in members /\ l \in MadeRows(w)
        BY <1>1, <2>2, <3>1, <3>5 DEF MadeApart, Uncommitted
    <3> QED
        BY <1>3, <3>2, <3>3, <3>4, <3>5
  <2> QED
    BY <2>4, <2>5
<1>4. ASSUME members' = members, NEW l, NEW n,
             j.made = jobs[w].made \cup {[key |-> l, name |-> n]},
             ~MemberLocked(w, l), ~Taken(w, l)
      PROVE  MadeApart' /\ OneMemberPerUid'
  <2>1. \A v \in Workers \ {w} : \A o \in jobs[v].made : o.key # l
    BY <1>4 DEF MemberLocked
  <2>2. \A k \in Visible(w) : ~(k.kind = "slack" /\ k.key = l)
    BY <1>4 DEF Taken, ByUid
  <2>3. ASSUME NEW o \in jobs[w].made PROVE o.key # l
    <3> DEFINE k == [org |-> Home, kind |-> "slack", key |-> o.key, name |-> o.name]
    <3>1. k \in Visible(w) /\ k.kind = "slack" /\ k.key = o.key
        BY <2>3 DEF Visible, MadeRows
    <3> QED
        BY <2>2, <3>1
  <2>4. ~ \E k \in members : k.org = Home /\ k.kind = "slack" /\ k.key = l
    BY <2>2 DEF Visible
  <2>5. Uncommitted(j.made, members)
    BY <1>1, <1>4, <2>3, <2>4 DEF MadeApart, Uncommitted
  <2>6. \A v \in Workers : Uncommitted(jobs'[v].made, members')
    BY <1>1, <1>4, <2>5 DEF MadeApart
  <2>7. \A v, u \in Workers : \A o \in jobs'[v].made, q \in jobs'[u].made : o.key = q.key => v = u
    BY <1>1, <1>4, <2>1 DEF MadeApart
  <2> QED
    BY <1>1, <1>4, <2>6, <2>7 DEF MadeApart, OneMemberPerUid
<1> QED
    BY <1>2, <1>3, <1>4 DEF Moves

-----------------------------------------------------------------------------
\* A job's step keeps the invariant.

\* What a job has fetched stays, while its connector does.
LEMMA StaysFetched ==
    ASSUME NEW j, NEW c, NEW c2, NEW rows, NEW rows2, Fetched(j, c, rows),
           \/ c2 = c /\ \A m \in Messages : rows[m] # None => rows2[m] # None
           \/ c2 = 0 \/ c2 # j.connector
    PROVE  Fetched(j, c2, rows2)
BY DEF Fetched

\* Every step of a job keeps the invariant.
LEMMA JobInv ==
    ASSUME Assumed, Inv, NEW w \in Workers, RouteStep(w) \/ SyncStep(w), UNCHANGED requests
    PROVE  Inv'
<1>1. PICK j : Moves(w, j)
    BY JobStepMoves
<1>2. /\ jobs \in [Workers -> Job] /\ j \in Job /\ Set(w, j) /\ RowsGrow /\ members' \subseteq Member
      /\ Fit(j, connector, messages') /\ j.connector \in {0, jobs[w].connector, connector}
    BY <1>1, JobRows DEF Inv, Tables, Moves, Fit
<1>3. \A v \in Workers : jobs'[v] = IF v = w THEN j ELSE jobs[v]
    BY <1>2 DEF Set
<1>4. Tables'
    BY <1>2, JobFrame DEF Inv, Tables, RowsGrow, Set
<1>5. ForeignKeys'
  <2>1. \A m \in MadeRows(w) : m.org = Home
    BY DEF MadeRows
  <2> QED
    BY <2>1, JobFrame DEF Inv, ForeignKeys, Tables
<1>6. Ids'
  <2>1. lastRow \in Nat /\ Ids
    BY DEF Inv, Tables
  <2>2. j.connector <= lastRow
    BY <1>2, <2>1 DEF Ids
  <2> QED
    BY <1>3, <2>1, <2>2, JobFrame DEF Ids
<1>7. RequestsFit'
    BY JobFrame DEF Inv, RequestsFit
<1>8. JobsFit'
  <2> SUFFICES ASSUME NEW v \in Workers PROVE Fit(jobs'[v], connector', messages')
    BY DEF JobsFit
  <2>1. CASE v = w
    BY <1>2, <1>3, <2>1, JobFrame
  <2>2. CASE v # w
    <3>1. Fetched(jobs[v], connector, messages')
        BY <1>2, JobNow, StaysFetched DEF RowsGrow
    <3> QED
        BY <1>3, <2>2, <3>1, JobNow, JobFrame DEF Fit
  <2> QED
    BY <2>1, <2>2
<1>9. MadeApart' /\ OneMemberPerUid'
    BY <1>1, MovesApart
<1>10. Quiet' /\ Purged'
    BY JobFrame DEF Quiet, Purged
<1> QED
    BY <1>4, <1>5, <1>6, <1>7, <1>8, <1>9, <1>10 DEF Inv

-----------------------------------------------------------------------------
\* Deleted memberships take links of the running jobs along.

Relinked == \E gone : jobs' = Unlinked(gone)

\* The job is the same in everything else.
LEMMA RelinkedJobs ==
    ASSUME Assumed, Inv, Relinked
    PROVE  /\ jobs' \in [Workers -> Job]
           /\ \A w \in Workers :
                /\ jobs'[w].made = jobs[w].made /\ jobs'[w].step = jobs[w].step
                /\ jobs'[w].connector = jobs[w].connector
                /\ Fit(jobs'[w], connector, messages)
<1>1. PICK gone : jobs' = Unlinked(gone)
    BY DEF Relinked
<1>2. ASSUME NEW w \in Workers
      PROVE  /\ jobs'[w] \in Job /\ jobs'[w].made = jobs[w].made /\ jobs'[w].step = jobs[w].step
             /\ jobs'[w].connector = jobs[w].connector
             /\ Fit(jobs'[w], connector, messages)
  <2> DEFINE i == jobs[w]
             links == [x \in Labels |-> IF i.links[x] # None /\ i.links[x].sub \in gone
                                          THEN [sub |-> None, name |-> i.links[x].name] ELSE i.links[x]]
             j == [i EXCEPT !.links = links]
  <2>1. i \in Job /\ Held(i) /\ Fetched(i, connector, messages)
    BY JobNow
  <2>2. i.links \in [Labels -> Link \cup {None}]
    BY <2>1 DEF Job
  <2>3. links \in [Labels -> Link \cup {None}]
    BY <2>2 DEF Link
  <2>4. jobs'[w] = j
    BY <1>1 DEF Unlinked
  <2> HIDE DEF links
  <2>5. /\ j \in Job /\ SameIds(j, i) /\ SameSync(j, i) /\ SameAuthor(j, i)
        /\ j.made = i.made /\ j.step = i.step
    BY <2>1, <2>3 DEF Job, SameIds, SameSync, SameAuthor
  <2> HIDE DEF j, i
  <2>6. Held(j) /\ Fetched(j, connector, messages)
    BY <2>1, <2>5 DEF Held, Fetched, SameIds, SameSync, SameAuthor
  <2> QED
    BY <2>4, <2>5, <2>6 DEF Fit, SameIds, i
<1>3. jobs' = [w \in Workers |-> jobs'[w]]
    BY <1>1 DEF Unlinked
<1> QED
    BY <1>2, <1>3

-----------------------------------------------------------------------------
\* The administrator's steps.

\* Install, the channel's switch and the disconnect keep it.
LEMMA AdminInv ==
    ASSUME Assumed, Inv, AdminStep, UNCHANGED requests
    PROVE  Inv'
<1>1. /\ Tables /\ ForeignKeys /\ Ids /\ RequestsFit /\ JobsFit /\ MadeApart /\ OneMemberPerUid
      /\ Quiet /\ Purged /\ lastRow \in Nat /\ connector \in Nat /\ MaxOps \in Nat /\ ops \in Nat
      /\ Home \in Orgs
    BY DEF Inv, Tables, Assumed, WorkspaceAssumption
<1>2. UNCHANGED <<orgs, projects>> /\ ops' \in 0..MaxOps
    BY <1>1 DEF AdminStep, Install, Disconnect, ToggleChannel, Start, directoryTables
<1>3. CASE Install
  <2>1. /\ UNCHANGED <<members, ingest, raw, messages, queue, jobs, dirty>> /\ orgs[Home] # 0
        /\ \/ connector' = connector /\ lastRow' = lastRow /\ connector # 0
           \/ connector' = lastRow + 1 /\ lastRow' = lastRow + 1
    BY <1>3 DEF Install, source, AdminIn
  <2>2. Tables' /\ ForeignKeys'
    BY <1>1, <1>2, <2>1 DEF Tables, ForeignKeys
  <2>3. Ids'
    <3>1. \A o \in Orgs : orgs[o] \in Nat
        BY <1>1 DEF Tables
    <3>2. \A w \in Workers : jobs[w].connector \in Nat
        BY <1>1 DEF Tables, Job
    <3>3. \A r \in Requests : requests[r].row \in Nat
        BY <1>1 DEF Tables, Request
    <3> QED
        BY <1>1, <1>2, <2>1, <3>1, <3>2, <3>3 DEF Ids
  <2>4. JobsFit'
    <3> SUFFICES ASSUME NEW w \in Workers PROVE Fit(jobs[w], connector', messages)
        BY <1>2, <2>1 DEF JobsFit
    <3>1. connector' = connector \/ connector' # jobs[w].connector
        BY <1>1, <2>1, JobNow DEF Ids, Job
    <3> QED
        BY <3>1, JobNow, StaysFetched DEF Fit
  <2>5. RequestsFit' /\ MadeApart' /\ OneMemberPerUid'
    BY <1>1, <1>2, <2>1 DEF RequestsFit, MadeApart, OneMemberPerUid, Sub
  <2>6. Quiet' /\ Purged'
    BY <1>1, <2>1 DEF Quiet, Purged
  <2> QED
    BY <2>2, <2>3, <2>4, <2>5, <2>6 DEF Inv
<1>4. ASSUME NEW c \in Channels, ToggleChannel(c) PROVE Inv'
  <2>1. /\ UNCHANGED <<members, lastRow, connector, raw, messages, queue, jobs, dirty>>
        /\ ingest[c] # "none" /\ ingest' = [ingest EXCEPT ![c] = IF @ = "on" THEN "off" ELSE "on"]
    BY <1>4 DEF ToggleChannel, source
  <2>2. Tables' /\ ForeignKeys' /\ connector # 0
    BY <1>1, <1>2, <2>1 DEF Tables, ForeignKeys
  <2>3. Ids' /\ RequestsFit' /\ JobsFit' /\ MadeApart' /\ OneMemberPerUid'
    BY <1>1, <1>2, <2>1 DEF Ids, RequestsFit, JobsFit, MadeApart, OneMemberPerUid, Sub
  <2>4. Quiet' /\ Purged'
    BY <2>1, <2>2 DEF Quiet, Purged
  <2> QED
    BY <2>2, <2>3, <2>4 DEF Inv
<1>5. CASE Disconnect
  <2>1. /\ UNCHANGED lastRow /\ connector' = 0 /\ ingest' = [c \in Channels |-> "none"]
        /\ raw' = {} /\ queue' = {} /\ messages' = [m \in Messages |-> None] /\ members' = Kept
        /\ dirty' = IF \E w \in Workers : Running(w) THEN "yes" ELSE "no"
        /\ Relinked
    BY <1>5 DEF Disconnect, Relinked
  <2>2. Kept \subseteq members /\ \A k \in Kept : k.org = Home => k.kind # "slack"
    BY DEF Kept
  <2>0. /\ jobs' \in [Workers -> Job]
        /\ \A w \in Workers : /\ jobs'[w].made = jobs[w].made /\ jobs'[w].step = jobs[w].step
                                 /\ jobs'[w].connector = jobs[w].connector
                                 /\ Fit(jobs'[w], connector, messages)
    BY <2>1, RelinkedJobs
  <2>3. Tables' /\ ForeignKeys' /\ Ids' /\ RequestsFit'
    BY <1>1, <1>2, <2>0, <2>1, <2>2 DEF Tables, ForeignKeys, Ids, RequestsFit
  <2>4. JobsFit'
    BY <2>0, <2>1, StaysFetched DEF JobsFit, Fit
  <2>5. MadeApart' /\ OneMemberPerUid'
    BY <1>1, <2>0, <2>1, <2>2 DEF MadeApart, Uncommitted, OneMemberPerUid, Sub
  <2>6. Quiet' /\ Purged'
    BY <2>0, <2>1, <2>2 DEF Quiet, Purged, Running
  <2> QED
    BY <2>3, <2>4, <2>5, <2>6 DEF Inv
<1> QED
    BY <1>3, <1>4, <1>5 DEF AdminStep

-----------------------------------------------------------------------------
\* Accounts.

\* Rows come, of no Slack member; messages lose their author at most.
LEMMA SourceKept ==
    ASSUME Assumed, Inv, UNCHANGED <<connector, ingest, raw, queue, dirty>>, Relinked,
           \A m \in Messages : messages'[m] # None <=> messages[m] # None,
           \A k \in members' : k \in members \/ k.kind # "slack"
    PROVE  JobsFit' /\ MadeApart' /\ Quiet' /\ Purged'
<1>1. JobsFit'
    BY RelinkedJobs, StaysFetched DEF JobsFit, Fit
<1>2. MadeApart'
    BY RelinkedJobs DEF Inv, MadeApart, Uncommitted
<1>3. Quiet' /\ Purged'
    BY RelinkedJobs DEF Inv, Quiet, Purged, Running
<1> QED
    BY <1>1, <1>2, <1>3

\* A request that does not move stays fit: another organisation's row changes,
\* or its own is new, or gone with its projects.
LEMMA StaysFit ==
    ASSUME Assumed, Inv, NEW r \in Requests,
           \A o \in Orgs : orgs'[o] = orgs[o] \/ orgs'[o] = lastRow + 1 \/ orgs'[o] = 0,
           \A p \in projects : p \in projects' \/ orgs'[p.org] = 0
    PROVE  RequestFit(requests[r], orgs', projects')
<1> DEFINE q == requests[r]
<1>1. RequestFit(q, orgs, projects) /\ q \in Request /\ q.row <= lastRow /\ lastRow \in Nat
    BY DEF Inv, RequestsFit, Tables, Ids
<1>2. q.row \in Nat /\ q.row # lastRow + 1
    BY <1>1 DEF Request
<1> HIDE DEF q
<1>3. ASSUME q.step \in {"member", "newMember", "answered"}, orgs'[q.org] = q.row
      PROVE  \E p \in projects' : p.org = q.org
  <2>1. q.org \in Orgs /\ q.row # 0
    BY <1>1, <1>3 DEF RequestFit
  <2>2. orgs[q.org] = q.row
    BY <1>2, <1>3, <2>1
  <2>3. PICK p \in projects : p.org = q.org
    BY <1>1, <1>3, <2>2 DEF RequestFit
  <2> QED
    BY <1>3, <2>1, <2>3
<1>4. RequestFit(q, orgs', projects')
    BY <1>1, <1>3 DEF RequestFit
<1> QED
    BY <1>4 DEF q

\* Request r becomes q.
LEMMA RequestMoves ==
    ASSUME Assumed, Inv, NEW r \in Requests, NEW q \in Request,
           requests' = [requests EXCEPT ![r] = q],
           RequestFit(q, orgs', projects'), q.row <= lastRow', lastRow' \in Nat, lastRow <= lastRow',
           \A o \in Orgs : orgs'[o] = orgs[o] \/ orgs'[o] = lastRow + 1 \/ orgs'[o] = 0,
           \A p \in projects : p \in projects' \/ orgs'[p.org] = 0
    PROVE  /\ requests' \in [Requests -> Request]
           /\ \A s \in Requests : RequestFit(requests'[s], orgs', projects')
           /\ \A s \in Requests : requests'[s].row <= lastRow'
<1>1. requests \in [Requests -> Request] /\ lastRow \in Nat
    BY DEF Inv, Tables
<1>2. requests' \in [Requests -> Request]
    BY <1>1
<1>3. \A s \in Requests : requests'[s] = IF s = r THEN q ELSE requests[s]
    BY <1>1
<1>4. \A s \in Requests : RequestFit(requests'[s], orgs', projects')
    BY <1>3, StaysFit
<1>5. \A s \in Requests : requests[s].row \in Nat /\ requests[s].row <= lastRow
    BY <1>1 DEF Request, Inv, Ids
<1>6. \A s \in Requests : requests'[s].row <= lastRow'
    BY <1>1, <1>3, <1>5
<1> QED
    BY <1>2, <1>4, <1>6

\* The same, where no organisation's row changes and projects are only added.
LEMMA RequestMovesOn ==
    ASSUME Assumed, Inv, NEW r \in Requests, NEW q \in Request,
           requests' = [requests EXCEPT ![r] = q], UNCHANGED <<orgs, lastRow>>,
           RequestFit(q, orgs, projects'), q.row <= lastRow, projects \subseteq projects'
    PROVE  /\ requests' \in [Requests -> Request]
           /\ \A s \in Requests : RequestFit(requests'[s], orgs', projects')
           /\ \A s \in Requests : requests'[s].row <= lastRow'
<1>1. lastRow' \in Nat /\ lastRow <= lastRow' /\ q.row <= lastRow'
    BY DEF Inv, Tables
<1>2. RequestFit(q, orgs', projects')
    OBVIOUS
<1>3. \A o \in Orgs : orgs'[o] = orgs[o] \/ orgs'[o] = lastRow + 1 \/ orgs'[o] = 0
    OBVIOUS
<1>4. \A p \in projects : p \in projects' \/ orgs'[p.org] = 0
    OBVIOUS
<1> QED
    BY <1>1, <1>2, <1>3, <1>4, RequestMoves

\* What the invariant says of one request.
LEMMA RequestNow ==
    ASSUME Assumed, Inv, NEW r \in Requests
    PROVE  /\ requests[r] \in Request /\ RequestFit(requests[r], orgs, projects)
           /\ requests[r].row \in Nat /\ requests[r].row <= lastRow /\ lastRow \in Nat
           /\ requests[r].step # "idle" => requests[r].org \in Orgs /\ requests[r].user \in Users
BY DEF Inv, Tables, Request, RequestsFit, RequestFit, Ids

\* A step that changes requests alone.
LEMMA RequestOnly ==
    ASSUME Assumed, Inv, NEW r \in Requests, NEW q \in Request,
           requests' = [requests EXCEPT ![r] = q], ops' \in 0..MaxOps,
           RequestFit(q, orgs, projects), q.row <= lastRow,
           UNCHANGED <<directoryTables, members, lastRow, slackTables, queue, dirty>>, Relinked
    PROVE  Inv'
<1>1. UNCHANGED <<orgs, projects, members, lastRow, connector, ingest, raw, messages, queue, dirty>>
    BY DEF directoryTables, slackTables
<1>2. lastRow \in Nat
    BY DEF Inv, Tables
<1>0. RequestFit(q, orgs, projects') /\ projects \subseteq projects'
    BY <1>1
<1>3. /\ requests' \in [Requests -> Request]
      /\ \A s \in Requests : RequestFit(requests'[s], orgs', projects')
      /\ \A s \in Requests : requests'[s].row <= lastRow'
    BY <1>0, <1>1, <1>2, RequestMovesOn
<1>4. Tables' /\ ForeignKeys' /\ Ids' /\ RequestsFit'
    BY <1>1, <1>3, RelinkedJobs DEF Inv, Tables, ForeignKeys, Ids, RequestsFit
<1>5. JobsFit' /\ MadeApart' /\ Quiet' /\ Purged' /\ OneMemberPerUid'
    BY <1>1, SourceKept DEF Inv, OneMemberPerUid, Sub
<1> QED
    BY <1>4, <1>5 DEF Inv

\* A request goes on with the same organisation and user.
LEMMA GotoTyped ==
    ASSUME Assumed, Inv, NEW r \in Requests, requests[r].step # "idle", NEW step \in Steps, NEW row \in Nat,
           Goto(r, step, row)
    PROVE  \E q \in Request : /\ requests' = [requests EXCEPT ![r] = q]
                              /\ q.step = step /\ q.row = row
                              /\ q.org = requests[r].org /\ q.user = requests[r].user
<1> DEFINE q == [step |-> step, org |-> requests[r].org, user |-> requests[r].user, row |-> row]
<1>1. q \in Request
    BY RequestNow DEF Request
<1> QED
    BY <1>1 DEF Goto

\* Reading: the first statement of each of the three functions, and arrivals.
LEMMA ReadInv ==
    ASSUME Assumed, Inv, NEW r \in Requests, UNCHANGED <<queue, dirty>>, Relinked,
           \/ FindOrg(r) \/ FindProject(r) \/ FindMember(r)
           \/ \E o \in Orgs, u \in Users : Login(r, o, u) \/ MemberAdded(r, o, u)
    PROVE  Inv'
<1>1. /\ ops \in 0..MaxOps /\ MaxOps \in Nat /\ orgs \in [Orgs -> Nat] /\ lastRow \in Nat
      /\ \A o \in Orgs : orgs[o] <= lastRow
    BY DEF Inv, Tables, Ids, Assumed, WorkspaceAssumption
<1>2. CASE FindOrg(r) \/ FindProject(r) \/ FindMember(r)
  <2>0. requests[r].step # "idle" /\ ops' \in 0..MaxOps
        /\ UNCHANGED <<directoryTables, members, lastRow, slackTables, queue, dirty>> /\ Relinked
    BY <1>1, <1>2 DEF FindOrg, FindProject, FindMember
  <2>1. CASE FindOrg(r)
    <3> DEFINE step == IF orgs[requests[r].org] = 0 THEN "newOrg" ELSE "project"
               row == orgs[requests[r].org]
    <3>1. step \in Steps /\ row \in Nat /\ row <= lastRow /\ (step = "project" => row # 0)
        BY <1>1, <2>0, RequestNow DEF Steps
    <3>2. step \in {"newOrg", "project"} /\ Goto(r, step, row)
        BY <2>1 DEF FindOrg
    <3> HIDE DEF step, row
    <3>3. PICK q \in Request : /\ requests' = [requests EXCEPT ![r] = q]
                               /\ q.step = step /\ q.row = row
                               /\ q.org = requests[r].org /\ q.user = requests[r].user
        BY <2>0, <3>1, <3>2, GotoTyped
    <3>4. RequestFit(q, orgs, projects)
        BY <2>0, <3>1, <3>2, <3>3, RequestNow DEF RequestFit
    <3> QED
        BY <2>0, <3>1, <3>3, <3>4, RequestOnly
  <2>2. CASE FindProject(r) \/ FindMember(r)
    <3>1. PICK step \in {"member", "newProject", "answered", "newMember"} :
             /\ Goto(r, step, requests[r].row)
             /\ step = "member" => Current(r) /\ HasProject(requests[r].org)
             /\ step \in {"answered", "newMember"} => requests[r].step = "member"
        BY <2>2 DEF FindProject, FindMember
    <3>2. requests[r].step \in {"project", "member"}
        BY <2>2 DEF FindProject, FindMember
    <3>3. PICK q \in Request : /\ requests' = [requests EXCEPT ![r] = q]
                               /\ q.step = step /\ q.row = requests[r].row
                               /\ q.org = requests[r].org /\ q.user = requests[r].user
        BY <2>0, <3>1, RequestNow, GotoTyped DEF Steps
    <3>4. RequestFit(q, orgs, projects)
        BY <2>0, <3>1, <3>2, <3>3, RequestNow DEF RequestFit, HasProject, Current
    <3>5. q.row <= lastRow
        BY <3>3, RequestNow
    <3> QED
        BY <2>0, <3>3, <3>4, <3>5, RequestOnly
  <2> QED
    BY <1>2, <2>1, <2>2
<1>3. ASSUME NEW o \in Orgs, NEW u \in Users, Login(r, o, u) \/ MemberAdded(r, o, u) PROVE Inv'
  <2>1. PICK step \in {"org", "event"}, row \in {0, orgs[o]} :
          requests' = [requests EXCEPT ![r] = [step |-> step, org |-> o, user |-> u, row |-> row]]
    BY <1>3 DEF Login, MemberAdded
  <2> DEFINE q == [step |-> step, org |-> o, user |-> u, row |-> row]
  <2>2. row \in Nat /\ row <= lastRow
    BY <1>1, <2>1
  <2>3. q \in Request /\ RequestFit(q, orgs, projects) /\ q.row <= lastRow
    BY <2>2 DEF Request, Steps, RequestFit
  <2>4. ops' \in 0..MaxOps /\ UNCHANGED <<directoryTables, members, lastRow, slackTables, queue, dirty>> /\ Relinked
    BY <1>1, <1>3 DEF Login, MemberAdded, Start
  <2> QED
    BY <2>1, <2>3, <2>4, RequestOnly
<1> QED
    BY <1>2, <1>3

-----------------------------------------------------------------------------
\* Writing.

\* A step of accounts that deletes no organisation.
LEMMA AccountsInv ==
    ASSUME Assumed, Inv, UNCHANGED <<connector, ingest, raw, queue, dirty>>, Relinked,
           ops' \in 0..MaxOps,
           messages' \in [Messages -> Row \cup {None}],
           \A m \in Messages : messages'[m] # None <=> messages[m] # None,
           orgs' \in [Orgs -> Nat], lastRow' \in Nat, lastRow <= lastRow',
           \A o \in Orgs : orgs'[o] <= lastRow' /\ (orgs[o] # 0 => orgs'[o] # 0),
           projects' \subseteq Project, \A p \in projects' : orgs'[p.org] # 0,
           members' \subseteq Member, \A m \in members' : orgs'[m.org] # 0,
           \A k \in members' : k \in members \/ k.kind # "slack",
           OneMemberPerUid', requests' \in [Requests -> Request], RequestsFit',
           \A r \in Requests : requests'[r].row <= lastRow'
    PROVE  Inv'
<1>1. Tables' /\ ForeignKeys'
    BY RelinkedJobs DEF Inv, Tables, ForeignKeys, Assumed, WorkspaceAssumption
<1>2. Ids'
  <2>1. connector \in Nat /\ connector <= lastRow /\ lastRow \in Nat
    BY DEF Inv, Tables, Ids
  <2>2. \A w \in Workers : jobs[w].connector \in Nat /\ jobs[w].connector <= lastRow
    BY DEF Inv, Tables, Ids, Job
  <2> QED
    BY <2>1, <2>2, RelinkedJobs DEF Ids
<1>3. JobsFit' /\ MadeApart' /\ Quiet' /\ Purged'
    BY SourceKept
<1> QED
    BY <1>1, <1>2, <1>3 DEF Inv

\* The tables of accounts, as they are.
LEMMA AccountsNow ==
    ASSUME Assumed, Inv
    PROVE  /\ ops \in 0..MaxOps /\ MaxOps \in Nat /\ lastRow \in Nat
           /\ orgs \in [Orgs -> Nat] /\ \A o \in Orgs : orgs[o] \in Nat /\ orgs[o] <= lastRow
           /\ projects \subseteq Project /\ \A p \in projects : orgs[p.org] # 0 /\ p.org \in Orgs
           /\ members \subseteq Member /\ \A m \in members : orgs[m.org] # 0 /\ m.org \in Orgs
           /\ messages \in [Messages -> Row \cup {None}] /\ OneMemberPerUid
           /\ \A p \in projects : p.name = ProjectName[p.org]
           /\ requests \in [Requests -> Request]
BY DEF Inv, Tables, Ids, ForeignKeys, RequestsFit, Project, Member, Assumed, WorkspaceAssumption

\* An organisation gets its row.
LEMMA NewOrgRow ==
    ASSUME Assumed, Inv, NEW o \in Orgs, orgs[o] = 0, NewOrg(o)
    PROVE  /\ orgs' \in [Orgs -> Nat] /\ lastRow' \in Nat /\ lastRow' = lastRow + 1
           /\ orgs'[o] = lastRow + 1
           /\ \A p \in Orgs : /\ orgs'[p] <= lastRow' /\ (orgs[p] # 0 => orgs'[p] # 0)
                              /\ orgs'[p] = orgs[p] \/ orgs'[p] = lastRow + 1
BY AccountsNow DEF NewOrg

\* A request inserts its organisation, or reads the winner's.
LEMMA InsertOrgInv ==
    ASSUME Assumed, Inv, NEW r \in Requests, InsertOrg(r), UNCHANGED <<queue, dirty>>, Relinked
    PROVE  Inv'
<1> DEFINE o == requests[r].org
<1>1. /\ requests[r].step = "newOrg" /\ o \in Orgs /\ requests[r].user \in Users
      /\ UNCHANGED <<projects, members, connector, ingest, raw, messages, queue, dirty, ops>>
    BY RequestNow DEF InsertOrg, slackTables
<1>2. PICK row \in Nat : /\ Goto(r, "project", row) /\ row # 0 /\ row <= lastRow'
                         /\ orgs' \in [Orgs -> Nat] /\ lastRow' \in Nat /\ lastRow <= lastRow'
                         /\ \A p \in Orgs : /\ orgs'[p] <= lastRow' /\ (orgs[p] # 0 => orgs'[p] # 0)
                                            /\ orgs'[p] = orgs[p] \/ orgs'[p] = lastRow + 1
  <2>1. CASE orgs[o] = 0 /\ NewOrg(o) /\ Goto(r, "project", lastRow + 1)
    BY <1>1, <2>1, NewOrgRow, AccountsNow
  <2>2. CASE orgs[o] # 0 /\ Goto(r, "project", orgs[o]) /\ UNCHANGED <<orgs, lastRow>>
    BY <1>1, <2>2, AccountsNow
  <2> QED
    BY <2>1, <2>2 DEF InsertOrg
<1>3. PICK q \in Request : /\ requests' = [requests EXCEPT ![r] = q]
                           /\ q.step = "project" /\ q.row = row
                           /\ q.org = o /\ q.user = requests[r].user
    BY <1>1, <1>2, GotoTyped DEF Steps
<1>4. RequestFit(q, orgs', projects')
    BY <1>1, <1>2, <1>3 DEF RequestFit
<1>5. /\ requests' \in [Requests -> Request]
      /\ \A s \in Requests : RequestFit(requests'[s], orgs', projects')
      /\ \A s \in Requests : requests'[s].row <= lastRow'
    BY <1>1, <1>2, <1>3, <1>4, RequestMoves
<1>6. RequestsFit' /\ OneMemberPerUid'
    BY <1>1, <1>5, AccountsNow DEF RequestsFit, OneMemberPerUid, Sub
<1>7. \A p \in projects' : orgs'[p.org] # 0
    BY <1>1, <1>2, AccountsNow
<1>8. \A m \in members' : orgs'[m.org] # 0
    BY <1>1, <1>2, AccountsNow
<1> QED
    BY <1>1, <1>2, <1>5, <1>6, <1>7, <1>8, AccountsNow, AccountsInv

\* It inserts the project, or is answered with the error.
LEMMA InsertProjectInv ==
    ASSUME Assumed, Inv, NEW r \in Requests, InsertProject(r), UNCHANGED <<queue, dirty>>, Relinked
    PROVE  Inv'
<1> DEFINE o == requests[r].org
           row == requests[r].row
<1>1. /\ requests[r].step = "newProject" /\ o \in Orgs /\ requests[r].user \in Users
      /\ row \in Nat /\ row # 0 /\ row <= lastRow /\ lastRow \in Nat
      /\ UNCHANGED <<orgs, lastRow, members, connector, ingest, raw, messages, queue, dirty, ops>>
    BY RequestNow DEF InsertProject, slackTables, source, RequestFit
<1>2. PICK step \in {"member", "failed"} :
          /\ Goto(r, step, row)
          /\ \/ projects' = projects /\ step = "failed"
             \/ /\ Current(r) /\ step = "member"
                /\ projects' = projects \cup {[org |-> o, name |-> ProjectName[o]]}
    BY DEF InsertProject
<1>3. PICK q \in Request : /\ requests' = [requests EXCEPT ![r] = q]
                           /\ q.step = step /\ q.row = row
                           /\ q.org = o /\ q.user = requests[r].user
    BY <1>1, <1>2, GotoTyped DEF Steps
<1>4. RequestFit(q, orgs, projects')
  <2>1. ASSUME step = "member" PROVE \E p \in projects' : p.org = o
    <3> DEFINE p == [org |-> o, name |-> ProjectName[o]]
    <3>1. p \in projects' /\ p.org = o
        BY <1>2, <2>1
    <3> QED
        BY <3>1
  <2> QED
    BY <1>1, <1>2, <1>3, <2>1 DEF RequestFit
<1>5. projects \subseteq projects'
    BY <1>2
<1>6. /\ requests' \in [Requests -> Request]
      /\ \A s \in Requests : RequestFit(requests'[s], orgs', projects')
      /\ \A s \in Requests : requests'[s].row <= lastRow'
    BY <1>1, <1>3, <1>4, <1>5, RequestMovesOn
<1>7. /\ projects' \subseteq Project /\ \A p \in projects' : orgs'[p.org] # 0
      /\ \A p \in projects' : p.name = ProjectName[p.org]
    BY <1>1, <1>2, AccountsNow DEF Project, Current
<1>8. RequestsFit' /\ OneMemberPerUid'
    BY <1>1, <1>6, <1>7, AccountsNow DEF RequestsFit, OneMemberPerUid, Sub
<1> QED
    BY <1>1, <1>6, <1>7, <1>8, AccountsNow, AccountsInv

\* A user who has none gets a membership.
LEMMA NewLogin ==
    ASSUME Assumed, Inv, NEW o \in Orgs, NEW u \in Users, ~HasMember(o, "login", u),
           members' = members \cup {MemberRow(o, u)}
    PROVE  /\ members' \subseteq Member /\ OneMemberPerUid'
           /\ \A k \in members' : k \in members \/ (k.kind # "slack" /\ k.org = o)
<1> DEFINE k == MemberRow(o, u)
<1>1. k \in Member /\ k.org = o /\ k.kind = "login" /\ k.key = u
    BY DEF MemberRow, Member, Labels, Assumed, WorkspaceAssumption
<1> HIDE DEF k
<1>2. OneMemberPerUid'
    BY <1>1, AccountsNow DEF OneMemberPerUid, Sub, HasMember, k
<1> QED
    BY <1>1, <1>2, AccountsNow DEF k

\* It inserts the membership, or is answered with the error.
LEMMA InsertMemberInv ==
    ASSUME Assumed, Inv, NEW r \in Requests, InsertMember(r), UNCHANGED <<queue, dirty>>, Relinked
    PROVE  Inv'
<1> DEFINE o == requests[r].org
           u == requests[r].user
           row == requests[r].row
<1>1. /\ requests[r].step = "newMember" /\ o \in Orgs /\ u \in Users
      /\ row \in Nat /\ row # 0 /\ row <= lastRow /\ lastRow \in Nat
      /\ UNCHANGED <<orgs, projects, lastRow, connector, ingest, raw, messages, queue, dirty, ops>>
    BY RequestNow DEF InsertMember, slackTables, directoryTables, source, RequestFit
<1>2. PICK step \in {"answered", "failed"} :
          /\ Goto(r, step, row)
          /\ \/ members' = members
             \/ /\ Current(r) /\ ~HasMember(o, "login", u)
                /\ members' = members \cup {MemberRow(o, u)}
    BY DEF InsertMember
<1>3. PICK q \in Request : /\ requests' = [requests EXCEPT ![r] = q]
                           /\ q.step = step /\ q.row = row
                           /\ q.org = o /\ q.user = u
    BY <1>1, <1>2, GotoTyped DEF Steps
<1>4. RequestFit(q, orgs, projects') /\ projects \subseteq projects'
    BY <1>1, <1>2, <1>3, RequestNow DEF RequestFit
<1>5. /\ requests' \in [Requests -> Request]
      /\ \A s \in Requests : RequestFit(requests'[s], orgs', projects')
      /\ \A s \in Requests : requests'[s].row <= lastRow'
    BY <1>1, <1>3, <1>4, RequestMovesOn
<1>6. /\ members' \subseteq Member /\ OneMemberPerUid'
      /\ \A k \in members' : k \in members \/ k.kind # "slack"
      /\ \A k \in members' : orgs'[k.org] # 0
  <2>1. CASE members' = members
    BY <1>1, <2>1, AccountsNow DEF OneMemberPerUid, Sub
  <2>2. CASE Current(r) /\ ~HasMember(o, "login", u) /\ members' = members \cup {MemberRow(o, u)}
    BY <1>1, <2>2, NewLogin, AccountsNow DEF Current
  <2> QED
    BY <1>2, <2>1, <2>2
<1>7. RequestsFit'
    BY <1>1, <1>5, AccountsNow DEF RequestsFit
<1> QED
    BY <1>1, <1>5, <1>6, <1>7, AccountsNow, AccountsInv

\* member.added commits what was missing.
LEMMA CommitAddedInv ==
    ASSUME Assumed, Inv, NEW r \in Requests, CommitAdded(r), UNCHANGED <<queue, dirty>>, Relinked
    PROVE  Inv'
<1> DEFINE o == requests[r].org
           u == requests[r].user
<1>1. /\ o \in Orgs /\ u \in Users /\ requests' = [requests EXCEPT ![r] = NoRequest]
      /\ UNCHANGED <<projects, connector, ingest, raw, messages, queue, dirty, ops>>
    BY RequestNow DEF CommitAdded, slackTables
<1>2. /\ orgs' \in [Orgs -> Nat] /\ lastRow' \in Nat /\ lastRow <= lastRow'
      /\ \A p \in Orgs : /\ orgs'[p] <= lastRow' /\ (orgs[p] # 0 => orgs'[p] # 0)
                         /\ orgs'[p] = orgs[p] \/ orgs'[p] = lastRow + 1
      /\ members' \subseteq Member /\ OneMemberPerUid'
      /\ \A k \in members' : k \in members \/ k.kind # "slack"
      /\ \A k \in members' : orgs'[k.org] # 0
  <2>1. CASE UNCHANGED <<orgs, lastRow, members>>
    BY <1>1, <2>1, AccountsNow DEF OneMemberPerUid, Sub
  <2>2. CASE /\ ~HasMember(o, "login", u) /\ members' = members \cup {MemberRow(o, u)}
             /\ IF orgs[o] = 0 THEN NewOrg(o) ELSE UNCHANGED <<orgs, lastRow>>
    <3>1. /\ orgs' \in [Orgs -> Nat] /\ lastRow' \in Nat /\ lastRow <= lastRow' /\ orgs'[o] # 0
          /\ \A p \in Orgs : /\ orgs'[p] <= lastRow' /\ (orgs[p] # 0 => orgs'[p] # 0)
                             /\ orgs'[p] = orgs[p] \/ orgs'[p] = lastRow + 1
      <4>1. CASE orgs[o] = 0
          BY <1>1, <2>2, <4>1, NewOrgRow, AccountsNow
      <4>2. CASE orgs[o] # 0
          BY <1>1, <2>2, <4>2, AccountsNow
      <4> QED
          BY <4>1, <4>2
    <3>2. /\ members' \subseteq Member /\ OneMemberPerUid'
          /\ \A k \in members' : k \in members \/ (k.kind # "slack" /\ k.org = o)
        BY <1>1, <2>2, NewLogin
    <3> QED
        BY <3>1, <3>2, AccountsNow
  <2> QED
    BY <2>1, <2>2 DEF CommitAdded
<1>3. NoRequest \in Request /\ NoRequest.row = 0 /\ RequestFit(NoRequest, orgs', projects')
    BY DEF NoRequest, Request, Steps, RequestFit
<1>4. /\ requests' \in [Requests -> Request]
      /\ \A s \in Requests : RequestFit(requests'[s], orgs', projects')
      /\ \A s \in Requests : requests'[s].row <= lastRow'
  <2>1. /\ NoRequest.row <= lastRow'
        /\ \A p \in Orgs : orgs'[p] = orgs[p] \/ orgs'[p] = lastRow + 1 \/ orgs'[p] = 0
        /\ \A p \in projects : p \in projects' \/ orgs'[p.org] = 0
    BY <1>1, <1>2, <1>3
  <2> QED
    BY <1>1, <1>2, <1>3, <2>1, RequestMoves
<1>5. RequestsFit' /\ \A p \in projects' : orgs'[p.org] # 0
    BY <1>1, <1>2, <1>4, AccountsNow DEF RequestsFit
<1> QED
    BY <1>1, <1>2, <1>4, <1>5, AccountsNow, AccountsInv

\* Requests stay as they are.
LEMMA RequestsStay ==
    ASSUME Assumed, Inv, UNCHANGED requests, lastRow' \in Nat, lastRow <= lastRow',
           \A o \in Orgs : orgs'[o] = orgs[o] \/ orgs'[o] = lastRow + 1 \/ orgs'[o] = 0,
           \A p \in projects : p \in projects' \/ orgs'[p.org] = 0,
           \A p \in projects' : p.name = ProjectName[p.org]
    PROVE  RequestsFit' /\ \A r \in Requests : requests'[r].row <= lastRow'
<1>1. \A r \in Requests : requests[r].row \in Nat /\ requests[r].row <= lastRow /\ lastRow \in Nat
    BY RequestNow
<1>2. \A r \in Requests : requests'[r].row <= lastRow'
    BY <1>1
<1>3. RequestsFit'
    BY StaysFit DEF RequestsFit
<1> QED
    BY <1>2, <1>3

\* org.created: an organisation with a new row.
LEMMA OrgCreatedInv ==
    ASSUME Assumed, Inv, NEW o \in Orgs, OrgCreated(o), UNCHANGED <<queue, dirty>>, Relinked
    PROVE  Inv'
<1>1. /\ orgs[o] = 0 /\ NewOrg(o) /\ ops' \in 0..MaxOps
      /\ UNCHANGED <<projects, members, connector, ingest, raw, messages, queue, dirty, requests>>
    BY AccountsNow DEF OrgCreated, Start, slackTables
<1>2. /\ orgs' \in [Orgs -> Nat] /\ lastRow' \in Nat /\ lastRow' = lastRow + 1
      /\ \A p \in Orgs : /\ orgs'[p] <= lastRow' /\ (orgs[p] # 0 => orgs'[p] # 0)
                         /\ orgs'[p] = orgs[p] \/ orgs'[p] = lastRow + 1
    BY <1>1, NewOrgRow
<1>3. lastRow <= lastRow'
    BY <1>2, AccountsNow
<1>4. RequestsFit' /\ \A r \in Requests : requests'[r].row <= lastRow'
    BY <1>1, <1>2, <1>3, AccountsNow, RequestsStay
<1>5. /\ \A p \in projects' : orgs'[p.org] # 0
      /\ \A k \in members' : orgs'[k.org] # 0
      /\ OneMemberPerUid'
    BY <1>1, <1>2, AccountsNow DEF OneMemberPerUid, Sub
<1> QED
    BY <1>1, <1>2, <1>3, <1>4, <1>5, AccountsNow, AccountsInv

\* member.removed: a login's membership goes, its links with it.
LEMMA MemberRemovedInv ==
    ASSUME Assumed, Inv, NEW o \in Orgs, NEW u \in Users, MemberRemoved(o, u), UNCHANGED <<queue, dirty>>, Relinked
    PROVE  Inv'
<1>1. /\ ops' \in 0..MaxOps /\ members' \subseteq members /\ \E gone : messages' = Unlink(gone)
      /\ UNCHANGED <<orgs, projects, lastRow, connector, ingest, raw, queue, dirty, requests>>
  <2>1. /\ ops' \in 0..MaxOps
        /\ UNCHANGED <<orgs, projects, lastRow, connector, ingest, raw, queue, dirty, requests>>
    BY AccountsNow DEF MemberRemoved, Start, directoryTables
  <2>2. members' \subseteq members /\ \E gone : messages' = Unlink(gone)
    BY DEF MemberRemoved, DeleteMembers
  <2> QED
    BY <2>1, <2>2
<1>2. /\ messages' \in [Messages -> Row \cup {None}]
      /\ \A m \in Messages : messages'[m] # None <=> messages[m] # None
    BY <1>1, UnlinkRows DEF Inv
<1>3. RequestsFit' /\ \A r \in Requests : requests'[r].row <= lastRow'
    BY <1>1, AccountsNow, RequestsStay
<1>4. OneMemberPerUid'
    BY <1>1, AccountsNow DEF OneMemberPerUid, Sub
<1> QED
    BY <1>1, <1>2, <1>3, <1>4, AccountsNow, AccountsInv

\* An administrator adds a persona.
LEMMA CreateMemberInv ==
    ASSUME Assumed, Inv, NEW u \in Users, NEW n \in Names, CreateMember(u, n), UNCHANGED <<queue, dirty>>, Relinked
    PROVE  Inv'
<1> DEFINE k == [org |-> Home, kind |-> "persona", key |-> n, name |-> n]
<1>1. /\ ops' \in 0..MaxOps /\ members' = members \cup {k} /\ ~HasMember(Home, "persona", n)
      /\ HasMember(Home, "login", u)
      /\ UNCHANGED <<orgs, projects, lastRow, connector, ingest, raw, messages, queue, dirty, requests>>
    BY AccountsNow DEF CreateMember, Start, directoryTables, slackTables
<1>2. /\ k \in Member /\ k.org = Home /\ k.kind = "persona" /\ k.key = n /\ orgs[Home] # 0
    BY <1>1, AccountsNow DEF Member, Labels, HasMember, Assumed, WorkspaceAssumption
<1> HIDE DEF k
<1>3. RequestsFit' /\ \A r \in Requests : requests'[r].row <= lastRow'
    BY <1>1, AccountsNow, RequestsStay
<1>4. OneMemberPerUid'
    BY <1>1, <1>2, AccountsNow DEF OneMemberPerUid, Sub, HasMember
<1>5. /\ members' \subseteq Member /\ \A m \in members' : orgs'[m.org] # 0
      /\ \A m \in members' : m \in members \/ m.kind # "slack"
    BY <1>1, <1>2, AccountsNow
<1> QED
    BY <1>1, <1>3, <1>4, <1>5, AccountsNow, AccountsInv

\* An organisation goes, and if it is Home all that Slack brought.
LEMMA OrgDeletedInv ==
    ASSUME Assumed, Inv, NEW o \in Orgs, OrgDeleted(o),
           Relinked, IF orgs[Home] # 0 /\ orgs'[Home] = 0 THEN SourceDeleted ELSE UNCHANGED <<queue, dirty>>
    PROVE  Inv'
<1>1. /\ orgs[o] # 0 /\ ops' \in 0..MaxOps /\ UNCHANGED <<lastRow, requests>>
      /\ orgs' = [orgs EXCEPT ![o] = 0] /\ projects' = {p \in projects : p.org # o}
      /\ members' = {m \in members : m.org # o}
      /\ Home \in Orgs
    BY AccountsNow DEF OrgDeleted, DeleteOrg, CascadedProjects, Start, Assumed, WorkspaceAssumption
<1>2. /\ orgs' \in [Orgs -> Nat] /\ \A p \in Orgs : orgs'[p] = IF p = o THEN 0 ELSE orgs[p]
      /\ \A p \in Orgs : orgs'[p] <= lastRow
    BY <1>1, AccountsNow
<1>3. /\ projects' \subseteq Project /\ \A p \in projects' : orgs'[p.org] # 0
      /\ members' \subseteq Member /\ \A m \in members' : orgs'[m.org] # 0
      /\ OneMemberPerUid'
    BY <1>1, <1>2, AccountsNow DEF OneMemberPerUid, Sub
<1>4. RequestsFit' /\ \A r \in Requests : requests'[r].row <= lastRow'
  <2>1. /\ lastRow' \in Nat /\ lastRow <= lastRow'
        /\ \A p \in Orgs : orgs'[p] = orgs[p] \/ orgs'[p] = lastRow + 1 \/ orgs'[p] = 0
        /\ \A p \in projects : p \in projects' \/ orgs'[p.org] = 0
        /\ \A p \in projects' : p.name = ProjectName[p.org]
    BY <1>1, <1>2, AccountsNow
  <2> QED
    BY <1>1, <2>1, RequestsStay
<1>5. CASE o = Home
  <2>1. /\ connector' = 0 /\ raw' = {} /\ queue' = {}
        /\ ingest' = [c \in Channels |-> "none"] /\ messages' = [m \in Messages |-> None]
        /\ dirty' = IF \E w \in Workers : Running(w) THEN "yes" ELSE "no"
    BY <1>1, <1>2, <1>5 DEF OrgDeleted, DeleteOrg, SourceDeleted
  <2>2. \A k \in members' : k.org # Home
    BY <1>1, <1>5
  <2>3. Tables' /\ ForeignKeys' /\ Ids'
    BY <1>1, <1>2, <1>3, <1>4, <2>1, RelinkedJobs DEF Inv, Tables, ForeignKeys, Ids
  <2>4. JobsFit'
    BY <2>1, RelinkedJobs, StaysFetched DEF JobsFit, Fit
  <2>5. MadeApart'
    BY <1>1, <2>1, RelinkedJobs DEF Inv, MadeApart, Uncommitted
  <2>6. Quiet' /\ Purged'
    BY <2>1, <2>2, RelinkedJobs DEF Quiet, Purged, Running
  <2> QED
    BY <1>3, <1>4, <2>3, <2>4, <2>5, <2>6 DEF Inv
<1>6. CASE o # Home
  <2>1. UNCHANGED <<connector, ingest, raw, messages, queue, dirty>> /\ orgs'[Home] = orgs[Home]
    BY <1>1, <1>2, <1>6 DEF OrgDeleted, DeleteOrg, slackTables
  <2>2. Tables' /\ ForeignKeys' /\ Ids'
    BY <1>1, <1>2, <1>3, <1>4, <2>1, RelinkedJobs DEF Inv, Tables, ForeignKeys, Ids
  <2>3. JobsFit' /\ MadeApart' /\ Quiet' /\ Purged'
    BY <1>1, <2>1, SourceKept
  <2> QED
    BY <1>3, <1>4, <2>2, <2>3 DEF Inv
<1> QED
    BY <1>5, <1>6

\* No step of accounts but a deletion takes an organisation's row.
LEMMA HomeStays ==
    ASSUME Assumed, Inv, DirectoryStep, ~ \E o \in Orgs : OrgDeleted(o), orgs[Home] # 0
    PROVE  orgs'[Home] # 0
<1>1. Home \in Orgs
    BY DEF Assumed, WorkspaceAssumption
<1>2. UNCHANGED orgs \/ \E o \in Orgs : orgs[o] = 0 /\ NewOrg(o)
  <2>1. ASSUME NEW r \in Requests, RequestStep(r)
        PROVE  UNCHANGED orgs \/ \E o \in Orgs : orgs[o] = 0 /\ NewOrg(o)
    <3>1. CASE InsertOrg(r) \/ CommitAdded(r)
        BY <3>1, RequestNow DEF InsertOrg, CommitAdded
    <3> QED
        BY <2>1, <3>1 DEF RequestStep, FindOrg, FindProject, InsertProject, FindMember,
                          InsertMember, directoryTables
  <2>2. CASE Arrival
    BY <2>2 DEF Arrival, Login, MemberAdded, OrgCreated, MemberRemoved, CreateMember, directoryTables
  <2> QED
    BY <2>1, <2>2 DEF DirectoryStep
<1> QED
    BY <1>1, <1>2, NewOrgRow

\* Every step of the accounts keeps the invariant.
LEMMA AccountsStepInv ==
    ASSUME Assumed, Inv, Accounts
    PROVE  Inv'
<1>1. CASE \E o \in Orgs : OrgDeleted(o)
    BY <1>1, OrgDeletedInv DEF Accounts, Relinked
<1>2. CASE ~ \E o \in Orgs : OrgDeleted(o)
  <2>1. UNCHANGED <<queue, dirty>> /\ Relinked
    BY <1>2, HomeStays DEF Accounts, Relinked
  <2>2. ASSUME NEW r \in Requests, RequestStep(r) PROVE Inv'
    BY <2>1, <2>2, ReadInv, InsertOrgInv, InsertProjectInv, InsertMemberInv, CommitAddedInv
       DEF RequestStep
  <2>3. CASE Arrival
    BY <1>2, <2>1, <2>3, ReadInv, OrgCreatedInv, MemberRemovedInv, CreateMemberInv DEF Arrival
  <2> QED
    BY <2>2, <2>3 DEF Accounts, DirectoryStep
<1> QED
    BY <1>1, <1>2

-----------------------------------------------------------------------------
\* The theorems.

\* Both kinds of initial states satisfy the invariant.
LEMMA InitInv == Assumed /\ Init => Inv
<1> SUFFICES ASSUME Assumed, Init PROVE Inv
    OBVIOUS
<1>0. Home \in Orgs /\ MaxOps \in Nat /\ UserName \in [Users -> Names]
    BY DEF Assumed, WorkspaceAssumption
<1>1. /\ queue = {} /\ jobs = [w \in Workers |-> NoJob] /\ dirty = "no"
      /\ requests = [r \in Requests |-> NoRequest]
    BY DEF Init, SourceInit, DirectoryInit
<1>2. /\ raw = {} /\ messages = [m \in Messages |-> None] /\ ops = 0
    BY DEF Init, TablesInit, TablesConnected
<1>3. /\ orgs \in [Orgs -> Nat] /\ lastRow \in Nat /\ connector \in Nat
      /\ connector <= lastRow /\ (connector # 0 => orgs[Home] # 0)
      /\ \A o \in Orgs : orgs[o] <= lastRow
      /\ projects \subseteq Project /\ \A p \in projects : p.name = ProjectName[p.org]
      /\ \A p \in projects : orgs[p.org] # 0
      /\ ingest \in [Channels -> {"none", "on", "off"}]
      /\ \A c \in Channels : ingest[c] # "none" => connector # 0
  <2>1. CASE TablesInit
    BY <1>0, <2>1 DEF TablesInit
  <2>2. ASSUME NEW u \in Users, TablesConnected(u)
        PROVE  /\ orgs \in [Orgs -> Nat] /\ lastRow \in Nat /\ connector \in Nat
               /\ connector <= lastRow /\ orgs[Home] # 0 /\ connector # 0
               /\ \A o \in Orgs : orgs[o] <= lastRow
               /\ projects \subseteq Project /\ \A p \in projects : p.name = ProjectName[p.org]
               /\ \A p \in projects : orgs[p.org] # 0
               /\ ingest \in [Channels -> {"none", "on", "off"}]
    <3>1. [org |-> Home, name |-> ProjectName[Home]] \in Project
        BY <1>0 DEF Project
    <3> QED
        BY <1>0, <2>2, <3>1 DEF TablesConnected
  <2> QED
    BY <2>1, <2>2 DEF Init
<1>4. /\ members \subseteq Member /\ OneMemberPerUid /\ \A m \in members : orgs[m.org] # 0
      /\ \A k \in members : k.kind # "slack"
  <2>1. CASE TablesInit
    BY <2>1 DEF TablesInit, OneMemberPerUid
  <2>2. ASSUME NEW u \in Users, TablesConnected(u)
        PROVE  /\ members \subseteq Member /\ OneMemberPerUid /\ \A m \in members : orgs[m.org] # 0
               /\ \A k \in members : k.kind # "slack"
    <3> DEFINE k == [org |-> Home, kind |-> "login", key |-> u, name |-> UserName[u]]
    <3>1. k \in Member /\ k.org = Home /\ k.kind = "login" /\ members = {k} /\ orgs[Home] # 0
        BY <1>0, <2>2 DEF Member, Labels, TablesConnected
    <3> HIDE DEF k
    <3> QED
        BY <3>1 DEF OneMemberPerUid
  <2> QED
    BY <2>1, <2>2 DEF Init
<1>5. /\ \A w \in Workers : jobs[w] = NoJob
      /\ \A r \in Requests : requests[r] = NoRequest
    BY <1>1
<1>6. /\ NoJob \in Job /\ Fit(NoJob, connector, messages) /\ NoJob.made = {} /\ NoJob.connector = 0
      /\ NoJob.step = "idle"
    BY IdleFits
<1>7. NoRequest \in Request /\ NoRequest.row = 0 /\ RequestFit(NoRequest, orgs, projects)
    BY DEF NoRequest, Request, Steps, RequestFit
<1>8. Tables
    BY <1>0, <1>1, <1>2, <1>3, <1>4, <1>6, <1>7 DEF Tables
<1>9. ForeignKeys /\ RequestsFit /\ JobsFit
    BY <1>1, <1>3, <1>4, <1>5, <1>6, <1>7 DEF ForeignKeys, RequestsFit, JobsFit
<1>10. Ids
    BY <1>3, <1>5, <1>6, <1>7 DEF Ids
<1>11. MadeApart
    BY <1>5, <1>6 DEF MadeApart, Uncommitted
<1>12. Quiet /\ Purged
    BY <1>1, <1>2, <1>3, <1>4, <1>5, <1>6 DEF Quiet, Purged, Running
<1> QED
    BY <1>4, <1>8, <1>9, <1>10, <1>11, <1>12 DEF Inv

\* It is inductive: the accounts' steps, the source's, and neither.
LEMMA NextInv == Assumed /\ Inv /\ [Next]_vars => Inv'
<1> SUFFICES ASSUME Assumed, Inv, [Next]_vars PROVE Inv'
    OBVIOUS
<1>1. CASE Accounts
    BY <1>1, AccountsStepInv
<1>2. CASE SourceStep /\ UNCHANGED requests
    BY <1>2, AdminInv, JobInv DEF SourceStep
<1>3. CASE UNCHANGED vars
  <2>1. /\ UNCHANGED <<orgs, projects, members, connector, ingest, raw, messages, lastRow, ops>>
        /\ UNCHANGED <<requests, queue, jobs, dirty>>
    BY <1>3 DEF vars, tables, directoryTables, slackTables, source
  <2> QED
    BY <2>1 DEF Inv, Tables, ForeignKeys, Ids, RequestsFit, JobsFit, MadeApart, OneMemberPerUid,
                Sub, Quiet, Purged, Running
<1> QED
    BY <1>1, <1>2, <1>3 DEF Next

\* The invariant holds in every state.
THEOREM WorkspaceInvariant == Spec => []Inv
<1>1. Assumed
    BY WorkspaceAssumption, SourceAssumption, LinkAssumption DEF Assumed
<1> QED
    BY <1>1, InitInv, NextInv, PTL DEF Spec

\* Every row is of its table's type and every foreign key holds, whatever
\* requests, jobs and deletions run at once.
THEOREM WorkspaceTypeCorrect == Spec => []TypeOK
<1>1. Inv => TypeOK
    BY DEF Inv, Tables, ForeignKeys, TypeOK, TablesTypeOK, RequestsTypeOK, SourceTypeOK
<1> QED
    BY <1>1, WorkspaceInvariant, PTL

\* An organisation has one project at most, and a request that was answered
\* found or made it (require_user).
THEOREM WorkspaceHoused == Spec => []Housed
<1>1. Inv => Housed
  <2> SUFFICES ASSUME Inv PROVE Housed
    OBVIOUS
  <2>1. ASSUME NEW p \in projects, NEW q \in projects, p.org = q.org PROVE p = q
    BY <2>1 DEF Inv, Tables, RequestsFit, Project
  <2>2. ASSUME NEW r \in Requests, requests[r].step = "answered", Current(r)
        PROVE  HasProject(requests[r].org)
    BY <2>2 DEF Inv, RequestsFit, RequestFit, Current, HasProject
  <2> QED
    BY <2>1, <2>2 DEF Housed
<1> QED
    BY <1>1, WorkspaceInvariant, PTL

\* However many routes and syncs provision an author at once, a Slack id, a user
\* and a persona have one membership each in an organisation.
THEOREM WorkspaceOneMemberPerUid == Spec => []OneMemberPerUid
BY WorkspaceInvariant, PTL DEF Inv

\* A disconnect, or the organisation's deletion, with no job running leaves
\* nothing of Slack.
THEOREM WorkspacePurged == Spec => []Purged
BY WorkspaceInvariant, PTL DEF Inv

\* A sync that ended below its cap stored every message of the channels that
\* did not fail.
THEOREM WorkspaceSyncWhole == Spec => []SyncWhole
<1>1. Assumed
    BY WorkspaceAssumption, SourceAssumption, LinkAssumption DEF Assumed
<1>2. Assumed /\ Inv => SyncWhole
    BY JobNow DEF SyncWhole, Full, Fetched, Syncing
<1> QED
    BY <1>1, <1>2, WorkspaceInvariant, PTL

-----------------------------------------------------------------------------
\* Every message is credited to its author: a second invariant, on top of Inv.

\* The membership is of who is posted as l: provisioned for that id, or of a
\* name users_info answers for it.
Credits(k, l) == (k.kind = "slack" /\ k.key = l) \/ k.name \in Resolved(l)

\* A membership Slack brought has a name users_info answered for its id.
RightName(k) == k.kind = "slack" => k.name \in Resolved(k.key)

\* Who job j sees when the memberships are ms.
MadeBy(j) == {[org |-> Home, kind |-> "slack", key |-> n.key, name |-> n.name] : n \in j.made}
Sees(j, ms) == {k \in ms : k.org = Home} \cup MadeBy(j)

RightLinks(links, seen) ==
    \A x \in Labels : links[x] # None =>
        /\ links[x].name \in Resolved(x)
        /\ links[x].sub # None => \E k \in seen : Sub(k) = links[x].sub /\ Credits(k, x)

RightJob(j, ms) ==
    /\ j.step \in {"create", "insert"} => j.name \in Resolved(j.author)
    /\ \A n \in j.made : n.name \in Resolved(n.key)
    /\ RightLinks(j.links, Sees(j, ms))

RightRows(rows, ms) ==
    \A m \in Messages : rows[m] # None =>
        /\ rows[m].label \in Resolved(AuthorOf[m])
        /\ rows[m].author # None =>
              \E k \in ms : k.org = Home /\ Sub(k) = rows[m].author /\ Credits(k, AuthorOf[m])

Right ==
    /\ \A k \in members : RightName(k)
    /\ \A w \in Workers : RightJob(jobs[w], members)
    /\ RightRows(messages, members)

\* An id's name names the same person, though it is looked up again.
LEMMA Renamed ==
    ASSUME Assumed, NEW x, NEW l \in Resolved(x), NEW n \in Resolved(l)
    PROVE  n \in Resolved(x)
<1>1. \A u \in Uids : RealName[u] \notin Uids \ {u}
    BY DEF Assumed, WorkspaceAssumption
<1> QED
    BY <1>1 DEF Resolved

\* So does who is credited for it.
LEMMA CreditsRenamed ==
    ASSUME Assumed, NEW x, NEW l \in Resolved(x), NEW k, Credits(k, l), RightName(k)
    PROVE  Credits(k, x)
BY Renamed DEF Credits, RightName

\* A job sees what the model lets it see.
LEMMA SeesVisible ==
    ASSUME NEW w
    PROVE  Visible(w) = Sees(jobs[w], members) /\ MadeRows(w) = MadeBy(jobs[w])
BY DEF Visible, Sees, MadeRows, MadeBy

\* Whom a job sees has a right name.
LEMMA SeenRight ==
    ASSUME Right, NEW w \in Workers, NEW k \in Visible(w)
    PROVE  RightName(k) /\ k.org = Home
BY DEF Right, RightJob, Visible, MadeRows, RightName

\* More memberships disturb no link.
LEMMA MoreSeen ==
    ASSUME NEW links, NEW seen, NEW more, seen \subseteq more, RightLinks(links, seen)
    PROVE  RightLinks(links, more)
BY DEF RightLinks

\* An UPDATE to somebody credited with the label keeps the links right.
LEMMA LinkedRight ==
    ASSUME Assumed, NEW links, NEW seen, RightLinks(links, seen),
           NEW l, NEW n \in Resolved(l), NEW k \in seen, Credits(k, l), RightName(k)
    PROVE  RightLinks(Linked(links, l, Sub(k), n), seen)
<1> SUFFICES ASSUME NEW x \in Labels, Linked(links, l, Sub(k), n)[x] # None
             PROVE  /\ Linked(links, l, Sub(k), n)[x].name \in Resolved(x)
                    /\ Linked(links, l, Sub(k), n)[x].sub # None =>
                          \E m \in seen : /\ Sub(m) = Linked(links, l, Sub(k), n)[x].sub
                                          /\ Credits(m, x)
    BY DEF RightLinks
<1>1. x \in Resolved(x)
    BY DEF Resolved
<1>2. CASE (links[x] = None /\ x = l) \/ (links[x] # None /\ links[x].name = l)
  <2>1. l \in Resolved(x)
    BY <1>1, <1>2 DEF RightLinks
  <2>2. Linked(links, l, Sub(k), n)[x] = [sub |-> Sub(k), name |-> n]
    BY <1>2 DEF Linked
  <2> QED
    BY <2>1, <2>2, Renamed, CreditsRenamed
<1>3. CASE ~((links[x] = None /\ x = l) \/ (links[x] # None /\ links[x].name = l))
  <2>1. Linked(links, l, Sub(k), n)[x] = links[x]
    BY <1>3 DEF Linked
  <2> QED
    BY <2>1 DEF RightLinks
<1> QED
    BY <1>2, <1>3

\* A job that keeps its memberships and links stays right.
LEMMA SameRight ==
    ASSUME NEW i, NEW j, NEW ms, NEW more, RightJob(i, ms), ms \subseteq more,
           j.made = i.made, j.links = i.links,
           j.step \in {"create", "insert"} => j.name \in Resolved(j.author)
    PROVE  RightJob(j, more)
<1>1. Sees(i, ms) \subseteq Sees(j, more)
    BY DEF Sees, MadeBy
<1> QED
    BY <1>1, MoreSeen DEF RightJob

\* So is one without any.
LEMMA FreshRight ==
    ASSUME NEW j, NEW ms, j.made = {}, j.links = NoLinks, j.step \notin {"create", "insert"}
    PROVE  RightJob(j, ms)
BY DEF RightJob, RightLinks, NoLinks

\* What is left to show of a job's step: the job and the rows it writes.
LEMMA RightStep ==
    ASSUME Assumed, Inv, Right, NEW w \in Workers, NEW j, Set(w, j), RightJob(j, members'),
           members' \in {members, members \cup MadeRows(w)}, RightRows(messages', members')
    PROVE  Right'
<1>1. \A k \in members' : RightName(k)
    BY DEF Right, RightJob, MadeRows, RightName
<1>2. ASSUME NEW v \in Workers PROVE RightJob(jobs'[v], members')
  <2>1. jobs'[v] = IF v = w THEN j ELSE jobs[v]
    BY DEF Set, Inv, Tables
  <2>2. RightJob(jobs[v], members')
    BY SameRight DEF Right, RightJob
  <2> QED
    BY <2>1, <2>2
<1> QED
    BY <1>1, <1>2 DEF Right

\* The rows a step leaves alone stay right, and so do those it stores.
LEMMA RowsStay ==
    ASSUME NEW rows, NEW ms, NEW more, RightRows(rows, ms), ms \subseteq more
    PROVE  RightRows(rows, more)
BY DEF RightRows

LEMMA StoredRight ==
    ASSUME Assumed, Inv, RightRows(messages, members), NEW m \in Messages
    PROVE  RightRows([messages EXCEPT ![m] = Stored(m)], members)
<1>1. messages \in [Messages -> Row \cup {None}]
    BY DEF Inv, Tables
<1>2. Posted(m).author = None /\ Posted(m).label \in Resolved(AuthorOf[m])
    BY DEF Posted, Resolved
<1> QED
    BY <1>1, <1>2 DEF RightRows, Stored

\* A commit's UPDATEs credit who the job has found or made.
LEMMA LinkedRowsRight ==
    ASSUME Assumed, Inv, Right, NEW w \in Workers,
           NEW rows \in [Messages -> Row \cup {None}], RightRows(rows, members \cup MadeRows(w))
    PROVE  RightRows(LinkRows(w, rows), members \cup MadeRows(w))
<1> DEFINE links == jobs[w].links
           new == LinkRows(w, rows)
<1>1. RightLinks(links, Visible(w)) /\ Visible(w) \subseteq members \cup MadeRows(w)
    BY SeesVisible DEF Right, RightJob, Visible
<1> SUFFICES ASSUME NEW m \in Messages, new[m] # None
             PROVE  /\ new[m].label \in Resolved(AuthorOf[m])
                    /\ new[m].author # None =>
                          \E k \in members \cup MadeRows(w) :
                             k.org = Home /\ Sub(k) = new[m].author /\ Credits(k, AuthorOf[m])
    BY DEF RightRows
<1>2. CASE rows[m] = None \/ links[rows[m].label] = None
  <2>1. new[m] = rows[m]
    BY <1>2 DEF LinkRows
  <2> QED
    BY <2>1 DEF RightRows
<1>3. CASE rows[m] # None /\ links[rows[m].label] # None
  <2> DEFINE l == rows[m].label
  <2>1. new[m] = [author |-> links[l].sub, label |-> links[l].name]
    BY <1>3 DEF LinkRows
  <2>2. l \in Resolved(AuthorOf[m]) /\ l \in Labels
    BY <1>3 DEF RightRows, Row
  <2>3. links[l].name \in Resolved(l)
    BY <1>1, <1>3, <2>2 DEF RightLinks
  <2>4. new[m].label \in Resolved(AuthorOf[m])
    BY <2>1, <2>2, <2>3, Renamed
  <2>5. ASSUME new[m].author # None
        PROVE  \E k \in Visible(w) : Sub(k) = new[m].author /\ Credits(k, AuthorOf[m])
    <3>1. PICK k \in Visible(w) : Sub(k) = links[l].sub /\ Credits(k, l)
        BY <1>1, <1>3, <2>1, <2>2, <2>5 DEF RightLinks
    <3> QED
        BY <2>1, <2>2, <3>1, SeenRight, CreditsRenamed
  <2> QED
    BY <1>1, <2>4, <2>5, SeenRight
<1> QED
    BY <1>2, <1>3

\* A job that ends holds nothing.
LEMMA EndRight ==
    ASSUME Assumed, Inv, Right, NEW w \in Workers, End(w),
           members' \in {members, members \cup MadeRows(w)}, RightRows(messages', members')
    PROVE  Right'
<1>1. RightJob(NoJob, members')
    BY FreshRight DEF NoJob
<1> QED
    BY <1>1, RightStep DEF End

\* The webhook, and the steps of a route that read.
LEMMA RouteReadsRight ==
    ASSUME Assumed, Inv, Right, NEW w \in Workers,
           PersistEvent(w) \/ \E m \in Messages : Webhook(w, m) \/ StartRoute(w, m)
    PROVE  Right'
<1>1. members' = members /\ messages' = messages /\ RightRows(messages, members)
    BY DEF PersistEvent, Webhook, StartRoute, tables, slackTables, Right
<1>2. CASE PersistEvent(w)
    BY <1>1, <1>2, EndRight DEF PersistEvent
<1>3. ASSUME NEW m \in Messages, Webhook(w, m) PROVE Right'
  <2> DEFINE j == [NoJob EXCEPT !.step = "event", !.msg = m, !.org = orgs[Home]]
  <2>1. j.made = {} /\ j.links = NoLinks /\ j.step = "event"
    BY DEF NoJob
  <2>2. Set(w, j)
    BY <1>3 DEF Webhook
  <2> HIDE DEF j
  <2> QED
    BY <1>1, <2>1, <2>2, FreshRight, RightStep
<1>4. ASSUME NEW m \in Messages, StartRoute(w, m) PROVE Right'
  <2> DEFINE j == [NoJob EXCEPT !.step = "author", !.msg = m, !.org = orgs[Home],
                                !.stored = IF messages[m] = None THEN "no" ELSE "yes"]
  <2>1. j.made = {} /\ j.links = NoLinks /\ j.step = "author"
    BY DEF NoJob
  <2>2. Set(w, j)
    BY <1>4 DEF StartRoute
  <2> HIDE DEF j
  <2> QED
    BY <1>1, <2>1, <2>2, FreshRight, RightStep
<1> QED
    BY <1>2, <1>3, <1>4

\* A job's links take a member it sees, under a name of the label.
LEMMA LinksRight ==
    ASSUME Assumed, Inv, Right, NEW w \in Workers, UNCHANGED <<members, messages>>,
           NEW l, NEW n \in Resolved(l), NEW k \in Visible(w), Credits(k, l),
           NEW j, Set(w, j), j.made = jobs[w].made, j.links = Linked(jobs[w].links, l, Sub(k), n),
           j.step \notin {"create", "insert"}
    PROVE  Right'
<1>1. RightLinks(jobs[w].links, Visible(w)) /\ RightName(k)
    BY SeesVisible, SeenRight DEF Right, RightJob
<1>2. RightLinks(j.links, Visible(w))
    BY <1>1, LinkedRight
<1>3. Sees(j, members) = Visible(w)
    BY SeesVisible DEF Sees, MadeBy
<1>4. RightJob(j, members')
    BY <1>2, <1>3 DEF Right, RightJob
<1> QED
    BY <1>4, RightStep DEF Right

\* A job goes on with the memberships and links it has.
LEMMA GoesOnRight ==
    ASSUME Assumed, Inv, Right, NEW w \in Workers, UNCHANGED members, RightRows(messages', members),
           NEW j, Set(w, j), j.made = jobs[w].made, j.links = jobs[w].links,
           j.step \in {"create", "insert"} => j.name \in Resolved(j.author)
    PROVE  Right'
<1>1. RightJob(j, members')
    BY SameRight DEF Right
<1> QED
    BY <1>1, RightStep

\* A route finds its author by Slack id.
LEMMA RouteAuthorRight ==
    ASSUME Assumed, Inv, Right, NEW w \in Workers, RouteAuthor(w)
    PROVE  Right'
<1> DEFINE i == jobs[w]
           label == AuthorOf[i.msg]
<1>1. /\ i \in Job /\ UNCHANGED <<members, messages>> /\ RightRows(messages, members)
    BY JobNow DEF RouteAuthor, tables, slackTables, Right
<1>2. CASE \E k \in ByUid(w, label) :
             Set(w, [i EXCEPT !.step = "commit", !.links = Linked(@, label, Sub(k), k.name)])
  <2>1. PICK k \in ByUid(w, label) :
             Set(w, [i EXCEPT !.step = "commit", !.links = Linked(@, label, Sub(k), k.name)])
    BY <1>2
  <2>2. k \in Visible(w) /\ k.kind = "slack" /\ k.key = label
    BY DEF ByUid
  <2>3. k.name \in Resolved(label) /\ Credits(k, label)
    BY <2>2, SeenRight DEF RightName, Credits
  <2> DEFINE links == Linked(i.links, label, Sub(k), k.name)
             j == [i EXCEPT !.step = "commit", !.links = links]
  <2>4. Set(w, j)
    BY <2>1
  <2> HIDE DEF links
  <2>5. j.made = i.made /\ j.links = links /\ j.step = "commit"
    BY <1>1 DEF Job
  <2> HIDE DEF j
  <2> QED
    BY <1>1, <2>2, <2>3, <2>4, <2>5, LinksRight DEF links
<1>3. CASE Set(w, [i EXCEPT !.step = "lookup", !.author = label])
  <2> DEFINE j == [i EXCEPT !.step = "lookup", !.author = label]
  <2>1. j.made = i.made /\ j.links = i.links /\ j.step = "lookup"
    BY <1>1 DEF Job
  <2> HIDE DEF j
  <2>2. Set(w, j)
    BY <1>3 DEF j
  <2> QED
    BY <1>1, <2>1, <2>2, GoesOnRight
<1>4. CASE Set(w, [i EXCEPT !.step = "commit"])
  <2> DEFINE j == [i EXCEPT !.step = "commit"]
  <2>1. j.made = i.made /\ j.links = i.links /\ j.step = "commit"
    BY <1>1 DEF Job
  <2> HIDE DEF j
  <2>2. Set(w, j)
    BY <1>4 DEF j
  <2> QED
    BY <1>1, <2>1, <2>2, GoesOnRight
<1> QED
    BY <1>2, <1>3, <1>4 DEF RouteAuthor

\* And by the name users_info answered.
LEMMA RouteLookupRight ==
    ASSUME Assumed, Inv, Right, NEW w \in Workers, RouteLookup(w)
    PROVE  Right'
<1> DEFINE i == jobs[w]
           l == i.author
<1>1. /\ i \in Job /\ UNCHANGED <<members, messages>> /\ RightRows(messages, members)
    BY JobNow DEF RouteLookup, tables, slackTables, Right
<1>2. PICK n \in Resolved(l) :
          \/ \E k \in ByName(w, n) :
                Set(w, [i EXCEPT !.step = "commit", !.links = Linked(@, l, Sub(k), n)])
          \/ Set(w, [i EXCEPT !.step = "create", !.name = n])
    BY DEF RouteLookup
<1>3. CASE \E k \in ByName(w, n) :
             Set(w, [i EXCEPT !.step = "commit", !.links = Linked(@, l, Sub(k), n)])
  <2>1. PICK k \in ByName(w, n) :
             Set(w, [i EXCEPT !.step = "commit", !.links = Linked(@, l, Sub(k), n)])
    BY <1>3
  <2>2. k \in Visible(w) /\ Credits(k, l)
    BY DEF ByName, Credits
  <2> DEFINE links == Linked(i.links, l, Sub(k), n)
             j == [i EXCEPT !.step = "commit", !.links = links]
  <2>4. Set(w, j)
    BY <2>1
  <2> HIDE DEF links
  <2>5. j.made = i.made /\ j.links = links /\ j.step = "commit"
    BY <1>1 DEF Job
  <2> HIDE DEF j
  <2> QED
    BY <1>1, <2>2, <2>4, <2>5, LinksRight DEF links
<1>4. CASE Set(w, [i EXCEPT !.step = "create", !.name = n])
  <2> DEFINE j == [i EXCEPT !.step = "create", !.name = n]
  <2>1. j.made = i.made /\ j.links = i.links /\ j.name = n /\ j.author = l
    BY <1>1 DEF Job
  <2> HIDE DEF j
  <2>2. Set(w, j)
    BY <1>4 DEF j
  <2> QED
    BY <1>1, <2>1, <2>2, GoesOnRight
<1> QED
    BY <1>2, <1>3, <1>4

\* A job inserts the membership of the author it looked up.
LEMMA MadeRight ==
    ASSUME Assumed, Inv, Right, NEW w \in Workers, UNCHANGED <<members, messages>>,
           NEW l, NEW n \in Resolved(l),
           NEW j, Set(w, j), j.made = jobs[w].made \cup {[key |-> l, name |-> n]},
           j.links = Linked(jobs[w].links, l, SlackSub(l), n), j.step \notin {"create", "insert"}
    PROVE  Right'
<1> DEFINE k == [org |-> Home, kind |-> "slack", key |-> l, name |-> n]
           new == [key |-> l, name |-> n]
<1>1. k \in MadeBy(j) /\ MadeBy(jobs[w]) \subseteq MadeBy(j)
  <2>1. new \in j.made /\ k = [org |-> Home, kind |-> "slack", key |-> new.key, name |-> new.name]
    OBVIOUS
  <2> QED
    BY <2>1 DEF MadeBy
<1>2. k \in Sees(j, members) /\ Sees(jobs[w], members) \subseteq Sees(j, members)
    BY <1>1 DEF Sees
<1>3. Credits(k, l) /\ RightName(k) /\ Sub(k) = SlackSub(l)
    BY DEF Credits, RightName, Sub, SlackSub
<1>4. RightLinks(jobs[w].links, Sees(j, members))
    BY <1>2, MoreSeen DEF Right, RightJob
<1>5. RightLinks(j.links, Sees(j, members))
    BY <1>2, <1>3, <1>4, LinkedRight
<1>6. \A m \in j.made : m.name \in Resolved(m.key)
    BY DEF Right, RightJob
<1>7. RightJob(j, members')
    BY <1>5, <1>6 DEF RightJob
<1> QED
    BY <1>7, RightStep DEF Right

\* A route's insert.
LEMMA RouteCreateRight ==
    ASSUME Assumed, Inv, Right, NEW w \in Workers, RouteCreate(w)
    PROVE  Right'
<1> DEFINE i == jobs[w]
           l == i.author
           n == i.name
<1>1. /\ i \in Job /\ UNCHANGED <<members, messages>> /\ RightRows(messages, members)
      /\ n \in Resolved(l) /\ i.made = {}
    BY JobNow DEF RouteCreate, tables, slackTables, Right, RightJob, Held
<1>2. CASE End(w)
    BY <1>1, <1>2, EndRight
<1>3. CASE Set(w, [i EXCEPT !.step = "commit", !.made = {[key |-> l, name |-> n]},
                            !.links = Linked(@, l, SlackSub(l), n)])
  <2> DEFINE links == Linked(i.links, l, SlackSub(l), n)
             made == {[key |-> l, name |-> n]}
             j == [i EXCEPT !.step = "commit", !.made = made, !.links = links]
  <2>1. Set(w, j)
    BY <1>3
  <2> HIDE DEF links, made
  <2>2. j.made = made /\ j.links = links /\ j.step = "commit"
    BY <1>1 DEF Job
  <2>3. j.made = i.made \cup {[key |-> l, name |-> n]}
    BY <1>1, <2>2 DEF made
  <2> HIDE DEF j
  <2> QED
    BY <1>1, <2>1, <2>2, <2>3, MadeRight DEF links
<1> QED
    BY <1>2, <1>3 DEF RouteCreate

\* The rows a committing job ends with.
LEMMA CommitRight ==
    ASSUME Assumed, Inv, Right, NEW w \in Workers, NEW rows, Commit(w, rows),
           RightRows(rows, members \cup MadeRows(w))
    PROVE  members' = members \cup MadeRows(w) /\ RightRows(messages', members')
BY DEF Commit

\* A route's commit.
LEMMA RouteCommitRight ==
    ASSUME Assumed, Inv, Right, NEW w \in Workers, RouteCommit(w)
    PROVE  Right'
<1> DEFINE i == jobs[w]
           m == i.msg
           k == i.links[AuthorOf[m]]
           row == IF i.author = None /\ k # None THEN [author |-> k.sub, label |-> k.name]
                                                 ELSE Stored(m)
           rows == [messages EXCEPT ![m] = row]
           all == members \cup MadeRows(w)
<1>1. /\ i \in Job /\ m \in Messages /\ messages \in [Messages -> Row \cup {None}]
      /\ i.links \in [Labels -> Link \cup {None}]
    BY JobNow DEF RouteCommit, Job, Inv, Tables
<1>2. AuthorOf[m] \in Labels
    BY <1>1, AuthorLabel
<1>3. RightRows(messages, members) /\ RightRows(messages, all)
    BY RowsStay DEF Right
<1>4. RightRows([messages EXCEPT ![m] = Stored(m)], all)
  <2>1. RightRows([messages EXCEPT ![m] = Stored(m)], members)
    BY <1>1, <1>3, StoredRight
  <2> HIDE DEF m
  <2> QED
    BY <2>1, RowsStay
<1>5. rows \in [Messages -> Row \cup {None}] /\ RightRows(rows, all)
  <2>1. CASE i.author = None /\ k # None
    <3>1. k \in Link /\ row = [author |-> k.sub, label |-> k.name]
        BY <1>1, <1>2, <2>1
    <3>2. row \in Row
        BY <3>1 DEF Link, Row
    <3>3. /\ RightLinks(i.links, Visible(w)) /\ Visible(w) \subseteq all
          /\ \A s \in Visible(w) : s.org = Home
        BY SeesVisible, SeenRight DEF Right, RightJob, Visible
    <3>4. /\ row.label \in Resolved(AuthorOf[m])
          /\ row.author # None => \E s \in all : /\ s.org = Home /\ Sub(s) = row.author
                                                 /\ Credits(s, AuthorOf[m])
        BY <1>2, <2>1, <3>1, <3>3 DEF RightLinks
    <3> HIDE DEF row
    <3>5. rows \in [Messages -> Row \cup {None}]
        BY <1>1, <3>2
    <3>6. RightRows(rows, all)
        BY <1>1, <1>3, <3>4 DEF RightRows
    <3> QED
        BY <3>5, <3>6
  <2>2. CASE ~(i.author = None /\ k # None)
    <3>1. rows = [messages EXCEPT ![m] = Stored(m)]
        BY <2>2
    <3>2. rows \in [Messages -> Row \cup {None}]
        BY <1>1, <3>1, StoredRow DEF Inv
    <3> QED
        BY <1>4, <3>1, <3>2
  <2> QED
    BY <2>1, <2>2
<1> HIDE DEF row
<1>6. RightRows(LinkRows(w, rows), all)
    BY <1>5, LinkedRowsRight
<1>7. \/ UNCHANGED <<members, messages>>
      \/ Commit(w, rows) \/ Commit(w, LinkRows(w, rows))
    BY DEF RouteCommit, row
<1>8. members' \in {members, all} /\ RightRows(messages', members')
    BY <1>3, <1>5, <1>6, <1>7, CommitRight
<1> QED
    BY <1>8, EndRight DEF RouteCommit

\* A sync on its way through the channels.
LEMMA SyncReadsRight ==
    ASSUME Assumed, Inv, Right, NEW w \in Workers,
           \/ StartSync(w) \/ SyncChannelEnds(w) \/ SyncAuthors(w)
           \/ \E c \in Channels : SyncChannel(w, c)
    PROVE  Right'
<1> DEFINE i == jobs[w]
<1>1. /\ i \in Job /\ UNCHANGED <<members, messages>> /\ RightRows(messages, members)
    BY JobNow DEF StartSync, SyncChannelEnds, SyncAuthors, SyncChannel, tables, slackTables, Right
<1>2. CASE StartSync(w)
  <2> DEFINE j == [NoJob EXCEPT !.step = "channels", !.connector = connector,
                                !.org = orgs[Home], !.channels = Channels]
  <2>1. j.made = {} /\ j.links = NoLinks /\ j.step = "channels"
    BY DEF NoJob
  <2>2. Set(w, j)
    BY <1>2 DEF StartSync
  <2> HIDE DEF j
  <2> QED
    BY <1>1, <2>1, <2>2, FreshRight, RightStep
<1>3. CASE SyncChannelEnds(w)
  <2> DEFINE a == [i EXCEPT !.step = "channels", !.channel = None, !.left = {}]
             b == [a EXCEPT !.failed = @ \cup {i.channel}]
  <2>1. a.made = i.made /\ a.links = i.links /\ a.step = "channels"
    BY <1>1 DEF Job
  <2>2. b.made = i.made /\ b.links = i.links /\ b.step = "channels"
    BY <1>1 DEF Job
  <2>3. Set(w, a) \/ Set(w, b)
    BY <1>3 DEF SyncChannelEnds
  <2> HIDE DEF a, b
  <2> QED
    BY <1>1, <2>1, <2>2, <2>3, GoesOnRight
<1>4. CASE SyncAuthors(w)
  <2> DEFINE authors == {messages[m].label : m \in {x \in Messages :
                                 messages[x] # None /\ messages[x].author = None}}
             j == [i EXCEPT !.step = "each", !.channels = {}, !.authors = authors]
  <2>1. Set(w, j)
    BY <1>4 DEF SyncAuthors
  <2> HIDE DEF authors
  <2>2. j.made = i.made /\ j.links = i.links /\ j.step = "each"
    BY <1>1 DEF Job
  <2> HIDE DEF j
  <2> QED
    BY <1>1, <2>1, <2>2, GoesOnRight
<1>5. ASSUME NEW c \in Channels, SyncChannel(w, c) PROVE Right'
  <2> DEFINE left == {m \in Messages : ChannelOf[m] = c}
             j == [i EXCEPT !.step = "history", !.channel = c, !.channels = @ \ {c}, !.left = left]
  <2>1. Set(w, j) \/ End(w)
    BY <1>5 DEF SyncChannel
  <2> HIDE DEF left
  <2>2. j.made = i.made /\ j.links = i.links /\ j.step = "history"
    BY <1>1 DEF Job
  <2> HIDE DEF j
  <2> QED
    BY <1>1, <2>1, <2>2, GoesOnRight, EndRight
<1> QED
    BY <1>2, <1>3, <1>4, <1>5

\* It stores a message.
LEMMA SyncMessageRight ==
    ASSUME Assumed, Inv, Right, NEW w \in Workers, NEW m \in Messages, SyncMessage(w, m)
    PROVE  Right'
<1> DEFINE i == jobs[w]
<1>1. i \in Job /\ i.step = "history" /\ members' = members /\ RightRows(messages, members)
    BY JobNow DEF SyncMessage, Right
<1>2. CASE End(w) /\ UNCHANGED messages
    BY <1>1, <1>2, EndRight
<1>3. CASE /\ messages' = [messages EXCEPT ![m] = Stored(m)]
           /\ Set(w, [i EXCEPT !.left = @ \ {m}, !.total = IF m \in raw THEN @ ELSE @ + 1])
  <2> DEFINE total == IF m \in raw THEN i.total ELSE i.total + 1
             j == [i EXCEPT !.left = @ \ {m}, !.total = total]
  <2>1. Set(w, j)
    BY <1>3
  <2> HIDE DEF total
  <2>2. j.made = i.made /\ j.links = i.links /\ j.step = "history"
    BY <1>1 DEF Job
  <2> HIDE DEF j
  <2> QED
    BY <1>1, <1>3, <2>1, <2>2, StoredRight, GoesOnRight
<1> QED
    BY <1>2, <1>3 DEF SyncMessage

\* It looks an author up, by Slack id and then by name.
LEMMA SyncLookupRight ==
    ASSUME Assumed, Inv, Right, NEW w \in Workers, NEW l \in Labels, SyncLookup(w, l)
    PROVE  Right'
<1> DEFINE i == jobs[w]
           job == [i EXCEPT !.authors = @ \ {l}]
<1>1. /\ i \in Job /\ i.step = "each" /\ UNCHANGED <<members, messages>>
      /\ RightRows(messages, members)
    BY JobNow DEF SyncLookup, tables, slackTables, Right
<1>2. PICK n \in Resolved(l) :
          \/ \E k \in ByUid(w, l) \cup ByName(w, n) :
                Set(w, [job EXCEPT !.links = Linked(@, l, Sub(k), n)])
          \/ Set(w, [job EXCEPT !.step = "insert", !.author = l, !.name = n])
    BY DEF SyncLookup
<1>3. job \in Job /\ job.made = i.made /\ job.links = i.links /\ job.step = "each"
    BY <1>1 DEF Job
<1> HIDE DEF job
<1>4. CASE \E k \in ByUid(w, l) \cup ByName(w, n) :
             Set(w, [job EXCEPT !.links = Linked(@, l, Sub(k), n)])
  <2>1. PICK k \in ByUid(w, l) \cup ByName(w, n) :
             Set(w, [job EXCEPT !.links = Linked(@, l, Sub(k), n)])
    BY <1>4
  <2>2. k \in Visible(w) /\ Credits(k, l)
    BY DEF ByUid, ByName, Credits
  <2> DEFINE links == Linked(job.links, l, Sub(k), n)
             j == [job EXCEPT !.links = links]
  <2>3. Set(w, j)
    BY <2>1
  <2>4. links = Linked(i.links, l, Sub(k), n)
    BY <1>3
  <2> HIDE DEF links
  <2>5. j.made = i.made /\ j.links = links /\ j.step = "each"
    BY <1>3 DEF Job
  <2> HIDE DEF j
  <2> QED
    BY <1>1, <2>2, <2>3, <2>4, <2>5, LinksRight
<1>5. CASE Set(w, [job EXCEPT !.step = "insert", !.author = l, !.name = n])
  <2> DEFINE j == [job EXCEPT !.step = "insert", !.author = l, !.name = n]
  <2>1. j.made = i.made /\ j.links = i.links /\ j.name = n /\ j.author = l
    BY <1>3 DEF Job
  <2> HIDE DEF j
  <2>2. Set(w, j)
    BY <1>5 DEF j
  <2> QED
    BY <1>1, <2>1, <2>2, GoesOnRight
<1> QED
    BY <1>2, <1>4, <1>5

\* It inserts the membership.
LEMMA SyncCreateRight ==
    ASSUME Assumed, Inv, Right, NEW w \in Workers, SyncCreate(w)
    PROVE  Right'
<1> DEFINE i == jobs[w]
           l == i.author
           n == i.name
<1>1. /\ i \in Job /\ UNCHANGED <<members, messages>> /\ RightRows(messages, members)
      /\ n \in Resolved(l)
    BY JobNow DEF SyncCreate, tables, slackTables, Right, RightJob
<1>2. CASE End(w)
    BY <1>1, <1>2, EndRight
<1>3. CASE Set(w, [i EXCEPT !.step = "each", !.author = None, !.name = None,
                            !.made = @ \cup {[key |-> l, name |-> n]},
                            !.links = Linked(@, l, SlackSub(l), n)])
  <2> DEFINE links == Linked(i.links, l, SlackSub(l), n)
             made == i.made \cup {[key |-> l, name |-> n]}
             j == [i EXCEPT !.step = "each", !.author = None, !.name = None,
                            !.made = made, !.links = links]
  <2>1. Set(w, j)
    BY <1>3
  <2> HIDE DEF links, made
  <2>2. j.made = made /\ j.links = links /\ j.step = "each"
    BY <1>1 DEF Job
  <2> HIDE DEF j
  <2> QED
    BY <1>1, <2>1, <2>2, MadeRight DEF links, made
<1> QED
    BY <1>2, <1>3 DEF SyncCreate

\* And it commits.
LEMMA SyncCommitRight ==
    ASSUME Assumed, Inv, Right, NEW w \in Workers, SyncCommit(w)
    PROVE  Right'
<1> DEFINE all == members \cup MadeRows(w)
<1>1. /\ jobs[w] \in Job /\ messages \in [Messages -> Row \cup {None}]
      /\ RightRows(messages, members) /\ RightRows(messages, all)
    BY JobNow, RowsStay DEF Right, Inv, Tables
<1>2. CASE End(w) /\ UNCHANGED <<members, messages>>
    BY <1>1, <1>2, EndRight
<1>3. CASE /\ Commit(w, LinkRows(w, messages))
           /\ Set(w, [jobs[w] EXCEPT !.step = "done", !.made = {}, !.links = NoLinks])
  <2> DEFINE j == [jobs[w] EXCEPT !.step = "done", !.made = {}, !.links = NoLinks]
  <2>1. j.made = {} /\ j.links = NoLinks /\ j.step = "done"
    BY <1>1 DEF Job
  <2>2. members' = all /\ RightRows(messages', members')
    BY <1>1, <1>3, LinkedRowsRight, CommitRight
  <2>3. Set(w, j)
    BY <1>3
  <2> HIDE DEF j
  <2> QED
    BY <2>1, <2>2, <2>3, FreshRight, RightStep
<1> QED
    BY <1>2, <1>3 DEF SyncCommit

\* Memberships go, and with them the links to them.
LEMMA RelinkedRight ==
    ASSUME Assumed, Inv, Right, NEW gone, jobs' = Unlinked(gone),
           \A k \in members : k.org = Home => k \in members' \/ Sub(k) \in gone
    PROVE  \A w \in Workers : RightJob(jobs'[w], members')
<1> SUFFICES ASSUME NEW w \in Workers PROVE RightJob(jobs'[w], members')
    OBVIOUS
<1> DEFINE i == jobs[w]
           links == [x \in Labels |-> IF i.links[x] # None /\ i.links[x].sub \in gone
                                        THEN [sub |-> None, name |-> i.links[x].name] ELSE i.links[x]]
           j == [i EXCEPT !.links = links]
<1>1. i \in Job /\ RightJob(i, members)
    BY JobNow DEF Right
<1>2. i.links \in [Labels -> Link \cup {None}]
    BY <1>1 DEF Job
<1>3. jobs'[w] = j
    BY DEF Unlinked
<1>4. RightLinks(links, Sees(i, members'))
  <2> SUFFICES ASSUME NEW x \in Labels, links[x] # None
               PROVE  /\ links[x].name \in Resolved(x)
                      /\ links[x].sub # None =>
                            \E k \in Sees(i, members') : Sub(k) = links[x].sub /\ Credits(k, x)
    BY DEF RightLinks
  <2>1. i.links[x] # None
    OBVIOUS
  <2>2. /\ i.links[x].name \in Resolved(x)
        /\ i.links[x].sub # None =>
              \E k \in Sees(i, members) : Sub(k) = i.links[x].sub /\ Credits(k, x)
    BY <1>1, <2>1 DEF RightJob, RightLinks
  <2>3. CASE i.links[x].sub \in gone
    <3>1. links[x] = [sub |-> None, name |-> i.links[x].name]
        BY <2>1, <2>3
    <3> QED
        BY <2>2, <3>1
  <2>4. CASE i.links[x].sub \notin gone
    <3>1. links[x] = i.links[x]
        BY <2>4
    <3>2. \A k \in Sees(i, members) : Sub(k) \notin gone => k \in Sees(i, members')
        BY DEF Sees
    <3> QED
        BY <2>2, <2>4, <3>1, <3>2
  <2> QED
    BY <2>3, <2>4
<1> HIDE DEF links
<1>5. j.made = i.made /\ j.links = links /\ j.step = i.step /\ j.name = i.name /\ j.author = i.author
    BY <1>1 DEF Job
<1>6. Sees(j, members') = Sees(i, members')
    BY <1>5 DEF Sees, MadeBy
<1> QED
    BY <1>1, <1>3, <1>4, <1>5, <1>6 DEF RightJob

\* The administrator's steps.
LEMMA AdminRight ==
    ASSUME Assumed, Inv, Right, AdminStep
    PROVE  Right'
<1>1. CASE Install \/ \E c \in Channels : ToggleChannel(c)
  <2>1. UNCHANGED <<members, messages, jobs>>
    BY <1>1 DEF Install, ToggleChannel, source
  <2> QED
    BY <2>1 DEF Right
<1>2. CASE Disconnect
  <2>1. /\ members' = Kept /\ members' \subseteq members
        /\ messages' = [m \in Messages |-> None]
        /\ jobs' = Unlinked({Sub(m) : m \in members \ Kept})
    BY <1>2 DEF Disconnect, Kept
  <2>2. \A k \in members : k \in members' \/ Sub(k) \in {Sub(m) : m \in members \ Kept}
    BY <2>1
  <2>3. \A w \in Workers : RightJob(jobs'[w], members')
    BY <2>1, <2>2, RelinkedRight
  <2>4. (\A k \in members' : RightName(k)) /\ RightRows(messages', members')
    BY <2>1 DEF Right, RightRows
  <2> QED
    BY <2>3, <2>4 DEF Right
<1> QED
    BY <1>1, <1>2 DEF AdminStep

\* Accounts bring no member of Slack; the rows keep the authors that are left.
LEMMA AccountsRows ==
    ASSUME Assumed, Inv, Right, DirectoryStep
    PROVE  (\A k \in members' : RightName(k)) /\ RightRows(messages', members')
<1>1. (\A k \in members : RightName(k)) /\ RightRows(messages, members)
    BY DEF Right
<1>2. CASE /\ messages' = messages /\ members \subseteq members'
           /\ \A k \in members' : k \in members \/ k.kind # "slack"
    BY <1>1, <1>2, RowsStay DEF RightName
<1>3. ASSUME NEW o \in Orgs, OrgDeleted(o)
      PROVE  (\A k \in members' : RightName(k)) /\ RightRows(messages', members')
  <2>1. members' = {k \in members : k.org # o}
    BY <1>3 DEF OrgDeleted, DeleteOrg
  <2>2. CASE o = Home
    <3>1. messages' = [m \in Messages |-> None]
        BY <1>3, <2>2 DEF OrgDeleted, DeleteOrg
    <3> QED
        BY <1>1, <2>1, <3>1 DEF RightRows
  <2>3. CASE o # Home
    <3>1. messages' = messages
        BY <1>3, <2>3 DEF OrgDeleted, DeleteOrg, slackTables
    <3> QED
        BY <1>1, <2>1, <2>3, <3>1 DEF RightRows
  <2> QED
    BY <2>2, <2>3
<1>4. ASSUME NEW o \in Orgs, NEW u \in Users, MemberRemoved(o, u)
      PROVE  (\A k \in members' : RightName(k)) /\ RightRows(messages', members')
  <2> DEFINE lost == {m \in members : m.org = o /\ m.kind = "login" /\ m.key = u}
             gone == {Sub(m) : m \in {g \in lost : g.org = Home}}
  <2>1. members' = members \ lost /\ messages' = Unlink(gone)
    BY <1>4 DEF MemberRemoved, DeleteMembers
  <2>2. \A k \in members : k.org = Home => k \in members' \/ Sub(k) \in gone
    BY <2>1
  <2> HIDE DEF gone
  <2>3. ASSUME NEW m \in Messages, messages'[m] # None
        PROVE  /\ messages'[m].label \in Resolved(AuthorOf[m])
               /\ messages'[m].author # None =>
                     \E k \in members' : /\ k.org = Home /\ Sub(k) = messages'[m].author
                                         /\ Credits(k, AuthorOf[m])
    <3>1. messages[m] \in Row /\ messages[m] # None
        BY <2>1, <2>3 DEF Unlink, Inv, Tables
    <3>2. /\ messages[m].label \in Resolved(AuthorOf[m])
          /\ messages[m].author # None =>
                \E k \in members : /\ k.org = Home /\ Sub(k) = messages[m].author
                                   /\ Credits(k, AuthorOf[m])
        BY <1>1, <3>1 DEF RightRows
    <3>3. CASE messages[m].author \in gone
      <4>1. messages'[m].author = None /\ messages'[m].label = messages[m].label
          BY <2>1, <3>1, <3>3 DEF Unlink, Row
      <4> QED
          BY <3>2, <4>1
    <3>4. CASE messages[m].author \notin gone
      <4>1. messages'[m] = messages[m]
          BY <2>1, <3>4 DEF Unlink
      <4> QED
          BY <2>2, <3>2, <3>4, <4>1
    <3> QED
        BY <3>3, <3>4
  <2> QED
    BY <1>1, <2>1, <2>3 DEF RightRows
<1>5. ASSUME NEW r \in Requests, RequestStep(r)
      PROVE  /\ messages' = messages /\ members \subseteq members'
             /\ \A k \in members' : k \in members \/ k.kind # "slack"
  <2>1. \A o, u : MemberRow(o, u).kind = "login"
    BY DEF MemberRow
  <2> QED
    BY <1>5, <2>1 DEF RequestStep, FindOrg, InsertOrg, FindProject, InsertProject, FindMember,
                      InsertMember, CommitAdded, slackTables
<1>6. ASSUME Arrival, ~ \E o \in Orgs : OrgDeleted(o) \/ \E u \in Users : MemberRemoved(o, u)
      PROVE  /\ messages' = messages /\ members \subseteq members'
             /\ \A k \in members' : k \in members \/ k.kind # "slack"
    BY <1>6 DEF Arrival, Login, MemberAdded, OrgCreated, CreateMember, slackTables
<1> QED
    BY <1>2, <1>3, <1>4, <1>5, <1>6 DEF DirectoryStep

\* A step of accounts keeps every credit right.
LEMMA AccountsRight ==
    ASSUME Assumed, Inv, Right, Accounts
    PROVE  Right'
<1> DEFINE gone == {Sub(m) : m \in {k \in members \ members' : k.org = Home}}
<1>1. jobs' = Unlinked(gone) /\ DirectoryStep
    BY DEF Accounts
<1>2. \A k \in members : k.org = Home => k \in members' \/ Sub(k) \in gone
    OBVIOUS
<1> HIDE DEF gone
<1> QED
    BY <1>1, <1>2, RelinkedRight, AccountsRows DEF Right

\* Together with Inv it is inductive.
LEMMA InitRight == Assumed /\ Init => Right
<1> SUFFICES ASSUME Assumed, Init PROVE Right
    OBVIOUS
<1>1. messages = [m \in Messages |-> None] /\ jobs = [w \in Workers |-> NoJob]
    BY DEF Init, SourceInit, TablesInit, TablesConnected
<1>2. \A k \in members : k.kind # "slack"
    BY DEF Init, TablesInit, TablesConnected
<1>3. RightJob(NoJob, members)
    BY FreshRight DEF NoJob
<1> QED
    BY <1>1, <1>2, <1>3 DEF Right, RightName, RightRows

LEMMA NextRight == Assumed /\ Inv /\ Right /\ [Next]_vars => Right'
<1> SUFFICES ASSUME Assumed, Inv, Right, [Next]_vars PROVE Right'
    OBVIOUS
<1>1. CASE Accounts
    BY <1>1, AccountsRight
<1>2. ASSUME NEW w \in Workers, RouteStep(w) PROVE Right'
    BY <1>2, RouteReadsRight, RouteAuthorRight, RouteLookupRight, RouteCreateRight,
       RouteCommitRight DEF RouteStep
<1>3. ASSUME NEW w \in Workers, SyncStep(w) PROVE Right'
    BY <1>3, SyncReadsRight, SyncMessageRight, SyncLookupRight, SyncCreateRight, SyncCommitRight
       DEF SyncStep
<1>4. CASE UNCHANGED vars
  <2>1. UNCHANGED <<members, messages, jobs>>
    BY <1>4 DEF vars, tables, slackTables, source
  <2> QED
    BY <2>1 DEF Right
<1> QED
    BY <1>1, <1>2, <1>3, <1>4, AdminRight DEF Next, SourceStep

\* Whatever routes and syncs, purges and removals overlap, a message is credited
\* to the membership of its own author or to nobody (link_author_membership,
\* provision_authors, link_messages_to_member).
THEOREM WorkspaceRightAuthor == Spec => []RightAuthor
<1>1. Assumed
    BY WorkspaceAssumption, SourceAssumption, LinkAssumption DEF Assumed
<1>2. Right => RightAuthor
    BY DEF Right, RightRows, RightAuthor, Credits
<1> QED
    BY <1>1, <1>2, InitRight, NextRight, WorkspaceInvariant, PTL DEF Spec

-----------------------------------------------------------------------------
\* What a step may never do.

\* Only the purge and the deletions take memberships away.
LEMMA MembersLost ==
    ASSUME Assumed, Inv, Next, NEW k \in members, k \notin members'
    PROVE  \/ Disconnect \/ \E o \in Orgs : OrgDeleted(o)
           \/ \E o \in Orgs, u \in Users : MemberRemoved(o, u)
<1>1. CASE SourceStep
  <2>1. ASSUME NEW w \in Workers, RouteStep(w) \/ SyncStep(w) PROVE members \subseteq members'
    BY <2>1, JobFrame
  <2>2. CASE Install \/ \E c \in Channels : ToggleChannel(c)
    BY <2>2 DEF Install, ToggleChannel
  <2> QED
    BY <1>1, <2>1, <2>2 DEF SourceStep, AdminStep
<1>2. CASE DirectoryStep
  <2>1. ASSUME NEW r \in Requests, RequestStep(r) PROVE members \subseteq members'
    BY <2>1 DEF RequestStep, FindOrg, InsertOrg, FindProject, InsertProject, FindMember,
                InsertMember, CommitAdded
  <2> QED
    BY <1>2, <2>1 DEF DirectoryStep, Arrival, Login, MemberAdded, OrgCreated, CreateMember
<1> QED
    BY <1>1, <1>2 DEF Next, Accounts

\* A disconnect never takes a membership of somebody who logged in or was added
\* by an administrator (delete_slack_members).
THEOREM WorkspaceLoginsSurvive == Spec => LoginsSurvive
<1>1. Assumed
    BY WorkspaceAssumption, SourceAssumption, LinkAssumption DEF Assumed
<1>2. Inv /\ [Next]_vars =>
        [\A k \in members : k.kind # "slack" /\ k \notin members' =>
            orgs'[k.org] = 0 \/ MemberRemoved(k.org, k.key)]_vars
  <2> SUFFICES ASSUME Inv, Next, NEW k \in members, k.kind # "slack", k \notin members'
               PROVE  orgs'[k.org] = 0 \/ MemberRemoved(k.org, k.key)
    OBVIOUS
  <2>1. CASE Disconnect
    BY <2>1 DEF Disconnect, Kept
  <2>2. ASSUME NEW o \in Orgs, OrgDeleted(o) PROVE orgs'[k.org] = 0
    BY <1>1, <2>2, AccountsNow DEF OrgDeleted, DeleteOrg
  <2>3. ASSUME NEW o \in Orgs, NEW u \in Users, MemberRemoved(o, u) PROVE MemberRemoved(k.org, k.key)
    <3>1. k.org = o /\ k.key = u
        BY <2>3 DEF MemberRemoved, DeleteMembers
    <3> QED
        BY <2>3, <3>1
  <2> QED
    BY <1>1, <2>1, <2>2, <2>3, MembersLost
<1> QED
    BY <1>2, WorkspaceInvariant, PTL DEF Spec, LoginsSurvive

\* No sync moves the switch of a channel (_upsert_channels).
THEOREM WorkspaceFlagKept == Spec => FlagKept
<1>1. Inv /\ [Next]_vars =>
        [\A c \in Channels : ingest[c] # "none" /\ ingest'[c] \notin {ingest[c], "none"} =>
            ToggleChannel(c)]_vars
  <2> SUFFICES ASSUME Inv, Next, NEW c \in Channels, ingest[c] # "none",
                      ingest'[c] \notin {ingest[c], "none"}
               PROVE  ToggleChannel(c)
    OBVIOUS
  <2>1. ingest \in [Channels -> {"none", "on", "off"}]
    BY DEF Inv, Tables
  <2>2. CASE DirectoryStep
    <3>1. ingest' = ingest \/ ingest' = [d \in Channels |-> "none"]
        BY <2>2 DEF DirectoryStep, Arrival, RequestStep, FindOrg, InsertOrg, FindProject,
                    InsertProject, FindMember, InsertMember, CommitAdded, Login, MemberAdded,
                    OrgCreated, OrgDeleted, DeleteOrg, MemberRemoved, CreateMember, slackTables
    <3> QED
        BY <3>1
  <2>3. CASE AdminStep
    BY <2>1, <2>3 DEF AdminStep, Install, Disconnect, ToggleChannel
  <2>4. ASSUME NEW w \in Workers, RouteStep(w) PROVE FALSE
    BY <2>4 DEF RouteStep, Webhook, StartRoute, PersistEvent, RouteAuthor, RouteLookup,
                RouteCreate, RouteCommit, tables, slackTables
  <2>5. ASSUME NEW w \in Workers, SyncStep(w) PROVE FALSE
    <3>1. ASSUME NEW d \in Channels, SyncChannel(w, d) PROVE FALSE
        BY <2>1, <3>1 DEF SyncChannel, Upserted
    <3> QED
        BY <2>5, <3>1 DEF SyncStep, StartSync, SyncMessage, SyncChannelEnds, SyncAuthors,
                          SyncLookup, SyncCreate, SyncCommit, tables, slackTables
  <2> QED
    BY <2>2, <2>3, <2>4, <2>5 DEF Next, Accounts, SourceStep
<1> QED
    BY <1>1, WorkspaceInvariant, PTL DEF Spec, FlagKept
=============================================================================
