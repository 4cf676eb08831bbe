---------------------------- MODULE SlackSource ----------------------------
(***************************************************************************)
(* The Slack connector of Home from its install to its disconnect: the     *)
(* webhook, the history sync and the route tasks, which store messages and *)
(* provision a membership for each author, beside the channel switch and   *)
(* the purge. A job holds its transaction's uncommitted memberships in     *)
(* "made": nobody sees them, and an insert of the same sub waits for them. *)
(***************************************************************************)
EXTENDS WorkspaceTables

CONSTANTS
    Workers,   \* bound: tasks and webhook requests running at once
    Cap        \* slack_backfill_max_messages, 0 for no cap

ASSUME SourceAssumption == Cap \in Nat /\ None \notin Row

VARIABLES
    queue,     \* messages whose route task waits in the broker
    jobs,      \* what each slot runs, and how its last sync ended
    dirty      \* history: a job was running when the source was last purged

source == <<queue, jobs, dirty>>

\* A membership a job inserted and has not committed, and what its UPDATEs so
\* far make of a message by the label it shows: its membership (None once that
\* is deleted) and its label.
Made == [key : Labels, name : Labels]
Link == [sub : Subs \cup {None}, name : Labels]

Job == [step : {"idle", "event", "author", "lookup", "create", "commit",
                "channels", "history", "authors", "each", "insert", "done"},
        msg : Messages \cup {None},         \* webhook, route: its message
        stored : {"yes", "no"},             \* route: the message was stored before
        connector : Nat, org : Nat,         \* the rows the job loaded
        channels : SUBSET Channels, channel : Channels \cup {None},
        left : SUBSET Messages,             \* sync: what its channel still holds
        total : Nat, failed : SUBSET Channels,
        authors : SUBSET Labels,            \* sync: authors to provision after this one
        author : Labels \cup {None}, name : Labels \cup {None},
        made : SUBSET Made, links : [Labels -> Link \cup {None}]]

NoLinks == [x \in Labels |-> None]

NoJob == [step |-> "idle", msg |-> None, stored |-> "no", connector |-> 0, org |-> 0,
          channels |-> {}, channel |-> None, left |-> {}, total |-> 0, failed |-> {},
          authors |-> {}, author |-> None, name |-> None, made |-> {}, links |-> NoLinks]

ASSUME LinkAssumption == None \notin Link

SourceInit == queue = {} /\ jobs = [w \in Workers |-> NoJob] /\ dirty = "no"

Running(w) == jobs[w].step \notin {"idle", "done"}
Set(w, job) == jobs' = [jobs EXCEPT ![w] = job]
End(w) == Set(w, NoJob)

AdminIn == orgs[Home] # 0 /\ \E m \in members : m.org = Home /\ m.kind = "login"
Settled(w) == jobs[w].org = orgs[Home]

\* users_info: the real name, or the id itself when the call fails; a persona's
\* label is its name.
Resolved(l) == IF l \in Uids THEN {RealName[l], l} ELSE {l}

\* What a transaction sees: what is committed, and what it inserted itself.
MadeRows(w) == {[org |-> Home, kind |-> "slack", key |-> n.key, name |-> n.name] : n \in jobs[w].made}
Visible(w) == {m \in members : m.org = Home} \cup MadeRows(w)
ByUid(w, l) == {m \in Visible(w) : m.kind = "slack" /\ m.key = l}
ByName(w, n) == {m \in Visible(w) : m.name = n}

\* An insert waits for an uncommitted insert of the same unique key.
MemberLocked(w, l) == \E v \in Workers \ {w} : \E n \in jobs[v].made : n.key = l
MessageLocked(m) == \E v \in Workers : jobs[v].step \in {"author", "lookup", "create", "commit"}
                                        /\ jobs[v].msg = m /\ jobs[v].stored = "no"

\* link_messages_to_member after the UPDATEs so far: of the rows that show l by
\* now.
Linked(links, l, sub, n) ==
    [x \in Labels |-> IF (links[x] = None /\ x = l) \/ (links[x] # None /\ links[x].name = l)
                        THEN [sub |-> sub, name |-> n] ELSE links[x]]

SlackSub(l) == [kind |-> "slack", key |-> l]

\* What is committed of a job: its memberships, and its links.
Commit(w, rows) == members' = members \cup MadeRows(w) /\ messages' = rows

\* A membership that is deleted takes the links of the rows it waits for along:
\* author_membership_id is set to NULL when their transaction has committed.
Unlinked(gone) ==
    [w \in Workers |-> [jobs[w] EXCEPT !.links =
       [x \in Labels |-> IF @[x] # None /\ @[x].sub \in gone
                           THEN [sub |-> None, name |-> @[x].name] ELSE @[x]]]]

\* A row shows the id or name the message was posted under until it is linked.
Posted(m) == [author |-> None, label |-> AuthorOf[m]]

\* A route task is sent before its raw event is committed: it may run first,
\* find nothing and be gone (see MessagePipeline).
Enqueue(m) == queue' = queue \cup {m} \/ UNCHANGED queue

-----------------------------------------------------------------------------
\* Variants for the mutation runs, each a plausible mistake in what follows.

\* Every unlinked row is linked to an author being provisioned.
LinkRowsUnlinked(w, rows) ==
    [m \in Messages |->
       IF rows[m] # None /\ rows[m].author = None /\ jobs[w].links # NoLinks
         THEN LET k == CHOOSE l \in Labels : jobs[w].links[l] # None
              IN [author |-> jobs[w].links[k].sub, label |-> jobs[w].links[k].name]
         ELSE rows[m]]

\* The purge keeps those who logged in only.
KeptLogins == {m \in members : m.org # Home \/ m.kind = "login"}

\* The purge forgets the memberships.
KeptAll == members

\* The upsert switches the channel on again.
UpsertedOn(c) == "on"

\* A message whose raw event is there is taken for stored.
StoredIfNew(m) == IF messages[m] = None /\ m \notin raw THEN Posted(m) ELSE messages[m]

\* Nothing keeps a sub from being inserted twice.
NeverTaken(w, l) == FALSE

-----------------------------------------------------------------------------
\* What the statements below write.

\* link_messages_to_member, of the rows as they are when the job commits.
LinkRows(w, rows) ==
    [m \in Messages |->
       IF rows[m] = None \/ jobs[w].links[rows[m].label] = None THEN rows[m]
       ELSE [author |-> jobs[w].links[rows[m].label].sub,
             label |-> jobs[w].links[rows[m].label].name]]

\* The memberships without a Slack id survive the purge.
Kept == {m \in members : m.org # Home \/ m.kind # "slack"}

\* ON CONFLICT DO UPDATE SET name.
Upserted(c) == IF ingest[c] = "none" THEN "on" ELSE ingest[c]

\* ON CONFLICT DO NOTHING, whether or not the raw event was new.
Stored(m) == IF messages[m] = None THEN Posted(m) ELSE messages[m]

\* The unique index on organisation and sub.
Taken(w, l) == ByUid(w, l) # {}

-----------------------------------------------------------------------------
\* The routes of an administrator, and the webhook.

\* OAuth callback: refreshes the row there is.
Install ==
    /\ AdminIn /\ Start
    /\ IF connector = 0 THEN connector' = lastRow + 1 /\ lastRow' = lastRow + 1
                        ELSE UNCHANGED <<connector, lastRow>>
    /\ UNCHANGED <<directoryTables, members, ingest, raw, messages, source>>

ToggleChannel(c) ==
    /\ AdminIn /\ ingest[c] # "none" /\ Start
    /\ ingest' = [ingest EXCEPT ![c] = IF @ = "on" THEN "off" ELSE "on"]
    /\ UNCHANGED <<directoryTables, members, lastRow, connector, raw, messages, source>>

\* The connector, its channels, and what it brought: messages, raw events and
\* the memberships with a Slack id. The waiting tasks find their row gone.
Disconnect ==
    /\ AdminIn /\ connector # 0 /\ Start
    /\ connector' = 0
    /\ ingest' = [c \in Channels |-> "none"]
    /\ raw' = {} /\ queue' = {}
    /\ messages' = [m \in Messages |-> None]
    /\ members' = Kept /\ jobs' = Unlinked({Sub(m) : m \in members \ Kept})
    /\ dirty' = IF \E w \in Workers : Running(w) THEN "yes" ELSE "no"
    /\ UNCHANGED <<directoryTables, lastRow>>

\* Deleting Home cascades the same way.
SourceDeleted ==
    /\ queue' = {}
    /\ dirty' = IF \E w \in Workers : Running(w) THEN "yes" ELSE "no"

\* handle_event: loads the connector, then stores the raw event (a duplicate
\* changes nothing); a failed enqueue is swallowed.
Webhook(w, m) ==
    /\ ~Running(w) /\ connector # 0 /\ m \notin raw /\ Start
    /\ Set(w, [NoJob EXCEPT !.step = "event", !.msg = m, !.org = orgs[Home]])
    /\ UNCHANGED <<tables, lastRow, queue, dirty>>

PersistEvent(w) ==
    /\ jobs[w].step = "event"
    /\ IF Settled(w) /\ jobs[w].msg \notin raw
         THEN raw' = raw \cup {jobs[w].msg} /\ Enqueue(jobs[w].msg)
         ELSE UNCHANGED <<raw, queue>>
    /\ End(w)
    /\ UNCHANGED <<directoryTables, members, lastRow, connector, ingest, messages, ops, dirty>>

-----------------------------------------------------------------------------
\* The route task: upsert, author, classification (an LLM call), commit.

StartRoute(w, m) ==
    /\ ~Running(w) /\ m \in queue /\ ~MessageLocked(m)
    /\ queue' = queue \ {m}
    /\ Set(w, [NoJob EXCEPT !.step = "author", !.msg = m, !.org = orgs[Home],
                            !.stored = IF messages[m] = None THEN "no" ELSE "yes"])
    /\ UNCHANGED <<tables, lastRow, ops, dirty>>

\* link_author_membership, else, for a Slack id and an installed connector, on
\* to _provision_webhook_author.
RouteAuthor(w) ==
    LET l == AuthorOf[jobs[w].msg] IN
    /\ jobs[w].step = "author"
    /\ \/ /\ l \in Uids /\ ByUid(w, l) # {}
          /\ \E k \in ByUid(w, l) :
                Set(w, [jobs[w] EXCEPT !.step = "commit", !.links = Linked(@, l, Sub(k), k.name)])
       \/ /\ l \in Uids /\ ByUid(w, l) = {} /\ connector # 0
          /\ Set(w, [jobs[w] EXCEPT !.step = "lookup", !.author = l])
       \/ /\ l \notin Uids \/ (ByUid(w, l) = {} /\ connector = 0)
          /\ Set(w, [jobs[w] EXCEPT !.step = "commit"])
    /\ UNCHANGED <<tables, lastRow, ops, queue, dirty>>

\* users_info, then the membership by name (the oldest: any of them here).
RouteLookup(w) ==
    LET l == jobs[w].author IN
    /\ jobs[w].step = "lookup"
    /\ \E n \in Resolved(l) :
          \/ \E k \in ByName(w, n) :
                Set(w, [jobs[w] EXCEPT !.step = "commit", !.links = Linked(@, l, Sub(k), n)])
          \/ /\ ByName(w, n) = {}
             /\ Set(w, [jobs[w] EXCEPT !.step = "create", !.name = n])
    /\ UNCHANGED <<tables, lastRow, ops, queue, dirty>>

\* create_slack_member. Somebody committed the same sub: the integrity error
\* ends the task, and what it did is rolled back.
RouteCreate(w) ==
    LET l == jobs[w].author
        n == jobs[w].name
    IN
    /\ jobs[w].step = "create" /\ ~MemberLocked(w, l)
    /\ IF ~Taken(w, l) /\ Settled(w)
         THEN Set(w, [jobs[w] EXCEPT !.step = "commit", !.made = {[key |-> l, name |-> n]},
                                     !.links = Linked(@, l, SlackSub(l), n)])
         ELSE End(w)
    /\ UNCHANGED <<tables, lastRow, ops, queue, dirty>>

\* Classified: write_tag and the commit. The tag refers to the message: when
\* that was stored before and is deleted by now, everything is rolled back.
\* Without a provisioned author only the own message is linked.
RouteCommit(w) ==
    LET m == jobs[w].msg
        k == jobs[w].links[AuthorOf[m]]
        rows == [messages EXCEPT ![m] =
                   IF jobs[w].author = None /\ k # None
                     THEN [author |-> k.sub, label |-> k.name] ELSE Stored(m)]
    IN
    /\ jobs[w].step = "commit" /\ jobs[w].msg # None
    /\ IF Settled(w) /\ (jobs[w].stored = "yes" => messages[m] # None)
         THEN Commit(w, IF jobs[w].author = None THEN rows ELSE LinkRows(w, rows))
         ELSE UNCHANGED <<members, messages>>
    /\ End(w)
    /\ UNCHANGED <<directoryTables, lastRow, connector, ingest, raw, ops, queue, dirty>>

-----------------------------------------------------------------------------
\* The sync task: channels, their history, then the authors in one transaction.

StartSync(w) ==
    /\ ~Running(w) /\ connector # 0 /\ Start
    /\ Set(w, [NoJob EXCEPT !.step = "channels", !.connector = connector, !.org = orgs[Home],
                            !.channels = Channels])
    /\ UNCHANGED <<tables, lastRow, queue, dirty>>

Full(w) == Cap > 0 /\ jobs[w].total >= Cap

\* The upsert keeps the flag of a channel that has a row. Its connector gone,
\* the foreign key's error ends the task.
SyncChannel(w, c) ==
    /\ jobs[w].step = "channels" /\ c \in jobs[w].channels /\ ~Full(w)
    /\ IF jobs[w].connector = connector
         THEN /\ ingest' = [ingest EXCEPT ![c] = Upserted(c)]
              /\ Set(w, [jobs[w] EXCEPT !.step = "history", !.channel = c,
                                        !.channels = @ \ {c},
                                        !.left = {m \in Messages : ChannelOf[m] = c}])
         ELSE End(w) /\ UNCHANGED ingest
    /\ UNCHANGED <<directoryTables, members, lastRow, connector, raw, messages, ops, queue, dirty>>

\* _persist_one: the raw event, its task, the message, whichever is missing.
\* The organisation gone, the rollback expires the loaded rows: the next read
\* of one is an error that ends the task.
SyncMessage(w, m) ==
    /\ jobs[w].step = "history" /\ m \in jobs[w].left /\ ~Full(w) /\ ~MessageLocked(m)
    /\ IF Settled(w)
         THEN /\ raw' = raw \cup {m}
              /\ IF m \in raw THEN UNCHANGED queue ELSE Enqueue(m)
              /\ messages' = [messages EXCEPT ![m] = Stored(m)]
              /\ Set(w, [jobs[w] EXCEPT !.left = @ \ {m},
                                        !.total = IF m \in raw THEN @ ELSE @ + 1])
         ELSE End(w) /\ UNCHANGED <<raw, queue, messages>>
    /\ UNCHANGED <<directoryTables, members, lastRow, connector, ingest, ops, dirty>>

\* The channel ends, or its history call fails, which is only logged.
SyncChannelEnds(w) ==
    LET job == [jobs[w] EXCEPT !.step = "channels", !.channel = None, !.left = {}] IN
    /\ jobs[w].step = "history"
    /\ \/ (jobs[w].left = {} \/ Full(w)) /\ Set(w, job)
       \/ jobs[w].left # {} /\ Set(w, [job EXCEPT !.failed = @ \cup {jobs[w].channel}])
    /\ UNCHANGED <<tables, lastRow, ops, queue, dirty>>

\* unprovisioned_author_names.
SyncAuthors(w) ==
    /\ jobs[w].step = "channels" /\ (jobs[w].channels = {} \/ Full(w))
    /\ Set(w, [jobs[w] EXCEPT !.step = "each", !.channels = {},
                 !.authors = {messages[m].label : m \in {x \in Messages :
                                 messages[x] # None /\ messages[x].author = None}}])
    /\ UNCHANGED <<tables, lastRow, ops, queue, dirty>>

\* users_info, then the membership by Slack id, then by name.
SyncLookup(w, l) ==
    LET job == [jobs[w] EXCEPT !.authors = @ \ {l}] IN
    /\ jobs[w].step = "each" /\ l \in jobs[w].authors
    /\ \E n \in Resolved(l) :
         LET found == IF ByUid(w, l) # {} THEN ByUid(w, l) ELSE ByName(w, n) IN
         \/ \E k \in found : Set(w, [job EXCEPT !.links = Linked(@, l, Sub(k), n)])
         \/ found = {} /\ Set(w, [job EXCEPT !.step = "insert", !.author = l, !.name = n])
    /\ UNCHANGED <<tables, lastRow, ops, queue, dirty>>

SyncCreate(w) ==
    LET l == jobs[w].author
        n == jobs[w].name
    IN
    /\ jobs[w].step = "insert" /\ ~MemberLocked(w, l)
    /\ IF ~Taken(w, l) /\ Settled(w)
         THEN Set(w, [jobs[w] EXCEPT !.step = "each", !.author = None, !.name = None,
                                     !.made = @ \cup {[key |-> l, name |-> n]},
                                     !.links = Linked(@, l, SlackSub(l), n)])
         ELSE End(w)
    /\ UNCHANGED <<tables, lastRow, ops, queue, dirty>>

SyncCommit(w) ==
    /\ jobs[w].step = "each" /\ jobs[w].authors = {}
    /\ IF Settled(w)
         THEN /\ Commit(w, LinkRows(w, messages))
              /\ Set(w, [jobs[w] EXCEPT !.step = "done", !.made = {}, !.links = NoLinks])
         ELSE End(w) /\ UNCHANGED <<members, messages>>
    /\ UNCHANGED <<directoryTables, lastRow, connector, ingest, raw, ops, queue, dirty>>

-----------------------------------------------------------------------------
AdminStep == Install \/ Disconnect \/ \E c \in Channels : ToggleChannel(c)

RouteStep(w) ==
    \/ \E m \in Messages : Webhook(w, m) \/ StartRoute(w, m)
    \/ PersistEvent(w) \/ RouteAuthor(w) \/ RouteLookup(w) \/ RouteCreate(w) \/ RouteCommit(w)

SyncStep(w) ==
    \/ StartSync(w)
    \/ \E c \in Channels : SyncChannel(w, c)
    \/ \E m \in Messages : SyncMessage(w, m)
    \/ SyncChannelEnds(w) \/ SyncAuthors(w)
    \/ \E l \in Labels : SyncLookup(w, l)
    \/ SyncCreate(w) \/ SyncCommit(w)

SourceStep == AdminStep \/ \E w \in Workers : RouteStep(w) \/ SyncStep(w)

-----------------------------------------------------------------------------
SourceTypeOK ==
    /\ queue \subseteq Messages
    /\ jobs \in [Workers -> Job]
    /\ dirty \in {"yes", "no"}

\* Webhook routes and syncs provision the same author at once, and one of them
\* is ended for it: a Slack id never gets two memberships.
OneMemberPerUid ==
    \A k, l \in members : k.org = l.org /\ Sub(k) = Sub(l) => k = l

\* A message is only ever credited to its author: the membership created for
\* the id it was posted under, or one of the author's name, whatever was
\* renamed, removed, purged or provisioned between the lookup and the update.
RightAuthor ==
    \A m \in Messages : messages[m] # None /\ messages[m].author # None =>
        \E k \in members :
            /\ k.org = Home /\ Sub(k) = messages[m].author
            /\ (k.kind = "slack" /\ k.key = AuthorOf[m]) \/ k.name \in Resolved(AuthorOf[m])

\* After a disconnect nothing of Slack is left, except what a job that was
\* running then stored later.
Purged ==
    connector = 0 /\ dirty = "no" =>
        /\ raw = {} /\ \A m \in Messages : messages[m] = None
        /\ \A c \in Channels : ingest[c] = "none"
        /\ \A k \in members : k.org = Home => k.kind # "slack"

\* A sync that ended below its cap left every message of the channels that did
\* not fail stored, though routes stored, or failed to store, some meanwhile.
SyncWhole ==
    \A w \in Workers : jobs[w].step = "done" /\ jobs[w].connector = connector /\ ~Full(w) =>
        \A m \in Messages : ChannelOf[m] \notin jobs[w].failed => messages[m] # None
=============================================================================
