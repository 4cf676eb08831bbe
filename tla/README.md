# A verification development of EverCurrent

EverCurrent reads a hardware team's Slack workspace, decides with a language
model which messages matter, raises *signals* for what the team must notice,
scores every message for every member and writes each member a daily digest. It
also reads the team's PDFs from Dropbox, and an agent, Eve, searches both for
insights. Almost all of it happens in background tasks that read the database,
wait for a model, for Slack or for Dropbox, and write. These TLA+ modules model
that core, with the accounts and connectors around it: what tasks and requests
may do to each other's rows when they run at once, fail half-way or are
delivered again. TLC checks the models on small instances, TLAPS proves the
central invariants for all of them.

Paths below are relative to `src/apps/api/src/evercurrent/` unless they start
with `web/` (`src/apps/web/`) or `docs/` (`src/docs/`).

## 1. The system: components, state, operations

| component | code | state it keeps | operations that change it |
|---|---|---|---|
| events webhook | `connectors/slack/events.py` | `raw_events` | persist a delivery, detect a repeat, enqueue its route |
| history sync | `connectors/slack/backfill.py`, `jobs/tasks/sync_slack.py` | `raw_events`, `messages`, thread links; one session per run | `_persist_one` in its two halves, commit, abort |
| routing | `jobs/tasks/route_message.py`, `route_message_db.py` | `messages`, `message_tags` | upsert, classify and tag, resolve the thread's signals, enqueue follow-ups |
| signals | `signals/`, `jobs/tasks/build_signal.py` | `signals` (status, closing message) | idempotent draft, insert, resolve |
| scoring | `scoring/`, `jobs/tasks/score_message.py` | `scores` | compute from the tag, upsert |
| job queue | `jobs/celery_app.py`, `celery_tasks.py` | the broker's tasks, a worker's current task | deliver, acknowledge late, redeliver, fail |
| digest generation | `digest/`, `jobs/tasks/generate_digest_for_member.py` | `digests` | schedule, regenerate, read, draft, filter, upsert, announce |
| digest API and event stream | `api/routes/digests.py`, `api/routes/events.py`, `sse_publisher.py` | none (Redis pub/sub keeps nothing) | read the digest, count its staleness, publish |
| dashboard | `web/stores/regen.ts`, `web/hooks/use-events.ts`, `use-digest.ts`, `web/components/dashboard/regenerate-button.tsx` | the pending flag, its safety timer, the cached digest | click, handle events, refetch |
| Eve insights | `jobs/tasks/eve_insight.py`, `insights/`, `api/routes/insights.py`, `web/stores/eve.ts`, `web/components/insights/eve-stream-listener.tsx` | `insights`; a tab's pending flag and timer | trigger, cap, search and emit, gate, compare, insert, announce |
| Slack connector | `db/repositories/connectors.py`, `api/routes/connectors.py`, `connectors/slack/install.py` | `connectors`, `connector_channels`, and on a purge what Slack brought | install, toggle a channel, sync, disconnect and purge |
| accounts | `auth/deps.py`, `db/repositories/provisioning.py`, `orgs.py`, `memberships.py`, `api/routes/webhooks.py`, `members.py` | `orgs`, `projects`, `org_memberships` | provision on a first request, from Auth0's webhook, by an administrator and from Slack authors |
| documents | `connectors/dropbox/`, `jobs/tasks/sync_dropbox.py`, `ingestion/` | the Dropbox connector, `documents` and their chunks | install, sync (refresh, list, download, chunk, embed, store), disconnect, end of the organisation |
| timeline | `timeline/timeline_builder.py` | none | a projection of the signals |
| tenancy | `tenancy/`, `db/session.py` | the session's organisation | set per request and per transaction |
| language model, retrieval, agent tools | `llm/`, `rag/retriever.py`, `agent_tools/` | none | queries and calls |

**How they interact.** The webhook and the history sync write the same unique
key of `raw_events` and send the same Celery task. A route task sends the build
and score tasks. All tasks share the tables and nothing else; they run in
separate processes and separate transactions, at Postgres' read-committed
level. Tasks announce what they did on a Redis channel that every browser of
the project listens to, and the browser answers with ordinary requests.

**What is hard.** (a) Between what a task reads and what it writes lies a model
call of seconds. (b) Celery acknowledges late (`jobs/celery_app.py:28`): a lost
worker's task runs again from its start, after some of its effects; a task that
raises is acknowledged and gone, since no task asks for a retry. (c) A commit
and the send of a task are two steps, in one order in the webhook and in the
other in the history sync. (d) Messages are routed in any order, not in the
thread's. (e) Events are sent and forgotten. (f) A row is looked for, and
inserted if it was not there, in two steps: of two who do that one loses to a
unique index, and what the loser does next (a rollback expires the objects it
had loaded) decides whether its request or task survives. (g) A disconnect
deletes rows that running tasks hold in memory, and in several statements: what
is committed between its first and its last is seen by some of them only. The
full list, each at its line and with the property that covers it, is under
`hazards` in `PROJECT.json`.

**What makes each part correct.** Webhook and sync: an event has one router and
every stored event is routed. Routing, signals and scoring: a derived row
stands on the row it was derived from, a signal is raised once and closed by
its own thread, the stored score is that of the stored tag. Queue: an
interrupted task is taken up again. Digests: a digest cites only what exists
and was given to it, unless a disconnect overtook it, and nothing that was
resolved before; the stored row is
not replaced behind a member's back. Dashboard: it shows what is stored and
says when it is stale, and its button never hangs. Insights: what one cites was
really found; the daily cap and the comparison with earlier insights are passed
only by runs that overlapped. Connectors: after a purge nothing is left, except
what was under way, and no login is lost; a sync that ends has stored what it
listed. Accounts: whoever is let in has an organisation and a project, no one
has two memberships, and a message is credited to its author. Documents: the
index holds a file whole and once, and what a sync counts as ingested is in it
unless it is never indexed.

## 2. The modules

| module | what it is |
|---|---|
| `PipelineContract` | abstract: what the tables promise, without tasks or workers |
| `MessagePipeline` | webhook, history sync, queue, routing, signals and scoring |
| `MessagePipelineProofs` | theorems about it, whatever fails |
| `PipelineFaultProofs` | theorems about it under fewer failures: which of them each promise depends on |
| `DigestGeneration` | the digest task and schedule, beside the pipeline as far as a digest sees it |
| `DigestGenerationProofs` | theorems about it |
| `DigestDashboard` | `DigestGeneration` with the dashboards, the event stream and the digest request |
| `DigestDashboardProofs` | theorems about it |
| `WorkspaceTables` | the tables that accounts and the Slack connector share, with their cascades |
| `Directory` | accounts: requests, Auth0's webhook, the member routes |
| `SlackSource` | the Slack connector: webhook, route tasks, syncs, disconnect |
| `Workspace` | `Directory` and `SlackSource` composed over `WorkspaceTables` |
| `WorkspaceProofs` | theorems about it |
| `Chunking`, `Documents` | the chunks of a document; the Dropbox connector and its syncs |
| `ChunkingProofs`, `DocumentsProofs` | theorems about them |
| `InsightGate`, `EveInsights` | what Eve may publish; her tasks and the tabs that wait for them |
| `EveInsightsProofs` | theorems about it |
| `MCMessagePipeline`, `MCDigestGeneration`, `MCDigestDashboard`, `MCWorkspace`, `MCDocuments`, `MCEveInsights` | instances for TLC |

An action is one committed transaction, or one read the code later acts upon.
A worker slot is a record: its task, how far it got and what it has read; so a
crash between any two awaits is an action (`TaskFails`, `WorkerLost`) that
drops the record. Operators named `...Unheld`, `...Either` and the like, in a
section of their own, are the mistakes the mutation runs plant; no
specification uses them. `map` in `PROJECT.json` gives the lines each
definition stands for.

### MessagePipeline

* `rawId`, `messages`, `threadRoot`, `tags`, `signals`, `closedBy`, `scores`
  are the committed tables; `lastId` numbers the ids a raw event was given,
  because the task carries the id and a rolled back id never comes back.
* `hook` holds webhook calls that committed and have not yet enqueued, `sync`
  the open transaction of each history sync, `queue` the broker (tasks are
  counted: they may be delivered in any order), `jobs` the workers.
* `WebhookPersist`, `WebhookDuplicate`, `WebhookEnqueue(Lost)` are
  `handle_event`; `SyncPersistRaw`, `SyncSendRefused`, `SyncCommit`,
  `SyncAbort` are `_persist_one` and the session around it; an insert waits
  for an uncommitted insert of the same key (`RawRowLocked`,
  `MessageRowLocked`).
* `RouteUpsert` decides inside the transaction whether the parent row exists;
  `RouteCommit` follows the classifier's answer; `ResolveRead` and
  `ResolveCommit` are the two ends of the in-thread resolution;
  `EnqueueFollowups` sends the rest. `BuildStart`/`BuildInsert` and
  `ScoreRead`/`ScoreCommit` are the two ends of the follow-ups.

Abstractions: what a message says is left out; the classifier returns any
decision or the fallback (`NoSignal`); of a message's tag the decision is kept;
scores are represented by the decision they were computed from. The statuses a
reply changes are written in one transaction, as one step. Author provisioning
and the disconnect are in `SlackSource`, published events in `DigestGeneration`.
Left out with the disconnect is the tag's foreign key error (`IntegrityError`
in `route_message.py`), which needs a message deleted under the route, and with
removed members the early return of a score task that finds none
(`no_members`).

### DigestGeneration and DigestDashboard

* A thread stands for its message and for the signal it may trigger. Scoring
  appears as the start and commit of its transaction, because `computed_at`,
  like `generated_at`, is Postgres' `now()`, the start of the transaction. The
  clock `now` counts exactly those starts and the commits of resolutions.
  `resolvedAt` is the first of them: a second reply that closes the same signal
  again changes nothing a digest can see and only repeats the event.
* `ScheduleDay` is the daily scan, `Regenerate` the POST; both send the same
  task. `FindDigest`/`ReadScored`, `ReadSignals`, `WriteDigest`, `PublishReady`
  are the task, one step per query, model call, commit and publish. A draft may
  cite anything (`Drafts`); `FilterCited` keeps what was given.
* `PurgeRows` and `PurgeCommit` are the disconnect of Slack: its first
  statements delete the signals and digests they find (`purge`), the later ones
  the messages with their scores, and the commit makes it all visible. What is
  written in between stays: a signal without its message, a digest that cites
  what goes. Rows it has deleted are waited for (`ResolveSignal`,
  `WriteDigest`). `gone` are the messages deleted, whose ids never come back.
  A digest holds the ids it cites as arrays, which no foreign key keeps true, so
  a generation that waits for the model meanwhile stores ids of rows that are
  gone; `CitesWhatExists` allows exactly that. The history fields `crossed` (of
  a row: a disconnect came between its reads and its commit) and `era` (of a
  slot and a view: the disconnects before it read) tell such rows apart.
* `Publish` appends to what each browser has still to handle, or fails, which
  the code logs and forgets. `StreamBreaks` loses what a browser has not seen.
* `Click`, `PostAccepted`, `PostFailed` (with or without effect on the server),
  `TimerFires` and `HandleEvent` are the button and the stream; `FetchRow` and
  `FetchAnswer` are `GET /digests/today`, whose row and staleness counts are
  separate queries.

Abstractions: the limit of 20 items is out of reach of the instances and left
out; `top_scored_items_for_member` is the set of scored messages whose thread
has no resolved signal; members of an organisation share a timezone (as the
schedule's comment assumes); the schedule runs at most once a day; a refetch
replaces one in flight; only today's view is modelled, and not the refetch on
window focus. One disconnect runs at a time and commits (one that is rolled back
changes nothing), and Slack is connected again at once. It deletes the
memberships Slack brought as well, and their digests with them; `Members` are
those it leaves. The membership itself is in `Workspace`.

### Workspace: Directory and SlackSource over WorkspaceTables

* `orgs` and `connector` hold row ids, because what a request or task loaded is
  still there only if the id is (`Current`, `Settled`). `projects`, `members`,
  `ingest`, `raw`, `messages` are the tables; `Member` says how the `sub` of a
  membership tells logins, Slack authors and personas apart. `DeleteOrg` and
  `DeleteMembers` are the cascades of the foreign keys.
* `requests` (Directory): a request with a verified token goes through
  `FindOrg`/`InsertOrg`, `FindProject`/`InsertProject` and
  `FindMember`/`InsertMember`, each a select and an insert with a commit of its
  own. A loser of the first race reads the winner's row; the loser of one of the
  others is answered with an error, because it reads an attribute of an object
  its rollback expired. `OrgCreated`, `OrgDeleted`, `MemberAdded`/`CommitAdded`
  and `MemberRemoved` are Auth0's webhook, `CreateMember` is `POST /members`.
* `jobs` (SlackSource): one record per running task. `Webhook`/`PersistEvent` is
  `handle_event` as far as a purge sees it; `StartRoute`, `RouteAuthor`,
  `RouteLookup`, `RouteCreate`, `RouteCommit` are a route task with the
  provisioning of its author; `StartSync` to `SyncCommit` are a whole history
  sync, whose authors are provisioned in one transaction at the end. What a
  transaction inserted and has not committed is in the job's `made`: nobody sees
  it, and an insert of the same `sub` waits for it (`MemberLocked`). `links` is
  what its UPDATEs so far make of a message by the label it shows, applied at
  the commit to the rows as they are then (`LinkRows`); a membership deleted
  before that is unlinked there as well (`Unlinked`).
* `Install`, `ToggleChannel`, `Disconnect` are the administrator's routes, and
  deleting the organisation ends the source as well (`Accounts` in
  `Workspace`). `dirty` remembers whether a job was running at the last purge.

Abstractions: the purge is one step here, as every upsert of a sync commits at
once, and covers what these tables hold; that of signals and digests is in
`DigestGeneration`, that of insights in `EveInsights`; tags and scores go with
their message; of a failed call to Slack the channel's error is kept; the names
of channels are left out; a message is posted under a Slack id, or under a name,
as personas' are. One organisation, `Home`, has the connector.

### Documents and Chunking

* `ChunkBlocks` is `chunk_blocks` as a pass over the blocks of a PDF (`Taken`,
  the state after each). Of a text only its length is kept, of a chunk the
  blocks it holds whole; `Sound` says what chunks must be without reference to
  the pass.
* `files` is the folder, `documents` the rows with their chunks, `connector`
  the connector's row, `imports` the running syncs. `StartTask` and
  `StartRequest` load the connector (as a task, or inside `POST dropbox/sync`);
  `Refresh`, `ListFolder`, `CheckFile`, `Download`, `Store`, `Finish` are
  `sync_folder`. A refreshed token is written to the connector's row and locks
  it until the sync's commit (`Locked`); storing a document is a transaction of
  its own.
* Not every file that counts as ingested is stored: one over `MAX_BYTES`
  (`Oversized`) or without text is passed over, and so is every file once the
  organisation, and with it the project, is gone (`Skip`, the field `passed`).
  `ImportWhole` says those are the only ones.
* `DeleteDocuments` and `Disconnect` are `DELETE /connectors/{id}`. The DELETE of
  the documents runs at once, that of the connector's row when the commit
  flushes it, so only the second waits for a sync that holds the row. What is
  stored in between is not deleted: the history field `late` of a document marks
  it, and `Purged` says that nothing else is ever left.
* `DeleteOrg` and `OrgDeleted` are Auth0's `organization.deleted`: one DELETE
  whose cascade waits for the connector's row (`removing = "org"`), while inserts
  of documents wait for it (`Barred`).
* `ChangeFile` and `DeleteFile` are the account's owner; a change asks for a
  sync. A file is known by its id, so a new version is not ingested again
  (`CheckFile`).

Abstractions: embeddings and the document's class are left out; the text of a
PDF begins after `extract_blocks`, which drops blocks of fewer than
`MIN_BLOCK_CHARS` (20) characters; the failure of any call is one disjunct;
which connector of several an account has is not modelled. The credentials are
left out: of a refresh the lock and its release are kept, a re-install over an
existing connector changes nothing else, and `GET dropbox/folders`, which
refreshes too, commits at once. A removal commits (one that is rolled back
changes nothing), and disconnect and end of the organisation do not overlap.

### EveInsights and InsightGate

* A text is its set of words. `IsGrounded` is the overlap test of
  `citation_verifier.py`, with its thresholds as constants; `Cited` is what an
  emitted insight ends up citing (its own sources, or defaults from the
  evidence, and a document if one was found); `Outcomes` is what the gate can
  let through, whatever the model writes (`Writings`).
* `runs` are the tasks: `StartRun` reads the recent topics, `CheckCap` counts
  today's insights, `Prose`, `ReadTools` and `Emit` are the turns of the agent
  with their limit and the one reminder, `Compare` is the similarity check,
  `Insert` the commit, `PublishCreated` the event. `Fail` publishes the failure;
  `CallFails` is a call whose retries are used up, which raises and publishes
  nothing; `Crash` is a lost worker, whose task is delivered again.
* `tabs` are the browsers: `Click`, `Settle`, `Timeout` and what
  `EveStreamListener` does with an event (`Announce`); a tab that is not
  connected misses it.
* `NewText`, `PurgeSource` (Slack: insights go) and `PurgeDocs` (Dropbox:
  insights stay) change the workspace. `began` and `dirty` are history.

Abstractions: similarity of two insights is equality of their topic; a search
returns any part of what the workspace holds; the model may emit anything of
`Writings` at any turn, or be too unsure.

## 3. The runs

Symmetry is used on slots (workers, requests, tabs, and Eve's topics) in four
runs, which check safety only. `CHECK_DEADLOCK FALSE` stands in every
configuration because the bounded system really stops once every bound is used
up and every task is done.

| run | result | distinct states | what it shows |
|---|---|---|---|
| `PipelineSafety` | pass | 1.17 million | types, `DerivedRowsBacked`, `SingleRouter`, `ClosedInThread`, and that the tables implement `PipelineContract` (`KeepsContract`) |
| `PipelineOneWorker` | pass | 109 000 | `ScoresCurrent`, `NothingForgotten`, `EventuallyProcessed`, `DecisionHonoured` with one worker that is lost twice |
| `PipelineReplay` | violation | 1 700 | two workers and one redelivery: a score of a replaced tag stays |
| `PipelineBackfill` | violation | 1 700 | the history sync's task overtakes its commit: the event is never tagged |
| `PipelineRetry` | violation | 150 | Slack's retry after a failed enqueue is answered `duplicate`: the event is never routed |
| `PipelineUpstream` | violation | 37 000 | an early reply routed late closes a signal raised from a later one |
| `DigestGeneration` | pass | 2.02 million | types, `CitesWhatExists`, `ResolutionAgesOut` |
| `DigestDashboard` | pass | 412 000 | `SettledView`, `DigestShown`, `PendingEnds` |
| `DigestOverwrite` | violation | 5 100 | a scheduled task replaces a digest stored since it looked |
| `Workspace` | pass | 917 000 | types and foreign keys, `Housed`, `OneMemberPerUid`, `RightAuthor`, `Purged`, `SyncWhole`, `LoginsSurvive`, `FlagKept` |
| `Documents` | pass | 329 000 | types, `IndexedWhole`, `ImportWhole`, `Purged`, `RowHeld`, `StoredOnce`, `SyncsAdvance`, `SyncsEnd` |
| `EveInsights` | pass | 450 000 | types, `SourcesReal`, `CapHeld`, `RepeatsExplained`, `SourcesHeld`, `AnnouncedStored` |

**Bounds.** `PipelineSafety` has a root and a reply, so that a signal can be
closed; two workers, so that any two steps of two tasks interleave; a sync
beside the webhook; two ids for one event, so that a rolled back id and its
successor coexist; and one failure of any kind. Two drafts of one signal, two
routes of one message and a route between another's read and write all occur.
`PipelineOneWorker` allows two losses, so that a redelivered task is lost
again. `ScoresCurrent` fails with two workers, which is what `PipelineReplay`
shows; `NothingForgotten` does not (`NothingIsForgotten` below).
`PipelineUpstream` needs a third message, to have two replies.
`DigestGeneration` has one member and thread, two days, two workers, a scheduled
and a forced task, each of either day, two moments, one disconnect and one
failure of three kinds (a task not sent, a task that raises, a lost worker,
whose task runs again): enough for two generations of one row to overlap with a
score, a resolution and a disconnect that begins before one of them writes and
ends before the other does, and for a task of yesterday to run today.
`DigestDashboard` has one day and worker, one disconnect, and one failure of any
of four kinds: a lost worker, an event that was not published, a request that
failed, a stream that broke.

`Workspace` has two organisations that share the default project name (as
`default_project_name`, which is set, makes them), one user who is also the
Slack author of the first message, a second message posted under another name,
and each message in a channel of its own. Two requests and two jobs run at
once: two first logins, two routes of one author, a route and a sync, or a job
and a disconnect. The instance begins empty or connected, so that three
operations (logins, webhook calls, syncs, administrator's and Auth0's calls)
are enough for, say, a sync, a removed member and a disconnect. The cap is the
number of messages, and is reached.

`Documents` has two files, one of them in three versions (no text; sections and
an overflow; blocks longer than a chunk after an overlap), the other in two, one
of which is too large; two syncs and three operations: a file that changes under
two syncs, one of which holds the row's lock, or a disconnect or the end of the
organisation while a sync is at any of its steps, with documents stored too late
for the disconnect. `TargetChars` and `OverlapChars` are the values of the code.

`EveInsights` has a message and a document; the model writes no source, or
three at once: one close enough to the message, one too short, one made up. Two
workers and tabs, a cap of one, one recent insight compared, three turns (so
that an answer can be read, be prose and be the last), two days and three
operations, an operation being a click, a new text, a purge or a crash. Cap and
comparison are both passed by two overlapping runs.

`MaxDeliveries`, `MaxRows`, `MaxTime`, `MaxScans`, `MaxRequests`, `MaxPurges`,
`MaxFaults`, `MaxOps` and `MaxDays` are the only bounds besides the numbers of slots; every
one is a guard. The instances' `Drafts` are the boldest draft, which cites every
thread, given to the model or not; of `DigestDashboard`, whose properties do not
look at what is cited, the one that cites every signal.

**Fairness.** `MessagePipeline`: a webhook call returns, an open history sync
goes on, and a worker keeps taking and finishing tasks (weak fairness; a busy
slot is never blocked by another slot, and a row lock is released by a step
that is itself fair). Nothing obliges Slack to deliver, anyone to start a sync,
or anything to fail; with finitely many failures the broker hands every task
out. `DigestDashboard`: workers work, a committed resolution is announced, a
browser's request ends, its timer fires and its connected stream is read. No
one is obliged to click, to score, to resolve or to let a day pass.
`Documents`: a running sync goes on. A sync that waits for a row's lock is
disabled until the holder's commit, which is a step of the holder's own, so
weak fairness of each sync suffices, syncs being finitely many; Postgres resumes
the organisation's deletion when the row it waits for is free. The one exception
`SyncsEnd` names (`Stuck`): a sync that holds the row may wait, with an insert,
for a deletion that waits for that row (section 5). `Workspace` and
`EveInsights` state no fairness and no liveness. The assumptions are what
uvicorn, Celery and a browser's event loop give; a task that hangs for ever in
a model call is outside of them (the client library gives up after some
minutes, and the code then falls back or fails).

**Mutations.** For every property of a passing run `mutants` names one mistake
in one definition, such as acknowledging early, dropping the citation filter,
forgetting the memberships in a purge or losing the text that overflows a
chunk, and the run finds the property violated.

## 4. What is proved

For every set of messages, threads, kinds, members, days, workers, syncs,
requests, organisations, users, files, tabs, texts and every bound. The
assumptions, each named in the module that declares the constants:
`ThreadAssumption` (a reply's parent is an earlier root, as Slack's `thread_ts`
is), `NullAssumption`, `LinkAssumption`, `NoneAssumption` and parts of others
(NULL is no event, row, link or document), `BoundAssumption` and
`DigestAssumption` (bounds are numbers, the day set holds day 0),
`DaysAssumption` (of several days one is the latest), `WorkspaceAssumption` and
`SourceAssumption` (messages have a channel and an author, users and Slack ids a
name, and nobody's name is the Slack id of another), `ChunkingAssumption` (what
`chunk_blocks` refuses),
`DocumentsAssumption`, `GateAssumption` and `EveAssumption` (thresholds and caps
are numbers, a text has finitely many words, workers are finitely many).

| theorem | property |
|---|---|
| `TypeCorrect`, `DigestTypeCorrect`, `DashTypeCorrect`, `WorkspaceTypeCorrect`, `DocumentsTypeCorrect`, `EveTypeCorrect` | the type invariants of the six specifications |
| `RowsBacked` | `DerivedRowsBacked` |
| `ResolutionStaysInThread` | `ClosedInThread` |
| `OneRouter` | `SingleRouter` |
| `ImplementsContract` | `KeepsContract`: the refinement of `PipelineContract` |
| `NothingIsForgotten` | `NothingForgotten`, for any number of workers, with no backfill and no failure but a worker's loss |
| `OneDecision` | no tag is replaced and every score is that of the stored tag, for any number of workers, with a backfill and any failure but a worker's loss |
| `OneWorkerScores` | `ScoresCurrent`, with one worker, no backfill and no failure but the worker's loss |
| `DigestCitesWhatExists` | `CitesWhatExists` |
| `DigestAgesOut` | `ResolutionAgesOut` |
| `DashSettled` | `SettledView` |
| `DashCites` | `CitesWhatExists` and `ResolutionAgesOut` beside the dashboards |
| `WorkspaceHoused`, `WorkspaceOneMemberPerUid` | `Housed`, `OneMemberPerUid` |
| `WorkspaceRightAuthor` | `RightAuthor` |
| `WorkspacePurged`, `WorkspaceSyncWhole` | `Purged`, `SyncWhole` |
| `WorkspaceLoginsSurvive`, `WorkspaceFlagKept` | `LoginsSurvive`, `FlagKept` |
| `DocumentsImportWhole`, `DocumentsPurged`, `DocumentsStoredOnce` | `ImportWhole`, `Purged`, `StoredOnce` |
| `DocumentsRowHeld`, `DocumentsSyncsAdvance` | `RowHeld`, `SyncsAdvance` |
| `ChunkBlocksSound`, `ChunksWhenText` | what `ChunkBlocks` answers for any blocks is `Sound`, and empty only if there is no text |
| `DocumentsIndexedWhole` | `IndexedWhole` |
| `EveSourcesReal`, `EveSourcesHeld` | `SourcesReal`, `SourcesHeld` |
| `EveCapHeld`, `EveRepeatsExplained` | `CapHeld`, `RepeatsExplained` |
| `EveAnnouncedStored` | `AnnouncedStored` |

The arguments:

* **Types.** `TypeOK` alone is not inductive: a slot's fields are used as those
  of a task. `SlotsHold` adds that a busy slot holds a task.
* **`RowsBacked`.** A build or score task acts on a tag it does not check, so
  the invariant `Backed` follows the tag to every place the task can be: in the
  broker (`QueueBacked`), and in a slot at each phase (`SlotBacked`). The
  tables only grow (`RowsStay`, `SignalsStay`), so what backed a task still
  does.
* **`ResolutionStaysInThread`.** What a route judges was read in its message's
  thread; links are written once and only to the right root (`LinksRight`,
  `LinksStay`), so the thread a signal was read in is the thread it is in when
  the status is written (`Threaded`).
* **`OneRouter`.** Each route task exists once: in the broker, in one slot, or
  still in a webhook call (`Once`, `HooksAlone`); the unique key and the row
  lock make the transaction that inserts a raw event the only one
  (`InsertsAlone`), and ids not handed out yet are in no task (`IdsFresh`). A
  redelivery moves the task, it does not copy it.
* **`ImplementsContract`.** Each message's stage is read off its rows. With
  `Threaded`, every action is one step of the contract or changes nothing it
  can see; a lost insert and a repeated commit are stutters.
* **Which failures matter.** The next three are about `MessagePipeline` with
  part of its failures, and share `Routed`: a slot past the lookup routes the
  raw event that is stored, and past the commit it holds the stored tag.
* **`NothingIsForgotten`.** `Owed` says where what an event lacks is still to
  be done: not tagged, its route is to be enqueued, waits or runs; without a
  score or a decided signal, so is that task, or the route that has not sent
  it yet. A task is somewhere until it is finished, and a loss puts it back in
  the broker (`Alive`, `AliveStep`); a route never ends for want of its raw
  event, because the webhook commits that before it sends the task
  (`RawAppears`). This is the safety half of `EventuallyProcessed` and
  `DecisionHonoured`; fairness does the rest.
* **`OneDecision`.** If no worker is lost, the task that wrote a tag was taken
  once and no other will come (`Written`), so the tag stays and a score task
  cannot hold an old one. A backfill, a refused send and a task that raises do
  not disturb that: the stale scores of `PipelineReplay` come of redelivery.
* **`OneWorkerScores`.** `OneInv` says of every message that its score is that
  of its tag, or a route or score task of it waits or runs (`Settling`); that a
  score is computed from the stored tag (`ReadCurrent`), because the only worker
  cannot route meanwhile; and that a route finds its raw event (`Routable`),
  because without a backfill the event is committed before its task is sent.
* **Digests.** `GInv` states of what a slot holds and of what a row holds the
  same thing (`Grounded`): all of it exists and none of it was resolved before
  the generation began. `MovesGrounded` shows that the tables growing and time
  passing keeps that, and `StepMoves` that every action moves the state only
  so; the write then copies a grounded slot into a row, cut down by the filter. A
  disconnect does not keep that, so *exists* is relative: a slot or row a
  disconnect has overtaken may also hold what is in `gone`. `PurgeGrounded` shows
  the commit to be that kind of move, since everything it deletes enters `gone`
  and every slot that has read falls behind (`era`).
* **Dashboards.** `DInv` adds to `GInv` that, as long as nothing failed, every
  dashboard is fresh, or its request has read the row that is stored now, or a
  refetch is due: an event it has not handled, or one a task or a resolution
  still has to publish (`Kept`). A step that changes what is stored is followed
  by its event, so it falls into the last case. The disconnect is followed by
  none: `SettledView`, and with it `Kept`, speaks of dashboards that have read
  since the last one.
* **Workspace.** `Inv` is types, foreign keys and row ids that only grow
  (`Tables`, `ForeignKeys`, `Ids`), what each request knows (`RequestFit`: past
  its project's step the project exists, if the organisation's row is the one it
  loaded), what each job knows (`Fit`, with `Fetched`: below its cap a sync has
  stored what it went through) and that what a transaction inserted is
  nobody else's (`MadeApart`). `Quiet` is what makes `Purged` inductive: with
  nothing running at the purge, nothing can start until the next install. Each
  action of a job is shown to be one kind of move (`Moves`), and moves keep the
  invariant.
* **`RightAuthor`.** A second invariant, `Right`, on top of `Inv`: a membership
  Slack brought has a name its id is known by (`RightName`), and what a stored
  message (`RightRows`) or a link still to be committed (`RightJob`) credits is
  a membership of the author's id or name, there or in the job's own
  transaction, or none. The model knows a membership by its `sub`, which may be
  deleted and come back: links survive that only because a deletion unlinks
  what is in flight too (`Unlinked`), as the foreign key of the row does once
  the transaction it waits for has committed.
* **Documents.** The same shape: `Kept` says of each sync that what it is
  through with is stored, while the connector it loaded is still there; `Rows`
  says ids are new, so a sync never mistakes a later connector for its own;
  what it counted without storing is `Barren`, because the organisation goes only
  with its connectors. `Left` makes `Purged` inductive: a document that is not
  late was there when the removal looked for documents, or no removal is open,
  and then it is gone with the connector (`RemovalInv`). `RowHeld` is inductive with it: who would write the row waits (`Locked`).
  `SyncsAdvance` ranks what a sync has left lexicographically (its phase, the
  files to do, the step on the one in hand). Together they are the safety half
  of `SyncsEnd`: the holder never waits, and no sync steps for ever.
* **Chunking.** An induction over the blocks of a document, of which the prover
  has no theorem it can use; instead a set of naturals that holds 0 and every
  successor is shown to be all of them (`SetInduction`, by the least one
  missing), and each induction is about the set of positions its claim holds
  at. So the pass is the function its recursive definition says (`TakenStep`),
  and keeps `Reached`: the chunks emitted are whole and in order, the buffer
  holds the last blocks under their heading, and every text block before those
  is in a chunk (`PassReaches`). `IndexedWhole` follows: a stored document's
  chunks are those of its blocks, whichever sync stored it.
* **Eve.** `Fit` says of each run what it has compared with (`Compared`) and
  that what it holds passed the gate (`Accepted`); the insert turns both into
  facts of the row. `CapHeld` needs a count: `Capacity` bounds today's insights
  together with the runs past the cap, and an insert moves one from the second
  number to the first.

Only model-checked: liveness (`EventuallyProcessed`, `DecisionHonoured`,
`DigestShown`, `PendingEnds`, `SyncsEnd`), which needs fairness and `ENABLED`,
beyond the prover. Every invariant and every action property that a passing run
checks is also a theorem. `OneWorkerScores` and `NothingIsForgotten` have a
hypothesis on the failures, which their run `PipelineOneWorker` meets, and which
is needed: `PipelineReplay` shows that of the single worker, `PipelineBackfill`
that of no backfill, `PipelineRetry` that of no failure but a loss. `DashSettled`
is about the time before the first failure, as `SettledView` itself is.

## 5. Where code and documents disagree

The first five are a run each; quotes and lines are in `findings`.

1. **A backfilled message can be stored and never routed** (`PipelineBackfill`).
   The task is sent inside the transaction that stores the raw event; a worker
   that is quicker than the commit finds nothing.
2. **A webhook retry does not repair a lost enqueue** (`PipelineRetry`).
3. **A replay can leave an old score** (`PipelineReplay`).
4. **Resolution is not limited to signals upstream** (`PipelineUpstream`).
5. **A second generation of a day is not a no-op** (`DigestOverwrite`): it
   replaces the row if it looked before the first one was stored.

Met on the way, visible in the models and without a run of their own:

* `projects.name` is unique in the whole deployment and
  `default_project_name` is set, so a second organisation's project is refused,
  and the request that tried it is answered with an error (`InsertProject`).
  The docstring of `_ensure_default_project` (`auth/deps.py`) says "Every org
  needs exactly one project"; `Housed` therefore says *at most* one, and one for
  whoever is let in.
* The channel's switch (`connector_channels.ingest`) is kept by every sync
  (`FlagKept`) and read by none: a channel that is off is fetched as well.
* A changed PDF is never ingested again (`CheckFile`), though the module
  docstring of `jobs/tasks/sync_dropbox.py` speaks of its revision.
* A disconnect of Slack does not wait for the digest tasks: one that had read
  before it stores a digest that cites rows which are gone, and no foreign key
  is there to refuse it (`CitesWhatExists`, `crossed`).
* It publishes nothing, and `sources-card.tsx`, which asks for it, invalidates
  the members and refreshes the page: a dashboard shows the deleted digest until
  its next refetch (`SettledView` and `DigestShown` leave that out, `era`).
* A disconnect of Dropbox leaves the documents a running sync stores between its
  two DELETEs (`Purged`, `late`).
* A sync counts files as ingested that it did not store: too large, without
  text, without a project (`passed`).
* The deletion of an organisation and a sync that refreshed its token may wait
  for each other: the deletion for the connector's row, the sync's insert for
  the organisation's. The lock and the insert are two transactions of the
  sync, so Postgres sees no cycle to break, and no lock timeout is set
  (`Stuck`).
* A lookup of the author by name takes a membership whose name agrees, so two
  people of one name are one author: `RightAuthor` says "or one of the author's
  name" for that reason.

## 6. What is not modelled

* The language model's answers, prompts and parsing, the ranking of the
  retrieval, and the agent's read tools beyond what they may find: external or
  read-only. Retries inside the clients have no state that outlives a call.
* The relevance score, a clamped weighted sum of numbers in [0, 1], and the
  timeline, a projection of the current day on a fixed list of phases: pure
  functions of what is stored, in floating point, with nothing beside them.
* Row-level security, which Postgres enforces and the code only names; token
  verification and its key cache, the OAuth state cookie, the credentials of the
  connectors and their encryption: library calls with one outcome that matters here.
* Edits of profiles and of the project's settings, listings, and presentation:
  one statement each, which no task reads back to decide on.
* Slack's page tokens and rate limits; the limits of 20 items of a digest;
  evidence rows of signals; embeddings and the class of a document.
* `rag/indexer.py`, the document repository and the document task of
  `ingestion/`, which nothing in `src/` calls, and the demo scripts.
* A second delivery while the first still runs (Redis' visibility timeout, one
  hour, against tasks of seconds), and read replicas or isolation levels other
  than read committed, of which the code has none.
