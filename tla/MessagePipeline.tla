--------------------------- MODULE MessagePipeline ---------------------------
(***************************************************************************)
(* The path a Slack message takes through EverCurrent: the events webhook  *)
(* and the history backfill persist a raw event and send a route task; a   *)
(* Celery worker routes it (store, classify, tag, resolve the thread's     *)
(* open signals, enqueue the follow-ups); further tasks draft the signal   *)
(* and compute the scores.                                                 *)
(*                                                                         *)
(* One variable per table, one record per worker slot.  An action is one   *)
(* committed transaction, or one read that the code later acts upon.  The  *)
(* workspace stays connected: no row is deleted here.                      *)
(***************************************************************************)
EXTENDS Naturals, FiniteSets

CONSTANTS
    Events,         \* the Slack messages, numbered in the order of their ts
    ParentOf,       \* thread_ts of a message: its thread's root, or None
    Kinds,          \* signal kinds the classifier may ask for
    NoSignal,       \* the decision that asks for no signal
    None,           \* SQL NULL, and "no row"
    Workers,        \* Celery slots, each running one task at a time
    Syncs,          \* concurrent runs of sync_slack_connector
    MaxDeliveries,  \* BOUND: times Slack delivers one event to the webhook
    MaxRows,        \* BOUND: raw_events ids generated for one event
    Faults,         \* the kinds of failure this instance includes
    MaxFaults       \* BOUND: failures in one behaviour

Decisions == Kinds \cup {NoSignal}
SignalKeys == Events \X Kinds      \* unique (triggering_message_id, kind)

ASSUME ThreadAssumption ==
    /\ Events \subseteq Nat
    /\ ParentOf \in [Events -> Events \cup {None}]
    /\ \A e \in Events : ParentOf[e] # None =>
          ParentOf[e] < e /\ ParentOf[ParentOf[e]] = None
ASSUME NullAssumption ==
    None \notin Events \cup Decisions \cup Nat /\ NoSignal \notin Kinds
ASSUME BoundAssumption ==
    /\ MaxDeliveries \in Nat /\ MaxRows \in Nat /\ MaxFaults \in Nat
    /\ Faults \subseteq {"enqueue", "fail", "lost", "sync"}

VARIABLES
    rawId,       \* raw_events: id of the committed row of an event, 0 if none
    lastId,      \* the last id generated for a raw_events row of an event
    messages,    \* messages: the committed rows
    threadRoot,  \* messages.thread_root_id
    tags,        \* message_tags: the decision last written, or None
    signals,     \* signals.status, "none" where there is no row
    closedBy,    \* signals.resolving_message_id
    scores,      \* scores: the decision the stored score was computed from
    queue,       \* the broker: copies of each task waiting for a worker
    jobs,        \* what each worker slot is running
    hook,        \* events whose webhook call committed and has not enqueued
    deliveries,  \* webhook calls made so far for each event
    sync,        \* the open transaction of each backfill
    faults       \* failures so far

tables == <<rawId, lastId, messages, threadRoot, tags, signals, closedBy, scores>>
webhook == <<hook, deliveries>>
vars == <<tables, queue, jobs, webhook, sync, faults>>

-----------------------------------------------------------------------------
\* Tasks and jobs.

RouteTask(e, i) == [kind |-> "route", msg |-> e, raw |-> i]
BuildTask(e, k) == [kind |-> "build", msg |-> e, sig |-> k]
ScoreTask(e) == [kind |-> "score", msg |-> e]

RouteTasks == [kind : {"route"}, msg : Events, raw : 1..MaxRows]
BuildTasks == [kind : {"build"}, msg : Events, sig : Kinds]
ScoreTasks == [kind : {"score"}, msg : Events]
Tasks == RouteTasks \cup BuildTasks \cup ScoreTasks

Send(sent) == queue' = [t \in Tasks |-> IF t \in sent THEN queue[t] + 1 ELSE queue[t]]

\* A slot: its task, how far it got, and what it has read on the way.
Phases == {"idle", "start", "classify", "resolve", "judge", "enqueue", "draft",
           "compute", "done"}
Job == [task : Tasks \cup {None}, phase : Phases, parent : Events \cup {None},
        read : Decisions \cup {None}, open : SUBSET SignalKeys]
NoJob == [task |-> None, phase |-> "idle", parent |-> None, read |-> None, open |-> {}]

\* Slot w is running a task of this kind and has reached this phase.
At(w, kind, phase) == jobs[w].phase = phase /\ jobs[w].task.kind = kind
Msg(w) == jobs[w].task.msg
Advance(w, phase) == jobs' = [jobs EXCEPT ![w].phase = phase]
Remember(w, phase, parent, read, open) ==
    jobs' = [jobs EXCEPT ![w] = [task |-> jobs[w].task, phase |-> phase, parent |-> parent,
                                 read |-> read, open |-> open]]
Free(w) == jobs' = [jobs EXCEPT ![w] = NoJob]

Fault(kind) == kind \in Faults /\ faults < MaxFaults /\ faults' = faults + 1

\* Row locks: an insert waits for the uncommitted insert of the same key.
RawRowLocked(e) == \E s \in Syncs : sync[s].event = e /\ sync[s].raw # 0
MessageRowLocked(e) == \E w \in Workers : At(w, "route", "classify") /\ Msg(w) = e

\* The UPDATE ... FROM messages parent: no parent row, no update.
Linked(e) == IF ParentOf[e] \in messages
               THEN [threadRoot EXCEPT ![e] = ParentOf[e]] ELSE threadRoot

\* A backfill transaction: its event, the raw row it inserted (0 if none), and
\* the message it goes on to store.
NoTxn == [event |-> None, raw |-> 0, stores |-> {}]

Init ==
    /\ rawId = [e \in Events |-> 0]
    /\ lastId = [e \in Events |-> 0]
    /\ messages = {}
    /\ threadRoot = [e \in Events |-> None]
    /\ tags = [e \in Events |-> None]
    /\ signals = [s \in SignalKeys |-> "none"]
    /\ closedBy = [s \in SignalKeys |-> None]
    /\ scores = [e \in Events |-> None]
    /\ queue = [t \in Tasks |-> 0]
    /\ jobs = [w \in Workers |-> NoJob]
    /\ hook = {}
    /\ deliveries = [e \in Events |-> 0]
    /\ sync = [s \in Syncs |-> NoTxn]
    /\ faults = 0

-----------------------------------------------------------------------------
\* Variants of operators defined below, each with a mistake a change to the
\* code could make.  No specification uses them: the mutation runs do.

\* A task is handed over that the broker does not hold.
DeliverUnheld(w, t) ==
    /\ jobs[w] = NoJob
    /\ queue' = [queue EXCEPT ![t] = @ - 1]
    /\ jobs' = [jobs EXCEPT ![w] = [NoJob EXCEPT !.task = t, !.phase = "start"]]
    /\ UNCHANGED <<tables, webhook, sync, faults>>

\* The fallback decision is not stored, and the route goes on.
RouteCommitUntagged(w, d) ==
    LET e == Msg(w) IN
    /\ At(w, "route", "classify")
    /\ messages' = messages \cup {e}
    /\ threadRoot' = IF jobs[w].parent = None THEN threadRoot
                     ELSE [threadRoot EXCEPT ![e] = jobs[w].parent]
    /\ tags' = tags
    /\ Remember(w, "resolve", None, d, {})
    /\ UNCHANGED <<rawId, lastId, signals, closedBy, scores, queue, webhook, sync, faults>>

\* The backfill sends the route task of an event it finds stored.
SyncPersistRawResend(s, e) ==
    /\ sync[s] = NoTxn /\ ~RawRowLocked(e)
    /\ ParentOf[e] # None => ParentOf[e] \in messages
    /\ rawId[e] # 0
    /\ sync' = [sync EXCEPT ![s] = [event |-> e, raw |-> 0, stores |-> {e}]]
    /\ Send({RouteTask(e, rawId[e])})
    /\ UNCHANGED <<tables, jobs, webhook, faults>>

\* The thread lookup does not ask whether the message is a reply at all.
OpenInAnyThread(root) ==
    {s \in SignalKeys : signals[s] = "open" /\ (s[1] = root \/ threadRoot[s[1]] = root)}

\* The lost insert is turned into an update of the existing row.
BuildInsertUpsert(w) ==
    /\ At(w, "build", "draft")
    /\ signals' = [signals EXCEPT ![<<Msg(w), jobs[w].task.sig>>] = "open"]
    /\ Advance(w, "done")
    /\ UNCHANGED <<rawId, lastId, messages, threadRoot, tags, closedBy, scores,
                   queue, webhook, sync, faults>>

\* A task is acknowledged when it is taken: a lost worker loses it.
WorkerLostEarlyAck(w) ==
    /\ jobs[w] # NoJob /\ Fault("lost")
    /\ Free(w)
    /\ UNCHANGED <<tables, queue, webhook, sync>>

\* A route that closed a signal returns before the follow-ups.
ResolveCommitReturns(w, closed) ==
    /\ At(w, "route", "judge") /\ closed \subseteq jobs[w].open
    /\ signals' = [s \in SignalKeys |-> IF s \in closed THEN "resolved" ELSE signals[s]]
    /\ closedBy' = [s \in SignalKeys |-> IF s \in closed THEN Msg(w) ELSE closedBy[s]]
    /\ Advance(w, IF closed = {} THEN "enqueue" ELSE "done")
    /\ UNCHANGED <<rawId, lastId, messages, threadRoot, tags, scores,
                   queue, webhook, sync, faults>>

\* A message that is tagged is not routed again.
RouteUpsertOnce(w) ==
    /\ At(w, "route", "start") /\ rawId[Msg(w)] = jobs[w].task.raw
    /\ IF tags[Msg(w)] # None THEN Advance(w, "done")
       ELSE Remember(w, "classify",
                     IF ParentOf[Msg(w)] \in messages THEN ParentOf[Msg(w)] ELSE None, None, {})
    /\ UNCHANGED <<tables, queue, webhook, sync, faults>>

\* Only messages that raise no signal are scored.
FollowupsEither(w) ==
    IF jobs[w].read \in Kinds THEN {BuildTask(Msg(w), jobs[w].read)} ELSE {ScoreTask(Msg(w))}

-----------------------------------------------------------------------------
\* The events webhook (handle_event).

\* Slack delivers e for the first time: the row is inserted and committed.
WebhookPersist(e) ==
    /\ deliveries[e] < MaxDeliveries /\ ~RawRowLocked(e)
    /\ rawId[e] = 0 /\ lastId[e] < MaxRows
    /\ deliveries' = [deliveries EXCEPT ![e] = @ + 1]
    /\ rawId' = [rawId EXCEPT ![e] = lastId[e] + 1]
    /\ lastId' = [lastId EXCEPT ![e] = @ + 1]
    /\ hook' = hook \cup {e}
    /\ UNCHANGED <<messages, threadRoot, tags, signals, closedBy, scores,
                   queue, jobs, sync, faults>>

\* A delivery whose event is already stored inserts nothing and stops.
WebhookDuplicate(e) ==
    /\ deliveries[e] < MaxDeliveries /\ ~RawRowLocked(e)
    /\ rawId[e] # 0
    /\ deliveries' = [deliveries EXCEPT ![e] = @ + 1]
    /\ UNCHANGED <<tables, queue, jobs, hook, sync, faults>>

WebhookEnqueue(e) ==
    /\ e \in hook
    /\ Send({RouteTask(e, rawId[e])})
    /\ hook' = hook \ {e}
    /\ UNCHANGED <<tables, jobs, deliveries, sync, faults>>

\* The broker refuses the task and the error is only logged, or the API
\* process dies between the commit and the send.
WebhookEnqueueLost(e) ==
    /\ e \in hook /\ Fault("enqueue")
    /\ hook' = hook \ {e}
    /\ UNCHANGED <<tables, queue, jobs, deliveries, sync>>

-----------------------------------------------------------------------------
\* The history backfill (_persist_one, called for a root before its replies).

\* The raw event is inserted but not committed; if it is new, its route task
\* is sent from inside the transaction.
SyncPersistRaw(s, e) ==
    /\ sync[s] = NoTxn /\ ~RawRowLocked(e)
    /\ ParentOf[e] # None => ParentOf[e] \in messages
    /\ IF rawId[e] # 0
         THEN /\ sync' = [sync EXCEPT ![s] = [event |-> e, raw |-> 0, stores |-> {e}]]
              /\ UNCHANGED <<lastId, queue>>
         ELSE /\ lastId[e] < MaxRows
              /\ lastId' = [lastId EXCEPT ![e] = @ + 1]
              /\ sync' = [sync EXCEPT ![s] = [event |-> e, raw |-> lastId[e] + 1, stores |-> {e}]]
              /\ Send({RouteTask(e, lastId[e] + 1)})
    /\ UNCHANGED <<rawId, messages, threadRoot, tags, signals, closedBy, scores,
                   jobs, webhook, faults>>

\* The broker refuses the task.  The error ends the channel, not the session:
\* the next commit of the run keeps the raw event, without task or message.
SyncSendRefused(s, e) ==
    /\ sync[s] = NoTxn /\ ~RawRowLocked(e)
    /\ ParentOf[e] # None => ParentOf[e] \in messages
    /\ rawId[e] = 0 /\ lastId[e] < MaxRows /\ Fault("enqueue")
    /\ lastId' = [lastId EXCEPT ![e] = @ + 1]
    /\ sync' = [sync EXCEPT ![s] = [event |-> e, raw |-> lastId[e] + 1, stores |-> {}]]
    /\ UNCHANGED <<rawId, messages, threadRoot, tags, signals, closedBy, scores,
                   queue, jobs, webhook>>

\* The message is stored, linked to its parent, and everything is committed.
SyncCommit(s) ==
    LET e == sync[s].event IN
    /\ e # None /\ (sync[s].stores # {} => ~MessageRowLocked(e))
    /\ rawId' = IF sync[s].raw = 0 THEN rawId ELSE [rawId EXCEPT ![e] = sync[s].raw]
    /\ messages' = messages \cup sync[s].stores
    /\ threadRoot' = IF sync[s].stores = {} THEN threadRoot ELSE Linked(e)
    /\ sync' = [sync EXCEPT ![s] = NoTxn]
    /\ UNCHANGED <<lastId, tags, signals, closedBy, scores, queue, jobs, webhook, faults>>

\* The transaction is rolled back; a task it sent stays in the broker.
SyncAbort(s) ==
    /\ sync[s] # NoTxn /\ Fault("sync")
    /\ sync' = [sync EXCEPT ![s] = NoTxn]
    /\ UNCHANGED <<tables, queue, jobs, webhook>>

-----------------------------------------------------------------------------
\* The broker and the workers (acks_late: a task is held until it ends).

\* The tasks a route sends once its decision is stored.
Followups(w) == {ScoreTask(Msg(w))} \cup {BuildTask(Msg(w), k) : k \in {jobs[w].read} \cap Kinds}

Deliver(w, t) ==
    /\ jobs[w] = NoJob /\ queue[t] > 0
    /\ queue' = [queue EXCEPT ![t] = @ - 1]
    /\ jobs' = [jobs EXCEPT ![w] = [NoJob EXCEPT !.task = t, !.phase = "start"]]
    /\ UNCHANGED <<tables, webhook, sync, faults>>

Ack(w) ==
    /\ jobs[w].phase = "done"
    /\ Free(w)
    /\ UNCHANGED <<tables, queue, webhook, sync, faults>>

\* The task raises, or its process is killed: Celery acknowledges it all the
\* same and, no task asking for a retry, it is gone.
TaskFails(w) ==
    /\ jobs[w] # NoJob /\ jobs[w].phase # "done" /\ Fault("fail")
    /\ Free(w)
    /\ UNCHANGED <<tables, queue, webhook, sync>>

\* The worker's node is lost, perhaps between two follow-ups: its
\* unacknowledged task is delivered again.
WorkerLost(w) ==
    /\ jobs[w] # NoJob /\ Fault("lost")
    /\ \E sent \in SUBSET (IF At(w, "route", "enqueue") THEN Followups(w) ELSE {}) :
          Send({jobs[w].task} \cup sent)
    /\ Free(w)
    /\ UNCHANGED <<tables, webhook, sync>>

-----------------------------------------------------------------------------
\* route_message.

\* load_raw_event finds no row (never committed, or not yet): status "missing".
RouteMissing(w) ==
    /\ At(w, "route", "start") /\ rawId[Msg(w)] # jobs[w].task.raw
    /\ Advance(w, "done")
    /\ UNCHANGED <<tables, queue, webhook, sync, faults>>

\* upsert_message, inside the transaction: whether the parent row is there is
\* decided now, the commit comes after the classifier's answer.
RouteUpsert(w) ==
    /\ At(w, "route", "start") /\ rawId[Msg(w)] = jobs[w].task.raw
    /\ Remember(w, "classify", IF ParentOf[Msg(w)] \in messages THEN ParentOf[Msg(w)] ELSE None,
                None, {})
    /\ UNCHANGED <<tables, queue, webhook, sync, faults>>

\* The classifier decides d (NoSignal is also its fallback on an error) and
\* the message, its link and its tag are committed. (A tag that conflicts, which
\* takes rows a disconnect deleted, is given up and the task goes on; no
\* disconnect is modelled here.)
RouteCommit(w, d) ==
    LET e == Msg(w) IN
    /\ At(w, "route", "classify")
    /\ messages' = messages \cup {e}
    /\ threadRoot' = IF jobs[w].parent = None THEN threadRoot
                     ELSE [threadRoot EXCEPT ![e] = jobs[w].parent]
    /\ tags' = [tags EXCEPT ![e] = d]
    /\ Remember(w, "resolve", None, d, {})
    /\ UNCHANGED <<rawId, lastId, signals, closedBy, scores, queue, webhook, sync, faults>>

\* open_signals_in_thread, for a message that is a reply.
OpenInThread(root) ==
    {s \in SignalKeys : /\ root # None /\ signals[s] = "open"
                        /\ s[1] = root \/ threadRoot[s[1]] = root}

ResolveRead(w) ==
    /\ At(w, "route", "resolve")
    /\ Remember(w, "judge", None, jobs[w].read, OpenInThread(threadRoot[Msg(w)]))
    /\ UNCHANGED <<tables, queue, webhook, sync, faults>>

\* The model judges each of them; set_status writes by id, whatever the status
\* has become meanwhile.
ResolveCommit(w, closed) ==
    /\ At(w, "route", "judge") /\ closed \subseteq jobs[w].open
    /\ signals' = [s \in SignalKeys |-> IF s \in closed THEN "resolved" ELSE signals[s]]
    /\ closedBy' = [s \in SignalKeys |-> IF s \in closed THEN Msg(w) ELSE closedBy[s]]
    /\ Advance(w, "enqueue")
    /\ UNCHANGED <<rawId, lastId, messages, threadRoot, tags, scores,
                   queue, webhook, sync, faults>>

EnqueueFollowups(w) ==
    /\ At(w, "route", "enqueue")
    /\ Send(Followups(w))
    /\ Advance(w, "done")
    /\ UNCHANGED <<tables, webhook, sync, faults>>

\* A follow-up the broker refuses is logged and forgotten.
EnqueueFollowupsLost(w) ==
    /\ At(w, "route", "enqueue") /\ Fault("enqueue")
    /\ \E sent \in SUBSET Followups(w) : Send(sent)
    /\ Advance(w, "done")
    /\ UNCHANGED <<tables, webhook, sync>>

-----------------------------------------------------------------------------
\* build_signal and score_message_for_members.

SignalOf(w) == <<Msg(w), jobs[w].task.sig>>

\* get_existing_signal: an existing row ends the task, else the model drafts.
BuildStart(w) ==
    /\ At(w, "build", "start")
    /\ Advance(w, IF signals[SignalOf(w)] = "none" THEN "draft" ELSE "done")
    /\ UNCHANGED <<tables, queue, webhook, sync, faults>>

\* insert_signal; the unique index turns a lost race into the existing row.
BuildInsert(w) ==
    /\ At(w, "build", "draft")
    /\ signals' = [signals EXCEPT ![SignalOf(w)] = IF @ = "none" THEN "open" ELSE @]
    /\ Advance(w, "done")
    /\ UNCHANGED <<rawId, lastId, messages, threadRoot, tags, closedBy, scores,
                   queue, webhook, sync, faults>>

\* (The code's early return for an untagged message is unreachable here, see
\* DerivedRowsBacked, and so is the one for an organization without members:
\* it has some.)
ScoreRead(w) ==
    /\ At(w, "score", "start")
    /\ Remember(w, "compute", None, tags[Msg(w)], {})
    /\ UNCHANGED <<tables, queue, webhook, sync, faults>>

ScoreCommit(w) ==
    /\ At(w, "score", "compute")
    /\ scores' = [scores EXCEPT ![Msg(w)] = jobs[w].read]
    /\ Advance(w, "done")
    /\ UNCHANGED <<rawId, lastId, messages, threadRoot, tags, signals, closedBy,
                   queue, webhook, sync, faults>>

-----------------------------------------------------------------------------
RouteStep(w) ==
    \/ RouteMissing(w) \/ RouteUpsert(w) \/ ResolveRead(w) \/ EnqueueFollowups(w)
    \/ \E d \in Decisions : RouteCommit(w, d)
    \/ \E closed \in SUBSET jobs[w].open : ResolveCommit(w, closed)

WorkerStep(w) ==
    \/ \E t \in Tasks : Deliver(w, t)
    \/ RouteStep(w)
    \/ BuildStart(w) \/ BuildInsert(w) \/ ScoreRead(w) \/ ScoreCommit(w)
    \/ Ack(w)

Failure ==
    \/ \E e \in Events : WebhookEnqueueLost(e)
    \/ \E s \in Syncs : SyncAbort(s) \/ \E e \in Events : SyncSendRefused(s, e)
    \/ \E w \in Workers : TaskFails(w) \/ WorkerLost(w) \/ EnqueueFollowupsLost(w)

Next ==
    \/ \E e \in Events : WebhookPersist(e) \/ WebhookDuplicate(e) \/ WebhookEnqueue(e)
    \/ \E s \in Syncs : SyncCommit(s) \/ \E e \in Events : SyncPersistRaw(s, e)
    \/ \E w \in Workers : WorkerStep(w)
    \/ Failure

Spec == Init /\ [][Next]_vars

\* The processes that run keep running: a webhook call returns, an open
\* backfill transaction ends, a worker takes tasks and finishes them.  Slack
\* need not deliver, no one need start a sync, and nothing has to fail.
Fairness ==
    /\ \A e \in Events : WF_vars(WebhookEnqueue(e))
    /\ \A s \in Syncs : WF_vars(SyncCommit(s))
    /\ \A w \in Workers : WF_vars(WorkerStep(w))

FairSpec == Spec /\ Fairness
-----------------------------------------------------------------------------
\* What the pipeline keeps true.

TypeOK ==
    /\ rawId \in [Events -> 0..MaxRows] /\ lastId \in [Events -> 0..MaxRows]
    /\ messages \subseteq Events
    /\ threadRoot \in [Events -> Events \cup {None}]
    /\ tags \in [Events -> Decisions \cup {None}]
    /\ signals \in [SignalKeys -> {"none", "open", "resolved"}]
    /\ closedBy \in [SignalKeys -> Events \cup {None}]
    /\ scores \in [Events -> Decisions \cup {None}]
    /\ queue \in [Tasks -> Nat]
    /\ jobs \in [Workers -> Job]
    /\ hook \subseteq Events /\ deliveries \in [Events -> 0..MaxDeliveries]
    /\ sync \in [Syncs -> [event : Events \cup {None}, raw : 0..MaxRows, stores : SUBSET Events]]
    /\ faults \in 0..MaxFaults

\* Every derived row stands on the row it was derived from, although the rows
\* are committed by different tasks on different workers and any of them may
\* be delivered again: a tag has its message and a committed raw event, a
\* score and a signal have the tag that called for them.
DerivedRowsBacked ==
    /\ \A e \in Events : tags[e] # None => e \in messages /\ rawId[e] # 0
    /\ \A e \in Events : scores[e] # None => tags[e] # None
    /\ \A s \in SignalKeys : signals[s] # "none" => tags[s[1]] # None

\* The unique key on raw_events makes one router of each event, whichever of
\* webhook and backfill stores it and however often it is delivered: no two
\* workers ever route the same message at once, and no event that a worker is
\* routing is still to be enqueued by a webhook call.
Routing(w, e) == jobs[w].task # None /\ jobs[w].task = RouteTask(e, rawId[e])

SingleRouter ==
    \A e \in Events, v, w \in Workers :
       /\ Routing(v, e) /\ Routing(w, e) => v = w
       /\ Routing(w, e) => e \notin hook /\ queue[jobs[w].task] = 0

\* A resolved signal names the message that closed it, and that message is a
\* reply in the thread the signal was raised in, whatever was linked, routed or
\* redelivered between the read of the open signals and the write.
ClosedInThread ==
    \A s \in SignalKeys : signals[s] = "resolved" =>
       /\ closedBy[s] \in messages
       /\ LET root == threadRoot[closedBy[s]] IN
          root # None /\ (s[1] = root \/ threadRoot[s[1]] = root)

\* The tables, read as the stages of the abstract contract, change as the
\* contract allows: a stage is never lost to a redelivery, a signal is raised
\* once, only replies of its thread close it and no draft that lost a race or
\* came late opens it again.
Stage == [e \in Events |-> CASE scores[e] # None -> "scored"
                             [] scores[e] = None /\ tags[e] # None -> "tagged"
                             [] tags[e] = None /\ scores[e] = None /\ rawId[e] # 0 -> "stored"
                             [] OTHER -> "unseen"]

Contract == INSTANCE PipelineContract WITH stage <- Stage
KeepsContract == Contract!Spec

\* Nothing about e is waiting, running or about to be enqueued.
Quiet(e) ==
    /\ e \notin hook
    /\ \A t \in Tasks : t.msg = e => queue[t] = 0
    /\ \A w \in Workers : jobs[w] # NoJob => Msg(w) # e

\* When the work on a message is over, the stored scores are those of its
\* stored tag.
ScoresCurrent == \A e \in Events : Quiet(e) => scores[e] = tags[e]

\* A message closes only signals raised before it in its thread.
ClosesUpstream ==
    \A s \in SignalKeys : signals[s] = "resolved" => s[1] < closedBy[s]

\* When the work on a stored event is over, nothing that was owed has been
\* forgotten: its scores are there, and the signal its decision asks for.
NothingForgotten ==
    \A e \in Events : rawId[e] # 0 /\ Quiet(e) =>
       scores[e] # None /\ (tags[e] \in Kinds => signals[<<e, tags[e]>>] # "none")

\* Every stored raw event is tagged and scored in the end.
EventuallyProcessed == \A e \in Events : rawId[e] # 0 ~> scores[e] # None
EventuallyTagged == \A e \in Events : rawId[e] # 0 ~> tags[e] # None

\* A decision to raise a signal is carried out, unless a redelivery of the same
\* message has replaced the decision.
DecisionHonoured ==
    \A s \in SignalKeys : tags[s[1]] = s[2] ~> signals[s] # "none" \/ tags[s[1]] # s[2]

=============================================================================
