------------------------ MODULE PipelineFaultProofs ------------------------
(***************************************************************************)
(* Which failures the pipeline's promises depend on, for any messages,     *)
(* threads and kinds.  If no worker is lost, a message is decided once and *)
(* its score is of that decision.  If workers are lost but nothing else    *)
(* fails and no backfill runs, no stored event is forgotten.  And if there *)
(* is but one such worker, its score is in the end that of its tag: with   *)
(* two it need not be, see the run PipelineReplay.                         *)
(***************************************************************************)
EXTENDS MessagePipelineProofs

-----------------------------------------------------------------------------
\* What a route holds is what is stored, whatever fails.

\* A slot that is past the lookup routes the stored raw event, and past the
\* commit it holds the decision that is stored.
SlotStored(w) ==
    jobs[w].phase \in {"classify", "resolve", "judge", "enqueue"} =>
       /\ Holds(w, RouteTask(Msg(w), rawId[Msg(w)]))
       /\ jobs[w].phase # "classify" => jobs[w].read = tags[Msg(w)]

Routed == Backed /\ Single /\ \A w \in Workers : SlotStored(w)

\* Only the route of a message writes its tag.
LEMMA TagStays ==
    ASSUME Typed, [Next]_vars, NEW e \in Events
    PROVE  tags'[e] = tags[e] \/ \E w \in Workers, d \in Decisions : RouteCommit(w, d) /\ Msg(w) = e
<1>1. ASSUME NEW w \in Workers, NEW d \in Decisions, RouteCommit(w, d)
      PROVE  tags'[e] = tags[e] \/ Msg(w) = e
    BY <1>1 DEF RouteCommit, Typed, TypeOK
<1>2. CASE tags' = tags
    BY <1>2
<1> QED
    BY <1>1, <1>2
    DEF Next, Failure, WorkerStep, RouteStep, vars, tables, WebhookPersist, WebhookDuplicate,
        WebhookEnqueue, WebhookEnqueueLost, SyncPersistRaw, SyncSendRefused, SyncCommit,
        SyncAbort, Deliver, Ack, TaskFails, WorkerLost, RouteMissing, RouteUpsert, ResolveRead,
        ResolveCommit, EnqueueFollowups, EnqueueFollowupsLost, BuildStart, BuildInsert,
        ScoreRead, ScoreCommit

\* What a slot has read is what is stored: no one else routes its message.
LEMMA SlotStoredStep ==
    ASSUME Routed, [Next]_vars, NEW v \in Workers
    PROVE  SlotStored(v)'
<1> DEFINE Past == {"classify", "resolve", "judge", "enqueue"}
<1>0. Typed /\ jobs \in [Workers -> Job] /\ jobs[v] \in Job
      /\ (jobs[v].phase # "idle" => jobs[v].task \in Tasks)
    BY DEF Routed, Backed, Typed, TypeOK, SlotsHold
<1>a. jobs[v].phase # "idle" => Msg(v) \in Events
    BY <1>0, TaskFields DEF Msg
<1>b. ASSUME NEW o \in Events, rawId[o] # 0 PROVE rawId'[o] = rawId[o]
    BY <1>b, IdsStay DEF Routed
<1>1. CASE jobs'[v] = jobs[v]
  <2> SUFFICES ASSUME jobs[v].phase \in Past
               PROVE  /\ Holds(v, RouteTask(Msg(v), rawId'[Msg(v)]))
                      /\ jobs[v].phase # "classify" => jobs[v].read = tags'[Msg(v)]
    BY <1>1 DEF SlotStored, Holds, Msg
  <2>1. /\ Holds(v, RouteTask(Msg(v), rawId[Msg(v)])) /\ Msg(v) \in Events /\ rawId[Msg(v)] # 0
        /\ (jobs[v].phase # "classify" => jobs[v].read = tags[Msg(v)])
    BY <1>a DEF Routed, Backed, SlotBacked, SlotStored
  <2>2. rawId'[Msg(v)] = rawId[Msg(v)]
    BY <1>b, <2>1
  <2>3. ASSUME NEW w \in Workers, NEW d \in Decisions, RouteCommit(w, d), Msg(w) = Msg(v)
        PROVE  jobs[v].phase = "classify"
    <3>1. jobs[w].phase = "classify" /\ Holds(w, RouteTask(Msg(v), rawId[Msg(v)]))
        BY <2>3 DEF Routed, SlotStored, RouteCommit, At
    <3>2. RouteTask(Msg(v), rawId[Msg(v)]) \in RouteTasks
        BY <2>1, <1>0, RouteTaskMade DEF Typed, TypeOK
    <3>3. v = w
        BY <2>1, <3>1, <3>2 DEF Routed, Single, Once
    <3> QED
        BY <3>1, <3>3
  <2>4. jobs[v].phase # "classify" => tags'[Msg(v)] = tags[Msg(v)]
    BY <1>0, <2>1, <2>3, TagStays
  <2> QED
    BY <2>1, <2>2, <2>4
<1>2. CASE jobs'[v].phase \notin Past
    BY <1>2 DEF SlotStored
<1>3. CASE RouteUpsert(v)
  <2>1. jobs[v].task \in Tasks /\ jobs[v].task.kind = "route" /\ Msg(v) \in Events
        /\ rawId[Msg(v)] = jobs[v].task.raw
    BY <1>0, <1>3, <1>a DEF RouteUpsert, At
  <2>2. jobs[v].task = RouteTask(Msg(v), rawId[Msg(v)])
    BY <2>1, TaskFields DEF Msg
  <2>3. jobs'[v].phase = "classify" /\ jobs'[v].task = jobs[v].task /\ rawId' = rawId
    BY <1>0, <1>3 DEF RouteUpsert, Remember, tables
  <2> QED
    BY <2>2, <2>3 DEF SlotStored, Holds, Msg, NoJob
<1>4. ASSUME NEW d \in Decisions, RouteCommit(v, d) PROVE SlotStored(v)'
  <2>1. Holds(v, RouteTask(Msg(v), rawId[Msg(v)])) /\ Msg(v) \in Events
    BY <1>4, <1>a DEF Routed, SlotStored, RouteCommit, At
  <2>2. jobs'[v].phase = "resolve" /\ jobs'[v].task = jobs[v].task /\ rawId' = rawId
        /\ jobs'[v].read = d /\ tags' = [tags EXCEPT ![Msg(v)] = d]
    BY <1>0, <1>4 DEF RouteCommit, Remember
  <2>3. tags'[Msg(v)] = d
    BY <1>0, <2>1, <2>2 DEF Typed, TypeOK
  <2> QED
    BY <2>1, <2>2, <2>3 DEF SlotStored, Holds, Msg, NoJob
<1>5. CASE ResolveRead(v) \/ \E closed : ResolveCommit(v, closed)
  <2>1. Holds(v, RouteTask(Msg(v), rawId[Msg(v)])) /\ jobs[v].read = tags[Msg(v)]
    BY <1>5 DEF Routed, SlotStored, ResolveRead, ResolveCommit, At
  <2>2. jobs'[v].phase \in {"judge", "enqueue"} /\ jobs'[v].task = jobs[v].task
        /\ jobs'[v].read = jobs[v].read /\ rawId' = rawId /\ tags' = tags
    BY <1>0, <1>5 DEF ResolveRead, ResolveCommit, Remember, Advance, tables, Job
  <2> QED
    BY <2>1, <2>2 DEF SlotStored, Holds, Msg, NoJob
<1>6. ASSUME NEW phase, Advance(v, phase), phase \notin Past PROVE SlotStored(v)'
    BY <1>0, <1>2, <1>6 DEF Advance
<1>7. CASE Free(v) \/ ScoreRead(v) \/ \E t \in Tasks : Deliver(v, t)
  <2>1. Free(v) => jobs'[v].phase = "idle"
    BY <1>0 DEF Free, NoJob
  <2>2. ScoreRead(v) => jobs'[v].phase = "compute"
    BY <1>0 DEF ScoreRead, Remember
  <2>3. \A t \in Tasks : Deliver(v, t) => jobs'[v].phase = "start"
    BY <1>0 DEF Deliver, NoJob
  <2> QED
    BY <1>2, <1>7, <2>1, <2>2, <2>3
<1>8. CASE WorkerStep(v) \/ WorkerLost(v) \/ TaskFails(v) \/ EnqueueFollowupsLost(v)
    BY <1>3, <1>4, <1>5, <1>6, <1>7, <1>8
    DEF WorkerStep, RouteStep, Ack, WorkerLost, TaskFails, RouteMissing, EnqueueFollowups,
        EnqueueFollowupsLost, BuildStart, BuildInsert, ScoreCommit
<1>9. ASSUME NEW w \in Workers, w # v,
             WorkerStep(w) \/ WorkerLost(w) \/ TaskFails(w) \/ EnqueueFollowupsLost(w)
      PROVE  jobs'[v] = jobs[v]
    BY <1>0, <1>9
    DEF WorkerStep, RouteStep, Deliver, Ack, WorkerLost, TaskFails, RouteMissing, RouteUpsert,
        RouteCommit, ResolveRead, ResolveCommit, EnqueueFollowups, EnqueueFollowupsLost,
        BuildStart, BuildInsert, ScoreRead, ScoreCommit, Advance, Free, Remember
<1>10. CASE jobs' = jobs
    BY <1>1, <1>10
<1> QED
    BY <1>8, <1>9, <1>10, <1>1
    DEF Next, Failure, vars, WebhookPersist, WebhookDuplicate, WebhookEnqueue, WebhookEnqueueLost,
        SyncPersistRaw, SyncSendRefused, SyncCommit, SyncAbort

LEMMA RoutedInit == Init => Routed
    BY BackedInit, SingleInit DEF Init, Routed, SlotStored, NoJob

LEMMA RoutedStep == Routed /\ [Next]_vars => Routed'
<1> SUFFICES ASSUME Routed, [Next]_vars PROVE Routed'
    OBVIOUS
<1>1. Backed' /\ Single'
    BY BackedStep, SingleStep DEF Routed
<1>2. \A w \in Workers : SlotStored(w)'
    BY SlotStoredStep
<1> QED
    BY <1>1, <1>2 DEF Routed

-----------------------------------------------------------------------------
\* No worker is lost: a message is decided once.

\* Nothing is delivered again; anything else may fail, and backfills run.
NoLoss == "lost" \notin Faults

\* The score of a message is of the decision that is stored.
ScoresTrue == \A e \in Events : scores[e] # None => scores[e] = tags[e]

\* No decision is ever replaced.
DecidedOnce == [][\A e \in Events : tags[e] # None => tags'[e] = tags[e]]_vars

\* The route that wrote a decision is past its commit, and there is no other.
Late == {"resolve", "judge", "enqueue", "done"}
Written(e) ==
    tags[e] # None =>
       /\ e \notin hook /\ queue[RouteTask(e, rawId[e])] = 0
       /\ \A w \in Workers : Holds(w, RouteTask(e, rawId[e])) => jobs[w].phase \in Late

\* A score is computed from the stored tag.
ReadCurrent == \A w \in Workers : At(w, "score", "compute") => jobs[w].read = tags[Msg(w)]

Settled == Routed /\ (\A e \in Events : Written(e)) /\ ReadCurrent /\ ScoresTrue

\* A decision that is stored stays.
LEMMA TagWritten ==
    ASSUME Settled, [Next]_vars, NEW e \in Events, tags[e] # None
    PROVE  tags'[e] = tags[e]
<1>1. ASSUME NEW w \in Workers, NEW d \in Decisions, RouteCommit(w, d), Msg(w) = e PROVE FALSE
  <2>1. jobs[w].phase = "classify" /\ Holds(w, RouteTask(e, rawId[e]))
    BY <1>1 DEF Settled, Routed, SlotStored, RouteCommit, At
  <2> QED
    BY <2>1 DEF Settled, Written, Late
<1> QED
    BY <1>1, TagStays DEF Settled, Routed, Single

\* A route past its commit goes on from there.
LEMMA LateStays ==
    ASSUME Typed, [Next]_vars, NEW w \in Workers, NEW t \in RouteTasks,
           Holds(w, t), Holds(w, t)', jobs[w].phase \in Late
    PROVE  jobs'[w].phase \in Late
<1>0. /\ jobs \in [Workers -> Job] /\ jobs[w].phase # "idle" /\ jobs[w] # NoJob
      /\ jobs[w].task.kind = "route" /\ jobs[w].phase \notin {"start", "classify", "draft", "compute"}
    BY RouteTaskFields DEF Typed, TypeOK, Holds, Late
<1>1. ASSUME NEW phase \in Late, Advance(w, phase) PROVE jobs'[w].phase \in Late
    BY <1>0, <1>1 DEF Advance
<1>2. CASE Free(w)
    BY <1>0, <1>2 DEF Free, Holds
<1>3. CASE ResolveRead(w)
    BY <1>0, <1>3 DEF ResolveRead, Remember, Late
<1>4. CASE WorkerStep(w) \/ WorkerLost(w) \/ TaskFails(w) \/ EnqueueFollowupsLost(w)
    BY <1>0, <1>1, <1>2, <1>3, <1>4
    DEF WorkerStep, RouteStep, Deliver, Ack, WorkerLost, TaskFails, RouteMissing, RouteUpsert,
        RouteCommit, ResolveCommit, EnqueueFollowups, EnqueueFollowupsLost, BuildStart,
        BuildInsert, ScoreRead, ScoreCommit, At, Late
<1>5. ASSUME NEW v \in Workers, v # w,
             WorkerStep(v) \/ WorkerLost(v) \/ TaskFails(v) \/ EnqueueFollowupsLost(v)
      PROVE  jobs'[w] = jobs[w]
    BY <1>0, <1>5
    DEF WorkerStep, RouteStep, Deliver, Ack, WorkerLost, TaskFails, RouteMissing, RouteUpsert,
        RouteCommit, ResolveRead, ResolveCommit, EnqueueFollowups, EnqueueFollowupsLost,
        BuildStart, BuildInsert, ScoreRead, ScoreCommit, Advance, Free, Remember
<1>6. CASE jobs' = jobs
    BY <1>6
<1> QED
    BY <1>4, <1>5, <1>6
    DEF Next, Failure, vars, WebhookPersist, WebhookDuplicate, WebhookEnqueue, WebhookEnqueueLost,
        SyncPersistRaw, SyncSendRefused, SyncCommit, SyncAbort

\* It is the only route of its message, when it writes the decision
LEMMA WrittenFirst ==
    ASSUME Settled, [Next]_vars, NEW e \in Events, NEW t, t = RouteTask(e, rawId[e]),
           NEW w \in Workers, NEW d \in Decisions, RouteCommit(w, d), Msg(w) = e
    PROVE  /\ rawId' = rawId /\ e \notin hook' /\ queue'[t] = 0
           /\ \A v \in Workers : Holds(v, t)' => jobs'[v].phase \in Late
<1>0. Backed /\ Single /\ Typed
    BY DEF Settled, Routed, Single
<1>2. /\ Holds(w, t) /\ rawId[e] # 0 /\ UNCHANGED <<rawId, queue, hook>>
      /\ jobs' = [jobs EXCEPT ![w] = [task |-> jobs[w].task, phase |-> "resolve",
                                      parent |-> None, read |-> d, open |-> {}]]
    BY <1>0 DEF Settled, Routed, SlotStored, Backed, SlotBacked, RouteCommit, At, Remember, webhook
<1>3. t \in RouteTasks
    BY <1>0, <1>2, RouteTaskMade DEF Typed, TypeOK
<1>4. queue[t] = 0 /\ \A v \in Workers : Holds(v, t) => v = w
    BY <1>0, <1>2, <1>3 DEF Single, Once
<1>5. e \notin hook
    BY <1>0, <1>2 DEF Single, HooksAlone, Unsent
<1>6. jobs'[w].phase = "resolve" /\ \A v \in Workers : v # w => jobs'[v] = jobs[v]
    BY <1>0, <1>2 DEF Typed, TypeOK
<1>7. \A v \in Workers : Holds(v, t)' => jobs'[v].phase \in Late
    BY <1>4, <1>6 DEF Holds, Late
<1> QED
    BY <1>2, <1>4, <1>5, <1>7

\* and as long as the decision stands.
LEMMA WrittenStays ==
    ASSUME NoLoss, Settled, [Next]_vars, NEW e \in Events, NEW t, t = RouteTask(e, rawId[e]),
           tags[e] # None
    PROVE  /\ rawId'[e] = rawId[e] /\ e \notin hook' /\ queue'[t] = 0
           /\ \A w \in Workers : Holds(w, t)' => jobs'[w].phase \in Late
<1>0. Backed /\ Single /\ Typed
    BY DEF Settled, Routed, Single
<1>1. rawId[e] # 0 /\ rawId'[e] = rawId[e]
    BY <1>0, IdsStay DEF Backed, DerivedRowsBacked
<1>2. t \in RouteTasks /\ t \in Tasks /\ t.msg = e /\ t.raw = rawId[e]
    BY <1>0, <1>1, RouteTaskMade, RouteTaskFields DEF Typed, TypeOK
<1>3. /\ e \notin hook /\ queue[t] = 0
      /\ \A w \in Workers : Holds(w, t) => jobs[w].phase \in Late
    BY DEF Settled, Written
<1>4. e \notin hook'
    BY <1>1, <1>3
    DEF Next, Failure, WorkerStep, RouteStep, vars, webhook, WebhookPersist, WebhookDuplicate,
        WebhookEnqueue, WebhookEnqueueLost, SyncPersistRaw, SyncSendRefused, SyncCommit,
        SyncAbort, Deliver, Ack, TaskFails, WorkerLost, RouteMissing, RouteUpsert, RouteCommit,
        ResolveRead, ResolveCommit, EnqueueFollowups, EnqueueFollowupsLost, BuildStart,
        BuildInsert, ScoreRead, ScoreCommit
<1>5. ~SentByHook(t) /\ ~SentBySync(t) /\ ~SentAgain(t)
  <2>1. \A o \in Events : t = RouteTask(o, rawId[o]) \/ t = RouteTask(o, lastId[o] + 1) => o = e
    BY <1>2 DEF RouteTask
  <2> QED
    BY <1>1, <1>3, <2>1
    DEF SentByHook, SentBySync, SentAgain, WebhookEnqueue, WorkerLost, Fault, NoLoss
<1>6. queue'[t] = 0
  <2>1. queue'[t] <= queue[t]
    BY <1>0, <1>2, <1>5, RouteSent
  <2>2. queue'[t] \in Nat
    BY <1>0, <1>2, TypedStep DEF Typed, TypeOK
  <2> QED
    BY <1>3, <2>1, <2>2
<1>7. ASSUME NEW w \in Workers, Holds(w, t)' PROVE jobs'[w].phase \in Late
  <2>1. ~Deliver(w, t)
    BY <1>3 DEF Deliver
  <2>2. Holds(w, t)
    BY <1>0, <1>7, <2>1, HoldsStep
  <2> QED
    BY <1>0, <1>2, <1>3, <1>7, <2>2, LateStays
<1> QED
    BY <1>1, <1>4, <1>6, <1>7

LEMMA WrittenStep ==
    ASSUME NoLoss, Settled, [Next]_vars, NEW e \in Events
    PROVE  Written(e)'
<1>1. \E t : t = RouteTask(e, rawId[e])
    OBVIOUS
<1>2. ASSUME NEW t, t = RouteTask(e, rawId[e]), rawId'[e] = rawId[e], e \notin hook',
             queue'[t] = 0, \A w \in Workers : Holds(w, t)' => jobs'[w].phase \in Late
      PROVE  Written(e)'
    BY <1>2 DEF Written, Holds
<1>3. tags[e] # None => Written(e)'
    BY <1>1, <1>2, WrittenStays
<1>4. ASSUME NEW w \in Workers, NEW d \in Decisions, RouteCommit(w, d), Msg(w) = e
      PROVE  Written(e)'
    BY <1>1, <1>2, <1>4, WrittenFirst
<1>5. tags'[e] = None => Written(e)'
    BY DEF Written
<1> QED
    BY <1>3, <1>4, <1>5, TagStays DEF Settled, Routed, Single

\* The scores are of the decision there is.
LEMMA ScoresTrueStep ==
    ASSUME Settled, [Next]_vars
    PROVE  ReadCurrent' /\ ScoresTrue'
<1>0. Backed /\ Typed /\ jobs \in [Workers -> Job] /\ scores \in [Events -> Decisions \cup {None}]
      /\ (\A e \in Events : scores[e] # None => tags[e] # None /\ scores[e] = tags[e])
    BY DEF Settled, Routed, Single, Typed, TypeOK, Backed, DerivedRowsBacked, ScoresTrue
<1>1. ASSUME NEW v \in Workers, At(v, "score", "compute")' PROVE jobs'[v].read = tags'[Msg(v)']
  <2>1. CASE jobs'[v] = jobs[v]
    <3>1. At(v, "score", "compute") /\ jobs[v].task \in Tasks /\ Msg(v)' = Msg(v)
        BY <1>0, <1>1, <2>1 DEF At, Msg, Typed, SlotsHold
    <3>2. Msg(v) \in Events /\ tags[Msg(v)] # None /\ jobs[v].read = tags[Msg(v)]
        BY <1>0, <3>1, TaskFields DEF At, Msg, Backed, SlotBacked, Settled, ReadCurrent
    <3> QED
        BY <2>1, <3>1, <3>2, TagWritten
  <2>2. CASE ScoreRead(v)
    <3>1. jobs'[v].read = tags[Msg(v)] /\ jobs'[v].task = jobs[v].task /\ tags' = tags
        BY <1>0, <2>2 DEF ScoreRead, Remember, tables
    <3> QED
        BY <3>1 DEF Msg
  <2>3. ASSUME NEW phase, Advance(v, phase), phase # "compute" PROVE FALSE
    BY <1>0, <1>1, <2>3 DEF Advance, At
  <2>4. CASE Free(v) \/ RouteUpsert(v) \/ ResolveRead(v) \/ \E d \in Decisions : RouteCommit(v, d)
    BY <1>0, <1>1, <2>4 DEF Free, NoJob, RouteUpsert, ResolveRead, RouteCommit, Remember, At
  <2>5. CASE \E t \in Tasks : Deliver(v, t)
    BY <1>0, <1>1, <2>5 DEF Deliver, NoJob, At
  <2>6. CASE WorkerStep(v) \/ WorkerLost(v) \/ TaskFails(v) \/ EnqueueFollowupsLost(v)
    BY <1>0, <2>2, <2>3, <2>4, <2>5, <2>6
    DEF WorkerStep, RouteStep, Ack, WorkerLost, TaskFails, RouteMissing, ResolveCommit,
        EnqueueFollowups, EnqueueFollowupsLost, BuildStart, BuildInsert, ScoreCommit
  <2>7. ASSUME NEW w \in Workers, w # v,
               WorkerStep(w) \/ WorkerLost(w) \/ TaskFails(w) \/ EnqueueFollowupsLost(w)
        PROVE  jobs'[v] = jobs[v]
    BY <1>0, <2>7
    DEF WorkerStep, RouteStep, Deliver, Ack, WorkerLost, TaskFails, RouteMissing, RouteUpsert,
        RouteCommit, ResolveRead, ResolveCommit, EnqueueFollowups, EnqueueFollowupsLost,
        BuildStart, BuildInsert, ScoreRead, ScoreCommit, Advance, Free, Remember
  <2>8. CASE jobs' = jobs
    BY <2>1, <2>8
  <2> QED
    BY <2>1, <2>6, <2>7, <2>8
    DEF Next, Failure, vars, WebhookPersist, WebhookDuplicate, WebhookEnqueue, WebhookEnqueueLost,
        SyncPersistRaw, SyncSendRefused, SyncCommit, SyncAbort
<1>2. ASSUME NEW e \in Events, scores'[e] # None PROVE scores'[e] = tags'[e]
  <2>1. CASE scores'[e] = scores[e]
    BY <1>0, <1>2, <2>1, TagWritten
  <2>2. ASSUME NEW w \in Workers, ScoreCommit(w) PROVE scores'[e] = tags'[e] \/ scores'[e] = scores[e]
    BY <1>0, <2>2 DEF ScoreCommit, Settled, ReadCurrent, At
  <2>3. CASE scores' = scores
    BY <2>1, <2>3
  <2> QED
    BY <2>1, <2>2, <2>3
    DEF Next, Failure, WorkerStep, RouteStep, vars, tables, WebhookPersist, WebhookDuplicate,
        WebhookEnqueue, WebhookEnqueueLost, SyncPersistRaw, SyncSendRefused, SyncCommit,
        SyncAbort, Deliver, Ack, TaskFails, WorkerLost, RouteMissing, RouteUpsert, RouteCommit,
        ResolveRead, ResolveCommit, EnqueueFollowups, EnqueueFollowupsLost, BuildStart,
        BuildInsert, ScoreRead
<1> QED
    BY <1>1, <1>2 DEF ReadCurrent, ScoresTrue, At, Msg

\* Stale scores and replaced decisions come from lost workers only: if none is
\* lost, whatever else fails and however many workers and backfills there are,
\* a message's decision is never replaced and its score is of that decision.
THEOREM OneDecision == NoLoss /\ Spec => DecidedOnce /\ []ScoresTrue
<1> SUFFICES ASSUME NoLoss PROVE Spec => DecidedOnce /\ []ScoresTrue
    OBVIOUS
<1>1. Init => Settled
    BY RoutedInit DEF Init, Settled, Written, ReadCurrent, ScoresTrue, At, NoJob
<1>2. Settled /\ [Next]_vars => Settled'
    BY RoutedStep, WrittenStep, ScoresTrueStep DEF Settled
<1>3. Settled /\ [Next]_vars => \A e \in Events : tags[e] # None => tags'[e] = tags[e]
    BY TagWritten
<1>4. Settled => ScoresTrue
    BY DEF Settled
<1> QED
    BY <1>1, <1>2, <1>3, <1>4, PTL DEF Spec, DecidedOnce

-----------------------------------------------------------------------------
\* One worker that may be lost.

\* The instances: events come by the webhook, and workers may be lost.
NoBackfill == Syncs = {} /\ Faults \subseteq {"lost"}

\* And one worker serves them.
OneWorker == (\A v, w \in Workers : v = w) /\ NoBackfill

\* A route or score task of e waits, or is under way.
Waiting(e) == \E t \in Tasks : t.msg = e /\ t.kind # "build" /\ queue[t] > 0
Working(e) ==
    \E w \in Workers : jobs[w].phase \notin {"idle", "done"} /\ jobs[w].task.kind # "build" /\ Msg(w) = e

Settling(e) == scores[e] = tags[e] \/ Waiting(e) \/ Working(e)

\* A route task finds its raw event.
Routable ==
    /\ \A t \in RouteTasks : queue[t] > 0 => t.raw = rawId[t.msg]
    /\ \A w \in Workers : jobs[w].phase # "idle" /\ jobs[w].task.kind = "route" =>
          jobs[w].task.raw = rawId[Msg(w)]
    /\ \A e \in hook : rawId[e] # 0

Scored == Routable /\ ReadCurrent /\ \A e \in Events : Settling(e)
OneInv == Typed /\ Scored

-----------------------------------------------------------------------------
\* A worker's loss is the only failure, and no backfill steps.
LEMMA OnlyLosses ==
    ASSUME NoBackfill, [Next]_vars
    PROVE  \/ \E e \in Events : WebhookPersist(e) \/ WebhookDuplicate(e) \/ WebhookEnqueue(e)
           \/ \E w \in Workers : WorkerStep(w) \/ WorkerLost(w)
           \/ UNCHANGED vars
BY DEF NoBackfill, Next, Failure, Fault, WebhookEnqueueLost, TaskFails, EnqueueFollowupsLost

\* The route tasks a worker or the webhook sends are of the stored raw event.
LEMMA SentRoutable ==
    ASSUME Typed, Routable, NEW sent, Send(sent), UNCHANGED rawId,
           \A t \in sent \cap RouteTasks : t.raw = rawId[t.msg]
    PROVE  \A t \in RouteTasks : queue'[t] > 0 => t.raw = rawId'[t.msg]
<1> SUFFICES ASSUME NEW t \in RouteTasks, queue'[t] > 0 PROVE t.raw = rawId[t.msg]
    OBVIOUS
<1>1. t \in Tasks
    BY RouteTaskFields
<1>2. queue[t] > 0 \/ t \in sent
    BY <1>1 DEF Send, Typed, TypeOK
<1> QED
    BY <1>2 DEF Routable

\* Sending takes nothing out of the broker.
LEMMA SentWaits ==
    ASSUME Typed, NEW sent, Send(sent)
    PROVE  /\ \A e \in Events : Waiting(e) => Waiting(e)'
           /\ \A t \in Tasks \cap sent : t.kind # "build" => Waiting(t.msg)'
<1>1. \A t \in Tasks : queue[t] \in Nat /\ (queue[t] > 0 \/ t \in sent => queue'[t] > 0)
    BY DEF Send, Typed, TypeOK
<1> QED
    BY <1>1 DEF Waiting

\* A step that leaves the broker, the slots, tags and scores as they are.
LEMMA SameSettles ==
    ASSUME Scored, UNCHANGED <<queue, jobs, tags, scores>>
    PROVE  ReadCurrent' /\ \A e \in Events : Settling(e)'
BY DEF Scored, ReadCurrent, At, Msg, Settling, Waiting, Working

\* The worker's task moves on to another phase before its end.
LEMMA WorkSettles ==
    ASSUME OneWorker, OneInv, NEW w \in Workers, jobs[w].phase # "idle",
           jobs'[w].task = jobs[w].task, jobs'[w].phase \notin {"idle", "done"},
           UNCHANGED <<queue, scores>>,
           \A e \in Events : tags'[e] # tags[e] => e = Msg(w) /\ jobs[w].task.kind # "build"
    PROVE  \A e \in Events : Settling(e)'
<1>1. \A v \in Workers : v = w
    BY DEF OneWorker
<1>2. ASSUME NEW e \in Events PROVE Settling(e)'
  <2>1. CASE jobs[w].task.kind # "build" /\ Msg(w) = e
    BY <2>1 DEF Settling, Working, Msg
  <2>2. CASE ~(jobs[w].task.kind # "build" /\ Msg(w) = e)
    <3>1. ~Working(e) /\ tags'[e] = tags[e]
        BY <1>1, <2>2 DEF Working
    <3> QED
        BY <3>1 DEF OneInv, Scored, Settling, Waiting
  <2> QED
    BY <2>1, <2>2
<1> QED
    BY <1>2

\* The worker's task ends: nothing but its message may be affected.
LEMMA EndSettles ==
    ASSUME OneWorker, OneInv, NEW w \in Workers, NEW e \in Events,
           jobs[w].phase \in {"idle", "done"} \/ jobs[w].task.kind = "build" \/ Msg(w) # e,
           scores'[e] = scores[e], tags'[e] = tags[e], Waiting(e) => Waiting(e)'
    PROVE  Settling(e)'
<1>1. ~Working(e)
    BY DEF Working, OneWorker
<1> QED
    BY <1>1 DEF OneInv, Scored, Settling

-----------------------------------------------------------------------------
\* The invariant holds at first.
LEMMA OneInit == OneWorker /\ Init => OneInv
<1> SUFFICES ASSUME OneWorker, Init PROVE OneInv
    OBVIOUS
<1>1. Typed
    BY InitTyped
<1>2. Routable
    BY RouteTaskFields DEF Init, Routable, NoJob
<1>3. ReadCurrent
    BY DEF Init, ReadCurrent, At, NoJob
<1>4. \A e \in Events : scores[e] = tags[e]
    BY DEF Init
<1> QED
    BY <1>1, <1>2, <1>3, <1>4 DEF OneInv, Scored, Settling

\* The webhook's steps.
LEMMA HookScored ==
    ASSUME OneWorker, OneInv, NEW e \in Events,
           WebhookPersist(e) \/ WebhookDuplicate(e) \/ WebhookEnqueue(e)
    PROVE  Scored'
<1> USE DEF OneInv
<1>0. Typed /\ Scored /\ rawId \in [Events -> 0..MaxRows] /\ lastId \in [Events -> 0..MaxRows]
      /\ hook \subseteq Events
    BY DEF Typed, TypeOK
<1>1. CASE WebhookPersist(e)
  <2>1. rawId[e] = 0 /\ rawId' = [rawId EXCEPT ![e] = lastId[e] + 1] /\ hook' = hook \cup {e}
        /\ UNCHANGED <<queue, jobs, tags, scores>>
    BY <1>1 DEF WebhookPersist
  <2>2. \A t \in RouteTasks : t.msg \in Events /\ (t.raw = rawId[t.msg] => t.raw = rawId'[t.msg])
    BY <1>0, <2>1, RouteTaskFields
  <2>3. ASSUME NEW w \in Workers, jobs[w].phase # "idle", jobs[w].task.kind = "route"
        PROVE  jobs[w].task.raw = rawId'[Msg(w)]
    <3>1. jobs[w].task \in Tasks
        BY <2>3 DEF Typed, SlotsHold
    <3>2. jobs[w].task.raw \in 1..MaxRows /\ Msg(w) \in Events
        BY <2>3, <3>1, TaskFields DEF Msg
    <3>3. jobs[w].task.raw = rawId[Msg(w)]
        BY <2>3 DEF Scored, Routable
    <3> QED
        BY <1>0, <2>1, <3>2, <3>3
  <2>4. \A o \in hook' : rawId'[o] # 0
    BY <1>0, <2>1 DEF Scored, Routable
  <2>5. Routable'
    BY <2>1, <2>2, <2>3, <2>4 DEF Scored, Routable, Msg
  <2> QED
    BY <2>1, <2>5, SameSettles DEF Scored
<1>2. CASE WebhookDuplicate(e)
    BY <1>2, SameSettles DEF WebhookDuplicate, tables, Scored, Routable, Msg
<1>3. CASE WebhookEnqueue(e)
  <2>1. /\ e \in hook /\ Send({RouteTask(e, rawId[e])}) /\ hook' = hook \ {e}
        /\ UNCHANGED <<rawId, jobs, tags, scores>>
    BY <1>3 DEF WebhookEnqueue, tables
  <2>2. \A t \in {RouteTask(e, rawId[e])} : t.raw = rawId[t.msg]
    BY DEF RouteTask
  <2>3. Routable'
    BY <2>1, <2>2, SentRoutable DEF Scored, Routable, Msg
  <2>4. ReadCurrent'
    BY <2>1 DEF Scored, ReadCurrent, At, Msg
  <2>5. \A o \in Events : Waiting(o) => Waiting(o)'
    BY <2>1, SentWaits
  <2>6. \A o \in Events : Settling(o)'
    BY <2>1, <2>5 DEF Scored, Settling, Working, Msg
  <2> QED
    BY <2>3, <2>4, <2>6 DEF Scored
<1> QED
    BY <1>1, <1>2, <1>3

\* What a step of the worker owes to the first two parts of the invariant.
LEMMA WorkerReads ==
    ASSUME OneWorker, OneInv, NEW w \in Workers, jobs[w].phase # "idle",
           jobs'[w].task = jobs[w].task, UNCHANGED <<rawId, hook>>,
           \A t \in RouteTasks : queue'[t] > 0 => t.raw = rawId[t.msg],
           At(w, "score", "compute")' => jobs'[w].read = tags'[Msg(w)]
    PROVE  Routable' /\ ReadCurrent'
<1>1. \A v \in Workers : v = w
    BY DEF OneWorker
<1> QED
    BY <1>1 DEF OneInv, Scored, Routable, ReadCurrent, Msg, At

\* The worker's steps, with its one failure.
LEMMA WorkerScored ==
    ASSUME OneWorker, OneInv, NEW w \in Workers, WorkerStep(w) \/ WorkerLost(w)
    PROVE  Scored'
<1>0. /\ Typed /\ Routable /\ ReadCurrent /\ \A v \in Workers : v = w
      /\ jobs \in [Workers -> Job] /\ queue \in [Tasks -> Nat] /\ w \in Workers
      /\ scores \in [Events -> Decisions \cup {None}] /\ tags \in [Events -> Decisions \cup {None}]
    BY DEF OneInv, Scored, OneWorker, Typed, TypeOK
<1>a. jobs[w].phase # "idle" => jobs[w].task \in Tasks /\ Msg(w) \in Events
    BY <1>0, TaskFields DEF Typed, SlotsHold, Msg
<1>b. UNCHANGED queue /\ UNCHANGED rawId =>
         \A t \in RouteTasks : queue'[t] > 0 => t.raw = rawId[t.msg]
    BY <1>0 DEF Routable
<1>c. ASSUME Free(w), UNCHANGED <<rawId, hook, tags, scores>>,
             \A t \in RouteTasks : queue'[t] > 0 => t.raw = rawId[t.msg]
      PROVE  Routable' /\ ReadCurrent'
  <2>1. jobs'[w].phase = "idle"
    BY <1>0, <1>c DEF Free, NoJob
  <2> QED
    BY <1>0, <1>c, <2>1 DEF Routable, ReadCurrent, At
<1>1. ASSUME NEW t \in Tasks, Deliver(w, t) PROVE Scored'
  <2>1. /\ jobs[w] = NoJob /\ queue[t] > 0 /\ queue' = [queue EXCEPT ![t] = @ - 1]
        /\ jobs'[w].task = t /\ jobs'[w].phase = "start"
        /\ UNCHANGED <<rawId, hook, tags, scores>>
    BY <1>0, <1>1 DEF Deliver, NoJob, tables, webhook
  <2>2. t.kind = "route" => t \in RouteTasks
    BY DEF Tasks, BuildTasks, ScoreTasks
  <2>3. \A u \in RouteTasks : u \in Tasks /\ (queue'[u] > 0 => queue[u] > 0)
    BY <1>0, <2>1, RouteTaskFields
  <2>4. Routable'
    BY <1>0, <2>1, <2>2, <2>3 DEF Routable, Msg
  <2>5. ReadCurrent'
    BY <1>0, <2>1 DEF ReadCurrent, At
  <2>6. ASSUME NEW e \in Events PROVE Settling(e)'
    <3>1. CASE t.msg = e /\ t.kind # "build"
        BY <2>1, <3>1 DEF Settling, Working, Msg
    <3>2. CASE ~(t.msg = e /\ t.kind # "build")
      <4>1. Waiting(e) => Waiting(e)'
        BY <1>0, <2>1, <3>2 DEF Waiting
      <4>2. jobs[w].phase = "idle"
        BY <2>1 DEF NoJob
      <4> QED
        BY <2>1, <4>1, <4>2, EndSettles
    <3> QED
        BY <3>1, <3>2
  <2> QED
    BY <2>4, <2>5, <2>6 DEF Scored
<1>2. CASE Ack(w)
  <2>1. jobs[w].phase = "done" /\ Free(w) /\ UNCHANGED <<rawId, hook, tags, scores, queue>>
    BY <1>2 DEF Ack, tables, webhook
  <2>2. Routable' /\ ReadCurrent'
    BY <1>b, <1>c, <2>1
  <2>3. \A e \in Events : Waiting(e) => Waiting(e)'
    BY <2>1 DEF Waiting
  <2> QED
    BY <2>1, <2>2, <2>3, EndSettles DEF Scored
<1>3. CASE WorkerLost(w)
  <2>1. jobs[w] # NoJob /\ Free(w) /\ UNCHANGED <<rawId, hook, tags, scores>>
    BY <1>3 DEF WorkerLost, tables, webhook
  <2>2. PICK sent : /\ sent \subseteq Followups(w)
                    /\ Send({jobs[w].task} \cup sent)
    BY <1>3 DEF WorkerLost
  <2>3. jobs[w].phase # "idle"
    BY <2>1 DEF OneInv, Typed, SlotsHold
  <2>4. \A t \in Followups(w) : t \notin RouteTasks
    BY RouteTaskFields DEF Followups, ScoreTask, BuildTask
  <2>5. jobs[w].task.kind = "route" => jobs[w].task.raw = rawId[jobs[w].task.msg]
    BY <1>0, <2>3 DEF Routable, Msg
  <2>6. \A t \in ({jobs[w].task} \cup sent) \cap RouteTasks : t.raw = rawId[t.msg]
    BY <2>2, <2>4, <2>5, RouteTaskFields
  <2>7. \A t \in RouteTasks : queue'[t] > 0 => t.raw = rawId[t.msg]
    BY <1>0, <2>1, <2>2, <2>6, SentRoutable
  <2>8. Routable' /\ ReadCurrent'
    BY <1>c, <2>1, <2>7
  <2>9. ASSUME NEW e \in Events PROVE Settling(e)'
    <3>1. CASE jobs[w].task.kind # "build" /\ Msg(w) = e
      <4>1. Waiting(e)'
        BY <1>0, <1>a, <2>2, <2>3, <3>1, SentWaits DEF Msg
      <4> QED
        BY <4>1 DEF Settling
    <3>2. CASE ~(jobs[w].task.kind # "build" /\ Msg(w) = e)
      <4>1. Waiting(e) => Waiting(e)'
        BY <1>0, <2>2, SentWaits
      <4> QED
        BY <2>1, <3>2, <4>1, EndSettles
    <3> QED
        BY <3>1, <3>2
  <2> QED
    BY <2>8, <2>9 DEF Scored
<1>4. CASE RouteMissing(w)
    BY <1>0, <1>4 DEF RouteMissing, At, Routable
<1>5. CASE RouteUpsert(w) \/ ResolveRead(w)
  <2>1. /\ jobs[w].phase # "idle" /\ jobs[w].task.kind = "route" /\ jobs'[w].task = jobs[w].task
        /\ jobs'[w].phase \in {"classify", "judge"}
        /\ UNCHANGED <<queue, rawId, hook, tags, scores>>
    BY <1>0, <1>5 DEF RouteUpsert, ResolveRead, Remember, At, tables, webhook
  <2>2. Routable' /\ ReadCurrent'
    BY <1>b, <2>1, WorkerReads DEF At
  <2> QED
    BY <2>1, <2>2, WorkSettles DEF Scored
<1>6. ASSUME NEW d \in Decisions, RouteCommit(w, d) PROVE Scored'
  <2>1. /\ jobs[w].phase # "idle" /\ jobs[w].task.kind = "route" /\ jobs'[w].task = jobs[w].task
        /\ jobs'[w].phase = "resolve" /\ tags' = [tags EXCEPT ![Msg(w)] = d]
        /\ UNCHANGED <<queue, rawId, hook, scores>>
    BY <1>0, <1>6 DEF RouteCommit, Remember, At, webhook
  <2>2. Routable' /\ ReadCurrent'
    BY <1>b, <2>1, WorkerReads DEF At
  <2>3. \A e \in Events : tags'[e] # tags[e] => e = Msg(w)
    BY <1>0, <2>1
  <2> QED
    BY <2>1, <2>2, <2>3, WorkSettles DEF Scored
<1>7. ASSUME NEW closed, ResolveCommit(w, closed) PROVE Scored'
  <2>1. /\ jobs[w].phase # "idle" /\ jobs[w].task.kind = "route" /\ jobs'[w].task = jobs[w].task
        /\ jobs'[w].phase = "enqueue" /\ UNCHANGED <<queue, rawId, hook, tags, scores>>
    BY <1>0, <1>7 DEF ResolveCommit, Advance, At, webhook, Job
  <2>2. Routable' /\ ReadCurrent'
    BY <1>b, <2>1, WorkerReads DEF At
  <2> QED
    BY <2>1, <2>2, WorkSettles DEF Scored
<1>8. CASE EnqueueFollowups(w)
  <2>1. /\ jobs[w].phase # "idle" /\ jobs[w].task.kind = "route" /\ jobs'[w].task = jobs[w].task
        /\ jobs'[w].phase = "done" /\ Send(Followups(w))
        /\ UNCHANGED <<rawId, hook, tags, scores>>
    BY <1>0, <1>8 DEF EnqueueFollowups, Advance, At, webhook, tables, Job
  <2>2. \A t \in Followups(w) : t \notin RouteTasks
    BY RouteTaskFields DEF Followups, ScoreTask, BuildTask
  <2>3. \A t \in RouteTasks : queue'[t] > 0 => t.raw = rawId[t.msg]
    BY <1>0, <2>1, <2>2, SentRoutable
  <2>4. Routable' /\ ReadCurrent'
    BY <2>1, <2>3, WorkerReads DEF At
  <2>5. ScoreTask(Msg(w)) \in Tasks \cap Followups(w) /\ ScoreTask(Msg(w)).kind = "score"
        /\ ScoreTask(Msg(w)).msg = Msg(w)
    BY <1>a, <2>1 DEF Followups, ScoreTask, Tasks, ScoreTasks
  <2>6. Waiting(Msg(w))'
    <3>1. \A t \in Tasks \cap Followups(w) : t.kind # "build" => Waiting(t.msg)'
        BY <1>0, <2>1, SentWaits
    <3>2. \E t \in Tasks : t.msg = Msg(w) /\ t.kind # "build" /\ queue'[t] > 0
        BY <1>0, <2>1, <2>5 DEF Send
    <3> QED
        BY <2>1, <3>2 DEF Waiting, Msg
  <2>7. ASSUME NEW e \in Events PROVE Settling(e)'
    <3>1. CASE e = Msg(w)
      <4>1. \E t \in Tasks : t.msg = e /\ t.kind # "build" /\ queue'[t] > 0
        BY <1>0, <2>1, <2>5, <3>1 DEF Send
      <4> QED
        BY <4>1 DEF Settling, Waiting
    <3>2. CASE e # Msg(w)
      <4>1. Waiting(e) => Waiting(e)'
        BY <1>0, <2>1, SentWaits
      <4> QED
        BY <2>1, <3>2, <4>1, EndSettles
    <3> QED
        BY <3>1, <3>2
  <2> QED
    BY <2>4, <2>7 DEF Scored
<1>9. CASE BuildStart(w) \/ BuildInsert(w)
  <2>1. /\ jobs[w].phase # "idle" /\ jobs[w].task.kind = "build" /\ jobs'[w].task = jobs[w].task
        /\ UNCHANGED <<queue, rawId, hook, tags, scores>>
    BY <1>0, <1>9 DEF BuildStart, BuildInsert, Advance, At, webhook, tables, Job
  <2>2. Routable' /\ ReadCurrent'
    BY <1>b, <2>1, WorkerReads DEF At
  <2>3. \A e \in Events : Waiting(e) => Waiting(e)'
    BY <2>1 DEF Waiting
  <2> QED
    BY <2>1, <2>2, <2>3, EndSettles DEF Scored
<1>10. CASE ScoreRead(w)
  <2>1. /\ jobs[w].phase # "idle" /\ jobs[w].task.kind = "score" /\ jobs'[w].task = jobs[w].task
        /\ jobs'[w].phase = "compute" /\ jobs'[w].read = tags[Msg(w)]
        /\ UNCHANGED <<queue, rawId, hook, tags, scores>>
    BY <1>0, <1>10 DEF ScoreRead, Remember, At, webhook, tables
  <2>2. Routable' /\ ReadCurrent'
    BY <1>b, <2>1, WorkerReads
  <2> QED
    BY <2>1, <2>2, WorkSettles DEF Scored
<1>11. CASE ScoreCommit(w)
  <2>1. /\ jobs[w].phase = "compute" /\ jobs[w].task.kind = "score" /\ jobs'[w].task = jobs[w].task
        /\ jobs'[w].phase = "done" /\ scores' = [scores EXCEPT ![Msg(w)] = jobs[w].read]
        /\ jobs[w].read = tags[Msg(w)]
        /\ UNCHANGED <<queue, rawId, hook, tags>>
    BY <1>0, <1>11 DEF ScoreCommit, Advance, At, webhook, Job, ReadCurrent
  <2>2. Routable' /\ ReadCurrent'
    BY <1>b, <2>1, WorkerReads DEF At
  <2>3. \A e \in Events : Waiting(e) => Waiting(e)'
    BY <2>1 DEF Waiting
  <2>4. ASSUME NEW e \in Events PROVE Settling(e)'
    <3>1. CASE e = Msg(w)
        BY <1>0, <2>1, <3>1 DEF Settling
    <3>2. CASE e # Msg(w)
        BY <1>0, <2>1, <2>3, <3>2, EndSettles
    <3> QED
        BY <3>1, <3>2
  <2> QED
    BY <2>2, <2>4 DEF Scored
<1> QED
    BY <1>1, <1>2, <1>3, <1>4, <1>5, <1>6, <1>7, <1>8, <1>9, <1>10, <1>11
    DEF WorkerStep, RouteStep

\* Every step of the instance keeps it.
LEMMA OneStep == OneWorker /\ OneInv /\ [Next]_vars => OneInv'
<1> SUFFICES ASSUME OneWorker, OneInv, [Next]_vars PROVE OneInv'
    OBVIOUS
<1>1. Typed'
    BY TypedStep DEF OneInv
<1>2. CASE UNCHANGED vars
    BY <1>1, <1>2, SameSettles DEF OneInv, Scored, Routable, Msg, vars, tables, webhook
<1> QED
    BY <1>1, <1>2, HookScored, WorkerScored, OnlyLosses DEF OneInv, OneWorker

\* With one worker that may be lost any number of times, the stored scores of a
\* message nothing is done for any more are those of its stored tag.
THEOREM OneWorkerScores == OneWorker /\ Spec => []ScoresCurrent
<1> SUFFICES ASSUME OneWorker PROVE Spec => []ScoresCurrent
    OBVIOUS
<1>1. OneInv => ScoresCurrent
  <2> SUFFICES ASSUME OneInv, NEW e \in Events, Quiet(e) PROVE scores[e] = tags[e]
    BY DEF ScoresCurrent
  <2>1. ~Waiting(e)
    BY DEF Quiet, Waiting
  <2>2. ~Working(e)
    BY DEF Quiet, Working, NoJob
  <2> QED
    BY <2>1, <2>2 DEF OneInv, Scored, Settling
<1>2. Init => OneInv
    BY OneInit
<1>3. OneInv /\ [Next]_vars => OneInv'
    BY OneStep
<1> QED
    BY <1>1, <1>2, <1>3, PTL DEF Spec

-----------------------------------------------------------------------------
\* Nothing is forgotten, whatever the number of workers.

\* A task waits, or a slot has yet to finish it.
Alive(t) == queue[t] > 0 \/ \E w \in Workers : Holds(w, t) /\ jobs[w].phase # "done"

\* The route of e has ended: what it asked for is there or still to come.
FollowedUp(e) ==
    /\ tags[e] # None
    /\ scores[e] # None \/ Alive(ScoreTask(e))
    /\ \A k \in Kinds : tags[e] = k => signals[<<e, k>>] # "none" \/ Alive(BuildTask(e, k))

Owed(e) == rawId[e] # 0 => e \in hook \/ Alive(RouteTask(e, rawId[e])) \/ FollowedUp(e)

Kept == Routed /\ \A e \in Events : Owed(e)

\* The step that finishes the task slot w holds.
Finishes(w) ==
    \/ RouteMissing(w) \/ EnqueueFollowups(w)
    \/ BuildStart(w) /\ signals[SignalOf(w)] # "none"
    \/ BuildInsert(w) \/ ScoreCommit(w)

\* A raw event comes by the webhook.
LEMMA RawAppears ==
    ASSUME NoBackfill, Typed, [Next]_vars, NEW e \in Events, rawId[e] = 0, rawId'[e] # 0
    PROVE  WebhookPersist(e)
<1>1. ASSUME NEW o \in Events, WebhookPersist(o) PROVE o = e
    BY <1>1 DEF WebhookPersist, Typed, TypeOK
<1>2. ASSUME NEW o \in Events, WebhookDuplicate(o) \/ WebhookEnqueue(o) PROVE FALSE
    BY <1>2 DEF WebhookDuplicate, WebhookEnqueue, tables
<1>3. ASSUME NEW w \in Workers, WorkerStep(w) \/ WorkerLost(w) PROVE FALSE
    BY <1>3
    DEF WorkerStep, RouteStep, Deliver, Ack, WorkerLost, RouteMissing, RouteUpsert, RouteCommit,
        ResolveRead, ResolveCommit, EnqueueFollowups, BuildStart, BuildInsert, ScoreRead,
        ScoreCommit, tables
<1> QED
    BY <1>1, <1>2, <1>3, OnlyLosses DEF vars, tables

\* A task leaves the broker only to a slot.
LEMMA WaitsOn ==
    ASSUME NoBackfill, Typed, [Next]_vars, NEW t \in Tasks, queue[t] > 0
    PROVE  queue'[t] > 0 \/ \E w \in Workers : Deliver(w, t)
<1>0. queue \in [Tasks -> Nat]
    BY DEF Typed, TypeOK
<1>1. ASSUME NEW sent, Send(sent) PROVE queue'[t] > 0
    BY <1>0, <1>1 DEF Send
<1>2. ASSUME NEW w \in Workers, NEW u \in Tasks, Deliver(w, u) PROVE queue'[t] > 0 \/ u = t
    BY <1>0, <1>2 DEF Deliver
<1>3. ASSUME NEW e \in Events, WebhookPersist(e) \/ WebhookDuplicate(e) \/ WebhookEnqueue(e)
      PROVE  queue'[t] > 0
    BY <1>1, <1>3 DEF WebhookPersist, WebhookDuplicate, WebhookEnqueue
<1>4. ASSUME NEW w \in Workers, WorkerLost(w) PROVE queue'[t] > 0
    BY <1>1, <1>4 DEF WorkerLost
<1>5. ASSUME NEW w \in Workers, EnqueueFollowups(w) PROVE queue'[t] > 0
    BY <1>1, <1>5 DEF EnqueueFollowups
<1>6. ASSUME NEW w \in Workers, WorkerStep(w), ~EnqueueFollowups(w), ~ \E u \in Tasks : Deliver(w, u)
      PROVE  queue' = queue
    BY <1>6
    DEF WorkerStep, RouteStep, Ack, RouteMissing, RouteUpsert, RouteCommit,
        ResolveRead, ResolveCommit, BuildStart, BuildInsert, ScoreRead, ScoreCommit
<1> QED
    BY <1>2, <1>3, <1>4, <1>5, <1>6, OnlyLosses DEF vars

\* A slot keeps its task until it finishes it or is lost.
LEMMA SlotHoldsOn ==
    ASSUME NoBackfill, Typed, [Next]_vars, NEW w \in Workers, NEW t,
           Holds(w, t), jobs[w].phase # "done"
    PROVE  \/ Holds(w, t)' /\ jobs'[w].phase # "done"
           \/ Finishes(w) \/ WorkerLost(w)
<1> DEFINE Kept1 == Holds(w, t)' /\ jobs'[w].phase # "done"
<1>0. jobs \in [Workers -> Job] /\ jobs[w].phase # "idle" /\ jobs[w] # NoJob /\ jobs[w].task = t
    BY DEF Typed, TypeOK, SlotsHold, Holds, NoJob
<1>1. jobs'[w] = jobs[w] => Kept1
    BY <1>0 DEF Holds
<1>2. ASSUME NEW phase, Advance(w, phase), phase \notin {"done", "idle"} PROVE Kept1
  <2>1. jobs'[w].phase = phase /\ jobs'[w].task = t
    BY <1>0, <1>2 DEF Advance, Job
  <2> QED
    BY <1>2, <2>1 DEF Holds, NoJob
<1>3. ASSUME NEW phase, NEW parent, NEW read, NEW open, Remember(w, phase, parent, read, open),
             phase \notin {"done", "idle"}
      PROVE  Kept1
  <2>1. jobs'[w].phase = phase /\ jobs'[w].task = t
    BY <1>0, <1>3 DEF Remember
  <2> QED
    BY <1>3, <2>1 DEF Holds, NoJob
<1>4. CASE RouteUpsert(w) \/ ResolveRead(w) \/ ScoreRead(w) \/ \E d \in Decisions : RouteCommit(w, d)
    BY <1>3, <1>4 DEF RouteUpsert, ResolveRead, ScoreRead, RouteCommit
<1>5. CASE \E closed \in SUBSET jobs[w].open : ResolveCommit(w, closed)
    BY <1>2, <1>5 DEF ResolveCommit
<1>6. CASE BuildStart(w) /\ signals[SignalOf(w)] = "none"
    BY <1>2, <1>6 DEF BuildStart
<1>7. CASE WorkerStep(w)
    BY <1>0, <1>4, <1>5, <1>6, <1>7 DEF WorkerStep, RouteStep, Deliver, Ack, Finishes
<1>8. ASSUME NEW v \in Workers, v # w, WorkerStep(v) \/ WorkerLost(v) PROVE jobs'[w] = jobs[w]
    BY <1>8
    DEF WorkerStep, RouteStep, Deliver, Ack, WorkerLost, RouteMissing, RouteUpsert, RouteCommit,
        ResolveRead, ResolveCommit, EnqueueFollowups, BuildStart, BuildInsert, ScoreRead,
        ScoreCommit, Advance, Free, Remember, Typed, TypeOK
<1>9. ASSUME NEW e \in Events, WebhookPersist(e) \/ WebhookDuplicate(e) \/ WebhookEnqueue(e)
      PROVE  jobs'[w] = jobs[w]
    BY <1>9 DEF WebhookPersist, WebhookDuplicate, WebhookEnqueue
<1> QED
    BY <1>1, <1>7, <1>8, <1>9, OnlyLosses DEF vars

\* So a task lives until a slot that holds it finishes it.
LEMMA AliveStep ==
    ASSUME NoBackfill, Typed, [Next]_vars, NEW t \in Tasks, Alive(t)
    PROVE  Alive(t)' \/ \E w \in Workers : Holds(w, t) /\ Finishes(w)
<1>1. CASE queue[t] > 0
  <2>1. ASSUME NEW w \in Workers, Deliver(w, t) PROVE Holds(w, t)' /\ jobs'[w].phase # "done"
    BY <2>1 DEF Deliver, Holds, NoJob, Typed, TypeOK
  <2> QED
    BY <1>1, <2>1, WaitsOn DEF Alive
<1>2. ASSUME NEW w \in Workers, Holds(w, t), jobs[w].phase # "done"
      PROVE  Alive(t)' \/ Finishes(w)
  <2>1. ASSUME WorkerLost(w) PROVE queue'[t] > 0
    <3>1. PICK sent : Send({t} \cup sent)
        BY <1>2, <2>1 DEF WorkerLost, Holds
    <3> QED
        BY <3>1 DEF Send, Typed, TypeOK
  <2> QED
    BY <1>2, <2>1, SlotHoldsOn DEF Alive
<1> QED
    BY <1>1, <1>2 DEF Alive

\* The follow-ups of a route whose decision is stored are all sent.
LEMMA EnqueueFollowsUp ==
    ASSUME Kept, NEW w \in Workers, NEW e \in Events, e = Msg(w), EnqueueFollowups(w)
    PROVE  FollowedUp(e)'
<1>1. /\ jobs[w].phase = "enqueue" /\ jobs[w].read = tags[e] /\ tags[e] # None
      /\ tags' = tags /\ Send(Followups(w))
    BY DEF Kept, Routed, Backed, SlotBacked, SlotStored, EnqueueFollowups, At, tables
<1>2. ScoreTask(e) \in Tasks /\ \A k \in Kinds : BuildTask(e, k) \in Tasks
    BY <1>1 DEF ScoreTask, BuildTask, Tasks, ScoreTasks, BuildTasks
<1>3. ScoreTask(e) \in Followups(w) /\ \A k \in Kinds : tags[e] = k => BuildTask(e, k) \in Followups(w)
    BY <1>1 DEF Followups
<1>4. \A t \in Tasks : t \in Followups(w) => queue'[t] > 0
    BY <1>1 DEF Send, Kept, Routed, Backed, Typed, TypeOK
<1> QED
    BY <1>1, <1>2, <1>3, <1>4 DEF FollowedUp, Alive

\* What was owed for a message still is, or has been done.
LEMMA OwedStep ==
    ASSUME NoBackfill, Kept, [Next]_vars, NEW e \in Events
    PROVE  Owed(e)'
<1>0. Typed /\ rawId[e] \in Nat
    BY DEF Kept, Routed, Backed, Typed, TypeOK
<1>1. CASE rawId'[e] = 0
    BY <1>1 DEF Owed
<1>2. CASE rawId[e] = 0 /\ WebhookPersist(e)
    BY <1>2 DEF Owed, WebhookPersist
<1> SUFFICES ASSUME rawId'[e] = rawId[e], rawId[e] # 0
             PROVE  e \in hook' \/ Alive(RouteTask(e, rawId[e]))' \/ FollowedUp(e)'
  <2>1. rawId[e] # 0 => rawId'[e] = rawId[e]
    BY IdsStay DEF Kept, Routed
  <2>2. rawId'[e] # 0 /\ rawId[e] = 0 => WebhookPersist(e)
    BY <1>0, RawAppears
  <2> QED
    BY <1>1, <1>2, <2>1, <2>2 DEF Owed
<1>a. rawId[e] \in 1..MaxRows
    BY DEF Kept, Routed, Backed, Typed, TypeOK
<1> DEFINE route == RouteTask(e, rawId[e])
<1>b. route \in Tasks /\ route.kind = "route" /\ route.msg = e /\ route.raw = rawId[e]
    BY <1>a, RouteTaskMade, RouteTaskFields
<1>3. CASE e \in hook
  <2>1. ASSUME WebhookEnqueue(e) PROVE queue'[route] > 0
    BY <1>0, <1>b, <2>1 DEF WebhookEnqueue, Send, Typed, TypeOK
  <2>2. ASSUME NEW o \in Events, WebhookPersist(o) \/ WebhookDuplicate(o) \/ WebhookEnqueue(o)
        PROVE  e \in hook' \/ (o = e /\ WebhookEnqueue(o))
    BY <1>3, <2>2 DEF WebhookPersist, WebhookDuplicate, WebhookEnqueue
  <2>3. ASSUME NEW w \in Workers, WorkerStep(w) \/ WorkerLost(w) PROVE hook' = hook
    BY <2>3
    DEF WorkerStep, RouteStep, Deliver, Ack, WorkerLost, RouteMissing, RouteUpsert, RouteCommit,
        ResolveRead, ResolveCommit, EnqueueFollowups, BuildStart, BuildInsert, ScoreRead,
        ScoreCommit, webhook
  <2>4. e \in hook' \/ WebhookEnqueue(e)
    BY <1>3, <2>2, <2>3, OnlyLosses DEF vars, webhook
  <2> QED
    BY <2>1, <2>4 DEF Alive
<1>4. CASE Alive(route)
  <2>1. Alive(route)' \/ \E w \in Workers : Holds(w, route) /\ Finishes(w)
    BY <1>0, <1>4, <1>b, AliveStep DEF route
  <2>2. ASSUME NEW w \in Workers, Holds(w, route), Finishes(w) PROVE FollowedUp(e)'
    <3>1. jobs[w].task.kind = "route" /\ Msg(w) = e /\ jobs[w].task.raw = rawId[e]
        BY <1>b, <2>2 DEF Holds, Msg
    <3>2. EnqueueFollowups(w)
        BY <2>2, <3>1 DEF Finishes, RouteMissing, BuildStart, BuildInsert, ScoreCommit, At
    <3> QED
        BY <3>1, <3>2, EnqueueFollowsUp
  <2> QED
    BY <2>1, <2>2
<1>5. CASE FollowedUp(e)
  <2>1. CASE \E w \in Workers, d \in Decisions : RouteCommit(w, d) /\ Msg(w) = e
    <3>1. PICK w \in Workers, d \in Decisions : RouteCommit(w, d) /\ Msg(w) = e
        BY <2>1
    <3>2. Holds(w, route)
        BY <3>1 DEF Kept, Routed, SlotStored, RouteCommit, At
    <3>3. jobs'[w].task = route /\ jobs'[w].phase = "resolve"
        BY <1>0, <3>1, <3>2 DEF RouteCommit, Remember, Holds, Typed, TypeOK
    <3> QED
        BY <3>3 DEF Alive, Holds, NoJob
  <2>2. CASE tags'[e] = tags[e]
    <3>1. scores[e] # None => scores'[e] # None
      <4>1. ASSUME NEW w \in Workers, ScoreCommit(w), scores[e] # None PROVE scores'[e] # None
        BY <1>0, <4>1 DEF ScoreCommit, At, Kept, Routed, Backed, SlotBacked, Typed, TypeOK
      <4>2. ASSUME NEW w \in Workers, WorkerStep(w) \/ WorkerLost(w), ~ScoreCommit(w)
            PROVE  scores' = scores
        BY <4>2
        DEF WorkerStep, RouteStep, Deliver, Ack, WorkerLost, RouteMissing, RouteUpsert, RouteCommit,
            ResolveRead, ResolveCommit, EnqueueFollowups, BuildStart, BuildInsert, ScoreRead, tables
      <4>3. ASSUME NEW o \in Events, WebhookPersist(o) \/ WebhookDuplicate(o) \/ WebhookEnqueue(o)
            PROVE  scores' = scores
        BY <4>3 DEF WebhookPersist, WebhookDuplicate, WebhookEnqueue, tables
      <4> QED
        BY <4>1, <4>2, <4>3, OnlyLosses DEF vars, tables
    <3>2. ASSUME Alive(ScoreTask(e)) PROVE scores'[e] # None \/ Alive(ScoreTask(e))'
      <4>1. ScoreTask(e) \in Tasks /\ ScoreTask(e).kind = "score" /\ ScoreTask(e).msg = e
        BY DEF ScoreTask, Tasks, ScoreTasks
      <4>2. Alive(ScoreTask(e))' \/ \E w \in Workers : Holds(w, ScoreTask(e)) /\ Finishes(w)
        BY <1>0, <3>2, <4>1, AliveStep
      <4>3. ASSUME NEW w \in Workers, Holds(w, ScoreTask(e)), Finishes(w) PROVE scores'[e] # None
        <5>1. jobs[w].task.kind = "score" /\ Msg(w) = e
            BY <4>1, <4>3 DEF Holds, Msg
        <5>2. ScoreCommit(w)
            BY <4>3, <5>1 DEF Finishes, RouteMissing, EnqueueFollowups, BuildStart, BuildInsert, At
        <5> QED
            BY <1>0, <5>1, <5>2 DEF ScoreCommit, At, Kept, Routed, Backed, SlotBacked, Typed, TypeOK
      <4> QED
        BY <4>2, <4>3
    <3>3. ASSUME NEW k \in Kinds, signals[<<e, k>>] # "none" \/ Alive(BuildTask(e, k))
          PROVE  signals'[<<e, k>>] # "none" \/ Alive(BuildTask(e, k))'
      <4>0. <<e, k>> \in SignalKeys
        BY DEF SignalKeys
      <4>1. BuildTask(e, k) \in Tasks /\ BuildTask(e, k).kind = "build" /\ BuildTask(e, k).msg = e
            /\ BuildTask(e, k).sig = k
        BY DEF BuildTask, Tasks, BuildTasks
      <4>2. CASE signals[<<e, k>>] # "none"
        BY <1>0, <4>0, <4>2, SignalsStay
      <4>3. CASE Alive(BuildTask(e, k))
        <5>1. Alive(BuildTask(e, k))' \/ \E w \in Workers : Holds(w, BuildTask(e, k)) /\ Finishes(w)
            BY <1>0, <4>1, <4>3, AliveStep
        <5>2. ASSUME NEW w \in Workers, Holds(w, BuildTask(e, k)), Finishes(w)
              PROVE  signals'[<<e, k>>] # "none"
          <6>1. jobs[w].task.kind = "build" /\ SignalOf(w) = <<e, k>>
            BY <4>1, <5>2 DEF Holds, Msg, SignalOf
          <6>2. BuildInsert(w) \/ (BuildStart(w) /\ signals[<<e, k>>] # "none")
            BY <5>2, <6>1 DEF Finishes, RouteMissing, EnqueueFollowups, ScoreCommit, At
          <6>3. BuildInsert(w) => signals'[<<e, k>>] # "none"
            BY <1>0, <4>0, <6>1 DEF BuildInsert, Typed, TypeOK
          <6> QED
            BY <1>0, <4>0, <6>2, <6>3, SignalsStay
        <5> QED
            BY <5>1, <5>2
      <4> QED
        BY <3>3, <4>2, <4>3
    <3> QED
        BY <1>5, <2>2, <3>1, <3>2, <3>3 DEF FollowedUp
  <2> QED
    BY <1>0, <2>1, <2>2, TagStays
<1> QED
    BY <1>3, <1>4, <1>5 DEF Kept, Owed

\* When events come by the webhook and workers may be lost but no task fails,
\* then, however many workers there are and whatever is delivered twice, a
\* stored event at which no one is working any more has its scores and the
\* signal its decision asks for.
THEOREM NothingIsForgotten == NoBackfill /\ Spec => []NothingForgotten
<1> SUFFICES ASSUME NoBackfill PROVE Spec => []NothingForgotten
    OBVIOUS
<1>1. Init => Kept
    BY RoutedInit DEF Init, Kept, Owed
<1>2. Kept /\ [Next]_vars => Kept'
    BY RoutedStep, OwedStep DEF Kept
<1>3. Kept => NothingForgotten
  <2> SUFFICES ASSUME Kept, NEW e \in Events, rawId[e] # 0, Quiet(e)
               PROVE  scores[e] # None /\ (tags[e] \in Kinds => signals[<<e, tags[e]>>] # "none")
    BY DEF NothingForgotten
  <2>1. ASSUME NEW t \in Tasks, t.msg = e PROVE ~Alive(t)
    BY <2>1 DEF Quiet, Alive, Holds, Msg
  <2>2. /\ RouteTask(e, rawId[e]) \in Tasks /\ RouteTask(e, rawId[e]).msg = e
        /\ ScoreTask(e) \in Tasks /\ ScoreTask(e).msg = e
    <3>1. rawId[e] \in 1..MaxRows
        BY DEF Kept, Routed, Backed, Typed, TypeOK
    <3> QED
        BY <3>1, RouteTaskMade, RouteTaskFields DEF ScoreTask, Tasks, ScoreTasks
  <2>3. \A k \in Kinds : BuildTask(e, k) \in Tasks /\ BuildTask(e, k).msg = e
    BY DEF BuildTask, Tasks, BuildTasks
  <2> QED
    BY <2>1, <2>2, <2>3 DEF Kept, Owed, FollowedUp, Quiet
<1> QED
    BY <1>1, <1>2, <1>3, PTL DEF Spec
=============================================================================
