------------------------ MODULE MessagePipelineProofs ------------------------
(***************************************************************************)
(* Proofs about MessagePipeline, for any messages, threads, kinds, workers *)
(* and backfills, and any bounds.                                          *)
(***************************************************************************)
EXTENDS MessagePipeline, TLAPS

USE ThreadAssumption, NullAssumption, BoundAssumption

-----------------------------------------------------------------------------
\* Type correctness.

\* A slot is empty or holds a task.
SlotsHold ==
    \A w \in Workers : IF jobs[w].phase = "idle" THEN jobs[w] = NoJob ELSE jobs[w].task \in Tasks

Typed == TypeOK /\ SlotsHold

\* A task's fields have the types its kind calls for.
LEMMA TaskFields ==
    ASSUME NEW t \in Tasks
    PROVE  /\ t.msg \in Events /\ t.kind \in {"route", "build", "score"}
           /\ t.kind = "route" => t = RouteTask(t.msg, t.raw) /\ t.raw \in 1..MaxRows
           /\ t.kind = "build" => t = BuildTask(t.msg, t.sig) /\ t.sig \in Kinds
           /\ t.kind = "score" => t = ScoreTask(t.msg)
    BY DEF Tasks, RouteTasks, BuildTasks, ScoreTasks, RouteTask, BuildTask, ScoreTask

\* Sending leaves every count a natural number.
LEMMA SendTyped ==
    ASSUME queue \in [Tasks -> Nat], NEW sent, Send(sent)
    PROVE  queue' \in [Tasks -> Nat]
    BY DEF Send

\* The initial states are well typed.
LEMMA InitTyped == Init => Typed
    BY DEF Init, Typed, TypeOK, SlotsHold, Job, NoJob, Phases, NoTxn, Decisions

\* A slot given a well-formed job that holds a task if it is busy: moving on,
\* remembering what was read, and being emptied are such changes.
LEMMA SlotTyped ==
    ASSUME Typed, NEW w \in Workers, NEW j \in Job,
           j = NoJob \/ (j.phase # "idle" /\ j.task \in Tasks),
           jobs' = [jobs EXCEPT ![w] = j]
    PROVE  jobs' \in [Workers -> Job] /\ SlotsHold'
<1>1. jobs \in [Workers -> Job] /\ SlotsHold
    BY DEF Typed, TypeOK
<1>2. jobs' \in [Workers -> Job]
    BY <1>1
<1>3. SlotsHold'
  <2> SUFFICES ASSUME NEW v \in Workers
               PROVE  IF jobs'[v].phase = "idle" THEN jobs'[v] = NoJob
                                                 ELSE jobs'[v].task \in Tasks
    BY DEF SlotsHold
  <2>1. CASE v = w
    <3>1. jobs'[v] = j
        BY <1>1, <2>1
    <3>2. NoJob.phase = "idle"
        BY DEF NoJob
    <3> QED
        BY <3>1, <3>2
  <2>2. CASE v # w
    <3>1. jobs'[v] = jobs[v]
        BY <1>1, <2>2
    <3> QED
        BY <1>1, <3>1 DEF SlotsHold
  <2> QED
    BY <2>1, <2>2
<1> QED
    BY <1>2, <1>3

\* A busy slot that advances keeps its task.
LEMMA AdvanceTyped ==
    ASSUME Typed, NEW w \in Workers, jobs[w].phase # "idle", NEW phase \in Phases \ {"idle"},
           Advance(w, phase)
    PROVE  jobs' \in [Workers -> Job] /\ SlotsHold'
<1>0. jobs[w] \in Job
    BY DEF Typed, TypeOK
<1>1. /\ [jobs[w] EXCEPT !.phase = phase] \in Job
      /\ [jobs[w] EXCEPT !.phase = phase].phase = phase
      /\ [jobs[w] EXCEPT !.phase = phase].task = jobs[w].task
    BY <1>0 DEF Job
<1>2. jobs[w].task \in Tasks
    BY DEF Typed, SlotsHold
<1> QED
    BY <1>1, <1>2, SlotTyped DEF Advance

\* A slot that is freed holds no task.
LEMMA FreeTyped ==
    ASSUME Typed, NEW w \in Workers, Free(w)
    PROVE  jobs' \in [Workers -> Job] /\ SlotsHold'
<1>1. NoJob \in Job /\ NoJob.phase = "idle"
    BY DEF NoJob, Job, Phases
<1>2. jobs' = [jobs EXCEPT ![w] = NoJob]
    BY DEF Free
<1> QED
    BY <1>1, <1>2 DEF Typed, TypeOK, SlotsHold

\* A busy slot that remembers what it read keeps its task.
LEMMA RememberTyped ==
    ASSUME Typed, NEW w \in Workers, jobs[w].phase # "idle", NEW phase \in Phases \ {"idle"},
           NEW parent \in Events \cup {None}, NEW read \in Decisions \cup {None},
           NEW open \in SUBSET SignalKeys,
           Remember(w, phase, parent, read, open)
    PROVE  jobs' \in [Workers -> Job] /\ SlotsHold'
<1> DEFINE j == [task |-> jobs[w].task, phase |-> phase, parent |-> parent,
                 read |-> read, open |-> open]
<1>1. jobs[w].task \in Tasks
    BY DEF Typed, SlotsHold
<1>2. j \in Job /\ j.task \in Tasks /\ j.phase # "idle"
    BY <1>1 DEF Job
<1> QED
    BY <1>2, SlotTyped DEF Remember

\* Every step keeps the types, one case for each action.
LEMMA TypedStep == Typed /\ [Next]_vars => Typed'
<1> SUFFICES ASSUME Typed, [Next]_vars PROVE Typed'
    OBVIOUS
<1> USE DEF Typed, TypeOK, SlotsHold, tables, webhook
<1>1. ASSUME NEW e \in Events, WebhookPersist(e) PROVE Typed'
    BY <1>1 DEF WebhookPersist
<1>2. ASSUME NEW e \in Events, WebhookDuplicate(e) PROVE Typed'
    BY <1>2 DEF WebhookDuplicate
<1>3. ASSUME NEW e \in Events, WebhookEnqueue(e) PROVE Typed'
  <2>1. queue' \in [Tasks -> Nat]
    BY <1>3, SendTyped DEF WebhookEnqueue
  <2> QED
    BY <1>3, <2>1 DEF WebhookEnqueue
<1>3a. ASSUME NEW e \in Events, WebhookEnqueueLost(e) PROVE Typed'
    BY <1>3a DEF WebhookEnqueueLost, Fault
<1>4. ASSUME NEW s \in Syncs, SyncCommit(s) PROVE Typed'
  <2>1. sync[s].event \in Events /\ sync[s].raw \in 0..MaxRows
    BY <1>4 DEF SyncCommit
  <2>2. threadRoot' \in [Events -> Events \cup {None}]
    BY <1>4, <2>1 DEF SyncCommit, Linked
  <2>3. sync' \in [Syncs -> [event : Events \cup {None}, raw : 0..MaxRows, stores : SUBSET Events]]
    BY <1>4 DEF SyncCommit, NoTxn
  <2>4. rawId' \in [Events -> 0..MaxRows]
    BY <1>4, <2>1 DEF SyncCommit
  <2>5. messages' \subseteq Events
    BY <1>4, <2>1 DEF SyncCommit
  <2> QED
    BY <1>4, <2>2, <2>3, <2>4, <2>5 DEF SyncCommit
<1>4a. ASSUME NEW s \in Syncs, SyncAbort(s) PROVE Typed'
  <2>1. sync' \in [Syncs -> [event : Events \cup {None}, raw : 0..MaxRows, stores : SUBSET Events]]
    BY <1>4a DEF SyncAbort, NoTxn
  <2> QED
    BY <1>4a, <2>1 DEF SyncAbort, Fault
<1>5. ASSUME NEW s \in Syncs, NEW e \in Events, SyncPersistRaw(s, e) PROVE Typed'
  <2>1. queue' \in [Tasks -> Nat]
    BY <1>5, SendTyped DEF SyncPersistRaw
  <2>2. lastId' \in [Events -> 0..MaxRows]
    <3>1. CASE lastId' = lastId
        BY <3>1
    <3>2. CASE lastId[e] < MaxRows /\ lastId' = [lastId EXCEPT ![e] = @ + 1]
        BY <3>2
    <3> QED
        BY <1>5, <3>1, <3>2 DEF SyncPersistRaw
  <2>3. sync' \in [Syncs -> [event : Events \cup {None}, raw : 0..MaxRows, stores : SUBSET Events]]
    <3>1. CASE rawId[e] # 0
        BY <1>5, <3>1 DEF SyncPersistRaw
    <3>2. CASE rawId[e] = 0
        BY <1>5, <3>2 DEF SyncPersistRaw
    <3> QED
        BY <3>1, <3>2
  <2> QED
    BY <1>5, <2>1, <2>2, <2>3 DEF SyncPersistRaw
<1>5a. ASSUME NEW s \in Syncs, NEW e \in Events, SyncSendRefused(s, e) PROVE Typed'
  <2>1. lastId' \in [Events -> 0..MaxRows]
    BY <1>5a DEF SyncSendRefused
  <2>2. sync' \in [Syncs -> [event : Events \cup {None}, raw : 0..MaxRows, stores : SUBSET Events]]
    BY <1>5a DEF SyncSendRefused
  <2> QED
    BY <1>5a, <2>1, <2>2 DEF SyncSendRefused, Fault
<1>6. ASSUME NEW w \in Workers, NEW t \in Tasks, Deliver(w, t) PROVE Typed'
  <2>1. jobs' = [jobs EXCEPT ![w] = [NoJob EXCEPT !.task = t, !.phase = "start"]]
    BY <1>6 DEF Deliver
  <2>2. [NoJob EXCEPT !.task = t, !.phase = "start"] \in Job
    BY DEF NoJob, Job, Phases
  <2>3. jobs' \in [Workers -> Job]
    BY <2>1, <2>2
  <2>4. SlotsHold'
    BY <2>1 DEF NoJob
  <2>5. queue' \in [Tasks -> Nat]
    BY <1>6 DEF Deliver
  <2> QED
    BY <1>6, <2>3, <2>4, <2>5 DEF Deliver
<1>7. ASSUME NEW w \in Workers, Ack(w) PROVE Typed'
    BY <1>7, FreeTyped DEF Ack
<1>8. ASSUME NEW w \in Workers, TaskFails(w) PROVE Typed'
    BY <1>8, FreeTyped DEF TaskFails, Fault
<1>9. ASSUME NEW w \in Workers, WorkerLost(w) PROVE Typed'
  <2>1. queue' \in [Tasks -> Nat]
    BY <1>9, SendTyped DEF WorkerLost
  <2> QED
    BY <1>9, <2>1, FreeTyped DEF WorkerLost, Fault
<1>10. ASSUME NEW w \in Workers, RouteMissing(w) PROVE Typed'
    BY <1>10, AdvanceTyped DEF Phases, RouteMissing, At
<1>11. ASSUME NEW w \in Workers, RouteUpsert(w) PROVE Typed'
  <2>1. ParentOf[Msg(w)] \in messages => ParentOf[Msg(w)] \in Events
    OBVIOUS
  <2>2. jobs[w].phase # "idle"
    BY <1>11 DEF RouteUpsert, At
  <2>3. "classify" \in Phases \ {"idle"} /\ {} \in SUBSET SignalKeys
    BY DEF Phases
  <2>4. jobs' \in [Workers -> Job] /\ SlotsHold'
    BY <1>11, <2>1, <2>2, <2>3, RememberTyped DEF RouteUpsert
  <2> QED
    BY <1>11, <2>4 DEF RouteUpsert
<1>12. ASSUME NEW w \in Workers, NEW d \in Decisions, RouteCommit(w, d) PROVE Typed'
  <2>1. Msg(w) \in Events
    BY <1>12, TaskFields DEF RouteCommit, At, Msg
  <2>2. jobs' \in [Workers -> Job] /\ SlotsHold'
    <3>1. jobs[w].phase # "idle"
        BY <1>12 DEF RouteCommit, At
    <3>2. "resolve" \in Phases \ {"idle"} /\ {} \in SUBSET SignalKeys
        BY DEF Phases
    <3> QED
        BY <1>12, <3>1, <3>2, RememberTyped DEF RouteCommit
  <2>3. threadRoot' \in [Events -> Events \cup {None}]
    <3>1. jobs[w].parent \in Events \cup {None}
        BY DEF Job
    <3> QED
        BY <1>12, <2>1, <3>1 DEF RouteCommit
  <2>4. tags' \in [Events -> Decisions \cup {None}]
    BY <1>12, <2>1 DEF RouteCommit
  <2>5. messages' \subseteq Events
    BY <1>12, <2>1 DEF RouteCommit
  <2> QED
    BY <1>12, <2>2, <2>3, <2>4, <2>5 DEF RouteCommit
<1>13. ASSUME NEW w \in Workers, ResolveRead(w) PROVE Typed'
  <2>1. OpenInThread(threadRoot[Msg(w)]) \in SUBSET SignalKeys
    BY DEF OpenInThread
  <2>1a. jobs[w].read \in Decisions \cup {None}
    BY DEF Job
  <2>2. jobs' \in [Workers -> Job] /\ SlotsHold'
    BY <1>13, <2>1, <2>1a, RememberTyped DEF ResolveRead, At, Phases
  <2> QED
    BY <1>13, <2>2 DEF ResolveRead
<1>14. ASSUME NEW w \in Workers, NEW closed \in SUBSET jobs[w].open, ResolveCommit(w, closed)
       PROVE  Typed'
  <2>1. Msg(w) \in Events
    BY <1>14, TaskFields DEF ResolveCommit, At, Msg
  <2>2. jobs' \in [Workers -> Job] /\ SlotsHold'
    BY <1>14, AdvanceTyped DEF Phases, ResolveCommit, At
  <2>3. signals' \in [SignalKeys -> {"none", "open", "resolved"}]
    BY <1>14 DEF ResolveCommit
  <2>4. closedBy' \in [SignalKeys -> Events \cup {None}]
    BY <1>14, <2>1 DEF ResolveCommit
  <2> QED
    BY <1>14, <2>2, <2>3, <2>4 DEF ResolveCommit
<1>15. ASSUME NEW w \in Workers, EnqueueFollowups(w) PROVE Typed'
  <2>1. queue' \in [Tasks -> Nat]
    BY <1>15, SendTyped DEF EnqueueFollowups
  <2> QED
    BY <1>15, <2>1, AdvanceTyped DEF Phases, EnqueueFollowups, At
<1>16. ASSUME NEW w \in Workers, EnqueueFollowupsLost(w) PROVE Typed'
  <2>1. queue' \in [Tasks -> Nat]
    BY <1>16, SendTyped DEF EnqueueFollowupsLost
  <2> QED
    BY <1>16, <2>1, AdvanceTyped DEF Phases, EnqueueFollowupsLost, At, Fault
<1>17. ASSUME NEW w \in Workers, BuildStart(w) PROVE Typed'
    BY <1>17, AdvanceTyped DEF Phases, BuildStart, At
<1>18. ASSUME NEW w \in Workers, BuildInsert(w) PROVE Typed'
  <2>1. signals' \in [SignalKeys -> {"none", "open", "resolved"}]
    BY <1>18 DEF BuildInsert
  <2> QED
    BY <1>18, <2>1, AdvanceTyped DEF Phases, BuildInsert, At
<1>19. ASSUME NEW w \in Workers, ScoreRead(w) PROVE Typed'
  <2>1. tags[Msg(w)] \in Decisions \cup {None}
    BY <1>19, TaskFields DEF ScoreRead, At, Msg
  <2>2. jobs' \in [Workers -> Job] /\ SlotsHold'
    <3>1. jobs[w].phase # "idle"
        BY <1>19 DEF ScoreRead, At
    <3>2. "compute" \in Phases \ {"idle"} /\ {} \in SUBSET SignalKeys
        BY DEF Phases
    <3> QED
        BY <1>19, <2>1, <3>1, <3>2, RememberTyped DEF ScoreRead
  <2> QED
    BY <1>19, <2>2 DEF ScoreRead
<1>20. ASSUME NEW w \in Workers, ScoreCommit(w) PROVE Typed'
  <2>1. jobs[w].read \in Decisions \cup {None}
    BY DEF Job
  <2>2. scores' \in [Events -> Decisions \cup {None}]
    BY <1>20, <2>1 DEF ScoreCommit
  <2> QED
    BY <1>20, <2>2, AdvanceTyped DEF Phases, ScoreCommit, At
<1>21. ASSUME UNCHANGED vars PROVE Typed'
    BY <1>21 DEF vars
<1> QED
    BY <1>1, <1>2, <1>3, <1>3a, <1>4, <1>4a, <1>5, <1>5a, <1>6, <1>7, <1>8, <1>9, <1>10, <1>11, <1>12,
       <1>13, <1>14, <1>15, <1>16, <1>17, <1>18, <1>19, <1>20, <1>21
    DEF Next, Failure, WorkerStep, RouteStep

\* The type invariant: whatever is delivered, lost or repeated, every column
\* holds a value of its type and every count stays within its bound.
THEOREM TypeCorrect == Spec => []TypeOK
<1>1. Init => Typed
    BY InitTyped
<1>2. Typed /\ [Next]_vars => Typed'
    BY TypedStep
<1>3. Typed => TypeOK
    BY DEF Typed
<1> QED
    BY <1>1, <1>2, <1>3, PTL DEF Spec

-----------------------------------------------------------------------------
\* Derived rows stand on the rows they were derived from.

\* What a job or a waiting follow-up has seen committed: the raw event, from
\* the moment it was found, and the stored decision, from its commit on.
SlotBacked(w) ==
    /\ jobs[w].phase \in {"classify", "resolve", "judge", "enqueue"} => rawId[Msg(w)] # 0
    /\ jobs[w].phase \in {"resolve", "judge", "enqueue"} => tags[Msg(w)] # None
    /\ jobs[w].phase = "judge" => \A s \in jobs[w].open : signals[s] # "none"
    /\ jobs[w].phase = "compute" => jobs[w].read # None
    /\ jobs[w].phase # "idle" /\ jobs[w].task.kind # "route" => tags[Msg(w)] # None

QueueBacked == \A t \in Tasks : queue[t] > 0 /\ t.kind # "route" => tags[t.msg] # None

Backed ==
    /\ Typed
    /\ \A w \in Workers : SlotBacked(w)
    /\ QueueBacked
    /\ DerivedRowsBacked

\* The tables only grow: no step removes a raw event, a message or a decision.
LEMMA RowsStay ==
    ASSUME Typed, [Next]_vars, NEW e \in Events
    PROVE  /\ rawId[e] # 0 => rawId'[e] # 0
           /\ tags[e] # None => tags'[e] # None
           /\ e \in messages => e \in messages'
<1> DEFINE Stay == /\ rawId[e] # 0 => rawId'[e] # 0
                   /\ tags[e] # None => tags'[e] # None
                   /\ e \in messages => e \in messages'
<1> USE DEF Typed, TypeOK, tables
<1>1. ASSUME NEW f \in Events, WebhookPersist(f) PROVE Stay
    BY <1>1 DEF WebhookPersist
<1>2. ASSUME NEW s \in Syncs, SyncCommit(s) PROVE Stay
    BY <1>2 DEF SyncCommit
<1>3. ASSUME NEW s \in Syncs, NEW f \in Events, SyncPersistRaw(s, f) PROVE Stay
    BY <1>3 DEF SyncPersistRaw
<1>4. ASSUME NEW w \in Workers, NEW d \in Decisions, RouteCommit(w, d) PROVE Stay
    BY <1>4 DEF RouteCommit
<1>5. CASE UNCHANGED <<rawId, tags, messages>>
    BY <1>5
<1> QED
    BY <1>1, <1>2, <1>3, <1>4, <1>5
    DEF Next, Failure, WorkerStep, RouteStep, vars, WebhookDuplicate, WebhookEnqueue,
        WebhookEnqueueLost, SyncSendRefused, SyncAbort, Deliver, Ack, TaskFails, WorkerLost, RouteMissing,
        RouteUpsert, ResolveRead, ResolveCommit, EnqueueFollowups, EnqueueFollowupsLost,
        BuildStart, BuildInsert, ScoreRead, ScoreCommit

\* No step removes a signal.
LEMMA SignalsStay ==
    ASSUME Typed, [Next]_vars, NEW s \in SignalKeys, signals[s] # "none"
    PROVE  signals'[s] # "none"
<1> USE DEF Typed, TypeOK, tables
<1>1. ASSUME NEW w \in Workers, NEW closed, ResolveCommit(w, closed) PROVE signals'[s] # "none"
    BY <1>1 DEF ResolveCommit
<1>2. ASSUME NEW w \in Workers, BuildInsert(w) PROVE signals'[s] # "none"
    BY <1>2 DEF BuildInsert
<1>3. CASE signals' = signals
    BY <1>3
<1> QED
    BY <1>1, <1>2, <1>3
    DEF Next, Failure, WorkerStep, RouteStep, vars, WebhookPersist, WebhookDuplicate,
        WebhookEnqueue, WebhookEnqueueLost, SyncPersistRaw, SyncSendRefused, SyncCommit, SyncAbort, Deliver, Ack,
        TaskFails, WorkerLost, RouteMissing, RouteUpsert, RouteCommit, ResolveRead,
        EnqueueFollowups, EnqueueFollowupsLost, BuildStart, ScoreRead, ScoreCommit

\* A follow-up is sent, or sent again, only by a slot that has its message's
\* decision stored.
LEMMA FollowupsBacked ==
    ASSUME Backed, NEW w \in Workers, jobs[w].phase = "enqueue", NEW t \in Followups(w)
    PROVE  t \in Tasks /\ tags[t.msg] # None
<1>1. Msg(w) \in Events /\ tags[Msg(w)] # None
    BY TaskFields DEF Backed, Typed, SlotsHold, SlotBacked, Msg
<1>2. t.msg = Msg(w) /\ t \in Tasks
    BY <1>1 DEF Followups, ScoreTask, BuildTask, Tasks, ScoreTasks, BuildTasks
<1> QED
    BY <1>1, <1>2

\* A slot that a step leaves alone stays backed, and so does a waiting task.
LEMMA SlotStays ==
    ASSUME Typed, [Next]_vars, NEW v \in Workers, SlotBacked(v), jobs'[v] = jobs[v]
    PROVE  SlotBacked(v)'
<1>1. CASE jobs[v].phase = "idle"
    BY <1>1 DEF SlotBacked
<1>2. CASE jobs[v].phase # "idle"
  <2>1. Msg(v) \in Events /\ Msg(v)' = Msg(v)
    BY <1>2, TaskFields DEF Typed, SlotsHold, Msg
  <2>2. /\ rawId[Msg(v)] # 0 => rawId'[Msg(v)] # 0
        /\ tags[Msg(v)] # None => tags'[Msg(v)] # None
    BY <2>1, RowsStay
  <2>3. \A s \in jobs[v].open : signals[s] # "none" => signals'[s] # "none"
    BY SignalsStay DEF Typed, TypeOK, Job
  <2> QED
    BY <2>1, <2>2, <2>3 DEF SlotBacked
<1> QED
    BY <1>1, <1>2

\* What is sent after its tag is stored keeps the broker's tasks backed.
LEMMA QueueStays ==
    ASSUME Typed, [Next]_vars, QueueBacked, NEW sent,
           Send(sent), \A t \in sent \cap Tasks : t.kind # "route" => tags[t.msg] # None
    PROVE  QueueBacked'
<1>1. \A t \in Tasks : queue'[t] > 0 => queue[t] > 0 \/ t \in sent
    BY DEF Send, Typed, TypeOK
<1>2. \A t \in Tasks : tags[t.msg] # None => tags'[t.msg] # None
    BY TaskFields, RowsStay
<1> QED
    BY <1>1, <1>2 DEF QueueBacked

\* At first there is nothing to back.
LEMMA BackedInit == Init => Backed
<1> SUFFICES ASSUME Init PROVE Backed
    OBVIOUS
<1>1. Typed
    BY InitTyped
<1>2. \A w \in Workers : SlotBacked(w)
    BY DEF Init, SlotBacked, NoJob
<1>3. QueueBacked /\ DerivedRowsBacked
    BY DEF Init, QueueBacked, DerivedRowsBacked, SignalKeys
<1> QED
    BY <1>1, <1>2, <1>3 DEF Backed

\* One step per action that moves a slot: the slot that acts.
LEMMA SlotsBackedStep ==
    ASSUME Backed, [Next]_vars, NEW v \in Workers
    PROVE  SlotBacked(v)'
<1> USE DEF Backed, Typed, TypeOK
<1>0. CASE jobs'[v] = jobs[v]
    BY <1>0, SlotStays
<1>1. ASSUME NEW t \in Tasks, Deliver(v, t) PROVE SlotBacked(v)'
  <2>1. jobs'[v] = [NoJob EXCEPT !.task = t, !.phase = "start"]
    BY <1>1 DEF Deliver
  <2>2. t.kind # "route" => tags[t.msg] # None
    BY <1>1 DEF Deliver, QueueBacked
  <2>3. tags' = tags
    BY <1>1 DEF Deliver, tables
  <2> QED
    BY <2>1, <2>2, <2>3 DEF SlotBacked, NoJob, Msg
<1>2. CASE Free(v)
    BY <1>2 DEF Free, NoJob, SlotBacked
<1>3. ASSUME Advance(v, "done"), jobs[v].phase # "idle" PROVE SlotBacked(v)'
  <2>1. jobs'[v].phase = "done" /\ jobs'[v].task = jobs[v].task
    BY <1>3 DEF Advance, Job
  <2>2. jobs[v].task.msg \in Events
    BY <1>3, TaskFields DEF SlotsHold
  <2> QED
    BY <1>3, <2>1, <2>2, RowsStay DEF SlotBacked, Msg
<1>4. CASE RouteUpsert(v)
  <2>1. jobs[v].task \in Tasks /\ jobs[v].task.kind = "route"
    BY <1>4 DEF RouteUpsert, At, SlotsHold
  <2>2. rawId[Msg(v)] # 0
    BY <1>4, <2>1, TaskFields DEF RouteUpsert
  <2>3. jobs'[v].phase = "classify" /\ jobs'[v].task = jobs[v].task /\ rawId' = rawId
    BY <1>4 DEF RouteUpsert, Remember, tables
  <2> QED
    BY <2>1, <2>2, <2>3 DEF SlotBacked, Msg
<1>5. ASSUME NEW d \in Decisions, RouteCommit(v, d) PROVE SlotBacked(v)'
  <2>1. jobs[v].task \in Tasks /\ jobs[v].task.kind = "route" /\ rawId[Msg(v)] # 0
    BY <1>5 DEF RouteCommit, At, SlotsHold, SlotBacked
  <2>2. Msg(v) \in Events
    BY <2>1, TaskFields DEF Msg
  <2>3. jobs'[v].phase = "resolve" /\ jobs'[v].task = jobs[v].task /\ rawId' = rawId
    BY <1>5 DEF RouteCommit, Remember
  <2>4. tags'[Msg(v)] = d /\ d # None
    BY <1>5, <2>2 DEF RouteCommit
  <2> QED
    BY <2>1, <2>3, <2>4 DEF SlotBacked, Msg
<1>6. CASE ResolveRead(v)
  <2>1. /\ jobs'[v].phase = "judge" /\ jobs'[v].task = jobs[v].task
        /\ jobs'[v].open = OpenInThread(threadRoot[Msg(v)])
    BY <1>6 DEF ResolveRead, Remember
  <2>2. \A s \in jobs'[v].open : signals[s] = "open"
    BY <2>1 DEF OpenInThread
  <2> QED
    BY <1>6, <2>1, <2>2 DEF ResolveRead, At, SlotBacked, Msg, tables
<1>7. ASSUME NEW closed, ResolveCommit(v, closed) PROVE SlotBacked(v)'
  <2>1. jobs'[v].phase = "enqueue" /\ jobs'[v].task = jobs[v].task
    BY <1>7 DEF ResolveCommit, Advance, Job
  <2> QED
    BY <1>7, <2>1 DEF ResolveCommit, At, SlotBacked, Msg
<1>8. CASE BuildStart(v)
  <2>1. jobs'[v].phase \in {"draft", "done"} /\ jobs'[v].task = jobs[v].task
    BY <1>8 DEF BuildStart, Advance, Job
  <2> QED
    BY <1>8, <2>1 DEF BuildStart, At, SlotBacked, Msg, tables
<1>9. CASE ScoreRead(v)
  <2>1. /\ jobs'[v].phase = "compute" /\ jobs'[v].task = jobs[v].task
        /\ jobs'[v].read = tags[Msg(v)]
    BY <1>9 DEF ScoreRead, Remember
  <2> QED
    BY <1>9, <2>1 DEF ScoreRead, At, SlotBacked, Msg, tables
<1>10. ASSUME NEW w \in Workers, WorkerStep(w) \/ TaskFails(w) \/ WorkerLost(w) \/ EnqueueFollowupsLost(w)
       PROVE  SlotBacked(v)'
  <2>1. CASE w # v
    <3>1. jobs'[v] = jobs[v]
        BY <1>10, <2>1
        DEF WorkerStep, RouteStep, Deliver, Ack, TaskFails, WorkerLost, RouteMissing,
            RouteUpsert, RouteCommit, ResolveRead, ResolveCommit, EnqueueFollowups,
            EnqueueFollowupsLost, BuildStart, BuildInsert, ScoreRead, ScoreCommit,
            Advance, Free, Remember
    <3> QED
        BY <3>1, <1>0
  <2>2. CASE w = v
    BY <1>10, <2>2, <1>1, <1>2, <1>3, <1>4, <1>5, <1>6, <1>7, <1>8, <1>9
    DEF WorkerStep, RouteStep, Ack, TaskFails, WorkerLost, RouteMissing, EnqueueFollowups,
        EnqueueFollowupsLost, BuildInsert, ScoreCommit, At
  <2> QED
    BY <2>1, <2>2
<1>11. CASE jobs' = jobs
    BY <1>11, <1>0
<1> QED
    BY <1>10, <1>11
    DEF Next, Failure, WebhookPersist, WebhookDuplicate, WebhookEnqueue, WebhookEnqueueLost,
        SyncPersistRaw, SyncSendRefused, SyncCommit, SyncAbort, vars

\* The broker's tasks stay backed: only a tagged message's follow-ups are sent.
LEMMA QueueBackedStep == Backed /\ [Next]_vars => QueueBacked'
<1> SUFFICES ASSUME Backed, [Next]_vars PROVE QueueBacked'
    OBVIOUS
<1> USE DEF Backed, Typed, TypeOK
<1>1. CASE queue' = queue
  <2>1. ASSUME NEW t \in Tasks, queue'[t] > 0, t.kind # "route" PROVE tags'[t.msg] # None
    BY <1>1, <2>1, TaskFields, RowsStay DEF QueueBacked
  <2> QED
    BY <2>1 DEF QueueBacked
<1>2. ASSUME NEW e \in Events, WebhookEnqueue(e) PROVE QueueBacked'
    BY <1>2, QueueStays DEF WebhookEnqueue, RouteTask
<1>3. ASSUME NEW s \in Syncs, NEW e \in Events, SyncPersistRaw(s, e) PROVE QueueBacked'
  <2>1. CASE Send({RouteTask(e, lastId[e] + 1)})
    BY <2>1, QueueStays DEF RouteTask
  <2> QED
    BY <1>1, <1>3, <2>1 DEF SyncPersistRaw
<1>4. ASSUME NEW w \in Workers, NEW t \in Tasks, Deliver(w, t) PROVE QueueBacked'
  <2>1. tags' = tags /\ \A u \in Tasks : queue'[u] > 0 => queue[u] > 0
    BY <1>4 DEF Deliver, tables
  <2> QED
    BY <2>1 DEF QueueBacked
<1>5. ASSUME NEW w \in Workers, WorkerLost(w) PROVE QueueBacked'
  <2>1. PICK sent : /\ Send({jobs[w].task} \cup sent)
                    /\ jobs[w].phase = "enqueue" \/ sent = {}
                    /\ sent \subseteq Followups(w)
    BY <1>5 DEF WorkerLost, At
  <2>2. \A t \in sent : tags[t.msg] # None
    BY <2>1, FollowupsBacked
  <2>3. jobs[w].phase # "idle"
    BY <1>5 DEF WorkerLost, SlotsHold
  <2>4. jobs[w].task.kind # "route" => tags[jobs[w].task.msg] # None
    BY <2>3 DEF SlotBacked, Msg
  <2> QED
    BY <2>1, <2>2, <2>4, QueueStays
<1>6. ASSUME NEW w \in Workers, EnqueueFollowups(w) \/ EnqueueFollowupsLost(w) PROVE QueueBacked'
  <2>1. PICK sent : Send(sent) /\ sent \subseteq Followups(w) /\ jobs[w].phase = "enqueue"
    BY <1>6 DEF EnqueueFollowups, EnqueueFollowupsLost, At
  <2>2. \A t \in sent : tags[t.msg] # None
    BY <2>1, FollowupsBacked
  <2> QED
    BY <2>1, <2>2, QueueStays
<1> QED
    BY <1>1, <1>2, <1>3, <1>4, <1>5, <1>6
    DEF Next, Failure, WorkerStep, RouteStep, WebhookPersist, WebhookDuplicate,
        WebhookEnqueueLost, SyncSendRefused, SyncCommit, SyncAbort, Ack, TaskFails, RouteMissing, RouteUpsert,
        RouteCommit, ResolveRead, ResolveCommit, BuildStart, BuildInsert, ScoreRead,
        ScoreCommit, vars

\* So do the tables: what a task writes was backed when it wrote.
LEMMA RowsBackedStep == Backed /\ [Next]_vars => DerivedRowsBacked'
<1> SUFFICES ASSUME Backed, [Next]_vars PROVE DerivedRowsBacked'
    OBVIOUS
<1> USE DEF Backed, Typed, TypeOK, SignalKeys
<1>1. CASE UNCHANGED <<tags, scores, signals>>
    BY <1>1, RowsStay DEF DerivedRowsBacked
<1>2. ASSUME NEW w \in Workers, NEW d \in Decisions, RouteCommit(w, d) PROVE DerivedRowsBacked'
  <2>1. Msg(w) \in Events /\ rawId[Msg(w)] # 0
    BY <1>2, TaskFields DEF RouteCommit, At, SlotsHold, SlotBacked, Msg
  <2>2. /\ Msg(w) \in messages' /\ messages \subseteq messages'
        /\ \A e \in Events : tags'[e] # None => e = Msg(w) \/ tags[e] # None
        /\ UNCHANGED <<rawId, scores, signals>>
    BY <1>2, <2>1 DEF RouteCommit
  <2> QED
    BY <2>1, <2>2, RowsStay DEF DerivedRowsBacked
<1>3. ASSUME NEW w \in Workers, NEW closed \in SUBSET jobs[w].open, ResolveCommit(w, closed)
      PROVE  DerivedRowsBacked'
  <2>1. \A s \in SignalKeys : signals'[s] # "none" => signals[s] # "none"
    BY <1>3 DEF ResolveCommit, At, SlotBacked
  <2>2. UNCHANGED <<tags, scores, rawId, messages>>
    BY <1>3 DEF ResolveCommit
  <2> QED
    BY <2>1, <2>2 DEF DerivedRowsBacked
<1>4. ASSUME NEW w \in Workers, BuildInsert(w) PROVE DerivedRowsBacked'
  <2>1. tags[Msg(w)] # None
    BY <1>4 DEF BuildInsert, At, SlotBacked
  <2>2. \A s \in SignalKeys : signals'[s] # "none" => signals[s] # "none" \/ s[1] = Msg(w)
    BY <1>4 DEF BuildInsert, SignalOf
  <2>3. UNCHANGED <<tags, scores, rawId, messages>>
    BY <1>4 DEF BuildInsert
  <2> QED
    BY <2>1, <2>2, <2>3 DEF DerivedRowsBacked
<1>5. ASSUME NEW w \in Workers, ScoreCommit(w) PROVE DerivedRowsBacked'
  <2>1. tags[Msg(w)] # None
    BY <1>5 DEF ScoreCommit, At, SlotBacked
  <2>2. \A e \in Events : scores'[e] # None => scores[e] # None \/ e = Msg(w)
    BY <1>5 DEF ScoreCommit
  <2>3. UNCHANGED <<tags, signals, rawId, messages>>
    BY <1>5 DEF ScoreCommit
  <2> QED
    BY <2>1, <2>2, <2>3 DEF DerivedRowsBacked
<1> QED
    BY <1>1, <1>2, <1>3, <1>4, <1>5
    DEF Next, Failure, WorkerStep, RouteStep, WebhookPersist, WebhookDuplicate, WebhookEnqueue,
        WebhookEnqueueLost, SyncPersistRaw, SyncSendRefused, SyncCommit, SyncAbort, Deliver, Ack, TaskFails,
        WorkerLost, RouteMissing, RouteUpsert, ResolveRead, EnqueueFollowups,
        EnqueueFollowupsLost, BuildStart, ScoreRead, vars, tables

\* Together: Backed is inductive.
LEMMA BackedStep == Backed /\ [Next]_vars => Backed'
<1> SUFFICES ASSUME Backed, [Next]_vars PROVE Backed'
    OBVIOUS
<1>1. Typed'
    BY TypedStep DEF Backed
<1> QED
    BY <1>1, SlotsBackedStep, QueueBackedStep, RowsBackedStep DEF Backed

\* Derived rows are backed: a tag has its message and its raw event, a score
\* and a signal have the tag that called for them, however the transactions of
\* the tasks that wrote them interleave and whatever is lost or redelivered.
THEOREM RowsBacked == Spec => []DerivedRowsBacked
<1>1. Backed => DerivedRowsBacked
    BY DEF Backed
<1> QED
    BY <1>1, BackedInit, BackedStep, PTL DEF Spec

-----------------------------------------------------------------------------
\* Signals are closed from within their thread.

\* A signal was raised in the thread that the reply e is linked to.
InThread(e, s) ==
    threadRoot[e] # None /\ (s[1] = threadRoot[e] \/ threadRoot[s[1]] = threadRoot[e])

\* The same of the tables after a step, for messages that the step does not name.
InThreadNext(e, s) ==
    threadRoot'[e] # None /\ (s[1] = threadRoot'[e] \/ threadRoot'[s[1]] = threadRoot'[e])

LinksRight == \A e \in Events : threadRoot[e] # None => threadRoot[e] = ParentOf[e]

\* A route that has yet to commit will link its message to its parent or not at
\* all, and a route that judges signals has read them in its message's thread.
SlotThreaded(w) ==
    /\ jobs[w].phase = "classify" => jobs[w].parent \in {None, ParentOf[Msg(w)]}
    /\ jobs[w].phase = "judge" => \A s \in jobs[w].open : InThread(Msg(w), s)

Threaded ==
    /\ Backed
    /\ LinksRight
    /\ \A w \in Workers : SlotThreaded(w)
    /\ ClosedInThread

\* Links are written once: a message is linked to its parent and to no other.
LEMMA LinksStay ==
    ASSUME Threaded, [Next]_vars
    PROVE  /\ LinksRight'
           /\ \A e \in Events : threadRoot[e] # None => threadRoot'[e] = threadRoot[e]
<1> DEFINE Stay == /\ LinksRight'
                   /\ \A e \in Events : threadRoot[e] # None => threadRoot'[e] = threadRoot[e]
<1> USE DEF Threaded, Backed, Typed, TypeOK, LinksRight
<1>1. ASSUME NEW s \in Syncs, SyncCommit(s) PROVE Stay
    BY <1>1 DEF SyncCommit, Linked
<1>2. ASSUME NEW w \in Workers, NEW d \in Decisions, RouteCommit(w, d) PROVE Stay
  <2>1. jobs[w].parent \in {None, ParentOf[Msg(w)]}
    BY <1>2 DEF RouteCommit, At, SlotThreaded
  <2> QED
    BY <1>2, <2>1 DEF RouteCommit
<1>3. CASE threadRoot' = threadRoot
    BY <1>3
<1> QED
    BY <1>1, <1>2, <1>3
    DEF Next, Failure, WorkerStep, RouteStep, vars, tables, WebhookPersist, WebhookDuplicate,
        WebhookEnqueue, WebhookEnqueueLost, SyncPersistRaw, SyncSendRefused, SyncAbort, Deliver, Ack, TaskFails,
        WorkerLost, RouteMissing, RouteUpsert, ResolveRead, ResolveCommit, EnqueueFollowups,
        EnqueueFollowupsLost, BuildStart, BuildInsert, ScoreRead, ScoreCommit

\* A signal in the thread of a message stays in it.
LEMMA InThreadStays ==
    ASSUME Threaded, [Next]_vars, NEW e \in Events, NEW s \in SignalKeys, InThread(e, s)
    PROVE  InThreadNext(e, s)
<1>1. s[1] \in Events /\ threadRoot[e] \in Events
    BY DEF SignalKeys, Threaded, Backed, Typed, TypeOK, InThread
<1>2. /\ threadRoot'[e] = threadRoot[e]
      /\ threadRoot[s[1]] # None => threadRoot'[s[1]] = threadRoot[s[1]]
    BY <1>1, LinksStay DEF InThread
<1> QED
    BY <1>1, <1>2 DEF InThread, InThreadNext

\* At first no signal is read or closed.
LEMMA ThreadedInit == Init => Threaded
    BY BackedInit DEF Init, Threaded, LinksRight, SlotThreaded, ClosedInThread, NoJob

\* What a slot has read stays in its message's thread.
LEMMA SlotsThreadedStep ==
    ASSUME Threaded, [Next]_vars, NEW v \in Workers
    PROVE  SlotThreaded(v)'
<1> USE DEF Threaded, Backed, Typed, TypeOK
<1>0. CASE jobs'[v] = jobs[v]
  <2>1. ASSUME jobs[v].phase = "judge", NEW s \in jobs[v].open PROVE InThread(Msg(v), s)'
    <3>1. Msg(v) \in Events /\ s \in SignalKeys
        BY <2>1, TaskFields DEF SlotsHold, Msg, Job
    <3>2. Msg(v)' = Msg(v)
        BY <1>0 DEF Msg
    <3>3. InThreadNext(Msg(v), s)
        BY <2>1, <3>1, InThreadStays DEF SlotThreaded
    <3> QED
        BY <2>1, <3>1, <3>2, <3>3 DEF InThread, InThreadNext
  <2> QED
    BY <1>0, <2>1 DEF SlotThreaded, Msg
<1>1. ASSUME jobs'[v].phase \notin {"classify", "judge"} PROVE SlotThreaded(v)'
    BY <1>1 DEF SlotThreaded
<1>2. CASE RouteUpsert(v)
  <2>1. /\ jobs'[v].phase = "classify" /\ jobs'[v].task = jobs[v].task
        /\ jobs'[v].parent \in {None, ParentOf[Msg(v)]}
    BY <1>2 DEF RouteUpsert, Remember
  <2> QED
    BY <2>1 DEF SlotThreaded, Msg
<1>3. CASE ResolveRead(v)
  <2>1. /\ jobs'[v].phase = "judge" /\ jobs'[v].task = jobs[v].task
        /\ jobs'[v].open = OpenInThread(threadRoot[Msg(v)])
        /\ threadRoot' = threadRoot
    BY <1>3 DEF ResolveRead, Remember, tables
  <2>2. \A s \in jobs'[v].open : InThread(Msg(v), s)
    BY <2>1 DEF OpenInThread, InThread
  <2> QED
    BY <2>1, <2>2 DEF SlotThreaded, InThread, Msg
<1>4. ASSUME NEW w \in Workers, WorkerStep(w) \/ TaskFails(w) \/ WorkerLost(w) \/ EnqueueFollowupsLost(w)
      PROVE  SlotThreaded(v)'
  <2>1. CASE w # v
    <3>1. jobs'[v] = jobs[v]
        BY <1>4, <2>1
        DEF WorkerStep, RouteStep, Deliver, Ack, TaskFails, WorkerLost, RouteMissing,
            RouteUpsert, RouteCommit, ResolveRead, ResolveCommit, EnqueueFollowups,
            EnqueueFollowupsLost, BuildStart, BuildInsert, ScoreRead, ScoreCommit,
            Advance, Free, Remember
    <3> QED
        BY <3>1, <1>0
  <2>2. CASE w = v /\ ~RouteUpsert(v) /\ ~ResolveRead(v)
    <3>1. ASSUME NEW t \in Tasks, Deliver(v, t) PROVE jobs'[v].phase \notin {"classify", "judge"}
        BY <3>1 DEF Deliver, NoJob
    <3>2. ASSUME Free(v) PROVE jobs'[v].phase \notin {"classify", "judge"}
        BY <3>2 DEF Free, NoJob
    <3>3. ASSUME NEW phase \in {"enqueue", "draft", "done"}, Advance(v, phase)
          PROVE  jobs'[v].phase \notin {"classify", "judge"}
        BY <3>3 DEF Advance, Job
    <3>4. ASSUME NEW d \in Decisions, RouteCommit(v, d)
          PROVE  jobs'[v].phase \notin {"classify", "judge"}
        BY <3>4 DEF RouteCommit, Remember
    <3>5. ASSUME ScoreRead(v) PROVE jobs'[v].phase \notin {"classify", "judge"}
        BY <3>5 DEF ScoreRead, Remember
    <3>6. jobs'[v].phase \notin {"classify", "judge"}
        BY <1>4, <2>2, <3>1, <3>2, <3>3, <3>4, <3>5
        DEF WorkerStep, RouteStep, Ack, TaskFails, WorkerLost, RouteMissing, ResolveCommit,
            EnqueueFollowups, EnqueueFollowupsLost, BuildStart, BuildInsert, ScoreCommit
    <3> QED
        BY <3>6, <1>1
  <2> QED
    BY <1>2, <1>3, <2>1, <2>2
<1>5. CASE jobs' = jobs
    BY <1>5, <1>0
<1> QED
    BY <1>4, <1>5
    DEF Next, Failure, WebhookPersist, WebhookDuplicate, WebhookEnqueue, WebhookEnqueueLost,
        SyncPersistRaw, SyncSendRefused, SyncCommit, SyncAbort, vars

\* A signal is closed by the slot that read it in its thread.
LEMMA ClosedStep == Threaded /\ [Next]_vars => ClosedInThread'
<1> SUFFICES ASSUME Threaded, [Next]_vars, NEW s \in SignalKeys, signals'[s] = "resolved"
             PROVE  closedBy'[s] \in messages' /\ InThreadNext(closedBy'[s], s)
    BY DEF ClosedInThread, InThreadNext
<1> USE DEF Threaded, Backed, Typed, TypeOK
<1>1. CASE signals[s] = "resolved" /\ closedBy'[s] = closedBy[s]
  <2>1. closedBy[s] \in messages /\ InThread(closedBy[s], s)
    BY <1>1 DEF ClosedInThread, InThread
  <2>2. closedBy[s] \in messages' /\ InThreadNext(closedBy[s], s)
    BY <2>1, RowsStay, InThreadStays
  <2> QED
    BY <1>1, <2>2
<1>2. ASSUME NEW w \in Workers, NEW closed \in SUBSET jobs[w].open, ResolveCommit(w, closed), s \in closed
      PROVE  closedBy'[s] \in messages' /\ InThreadNext(closedBy'[s], s)
  <2>1. Msg(w) \in Events /\ Msg(w) \in messages /\ InThread(Msg(w), s)
    <3>1. jobs[w].phase = "judge"
        BY <1>2 DEF ResolveCommit, At
    <3> QED
        BY <1>2, <3>1, TaskFields DEF SlotsHold, SlotBacked, SlotThreaded, DerivedRowsBacked, Msg
  <2>2. closedBy'[s] = Msg(w) /\ UNCHANGED <<messages, threadRoot>>
    BY <1>2 DEF ResolveCommit
  <2> QED
    BY <2>1, <2>2 DEF InThread, InThreadNext
<1>3. ASSUME NEW w \in Workers, NEW closed \in SUBSET jobs[w].open, ResolveCommit(w, closed), s \notin closed
      PROVE  signals[s] = "resolved" /\ closedBy'[s] = closedBy[s]
    BY <1>3 DEF ResolveCommit
<1>4. ASSUME NEW w \in Workers, BuildInsert(w) PROVE signals[s] = "resolved" /\ closedBy'[s] = closedBy[s]
    BY <1>4 DEF BuildInsert
<1>5. CASE UNCHANGED <<signals, closedBy>>
    BY <1>1, <1>5
<1> QED
    BY <1>1, <1>2, <1>3, <1>4, <1>5
    DEF Next, Failure, WorkerStep, RouteStep, vars, tables, WebhookPersist, WebhookDuplicate,
        WebhookEnqueue, WebhookEnqueueLost, SyncPersistRaw, SyncSendRefused, SyncCommit, SyncAbort, Deliver, Ack,
        TaskFails, WorkerLost, RouteMissing, RouteUpsert, RouteCommit, ResolveRead,
        EnqueueFollowups, EnqueueFollowupsLost, BuildStart, ScoreRead, ScoreCommit

\* Together: Threaded is inductive.
LEMMA ThreadedStep == Threaded /\ [Next]_vars => Threaded'
<1> SUFFICES ASSUME Threaded, [Next]_vars PROVE Threaded'
    OBVIOUS
<1>1. Backed'
    BY BackedStep DEF Threaded
<1> QED
    BY <1>1, LinksStay, SlotsThreadedStep, ClosedStep DEF Threaded

\* A resolved signal was closed by a stored reply of the thread it was raised
\* in, although the open signals are read, judged by the model and written in
\* three steps that anything may come between.
THEOREM ResolutionStaysInThread == Spec => []ClosedInThread
<1>1. Threaded => ClosedInThread
    BY DEF Threaded
<1> QED
    BY <1>1, ThreadedInit, ThreadedStep, PTL DEF Spec

-----------------------------------------------------------------------------
\* No message is routed by two workers at once.

Holds(w, t) == jobs[w] # NoJob /\ jobs[w].task = t

\* The broker and the workers have never seen the task.
Unsent(t) == queue[t] = 0 /\ \A w \in Workers : ~Holds(w, t)

\* There is one copy of a route task at most, waiting or held.
Once(t) ==
    /\ queue[t] <= 1
    /\ \A v \in Workers : Holds(v, t) => queue[t] = 0 /\ \A w \in Workers : Holds(w, t) => v = w

\* Ids are handed out in order, and an id that was not generated is in no task.
IdsFresh ==
    /\ \A e \in Events : rawId[e] <= lastId[e]
    /\ \A t \in RouteTasks : t.raw > lastId[t.msg] => Unsent(t)

\* An open transaction that inserts a raw event is the only one of its event,
\* and no row of the event is committed.
InsertsAlone ==
    \A s \in Syncs : sync[s].raw # 0 =>
       /\ sync[s].event \in Events
       /\ rawId[sync[s].event] = 0 /\ sync[s].raw <= lastId[sync[s].event]
       /\ \A u \in Syncs : sync[u].raw # 0 /\ sync[u].event = sync[s].event => u = s

\* A webhook call that has yet to send a task has it all to itself.
HooksAlone == \A e \in hook : rawId[e] # 0 /\ Unsent(RouteTask(e, rawId[e]))

Single ==
    /\ Typed /\ IdsFresh /\ InsertsAlone /\ HooksAlone
    /\ \A t \in RouteTasks : Once(t)

\* A route task carries its message and the id of a raw event.
LEMMA RouteTaskFields ==
    ASSUME NEW t \in RouteTasks
    PROVE  t \in Tasks /\ t.kind = "route" /\ t.msg \in Events /\ t.raw \in 1..MaxRows
    BY DEF RouteTasks, Tasks

\* And is the only one that carries both.
LEMMA RouteTaskMade ==
    ASSUME NEW e \in Events, NEW i \in 1..MaxRows
    PROVE  /\ RouteTask(e, i) \in RouteTasks
           /\ RouteTask(e, i).msg = e /\ RouteTask(e, i).raw = i
    BY DEF RouteTask, RouteTasks

\* At first there is no route task.
LEMMA SingleInit == Init => Single
    BY InitTyped, RouteTaskFields
    DEF Init, Single, IdsFresh, InsertsAlone, HooksAlone, Once, Unsent, Holds, NoTxn

\* A slot comes to hold a task only by its delivery.
LEMMA HoldsStep ==
    ASSUME Typed, [Next]_vars, NEW v \in Workers, NEW t, Holds(v, t)'
    PROVE  Holds(v, t) \/ Deliver(v, t)
<1> USE DEF Typed, TypeOK
<1>1. CASE jobs'[v] = jobs[v]
    BY <1>1 DEF Holds
<1>2. ASSUME NEW u \in Tasks, Deliver(v, u) PROVE Deliver(v, t)
    BY <1>2 DEF Deliver, NoJob, Holds
<1>3. CASE Free(v)
    BY <1>3 DEF Free, Holds
<1>4. ASSUME NEW phase, Advance(v, phase), jobs[v].phase # "idle" PROVE Holds(v, t)
  <2>1. jobs'[v].task = jobs[v].task
    BY <1>4 DEF Advance, Job
  <2> QED
    BY <1>4, <2>1 DEF Holds, NoJob
<1>5. ASSUME NEW phase, NEW parent, NEW read, NEW open, Remember(v, phase, parent, read, open),
             jobs[v].phase # "idle"
      PROVE  Holds(v, t)
    BY <1>5 DEF Remember, Holds, NoJob
<1>6. ASSUME NEW w \in Workers, w # v,
             WorkerStep(w) \/ TaskFails(w) \/ WorkerLost(w) \/ EnqueueFollowupsLost(w)
      PROVE  Holds(v, t) \/ Deliver(v, t)
  <2>1. jobs'[v] = jobs[v]
    BY <1>6
    DEF WorkerStep, RouteStep, Deliver, Ack, TaskFails, WorkerLost, RouteMissing,
        RouteUpsert, RouteCommit, ResolveRead, ResolveCommit, EnqueueFollowups,
        EnqueueFollowupsLost, BuildStart, BuildInsert, ScoreRead, ScoreCommit,
        Advance, Free, Remember
  <2> QED
    BY <1>1, <2>1
<1>7. ASSUME WorkerStep(v) \/ TaskFails(v) \/ WorkerLost(v) \/ EnqueueFollowupsLost(v)
      PROVE  Holds(v, t) \/ Deliver(v, t)
    BY <1>2, <1>3, <1>4, <1>5, <1>7
    DEF WorkerStep, RouteStep, Ack, TaskFails, WorkerLost, RouteMissing,
        RouteUpsert, RouteCommit, ResolveRead, ResolveCommit, EnqueueFollowups,
        EnqueueFollowupsLost, BuildStart, BuildInsert, ScoreRead, ScoreCommit, At
<1>8. CASE jobs' = jobs
    BY <1>1, <1>8
<1> QED
    BY <1>6, <1>7, <1>8
    DEF Next, Failure, WebhookPersist, WebhookDuplicate, WebhookEnqueue, WebhookEnqueueLost,
        SyncPersistRaw, SyncSendRefused, SyncCommit, SyncAbort, vars

\* The step that sends a route task: a webhook call, the backfill that stores
\* the event, or the loss of the worker that held it.
SentByHook(t) == \E e \in Events : WebhookEnqueue(e) /\ t = RouteTask(e, rawId[e])
SentBySync(t) ==
    \E s \in Syncs, e \in Events :
       SyncPersistRaw(s, e) /\ rawId[e] = 0 /\ t = RouteTask(e, lastId[e] + 1)
SentAgain(t) == \E w \in Workers : WorkerLost(w) /\ jobs[w].task = t

\* A route task is sent by the webhook, by the backfill that stores its event,
\* or again when the worker that holds it is lost.
LEMMA RouteSent ==
    ASSUME Typed, [Next]_vars, NEW t \in RouteTasks
    PROVE  \/ queue'[t] <= queue[t]
           \/ queue'[t] = queue[t] + 1 /\ (SentByHook(t) \/ SentBySync(t) \/ SentAgain(t))
<1> DEFINE Goal == \/ queue'[t] <= queue[t]
                   \/ /\ queue'[t] = queue[t] + 1
                      /\ SentByHook(t) \/ SentBySync(t) \/ SentAgain(t)
<1> USE DEF Typed, TypeOK
<1>0. t \in Tasks /\ t.kind = "route" /\ queue[t] \in Nat
    BY RouteTaskFields
<1>1. CASE queue' = queue
    BY <1>0, <1>1
<1>2. ASSUME NEW e \in Events, WebhookEnqueue(e) PROVE Goal
    BY <1>0, <1>2 DEF WebhookEnqueue, Send, SentByHook
<1>3. ASSUME NEW s \in Syncs, NEW e \in Events, SyncPersistRaw(s, e) PROVE Goal
  <2>1. CASE rawId[e] # 0
    BY <1>1, <1>3, <2>1 DEF SyncPersistRaw
  <2>2. CASE rawId[e] = 0
    <3>1. Send({RouteTask(e, lastId[e] + 1)})
        BY <1>3, <2>2 DEF SyncPersistRaw
    <3> QED
        BY <1>0, <1>3, <2>2, <3>1 DEF Send, SentBySync
  <2> QED
    BY <2>1, <2>2
<1>4. ASSUME NEW w \in Workers, NEW u \in Tasks, Deliver(w, u) PROVE Goal
    BY <1>0, <1>4 DEF Deliver
<1>5. ASSUME NEW w \in Workers PROVE t \notin Followups(w)
    BY <1>0 DEF Followups, ScoreTask, BuildTask
<1>6. ASSUME NEW w \in Workers, WorkerLost(w) PROVE Goal
  <2>1. PICK sent : Send({jobs[w].task} \cup sent) /\ t \notin sent
    BY <1>5, <1>6 DEF WorkerLost
  <2> QED
    BY <1>0, <1>6, <2>1 DEF Send, SentAgain
<1>7. ASSUME NEW w \in Workers, EnqueueFollowups(w) \/ EnqueueFollowupsLost(w) PROVE Goal
  <2>1. PICK sent : Send(sent) /\ t \notin sent
    BY <1>5, <1>7 DEF EnqueueFollowups, EnqueueFollowupsLost
  <2> QED
    BY <1>0, <2>1 DEF Send
<1> QED
    BY <1>1, <1>2, <1>3, <1>4, <1>6, <1>7
    DEF Next, Failure, WorkerStep, RouteStep, WebhookPersist, WebhookDuplicate,
        WebhookEnqueueLost, SyncSendRefused, SyncCommit, SyncAbort, Ack, TaskFails, RouteMissing, RouteUpsert,
        RouteCommit, ResolveRead, ResolveCommit, BuildStart, BuildInsert, ScoreRead,
        ScoreCommit, vars

\* What was unsent stays so unless the webhook or the backfill sends it now.
LEMMA UnsentStays ==
    ASSUME Typed, [Next]_vars, NEW t \in RouteTasks, Unsent(t)
    PROVE  \/ queue'[t] = 0 /\ \A w \in Workers : ~Holds(w, t)'
           \/ SentByHook(t) \/ SentBySync(t)
<1>1. t \in Tasks /\ queue[t] = 0 /\ \A w \in Workers : ~Holds(w, t)
    BY RouteTaskFields DEF Unsent
<1>2. ASSUME NEW w \in Workers, Holds(w, t)' PROVE FALSE
  <2>1. Holds(w, t) \/ Deliver(w, t)
    BY <1>2, HoldsStep
  <2>2. ~Deliver(w, t)
    BY <1>1 DEF Deliver
  <2> QED
    BY <1>1, <2>1, <2>2
<1>3. ~SentAgain(t)
    BY <1>1 DEF SentAgain, WorkerLost, Holds
<1>4. queue'[t] \in Nat
    BY <1>1, TypedStep DEF Typed, TypeOK
<1> QED
    BY <1>1, <1>2, <1>3, <1>4, RouteSent

\* A route task is delivered, redelivered and sent, but never copied.
LEMMA OnceStep ==
    ASSUME Single, [Next]_vars, NEW t \in RouteTasks
    PROVE  Once(t)'
<1> USE DEF Single, Typed, TypeOK
<1>0. t \in Tasks /\ queue[t] \in Nat /\ queue'[t] \in Nat /\ Once(t)
    BY RouteTaskFields, TypedStep
<1>1. CASE queue'[t] <= queue[t] /\ ~ \E w \in Workers : Deliver(w, t)
    BY <1>0, <1>1, HoldsStep DEF Once
<1>2. ASSUME NEW w \in Workers, Deliver(w, t) PROVE Once(t)'
  <2>1. queue[t] = 1 /\ queue'[t] = 0
    BY <1>0, <1>2 DEF Deliver, Once
  <2>2. \A v \in Workers : ~Holds(v, t)
    BY <2>1, <1>0 DEF Once
  <2>3. \A v \in Workers : v # w => jobs'[v] = jobs[v]
    BY <1>2 DEF Deliver
  <2> QED
    BY <2>1, <2>2, <2>3 DEF Once, Holds
<1>3. ASSUME Unsent(t), queue'[t] = queue[t] + 1, jobs' = jobs PROVE Once(t)'
    BY <1>0, <1>3 DEF Unsent, Once, Holds
<1>4. SentByHook(t) => Unsent(t) /\ jobs' = jobs
    BY DEF SentByHook, HooksAlone, WebhookEnqueue
<1>5. SentBySync(t) => Unsent(t) /\ jobs' = jobs
  <2>1. ASSUME NEW s \in Syncs, NEW e \in Events, SyncPersistRaw(s, e), t = RouteTask(e, lastId[e] + 1)
        PROVE  Unsent(t) /\ jobs' = jobs
    <3>1. t.msg = e /\ t.raw = lastId[e] + 1
        BY <2>1 DEF RouteTask
    <3> QED
        BY <2>1, <3>1 DEF IdsFresh, SyncPersistRaw
  <2> QED
    BY <2>1 DEF SentBySync
<1>6. ASSUME SentAgain(t), queue'[t] = queue[t] + 1 PROVE Once(t)'
  <2>0. PICK w \in Workers : WorkerLost(w) /\ jobs[w].task = t
    BY <1>6 DEF SentAgain
  <2>1. Holds(w, t) /\ jobs' = [jobs EXCEPT ![w] = NoJob]
    BY <2>0 DEF WorkerLost, Holds, Free
  <2>2. queue[t] = 0 /\ \A v \in Workers : Holds(v, t) => v = w
    BY <1>0, <2>1 DEF Once
  <2>3. \A v \in Workers : ~Holds(v, t)'
    BY <2>1, <2>2 DEF Holds
  <2> QED
    BY <1>6, <2>2, <2>3 DEF Once
<1> QED
    BY <1>1, <1>2, <1>3, <1>4, <1>5, <1>6, RouteSent

\* Ids not handed out yet stay out of every task.
LEMMA IdsFreshStep == Single /\ [Next]_vars => IdsFresh'
<1> SUFFICES ASSUME Single, [Next]_vars PROVE IdsFresh'
    OBVIOUS
<1>0. \A e \in Events : lastId[e] \in Nat /\ lastId'[e] \in Nat
  <2>1. lastId \in [Events -> 0..MaxRows] /\ lastId' \in [Events -> 0..MaxRows]
    BY TypedStep DEF Single, Typed, TypeOK
  <2> QED
    BY <2>1
<1> USE DEF Single, Typed, TypeOK, IdsFresh
<1>1. \A e \in Events : rawId'[e] <= lastId'[e] /\ lastId[e] <= lastId'[e]
  <2>1. ASSUME NEW e \in Events, WebhookPersist(e)
        PROVE  \A f \in Events : rawId'[f] <= lastId'[f] /\ lastId[f] <= lastId'[f]
    BY <2>1 DEF WebhookPersist
  <2>2. ASSUME NEW s \in Syncs, NEW e \in Events, SyncPersistRaw(s, e)
        PROVE  \A f \in Events : rawId'[f] <= lastId'[f] /\ lastId[f] <= lastId'[f]
    BY <2>2 DEF SyncPersistRaw
  <2>2a. ASSUME NEW s \in Syncs, NEW e \in Events, SyncSendRefused(s, e)
        PROVE  \A f \in Events : rawId'[f] <= lastId'[f] /\ lastId[f] <= lastId'[f]
    <3>1. rawId' = rawId /\ lastId' = [lastId EXCEPT ![e] = lastId[e] + 1]
        BY <2>2a DEF SyncSendRefused
    <3>2. lastId \in [Events -> 0..MaxRows] /\ \A f \in Events : rawId[f] <= lastId[f]
        OBVIOUS
    <3>3. \A f \in Events : lastId'[f] = IF f = e THEN lastId[f] + 1 ELSE lastId[f]
        BY <3>1, <3>2
    <3>4. \A f \in Events : rawId[f] \in Nat /\ lastId[f] \in Nat
        OBVIOUS
    <3> QED
        BY ONLY <3>1, <3>2, <3>3, <3>4
  <2>3. ASSUME NEW s \in Syncs, SyncCommit(s)
        PROVE  \A f \in Events : rawId'[f] <= lastId'[f] /\ lastId[f] <= lastId'[f]
    BY <2>3 DEF SyncCommit, InsertsAlone
  <2>4. CASE UNCHANGED <<rawId, lastId>>
    BY <2>4
  <2> QED
    BY <2>1, <2>2, <2>2a, <2>3, <2>4
    DEF Next, Failure, WorkerStep, RouteStep, vars, tables, WebhookDuplicate, WebhookEnqueue,
        WebhookEnqueueLost, SyncAbort, Deliver, Ack, TaskFails, WorkerLost, RouteMissing,
        RouteUpsert, RouteCommit, ResolveRead, ResolveCommit, EnqueueFollowups,
        EnqueueFollowupsLost, BuildStart, BuildInsert, ScoreRead, ScoreCommit
<1>2. ASSUME NEW t \in RouteTasks, t.raw > lastId'[t.msg]
      PROVE  queue'[t] = 0 /\ \A w \in Workers : ~Holds(w, t)'
  <2>1. t.msg \in Events /\ t.raw \in Nat /\ t.raw > lastId[t.msg]
    <3>1. t.msg \in Events /\ t.raw \in Nat
        BY RouteTaskFields
    <3>2. lastId[t.msg] \in Nat /\ lastId'[t.msg] \in Nat
        BY <1>0, <3>1
    <3> QED
      <4>1. t.raw > lastId'[t.msg] /\ lastId[t.msg] <= lastId'[t.msg]
        BY <1>1, <1>2, <3>1
      <4> QED
        BY <3>1, <3>2, <4>1
  <2>2. Unsent(t)
    BY <2>1
  <2>3. ~SentByHook(t)
    BY <2>1 DEF SentByHook, RouteTask
  <2>4. ~SentBySync(t)
    <3>1. ASSUME NEW s \in Syncs, NEW e \in Events, SyncPersistRaw(s, e), rawId[e] = 0,
                 t = RouteTask(e, lastId[e] + 1)
          PROVE  FALSE
      <4>1. t.msg = e /\ t.raw = lastId[e] + 1
        BY <3>1 DEF RouteTask
      <4>2. lastId'[e] = lastId[e] + 1
        BY <3>1 DEF SyncPersistRaw
      <4> QED
        BY <1>2, <4>1, <4>2
    <3> QED
        BY <3>1 DEF SentBySync
  <2> QED
    BY <2>2, <2>3, <2>4, UnsentStays
<1> QED
    BY <1>1, <1>2 DEF Unsent

\* A backfill that inserts a raw event under its row lock stays the only one.
LEMMA InsertAlone ==
    ASSUME Single, NEW s \in Syncs, NEW e \in Events, NEW stores,
           rawId[e] = 0, ~RawRowLocked(e), rawId' = rawId,
           lastId' = [lastId EXCEPT ![e] = @ + 1],
           sync' = [sync EXCEPT ![s] = [event |-> e, raw |-> lastId[e] + 1, stores |-> stores]]
    PROVE  InsertsAlone'
<1> USE DEF Single, Typed, TypeOK, InsertsAlone
<1>1. \A u \in Syncs : sync[u].raw # 0 => sync[u].event # e
    BY DEF RawRowLocked
<1>2. ASSUME NEW u \in Syncs, u # s, sync'[u].raw # 0
      PROVE  /\ sync'[u] = sync[u] /\ sync'[u].event \in Events \ {e}
             /\ rawId'[sync'[u].event] = 0 /\ sync'[u].raw <= lastId'[sync'[u].event]
    BY <1>1, <1>2
<1>3. sync'[s].event = e /\ sync'[s].raw = lastId[e] + 1 /\ lastId'[e] = lastId[e] + 1
    OBVIOUS
<1>4. ASSUME NEW u \in Syncs, sync'[u].raw # 0, NEW v \in Syncs, sync'[v].raw # 0,
             sync'[v].event = sync'[u].event
      PROVE  v = u
    BY <1>2, <1>3, <1>4
<1>5. ASSUME NEW u \in Syncs, sync'[u].raw # 0
      PROVE  /\ sync'[u].event \in Events
             /\ rawId'[sync'[u].event] = 0 /\ sync'[u].raw <= lastId'[sync'[u].event]
  <2>1. CASE u = s
    <3>1. lastId[e] \in Nat
        BY DEF Single
    <3>2. rawId'[e] = 0 /\ lastId[e] + 1 <= lastId[e] + 1
        BY <3>1
    <3>3. sync'[u].event = e /\ sync'[u].raw = lastId[e] + 1 /\ lastId'[e] = lastId[e] + 1
        BY <1>3, <2>1
    <3> HIDE DEF Single, Typed, TypeOK, InsertsAlone
    <3> QED
        BY <3>2, <3>3
  <2>2. CASE u # s
    BY <1>2, <1>5, <2>2
  <2> QED
    BY <2>1, <2>2
<1> QED
    BY <1>4, <1>5

\* One transaction at a time inserts the raw event of a message.
LEMMA InsertsAloneStep == Single /\ [Next]_vars => InsertsAlone'
<1> SUFFICES ASSUME Single, [Next]_vars PROVE InsertsAlone'
    OBVIOUS
<1>2. ASSUME NEW s \in Syncs, NEW e \in Events, SyncPersistRaw(s, e), rawId[e] = 0 PROVE InsertsAlone'
    BY <1>2, InsertAlone DEF SyncPersistRaw
<1>3. ASSUME NEW s \in Syncs, NEW e \in Events, SyncSendRefused(s, e) PROVE InsertsAlone'
    BY <1>3, InsertAlone DEF SyncSendRefused
<1> USE DEF Single, Typed, TypeOK, InsertsAlone
<1>1. ASSUME NEW e \in Events, WebhookPersist(e) PROVE InsertsAlone'
    BY <1>1 DEF WebhookPersist, RawRowLocked
<1>4. ASSUME NEW s \in Syncs, NEW e \in Events, SyncPersistRaw(s, e), rawId[e] # 0 PROVE InsertsAlone'
    BY <1>4 DEF SyncPersistRaw
<1>5. ASSUME NEW s \in Syncs, SyncCommit(s) PROVE InsertsAlone'
    BY <1>5 DEF SyncCommit, NoTxn
<1>6. ASSUME NEW s \in Syncs, SyncAbort(s) PROVE InsertsAlone'
    BY <1>6 DEF SyncAbort, NoTxn, tables
<1>7. CASE UNCHANGED <<rawId, lastId, sync>>
    BY <1>7
<1> QED
    BY <1>1, <1>2, <1>3, <1>4, <1>5, <1>6, <1>7
    DEF Next, Failure, WorkerStep, RouteStep, vars, tables, WebhookDuplicate, WebhookEnqueue,
        WebhookEnqueueLost, Deliver, Ack, TaskFails, WorkerLost, RouteMissing, RouteUpsert,
        RouteCommit, ResolveRead, ResolveCommit, EnqueueFollowups, EnqueueFollowupsLost,
        BuildStart, BuildInsert, ScoreRead, ScoreCommit

\* A committed raw event keeps its id.
LEMMA IdsStay ==
    ASSUME Single, [Next]_vars, NEW e \in Events, rawId[e] # 0
    PROVE  rawId'[e] = rawId[e]
<1> USE DEF Single, Typed, TypeOK
<1>1. ASSUME NEW f \in Events, WebhookPersist(f) PROVE rawId'[e] = rawId[e]
    BY <1>1 DEF WebhookPersist
<1>2. ASSUME NEW s \in Syncs, SyncCommit(s) PROVE rawId'[e] = rawId[e]
    BY <1>2 DEF SyncCommit, InsertsAlone
<1>3. CASE rawId' = rawId
    BY <1>3
<1> QED
    BY <1>1, <1>2, <1>3
    DEF Next, Failure, WorkerStep, RouteStep, vars, tables, WebhookDuplicate, WebhookEnqueue,
        WebhookEnqueueLost, SyncPersistRaw, SyncSendRefused, SyncAbort, Deliver, Ack, TaskFails, WorkerLost,
        RouteMissing, RouteUpsert, RouteCommit, ResolveRead, ResolveCommit, EnqueueFollowups,
        EnqueueFollowupsLost, BuildStart, BuildInsert, ScoreRead, ScoreCommit

\* A webhook call that has not enqueued yet is the only one to route its event.
LEMMA HooksAloneStep == Single /\ [Next]_vars => HooksAlone'
<1> SUFFICES ASSUME Single, [Next]_vars, NEW e \in hook'
             PROVE  /\ rawId'[e] # 0 /\ queue'[RouteTask(e, rawId'[e])] = 0
                    /\ \A w \in Workers : ~(jobs'[w] # NoJob /\ jobs'[w].task = RouteTask(e, rawId'[e]))
    BY DEF HooksAlone, Unsent, Holds
<1> USE DEF Single, Typed, TypeOK
<1>1. CASE e \in hook
  <2>1. e \in Events /\ rawId[e] \in 1..MaxRows /\ rawId'[e] = rawId[e]
    BY <1>1, IdsStay DEF HooksAlone
  <2>2. PICK t \in RouteTasks : t = RouteTask(e, rawId[e]) /\ t.msg = e
    BY <2>1, RouteTaskMade
  <2>3. Unsent(t)
    BY <1>1, <2>2 DEF HooksAlone
  <2>4. ~SentByHook(t)
    <3>1. ASSUME NEW f \in Events, WebhookEnqueue(f), t = RouteTask(f, rawId[f]) PROVE FALSE
      <4>1. f = e
        BY <2>2, <3>1 DEF RouteTask
      <4> QED
        BY <3>1, <4>1 DEF WebhookEnqueue
    <3> QED
        BY <3>1 DEF SentByHook
  <2>5. ~SentBySync(t)
    <3>1. ASSUME NEW f \in Events, rawId[f] = 0, t = RouteTask(f, lastId[f] + 1) PROVE FALSE
        BY <2>1, <2>2, <3>1 DEF RouteTask
    <3> QED
        BY <3>1 DEF SentBySync
  <2>6. queue'[t] = 0 /\ \A w \in Workers : ~(jobs'[w] # NoJob /\ jobs'[w].task = t)
    BY <2>3, <2>4, <2>5, UnsentStays DEF Holds
  <2> QED
    BY <2>1, <2>2, <2>6
<1>2. ASSUME WebhookPersist(e), e \in Events
      PROVE  /\ rawId'[e] # 0 /\ queue'[RouteTask(e, rawId'[e])] = 0
             /\ \A w \in Workers : ~(jobs'[w] # NoJob /\ jobs'[w].task = RouteTask(e, rawId'[e]))
  <2>1. lastId[e] + 1 \in 1..MaxRows /\ rawId'[e] = lastId[e] + 1 /\ queue' = queue /\ jobs' = jobs
    BY <1>2 DEF WebhookPersist
  <2>2. Unsent(RouteTask(e, lastId[e] + 1))
    BY <1>2, <2>1, RouteTaskMade DEF IdsFresh
  <2> QED
    BY <2>1, <2>2 DEF Unsent, Holds
<1>3. CASE hook' \subseteq hook
    BY <1>1, <1>3
<1>4. ASSUME NEW f \in Events, WebhookPersist(f) PROVE hook' = hook \cup {f}
    BY <1>4 DEF WebhookPersist
<1>5. ASSUME NEW f \in Events, WebhookEnqueue(f) \/ WebhookEnqueueLost(f) PROVE hook' \subseteq hook
    BY <1>5 DEF WebhookEnqueue, WebhookEnqueueLost
<1> QED
    BY <1>1, <1>2, <1>3, <1>4, <1>5
    DEF Next, Failure, WorkerStep, RouteStep, vars, webhook, WebhookDuplicate, SyncPersistRaw,
        SyncSendRefused, SyncCommit, SyncAbort, Deliver, Ack, TaskFails, WorkerLost, RouteMissing, RouteUpsert,
        RouteCommit, ResolveRead, ResolveCommit, EnqueueFollowups, EnqueueFollowupsLost,
        BuildStart, BuildInsert, ScoreRead, ScoreCommit

\* Together: Single is inductive.
LEMMA SingleStep == Single /\ [Next]_vars => Single'
<1> SUFFICES ASSUME Single, [Next]_vars PROVE Single'
    OBVIOUS
<1>1. Typed'
    BY TypedStep DEF Single
<1>2. ASSUME NEW t \in RouteTasks PROVE Once(t)'
    BY <1>2, OnceStep
<1> QED
    BY <1>1, <1>2, IdsFreshStep, InsertsAloneStep, HooksAloneStep DEF Single

\* One router of each message: the unique key of raw_events lets one webhook
\* call or one backfill send the route task, and a lost worker's task is not
\* delivered again before it is lost.
THEOREM OneRouter == Spec => []SingleRouter
<1>1. Single => SingleRouter
  <2> SUFFICES ASSUME Single, NEW e \in Events, NEW v \in Workers, NEW w \in Workers
               PROVE  /\ Routing(v, e) /\ Routing(w, e) => v = w
                      /\ Routing(w, e) => e \notin hook /\ queue[jobs[w].task] = 0
    BY DEF SingleRouter
  <2> DEFINE t == RouteTask(e, rawId[e])
  <2>1. ASSUME NEW u \in Workers, Routing(u, e) PROVE Holds(u, t) /\ t \in RouteTasks
    <3>1. jobs[u] # NoJob /\ jobs[u].task = t
        BY <2>1 DEF Routing, NoJob
    <3>2. t \in Tasks /\ t.kind = "route" /\ t.raw = rawId[e]
        BY <3>1 DEF Single, Typed, SlotsHold, NoJob, RouteTask
    <3> QED
        BY <3>1, <3>2 DEF Holds, Tasks, BuildTasks, ScoreTasks
  <2> HIDE DEF t
  <2>2. Routing(v, e) /\ Routing(w, e) => v = w
    BY <2>1 DEF Single, Once
  <2>3. Routing(w, e) => queue[t] = 0 /\ jobs[w].task = t
    BY <2>1 DEF Single, Once, Holds
  <2>4. Routing(w, e) => e \notin hook
    BY <2>1 DEF Single, HooksAlone, Unsent, t
  <2> QED
    BY <2>2, <2>3, <2>4
<1> QED
    BY <1>1, SingleInit, SingleStep, PTL DEF Spec

-----------------------------------------------------------------------------
\* The pipeline implements its contract.

\* The stage of a message, read off its rows.
LEMMA StageOf ==
    ASSUME Threaded, NEW e \in Events
    PROVE  /\ scores[e] # None => Stage[e] = "scored"
           /\ scores[e] = None /\ tags[e] # None => Stage[e] = "tagged"
           /\ tags[e] = None /\ rawId[e] # 0 => Stage[e] = "stored"
           /\ rawId[e] = 0 => Stage[e] = "unseen"
    BY DEF Stage, Threaded, Backed, DerivedRowsBacked

\* A reply judges only signals of its thread, as the contract reads threads.
LEMMA ThreadsAgree ==
    ASSUME Threaded, NEW e \in Events, NEW s \in SignalKeys, InThread(e, s)
    PROVE  ParentOf[e] # None /\ Contract!ThreadOf(s[1]) = ParentOf[e]
<1>1. threadRoot[e] = ParentOf[e] /\ ParentOf[e] # None
    BY DEF Threaded, LinksRight, InThread
<1>2. s[1] \in Events
    BY DEF SignalKeys
<1>3. ParentOf[e] \in Events /\ ParentOf[ParentOf[e]] = None
    BY <1>1
<1> QED
    BY <1>1, <1>2, <1>3 DEF Threaded, LinksRight, InThread, Contract!ThreadOf

\* Empty tables are those the contract begins with.
LEMMA ContractInit == Init => Contract!Init
    BY DEF Init, Contract!Init, Stage, SignalKeys, Contract!SignalKeys

\* One message moves one stage on, the rest staying where they are.
LEMMA StageMoves ==
    ASSUME NEW e \in Events, NEW to,
           \A f \in Events : f # e => Stage'[f] = Stage[f],
           Stage'[e] = to
    PROVE  Stage' = [Stage EXCEPT ![e] = to]
<1>1. DOMAIN Stage = Events /\ Stage = [f \in DOMAIN Stage |-> Stage[f]]
    BY DEF Stage
<1>2. DOMAIN Stage' = Events /\ Stage' = [f \in DOMAIN Stage' |-> Stage'[f]]
    BY DEF Stage
<1> QED
    BY <1>1, <1>2

\* A step that keeps the zeros of rawId and the nulls of tags and scores keeps
\* every stage.
LEMMA StageStays ==
    ASSUME \A f \in Events : /\ rawId'[f] = 0 <=> rawId[f] = 0
                             /\ tags'[f] = None <=> tags[f] = None
                             /\ scores'[f] = None <=> scores[f] = None
    PROVE  Stage' = Stage
    BY DEF Stage

\* Every step is one of the contract's, or changes nothing it sees.
LEMMA ContractStep ==
    Threaded /\ Threaded' /\ Single /\ [Next]_vars => [Contract!Next]_(Contract!vars)
<1> SUFFICES ASSUME Threaded, Threaded', Single, [Next]_vars
             PROVE  [Contract!Next]_(Contract!vars)
    OBVIOUS
<1>0. Typed /\ TypeOK
    BY DEF Single, Typed
<1>1. ASSUME NEW e \in Events, WebhookPersist(e) PROVE Contract!Store(e)
  <2>1. /\ rawId[e] = 0 /\ rawId'[e] # 0 /\ tags' = tags /\ scores' = scores
        /\ \A f \in Events : f # e => rawId'[f] = rawId[f]
        /\ UNCHANGED <<signals, closedBy>>
    BY <1>0, <1>1 DEF WebhookPersist, TypeOK
  <2>2. tags[e] = None /\ scores[e] = None
    BY <2>1 DEF Threaded, Backed, DerivedRowsBacked
  <2>3. Stage[e] = "unseen" /\ Stage'[e] = "stored" /\ \A f \in Events : f # e => Stage'[f] = Stage[f]
    BY <2>1, <2>2 DEF Stage
  <2> QED
    BY <2>1, <2>3, StageMoves DEF Contract!Store, Contract!MoveOn
<1>2. ASSUME NEW s \in Syncs, SyncCommit(s)
      PROVE  [Contract!Next]_(Contract!vars)
  <2>1. tags' = tags /\ scores' = scores /\ UNCHANGED <<signals, closedBy>>
    BY <1>2 DEF SyncCommit
  <2>2. CASE sync[s].raw = 0
    <3>1. rawId' = rawId
        BY <1>2, <2>2 DEF SyncCommit
    <3>2. Stage' = Stage
        BY <2>1, <3>1, StageStays
    <3> QED
        BY <2>1, <3>2 DEF Contract!vars
  <2>3. ASSUME sync[s].raw # 0 PROVE \E e \in Events : Contract!Store(e)
    <3>1. PICK e \in Events : e = sync[s].event
        BY <2>3 DEF Single, InsertsAlone
    <3>2. rawId[e] = 0 /\ rawId'[e] # 0 /\ \A f \in Events : f # e => rawId'[f] = rawId[f]
        BY <1>0, <1>2, <2>3, <3>1 DEF SyncCommit, Single, InsertsAlone, TypeOK
    <3>3. tags[e] = None /\ scores[e] = None
        BY <3>2 DEF Threaded, Backed, DerivedRowsBacked
    <3>4. Stage[e] = "unseen" /\ Stage'[e] = "stored" /\ \A f \in Events : f # e => Stage'[f] = Stage[f]
        BY <2>1, <3>2, <3>3 DEF Stage
    <3> QED
        BY <2>1, <3>4, StageMoves DEF Contract!Store, Contract!MoveOn
  <2> QED
    BY <2>2, <2>3 DEF Contract!Next
<1>3. ASSUME NEW w \in Workers, NEW d \in Decisions, RouteCommit(w, d)
      PROVE  [Contract!Next]_(Contract!vars)
  <2>1. PICK e \in Events : e = Msg(w) /\ rawId[e] # 0
    BY <1>0, <1>3, TaskFields DEF RouteCommit, At, Typed, SlotsHold, Threaded, Backed, SlotBacked, Msg
  <2>2. /\ tags' = [tags EXCEPT ![e] = d] /\ d # None
        /\ rawId' = rawId /\ scores' = scores /\ UNCHANGED <<signals, closedBy>>
    BY <1>3, <2>1 DEF RouteCommit
  <2>3. CASE tags[e] # None
    <3>1. Stage' = Stage
        BY <1>0, <2>2, <2>3, StageStays DEF TypeOK
    <3> QED
        BY <2>2, <3>1 DEF Contract!vars
  <2>4. ASSUME tags[e] = None PROVE Contract!Tag(e)
    <3>1. scores[e] = None
        BY <2>4 DEF Threaded, Backed, DerivedRowsBacked
    <3>2. /\ Stage[e] = "stored" /\ Stage'[e] = "tagged"
          /\ \A f \in Events : f # e => Stage'[f] = Stage[f]
        BY <1>0, <2>1, <2>2, <2>4, <3>1 DEF Stage, TypeOK
    <3> QED
        BY <2>2, <3>2, StageMoves DEF Contract!Tag, Contract!MoveOn
  <2> QED
    BY <2>3, <2>4 DEF Contract!Next
<1>4. ASSUME NEW w \in Workers, ScoreCommit(w)
      PROVE  [Contract!Next]_(Contract!vars)
  <2>1. PICK e \in Events : e = Msg(w) /\ tags[e] # None /\ jobs[w].read # None
    <3>1. jobs[w].phase = "compute" /\ jobs[w].task.kind = "score"
        BY <1>4 DEF ScoreCommit, At
    <3>2. jobs[w].task \in Tasks
        BY <1>0, <3>1 DEF Typed, SlotsHold
    <3>3. tags[Msg(w)] # None /\ jobs[w].read # None
        BY <1>0, <3>1, <3>2 DEF Threaded, Backed, SlotBacked
    <3> QED
        BY <3>2, <3>3, TaskFields DEF Msg
  <2>2. /\ scores' = [scores EXCEPT ![e] = jobs[w].read]
        /\ rawId' = rawId /\ tags' = tags /\ UNCHANGED <<signals, closedBy>>
    BY <1>4, <2>1 DEF ScoreCommit
  <2>3. CASE scores[e] # None
    <3>1. Stage' = Stage
        BY <1>0, <2>1, <2>2, <2>3, StageStays DEF TypeOK
    <3> QED
        BY <2>2, <3>1 DEF Contract!vars
  <2>4. ASSUME scores[e] = None PROVE Contract!Score(e)
    <3>1. /\ Stage[e] = "tagged" /\ Stage'[e] = "scored"
          /\ \A f \in Events : f # e => Stage'[f] = Stage[f]
        BY <1>0, <2>1, <2>2, <2>4 DEF Stage, TypeOK
    <3> QED
        BY <2>2, <3>1, StageMoves DEF Contract!Score, Contract!MoveOn
  <2> QED
    BY <2>3, <2>4 DEF Contract!Next
<1>5. ASSUME NEW w \in Workers, BuildInsert(w)
      PROVE  [Contract!Next]_(Contract!vars)
  <2>1. PICK e \in Events, k \in Kinds : SignalOf(w) = <<e, k>> /\ tags[e] # None
    <3>1. jobs[w].task \in Tasks /\ jobs[w].task.kind = "build" /\ tags[Msg(w)] # None
        BY <1>5 DEF BuildInsert, At, Typed, SlotsHold, Threaded, Backed, SlotBacked
    <3> QED
        BY <3>1, TaskFields DEF SignalOf, Msg
  <2>2. /\ signals' = [signals EXCEPT ![<<e, k>>] = IF @ = "none" THEN "open" ELSE @]
        /\ UNCHANGED <<rawId, tags, scores, closedBy>>
    BY <1>5, <2>1 DEF BuildInsert
  <2>3. Stage' = Stage
    BY <2>2, StageStays
  <2>4. CASE signals[<<e, k>>] # "none"
    <3>1. signals' = signals
        BY <1>0, <2>2, <2>4 DEF TypeOK
    <3> QED
        BY <2>2, <2>3, <3>1 DEF Contract!vars
  <2>5. ASSUME signals[<<e, k>>] = "none" PROVE Contract!Raise(e, k)
    <3>1. Stage[e] \in {"tagged", "scored"}
        BY <2>1, StageOf
    <3> QED
        BY <2>2, <2>3, <2>5, <3>1 DEF Contract!Raise, Contract!Classified
  <2> QED
    BY <2>4, <2>5 DEF Contract!Next
<1>6. ASSUME NEW w \in Workers, NEW closed \in SUBSET jobs[w].open, ResolveCommit(w, closed)
      PROVE  [Contract!Next]_(Contract!vars)
  <2>0. jobs[w].phase = "judge" /\ jobs[w].task \in Tasks
    BY <1>0, <1>6 DEF ResolveCommit, At, Typed, SlotsHold
  <2>1. PICK e \in Events : e = Msg(w)
    BY <2>0, TaskFields DEF Msg
  <2>2. tags[e] # None /\ \A s \in jobs[w].open : signals[s] # "none" /\ InThread(e, s)
    BY <2>0, <2>1 DEF Threaded, Backed, SlotBacked, SlotThreaded
  <2>3. closed \in SUBSET SignalKeys
    BY <1>0 DEF TypeOK, Job
  <2>4. Stage' = Stage
    BY <1>6, StageStays DEF ResolveCommit
  <2>5. Stage[e] \in {"tagged", "scored"}
    BY <2>2, StageOf
  <2>6. CASE closed # {}
    <3>1. ParentOf[e] # None
        BY <2>2, <2>3, <2>6, ThreadsAgree
    <3>2. \A s \in closed : signals[s] # "none" /\ Contract!ThreadOf(s[1]) = ParentOf[e]
        BY <2>2, <2>3, ThreadsAgree
    <3>3. Contract!Close(e, closed)
        BY <1>6, <2>1, <2>4, <2>5, <3>1, <3>2
        DEF Contract!Close, Contract!Classified, ResolveCommit, SignalKeys, Contract!SignalKeys
    <3>4. closed \in SUBSET Contract!SignalKeys
        BY <2>3 DEF SignalKeys, Contract!SignalKeys
    <3> QED
        BY <3>3, <3>4 DEF Contract!Next
  <2>7. CASE closed = {}
    <3>1. signals' = signals /\ closedBy' = closedBy
        BY <1>0, <1>6, <2>7 DEF ResolveCommit, TypeOK
    <3> QED
        BY <2>4, <3>1 DEF Contract!vars
  <2> QED
    BY <2>6, <2>7
<1>7. CASE UNCHANGED <<rawId, tags, scores, signals, closedBy>>
  <2>1. Stage' = Stage
    BY <1>7, StageStays
  <2> QED
    BY <1>7, <2>1 DEF Contract!vars
<1>8. ASSUME NEW e \in Events, Contract!Store(e) PROVE [Contract!Next]_(Contract!vars)
    BY <1>8 DEF Contract!Next
<1> QED
    BY <1>1, <1>2, <1>3, <1>4, <1>5, <1>6, <1>7, <1>8
    DEF Next, Failure, WorkerStep, RouteStep, vars, tables, WebhookDuplicate, WebhookEnqueue,
        WebhookEnqueueLost, SyncPersistRaw, SyncSendRefused, SyncAbort, Deliver, Ack, TaskFails, WorkerLost,
        RouteMissing, RouteUpsert, ResolveRead, EnqueueFollowups, EnqueueFollowupsLost,
        BuildStart, ScoreRead

\* The pipeline implements the contract: read as stages and signals, its tables
\* change only as PipelineContract allows, for any number of workers, backfills,
\* deliveries and failures.
THEOREM ImplementsContract == Spec => KeepsContract
<1>1. Init => Contract!Init
    BY ContractInit
<1>2. Threaded /\ Threaded' /\ Single /\ [Next]_vars => [Contract!Next]_(Contract!vars)
    BY ContractStep
<1> QED
    BY <1>1, <1>2, ThreadedInit, ThreadedStep, SingleInit, SingleStep, PTL
    DEF Spec, KeepsContract, Contract!Spec
=============================================================================
