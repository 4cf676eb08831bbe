----------------------- MODULE DigestGenerationProofs -----------------------
(***************************************************************************)
(* Proofs about DigestGeneration, for any members, threads, days, workers  *)
(* and drafts: its types, that a stored digest cites only what exists or,  *)
(* where a disconnect overtook its generation, what that disconnect        *)
(* deleted, and that what was resolved before it was begun is not in it.   *)
(***************************************************************************)
EXTENDS DigestGeneration, TLAPS

Events == {"signal_resolved", "digest_ready"}

\* A busy slot holds a task, an idle one holds nothing.
SlotsHold ==
    \A w \in Workers : IF jobs[w].phase = "idle" THEN jobs[w] = NoJob ELSE jobs[w].task \in Tasks

Typed == TypeOK /\ SlotsHold

\* A task names a member and a day.
LEMMA TaskFields ==
    ASSUME NEW t \in Tasks
    PROVE  t.member \in Members /\ t.day \in Days
    BY DEF Tasks

\* Sending keeps the broker's counts numbers.
LEMMA SendTyped ==
    ASSUME queue \in [Tasks -> Nat], NEW sent, Send(sent)
    PROVE  queue' \in [Tasks -> Nat]
    BY DEF Send

\* A failure is counted up to its bound.
LEMMA FaultTyped ==
    ASSUME DigestAssumption, faults \in 0..MaxFaults, NEW k, Fault(k)
    PROVE  faults' \in 0..MaxFaults
    BY DEF Fault, DigestAssumption

\* Publishing adds an event to each stream, or counts a failure.
LEMMA PublishTyped ==
    ASSUME DigestAssumption, stream \in [Members -> Seq(Events)], faults \in 0..MaxFaults,
           NEW e \in Events, Publish(e)
    PROVE  stream' \in [Members -> Seq(Events)] /\ faults' \in 0..MaxFaults
<1>1. CASE Fault("publish") /\ UNCHANGED stream
    BY <1>1, FaultTyped
<1>2. CASE stream' = [m \in Members |-> Append(stream[m], e)] /\ UNCHANGED faults
    BY <1>2
<1> QED
    BY <1>1, <1>2 DEF Publish

\* The clock moves to a moment there is, and never back to 0.
LEMMA TickTyped ==
    ASSUME DigestAssumption, now \in Times, Tick
    PROVE  now' \in Times /\ now' = now + 1 /\ now' # 0
    BY DEF Tick, Times, DigestAssumption

\* Changing one slot into a job that holds a task if it is busy.
LEMMA SlotTyped ==
    ASSUME Typed, NEW w \in Workers, NEW j \in Job,
           j = NoJob \/ (j.phase # "idle" /\ j.task \in Tasks),
           jobs' = [jobs EXCEPT ![w] = j]
    PROVE  jobs' \in [Workers -> Job] /\ SlotsHold'
<1>1. jobs \in [Workers -> Job] /\ SlotsHold
    BY DEF Typed, TypeOK
<1>2. jobs' \in [Workers -> Job]
    BY <1>1
<1>3. SlotsHold'
  <2> SUFFICES ASSUME NEW v \in Workers
               PROVE  IF jobs'[v].phase = "idle" THEN jobs'[v] = NoJob
                                                 ELSE jobs'[v].task \in Tasks
    BY DEF SlotsHold
  <2>1. CASE v = w
    <3>1. jobs'[v] = j
        BY <1>1, <2>1
    <3>2. NoJob.phase = "idle"
        BY DEF NoJob
    <3> QED
        BY <3>1, <3>2
  <2>2. CASE v # w
    <3>1. jobs'[v] = jobs[v]
        BY <1>1, <2>2
    <3> QED
        BY <1>1, <3>1 DEF SlotsHold
  <2> QED
    BY <2>1, <2>2
<1> QED
    BY <1>2, <1>3

\* A slot that is freed holds no task.
LEMMA FreeTyped ==
    ASSUME Typed, NEW w \in Workers, Free(w), DigestAssumption
    PROVE  jobs' \in [Workers -> Job] /\ SlotsHold'
<1>1. NoJob \in Job
    BY DEF NoJob, Job, Times, DigestAssumption
<1> QED
    BY <1>1, SlotTyped DEF Free

\* A busy slot that advances keeps its task.
LEMMA AdvanceTyped ==
    ASSUME Typed, NEW w \in Workers, jobs[w].phase # "idle",
           NEW phase \in {"start", "read", "draft", "publish", "done"}, Advance(w, phase)
    PROVE  jobs' \in [Workers -> Job] /\ SlotsHold'
<1> DEFINE j == [jobs[w] EXCEPT !.phase = phase]
<1>1. jobs[w] \in Job /\ jobs[w].task \in Tasks
    BY DEF Typed, TypeOK, SlotsHold
<1>2. j \in Job /\ j.phase = phase /\ j.task = jobs[w].task
    BY <1>1 DEF Job
<1>3. jobs' = [jobs EXCEPT ![w] = j]
    BY DEF Advance
<1> HIDE DEF j
<1> QED
    BY <1>1, <1>2, <1>3, SlotTyped

\* And so does one that remembers what it read.
LEMMA RememberTyped ==
    ASSUME Typed, NEW w \in Workers, jobs[w].phase # "idle",
           NEW phase \in {"read", "draft", "done"}, NEW era \in 0..MaxPurges,
           NEW msgs \in SUBSET Threads, NEW sigs \in SUBSET Threads,
           Remember(w, phase, era, msgs, sigs)
    PROVE  jobs' \in [Workers -> Job] /\ SlotsHold'
<1> DEFINE j == [task |-> jobs[w].task, phase |-> phase, began |-> jobs[w].began,
                 era |-> era, messages |-> msgs, signals |-> sigs]
<1>1. jobs[w] \in Job /\ jobs[w].task \in Tasks
    BY DEF Typed, TypeOK, SlotsHold
<1>2. j \in Job /\ j.phase = phase /\ j.task = jobs[w].task
    BY <1>1 DEF Job
<1>3. jobs' = [jobs EXCEPT ![w] = j]
    BY DEF Remember
<1> HIDE DEF j
<1> QED
    BY <1>1, <1>2, <1>3, SlotTyped

\* And one that has only to announce the row.
LEMMA ToPublishTyped ==
    ASSUME Typed, NEW w \in Workers, jobs[w].phase # "idle", ToPublish(w), DigestAssumption
    PROVE  jobs' \in [Workers -> Job] /\ SlotsHold'
<1> DEFINE j == [task |-> jobs[w].task, phase |-> "publish", began |-> 0, era |-> 0,
                 messages |-> {}, signals |-> {}]
<1>1. jobs[w].task \in Tasks
    BY DEF Typed, TypeOK, SlotsHold
<1>2. 0 \in Times /\ 0 \in 0..MaxPurges
    BY DEF Times, DigestAssumption
<1>3. j \in Job /\ j.phase = "publish" /\ j.task = jobs[w].task
    BY <1>1, <1>2 DEF Job
<1>4. jobs' = [jobs EXCEPT ![w] = j]
    BY DEF ToPublish
<1> HIDE DEF j
<1> QED
    BY <1>1, <1>3, <1>4, SlotTyped

\* The initial states are well typed.
LEMMA InitTyped == DigestAssumption /\ Init => Typed
<1> SUFFICES ASSUME DigestAssumption, Init PROVE Typed
    OBVIOUS
<1>1. /\ 0 \in Times /\ 0 \in 0..MaxFaults /\ 0 \in 0..MaxRequests /\ 0 \in Days
      /\ 0 \in 0..MaxPurges
    BY DEF DigestAssumption, Times
<1>2. NoJob \in Job /\ NoJob.phase = "idle"
    BY <1>1 DEF NoJob, Job
<1>3. jobs \in [Workers -> Job] /\ SlotsHold
    BY <1>2 DEF Init, SlotsHold
<1>4. NoPurge \in Purge /\ NoPurge.open = "no"
    BY DEF NoPurge, Purge
<1> QED
    BY <1>1, <1>3, <1>4 DEF Init, Typed, TypeOK

-----------------------------------------------------------------------------
\* Every step keeps the types, one case for each action.
LEMMA TypedStep == DigestAssumption /\ Typed /\ [Next]_vars => Typed'
<1> SUFFICES ASSUME DigestAssumption, Typed, [Next]_vars PROVE Typed'
    OBVIOUS
<1> USE DEF Events
<1>1. ASSUME NEW t \in Threads, ScoreBegin(t) PROVE Typed'
  <2>1. now \in Times /\ Tick
    BY <1>1 DEF ScoreBegin, Typed, TypeOK
  <2>2. now' \in Times /\ now + 1 \in Times
    BY <2>1, TickTyped
  <2> QED
    BY <1>1, <2>2 DEF ScoreBegin, Typed, TypeOK, SlotsHold, asked, purged
<1>2. ASSUME NEW t \in Threads, ScoreCommit(t) PROVE Typed'
  <2>1. 0 \in Times
    BY DEF Times, DigestAssumption
  <2> QED
    BY <1>2, <2>1 DEF ScoreCommit, Typed, TypeOK, SlotsHold, clock, asked, purged
<1>3. ASSUME NEW t \in Threads, RaiseSignal(t) PROVE Typed'
    BY <1>3 DEF RaiseSignal, Typed, TypeOK, SlotsHold, clock, asked, purged
<1>4. ASSUME NEW t \in Threads, ResolveSignal(t) PROVE Typed'
    BY <1>4, TickTyped DEF ResolveSignal, Typed, TypeOK, SlotsHold, asked, purged
<1>5. ASSUME NEW t \in Threads, AnnounceResolved(t) PROVE Typed'
    BY <1>5, PublishTyped DEF AnnounceResolved, Typed, TypeOK, SlotsHold, clock, content, purged, asked
<1>6. ASSUME NEW due \in SUBSET Members, ScheduleDay(due) PROVE Typed'
  <2>1. faults' \in 0..MaxFaults
    BY <1>6, FaultTyped DEF ScheduleDay, Typed, TypeOK
  <2>2. queue' \in [Tasks -> Nat]
    BY <1>6, SendTyped DEF ScheduleDay, Typed, TypeOK
  <2> QED
    BY <1>6, <2>1, <2>2 DEF ScheduleDay, Typed, TypeOK, SlotsHold, clock, content, purged
<1>7. CASE Midnight
    BY <1>7 DEF Midnight, Typed, TypeOK, SlotsHold, content, purged, asked
<1>8. ASSUME NEW m \in Members, Regenerate(m) PROVE Typed'
  <2>1. queue' \in [Tasks -> Nat]
    BY <1>8, SendTyped DEF Regenerate, Accept, Typed, TypeOK
  <2>2. requests' \in [Members -> 0..MaxRequests]
    <3>1. requests \in [Members -> 0..MaxRequests] /\ MaxRequests \in Nat
        BY DEF Typed, TypeOK, DigestAssumption
    <3>2. requests[m] + 1 \in 0..MaxRequests
        BY <1>8, <3>1 DEF Regenerate, Accept
    <3> QED
        BY <1>8, <3>1, <3>2 DEF Regenerate, Accept
  <2> QED
    BY <1>8, <2>1, <2>2 DEF Regenerate, Accept, Typed, TypeOK, SlotsHold, clock, content, purged
<1>9. ASSUME NEW w \in Workers, NEW t \in Tasks, Deliver(w, t) PROVE Typed'
  <2>1. Started(t) \in Job /\ Started(t).phase # "idle" /\ Started(t).task \in Tasks
    BY DEF Started, Job, Typed, TypeOK
  <2>2. jobs' = [jobs EXCEPT ![w] = Started(t)]
    BY <1>9 DEF Deliver
  <2>3. jobs' \in [Workers -> Job] /\ SlotsHold'
    BY <2>1, <2>2, SlotTyped
  <2>4. queue' \in [Tasks -> Nat]
    BY <1>9 DEF Deliver, Typed, TypeOK
  <2> QED
    BY <1>9, <2>3, <2>4 DEF Deliver, Typed, TypeOK, clock, content, purged, asked
<1>10. ASSUME NEW w \in Workers, FindDigest(w) PROVE Typed'
  <2>1. jobs' \in [Workers -> Job] /\ SlotsHold'
    BY <1>10, ToPublishTyped DEF FindDigest
  <2> QED
    BY <1>10, <2>1 DEF FindDigest, Typed, TypeOK, clock, content, purged, asked
<1>11. ASSUME NEW w \in Workers, ReadScored(w) PROVE Typed'
  <2>1. TopScored \in SUBSET Threads /\ {} \in SUBSET Threads /\ purges \in 0..MaxPurges
    BY DEF TopScored, Typed, TypeOK
  <2>2. jobs[w].phase # "idle" /\ Remember(w, "read", purges, TopScored, {})
    BY <1>11 DEF ReadScored
  <2>3. jobs' \in [Workers -> Job] /\ SlotsHold'
    BY <2>1, <2>2, RememberTyped
  <2> QED
    BY <1>11, <2>3 DEF ReadScored, Typed, TypeOK, clock, content, purged, asked
<1>12. ASSUME NEW w \in Workers, ReadSignals(w) PROVE Typed'
  <2> DEFINE open == OpenSignalsFor(Member(w))
             next == IF open = {} /\ jobs[w].messages = {} THEN "done" ELSE "draft"
  <2>1. /\ open \in SUBSET Threads /\ jobs[w].messages \in SUBSET Threads
        /\ jobs[w].era \in 0..MaxPurges
    BY DEF OpenSignalsFor, Typed, TypeOK, Job
  <2>2. jobs[w].phase # "idle" /\ Remember(w, next, jobs[w].era, jobs[w].messages, open)
    BY <1>12 DEF ReadSignals
  <2>3. next \in {"read", "draft", "done"}
    OBVIOUS
  <2> HIDE DEF next, open
  <2>4. jobs' \in [Workers -> Job] /\ SlotsHold'
    BY <2>1, <2>2, <2>3, RememberTyped
  <2> QED
    BY <1>12, <2>4 DEF ReadSignals, Typed, TypeOK, clock, content, purged, asked
<1>13. ASSUME NEW w \in Workers, NEW draft \in Drafts, WriteDigest(w, draft) PROVE Typed'
  <2>1. jobs' \in [Workers -> Job] /\ SlotsHold'
    BY <1>13, ToPublishTyped DEF WriteDigest
  <2>2. jobs[w] \in Job /\ jobs[w].task \in Tasks
    BY <1>13 DEF WriteDigest, Typed, TypeOK, SlotsHold
  <2>3. Member(w) \in Members /\ Day(w) \in Days
    BY <2>2, TaskFields DEF Member, Day
  <2>4. [generatedAt |-> jobs[w].began,
         messages |-> FilterCited(draft[1], jobs[w].messages),
         signals |-> FilterCited(draft[2], jobs[w].signals),
         crossed |-> Crossed(w)] \in Digest
    BY <2>2 DEF Digest, Job, FilterCited, Crossed
  <2>5. digests' \in [Members -> [Days -> Digest \cup {None}]]
    BY <1>13, <2>3, <2>4 DEF WriteDigest, Typed, TypeOK
  <2> QED
    BY <1>13, <2>1, <2>5 DEF WriteDigest, Typed, TypeOK, clock, content, purged, asked
<1>14. ASSUME NEW w \in Workers, PublishReady(w) PROVE Typed'
  <2>1. jobs' \in [Workers -> Job] /\ SlotsHold'
    BY <1>14, AdvanceTyped DEF PublishReady
  <2>2. stream' \in [Members -> Seq(Events)] /\ faults' \in 0..MaxFaults
    BY <1>14, PublishTyped DEF PublishReady, Typed, TypeOK
  <2> QED
    BY <1>14, <2>1, <2>2 DEF PublishReady, Typed, TypeOK, clock, content, purged, asked
<1>15. ASSUME NEW w \in Workers, Ack(w) PROVE Typed'
    BY <1>15, FreeTyped DEF Ack, Typed, TypeOK, clock, content, purged, asked
<1>16. ASSUME NEW w \in Workers, TaskFails(w) PROVE Typed'
    BY <1>16, FreeTyped, FaultTyped DEF TaskFails, Typed, TypeOK, clock, content, purged, asked
<1>17. ASSUME NEW w \in Workers, WorkerLost(w) PROVE Typed'
    BY <1>17, FreeTyped, FaultTyped, SendTyped DEF WorkerLost, Typed, TypeOK, clock, content, purged, asked
<1>18. CASE UNCHANGED vars
    BY <1>18 DEF vars, clock, content, purged, asked, Typed, TypeOK, SlotsHold
<1>19. CASE PurgeRows
  <2>1. purge' \in Purge /\ purges < MaxPurges
    BY <1>19 DEF PurgeRows, Purge
  <2> QED
    BY <1>19, <2>1 DEF PurgeRows, Typed, TypeOK, SlotsHold, clock, asked
<1>20. ASSUME NEW kept \in SUBSET Threads, PurgeCommit(kept) PROVE Typed'
  <2>1. /\ 0 \in Times /\ purge.open = "yes" /\ purges + 1 \in 0..MaxPurges
        /\ NoPurge \in Purge /\ NoPurge.open = "no"
    BY <1>20, DigestAssumption
    DEF PurgeCommit, Typed, TypeOK, Times, DigestAssumption, NoPurge, Purge
  <2>2. /\ scoredAt' \in [Threads -> Times] /\ scoring' \in [Threads -> Times]
        /\ signals' \in [Threads -> {"none", "open", "resolved"}]
    BY <1>20, <2>1 DEF PurgeCommit, Typed, TypeOK
  <2>3. digests' \in [Members -> [Days -> Digest \cup {None}]]
    BY <1>20 DEF PurgeCommit, Typed, TypeOK
  <2>4. gone' \subseteq Threads
    BY <1>20 DEF PurgeCommit, Typed, TypeOK
  <2> QED
    BY <1>20, <2>1, <2>2, <2>3, <2>4 DEF PurgeCommit, Typed, TypeOK, SlotsHold, clock, asked
<1> QED
    BY <1>1, <1>2, <1>3, <1>4, <1>5, <1>6, <1>7, <1>8, <1>9, <1>10, <1>11, <1>12, <1>13, <1>14,
       <1>15, <1>16, <1>17, <1>18, <1>19, <1>20 DEF Next, ServerStep, WorkerStep

\* Every reachable state is well typed.
THEOREM DigestTypeCorrect == Spec => []TypeOK
<1>1. Init => Typed
    BY DigestAssumption, InitTyped
<1>2. Typed /\ [Next]_vars => Typed'
    BY DigestAssumption, TypedStep
<1>3. Typed => TypeOK
    BY DEF Typed
<1> QED
    BY <1>1, <1>2, <1>3, PTL DEF Spec

-----------------------------------------------------------------------------
\* What CitesWhatExists and ResolutionAgesOut need of the state between a
\* worker's reads and its write.

\* A set of messages and signals that a generation begun at b for member m may
\* hold: each exists or was deleted by a disconnect since, and none was resolved
\* by the time it began.
Grounded(m, b, messages, sigs) ==
    /\ b \in Times /\ b <= now
    /\ \A t \in messages : t \in Threads /\ (scoredAt[t] # 0 \/ t \in gone)
    /\ \A t \in sigs : t \in Threads /\ (signals[t] # "none" \/ t \in gone) /\ <<m, t>> \in Relevant
    /\ \A t \in messages \cup sigs : resolvedAt[t] = 0 \/ resolvedAt[t] > b

\* One of which nothing was deleted.
Held(messages, sigs) ==
    /\ \A t \in messages : scoredAt[t] # 0
    /\ \A t \in sigs : signals[t] # "none"

\* What a time of resolution says of a signal, and what a disconnect left.
Stamped ==
    \A t \in Threads :
       /\ signals[t] = "open" => resolvedAt[t] = 0
       /\ t \notin gone /\ resolvedAt[t] # 0 => signals[t] = "resolved"
       /\ t \in gone => scoredAt[t] = 0 /\ scoring[t] = 0

JobsGrounded ==
    \A w \in Workers :
       /\ Grounded(jobs[w].task.member, jobs[w].began, jobs[w].messages, jobs[w].signals)
       /\ jobs[w].era <= purges
       /\ jobs[w].era = purges => Held(jobs[w].messages, jobs[w].signals)

RowsGrounded ==
    \A m \in Members, d \in Days : digests[m][d] # None =>
       /\ Grounded(m, digests[m][d].generatedAt, digests[m][d].messages, digests[m][d].signals)
       /\ digests[m][d].crossed = "no" => Held(digests[m][d].messages, digests[m][d].signals)

\* A disconnect under way deletes each row that was written before it.
Covered ==
    purge.open = "yes" =>
       \A m \in Members, d \in Days :
          digests[m][d] # None /\ <<m, d>> \notin purge.rows => digests[m][d].crossed = "yes"

GInv == Typed /\ Stamped /\ JobsGrounded /\ RowsGrounded /\ Covered

\* What a step that commits no disconnect may do to the pipeline's tables and
\* the clock.
ContentGrows ==
    /\ now' \in Times /\ now <= now'
    /\ UNCHANGED <<purges, gone>>
    /\ \A t \in Threads :
          /\ scoredAt[t] # 0 => scoredAt'[t] # 0
          /\ t \in gone /\ scoredAt[t] = 0 /\ scoring[t] = 0 => scoredAt'[t] = 0 /\ scoring'[t] = 0
          /\ signals[t] # "none" => signals'[t] # "none"
          /\ resolvedAt'[t] = resolvedAt[t] \/ (resolvedAt'[t] \in Nat /\ resolvedAt'[t] > now)
          /\ resolvedAt'[t] # resolvedAt[t] => signals'[t] = "resolved"
          /\ signals[t] = "resolved" => signals'[t] = "resolved"
          /\ signals'[t] = "open" => signals[t] = "open" \/ t \notin gone

\* To what a disconnect deletes: nothing, or it finds every row there is.
PurgeMoves ==
    \/ UNCHANGED purge
    \/ /\ UNCHANGED digests
       /\ \A m \in Members, d \in Days : digests[m][d] # None => <<m, d>> \in purge'.rows

\* And to what a slot holds.
SlotKeeps(w) ==
    /\ jobs'[w].task = jobs[w].task /\ jobs'[w].began = jobs[w].began
    /\ jobs'[w].era = jobs[w].era
    /\ jobs'[w].messages = jobs[w].messages /\ jobs'[w].signals = jobs[w].signals
SlotEmpty(w) ==
    /\ jobs'[w].began \in Times /\ jobs'[w].began <= now /\ jobs'[w].era = 0
    /\ jobs'[w].messages = {} /\ jobs'[w].signals = {}
SlotReads(w) ==
    /\ jobs'[w].task = jobs[w].task /\ jobs'[w].began = jobs[w].began
    /\ UNCHANGED <<clock, content>>
    /\ \/ /\ jobs'[w].era = purges
          /\ jobs'[w].messages = TopScored /\ jobs'[w].signals = {}
       \/ /\ jobs'[w].era = jobs[w].era
          /\ jobs'[w].messages = jobs[w].messages /\ jobs'[w].signals = OpenSignalsFor(Member(w))
SlotMoves(w) == SlotKeeps(w) \/ SlotEmpty(w) \/ SlotReads(w)

\* A row a step writes is one slot's, cut down to what it read.
RowWritten(m, d, w) ==
    /\ m = Member(w) /\ UNCHANGED <<clock, content>>
    /\ digests'[m][d].generatedAt = jobs[w].began
    /\ digests'[m][d].messages \subseteq jobs[w].messages
    /\ digests'[m][d].signals \subseteq jobs[w].signals
    /\ digests'[m][d].crossed = Crossed(w)
RowMoves(m, d) == digests'[m][d] = digests[m][d] \/ \E w \in Workers : RowWritten(m, d, w)

Moves ==
    /\ ContentGrows
    /\ PurgeMoves
    /\ \A w \in Workers : SlotMoves(w)
    /\ \A m \in Members, d \in Days : RowMoves(m, d)

\* A step that moves only so keeps the invariant.
LEMMA MovesGrounded ==
    ASSUME GInv, Moves
    PROVE  Stamped' /\ JobsGrounded' /\ RowsGrounded' /\ Covered'
<1> USE DEF GInv, Moves
<1>0. /\ now \in Nat /\ now' \in Nat /\ now <= now' /\ Times \subseteq Nat
      /\ \A b \in Times : b <= now => b <= now'
      /\ purges \in Nat /\ purges' = purges /\ gone' = gone
    BY DigestAssumption DEF ContentGrows, Times, Typed, TypeOK, DigestAssumption
<1>1. Stamped'
    BY <1>0 DEF Stamped, ContentGrows
<1>2. ASSUME NEW w \in Workers
      PROVE  /\ Grounded(jobs[w].task.member, jobs[w].began, jobs[w].messages, jobs[w].signals)'
             /\ jobs'[w].era <= purges'
             /\ jobs'[w].era = purges' => Held(jobs[w].messages, jobs[w].signals)'
  <2>1. /\ Grounded(jobs[w].task.member, jobs[w].began, jobs[w].messages, jobs[w].signals)
        /\ jobs[w].era <= purges
        /\ jobs[w].era = purges => Held(jobs[w].messages, jobs[w].signals)
    BY DEF JobsGrounded
  <2>2. CASE SlotKeeps(w)
    <3>1. jobs[w].began \in Times /\ jobs[w].began <= now'
        BY <2>1, <1>0 DEF Grounded
    <3>2. ASSUME NEW t \in jobs[w].messages \cup jobs[w].signals
          PROVE  resolvedAt'[t] = 0 \/ resolvedAt'[t] > jobs[w].began
      <4>1. t \in Threads /\ (resolvedAt[t] = 0 \/ resolvedAt[t] > jobs[w].began)
        BY <2>1 DEF Grounded
      <4>2. jobs[w].began \in Nat /\ jobs[w].began <= now
        BY <2>1, <1>0 DEF Grounded
      <4>3. resolvedAt'[t] = resolvedAt[t] \/ (resolvedAt'[t] \in Nat /\ resolvedAt'[t] > now)
        BY <4>1 DEF ContentGrows
      <4> QED
        BY <4>1, <4>2, <4>3, <1>0
    <3>3. jobs'[w].era = purges' => Held(jobs[w].messages, jobs[w].signals)'
        BY <1>0, <2>1, <2>2 DEF SlotKeeps, Grounded, Held, ContentGrows
    <3> QED
        BY <1>0, <2>1, <2>2, <3>1, <3>2, <3>3 DEF SlotKeeps, Grounded, ContentGrows
  <2>3. CASE SlotEmpty(w)
    <3>1. jobs'[w].began \in Times /\ jobs'[w].began <= now'
        BY <1>0, <2>3, Zenon DEF SlotEmpty
    <3>2. jobs'[w].era <= purges'
      <4>1. jobs'[w].era = 0
        BY <2>3 DEF SlotEmpty
      <4> QED
        BY <1>0, <4>1
    <3> QED
        BY <2>3, <3>1, <3>2 DEF SlotEmpty, Grounded, Held
  <2>4. CASE SlotReads(w)
    <3>1. \A t \in TopScored : t \in Threads /\ scoredAt[t] # 0 /\ resolvedAt[t] = 0
        BY DEF TopScored, Stamped
    <3>2. \A t \in OpenSignalsFor(Member(w)) :
             t \in Threads /\ signals[t] # "none" /\ <<jobs[w].task.member, t>> \in Relevant /\ resolvedAt[t] = 0
        BY DEF OpenSignalsFor, Stamped, Member
    <3>3. Grounded(jobs[w].task.member, jobs[w].began, jobs[w].messages, jobs[w].signals)'
        BY <2>1, <2>4, <3>1, <3>2 DEF SlotReads, Grounded, clock, content, purged
    <3>4. jobs'[w].era <= purges'
        BY <1>0, <2>1, <2>4 DEF SlotReads
    <3>5. jobs'[w].era = purges' => Held(jobs[w].messages, jobs[w].signals)'
        BY <1>0, <2>1, <2>4, <3>1, <3>2 DEF SlotReads, Held, content
    <3> QED
        BY <3>3, <3>4, <3>5
  <2> QED
    BY <2>2, <2>3, <2>4 DEF SlotMoves
<1>3. ASSUME NEW m \in Members, NEW d \in Days, digests'[m][d] # None
      PROVE  /\ Grounded(m, digests[m][d].generatedAt, digests[m][d].messages, digests[m][d].signals)'
             /\ digests'[m][d].crossed = "no" =>
                   Held(digests[m][d].messages, digests[m][d].signals)'
  <2>1. CASE digests'[m][d] = digests[m][d]
    <3>1. Grounded(m, digests[m][d].generatedAt, digests[m][d].messages, digests[m][d].signals)
        BY <1>3, <2>1 DEF RowsGrounded
    <3>4. digests'[m][d].crossed = "no" => Held(digests[m][d].messages, digests[m][d].signals)'
      <4>1. digests[m][d].crossed = "no" => Held(digests[m][d].messages, digests[m][d].signals)
        BY <1>3, <2>1 DEF RowsGrounded
      <4> QED
        BY <2>1, <3>1, <4>1 DEF Grounded, Held, ContentGrows
    <3> DEFINE row == digests[m][d]
    <3>2. row.generatedAt \in Times /\ row.generatedAt <= now'
        BY <3>1, <1>0 DEF Grounded
    <3>3. ASSUME NEW t \in row.messages \cup row.signals
          PROVE  resolvedAt'[t] = 0 \/ resolvedAt'[t] > row.generatedAt
      <4>1. t \in Threads /\ (resolvedAt[t] = 0 \/ resolvedAt[t] > row.generatedAt)
        BY <3>1 DEF Grounded
      <4>2. row.generatedAt \in Nat /\ row.generatedAt <= now
        BY <3>1, <1>0 DEF Grounded
      <4>3. resolvedAt'[t] = resolvedAt[t] \/ (resolvedAt'[t] \in Nat /\ resolvedAt'[t] > now)
        BY <4>1 DEF ContentGrows
      <4> QED
        BY <4>1, <4>2, <4>3, <1>0
    <3> QED
        BY <1>0, <2>1, <3>1, <3>2, <3>3, <3>4 DEF Grounded, ContentGrows
  <2>2. ASSUME NEW w \in Workers, RowWritten(m, d, w)
        PROVE  /\ Grounded(m, digests[m][d].generatedAt, digests[m][d].messages, digests[m][d].signals)'
               /\ digests'[m][d].crossed = "no" =>
                     Held(digests[m][d].messages, digests[m][d].signals)'
    <3>1. /\ Grounded(m, jobs[w].began, jobs[w].messages, jobs[w].signals)
          /\ jobs[w].era = purges => Held(jobs[w].messages, jobs[w].signals)
        BY <2>2 DEF RowWritten, JobsGrounded, Member
    <3>2. digests'[m][d].crossed = "no" => Held(digests[m][d].messages, digests[m][d].signals)'
        BY <2>2, <3>1 DEF RowWritten, Held, Crossed, content
    <3> QED
        BY <2>2, <3>1, <3>2 DEF RowWritten, Grounded, clock, content, purged
  <2> QED
    BY <2>1, <2>2 DEF RowMoves
<1>4. Covered'
  <2> SUFFICES ASSUME purge'.open = "yes", NEW m \in Members, NEW d \in Days,
                      digests'[m][d] # None, <<m, d>> \notin purge'.rows
               PROVE  digests'[m][d].crossed = "yes"
    BY DEF Covered
  <2>1. UNCHANGED purge
    BY DEF PurgeMoves
  <2>2. CASE digests'[m][d] = digests[m][d]
    BY <2>1, <2>2 DEF Covered
  <2>3. ASSUME NEW w \in Workers, RowWritten(m, d, w) PROVE digests'[m][d].crossed = "yes"
    BY <2>1, <2>3 DEF RowWritten, Crossed
  <2> QED
    BY <2>2, <2>3 DEF RowMoves
<1> QED
    BY <1>1, <1>2, <1>3, <1>4 DEF JobsGrounded, RowsGrounded

\* A disconnect's commit keeps it too: what it leaves exists or is now gone, each
\* generation under way has read before it, and so has each that wrote a row it
\* did not find.
LEMMA PurgeGrounded ==
    ASSUME GInv, NEW kept \in SUBSET Threads, PurgeCommit(kept)
    PROVE  Stamped' /\ JobsGrounded' /\ RowsGrounded' /\ Covered'
<1>0. /\ purges \in Nat /\ purges' = purges + 1 /\ purge.open = "yes" /\ purge'.open = "no"
      /\ UNCHANGED <<now, resolvedAt, jobs>> /\ gone \subseteq gone' /\ gone' \subseteq Threads
    BY DigestAssumption DEF PurgeCommit, GInv, Typed, TypeOK, DigestAssumption, NoPurge, clock
<1>1. ASSUME NEW t \in Threads
      PROVE  /\ t \in gone' => scoredAt'[t] = 0 /\ scoring'[t] = 0
             /\ t \notin gone' => scoredAt'[t] = scoredAt[t] /\ signals'[t] = signals[t]
             /\ t \notin gone' => t \notin gone
             /\ signals'[t] = signals[t] \/ signals'[t] = "none"
    BY DEF PurgeCommit
<1>2. Stamped'
    BY <1>0, <1>1 DEF GInv, Stamped
<1>3. ASSUME NEW w \in Workers
      PROVE  /\ Grounded(jobs[w].task.member, jobs[w].began, jobs[w].messages, jobs[w].signals)'
             /\ jobs'[w].era <= purges' /\ jobs'[w].era # purges'
  <2>1. /\ Grounded(jobs[w].task.member, jobs[w].began, jobs[w].messages, jobs[w].signals)
        /\ jobs[w].era <= purges /\ jobs[w].era \in Nat
    BY DigestAssumption DEF GInv, JobsGrounded, Typed, TypeOK, Job, DigestAssumption
  <2>2. jobs'[w].era <= purges' /\ jobs'[w].era # purges'
    BY <1>0, <2>1
  <2> QED
    BY <1>0, <1>1, <2>1, <2>2 DEF Grounded
<1>4. ASSUME NEW m \in Members, NEW d \in Days, digests'[m][d] # None
      PROVE  /\ Grounded(m, digests[m][d].generatedAt, digests[m][d].messages, digests[m][d].signals)'
             /\ digests'[m][d].crossed = "yes"
  <2>1. digests'[m][d] = digests[m][d] /\ <<m, d>> \notin purge.rows
    BY <1>4 DEF PurgeCommit
  <2>2. /\ Grounded(m, digests[m][d].generatedAt, digests[m][d].messages, digests[m][d].signals)
        /\ digests[m][d].crossed = "yes"
    BY <1>0, <1>4, <2>1 DEF GInv, RowsGrounded, Covered
  <2> QED
    BY <1>0, <1>1, <2>1, <2>2 DEF Grounded
<1>5. Covered'
    BY <1>0 DEF Covered
<1> QED
    BY <1>2, <1>3, <1>4, <1>5 DEF JobsGrounded, RowsGrounded

-----------------------------------------------------------------------------
\* A slot that does not change moves.
LEMMA SlotStays ==
    ASSUME NEW v \in Workers, jobs'[v] = jobs[v]
    PROVE  SlotMoves(v)
    BY DEF SlotMoves, SlotKeeps

\* And so do all of them when none changes.
LEMMA QuietSlots ==
    ASSUME UNCHANGED jobs
    PROVE  \A w \in Workers : SlotMoves(w)
    BY DEF SlotMoves, SlotKeeps

\* The same of the stored digests.
LEMMA QuietRows ==
    ASSUME UNCHANGED digests
    PROVE  \A m \in Members, d \in Days : RowMoves(m, d)
    BY DEF RowMoves

\* Content that stays the same grows.
LEMMA QuietContent ==
    ASSUME Typed, UNCHANGED <<now, content>>
    PROVE  ContentGrows /\ PurgeMoves
    BY DigestAssumption DEF ContentGrows, PurgeMoves, content, purged, Typed, TypeOK, Times

\* Freeing, advancing or filling one slot moves the slots as allowed.
LEMMA FreeMoves ==
    ASSUME Typed, NEW w \in Workers, Free(w), NEW v \in Workers
    PROVE  SlotMoves(v)
<1>1. jobs \in [Workers -> Job] /\ now \in Times /\ 0 \in Times /\ 0 <= now
    BY DigestAssumption DEF Typed, TypeOK, Times
<1>2. CASE v = w
  <2>1. jobs'[v] = NoJob
    BY <1>1, <1>2 DEF Free
  <2> QED
    BY <1>1, <2>1 DEF NoJob, SlotMoves, SlotEmpty
<1>3. CASE v # w
    BY <1>1, <1>3, SlotStays DEF Free
<1> QED
    BY <1>2, <1>3

\* Advancing changes nothing a slot has read.
LEMMA AdvanceMoves ==
    ASSUME Typed, NEW w \in Workers, NEW phase, Advance(w, phase), NEW v \in Workers
    PROVE  SlotMoves(v)
<1>1. jobs \in [Workers -> Job]
    BY DEF Typed, TypeOK
<1>2. CASE v = w
  <2>1. jobs'[v] = [jobs[v] EXCEPT !.phase = phase]
    BY <1>1, <1>2 DEF Advance
  <2>2. jobs[v] \in Job
    BY <1>1
  <2> QED
    BY <2>1, <2>2 DEF Job, SlotMoves, SlotKeeps
<1>3. CASE v # w
    BY <1>1, <1>3, SlotStays DEF Advance
<1> QED
    BY <1>2, <1>3

\* Nor does having only the row to announce: all it has read is dropped.
LEMMA ToPublishMoves ==
    ASSUME Typed, NEW w \in Workers, ToPublish(w), NEW v \in Workers
    PROVE  SlotMoves(v)
<1>1. jobs \in [Workers -> Job] /\ now \in Times /\ 0 \in Times /\ 0 <= now
    BY DigestAssumption DEF Typed, TypeOK, Times
<1>2. CASE v = w
    BY <1>1, <1>2 DEF ToPublish, SlotMoves, SlotEmpty
<1>3. CASE v # w
    BY <1>1, <1>3, SlotStays DEF ToPublish
<1> QED
    BY <1>2, <1>3

\* What a slot reads is what is stored at that moment.
LEMMA RememberMoves ==
    ASSUME Typed, NEW w \in Workers, NEW phase, NEW era, NEW messages, NEW sigs,
           Remember(w, phase, era, messages, sigs), UNCHANGED <<clock, content>>,
           \/ era = purges /\ messages = TopScored /\ sigs = {}
           \/ /\ era = jobs[w].era /\ messages = jobs[w].messages
              /\ sigs = OpenSignalsFor(Member(w)),
           NEW v \in Workers
    PROVE  SlotMoves(v)
<1>1. jobs \in [Workers -> Job]
    BY DEF Typed, TypeOK
<1>2. CASE v = w
  <2>1. jobs'[v] = [task |-> jobs[v].task, phase |-> phase, began |-> jobs[v].began,
                    era |-> era, messages |-> messages, signals |-> sigs]
    BY <1>1, <1>2 DEF Remember
  <2> QED
    BY <1>2, <2>1 DEF SlotMoves, SlotReads
<1>3. CASE v # w
    BY <1>1, <1>3, SlotStays DEF Remember
<1> QED
    BY <1>2, <1>3

\* Every step moves the state as allowed, or commits a disconnect.
LEMMA StepMoves ==
    ASSUME Typed, [Next]_vars
    PROVE  Moves \/ \E kept \in SUBSET Threads : PurgeCommit(kept)
<1>1. ASSUME NEW t \in Threads, ScoreBegin(t) PROVE Moves
  <2>1. now' \in Times /\ now <= now'
    BY <1>1, DigestAssumption DEF ScoreBegin, Tick, Typed, TypeOK, Times
  <2>2. ContentGrows /\ PurgeMoves
    BY <1>1, <2>1 DEF ScoreBegin, ContentGrows, PurgeMoves, purged
  <2> QED
    BY <1>1, <2>2, QuietSlots, QuietRows DEF ScoreBegin, Moves
<1>2. ASSUME NEW t \in Threads, ScoreCommit(t) PROVE Moves
  <2>1. ContentGrows /\ PurgeMoves
    BY <1>2, DigestAssumption DEF ScoreCommit, ContentGrows, PurgeMoves, purged, clock, Typed, TypeOK, Times
  <2> QED
    BY <1>2, <2>1, QuietSlots, QuietRows DEF ScoreCommit, Moves
<1>3. ASSUME NEW t \in Threads, RaiseSignal(t) PROVE Moves
  <2>1. ContentGrows /\ PurgeMoves
    BY <1>3, DigestAssumption DEF RaiseSignal, ContentGrows, PurgeMoves, purged, clock, Typed, TypeOK, Times
  <2> QED
    BY <1>3, <2>1, QuietSlots, QuietRows DEF RaiseSignal, Moves
<1>4. ASSUME NEW t \in Threads, ResolveSignal(t) PROVE Moves
  <2>1. now' \in Times /\ now' = now + 1 /\ now \in Nat
    BY <1>4, DigestAssumption DEF ResolveSignal, Tick, Typed, TypeOK, Times
  <2>2. signals \in [Threads -> {"none", "open", "resolved"}] /\ resolvedAt \in [Threads -> Times]
    BY DEF Typed, TypeOK
  <2>3. ContentGrows /\ PurgeMoves
    BY <1>4, <2>1, <2>2 DEF ResolveSignal, ContentGrows, PurgeMoves, purged
  <2> QED
    BY <1>4, <2>3, QuietSlots, QuietRows DEF ResolveSignal, Moves
<1>5. ASSUME NEW t \in Threads, AnnounceResolved(t) PROVE Moves
    BY <1>5, QuietContent, QuietSlots, QuietRows DEF AnnounceResolved, clock, Moves
<1>6. ASSUME NEW due \in SUBSET Members, ScheduleDay(due) PROVE Moves
    BY <1>6, QuietContent, QuietSlots, QuietRows DEF ScheduleDay, clock, Moves
<1>7. CASE Midnight
    BY <1>7, QuietContent, QuietSlots, QuietRows DEF Midnight, Moves
<1>8. ASSUME NEW m \in Members, Regenerate(m) PROVE Moves
    BY <1>8, QuietContent, QuietSlots, QuietRows DEF Regenerate, clock, Moves
<1>9. ASSUME NEW w \in Workers, NEW t \in Tasks, Deliver(w, t) PROVE Moves
  <2>1. jobs \in [Workers -> Job] /\ now \in Times /\ now <= now
    BY DigestAssumption DEF Typed, TypeOK, Times
  <2>2. ASSUME NEW v \in Workers PROVE SlotMoves(v)
    <3>1. CASE v = w
      <4>1. jobs'[v] = Started(t)
        BY <1>9, <2>1, <3>1 DEF Deliver
      <4> QED
        BY <2>1, <4>1 DEF Started, SlotMoves, SlotEmpty
    <3>2. CASE v # w
        BY <1>9, <2>1, <3>2, SlotStays DEF Deliver
    <3> QED
        BY <3>1, <3>2
  <2> QED
    BY <1>9, <2>2, QuietContent, QuietRows DEF Deliver, clock, Moves
<1>10. ASSUME NEW w \in Workers, FindDigest(w) PROVE Moves
    BY <1>10, ToPublishMoves, QuietContent, QuietRows DEF FindDigest, clock, Moves
<1>11. ASSUME NEW w \in Workers, ReadScored(w) PROVE Moves
    BY <1>11, RememberMoves, QuietContent, QuietRows DEF ReadScored, clock, Moves
<1>12. ASSUME NEW w \in Workers, ReadSignals(w) PROVE Moves
  <2> DEFINE open == OpenSignalsFor(Member(w))
             phase == IF open = {} /\ jobs[w].messages = {} THEN "done" ELSE "draft"
  <2>1. Remember(w, phase, jobs[w].era, jobs[w].messages, open)
    BY <1>12 DEF ReadSignals
  <2> HIDE DEF phase
  <2>2. ASSUME NEW v \in Workers PROVE SlotMoves(v)
    BY <1>12, <2>1, RememberMoves DEF ReadSignals
  <2> QED
    BY <1>12, <2>2, QuietContent, QuietRows DEF ReadSignals, clock, Moves
<1>13. ASSUME NEW w \in Workers, NEW draft \in Drafts, WriteDigest(w, draft) PROVE Moves
  <2>1. digests \in [Members -> [Days -> Digest \cup {None}]]
    BY DEF Typed, TypeOK
  <2> DEFINE row == [generatedAt |-> jobs[w].began,
                     messages |-> FilterCited(draft[1], jobs[w].messages),
                     signals |-> FilterCited(draft[2], jobs[w].signals),
                     crossed |-> Crossed(w)]
  <2>2. /\ row.generatedAt = jobs[w].began
        /\ row.messages \subseteq jobs[w].messages /\ row.signals \subseteq jobs[w].signals
        /\ row.crossed = Crossed(w)
    BY DEF FilterCited
  <2>3. digests' = [digests EXCEPT ![Member(w)][Day(w)] = row]
    BY <1>13 DEF WriteDigest
  <2> HIDE DEF row
  <2>4. ASSUME NEW m \in Members, NEW d \in Days PROVE RowMoves(m, d)
    <3>1. CASE m = Member(w) /\ d = Day(w)
      <4>1. digests'[m][d] = row
        BY <2>1, <2>3, <3>1
      <4>2. RowWritten(m, d, w)
        BY <1>13, <2>2, <3>1, <4>1 DEF RowWritten, WriteDigest
      <4> QED
        BY <4>2 DEF RowMoves
    <3>2. CASE ~(m = Member(w) /\ d = Day(w))
      <4>1. digests'[m][d] = digests[m][d]
        BY <2>1, <2>3, <3>2
      <4> QED
        BY <4>1 DEF RowMoves
    <3> QED
        BY <3>1, <3>2
  <2> QED
    BY <1>13, <2>4, ToPublishMoves, QuietContent DEF WriteDigest, clock, Moves
<1>14. ASSUME NEW w \in Workers, PublishReady(w) PROVE Moves
    BY <1>14, AdvanceMoves, QuietContent, QuietRows DEF PublishReady, clock, Moves
<1>15. ASSUME NEW w \in Workers, Ack(w) PROVE Moves
    BY <1>15, FreeMoves, QuietContent, QuietRows DEF Ack, clock, Moves
<1>16. ASSUME NEW w \in Workers, TaskFails(w) PROVE Moves
    BY <1>16, FreeMoves, QuietContent, QuietRows DEF TaskFails, clock, Moves
<1>17. ASSUME NEW w \in Workers, WorkerLost(w) PROVE Moves
    BY <1>17, FreeMoves, QuietContent, QuietRows DEF WorkerLost, clock, Moves
<1>18. CASE UNCHANGED vars
    BY <1>18, QuietContent, QuietSlots, QuietRows DEF vars, clock, Moves
<1>19. CASE PurgeRows
  <2>1. now \in Times /\ now <= now
    BY DigestAssumption DEF Typed, TypeOK, Times
  <2>2. ContentGrows
    BY <1>19, <2>1 DEF PurgeRows, ContentGrows, clock
  <2>3. purge'.rows = {r \in Members \X Days : digests[r[1]][r[2]] # None} /\ UNCHANGED digests
    BY <1>19 DEF PurgeRows
  <2>4. PurgeMoves
    BY <2>3 DEF PurgeMoves
  <2> QED
    BY <1>19, <2>2, <2>4, QuietSlots, QuietRows DEF PurgeRows, Moves
<1> QED
    BY <1>1, <1>2, <1>3, <1>4, <1>5, <1>6, <1>7, <1>8, <1>9, <1>10, <1>11, <1>12, <1>13, <1>14,
       <1>15, <1>16, <1>17, <1>18, <1>19 DEF Next, ServerStep, WorkerStep

\* The invariant holds at first: there is no digest and no task.
LEMMA InitGrounded == Init => GInv
<1> SUFFICES ASSUME Init PROVE GInv
    OBVIOUS
<1>1. Typed
    BY InitTyped, DigestAssumption
<1>2. Stamped
    BY DEF Init, Stamped
<1>3. JobsGrounded
  <2>1. 0 \in Times /\ 0 <= now
    BY DigestAssumption DEF Times, Init
  <2>2. NoJob.began = 0 /\ NoJob.era = 0 /\ NoJob.messages = {} /\ NoJob.signals = {}
    BY DEF NoJob
  <2>3. (\A w \in Workers : jobs[w] = NoJob) /\ purges = 0
    BY DEF Init
  <2> QED
    BY <2>1, <2>2, <2>3 DEF JobsGrounded, Grounded, Held
<1>4. RowsGrounded
    BY DEF Init, RowsGrounded
<1>5. Covered
    BY DEF Init, Covered, NoPurge
<1> QED
    BY <1>1, <1>2, <1>3, <1>4, <1>5 DEF GInv

\* It is inductive, since every step moves the state (StepMoves) or purges it.
LEMMA GroundedStep == GInv /\ [Next]_vars => GInv'
<1> SUFFICES ASSUME GInv, [Next]_vars PROVE GInv'
    OBVIOUS
<1>1. Typed'
    BY TypedStep, DigestAssumption DEF GInv
<1>2. CASE Moves
    BY <1>1, <1>2, MovesGrounded DEF GInv
<1>3. ASSUME NEW kept \in SUBSET Threads, PurgeCommit(kept) PROVE GInv'
    BY <1>1, <1>3, PurgeGrounded DEF GInv
<1> QED
    BY <1>2, <1>3, StepMoves DEF GInv

\* What a grounded row cites exists, or was deleted by what overtook it.
LEMMA GroundedCites == GInv => CitesWhatExists
<1> SUFFICES ASSUME GInv, NEW m \in Members, NEW d \in Days, digests[m][d] # None
             PROVE  LET row == digests[m][d]
                        deleted == IF row.crossed = "yes" THEN gone ELSE {} IN
                    /\ \A t \in row.messages : scoredAt[t] # 0 \/ t \in deleted
                    /\ \A t \in row.signals : /\ signals[t] # "none" \/ t \in deleted
                                              /\ <<m, t>> \in Relevant
    BY DEF CitesWhatExists, StoredRows
<1>1. digests[m][d].crossed \in {"no", "yes"}
    BY DEF GInv, Typed, TypeOK, Digest
<1> QED
    BY <1>1 DEF GInv, RowsGrounded, Grounded, Held

\* And was not resolved before the row was begun.
LEMMA GroundedAges == GInv => ResolutionAgesOut
    BY DEF GInv, RowsGrounded, Grounded, ResolutionAgesOut, StoredRows

\* Whatever the model invents and whatever the pipeline does while it writes, a
\* stored digest cites only scored messages and existing signals for its member,
\* also across disconnects of Slack: only a row whose generation was overtaken
\* by one may cite what is gone.
THEOREM DigestCitesWhatExists == Spec => []CitesWhatExists
    BY GroundedCites, InitGrounded, GroundedStep, PTL DEF Spec

\* However generations overlap, no stored digest holds a thread resolved before
\* it was begun.
THEOREM DigestAgesOut == Spec => []ResolutionAgesOut
    BY GroundedAges, InitGrounded, GroundedStep, PTL DEF Spec
=============================================================================
