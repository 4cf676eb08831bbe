----------------------- MODULE DigestDashboardProofs -----------------------
(***************************************************************************)
(* Proofs about DigestDashboard, for any members, threads, days, workers   *)
(* and drafts: its types, that a dashboard on which nothing is on its way  *)
(* shows what is stored and says when it is stale (as long as no           *)
(* disconnect of Slack followed the read), and that what is stored is      *)
(* right whatever the browsers do.                                         *)
(***************************************************************************)
EXTENDS DigestDashboard, DigestGenerationProofs

BrowserTyped ==
    /\ pending \subseteq Members /\ armed \subseteq Members /\ posting \subseteq Members
    /\ fetch \in [Members -> Fetch] /\ view \in [Members -> View]

\* A refetch is due: an event to handle, one still to be published, or a
\* request that has not read the row.
Coming(m) ==
    \/ stream[m] # <<>> \/ fetch[m].step = "started" \/ unannounced # {}
    \/ \E w \in Workers : jobs[w].phase = "publish"

Fresh(m) ==
    view[m].era = purges =>
       /\ view[m].row = Latest(m)
       /\ view[m].row # None /\ ResolvedCited(view[m].row) > 0 => view[m].stale

\* Each dashboard is fresh, or about to be, or a refetch is due.
Kept(m) ==
    \/ Coming(m)
    \/ fetch[m].step = "read" /\ (fetch[m].era = purges => fetch[m].row = Latest(m))
    \/ fetch[m].step = "none" /\ Fresh(m)

\* Nobody has read after a disconnect that is not committed yet.
Behind == \A m \in Members : fetch[m].era <= purges /\ view[m].era <= purges

Shown == faults = 0 => \A m \in Members : Kept(m)

DInv == GInv /\ BrowserTyped /\ Behind /\ Shown

-----------------------------------------------------------------------------
\* What the digest request reads is a stored row or none, of a day there is.
LEMMA LatestTyped ==
    ASSUME Typed, NEW m \in Members
    PROVE  /\ Latest(m) \in Rows
           /\ StoredDays(m) # {} => LatestDay(m) \in StoredDays(m)
<1>1. CASE StoredDays(m) = {}
    BY <1>1 DEF Latest, Rows
<1>2. CASE StoredDays(m) # {}
  <2>1. StoredDays(m) \in SUBSET Days
    BY DEF StoredDays
  <2>2. \E d \in StoredDays(m) : \A c \in StoredDays(m) : c <= d
    BY <1>2, <2>1, DaysAssumption
  <2>3. LatestDay(m) \in StoredDays(m)
    BY <2>2 DEF LatestDay
  <2>4. digests[m][LatestDay(m)] \in Digest \cup {None}
    BY <2>1, <2>3 DEF Typed, TypeOK
  <2> QED
    BY <1>2, <2>3, <2>4 DEF Latest, Rows
<1> QED
    BY <1>1, <1>2

\* It is the same as long as the table is.
LEMMA LatestStays ==
    ASSUME NEW m \in Members, UNCHANGED digests
    PROVE  Latest(m)' = Latest(m)
<1>1. StoredDays(m)' = StoredDays(m)
    BY DEF StoredDays
<1>2. LatestDay(m)' = LatestDay(m)
    BY <1>1 DEF LatestDay
<1> QED
    BY <1>1, <1>2 DEF Latest

-----------------------------------------------------------------------------
\* Types, at first.
LEMMA DashInitTyped == DashInit => GInv /\ BrowserTyped /\ Behind
<1> SUFFICES ASSUME DashInit PROVE GInv /\ BrowserTyped /\ Behind
    OBVIOUS
<1>1. GInv
    BY InitGrounded DEF DashInit
<1>2. 0 \in Days /\ 0 \in Eras
    BY DigestAssumption DEF DigestAssumption, Eras
<1>3. NoFetch \in Fetch
    BY <1>2 DEF NoFetch, Fetch, Rows
<1>4. [day |-> 0, row |-> None, stale |-> FALSE, era |-> 0] \in View
    BY <1>2 DEF View, Rows
<1>5. Behind
    BY DEF DashInit, Init, Behind, NoFetch
<1> QED
    BY <1>1, <1>3, <1>4, <1>5 DEF DashInit, BrowserTyped

\* A step of a browser leaves the tables and the slots as they are.
LEMMA BrowserQuiet ==
    ASSUME NEW m \in Members, BrowserStep(m)
    PROVE  UNCHANGED <<now, today, content, unannounced, digests, jobs>>
BY DEF BrowserStep, Click, PostAccepted, PostFailed, TimerFires, HandleEvent, StreamBreaks,
       FetchRow, FetchAnswer, Regenerate, vars, clock

\* What it asks for and what it handles or misses.
LEMMA BrowserSends ==
    ASSUME GInv, NEW m \in Members, BrowserStep(m)
    PROVE  /\ requests' \in [Members -> 0..MaxRequests] /\ scheduled' = scheduled
           /\ queue' \in [Tasks -> Nat] /\ faults' \in 0..MaxFaults
           /\ stream' \in [Members -> Seq(Events)]
<1>1. /\ requests \in [Members -> 0..MaxRequests] /\ queue \in [Tasks -> Nat]
      /\ faults \in 0..MaxFaults /\ stream \in [Members -> Seq(Events)] /\ MaxRequests \in Nat
    BY DigestAssumption DEF GInv, Typed, TypeOK, Events, DigestAssumption
<1>2. ASSUME Accept(m) PROVE requests' \in [Members -> 0..MaxRequests] /\ queue' \in [Tasks -> Nat]
  <2>1. queue' \in [Tasks -> Nat]
    BY <1>1, <1>2, SendTyped DEF Accept
  <2> QED
    BY <1>1, <1>2, <2>1 DEF Accept
<1>3. CASE Click(m) \/ TimerFires(m) \/ FetchRow(m) \/ FetchAnswer(m)
    BY <1>1, <1>3 DEF Click, TimerFires, FetchRow, FetchAnswer, vars, asked
<1>4. CASE PostAccepted(m)
    BY <1>1, <1>2, <1>4 DEF PostAccepted, Regenerate
<1>5. CASE PostFailed(m)
  <2>1. faults' \in 0..MaxFaults
    BY <1>1, <1>5, FaultTyped, DigestAssumption DEF PostFailed
  <2> QED
    BY <1>1, <1>2, <1>5, <2>1 DEF PostFailed
<1>6. CASE HandleEvent(m)
  <2>1. Tail(stream[m]) \in Seq(Events)
    BY <1>1, <1>6 DEF HandleEvent
  <2> QED
    BY <1>1, <1>6, <2>1 DEF HandleEvent, asked
<1>7. CASE StreamBreaks(m)
  <2>1. faults' \in 0..MaxFaults
    BY <1>1, <1>7, FaultTyped, DigestAssumption DEF StreamBreaks
  <2>2. <<>> \in Seq(Events)
    OBVIOUS
  <2> QED
    BY <1>1, <1>7, <2>1, <2>2 DEF StreamBreaks, asked
<1> QED
    BY <1>3, <1>4, <1>5, <1>6, <1>7 DEF BrowserStep

\* So it keeps what DigestGeneration's steps keep.
LEMMA BrowserGrounded ==
    ASSUME GInv, NEW m \in Members, BrowserStep(m)
    PROVE  GInv'
<1>1. UNCHANGED <<now, today, content, unannounced, digests, jobs>>
    BY BrowserQuiet
<1>2. Typed'
    BY <1>1, BrowserSends DEF GInv, Typed, TypeOK, SlotsHold, content, purged, Events
<1>3. Moves
    BY <1>1, QuietSlots, QuietRows, QuietContent DEF GInv, Moves
<1> QED
    BY <1>2, <1>3, MovesGrounded DEF GInv

\* It reads no later than now.
LEMMA BrowserBehind ==
    ASSUME GInv, BrowserTyped, Behind, NEW m \in Members, BrowserStep(m)
    PROVE  Behind'
<1>1. UNCHANGED purges /\ purges \in Nat
    BY BrowserQuiet, DigestAssumption DEF content, purged, GInv, Typed, TypeOK, DigestAssumption
<1>2. fetch \in [Members -> Fetch] /\ view \in [Members -> View]
    BY DEF BrowserTyped
<1>3. NoFetch.era <= purges /\ Request.era <= purges /\ purges <= purges
    BY <1>1 DEF NoFetch, Request
<1>4. CASE Click(m) \/ TimerFires(m) \/ StreamBreaks(m)
    BY <1>1, <1>4 DEF Click, TimerFires, StreamBreaks, browser, Behind
<1>5. CASE PostAccepted(m) \/ PostFailed(m) \/ HandleEvent(m)
    BY <1>1, <1>2, <1>3, <1>5 DEF PostAccepted, PostFailed, HandleEvent, Behind
<1>6. CASE FetchRow(m)
  <2>1. \A o \in Members : fetch'[o].era = fetch[o].era \/ fetch'[o].era = purges
    BY <1>2, <1>6 DEF FetchRow
  <2> QED
    BY <1>1, <1>3, <1>6, <2>1 DEF FetchRow, Behind
<1>7. CASE FetchAnswer(m)
  <2>1. \A o \in Members : view'[o].era = view[o].era \/ view'[o].era = fetch[o].era
    BY <1>2, <1>7 DEF FetchAnswer
  <2>2. \A o \in Members : fetch'[o].era = fetch[o].era \/ fetch'[o] = NoFetch
    BY <1>2, <1>7 DEF FetchAnswer
  <2> QED
    BY <1>1, <1>3, <2>1, <2>2 DEF Behind
<1> QED
    BY <1>4, <1>5, <1>6, <1>7 DEF BrowserStep

\* It keeps its own state typed.
LEMMA BrowserStepTyped ==
    ASSUME GInv, BrowserTyped, NEW m \in Members, BrowserStep(m)
    PROVE  BrowserTyped'
<1>1. /\ 0 \in Days /\ today \in Days /\ Latest(m) \in Rows
      /\ (StoredDays(m) # {} => LatestDay(m) \in Days)
      /\ 0 \in Eras /\ purges \in Eras
    BY LatestTyped, DigestAssumption
    DEF DigestAssumption, GInv, Typed, TypeOK, StoredDays, Eras
<1>2. NoFetch \in Fetch /\ Request \in Fetch
    BY <1>1 DEF NoFetch, Request, Fetch, Rows
<1>3. CASE Click(m) \/ PostAccepted(m) \/ PostFailed(m) \/ TimerFires(m)
    BY <1>2, <1>3 DEF Click, PostAccepted, PostFailed, TimerFires, Done, BrowserTyped
<1>4. CASE HandleEvent(m)
    BY <1>2, <1>4 DEF HandleEvent, Done, BrowserTyped
<1>5. CASE StreamBreaks(m)
    BY <1>5 DEF StreamBreaks, browser, BrowserTyped
<1>6. CASE FetchRow(m)
  <2> DEFINE r == [step |-> "read", today |-> today, row |-> Latest(m), era |-> purges,
                   day |-> IF StoredDays(m) = {} THEN 0 ELSE LatestDay(m)]
  <2>1. r \in Fetch
    BY <1>1 DEF Fetch
  <2>2. fetch' = [fetch EXCEPT ![m] = r]
    BY <1>6 DEF FetchRow
  <2> HIDE DEF r
  <2> QED
    BY <1>6, <2>1, <2>2 DEF FetchRow, BrowserTyped
<1>7. CASE FetchAnswer(m)
  <2> DEFINE s == fetch[m].row # None /\ IsStale(fetch[m].today, fetch[m].day, fetch[m].row)
             v == [day |-> fetch[m].day, row |-> fetch[m].row, era |-> fetch[m].era, stale |-> s]
  <2>1. s \in BOOLEAN
    BY DEF IsStale
  <2>2. fetch[m].day \in Days /\ fetch[m].row \in Rows /\ fetch[m].era \in Eras
    BY DEF BrowserTyped, Fetch
  <2>3. view' = [view EXCEPT ![m] = v]
    BY <1>7 DEF FetchAnswer
  <2> HIDE DEF s
  <2>4. v \in View
    BY <2>1, <2>2 DEF View
  <2> HIDE DEF v
  <2> QED
    BY <1>2, <1>7, <2>3, <2>4 DEF FetchAnswer, BrowserTyped
<1> QED
    BY <1>3, <1>4, <1>5, <1>6, <1>7 DEF BrowserStep

-----------------------------------------------------------------------------
\* What the dashboards show.

\* A step that takes nothing off the way to a dashboard and changes neither its
\* digest nor which signals are resolved.
LEMMA QuietKept ==
    ASSUME GInv, NEW m \in Members, Kept(m),
           UNCHANGED <<digests, unannounced, stream, fetch, view, purges>>,
           \A t \in Threads : signals'[t] = "resolved" <=> signals[t] = "resolved",
           \A w \in Workers : jobs[w].phase = "publish" => jobs'[w].phase = "publish"
    PROVE  Kept(m)'
<1>1. Latest(m)' = Latest(m)
    BY LatestStays
<1>2. CASE Coming(m)
    BY <1>2 DEF Coming, Kept
<1>3. CASE fetch[m].step = "read" /\ (fetch[m].era = purges => fetch[m].row = Latest(m))
    BY <1>1, <1>3 DEF Kept
<1>4. CASE fetch[m].step = "none" /\ Fresh(m)
  <2>1. view[m].era = purges /\ view[m].row # None =>
           ResolvedCited(view[m].row)' = ResolvedCited(view[m].row)
    <3> SUFFICES ASSUME view[m].era = purges, view[m].row # None
                 PROVE  ResolvedCited(view[m].row)' = ResolvedCited(view[m].row)
        OBVIOUS
    <3>1. view[m].row \in Rows
        BY <1>4, LatestTyped DEF GInv, Fresh
    <3>2. view[m].row.signals \subseteq Threads
        BY <3>1 DEF Rows, Digest
    <3>3. {t \in view[m].row.signals : signals'[t] = "resolved"}
            = {t \in view[m].row.signals : signals[t] = "resolved"}
        BY <3>2
    <3> QED
        BY <3>3 DEF ResolvedCited
  <2> QED
    BY <1>1, <1>4, <2>1 DEF Fresh, Kept
<1> QED
    BY <1>2, <1>3, <1>4 DEF Kept

\* A disconnect's commit takes nothing off the way either: what a dashboard has
\* read is of before it.
LEMMA PurgeKept ==
    ASSUME GInv, BrowserTyped, Behind, NEW kept \in SUBSET Threads, PurgeCommit(kept), UNCHANGED browser,
           NEW m \in Members, Kept(m)
    PROVE  Kept(m)'
<1>1. /\ UNCHANGED <<stream, fetch, view, unannounced, jobs>>
      /\ purges \in Nat /\ purges' = purges + 1
      /\ fetch[m].era \in Nat /\ view[m].era \in Nat
    BY DigestAssumption
    DEF PurgeCommit, browser, GInv, Typed, TypeOK, DigestAssumption, BrowserTyped, Fetch, View, Eras
<1>2. fetch'[m].era # purges' /\ view'[m].era # purges'
  <2>1. fetch[m].era <= purges /\ view[m].era <= purges
    BY DEF Behind
  <2> QED
    BY <1>1, <2>1
<1>3. CASE Coming(m)
    BY <1>1, <1>3 DEF Coming, Kept
<1> QED
    BY <1>1, <1>2, <1>3 DEF Kept, Fresh

\* An event published reaches every dashboard, unless it fails.
LEMMA PublishComes ==
    ASSUME GInv, NEW e \in Events, Publish(e), faults' = 0, NEW m \in Members
    PROVE  Kept(m)'
<1>1. ~Fault("publish")
    BY DEF Fault, GInv, Typed, TypeOK
<1>2. stream[m] \in Seq(Events) /\ stream'[m] = Append(stream[m], e)
    BY <1>1 DEF Publish, GInv, Typed, TypeOK, Events
<1>3. stream'[m] # <<>>
  <2>1. \A s \in Seq(Events) : Len(Append(s, e)) = Len(s) + 1 /\ Len(s) \in Nat
    OBVIOUS
  <2> QED
    BY <1>2, <2>1
<1> QED
    BY <1>3 DEF Coming, Kept

\* Failures are only counted up.
LEMMA FaultsCount ==
    ASSUME GInv, ServerStep
    PROVE  faults \in Nat /\ (faults' = faults \/ faults' = faults + 1)
<1>1. faults \in Nat
    BY DigestAssumption DEF GInv, Typed, TypeOK, DigestAssumption
<1>2. ASSUME NEW t \in Threads,
             ScoreBegin(t) \/ ScoreCommit(t) \/ RaiseSignal(t) \/ ResolveSignal(t) \/ AnnounceResolved(t)
      PROVE  faults' = faults \/ faults' = faults + 1
    BY <1>2 DEF ScoreBegin, ScoreCommit, RaiseSignal, ResolveSignal, AnnounceResolved, Publish, Fault
<1>3. ASSUME NEW due \in SUBSET Members, ScheduleDay(due) \/ Midnight
      PROVE  faults' = faults \/ faults' = faults + 1
    BY <1>3 DEF ScheduleDay, Midnight, Fault
<1>4. ASSUME NEW w \in Workers, WorkerStep(w)
      PROVE  faults' = faults \/ faults' = faults + 1
    BY <1>4 DEF WorkerStep, Deliver, FindDigest, ReadScored, ReadSignals, PublishReady, Ack,
       WriteDigest, Publish, Fault
<1>5. ASSUME NEW w \in Workers, TaskFails(w) \/ WorkerLost(w)
      PROVE  faults' = faults \/ faults' = faults + 1
    BY <1>5 DEF TaskFails, WorkerLost, Fault
<1>6. ASSUME NEW kept \in SUBSET Threads, PurgeRows \/ PurgeCommit(kept)
      PROVE  faults' = faults
    BY <1>6 DEF PurgeRows, PurgeCommit
<1> QED
    BY <1>1, <1>2, <1>3, <1>4, <1>5, <1>6 DEF ServerStep

\* Nor are disconnects ever uncounted.
LEMMA ServerBehind ==
    ASSUME GInv, BrowserTyped, Behind, ServerStep, UNCHANGED browser
    PROVE  Behind'
<1>1. Typed /\ [Next]_vars /\ purges \in Nat
    BY DigestAssumption DEF GInv, Next, Typed, TypeOK, DigestAssumption
<1>2. purges' = purges \/ purges' = purges + 1
  <2>1. CASE Moves
    BY <2>1 DEF Moves, ContentGrows
  <2>2. ASSUME NEW kept \in SUBSET Threads, PurgeCommit(kept) PROVE purges' = purges + 1
    BY <2>2 DEF PurgeCommit
  <2> QED
    BY <1>1, <2>1, <2>2, StepMoves
<1>3. /\ UNCHANGED <<fetch, view>>
      /\ \A m \in Members : fetch[m].era \in Nat /\ view[m].era \in Nat
    BY DigestAssumption DEF browser, BrowserTyped, Fetch, View, Eras, DigestAssumption
<1> QED
    BY <1>1, <1>2, <1>3 DEF Behind

\* No step of the server that fails nowhere leaves a dashboard behind.
LEMMA ServerKept ==
    ASSUME GInv, BrowserTyped, Behind, ServerStep, UNCHANGED browser, faults = 0, faults' = 0,
           NEW m \in Members, Kept(m)
    PROVE  Kept(m)'
<1>0. /\ UNCHANGED <<fetch, view>> /\ jobs \in [Workers -> Job]
      /\ signals \in [Threads -> {"none", "open", "resolved"}]
      /\ \A kind : ~Fault(kind)
    BY DEF browser, GInv, Typed, TypeOK, Fault
<1>1. ASSUME NEW t \in Threads, ScoreBegin(t) \/ ScoreCommit(t) PROVE Kept(m)'
    BY <1>0, <1>1, QuietKept DEF ScoreBegin, ScoreCommit, purged
<1>2. ASSUME NEW t \in Threads, RaiseSignal(t) PROVE Kept(m)'
  <2>1. \A s \in Threads : signals'[s] = "resolved" <=> signals[s] = "resolved"
    BY <1>0, <1>2 DEF RaiseSignal
  <2> QED
    BY <1>0, <1>2, <2>1, QuietKept DEF RaiseSignal, purged
<1>3. ASSUME NEW t \in Threads, ResolveSignal(t) PROVE Kept(m)'
    BY <1>3 DEF ResolveSignal, Coming, Kept
<1>4. ASSUME NEW t \in Threads, AnnounceResolved(t) PROVE Kept(m)'
    BY <1>4, PublishComes DEF AnnounceResolved, Events
<1>5. ASSUME NEW due \in SUBSET Members, ScheduleDay(due) PROVE Kept(m)'
    BY <1>0, <1>5, QuietKept DEF ScheduleDay, content, purged
<1>6. ASSUME Midnight PROVE Kept(m)'
    BY <1>0, <1>6, QuietKept DEF Midnight, content, purged
<1>7. ASSUME NEW w \in Workers, NEW t \in Tasks, Deliver(w, t) PROVE Kept(m)'
  <2>1. \A v \in Workers : jobs[v].phase = "publish" => jobs'[v].phase = "publish"
    BY <1>0, <1>7 DEF Deliver, NoJob
  <2> QED
    BY <1>0, <1>7, <2>1, QuietKept DEF Deliver, content, purged
<1>8. ASSUME NEW w \in Workers, FindDigest(w) PROVE Kept(m)'
  <2>1. jobs'[w].phase = "publish"
    BY <1>0, <1>8 DEF FindDigest, ToPublish
  <2> QED
    BY <2>1 DEF Coming, Kept
<1>9. ASSUME NEW w \in Workers, ReadScored(w) \/ ReadSignals(w) PROVE Kept(m)'
  <2>1. \A v \in Workers : jobs[v].phase = "publish" => jobs'[v].phase = "publish"
    BY <1>0, <1>9 DEF ReadScored, ReadSignals, Remember
  <2> QED
    BY <1>0, <1>9, <2>1, QuietKept DEF ReadScored, ReadSignals, content, purged
<1>10. ASSUME NEW w \in Workers, NEW draft \in Drafts, WriteDigest(w, draft) PROVE Kept(m)'
  <2>1. jobs'[w].phase = "publish"
    BY <1>0, <1>10 DEF WriteDigest, ToPublish
  <2> QED
    BY <2>1 DEF Coming, Kept
<1>11. ASSUME NEW w \in Workers, PublishReady(w) PROVE Kept(m)'
    BY <1>11, PublishComes DEF PublishReady, Events
<1>12. ASSUME NEW w \in Workers, Ack(w) PROVE Kept(m)'
  <2>1. \A v \in Workers : jobs[v].phase = "publish" => jobs'[v].phase = "publish"
    BY <1>0, <1>12 DEF Ack, Free
  <2> QED
    BY <1>0, <1>12, <2>1, QuietKept DEF Ack, content, purged
<1>13. ASSUME NEW w \in Workers, TaskFails(w) \/ WorkerLost(w) PROVE Kept(m)'
    BY <1>0, <1>13 DEF TaskFails, WorkerLost
<1>14. ASSUME PurgeRows PROVE Kept(m)'
    BY <1>0, <1>14, QuietKept DEF PurgeRows
<1>15. ASSUME NEW kept \in SUBSET Threads, PurgeCommit(kept) PROVE Kept(m)'
    BY <1>15, PurgeKept
<1> QED
    BY <1>1, <1>2, <1>3, <1>4, <1>5, <1>6, <1>7, <1>8, <1>9, <1>10, <1>11, <1>12, <1>13, <1>14, <1>15
    DEF ServerStep, WorkerStep

\* A step of one browser leaves the others as they are.
LEMMA OtherKept ==
    ASSUME GInv, BrowserTyped, NEW m \in Members, BrowserStep(m), NEW o \in Members, o # m, Kept(o)
    PROVE  Kept(o)'
<1>1. UNCHANGED <<now, today, content, unannounced, digests, jobs>>
    BY BrowserQuiet
<1>2. /\ stream \in [Members -> Seq(Events)]
      /\ fetch \in [Members -> Fetch] /\ view \in [Members -> View]
    BY DEF GInv, Typed, TypeOK, Events, BrowserTyped
<1>3. stream'[o] = stream[o] /\ fetch'[o] = fetch[o] /\ view'[o] = view[o]
    BY <1>2 DEF BrowserStep, Click, PostAccepted, PostFailed, TimerFires, HandleEvent, StreamBreaks,
       FetchRow, FetchAnswer, Regenerate, vars, browser
<1>4. Latest(o)' = Latest(o)
    BY <1>1, LatestStays
<1> QED
    BY <1>1, <1>3, <1>4 DEF Kept, Coming, Fresh, ResolvedCited, content, purged

\* What a browser's step takes off the way it puts back on, or shows.
LEMMA BrowserKept ==
    ASSUME GInv, BrowserTyped, NEW m \in Members, BrowserStep(m), faults = 0, faults' = 0, Kept(m)
    PROVE  Kept(m)'
<1>1. UNCHANGED <<now, today, content, unannounced, digests, jobs>>
    BY BrowserQuiet
<1>2. fetch \in [Members -> Fetch] /\ view \in [Members -> View] /\ \A kind : ~Fault(kind)
    BY DEF BrowserTyped, Fault
<1>3. Latest(m)' = Latest(m)
    BY <1>1, LatestStays
<1>4. CASE Click(m) \/ TimerFires(m)
    BY <1>1, <1>4, QuietKept DEF Click, TimerFires, vars, content, purged
<1>5. CASE PostAccepted(m) \/ HandleEvent(m)
  <2>1. fetch'[m].step = "started"
    BY <1>2, <1>5 DEF PostAccepted, HandleEvent, Request
  <2> QED
    BY <2>1 DEF Coming, Kept
<1>6. CASE PostFailed(m) \/ StreamBreaks(m)
    BY <1>2, <1>6 DEF PostFailed, StreamBreaks
<1>7. CASE FetchRow(m)
  <2>1. fetch'[m].step = "read" /\ fetch'[m].row = Latest(m)
    BY <1>2, <1>7 DEF FetchRow
  <2> QED
    BY <1>3, <2>1 DEF Kept
<1>8. CASE FetchAnswer(m)
  <2>1. /\ fetch[m].step = "read" /\ fetch'[m].step = "none"
        /\ view'[m].row = fetch[m].row /\ view'[m].era = fetch[m].era
        /\ view'[m].stale = (fetch[m].row # None
                               /\ IsStale(fetch[m].today, fetch[m].day, fetch[m].row))
    BY <1>2, <1>8 DEF FetchAnswer, NoFetch
  <2>2. CASE Coming(m)
    BY <1>1, <1>8, <2>1, <2>2 DEF FetchAnswer, vars, Coming, Kept
  <2>3. CASE fetch[m].era = purges => fetch[m].row = Latest(m)
    <3>1. view'[m].row # None /\ ResolvedCited(fetch[m].row) > 0 => view'[m].stale
        BY <2>1 DEF IsStale
    <3> QED
        BY <1>1, <1>3, <2>1, <2>3, <3>1 DEF Fresh, Kept, ResolvedCited, content, purged
  <2> QED
    BY <2>1, <2>2, <2>3 DEF Kept
<1> QED
    BY <1>4, <1>5, <1>6, <1>7, <1>8 DEF BrowserStep

-----------------------------------------------------------------------------
\* The invariant holds at first, and each step keeps it.
LEMMA DashInitInv == DashInit => DInv
<1> SUFFICES ASSUME DashInit PROVE DInv
    OBVIOUS
<1>1. ASSUME NEW m \in Members PROVE Kept(m)
  <2>1. StoredDays(m) = {}
    BY <1>1 DEF DashInit, Init, StoredDays
  <2>2. fetch[m].step = "none" /\ view[m].row = None
    BY DEF DashInit, NoFetch
  <2> QED
    BY <2>1, <2>2 DEF Kept, Fresh, Latest
<1> QED
    BY <1>1, DashInitTyped DEF DInv, Shown

\* The invariant is inductive: the server's steps, the dashboards', and neither.
LEMMA DashNextInv == DInv /\ [DashNext]_allVars => DInv'
<1> SUFFICES ASSUME DInv, [DashNext]_allVars PROVE DInv'
    OBVIOUS
<1>0. GInv /\ BrowserTyped /\ Behind /\ Shown
    BY DEF DInv
<1>1. CASE ServerStep /\ UNCHANGED browser
  <2>1. GInv'
    BY <1>0, <1>1, GroundedStep DEF Next
  <2>2. BrowserTyped'
    BY <1>0, <1>1 DEF BrowserTyped, browser
  <2>3. ASSUME faults' = 0 PROVE faults = 0
    BY <1>0, <1>1, <2>3, FaultsCount
  <2>4. Behind'
    BY <1>0, <1>1, ServerBehind
  <2> QED
    BY <1>0, <1>1, <2>1, <2>2, <2>3, <2>4, ServerKept DEF DInv, Shown
<1>2. ASSUME NEW m \in Members, BrowserStep(m) PROVE DInv'
  <2>1. ASSUME faults' = 0 PROVE faults = 0
    <3>1. faults \in Nat /\ (faults' = faults \/ faults' = faults + 1)
        BY <1>0, <1>2 DEF GInv, Typed, TypeOK, BrowserStep, Click, PostAccepted, PostFailed,
           TimerFires, HandleEvent, StreamBreaks, FetchRow, FetchAnswer, Regenerate, vars, Fault
    <3> QED
        BY <2>1, <3>1
  <2>2. ASSUME faults' = 0, NEW o \in Members PROVE Kept(o)'
    BY <1>0, <1>2, <2>1, <2>2, OtherKept, BrowserKept DEF Shown
  <2> QED
    BY <1>0, <1>2, <2>2, BrowserGrounded, BrowserStepTyped, BrowserBehind DEF DInv, Shown
<1>3. CASE UNCHANGED allVars
  <2>1. UNCHANGED vars /\ UNCHANGED browser
    BY <1>3 DEF allVars
  <2>2. GInv'
    BY <1>0, <2>1, GroundedStep
  <2>3. ASSUME NEW m \in Members, Kept(m) PROVE Kept(m)'
    BY <1>0, <2>1, <2>3, QuietKept DEF vars, content, purged, browser
  <2>4. Behind'
    BY <1>0, <2>1 DEF Behind, vars, content, purged, browser
  <2> QED
    BY <1>0, <2>1, <2>2, <2>3, <2>4 DEF DInv, Shown, BrowserTyped, browser, vars
<1> QED
    BY <1>1, <1>2, <1>3 DEF DashNext

\* Every reachable state of the digest tasks and the dashboards is well typed,
\* whatever fails.
THEOREM DashTypeCorrect == DashSpec => []DashTypeOK
<1>1. DInv => DashTypeOK
    BY DEF DInv, GInv, Typed, BrowserTyped, DashTypeOK
<1> QED
    BY <1>1, DashInitInv, DashNextInv, PTL DEF DashSpec

\* As long as nothing failed, a dashboard on which nothing is on its way shows
\* the stored digest, and as stale if a signal it cites was resolved, unless a
\* disconnect of Slack was committed since it read the row.
THEOREM DashSettled == DashSpec => []SettledView
<1>1. DInv => SettledView
  <2> SUFFICES ASSUME DInv, NEW m \in Members, Settled(m), faults = 0, view[m].era = purges
               PROVE  Fresh(m)
    BY DEF SettledView, Fresh
  <2>1. Kept(m)
    BY DEF DInv, Shown
  <2>2. ~Coming(m) /\ fetch[m].step = "none"
    BY DEF Settled, Coming, NoFetch
  <2> QED
    BY <2>1, <2>2 DEF Kept
<1> QED
    BY <1>1, DashInitInv, DashNextInv, PTL DEF DashSpec

\* The promises of digest generation hold beside the dashboards too: clicks,
\* requests of which only the answer is lost and broken streams add tasks and
\* events, and a stored digest still cites only what exists or, if a disconnect
\* overtook its generation, what that deleted, and nothing resolved before it
\* was begun.
THEOREM DashCites == DashSpec => [](CitesWhatExists /\ ResolutionAgesOut)
<1>1. DInv => CitesWhatExists /\ ResolutionAgesOut
    BY GroundedCites, GroundedAges DEF DInv
<1> QED
    BY <1>1, DashInitInv, DashNextInv, PTL DEF DashSpec
=============================================================================
