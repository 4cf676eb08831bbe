-------------------------- MODULE DigestDashboard --------------------------
(***************************************************************************)
(* The dashboard of each member beside the digest tasks: the Regenerate    *)
(* button with its pending flag and safety timer (stores/regen.ts), the    *)
(* event stream that clears the flag and refreshes the digest              *)
(* (hooks/use-events.ts), and the digest request of the API                *)
(* (get_today), which reads the row and then counts what makes it stale.   *)
(* A disconnect of Slack deletes digests and publishes nothing.            *)
(***************************************************************************)
EXTENDS DigestGeneration

\* Days are finitely many: each set of them has a latest one.
ASSUME DaysAssumption ==
    \A days \in SUBSET Days : days # {} => \E d \in days : \A c \in days : c <= d

VARIABLES
    pending,    \* members whose button shows "Regenerating"
    armed,      \* members whose safety timer is running
    posting,    \* members whose regenerate request is not answered
    fetch,      \* the digest request in flight: none, started, or what it read
    view        \* the digest shown and its staleness, as last answered

browser == <<pending, armed, posting, fetch, view>>
allVars == <<vars, browser>>

Rows == Digest \cup {None}

\* HISTORY: era, the disconnects committed before the row was read.
Eras == 0..MaxPurges
View == [day : Days, row : Rows, stale : BOOLEAN, era : Eras]
Fetch == [step : {"none", "started", "read"}, today : Days, day : Days, row : Rows, era : Eras]

NoFetch == [step |-> "none", today |-> 0, day |-> 0, row |-> None, era |-> 0]
Request == [step |-> "started", today |-> 0, day |-> 0, row |-> None, era |-> 0]

DashInit ==
    /\ Init
    /\ pending = {} /\ armed = {} /\ posting = {}
    /\ fetch = [m \in Members |-> NoFetch]
    /\ view = [m \in Members |-> [day |-> 0, row |-> None, stale |-> FALSE, era |-> 0]]

-----------------------------------------------------------------------------
\* Variants for the mutation runs, as in DigestGeneration.

\* The flag is set without its safety timer.
ClickUnarmed(m) ==
    /\ m \notin pending /\ m \notin posting /\ requests[m] < MaxRequests
    /\ pending' = pending \cup {m}
    /\ posting' = posting \cup {m}
    /\ UNCHANGED <<vars, armed, fetch, view>>

\* Only a new digest refreshes the dashboard.
HandleReadyOnly(m) ==
    /\ stream[m] # <<>>
    /\ stream' = [stream EXCEPT ![m] = Tail(@)]
    /\ IF Head(stream[m]) = "digest_ready"
         THEN /\ fetch' = [fetch EXCEPT ![m] = Request]
              /\ pending' = pending \ {m} /\ armed' = armed \ {m}
         ELSE UNCHANGED <<fetch, pending, armed>>
    /\ UNCHANGED <<clock, content, unannounced, digests, asked, queue, jobs,
                   faults, posting, view>>

-----------------------------------------------------------------------------
\* Regenerate: start(), then the request; its answer invalidates the digest.

Click(m) ==
    /\ m \notin pending /\ m \notin posting /\ requests[m] < MaxRequests
    /\ pending' = pending \cup {m}
    /\ armed' = armed \cup {m}
    /\ posting' = posting \cup {m}
    /\ UNCHANGED <<vars, fetch, view>>

PostAccepted(m) ==
    /\ m \in posting
    /\ Regenerate(m)
    /\ posting' = posting \ {m}
    /\ fetch' = [fetch EXCEPT ![m] = Request]
    /\ UNCHANGED <<pending, armed, view>>

Done(m) == pending' = pending \ {m} /\ armed' = armed \ {m}

\* The request fails, or only its answer is lost.
PostFailed(m) ==
    /\ m \in posting /\ Fault("post")
    /\ Accept(m) \/ UNCHANGED <<requests, queue>>
    /\ posting' = posting \ {m}
    /\ Done(m)
    /\ UNCHANGED <<clock, content, unannounced, digests, scheduled, jobs, stream,
                   fetch, view>>

TimerFires(m) ==
    /\ m \in armed
    /\ Done(m)
    /\ UNCHANGED <<vars, posting, fetch, view>>

-----------------------------------------------------------------------------
\* The event stream.

\* Any member's digest_ready clears this member's flag; both events refetch.
HandleEvent(m) ==
    /\ stream[m] # <<>>
    /\ stream' = [stream EXCEPT ![m] = Tail(@)]
    /\ fetch' = [fetch EXCEPT ![m] = Request]
    /\ IF Head(stream[m]) = "digest_ready" THEN Done(m) ELSE UNCHANGED <<pending, armed>>
    /\ UNCHANGED <<clock, content, unannounced, digests, asked, queue, jobs, faults,
                   posting, view>>

\* The connection breaks: what is published before it is back is never seen.
StreamBreaks(m) ==
    /\ stream[m] # <<>> /\ Fault("stream")
    /\ stream' = [stream EXCEPT ![m] = <<>>]
    /\ UNCHANGED <<clock, content, unannounced, digests, asked, queue, jobs, browser>>

-----------------------------------------------------------------------------
\* GET /digests/today.

\* get_latest_for_member.
StoredDays(m) == {d \in Days : digests[m][d] # None}
LatestDay(m) == CHOOSE d \in StoredDays(m) : \A c \in StoredDays(m) : c <= d
Latest(m) == IF StoredDays(m) = {} THEN None ELSE digests[m][LatestDay(m)]

\* A cited signal that was deleted is not counted.
ResolvedCited(row) == Cardinality({t \in row.signals : signals[t] = "resolved"})
NewMessages(row) == Cardinality({t \in Threads : scoredAt[t] > row.generatedAt})

\* _compute_is_stale.
IsStale(todayIndex, day, row) ==
    day < todayIndex \/ ResolvedCited(row) > 0 \/ NewMessages(row) >= Threshold

FetchRow(m) ==
    /\ fetch[m].step = "started"
    /\ fetch' = [fetch EXCEPT ![m] =
                   [step |-> "read", today |-> today, row |-> Latest(m), era |-> purges,
                    day |-> IF StoredDays(m) = {} THEN 0 ELSE LatestDay(m)]]
    /\ UNCHANGED <<vars, pending, armed, posting, view>>

\* The counts are queries of their own; the answer is shown.
FetchAnswer(m) ==
    /\ fetch[m].step = "read"
    /\ fetch' = [fetch EXCEPT ![m] = NoFetch]
    /\ view' = [view EXCEPT ![m] =
                  [day |-> fetch[m].day, row |-> fetch[m].row, era |-> fetch[m].era,
                   stale |-> fetch[m].row # None
                              /\ IsStale(fetch[m].today, fetch[m].day, fetch[m].row)]]
    /\ UNCHANGED <<vars, pending, armed, posting>>

-----------------------------------------------------------------------------
BrowserStep(m) ==
    \/ Click(m) \/ PostAccepted(m) \/ PostFailed(m) \/ TimerFires(m)
    \/ HandleEvent(m) \/ StreamBreaks(m) \/ FetchRow(m) \/ FetchAnswer(m)

DashNext ==
    \/ ServerStep /\ UNCHANGED browser
    \/ \E m \in Members : BrowserStep(m)

DashSpec == DashInit /\ [][DashNext]_allVars

\* A worker works, a resolution that was committed is announced, a request is
\* answered, a timer fires and a connected browser handles its events.
Fairness ==
    /\ \A w \in Workers : WF_allVars(WorkerStep(w) /\ UNCHANGED browser)
    /\ \A t \in Threads : WF_allVars(AnnounceResolved(t) /\ UNCHANGED browser)
    /\ \A m \in Members :
          /\ WF_allVars(PostAccepted(m) \/ PostFailed(m))
          /\ WF_allVars(TimerFires(m))
          /\ WF_allVars(HandleEvent(m) \/ StreamBreaks(m))
          /\ WF_allVars(FetchRow(m) \/ FetchAnswer(m))

FairSpec == DashSpec /\ Fairness
-----------------------------------------------------------------------------
\* What the dashboard keeps true.

DashTypeOK ==
    /\ TypeOK
    /\ pending \subseteq Members /\ armed \subseteq Members /\ posting \subseteq Members
    /\ fetch \in [Members -> Fetch] /\ view \in [Members -> View]

\* Nothing is on its way to m's dashboard.
Settled(m) ==
    /\ stream[m] = <<>> /\ fetch[m] = NoFetch /\ unannounced = {}
    /\ \A w \in Workers : jobs[w].phase # "publish"

\* As long as nothing failed, a dashboard on which nothing is on its way shows
\* the stored digest, and shows it as stale if a signal it cites was resolved,
\* although the row, the counts, the commits and the events are apart: unless
\* Slack was disconnected since it was last read, which sends no event.
SettledView ==
    \A m \in Members : Settled(m) /\ faults = 0 /\ view[m].era = purges =>
       /\ view[m].row = Latest(m)
       /\ view[m].row # None /\ ResolvedCited(view[m].row) > 0 => view[m].stale

\* A stored digest is shown in the end, unless a failure intervened or a
\* disconnect deleted it (the deletion itself need never be shown).
DigestShown ==
    \A m \in Members : (Latest(m) \notin {None, view[m].row} /\ faults = 0)
                          ~> (Latest(m) \in {None, view[m].row} \/ faults > 0)

\* The button never stays on "Regenerating", whether the task had nothing to
\* say, was lost, or its event was.
PendingEnds == \A m \in Members : m \in pending ~> m \notin pending

=============================================================================
