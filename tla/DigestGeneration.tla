-------------------------- MODULE DigestGeneration --------------------------
(***************************************************************************)
(* How a member's daily digest is written.  The daily schedule and the     *)
(* Regenerate button send the same task; a worker reads the member's       *)
(* scored messages and open signals, waits for the model's draft, drops    *)
(* the citations it was not given, upserts the row of that member and day, *)
(* and announces it on the project's event channel.  Meanwhile the message *)
(* pipeline scores messages, raises signals and resolves them, and the     *)
(* admin may disconnect Slack, which deletes messages, signals and digests *)
(* alike: a digest holds the ids it cites as plain arrays.                 *)
(*                                                                         *)
(* A thread stands for its message and the signal it may trigger.  The     *)
(* clock counts the moments digests are compared with: the starts of the   *)
(* score transactions (Postgres' now() is the start of the transaction     *)
(* that calls it) and the commits of resolutions.                          *)
(***************************************************************************)
EXTENDS Naturals, FiniteSets, Sequences

CONSTANTS
    Members,     \* org_memberships, all of one project
    Threads,
    Relevant,    \* member and thread: the signal is for the member's subsystems or role
    Days,        \* day indexes
    Drafts,      \* what the model may cite: pairs of messages and signals
    None,        \* no row, no task
    Workers,     \* Celery slots
    Threshold,   \* _NEW_ACTIVITY_THRESHOLD
    MaxTime,     \* BOUND: moments counted
    MaxScans,    \* BOUND: runs of the daily schedule
    MaxRequests, \* BOUND: regenerations asked for by one member
    MaxPurges,   \* BOUND: disconnects of Slack
    Faults,      \* the kinds of failure this instance includes
    MaxFaults    \* BOUND: failures in one behaviour

ASSUME DigestAssumption ==
    /\ Relevant \subseteq Members \X Threads
    /\ Days \subseteq Nat /\ 0 \in Days
    /\ Drafts \subseteq (SUBSET Threads) \X (SUBSET Threads)
    /\ None \notin Members
    /\ Threshold \in Nat \ {0} /\ MaxTime \in Nat
    /\ MaxScans \in Nat /\ MaxRequests \in Nat /\ MaxPurges \in Nat /\ MaxFaults \in Nat

VARIABLES
    now,         \* moments counted so far
    today,       \* the members' current day index
    scoredAt,    \* scores.computed_at of a thread's message, 0 if not scored
    scoring,     \* when the open score transaction of a thread began, 0 if none
    signals,     \* signals.status of a thread, "none" where there is no row
    resolvedAt,  \* when the signal's resolution was committed, 0 if it was not
    purge,       \* the open transaction of a disconnect and what it deletes
    purges,      \* disconnects committed
    gone,        \* threads whose message a disconnect deleted: ids never come back
    unannounced, \* resolved signals whose event is still to be published
    digests,     \* digests: the row of a member and day, or None
    requests,    \* regenerations a member has asked for
    scheduled,   \* the days the daily schedule has run for
    queue,       \* the broker: copies of each digest task
    jobs,        \* what each worker slot is running
    stream,      \* events published and not yet handled by a member's browser
    faults       \* failures so far

clock == <<now, today>>
asked == <<requests, scheduled>>
purged == <<purge, purges, gone>>
content == <<scoredAt, scoring, signals, resolvedAt, purged>>
vars == <<clock, content, unannounced, digests, asked, queue, jobs, stream, faults>>

-----------------------------------------------------------------------------
Times == 0..MaxTime

DigestTask(m, d, force) == [member |-> m, day |-> d, force |-> force]
Tasks == [member : Members, day : Days, force : BOOLEAN]

\* A stored row.  HISTORY: crossed, whether a disconnect was under way when it
\* was written, or was committed after the generation had begun to read.
Digest == [generatedAt : Times, messages : SUBSET Threads, signals : SUBSET Threads,
           crossed : {"no", "yes"}]

\* A slot: its task, how far it got, when its transaction began, what it read.
\* HISTORY: era, the disconnects committed before it read.
Job == [task : Tasks \cup {None}, phase : {"idle", "start", "read", "draft", "publish", "done"},
        began : Times, era : 0..MaxPurges, messages : SUBSET Threads, signals : SUBSET Threads]
NoJob == [task |-> None, phase |-> "idle", began |-> 0, era |-> 0, messages |-> {}, signals |-> {}]

Started(t) == [task |-> t, phase |-> "start", began |-> now, era |-> 0,
               messages |-> {}, signals |-> {}]

\* A disconnect's transaction: the scored messages it found, and the signals
\* and digests whose rows it has deleted, as only itself sees until it commits.
Purge == [open : {"no", "yes"}, messages : SUBSET Threads, signals : SUBSET Threads,
          rows : SUBSET (Members \X Days)]
NoPurge == [open |-> "no", messages |-> {}, signals |-> {}, rows |-> {}]

Member(w) == jobs[w].task.member
Day(w) == jobs[w].task.day

Tick == now < MaxTime /\ now' = now + 1
Fault(kind) == kind \in Faults /\ faults < MaxFaults /\ faults' = faults + 1
Send(sent) == queue' = [t \in Tasks |-> IF t \in sent THEN queue[t] + 1 ELSE queue[t]]
Free(w) == jobs' = [jobs EXCEPT ![w] = NoJob]
Advance(w, phase) == jobs' = [jobs EXCEPT ![w].phase = phase]
Remember(w, phase, era, messages, sigs) ==
    jobs' = [jobs EXCEPT ![w] = [task |-> jobs[w].task, phase |-> phase, began |-> jobs[w].began,
                                 era |-> era, messages |-> messages, signals |-> sigs]]

\* What is left of a generation is to announce the row: what it read is dropped.
ToPublish(w) ==
    jobs' = [jobs EXCEPT ![w] = [task |-> jobs[w].task, phase |-> "publish", began |-> 0,
                                 era |-> 0, messages |-> {}, signals |-> {}]]

\* publish_event: every browser subscribed to the project's channel gets it.
\* An error of the broker is logged and the event is gone.
Publish(event) ==
    \/ stream' = [m \in Members |-> Append(stream[m], event)] /\ UNCHANGED faults
    \/ Fault("publish") /\ UNCHANGED stream

Init ==
    /\ now = 0 /\ today = 0
    /\ scoredAt = [t \in Threads |-> 0]
    /\ scoring = [t \in Threads |-> 0]
    /\ signals = [t \in Threads |-> "none"]
    /\ resolvedAt = [t \in Threads |-> 0]
    /\ purge = NoPurge /\ purges = 0 /\ gone = {}
    /\ unannounced = {}
    /\ digests = [m \in Members |-> [d \in Days |-> None]]
    /\ requests = [m \in Members |-> 0]
    /\ scheduled = {}
    /\ queue = [t \in Tasks |-> 0]
    /\ jobs = [w \in Workers |-> NoJob]
    /\ stream = [m \in Members |-> <<>>]
    /\ faults = 0

-----------------------------------------------------------------------------
\* Variants of operators defined below, each with a mistake a change to the
\* code could make.  No specification uses them: the mutation runs do.

\* A resolved signal no longer ages its thread out.
TopScoredAll == {t \in Threads : scoredAt[t] # 0}

\* The citations are stored as the model wrote them.
FilterNothing(cited, given) == cited

\* A task is handed over that the broker does not hold.
DeliverUnheld(w, t) ==
    /\ jobs[w] = NoJob
    /\ queue' = [queue EXCEPT ![t] = @ - 1]
    /\ jobs' = [jobs EXCEPT ![w] = Started(t)]
    /\ UNCHANGED <<clock, content, unannounced, digests, asked, stream, faults>>

\* The event goes to the organisation's channel instead of the project's.
PublishReadyOrg(w) ==
    /\ jobs[w].phase = "publish"
    /\ Advance(w, "done")
    /\ UNCHANGED <<clock, content, unannounced, digests, asked, queue, stream, faults>>

-----------------------------------------------------------------------------
\* The message pipeline, as far as a digest sees it.

\* A score transaction begins; its rows carry this moment as computed_at.
ScoreBegin(t) ==
    /\ scoredAt[t] = 0 /\ scoring[t] = 0 /\ t \notin gone
    /\ Tick
    /\ scoring' = [scoring EXCEPT ![t] = now + 1]
    /\ UNCHANGED <<today, scoredAt, signals, resolvedAt, purged, unannounced, digests, asked,
                   queue, jobs, stream, faults>>

ScoreCommit(t) ==
    /\ scoring[t] # 0
    /\ scoredAt' = [scoredAt EXCEPT ![t] = scoring[t]]
    /\ scoring' = [scoring EXCEPT ![t] = 0]
    /\ UNCHANGED <<clock, signals, resolvedAt, purged, unannounced, digests, asked,
                   queue, jobs, stream, faults>>

RaiseSignal(t) ==
    /\ signals[t] = "none" /\ t \notin gone
    /\ signals' = [signals EXCEPT ![t] = "open"]
    /\ UNCHANGED <<clock, scoredAt, scoring, resolvedAt, purged, unannounced, digests, asked,
                   queue, jobs, stream, faults>>

\* A reply resolves the signal; the event follows the commit.  A row that a
\* disconnect has deleted is waited for, and then not there.
ResolveSignal(t) ==
    /\ signals[t] = "open" /\ t \notin gone \cup purge.signals
    /\ Tick
    /\ signals' = [signals EXCEPT ![t] = "resolved"]
    /\ resolvedAt' = [resolvedAt EXCEPT ![t] = now + 1]
    /\ unannounced' = unannounced \cup {t}
    /\ UNCHANGED <<today, scoredAt, scoring, purged, digests, asked, queue, jobs, stream, faults>>

AnnounceResolved(t) ==
    /\ t \in unannounced
    /\ unannounced' = unannounced \ {t}
    /\ Publish("signal_resolved")
    /\ UNCHANGED <<clock, content, digests, asked, queue, jobs>>

-----------------------------------------------------------------------------
\* DELETE /connectors/{id} of Slack, as far as a digest sees it.

\* _purge_source_data deletes every signal and every digest it finds.
PurgeRows ==
    /\ purge.open = "no" /\ purges < MaxPurges
    /\ purge' = [open |-> "yes",
                  messages |-> {t \in Threads : scoredAt[t] # 0 \/ scoring[t] # 0},
                  signals |-> {t \in Threads : signals[t] # "none"},
                  rows |-> {r \in Members \X Days : digests[r[1]][r[2]] # None}]
    /\ UNCHANGED <<clock, scoredAt, scoring, signals, resolvedAt, purges, gone, unannounced,
                   digests, asked, queue, jobs, stream, faults>>

\* Then the messages with their scores, and commits; nobody is told.  Messages
\* it had not found may have come too late for it (kept), and so do the signals
\* and digests written since: a signal loses its trigger and stays, and so does
\* a digest that cites what is deleted now.
PurgeCommit(kept) ==
    /\ purge.open = "yes"
    /\ kept \cap (purge.messages \cup purge.signals) = {}
    /\ gone' = gone \cup (Threads \ kept)
    /\ scoredAt' = [t \in Threads |-> IF t \in gone' THEN 0 ELSE scoredAt[t]]
    /\ scoring' = [t \in Threads |-> IF t \in gone' THEN 0 ELSE scoring[t]]
    /\ signals' = [t \in Threads |-> IF t \in purge.signals THEN "none" ELSE signals[t]]
    /\ digests' = [m \in Members |-> [d \in Days |->
                     IF <<m, d>> \in purge.rows THEN None ELSE digests[m][d]]]
    /\ purge' = NoPurge /\ purges' = purges + 1
    /\ UNCHANGED <<clock, resolvedAt, unannounced, asked, queue, jobs, stream, faults>>

-----------------------------------------------------------------------------
\* The daily schedule (enqueue_due_digests_now) and the calendar.

\* Every member is due; the send loop may break off at a broker error.
ScheduleDay(due) ==
    /\ today \notin scheduled /\ Cardinality(scheduled) < MaxScans
    /\ IF due = Members THEN UNCHANGED faults ELSE Fault("enqueue")
    /\ scheduled' = scheduled \cup {today}
    /\ Send({DigestTask(m, today, FALSE) : m \in due})
    /\ UNCHANGED <<clock, content, unannounced, digests, requests, jobs, stream>>

Midnight ==
    /\ today + 1 \in Days
    /\ today' = today + 1
    /\ UNCHANGED <<now, content, unannounced, digests, asked, queue, jobs, stream, faults>>

-----------------------------------------------------------------------------
\* POST /digests/regenerate: the forced task of today.  (What the route
\* publishes goes to the organisation's channel, which nobody listens to.)
Accept(m) ==
    /\ requests[m] < MaxRequests
    /\ requests' = [requests EXCEPT ![m] = @ + 1]
    /\ Send({DigestTask(m, today, TRUE)})

Regenerate(m) ==
    /\ Accept(m)
    /\ UNCHANGED <<clock, content, unannounced, digests, scheduled, jobs, stream, faults>>

-----------------------------------------------------------------------------
\* Queries of digest/repository.py.

\* top_scored_items_for_member: a resolved signal ages its thread out.
TopScored == {t \in Threads : scoredAt[t] # 0 /\ signals[t] # "resolved"}

\* open_signals_for_member_subsystems.
OpenSignalsFor(m) == {t \in Threads : <<m, t>> \in Relevant /\ signals[t] = "open"}

\* _filter_cited_ids: of the draft's citations only those it was given stay.
FilterCited(cited, given) == cited \cap given

-----------------------------------------------------------------------------
\* generate_digest_for_member.

\* A slot takes a task and opens its transaction.
Deliver(w, t) ==
    /\ jobs[w] = NoJob /\ queue[t] > 0
    /\ queue' = [queue EXCEPT ![t] = @ - 1]
    /\ jobs' = [jobs EXCEPT ![w] = Started(t)]
    /\ UNCHANGED <<clock, content, unannounced, digests, asked, stream, faults>>

\* The day has its digest already: announce it again and be done.
FindDigest(w) ==
    /\ jobs[w].phase = "start"
    /\ ~jobs[w].task.force /\ digests[Member(w)][Day(w)] # None
    /\ ToPublish(w)
    /\ UNCHANGED <<clock, content, unannounced, digests, asked, queue, stream, faults>>

ReadScored(w) ==
    /\ jobs[w].phase = "start"
    /\ jobs[w].task.force \/ digests[Member(w)][Day(w)] = None
    /\ Remember(w, "read", purges, TopScored, {})
    /\ UNCHANGED <<clock, content, unannounced, digests, asked, queue, stream, faults>>

\* The second query; with nothing to report the task ends without a word.
ReadSignals(w) ==
    /\ jobs[w].phase = "read"
    /\ LET open == OpenSignalsFor(Member(w)) IN
       Remember(w, IF open = {} /\ jobs[w].messages = {} THEN "done" ELSE "draft",
                jobs[w].era, jobs[w].messages, open)
    /\ UNCHANGED <<clock, content, unannounced, digests, asked, queue, stream, faults>>

Crossed(w) == IF jobs[w].era = purges /\ purge.open = "no" THEN "no" ELSE "yes"

\* The model cites what it likes (the stub of a failed call cites messages
\* only); what passes the filter is upserted and committed, after a disconnect
\* that has deleted the row.
WriteDigest(w, draft) ==
    /\ jobs[w].phase = "draft" /\ <<Member(w), Day(w)>> \notin purge.rows
    /\ digests' = [digests EXCEPT ![Member(w)][Day(w)] =
                     [generatedAt |-> jobs[w].began,
                      messages |-> FilterCited(draft[1], jobs[w].messages),
                      signals |-> FilterCited(draft[2], jobs[w].signals),
                      crossed |-> Crossed(w)]]
    /\ ToPublish(w)
    /\ UNCHANGED <<clock, content, unannounced, asked, queue, stream, faults>>

PublishReady(w) ==
    /\ jobs[w].phase = "publish"
    /\ Publish("digest_ready")
    /\ Advance(w, "done")
    /\ UNCHANGED <<clock, content, unannounced, digests, asked, queue>>

Ack(w) ==
    /\ jobs[w].phase = "done"
    /\ Free(w)
    /\ UNCHANGED <<clock, content, unannounced, digests, asked, queue, stream, faults>>

\* The task raises and is gone; a lost worker's task is delivered again.
TaskFails(w) ==
    /\ jobs[w] # NoJob /\ jobs[w].phase # "done" /\ Fault("fail")
    /\ Free(w)
    /\ UNCHANGED <<clock, content, unannounced, digests, asked, queue, stream>>

WorkerLost(w) ==
    /\ jobs[w] # NoJob /\ Fault("lost")
    /\ Send({jobs[w].task})
    /\ Free(w)
    /\ UNCHANGED <<clock, content, unannounced, digests, asked, stream>>

-----------------------------------------------------------------------------
WorkerStep(w) ==
    \/ \E t \in Tasks : Deliver(w, t)
    \/ FindDigest(w) \/ ReadScored(w) \/ ReadSignals(w) \/ PublishReady(w) \/ Ack(w)
    \/ \E draft \in Drafts : WriteDigest(w, draft)

ServerStep ==
    \/ \E t \in Threads : ScoreBegin(t) \/ ScoreCommit(t) \/ RaiseSignal(t)
                          \/ ResolveSignal(t) \/ AnnounceResolved(t)
    \/ PurgeRows
    \/ \E kept \in SUBSET Threads : PurgeCommit(kept)
    \/ \E due \in SUBSET Members : ScheduleDay(due)
    \/ Midnight
    \/ \E w \in Workers : WorkerStep(w) \/ TaskFails(w) \/ WorkerLost(w)

Next == ServerStep \/ \E m \in Members : Regenerate(m)

Spec == Init /\ [][Next]_vars
-----------------------------------------------------------------------------
TypeOK ==
    /\ now \in Times /\ today \in Days
    /\ scoredAt \in [Threads -> Times] /\ scoring \in [Threads -> Times]
    /\ signals \in [Threads -> {"none", "open", "resolved"}]
    /\ resolvedAt \in [Threads -> Times] /\ unannounced \subseteq Threads
    /\ purge \in Purge /\ purges \in 0..MaxPurges /\ gone \subseteq Threads
    /\ (purge.open = "yes" => purges < MaxPurges)
    /\ digests \in [Members -> [Days -> Digest \cup {None}]]
    /\ requests \in [Members -> 0..MaxRequests] /\ scheduled \subseteq Days
    /\ queue \in [Tasks -> Nat] /\ jobs \in [Workers -> Job]
    /\ stream \in [Members -> Seq({"signal_resolved", "digest_ready"})]
    /\ faults \in 0..MaxFaults

StoredRows == {r \in Members \X Days : digests[r[1]][r[2]] # None}

\* Whatever the model invents and whatever was resolved, scored or rewritten
\* while it wrote, a stored digest cites only messages that are scored and
\* signals that exist and are for its member.  Only one whose generation a
\* disconnect of Slack overtook may also cite what that disconnect deleted.
CitesWhatExists ==
    \A r \in StoredRows : LET row == digests[r[1]][r[2]]
                              deleted == IF row.crossed = "yes" THEN gone ELSE {} IN
       /\ \A t \in row.messages : scoredAt[t] # 0 \/ t \in deleted
       /\ \A t \in row.signals : /\ signals[t] # "none" \/ t \in deleted
                                 /\ <<r[1], t>> \in Relevant

\* A thread resolved before a digest was begun is not in it, whichever of two
\* overlapping generations wrote the row last.
ResolutionAgesOut ==
    \A r \in StoredRows : LET row == digests[r[1]][r[2]] IN
       \A t \in row.messages \cup row.signals :
          resolvedAt[t] # 0 => resolvedAt[t] > row.generatedAt

\* A second enqueue for a day that has its digest changes nothing: only a
\* forced task may write over a stored row.
ScheduledWritesOnce ==
    [][\A w \in Workers, m \in Members, d \in Days :
          /\ jobs[w].task = DigestTask(m, d, FALSE)
          /\ jobs[w].phase = "draft" /\ jobs'[w].phase = "publish"
          => digests[m][d] = None]_vars
=============================================================================
