---------------------------- MODULE EveInsights ----------------------------
(***************************************************************************)
(* Eve: tasks that search the workspace with a language model, gate what   *)
(* it emits and store an insight, several at a time; and the browser tabs  *)
(* that ask for a run, wait for its event and show the insights.           *)
(***************************************************************************)
EXTENDS InsightGate, Sequences

CONSTANTS
    Texts,        \* messages and documents the workspace may hold
    Topics,       \* what an insight is about: two of a topic are too similar
    None,
    Workers, Tabs,
    Cap,          \* eve_max_insights_per_day
    RecentLimit,  \* how many insights recent_title_summaries returns
    MaxTurns,     \* _MAX_TURNS
    MaxOps,       \* bound: clicks, texts, purges and crashes
    MaxDays       \* bound: days

ASSUME EveAssumption ==
    /\ Texts \subseteq Snippets /\ None \notin Topics
    /\ IsFiniteSet(Workers) /\ Workers # {}
    /\ Cap \in Nat \ {0} /\ RecentLimit \in Nat
    /\ MaxTurns \in Nat \ {0} /\ MaxOps \in Nat /\ MaxDays \in Nat \ {0}

VARIABLES
    texts,      \* what the workspace holds
    insights,   \* rows of insights
    lastId,     \* the last id given out
    day,        \* today
    waiting,    \* tasks in the broker
    runs,       \* what each worker runs
    tabs,
    dirty,      \* history: a run was under way at the last purge
    ops

workspace == <<texts, day, dirty>>
vars == <<workspace, insights, lastId, waiting, runs, tabs, ops>>

\* "began" is history: the last id given out when its run read the others.
Insight == [id : Nat, topic : Topics, sources : SUBSET Snippets, day : Nat, began : Nat]

Flag == {"yes", "no"}
Run == [step : {"idle", "cap", "llm", "embed", "insert", "publish"},
        recent : SUBSET Topics, began : Nat,
        turn : Nat, nudged : Flag, searched : Flag,
        evidence : SUBSET Texts,
        topic : Topics \cup {None}, sources : SUBSET Snippets, id : Nat]

NoRun == [step |-> "idle", recent |-> {}, began |-> 0, turn |-> 0, nudged |-> "no",
          searched |-> "no", evidence |-> {}, topic |-> None,
          sources |-> {}, id |-> 0]

\* Of a tab: whether it shows Eve at work, its safety timer, and whether it
\* refreshes its page for a created insight.
Tab == [running : Flag, timer : Flag, settling : Flag]
NoTab == [running |-> "no", timer |-> "no", settling |-> "no"]

\* The grounded sources of whatever the model may emit, by what was retrieved.
Outcomes ==
    [evidence \in SUBSET Texts |->
        {Grounded(cited, evidence) :
            cited \in UNION {Cited(written, evidence) : written \in Writings}}]

Quotable == {t \in Texts : IsGrounded(t, Texts)}

\* Slack and Dropbox were synced, and an earlier run may have stored an insight.
Init ==
    /\ texts = Texts
    /\ \/ insights = {} /\ lastId = 0
       \/ /\ \E topic \in Topics :
               insights = {[id |-> 1, topic |-> topic, sources |-> Quotable, day |-> 1, began |-> 0]}
          /\ Enough(Quotable) /\ lastId = 1
    /\ day = 1 /\ waiting = 0
    /\ runs = [w \in Workers |-> NoRun]
    /\ tabs = [t \in Tabs |-> NoTab]
    /\ dirty = "no" /\ ops = 0

Start == ops < MaxOps /\ ops' = ops + 1
Busy(w) == runs[w].step # "idle"
Set(w, run) == runs' = [runs EXCEPT ![w] = run]
End(w) == Set(w, NoRun)

Today == {i \in insights : i.day = day}
Newer(i) == {j \in insights : j.id > i.id}

\* Variant for the mutation runs: the button waits without a timer.
StartedUntimed(t) ==
    [tabs[t] EXCEPT !.running = "yes"]

\* The store's start() and done().
Started(t) == [tabs[t] EXCEPT !.running = "yes", !.timer = "yes"]
Done(t) == [tabs[t] EXCEPT !.running = "no", !.timer = "no"]

\* EveStreamListener. Redis keeps no event for a tab that is not connected. A
\* created insight starts a refresh of the page; a failed run, of whoever asked
\* for it, ends the waiting.
Announce(handled) ==
    \E connected \in SUBSET Tabs :
        tabs' = [t \in Tabs |-> IF t \in connected THEN handled[t] ELSE tabs[t]]

PublishFailed == Announce([t \in Tabs |-> Done(t)])
Publish == Announce([t \in Tabs |-> [tabs[t] EXCEPT !.settling = "yes"]])

Fail(w) == End(w) /\ PublishFailed

-----------------------------------------------------------------------------
\* Variants for the mutation runs.

\* The oldest insights are compared with.
RecentOldest == {i.topic : i \in {j \in insights : Cardinality(insights \ Newer(j)) <= RecentLimit}}

\* The cap is passed by one.
CappedLate == Cardinality(Today) > Cap

\* The purge leaves the insights.
PurgedNothing == insights

\* The event goes out before the insight is committed.
CompareAnnounced(w) ==
    /\ runs[w].step = "embed"
    /\ IF runs[w].topic \in runs[w].recent THEN Fail(w)
       ELSE Set(w, [runs[w] EXCEPT !.step = "insert"]) /\ Publish
    /\ UNCHANGED <<workspace, insights, lastId, waiting, ops>>

-----------------------------------------------------------------------------
\* What the statements below read and write.

\* recent_title_summaries: the newest ones.
Recent == {i.topic : i \in {j \in insights : Cardinality(Newer(j)) < RecentLimit}}

Capped == Cardinality(Today) >= Cap

Purge == {}

LastTurn(w) == runs[w].turn + 1 = MaxTurns

\* What the read tools find: messages, and decisions drawn from them, of any
\* project; the chunks of the project's documents.
SearchMessages == SUBSET (texts \ Docs)
QuerySignals == SUBSET (texts \ Docs)
SearchDocuments == SUBSET (texts \cap Docs)

Hits == {m \cup s \cup d : m \in SearchMessages, s \in QuerySignals, d \in SearchDocuments}

\* What is retrieved once the read tools an answer calls are through. A tool
\* that fails finds nothing, and one that does not exist is no search.
Reads(w) ==
    {[searched |-> runs[w].searched, evidence |-> runs[w].evidence]}
    \cup {[searched |-> "yes", evidence |-> runs[w].evidence \cup hits] : hits \in Hits}

\* The grounded sources of the insights the gate would accept.
Publishable(w) ==
    {grounded \in UNION {Outcomes[read.evidence] : read \in {r \in Reads(w) : r.searched = "yes"}} :
        Enough(grounded)}

-----------------------------------------------------------------------------
\* generate_eve_insight.

StartRun(w) ==
    /\ ~Busy(w) /\ waiting > 0
    /\ waiting' = waiting - 1
    /\ Set(w, [NoRun EXCEPT !.step = "cap", !.recent = Recent, !.began = lastId])
    /\ UNCHANGED <<workspace, insights, lastId, tabs, ops>>

CheckCap(w) ==
    /\ runs[w].step = "cap"
    /\ IF Capped THEN Fail(w)
       ELSE Set(w, [runs[w] EXCEPT !.step = "llm"]) /\ UNCHANGED tabs
    /\ UNCHANGED <<workspace, insights, lastId, waiting, ops>>

\* A call to the model or the embedder that fails for good, or in each of its
\* attempts, ends the task, which publishes nothing.
CallFails(w) ==
    /\ runs[w].step = "llm" \/ (runs[w].step = "embed" /\ runs[w].recent # {})
    /\ End(w)
    /\ UNCHANGED <<workspace, insights, lastId, waiting, tabs, ops>>

\* No tool is called: it is told once to emit.
Prose(w) ==
    /\ runs[w].step = "llm"
    /\ IF runs[w].nudged = "yes" \/ LastTurn(w)
         THEN Fail(w)
         ELSE /\ Set(w, [runs[w] EXCEPT !.nudged = "yes", !.turn = @ + 1])
              /\ UNCHANGED tabs
    /\ UNCHANGED <<workspace, insights, lastId, waiting, ops>>

\* An answer that only calls read tools.
ReadTools(w) ==
    /\ runs[w].step = "llm"
    /\ IF LastTurn(w) THEN Fail(w)
       ELSE /\ \E read \in Reads(w) :
                 Set(w, [runs[w] EXCEPT !.turn = @ + 1, !.searched = read.searched,
                                        !.evidence = read.evidence])
            /\ UNCHANGED tabs
    /\ UNCHANGED <<workspace, insights, lastId, waiting, ops>>

\* emit_insight, alone or after read tools of the same answer. The gate may
\* reject whatever is emitted: the model may be unsure.
Emit(w) ==
    /\ runs[w].step = "llm"
    /\ \/ /\ \E topic \in Topics, grounded \in Publishable(w) :
                Set(w, [NoRun EXCEPT !.step = "embed", !.recent = runs[w].recent,
                          !.began = runs[w].began, !.topic = topic, !.sources = grounded])
          /\ UNCHANGED tabs
       \/ Fail(w)
    /\ UNCHANGED <<workspace, insights, lastId, waiting, ops>>

\* _is_duplicate, against what the run read when it started.
Compare(w) ==
    /\ runs[w].step = "embed"
    /\ IF runs[w].topic \in runs[w].recent THEN Fail(w)
       ELSE Set(w, [runs[w] EXCEPT !.step = "insert"]) /\ UNCHANGED tabs
    /\ UNCHANGED <<workspace, insights, lastId, waiting, ops>>

Insert(w) ==
    /\ runs[w].step = "insert"
    /\ insights' = insights \cup {[id |-> lastId + 1, topic |-> runs[w].topic, day |-> day,
                                   sources |-> runs[w].sources, began |-> runs[w].began]}
    /\ lastId' = lastId + 1
    /\ Set(w, [runs[w] EXCEPT !.step = "publish", !.id = lastId + 1])
    /\ UNCHANGED <<workspace, waiting, tabs, ops>>

PublishCreated(w) ==
    /\ runs[w].step = "publish"
    /\ Publish
    /\ End(w)
    /\ UNCHANGED <<workspace, insights, lastId, waiting, ops>>

\* The worker goes down; the broker delivers the task again.
Crash(w) ==
    /\ Busy(w) /\ Start
    /\ waiting' = waiting + 1
    /\ End(w)
    /\ UNCHANGED <<workspace, insights, lastId, tabs>>

-----------------------------------------------------------------------------
\* The tabs.

\* The button, and POST insights/generate: the task is enqueued, or the call
\* fails, before or after that.
Click(t) ==
    /\ tabs[t].running = "no" /\ Start
    /\ \/ waiting' = waiting + 1 /\ tabs' = [tabs EXCEPT ![t] = Started(t)]
       \/ waiting' \in {waiting, waiting + 1} /\ tabs' = [tabs EXCEPT ![t] = Done(t)]
    /\ UNCHANGED <<workspace, insights, lastId, runs>>

\* The refreshed page (list_insights) is there.
Settle(t) ==
    /\ tabs[t].settling = "yes"
    /\ tabs' = [tabs EXCEPT ![t] = [Done(t) EXCEPT !.settling = "no"]]
    /\ UNCHANGED <<workspace, insights, lastId, waiting, runs, ops>>

\* The safety timer.
Timeout(t) ==
    /\ tabs[t].timer = "yes"
    /\ tabs' = [tabs EXCEPT ![t] = Done(t)]
    /\ UNCHANGED <<workspace, insights, lastId, waiting, runs, ops>>

-----------------------------------------------------------------------------
\* The workspace.

NewText(x) ==
    /\ x \notin texts /\ Start
    /\ texts' = texts \cup {x}
    /\ UNCHANGED <<insights, lastId, day, waiting, runs, tabs, dirty>>

NewDay ==
    /\ day < MaxDays
    /\ day' = day + 1
    /\ UNCHANGED <<texts, insights, lastId, waiting, runs, tabs, dirty, ops>>

\* Slack is disconnected: its messages go, and with them every insight.
PurgeSource ==
    /\ Start
    /\ texts' = texts \cap Docs
    /\ insights' = Purge
    /\ dirty' = IF \E w \in Workers : Busy(w) THEN "yes" ELSE "no"
    /\ UNCHANGED <<lastId, day, waiting, runs, tabs>>

\* Dropbox is: its documents go, the insights stay.
PurgeDocs ==
    /\ texts \cap Docs # {} /\ Start
    /\ texts' = texts \ Docs
    /\ UNCHANGED <<insights, lastId, day, waiting, runs, tabs, dirty>>

-----------------------------------------------------------------------------
RunStep(w) ==
    \/ CheckCap(w) \/ CallFails(w) \/ Prose(w) \/ ReadTools(w) \/ Emit(w)
    \/ Compare(w) \/ Insert(w) \/ PublishCreated(w)

TabStep(t) == Click(t) \/ Settle(t) \/ Timeout(t)

Next ==
    \/ \E w \in Workers : StartRun(w) \/ RunStep(w) \/ Crash(w)
    \/ \E t \in Tabs : TabStep(t)
    \/ \E x \in Texts : NewText(x)
    \/ NewDay \/ PurgeSource \/ PurgeDocs

Spec == Init /\ [][Next]_vars
-----------------------------------------------------------------------------
TypeOK ==
    /\ texts \subseteq Texts
    /\ insights \subseteq Insight /\ lastId \in Nat /\ day \in 1..MaxDays /\ waiting \in Nat
    /\ runs \in [Workers -> Run]
    /\ tabs \in [Tabs -> Tab]
    /\ dirty \in Flag /\ ops \in 0..MaxOps
    /\ \A w \in Workers : runs[w].turn < MaxTurns
    /\ \A t \in Tabs : tabs[t].running = "yes" => tabs[t].timer = "yes"

\* A stored insight has enough sources, and each quotes a text the workspace
\* held: what the model made up never gets to the page.
SourcesReal ==
    \A i \in insights :
        /\ Cardinality(i.sources) >= MinGrounded
        /\ \A s \in i.sources : IsGrounded(s, Texts)

\* Tasks that passed the cap together exceed it, but by no more than the
\* workers less one.
CapHeld == Cardinality(Today) <= Cap + Cardinality(Workers) - 1

\* Two stored insights of a topic: the later one's run was under way when the
\* earlier one was stored, or it was too far back to be compared with.
RepeatsExplained ==
    \A i, j \in insights : i.topic = j.topic /\ i.id < j.id =>
        \/ i.id > j.began
        \/ Cardinality({k \in insights : i.id < k.id /\ k.id <= j.began}) >= RecentLimit

\* No insight quotes a message that was purged, unless a run was under way at
\* the purge: one that waited finds nothing to quote. (Documents may be gone.)
SourcesHeld ==
    dirty = "no" => \A i \in insights : \A s \in i.sources : IsGrounded(s, texts \cup Docs)

\* A tab is only told of an insight that is committed: the page it refreshes
\* then has it.
AnnouncedStored ==
    [][\A t \in Tabs : tabs[t].settling = "no" /\ tabs'[t].settling = "yes" =>
          \E w \in Workers : runs[w].id \in 1..lastId]_vars
=============================================================================
