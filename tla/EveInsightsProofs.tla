------------------------- MODULE EveInsightsProofs -------------------------
(***************************************************************************)
(* Proofs about EveInsights, for any workers, tabs, texts, writings and    *)
(* bounds: its types, what a stored insight may cite, by how much the      *)
(* daily cap may be passed, and which insights may repeat another.         *)
(***************************************************************************)
EXTENDS EveInsights, FiniteSetTheorems, TLAPS

-----------------------------------------------------------------------------
\* What holds of a run, and of the insights, between any two steps.

\* Of the insights stored when a run began, the topic was read or too old.
Compared(recent, began) ==
    \A i \in insights : i.id <= began =>
        \/ i.topic \in recent
        \/ Cardinality({k \in insights : i.id < k.id /\ k.id <= began}) >= RecentLimit

Accepted(sources) ==
    /\ Cardinality(sources) >= MinGrounded
    /\ \A s \in sources : IsGrounded(s, Texts)

Fit(r) ==
    /\ r.step = "idle" => r = NoRun
    /\ r.turn < MaxTurns /\ r.began <= lastId
    /\ r.step \in {"embed", "insert"} => r.topic \in Topics /\ Accepted(r.sources)
    /\ r.step = "insert" => r.topic \notin r.recent
    /\ r.step = "publish" => r.id \in 1..lastId
    /\ r.step \in {"cap", "llm", "embed", "insert"} => Compared(r.recent, r.began)
    /\ dirty = "no" => /\ r.evidence \subseteq texts \cup Docs
                       /\ \A s \in r.sources : IsGrounded(s, texts \cup Docs)

RunsFit == \A w \in Workers : Fit(runs[w])

Rows ==
    /\ IsFiniteSet(insights)
    /\ \A i \in insights : i.id <= lastId /\ i.began <= lastId /\ i.day <= day

Passed == {w \in Workers : runs[w].step \in {"llm", "embed", "insert"}}

\* What is stored today and what passed the cap, together.
Capacity == Cardinality(Today) + Cardinality(Passed) <= Cap + Cardinality(Workers) - 1

Inv == TypeOK /\ Rows /\ RunsFit /\ SourcesReal /\ RepeatsExplained /\ SourcesHeld

-----------------------------------------------------------------------------
\* Lemmas about the gate.

\* More evidence grounds no less.
LEMMA GroundedByMore ==
    ASSUME NEW s, NEW few, NEW more, few \subseteq more, IsGrounded(s, few)
    PROVE  IsGrounded(s, more)
    BY DEF IsGrounded

\* What the gate accepts is enough, and quotes what was retrieved.
LEMMA OutcomeGrounded ==
    ASSUME NEW evidence \in SUBSET Texts, NEW grounded \in Outcomes[evidence]
    PROVE  \A s \in grounded : IsGrounded(s, evidence)
<1>1. Outcomes[evidence] = {Grounded(cited, evidence) :
            cited \in UNION {Cited(written, evidence) : written \in Writings}}
    BY DEF Outcomes
<1>2. PICK cited : grounded = Grounded(cited, evidence)
    BY <1>1
<1> QED
    BY <1>2 DEF Grounded

\* And what may be emitted cites snippets only.
LEMMA OutcomeSnippets ==
    ASSUME GateAssumption, EveAssumption,
           NEW evidence \in SUBSET Texts, NEW grounded \in Outcomes[evidence]
    PROVE  grounded \subseteq Snippets
<1>1. Outcomes[evidence] = {Grounded(cited, evidence) :
            cited \in UNION {Cited(written, evidence) : written \in Writings}}
    BY DEF Outcomes
<1>2. PICK written \in Writings :
            \E cited \in Cited(written, evidence) : grounded = Grounded(cited, evidence)
    BY <1>1
<1>0. PICK cited \in Cited(written, evidence) : grounded = Grounded(cited, evidence)
    BY <1>2
<1>3. written \subseteq Snippets /\ evidence \subseteq Snippets
    BY DEF GateAssumption, EveAssumption
<1>4. \A s \in Defaulted(written, evidence) : s \subseteq Snippets
    BY <1>3 DEF Defaulted
<1>5. PICK s \in Defaulted(written, evidence) :
            cited = s \/ \E d \in evidence \cap Docs : cited = s \cup {d}
    BY <1>0 DEF Cited
<1>6. cited \subseteq Snippets
    BY <1>3, <1>4, <1>5
<1> QED
    BY <1>0, <1>6 DEF Grounded

\* What a run holds after its read tools are texts of the workspace, beside
\* what it held.
LEMMA ReadsHeld ==
    ASSUME NEW w \in Workers, NEW read \in Reads(w)
    PROVE  /\ read.evidence \subseteq runs[w].evidence \cup texts
           /\ read.searched \in {runs[w].searched, "yes"}
<1>1. \A hits \in Hits : hits \subseteq texts
    BY DEF Hits, SearchMessages, QuerySignals, SearchDocuments
<1> QED
    BY <1>1 DEF Reads

-----------------------------------------------------------------------------
\* A step of a run that changes nothing but the run, and the tabs.

\* Worker w goes on to r, and nothing an insight is compared with changes.
LEMMA RunMoves ==
    ASSUME runs \in [Workers -> Run], RunsFit, NEW w \in Workers,
           NEW r \in Run, Fit(r), Set(w, r), UNCHANGED <<workspace, insights, lastId>>
    PROVE  runs' \in [Workers -> Run] /\ RunsFit'
<1>1. runs' = [runs EXCEPT ![w] = r]
    BY DEF Set
<1>2. runs' \in [Workers -> Run]
    BY <1>1
<1>3. \A v \in Workers : runs'[v] = IF v = w THEN r ELSE runs[v]
    BY <1>1
<1>4. \A v \in Workers : Fit(runs'[v])
    BY <1>3 DEF RunsFit
<1>5. ASSUME NEW v \in Workers PROVE Fit(runs[v])'
    BY <1>4 DEF Fit, Compared, workspace
<1> QED
    BY <1>2, <1>5 DEF RunsFit

\* A worker without a run.
LEMMA IdleFits ==
    ASSUME EveAssumption, lastId \in Nat
    PROVE  NoRun \in Run /\ Fit(NoRun)
<1>1. NoRun \in Run
    BY DEF NoRun, Run, Flag
<1>2. NoRun.step = "idle" /\ NoRun.turn = 0 /\ NoRun.began = 0
      /\ NoRun.evidence = {} /\ NoRun.sources = {}
    BY DEF NoRun
<1> QED
    BY <1>1, <1>2 DEF Fit, EveAssumption

\* Ending a run, in a step that changes nothing else of the insights.
LEMMA RunEnds ==
    ASSUME EveAssumption, TypeOK, RunsFit, NEW w \in Workers,
           End(w), UNCHANGED <<workspace, insights, lastId>>
    PROVE  runs' \in [Workers -> Run] /\ RunsFit'
    BY IdleFits, RunMoves DEF End, TypeOK

\* The steps of a run that stores nothing.
LEMMA RunStepFits ==
    ASSUME GateAssumption, EveAssumption, TypeOK, Rows, RunsFit, NEW w \in Workers,
           \/ StartRun(w) \/ CheckCap(w) \/ CallFails(w) \/ Prose(w) \/ ReadTools(w)
           \/ Emit(w) \/ Compare(w) \/ PublishCreated(w) \/ Crash(w)
    PROVE  runs' \in [Workers -> Run] /\ RunsFit'
<1>1. runs \in [Workers -> Run] /\ runs[w] \in Run /\ Fit(runs[w]) /\ lastId \in Nat
    BY DEF TypeOK, RunsFit
<1>2. CASE StartRun(w)
  <2> DEFINE r == [NoRun EXCEPT !.step = "cap", !.recent = Recent, !.began = lastId]
  <2>1. Recent \subseteq Topics
    BY DEF Recent, TypeOK, Insight
  <2>2. r \in Run
    BY <1>1, <2>1 DEF NoRun, Run, Flag
  <2>3. Compared(Recent, lastId)
    <3> SUFFICES ASSUME NEW i \in insights, i.id <= lastId, i.topic \notin Recent
                 PROVE  Cardinality({k \in insights : i.id < k.id /\ k.id <= lastId}) >= RecentLimit
        BY DEF Compared
    <3>1. ~ Cardinality(Newer(i)) < RecentLimit
        BY DEF Recent
    <3>2. {k \in insights : i.id < k.id /\ k.id <= lastId} = Newer(i)
        BY DEF Newer, Rows, TypeOK, Insight
    <3>3. Cardinality(Newer(i)) \in Nat
        BY FS_Subset, FS_CardinalityType DEF Newer, Rows
    <3>4. Cardinality(Newer(i)) >= RecentLimit
        BY <3>1, <3>3 DEF EveAssumption
    <3> QED
        BY <3>2, <3>4, Zenon
  <2>4. Fit(r)
    BY <1>1, <2>3 DEF Fit, NoRun, EveAssumption
  <2> QED
    BY <1>1, <1>2, <2>2, <2>4, RunMoves DEF StartRun
<1>3. CASE CheckCap(w)
  <2> DEFINE r == [runs[w] EXCEPT !.step = "llm"]
  <2>1. r \in Run /\ (runs[w].step = "cap" => Fit(r))
    BY <1>1 DEF Run, Fit
  <2> QED
    BY <1>1, <1>3, <2>1, RunMoves, RunEnds DEF CheckCap, Fail
<1>4. CASE CallFails(w)
    BY <1>4, RunEnds DEF CallFails
<1>5. CASE Prose(w)
  <2> DEFINE r == [runs[w] EXCEPT !.nudged = "yes", !.turn = @ + 1]
  <2> DEFINE a == [runs[w] EXCEPT !.nudged = "yes"]
  <2>0. a \in Run /\ r = [a EXCEPT !.turn = runs[w].turn + 1] /\ a.step = runs[w].step
        /\ a.began = runs[w].began /\ a.recent = runs[w].recent
        /\ a.evidence = runs[w].evidence /\ a.sources = runs[w].sources
    BY <1>1 DEF Run, Flag
  <2> HIDE DEF a
  <2>1. r \in Run
    BY <1>1, <2>0 DEF Run
  <2>2. ASSUME runs[w].step = "llm", ~LastTurn(w) PROVE Fit(r)
    <3>1. r.step = "llm" /\ r.turn = runs[w].turn + 1 /\ r.began = runs[w].began
          /\ r.recent = runs[w].recent
          /\ r.evidence = runs[w].evidence /\ r.sources = runs[w].sources
        BY <2>0, <2>2 DEF Run
    <3>2. runs[w].turn + 1 < MaxTurns
        BY <1>1, <2>2 DEF Fit, LastTurn, EveAssumption, Run
    <3> QED
        BY <1>1, <2>2, <3>1, <3>2 DEF Fit
  <2> QED
    BY <1>1, <1>5, <2>1, <2>2, RunMoves, RunEnds DEF Prose, Fail
<1>6. CASE ReadTools(w)
  <2>1. CASE LastTurn(w)
    BY <1>6, <2>1, RunEnds DEF ReadTools, Fail
  <2>2. CASE ~LastTurn(w)
    <3>1. PICK read \in Reads(w) :
            Set(w, [runs[w] EXCEPT !.turn = @ + 1, !.searched = read.searched,
                                   !.evidence = read.evidence])
        BY <1>6, <2>2 DEF ReadTools
    <3> DEFINE r == [runs[w] EXCEPT !.turn = @ + 1, !.searched = read.searched,
                                    !.evidence = read.evidence]
    <3>2. read.evidence \subseteq runs[w].evidence \cup texts /\ read.searched \in Flag
        BY <1>1, ReadsHeld DEF Run, Flag
    <3> DEFINE a == [runs[w] EXCEPT !.turn = runs[w].turn + 1]
               b == [a EXCEPT !.searched = read.searched]
    <3>3. a \in Run /\ a.step = runs[w].step /\ a.turn = runs[w].turn + 1
          /\ a.began = runs[w].began /\ a.recent = runs[w].recent
          /\ a.sources = runs[w].sources
        BY <1>1 DEF Run
    <3>4. r = [b EXCEPT !.evidence = read.evidence]
        OBVIOUS
    <3> HIDE DEF a
    <3>5. b \in Run /\ b.step = a.step /\ b.turn = a.turn
          /\ b.began = a.began /\ b.recent = a.recent /\ b.sources = a.sources
        BY <3>2, <3>3 DEF Run
    <3> HIDE DEF b
    <3>6. read.evidence \in SUBSET Texts
        BY <1>1, <3>2 DEF Run, TypeOK
    <3>7. r \in Run /\ r.step = b.step /\ r.turn = b.turn /\ r.began = b.began
          /\ r.recent = b.recent /\ r.sources = b.sources /\ r.evidence = read.evidence
        BY <3>4, <3>5, <3>6 DEF Run
    <3>0. runs[w].step = "llm"
        BY <1>6 DEF ReadTools
    <3>8. runs[w].turn + 1 < MaxTurns
        BY <1>1, <2>2 DEF Fit, LastTurn, EveAssumption, Run
    <3>9. dirty = "no" => r.evidence \subseteq texts \cup Docs
        BY <1>1, <3>2, <3>7 DEF Fit
    <3>10. Fit(r)
        BY <1>1, <3>0, <3>3, <3>5, <3>7, <3>8, <3>9 DEF Fit
    <3> QED
        BY <1>1, <1>6, <3>1, <3>7, <3>10, RunMoves DEF ReadTools
  <2> QED
    BY <2>1, <2>2
<1>7. CASE Emit(w)
  <2>1. CASE Fail(w)
    BY <1>7, <2>1, RunEnds DEF Emit, Fail
  <2>2. CASE ~Fail(w)
    <3>1. PICK topic \in Topics, grounded \in Publishable(w) :
            Set(w, [NoRun EXCEPT !.step = "embed", !.recent = runs[w].recent,
                      !.began = runs[w].began, !.topic = topic, !.sources = grounded])
        BY <1>7, <2>2 DEF Emit
    <3> DEFINE r == [NoRun EXCEPT !.step = "embed", !.recent = runs[w].recent,
                       !.began = runs[w].began, !.topic = topic, !.sources = grounded]
    <3>2. PICK read \in Reads(w) : grounded \in Outcomes[read.evidence]
        BY DEF Publishable
    <3>3. read.evidence \subseteq runs[w].evidence \cup texts /\ read.evidence \in SUBSET Texts
        BY <1>1, ReadsHeld DEF Run, TypeOK
    <3>4. grounded \subseteq Snippets /\ Cardinality(grounded) >= MinGrounded
        BY <3>2, <3>3, OutcomeSnippets DEF Publishable, Enough
    <3>5. \A s \in grounded : IsGrounded(s, read.evidence)
        BY <3>2, <3>3, OutcomeGrounded
    <3>6. Accepted(grounded)
        BY <3>3, <3>4, <3>5, GroundedByMore DEF Accepted
    <3>7. dirty = "no" => \A s \in grounded : IsGrounded(s, texts \cup Docs)
      <4> SUFFICES ASSUME dirty = "no" PROVE \A s \in grounded : IsGrounded(s, texts \cup Docs)
          OBVIOUS
      <4>1. read.evidence \subseteq texts \cup Docs
          BY <1>1, <3>3 DEF Fit
      <4> QED
          BY <3>5, <4>1, GroundedByMore
    <3>8. r \in Run
        BY <1>1, <3>4 DEF NoRun, Run, Flag
    <3>9. r.step = "embed" /\ r.turn = 0 /\ r.began = runs[w].began /\ r.topic = topic
          /\ r.recent = runs[w].recent /\ r.sources = grounded /\ r.evidence = {}
        BY DEF NoRun
    <3> HIDE DEF r
    <3>10. runs[w].step = "llm"
        BY <1>7 DEF Emit
    <3>11. Compared(r.recent, r.began) /\ r.began <= lastId
        BY <1>1, <3>9, <3>10 DEF Fit
    <3>12. 0 < MaxTurns
        BY DEF EveAssumption
    <3>13. Fit(r)
        BY <3>6, <3>7, <3>9, <3>11, <3>12 DEF Fit
    <3> QED
        BY <1>1, <1>7, <3>1, <3>8, <3>13, RunMoves DEF Emit, r
  <2> QED
    BY <2>1, <2>2
<1>8. CASE Compare(w)
  <2> DEFINE r == [runs[w] EXCEPT !.step = "insert"]
  <2>1. r \in Run
    BY <1>1 DEF Run
  <2>2. runs[w].step = "embed" /\ runs[w].topic \notin runs[w].recent => Fit(r)
    BY <1>1 DEF Run, Fit
  <2> QED
    BY <1>1, <1>8, <2>1, <2>2, RunMoves, RunEnds DEF Compare, Fail
<1>9. CASE PublishCreated(w)
    BY <1>9, RunEnds DEF PublishCreated
<1>10. CASE Crash(w)
    BY <1>10, RunEnds DEF Crash, workspace
<1> QED
    BY <1>2, <1>3, <1>4, <1>5, <1>6, <1>7, <1>8, <1>9, <1>10

-----------------------------------------------------------------------------
\* Storing an insight.

\* The row Insert adds.
Stored(w) == [id |-> lastId + 1, topic |-> runs[w].topic, day |-> day,
              sources |-> runs[w].sources, began |-> runs[w].began]

\* It is newer than whatever any run compares with.
LEMMA NewestApart ==
    ASSUME TypeOK, NEW j, insights' = insights \cup {j}, j.id = lastId + 1,
           NEW began \in Nat, began <= lastId, NEW i
    PROVE  {k \in insights' : i.id < k.id /\ k.id <= began} =
           {k \in insights : i.id < k.id /\ k.id <= began}
<1>1. lastId \in Nat
    BY DEF TypeOK
<1>2. ~(j.id <= began)
    BY <1>1
<1> QED
    BY <1>2

\* The insert: the insight has passed the gate and the comparison.
LEMMA InsertInv ==
    ASSUME EveAssumption, Inv, NEW w \in Workers, Insert(w)
    PROVE  /\ insights' \subseteq Insight /\ runs' \in [Workers -> Run]
           /\ RunsFit' /\ Rows' /\ SourcesReal' /\ RepeatsExplained' /\ SourcesHeld'
<1> DEFINE j == Stored(w)
           r == [runs[w] EXCEPT !.step = "publish", !.id = lastId + 1]
           a == [runs[w] EXCEPT !.step = "publish"]
<1>1. /\ lastId \in Nat /\ day \in Nat /\ runs \in [Workers -> Run] /\ runs[w] \in Run
      /\ Fit(runs[w]) /\ runs[w].step = "insert" /\ Rows /\ insights \subseteq Insight
    BY DEF Inv, TypeOK, RunsFit, Insert
<1>2. /\ insights' = insights \cup {j} /\ lastId' = lastId + 1 /\ Set(w, r)
      /\ UNCHANGED <<workspace, waiting, tabs, ops>>
    BY DEF Insert, Stored
<1>3. /\ runs[w].topic \in Topics /\ runs[w].topic \notin runs[w].recent
      /\ Accepted(runs[w].sources) /\ Compared(runs[w].recent, runs[w].began)
      /\ runs[w].began \in Nat /\ runs[w].began <= lastId
      /\ runs[w].sources \subseteq Snippets
    BY <1>1 DEF Fit, Run
<1>4. /\ j.id = lastId + 1 /\ j.topic = runs[w].topic /\ j.day = day
      /\ j.sources = runs[w].sources /\ j.began = runs[w].began /\ j \in Insight
    BY <1>1, <1>3 DEF Stored, Insight
<1> HIDE DEF j
<1>5. insights' \subseteq Insight
    BY <1>1, <1>2, <1>4
<1>6. Rows'
  <2>1. IsFiniteSet(insights')
    BY <1>1, <1>2, FS_AddElement DEF Rows
  <2>2. \A i \in insights' : i.id <= lastId' /\ i.began <= lastId' /\ i.day <= day'
    BY <1>1, <1>2, <1>3, <1>4 DEF Rows, workspace, Insight
  <2> QED
    BY <2>1, <2>2 DEF Rows
<1>7. \A recent : \A began \in Nat :
         began <= lastId /\ Compared(recent, began) => Compared(recent, began)'
  <2> SUFFICES ASSUME NEW recent, NEW began \in Nat, began <= lastId, Compared(recent, began),
                      NEW i \in insights', i.id <= began, i.topic \notin recent
               PROVE  Cardinality({k \in insights' : i.id < k.id /\ k.id <= began}) >= RecentLimit
    BY DEF Compared
  <2>1. i \in insights
    BY <1>1, <1>2, <1>4
  <2>2. Cardinality({k \in insights : i.id < k.id /\ k.id <= began}) >= RecentLimit
    BY <2>1 DEF Compared
  <2>3. {k \in insights' : i.id < k.id /\ k.id <= began} =
        {k \in insights : i.id < k.id /\ k.id <= began}
    BY <1>2, <1>4, NewestApart DEF Inv
  <2> QED
    BY <2>2, <2>3, Zenon
<1>8. r \in Run /\ r.step = "publish" /\ r.id = lastId + 1 /\ r.turn = runs[w].turn
      /\ r.began = runs[w].began /\ r.evidence = runs[w].evidence
      /\ r.sources = runs[w].sources
  <2>1. a \in Run /\ a.step = "publish" /\ a.turn = runs[w].turn /\ a.began = runs[w].began
        /\ a.evidence = runs[w].evidence /\ a.sources = runs[w].sources
        /\ r = [a EXCEPT !.id = lastId + 1]
    BY <1>1 DEF Run
  <2> HIDE DEF a
  <2> QED
    BY <1>1, <2>1 DEF Run
<1> HIDE DEF r
<1>9. runs' \in [Workers -> Run] /\ \A v \in Workers : runs'[v] = IF v = w THEN r ELSE runs[v]
    BY <1>1, <1>2, <1>8 DEF Set
<1>10. RunsFit'
  <2> SUFFICES ASSUME NEW v \in Workers PROVE Fit(runs[v])'
    BY DEF RunsFit
  <2>1. CASE v = w
    <3>1. runs'[v] = r
        BY <1>9, <2>1
    <3>2. r.id \in 1..lastId' /\ r.began <= lastId' /\ r.turn < MaxTurns
        BY <1>1, <1>2, <1>3, <1>8 DEF Fit
    <3>3. dirty' = "no" => /\ r.evidence \subseteq texts' \cup Docs
                           /\ \A s \in r.sources : IsGrounded(s, texts' \cup Docs)
        BY <1>1, <1>2, <1>8 DEF Fit, workspace
    <3> QED
        BY <1>8, <3>1, <3>2, <3>3 DEF Fit
  <2>2. CASE v # w
    <3>1. runs'[v] = runs[v] /\ runs[v] \in Run /\ Fit(runs[v])
        BY <1>1, <1>9, <2>2 DEF Inv, RunsFit
    <3>2. runs[v].began \in Nat /\ runs[v].id \in Nat /\ runs[v].began <= lastId
        BY <3>1 DEF Run, Fit
    <3>3. runs[v].step \in {"cap", "llm", "embed", "insert"}
             => Compared(runs[v].recent, runs[v].began)'
        BY <1>7, <3>1, <3>2 DEF Fit
    <3>4. runs[v].began <= lastId' /\ (runs[v].id \in 1..lastId => runs[v].id \in 1..lastId')
        BY <1>1, <1>2, <3>2
    <3> QED
        BY <1>2, <3>1, <3>3, <3>4 DEF Fit, Compared, workspace
  <2> QED
    BY <2>1, <2>2
<1>11. SourcesReal'
    BY <1>2, <1>3, <1>4 DEF SourcesReal, Inv, Accepted
<1>12. RepeatsExplained'
  <2> SUFFICES ASSUME NEW i \in insights', NEW k \in insights', i.topic = k.topic, i.id < k.id,
                      ~(i.id > k.began)
               PROVE  Cardinality({m \in insights' : i.id < m.id /\ m.id <= k.began}) >= RecentLimit
    BY DEF RepeatsExplained
  <2>1. i \in insights /\ i.id \in Nat /\ k.began \in Nat /\ k.began <= lastId
    BY <1>1, <1>2, <1>3, <1>4 DEF Rows, Insight
  <2>2. {m \in insights' : i.id < m.id /\ m.id <= k.began} =
        {m \in insights : i.id < m.id /\ m.id <= k.began}
    BY <1>2, <1>4, <2>1, NewestApart DEF Inv
  <2>3. Cardinality({m \in insights : i.id < m.id /\ m.id <= k.began}) >= RecentLimit
    <3>1. CASE k \in insights
        BY <2>1, <3>1 DEF Inv, RepeatsExplained
    <3>2. CASE k = j
        BY <1>3, <1>4, <2>1, <3>2 DEF Compared
    <3> QED
        BY <1>2, <3>1, <3>2
  <2> QED
    BY <2>2, <2>3, Zenon
<1>13. SourcesHeld'
    BY <1>1, <1>2, <1>4 DEF SourcesHeld, Inv, Fit, workspace
<1> QED
    BY <1>5, <1>6, <1>9, <1>10, <1>11, <1>12, <1>13

-----------------------------------------------------------------------------
\* The workspace, and the tabs.

\* Nothing of the insights or the runs changes, and the texts only by more, or
\* by less documents.
LEMMA TextsChange ==
    ASSUME Inv, UNCHANGED <<insights, lastId, runs, dirty>>, day <= day',
           texts \cup Docs \subseteq texts' \cup Docs, day' \in Nat
    PROVE  RunsFit' /\ Rows' /\ SourcesReal' /\ RepeatsExplained' /\ SourcesHeld'
<1>1. RunsFit'
  <2> SUFFICES ASSUME NEW w \in Workers PROVE Fit(runs[w])'
    BY DEF RunsFit
  <2>1. Fit(runs[w])
    BY DEF Inv, RunsFit
  <2>2. dirty = "no" => \A s \in runs[w].sources : IsGrounded(s, texts' \cup Docs)
    BY <2>1, GroundedByMore DEF Fit
  <2>3. dirty' = "no" => /\ runs'[w].evidence \subseteq texts' \cup Docs
                         /\ \A s \in runs'[w].sources : IsGrounded(s, texts' \cup Docs)
    BY <2>1, <2>2 DEF Fit
  <2> QED
    BY <2>1, <2>3 DEF Fit, Compared
<1>2. Rows'
    BY DEF Inv, Rows, TypeOK, Insight
<1>3. SourcesReal' /\ RepeatsExplained'
    BY DEF Inv, SourcesReal, RepeatsExplained
<1>4. SourcesHeld'
    BY GroundedByMore DEF Inv, SourcesHeld
<1> QED
    BY <1>1, <1>2, <1>3, <1>4

\* The purge leaves no insight; the runs under way are remembered in dirty.
LEMMA PurgeSourceInv ==
    ASSUME EveAssumption, Inv, PurgeSource
    PROVE  RunsFit' /\ Rows' /\ SourcesReal' /\ RepeatsExplained' /\ SourcesHeld'
<1>1. insights' = {} /\ UNCHANGED <<lastId, day, runs>>
    BY DEF PurgeSource, Purge
<1>2. RunsFit'
  <2> SUFFICES ASSUME NEW w \in Workers PROVE Fit(runs[w])'
    BY DEF RunsFit
  <2>1. Fit(runs[w]) /\ runs' = runs
    BY <1>1 DEF Inv, RunsFit
  <2>2. dirty' = "no" => runs[w].evidence = {} /\ runs[w].sources = {}
    <3> SUFFICES ASSUME dirty' = "no" PROVE runs[w].evidence = {} /\ runs[w].sources = {}
        OBVIOUS
    <3>1. ~Busy(w)
        BY DEF PurgeSource
    <3>2. runs[w] = NoRun
        BY <2>1, <3>1 DEF Busy, Fit
    <3> QED
        BY <3>2 DEF NoRun
  <2>3. Compared(runs[w].recent, runs[w].began)'
    BY <1>1 DEF Compared
  <2> QED
    BY <1>1, <2>1, <2>2, <2>3 DEF Fit
<1>3. Rows'
    BY <1>1, FS_EmptySet DEF Rows
<1> QED
    BY <1>1, <1>2, <1>3 DEF SourcesReal, RepeatsExplained, SourcesHeld

\* What a tab becomes is a tab, with a timer if it is running.
TabsTyped == tabs \in [Tabs -> Tab] /\ \A t \in Tabs : tabs[t].running = "yes" => tabs[t].timer = "yes"

\* An event reaches some tabs, which handle it.
LEMMA AnnounceTyped ==
    ASSUME TabsTyped, NEW handled \in [Tabs -> Tab], Announce(handled),
           \A t \in Tabs : handled[t].running = "yes" => handled[t].timer = "yes"
    PROVE  TabsTyped'
<1>1. PICK connected \in SUBSET Tabs :
          tabs' = [t \in Tabs |-> IF t \in connected THEN handled[t] ELSE tabs[t]]
    BY DEF Announce
<1> QED
    BY <1>1 DEF TabsTyped

\* What the store's functions make of a tab.
LEMMA TabChanges ==
    ASSUME TabsTyped, NEW t \in Tabs
    PROVE  /\ Done(t) \in Tab /\ Done(t).running = "no" /\ Done(t).settling = tabs[t].settling
           /\ Started(t) \in Tab /\ Started(t).running = "yes" /\ Started(t).timer = "yes"
           /\ Started(t).settling = tabs[t].settling
           /\ [tabs[t] EXCEPT !.settling = "yes"] \in Tab
           /\ [tabs[t] EXCEPT !.settling = "yes"].running = tabs[t].running
           /\ [tabs[t] EXCEPT !.settling = "yes"].timer = tabs[t].timer
<1>1. tabs[t] \in Tab
    BY DEF TabsTyped
<1> QED
    BY <1>1 DEF Done, Started, Tab, Flag

\* Either event keeps the tabs' type, and the timer of a waiting one.
LEMMA PublishTyped ==
    ASSUME TabsTyped, Publish \/ PublishFailed
    PROVE  TabsTyped'
<1>1. CASE Publish
    BY <1>1, AnnounceTyped, TabChanges DEF Publish, TabsTyped
<1>2. CASE PublishFailed
    BY <1>2, AnnounceTyped, TabChanges DEF PublishFailed
<1> QED
    BY <1>1, <1>2

\* And so does what a tab does by itself.
LEMMA TabStepTyped ==
    ASSUME EveAssumption, TabsTyped, NEW t \in Tabs, TabStep(t), waiting \in Nat, ops \in 0..MaxOps
    PROVE  TabsTyped' /\ waiting' \in Nat /\ ops' \in 0..MaxOps
<1>1. CASE Click(t)
  <2>1. ops' \in 0..MaxOps /\ waiting' \in Nat
    BY <1>1 DEF Click, Start, EveAssumption
  <2>2. tabs' = [tabs EXCEPT ![t] = Started(t)] \/ tabs' = [tabs EXCEPT ![t] = Done(t)]
    BY <1>1 DEF Click
  <2>3. PICK n \in Tab : (n.running = "yes" => n.timer = "yes") /\ tabs' = [tabs EXCEPT ![t] = n]
    BY <2>2, TabChanges
  <2> QED
    BY <2>1, <2>3 DEF TabsTyped
<1>2. CASE Settle(t)
  <2> DEFINE d == [Done(t) EXCEPT !.settling = "no"]
  <2>1. d \in Tab /\ d.running = "no"
    BY TabChanges DEF Tab, Flag
  <2>2. tabs' = [tabs EXCEPT ![t] = d]
    BY <1>2 DEF Settle
  <2> HIDE DEF d
  <2> QED
    BY <1>2, <2>1, <2>2 DEF Settle, TabsTyped
<1>3. CASE Timeout(t)
    BY <1>3, TabChanges DEF Timeout, TabsTyped
<1> QED
    BY <1>1, <1>2, <1>3 DEF TabStep

-----------------------------------------------------------------------------
\* The invariant.

\* The initial states satisfy the invariant.
LEMMA InitInv == GateAssumption /\ EveAssumption /\ Init => Inv
<1> SUFFICES ASSUME GateAssumption, EveAssumption, Init PROVE Inv
    OBVIOUS
<1>1. Quotable \subseteq Snippets /\ \A s \in Quotable : IsGrounded(s, Texts)
    BY DEF Quotable, EveAssumption
<1>2. /\ texts = Texts /\ day = 1 /\ waiting = 0 /\ dirty = "no" /\ ops = 0
      /\ runs = [w \in Workers |-> NoRun] /\ tabs = [t \in Tabs |-> NoTab]
    BY DEF Init
<1>3. lastId \in Nat /\ insights \subseteq Insight /\ Rows /\ SourcesReal /\ SourcesHeld
  <2>1. CASE insights = {} /\ lastId = 0
    BY <2>1, FS_EmptySet DEF Rows, SourcesReal, SourcesHeld
  <2>2. CASE /\ Enough(Quotable) /\ lastId = 1
             /\ \E topic \in Topics :
                 insights = {[id |-> 1, topic |-> topic, sources |-> Quotable, day |-> 1, began |-> 0]}
    <3>1. PICK topic \in Topics :
            insights = {[id |-> 1, topic |-> topic, sources |-> Quotable, day |-> 1, began |-> 0]}
        BY <2>2
    <3>2. IsFiniteSet(insights)
        BY <3>1, FS_Singleton
    <3>3. \A s \in Quotable : IsGrounded(s, texts \cup Docs)
        BY <1>1, <1>2, GroundedByMore
    <3>4. \A i \in insights : /\ i \in Insight /\ i.sources = Quotable
                               /\ i.id = 1 /\ i.began = 0 /\ i.day = 1
        BY <1>1, <3>1 DEF Insight
    <3>5. Cardinality(Quotable) >= MinGrounded
        BY <2>2 DEF Enough
    <3>6. Rows /\ lastId \in Nat
        BY <1>2, <2>2, <3>2, <3>4 DEF Rows
    <3> QED
        BY <1>1, <3>3, <3>4, <3>5, <3>6 DEF SourcesReal, SourcesHeld
  <2> QED
    BY <2>1, <2>2 DEF Init
<1>4. RepeatsExplained
    BY DEF Init, RepeatsExplained
<1>5. NoRun \in Run /\ Fit(NoRun) /\ NoRun.turn = 0
    BY <1>3, IdleFits DEF NoRun
<1>6. RunsFit
    BY <1>2, <1>5 DEF RunsFit
<1>7. NoTab \in Tab /\ NoTab.running = "no"
    BY DEF NoTab, Tab, Flag
<1>8. TypeOK
    BY <1>2, <1>3, <1>5, <1>7 DEF TypeOK, EveAssumption, Flag
<1> QED
    BY <1>3, <1>4, <1>6, <1>8 DEF Inv

\* The parts of the type invariant the runs do not share with Fit.
LEMMA TypedFromParts ==
    ASSUME EveAssumption, RunsFit, TabsTyped,
           texts \subseteq Texts, insights \subseteq Insight, lastId \in Nat, day \in 1..MaxDays,
           waiting \in Nat, runs \in [Workers -> Run], dirty \in Flag, ops \in 0..MaxOps
    PROVE  TypeOK
    BY DEF TypeOK, RunsFit, Fit, TabsTyped

\* It is inductive, one case for each action.
LEMMA NextInv == GateAssumption /\ EveAssumption /\ Inv /\ [Next]_vars => Inv'
<1> SUFFICES ASSUME GateAssumption, EveAssumption, Inv, [Next]_vars PROVE Inv'
    OBVIOUS
<1>1. /\ TypeOK /\ RunsFit /\ Rows /\ SourcesReal /\ RepeatsExplained /\ SourcesHeld
      /\ TabsTyped /\ texts \subseteq Texts /\ insights \subseteq Insight /\ lastId \in Nat
      /\ day \in 1..MaxDays /\ MaxDays \in Nat /\ waiting \in Nat /\ runs \in [Workers -> Run]
      /\ dirty \in Flag /\ ops \in 0..MaxOps /\ MaxOps \in Nat
    BY DEF Inv, TypeOK, TabsTyped, EveAssumption
<1>2. ASSUME NEW w \in Workers,
             \/ StartRun(w) \/ CheckCap(w) \/ CallFails(w) \/ Prose(w) \/ ReadTools(w)
             \/ Emit(w) \/ Compare(w) \/ PublishCreated(w) \/ Crash(w)
      PROVE  Inv'
  <2>1. runs' \in [Workers -> Run] /\ RunsFit'
    BY <1>1, <1>2, RunStepFits
  <2>2. UNCHANGED <<workspace, insights, lastId>>
    BY <1>2 DEF StartRun, CheckCap, CallFails, Prose, ReadTools, Emit, Compare, PublishCreated, Crash
  <2>3. Rows' /\ SourcesReal' /\ RepeatsExplained' /\ SourcesHeld'
    BY <1>1, <2>2 DEF Rows, SourcesReal, RepeatsExplained, SourcesHeld, workspace
  <2>4. TabsTyped'
    <3>1. UNCHANGED tabs \/ Publish \/ PublishFailed
        BY <1>2 DEF StartRun, CheckCap, CallFails, Prose, ReadTools, Emit, Compare,
                    PublishCreated, Crash, Fail
    <3> QED
        BY <1>1, <3>1, PublishTyped DEF TabsTyped
  <2>5. waiting' \in Nat /\ ops' \in 0..MaxOps
    <3>1. CASE StartRun(w)
        BY <1>1, <3>1 DEF StartRun
    <3>2. CASE Crash(w)
        BY <1>1, <3>2 DEF Crash, Start
    <3>3. CASE UNCHANGED <<waiting, ops>>
        BY <1>1, <3>3
    <3> QED
        BY <1>2, <3>1, <3>2, <3>3
           DEF CheckCap, CallFails, Prose, ReadTools, Emit, Compare, PublishCreated
  <2>6. TypeOK'
    BY <1>1, <2>1, <2>2, <2>4, <2>5, TypedFromParts DEF TypeOK, workspace, TabsTyped, RunsFit, Fit
  <2> QED
    BY <2>1, <2>3, <2>6 DEF Inv
<1>3. ASSUME NEW w \in Workers, Insert(w) PROVE Inv'
  <2>1. /\ insights' \subseteq Insight /\ runs' \in [Workers -> Run]
        /\ RunsFit' /\ Rows' /\ SourcesReal' /\ RepeatsExplained' /\ SourcesHeld'
    BY <1>3, InsertInv
  <2>2. lastId' = lastId + 1 /\ UNCHANGED <<workspace, waiting, tabs, ops>>
    BY <1>3 DEF Insert
  <2>3. TypeOK'
    BY <1>1, <2>1, <2>2 DEF TypeOK, workspace, RunsFit, Fit
  <2> QED
    BY <2>1, <2>3 DEF Inv
<1>4. ASSUME NEW t \in Tabs, TabStep(t) PROVE Inv'
  <2>1. UNCHANGED <<workspace, insights, lastId, runs>>
    BY <1>4 DEF TabStep, Click, Settle, Timeout
  <2>2. TabsTyped' /\ waiting' \in Nat /\ ops' \in 0..MaxOps
    BY <1>1, <1>4, TabStepTyped
  <2>3. RunsFit' /\ Rows' /\ SourcesReal' /\ RepeatsExplained' /\ SourcesHeld'
    BY <1>1, <2>1, TextsChange DEF workspace
  <2>4. TypeOK'
    BY <1>1, <2>1, <2>2 DEF TypeOK, workspace, TabsTyped
  <2> QED
    BY <2>3, <2>4 DEF Inv
<1>5. ASSUME NEW x \in Texts, NewText(x) PROVE Inv'
  <2>1. /\ texts' = texts \cup {x} /\ UNCHANGED <<insights, lastId, day, waiting, runs, tabs, dirty>>
        /\ ops' \in 0..MaxOps
    BY <1>1, <1>5 DEF NewText, Start
  <2>2. RunsFit' /\ Rows' /\ SourcesReal' /\ RepeatsExplained' /\ SourcesHeld'
    BY <1>1, <2>1, TextsChange
  <2>3. TypeOK'
    BY <1>1, <2>1 DEF TypeOK
  <2> QED
    BY <2>2, <2>3 DEF Inv
<1>6. CASE NewDay
  <2>1. day' = day + 1 /\ day' \in 1..MaxDays
        /\ UNCHANGED <<texts, insights, lastId, waiting, runs, tabs, dirty, ops>>
    BY <1>1, <1>6 DEF NewDay
  <2>2. RunsFit' /\ Rows' /\ SourcesReal' /\ RepeatsExplained' /\ SourcesHeld'
    BY <1>1, <2>1, TextsChange
  <2>3. TypeOK'
    BY <1>1, <2>1 DEF TypeOK
  <2> QED
    BY <2>2, <2>3 DEF Inv
<1>7. CASE PurgeSource
  <2>1. /\ texts' = texts \cap Docs /\ insights' = {} /\ dirty' \in Flag /\ ops' \in 0..MaxOps
        /\ UNCHANGED <<lastId, day, waiting, runs, tabs>>
    BY <1>1, <1>7 DEF PurgeSource, Purge, Start, Flag
  <2>2. TypeOK'
    BY <1>1, <2>1 DEF TypeOK
  <2> QED
    BY <1>7, <2>2, PurgeSourceInv DEF Inv
<1>8. CASE PurgeDocs
  <2>1. /\ texts' = texts \ Docs /\ UNCHANGED <<insights, lastId, day, waiting, runs, tabs, dirty>>
        /\ ops' \in 0..MaxOps
    BY <1>1, <1>8 DEF PurgeDocs, Start
  <2>2. RunsFit' /\ Rows' /\ SourcesReal' /\ RepeatsExplained' /\ SourcesHeld'
    BY <1>1, <2>1, TextsChange
  <2>3. TypeOK'
    BY <1>1, <2>1 DEF TypeOK
  <2> QED
    BY <2>2, <2>3 DEF Inv
<1>9. CASE UNCHANGED vars
  <2>1. UNCHANGED <<texts, day, dirty, insights, lastId, waiting, runs, tabs, ops>>
    BY <1>9 DEF vars, workspace
  <2>2. RunsFit' /\ Rows' /\ SourcesReal' /\ RepeatsExplained' /\ SourcesHeld'
    BY <1>1, <2>1, TextsChange
  <2>3. TypeOK'
    BY <1>1, <2>1 DEF TypeOK
  <2> QED
    BY <2>2, <2>3 DEF Inv
<1> QED
    BY <1>2, <1>3, <1>4, <1>5, <1>6, <1>7, <1>8, <1>9 DEF Next, RunStep

\* The invariant holds in every state.
THEOREM EveInvariant == Spec => []Inv
<1>1. GateAssumption /\ EveAssumption
    BY GateAssumption, EveAssumption
<1> QED
    BY <1>1, InitInv, NextInv, PTL DEF Spec

\* Every state is well typed: no run has more than _MAX_TURNS turns, and a tab
\* that shows Eve at work has its safety timer set.
THEOREM EveTypeCorrect == Spec => []TypeOK
BY EveInvariant, PTL DEF Inv

\* A stored insight quotes what the workspace held, and enough of it, whatever
\* the model writes: _ground_citations runs on every emitted insight.
THEOREM EveSourcesReal == Spec => []SourcesReal
BY EveInvariant, PTL DEF Inv

\* Of two insights of a topic, the later one's run was under way when the
\* earlier one was stored, or RecentLimit newer ones hid it.
THEOREM EveRepeatsExplained == Spec => []RepeatsExplained
BY EveInvariant, PTL DEF Inv

\* When no run was under way at the purge of Slack, no insight stored after it
\* quotes a message that is gone.
THEOREM EveSourcesHeld == Spec => []SourcesHeld
BY EveInvariant, PTL DEF Inv

-----------------------------------------------------------------------------
\* The daily cap.

\* Counting today's insights, and the runs past the cap.
LEMMA Counted ==
    ASSUME EveAssumption, Rows
    PROVE  /\ IsFiniteSet(Today) /\ Cardinality(Today) \in Nat
           /\ IsFiniteSet(Passed) /\ Cardinality(Passed) \in Nat
           /\ Cardinality(Workers) \in Nat /\ Cardinality(Workers) >= 1
           /\ Cardinality(Passed) <= Cardinality(Workers)
<1>1. IsFiniteSet(Today) /\ Cardinality(Today) \in Nat
    BY FS_Subset, FS_CardinalityType DEF Today, Rows
<1>2. IsFiniteSet(Workers) /\ Cardinality(Workers) \in Nat /\ Cardinality(Workers) # 0
    BY FS_CardinalityType, FS_EmptySet DEF EveAssumption
<1>3. IsFiniteSet(Passed) /\ Cardinality(Passed) \in Nat
      /\ Cardinality(Passed) <= Cardinality(Workers)
    BY <1>2, FS_Subset, FS_CardinalityType DEF Passed
<1> QED
    BY <1>1, <1>2, <1>3

\* A step in which no run passes the cap and none stores.
LEMMA FewerPassed ==
    ASSUME EveAssumption, Rows, Rows', Capacity, UNCHANGED <<insights, day>>, Passed' \subseteq Passed
    PROVE  Capacity'
<1>1. Today' = Today
    BY DEF Today
<1>2. Cardinality(Today') = Cardinality(Today)
    BY <1>1, Zenon
<1>3. Cardinality(Passed') <= Cardinality(Passed)
    BY Counted, FS_Subset
<1>4. Cardinality(Passed') \in Nat
    BY Counted, FS_Subset, FS_CardinalityType
<1> QED
    BY <1>2, <1>3, <1>4, Counted DEF Capacity, EveAssumption

\* The run of w becomes r, which is past the cap only if the old one was.
LEMMA SetShrinks ==
    ASSUME NEW w \in Workers, NEW r, Set(w, r), runs \in [Workers -> Run],
           r.step \in {"llm", "embed", "insert"} => w \in Passed
    PROVE  Passed' \subseteq Passed
<1>1. \A v \in Workers : runs'[v] = IF v = w THEN r ELSE runs[v]
    BY DEF Set
<1> QED
    BY <1>1 DEF Passed

\* A run that ends leaves the ones past the cap.
LEMMA EndShrinks ==
    ASSUME NEW w \in Workers, End(w), runs \in [Workers -> Run]
    PROVE  Passed' \subseteq Passed
BY SetShrinks DEF End, NoRun

\* At first no run is past the cap.
LEMMA InitCapacity == GateAssumption /\ EveAssumption /\ Init => Capacity
<1> SUFFICES ASSUME GateAssumption, EveAssumption, Init PROVE Capacity
    OBVIOUS
<1>1. Rows
    BY InitInv DEF Inv
<1>2. Passed = {}
    BY DEF Passed, Init, NoRun
<1>3. Cardinality(Passed) = 0
    BY <1>2, FS_EmptySet, Zenon
<1>4. Cardinality(Today) <= 1
  <2>1. PICK j : insights \subseteq {j}
    BY DEF Init
  <2>2. Today \subseteq {j} /\ IsFiniteSet({j}) /\ Cardinality({j}) = 1
    BY <2>1, FS_Singleton DEF Today
  <2> QED
    BY <2>2, FS_Subset
<1> QED
    BY <1>1, <1>3, <1>4, Counted DEF Capacity, EveAssumption

\* A run passes the cap below it, and an insight is stored by a run that passed.
LEMMA NextCapacity ==
    GateAssumption /\ EveAssumption /\ Inv /\ Inv' /\ Capacity /\ [Next]_vars => Capacity'
<1> SUFFICES ASSUME GateAssumption, EveAssumption, Inv, Inv', Capacity, [Next]_vars
             PROVE  Capacity'
    OBVIOUS
<1>1. Rows /\ Rows' /\ runs \in [Workers -> Run] /\ lastId \in Nat /\ day \in Nat
    BY DEF Inv, TypeOK
<1>2. ASSUME NEW w \in Workers, CheckCap(w) PROVE Capacity'
  <2>1. CASE Capped
    BY <1>1, <1>2, <2>1, EndShrinks, FewerPassed DEF CheckCap, Fail, workspace
  <2>2. CASE ~Capped
    <3>1. Cardinality(Today) < Cap
        BY <1>1, <2>2, Counted DEF Capped, EveAssumption
    <3>2. runs' = [runs EXCEPT ![w] = [runs[w] EXCEPT !.step = "llm"]]
        BY <1>2, <2>2 DEF CheckCap, Set
    <3>3. \A v \in Workers : runs'[v].step = IF v = w THEN "llm" ELSE runs[v].step
        BY <1>1, <3>2 DEF Run
    <3>4. Today' = Today
        BY <1>2 DEF CheckCap, Today, workspace
    <3>5. Cardinality(Today') = Cardinality(Today)
        BY <3>4, Zenon
    <3>6. Cardinality(Passed') <= Cardinality(Workers) /\ Cardinality(Passed') \in Nat
        <4>1. Passed' \subseteq Workers /\ IsFiniteSet(Workers)
            BY DEF Passed, EveAssumption
        <4> QED
            BY <4>1, FS_Subset, FS_CardinalityType
    <3> QED
        BY <1>1, <3>1, <3>5, <3>6, Counted DEF Capacity, EveAssumption
  <2> QED
    BY <2>1, <2>2
<1>3. ASSUME NEW w \in Workers,
             \/ StartRun(w) \/ CallFails(w) \/ Prose(w) \/ ReadTools(w) \/ Emit(w)
             \/ Compare(w) \/ PublishCreated(w) \/ Crash(w)
      PROVE  Capacity'
  <2>1. UNCHANGED <<insights, day>>
    BY <1>3 DEF StartRun, CallFails, Prose, ReadTools, Emit, Compare, PublishCreated, Crash,
                workspace
  <2>2. Passed' \subseteq Passed
    <3>1. CASE End(w)
        BY <1>1, <3>1, EndShrinks
    <3>2. CASE runs[w].step \in {"llm", "embed"} /\ \E r : Set(w, r)
        BY <1>1, <3>2, SetShrinks DEF Passed
    <3>3. CASE StartRun(w)
        <4>1. Set(w, [NoRun EXCEPT !.step = "cap", !.recent = Recent, !.began = lastId])
            BY <3>3 DEF StartRun
        <4>2. [NoRun EXCEPT !.step = "cap", !.recent = Recent, !.began = lastId].step = "cap"
            BY DEF NoRun
        <4> QED
            BY <1>1, <4>1, <4>2, SetShrinks
    <3> QED
        BY <1>3, <3>1, <3>2, <3>3
           DEF CallFails, Prose, ReadTools, Emit, Compare, PublishCreated, Crash, Fail
  <2> QED
    BY <1>1, <2>1, <2>2, FewerPassed
<1>4. ASSUME NEW w \in Workers, Insert(w) PROVE Capacity'
  <2>1. PICK j : insights' = insights \cup {j}
    BY <1>4 DEF Insert
  <2>2. Today' \subseteq Today \cup {j}
    BY <1>4, <2>1 DEF Insert, Today, workspace
  <2>3. Cardinality(Today') <= Cardinality(Today) + 1 /\ Cardinality(Today') \in Nat
    <3>1. IsFiniteSet(Today \cup {j}) /\ Cardinality(Today \cup {j}) <= Cardinality(Today) + 1
        BY <1>1, Counted, FS_AddElement
    <3>2. /\ IsFiniteSet(Today') /\ Cardinality(Today') <= Cardinality(Today \cup {j})
          /\ Cardinality(Today') \in Nat /\ Cardinality(Today \cup {j}) \in Nat
        BY <2>2, <3>1, FS_Subset, FS_CardinalityType
    <3> QED
        BY <1>1, <3>1, <3>2, Counted
  <2>4. runs' = [runs EXCEPT ![w] = [runs[w] EXCEPT !.step = "publish", !.id = lastId + 1]]
    BY <1>4 DEF Insert, Set
  <2>5. \A v \in Workers : runs'[v].step = IF v = w THEN "publish" ELSE runs[v].step
    BY <1>1, <2>4 DEF Run
  <2>6. Passed' = Passed \ {w} /\ w \in Passed
    BY <1>4, <2>5 DEF Passed, Insert
  <2>7. Cardinality(Passed') = Cardinality(Passed) - 1
    <3>1. Cardinality(Passed \ {w}) = Cardinality(Passed) - 1
        BY <1>1, <2>6, Counted, FS_RemoveElement
    <3> QED
        BY <2>6, <3>1, Zenon
  <2> QED
    BY <1>1, <2>3, <2>7, Counted DEF Capacity, EveAssumption
<1>5. ASSUME NewDay \/ PurgeSource PROVE Capacity'
  <2>1. Today' = {}
    <3>1. CASE NewDay
        <4>1. \A i \in insights : i.day \in Nat /\ i.day <= day
            BY <1>1 DEF Inv, TypeOK, Rows, Insight
        <4> QED
            BY <1>1, <3>1, <4>1 DEF NewDay, Today
    <3>2. CASE PurgeSource
        BY <3>2 DEF PurgeSource, Purge, Today
    <3> QED
        BY <1>5, <3>1, <3>2
  <2>2. Cardinality(Today') = 0
    BY <2>1, FS_EmptySet, Zenon
  <2>3. Passed' \subseteq Passed
    BY <1>5 DEF NewDay, PurgeSource, Passed
  <2>4. Cardinality(Passed') <= Cardinality(Passed) /\ Cardinality(Passed') \in Nat
    BY <1>1, <2>3, Counted, FS_Subset, FS_CardinalityType
  <2> QED
    BY <1>1, <2>2, <2>4, Counted DEF Capacity, EveAssumption
<1>6. ASSUME UNCHANGED <<insights, day, runs>> PROVE Capacity'
  <2>1. Passed' \subseteq Passed /\ UNCHANGED <<insights, day>>
    BY <1>6 DEF Passed
  <2> QED
    BY <1>1, <2>1, FewerPassed
<1>7. CASE UNCHANGED vars \/ PurgeDocs \/ (\E x \in Texts : NewText(x)) \/ \E t \in Tabs : TabStep(t)
    BY <1>6, <1>7 DEF vars, workspace, PurgeDocs, NewText, TabStep, Click, Settle, Timeout
<1> QED
    BY <1>2, <1>3, <1>4, <1>5, <1>7 DEF Next, RunStep

\* However many tasks pass the cap together, a day's insights exceed it by no
\* more than the workers less one: a worker is past the check with one at most.
THEOREM EveCapHeld == Spec => []CapHeld
<1>1. GateAssumption /\ EveAssumption
    BY GateAssumption, EveAssumption
<1>2. Init => Inv /\ Capacity
    BY <1>1, InitInv, InitCapacity
<1>3. Inv /\ Capacity /\ [Next]_vars => (Inv /\ Capacity)'
    BY <1>1, NextInv, NextCapacity
<1>4. Inv /\ Capacity => CapHeld
    BY <1>1, Counted DEF Capacity, CapHeld, Inv, EveAssumption
<1> QED
    BY <1>2, <1>3, <1>4, PTL DEF Spec

-----------------------------------------------------------------------------
\* A step that tells a tab of a created insight is that of a run which stored
\* one: _publish_created comes after the commit.
LEMMA StepAnnouncesStored ==
    ASSUME EveAssumption, Inv, [Next]_vars, NEW t \in Tabs,
           tabs[t].settling = "no", tabs'[t].settling = "yes"
    PROVE  \E w \in Workers : runs[w].id \in 1..lastId
<1>1. TabsTyped
    BY DEF Inv, TypeOK, TabsTyped
<1>2. CASE UNCHANGED tabs
    BY <1>2
<1>3. CASE PublishFailed
  <2>1. tabs'[t] = Done(t) \/ tabs'[t] = tabs[t]
    BY <1>3 DEF PublishFailed, Announce
  <2> QED
    BY <1>1, <2>1, TabChanges
<1>4. ASSUME NEW u \in Tabs, TabStep(u) PROVE FALSE
  <2>1. CASE u # t
    BY <1>1, <1>4, <2>1 DEF TabStep, Click, Settle, Timeout, TabsTyped
  <2>2. CASE u = t
    <3>1. [Done(t) EXCEPT !.settling = "no"].settling = "no"
        BY <1>1, TabChanges DEF Tab
    <3>2. tabs'[t] \in {Started(t), Done(t), [Done(t) EXCEPT !.settling = "no"]}
        BY <1>1, <1>4, <2>2 DEF TabStep, Click, Settle, Timeout, TabsTyped
    <3> QED
        BY <1>1, <3>1, <3>2, TabChanges
  <2> QED
    BY <2>1, <2>2
<1>5. ASSUME NEW w \in Workers, PublishCreated(w) PROVE runs[w].id \in 1..lastId
    BY <1>5 DEF PublishCreated, Inv, RunsFit, Fit
<1> QED
    BY <1>2, <1>3, <1>4, <1>5
       DEF Next, RunStep, StartRun, CheckCap, CallFails, Prose, ReadTools, Emit, Compare, Insert,
           Crash, Fail, NewText, NewDay, PurgeSource, PurgeDocs, vars

\* A tab that starts a refresh for a created insight finds it in the table.
THEOREM EveAnnouncedStored == Spec => AnnouncedStored
<1>1. EveAssumption
    BY EveAssumption
<1>2. Inv /\ [Next]_vars =>
        [\A t \in Tabs : tabs[t].settling = "no" /\ tabs'[t].settling = "yes" =>
            \E w \in Workers : runs[w].id \in 1..lastId]_vars
    BY <1>1, StepAnnouncesStored
<1> QED
    BY <1>2, EveInvariant, PTL DEF Spec, AnnouncedStored
=============================================================================
