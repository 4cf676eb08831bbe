-------------------------- MODULE DocumentsProofs --------------------------
(***************************************************************************)
(* Proofs about Documents, for any folder, any number of syncs and any     *)
(* bound: its types, what a sync that reports no failure leaves behind,    *)
(* what a disconnect leaves, that nothing stored is replaced, and that the *)
(* index holds each document whole.                                        *)
(***************************************************************************)
EXTENDS Documents, ChunkingProofs

-----------------------------------------------------------------------------
\* What holds of a sync between any two steps, c being the connector's row,
\* docs the stored documents and o the operations started.

\* Some version of the file holds nothing that is ever indexed.
Barren(f) == \E blocks \in Contents[f] : ~Indexable(blocks)

\* What it went through is stored or has nothing to store, while the connector
\* it loaded stays.
Kept(j, c, docs) ==
    j.connector = c /\ c # 0 =>
        /\ \A f \in j.listed \ (j.todo \cup j.failed \cup j.passed \cup {j.file}) : docs[f] # None
        /\ \A f \in j.passed : Barren(f)

Fit(j, c, docs, o) ==
    /\ j \in Import
    /\ j.file # None <=> j.step \in {"download", "store"}
    /\ j.step = "store" => j.blocks \in AnyBlocks /\ Chunked[j.blocks] # <<>>
    /\ j.step = "done" => j.todo = {}
    /\ j.step # "idle" => j.connector # 0
    /\ j.connector <= o + 1
    /\ Kept(j, c, docs)

SyncsFit == \A w \in Importers : Fit(imports[w], connector, documents, ops)

\* Row ids come from the count of operations, so a new one is never a sync's.
Rows ==
    /\ connector \in Nat /\ waiting \in Nat /\ ops \in 0..MaxOps
    /\ connector <= ops + 1 /\ waiting <= ops

Tables ==
    /\ files \in [Files -> AnyBlocks \cup {None}]
    /\ \A f \in Files : files[f] # None => files[f] \in Contents[f]
    /\ documents \in [Files -> Document \cup {None}]
    /\ imports \in [Importers -> Import]
    /\ org \in {"there", "gone"} /\ removing \in {"no", "connector", "org"}
    /\ deleted \in SUBSET Files

\* A document is stored with the chunks of its blocks, and only with some.
Indexed == \A f \in Files : documents[f] # None =>
               documents[f].chunks = Chunked[documents[f].blocks] /\ documents[f].chunks # <<>>

\* What a disconnect has not seen was stored after it looked, and an
\* organization that is gone keeps nothing.
Left ==
    /\ removing = "connector" =>
          /\ connector # 0
          /\ \A f \in Files : documents[f] # None => f \in deleted \/ documents[f].late = "yes"
    /\ connector = 0 => \A f \in Files : documents[f] # None => documents[f].late = "yes"
    /\ org = "gone" => connector = 0 /\ \A f \in Files : documents[f] = None

Inv == Rows /\ Tables /\ SyncsFit /\ Indexed /\ Left

-----------------------------------------------------------------------------
\* What a step of another sync, or of nobody's, does to a sync.

\* Documents are only added, or the connector is one the sync did not load.
LEMMA StaysFit ==
    ASSUME NEW j, NEW c \in Nat, NEW c2 \in Nat, NEW docs, NEW docs2, NEW o \in Nat, NEW o2 \in Nat,
           Fit(j, c, docs, o), o <= o2,
           \/ c2 = c /\ \A f \in Files : docs[f] # None => docs2[f] # None
           \/ c2 = 0 \/ c2 > o + 1
    PROVE  Fit(j, c2, docs2, o2)
<1>1. j \in Import /\ j.connector \in Nat /\ j.listed \subseteq Files
    BY DEF Fit, Import
<1>2. Kept(j, c2, docs2)
    BY <1>1 DEF Fit, Kept
<1>3. j.connector <= o2 + 1
    BY <1>1 DEF Fit
<1> QED
    BY <1>2, <1>3 DEF Fit

\* A step of sync w, which becomes j.
LEMMA SyncMoves ==
    ASSUME Inv, NEW w \in Importers, NEW j, Set(w, j),
           ops' \in Nat, ops <= ops', UNCHANGED connector,
           \A f \in Files : documents[f] # None => documents'[f] # None,
           Fit(j, connector, documents', ops')
    PROVE  imports' \in [Importers -> Import] /\ SyncsFit'
<1>1. imports \in [Importers -> Import] /\ connector \in Nat /\ ops \in Nat
    BY DEF Inv, Tables, Rows
<1>2. imports' \in [Importers -> Import]
    BY <1>1 DEF Set, Fit
<1>3. ASSUME NEW v \in Importers PROVE Fit(imports'[v], connector', documents', ops')
  <2>1. CASE v = w
    BY <1>1, <2>1 DEF Set
  <2>2. CASE v # w
    <3>1. imports'[v] = imports[v] /\ Fit(imports[v], connector, documents, ops)
        BY <1>1, <2>2 DEF Set, Inv, SyncsFit
    <3> QED
        BY <1>1, <3>1, StaysFit
  <2> QED
    BY <2>1, <2>2
<1> QED
    BY <1>2, <1>3 DEF SyncsFit

\* A slot that runs no sync.
LEMMA IdleFits ==
    ASSUME DocumentsAssumption, NEW c \in Nat, NEW docs, NEW o \in Nat
    PROVE  Fit(NoImport, c, docs, o)
<1>1. NoImport \in Import
    BY DEF NoImport, Import
<1>2. /\ NoImport.step = "idle" /\ NoImport.file = None /\ NoImport.connector = 0
    BY DEF NoImport
<1> QED
    BY <1>1, <1>2 DEF Fit, Kept

\* A sync that has loaded its connector, and nothing else yet.
LEMMA LoadedFits ==
    ASSUME DocumentsAssumption, NEW step \in {"refresh", "list"}, NEW c \in Nat,
           NEW docs, NEW o \in Nat, c # 0, c <= o + 1
    PROVE  Fit([NoImport EXCEPT !.step = step, !.connector = c], c, docs, o)
<1> DEFINE j == [NoImport EXCEPT !.step = step, !.connector = c]
<1>1. /\ j \in Import /\ j.step = step /\ j.file = None /\ j.connector = c
      /\ j.listed = {} /\ j.passed = {}
    BY DEF NoImport, Import
<1> HIDE DEF j
<1>2. Fit(j, c, docs, o)
    BY <1>1 DEF Fit, Kept
<1> QED
    BY <1>2 DEF j

\* The file in hand is dealt with: it is stored, failed or has nothing to store.
LEMMA Dealt ==
    ASSUME DocumentsAssumption, NEW j, NEW c, NEW docs, NEW o, Fit(j, c, docs, o),
           j.step \in {"download", "store"}, NEW k \in Import, k.step = "files", k.file = None,
           k.connector = j.connector, k.listed = j.listed, k.todo = j.todo,
           j.failed \subseteq k.failed, j.passed \subseteq k.passed,
           c # 0 => \A f \in k.passed \ j.passed : Barren(f),
           NEW docs2, \A f \in Files : docs[f] # None => docs2[f] # None,
           j.file \in k.failed \cup k.passed \/ docs2[j.file] # None
    PROVE  Fit(k, c, docs2, o)
<1>1. j.listed \subseteq Files
    BY DEF Fit, Import
<1>2. Kept(k, c, docs2)
    BY <1>1 DEF Fit, Kept
<1> QED
    BY <1>2 DEF Fit

-----------------------------------------------------------------------------
\* The steps of a sync.

\* What each does to the other parts of the invariant.
LEMMA SyncFrame ==
    ASSUME Inv, NEW w \in Importers, SyncStep(w)
    PROVE  /\ UNCHANGED <<connector, org, removing, deleted, files, waiting, ops>>
           /\ imports[w] \in Import /\ Fit(imports[w], connector, documents, ops)
           /\ Running(w) /\ Rows'
<1>1. UNCHANGED <<connector, org, removing, deleted, files, waiting, ops>> /\ Running(w)
    BY DEF SyncStep, Refresh, ListFolder, CheckFile, Download, Store, Finish, Running, removal
<1>2. imports[w] \in Import /\ Fit(imports[w], connector, documents, ops)
    BY DEF Inv, Tables, SyncsFit
<1> QED
    BY <1>1, <1>2 DEF Inv, Rows

\* The one sync's new state.
LEMMA SyncStepFits ==
    ASSUME DocumentsAssumption, NoneAssumption, Inv, NEW w \in Importers, SyncStep(w)
    PROVE  /\ \A f \in Files : documents[f] # None => documents'[f] # None
           /\ documents' \in [Files -> Document \cup {None}] /\ Indexed' /\ Left'
           /\ \E j : Set(w, j) /\ Fit(j, connector, documents', ops)
<1> DEFINE i == imports[w]
<1>0. UNCHANGED documents => Indexed' /\ Left'
    BY SyncFrame DEF Inv, Indexed, Left
<1>1. /\ i \in Import /\ Fit(i, connector, documents, ops) /\ ops \in Nat /\ connector \in Nat
      /\ documents \in [Files -> Document \cup {None}] /\ files \in [Files -> AnyBlocks \cup {None}]
      /\ \A f \in Files : files[f] # None => files[f] \in Contents[f]
    BY SyncFrame DEF Inv, Tables, Rows
<1>2. Fit(NoImport, connector, documents, ops)
    BY <1>1, IdleFits
<1>3. CASE Refresh(w)
  <2> DEFINE a == [i EXCEPT !.step = "list"]
             j == [a EXCEPT !.locked = "yes"]
  <2>1. a \in Import /\ a.step = "list" /\ a.file = i.file /\ a.connector = i.connector
        /\ a.listed = i.listed /\ a.todo = i.todo /\ a.failed = i.failed
        /\ a.passed = i.passed
    BY <1>1 DEF Import
  <2>2. [i EXCEPT !.step = "list", !.locked = "yes"] = j
    OBVIOUS
  <2> HIDE DEF a
  <2>3. j \in Import /\ j.step = "list" /\ j.file = i.file /\ j.connector = i.connector
        /\ j.listed = i.listed /\ j.todo = i.todo /\ j.failed = i.failed
        /\ j.passed = i.passed
    BY <2>1 DEF Import
  <2> HIDE DEF j
  <2>4. Fit(j, connector, documents, ops)
    BY <1>1, <1>3, <2>3 DEF Fit, Kept, Refresh
  <2>5. Set(w, j) \/ Set(w, NoImport)
    BY <1>3, <2>2 DEF Refresh
  <2>6. documents' = documents
    BY <1>3 DEF Refresh
  <2> QED
    BY <1>0, <1>1, <1>2, <2>4, <2>5, <2>6
<1>4. CASE ListFolder(w)
  <2> DEFINE listed == {f \in Files : files[f] # None}
             a == [i EXCEPT !.step = "files"]
             b == [a EXCEPT !.listed = listed]
             j == [b EXCEPT !.todo = listed]
  <2>1. a \in Import /\ a.step = "files" /\ a.file = i.file /\ a.connector = i.connector
        /\ a.passed = i.passed
    BY <1>1 DEF Import
  <2>2. [i EXCEPT !.step = "files", !.listed = listed, !.todo = listed] = j
    OBVIOUS
  <2> HIDE DEF a
  <2>3. b \in Import /\ b.step = "files" /\ b.file = i.file /\ b.connector = i.connector
        /\ b.listed = listed
        /\ b.passed = i.passed
    BY <2>1 DEF Import
  <2> HIDE DEF b
  <2>4. j \in Import /\ j.step = "files" /\ j.file = i.file /\ j.connector = i.connector
        /\ j.listed = listed /\ j.todo = listed
        /\ j.passed = i.passed
    BY <2>3 DEF Import
  <2>5. Set(w, j) \/ Set(w, NoImport)
    BY <1>4, <2>2 DEF ListFolder
  <2> HIDE DEF j
  <2>6. Fit(j, connector, documents, ops)
    BY <1>1, <1>4, <2>4 DEF Fit, Kept, ListFolder
  <2>7. documents' = documents
    BY <1>4 DEF ListFolder
  <2> QED
    BY <1>0, <1>1, <1>2, <2>5, <2>6, <2>7
<1>5. ASSUME NEW f \in Files, CheckFile(w, f) PROVE \E j : Set(w, j)
      /\ Fit(j, connector, documents', ops)
  <2> DEFINE a == [i EXCEPT !.todo = @ \ {f}]
             b == [a EXCEPT !.step = "download"]
             j == [b EXCEPT !.file = f]
  <2>1. a \in Import /\ a.step = i.step /\ a.file = i.file /\ a.connector = i.connector
        /\ a.listed = i.listed /\ a.todo = i.todo \ {f}
        /\ a.failed = i.failed /\ a.passed = i.passed
    BY <1>1 DEF Import
  <2>2. /\ documents[f] # None => Set(w, a)
        /\ documents[f] = None => Set(w, j)
        /\ i.step = "files" /\ f \in i.todo /\ documents' = documents
    BY <1>5 DEF CheckFile
  <2> HIDE DEF a
  <2>3. b \in Import /\ b.step = "download" /\ b.file = i.file /\ b.connector = i.connector
        /\ b.listed = i.listed /\ b.todo = i.todo \ {f}
        /\ b.failed = i.failed /\ b.passed = i.passed
    BY <2>1 DEF Import
  <2> HIDE DEF b
  <2>4. j \in Import /\ j.step = "download" /\ j.file = f /\ j.connector = i.connector
        /\ j.listed = i.listed /\ j.todo = i.todo \ {f}
        /\ j.failed = i.failed /\ j.passed = i.passed
    BY <2>3 DEF Import
  <2> HIDE DEF j
  <2>5. i.file = None /\ f # None
    BY <1>1, <2>2 DEF Fit, DocumentsAssumption
  <2>6. documents[f] # None => Fit(a, connector, documents, ops)
    BY <1>1, <2>1, <2>2, <2>5 DEF Fit, Kept
  <2>7. Fit(j, connector, documents, ops)
    <3>1. \A g \in j.listed \ (j.todo \cup j.failed \cup j.passed \cup {j.file}) :
            g \in i.listed \ (i.todo \cup i.failed \cup i.passed \cup {i.file})
        BY <1>1, <2>4, <2>5 DEF Import, DocumentsAssumption
    <3>2. Kept(j, connector, documents)
        BY <1>1, <2>4, <3>1 DEF Fit, Kept
    <3> QED
        BY <1>1, <2>2, <2>4, <2>5, <3>2 DEF Fit
  <2> QED
    BY <2>2, <2>6, <2>7
<1>6. ASSUME i.step \in {"download", "store"}
      PROVE  /\ Fail(w) \in Import /\ Fail(w).step = "files" /\ Fail(w).file = None
             /\ Fail(w).connector = i.connector
             /\ Fail(w).listed = i.listed /\ Fail(w).todo = i.todo
             /\ Fail(w).failed = i.failed \cup {i.file} /\ Fail(w).passed = i.passed
             /\ Skip(w) \in Import /\ Skip(w).step = "files" /\ Skip(w).file = None
             /\ Skip(w).connector = i.connector
             /\ Skip(w).listed = i.listed /\ Skip(w).todo = i.todo
             /\ Skip(w).failed = i.failed /\ Skip(w).passed = i.passed \cup {i.file}
             /\ Proceed(w) \in Import /\ Proceed(w).step = "files" /\ Proceed(w).file = None
             /\ Proceed(w).connector = i.connector
             /\ Proceed(w).listed = i.listed /\ Proceed(w).todo = i.todo
             /\ Proceed(w).failed = i.failed /\ Proceed(w).passed = i.passed
  <2> DEFINE a == [i EXCEPT !.step = "files"]
             b == [a EXCEPT !.file = None]
             d == [b EXCEPT !.blocks = None]
             j == [d EXCEPT !.failed = i.failed \cup {i.file}]
             k == [d EXCEPT !.passed = i.passed \cup {i.file}]
  <2>0. Fail(w) = j /\ Skip(w) = k /\ Proceed(w) = d /\ i.file \in Files
    BY <1>1, <1>6 DEF Fail, Skip, Proceed, Fit, Import
  <2>1. a \in Import /\ a.step = "files" /\ a.connector = i.connector
        /\ a.listed = i.listed /\ a.todo = i.todo
        /\ a.failed = i.failed /\ a.passed = i.passed
    BY <1>1 DEF Import
  <2> HIDE DEF a
  <2>2. b \in Import /\ b.step = "files" /\ b.file = None /\ b.connector = i.connector
        /\ b.listed = i.listed /\ b.todo = i.todo
        /\ b.failed = i.failed /\ b.passed = i.passed
    BY <2>1 DEF Import
  <2> HIDE DEF b
  <2>3. d \in Import /\ d.step = "files" /\ d.file = None /\ d.connector = i.connector
        /\ d.listed = i.listed /\ d.todo = i.todo
        /\ d.failed = i.failed /\ d.passed = i.passed
    BY <2>2 DEF Import
  <2> HIDE DEF d
  <2>4. i.failed \cup {i.file} \in SUBSET Files /\ i.passed \cup {i.file} \in SUBSET Files
    BY <1>1, <2>0 DEF Import
  <2>5. j \in Import /\ j.step = "files" /\ j.file = None /\ j.connector = i.connector
        /\ j.listed = i.listed /\ j.todo = i.todo
        /\ j.failed = i.failed \cup {i.file} /\ j.passed = i.passed
    BY <2>3, <2>4 DEF Import
  <2>6. k \in Import /\ k.step = "files" /\ k.file = None /\ k.connector = i.connector
        /\ k.listed = i.listed /\ k.todo = i.todo
        /\ k.failed = i.failed /\ k.passed = i.passed \cup {i.file}
    BY <2>3, <2>4 DEF Import
  <2> HIDE DEF j, k
  <2> QED
    BY <2>0, <2>3, <2>5, <2>6
<1>7. ASSUME i.step \in {"download", "store"} PROVE Fit(Fail(w), connector, documents, ops)
    BY <1>1, <1>6, <1>7, Dealt
<1>13. ASSUME i.step \in {"download", "store"}, connector # 0 => Barren(i.file)
       PROVE  Fit(Skip(w), connector, documents, ops)
    BY <1>1, <1>6, <1>13, Dealt
<1>8. CASE Download(w)
  <2>0. i.step = "download" /\ documents' = documents
    BY <1>8 DEF Download
  <2> DEFINE blocks == files[i.file]
             a == [i EXCEPT !.step = "store"]
             j == [a EXCEPT !.blocks = blocks]
  <2>1. i.file \in Files /\ blocks \in AnyBlocks \cup {None} /\ i.file # None
        /\ (blocks # None => blocks \in Contents[i.file])
    BY <1>1, <2>0 DEF Fit, Import
  <2>2. CASE /\ blocks # None /\ Indexable(blocks)
             /\ Set(w, [i EXCEPT !.step = "store", !.blocks = blocks])
    <3>1. a \in Import /\ a.step = "store" /\ a.file = i.file /\ a.connector = i.connector
          /\ a.listed = i.listed /\ a.todo = i.todo
          /\ a.failed = i.failed /\ a.passed = i.passed
        BY <1>1 DEF Import
    <3>2. [i EXCEPT !.step = "store", !.blocks = blocks] = j
        OBVIOUS
    <3> HIDE DEF a
    <3>3. j \in Import /\ j.step = "store" /\ j.file = i.file /\ j.connector = i.connector
          /\ j.listed = i.listed /\ j.todo = i.todo
          /\ j.failed = i.failed /\ j.passed = i.passed /\ j.blocks = blocks
        BY <2>1, <3>1 DEF Import
    <3> HIDE DEF j
    <3>4. Chunked[blocks] # <<>>
        BY <2>2 DEF Indexable
    <3>5. Fit(j, connector, documents, ops)
        BY <1>1, <2>0, <2>1, <2>2, <3>3, <3>4 DEF Fit, Kept
    <3> QED
        BY <1>0, <1>1, <2>0, <2>2, <3>2, <3>5
  <2>3. CASE blocks # None /\ ~Indexable(blocks) /\ Set(w, Skip(w))
    <3>1. Barren(i.file)
        BY <2>1, <2>3 DEF Barren
    <3> QED
        BY <1>0, <1>1, <1>13, <2>0, <2>3, <3>1
  <2>4. CASE Set(w, Fail(w))
    BY <1>0, <1>1, <1>7, <2>0, <2>4
  <2> QED
    BY <1>8, <2>2, <2>3, <2>4 DEF Download
<1>9. CASE Store(w)
  <2>0. i.step = "store" /\ UNCHANGED <<connector, org, removing, deleted>>
    BY <1>9, SyncFrame DEF Store
  <2>1. CASE org = "there" /\ Ingest(w) /\ Set(w, Proceed(w))
    <3> DEFINE d == Extracted(w)
    <3>1. i.file \in Files /\ i.blocks \in AnyBlocks /\ Chunked[i.blocks] # <<>> /\ i.connector # 0
        BY <1>1, <2>0 DEF Fit, Import
    <3>0. /\ d.blocks = i.blocks /\ d.chunks = Chunked[i.blocks] /\ d.late \in {"no", "yes"}
          /\ d = [blocks |-> d.blocks, chunks |-> d.chunks, late |-> d.late]
          /\ d.late = "yes" \/ (removing = "no" /\ i.connector = connector)
        BY DEF Extracted
    <3> HIDE DEF d
    <3>2. d \in Document /\ d.chunks = Chunked[d.blocks] /\ d.chunks # <<>>
          /\ (d.late = "yes" \/ (removing = "no" /\ connector # 0))
        BY <3>0, <3>1 DEF Document
    <3>3. d # None
        BY <3>2 DEF NoneAssumption
    <3>4. documents' = [documents EXCEPT ![i.file] = IF documents[i.file] = None THEN d
                                                     ELSE documents[i.file]]
        BY <2>1 DEF Ingest, d
    <3>5. /\ documents' \in [Files -> Document \cup {None}] /\ documents'[i.file] # None
          /\ \A f \in Files : documents[f] # None => documents'[f] # None
          /\ \A f \in Files : documents'[f] \in {documents[f], d}
        BY <1>1, <3>1, <3>2, <3>3, <3>4
    <3>6. Indexed'
        BY <1>1, <3>1, <3>2, <3>4 DEF Inv, Indexed
    <3>7. Left'
        BY <1>1, <2>0, <2>1, <3>2, <3>5 DEF Inv, Left
    <3>8. Fit(Proceed(w), connector, documents', ops)
        BY <1>1, <1>6, <2>0, <3>5, Dealt
    <3> QED
        BY <2>1, <3>5, <3>6, <3>7, <3>8
  <2>2. CASE org = "gone" /\ Set(w, Skip(w)) /\ UNCHANGED documents
    <3>1. connector = 0
        BY <2>2 DEF Inv, Left
    <3> QED
        BY <1>0, <1>1, <1>13, <2>0, <2>2, <3>1
  <2>3. CASE Set(w, Fail(w)) /\ UNCHANGED documents
    BY <1>0, <1>1, <1>7, <2>0, <2>3
  <2> QED
    BY <1>9, <2>1, <2>2, <2>3 DEF Store
<1>10. CASE Finish(w)
  <2> DEFINE a == [i EXCEPT !.step = "done"]
             j == [a EXCEPT !.locked = "no"]
  <2>1. a \in Import /\ a.step = "done" /\ a.file = i.file /\ a.connector = i.connector
        /\ a.listed = i.listed /\ a.todo = i.todo /\ a.failed = i.failed /\ a.passed = i.passed
    BY <1>1 DEF Import
  <2>2. Done(w) = j
    BY DEF Done
  <2> HIDE DEF a
  <2>3. j \in Import /\ j.step = "done" /\ j.file = i.file /\ j.connector = i.connector
        /\ j.listed = i.listed /\ j.todo = i.todo /\ j.failed = i.failed /\ j.passed = i.passed
    BY <2>1 DEF Import
  <2> HIDE DEF j
  <2>4. Fit(j, connector, documents, ops)
    BY <1>1, <1>10, <2>3 DEF Fit, Kept, Finish
  <2> QED
    BY <1>0, <1>1, <1>10, <2>2, <2>4 DEF Finish
<1>11. ASSUME NEW f \in Files, CheckFile(w, f) PROVE documents' = documents
    BY <1>11 DEF CheckFile
<1>12. ~Store(w) => UNCHANGED documents
    BY <1>11 DEF SyncStep, Refresh, ListFolder, Download, Finish
<1> QED
    BY <1>1, <1>3, <1>4, <1>5, <1>8, <1>9, <1>10, <1>11, <1>0, <1>12 DEF SyncStep

\* A step of a sync keeps the invariant.
LEMMA SyncInv ==
    ASSUME DocumentsAssumption, NoneAssumption, Inv, NEW w \in Importers, SyncStep(w)
    PROVE  Inv'
<1>1. UNCHANGED <<connector, org, removing, deleted, files, waiting, ops>> /\ Rows'
    BY SyncFrame
<1>2. /\ \A f \in Files : documents[f] # None => documents'[f] # None
      /\ documents' \in [Files -> Document \cup {None}] /\ Indexed' /\ Left'
    BY SyncStepFits
<1>3. PICK j : Set(w, j) /\ Fit(j, connector, documents', ops)
    BY SyncStepFits
<1>4. imports' \in [Importers -> Import] /\ SyncsFit'
    BY <1>1, <1>2, <1>3, SyncMoves DEF Inv, Rows
<1>5. Tables'
    BY <1>1, <1>2, <1>4 DEF Inv, Tables
<1> QED
    BY <1>1, <1>2, <1>4, <1>5 DEF Inv

\* And so does one that starts.
LEMMA StartInv ==
    ASSUME DocumentsAssumption, Inv, NEW w \in Importers, StartTask(w) \/ StartRequest(w)
    PROVE  Inv'
<1>1. /\ connector \in Nat /\ ops \in Nat /\ waiting \in Nat /\ MaxOps \in Nat
      /\ connector <= ops + 1 /\ waiting <= ops /\ ops \in 0..MaxOps
    BY DEF Inv, Rows, DocumentsAssumption
<1>2. /\ UNCHANGED <<connector, org, removing, deleted, files, documents>>
      /\ ops' \in {ops, ops + 1} /\ ops' \in 0..MaxOps /\ ops <= ops'
      /\ waiting' \in Nat /\ waiting' <= ops'
    BY <1>1 DEF StartTask, StartRequest, Start, removal
<1>0. ops' \in Nat /\ connector <= ops' + 1
  <2>1. CASE ops' = ops
    BY <1>1, <2>1
  <2>2. CASE ops' = ops + 1
    BY <1>1, <2>2
  <2> QED
    BY <1>2, <2>1, <2>2
<1>3. PICK j : Set(w, j) /\ Fit(j, connector, documents, ops')
  <2>1. CASE connector = 0 /\ Set(w, NoImport)
    BY <1>0, <1>1, <2>1, IdleFits
  <2>2. CASE connector # 0 /\ Load(w)
    <3>1. PICK step \in {"refresh", "list"} :
            Set(w, [NoImport EXCEPT !.step = step, !.connector = connector])
        BY <2>2 DEF Load
    <3>2. Fit([NoImport EXCEPT !.step = step, !.connector = connector],
              connector, documents, ops')
        BY <1>0, <1>1, <2>2, LoadedFits
    <3> QED
        BY <2>2, <3>1, <3>2
  <2> QED
    BY <2>1, <2>2 DEF StartTask, StartRequest
<1>4. imports' \in [Importers -> Import] /\ SyncsFit'
    BY <1>0, <1>1, <1>2, <1>3, SyncMoves
<1>5. Left' /\ Tables' /\ Indexed'
    BY <1>2, <1>4 DEF Inv, Left, Tables, Indexed
<1>6. Rows'
    BY <1>0, <1>1, <1>2 DEF Rows
<1> QED
    BY <1>4, <1>5, <1>6 DEF Inv

\* The steps of the administrator and of the folder.
LEMMA OutsideInv ==
    ASSUME DocumentsAssumption, Inv,
           \/ Install \/ DeleteDocuments \/ DeleteOrg \/ Resync
           \/ \E f \in Files : DeleteFile(f) \/ \E blocks \in Contents[f] : ChangeFile(f, blocks)
    PROVE  Inv'
<1>1. /\ connector \in Nat /\ ops \in Nat /\ waiting \in Nat /\ MaxOps \in Nat
      /\ connector <= ops + 1 /\ waiting <= ops /\ ops \in 0..MaxOps
      /\ ops < MaxOps /\ ops' = ops + 1 /\ imports' = imports /\ documents' = documents
      /\ imports \in [Importers -> Import]
    BY DEF Inv, Rows, DocumentsAssumption, Install, DeleteDocuments, DeleteOrg, Resync, DeleteFile,
           ChangeFile, Start, Tables
<1>2. CASE Install
  <2>1. /\ connector = 0 /\ org = "there" /\ removing = "no" /\ connector' = ops + 2
        /\ connector' # 0 /\ connector' \in Nat /\ connector' <= ops' + 1
        /\ UNCHANGED <<org, removing, deleted, files, waiting>>
    BY <1>1, <1>2 DEF Install, removal
  <2>2. SyncsFit'
    BY <1>1, <2>1, StaysFit DEF Inv, SyncsFit
  <2> QED
    BY <1>1, <2>1, <2>2 DEF Inv, Rows, Tables, Left, Indexed
<1>3. CASE DeleteDocuments \/ DeleteOrg
  <2>1. /\ UNCHANGED <<connector, org, files, waiting>> /\ removing' \in {"connector", "org"}
        /\ deleted' \in SUBSET Files
        /\ removing' = "connector" =>
              connector # 0 /\ deleted' = {f \in Files : documents[f] # None}
    <3>1. deleted \in SUBSET Files
        BY DEF Inv, Tables
    <3>2. CASE DeleteDocuments
        BY <3>2 DEF DeleteDocuments
    <3>3. CASE DeleteOrg
        BY <3>1, <3>3 DEF DeleteOrg
    <3> QED
        BY <1>3, <3>2, <3>3
  <2>2. SyncsFit'
    BY <1>1, <2>1, StaysFit DEF Inv, SyncsFit
  <2> QED
    BY <1>1, <2>1, <2>2 DEF Inv, Rows, Tables, Left, Indexed
<1>4. CASE \/ Resync
           \/ \E f \in Files : DeleteFile(f) \/ \E blocks \in Contents[f] : ChangeFile(f, blocks)
  <2>1. /\ UNCHANGED <<connector, org, removing, deleted>>
        /\ waiting' \in {waiting, waiting + 1}
    BY <1>4 DEF Resync, DeleteFile, ChangeFile, removal
  <2>2. /\ files' \in [Files -> AnyBlocks \cup {None}]
        /\ \A f \in Files : files'[f] # None => files'[f] \in Contents[f]
    BY <1>4 DEF Inv, Tables, Resync, DeleteFile, ChangeFile, AnyBlocks
  <2>3. SyncsFit'
    BY <1>1, <2>1, StaysFit DEF Inv, SyncsFit
  <2> QED
    BY <1>1, <2>1, <2>2, <2>3 DEF Inv, Rows, Tables, Left, Indexed
<1> QED
    BY <1>2, <1>3, <1>4

\* The ends of the two removals: what they leave.
LEMMA RemovalInv ==
    ASSUME DocumentsAssumption, Inv, Disconnect \/ OrgDeleted
    PROVE  Inv'
<1>1. /\ connector \in Nat /\ ops \in Nat /\ connector' = 0 /\ removing' = "no"
      /\ UNCHANGED <<files, waiting, imports, ops>>
      /\ documents \in [Files -> Document \cup {None}]
    BY DEF Inv, Rows, Tables, Disconnect, OrgDeleted
<1>2. /\ documents' \in [Files -> Document \cup {None}]
      /\ \A f \in Files : documents'[f] \in {documents[f], None}
    BY <1>1 DEF Disconnect, OrgDeleted, Purge
<1>3. SyncsFit'
    BY <1>1, StaysFit DEF Inv, SyncsFit
<1>4. Indexed' /\ Rows'
    BY <1>1, <1>2 DEF Inv, Indexed, Rows
<1>5. CASE Disconnect
  <2>1. /\ removing = "connector" /\ org' = org /\ deleted' = {}
        /\ \A f \in Files : f \in deleted => documents'[f] = None
    BY <1>5 DEF Disconnect, Purge
  <2>2. Left'
    BY <1>1, <1>2, <2>1 DEF Inv, Left
  <2> QED
    BY <1>1, <1>2, <1>3, <1>4, <2>1, <2>2 DEF Inv, Tables
<1>6. CASE OrgDeleted
  <2>1. org' = "gone" /\ deleted' = deleted /\ \A f \in Files : documents'[f] = None
    BY <1>6 DEF OrgDeleted, Purge
  <2>2. Left'
    BY <1>1, <2>1 DEF Left
  <2> QED
    BY <1>1, <1>2, <1>3, <1>4, <2>1, <2>2 DEF Inv, Tables
<1> QED
    BY <1>5, <1>6

-----------------------------------------------------------------------------
\* The theorems.

\* The initial states satisfy the invariant.
LEMMA InitInv == DocumentsAssumption /\ Init => Inv
<1> SUFFICES ASSUME DocumentsAssumption, Init PROVE Inv
    OBVIOUS
<1>1. /\ connector \in {0, 1} /\ waiting = 0 /\ ops = 0
      /\ org = "there" /\ removing = "no" /\ deleted = {}
      /\ files = [f \in Files |-> None] /\ documents = [f \in Files |-> None]
      /\ imports = [w \in Importers |-> NoImport]
    BY DEF Init
<1>2. Fit(NoImport, connector, documents, ops)
    BY <1>1, IdleFits
<1>3. NoImport \in Import
    BY DEF NoImport, Import
<1>4. SyncsFit
    BY <1>1, <1>2 DEF SyncsFit
<1> QED
    BY <1>1, <1>3, <1>4 DEF Inv, Rows, Tables, Left, Indexed, DocumentsAssumption

\* It is inductive: the steps outside, the ends of the removals, the starts of a
\* sync, and its own.
LEMMA NextInv == DocumentsAssumption /\ NoneAssumption /\ Inv /\ [Next]_vars => Inv'
<1> SUFFICES ASSUME DocumentsAssumption, NoneAssumption, Inv, [Next]_vars PROVE Inv'
    OBVIOUS
<1>1. CASE UNCHANGED vars
    BY <1>1 DEF vars, removal, Inv, Rows, Tables, SyncsFit, Left, Indexed
<1> QED
    BY <1>1, SyncInv, StartInv, OutsideInv, RemovalInv DEF Next

\* The invariant holds in every state.
THEOREM DocumentsInvariant == Spec => []Inv
<1>1. DocumentsAssumption /\ NoneAssumption
    BY DocumentsAssumption, NoneAssumption
<1> QED
    BY <1>1, InitInv, NextInv, PTL DEF Spec

\* Every state is well typed, and a sync has a file in hand exactly while it
\* downloads or stores it.
THEOREM DocumentsTypeCorrect == Spec => []TypeOK
<1>1. Inv => TypeOK
    BY DocumentsAssumption DEF Inv, Rows, Tables, SyncsFit, Fit, TypeOK
<1> QED
    BY <1>1, DocumentsInvariant, PTL

\* While its connector is there, a sync that has ended and reports no failure
\* left a document for every listed file, but for those whose contents, in some
\* version, are too large or without text, whatever other syncs, a disconnect or
\* the organization's end did at the same time.
THEOREM DocumentsImportWhole == Spec => []ImportWhole
<1>1. Inv => ImportWhole
  <2> SUFFICES ASSUME Inv, NEW w \in Importers, imports[w].step = "done",
                      imports[w].connector = connector
               PROVE  /\ \A f \in imports[w].listed \ (imports[w].failed \cup imports[w].passed) :
                            documents[f] # None
                      /\ \A f \in imports[w].passed : \E blocks \in Contents[f] : ~Indexable(blocks)
    BY DEF ImportWhole
  <2>1. Fit(imports[w], connector, documents, ops)
    BY DEF Inv, SyncsFit
  <2>2. /\ imports[w].file = None /\ imports[w].todo = {} /\ connector # 0
        /\ imports[w].listed \subseteq Files /\ None \notin Files
    BY <2>1, DocumentsAssumption DEF Fit, Import
  <2> QED
    BY <2>1, <2>2 DEF Fit, Kept, Barren
<1> QED
    BY <1>1, DocumentsInvariant, PTL

\* Every document stored holds, whole and in order, the blocks one version of
\* its file had: a sync stores what chunk_blocks returned for what it read.
THEOREM DocumentsIndexedWhole == Spec => []IndexedWhole
<1>1. Inv => IndexedWhole
  <2> SUFFICES ASSUME Inv, NEW f \in Files, documents[f] # None
               PROVE  /\ documents[f].chunks \in Seq(Chunk) \ {<<>>}
                      /\ Sound(documents[f].blocks, documents[f].chunks)
    BY DEF IndexedWhole
  <2> DEFINE blocks == documents[f].blocks
  <2>1. blocks \in AnyBlocks
    BY DEF Inv, Tables, Document
  <2>2. blocks \in Seq(Block)
    BY <2>1, DocumentsAssumption DEF AnyBlocks
  <2>3. documents[f].chunks = ChunkBlocks(blocks) /\ documents[f].chunks # <<>>
    BY <2>1 DEF Inv, Indexed, Chunked
  <2> QED
    BY <2>2, <2>3, ChunkBlocksSound
<1> QED
    BY <1>1, DocumentsInvariant, PTL

\* Whatever is left once the connector is gone was stored after the removal
\* looked for documents, and nothing is left once the organization is gone.
THEOREM DocumentsPurged == Spec => []Purged
<1>1. Inv => Purged
    BY DEF Inv, Left, Tables, Purged
<1> QED
    BY <1>1, DocumentsInvariant, PTL

\* A document stored stays as it is until the connector or the organization
\* goes: of two syncs that ingest a file at once the second changes nothing.
THEOREM DocumentsStoredOnce == Spec => StoredOnce
<1>1. Inv /\ [Next]_vars =>
        [\A f \in Files : documents[f] # None /\ documents'[f] # documents[f] =>
            /\ documents'[f] = None
            /\ connector' # connector \/ org' # org]_vars
  <2> SUFFICES ASSUME Inv, [Next]_vars, NEW f \in Files, documents[f] # None,
                      documents'[f] # documents[f]
               PROVE  documents'[f] = None /\ (connector' # connector \/ org' # org)
    OBVIOUS
  <2>1. CASE Disconnect
    <3>1. connector # 0
        BY <2>1 DEF Disconnect, Inv, Left, Rows
    <3> QED
        BY <2>1, <3>1 DEF Disconnect, Purge
  <2>2. CASE OrgDeleted
    <3>1. org # "gone"
        BY DEF Inv, Left
    <3> QED
        BY <2>2, <3>1 DEF OrgDeleted, Purge
  <2>3. ASSUME NEW w \in Importers, Store(w) PROVE FALSE
    <3>1. documents \in [Files -> Document \cup {None}]
        BY DEF Inv, Tables
    <3> QED
        BY <2>3, <3>1 DEF Store, Ingest
  <2> QED
    BY <2>1, <2>2, <2>3 DEF Next, SyncStep, Install, DeleteDocuments, DeleteOrg, Resync, DeleteFile,
                      ChangeFile, StartTask, StartRequest, Refresh, ListFolder, CheckFile, Download,
                      Finish, vars
<1> QED
    BY <1>1, DocumentsInvariant, PTL DEF Spec, StoredOnce

-----------------------------------------------------------------------------
\* The row lock, and the end of a sync.

\* What a step leaves of the sync that holds the row.
Holding(j, i) ==
    j.locked = "yes" =>
        /\ i.locked = "yes" /\ j.connector = i.connector
        /\ j.step \in {"list", "files", "download", "store"}

\* A sync that goes on without taking the row.
LEMMA HeldOn ==
    ASSUME Inv, RowHeld, NEW w \in Importers, NEW j, Set(w, j), Holding(j, imports[w]),
           UNCHANGED connector
    PROVE  RowHeld'
<1>1. imports'[w] = j /\ \A v \in Importers : v # w => imports'[v] = imports[v]
    BY DEF Set, Inv, Tables
<1> QED
    BY <1>1 DEF RowHeld, Holding

\* The steps of a sync: the refresh takes the row, the others keep it or end.
LEMMA SyncHolds ==
    ASSUME Inv, RowHeld, NEW w \in Importers, SyncStep(w)
    PROVE  RowHeld'
<1> DEFINE i == imports[w]
<1>0. i \in Import /\ imports \in [Importers -> Import] /\ NoImport.locked = "no"
      /\ connector' = connector
    BY SyncFrame DEF Inv, Tables, NoImport
<1>1. Holding(NoImport, i)
    BY <1>0 DEF Holding
<1>2. CASE Refresh(w)
  <2>1. CASE Set(w, NoImport)
    BY <1>0, <1>1, <2>1, HeldOn
  <2>2. CASE /\ i.connector = connector
             /\ Set(w, [i EXCEPT !.step = "list", !.locked = "yes"])
    <3> DEFINE j == [i EXCEPT !.step = "list", !.locked = "yes"]
    <3>1. j.step = "list" /\ j.locked = "yes" /\ j.connector = i.connector
        BY <1>0 DEF Import
    <3> HIDE DEF j
    <3>2. imports'[w] = j /\ \A v \in Importers : v # w => imports'[v] = imports[v]
        BY <1>0, <2>2 DEF Set, j
    <3>3. \A v \in Importers : imports[v].locked # "yes"
        BY <1>2 DEF Refresh, Locked
    <3> QED
        BY <1>0, <2>2, <3>1, <3>2, <3>3 DEF RowHeld
  <2> QED
    BY <1>2, <2>1, <2>2 DEF Refresh
<1>3. ASSUME NEW j, Set(w, j), j.locked = i.locked, j.connector = i.connector,
             j.step \in {"list", "files", "download", "store"}
      PROVE  RowHeld'
    BY <1>0, <1>3, HeldOn DEF Holding
<1>4. CASE ListFolder(w)
  <2> DEFINE listed == {f \in Files : files[f] # None}
             j == [i EXCEPT !.step = "files", !.listed = listed, !.todo = listed]
  <2>1. j.step = "files" /\ j.locked = i.locked /\ j.connector = i.connector
    BY <1>0 DEF Import
  <2>2. Set(w, j) \/ Set(w, NoImport)
    BY <1>4 DEF ListFolder
  <2> HIDE DEF j
  <2> QED
    BY <1>0, <1>1, <1>3, <1>4, <2>1, <2>2, HeldOn DEF ListFolder
<1>5. ASSUME NEW f \in Files, CheckFile(w, f) PROVE RowHeld'
  <2> DEFINE a == [i EXCEPT !.todo = @ \ {f}]
             j == [a EXCEPT !.step = "download", !.file = f]
  <2>1. a.step = "files" /\ a.locked = i.locked /\ a.connector = i.connector
        /\ j.step = "download" /\ j.locked = i.locked /\ j.connector = i.connector
    BY <1>0, <1>5 DEF Import, CheckFile
  <2>2. Set(w, a) \/ Set(w, j)
    BY <1>5 DEF CheckFile
  <2> HIDE DEF a, j
  <2> QED
    BY <1>3, <2>1, <2>2
<1>6. /\ Skip(w).step = "files" /\ Skip(w).locked = i.locked /\ Skip(w).connector = i.connector
      /\ Fail(w).step = "files" /\ Fail(w).locked = i.locked /\ Fail(w).connector = i.connector
      /\ Proceed(w).step = "files" /\ Proceed(w).locked = i.locked
      /\ Proceed(w).connector = i.connector
    BY <1>0 DEF Skip, Fail, Proceed, Import
<1>7. CASE Download(w)
  <2> DEFINE j == [i EXCEPT !.step = "store", !.blocks = files[i.file]]
  <2>1. j.step = "store" /\ j.locked = i.locked /\ j.connector = i.connector
    BY <1>0 DEF Import
  <2>2. Set(w, j) \/ Set(w, Skip(w)) \/ Set(w, Fail(w))
    BY <1>7 DEF Download
  <2> HIDE DEF j
  <2> QED
    BY <1>3, <1>6, <2>1, <2>2
<1>8. CASE Store(w)
    BY <1>3, <1>6, <1>8 DEF Store
<1>9. CASE Finish(w)
  <2>1. Done(w).locked = "no"
    BY <1>0 DEF Done, Import
  <2> QED
    BY <1>0, <1>9, <2>1, HeldOn DEF Finish, Holding
<1> QED
    BY <1>2, <1>4, <1>5, <1>7, <1>8, <1>9 DEF SyncStep

LEMMA RowHeldStep == Inv /\ RowHeld /\ [Next]_vars => RowHeld'
<1> SUFFICES ASSUME Inv, RowHeld, [Next]_vars PROVE RowHeld'
    OBVIOUS
<1>1. ASSUME NEW w \in Importers, StartTask(w) \/ StartRequest(w) PROVE RowHeld'
  <2>1. UNCHANGED connector
    BY <1>1 DEF StartTask, StartRequest
  <2>2. NoImport.locked = "no" /\ Holding(NoImport, imports[w])
    BY DEF NoImport, Holding
  <2>3. ASSUME NEW step \in {"refresh", "list"}
        PROVE  Holding([NoImport EXCEPT !.step = step, !.connector = connector],
                       imports[w])
    BY DEF NoImport, Holding
  <2>4. \E j : Set(w, j) /\ Holding(j, imports[w])
    BY <1>1, <2>2, <2>3 DEF StartTask, StartRequest, Load
  <2> QED
    BY <2>1, <2>4, HeldOn
<1>2. CASE Disconnect \/ OrgDeleted
    BY <1>2 DEF Disconnect, OrgDeleted, Locked, RowHeld
<1>4. CASE Install
  <2>1. connector = 0 /\ imports' = imports
    BY <1>4 DEF Install
  <2>2. ASSUME NEW w \in Importers PROVE imports[w].locked # "yes"
    BY <2>1 DEF RowHeld, Inv, SyncsFit, Fit
  <2> QED
    BY <2>1, <2>2 DEF RowHeld
<1>3. CASE UNCHANGED <<connector, imports>>
    BY <1>3 DEF RowHeld
<1> QED
    BY <1>1, <1>2, <1>3, <1>4, SyncHolds DEF Next, DeleteDocuments, DeleteOrg, Resync, DeleteFile,
                                             ChangeFile, vars

\* The connector's row is held by one sync at a time, the one that refreshed
\* the token; while it works, neither a disconnect nor the organization's end
\* nor another refresh gets between, and no sync that holds the row waits for it.
THEOREM DocumentsRowHeld == Spec => []RowHeld
<1>1. Init => RowHeld
    BY DEF Init, RowHeld, NoImport
<1> QED
    BY <1>1, RowHeldStep, DocumentsInvariant, PTL DEF Spec

\* Each step of a sync is one towards its end, for any folder: with finitely
\* many files, and the row released by each sync that ends, all of them end.
THEOREM DocumentsSyncsAdvance == Spec => SyncsAdvance
<1>1. Inv /\ [Next]_vars =>
        [\A w \in Importers : Running(w) /\ imports'[w] # imports[w] =>
            ~Running(w)' \/ Closer(imports'[w], imports[w])]_vars
  <2> SUFFICES ASSUME Inv, [Next]_vars, NEW w \in Importers, Running(w), imports'[w] # imports[w]
               PROVE  ~Running(w)' \/ Closer(imports'[w], imports[w])
    OBVIOUS
  <2> DEFINE i == imports[w]
  <2>0. i \in Import /\ imports \in [Importers -> Import]
        /\ i.step \in {"refresh", "list", "files", "download", "store"}
    BY DEF Inv, Tables, Import, Running
  <2>1. SyncStep(w)
    <3>1. ASSUME NEW v \in Importers, v # w, SyncStep(v) \/ StartTask(v) \/ StartRequest(v)
          PROVE  FALSE
      <4>1. \E j : Set(v, j)
        BY <3>1 DEF SyncStep, Refresh, ListFolder, CheckFile, Download, Store, Finish,
                    StartTask, StartRequest, Load
      <4> QED
        BY <2>0, <3>1, <4>1 DEF Set
    <3> QED
        BY <3>1 DEF Next, StartTask, StartRequest, Install, DeleteDocuments, Disconnect, DeleteOrg,
                    OrgDeleted, Resync, DeleteFile, ChangeFile, vars
  <2>2. ASSUME NEW j, Set(w, j) PROVE imports'[w] = j
    BY <2>0, <2>2 DEF Set
  <2>3. Set(w, NoImport) => ~Running(w)'
    BY <2>2 DEF Running, NoImport
  <2>4. CASE Refresh(w)
    <3> DEFINE j == [i EXCEPT !.step = "list", !.locked = "yes"]
    <3>1. j.step = "list"
        BY <2>0 DEF Import
    <3>2. i.step = "refresh" /\ (Set(w, j) \/ Set(w, NoImport))
        BY <2>4 DEF Refresh
    <3> HIDE DEF j
    <3> QED
        BY <2>2, <2>3, <3>1, <3>2 DEF Closer, Ahead
  <2>5. CASE ListFolder(w)
    <3> DEFINE listed == {f \in Files : files[f] # None}
               j == [i EXCEPT !.step = "files", !.listed = listed, !.todo = listed]
    <3>1. j.step = "files"
        BY <2>0 DEF Import
    <3>2. i.step = "list" /\ (Set(w, j) \/ Set(w, NoImport))
        BY <2>5 DEF ListFolder
    <3> HIDE DEF j
    <3> QED
        BY <2>2, <2>3, <3>1, <3>2 DEF Closer, Ahead
  <2>6. ASSUME NEW f \in Files, CheckFile(w, f) PROVE Closer(imports'[w], i)
    <3> DEFINE a == [i EXCEPT !.todo = @ \ {f}]
               j == [a EXCEPT !.step = "download", !.file = f]
    <3>1. /\ a.step = "files" /\ a.todo = i.todo \ {f} /\ j.step = "download"
          /\ j.todo = i.todo \ {f} /\ f \in i.todo /\ i.step = "files"
        BY <2>0, <2>6 DEF Import, CheckFile
    <3>2. Set(w, a) \/ Set(w, j)
        BY <2>6 DEF CheckFile
    <3> HIDE DEF a, j
    <3> QED
        BY <2>2, <3>1, <3>2 DEF Closer, Ahead
  <2>7. /\ Skip(w).step = "files" /\ Skip(w).todo = i.todo
        /\ Fail(w).step = "files" /\ Fail(w).todo = i.todo
        /\ Proceed(w).step = "files" /\ Proceed(w).todo = i.todo
    BY <2>0 DEF Skip, Fail, Proceed, Import
  <2>8. ASSUME NEW j, Set(w, j), j.step = "files", j.todo = i.todo, i.step \in {"download", "store"}
        PROVE  Closer(imports'[w], i)
    BY <2>2, <2>8 DEF Closer, Ahead, InHand
  <2>9. CASE Download(w)
    <3> DEFINE j == [i EXCEPT !.step = "store", !.blocks = files[i.file]]
    <3>1. j.step = "store" /\ j.todo = i.todo /\ i.step = "download"
        BY <2>0, <2>9 DEF Import, Download
    <3>2. Set(w, j) \/ Set(w, Skip(w)) \/ Set(w, Fail(w))
        BY <2>9 DEF Download
    <3> HIDE DEF j
    <3>3. Set(w, j) => Closer(imports'[w], i)
        BY <2>2, <3>1 DEF Closer, Ahead, InHand
    <3> QED
        BY <2>7, <2>8, <3>1, <3>2, <3>3
  <2>10. CASE Store(w)
    BY <2>7, <2>8, <2>10 DEF Store
  <2>11. CASE Finish(w)
    <3>1. Done(w).step = "done"
        BY <2>0 DEF Done, Import
    <3> QED
        BY <2>2, <2>11, <3>1 DEF Finish, Running
  <2> QED
    BY <2>1, <2>4, <2>5, <2>6, <2>9, <2>10, <2>11 DEF SyncStep
<1> QED
    BY <1>1, DocumentsInvariant, PTL DEF Spec, SyncsAdvance
=============================================================================
