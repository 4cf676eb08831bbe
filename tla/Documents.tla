----------------------------- MODULE Documents -----------------------------
(***************************************************************************)
(* The Dropbox connector: its install, the syncs that list its folder and  *)
(* ingest each new PDF, the disconnect and the end of its organization.    *)
(* Syncs run as tasks (webhook, Sync button) or in a request, several at a *)
(* time; one that refreshes the access token locks the connector's row     *)
(* until it ends. The credentials themselves are left out.                 *)
(***************************************************************************)
EXTENDS Chunking

CONSTANTS
    Files,       \* PDF files of the account
    Contents,    \* what each file may hold: the text blocks of at least MIN_BLOCK_CHARS
    Oversized,   \* contents of files larger than MAX_BYTES
    Importers,   \* bound: syncs running at once
    None,
    MaxOps       \* bound: installs, removals, changes of files, syncs asked for

ASSUME DocumentsAssumption ==
    /\ MaxOps \in Nat /\ None \notin Files
    /\ \A f \in Files : \A blocks \in Contents[f] : blocks \in Seq(Block)

VARIABLES
    connector,   \* row id of the Dropbox connector, 0 when not installed
    org,         \* its organization, and with it the project of the documents
    removing,    \* the removal whose transaction is open
    deleted,     \* files whose documents that transaction has deleted
    files,       \* the folder: the blocks of each file, or None
    documents,   \* rows of documents with their chunks, one for each file or None
    waiting,     \* sync tasks in the broker
    imports,     \* the syncs running, and how the last ones ended
    ops          \* operations started; the next row's id is ops + 2

removal == <<org, removing, deleted>>
vars == <<connector, removal, files, documents, waiting, imports, ops>>

AnyBlocks == UNION {Contents[f] : f \in Files}
Chunked == [blocks \in AnyBlocks |-> ChunkBlocks(blocks)]
Document == [blocks : AnyBlocks, chunks : {Chunked[blocks] : blocks \in AnyBlocks},
             late : {"no", "yes"}]   \* history: stored after a removal looked for documents

ASSUME NoneAssumption == None \notin Document

Import == [step : {"idle", "refresh", "list", "files", "download", "store", "done"},
           connector : Nat,                  \* the row it loaded
           locked : {"yes", "no"},           \* it holds the row's lock
           listed : SUBSET Files, todo : SUBSET Files, file : Files \cup {None},
           blocks : AnyBlocks \cup {None},
           failed : SUBSET Files,            \* counted as failed
           passed : SUBSET Files]            \* ingested, by the count, but not stored

NoImport == [step |-> "idle", connector |-> 0, locked |-> "no", listed |-> {}, todo |-> {},
             file |-> None, blocks |-> None, failed |-> {}, passed |-> {}]

Init ==
    /\ connector \in {0, 1} /\ org = "there" /\ removing = "no" /\ deleted = {}
    /\ files = [f \in Files |-> None] /\ documents = [f \in Files |-> None]
    /\ waiting = 0
    /\ imports = [w \in Importers |-> NoImport]
    /\ ops = 0

Start == ops < MaxOps /\ ops' = ops + 1
Running(w) == imports[w].step \notin {"idle", "done"}
Locked == \E w \in Importers : imports[w].locked = "yes"
Set(w, job) == imports' = [imports EXCEPT ![w] = job]

\* What ingest_pdf_bytes stores: neither a file too large nor one without text.
Indexable(blocks) == blocks \notin Oversized /\ Chunked[blocks] # <<>>

\* The document of the file in hand.
Extracted(w) ==
    [blocks |-> imports[w].blocks, chunks |-> Chunked[imports[w].blocks],
     late |-> IF removing = "no" /\ imports[w].connector = connector THEN "no" ELSE "yes"]

-----------------------------------------------------------------------------
\* Variants for the mutation runs.

\* A racing sync replaces what the other stored.
IngestAgain(w) ==
    documents' = [documents EXCEPT ![imports[w].file] = Extracted(w)]

\* The purge leaves the documents.
PurgedNothing(rows) == documents

\* A file that cannot be downloaded is passed over in silence.
FailSilently(w) == [imports[w] EXCEPT !.step = "files", !.file = None, !.blocks = None]

\* A file whose insert fails is downloaded again.
FailAgain(w) ==
    IF imports[w].step = "store" THEN [imports[w] EXCEPT !.step = "download", !.blocks = None]
    ELSE [imports[w] EXCEPT !.step = "files", !.file = None, !.failed = @ \cup {imports[w].file}]

\* The end of a sync does not commit.
DoneUncommitted(w) == [imports[w] EXCEPT !.step = "done"]

\* A file that is not stored stays the one in hand.
SkipInHand(w) == [imports[w] EXCEPT !.step = "files", !.passed = @ \cup {imports[w].file}]

-----------------------------------------------------------------------------
\* What the statements below write.

\* _upsert_document, _replace_chunks: nothing for a document that is there.
Ingest(w) ==
    documents' = [documents EXCEPT ![imports[w].file] = IF @ = None THEN Extracted(w) ELSE @]

\* document_chunks cascade.
Purge(rows) == [f \in Files |-> IF f \in rows THEN None ELSE documents[f]]

Fail(w) == [imports[w] EXCEPT !.step = "files", !.file = None, !.blocks = None,
                              !.failed = @ \cup {imports[w].file}]
Skip(w) == [imports[w] EXCEPT !.step = "files", !.file = None, !.blocks = None,
                              !.passed = @ \cup {imports[w].file}]
Proceed(w) == [imports[w] EXCEPT !.step = "files", !.file = None, !.blocks = None]

\* The commit releases the row.
Done(w) == [imports[w] EXCEPT !.step = "done", !.locked = "no"]

-----------------------------------------------------------------------------
\* The administrator, the organization's directory and the folder.

\* OAuth callback. A re-install only replaces the credentials.
Install ==
    /\ connector = 0 /\ org = "there" /\ removing = "no" /\ Start
    /\ connector' = ops + 2
    /\ UNCHANGED <<removal, files, documents, waiting, imports>>

\* DELETE connector: the documents go at once, though unseen until the commit.
DeleteDocuments ==
    /\ connector # 0 /\ removing = "no" /\ Start
    /\ removing' = "connector" /\ deleted' = {f \in Files : documents[f] # None}
    /\ UNCHANGED <<connector, org, files, documents, waiting, imports>>

\* Its commit deletes the connector's row, for which it waits, and what was
\* stored since it looked for documents stays.
Disconnect ==
    /\ removing = "connector" /\ ~Locked
    /\ connector' = 0 /\ documents' = Purge(deleted)
    /\ removing' = "no" /\ deleted' = {}
    /\ UNCHANGED <<org, files, waiting, imports, ops>>

\* The directory's webhook deletes the organization: its row is locked, and
\* the cascade waits for the connector's.
DeleteOrg ==
    /\ org = "there" /\ removing = "no" /\ Start
    /\ removing' = "org"
    /\ UNCHANGED <<connector, org, deleted, files, documents, waiting, imports>>

OrgDeleted ==
    /\ removing = "org" /\ ~Locked
    /\ org' = "gone" /\ connector' = 0 /\ documents' = Purge(Files)
    /\ removing' = "no"
    /\ UNCHANGED <<deleted, files, waiting, imports, ops>>

\* A PDF appears or changes; Dropbox's webhook asks for a sync of each
\* connector of the account. The Sync button does the same.
ChangeFile(f, blocks) ==
    /\ files[f] # blocks /\ Start
    /\ files' = [files EXCEPT ![f] = blocks]
    /\ waiting' = IF connector # 0 THEN waiting + 1 ELSE waiting
    /\ UNCHANGED <<connector, removal, documents, imports>>

DeleteFile(f) ==
    /\ files[f] # None /\ Start
    /\ files' = [files EXCEPT ![f] = None]
    /\ UNCHANGED <<connector, removal, documents, waiting, imports>>

Resync ==
    /\ connector # 0 /\ Start
    /\ waiting' = waiting + 1
    /\ UNCHANGED <<connector, removal, files, documents, imports>>

-----------------------------------------------------------------------------
\* sync_folder.

Load(w) ==
    \E step \in {"refresh", "list"} :
        Set(w, [NoImport EXCEPT !.step = step, !.connector = connector])

\* A task whose connector is gone ends at once.
StartTask(w) ==
    /\ ~Running(w) /\ waiting > 0
    /\ waiting' = waiting - 1
    /\ IF connector = 0 THEN Set(w, NoImport) ELSE Load(w)
    /\ UNCHANGED <<connector, removal, files, documents, ops>>

\* POST dropbox/sync runs it in the request.
StartRequest(w) ==
    /\ ~Running(w) /\ connector # 0 /\ Start
    /\ Load(w)
    /\ UNCHANGED <<connector, removal, files, documents, waiting>>

\* ensure_fresh_dropbox_token writes the new token, uncommitted, to the row. A
\* call that fails ends the sync, and so does a row that is gone.
Refresh(w) ==
    /\ imports[w].step = "refresh" /\ ~Locked
    /\ \/ /\ imports[w].connector = connector
          /\ Set(w, [imports[w] EXCEPT !.step = "list", !.locked = "yes"])
       \/ Set(w, NoImport)
    /\ UNCHANGED <<connector, removal, files, documents, waiting, ops>>

\* A call that fails rolls the sync back.
ListFolder(w) ==
    LET listed == {f \in Files : files[f] # None} IN
    /\ imports[w].step = "list"
    /\ \/ Set(w, [imports[w] EXCEPT !.step = "files", !.listed = listed, !.todo = listed])
       \/ Set(w, NoImport)
    /\ UNCHANGED <<connector, removal, files, documents, waiting, ops>>

\* _already_ingested: the file is known by its id, whatever it holds now.
CheckFile(w, f) ==
    LET job == [imports[w] EXCEPT !.todo = @ \ {f}] IN
    /\ imports[w].step = "files" /\ f \in imports[w].todo
    /\ IF documents[f] # None
         THEN Set(w, job)
         ELSE Set(w, [job EXCEPT !.step = "download", !.file = f])
    /\ UNCHANGED <<connector, removal, files, documents, waiting, ops>>

\* The file is downloaded, chunked and embedded; any of it may fail. A file too
\* large or without text is not stored, and counts as ingested all the same.
Download(w) ==
    LET blocks == files[imports[w].file] IN
    /\ imports[w].step = "download"
    /\ \/ /\ blocks # None /\ Indexable(blocks)
          /\ Set(w, [imports[w] EXCEPT !.step = "store", !.blocks = blocks])
       \/ blocks # None /\ ~Indexable(blocks) /\ Set(w, Skip(w))
       \/ Set(w, Fail(w))
    /\ UNCHANGED <<connector, removal, files, documents, waiting, ops>>

\* An insert waits for the transaction that is deleting its organization.
Barred(w) ==
    /\ imports[w].step = "store"
    /\ removing = "org" /\ documents[imports[w].file] = None

\* One transaction of its own. Without a project nothing is stored, and the
\* file counts as ingested; an insert fails that waited for another sync's or
\* for the organization's end.
Store(w) ==
    /\ imports[w].step = "store" /\ ~Barred(w)
    /\ \/ org = "there" /\ Ingest(w) /\ Set(w, Proceed(w))
       \/ org = "gone" /\ Set(w, Skip(w)) /\ UNCHANGED documents
       \/ Set(w, Fail(w)) /\ UNCHANGED documents
    /\ UNCHANGED <<connector, removal, files, waiting, ops>>

Finish(w) ==
    /\ imports[w].step = "files" /\ imports[w].todo = {}
    /\ Set(w, Done(w))
    /\ UNCHANGED <<connector, removal, files, documents, waiting, ops>>

-----------------------------------------------------------------------------
SyncStep(w) ==
    \/ Refresh(w) \/ ListFolder(w) \/ \E f \in Files : CheckFile(w, f)
    \/ Download(w) \/ Store(w) \/ Finish(w)

Next ==
    \/ Install \/ DeleteDocuments \/ Disconnect \/ DeleteOrg \/ OrgDeleted \/ Resync
    \/ \E f \in Files : DeleteFile(f) \/ \E blocks \in Contents[f] : ChangeFile(f, blocks)
    \/ \E w \in Importers : StartTask(w) \/ StartRequest(w) \/ SyncStep(w)

Spec == Init /\ [][Next]_vars

\* A running sync goes on: every call to a provider it awaits has a timeout. A
\* transaction goes on when the row it waits for is free.
FairSpec == Spec /\ WF_vars(OrgDeleted) /\ \A w \in Importers : WF_vars(SyncStep(w))
-----------------------------------------------------------------------------
TypeOK ==
    /\ connector \in 0..MaxOps + 1 /\ waiting \in 0..MaxOps
    /\ org \in {"there", "gone"} /\ removing \in {"no", "connector", "org"}
    /\ deleted \subseteq Files
    /\ files \in [Files -> AnyBlocks \cup {None}]
    /\ documents \in [Files -> Document \cup {None}]
    /\ imports \in [Importers -> Import]
    /\ \A w \in Importers : imports[w].file # None <=> imports[w].step \in {"download", "store"}
    /\ ops \in 0..MaxOps

\* The index holds a document whole: its chunks hold every block of one
\* version of the file, in order and under its heading.
IndexedWhole ==
    \A f \in Files : documents[f] # None =>
        /\ documents[f].chunks \in Seq(Chunk) \ {<<>>}
        /\ Sound(documents[f].blocks, documents[f].chunks)

\* Two syncs that ingest a file at once store it once: what is stored is never
\* replaced, and goes only with its connector or its organization.
StoredOnce ==
    [][\A f \in Files : documents[f] # None /\ documents'[f] # documents[f] =>
          /\ documents'[f] = None
          /\ connector' # connector \/ org' # org]_vars

\* A sync that reports no failure leaves no listed file without a document,
\* unless what the file held then is never indexed: while the connector is
\* there, only a file too large or without text is counted as ingested and
\* missing from the index.
ImportWhole ==
    \A w \in Importers : imports[w].step = "done" /\ imports[w].connector = connector =>
        /\ \A f \in imports[w].listed \ (imports[w].failed \cup imports[w].passed) :
              documents[f] # None
        /\ \A f \in imports[w].passed : \E blocks \in Contents[f] : ~Indexable(blocks)

\* A disconnect leaves no document it could see: while no connector is there,
\* each one left was stored after a removal looked for documents, by a sync
\* that had loaded the connector before. The end of the organization leaves none.
Purged ==
    connector = 0 =>
        \A f \in Files : documents[f] # None => documents[f].late = "yes" /\ org = "there"

\* A sync that refreshed the token holds the connector's row until it ends, and
\* no one else does: the row stays while it works, through a disconnect and the
\* organization's end, and the one that holds the row never waits for it.
RowHeld ==
    \A w \in Importers : imports[w].locked = "yes" =>
        /\ imports[w].step \in {"list", "files", "download", "store"}
        /\ connector = imports[w].connector
        /\ \A v \in Importers : imports[v].locked = "yes" => v = w

\* How far a sync is: before its list, then by the files left, then by what is
\* left to do with the one in hand.
Ahead == [step \in {"refresh", "list", "files", "download", "store"} |->
             CASE step = "refresh" -> 2 [] step = "list" -> 1 [] OTHER -> 0]
InHand == [step \in {"refresh", "list", "files", "download", "store"} |->
             CASE step = "download" -> 2 [] step = "store" -> 1 [] OTHER -> 0]
Closer(j, i) ==
    \/ Ahead[j.step] < Ahead[i.step]
    \/ /\ Ahead[j.step] = Ahead[i.step]
       /\ j.todo \subseteq i.todo
       /\ j.todo # i.todo \/ InHand[j.step] < InHand[i.step]

\* Whatever fails, whatever is added, changed or disconnected meanwhile, each
\* step of a sync brings it closer to its end: none is tried again, and what
\* appears in the folder after it was listed is left to the next sync.
SyncsAdvance ==
    [][\A w \in Importers : Running(w) /\ imports'[w] # imports[w] =>
          ~Running(w)' \/ Closer(imports'[w], imports[w])]_vars

\* Every sync ends, though it may wait for the row another one keeps locked
\* while it downloads. One thing stops it for good: the organization's deletion
\* waits for a row whose holder waits, with its insert, for that deletion.
Stuck == \E w \in Importers : imports[w].locked = "yes" /\ Barred(w)
SyncsEnd == \A w \in Importers : Running(w) ~> ~Running(w) \/ Stuck
=============================================================================
