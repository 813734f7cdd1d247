---------------------------- MODULE IndexPipeline ----------------------------
(***************************************************************************)
(* The file indexing pipeline: api/routes/files.py and documents.py (the   *)
(* handlers that change a platform file), workers/index_queue.py (the      *)
(* worker thread, its sweeps, enqueue), rag/indexing.py (documents and     *)
(* vectors of a file) and the store calls they make.                       *)
(*                                                                         *)
(* One step is one call to the store, to Qdrant or to the queue: between   *)
(* two of them any other thread may run, and every document is written     *)
(* from the copy its thread read earlier.  The queue is DedupQueue, which  *)
(* the two backends implement.                                             *)
(*                                                                         *)
(* What a file says is one version number.  Its original_filename, project *)
(* and folder are copied to the document whole (ver); its tags are added   *)
(* to those the document has and never taken away (tags: the versions they *)
(* come from); its filename is not copied, so a rename alone is no new     *)
(* version.  The chunks in Qdrant carry what their document says.          *)
(***************************************************************************)
EXTENDS Naturals, FiniteSets, Sequences, SequencesExt

CONSTANTS
  Files,        \* platform file ids
  Workers,      \* the indexer threads
  Threads,      \* threads that run request handlers, and start-up
  MaxDocs,      \* bound: documents ever created
  MaxVersion,   \* bound: versions of a file
  MaxRequests,  \* bound: requests after the uploads
  MaxCrashes,   \* bound: process deaths
  MaxOutages,   \* bound: calls to the store that raise
  Failing,      \* whether extractions, embeddings and calls to Qdrant may raise
  Vectorless,   \* files of which no chunk has a vector (all of norm zero)
  NoFile,       \* no file
  Upsert        \* update_* of a missing row inserts it (Postgres) or not (JSON)

ASSUME ConstantsAssumption ==
  /\ MaxDocs \in Nat /\ MaxVersion \in Nat \ {0} /\ MaxRequests \in Nat
  /\ MaxCrashes \in Nat /\ MaxOutages \in Nat /\ Failing \in BOOLEAN
  /\ Upsert \in BOOLEAN
  /\ Vectorless \subseteq Files
  /\ NoFile \notin Files
  /\ Workers \cap Threads = {}
  /\ Workers \cap {"free", "reserved", "queued"} = {}

DocIds == 1 .. MaxDocs
Procs == Workers \cup Threads
NoDoc == 0

VARIABLES
  files,        \* files[f]: is the row there, and its version (0: no row yet)
  docs,         \* docs[d]: the document row
  recent,       \* the live documents by updated_at, newest last
  created,      \* documents created so far
  vectors,      \* vectors[d]: what the chunks of d in Qdrant say
  status,       \* the queue: DedupQueue's place of every file id
  proc,         \* proc[p]: what thread p is doing, with its local copies
  booting,      \* start_index_worker has yet to run its recovery sweep
  left,         \* what remains of the bounds
  refused,      \* history: files whose last put was refused mid-processing
  failures,     \* history: failed attempts of a file since its last put
  overlapped    \* history: files deleted while other work on them went on

storeVars == <<files, docs, recent, created>>
history == <<refused, failures, overlapped>>
vars == <<files, docs, recent, created, vectors, status, proc, booting, left,
          refused, failures, overlapped>>

Queue == INSTANCE DedupQueue WITH Items <- Files

MaxAttempts == 3       \* the literal 3 of the worker loop
JobStatus == {"pending", "running", "completed", "failed"}
\* Version 0 stands for the scope a from-file request asks for; the tags it asks
\* for, which stay like those of older versions, are left out.
Versions == 0 .. MaxVersion
\* index_attempts is only compared with 3, so it saturates there.
Document ==
  [file : Files, status : JobStatus, attempts : 0 .. MaxAttempts,
   ver : Versions, tags : SUBSET Versions]
Blank == [file |-> NoFile, status |-> "pending", attempts |-> 0,
          ver |-> 0, tags |-> {}]
\* The chunks of a document carry its title, scope and tags.
Said == [ver : Versions, tags : SUBSET Versions]
NoChunks == [ver |-> 0, tags |-> {}]
Chunks(doc) ==
  IF doc.file \in Vectorless THEN NoChunks ELSE [ver |-> doc.ver, tags |-> doc.tags]
Live(d) == d \in ToSet(recent)

Pcs == {"idle", "write_file", "ensure", "save", "created", "mark", "mark_save",
        "put", "delete_list", "delete", "delete_doc",
        "get_file", "running", "clear", "upsert", "complete", "fail", "decide", "release"}
Ops == {"none", "request", "sweep", "index"}
Resting == [pc |-> "idle", op |-> "none", file |-> NoFile, ver |-> 0,
            id |-> NoDoc, doc |-> Blank, todo |-> {}, puts |-> {},
            asks |-> FALSE]    \* a from-file request, with a scope of its own

TypeOK ==
  /\ files \in [Files -> [live : BOOLEAN, ver : Versions]]
  /\ docs \in [DocIds -> Document \cup {Blank}]
  /\ recent \in Seq(DocIds) /\ IsInjective(recent)
  /\ created \in 0 .. MaxDocs
  /\ vectors \in [DocIds -> Said]
  /\ Queue!TypeOK
  /\ DOMAIN proc = Procs
  /\ \A p \in Procs :
       /\ proc[p].pc \in Pcs /\ proc[p].op \in Ops
       /\ proc[p].file \in Files \cup {NoFile} /\ proc[p].ver \in Versions
       /\ proc[p].id \in DocIds \cup {NoDoc} /\ proc[p].doc \in Document \cup {Blank}
       /\ proc[p].todo \subseteq IF proc[p].op = "sweep" THEN Files \X Versions ELSE DocIds
       /\ proc[p].puts \subseteq Files
       /\ proc[p].asks \in BOOLEAN
  /\ booting \in BOOLEAN
  /\ refused \subseteq Files
  /\ failures \in [Files -> 0 .. MaxAttempts]
  /\ overlapped \subseteq Files

Init ==
  /\ files = [f \in Files |-> [live |-> FALSE, ver |-> 0]]
  /\ docs = [d \in DocIds |-> Blank]
  /\ recent = <<>>
  /\ created = 0
  /\ vectors = [d \in DocIds |-> NoChunks]
  /\ Queue!Init
  /\ proc = [p \in Procs |-> Resting]
  /\ booting = FALSE
  /\ left = [requests |-> MaxRequests, crashes |-> MaxCrashes, outages |-> MaxOutages]
  /\ refused = {}
  /\ failures = [f \in Files |-> 0]
  /\ overlapped = {}

-----------------------------------------------------------------------------
(***************************************************************************)
(* The store                                                               *)
(***************************************************************************)
\* One more of what a bound limits.
Spends(what) == left[what] > 0 /\ left' = [left EXCEPT ![what] = @ - 1]

At(p, pc) == proc[p].pc = pc
Become(p, rec) == proc' = [proc EXCEPT ![p] = rec]
\* The worker is about to release its id.
Finish(w) == Become(w, [Resting EXCEPT !.pc = "release", !.op = "index", !.file = proc[w].file])
Goto(p, pc) == Become(p, [proc[p] EXCEPT !.pc = pc])

DocsOf(f) == {d \in ToSet(recent) : docs[d].file = f}

\* Where d is in the order q; the last of some documents.
Position(q, d) == CHOOSE i \in DOMAIN q : q[i] = d
Latest(q, S) == q[CHOOSE i \in DOMAIN q : q[i] \in S /\ \A j \in DOMAIN q : q[j] \in S => j <= i]

\* _document_for_file: the document of f with the latest updated_at.
NewestDoc(f) ==
  LET own == DocsOf(f) IN IF own = {} THEN NoDoc ELSE Latest(recent, own)

\* _mark_document_running_for_file_id: the newest *pending* document of f.
NewestPending(f) ==
  LET pending == {d \in DocsOf(f) : docs[d].status = "pending"}
  IN IF pending = {} THEN NoDoc ELSE Latest(recent, pending)

\* The live documents but d.
Without(d) == IF Live(d) THEN RemoveAt(recent, Position(recent, d)) ELSE recent

InFlight(f) == status[f] # "free"

\* No thread works on f and f is not in flight.
Busy(p, f) ==
  \/ proc[p].file = f \/ f \in proc[p].puts
  \/ proc[p].op = "sweep" /\ \E n \in proc[p].todo : n[1] = f
Quiet(f) == ~InFlight(f) /\ \A p \in Procs : ~Busy(p, f)

\* (mutant of SaveDoc) the row is inserted once more.
SaveDoc_Inserts(d, rec) ==
  docs' = [docs EXCEPT ![d] = rec] /\ recent' = Append(recent, d)

\* update_document: Postgres upserts, the JSON store only replaces.
SaveDoc(d, rec) ==
  IF Upsert \/ Live(d)
  THEN /\ docs' = [docs EXCEPT ![d] = rec]
       /\ recent' = Append(Without(d), d)
  ELSE UNCHANGED <<docs, recent>>

-----------------------------------------------------------------------------
(***************************************************************************)
(* ensure_document_for_platform_file: look the document up, then create it *)
(* or write the copy back as pending, with the title and scope of the file *)
(* and its tags added to those of the document.                            *)
(***************************************************************************)
\* The version whose scope the document gets: none of the file's when the
\* request asks for one of its own.
Scope(p) == IF proc[p].op = "request" /\ proc[p].asks THEN 0 ELSE proc[p].ver

AfterEnsure(p, d, rec) ==
  LET me == [proc[p] EXCEPT !.id = d, !.doc = rec] IN
  CASE proc[p].op = "index"   -> Become(p, [me EXCEPT !.pc = "running"])
    [] proc[p].op = "request" ->
         Become(p, [Resting EXCEPT !.pc = "mark", !.op = "request", !.file = proc[p].file,
                                   !.puts = {proc[p].file}])
    [] proc[p].op = "sweep"   ->
         LET rest == proc[p].todo \ {<<proc[p].file, proc[p].ver>>}
             known == [me EXCEPT !.id = NoDoc, !.doc = Blank,
                                 !.todo = rest, !.puts = @ \cup {proc[p].file}]
         IN IF rest = {} THEN Become(p, [known EXCEPT !.pc = "put"])
            ELSE \E n \in rest :
                   Become(p, [known EXCEPT !.pc = "ensure", !.file = n[1], !.ver = n[2]])

EnsureRead(p) ==
  /\ At(p, "ensure")
  /\ LET d == NewestDoc(proc[p].file) IN
       Become(p, [proc[p] EXCEPT !.pc = "save", !.id = d,
                                 !.doc = IF d = NoDoc THEN Blank ELSE docs[d]])
  /\ UNCHANGED <<storeVars, vectors, status, booting, left, history>>

\* create_document of a pending document, when the lookup found none ...
EnsureCreate(p) ==
  /\ At(p, "save") /\ proc[p].id = NoDoc
  /\ created < MaxDocs
  /\ LET d == created + 1
         rec == [file |-> proc[p].file, status |-> "pending", attempts |-> 0,
                 ver |-> Scope(p), tags |-> {proc[p].ver}] IN
       /\ docs' = [docs EXCEPT ![d] = rec]
       /\ recent' = Append(recent, d)
       /\ created' = d
       /\ Become(p, [proc[p] EXCEPT !.pc = "created", !.id = d, !.doc = rec])
  /\ UNCHANGED <<files, vectors, status, booting, left, history>>

\* ... followed by an update_document of the new row.
EnsureCreated(p) ==
  /\ At(p, "created")
  /\ SaveDoc(proc[p].id, proc[p].doc)
  /\ AfterEnsure(p, proc[p].id, proc[p].doc)
  /\ UNCHANGED <<files, created, vectors, status, booting, left, history>>

\* (mutants of EnsureSave) the status is left as it is; the version is.
EnsureSave_KeepsStatus(p) ==
  /\ At(p, "save") /\ proc[p].id # NoDoc
  /\ LET rec == [proc[p].doc EXCEPT !.ver = Scope(p), !.tags = @ \cup {proc[p].ver}] IN
       /\ SaveDoc(proc[p].id, rec)
       /\ AfterEnsure(p, proc[p].id, rec)
  /\ UNCHANGED <<files, created, vectors, status, booting, left, history>>
EnsureSave_KeepsVersion(p) ==
  /\ At(p, "save") /\ proc[p].id # NoDoc
  /\ LET rec == [proc[p].doc EXCEPT !.status = "pending"] IN
       /\ SaveDoc(proc[p].id, rec)
       /\ AfterEnsure(p, proc[p].id, rec)
  /\ UNCHANGED <<files, created, vectors, status, booting, left, history>>

EnsureSave(p) ==
  /\ At(p, "save") /\ proc[p].id # NoDoc
  /\ LET rec == [proc[p].doc EXCEPT !.status = "pending", !.ver = Scope(p),
                                    !.tags = @ \cup {proc[p].ver}] IN
       /\ SaveDoc(proc[p].id, rec)
       /\ AfterEnsure(p, proc[p].id, rec)
  /\ UNCHANGED <<files, created, vectors, status, booting, left, history>>

Ensure(p) == EnsureRead(p) \/ EnsureCreate(p) \/ EnsureCreated(p) \/ EnsureSave(p)

-----------------------------------------------------------------------------
(***************************************************************************)
(* enqueue_platform_file_index: a handler marks the newest pending         *)
(* document running (read, then write), then puts; a sweep only puts.      *)
(***************************************************************************)
MarkRead(p) ==
  /\ At(p, "mark")
  /\ LET d == NewestPending(proc[p].file) IN
       IF d = NoDoc THEN Goto(p, "put")
       ELSE Become(p, [proc[p] EXCEPT !.pc = "mark_save", !.id = d, !.doc = docs[d]])
  /\ UNCHANGED <<storeVars, vectors, status, booting, left, history>>

MarkSave(p) ==
  /\ At(p, "mark_save")
  /\ SaveDoc(proc[p].id, [proc[p].doc EXCEPT !.status = "running"])
  /\ Become(p, [proc[p] EXCEPT !.pc = "put", !.id = NoDoc, !.doc = Blank])
  /\ UNCHANGED <<files, created, vectors, status, booting, left, history>>

\* put of one id: dedup-guarded, so it may change nothing.
Put(p) ==
  /\ At(p, "put")
  /\ \E f \in proc[p].puts :
       /\ IF status[f] = "free"
          THEN Queue!Enqueue(f) /\ refused' = refused \ {f}
                                /\ failures' = [failures EXCEPT ![f] = 0]
          ELSE /\ refused' = IF status[f] \in Workers THEN refused \cup {f} ELSE refused
               /\ UNCHANGED <<status, failures>>
       /\ UNCHANGED overlapped
       /\ IF proc[p].puts = {f} THEN Become(p, Resting)
          ELSE Become(p, [proc[p] EXCEPT !.puts = @ \ {f}])
  /\ UNCHANGED <<storeVars, vectors, booting, left>>

-----------------------------------------------------------------------------
(***************************************************************************)
(* Request handlers                                                        *)
(***************************************************************************)
Request(f, pc) ==
  [Resting EXCEPT !.pc = pc, !.op = "request", !.file = f, !.ver = files[f].ver]

\* Ensure the document of each of these file versions, n first; put them all.
Sweep(versions, n) ==
  [Resting EXCEPT !.pc = "ensure", !.op = "sweep", !.file = n[1], !.ver = n[2],
                  !.todo = versions]

\* A request uses up the bound.
Arrives == Spends("requests")

\* upload_file: the row is created, the document ensured, the file enqueued.
Upload(t, f) ==
  /\ proc[t] = Resting
  /\ files[f].ver = 0
  /\ files' = [files EXCEPT ![f] = [live |-> TRUE, ver |-> 1]]
  /\ Become(t, [Request(f, "ensure") EXCEPT !.ver = 1])
  /\ UNCHANGED <<docs, recent, created, vectors, status, booting, left, history>>

\* A row alone: a modelled artifact, an entry of an uploaded archive.
CreateFile(t, f) ==
  /\ proc[t] = Resting
  /\ files[f].ver = 0
  /\ files' = [files EXCEPT ![f] = [live |-> TRUE, ver |-> 1]]
  /\ UNCHANGED <<docs, recent, created, vectors, status, proc, booting, left, history>>

\* upload_chatgpt_export: enqueued in the background, so without the mark.
ImportFile(t, f) ==
  /\ proc[t] = Resting
  /\ files[f].ver = 0
  /\ files' = [files EXCEPT ![f] = [live |-> TRUE, ver |-> 1]]
  /\ Become(t, Sweep({<<f, 1>>}, <<f, 1>>))
  /\ UNCHANGED <<docs, recent, created, vectors, status, booting, left, history>>

\* update_file: the row is read (404 if missing) ...
UpdateFile(t, f) ==
  /\ proc[t] = Resting
  /\ Arrives
  /\ files[f].live /\ files[f].ver < MaxVersion
  /\ Become(t, Request(f, "write_file"))
  /\ UNCHANGED <<storeVars, vectors, status, booting, history>>

\* What update_platform_file makes of the row: one more version - that of
\* Postgres may undo a newer one, with the copy it read - or, when only the
\* filename is written over the row as it is, the version it has.
Written(t, f) ==
  {v \in {files[f].ver, files[f].ver + 1} :
     v = files[f].ver => ~Upsert \/ proc[t].ver = files[f].ver}

\* ... and written back; the JSON store re-reads it under its lock.
WriteFile(t) ==
  /\ At(t, "write_file")
  /\ LET f == proc[t].file IN
       IF Upsert \/ files[f].live
       THEN \E v \in Written(t, f) :
              /\ v <= MaxVersion
              /\ files' = [files EXCEPT ![f] = [live |-> TRUE, ver |-> v]]
              /\ Become(t, [proc[t] EXCEPT !.pc = "ensure", !.ver = v])
       ELSE Become(t, Resting) /\ UNCHANGED files
  /\ UNCHANGED <<docs, recent, created, vectors, status, booting, left, history>>

\* create_document_from_file: the file is enqueued again as it is, its document
\* with the scope of the request.
FromFile(t, f) ==
  /\ proc[t] = Resting
  /\ Arrives
  /\ files[f].live
  /\ Become(t, [Request(f, "ensure") EXCEPT !.asks = TRUE])
  /\ UNCHANGED <<storeVars, vectors, status, booting, history>>

\* delete_file: the row first, then the documents of the file.
DeleteFile(t, f) ==
  /\ proc[t] = Resting
  /\ Arrives
  /\ files[f].live
  /\ files' = [files EXCEPT ![f].live = FALSE]
  /\ Become(t, Request(f, "delete_list"))
  /\ overlapped' = IF Quiet(f) THEN overlapped ELSE overlapped \cup {f}
  /\ UNCHANGED <<docs, recent, created, vectors, status, booting, refused, failures>>

\* (mutant of DeleteList) only the newest document is deleted.
DeleteList_NewestOnly(t) ==
  /\ At(t, "delete_list")
  /\ LET found == {NewestDoc(proc[t].file)} \ {NoDoc} IN
       IF found = {} THEN Become(t, Resting)
       ELSE Become(t, [proc[t] EXCEPT !.pc = "delete", !.todo = found])
  /\ UNCHANGED <<storeVars, vectors, status, booting, left, history>>

\* delete_documents_for_platform_file works on one listing of the documents.
DeleteList(t) ==
  /\ At(t, "delete_list")
  /\ LET found == DocsOf(proc[t].file) IN
       IF found = {} THEN Become(t, Resting)
       ELSE Become(t, [proc[t] EXCEPT !.pc = "delete", !.todo = found])
  /\ UNCHANGED <<storeVars, vectors, status, booting, left, history>>

\* The vectors go first; a failure is logged and ignored.
DeleteVectors(t) ==
  /\ At(t, "delete")
  /\ \E d \in proc[t].todo :
       /\ \/ vectors' = [vectors EXCEPT ![d] = NoChunks]
          \/ Failing /\ UNCHANGED vectors
       /\ Become(t, [proc[t] EXCEPT !.pc = "delete_doc", !.id = d, !.todo = @ \ {d}])
  /\ UNCHANGED <<storeVars, status, booting, left, history>>

DeleteDoc(t) ==
  /\ At(t, "delete_doc")
  /\ docs' = [docs EXCEPT ![proc[t].id] = Blank]
  /\ recent' = Without(proc[t].id)
  /\ IF proc[t].todo = {} THEN Become(t, Resting)
     ELSE Become(t, [proc[t] EXCEPT !.pc = "delete", !.id = NoDoc])
  /\ UNCHANGED <<files, created, vectors, status, booting, left, history>>

-----------------------------------------------------------------------------
(***************************************************************************)
(* The sweeps                                                              *)
(***************************************************************************)
\* (mutant of Unfinished) documents left running are not recovered.
Unfinished_PendingOnly ==
  {f \in Files : DocsOf(f) # {} /\ docs[NewestDoc(f)].status = "pending"}

\* recover_pending_platform_file_indexes: the files whose newest document is
\* pending or running.
Unfinished == {f \in Files : DocsOf(f) # {} /\ docs[NewestDoc(f)].status \in {"pending", "running"}}

Recover(p) ==
  /\ Unfinished # {}
  /\ Become(p, [Resting EXCEPT !.pc = "put", !.op = "sweep", !.puts = Unfinished])
  /\ UNCHANGED <<storeVars, vectors, status, left, history>>

\* (mutant of Missing) the test for a known document is inverted.
Missing_Inverted == {f \in Files : files[f].live /\ DocsOf(f) # {}}

\* backfill_missing_platform_file_indexes: the files without any document,
\* with the version they had when they were listed.
Missing == {f \in Files : files[f].live /\ DocsOf(f) = {}}

\* The idle branch of the worker loop: get timed out on an empty queue.
QueueEmpty == \A f \in Files : status[f] # "queued"

IdleRecover(w) ==
  /\ proc[w] = Resting /\ QueueEmpty
  /\ Recover(w)
  /\ UNCHANGED booting

Backfill(w) ==
  /\ proc[w] = Resting /\ QueueEmpty
  /\ LET versions == {<<f, files[f].ver>> : f \in Missing} IN
       \E n \in versions : Become(w, Sweep(versions, n))
  /\ UNCHANGED <<storeVars, vectors, status, booting, left, history>>

\* start_index_worker recovers once from the thread that boots the app.
BootRecover(t) ==
  /\ booting /\ proc[t] = Resting
  /\ booting' = FALSE
  /\ IF Unfinished = {} THEN UNCHANGED <<storeVars, vectors, status, proc, left, history>>
     ELSE Recover(t)

-----------------------------------------------------------------------------
(***************************************************************************)
(* The worker: process_platform_file_index and the loop around it          *)
(***************************************************************************)
Get(w) ==
  /\ proc[w] = Resting
  /\ \E f \in Files :
       /\ Queue!Take(w, f)
       /\ Become(w, [Resting EXCEPT !.pc = "get_file", !.op = "index", !.file = f])
  /\ UNCHANGED <<storeVars, vectors, booting, left, history>>

GetFile(w) ==
  /\ At(w, "get_file")
  /\ IF files[proc[w].file].live
     THEN Become(w, [proc[w] EXCEPT !.pc = "ensure", !.ver = files[proc[w].file].ver])
     ELSE Finish(w)
  /\ UNCHANGED <<storeVars, vectors, status, booting, left, history>>

\* index_platform_file_document: one more attempt, on the copy ensure returned.
MarkRunning(w) ==
  /\ At(w, "running")
  /\ LET n == proc[w].doc.attempts
         rec == [proc[w].doc EXCEPT !.status = "running",
                                    !.attempts = IF n < MaxAttempts THEN n + 1 ELSE n] IN
       /\ SaveDoc(proc[w].id, rec)
       /\ Become(w, [proc[w] EXCEPT !.pc = "clear", !.doc = rec])
  /\ UNCHANGED <<files, created, vectors, status, booting, left, history>>

\* Extraction and embedding succeed and the old chunks are deleted ...
ClearVectors(w) ==
  /\ At(w, "clear")
  /\ vectors' = [vectors EXCEPT ![proc[w].id] = NoChunks]
  /\ Goto(w, IF proc[w].file \in Vectorless THEN "complete" ELSE "upsert")
  /\ UNCHANGED <<storeVars, status, booting, left, history>>

\* ... and the new ones written, if there are any.
UpsertVectors(w) ==
  /\ At(w, "upsert")
  /\ vectors' = [vectors EXCEPT ![proc[w].id] = Chunks(proc[w].doc)]
  /\ Goto(w, "complete")
  /\ UNCHANGED <<storeVars, status, booting, left, history>>

Complete(w) ==
  /\ At(w, "complete")
  /\ SaveDoc(proc[w].id, [proc[w].doc EXCEPT !.status = "completed"])
  /\ Finish(w)
  /\ UNCHANGED <<files, created, vectors, status, booting, left, history>>

\* (mutant of IndexingFails) a refused upsert is taken for an empty one.
IndexingFails_Ignored(w) ==
  /\ Failing
  /\ proc[w].pc \in {"clear", "upsert"}
  /\ Goto(w, "complete")
  /\ UNCHANGED <<storeVars, vectors, status, booting, left, history>>

\* Extraction, embedding or Qdrant raised; a lost reply leaves the chunks.
IndexingFails(w) ==
  /\ Failing
  /\ \/ proc[w].pc \in {"clear", "upsert"} /\ UNCHANGED vectors
     \/ At(w, "upsert") /\ vectors' = [vectors EXCEPT ![proc[w].id] = Chunks(proc[w].doc)]
  /\ Goto(w, "fail")
  /\ UNCHANGED <<storeVars, status, booting, left, history>>

SaveFailed(w) ==
  /\ At(w, "fail")
  /\ LET rec == [proc[w].doc EXCEPT !.status = "failed"]
         f == proc[w].file IN
       /\ SaveDoc(proc[w].id, rec)
       /\ Become(w, [proc[w] EXCEPT !.pc = "decide", !.doc = rec])
       /\ failures' = [failures EXCEPT ![f] = IF @ < MaxAttempts THEN @ + 1 ELSE @]
  /\ UNCHANGED <<files, created, vectors, status, booting, left, refused, overlapped>>

\* (mutants of Retry and GiveUp) no limit; one attempt less.
Retry_NoLimit(w) ==
  /\ At(w, "decide")
  /\ Queue!Requeue(w, proc[w].file)
  /\ Become(w, Resting)
  /\ UNCHANGED <<storeVars, vectors, booting, left, history>>
GiveUp_Early(w) ==
  /\ At(w, "decide")
  /\ proc[w].doc.attempts >= MaxAttempts - 1
  /\ Finish(w)
  /\ UNCHANGED <<storeVars, vectors, status, booting, left, history>>

\* Every failure written by the indexing is retryable: below the limit the
\* id goes back to the queue, its marker kept.
Retry(w) ==
  /\ At(w, "decide")
  /\ proc[w].doc.attempts < MaxAttempts
  /\ Queue!Requeue(w, proc[w].file)
  /\ Become(w, Resting)
  /\ UNCHANGED <<storeVars, vectors, booting, left, history>>

GiveUp(w) ==
  /\ At(w, "decide")
  /\ proc[w].doc.attempts >= MaxAttempts
  /\ Finish(w)
  /\ UNCHANGED <<storeVars, vectors, status, booting, left, history>>

Release(w) ==
  /\ At(w, "release")
  /\ Queue!Release(w, proc[w].file)
  /\ Become(w, Resting)
  /\ UNCHANGED <<storeVars, vectors, booting, left, history>>

-----------------------------------------------------------------------------
(***************************************************************************)
(* Failures of the environment                                             *)
(***************************************************************************)
\* A store call raises.  The worker logs it and releases the id - in a sweep
\* it ignores it; a handler answers 500.
StoreFails(p) ==
  /\ Spends("outages")
  /\ proc[p].pc \in {"write_file", "ensure", "save", "created", "mark", "mark_save",
                     "delete_list", "delete_doc", "get_file", "running", "fail"}
  /\ IF proc[p].op = "index" THEN Finish(p) ELSE Become(p, Resting)
  /\ UNCHANGED <<storeVars, vectors, status, booting, history>>

\* A failing update_document of the completed document is inside the try: it
\* is handled like a failed indexing.
CompleteFails(w) ==
  /\ Spends("outages")
  /\ At(w, "complete")
  /\ Goto(w, "fail")
  /\ UNCHANGED <<storeVars, vectors, status, booting, history>>

\* The process dies: threads and the in-memory queue are gone, the store and
\* Qdrant stay; the app boots again.
Crash ==
  /\ Spends("crashes")
  /\ proc' = [p \in Procs |-> Resting]
  /\ Queue!Forget
  /\ booting' = TRUE
  /\ UNCHANGED <<storeVars, vectors, history>>

-----------------------------------------------------------------------------
HandlerStep(t) ==
  WriteFile(t) \/ Ensure(t) \/ MarkRead(t) \/ MarkSave(t) \/ Put(t)
  \/ DeleteList(t) \/ DeleteVectors(t) \/ DeleteDoc(t)

WorkerStep(w) ==
  \/ Get(w) \/ GetFile(w) \/ Ensure(w) \/ MarkRunning(w) \/ ClearVectors(w)
  \/ UpsertVectors(w) \/ Complete(w) \/ IndexingFails(w) \/ SaveFailed(w)
  \/ Retry(w) \/ GiveUp(w) \/ Release(w) \/ Put(w)

Next ==
  \/ \E t \in Threads, f \in Files :
       CreateFile(t, f) \/ ImportFile(t, f)
       \/ Upload(t, f) \/ UpdateFile(t, f) \/ FromFile(t, f) \/ DeleteFile(t, f)
  \/ \E t \in Threads : HandlerStep(t) \/ BootRecover(t)
  \/ \E w \in Workers : WorkerStep(w) \/ IdleRecover(w) \/ Backfill(w)
  \/ \E p \in Procs : StoreFails(p)
  \/ \E w \in Workers : CompleteFails(w)
  \/ Crash

(***************************************************************************)
(* Fairness: a running thread keeps running; the idle worker runs each of  *)
(* its sweeps again and again (every 20 s and 30 s), which is strong       *)
(* fairness because the other sweep or an item may come first.  Requests,  *)
(* failures and crashes are never bound to happen.                         *)
(***************************************************************************)
Spec == Init /\ [][Next]_vars
FairSpec ==
  /\ Spec
  /\ \A t \in Threads : WF_vars(HandlerStep(t))
  /\ \A w \in Workers :
       WF_vars(WorkerStep(w)) /\ SF_vars(IdleRecover(w)) /\ SF_vars(Backfill(w))
-----------------------------------------------------------------------------
(***************************************************************************)
(* Properties                                                              *)
(***************************************************************************)
\* No crash and no failed store call so far.
Undisturbed == left.crashes = MaxCrashes /\ left.outages = MaxOutages

Settled(f) == docs[NewestDoc(f)].status \in {"completed", "failed"}

\* A completed document that is its file's newest has its chunks in Qdrant, with
\* the title, scope and tags that it has itself - unless the file was
\* deleted while it was being worked on (update_platform_file may then bring the
\* row back).
CompletedIsSearchable ==
  \A f \in Files :
    Quiet(f) /\ files[f].live /\ DocsOf(f) # {} /\ f \notin overlapped =>
      LET d == NewestDoc(f) IN
      docs[d].status = "completed" => vectors[d] = Chunks(docs[d])

\* A document has the title and scope of version v of its file, and its tags
\* among others: those of older versions stay.
Carries(doc, v) == doc.ver = v /\ v \in doc.tags

\* Once nothing is going on for a file, what is indexed carries its current
\* version - unless an update came while a worker had the file: its put is
\* then refused, and the worker's older copy is written over it.  A handler cut
\* off between its write and its put leaves the older version indexed as well.
\* A tag that was removed from the file stays: see README, section 6.
FreshUnlessRefused ==
  \A f \in Files :
    Undisturbed /\ Quiet(f) /\ files[f].live /\ DocsOf(f) # {} /\ f \notin refused \cup overlapped =>
      LET d == NewestDoc(f) IN
      docs[d].status = "completed" => Carries(docs[d], files[f].ver)

\* What rests as completed answers searches with the title, the scope and all
\* the tags that the file has now, though perhaps with tags it had before.
CompletedIsCurrent == TypeOK /\ CompletedIsSearchable /\ FreshUnlessRefused

\* A deletion that overlapped with no other work, and was not cut off, leaves
\* no document behind.
DeleteLeavesNothing ==
  \A f \in Files :
    Undisturbed /\ files[f].ver > 0 /\ ~files[f].live /\ Quiet(f) /\ f \notin overlapped =>
      DocsOf(f) = {}

\* A failed indexing goes back to the queue (Retry) until its attempts are used
\* up: only then does a file rest on a failed document.  After a crash or a
\* failed store call it may rest earlier, the retry is lost with the queue; so
\* may a file that was deleted while other work on it went on.
FailedIsExhausted ==
  \A f \in Files :
    Undisturbed /\ Quiet(f) /\ files[f].live /\ DocsOf(f) # {} /\ f \notin overlapped =>
      LET d == NewestDoc(f) IN
      docs[d].status = "failed" => docs[d].attempts = MaxAttempts

\* What a document rests as is so, whichever call of its indexing failed:
\* completed with its chunks, or failed with its attempts used up.
OutcomeIsTrue == CompletedIsSearchable /\ FailedIsExhausted

\* A failed indexing is tried 3 times before the file is left alone.
\* It does not hold across a restart: see README, section 6.
RetryableFailureRetried ==
  \A f \in Files :
    Quiet(f) /\ files[f].live /\ DocsOf(f) # {} /\ docs[NewestDoc(f)].status = "failed" =>
      failures[f] >= MaxAttempts

\* Every id that is accepted leaves the queue again: retries are bounded.
FlightEnds == \A f \in Files : InFlight(f) ~> ~InFlight(f)

\* A file whose document is pending or running is settled in the end, across
\* crashes and failed store calls (the recovery sweep).
BacklogDrains ==
  \A f \in Files :
    (DocsOf(f) # {} /\ ~Settled(f)) ~> (~files[f].live \/ (DocsOf(f) # {} /\ Settled(f)))

\* A file without a document gets one (the backfill sweep).
BackfillCovers ==
  \A f \in Files : files[f].live ~> (DocsOf(f) # {} \/ ~files[f].live)

\* Whatever is to be indexed is settled in the end: what entered the queue, the
\* backlog of an earlier process, and files that never got a document.
WorkSettles == FlightEnds /\ BacklogDrains /\ BackfillCovers
=============================================================================
