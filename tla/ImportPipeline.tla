--------------------------- MODULE ImportPipeline ---------------------------
(***************************************************************************)
(* The import of ChatGPT exports: api/routes/imports.py (the two requests  *)
(* that create a job), workers/import_queue.py (the worker thread and the  *)
(* recovery at start-up), importers/chatgpt_jobs.py (one job) and          *)
(* importers/chatgpt.py (one conversation after the other).                *)
(*                                                                         *)
(* One step is one call to the store or to the queue (DedupQueue).  Ids    *)
(* come from the export (_stable_id), so a session and a message are named *)
(* by the conversation and the message they stand for.  The text of a      *)
(* message matters as far as its image goes: "linked" to a platform file,  *)
(* "broken", or "text" when it has none.                                   *)
(***************************************************************************)
EXTENDS ImportPromise, Sequences, SequencesExt, FiniteSetsExt

CONSTANTS
  Convs,        \* conversations of the exports
  Exports,      \* exports that may be uploaded: [zip, items, whole]
  Images,       \* messages, as <<conversation, id>>, that show an image
  MaxDeletes,   \* bound: sessions the user deletes
  MaxCrashes,   \* bound: process deaths
  MaxOutages,   \* bound: store calls that raise
  Durable,      \* the queue outlives the process (Redis) or not (memory)
  NoJob         \* no job

Worker == "importer"

ImportAssumption ==
  /\ MaxDeletes \in Nat /\ MaxCrashes \in Nat /\ MaxOutages \in Nat
  /\ Durable \in BOOLEAN /\ NoJob \notin Jobs /\ IsFiniteSet(Jobs) /\ Corrupt # Odd
  /\ \A e \in Exports :
       /\ e.zip \in BOOLEAN /\ e.whole \in BOOLEAN
       /\ e.items \in Seq(Range(e.items))
       /\ \A n \in DOMAIN e.items :
            Sound(e.items[n]) => e.items[n].conv \in Convs /\ IsFiniteSet(e.items[n].msgs)

VARIABLES
  importer,     \* the worker thread
  left          \* what remains of the bounds

vars == <<request, archive, job, sessions, messages, status, importer,
          recovering, left, struck, removed, stale>>

Queue == INSTANCE DedupQueue WITH Items <- Jobs, Workers <- {Worker}

NoSummary == [found |-> 0, sessions |-> 0, skipped |-> 0, imported |-> 0, errors |-> 0]
\* The percentage of a job is of what it has processed in this run.
NoRow == [status |-> "none", processed |-> 0, percent |-> 0, summary |-> NoSummary]
Idle == [pc |-> "idle", job |-> NoJob, copy |-> NoRow, at |-> 0, index |-> FALSE,
         sum |-> NoSummary]
Listing == [job |-> NoJob, row |-> NoRow, pc |-> "list"]
NoRequest == [pc |-> "none", path |-> NoJob, registers |-> FALSE]

Ended == {"completed", "failed"}
Spends(what) == left[what] > 0 /\ left' = [left EXCEPT ![what] = @ - 1]

TypeOK ==
  /\ \A j \in Jobs :
       /\ request[j].pc \in {"none", "list", "entries", "save", "put", "done"}
       /\ request[j].path \in Jobs \cup {NoJob}
       /\ job[j].status \in {"none", "pending", "running"} \cup Ended
       /\ job[j].processed \in Nat /\ job[j].percent \in Nat
  /\ sessions \subseteq Convs
  /\ \A m \in DOMAIN messages : messages[m] \in {"text", "broken", "linked"}
  /\ Queue!TypeOK
  /\ importer.job \in Jobs \cup {NoJob}

Init ==
  /\ request = [j \in Jobs |-> NoRequest]
  /\ archive = <<>>
  /\ job = [j \in Jobs |-> NoRow]
  /\ sessions = {} /\ messages = <<>>
  /\ Queue!Init
  /\ importer = Idle
  /\ recovering = <<>>
  /\ left = [deletes |-> MaxDeletes, crashes |-> MaxCrashes, outages |-> MaxOutages]
  /\ struck = {} /\ removed = {} /\ stale = {}

-----------------------------------------------------------------------------
(***************************************************************************)
(* The requests                                                            *)
(***************************************************************************)
\* import_chatgpt: the file is on disk, in a directory of the job, and has its
\* row, its document and its place in the index queue (IndexPipeline).
Upload(j, e) ==
  /\ request[j].pc = "none"
  /\ request' = [request EXCEPT ![j] = [pc |-> IF e.zip THEN "list" ELSE "save",
                                        path |-> j, registers |-> FALSE]]
  /\ archive' = [a \in DOMAIN archive \cup {j} |->
                   IF a = j THEN [export |-> e, rows |-> 0] ELSE archive[a]]
  /\ UNCHANGED <<job, sessions, messages, status, importer, recovering, left, struck, removed, stale>>

\* import_chatgpt_from_existing_file: another job for a file that is there.
FromFile(j, a) ==
  /\ request[j].pc = "none"
  /\ request' = [request EXCEPT ![j] =
                   [pc |-> IF archive[a].export.zip THEN "list" ELSE "save",
                    path |-> a, registers |-> FALSE]]
  /\ UNCHANGED <<archive, job, sessions, messages, status, importer, recovering, left, struck, removed, stale>>

\* register_zip_entries_as_platform_files: which entries have a row already ...
ListEntries(j) ==
  /\ request[j].pc = "list"
  /\ request' = [request EXCEPT ![j].pc = "entries",
                                ![j].registers = archive[request[j].path].rows = 0]
  /\ UNCHANGED <<archive, job, sessions, messages, status, importer, recovering, left, struck, removed, stale>>

\* ... and a row for each of the others.
CreateEntries(j) ==
  /\ request[j].pc = "entries"
  /\ request' = [request EXCEPT ![j].pc = "save"]
  /\ archive' = [archive EXCEPT ![request[j].path].rows =
                   @ + (IF request[j].registers THEN 1 ELSE 0)]
  /\ UNCHANGED <<job, sessions, messages, status, importer, recovering, left, struck, removed, stale>>

SaveJob(j) ==
  /\ request[j].pc = "save"
  /\ request' = [request EXCEPT ![j].pc = "put"]
  /\ job' = [job EXCEPT ![j] = [NoRow EXCEPT !.status = "pending"]]
  /\ UNCHANGED <<archive, sessions, messages, status, importer, recovering, left, struck, removed, stale>>

\* put is a no-op for a job in flight.
Put(j) == IF status[j] = "free" THEN Queue!Enqueue(j) ELSE UNCHANGED status

\* enqueue_chatgpt_import_job starts the worker thread if it died.
Revived == IF importer.pc = "dead" THEN importer' = Idle ELSE UNCHANGED importer

Enqueue(j) ==
  /\ request[j].pc = "put"
  /\ request' = [request EXCEPT ![j].pc = "done"]
  /\ Put(j) /\ Revived
  /\ UNCHANGED <<archive, job, sessions, messages, recovering, left, struck, removed, stale>>

\* A store call of the request raises: the client sees an error.
RequestFails(j) ==
  /\ request[j].pc \in {"list", "entries", "save"}
  /\ Spends("outages")
  /\ request' = [request EXCEPT ![j].pc = "done"]
  /\ UNCHANGED <<archive, job, sessions, messages, status, importer, recovering, struck, removed, stale>>

\* The user deletes an imported session and its messages.
DeleteSession(c) ==
  /\ c \in sessions
  /\ Spends("deletes")
  /\ sessions' = sessions \ {c}
  /\ messages' = [m \in {m \in DOMAIN messages : m[1] # c} |-> messages[m]]
  /\ removed' = removed \cup {c}
  /\ UNCHANGED <<request, archive, job, status, importer, recovering, struck, stale>>

-----------------------------------------------------------------------------
(***************************************************************************)
(* The worker: process_chatgpt_import_job                                  *)
(***************************************************************************)
Is(pc) == importer.pc = pc
Current == importer.job
Items == ExportOf(Current).items
Item == Items[importer.at]
Goto(pc) == importer' = [importer EXCEPT !.pc = pc]
OnlyWorker == UNCHANGED <<request, archive, job, sessions, messages, status,
                          recovering, left, struck, removed, stale>>

Take(j) ==
  /\ Is("idle")
  /\ Queue!Take(Worker, j)
  /\ importer' = [Idle EXCEPT !.pc = "read", !.job = j]
  /\ UNCHANGED <<request, archive, job, sessions, messages, recovering, left, struck, removed, stale>>

ReadJob ==
  /\ Is("read")
  /\ importer' = IF job[Current].status = "none" THEN [importer EXCEPT !.pc = "release"]
                 ELSE [importer EXCEPT !.pc = "start", !.copy = job[Current]]
  /\ OnlyWorker

\* The row is written back from a copy.
SaveRow(row) == job' = [job EXCEPT ![Current] = row]
WorkerSaves == UNCHANGED <<request, archive, sessions, messages, status,
                           recovering, left, struck, removed, stale>>

MarkRunning ==
  /\ Is("start")
  /\ SaveRow([importer.copy EXCEPT !.status = "running", !.percent = 0])
  /\ Goto("index")
  /\ WorkerSaves

\* _build_chatgpt_image_pointer_index: the images that have a row now.
BuildIndex ==
  /\ Is("index")
  /\ importer' = [importer EXCEPT !.pc = "progress", !.at = 1,
                    !.index = \E a \in DOMAIN archive : archive[a].rows > 0]
  /\ OnlyWorker

\* (mutant of ReadProgress) what a restart counts again replaces the count.
ReadProgress_Overwrites ==
  /\ Is("progress")
  /\ LET row == job[Current]
     IN importer' =
          IF row.status # "running" THEN [importer EXCEPT !.pc = "item"]
          ELSE [importer EXCEPT !.pc = "save progress",
                  !.copy = [row EXCEPT !.processed = importer.at, !.percent = importer.at]]
  /\ OnlyWorker

\* update_progress, as the next part of the file is read: nothing is written
\* for a job that is no longer running.
ReadProgress ==
  /\ Is("progress")
  /\ LET row == job[Current]
         sofar == Max({row.processed, importer.at})
     IN importer' =
          IF row.status # "running" THEN [importer EXCEPT !.pc = "item"]
          ELSE [importer EXCEPT !.pc = "save progress",
                  !.copy = [row EXCEPT !.processed = sofar, !.percent = sofar]]
  /\ OnlyWorker

SaveProgress ==
  /\ Is("save progress")
  /\ SaveRow(importer.copy)
  /\ Goto("item")
  /\ WorkerSaves

NextItem == [importer EXCEPT !.pc = "progress", !.at = @ + 1]

\* The generator: a corrupt object is dropped, one that does not convert is an
\* error of the summary ...
ReadItem ==
  /\ Is("item") /\ importer.at <= Len(Items)
  /\ LET found == [importer.sum EXCEPT !.found = @ + 1]
         wrong == [found EXCEPT !.errors = @ + 1]
     IN importer' = IF Item = Corrupt THEN NextItem
                    ELSE IF Item = Odd THEN [NextItem EXCEPT !.sum = wrong]
                    ELSE [importer EXCEPT !.pc = "session", !.sum = found]
  /\ OnlyWorker

\* (mutant of EndOfFile) a truncated file leaves the job as it is.
EndOfFile_Ignored ==
  /\ Is("item") /\ importer.at > Len(Items)
  /\ Goto(IF ExportOf(Current).whole THEN "read end" ELSE "release")
  /\ OnlyWorker

\* ... and a file that ends before its array does fails the job.
EndOfFile ==
  /\ Is("item") /\ importer.at > Len(Items)
  /\ Goto(IF ExportOf(Current).whole THEN "read end" ELSE "read failed")
  /\ OnlyWorker

\* _session_exists ...
FindSession ==
  /\ Is("session")
  /\ importer' = IF Item.conv \in sessions
                 THEN [importer EXCEPT !.pc = "messages", !.sum.skipped = @ + 1]
                 ELSE [importer EXCEPT !.pc = "new session"]
  /\ OnlyWorker

\* ... and upsert_chat_session.
NewSession ==
  /\ Is("new session")
  /\ sessions' = sessions \cup {Item.conv}
  /\ importer' = [importer EXCEPT !.pc = "messages", !.sum.sessions = @ + 1]
  /\ UNCHANGED <<request, archive, job, messages, status, recovering, left, struck, removed, stale>>

ItemMessages == {<<Item.conv, m>> : m \in Item.msgs}
\* _message_text with the index built at the start of the job.
Text(m) == IF m \notin Images THEN "text" ELSE IF importer.index THEN "linked" ELSE "broken"
\* These messages as they are written now, among the others.
Written(ms) ==
  [m \in DOMAIN messages \cup ms |-> IF m \in ms THEN Text(m) ELSE messages[m]]

\* (mutant of AddMessages) messages that were there count as imported.
AddMessages_CountsAll ==
  /\ Is("messages")
  /\ LET new == ItemMessages \ DOMAIN messages
     IN /\ messages' = Written(new)
        /\ importer' = [importer EXCEPT !.pc = "rewrite",
                          !.sum.imported = @ + Cardinality(ItemMessages)]
  /\ UNCHANGED <<request, archive, job, sessions, status, recovering, left, struck, removed, stale>>

\* store.add_messages: what exists is left alone.
AddMessages ==
  /\ Is("messages")
  /\ LET new == ItemMessages \ DOMAIN messages
     IN /\ messages' = Written(new)
        /\ importer' =
             IF new = ItemMessages THEN [NextItem EXCEPT !.sum.imported = @ + Cardinality(new)]
             ELSE [importer EXCEPT !.pc = "rewrite", !.sum.imported = @ + Cardinality(new)]
  /\ UNCHANGED <<request, archive, job, sessions, status, recovering, left, struck, removed, stale>>

\* (mutant of RewriteImages) an existing message is never written again.
RewriteImages_Skips ==
  /\ Is("rewrite")
  /\ importer' = NextItem
  /\ UNCHANGED <<request, archive, job, sessions, messages, status, recovering, left, struck, removed, stale>>

\* _add_messages: messages with an image are written again, with today's link.
RewriteImages ==
  /\ Is("rewrite")
  /\ messages' = Written(ItemMessages \cap Images)
  /\ importer' = NextItem
  /\ UNCHANGED <<request, archive, job, sessions, status, recovering, left, struck, removed, stale>>

\* get_import_job before the last write, after success or failure.
ReadEnd ==
  /\ importer.pc \in {"read end", "read failed"}
  /\ importer' = [importer EXCEPT !.pc = IF Is("read end") THEN "complete" ELSE "fail",
                    !.copy = job[Current]]
  /\ OnlyWorker

\* The row is completed, ...
Complete ==
  /\ Is("complete")
  /\ LET all == Max({importer.copy.processed, Len(Items)})
     IN SaveRow([status |-> "completed", processed |-> all, percent |-> all, summary |-> importer.sum])
  /\ Goto("audit")
  /\ WorkerSaves

\* ... and record_audit_event, a store call that is still in the try.
Audit ==
  /\ Is("audit")
  /\ Goto("release")
  /\ OnlyWorker

Fail ==
  /\ Is("fail")
  /\ SaveRow([importer.copy EXCEPT !.status = "failed"])
  /\ Goto("release")
  /\ WorkerSaves

\* The finally of _worker_loop; an exception then ends the thread.
Release ==
  /\ importer.pc \in {"release", "release and die"}
  /\ Queue!Release(Worker, Current)
  /\ importer' = IF Is("release") THEN Idle ELSE [Idle EXCEPT !.pc = "dead"]
  /\ UNCHANGED <<request, archive, job, sessions, messages, recovering, left, struck, removed, stale>>

\* (mutant of StoreRaises) a conversation that cannot be stored is skipped.
StoreRaises_Silently ==
  /\ Spends("outages")
  /\ struck' = struck \cup {Current}
  /\ importer.pc \in {"session", "new session", "messages", "rewrite"}
  /\ importer' = NextItem
  /\ UNCHANGED <<request, archive, job, sessions, messages, status, recovering, removed, stale>>

\* A store call raises.  Outside the try, and in the handlers of the try, the
\* exception leaves the thread; in _import_conversation it is one more error;
\* elsewhere in the try the job fails, also when it has been completed.
StoreRaises ==
  /\ Spends("outages")
  /\ struck' = struck \cup {Current}
  /\ importer' =
       CASE importer.pc \in {"read", "start", "read failed", "fail"} ->
              [importer EXCEPT !.pc = "release and die"]
         [] importer.pc \in {"session", "new session", "messages", "rewrite"} ->
              [NextItem EXCEPT !.sum.errors = @ + 1]
         [] OTHER -> [importer EXCEPT !.pc = "read failed"]
  /\ importer.pc \notin {"idle", "dead", "item", "release", "release and die"}
  /\ UNCHANGED <<request, archive, job, sessions, messages, status, recovering, removed, stale>>

-----------------------------------------------------------------------------
(***************************************************************************)
(* Death and start-up                                                      *)
(***************************************************************************)
\* The memory queue dies with the process; in Redis entries and markers stay.
Crash ==
  /\ Spends("crashes")
  /\ IF ~Durable THEN Queue!Forget
     ELSE IF Current = NoJob THEN UNCHANGED status
     ELSE Queue!Abandon(Worker, Current)
  /\ importer' = Idle
  /\ request' = [j \in Jobs |-> IF request[j].pc = "none" THEN NoRequest
                                ELSE [request[j] EXCEPT !.pc = "done"]]
  /\ recovering' = <<Listing>>
  /\ struck' = IF Durable THEN struck \cup ({Current} \ {NoJob}) ELSE struck
  /\ UNCHANGED <<archive, job, sessions, messages, removed, stale>>

Unended(statuses) == {j \in Jobs : job[j].status \in statuses}
Recovery(jobs) ==
  [n \in 1 .. Cardinality(jobs) |->
     LET j == SetToSeq(jobs)[n] IN [job |-> j, row |-> job[j], pc |-> "row"]]

\* (mutant of RecoverList) start-up looks for the jobs that were running.
RecoverList_OnlyRunning ==
  /\ recovering # <<>> /\ Head(recovering).pc = "list"
  /\ recovering' = Recovery(Unended({"running"}))
  /\ UNCHANGED <<request, archive, job, sessions, messages, status, importer, left, struck, removed, stale>>

\* start_import_worker: the thread runs already when the jobs are listed.
RecoverList ==
  /\ recovering # <<>> /\ Head(recovering).pc = "list"
  /\ recovering' = Recovery(Unended({"pending", "running"}))
  /\ UNCHANGED <<request, archive, job, sessions, messages, status, importer, left, struck, removed, stale>>

\* A job that ran is pending again, by the row of the list ...
RecoverRow ==
  /\ recovering # <<>> /\ Head(recovering).pc = "row"
  /\ recovering' = [recovering EXCEPT ![1].pc = "put"]
  /\ LET entry == Head(recovering)
     IN IF entry.row.status = "running"
        THEN /\ job' = [job EXCEPT ![entry.job] = [entry.row EXCEPT !.status = "pending"]]
             /\ stale' = IF job[entry.job] = entry.row THEN stale ELSE stale \cup {entry.job}
        ELSE UNCHANGED <<job, stale>>
  /\ UNCHANGED <<request, archive, sessions, messages, status, importer, left, struck, removed>>

\* ... and every unfinished job is enqueued.
RecoverPut ==
  /\ recovering # <<>> /\ Head(recovering).pc = "put"
  /\ recovering' = Tail(recovering)
  /\ Put(Head(recovering).job) /\ Revived
  /\ stale' = stale \cup ({Head(recovering).job} \ Unended({"pending", "running"}))
  /\ UNCHANGED <<request, archive, job, sessions, messages, left, struck, removed>>

\* The TTL of a marker in Redis.
MarkerExpires(j) ==
  /\ Durable
  /\ Queue!Unreserve(j)
  /\ UNCHANGED <<request, archive, job, sessions, messages, importer, recovering, left, struck, removed, stale>>

-----------------------------------------------------------------------------
Request(j) == ListEntries(j) \/ CreateEntries(j) \/ SaveJob(j) \/ Enqueue(j)

Import == ReadJob \/ MarkRunning \/ BuildIndex \/ ReadProgress \/ SaveProgress
          \/ ReadItem \/ EndOfFile \/ FindSession \/ NewSession \/ AddMessages \/ RewriteImages
          \/ ReadEnd \/ Complete \/ Audit \/ Fail \/ Release

\* (mutant of Recover) a job is enqueued before its row is saved.
Recover_PutsFirst ==
  \/ RecoverList
  \/ /\ recovering # <<>> /\ Head(recovering).pc = "row"
     /\ recovering' = [recovering EXCEPT ![1].pc = "put"]
     /\ Put(Head(recovering).job) /\ Revived
     /\ UNCHANGED <<request, archive, job, sessions, messages, left, struck, removed, stale>>
  \/ /\ recovering # <<>> /\ Head(recovering).pc = "put"
     /\ recovering' = Tail(recovering)
     /\ job' = [job EXCEPT ![Head(recovering).job].status = "pending"]
     /\ UNCHANGED <<request, archive, sessions, messages, status, importer, left, struck, removed, stale>>

Recover == RecoverList \/ RecoverRow \/ RecoverPut

\* Requests are served once start-up is over.
Next ==
  \/ \E j \in Jobs, e \in Exports : recovering = <<>> /\ Upload(j, e)
  \/ \E j \in Jobs : \E a \in DOMAIN archive : recovering = <<>> /\ FromFile(j, a)
  \/ \E j \in Jobs : Request(j) \/ RequestFails(j) \/ Take(j) \/ MarkerExpires(j)
  \/ \E c \in Convs : DeleteSession(c)
  \/ Import \/ StoreRaises \/ Crash \/ Recover

Fairness ==
  /\ \A j \in Jobs : WF_vars(Request(j)) /\ WF_vars(MarkerExpires(j))
  /\ WF_vars(Import \/ \E j \in Jobs : Take(j))
  /\ WF_vars(Recover)

Spec == Init /\ [][Next]_vars /\ Fairness
-----------------------------------------------------------------------------
(***************************************************************************)
(* Properties                                                              *)
(***************************************************************************)
\* The outcome of a job is final, unless the recovery had an outdated list, or
\* the audit event of a completed job could not be stored, which fails it.
EndedIsFinal ==
  [][\A j \in Jobs : job[j].status \in Ended =>
       \/ job'[j].status = job[j].status \/ j \in stale'
       \/ job[j].status = "completed" /\ job'[j].status = "failed" /\ j \in struck]_vars

\* What the user sees as processed never goes back, not even over a restart,
\* and the percentage only to nothing, where the worker starts on the job again;
\* with the same exception of an outdated list.
ProgressNeverFalls ==
  [][\A j \in Jobs :
       \/ /\ job[j].processed <= job'[j].processed
          /\ \/ job[j].percent <= job'[j].percent
             \/ Is("start") /\ Current = j /\ job'[j].percent = 0
       \/ j \in stale']_vars

\* Every job ends, unless it was broken off, the recovery had an outdated list
\* or the exception of another job ended the worker thread, which only the
\* next enqueue restarts.
JobsEnd ==
  \A j \in Jobs :
    job[j].status = "pending" ~>
      (job[j].status \in Ended \/ j \in struck \cup stale \/ importer.pc = "dead")

\* Every job comes to an end, its progress rising to it, and stays there.
JobsSettle == JobsEnd /\ EndedIsFinal /\ ProgressNeverFalls
=============================================================================
