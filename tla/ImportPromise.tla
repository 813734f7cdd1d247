--------------------------- MODULE ImportPromise ---------------------------
(***************************************************************************)
(* What an import of ChatGPT exports is for: the part of the state of      *)
(* ImportPipeline that tells what became of a job and of what it brought   *)
(* in, and what is promised of it.                                         *)
(***************************************************************************)
EXTENDS Naturals, FiniteSets

CONSTANTS
  Jobs,         \* import job ids
  Corrupt,      \* an item that json.loads refuses: skipped before it is counted
  Odd           \* an item that conversation_to_session refuses

VARIABLES
  request,      \* request[j]: the request that creates job j
  archive,      \* archive[j]: the export on disk, and its image's rows
  job,          \* job[j]: the row of the job
  sessions,     \* imported chat sessions in the store
  messages,     \* messages in the store, a function to their image state
  status,       \* the queue: DedupQueue's place of every job
  recovering,   \* what recover_pending_import_jobs has yet to do
  struck,       \* history: jobs broken off: a store call raised, or the process
                \* died while a job taken from Redis was at work
  removed,      \* history: conversations whose session the user deleted
  stale         \* history: jobs the recovery treated by an outdated list

ExportOf(j) == archive[request[j].path].export
Sound(item) == item \notin {Corrupt, Odd}
ConvItems(j) == {n \in DOMAIN ExportOf(j).items : Sound(ExportOf(j).items[n])}

\* The items of a job that are not in the store with all their messages.
Missing(j) ==
  {n \in DOMAIN ExportOf(j).items :
     LET i == ExportOf(j).items[n]
     IN \/ i = Odd
        \/ /\ Sound(i) /\ i.conv \notin removed
           /\ \/ i.conv \notin sessions
              \/ \E m \in i.msgs : <<i.conv, m>> \notin DOMAIN messages}

\* What the rows of the jobs claim to have created, by their summaries.
Claimed(field) == UNION {{j} \X (1 .. job[j].summary[field]) : j \in Jobs}
-----------------------------------------------------------------------------
\* A completed job leaves no conversation behind: each one of its export is in
\* the store with all its messages, unless the user deleted it or the summary
\* counts an error for it.
CompletedIsAccounted ==
  \A j \in Jobs : job[j].status = "completed" =>
    Cardinality(Missing(j)) <= job[j].summary.errors

\* Importing the same conversations again, by another job or after a restart,
\* creates nothing twice: the summaries never claim more sessions and messages
\* than there are.
NothingCountedTwice ==
  removed = {} =>
    /\ Cardinality(Claimed("sessions")) <= Cardinality(sessions)
    /\ Cardinality(Claimed("imported")) <= Cardinality(DOMAIN messages)

\* A job that completed without errors over an archive whose image has a row
\* leaves no broken link, though an earlier import may have left one.
ImagesRelinked ==
  \A j \in Jobs :
    /\ job[j].status = "completed" /\ ExportOf(j).zip /\ job[j].summary.errors = 0
    => \A n \in ConvItems(j) :
         LET i == ExportOf(j).items[n]
         IN \A m \in i.msgs : <<i.conv, m>> \in DOMAIN messages =>
              messages[<<i.conv, m>>] # "broken"

\* No job is forgotten: one that has not ended is in the queue, with the
\* worker, with its request or with the recovery, unless it was broken off or
\* the recovery had an outdated list.
NeverForgotten ==
  \A j \in Jobs : job[j].status \in {"pending", "running"} =>
    \/ status[j] # "free"
    \/ request[j].pc = "put"
    \/ \E n \in DOMAIN recovering : recovering[n].job = j \/ recovering[n].pc = "list"
    \/ j \in struck \cup stale

\* What the jobs report of an import is what is in the store, and every job is
\* still in somebody's hands.
ImportsAccounted ==
  CompletedIsAccounted /\ NothingCountedTwice /\ ImagesRelinked /\ NeverForgotten
=============================================================================
