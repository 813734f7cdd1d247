--------------------------- MODULE PostgresStore ---------------------------
(***************************************************************************)
(* PostgresStore: the operations of WorkspaceStore on tables of (id,       *)
(* payload) rows.  Most of them read in one transaction, compute a row and *)
(* upsert it in another, so that calls of other threads commit in between; *)
(* the reads of an operation are one step here.  Deletions and messages    *)
(* are one transaction each.  init_schema creates the link table with the  *)
(* columns id, payload and updated_at only, while two of the deletions     *)
(* name the columns document_id and knowledge_base_id, which a database of *)
(* an older version may have and which no insert of this code fills.       *)
(***************************************************************************)
EXTENDS TablesPromise

CONSTANTS
  Threads,      \* threads of the thread pool that serve requests
  MaxRows,      \* rows that may be created
  MaxCalls,     \* operations that may begin
  MaxStarts,    \* starts of the process
  LinkColumns   \* the link table has the columns of the older version

PoolAssumption == IsFiniteSet(Threads) /\ LinkColumns \in BOOLEAN

VARIABLES
  proc,     \* what each thread is about to commit
  boot,     \* start of the process: "down", "links" or "up"
  todo,     \* links the start has still to insert
  starts,   \* starts so far
  calls,    \* operations begun
  \* history
  stale,    \* threads whose reads a commit has overtaken
  ended     \* documents and bases whose deletion was asked for and is over

vars == <<pg, proc, boot, todo, starts, calls, stale, raced, counted, ended>>

Idle == [table |-> "none", id |-> Nothing, row |-> Nothing]
Unknown == 0
Fresh == pg.next <= MaxRows
Ids == 1 .. (MaxRows + 1)

\* seed_if_empty and the migration; the links are inserted one by one.
MigrateAgents(d) ==
  [d EXCEPT !.agents =
     [a \in DOMAIN d.agents |-> [d.agents[a] EXCEPT !.projects = KnownProjects(d, @)]]]
BootTables(d) == MigrateAgents(MigrateDocuments(MigrateCategory(d)))
BootLinks(d) ==
  IF DOMAIN d.links # {} \/ Indexed(d) = {} THEN {} ELSE Indexed(d)

Init ==
  /\ pg = BootTables(Seed)
  /\ proc = [t \in Threads |-> Idle]
  /\ boot = "up"
  /\ todo = {}
  /\ starts = 1
  /\ calls = 0
  /\ stale = {}
  /\ raced = FALSE
  /\ counted = [m \in Ids |-> 0]
  /\ ended = {}

UNCHANGED_BOOT == UNCHANGED <<boot, todo, starts>>

\* A commit of thread t makes the reads of the others old.
Commit(t, new) ==
  /\ pg' = new
  /\ stale' = (stale \cup {u \in Threads \ {t} : proc[u] # Idle}) \ {t}

\* The first transaction of t ends: it holds the row it will upsert.
Hold(t, table, id, row) ==
  /\ boot = "up" /\ proc[t] = Idle /\ calls < MaxCalls
  /\ proc' = [proc EXCEPT ![t] = [table |-> table, id |-> id, row |-> row]]
  /\ calls' = calls + 1
  \* a fresh uuid is drawn before the row is written
  /\ pg' = IF id = pg.next THEN [pg EXCEPT !.next = @ + 1] ELSE pg
  /\ UNCHANGED <<stale, raced, counted, ended>> /\ UNCHANGED_BOOT

\* An operation that is one transaction of t.
AtOnce(t, new) ==
  /\ boot = "up" /\ proc[t] = Idle /\ calls < MaxCalls
  /\ calls' = calls + 1
  /\ Commit(t, new)
  /\ UNCHANGED <<proc, raced>> /\ UNCHANGED_BOOT

\* _upsert_payload, the second transaction: INSERT ... ON CONFLICT DO UPDATE.
Upserted(d, table, id, row) ==
  CASE table = "projects"  -> [d EXCEPT !.projects  = Put(@, id, row)]
    [] table = "agents"    -> [d EXCEPT !.agents    = Put(@, id, row)]
    [] table = "folders"   -> [d EXCEPT !.folders   = Put(@, id, row)]
    [] table = "documents" -> [d EXCEPT !.documents = Put(@, id, row)]
    [] table = "links"     -> [d EXCEPT !.links     = Put(@, id, row)]
    [] table = "sessions"  -> [d EXCEPT !.sessions  = Put(@, id, row)]

UpsertPayload(t) ==
  /\ proc[t] # Idle
  /\ Commit(t, Upserted(pg, proc[t].table, proc[t].id, proc[t].row))
  /\ raced' = (raced \/ t \in stale)
  /\ proc' = [proc EXCEPT ![t] = Idle]
  /\ UNCHANGED <<calls, counted, ended>> /\ UNCHANGED_BOOT
-----------------------------------------------------------------------------
(***************************************************************************)
(* Operations of two transactions                                          *)
(***************************************************************************)
AskedBases == {{}, pg.bases, {Unknown}}
AskedFolders == DOMAIN pg.folders \cup {Nothing, Unknown}

SaveProject(t) ==
  \E asked \in AskedBases, p \in DOMAIN pg.projects \cup {pg.next} :
    /\ p = pg.next => Fresh
    /\ Hold(t, "projects", p, KnownBases(pg, asked))

SaveAgent(t) ==
  \E asked \in AskedBases, projects \in {{}, DOMAIN pg.projects, {Unknown}} :
    Hold(t, "agents", Judite, AgentRow(pg, projects, asked))

NewFolder(t) ==
  \E p \in DOMAIN pg.projects, parent \in AskedFolders :
    /\ Fresh
    /\ Placeable(pg, p, parent)
    /\ Hold(t, "folders", pg.next, FolderRow(pg, p, parent))

Rename(t) ==
  \E f \in DOMAIN pg.folders :
    /\ Placeable(pg, pg.folders[f].project, pg.folders[f].parent)
    /\ Hold(t, "folders", f, RenamedRow(pg, f))

NewDocument(t) ==
  \E f \in AskedFolders, c \in BOOLEAN :
    Fresh /\ Hold(t, "documents", pg.next, [folder |-> f, categorised |-> c, done |-> FALSE])

\* update_document writes the caller's copy, whether the row is there or not.
IndexDocument(t) ==
  \E x \in DOMAIN pg.documents :
    Hold(t, "documents", x, [pg.documents[x] EXCEPT !.done = TRUE])

Link(t) ==
  \E b \in pg.bases, x \in DOMAIN pg.documents :
    LET found == LinksFrom(pg, b) \cap LinksTo(pg, x)
        id    == IF found = {} THEN pg.next ELSE CHOOSE k \in found : TRUE
    IN (found = {} => Fresh) /\ Hold(t, "links", id, [base |-> b, document |-> x])

\* The session of create_chat_session and get_or_create_session is new.
NewSession(t) ==
  \E p \in DOMAIN pg.projects \cup {Unknown}, f \in AskedFolders :
    Fresh /\ Resolvable(pg, p, f) /\ Hold(t, "sessions", pg.next, SessionRow(pg, p, f))

\* upsert_chat_session and move_chat_session.
SaveSession(t) ==
  \E s \in DOMAIN pg.sessions, p \in DOMAIN pg.projects \cup {Unknown}, f \in AskedFolders :
    Resolvable(pg, p, f) /\ Hold(t, "sessions", s, SessionRow(pg, p, f))
-----------------------------------------------------------------------------
(***************************************************************************)
(* Operations of one transaction                                           *)
(***************************************************************************)
Forget == counted' = [m \in Ids |-> IF m \in DOMAIN pg'.messages THEN counted[m] ELSE 0]

RemoveFolder(t) ==
  \E f \in DOMAIN pg.folders :
    AtOnce(t, DeleteFolder(pg, f)) /\ Forget /\ UNCHANGED ended

RemoveSession(t) ==
  \E s \in DOMAIN pg.sessions :
    AtOnce(t, DeleteSession(pg, s)) /\ Forget /\ UNCHANGED ended

\* The row of the link is found by base and document, and deleted by id.
Unlink(t) ==
  \E b \in pg.bases, x \in DOMAIN pg.documents :
    AtOnce(t, RemoveLink(pg, b, x)) /\ UNCHANGED <<counted, ended>>

\* A document or a base with the links to it.  Without the columns the second
\* DELETE is an error and the transaction rolls back; with them it matches no
\* row this code inserted.
RemoveLinked(t, x, new) ==
  /\ AtOnce(t, IF LinkColumns THEN new ELSE pg)
  /\ ended' = ended \cup {x}
  /\ UNCHANGED counted

RemoveDocument(t) ==
  \E x \in DOMAIN pg.documents :
    RemoveLinked(t, x, [pg EXCEPT !.documents = Without(@, {x})])

RemoveBase(t) ==
  \E b \in pg.bases :
    RemoveLinked(t, b, [DeleteBase(pg, b) EXCEPT !.links = pg.links])

Say(t) ==
  \E s \in DOMAIN pg.sessions :
    /\ Fresh
    /\ AtOnce(t, AddMessage([pg EXCEPT !.next = @ + 1], pg.next, s))
    /\ UNCHANGED <<counted, ended>>

\* (mutant of Inserted) counts every message of the batch.
Inserted_All(M) == M

\* The rows INSERT ... ON CONFLICT DO NOTHING RETURNING id returned.
Inserted(M) == M \ DOMAIN pg.messages

\* No uuid drawn later is one of an import.
Passed(d) == [d EXCEPT !.next = IF @ <= MaxRows + 1 THEN MaxRows + 2 ELSE @]

\* add_messages for a batch whose ids another import may bring as well.
ImportMessages(t) ==
  \E s \in DOMAIN pg.sessions, M \in SUBSET Ids :
    /\ M # {} /\ Cardinality(M) <= 2
    /\ M \cap (1 .. (pg.next - 1)) \subseteq DOMAIN pg.messages
    /\ AtOnce(t, AddMessages(Passed(pg), M, s))
    /\ counted' = [m \in Ids |-> counted[m] + (IF m \in Inserted(M) THEN 1 ELSE 0)]
    /\ UNCHANGED ended
-----------------------------------------------------------------------------
(***************************************************************************)
(* The process                                                             *)
(***************************************************************************)
Kill ==
  /\ boot # "down"
  /\ boot' = "down"
  /\ proc' = [t \in Threads |-> Idle]
  /\ todo' = {}
  /\ stale' = {}
  /\ UNCHANGED <<pg, starts, calls, raced, counted, ended>>

Start ==
  /\ boot = "down" /\ starts < MaxStarts
  /\ starts' = starts + 1
  /\ boot' = "links"
  /\ pg' = BootTables(pg)
  /\ todo' = BootLinks(pg')
  /\ UNCHANGED <<proc, calls, stale, raced, counted, ended>>

\* _migrate_default_knowledge_base_links counts once, then upserts row by row.
InsertLink ==
  /\ boot = "links" /\ todo # {}
  /\ \E x \in todo :
       /\ todo' = todo \ {x}
       /\ pg' = [pg EXCEPT !.links = Put(@, pg.next, [base |-> DefaultBase, document |-> x]),
                           !.bases = @ \cup {DefaultBase},
                           !.next = @ + 1]
  /\ UNCHANGED <<proc, boot, starts, calls, stale, raced, counted, ended>>

Serve ==
  /\ boot = "links" /\ todo = {}
  /\ boot' = "up"
  /\ UNCHANGED <<pg, proc, todo, starts, calls, stale, raced, counted, ended>>

Call(t) ==
  \/ SaveProject(t) \/ SaveAgent(t) \/ NewFolder(t) \/ Rename(t)
  \/ NewDocument(t) \/ IndexDocument(t) \/ Link(t) \/ NewSession(t) \/ SaveSession(t)
  \/ RemoveFolder(t) \/ RemoveSession(t) \/ Unlink(t) \/ RemoveDocument(t) \/ RemoveBase(t)
  \/ Say(t) \/ ImportMessages(t)
  \/ UpsertPayload(t)

Next == Kill \/ Start \/ InsertLink \/ Serve \/ \E t \in Threads : Call(t)

Spec == Init /\ [][Next]_vars
-----------------------------------------------------------------------------
\* postgres_store.py: "Delecao da base + vinculos ... na MESMA transacao, para
\* que a cascata seja atomica": what was deleted is gone with its links.
DeletionCascades ==
  \A x \in ended :
    /\ x \notin DOMAIN pg.documents \cup pg.bases
    /\ LinksTo(pg, x) \cup LinksFrom(pg, x) = {}
=============================================================================
