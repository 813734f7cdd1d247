----------------------------- MODULE JsonStore -----------------------------
(***************************************************************************)
(* DevStore: the operations of WorkspaceStore on tables in memory, each    *)
(* under the lock of the store and each followed by a rewrite of the whole *)
(* file.  The rewrite truncates the file first: a process that dies in it, *)
(* or a disk that is full, leaves a text that is no JSON, and the next     *)
(* start of the process seeds the store anew over it.                      *)
(***************************************************************************)
EXTENDS WorkspaceStore

CONSTANTS
  MaxRows,   \* rows that may be created
  MaxTorn,   \* rewrites that may fail
  MaxStarts  \* starts of the process

ASSUME BoundsAssumption == MaxRows \in Nat /\ MaxTorn \in Nat /\ MaxStarts \in Nat

VARIABLES
  db,     \* the tables in memory
  disk,   \* the tables the file holds, or Torn
  up,     \* the process runs
  torn,   \* rewrites that failed
  starts  \* starts so far

vars == <<db, disk, up, torn, starts>>

Torn == Nothing
Unknown == 0   \* an id no row has
Fresh == db.next <= MaxRows

\* _load_or_seed, _ensure_seed_models and the migration, for a file or none.
Loaded(file) == Migrate(IF file = Torn THEN Seed ELSE file)

Init ==
  /\ db = Loaded(Torn)
  /\ disk = db
  /\ up = TRUE
  /\ torn = 0
  /\ starts = 1

\* _write, last in every operation: the file follows, or the call raises after
\* the tables changed, or the process dies there.
Write(new) ==
  /\ up
  /\ db' = new
  /\ \/ disk' = new /\ UNCHANGED <<up, torn>>
     \/ /\ torn < MaxTorn
        /\ torn' = torn + 1
        /\ disk' = Torn
        /\ up' \in BOOLEAN
  /\ UNCHANGED starts

\* What a caller may ask for: rows that exist and one that does not.
AskedBases == {{}, db.bases} \cup {{b, Unknown} : b \in db.bases}
AskedProjects == DOMAIN db.projects \cup {Unknown}
AskedFolders == DOMAIN db.folders \cup {Nothing, Unknown}

Projects ==
  \E asked \in AskedBases :
    \/ Fresh /\ Write(CreateProject(db, asked))
    \/ \E p \in DOMAIN db.projects : Write(UpdateProject(db, p, asked))

Agents ==
  \E asked \in AskedBases, projects \in {{}, DOMAIN db.projects, {Unknown}} :
    \/ Fresh /\ Write(CreateAgent(db, projects, asked))
    \/ \E a \in DOMAIN db.agents : Write(UpdateAgent(db, a, projects, asked))

NewFolder ==
  \E p \in AskedProjects, parent \in AskedFolders :
    /\ Fresh
    /\ Placeable(db, p, parent)
    /\ Write(CreateFolder(db, p, parent))

Rename ==
  \E f \in DOMAIN db.folders :
    /\ Placeable(db, db.folders[f].project, db.folders[f].parent)
    /\ Write(RenameFolder(db, f))

RemoveFolder == \E f \in DOMAIN db.folders : Write(DeleteFolder(db, f))

NewDocument ==
  \E f \in AskedFolders, c \in BOOLEAN : Fresh /\ Write(CreateDocument(db, f, c))

\* The indexer writes the row it read before; the document may be gone.
IndexDocument ==
  \E x \in 1 .. (db.next - 1) :
    IF x \in DOMAIN db.documents
    THEN Write(UpdateDocument(db, x, [db.documents[x] EXCEPT !.done = TRUE]))
    ELSE Write(UpdateDocument(db, x, [folder |-> Nothing, categorised |-> FALSE, done |-> TRUE]))

RemoveDocument == \E x \in DOMAIN db.documents : Write(DeleteDocument(db, x))

NewBase == Fresh /\ Write(CreateBase(db))
RemoveBase == \E b \in db.bases : Write(DeleteBase(db, b))
Link == \E b \in db.bases, x \in DOMAIN db.documents : Fresh /\ Write(AddLink(db, b, x))
Unlink == \E b \in db.bases, x \in DOMAIN db.documents : Write(RemoveLink(db, b, x))

NewSession ==
  \E p \in AskedProjects, f \in AskedFolders :
    Fresh /\ Resolvable(db, p, f) /\ Write(CreateSession(db, p, f))

\* A caller with its own copy of a session, which may have been deleted.
SaveSession ==
  \E s \in 1 .. (db.next - 1), p \in AskedProjects, f \in AskedFolders :
    /\ s \notin DOMAIN db.projects \cup DOMAIN db.folders \cup DOMAIN db.documents
    /\ Resolvable(db, p, f)
    /\ Write(UpsertSession(db, s, p, f))

Move ==
  \E s \in DOMAIN db.sessions, p \in AskedProjects, f \in AskedFolders :
    Resolvable(db, p, f) /\ Write(MoveSession(db, s, p, f))

RemoveSession == \E s \in DOMAIN db.sessions : Write(DeleteSession(db, s))

Say == \E s \in DOMAIN db.sessions : Fresh /\ Write(AddMessage([db EXCEPT !.next = @ + 1], db.next, s))

Kill == up /\ up' = FALSE /\ UNCHANGED <<db, disk, torn, starts>>

Start ==
  /\ ~up
  /\ starts < MaxStarts
  /\ starts' = starts + 1
  /\ up' = TRUE
  /\ db' = Loaded(disk)
  /\ disk' = db'
  /\ UNCHANGED torn

Restart == Kill \/ Start

\* Two halves that meet in the projects and in the folder of a document.
TreeNext ==
  \/ Projects
  \/ NewFolder \/ Rename \/ RemoveFolder
  \/ NewSession \/ SaveSession \/ Move \/ RemoveSession \/ Say
  \/ Restart

ScopeNext ==
  \/ Projects \/ Agents
  \/ NewDocument \/ IndexDocument \/ RemoveDocument
  \/ NewBase \/ RemoveBase \/ Link \/ Unlink
  \/ Restart

Next == TreeNext \/ ScopeNext

Spec == Init /\ [][Next]_vars
-----------------------------------------------------------------------------
\* Every folder hangs, through parents of its project, from a root, at the
\* depth its row says and no deeper than _build_folder_path allows.
FolderTree == FoldersRooted(db)

\* A session is in a project that exists and in no folder of another one:
\* deleting a folder took the sessions of the whole subtree, and a session
\* saved or moved later was resolved again.
SessionsInPlace == SessionsFiled(db)

\* A knowledge base holds each document once, and none that was deleted.
LinksHold == LinksResolve(db)

\* What a project or an agent may consult exists, and an agent always has a
\* project.
ScopesHold == ScopesResolve(db)

\* The migration of a migrated store adds nothing, so that a restart loop cannot
\* multiply folders or links.  The first start after a change may add some.
MigrationSettles == Migrate(Migrate(db)) = Migrate(db)

\* Folders, sessions, links and scopes refer to what exists and may be referred
\* to, and two starts in a row are as one.  The other references are not kept by
\* the code: a document keeps the folder that was deleted, a session its context.
ReferencesHold == FolderTree /\ SessionsInPlace /\ LinksHold /\ ScopesHold /\ MigrationSettles

\* A start loses nothing but a torn file: every row that was in the file is in
\* the tables, and a link that a user made is not replaced.
StartKeepsRows ==
  [][~up /\ up' /\ disk # Torn =>
       /\ DOMAIN disk.folders \subseteq DOMAIN db'.folders
       /\ DOMAIN disk.documents = DOMAIN db'.documents
       /\ disk.sessions = db'.sessions /\ disk.messages = db'.messages
       /\ \A k \in DOMAIN disk.links : k \in DOMAIN db'.links /\ db'.links[k] = disk.links[k]
       /\ disk.projects = db'.projects /\ disk.agents = db'.agents]_vars
=============================================================================
