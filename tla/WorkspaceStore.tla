--------------------------- MODULE WorkspaceStore ---------------------------
(***************************************************************************)
(* The rows of the workspace and what each operation of the store makes of *)
(* them, as DevStore does it: one operation at a time on tables in memory. *)
(* A value d of Tables holds the tables whose rows refer to each other;    *)
(* columns that refer to nothing (names, colours, timestamps) are left     *)
(* out, and so are the tables nothing refers to.  JsonStore runs these     *)
(* operations under a lock over a file, PostgresStore in transactions.     *)
(*                                                                         *)
(* Ids are numbers, d.next being the next fresh uuid.                      *)
(***************************************************************************)
EXTENDS Integers, FiniteSets

CONSTANTS
  General,      \* the project that holds what belongs to no project
  DefaultBase,  \* kb_general
  Judite,       \* the seeded agent
  Category,     \* the seeded knowledge category, migrated to a folder
  MaxDepth,     \* deepest folder (5 in the code)
  Nothing       \* None

ASSUME DepthAssumption == MaxDepth \in Nat
ASSUME NothingAssumption == Nothing \notin Nat

Put(f, k, v) == [x \in DOMAIN f \cup {k} |-> IF x = k THEN v ELSE f[x]]
Without(f, S) == [x \in DOMAIN f \ S |-> f[x]]

Seed ==
  [next      |-> 1,
   projects  |-> [p \in {General} |-> {}],
   folders   |-> [f \in {} |-> Nothing],
   bases     |-> {DefaultBase},
   links     |-> [k \in {} |-> Nothing],
   documents |-> [x \in {} |-> Nothing],
   agents    |-> [a \in {Judite} |-> [projects |-> {General}, bases |-> {}]],
   sessions  |-> [s \in {} |-> Nothing],
   messages  |-> [m \in {} |-> Nothing]]
-----------------------------------------------------------------------------
(***************************************************************************)
(* Projects and agents: what they may refer to is filtered on the way in   *)
(***************************************************************************)
KnownBases(d, asked) == asked \cap d.bases
KnownProjects(d, asked) ==
  IF asked \cap DOMAIN d.projects = {} THEN {General} ELSE asked \cap DOMAIN d.projects

\* projects maps a project to the knowledge bases of its context.
CreateProject(d, asked) ==
  [d EXCEPT !.projects = Put(@, d.next, KnownBases(d, asked)), !.next = @ + 1]

\* An update of a project the table does not hold creates it.
UpdateProject(d, p, asked) == [d EXCEPT !.projects = Put(@, p, KnownBases(d, asked))]

AgentRow(d, projects, bases) ==
  [projects |-> KnownProjects(d, projects), bases |-> KnownBases(d, bases)]
CreateAgent(d, projects, bases) ==
  [d EXCEPT !.agents = Put(@, d.next, AgentRow(d, projects, bases)), !.next = @ + 1]
UpdateAgent(d, a, projects, bases) ==
  [d EXCEPT !.agents = Put(@, a, AgentRow(d, projects, bases))]
-----------------------------------------------------------------------------
(***************************************************************************)
(* Folders                                                                 *)
(***************************************************************************)
\* _build_folder_path raises unless the parent is in the project and not too deep.
Placeable(d, p, parent) ==
  \/ parent = Nothing
  \/ /\ parent \in DOMAIN d.folders
     /\ d.folders[parent].project = p
     /\ d.folders[parent].depth + 1 <= MaxDepth

FolderRow(d, p, parent) ==
  [project |-> p, parent |-> parent, legacy |-> FALSE,
   depth |-> IF parent = Nothing THEN 0 ELSE d.folders[parent].depth + 1]

CreateFolder(d, p, parent) ==
  [d EXCEPT !.folders = Put(@, d.next, FolderRow(d, p, parent)), !.next = @ + 1]

\* Renaming recomputes the path: a migrated folder loses its "legacy:" mark.
RenamedRow(d, f) == FolderRow(d, d.folders[f].project, d.folders[f].parent)
RenameFolder(d, f) == [d EXCEPT !.folders = Put(@, f, RenamedRow(d, f))]

\* S holds, with a folder of project p, its children in p.
ClosedBelow(d, p, S) ==
  \A g \in DOMAIN d.folders :
    d.folders[g].project = p /\ d.folders[g].parent \in S => g \in S

\* (mutant of Below) the folder alone.
Below_Itself(d, f) == {f}

\* The folder and everything under it.
Below(d, f) ==
  {g \in DOMAIN d.folders :
     \A S \in SUBSET DOMAIN d.folders :
       f \in S /\ ClosedBelow(d, d.folders[f].project, S) => g \in S}

SessionsIn(d, p, S) ==
  {s \in DOMAIN d.sessions : d.sessions[s].project = p /\ d.sessions[s].folder \in S}
MessagesOf(d, S) == {m \in DOMAIN d.messages : d.messages[m] \in S}

\* Documents and files of the folder keep pointing at it.
DeleteFolder(d, f) ==
  LET folders  == Below(d, f)
      sessions == SessionsIn(d, d.folders[f].project, folders)
  IN [d EXCEPT !.folders = Without(@, folders),
               !.sessions = Without(@, sessions),
               !.messages = Without(@, MessagesOf(d, sessions))]
-----------------------------------------------------------------------------
(***************************************************************************)
(* Documents, knowledge bases and the links between them                   *)
(***************************************************************************)
CreateDocument(d, folder, categorised) ==
  [d EXCEPT !.documents =
              Put(@, d.next, [folder |-> folder, categorised |-> categorised, done |-> FALSE]),
            !.next = @ + 1]

\* Only a document that is still there is replaced.
UpdateDocument(d, x, row) ==
  IF x \in DOMAIN d.documents THEN [d EXCEPT !.documents[x] = row] ELSE d

LinksTo(d, x) == {k \in DOMAIN d.links : d.links[k].document = x}
LinksFrom(d, b) == {k \in DOMAIN d.links : d.links[k].base = b}

\* (mutant of DeleteDocument) its links stay.
DeleteDocument_Row(d, x) == [d EXCEPT !.documents = Without(@, {x})]

DeleteDocument(d, x) ==
  [d EXCEPT !.documents = Without(@, {x}), !.links = Without(@, LinksTo(d, x))]

CreateBase(d) == [d EXCEPT !.bases = @ \cup {d.next}, !.next = @ + 1]

\* (mutant of DeleteBase) it stays in the contexts.
DeleteBase_Links(d, b) == [d EXCEPT !.bases = @ \ {b}, !.links = Without(@, LinksFrom(d, b))]

\* The base leaves the contexts of projects and agents with its links.
DeleteBase(d, b) ==
  [d EXCEPT !.bases = @ \ {b},
            !.links = Without(@, LinksFrom(d, b)),
            !.projects = [p \in DOMAIN @ |-> @[p] \ {b}],
            !.agents = [a \in DOMAIN @ |-> [d.agents[a] EXCEPT !.bases = @ \ {b}]]]

\* One row for a base and a document: adding it again updates the row.
AddLink(d, b, x) ==
  IF LinksFrom(d, b) \cap LinksTo(d, x) # {}
  THEN d
  ELSE [d EXCEPT !.links = Put(@, d.next, [base |-> b, document |-> x]), !.next = @ + 1]

RemoveLink(d, b, x) ==
  LET found == LinksFrom(d, b) \cap LinksTo(d, x) IN
  IF found = {} THEN d ELSE [d EXCEPT !.links = Without(@, {CHOOSE k \in found : TRUE})]
-----------------------------------------------------------------------------
(***************************************************************************)
(* Chat sessions and messages                                              *)
(***************************************************************************)
\* (mutant of Resolvable) a folder of any project will do.
Resolvable_Anywhere(d, p, f) == f = Nothing \/ f \in DOMAIN d.folders

\* _resolve_chat_project_and_folder: an unknown project is General; a folder
\* that is not in the project is refused.
ResolvedProject(d, p) == IF p \in DOMAIN d.projects THEN p ELSE General
Resolvable(d, p, f) ==
  \/ f = Nothing
  \/ f \in DOMAIN d.folders /\ d.folders[f].project = ResolvedProject(d, p)

SessionRow(d, p, f) == [project |-> ResolvedProject(d, p), folder |-> f]

CreateSession(d, p, f) ==
  [d EXCEPT !.sessions = Put(@, d.next, SessionRow(d, p, f)), !.next = @ + 1]
UpsertSession(d, s, p, f) == [d EXCEPT !.sessions = Put(@, s, SessionRow(d, p, f))]

MoveSession(d, s, p, f) == [d EXCEPT !.sessions[s] = SessionRow(d, p, f)]

DeleteSession(d, s) ==
  [d EXCEPT !.sessions = Without(@, {s}), !.messages = Without(@, MessagesOf(d, {s}))]

\* Nothing checks that the session of a message exists.
AddMessage(d, m, s) == [d EXCEPT !.messages = Put(@, m, s)]

\* add_messages keeps what is there and counts it as skipped.
AddMessages(d, M, s) ==
  [d EXCEPT !.messages = [m \in DOMAIN @ \cup M |-> IF m \in DOMAIN @ THEN @[m] ELSE s]]
-----------------------------------------------------------------------------
(***************************************************************************)
(* The migration every start of the process runs                           *)
(***************************************************************************)
\* A folder of the category, if none is still marked with it.
MigrateCategory(d) ==
  IF \E f \in DOMAIN d.folders : d.folders[f].legacy
  THEN d
  ELSE [d EXCEPT !.folders = Put(@, d.next, [project |-> General, parent |-> Nothing,
                                             legacy |-> TRUE, depth |-> 0]),
                 !.next = @ + 1]

\* Documents of the category without a folder go to its folder.
MigrateDocuments(d) ==
  LET home == CHOOSE f \in DOMAIN d.folders : d.folders[f].legacy IN
  [d EXCEPT !.documents =
     [x \in DOMAIN @ |-> IF @[x].folder = Nothing /\ @[x].categorised
                         THEN [@[x] EXCEPT !.folder = home] ELSE @[x]]]

\* If no base has a document, the default base gets every indexed one (it is
\* created when there is no base at all).
Indexed(d) == {x \in DOMAIN d.documents : d.documents[x].done}
\* (mutant of MigrateLinks) also when bases have documents.
MigrateLinks_Always(d) ==
  LET rank(x) == Cardinality({y \in Indexed(d) : y < x})
  IN [d EXCEPT
        !.links = [k \in d.next .. (d.next + Cardinality(Indexed(d)) - 1) |->
                     [base |-> DefaultBase, document |-> CHOOSE x \in Indexed(d) : rank(x) = k - d.next]],
        !.bases = @ \cup {DefaultBase}, !.next = @ + Cardinality(Indexed(d))]

MigrateLinks(d) ==
  LET base == IF DefaultBase \in d.bases \/ d.bases = {}
              THEN DefaultBase ELSE CHOOSE b \in d.bases : TRUE
      rank(x) == Cardinality({y \in Indexed(d) : y < x})
  IN IF DOMAIN d.links # {} \/ DOMAIN d.documents = {}
     THEN d
     ELSE [d EXCEPT
            !.bases = @ \cup {base},
            !.links = [k \in d.next .. (d.next + Cardinality(Indexed(d)) - 1) |->
                         [base |-> base,
                          document |-> CHOOSE x \in Indexed(d) : rank(x) = k - d.next]],
            !.next = @ + Cardinality(Indexed(d))]

Migrate(d) == MigrateLinks(MigrateDocuments(MigrateCategory(d)))
-----------------------------------------------------------------------------
(***************************************************************************)
(* What the tables promise                                                 *)
(***************************************************************************)
FoldersRooted(d) ==
  \A f \in DOMAIN d.folders :
    LET r == d.folders[f] IN
    /\ r.depth \in 0 .. MaxDepth
    /\ r.parent # Nothing =>
         /\ r.parent \in DOMAIN d.folders
         /\ d.folders[r.parent].project = r.project
         /\ r.depth = d.folders[r.parent].depth + 1

SessionsFiled(d) ==
  \A s \in DOMAIN d.sessions :
    LET r == d.sessions[s] IN
    /\ r.project \in DOMAIN d.projects
    /\ r.folder # Nothing => /\ r.folder \in DOMAIN d.folders
                             /\ d.folders[r.folder].project = r.project

LinksResolve(d) ==
  \A k \in DOMAIN d.links :
    /\ d.links[k].base \in d.bases
    /\ d.links[k].document \in DOMAIN d.documents
    /\ \A j \in DOMAIN d.links : d.links[j] = d.links[k] => j = k

ScopesResolve(d) ==
  /\ \A p \in DOMAIN d.projects : d.projects[p] \subseteq d.bases
  /\ \A a \in DOMAIN d.agents :
       /\ d.agents[a].bases \subseteq d.bases
       /\ d.agents[a].projects # {}
       /\ d.agents[a].projects \subseteq DOMAIN d.projects
=============================================================================
