----------------------------- MODULE StoreProofs -----------------------------
(***************************************************************************)
(* What the two stores promise.                                            *)
(*                                                                         *)
(* JsonStore, for any depth of folders, any number of rows, of torn files  *)
(* and of restarts: the tree of folders, the place of a session, the links *)
(* of the knowledge bases and the scopes of projects and agents hold in    *)
(* every reachable state; a start keeps the rows, and a second one changes *)
(* nothing.  Every operation ends by writing one value of the tables,      *)
(* computed by an operator of WorkspaceStore from the tables before.  The  *)
(* proof therefore has one lemma per operator: from sound tables it makes  *)
(* sound tables.  A start computes them from the file, so that the file,   *)
(* unless it is torn, must hold sound tables too.                          *)
(*                                                                         *)
(* PostgresStore (the instance Postgres), for any threads, calls and       *)
(* starts: as long as no row was computed from a read that a commit        *)
(* overtook the tables are sound, and imports count each message once.  A  *)
(* thread holds its row while others commit; the invariant says that the   *)
(* tables are sound and that they stay so when any thread whose reads are  *)
(* not old writes its row.                                                 *)
(***************************************************************************)
EXTENDS JsonStore, TablesPromise, FiniteSetTheorems, FunctionTheorems, TLAPS

\* The other constants and variables of PostgresStore; the bounds of the two
\* stores have the same names.
CONSTANTS Threads, MaxCalls, LinkColumns
VARIABLES proc, boot, todo, calls, stale, ended

Postgres == INSTANCE PostgresStore
-----------------------------------------------------------------------------
\* The tables of the workspace and no other.
Tables(d) ==
  DOMAIN d = {"next", "projects", "folders", "bases", "links", "documents",
              "agents", "sessions", "messages"}

\* A fresh id is no folder's and no document's.
Numbered(d) ==
  /\ d.next \in Nat
  /\ \A f \in DOMAIN d.folders : f \in Nat /\ f < d.next
  /\ \A x \in DOMAIN d.documents : x \in Nat /\ x < d.next

\* FoldersRooted says how deep a folder is below its parent; renaming a root
\* writes depth 0, so that the folders under it must have counted from there.
RootsAreFlat(d) ==
  \A f \in DOMAIN d.folders : d.folders[f].parent = Nothing => d.folders[f].depth = 0

Seeded(d) == General \in DOMAIN d.projects

\* The columns of the rows that an update or the migration changes in part.
Rows(d) ==
  /\ \A a \in DOMAIN d.agents : DOMAIN d.agents[a] = {"projects", "bases"}
  /\ \A x \in DOMAIN d.documents :
       DOMAIN d.documents[x] = {"folder", "categorised", "done"}

Shape(d) == Tables(d) /\ Numbered(d) /\ RootsAreFlat(d) /\ Seeded(d) /\ Rows(d)

Sound(d) ==
  Shape(d) /\ FoldersRooted(d) /\ SessionsFiled(d) /\ LinksResolve(d) /\ ScopesResolve(d)

\* The inductive invariant.
IndInv == Sound(db) /\ (disk = Torn \/ Sound(disk))
-----------------------------------------------------------------------------
(***************************************************************************)
(* The operators                                                           *)
(***************************************************************************)
LEMMA SeedSound == Sound(Seed)
<1>1. Shape(Seed)
  BY DEF Seed, Shape, Tables, Numbered, RootsAreFlat, Seeded, Rows
<1>2. FoldersRooted(Seed) /\ SessionsFiled(Seed)
  BY DEF Seed, FoldersRooted, SessionsFiled
<1>3. LinksResolve(Seed) /\ ScopesResolve(Seed)
  BY DEF Seed, LinksResolve, ScopesResolve
<1> QED  BY <1>1, <1>2, <1>3 DEF Sound

\* A project is stored with bases that exist, whatever was asked for.
LEMMA ProjectsSound ==
  ASSUME NEW d, Sound(d), NEW p, NEW asked
  PROVE  Sound(CreateProject(d, asked)) /\ Sound(UpdateProject(d, p, asked))
<1>1. ASSUME NEW q, NEW n \in {d.next, d.next + 1}
      PROVE  Sound([d EXCEPT !.projects = Put(@, q, KnownBases(d, asked)), !.next = n])
  <2> DEFINE e == [d EXCEPT !.projects = Put(@, q, KnownBases(d, asked)), !.next = n]
  <2>1. Shape(e)
    BY DEF Sound, Shape, Tables, Numbered, RootsAreFlat, Seeded, Rows, Put
  <2>2. FoldersRooted(e) /\ SessionsFiled(e) /\ LinksResolve(e)
    BY DEF Sound, Shape, Tables, FoldersRooted, SessionsFiled, LinksResolve, Put
  <2>3. ScopesResolve(e)
    BY DEF Sound, Shape, Tables, ScopesResolve, KnownBases, Put
  <2> QED  BY <2>1, <2>2, <2>3 DEF Sound
<1>2. Sound(CreateProject(d, asked))
  BY <1>1 DEF CreateProject
<1>3. [d EXCEPT !.projects = Put(@, p, KnownBases(d, asked)), !.next = d.next]
        = UpdateProject(d, p, asked)
  BY DEF UpdateProject, Sound, Shape, Tables
<1> QED  BY <1>1, <1>2, <1>3

LEMMA AgentsSound ==
  ASSUME NEW d, Sound(d), NEW a, NEW ps, NEW bs
  PROVE  Sound(CreateAgent(d, ps, bs)) /\ Sound(UpdateAgent(d, a, ps, bs))
<1>1. /\ Shape(CreateAgent(d, ps, bs))
      /\ Shape(UpdateAgent(d, a, ps, bs))
  BY DEF CreateAgent, UpdateAgent, AgentRow, Put, Sound, Shape, Tables, Numbered,
         RootsAreFlat, Seeded, Rows
<1>2. /\ FoldersRooted(CreateAgent(d, ps, bs)) /\ FoldersRooted(UpdateAgent(d, a, ps, bs))
      /\ SessionsFiled(CreateAgent(d, ps, bs)) /\ SessionsFiled(UpdateAgent(d, a, ps, bs))
      /\ LinksResolve(CreateAgent(d, ps, bs)) /\ LinksResolve(UpdateAgent(d, a, ps, bs))
  BY DEF CreateAgent, UpdateAgent, Sound, Shape, Tables, FoldersRooted, SessionsFiled, LinksResolve
<1>3. /\ AgentRow(d, ps, bs).bases \subseteq d.bases
      /\ AgentRow(d, ps, bs).projects # {}
      /\ AgentRow(d, ps, bs).projects \subseteq DOMAIN d.projects
  BY DEF AgentRow, KnownBases, KnownProjects, Sound, Shape, Seeded
<1>4. ScopesResolve(CreateAgent(d, ps, bs)) /\ ScopesResolve(UpdateAgent(d, a, ps, bs))
  BY <1>3 DEF CreateAgent, UpdateAgent, Put, Sound, Shape, Tables, ScopesResolve
<1> QED  BY <1>1, <1>2, <1>4 DEF Sound

\* The id is fresh: no folder and no session loses what it hangs from.
LEMMA CreateFolderSound ==
  ASSUME NEW d, Sound(d), NEW p, NEW parent, Placeable(d, p, parent)
  PROVE  Sound(CreateFolder(d, p, parent))
<1> DEFINE e == CreateFolder(d, p, parent)
<1>1. Shape(e)
  BY NothingAssumption DEF CreateFolder, FolderRow, Put, Sound, Shape, Tables, Numbered,
     RootsAreFlat, Seeded, Rows
<1>2. FoldersRooted(e)
  BY NothingAssumption, DepthAssumption
     DEF CreateFolder, Placeable, FolderRow, Put, Sound, Shape, Tables, Numbered, FoldersRooted
<1>3. SessionsFiled(e)
  BY DEF CreateFolder, Put, Sound, Shape, Tables, Numbered, SessionsFiled
<1>4. LinksResolve(e) /\ ScopesResolve(e)
  BY DEF CreateFolder, Sound, Shape, Tables, LinksResolve, ScopesResolve
<1> QED  BY <1>1, <1>2, <1>3, <1>4 DEF Sound

\* The row that a rename computes anew has the project, the parent and the
\* depth of the old one.
LEMMA RenameFolderSound ==
  ASSUME NEW d, Sound(d), NEW f \in DOMAIN d.folders
  PROVE  Sound(RenameFolder(d, f))
<1> DEFINE e == RenameFolder(d, f)
           r == RenamedRow(d, f)
<1>1. /\ r.project = d.folders[f].project
      /\ r.parent = d.folders[f].parent
      /\ r.depth = d.folders[f].depth
  BY DEF RenamedRow, FolderRow, Sound, Shape, RootsAreFlat, FoldersRooted
<1>2. /\ Tables(e)
      /\ e.next = d.next /\ e.projects = d.projects /\ e.bases = d.bases
      /\ e.links = d.links /\ e.documents = d.documents
      /\ e.agents = d.agents /\ e.sessions = d.sessions
      /\ DOMAIN e.folders = DOMAIN d.folders
      /\ \A g \in DOMAIN d.folders : e.folders[g] = IF g = f THEN r ELSE d.folders[g]
  BY DEF RenameFolder, Put, Sound, Shape, Tables
<1> HIDE DEF e, r
<1>3. \A g \in DOMAIN d.folders :
        /\ e.folders[g].project = d.folders[g].project
        /\ e.folders[g].parent = d.folders[g].parent
        /\ e.folders[g].depth = d.folders[g].depth
  BY <1>1, <1>2
<1>4. Shape(e)
  BY <1>2, <1>3 DEF Sound, Shape, Numbered, RootsAreFlat, Seeded, Rows
<1>5. FoldersRooted(e)
  BY <1>2, <1>3 DEF Sound, FoldersRooted
<1>6. SessionsFiled(e)
  BY <1>2, <1>3 DEF Sound, SessionsFiled
<1>7. LinksResolve(e) /\ ScopesResolve(e)
  BY <1>2 DEF Sound, LinksResolve, ScopesResolve
<1> QED  BY <1>4, <1>5, <1>6, <1>7 DEF Sound, e

\* What _folder_descendants finds is in the project of the folder, and a folder
\* whose parent is found is found.
LEMMA BelowIsClosed ==
  ASSUME NEW d, FoldersRooted(d), NEW f \in DOMAIN d.folders
  PROVE  /\ f \in Below(d, f)
         /\ \A g \in Below(d, f) :
              g \in DOMAIN d.folders /\ d.folders[g].project = d.folders[f].project
         /\ \A g \in DOMAIN d.folders :
              d.folders[g].parent # Nothing /\ d.folders[g].parent \in Below(d, f)
              => g \in Below(d, f)
<1> DEFINE p == d.folders[f].project
           Mine == {g \in DOMAIN d.folders : d.folders[g].project = p}
<1>1. f \in Below(d, f)
  BY DEF Below
<1>2. f \in Mine /\ ClosedBelow(d, p, Mine) /\ Mine \in SUBSET DOMAIN d.folders
  BY DEF ClosedBelow
<1>3. Below(d, f) \subseteq Mine
  BY <1>2 DEF Below
<1>4. ASSUME NEW g \in DOMAIN d.folders, d.folders[g].parent # Nothing,
             d.folders[g].parent \in Below(d, f)
      PROVE  g \in Below(d, f)
  <2>1. d.folders[g].project = p
    BY <1>3, <1>4 DEF FoldersRooted
  <2>2. ASSUME NEW S \in SUBSET DOMAIN d.folders, f \in S, ClosedBelow(d, p, S)
        PROVE  g \in S
    <3>1. d.folders[g].parent \in S
      BY <1>4, <2>2 DEF Below
    <3> QED  BY <2>1, <2>2, <3>1 DEF ClosedBelow
  <2> QED  BY <2>2 DEF Below
<1> QED  BY <1>1, <1>3, <1>4

LEMMA DeleteFolderSound ==
  ASSUME NEW d, Sound(d), NEW f \in DOMAIN d.folders
  PROVE  Sound(DeleteFolder(d, f))
<1> DEFINE e == DeleteFolder(d, f)
           gone == Below(d, f)
           left == SessionsIn(d, d.folders[f].project, gone)
<1>1. /\ \A g \in gone : d.folders[g].project = d.folders[f].project
      /\ \A g \in DOMAIN d.folders :
           d.folders[g].parent # Nothing /\ d.folders[g].parent \in gone => g \in gone
  BY BelowIsClosed DEF Sound
<1>2. /\ Tables(e)
      /\ e.next = d.next /\ e.projects = d.projects /\ e.bases = d.bases
      /\ e.links = d.links /\ e.documents = d.documents /\ e.agents = d.agents
      /\ DOMAIN e.folders = DOMAIN d.folders \ gone
      /\ \A g \in DOMAIN e.folders : e.folders[g] = d.folders[g]
      /\ DOMAIN e.sessions = DOMAIN d.sessions \ left
      /\ \A s \in DOMAIN e.sessions : e.sessions[s] = d.sessions[s]
  BY DEF DeleteFolder, Without, Sound, Shape, Tables
<1>3. \A s \in DOMAIN d.sessions :
        s \in left <=> /\ d.sessions[s].project = d.folders[f].project
                       /\ d.sessions[s].folder \in gone
  BY DEF SessionsIn
<1> HIDE DEF e, gone, left
<1>4. Shape(e)
  BY <1>2 DEF Sound, Shape, Numbered, RootsAreFlat, Seeded, Rows
<1>5. FoldersRooted(e)
  BY <1>1, <1>2 DEF Sound, FoldersRooted
<1>6. SessionsFiled(e)
  BY <1>1, <1>2, <1>3 DEF Sound, SessionsFiled
<1>7. LinksResolve(e) /\ ScopesResolve(e)
  BY <1>2 DEF Sound, LinksResolve, ScopesResolve
<1> QED  BY <1>4, <1>5, <1>6, <1>7 DEF Sound, e

\* Deleting a document takes the links to it.
LEMMA DocumentsSound ==
  ASSUME NEW d, Sound(d), NEW x, NEW folder, NEW c
  PROVE  Sound(CreateDocument(d, folder, c)) /\ Sound(DeleteDocument(d, x))
<1>1. Sound(CreateDocument(d, folder, c))
  BY DEF CreateDocument, Put, Sound, Shape, Tables, Numbered, RootsAreFlat, Seeded, Rows,
         FoldersRooted, SessionsFiled, LinksResolve, ScopesResolve
<1>2. Sound(DeleteDocument(d, x))
  BY DEF DeleteDocument, LinksTo, Without, Sound, Shape, Tables, Numbered, RootsAreFlat, Seeded,
         Rows, FoldersRooted, SessionsFiled, LinksResolve, ScopesResolve
<1> QED  BY <1>1, <1>2

LEMMA UpdateDocumentSound ==
  ASSUME NEW d, Sound(d), NEW x,
         NEW row, DOMAIN row = {"folder", "categorised", "done"}
  PROVE  Sound(UpdateDocument(d, x, row))
BY DEF UpdateDocument, Sound, Shape, Tables, Numbered, RootsAreFlat, Seeded, Rows,
       FoldersRooted, SessionsFiled, LinksResolve, ScopesResolve

\* Deleting a base takes the links from it, and the base out of every scope.
LEMMA BasesSound ==
  ASSUME NEW d, Sound(d), NEW b
  PROVE  Sound(CreateBase(d)) /\ Sound(DeleteBase(d, b))
<1>1. Sound(CreateBase(d))
  BY DEF CreateBase, Sound, Shape, Tables, Numbered, RootsAreFlat, Seeded, Rows,
         FoldersRooted, SessionsFiled, LinksResolve, ScopesResolve
<1> DEFINE e == DeleteBase(d, b)
<1>2. Shape(e)
  BY DEF DeleteBase, Sound, Shape, Tables, Numbered, RootsAreFlat, Seeded, Rows
<1>3. FoldersRooted(e) /\ SessionsFiled(e)
  BY DEF DeleteBase, Sound, Shape, Tables, FoldersRooted, SessionsFiled
<1>4. LinksResolve(e)
  BY DEF DeleteBase, LinksFrom, Without, Sound, Shape, Tables, LinksResolve
<1>5. ScopesResolve(e)
  BY DEF DeleteBase, Sound, Shape, Tables, Rows, ScopesResolve
<1> QED  BY <1>1, <1>2, <1>3, <1>4, <1>5 DEF Sound

\* A second link for a base and a document is not made.
LEMMA LinksSound ==
  ASSUME NEW d, Sound(d), NEW b \in d.bases, NEW x \in DOMAIN d.documents
  PROVE  Sound(AddLink(d, b, x)) /\ Sound(RemoveLink(d, b, x))
<1>1. Sound(AddLink(d, b, x))
  BY DEF AddLink, LinksFrom, LinksTo, Put, Sound, Shape, Tables, Numbered, RootsAreFlat, Seeded,
         Rows, FoldersRooted, SessionsFiled, LinksResolve, ScopesResolve
<1>2. Sound(RemoveLink(d, b, x))
  BY DEF RemoveLink, Without, Sound, Shape, Tables, Numbered, RootsAreFlat, Seeded, Rows,
         FoldersRooted, SessionsFiled, LinksResolve, ScopesResolve
<1> QED  BY <1>1, <1>2

\* A session is resolved each time it is written.
LEMMA SessionsSound ==
  ASSUME NEW d, Sound(d), NEW s, NEW p, NEW f, Resolvable(d, p, f)
  PROVE  /\ Sound(CreateSession(d, p, f))
         /\ Sound(UpsertSession(d, s, p, f))
         /\ Sound(MoveSession(d, s, p, f))
<1> DEFINE r == SessionRow(d, p, f)
<1>1. /\ r.project \in DOMAIN d.projects
      /\ r.folder # Nothing => /\ r.folder \in DOMAIN d.folders
                               /\ d.folders[r.folder].project = r.project
  BY DEF SessionRow, Resolvable, ResolvedProject, Sound, Shape, Seeded
<1>2. Sound(CreateSession(d, p, f))
  BY <1>1 DEF CreateSession, Put, Sound, Shape, Tables, Numbered, RootsAreFlat, Seeded,
              Rows, FoldersRooted, SessionsFiled, LinksResolve, ScopesResolve
<1>3. Sound(UpsertSession(d, s, p, f))
  BY <1>1 DEF UpsertSession, Put, Sound, Shape, Tables, Numbered, RootsAreFlat, Seeded,
              Rows, FoldersRooted, SessionsFiled, LinksResolve, ScopesResolve
<1>4. Sound(MoveSession(d, s, p, f))
  BY <1>1 DEF MoveSession, Sound, Shape, Tables, Numbered, RootsAreFlat, Seeded,
              Rows, FoldersRooted, SessionsFiled, LinksResolve, ScopesResolve
<1> QED  BY <1>2, <1>3, <1>4

LEMMA MessagesSound ==
  ASSUME NEW d, Sound(d), NEW s, NEW m
  PROVE  /\ Sound(DeleteSession(d, s))
         /\ Sound(AddMessage([d EXCEPT !.next = @ + 1], m, s))
<1>1. Sound(DeleteSession(d, s))
  BY DEF DeleteSession, Without, Sound, Shape, Tables, Numbered, RootsAreFlat, Seeded, Rows,
         FoldersRooted, SessionsFiled, LinksResolve, ScopesResolve
<1>2. Sound(AddMessage([d EXCEPT !.next = @ + 1], m, s))
  BY DEF AddMessage, Sound, Shape, Tables, Numbered, RootsAreFlat, Seeded, Rows,
         FoldersRooted, SessionsFiled, LinksResolve, ScopesResolve
<1> QED  BY <1>1, <1>2
-----------------------------------------------------------------------------
(***************************************************************************)
(* The migration                                                           *)
(***************************************************************************)
\* Counting the smaller ones numbers a finite set of numbers from 0: the links
\* the migration makes get each document once.
LEMMA RankIsOnto ==
  ASSUME NEW S, S \subseteq Nat, IsFiniteSet(S),
         NEW i \in 0 .. (Cardinality(S) - 1)
  PROVE  \E x \in S : Cardinality({y \in S : y < x}) = i
<1> DEFINE n == Cardinality(S)
           Less(x) == {y \in S : y < x}
           rank == [x \in S |-> Cardinality(Less(x))]
           T == 0 .. (n - 1)
<1>1. n \in Nat
  BY FS_CardinalityType
<1>2. \A x \in S : IsFiniteSet(Less(x)) /\ Cardinality(Less(x)) \in Nat
  BY FS_Subset, FS_CardinalityType
<1>3. \A x \in S : Cardinality(Less(x)) \in T
  <2> TAKE x \in S
  <2>1. Less(x) \subseteq S /\ Less(x) # S
    OBVIOUS
  <2>2. Cardinality(Less(x)) < n
    BY <1>1, <1>2, <2>1, FS_Subset
  <2> QED  BY <1>1, <1>2, <2>2
<1>4. \A x, y \in S : x < y => Cardinality(Less(x)) < Cardinality(Less(y))
  <2> SUFFICES ASSUME NEW x \in S, NEW y \in S, x < y
               PROVE  Cardinality(Less(x)) < Cardinality(Less(y))
    OBVIOUS
  <2>1. \A z \in S : z \in Nat
    OBVIOUS
  <2>2. ASSUME NEW z \in Less(x)
        PROVE  z \in Less(y)
    <3>1. z \in S /\ z < x
      BY <2>2
    <3>2. z < y
      BY <2>1, <3>1
    <3> QED  BY <3>1, <3>2
  <2>3. x \in Less(y) /\ x \notin Less(x)
    BY <2>1
  <2>4. Cardinality(Less(x)) <= Cardinality(Less(y)) /\ Cardinality(Less(x)) # Cardinality(Less(y))
    <3>1. Less(x) \subseteq Less(y) /\ Less(x) # Less(y)
      BY <2>2, <2>3
    <3> QED  BY <1>2, <3>1, FS_Subset
  <2> QED  BY <1>2, <2>4
<1>5. rank \in Injection(S, T)
  <2>1. rank \in [S -> T]
    BY <1>3
  <2>2. ASSUME NEW x \in S, NEW y \in S, rank[x] = rank[y]
        PROVE  x = y
    <3>1. x \in Nat /\ y \in Nat
      OBVIOUS
    <3>2. ~(x < y) /\ ~(y < x)
      BY <1>2, <1>4, <2>2
    <3> QED  BY <3>1, <3>2
  <2> QED  BY <2>1, <2>2 DEF Injection, IsInjective
<1>6. IsFiniteSet(T) /\ Cardinality(T) = n
  BY <1>1, FS_Interval
<1>7. rank \in Surjection(S, T)
  BY <1>5, <1>6, FS_Injection
<1> QED  BY <1>7 DEF Surjection

LEMMA MigrateCategorySound ==
  ASSUME NEW d, Sound(d)
  PROVE  /\ Sound(MigrateCategory(d))
         /\ \E f \in DOMAIN MigrateCategory(d).folders : MigrateCategory(d).folders[f].legacy
         /\ DOMAIN d.folders \subseteq DOMAIN MigrateCategory(d).folders
         /\ MigrateCategory(d).projects = d.projects
         /\ MigrateCategory(d).agents = d.agents
         /\ MigrateCategory(d).links = d.links
         /\ MigrateCategory(d).documents = d.documents
         /\ MigrateCategory(d).sessions = d.sessions
         /\ MigrateCategory(d).messages = d.messages
<1> DEFINE e == MigrateCategory(d)
<1>1. CASE \E f \in DOMAIN d.folders : d.folders[f].legacy
  BY <1>1 DEF MigrateCategory
<1>2. CASE ~ \E f \in DOMAIN d.folders : d.folders[f].legacy
  <2> DEFINE r == [project |-> General, parent |-> Nothing, legacy |-> TRUE, depth |-> 0]
  <2>1. e = [d EXCEPT !.folders = Put(@, d.next, r), !.next = @ + 1]
    BY <1>2 DEF MigrateCategory
  <2>2. /\ e.projects = d.projects /\ e.agents = d.agents /\ e.links = d.links
        /\ e.documents = d.documents /\ e.sessions = d.sessions /\ e.messages = d.messages
        /\ e.bases = d.bases /\ Tables(e) /\ e.next = d.next + 1
        /\ DOMAIN e.folders = DOMAIN d.folders \cup {d.next}
        /\ e.folders[d.next] = r
        /\ \A f \in DOMAIN d.folders : e.folders[f] = d.folders[f]
    BY <2>1 DEF Put, Sound, Shape, Tables, Numbered
  <2> HIDE DEF e
  <2>3. Shape(e)
    BY <2>2 DEF Sound, Shape, Numbered, RootsAreFlat, Seeded, Rows
  <2>4. FoldersRooted(e) /\ SessionsFiled(e)
    BY <2>2, DepthAssumption DEF Sound, Shape, Numbered, FoldersRooted, SessionsFiled
  <2>5. LinksResolve(e) /\ ScopesResolve(e)
    BY <2>2 DEF Sound, LinksResolve, ScopesResolve
  <2> QED  BY <2>2, <2>3, <2>4, <2>5 DEF Sound, e
<1> QED  BY <1>1, <1>2

LEMMA MigrateDocumentsSound ==
  ASSUME NEW d, Sound(d)
  PROVE  /\ Sound(MigrateDocuments(d))
         /\ MigrateDocuments(d).projects = d.projects
         /\ MigrateDocuments(d).agents = d.agents
         /\ MigrateDocuments(d).links = d.links
         /\ DOMAIN MigrateDocuments(d).documents = DOMAIN d.documents
         /\ MigrateDocuments(d).folders = d.folders
         /\ MigrateDocuments(d).sessions = d.sessions
         /\ MigrateDocuments(d).messages = d.messages
<1> DEFINE e == MigrateDocuments(d)
<1>1. /\ e.projects = d.projects /\ e.agents = d.agents /\ e.links = d.links
      /\ DOMAIN e.documents = DOMAIN d.documents
      /\ e.folders = d.folders /\ e.sessions = d.sessions /\ e.messages = d.messages
      /\ e.bases = d.bases /\ e.next = d.next /\ Tables(e)
      /\ \A x \in DOMAIN d.documents : DOMAIN e.documents[x] = DOMAIN d.documents[x]
  BY DEF MigrateDocuments, Sound, Shape, Tables
<1> HIDE DEF e
<1>2. Shape(e)
  BY <1>1 DEF Sound, Shape, Numbered, RootsAreFlat, Seeded, Rows
<1>3. FoldersRooted(e) /\ SessionsFiled(e) /\ LinksResolve(e) /\ ScopesResolve(e)
  BY <1>1 DEF Sound, FoldersRooted, SessionsFiled, LinksResolve, ScopesResolve
<1> QED  BY <1>1, <1>2, <1>3 DEF Sound, e

LEMMA MigrateLinksSound ==
  ASSUME NEW d, Sound(d)
  PROVE  /\ Sound(MigrateLinks(d))
         /\ MigrateLinks(d).projects = d.projects
         /\ MigrateLinks(d).agents = d.agents
         /\ MigrateLinks(d).folders = d.folders
         /\ MigrateLinks(d).documents = d.documents
         /\ MigrateLinks(d).sessions = d.sessions
         /\ MigrateLinks(d).messages = d.messages
         /\ DOMAIN d.links # {} => MigrateLinks(d).links = d.links
<1> DEFINE e == MigrateLinks(d)
           new == Indexed(d)
           n == Cardinality(new)
           rank(x) == Cardinality({y \in new : y < x})
           base == IF DefaultBase \in d.bases \/ d.bases = {}
                   THEN DefaultBase ELSE CHOOSE b \in d.bases : TRUE
           document(k) == CHOOSE x \in new : rank(x) = k - d.next
<1>1. CASE DOMAIN d.links # {} \/ DOMAIN d.documents = {}
  BY <1>1 DEF MigrateLinks
<1>2. CASE DOMAIN d.links = {} /\ DOMAIN d.documents # {}
  <2>1. new \subseteq DOMAIN d.documents /\ new \subseteq Nat /\ \A x \in new : x <= d.next
    BY DEF Indexed, Sound, Shape, Numbered
  <2>2. IsFiniteSet(new) /\ n \in Nat
    BY <2>1, FS_BoundedSetOfNaturals, FS_CardinalityType DEF Sound, Shape, Numbered
  <2>3. e = [d EXCEPT !.bases = @ \cup {base},
                      !.links = [k \in d.next .. (d.next + n - 1) |->
                                   [base |-> base, document |-> document(k)]],
                      !.next = @ + n]
    BY <1>2 DEF MigrateLinks
  <2>4. /\ e.projects = d.projects /\ e.agents = d.agents /\ e.folders = d.folders
        /\ e.documents = d.documents /\ e.sessions = d.sessions /\ e.messages = d.messages
        /\ e.bases = d.bases \cup {base} /\ e.next = d.next + n /\ Tables(e)
        /\ e.links = [k \in d.next .. (d.next + n - 1) |-> [base |-> base, document |-> document(k)]]
    BY <2>3 DEF Sound, Shape, Tables
  <2>5. ASSUME NEW k \in d.next .. (d.next + n - 1)
        PROVE  document(k) \in new /\ rank(document(k)) = k - d.next
    <3>1. k - d.next \in 0 .. (n - 1)
      BY <2>2 DEF Sound, Shape, Numbered
    <3>2. \E x \in new : rank(x) = k - d.next
      BY <2>1, <2>2, <3>1, RankIsOnto
    <3> QED  BY <3>2
  <2> HIDE DEF e, new, n, rank, base, document
  <2>6. Shape(e)
    BY <2>2, <2>4 DEF Sound, Shape, Numbered, RootsAreFlat, Seeded, Rows
  <2>7. FoldersRooted(e) /\ SessionsFiled(e)
    BY <2>4 DEF Sound, FoldersRooted, SessionsFiled
  <2>8. LinksResolve(e)
    <3>1. ASSUME NEW k \in DOMAIN e.links
          PROVE  e.links[k].base \in e.bases /\ e.links[k].document \in DOMAIN e.documents
      BY <2>1, <2>4, <2>5
    <3>2. ASSUME NEW k \in DOMAIN e.links, NEW j \in DOMAIN e.links, e.links[j] = e.links[k]
          PROVE  j = k
      <4>1. document(j) = document(k)
        BY <2>4, <3>2
      <4>2. j - d.next = k - d.next /\ j \in Int /\ k \in Int
        BY <2>4, <2>5, <4>1
      <4> QED  BY <4>2 DEF Sound, Shape, Numbered
    <3> QED  BY <3>1, <3>2 DEF LinksResolve
  <2>9. ScopesResolve(e)
    BY <2>4 DEF Sound, ScopesResolve
  <2> QED  BY <1>2, <2>4, <2>6, <2>7, <2>8, <2>9 DEF Sound, e
<1> QED  BY <1>1, <1>2

\* What a start makes of a file: it is sound, and holds every row of it.
LEMMA MigrateSound ==
  ASSUME NEW d, Sound(d)
  PROVE  LET e == Migrate(d) IN
         /\ Sound(e)
         /\ DOMAIN d.folders \subseteq DOMAIN e.folders
         /\ DOMAIN d.documents = DOMAIN e.documents
         /\ d.sessions = e.sessions /\ d.messages = e.messages
         /\ d.projects = e.projects /\ d.agents = e.agents
         /\ DOMAIN d.links # {} => e.links = d.links
BY MigrateCategorySound, MigrateDocumentsSound, MigrateLinksSound DEF Migrate
\* A second migration finds the folder of the category, no document to place
\* and either links or nothing to link.
LEMMA MigrateTwice ==
  ASSUME NEW d, Sound(d)
  PROVE  Migrate(Migrate(d)) = Migrate(d)
<1> DEFINE c == MigrateCategory(d)
           e == MigrateDocuments(c)
           l == MigrateLinks(e)
           legacy == \E f \in DOMAIN l.folders : l.folders[f].legacy
<1>1. Sound(c) /\ Sound(e) /\ Sound(l)
  BY MigrateCategorySound, MigrateDocumentsSound, MigrateLinksSound
<1>2. l.folders = c.folders /\ l.documents = e.documents /\ legacy
  BY <1>1, MigrateCategorySound, MigrateDocumentsSound, MigrateLinksSound
<1>3. MigrateCategory(l) = l
  BY <1>2 DEF MigrateCategory
<1>4. l = [k \in DOMAIN l |-> l[k]] /\ Tables(l)
  <2>1. e = [k \in DOMAIN e |-> e[k]]
    BY DEF MigrateDocuments
  <2> HIDE DEF e
  <2>2. l = [k \in DOMAIN l |-> l[k]]
    BY <2>1 DEF MigrateLinks
  <2> QED  BY <1>1, <2>2 DEF Sound, Shape
<1>5. MigrateDocuments(l) = l
  <2> DEFINE home == CHOOSE f \in DOMAIN c.folders : c.folders[f].legacy
             placed(x) == IF c.documents[x].folder = Nothing /\ c.documents[x].categorised
                          THEN [c.documents[x] EXCEPT !.folder = home] ELSE c.documents[x]
  <2>1. home \in DOMAIN c.folders /\ home # Nothing
    BY <1>1, <1>2, NothingAssumption DEF Sound, Shape, Numbered
  <2>2. e.documents = [x \in DOMAIN c.documents |-> placed(x)]
    BY <1>1 DEF MigrateDocuments, Sound, Shape, Tables
  <2>3. \A x \in DOMAIN c.documents : DOMAIN c.documents[x] = {"folder", "categorised", "done"}
    BY <1>1 DEF Sound, Shape, Rows
  <2> HIDE DEF c, e, l, home
  <2>4. ASSUME NEW x \in DOMAIN l.documents
        PROVE  ~(l.documents[x].folder = Nothing /\ l.documents[x].categorised)
    BY <1>2, <2>1, <2>2, <2>3
  <2>5. l.documents = [x \in DOMAIN l.documents |-> l.documents[x]]
    BY <1>2, <2>2
  <2> DEFINE later == CHOOSE f \in DOMAIN l.folders : l.folders[f].legacy
  <2>6. [x \in DOMAIN l.documents |->
           IF l.documents[x].folder = Nothing /\ l.documents[x].categorised
           THEN [l.documents[x] EXCEPT !.folder = later] ELSE l.documents[x]] = l.documents
    <3> HIDE DEF later
    <3> QED  BY <2>4, <2>5
  <2>7. [l EXCEPT !.documents = l.documents] = l
    BY <1>4 DEF Tables
  <2> QED  BY <2>6, <2>7 DEF MigrateDocuments
<1>6. MigrateLinks(l) = l
  <2>1. CASE DOMAIN l.links # {} \/ DOMAIN l.documents = {}
    BY <2>1 DEF MigrateLinks
  <2>2. CASE DOMAIN l.links = {} /\ DOMAIN l.documents # {}
    <3> DEFINE n == Cardinality(Indexed(l))
               rank(x) == Cardinality({y \in Indexed(l) : y < x})
               base(b) == IF DefaultBase \in b \/ b = {} THEN DefaultBase ELSE CHOOSE y \in b : TRUE
               new(t) == [k \in l.next .. (l.next + n - 1) |->
                            [base |-> t, document |-> CHOOSE x \in Indexed(l) : rank(x) = k - l.next]]
    <3>1. IsFiniteSet(Indexed(l)) /\ n \in Nat
      <4>1. Indexed(l) \subseteq Nat /\ \A x \in Indexed(l) : x <= l.next
        BY <1>1 DEF Indexed, Sound, Shape, Numbered
      <4> QED  BY <1>1, <4>1, FS_BoundedSetOfNaturals, FS_CardinalityType DEF Sound, Shape, Numbered
    <3>2. MigrateLinks(l) = [l EXCEPT !.bases = @ \cup {base(l.bases)}, !.links = new(base(l.bases)),
                                      !.next = @ + n]
      BY <2>2 DEF MigrateLinks
    <3>3. /\ n = 0
          /\ base(l.bases) \in l.bases
          /\ l.links = [k \in {} |-> 0]
      <4>1. DOMAIN e.links = {} /\ DOMAIN e.documents # {}
        BY <1>1, <1>2, <2>2, MigrateLinksSound
      <4>2. Indexed(e) = Indexed(l)
        BY <1>2 DEF Indexed
      <4>3. l = [e EXCEPT !.bases = @ \cup {base(e.bases)},
                          !.links = [k \in e.next .. (e.next + n - 1) |->
                                       [base |-> base(e.bases),
                                        document |-> CHOOSE x \in Indexed(l) : rank(x) = k - e.next]],
                          !.next = @ + n]
        BY <4>1, <4>2 DEF MigrateLinks
      <4>4. /\ l.bases = e.bases \cup {base(e.bases)}
            /\ l.links = [k \in e.next .. (e.next + n - 1) |->
                            [base |-> base(e.bases),
                             document |-> CHOOSE x \in Indexed(l) : rank(x) = k - e.next]]
        BY <1>1, <4>3 DEF Sound, Shape, Tables
      <4> HIDE DEF e, l, n, base
      <4>5. n = 0
        BY <1>1, <2>2, <3>1, <4>4 DEF Sound, Shape, Numbered
      <4>6. base(l.bases) \in l.bases
        BY <4>4 DEF base
      <4> QED  BY <1>1, <4>4, <4>5, <4>6 DEF Sound, Shape, Numbered
    <3> HIDE DEF l, n, base
    <3>4. new(base(l.bases)) = l.links
      BY <1>1, <3>3 DEF Sound, Shape, Numbered
    <3>5. l.bases \cup {base(l.bases)} = l.bases /\ l.next + n = l.next
      BY <1>1, <3>3 DEF Sound, Shape, Numbered
    <3>6. [l EXCEPT !.bases = l.bases, !.links = l.links, !.next = l.next] = l
      BY <1>4 DEF Tables
    <3> HIDE DEF new
    <3> QED  BY <3>2, <3>4, <3>5, <3>6
  <2> QED  BY <2>1, <2>2
<1> QED  BY <1>3, <1>5, <1>6 DEF Migrate
-----------------------------------------------------------------------------
(***************************************************************************)
(* The store                                                               *)
(***************************************************************************)
LEMMA WriteKeeps ==
  ASSUME IndInv, NEW new, Sound(new), Write(new)
  PROVE  IndInv'
BY DEF IndInv, Write, Torn

LEMMA Initial == Init => IndInv
BY SeedSound, MigrateSound DEF Init, Loaded, IndInv

LEMMA TreeKeeps ==
  ASSUME IndInv, Projects \/ NewFolder \/ Rename \/ RemoveFolder \/ NewSession
                 \/ SaveSession \/ Move \/ RemoveSession \/ Say
  PROVE  IndInv'
<1>0. Sound(db)
  BY DEF IndInv
<1>1. CASE Projects
  BY <1>0, <1>1, ProjectsSound, WriteKeeps DEF Projects
<1>2. CASE NewFolder
  BY <1>0, <1>2, CreateFolderSound, WriteKeeps DEF NewFolder
<1>3. CASE Rename
  BY <1>0, <1>3, RenameFolderSound, WriteKeeps DEF Rename
<1>4. CASE RemoveFolder
  BY <1>0, <1>4, DeleteFolderSound, WriteKeeps DEF RemoveFolder
<1>5. CASE NewSession
  BY <1>0, <1>5, SessionsSound, WriteKeeps DEF NewSession
<1>6. CASE SaveSession
  BY <1>0, <1>6, SessionsSound, WriteKeeps DEF SaveSession
<1>7. CASE Move
  BY <1>0, <1>7, SessionsSound, WriteKeeps DEF Move
<1>8. CASE RemoveSession
  BY <1>0, <1>8, MessagesSound, WriteKeeps DEF RemoveSession
<1>9. CASE Say
  BY <1>0, <1>9, MessagesSound, WriteKeeps DEF Say
<1> QED  BY <1>1, <1>2, <1>3, <1>4, <1>5, <1>6, <1>7, <1>8, <1>9

LEMMA ScopeKeeps ==
  ASSUME IndInv, Agents \/ NewDocument \/ IndexDocument \/ RemoveDocument
                 \/ NewBase \/ RemoveBase \/ Link \/ Unlink
  PROVE  IndInv'
<1>0. Sound(db)
  BY DEF IndInv
<1>1. CASE Agents
  BY <1>0, <1>1, AgentsSound, WriteKeeps DEF Agents
<1>2. CASE NewDocument
  BY <1>0, <1>2, DocumentsSound, WriteKeeps DEF NewDocument
<1>3. CASE IndexDocument
  <2>1. PICK x \in 1 .. (db.next - 1) :
          IF x \in DOMAIN db.documents
          THEN Write(UpdateDocument(db, x, [db.documents[x] EXCEPT !.done = TRUE]))
          ELSE Write(UpdateDocument(db, x, [folder |-> Nothing, categorised |-> FALSE, done |-> TRUE]))
    BY <1>3 DEF IndexDocument
  <2> DEFINE row == IF x \in DOMAIN db.documents
                    THEN [db.documents[x] EXCEPT !.done = TRUE]
                    ELSE [folder |-> Nothing, categorised |-> FALSE, done |-> TRUE]
  <2>2. DOMAIN row = {"folder", "categorised", "done"}
    BY <1>0 DEF Sound, Shape, Rows
  <2>3. Write(UpdateDocument(db, x, row))
    BY <2>1
  <2> HIDE DEF row
  <2> QED  BY <1>0, <2>2, <2>3, UpdateDocumentSound, WriteKeeps
<1>4. CASE RemoveDocument
  BY <1>0, <1>4, DocumentsSound, WriteKeeps DEF RemoveDocument
<1>5. CASE NewBase
  BY <1>0, <1>5, BasesSound, WriteKeeps DEF NewBase
<1>6. CASE RemoveBase
  BY <1>0, <1>6, BasesSound, WriteKeeps DEF RemoveBase
<1>7. CASE Link
  BY <1>0, <1>7, LinksSound, WriteKeeps DEF Link
<1>8. CASE Unlink
  BY <1>0, <1>8, LinksSound, WriteKeeps DEF Unlink
<1> QED  BY <1>1, <1>2, <1>3, <1>4, <1>5, <1>6, <1>7, <1>8

\* A start finds sound tables in the file, or seeds new ones.
LEMMA RestartKeeps ==
  ASSUME IndInv, Restart
  PROVE  IndInv'
<1>1. CASE Kill
  BY <1>1 DEF Kill, IndInv
<1>2. CASE Start
  <2>1. Sound(Loaded(disk))
    BY SeedSound, MigrateSound DEF IndInv, Loaded
  <2> QED  BY <1>2, <2>1 DEF Start, IndInv
<1> QED  BY <1>1, <1>2 DEF Restart

LEMMA Inductive == IndInv /\ [Next]_vars => IndInv'
<1> SUFFICES ASSUME IndInv, [Next]_vars
             PROVE  IndInv'
  OBVIOUS
<1>1. CASE Next
  BY <1>1, TreeKeeps, ScopeKeeps, RestartKeeps DEF Next, TreeNext, ScopeNext
<1>2. CASE UNCHANGED vars
  BY <1>2 DEF IndInv, vars, Torn
<1> QED  BY <1>1, <1>2

LEMMA Invariance == Spec => []IndInv
BY Initial, Inductive, PTL DEF Spec
-----------------------------------------------------------------------------
\* Every folder hangs from a root of its project, at the depth its row says and
\* within MaxDepth, however folders are made, renamed and deleted.
THEOREM FolderTreeHolds == Spec => []FolderTree
<1>1. IndInv => FolderTree
  BY DEF IndInv, Sound, FolderTree
<1> QED  BY <1>1, Invariance, PTL

\* A session is in a project that exists, and in no folder of another one.
THEOREM SessionsInPlaceHolds == Spec => []SessionsInPlace
<1>1. IndInv => SessionsInPlace
  BY DEF IndInv, Sound, SessionsInPlace
<1> QED  BY <1>1, Invariance, PTL

\* A knowledge base holds each document once, and none that was deleted: also
\* after the migration, which links all indexed documents at once.
THEOREM LinksHoldHolds == Spec => []LinksHold
<1>1. IndInv => LinksHold
  BY DEF IndInv, Sound, LinksHold
<1> QED  BY <1>1, Invariance, PTL

\* What projects and agents may consult exists; an agent has a project.
THEOREM ScopesHoldHolds == Spec => []ScopesHold
<1>1. IndInv => ScopesHold
  BY DEF IndInv, Sound, ScopesHold
<1> QED  BY <1>1, Invariance, PTL

\* A restart loop multiplies neither folders nor links, whatever is in the store.
THEOREM MigrationSettlesHolds == Spec => []MigrationSettles
<1>1. IndInv => MigrationSettles
  BY MigrateTwice DEF IndInv, MigrationSettles
<1> QED  BY <1>1, Invariance, PTL

\* Together: folders, sessions, links and scopes refer to what exists, and the
\* migration of migrated tables adds nothing to them.
THEOREM ReferencesHoldHolds == Spec => []ReferencesHold
<1>1. ReferencesHold <=> FolderTree /\ SessionsInPlace /\ LinksHold /\ ScopesHold /\ MigrationSettles
  BY DEF ReferencesHold
<1> QED
  BY <1>1, FolderTreeHolds, SessionsInPlaceHolds, LinksHoldHolds, ScopesHoldHolds,
     MigrationSettlesHolds, PTL

\* Only a start brings the process up, and it keeps the rows of the file.
THEOREM StartKeepsRowsHolds == Spec => StartKeepsRows
<1> DEFINE Kept ==
      ~up /\ up' /\ disk # Torn =>
        /\ DOMAIN disk.folders \subseteq DOMAIN db'.folders
        /\ DOMAIN disk.documents = DOMAIN db'.documents
        /\ disk.sessions = db'.sessions /\ disk.messages = db'.messages
        /\ \A k \in DOMAIN disk.links : k \in DOMAIN db'.links /\ db'.links[k] = disk.links[k]
        /\ disk.projects = db'.projects /\ disk.agents = db'.agents
<1>1. ASSUME ~up, up', Next
      PROVE  Start
  BY <1>1 DEF Next, TreeNext, ScopeNext, Restart, Kill, Write, Projects, Agents, NewFolder, Rename,
     RemoveFolder, NewDocument, IndexDocument, RemoveDocument, NewBase, RemoveBase, Link, Unlink,
     NewSession, SaveSession, Move, RemoveSession, Say
<1>2. IndInv /\ [Next]_vars => [Kept]_vars
  <2> SUFFICES ASSUME IndInv, Next, ~up, up', disk # Torn
               PROVE  Kept
    BY DEF vars
  <2>1. Start /\ Sound(disk)
    BY <1>1 DEF IndInv
  <2>2. db' = Migrate(disk)
    BY <2>1 DEF Start, Loaded
  <2> QED  BY <2>1, <2>2, MigrateSound
<1> QED  BY <1>2, Invariance, PTL DEF Spec, StartKeepsRows
-----------------------------------------------------------------------------
(***************************************************************************)
(* The tables in PostgreSQL                                                *)
(***************************************************************************)
\* A link has two columns, so that writing it again changes nothing.
LinkRows(d) ==
  \A k \in DOMAIN d.links :
    d.links[k] = [base |-> d.links[k].base, document |-> d.links[k].document]

Good(d) == Sound(d) /\ LinkRows(d)

\* The tables once a thread has upserted the row that it holds.
Written == {"projects", "agents", "folders", "documents", "links", "sessions"}
Held(d, h) == Postgres!Upserted(d, h.table, h.id, h.row)

\* The documents S are there and nothing links to them yet.
Unlinked(d, S) ==
  S \subseteq DOMAIN d.documents /\ \A k \in DOMAIN d.links : d.links[k].document \notin S

\* The inductive invariant of PostgresStore.
TablesInv ==
  /\ Tables(pg) /\ pg.next \in Nat
  /\ \A t \in Threads : proc[t] # Postgres!Idle => proc[t].table \in Written
  /\ DOMAIN proc = Threads
  /\ boot # "up" => \A t \in Threads : proc[t] = Postgres!Idle
  /\ counted \in [Postgres!Ids -> Nat]
  /\ ImportedOnce
  /\ ~raced =>
       /\ Good(pg)
       /\ \A t \in Threads :
            proc[t] # Postgres!Idle /\ t \notin stale => Good(Held(pg, proc[t]))
       /\ boot = "links" => Unlinked(pg, todo)

\* The operators of the instance are those of WorkspaceStore.
LEMMA SameRows ==
  /\ \A a, b, c : Postgres!Put(a, b, c) = Put(a, b, c)
  /\ \A d, a : /\ Postgres!KnownBases(d, a) = KnownBases(d, a)
               /\ Postgres!KnownProjects(d, a) = KnownProjects(d, a)
               /\ Postgres!RenamedRow(d, a) = RenamedRow(d, a)
               /\ Postgres!LinksTo(d, a) = LinksTo(d, a)
               /\ Postgres!LinksFrom(d, a) = LinksFrom(d, a)
  /\ \A d, a, b : /\ Postgres!AgentRow(d, a, b) = AgentRow(d, a, b)
                  /\ Postgres!Placeable(d, a, b) = Placeable(d, a, b)
                  /\ Postgres!FolderRow(d, a, b) = FolderRow(d, a, b)
                  /\ Postgres!Resolvable(d, a, b) = Resolvable(d, a, b)
                  /\ Postgres!SessionRow(d, a, b) = SessionRow(d, a, b)
  /\ \A d : Postgres!Indexed(d) = Indexed(d)
<1>1. \A a, b, c : Postgres!Put(a, b, c) = Put(a, b, c)
  BY DEF Postgres!Put, Put
<1>2. \A d, a : /\ Postgres!KnownBases(d, a) = KnownBases(d, a)
               /\ Postgres!KnownProjects(d, a) = KnownProjects(d, a)
  BY DEF Postgres!KnownBases, KnownBases, Postgres!KnownProjects, KnownProjects
<1>3. \A d, a, b : Postgres!AgentRow(d, a, b) = AgentRow(d, a, b)
  BY <1>2 DEF Postgres!AgentRow, AgentRow
<1>4. \A d, a, b : Postgres!Placeable(d, a, b) = Placeable(d, a, b)
  BY DEF Postgres!Placeable, Placeable
<1>5. /\ \A d, a, b : Postgres!FolderRow(d, a, b) = FolderRow(d, a, b)
      /\ \A d, a : Postgres!RenamedRow(d, a) = RenamedRow(d, a)
  BY DEF Postgres!FolderRow, FolderRow, Postgres!RenamedRow, RenamedRow
<1>6. \A d, a : /\ Postgres!LinksTo(d, a) = LinksTo(d, a)
               /\ Postgres!LinksFrom(d, a) = LinksFrom(d, a)
  BY DEF Postgres!LinksTo, LinksTo, Postgres!LinksFrom, LinksFrom
<1>7. \A d, a, b : /\ Postgres!Resolvable(d, a, b) = Resolvable(d, a, b)
                  /\ Postgres!SessionRow(d, a, b) = SessionRow(d, a, b)
  BY DEF Postgres!Resolvable, Resolvable, Postgres!SessionRow, SessionRow,
         Postgres!ResolvedProject, ResolvedProject
<1>8. \A d : Postgres!Indexed(d) = Indexed(d)
  BY DEF Postgres!Indexed, Indexed
<1> QED  BY <1>1, <1>2, <1>3, <1>4, <1>5, <1>6, <1>7, <1>8

LEMMA SameOperations ==
  /\ Postgres!Seed = Seed
  /\ \A d, a : /\ Postgres!DeleteFolder(d, a) = DeleteFolder(d, a)
               /\ Postgres!DeleteSession(d, a) = DeleteSession(d, a)
  /\ \A d, a, b : /\ Postgres!RemoveLink(d, a, b) = RemoveLink(d, a, b)
                  /\ Postgres!AddMessage(d, a, b) = AddMessage(d, a, b)
                  /\ Postgres!AddMessages(d, a, b) = AddMessages(d, a, b)
  /\ \A d : /\ Postgres!MigrateCategory(d) = MigrateCategory(d)
            /\ Postgres!MigrateDocuments(d) = MigrateDocuments(d)
<1>1. Postgres!Seed = Seed
  BY DEF Postgres!Seed, Seed
<1>2. \A d, a : Postgres!DeleteFolder(d, a) = DeleteFolder(d, a)
  BY DEF Postgres!DeleteFolder, DeleteFolder, Postgres!Below, Below, Postgres!ClosedBelow, ClosedBelow,
         Postgres!SessionsIn, SessionsIn, Postgres!MessagesOf, MessagesOf, Postgres!Without, Without
<1>3. \A d, a : Postgres!DeleteSession(d, a) = DeleteSession(d, a)
  BY DEF Postgres!DeleteSession, DeleteSession, Postgres!MessagesOf, MessagesOf, Postgres!Without, Without
<1>4. \A d, a, b : Postgres!RemoveLink(d, a, b) = RemoveLink(d, a, b)
  BY DEF Postgres!RemoveLink, RemoveLink, Postgres!LinksTo, LinksTo, Postgres!LinksFrom, LinksFrom,
         Postgres!Without, Without
<1>5. \A d, a, b : Postgres!AddMessage(d, a, b) = AddMessage(d, a, b)
  BY DEF Postgres!AddMessage, AddMessage, Postgres!Put, Put
<1>6. \A d, a, b : Postgres!AddMessages(d, a, b) = AddMessages(d, a, b)
  BY DEF Postgres!AddMessages, AddMessages
<1>7. \A d : /\ Postgres!MigrateCategory(d) = MigrateCategory(d)
            /\ Postgres!MigrateDocuments(d) = MigrateDocuments(d)
  BY DEF Postgres!MigrateCategory, MigrateCategory, Postgres!MigrateDocuments, MigrateDocuments,
         Postgres!Put, Put
<1> QED  BY <1>1, <1>2, <1>3, <1>4, <1>5, <1>6, <1>7

\* Drawing more ids changes nothing: what matters of tables are their rows.
LEMMA SoundLater ==
  ASSUME NEW d, Good(d), NEW e, Tables(e), e.next \in Nat, d.next <= e.next,
         e.projects = d.projects, e.folders = d.folders, e.bases = d.bases, e.links = d.links,
         e.documents = d.documents, e.agents = d.agents, e.sessions = d.sessions
  PROVE  Good(e)
<1>1. Shape(e)
  <2>1. Numbered(e)
    BY DEF Good, Sound, Shape, Numbered
  <2> QED  BY <2>1 DEF Good, Sound, Shape, RootsAreFlat, Seeded, Rows
<1>2. FoldersRooted(e) /\ SessionsFiled(e) /\ LinksResolve(e) /\ ScopesResolve(e)
  BY DEF Good, Sound, FoldersRooted, SessionsFiled, LinksResolve, ScopesResolve
<1>3. LinkRows(e)
  BY DEF Good, LinkRows
<1> QED  BY <1>1, <1>2, <1>3 DEF Good, Sound

\* What an upsert writes: one table, and nothing else of the tables.
LEMMA UpsertIs ==
  ASSUME NEW d, Tables(d), NEW h, h.table \in Written
  PROVE  /\ Tables(Held(d, h))
         /\ Held(d, h).next = d.next
         /\ Held(d, h).bases = d.bases
         /\ Held(d, h).messages = d.messages
         /\ Held(d, h).projects =
              IF h.table = "projects" THEN Put(d.projects, h.id, h.row) ELSE d.projects
         /\ Held(d, h).agents =
              IF h.table = "agents" THEN Put(d.agents, h.id, h.row) ELSE d.agents
         /\ Held(d, h).folders =
              IF h.table = "folders" THEN Put(d.folders, h.id, h.row) ELSE d.folders
         /\ Held(d, h).documents =
              IF h.table = "documents" THEN Put(d.documents, h.id, h.row) ELSE d.documents
         /\ Held(d, h).links =
              IF h.table = "links" THEN Put(d.links, h.id, h.row) ELSE d.links
         /\ Held(d, h).sessions =
              IF h.table = "sessions" THEN Put(d.sessions, h.id, h.row) ELSE d.sessions
<1>1. CASE h.table = "projects"
  BY <1>1, SameRows DEF Held, Postgres!Upserted, Tables
<1>2. CASE h.table = "agents"
  BY <1>2, SameRows DEF Held, Postgres!Upserted, Tables
<1>3. CASE h.table = "folders"
  BY <1>3, SameRows DEF Held, Postgres!Upserted, Tables
<1>4. CASE h.table = "documents"
  BY <1>4, SameRows DEF Held, Postgres!Upserted, Tables
<1>5. CASE h.table = "links"
  BY <1>5, SameRows DEF Held, Postgres!Upserted, Tables
<1>6. CASE h.table = "sessions"
  BY <1>6, SameRows DEF Held, Postgres!Upserted, Tables
<1> QED  BY <1>1, <1>2, <1>3, <1>4, <1>5, <1>6 DEF Written

\* The tables after a thread drew an id, if it needs a new one.
Drawn(d, id) == IF id = d.next THEN [d EXCEPT !.next = @ + 1] ELSE d

LEMMA DrawnIs ==
  ASSUME NEW d, Tables(d), d.next \in Nat, NEW id
  PROVE  /\ Tables(Drawn(d, id)) /\ Drawn(d, id).next \in Nat /\ d.next <= Drawn(d, id).next
         /\ id = d.next => Drawn(d, id).next = d.next + 1
         /\ Drawn(d, id).projects = d.projects /\ Drawn(d, id).folders = d.folders
         /\ Drawn(d, id).bases = d.bases /\ Drawn(d, id).links = d.links
         /\ Drawn(d, id).documents = d.documents /\ Drawn(d, id).agents = d.agents
         /\ Drawn(d, id).sessions = d.sessions /\ Drawn(d, id).messages = d.messages
BY DEF Drawn, Tables

\* A row that may be written may be written when another thread drew an id.
LEMMA HeldLater ==
  ASSUME NEW d, Tables(d), d.next \in Nat, NEW id, NEW h, h.table \in Written, Good(Held(d, h))
  PROVE  Good(Held(Drawn(d, id), h))
<1> DEFINE e == Drawn(d, id)
           a == Held(d, h)
           b == Held(e, h)
<1>1. /\ Tables(e) /\ e.next \in Nat /\ d.next <= e.next
      /\ e.projects = d.projects /\ e.folders = d.folders /\ e.bases = d.bases /\ e.links = d.links
      /\ e.documents = d.documents /\ e.agents = d.agents /\ e.sessions = d.sessions
  BY DrawnIs
<1> HIDE DEF e
<1>2. /\ Tables(b) /\ b.next = e.next /\ a.next = d.next
      /\ b.projects = a.projects /\ b.folders = a.folders /\ b.bases = a.bases
      /\ b.links = a.links /\ b.documents = a.documents /\ b.agents = a.agents
      /\ b.sessions = a.sessions
  BY <1>1, UpsertIs
<1>3. Good(a) /\ b.next \in Nat /\ a.next <= b.next
  BY <1>1, <1>2
<1> HIDE DEF a, b
<1>4. Good(b)
  BY <1>2, <1>3, SoundLater
<1> QED  BY <1>4 DEF b, e

\* It is enough that an operation of the JSON store makes the same rows.
LEMMA HeldAs ==
  ASSUME NEW d, Tables(d), d.next \in Nat, NEW h, h.table \in Written,
         NEW c, Good(c), c.next \in Nat, c.next <= Drawn(d, h.id).next,
         c.bases = d.bases,
         c.projects = (IF h.table = "projects" THEN Put(d.projects, h.id, h.row) ELSE d.projects),
         c.agents = (IF h.table = "agents" THEN Put(d.agents, h.id, h.row) ELSE d.agents),
         c.folders = (IF h.table = "folders" THEN Put(d.folders, h.id, h.row) ELSE d.folders),
         c.documents = (IF h.table = "documents" THEN Put(d.documents, h.id, h.row) ELSE d.documents),
         c.links = (IF h.table = "links" THEN Put(d.links, h.id, h.row) ELSE d.links),
         c.sessions = (IF h.table = "sessions" THEN Put(d.sessions, h.id, h.row) ELSE d.sessions)
  PROVE  Good(Held(Drawn(d, h.id), h))
<1> DEFINE e == Drawn(d, h.id)
           b == Held(e, h)
<1>1. /\ Tables(e) /\ e.next \in Nat
      /\ e.projects = d.projects /\ e.folders = d.folders /\ e.bases = d.bases /\ e.links = d.links
      /\ e.documents = d.documents /\ e.agents = d.agents /\ e.sessions = d.sessions
  BY DrawnIs
<1>2. c.next <= e.next
  OBVIOUS
<1> HIDE DEF e
<1>3. /\ Tables(b) /\ b.next = e.next
      /\ b.projects = c.projects /\ b.folders = c.folders /\ b.bases = c.bases
      /\ b.links = c.links /\ b.documents = c.documents /\ b.agents = c.agents
      /\ b.sessions = c.sessions
  BY <1>1, UpsertIs
<1> HIDE DEF b
<1>4. b.next \in Nat /\ c.next <= b.next
  BY <1>1, <1>2, <1>3
<1>5. Good(b)
  BY <1>3, <1>4, SoundLater
<1> QED  BY <1>5 DEF b, e
-----------------------------------------------------------------------------
\* The rows that the operations of two transactions hold, one table at a time.
Holding(table, id, row) == [table |-> table, id |-> id, row |-> row]

LEMMA ProjectHeld ==
  ASSUME NEW d, Good(d), NEW p, NEW asked
  PROVE  Good(Held(Drawn(d, p), Holding("projects", p, KnownBases(d, asked))))
<1> DEFINE h == Holding("projects", p, KnownBases(d, asked))
           c == UpdateProject(d, p, asked)
<1>1. Tables(d) /\ d.next \in Nat /\ Sound(d) /\ d.next <= Drawn(d, p).next
  BY DrawnIs DEF Good, Sound, Shape, Numbered
<1>2. /\ Sound(c) /\ c.next = d.next /\ c.bases = d.bases /\ c.folders = d.folders
      /\ c.projects = Put(d.projects, p, KnownBases(d, asked))
      /\ c.links = d.links /\ c.documents = d.documents
      /\ c.agents = d.agents /\ c.sessions = d.sessions
  BY <1>1, ProjectsSound DEF UpdateProject, Tables
<1>3. h.table = "projects" /\ h.id = p /\ h.row = KnownBases(d, asked) /\ h.table \in Written
  BY DEF Holding, Written
<1> HIDE DEF h, c
<1>4. Good(c)
  BY <1>2 DEF Good, LinkRows
<1>5. Good(Held(Drawn(d, h.id), h))
  BY <1>1, <1>2, <1>3, <1>4, HeldAs
<1> QED  BY <1>3, <1>5 DEF h

LEMMA AgentHeld ==
  ASSUME NEW d, Good(d), NEW a, NEW ps, NEW bs
  PROVE  Good(Held(Drawn(d, a), Holding("agents", a, AgentRow(d, ps, bs))))
<1> DEFINE h == Holding("agents", a, AgentRow(d, ps, bs))
           c == UpdateAgent(d, a, ps, bs)
<1>1. Tables(d) /\ d.next \in Nat /\ Sound(d) /\ d.next <= Drawn(d, a).next
  BY DrawnIs DEF Good, Sound, Shape, Numbered
<1>2. /\ Sound(c) /\ c.next = d.next /\ c.bases = d.bases /\ c.folders = d.folders
      /\ c.agents = Put(d.agents, a, AgentRow(d, ps, bs))
      /\ c.links = d.links /\ c.documents = d.documents
      /\ c.projects = d.projects /\ c.sessions = d.sessions
  BY <1>1, AgentsSound DEF UpdateAgent, Tables
<1>3. h.table = "agents" /\ h.id = a /\ h.row = AgentRow(d, ps, bs) /\ h.table \in Written
  BY DEF Holding, Written
<1> HIDE DEF h, c
<1>4. Good(c)
  BY <1>2 DEF Good, LinkRows
<1>5. Good(Held(Drawn(d, h.id), h))
  BY <1>1, <1>2, <1>3, <1>4, HeldAs
<1> QED  BY <1>3, <1>5 DEF h

LEMMA FolderHeld ==
  ASSUME NEW d, Good(d), NEW p, NEW parent, Placeable(d, p, parent)
  PROVE  Good(Held(Drawn(d, d.next), Holding("folders", d.next, FolderRow(d, p, parent))))
<1> DEFINE h == Holding("folders", d.next, FolderRow(d, p, parent))
           c == CreateFolder(d, p, parent)
<1>1. Tables(d) /\ d.next \in Nat /\ Sound(d) /\ Drawn(d, d.next).next = d.next + 1
  BY DrawnIs DEF Good, Sound, Shape, Numbered
<1>2. /\ Sound(c) /\ c.next = d.next + 1 /\ c.bases = d.bases
      /\ c.folders = Put(d.folders, d.next, FolderRow(d, p, parent))
      /\ c.links = d.links /\ c.documents = d.documents
      /\ c.projects = d.projects /\ c.agents = d.agents /\ c.sessions = d.sessions
  BY <1>1, CreateFolderSound DEF CreateFolder, Tables
<1>3. h.table = "folders" /\ h.id = d.next /\ h.row = FolderRow(d, p, parent) /\ h.table \in Written
  BY DEF Holding, Written
<1> HIDE DEF h, c
<1>4. Good(c) /\ c.next \in Nat /\ c.next <= Drawn(d, d.next).next
  BY <1>1, <1>2 DEF Good, LinkRows
<1>5. Good(Held(Drawn(d, h.id), h))
  BY <1>1, <1>2, <1>3, <1>4, HeldAs
<1> QED  BY <1>3, <1>5 DEF h

LEMMA RenamedHeld ==
  ASSUME NEW d, Good(d), NEW f \in DOMAIN d.folders
  PROVE  Good(Held(Drawn(d, f), Holding("folders", f, RenamedRow(d, f))))
<1> DEFINE h == Holding("folders", f, RenamedRow(d, f))
           c == RenameFolder(d, f)
<1>1. Tables(d) /\ d.next \in Nat /\ Sound(d) /\ d.next <= Drawn(d, f).next
  BY DrawnIs DEF Good, Sound, Shape, Numbered
<1>2. /\ Sound(c) /\ c.next = d.next /\ c.bases = d.bases
      /\ c.folders = Put(d.folders, f, RenamedRow(d, f))
      /\ c.links = d.links /\ c.documents = d.documents
      /\ c.projects = d.projects /\ c.agents = d.agents /\ c.sessions = d.sessions
  BY <1>1, RenameFolderSound DEF RenameFolder, Tables
<1>3. h.table = "folders" /\ h.id = f /\ h.row = RenamedRow(d, f) /\ h.table \in Written
  BY DEF Holding, Written
<1> HIDE DEF h, c
<1>4. Good(c)
  BY <1>2 DEF Good, LinkRows
<1>5. Good(Held(Drawn(d, h.id), h))
  BY <1>1, <1>2, <1>3, <1>4, HeldAs
<1> QED  BY <1>3, <1>5 DEF h

LEMMA DocumentHeld ==
  ASSUME NEW d, Good(d), NEW f, NEW g
  PROVE  Good(Held(Drawn(d, d.next),
                   Holding("documents", d.next, [folder |-> f, categorised |-> g, done |-> FALSE])))
<1> DEFINE r == [folder |-> f, categorised |-> g, done |-> FALSE]
           h == Holding("documents", d.next, r)
           c == CreateDocument(d, f, g)
<1>1. Tables(d) /\ d.next \in Nat /\ Sound(d) /\ Drawn(d, d.next).next = d.next + 1
  BY DrawnIs DEF Good, Sound, Shape, Numbered
<1>2. /\ Sound(c) /\ c.next = d.next + 1 /\ c.bases = d.bases
      /\ c.documents = Put(d.documents, d.next, r)
      /\ c.links = d.links /\ c.folders = d.folders
      /\ c.projects = d.projects /\ c.agents = d.agents /\ c.sessions = d.sessions
  BY <1>1, DocumentsSound DEF CreateDocument, Tables
<1>3. h.table = "documents" /\ h.id = d.next /\ h.row = r /\ h.table \in Written
  BY DEF Holding, Written
<1> HIDE DEF h, c, r
<1>4. Good(c) /\ c.next \in Nat /\ c.next <= Drawn(d, d.next).next
  BY <1>1, <1>2 DEF Good, LinkRows
<1>5. Good(Held(Drawn(d, h.id), h))
  BY <1>1, <1>2, <1>3, <1>4, HeldAs
<1> QED  BY <1>3, <1>5 DEF h, r

LEMMA IndexedHeld ==
  ASSUME NEW d, Good(d), NEW x \in DOMAIN d.documents, NEW row,
         DOMAIN row = {"folder", "categorised", "done"}
  PROVE  Good(Held(Drawn(d, x), Holding("documents", x, row)))
<1> DEFINE h == Holding("documents", x, row)
           c == UpdateDocument(d, x, row)
<1>1. Tables(d) /\ d.next \in Nat /\ Sound(d) /\ d.next <= Drawn(d, x).next
  BY DrawnIs DEF Good, Sound, Shape, Numbered
<1>2. /\ Sound(c) /\ c.next = d.next /\ c.bases = d.bases
      /\ c.documents = [d.documents EXCEPT ![x] = row]
      /\ c.links = d.links /\ c.folders = d.folders
      /\ c.projects = d.projects /\ c.agents = d.agents /\ c.sessions = d.sessions
  BY <1>1, UpdateDocumentSound DEF UpdateDocument, Tables
<1>3. h.table = "documents" /\ h.id = x /\ h.row = row /\ h.table \in Written
  BY DEF Holding, Written
<1>4. [d.documents EXCEPT ![x] = row] = Put(d.documents, x, row)
  BY DEF Put
<1> HIDE DEF h, c
<1>5. Good(c)
  BY <1>2 DEF Good, LinkRows
<1>6. Good(Held(Drawn(d, h.id), h))
  BY <1>1, <1>2, <1>3, <1>4, <1>5, HeldAs
<1> QED  BY <1>3, <1>6 DEF h

LEMMA SessionHeld ==
  ASSUME NEW d, Good(d), NEW s, NEW p, NEW f, Resolvable(d, p, f)
  PROVE  Good(Held(Drawn(d, s), Holding("sessions", s, SessionRow(d, p, f))))
<1> DEFINE h == Holding("sessions", s, SessionRow(d, p, f))
           c == UpsertSession(d, s, p, f)
<1>1. Tables(d) /\ d.next \in Nat /\ Sound(d) /\ d.next <= Drawn(d, s).next
  BY DrawnIs DEF Good, Sound, Shape, Numbered
<1>2. /\ Sound(c) /\ c.next = d.next /\ c.bases = d.bases /\ c.folders = d.folders
      /\ c.sessions = Put(d.sessions, s, SessionRow(d, p, f))
      /\ c.links = d.links /\ c.documents = d.documents
      /\ c.projects = d.projects /\ c.agents = d.agents
  BY <1>1, SessionsSound DEF UpsertSession, Tables
<1>3. h.table = "sessions" /\ h.id = s /\ h.row = SessionRow(d, p, f) /\ h.table \in Written
  BY DEF Holding, Written
<1> HIDE DEF h, c
<1>4. Good(c)
  BY <1>2 DEF Good, LinkRows
<1>5. Good(Held(Drawn(d, h.id), h))
  BY <1>1, <1>2, <1>3, <1>4, HeldAs
<1> QED  BY <1>3, <1>5 DEF h

\* A link is made once: the row that a second call finds is written again.
LEMMA LinkHeld ==
  ASSUME NEW d, Good(d), NEW b \in d.bases, NEW x \in DOMAIN d.documents, NEW k,
         LET found == LinksFrom(d, b) \cap LinksTo(d, x)
         IN  IF found = {} THEN k = d.next ELSE k \in found
  PROVE  Good(Held(Drawn(d, k), Holding("links", k, [base |-> b, document |-> x])))
<1> DEFINE r == [base |-> b, document |-> x]
           h == Holding("links", k, r)
           found == LinksFrom(d, b) \cap LinksTo(d, x)
           c == [d EXCEPT !.links = Put(@, k, r)]
<1>1. Tables(d) /\ d.next \in Nat /\ Sound(d) /\ d.next <= Drawn(d, k).next
  BY DrawnIs DEF Good, Sound, Shape, Numbered
<1>2. /\ Tables(c) /\ c.next = d.next /\ c.bases = d.bases /\ c.folders = d.folders
      /\ c.links = Put(d.links, k, r)
      /\ c.documents = d.documents /\ c.sessions = d.sessions
      /\ c.projects = d.projects /\ c.agents = d.agents
  BY <1>1 DEF Tables
<1>3. /\ DOMAIN c.links = DOMAIN d.links \cup {k} /\ c.links[k] = r
      /\ \A j \in DOMAIN d.links : j # k => c.links[j] = d.links[j]
  BY <1>2 DEF Put
<1>4. h.table = "links" /\ h.id = k /\ h.row = r /\ h.table \in Written
  BY DEF Holding, Written
<1>5. r.base = b /\ r.document = x /\ r = [base |-> r.base, document |-> r.document]
  OBVIOUS
<1>6. \A j \in DOMAIN d.links : d.links[j] = r => j \in found
  BY <1>5 DEF LinksFrom, LinksTo
<1>7. found = {} \/ k \in found
  OBVIOUS
<1>8. \A j \in found : j \in DOMAIN d.links /\ d.links[j] = r
  BY DEF LinksFrom, LinksTo, Good, LinkRows
<1> HIDE DEF h, c, r, found
<1>9. LinksResolve(c) /\ LinkRows(c)
  <2>1. \A j \in DOMAIN c.links :
          /\ c.links[j].base \in c.bases /\ c.links[j].document \in DOMAIN c.documents
          /\ c.links[j] = [base |-> c.links[j].base, document |-> c.links[j].document]
    BY <1>1, <1>2, <1>3, <1>5 DEF Good, Sound, LinksResolve, LinkRows
  <2>2. ASSUME NEW i \in DOMAIN c.links, NEW j \in DOMAIN c.links, c.links[i] = c.links[j]
        PROVE  i = j
    <3>1. CASE i # k /\ j # k
      BY <1>1, <1>3, <2>2, <3>1 DEF Sound, LinksResolve
    <3>2. CASE i = k /\ j # k
      <4>1. j \in found
        BY <1>3, <1>6, <2>2, <3>2
      <4>2. k \in DOMAIN d.links /\ d.links[k] = r /\ d.links[j] = r
        BY <1>7, <1>8, <4>1
      <4> QED  BY <1>1, <1>8, <3>2, <4>1, <4>2 DEF Sound, LinksResolve
    <3>3. CASE j = k /\ i # k
      <4>1. i \in found
        BY <1>3, <1>6, <2>2, <3>3
      <4>2. k \in DOMAIN d.links /\ d.links[k] = r /\ d.links[i] = r
        BY <1>7, <1>8, <4>1
      <4> QED  BY <1>1, <1>8, <3>3, <4>1, <4>2 DEF Sound, LinksResolve
    <3> QED  BY <3>1, <3>2, <3>3
  <2> QED  BY <2>1, <2>2 DEF LinksResolve, LinkRows
<1>10. Good(c)
  <2>1. Shape(c)
    BY <1>1, <1>2 DEF Sound, Shape, Numbered, RootsAreFlat, Seeded, Rows
  <2>2. FoldersRooted(c) /\ SessionsFiled(c) /\ ScopesResolve(c)
    BY <1>1, <1>2 DEF Sound, FoldersRooted, SessionsFiled, ScopesResolve
  <2> QED  BY <1>9, <2>1, <2>2 DEF Good, Sound
<1>11. Good(Held(Drawn(d, h.id), h))
  BY <1>1, <1>2, <1>4, <1>10, HeldAs
<1> QED  BY <1>4, <1>11 DEF h, r
-----------------------------------------------------------------------------
\* What a step may do to the counts of imported messages.
LEMMA CountsKept ==
  ASSUME TablesInv, UNCHANGED counted, DOMAIN pg.messages \subseteq DOMAIN pg'.messages
  PROVE  counted' \in [Postgres!Ids -> Nat] /\ ImportedOnce'
BY DEF TablesInv, ImportedOnce

LEMMA CountsForgotten ==
  ASSUME TablesInv, Postgres!Forget
  PROVE  counted' \in [Postgres!Ids -> Nat] /\ ImportedOnce'
BY DEF TablesInv, ImportedOnce, Postgres!Forget

\* A thread reads and holds a row; nobody else's row is any older for it.
LEMMA HoldKeeps ==
  ASSUME TablesInv, NEW t \in Threads, NEW table \in Written, NEW id, NEW row,
         Postgres!Hold(t, table, id, row),
         ~raced => Good(Held(Drawn(pg, id), Holding(table, id, row)))
  PROVE  TablesInv'
<1>1. /\ boot = "up" /\ proc' = [proc EXCEPT ![t] = Holding(table, id, row)]
      /\ pg' = Drawn(pg, id)
      /\ UNCHANGED <<stale, raced, counted, boot, todo>>
  BY DEF Postgres!Hold, Postgres!UNCHANGED_BOOT, Holding, Drawn
<1>2. /\ Tables(pg) /\ pg.next \in Nat /\ DOMAIN proc = Threads
      /\ \A u \in Threads : proc[u] # Postgres!Idle => proc[u].table \in Written
  BY DEF TablesInv
<1>3. Tables(pg') /\ pg'.next \in Nat /\ pg'.messages = pg.messages
  BY <1>1, <1>2, DrawnIs
<1>4. /\ DOMAIN proc' = Threads /\ proc'[t] = Holding(table, id, row)
      /\ \A u \in Threads : u # t => proc'[u] = proc[u]
  BY <1>1, <1>2
<1>5. Holding(table, id, row).table \in Written
  BY DEF Holding
<1>6. \A u \in Threads : proc'[u] # Postgres!Idle => proc'[u].table \in Written
  BY <1>2, <1>4, <1>5
<1>7. counted' \in [Postgres!Ids -> Nat] /\ ImportedOnce'
  BY <1>1, <1>3, CountsKept
<1>8. ASSUME ~raced
      PROVE  /\ Good(pg')
             /\ \A u \in Threads :
                  proc'[u] # Postgres!Idle /\ u \notin stale => Good(Held(pg', proc'[u]))
  <2>1. Good(pg)
    BY <1>8 DEF TablesInv
  <2>2. Good(pg')
    <3>1. /\ pg.next <= pg'.next
          /\ pg'.projects = pg.projects /\ pg'.folders = pg.folders /\ pg'.bases = pg.bases
          /\ pg'.links = pg.links /\ pg'.documents = pg.documents /\ pg'.agents = pg.agents
          /\ pg'.sessions = pg.sessions
      BY <1>1, <1>2, DrawnIs
    <3> QED  BY <1>3, <2>1, <3>1, SoundLater
  <2>3. ASSUME NEW u \in Threads, proc'[u] # Postgres!Idle, u \notin stale
        PROVE  Good(Held(pg', proc'[u]))
    <3>1. CASE u = t
      BY <1>1, <1>4, <1>8, <3>1
    <3>2. CASE u # t
      <4>1. proc'[u] = proc[u] /\ Good(Held(pg, proc[u])) /\ proc[u].table \in Written
        BY <1>2, <1>4, <1>8, <2>3, <3>2 DEF TablesInv
      <4>2. Good(Held(Drawn(pg, id), proc[u]))
        BY <1>2, <4>1, HeldLater
      <4> QED  BY <1>1, <4>1, <4>2
    <3> QED  BY <3>1, <3>2
  <2> QED  BY <2>2, <2>3
<1>9. boot' = "up" /\ raced' = raced /\ stale' = stale
  BY <1>1
<1> QED  BY <1>3, <1>4, <1>6, <1>7, <1>8, <1>9 DEF TablesInv

\* A commit leaves nobody but the stale with a row to write.
LEMMA CommitKeeps ==
  ASSUME TablesInv, NEW t \in Threads, NEW new,
         Postgres!Commit(t, new), boot = "up", UNCHANGED <<boot, todo>>,
         DOMAIN proc' = Threads, \A u \in Threads : proc'[u] \in {proc[u], Postgres!Idle},
         proc'[t] = Postgres!Idle,
         Tables(new), new.next \in Nat, ~raced' => Good(new),
         counted' \in [Postgres!Ids -> Nat], ImportedOnce'
  PROVE  TablesInv'
<1>1. pg' = new /\ stale' = (stale \cup {u \in Threads \ {t} : proc[u] # Postgres!Idle}) \ {t}
  BY DEF Postgres!Commit
<1>2. \A u \in Threads : proc'[u] # Postgres!Idle => proc'[u].table \in Written
  BY DEF TablesInv
<1>3. \A u \in Threads : proc'[u] # Postgres!Idle => u \in stale'
  BY <1>1
<1>4. boot' = "up"
  OBVIOUS
<1>5. Tables(pg') /\ pg'.next \in Nat /\ (~raced' => Good(pg'))
  BY <1>1
<1> QED  BY <1>2, <1>3, <1>4, <1>5 DEF TablesInv

LEMMA AtOnceKeeps ==
  ASSUME TablesInv, NEW t \in Threads, NEW new, Postgres!AtOnce(t, new),
         Tables(new), new.next \in Nat, ~raced => Good(new),
         counted' \in [Postgres!Ids -> Nat], ImportedOnce'
  PROVE  TablesInv'
<1>1. /\ Postgres!Commit(t, new) /\ boot = "up" /\ proc[t] = Postgres!Idle
      /\ UNCHANGED <<boot, todo, proc, raced>>
  BY DEF Postgres!AtOnce, Postgres!UNCHANGED_BOOT
<1>2. DOMAIN proc = Threads
  BY DEF TablesInv
<1>3. UNCHANGED <<boot, todo>> /\ DOMAIN proc' = Threads /\ proc'[t] = Postgres!Idle
  BY <1>1, <1>2
<1>4. \A u \in Threads : proc'[u] \in {proc[u], Postgres!Idle}
  BY <1>1
<1>5. ~raced' => Good(new)
  BY <1>1
<1> QED  BY <1>1, <1>3, <1>4, <1>5, CommitKeeps

LEMMA UpsertPayloadKeeps ==
  ASSUME TablesInv, NEW t \in Threads, Postgres!UpsertPayload(t)
  PROVE  TablesInv'
<1> DEFINE new == Held(pg, proc[t])
<1>1. /\ proc[t] # Postgres!Idle /\ Postgres!Commit(t, new)
      /\ raced' = (raced \/ t \in stale)
      /\ proc' = [proc EXCEPT ![t] = Postgres!Idle]
      /\ UNCHANGED <<counted, boot, todo>>
  BY DEF Postgres!UpsertPayload, Postgres!UNCHANGED_BOOT, Held
<1>2. /\ Tables(pg) /\ pg.next \in Nat /\ DOMAIN proc = Threads /\ proc[t].table \in Written
      /\ boot = "up"
  BY <1>1 DEF TablesInv
<1>3. Tables(new) /\ new.next \in Nat /\ new.messages = pg.messages
  BY <1>2, UpsertIs
<1>4. ~raced' => Good(new)
  BY <1>1 DEF TablesInv
<1> HIDE DEF new
<1>5. counted' \in [Postgres!Ids -> Nat] /\ ImportedOnce'
  <2>1. pg' = new
    BY <1>1 DEF Postgres!Commit
  <2> QED  BY <1>1, <1>3, <2>1, CountsKept
<1>6. /\ DOMAIN proc' = Threads /\ proc'[t] = Postgres!Idle
      /\ \A u \in Threads : proc'[u] \in {proc[u], Postgres!Idle}
  BY <1>1, <1>2
<1>7. UNCHANGED <<boot, todo>>
  BY <1>1
<1> QED  BY <1>1, <1>2, <1>3, <1>4, <1>5, <1>6, <1>7, CommitKeeps
-----------------------------------------------------------------------------
\* Whatever the rows, one transaction leaves tables and the ids drawn so far.
LEMMA TransactionsAre ==
  ASSUME NEW d, Tables(d), d.next \in Nat
  PROVE  /\ \A x : /\ Tables(DeleteFolder(d, x)) /\ DeleteFolder(d, x).next = d.next
                  /\ DeleteFolder(d, x).links = d.links
         /\ \A x : /\ Tables(DeleteSession(d, x)) /\ DeleteSession(d, x).next = d.next
                  /\ DeleteSession(d, x).links = d.links
         /\ \A x, y :
              /\ Tables(RemoveLink(d, x, y)) /\ RemoveLink(d, x, y).next = d.next
              /\ RemoveLink(d, x, y).messages = d.messages
              /\ DOMAIN RemoveLink(d, x, y).links \subseteq DOMAIN d.links
              /\ \A k \in DOMAIN RemoveLink(d, x, y).links :
                   RemoveLink(d, x, y).links[k] = d.links[k]
<1>1. \A x : /\ Tables(DeleteFolder(d, x)) /\ DeleteFolder(d, x).next = d.next
            /\ DeleteFolder(d, x).links = d.links
  BY DEF DeleteFolder, Tables
<1>2. \A x : /\ Tables(DeleteSession(d, x)) /\ DeleteSession(d, x).next = d.next
            /\ DeleteSession(d, x).links = d.links
  BY DEF DeleteSession, Tables
<1>3. \A x, y :
        /\ Tables(RemoveLink(d, x, y)) /\ RemoveLink(d, x, y).next = d.next
        /\ RemoveLink(d, x, y).messages = d.messages
        /\ DOMAIN RemoveLink(d, x, y).links \subseteq DOMAIN d.links
        /\ \A k \in DOMAIN RemoveLink(d, x, y).links :
             RemoveLink(d, x, y).links[k] = d.links[k]
  BY DEF RemoveLink, Without, Tables
<1> QED  BY <1>1, <1>2, <1>3

\* An upsert that is about to be made from reads that nobody overtook.
LEMMA CallHolds ==
  ASSUME TablesInv, NEW t \in Threads,
         \/ Postgres!SaveProject(t) \/ Postgres!SaveAgent(t) \/ Postgres!NewFolder(t)
         \/ Postgres!Rename(t) \/ Postgres!NewDocument(t) \/ Postgres!IndexDocument(t)
         \/ Postgres!Link(t) \/ Postgres!NewSession(t) \/ Postgres!SaveSession(t)
  PROVE  TablesInv'
<1>0. ~raced => Good(pg)
  BY DEF TablesInv
<1>1. CASE Postgres!SaveProject(t)
  <2>1. PICK asked, p : Postgres!Hold(t, "projects", p, KnownBases(pg, asked))
    BY <1>1, SameRows DEF Postgres!SaveProject
  <2>2. ~raced => Good(Held(Drawn(pg, p), Holding("projects", p, KnownBases(pg, asked))))
    BY <1>0, ProjectHeld
  <2>3. "projects" \in Written
    BY DEF Written
  <2> QED  BY <2>1, <2>2, <2>3, HoldKeeps
<1>2. CASE Postgres!SaveAgent(t)
  <2>1. PICK asked, ps : Postgres!Hold(t, "agents", Judite, AgentRow(pg, ps, asked))
    BY <1>2, SameRows DEF Postgres!SaveAgent
  <2>2. ~raced => Good(Held(Drawn(pg, Judite), Holding("agents", Judite, AgentRow(pg, ps, asked))))
    BY <1>0, AgentHeld
  <2>3. "agents" \in Written
    BY DEF Written
  <2> QED  BY <2>1, <2>2, <2>3, HoldKeeps
<1>3. CASE Postgres!NewFolder(t)
  <2>1. PICK p, parent : /\ Placeable(pg, p, parent)
                         /\ Postgres!Hold(t, "folders", pg.next, FolderRow(pg, p, parent))
    BY <1>3, SameRows DEF Postgres!NewFolder
  <2>2. ~raced => Good(Held(Drawn(pg, pg.next), Holding("folders", pg.next, FolderRow(pg, p, parent))))
    BY <1>0, <2>1, FolderHeld
  <2>3. "folders" \in Written
    BY DEF Written
  <2> QED  BY <2>1, <2>2, <2>3, HoldKeeps
<1>4. CASE Postgres!Rename(t)
  <2>1. PICK f \in DOMAIN pg.folders : Postgres!Hold(t, "folders", f, RenamedRow(pg, f))
    BY <1>4, SameRows DEF Postgres!Rename
  <2>2. ~raced => Good(Held(Drawn(pg, f), Holding("folders", f, RenamedRow(pg, f))))
    BY <1>0, RenamedHeld
  <2>3. "folders" \in Written
    BY DEF Written
  <2> QED  BY <2>1, <2>2, <2>3, HoldKeeps
<1>5. CASE Postgres!NewDocument(t)
  <2>1. PICK f, c : Postgres!Hold(t, "documents", pg.next,
                                  [folder |-> f, categorised |-> c, done |-> FALSE])
    BY <1>5 DEF Postgres!NewDocument
  <2> DEFINE r == [folder |-> f, categorised |-> c, done |-> FALSE]
  <2>2. ~raced => Good(Held(Drawn(pg, pg.next), Holding("documents", pg.next, r)))
    BY <1>0, DocumentHeld
  <2>3. "documents" \in Written
    BY DEF Written
  <2>4. Postgres!Hold(t, "documents", pg.next, r)
    BY <2>1
  <2> HIDE DEF r
  <2> QED  BY <2>2, <2>3, <2>4, HoldKeeps
<1>6. CASE Postgres!IndexDocument(t)
  <2>1. PICK x \in DOMAIN pg.documents :
          Postgres!Hold(t, "documents", x, [pg.documents[x] EXCEPT !.done = TRUE])
    BY <1>6 DEF Postgres!IndexDocument
  <2> DEFINE r == [pg.documents[x] EXCEPT !.done = TRUE]
  <2>2. Postgres!Hold(t, "documents", x, r)
    BY <2>1
  <2>3. DOMAIN r = DOMAIN pg.documents[x]
    OBVIOUS
  <2> HIDE DEF r
  <2>4. ~raced => Good(Held(Drawn(pg, x), Holding("documents", x, r)))
    <3> SUFFICES ASSUME Good(pg) PROVE Good(Held(Drawn(pg, x), Holding("documents", x, r)))
      BY <1>0
    <3>1. DOMAIN r = {"folder", "categorised", "done"}
      BY <2>3 DEF Good, Sound, Shape, Rows
    <3> QED  BY <3>1, IndexedHeld
  <2>5. "documents" \in Written
    BY DEF Written
  <2> QED  BY <2>2, <2>4, <2>5, HoldKeeps
<1>7. CASE Postgres!Link(t)
  <2>1. PICK b \in pg.bases, x \in DOMAIN pg.documents :
          LET found == LinksFrom(pg, b) \cap LinksTo(pg, x)
              id    == IF found = {} THEN pg.next ELSE CHOOSE k \in found : TRUE
          IN  Postgres!Hold(t, "links", id, [base |-> b, document |-> x])
    BY <1>7, SameRows DEF Postgres!Link
  <2> DEFINE found == LinksFrom(pg, b) \cap LinksTo(pg, x)
             k     == IF found = {} THEN pg.next ELSE CHOOSE j \in found : TRUE
             r     == [base |-> b, document |-> x]
  <2>2. Postgres!Hold(t, "links", k, r)
    BY <2>1
  <2>3. IF found = {} THEN k = pg.next ELSE k \in found
    OBVIOUS
  <2> HIDE DEF k
  <2>4. ~raced => Good(Held(Drawn(pg, k), Holding("links", k, r)))
    BY <1>0, <2>3, LinkHeld
  <2>5. "links" \in Written
    BY DEF Written
  <2> HIDE DEF r, found
  <2> QED  BY <2>2, <2>4, <2>5, HoldKeeps
<1>8. CASE Postgres!NewSession(t)
  <2>1. PICK p, f : /\ Resolvable(pg, p, f)
                    /\ Postgres!Hold(t, "sessions", pg.next, SessionRow(pg, p, f))
    BY <1>8, SameRows DEF Postgres!NewSession
  <2>2. ~raced => Good(Held(Drawn(pg, pg.next), Holding("sessions", pg.next, SessionRow(pg, p, f))))
    BY <1>0, <2>1, SessionHeld
  <2>3. "sessions" \in Written
    BY DEF Written
  <2> QED  BY <2>1, <2>2, <2>3, HoldKeeps
<1>9. CASE Postgres!SaveSession(t)
  <2>1. PICK s, p, f : /\ Resolvable(pg, p, f)
                       /\ Postgres!Hold(t, "sessions", s, SessionRow(pg, p, f))
    BY <1>9, SameRows DEF Postgres!SaveSession
  <2>2. ~raced => Good(Held(Drawn(pg, s), Holding("sessions", s, SessionRow(pg, p, f))))
    BY <1>0, <2>1, SessionHeld
  <2>3. "sessions" \in Written
    BY DEF Written
  <2> QED  BY <2>1, <2>2, <2>3, HoldKeeps
<1> QED  BY <1>1, <1>2, <1>3, <1>4, <1>5, <1>6, <1>7, <1>8, <1>9

LEMMA CallCommits ==
  ASSUME TablesInv, NEW t \in Threads, ~LinkColumns,
         \/ Postgres!RemoveFolder(t) \/ Postgres!RemoveSession(t) \/ Postgres!Unlink(t)
         \/ Postgres!RemoveDocument(t) \/ Postgres!RemoveBase(t)
  PROVE  TablesInv'
<1>0. /\ Tables(pg) /\ pg.next \in Nat /\ (~raced => Good(pg))
      /\ \A new : Postgres!AtOnce(t, new) => pg' = new
  BY DEF TablesInv, Postgres!AtOnce, Postgres!Commit
<1>1. CASE Postgres!RemoveFolder(t)
  <2>1. PICK f \in DOMAIN pg.folders : Postgres!AtOnce(t, DeleteFolder(pg, f)) /\ Postgres!Forget
    BY <1>1, SameOperations DEF Postgres!RemoveFolder
  <2>2. ~raced => Good(DeleteFolder(pg, f))
    BY <1>0, DeleteFolderSound, TransactionsAre DEF Good, LinkRows
  <2> QED  BY <1>0, <2>1, <2>2, TransactionsAre, CountsForgotten, AtOnceKeeps
<1>2. CASE Postgres!RemoveSession(t)
  <2>1. PICK s \in DOMAIN pg.sessions : Postgres!AtOnce(t, DeleteSession(pg, s)) /\ Postgres!Forget
    BY <1>2, SameOperations DEF Postgres!RemoveSession
  <2>2. ~raced => Good(DeleteSession(pg, s))
    <3>1. ~raced => Sound(DeleteSession(pg, s))
      BY <1>0, MessagesSound DEF Good
    <3> QED  BY <1>0, <3>1, TransactionsAre DEF Good, LinkRows
  <2> QED  BY <1>0, <2>1, <2>2, TransactionsAre, CountsForgotten, AtOnceKeeps
<1>3. CASE Postgres!Unlink(t)
  <2>1. PICK b \in pg.bases, x \in DOMAIN pg.documents :
          Postgres!AtOnce(t, RemoveLink(pg, b, x)) /\ UNCHANGED counted
    BY <1>3, SameOperations DEF Postgres!Unlink
  <2> DEFINE new == RemoveLink(pg, b, x)
  <2>2. /\ Tables(new) /\ new.next = pg.next /\ new.messages = pg.messages
        /\ DOMAIN new.links \subseteq DOMAIN pg.links
        /\ \A k \in DOMAIN new.links : new.links[k] = pg.links[k]
    BY <1>0, TransactionsAre
  <2>3. ~raced => Good(new)
    <3>1. ~raced => Sound(new)
      BY <1>0, LinksSound DEF Good
    <3> HIDE DEF new
    <3> QED  BY <1>0, <2>2, <3>1 DEF Good, LinkRows
  <2>4. pg' = new /\ Postgres!AtOnce(t, new)
    BY <1>0, <2>1
  <2> HIDE DEF new
  <2>5. counted' \in [Postgres!Ids -> Nat] /\ ImportedOnce'
    BY <2>1, <2>2, <2>4, CountsKept
  <2>6. new.next \in Nat
    BY <1>0, <2>2
  <2> QED  BY <2>2, <2>3, <2>4, <2>5, <2>6, AtOnceKeeps
<1>4. CASE Postgres!RemoveDocument(t) \/ Postgres!RemoveBase(t)
  <2>1. Postgres!AtOnce(t, pg) /\ UNCHANGED counted
    BY <1>4 DEF Postgres!RemoveDocument, Postgres!RemoveBase, Postgres!RemoveLinked
  <2>2. counted' \in [Postgres!Ids -> Nat] /\ ImportedOnce'
    BY <1>0, <2>1, CountsKept
  <2> QED  BY <1>0, <2>1, <2>2, AtOnceKeeps
<1> QED  BY <1>1, <1>2, <1>3, <1>4

\* Messages point to nothing that other tables hold.
LEMMA SayKeeps ==
  ASSUME TablesInv, NEW t \in Threads, Postgres!Say(t)
  PROVE  TablesInv'
<1>1. PICK s : /\ Postgres!AtOnce(t, AddMessage([pg EXCEPT !.next = @ + 1], pg.next, s))
               /\ UNCHANGED counted
  BY SameOperations DEF Postgres!Say
<1> DEFINE new == AddMessage([pg EXCEPT !.next = @ + 1], pg.next, s)
<1>2. Tables(pg) /\ pg.next \in Nat /\ (~raced => Good(pg))
  BY DEF TablesInv
<1>3. pg' = new /\ Postgres!AtOnce(t, new)
  BY <1>1 DEF Postgres!AtOnce, Postgres!Commit
<1>4. /\ Tables(pg) /\ Tables(new) /\ new.next \in Nat
      /\ DOMAIN pg.messages \subseteq DOMAIN new.messages
      /\ new.links = pg.links
  BY DEF TablesInv, AddMessage, Put, Tables
<1>5. ~raced => Good(new)
  <2>1. ~raced => Sound(new) /\ LinkRows(pg)
    BY MessagesSound DEF TablesInv, Good
  <2> HIDE DEF new
  <2> QED  BY <1>4, <2>1 DEF Good, LinkRows
<1> HIDE DEF new
<1>6. counted' \in [Postgres!Ids -> Nat] /\ ImportedOnce'
  BY <1>1, <1>3, <1>4, CountsKept
<1> QED  BY <1>3, <1>4, <1>5, <1>6, AtOnceKeeps

\* A message that was counted is there, so that it is not inserted again.
LEMMA ImportKeeps ==
  ASSUME TablesInv, NEW t \in Threads, Postgres!ImportMessages(t)
  PROVE  TablesInv'
<1>1. PICK s \in DOMAIN pg.sessions, M \in SUBSET Postgres!Ids :
        /\ Postgres!AtOnce(t, AddMessages(Postgres!Passed(pg), M, s))
        /\ counted' = [m \in Postgres!Ids |->
                         counted[m] + (IF m \in M \ DOMAIN pg.messages THEN 1 ELSE 0)]
  BY SameOperations DEF Postgres!ImportMessages, Postgres!Inserted
<1> DEFINE new == AddMessages(Postgres!Passed(pg), M, s)
<1>2. pg' = new /\ Postgres!AtOnce(t, new)
  BY <1>1 DEF Postgres!AtOnce, Postgres!Commit
<1>3. Tables(pg) /\ pg.next \in Nat /\ MaxRows \in Nat
  BY BoundsAssumption DEF TablesInv
<1>4. /\ Tables(new) /\ new.next \in Nat /\ pg.next <= new.next
      /\ DOMAIN new.messages = DOMAIN pg.messages \cup M
      /\ new.projects = pg.projects /\ new.folders = pg.folders /\ new.bases = pg.bases
      /\ new.links = pg.links /\ new.documents = pg.documents /\ new.agents = pg.agents
      /\ new.sessions = pg.sessions
  BY <1>3 DEF Postgres!Passed, AddMessages, Tables
<1> HIDE DEF new
<1>5. ~raced => Good(new)
  BY <1>4, SoundLater DEF TablesInv
<1>6. counted' \in [Postgres!Ids -> Nat] /\ ImportedOnce'
  <2>1. /\ counted \in [Postgres!Ids -> Nat]
        /\ \A m \in Postgres!Ids : counted[m] <= 1 /\ (counted[m] = 1 => m \in DOMAIN pg.messages)
    BY DEF TablesInv, ImportedOnce
  <2>2. counted' \in [Postgres!Ids -> Nat]
    BY <1>1, <2>1
  <2>3. ASSUME NEW m \in Postgres!Ids
        PROVE  counted'[m] <= 1 /\ (counted'[m] = 1 => m \in DOMAIN pg'.messages)
    <3>1. counted[m] \in Nat /\ counted[m] <= 1 /\ (counted[m] = 1 => m \in DOMAIN pg.messages)
      BY <2>1
    <3>2. counted'[m] = counted[m] + (IF m \in M \ DOMAIN pg.messages THEN 1 ELSE 0)
      BY <1>1
    <3>3. DOMAIN pg'.messages = DOMAIN pg.messages \cup M
      BY <1>2, <1>4
    <3> QED  BY <3>1, <3>2, <3>3
  <2> QED  BY <2>2, <2>3 DEF ImportedOnce
<1> QED  BY <1>2, <1>4, <1>5, <1>6, AtOnceKeeps
-----------------------------------------------------------------------------
\* A start writes the rows of agents anew, with projects that exist.
LEMMA MigrateAgentsSound ==
  ASSUME NEW d, Sound(d)
  PROVE  Sound(Postgres!MigrateAgents(d))
<1> DEFINE e == Postgres!MigrateAgents(d)
<1>1. /\ Tables(e) /\ e.next = d.next /\ e.bases = d.bases /\ e.folders = d.folders
      /\ e.projects = d.projects /\ e.links = d.links /\ e.documents = d.documents
      /\ e.sessions = d.sessions
      /\ e.agents = [a \in DOMAIN d.agents |->
           [d.agents[a] EXCEPT !.projects = Postgres!KnownProjects(d, @)]]
  BY DEF Postgres!MigrateAgents, Sound, Shape, Tables
<1> HIDE DEF e
<1>2. ASSUME NEW a \in DOMAIN d.agents
      PROVE  /\ DOMAIN e.agents[a] = {"projects", "bases"}
             /\ e.agents[a].bases = d.agents[a].bases
             /\ e.agents[a].projects # {} /\ e.agents[a].projects \subseteq DOMAIN d.projects
  <2>1. DOMAIN d.agents[a] = {"projects", "bases"}
    BY DEF Sound, Shape, Rows
  <2>2. /\ DOMAIN e.agents[a] = {"projects", "bases"}
        /\ e.agents[a].bases = d.agents[a].bases
        /\ e.agents[a].projects = KnownProjects(d, d.agents[a].projects)
    BY <1>1, <2>1, SameRows
  <2>3. General \in DOMAIN d.projects
    BY DEF Sound, Shape, Seeded
  <2> QED  BY <2>2, <2>3 DEF KnownProjects
<1>3. DOMAIN e.agents = DOMAIN d.agents
  BY <1>1
<1>4. Shape(e)
  BY <1>1, <1>2, <1>3 DEF Sound, Shape, Numbered, RootsAreFlat, Seeded, Rows
<1>5. FoldersRooted(e) /\ SessionsFiled(e) /\ LinksResolve(e)
  BY <1>1 DEF Sound, FoldersRooted, SessionsFiled, LinksResolve
<1>6. ScopesResolve(e)
  BY <1>1, <1>2, <1>3 DEF Sound, ScopesResolve
<1> QED  BY <1>4, <1>5, <1>6 DEF Sound, e

\* What a start makes of the tables, whatever the rows.
LEMMA BootIs ==
  ASSUME NEW d, Tables(d), d.next \in Nat
  PROVE  LET e == Postgres!BootTables(d) IN
         /\ Tables(e) /\ e.next \in Nat /\ e.messages = d.messages /\ e.links = d.links
         /\ Good(d) => Good(e)
<1> DEFINE c == MigrateCategory(d)
           f == MigrateDocuments(c)
           e == Postgres!MigrateAgents(f)
<1>1. Tables(c) /\ c.next \in Nat /\ c.messages = d.messages /\ c.links = d.links
  BY DEF MigrateCategory, Tables
<1>2. Tables(f) /\ f.next = c.next /\ f.messages = c.messages /\ f.links = c.links
  <2> HIDE DEF c
  <2> QED  BY <1>1 DEF MigrateDocuments, Tables
<1>3. Tables(e) /\ e.next = f.next /\ e.messages = f.messages /\ e.links = f.links
  <2> HIDE DEF f
  <2> QED  BY <1>2 DEF Postgres!MigrateAgents, Tables
<1>4. Sound(d) => Sound(e)
  BY MigrateCategorySound, MigrateDocumentsSound, MigrateAgentsSound
<1>5. Postgres!BootTables(d) = e
  BY SameOperations DEF Postgres!BootTables
<1> HIDE DEF c, f, e
<1>6. Good(d) => Good(e)
  BY <1>1, <1>2, <1>3, <1>4 DEF Good, LinkRows
<1> QED  BY <1>1, <1>2, <1>3, <1>5, <1>6

LEMMA TablesInitial == Postgres!Init => TablesInv
<1> SUFFICES ASSUME Postgres!Init PROVE TablesInv
  OBVIOUS
<1>1. /\ pg = Postgres!BootTables(Seed) /\ proc = [t \in Threads |-> Postgres!Idle]
      /\ boot = "up" /\ counted = [m \in Postgres!Ids |-> 0]
  BY SameOperations DEF Postgres!Init
<1>2. Good(Seed) /\ Tables(Seed) /\ Seed.next \in Nat
  BY SeedSound DEF Seed, Good, LinkRows, Tables
<1>3. Tables(pg) /\ pg.next \in Nat /\ Good(pg)
  BY <1>1, <1>2, BootIs
<1>4. counted \in [Postgres!Ids -> Nat] /\ ImportedOnce
  BY <1>1 DEF ImportedOnce
<1> QED  BY <1>1, <1>3, <1>4 DEF TablesInv

LEMMA StartKeeps ==
  ASSUME TablesInv, Postgres!Start
  PROVE  TablesInv'
<1>1. /\ boot = "down" /\ boot' = "links" /\ pg' = Postgres!BootTables(pg)
      /\ todo' = Postgres!BootLinks(pg')
      /\ UNCHANGED <<proc, stale, raced, counted>>
  BY DEF Postgres!Start
<1>2. Tables(pg) /\ pg.next \in Nat /\ \A t \in Threads : proc[t] = Postgres!Idle
  BY <1>1 DEF TablesInv
<1>3. /\ Tables(pg') /\ pg'.next \in Nat /\ pg'.messages = pg.messages
      /\ Good(pg) => Good(pg')
  BY <1>1, <1>2, BootIs
<1>4. Unlinked(pg', todo')
  BY <1>1, SameRows DEF Unlinked, Postgres!BootLinks, Indexed
<1>5. counted' \in [Postgres!Ids -> Nat] /\ ImportedOnce'
  BY <1>1, <1>3, CountsKept
<1>6. \A t \in Threads : proc'[t] = Postgres!Idle
  BY <1>1, <1>2
<1>7. DOMAIN proc' = Threads /\ (~raced' => Good(pg'))
  BY <1>1, <1>3 DEF TablesInv
<1> QED  BY <1>3, <1>4, <1>5, <1>6, <1>7 DEF TablesInv

\* The start inserts a link for a document that has none yet.
LEMMA InsertLinkKeeps ==
  ASSUME TablesInv, Postgres!InsertLink
  PROVE  TablesInv'
<1>1. PICK x \in todo :
        /\ todo' = todo \ {x}
        /\ pg' = [pg EXCEPT !.links = Put(@, pg.next, [base |-> DefaultBase, document |-> x]),
                            !.bases = @ \cup {DefaultBase},
                            !.next = @ + 1]
  BY SameRows DEF Postgres!InsertLink
<1>2. boot = "links" /\ UNCHANGED <<proc, boot, stale, raced, counted>>
  BY DEF Postgres!InsertLink
<1> DEFINE r == [base |-> DefaultBase, document |-> x]
<1>3. Tables(pg) /\ pg.next \in Nat /\ \A t \in Threads : proc[t] = Postgres!Idle
  BY <1>2 DEF TablesInv
<1>4. /\ Tables(pg') /\ pg'.next = pg.next + 1 /\ pg'.messages = pg.messages
      /\ pg'.bases = pg.bases \cup {DefaultBase} /\ pg'.links = Put(pg.links, pg.next, r)
      /\ pg'.projects = pg.projects /\ pg'.folders = pg.folders
      /\ pg'.documents = pg.documents /\ pg'.agents = pg.agents /\ pg'.sessions = pg.sessions
  BY <1>1, <1>3 DEF Tables
<1>5. r.base = DefaultBase /\ r.document = x /\ r = [base |-> r.base, document |-> r.document]
  OBVIOUS
<1> HIDE DEF r
<1>6. /\ DOMAIN pg'.links = DOMAIN pg.links \cup {pg.next} /\ pg'.links[pg.next] = r
      /\ \A k \in DOMAIN pg.links : k # pg.next => pg'.links[k] = pg.links[k]
  BY <1>4 DEF Put
<1>7. ASSUME ~raced PROVE Good(pg') /\ Unlinked(pg', todo')
  <2>1. Sound(pg) /\ LinkRows(pg) /\ Unlinked(pg, todo)
    BY <1>2, <1>7 DEF TablesInv, Good
  <2>2. Shape(pg')
    BY <1>3, <1>4, <2>1 DEF Sound, Shape, Numbered, RootsAreFlat, Seeded, Rows
  <2>3. FoldersRooted(pg') /\ SessionsFiled(pg') /\ ScopesResolve(pg')
    BY <1>4, <2>1 DEF Sound, FoldersRooted, SessionsFiled, ScopesResolve
  <2>4. LinkRows(pg')
    BY <1>5, <1>6, <2>1 DEF LinkRows
  <2>5. ASSUME NEW k \in DOMAIN pg'.links
        PROVE  pg'.links[k].base \in pg'.bases /\ pg'.links[k].document \in DOMAIN pg'.documents
    BY <1>4, <1>5, <1>6, <2>1 DEF Sound, LinksResolve, Unlinked
  <2>6. ASSUME NEW k \in DOMAIN pg'.links, NEW j \in DOMAIN pg'.links, pg'.links[j] = pg'.links[k]
        PROVE  j = k
    <3>1. \A i \in DOMAIN pg.links : pg.links[i].document # x
      BY <2>1 DEF Unlinked
    <3> QED  BY <1>5, <1>6, <2>1, <2>6, <3>1 DEF Sound, LinksResolve
  <2>7. LinksResolve(pg')
    BY <2>5, <2>6 DEF LinksResolve
  <2>8. Unlinked(pg', todo')
    BY <1>1, <1>4, <1>5, <1>6, <2>1 DEF Unlinked
  <2> QED  BY <2>2, <2>3, <2>4, <2>7, <2>8 DEF Good, Sound
<1>8. counted' \in [Postgres!Ids -> Nat] /\ ImportedOnce'
  BY <1>2, <1>4, CountsKept
<1>9. \A t \in Threads : proc'[t] = Postgres!Idle
  BY <1>2, <1>3
<1>10. /\ DOMAIN proc' = Threads /\ pg'.next \in Nat
       /\ ~raced' => Good(pg') /\ Unlinked(pg', todo')
  BY <1>2, <1>3, <1>4, <1>7 DEF TablesInv
<1> QED  BY <1>4, <1>8, <1>9, <1>10 DEF TablesInv

LEMMA TablesInductive ==
  ~LinkColumns => (TablesInv /\ [Postgres!Next]_(Postgres!vars) => TablesInv')
<1> SUFFICES ASSUME ~LinkColumns, TablesInv, [Postgres!Next]_(Postgres!vars)
             PROVE  TablesInv'
  OBVIOUS
<1>1. ASSUME NEW t \in Threads, Postgres!Call(t) PROVE TablesInv'
  BY <1>1, CallHolds, CallCommits, SayKeeps, ImportKeeps, UpsertPayloadKeeps DEF Postgres!Call
<1>2. CASE Postgres!Kill
  <2>1. /\ boot' = "down" /\ proc' = [t \in Threads |-> Postgres!Idle]
        /\ UNCHANGED <<pg, raced, counted>>
    BY <1>2 DEF Postgres!Kill
  <2>2. counted' \in [Postgres!Ids -> Nat] /\ ImportedOnce'
    BY <2>1, CountsKept
  <2>3. Tables(pg') /\ pg'.next \in Nat /\ (~raced' => Good(pg'))
    BY <2>1 DEF TablesInv
  <2>4. DOMAIN proc' = Threads /\ \A t \in Threads : proc'[t] = Postgres!Idle
    BY <2>1
  <2> QED  BY <2>1, <2>2, <2>3, <2>4 DEF TablesInv
<1>3. CASE Postgres!Serve
  <2>1. /\ boot = "links" /\ boot' = "up" /\ UNCHANGED <<pg, proc, stale, raced, counted>>
    BY <1>3 DEF Postgres!Serve
  <2>2. counted' \in [Postgres!Ids -> Nat] /\ ImportedOnce'
    BY <2>1, CountsKept
  <2>3. Tables(pg') /\ pg'.next \in Nat /\ (~raced' => Good(pg'))
    BY <2>1 DEF TablesInv
  <2>4. DOMAIN proc' = Threads /\ \A t \in Threads : proc'[t] = Postgres!Idle
    BY <2>1 DEF TablesInv
  <2> QED  BY <2>1, <2>2, <2>3, <2>4 DEF TablesInv
<1>4. CASE UNCHANGED Postgres!vars
  <2>1. UNCHANGED <<pg, proc, boot, todo, stale, raced, counted>>
    BY <1>4 DEF Postgres!vars
  <2>2. counted' \in [Postgres!Ids -> Nat] /\ ImportedOnce'
    BY <2>1, CountsKept
  <2> QED  BY <2>1, <2>2 DEF TablesInv
<1> QED  BY <1>1, <1>2, <1>3, <1>4, StartKeeps, InsertLinkKeeps DEF Postgres!Next

\* However calls of any number of threads, deaths and starts interleave, an
\* import counts a message once, and only a row computed from reads that
\* another commit has overtaken can point nowhere.  The link table is the one
\* that init_schema creates: with the columns of the older version, deleting a
\* document leaves its links.
THEOREM CommitsAddUpHolds == ASSUME ~LinkColumns PROVE Postgres!Spec => []CommitsAddUp
<1>1. TablesInv => CommitsAddUp
  BY DEF TablesInv, Good, Sound, CommitsAddUp, AloneIsSafe
<1> QED  BY <1>1, TablesInitial, TablesInductive, PTL DEF Postgres!Spec
=============================================================================
