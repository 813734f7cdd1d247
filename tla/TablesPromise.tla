---------------------------- MODULE TablesPromise ----------------------------
(***************************************************************************)
(* What the tables in PostgreSQL are for: the rows that are committed, and *)
(* what is promised of them although calls interleave.                     *)
(***************************************************************************)
EXTENDS WorkspaceStore

VARIABLES
  pg,      \* the committed rows
  \* history
  raced,   \* a row computed from an overtaken read was committed
  counted  \* how often add_messages counted a message since it was last deleted

\* Every operation alone keeps the tables together: a row that points nowhere
\* was computed before somebody else's commit.
AloneIsSafe ==
  ~raced => FoldersRooted(pg) /\ SessionsFiled(pg) /\ ScopesResolve(pg) /\ LinksResolve(pg)

\* Imports that bring the same messages count each of them once between them,
\* however they interleave with deletions and with messages sent in the chat.
ImportedOnce ==
  \A m \in DOMAIN counted : counted[m] <= 1 /\ (counted[m] = 1 => m \in DOMAIN pg.messages)

\* What concurrent calls commit adds up: imports count each row once, and only
\* a race leaves a row that points nowhere.
CommitsAddUp == AloneIsSafe /\ ImportedOnce
=============================================================================
