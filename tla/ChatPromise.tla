---------------------------- MODULE ChatPromise ----------------------------
(***************************************************************************)
(* What plain chat is for: the part of the state of ChatTurns that its     *)
(* users and the budget depend on, and what is promised of it.             *)
(***************************************************************************)
EXTENDS Naturals, FiniteSets

CONSTANTS
  Sessions,     \* ids of chat sessions
  Files,        \* platform files that may be attached
  Linked,       \* those whose document is in a knowledge base
  Turns,        \* requests to /chat/stream, numbered as they arrive
  Budget,       \* monthly_budget_brl
  Estimate,     \* cost of a call by estimate_cost before it
  MaxCost,      \* bound: what a call can cost in the end
  RequireTitle, \* settings.require_chat_title, off by default
  Absent        \* no session, no file

VARIABLES
  chats,        \* chats[s]: the row of a session, or Absent
  log,          \* the messages: [turn, role, session, file]
  files,        \* files[f]: its scope in metadata, or Absent
  turn,         \* turn[t]: a request, with the copy of the session it read
  dropped,      \* history: turns that ended in the middle of their answer
  overlapped,   \* history: sessions with a turn in flight during some edit
  paid,         \* history: the part of spend that calls to the provider cost
  peak,         \* history: the most turns that were in flight at once
  gone,         \* history: sessions deleted
  settled       \* history: sessions that no one used or took a file of since their last move

MessageFiles(s) == {m.file : m \in {m \in log : m.session = s}} \ {Absent}
\* session_related_file_ids
Related(s) == MessageFiles(s) \cup {f \in Files : files[f] # Absent /\ files[f].session = s}
-----------------------------------------------------------------------------
\* The budget is exceeded only by what calls in flight together cost above
\* their estimate: every call was let through within the budget.
OverrunBounded == paid > Budget => paid + Estimate <= Budget + peak * MaxCost

\* What the provider was asked is in the audit log: an answered turn has both
\* messages, and only a turn cut in the middle of its answer is not billed.
AnsweredIsRecorded ==
  \A t \in Turns : turn[t].pc = "done" /\ t \notin dropped /\ turn[t].session \notin gone =>
    \A r \in {"user", "assistant"} :
      \E m \in log : m.turn = t /\ m.role = r /\ m.session = turn[t].session

\* The budget sees every call, and what it did not see in time is bounded.
SpendIsAccounted == OverrunBounded /\ AnsweredIsRecorded

\* A message of a living session shows no file that a deletion removed, unless
\* the turn and the deletion overlapped.
AttachmentsSurvive ==
  \A m \in log :
    \/ m.file = Absent \/ files[m.file] # Absent
    \/ m.session \in overlapped \/ chats[m.session] = Absent

\* A file of a knowledge base outlives every session that used it.
KnowledgeSurvives == \A f \in Linked : files[f] # Absent

\* A deleted session leaves no row and no messages behind, unless one of its
\* turns was going on, which writes the row back.
DeletedStaysDeleted ==
  \A s \in gone \ overlapped : chats[s] = Absent /\ \A m \in log : m.session # s

\* After a move, and until the next request on the session or the next move of
\* another one that shares a file with it, all its files are in its project.
MoveCarriesFiles ==
  \A s \in settled : s \notin overlapped /\ chats[s] # Absent =>
    \A f \in Related(s) : files[f] = Absent \/ files[f].project = chats[s].project

\* Where titles are required, no session has messages before it has a title,
\* unless a stale copy of the draft was written back over it.
TitledBeforeMessages ==
  RequireTitle =>
    \A m \in log :
      chats[m.session] = Absent \/ chats[m.session].titled \/ m.session \in overlapped

\* A session, its messages and its files live, move and end together.
SessionsKeepTogether ==
  /\ AttachmentsSurvive
  /\ KnowledgeSurvives
  /\ DeletedStaysDeleted
  /\ MoveCarriesFiles
  /\ TitledBeforeMessages
=============================================================================
