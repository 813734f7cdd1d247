----------------------------- MODULE ChatTurns -----------------------------
(***************************************************************************)
(* Plain chat over shared sessions and files: api/routes/chat.py (turns,   *)
(* moves, contexts), chat/session_cleanup.py (deletion of a session with   *)
(* its files), cost_governor/service.py (the budget).  The sessions are    *)
(* drafts that routes have created.                                        *)
(*                                                                         *)
(* A turn is a coroutine of the one event loop: other turns run only where *)
(* it awaits (the vector search, the provider).  Deletions, moves and      *)
(* context updates run in threads, between any two calls to the store.     *)
(* Costs are small integers; what an answer costs is known at its end.     *)
(***************************************************************************)
EXTENDS ChatPromise, FiniteSetsExt

CONSTANTS
  Projects,     \* project ids
  Home,         \* the project that sessions and files start in
  MaxEdits      \* bound: deletions, moves and context updates

ChatAssumption ==
  /\ Budget \in Nat /\ Estimate \in Nat /\ MaxCost \in Nat /\ MaxEdits \in Nat
  /\ Turns \subseteq Nat /\ Linked \subseteq Files /\ Home \in Projects
  /\ RequireTitle \in BOOLEAN

VARIABLES
  spend,        \* monthly_spend over the audit events
  edit,         \* the thread that deletes, moves or updates a session
  left          \* edits left

store == <<chats, log, files, spend>>
history == <<dropped, overlapped, paid, peak, gone, settled>>
vars == <<chats, log, files, spend, turn, edit, left, dropped, overlapped,
          paid, peak, gone, settled>>

Row(p) == [project |-> p, titled |-> FALSE, draft |-> TRUE]
Rows == [project : Projects, titled : BOOLEAN, draft : BOOLEAN]
FileRows == [project : Projects, session : Sessions \cup {Absent}]
AbsentAssumption == Absent \notin Sessions \cup Files /\ Absent \notin Rows /\ Absent \notin FileRows
NoTurn == [pc |-> "none", session |-> Absent, file |-> Absent, copy |-> Absent, seen |-> 0]
NoEdit == [pc |-> "idle", session |-> Absent, copy |-> Absent, related |-> {}, elsewhere |-> {}]

\* Between these a turn keeps the event loop.
Running == {"title", "scope", "attach", "user", "audit", "blocked"}
InFlight == Running \cup {"search", "answer", "assistant"}

Init ==
  /\ chats = [s \in Sessions |-> Row(Home)]
  /\ log = {}
  /\ files = [f \in Files |-> [project |-> Home, session |-> Absent]]
  /\ spend = 0
  /\ turn = [t \in Turns |-> NoTurn]
  /\ edit = NoEdit
  /\ left = MaxEdits
  /\ paid = 0 /\ peak = 0
  /\ dropped = {} /\ overlapped = {} /\ gone = {} /\ settled = {}

-----------------------------------------------------------------------------
At(t, pc) == turn[t].pc = pc
LoopFree(t) == \A u \in Turns \ {t} : turn[u].pc \notin Running
Goto(t, pc) == turn' = [turn EXCEPT ![t].pc = pc]
TurnsInFlight == {t \in Turns : turn[t].pc \in InFlight}

-----------------------------------------------------------------------------
(***************************************************************************)
(* stream_chat                                                             *)
(***************************************************************************)
\* (mutant of Start) a draft without a title is let through.
Start_Untitled(t, s, f, p, titles) ==
  /\ At(t, "none") /\ LoopFree(t)
  /\ \A u \in Turns : u < t => turn[u].pc # "none"
  /\ chats[s] # Absent
  /\ turn' = [turn EXCEPT ![t] =
       [pc |-> "title", session |-> s, file |-> f, seen |-> 0,
        copy |-> [chats[s] EXCEPT !.project = p, !.titled = @ \/ titles]]]
  /\ settled' = settled \ {s}
  /\ overlapped' = IF edit = NoEdit THEN overlapped ELSE overlapped \cup {s}
  /\ peak' = Max({peak, Cardinality(TurnsInFlight) + 1})
  /\ UNCHANGED <<store, edit, left, dropped, paid, gone>>

\* The session is read; an unknown project falls back, a draft without a title
\* is refused where titles are required.
Start(t, s, f, p, titles) ==
  /\ At(t, "none") /\ LoopFree(t)
  /\ \A u \in Turns : u < t => turn[u].pc # "none"
  /\ chats[s] # Absent
  /\ turn' = [turn EXCEPT ![t] =
       [pc |-> IF RequireTitle /\ chats[s].draft /\ ~titles THEN "refused" ELSE "title",
        session |-> s, file |-> f, seen |-> 0,
        copy |-> [chats[s] EXCEPT !.project = p, !.titled = @ \/ titles]]]
  /\ settled' = settled \ {s}
  /\ overlapped' = IF edit = NoEdit THEN overlapped ELSE overlapped \cup {s}
  /\ peak' = Max({peak, Cardinality(TurnsInFlight) + 1})
  /\ UNCHANGED <<store, edit, left, dropped, paid, gone>>

\* _apply_stream_title_to_session, and the project and folder of the request,
\* and _clear_empty_draft_flag: upserts of the copy.
SaveTitle(t) ==
  /\ At(t, "title")
  /\ turn' = [turn EXCEPT ![t].pc = "scope", ![t].copy.draft = FALSE]
  /\ chats' = [chats EXCEPT ![turn[t].session] = [turn[t].copy EXCEPT !.draft = FALSE]]
  /\ UNCHANGED <<log, files, spend, edit, left, history>>

\* (mutant of Preflight) the cost is not looked at.
Preflight_Free(t) ==
  /\ At(t, "scope")
  /\ LET f == turn[t].file
         pc == IF f = Absent THEN "search"
               ELSE IF files[f] = Absent \/ files[f].project # turn[t].copy.project
               THEN "refused" ELSE "attach"
     IN turn' = [turn EXCEPT ![t].pc = pc, ![t].seen = spend]
  /\ UNCHANGED <<store, edit, left, history>>

\* The budget is checked against the events so far; attachments must exist and
\* belong to the active project.
Preflight(t) ==
  /\ At(t, "scope")
  /\ LET f == turn[t].file
         pc == IF spend + Estimate > Budget THEN "blocked"
               ELSE IF f = Absent THEN "search"
               ELSE IF files[f] = Absent \/ files[f].project # turn[t].copy.project
               THEN "refused" ELSE "attach"
     IN turn' = [turn EXCEPT ![t].pc = pc, ![t].seen = spend]
  /\ UNCHANGED <<store, edit, left, history>>

Say(t, role) ==
  log' = log \cup {[turn |-> t, role |-> role, session |-> turn[t].session,
                    file |-> IF role = "user" THEN turn[t].file ELSE Absent]}

\* A blocked request still leaves its two messages; its event costs nothing
\* more than was estimated.
AnswerBlocked(t) ==
  /\ At(t, "blocked")
  /\ log' = log \cup {[turn |-> t, role |-> r, session |-> turn[t].session, file |-> Absent]
                       : r \in {"user", "assistant"}}
  /\ spend' = spend + Estimate
  /\ Goto(t, "done")
  /\ UNCHANGED <<chats, files, edit, left, history>>

\* The file belongs to the first session it is attached in.
Attach(t) ==
  /\ At(t, "attach")
  /\ LET f == turn[t].file
     IN IF files[f] = Absent THEN Goto(t, "refused") /\ UNCHANGED files
        ELSE /\ files' = [files EXCEPT ![f].session = IF @ = Absent THEN turn[t].session ELSE @]
             /\ Goto(t, "search")
  /\ UNCHANGED <<chats, log, spend, edit, left, history>>

\* After the search the session is written back from the copy, ...
SaveContext(t) ==
  /\ At(t, "search") /\ LoopFree(t)
  /\ chats' = [chats EXCEPT ![turn[t].session] = turn[t].copy]
  /\ Goto(t, "user")
  /\ UNCHANGED <<log, files, spend, edit, left, history>>

\* ... the message of the user is added, and the provider called.
AddUserMessage(t) ==
  /\ At(t, "user")
  /\ Say(t, "user")
  /\ Goto(t, "answer")
  /\ UNCHANGED <<chats, files, spend, edit, left, history>>

\* (mutant of AddAnswer) the answer is billed and not saved.
AddAnswer_Unsaved(t) ==
  /\ At(t, "answer") /\ LoopFree(t)
  /\ Goto(t, "audit")
  /\ UNCHANGED <<store, edit, left, history>>

\* The stream ends, with text or with a provider error that becomes text.
AddAnswer(t) ==
  /\ At(t, "answer") /\ LoopFree(t)
  /\ Say(t, "assistant")
  /\ Goto(t, "audit")
  /\ UNCHANGED <<chats, files, spend, edit, left, history>>

\* The client disconnects, or an error that is not a provider error (an HTTP
\* error of generate_image) leaves the generator: nothing of the rest runs.
Drop(t) ==
  /\ At(t, "answer") /\ LoopFree(t)
  /\ Goto(t, "done")
  /\ dropped' = dropped \cup {t}
  /\ UNCHANGED <<store, edit, left, overlapped, paid, peak, gone, settled>>

\* record_audit_event with the cost of the tokens that came.
RecordCost(t, cost) ==
  /\ At(t, "audit")
  /\ spend' = spend + cost
  /\ paid' = paid + cost
  /\ Goto(t, "done")
  /\ UNCHANGED <<chats, log, files, edit, left, dropped, overlapped, peak, gone, settled>>

-----------------------------------------------------------------------------
(***************************************************************************)
(* Edits of a session                                                      *)
(***************************************************************************)
Begins(s) ==
  /\ edit.pc = "idle" /\ left > 0 /\ left' = left - 1
  /\ chats[s] # Absent
  /\ overlapped' = overlapped \cup {turn[t].session : t \in TurnsInFlight}

\* delete_chat_session_with_files: the files of the session ...
BeginDelete(s) ==
  /\ Begins(s)
  /\ edit' = [NoEdit EXCEPT !.pc = "elsewhere", !.session = s, !.related = Related(s)]
  /\ settled' = settled \ {s}
  /\ UNCHANGED <<store, turn, dropped, paid, peak, gone>>

\* (mutant of FindElsewhere) other sessions are not looked at.
FindElsewhere_Bases ==
  /\ edit.pc = "elsewhere"
  /\ edit' = [edit EXCEPT !.pc = "delete", !.elsewhere = Linked]
  /\ UNCHANGED <<store, turn, left, history>>

\* (mutant of FindElsewhere) knowledge bases are not looked at.
FindElsewhere_Chats ==
  /\ edit.pc = "elsewhere"
  /\ edit' = [edit EXCEPT !.pc = "delete",
       !.elsewhere = UNION {MessageFiles(s) : s \in {s \in Sessions \ {edit.session} :
                                                        chats[s] # Absent}}]
  /\ UNCHANGED <<store, turn, left, history>>

\* ... those that a message of another session or a knowledge base shows ...
FindElsewhere ==
  /\ edit.pc = "elsewhere"
  /\ edit' = [edit EXCEPT !.pc = "delete",
       !.elsewhere = Linked \cup
         UNION {MessageFiles(s) : s \in {s \in Sessions \ {edit.session} : chats[s] # Absent}}]
  /\ UNCHANGED <<store, turn, left, history>>

\* (mutant of DeleteSession) the messages stay.
DeleteSession_Row ==
  /\ edit.pc = "delete"
  /\ chats' = [chats EXCEPT ![edit.session] = Absent]
  /\ gone' = gone \cup {edit.session}
  /\ edit' = [edit EXCEPT !.pc = "files", !.related = @ \ edit.elsewhere]
  /\ UNCHANGED <<log, files, spend, turn, left, dropped, paid, peak, overlapped, settled>>

\* ... the session and its messages ...
DeleteSession ==
  /\ edit.pc = "delete"
  /\ chats' = [chats EXCEPT ![edit.session] = Absent]
  /\ log' = {m \in log : m.session # edit.session}
  /\ gone' = gone \cup {edit.session}
  /\ edit' = [edit EXCEPT !.pc = "files", !.related = @ \ edit.elsewhere]
  /\ UNCHANGED <<files, spend, turn, left, dropped, paid, peak, overlapped, settled>>

\* ... and, one by one, the files that nothing else showed.
DeleteFile(f) ==
  /\ edit.pc = "files" /\ f \in edit.related
  /\ files' = [files EXCEPT ![f] = Absent]
  /\ edit' = [edit EXCEPT !.related = @ \ {f}]
  /\ UNCHANGED <<chats, log, spend, turn, left, history>>

EndDelete ==
  /\ edit.pc = "files" /\ edit.related = {}
  /\ edit' = NoEdit
  /\ UNCHANGED <<store, turn, left, history>>

\* move_session: move_chat_session is one step of the store ...
Move(s, p) ==
  /\ Begins(s)
  /\ chats' = [chats EXCEPT ![s].project = p]
  /\ edit' = [NoEdit EXCEPT !.pc = "follow", !.session = s,
                !.copy = [chats[s] EXCEPT !.project = p], !.related = Related(s)]
  /\ settled' = {r \in settled \ {s} : Related(r) \cap Related(s) = {}}
  /\ UNCHANGED <<log, files, spend, turn, dropped, paid, peak, gone>>

\* (mutant of MoveFile) the files stay in the project they were in.
MoveFile_Stays(f) ==
  /\ edit.pc = "follow" /\ f \in edit.related
  /\ edit' = [edit EXCEPT !.related = @ \ {f}]
  /\ UNCHANGED <<store, turn, left, history>>

\* ... _sync_session_assets_scope then updates the files one by one.
MoveFile(f) ==
  /\ edit.pc = "follow" /\ f \in edit.related
  /\ files' = [files EXCEPT ![f] = IF @ = Absent THEN @
                                   ELSE [@ EXCEPT !.project = edit.copy.project]]
  /\ edit' = [edit EXCEPT !.related = @ \ {f}]
  /\ UNCHANGED <<chats, log, spend, turn, left, history>>

EndMove ==
  /\ edit.pc = "follow" /\ edit.related = {}
  /\ edit' = NoEdit
  /\ settled' = settled \cup {edit.session}
  /\ UNCHANGED <<store, turn, left, dropped, paid, peak, overlapped, gone>>

\* update_session_context reads the session and writes the copy back.
ReadContext(s) ==
  /\ Begins(s)
  /\ edit' = [NoEdit EXCEPT !.pc = "context", !.session = s, !.copy = chats[s]]
  /\ settled' = settled \ {s}
  /\ UNCHANGED <<store, turn, dropped, paid, peak, gone>>

WriteContext ==
  /\ edit.pc = "context"
  /\ chats' = [chats EXCEPT ![edit.session] = edit.copy]
  /\ edit' = NoEdit
  /\ UNCHANGED <<log, files, spend, turn, left, history>>

-----------------------------------------------------------------------------
Turn(t) ==
  \/ SaveTitle(t) \/ Preflight(t) \/ AnswerBlocked(t) \/ Attach(t)
  \/ SaveContext(t) \/ AddUserMessage(t) \/ AddAnswer(t) \/ Drop(t)
  \/ \E cost \in 0 .. MaxCost : RecordCost(t, cost)

Edit ==
  \/ FindElsewhere \/ DeleteSession \/ EndDelete \/ EndMove \/ WriteContext
  \/ \E f \in Files : DeleteFile(f) \/ MoveFile(f)

Next ==
  \/ \E t \in Turns, s \in Sessions, f \in Files \cup {Absent}, p \in Projects,
        titles \in BOOLEAN : Start(t, s, f, p, titles)
  \/ \E t \in Turns : Turn(t)
  \/ \E s \in Sessions : BeginDelete(s) \/ ReadContext(s)
  \/ \E s \in Sessions, p \in Projects : Move(s, p)
  \/ Edit

Spec == Init /\ [][Next]_vars
=============================================================================
