---------------------------- MODULE FusionBridge ----------------------------
(***************************************************************************)
(* FusionDesktopAdapter and what it talks to: Autodesk's MCP server inside *)
(* Fusion or, without it, the add-in of this repository.  The add-in runs  *)
(* a thread per connection, which queues the tool for Fusion's main thread *)
(* and waits for it; the adapter stops waiting long before that thread     *)
(* does.  The adapter keeps its last status for a while and, after several *)
(* failures, leaves the add-in alone for a while.  What the tools do to    *)
(* the design is left out: a tool that ran is an entry in the document.    *)
(*                                                                         *)
(* The add-in tells its address in a file, by default in the home of the   *)
(* user; the adapter reads the one in the state directory of the backend.  *)
(* SamePath says whether the environment makes them the same file.         *)
(***************************************************************************)
EXTENDS BridgePromise, Sequences

CONSTANTS
  Threshold,    \* BACKOFF_THRESHOLD
  MaxEvents,    \* starts, stops and crashes of the servers in Fusion
  MaxTimeouts,  \* answers that do not come in time
  SamePath,     \* the adapter reads the file that the add-in writes
  None          \* no status, no discovery file

BridgeAssumption == Threshold \in Nat \ {0} /\ SamePath \in BOOLEAN

VARIABLES
  official,   \* Autodesk's MCP server answers
  addin,      \* the add-in: its session while it runs, 0 otherwise
  sessions,   \* sessions of the add-in so far
  discovery,  \* the add-in's fusion-bridge.json: the session it names, or None
  cache,      \* _cached_status: its transport, or None
  failures,   \* _consecutive_failures
  hot,        \* _last_error_at is within BACKOFF_SECONDS
  pending,    \* _pending_requests of the add-in: attempts
  events,     \* custom events of Fusion: attempts, in order
  main,       \* what the main thread runs: <<>> or an attempt with "run" or "put"
  answers,    \* outcomes put in the queue of an attempt
  happened, timeouts

vars == <<official, addin, sessions, discovery, cache, failures, hot, step, pending,
          events, main, answers, document, happened, timeouts, abandoned, cut>>

Idle == [pc |-> "idle", attempt |-> 0, result |-> "none", worker |-> FALSE]
NoRun == <<>>

Init ==
  /\ official \in BOOLEAN
  /\ addin \in {0, 1}
  /\ sessions = addin
  /\ discovery = IF addin = 0 THEN None ELSE addin
  /\ cache = None
  /\ failures = 0
  /\ hot = FALSE
  /\ step = [s \in Steps |-> Idle]
  /\ pending = {}
  /\ events = <<>>
  /\ main = NoRun
  /\ answers = {}
  /\ document = <<>>
  /\ happened = 0
  /\ timeouts = 0
  /\ abandoned = {}
  /\ cut = {}

Attempt(s) == <<s, step[s].attempt>>
At(s, pc) == step[s].pc = pc
Least(a, b) == IF a < b THEN a ELSE b

host == <<official, addin, sessions, discovery, pending, events, main, answers, document,
          happened, abandoned>>
-----------------------------------------------------------------------------
\* _record_failure and _record_success.
RecordFailure == failures' = Least(failures + 1, Threshold) /\ hot' = TRUE
RecordSuccess == failures' = 0 /\ hot' = FALSE

\* (mutant of InBackoff) the window is not looked at.
InBackoff_Forever == failures >= Threshold

InBackoff == failures >= Threshold /\ hot

\* _read_discovery, in the adapter's directory.
Discovered == IF SamePath THEN discovery ELSE None

\* status without a cached one: Autodesk's server, then the add-in.
Probe ==
  \/ /\ official
     /\ cache' = "http"
     /\ RecordSuccess
  \/ /\ ~official
     /\ Discovered = None \/ InBackoff
     /\ cache' = "mock"
     /\ UNCHANGED <<failures, hot>>
  \/ /\ ~official
     /\ Discovered # None /\ ~InBackoff
     /\ IF addin = Discovered
        THEN cache' = "local" /\ RecordSuccess
        ELSE cache' = "mock" /\ RecordFailure

\* Someone asks for the status, on a page of the app for instance.
Status ==
  /\ cache = None
  /\ Probe
  /\ UNCHANGED <<host, step, timeouts, cut>>

\* The cached status expires; the window of the backoff passes.
CacheExpires == cache # None /\ cache' = None
                /\ UNCHANGED <<host, failures, hot, step, timeouts, cut>>
BackoffPasses == hot /\ hot' = FALSE
                 /\ UNCHANGED <<host, cache, failures, step, timeouts, cut>>
-----------------------------------------------------------------------------
Goto(s, pc) == step' = [step EXCEPT ![s].pc = pc]
End(s, result) == step' = [step EXCEPT ![s].pc = "idle", ![s].result = result]

\* is_available, then status again in execute: each from the cache or a probe.
Available(s) ==
  /\ At(s, "idle") /\ step[s].attempt < MaxAttempts
  /\ step[s].result \in {"none", "error"}
  /\ IF cache = None THEN Probe ELSE UNCHANGED <<cache, failures, hot>>
  /\ step' = [step EXCEPT ![s].attempt = @ + 1,
       ![s].pc = IF cache' = "mock" THEN "idle" ELSE "execute",
       ![s].result = IF cache' = "mock" THEN "mock" ELSE "none"]
  /\ UNCHANGED <<host, timeouts, cut>>

Execute(s) ==
  /\ At(s, "execute")
  /\ IF cache = None THEN Probe ELSE UNCHANGED <<cache, failures, hot>>
  /\ IF cache' = "http" THEN Goto(s, "post")
     ELSE IF Discovered = None THEN End(s, "error")
     ELSE Goto(s, "connect")
  /\ UNCHANGED <<host, timeouts, cut>>

\* An error of either bridge: one more failure, and the status is forgotten.
Broken(s) ==
  /\ RecordFailure
  /\ cache' = None
  /\ End(s, "error")

\* (mutant of Post) when the call fails the add-in is tried.
Post_FallsBack(s) ==
  /\ At(s, "post")
  /\ \/ /\ official
        /\ document' = Append(document, Attempt(s))
        /\ RecordSuccess
        /\ End(s, "ok")
        /\ UNCHANGED <<cache, timeouts, cut>>
     \/ /\ official /\ timeouts < MaxTimeouts /\ Discovered # None
        /\ timeouts' = timeouts + 1
        /\ document' = Append(document, Attempt(s))
        /\ Goto(s, "connect")
        /\ UNCHANGED <<cache, failures, hot, cut>>
  /\ UNCHANGED <<official, addin, sessions, discovery, pending, events, main, answers,
                 happened, abandoned>>

\* _execute_via_autodesk_mcp: a session, one call, and its answer: the tool ran,
\* it failed, or the answer is no object, which counts for neither side, or none.
Post(s) ==
  /\ At(s, "post")
  /\ \/ /\ ~official
        /\ Broken(s)
        /\ UNCHANGED <<document, timeouts, cut>>
     \/ /\ official
        /\ document' = Append(document, Attempt(s))
        /\ RecordSuccess
        /\ End(s, "ok")
        /\ UNCHANGED <<cache, timeouts, cut>>
     \/ /\ official
        /\ End(s, "error")
        /\ UNCHANGED <<cache, failures, hot, document, timeouts, cut>>
     \/ /\ official
        /\ document' \in {document, Append(document, Attempt(s))}
        /\ cut' = cut \cup {Attempt(s)}
        /\ \/ End(s, "error") /\ UNCHANGED <<cache, failures, hot, timeouts>>
           \/ timeouts < MaxTimeouts /\ timeouts' = timeouts + 1 /\ Broken(s)
  /\ UNCHANGED <<official, addin, sessions, discovery, pending, events, main, answers,
                 happened, abandoned>>

\* _call: connection and token, then the tool.  A thread of the add-in queues
\* it for the main thread.
Connect(s) ==
  /\ At(s, "connect")
  /\ \/ /\ Discovered = None \/ addin # Discovered
        /\ Broken(s)
        /\ UNCHANGED <<pending, events>>
     \/ /\ Discovered # None /\ addin = Discovered
        /\ pending' = pending \cup {Attempt(s)}
        /\ events' = Append(events, Attempt(s))
        /\ step' = [step EXCEPT ![s].pc = "wait", ![s].worker = TRUE]
        /\ UNCHANGED <<cache, failures, hot>>
  /\ UNCHANGED <<official, addin, sessions, discovery, main, answers, document, happened,
                 timeouts, abandoned, cut>>

\* The worker has an outcome: the tool ran, or raised and changed nothing.
Answered(a) == <<a, TRUE>> \in answers \/ <<a, FALSE>> \in answers

\* The answer of the worker.
Receive(s) ==
  /\ At(s, "wait") /\ step[s].worker
  /\ Answered(Attempt(s))
  /\ answers' = answers \ {<<Attempt(s), TRUE>>, <<Attempt(s), FALSE>>}
  /\ pending' = pending \ {Attempt(s)}
  /\ RecordSuccess
  /\ step' = [step EXCEPT ![s] = [@ EXCEPT !.pc = "idle", !.worker = FALSE,
       !.result = IF <<Attempt(s), TRUE>> \in answers THEN "ok" ELSE "error"]]
  /\ UNCHANGED <<official, addin, sessions, discovery, cache, events, main, document,
                 happened, timeouts, abandoned, cut>>

\* The adapter's timeout, or an end of the connection when Fusion goes away.
Lost(s) ==
  /\ At(s, "wait")
  /\ \/ ~step[s].worker /\ UNCHANGED timeouts
     \/ timeouts < MaxTimeouts /\ timeouts' = timeouts + 1
  /\ cut' = cut \cup {Attempt(s)}
  /\ Broken(s)
  /\ UNCHANGED host

\* The main thread came to it.
Begun(a) == (main # NoRun /\ main[1] = a) \/ Answered(a)

\* The worker's own timeout, after its client has gone.
WorkerTimeout(a) ==
  /\ a \in pending
  /\ ~(Attempt(a[1]) = a /\ At(a[1], "wait"))
  /\ pending' = pending \ {a}
  /\ answers' = answers \ {<<a, TRUE>>, <<a, FALSE>>}
  /\ abandoned' = IF Begun(a) THEN abandoned ELSE abandoned \cup {a}
  /\ UNCHANGED <<official, addin, sessions, discovery, cache, failures, hot, step, events,
                 main, document, happened, timeouts, cut>>
-----------------------------------------------------------------------------
\* (mutant of Notify) the event carries the tool.
Notify_Unchecked ==
  /\ main = NoRun /\ events # <<>>
  /\ events' = Tail(events)
  /\ main' = <<Head(events), "run">>
  /\ UNCHANGED <<official, addin, sessions, discovery, cache, failures, hot, step, pending,
                 answers, document, happened, timeouts, abandoned, cut>>

\* notify, on the main thread: a request nobody waits for is dropped.
Notify ==
  /\ main = NoRun /\ events # <<>>
  /\ events' = Tail(events)
  /\ main' = IF Head(events) \in pending THEN <<Head(events), "run">> ELSE NoRun
  /\ UNCHANGED <<official, addin, sessions, discovery, cache, failures, hot, step, pending,
                 answers, document, happened, timeouts, abandoned, cut>>

\* (mutant of Run) the outcome is queued before the tool has run.
Run_Early ==
  /\ main # NoRun
  /\ \/ /\ main[2] = "run"
        /\ answers' = IF main[1] \in pending THEN answers \cup {<<main[1], TRUE>>} ELSE answers
        /\ main' = <<main[1], "put">>
        /\ UNCHANGED document
     \/ /\ main[2] = "put"
        /\ document' = Append(document, main[1])
        /\ main' = NoRun
        /\ UNCHANGED answers
  /\ UNCHANGED <<official, addin, sessions, discovery, cache, failures, hot, step, pending,
                 events, happened, timeouts, abandoned, cut>>

\* The tool runs; its outcome goes to the queue of the request.
Run ==
  /\ main # NoRun
  /\ \/ /\ main[2] = "run"
        /\ \/ document' = Append(document, main[1]) /\ main' = <<main[1], "ran">>
           \/ main' = <<main[1], "raised">> /\ UNCHANGED document
        /\ UNCHANGED answers
     \/ /\ main[2] \in {"ran", "raised"}
        /\ answers' = IF main[1] \in pending THEN answers \cup {<<main[1], main[2] = "ran">>}
                      ELSE answers
        /\ main' = NoRun
        /\ UNCHANGED document
  /\ UNCHANGED <<official, addin, sessions, discovery, cache, failures, hot, step, pending,
                 events, happened, timeouts, abandoned, cut>>
-----------------------------------------------------------------------------
\* Every thread and queue of the add-in is gone.
AddinGone ==
  /\ pending' = {} /\ events' = <<>> /\ main' = NoRun /\ answers' = {}
  /\ abandoned' = abandoned \cup {a \in pending : ~Begun(a)}
  /\ step' = [s \in Steps |-> [step[s] EXCEPT !.worker = FALSE]]

\* run: a new token in a new discovery file.
AddinRun ==
  /\ addin = 0 /\ happened < MaxEvents
  /\ happened' = happened + 1
  /\ sessions' = sessions + 1
  /\ addin' = sessions + 1
  /\ discovery' = sessions + 1
  /\ UNCHANGED <<official, cache, failures, hot, step, pending, events, main, answers,
                 document, timeouts, abandoned, cut>>

\* stop deletes the file, a crash leaves it.
AddinStop ==
  /\ addin # 0 /\ happened < MaxEvents
  /\ happened' = happened + 1
  /\ addin' = 0
  /\ AddinGone
  /\ discovery' \in {None, discovery}
  /\ UNCHANGED <<official, sessions, cache, failures, hot, document, timeouts, cut>>

OfficialChanges ==
  /\ happened < MaxEvents
  /\ happened' = happened + 1
  /\ official' = ~official
  /\ UNCHANGED <<addin, sessions, discovery, cache, failures, hot, step, pending, events,
                 main, answers, document, timeouts, abandoned, cut>>

Next ==
  \/ Status \/ CacheExpires \/ BackoffPasses
  \/ \E s \in Steps : Available(s) \/ Execute(s) \/ Post(s) \/ Connect(s) \/ Receive(s) \/ Lost(s)
  \/ \E a \in Steps \X (1 .. MaxAttempts) : WorkerTimeout(a)
  \/ Notify \/ Run
  \/ AddinRun \/ AddinStop \/ OfficialChanges

\* Time passes and the app polls the status.
Fairness == WF_vars(Status) /\ WF_vars(CacheExpires) /\ WF_vars(BackoffPasses)

Spec == Init /\ [][Next]_vars /\ Fairness
-----------------------------------------------------------------------------
\* Once the add-in stays up, the status finds it again, however many failures
\* came before.
AddinIsFound == <>[](addin # 0 /\ discovery = addin) => []<>(cache \in {"local", "http"})
=============================================================================
