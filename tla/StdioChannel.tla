---------------------------- MODULE StdioChannel ----------------------------
(***************************************************************************)
(* StdioMCPClient and the loop of its server.  Threads of the backend      *)
(* share one subprocess; a lock is held from the request to its answer.    *)
(* The server reads one line, runs the tool and writes one line; it or a   *)
(* library it imports may print anything else to the same pipe, close it,  *)
(* or die at any point.  The client has no deadline: it relies on the cap  *)
(* of lines it skips and on the end of the pipe.                           *)
(***************************************************************************)
EXTENDS Integers, Sequences

CONSTANTS
  Threads,     \* threads of the backend
  MaxCalls,    \* calls of each
  SkipCap,     \* MAX_SKIPPED_LINES_PER_CALL
  PipeSize,    \* lines the pipe holds
  MaxDeaths,   \* times the server dies or closes its stdout
  Nobody       \* holder of a free lock

ASSUME CapAssumption ==
  /\ SkipCap \in Nat \ {0} /\ PipeSize \in Nat \ {0}
  /\ MaxCalls \in Nat /\ MaxDeaths \in Nat /\ Nobody \notin Threads

VARIABLES
  lock,     \* StdioMCPClient._lock
  closed,   \* StdioMCPClient._closed
  nextId,   \* StdioMCPClient._next_id
  call,     \* what each thread is doing
  closer,   \* the thread in close
  server,   \* the subprocess
  deaths,
  ran       \* history: ids of the requests whose tool ran

vars == <<lock, closed, nextId, call, closer, server, deaths, ran>>

\* State "none": never started, or let go by close.
Dead == [state |-> "none", stdin |-> <<>>, stdout |-> <<>>, busy |-> 0]
Fresh == [Dead EXCEPT !.state = "up"]
Noise == 0    \* a line that is no answer; an answer is the id of its request
Idle == [pc |-> "idle", id |-> 0, skipped |-> 0, left |-> MaxCalls, got |-> 0]

Init ==
  /\ lock = Nobody
  /\ closed = FALSE
  /\ nextId = 0
  /\ call = [t \in Threads |-> Idle]
  /\ closer = "none"
  /\ server = Dead
  /\ deaths = 0
  /\ ran = {}

Alive == server.state \in {"up", "mute"}
At(t, pc) == call[t].pc = pc
-----------------------------------------------------------------------------
\* (mutant of Acquire) a closed client starts its server again.
Acquire_Reopens(t) ==
  /\ At(t, "idle") /\ call[t].left > 0 /\ lock = Nobody
  /\ lock' = t
  /\ server' = IF Alive THEN server ELSE Fresh
  /\ nextId' = nextId + 1
  /\ call' = [call EXCEPT ![t] = [pc |-> "write", id |-> nextId + 1, skipped |-> 0,
                                  left |-> @.left - 1, got |-> 0]]
  /\ UNCHANGED <<closed, closer, deaths, ran>>

\* call, under the lock: _ensure_started_locked, then an id.
Acquire(t) ==
  /\ At(t, "idle") /\ call[t].left > 0 /\ lock = Nobody
  /\ \/ /\ closed
        /\ call' = [call EXCEPT ![t].left = @ - 1]
        /\ UNCHANGED <<lock, server, nextId>>
     \/ /\ ~closed
        /\ lock' = t
        /\ server' = IF Alive THEN server ELSE Fresh
        /\ nextId' = nextId + 1
        /\ call' = [call EXCEPT ![t] = [pc |-> "write", id |-> nextId + 1, skipped |-> 0,
                                        left |-> @.left - 1, got |-> 0]]
  /\ UNCHANGED <<closed, closer, deaths, ran>>

\* _build_dead_process_error: a process that outlives the wait is killed.
Fail(t) ==
  /\ server' = [Dead EXCEPT !.state = "dead"]
  /\ lock' = Nobody
  /\ call' = [call EXCEPT ![t].pc = "idle"]

Write(t) ==
  /\ At(t, "write")
  /\ \/ /\ Alive
        /\ server' = [server EXCEPT !.stdin = Append(@, call[t].id)]
        /\ call' = [call EXCEPT ![t].pc = "read"]
        /\ UNCHANGED lock
     \/ ~Alive /\ Fail(t)
  /\ UNCHANGED <<closed, nextId, closer, deaths, ran>>

\* (mutant of Read) the first line is the answer.
Read_First(t) ==
  /\ At(t, "read") /\ server.stdout # <<>>
  /\ server' = [server EXCEPT !.stdout = Tail(@)]
  /\ lock' = Nobody
  /\ call' = [call EXCEPT ![t].pc = "idle", ![t].got = Head(server.stdout)]
  /\ UNCHANGED <<closed, nextId, closer, deaths, ran>>

\* (mutant of Read) no cap.
Read_Uncapped(t) ==
  /\ At(t, "read") /\ server.stdout # <<>>
  /\ server' = [server EXCEPT !.stdout = Tail(@)]
  /\ \/ /\ Head(server.stdout) = call[t].id
        /\ lock' = Nobody
        /\ call' = [call EXCEPT ![t].pc = "idle", ![t].got = call[t].id]
     \/ /\ Head(server.stdout) # call[t].id
        /\ UNCHANGED <<lock, call>>
  /\ UNCHANGED <<closed, nextId, closer, deaths, ran>>

\* Lines that do not decode or whose id differs are skipped, up to the cap.
Read(t) ==
  /\ At(t, "read")
  /\ \/ /\ call[t].skipped < SkipCap /\ server.stdout # <<>>
        /\ server' = [server EXCEPT !.stdout = Tail(@)]
        /\ \/ /\ Head(server.stdout) = call[t].id
              /\ lock' = Nobody
              /\ call' = [call EXCEPT ![t].pc = "idle", ![t].got = call[t].id]
           \/ /\ Head(server.stdout) # call[t].id
              /\ call' = [call EXCEPT ![t].skipped = @ + 1]
              /\ UNCHANGED lock
     \/ /\ call[t].skipped >= SkipCap
        /\ lock' = Nobody
        /\ call' = [call EXCEPT ![t].pc = "idle"]
        /\ UNCHANGED server
     \/ /\ call[t].skipped < SkipCap /\ server.stdout = <<>> /\ server.state # "up"
        /\ Fail(t)
  /\ UNCHANGED <<closed, nextId, closer, deaths, ran>>
-----------------------------------------------------------------------------
\* close: the flag under the lock, then shutdown, wait and kill without it.
CloseBegin ==
  /\ closer = "none" /\ lock = Nobody
  /\ closed' = TRUE
  /\ closer' = "ending"
  /\ UNCHANGED <<lock, nextId, call, server, deaths, ran>>

\* The request in progress is left to finish, or the wait ends in a kill.
CloseEnd ==
  /\ closer = "ending"
  /\ server' = Dead
  /\ closer' = "done"
  /\ UNCHANGED <<lock, closed, nextId, call, deaths, ran>>
-----------------------------------------------------------------------------
\* run_server: one line in, the tool, one line out.
Take ==
  /\ Alive /\ server.busy = 0 /\ server.stdin # <<>>
  /\ server' = [server EXCEPT !.busy = Head(server.stdin), !.stdin = Tail(@)]
  /\ ran' = ran \cup {Head(server.stdin)}
  /\ UNCHANGED <<lock, closed, nextId, call, closer, deaths>>

Reply ==
  /\ server.busy # 0
  /\ \/ /\ server.state = "up" /\ Len(server.stdout) < PipeSize
        /\ server' = [server EXCEPT !.busy = 0, !.stdout = Append(@, server.busy)]
     \/ /\ server.state = "mute"
        /\ server' = [Dead EXCEPT !.state = "dead"]
  /\ UNCHANGED <<lock, closed, nextId, call, closer, deaths, ran>>

Chatter ==
  /\ server.state = "up" /\ Len(server.stdout) < PipeSize
  /\ server' = [server EXCEPT !.stdout = Append(@, Noise)]
  /\ UNCHANGED <<lock, closed, nextId, call, closer, deaths, ran>>

\* What was written before stays readable.
Die ==
  /\ Alive /\ deaths < MaxDeaths
  /\ deaths' = deaths + 1
  /\ \/ server' = [server EXCEPT !.state = "dead", !.stdin = <<>>, !.busy = 0]
     \/ server.state = "up" /\ server' = [server EXCEPT !.state = "mute"]
  /\ UNCHANGED <<lock, closed, nextId, call, closer, ran>>

Next ==
  \/ \E t \in Threads : Acquire(t) \/ Write(t) \/ Read(t)
  \/ CloseBegin \/ CloseEnd
  \/ Take \/ Reply \/ Chatter \/ Die

\* The client runs; a tool ends, by its own timeouts if need be.
Fairness ==
  /\ \A t \in Threads : WF_vars(Acquire(t)) /\ WF_vars(Write(t)) /\ WF_vars(Read(t))
  /\ WF_vars(CloseEnd) /\ WF_vars(Take) /\ WF_vars(Reply)

Spec == Init /\ [][Next]_vars /\ Fairness
-----------------------------------------------------------------------------
\* A call returns the answer to its own request, even when the call before it
\* gave up and its answer is still in the pipe, and that request was run.
AnswersMatch == \A t \in Threads : call[t].got \in {0, call[t].id} \cap (ran \cup {0})

\* Once close has ended there is no server, whoever was waiting for the lock
\* with a call.
NoOrphan == closer = "done" => ~Alive

\* Every answer goes to the call that asked for it, and none outlives close.
CallsMatch == AnswersMatch /\ NoOrphan

\* "sem teto, um servidor que inunde o stdout manteria call preso": a thread
\* in a call gets out of it, whatever the server prints, and the lock is free
\* for the others.
EveryCallEnds == \A t \in Threads : call[t].pc # "idle" ~> call[t].pc = "idle"
=============================================================================
