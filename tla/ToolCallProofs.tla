--------------------------- MODULE ToolCallProofs ---------------------------
(***************************************************************************)
(* The two ways of a tool call out of the backend: through the pipe of a   *)
(* subprocess (StdioChannel) and through the add-in in Fusion              *)
(* (FusionBridge, the instance Bridge).                                    *)
(*                                                                         *)
(* What StdioChannel promises for any number of threads, calls and deaths  *)
(* of the server, and for any cap: one call at a time is on the pipe, the  *)
(* answers that an abandoned call left there never reach a later one, and  *)
(* no server outlives close.  Its properties are about calls that          *)
(* returned.  Why an answer is right is in the pipe before it is read:     *)
(* every id in it is the id of a request that was run, older than the ids  *)
(* still to be given out.                                                  *)
(*                                                                         *)
(* What FusionBridge promises for any steps, attempts, timeouts and events *)
(* of the host: a tool runs at most once for an attempt, a step that was   *)
(* answered is built by the attempt that was answered, an earlier attempt  *)
(* built something only if it was cut off from its answer, and a request   *)
(* its worker abandoned never runs.  An attempt goes from the queue of     *)
(* events to the main thread and from there to the answers, while the      *)
(* worker and the adapter may give it up at any of these points.  The      *)
(* invariant says where an attempt can be at the same time, and that all   *)
(* the add-in still holds is waited for or cut off.                        *)
(***************************************************************************)
EXTENDS StdioChannel, BridgePromise, SequenceTheorems, FiniteSetTheorems, TLAPS

\* The other constants and variables of FusionBridge.
CONSTANTS Threshold, MaxEvents, MaxTimeouts, SamePath, None
VARIABLES official, addin, sessions, discovery, cache, failures, hot, pending, events,
          main, answers, happened, timeouts

Bridge == INSTANCE FusionBridge
-----------------------------------------------------------------------------
(***************************************************************************)
(* The pipe                                                                *)
(***************************************************************************)
Calls == [pc : {"idle", "write", "read"}, id : Nat, skipped : Nat, left : Nat, got : Nat]
Servers == [state : {"none", "up", "mute", "dead"}, stdin : Seq(Nat), stdout : Seq(Nat),
            busy : Nat]

TypeOK ==
  /\ lock \in Threads \cup {Nobody}
  /\ closed \in BOOLEAN
  /\ nextId \in Nat
  /\ call \in [Threads -> Calls]
  /\ closer \in {"none", "ending", "done"}
  /\ server \in Servers
  /\ deaths \in Nat
  /\ ran \subseteq Nat

\* A request in the pipe was sent, an answer in it was computed.
Sent(sv, n) == sv.busy <= n /\ \A i \in DOMAIN sv.stdin : sv.stdin[i] <= n
Computed(sv, rs) ==
  sv.busy \in rs \cup {0} /\ \A i \in DOMAIN sv.stdout : sv.stdout[i] \in rs \cup {0}

\* A call: its id was given out, the last one if it has not returned.
Sound(t, r, n, l) ==
  /\ r.id <= n
  /\ r.pc # "idle" <=> l = t
  /\ r.pc # "idle" => r.id = n /\ n > 0 /\ r.got = 0
  /\ r.skipped <= SkipCap

\* A call in progress has the lock and the last id, and has skipped no more
\* lines than it may.
LockIsHeld ==
  \A t \in Threads : call[t].pc # "idle" =>
    /\ lock = t
    /\ call[t].id = nextId /\ \A u \in Threads : call[u].id <= call[t].id
    /\ call[t].skipped <= SkipCap

\* The inductive invariant.
IndInv ==
  /\ TypeOK
  /\ \A t \in Threads : Sound(t, call[t], nextId, lock)
  /\ Sent(server, nextId) /\ Computed(server, ran)
  /\ \A i \in ran : i <= nextId
  /\ AnswersMatch
  /\ closer # "none" => closed
  /\ NoOrphan
-----------------------------------------------------------------------------
(***************************************************************************)
(* The queues of the pipe                                                  *)
(***************************************************************************)
\* What a line may be survives the line before it and a line behind it.
LEMMA Lines ==
  ASSUME NEW q \in Seq(Nat), NEW S
  PROVE  /\ \A x \in Nat : Append(q, x) \in Seq(Nat)
         /\ \A x \in S : (\A i \in DOMAIN q : q[i] \in S)
              => \A i \in DOMAIN Append(q, x) : Append(q, x)[i] \in S
         /\ q # <<>> => /\ Head(q) \in Nat /\ Tail(q) \in Seq(Nat)
                        /\ (\A i \in DOMAIN q : q[i] \in S) =>
                             /\ Head(q) \in S
                             /\ \A i \in DOMAIN Tail(q) : Tail(q)[i] \in S
<1>1. ASSUME NEW x \in Nat PROVE Append(q, x) \in Seq(Nat)
  OBVIOUS
<1>2. ASSUME NEW x \in S, \A i \in DOMAIN q : q[i] \in S
      PROVE  \A i \in DOMAIN Append(q, x) : Append(q, x)[i] \in S
  <2> SUFFICES ASSUME NEW i \in 1 .. Len(q) + 1 PROVE Append(q, x)[i] \in S
    BY Len(Append(q, x)) = Len(q) + 1
  <2>1. CASE i = Len(q) + 1
    BY <1>2, <2>1
  <2>2. CASE i \in 1 .. Len(q)
    BY <1>2, <2>2
  <2> QED  BY <2>1, <2>2
<1>3. ASSUME q # <<>>
      PROVE  /\ Head(q) \in Nat /\ Tail(q) \in Seq(Nat)
             /\ (\A i \in DOMAIN q : q[i] \in S) =>
                  Head(q) \in S /\ \A i \in DOMAIN Tail(q) : Tail(q)[i] \in S
  <2>1. Len(q) >= 1 /\ DOMAIN q = 1 .. Len(q) /\ Head(q) = q[1]
    BY <1>3
  <2>2. /\ Tail(q) \in Seq(Nat) /\ DOMAIN Tail(q) = 1 .. Len(q) - 1
        /\ \A i \in 1 .. Len(q) - 1 : Tail(q)[i] = q[i + 1]
    BY <1>3
  <2> QED  BY <2>1, <2>2
<1> QED  BY <1>1, <1>2, <1>3

LEMMA InitSound == Init => IndInv
<1> SUFFICES ASSUME Init PROVE IndInv
  OBVIOUS
<1>1. Idle \in Calls /\ Idle.pc = "idle" /\ Idle.id = 0 /\ Idle.skipped = 0 /\ Idle.got = 0
  BY CapAssumption DEF Idle, Calls
<1>2. Dead \in Servers /\ Dead.busy = 0 /\ Dead.stdin = <<>> /\ Dead.stdout = <<>>
      /\ Dead.state = "none"
  BY DEF Dead, Servers
<1>3. TypeOK
  BY <1>1, <1>2 DEF Init, TypeOK
<1>4. Sent(server, nextId) /\ Computed(server, ran)
  BY <1>2 DEF Init, Sent, Computed
<1>5. ASSUME NEW t \in Threads PROVE Sound(t, call[t], nextId, lock)
  <2>1. call[t] = Idle /\ nextId = 0 /\ lock = Nobody /\ lock # t /\ 0 <= SkipCap
    BY CapAssumption DEF Init
  <2> QED  BY <1>1, <2>1 DEF Sound
<1>6. AnswersMatch /\ NoOrphan /\ (closer # "none" => closed) /\ \A i \in ran : i <= nextId
  BY <1>1 DEF Init, AnswersMatch, NoOrphan
<1> QED  BY <1>3, <1>4, <1>5, <1>6 DEF IndInv

\* A new call gets the next id; the server it starts has an empty pipe.
LEMMA AcquireSound == ASSUME IndInv, NEW t \in Threads, Acquire(t) PROVE IndInv'
<1>1. CASE closed /\ UNCHANGED <<lock, server, nextId>> /\ call' = [call EXCEPT ![t].left = @ - 1]
  <2>1. TypeOK'
    BY <1>1 DEF Acquire, At, IndInv, TypeOK, Calls
  <2>2. \A u \in Threads :
          call'[u].pc = call[u].pc /\ call'[u].id = call[u].id
          /\ call'[u].got = call[u].got /\ call'[u].skipped = call[u].skipped
    BY <1>1 DEF IndInv, TypeOK, Calls
  <2> QED  BY <1>1, <2>1, <2>2 DEF Acquire, IndInv, Sound, AnswersMatch, NoOrphan, Alive
<1>2. CASE /\ ~closed /\ lock' = t /\ nextId' = nextId + 1
           /\ server' = IF Alive THEN server ELSE Fresh
           /\ call' = [call EXCEPT ![t] = [pc |-> "write", id |-> nextId + 1, skipped |-> 0,
                                           left |-> @.left - 1, got |-> 0]]
  <2>1. /\ lock = Nobody /\ call[t].left > 0 /\ closer = "none"
        /\ UNCHANGED <<closed, closer, deaths, ran>>
    BY <1>2 DEF Acquire, IndInv
  <2>2. Fresh \in Servers /\ Fresh.busy = 0 /\ Fresh.stdin = <<>> /\ Fresh.stdout = <<>>
    <3>1. Fresh = [state |-> "up", stdin |-> <<>>, stdout |-> <<>>, busy |-> 0]
      BY DEF Fresh, Dead
    <3> QED  BY <3>1 DEF Servers
  <2>3. TypeOK'
    BY <1>2, <2>1, <2>2 DEF IndInv, TypeOK, Calls
  <2>4. Sent(server, nextId)' /\ Computed(server, ran)'
    BY <1>2, <2>1, <2>2 DEF IndInv, Sent, Computed, TypeOK, Servers
  <2>5. \A u \in Threads : Sound(u, call[u], nextId, lock)'
    BY <1>2, <2>1, CapAssumption DEF IndInv, Sound, TypeOK, Calls
  <2>6. AnswersMatch' /\ NoOrphan' /\ \A i \in ran' : i <= nextId'
    BY <1>2, <2>1 DEF IndInv, AnswersMatch, NoOrphan, TypeOK, Calls
  <2> QED  BY <2>1, <2>3, <2>4, <2>5, <2>6 DEF IndInv
<1> QED  BY <1>1, <1>2 DEF Acquire

\* A call that fails, gives up or returns frees the lock.
LEMMA ReturnSound ==
  ASSUME IndInv, NEW t \in Threads, ~At(t, "idle"), NEW got \in {0, call[t].id} \cap (ran \cup {0}),
         lock' = Nobody, call' = [call EXCEPT ![t].pc = "idle", ![t].got = got],
         server' \in Servers, Sent(server', nextId), Computed(server', ran),
         server'.state \in {"none", "dead", server.state},
         UNCHANGED <<closed, nextId, closer, deaths, ran>>
  PROVE  IndInv'
<1>1. TypeOK'
  <2>1. got \in Nat
    BY DEF IndInv, TypeOK
  <2>2. call \in [Threads -> Calls] /\ TypeOK
    BY DEF IndInv, TypeOK
  <2>3. call' \in [Threads -> Calls]
    BY <2>1, <2>2 DEF Calls
  <2> QED  BY <2>2, <2>3 DEF TypeOK
<1>2. \A u \in Threads : Sound(u, call[u], nextId, lock)'
  BY CapAssumption DEF IndInv, Sound, TypeOK, Calls, At
<1>3. AnswersMatch'
  BY DEF IndInv, AnswersMatch, TypeOK, Calls
<1>4. Sent(server, nextId)' /\ Computed(server, ran)' /\ NoOrphan' /\ \A i \in ran' : i <= nextId'
  BY DEF IndInv, Sent, Computed, NoOrphan, Alive
<1> QED  BY <1>1, <1>2, <1>3, <1>4 DEF IndInv

LEMMA FailSound ==
  ASSUME IndInv, NEW t \in Threads, ~At(t, "idle"), Fail(t),
         UNCHANGED <<closed, nextId, closer, deaths, ran>>
  PROVE  IndInv'
<1>1. /\ server' \in Servers /\ server'.state = "dead" /\ server'.busy = 0
      /\ server'.stdin = <<>> /\ server'.stdout = <<>>
  <2>1. server' = [state |-> "dead", stdin |-> <<>>, stdout |-> <<>>, busy |-> 0]
    BY DEF Fail, Dead
  <2> QED  BY <2>1 DEF Servers
<1>2. Sent(server', nextId) /\ Computed(server', ran)
  BY <1>1 DEF Sent, Computed, IndInv, TypeOK
<1>3. call[t].got = 0
  BY DEF IndInv, Sound, At
<1>4. call' = [call EXCEPT ![t].pc = "idle", ![t].got = 0]
  BY <1>3 DEF Fail, IndInv, TypeOK, Calls
<1> QED  BY <1>1, <1>2, <1>4, ReturnSound DEF Fail

\* The request goes behind what the pipe holds.
LEMMA WriteSound == ASSUME IndInv, NEW t \in Threads, Write(t) PROVE IndInv'
<1>1. CASE Fail(t)
  BY <1>1, FailSound DEF Write, At
<1>2. CASE /\ server' = [server EXCEPT !.stdin = Append(@, call[t].id)]
           /\ call' = [call EXCEPT ![t].pc = "read"] /\ UNCHANGED lock
  <2>1. /\ At(t, "write") /\ UNCHANGED <<closed, nextId, closer, deaths, ran>>
        /\ call[t].id \in Nat /\ call[t].id <= nextId /\ server.stdin \in Seq(Nat)
    BY DEF Write, IndInv, TypeOK, Calls, Servers, Sound
  <2>2. /\ Append(server.stdin, call[t].id) \in Seq(Nat)
        /\ \A i \in DOMAIN Append(server.stdin, call[t].id) :
             Append(server.stdin, call[t].id)[i] <= nextId
    BY <2>1, Lines, \A i \in DOMAIN server.stdin : server.stdin[i] \in {n \in Nat : n <= nextId}
    DEF IndInv, Sent
  <2>3. /\ server' \in Servers /\ server'.state = server.state /\ server'.busy = server.busy
        /\ server'.stdout = server.stdout /\ server'.stdin = Append(server.stdin, call[t].id)
    BY <1>2, <2>2 DEF IndInv, TypeOK, Servers
  <2>4. TypeOK'
    BY <1>2, <2>1, <2>3 DEF IndInv, TypeOK, Calls
  <2>5. Sent(server, nextId)' /\ Computed(server, ran)'
    BY <2>1, <2>2, <2>3 DEF IndInv, Sent, Computed
  <2>6. \A u \in Threads : Sound(u, call[u], nextId, lock)'
    BY <1>2, <2>1 DEF IndInv, Sound, TypeOK, Calls, At
  <2>7. AnswersMatch' /\ NoOrphan' /\ \A i \in ran' : i <= nextId'
    BY <1>2, <2>1, <2>3 DEF IndInv, AnswersMatch, NoOrphan, Alive, TypeOK, Calls
  <2> QED  BY <2>1, <2>4, <2>5, <2>6, <2>7 DEF IndInv
<1> QED  BY <1>1, <1>2 DEF Write

\* A line with another id is skipped; the one with the id of the call is the
\* answer, and a tool computed it.
LEMMA ReadSound == ASSUME IndInv, NEW t \in Threads, Read(t) PROVE IndInv'
<1> DEFINE line == Head(server.stdout)
<1>0. /\ At(t, "read") /\ UNCHANGED <<closed, nextId, closer, deaths, ran>>
      /\ server \in Servers /\ server.stdout \in Seq(Nat) /\ call[t] \in Calls
      /\ Sound(t, call[t], nextId, lock)
  BY DEF Read, IndInv, TypeOK, Servers
<1>1. ASSUME server.stdout # <<>>, server' = [server EXCEPT !.stdout = Tail(@)]
      PROVE  /\ server' \in Servers /\ server'.state = server.state
             /\ Sent(server', nextId) /\ Computed(server', ran) /\ line \in ran \cup {0}
  <2>1. /\ Tail(server.stdout) \in Seq(Nat) /\ line \in ran \cup {0}
        /\ \A i \in DOMAIN Tail(server.stdout) : Tail(server.stdout)[i] \in ran \cup {0}
    BY <1>0, <1>1, Lines DEF IndInv, Computed
  <2>2. /\ server' \in Servers /\ server'.state = server.state /\ server'.busy = server.busy
        /\ server'.stdin = server.stdin /\ server'.stdout = Tail(server.stdout)
    BY <1>0, <1>1, <2>1 DEF Servers
  <2> QED  BY <2>1, <2>2 DEF IndInv, Sent, Computed
<1>2. CASE /\ server.stdout # <<>> /\ server' = [server EXCEPT !.stdout = Tail(@)]
           /\ line = call[t].id /\ lock' = Nobody
           /\ call' = [call EXCEPT ![t].pc = "idle", ![t].got = call[t].id]
  BY <1>0, <1>1, <1>2, ReturnSound DEF At
<1>3. CASE /\ server.stdout # <<>> /\ server' = [server EXCEPT !.stdout = Tail(@)]
           /\ call' = [call EXCEPT ![t].skipped = @ + 1] /\ UNCHANGED lock
           /\ call[t].skipped < SkipCap
  <2>1. TypeOK'
    <3>1. call \in [Threads -> Calls] /\ server' \in Servers
      BY <1>1, <1>3 DEF IndInv, TypeOK
    <3>2. [call[t] EXCEPT !.skipped = @ + 1] \in Calls
      BY <1>0 DEF Calls
    <3>3. call' = [call EXCEPT ![t] = [call[t] EXCEPT !.skipped = @ + 1]]
      BY <1>3
    <3>4. call' \in [Threads -> Calls]
      BY <3>1, <3>2, <3>3
    <3> QED  BY <1>0, <1>3, <3>1, <3>4 DEF IndInv, TypeOK
  <2>2. \A u \in Threads : Sound(u, call[u], nextId, lock)'
    BY <1>0, <1>3, CapAssumption DEF IndInv, Sound, TypeOK, Calls
  <2>3. AnswersMatch' /\ NoOrphan' /\ \A i \in ran' : i <= nextId'
    BY <1>0, <1>1, <1>3 DEF IndInv, AnswersMatch, NoOrphan, Alive, TypeOK, Calls
  <2>4. Sent(server, nextId)' /\ Computed(server, ran)'
    BY <1>0, <1>1, <1>3 DEF Sent, Computed
  <2> QED  BY <1>0, <2>1, <2>2, <2>3, <2>4 DEF IndInv
<1>4. CASE lock' = Nobody /\ call' = [call EXCEPT ![t].pc = "idle"] /\ UNCHANGED server
  <2>1. call' = [call EXCEPT ![t].pc = "idle", ![t].got = 0]
    BY <1>0, <1>4 DEF IndInv, TypeOK, Calls, Sound, At
  <2> QED  BY <1>0, <1>4, <2>1, ReturnSound DEF At, IndInv, TypeOK
<1>5. CASE Fail(t)
  BY <1>0, <1>5, FailSound DEF At
<1> QED  BY <1>2, <1>3, <1>4, <1>5 DEF Read

\* What only changes the server, its deaths and what ran.
LEMMA ServerStep ==
  ASSUME IndInv, UNCHANGED <<lock, closed, nextId, call>>,
         server' \in Servers, Sent(server', nextId), Computed(server', ran'),
         ran \subseteq ran', ran' \subseteq Nat, \A i \in ran' : i <= nextId,
         deaths' \in Nat, closer' \in {"none", "ending", "done"}, closer' # "none" => closed,
         closer' = "done" => server'.state \in {"none", "dead"}
  PROVE  IndInv'
<1>1. TypeOK'
  BY DEF IndInv, TypeOK
<1>2. AnswersMatch' /\ NoOrphan'
  BY DEF IndInv, AnswersMatch, NoOrphan, Alive
<1> QED  BY <1>1, <1>2 DEF IndInv, Sent, Computed

LEMMA TakeSound == ASSUME IndInv, Take PROVE IndInv'
<1> DEFINE first == Head(server.stdin)
<1>1. /\ Alive /\ closer # "done" /\ server \in Servers /\ server.stdin \in Seq(Nat)
      /\ server.stdin # <<>> /\ server.stdout \in Seq(Nat)
  BY DEF Take, IndInv, NoOrphan, TypeOK, Servers
<1>2. /\ first \in Nat /\ first <= nextId /\ Tail(server.stdin) \in Seq(Nat)
      /\ \A i \in DOMAIN Tail(server.stdin) : Tail(server.stdin)[i] <= nextId
  BY <1>1, Lines, \A i \in DOMAIN server.stdin : server.stdin[i] \in {n \in Nat : n <= nextId}
  DEF IndInv, Sent
<1>3. /\ server' \in Servers /\ server'.busy = first /\ server'.stdin = Tail(server.stdin)
      /\ server'.stdout = server.stdout
  BY <1>1, <1>2 DEF Take, Servers
<1>4. ran' = ran \cup {first} /\ UNCHANGED <<lock, closed, nextId, call, closer, deaths>>
  BY DEF Take
<1>5. Sent(server', nextId) /\ Computed(server', ran')
  BY <1>2, <1>3, <1>4 DEF IndInv, Sent, Computed
<1> HIDE DEF first
<1> QED  BY <1>1, <1>2, <1>3, <1>4, <1>5, ServerStep DEF IndInv, TypeOK

\* The answer, and a line that is none, go behind what the pipe holds.
LEMMA PutSound ==
  ASSUME IndInv, NEW line \in ran \cup {0}, NEW busy \in ran \cup {0}, Alive,
         server' = [server EXCEPT !.busy = busy, !.stdout = Append(@, line)],
         UNCHANGED <<lock, closed, nextId, call, closer, deaths, ran>>
  PROVE  IndInv'
<1>1. /\ server \in Servers /\ server.stdout \in Seq(Nat) /\ closer # "done"
      /\ line \in Nat /\ busy \in Nat /\ busy <= nextId
  BY DEF IndInv, TypeOK, Servers, NoOrphan
<1>2. /\ Append(server.stdout, line) \in Seq(Nat)
      /\ \A i \in DOMAIN Append(server.stdout, line) :
           Append(server.stdout, line)[i] \in ran \cup {0}
  BY <1>1, Lines DEF IndInv, Computed
<1>3. /\ server' \in Servers /\ server'.busy = busy /\ server'.stdin = server.stdin
      /\ server'.stdout = Append(server.stdout, line)
  BY <1>1, <1>2 DEF Servers
<1>4. Sent(server', nextId) /\ Computed(server', ran')
  BY <1>1, <1>2, <1>3 DEF IndInv, Sent, Computed
<1> QED  BY <1>1, <1>3, <1>4, ServerStep DEF IndInv, TypeOK

\* A server that is gone holds nothing, or what was in its stdout.
LEMMA GoneSound ==
  ASSUME IndInv, server' \in Servers, server'.busy \in {0, server.busy},
         server'.stdin \in {<<>>, server.stdin}, server'.stdout \in {<<>>, server.stdout},
         deaths' \in Nat, closer' \in {"none", "ending", "done"}, closer' # "none" => closed,
         closer' = "done" => server'.state \in {"none", "dead"},
         UNCHANGED <<lock, closed, nextId, call, ran>>
  PROVE  IndInv'
<1>1. Sent(server', nextId) /\ Computed(server', ran')
  BY DEF IndInv, Sent, Computed, TypeOK
<1> QED  BY <1>1, ServerStep DEF IndInv, TypeOK

LEMMA NextSound == IndInv /\ [Next]_vars => IndInv'
<1> SUFFICES ASSUME IndInv, [Next]_vars PROVE IndInv'
  OBVIOUS
<1>0. /\ server \in Servers /\ Dead \in Servers /\ Dead.busy = 0 /\ Dead.stdin = <<>>
      /\ Dead.stdout = <<>> /\ Dead.state = "none"
      /\ deaths \in Nat /\ closer \in {"none", "ending", "done"} /\ (closer # "none" => closed)
      /\ (closer = "done" => server.state \in {"none", "dead"})
  BY DEF IndInv, TypeOK, Dead, Servers, NoOrphan, Alive
<1>1. ASSUME NEW t \in Threads, Acquire(t) \/ Write(t) \/ Read(t) PROVE IndInv'
  BY <1>1, AcquireSound, WriteSound, ReadSound
<1>2. CASE CloseBegin
  BY <1>2 DEF CloseBegin, IndInv, TypeOK, AnswersMatch, NoOrphan, Alive
<1>3. CASE CloseEnd
  BY <1>0, <1>3, GoneSound DEF CloseEnd, IndInv
<1>4. CASE Take
  BY <1>4, TakeSound
<1>5. CASE Reply
  <2>1. CASE server.state = "up"
    BY <1>0, <1>5, <2>1, PutSound DEF Reply, Alive, IndInv, Computed, Servers
  <2>2. CASE server.state = "mute" /\ server' = [Dead EXCEPT !.state = "dead"]
    <3>1. server' \in Servers /\ server'.state = "dead" /\ server'.busy = 0
          /\ server'.stdin = <<>> /\ server'.stdout = <<>>
      <4>1. server' = [state |-> "dead", stdin |-> <<>>, stdout |-> <<>>, busy |-> 0]
        BY <2>2 DEF Dead
      <4> QED  BY <4>1 DEF Servers
    <3> QED  BY <1>0, <1>5, <3>1, GoneSound DEF Reply
  <2> QED  BY <1>5, <2>1, <2>2 DEF Reply
<1>6. CASE Chatter
  <2>1. server' = [server EXCEPT !.busy = server.busy, !.stdout = Append(@, Noise)]
        /\ server.state = "up" /\ server.busy \in ran \cup {0} /\ Noise \in ran \cup {0}
    BY <1>0, <1>6 DEF Chatter, Servers, Noise, IndInv, Computed
  <2> QED  BY <1>6, <2>1, PutSound DEF Chatter, Alive
<1>7. CASE Die
  <2>1. /\ server' \in Servers /\ server'.busy \in {0, server.busy}
        /\ server'.stdin \in {<<>>, server.stdin} /\ server'.stdout = server.stdout
    BY <1>0, <1>7 DEF Die, Servers
  <2>2. closer # "done" /\ deaths' \in Nat /\ UNCHANGED <<lock, closed, nextId, call, closer, ran>>
    BY <1>0, <1>7 DEF Die, Alive
  <2> QED  BY <1>0, <2>1, <2>2, GoneSound
<1>8. CASE UNCHANGED vars
  BY <1>8 DEF vars, IndInv, TypeOK, Sound, Sent, Computed, AnswersMatch, NoOrphan, Alive
<1> QED  BY <1>1, <1>2, <1>3, <1>4, <1>5, <1>6, <1>7, <1>8 DEF Next

LEMMA Invariance == Spec => []IndInv
<1>1. Init => IndInv
  BY InitSound
<1>2. IndInv /\ [Next]_vars => IndInv'
  BY NextSound
<1> QED  BY <1>1, <1>2, PTL DEF Spec
-----------------------------------------------------------------------------
(***************************************************************************)
(* The theorems                                                            *)
(***************************************************************************)
\* Every answer goes to the call that asked for it and is one a tool computed
\* for it, whatever the server printed, however many calls gave up before and
\* however often the server died; and no server is left once close has ended.
THEOREM CallsMatchHolds == Spec => []CallsMatch
<1>1. IndInv => CallsMatch
  BY DEF IndInv, CallsMatch
<1> QED  BY <1>1, Invariance, PTL

\* The lock of the client keeps one call on the pipe: it has the last id that
\* was given out, and it skips no more lines than the cap.
THEOREM LockIsHeldHolds == Spec => []LockIsHeld
<1>1. IndInv => LockIsHeld
  BY DEF IndInv, LockIsHeld, Sound
<1> QED  BY <1>1, Invariance, PTL
-----------------------------------------------------------------------------
(***************************************************************************)
(* The bridge                                                              *)
(***************************************************************************)

Attempts == Steps \X Nat
Runs == [pc : {"idle", "execute", "post", "connect", "wait"}, attempt : Nat,
         result : {"none", "mock", "error", "ok"}, worker : BOOLEAN]
Mains == Attempts \X {"run", "ran", "raised"}

BridgeTypeOK ==
  /\ step \in [Steps -> Runs]
  /\ pending \subseteq Attempts
  /\ events \in Seq(Attempts)
  /\ main = Bridge!NoRun \/ main \in Mains
  /\ answers \subseteq Attempts \X BOOLEAN
  /\ document \in Seq(Attempts)
  /\ abandoned \subseteq Attempts

Items(q) == {q[i] : i \in DOMAIN q}
Distinct(q) == \A i, j \in DOMAIN q : q[i] = q[j] => i = j
Running(ma) == IF ma = Bridge!NoRun THEN {} ELSE {ma[1]}
Outcomes(an) == {x[1] : x \in an}
\* What the add-in still holds of an attempt.
Held(pe, ev, ma, an) == pe \cup Items(ev) \cup Running(ma) \cup Outcomes(an)

\* Where an attempt can be: it is in one place at a time, its tool has run
\* when the main thread or the answer says so, and the worker of an abandoned
\* one is gone.
Placed(pe, ev, ma, an, do, ab) ==
  /\ Distinct(ev) /\ Distinct(do)
  /\ Items(ev) \cap (Running(ma) \cup Outcomes(an) \cup Items(do)) = {}
  /\ Running(ma) \cap Outcomes(an) = {}
  /\ ma # Bridge!NoRun => (ma[2] = "ran" <=> ma[1] \in Items(do))
  /\ \A a \in Attempts : /\ <<a, TRUE>> \in an => a \in Items(do)
                         /\ <<a, FALSE>> \in an => a \notin Items(do)
  /\ pe \subseteq Items(ev) \cup Running(ma) \cup Outcomes(an)
  /\ Outcomes(an) \subseteq pe
  /\ ab \cap (pe \cup Items(do) \cup Running(ma)) = {}

Current(st, a) == a[2] = st[a[1]].attempt
Waits(st, a) == Current(st, a) /\ st[a[1]].pc = "wait"

\* What an attempt may have left behind: nothing before it reaches the host,
\* and after it ended only what it was cut off from or what it was told.
Traced(st, pe, ev, ma, an, do, ab, cu) ==
  /\ \A a \in Held(pe, ev, ma, an) : a \in cu \/ Waits(st, a)
  /\ \A a \in Items(do) : a \in cu \/ Waits(st, a) \/ (Current(st, a) /\ st[a[1]].result = "ok")
  /\ \A a \in Held(pe, ev, ma, an) \cup Items(do) \cup ab :
       /\ a[2] <= st[a[1]].attempt
       /\ Current(st, a) => st[a[1]].pc \in {"idle", "wait"}
  /\ \A s \in Steps :
       /\ st[s].result = "ok" => <<s, st[s].attempt>> \in Items(do)
       /\ st[s].pc # "idle" => st[s].result = "none"

\* The inductive invariant.
BridgeInv ==
  /\ BridgeTypeOK
  /\ Placed(pending, events, main, answers, document, abandoned)
  /\ Traced(step, pending, events, main, answers, document, abandoned, cut)
-----------------------------------------------------------------------------
(***************************************************************************)
(* Queues, and what the operators say                                      *)
(***************************************************************************)
LEMMA ItemsOfEmpty == Items(<<>>) = {} /\ Distinct(<<>>)
  BY DEF Items, Distinct

LEMMA ItemsOfAppend ==
  ASSUME NEW S, NEW q \in Seq(S), NEW x \in S
  PROVE  /\ Append(q, x) \in Seq(S) /\ Items(Append(q, x)) = Items(q) \cup {x}
         /\ Distinct(q) /\ x \notin Items(q) => Distinct(Append(q, x))
<1> DEFINE r == Append(q, x)
<1>1. r \in Seq(S) /\ DOMAIN r = 1 .. Len(q) + 1 /\ DOMAIN q = 1 .. Len(q) /\ Len(q) \in Nat
  OBVIOUS
<1>2. r[Len(q) + 1] = x /\ \A i \in 1 .. Len(q) : r[i] = q[i]
  OBVIOUS
<1> HIDE DEF r
<1>3. Items(r) = Items(q) \cup {x}
  BY <1>1, <1>2 DEF Items
<1>4. Distinct(q) /\ x \notin Items(q) => Distinct(r)
  BY <1>1, <1>2 DEF Items, Distinct
<1> QED  BY <1>1, <1>3, <1>4 DEF r

LEMMA ItemsOfTail ==
  ASSUME NEW S, NEW q \in Seq(S), q # <<>>
  PROVE  /\ Tail(q) \in Seq(S) /\ Head(q) \in Items(q) /\ Head(q) \in S
         /\ Distinct(q) => Distinct(Tail(q)) /\ Items(Tail(q)) = Items(q) \ {Head(q)}
<1> DEFINE r == Tail(q)
<1>1. /\ r \in Seq(S) /\ DOMAIN r = 1 .. Len(q) - 1 /\ DOMAIN q = 1 .. Len(q) /\ Len(q) \in Nat
      /\ Len(q) >= 1 /\ Head(q) = q[1] /\ q[1] \in S
  OBVIOUS
<1>2. \A i \in 1 .. Len(q) - 1 : r[i] = q[i + 1]
  OBVIOUS
<1> HIDE DEF r
<1>3. Head(q) \in Items(q)
  BY <1>1 DEF Items
<1>4. ASSUME Distinct(q) PROVE Distinct(r)
  <2> SUFFICES ASSUME NEW i \in DOMAIN r, NEW j \in DOMAIN r, r[i] = r[j] PROVE i = j
    BY DEF Distinct
  <2>1. q[i + 1] = q[j + 1] /\ i + 1 \in DOMAIN q /\ j + 1 \in DOMAIN q
    BY <1>1, <1>2
  <2>2. i + 1 = j + 1
    BY <1>4, <2>1 DEF Distinct
  <2> QED  BY <1>1, <2>2
<1>5. ASSUME Distinct(q) PROVE Items(r) = Items(q) \ {Head(q)}
  <2>1. Items(r) \subseteq Items(q) \ {Head(q)}
    BY <1>1, <1>2, <1>5 DEF Items, Distinct
  <2>2. ASSUME NEW i \in DOMAIN q, q[i] # Head(q) PROVE q[i] \in Items(r)
    <3>1. i - 1 \in DOMAIN r /\ r[i - 1] = q[i]
      BY <1>1, <1>2, <2>2
    <3> QED  BY <3>1 DEF Items
  <2> QED  BY <2>1, <2>2 DEF Items
<1> QED  BY <1>1, <1>3, <1>4, <1>5 DEF r

\* How often an attempt ran.
LEMMA TimesIs ==
  ASSUME Distinct(document), NEW a
  PROVE  Times(a) = IF a \in Items(document) THEN 1 ELSE 0
<1> DEFINE there == {i \in DOMAIN document : document[i] = a}
<1>1. CASE a \in Items(document)
  <2>1. PICK i : there = {i}
    BY <1>1 DEF Items, Distinct
  <2> HIDE DEF there
  <2>2. Cardinality({i}) = 1
    BY FS_Singleton
  <2> QED  BY <1>1, <2>1, <2>2 DEF Times, there
<1>2. CASE a \notin Items(document)
  <2>1. there = {}
    BY <1>2 DEF Items
  <2> QED  BY <1>2, <2>1, FS_EmptySet DEF Times
<1> QED  BY <1>1, <1>2

LEMMA AnsweredIs ==
  ASSUME BridgeTypeOK, NEW a \in Attempts PROVE Bridge!Answered(a) <=> a \in Outcomes(answers)
<1>1. ASSUME Bridge!Answered(a) PROVE a \in Outcomes(answers)
  <2>1. <<a, TRUE>>[1] = a /\ <<a, FALSE>>[1] = a
    OBVIOUS
  <2> QED  BY <1>1, <2>1 DEF Bridge!Answered, Outcomes
<1>2. ASSUME NEW x \in answers, x[1] = a PROVE Bridge!Answered(a)
  <2>1. x = <<a, x[2]>> /\ x[2] \in BOOLEAN
    BY <1>2 DEF BridgeTypeOK
  <2>2. x = <<a, TRUE>> \/ x = <<a, FALSE>>
    BY <2>1
  <2> QED  BY <1>2, <2>2 DEF Bridge!Answered
<1> QED  BY <1>1, <1>2 DEF Outcomes
-----------------------------------------------------------------------------
(***************************************************************************)
(* The steps                                                               *)
(***************************************************************************)
LEMMA BridgeInitSound == Bridge!Init => BridgeInv
<1> SUFFICES ASSUME Bridge!Init PROVE BridgeInv
  OBVIOUS
<1>1. Bridge!Idle \in Runs /\ Bridge!Idle.pc = "idle" /\ Bridge!Idle.result = "none"
  BY DEF Bridge!Idle, Runs
<1>2. /\ step = [s \in Steps |-> Bridge!Idle] /\ pending = {} /\ events = <<>> /\ main = Bridge!NoRun
      /\ answers = {} /\ document = <<>> /\ abandoned = {}
  BY DEF Bridge!Init
<1>3. Running(main) = {} /\ Outcomes(answers) = {} /\ Items(events) = {} /\ Items(document) = {}
  BY <1>2, ItemsOfEmpty DEF Running, Outcomes
<1>4. BridgeTypeOK
  BY <1>1, <1>2 DEF BridgeTypeOK
<1>5. Placed(pending, events, main, answers, document, abandoned)
  BY <1>2, <1>3, ItemsOfEmpty DEF Placed
<1>6. Traced(step, pending, events, main, answers, document, abandoned, cut)
  BY <1>1, <1>2, <1>3 DEF Traced, Held
<1> QED  BY <1>4, <1>5, <1>6 DEF BridgeInv

\* An attempt is written before anything of it reaches the host.
LEMMA Unused ==
  ASSUME BridgeInv, NEW s \in Steps, step[s].pc \in {"execute", "post", "connect"}
  PROVE  /\ Bridge!Attempt(s) \in Attempts
         /\ Bridge!Attempt(s) \notin Held(pending, events, main, answers) \cup Items(document) \cup abandoned
<1>1. Bridge!Attempt(s) \in Attempts /\ Bridge!Attempt(s)[1] = s /\ Bridge!Attempt(s)[2] = step[s].attempt
  BY DEF Bridge!Attempt, Attempts, BridgeInv, BridgeTypeOK, Runs
<1>2. Current(step, Bridge!Attempt(s))
  BY <1>1 DEF Current
<1> QED  BY <1>1, <1>2 DEF BridgeInv, Traced

\* A step of a thread alone: its attempt goes on, ends without a document, or
\* is the next one.
LEMMA ThreadStep ==
  ASSUME BridgeInv, NEW s \in Steps, UNCHANGED Bridge!host, UNCHANGED cut,
         step' = [step EXCEPT ![s] = step'[s]], step'[s] \in Runs,
         step[s].pc \in {"idle", "execute", "post", "connect"}, step[s].result # "ok",
         step'[s].result # "ok", step'[s].pc # "idle" => step'[s].result = "none",
         \/ step'[s].attempt = step[s].attempt + 1
         \/ step'[s].attempt = step[s].attempt /\ step[s].pc # "idle"
  PROVE  BridgeInv'
<1>1. /\ UNCHANGED <<pending, events, main, answers, document, abandoned, cut>>
      /\ step[s] \in Runs /\ \A u \in Steps : u # s => step'[u] = step[u]
  BY DEF Bridge!host, BridgeInv, BridgeTypeOK
<1>2. BridgeTypeOK'
  BY <1>1 DEF BridgeInv, BridgeTypeOK
<1> DEFINE Used == Held(pending, events, main, answers) \cup Items(document) \cup abandoned
<1>3. Used \subseteq Attempts
  BY DEF Used, Held, Items, Running, Outcomes, BridgeInv, BridgeTypeOK, Mains
<1>4. ASSUME NEW a \in Used
      PROVE  /\ a[1] \in Steps /\ a[2] \in Nat
             /\ a[1] # s => step'[a[1]] = step[a[1]]
             /\ a[1] = s => a[2] < step'[s].attempt /\ ~Waits(step, a)
                            /\ step[s].result # "ok"
  <2>1. a \in Attempts /\ a[1] \in Steps /\ a[2] \in Nat /\ a[2] <= step[a[1]].attempt
    BY <1>3 DEF Attempts, BridgeInv, Traced
  <2>2. CASE a[1] # s
    BY <1>1, <2>1, <2>2
  <2>3. CASE a[1] = s
    <3>1. ~Waits(step, a)
      BY <2>3 DEF Waits
    <3>2. step[s].pc # "idle" => ~Current(step, a)
      BY <2>3 DEF BridgeInv, Traced
    <3>3. a[2] < step'[s].attempt
      BY <1>1, <2>1, <2>3, <3>2 DEF Current, Runs
    <3> QED  BY <2>1, <2>3, <3>1, <3>3
  <2> QED  BY <2>2, <2>3
<1>5. \A a \in Used : a[1] = s => ~Current(step', a)
  BY <1>4 DEF Current, Runs
<1>6. \A a \in Held(pending, events, main, answers) : a \in cut \/ Waits(step', a)
  BY <1>4 DEF BridgeInv, Traced, Waits, Current
<1>7. \A a \in Items(document) :
        a \in cut \/ Waits(step', a) \/ (Current(step', a) /\ step'[a[1]].result = "ok")
  BY <1>4 DEF BridgeInv, Traced, Waits, Current
<1>8. \A a \in Used : a[2] <= step'[a[1]].attempt
                      /\ (Current(step', a) => step'[a[1]].pc \in {"idle", "wait"})
  BY <1>4, <1>5 DEF BridgeInv, Traced, Current, Runs
<1>9. \A u \in Steps : /\ step'[u].result = "ok" => <<u, step'[u].attempt>> \in Items(document)
                       /\ step'[u].pc # "idle" => step'[u].result = "none"
  BY <1>1 DEF BridgeInv, Traced
<1> QED  BY <1>1, <1>2, <1>6, <1>7, <1>8, <1>9 DEF BridgeInv, Traced

LEMMA AvailableSound == ASSUME BridgeInv, NEW s \in Steps, Bridge!Available(s) PROVE BridgeInv'
<1>1. /\ step[s] \in Runs /\ step \in [Steps -> Runs] /\ step[s].pc = "idle" /\ step[s].result # "ok"
      /\ UNCHANGED <<Bridge!host, cut>>
  BY DEF Bridge!Available, Bridge!At, BridgeInv, BridgeTypeOK
<1> DEFINE r == [step[s] EXCEPT !.attempt = @ + 1,
                   !.pc = IF cache' = "mock" THEN "idle" ELSE "execute",
                   !.result = IF cache' = "mock" THEN "mock" ELSE "none"]
<1>2. step' = [step EXCEPT ![s] = r]
  BY <1>1 DEF Bridge!Available
<1>3. /\ r \in Runs /\ r.attempt = step[s].attempt + 1 /\ r.result # "ok"
      /\ r.pc # "idle" => r.result = "none"
  <2>1. step[s].attempt + 1 \in Nat
    BY <1>1 DEF Runs
  <2>2. CASE cache' = "mock"
    BY <1>1, <2>1, <2>2 DEF Runs
  <2>3. CASE cache' # "mock"
    BY <1>1, <2>1, <2>3 DEF Runs
  <2> QED  BY <2>2, <2>3
<1> HIDE DEF r
<1>4. step'[s] = r /\ step' = [step EXCEPT ![s] = step'[s]]
  BY <1>1, <1>2
<1> QED  BY <1>1, <1>3, <1>4, ThreadStep

LEMMA ExecuteSound == ASSUME BridgeInv, NEW s \in Steps, Bridge!Execute(s) PROVE BridgeInv'
<1>1. /\ step[s] \in Runs /\ step \in [Steps -> Runs] /\ step[s].pc = "execute"
      /\ step[s].result = "none" /\ UNCHANGED <<Bridge!host, cut>>
  BY DEF Bridge!Execute, Bridge!At, BridgeInv, BridgeTypeOK, Traced
<1>2. PICK r \in Runs : /\ step' = [step EXCEPT ![s] = r] /\ r.attempt = step[s].attempt
                        /\ r.result # "ok" /\ (r.pc # "idle" => r.result = "none")
  <2>1. ASSUME NEW pc \in {"post", "connect"}, Bridge!Goto(s, pc)
        PROVE  \E r \in Runs : /\ step' = [step EXCEPT ![s] = r] /\ r.attempt = step[s].attempt
                               /\ r.result # "ok" /\ (r.pc # "idle" => r.result = "none")
    <3>1. [step[s] EXCEPT !.pc = pc] \in Runs
      BY <1>1 DEF Runs
    <3> QED  BY <1>1, <2>1, <3>1 DEF Bridge!Goto, Runs
  <2>2. ASSUME Bridge!End(s, "error")
        PROVE  \E r \in Runs : /\ step' = [step EXCEPT ![s] = r] /\ r.attempt = step[s].attempt
                               /\ r.result # "ok" /\ (r.pc # "idle" => r.result = "none")
    <3>1. [step[s] EXCEPT !.pc = "idle", !.result = "error"] \in Runs
      BY <1>1 DEF Runs
    <3>2. step' = [step EXCEPT ![s] = [step[s] EXCEPT !.pc = "idle", !.result = "error"]]
      BY <1>1, <2>2 DEF Bridge!End
    <3> QED  BY <1>1, <3>1, <3>2 DEF Runs
  <2> QED  BY <2>1, <2>2 DEF Bridge!Execute
<1>3. step'[s] = r /\ step' = [step EXCEPT ![s] = step'[s]]
  BY <1>1, <1>2
<1> QED  BY <1>1, <1>2, <1>3, ThreadStep

\* A run that ends.
LEMMA Ended ==
  ASSUME BridgeInv, NEW s \in Steps, NEW x \in {"ok", "error"}, Bridge!End(s, x)
  PROVE  /\ step' = [step EXCEPT ![s] = step'[s]] /\ step' \in [Steps -> Runs]
         /\ step'[s] \in Runs /\ step'[s].pc = "idle" /\ step'[s].result = x
         /\ step'[s].attempt = step[s].attempt
         /\ \A u \in Steps : u # s => step'[u] = step[u]
<1> DEFINE r == [step[s] EXCEPT !.pc = "idle", !.result = x]
<1>1. step[s] \in Runs /\ step \in [Steps -> Runs]
  BY DEF BridgeInv, BridgeTypeOK
<1>2. r \in Runs /\ r.pc = "idle" /\ r.result = x /\ r.attempt = step[s].attempt
  BY <1>1 DEF Runs
<1>3. step' = [step EXCEPT ![s] = r]
  BY <1>1 DEF Bridge!End
<1> HIDE DEF r
<1> QED  BY <1>1, <1>2, <1>3

\* A call of Autodesk's server: it may have run the tool, and the adapter may
\* not learn of it.
LEMMA PostSound == ASSUME BridgeInv, NEW s \in Steps, Bridge!Post(s) PROVE BridgeInv'
<1> DEFINE a == Bridge!Attempt(s)
           Old == Held(pending, events, main, answers)
<1>1. /\ step[s].pc = "post" /\ step[s].result = "none" /\ step \in [Steps -> Runs]
      /\ UNCHANGED <<pending, events, main, answers, abandoned>>
      /\ a \in Attempts /\ a[1] = s /\ a = <<s, step[s].attempt>>
      /\ document \in Seq(Attempts)
  BY Unused DEF Bridge!Post, Bridge!At, BridgeInv, BridgeTypeOK, Traced, Bridge!Attempt
<1>2. a \notin Old \cup Items(document) \cup abandoned
  BY <1>1, Unused
<1>3. PICK x \in {"ok", "error"} :
        /\ Bridge!End(s, x)
        /\ \/ document' = Append(document, a) /\ (x = "ok" \/ a \in cut')
           \/ document' = document /\ x = "error"
        /\ cut \subseteq cut'
  BY DEF Bridge!Post, Bridge!Broken
<1>4. /\ document' \in Seq(Attempts) /\ Distinct(document')
      /\ \/ Items(document') = Items(document) \cup {a} /\ (x = "ok" \/ a \in cut')
         \/ Items(document') = Items(document) /\ x = "error"
  <2> HIDE DEF a
  <2>1. Distinct(document)
    BY DEF BridgeInv, Placed
  <2>2. /\ Append(document, a) \in Seq(Attempts) /\ Distinct(Append(document, a))
        /\ Items(Append(document, a)) = Items(document) \cup {a}
    BY <1>1, <1>2, <2>1, ItemsOfAppend
  <2> QED  BY <1>1, <1>3, <2>1, <2>2
<1>5. /\ step' \in [Steps -> Runs] /\ step'[s].pc = "idle" /\ step'[s].result = x
      /\ step'[s].attempt = step[s].attempt /\ \A u \in Steps : u # s => step'[u] = step[u]
  BY <1>3, Ended
<1>6. BridgeTypeOK'
  BY <1>1, <1>4, <1>5 DEF BridgeInv, BridgeTypeOK
<1>7. /\ Items(events) \subseteq Old /\ Running(main) \subseteq Old /\ Outcomes(answers) \subseteq Old
      /\ pending \subseteq Old /\ (main # Bridge!NoRun => main[1] \in Old)
      /\ \A b \in Attempts : (<<b, TRUE>> \in answers \/ <<b, FALSE>> \in answers) => b \in Old
  <2>1. \A b : <<b, TRUE>>[1] = b /\ <<b, FALSE>>[1] = b
    OBVIOUS
  <2> QED  BY <2>1 DEF Held, Running, Outcomes
<1> HIDE DEF a, Old
<1>8. Placed(pending, events, main, answers, document', abandoned)
  BY <1>2, <1>4, <1>7 DEF BridgeInv, Placed
<1>9. ASSUME NEW b \in Old \cup Items(document) \cup abandoned
      PROVE  /\ b[1] \in Steps /\ b[2] <= step'[b[1]].attempt
             /\ Current(step', b) => step'[b[1]].pc \in {"idle", "wait"}
             /\ Waits(step, b) => Waits(step', b)
             /\ Current(step, b) => b[1] # s
  <2>1. b \in Attempts /\ b[1] \in Steps
    BY DEF Old, Held, Items, Running, Outcomes, BridgeInv, BridgeTypeOK, Mains, Attempts
  <2>2. b[2] <= step[b[1]].attempt /\ (Current(step, b) => step[b[1]].pc \in {"idle", "wait"})
    BY DEF BridgeInv, Traced, Old
  <2>3. CASE b[1] = s
    BY <1>1, <1>5, <2>1, <2>2, <2>3 DEF Waits, Current
  <2>4. CASE b[1] # s
    BY <1>5, <2>1, <2>2, <2>4 DEF Waits, Current
  <2> QED  BY <2>3, <2>4
<1>10. Traced(step', pending, events, main, answers, document', abandoned, cut')
  <2>1. \A b \in Old : b \in cut' \/ Waits(step', b)
    BY <1>3, <1>9 DEF BridgeInv, Traced, Old
  <2>2. \A b \in Items(document) :
          b \in cut' \/ Waits(step', b) \/ (Current(step', b) /\ step'[b[1]].result = "ok")
    BY <1>3, <1>5, <1>9 DEF BridgeInv, Traced, Current
  <2>3. /\ a[2] <= step'[a[1]].attempt /\ step'[a[1]].pc = "idle" /\ Current(step', a)
        /\ step'[a[1]].result = x /\ a = <<s, step'[s].attempt>> /\ step'[s].attempt \in Nat
    <3>1. a[1] = s /\ a[2] = step[s].attempt /\ step'[s].attempt \in Nat
      BY <1>1, <1>5 DEF a, Bridge!Attempt, Runs
    <3> QED  BY <1>1, <1>5, <3>1 DEF Current
  <2>4. \A b \in Items(document') :
          b \in cut' \/ Waits(step', b) \/ (Current(step', b) /\ step'[b[1]].result = "ok")
    BY <1>4, <2>2, <2>3
  <2>5. \A b \in Old \cup Items(document') \cup abandoned :
          /\ b[2] <= step'[b[1]].attempt
          /\ Current(step', b) => step'[b[1]].pc \in {"idle", "wait"}
    BY <1>4, <1>9, <2>3
  <2>6. ASSUME NEW u \in Steps
        PROVE  /\ step'[u].result = "ok" => <<u, step'[u].attempt>> \in Items(document')
               /\ step'[u].pc # "idle" => step'[u].result = "none"
    <3>1. CASE u = s
      BY <1>4, <1>5, <2>3, <3>1
    <3>2. CASE u # s
      BY <1>4, <1>5, <3>2 DEF BridgeInv, Traced
    <3> QED  BY <3>1, <3>2
  <2> QED  BY <2>1, <2>4, <2>5, <2>6 DEF Traced, Old
<1> QED  BY <1>1, <1>6, <1>8, <1>10 DEF BridgeInv

\* A request is queued for the main thread, and its thread waits for it.
LEMMA ConnectSound == ASSUME BridgeInv, NEW s \in Steps, Bridge!Connect(s) PROVE BridgeInv'
<1> DEFINE a == Bridge!Attempt(s)
           Old == Held(pending, events, main, answers)
           r == [step[s] EXCEPT !.pc = "wait", !.worker = TRUE]
<1>1. /\ step[s].pc = "connect" /\ step[s].result = "none" /\ step \in [Steps -> Runs]
      /\ step[s] \in Runs /\ UNCHANGED <<main, answers, document, abandoned, cut>>
      /\ a \in Attempts /\ a[1] = s /\ a[2] = step[s].attempt /\ events \in Seq(Attempts)
  BY Unused DEF Bridge!Connect, Bridge!At, BridgeInv, BridgeTypeOK, Traced, Bridge!Attempt
<1>2. a \notin Old \cup Items(document) \cup abandoned
  BY <1>1, Unused
<1>3. CASE Bridge!Broken(s) /\ UNCHANGED <<pending, events>>
  <2>1. UNCHANGED <<Bridge!host, cut>>
    BY <1>3 DEF Bridge!Connect, Bridge!host
  <2>2. Bridge!End(s, "error")
    BY <1>3 DEF Bridge!Broken
  <2> QED  BY <1>1, <2>1, <2>2, Ended, ThreadStep
<1>4. CASE /\ pending' = pending \cup {a} /\ events' = Append(events, a)
           /\ step' = [step EXCEPT ![s].pc = "wait", ![s].worker = TRUE]
  <2>1. /\ r \in Runs /\ r.pc = "wait" /\ r.attempt = step[s].attempt /\ r.result = "none"
    BY <1>1 DEF Runs
  <2>2. step' = [step EXCEPT ![s] = r]
    BY <1>1, <1>4
  <2> HIDE DEF r
  <2>3. /\ step' \in [Steps -> Runs] /\ step'[s].pc = "wait" /\ step'[s].result = "none"
        /\ step'[s].attempt = step[s].attempt /\ \A u \in Steps : u # s => step'[u] = step[u]
    BY <1>1, <2>1, <2>2
  <2>4. /\ Items(events) \subseteq Old /\ Running(main) \subseteq Old
        /\ Outcomes(answers) \subseteq Old /\ pending \subseteq Old
    BY DEF Held
  <2> HIDE DEF a, Old
  <2>5. /\ events' \in Seq(Attempts) /\ Distinct(events') /\ Items(events') = Items(events) \cup {a}
    BY <1>1, <1>2, <1>4, <2>4, ItemsOfAppend DEF BridgeInv, Placed
  <2>6. BridgeTypeOK'
    BY <1>1, <1>4, <2>3, <2>5 DEF BridgeInv, BridgeTypeOK
  <2>7. Placed(pending', events', main, answers, document, abandoned)
    BY <1>2, <1>4, <2>4, <2>5 DEF BridgeInv, Placed
  <2>8. Held(pending', events', main, answers) = Old \cup {a}
    BY <1>4, <2>5 DEF Held, Old
  <2>9. ASSUME NEW b \in Old \cup Items(document) \cup abandoned
        PROVE  /\ b[1] \in Steps /\ b[2] <= step'[b[1]].attempt
               /\ Current(step', b) => step'[b[1]].pc \in {"idle", "wait"}
               /\ Waits(step, b) => Waits(step', b)
               /\ Current(step, b) => b[1] # s
    <3>1. b \in Attempts /\ b[1] \in Steps
      BY DEF Old, Held, Items, Running, Outcomes, BridgeInv, BridgeTypeOK, Mains, Attempts
    <3>2. b[2] <= step[b[1]].attempt /\ (Current(step, b) => step[b[1]].pc \in {"idle", "wait"})
      BY DEF BridgeInv, Traced, Old
    <3>3. CASE b[1] = s
      BY <1>1, <2>3, <3>1, <3>2, <3>3 DEF Waits, Current
    <3>4. CASE b[1] # s
      BY <2>3, <3>1, <3>2, <3>4 DEF Waits, Current
    <3> QED  BY <3>3, <3>4
  <2>10. Waits(step', a) /\ a[2] <= step'[a[1]].attempt /\ step'[a[1]].pc = "wait"
    BY <1>1, <2>3 DEF Waits, Current, Runs
  <2>11. Traced(step', pending', events', main, answers, document, abandoned, cut)
    <3>1. \A b \in Old \cup {a} : b \in cut \/ Waits(step', b)
      BY <2>9, <2>10 DEF BridgeInv, Traced, Old
    <3>2. \A b \in Items(document) :
            b \in cut \/ Waits(step', b) \/ (Current(step', b) /\ step'[b[1]].result = "ok")
      BY <2>3, <2>9 DEF BridgeInv, Traced, Current
    <3>3. \A b \in Old \cup {a} \cup Items(document) \cup abandoned :
            /\ b[2] <= step'[b[1]].attempt
            /\ Current(step', b) => step'[b[1]].pc \in {"idle", "wait"}
      BY <2>9, <2>10
    <3>4. \A u \in Steps : /\ step'[u].result = "ok" => <<u, step'[u].attempt>> \in Items(document)
                           /\ step'[u].pc # "idle" => step'[u].result = "none"
      BY <2>3 DEF BridgeInv, Traced
    <3> QED  BY <2>8, <3>1, <3>2, <3>3, <3>4 DEF Traced
  <2> QED  BY <1>1, <2>6, <2>7, <2>11 DEF BridgeInv
<1> QED  BY <1>3, <1>4 DEF Bridge!Connect

\* The attempt leaves the add-in, with an answer or without.
LEMMA Removed ==
  ASSUME BridgeInv, NEW a \in Attempts, pending' = pending \ {a},
         answers' = answers \ {<<a, TRUE>>, <<a, FALSE>>}
  PROVE  /\ Outcomes(answers') = Outcomes(answers) \ {a}
         /\ answers' \subseteq answers /\ answers \subseteq Attempts \X BOOLEAN
<1>1. answers' \subseteq answers /\ answers \subseteq Attempts \X BOOLEAN
  BY DEF BridgeInv, BridgeTypeOK
<1>2. \A x \in answers : x = <<x[1], x[2]>> /\ x[2] \in BOOLEAN
  BY <1>1
<1>3. \A x \in answers : x[1] = a => x = <<a, TRUE>> \/ x = <<a, FALSE>>
  BY <1>2
<1>4. <<a, TRUE>>[1] = a /\ <<a, FALSE>>[1] = a
  OBVIOUS
<1>5. \A x \in answers : x \in answers' <=> x[1] # a
  BY <1>3, <1>4
<1> QED  BY <1>1, <1>5 DEF Outcomes

\* The step is told what happened to its attempt.
LEMMA ReceiveSound == ASSUME BridgeInv, NEW s \in Steps, Bridge!Receive(s) PROVE BridgeInv'
<1> DEFINE a == Bridge!Attempt(s)
           x == IF <<a, TRUE>> \in answers THEN "ok" ELSE "error"
           r == [step[s] EXCEPT !.pc = "idle", !.worker = FALSE, !.result = x]
<1>1. /\ step[s].pc = "wait" /\ step[s].result = "none" /\ step \in [Steps -> Runs]
      /\ step[s] \in Runs /\ UNCHANGED <<events, main, document, abandoned, cut>>
      /\ pending' = pending \ {a} /\ answers' = answers \ {<<a, TRUE>>, <<a, FALSE>>}
      /\ Bridge!Answered(a) /\ step' = [step EXCEPT ![s] = r]
  BY DEF Bridge!Receive, Bridge!At, BridgeInv, BridgeTypeOK, Traced
<1>2. a \in Attempts /\ a[1] = s /\ a[2] = step[s].attempt /\ a = <<s, step[s].attempt>>
  BY <1>1 DEF Bridge!Attempt, Attempts, Runs
<1>3. r \in Runs /\ r.pc = "idle" /\ r.attempt = step[s].attempt /\ r.result = x
  BY <1>1 DEF Runs
<1> HIDE DEF r
<1>4. /\ step' \in [Steps -> Runs] /\ step'[s].pc = "idle" /\ step'[s].result = x
      /\ step'[s].attempt = step[s].attempt /\ \A u \in Steps : u # s => step'[u] = step[u]
  BY <1>1, <1>3
<1>5. /\ a \in Outcomes(answers)
      /\ \/ x = "ok" /\ a \in Items(document)
         \/ x = "error" /\ a \notin Items(document)
  BY <1>1, <1>2, AnsweredIs DEF Bridge!Answered, BridgeInv, Placed
<1> HIDE DEF a, x
<1>6. /\ Outcomes(answers') = Outcomes(answers) \ {a} /\ answers' \subseteq answers
      /\ answers \subseteq Attempts \X BOOLEAN
  BY <1>1, <1>2, Removed
<1>7. BridgeTypeOK'
  BY <1>1, <1>4, <1>6 DEF BridgeInv, BridgeTypeOK
<1>8. a \notin Items(events) \cup Running(main)
  BY <1>5 DEF BridgeInv, Placed
<1>9. Placed(pending', events, main, answers', document, abandoned)
  BY <1>1, <1>5, <1>6, <1>8 DEF BridgeInv, Placed
<1>10. /\ Held(pending', events, main, answers') = Held(pending, events, main, answers) \ {a}
       /\ a \in Held(pending, events, main, answers)
  BY <1>1, <1>5, <1>6, <1>8 DEF Held
<1>11. ASSUME NEW b \in Held(pending, events, main, answers) \cup Items(document) \cup abandoned
       PROVE  /\ b[1] \in Steps /\ b[2] <= step'[b[1]].attempt
              /\ Current(step', b) => step'[b[1]].pc \in {"idle", "wait"}
              /\ Waits(step, b) /\ b # a => Waits(step', b)
              /\ b[1] # s => (Current(step', b) <=> Current(step, b)) /\ step'[b[1]] = step[b[1]]
  <2>1. b \in Attempts /\ b[1] \in Steps
    BY DEF Held, Items, Running, Outcomes, BridgeInv, BridgeTypeOK, Mains, Attempts
  <2>2. b[2] <= step[b[1]].attempt /\ (Current(step, b) => step[b[1]].pc \in {"idle", "wait"})
    BY DEF BridgeInv, Traced
  <2>3. CASE b[1] = s
    <3>1. Waits(step, b) => b = a
      BY <1>2, <2>1, <2>3 DEF Waits, Current, Attempts
    <3> QED  BY <1>4, <2>1, <2>2, <2>3, <3>1
  <2>4. CASE b[1] # s
    BY <1>4, <2>1, <2>2, <2>4 DEF Waits, Current
  <2> QED  BY <2>3, <2>4
<1>12. Traced(step', pending', events, main, answers', document, abandoned, cut)
  <2>1. \A b \in Held(pending', events, main, answers') : b \in cut \/ Waits(step', b)
    BY <1>10, <1>11 DEF BridgeInv, Traced
  <2>2. ASSUME NEW b \in Items(document)
        PROVE  b \in cut \/ Waits(step', b) \/ (Current(step', b) /\ step'[b[1]].result = "ok")
    <3>1. b \in cut \/ Waits(step, b) \/ (Current(step, b) /\ step[b[1]].result = "ok")
      BY DEF BridgeInv, Traced
    <3>2. CASE b = a
      BY <1>2, <1>4, <1>5, <3>2 DEF Current
    <3>3. CASE b # a /\ b[1] = s
      BY <1>1, <1>11, <3>1, <3>3
    <3>4. CASE b[1] # s
      BY <1>2, <1>11, <3>1, <3>4
    <3> QED  BY <3>2, <3>3, <3>4
  <2>3. \A u \in Steps : /\ step'[u].result = "ok" => <<u, step'[u].attempt>> \in Items(document)
                         /\ step'[u].pc # "idle" => step'[u].result = "none"
    BY <1>2, <1>4, <1>5 DEF BridgeInv, Traced
  <2> QED  BY <1>10, <1>11, <2>1, <2>2, <2>3 DEF Traced
<1> QED  BY <1>1, <1>7, <1>9, <1>12 DEF BridgeInv

\* The adapter gives up on the answer: the attempt may go on without it.
LEMMA LostSound == ASSUME BridgeInv, NEW s \in Steps, Bridge!Lost(s) PROVE BridgeInv'
<1> DEFINE a == Bridge!Attempt(s)
<1>1. /\ step[s].pc = "wait" /\ step[s].result = "none" /\ step \in [Steps -> Runs]
      /\ UNCHANGED <<pending, events, main, answers, document, abandoned>>
      /\ cut' = cut \cup {a} /\ Bridge!End(s, "error")
  BY DEF Bridge!Lost, Bridge!Broken, Bridge!host, Bridge!At, BridgeInv, BridgeTypeOK, Traced
<1>2. /\ step' \in [Steps -> Runs] /\ step'[s].pc = "idle" /\ step'[s].result = "error"
      /\ step'[s].attempt = step[s].attempt /\ \A u \in Steps : u # s => step'[u] = step[u]
  BY <1>1, Ended
<1>3. BridgeTypeOK'
  BY <1>1, <1>2 DEF BridgeInv, BridgeTypeOK
<1>4. Placed(pending, events, main, answers, document, abandoned)'
  BY <1>1 DEF BridgeInv
<1>5. a[1] = s /\ a[2] = step[s].attempt /\ a = <<s, step[s].attempt>>
  BY DEF Bridge!Attempt
<1>6. ASSUME NEW b \in Held(pending, events, main, answers) \cup Items(document) \cup abandoned
      PROVE  /\ b[2] <= step'[b[1]].attempt
             /\ Current(step', b) => step'[b[1]].pc \in {"idle", "wait"}
             /\ Waits(step, b) => b = a \/ Waits(step', b)
             /\ Current(step, b) /\ step[b[1]].result = "ok"
                  => Current(step', b) /\ step'[b[1]].result = "ok"
  <2>1. b \in Attempts /\ b[1] \in Steps /\ b = <<b[1], b[2]>>
    BY DEF Held, Items, Running, Outcomes, BridgeInv, BridgeTypeOK, Mains, Attempts
  <2>2. b[2] <= step[b[1]].attempt /\ (Current(step, b) => step[b[1]].pc \in {"idle", "wait"})
    BY DEF BridgeInv, Traced
  <2>3. CASE b[1] = s
    BY <1>1, <1>2, <1>5, <2>1, <2>2, <2>3 DEF Waits, Current
  <2>4. CASE b[1] # s
    BY <1>2, <2>1, <2>2, <2>4 DEF Waits, Current
  <2> QED  BY <2>3, <2>4
<1> HIDE DEF a
<1>7. Traced(step', pending, events, main, answers, document, abandoned, cut')
  <2>1. \A b \in Held(pending, events, main, answers) : b \in cut' \/ Waits(step', b)
    BY <1>1, <1>6 DEF BridgeInv, Traced
  <2>2. \A b \in Items(document) :
          b \in cut' \/ Waits(step', b) \/ (Current(step', b) /\ step'[b[1]].result = "ok")
    BY <1>1, <1>6 DEF BridgeInv, Traced
  <2>3. \A u \in Steps : /\ step'[u].result = "ok" => <<u, step'[u].attempt>> \in Items(document)
                         /\ step'[u].pc # "idle" => step'[u].result = "none"
    BY <1>2 DEF BridgeInv, Traced
  <2> QED  BY <1>6, <2>1, <2>2, <2>3 DEF Traced
<1> QED  BY <1>1, <1>3, <1>4, <1>7 DEF BridgeInv

\* What the add-in does alone: it builds only what it held, and holds nothing
\* new.
LEMMA HostStep ==
  ASSUME BridgeInv, BridgeTypeOK', cut' = cut,
         Placed(pending', events', main', answers', document', abandoned'),
         Held(pending', events', main', answers') \subseteq Held(pending, events, main, answers),
         Items(document) \subseteq Items(document'),
         Items(document') \subseteq Items(document) \cup Held(pending, events, main, answers),
         abandoned' \subseteq abandoned \cup Held(pending, events, main, answers),
         \A s \in Steps : /\ step'[s].pc = step[s].pc /\ step'[s].attempt = step[s].attempt
                          /\ step'[s].result = step[s].result
  PROVE  BridgeInv'
<1> DEFINE Old == Held(pending, events, main, answers)
<1>1. ASSUME NEW b \in Old \cup Items(document) \cup abandoned
      PROVE  /\ b[1] \in Steps
             /\ Current(step', b) <=> Current(step, b)
             /\ Waits(step', b) <=> Waits(step, b)
  <2>1. b[1] \in Steps
    BY DEF Held, Items, Running, Outcomes, BridgeInv, BridgeTypeOK, Mains, Attempts
  <2> QED  BY <2>1 DEF Waits, Current
<1> HIDE DEF Old
<1>2. Traced(step, pending, events, main, answers, document, abandoned, cut)
  BY DEF BridgeInv
<1>3. \A b \in Old : b \in cut \/ Waits(step', b)
  BY <1>1, <1>2 DEF Traced, Old
<1>4. \A b \in Items(document') :
        b \in cut \/ Waits(step', b) \/ (Current(step', b) /\ step'[b[1]].result = "ok")
  BY <1>1, <1>2, <1>3 DEF Traced, Old
<1>5. \A b \in Old \cup Items(document) \cup abandoned :
        b[2] <= step'[b[1]].attempt /\ (Current(step', b) => step'[b[1]].pc \in {"idle", "wait"})
  BY <1>1, <1>2 DEF Traced, Old
<1>6. \A u \in Steps : /\ step'[u].result = "ok" => <<u, step'[u].attempt>> \in Items(document')
                       /\ step'[u].pc # "idle" => step'[u].result = "none"
  BY <1>2 DEF Traced
<1>7. Traced(step', pending', events', main', answers', document', abandoned', cut)
  BY <1>3, <1>4, <1>5, <1>6 DEF Traced, Old
<1> QED  BY <1>7 DEF BridgeInv

\* An abandoned request that the main thread had not begun is still among the
\* events, and has built nothing.
LEMMA NotBegun ==
  ASSUME BridgeInv, NEW a \in pending, ~Bridge!Begun(a)
  PROVE  a \in Items(events) /\ a \notin Items(document) \cup Running(main)
<1>1. a \in Attempts /\ a \notin Outcomes(answers)
  BY AnsweredIs DEF BridgeInv, BridgeTypeOK, Bridge!Begun
<1>2. a \notin Running(main)
  BY DEF Running, Bridge!Begun
<1> QED  BY <1>1, <1>2 DEF BridgeInv, Placed

LEMMA WorkerTimeoutSound == ASSUME BridgeInv, NEW a \in Attempts, Bridge!WorkerTimeout(a) PROVE BridgeInv'
<1>1. /\ a \in pending /\ pending' = pending \ {a}
      /\ answers' = answers \ {<<a, TRUE>>, <<a, FALSE>>}
      /\ abandoned' = IF Bridge!Begun(a) THEN abandoned ELSE abandoned \cup {a}
      /\ UNCHANGED <<step, events, main, document, cut>>
  BY DEF Bridge!WorkerTimeout
<1>2. /\ Outcomes(answers') = Outcomes(answers) \ {a} /\ answers' \subseteq answers
      /\ answers \subseteq Attempts \X BOOLEAN
  BY <1>1, Removed
<1>3. BridgeTypeOK'
  BY <1>1, <1>2 DEF BridgeInv, BridgeTypeOK
<1>4. /\ abandoned' \subseteq abandoned \cup {a}
      /\ a \in abandoned' => a \notin Items(document) \cup Running(main)
  BY <1>1, NotBegun DEF BridgeInv, Placed
<1>5. Placed(pending', events, main, answers', document, abandoned')
  BY <1>1, <1>2, <1>4 DEF BridgeInv, Placed
<1>6. Held(pending', events, main, answers') \subseteq Held(pending, events, main, answers)
      /\ a \in Held(pending, events, main, answers)
  BY <1>1, <1>2 DEF Held
<1> QED  BY <1>1, <1>3, <1>4, <1>5, <1>6, HostStep

LEMMA NotifySound == ASSUME BridgeInv, Bridge!Notify PROVE BridgeInv'
<1> DEFINE a == Head(events)
<1>1. /\ main = Bridge!NoRun /\ events # <<>> /\ events \in Seq(Attempts) /\ events' = Tail(events)
      /\ main' = IF a \in pending THEN <<a, "run">> ELSE Bridge!NoRun
      /\ UNCHANGED <<step, pending, answers, document, abandoned, cut>>
  BY DEF Bridge!Notify, BridgeInv, BridgeTypeOK
<1>2. /\ events' \in Seq(Attempts) /\ a \in Attempts /\ a \in Items(events)
      /\ Distinct(events') /\ Items(events') = Items(events) \ {a}
  BY <1>1, ItemsOfTail DEF BridgeInv, Placed
<1> HIDE DEF a
<1>3. /\ Running(main) = {}
      /\ Running(main') = IF a \in pending THEN {a} ELSE {}
      /\ main' # Bridge!NoRun => main' = <<a, "run">> /\ main'[1] = a /\ main'[2] = "run" /\ a \in pending
      /\ main' = Bridge!NoRun \/ main' \in Mains
  <2>1. <<a, "run">> \in Mains /\ <<a, "run">>[1] = a /\ <<a, "run">>[2] = "run"
        /\ <<a, "run">> # Bridge!NoRun
    BY <1>2 DEF Mains, Bridge!NoRun
  <2> QED  BY <1>1, <2>1 DEF Running
<1>4. BridgeTypeOK'
  BY <1>1, <1>2, <1>3 DEF BridgeInv, BridgeTypeOK
<1>5. Placed(pending, events', main', answers, document, abandoned)
  BY <1>2, <1>3 DEF BridgeInv, Placed
<1>6. Held(pending', events', main', answers') \subseteq Held(pending, events, main, answers)
  BY <1>1, <1>2, <1>3 DEF Held
<1> QED  BY <1>1, <1>4, <1>5, <1>6, HostStep

LEMMA RunSound == ASSUME BridgeInv, Bridge!Run PROVE BridgeInv'
<1> DEFINE a == main[1]
<1>1. /\ main # Bridge!NoRun /\ main \in Mains /\ a \in Attempts /\ main[2] \in {"run", "ran", "raised"}
      /\ Running(main) = {a} /\ UNCHANGED <<step, pending, events, abandoned, cut>>
      /\ document \in Seq(Attempts) /\ answers \subseteq Attempts \X BOOLEAN
  BY DEF Bridge!Run, BridgeInv, BridgeTypeOK, Mains, Running
<1>2. a \in Held(pending, events, main, answers)
  BY <1>1 DEF Held
<1>3. ASSUME NEW x \in {"ran", "raised"}, main' = <<a, x>>, main[2] = "run", UNCHANGED answers,
             document' = IF x = "ran" THEN Append(document, a) ELSE document
      PROVE  BridgeInv'
  <2>1. /\ a \notin Items(document) /\ a \notin Items(events) /\ a \notin Outcomes(answers)
        /\ a \notin abandoned /\ Distinct(document)
    BY <1>1, <1>3 DEF BridgeInv, Placed
  <2>2. /\ main' \in Mains /\ main' # Bridge!NoRun /\ main'[1] = a /\ main'[2] = x /\ Running(main') = {a}
    BY <1>1, <1>3 DEF Mains, Bridge!NoRun, Running
  <2> HIDE DEF a
  <2>3. /\ document' \in Seq(Attempts) /\ Distinct(document')
        /\ Items(document') = IF x = "ran" THEN Items(document) \cup {a} ELSE Items(document)
    BY <1>1, <1>3, <2>1, ItemsOfAppend
  <2>4. BridgeTypeOK'
    BY <1>1, <1>3, <2>2, <2>3 DEF BridgeInv, BridgeTypeOK
  <2>5. \A b \in Attempts : (<<b, TRUE>> \in answers \/ <<b, FALSE>> \in answers)
                              => b \in Outcomes(answers)
    BY AnsweredIs DEF Bridge!Answered, BridgeInv
  <2>6. Placed(pending, events, main', answers, document', abandoned)
    BY <1>1, <2>1, <2>2, <2>3, <2>5 DEF BridgeInv, Placed
  <2>7. Held(pending', events', main', answers') = Held(pending, events, main, answers)
    BY <1>1, <1>3, <2>2 DEF Held
  <2> QED  BY <1>1, <1>2, <1>3, <2>3, <2>4, <2>6, <2>7, HostStep
<1>4. ASSUME NEW o \in BOOLEAN, main' = Bridge!NoRun, UNCHANGED document,
             o <=> a \in Items(document),
             answers' = IF a \in pending THEN answers \cup {<<a, o>>} ELSE answers
      PROVE  BridgeInv'
  <2>1. Running(main') = {} /\ <<a, o>>[1] = a
    BY <1>4 DEF Running
  <2> HIDE DEF a
  <2>2. BridgeTypeOK'
    BY <1>1, <1>4 DEF BridgeInv, BridgeTypeOK
  <2>3. Outcomes(answers') = IF a \in pending THEN Outcomes(answers) \cup {a} ELSE Outcomes(answers)
    BY <1>4, <2>1 DEF Outcomes
  <2>4. \A b \in Attempts :
          /\ <<b, TRUE>> \in answers' => <<b, TRUE>> \in answers \/ (b = a /\ o)
          /\ <<b, FALSE>> \in answers' => <<b, FALSE>> \in answers \/ (b = a /\ ~o)
    BY <1>4
  <2>5. Placed(pending, events, main', answers', document, abandoned)
    BY <1>1, <1>4, <2>1, <2>3, <2>4 DEF BridgeInv, Placed
  <2>6. Held(pending', events', main', answers') \subseteq Held(pending, events, main, answers)
    BY <1>1, <1>2, <2>1, <2>3 DEF Held
  <2> QED  BY <1>1, <1>4, <2>2, <2>5, <2>6, HostStep
<1>5. CASE main[2] = "run"
  BY <1>1, <1>3, <1>5 DEF Bridge!Run
<1>6. CASE main[2] # "run"
  <2>1. main[2] = "ran" <=> a \in Items(document)
    BY <1>1 DEF BridgeInv, Placed
  <2>2. main' = Bridge!NoRun /\ UNCHANGED document
    BY <1>1, <1>6 DEF Bridge!Run
  <2>3. answers' = IF a \in pending THEN answers \cup {<<a, main[2] = "ran">>} ELSE answers
    BY <1>1, <1>6 DEF Bridge!Run
  <2> QED  BY <1>4, <2>1, <2>2, <2>3
<1> QED  BY <1>5, <1>6

\* Fusion goes away with all the add-in held.
LEMMA AddinStopSound == ASSUME BridgeInv, Bridge!AddinStop PROVE BridgeInv'
<1>1. /\ pending' = {} /\ events' = <<>> /\ main' = Bridge!NoRun /\ answers' = {}
      /\ abandoned' = abandoned \cup {a \in pending : ~Bridge!Begun(a)}
      /\ step' = [s \in Steps |-> [step[s] EXCEPT !.worker = FALSE]]
      /\ UNCHANGED <<document, cut>> /\ step \in [Steps -> Runs]
  BY DEF Bridge!AddinStop, Bridge!AddinGone, BridgeInv, BridgeTypeOK
<1>2. \A s \in Steps :
        /\ step'[s] \in Runs /\ step'[s].pc = step[s].pc /\ step'[s].attempt = step[s].attempt
        /\ step'[s].result = step[s].result
  BY <1>1 DEF Runs
<1>3. Items(events') = {} /\ Distinct(events') /\ Running(main') = {} /\ Outcomes(answers') = {}
  BY <1>1, ItemsOfEmpty DEF Running, Outcomes
<1>4. BridgeTypeOK'
  <2>1. step' \in [Steps -> Runs]
    BY <1>1, <1>2
  <2> QED  BY <1>1, <2>1 DEF BridgeInv, BridgeTypeOK
<1>5. Placed(pending', events', main', answers', document', abandoned')
  BY <1>1, <1>3, NotBegun DEF BridgeInv, Placed
<1>6. /\ Held(pending', events', main', answers') = {}
      /\ pending \subseteq Held(pending, events, main, answers)
  BY <1>1, <1>3 DEF Held
<1> QED  BY <1>1, <1>2, <1>4, <1>5, <1>6, HostStep

LEMMA BridgeNextSound == BridgeInv /\ [Bridge!Next]_(Bridge!vars) => BridgeInv'
<1> SUFFICES ASSUME BridgeInv, [Bridge!Next]_(Bridge!vars) PROVE BridgeInv'
  OBVIOUS
<1>1. ASSUME NEW s \in Steps,
             \/ Bridge!Available(s) \/ Bridge!Execute(s) \/ Bridge!Post(s)
             \/ Bridge!Connect(s) \/ Bridge!Receive(s) \/ Bridge!Lost(s)
      PROVE  BridgeInv'
  BY <1>1, AvailableSound, ExecuteSound, PostSound, ConnectSound, ReceiveSound, LostSound
<1>2. ASSUME NEW a \in Steps \X (1 .. MaxAttempts), Bridge!WorkerTimeout(a) PROVE BridgeInv'
  <2>1. a \in Attempts
    BY <1>2 DEF Bridge!WorkerTimeout, BridgeInv, BridgeTypeOK
  <2> QED  BY <1>2, <2>1, WorkerTimeoutSound
<1>3. CASE Bridge!Notify \/ Bridge!Run \/ Bridge!AddinStop
  BY <1>3, NotifySound, RunSound, AddinStopSound
<1>4. CASE UNCHANGED <<step, pending, events, main, answers, document, abandoned, cut>>
  BY <1>4 DEF BridgeInv, BridgeTypeOK
<1>5. CASE \/ Bridge!Status \/ Bridge!CacheExpires \/ Bridge!BackoffPasses
           \/ Bridge!AddinRun \/ Bridge!OfficialChanges \/ UNCHANGED Bridge!vars
  BY <1>4, <1>5 DEF Bridge!Status, Bridge!CacheExpires, Bridge!BackoffPasses, Bridge!AddinRun,
                    Bridge!OfficialChanges, Bridge!vars, Bridge!host
<1> QED  BY <1>1, <1>2, <1>3, <1>5 DEF Bridge!Next

LEMMA BridgeInvariance == Bridge!Spec => []BridgeInv
<1>1. Bridge!Init => BridgeInv
  BY BridgeInitSound
<1>2. BridgeInv /\ [Bridge!Next]_(Bridge!vars) => BridgeInv'
  BY BridgeNextSound
<1> QED  BY <1>1, <1>2, PTL DEF Bridge!Spec
-----------------------------------------------------------------------------
(***************************************************************************)
(* The theorem                                                             *)
(***************************************************************************)
\* A step is built by the attempt that was answered and by no other but those
\* that were cut off from their answers, no attempt builds twice, and a
\* request that was abandoned before the main thread came to it never runs:
\* whatever is lost, delayed, stopped or started again, in any order.
THEOREM BridgeBuildsOnceHolds == Bridge!Spec => []BridgeBuildsOnce
<1>1. ASSUME BridgeInv PROVE BridgeBuildsOnce
  <2>1. /\ Distinct(document) /\ abandoned \cap Items(document) = {}
        /\ Traced(step, pending, events, main, answers, document, abandoned, cut)
    BY <1>1 DEF BridgeInv, Placed
  <2>2. AnsweredIsBuilt
    BY <2>1, TimesIs DEF AnsweredIsBuilt, Traced, Bridge!Attempt
  <2>3. RebuiltOnlyAfterCut
    <3> SUFFICES ASSUME NEW s \in Steps, NEW n \in 1 .. MaxAttempts
                 PROVE  /\ Times(<<s, n>>) <= 1
                        /\ Times(<<s, n>>) = 1 /\ n < step[s].attempt => <<s, n>> \in cut
      BY DEF RebuiltOnlyAfterCut
    <3> DEFINE a == <<s, n>>
    <3>1. Times(a) = IF a \in Items(document) THEN 1 ELSE 0
      BY <2>1, TimesIs
    <3>2. a[1] = s /\ a[2] = n /\ step[s].attempt \in Nat
      BY <1>1 DEF BridgeInv, BridgeTypeOK, Runs
    <3> HIDE DEF a
    <3>3. a \in Items(document) /\ n < step[s].attempt => a \in cut
      BY <2>1, <3>2 DEF Traced, Waits, Current
    <3> QED  BY <3>1, <3>3 DEF a
  <2>4. AbandonedNeverRuns
    BY <2>1, TimesIs DEF AbandonedNeverRuns
  <2> QED  BY <2>2, <2>3, <2>4 DEF BridgeBuildsOnce
<1> QED  BY <1>1, BridgeInvariance, PTL
=============================================================================
