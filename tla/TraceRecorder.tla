--------------------------- MODULE TraceRecorder ---------------------------
(***************************************************************************)
(* ModelingTracer: events of a request are collected in a buffer of its    *)
(* trace and written to the store in batches.  The buffers are in a dict   *)
(* bounded by MaxBuffers, whose oldest entry gives way to a new one; a     *)
(* request finds its buffer under the lock of the dict and appends under   *)
(* the lock of the buffer, so that the buffer may have left the dict in    *)
(* between.  Sequence numbers live in a context variable: a call through   *)
(* asyncio.to_thread works on a copy of it.                                *)
(***************************************************************************)
EXTENDS TracePromise, SequencesExt

CONSTANTS
  Batch,       \* DEFAULT_BATCH_SIZE
  Ring,        \* MODELING_TRACE_DEVSTORE_MAX_EVENTS
  MaxEvents,   \* events a request records
  MaxErrors    \* writes of the store that fail

SizesAssumption ==
  Batch \in Nat \ {0} /\ MaxBuffers \in Nat \ {0} /\ Ring \in Nat \ {0}

VARIABLES
  buffer,   \* events in the buffer of a request
  context,  \* its context variables
  errors    \* writes that failed

vars == <<order, buffer, thread, context, rows, errors, made, lost, strayed, evicted, twice>>

Run == [pc |-> "run", hand |-> <<>>, detached |-> FALSE]

Init ==
  /\ order = <<>>
  /\ buffer = [r \in Requests |-> <<>>]
  /\ thread = [r \in Requests |-> [Run EXCEPT !.pc = "start"]]
  /\ context = [r \in Requests |-> [sequence |-> 0, hop |-> FALSE, saved |-> 0]]
  /\ rows = <<>>
  /\ errors = 0
  /\ made = [r \in Requests |-> 0]
  /\ lost = {}
  /\ strayed = {}
  /\ evicted = {}
  /\ twice = FALSE

Goto(r, pc) == thread' = [thread EXCEPT ![r].pc = pc]

\* _pop_buffer_events_locked for the oldest trace: its events are in the hand
\* of r, and a request in between finding and appending keeps a detached buffer.
Evict(r) ==
  LET old == Head(order) IN
  /\ order' = Append(Tail(order), r)
  /\ buffer' = [buffer EXCEPT ![old] = <<>>, ![r] = <<>>]
  /\ evicted' = evicted \cup {old}
  /\ thread' = [u \in Requests |->
       IF u = r THEN [pc |-> "evicted", hand |-> buffer[old], detached |-> FALSE]
       ELSE IF u = old THEN [thread[u] EXCEPT !.detached = TRUE]
       ELSE thread[u]]

\* (mutant of GetBuffer) the dict grows.
GetBuffer_Unbounded(r) ==
  \/ /\ r \in Range(order)
     /\ Goto(r, "append")
     /\ UNCHANGED <<order, buffer, evicted>>
  \/ /\ r \notin Range(order)
     /\ order' = Append(order, r)
     /\ buffer' = [buffer EXCEPT ![r] = <<>>]
     /\ Goto(r, "append")
     /\ UNCHANGED evicted

\* _get_buffer, under the lock of the dict.
GetBuffer(r) ==
  \/ /\ r \in Range(order)
     /\ thread' = [thread EXCEPT ![r] = [@ EXCEPT !.pc = "append", !.detached = FALSE]]
     /\ UNCHANGED <<order, buffer, evicted>>
  \/ /\ r \notin Range(order)
     /\ Len(order) < MaxBuffers
     /\ order' = Append(order, r)
     /\ buffer' = [buffer EXCEPT ![r] = <<>>]
     /\ thread' = [thread EXCEPT ![r] = [@ EXCEPT !.pc = "append", !.detached = FALSE]]
     /\ UNCHANGED evicted
  \/ /\ r \notin Range(order)
     /\ Len(order) >= MaxBuffers
     /\ Evict(r)

\* record: the sequence number of the context, then the buffer.  start_trace
\* records the first event.
Record(r) ==
  /\ At(r, "run") \/ At(r, "start")
  /\ made[r] < MaxEvents
  /\ made' = [made EXCEPT ![r] = @ + 1]
  /\ context' = [context EXCEPT ![r].sequence = IF At(r, "start") THEN 1 ELSE @ + 1]
  /\ GetBuffer(r)
  /\ UNCHANGED <<rows, errors, lost, strayed, twice>>

\* record_trace_events_bulk keeps the newest Ring events; a failed write is
\* logged and its events are gone.
Persist(r, next) ==
  LET all == rows \o thread[r].hand
      over == Len(all) - Ring
      kept == IF over > 0 THEN SubSeq(all, over + 1, Len(all)) ELSE all
  IN /\ \/ /\ rows' = kept
           /\ lost' = lost \cup (Range(all) \ Range(kept))
           /\ twice' = (twice \/ ~IsInjective(all) \/ Range(thread[r].hand) \cap lost # {})
           /\ UNCHANGED errors
        \/ /\ thread[r].hand # <<>>
           /\ errors < MaxErrors
           /\ errors' = errors + 1
           /\ lost' = lost \cup Range(thread[r].hand)
           /\ UNCHANGED <<rows, twice>>
     /\ thread' = [thread EXCEPT ![r] = [@ EXCEPT !.pc = next, !.hand = <<>>]]

\* _flush_evicted_events, after the lock of the dict was released.
FlushEvicted(r) ==
  /\ At(r, "evicted")
  /\ Persist(r, "append")
  /\ UNCHANGED <<order, buffer, context, made, strayed, evicted>>

\* The event of r: who recorded it, its number, its place, in a hop or not.
Event(r) == <<r, made[r], context[r].sequence, context[r].hop>>

\* (mutant of AppendEvent) the full batch is written and stays in the buffer.
AppendEvent_Kept(r) ==
  LET full == Append(buffer[r], Event(r)) IN
  /\ At(r, "append") /\ ~thread[r].detached
  /\ buffer' = [buffer EXCEPT ![r] = full]
  /\ thread' = [thread EXCEPT ![r] =
       [@ EXCEPT !.pc = "persist", !.hand = IF Len(full) >= Batch THEN full ELSE <<>>]]
  /\ UNCHANGED <<order, context, rows, errors, made, lost, strayed, evicted, twice>>

AppendEvent(r) ==
  LET full == Append(buffer[r], Event(r)) IN
  /\ At(r, "append")
  /\ \/ /\ thread[r].detached
        /\ strayed' = strayed \cup {Event(r)}
        /\ Goto(r, "run")
        /\ UNCHANGED buffer
     \/ /\ ~thread[r].detached
        /\ Len(full) < Batch
        /\ buffer' = [buffer EXCEPT ![r] = full]
        /\ Goto(r, "run")
        /\ UNCHANGED strayed
     \/ /\ ~thread[r].detached
        /\ Len(full) >= Batch
        /\ buffer' = [buffer EXCEPT ![r] = <<>>]
        /\ thread' = [thread EXCEPT ![r] = [@ EXCEPT !.pc = "persist", !.hand = full]]
        /\ UNCHANGED strayed
  /\ UNCHANGED <<order, context, rows, errors, made, lost, evicted, twice>>

WriteBatch(r) ==
  /\ At(r, "persist")
  /\ Persist(r, "run")
  /\ UNCHANGED <<order, buffer, context, made, strayed, evicted>>

\* (mutant of Hop) the copy starts anew and is not told from the original.
Hop_Restarts(r) ==
  /\ At(r, "run") /\ ~context[r].hop
  /\ context' = [context EXCEPT ![r].sequence = 0]
  /\ UNCHANGED <<order, buffer, thread, rows, errors, made, lost, strayed, evicted, twice>>

\* asyncio.to_thread and its end: the copy of the context is forgotten.
Hop(r) ==
  /\ At(r, "run") /\ ~context[r].hop
  /\ context' = [context EXCEPT ![r] = [sequence |-> @.sequence, hop |-> TRUE, saved |-> @.sequence]]
  /\ UNCHANGED <<order, buffer, thread, rows, errors, made, lost, strayed, evicted, twice>>
Return(r) ==
  /\ At(r, "run") /\ context[r].hop
  /\ context' = [context EXCEPT ![r] = [sequence |-> @.saved, hop |-> FALSE, saved |-> 0]]
  /\ UNCHANGED <<order, buffer, thread, rows, errors, made, lost, strayed, evicted, twice>>

\* flush: the buffer, if the trace has one, is emptied into the hand.
Take(r, next) ==
  /\ buffer' = [buffer EXCEPT ![r] = <<>>]
  /\ thread' = [thread EXCEPT ![r] = [@ EXCEPT !.pc = next, !.hand = buffer[r]]]
  /\ UNCHANGED <<order, context, rows, errors, made, lost, strayed, evicted, twice>>

Flush(r) == At(r, "run") /\ buffer[r] # <<>> /\ Take(r, "persist")

\* (mutant of Close) the buffer is removed before it is written.
Close_NoFlush(r) ==
  /\ At(r, "run") /\ ~context[r].hop
  /\ Goto(r, "pop")
  /\ UNCHANGED <<order, buffer, context, rows, errors, made, lost, strayed, evicted, twice>>

\* close_trace: flush, then the buffer leaves the dict.
Close(r) == At(r, "run") /\ ~context[r].hop /\ Take(r, "closing")

CloseWrite(r) ==
  /\ At(r, "closing")
  /\ Persist(r, "pop")
  /\ UNCHANGED <<order, buffer, context, made, strayed, evicted>>

\* dict.pop(trace_id, None).
Without(q, r) ==
  IF r \in Range(q) THEN RemoveAt(q, CHOOSE i \in DOMAIN q : q[i] = r) ELSE q

Pop(r) ==
  /\ At(r, "pop")
  /\ order' = Without(order, r)
  /\ buffer' = [buffer EXCEPT ![r] = <<>>]
  /\ Goto(r, "closed")
  /\ UNCHANGED <<context, rows, errors, made, lost, strayed, evicted, twice>>

\* The client goes away: CancelledError and GeneratorExit pass the handlers of
\* Exception, and nobody closes the trace.
Cancel(r) ==
  /\ At(r, "run")
  /\ Goto(r, "gone")
  /\ UNCHANGED <<order, buffer, context, rows, errors, made, lost, strayed, evicted, twice>>

Step(r) ==
  \/ Record(r) \/ FlushEvicted(r) \/ AppendEvent(r) \/ WriteBatch(r)
  \/ Hop(r) \/ Return(r) \/ Flush(r) \/ Close(r) \/ CloseWrite(r) \/ Pop(r) \/ Cancel(r)

Next == \E r \in Requests : Step(r)

Spec == Init /\ [][Next]_vars
=============================================================================
