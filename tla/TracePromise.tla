---------------------------- MODULE TracePromise ----------------------------
(***************************************************************************)
(* What the trace of a request is for: the part of the recorder's state    *)
(* that tells where the events are, and what is promised of them.          *)
(***************************************************************************)
EXTENDS Integers, Sequences, FiniteSets, Functions

CONSTANTS
  Requests,    \* requests, each with a trace of its own
  MaxBuffers   \* DEFAULT_MAX_BUFFERS

VARIABLES
  order,    \* requests with a buffer in the dict, oldest first
  thread,   \* what the request is doing
  rows,     \* events in the store, in the order they were written
  \* history
  made,     \* events recorded so far by a request
  lost,     \* events dropped by a failed write or pushed out of the ring
  strayed,  \* events appended to a buffer that had left the dict
  evicted,  \* requests whose buffer was evicted
  twice     \* an event was written to the store when it had been before

At(r, pc) == thread[r].pc = pc

\* Events another thread evicted and has not written yet.
Evicting == UNION {Range(thread[u].hand) : u \in {v \in Requests : At(v, "evicted")}}
Recorded(r) == {e \in Range(rows) \cup lost \cup strayed \cup Evicting : e[1] = r}

\* When a trace is closed, every event its request recorded is in the store,
\* was pushed out of it by newer ones or fell to a failed write, or was lost to
\* an eviction: it is in the hand of the thread that evicted the buffer, or
\* was appended to the buffer after that.
ClosedIsPersisted ==
  \A r \in Requests :
    At(r, "closed") =>
      /\ Cardinality(Recorded(r)) = made[r]
      /\ (r \notin evicted => \A e \in strayed : e[1] # r)

\* An event is written once: the store only ignores a duplicate in Postgres.
WrittenOnce == ~twice

\* However many requests forget to close their trace, the dict is bounded.
BuffersBounded == Len(order) <= MaxBuffers /\ IsInjective(order)

\* list_trace_events orders by sequence: two events of a trace share a number
\* only when a call in another thread recorded one of them.
SequenceSharedByHop ==
  \A e, f \in Range(rows) :
    e # f /\ e[1] = f[1] /\ e[3] = f[3] => e[4] \/ f[4]

\* A trace tells what its request did: every event, once, in an order.
TraceIsKept == ClosedIsPersisted /\ WrittenOnce /\ BuffersBounded /\ SequenceSharedByHop
=============================================================================
