--------------------------- MODULE MemoryJobQueue ---------------------------
(***************************************************************************)
(* workers/job_queue.py, class InMemoryJobQueue, with the worker threads   *)
(* that pop from it.  put, release and requeue run under one lock and      *)
(* PriorityQueue.get under its own, so each of them is one step.           *)
(***************************************************************************)
EXTENDS Naturals

CONSTANTS
  Items,        \* the ids that may be enqueued
  Workers,      \* worker threads popping from the queue
  Priorities,   \* priorities in use (0 normal, 10 background, 11.. retries)
  NoItem,       \* what an idle worker holds
  MaxSeq        \* bound: entries added before a restart

ASSUME ConstantsAssumption ==
  /\ Priorities \subseteq Nat
  /\ MaxSeq \in Nat
  /\ NoItem \notin Items
  /\ Workers \cap {"free", "reserved", "queued"} = {}

VARIABLES
  queue,        \* _queue: the entries (priority, seq, item) of the heap
  enqueued,     \* _enqueued: the dedup markers
  seq,          \* _seq: the next tie-breaker
  holding       \* holding[w]: the item worker w has popped, or NoItem

vars == <<queue, enqueued, seq, holding>>

Entry == [priority : Priorities, seq : Nat, item : Items]

TypeOK ==
  /\ queue \subseteq Entry
  /\ enqueued \subseteq Items
  /\ seq \in Nat
  /\ holding \in [Workers -> Items \cup {NoItem}]

Init ==
  /\ queue = {}
  /\ enqueued = {}
  /\ seq = 0
  /\ holding = [w \in Workers |-> NoItem]

-----------------------------------------------------------------------------
\* The order of the heap's tuples: priority, then insertion.
Before(e, f) ==
  \/ e.priority < f.priority
  \/ e.priority = f.priority /\ e.seq < f.seq

AddEntry(i, p) ==
  /\ seq < MaxSeq
  /\ queue' = queue \cup {[priority |-> p, seq |-> seq, item |-> i]}
  /\ seq' = seq + 1

Busy(w) == holding[w] # NoItem

QueuedItems == {e.item : e \in queue}

\* (mutant) the duplicate test looks at the heap instead of the markers
Put_ChecksHeapOnly(i, p) ==
  IF i \in QueuedItems
  THEN UNCHANGED vars
  ELSE AddEntry(i, p) /\ enqueued' = enqueued \cup {i} /\ UNCHANGED holding

\* (mutant) the marker is consulted but never set
Put_NoMarker(i, p) ==
  IF i \in enqueued
  THEN UNCHANGED vars
  ELSE AddEntry(i, p) /\ UNCHANGED <<enqueued, holding>>

Put(i, p) ==
  IF i \in enqueued
  THEN UNCHANGED vars                      \* duplicate: put returns False
  ELSE /\ AddEntry(i, p)
       /\ enqueued' = enqueued \cup {i}
       /\ UNCHANGED holding

\* (mutant) the marker is cleared by the pop instead of by release
Get_ClearsMarker(w) ==
  /\ ~Busy(w)
  /\ \E e \in queue :
       /\ \A f \in queue : ~Before(f, e)
       /\ queue' = queue \ {e}
       /\ holding' = [holding EXCEPT ![w] = e.item]
       /\ enqueued' = enqueued \ {e.item}
  /\ UNCHANGED seq

Get(w) ==
  /\ ~Busy(w)
  /\ \E e \in queue :
       /\ \A f \in queue : ~Before(f, e)
       /\ queue' = queue \ {e}
       /\ holding' = [holding EXCEPT ![w] = e.item]
  /\ UNCHANGED <<enqueued, seq>>

Release(w) ==
  /\ Busy(w)
  /\ enqueued' = enqueued \ {holding[w]}
  /\ holding' = [holding EXCEPT ![w] = NoItem]
  /\ UNCHANGED <<queue, seq>>

\* (mutant) the retry drops the popped id before it builds the entry
Requeue_ForgetsItem(w, p) ==
  /\ Busy(w)
  /\ AddEntry(NoItem, p)
  /\ holding' = [holding EXCEPT ![w] = NoItem]
  /\ UNCHANGED enqueued

\* (mutant) the retry clears the marker, as release does
Requeue_ClearsMarker(w, p) ==
  /\ Busy(w)
  /\ AddEntry(holding[w], p)
  /\ enqueued' = enqueued \ {holding[w]}
  /\ holding' = [holding EXCEPT ![w] = NoItem]

\* A retry: the entry comes back, the marker was never cleared.
Requeue(w, p) ==
  /\ Busy(w)
  /\ AddEntry(holding[w], p)
  /\ holding' = [holding EXCEPT ![w] = NoItem]
  /\ UNCHANGED enqueued

\* The process dies and boots again: the queue was in its memory.
Restart ==
  /\ queue' = {}
  /\ enqueued' = {}
  /\ seq' = 0
  /\ holding' = [w \in Workers |-> NoItem]

Next ==
  \/ \E i \in Items, p \in Priorities : Put(i, p)
  \/ \E w \in Workers : Get(w) \/ Release(w)
  \/ \E w \in Workers, p \in Priorities : Requeue(w, p)
  \/ Restart

Spec == Init /\ [][Next]_vars
-----------------------------------------------------------------------------
(***************************************************************************)
(* Safety                                                                  *)
(***************************************************************************)
\* Two workers never process the same id at the same time: the promise the
\* dedup marker of put exists for (index_queue and import_queue rely on it
\* because process_* is not safe to run twice concurrently).
NeverTwice ==
  \A w1, w2 \in Workers : w1 # w2 /\ Busy(w1) => holding[w1] # holding[w2]

\* An id is in the heap at most once, and never while it is processed.
OneEntry ==
  /\ \A e, f \in queue : e.item = f.item => e = f
  /\ \A w \in Workers : holding[w] \notin QueuedItems

\* A marker always has a cause: an id is marked exactly when it is queued or
\* being processed.  A marker without one would block every later put of the
\* id; a queued id without one would be accepted a second time.
MarkedIffInFlight ==
  enqueued = QueuedItems \cup {holding[w] : w \in {v \in Workers : Busy(v)}}

\* What is in flight is there once: one entry or one worker, and marked.
InFlightOnce == NeverTwice /\ OneEntry /\ MarkedIffInFlight

IndInv ==
  /\ TypeOK
  /\ NeverTwice
  /\ OneEntry
  /\ MarkedIffInFlight
-----------------------------------------------------------------------------
(***************************************************************************)
(* Refinement: the heap and its marker set implement the dedup queue.      *)
(***************************************************************************)
StatusOf(i) ==
  IF \E w \in Workers : holding[w] = i
  THEN CHOOSE w \in Workers : holding[w] = i
  ELSE IF i \in QueuedItems THEN "queued" ELSE "free"

Abstract == INSTANCE DedupQueue WITH status <- [i \in Items |-> StatusOf(i)]

\* InMemoryJobQueue implements the contract of JobQueue.
ImplementsDedupQueue == Abstract!Spec
=============================================================================
