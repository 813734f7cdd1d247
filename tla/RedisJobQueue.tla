---------------------------- MODULE RedisJobQueue ----------------------------
(***************************************************************************)
(* workers/job_queue.py, class RedisJobQueue: one sorted set and one TTL'd *)
(* marker key per id, shared by the workers and the callers of several     *)
(* backend replicas.  Every Redis command is a step of its own, so that    *)
(* replicas interleave between them, and so are a failed command, a lost   *)
(* reply, the death of a replica and the end of a marker's TTL.            *)
(***************************************************************************)
EXTENDS Naturals

CONSTANTS
  Items,        \* the ids that may be enqueued
  Workers,      \* worker threads, one per replica
  Callers,      \* threads calling put: request handlers, recovery sweeps
  Priorities,   \* priorities in use
  NoItem,       \* what an idle worker or caller holds
  Scale,        \* _PRIORITY_SCALE
  MaxSeq,       \* bound: number of INCRs of the sequence key
  SlowJobs,     \* may an id stay in flight longer than the marker's TTL?
  LostReplies   \* may a command be applied although the client sees an error?

ASSUME ConstantsAssumption ==
  /\ Priorities \subseteq Nat
  /\ MaxSeq \in Nat
  /\ Scale \in Nat /\ MaxSeq < Scale
  /\ NoItem \notin Items
  /\ Workers \cap {"free", "reserved", "queued"} = {}
  /\ SlowJobs \in BOOLEAN /\ LostReplies \in BOOLEAN

VARIABLES
  zset,         \* the sorted set: its members with the parts of their score
  marker,       \* the ids whose marker key exists
  seq,          \* the sequence key
  caller,       \* caller[c]: where in put the caller is, and with what
  worker        \* worker[w]: where the worker is, and with what

vars == <<zset, marker, seq, caller, worker>>

Member == [item : Items, priority : Priorities, seq : Nat]
CallerPc == {"idle", "marked", "scored", "undo"}
WorkerPc == {"idle", "working", "refreshed", "scored"}
Task(Pc) ==
  [pc : Pc, item : Items \cup {NoItem}, priority : Priorities \cup {0}, seq : Nat]
Idle == [pc |-> "idle", item |-> NoItem, priority |-> 0, seq |-> 0]

TypeOK ==
  /\ zset \subseteq Member
  /\ marker \subseteq Items
  /\ seq \in Nat
  /\ caller \in [Callers -> Task(CallerPc)]
  /\ worker \in [Workers -> Task(WorkerPc)]
  /\ \A c \in Callers : caller[c].pc = "idle" <=> caller[c].item = NoItem
  /\ \A w \in Workers : worker[w].pc = "idle" <=> worker[w].item = NoItem

Init ==
  /\ zset = {}
  /\ marker = {}
  /\ seq = 0
  /\ caller = [c \in Callers |-> Idle]
  /\ worker = [w \in Workers |-> Idle]

QueuedItems == {m.item : m \in zset}
Putting(i) == \E c \in Callers : caller[c].item = i
Processing(i) == \E w \in Workers : worker[w].item = i
InFlight(i) == i \in QueuedItems \/ Processing(i)

\* (mutant) the score adds the sequence without scaling the priority
Score_Unscaled(m) == m.priority + m.seq

\* _score: the priority dominates, the sequence breaks ties.
Score(m) == m.priority * Scale + m.seq

\* ZADD: a member is in the set once, a second ZADD replaces its score.
Zadd(t) ==
  zset' = {m \in zset : m.item # t.item} \cup
          {[item |-> t.item, priority |-> t.priority, seq |-> t.seq]}

\* INCR: the new value of the sequence key.
Incr == seq < MaxSeq /\ seq' = seq + 1
-----------------------------------------------------------------------------
(***************************************************************************)
(* put                                                                     *)
(***************************************************************************)
\* (mutant) the marker is set without NX
SetMarker_NoNX(c, i, p) ==
  /\ caller[c] = Idle
  /\ marker' = marker \cup {i}
  /\ caller' = [caller EXCEPT ![c] = [pc |-> "marked", item |-> i, priority |-> p, seq |-> 0]]
  /\ UNCHANGED <<zset, seq, worker>>

\* SET key NX EX: succeeds only if the marker is absent; otherwise put
\* returns False and nothing changes.
SetMarker(c, i, p) ==
  /\ caller[c] = Idle
  /\ i \notin marker
  /\ marker' = marker \cup {i}
  /\ caller' = [caller EXCEPT ![c] = [pc |-> "marked", item |-> i, priority |-> p, seq |-> 0]]
  /\ UNCHANGED <<zset, seq, worker>>

PutScore(c) ==
  /\ caller[c].pc = "marked"
  /\ Incr
  /\ caller' = [caller EXCEPT ![c].pc = "scored", ![c].seq = seq']
  /\ UNCHANGED <<zset, marker, worker>>

PutAdd(c) ==
  /\ caller[c].pc = "scored"
  /\ Zadd(caller[c])
  /\ caller' = [caller EXCEPT ![c] = Idle]
  /\ UNCHANGED <<marker, seq, worker>>

\* INCR or ZADD raised: the marker has to go.
PutFails(c) ==
  /\ caller[c].pc \in {"marked", "scored"}
  /\ \/ UNCHANGED zset
     \/ LostReplies /\ caller[c].pc = "scored" /\ Zadd(caller[c])
  /\ caller' = [caller EXCEPT ![c].pc = "undo"]
  /\ UNCHANGED <<marker, seq, worker>>

\* DEL of the marker, then the exception goes to the caller.
PutUndo(c) ==
  /\ caller[c].pc = "undo"
  /\ marker' = marker \ {caller[c].item}
  /\ caller' = [caller EXCEPT ![c] = Idle]
  /\ UNCHANGED <<zset, seq, worker>>

\* The caller dies in the middle of put, or its DEL fails as well.
CallerDies(c) ==
  /\ caller[c] # Idle
  /\ caller' = [caller EXCEPT ![c] = Idle]
  /\ UNCHANGED <<zset, marker, seq, worker>>
-----------------------------------------------------------------------------
(***************************************************************************)
(* get, release, requeue: what a worker does                               *)
(***************************************************************************)
\* BZPOPMIN is atomic; its reply may be lost with the connection.
Get(w) ==
  /\ worker[w] = Idle
  /\ \E m \in zset :
       /\ \A n \in zset : Score(m) <= Score(n)
       /\ zset' = zset \ {m}
       /\ \/ worker' = [worker EXCEPT
                  ![w] = [pc |-> "working", item |-> m.item, priority |-> 0, seq |-> 0]]
          \/ LostReplies /\ UNCHANGED worker
  /\ UNCHANGED <<marker, seq, caller>>

Release(w) ==
  /\ worker[w].pc = "working"
  /\ marker' = marker \ {worker[w].item}
  /\ worker' = [worker EXCEPT ![w] = Idle]
  /\ UNCHANGED <<zset, seq, caller>>

\* (mutant) requeue deletes the marker instead of renewing its TTL
RequeueRefresh_Deletes(w, p) ==
  /\ worker[w].pc = "working"
  /\ marker' = marker \ {worker[w].item}
  /\ worker' = [worker EXCEPT ![w].pc = "refreshed", ![w].priority = p]
  /\ UNCHANGED <<zset, seq, caller>>

\* requeue starts with EXPIRE, which renews the TTL of an existing marker and
\* does nothing to a missing one.
RequeueRefresh(w, p) ==
  /\ worker[w].pc = "working"
  /\ worker' = [worker EXCEPT ![w].pc = "refreshed", ![w].priority = p]
  /\ UNCHANGED <<zset, marker, seq, caller>>

RequeueScore(w) ==
  /\ worker[w].pc = "refreshed"
  /\ Incr
  /\ worker' = [worker EXCEPT ![w].pc = "scored", ![w].seq = seq']
  /\ UNCHANGED <<zset, marker, caller>>

RequeueAdd(w) ==
  /\ worker[w].pc = "scored"
  /\ Zadd(worker[w])
  /\ worker' = [worker EXCEPT ![w] = Idle]
  /\ UNCHANGED <<marker, seq, caller>>

\* (mutant) the id is dropped before it is released
RequeueFails_DropsItem(w) ==
  /\ worker[w].pc \in {"refreshed", "scored"}
  /\ worker' = [worker EXCEPT ![w] = [Idle EXCEPT !.pc = "working"]]
  /\ UNCHANGED <<zset, marker, seq, caller>>

\* A command of requeue raised: the worker loop logs it and releases the id.
RequeueFails(w) ==
  /\ worker[w].pc \in {"refreshed", "scored"}
  /\ \/ UNCHANGED zset
     \/ LostReplies /\ worker[w].pc = "scored" /\ Zadd(worker[w])
  /\ worker' = [worker EXCEPT ![w].pc = "working", ![w].priority = 0, ![w].seq = 0]
  /\ UNCHANGED <<marker, seq, caller>>

\* The replica dies with the id, or its DEL fails and ends the thread.
WorkerDies(w) ==
  /\ worker[w] # Idle
  /\ worker' = [worker EXCEPT ![w] = Idle]
  /\ UNCHANGED <<zset, marker, seq, caller>>
-----------------------------------------------------------------------------
(***************************************************************************)
(* The marker's TTL passes.  With SlowJobs = FALSE it outlasts everything  *)
(* that is still going on for the id; otherwise a backlog or a long        *)
(* extraction may outlast it.                                              *)
(***************************************************************************)
Orphan(i) == i \in marker /\ ~InFlight(i) /\ ~Putting(i)

Expire(i) ==
  /\ i \in marker
  /\ SlowJobs \/ Orphan(i)
  /\ marker' = marker \ {i}
  /\ UNCHANGED <<zset, seq, caller, worker>>

Next ==
  \/ \E c \in Callers, i \in Items, p \in Priorities : SetMarker(c, i, p)
  \/ \E c \in Callers :
       PutScore(c) \/ PutAdd(c) \/ PutFails(c) \/ PutUndo(c) \/ CallerDies(c)
  \/ \E w \in Workers, p \in Priorities : RequeueRefresh(w, p)
  \/ \E w \in Workers :
       \/ Get(w) \/ Release(w) \/ RequeueScore(w) \/ RequeueAdd(w)
       \/ RequeueFails(w) \/ WorkerDies(w)
  \/ \E i \in Items : Expire(i)

Spec == Init /\ [][Next]_vars
-----------------------------------------------------------------------------
\* "concurrent workers never process the same item twice" (docstring of
\* RedisJobQueue): no two workers hold the same id.  It takes jobs shorter than
\* the marker's TTL: see README, section 6.
NeverTwice ==
  \A w1, w2 \in Workers :
    w1 # w2 /\ worker[w1] # Idle => worker[w1].item # worker[w2].item

\* "put is dedup-guarded" (module docstring): an id that is queued or being
\* processed has its marker, so that put of it is a no-op.
DedupGuard == \A i \in Items : InFlight(i) => i \in marker

\* An id being processed is not in the sorted set as well: it would be served
\* again while, or right after, it is processed.
NotQueuedWhileProcessed ==
  \A i \in QueuedItems : ~Processing(i)

\* What is in flight is there once, in the sorted set or with one worker, and
\* its marker keeps a second put away.
InFlightOnce == NeverTwice /\ DedupGuard /\ NotQueuedWhileProcessed

\* A smaller priority comes first, ids of one priority in the order of their
\* sequence numbers.
Before(m, n) == m.priority < n.priority \/ (m.priority = n.priority /\ m.seq <= n.seq)

InOrder ==
  \A m \in zset : m.item \notin QueuedItems' => \A n \in zset : Before(m, n)

\* "Lower priority is served first": what a worker pops comes before all that
\* stays, although BZPOPMIN only compares the scores - whatever is lost, expires
\* or dies.
ServedInOrder == [][InOrder]_vars

StatusOf(i) ==
  IF Processing(i) THEN CHOOSE w \in Workers : worker[w].item = i
  ELSE IF i \in QueuedItems THEN "queued"
  ELSE IF i \in marker THEN "reserved" ELSE "free"

Abstract == INSTANCE DedupQueue WITH status <- [i \in Items |-> StatusOf(i)]

\* RedisJobQueue implements the contract of JobQueue.
ImplementsDedupQueue == Abstract!Spec
-----------------------------------------------------------------------------
(***************************************************************************)
(* The inductive invariant of the queue under PromptJobs: an id is with    *)
(* one caller, or in the sorted set, or with one worker, never with two of *)
(* them, and its marker exists all that time.                              *)
(***************************************************************************)
PromptJobs == ~SlowJobs /\ ~LostReplies

\* Every id that somebody holds comes with a priority it can be added under.
Prepared ==
  /\ \A c \in Callers :
       IF caller[c].item = NoItem THEN caller[c] = Idle
       ELSE caller[c].priority \in Priorities
  /\ \A w \in Workers :
       /\ worker[w].item = NoItem => worker[w] = Idle
       /\ worker[w].pc \in {"refreshed", "scored"} => worker[w].priority \in Priorities

OneMember == \A m, n \in zset : m.item = n.item => m = n

OnePlace ==
  /\ \A c, d \in Callers : caller[c].item = caller[d].item /\ caller[c].item # NoItem => c = d
  /\ \A v, w \in Workers : worker[v].item = worker[w].item /\ worker[v].item # NoItem => v = w
  /\ \A c \in Callers, w \in Workers : caller[c].item = worker[w].item => caller[c].item = NoItem
  /\ \A c \in Callers : caller[c].item \notin QueuedItems
  /\ \A w \in Workers : worker[w].item \notin QueuedItems

Marked ==
  /\ QueuedItems \subseteq marker
  /\ \A c \in Callers : caller[c].item # NoItem => caller[c].item \in marker
  /\ \A w \in Workers : worker[w].item # NoItem => worker[w].item \in marker

TypeInv == TypeOK /\ Prepared
Exclusive == OneMember /\ OnePlace /\ Marked
IndInv == TypeInv /\ Exclusive

\* No sequence number in use reaches the scale of the priorities.
SeqBound ==
  /\ seq <= MaxSeq
  /\ \A m \in zset : m.seq <= MaxSeq
  /\ \A c \in Callers : caller[c].seq <= MaxSeq
  /\ \A w \in Workers : worker[w].seq <= MaxSeq
===========================================================================
