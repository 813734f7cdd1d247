----------------------------- MODULE DedupQueue -----------------------------
(***************************************************************************)
(* What workers/job_queue.py promises its callers, whatever the backend:   *)
(* an id is in flight from the put that accepts it to the release that     *)
(* clears it, put is a no-op all that time, and at most one worker is      *)
(* processing it.  MemoryJobQueue and RedisJobQueue are shown to implement *)
(* this module; IndexPipeline is built on it.                              *)
(*                                                                         *)
(* The priority order of get is not part of this abstraction: it is a      *)
(* property of the two implementations.                                    *)
(***************************************************************************)
CONSTANTS
  Items,        \* the opaque string ids
  Workers       \* the worker threads, of one process or of several replicas

VARIABLE
  status        \* status[i]: where item i is

(***************************************************************************)
(* "free" - put will accept the item;  "reserved" - the dedup marker is    *)
(* set but there is neither an entry nor a live worker;  "queued" - there  *)
(* is an entry to pop;  a worker - that worker is processing the item.     *)
(***************************************************************************)
Places == {"free", "reserved", "queued"}
Statuses == Places \cup Workers

TypeOK == status \in [Items -> Statuses]

Held(w) == {i \in Items : status[i] = w}

Init == status = [i \in Items |-> "free"]

-----------------------------------------------------------------------------
\* put: the marker first, then the entry; a backend may do both in one step.
Reserve(i) ==
  /\ status[i] = "free"
  /\ status' = [status EXCEPT ![i] = "reserved"]

Enqueue(i) ==
  /\ status[i] \in {"free", "reserved"}
  /\ status' = [status EXCEPT ![i] = "queued"]

\* get: a worker processes one item at a time.
Take(w, i) ==
  /\ status[i] = "queued"
  /\ Held(w) = {}
  /\ status' = [status EXCEPT ![i] = w]

\* requeue: the item goes back without ever being free.
Requeue(w, i) ==
  /\ status[i] = w
  /\ status' = [status EXCEPT ![i] = "queued"]

Release(w, i) ==
  /\ status[i] = w
  /\ status' = [status EXCEPT ![i] = "free"]

\* The worker dies with the item: the marker outlives it ...
Abandon(w, i) ==
  /\ status[i] = w
  /\ status' = [status EXCEPT ![i] = "reserved"]

\* ... until it is taken back (an undone put) or its TTL passes.
Unreserve(i) ==
  /\ status[i] = "reserved"
  /\ status' = [status EXCEPT ![i] = "free"]

\* An in-process queue dies with its process.
Forget == status' = [i \in Items |-> "free"]

Next ==
  \/ \E i \in Items : Reserve(i) \/ Enqueue(i) \/ Unreserve(i)
  \/ \E w \in Workers, i \in Items :
       Take(w, i) \/ Requeue(w, i) \/ Release(w, i) \/ Abandon(w, i)
  \/ Forget

Spec == Init /\ [][Next]_status
=============================================================================
