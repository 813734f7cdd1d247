------------------------------ MODULE JobProofs ------------------------------
(***************************************************************************)
(* What becomes of a job: in the queue of the process, and in an import.   *)
(*                                                                         *)
(* MemoryJobQueue, for any ids, workers, priorities and bound on the       *)
(* entries: the in-memory queue keeps its invariants and implements        *)
(* DedupQueue.                                                             *)
(*                                                                         *)
(* ImportPipeline (the instance Import), for any exports, jobs, bounds and *)
(* either queue: a completed job accounts for its export, nothing is       *)
(* counted twice, images are linked again, no job is forgotten, and an     *)
(* outcome and a progress stand.                                           *)
(***************************************************************************)
EXTENDS MemoryJobQueue, ImportPromise, FiniteSetTheorems, SequenceTheorems, TLAPS

\* The other constants and variables of ImportPipeline.
CONSTANTS Convs, Exports, Images, MaxDeletes, MaxCrashes, MaxOutages, Durable, NoJob
VARIABLES importer, left

Import == INSTANCE ImportPipeline

-----------------------------------------------------------------------------
(***************************************************************************)
(* The queue in memory                                                     *)
(***************************************************************************)

\* Adding an entry adds its id.
LEMMA AddedItem ==
  ASSUME NEW e, queue' = queue \cup {e}
  PROVE  QueuedItems' = QueuedItems \cup {e.item}
BY DEF QueuedItems

\* An empty queue with idle workers satisfies the inductive invariant.
LEMMA InitIndInv == Init => IndInv
BY ConstantsAssumption
   DEF Init, IndInv, TypeOK, NeverTwice, OneEntry, MarkedIffInFlight, QueuedItems, Busy

\* put adds an entry of an unmarked id and its marker, or does nothing.
LEMMA PutIndInv ==
  ASSUME IndInv, NEW i \in Items, NEW p \in Priorities, Put(i, p)
  PROVE  IndInv'
<1> USE ConstantsAssumption
<1>1. CASE i \in enqueued
  BY <1>1 DEF Put, vars, IndInv, TypeOK, NeverTwice, OneEntry, MarkedIffInFlight,
              QueuedItems, Busy
<1>2. CASE i \notin enqueued
  <2> DEFINE new == [priority |-> p, seq |-> seq, item |-> i]
  <2>1. /\ queue' = queue \cup {new}
        /\ enqueued' = enqueued \cup {i}
        /\ seq' = seq + 1
        /\ holding' = holding
    BY <1>2 DEF Put, AddEntry
  <2>2. i \notin QueuedItems /\ \A w \in Workers : holding[w] # i
    BY <1>2 DEF IndInv, MarkedIffInFlight, Busy
  <2>3. QueuedItems' = QueuedItems \cup {i}
    <3>1. QueuedItems' = QueuedItems \cup {new.item}
      BY <2>1, AddedItem
    <3> QED BY <3>1
  <2>4. new \in Entry
    BY DEF IndInv, TypeOK, Entry
  <2>5. TypeOK'
    BY <2>1, <2>4 DEF IndInv, TypeOK
  <2>6. NeverTwice'
    BY <2>1 DEF IndInv, NeverTwice, Busy
  <2>7. OneEntry'
    BY <2>1, <2>2, <2>3 DEF IndInv, OneEntry, QueuedItems
  <2>8. MarkedIffInFlight'
    BY <2>1, <2>3 DEF IndInv, MarkedIffInFlight, Busy
  <2> QED BY <2>5, <2>6, <2>7, <2>8 DEF IndInv
<1> QED BY <1>1, <1>2

\* What get does to the two sets: the popped id changes place.
LEMMA GetMoves ==
  ASSUME IndInv, NEW w \in Workers, NEW e \in queue,
         ~Busy(w),
         queue' = queue \ {e},
         holding' = [holding EXCEPT ![w] = e.item]
  PROVE  /\ e.item \in Items
         /\ e.item \notin {holding[v] : v \in Workers}
         /\ QueuedItems' = QueuedItems \ {e.item}
         /\ holding'[w] = e.item
         /\ \A v \in Workers \ {w} : holding'[v] = holding[v]
<1>1. e.item \in Items
  BY DEF IndInv, TypeOK, Entry
<1>2. e.item \notin {holding[v] : v \in Workers}
  BY DEF IndInv, OneEntry, QueuedItems
<1>3. QueuedItems' = QueuedItems \ {e.item}
  BY DEF IndInv, OneEntry, QueuedItems
<1>4. /\ holding'[w] = e.item
      /\ \A v \in Workers \ {w} : holding'[v] = holding[v]
  BY DEF IndInv, TypeOK
<1> QED BY <1>1, <1>2, <1>3, <1>4

\* get moves the id from the heap to one worker; its marker stays.
LEMMA GetIndInv ==
  ASSUME IndInv, NEW w \in Workers, Get(w)
  PROVE  IndInv'
<1> USE ConstantsAssumption
<1>1. PICK e \in queue : /\ queue' = queue \ {e}
                         /\ holding' = [holding EXCEPT ![w] = e.item]
  BY DEF Get
<1>2. ~Busy(w) /\ enqueued' = enqueued /\ seq' = seq
  BY DEF Get
<1>3. /\ e.item \in Items
      /\ e.item \notin {holding[v] : v \in Workers}
      /\ QueuedItems' = QueuedItems \ {e.item}
      /\ holding'[w] = e.item
      /\ \A v \in Workers \ {w} : holding'[v] = holding[v]
  BY <1>1, <1>2, GetMoves
<1>4. TypeOK'
  BY <1>1, <1>2, <1>3 DEF IndInv, TypeOK
<1>5. NeverTwice'
  BY <1>3 DEF IndInv, NeverTwice, Busy
<1>6. OneEntry'
  <2>1. \A f, g \in queue' : f.item = g.item => f = g
    BY <1>1 DEF IndInv, OneEntry
  <2>2. \A v \in Workers : holding'[v] \notin QueuedItems'
    BY <1>3 DEF IndInv, OneEntry
  <2> QED BY <2>1, <2>2 DEF OneEntry
<1>7. MarkedIffInFlight'
  <2>1. {holding'[v] : v \in {u \in Workers : Busy(u)'}} =
        {holding[v] : v \in {u \in Workers : Busy(u)}} \cup {e.item}
    BY <1>2, <1>3 DEF Busy
  <2>2. e.item \in QueuedItems
    BY DEF QueuedItems
  <2> QED BY <1>2, <1>3, <2>1, <2>2 DEF IndInv, MarkedIffInFlight
<1> QED BY <1>4, <1>5, <1>6, <1>7 DEF IndInv

\* release takes the marker and the worker of the id away together.
LEMMA ReleaseIndInv ==
  ASSUME IndInv, NEW w \in Workers, Release(w)
  PROVE  IndInv'
<1> USE ConstantsAssumption
<1>1. /\ enqueued' = enqueued \ {holding[w]}
      /\ holding' = [holding EXCEPT ![w] = NoItem]
      /\ queue' = queue /\ seq' = seq /\ Busy(w)
  BY DEF Release
<1>2. /\ holding'[w] = NoItem
      /\ \A v \in Workers \ {w} : holding'[v] = holding[v]
  BY <1>1 DEF IndInv, TypeOK
<1>3. QueuedItems' = QueuedItems
  BY <1>1 DEF QueuedItems
<1>4. TypeOK'
  BY <1>1 DEF IndInv, TypeOK
<1>5. NeverTwice'
  BY <1>2 DEF IndInv, NeverTwice, Busy
<1>6. OneEntry'
  <2>1. NoItem \notin QueuedItems
    BY DEF IndInv, TypeOK, QueuedItems, Entry
  <2> QED BY <1>1, <1>2, <1>3, <2>1 DEF IndInv, OneEntry
<1>7. MarkedIffInFlight'
  <2>1. {holding'[v] : v \in {u \in Workers : Busy(u)'}} =
        {holding[v] : v \in {u \in Workers : Busy(u)}} \ {holding[w]}
    BY <1>1, <1>2 DEF IndInv, NeverTwice, Busy
  <2>2. holding[w] \notin QueuedItems
    BY DEF IndInv, OneEntry
  <2> QED BY <1>1, <1>3, <2>1, <2>2 DEF IndInv, MarkedIffInFlight
<1> QED BY <1>4, <1>5, <1>6, <1>7 DEF IndInv

\* requeue puts the id back under a new sequence number; its marker stays.
LEMMA RequeueIndInv ==
  ASSUME IndInv, NEW w \in Workers, NEW p \in Priorities, Requeue(w, p)
  PROVE  IndInv'
<1> USE ConstantsAssumption
<1> DEFINE new == [priority |-> p, seq |-> seq, item |-> holding[w]]
<1>1. /\ queue' = queue \cup {new}
      /\ holding' = [holding EXCEPT ![w] = NoItem]
      /\ enqueued' = enqueued /\ seq' = seq + 1 /\ Busy(w)
  BY DEF Requeue, AddEntry
<1>2. /\ holding'[w] = NoItem
      /\ \A v \in Workers \ {w} : holding'[v] = holding[v]
  BY <1>1 DEF IndInv, TypeOK
<1>3. QueuedItems' = QueuedItems \cup {holding[w]}
  <2>1. QueuedItems' = QueuedItems \cup {new.item}
    BY <1>1, AddedItem
  <2> QED BY <2>1
<1>4. holding[w] \in Items /\ holding[w] \notin QueuedItems
  BY <1>1 DEF IndInv, TypeOK, OneEntry, Busy
<1>5. TypeOK'
  <2>1. new \in Entry
    BY <1>4 DEF IndInv, TypeOK, Entry
  <2> QED BY <1>1, <2>1 DEF IndInv, TypeOK
<1>6. NeverTwice'
  BY <1>2 DEF IndInv, NeverTwice, Busy
<1>7. OneEntry'
  <2>1. \A e, f \in queue' : e.item = f.item => e = f
    BY <1>1, <1>4 DEF IndInv, OneEntry, QueuedItems
  <2>2. NoItem \notin QueuedItems'
    BY <1>3, <1>4 DEF IndInv, TypeOK, QueuedItems, Entry
  <2>3. \A v \in Workers \ {w} : holding[v] \notin QueuedItems'
    BY <1>1, <1>3 DEF IndInv, OneEntry, NeverTwice
  <2> QED BY <1>2, <2>1, <2>2, <2>3 DEF OneEntry
<1>8. MarkedIffInFlight'
  <2>1. {holding'[v] : v \in {u \in Workers : Busy(u)'}} =
        {holding[v] : v \in {u \in Workers : Busy(u)}} \ {holding[w]}
    BY <1>1, <1>2 DEF IndInv, NeverTwice, Busy
  <2>2. holding[w] \in {holding[v] : v \in {u \in Workers : Busy(u)}}
    BY <1>1
  <2> QED BY <1>1, <1>3, <2>1, <2>2 DEF IndInv, MarkedIffInFlight
<1> QED BY <1>5, <1>6, <1>7, <1>8 DEF IndInv

\* A process start empties the heap, the markers and the workers together.
LEMMA RestartIndInv == IndInv /\ Restart => IndInv'
BY ConstantsAssumption
   DEF Restart, IndInv, TypeOK, NeverTwice, OneEntry, MarkedIffInFlight, QueuedItems, Busy

\* The inductive invariant reads nothing but the variables of the queue.
LEMMA StutterIndInv == IndInv /\ UNCHANGED vars => IndInv'
BY DEF vars, IndInv, TypeOK, NeverTwice, OneEntry, MarkedIffInFlight, QueuedItems, Busy

\* Every step of the queue preserves the inductive invariant.
LEMMA NextIndInv == IndInv /\ [Next]_vars => IndInv'
<1> SUFFICES ASSUME IndInv, [Next]_vars PROVE IndInv'
  OBVIOUS
<1>1. ASSUME NEW i \in Items, NEW p \in Priorities, Put(i, p) PROVE IndInv'
  BY <1>1, PutIndInv
<1>2. ASSUME NEW w \in Workers, Get(w) PROVE IndInv'
  BY <1>2, GetIndInv
<1>3. ASSUME NEW w \in Workers, Release(w) PROVE IndInv'
  BY <1>3, ReleaseIndInv
<1>4. ASSUME NEW w \in Workers, NEW p \in Priorities, Requeue(w, p) PROVE IndInv'
  BY <1>4, RequeueIndInv
<1>5. CASE Restart
  BY <1>5, RestartIndInv
<1>6. CASE UNCHANGED vars
  BY <1>6, StutterIndInv
<1> QED BY <1>1, <1>2, <1>3, <1>4, <1>5, <1>6 DEF Next

\* The inductive invariant holds in every reachable state.
LEMMA SpecIndInv == Spec => []IndInv
BY InitIndInv, NextIndInv, PTL DEF Spec

\* The queue's state is well typed.
THEOREM TypeCorrect == Spec => []TypeOK
<1>1. IndInv => TypeOK BY DEF IndInv
<1> QED BY <1>1, SpecIndInv, PTL

\* No two workers ever process the same id (put's dedup guard).
THEOREM NeverTwiceHolds == Spec => []NeverTwice
<1>1. IndInv => NeverTwice BY DEF IndInv
<1> QED BY <1>1, SpecIndInv, PTL

\* No id has two entries, nor one while it is processed.
THEOREM OneEntryHolds == Spec => []OneEntry
<1>1. IndInv => OneEntry BY DEF IndInv
<1> QED BY <1>1, SpecIndInv, PTL

\* No marker is leaked and no in-flight id lacks one.
THEOREM MarkedIffInFlightHolds == Spec => []MarkedIffInFlight
<1>1. IndInv => MarkedIffInFlight BY DEF IndInv
<1> QED BY <1>1, SpecIndInv, PTL

\* The three together: an id in flight is there once, and marked.
THEOREM InFlightOnceHolds == Spec => []InFlightOnce
<1>1. IndInv => InFlightOnce BY DEF IndInv, InFlightOnce
<1> QED BY <1>1, SpecIndInv, PTL
-----------------------------------------------------------------------------
(***************************************************************************)
(* Refinement.  The heap, the markers and what the workers hold are mapped *)
(* to the place of every id; each step of the implementation is then a     *)
(* step of DedupQueue or leaves every id where it is.                      *)
(***************************************************************************)
st == [i \in Items |-> StatusOf(i)]

HeldItems == {holding[w] : w \in Workers}

\* What the mapping says of an id, without the CHOOSE of StatusOf.
MapOK ==
  \A i \in Items :
    /\ \A w \in Workers : holding[w] = i => st[i] = w
    /\ i \in QueuedItems => st[i] = "queued"
    /\ i \notin HeldItems /\ i \notin QueuedItems => st[i] = "free"
    /\ \A w \in Workers : st[i] = w => holding[w] = i

\* The refinement mapping sends each id to the one place it is in.
LEMMA MapCorrect == IndInv => MapOK
<1> SUFFICES ASSUME IndInv, NEW i \in Items
             PROVE  /\ \A w \in Workers : holding[w] = i => st[i] = w
                    /\ i \in QueuedItems => st[i] = "queued"
                    /\ i \notin HeldItems /\ i \notin QueuedItems => st[i] = "free"
                    /\ \A w \in Workers : st[i] = w => holding[w] = i
  BY DEF MapOK
<1>1. st[i] = StatusOf(i)
  BY DEF st
<1>2. ASSUME NEW w \in Workers, holding[w] = i PROVE StatusOf(i) = w
  <2>1. \A v \in Workers : holding[v] = i => v = w
    BY <1>2, ConstantsAssumption DEF IndInv, NeverTwice, Busy
  <2> QED BY <1>2, <2>1 DEF StatusOf
<1>3. i \in QueuedItems => StatusOf(i) = "queued"
  BY DEF StatusOf, IndInv, OneEntry
<1>4. i \notin HeldItems /\ i \notin QueuedItems => StatusOf(i) = "free"
  BY DEF StatusOf, HeldItems
<1>5. ASSUME NEW w \in Workers, StatusOf(i) = w PROVE holding[w] = i
  <2>1. w # "queued" /\ w # "free"
    BY ConstantsAssumption
  <2>2. PICK v \in Workers : holding[v] = i
    BY <1>5, <2>1 DEF StatusOf
  <2> QED BY <1>2, <1>5, <2>2
<1> QED BY <1>1, <1>2, <1>3, <1>4, <1>5

\* A step that moves one id from place to place.
LEMMA MoveOne ==
  ASSUME NEW i \in Items, NEW place, st'[i] = place,
         \A j \in Items \ {i} : st'[j] = st[j]
  PROVE  st' = [st EXCEPT ![i] = place]
BY DEF st

\* put is Enqueue of the contract, or a stutter when the id is marked.
LEMMA PutRefines ==
  ASSUME IndInv, MapOK, MapOK', NEW i \in Items, NEW p \in Priorities, Put(i, p)
  PROVE  [Abstract!Next]_st
<1>1. CASE i \in enqueued
  <2>1. UNCHANGED <<queue, holding>>
    BY <1>1 DEF Put, vars
  <2>2. st' = st
    BY <2>1 DEF st, StatusOf, QueuedItems
  <2> QED BY <2>2
<1>2. CASE i \notin enqueued
  <2>1. /\ queue' = queue \cup {[priority |-> p, seq |-> seq, item |-> i]}
        /\ holding' = holding
    BY <1>2 DEF Put, AddEntry
  <2>2. i \notin HeldItems /\ i \notin QueuedItems
    BY <1>2, ConstantsAssumption DEF IndInv, MarkedIffInFlight, Busy, HeldItems
  <2>3. QueuedItems' = QueuedItems \cup {i} /\ HeldItems' = HeldItems
    <3> DEFINE new == [priority |-> p, seq |-> seq, item |-> i]
    <3>1. QueuedItems' = QueuedItems \cup {new.item}
      BY <2>1, AddedItem
    <3> QED BY <2>1, <3>1 DEF HeldItems
  <2>4. st[i] = "free" /\ st'[i] = "queued"
    BY <2>2, <2>3 DEF MapOK
  <2>5. \A j \in Items \ {i} : st'[j] = st[j]
    BY <2>1, <2>3 DEF st, StatusOf
  <2>6. st' = [st EXCEPT ![i] = "queued"]
    BY <2>4, <2>5, MoveOne
  <2> QED BY <2>4, <2>6 DEF Abstract!Next, Abstract!Enqueue, st
<1> QED BY <1>1, <1>2

\* get is Take of the contract.
LEMMA GetRefines ==
  ASSUME IndInv, MapOK, MapOK', NEW w \in Workers, Get(w)
  PROVE  [Abstract!Next]_st
<1>1. PICK e \in queue : /\ queue' = queue \ {e}
                         /\ holding' = [holding EXCEPT ![w] = e.item]
  BY DEF Get
<1>2. ~Busy(w)
  BY DEF Get
<1>3. /\ e.item \in Items
      /\ QueuedItems' = QueuedItems \ {e.item}
      /\ holding'[w] = e.item
      /\ \A v \in Workers \ {w} : holding'[v] = holding[v]
  BY <1>1, <1>2, GetMoves
<1>4. e.item \in QueuedItems
  BY DEF QueuedItems
<1>5. st[e.item] = "queued" /\ st'[e.item] = w
  BY <1>3, <1>4 DEF MapOK
<1>6. \A j \in Items : st[j] # w
  BY <1>2, ConstantsAssumption DEF MapOK, Busy
<1>7. \A j \in Items \ {e.item} : st'[j] = st[j]
  <2> SUFFICES ASSUME NEW j \in Items \ {e.item} PROVE st'[j] = st[j]
    OBVIOUS
  <2>1. CASE \E v \in Workers : holding[v] = j
    <3>1. PICK v \in Workers : holding[v] = j
      BY <2>1
    <3>2. v # w
      BY <3>1, <1>2, ConstantsAssumption DEF Busy
    <3> QED BY <3>1, <3>2, <1>3 DEF MapOK
  <2>2. CASE ~ \E v \in Workers : holding[v] = j
    <3>1. j \notin HeldItems /\ j \notin HeldItems'
      BY <2>2, <1>3 DEF HeldItems
    <3> QED BY <3>1, <1>3 DEF MapOK
  <2> QED BY <2>1, <2>2
<1>8. st' = [st EXCEPT ![e.item] = w]
  BY <1>3, <1>5, <1>7, MoveOne
<1>9. Abstract!Take(w, e.item)
  BY <1>3, <1>5, <1>6, <1>8 DEF Abstract!Take, Abstract!Held, st
<1> QED BY <1>3, <1>9 DEF Abstract!Next

\* Release and requeue: the id leaves its worker, all others stay.
LEMMA LeaveWorker ==
  ASSUME IndInv, MapOK, MapOK', NEW w \in Workers, Busy(w),
         holding' = [holding EXCEPT ![w] = NoItem],
         QueuedItems' \in {QueuedItems, QueuedItems \cup {holding[w]}}
  PROVE  /\ holding[w] \in Items
         /\ st[holding[w]] = w
         /\ holding[w] \notin HeldItems'
         /\ \A j \in Items \ {holding[w]} : st'[j] = st[j]
<1>1. holding[w] \in Items
  BY DEF IndInv, TypeOK, Busy
<1>2. st[holding[w]] = w
  BY <1>1 DEF MapOK
<1>3. /\ holding'[w] = NoItem
      /\ \A v \in Workers \ {w} : holding'[v] = holding[v]
  BY DEF IndInv, TypeOK
<1>4. holding[w] \notin HeldItems'
  BY <1>1, <1>3, ConstantsAssumption DEF HeldItems, IndInv, NeverTwice, Busy
<1>5. ASSUME NEW j \in Items \ {holding[w]} PROVE st'[j] = st[j]
  <2>1. CASE \E v \in Workers : holding[v] = j
    BY <2>1, <1>3 DEF MapOK
  <2>2. CASE ~ \E v \in Workers : holding[v] = j
    <3>1. j \notin HeldItems /\ j \notin HeldItems'
      BY <2>2, <1>3, ConstantsAssumption DEF HeldItems
    <3> QED BY <3>1 DEF MapOK
  <2> QED BY <2>1, <2>2
<1> QED BY <1>1, <1>2, <1>4, <1>5

\* release is Release of the contract.
LEMMA ReleaseRefines ==
  ASSUME IndInv, MapOK, MapOK', NEW w \in Workers, Release(w)
  PROVE  [Abstract!Next]_st
<1>1. Busy(w) /\ holding' = [holding EXCEPT ![w] = NoItem] /\ queue' = queue
  BY DEF Release
<1>2. QueuedItems' = QueuedItems
  BY <1>1 DEF QueuedItems
<1>3. /\ holding[w] \in Items
      /\ st[holding[w]] = w
      /\ holding[w] \notin HeldItems'
      /\ \A j \in Items \ {holding[w]} : st'[j] = st[j]
  BY <1>1, <1>2, LeaveWorker
<1>4. holding[w] \notin QueuedItems
  BY DEF IndInv, OneEntry
<1>5. st'[holding[w]] = "free"
  BY <1>2, <1>3, <1>4 DEF MapOK
<1>6. st' = [st EXCEPT ![holding[w]] = "free"]
  BY <1>3, <1>5, MoveOne
<1> QED BY <1>3, <1>6 DEF Abstract!Next, Abstract!Release, st

\* requeue is Requeue of the contract.
LEMMA RequeueRefines ==
  ASSUME IndInv, MapOK, MapOK', NEW w \in Workers, NEW p \in Priorities, Requeue(w, p)
  PROVE  [Abstract!Next]_st
<1>1. /\ Busy(w)
      /\ holding' = [holding EXCEPT ![w] = NoItem]
      /\ queue' = queue \cup {[priority |-> p, seq |-> seq, item |-> holding[w]]}
  BY DEF Requeue, AddEntry
<1>2. QueuedItems' = QueuedItems \cup {holding[w]}
  <2> DEFINE new == [priority |-> p, seq |-> seq, item |-> holding[w]]
  <2>1. QueuedItems' = QueuedItems \cup {new.item}
    BY <1>1, AddedItem
  <2> QED BY <2>1
<1>3. /\ holding[w] \in Items
      /\ st[holding[w]] = w
      /\ \A j \in Items \ {holding[w]} : st'[j] = st[j]
  BY <1>1, <1>2, LeaveWorker
<1>4. st'[holding[w]] = "queued"
  BY <1>2, <1>3 DEF MapOK
<1>5. st' = [st EXCEPT ![holding[w]] = "queued"]
  BY <1>3, <1>4, MoveOne
<1> QED BY <1>3, <1>5 DEF Abstract!Next, Abstract!Requeue, st

\* A process start is Forget of the contract.
LEMMA RestartRefines == Restart /\ MapOK' => Abstract!Forget
<1> SUFFICES ASSUME Restart, MapOK' PROVE st' = [i \in Items |-> "free"]
  BY DEF Abstract!Forget, st
<1>1. \A i \in Items : i \notin QueuedItems' /\ i \notin HeldItems'
  BY ConstantsAssumption DEF Restart, QueuedItems, HeldItems
<1>2. \A i \in Items : st'[i] = "free"
  BY <1>1 DEF MapOK
<1> QED BY <1>2 DEF st

\* The empty queue maps to the empty contract.
LEMMA InitRefines == Init => Abstract!Init
BY ConstantsAssumption DEF Init, Abstract!Init, StatusOf, QueuedItems

\* Every step of the queue is a step of the contract or a stutter.
LEMMA NextRefines == IndInv /\ MapOK /\ MapOK' /\ [Next]_vars => [Abstract!Next]_st
<1> SUFFICES ASSUME IndInv, MapOK, MapOK', [Next]_vars PROVE [Abstract!Next]_st
  OBVIOUS
<1>1. ASSUME NEW i \in Items, NEW p \in Priorities, Put(i, p) PROVE [Abstract!Next]_st
  BY <1>1, PutRefines
<1>2. ASSUME NEW w \in Workers, Get(w) PROVE [Abstract!Next]_st
  BY <1>2, GetRefines
<1>3. ASSUME NEW w \in Workers, Release(w) PROVE [Abstract!Next]_st
  BY <1>3, ReleaseRefines
<1>4. ASSUME NEW w \in Workers, NEW p \in Priorities, Requeue(w, p)
      PROVE [Abstract!Next]_st
  BY <1>4, RequeueRefines
<1>5. CASE Restart
  BY <1>5, RestartRefines DEF Abstract!Next
<1>6. CASE UNCHANGED vars
  <2>1. st' = st
    BY <1>6 DEF vars, st, StatusOf, QueuedItems
  <2> QED BY <2>1
<1> QED BY <1>1, <1>2, <1>3, <1>4, <1>5, <1>6 DEF Next

\* InMemoryJobQueue implements JobQueue's dedup contract.
THEOREM Refinement == Spec => ImplementsDedupQueue
<1>1. Spec => [](IndInv /\ MapOK)
  BY SpecIndInv, MapCorrect, PTL
<1> QED
  BY <1>1, InitRefines, NextRefines, PTL DEF Spec, ImplementsDedupQueue, Abstract!Spec, st
-----------------------------------------------------------------------------
(***************************************************************************)
(* The import.  The worker writes back rows it read, the recovery rows it  *)
(* listed, and what a job claims rests on what the worker did items ago:   *)
(* the invariant has one part for each of these ties.                      *)
(***************************************************************************)
\* The types of the rows, of the worker and of what is left to do.
Sums == [found : Nat, sessions : Nat, skipped : Nat, imported : Nat, errors : Nat]
Rows == {r \in [status : {"none", "pending", "running", "completed", "failed"},
                processed : Nat, percent : Nat, summary : Sums] : r.percent <= r.processed}
Hands == [pc : {"idle", "dead", "read", "start", "index", "progress", "save progress", "item",
                "session", "new session", "messages", "rewrite", "read end", "read failed",
                "complete", "audit", "fail", "release", "release and die"},
          job : Jobs \cup {NoJob}, copy : Rows, at : Nat, index : BOOLEAN, sum : Sums]
Entries == [job : Jobs \cup {NoJob}, row : Rows, pc : {"list", "row", "put"}]
Requests == [pc : {"none", "list", "entries", "save", "put", "done"}, path : Jobs \cup {NoJob},
             registers : BOOLEAN]
Places == {"free", "reserved", "queued", "importer"}

Typed ==
  /\ request \in [Jobs -> Requests]
  /\ DOMAIN archive \subseteq Jobs
  /\ archive \in [DOMAIN archive -> [export : Exports, rows : Nat]]
  /\ job \in [Jobs -> Rows]
  /\ sessions \subseteq Convs /\ IsFiniteSet(sessions)
  /\ IsFiniteSet(DOMAIN messages)
  /\ messages \in [DOMAIN messages -> {"text", "broken", "linked"}]
  /\ status \in [Jobs -> Places]
  /\ importer \in Hands
  /\ recovering \in Seq(Entries)

\* A request ends before its job is queued, and an archive has its rows before
\* its job has one.
Ready(j) ==
  /\ IF request[j].pc = "none" THEN j \notin DOMAIN archive ELSE request[j].path \in DOMAIN archive
  /\ request[j].pc \in {"none", "list", "entries", "save"} => job[j] = Import!NoRow
  /\ request[j].pc # "done" => status[j] = "free"
  /\ request[j].pc = "put" => job[j].status = "pending"
  /\ job[j].status = "none" => job[j] = Import!NoRow /\ status[j] = "free"
  /\ \/ request[j].pc = "entries" /\ ~request[j].registers
     \/ request[j].pc \in {"save", "put"}
     \/ job[j].status # "none"
     => (ExportOf(j).zip => archive[request[j].path].rows > 0)
Requested == \A j \in Jobs : Ready(j)

Resting == {"idle", "dead"}
Leaving == {"release", "release and die"}

\* The worker holds one job, and knows which.
Working ==
  /\ importer.pc \in Resting <=> importer.job = NoJob
  /\ \A j \in Jobs : status[j] = "importer" <=> importer.job = j

\* The recovery: requests have to wait, and every entry is a job that had not ended.
Recovers ==
  /\ recovering # <<>> => \A j \in Jobs : request[j].pc \in {"none", "done"}
  /\ \A n \in DOMAIN recovering :
       /\ n # 1 => recovering[n].pc = "row"
       /\ recovering[n].pc # "list" =>
            /\ recovering[n].job \in Jobs
            /\ job[recovering[n].job].status # "none"
            /\ recovering[n].row.status \in {"pending", "running"}

\* The row is completed, and its audit event was refused.
Refused(row) ==
  importer.pc \in {"read failed", "fail"} /\ row.status = "completed" /\ importer.job \in struck

\* A job ends once, in the hands of the worker, and is let go after that; only
\* one whose audit event was refused goes on to fail.
Settled ==
  /\ importer.job # NoJob =>
       LET row == job[importer.job]
       IN /\ importer.pc \in Leaving =>
               row.status \in Import!Ended \/ importer.job \in struck \cup stale
          /\ importer.job \notin stale =>
               /\ importer.pc = "audit" => row.status = "completed"
               /\ importer.pc \notin Leaving \cup {"audit"} /\ row.status \in Import!Ended => Refused(row)
               /\ importer.pc \in {"start", "save progress", "complete", "fail"} =>
                    importer.copy.processed >= row.processed
               /\ importer.pc \in {"save progress", "fail"} => importer.copy.percent >= row.percent
          /\ importer.pc = "save progress" => importer.copy.status = "running"
  /\ \A j \in Jobs :
       /\ status[j] = "reserved" => j \in struck
       /\ status[j] = "queued" => job[j].status \notin Import!Ended \/ j \in stale
  /\ NeverForgotten

\* With a queue that died with the process nobody works on what is recovered.
UpToDate ==
  ~Durable =>
    /\ stale = {}
    /\ \A n \in DOMAIN recovering :
         LET entry == recovering[n]
         IN /\ entry.pc = "list" => \A j \in Jobs : status[j] = "free"
            /\ entry.pc # "list" =>
                 /\ status[entry.job] = "free"
                 /\ job[entry.job].status \in {"pending", "running"}
                 /\ entry.pc = "row" => job[entry.job] = entry.row
                 /\ \A m \in DOMAIN recovering : recovering[m].job = entry.job => m = n

Loop == {"progress", "save progress", "item", "session", "new session", "messages", "rewrite"}
Final == {"read end", "complete"}

\* What the worker has passed is in the store, or an error counts for it.
Stored ==
  /\ importer.pc \in Loop \cup Final =>
       Cardinality({n \in Missing(importer.job) : n < importer.at}) <= importer.sum.errors
  /\ importer.pc \in Loop => importer.at > 0
  /\ importer.pc \in Final => importer.at > Len(Import!Items)
  /\ importer.pc \in {"session", "new session", "messages", "rewrite"} =>
       importer.at \in DOMAIN Import!Items /\ Sound(Import!Item)
  /\ importer.pc = "new session" => Import!Item.conv \notin sessions
  /\ importer.pc = "messages" => Import!Item.conv \in sessions \cup removed
  /\ importer.pc = "rewrite" => importer.at \notin Missing(importer.job)
  /\ CompletedIsAccounted

Unbroken(i) ==
  \A m \in i.msgs : <<i.conv, m>> \in DOMAIN messages => messages[<<i.conv, m>>] # "broken"

\* An archive has its rows before the index is built, and no index was built
\* without them after that.
Linked ==
  /\ \A m \in DOMAIN messages : messages[m] = "broken" => m \in Images
  /\ importer.pc \in Loop \cup Final =>
       /\ \A j \in Jobs :
            ~importer.index /\ (j = importer.job \/ job[j].status = "completed") => ~ExportOf(j).zip
       /\ ExportOf(importer.job).zip /\ importer.sum.errors = 0 =>
            \A n \in ConvItems(importer.job) : n < importer.at => Unbroken(Import!Items[n])
  /\ ImagesRelinked

\* What any row or copy of a row claims to have created.
Claims(field) ==
  {c \in Jobs \X Nat :
     /\ c[2] > 0
     /\ \/ c[2] <= job[c[1]].summary[field]
        \/ importer.job = c[1] /\ c[2] <= importer.copy.summary[field]
        \/ \E n \in DOMAIN recovering : 
             recovering[n].job = c[1] /\ c[2] <= recovering[n].row.summary[field]}
\* What the worker will claim, until it has or has failed.
Over == Leaving \cup {"audit", "read failed", "fail"}
Making(field) == IF importer.pc \in Over THEN 0 ELSE importer.sum[field]

Counted ==
  removed = {} =>
    /\ IsFiniteSet(Claims("sessions")) /\ IsFiniteSet(Claims("imported"))
    /\ Cardinality(Claims("sessions")) + Making("sessions") <= Cardinality(sessions)
    /\ Cardinality(Claims("imported")) + Making("imported") <= Cardinality(DOMAIN messages)

\* The inductive invariant.
IInv ==
  /\ Typed /\ Requested /\ Working /\ Recovers
  /\ Settled /\ UpToDate /\ Stored /\ Linked /\ Counted

-----------------------------------------------------------------------------
(* What each step of the worker does, field by field                       *)
-----------------------------------------------------------------------------
Moves(pc, at) ==
  /\ importer.job \in Jobs /\ importer' \in Hands
  /\ importer'.pc = pc /\ importer'.at = at
  /\ importer'.job = importer.job /\ importer'.index = importer.index
Adds(new, imported, errors) ==
  /\ importer'.sum.sessions = importer.sum.sessions + new
  /\ importer'.sum.imported = importer.sum.imported + imported
  /\ importer'.sum.errors = importer.sum.errors + errors
Keeps == importer'.copy = importer.copy /\ importer'.sum = importer.sum
AllButWorker == <<request, archive, job, sessions, messages, status, recovering, struck, removed, stale>>
AllButRows == <<request, archive, sessions, messages, status, recovering, struck, removed, stale>>
Writes(row) == row \in Rows /\ job' = [job EXCEPT ![importer.job] = row] /\ UNCHANGED AllButRows

\* The instance counts as this module does.
LEMMA Counting ==
  /\ \A S : Import!Cardinality(S) = Cardinality(S)
  /\ \A S : Import!IsFiniteSet(S) <=> IsFiniteSet(S)
BY DEF Import!Cardinality, Cardinality, Import!IsFiniteSet, IsFiniteSet

\* The row, the summary and the tasks that things begin with.
LEMMA Beginnings ==
  /\ Import!NoRow \in Rows /\ Import!NoSummary \in Sums /\ Import!Idle \in Hands
  /\ Import!Listing \in Entries
  /\ Import!NoRequest \in Requests
  /\ \A f \in {"sessions", "imported", "errors"} : Import!NoSummary[f] = 0
BY DEF Import!NoRow, Import!NoSummary, Import!Idle, Import!Listing, Import!NoRequest, Rows,
   Sums, Hands, Entries, Requests

\* Rows and summaries after a change of one field.
LEMMA RowChanged ==
  ASSUME NEW r \in Rows
  PROVE  /\ r.processed \in Nat /\ r.percent \in Nat /\ r.percent <= r.processed /\ r.summary \in Sums
         /\ \A p \in Nat : [r EXCEPT !.processed = p, !.percent = p] \in Rows
         /\ [r EXCEPT !.status = "running", !.percent = 0] \in Rows
         /\ \A t \in {"pending", "running", "completed", "failed"} : [r EXCEPT !.status = t] \in Rows
<1> DEFINE Fields == [status : {"none", "pending", "running", "completed", "failed"},
                      processed : Nat, percent : Nat, summary : Sums]
<1>1. r \in Fields /\ r.percent <= r.processed
  BY DEF Rows
<1>2. \A f \in Fields : f.percent <= f.processed => f \in Rows
  BY DEF Rows
<1>3. r.processed \in Nat /\ r.percent \in Nat /\ r.summary \in Sums
  BY <1>1
<1>4. ASSUME NEW p \in Nat PROVE [r EXCEPT !.processed = p, !.percent = p] \in Rows
  <2>1. [r EXCEPT !.processed = p, !.percent = p] \in Fields
    BY <1>1
  <2>2. /\ [r EXCEPT !.processed = p, !.percent = p].percent = p
        /\ [r EXCEPT !.processed = p, !.percent = p].processed = p
    BY <1>1
  <2>3. p <= p
    OBVIOUS
  <2> QED BY <1>2, <2>1, <2>2, <2>3
<1>5. [r EXCEPT !.status = "running", !.percent = 0] \in Rows
  <2> DEFINE n == [r EXCEPT !.status = "running", !.percent = 0]
  <2>1. n \in Fields /\ n.percent = 0 /\ n.processed = r.processed
    BY <1>1
  <2>2. n.percent <= n.processed
    BY <1>3, <2>1
  <2> QED BY <1>2, <2>1, <2>2
<1>6. ASSUME NEW t \in {"pending", "running", "completed", "failed"}
      PROVE  [r EXCEPT !.status = t] \in Rows
  <2> DEFINE n == [r EXCEPT !.status = t]
  <2>1. n \in Fields /\ n.percent = r.percent /\ n.processed = r.processed
    BY <1>1
  <2> QED BY <1>1, <1>2, <2>1
<1> QED BY <1>1, <1>3, <1>4, <1>5, <1>6

\* Summaries after a change of one field.
LEMMA Summed ==
  ASSUME NEW s \in Sums, NEW n \in Nat
  PROVE  /\ s.sessions \in Nat /\ s.imported \in Nat /\ s.errors \in Nat
         /\ [s EXCEPT !.found = @ + 1] \in Sums
         /\ [s EXCEPT !.skipped = @ + 1] \in Sums
         /\ [s EXCEPT !.sessions = @ + 1] \in Sums
         /\ [s EXCEPT !.errors = @ + 1] \in Sums
         /\ [s EXCEPT !.imported = @ + n] \in Sums
<1>1. /\ s.found \in Nat /\ s.sessions \in Nat /\ s.skipped \in Nat /\ s.imported \in Nat
      /\ s.errors \in Nat
  BY DEF Sums
<1>2. /\ s.found + 1 \in Nat /\ s.sessions + 1 \in Nat /\ s.skipped + 1 \in Nat
      /\ s.imported + n \in Nat /\ s.errors + 1 \in Nat
  BY <1>1
<1>3. [s EXCEPT !.found = @ + 1] \in Sums
  BY <1>1, <1>2 DEF Sums
<1>4. [s EXCEPT !.skipped = @ + 1] \in Sums /\ [s EXCEPT !.sessions = @ + 1] \in Sums
  BY <1>1, <1>2 DEF Sums
<1>5. [s EXCEPT !.errors = @ + 1] \in Sums /\ [s EXCEPT !.imported = @ + n] \in Sums
  BY <1>1, <1>2 DEF Sums
<1> QED BY <1>1, <1>3, <1>4, <1>5

\* The fields of the worker have their types.
LEMMA Parts ==
  ASSUME Typed
  PROVE  /\ importer \in Hands /\ importer.at \in Nat /\ importer.at + 1 \in Nat
         /\ importer.sum \in Sums /\ importer.copy \in Rows
<1>1. importer \in Hands
  BY DEF Typed
<1>2. importer.at \in Nat
  BY <1>1 DEF Hands
<1>3. importer.sum \in Sums /\ importer.copy \in Rows
  BY <1>1 DEF Hands
<1> QED BY <1>1, <1>2, <1>3

\* A worker with another summary.
LEMMA Summing ==
  ASSUME Typed, NEW s \in Sums, NEW pc, NEW at \in Nat, importer.job \in Jobs,
         importer' = [importer EXCEPT !.pc = pc, !.at = at, !.sum = s],
         pc \in {"progress", "session", "messages", "rewrite", "item"}
  PROVE  Moves(pc, at) /\ importer'.copy = importer.copy /\ importer'.sum = s
BY Parts DEF Moves, Hands

\* A worker that is not resting has a job.
LEMMA HasJob ==
  ASSUME Typed, Working, importer.pc \notin Resting
  PROVE  importer.job \in Jobs /\ job[importer.job] \in Rows
BY DEF Typed, Working, Resting, Hands

\* Without a row there is nothing to do; else the row is copied.
LEMMA ReadJobDoes ==
  ASSUME Typed, Working, Import!ReadJob
  PROVE  /\ importer.pc = "read" /\ importer'.sum = importer.sum /\ UNCHANGED AllButWorker
         /\ \/ job[importer.job].status = "none" /\ Moves("release", importer.at) /\ Keeps
            \/ Moves("start", importer.at) /\ importer'.copy = job[importer.job]
<1>1. importer.pc \notin Resting => importer.job \in Jobs /\ job[importer.job] \in Rows
  BY HasJob
<1> QED BY <1>1, Parts, Summed, RowChanged
       DEF Resting, Import!ReadJob, Import!Is, Import!Current, Import!OnlyWorker, Moves, Adds,
          Keeps, AllButWorker, Hands

\* The copy of the row is written back as running.
LEMMA MarkRunningDoes ==
  ASSUME Typed, Working, Import!MarkRunning
  PROVE  /\ importer.pc = "start" /\ Moves("index", importer.at) /\ Keeps
         /\ Writes([importer.copy EXCEPT !.status = "running", !.percent = 0])
<1>1. importer.pc \notin Resting => importer.job \in Jobs /\ job[importer.job] \in Rows
  BY HasJob
<1> QED BY <1>1, Parts, Summed, RowChanged
       DEF Resting, Import!MarkRunning, Import!Is, Import!Current, Import!WorkerSaves,
          Import!SaveRow, Writes, Import!Goto, AllButRows, Moves, Adds, Keeps, Hands

\* The index is built, and the first item is next.
LEMMA BuildIndexDoes ==
  ASSUME Typed, Working, Import!BuildIndex
  PROVE  /\ importer.pc = "index" /\ UNCHANGED AllButWorker /\ Keeps
         /\ importer' \in Hands /\ importer.job \in Jobs /\ importer'.job = importer.job
         /\ importer'.pc = "progress" /\ importer'.at = 1
         /\ importer'.index = \E a \in DOMAIN archive : archive[a].rows > 0
<1>1. importer.pc \notin Resting => importer.job \in Jobs /\ job[importer.job] \in Rows
  BY HasJob
<1> QED BY <1>1, Parts, Summed, RowChanged
       DEF Resting, Import!BuildIndex, Import!Is, Import!Current, Import!OnlyWorker, Adds,
          Keeps, AllButWorker, Hands

\* The larger of two numbers.
LEMMA MaxOfTwo ==
  ASSUME NEW a \in Nat, NEW b \in Nat
  PROVE  Import!Max({a, b}) \in Nat /\ Import!Max({a, b}) >= a /\ Import!Max({a, b}) >= b
<1> DEFINE m == IF a >= b THEN a ELSE b
<1>1. m \in {a, b} /\ \A y \in {a, b} : m >= y
  OBVIOUS
<1>2. Import!Max({a, b}) \in {a, b} /\ \A y \in {a, b} : Import!Max({a, b}) >= y
  BY <1>1 DEF Import!Max
<1> QED BY <1>2

\* A running row is copied, with a progress not below its own.
LEMMA ReadProgressDoes ==
  ASSUME Typed, Working, Import!ReadProgress
  PROVE  /\ importer.pc = "progress" /\ UNCHANGED AllButWorker /\ importer'.sum = importer.sum
         /\ \/ Moves("item", importer.at) /\ Keeps
            \/ /\ Moves("save progress", importer.at)
               /\ job[importer.job].status = "running"
               /\ importer'.copy.status = "running"
               /\ importer'.copy.summary = job[importer.job].summary
               /\ importer'.copy.processed >= job[importer.job].processed
               /\ importer'.copy.percent >= job[importer.job].percent
<1>1. importer.job \in Jobs /\ job[importer.job] \in Rows /\ importer.pc = "progress"
  BY HasJob DEF Import!ReadProgress, Import!Is, Resting
<1>2. CASE job[importer.job].status # "running"
  BY <1>1, <1>2, Parts DEF Import!ReadProgress, Import!Current, Import!OnlyWorker, Moves, Keeps,
     AllButWorker, Hands
<1>3. CASE job[importer.job].status = "running"
  <2> DEFINE row == job[importer.job]
             p == Import!Max({row.processed, importer.at})
             copy == [row EXCEPT !.processed = p, !.percent = p]
  <2>1. p \in Nat /\ p >= row.processed /\ p >= row.percent
    <3>1. row.processed \in Nat /\ row.percent \in Nat /\ row.percent <= row.processed /\ importer.at \in Nat
      BY <1>1, RowChanged, Parts
    <3> HIDE DEF row
    <3>2. p \in Nat /\ p >= row.processed
      BY <3>1, MaxOfTwo
    <3> HIDE DEF p
    <3> QED BY <3>1, <3>2
  <2> HIDE DEF p
  <2>2. /\ copy \in Rows /\ copy.status = "running" /\ copy.summary = row.summary
        /\ copy.processed = p /\ copy.percent = p
    <3>1. row \in Rows /\ row.status = "running"
      BY <1>1, <1>3
    <3> HIDE DEF row
    <3>2. copy \in Rows
      BY <2>1, <3>1, RowChanged
    <3> QED BY <3>1, <3>2 DEF Rows
  <2>3. importer' = [importer EXCEPT !.pc = "save progress", !.copy = copy]
    BY <1>1, <1>3 DEF Import!ReadProgress, Import!Current, p
  <2> HIDE DEF copy
  <2> QED BY <1>1, <1>3, <2>1, <2>2, <2>3, Parts
         DEF Import!ReadProgress, Import!OnlyWorker, Moves, AllButWorker, Hands
<1> QED BY <1>2, <1>3

\* The copy is written back.
LEMMA SaveProgressDoes ==
  ASSUME Typed, Working, Import!SaveProgress
  PROVE  /\ importer.pc = "save progress" /\ Moves("item", importer.at) /\ Keeps
         /\ Writes(importer.copy)
<1>1. importer.pc \notin Resting => importer.job \in Jobs /\ job[importer.job] \in Rows
  BY HasJob
<1> QED BY <1>1, Parts, Summed, RowChanged
       DEF Resting, Import!SaveProgress, Import!Is, Import!Current, Import!WorkerSaves,
          Import!SaveRow, Writes, Import!Goto, AllButRows, Moves, Adds, Keeps, Hands

\* A corrupt item is passed, an odd one counts as an error, any other is looked up.
LEMMA ReadItemDoes ==
  ASSUME Typed, Working, Import!ReadItem
  PROVE  /\ importer.pc = "item" /\ importer.at <= Len(Import!Items) /\ UNCHANGED AllButWorker
         /\ importer'.copy = importer.copy
         /\ \/ Import!Item = Corrupt /\ Moves("progress", importer.at + 1) /\ Keeps
            \/ Import!Item = Odd /\ Moves("progress", importer.at + 1) /\ Adds(0, 0, 1)
            \/ Sound(Import!Item) /\ Moves("session", importer.at) /\ Adds(0, 0, 0)
<1>1. importer.job \in Jobs /\ importer.pc = "item"
  BY HasJob DEF Import!ReadItem, Import!Is, Resting
<1>2. CASE Import!Item = Corrupt
  BY <1>1, <1>2, Parts DEF Import!ReadItem, Import!NextItem, Import!OnlyWorker, AllButWorker,
     Moves, Keeps, Hands
<1>3. CASE Import!Item # Corrupt
  <2> DEFINE s == [importer.sum EXCEPT !.found = @ + 1]
             t == [s EXCEPT !.errors = @ + 1]
  <2>1. s \in Sums /\ s.sessions = importer.sum.sessions /\ s.imported = importer.sum.imported
        /\ s.errors = importer.sum.errors
    BY Parts, Summed DEF Sums
  <2>2. t \in Sums /\ t.sessions = s.sessions /\ t.imported = s.imported /\ t.errors = s.errors + 1
    BY <2>1, Summed DEF Sums
  <2>4. CASE Import!Item = Odd
    <3>1. /\ Import!NextItem \in Hands /\ Import!NextItem.sum = importer.sum
          /\ Import!NextItem.pc = "progress"
          /\ Import!NextItem.at = importer.at + 1 /\ Import!NextItem.job = importer.job
          /\ Import!NextItem.index = importer.index /\ Import!NextItem.copy = importer.copy
      BY Parts DEF Import!NextItem, Hands
    <3>2. importer' = [Import!NextItem EXCEPT !.sum = t]
      BY <1>3, <2>4 DEF Import!ReadItem
    <3> HIDE DEF s, t
    <3>3. /\ importer.sum.sessions \in Nat /\ importer.sum.imported \in Nat
          /\ importer.sum.errors \in Nat
      BY Parts, Summed
    <3>4. Moves("progress", importer.at + 1) /\ importer'.copy = importer.copy /\ importer'.sum = t
      BY <1>1, <2>2, <3>1, <3>2 DEF Moves, Hands
    <3>5. Adds(0, 0, 1)
      BY <2>1, <2>2, <3>3, <3>4 DEF Adds
    <3> QED BY <1>1, <2>4, <3>4, <3>5 DEF Import!ReadItem, Import!OnlyWorker, AllButWorker
  <2>5. CASE Import!Item # Odd
    <3>1. importer' = [importer EXCEPT !.pc = "session", !.at = importer.at, !.sum = s]
      BY <1>3, <2>5, Parts DEF Import!ReadItem, Hands
    <3>2. /\ importer.sum.sessions \in Nat /\ importer.sum.imported \in Nat
          /\ importer.sum.errors \in Nat
      BY Parts, Summed
    <3> HIDE DEF s, t
    <3>3. importer'.copy = importer.copy /\ Moves("session", importer.at) /\ importer'.sum = s
      BY <1>1, <2>1, <3>1, Parts, Summing
    <3>4. Adds(0, 0, 0)
      BY <2>1, <3>2, <3>3 DEF Adds
    <3> QED BY <1>1, <1>3, <2>5, <3>3, <3>4
           DEF Import!ReadItem, Import!OnlyWorker, AllButWorker, Sound
  <2> QED BY <2>4, <2>5
<1> QED BY <1>2, <1>3

\* Behind the last item the reading ends, one way or the other.
LEMMA EndOfFileDoes ==
  ASSUME Typed, Working, Import!EndOfFile
  PROVE  /\ importer.pc = "item" /\ importer.at > Len(Import!Items) /\ UNCHANGED AllButWorker
         /\ Keeps
         /\ Moves("read end", importer.at) \/ Moves("read failed", importer.at)
<1>1. importer.pc \notin Resting => importer.job \in Jobs /\ job[importer.job] \in Rows
  BY HasJob
<1> QED BY <1>1, Parts, Summed, RowChanged
       DEF Resting, Import!EndOfFile, Import!Goto, Import!Is, Import!Current, Import!OnlyWorker,
          Moves, Adds, Keeps, AllButWorker, Hands

\* A session that exists is not created.
LEMMA FindSessionDoes ==
  ASSUME Typed, Working, Import!FindSession
  PROVE  /\ importer.pc = "session" /\ UNCHANGED AllButWorker /\ Adds(0, 0, 0)
         /\ importer'.copy = importer.copy
         /\ \/ Import!Item.conv \in sessions /\ Moves("messages", importer.at)
            \/ Import!Item.conv \notin sessions /\ Moves("new session", importer.at)
<1>1. importer.job \in Jobs /\ importer.pc = "session"
  BY HasJob DEF Import!FindSession, Import!Is, Resting
<1>2. importer.sum.sessions \in Nat /\ importer.sum.imported \in Nat /\ importer.sum.errors \in Nat
  BY Parts, Summed
<1>3. CASE Import!Item.conv \in sessions
  <2> DEFINE s == [importer.sum EXCEPT !.skipped = @ + 1]
  <2>1. s \in Sums /\ s.sessions = importer.sum.sessions /\ s.imported = importer.sum.imported
        /\ s.errors = importer.sum.errors
    BY Parts, Summed DEF Sums
  <2>2. importer' = [importer EXCEPT !.pc = "messages", !.at = importer.at, !.sum = s]
    BY <1>3, Parts DEF Import!FindSession, Hands
  <2> HIDE DEF s
  <2>3. Moves("messages", importer.at) /\ importer'.copy = importer.copy /\ importer'.sum = s
    BY <1>1, <2>1, <2>2, Parts, Summing
  <2>4. Adds(0, 0, 0)
    BY <1>2, <2>1, <2>3 DEF Adds
  <2> QED BY <1>1, <1>3, <2>3, <2>4 DEF Import!FindSession, Import!OnlyWorker, AllButWorker
<1>4. CASE Import!Item.conv \notin sessions
  <2>1. Moves("new session", importer.at) /\ Keeps
    BY <1>1, <1>4, Parts DEF Import!FindSession, Moves, Keeps, Hands
  <2>2. Adds(0, 0, 0)
    <3>1. \A n \in Nat : n + 0 = n
      OBVIOUS
    <3>2. /\ importer.sum.sessions + 0 = importer.sum.sessions
          /\ importer.sum.imported + 0 = importer.sum.imported
          /\ importer.sum.errors + 0 = importer.sum.errors
      BY <1>2, <3>1
    <3> QED BY <2>1, <3>2 DEF Adds, Keeps
  <2> QED BY <1>1, <1>4, <2>1, <2>2 DEF Import!FindSession, Import!OnlyWorker, AllButWorker, Keeps
<1> QED BY <1>3, <1>4

\* A session is created and counted.
LEMMA NewSessionDoes ==
  ASSUME Typed, Working, Import!NewSession
  PROVE  /\ importer.pc = "new session" /\ Moves("messages", importer.at)
         /\ Adds(1, 0, 0) /\ importer'.copy = importer.copy
         /\ sessions' = sessions \cup {Import!Item.conv}
         /\ UNCHANGED <<request, archive, job, messages, status, recovering, struck, removed, stale>>
<1>1. importer.job \in Jobs /\ importer.pc = "new session"
  BY HasJob DEF Import!NewSession, Import!Is, Resting
<1>2. importer.sum.sessions \in Nat /\ importer.sum.imported \in Nat /\ importer.sum.errors \in Nat
  BY Parts, Summed
<1> DEFINE s == [importer.sum EXCEPT !.sessions = @ + 1]
<1>3. s \in Sums /\ s.sessions = importer.sum.sessions + 1 /\ s.imported = importer.sum.imported
      /\ s.errors = importer.sum.errors
  BY Parts, Summed DEF Sums
<1>4. importer' = [importer EXCEPT !.pc = "messages", !.at = importer.at, !.sum = s]
  BY Parts DEF Import!NewSession, Hands
<1> HIDE DEF s
<1>5. Moves("messages", importer.at) /\ importer'.copy = importer.copy /\ importer'.sum = s
  BY <1>1, <1>3, <1>4, Parts, Summing
<1>6. Adds(1, 0, 0)
  BY <1>2, <1>3, <1>5 DEF Adds
<1> QED BY <1>1, <1>5, <1>6 DEF Import!NewSession

\* The messages that are new are written and counted.
LEMMA AddMessagesDoes ==
  ASSUME Typed, Working, Import!AddMessages, IsFiniteSet(Import!ItemMessages \ DOMAIN messages)
  PROVE  /\ importer.pc = "messages" /\ importer'.copy = importer.copy
         /\ Adds(0, Cardinality(Import!ItemMessages \ DOMAIN messages), 0)
         /\ \/ /\ Import!ItemMessages \ DOMAIN messages = Import!ItemMessages
               /\ Moves("progress", importer.at + 1)
            \/ Moves("rewrite", importer.at)
         /\ messages' = Import!Written(Import!ItemMessages \ DOMAIN messages)
         /\ UNCHANGED <<request, archive, job, sessions, status, recovering, struck, removed, stale>>
<1>1. importer.job \in Jobs /\ importer.pc = "messages"
  BY HasJob DEF Import!AddMessages, Import!Is, Resting
<1>2. importer.sum.sessions \in Nat /\ importer.sum.imported \in Nat /\ importer.sum.errors \in Nat
  BY Parts, Summed
<1> DEFINE new == Import!ItemMessages \ DOMAIN messages
           k == Cardinality(new)
           s == [importer.sum EXCEPT !.imported = @ + k]
<1>3. k \in Nat
  BY FS_CardinalityType
<1> HIDE DEF k
<1>4. s \in Sums /\ s.sessions = importer.sum.sessions /\ s.imported = importer.sum.imported + k
      /\ s.errors = importer.sum.errors
  BY <1>3, Parts, Summed DEF Sums
<1> HIDE DEF new, s
<1>5. CASE new = Import!ItemMessages
  <2>1. importer' = [importer EXCEPT !.pc = "progress", !.at = importer.at + 1, !.sum = s]
    BY <1>5, Parts, Counting DEF Import!AddMessages, Import!NextItem, Hands, s, k, new
  <2>2. Moves("progress", importer.at + 1) /\ importer'.copy = importer.copy /\ importer'.sum = s
    BY <1>1, <1>4, <2>1, Parts, Summing
  <2>3. Adds(0, k, 0)
    BY <1>2, <1>3, <1>4, <2>2 DEF Adds
  <2> QED BY <1>1, <1>5, <2>2, <2>3 DEF Import!AddMessages, new, k
<1>6. CASE new # Import!ItemMessages
  <2>1. importer' = [importer EXCEPT !.pc = "rewrite", !.at = importer.at, !.sum = s]
    BY <1>6, Parts, Counting DEF Import!AddMessages, Hands, s, k, new
  <2>2. Moves("rewrite", importer.at) /\ importer'.copy = importer.copy /\ importer'.sum = s
    BY <1>1, <1>4, <2>1, Parts, Summing
  <2>3. Adds(0, k, 0)
    BY <1>2, <1>3, <1>4, <2>2 DEF Adds
  <2> QED BY <1>1, <2>2, <2>3 DEF Import!AddMessages, new, k
<1> QED BY <1>5, <1>6

\* The messages with an image are written again.
LEMMA RewriteImagesDoes ==
  ASSUME Typed, Working, Import!RewriteImages
  PROVE  /\ importer.pc = "rewrite" /\ Keeps /\ Moves("progress", importer.at + 1)
         /\ messages' = Import!Written(Import!ItemMessages \cap Images)
         /\ UNCHANGED <<request, archive, job, sessions, status, recovering, struck, removed, stale>>
<1>1. importer.pc \notin Resting => importer.job \in Jobs /\ job[importer.job] \in Rows
  BY HasJob
<1> QED BY <1>1, Parts, Summed, RowChanged
       DEF Resting, Import!RewriteImages, Import!NextItem, Import!Is, Import!Current, Moves,
          Adds, Keeps, Hands

\* The row is read for the last write.
LEMMA ReadEndDoes ==
  ASSUME Typed, Working, Import!ReadEnd
  PROVE  /\ \/ importer.pc = "read end" /\ Moves("complete", importer.at)
            \/ importer.pc = "read failed" /\ Moves("fail", importer.at)
         /\ importer'.copy = job[importer.job] /\ importer'.sum = importer.sum
         /\ UNCHANGED AllButWorker
<1>1. importer.pc \notin Resting => importer.job \in Jobs /\ job[importer.job] \in Rows
  BY HasJob
<1> QED BY <1>1, Parts, Summed, RowChanged
       DEF Resting, Import!ReadEnd, Import!Audit, Import!Goto, Import!Is, Import!Current, Import!OnlyWorker, Moves, Adds,
          Keeps, AllButWorker, Hands

\* The audit event is stored.
LEMMA AuditDoes ==
  ASSUME Typed, Working, Import!Audit
  PROVE  importer.pc = "audit" /\ Moves("release", importer.at) /\ Keeps /\ UNCHANGED AllButWorker
<1>1. importer.pc \notin Resting => importer.job \in Jobs /\ job[importer.job] \in Rows
  BY HasJob
<1> QED BY <1>1, Parts DEF Resting, Import!Audit, Import!Goto, Import!Is, Import!OnlyWorker,
       Moves, Keeps, AllButWorker, Hands

\* The copy is written back as failed.
LEMMA FailDoes ==
  ASSUME Typed, Working, Import!Fail
  PROVE  /\ importer.pc = "fail" /\ Moves("release", importer.at) /\ Keeps
         /\ Writes([importer.copy EXCEPT !.status = "failed"])
<1>1. importer.pc \notin Resting => importer.job \in Jobs /\ job[importer.job] \in Rows
  BY HasJob
<1> QED BY <1>1, Parts, Summed, RowChanged
       DEF Resting, Import!Fail, Import!Is, Import!Current, Import!WorkerSaves, Import!SaveRow,
          Writes, Import!Goto, AllButRows, Moves, Adds, Keeps, Hands

\* The worker has no job any more, and the job is free.
LEMMA ReleaseDoes ==
  ASSUME Typed, Working, Import!Release
  PROVE  /\ importer.pc \in Leaving /\ importer.job \in Jobs
         /\ importer' \in Hands /\ importer'.pc \in Resting /\ importer'.job = NoJob
         /\ importer'.copy = Import!NoRow /\ importer'.sum = Import!NoSummary
         /\ status' = [status EXCEPT ![importer.job] = "free"]
         /\ UNCHANGED <<request, archive, job, sessions, messages, recovering, struck, removed, stale>>
<1>1. importer.pc \notin Resting => importer.job \in Jobs /\ job[importer.job] \in Rows
  BY HasJob
<1> QED BY <1>1, Parts, Beginnings DEF Resting, Import!Release, Import!Queue!Release, Import!Is,
       Import!Current, Import!Idle, Leaving, Hands

\* A raised call breaks the job off: the thread ends, the job fails, or the item
\* is passed with an error.
LEMMA StoreRaisesDoes ==
  ASSUME Typed, Working, Import!StoreRaises
  PROVE  /\ importer'.copy = importer.copy /\ struck' = struck \cup {importer.job}
         /\ UNCHANGED <<request, archive, job, sessions, messages, status, recovering, removed, stale>>
         /\ \/ /\ importer.pc \in {"read", "start", "read failed", "fail"}
               /\ Moves("release and die", importer.at) /\ Keeps
            \/ /\ importer.pc \in {"session", "new session", "messages", "rewrite"}
               /\ Moves("progress", importer.at + 1) /\ Adds(0, 0, 1)
            \/ /\ importer.pc \in {"index", "progress", "save progress", "read end", "complete", "audit"}
               /\ Moves("read failed", importer.at) /\ Keeps
<1> DEFINE p == importer.pc
<1>1. importer.job \in Jobs
  BY HasJob DEF Import!StoreRaises, Resting
<1> importer \in Hands
  BY DEF Typed
<1>2. CASE p \in {"read", "start", "read failed", "fail"}
  BY <1>1, <1>2, Parts DEF Import!StoreRaises, Import!Current, Moves, Keeps, Hands
<1>3. CASE p \in {"session", "new session", "messages", "rewrite"}
  <2> DEFINE s == [importer.sum EXCEPT !.errors = @ + 1]
  <2>1. /\ importer.sum.sessions \in Nat /\ importer.sum.imported \in Nat
        /\ importer.sum.errors \in Nat
    BY Parts, Summed
  <2>2. s \in Sums /\ s.sessions = importer.sum.sessions /\ s.imported = importer.sum.imported
        /\ s.errors = importer.sum.errors + 1
    BY Parts, Summed DEF Sums
  <2>3. importer' = [importer EXCEPT !.pc = "progress", !.at = importer.at + 1, !.sum = s]
    BY <1>3, Parts DEF Import!StoreRaises, Import!NextItem, Hands
  <2> HIDE DEF s
  <2>4. Moves("progress", importer.at + 1) /\ importer'.copy = importer.copy /\ importer'.sum = s
    BY <1>1, <2>2, <2>3, Parts, Summing
  <2>5. Adds(0, 0, 1)
    BY <2>1, <2>2, <2>4 DEF Adds
  <2> QED BY <1>1, <1>3, <2>4, <2>5 DEF Import!StoreRaises, Import!Current
<1>4. CASE p \in {"index", "progress", "save progress", "read end", "complete", "audit"}
  BY <1>1, <1>4 DEF Import!StoreRaises, Import!Current, Moves, Adds, Keeps, Hands
<1> QED BY <1>2, <1>3, <1>4 DEF Import!StoreRaises, Hands

\* The row is completed, with the summary of the worker.
LEMMA CompleteDoes ==
  ASSUME Typed, Working, Import!Complete, Len(Import!Items) \in Nat
  PROVE  /\ importer.pc = "complete" /\ Moves("audit", importer.at) /\ Keeps
         /\ \E p \in Nat :
              /\ p >= importer.copy.processed
              /\ Writes([status |-> "completed", processed |-> p, percent |-> p, summary |-> importer.sum])
<1>1. importer.job \in Jobs /\ importer.pc = "complete"
  BY HasJob DEF Import!Complete, Import!Is, Resting
<1> DEFINE p == Import!Max({importer.copy.processed, Len(Import!Items)})
<1>2. p \in Nat /\ p >= importer.copy.processed
  BY Parts, RowChanged, MaxOfTwo
<1> HIDE DEF p
<1>3. [status |-> "completed", processed |-> p, percent |-> p, summary |-> importer.sum] \in Rows
  BY <1>2, Parts DEF Rows
<1>4. Moves("audit", importer.at) /\ Keeps
  BY <1>1, Parts DEF Import!Complete, Import!Goto, Moves, Keeps, Hands
<1>5. Writes([status |-> "completed", processed |-> p, percent |-> p, summary |-> importer.sum])
  BY <1>3 DEF Import!Complete, Import!SaveRow, Import!Current, Import!WorkerSaves, Writes,
     AllButRows, p
<1> QED BY <1>1, <1>2, <1>4, <1>5

-----------------------------------------------------------------------------
(* What the requests, the recovery and the rest do                         *)
-----------------------------------------------------------------------------
\* The worker has a job that was queued.
LEMMA TakeDoes ==
  ASSUME Import!ImportAssumption, Typed, NEW j \in Jobs, Import!Take(j)
  PROVE  /\ importer.pc = "idle" /\ status[j] = "queued"
         /\ \A i \in Jobs : status[i] # "importer"
         /\ status' = [status EXCEPT ![j] = "importer"]
         /\ importer' \in Hands /\ importer'.pc = "read" /\ importer'.job = j
         /\ importer'.copy = Import!NoRow /\ importer'.sum = Import!NoSummary
         /\ UNCHANGED <<request, archive, job, sessions, messages, recovering, struck, removed, stale>>
BY Beginnings DEF Import!Take, Import!Queue!Take, Import!Queue!Held, Import!Worker, Import!Is,
   Import!Idle, Hands

\* put, and what it does to a dead worker.
LEMMA PutDoes ==
  ASSUME Typed, NEW j \in Jobs, Import!Put(j)
  PROVE  /\ status' \in [Jobs -> Places] /\ status'[j] # "free"
         /\ \A i \in Jobs : i # j => status'[i] = status[i]
         /\ IF status[j] = "free" THEN status'[j] = "queued" ELSE status' = status
BY DEF Import!Put, Import!Queue!Enqueue, Typed, Places

\* A dead worker is idle again, any other stays as it is.
LEMMA RevivedDoes ==
  ASSUME Typed, Working, Import!Revived
  PROVE  /\ importer' \in Hands /\ importer'.job = importer.job
         /\ \/ importer' = importer
            \/ importer.pc = "dead" /\ importer'.pc = "idle" /\ importer' = Import!Idle
<1>1. CASE importer.pc = "dead"
  <2>1. importer' = Import!Idle /\ importer.job = NoJob
    BY <1>1 DEF Import!Revived, Working, Resting
  <2>2. Import!Idle.pc = "idle" /\ Import!Idle.job = NoJob
    BY DEF Import!Idle
  <2> QED BY <1>1, <2>1, <2>2, Beginnings
<1>2. CASE importer.pc # "dead"
  BY <1>2, Parts DEF Import!Revived
<1> QED BY <1>1, <1>2

\* A death leaves the worker idle, ends the requests and starts the recovery.
LEMMA CrashDoes ==
  ASSUME Typed, Working, Import!Crash
  PROVE  /\ importer' = Import!Idle /\ recovering' = <<Import!Listing>>
         /\ request' \in [Jobs -> Requests]
         /\ \A j \in Jobs :
              /\ request'[j].pc = IF request[j].pc = "none" THEN "none" ELSE "done"
              /\ request[j].pc # "none" => request'[j].path = request[j].path
         /\ \/ ~Durable /\ status' = [j \in Jobs |-> "free"] /\ struck' = struck
            \/ /\ Durable
               /\ struck' = IF importer.job = NoJob THEN struck ELSE struck \cup {importer.job}
               /\ status' = IF importer.job = NoJob THEN status
                            ELSE [status EXCEPT ![importer.job] = "reserved"]
         /\ UNCHANGED <<archive, job, sessions, messages, removed, stale>>
<1>1. \A j \in Jobs : request[j] \in Requests
  BY DEF Typed
<1>2. request' \in [Jobs -> Requests]
  BY <1>1, Beginnings DEF Import!Crash, Requests
<1>3. \A j \in Jobs :
        /\ request'[j].pc = IF request[j].pc = "none" THEN "none" ELSE "done"
        /\ request[j].pc # "none" => request'[j].path = request[j].path
  BY <1>1 DEF Import!Crash, Requests, Import!NoRequest
<1>4. CASE ~Durable
  BY <1>2, <1>3, <1>4 DEF Import!Crash, Import!Queue!Forget
<1>5. CASE Durable
  BY <1>2, <1>3, <1>5 DEF Import!Crash, Import!Queue!Abandon, Import!Current
<1> QED BY <1>4, <1>5

\* A finite set as a sequence: each element once.
LEMMA Listed ==
  ASSUME NEW S, IsFiniteSet(S)
  PROVE  /\ Cardinality(S) \in Nat
         /\ Import!SetToSeq(S) \in [1 .. Cardinality(S) -> S]
         /\ \A m, n \in 1 .. Cardinality(S) : Import!SetToSeq(S)[m] = Import!SetToSeq(S)[n] => m = n
         /\ \A x \in S : \E n \in 1 .. Cardinality(S) : Import!SetToSeq(S)[n] = x
<1> DEFINE k == Cardinality(S)
           f == Import!SetToSeq(S)
<1>1. k \in Nat /\ IsFiniteSet(1 .. k) /\ Cardinality(1 .. k) = k
  BY FS_CardinalityType, FS_Interval
<1>2. ExistsBijection(1 .. k, S)
  BY FS_CardinalityType
<1>3. PICK g \in Bijection(1 .. k, S) : TRUE
  BY <1>2 DEF ExistsBijection
<1>4. g \in [1 .. k -> S] /\ IsInjective(g)
  BY <1>3 DEF Bijection, Injection, IsInjective
<1>5. f \in [1 .. k -> S] /\ IsInjective(f)
  BY <1>4, Counting DEF Import!SetToSeq, Import!IsInjective, IsInjective
<1>6. \A m, n \in 1 .. k : f[m] = f[n] => m = n
  BY <1>5 DEF IsInjective
<1> HIDE DEF k, f
<1>7. f \in Injection(1 .. k, S)
  BY <1>5, <1>6 DEF Injection
<1>8. f \in Surjection(1 .. k, S)
  BY <1>1, <1>7, FS_Injection DEF k
<1>9. \A x \in S : \E n \in 1 .. k : f[n] = x
  BY <1>8 DEF Surjection
<1> QED BY <1>1, <1>5, <1>6, <1>9 DEF k, f

\* Each job that had not ended gets one entry, with its row.
LEMMA RecoverListDoes ==
  ASSUME Import!ImportAssumption, Typed, Import!RecoverList
  PROVE  /\ recovering # <<>> /\ recovering[1].pc = "list"
         /\ recovering' \in Seq(Entries)
         /\ \A n \in DOMAIN recovering' :
              /\ recovering'[n].job \in Jobs /\ recovering'[n].pc = "row"
              /\ recovering'[n].row = job[recovering'[n].job]
              /\ recovering'[n].row.status \in {"pending", "running"}
              /\ \A m \in DOMAIN recovering' : recovering'[m].job = recovering'[n].job => m = n
         /\ \A j \in Jobs : job[j].status \in {"pending", "running"} =>
              \E n \in DOMAIN recovering' : recovering'[n].job = j
         /\ UNCHANGED <<request, archive, job, sessions, messages, status, importer, struck,
                        removed, stale>>
<1> DEFINE U == Import!Unended({"pending", "running"})
           k == Cardinality(U)
           s == Import!SetToSeq(U)
<1>1. U \subseteq Jobs /\ IsFiniteSet(U)
  BY FS_Subset, Counting DEF Import!Unended, Import!ImportAssumption
<1>2. /\ k \in Nat /\ s \in [1 .. k -> U]
      /\ \A m, n \in 1 .. k : s[m] = s[n] => m = n
      /\ \A x \in U : \E n \in 1 .. k : s[n] = x
  BY <1>1, Listed
<1>3. recovering' = [n \in 1 .. k |-> [job |-> s[n], row |-> job[s[n]], pc |-> "row"]]
  BY Counting DEF Import!RecoverList, Import!Recovery
<1>4. \A j \in U : j \in Jobs /\ job[j] \in Rows /\ job[j].status \in {"pending", "running"}
  BY DEF Import!Unended, Typed
<1> HIDE DEF k, s
<1>5. \A n \in 1 .. k : recovering'[n] \in Entries
  BY <1>2, <1>3, <1>4 DEF Entries
<1>6. recovering' \in Seq(Entries) /\ DOMAIN recovering' = 1 .. k
  <2>1. DOMAIN recovering' = 1 .. k
    BY <1>3
  <2>2. recovering' \in [1 .. k -> Entries]
    BY <1>3, <1>5
  <2> QED BY <1>2, <2>1, <2>2 
<1>7. \A n \in 1 .. k : /\ recovering'[n].job = s[n] /\ recovering'[n].row = job[s[n]]
                        /\ recovering'[n].pc = "row"
  BY <1>3
<1>8. \A j \in Jobs : job[j].status \in {"pending", "running"} => j \in U
  BY DEF Import!Unended
<1>9. recovering # <<>> /\ recovering[1].pc = "list"
  BY DEF Import!RecoverList, Typed
<1>10. UNCHANGED <<request, archive, job, sessions, messages, status, importer, struck, removed,
   stale>>
  BY DEF Import!RecoverList
<1> HIDE DEF U
<1>11. \A n \in 1 .. k : s[n] \in U
  BY <1>2
<1> QED BY <1>2, <1>4, <1>6, <1>7, <1>8, <1>9, <1>10, <1>11

\* The first entry is next to be put; a job that ran is pending by its row.
LEMMA RecoverRowDoes ==
  ASSUME Typed, Import!RecoverRow
  PROVE  /\ recovering # <<>> /\ recovering[1].pc = "row" /\ recovering[1] \in Entries
         /\ recovering' \in Seq(Entries) /\ DOMAIN recovering' = DOMAIN recovering
         /\ recovering'[1].pc = "put" /\ recovering'[1].job = recovering[1].job
         /\ recovering'[1].row = recovering[1].row
         /\ \A n \in DOMAIN recovering : n # 1 => recovering'[n] = recovering[n]
         /\ IF recovering[1].row.status = "running"
            THEN /\ job' = [job EXCEPT ![recovering[1].job] = [recovering[1].row EXCEPT !.status = "pending"]]
                 /\ stale' = IF job[recovering[1].job] = recovering[1].row THEN stale
                             ELSE stale \cup {recovering[1].job}
            ELSE job' = job /\ stale' = stale
         /\ UNCHANGED <<request, archive, sessions, messages, status, importer, struck, removed>>
<1>1. recovering \in Seq(Entries) /\ recovering # <<>> /\ 1 \in DOMAIN recovering
  BY DEF Import!RecoverRow, Typed
<1>2. recovering[1] \in Entries /\ Head(recovering) = recovering[1]
  BY <1>1
<1>3. [recovering[1] EXCEPT !.pc = "put"] \in Entries
  BY <1>2 DEF Entries
<1>4. recovering' = [recovering EXCEPT ![1] = [recovering[1] EXCEPT !.pc = "put"]]
  BY <1>1 DEF Import!RecoverRow
<1>5. recovering' \in Seq(Entries) /\ DOMAIN recovering' = DOMAIN recovering
  BY <1>1, <1>3, <1>4
<1>6. /\ recovering'[1] = [recovering[1] EXCEPT !.pc = "put"]
      /\ \A n \in DOMAIN recovering : n # 1 => recovering'[n] = recovering[n]
  BY <1>1, <1>4
<1>7. /\ recovering'[1].pc = "put" /\ recovering'[1].job = recovering[1].job
      /\ recovering'[1].row = recovering[1].row
  BY <1>2, <1>6 DEF Entries
<1> QED BY <1>1, <1>2, <1>5, <1>6, <1>7 DEF Import!RecoverRow

\* The first entry is gone, and its job is in flight.
LEMMA RecoverPutDoes ==
  ASSUME Typed, Import!RecoverPut
  PROVE  /\ recovering # <<>> /\ recovering[1].pc = "put" /\ recovering[1] \in Entries
         /\ recovering' \in Seq(Entries)
         /\ \A n \in DOMAIN recovering' : n + 1 \in DOMAIN recovering /\ recovering'[n] = recovering[n + 1]
         /\ \A n \in DOMAIN recovering : n # 1 => n - 1 \in DOMAIN recovering'
                                                  /\ recovering'[n - 1] = recovering[n]
         /\ Import!Put(recovering[1].job) /\ Import!Revived
         /\ stale' = stale \cup ({recovering[1].job} \ Import!Unended({"pending", "running"}))
         /\ UNCHANGED <<request, archive, job, sessions, messages, struck, removed>>
<1>1. recovering \in Seq(Entries) /\ recovering # <<>> /\ 1 \in DOMAIN recovering
  BY DEF Import!RecoverPut, Typed
<1>2. recovering[1] \in Entries /\ Head(recovering) = recovering[1]
  BY <1>1
<1>3. recovering' = Tail(recovering) /\ recovering' \in Seq(Entries)
  BY <1>1 DEF Import!RecoverPut
<1>4. \A n \in DOMAIN recovering' : n + 1 \in DOMAIN recovering /\ recovering'[n] = recovering[n + 1]
  BY <1>1, <1>3
<1>5. \A n \in DOMAIN recovering : n # 1 => n - 1 \in DOMAIN recovering' /\ recovering'[n - 1] = recovering[n]
  BY <1>1, <1>3
<1> QED BY <1>1, <1>2, <1>3, <1>4, <1>5 DEF Import!RecoverPut

\* The job of a request, and of the worker, has its export on the disk.
LEMMA Exported ==
  ASSUME Import!ImportAssumption, IInv, NEW j \in Jobs, request[j].pc # "none"
  PROVE  /\ request[j].path \in DOMAIN archive /\ ExportOf(j) \in Exports
         /\ ExportOf(j).zip \in BOOLEAN
         /\ Len(ExportOf(j).items) \in Nat
         /\ DOMAIN ExportOf(j).items = 1 .. Len(ExportOf(j).items)
         /\ \A n \in DOMAIN ExportOf(j).items : Sound(ExportOf(j).items[n]) =>
              ExportOf(j).items[n].conv \in Convs /\ IsFiniteSet(ExportOf(j).items[n].msgs)
<1>1. request[j].path \in DOMAIN archive
  BY DEF IInv, Requested, Ready
<1>2. archive[request[j].path].export \in Exports
  BY <1>1 DEF IInv, Typed
<1> DEFINE e == archive[request[j].path].export
<1>3. e \in Exports /\ ExportOf(j) = e
  BY <1>2 DEF ExportOf
<1> HIDE DEF e
<1>4. e.zip \in BOOLEAN /\ e.items \in Seq(Import!Range(e.items))
  BY <1>3 DEF Import!ImportAssumption
<1>5. Len(e.items) \in Nat /\ DOMAIN e.items = 1 .. Len(e.items)
  BY <1>4
<1>6. \A n \in DOMAIN e.items : Sound(e.items[n]) => e.items[n].conv \in Convs /\ IsFiniteSet(e.items[n].msgs)
  BY <1>3, Counting DEF Import!ImportAssumption, Import!Sound, Sound
<1> QED BY <1>1, <1>3, <1>4, <1>5, <1>6

\* The job in hand has its row and its export.
LEMMA Held ==
  ASSUME Import!ImportAssumption, IInv, importer.job \in Jobs
  PROVE  /\ request[importer.job].pc = "done" /\ status[importer.job] = "importer"
         /\ job[importer.job].status # "none" /\ job[importer.job] \in Rows
         /\ Import!Items = ExportOf(importer.job).items
         /\ Len(Import!Items) \in Nat /\ DOMAIN Import!Items = 1 .. Len(Import!Items)
<1>1. status[importer.job] = "importer"
  BY DEF IInv, Working
<1>2. request[importer.job].pc = "done" /\ job[importer.job].status # "none"
  BY <1>1 DEF IInv, Requested, Ready
<1>3. job[importer.job] \in Rows
  BY DEF IInv, Typed
<1> QED BY <1>1, <1>2, <1>3, Exported DEF Import!Items, Import!Current, Import!ExportOf, ExportOf

\* The item at hand.
LEMMA AtItem ==
  ASSUME Import!ImportAssumption, IInv, importer.job \in Jobs,
         importer.pc \in {"session", "new session", "messages", "rewrite"}
  PROVE  /\ importer.at \in DOMAIN Import!Items /\ Sound(Import!Item)
         /\ Import!Item = ExportOf(importer.job).items[importer.at]
         /\ Import!Item.conv \in Convs /\ IsFiniteSet(Import!Item.msgs)
         /\ IsFiniteSet(Import!ItemMessages)
<1>1. importer.at \in DOMAIN Import!Items /\ Sound(Import!Item)
  BY DEF IInv, Stored
<1>2. Import!Item = ExportOf(importer.job).items[importer.at]
  BY Held DEF Import!Item
<1>3. Import!Item.conv \in Convs /\ IsFiniteSet(Import!Item.msgs)
  BY <1>1, <1>2, Held, Exported
<1> DEFINE f == [m \in Import!Item.msgs |-> <<Import!Item.conv, m>>]
<1>4. f \in Surjection(Import!Item.msgs, Import!ItemMessages)
  BY DEF Import!ItemMessages, Surjection
<1>5. IsFiniteSet(Import!ItemMessages)
  BY <1>3, <1>4, FS_Surjection
<1> QED BY <1>1, <1>2, <1>3, <1>5

\* Messages that are written are typed, and the others stay.
LEMMA WrittenTyped ==
  ASSUME IInv, NEW ms, IsFiniteSet(ms), messages' = Import!Written(ms)
  PROVE  /\ IsFiniteSet(DOMAIN messages') /\ DOMAIN messages' = DOMAIN messages \cup ms
         /\ messages' \in [DOMAIN messages' -> {"text", "broken", "linked"}]
         /\ \A m \in ms : messages'[m] = Import!Text(m)
         /\ \A m \in DOMAIN messages \ ms : messages'[m] = messages[m]
<1>1. IsFiniteSet(DOMAIN messages) /\ messages \in [DOMAIN messages -> {"text", "broken", "linked"}]
  BY DEF IInv, Typed
<1>2. DOMAIN messages' = DOMAIN messages \cup ms
  BY DEF Import!Written
<1>3. IsFiniteSet(DOMAIN messages')
  BY <1>1, <1>2, FS_Union
<1>4. \A m : Import!Text(m) \in {"text", "broken", "linked"}
  BY DEF Import!Text
<1>5. \A m \in DOMAIN messages' : messages'[m] = IF m \in ms THEN Import!Text(m) ELSE messages[m]
  BY DEF Import!Written
<1>6. \A m \in DOMAIN messages' : messages'[m] \in {"text", "broken", "linked"}
  BY <1>1, <1>2, <1>4, <1>5
<1>7. messages' = [m \in DOMAIN messages' |-> messages'[m]]
  BY DEF Import!Written
<1> QED BY <1>2, <1>3, <1>5, <1>6, <1>7

\* A row that is written changes no other.
LEMMA WroteTyped ==
  ASSUME Typed, NEW row, Writes(row), importer.job \in Jobs
  PROVE  job' \in [Jobs -> Rows] /\ job'[importer.job] = row
         /\ \A j \in Jobs : j # importer.job => job'[j] = job[j]
BY DEF Typed, Writes

\* The state stays well typed.
LEMMA TypedRequests ==
  ASSUME IInv, NEW j \in Jobs,
         \/ \E e \in Exports : Import!Upload(j, e)
         \/ \E a \in DOMAIN archive : Import!FromFile(j, a)
         \/ Import!Request(j) \/ Import!RequestFails(j)
  PROVE  Typed'
<1>1. Typed /\ request[j] \in Requests
  BY DEF IInv, Typed
<1>2. ASSUME NEW e \in Exports, Import!Upload(j, e) PROVE Typed'
  <2>1. [pc |-> IF e.zip THEN "list" ELSE "save", path |-> j, registers |-> FALSE] \in Requests
    BY DEF Requests
  <2>2. request' \in [Jobs -> Requests]
    BY <1>1, <1>2, <2>1 DEF Import!Upload, Typed
  <2>3. /\ DOMAIN archive' = DOMAIN archive \cup {j}
        /\ archive' \in [DOMAIN archive' -> [export : Exports, rows : Nat]]
    BY <1>1, <1>2 DEF Import!Upload, Typed
  <2> QED BY <1>1, <1>2, <2>2, <2>3 DEF Import!Upload, Typed
<1>3. ASSUME NEW a \in DOMAIN archive, Import!FromFile(j, a) PROVE Typed'
  <2>1. a \in Jobs
    BY <1>1 DEF Typed
  <2>2. [pc |-> IF archive[a].export.zip THEN "list" ELSE "save", path |-> a, registers |-> FALSE] \in Requests
    BY <2>1 DEF Requests
  <2>3. request' \in [Jobs -> Requests]
    BY <1>1, <1>3, <2>2 DEF Import!FromFile, Typed
  <2> QED BY <1>1, <1>3, <2>3 DEF Import!FromFile, Typed
<1>4. CASE Import!ListEntries(j)
  <2>1. [request[j] EXCEPT !.pc = "entries", !.registers = (archive[request[j].path].rows = 0)] \in Requests
    BY <1>1 DEF Requests
  <2>2. request' = [request EXCEPT ![j] = [request[j] EXCEPT !.pc = "entries", !.registers = (archive[request[j].path].rows = 0)]]
    BY <1>1, <1>4 DEF Import!ListEntries, Typed
  <2>3. request' \in [Jobs -> Requests]
    BY <1>1, <2>1, <2>2 DEF Typed
  <2> QED BY <1>1, <1>4, <2>3 DEF Import!ListEntries, Typed
<1>5. \A p \in {"save", "put", "done"} : [request[j] EXCEPT !.pc = p] \in Requests
  BY <1>1 DEF Requests
<1>6. CASE Import!CreateEntries(j)
  <2>1. request[j].path \in DOMAIN archive
    BY <1>6 DEF Import!CreateEntries, IInv, Requested, Ready
  <2> DEFINE a == request[j].path
             n == archive[a].rows + (IF request[j].registers THEN 1 ELSE 0)
  <2>2. archive[a] \in [export : Exports, rows : Nat]
    BY <1>1, <2>1 DEF Typed
  <2>3. archive[a].rows \in Nat
    BY <2>2
  <2>4. n \in Nat
    BY <2>3
  <2>5. archive' = [archive EXCEPT ![a].rows = n]
    BY <1>6 DEF Import!CreateEntries
  <2> HIDE DEF n
  <2>6. [archive[a] EXCEPT !.rows = n] \in [export : Exports, rows : Nat]
    BY <2>2, <2>4
  <2>7. /\ DOMAIN archive' = DOMAIN archive
        /\ archive' \in [DOMAIN archive -> [export : Exports, rows : Nat]]
    BY <1>1, <2>1, <2>5, <2>6 DEF Typed
  <2>8. request' \in [Jobs -> Requests]
    BY <1>1, <1>5, <1>6 DEF Import!CreateEntries, Typed
  <2> QED BY <1>1, <1>6, <2>7, <2>8 DEF Import!CreateEntries, Typed
<1>7. CASE Import!SaveJob(j)
  <2>1. [Import!NoRow EXCEPT !.status = "pending"] \in Rows
    BY Beginnings, RowChanged
  <2>2. request' \in [Jobs -> Requests] /\ job' \in [Jobs -> Rows]
    BY <1>1, <1>5, <1>7, <2>1 DEF Import!SaveJob, Typed
  <2> QED BY <1>1, <1>7, <2>2 DEF Import!SaveJob, Typed
<1>8. CASE Import!Enqueue(j)
  <2>1. request' \in [Jobs -> Requests]
    BY <1>1, <1>5, <1>8 DEF Import!Enqueue, Typed
  <2>2. status' \in [Jobs -> Places] /\ importer' \in Hands
    BY <1>1, <1>8, PutDoes, RevivedDoes DEF Import!Enqueue, IInv
  <2> QED BY <1>1, <1>8, <2>1, <2>2 DEF Import!Enqueue, Typed
<1>9. CASE Import!RequestFails(j)
  <2>1. request' \in [Jobs -> Requests]
    BY <1>1, <1>5, <1>9 DEF Import!RequestFails, Typed
  <2> QED BY <1>1, <1>9, <2>1 DEF Import!RequestFails, Typed
<1> QED BY <1>2, <1>3, <1>4, <1>6, <1>7, <1>8, <1>9 DEF Import!Request

\* The steps of the worker keep the types.
LEMMA TypedWorker ==
  ASSUME Import!ImportAssumption, IInv, Import!Import \/ Import!StoreRaises
  PROVE  Typed'
<1>1. Typed /\ Working
  BY DEF IInv
<1>2. ASSUME importer' \in Hands, UNCHANGED AllButWorker PROVE Typed'
  BY <1>1, <1>2 DEF Typed, AllButWorker
<1>3. CASE Import!ReadJob \/ Import!BuildIndex \/ Import!ReadProgress \/ Import!ReadItem
             \/ Import!EndOfFile \/ Import!FindSession \/ Import!ReadEnd \/ Import!Audit
  <2>1. importer' \in Hands /\ UNCHANGED AllButWorker
    BY <1>1, <1>3, ReadJobDoes, BuildIndexDoes, ReadProgressDoes, ReadItemDoes, EndOfFileDoes,
       FindSessionDoes, ReadEndDoes, AuditDoes DEF Moves
  <2> QED BY <1>2, <2>1
<1>4. CASE Import!StoreRaises
  <2>1. /\ importer' \in Hands
        /\ UNCHANGED <<request, archive, job, sessions, messages, status, recovering>>
    BY <1>1, <1>4, StoreRaisesDoes DEF Moves
  <2> QED BY <1>1, <2>1 DEF Typed
<1>5. ASSUME NEW row, Writes(row), importer' \in Hands, importer.job \in Jobs PROVE Typed'
  <2>1. job' \in [Jobs -> Rows]
    BY <1>1, <1>5, WroteTyped
  <2> QED BY <1>1, <1>5, <2>1 DEF Typed, Writes, AllButRows
<1>6. CASE Import!MarkRunning
  BY <1>1, <1>5, <1>6, MarkRunningDoes DEF Moves
<1>7. CASE Import!SaveProgress
  BY <1>1, <1>5, <1>7, SaveProgressDoes DEF Moves
<1>8. CASE Import!Fail
  BY <1>1, <1>5, <1>8, FailDoes DEF Moves
<1>9. CASE Import!Complete
  <2>1. importer.job \in Jobs
    BY <1>1, <1>9, HasJob DEF Import!Complete, Import!Is, Resting
  <2> QED BY <1>1, <1>5, <1>9, <2>1, Held, CompleteDoes DEF Moves
<1>10. CASE Import!NewSession
  <2>1. /\ importer.pc = "new session" /\ importer.job \in Jobs /\ importer' \in Hands
        /\ sessions' = sessions \cup {Import!Item.conv}
    BY <1>1, <1>10, NewSessionDoes DEF Moves
  <2>2. Import!Item.conv \in Convs
    BY <2>1, AtItem
  <2>3. IsFiniteSet(sessions')
    BY <1>1, <2>1, FS_AddElement DEF Typed
  <2> QED BY <1>1, <1>10, <2>1, <2>2, <2>3, NewSessionDoes DEF Typed
<1>11. CASE Import!AddMessages
  <2>1. importer.pc = "messages" /\ importer.job \in Jobs
    BY <1>1, <1>11, HasJob DEF Import!AddMessages, Import!Is, Resting
  <2>2. IsFiniteSet(Import!ItemMessages \ DOMAIN messages)
    BY <2>1, AtItem, FS_Subset
  <2>3. importer' \in Hands /\ messages' = Import!Written(Import!ItemMessages \ DOMAIN messages)
        /\ UNCHANGED <<request, archive, job, sessions, status, recovering>>
    BY <1>1, <1>11, <2>2, AddMessagesDoes DEF Moves
  <2>4. /\ IsFiniteSet(DOMAIN messages')
        /\ messages' \in [DOMAIN messages' -> {"text", "broken", "linked"}]
    BY <2>2, <2>3, WrittenTyped
  <2> QED BY <1>1, <2>3, <2>4 DEF Typed
<1>12. CASE Import!RewriteImages
  <2>1. importer.pc = "rewrite" /\ importer.job \in Jobs
    BY <1>1, <1>12, HasJob DEF Import!RewriteImages, Import!Is, Resting
  <2>2. IsFiniteSet(Import!ItemMessages \cap Images)
    BY <2>1, AtItem, FS_Subset
  <2>3. importer' \in Hands /\ messages' = Import!Written(Import!ItemMessages \cap Images)
        /\ UNCHANGED <<request, archive, job, sessions, status, recovering>>
    BY <1>1, <1>12, RewriteImagesDoes DEF Moves
  <2>4. /\ IsFiniteSet(DOMAIN messages')
        /\ messages' \in [DOMAIN messages' -> {"text", "broken", "linked"}]
    BY <2>2, <2>3, WrittenTyped
  <2> QED BY <1>1, <2>3, <2>4 DEF Typed
<1>13. CASE Import!Release
  <2>1. /\ importer' \in Hands /\ importer.job \in Jobs
        /\ status' = [status EXCEPT ![importer.job] = "free"]
        /\ UNCHANGED <<request, archive, job, sessions, messages, recovering>>
    BY <1>1, <1>13, ReleaseDoes
  <2>2. status' \in [Jobs -> Places]
    BY <1>1, <2>1 DEF Typed, Places
  <2> QED BY <1>1, <2>1, <2>2 DEF Typed
<1> QED BY <1>3, <1>4, <1>6, <1>7, <1>8, <1>9, <1>10, <1>11, <1>12, <1>13 DEF Import!Import

\* So do all the other steps.
LEMMA TypedRest ==
  ASSUME Import!ImportAssumption, IInv,
         \/ \E j \in Jobs : Import!Take(j) \/ Import!MarkerExpires(j)
         \/ \E c \in Convs : Import!DeleteSession(c)
         \/ Import!Crash \/ Import!Recover
  PROVE  Typed'
<1>1. Typed /\ Working
  BY DEF IInv
<1>2. ASSUME NEW j \in Jobs, Import!Take(j) PROVE Typed'
  <2>1. /\ status' = [status EXCEPT ![j] = "importer"] /\ importer' \in Hands
        /\ UNCHANGED <<request, archive, job, sessions, messages, recovering>>
    BY <1>1, <1>2, TakeDoes
  <2>2. status' \in [Jobs -> Places]
    BY <1>1, <2>1 DEF Typed, Places
  <2> QED BY <1>1, <2>1, <2>2 DEF Typed
<1>3. ASSUME NEW j \in Jobs, Import!MarkerExpires(j) PROVE Typed'
  <2>1. status' \in [Jobs -> Places]
    BY <1>1, <1>3 DEF Typed, Places, Import!MarkerExpires, Import!Queue!Unreserve
  <2> QED BY <1>1, <1>3, <2>1 DEF Typed, Import!MarkerExpires
<1>4. ASSUME NEW c \in Convs, Import!DeleteSession(c) PROVE Typed'
  <2> DEFINE D == {m \in DOMAIN messages : m[1] # c}
  <2>1. messages' = [m \in D |-> messages[m]] /\ sessions' = sessions \ {c}
    BY <1>4 DEF Import!DeleteSession
  <2>2. DOMAIN messages' = D
    BY <2>1
  <2>3. IsFiniteSet(D) /\ IsFiniteSet(sessions')
    BY <1>1, <2>1, FS_Subset DEF Typed
  <2>4. messages' \in [D -> {"text", "broken", "linked"}]
    BY <1>1, <2>1 DEF Typed
  <2> HIDE DEF D
  <2> QED BY <1>1, <1>4, <2>1, <2>2, <2>3, <2>4 DEF Typed, Import!DeleteSession
<1>5. CASE Import!Crash
  <2>1. importer' \in Hands /\ recovering' \in Seq(Entries)
    <3>1. importer' = Import!Idle /\ recovering' = <<Import!Listing>>
      BY <1>1, <1>5, CrashDoes
    <3>2. <<Import!Listing>> \in Seq(Entries)
      BY Beginnings
    <3> QED BY <3>1, <3>2, Beginnings
  <2>2. status' \in [Jobs -> Places]
    BY <1>1, <1>5, CrashDoes DEF Typed, Places
  <2> QED BY <1>1, <1>5, <2>1, <2>2, CrashDoes DEF Typed
<1>6. CASE Import!RecoverList
  BY <1>1, <1>6, RecoverListDoes DEF Typed
<1>7. CASE Import!RecoverRow
  <2>1. recovering[1].row \in Rows
    BY <1>1, <1>7, RecoverRowDoes DEF Entries
  <2>2. [recovering[1].row EXCEPT !.status = "pending"] \in Rows
    BY <2>1, RowChanged
  <2>3. job' \in [Jobs -> Rows]
    BY <1>1, <1>7, <2>2, RecoverRowDoes DEF Typed
  <2> QED BY <1>1, <1>7, <2>3, RecoverRowDoes DEF Typed
<1>8. CASE Import!RecoverPut
  <2>1. recovering[1].job \in Jobs
    <3>1. recovering # <<>> /\ recovering[1].pc = "put" /\ 1 \in DOMAIN recovering
      BY <1>1, <1>8, RecoverPutDoes DEF Typed
    <3> QED BY <3>1 DEF IInv, Recovers
  <2>2. status' \in [Jobs -> Places] /\ importer' \in Hands
    BY <1>1, <1>8, <2>1, RecoverPutDoes, PutDoes, RevivedDoes
  <2> QED BY <1>1, <1>8, <2>2, RecoverPutDoes DEF Typed
<1> QED BY <1>2, <1>3, <1>4, <1>5, <1>6, <1>7, <1>8 DEF Import!Recover

\* Nothing that is on the disk is taken back, and a request stays with its file.
Grows ==
  /\ \A a \in DOMAIN archive :
       /\ a \in DOMAIN archive' /\ archive'[a].export = archive[a].export
       /\ archive'[a].rows \in Nat /\ archive'[a].rows >= archive[a].rows
  /\ \A j \in Jobs : request[j].pc # "none" =>
       request'[j].pc # "none" /\ request'[j].path = request[j].path
  /\ \A a \in DOMAIN archive' : a \in DOMAIN archive \/ request'[a].pc # "none"

\* Every step lets the requests and the archives grow.
LEMMA StepGrows ==
  ASSUME IInv, Import!Next
  PROVE  Grows
<1>1. /\ request \in [Jobs -> Requests]
      /\ archive \in [DOMAIN archive -> [export : Exports, rows : Nat]]
      /\ \A j \in Jobs : request[j] \in Requests
      /\ Typed /\ Working
  BY DEF IInv, Typed
<1>2. \A a \in DOMAIN archive : archive[a].rows \in Nat /\ archive[a].rows >= archive[a].rows
  BY <1>1
<1>3. CASE UNCHANGED <<request, archive>>
  BY <1>2, <1>3 DEF Grows
<1>4. ASSUME NEW j \in Jobs, NEW e \in Exports, Import!Upload(j, e) PROVE Grows
  <2>1. request[j].pc = "none"
    BY <1>4 DEF Import!Upload
  <2>2. j \notin DOMAIN archive
    BY <2>1 DEF IInv, Requested, Ready
  <2>3. \A a \in DOMAIN archive : a \in DOMAIN archive' /\ archive'[a] = archive[a]
    BY <1>4, <2>2 DEF Import!Upload
  <2>4. request'[j].pc # "none" /\ \A i \in Jobs : i # j => request'[i] = request[i]
    BY <1>1, <1>4 DEF Import!Upload
  <2>5. DOMAIN archive' = DOMAIN archive \cup {j}
    BY <1>4 DEF Import!Upload
  <2> QED BY <1>2, <2>1, <2>3, <2>4, <2>5 DEF Grows
<1>5. ASSUME NEW j \in Jobs, NEW a \in DOMAIN archive, Import!FromFile(j, a) PROVE Grows
  <2>1. request[j].pc = "none" /\ \A i \in Jobs : i # j => request'[i] = request[i]
    BY <1>1, <1>5 DEF Import!FromFile
  <2> QED BY <1>2, <1>5, <2>1 DEF Grows, Import!FromFile
<1>6. ASSUME NEW j \in Jobs, Import!ListEntries(j) \/ Import!SaveJob(j) \/ Import!Enqueue(j) \/ Import!RequestFails(j)
      PROVE  Grows
  <2>1. /\ \A i \in Jobs : i # j => request'[i] = request[i]
        /\ request'[j].pc \in {"entries", "put", "done"} /\ request'[j].path = request[j].path
        /\ archive' = archive
    BY <1>1, <1>6 DEF Import!ListEntries, Import!SaveJob, Import!Enqueue, Import!RequestFails,
       Requests
  <2> QED BY <1>2, <2>1 DEF Grows
<1>7. ASSUME NEW j \in Jobs, Import!CreateEntries(j) PROVE Grows
  <2> DEFINE a == request[j].path
             n == IF request[j].registers THEN 1 ELSE 0
  <2>1. a \in DOMAIN archive
    BY <1>7 DEF Import!CreateEntries, IInv, Requested, Ready
  <2>2. /\ n \in Nat /\ archive[a].rows \in Nat /\ archive[a].rows + n \in Nat
        /\ archive[a].rows + n >= archive[a].rows
    BY <1>2, <2>1
  <2>3. /\ \A i \in Jobs : i # j => request'[i] = request[i]
        /\ request'[j].pc = "save" /\ request'[j].path = request[j].path
    BY <1>1, <1>7 DEF Import!CreateEntries, Requests
  <2>4. archive' = [archive EXCEPT ![a].rows = archive[a].rows + n]
    BY <1>7 DEF Import!CreateEntries
  <2> HIDE DEF n
  <2>5. /\ DOMAIN archive' = DOMAIN archive /\ archive'[a].export = archive[a].export
        /\ archive'[a].rows = archive[a].rows + n
        /\ \A b \in DOMAIN archive : b # a => archive'[b] = archive[b]
    BY <1>1, <2>1, <2>4
  <2> QED BY <1>2, <2>1, <2>2, <2>3, <2>5 DEF Grows
<1>8. CASE Import!Crash
  <2>1. archive' = archive
    BY <1>8 DEF Import!Crash
  <2>2. \A j \in Jobs : request[j].pc # "none" => request'[j].pc = "done" /\ request'[j].path = request[j].path
    BY <1>1, <1>8, CrashDoes
  <2> QED BY <1>2, <2>1, <2>2 DEF Grows
<1>9. CASE Import!Import \/ Import!StoreRaises \/ Import!Recover
             \/ (\E c \in Convs : Import!DeleteSession(c))
            \/ \E j \in Jobs : Import!Take(j) \/ Import!MarkerExpires(j)
  <2>1. UNCHANGED <<request, archive>>
    BY <1>9 DEF Import!Import, Import!StoreRaises, Import!Recover, Import!DeleteSession,
       Import!Take, Import!MarkerExpires, Import!ReadJob, Import!MarkRunning, Import!BuildIndex,
       Import!ReadProgress, Import!SaveProgress, Import!ReadItem, Import!EndOfFile,
          Import!FindSession, Import!NewSession, Import!AddMessages,
       Import!RewriteImages, Import!ReadEnd, Import!Audit, Import!Goto, Import!Complete, Import!Fail, Import!Release,
          Import!RecoverList, Import!RecoverRow, Import!RecoverPut,
       Import!OnlyWorker, Import!WorkerSaves
  <2> QED BY <1>3, <2>1
<1> QED BY <1>4, <1>5, <1>6, <1>7, <1>8, <1>9 DEF Import!Next, Import!Request

\* The export of a job that has been asked for is the same for good.
LEMMA ExportStays ==
  ASSUME IInv, Grows, NEW j \in Jobs, request[j].pc # "none"
  PROVE  /\ ExportOf(j)' = ExportOf(j) /\ request'[j].path = request[j].path
         /\ archive[request[j].path].rows > 0 => archive'[request[j].path].rows > 0
         /\ request'[j].path \in DOMAIN archive' /\ request'[j].pc # "none"
<1>1. request[j].path \in DOMAIN archive
  BY DEF IInv, Requested, Ready
<1>2. archive[request[j].path].rows \in Nat
  BY <1>1 DEF IInv, Typed
<1> QED BY <1>1, <1>2 DEF Grows, ExportOf

\* A job whose request, row and place stay as they were is as ready as before.
LEMMA ReadyStays ==
  ASSUME IInv, Grows, NEW j \in Jobs,
         request'[j] = request[j], job'[j] = job[j], status'[j] = status[j]
  PROVE  Ready(j)'
<1>1. Ready(j)
  BY DEF IInv, Requested
<1>2. CASE request[j].pc = "none"
  <2>1. j \notin DOMAIN archive'
    BY <1>1, <1>2 DEF Ready, Grows
  <2>2. job[j].status = "none"
    BY <1>1, <1>2 DEF Ready, Import!NoRow
  <2> QED BY <1>1, <1>2, <2>1, <2>2 DEF Ready
<1>3. CASE request[j].pc # "none"
  BY <1>1, <1>3, ExportStays DEF Ready
<1> QED BY <1>2, <1>3

\* A request that has ended, with its row and its place.
LEMMA ReadyDone ==
  ASSUME IInv, Grows, NEW j \in Jobs, request[j].pc \in {"put", "done"},
         request'[j].pc = "done", job'[j].status # "none", job[j].status # "none"
  PROVE  Ready(j)'
<1>1. Ready(j)
  BY DEF IInv, Requested
<1>2. request'[j].path \in DOMAIN archive' /\ ExportOf(j)' = ExportOf(j)
      /\ (archive[request[j].path].rows > 0 => archive'[request[j].path].rows > 0)
      /\ request'[j].path = request[j].path
  BY ExportStays
<1> QED BY <1>1, <1>2 DEF Ready

\* Every step keeps the requests ahead of their jobs.
LEMMA RequestedStep ==
  ASSUME Import!ImportAssumption, IInv, Import!Next, Typed'
  PROVE  Requested'
<1>1. Grows
  BY StepGrows
<1>2. /\ request \in [Jobs -> Requests]
      /\ archive \in [DOMAIN archive -> [export : Exports, rows : Nat]]
      /\ \A j \in Jobs : request[j] \in Requests
      /\ Typed /\ Working
  BY DEF IInv, Typed
<1>3. CASE UNCHANGED <<request, job, status>>
  BY <1>1, <1>3, ReadyStays DEF Requested
<1>4. ASSUME NEW j \in Jobs, \A i \in Jobs : i # j => request'[i] = request[i],
             UNCHANGED <<job, status>>, Ready(j)'
      PROVE  Requested'
  BY <1>1, <1>4, ReadyStays DEF Requested
<1>5. \A j \in Jobs : Ready(j)
  BY DEF IInv, Requested
<1>6. ASSUME NEW j \in Jobs, NEW e \in Exports, Import!Upload(j, e) PROVE Requested'
  <2>1. request'[j] = [pc |-> IF e.zip THEN "list" ELSE "save", path |-> j, registers |-> FALSE]
        /\ archive'[j].export = e /\ j \in DOMAIN archive'
        /\ UNCHANGED <<job, status>> /\ request[j].pc = "none"
        /\ \A i \in Jobs : i # j => request'[i] = request[i]
    BY <1>2, <1>6 DEF Import!Upload
  <2>2. ExportOf(j)' = e
    BY <2>1 DEF ExportOf
  <2>3. job[j] = Import!NoRow /\ status[j] = "free"
    BY <1>5, <2>1 DEF Ready
  <2>4. Ready(j)'
    BY <2>1, <2>2, <2>3 DEF Ready, Import!NoRow
  <2> QED BY <1>4, <2>1, <2>4
<1>7. ASSUME NEW j \in Jobs, NEW a \in DOMAIN archive, Import!FromFile(j, a) PROVE Requested'
  <2>1. request'[j] = [pc |-> IF archive[a].export.zip THEN "list" ELSE "save", path |-> a, registers |-> FALSE]
        /\ UNCHANGED <<job, status, archive>> /\ request[j].pc = "none"
        /\ \A i \in Jobs : i # j => request'[i] = request[i]
    BY <1>2, <1>7 DEF Import!FromFile
  <2>2. ExportOf(j)' = archive[a].export
    BY <2>1 DEF ExportOf
  <2>3. job[j] = Import!NoRow /\ status[j] = "free"
    BY <1>5, <2>1 DEF Ready
  <2>4. Ready(j)'
    BY <1>7, <2>1, <2>2, <2>3 DEF Ready, Import!NoRow
  <2> QED BY <1>4, <2>1, <2>4
<1>8. ASSUME NEW j \in Jobs, Import!ListEntries(j) PROVE Requested'
  <2>1. /\ request[j].pc = "list" /\ request'[j].pc = "entries"
        /\ request'[j].path = request[j].path
        /\ request'[j].registers = (archive[request[j].path].rows = 0)
        /\ UNCHANGED <<job, status, archive>>
        /\ \A i \in Jobs : i # j => request'[i] = request[i]
    BY <1>2, <1>8 DEF Import!ListEntries, Requests
  <2>2. request[j].path \in DOMAIN archive /\ archive[request[j].path].rows \in Nat
    BY <1>2, <1>5, <2>1 DEF Ready
  <2>3. ~request'[j].registers => archive'[request'[j].path].rows > 0
    <3>1. archive'[request'[j].path].rows = archive[request[j].path].rows
      BY <2>1
    <3>2. CASE archive[request[j].path].rows = 0
      BY <2>1, <3>2
    <3>3. CASE archive[request[j].path].rows # 0
      BY <2>2, <3>1, <3>3
    <3> QED BY <3>2, <3>3
  <2>4. job'[j] = Import!NoRow /\ status'[j] = "free" /\ Import!NoRow.status = "none"
    BY <1>5, <2>1 DEF Ready, Import!NoRow
  <2>5. Ready(j)'
    BY <2>1, <2>2, <2>3, <2>4 DEF Ready
  <2> QED BY <1>4, <2>1, <2>5
<1>9. ASSUME NEW j \in Jobs, Import!CreateEntries(j) PROVE Requested'
  <2> DEFINE a == request[j].path
             n == IF request[j].registers THEN 1 ELSE 0
  <2>1. /\ request[j].pc = "entries" /\ request'[j].pc = "save" /\ request'[j].path = a
        /\ UNCHANGED <<job, status>>
        /\ \A i \in Jobs : i # j => request'[i] = request[i]
    BY <1>2, <1>9 DEF Import!CreateEntries, Requests
  <2>2. a \in DOMAIN archive /\ archive[a].rows \in Nat
    BY <1>2, <1>5, <2>1 DEF Ready
  <2>3. archive'[a].rows = archive[a].rows + n
    BY <1>2, <1>9, <2>2 DEF Import!CreateEntries
  <2>4. ExportOf(j)' = ExportOf(j) /\ a \in DOMAIN archive'
    BY <1>1, <2>1, ExportStays
  <2>5. ExportOf(j).zip => archive'[a].rows > 0
    <3>1. CASE request[j].registers
      BY <2>2, <2>3, <3>1
    <3>2. CASE ~request[j].registers
      BY <1>5, <2>1, <2>2, <2>3, <3>2 DEF Ready
    <3> QED BY <3>1, <3>2
  <2>6. job[j] = Import!NoRow /\ status[j] = "free"
    BY <1>5, <2>1 DEF Ready
  <2>7. Ready(j)'
    BY <2>1, <2>4, <2>5, <2>6 DEF Ready
  <2> QED BY <1>4, <2>1, <2>7
<1>10. ASSUME NEW j \in Jobs, Import!SaveJob(j) PROVE Requested'
  <2>1. /\ request[j].pc = "save" /\ request'[j].pc = "put" /\ request'[j].path = request[j].path
        /\ UNCHANGED <<archive, status>> /\ job'[j].status = "pending"
        /\ \A i \in Jobs : i # j => request'[i] = request[i] /\ job'[i] = job[i]
    BY <1>2, <1>10 DEF Import!SaveJob, Requests, Typed, Import!NoRow
  <2>2. Ready(j)'
    BY <1>5, <2>1 DEF Ready, ExportOf
  <2>3. \A i \in Jobs : i # j => Ready(i)'
    BY <1>1, <2>1, ReadyStays
  <2> QED BY <2>2, <2>3 DEF Requested
<1>11. ASSUME NEW j \in Jobs, Import!Enqueue(j) PROVE Requested'
  <2>1. /\ request[j].pc = "put" /\ request'[j].pc = "done" /\ job' = job
        /\ \A i \in Jobs : i # j => request'[i] = request[i] /\ status'[i] = status[i]
    BY <1>2, <1>11, PutDoes DEF Import!Enqueue, Requests
  <2>2. job[j].status # "none"
    BY <1>5, <2>1 DEF Ready
  <2>3. Ready(j)'
    BY <1>1, <2>1, <2>2, ReadyDone
  <2>4. \A i \in Jobs : i # j => Ready(i)'
    BY <1>1, <2>1, ReadyStays
  <2> QED BY <2>3, <2>4 DEF Requested
<1>12. ASSUME NEW j \in Jobs, Import!RequestFails(j) PROVE Requested'
  <2>1. /\ request[j].pc \in {"list", "entries", "save"} /\ request'[j].pc = "done"
        /\ request'[j].path = request[j].path
        /\ UNCHANGED <<job, status, archive>>
        /\ \A i \in Jobs : i # j => request'[i] = request[i]
    BY <1>2, <1>12 DEF Import!RequestFails, Requests
  <2>2. Ready(j)'
    BY <1>5, <2>1 DEF Ready, Import!NoRow
  <2> QED BY <1>4, <2>1, <2>2
<1>13. ASSUME NEW j \in Jobs, \A i \in Jobs : i # j => job'[i] = job[i] /\ status'[i] = status[i],
              request' = request, request[j].pc = "done", job[j].status # "none", job'[j].status # "none"
       PROVE  Requested'
  BY <1>1, <1>13, ReadyStays, ReadyDone DEF Requested
<1>14. \A j \in Jobs : status[j] # "free" => request[j].pc = "done" /\ job[j].status # "none"
  BY <1>5 DEF Ready
<1>15. ASSUME NEW j \in Jobs, Import!Take(j) \/ Import!MarkerExpires(j) PROVE Requested'
  <2>1. /\ status[j] # "free" /\ UNCHANGED <<request, job>>
        /\ \A i \in Jobs : i # j => status'[i] = status[i]
    BY <1>2, <1>15 DEF Import!Take, Import!MarkerExpires, Import!Queue!Take,
       Import!Queue!Unreserve, Typed
  <2> QED BY <1>13, <1>14, <2>1
<1>16. CASE Import!Release
  BY <1>2, <1>13, <1>16, ReleaseDoes, Held DEF Typed
<1>17. ASSUME NEW row, Writes(row), row.status # "none", importer.job \in Jobs PROVE Requested'
  <2>1. job'[importer.job] = row /\ \A j \in Jobs : j # importer.job => job'[j] = job[j]
    BY <1>2, <1>17, WroteTyped
  <2> QED BY <1>13, <1>17, <2>1, Held DEF Writes, AllButRows
<1>18. /\ \A t : [importer.copy EXCEPT !.status = t].status = t
       /\ [importer.copy EXCEPT !.status = "running", !.percent = 0].status = "running"
  BY <1>2, Parts DEF Rows
<1>19. CASE Import!MarkRunning
  BY <1>2, <1>17, <1>18, <1>19, MarkRunningDoes DEF Moves
<1>20. CASE Import!Fail
  BY <1>2, <1>17, <1>18, <1>20, FailDoes DEF Moves
<1>21. CASE Import!SaveProgress
  <2>1. importer.pc = "save progress" /\ importer.job \in Jobs /\ Writes(importer.copy)
    BY <1>2, <1>21, SaveProgressDoes DEF Moves
  <2>2. importer.copy.status = "running"
    BY <1>2, <2>1 DEF IInv, Settled, Import!ImportAssumption
  <2> QED BY <1>17, <2>1, <2>2
<1>22. CASE Import!Complete
  <2>1. importer.job \in Jobs
    BY <1>2, <1>22, HasJob DEF Import!Complete, Import!Is, Resting
  <2> QED BY <1>2, <1>17, <1>22, <2>1, Held, CompleteDoes
<1>23. CASE Import!Crash
  <2>1. \A j \in Jobs : /\ request'[j].pc = IF request[j].pc = "none" THEN "none" ELSE "done"
                        /\ status'[j] # "free" => status[j] # "free"
    <3>1. CASE ~Durable
      BY <1>2, <1>23, <3>1, CrashDoes DEF Typed
    <3>2. CASE Durable
      BY <1>2, <1>23, <3>2, CrashDoes, Held DEF Typed, Hands
    <3> QED BY <3>1, <3>2
  <2>2. UNCHANGED <<archive, job>>
    BY <1>2, <1>23, CrashDoes
  <2>3. ASSUME NEW j \in Jobs PROVE Ready(j)'
    <3>1. CASE request[j].pc = "none"
      BY <1>5, <2>1, <2>2, <3>1 DEF Ready, Import!NoRow
    <3>2. CASE request[j].pc # "none"
      BY <1>1, <1>5, <2>1, <2>2, <3>2, ExportStays DEF Ready
    <3> QED BY <3>1, <3>2
  <2> QED BY <2>3 DEF Requested
<1>24. CASE Import!RecoverRow
  <2>1. recovering # <<>> /\ recovering[1].pc = "row" /\ 1 \in DOMAIN recovering
    BY <1>2, <1>24, RecoverRowDoes DEF Typed
  <2> DEFINE j == recovering[1].job
  <2>2. j \in Jobs /\ job[j].status # "none" /\ recovering[1].row \in Rows
    BY <1>2, <1>24, <2>1, RecoverRowDoes DEF IInv, Recovers, Entries
  <2>3. request[j].pc = "done"
    BY <1>5, <2>1, <2>2 DEF IInv, Recovers, Ready, Import!NoRow
  <2>4. /\ UNCHANGED <<request, status>>
        /\ job'[j].status # "none" /\ \A i \in Jobs : i # j => job'[i] = job[i]
    <3>1. [recovering[1].row EXCEPT !.status = "pending"].status = "pending"
      BY <2>2 DEF Rows
    <3> QED BY <1>2, <1>24, <2>2, <3>1, RecoverRowDoes DEF Typed
  <2> QED BY <1>13, <2>2, <2>3, <2>4
<1>25. CASE Import!RecoverPut
  <2>1. recovering # <<>> /\ recovering[1].pc = "put" /\ 1 \in DOMAIN recovering
    BY <1>2, <1>25, RecoverPutDoes DEF Typed
  <2> DEFINE j == recovering[1].job
  <2>2. j \in Jobs /\ job[j].status # "none"
    BY <2>1 DEF IInv, Recovers
  <2>3. request[j].pc = "done"
    BY <1>5, <2>1, <2>2 DEF IInv, Recovers, Ready, Import!NoRow
  <2>4. /\ UNCHANGED <<request, job>> /\ \A i \in Jobs : i # j => status'[i] = status[i]
    BY <1>2, <1>25, <2>2, RecoverPutDoes, PutDoes
  <2> QED BY <1>13, <2>2, <2>3, <2>4
<1>26. CASE \/ Import!ReadJob \/ Import!BuildIndex \/ Import!ReadProgress \/ Import!ReadItem
            \/ Import!EndOfFile \/ Import!FindSession \/ Import!NewSession
            \/ Import!AddMessages \/ Import!RewriteImages \/ Import!ReadEnd \/ Import!Audit \/ Import!StoreRaises
            \/ Import!RecoverList
            \/ \E c \in Convs : Import!DeleteSession(c)
  <2>1. UNCHANGED <<request, job, status>>
    BY <1>26 DEF Import!StoreRaises, Import!DeleteSession, Import!ReadJob, Import!BuildIndex,
       Import!ReadProgress, Import!ReadItem, Import!EndOfFile,
       Import!FindSession, Import!NewSession, Import!AddMessages, Import!RewriteImages,
          Import!ReadEnd, Import!Audit, Import!Goto, Import!RecoverList, Import!OnlyWorker
  <2> QED BY <1>3, <2>1
<1> QED BY <1>6, <1>7, <1>8, <1>9, <1>10, <1>11, <1>12, <1>15, <1>16, <1>19, <1>20, <1>21,
       <1>22, <1>23,
           <1>24, <1>25, <1>26 DEF Import!Next, Import!Request, Import!Import, Import!Recover

\* What the steps of the worker leave alone.
LEMMA WorkerGoes ==
  ASSUME Import!ImportAssumption, IInv, Import!Import \/ Import!StoreRaises
  PROVE  /\ UNCHANGED <<request, archive, recovering, removed, stale>>
         /\ struck \subseteq struck' /\ importer.pc \notin Resting /\ importer.job \in Jobs
         /\ \/ Import!Release /\ UNCHANGED <<job, sessions, messages, struck>>
            \/ /\ importer'.job = importer.job /\ importer'.pc \notin Resting
               /\ status' = status
<1>1. Typed /\ Working
  BY DEF IInv
<1>2. CASE Import!ReadJob \/ Import!BuildIndex \/ Import!ReadProgress \/ Import!ReadItem
             \/ Import!EndOfFile \/ Import!FindSession \/ Import!ReadEnd \/ Import!Audit
  BY <1>1, <1>2, ReadJobDoes, BuildIndexDoes, ReadProgressDoes, ReadItemDoes, EndOfFileDoes,
     FindSessionDoes, ReadEndDoes, AuditDoes DEF Moves, AllButWorker, Resting
<1>3. CASE Import!MarkRunning \/ Import!SaveProgress \/ Import!Fail
  BY <1>1, <1>3, MarkRunningDoes, SaveProgressDoes, FailDoes DEF Moves, Writes, AllButRows, Resting
<1>4. CASE Import!Complete
  <2>1. importer.job \in Jobs
    BY <1>1, <1>4, HasJob DEF Import!Complete, Import!Is, Resting
  <2> QED BY <1>1, <1>4, <2>1, Held, CompleteDoes DEF Moves, Writes, AllButRows, Resting
<1>5. CASE Import!NewSession \/ Import!RewriteImages
  BY <1>1, <1>5, NewSessionDoes, RewriteImagesDoes DEF Moves, Resting
<1>6. CASE Import!AddMessages
  <2>1. importer.pc = "messages" /\ importer.job \in Jobs
    BY <1>1, <1>6, HasJob DEF Import!AddMessages, Import!Is, Resting
  <2>2. IsFiniteSet(Import!ItemMessages \ DOMAIN messages)
    BY <2>1, AtItem, FS_Subset
  <2> QED BY <1>1, <1>6, <2>1, <2>2, AddMessagesDoes DEF Moves, Resting
<1>7. CASE Import!Release
  BY <1>1, <1>7, ReleaseDoes DEF Leaving, Resting
<1>8. CASE Import!StoreRaises
  BY <1>1, <1>8, StoreRaisesDoes DEF Moves, Resting
<1> QED BY <1>2, <1>3, <1>4, <1>5, <1>6, <1>7, <1>8 DEF Import!Import

\* Every step keeps the queue and the worker at one about who holds what.
LEMMA WorkingStep ==
  ASSUME Import!ImportAssumption, IInv, Import!Next
  PROVE  Working'
<1>1. Typed /\ Working /\ NoJob \notin Jobs /\ status \in [Jobs -> Places]
  BY DEF IInv, Typed, Import!ImportAssumption
<1>2. CASE UNCHANGED <<importer, status>>
  BY <1>1, <1>2 DEF Working
<1>3. CASE Import!Import \/ Import!StoreRaises
  <2>1. CASE Import!Release
    BY <1>1, <2>1, ReleaseDoes DEF Working
  <2>2. CASE importer'.job = importer.job /\ importer'.pc \notin Resting /\ status' = status
    BY <1>1, <1>3, <2>2, WorkerGoes DEF Working
  <2> QED BY <1>3, <2>1, <2>2, WorkerGoes
<1>4. ASSUME NEW j \in Jobs, Import!Take(j) PROVE Working'
  BY <1>1, <1>4, TakeDoes DEF Working, Resting
<1>5. ASSUME NEW j \in Jobs, Import!Put(j), Import!Revived PROVE Working'
  <2>1. \A i \in Jobs : status'[i] = "importer" <=> status[i] = "importer"
    BY <1>1, <1>5, PutDoes
  <2>2. importer'.job = importer.job /\ (importer'.pc \in Resting <=> importer.pc \in Resting)
    BY <1>1, <1>5, RevivedDoes DEF Resting
  <2> QED BY <1>1, <2>1, <2>2 DEF Working
<1>6. ASSUME NEW j \in Jobs, Import!Enqueue(j) PROVE Working'
  BY <1>5, <1>6 DEF Import!Enqueue
<1>7. CASE Import!RecoverPut
  <2>1. recovering[1].job \in Jobs
    <3>1. recovering # <<>> /\ recovering[1].pc = "put" /\ 1 \in DOMAIN recovering
      BY <1>1, <1>7, RecoverPutDoes DEF Typed
    <3> QED BY <3>1 DEF IInv, Recovers
  <2> QED BY <1>1, <1>5, <1>7, <2>1, RecoverPutDoes
<1>8. ASSUME NEW j \in Jobs, Import!MarkerExpires(j) PROVE Working'
  BY <1>1, <1>8 DEF Working, Import!MarkerExpires, Import!Queue!Unreserve
<1>9. CASE Import!Crash
  <2>1. Import!Idle.job = NoJob /\ Import!Idle.pc \in Resting
    BY DEF Import!Idle, Resting
  <2>2. importer' = Import!Idle /\ \A j \in Jobs : status'[j] # "importer"
    <3>1. CASE importer.job = NoJob
      BY <1>1, <1>9, <3>1, CrashDoes DEF Working
    <3>2. CASE importer.job # NoJob
      BY <1>1, <1>9, <3>2, CrashDoes DEF Working
    <3> QED BY <3>1, <3>2
  <2> QED BY <1>1, <2>1, <2>2 DEF Working
<1>10. ASSUME NEW j \in Jobs,
              \/ \E e \in Exports : Import!Upload(j, e)
              \/ \E a \in DOMAIN archive : Import!FromFile(j, a)
              \/ Import!ListEntries(j) \/ Import!CreateEntries(j) \/ Import!SaveJob(j)
              \/ Import!RequestFails(j)
       PROVE  Working'
  BY <1>2, <1>10 DEF Import!Upload, Import!FromFile, Import!ListEntries, Import!CreateEntries,
     Import!SaveJob, Import!RequestFails
<1>11. CASE (\E c \in Convs : Import!DeleteSession(c)) \/ Import!RecoverList \/ Import!RecoverRow
  BY <1>2, <1>11 DEF Import!DeleteSession, Import!RecoverList, Import!RecoverRow
<1> QED BY <1>3, <1>4, <1>6, <1>7, <1>8, <1>9, <1>10, <1>11
       DEF Import!Next, Import!Request, Import!Recover

-----------------------------------------------------------------------------
\* A row becomes another one, in another status.
Turns(j, row, to) ==
  job'[j].status = to /\ job'[j].processed = row.processed /\ job'[j].summary = row.summary
\* What can become of a row.
RowMoves(j) ==
  \/ job'[j] = job[j]
  \/ Import!SaveJob(j) /\ Turns(j, Import!NoRow, "pending") /\ job'[j].percent = 0
  \/ importer.job = j /\ Import!MarkRunning /\ Turns(j, importer.copy, "running") /\ job'[j].percent = 0
  \/ /\ importer.job = j /\ Import!SaveProgress
     /\ Turns(j, importer.copy, "running") /\ job'[j].percent = importer.copy.percent
  \/ /\ importer.job = j /\ Import!Fail
     /\ Turns(j, importer.copy, "failed") /\ job'[j].percent = importer.copy.percent
  \/ /\ importer.job = j /\ Import!Complete
     /\ job'[j].status = "completed" /\ job'[j].processed >= importer.copy.processed
     /\ job'[j].percent = job'[j].processed /\ job'[j].summary = importer.sum
  \/ /\ Import!RecoverRow /\ recovering[1].job = j /\ recovering[1].row.status = "running"
     /\ Turns(j, recovering[1].row, "pending") /\ job'[j].percent = recovering[1].row.percent

\* A row that differs in its status.
LEMMA RowTurns ==
  ASSUME NEW j, NEW r \in Rows, NEW t, job'[j] = [r EXCEPT !.status = t]
  PROVE  Turns(j, r, t) /\ job'[j].percent = r.percent
BY DEF Turns, Rows

\* A row of a job that runs again.
LEMMA RowRuns ==
  ASSUME NEW j, NEW r \in Rows, job'[j] = [r EXCEPT !.status = "running", !.percent = 0]
  PROVE  Turns(j, r, "running") /\ job'[j].percent = 0
BY DEF Turns, Rows

\* What a step can do to the row of a job.
LEMMA StepRows ==
  ASSUME Import!ImportAssumption, IInv, Import!Next, NEW j \in Jobs
  PROVE  RowMoves(j)
<1>1. Typed /\ Working /\ job \in [Jobs -> Rows]
  BY DEF IInv, Typed
<1>2. CASE job' = job
  BY <1>2 DEF RowMoves
<1>3. ASSUME NEW i \in Jobs, Import!SaveJob(i) PROVE RowMoves(j)
  <2>1. Import!NoRow.percent = 0
    BY DEF Import!NoRow
  <2> QED BY <1>1, <1>3, <2>1, Beginnings, RowTurns DEF RowMoves, Import!SaveJob
<1>4. ASSUME NEW row, Writes(row), importer.job \in Jobs
      PROVE  job'[j] = IF importer.job = j THEN row ELSE job[j]
  BY <1>1, <1>4, WroteTyped
<1>5. CASE Import!MarkRunning
  BY <1>1, <1>4, <1>5, MarkRunningDoes, Parts, RowRuns DEF Moves, RowMoves
<1>6. CASE Import!SaveProgress
  <2>1. importer.pc = "save progress" /\ importer.job \in Jobs /\ Writes(importer.copy)
    BY <1>1, <1>6, SaveProgressDoes DEF Moves
  <2>2. importer.copy.status = "running"
    BY <1>1, <2>1 DEF IInv, Settled, Import!ImportAssumption
  <2> QED BY <1>4, <1>6, <2>1, <2>2 DEF RowMoves, Turns
<1>7. CASE Import!Fail
  <2>1. importer.job \in Jobs /\ Writes([importer.copy EXCEPT !.status = "failed"])
    BY <1>1, <1>7, FailDoes DEF Moves
  <2>2. job'[j] = IF importer.job = j THEN [importer.copy EXCEPT !.status = "failed"] ELSE job[j]
    BY <1>4, <2>1
  <2>3. importer.job = j =>
          Turns(j, importer.copy, "failed") /\ job'[j].percent = importer.copy.percent
    BY <1>1, <2>2, Parts, RowTurns
  <2> QED BY <1>7, <2>2, <2>3 DEF RowMoves
<1>8. CASE Import!Complete
  <2>1. importer.job \in Jobs
    BY <1>1, <1>8, HasJob DEF Import!Complete, Import!Is, Resting
  <2>2. PICK p \in Nat :
           /\ p >= importer.copy.processed
           /\ Writes([status |-> "completed", processed |-> p, percent |-> p, summary |-> importer.sum])
    BY <1>1, <1>8, <2>1, Held, CompleteDoes
  <2> DEFINE row == [status |-> "completed", processed |-> p, percent |-> p, summary |-> importer.sum]
  <2>3. /\ row.status = "completed" /\ row.processed = p /\ row.percent = p
        /\ row.summary = importer.sum
    OBVIOUS
  <2>4. importer.job # j => job'[j] = job[j]
    BY <1>4, <2>1, <2>2
  <2>5. importer.job = j => job'[j] = row
    BY <1>4, <2>1, <2>2
  <2> HIDE DEF row
  <2> QED BY <1>8, <2>2, <2>3, <2>4, <2>5 DEF RowMoves
<1>9. CASE Import!RecoverRow
  <2>1. recovering[1].row \in Rows
    BY <1>1, <1>9, RecoverRowDoes DEF Entries
  <2> DEFINE row == recovering[1].row
  <2>2. CASE job'[j] = job[j]
    BY <2>2 DEF RowMoves
  <2>3. CASE job'[j] # job[j]
    <3>1. /\ recovering[1].job = j /\ row.status = "running"
          /\ job'[j] = [row EXCEPT !.status = "pending"]
      BY <1>1, <1>9, <2>3, RecoverRowDoes
    <3>2. Turns(j, row, "pending") /\ job'[j].percent = row.percent
      BY <2>1, <3>1, RowTurns
    <3> QED BY <1>9, <3>1, <3>2 DEF RowMoves
  <2> QED BY <2>2, <2>3
<1>10. ASSUME NEW i \in Jobs,
              \/ \E e \in Exports : Import!Upload(i, e)
              \/ \E a \in DOMAIN archive : Import!FromFile(i, a)
              \/ Import!ListEntries(i) \/ Import!CreateEntries(i) \/ Import!Enqueue(i)
              \/ Import!RequestFails(i)
              \/ Import!Take(i) \/ Import!MarkerExpires(i)
       PROVE  RowMoves(j)
  BY <1>2, <1>10 DEF Import!Upload, Import!FromFile, Import!ListEntries, Import!CreateEntries,
     Import!Enqueue, Import!RequestFails, Import!Take, Import!MarkerExpires
<1>11. CASE \/ Import!ReadJob \/ Import!BuildIndex \/ Import!ReadProgress \/ Import!ReadItem
            \/ Import!EndOfFile \/ Import!FindSession \/ Import!NewSession
            \/ Import!AddMessages \/ Import!RewriteImages \/ Import!ReadEnd \/ Import!Audit \/ Import!Release
            \/ Import!StoreRaises \/ Import!RecoverList \/ Import!RecoverPut
            \/ Import!Crash \/ \E c \in Convs : Import!DeleteSession(c)
  BY <1>2, <1>11 DEF Import!StoreRaises, Import!DeleteSession, Import!ReadJob,
     Import!BuildIndex, Import!ReadProgress, Import!ReadItem, Import!EndOfFile,
     Import!FindSession, Import!NewSession, Import!AddMessages, Import!RewriteImages,
        Import!ReadEnd, Import!Audit, Import!Goto, Import!Release, Import!RecoverList, Import!RecoverPut, Import!Crash,
           Import!OnlyWorker
<1> QED BY <1>3, <1>5, <1>6, <1>7, <1>8, <1>9, <1>10, <1>11
       DEF Import!Next, Import!Request, Import!Import, Import!Recover

\* A row that there is stays.
LEMMA RowStays ==
  ASSUME Import!ImportAssumption, IInv, Import!Next, NEW j \in Jobs, job[j].status # "none"
  PROVE  job'[j].status # "none"
<1>1. RowMoves(j)
  BY StepRows
<1> QED BY <1>1 DEF RowMoves, Turns

\* Start-up comes before the requests.
LEMMA NotServed ==
  ASSUME Import!ImportAssumption, IInv, Import!Next, recovering # <<>>
  PROVE  /\ \/ \E j \in Jobs : Import!Take(j) \/ Import!MarkerExpires(j)
            \/ \E c \in Convs : Import!DeleteSession(c)
            \/ Import!Import \/ Import!StoreRaises \/ Import!Crash \/ Import!Recover
         /\ \A j \in Jobs : request'[j].pc \in {"none", "done"}
<1>1. \A j \in Jobs : request[j].pc \in {"none", "done"}
  BY DEF IInv, Recovers
<1>2. \A j \in Jobs : ~Import!Request(j) /\ ~Import!RequestFails(j)
  BY <1>1 DEF Import!Request, Import!ListEntries, Import!CreateEntries, Import!SaveJob,
     Import!Enqueue, Import!RequestFails
<1>3. \/ \E j \in Jobs : Import!Take(j) \/ Import!MarkerExpires(j)
      \/ \E c \in Convs : Import!DeleteSession(c)
      \/ Import!Import \/ Import!StoreRaises \/ Import!Crash \/ Import!Recover
  BY <1>2 DEF Import!Next
<1>4. CASE \/ \E j \in Jobs : Import!Take(j) \/ Import!MarkerExpires(j)
           \/ \E c \in Convs : Import!DeleteSession(c)
           \/ Import!Import \/ Import!StoreRaises \/ Import!Recover
  <2>1. request' = request
    BY <1>4, WorkerGoes DEF Import!Take, Import!MarkerExpires, Import!DeleteSession,
       Import!Recover, Import!RecoverList, Import!RecoverRow, Import!RecoverPut
  <2> QED BY <1>1, <1>3, <2>1
<1>5. CASE Import!Crash
  BY <1>1, <1>3, <1>5, CrashDoes DEF IInv
<1> QED BY <1>3, <1>4, <1>5

\* Only the recovery and a crash change what there is to recover.
LEMMA RecoveringStays ==
  ASSUME Import!ImportAssumption, IInv, Import!Next
  PROVE  recovering' = recovering \/ Import!Crash \/ Import!RecoverList \/ Import!RecoverRow \/ Import!RecoverPut
<1>1. ASSUME NEW i \in Jobs,
             \/ \E e \in Exports : Import!Upload(i, e)
             \/ \E a \in DOMAIN archive : Import!FromFile(i, a)
             \/ Import!Request(i) \/ Import!RequestFails(i) \/ Import!Take(i)
             \/ Import!MarkerExpires(i)
      PROVE  recovering' = recovering
  BY <1>1 DEF Import!Upload, Import!FromFile, Import!Request, Import!ListEntries,
     Import!CreateEntries, Import!SaveJob, Import!Enqueue, Import!RequestFails, Import!Take,
     Import!MarkerExpires
<1>2. (\E c \in Convs : Import!DeleteSession(c)) \/ Import!Import \/ Import!StoreRaises => recovering' = recovering
  BY WorkerGoes DEF Import!DeleteSession
<1> QED BY <1>1, <1>2 DEF Import!Next, Import!Recover

\* Every step keeps the entries of the recovery.
LEMMA RecoversStep ==
  ASSUME Import!ImportAssumption, IInv, Import!Next, Typed'
  PROVE  Recovers'
<1>1. Typed /\ Working /\ Recovers
  BY DEF IInv
<1>2. CASE recovering = <<>>
  <2>1. CASE recovering' = <<>>
    BY <2>1 DEF Recovers
  <2>2. CASE Import!Crash
    <3>1. recovering' = <<Import!Listing>> /\ \A j \in Jobs : request'[j].pc \in {"none", "done"}
      BY <1>1, <2>2, CrashDoes
    <3>2. DOMAIN recovering' = {1} /\ recovering'[1] = Import!Listing /\ Import!Listing.pc = "list"
      BY <3>1 DEF Import!Listing
    <3> QED BY <3>1, <3>2 DEF Recovers
  <2>3. ~Import!RecoverList /\ ~Import!RecoverRow /\ ~Import!RecoverPut
    BY <1>2 DEF Import!RecoverList, Import!RecoverRow, Import!RecoverPut
  <2> QED BY <1>2, <2>1, <2>2, <2>3, RecoveringStays
<1>3. CASE recovering # <<>>
  <2>1. \A j \in Jobs : request'[j].pc \in {"none", "done"}
    BY <1>3, NotServed
  <2>2. CASE Import!Crash
    <3>1. recovering' = <<Import!Listing>>
      BY <1>1, <2>2, CrashDoes
    <3>2. DOMAIN recovering' = {1} /\ recovering'[1] = Import!Listing /\ Import!Listing.pc = "list"
      BY <3>1 DEF Import!Listing
    <3> QED BY <2>1, <3>2 DEF Recovers
  <2>3. ASSUME \A n \in DOMAIN recovering' :
                 \E m \in DOMAIN recovering :
                    /\ n # 1 => recovering'[n].pc = "row"
                    /\ recovering'[n].pc # "list" =>
                         /\ recovering[m].pc # "list" /\ recovering'[n].job = recovering[m].job
                         /\ recovering'[n].row = recovering[m].row
        PROVE  Recovers'
    <3>1. ASSUME NEW n \in DOMAIN recovering', recovering'[n].pc # "list"
          PROVE  /\ recovering'[n].job \in Jobs
                 /\ job'[recovering'[n].job].status # "none"
                 /\ recovering'[n].row.status \in {"pending", "running"}
      <4>1. PICK m \in DOMAIN recovering :
              /\ recovering[m].pc # "list" /\ recovering'[n].job = recovering[m].job
              /\ recovering'[n].row = recovering[m].row
        BY <2>3, <3>1
      <4> QED BY <1>1, <4>1, RowStays DEF Recovers
    <3> QED BY <2>1, <2>3, <3>1 DEF Recovers
  <2>4. CASE recovering' = recovering
    <3>1. \A n \in DOMAIN recovering : n # 1 => recovering[n].pc = "row"
      BY <1>1 DEF Recovers
    <3> QED BY <2>3, <2>4, <3>1
  <2>5. CASE Import!RecoverRow
    <3>1. /\ recovering[1].pc = "row" /\ DOMAIN recovering' = DOMAIN recovering
          /\ recovering'[1].pc = "put" /\ recovering'[1].job = recovering[1].job
          /\ recovering'[1].row = recovering[1].row
          /\ \A n \in DOMAIN recovering : n # 1 => recovering'[n] = recovering[n]
      BY <1>1, <2>5, RecoverRowDoes
    <3>2. \A n \in DOMAIN recovering : n # 1 => recovering[n].pc = "row"
      BY <1>1 DEF Recovers
    <3> QED BY <2>3, <3>1, <3>2
  <2>6. CASE Import!RecoverPut
    <3>1. \A n \in DOMAIN recovering' : n + 1 \in DOMAIN recovering /\ recovering'[n] = recovering[n + 1]
                                        /\ n + 1 # 1
      BY <1>1, <2>6, RecoverPutDoes DEF Typed
    <3>2. \A n \in DOMAIN recovering : n # 1 => recovering[n].pc = "row"
      BY <1>1 DEF Recovers
    <3>3. \A n \in DOMAIN recovering' : recovering'[n].pc = "row"
      BY <3>1, <3>2
    <3> QED BY <2>3, <3>1, <3>3
  <2>7. CASE Import!RecoverList
    BY <1>1, <2>1, <2>7, RecoverListDoes DEF Recovers
  <2> QED BY <2>2, <2>4, <2>5, <2>6, <2>7, RecoveringStays
<1> QED BY <1>2, <1>3

\* What has happened has happened.
LEMMA HistoryGrows ==
  ASSUME Import!ImportAssumption, IInv, Import!Next
  PROVE  struck \subseteq struck' /\ stale \subseteq stale' /\ removed \subseteq removed'
<1>1. Typed /\ Working
  BY DEF IInv
<1>2. ASSUME NEW i \in Jobs,
             \/ \E e \in Exports : Import!Upload(i, e)
             \/ \E a \in DOMAIN archive : Import!FromFile(i, a)
             \/ Import!Request(i) \/ Import!RequestFails(i) \/ Import!Take(i)
             \/ Import!MarkerExpires(i)
      PROVE  UNCHANGED <<struck, stale, removed>>
  BY <1>2 DEF Import!Upload, Import!FromFile, Import!Request, Import!ListEntries,
     Import!CreateEntries, Import!SaveJob, Import!Enqueue, Import!RequestFails, Import!Take,
     Import!MarkerExpires
<1>3. CASE Import!Import \/ Import!StoreRaises
  BY <1>3, WorkerGoes
<1>4. CASE (\E c \in Convs : Import!DeleteSession(c)) \/ Import!RecoverList \/ Import!RecoverRow
             \/ Import!RecoverPut
  BY <1>4 DEF Import!DeleteSession, Import!RecoverList, Import!RecoverRow, Import!RecoverPut
<1>5. CASE Import!Crash
  BY <1>1, <1>5, CrashDoes
<1> QED BY <1>2, <1>3, <1>4, <1>5 DEF Import!Next, Import!Recover

\* What the worker holds is not saved by a request, and not lost to the recovery.
LEMMA HeldRow ==
  ASSUME Import!ImportAssumption, IInv, Import!Next, importer.job \in Jobs,
         importer.job \notin stale',
         ~Import!Import
  PROVE  LET row == job[importer.job] next == job'[importer.job]
         IN /\ next.processed = row.processed /\ next.percent = row.percent /\ next.summary = row.summary
            /\ next = row \/ (row.status = "running" /\ next.status = "pending")
<1>1. RowMoves(importer.job)
  BY StepRows
<1>2. ~Import!SaveJob(importer.job)
  BY Held DEF Import!SaveJob
<1>3. ~Import!MarkRunning /\ ~Import!SaveProgress /\ ~Import!Fail /\ ~Import!Complete
  BY DEF Import!Import
<1>4. Import!RecoverRow /\ recovering[1].job = importer.job /\ recovering[1].row.status = "running"
      => job[importer.job] = recovering[1].row
  BY RecoverRowDoes DEF IInv
<1> QED BY <1>1, <1>2, <1>3, <1>4 DEF RowMoves, Turns

InHand ==
  importer.job # NoJob =>
    LET row == job[importer.job]
    IN /\ importer.pc \in Leaving => row.status \in Import!Ended \/ importer.job \in struck \cup stale
       /\ importer.job \notin stale =>
            /\ importer.pc = "audit" => row.status = "completed"
            /\ importer.pc \notin Leaving \cup {"audit"} /\ row.status \in Import!Ended => Refused(row)
            /\ importer.pc \in {"start", "save progress", "complete", "fail"} =>
                 importer.copy.processed >= row.processed
            /\ importer.pc \in {"save progress", "fail"} => importer.copy.percent >= row.percent
       /\ importer.pc = "save progress" => importer.copy.status = "running"

\* Every step keeps what is said of the job in hand.
LEMMA InHandStep ==
  ASSUME Import!ImportAssumption, IInv, Import!Next
  PROVE  InHand'
<1>1. /\ Typed /\ Working /\ InHand /\ NoJob \notin Jobs /\ importer.job \in Jobs \cup {NoJob}
      /\ struck \subseteq struck' /\ stale \subseteq stale'
  BY HistoryGrows DEF IInv, Settled, InHand, Import!ImportAssumption, Typed, Hands
<1>2. ASSUME NEW j \in Jobs, Import!Take(j) PROVE InHand'
  <2>1. importer'.pc = "read" /\ importer'.job = j /\ job' = job /\ stale' = stale
    BY <1>1, <1>2, TakeDoes
  <2>2. status[j] = "queued"
    BY <1>1, <1>2, TakeDoes
  <2>3. job[j].status \notin Import!Ended \/ j \in stale
    BY <2>2 DEF IInv, Settled
  <2> QED BY <2>1, <2>3 DEF InHand, Leaving
<1>3. ASSUME ~Import!Import, importer' = importer PROVE InHand'
  <2>1. CASE importer.job = NoJob
    BY <1>3, <2>1 DEF InHand
  <2>2. CASE importer.job \in Jobs /\ importer.job \notin stale'
    <3>1. LET row == job[importer.job] next == job'[importer.job]
          IN /\ next.processed = row.processed /\ next.percent = row.percent /\ next.summary = row.summary
             /\ next = row \/ (row.status = "running" /\ next.status = "pending")
      BY <1>3, <2>2, HeldRow
    <3>2. importer.job \notin stale
      BY <1>1, <2>2
    <3>3. CASE job'[importer.job] = job[importer.job]
      BY <1>1, <1>3, <2>2, <3>2, <3>3 DEF InHand, Refused
    <3>4. CASE job[importer.job].status = "running" /\ job'[importer.job].status = "pending"
      <4>1. job'[importer.job].status \notin Import!Ended
        BY <3>4 DEF Import!Ended
      <4>2. importer.pc # "audit" /\ (importer.pc \in Leaving => importer.job \in struck)
        BY <1>1, <2>2, <3>2, <3>4 DEF InHand, Import!Ended
      <4> QED BY <1>1, <1>3, <2>2, <3>1, <3>2, <4>1, <4>2 DEF InHand
    <3> QED BY <3>1, <3>3, <3>4
  <2>3. CASE importer.job \in Jobs /\ importer.job \in stale'
    BY <1>1, <1>3, <2>3 DEF InHand
  <2> QED BY <1>1, <2>1, <2>2, <2>3
<1>4. ASSUME importer'.job = NoJob PROVE InHand'
  BY <1>4 DEF InHand
<1>5. ASSUME NEW j \in Jobs, Import!Put(j), Import!Revived, ~Import!Import PROVE InHand'
  <2>1. importer' = importer \/ importer'.job = NoJob
    BY <1>1, <1>5, RevivedDoes DEF Import!Idle
  <2> QED BY <1>3, <1>4, <1>5, <2>1
<1>6. ASSUME importer'.job = importer.job, importer.job \in Jobs,
             importer.pc \notin Leaving \cup {"audit", "read failed", "fail"},
             stale' = stale, job' = job,
             importer'.pc \notin Leaving \cup {"audit", "start", "save progress", "complete", "fail"}
      PROVE  InHand'
  BY <1>1, <1>6 DEF InHand, Refused
<1>7. importer.job \in Jobs => job[importer.job].processed \in Nat /\ job[importer.job].percent \in Nat
  BY <1>1, RowChanged DEF Typed
<1>8. ASSUME importer'.job = importer.job, importer.job \in Jobs, importer.pc \notin Leaving \cup {"audit"},
             stale' = stale, job' = job, importer'.pc \in {"start", "complete", "fail"},
             importer.pc \in {"read failed", "fail"} => importer'.pc = "fail",
             importer'.copy = job[importer.job]
      PROVE  InHand'
  <2>1. /\ importer'.copy.processed >= job'[importer'.job].processed
        /\ importer'.copy.percent >= job'[importer'.job].percent
    <3>1. /\ job'[importer'.job].processed \in Nat /\ job'[importer'.job].percent \in Nat
          /\ importer'.copy = job'[importer'.job]
      BY <1>7, <1>8
    <3> QED BY <3>1
  <2>2. importer.job \notin stale /\ job[importer.job].status \in Import!Ended =>
          Refused(job[importer.job])
    BY <1>1, <1>8 DEF InHand
  <2> QED BY <1>1, <1>8, <2>1, <2>2 DEF InHand, Leaving, Refused
<1>9. CASE Import!ReadJob
  <2>1. importer.job \in Jobs /\ importer.pc = "read"
    BY <1>1, <1>9, ReadJobDoes DEF Moves
  <2>2. job[importer.job].status # "none"
    BY <2>1, Held
  <2> QED BY <1>1, <1>8, <1>9, <2>1, <2>2, ReadJobDoes DEF Moves, AllButWorker, Leaving
<1>10. CASE Import!ReadEnd
  BY <1>1, <1>8, <1>10, ReadEndDoes DEF Moves, AllButWorker, Leaving
<1>11. CASE Import!BuildIndex \/ Import!ReadItem \/ Import!EndOfFile \/ Import!FindSession
  BY <1>1, <1>6, <1>11, BuildIndexDoes, ReadItemDoes, EndOfFileDoes, FindSessionDoes
     DEF Moves, AllButWorker, Leaving
<1>12. CASE Import!NewSession \/ Import!RewriteImages
  BY <1>1, <1>6, <1>12, NewSessionDoes, RewriteImagesDoes DEF Moves, Leaving
<1>13. CASE Import!AddMessages
  <2>1. importer.pc = "messages" /\ importer.job \in Jobs
    BY <1>1, <1>13, HasJob DEF Import!AddMessages, Import!Is, Resting
  <2>2. IsFiniteSet(Import!ItemMessages \ DOMAIN messages)
    BY <2>1, AtItem, FS_Subset
  <2> QED BY <1>1, <1>6, <1>13, <2>1, <2>2, AddMessagesDoes DEF Moves, Leaving
<1>14. CASE Import!ReadProgress
  <2>1. CASE Moves("item", importer.at)
    BY <1>1, <1>6, <1>14, <2>1, ReadProgressDoes DEF Moves, AllButWorker, Leaving
  <2>2. CASE ~Moves("item", importer.at)
    <3>1. /\ Moves("save progress", importer.at) /\ importer.pc = "progress"
          /\ job[importer.job].status = "running" /\ importer'.copy.status = "running"
          /\ importer'.copy.processed >= job[importer.job].processed
          /\ importer'.copy.percent >= job[importer.job].percent
          /\ job' = job
      BY <1>1, <1>14, <2>2, ReadProgressDoes DEF AllButWorker
    <3> QED BY <1>1, <3>1 DEF InHand, Moves, Leaving, Import!Ended
  <2> QED BY <2>1, <2>2
<1>15. CASE Import!MarkRunning \/ Import!SaveProgress
  <2>1. importer.job \in Jobs /\ importer'.job = importer.job /\ importer'.pc \in {"index", "item"}
    BY <1>1, <1>15, MarkRunningDoes, SaveProgressDoes DEF Moves
  <2>2. job'[importer.job].status = "running"
    <3>1. CASE Import!MarkRunning
      <4>1. Writes([importer.copy EXCEPT !.status = "running", !.percent = 0])
        BY <1>1, <3>1, MarkRunningDoes
      <4>2. /\ job'[importer.job] = [importer.copy EXCEPT !.status = "running", !.percent = 0]
            /\ importer.copy \in Rows
        BY <1>1, <2>1, <4>1, WroteTyped, Parts
      <4> QED BY <4>2, RowRuns DEF Turns
    <3>2. CASE Import!SaveProgress
      <4>1. Writes(importer.copy) /\ importer.pc = "save progress"
        BY <1>1, <3>2, SaveProgressDoes
      <4> QED BY <1>1, <2>1, <4>1, WroteTyped DEF InHand
    <3> QED BY <1>15, <3>1, <3>2
  <2> QED BY <2>1, <2>2 DEF InHand, Leaving, Import!Ended
<1>16. CASE Import!Fail \/ Import!Complete
  <2>1. importer.job \in Jobs /\ importer.pc \in {"complete", "fail"}
    BY <1>1, <1>16, HasJob DEF Import!Fail, Import!Complete, Import!Is, Resting
  <2>2. importer'.job = importer.job
    BY <1>1, <1>16, <2>1, Held, FailDoes, CompleteDoes DEF Moves
  <2>3. CASE Import!Fail
    <3>1. Writes([importer.copy EXCEPT !.status = "failed"]) /\ importer'.pc = "release"
      BY <1>1, <2>3, FailDoes DEF Moves
    <3>2. job'[importer.job] = [importer.copy EXCEPT !.status = "failed"]
      BY <1>1, <2>1, <3>1, WroteTyped
    <3>3. Turns(importer.job, importer.copy, "failed")
      BY <1>1, <3>2, Parts, RowTurns
    <3> QED BY <2>2, <3>1, <3>3 DEF InHand, Leaving, Turns, Import!Ended
  <2>4. CASE Import!Complete
    <3>1. PICK p \in Nat : Writes([status |-> "completed", processed |-> p, percent |-> p, summary |-> importer.sum])
      BY <1>1, <2>1, <2>4, Held, CompleteDoes
    <3>2. importer'.pc = "audit" /\ job'[importer.job].status = "completed"
      BY <1>1, <2>1, <2>4, <3>1, Held, CompleteDoes, WroteTyped DEF Moves
    <3> QED BY <2>2, <3>2 DEF InHand, Leaving
  <2> QED BY <1>16, <2>3, <2>4
<1>17. CASE Import!Release
  BY <1>1, <1>4, <1>17, ReleaseDoes
<1>18. CASE Import!StoreRaises
  <2>1. CASE importer'.pc = "release and die"
    BY <1>1, <1>18, <2>1, StoreRaisesDoes DEF InHand, Moves, Leaving
  <2>2. CASE importer'.pc # "release and die" /\ importer.pc # "audit"
    BY <1>1, <1>6, <1>18, <2>2, StoreRaisesDoes DEF Moves, Leaving
  <2>3. CASE importer.pc = "audit"
    <3>1. /\ importer'.job = importer.job /\ importer'.pc = "read failed" /\ importer.job \in Jobs
          /\ importer.job \in struck' /\ job' = job /\ stale' = stale
      BY <1>1, <1>18, <2>3, StoreRaisesDoes DEF Moves
    <3> QED BY <1>1, <2>3, <3>1 DEF InHand, Refused, Leaving
  <2> QED BY <2>1, <2>2, <2>3
<1>25. CASE Import!Audit
  <2>1. /\ importer.pc = "audit" /\ importer'.job = importer.job /\ importer'.pc = "release"
        /\ importer.job \in Jobs /\ job' = job /\ stale' = stale
    BY <1>1, <1>25, AuditDoes DEF Moves, AllButWorker
  <2> QED BY <1>1, <2>1 DEF InHand, Leaving, Import!Ended
<1>19. CASE Import!Import
  BY <1>9, <1>10, <1>11, <1>12, <1>13, <1>14, <1>15, <1>16, <1>17, <1>19, <1>25 DEF Import!Import
<1>20. CASE Import!Crash
  <2>1. importer' = Import!Idle /\ Import!Idle.job = NoJob
    BY <1>1, <1>20, CrashDoes DEF Import!Idle
  <2> QED BY <1>4, <2>1
<1>21. ASSUME NEW j \in Jobs, Import!Enqueue(j) PROVE InHand'
  BY <1>5, <1>19, <1>21 DEF Import!Enqueue
<1>22. CASE Import!RecoverPut
  <2>1. recovering[1].job \in Jobs
    <3>1. recovering # <<>> /\ recovering[1].pc = "put" /\ 1 \in DOMAIN recovering
      BY <1>1, <1>22, RecoverPutDoes DEF Typed
    <3> QED BY <3>1 DEF IInv, Recovers
  <2> QED BY <1>1, <1>5, <1>19, <1>22, <2>1, RecoverPutDoes
<1>23. ASSUME NEW j \in Jobs,
              \/ \E e \in Exports : Import!Upload(j, e)
              \/ \E a \in DOMAIN archive : Import!FromFile(j, a)
              \/ Import!ListEntries(j) \/ Import!CreateEntries(j) \/ Import!SaveJob(j)
              \/ Import!RequestFails(j) \/ Import!MarkerExpires(j)
       PROVE  InHand'
  BY <1>3, <1>19, <1>23 DEF Import!Upload, Import!FromFile, Import!ListEntries,
     Import!CreateEntries, Import!SaveJob, Import!RequestFails, Import!MarkerExpires
<1>24. CASE (\E c \in Convs : Import!DeleteSession(c)) \/ Import!RecoverList \/ Import!RecoverRow
  BY <1>3, <1>19, <1>24 DEF Import!DeleteSession, Import!RecoverList, Import!RecoverRow
<1> QED BY <1>2, <1>18, <1>19, <1>20, <1>21, <1>22, <1>23, <1>24
       DEF Import!Next, Import!Request, Import!Recover

\* Where a job can go in the queue.
LEMMA PlaceMoves ==
  ASSUME Import!ImportAssumption, IInv, Import!Next, NEW j \in Jobs
  PROVE  \/ status'[j] = status[j]
         \/ status[j] = "queued" /\ status'[j] = "importer" /\ Import!Take(j)
         \/ status[j] = "reserved" /\ status'[j] = "free" /\ Import!MarkerExpires(j)
         \/ status[j] = "importer" /\ status'[j] = "free" /\ Import!Release /\ importer.job = j
         \/ Import!Crash /\ ~Durable /\ status'[j] = "free"
         \/ Import!Crash /\ Durable /\ status'[j] = "reserved" /\ j \in struck'
         \/ status'[j] = "queued" /\ Import!Enqueue(j)
         \/ status'[j] = "queued" /\ Import!RecoverPut /\ recovering[1].job = j
<1>1. Typed /\ Working /\ status \in [Jobs -> Places]
  BY DEF IInv, Typed
<1>2. CASE status' = status
  BY <1>2
<1>3. ASSUME NEW i \in Jobs, Import!Take(i) \/ Import!MarkerExpires(i)
      PROVE  i # j => status'[j] = status[j]
  BY <1>1, <1>3, TakeDoes DEF Import!MarkerExpires, Import!Queue!Unreserve
<1>4. CASE Import!Take(j)
  BY <1>1, <1>4, TakeDoes
<1>5. CASE Import!MarkerExpires(j)
  BY <1>1, <1>5 DEF Import!MarkerExpires, Import!Queue!Unreserve
<1>6. CASE Import!Import \/ Import!StoreRaises
  <2>1. CASE Import!Release
    BY <1>1, <2>1, ReleaseDoes DEF Working
  <2>2. CASE status' = status
    BY <2>2
  <2> QED BY <1>6, <2>1, <2>2, WorkerGoes
<1>7. CASE Import!Crash
  BY <1>1, <1>7, CrashDoes
<1>8. ASSUME NEW i \in Jobs, Import!Put(i)
      PROVE  status'[j] = status[j] \/ (i = j /\ status'[j] = "queued")
  BY <1>1, <1>8, PutDoes
<1>9. ASSUME NEW i \in Jobs, Import!Enqueue(i)
      PROVE  status'[j] = status[j] \/ (i = j /\ status'[j] = "queued")
  BY <1>8, <1>9 DEF Import!Enqueue
<1>10. CASE Import!RecoverPut
  <2>1. recovering[1].job \in Jobs
    <3>1. recovering # <<>> /\ recovering[1].pc = "put" /\ 1 \in DOMAIN recovering
      BY <1>1, <1>10, RecoverPutDoes DEF Typed
    <3> QED BY <3>1 DEF IInv, Recovers
  <2> QED BY <1>1, <1>8, <1>10, <2>1, RecoverPutDoes
<1>11. ASSUME NEW i \in Jobs,
              \/ \E e \in Exports : Import!Upload(i, e)
              \/ \E a \in DOMAIN archive : Import!FromFile(i, a)
              \/ Import!ListEntries(i) \/ Import!CreateEntries(i) \/ Import!SaveJob(i)
              \/ Import!RequestFails(i)
       PROVE  status' = status
  BY <1>11 DEF Import!Upload, Import!FromFile, Import!ListEntries, Import!CreateEntries,
     Import!SaveJob, Import!RequestFails
<1>12. CASE (\E c \in Convs : Import!DeleteSession(c)) \/ Import!RecoverList \/ Import!RecoverRow
  BY <1>2, <1>12 DEF Import!DeleteSession, Import!RecoverList, Import!RecoverRow
<1> QED BY <1>2, <1>3, <1>4, <1>5, <1>6, <1>7, <1>9, <1>10, <1>11, <1>12
       DEF Import!Next, Import!Request, Import!Recover

\* A job ends in the hands of the worker only.
LEMMA EndsInHand ==
  ASSUME Import!ImportAssumption, IInv, Import!Next, NEW j \in Jobs,
         job[j].status \notin Import!Ended, job'[j].status \in Import!Ended
  PROVE  importer.job = j /\ Import!Import /\ status'[j] = status[j] /\ status[j] = "importer"
<1>1. RowMoves(j)
  BY StepRows
<1>2. importer.job = j /\ (Import!Fail \/ Import!Complete)
  BY <1>1 DEF RowMoves, Turns, Import!Ended
<1>3. status' = status
  BY <1>2 DEF Import!Fail, Import!Complete, Import!WorkerSaves
<1> QED BY <1>2, <1>3, Held DEF Import!Import

\* What the queue holds has not ended, and what it keeps out was broken off.
LEMMA QueuedStep ==
  ASSUME Import!ImportAssumption, IInv, Import!Next, NEW j \in Jobs
  PROVE  /\ status'[j] = "reserved" => j \in struck'
         /\ status'[j] = "queued" => job'[j].status \notin Import!Ended \/ j \in stale'
<1>1. /\ status[j] = "reserved" => j \in struck
      /\ status[j] = "queued" => job[j].status \notin Import!Ended \/ j \in stale
      /\ struck \subseteq struck' /\ stale \subseteq stale' /\ Typed
  BY HistoryGrows DEF IInv, Settled
<1>2. status'[j] = "reserved" => j \in struck'
  BY <1>1, PlaceMoves
<1>3. ASSUME status'[j] = "queued" PROVE job'[j].status \notin Import!Ended \/ j \in stale'
  <2>1. ASSUME job[j].status \notin Import!Ended PROVE job'[j].status \notin Import!Ended
    BY <1>3, <2>1, EndsInHand
  <2>2. CASE status'[j] = status[j]
    BY <1>1, <1>3, <2>1, <2>2
  <2>3. CASE Import!Enqueue(j)
    <3>1. job[j].status = "pending"
      BY <2>3 DEF Import!Enqueue, IInv, Requested, Ready
    <3> QED BY <2>1, <3>1 DEF Import!Ended
  <2>4. CASE Import!RecoverPut /\ recovering[1].job = j
    <3>1. j \in stale' \/ job[j].status \in {"pending", "running"}
      BY <1>1, <2>4, RecoverPutDoes DEF Import!Unended
    <3> QED BY <2>1, <3>1 DEF Import!Ended
  <2> QED BY <1>3, <2>2, <2>3, <2>4, PlaceMoves
<1> QED BY <1>2, <1>3

\* No step forgets a job.
LEMMA NeverForgottenStep ==
  ASSUME Import!ImportAssumption, IInv, Import!Next, Typed'
  PROVE  NeverForgotten'
<1>1. /\ Typed /\ Working /\ NeverForgotten /\ recovering \in Seq(Entries)
      /\ struck \subseteq struck' /\ stale \subseteq stale'
      /\ \A n \in DOMAIN recovering : n # 1 => recovering[n].pc = "row"
  BY HistoryGrows DEF IInv, Settled, Typed, Recovers
<1> SUFFICES ASSUME NEW j \in Jobs, job'[j].status \in {"pending", "running"},
                    status'[j] = "free", request'[j].pc # "put", j \notin struck' \cup stale'
             PROVE  \E n \in DOMAIN recovering' : recovering'[n].job = j \/ recovering'[n].pc = "list"
  BY DEF NeverForgotten
<1>2. j \notin struck \cup stale
  BY <1>1
<1>3. CASE Import!Crash
  <2>1. recovering' = <<Import!Listing>>
    BY <1>1, <1>3, CrashDoes
  <2>2. 1 \in DOMAIN recovering' /\ recovering'[1].pc = "list"
    BY <2>1 DEF Import!Listing
  <2> QED BY <2>2
<1>4. CASE ~Import!Crash
  <2>1. ~Import!SaveJob(j)
    BY DEF Import!SaveJob, Typed, IInv, Requests
  <2>2. status[j] # "importer"
    <3>1. ASSUME status[j] = "importer" PROVE FALSE
      <4>1. Import!Release /\ importer.job = j
        BY <1>4, <3>1, PlaceMoves
      <4>2. job' = job /\ importer.pc \in Leaving /\ importer.job # NoJob
        BY <1>1, <4>1, ReleaseDoes DEF Import!ImportAssumption
      <4> QED BY <1>2, <4>1, <4>2 DEF IInv, Settled, Import!Ended
    <3> QED BY <3>1
  <2>3. status[j] = "free"
    BY <1>1, <1>2, <1>4, <2>2, PlaceMoves DEF IInv, Settled, Typed, Places
  <2>4. importer.job # j
    BY <1>1, <2>2 DEF Working
  <2>5. job[j].status \in {"pending", "running"}
    <3>1. Import!RecoverRow /\ recovering[1].job = j /\ recovering[1].row.status = "running"
          => job[j] = recovering[1].row
      BY <1>1, RecoverRowDoes
    <3>2. RowMoves(j)
      BY StepRows
    <3> QED BY <2>1, <2>4, <3>1, <3>2 DEF RowMoves, Turns
  <2>6. request[j].pc # "put"
    <3>1. ASSUME request[j].pc = "put" PROVE FALSE
      <4>1. recovering = <<>>
        BY <3>1 DEF IInv, Recovers
      <4>2. request'[j] = request[j] \/ Import!Enqueue(j)
        <5>1. ASSUME NEW i \in Jobs,
                     \/ \E e \in Exports : Import!Upload(i, e)
                     \/ \E a \in DOMAIN archive : Import!FromFile(i, a)
                     \/ Import!Request(i) \/ Import!RequestFails(i)
              PROVE  request'[j] = request[j] \/ Import!Enqueue(j)
          BY <1>1, <3>1, <5>1 DEF Import!Upload, Import!FromFile, Import!Request,
             Import!ListEntries, Import!CreateEntries, Import!SaveJob, Import!Enqueue,
             Import!RequestFails, Typed
        <5>2. (\E i \in Jobs : Import!Take(i) \/ Import!MarkerExpires(i)) \/ (\E c \in Convs : Import!DeleteSession(c)) \/ Import!Import
              \/ Import!StoreRaises \/ Import!Recover => request' = request
          BY WorkerGoes DEF Import!Take, Import!MarkerExpires, Import!DeleteSession,
             Import!Recover, Import!RecoverList, Import!RecoverRow, Import!RecoverPut
        <5> QED BY <1>4, <5>1, <5>2 DEF Import!Next
      <4>3. ~Import!Enqueue(j)
        BY <1>1, PutDoes DEF Import!Enqueue
      <4> QED BY <3>1, <4>2, <4>3
    <3> QED BY <3>1
  <2>7. PICK n \in DOMAIN recovering : recovering[n].job = j \/ recovering[n].pc = "list"
    BY <1>1, <1>2, <2>3, <2>5, <2>6 DEF NeverForgotten
  <2>8. CASE recovering' = recovering
    BY <2>7, <2>8
  <2>9. CASE Import!RecoverList
    BY <1>1, <2>5, <2>9, RecoverListDoes
  <2>10. CASE Import!RecoverRow
    <3>1. /\ recovering[1].pc = "row" /\ DOMAIN recovering' = DOMAIN recovering
          /\ recovering'[1].job = recovering[1].job
          /\ \A m \in DOMAIN recovering : m # 1 => recovering'[m] = recovering[m]
      BY <1>1, <2>10, RecoverRowDoes
    <3> QED BY <1>1, <2>7, <3>1
  <2>11. CASE Import!RecoverPut
    <3>1. /\ recovering[1].pc = "put" /\ 1 \in DOMAIN recovering
          /\ \A m \in DOMAIN recovering : m # 1 => m - 1 \in DOMAIN recovering'
                                                   /\ recovering'[m - 1] = recovering[m]
          /\ Import!Put(recovering[1].job)
      BY <1>1, <2>11, RecoverPutDoes
    <3>2. CASE n = 1
      <4>1. recovering[1].job = j
        BY <2>7, <3>1, <3>2
      <4>2. status'[j] # "free"
        BY <1>1, <3>1, <4>1, PutDoes
      <4> QED BY <4>2
    <3>3. CASE n # 1
      BY <2>7, <3>1, <3>3
    <3> QED BY <3>2, <3>3
  <2> QED BY <1>4, <2>8, <2>9, <2>10, <2>11, RecoveringStays
<1> QED BY <1>3, <1>4

\* Every step keeps the jobs settled.
LEMMA SettledStep ==
  ASSUME Import!ImportAssumption, IInv, Import!Next, Typed'
  PROVE  Settled'
BY InHandStep, QueuedStep, NeverForgottenStep DEF Settled, InHand

\* With a queue that died with the process the recovery meets what it listed.
LEMMA FreshStale ==
  ASSUME Import!ImportAssumption, IInv, Import!Next, ~Durable
  PROVE  stale' = {}
<1>1. Typed /\ Working /\ stale = {}
  BY DEF IInv, UpToDate
<1>2. ASSUME NEW i \in Jobs,
             \/ \E e \in Exports : Import!Upload(i, e)
             \/ \E a \in DOMAIN archive : Import!FromFile(i, a)
             \/ Import!Request(i) \/ Import!RequestFails(i) \/ Import!Take(i)
             \/ Import!MarkerExpires(i)
      PROVE  stale' = stale
  BY <1>2 DEF Import!Upload, Import!FromFile, Import!Request, Import!ListEntries,
     Import!CreateEntries, Import!SaveJob, Import!Enqueue, Import!RequestFails, Import!Take,
     Import!MarkerExpires
<1>3. CASE (\E c \in Convs : Import!DeleteSession(c)) \/ Import!Import \/ Import!StoreRaises
             \/ Import!RecoverList \/ Import!Crash
  BY <1>1, <1>3, WorkerGoes DEF Import!DeleteSession, Import!RecoverList, Import!Crash
<1>4. CASE Import!RecoverRow
  <2>1. recovering[1].pc = "row" /\ 1 \in DOMAIN recovering
    BY <1>1, <1>4, RecoverRowDoes DEF Typed
  <2>2. job[recovering[1].job] = recovering[1].row
    BY <2>1 DEF IInv, UpToDate
  <2> QED BY <1>1, <1>4, <2>2, RecoverRowDoes
<1>5. CASE Import!RecoverPut
  <2>1. recovering[1].pc = "put" /\ 1 \in DOMAIN recovering
    BY <1>1, <1>5, RecoverPutDoes DEF Typed
  <2>2. recovering[1].job \in Import!Unended({"pending", "running"})
    BY <2>1 DEF IInv, UpToDate, Recovers, Import!Unended
  <2> QED BY <1>1, <1>5, <2>2, RecoverPutDoes
<1> QED BY <1>1, <1>2, <1>3, <1>4, <1>5 DEF Import!Next, Import!Recover

\* A job that waits for the recovery is touched by nothing else.
LEMMA Untouched ==
  ASSUME Import!ImportAssumption, IInv, Import!Next, NEW j \in Jobs, recovering # <<>>,
         status[j] = "free", ~Import!Crash,
         ~(Import!RecoverPut /\ recovering[1].job = j)
  PROVE  /\ status'[j] = "free"
         /\ ~(Import!RecoverRow /\ recovering[1].job = j) => job'[j] = job[j]
<1>1. request[j].pc \in {"none", "done"} /\ importer.job # j
  BY DEF IInv, Recovers, Working
<1>2. ~Import!Enqueue(j) /\ ~Import!SaveJob(j)
  BY <1>1 DEF Import!Enqueue, Import!SaveJob
<1>3. status'[j] = "free"
  BY <1>2, PlaceMoves
<1>4. ~(Import!RecoverRow /\ recovering[1].job = j) => job'[j] = job[j]
  BY <1>1, <1>2, StepRows DEF RowMoves
<1> QED BY <1>3, <1>4

Fresh(n) ==
  LET entry == recovering[n]
  IN /\ entry.pc = "list" => \A j \in Jobs : status[j] = "free"
     /\ entry.pc # "list" =>
          /\ status[entry.job] = "free"
          /\ job[entry.job].status \in {"pending", "running"}
          /\ entry.pc = "row" => job[entry.job] = entry.row
          /\ \A m \in DOMAIN recovering : recovering[m].job = entry.job => m = n

\* With a queue that dies, every step keeps the recovery up to date.
LEMMA UpToDateStep ==
  ASSUME Import!ImportAssumption, IInv, Import!Next, Typed'
  PROVE  UpToDate'
<1> SUFFICES ASSUME ~Durable PROVE \A n \in DOMAIN recovering' : Fresh(n)'
  BY FreshStale DEF UpToDate, Fresh
<1>1. /\ Typed /\ Working /\ recovering \in Seq(Entries) /\ recovering' \in Seq(Entries)
      /\ \A n \in DOMAIN recovering : Fresh(n)
      /\ \A n \in DOMAIN recovering :
           /\ n # 1 => recovering[n].pc = "row"
           /\ recovering[n].pc # "list" => recovering[n].job \in Jobs
  BY DEF IInv, UpToDate, Fresh, Typed, Recovers
<1>2. CASE Import!Crash
  <2>1. recovering' = <<Import!Listing>> /\ status' = [j \in Jobs |-> "free"]
    BY <1>1, <1>2, CrashDoes
  <2>2. DOMAIN recovering' = {1} /\ recovering'[1].pc = "list"
    BY <2>1 DEF Import!Listing
  <2> QED BY <2>1, <2>2 DEF Fresh
<1>3. CASE Import!RecoverList
  <2>1. recovering[1].pc = "list" /\ 1 \in DOMAIN recovering
    BY <1>1, <1>3, RecoverListDoes
  <2>2. \A j \in Jobs : status'[j] = "free"
    BY <1>1, <1>3, <2>1, RecoverListDoes DEF Fresh
  <2> QED BY <1>1, <1>3, <2>2, RecoverListDoes DEF Fresh
<1>4. CASE Import!RecoverRow
  <2> DEFINE h == recovering[1]
  <2>1. /\ h.pc = "row" /\ h \in Entries /\ DOMAIN recovering' = DOMAIN recovering
        /\ 1 \in DOMAIN recovering /\ recovering # <<>>
        /\ recovering'[1].pc = "put" /\ recovering'[1].job = h.job
        /\ \A m \in DOMAIN recovering : m # 1 => recovering'[m] = recovering[m]
        /\ UNCHANGED status
    BY <1>1, <1>4, RecoverRowDoes
  <2>2. /\ h.job \in Jobs /\ status[h.job] = "free" /\ job[h.job] = h.row
        /\ job[h.job].status \in {"pending", "running"}
        /\ \A m \in DOMAIN recovering : recovering[m].job = h.job => m = 1
    BY <1>1, <2>1 DEF Fresh
  <2>3. job'[h.job].status \in {"pending", "running"}
    <3>1. CASE h.row.status = "running"
      <4>1. h.row \in Rows /\ job'[h.job] = [h.row EXCEPT !.status = "pending"]
        BY <1>1, <1>4, <2>1, <2>2, <3>1, RecoverRowDoes DEF Typed, Entries
      <4> QED BY <4>1, RowTurns DEF Turns
    <3>2. CASE h.row.status # "running"
      BY <1>1, <1>4, <2>2, <3>2, RecoverRowDoes
    <3> QED BY <3>1, <3>2
  <2>4. \A m \in DOMAIN recovering : recovering'[m].job = recovering[m].job
    BY <2>1
  <2>5. Fresh(1)'
    BY <2>1, <2>2, <2>3, <2>4 DEF Fresh
  <2>6. ASSUME NEW n \in DOMAIN recovering, n # 1 PROVE Fresh(n)'
    <3>1. /\ recovering[n].pc = "row" /\ recovering'[n] = recovering[n] /\ recovering[n].job # h.job
          /\ recovering[n].job \in Jobs /\ Fresh(n)
      BY <1>1, <2>1, <2>2, <2>6
    <3>2. job'[recovering[n].job] = job[recovering[n].job]
      BY <1>1, <1>4, <3>1, RecoverRowDoes DEF Typed
    <3> QED BY <2>1, <2>4, <3>1, <3>2 DEF Fresh
  <2> QED BY <2>1, <2>5, <2>6
<1>5. CASE Import!RecoverPut
  <2> DEFINE h == recovering[1]
  <2>1. /\ h.pc = "put" /\ h \in Entries /\ 1 \in DOMAIN recovering /\ recovering # <<>>
        /\ \A n \in DOMAIN recovering' : n + 1 \in DOMAIN recovering /\ recovering'[n] = recovering[n + 1]
        /\ UNCHANGED job /\ Import!Put(h.job)
    BY <1>1, <1>5, RecoverPutDoes
  <2>2. ASSUME NEW n \in DOMAIN recovering' PROVE Fresh(n)'
    <3>1. n \in Nat /\ n + 1 # 1 /\ \A m \in DOMAIN recovering' : m \in Nat
      BY <1>1
    <3>2. /\ n + 1 \in DOMAIN recovering /\ recovering'[n] = recovering[n + 1]
          /\ recovering[n + 1].pc = "row" /\ recovering[n + 1].job \in Jobs /\ Fresh(n + 1)
      BY <1>1, <2>1, <3>1
    <3>3. recovering[n + 1].job # h.job /\ h.job \in Jobs
      BY <1>1, <2>1, <3>1, <3>2 DEF Fresh
    <3>4. status'[recovering[n + 1].job] = status[recovering[n + 1].job]
      BY <1>1, <2>1, <3>2, <3>3, PutDoes
    <3>5. ASSUME NEW m \in DOMAIN recovering', recovering'[m].job = recovering'[n].job PROVE m = n
      <4>1. m + 1 \in DOMAIN recovering /\ recovering[m + 1].job = recovering[n + 1].job
        BY <2>1, <3>2, <3>5
      <4>2. m + 1 = n + 1
        BY <3>2, <4>1 DEF Fresh
      <4> QED BY <3>1, <4>2
    <3> QED BY <2>1, <3>2, <3>4, <3>5 DEF Fresh
  <2> QED BY <2>2
<1>6. CASE recovering = <<>>
  <2>1. ~Import!RecoverList /\ ~Import!RecoverRow /\ ~Import!RecoverPut
    BY <1>6 DEF Import!RecoverList, Import!RecoverRow, Import!RecoverPut
  <2>2. recovering' = <<>> \/ Import!Crash
    BY <1>6, <2>1, RecoveringStays
  <2> QED BY <1>2, <2>2
<1>7. CASE recovering' = recovering /\ recovering # <<>> /\ ~Import!Crash /\ ~Import!RecoverRow
             /\ ~Import!RecoverPut
  <2>1. \A j \in Jobs : status[j] = "free" => status'[j] = "free" /\ job'[j] = job[j]
    BY <1>7, Untouched
  <2>2. ASSUME NEW n \in DOMAIN recovering PROVE Fresh(n)'
    <3>1. Fresh(n) /\ recovering'[n] = recovering[n] /\ (recovering[n].pc # "list" => recovering[n].job \in Jobs)
      BY <1>1, <1>7
    <3>2. CASE recovering[n].pc = "list"
      BY <2>1, <3>1, <3>2 DEF Fresh
    <3>3. CASE recovering[n].pc # "list"
      BY <1>7, <2>1, <3>1, <3>3 DEF Fresh
    <3> QED BY <3>2, <3>3
  <2> QED BY <1>7, <2>2
<1> QED BY <1>2, <1>3, <1>4, <1>5, <1>6, <1>7, RecoveringStays

-----------------------------------------------------------------------------
\* The outcome of a job is final, unless the recovery had an outdated list, or
\* its audit event was refused.
LEMMA FinalStep ==
  ASSUME Import!ImportAssumption, IInv, Import!Next, NEW j \in Jobs,
         job[j].status \in Import!Ended, j \notin stale'
  PROVE  \/ job'[j] = job[j]
         \/ job[j].status = "completed" /\ job'[j].status = "failed" /\ j \in struck
<1>1. Typed /\ j \notin stale /\ RowMoves(j) /\ j # NoJob
  BY HistoryGrows, StepRows DEF IInv, Import!ImportAssumption
<1>2. ~Import!SaveJob(j)
  BY DEF Import!SaveJob, IInv, Requested, Ready, Import!NoRow, Import!Ended
<1>3. importer.job = j => importer.pc \in Leaving \cup {"audit"} \/ Refused(job[j])
  BY <1>1 DEF IInv, Settled
<1>4. importer.job = j => ~Import!MarkRunning /\ ~Import!SaveProgress /\ ~Import!Complete
  BY <1>3 DEF Leaving, Refused, Import!MarkRunning, Import!SaveProgress, Import!Complete,
     Import!Is
<1>5. importer.job = j /\ Import!Fail => job[j].status = "completed" /\ j \in struck
  BY <1>3 DEF Leaving, Refused, Import!Fail, Import!Is
<1>6. Import!RecoverRow /\ recovering[1].job = j /\ recovering[1].row.status = "running"
      => job[j] = recovering[1].row
  BY <1>1, RecoverRowDoes
<1>7. CASE importer.job = j /\ Import!Fail /\ Turns(j, importer.copy, "failed")
  BY <1>5, <1>7 DEF Turns
<1> QED BY <1>1, <1>2, <1>4, <1>6, <1>7 DEF RowMoves, Import!Ended

\* The progress never goes back, with the same exception, and the percentage
\* only where the job starts again.
LEMMA ProgressStep ==
  ASSUME Import!ImportAssumption, IInv, Import!Next, NEW j \in Jobs, j \notin stale'
  PROVE  /\ job[j].processed <= job'[j].processed
         /\ \/ job[j].percent <= job'[j].percent
            \/ Import!Is("start") /\ importer.job = j /\ job'[j].percent = 0
<1> DEFINE Rises == /\ job[j].processed <= job'[j].processed
                    /\ job[j].percent <= job'[j].percent
<1>1. /\ Typed /\ j \notin stale /\ RowMoves(j) /\ j # NoJob
      /\ job[j].processed \in Nat /\ job[j].percent \in Nat /\ job[j].percent <= job[j].processed
      /\ importer.copy.processed \in Nat /\ importer.copy.percent \in Nat
  BY HistoryGrows, StepRows, RowChanged, Parts DEF IInv, Import!ImportAssumption, Typed
<1>2. /\ importer.job = j /\ importer.pc \in {"start", "save progress", "complete", "fail"} =>
           importer.copy.processed >= job[j].processed
      /\ importer.job = j /\ importer.pc \in {"save progress", "fail"} =>
           importer.copy.percent >= job[j].percent
  BY <1>1 DEF IInv, Settled
<1>3. /\ Import!MarkRunning => importer.pc = "start"
      /\ Import!SaveProgress => importer.pc = "save progress"
      /\ Import!Fail => importer.pc = "fail"
      /\ Import!Complete => importer.pc = "complete"
  BY DEF Import!MarkRunning, Import!SaveProgress, Import!Fail, Import!Complete, Import!Is
<1>4. Import!RecoverRow /\ recovering[1].job = j /\ recovering[1].row.status = "running"
      => job[j] = recovering[1].row
  BY <1>1, RecoverRowDoes
<1>5. ASSUME job'[j].processed = job[j].processed, job'[j].percent = job[j].percent PROVE Rises
  BY <1>1, <1>5
<1>6. CASE job'[j] = job[j]
  BY <1>5, <1>6
<1>7. CASE Import!SaveJob(j) /\ Turns(j, Import!NoRow, "pending") /\ job'[j].percent = 0
  <2>1. job[j] = Import!NoRow /\ Import!NoRow.percent = 0
    BY <1>7 DEF Import!SaveJob, IInv, Requested, Ready, Import!NoRow
  <2> QED BY <1>5, <1>7, <2>1 DEF Turns
<1>8. CASE /\ Import!RecoverRow /\ recovering[1].job = j /\ recovering[1].row.status = "running"
           /\ Turns(j, recovering[1].row, "pending") /\ job'[j].percent = recovering[1].row.percent
  BY <1>4, <1>5, <1>8 DEF Turns
<1>9. CASE importer.job = j /\ Import!MarkRunning /\ Turns(j, importer.copy, "running") /\ job'[j].percent = 0
  <2>1. job'[j].processed = importer.copy.processed /\ importer.copy.processed >= job[j].processed
    BY <1>2, <1>3, <1>9 DEF Turns
  <2>2. Import!Is("start")
    BY <1>3, <1>9 DEF Import!Is
  <2> QED BY <1>1, <1>9, <2>1, <2>2
<1>10. CASE /\ importer.job = j /\ (Import!SaveProgress \/ Import!Fail)
            /\ job'[j].processed = importer.copy.processed /\ job'[j].percent = importer.copy.percent
  <2>1. /\ importer.copy.processed >= job[j].processed
        /\ importer.copy.percent >= job[j].percent
    BY <1>2, <1>3, <1>10
  <2> QED BY <1>1, <1>10, <2>1
<1>11. CASE /\ importer.job = j /\ Import!Complete /\ job'[j].processed >= importer.copy.processed
            /\ job'[j].percent = job'[j].processed
  <2>1. Typed'
    BY <1>11, TypedWorker DEF Import!Import
  <2>2. job'[j].processed \in Nat
    BY <2>1, RowChanged DEF Typed
  <2>3. importer.copy.processed >= job[j].processed
    BY <1>2, <1>3, <1>11
  <2> QED BY <1>1, <1>11, <2>2, <2>3
<1>12. CASE importer.job = j /\ Import!SaveProgress /\ Turns(j, importer.copy, "running")
             /\ job'[j].percent = importer.copy.percent
  BY <1>10, <1>12 DEF Turns
<1>13. CASE importer.job = j /\ Import!Fail /\ Turns(j, importer.copy, "failed")
             /\ job'[j].percent = importer.copy.percent
  BY <1>10, <1>13 DEF Turns
<1> HIDE DEF Rises
<1> QED BY <1>1, <1>6, <1>7, <1>8, <1>9, <1>11, <1>12, <1>13 DEF RowMoves

\* Only the user takes from the store.
LEMMA StoreGrows ==
  ASSUME IInv, Import!Next
  PROVE  \/ \E c \in Convs : Import!DeleteSession(c)
         \/ sessions \subseteq sessions' /\ DOMAIN messages \subseteq DOMAIN messages'
<1>1. Typed /\ Working
  BY DEF IInv
<1>2. CASE UNCHANGED <<sessions, messages>>
  BY <1>2
<1>3. ASSUME NEW i \in Jobs,
             \/ \E e \in Exports : Import!Upload(i, e)
             \/ \E a \in DOMAIN archive : Import!FromFile(i, a)
             \/ Import!Request(i) \/ Import!RequestFails(i) \/ Import!Take(i)
             \/ Import!MarkerExpires(i)
      PROVE  UNCHANGED <<sessions, messages>>
  BY <1>3 DEF Import!Upload, Import!FromFile, Import!Request, Import!ListEntries,
     Import!CreateEntries, Import!SaveJob, Import!Enqueue, Import!RequestFails, Import!Take,
     Import!MarkerExpires
<1>4. CASE Import!NewSession
  BY <1>1, <1>4, NewSessionDoes
<1>5. CASE Import!AddMessages \/ Import!RewriteImages
  BY <1>5 DEF Import!AddMessages, Import!RewriteImages, Import!Written
<1>6. CASE \/ Import!ReadJob \/ Import!MarkRunning \/ Import!BuildIndex \/ Import!ReadProgress
           \/ Import!SaveProgress \/ Import!ReadItem \/ Import!EndOfFile
           \/ Import!FindSession \/ Import!ReadEnd \/ Import!Complete \/ Import!Audit \/ Import!Fail
           \/ Import!Release \/ Import!StoreRaises \/ Import!Recover \/ Import!Crash
  BY <1>2, <1>6 DEF Import!StoreRaises, Import!ReadJob, Import!MarkRunning, Import!BuildIndex,
     Import!ReadProgress, Import!SaveProgress, Import!ReadItem, Import!EndOfFile,
     Import!FindSession, Import!ReadEnd, Import!Audit, Import!Goto, Import!Complete, Import!Fail, Import!Release,
        Import!Recover, Import!RecoverList, Import!RecoverRow, Import!RecoverPut, Import!Crash,
           Import!OnlyWorker,
     Import!WorkerSaves
<1> QED BY <1>2, <1>3, <1>4, <1>5, <1>6 DEF Import!Next, Import!Import

\* What is in the store stays there, unless the user deletes it.
LEMMA StoreStays ==
  ASSUME IInv, Import!Next
  PROVE  /\ \A c \in sessions : c \in sessions' \/ c \in removed'
         /\ \A c, m : <<c, m>> \in DOMAIN messages => <<c, m>> \in DOMAIN messages' \/ c \in removed'
<1>1. ASSUME NEW c \in Convs, Import!DeleteSession(c)
      PROVE  /\ \A d \in sessions : d \in sessions' \/ d \in removed'
             /\ \A d, m : <<d, m>> \in DOMAIN messages => <<d, m>> \in DOMAIN messages' \/ d \in removed'
  <2>1. sessions' = sessions \ {c} /\ removed' = removed \cup {c}
        /\ DOMAIN messages' = {m \in DOMAIN messages : m[1] # c}
    BY <1>1 DEF Import!DeleteSession
  <2> QED BY <2>1
<1> QED BY <1>1, StoreGrows

\* Nothing that was in the store goes missing.
LEMMA MissingShrinks ==
  ASSUME Import!ImportAssumption, IInv, Import!Next, NEW j \in Jobs, request[j].pc # "none"
  PROVE  /\ ExportOf(j)' = ExportOf(j) /\ Missing(j)' \subseteq Missing(j)
         /\ IsFiniteSet(Missing(j)) /\ Missing(j) \subseteq Nat \ {0}
<1>1. ExportOf(j)' = ExportOf(j)
  BY StepGrows, ExportStays
<1>2. removed \subseteq removed'
  BY HistoryGrows
<1>3. ASSUME NEW n \in Missing(j)' PROVE n \in Missing(j)
  <2> DEFINE i == ExportOf(j).items[n]
  <2>1. /\ n \in DOMAIN ExportOf(j).items
        /\ \/ i = Odd
           \/ /\ Sound(i) /\ i.conv \notin removed'
              /\ \/ i.conv \notin sessions'
                 \/ \E m \in i.msgs : <<i.conv, m>> \notin DOMAIN messages'
    BY <1>1, <1>3 DEF Missing, Sound
  <2> HIDE DEF i
  <2>2. \/ i = Odd
        \/ /\ Sound(i) /\ i.conv \notin removed
           /\ \/ i.conv \notin sessions
              \/ \E m \in i.msgs : <<i.conv, m>> \notin DOMAIN messages
    BY <1>2, <2>1, StoreStays
  <2> QED BY <2>1, <2>2 DEF Missing, i
<1>4. Missing(j) \subseteq 1 .. Len(ExportOf(j).items) /\ Len(ExportOf(j).items) \in Nat
  BY Exported DEF Missing
<1>5. IsFiniteSet(Missing(j))
  <2>1. IsFiniteSet(1 .. Len(ExportOf(j).items))
    BY <1>4, FS_Interval
  <2> QED BY <1>4, <2>1, FS_Subset
<1>6. 1 .. Len(ExportOf(j).items) \subseteq Nat \ {0}
  BY <1>4
<1> QED BY <1>1, <1>3, <1>4, <1>5, <1>6

Below(S, a) == {n \in S : n < a}
\* What is missing behind a place, as fewer go missing.
LEMMA FewerBehind ==
  ASSUME NEW S, IsFiniteSet(S), NEW T, T \subseteq S, NEW a, NEW e \in Nat,
         Cardinality(Below(S, a)) <= e
  PROVE  Cardinality(Below(T, a)) <= e
<1> DEFINE A == Below(S, a)  B == Below(T, a)
<1>1. B \subseteq A /\ IsFiniteSet(A)
  BY FS_Subset DEF Below
<1>2. Cardinality(B) <= Cardinality(A) /\ Cardinality(A) \in Nat /\ Cardinality(B) \in Nat
  BY <1>1, FS_Subset, FS_CardinalityType
<1>3. Cardinality(A) <= e
  OBVIOUS
<1> HIDE DEF A, B
<1>4. Cardinality(B) <= e
  BY <1>2, <1>3
<1> QED BY <1>4 DEF B

\* One item more behind the worker is at most one more that is missing.
LEMMA OneMoreBehind ==
  ASSUME NEW S, IsFiniteSet(S), S \subseteq Nat, NEW T, T \subseteq S, NEW a \in Nat, NEW e \in Nat,
         Cardinality(Below(S, a)) <= e
  PROVE  /\ Cardinality(Below(T, a + 1)) <= e + 1
         /\ a \notin T => Cardinality(Below(T, a + 1)) <= e
<1> DEFINE A == Below(S, a)  B == Below(T, a + 1)
<1>1. IsFiniteSet(A) /\ Cardinality(A) \in Nat /\ a \notin A
  BY FS_Subset, FS_CardinalityType DEF Below
<1>2. B \subseteq A \cup {a} /\ (a \notin T => B \subseteq A)
  <2>1. ASSUME NEW n \in B PROVE n \in A \/ (n = a /\ a \in T)
    <3>1. n \in T /\ n \in S /\ n \in Nat /\ n < a + 1
      BY DEF Below
    <3>2. n < a \/ n = a
      BY <3>1
    <3> QED BY <3>1, <3>2 DEF Below
  <2> QED BY <2>1
<1>3. Cardinality(A \cup {a}) = Cardinality(A) + 1 /\ IsFiniteSet(A \cup {a})
  BY <1>1, FS_AddElement
<1>4. Cardinality(B) <= Cardinality(A \cup {a}) /\ Cardinality(B) \in Nat
  BY <1>2, <1>3, FS_Subset, FS_CardinalityType
<1>5. a \notin T => Cardinality(B) <= Cardinality(A)
  BY <1>1, <1>2, FS_Subset
<1>6. Cardinality(A) <= e
  OBVIOUS
<1> HIDE DEF A, B
<1>7. Cardinality(B) <= e + 1 /\ (a \notin T => Cardinality(B) <= e)
  BY <1>1, <1>3, <1>4, <1>5, <1>6
<1> QED BY <1>7 DEF B

Behind == Cardinality({n \in Missing(importer.job) : n < importer.at}) <= importer.sum.errors

\* Where the worker stands still, no item behind it goes missing.
LEMMA BehindStays ==
  ASSUME Import!ImportAssumption, IInv, Import!Next, importer.job \in Jobs,
         importer.pc \in Loop \cup Final,
         importer'.job = importer.job, importer'.sum.errors = importer.sum.errors,
         importer'.at = importer.at
  PROVE  Behind'
<1> PICK j \in Jobs : j = importer.job
  OBVIOUS
<1>1. Cardinality({n \in Missing(j) : n < importer.at}) <= importer.sum.errors
  BY DEF IInv, Stored
<1>2. importer.sum.errors \in Nat
  BY Parts, Summed DEF IInv
<1> DEFINE S == Missing(j)  T == Missing(j)'
<1>3. IsFiniteSet(S) /\ T \subseteq S /\ Missing(importer.job)' = T
  BY MissingShrinks, Held
<1>4. Cardinality(Below(S, importer.at)) <= importer.sum.errors
  BY <1>1 DEF Below
<1> HIDE DEF S, T
<1>5. Cardinality(Below(T, importer.at)) <= importer.sum.errors
  BY <1>2, <1>3, <1>4, FewerBehind
<1> QED BY <1>3, <1>5 DEF Behind, Below

\* An item is passed with an error counted for it, or with all it had in the store.
LEMMA BehindAdvances ==
  ASSUME Import!ImportAssumption, IInv, Import!Next, importer.job \in Jobs, importer.pc \in Loop,
         importer'.job = importer.job, importer'.at = importer.at + 1,
         \/ importer'.sum.errors = importer.sum.errors + 1
         \/ importer'.sum.errors = importer.sum.errors /\ importer.at \notin Missing(importer.job)'
  PROVE  Behind'
<1> PICK j \in Jobs : j = importer.job
  OBVIOUS
<1>1. Cardinality({n \in Missing(j) : n < importer.at}) <= importer.sum.errors
  BY DEF IInv, Stored
<1>2. importer.sum.errors \in Nat /\ importer.at \in Nat
  BY Parts, Summed DEF IInv
<1> DEFINE S == Missing(j)  T == Missing(j)'
<1>3. IsFiniteSet(S) /\ T \subseteq S /\ S \subseteq Nat /\ Missing(importer.job)' = T
  BY MissingShrinks, Held
<1>4. Cardinality(Below(S, importer.at)) <= importer.sum.errors
  BY <1>1 DEF Below
<1> HIDE DEF S, T
<1>5. /\ Cardinality(Below(T, importer.at + 1)) <= importer.sum.errors + 1
      /\ importer.at \notin T => Cardinality(Below(T, importer.at + 1)) <= importer.sum.errors
  BY <1>2, <1>3, <1>4, OneMoreBehind
<1> QED BY <1>3, <1>5 DEF Behind, Below

\* The worker sees the same items for a whole job.
LEMMA ItemsStay ==
  ASSUME Import!ImportAssumption, IInv, Import!Next, importer.job \in Jobs,
         importer'.job = importer.job
  PROVE  /\ Import!Items' = Import!Items /\ ExportOf(importer.job)' = ExportOf(importer.job)
         /\ importer'.at = importer.at => Import!Item' = Import!Item
         /\ Missing(importer.job)' \subseteq Missing(importer.job)
<1> PICK j \in Jobs : j = importer.job
  OBVIOUS
<1>1. ExportOf(j)' = ExportOf(j) /\ Missing(j)' \subseteq Missing(j)
  BY MissingShrinks, Held
<1>2. ExportOf(importer.job)' = ExportOf(j)' /\ Missing(importer.job)' = Missing(j)'
  OBVIOUS
<1>3. Import!Items' = Import!Items
  <2>1. /\ Import!Items = ExportOf(importer.job).items
        /\ Import!Items' = ExportOf(importer.job)'.items
    BY DEF Import!Items, Import!Current, Import!ExportOf, ExportOf
  <2> QED BY <1>1, <1>2, <2>1
<1> QED BY <1>1, <1>2, <1>3 DEF Import!Item

AtWork == {"session", "new session", "messages", "rewrite"}
HandStored ==
  /\ importer.pc \in Loop \cup Final => Behind
  /\ importer.pc \in Loop => importer.at > 0
  /\ importer.pc \in Final => importer.at > Len(Import!Items)
  /\ importer.pc \in AtWork => importer.at \in DOMAIN Import!Items /\ Sound(Import!Item)
  /\ importer.pc = "new session" => Import!Item.conv \notin sessions
  /\ importer.pc = "messages" => Import!Item.conv \in sessions \cup removed
  /\ importer.pc = "rewrite" => importer.at \notin Missing(importer.job)

\* Outside the loop over the items nothing is asked.
LEMMA HandStoredElsewhere ==
  ASSUME importer'.pc \notin Loop \cup Final
  PROVE  HandStored'
BY DEF HandStored, Loop, Final, AtWork

\* What the others do leaves the items behind the worker alone.
LEMMA HandStoredWaits ==
  ASSUME Import!ImportAssumption, IInv, Import!Next, importer' = importer,
         sessions' \subseteq sessions
  PROVE  HandStored'
<1>1. CASE importer.pc \notin Loop \cup Final
  BY <1>1, HandStoredElsewhere
<1>2. CASE importer.pc \in Loop \cup Final
  <2>1. importer.job \in Jobs /\ HandStored
    BY <1>2, HasJob DEF IInv, Stored, HandStored, Behind, AtWork, Loop, Final, Resting
  <2>2. /\ Import!Items' = Import!Items /\ Import!Item' = Import!Item
        /\ Missing(importer.job)' \subseteq Missing(importer.job) /\ Behind'
    BY <1>2, <2>1, ItemsStay, BehindStays
  <2>3. Import!Item.conv \in sessions \cup removed => Import!Item.conv \in sessions' \cup removed'
    BY StoreStays, HistoryGrows
  <2> QED BY <2>1, <2>2, <2>3 DEF HandStored, Sound
<1> QED BY <1>1, <1>2

\* The worker goes on with the next item, or begins with the first.
LEMMA HandStoredNext ==
  ASSUME Import!ImportAssumption, IInv, Import!Next, importer.job \in Jobs, importer.pc \in Loop,
         Moves("progress", importer.at + 1),
         \/ importer'.sum.errors = importer.sum.errors + 1
         \/ importer'.sum.errors = importer.sum.errors /\ importer.at \notin Missing(importer.job)'
  PROVE  HandStored'
<1>1. Behind'
  BY BehindAdvances DEF Moves
<1>2. importer'.at > 0
  BY Parts DEF IInv, Moves
<1> QED BY <1>1, <1>2 DEF HandStored, Moves, Final, AtWork

\* The worker goes on with the same item.
LEMMA HandStoredSame ==
  ASSUME Import!ImportAssumption, IInv, Import!Next, importer.job \in Jobs,
         importer.pc \in Loop \cup Final, NEW pc, Moves(pc, importer.at),
         importer'.sum.errors = importer.sum.errors,
         pc \in Loop => importer.at > 0,
         pc \in Final => importer.at > Len(Import!Items),
         pc \in AtWork => importer.at \in DOMAIN Import!Items /\ Sound(Import!Item),
         pc = "new session" => Import!Item.conv \notin sessions',
         pc = "messages" => Import!Item.conv \in sessions' \cup removed',
         pc = "rewrite" => importer.at \notin Missing(importer.job)'
  PROVE  HandStored'
<1>1. Behind'
  BY BehindStays DEF Moves
<1>2. Import!Items' = Import!Items /\ Import!Item' = Import!Item
  BY ItemsStay DEF Moves
<1> QED BY <1>1, <1>2 DEF HandStored, Moves, Sound

\* The worker passes no item that is missing, except with an error.
LEMMA HandStoredWorker ==
  ASSUME Import!ImportAssumption, IInv, Import!Next, Import!Import \/ Import!StoreRaises
  PROVE  HandStored'
<1>1. /\ Typed /\ Working /\ HandStored /\ importer.job \in Jobs
      /\ importer.sum.errors \in Nat /\ importer.at \in Nat
      /\ Len(Import!Items) \in Nat /\ DOMAIN Import!Items = 1 .. Len(Import!Items)
      /\ importer.pc \in Loop => importer.at > 0
      /\ importer.sum.errors + 0 = importer.sum.errors
  <2>1. Typed /\ Working /\ HandStored /\ importer.job \in Jobs
    BY WorkerGoes DEF IInv, Stored, HandStored, Behind, AtWork
  <2>2. importer.sum.errors \in Nat /\ importer.at \in Nat
    BY <2>1, Parts, Summed
  <2>3. importer.sum.errors + 0 = importer.sum.errors
    BY <2>2
  <2> QED BY <2>1, <2>2, <2>3, Held DEF HandStored
<1>2. CASE Import!ReadJob \/ Import!MarkRunning \/ Import!Fail
  <2>1. importer'.pc \in {"release", "start", "index"}
    BY <1>1, <1>2, ReadJobDoes, MarkRunningDoes, FailDoes DEF Moves
  <2> QED BY <2>1, HandStoredElsewhere DEF Loop, Final
<1>3. CASE Import!Release \/ Import!Complete \/ Import!Audit
  <2>1. importer'.pc \in {"idle", "dead", "audit", "release"}
    BY <1>1, <1>3, ReleaseDoes, CompleteDoes, AuditDoes DEF Moves, Resting
  <2> QED BY <2>1, HandStoredElsewhere DEF Loop, Final
<1>4. CASE Import!BuildIndex
  <2>1. importer'.pc = "progress" /\ importer'.at = 1 /\ importer'.sum = importer.sum
        /\ importer'.job = importer.job
    BY <1>1, <1>4, BuildIndexDoes DEF Keeps
  <2> PICK j \in Jobs : j = importer.job
    BY <1>1
  <2> DEFINE T == Missing(j)'
  <2>2. T \subseteq Nat \ {0} /\ Missing(importer.job)' = T
    BY <2>1, MissingShrinks, Held
  <2> HIDE DEF T
  <2>3. {n \in T : n < 1} = {}
    <3>1. ASSUME NEW n \in T PROVE ~(n < 1)
      BY <2>2
    <3> QED BY <3>1
  <2>4. Cardinality({n \in T : n < 1}) = 0
    BY <2>3, FS_EmptySet
  <2>5. Behind'
    BY <1>1, <2>1, <2>2, <2>4 DEF Behind
  <2> QED BY <2>1, <2>5 DEF HandStored, Final, AtWork
<1>5. CASE Import!ReadProgress
  <2>1. importer.pc = "progress" /\ importer'.sum = importer.sum
        /\ \E pc \in {"item", "save progress"} : Moves(pc, importer.at)
    BY <1>1, <1>5, ReadProgressDoes
  <2> QED BY <1>1, <2>1, HandStoredSame DEF Loop, Final, AtWork
<1>6. CASE Import!SaveProgress
  <2>1. importer.pc = "save progress" /\ importer'.sum = importer.sum /\ Moves("item", importer.at)
    BY <1>1, <1>6, SaveProgressDoes DEF Keeps
  <2> QED BY <1>1, <2>1, HandStoredSame DEF Loop, Final, AtWork
<1>7. CASE Import!ReadItem
  <2>1. importer.pc = "item" /\ importer.at <= Len(Import!Items)
    BY <1>1, <1>7, ReadItemDoes
  <2>2. CASE Import!Item = Corrupt /\ Moves("progress", importer.at + 1) /\ Keeps
    <3>1. /\ ~Sound(Import!Item) /\ Import!Item # Odd
          /\ Import!Item = ExportOf(importer.job).items[importer.at]
      BY <1>1, <2>2, Held DEF Sound, Import!Item, Import!ImportAssumption
    <3>2. importer.at \notin Missing(importer.job)
      BY <3>1 DEF Missing
    <3>3. importer.at \notin Missing(importer.job)'
      BY <1>1, <2>2, <3>2, ItemsStay DEF Moves
    <3> QED BY <1>1, <2>1, <2>2, <3>3, HandStoredNext DEF Keeps, Loop
  <2>3. CASE Import!Item = Odd /\ Moves("progress", importer.at + 1) /\ Adds(0, 0, 1)
    BY <1>1, <2>1, <2>3, HandStoredNext DEF Adds, Loop
  <2>4. CASE Sound(Import!Item) /\ Moves("session", importer.at) /\ Adds(0, 0, 0)
    <3>1. importer.at \in DOMAIN Import!Items
      BY <1>1, <2>1 DEF Loop
    <3>2. importer'.sum.errors = importer.sum.errors
      BY <1>1, <2>4 DEF Adds
    <3> QED BY <1>1, <2>1, <2>4, <3>1, <3>2, HandStoredSame DEF Loop, Final
  <2> QED BY <1>1, <1>7, <2>2, <2>3, <2>4, ReadItemDoes
<1>8. CASE Import!EndOfFile
  <2>1. importer.pc = "item" /\ importer.at > Len(Import!Items) /\ importer'.sum = importer.sum
        /\ (Moves("read end", importer.at) \/ Moves("read failed", importer.at))
    BY <1>1, <1>8, EndOfFileDoes DEF Keeps
  <2>2. CASE Moves("read failed", importer.at)
    BY <2>2, HandStoredElsewhere DEF Moves, Loop, Final
  <2>3. CASE Moves("read end", importer.at)
    BY <1>1, <2>1, <2>3, HandStoredSame DEF Loop, AtWork
  <2> QED BY <2>1, <2>2, <2>3
<1>9. CASE Import!FindSession
  <2>1. importer.pc = "session" /\ Adds(0, 0, 0) /\ sessions' = sessions
        /\ \/ Import!Item.conv \in sessions /\ Moves("messages", importer.at)
           \/ Import!Item.conv \notin sessions /\ Moves("new session", importer.at)
    BY <1>1, <1>9, FindSessionDoes DEF AllButWorker
  <2>2. importer'.sum.errors = importer.sum.errors
    BY <1>1, <2>1 DEF Adds
  <2>3. importer.at \in DOMAIN Import!Items /\ Sound(Import!Item)
    BY <1>1, <2>1 DEF HandStored, AtWork
  <2> QED BY <1>1, <2>1, <2>2, <2>3, HandStoredSame DEF Loop, Final
<1>10. CASE Import!NewSession
  <2>1. importer.pc = "new session" /\ Adds(1, 0, 0) /\ sessions' = sessions \cup {Import!Item.conv}
        /\ Moves("messages", importer.at)
    BY <1>1, <1>10, NewSessionDoes
  <2>2. importer'.sum.errors = importer.sum.errors
    BY <1>1, <2>1 DEF Adds
  <2>3. importer.at \in DOMAIN Import!Items /\ Sound(Import!Item)
    BY <1>1, <2>1 DEF HandStored, AtWork
  <2> QED BY <1>1, <2>1, <2>2, <2>3, HandStoredSame DEF Loop, Final
<1>11. CASE Import!AddMessages
  <2>1. importer.pc = "messages"
    BY <1>11 DEF Import!AddMessages, Import!Is
  <2>2. /\ IsFiniteSet(Import!ItemMessages \ DOMAIN messages)
        /\ importer.at \in DOMAIN Import!Items /\ Sound(Import!Item)
        /\ Import!Item = ExportOf(importer.job).items[importer.at]
    BY <1>1, <2>1, AtItem, FS_Subset
  <2> DEFINE k == Cardinality(Import!ItemMessages \ DOMAIN messages)
  <2>3. /\ Adds(0, k, 0) /\ messages' = Import!Written(Import!ItemMessages \ DOMAIN messages)
        /\ UNCHANGED <<sessions, removed>>
        /\ Moves("progress", importer.at + 1) \/ Moves("rewrite", importer.at)
    BY <1>1, <1>11, <2>2, AddMessagesDoes
  <2> HIDE DEF k
  <2>4. importer'.sum.errors = importer.sum.errors
    BY <1>1, <2>3 DEF Adds
  <2>5. \A m \in Import!Item.msgs : <<Import!Item.conv, m>> \in DOMAIN messages'
    BY <2>3 DEF Import!Written, Import!ItemMessages
  <2>6. Import!Item.conv \in sessions' \cup removed'
    BY <1>1, <2>1, <2>3 DEF HandStored
  <2>7. /\ ExportOf(importer.job)' = ExportOf(importer.job)
        /\ Import!Items = ExportOf(importer.job).items
    BY <1>1, <2>3, ItemsStay, Held DEF Moves
  <2>8. importer.at \notin Missing(importer.job)'
    BY <2>2, <2>5, <2>6, <2>7 DEF Missing, Sound
  <2> QED BY <1>1, <2>1, <2>2, <2>3, <2>4, <2>8, HandStoredSame, HandStoredNext DEF Loop, Final
<1>12. CASE Import!RewriteImages
  <2>1. /\ importer.pc = "rewrite" /\ importer'.sum = importer.sum
        /\ Moves("progress", importer.at + 1)
    BY <1>1, <1>12, RewriteImagesDoes DEF Keeps
  <2>2. importer.at \notin Missing(importer.job)'
    BY <1>1, <2>1, ItemsStay DEF HandStored, Moves
  <2> QED BY <1>1, <2>1, <2>2, HandStoredNext DEF Loop
<1>13. CASE Import!ReadEnd
  <2>1. importer'.sum = importer.sum
        /\ \/ importer.pc = "read end" /\ Moves("complete", importer.at)
           \/ importer.pc = "read failed" /\ Moves("fail", importer.at)
    BY <1>1, <1>13, ReadEndDoes
  <2>2. CASE Moves("fail", importer.at)
    BY <2>2, HandStoredElsewhere DEF Moves, Loop, Final
  <2>3. CASE importer.pc = "read end" /\ Moves("complete", importer.at)
    BY <1>1, <2>1, <2>3, HandStoredSame DEF HandStored, Final, Loop, AtWork
  <2> QED BY <2>1, <2>2, <2>3
<1>14. CASE Import!StoreRaises
  <2>1. CASE importer'.pc \in {"release and die", "read failed"}
    BY <2>1, HandStoredElsewhere DEF Loop, Final
  <2>2. CASE importer'.pc \notin {"release and die", "read failed"}
    <3>1. importer.pc \in AtWork /\ Moves("progress", importer.at + 1) /\ Adds(0, 0, 1)
      BY <1>1, <1>14, <2>2, StoreRaisesDoes DEF Moves, AtWork
    <3> QED BY <1>1, <3>1, HandStoredNext DEF Adds, Loop, AtWork
  <2> QED BY <2>1, <2>2
<1> QED BY <1>2, <1>3, <1>4, <1>5, <1>6, <1>7, <1>8, <1>9, <1>10, <1>11, <1>12, <1>13, <1>14
       DEF Import!Import

\* Every step keeps the items behind the worker accounted for.
LEMMA HandStoredStep ==
  ASSUME Import!ImportAssumption, IInv, Import!Next
  PROVE  HandStored'
<1>1. Typed /\ Working
  BY DEF IInv
<1>2. CASE importer' = importer /\ sessions' = sessions
  BY <1>2, HandStoredWaits
<1>3. CASE Import!Import \/ Import!StoreRaises
  BY <1>3, HandStoredWorker
<1>4. ASSUME NEW j \in Jobs, Import!Take(j) PROVE HandStored'
  BY <1>1, <1>4, TakeDoes, HandStoredElsewhere DEF Loop, Final
<1>5. ASSUME Import!Revived, sessions' = sessions PROVE HandStored'
  <2>1. CASE importer' = importer
    BY <1>2, <1>5, <2>1
  <2>2. CASE importer'.pc = "idle"
    BY <2>2, HandStoredElsewhere DEF Loop, Final
  <2> QED BY <1>1, <1>5, <2>1, <2>2, RevivedDoes
<1>6. CASE Import!Crash
  <2>1. importer'.pc = "idle"
    BY <1>1, <1>6, CrashDoes DEF Import!Idle
  <2> QED BY <2>1, HandStoredElsewhere DEF Loop, Final
<1>7. ASSUME NEW c \in Convs, Import!DeleteSession(c) PROVE HandStored'
  BY <1>7, HandStoredWaits DEF Import!DeleteSession
<1>8. ASSUME NEW j \in Jobs, Import!Enqueue(j) PROVE HandStored'
  BY <1>5, <1>8 DEF Import!Enqueue
<1>9. CASE Import!RecoverPut
  BY <1>5, <1>9 DEF Import!RecoverPut
<1>10. ASSUME NEW j \in Jobs,
              \/ \E e \in Exports : Import!Upload(j, e)
              \/ \E a \in DOMAIN archive : Import!FromFile(j, a)
              \/ Import!ListEntries(j) \/ Import!CreateEntries(j) \/ Import!SaveJob(j)
              \/ Import!RequestFails(j) \/ Import!MarkerExpires(j)
       PROVE  HandStored'
  BY <1>2, <1>10 DEF Import!Upload, Import!FromFile, Import!ListEntries, Import!CreateEntries,
     Import!SaveJob, Import!RequestFails, Import!MarkerExpires
<1>11. CASE Import!RecoverList \/ Import!RecoverRow
  BY <1>2, <1>11 DEF Import!RecoverList, Import!RecoverRow
<1> QED BY <1>3, <1>4, <1>6, <1>7, <1>8, <1>9, <1>10, <1>11
       DEF Import!Next, Import!Request, Import!Recover

\* A job with a row was asked for.
LEMMA Asked ==
  ASSUME IInv, NEW j \in Jobs, job[j].status # "none"
  PROVE  request[j].pc # "none"
BY DEF IInv, Requested, Ready, Import!NoRow

\* Every step keeps the completed jobs accounted for.
LEMMA CompletedStep ==
  ASSUME Import!ImportAssumption, IInv, Import!Next
  PROVE  CompletedIsAccounted'
<1> SUFFICES ASSUME NEW j \in Jobs, job'[j].status = "completed"
             PROVE  Cardinality(Missing(j)') <= job'[j].summary.errors
  BY DEF CompletedIsAccounted
<1>1. Typed /\ Working /\ RowMoves(j)
  BY StepRows DEF IInv
<1>2. ASSUME request[j].pc # "none", NEW e \in Nat, Cardinality(Missing(j)) <= e
      PROVE  Cardinality(Missing(j)') <= e
  <2> DEFINE A == Missing(j)  B == Missing(j)'
  <2>1. B \subseteq A /\ IsFiniteSet(A) /\ Cardinality(A) <= e
    BY <1>2, MissingShrinks
  <2> HIDE DEF A, B
  <2>2. Cardinality(B) <= Cardinality(A) /\ Cardinality(A) \in Nat /\ Cardinality(B) \in Nat
    BY <2>1, FS_Subset, FS_CardinalityType
  <2>3. Cardinality(B) <= e
    BY <2>1, <2>2
  <2> QED BY <2>3 DEF B
<1>3. CASE job'[j] = job[j]
  <2>1. request[j].pc # "none" /\ Cardinality(Missing(j)) <= job[j].summary.errors
    BY <1>3, Asked DEF IInv, Stored, CompletedIsAccounted
  <2>2. job[j].summary.errors \in Nat
    BY <1>1, RowChanged, Summed DEF Typed
  <2> QED BY <1>2, <1>3, <2>1, <2>2
<1>4. CASE importer.job = j /\ Import!Complete /\ job'[j].summary = importer.sum
  <2>1. importer.pc = "complete"
    BY <1>4 DEF Import!Complete, Import!Is
  <2>2. /\ Cardinality({n \in Missing(j) : n < importer.at}) <= importer.sum.errors
        /\ importer.at > Len(Import!Items)
    BY <1>4, <2>1 DEF IInv, Stored, Final
  <2>3. importer.at \in Nat /\ importer.sum.errors \in Nat /\ request[j].pc # "none"
    BY <1>1, <1>4, Parts, Summed, Held
  <2>4. Missing(j) \subseteq 1 .. Len(Import!Items) /\ Len(Import!Items) \in Nat
    BY <1>4, Held DEF Missing
  <2>5. {n \in Missing(j) : n < importer.at} = Missing(j)
    BY <2>2, <2>3, <2>4
  <2>6. Cardinality(Missing(j)) <= importer.sum.errors
    BY <2>2, <2>5
  <2> QED BY <1>2, <1>4, <2>3, <2>6
<1>5. CASE ~(job'[j] = job[j])
             /\ ~(importer.job = j /\ Import!Complete /\ job'[j].summary = importer.sum)
  BY <1>1, <1>5 DEF RowMoves, Turns
<1> QED BY <1>3, <1>4, <1>5

\* The two together.
LEMMA StoredStep ==
  ASSUME Import!ImportAssumption, IInv, Import!Next
  PROVE  Stored'
BY HandStoredStep, CompletedStep DEF Stored, HandStored, Behind, AtWork

Writing == Import!AddMessages \/ Import!RewriteImages

\* What can become of the text of a message.
LEMMA StepTexts ==
  ASSUME IInv, Import!Next, NEW m \in DOMAIN messages'
  PROVE  \/ m \in DOMAIN messages /\ messages'[m] = messages[m]
         \/ Writing /\ m \in Import!ItemMessages /\ messages'[m] = Import!Text(m)
<1>1. Typed /\ Working
  BY DEF IInv
<1>2. CASE messages' = messages
  BY <1>2
<1>3. ASSUME NEW i \in Jobs,
             \/ \E e \in Exports : Import!Upload(i, e)
             \/ \E a \in DOMAIN archive : Import!FromFile(i, a)
             \/ Import!Request(i) \/ Import!RequestFails(i) \/ Import!Take(i)
             \/ Import!MarkerExpires(i)
      PROVE  messages' = messages
  BY <1>3 DEF Import!Upload, Import!FromFile, Import!Request, Import!ListEntries,
     Import!CreateEntries, Import!SaveJob, Import!Enqueue, Import!RequestFails, Import!Take,
     Import!MarkerExpires
<1>4. ASSUME NEW c \in Convs, Import!DeleteSession(c)
      PROVE  m \in DOMAIN messages /\ messages'[m] = messages[m]
  BY <1>4 DEF Import!DeleteSession
<1>5. ASSUME NEW ms, messages' = Import!Written(ms), ms \subseteq Import!ItemMessages, Writing
      PROVE  \/ m \in DOMAIN messages /\ messages'[m] = messages[m]
             \/ Writing /\ m \in Import!ItemMessages /\ messages'[m] = Import!Text(m)
  BY <1>5 DEF Import!Written
<1>6. CASE Import!AddMessages
  BY <1>5, <1>6 DEF Import!AddMessages, Writing
<1>7. CASE Import!RewriteImages
  BY <1>5, <1>7 DEF Import!RewriteImages, Writing
<1>8. CASE \/ Import!ReadJob \/ Import!MarkRunning \/ Import!BuildIndex \/ Import!ReadProgress
           \/ Import!SaveProgress \/ Import!ReadItem \/ Import!EndOfFile
           \/ Import!FindSession \/ Import!NewSession \/ Import!ReadEnd \/ Import!Complete \/ Import!Audit
           \/ Import!Fail \/ Import!Release \/ Import!StoreRaises \/ Import!Recover \/ Import!Crash
  BY <1>2, <1>8 DEF Import!StoreRaises, Import!ReadJob, Import!MarkRunning, Import!BuildIndex,
     Import!ReadProgress, Import!SaveProgress, Import!ReadItem, Import!EndOfFile,
     Import!FindSession, Import!NewSession, Import!ReadEnd, Import!Audit, Import!Goto, Import!Complete, Import!Fail,
        Import!Release, Import!Recover, Import!RecoverList, Import!RecoverRow,
           Import!RecoverPut, Import!Crash,
     Import!OnlyWorker, Import!WorkerSaves
<1> QED BY <1>2, <1>3, <1>4, <1>6, <1>7, <1>8 DEF Import!Next, Import!Import

\* Nothing breaks the links of a conversation but a worker without an index.
LEMMA UnbrokenStays ==
  ASSUME IInv, Import!Next, NEW i, Unbroken(i), Writing => importer.index
  PROVE  Unbroken(i)'
<1> SUFFICES ASSUME NEW m \in i.msgs, <<i.conv, m>> \in DOMAIN messages'
             PROVE  messages'[<<i.conv, m>>] # "broken"
  BY DEF Unbroken
<1>1. \A k : importer.index => Import!Text(k) # "broken"
  BY DEF Import!Text
<1> QED BY <1>1, StepTexts DEF Unbroken

Indexed ==
  \A j \in Jobs : ~importer.index /\ (j = importer.job \/ job[j].status = "completed") => ~ExportOf(j).zip
Relinked ==
  ExportOf(importer.job).zip /\ importer.sum.errors = 0 =>
    \A n \in ConvItems(importer.job) : n < importer.at => Unbroken(Import!Items[n])
HandLinked == importer.pc \in Loop \cup Final => Indexed /\ Relinked

\* Outside the loop over the items nothing is asked.
LEMMA HandLinkedElsewhere ==
  ASSUME importer'.pc \notin Loop \cup Final
  PROVE  HandLinked'
BY DEF HandLinked, Loop, Final

\* The export of a job with a row stays.
LEMMA ZipStays ==
  ASSUME Import!ImportAssumption, IInv, Import!Next, NEW j \in Jobs, job[j].status # "none"
  PROVE  ExportOf(j)' = ExportOf(j)
BY Asked, MissingShrinks

\* An index without the images of an archive stays the exception.
LEMMA IndexedStays ==
  ASSUME Import!ImportAssumption, IInv, Import!Next, importer.pc \in Loop \cup Final,
         importer.job \in Jobs, ~Import!Complete,
         importer'.job = importer.job, importer'.index = importer.index
  PROVE  Indexed'
<1> SUFFICES ASSUME ~importer'.index, NEW j \in Jobs,
                    j = importer'.job \/ job'[j].status = "completed"
             PROVE  ~ExportOf(j)'.zip
  BY DEF Indexed
<1>1. Indexed
  BY DEF IInv, Linked, Indexed
<1>2. job'[j].status = "completed" => job[j].status = "completed"
  BY StepRows DEF RowMoves, Turns
<1>3. job[j].status # "none"
  BY <1>2, Held
<1>4. ExportOf(j)' = ExportOf(j)
  BY <1>3, ZipStays
<1> QED BY <1>1, <1>2, <1>4 DEF Indexed

\* The images behind the worker.
LEMMA RelinkedBehind ==
  ASSUME Import!ImportAssumption, IInv, Import!Next, importer.pc \in Loop \cup Final,
         importer.job \in Jobs,
         importer'.job = importer.job, ExportOf(importer.job).zip, importer.sum.errors = 0
  PROVE  /\ \A n \in ConvItems(importer.job) : n < importer.at => Unbroken(Import!Items[n])'
         /\ ConvItems(importer.job)' = ConvItems(importer.job)
         /\ Import!Items' = Import!Items
<1>1. Import!Items' = Import!Items /\ ExportOf(importer.job)' = ExportOf(importer.job)
  BY ItemsStay
<1>2. importer.index
  BY DEF IInv, Linked
<1>3. \A n \in ConvItems(importer.job) : n < importer.at => Unbroken(Import!Items[n])
  BY DEF IInv, Linked
<1>4. ASSUME NEW n \in ConvItems(importer.job), n < importer.at PROVE Unbroken(Import!Items[n])'
  <2> PICK i : i = Import!Items[n]
    OBVIOUS
  <2>1. Unbroken(i)
    BY <1>3, <1>4
  <2>2. Import!Items[n]' = i
    BY <1>1
  <2>3. Unbroken(i)'
    BY <1>2, <2>1, UnbrokenStays
  <2> QED BY <2>2, <2>3
<1>5. ConvItems(importer.job)' = ConvItems(importer.job)
  BY <1>1 DEF ConvItems, Sound
<1> QED BY <1>1, <1>4, <1>5

\* The worker stays with its item.
LEMMA HandLinkedSame ==
  ASSUME Import!ImportAssumption, IInv, Import!Next, importer.pc \in Loop \cup Final,
         importer.job \in Jobs, ~Import!Complete,
         importer'.job = importer.job, importer'.index = importer.index, importer'.at = importer.at,
         importer'.sum.errors = importer.sum.errors
  PROVE  HandLinked'
<1>1. Indexed'
  BY IndexedStays
<1>2. ExportOf(importer.job)' = ExportOf(importer.job)
  BY ItemsStay
<1>3. Relinked'
  BY <1>2, RelinkedBehind DEF Relinked
<1> QED BY <1>1, <1>3 DEF HandLinked

\* The worker goes on.
LEMMA HandLinkedNext ==
  ASSUME Import!ImportAssumption, IInv, Import!Next, importer.pc \in Loop, importer.job \in Jobs,
         ~Import!Complete, Moves("progress", importer.at + 1),
         NEW i, i = Import!Items[importer.at],
         \/ importer'.sum.errors = importer.sum.errors + 1
         \/ /\ importer'.sum.errors = importer.sum.errors
            /\ \/ ~ExportOf(importer.job).zip \/ importer.sum.errors # 0
               \/ importer.at \notin ConvItems(importer.job)
               \/ Unbroken(i)'
  PROVE  HandLinked'
<1>1. Indexed' /\ importer'.job = importer.job /\ importer'.at = importer.at + 1
  BY IndexedStays DEF Moves
<1>2. ExportOf(importer.job)' = ExportOf(importer.job) /\ Import!Items' = Import!Items
  BY <1>1, ItemsStay
<1>3. importer.sum.errors \in Nat /\ importer.at \in Nat /\ ConvItems(importer.job) \subseteq Nat
  <2>1. ConvItems(importer.job) \subseteq 1 .. Len(Import!Items) /\ Len(Import!Items) \in Nat
    BY Held DEF ConvItems
  <2>2. 1 .. Len(Import!Items) \subseteq Nat
    BY <2>1
  <2>3. importer.sum.errors \in Nat /\ importer.at \in Nat
    BY Parts, Summed DEF IInv
  <2> QED BY <2>1, <2>2, <2>3
<1>4. Relinked'
  <2> SUFFICES ASSUME ExportOf(importer.job)'.zip, importer'.sum.errors = 0,
                      NEW n \in ConvItems(importer.job)', n < importer'.at
               PROVE  Unbroken(Import!Items[n])'
    BY DEF Relinked
  <2>1. importer'.sum.errors = importer.sum.errors
    BY <1>3
  <2>2. /\ \A k \in ConvItems(importer.job) : k < importer.at => Unbroken(Import!Items[k])'
        /\ n \in ConvItems(importer.job)
    BY <1>1, <1>2, <2>1, RelinkedBehind
  <2>3. n < importer.at \/ n = importer.at
    BY <1>1, <1>3, <2>2
  <2>4. CASE n < importer.at
    BY <2>2, <2>4
  <2>5. CASE n = importer.at
    <3>1. Unbroken(i)' /\ Import!Items'[n] = i
      BY <1>2, <2>1, <2>2, <2>5
    <3> QED BY <3>1
  <2> QED BY <2>3, <2>4, <2>5
<1> QED BY <1>1, <1>4 DEF HandLinked

\* The index has the images of every archive that a request has registered.
LEMMA BuildIndexLinked ==
  ASSUME Import!ImportAssumption, IInv, Import!Next, Import!BuildIndex
  PROVE  HandLinked'
<1>1. Typed /\ Working
  BY DEF IInv
<1>2. /\ UNCHANGED <<request, archive, job>> /\ importer'.job = importer.job
      /\ importer.job \in Jobs
      /\ importer'.at = 1 /\ (importer'.index = \E a \in DOMAIN archive : archive[a].rows > 0)
  BY <1>1, BuildIndexDoes DEF AllButWorker
<1>3. Indexed'
  <2> SUFFICES ASSUME ~importer'.index, NEW j \in Jobs, j = importer'.job \/ job'[j].status = "completed"
               PROVE  ~ExportOf(j)'.zip
    BY DEF Indexed
  <2>1. job[j].status # "none"
    BY <1>2, Held
  <2>2. request[j].path \in DOMAIN archive /\ (ExportOf(j).zip => archive[request[j].path].rows > 0)
    BY <2>1 DEF IInv, Requested, Ready, Import!NoRow
  <2>3. ~ExportOf(j).zip
    BY <1>2, <2>2
  <2>4. ExportOf(j)' = ExportOf(j)
    BY <2>1, ZipStays
  <2> QED BY <2>3, <2>4
<1>4. Relinked'
  <2>1. ConvItems(importer.job)' \subseteq Nat \ {0}
    <3> PICK j \in Jobs : j = importer.job
      BY <1>2
    <3>1. ExportOf(j)' = ExportOf(j) /\ ConvItems(j)' = ConvItems(j)
      <4>1. ExportOf(j)' = ExportOf(j)
        BY <1>2 DEF ExportOf
      <4> QED BY <4>1 DEF ConvItems, Sound
    <3>2. ConvItems(j) \subseteq 1 .. Len(Import!Items) /\ Len(Import!Items) \in Nat
      BY Held DEF ConvItems
    <3>3. 1 .. Len(Import!Items) \subseteq Nat \ {0}
      BY <3>2
    <3> QED BY <1>2, <3>1, <3>2, <3>3
  <2>2. \A n \in ConvItems(importer.job)' : ~(n < importer'.at)
    BY <1>2, <2>1
  <2> QED BY <2>2 DEF Relinked
<1> QED BY <1>3, <1>4 DEF HandLinked

\* An image that is written with an index is linked.
LEMMA ItemUnbroken ==
  ASSUME IInv, Import!Next, Writing, importer.job \in Jobs, NEW i, i = Import!Item,
         ExportOf(importer.job).zip,
         \/ Import!AddMessages /\ Import!ItemMessages \ DOMAIN messages = Import!ItemMessages
         \/ Import!RewriteImages
  PROVE  Unbroken(i)'
<1>1. importer.pc \in {"messages", "rewrite"}
  BY DEF Writing, Import!AddMessages, Import!RewriteImages, Import!Is
<1>2. importer.index
  BY <1>1 DEF IInv, Linked, Loop
<1>3. \A k : Import!Text(k) # "broken"
  BY <1>2 DEF Import!Text
<1> SUFFICES ASSUME NEW m \in i.msgs, <<i.conv, m>> \in DOMAIN messages'
             PROVE  messages'[<<i.conv, m>>] # "broken"
  BY DEF Unbroken
<1> DEFINE k == <<i.conv, m>>
<1>4. k \in Import!ItemMessages
  BY DEF Import!ItemMessages
<1>5. CASE Import!AddMessages /\ Import!ItemMessages \ DOMAIN messages = Import!ItemMessages
  <2>1. messages' = Import!Written(Import!ItemMessages)
    BY <1>5 DEF Import!AddMessages
  <2> QED BY <1>3, <1>4, <2>1 DEF Import!Written
<1>6. CASE Import!RewriteImages
  <2>1. messages' = Import!Written(Import!ItemMessages \cap Images)
    BY <1>6 DEF Import!RewriteImages
  <2>2. CASE k \in Images
    BY <1>3, <1>4, <2>1, <2>2 DEF Import!Written
  <2>3. CASE k \notin Images
    <3>1. k \in DOMAIN messages /\ messages'[k] = messages[k]
      BY <1>4, <2>1, <2>3 DEF Import!Written
    <3> QED BY <2>3, <3>1 DEF IInv, Linked
  <2> QED BY <2>2, <2>3
<1> QED BY <1>5, <1>6

\* The worker leaves no broken link behind.
LEMMA HandLinkedWorker ==
  ASSUME Import!ImportAssumption, IInv, Import!Next, Import!Import \/ Import!StoreRaises
  PROVE  HandLinked'
<1>1. /\ Typed /\ Working /\ importer.job \in Jobs
      /\ importer.sum.errors \in Nat /\ importer.sum.errors + 0 = importer.sum.errors
  <2>1. Typed /\ Working /\ importer.job \in Jobs
    BY WorkerGoes DEF IInv
  <2>2. importer.sum.errors \in Nat
    BY <2>1, Parts, Summed
  <2> QED BY <2>1, <2>2
<1> PICK i : i = Import!Item
  OBVIOUS
<1>2. i = Import!Items[importer.at] /\ (importer.at \in ConvItems(importer.job) => Sound(i))
  BY <1>1, Held DEF Import!Item, ConvItems
<1>3. CASE Import!ReadJob \/ Import!MarkRunning \/ Import!Fail
  <2>1. importer'.pc \in {"release", "start", "index"}
    BY <1>1, <1>3, ReadJobDoes, MarkRunningDoes, FailDoes DEF Moves
  <2> QED BY <2>1, HandLinkedElsewhere DEF Loop, Final
<1>4. CASE Import!Release \/ Import!Complete \/ Import!Audit
  <2>1. importer'.pc \in {"idle", "dead", "audit", "release"}
    BY <1>1, <1>4, Held, ReleaseDoes, CompleteDoes, AuditDoes DEF Moves, Resting
  <2> QED BY <2>1, HandLinkedElsewhere DEF Loop, Final
<1>5. CASE ~Import!Complete /\ (Import!ReadProgress \/ Import!SaveProgress \/ Import!EndOfFile)
  <2>1. importer.pc \in Loop /\ importer'.sum = importer.sum /\ \E pc : Moves(pc, importer.at)
    BY <1>1, <1>5, ReadProgressDoes, SaveProgressDoes, EndOfFileDoes DEF Keeps, Loop
  <2> QED BY <1>1, <1>5, <2>1, HandLinkedSame DEF Moves
<1>6. CASE ~Import!Complete /\ (Import!FindSession \/ Import!NewSession)
  <2>1. importer.pc \in Loop /\ importer'.sum.errors = importer.sum.errors + 0 /\ \E pc : Moves(pc, importer.at)
    BY <1>1, <1>6, FindSessionDoes, NewSessionDoes DEF Adds, Loop
  <2> QED BY <1>1, <1>6, <2>1, HandLinkedSame DEF Moves
<1>7. CASE ~Import!Complete /\ Import!ReadEnd
  <2>1. importer'.sum = importer.sum
        /\ \/ importer.pc = "read end" /\ Moves("complete", importer.at)
           \/ importer.pc = "read failed" /\ Moves("fail", importer.at)
    BY <1>1, <1>7, ReadEndDoes
  <2>2. CASE Moves("fail", importer.at)
    BY <2>2, HandLinkedElsewhere DEF Moves, Loop, Final
  <2>3. CASE importer.pc = "read end" /\ Moves("complete", importer.at)
    BY <1>1, <1>7, <2>1, <2>3, HandLinkedSame DEF Moves, Final
  <2> QED BY <2>1, <2>2, <2>3
<1>8. CASE ~Import!Complete /\ Import!ReadItem
  <2>1. importer.pc \in Loop
    BY <1>1, <1>8, ReadItemDoes DEF Loop
  <2>2. CASE Import!Item = Corrupt /\ Moves("progress", importer.at + 1) /\ Keeps
    <3>1. importer.at \notin ConvItems(importer.job)
      BY <1>2, <2>2 DEF Sound
    <3> QED BY <1>1, <1>2, <1>8, <2>1, <2>2, <3>1, HandLinkedNext DEF Keeps
  <2>3. CASE Moves("progress", importer.at + 1) /\ Adds(0, 0, 1)
    BY <1>1, <1>2, <1>8, <2>1, <2>3, HandLinkedNext DEF Adds
  <2>4. CASE Moves("session", importer.at) /\ Adds(0, 0, 0)
    BY <1>1, <1>8, <2>1, <2>4, HandLinkedSame DEF Adds, Moves
  <2> QED BY <1>1, <1>8, <2>2, <2>3, <2>4, ReadItemDoes
<1>9. CASE ~Import!Complete /\ Import!AddMessages
  <2>1. importer.pc = "messages"
    BY <1>9 DEF Import!AddMessages, Import!Is
  <2>2. IsFiniteSet(Import!ItemMessages \ DOMAIN messages)
    BY <1>1, <2>1, AtItem, FS_Subset
  <2>3. /\ importer'.sum.errors = importer.sum.errors + 0
        /\ \/ /\ Import!ItemMessages \ DOMAIN messages = Import!ItemMessages
              /\ Moves("progress", importer.at + 1)
           \/ Moves("rewrite", importer.at)
    BY <1>1, <1>9, <2>2, AddMessagesDoes DEF Adds
  <2>4. CASE Import!ItemMessages \ DOMAIN messages = Import!ItemMessages
               /\ Moves("progress", importer.at + 1)
    <3>1. ExportOf(importer.job).zip => Unbroken(i)'
      BY <1>1, <1>9, <2>4, ItemUnbroken DEF Writing
    <3> QED BY <1>1, <1>2, <1>9, <2>1, <2>3, <2>4, <3>1, HandLinkedNext DEF Loop
  <2>5. CASE Moves("rewrite", importer.at)
    BY <1>1, <1>9, <2>1, <2>3, <2>5, HandLinkedSame DEF Moves, Loop
  <2> QED BY <2>3, <2>4, <2>5
<1>10. CASE ~Import!Complete /\ Import!RewriteImages
  <2>1. /\ importer.pc = "rewrite" /\ importer'.sum = importer.sum
        /\ Moves("progress", importer.at + 1)
    BY <1>1, <1>10, RewriteImagesDoes DEF Keeps
  <2>2. ExportOf(importer.job).zip => Unbroken(i)'
    BY <1>1, <1>10, ItemUnbroken DEF Writing
  <2> QED BY <1>1, <1>2, <1>10, <2>1, <2>2, HandLinkedNext DEF Loop
<1>11. CASE ~Import!Complete /\ Import!StoreRaises
  <2>1. CASE importer'.pc \in {"release and die", "read failed"}
    BY <2>1, HandLinkedElsewhere DEF Loop, Final
  <2>2. CASE importer'.pc \notin {"release and die", "read failed"}
    <3>1. importer.pc \in AtWork /\ Moves("progress", importer.at + 1) /\ Adds(0, 0, 1)
      BY <1>1, <1>11, <2>2, StoreRaisesDoes DEF Moves, AtWork
    <3> QED BY <1>1, <1>2, <1>11, <3>1, HandLinkedNext DEF Adds, Loop, AtWork
  <2> QED BY <2>1, <2>2
<1> QED BY <1>3, <1>4, <1>5, <1>6, <1>7, <1>8, <1>9, <1>10, <1>11, BuildIndexLinked
       DEF Import!Import

\* Every step keeps the items behind the worker linked.
LEMMA HandLinkedStep ==
  ASSUME Import!ImportAssumption, IInv, Import!Next
  PROVE  HandLinked'
<1>1. Typed /\ Working
  BY DEF IInv
<1>2. CASE Import!Import \/ Import!StoreRaises
  BY <1>2, HandLinkedWorker
<1>3. ASSUME importer' = importer PROVE HandLinked'
  <2>1. CASE importer.pc \in Loop \cup Final /\ ~Import!Complete
    <3>1. importer.job \in Jobs
      BY <1>1, <2>1, HasJob DEF Loop, Final, Resting
    <3> QED BY <1>3, <2>1, <3>1, HandLinkedSame
  <2>2. CASE importer.pc \notin Loop \cup Final
    BY <1>3, <2>2, HandLinkedElsewhere
  <2> QED BY <1>2, <2>1, <2>2 DEF Import!Import
<1>4. ASSUME NEW j \in Jobs, Import!Take(j) PROVE HandLinked'
  BY <1>1, <1>4, TakeDoes, HandLinkedElsewhere DEF Loop, Final
<1>5. ASSUME Import!Revived PROVE HandLinked'
  <2>1. importer' = importer \/ importer'.pc = "idle"
    BY <1>1, <1>5, RevivedDoes
  <2> QED BY <1>3, <2>1, HandLinkedElsewhere DEF Loop, Final
<1>6. CASE Import!Crash
  <2>1. importer'.pc = "idle"
    BY <1>1, <1>6, CrashDoes DEF Import!Idle
  <2> QED BY <2>1, HandLinkedElsewhere DEF Loop, Final
<1>7. ASSUME NEW j \in Jobs, Import!Enqueue(j) PROVE HandLinked'
  BY <1>5, <1>7 DEF Import!Enqueue
<1>8. CASE Import!RecoverPut
  BY <1>5, <1>8 DEF Import!RecoverPut
<1>9. ASSUME NEW j \in Jobs,
              \/ \E e \in Exports : Import!Upload(j, e)
              \/ \E a \in DOMAIN archive : Import!FromFile(j, a)
              \/ Import!ListEntries(j) \/ Import!CreateEntries(j) \/ Import!SaveJob(j)
              \/ Import!RequestFails(j) \/ Import!MarkerExpires(j)
       PROVE  HandLinked'
  BY <1>3, <1>9 DEF Import!Upload, Import!FromFile, Import!ListEntries, Import!CreateEntries,
     Import!SaveJob, Import!RequestFails, Import!MarkerExpires
<1>10. CASE Import!RecoverList \/ Import!RecoverRow \/ \E c \in Convs : Import!DeleteSession(c)
  BY <1>3, <1>10 DEF Import!RecoverList, Import!RecoverRow, Import!DeleteSession
<1> QED BY <1>2, <1>4, <1>6, <1>7, <1>8, <1>9, <1>10 DEF Import!Next, Import!Request, Import!Recover

\* No step breaks the links of a job that has completed.
LEMMA RelinkedStep ==
  ASSUME Import!ImportAssumption, IInv, Import!Next
  PROVE  ImagesRelinked'
<1> SUFFICES ASSUME NEW j \in Jobs, job'[j].status = "completed", ExportOf(j)'.zip,
                    job'[j].summary.errors = 0,
                    NEW n \in ConvItems(j)'
             PROVE  Unbroken(ExportOf(j).items[n])'
  BY DEF ImagesRelinked, Unbroken
<1>1. Typed /\ Working /\ RowMoves(j)
  BY StepRows DEF IInv
<1>2. /\ job[j].status # "none"
      /\ \/ job'[j] = job[j]
         \/ importer.job = j /\ Import!Complete /\ job'[j].summary = importer.sum
  <2>1. \/ job'[j] = job[j]
        \/ importer.job = j /\ Import!Complete /\ job'[j].summary = importer.sum
    BY <1>1 DEF RowMoves, Turns
  <2>2. importer.job = j => job[j].status # "none"
    BY Held
  <2> QED BY <2>1, <2>2
<1>3. ExportOf(j)' = ExportOf(j)
  BY <1>2, ZipStays
<1>4. n \in ConvItems(j) /\ ExportOf(j).zip
  BY <1>3 DEF ConvItems, Sound
<1> PICK i : i = ExportOf(j).items[n]
  OBVIOUS
<1>5. CASE job'[j] = job[j]
  <2>1. Unbroken(i)
    BY <1>4, <1>5 DEF IInv, Linked, ImagesRelinked, Unbroken
  <2>2. Writing => importer.index
    <3>1. Writing => importer.pc \in Loop
      BY DEF Writing, Import!AddMessages, Import!RewriteImages, Import!Is, Loop
    <3> QED BY <1>4, <1>5, <3>1 DEF IInv, Linked
  <2>3. Unbroken(i)'
    BY <2>1, <2>2, UnbrokenStays
  <2> QED BY <1>3, <2>3
<1>6. CASE importer.job = j /\ Import!Complete /\ job'[j].summary = importer.sum
  <2>1. importer.pc = "complete" /\ importer.sum.errors = 0 /\ ~Writing
    BY <1>6 DEF Import!Complete, Import!Is, Writing, Import!AddMessages, Import!RewriteImages
  <2>2. importer.at > Len(Import!Items) /\ Import!Items = ExportOf(j).items /\ importer.at \in Nat
        /\ Len(Import!Items) \in Nat /\ DOMAIN Import!Items = 1 .. Len(Import!Items)
    BY <1>1, <1>6, <2>1, Held, Parts DEF IInv, Stored, Final
  <2>3. n < importer.at
    BY <1>4, <2>2 DEF ConvItems
  <2>4. Unbroken(i)
    BY <1>4, <1>6, <2>1, <2>2, <2>3 DEF IInv, Linked, Final
  <2>5. Unbroken(i)'
    BY <2>1, <2>4, UnbrokenStays
  <2> QED BY <1>3, <2>5
<1> QED BY <1>2, <1>5, <1>6

\* Every step keeps the links.
LEMMA LinkedStep ==
  ASSUME Import!ImportAssumption, IInv, Import!Next
  PROVE  Linked'
<1>1. ASSUME NEW m \in DOMAIN messages', messages'[m] = "broken" PROVE m \in Images
  <2>1. Import!Text(m) = "broken" => m \in Images
    BY DEF Import!Text
  <2> QED BY <1>1, <2>1, StepTexts DEF IInv, Linked
<1> QED BY <1>1, HandLinkedStep, RelinkedStep DEF Linked, HandLinked, Indexed, Relinked

\* What can become of the worker's copy of a row.
LEMMA CopyMoves ==
  ASSUME Import!ImportAssumption, IInv, Import!Next
  PROVE  \/ importer'.job = importer.job /\ importer'.copy.summary = importer.copy.summary
         \/ /\ importer'.job = importer.job /\ importer.job \in Jobs
            /\ importer'.copy.summary = job[importer.job].summary
         \/ importer'.copy.summary = Import!NoSummary
<1>1. Typed /\ Working /\ Import!NoRow.summary = Import!NoSummary /\ Import!Idle.copy = Import!NoRow
  BY DEF IInv, Import!NoRow, Import!Idle
<1>2. CASE importer' = importer
  BY <1>2
<1>3. CASE Import!ReadJob \/ Import!ReadProgress \/ Import!ReadEnd
  BY <1>1, <1>3, ReadJobDoes, ReadProgressDoes, ReadEndDoes DEF Moves, Keeps
<1>4. CASE Import!MarkRunning \/ Import!BuildIndex \/ Import!SaveProgress \/ Import!ReadItem
             \/ Import!EndOfFile \/ Import!FindSession \/ Import!NewSession
           \/ Import!RewriteImages \/ Import!Audit \/ Import!Fail \/ Import!StoreRaises
  BY <1>1, <1>4, AuditDoes, MarkRunningDoes, BuildIndexDoes, SaveProgressDoes, ReadItemDoes, EndOfFileDoes,
     FindSessionDoes,
     NewSessionDoes, RewriteImagesDoes, FailDoes, StoreRaisesDoes DEF Moves, Keeps
<1>5. CASE Import!Complete
  <2>1. importer.job \in Jobs
    BY <1>1, <1>5, HasJob DEF Import!Complete, Import!Is, Resting
  <2> QED BY <1>1, <1>5, <2>1, Held, CompleteDoes DEF Moves, Keeps
<1>6. CASE Import!AddMessages
  <2>1. importer.pc = "messages" /\ importer.job \in Jobs
    BY <1>1, <1>6, HasJob DEF Import!AddMessages, Import!Is, Resting
  <2>2. IsFiniteSet(Import!ItemMessages \ DOMAIN messages)
    BY <2>1, AtItem, FS_Subset
  <2> QED BY <1>1, <1>6, <2>1, <2>2, AddMessagesDoes DEF Moves
<1>7. CASE Import!Release
  BY <1>1, <1>7, ReleaseDoes
<1>8. ASSUME NEW j \in Jobs, Import!Take(j) PROVE importer'.copy.summary = Import!NoSummary
  BY <1>1, <1>8, TakeDoes
<1>9. ASSUME Import!Revived PROVE importer' = importer \/ importer'.copy.summary = Import!NoSummary
  BY <1>1, <1>9, RevivedDoes
<1>10. ASSUME NEW j \in Jobs, Import!Enqueue(j)
       PROVE  importer' = importer \/ importer'.copy.summary = Import!NoSummary
  BY <1>9, <1>10 DEF Import!Enqueue
<1>11. CASE Import!RecoverPut
  BY <1>2, <1>9, <1>11 DEF Import!RecoverPut
<1>12. CASE Import!Crash
  BY <1>1, <1>12, CrashDoes
<1>13. ASSUME NEW j \in Jobs,
              \/ \E e \in Exports : Import!Upload(j, e)
              \/ \E a \in DOMAIN archive : Import!FromFile(j, a)
              \/ Import!ListEntries(j) \/ Import!CreateEntries(j) \/ Import!SaveJob(j)
              \/ Import!RequestFails(j) \/ Import!MarkerExpires(j)
       PROVE  importer' = importer
  BY <1>13 DEF Import!Upload, Import!FromFile, Import!ListEntries, Import!CreateEntries,
     Import!SaveJob, Import!RequestFails, Import!MarkerExpires
<1>14. CASE Import!RecoverList \/ Import!RecoverRow \/ \E c \in Convs : Import!DeleteSession(c)
  BY <1>2, <1>14 DEF Import!RecoverList, Import!RecoverRow, Import!DeleteSession
<1> QED BY <1>2, <1>3, <1>4, <1>5, <1>6, <1>7, <1>8, <1>10, <1>11, <1>12, <1>13, <1>14
        DEF Import!Next, Import!Request, Import!Recover, Import!Import

\* What can become of the entries of the recovery.
LEMMA EntryMoves ==
  ASSUME Import!ImportAssumption, IInv, Import!Next, NEW n \in DOMAIN recovering'
  PROVE  \/ \E m \in DOMAIN recovering :
              recovering'[n].job = recovering[m].job /\ recovering'[n].row = recovering[m].row
         \/ recovering'[n].job \in Jobs /\ recovering'[n].row = job[recovering'[n].job]
         \/ recovering'[n].row = Import!NoRow
<1>1. Typed /\ Working
  BY DEF IInv
<1>2. CASE recovering' = recovering
  BY <1>2
<1>3. CASE Import!Crash
  <2>1. recovering' = <<Import!Listing>> /\ Import!Listing.row = Import!NoRow
    BY <1>1, <1>3, CrashDoes DEF Import!Listing
  <2> QED BY <2>1
<1>4. CASE Import!RecoverList
  BY <1>1, <1>4, RecoverListDoes
<1>5. CASE Import!RecoverRow
  <2>1. /\ n \in DOMAIN recovering /\ recovering'[1].job = recovering[1].job
        /\ recovering'[1].row = recovering[1].row /\ (n # 1 => recovering'[n] = recovering[n])
    BY <1>1, <1>5, RecoverRowDoes
  <2>2. recovering'[n].job = recovering[n].job /\ recovering'[n].row = recovering[n].row
    BY <2>1
  <2> QED BY <2>1, <2>2
<1>6. CASE Import!RecoverPut
  BY <1>1, <1>6, RecoverPutDoes
<1> QED BY <1>2, <1>3, <1>4, <1>5, <1>6, RecoveringStays

-----------------------------------------------------------------------------
Fields == {"sessions", "imported"}
Store(f) == IF f = "sessions" THEN sessions ELSE DOMAIN messages

\* No step but the last of a job claims more than was claimed.
LEMMA ClaimsShrink ==
  ASSUME Import!ImportAssumption, IInv, Import!Next, NEW f \in Fields
  PROVE  /\ ~Import!Complete => Claims(f)' \subseteq Claims(f)
         /\ Import!Complete => Claims(f)' \subseteq Claims(f) \cup ({importer.job} \X (1 .. importer.sum[f]))
<1>1. Typed /\ Working /\ Import!NoRow.summary = Import!NoSummary /\ \A c \in Nat : c > 0 => ~(c <= Import!NoSummary[f])
  BY DEF IInv, Import!NoRow, Import!NoSummary, Fields
<1>2. ASSUME NEW x \in Claims(f)'
      PROVE  x \in Claims(f) \/ (Import!Complete /\ x \in {importer.job} \X (1 .. importer.sum[f]))
  <2>1. PICK j \in Jobs, c \in Nat : x = <<j, c>> /\ c > 0
    BY DEF Claims
  <2>2. \/ c <= job'[j].summary[f]
        \/ importer'.job = j /\ c <= importer'.copy.summary[f]
        \/ \E n \in DOMAIN recovering' : recovering'[n].job = j /\ c <= recovering'[n].row.summary[f]
    BY <1>2, <2>1 DEF Claims
  <2>3. ASSUME \/ c <= job[j].summary[f]
               \/ importer.job = j /\ c <= importer.copy.summary[f]
               \/ \E n \in DOMAIN recovering : recovering[n].job = j /\ c <= recovering[n].row.summary[f]
        PROVE  x \in Claims(f)
    BY <2>1, <2>3 DEF Claims
  <2>4. CASE c <= job'[j].summary[f]
    <3>1. RowMoves(j)
      BY StepRows
    <3>2. Import!RecoverRow => 1 \in DOMAIN recovering
      BY <1>1, RecoverRowDoes DEF Typed
    <3>3. CASE importer.job = j /\ Import!Complete /\ job'[j].summary = importer.sum
      <4>1. importer.sum[f] \in Nat
        BY <1>1, Parts, Summed DEF Fields
      <4>2. c \in 1 .. importer.sum[f]
        BY <2>1, <2>4, <3>3, <4>1
      <4> QED BY <2>1, <3>3, <4>2
    <3>4. CASE job'[j].summary = Import!NoSummary
      BY <1>1, <2>1, <2>4, <3>4
    <3>5. CASE job'[j].summary = job[j].summary
      BY <2>3, <2>4, <3>5
    <3>6. CASE importer.job = j /\ job'[j].summary = importer.copy.summary
      BY <2>3, <2>4, <3>6
    <3>7. CASE Import!RecoverRow /\ recovering[1].job = j
                 /\ job'[j].summary = recovering[1].row.summary
      BY <2>3, <2>4, <3>2, <3>7
    <3> QED BY <1>1, <3>1, <3>3, <3>4, <3>5, <3>6, <3>7 DEF RowMoves, Turns
  <2>5. CASE importer'.job = j /\ c <= importer'.copy.summary[f]
    BY <1>1, <2>1, <2>3, <2>5, CopyMoves
  <2>6. CASE \E n \in DOMAIN recovering' : recovering'[n].job = j
               /\ c <= recovering'[n].row.summary[f]
    <3>1. PICK n \in DOMAIN recovering' : recovering'[n].job = j /\ c <= recovering'[n].row.summary[f]
      BY <2>6
    <3> QED BY <1>1, <2>1, <2>3, <3>1, EntryMoves
  <2> QED BY <2>2, <2>4, <2>5, <2>6
<1> QED BY <1>2

\* The worker claims what it has brought in, and no more.
LEMMA MakingMoves ==
  ASSUME Import!ImportAssumption, IInv, Import!Next, Typed', removed' = {}, NEW f \in Fields
  PROVE  /\ Making(f) \in Nat /\ Making(f)' \in Nat
         /\ Cardinality(Store(f)) \in Nat /\ Cardinality(Store(f)') \in Nat
         /\ Making(f)' + Cardinality(Store(f)) <= Making(f) + Cardinality(Store(f)')
         /\ Import!Complete => Making(f) = importer.sum[f] /\ Making(f)' = 0
                        /\ Cardinality(Store(f)') = Cardinality(Store(f))
<1>1. Typed /\ Working
  BY DEF IInv
<1>2. importer.sum[f] \in Nat /\ importer'.sum[f] \in Nat
  <2>1. importer.sum \in Sums /\ importer'.sum \in Sums
    BY <1>1, Parts DEF Typed, Hands
  <2> QED BY <2>1, Summed DEF Fields
<1>3. Making(f) \in Nat /\ Making(f)' \in Nat
  BY <1>2 DEF Making
<1> DEFINE k == Cardinality(Store(f))  l == Cardinality(Store(f)')
<1>4. IsFiniteSet(Store(f)) /\ IsFiniteSet(Store(f)') /\ k \in Nat /\ l \in Nat
  <2>1. IsFiniteSet(Store(f)) /\ IsFiniteSet(Store(f)')
    BY <1>1 DEF Store, Typed
  <2> QED BY <2>1, FS_CardinalityType
<1>5. \A c \in Convs : ~Import!DeleteSession(c)
  BY DEF Import!DeleteSession
<1>6. k <= l
  <2>1. Store(f) \subseteq Store(f)'
    BY <1>5, StoreGrows DEF Store
  <2> DEFINE A == Store(f)  B == Store(f)'
  <2>2. IsFiniteSet(B) /\ A \subseteq B
    BY <1>4, <2>1
  <2> HIDE DEF A, B
  <2>3. Cardinality(A) <= Cardinality(B)
    BY <2>2, FS_Subset
  <2> QED BY <2>3 DEF A, B
<1>7. Import!Complete => Making(f) = importer.sum[f] /\ Making(f)' = 0 /\ Store(f)' = Store(f)
  <2>1. ASSUME Import!Complete
        PROVE  Making(f) = importer.sum[f] /\ Making(f)' = 0 /\ Store(f)' = Store(f)
    <3>1. importer.job \in Jobs /\ importer.pc = "complete"
      BY <1>1, <2>1, HasJob DEF Import!Complete, Import!Is, Resting
    <3>2. importer'.pc = "audit"
      BY <1>1, <2>1, <3>1, Held, CompleteDoes DEF Moves
    <3>3. UNCHANGED <<sessions, messages>>
      BY <2>1 DEF Import!Complete, Import!WorkerSaves
    <3> QED BY <3>1, <3>2, <3>3 DEF Making, Over, Leaving, Store
  <2> QED BY <2>1
<1> SUFFICES Making(f)' + k <= Making(f) + l
  BY <1>3, <1>4, <1>7
<1> HIDE DEF k, l
<1>8. CASE Making(f)' <= Making(f)
  BY <1>3, <1>4, <1>6, <1>8
<1>9. CASE importer' = importer
  <2>1. Making(f)' = Making(f)
    BY <1>9 DEF Making
  <2> QED BY <1>3, <1>8, <2>1
<1>10. CASE importer'.pc \in Over \/ importer'.sum = Import!NoSummary
  <2>1. Making(f)' = 0
    BY <1>10 DEF Making, Import!NoSummary, Fields
  <2> QED BY <1>3, <1>8, <2>1
<1>11. ASSUME importer.pc \notin Over, importer'.sum[f] = importer.sum[f] + 0
       PROVE  Making(f)' + k <= Making(f) + l
  <2>1. Making(f)' <= Making(f)
    BY <1>2, <1>11 DEF Making
  <2> QED BY <1>8, <2>1
<1>12. importer.sum[f] + 0 = importer.sum[f]
  BY <1>2
<1>13. CASE Import!ReadJob \/ Import!MarkRunning \/ Import!BuildIndex \/ Import!ReadProgress
              \/ Import!SaveProgress \/ Import!EndOfFile \/ Import!RewriteImages
  <2>1. importer.pc \notin Over /\ importer'.sum = importer.sum
    BY <1>1, <1>13, ReadJobDoes, MarkRunningDoes, BuildIndexDoes, ReadProgressDoes,
       SaveProgressDoes, EndOfFileDoes,
       RewriteImagesDoes DEF Keeps, Over, Leaving
  <2> QED BY <1>11, <1>12, <2>1
<1>27. CASE Import!Audit \/ Import!Fail
  <2>1. importer'.pc \in Over
    BY <1>1, <1>27, AuditDoes, FailDoes DEF Moves, Over, Leaving
  <2> QED BY <1>10, <2>1
<1>28. CASE Import!ReadEnd
  <2>1. importer'.pc \in Over \/ (importer.pc = "read end" /\ importer'.sum = importer.sum)
    BY <1>1, <1>28, ReadEndDoes DEF Moves, Over
  <2> QED BY <1>10, <1>11, <1>12, <2>1 DEF Over, Leaving
<1>14. CASE Import!Complete
  BY <1>3, <1>7, <1>8, <1>14
<1>15. CASE Import!Release
  BY <1>1, <1>10, <1>15, ReleaseDoes
<1>16. CASE Import!ReadItem \/ Import!FindSession
  <2>1. importer.pc \notin Over /\ (Keeps \/ Adds(0, 0, 1) \/ Adds(0, 0, 0))
    BY <1>1, <1>16, ReadItemDoes, FindSessionDoes DEF Over, Leaving
  <2>2. importer'.sum[f] = importer.sum[f] + 0
    BY <1>12, <2>1 DEF Keeps, Adds, Fields
  <2> QED BY <1>11, <2>1, <2>2
<1>17. CASE Import!StoreRaises
  <2>1. importer'.pc \in Over \/ (importer.pc \notin Over /\ (Keeps \/ Adds(0, 0, 1)))
    BY <1>1, <1>17, StoreRaisesDoes DEF Moves, Over, Leaving
  <2>2. CASE importer'.pc \in Over
    BY <1>10, <2>2
  <2>3. CASE importer.pc \notin Over /\ (Keeps \/ Adds(0, 0, 1))
    <3>1. importer'.sum[f] = importer.sum[f] + 0
      BY <1>12, <2>3 DEF Keeps, Adds, Fields
    <3> QED BY <1>11, <2>3, <3>1
  <2> QED BY <2>1, <2>2, <2>3
<1>18. CASE Import!NewSession
  <2>1. /\ importer.pc = "new session" /\ importer.job \in Jobs /\ importer'.pc = "messages"
        /\ Adds(1, 0, 0)
        /\ sessions' = sessions \cup {Import!Item.conv} /\ messages' = messages
    BY <1>1, <1>18, NewSessionDoes DEF Moves
  <2>2. Import!Item.conv \notin sessions
    BY <2>1 DEF IInv, Stored
  <2>3. CASE f = "sessions"
    <3>1. l = k + 1
      BY <1>4, <2>1, <2>2, <2>3, FS_AddElement DEF Store, k, l
    <3>2. Making(f)' = Making(f) + 1
      BY <2>1, <2>3 DEF Making, Over, Leaving, Adds
    <3> QED BY <1>3, <1>4, <3>1, <3>2
  <2>4. CASE f = "imported"
    BY <1>11, <2>1, <2>4 DEF Over, Leaving, Adds
  <2> QED BY <2>3, <2>4 DEF Fields
<1>19. CASE Import!AddMessages
  <2>1. importer.pc = "messages" /\ importer.job \in Jobs
    BY <1>1, <1>19, HasJob DEF Import!AddMessages, Import!Is, Resting
  <2> DEFINE new == Import!ItemMessages \ DOMAIN messages
             c == Cardinality(new)
  <2>2. IsFiniteSet(new) /\ c \in Nat
    BY <2>1, AtItem, FS_Subset, FS_CardinalityType
  <2>3. /\ Adds(0, c, 0) /\ importer'.pc \notin Over
        /\ DOMAIN messages' = DOMAIN messages \cup new
    BY <1>1, <1>19, <2>2, AddMessagesDoes, WrittenTyped DEF Moves, Over, Leaving
  <2>4. CASE f = "sessions"
    BY <1>11, <2>1, <2>3, <2>4 DEF Over, Leaving, Adds
  <2>5. CASE f = "imported"
    <3>1. l = k + c
      <4> DEFINE D == DOMAIN messages
      <4>1. D \cap new = {} /\ IsFiniteSet(D) /\ Store(f) = D /\ Store(f)' = D \cup new
        BY <1>4, <2>3, <2>5 DEF Store
      <4> HIDE DEF D, new
      <4>2. Cardinality(D \cup new) = Cardinality(D) + Cardinality(new)
        <5>1. /\ Cardinality(D \cup new) = Cardinality(D) + Cardinality(new) - Cardinality(D \cap new)
              /\ Cardinality(D \cap new) = 0
          BY <2>2, <4>1, FS_Union, FS_EmptySet
        <5>2. Cardinality(D) \in Nat /\ Cardinality(new) \in Nat
          BY <2>2, <4>1, FS_CardinalityType
        <5> QED BY <5>1, <5>2
      <4> QED BY <4>1, <4>2 DEF k, l
    <3>2. Making(f)' = Making(f) + c
      BY <2>1, <2>3, <2>5 DEF Making, Over, Leaving, Adds
    <3> HIDE DEF c
    <3> QED BY <1>3, <1>4, <2>2, <3>1, <3>2
  <2> QED BY <2>4, <2>5 DEF Fields
<1>20. ASSUME NEW j \in Jobs, Import!Take(j) PROVE importer'.sum = Import!NoSummary
  BY <1>1, <1>20, TakeDoes
<1>21. ASSUME Import!Revived PROVE importer' = importer \/ importer'.sum = Import!NoSummary
  BY <1>1, <1>21, RevivedDoes DEF Import!Idle
<1>22. ASSUME NEW j \in Jobs, Import!Enqueue(j)
       PROVE  importer' = importer \/ importer'.sum = Import!NoSummary
  BY <1>21, <1>22 DEF Import!Enqueue
<1>23. CASE Import!RecoverPut
  BY <1>9, <1>10, <1>21, <1>23 DEF Import!RecoverPut
<1>24. CASE Import!Crash
  BY <1>1, <1>10, <1>24, CrashDoes DEF Import!Idle
<1>25. ASSUME NEW j \in Jobs,
              \/ \E e \in Exports : Import!Upload(j, e)
              \/ \E a \in DOMAIN archive : Import!FromFile(j, a)
              \/ Import!ListEntries(j) \/ Import!CreateEntries(j) \/ Import!SaveJob(j)
              \/ Import!RequestFails(j) \/ Import!MarkerExpires(j)
       PROVE  importer' = importer
  BY <1>25 DEF Import!Upload, Import!FromFile, Import!ListEntries, Import!CreateEntries,
     Import!SaveJob, Import!RequestFails, Import!MarkerExpires
<1>26. CASE Import!RecoverList \/ Import!RecoverRow
  BY <1>9, <1>26 DEF Import!RecoverList, Import!RecoverRow
<1> QED BY <1>5, <1>9, <1>10, <1>13, <1>14, <1>15, <1>16, <1>17, <1>18, <1>19, <1>20, <1>22,
       <1>23, <1>24, <1>25, <1>26, <1>27, <1>28
        DEF Import!Next, Import!Request, Import!Recover, Import!Import

\* Every step keeps the count: what a completed job adds to the claims, the worker
\* has added to the store.
LEMMA CountedStep ==
  ASSUME Import!ImportAssumption, IInv, Import!Next, Typed'
  PROVE  Counted'
<1> SUFFICES ASSUME removed' = {}, NEW f \in Fields
             PROVE  /\ IsFiniteSet(Claims(f)')
                    /\ Cardinality(Claims(f)') + Making(f)' <= Cardinality(Store(f)')
  BY DEF Counted, Fields, Store
<1>1. Typed /\ removed = {}
  BY HistoryGrows DEF IInv
<1> DEFINE C == Claims(f)  D == Claims(f)'  S == Cardinality(Store(f))  T == Cardinality(Store(f)')
           m == Making(f)  n == Making(f)'
<1>2. IsFiniteSet(C) /\ Cardinality(C) + m <= S
  BY <1>1 DEF IInv, Counted, Fields, Store
<1>3. /\ m \in Nat /\ n \in Nat /\ S \in Nat /\ T \in Nat /\ n + S <= m + T
      /\ Import!Complete => m = importer.sum[f] /\ n = 0 /\ T = S
  BY MakingMoves
<1>4. /\ ~Import!Complete => D \subseteq C
      /\ Import!Complete => D \subseteq C \cup ({importer.job} \X (1 .. importer.sum[f]))
  BY ClaimsShrink
<1> HIDE DEF C, D, S, T, m, n
<1>5. Cardinality(C) \in Nat
  BY <1>2, FS_CardinalityType
<1>6. CASE ~Import!Complete
  <2>1. IsFiniteSet(D) /\ Cardinality(D) <= Cardinality(C) /\ Cardinality(D) \in Nat
    BY <1>2, <1>4, <1>6, FS_Subset, FS_CardinalityType
  <2> QED BY <1>2, <1>3, <1>5, <2>1 DEF D, T, n
<1>7. CASE Import!Complete
  <2> DEFINE E == {importer.job} \X (1 .. m)
  <2>1. IsFiniteSet(E) /\ Cardinality(E) = m
    <3>1. IsFiniteSet(1 .. m) /\ Cardinality(1 .. m) = m
      BY <1>3, FS_Interval
    <3> DEFINE g == [x \in 1 .. m |-> <<importer.job, x>>]
    <3>3. g \in [1 .. m -> E]
      OBVIOUS
    <3>4. \A x, y \in 1 .. m : g[x] = g[y] => x = y
      OBVIOUS
    <3>5. \A e \in E : \E x \in 1 .. m : g[x] = e
      <4> TAKE e \in E
      <4>1. PICK x \in 1 .. m : e = <<importer.job, x>>
        OBVIOUS
      <4> QED BY <4>1
    <3> HIDE DEF g, E
    <3>2. ExistsBijection(1 .. m, E)
      BY <3>3, <3>4, <3>5 DEF ExistsBijection, Bijection, Injection, Surjection, IsInjective
    <3> QED BY <3>1, <3>2, FS_Bijection
  <2>2. D \subseteq C \cup E
    BY <1>3, <1>4, <1>7
  <2> HIDE DEF E
  <2>3. /\ IsFiniteSet(C \cup E) /\ Cardinality(C \cup E) <= Cardinality(C) + m
        /\ Cardinality(C \cup E) \in Nat
    <3>1. /\ Cardinality(C \cup E) = Cardinality(C) + Cardinality(E) - Cardinality(C \cap E)
          /\ IsFiniteSet(C \cup E) /\ IsFiniteSet(C \cap E)
      BY <1>2, <2>1, FS_Union, FS_Subset
    <3>2. Cardinality(C \cap E) \in Nat /\ Cardinality(C \cup E) \in Nat
      BY <3>1, FS_CardinalityType
    <3> QED BY <1>3, <1>5, <2>1, <3>1, <3>2
  <2>4. IsFiniteSet(D) /\ Cardinality(D) <= Cardinality(C \cup E) /\ Cardinality(D) \in Nat
    BY <2>2, <2>3, FS_Subset, FS_CardinalityType
  <2> QED BY <1>2, <1>3, <1>5, <1>7, <2>3, <2>4 DEF D, T, n
<1> QED BY <1>6, <1>7

\* Every step keeps the types.
LEMMA TypedStep ==
  ASSUME Import!ImportAssumption, IInv, Import!Next
  PROVE  Typed'
<1>1. ASSUME NEW j \in Jobs, NEW e \in Exports, Import!Upload(j, e) PROVE Typed'
  BY <1>1, TypedRequests
<1>2. ASSUME NEW j \in Jobs, NEW a \in DOMAIN archive, Import!FromFile(j, a) PROVE Typed'
  BY <1>2, TypedRequests
<1>3. ASSUME NEW j \in Jobs, Import!Request(j) \/ Import!RequestFails(j) PROVE Typed'
  BY <1>3, TypedRequests
<1>4. CASE Import!Import \/ Import!StoreRaises
  BY <1>4, TypedWorker
<1>5. ASSUME \/ \E j \in Jobs : Import!Take(j) \/ Import!MarkerExpires(j)
             \/ \E c \in Convs : Import!DeleteSession(c)
             \/ Import!Crash \/ Import!Recover
      PROVE  Typed'
  BY <1>5, TypedRest
<1> QED BY <1>1, <1>2, <1>3, <1>4, <1>5 DEF Import!Next

\* Before anything was imported.
LEMMA InitSound ==
  ASSUME Import!ImportAssumption, Import!Init
  PROVE  IInv
<1>0. /\ request = [j \in Jobs |-> Import!NoRequest] /\ archive = <<>>
      /\ job = [j \in Jobs |-> Import!NoRow]
      /\ sessions = {} /\ messages = <<>> /\ status = [j \in Jobs |-> "free"]
      /\ importer = Import!Idle /\ recovering = <<>> /\ struck = {} /\ removed = {} /\ stale = {}
  BY DEF Import!Init, Import!Queue!Init
<1>1. /\ Import!NoRequest.pc = "none" /\ Import!NoRow.status = "none"
      /\ Import!NoRow.summary = Import!NoSummary /\ Import!Idle.pc = "idle"
      /\ Import!Idle.job = NoJob
      /\ Import!Idle.copy = Import!NoRow /\ Import!Idle.sum = Import!NoSummary
  BY DEF Import!NoRequest, Import!NoRow, Import!Idle
<1>2. DOMAIN archive = {} /\ DOMAIN messages = {} /\ DOMAIN recovering = {}
  BY <1>0
<1>3. IsFiniteSet({}) /\ Cardinality({}) = 0
  BY FS_EmptySet
<1>4. Typed
  <2>1. /\ recovering \in Seq(Entries)
        /\ archive \in [DOMAIN archive -> [export : Exports, rows : Nat]]
        /\ messages \in [DOMAIN messages -> {"text", "broken", "linked"}]
    BY <1>0
  <2>2. request \in [Jobs -> Requests] /\ job \in [Jobs -> Rows] /\ importer \in Hands
    BY <1>0, Beginnings
  <2>3. status \in [Jobs -> Places]
    BY <1>0 DEF Places
  <2> QED BY <1>0, <1>2, <1>3, <2>1, <2>2, <2>3 DEF Typed
<1>5. Requested
  BY <1>0, <1>1, <1>2 DEF Requested, Ready
<1>6. Working
  BY <1>0, <1>1 DEF Working, Resting, Import!ImportAssumption
<1>7. Recovers /\ UpToDate
  BY <1>0, <1>2 DEF Recovers, UpToDate
<1>8. Settled
  BY <1>0, <1>1 DEF Settled, NeverForgotten
<1>9. Stored
  BY <1>0, <1>1 DEF Stored, Loop, Final, CompletedIsAccounted
<1>10. Linked
  BY <1>0, <1>1, <1>2 DEF Linked, Loop, Final, ImagesRelinked
<1>11. Counted
  <2>1. ASSUME NEW f \in Fields
        PROVE  Claims(f) = {} /\ Making(f) = 0
    <3>1. Import!NoSummary[f] = 0
      BY Beginnings DEF Fields
    <3> QED BY <1>0, <1>1, <1>2, <3>1 DEF Claims, Making, Leaving
  <2>2. /\ Claims("sessions") = {} /\ Making("sessions") = 0 /\ Claims("imported") = {}
        /\ Making("imported") = 0
    BY <2>1 DEF Fields
  <2>3. Cardinality(sessions) = 0 /\ Cardinality(DOMAIN messages) = 0
    BY <1>0, <1>2, <1>3
  <2> QED BY <1>3, <2>2, <2>3 DEF Counted
<1> QED BY <1>4, <1>5, <1>6, <1>7, <1>8, <1>9, <1>10, <1>11 DEF IInv

\* The invariant is inductive.
LEMMA NextSound ==
  ASSUME Import!ImportAssumption, IInv, [Import!Next]_(Import!vars)
  PROVE  IInv'
<1>1. CASE Import!Next
  <2>1. Typed'
    BY <1>1, TypedStep
  <2>2. Requested' /\ Recovers' /\ Settled' /\ UpToDate' /\ Counted'
    BY <1>1, <2>1, RequestedStep, RecoversStep, SettledStep, UpToDateStep, CountedStep
  <2>3. Working' /\ Stored' /\ Linked'
    BY <1>1, WorkingStep, StoredStep, LinkedStep
  <2> QED BY <2>1, <2>2, <2>3 DEF IInv
<1>2. CASE UNCHANGED Import!vars
  <2>1. Typed' /\ Requested' /\ Working' /\ Recovers' /\ UpToDate'
    BY <1>2 DEF Import!vars, IInv, Typed, Requested, Ready, ExportOf, Working, Recovers, UpToDate
  <2>2. Settled'
    BY <1>2 DEF Import!vars, IInv, Settled, Refused, NeverForgotten
  <2>3. Stored'
    BY <1>2 DEF Import!vars, IInv, Stored, CompletedIsAccounted, Missing, ExportOf,
       Import!Items, Import!Item,
                     Import!Current, Import!ExportOf
  <2>4. Linked'
    <3>1. ImagesRelinked'
      <4>1. ASSUME NEW j PROVE ConvItems(j)' = ConvItems(j) /\ ExportOf(j)' = ExportOf(j)
        BY <1>2 DEF Import!vars, ConvItems, ExportOf
      <4>2. job' = job /\ messages' = messages /\ ImagesRelinked
        BY <1>2 DEF Import!vars, IInv, Linked
      <4> SUFFICES ASSUME NEW j \in Jobs, job'[j].status = "completed", ExportOf(j)'.zip, job'[j].summary.errors = 0,
                          NEW n \in ConvItems(j)'
                   PROVE  Unbroken(ExportOf(j).items[n])'
        BY DEF ImagesRelinked, Unbroken
      <4> QED BY <4>1, <4>2 DEF ImagesRelinked, Unbroken
    <3>2. \A n : Unbroken(Import!Items[n])' = Unbroken(Import!Items[n])
      BY <1>2 DEF Import!vars, Unbroken, Import!Items, Import!Current, Import!ExportOf
    <3>3. /\ ConvItems(importer.job)' = ConvItems(importer.job)
          /\ \A j : ExportOf(j)' = ExportOf(j)
          /\ ExportOf(importer.job)' = ExportOf(importer.job)
      BY <1>2 DEF Import!vars, ConvItems, ExportOf
    <3> QED BY <1>2, <3>1, <3>2, <3>3 DEF Import!vars, IInv, Linked
  <2>5. Counted'
    BY <1>2 DEF Import!vars, IInv, Counted, Claims, Making
  <2> QED BY <2>1, <2>2, <2>3, <2>4, <2>5 DEF IInv
<1> QED BY <1>1, <1>2

\* The summaries claim less than the rows and their copies.
LEMMA ClaimedIsClaimed ==
  ASSUME IInv
  PROVE  NothingCountedTwice
<1> SUFFICES ASSUME removed = {}, NEW f \in Fields
             PROVE  Cardinality(Claimed(f)) <= Cardinality(Store(f))
  BY DEF NothingCountedTwice, Fields, Store
<1>1. /\ IsFiniteSet(Claims(f)) /\ Cardinality(Claims(f)) + Making(f) <= Cardinality(Store(f))
      /\ Typed
  BY DEF IInv, Counted, Fields, Store
<1>2. Claimed(f) \subseteq Claims(f)
  <2>1. ASSUME NEW j \in Jobs PROVE job[j].summary[f] \in Nat
    BY <1>1 DEF Typed, Rows, Sums, Fields
  <2> QED BY <2>1 DEF Claimed, Claims
<1>3. /\ Cardinality(Claimed(f)) <= Cardinality(Claims(f))
      /\ Cardinality(Claims(f)) \in Nat /\ Cardinality(Claimed(f)) \in Nat
  BY <1>1, <1>2, FS_Subset, FS_CardinalityType
<1>4. Making(f) \in Nat
  BY <1>1 DEF Making, Typed, Hands, Sums, Fields
<1>5. Cardinality(Store(f)) \in Nat
  BY <1>1, FS_CardinalityType DEF Store, Typed
<1> QED BY <1>1, <1>3, <1>4, <1>5

\* The invariant holds in every reachable state.
LEMMA Invariance == ASSUME Import!ImportAssumption PROVE Import!Spec => []IInv
<1> QED BY InitSound, NextSound, PTL DEF Import!Spec

\* A completed job left out nothing it counts no error for, nothing is counted
\* twice, images are linked again, and no job is forgotten.
THEOREM ImportsAccountedHolds ==
  ASSUME Import!ImportAssumption
  PROVE  Import!Spec => []ImportsAccounted
<1>1. IInv => ImportsAccounted
  BY ClaimedIsClaimed DEF IInv, Stored, Settled, Linked, ImportsAccounted
<1> QED BY <1>1, Invariance, PTL

\* The outcome of a job never changes, unless the recovery had an outdated list;
\* only a completed job whose audit event was refused goes on to fail.
THEOREM EndedIsFinalHolds == ASSUME Import!ImportAssumption PROVE Import!Spec => Import!EndedIsFinal
<1>1. ASSUME IInv, [Import!Next]_(Import!vars)
      PROVE  [\A j \in Jobs : job[j].status \in Import!Ended =>
                \/ job'[j].status = job[j].status \/ j \in stale'
                \/ job[j].status = "completed" /\ job'[j].status = "failed" /\ j \in struck]_(Import!vars)
  BY <1>1, FinalStep
<1> QED BY <1>1, Invariance, PTL DEF Import!Spec, Import!EndedIsFinal

\* What a job has processed never falls, nor does its percentage but to nothing
\* where the job starts again, with the same exception of an outdated list.
THEOREM ProgressNeverFallsHolds ==
  ASSUME Import!ImportAssumption
  PROVE  Import!Spec => Import!ProgressNeverFalls
<1>1. ASSUME IInv, [Import!Next]_(Import!vars)
      PROVE  [\A j \in Jobs :
                \/ /\ job[j].processed <= job'[j].processed
                   /\ \/ job[j].percent <= job'[j].percent
                      \/ Import!Is("start") /\ Import!Current = j /\ job'[j].percent = 0
                \/ j \in stale']_(Import!vars)
  BY <1>1, ProgressStep DEF Import!Current
<1> QED BY <1>1, Invariance, PTL DEF Import!Spec, Import!ProgressNeverFalls

\* With a queue that dies with the process there is no exception: no list is outdated.
THEOREM NoneIsStaleHolds ==
  ASSUME Import!ImportAssumption, ~Durable
  PROVE  Import!Spec => [](stale = {})
<1>1. IInv => stale = {}
  BY DEF IInv, UpToDate
<1> QED BY <1>1, Invariance, PTL
=============================================================================
