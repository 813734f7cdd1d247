------------------------- MODULE RedisJobQueueProofs -------------------------
(***************************************************************************)
(* For any ids, replicas, callers and priorities: the Redis queue is well  *)
(* typed and serves in order whatever fails; as long as no reply is lost   *)
(* and no marker ends before its job, it keeps every id in one place and   *)
(* implements DedupQueue.                                                  *)
(***************************************************************************)
EXTENDS RedisJobQueue, TLAPS

\* The state stays well typed when one caller changes.
LEMMA CallerStep ==
  ASSUME TypeInv, NEW c \in Callers, NEW t \in Task(CallerPc),
         caller' = [caller EXCEPT ![c] = t],
         t.pc = "idle" <=> t.item = NoItem,
         IF t.item = NoItem THEN t = Idle ELSE t.priority \in Priorities,
         UNCHANGED worker, zset' \subseteq Member, marker' \subseteq Items, seq' \in Nat
  PROVE  TypeInv'
<1>1. /\ caller'[c] = t
      /\ \A d \in Callers \ {c} : caller'[d] = caller[d]
  BY DEF TypeInv, TypeOK
<1>2. TypeOK'
  BY <1>1 DEF TypeInv, TypeOK
<1>3. Prepared'
  BY <1>1 DEF TypeInv, Prepared
<1> QED BY <1>2, <1>3 DEF TypeInv

\* The state stays well typed when one worker changes.
LEMMA WorkerStep ==
  ASSUME TypeInv, NEW w \in Workers, NEW t \in Task(WorkerPc),
         worker' = [worker EXCEPT ![w] = t],
         t.pc = "idle" <=> t.item = NoItem,
         t.item = NoItem => t = Idle,
         t.pc \in {"refreshed", "scored"} => t.priority \in Priorities,
         UNCHANGED caller, zset' \subseteq Member, marker' \subseteq Items, seq' \in Nat
  PROVE  TypeInv'
<1>1. /\ worker'[w] = t
      /\ \A v \in Workers \ {w} : worker'[v] = worker[v]
  BY DEF TypeInv, TypeOK
<1>2. TypeOK'
  BY <1>1 DEF TypeInv, TypeOK
<1>3. Prepared'
  BY <1>1 DEF TypeInv, Prepared
<1> QED BY <1>2, <1>3 DEF TypeInv

\* Nobody and no id: what an idle caller or worker is.
LEMMA IdleTask ==
  /\ Idle \in Task(CallerPc) /\ Idle \in Task(WorkerPc)
  /\ Idle.pc = "idle" /\ Idle.item = NoItem
BY DEF Idle, Task, CallerPc, WorkerPc

\* What ZADD puts into the set is a member.
LEMMA ZaddType ==
  ASSUME NEW t, t.item \in Items, t.priority \in Priorities, t.seq \in Nat,
         zset \subseteq Member, Zadd(t)
  PROVE  zset' \subseteq Member
BY DEF Zadd, Member

\* The steps of put keep the state well typed.
LEMMA PutType ==
  ASSUME TypeInv, NEW c \in Callers,
         \/ \E i \in Items, p \in Priorities : SetMarker(c, i, p)
         \/ PutScore(c) \/ PutAdd(c) \/ PutFails(c) \/ PutUndo(c) \/ CallerDies(c)
  PROVE  TypeInv'
<1> USE ConstantsAssumption, IdleTask
<1>0. /\ caller[c] \in Task(CallerPc)
      /\ caller[c].pc = "idle" <=> caller[c].item = NoItem
      /\ caller[c].item # NoItem => caller[c].priority \in Priorities
      /\ zset \subseteq Member /\ marker \subseteq Items /\ seq \in Nat
  BY DEF TypeInv, TypeOK, Prepared
<1>1. ASSUME NEW i \in Items, NEW p \in Priorities, SetMarker(c, i, p) PROVE TypeInv'
  <2> DEFINE t == [pc |-> "marked", item |-> i, priority |-> p, seq |-> 0]
  <2>1. caller' = [caller EXCEPT ![c] = t]
    BY <1>1 DEF SetMarker
  <2>2. t \in Task(CallerPc) /\ t.pc = "marked" /\ t.item = i /\ t.priority = p
    BY DEF Task, CallerPc
  <2>3. /\ UNCHANGED worker /\ zset' \subseteq Member /\ marker' \subseteq Items
        /\ seq' \in Nat
    BY <1>0, <1>1 DEF SetMarker
  <2> HIDE DEF t
  <2> QED BY <2>1, <2>2, <2>3, CallerStep
<1>2. CASE PutScore(c)
  <2> DEFINE t == [caller[c] EXCEPT !.pc = "scored", !.seq = seq']
  <2>1. caller' = [caller EXCEPT ![c] = t]
    BY <1>2 DEF PutScore
  <2>2. seq' \in Nat /\ UNCHANGED <<zset, marker, worker>> /\ caller[c].pc = "marked"
    BY <1>0, <1>2 DEF PutScore, Incr
  <2>3. /\ t \in Task(CallerPc) /\ t.pc = "scored" /\ t.item = caller[c].item
        /\ t.priority = caller[c].priority
    BY <1>0, <2>2 DEF Task, CallerPc
  <2> HIDE DEF t
  <2> QED BY <1>0, <2>1, <2>2, <2>3, CallerStep
<1>3. CASE PutAdd(c)
  <2>1. caller' = [caller EXCEPT ![c] = Idle] /\ UNCHANGED <<marker, seq, worker>>
    BY <1>3 DEF PutAdd
  <2>2. zset' \subseteq Member
    <3>1. caller[c].item \in Items /\ caller[c].priority \in Priorities /\ caller[c].seq \in Nat
      BY <1>0, <1>3 DEF PutAdd, Task
    <3>2. Zadd(caller[c])
      BY <1>3 DEF PutAdd
    <3> QED BY <1>0, <3>1, <3>2, ZaddType
  <2> QED BY <1>0, <2>1, <2>2, CallerStep
<1>4. CASE PutFails(c)
  <2> DEFINE t == [caller[c] EXCEPT !.pc = "undo"]
  <2>1. caller' = [caller EXCEPT ![c] = t] /\ UNCHANGED <<marker, seq, worker>>
    BY <1>4 DEF PutFails
  <2>2. caller[c].pc \in {"marked", "scored"}
    BY <1>4 DEF PutFails
  <2>3. zset' \subseteq Member
    <3>1. caller[c].item \in Items /\ caller[c].priority \in Priorities /\ caller[c].seq \in Nat
      BY <1>0, <2>2 DEF Task
    <3>2. zset' = zset \/ Zadd(caller[c])
      BY <1>4 DEF PutFails
    <3> QED BY <1>0, <3>1, <3>2, ZaddType
  <2>4. /\ t \in Task(CallerPc) /\ t.pc = "undo" /\ t.item = caller[c].item
        /\ t.priority = caller[c].priority
    BY <1>0 DEF Task, CallerPc
  <2> HIDE DEF t
  <2> QED BY <1>0, <2>1, <2>2, <2>3, <2>4, CallerStep
<1>5. CASE PutUndo(c)
  <2>1. /\ caller' = [caller EXCEPT ![c] = Idle] /\ UNCHANGED <<zset, seq, worker>>
        /\ marker' \subseteq Items
    BY <1>0, <1>5 DEF PutUndo
  <2> QED BY <1>0, <2>1, CallerStep
<1>6. CASE CallerDies(c)
  <2>1. /\ caller' = [caller EXCEPT ![c] = Idle] /\ UNCHANGED <<zset, marker, seq, worker>>
    BY <1>6 DEF CallerDies
  <2> QED BY <1>0, <2>1, CallerStep
<1> QED BY <1>1, <1>2, <1>3, <1>4, <1>5, <1>6

\* The steps of a worker keep the state well typed.
LEMMA WorkType ==
  ASSUME TypeInv, NEW w \in Workers,
         \/ \E p \in Priorities : RequeueRefresh(w, p)
         \/ Get(w) \/ Release(w) \/ RequeueScore(w) \/ RequeueAdd(w)
         \/ RequeueFails(w) \/ WorkerDies(w)
  PROVE  TypeInv'
<1> USE ConstantsAssumption, IdleTask
<1>0. /\ worker[w] \in Task(WorkerPc)
      /\ worker[w].pc = "idle" <=> worker[w].item = NoItem
      /\ worker[w].pc \in {"refreshed", "scored"} => worker[w].priority \in Priorities
      /\ zset \subseteq Member /\ marker \subseteq Items /\ seq \in Nat
  BY DEF TypeInv, TypeOK, Prepared
<1>1. ASSUME NEW p \in Priorities, RequeueRefresh(w, p) PROVE TypeInv'
  <2> DEFINE t == [worker[w] EXCEPT !.pc = "refreshed", !.priority = p]
  <2>1. worker' = [worker EXCEPT ![w] = t] /\ worker[w].pc = "working"
    BY <1>1 DEF RequeueRefresh
  <2>2. /\ t \in Task(WorkerPc) /\ t.pc = "refreshed" /\ t.item = worker[w].item
        /\ t.priority = p
    BY <1>0 DEF Task, WorkerPc
  <2>3. UNCHANGED <<zset, marker, seq, caller>>
    BY <1>1 DEF RequeueRefresh
  <2> HIDE DEF t
  <2> QED BY <1>0, <2>1, <2>2, <2>3, WorkerStep
<1>2. CASE Get(w)
  <2>1. PICK m \in zset :
          /\ zset' = zset \ {m}
          /\ \/ worker' = [worker EXCEPT
                    ![w] = [pc |-> "working", item |-> m.item, priority |-> 0, seq |-> 0]]
             \/ UNCHANGED worker
    BY <1>2 DEF Get
  <2>2. UNCHANGED <<marker, seq, caller>> /\ zset' \subseteq Member
    BY <1>0, <1>2, <2>1 DEF Get
  <2>3. CASE UNCHANGED worker
    BY <2>2, <2>3 DEF TypeInv, TypeOK, Prepared
  <2>4. CASE ~ UNCHANGED worker
    <3> DEFINE t == [pc |-> "working", item |-> m.item, priority |-> 0, seq |-> 0]
    <3>1. worker' = [worker EXCEPT ![w] = t]
      BY <2>1, <2>4
    <3>2. m.item \in Items
      BY <1>0 DEF Member
    <3>3. t \in Task(WorkerPc) /\ t.pc = "working" /\ t.item \in Items
      BY <3>2 DEF Task, WorkerPc
    <3> HIDE DEF t
    <3> QED BY <1>0, <2>2, <3>1, <3>3, WorkerStep
  <2> QED BY <2>3, <2>4
<1>3. CASE Release(w)
  <2>1. /\ worker' = [worker EXCEPT ![w] = Idle] /\ UNCHANGED <<zset, seq, caller>>
        /\ marker' \subseteq Items
    BY <1>0, <1>3 DEF Release
  <2> QED BY <1>0, <2>1, WorkerStep
<1>4. CASE RequeueScore(w)
  <2> DEFINE t == [worker[w] EXCEPT !.pc = "scored", !.seq = seq']
  <2>1. worker' = [worker EXCEPT ![w] = t]
    BY <1>4 DEF RequeueScore
  <2>2. seq' \in Nat /\ UNCHANGED <<zset, marker, caller>> /\ worker[w].pc = "refreshed"
    BY <1>0, <1>4 DEF RequeueScore, Incr
  <2>3. /\ t \in Task(WorkerPc) /\ t.pc = "scored" /\ t.item = worker[w].item
        /\ t.priority = worker[w].priority
    BY <1>0, <2>2 DEF Task, WorkerPc
  <2> HIDE DEF t
  <2> QED BY <1>0, <2>1, <2>2, <2>3, WorkerStep
<1>5. CASE RequeueAdd(w)
  <2>1. worker' = [worker EXCEPT ![w] = Idle] /\ UNCHANGED <<marker, seq, caller>>
    BY <1>5 DEF RequeueAdd
  <2>2. zset' \subseteq Member
    <3>1. worker[w].item \in Items /\ worker[w].priority \in Priorities /\ worker[w].seq \in Nat
      BY <1>0, <1>5 DEF RequeueAdd, Task
    <3>2. Zadd(worker[w])
      BY <1>5 DEF RequeueAdd
    <3> QED BY <1>0, <3>1, <3>2, ZaddType
  <2> QED BY <1>0, <2>1, <2>2, WorkerStep
<1>6. CASE RequeueFails(w)
  <2> DEFINE t == [worker[w] EXCEPT !.pc = "working", !.priority = 0, !.seq = 0]
  <2>1. worker' = [worker EXCEPT ![w] = t] /\ UNCHANGED <<marker, seq, caller>>
    BY <1>6 DEF RequeueFails
  <2>2. worker[w].pc \in {"refreshed", "scored"}
    BY <1>6 DEF RequeueFails
  <2>3. zset' \subseteq Member
    <3>1. worker[w].item \in Items /\ worker[w].priority \in Priorities /\ worker[w].seq \in Nat
      BY <1>0, <2>2 DEF Task
    <3>2. zset' = zset \/ Zadd(worker[w])
      BY <1>6 DEF RequeueFails
    <3> QED BY <1>0, <3>1, <3>2, ZaddType
  <2>4. t \in Task(WorkerPc) /\ t.pc = "working" /\ t.item = worker[w].item
    BY <1>0 DEF Task, WorkerPc
  <2> HIDE DEF t
  <2> QED BY <1>0, <2>1, <2>2, <2>3, <2>4, WorkerStep
<1>7. CASE WorkerDies(w)
  <2>1. worker' = [worker EXCEPT ![w] = Idle] /\ UNCHANGED <<zset, marker, seq, caller>>
    BY <1>7 DEF WorkerDies
  <2> QED BY <1>0, <2>1, WorkerStep
<1> QED BY <1>1, <1>2, <1>3, <1>4, <1>5, <1>6, <1>7

\* Whatever fails, expires or dies, the state stays well typed.
LEMMA NextType == TypeInv /\ [Next]_vars => TypeInv'
<1> SUFFICES ASSUME TypeInv, [Next]_vars PROVE TypeInv'
  OBVIOUS
<1>1. ASSUME NEW c \in Callers,
             \/ \E i \in Items, p \in Priorities : SetMarker(c, i, p)
             \/ PutScore(c) \/ PutAdd(c) \/ PutFails(c) \/ PutUndo(c) \/ CallerDies(c)
      PROVE  TypeInv'
  BY <1>1, PutType
<1>2. ASSUME NEW w \in Workers,
             \/ \E p \in Priorities : RequeueRefresh(w, p)
             \/ Get(w) \/ Release(w) \/ RequeueScore(w) \/ RequeueAdd(w)
             \/ RequeueFails(w) \/ WorkerDies(w)
      PROVE  TypeInv'
  BY <1>2, WorkType
<1>3. ASSUME NEW i \in Items, Expire(i) PROVE TypeInv'
  BY <1>3 DEF Expire, TypeInv, TypeOK, Prepared
<1>4. CASE UNCHANGED vars
  BY <1>4 DEF vars, TypeInv, TypeOK, Prepared
<1> QED BY <1>1, <1>2, <1>3, <1>4 DEF Next

\* The state of the Redis queue is well typed, with slow jobs, lost replies,
\* failed commands and deaths of replicas as well.
THEOREM TypeCorrect == Spec => []TypeOK
<1>1. Init => TypeInv
  BY IdleTask, ConstantsAssumption DEF Init, TypeInv, TypeOK, Prepared
<1>2. TypeInv => TypeOK
  BY DEF TypeInv
<1> QED BY <1>1, <1>2, NextType, PTL DEF Spec
-----------------------------------------------------------------------------
(***************************************************************************)
(* The order of service.                                                   *)
(***************************************************************************)
\* Comparing scores is comparing priorities first and then sequence numbers.
LEMMA ScoreOrder ==
  ASSUME NEW m \in Member, NEW n \in Member,
         m.seq <= MaxSeq, n.seq <= MaxSeq, Score(m) <= Score(n)
  PROVE  Before(m, n)
<1> DEFINE a == m.priority
           b == n.priority
<1>1. a \in Nat /\ b \in Nat /\ m.seq \in Nat /\ n.seq \in Nat
  BY ConstantsAssumption DEF Member
<1>2. Scale \in Nat /\ m.seq < Scale /\ n.seq < Scale
  BY <1>1, ConstantsAssumption
<1>3. a * Scale + m.seq <= b * Scale + n.seq
  BY DEF Score
<1> HIDE DEF a, b
<1>4. CASE a = b
  BY <1>1, <1>2, <1>3, <1>4 DEF Before, a, b
<1>5. CASE a < b
  BY <1>5 DEF Before, a, b
<1>6. CASE b < a
  <2>1. PICK k \in Nat : a = b + 1 + k
    <3>1. a - b - 1 \in Nat /\ a = b + 1 + (a - b - 1)
      BY <1>1, <1>6
    <3> QED BY <3>1
  <2>2. a * Scale = b * Scale + Scale + k * Scale
    BY <1>1, <1>2, <2>1
  <2>3. k * Scale \in Nat /\ a * Scale \in Nat /\ b * Scale \in Nat
    BY <1>1, <1>2
  <2> QED BY <1>1, <1>2, <1>3, <2>2, <2>3
<1> QED BY <1>1, <1>4, <1>5, <1>6

\* ZADD of a bounded score keeps the set bounded.
LEMMA ZaddBound ==
  ASSUME NEW t, Zadd(t), t.seq <= MaxSeq, \A m \in zset : m.seq <= MaxSeq
  PROVE  \A m \in zset' : m.seq <= MaxSeq
<1> DEFINE new == [item |-> t.item, priority |-> t.priority, seq |-> t.seq]
<1>1. zset' = {n \in zset : n.item # t.item} \cup {new} /\ new.seq = t.seq
  BY DEF Zadd
<1> HIDE DEF new
<1> QED BY <1>1

\* INCR is the only source of sequence numbers.
LEMMA NextBound == TypeInv /\ SeqBound /\ [Next]_vars => SeqBound'
<1> SUFFICES ASSUME TypeInv, SeqBound, [Next]_vars PROVE SeqBound'
  OBVIOUS
<1> USE ConstantsAssumption
<1>0. /\ caller \in [Callers -> Task(CallerPc)]
      /\ worker \in [Workers -> Task(WorkerPc)]
      /\ seq \in Nat /\ Idle.seq = 0
  BY DEF TypeInv, TypeOK, Idle
<1>1. ASSUME NEW c \in Callers, NEW i \in Items, NEW p \in Priorities, SetMarker(c, i, p)
      PROVE  SeqBound'
  BY <1>0, <1>1 DEF SetMarker, SeqBound
<1>2. ASSUME NEW c \in Callers, PutScore(c) PROVE SeqBound'
  BY <1>0, <1>2 DEF PutScore, SeqBound, Incr, Task
<1>3. ASSUME NEW c \in Callers, PutAdd(c) PROVE SeqBound'
  <2>1. \A m \in zset' : m.seq <= MaxSeq
    BY <1>3, ZaddBound DEF PutAdd, SeqBound
  <2> QED BY <1>0, <1>3, <2>1 DEF PutAdd, SeqBound
<1>4. ASSUME NEW c \in Callers, PutFails(c) PROVE SeqBound'
  <2>1. \A m \in zset' : m.seq <= MaxSeq
    BY <1>4, ZaddBound DEF PutFails, SeqBound
  <2> QED BY <1>0, <1>4, <2>1 DEF PutFails, SeqBound, Task
<1>5. ASSUME NEW c \in Callers, PutUndo(c) \/ CallerDies(c) PROVE SeqBound'
  BY <1>0, <1>5 DEF PutUndo, CallerDies, SeqBound
<1>6. ASSUME NEW w \in Workers, NEW p \in Priorities, RequeueRefresh(w, p) PROVE SeqBound'
  BY <1>0, <1>6 DEF RequeueRefresh, SeqBound, Task
<1>7. ASSUME NEW w \in Workers, Get(w) PROVE SeqBound'
  BY <1>0, <1>7 DEF Get, SeqBound
<1>8. ASSUME NEW w \in Workers, Release(w) \/ WorkerDies(w) PROVE SeqBound'
  BY <1>0, <1>8 DEF Release, WorkerDies, SeqBound
<1>9. ASSUME NEW w \in Workers, RequeueScore(w) PROVE SeqBound'
  BY <1>0, <1>9 DEF RequeueScore, SeqBound, Incr, Task
<1>10. ASSUME NEW w \in Workers, RequeueAdd(w) PROVE SeqBound'
  <2>1. \A m \in zset' : m.seq <= MaxSeq
    BY <1>10, ZaddBound DEF RequeueAdd, SeqBound
  <2> QED BY <1>0, <1>10, <2>1 DEF RequeueAdd, SeqBound
<1>11. ASSUME NEW w \in Workers, RequeueFails(w) PROVE SeqBound'
  <2>1. \A m \in zset' : m.seq <= MaxSeq
    BY <1>11, ZaddBound DEF RequeueFails, SeqBound
  <2> QED BY <1>0, <1>11, <2>1 DEF RequeueFails, SeqBound, Task
<1>12. ASSUME NEW i \in Items, Expire(i) PROVE SeqBound'
  BY <1>12 DEF Expire, SeqBound
<1>13. CASE UNCHANGED vars
  BY <1>13 DEF vars, SeqBound
<1> QED BY <1>1, <1>2, <1>3, <1>4, <1>5, <1>6, <1>7, <1>8, <1>9, <1>10, <1>11, <1>12, <1>13
        DEF Next

\* Only BZPOPMIN takes an id out of the sorted set, and it takes the first.
LEMMA NextInOrder == TypeInv /\ SeqBound /\ [Next]_vars => InOrder
<1> SUFFICES ASSUME TypeInv, SeqBound, [Next]_vars,
                    NEW m \in zset, m.item \notin QueuedItems', NEW n \in zset
             PROVE  Before(m, n)
  BY DEF InOrder
<1>1. m \in Member /\ n \in Member /\ m.seq <= MaxSeq /\ n.seq <= MaxSeq
  BY DEF TypeInv, TypeOK, SeqBound
<1>2. zset' # zset /\ \A t : ~Zadd(t)
  <2>1. zset' # zset
    BY DEF QueuedItems
  <2>2. ASSUME NEW t, Zadd(t) PROVE FALSE
    <3> DEFINE new == [item |-> t.item, priority |-> t.priority, seq |-> t.seq]
    <3>1. zset' = {o \in zset : o.item # t.item} \cup {new} /\ new.item = t.item
      BY <2>2 DEF Zadd
    <3> HIDE DEF new
    <3> QED BY <3>1 DEF QueuedItems
  <2> QED BY <2>1, <2>2
<1>3. PICK w \in Workers : Get(w)
  BY <1>2 DEF Next, SetMarker, PutScore, PutAdd, PutFails, PutUndo, CallerDies,
              RequeueRefresh, Release, RequeueScore, RequeueAdd, RequeueFails,
              WorkerDies, Expire, vars
<1>4. PICK first \in zset : (\A o \in zset : Score(first) <= Score(o)) /\ zset' = zset \ {first}
  BY <1>3 DEF Get
<1>5. m = first
  BY <1>4 DEF QueuedItems
<1> QED BY <1>1, <1>4, <1>5, ScoreOrder

\* Whatever fails, expires or dies: an id leaves the sorted set only when no
\* other has a smaller priority, nor the same priority and an earlier number.
THEOREM ServedInOrderHolds == Spec => ServedInOrder
<1>1. Init => TypeInv /\ SeqBound
  BY IdleTask, ConstantsAssumption
     DEF Init, TypeInv, TypeOK, Prepared, SeqBound, Idle
<1>2. TypeInv /\ SeqBound /\ [Next]_vars => TypeInv' /\ SeqBound'
  BY NextType, NextBound
<1>3. TypeInv /\ SeqBound /\ [Next]_vars => InOrder
  BY NextInOrder
<1> QED BY <1>1, <1>2, <1>3, PTL DEF Spec, ServedInOrder
-----------------------------------------------------------------------------
(***************************************************************************)
(* One place per id.  The facts depend only on which ids the callers and   *)
(* the workers hold, on the sorted set and on the markers.                 *)
(***************************************************************************)
SameCallers(C) == \A c \in C : caller'[c].item = caller[c].item
SameWorkers(W) == \A w \in W : worker'[w].item = worker[w].item

(***************************************************************************)
(* What a step may do to the ids, when no reply is lost and no marker ends *)
(* before its job.                                                         *)
(***************************************************************************)
Advance ==
  SameCallers(Callers) /\ SameWorkers(Workers) /\ UNCHANGED <<zset, marker>>

CallerTakes(c, i) ==
  /\ i \notin marker /\ marker' = marker \cup {i}
  /\ caller[c].item = NoItem /\ caller'[c].item = i
  /\ SameCallers(Callers \ {c}) /\ SameWorkers(Workers) /\ UNCHANGED zset

CallerLeaves(c) ==
  /\ marker' = marker \/ marker' = marker \ {caller[c].item}
  /\ caller'[c].item = NoItem
  /\ SameCallers(Callers \ {c}) /\ SameWorkers(Workers) /\ UNCHANGED zset

CallerAdds(c) ==
  /\ caller[c].item \in Items /\ Zadd(caller[c])
  /\ caller'[c].item = NoItem
  /\ SameCallers(Callers \ {c}) /\ SameWorkers(Workers) /\ UNCHANGED marker

WorkerPops(w, m) ==
  /\ worker[w].item = NoItem /\ worker'[w].item = m.item
  /\ m \in zset /\ zset' = zset \ {m}
  /\ SameCallers(Callers) /\ SameWorkers(Workers \ {w}) /\ UNCHANGED marker

WorkerLeaves(w) ==
  /\ marker' = marker \/ marker' = marker \ {worker[w].item}
  /\ worker[w].item \in Items /\ worker'[w].item = NoItem
  /\ SameCallers(Callers) /\ SameWorkers(Workers \ {w}) /\ UNCHANGED zset

WorkerAdds(w) ==
  /\ worker[w].item \in Items /\ Zadd(worker[w])
  /\ worker'[w].item = NoItem
  /\ SameCallers(Callers) /\ SameWorkers(Workers \ {w}) /\ UNCHANGED marker

OrphanEnds(i) ==
  Orphan(i) /\ marker' = marker \ {i} /\ UNCHANGED <<zset, seq, caller, worker>>

Effect ==
  \/ Advance
  \/ \E c \in Callers, i \in Items : CallerTakes(c, i)
  \/ \E c \in Callers : CallerLeaves(c) \/ CallerAdds(c)
  \/ \E w \in Workers, m \in zset : WorkerPops(w, m)
  \/ \E w \in Workers : WorkerLeaves(w) \/ WorkerAdds(w)
  \/ \E i \in Items : OrphanEnds(i)

\* Every step of put has one of these effects.
LEMMA PutEffect ==
  ASSUME TypeInv, PromptJobs, NEW c \in Callers,
         \/ \E i \in Items, p \in Priorities : SetMarker(c, i, p)
         \/ PutScore(c) \/ PutAdd(c) \/ PutFails(c) \/ PutUndo(c) \/ CallerDies(c)
  PROVE  Effect
<1> USE ConstantsAssumption, IdleTask
<1>0. /\ caller \in [Callers -> Task(CallerPc)]
      /\ caller[c].pc = "idle" <=> caller[c].item = NoItem
  BY DEF TypeInv, TypeOK
<1>1. ASSUME NEW i \in Items, NEW p \in Priorities, SetMarker(c, i, p) PROVE Effect
  <2>1. CallerTakes(c, i)
    BY <1>0, <1>1 DEF SetMarker, CallerTakes, SameCallers, SameWorkers
  <2> QED BY <2>1 DEF Effect
<1>2. CASE PutScore(c)
  <2>1. caller' = [caller EXCEPT ![c] = [caller[c] EXCEPT !.pc = "scored", !.seq = seq']]
    BY <1>2 DEF PutScore
  <2>2. [caller[c] EXCEPT !.pc = "scored", !.seq = seq'].item = caller[c].item
    BY <1>0 DEF Task
  <2>3. UNCHANGED <<zset, marker, worker>>
    BY <1>2 DEF PutScore
  <2>4. SameCallers(Callers)
    BY <1>0, <2>1, <2>2 DEF SameCallers
  <2> QED BY <2>3, <2>4 DEF Effect, Advance, SameWorkers
<1>3. CASE PutAdd(c)
  <2>1. caller[c].item \in Items
    BY <1>0, <1>3 DEF PutAdd, Task
  <2>2. CallerAdds(c)
    BY <1>0, <1>3, <2>1 DEF PutAdd, CallerAdds, SameCallers, SameWorkers
  <2> QED BY <2>2 DEF Effect
<1>4. CASE PutFails(c)
  <2>1. caller' = [caller EXCEPT ![c] = [caller[c] EXCEPT !.pc = "undo"]]
    BY <1>4 DEF PutFails
  <2>2. [caller[c] EXCEPT !.pc = "undo"].item = caller[c].item
    BY <1>0 DEF Task
  <2>3. UNCHANGED <<zset, marker, worker>>
    BY <1>4 DEF PutFails, PromptJobs
  <2>4. SameCallers(Callers)
    BY <1>0, <2>1, <2>2 DEF SameCallers
  <2> QED BY <2>3, <2>4 DEF Effect, Advance, SameWorkers
<1>5. CASE PutUndo(c)
  <2>1. CallerLeaves(c)
    BY <1>0, <1>5 DEF PutUndo, CallerLeaves, SameCallers, SameWorkers
  <2> QED BY <2>1 DEF Effect
<1>6. CASE CallerDies(c)
  <2>1. CallerLeaves(c)
    BY <1>0, <1>6 DEF CallerDies, CallerLeaves, SameCallers, SameWorkers
  <2> QED BY <2>1 DEF Effect
<1> QED BY <1>1, <1>2, <1>3, <1>4, <1>5, <1>6

\* Every step of a worker has one of these effects.
LEMMA WorkEffect ==
  ASSUME TypeInv, PromptJobs, NEW w \in Workers,
         \/ \E p \in Priorities : RequeueRefresh(w, p)
         \/ Get(w) \/ Release(w) \/ RequeueScore(w) \/ RequeueAdd(w)
         \/ RequeueFails(w) \/ WorkerDies(w)
  PROVE  Effect
<1> USE ConstantsAssumption, IdleTask
<1>0. /\ worker \in [Workers -> Task(WorkerPc)]
      /\ worker[w].pc = "idle" <=> worker[w].item = NoItem
      /\ worker[w].item = NoItem => worker[w] = Idle
  BY DEF TypeInv, TypeOK, Prepared
<1>1. ASSUME NEW p \in Priorities, RequeueRefresh(w, p) PROVE Effect
  <2>1. worker' = [worker EXCEPT ![w] = [worker[w] EXCEPT !.pc = "refreshed", !.priority = p]]
    BY <1>1 DEF RequeueRefresh
  <2>2. [worker[w] EXCEPT !.pc = "refreshed", !.priority = p].item = worker[w].item
    BY <1>0 DEF Task
  <2>3. UNCHANGED <<zset, marker, caller>>
    BY <1>1 DEF RequeueRefresh
  <2>4. SameWorkers(Workers)
    BY <1>0, <2>1, <2>2 DEF SameWorkers
  <2> QED BY <2>3, <2>4 DEF Effect, Advance, SameCallers
<1>2. CASE Get(w)
  <2>1. PICK m \in zset :
          /\ zset' = zset \ {m}
          /\ worker' = [worker EXCEPT
               ![w] = [pc |-> "working", item |-> m.item, priority |-> 0, seq |-> 0]]
    BY <1>2 DEF Get, PromptJobs
  <2>2. worker[w] = Idle /\ UNCHANGED <<marker, caller>>
    BY <1>2 DEF Get
  <2>3. WorkerPops(w, m)
    BY <1>0, <2>1, <2>2 DEF WorkerPops, SameCallers, SameWorkers
  <2> QED BY <2>3 DEF Effect
<1>3. CASE Release(w)
  <2>1. worker[w].item \in Items
    BY <1>0, <1>3 DEF Release, Task
  <2>2. WorkerLeaves(w)
    BY <1>0, <1>3, <2>1 DEF Release, WorkerLeaves, SameCallers, SameWorkers
  <2> QED BY <2>2 DEF Effect
<1>4. CASE RequeueScore(w)
  <2>1. worker' = [worker EXCEPT ![w] = [worker[w] EXCEPT !.pc = "scored", !.seq = seq']]
    BY <1>4 DEF RequeueScore
  <2>2. [worker[w] EXCEPT !.pc = "scored", !.seq = seq'].item = worker[w].item
    BY <1>0 DEF Task
  <2>3. UNCHANGED <<zset, marker, caller>>
    BY <1>4 DEF RequeueScore
  <2>4. SameWorkers(Workers)
    BY <1>0, <2>1, <2>2 DEF SameWorkers
  <2> QED BY <2>3, <2>4 DEF Effect, Advance, SameCallers
<1>5. CASE RequeueAdd(w)
  <2>1. worker[w].item \in Items
    BY <1>0, <1>5 DEF RequeueAdd, Task
  <2>2. WorkerAdds(w)
    BY <1>0, <1>5, <2>1 DEF RequeueAdd, WorkerAdds, SameCallers, SameWorkers
  <2> QED BY <2>2 DEF Effect
<1>6. CASE RequeueFails(w)
  <2>1. worker' = [worker EXCEPT ![w] =
                     [worker[w] EXCEPT !.pc = "working", !.priority = 0, !.seq = 0]]
    BY <1>6 DEF RequeueFails
  <2>2. [worker[w] EXCEPT !.pc = "working", !.priority = 0, !.seq = 0].item = worker[w].item
    BY <1>0 DEF Task
  <2>3. UNCHANGED <<zset, marker, caller>>
    BY <1>6 DEF RequeueFails, PromptJobs
  <2>4. SameWorkers(Workers)
    BY <1>0, <2>1, <2>2 DEF SameWorkers
  <2> QED BY <2>3, <2>4 DEF Effect, Advance, SameCallers
<1>7. CASE WorkerDies(w)
  <2>1. worker[w].item \in Items
    BY <1>0, <1>7 DEF WorkerDies, Task
  <2>2. WorkerLeaves(w)
    BY <1>0, <1>7, <2>1 DEF WorkerDies, WorkerLeaves, SameCallers, SameWorkers
  <2> QED BY <2>2 DEF Effect
<1> QED BY <1>1, <1>2, <1>3, <1>4, <1>5, <1>6, <1>7

\* Every step has one of these effects.
LEMMA NextEffect ==
  ASSUME TypeInv, PromptJobs, [Next]_vars
  PROVE  Effect
<1>1. ASSUME NEW c \in Callers,
             \/ \E i \in Items, p \in Priorities : SetMarker(c, i, p)
             \/ PutScore(c) \/ PutAdd(c) \/ PutFails(c) \/ PutUndo(c) \/ CallerDies(c)
      PROVE  Effect
  BY <1>1, PutEffect
<1>2. ASSUME NEW w \in Workers,
             \/ \E p \in Priorities : RequeueRefresh(w, p)
             \/ Get(w) \/ Release(w) \/ RequeueScore(w) \/ RequeueAdd(w)
             \/ RequeueFails(w) \/ WorkerDies(w)
      PROVE  Effect
  BY <1>2, WorkEffect
<1>3. ASSUME NEW i \in Items, Expire(i) PROVE Effect
  BY <1>3 DEF Expire, Effect, OrphanEnds, PromptJobs
<1>4. CASE UNCHANGED vars
  BY <1>4 DEF vars, Effect, Advance, SameCallers, SameWorkers
<1> QED BY <1>1, <1>2, <1>3, <1>4 DEF Next

\* ZADD of an id that is not in the set.
LEMMA ZaddItems ==
  ASSUME NEW t, Zadd(t), OneMember
  PROVE  QueuedItems' = QueuedItems \cup {t.item} /\ OneMember'
<1> DEFINE m == [item |-> t.item, priority |-> t.priority, seq |-> t.seq]
<1>1. zset' = {n \in zset : n.item # t.item} \cup {m} /\ m.item = t.item
  BY DEF Zadd
<1> HIDE DEF m
<1>2. QueuedItems' = QueuedItems \cup {t.item}
  BY <1>1 DEF QueuedItems
<1>3. OneMember'
  BY <1>1 DEF OneMember
<1> QED BY <1>2, <1>3

\* No effect gives an id a second place or takes the marker of a held id.
LEMMA EffectExclusive ==
  ASSUME TypeInv, Exclusive, Effect
  PROVE  Exclusive'
<1> USE ConstantsAssumption DEF SameCallers, SameWorkers
<1>0. NoItem \notin QueuedItems
  BY DEF TypeInv, TypeOK, Member, QueuedItems
<1>1. CASE Advance
  BY <1>1 DEF Advance, Exclusive, OneMember, OnePlace, Marked, QueuedItems
<1>2. ASSUME NEW c \in Callers, NEW i \in Items, CallerTakes(c, i) PROVE Exclusive'
  <2>1. i # NoItem /\ QueuedItems' = QueuedItems
    BY <1>2 DEF CallerTakes, QueuedItems
  <2>2. /\ i \notin QueuedItems
        /\ \A d \in Callers : caller[d].item # i
        /\ \A w \in Workers : worker[w].item # i
    BY <1>2, <2>1 DEF CallerTakes, Exclusive, Marked
  <2>3. OneMember' /\ OnePlace'
    BY <1>2, <2>1, <2>2 DEF CallerTakes, Exclusive, OneMember, OnePlace
  <2>4. Marked'
    BY <1>2, <2>1 DEF CallerTakes, Exclusive, Marked
  <2> QED BY <2>3, <2>4 DEF Exclusive
<1>3. ASSUME NEW c \in Callers, CallerLeaves(c) PROVE Exclusive'
  <2>1. QueuedItems' = QueuedItems
    BY <1>3 DEF CallerLeaves, QueuedItems
  <2>2. OneMember' /\ OnePlace'
    BY <1>0, <1>3, <2>1 DEF CallerLeaves, Exclusive, OneMember, OnePlace
  <2>3. Marked'
    BY <1>3, <2>1 DEF CallerLeaves, Exclusive, OnePlace, Marked
  <2> QED BY <2>2, <2>3 DEF Exclusive
<1>4. ASSUME NEW c \in Callers, CallerAdds(c) PROVE Exclusive'
  <2>1. QueuedItems' = QueuedItems \cup {caller[c].item} /\ OneMember'
    BY <1>4, ZaddItems DEF CallerAdds, Exclusive
  <2>2. NoItem \notin QueuedItems' /\ caller[c].item # NoItem
    BY <1>0, <1>4, <2>1 DEF CallerAdds
  <2>3. OnePlace'
    BY <1>4, <2>1, <2>2 DEF CallerAdds, Exclusive, OnePlace
  <2>4. Marked'
    BY <1>4, <2>1, <2>2 DEF CallerAdds, Exclusive, Marked
  <2> QED BY <2>1, <2>3, <2>4 DEF Exclusive
<1>5. ASSUME NEW w \in Workers, NEW m \in zset, WorkerPops(w, m) PROVE Exclusive'
  <2>1. m.item \in QueuedItems /\ m.item # NoItem
    BY <1>0 DEF QueuedItems
  <2>2. QueuedItems' = QueuedItems \ {m.item}
    BY <1>5 DEF WorkerPops, Exclusive, OneMember, QueuedItems
  <2>3. OneMember'
    BY <1>5 DEF WorkerPops, Exclusive, OneMember
  <2>4. OnePlace'
    BY <1>5, <2>1, <2>2 DEF WorkerPops, Exclusive, OnePlace
  <2>5. Marked'
    BY <1>5, <2>1, <2>2 DEF WorkerPops, Exclusive, Marked
  <2> QED BY <2>3, <2>4, <2>5 DEF Exclusive
<1>6. ASSUME NEW w \in Workers, WorkerLeaves(w) PROVE Exclusive'
  <2>1. QueuedItems' = QueuedItems
    BY <1>6 DEF WorkerLeaves, QueuedItems
  <2>2. OneMember' /\ OnePlace'
    BY <1>0, <1>6, <2>1 DEF WorkerLeaves, Exclusive, OneMember, OnePlace
  <2>3. Marked'
    BY <1>6, <2>1 DEF WorkerLeaves, Exclusive, OnePlace, Marked
  <2> QED BY <2>2, <2>3 DEF Exclusive
<1>7. ASSUME NEW w \in Workers, WorkerAdds(w) PROVE Exclusive'
  <2>1. QueuedItems' = QueuedItems \cup {worker[w].item} /\ OneMember'
    BY <1>7, ZaddItems DEF WorkerAdds, Exclusive
  <2>2. NoItem \notin QueuedItems' /\ worker[w].item # NoItem
    BY <1>0, <1>7, <2>1 DEF WorkerAdds
  <2>3. OnePlace'
    BY <1>7, <2>1, <2>2 DEF WorkerAdds, Exclusive, OnePlace
  <2>4. Marked'
    BY <1>7, <2>1, <2>2 DEF WorkerAdds, Exclusive, Marked
  <2> QED BY <2>1, <2>3, <2>4 DEF Exclusive
<1>8. ASSUME NEW i \in Items, OrphanEnds(i) PROVE Exclusive'
  <2>1. QueuedItems' = QueuedItems /\ OneMember' /\ OnePlace'
    BY <1>8 DEF OrphanEnds, Exclusive, OneMember, OnePlace, QueuedItems
  <2>2. /\ i \notin QueuedItems
        /\ \A c \in Callers : caller[c].item # i
        /\ \A w \in Workers : worker[w].item # i
    BY <1>8 DEF OrphanEnds, Orphan, InFlight, Processing, Putting
  <2>3. Marked'
    BY <1>8, <2>1, <2>2 DEF OrphanEnds, Exclusive, Marked
  <2> QED BY <2>1, <2>3 DEF Exclusive
<1> QED BY <1>1, <1>2, <1>3, <1>4, <1>5, <1>6, <1>7, <1>8 DEF Effect

\* The inductive invariant holds in every reachable state.
LEMMA SpecIndInv ==
  ASSUME PromptJobs
  PROVE  Spec => [](TypeInv /\ Exclusive)
<1>1. Init => TypeInv /\ Exclusive
  BY IdleTask, ConstantsAssumption
     DEF Init, TypeInv, TypeOK, Prepared, Exclusive, OneMember, OnePlace, Marked, QueuedItems
<1>2. TypeInv /\ Exclusive /\ [Next]_vars => TypeInv' /\ Exclusive'
  BY NextType, NextEffect, EffectExclusive
<1> QED BY <1>1, <1>2, PTL DEF Spec

\* If no reply is lost and no marker ends before its job, no two workers of
\* any number of replicas process the same id.
THEOREM NeverTwiceHolds ==
  ASSUME PromptJobs
  PROVE  Spec => []NeverTwice
<1>1. TypeInv /\ Exclusive => NeverTwice
  BY DEF TypeInv, Prepared, Exclusive, OnePlace, NeverTwice
<1> QED BY <1>1, SpecIndInv, PTL

\* Under the same condition put of an id in flight is always a no-op.
THEOREM DedupGuardHolds ==
  ASSUME PromptJobs
  PROVE  Spec => []DedupGuard
<1>1. TypeInv /\ Exclusive => DedupGuard
  BY ConstantsAssumption
     DEF Exclusive, Marked, DedupGuard, InFlight, Processing
<1> QED BY <1>1, SpecIndInv, PTL

\* Under the same condition no id is queued while a worker processes it.
THEOREM NotQueuedWhileProcessedHolds ==
  ASSUME PromptJobs
  PROVE  Spec => []NotQueuedWhileProcessed
<1>1. TypeInv /\ Exclusive => NotQueuedWhileProcessed
  BY DEF Exclusive, OnePlace, NotQueuedWhileProcessed, Processing
<1> QED BY <1>1, SpecIndInv, PTL

\* The three together, under the same condition: an id in flight is there once,
\* and its marker keeps put away.
THEOREM InFlightOnceHolds ==
  ASSUME PromptJobs
  PROVE  Spec => []InFlightOnce
<1>1. InFlightOnce <=> NeverTwice /\ DedupGuard /\ NotQueuedWhileProcessed
  BY DEF InFlightOnce
<1> QED  BY <1>1, NeverTwiceHolds, DedupGuardHolds, NotQueuedWhileProcessedHolds, PromptJobs, PTL
-----------------------------------------------------------------------------
(***************************************************************************)
(* Refinement.  Each effect is one step of DedupQueue on the place of one  *)
(* id, or leaves every id where it is.                                     *)
(***************************************************************************)
st == [i \in Items |-> StatusOf(i)]

\* What the mapping says of an id, without the CHOOSE of StatusOf.
MapOK ==
  \A i \in Items :
    /\ \A w \in Workers : worker[w].item = i <=> st[i] = w
    /\ i \in QueuedItems <=> st[i] = "queued"
    /\ i \in marker /\ ~InFlight(i) <=> st[i] = "reserved"
    /\ i \notin marker <=> st[i] = "free"

\* The refinement mapping sends each id to the one place it is in.
LEMMA MapCorrect == TypeInv /\ Exclusive => MapOK
<1> SUFFICES ASSUME TypeInv, Exclusive, NEW i \in Items
             PROVE  /\ \A w \in Workers : worker[w].item = i <=> st[i] = w
                    /\ i \in QueuedItems <=> st[i] = "queued"
                    /\ i \in marker /\ ~InFlight(i) <=> st[i] = "reserved"
                    /\ i \notin marker <=> st[i] = "free"
  BY DEF MapOK
<1> USE ConstantsAssumption
<1>1. st[i] = StatusOf(i)
  BY DEF st
<1>2. CASE Processing(i)
  <2>1. PICK w \in Workers : worker[w].item = i
    BY <1>2 DEF Processing
  <2>2. \A v \in Workers : worker[v].item = i => v = w
    BY <2>1 DEF Exclusive, OnePlace
  <2>3. StatusOf(i) = w
    BY <1>2, <2>1, <2>2 DEF StatusOf
  <2>4. i \notin QueuedItems /\ i \in marker
    BY <2>1 DEF Exclusive, OnePlace, Marked
  <2> QED BY <1>1, <1>2, <2>1, <2>2, <2>3, <2>4 DEF InFlight
<1>3. CASE ~Processing(i)
  <2>1. i \in QueuedItems => i \in marker
    BY DEF Exclusive, Marked
  <2>2. StatusOf(i) = IF i \in QueuedItems THEN "queued"
                      ELSE IF i \in marker THEN "reserved" ELSE "free"
    BY <1>3 DEF StatusOf
  <2> QED BY <1>1, <1>3, <2>1, <2>2 DEF InFlight, Processing
<1> QED BY <1>2, <1>3

\* A step that moves one id from place to place.
LEMMA MoveOne ==
  ASSUME NEW i \in Items, NEW place, st'[i] = place,
         \A j \in Items \ {i} : st'[j] = st[j]
  PROVE  st' = [st EXCEPT ![i] = place]
BY DEF st

\* An id that keeps its worker, its entry and its marker keeps its place.
LEMMA Stays ==
  ASSUME MapOK, MapOK', NEW j \in Items,
         \A w \in Workers : worker'[w].item = j <=> worker[w].item = j,
         j \in QueuedItems' <=> j \in QueuedItems,
         j \in marker' <=> j \in marker
  PROVE  st'[j] = st[j]
<1>1. CASE \E w \in Workers : worker[w].item = j
  BY <1>1 DEF MapOK
<1>2. CASE ~ \E w \in Workers : worker[w].item = j
  BY <1>2 DEF MapOK, InFlight, Processing
<1> QED BY <1>1, <1>2

\* Every effect is a step of the contract or a stutter.
LEMMA EffectRefines ==
  ASSUME TypeInv, Exclusive, Exclusive', MapOK, MapOK', Effect
  PROVE  [Abstract!Next]_st
<1> USE ConstantsAssumption DEF SameCallers, SameWorkers
<1>1. CASE Advance
  <2>1. \A j \in Items : st'[j] = st[j]
    BY <1>1, Stays DEF Advance, QueuedItems
  <2> QED BY <2>1 DEF st
<1>2. ASSUME NEW c \in Callers, NEW i \in Items, CallerTakes(c, i)
      PROVE  [Abstract!Next]_st
  <2>1. QueuedItems' = QueuedItems /\ marker' = marker \cup {i} /\ i \notin marker
    BY <1>2 DEF CallerTakes, QueuedItems
  <2>2. \A j \in Items \ {i} : st'[j] = st[j]
    BY <1>2, <2>1, Stays DEF CallerTakes
  <2>3. i \notin QueuedItems /\ ~Processing(i)
    BY <2>1 DEF Exclusive, Marked, Processing
  <2>4. st[i] = "free" /\ st'[i] = "reserved"
    BY <1>2, <2>1, <2>3 DEF MapOK, CallerTakes, InFlight, Processing
  <2>5. Abstract!Reserve(i)
    BY <2>2, <2>4, MoveOne DEF Abstract!Reserve, st
  <2> QED BY <2>5 DEF Abstract!Next
<1>3. ASSUME NEW c \in Callers, CallerLeaves(c) PROVE [Abstract!Next]_st
  <2>1. QueuedItems' = QueuedItems
    BY <1>3 DEF CallerLeaves, QueuedItems
  <2> DEFINE i == caller[c].item
  <2>2. CASE marker' = marker \/ i \notin Items
    <3>1. \A j \in Items : st'[j] = st[j]
      BY <1>3, <2>1, <2>2, Stays DEF CallerLeaves
    <3> QED BY <3>1 DEF st
  <2>3. CASE marker' = marker \ {i} /\ i \in Items
    <3>1. \A j \in Items \ {i} : st'[j] = st[j]
      BY <1>3, <2>1, <2>3, Stays DEF CallerLeaves
    <3>2. i \in marker /\ i \notin QueuedItems /\ ~Processing(i)
      BY <2>3 DEF Exclusive, OnePlace, Marked, Processing
    <3>3. st[i] = "reserved" /\ st'[i] = "free"
      BY <2>3, <3>2 DEF MapOK, InFlight
    <3>4. Abstract!Unreserve(i)
      BY <2>3, <3>1, <3>3, MoveOne DEF Abstract!Unreserve, st
    <3> QED BY <2>3, <3>4 DEF Abstract!Next
  <2> QED BY <1>3, <2>2, <2>3 DEF CallerLeaves
<1>4. ASSUME NEW c \in Callers, CallerAdds(c) PROVE [Abstract!Next]_st
  <2> DEFINE i == caller[c].item
  <2>1. i \in Items /\ QueuedItems' = QueuedItems \cup {i} /\ marker' = marker
    BY <1>4, ZaddItems DEF CallerAdds, Exclusive
  <2>2. \A j \in Items \ {i} : st'[j] = st[j]
    BY <1>4, <2>1, Stays DEF CallerAdds
  <2>3. i \in marker /\ i \notin QueuedItems /\ ~Processing(i)
    BY <2>1 DEF Exclusive, OnePlace, Marked, Processing
  <2>4. st[i] = "reserved" /\ st'[i] = "queued"
    BY <2>1, <2>3 DEF MapOK, InFlight
  <2>5. Abstract!Enqueue(i)
    BY <2>1, <2>2, <2>4, MoveOne DEF Abstract!Enqueue, st
  <2> QED BY <2>1, <2>5 DEF Abstract!Next
<1>5. ASSUME NEW w \in Workers, NEW m \in zset, WorkerPops(w, m)
      PROVE  [Abstract!Next]_st
  <2> DEFINE i == m.item
  <2>1. i \in Items /\ i \in QueuedItems
    BY DEF TypeInv, TypeOK, Member, QueuedItems
  <2>2. QueuedItems' = QueuedItems \ {i} /\ marker' = marker
    BY <1>5 DEF WorkerPops, Exclusive, OneMember, QueuedItems
  <2>3. \A j \in Items \ {i} : st'[j] = st[j]
    BY <1>5, <2>2, Stays DEF WorkerPops
  <2>4. st[i] = "queued" /\ st'[i] = w
    BY <1>5, <2>1 DEF MapOK, WorkerPops
  <2>5. \A j \in Items : st[j] # w
    BY <1>5 DEF MapOK, WorkerPops
  <2>6. Abstract!Take(w, i)
    BY <2>1, <2>3, <2>4, <2>5, MoveOne DEF Abstract!Take, Abstract!Held, st
  <2> QED BY <2>1, <2>6 DEF Abstract!Next
<1>6. ASSUME NEW w \in Workers, WorkerLeaves(w) PROVE [Abstract!Next]_st
  <2>0. PICK i \in Items : i = worker[w].item
    BY <1>6 DEF WorkerLeaves
  <2>1. QueuedItems' = QueuedItems /\ (marker' = marker \/ marker' = marker \ {i})
    BY <1>6, <2>0 DEF WorkerLeaves, QueuedItems
  <2>2. \A j \in Items \ {i} : st'[j] = st[j]
    BY <1>6, <2>0, <2>1, Stays DEF WorkerLeaves
  <2>3. i \in marker /\ i \notin QueuedItems
    BY <2>0 DEF Exclusive, OnePlace, Marked
  <2>4. ~Processing(i)'
    BY <1>6, <2>0 DEF WorkerLeaves, Exclusive, OnePlace, Processing
  <2>5. st[i] = w
    BY <2>0 DEF MapOK
  <2>6. CASE marker' = marker
    <3>1. st'[i] = "reserved"
      BY <2>1, <2>3, <2>4, <2>6 DEF MapOK, InFlight
    <3>2. Abstract!Abandon(w, i)
      BY <2>1, <2>2, <2>5, <3>1, MoveOne DEF Abstract!Abandon, st
    <3> QED BY <2>1, <3>2 DEF Abstract!Next
  <2>7. CASE marker' = marker \ {i}
    <3>1. st'[i] = "free"
      BY <2>1, <2>7 DEF MapOK
    <3>2. Abstract!Release(w, i)
      BY <2>1, <2>2, <2>5, <3>1, MoveOne DEF Abstract!Release, st
    <3> QED BY <2>1, <3>2 DEF Abstract!Next
  <2> QED BY <2>1, <2>6, <2>7
<1>7. ASSUME NEW w \in Workers, WorkerAdds(w) PROVE [Abstract!Next]_st
  <2> DEFINE i == worker[w].item
  <2>1. i \in Items /\ QueuedItems' = QueuedItems \cup {i} /\ marker' = marker
    BY <1>7, ZaddItems DEF WorkerAdds, Exclusive
  <2>2. \A j \in Items \ {i} : st'[j] = st[j]
    BY <1>7, <2>1, Stays DEF WorkerAdds
  <2>3. st[i] = w /\ st'[i] = "queued"
    BY <2>1 DEF MapOK
  <2>4. Abstract!Requeue(w, i)
    BY <2>1, <2>2, <2>3, MoveOne DEF Abstract!Requeue, st
  <2> QED BY <2>1, <2>4 DEF Abstract!Next
<1>8. ASSUME NEW i \in Items, OrphanEnds(i) PROVE [Abstract!Next]_st
  <2>1. QueuedItems' = QueuedItems /\ marker' = marker \ {i} /\ worker' = worker
    BY <1>8 DEF OrphanEnds, QueuedItems
  <2>2. \A j \in Items \ {i} : st'[j] = st[j]
    BY <2>1, Stays
  <2>3. st[i] = "reserved" /\ st'[i] = "free"
    BY <1>8, <2>1 DEF OrphanEnds, Orphan, MapOK
  <2>4. Abstract!Unreserve(i)
    BY <2>2, <2>3, MoveOne DEF Abstract!Unreserve, st
  <2> QED BY <2>4 DEF Abstract!Next
<1> QED BY <1>1, <1>2, <1>3, <1>4, <1>5, <1>6, <1>7, <1>8 DEF Effect

\* The empty queue maps to the empty contract.
LEMMA InitRefines == Init => Abstract!Init
BY ConstantsAssumption, IdleTask
   DEF Init, Abstract!Init, StatusOf, QueuedItems, Processing

\* If no reply is lost and no marker ends before its job, RedisJobQueue
\* implements JobQueue's dedup contract for any number of replicas.
THEOREM Refinement ==
  ASSUME PromptJobs
  PROVE  Spec => ImplementsDedupQueue
<1>1. Spec => [](TypeInv /\ Exclusive /\ MapOK)
  BY SpecIndInv, MapCorrect, PTL
<1>2. /\ TypeInv /\ Exclusive /\ MapOK
      /\ (TypeInv /\ Exclusive /\ MapOK)'
      /\ [Next]_vars
      => [Abstract!Next]_st
  BY NextEffect, EffectRefines
<1> QED
  BY <1>1, <1>2, InitRefines, PTL DEF Spec, ImplementsDedupQueue, Abstract!Spec, st
=============================================================================
