---------------------------- MODULE RequestProofs ----------------------------
(***************************************************************************)
(* What is promised of the requests of chat: what they record in a trace   *)
(* (TraceRecorder), and what they cost and leave of sessions and files     *)
(* (ChatTurns).                                                            *)
(*                                                                         *)
(* TraceRecorder, for any requests, sizes of batches, of the dict and of   *)
(* the ring, any number of events and of failed writes: an event is in one *)
(* place at a time: in the buffer of its request, in the hand of a thread, *)
(* in the store, or lost.  The invariant says so, and that the events of a *)
(* request, wherever they are, carry the numbers from 1 to the number of   *)
(* events it recorded, each of them once.                                  *)
(*                                                                         *)
(* ChatTurns, for any sessions, files, requests, edits and costs.  The     *)
(* properties speak of rows, messages and files.  What makes them true is  *)
(* what turns and edits hold of them while they run: the invariant says    *)
(* what a turn in flight may still write back and cost, and what a         *)
(* deletion or a move has found and has still to do.                       *)
(***************************************************************************)
EXTENDS TraceRecorder, ChatPromise, SequenceTheorems, FiniteSetTheorems, TLAPS

CONSTANTS
  Projects,  \* the rest of ChatTurns
  Home,
  MaxEdits

VARIABLES
  spend,
  edit,
  left

-----------------------------------------------------------------------------
(* The trace of a request                                                  *)
-----------------------------------------------------------------------------
Events == Requests \X Nat \X Nat \X BOOLEAN
Pcs == {"start", "run", "append", "evicted", "persist", "closing", "pop", "closed", "gone"}
Threads == [pc : Pcs, hand : Seq(Events), detached : BOOLEAN]
Contexts == [sequence : Nat, hop : BOOLEAN, saved : Nat]

TypeOK ==
  /\ order \in Seq(Requests)
  /\ buffer \in [Requests -> Seq(Events)]
  /\ thread \in [Requests -> Threads]
  /\ context \in [Requests -> Contexts]
  /\ rows \in Seq(Events)
  /\ made \in [Requests -> Nat]
  /\ lost \subseteq Events /\ strayed \subseteq Events
  /\ evicted \subseteq Requests
  /\ twice \in BOOLEAN

\* An event is in one buffer, in one hand, in the store, or lost.
Apart(bu, th, ro, lo) ==
  /\ IsInjective(ro)
  /\ \A r \in Requests : IsInjective(bu[r]) /\ IsInjective(th[r].hand)
  /\ \A r, u \in Requests : Range(bu[r]) \cap Range(th[u].hand) = {}
  /\ \A r, u \in Requests : r # u => Range(th[r].hand) \cap Range(th[u].hand) = {}
  /\ \A r \in Requests : /\ Range(bu[r]) \cap (Range(ro) \cup lo) = {}
                         /\ Range(th[r].hand) \cap (Range(ro) \cup lo) = {}

\* Whose events a buffer and a hand hold.
Owned(bu, th) ==
  \A r \in Requests :
    /\ \A e \in Range(bu[r]) : e[1] = r
    /\ th[r].pc \in {"persist", "closing"} => \A e \in Range(th[r].hand) : e[1] = r
    /\ th[r].pc \notin {"persist", "closing", "evicted"} => th[r].hand = <<>>
    /\ th[r].pc \in {"closing", "pop", "closed"} => bu[r] = <<>>

\* The dict, and what a request knows of its buffer.
InDict(q, bu, th, ev, sy) ==
  /\ \A r \in Requests :
       /\ r \notin Range(q) => bu[r] = <<>>
       /\ th[r].pc \in {"append", "evicted"} /\ ~th[r].detached => r \in Range(q)
       /\ th[r].detached => r \in ev
  /\ \A e \in sy : e[1] \in ev

\* A request records an event when it is about to append it.
Pending(t) == t.pc \in {"append", "evicted"}
Begun(th, co, ma) ==
  \A r \in Requests :
    /\ Pending(th[r]) => ma[r] > 0
    /\ th[r].pc = "start" => co[r].sequence = 0 /\ ~co[r].hop

\* Every event there is, and how many events of a request have a place.
Buffered(bu) == UNION {Range(bu[u]) : u \in Requests}
InHand(th) == UNION {Range(th[u].hand) : u \in Requests}
Known(bu, th, ro, lo, sy) == Range(ro) \cup lo \cup sy \cup Buffered(bu) \cup InHand(th)
Count(t, m) == IF Pending(t) THEN m - 1 ELSE m
Counts(th, ma) == [r \in Requests |-> Count(th[r], ma[r])]
\* The last number that an event outside of a hop was given.
Clock(t, c) == IF c.hop THEN c.saved ELSE Count(t, c.sequence)
Clocks(th, co) == [r \in Requests |-> Clock(th[r], co[r])]

Numbered(kn, nu, cl) ==
  /\ \A e \in kn : e[2] \in 1 .. nu[e[1]]
  /\ \A r \in Requests : \A n \in 1 .. nu[r] : \E e \in kn : e[1] = r /\ e[2] = n
  /\ \A e, f \in kn : e[1] = f[1] /\ e[2] = f[2] => e = f
  /\ \A e \in kn : ~e[4] => e[3] <= cl[e[1]]
  /\ \A e, f \in kn : e # f /\ e[1] = f[1] /\ ~e[4] /\ ~f[4] => e[3] # f[3]

\* The inductive invariant.
IndInv ==
  /\ TypeOK
  /\ Apart(buffer, thread, rows, lost)
  /\ Owned(buffer, thread)
  /\ InDict(order, buffer, thread, evicted, strayed)
  /\ Begun(thread, context, made)
  /\ Numbered(Known(buffer, thread, rows, lost, strayed), Counts(thread, made), Clocks(thread, context))
  /\ WrittenOnce
  /\ BuffersBounded
-----------------------------------------------------------------------------
(***************************************************************************)
(* Sequences without repetition                                            *)
(***************************************************************************)
LEMMA NoItems == Range(<<>>) = {} /\ IsInjective(<<>>)
BY DEF Range, IsInjective

LEMMA OneMore ==
  ASSUME NEW S, NEW q \in Seq(S), NEW x \in S
  PROVE  /\ Append(q, x) \in Seq(S)
         /\ Range(Append(q, x)) = Range(q) \cup {x}
         /\ IsInjective(q) /\ x \notin Range(q) => IsInjective(Append(q, x))
<1> DEFINE a == Append(q, x)
<1>1. /\ DOMAIN q = 1 .. Len(q) /\ Len(q) \in Nat
      /\ DOMAIN a = 1 .. Len(q) + 1 /\ a \in Seq(S)
      /\ \A i \in 1 .. Len(q) : a[i] = q[i]
      /\ a[Len(q) + 1] = x
  BY AppendProperties, LenProperties
<1> HIDE DEF a
<1>2. Range(a) = Range(q) \cup {x}
  <2>1. ASSUME NEW i \in DOMAIN a PROVE a[i] \in Range(q) \cup {x}
    BY <1>1 DEF Range
  <2>2. ASSUME NEW i \in DOMAIN q PROVE q[i] \in Range(a)
    BY <1>1 DEF Range
  <2>3. x \in Range(a)
    BY <1>1 DEF Range
  <2> QED  BY <2>1, <2>2, <2>3 DEF Range
<1>3. ASSUME IsInjective(q), x \notin Range(q), NEW i \in DOMAIN a, NEW j \in DOMAIN a, a[i] = a[j]
      PROVE  i = j
  <2>1. \A k \in 1 .. Len(q) : q[k] # x
    BY <1>1, <1>3 DEF Range
  <2>2. CASE i \in 1 .. Len(q) /\ j \in 1 .. Len(q)
    BY <1>1, <1>3, <2>2 DEF IsInjective
  <2> QED  BY <1>1, <1>3, <2>1, <2>2
<1> QED  BY <1>1, <1>2, <1>3 DEF IsInjective, a

LEMMA BothOnce ==
  ASSUME NEW S, NEW p \in Seq(S), NEW q \in Seq(S), IsInjective(p), IsInjective(q),
         Range(p) \cap Range(q) = {}
  PROVE  IsInjective(p \o q)
<1> DEFINE a == p \o q
<1>1. /\ DOMAIN p = 1 .. Len(p) /\ Len(p) \in Nat /\ DOMAIN q = 1 .. Len(q) /\ Len(q) \in Nat
      /\ DOMAIN a = 1 .. Len(p) + Len(q)
      /\ \A i \in 1 .. Len(p) + Len(q) : a[i] = IF i <= Len(p) THEN p[i] ELSE q[i - Len(p)]
  BY ConcatProperties, LenProperties
<1> HIDE DEF a
<1>2. \A i \in DOMAIN p, j \in DOMAIN q : p[i] # q[j]
  BY DEF Range
<1>3. ASSUME NEW i \in DOMAIN a, NEW j \in DOMAIN a, a[i] = a[j]
      PROVE  i = j
  <2>1. CASE i <= Len(p) /\ j <= Len(p)
    BY <1>1, <1>3, <2>1 DEF IsInjective
  <2>2. CASE i > Len(p) /\ j > Len(p)
    <3>1. i - Len(p) \in DOMAIN q /\ j - Len(p) \in DOMAIN q /\ q[i - Len(p)] = q[j - Len(p)]
      BY <1>1, <1>3, <2>2
    <3>2. i - Len(p) = j - Len(p)
      BY <3>1 DEF IsInjective
    <3> QED  BY <1>1, <1>3, <3>2
  <2>3. CASE i <= Len(p) /\ j > Len(p)
    <3>1. i \in DOMAIN p /\ j - Len(p) \in DOMAIN q /\ p[i] = q[j - Len(p)]
      BY <1>1, <1>3, <2>3
    <3> QED  BY <3>1, <1>2
  <2>4. CASE i > Len(p) /\ j <= Len(p)
    <3>1. j \in DOMAIN p /\ i - Len(p) \in DOMAIN q /\ p[j] = q[i - Len(p)]
      BY <1>1, <1>3, <2>4
    <3> QED  BY <3>1, <1>2
  <2> QED  BY <1>1, <1>3, <2>1, <2>2, <2>3, <2>4
<1> QED  BY <1>3 DEF IsInjective, a

\* A part of a sequence repeats nothing the sequence does not.
LEMMA PartOnce ==
  ASSUME NEW S, NEW q \in Seq(S), NEW m \in 1 .. Len(q) + 1
  PROVE  /\ SubSeq(q, m, Len(q)) \in Seq(S)
         /\ Range(SubSeq(q, m, Len(q))) \subseteq Range(q)
         /\ IsInjective(q) => IsInjective(SubSeq(q, m, Len(q)))
<1> DEFINE a == SubSeq(q, m, Len(q))
<1>1. Len(q) \in Nat /\ DOMAIN q = 1 .. Len(q) /\ \A i \in m .. Len(q) : q[i] \in S
  BY LenProperties, ElementOfSeq
<1>2. /\ a \in Seq(S)
      /\ Len(a) = Len(q) - m + 1
      /\ \A i \in 1 .. Len(q) - m + 1 : a[i] = q[m + i - 1]
  BY <1>1, SubSeqProperties
<1>3. DOMAIN a = 1 .. Len(q) - m + 1
  BY <1>2, LenProperties
<1> HIDE DEF a
<1>4. ASSUME NEW i \in DOMAIN a PROVE m + i - 1 \in DOMAIN q /\ a[i] = q[m + i - 1]
  BY <1>1, <1>2, <1>3
<1>5. Range(a) \subseteq Range(q)
  BY <1>4 DEF Range
<1>6. ASSUME IsInjective(q), NEW i \in DOMAIN a, NEW j \in DOMAIN a, a[i] = a[j] PROVE i = j
  <2>1. m + i - 1 = m + j - 1
    BY <1>4, <1>6 DEF IsInjective
  <2> QED  BY <2>1, <1>3, <1>1
<1> QED  BY <1>2, <1>5, <1>6 DEF IsInjective, a

\* The dict without its oldest entry, and without the one of a request.
LEMMA Younger ==
  ASSUME NEW S, NEW q \in Seq(S), q # <<>>, IsInjective(q)
  PROVE  /\ Head(q) \in Range(q) /\ Head(q) \in S
         /\ Tail(q) \in Seq(S) /\ Len(Tail(q)) = Len(q) - 1
         /\ Range(Tail(q)) = Range(q) \ {Head(q)}
         /\ IsInjective(Tail(q))
<1> DEFINE t == Tail(q)
<1>1. /\ Head(q) = q[1] /\ Len(q) \in Nat /\ Len(q) >= 1 /\ DOMAIN q = 1 .. Len(q)
      /\ t \in Seq(S) /\ Len(t) = Len(q) - 1 /\ Head(q) \in S
      /\ \A i \in 1 .. Len(t) : t[i] = q[i + 1]
  BY HeadTailProperties, LenProperties, EmptySeq
<1>2. DOMAIN t = 1 .. Len(q) - 1
  BY <1>1, LenProperties
<1> HIDE DEF t
<1>3. \A i \in DOMAIN t : t[i] \in Range(q) /\ t[i] # q[1]
  <2> SUFFICES ASSUME NEW i \in DOMAIN t PROVE t[i] \in Range(q) /\ t[i] # q[1]
    OBVIOUS
  <2>1. i + 1 \in DOMAIN q /\ 1 \in DOMAIN q /\ t[i] = q[i + 1] /\ i + 1 # 1
    BY <1>1, <1>2
  <2> QED  BY <2>1 DEF Range, IsInjective
<1>4. \A i \in DOMAIN q : q[i] # q[1] => q[i] \in Range(t)
  <2> SUFFICES ASSUME NEW i \in DOMAIN q, q[i] # q[1] PROVE q[i] \in Range(t)
    OBVIOUS
  <2>1. i - 1 \in DOMAIN t /\ t[i - 1] = q[i]
    BY <1>1, <1>2
  <2> QED  BY <2>1 DEF Range
<1>5. Range(t) = Range(q) \ {Head(q)}
  BY <1>1, <1>3, <1>4 DEF Range
<1>6. ASSUME NEW i \in DOMAIN t, NEW j \in DOMAIN t, t[i] = t[j] PROVE i = j
  <2>1. i + 1 = j + 1
    BY <1>1, <1>2, <1>6 DEF IsInjective
  <2> QED  BY <2>1, <1>2, <1>1
<1>7. Head(q) \in Range(q)
  BY <1>1 DEF Range
<1> QED  BY <1>1, <1>5, <1>6, <1>7 DEF IsInjective, t

LEMMA WithoutIs ==
  ASSUME NEW S, NEW q \in Seq(S), NEW x, IsInjective(q)
  PROVE  /\ Without(q, x) \in Seq(S)
         /\ Range(Without(q, x)) = Range(q) \ {x}
         /\ IsInjective(Without(q, x))
         /\ Len(Without(q, x)) <= Len(q)
<1>0. Len(q) \in Nat /\ DOMAIN q = 1 .. Len(q)
  BY LenProperties
<1>1. CASE x \notin Range(q)
  BY <1>0, <1>1 DEF Without
<1>2. CASE x \in Range(q)
  <2> DEFINE n == CHOOSE i \in DOMAIN q : q[i] = x
             p == SubSeq(q, 1, n - 1)
             s == SubSeq(q, n + 1, Len(q))
  <2>1. n \in 1 .. Len(q) /\ q[n] = x
    BY <1>0, <1>2 DEF Range
  <2> HIDE DEF n
  <2>2. (\A i \in 1 .. n - 1 : q[i] \in S) /\ (\A i \in n + 1 .. Len(q) : q[i] \in S)
    BY <1>0, <2>1, ElementOfSeq
  <2>3. /\ p \in Seq(S) /\ Len(p) = n - 1 /\ \A i \in 1 .. n - 1 : p[i] = q[i]
        /\ s \in Seq(S) /\ Len(s) = Len(q) - n
        /\ \A i \in 1 .. Len(q) - n : s[i] = q[n + i]
    <3>1. p \in Seq(S) /\ Len(p) = n - 1 /\ \A i \in 1 .. n - 1 : p[i] = q[1 + i - 1]
      BY <1>0, <2>1, <2>2, SubSeqProperties, 1 \in Int, n - 1 \in Int
    <3>2. /\ s \in Seq(S) /\ Len(s) = IF n + 1 <= Len(q) THEN Len(q) - (n + 1) + 1 ELSE 0
          /\ \A i \in 1 .. Len(q) - (n + 1) + 1 : s[i] = q[n + 1 + i - 1]
      <4> HIDE DEF s
      <4>1. n + 1 \in Int /\ Len(q) \in Int
        BY <1>0, <2>1
      <4> QED  BY <2>2, <4>1, SubSeqProperties DEF s
    <3>3. ASSUME NEW i \in 1 .. Len(q) - n PROVE s[i] = q[n + i]
      <4>1. i \in 1 .. Len(q) - (n + 1) + 1 /\ n + 1 + i - 1 = n + i
        BY <1>0, <2>1
      <4> HIDE DEF s
      <4> QED  BY <3>2, <4>1
    <3>4. ASSUME NEW i \in 1 .. n - 1 PROVE p[i] = q[i]
      <4>1. 1 + i - 1 = i
        OBVIOUS
      <4> HIDE DEF p
      <4> QED  BY <3>1, <4>1
    <3>5. Len(s) = Len(q) - n
      <4> HIDE DEF s
      <4>1. n \in Nat /\ Len(q) \in Nat /\ n <= Len(q)
        BY <1>0, <2>1
      <4>2. Len(s) = IF n + 1 <= Len(q) THEN Len(q) - (n + 1) + 1 ELSE 0
        BY <3>2
      <4> QED  BY <4>1, <4>2
    <3> QED  BY <3>1, <3>2, <3>3, <3>4, <3>5
  <2> HIDE DEF p, s
  <2>4. DOMAIN p = 1 .. n - 1 /\ DOMAIN s = 1 .. Len(q) - n
    BY <2>3, LenProperties
  <2>5. Without(q, x) = p \o s
    BY <1>2 DEF Without, RemoveAt, n, p, s
  <2>6. ASSUME NEW i \in DOMAIN p PROVE i \in DOMAIN q /\ i < n /\ p[i] = q[i]
    BY <1>0, <2>1, <2>3, <2>4
  <2>7. ASSUME NEW i \in DOMAIN s PROVE n + i \in DOMAIN q /\ n + i > n /\ s[i] = q[n + i]
    <3>1. i \in 1 .. Len(q) - n
      BY <2>4
    <3>2. s[i] = q[n + i]
      BY <2>3, <3>1
    <3> QED  BY <1>0, <2>1, <3>1, <3>2
  <2>8. IsInjective(p) /\ IsInjective(s) /\ Range(p) \cap Range(s) = {}
    <3>1. IsInjective(p)
      BY <2>6 DEF IsInjective
    <3>2. ASSUME NEW i \in DOMAIN s, NEW j \in DOMAIN s, s[i] = s[j] PROVE i = j
      <4>1. n + i = n + j
        BY <2>7, <3>2 DEF IsInjective
      <4> QED  BY <4>1, <2>4, <2>1, <1>0
    <3>3. \A i \in DOMAIN p, j \in DOMAIN s : p[i] # s[j]
      <4> SUFFICES ASSUME NEW i \in DOMAIN p, NEW j \in DOMAIN s, q[i] = q[n + j] PROVE FALSE
        BY <2>6, <2>7
      <4>1. i = n + j
        BY <2>6, <2>7 DEF IsInjective
      <4> QED  BY <4>1, <2>6, <2>7, <2>4, <2>1
    <3> QED  BY <3>1, <3>2, <3>3 DEF IsInjective, Range
  <2>9. Range(p) \cup Range(s) = Range(q) \ {x}
    <3>1. ASSUME NEW i \in DOMAIN p PROVE p[i] \in Range(q) \ {x}
      BY <2>1, <2>6, <1>0 DEF IsInjective, Range
    <3>2. ASSUME NEW i \in DOMAIN s PROVE s[i] \in Range(q) \ {x}
      BY <2>1, <2>7, <1>0 DEF IsInjective, Range
    <3>3. ASSUME NEW i \in DOMAIN q, q[i] # x PROVE q[i] \in Range(p) \cup Range(s)
      <4>1. CASE i < n
        <5>1. i \in DOMAIN p
          BY <4>1, <1>0, <2>1, <2>4
        <5> QED  BY <5>1, <2>6 DEF Range
      <4>2. CASE i > n
        <5>1. i - n \in DOMAIN s /\ n + (i - n) = i
          BY <4>2, <1>0, <2>1, <2>4
        <5>2. s[i - n] = q[i]
          BY <5>1, <2>7
        <5> QED  BY <5>1, <5>2 DEF Range
      <4> QED  BY <4>1, <4>2, <3>3, <2>1, <1>0
    <3> QED  BY <3>1, <3>2, <3>3 DEF Range
  <2>10. Range(p \o s) = Range(p) \cup Range(s)
    BY <2>3, RangeConcatenation
  <2>11. IsInjective(p \o s)
    BY <2>3, <2>8, BothOnce
  <2>12. p \o s \in Seq(S) /\ Len(p \o s) = Len(p) + Len(s)
    BY <2>3, ConcatProperties
  <2> QED  BY <1>0, <2>1, <2>3, <2>5, <2>9, <2>10, <2>11, <2>12
<1> QED  BY <1>1, <1>2
-----------------------------------------------------------------------------
(***************************************************************************)
(* Where events go                                                         *)
(***************************************************************************)
LEMMA KnownIs ==
  ASSUME NEW bu, NEW th, NEW ro, NEW lo, NEW sy, NEW e
  PROVE  e \in Known(bu, th, ro, lo, sy) <=>
           \/ e \in Range(ro) \/ e \in lo \/ e \in sy
           \/ \E u \in Requests : e \in Range(bu[u])
           \/ \E u \in Requests : e \in Range(th[u].hand)
<1>1. e \in Buffered(bu) <=> \E u \in Requests : e \in Range(bu[u])
  BY DEF Buffered
<1>2. e \in InHand(th) <=> \E u \in Requests : e \in Range(th[u].hand)
  BY DEF InHand
<1> QED  BY <1>1, <1>2 DEF Known

\* No event moves.
LEMMA StaySound ==
  ASSUME NEW bu, NEW th, NEW ro, NEW lo, Apart(bu, th, ro, lo),
         NEW th2, \A u \in Requests : th2[u].hand = th[u].hand
  PROVE  /\ Apart(bu, th2, ro, lo)
         /\ \A sy : Known(bu, th2, ro, lo, sy) = Known(bu, th, ro, lo, sy)
<1>1. Apart(bu, th2, ro, lo)
  BY DEF Apart
<1>2. ASSUME NEW sy PROVE Known(bu, th2, ro, lo, sy) = Known(bu, th, ro, lo, sy)
  <2>1. ASSUME NEW e
        PROVE  e \in Known(bu, th2, ro, lo, sy) <=> e \in Known(bu, th, ro, lo, sy)
    BY KnownIs
  <2> QED  BY <2>1
<1> QED  BY <1>1, <1>2

\* A buffer is emptied into an empty hand.
LEMMA ShiftSound ==
  ASSUME NEW bu, NEW th, NEW ro, NEW lo, Apart(bu, th, ro, lo),
         NEW r \in Requests, NEW o \in Requests, th[r].hand = <<>>,
         NEW bu2, \A u \in Requests : bu2[u] = IF u = o THEN <<>> ELSE bu[u],
         NEW th2, \A u \in Requests : th2[u].hand = IF u = r THEN bu[o] ELSE th[u].hand,
         \A u \in Requests : u # o => Range(bu[u]) \cap Range(bu[o]) = {}
  PROVE  /\ Apart(bu2, th2, ro, lo)
         /\ \A sy : Known(bu2, th2, ro, lo, sy) = Known(bu, th, ro, lo, sy)
<1>1. Apart(bu2, th2, ro, lo)
  BY NoItems DEF Apart
<1>2. ASSUME NEW sy PROVE Known(bu2, th2, ro, lo, sy) = Known(bu, th, ro, lo, sy)
  <2>1. ASSUME NEW e
        PROVE  e \in Known(bu2, th2, ro, lo, sy) <=> e \in Known(bu, th, ro, lo, sy)
    <3>1. (\E u \in Requests : e \in Range(bu2[u])) \/ (\E u \in Requests : e \in Range(th2[u].hand))
          <=> (\E u \in Requests : e \in Range(bu[u])) \/ (\E u \in Requests : e \in Range(th[u].hand))
      BY NoItems
    <3> QED  BY <3>1, KnownIs
  <2> QED  BY <2>1
<1> QED  BY <1>1, <1>2

\* A hand is emptied into the store, where some of its events may be lost.
LEMMA WriteSound ==
  ASSUME NEW bu, NEW th, NEW ro, NEW lo, Apart(bu, th, ro, lo),
         NEW r \in Requests,
         NEW ro2, NEW lo2, IsInjective(ro2),
         Range(ro2) \cup lo2 = Range(ro) \cup lo \cup Range(th[r].hand),
         NEW th2, \A u \in Requests : th2[u].hand = IF u = r THEN <<>> ELSE th[u].hand
  PROVE  /\ Apart(bu, th2, ro2, lo2)
         /\ \A sy : Known(bu, th2, ro2, lo2, sy) = Known(bu, th, ro, lo, sy)
<1>1. Apart(bu, th2, ro2, lo2)
  BY NoItems DEF Apart
<1>2. ASSUME NEW sy PROVE Known(bu, th2, ro2, lo2, sy) = Known(bu, th, ro, lo, sy)
  <2>1. ASSUME NEW e
        PROVE  e \in Known(bu, th2, ro2, lo2, sy) <=> e \in Known(bu, th, ro, lo, sy)
    <3>1. e \in Range(ro2) \/ e \in lo2 \/ (\E u \in Requests : e \in Range(th2[u].hand))
          <=> e \in Range(ro) \/ e \in lo \/ (\E u \in Requests : e \in Range(th[u].hand))
      BY NoItems
    <3> QED  BY <3>1, KnownIs
  <2> QED  BY <2>1
<1> QED  BY <1>1, <1>2

\* A new event goes to the buffer.
LEMMA KeepSound ==
  ASSUME NEW bu, NEW th, NEW ro, NEW lo, Apart(bu, th, ro, lo),
         NEW r \in Requests, NEW x \in Events, bu[r] \in Seq(Events), th[r].hand = <<>>,
         NEW sy, x \notin Known(bu, th, ro, lo, sy),
         \A u \in Requests : u # r => Range(bu[u]) \cap Range(bu[r]) = {},
         NEW bu2, NEW th2,
         \A u \in Requests : bu2[u] = IF u = r THEN Append(bu[r], x) ELSE bu[u],
         \A u \in Requests : th2[u].hand = th[u].hand
  PROVE  /\ Apart(bu2, th2, ro, lo)
         /\ Known(bu2, th2, ro, lo, sy) = Known(bu, th, ro, lo, sy) \cup {x}
<1> DEFINE full == Append(bu[r], x)
<1>0. bu[r] \in Seq(Events)
  OBVIOUS
<1>1. /\ x \notin Range(ro) /\ x \notin lo
      /\ \A u \in Requests : x \notin Range(bu[u]) /\ x \notin Range(th[u].hand)
  BY KnownIs
<1>2. Range(full) = Range(bu[r]) \cup {x} /\ IsInjective(full)
  BY <1>0, <1>1, OneMore DEF Apart
<1>3. /\ \A u \in Requests : bu2[u] = IF u = r THEN full ELSE bu[u]
      /\ \A u \in Requests : th2[u].hand = th[u].hand
  OBVIOUS
<1> HIDE DEF full
<1>4. Apart(bu2, th2, ro, lo)
  <2>1. IsInjective(ro) /\ \A u \in Requests : IsInjective(bu2[u]) /\ IsInjective(th2[u].hand)
    BY <1>2, <1>3 DEF Apart
  <2>2. \A u, v \in Requests : Range(bu2[u]) \cap Range(th2[v].hand) = {}
    BY <1>1, <1>2, <1>3 DEF Apart
  <2>3. \A u, v \in Requests : u # v => Range(th2[u].hand) \cap Range(th2[v].hand) = {}
    BY <1>1, <1>2, <1>3 DEF Apart
  <2>4. \A u \in Requests : /\ Range(bu2[u]) \cap (Range(ro) \cup lo) = {}
                           /\ Range(th2[u].hand) \cap (Range(ro) \cup lo) = {}
    BY <1>1, <1>2, <1>3 DEF Apart
  <2> QED  BY <2>1, <2>2, <2>3, <2>4 DEF Apart
<1>5. ASSUME NEW e
      PROVE  e \in Known(bu2, th2, ro, lo, sy) <=> e \in Known(bu, th, ro, lo, sy) \cup {x}
  <2>1. (\E u \in Requests : e \in Range(bu2[u])) <=> (\E u \in Requests : e \in Range(bu[u])) \/ e = x
    BY <1>2, <1>3
  <2> QED  BY <2>1, <1>3, KnownIs
<1> QED  BY <1>4, <1>5

\* A new event goes with the buffer to the empty hand.
LEMMA BatchSound ==
  ASSUME NEW bu, NEW th, NEW ro, NEW lo, Apart(bu, th, ro, lo),
         NEW r \in Requests, NEW x \in Events, bu[r] \in Seq(Events), th[r].hand = <<>>,
         NEW sy, x \notin Known(bu, th, ro, lo, sy),
         \A u \in Requests : u # r => Range(bu[u]) \cap Range(bu[r]) = {},
         NEW bu2, NEW th2,
         \A u \in Requests : bu2[u] = IF u = r THEN <<>> ELSE bu[u],
         \A u \in Requests : th2[u].hand = IF u = r THEN Append(bu[r], x) ELSE th[u].hand
  PROVE  /\ Apart(bu2, th2, ro, lo)
         /\ Known(bu2, th2, ro, lo, sy) = Known(bu, th, ro, lo, sy) \cup {x}
<1> DEFINE full == Append(bu[r], x)
<1>0. bu[r] \in Seq(Events)
  OBVIOUS
<1>1. /\ x \notin Range(ro) /\ x \notin lo
      /\ \A u \in Requests : x \notin Range(bu[u]) /\ x \notin Range(th[u].hand)
  BY KnownIs
<1>2. Range(full) = Range(bu[r]) \cup {x} /\ IsInjective(full)
  BY <1>0, <1>1, OneMore DEF Apart
<1>3. /\ \A u \in Requests : bu2[u] = IF u = r THEN <<>> ELSE bu[u]
      /\ \A u \in Requests : th2[u].hand = IF u = r THEN full ELSE th[u].hand
  OBVIOUS
<1> HIDE DEF full
<1>4. Apart(bu2, th2, ro, lo)
  <2>1. IsInjective(ro) /\ \A u \in Requests : IsInjective(bu2[u]) /\ IsInjective(th2[u].hand)
    BY <1>2, <1>3, NoItems DEF Apart
  <2>2. \A u, v \in Requests : Range(bu2[u]) \cap Range(th2[v].hand) = {}
    <3> SUFFICES ASSUME NEW u \in Requests, NEW v \in Requests
                 PROVE  Range(bu2[u]) \cap Range(th2[v].hand) = {}
      OBVIOUS
    <3>1. CASE u = r
      BY <1>3, <3>1, NoItems
    <3>2. CASE u # r /\ v = r
      <4>1. bu2[u] = bu[u] /\ Range(th2[v].hand) = Range(bu[r]) \cup {x}
        BY <1>2, <1>3, <3>2
      <4> QED  BY <4>1, <3>2, <1>1
    <3>3. CASE u # r /\ v # r
      BY <1>3, <3>3 DEF Apart
    <3> QED  BY <3>1, <3>2, <3>3
  <2>3. \A u, v \in Requests : u # v => Range(th2[u].hand) \cap Range(th2[v].hand) = {}
    <3>1. \A v \in Requests : v # r => Range(th2[r].hand) \cap Range(th2[v].hand) = {}
      <4> SUFFICES ASSUME NEW v \in Requests, v # r
                   PROVE  Range(th2[r].hand) \cap Range(th2[v].hand) = {}
        OBVIOUS
      <4>1. th2[v].hand = th[v].hand /\ Range(th2[r].hand) = Range(bu[r]) \cup {x}
        BY <1>2, <1>3
      <4>2. Range(bu[r]) \cap Range(th[v].hand) = {} /\ x \notin Range(th[v].hand)
        BY <1>1 DEF Apart
      <4> QED  BY <4>1, <4>2
    <3>2. \A u, v \in Requests : u # r /\ v # r /\ u # v => Range(th2[u].hand) \cap Range(th2[v].hand) = {}
      BY <1>3 DEF Apart
    <3> QED  BY <3>1, <3>2
  <2>4. \A u \in Requests : /\ Range(bu2[u]) \cap (Range(ro) \cup lo) = {}
                           /\ Range(th2[u].hand) \cap (Range(ro) \cup lo) = {}
    BY <1>1, <1>2, <1>3, NoItems DEF Apart
  <2> QED  BY <2>1, <2>2, <2>3, <2>4 DEF Apart
<1>5. ASSUME NEW e
      PROVE  e \in Known(bu2, th2, ro, lo, sy) <=> e \in Known(bu, th, ro, lo, sy) \cup {x}
  <2>1. (\E u \in Requests : e \in Range(bu2[u])) \/ (\E u \in Requests : e \in Range(th2[u].hand))
        <=> (\E u \in Requests : e \in Range(bu[u])) \/ (\E u \in Requests : e \in Range(th[u].hand)) \/ e = x
    BY <1>2, <1>3, NoItems
  <2> QED  BY <2>1, KnownIs
<1> QED  BY <1>4, <1>5

\* One more event of r has a place: it has the next number, and outside of a
\* hop a sequence number above the last one.
LEMMA NumberedMore ==
  ASSUME NEW kn \in SUBSET Events, NEW nu \in [Requests -> Int], NEW cl \in [Requests -> Int],
         Numbered(kn, nu, cl),
         NEW r \in Requests, NEW x \in Events, x[1] = r, nu[r] \in Nat, x[2] = nu[r] + 1,
         NEW nu2, \A u \in Requests : nu2[u] = IF u = r THEN nu[r] + 1 ELSE nu[u],
         NEW cl2 \in [Requests -> Int],
         \A u \in Requests : u # r => cl2[u] = cl[u],
         cl2[r] >= cl[r], ~x[4] => x[3] > cl[r] /\ cl2[r] >= x[3]
  PROVE  Numbered(kn \cup {x}, nu2, cl2) /\ x \notin kn
<1>0. \A e \in kn : e[1] \in Requests /\ e[2] \in Nat /\ e[3] \in Nat /\ e[4] \in BOOLEAN
  BY DEF Events
<1>01. x[2] \in Nat /\ x[3] \in Nat /\ x[4] \in BOOLEAN
  BY DEF Events
<1>1. \A e \in kn : e[1] = r => e[2] # x[2]
  BY <1>0 DEF Numbered
<1>2. \A e \in kn \cup {x} : e[2] \in 1 .. nu2[e[1]]
  BY <1>0 DEF Numbered
<1>3. \A u \in Requests : \A n \in 1 .. nu2[u] : \E e \in kn \cup {x} : e[1] = u /\ e[2] = n
  <2> SUFFICES ASSUME NEW u \in Requests, NEW n \in 1 .. nu2[u]
               PROVE  \E e \in kn \cup {x} : e[1] = u /\ e[2] = n
    OBVIOUS
  <2>1. CASE u = r /\ n = nu[r] + 1
    BY <2>1
  <2>2. CASE ~(u = r /\ n = nu[r] + 1)
    <3>1. n \in 1 .. nu[u]
      BY <2>2
    <3> QED  BY <3>1 DEF Numbered
  <2> QED  BY <2>1, <2>2
<1>4. \A e, f \in kn \cup {x} : e[1] = f[1] /\ e[2] = f[2] => e = f
  BY <1>1 DEF Numbered
<1>5. \A e \in kn \cup {x} : ~e[4] => e[3] <= cl2[e[1]]
  <2>1. ASSUME NEW e \in kn, ~e[4] PROVE e[3] <= cl2[e[1]]
    <3>1. e[3] <= cl[e[1]] /\ e[1] \in Requests
      BY <2>1, <1>0 DEF Numbered
    <3> QED  BY <3>1, <1>0
  <2> QED  BY <2>1
<1>6. \A e \in kn : ~e[4] /\ ~x[4] /\ e[1] = x[1] => e[3] # x[3]
  <2> SUFFICES ASSUME NEW e \in kn, ~e[4], ~x[4], e[1] = r PROVE e[3] < x[3]
    BY <1>0
  <2>1. e[3] <= cl[r]
    BY DEF Numbered
  <2> QED  BY <2>1, <1>0, <1>01
<1>7. \A e, f \in kn \cup {x} : e # f /\ e[1] = f[1] /\ ~e[4] /\ ~f[4] => e[3] # f[3]
  BY <1>6 DEF Numbered
<1>8. x \notin kn
  BY <1>1
<1> QED  BY <1>2, <1>3, <1>4, <1>5, <1>7, <1>8 DEF Numbered
-----------------------------------------------------------------------------
(***************************************************************************)
(* The steps                                                               *)
(***************************************************************************)
\* Only r does something: it goes to p, with h in its hand.
Moves(th, th2, r, p, h, d) ==
  /\ th2 \in [Requests -> Threads]
  /\ th2[r].pc = p /\ th2[r].hand = h /\ th2[r].detached = d
  /\ \A u \in Requests : u # r => th2[u] = th[u]

LEMMA MovesTo ==
  ASSUME NEW th \in [Requests -> Threads], NEW r \in Requests, NEW p \in Pcs,
         NEW h \in Seq(Events), NEW d \in BOOLEAN
  PROVE  /\ Moves(th, [th EXCEPT ![r].pc = p], r, p, th[r].hand, th[r].detached)
         /\ Moves(th, [th EXCEPT ![r] = [@ EXCEPT !.pc = p, !.detached = d]], r, p, th[r].hand, d)
         /\ Moves(th, [th EXCEPT ![r] = [@ EXCEPT !.pc = p, !.hand = h]], r, p, h, th[r].detached)
<1> DEFINE t == th[r]
<1>0. t \in Threads
  OBVIOUS
<1>1. ASSUME NEW x \in Threads
      PROVE  Moves(th, [th EXCEPT ![r] = x], r, x.pc, x.hand, x.detached)
  BY <1>1 DEF Moves
<1>2. LET x == [t EXCEPT !.pc = p] IN
      x \in Threads /\ x.pc = p /\ x.hand = t.hand /\ x.detached = t.detached
  BY <1>0 DEF Threads
<1>3. LET x == [t EXCEPT !.pc = p, !.detached = d] IN
      x \in Threads /\ x.pc = p /\ x.hand = t.hand /\ x.detached = d
  BY <1>0 DEF Threads
<1>4. LET x == [t EXCEPT !.pc = p, !.hand = h] IN
      x \in Threads /\ x.pc = p /\ x.hand = h /\ x.detached = t.detached
  BY <1>0 DEF Threads
<1>5. Moves(th, [th EXCEPT ![r] = [t EXCEPT !.pc = p]], r, p, t.hand, t.detached)
  BY <1>1, <1>2
<1>6. Moves(th, [th EXCEPT ![r] = [t EXCEPT !.pc = p, !.detached = d]], r, p, t.hand, d)
  BY <1>1, <1>3
<1>7. Moves(th, [th EXCEPT ![r] = [t EXCEPT !.pc = p, !.hand = h]], r, p, h, t.detached)
  BY <1>1, <1>4
<1> QED  BY <1>5, <1>6, <1>7

\* A step that gives no event a place leaves the numbers alone.
LEMMA NumberedStays ==
  ASSUME NEW kn, NEW th, NEW ma, NEW co, NEW th2, NEW ma2, NEW co2,
         Numbered(kn, Counts(th, ma), Clocks(th, co)),
         \A u \in Requests : Count(th2[u], ma2[u]) = Count(th[u], ma[u]),
         \A u \in Requests : Clock(th2[u], co2[u]) = Clock(th[u], co[u])
  PROVE  Numbered(kn, Counts(th2, ma2), Clocks(th2, co2))
<1>1. Counts(th2, ma2) = Counts(th, ma)
  BY DEF Counts
<1>2. Clocks(th2, co2) = Clocks(th, co)
  BY DEF Clocks
<1> QED  BY <1>1, <1>2

\* Events of other requests are not in the buffer of a request.
LEMMA OwnBuffers ==
  ASSUME IndInv, NEW r \in Requests, NEW u \in Requests, u # r
  PROVE  Range(buffer[u]) \cap Range(buffer[r]) = {}
BY DEF IndInv, Owned

LEMMA KnownEvents ==
  ASSUME TypeOK
  PROVE  Known(buffer, thread, rows, lost, strayed) \subseteq Events
<1> SUFFICES ASSUME NEW e \in Known(buffer, thread, rows, lost, strayed) PROVE e \in Events
  OBVIOUS
<1>1. CASE e \in Range(rows)
  BY <1>1, RangeOfSeq DEF TypeOK
<1>2. CASE e \in lost \/ e \in strayed
  BY <1>2 DEF TypeOK
<1>3. CASE \E u \in Requests : e \in Range(buffer[u])
  <2>1. PICK u \in Requests : e \in Range(buffer[u])
    BY <1>3
  <2>2. buffer[u] \in Seq(Events)
    BY DEF TypeOK
  <2> QED  BY <2>1, <2>2, RangeOfSeq
<1>4. CASE \E u \in Requests : e \in Range(thread[u].hand)
  <2>1. PICK u \in Requests : e \in Range(thread[u].hand)
    BY <1>4
  <2>2. thread[u].hand \in Seq(Events)
    BY DEF TypeOK, Threads
  <2> QED  BY <2>1, <2>2, RangeOfSeq
<1> QED  BY <1>1, <1>2, <1>3, <1>4, KnownIs

LEMMA InitSound == SizesAssumption /\ Init => IndInv
<1> SUFFICES ASSUME SizesAssumption, Init PROVE IndInv
  OBVIOUS
<1> DEFINE start == [Run EXCEPT !.pc = "start"]
<1>1. /\ start \in Threads /\ start.pc = "start" /\ start.hand = <<>> /\ start.detached = FALSE
      /\ thread = [r \in Requests |-> start]
  <2>1. <<>> \in Seq(Events)
    BY EmptySeq
  <2>2. start.pc = "start" /\ start.hand = <<>> /\ start.detached = FALSE
    BY DEF Run
  <2>3. start \in [pc : {"start"}, hand : {<<>>}, detached : {FALSE}]
    BY DEF Run
  <2>4. start \in Threads
    BY <2>1, <2>3 DEF Threads, Pcs
  <2> QED  BY <2>2, <2>4 DEF Init
<1> HIDE DEF start
<1>2. /\ \A r \in Requests : thread[r].pc = "start" /\ thread[r].hand = <<>> /\ ~thread[r].detached
      /\ \A r \in Requests : buffer[r] = <<>> /\ made[r] = 0
      /\ \A r \in Requests : context[r].sequence = 0 /\ ~context[r].hop
      /\ order = <<>> /\ rows = <<>> /\ lost = {} /\ strayed = {} /\ evicted = {} /\ twice = FALSE
  BY <1>1 DEF Init
<1>3. TypeOK
  <2>1. <<>> \in Seq(Events) /\ <<>> \in Seq(Requests)
    BY EmptySeq
  <2> QED  BY <1>1, <2>1 DEF Init, TypeOK, Contexts
<1>4. Apart(buffer, thread, rows, lost)
  BY <1>2, NoItems DEF Apart
<1>5. Owned(buffer, thread) /\ InDict(order, buffer, thread, evicted, strayed)
      /\ Begun(thread, context, made)
  BY <1>2, NoItems DEF Owned, InDict, Begun, Pending
<1>6. \A e : e \notin Known(buffer, thread, rows, lost, strayed)
  BY <1>2, NoItems, KnownIs
<1>7. Numbered(Known(buffer, thread, rows, lost, strayed), Counts(thread, made), Clocks(thread, context))
  <2>1. \A r \in Requests : Counts(thread, made)[r] = 0
    BY <1>2 DEF Counts, Count, Pending
  <2> QED  BY <1>6, <2>1 DEF Numbered
<1>8. WrittenOnce /\ BuffersBounded
  <2>1. Len(order) = 0 /\ IsInjective(order)
    BY <1>2, NoItems, EmptySeq
  <2> QED  BY <1>2, <2>1 DEF WrittenOnce, BuffersBounded, SizesAssumption
<1> QED  BY <1>3, <1>4, <1>5, <1>7, <1>8 DEF IndInv
\* A step of r that gives no event a place, neither takes nor moves one, and
\* leaves the dict alone.
LEMMA QuietSound ==
  ASSUME IndInv, NEW r \in Requests, NEW p, NEW d,
         Moves(thread, thread', r, p, thread[r].hand, d), d = thread[r].detached,
         thread[r].pc \notin {"append", "evicted", "persist", "closing"},
         p \notin {"start", "append", "evicted", "persist", "closing"},
         p \in {"pop", "closed"} => buffer[r] = <<>>,
         context' \in [Requests -> Contexts],
         \A u \in Requests : u # r => context'[u] = context[u],
         Clock(thread'[r], context'[r]) = Clock(thread[r], context[r]),
         UNCHANGED <<order, buffer, rows, made, lost, strayed, evicted, twice>>
  PROVE  IndInv'
<1>1. TypeOK'
  BY DEF IndInv, TypeOK, Moves
<1>2. \A u \in Requests : /\ thread'[u].hand = thread[u].hand
                          /\ thread'[u].detached = thread[u].detached
                          /\ Pending(thread'[u]) = Pending(thread[u])
                          /\ u # r => thread'[u] = thread[u]
  BY DEF Moves, Pending
<1>3. /\ Apart(buffer, thread', rows, lost)
      /\ Known(buffer, thread', rows, lost, strayed) = Known(buffer, thread, rows, lost, strayed)
  BY <1>2, StaySound DEF IndInv
<1>4. Owned(buffer', thread')
  BY <1>2 DEF IndInv, Owned, Moves
<1>5. InDict(order', buffer', thread', evicted', strayed')
  BY <1>2 DEF IndInv, InDict, Moves
<1>6. Begun(thread', context', made')
  BY <1>2 DEF IndInv, Begun, Moves, Pending
<1>7. Numbered(Known(buffer', thread', rows', lost', strayed'), Counts(thread', made'), Clocks(thread', context'))
  <2>1. \A u \in Requests : Count(thread'[u], made'[u]) = Count(thread[u], made[u])
    BY <1>2 DEF Count
  <2>2. \A u \in Requests : Clock(thread'[u], context'[u]) = Clock(thread[u], context[u])
    BY <1>2
  <2>3. Numbered(Known(buffer, thread, rows, lost, strayed), Counts(thread', made'), Clocks(thread', context'))
    BY <2>1, <2>2, NumberedStays DEF IndInv
  <2> QED  BY <2>3, <1>3
<1>8. Apart(buffer', thread', rows', lost')
  BY <1>3
<1>9. WrittenOnce' /\ BuffersBounded'
  BY DEF IndInv, WrittenOnce, BuffersBounded
<1> QED  BY <1>1, <1>4, <1>5, <1>6, <1>7, <1>8, <1>9 DEF IndInv

\* Going into a thread and coming back, the clock of the request stands still.
LEMMA HopSound == ASSUME IndInv, NEW r \in Requests, Hop(r) PROVE IndInv'
<1>1. Moves(thread, thread', r, "run", thread[r].hand, thread[r].detached) /\ thread[r].pc = "run"
  BY DEF Hop, At, Moves, IndInv, TypeOK
<1>2. /\ context' \in [Requests -> Contexts]
      /\ \A u \in Requests : u # r => context'[u] = context[u]
      /\ context'[r].hop /\ context'[r].saved = context[r].sequence /\ ~context[r].hop
      /\ thread'[r] = thread[r]
  BY DEF Hop, IndInv, TypeOK, Contexts
<1>3. Clock(thread'[r], context'[r]) = Clock(thread[r], context[r])
  BY <1>1, <1>2 DEF Clock, Count, Pending
<1> QED  BY <1>1, <1>2, <1>3, QuietSound DEF Hop

LEMMA ReturnSound == ASSUME IndInv, NEW r \in Requests, Return(r) PROVE IndInv'
<1>1. Moves(thread, thread', r, "run", thread[r].hand, thread[r].detached) /\ thread[r].pc = "run"
  BY DEF Return, At, Moves, IndInv, TypeOK
<1>2. /\ context' \in [Requests -> Contexts]
      /\ \A u \in Requests : u # r => context'[u] = context[u]
      /\ ~context'[r].hop /\ context'[r].sequence = context[r].saved /\ context[r].hop
      /\ thread'[r] = thread[r]
  BY DEF Return, IndInv, TypeOK, Contexts
<1>3. Clock(thread'[r], context'[r]) = Clock(thread[r], context[r])
  BY <1>1, <1>2 DEF Clock, Count, Pending
<1> QED  BY <1>1, <1>2, <1>3, QuietSound DEF Return

LEMMA CancelSound == ASSUME IndInv, NEW r \in Requests, Cancel(r) PROVE IndInv'
<1>1. Moves(thread, thread', r, "gone", thread[r].hand, thread[r].detached) /\ thread[r].pc = "run"
  <2>1. thread \in [Requests -> Threads] /\ "gone" \in Pcs
    BY DEF IndInv, TypeOK, Pcs
  <2>2. thread[r].hand \in Seq(Events) /\ thread[r].detached \in BOOLEAN
    BY <2>1 DEF Threads
  <2> QED  BY <2>1, <2>2, MovesTo DEF Cancel, Goto, At
<1>2. context' \in [Requests -> Contexts] /\ \A u \in Requests : context'[u] = context[u]
  BY DEF Cancel, IndInv, TypeOK
<1>3. Clock(thread'[r], context'[r]) = Clock(thread[r], context[r])
  BY <1>1, <1>2 DEF Clock, Count, Pending, Moves
<1>4. UNCHANGED <<order, buffer, rows, made, lost, strayed, evicted, twice>>
  BY DEF Cancel
<1>5. thread[r].pc \notin {"append", "evicted", "persist", "closing"}
  BY <1>1
<1>6. "gone" \notin {"start", "append", "evicted", "persist", "closing"} /\ "gone" \notin {"pop", "closed"}
  OBVIOUS
<1> QED  BY <1>1, <1>2, <1>3, <1>4, <1>5, <1>6, QuietSound

LEMMA PopSound == ASSUME SizesAssumption, IndInv, NEW r \in Requests, Pop(r) PROVE IndInv'
<1>1. Moves(thread, thread', r, "closed", thread[r].hand, thread[r].detached) /\ thread[r].pc = "pop"
  <2>1. thread \in [Requests -> Threads] /\ "closed" \in Pcs
    BY DEF IndInv, TypeOK, Pcs
  <2>2. thread[r].hand \in Seq(Events) /\ thread[r].detached \in BOOLEAN
    BY <2>1 DEF Threads
  <2> QED  BY <2>1, <2>2, MovesTo DEF Pop, Goto, At
<1>2. buffer[r] = <<>> /\ buffer' = buffer
  BY <1>1 DEF Pop, IndInv, Owned, TypeOK
<1>3. /\ order' \in Seq(Requests) /\ Range(order') = Range(order) \ {r}
      /\ IsInjective(order') /\ Len(order') <= Len(order)
  BY WithoutIs DEF Pop, IndInv, TypeOK, BuffersBounded
<1>4. UNCHANGED <<context, rows, made, lost, strayed, evicted, twice>>
  BY DEF Pop
<1>5. TypeOK'
  BY <1>1, <1>2, <1>3, <1>4 DEF IndInv, TypeOK, Moves
<1>6. \A u \in Requests : /\ thread'[u].hand = thread[u].hand
                          /\ thread'[u].detached = thread[u].detached
                          /\ Pending(thread'[u]) = Pending(thread[u])
                          /\ u # r => thread'[u] = thread[u]
  BY <1>1 DEF Moves, Pending
<1>7. /\ Apart(buffer, thread', rows, lost)
      /\ Known(buffer, thread', rows, lost, strayed) = Known(buffer, thread, rows, lost, strayed)
  BY <1>6, StaySound DEF IndInv
<1>8. Owned(buffer', thread')
  BY <1>1, <1>2, <1>6 DEF IndInv, Owned, Moves
<1>9. InDict(order', buffer', thread', evicted', strayed')
  BY <1>1, <1>2, <1>3, <1>4, <1>6 DEF IndInv, InDict, Moves
<1>10. Begun(thread', context', made')
  BY <1>1, <1>4, <1>6 DEF IndInv, Begun, Moves, Pending
<1>11. Numbered(Known(buffer', thread', rows', lost', strayed'), Counts(thread', made'), Clocks(thread', context'))
  <2>1. \A u \in Requests : Count(thread'[u], made'[u]) = Count(thread[u], made[u])
    BY <1>4, <1>6 DEF Count
  <2>2. \A u \in Requests : Clock(thread'[u], context'[u]) = Clock(thread[u], context[u])
    BY <1>4, <1>6 DEF Clock, Count
  <2>3. Numbered(Known(buffer, thread, rows, lost, strayed), Counts(thread', made'), Clocks(thread', context'))
    BY <2>1, <2>2, NumberedStays DEF IndInv
  <2> QED  BY <2>3, <1>2, <1>4, <1>7
<1>12. Apart(buffer', thread', rows', lost')
  BY <1>2, <1>4, <1>7
<1>13. WrittenOnce' /\ BuffersBounded'
  <2>1. MaxBuffers >= Len(order) /\ Len(order) \in Nat /\ Len(order') \in Nat
    BY <1>3, LenProperties DEF IndInv, BuffersBounded, TypeOK
  <2>2. Len(order') <= MaxBuffers
    BY <1>3, <2>1 DEF SizesAssumption
  <2> QED  BY <1>3, <1>4, <2>2 DEF IndInv, WrittenOnce, BuffersBounded
<1> QED  BY <1>5, <1>8, <1>9, <1>10, <1>11, <1>12, <1>13 DEF IndInv
\* What r holds is written, fails to be, or pushes older events out.
LEMMA PersistSound ==
  ASSUME SizesAssumption, IndInv, NEW r \in Requests, NEW next \in Pcs, Persist(r, next),
         \/ thread[r].pc = "evicted" /\ next = "append"
         \/ thread[r].pc = "persist" /\ next = "run"
         \/ thread[r].pc = "closing" /\ next = "pop",
         UNCHANGED <<order, buffer, context, made, strayed, evicted>>
  PROVE  IndInv'
<1> DEFINE hand == thread[r].hand
           all == rows \o hand
           over == Len(all) - Ring
           kept == IF over > 0 THEN SubSeq(all, over + 1, Len(all)) ELSE all
<1>0. thread \in [Requests -> Threads] /\ hand \in Seq(Events) /\ thread[r].detached \in BOOLEAN
  BY DEF IndInv, TypeOK, Threads
<1>1. Moves(thread, thread', r, next, <<>>, thread[r].detached)
  <2>1. <<>> \in Seq(Events)
    BY EmptySeq
  <2> QED  BY <1>0, <2>1, MovesTo DEF Persist
<1>2. /\ IsInjective(rows) /\ IsInjective(hand) /\ Range(rows) \cap Range(hand) = {}
      /\ Range(hand) \cap lost = {}
  BY DEF IndInv, Apart
<1>3. all \in Seq(Events) /\ Range(all) = Range(rows) \cup Range(hand) /\ IsInjective(all)
  BY <1>0, <1>2, BothOnce, ConcatProperties, RangeConcatenation DEF IndInv, TypeOK
<1>4. kept \in Seq(Events) /\ Range(kept) \subseteq Range(all) /\ IsInjective(kept)
  <2> HIDE DEF all
  <2>1. Len(all) \in Nat
    BY <1>3, LenProperties
  <2>2. CASE over > 0
    <3>1. over + 1 \in 1 .. Len(all) + 1
      BY <2>1, <2>2 DEF SizesAssumption
    <3> HIDE DEF over
    <3> QED  BY <1>3, <2>2, <3>1, PartOnce
  <2>3. CASE ~(over > 0)
    BY <1>3, <2>3
  <2> QED  BY <2>2, <2>3
<1>5. \/ rows' = kept /\ lost' = lost \cup (Range(all) \ Range(kept))
         /\ twice' = (twice \/ ~IsInjective(all) \/ Range(hand) \cap lost # {})
      \/ rows' = rows /\ lost' = lost \cup Range(hand) /\ twice' = twice
  BY DEF Persist
<1> HIDE DEF hand, all, over, kept
<1>6. /\ rows' \in Seq(Events) /\ IsInjective(rows')
      /\ Range(rows') \cup lost' = Range(rows) \cup lost \cup Range(hand)
      /\ twice' = FALSE
  <2>1. rows \in Seq(Events) /\ twice = FALSE
    BY DEF IndInv, TypeOK, WrittenOnce
  <2> QED  BY <1>2, <1>3, <1>4, <1>5, <2>1
<1>7. TypeOK'
  <2>1. Range(hand) \subseteq Events /\ Range(rows) \subseteq Events
    BY <1>0, RangeOfSeq DEF IndInv, TypeOK
  <2>2. lost' \subseteq Events
    BY <1>6, <2>1 DEF IndInv, TypeOK
  <2> QED  BY <1>1, <1>6, <2>2 DEF IndInv, TypeOK, Moves
<1>8. \A u \in Requests : /\ thread'[u].hand = IF u = r THEN <<>> ELSE thread[u].hand
                          /\ thread'[u].detached = thread[u].detached
                          /\ Pending(thread'[u]) = Pending(thread[u])
                          /\ u # r => thread'[u] = thread[u]
  BY <1>1 DEF Moves, Pending
<1>9. /\ Apart(buffer, thread', rows', lost')
      /\ Known(buffer, thread', rows', lost', strayed) = Known(buffer, thread, rows, lost, strayed)
  BY <1>6, <1>8, WriteSound DEF IndInv, hand
<1>10. Owned(buffer', thread')
  BY <1>1, <1>8, NoItems DEF IndInv, Owned, Moves
<1>11. InDict(order', buffer', thread', evicted', strayed')
  BY <1>1, <1>8 DEF IndInv, InDict, Moves
<1>12. Begun(thread', context', made')
  BY <1>1, <1>8 DEF IndInv, Begun, Moves, Pending
<1>13. Numbered(Known(buffer', thread', rows', lost', strayed'), Counts(thread', made'), Clocks(thread', context'))
  <2>1. \A u \in Requests : Count(thread'[u], made'[u]) = Count(thread[u], made[u])
    BY <1>8 DEF Count
  <2>2. \A u \in Requests : Clock(thread'[u], context'[u]) = Clock(thread[u], context[u])
    BY <1>8 DEF Clock, Count
  <2>3. Numbered(Known(buffer, thread, rows, lost, strayed), Counts(thread', made'), Clocks(thread', context'))
    BY <2>1, <2>2, NumberedStays DEF IndInv
  <2> QED  BY <2>3, <1>9
<1>14. Apart(buffer', thread', rows', lost')
  BY <1>9
<1>15. WrittenOnce' /\ BuffersBounded'
  BY <1>6 DEF IndInv, WrittenOnce, BuffersBounded
<1> QED  BY <1>7, <1>10, <1>11, <1>12, <1>13, <1>14, <1>15 DEF IndInv

\* flush and close take the buffer into the hand.
LEMMA TakeSound ==
  ASSUME IndInv, NEW r \in Requests, NEW next \in {"persist", "closing"},
         thread[r].pc = "run", Take(r, next)
  PROVE  IndInv'
<1>0. /\ thread \in [Requests -> Threads] /\ buffer \in [Requests -> Seq(Events)]
      /\ buffer[r] \in Seq(Events) /\ thread[r].hand = <<>> /\ next \in Pcs
      /\ thread[r].detached \in BOOLEAN
  BY DEF IndInv, TypeOK, Owned, Threads, Pcs
<1>1. Moves(thread, thread', r, next, buffer[r], thread[r].detached)
  BY <1>0, MovesTo DEF Take
<1>2. /\ buffer' \in [Requests -> Seq(Events)]
      /\ \A u \in Requests : buffer'[u] = IF u = r THEN <<>> ELSE buffer[u]
  BY <1>0, EmptySeq DEF Take
<1>3. UNCHANGED <<order, context, rows, made, lost, strayed, evicted, twice>>
  BY DEF Take
<1>4. TypeOK'
  BY <1>1, <1>2, <1>3 DEF IndInv, TypeOK, Moves
<1>5. \A u \in Requests : /\ thread'[u].hand = IF u = r THEN buffer[r] ELSE thread[u].hand
                          /\ thread'[u].detached = thread[u].detached
                          /\ Pending(thread'[u]) = Pending(thread[u])
                          /\ u # r => thread'[u] = thread[u]
  BY <1>1 DEF Moves, Pending
<1>6. /\ Apart(buffer', thread', rows, lost)
      /\ Known(buffer', thread', rows, lost, strayed) = Known(buffer, thread, rows, lost, strayed)
  <2>1. \A u \in Requests : u # r => Range(buffer[u]) \cap Range(buffer[r]) = {}
    BY OwnBuffers
  <2>2. Apart(buffer, thread, rows, lost)
    BY DEF IndInv
  <2>3. \A u \in Requests : buffer'[u] = IF u = r THEN <<>> ELSE buffer[u]
    BY <1>2
  <2>4. \A u \in Requests : thread'[u].hand = IF u = r THEN buffer[r] ELSE thread[u].hand
    BY <1>5
  <2>5. thread[r].hand = <<>>
    BY <1>0
  <2> QED  BY <2>1, <2>2, <2>3, <2>4, <2>5, ShiftSound
<1>7. Owned(buffer', thread')
  BY <1>1, <1>2, <1>5, NoItems DEF IndInv, Owned, Moves
<1>8. InDict(order', buffer', thread', evicted', strayed')
  BY <1>1, <1>2, <1>3, <1>5 DEF IndInv, InDict, Moves
<1>9. Begun(thread', context', made')
  BY <1>1, <1>3, <1>5 DEF IndInv, Begun, Moves, Pending
<1>10. Numbered(Known(buffer', thread', rows', lost', strayed'), Counts(thread', made'), Clocks(thread', context'))
  <2>1. \A u \in Requests : Count(thread'[u], made'[u]) = Count(thread[u], made[u])
    BY <1>3, <1>5 DEF Count
  <2>2. \A u \in Requests : Clock(thread'[u], context'[u]) = Clock(thread[u], context[u])
    BY <1>3, <1>5 DEF Clock, Count
  <2>3. Numbered(Known(buffer, thread, rows, lost, strayed), Counts(thread', made'), Clocks(thread', context'))
    BY <2>1, <2>2, NumberedStays DEF IndInv
  <2> QED  BY <2>3, <1>3, <1>6
<1>11. Apart(buffer', thread', rows', lost')
  BY <1>3, <1>6
<1>12. WrittenOnce' /\ BuffersBounded'
  BY <1>3 DEF IndInv, WrittenOnce, BuffersBounded
<1> QED  BY <1>4, <1>7, <1>8, <1>9, <1>10, <1>11, <1>12 DEF IndInv
\* The event that was begun gets its place: in the buffer, in the hand with the
\* full buffer, or in a buffer nobody will flush.
LEMMA EventIs ==
  ASSUME IndInv, NEW r \in Requests, Pending(thread[r])
  PROVE  /\ Event(r) \in Events
         /\ Event(r)[1] = r /\ Event(r)[2] = made[r]
         /\ Event(r)[3] = context[r].sequence /\ Event(r)[4] = context[r].hop
         /\ made[r] > 0 /\ made[r] \in Nat
<1>1. made[r] \in Nat /\ context[r].sequence \in Nat /\ context[r].hop \in BOOLEAN
  BY DEF IndInv, TypeOK, Contexts
<1>2. made[r] > 0
  BY DEF IndInv, Begun
<1> QED  BY <1>1, <1>2 DEF Event, Events

LEMMA AppendNumbered ==
  ASSUME IndInv, NEW r \in Requests, Pending(thread[r]),
         NEW th2, ~Pending(th2[r]), \A u \in Requests : u # r => th2[u] = thread[u]
  PROVE  /\ Numbered(Known(buffer, thread, rows, lost, strayed) \cup {Event(r)},
                     Counts(th2, made), Clocks(th2, context))
         /\ Event(r) \notin Known(buffer, thread, rows, lost, strayed)
<1> DEFINE nu == Counts(thread, made)
           cl == Clocks(thread, context)
           kn == Known(buffer, thread, rows, lost, strayed)
           nu2 == Counts(th2, made)
           cl2 == Clocks(th2, context)
           x == Event(r)
<1>0. /\ \A u \in Requests : made[u] \in Nat
      /\ \A u \in Requests : /\ context[u].sequence \in Nat /\ context[u].saved \in Nat
                             /\ context[u].hop \in BOOLEAN
  BY DEF IndInv, TypeOK, Contexts
<1>1. nu \in [Requests -> Int] /\ cl \in [Requests -> Int] /\ cl2 \in [Requests -> Int]
  BY <1>0 DEF Counts, Clocks, Clock, Count
<1>2. kn \in SUBSET Events /\ Numbered(kn, nu, cl)
  BY KnownEvents DEF IndInv
<1>3. /\ x \in Events /\ x[1] = r /\ x[2] = made[r] /\ x[3] = context[r].sequence
      /\ x[4] = context[r].hop /\ made[r] > 0 /\ made[r] \in Nat
  BY EventIs
<1>4. nu[r] = made[r] - 1 /\ \A u \in Requests : nu2[u] = IF u = r THEN nu[r] + 1 ELSE nu[u]
  BY <1>0 DEF Counts, Count
<1>5. \A u \in Requests : u # r => cl2[u] = cl[u]
  BY DEF Clocks
<1>6. /\ cl[r] = IF context[r].hop THEN context[r].saved ELSE context[r].sequence - 1
      /\ cl2[r] = IF context[r].hop THEN context[r].saved ELSE context[r].sequence
  BY DEF Clocks, Clock, Count
<1> HIDE DEF nu, cl, kn, nu2, cl2, x
<1>7. nu[r] \in Nat /\ x[2] = nu[r] + 1 /\ cl2[r] >= cl[r] /\ (~x[4] => x[3] > cl[r] /\ cl2[r] >= x[3])
  BY <1>0, <1>3, <1>4, <1>6
<1>8. Numbered(kn \cup {x}, nu2, cl2) /\ x \notin kn
  BY <1>1, <1>2, <1>3, <1>4, <1>5, <1>7, NumberedMore
<1> QED  BY <1>8 DEF nu, cl, kn, nu2, cl2, x

LEMMA AppendEventSound == ASSUME IndInv, NEW r \in Requests, AppendEvent(r) PROVE IndInv'
<1> DEFINE x == Event(r)
           full == Append(buffer[r], x)
<1>0. /\ thread \in [Requests -> Threads] /\ buffer \in [Requests -> Seq(Events)]
      /\ buffer[r] \in Seq(Events) /\ thread[r].hand = <<>> /\ thread[r].pc = "append"
      /\ thread[r].detached \in BOOLEAN /\ Pending(thread[r])
      /\ "run" \in Pcs /\ "persist" \in Pcs /\ <<>> \in Seq(Events)
  BY EmptySeq DEF IndInv, TypeOK, Owned, Threads, Pcs, AppendEvent, At, Pending
<1>1. x \in Events /\ x[1] = r
  BY <1>0, EventIs
<1>2. full \in Seq(Events) /\ Range(full) = Range(buffer[r]) \cup {x}
  BY <1>0, <1>1, OneMore
<1>3. UNCHANGED <<order, context, rows, made, lost, evicted, twice>>
  BY DEF AppendEvent
<1>4. \/ /\ thread[r].detached /\ strayed' = strayed \cup {x} /\ buffer' = buffer
         /\ thread' = [thread EXCEPT ![r].pc = "run"]
      \/ /\ ~thread[r].detached /\ strayed' = strayed
         /\ buffer' = [buffer EXCEPT ![r] = full] /\ thread' = [thread EXCEPT ![r].pc = "run"]
      \/ /\ ~thread[r].detached /\ strayed' = strayed
         /\ buffer' = [buffer EXCEPT ![r] = <<>>]
         /\ thread' = [thread EXCEPT ![r] = [@ EXCEPT !.pc = "persist", !.hand = full]]
  BY DEF AppendEvent, Goto
<1> HIDE DEF full, x
<1>5. \/ /\ thread[r].detached /\ strayed' = strayed \cup {x} /\ buffer' = buffer
         /\ Moves(thread, thread', r, "run", <<>>, thread[r].detached)
      \/ /\ ~thread[r].detached /\ strayed' = strayed
         /\ buffer' = [buffer EXCEPT ![r] = full]
         /\ Moves(thread, thread', r, "run", <<>>, thread[r].detached)
      \/ /\ ~thread[r].detached /\ strayed' = strayed
         /\ buffer' = [buffer EXCEPT ![r] = <<>>]
         /\ Moves(thread, thread', r, "persist", full, thread[r].detached)
  <2>1. /\ Moves(thread, [thread EXCEPT ![r].pc = "run"], r, "run", <<>>, thread[r].detached)
        /\ Moves(thread, [thread EXCEPT ![r] = [@ EXCEPT !.pc = "persist", !.hand = full]], r,
                 "persist", full, thread[r].detached)
    BY <1>0, <1>2, MovesTo
  <2> QED  BY <1>4, <2>1
<1>6. /\ thread' \in [Requests -> Threads] /\ thread'[r].pc \in {"run", "persist"}
      /\ ~Pending(thread'[r]) /\ thread'[r].detached = thread[r].detached
      /\ \A u \in Requests : u # r => thread'[u] = thread[u] /\ buffer'[u] = buffer[u]
      /\ buffer' \in [Requests -> Seq(Events)]
  BY <1>0, <1>2, <1>5 DEF Moves, Pending
<1>7. /\ Numbered(Known(buffer, thread, rows, lost, strayed) \cup {x}, Counts(thread', made), Clocks(thread', context))
      /\ x \notin Known(buffer, thread, rows, lost, strayed)
  BY <1>0, <1>6, AppendNumbered DEF x
<1>8. /\ Apart(buffer', thread', rows, lost)
      /\ Known(buffer', thread', rows, lost, strayed') = Known(buffer, thread, rows, lost, strayed) \cup {x}
  <2>0. Apart(buffer, thread, rows, lost)
    BY DEF IndInv
  <2>1. CASE strayed' = strayed \cup {x} /\ buffer' = buffer /\ Moves(thread, thread', r, "run", <<>>, thread[r].detached)
    <3>1. \A u \in Requests : thread'[u].hand = thread[u].hand
      BY <1>0, <2>1 DEF Moves
    <3>2. /\ Apart(buffer, thread', rows, lost)
          /\ Known(buffer, thread', rows, lost, strayed') = Known(buffer, thread, rows, lost, strayed')
      BY <2>0, <3>1, StaySound
    <3>3. Known(buffer, thread, rows, lost, strayed') = Known(buffer, thread, rows, lost, strayed) \cup {x}
      BY <2>1 DEF Known
    <3> QED  BY <2>1, <3>2, <3>3
  <2>2. CASE strayed' = strayed /\
             \/ /\ buffer' = [buffer EXCEPT ![r] = full]
                /\ Moves(thread, thread', r, "run", <<>>, thread[r].detached)
             \/ /\ buffer' = [buffer EXCEPT ![r] = <<>>]
                /\ Moves(thread, thread', r, "persist", full, thread[r].detached)
    <3>1. \A u \in Requests : u # r => Range(buffer[u]) \cap Range(buffer[r]) = {}
      BY OwnBuffers
    <3>2. buffer[r] \in Seq(Events) /\ thread[r].hand = <<>>
      BY <1>0
    <3>3. x \in Events
      BY <1>1
    <3>4. x \notin Known(buffer, thread, rows, lost, strayed)
      BY <1>7
    <3>5. CASE /\ buffer' = [buffer EXCEPT ![r] = full]
               /\ Moves(thread, thread', r, "run", <<>>, thread[r].detached)
      <4>1. \A u \in Requests : buffer'[u] = IF u = r THEN Append(buffer[r], x) ELSE buffer[u]
        BY <1>0, <3>5 DEF full
      <4>2. \A u \in Requests : thread'[u].hand = thread[u].hand
        BY <1>0, <3>5 DEF Moves
      <4>3. /\ Apart(buffer', thread', rows, lost)
            /\ Known(buffer', thread', rows, lost, strayed) = Known(buffer, thread, rows, lost, strayed) \cup {x}
        BY <2>0, <3>1, <3>2, <3>3, <3>4, <4>1, <4>2, KeepSound
      <4> QED  BY <2>2, <4>3
    <3>6. CASE /\ buffer' = [buffer EXCEPT ![r] = <<>>]
               /\ Moves(thread, thread', r, "persist", full, thread[r].detached)
      <4>1. \A u \in Requests : buffer'[u] = IF u = r THEN <<>> ELSE buffer[u]
        BY <1>0, <3>6
      <4>2. \A u \in Requests : thread'[u].hand = IF u = r THEN Append(buffer[r], x) ELSE thread[u].hand
        BY <1>0, <3>6 DEF Moves, full
      <4>3. /\ Apart(buffer', thread', rows, lost)
            /\ Known(buffer', thread', rows, lost, strayed) = Known(buffer, thread, rows, lost, strayed) \cup {x}
        BY <2>0, <3>1, <3>2, <3>3, <3>4, <4>1, <4>2, BatchSound
      <4> QED  BY <2>2, <4>3
    <3> QED  BY <2>2, <3>5, <3>6
  <2> QED  BY <1>5, <2>1, <2>2
<1>9. TypeOK'
  <2>1. strayed' \subseteq Events
    BY <1>1, <1>5 DEF IndInv, TypeOK
  <2> QED  BY <1>3, <1>6, <2>1 DEF IndInv, TypeOK
<1>10. Owned(buffer', thread')
  <2>1. /\ \A e \in Range(buffer'[r]) : e[1] = r
        /\ thread'[r].pc \in {"persist", "closing"} => \A e \in Range(thread'[r].hand) : e[1] = r
        /\ thread'[r].pc \notin {"persist", "closing", "evicted"} => thread'[r].hand = <<>>
    <3>1. \A e \in Range(buffer[r]) : e[1] = r
      BY DEF IndInv, Owned
    <3> QED  BY <1>0, <1>1, <1>2, <1>5, <3>1, NoItems DEF Moves
  <2>2. thread'[r].pc \notin {"closing", "pop", "closed"}
    BY <1>6
  <2> QED  BY <1>6, <2>1, <2>2 DEF IndInv, Owned
<1>11. InDict(order', buffer', thread', evicted', strayed')
  <2>1. thread[r].detached => r \in evicted
    BY DEF IndInv, InDict
  <2>2. ~thread[r].detached => r \in Range(order)
    BY <1>0 DEF IndInv, InDict
  <2>3. thread[r].detached => buffer'[r] = buffer[r]
    BY <1>5
  <2>4. \A e \in strayed' : e[1] \in evicted
    BY <1>1, <1>5, <2>1 DEF IndInv, InDict
  <2>5. thread'[r].pc \notin {"append", "evicted"}
    BY <1>6
  <2> QED  BY <1>3, <1>6, <2>1, <2>2, <2>3, <2>4, <2>5 DEF IndInv, InDict
<1>12. Begun(thread', context', made')
  BY <1>3, <1>6 DEF IndInv, Begun, Pending
<1>13. Numbered(Known(buffer', thread', rows', lost', strayed'), Counts(thread', made'), Clocks(thread', context'))
  BY <1>3, <1>7, <1>8
<1>14. Apart(buffer', thread', rows', lost')
  BY <1>3, <1>8
<1>15. WrittenOnce' /\ BuffersBounded'
  BY <1>3 DEF IndInv, WrittenOnce, BuffersBounded
<1> QED  BY <1>9, <1>10, <1>11, <1>12, <1>13, <1>14, <1>15 DEF IndInv
\* An event is begun: its number is drawn before the buffer is found.
LEMMA RecordNumbered ==
  ASSUME IndInv, NEW r \in Requests, Record(r),
         Pending(thread'[r]), \A u \in Requests : u # r => thread'[u].pc = thread[u].pc
  PROVE  /\ made' \in [Requests -> Nat] /\ context' \in [Requests -> Contexts]
         /\ Begun(thread', context', made')
         /\ Numbered(Known(buffer, thread, rows, lost, strayed), Counts(thread', made'), Clocks(thread', context'))
<1> DEFINE c == context[r]
           c2 == [c EXCEPT !.sequence = IF At(r, "start") THEN 1 ELSE c.sequence + 1]
<1>1. made[r] \in Nat /\ c \in Contexts /\ context \in [Requests -> Contexts] /\ made \in [Requests -> Nat]
  BY DEF IndInv, TypeOK
<1>2. /\ c2 \in Contexts /\ c2.hop = c.hop /\ c2.saved = c.saved
      /\ c2.sequence = IF At(r, "start") THEN 1 ELSE c.sequence + 1
  BY <1>1 DEF Contexts
<1>3. context' = [context EXCEPT ![r] = c2] /\ made' = [made EXCEPT ![r] = @ + 1]
  BY DEF Record
<1> HIDE DEF c2
<1>4. /\ context' \in [Requests -> Contexts] /\ context'[r] = c2
      /\ \A u \in Requests : u # r => context'[u] = context[u] /\ made'[u] = made[u]
      /\ made' \in [Requests -> Nat] /\ made'[r] = made[r] + 1
  BY <1>1, <1>2, <1>3
<1>5. thread[r].pc = "run" \/ thread[r].pc = "start"
  BY DEF Record, At
<1>6. Begun(thread', context', made')
  <2>1. thread'[r].pc # "start" /\ made'[r] > 0
    BY <1>1, <1>4 DEF Pending
  <2> QED  BY <1>4, <2>1 DEF IndInv, Begun, Pending
<1>7. \A u \in Requests : Count(thread'[u], made'[u]) = Count(thread[u], made[u])
  <2>1. Count(thread'[r], made'[r]) = Count(thread[r], made[r])
    BY <1>1, <1>4, <1>5 DEF Count, Pending
  <2> QED  BY <1>4, <2>1 DEF Count, Pending
<1>8. \A u \in Requests : Clock(thread'[u], context'[u]) = Clock(thread[u], context[u])
  <2>1. thread[r].pc = "start" => c.sequence = 0 /\ ~c.hop
    BY DEF IndInv, Begun
  <2>2. Count(thread'[r], c2.sequence) = c.sequence /\ Count(thread[r], c.sequence) = c.sequence
    BY <1>1, <1>2, <1>5, <2>1 DEF Count, Pending, At, Contexts
  <2>3. Clock(thread'[r], c2) = Clock(thread[r], c)
    BY <1>2, <2>2 DEF Clock
  <2> QED  BY <1>4, <2>3 DEF Clock, Count, Pending
<1>9. Numbered(Known(buffer, thread, rows, lost, strayed), Counts(thread', made'), Clocks(thread', context'))
  BY <1>7, <1>8, NumberedStays DEF IndInv
<1> QED  BY <1>4, <1>6, <1>9

LEMMA RecordSound == ASSUME SizesAssumption, IndInv, NEW r \in Requests, Record(r) PROVE IndInv'
<1>0. /\ thread \in [Requests -> Threads] /\ buffer \in [Requests -> Seq(Events)]
      /\ order \in Seq(Requests) /\ IsInjective(order) /\ Len(order) \in Nat /\ Len(order) <= MaxBuffers
      /\ MaxBuffers \in Nat /\ MaxBuffers > 0
      /\ thread[r].pc \in {"run", "start"} /\ thread[r].hand = <<>>
      /\ "append" \in Pcs /\ FALSE \in BOOLEAN /\ thread[r].hand \in Seq(Events)
  <2>1. thread \in [Requests -> Threads] /\ buffer \in [Requests -> Seq(Events)] /\ order \in Seq(Requests)
    BY DEF IndInv, TypeOK
  <2>2. IsInjective(order) /\ Len(order) \in Nat /\ Len(order) <= MaxBuffers
    BY <2>1, LenProperties DEF IndInv, BuffersBounded
  <2>3. MaxBuffers \in Nat /\ MaxBuffers > 0
    BY DEF SizesAssumption
  <2>4. thread[r].pc \in {"run", "start"}
    BY DEF Record, At
  <2>5. thread[r].hand = <<>>
    BY <2>4 DEF IndInv, Owned
  <2>6. <<>> \in Seq(Events) /\ "append" \in Pcs
    BY EmptySeq DEF Pcs
  <2> QED  BY <2>1, <2>2, <2>3, <2>4, <2>5, <2>6
<1>1. UNCHANGED <<rows, lost, strayed, twice>>
  BY DEF Record
<1>2. CASE \/ /\ r \in Range(order) /\ UNCHANGED <<order, buffer, evicted>>
           \/ /\ r \notin Range(order) /\ Len(order) < MaxBuffers /\ order' = Append(order, r)
              /\ buffer' = [buffer EXCEPT ![r] = <<>>] /\ UNCHANGED evicted
  <2>0. CASE thread' # [thread EXCEPT ![r] = [@ EXCEPT !.pc = "append", !.detached = FALSE]]
    <3>1. r \notin Range(order) /\ Len(order) >= MaxBuffers
      BY <2>0 DEF Record, GetBuffer
    <3> QED  BY <1>0, <1>2, <3>1
  <2>00. SUFFICES ASSUME thread' = [thread EXCEPT ![r] = [@ EXCEPT !.pc = "append", !.detached = FALSE]]
                  PROVE  IndInv'
    BY <2>0
  <2>1. Moves(thread, thread', r, "append", <<>>, FALSE)
    BY <1>0, <2>00, MovesTo
  <2>2. r \notin Range(order) => buffer[r] = <<>>
    BY DEF IndInv, InDict
  <2>3. buffer' = buffer
    BY <1>0, <1>2, <2>2
  <2>4. /\ order' \in Seq(Requests) /\ Range(order') = Range(order) \cup {r}
        /\ IsInjective(order') /\ Len(order') <= MaxBuffers
    <3>1. /\ Append(order, r) \in Seq(Requests) /\ Range(Append(order, r)) = Range(order) \cup {r}
          /\ r \notin Range(order) => IsInjective(Append(order, r))
          /\ Len(Append(order, r)) = Len(order) + 1
      BY <1>0, OneMore, AppendProperties
    <3>2. CASE r \in Range(order)
      <4>1. order' = order
        BY <1>2, <3>2
      <4> QED  BY <1>0, <3>2, <4>1
    <3>3. CASE r \notin Range(order)
      <4>1. order' = Append(order, r) /\ Len(order) < MaxBuffers
        BY <1>2, <3>3
      <4>2. Len(order') = Len(order) + 1
        BY <3>1, <4>1
      <4>3. Len(order') <= MaxBuffers
        BY <1>0, <4>1, <4>2
      <4> QED  BY <3>1, <3>3, <4>1, <4>3
    <3> QED  BY <3>2, <3>3
  <2>5. \A u \in Requests : /\ thread'[u].hand = thread[u].hand
                            /\ u # r => thread'[u] = thread[u]
    BY <1>0, <2>1 DEF Moves
  <2>6. Pending(thread'[r])
    BY <2>1 DEF Moves, Pending
  <2>7. /\ made' \in [Requests -> Nat] /\ context' \in [Requests -> Contexts]
        /\ Begun(thread', context', made')
        /\ Numbered(Known(buffer, thread, rows, lost, strayed), Counts(thread', made'), Clocks(thread', context'))
    BY <2>5, <2>6, RecordNumbered
  <2>8. /\ Apart(buffer, thread', rows, lost)
        /\ Known(buffer, thread', rows, lost, strayed) = Known(buffer, thread, rows, lost, strayed)
    <3>1. \A u \in Requests : thread'[u].hand = thread[u].hand
      BY <2>5
    <3>2. Apart(buffer, thread, rows, lost)
      BY DEF IndInv
    <3> QED  BY <3>1, <3>2, StaySound
  <2>9. Owned(buffer', thread')
    BY <2>1, <2>3, <2>5 DEF IndInv, Owned, Moves
  <2>10. InDict(order', buffer', thread', evicted', strayed')
    <3>1. evicted' = evicted
      BY <1>2
    <3> QED  BY <1>1, <2>1, <2>3, <2>4, <2>5, <3>1 DEF IndInv, InDict, Moves
  <2>11. TypeOK'
    <3>1. evicted' = evicted
      BY <1>2
    <3> QED  BY <1>1, <2>1, <2>3, <2>4, <2>7, <3>1 DEF IndInv, TypeOK, Moves
  <2>12. Numbered(Known(buffer', thread', rows', lost', strayed'), Counts(thread', made'), Clocks(thread', context'))
    BY <1>1, <2>3, <2>7, <2>8
  <2>13. Apart(buffer', thread', rows', lost')
    BY <1>1, <2>3, <2>8
  <2>14. WrittenOnce' /\ BuffersBounded'
    BY <1>1, <2>4 DEF IndInv, WrittenOnce, BuffersBounded
  <2> QED  BY <2>7, <2>9, <2>10, <2>11, <2>12, <2>13, <2>14 DEF IndInv
<1>3. CASE r \notin Range(order) /\ Len(order) >= MaxBuffers /\ Evict(r)
  <2> DEFINE old == Head(order)
  <2>0. /\ old \in Range(order) /\ old \in Requests /\ old # r
        /\ Tail(order) \in Seq(Requests) /\ Len(Tail(order)) = Len(order) - 1
        /\ Range(Tail(order)) = Range(order) \ {old} /\ IsInjective(Tail(order))
    <3>1. order # <<>>
      BY <1>0, <1>3, EmptySeq
    <3> QED  BY <1>0, <1>3, <3>1, Younger
  <2>1. /\ order' = Append(Tail(order), r)
        /\ buffer' = [buffer EXCEPT ![old] = <<>>, ![r] = <<>>]
        /\ evicted' = evicted \cup {old}
        /\ thread' = [u \in Requests |->
             IF u = r THEN [pc |-> "evicted", hand |-> buffer[old], detached |-> FALSE]
             ELSE IF u = old THEN [thread[u] EXCEPT !.detached = TRUE]
             ELSE thread[u]]
    BY <1>3 DEF Evict
  <2> HIDE DEF old
  <2>2. buffer[r] = <<>>
    BY <1>3 DEF IndInv, InDict
  <2>3. /\ buffer' \in [Requests -> Seq(Events)]
        /\ \A u \in Requests : buffer'[u] = IF u = old THEN <<>> ELSE buffer[u]
    BY <1>0, <2>0, <2>1, <2>2, EmptySeq
  <2>4. /\ order' \in Seq(Requests) /\ Range(order') = (Range(order) \ {old}) \cup {r}
        /\ IsInjective(order') /\ Len(order') <= MaxBuffers
    <3>1. /\ order' \in Seq(Requests) /\ Range(order') = Range(Tail(order)) \cup {r}
          /\ IsInjective(order') /\ Len(order') = Len(Tail(order)) + 1
      BY <1>3, <2>0, <2>1, OneMore, AppendProperties
    <3> QED  BY <1>0, <2>0, <3>1
  <2>5. /\ thread'[r] \in Threads
        /\ thread'[r].pc = "evicted" /\ thread'[r].hand = buffer[old] /\ thread'[r].detached = FALSE
    <3>1. thread'[r] = [pc |-> "evicted", hand |-> buffer[old], detached |-> FALSE]
      BY <2>1
    <3>2. buffer[old] \in Seq(Events)
      BY <1>0, <2>0
    <3> QED  BY <3>1, <3>2 DEF Threads, Pcs
  <2>6. /\ thread'[old] \in Threads
        /\ thread'[old].pc = thread[old].pc /\ thread'[old].hand = thread[old].hand
        /\ thread'[old].detached = TRUE
    <3>1. thread'[old] = [thread[old] EXCEPT !.detached = TRUE] /\ thread[old] \in Threads
      BY <1>0, <2>0, <2>1
    <3> QED  BY <3>1 DEF Threads
  <2>7. \A u \in Requests : u # r /\ u # old => thread'[u] = thread[u]
    BY <2>1
  <2>8. thread' \in [Requests -> Threads]
    <3>1. \A u \in Requests : thread'[u] \in Threads
      BY <1>0, <2>5, <2>6, <2>7
    <3> QED  BY <2>1, <3>1
  <2>9. \A u \in Requests : u # r => thread'[u].pc = thread[u].pc /\ thread'[u].hand = thread[u].hand
    BY <2>6, <2>7
  <2>10. \A u \in Requests : thread'[u].hand = IF u = r THEN buffer[old] ELSE thread[u].hand
    BY <2>5, <2>9
  <2>11. Pending(thread'[r])
    BY <2>5 DEF Pending
  <2>12. /\ made' \in [Requests -> Nat] /\ context' \in [Requests -> Contexts]
         /\ Begun(thread', context', made')
         /\ Numbered(Known(buffer, thread, rows, lost, strayed), Counts(thread', made'), Clocks(thread', context'))
    BY <2>9, <2>11, RecordNumbered
  <2>13. /\ Apart(buffer', thread', rows, lost)
         /\ Known(buffer', thread', rows, lost, strayed) = Known(buffer, thread, rows, lost, strayed)
    <3>1. \A u \in Requests : u # old => Range(buffer[u]) \cap Range(buffer[old]) = {}
      BY <2>0, OwnBuffers
    <3>2. Apart(buffer, thread, rows, lost)
      BY DEF IndInv
    <3>3. \A u \in Requests : buffer'[u] = IF u = old THEN <<>> ELSE buffer[u]
      BY <2>3
    <3>4. thread[r].hand = <<>>
      BY <1>0
    <3>5. old \in Requests
      BY <2>0
    <3> QED  BY <3>1, <3>2, <3>3, <3>4, <3>5, <2>10, ShiftSound
  <2>14. Owned(buffer', thread')
    <3>1. \A u \in Requests : u # r =>
            /\ \A e \in Range(buffer'[u]) : e[1] = u
            /\ thread'[u].pc \in {"persist", "closing"} => \A e \in Range(thread'[u].hand) : e[1] = u
            /\ thread'[u].pc \notin {"persist", "closing", "evicted"} => thread'[u].hand = <<>>
            /\ thread'[u].pc \in {"closing", "pop", "closed"} => buffer'[u] = <<>>
      BY <2>3, <2>9, NoItems DEF IndInv, Owned
    <3>2. \A e \in Range(buffer'[r]) : e[1] = r
      BY <2>2, <2>3, NoItems
    <3> QED  BY <3>1, <3>2, <2>5 DEF Owned
  <2>15. InDict(order', buffer', thread', evicted', strayed')
    <3>1. \A u \in Requests : u # r /\ u # old =>
            /\ u \notin Range(order') => buffer'[u] = <<>>
            /\ thread'[u].pc \in {"append", "evicted"} /\ ~thread'[u].detached => u \in Range(order')
            /\ thread'[u].detached => u \in evicted'
      BY <2>1, <2>3, <2>4, <2>7 DEF IndInv, InDict
    <3>2. buffer'[old] = <<>> /\ thread'[old].detached /\ old \in evicted'
      BY <2>0, <2>1, <2>3, <2>6
    <3>3. r \in Range(order') /\ ~thread'[r].detached
      BY <2>4, <2>5
    <3>4. \A e \in strayed' : e[1] \in evicted'
      BY <1>1, <2>1 DEF IndInv, InDict
    <3> QED  BY <3>1, <3>2, <3>3, <3>4 DEF InDict
  <2>16. TypeOK'
    <3>1. evicted' \subseteq Requests
      BY <2>0, <2>1 DEF IndInv, TypeOK
    <3> QED  BY <1>1, <2>3, <2>4, <2>8, <2>12, <3>1 DEF IndInv, TypeOK
  <2>17. Numbered(Known(buffer', thread', rows', lost', strayed'), Counts(thread', made'), Clocks(thread', context'))
    BY <1>1, <2>12, <2>13
  <2>18. Apart(buffer', thread', rows', lost')
    BY <1>1, <2>13
  <2>19. WrittenOnce' /\ BuffersBounded'
    BY <1>1, <2>4 DEF IndInv, WrittenOnce, BuffersBounded
  <2> QED  BY <2>12, <2>14, <2>15, <2>16, <2>17, <2>18, <2>19 DEF IndInv
<1> QED  BY <1>2, <1>3 DEF Record, GetBuffer

LEMMA NextSound == SizesAssumption => (IndInv /\ [Next]_vars => IndInv')
<1> SUFFICES ASSUME SizesAssumption, IndInv, [Next]_vars PROVE IndInv'
  OBVIOUS
<1>1. CASE UNCHANGED vars
  <2>1. UNCHANGED <<order, buffer, thread, context, rows, made, lost, strayed, evicted, twice>>
    BY <1>1 DEF vars
  <2>2. TypeOK' /\ WrittenOnce' /\ BuffersBounded'
    BY <2>1 DEF IndInv, TypeOK, WrittenOnce, BuffersBounded
  <2>3. /\ Apart(buffer', thread', rows', lost')
        /\ Owned(buffer', thread')
        /\ InDict(order', buffer', thread', evicted', strayed')
        /\ Begun(thread', context', made')
        /\ Numbered(Known(buffer', thread', rows', lost', strayed'), Counts(thread', made'), Clocks(thread', context'))
    BY <2>1 DEF IndInv
  <2> QED  BY <2>2, <2>3 DEF IndInv
<1>2. ASSUME NEW r \in Requests, Step(r) PROVE IndInv'
  <2>0. "append" \in Pcs /\ "run" \in Pcs /\ "pop" \in Pcs
    BY DEF Pcs
  <2>1. CASE FlushEvicted(r)
    <3>1. thread[r].pc = "evicted" /\ Persist(r, "append") /\ UNCHANGED <<order, buffer, context, made, strayed, evicted>>
      BY <2>1 DEF FlushEvicted, At
    <3> QED  BY <2>0, <3>1, PersistSound
  <2>2. CASE WriteBatch(r)
    <3>1. thread[r].pc = "persist" /\ Persist(r, "run") /\ UNCHANGED <<order, buffer, context, made, strayed, evicted>>
      BY <2>2 DEF WriteBatch, At
    <3> QED  BY <2>0, <3>1, PersistSound
  <2>3. CASE CloseWrite(r)
    <3>1. thread[r].pc = "closing" /\ Persist(r, "pop") /\ UNCHANGED <<order, buffer, context, made, strayed, evicted>>
      BY <2>3 DEF CloseWrite, At
    <3> QED  BY <2>0, <3>1, PersistSound
  <2>4. CASE Flush(r)
    <3>1. thread[r].pc = "run" /\ Take(r, "persist")
      BY <2>4 DEF Flush, At
    <3> QED  BY <3>1, TakeSound
  <2>5. CASE Close(r)
    <3>1. thread[r].pc = "run" /\ Take(r, "closing")
      BY <2>5 DEF Close, At
    <3> QED  BY <3>1, TakeSound
  <2> QED  BY <1>2, <2>1, <2>2, <2>3, <2>4, <2>5, RecordSound, AppendEventSound, HopSound, ReturnSound,
              PopSound, CancelSound DEF Step
<1> QED  BY <1>1, <1>2 DEF Next
-----------------------------------------------------------------------------
(***************************************************************************)
(* What the invariant implies                                              *)
(***************************************************************************)
\* Of a request that closed its trace nothing is in a buffer, nor in a hand but
\* that of a thread that evicted its buffer.
LEMMA RecordedIs ==
  ASSUME IndInv, NEW r \in Requests, At(r, "closed")
  PROVE  Recorded(r) = {e \in Known(buffer, thread, rows, lost, strayed) : e[1] = r}
<1>0. Owned(buffer, thread) /\ thread[r].pc = "closed"
  BY DEF IndInv, At
<1>1. ASSUME NEW e, e[1] = r, NEW u \in Requests, e \in Range(buffer[u]) PROVE FALSE
  <2>1. u = r
    BY <1>0, <1>1 DEF Owned
  <2>2. buffer[r] = <<>>
    BY <1>0 DEF Owned
  <2> QED  BY <1>1, <2>1, <2>2, NoItems
<1>2. ASSUME NEW e, e[1] = r, NEW u \in Requests, e \in Range(thread[u].hand)
      PROVE  e \in Evicting
  <2>1. thread[u].pc = "evicted"
    <3>1. thread[u].pc \in {"persist", "closing"} => u = r
      BY <1>0, <1>2 DEF Owned
    <3>2. thread[u].pc \notin {"persist", "closing", "evicted"} => thread[u].hand = <<>>
      BY <1>0 DEF Owned
    <3> QED  BY <1>0, <1>2, <3>1, <3>2, NoItems
  <2> QED  BY <1>2, <2>1 DEF Evicting, At
<1>3. ASSUME NEW e, e \in Evicting PROVE \E u \in Requests : e \in Range(thread[u].hand)
  BY <1>3 DEF Evicting
<1>4. ASSUME NEW e
      PROVE  e \in Recorded(r) <=> e \in Known(buffer, thread, rows, lost, strayed) /\ e[1] = r
  <2>1. e \in Recorded(r) <=> (e \in Range(rows) \/ e \in lost \/ e \in strayed \/ e \in Evicting) /\ e[1] = r
    BY DEF Recorded
  <2>2. e \in Known(buffer, thread, rows, lost, strayed) <=>
           \/ e \in Range(rows) \/ e \in lost \/ e \in strayed
           \/ \E u \in Requests : e \in Range(buffer[u])
           \/ \E u \in Requests : e \in Range(thread[u].hand)
    BY KnownIs
  <2> QED  BY <1>1, <1>2, <1>3, <2>1, <2>2
<1> QED  BY <1>4

\* Events that carry the numbers from 1 to n, each once, are n events.
LEMMA NumberedCount ==
  ASSUME NEW n \in Nat, NEW S,
         \A e \in S : e[2] \in 1 .. n,
         \A i \in 1 .. n : \E e \in S : e[2] = i,
         \A e, f \in S : e[2] = f[2] => e = f
  PROVE  Cardinality(S) = n
<1> DEFINE g == [i \in 1 .. n |-> CHOOSE e \in S : e[2] = i]
<1>1. \A i \in 1 .. n : g[i] \in S /\ g[i][2] = i
  OBVIOUS
<1>2. g \in [1 .. n -> S]
  BY <1>1
<1>3. DOMAIN g = 1 .. n
  OBVIOUS
<1> HIDE DEF g
<1>4. \A i, j \in 1 .. n : g[i] = g[j] => i = j
  BY <1>1
<1>5. \A e \in S : \E i \in 1 .. n : g[i] = e
  <2> SUFFICES ASSUME NEW e \in S PROVE g[e[2]] = e /\ e[2] \in 1 .. n
    OBVIOUS
  <2> QED  BY <1>1
<1>6. g \in Bijection(1 .. n, S)
  BY <1>2, <1>3, <1>4, <1>5 DEF Bijection, Injection, Surjection, IsInjective
<1>7. IsFiniteSet(1 .. n) /\ Cardinality(1 .. n) = n
  BY FS_Interval
<1>8. ExistsBijection(1 .. n, S)
  BY <1>6 DEF ExistsBijection
<1> QED  BY <1>7, <1>8, FS_Bijection

LEMMA ClosedSound == IndInv => ClosedIsPersisted
<1> SUFFICES ASSUME IndInv, NEW r \in Requests, At(r, "closed")
             PROVE  /\ Cardinality(Recorded(r)) = made[r]
                    /\ r \notin evicted => \A e \in strayed : e[1] # r
  BY DEF ClosedIsPersisted
<1> DEFINE kn == Known(buffer, thread, rows, lost, strayed)
<1>1. made[r] \in Nat /\ Counts(thread, made)[r] = made[r]
  BY DEF IndInv, TypeOK, Counts, Count, Pending, At
<1>2. Numbered(kn, Counts(thread, made), Clocks(thread, context))
  BY DEF IndInv
<1>3. Recorded(r) = {e \in kn : e[1] = r}
  BY RecordedIs
<1> HIDE DEF kn
<1>4. \A e \in Recorded(r) : e[2] \in 1 .. made[r]
  BY <1>1, <1>2, <1>3 DEF Numbered
<1>5. \A i \in 1 .. made[r] : \E e \in Recorded(r) : e[2] = i
  BY <1>1, <1>2, <1>3 DEF Numbered
<1>6. \A e, f \in Recorded(r) : e[2] = f[2] => e = f
  BY <1>2, <1>3 DEF Numbered
<1>7. Cardinality(Recorded(r)) = made[r]
  BY <1>1, <1>4, <1>5, <1>6, NumberedCount
<1>8. r \notin evicted => \A e \in strayed : e[1] # r
  BY DEF IndInv, InDict
<1> QED  BY <1>7, <1>8

LEMMA SharedSound == IndInv => SequenceSharedByHop
<1> SUFFICES ASSUME IndInv PROVE SequenceSharedByHop
  OBVIOUS
<1>1. Range(rows) \subseteq Known(buffer, thread, rows, lost, strayed)
  BY KnownIs
<1> QED  BY <1>1 DEF IndInv, Numbered, SequenceSharedByHop

\* The events of a request have one place each, however the requests
\* interleave, whatever the sizes of the buffers, the dict and the ring are,
\* and however often the store fails: when a trace is closed they are in the
\* store, lost to it, or lost to an eviction; none is written twice; the dict
\* stays bounded; and a sequence number is shared only across a hop.
THEOREM TraceIsKeptHolds ==
  ASSUME SizesAssumption
  PROVE  Spec => []TraceIsKept
<1>1. Init => IndInv
  BY InitSound
<1>2. IndInv /\ [Next]_vars => IndInv'
  BY NextSound
<1>3. IndInv => TraceIsKept
  BY ClosedSound, SharedSound DEF IndInv, TraceIsKept
<1> QED  BY <1>1, <1>2, <1>3, PTL DEF Spec
-----------------------------------------------------------------------------
(* Chat turns                                                              *)
-----------------------------------------------------------------------------
Chat == INSTANCE ChatTurns

Turning == {"title", "scope", "attach", "user", "audit", "blocked", "search", "answer", "assistant"}
Flying(t) == turn[t].pc \in Turning

ChatTypeOK ==
  /\ chats \in [Sessions -> Chat!Rows \cup {Absent}]
  /\ files \in [Files -> Chat!FileRows \cup {Absent}]
  /\ log \subseteq [turn : Turns, role : {"user", "assistant"}, session : Sessions,
                    file : Files \cup {Absent}]
  /\ turn \in [Turns -> [pc : Turning \cup {"none", "done", "refused"},
                         session : Sessions \cup {Absent}, file : Files \cup {Absent},
                         copy : Chat!Rows \cup {Absent}, seen : Nat]]
  /\ edit \in [pc : {"idle", "elsewhere", "delete", "files", "follow", "context"},
               session : Sessions \cup {Absent}, copy : Chat!Rows \cup {Absent},
               related : SUBSET Files, elsewhere : SUBSET Files]
  /\ spend \in Nat /\ paid \in Nat /\ peak \in Nat
  /\ gone \subseteq Sessions /\ settled \subseteq Sessions
  /\ \A t \in Turns : turn[t].pc # "none" => turn[t].session \in Sessions /\ turn[t].copy \in Chat!Rows
  /\ edit.pc # "idle" => edit.session \in Sessions
  /\ edit.pc \in {"follow", "context"} => edit.copy \in Chat!Rows
  /\ edit.pc = "idle" => edit = Chat!NoEdit

\* A session ends once, unless one of its turns was going on.
Lifetimes ==
  /\ DeletedStaysDeleted
  /\ \A s \in Sessions : chats[s] = Absent => s \in gone
  /\ edit.pc # "idle" => \A t \in Turns : Flying(t) => turn[t].session \in overlapped
  /\ \A t \in Turns : Flying(t) /\ turn[t].session \in gone => turn[t].session \in overlapped
  /\ edit.pc \in {"elsewhere", "delete", "follow", "context"} /\ edit.session \in gone =>
       edit.session \in overlapped

\* What a deletion removes is in no message of another session.
Attachments ==
  /\ AttachmentsSurvive
  /\ \A t \in Turns : turn[t].pc \in {"search", "user"} =>
       \/ turn[t].file = Absent \/ files[turn[t].file] # Absent
       \/ turn[t].session \in overlapped
  /\ edit.pc = "delete" =>
       \A m \in log :
         \/ m.file = Absent \/ m.file \in edit.elsewhere \/ m.session = edit.session
         \/ m.session \in overlapped \/ chats[m.session] = Absent
  /\ edit.pc = "files" =>
       \A m \in log :
         m.file \notin edit.related \/ m.session \in overlapped \/ chats[m.session] = Absent

Knowledge ==
  /\ KnowledgeSurvives
  /\ edit.pc = "delete" => Linked \subseteq edit.elsewhere
  /\ edit.pc = "files" => edit.related \cap Linked = {}

\* Where the files of s are.
InPlace(s, p) == \A f \in Related(s) : files[f] = Absent \/ files[f].project = p

\* What a move has still to carry, and that it takes no file of a settled session.
Settling ==
  /\ MoveCarriesFiles
  /\ \A t \in Turns : Flying(t) /\ turn[t].session \in settled => turn[t].session \in overlapped
  /\ edit.pc # "idle" => edit.session \notin settled
  /\ edit.pc = "follow" =>
       /\ \A r \in settled : r \in overlapped \/ chats[r] = Absent \/ Related(r) \cap edit.related = {}
       /\ \/ edit.session \in overlapped \/ chats[edit.session] = Absent
          \/ /\ chats[edit.session].project = edit.copy.project
             /\ \A f \in Related(edit.session) :
                  f \in edit.related \/ files[f] = Absent \/ files[f].project = edit.copy.project

Titled(s) == chats[s] = Absent \/ chats[s].titled \/ s \in overlapped

\* Where titles are required, who has messages has a title, or a copy was read
\* before there was one.
Titles ==
  RequireTitle =>
    /\ TitledBeforeMessages
    /\ \A s \in Sessions : chats[s] # Absent /\ ~chats[s].draft => chats[s].titled
    /\ \A t \in Turns : Flying(t) => turn[t].copy.titled
    /\ \A t \in Turns : Flying(t) /\ turn[t].pc # "title" => Titled(turn[t].session)
    /\ edit.pc = "context" =>
         /\ edit.copy.draft \/ edit.copy.titled
         /\ \A m \in log : m.session = edit.session => edit.copy.titled \/ m.session \in overlapped

\* Each answer on its way has its question in the log.
Said(t, r) == \E m \in log : m.turn = t /\ m.role = r /\ m.session = turn[t].session
Answers ==
  /\ AnsweredIsRecorded
  /\ \A t \in Turns : turn[t].pc \in {"answer", "audit"} => turn[t].session \in gone \/ Said(t, "user")
  /\ \A t \in Turns : turn[t].pc = "audit" => turn[t].session \in gone \/ Said(t, "assistant")

\* The turns that were let through and may still cost something.
Calling == {t \in Turns : turn[t].pc \in {"attach", "search", "user", "answer", "audit"}}
InTurn == {t \in Turns : Flying(t)}
Costs ==
  /\ IsFiniteSet(InTurn) /\ Cardinality(InTurn) <= peak
  /\ paid <= spend
  /\ \/ paid = 0 /\ Calling = {}
     \/ paid + Estimate + Cardinality(Calling) * MaxCost <= Budget + peak * MaxCost

ChatInv ==
  ChatTypeOK /\ Lifetimes /\ Attachments /\ Knowledge /\ Settling /\ Titles /\ Answers /\ Costs
-----------------------------------------------------------------------------
(* Turns                                                                   *)
-----------------------------------------------------------------------------
\* The copies that the instance brings are what they are here.
LEMMA ChatCopies ==
  /\ \A s : Chat!Related(s) = Related(s) /\ Chat!MessageFiles(s) = MessageFiles(s)
  /\ Chat!InFlight = Turning /\ Chat!TurnsInFlight = InTurn
BY DEF Chat!Related, Related, Chat!MessageFiles, MessageFiles, Chat!InFlight, Chat!Running,
       Turning, Chat!TurnsInFlight, InTurn, Flying

LEMMA SameCardinality == \A S : Chat!Cardinality(S) = Cardinality(S)
BY DEF Chat!Cardinality, Cardinality

LEMMA MaxOfTwo ==
  ASSUME NEW a \in Nat, NEW b \in Nat
  PROVE  Chat!Max({a, b}) \in Nat /\ Chat!Max({a, b}) >= a /\ Chat!Max({a, b}) >= b
<1>1. \E x \in {a, b} : \A y \in {a, b} : x >= y
  <2>1. CASE a >= b
    BY <2>1
  <2>2. CASE b >= a
    BY <2>2
  <2> QED BY <2>1, <2>2
<1> QED BY <1>1 DEF Chat!Max

\* What any action of a turn after its start leaves to the others: it touches
\* the row and the messages of its own session alone, and of a file no more
\* than to whom it belongs if it is nobody's.
TurnFrame(t) ==
  /\ Flying(t) /\ turn[t].session \in Sessions
  /\ UNCHANGED <<edit, gone, overlapped, settled, peak>> /\ dropped \subseteq dropped'
  /\ \A u \in Turns \ {t} : turn'[u] = turn[u]
  /\ turn'[t].session = turn[t].session /\ turn'[t].file = turn[t].file
  /\ turn'[t].copy.titled = turn[t].copy.titled
  /\ turn'[t].pc \in Turning \cup {"done", "refused"} /\ turn'[t].pc # "title"
  /\ \A s \in Sessions \ {turn[t].session} : chats'[s] = chats[s]
  /\ chats'[turn[t].session] \in {chats[turn[t].session], turn'[t].copy}
  /\ turn[t].pc = "title" => chats'[turn[t].session] = turn'[t].copy /\ log' = log
  /\ log \subseteq log'
  /\ \A m \in log' \ log :
       /\ m.session = turn[t].session
       /\ m.file = Absent \/ (turn[t].pc = "user" /\ m.file = turn[t].file)
  /\ \A f \in Files :
       \/ files'[f] = files[f]
       \/ /\ files[f] # Absent /\ files'[f] # Absent /\ files'[f].project = files[f].project
          /\ files'[f].session = turn[t].session /\ files[f].session = Absent
  /\ turn'[t].pc \in {"search", "user"} =>
       \/ turn[t].pc \in {"search", "user"} \/ turn[t].file = Absent
       \/ files'[turn[t].file] # Absent

\* What it leaves in the log.
Leaves(t, r) == \E m \in log' : m.turn = t /\ m.role = r /\ m.session = turn[t].session
TurnLog(t) ==
  /\ turn'[t].pc = "done" /\ t \notin dropped' =>
       turn[t].pc = "audit" \/ (Leaves(t, "user") /\ Leaves(t, "assistant"))
  /\ turn'[t].pc = "answer" => Leaves(t, "user")
  /\ turn'[t].pc = "audit" => turn[t].pc = "answer" /\ Leaves(t, "assistant")

\* What it costs.
TurnCost(t) ==
  \/ /\ UNCHANGED <<paid, spend>>
     /\ turn'[t].pc \in {"attach", "search", "user", "answer", "audit"} => t \in Calling
  \/ UNCHANGED <<paid, spend>> /\ ~(spend + Estimate > Budget)
  \/ /\ UNCHANGED paid /\ spend' = spend + Estimate
     /\ turn'[t].pc \notin {"attach", "search", "user", "answer", "audit"}
  \/ /\ \E cost \in 0 .. MaxCost : paid' = paid + cost /\ spend' = spend + cost
     /\ t \in Calling /\ turn'[t].pc = "done"

TurnKeeps(t) == ChatTypeOK' /\ TurnFrame(t) /\ TurnLog(t) /\ TurnCost(t)

\* A record of a turn with a new place.
LEMMA Placed ==
  ASSUME ChatTypeOK, NEW t \in Turns, NEW x \in Turning \cup {"done", "refused"},
         turn' = [turn EXCEPT ![t].pc = x]
  PROVE  /\ turn'[t].pc = x /\ turn'[t].session = turn[t].session /\ turn'[t].file = turn[t].file
         /\ turn'[t].copy = turn[t].copy
         /\ \A u \in Turns \ {t} : turn'[u] = turn[u]
         /\ turn' \in [Turns -> [pc : Turning \cup {"none", "done", "refused"},
                         session : Sessions \cup {Absent}, file : Files \cup {Absent},
                         copy : Chat!Rows \cup {Absent}, seen : Nat]]
<1> DEFINE R == [pc : Turning \cup {"none", "done", "refused"},
                 session : Sessions \cup {Absent}, file : Files \cup {Absent},
                 copy : Chat!Rows \cup {Absent}, seen : Nat]
           w == [turn[t] EXCEPT !.pc = x]
<1>1. turn \in [Turns -> R] /\ turn[t] \in R
  BY DEF ChatTypeOK
<1>2. turn' = [turn EXCEPT ![t] = w]
  OBVIOUS
<1>3. /\ w \in R /\ w.pc = x /\ w.session = turn[t].session /\ w.file = turn[t].file
      /\ w.copy = turn[t].copy
  BY <1>1
<1> HIDE DEF R, w
<1>4. turn'[t] = w /\ (\A u \in Turns \ {t} : turn'[u] = turn[u]) /\ turn' \in [Turns -> R]
  BY <1>1, <1>2, <1>3
<1> QED BY <1>3, <1>4 DEF R

\* The type of what a step leaves, from what it changes.
LEMMA TurnTypes ==
  ASSUME ChatTypeOK, NEW t \in Turns, turn[t].pc # "none",
         UNCHANGED <<edit, gone, settled>>, spend' \in Nat, paid' \in Nat, peak' = peak,
         chats' \in [Sessions -> Chat!Rows \cup {Absent}],
         files' \in [Files -> Chat!FileRows \cup {Absent}],
         log' \subseteq [turn : Turns, role : {"user", "assistant"}, session : Sessions,
                       file : Files \cup {Absent}],
         turn' \in [Turns -> [pc : Turning \cup {"none", "done", "refused"},
                       session : Sessions \cup {Absent}, file : Files \cup {Absent},
                       copy : Chat!Rows \cup {Absent}, seen : Nat]],
         \A u \in Turns \ {t} : turn'[u] = turn[u],
         turn'[t].session = turn[t].session, turn'[t].copy \in Chat!Rows
  PROVE  ChatTypeOK'
<1>1. \A u \in Turns : turn'[u].pc # "none" => turn'[u].session \in Sessions /\ turn'[u].copy \in Chat!Rows
  BY DEF ChatTypeOK
<1>2. Chat!NoEdit' = Chat!NoEdit
  BY DEF Chat!NoEdit
<1> QED BY <1>1, <1>2 DEF ChatTypeOK

LEMMA AboutTurn ==
  ASSUME ChatTypeOK, NEW t \in Turns, turn[t].pc # "none"
  PROVE  /\ turn[t].session \in Sessions /\ turn[t].file \in Files \cup {Absent}
         /\ turn[t].copy \in Chat!Rows /\ spend \in Nat /\ paid \in Nat
BY DEF ChatTypeOK

\* A message of a turn.
LEMMA SaysType ==
  ASSUME ChatTypeOK, NEW t \in Turns, turn[t].pc # "none", NEW r \in {"user", "assistant"},
         NEW f \in Files \cup {Absent}
  PROVE  [turn |-> t, role |-> r, session |-> turn[t].session, file |-> f] \in
           [turn : Turns, role : {"user", "assistant"}, session : Sessions, file : Files \cup {Absent}]
BY AboutTurn

LEMMA SaveTitleKeeps ==
  ASSUME ChatTypeOK, NEW t \in Turns, Chat!SaveTitle(t)
  PROVE  TurnKeeps(t)
<1> DEFINE c == [turn[t].copy EXCEPT !.draft = FALSE]
           w == [turn[t] EXCEPT !.pc = "scope", !.copy = c]
<1>1. /\ turn[t].pc = "title"
      /\ turn' = [turn EXCEPT ![t] = w]
      /\ chats' = [chats EXCEPT ![turn[t].session] = c]
      /\ UNCHANGED <<log, files, spend, edit, dropped, overlapped, paid, peak, gone, settled>>
  BY DEF Chat!SaveTitle, Chat!At, Chat!history
<1>2. /\ turn[t].session \in Sessions /\ turn[t].copy \in Chat!Rows /\ spend \in Nat /\ paid \in Nat
  BY <1>1, AboutTurn
<1>3. c \in Chat!Rows /\ c.titled = turn[t].copy.titled
  BY <1>2 DEF Chat!Rows
<1> HIDE DEF c
<1>4. /\ w \in [pc : Turning \cup {"none", "done", "refused"},
                 session : Sessions \cup {Absent}, file : Files \cup {Absent},
                 copy : Chat!Rows \cup {Absent}, seen : Nat]
      /\ w.pc = "scope" /\ w.session = turn[t].session /\ w.file = turn[t].file /\ w.copy = c
  <2>1. turn[t] \in [pc : Turning \cup {"none", "done", "refused"},
                 session : Sessions \cup {Absent}, file : Files \cup {Absent},
                 copy : Chat!Rows \cup {Absent}, seen : Nat]
    BY DEF ChatTypeOK
  <2> QED BY <2>1, <1>3 DEF Turning
<1> HIDE DEF w
<1>5. /\ turn'[t] = w /\ (\A u \in Turns \ {t} : turn'[u] = turn[u])
      /\ turn' \in [Turns -> [pc : Turning \cup {"none", "done", "refused"},
                 session : Sessions \cup {Absent}, file : Files \cup {Absent},
                 copy : Chat!Rows \cup {Absent}, seen : Nat]]
  BY <1>1, <1>4 DEF ChatTypeOK
<1>6. /\ chats' \in [Sessions -> Chat!Rows \cup {Absent}] /\ chats'[turn[t].session] = c
      /\ \A s \in Sessions \ {turn[t].session} : chats'[s] = chats[s]
  BY <1>1, <1>2, <1>3 DEF ChatTypeOK
<1>7. ChatTypeOK'
  <2>1. log' \subseteq [turn : Turns, role : {"user", "assistant"}, session : Sessions,
                       file : Files \cup {Absent}]
        /\ files' \in [Files -> Chat!FileRows \cup {Absent}]
    BY <1>1 DEF ChatTypeOK
  <2> QED BY <2>1, <1>1, <1>2, <1>3, <1>4, <1>5, <1>6, TurnTypes
<1>8. TurnFrame(t)
  BY <1>1, <1>2, <1>3, <1>4, <1>5, <1>6 DEF TurnFrame, Flying, Turning
<1>9. TurnLog(t) /\ TurnCost(t)
  BY <1>1, <1>4, <1>5 DEF TurnLog, TurnCost
<1> QED BY <1>7, <1>8, <1>9 DEF TurnKeeps

LEMMA PreflightKeeps ==
  ASSUME ChatTypeOK, NEW t \in Turns, Chat!Preflight(t)
  PROVE  TurnKeeps(t)
<1> DEFINE f == turn[t].file
           x == IF spend + Estimate > Budget THEN "blocked"
                ELSE IF f = Absent THEN "search"
                ELSE IF files[f] = Absent \/ files[f].project # turn[t].copy.project
                THEN "refused" ELSE "attach"
           w == [turn[t] EXCEPT !.pc = x, !.seen = spend]
<1>1. /\ turn[t].pc = "scope" /\ turn' = [turn EXCEPT ![t] = w]
      /\ UNCHANGED <<chats, log, files, spend, edit, dropped, overlapped, paid, peak, gone, settled>>
  BY DEF Chat!Preflight, Chat!At, Chat!history, Chat!store
<1>2. /\ turn[t].session \in Sessions /\ turn[t].copy \in Chat!Rows /\ spend \in Nat /\ paid \in Nat
  BY <1>1, AboutTurn
<1>3. /\ x \in {"blocked", "search", "refused", "attach"} /\ (x = "search" => f = Absent)
      /\ x \in {"search", "attach"} => ~(spend + Estimate > Budget)
  OBVIOUS
<1> HIDE DEF x
<1>4. /\ w \in [pc : Turning \cup {"none", "done", "refused"},
                 session : Sessions \cup {Absent}, file : Files \cup {Absent},
                 copy : Chat!Rows \cup {Absent}, seen : Nat]
      /\ w.pc = x /\ w.session = turn[t].session /\ w.file = turn[t].file /\ w.copy = turn[t].copy
  <2>1. turn[t] \in [pc : Turning \cup {"none", "done", "refused"},
                 session : Sessions \cup {Absent}, file : Files \cup {Absent},
                 copy : Chat!Rows \cup {Absent}, seen : Nat]
    BY DEF ChatTypeOK
  <2> QED BY <2>1, <1>2, <1>3 DEF Turning
<1> HIDE DEF w
<1>5. /\ turn'[t] = w /\ (\A u \in Turns \ {t} : turn'[u] = turn[u])
      /\ turn' \in [Turns -> [pc : Turning \cup {"none", "done", "refused"},
                 session : Sessions \cup {Absent}, file : Files \cup {Absent},
                 copy : Chat!Rows \cup {Absent}, seen : Nat]]
  BY <1>1, <1>4 DEF ChatTypeOK
<1>7. ChatTypeOK'
  <2>1. log' \subseteq [turn : Turns, role : {"user", "assistant"}, session : Sessions,
                       file : Files \cup {Absent}]
        /\ files' \in [Files -> Chat!FileRows \cup {Absent}]
        /\ chats' \in [Sessions -> Chat!Rows \cup {Absent}]
    BY <1>1 DEF ChatTypeOK
  <2> QED BY <2>1, <1>1, <1>2, <1>3, <1>4, <1>5, TurnTypes
<1>8. TurnFrame(t)
  BY <1>1, <1>2, <1>3, <1>4, <1>5 DEF TurnFrame, Flying, Turning
<1>9. TurnLog(t)
  BY <1>1, <1>3, <1>4, <1>5 DEF TurnLog
<1>10. TurnCost(t)
  <2>1. turn'[t].pc \in {"attach", "search", "user", "answer", "audit"} => x \in {"search", "attach"}
    BY <1>3, <1>4, <1>5
  <2>2. CASE x \in {"search", "attach"}
    BY <2>2, <1>3, <1>1, <1>2 DEF TurnCost
  <2>3. CASE x \notin {"search", "attach"}
    BY <2>1, <2>3, <1>1 DEF TurnCost
  <2> QED BY <2>2, <2>3
<1> QED BY <1>7, <1>8, <1>9, <1>10 DEF TurnKeeps

LEMMA AnswerBlockedKeeps ==
  ASSUME ChatTypeOK, Chat!ChatAssumption, NEW t \in Turns, Chat!AnswerBlocked(t)
  PROVE  TurnKeeps(t)
<1> DEFINE m(r) == [turn |-> t, role |-> r, session |-> turn[t].session, file |-> Absent]
<1>1. /\ turn[t].pc = "blocked" /\ turn' = [turn EXCEPT ![t].pc = "done"]
      /\ log' = log \cup {m(r) : r \in {"user", "assistant"}} /\ spend' = spend + Estimate
      /\ UNCHANGED <<chats, files, edit, dropped, overlapped, paid, peak, gone, settled>>
  BY DEF Chat!AnswerBlocked, Chat!At, Chat!Goto, Chat!history
<1>2. /\ turn[t].session \in Sessions /\ turn[t].copy \in Chat!Rows /\ spend' \in Nat /\ paid \in Nat
  BY <1>1, AboutTurn DEF Chat!ChatAssumption
<1>3. /\ turn'[t].pc = "done" /\ turn'[t].session = turn[t].session /\ turn'[t].file = turn[t].file
      /\ turn'[t].copy = turn[t].copy
      /\ \A u \in Turns \ {t} : turn'[u] = turn[u]
      /\ turn' \in [Turns -> [pc : Turning \cup {"none", "done", "refused"},
                         session : Sessions \cup {Absent}, file : Files \cup {Absent},
                         copy : Chat!Rows \cup {Absent}, seen : Nat]]
  BY <1>1, Placed
<1>4. /\ m("user") \in log' /\ m("assistant") \in log' /\ log' = log \cup {m("user"), m("assistant")}
      /\ m("user") \in [turn : Turns, role : {"user", "assistant"}, session : Sessions,
                        file : Files \cup {Absent}]
      /\ m("assistant") \in [turn : Turns, role : {"user", "assistant"}, session : Sessions,
                             file : Files \cup {Absent}]
  BY <1>1, SaysType
<1>5. ChatTypeOK'
  <2>1. log' \subseteq [turn : Turns, role : {"user", "assistant"}, session : Sessions,
                       file : Files \cup {Absent}]
        /\ files' \in [Files -> Chat!FileRows \cup {Absent}]
        /\ chats' \in [Sessions -> Chat!Rows \cup {Absent}]
    BY <1>1, <1>4 DEF ChatTypeOK
  <2> QED BY <2>1, <1>1, <1>2, <1>3, TurnTypes
<1>6. TurnFrame(t)
  <2>1. \A x \in log' \ log : x.session = turn[t].session /\ x.file = Absent
    BY <1>4
  <2>2. log \subseteq log'
    BY <1>4
  <2> QED BY <1>1, <1>2, <1>3, <2>1, <2>2 DEF TurnFrame, Flying, Turning
<1>7. TurnLog(t)
  <2>1. Leaves(t, "user") /\ Leaves(t, "assistant")
    BY <1>4 DEF Leaves
  <2> QED BY <1>3, <2>1 DEF TurnLog
<1>8. TurnCost(t)
  BY <1>1, <1>3 DEF TurnCost
<1> QED BY <1>5, <1>6, <1>7, <1>8 DEF TurnKeeps

LEMMA AttachKeeps ==
  ASSUME ChatTypeOK, Chat!AbsentAssumption, NEW t \in Turns, Chat!Attach(t)
  PROVE  TurnKeeps(t)
<1> DEFINE f == turn[t].file
           x == IF files[f] = Absent THEN "refused" ELSE "search"
           who == IF files[f].session = Absent THEN turn[t].session ELSE files[f].session
           g == [files[f] EXCEPT !.session = who]
<1>1. /\ turn[t].pc = "attach" /\ turn' = [turn EXCEPT ![t].pc = x]
      /\ files[f] = Absent => files' = files
      /\ files[f] # Absent => files' = [files EXCEPT ![f] = g]
      /\ UNCHANGED <<chats, log, spend, edit, dropped, overlapped, paid, peak, gone, settled>>
  <2>1. turn[t].pc = "attach"
        /\ UNCHANGED <<chats, log, spend, edit, dropped, overlapped, paid, peak, gone, settled>>
    BY DEF Chat!Attach, Chat!At, Chat!history
  <2>2. CASE files[f] = Absent
    BY <2>1, <2>2 DEF Chat!Attach, Chat!Goto
  <2>3. CASE files[f] # Absent
    BY <2>1, <2>3 DEF Chat!Attach, Chat!Goto
  <2> QED BY <2>1, <2>2, <2>3
<1>2. /\ turn[t].session \in Sessions /\ turn[t].copy \in Chat!Rows /\ spend \in Nat /\ paid \in Nat
      /\ f \in Files \cup {Absent}
  BY <1>1, AboutTurn
<1>3. x \in Turning \cup {"done", "refused"} /\ x \in {"refused", "search"} /\ (x = "search" <=> files[f] # Absent)
  BY DEF Turning
<1> HIDE DEF x
<1>4. /\ turn'[t].pc = x /\ turn'[t].session = turn[t].session /\ turn'[t].file = turn[t].file
      /\ turn'[t].copy = turn[t].copy
      /\ \A u \in Turns \ {t} : turn'[u] = turn[u]
      /\ turn' \in [Turns -> [pc : Turning \cup {"none", "done", "refused"},
                         session : Sessions \cup {Absent}, file : Files \cup {Absent},
                         copy : Chat!Rows \cup {Absent}, seen : Nat]]
  BY <1>1, <1>3, Placed
<1>5. /\ files' \in [Files -> Chat!FileRows \cup {Absent}]
      /\ \A h \in Files :
           \/ files'[h] = files[h]
           \/ /\ files[h] # Absent /\ files'[h] # Absent /\ files'[h].project = files[h].project
              /\ files'[h].session = turn[t].session /\ files[h].session = Absent
      /\ files[f] # Absent /\ f \in Files => files'[f] # Absent
  <2>1. CASE files[f] = Absent \/ f \notin Files
    <3>1. files' = files
      BY <1>1, <2>1 DEF ChatTypeOK
    <3> QED BY <3>1 DEF ChatTypeOK
  <2>2. CASE files[f] # Absent /\ f \in Files
    <3>1. files[f] \in Chat!FileRows
      BY <2>2 DEF ChatTypeOK
    <3>2. who \in Sessions \cup {Absent} /\ (who = files[f].session \/ (files[f].session = Absent /\ who = turn[t].session))
      BY <3>1, <1>2 DEF Chat!FileRows
    <3> HIDE DEF who
    <3>3. g \in Chat!FileRows /\ g.project = files[f].project /\ g.session = who
      BY <3>1, <3>2 DEF Chat!FileRows
    <3>4. g # Absent
      BY <3>3 DEF Chat!AbsentAssumption
    <3>5. who = files[f].session => g = files[f]
      BY <3>1 DEF Chat!FileRows
    <3> HIDE DEF g
    <3>6. /\ files' \in [Files -> Chat!FileRows \cup {Absent}] /\ files'[f] = g
          /\ \A h \in Files \ {f} : files'[h] = files[h]
      BY <1>1, <2>2, <3>3 DEF ChatTypeOK
    <3> QED BY <2>2, <3>2, <3>3, <3>4, <3>5, <3>6
  <2> QED BY <2>1, <2>2
<1>6. ChatTypeOK'
  <2>1. log' \subseteq [turn : Turns, role : {"user", "assistant"}, session : Sessions,
                       file : Files \cup {Absent}]
        /\ chats' \in [Sessions -> Chat!Rows \cup {Absent}]
    BY <1>1 DEF ChatTypeOK
  <2> QED BY <2>1, <1>1, <1>2, <1>4, <1>5, TurnTypes
<1>7. TurnFrame(t)
  <2>1. turn'[t].pc \in {"search", "user"} => turn[t].file = Absent \/ files'[turn[t].file] # Absent
    BY <1>2, <1>3, <1>4, <1>5
  <2> HIDE DEF f
  <2>2. Flying(t) /\ turn'[t].pc \in Turning \cup {"done", "refused"} /\ turn'[t].pc # "title"
    BY <1>1, <1>3, <1>4 DEF Flying, Turning
  <2> QED BY <1>1, <1>2, <1>4, <1>5, <2>1, <2>2 DEF TurnFrame
<1>8. TurnLog(t) /\ TurnCost(t)
  BY <1>1, <1>3, <1>4 DEF TurnLog, TurnCost, Calling
<1> QED BY <1>6, <1>7, <1>8 DEF TurnKeeps

LEMMA SaveContextKeeps ==
  ASSUME ChatTypeOK, NEW t \in Turns, Chat!SaveContext(t)
  PROVE  TurnKeeps(t)
<1>1. /\ turn[t].pc = "search" /\ turn' = [turn EXCEPT ![t].pc = "user"]
      /\ chats' = [chats EXCEPT ![turn[t].session] = turn[t].copy]
      /\ UNCHANGED <<log, files, spend, edit, dropped, overlapped, paid, peak, gone, settled>>
  BY DEF Chat!SaveContext, Chat!At, Chat!Goto, Chat!history
<1>2. /\ turn[t].session \in Sessions /\ turn[t].copy \in Chat!Rows /\ spend \in Nat /\ paid \in Nat
  BY <1>1, AboutTurn
<1>3. /\ turn'[t].pc = "user" /\ turn'[t].session = turn[t].session /\ turn'[t].file = turn[t].file
      /\ turn'[t].copy = turn[t].copy
      /\ \A u \in Turns \ {t} : turn'[u] = turn[u]
      /\ turn' \in [Turns -> [pc : Turning \cup {"none", "done", "refused"},
                         session : Sessions \cup {Absent}, file : Files \cup {Absent},
                         copy : Chat!Rows \cup {Absent}, seen : Nat]]
  <2>1. "user" \in Turning \cup {"done", "refused"}
    BY DEF Turning
  <2> QED BY <1>1, <2>1, Placed
<1>4. /\ chats' \in [Sessions -> Chat!Rows \cup {Absent}] /\ chats'[turn[t].session] = turn[t].copy
      /\ \A s \in Sessions \ {turn[t].session} : chats'[s] = chats[s]
  BY <1>1, <1>2 DEF ChatTypeOK
<1>5. ChatTypeOK'
  <2>1. log' \subseteq [turn : Turns, role : {"user", "assistant"}, session : Sessions,
                       file : Files \cup {Absent}]
        /\ files' \in [Files -> Chat!FileRows \cup {Absent}]
    BY <1>1 DEF ChatTypeOK
  <2> QED BY <2>1, <1>1, <1>2, <1>3, <1>4, TurnTypes
<1>6. TurnFrame(t)
  BY <1>1, <1>2, <1>3, <1>4 DEF TurnFrame, Flying, Turning
<1>7. TurnLog(t) /\ TurnCost(t)
  BY <1>1, <1>3 DEF TurnLog, TurnCost, Calling
<1> QED BY <1>5, <1>6, <1>7 DEF TurnKeeps

\* The message of the user, or the answer, with the next place.
LEMMA SayKeeps ==
  ASSUME ChatTypeOK, NEW t \in Turns, NEW r \in {"user", "assistant"},
         Chat!Say(t, r), UNCHANGED <<chats, files, spend, edit, dropped, overlapped, paid, peak, gone, settled>>,
         \/ r = "user" /\ turn[t].pc = "user" /\ turn' = [turn EXCEPT ![t].pc = "answer"]
         \/ r = "assistant" /\ turn[t].pc = "answer" /\ turn' = [turn EXCEPT ![t].pc = "audit"]
  PROVE  TurnKeeps(t)
<1> DEFINE m == [turn |-> t, role |-> r, session |-> turn[t].session,
                 file |-> IF r = "user" THEN turn[t].file ELSE Absent]
           x == IF r = "user" THEN "answer" ELSE "audit"
<1>1. /\ turn[t].pc = (IF r = "user" THEN "user" ELSE "answer") /\ turn' = [turn EXCEPT ![t].pc = x]
      /\ log' = log \cup {m}
  BY DEF Chat!Say
<1>2. /\ turn[t].session \in Sessions /\ turn[t].copy \in Chat!Rows /\ spend \in Nat /\ paid \in Nat
      /\ turn[t].file \in Files \cup {Absent} /\ turn[t].pc # "none"
  BY <1>1, AboutTurn
<1>3. /\ turn'[t].pc = x /\ turn'[t].session = turn[t].session /\ turn'[t].file = turn[t].file
      /\ turn'[t].copy = turn[t].copy
      /\ \A u \in Turns \ {t} : turn'[u] = turn[u]
      /\ turn' \in [Turns -> [pc : Turning \cup {"none", "done", "refused"},
                         session : Sessions \cup {Absent}, file : Files \cup {Absent},
                         copy : Chat!Rows \cup {Absent}, seen : Nat]]
  <2>1. x \in Turning \cup {"done", "refused"}
    BY DEF Turning
  <2> HIDE DEF x
  <2> QED BY <1>1, <2>1, Placed
<1>4. m \in [turn : Turns, role : {"user", "assistant"}, session : Sessions, file : Files \cup {Absent}]
  <2>1. (IF r = "user" THEN turn[t].file ELSE Absent) \in Files \cup {Absent}
    BY <1>2
  <2> QED BY <2>1, <1>2, SaysType
<1>5. ChatTypeOK'
  <2>1. log' \subseteq [turn : Turns, role : {"user", "assistant"}, session : Sessions,
                       file : Files \cup {Absent}]
        /\ files' \in [Files -> Chat!FileRows \cup {Absent}]
        /\ chats' \in [Sessions -> Chat!Rows \cup {Absent}]
    <3> HIDE DEF m
    <3> QED BY <1>1, <1>4 DEF ChatTypeOK
  <2> HIDE DEF m, x
  <2> QED BY <2>1, <1>1, <1>2, <1>3, TurnTypes
<1>6. TurnFrame(t)
  <2>1. m.session = turn[t].session /\ (m.file = Absent \/ (turn[t].pc = "user" /\ m.file = turn[t].file))
    BY <1>1
  <2>2. x \in Turning /\ x # "title" /\ x \notin {"search", "user"} /\ Flying(t) /\ turn[t].pc # "title"
    BY <1>1 DEF Flying, Turning
  <2> HIDE DEF m, x
  <2>3. log \subseteq log' /\ \A y \in log' \ log : y = m
    BY <1>1
  <2> QED BY <1>2, <1>3, <2>1, <2>2, <2>3 DEF TurnFrame
<1>7. TurnLog(t)
  <2>1. m \in log' /\ m.turn = t /\ m.role = r /\ m.session = turn[t].session
    BY <1>1
  <2>2. x \in {"answer", "audit"} /\ (x = "answer" <=> r = "user") /\ (x = "audit" <=> r = "assistant")
    OBVIOUS
  <2> HIDE DEF m, x
  <2>3. Leaves(t, r)
    BY <2>1 DEF Leaves
  <2> QED BY <1>1, <1>3, <2>2, <2>3 DEF TurnLog
<1>8. TurnCost(t)
  BY <1>1, <1>3 DEF TurnCost, Calling
<1> QED BY <1>5, <1>6, <1>7, <1>8 DEF TurnKeeps

\* The end of an answer that is cut, or billed.
LEMMA EndKeeps ==
  ASSUME ChatTypeOK, Chat!ChatAssumption, NEW t \in Turns,
         \/ Chat!Drop(t)
         \/ \E cost \in 0 .. MaxCost : Chat!RecordCost(t, cost)
  PROVE  TurnKeeps(t)
<1>1. /\ turn[t].pc \in {"answer", "audit"} /\ turn' = [turn EXCEPT ![t].pc = "done"]
      /\ UNCHANGED <<chats, log, files, edit, overlapped, peak, gone, settled>>
      /\ \/ turn[t].pc = "answer" /\ dropped' = dropped \cup {t} /\ UNCHANGED <<paid, spend>>
         \/ /\ turn[t].pc = "audit" /\ UNCHANGED dropped
            /\ \E cost \in 0 .. MaxCost : paid' = paid + cost /\ spend' = spend + cost
  BY DEF Chat!Drop, Chat!RecordCost, Chat!At, Chat!Goto, Chat!store
<1>2. /\ turn[t].session \in Sessions /\ turn[t].copy \in Chat!Rows /\ spend \in Nat /\ paid \in Nat
  BY <1>1, AboutTurn
<1>3. spend' \in Nat /\ paid' \in Nat
  BY <1>1, <1>2 DEF Chat!ChatAssumption
<1>4. /\ turn'[t].pc = "done" /\ turn'[t].session = turn[t].session /\ turn'[t].file = turn[t].file
      /\ turn'[t].copy = turn[t].copy
      /\ \A u \in Turns \ {t} : turn'[u] = turn[u]
      /\ turn' \in [Turns -> [pc : Turning \cup {"none", "done", "refused"},
                         session : Sessions \cup {Absent}, file : Files \cup {Absent},
                         copy : Chat!Rows \cup {Absent}, seen : Nat]]
  BY <1>1, Placed
<1>5. ChatTypeOK'
  <2>1. log' \subseteq [turn : Turns, role : {"user", "assistant"}, session : Sessions,
                       file : Files \cup {Absent}]
        /\ files' \in [Files -> Chat!FileRows \cup {Absent}]
        /\ chats' \in [Sessions -> Chat!Rows \cup {Absent}]
    BY <1>1 DEF ChatTypeOK
  <2> QED BY <2>1, <1>1, <1>2, <1>3, <1>4, TurnTypes
<1>6. TurnFrame(t)
  BY <1>1, <1>2, <1>4 DEF TurnFrame, Flying, Turning
<1>7. TurnLog(t)
  BY <1>1, <1>4 DEF TurnLog
<1>8. TurnCost(t)
  BY <1>1, <1>4 DEF TurnCost, Calling
<1> QED BY <1>5, <1>6, <1>7, <1>8 DEF TurnKeeps

LEMMA EachTurnKeeps ==
  ASSUME ChatTypeOK, Chat!ChatAssumption, Chat!AbsentAssumption, NEW t \in Turns, Chat!Turn(t)
  PROVE  TurnKeeps(t)
<1>1. CASE Chat!AddUserMessage(t)
  <2>1. /\ turn[t].pc = "user" /\ Chat!Say(t, "user") /\ turn' = [turn EXCEPT ![t].pc = "answer"]
        /\ UNCHANGED <<chats, files, spend, edit, dropped, overlapped, paid, peak, gone, settled>>
    BY <1>1 DEF Chat!AddUserMessage, Chat!At, Chat!Goto, Chat!history
  <2> QED BY <2>1, SayKeeps
<1>2. CASE Chat!AddAnswer(t)
  <2>1. /\ turn[t].pc = "answer" /\ Chat!Say(t, "assistant") /\ turn' = [turn EXCEPT ![t].pc = "audit"]
        /\ UNCHANGED <<chats, files, spend, edit, dropped, overlapped, paid, peak, gone, settled>>
    BY <1>2 DEF Chat!AddAnswer, Chat!At, Chat!Goto, Chat!history
  <2> QED BY <2>1, SayKeeps
<1>3. CASE Chat!SaveTitle(t)
  BY <1>3, SaveTitleKeeps
<1>4. CASE Chat!Preflight(t)
  BY <1>4, PreflightKeeps
<1>5. CASE Chat!AnswerBlocked(t)
  BY <1>5, AnswerBlockedKeeps
<1>6. CASE Chat!Attach(t)
  BY <1>6, AttachKeeps
<1>7. CASE Chat!SaveContext(t)
  BY <1>7, SaveContextKeeps
<1>8. CASE Chat!Drop(t) \/ \E cost \in 0 .. MaxCost : Chat!RecordCost(t, cost)
  BY <1>8, EndKeeps
<1> QED BY <1>1, <1>2, <1>3, <1>4, <1>5, <1>6, <1>7, <1>8 DEF Chat!Turn

LEMMA TurnLifetimes ==
  ASSUME ChatInv, Chat!AbsentAssumption, NEW t \in Turns, TurnKeeps(t)
  PROVE  Lifetimes'
<1> DEFINE s == turn[t].session
<1>1. /\ ChatTypeOK' /\ TurnFrame(t) /\ Lifetimes
  BY DEF TurnKeeps, ChatInv
<1>2. /\ s \in Sessions /\ Flying(t) /\ UNCHANGED <<edit, gone, overlapped>>
      /\ \A u \in Turns : turn'[u].session = turn[u].session /\ (Flying(u)' => Flying(u))
      /\ \A m \in log' : m \in log \/ m.session = s
      /\ \A r \in Sessions \ {s} : chats'[r] = chats[r]
  <2>1. \A u \in Turns : turn'[u].session = turn[u].session /\ (Flying(u)' => Flying(u))
    BY <1>1 DEF TurnFrame, Flying
  <2> QED BY <1>1, <2>1 DEF TurnFrame
<1>3. chats'[s] = chats[s] \/ chats'[s] # Absent
  <2>1. turn'[t].copy \in Chat!Rows
    <3>1. turn'[t].pc # "none"
      BY <1>1 DEF TurnFrame, Turning
    <3> QED BY <1>1, <3>1 DEF ChatTypeOK
  <2> QED BY <1>1, <2>1 DEF TurnFrame, Chat!AbsentAssumption
<1>4. s \in gone => s \in overlapped
  BY <1>1, <1>2 DEF Lifetimes
<1> HIDE DEF s
<1>5. DeletedStaysDeleted'
  BY <1>1, <1>2, <1>4 DEF DeletedStaysDeleted, Lifetimes, ChatInv, ChatTypeOK
<1>6. \A r \in Sessions : chats'[r] = Absent => r \in gone'
  BY <1>1, <1>2, <1>3 DEF Lifetimes
<1> QED BY <1>1, <1>2, <1>5, <1>6 DEF Lifetimes

\* What the frame says of the files and messages that the other parts are about.
LEMMA TurnReach ==
  ASSUME ChatInv, Chat!AbsentAssumption, NEW t \in Turns, TurnKeeps(t)
  PROVE  /\ \A f \in Files : files'[f] = Absent <=> files[f] = Absent
         /\ \A f \in Files : files[f] # Absent => files'[f].project = files[f].project
         /\ \A r \in Sessions : chats'[r] = chats[r] \/ r = turn[t].session
         /\ \A r \in Sessions : chats[r] = Absent => r \in overlapped' \/ chats'[r] = Absent
         /\ edit.pc # "idle" => turn[t].session \in overlapped
         /\ \A m \in log' : m \in log \/ m.session = turn[t].session
         /\ \A r \in Sessions : r # turn[t].session => Related(r)' \subseteq Related(r)
<1>1. ChatTypeOK /\ TurnFrame(t) /\ Lifetimes
  BY DEF TurnKeeps, ChatInv
<1>2. \A f \in Files :
        /\ files'[f] = Absent <=> files[f] = Absent
        /\ files[f] # Absent => files'[f].project = files[f].project
  BY <1>1 DEF TurnFrame
<1>3. \A r \in Sessions : chats'[r] = chats[r] \/ r = turn[t].session
  BY <1>1 DEF TurnFrame
<1>4. edit.pc # "idle" => turn[t].session \in overlapped
  BY <1>1 DEF TurnFrame, Lifetimes
<1>5. \A r \in Sessions : chats[r] = Absent => r \in overlapped' \/ chats'[r] = Absent
  <2>1. turn[t].session \in gone => turn[t].session \in overlapped'
    BY <1>1 DEF TurnFrame, Lifetimes
  <2> QED BY <1>1, <1>3, <2>1 DEF Lifetimes
<1>6. \A m \in log' : m \in log \/ m.session = turn[t].session
  BY <1>1 DEF TurnFrame
<1>7. ASSUME NEW r \in Sessions, r # turn[t].session
      PROVE  Related(r)' \subseteq Related(r)
  <2>1. MessageFiles(r)' \subseteq MessageFiles(r)
    BY <1>6, <1>7 DEF MessageFiles
  <2>2. \A f \in Files : files'[f] # Absent /\ files'[f].session = r =>
          files[f] # Absent /\ files[f].session = r
    BY <1>1, <1>7 DEF TurnFrame
  <2> QED BY <2>1, <2>2 DEF Related
<1> QED BY <1>2, <1>3, <1>4, <1>5, <1>6, <1>7

LEMMA TurnAttachments ==
  ASSUME ChatInv, Chat!AbsentAssumption, NEW t \in Turns, TurnKeeps(t)
  PROVE  Attachments'
<1> DEFINE s == turn[t].session
<1>1. ChatTypeOK /\ ChatTypeOK' /\ TurnFrame(t) /\ Attachments
  BY DEF TurnKeeps, ChatInv
<1>2. /\ UNCHANGED <<edit, overlapped>>
      /\ \A u \in Turns : turn'[u].session = turn[u].session /\ turn'[u].file = turn[u].file
      /\ \A u \in Turns \ {t} : turn'[u] = turn[u]
      /\ turn[t].file \in Files \cup {Absent} /\ s \in Sessions
      /\ \A m \in log : m.session \in Sessions /\ m.file \in Files \cup {Absent}
      /\ \A u \in Turns : turn[u].file \in Files \cup {Absent}
  BY <1>1 DEF TurnFrame, ChatTypeOK
<1>3. /\ \A f \in Files : files'[f] = Absent <=> files[f] = Absent
      /\ \A r \in Sessions : chats[r] = Absent => r \in overlapped' \/ chats'[r] = Absent
      /\ edit.pc # "idle" => s \in overlapped
  BY TurnReach
<1>4. \A m \in log' : m \in log \/ m.session = s
  BY TurnReach
<1>5. AttachmentsSurvive'
  <2> SUFFICES ASSUME NEW m \in log'
               PROVE  \/ m.file = Absent \/ files'[m.file] # Absent
                      \/ m.session \in overlapped' \/ chats'[m.session] = Absent
    BY DEF AttachmentsSurvive
  <2>1. CASE m \in log
    BY <1>1, <1>2, <1>3, <2>1 DEF Attachments, AttachmentsSurvive
  <2>2. CASE m \notin log
    <3>1. m.session = s /\ (m.file = Absent \/ (turn[t].pc = "user" /\ m.file = turn[t].file))
      BY <1>1, <2>2 DEF TurnFrame
    <3>2. turn[t].pc = "user" => turn[t].file = Absent \/ files[turn[t].file] # Absent \/ s \in overlapped
      BY <1>1 DEF Attachments
    <3> QED BY <1>2, <1>3, <3>1, <3>2
  <2> QED BY <2>1, <2>2
<1>6. \A u \in Turns : turn'[u].pc \in {"search", "user"} =>
        \/ turn'[u].file = Absent \/ files'[turn'[u].file] # Absent \/ turn'[u].session \in overlapped'
  <2> TAKE u \in Turns
  <2>1. CASE u = t
    <3>1. turn'[t].pc \in {"search", "user"} =>
            \/ turn[t].pc \in {"search", "user"} \/ turn[t].file = Absent \/ files'[turn[t].file] # Absent
      BY <1>1 DEF TurnFrame
    <3>2. turn[t].pc \in {"search", "user"} =>
            turn[t].file = Absent \/ files[turn[t].file] # Absent \/ s \in overlapped
      BY <1>1 DEF Attachments
    <3> QED BY <1>2, <1>3, <2>1, <3>1, <3>2
  <2>2. CASE u # t
    BY <1>1, <1>2, <1>3, <2>2 DEF Attachments
  <2> QED BY <2>1, <2>2
<1> HIDE DEF s
<1>7. edit'.pc = "delete" =>
       \A m \in log' :
         \/ m.file = Absent \/ m.file \in edit'.elsewhere \/ m.session = edit'.session
         \/ m.session \in overlapped' \/ chats'[m.session] = Absent
  BY <1>1, <1>2, <1>3, <1>4 DEF Attachments
<1>8. edit'.pc = "files" =>
       \A m \in log' :
         m.file \notin edit'.related \/ m.session \in overlapped' \/ chats'[m.session] = Absent
  BY <1>1, <1>2, <1>3, <1>4 DEF Attachments
<1> QED BY <1>5, <1>6, <1>7, <1>8 DEF Attachments

LEMMA TurnKnowledge ==
  ASSUME ChatInv, Chat!AbsentAssumption, Chat!ChatAssumption, NEW t \in Turns, TurnKeeps(t)
  PROVE  Knowledge'
<1>1. \A f \in Files : files'[f] = Absent <=> files[f] = Absent
  BY TurnReach
<1>2. edit' = edit /\ Knowledge /\ Linked \subseteq Files
  BY DEF TurnKeeps, TurnFrame, ChatInv, Chat!ChatAssumption
<1> QED BY <1>1, <1>2 DEF Knowledge, KnowledgeSurvives

LEMMA TurnSettling ==
  ASSUME ChatInv, Chat!AbsentAssumption, NEW t \in Turns, TurnKeeps(t)
  PROVE  Settling'
<1> DEFINE s == turn[t].session
<1>1. ChatTypeOK /\ TurnFrame(t) /\ Settling
  BY DEF TurnKeeps, ChatInv
<1>2. /\ UNCHANGED <<edit, overlapped, settled>> /\ s \in Sessions /\ Flying(t)
      /\ \A u \in Turns : turn'[u].session = turn[u].session /\ (Flying(u)' => Flying(u))
  <2>1. \A u \in Turns : turn'[u].session = turn[u].session /\ (Flying(u)' => Flying(u))
    BY <1>1 DEF TurnFrame, Flying
  <2> QED BY <1>1, <2>1 DEF TurnFrame
<1>3. /\ \A f \in Files : files'[f] = Absent <=> files[f] = Absent
      /\ \A f \in Files : files[f] # Absent => files'[f].project = files[f].project
      /\ \A r \in Sessions : chats'[r] = chats[r] \/ r = s
      /\ edit.pc # "idle" => s \in overlapped
      /\ \A r \in Sessions : r # s => Related(r)' \subseteq Related(r)
  BY TurnReach
<1>4. s \in settled => s \in overlapped
  BY <1>1, <1>2 DEF Settling
<1>5. \A r : Related(r)' \subseteq Files
  BY DEF TurnKeeps, ChatTypeOK, Related, MessageFiles
<1>6. settled \subseteq Sessions /\ (edit.pc # "idle" => edit.session \in Sessions)
  BY <1>1 DEF Settling, ChatTypeOK
<1> HIDE DEF s
<1>7. MoveCarriesFiles'
  <2> SUFFICES ASSUME NEW r \in settled, r \notin overlapped, chats'[r] # Absent,
                      NEW f \in Related(r)'
               PROVE  files'[f] = Absent \/ files'[f].project = chats'[r].project
    BY <1>2 DEF MoveCarriesFiles
  <2>1. r \in Sessions /\ r # s
    BY <1>4, <1>6
  <2>2. chats'[r] = chats[r] /\ f \in Related(r) /\ f \in Files
    BY <1>3, <1>5, <2>1
  <2>3. files[f] = Absent \/ files[f].project = chats[r].project
    BY <1>1, <2>1, <2>2 DEF Settling, MoveCarriesFiles
  <2> QED BY <1>3, <2>2, <2>3
<1>8. ASSUME edit'.pc = "follow"
      PROVE  \A r \in settled' : r \in overlapped' \/ chats'[r] = Absent \/ Related(r)' \cap edit'.related = {}
  <2> SUFFICES ASSUME NEW r \in settled, r \notin overlapped, chats'[r] # Absent
               PROVE  Related(r)' \cap edit.related = {}
    BY <1>2
  <2>1. r # s /\ chats'[r] = chats[r] /\ Related(r)' \subseteq Related(r)
    BY <1>3, <1>4, <1>6
  <2>2. Related(r) \cap edit.related = {}
    BY <1>1, <1>2, <1>8, <2>1 DEF Settling
  <2> QED BY <2>1, <2>2
<1>9. ASSUME edit'.pc = "follow"
      PROVE  (\/ edit.session \in overlapped \/ chats[edit.session] = Absent
              \/ /\ chats[edit.session].project = edit.copy.project
                 /\ \A f \in Related(edit.session) :
                      f \in edit.related \/ files[f] = Absent \/ files[f].project = edit.copy.project)'
  <2>1. PICK e \in Sessions : e = edit.session /\ e = edit'.session
    BY <1>2, <1>6, <1>9
  <2>2. CASE e = s
    BY <1>2, <1>3, <1>9, <2>1, <2>2
  <2>3. CASE e # s
    <3>1. chats'[e] = chats[e] /\ Related(e)' \subseteq Related(e)
      BY <1>3, <2>3
    <3>2. \/ e \in overlapped \/ chats[e] = Absent
          \/ /\ chats[e].project = edit.copy.project
             /\ \A f \in Related(e) :
                  f \in edit.related \/ files[f] = Absent \/ files[f].project = edit.copy.project
      BY <1>1, <1>2, <1>9, <2>1 DEF Settling
    <3>3. \A f \in Related(e)' : f \in Related(e) /\ f \in Files
      BY <1>5, <3>1
    <3>4. \/ e \in overlapped' \/ chats'[e] = Absent
          \/ /\ chats'[e].project = edit'.copy.project
             /\ \A f \in Related(e)' :
                  f \in edit'.related \/ files'[f] = Absent \/ files'[f].project = edit'.copy.project
      BY <1>2, <1>3, <3>1, <3>2, <3>3
    <3> QED BY <2>1, <3>4
  <2> QED BY <2>2, <2>3
<1>10. /\ \A u \in Turns : Flying(u)' /\ turn'[u].session \in settled' => turn'[u].session \in overlapped'
       /\ edit'.pc # "idle" => edit'.session \notin settled'
  BY <1>1, <1>2 DEF Settling
<1> QED BY <1>7, <1>8, <1>9, <1>10 DEF Settling

LEMMA TurnTitles ==
  ASSUME ChatInv, Chat!AbsentAssumption, NEW t \in Turns, TurnKeeps(t)
  PROVE  Titles'
<1> SUFFICES ASSUME RequireTitle PROVE Titles'
  BY DEF Titles
<1>1. ChatTypeOK /\ ChatTypeOK' /\ TurnFrame(t) /\ Titles
  BY DEF TurnKeeps, ChatInv
<1>0. PICK s \in Sessions : s = turn[t].session /\ s = turn'[t].session
  BY <1>1 DEF TurnFrame
<1>2. /\ UNCHANGED <<edit, overlapped>> /\ s \in Sessions /\ Flying(t)
      /\ \A u \in Turns \ {t} : turn'[u] = turn[u]
      /\ turn'[t].session = s /\ turn'[t].copy.titled = turn[t].copy.titled /\ turn'[t].pc # "title"
      /\ chats'[s] \in {chats[s], turn'[t].copy}
      /\ turn[t].pc = "title" => chats'[s] = turn'[t].copy /\ log' = log
  BY <1>0, <1>1 DEF TurnFrame
<1>3. /\ \A r \in Sessions : chats'[r] = chats[r] \/ r = s
      /\ edit.pc # "idle" => s \in overlapped
      /\ \A m \in log' : m \in log \/ m.session = s
  BY <1>0, TurnReach
<1>4. turn[t].copy.titled /\ turn'[t].copy.titled
  BY <1>1, <1>2 DEF Titles
<1>5. Titled(s)'
  BY <1>0, <1>1, <1>2, <1>4 DEF Titles, Titled
<1>6. \A r \in Sessions : Titled(r) => Titled(r)'
  BY <1>2, <1>3, <1>5 DEF Titled
<1>7. \A m \in log : m.session \in Sessions /\ Titled(m.session)
  BY <1>1 DEF Titles, TitledBeforeMessages, Titled, ChatTypeOK
<1>8. \A m \in log' : m.session \in Sessions
  BY <1>1 DEF ChatTypeOK
<1>9. \A m \in log' : chats'[m.session] = Absent \/ chats'[m.session].titled \/ m.session \in overlapped'
  BY <1>3, <1>5, <1>6, <1>7, <1>8 DEF Titled
<1>10. \A r \in Sessions : chats'[r] # Absent /\ ~chats'[r].draft => chats'[r].titled
  BY <1>1, <1>2, <1>3, <1>4 DEF Titles
<1>11. \A u \in Turns : Flying(u)' => turn'[u].copy.titled
  BY <1>1, <1>2, <1>4 DEF Titles, Flying
<1>12. \A u \in Turns : Flying(u)' /\ turn'[u].pc # "title" => Titled(turn[u].session)'
  <2>1. SUFFICES ASSUME NEW u \in Turns, Flying(u)', turn'[u].pc # "title"
                 PROVE  Titled(turn[u].session)'
    OBVIOUS
  <2>2. PICK r \in Sessions : r = turn'[u].session
    BY <1>1, <2>1 DEF ChatTypeOK, Flying, Turning
  <2>3. Titled(r)'
    <3>1. CASE u = t
      <4>1. r = s
        BY <1>0, <2>2, <3>1
      <4> QED BY <1>5, <4>1 DEF Titled
    <3>2. CASE u # t
      BY <1>1, <1>2, <1>6, <2>1, <2>2, <3>2 DEF Titles, Flying
    <3> QED BY <3>1, <3>2
  <2> QED BY <2>2, <2>3 DEF Titled
<1>13. edit'.pc = "context" =>
         /\ edit'.copy.draft \/ edit'.copy.titled
         /\ \A m \in log' : m.session = edit'.session => edit'.copy.titled \/ m.session \in overlapped'
  BY <1>1, <1>2, <1>3 DEF Titles
<1> QED BY <1>9, <1>10, <1>11, <1>12, <1>13 DEF Titles, TitledBeforeMessages

LEMMA TurnAnswers ==
  ASSUME ChatInv, NEW t \in Turns, TurnKeeps(t)
  PROVE  Answers'
<1>1. ChatTypeOK /\ TurnFrame(t) /\ TurnLog(t) /\ Answers
  BY DEF TurnKeeps, ChatInv
<1>2. /\ gone' = gone /\ log \subseteq log' /\ dropped \subseteq dropped'
      /\ \A u \in Turns \ {t} : turn'[u] = turn[u]
      /\ turn'[t].session = turn[t].session
  BY <1>1 DEF TurnFrame
<1>3. \A r \in {"user", "assistant"} :
        Leaves(t, r) => \E m \in log' : m.turn = t /\ m.role = r /\ m.session = turn'[t].session
  BY <1>2 DEF Leaves
<1>4. \A u \in Turns, r \in {"user", "assistant"} :
        Said(u, r) => \E m \in log' : m.turn = u /\ m.role = r /\ m.session = turn'[u].session
  BY <1>2 DEF Said
<1>5. \A u \in Turns : turn'[u].pc = "done" /\ u \notin dropped' /\ turn'[u].session \notin gone' =>
        \A r \in {"user", "assistant"} :
          \E m \in log' : m.turn = u /\ m.role = r /\ m.session = turn'[u].session
  <2> SUFFICES ASSUME NEW u \in Turns, turn'[u].pc = "done", u \notin dropped',
                      turn'[u].session \notin gone', NEW r \in {"user", "assistant"}
               PROVE  \E m \in log' : m.turn = u /\ m.role = r /\ m.session = turn'[u].session
    OBVIOUS
  <2>1. CASE u = t
    <3>1. turn[t].pc = "audit" \/ Leaves(t, r)
      BY <1>1, <2>1 DEF TurnLog
    <3>2. turn[t].pc = "audit" => Said(t, r)
      BY <1>1, <1>2, <2>1 DEF Answers
    <3> QED BY <1>3, <1>4, <2>1, <3>1, <3>2
  <2>2. CASE u # t
    BY <1>1, <1>2, <2>2 DEF Answers, AnsweredIsRecorded
  <2> QED BY <2>1, <2>2
<1>6. \A u \in Turns : turn'[u].pc \in {"answer", "audit"} =>
        turn'[u].session \in gone' \/ \E m \in log' : m.turn = u /\ m.role = "user" /\ m.session = turn'[u].session
  <2> TAKE u \in Turns
  <2>1. CASE u = t
    <3>1. turn'[t].pc = "answer" => Leaves(t, "user")
      BY <1>1 DEF TurnLog
    <3>2. turn'[t].pc = "audit" => turn[t].pc = "answer"
      BY <1>1 DEF TurnLog
    <3>3. turn[t].pc = "answer" => turn[t].session \in gone \/ Said(t, "user")
      BY <1>1 DEF Answers
    <3> QED BY <1>2, <1>3, <1>4, <2>1, <3>1, <3>2, <3>3
  <2>2. CASE u # t
    BY <1>1, <1>2, <1>4, <2>2 DEF Answers
  <2> QED BY <2>1, <2>2
<1>7. \A u \in Turns : turn'[u].pc = "audit" =>
        turn'[u].session \in gone' \/ \E m \in log' : m.turn = u /\ m.role = "assistant" /\ m.session = turn'[u].session
  <2> TAKE u \in Turns
  <2>1. CASE u = t
    <3>1. turn'[t].pc = "audit" => Leaves(t, "assistant")
      BY <1>1 DEF TurnLog
    <3> QED BY <1>3, <2>1, <3>1
  <2>2. CASE u # t
    BY <1>1, <1>2, <1>4, <2>2 DEF Answers
  <2> QED BY <2>1, <2>2
<1> QED BY <1>5, <1>6, <1>7 DEF Answers, AnsweredIsRecorded, Said

\* The bound of what was spent, when the calls that may still cost go down by n.
LEMMA CostBound ==
  ASSUME NEW a \in Nat, NEW b \in Nat, NEW m \in Nat, a <= b
  PROVE  a * m \in Nat /\ a * m <= b * m
<1>1. PICK c \in Nat : b = a + c
  <2>1. b - a \in Nat /\ b = a + (b - a)
    OBVIOUS
  <2> QED BY <2>1
<1>2. b * m = a * m + c * m /\ c * m \in Nat /\ a * m \in Nat
  BY <1>1
<1> QED BY <1>2

LEMMA TurnCosts ==
  ASSUME ChatInv, Chat!ChatAssumption, NEW t \in Turns, TurnKeeps(t)
  PROVE  Costs'
<1> DEFINE M == MaxCost
           n == Cardinality(Calling)
           k == Cardinality(Calling')
<1>1. ChatTypeOK /\ ChatTypeOK' /\ TurnFrame(t) /\ TurnCost(t) /\ Costs
  BY DEF TurnKeeps, ChatInv
<1>2. /\ peak' = peak /\ peak \in Nat /\ paid \in Nat /\ spend \in Nat /\ Budget \in Nat
      /\ Estimate \in Nat /\ MaxCost \in Nat /\ paid' \in Nat /\ spend' \in Nat
  BY <1>1 DEF ChatTypeOK, TurnFrame, Chat!ChatAssumption
<1>3. InTurn' \subseteq InTurn /\ (\A u \in Turns \ {t} : turn'[u] = turn[u])
  BY <1>1 DEF TurnFrame, InTurn, Flying
<1>4. IsFiniteSet(InTurn) /\ Cardinality(InTurn) <= peak /\ paid <= spend
  BY <1>1 DEF Costs
<1>5. IsFiniteSet(InTurn') /\ Cardinality(InTurn') \in Nat /\ Cardinality(InTurn) \in Nat
      /\ Cardinality(InTurn') <= Cardinality(InTurn)
  BY <1>3, <1>4, FS_Subset, FS_CardinalityType
<1>6. Calling \subseteq InTurn /\ Calling' \subseteq InTurn'
  BY DEF Calling, InTurn, Flying, Turning
<1>7. /\ IsFiniteSet(Calling) /\ IsFiniteSet(Calling') /\ n \in Nat /\ k \in Nat
      /\ k <= Cardinality(InTurn') /\ k <= peak
  <2>1. IsFiniteSet(Calling) /\ IsFiniteSet(Calling')
    BY <1>4, <1>5, <1>6, FS_Subset
  <2>2. k <= Cardinality(InTurn') /\ k \in Nat /\ n \in Nat
    BY <1>5, <1>6, <2>1, FS_Subset, FS_CardinalityType
  <2> HIDE DEF k, n
  <2> QED BY <1>2, <1>4, <1>5, <2>1, <2>2
<1>8. \/ paid = 0 /\ Calling = {}
      \/ paid + Estimate + n * M <= Budget + peak * M
  BY <1>1 DEF Costs
<1>9. /\ paid' <= spend'
      /\ \/ paid' = 0 /\ Calling' = {}
         \/ paid' + Estimate + k * M <= Budget + peak * M
  <2>1. CASE /\ UNCHANGED paid /\ (spend' = spend \/ spend' = spend + Estimate)
             /\ turn'[t].pc \in {"attach", "search", "user", "answer", "audit"} => t \in Calling
    <3>1. Calling' \subseteq Calling
      BY <1>3, <2>1 DEF Calling
    <3>2. k <= n
      BY <1>7, <3>1, FS_Subset
    <3> HIDE DEF k, n
    <3>3. n * M \in Nat /\ k * M \in Nat /\ k * M <= n * M /\ peak * M \in Nat
      BY <1>2, <1>7, <3>2, CostBound
    <3> DEFINE a == n * M
               b == k * M
               c == peak * M
    <3>4. \/ paid = 0 /\ Calling = {}
          \/ paid + Estimate + a <= Budget + c
      BY <1>8
    <3>5. a \in Nat /\ b \in Nat /\ b <= a /\ c \in Nat
      BY <3>3
    <3> HIDE DEF a, b, c
    <3>6. \/ paid = 0 /\ Calling' = {}
          \/ paid + Estimate + b <= Budget + c
      BY <1>2, <3>1, <3>4, <3>5
    <3> QED BY <1>2, <1>4, <2>1, <3>6 DEF b, c
  <2>2. CASE UNCHANGED <<paid, spend>> /\ ~(spend + Estimate > Budget)
    <3> HIDE DEF k, n
    <3>1. k * M \in Nat /\ k * M <= peak * M /\ peak * M \in Nat
      BY <1>2, <1>7, CostBound
    <3> DEFINE b == k * M
               c == peak * M
    <3>2. b \in Nat /\ c \in Nat /\ b <= c
      BY <3>1
    <3> HIDE DEF b, c
    <3>3. paid + Estimate + b <= Budget + c
      BY <1>2, <1>4, <2>2, <3>2
    <3> QED BY <1>4, <2>2, <3>3 DEF b, c
  <2>3. CASE /\ \E cost \in 0 .. MaxCost : paid' = paid + cost /\ spend' = spend + cost
             /\ t \in Calling /\ turn'[t].pc = "done"
    <3>1. PICK cost \in 0 .. MaxCost : paid' = paid + cost /\ spend' = spend + cost
      BY <2>3
    <3>2. Calling' = Calling \ {t}
      BY <1>3, <2>3 DEF Calling
    <3>3. k = n - 1
      BY <1>7, <2>3, <3>2, FS_RemoveElement
    <3>4. Calling # {}
      BY <2>3
    <3> HIDE DEF k, n
    <3>5. n * M = k * M + M /\ k * M \in Nat /\ peak * M \in Nat
      BY <1>2, <1>7, <3>3
    <3> DEFINE b == k * M
               c == peak * M
    <3>6. paid + Estimate + (b + M) <= Budget + c /\ b \in Nat /\ c \in Nat
      BY <1>8, <3>4, <3>5
    <3> HIDE DEF b, c
    <3>7. paid' + Estimate + b <= Budget + c /\ paid' <= spend'
      BY <1>2, <1>4, <3>1, <3>6
    <3> QED BY <3>7 DEF b, c
  <2>4. CASE /\ UNCHANGED paid /\ spend' = spend + Estimate
             /\ turn'[t].pc \notin {"attach", "search", "user", "answer", "audit"}
    BY <2>1, <2>4
  <2> HIDE DEF M, n, k
  <2> QED BY <1>1, <2>1, <2>2, <2>3, <2>4 DEF TurnCost
<1> HIDE DEF k
<1>10. Cardinality(InTurn') <= peak'
  BY <1>2, <1>4, <1>5
<1> QED BY <1>2, <1>5, <1>9, <1>10 DEF Costs, k

\* A new request: what it reads of its session, and what it counts in.
StartFrame(t, s) ==
  /\ turn[t].pc = "none" /\ chats[s] # Absent
  /\ turn'[t].session = s /\ turn'[t].pc \in {"title", "refused"}
  /\ RequireTitle /\ turn'[t].pc = "title" => ~chats[s].draft \/ turn'[t].copy.titled
  /\ chats[s].titled => turn'[t].copy.titled
  /\ \A u \in Turns \ {t} : turn'[u] = turn[u]
  /\ UNCHANGED <<chats, log, files, spend, edit, dropped, paid, gone>>
  /\ settled' = settled \ {s} /\ overlapped \subseteq overlapped'
  /\ edit.pc # "idle" => s \in overlapped'
  /\ peak' \in Nat /\ peak' >= peak /\ peak' >= Cardinality(InTurn) + 1

LEMMA StartKeeps ==
  ASSUME ChatTypeOK, Costs, Chat!AbsentAssumption, NEW t \in Turns, NEW s \in Sessions,
         NEW f \in Files \cup {Absent}, NEW p \in Projects, NEW titles \in BOOLEAN,
         Chat!Start(t, s, f, p, titles)
  PROVE  ChatTypeOK' /\ StartFrame(t, s)
<1> DEFINE c == [chats[s] EXCEPT !.project = p, !.titled = @ \/ titles]
           x == IF RequireTitle /\ chats[s].draft /\ ~titles THEN "refused" ELSE "title"
           w == [pc |-> x, session |-> s, file |-> f, seen |-> 0, copy |-> c]
           R == [pc : Turning \cup {"none", "done", "refused"},
                 session : Sessions \cup {Absent}, file : Files \cup {Absent},
                 copy : Chat!Rows \cup {Absent}, seen : Nat]
<1>1. /\ turn[t].pc = "none" /\ chats[s] # Absent /\ turn' = [turn EXCEPT ![t] = w]
      /\ UNCHANGED <<chats, log, files, spend, edit, dropped, paid, gone>>
      /\ settled' = settled \ {s}
      /\ overlapped' = IF edit = Chat!NoEdit THEN overlapped ELSE overlapped \cup {s}
      /\ peak' = Chat!Max({peak, Cardinality(InTurn) + 1})
  <2>1. turn[t].pc = "none" /\ chats[s] # Absent /\ turn' = [turn EXCEPT ![t] = w]
    BY DEF Chat!Start, Chat!At
  <2>2. /\ UNCHANGED <<chats, log, files, spend, edit, dropped, paid, gone>>
        /\ settled' = settled \ {s}
        /\ overlapped' = IF edit = Chat!NoEdit THEN overlapped ELSE overlapped \cup {s}
    BY DEF Chat!Start, Chat!store
  <2>3. peak' = Chat!Max({peak, Cardinality(Chat!TurnsInFlight) + 1})
    BY SameCardinality DEF Chat!Start
  <2>4. Chat!TurnsInFlight = InTurn
    BY ChatCopies
  <2> QED BY <2>1, <2>2, <2>3, <2>4
<1>2. chats[s] \in Chat!Rows
  BY <1>1 DEF ChatTypeOK
<1>3. c \in Chat!Rows /\ (chats[s].titled \/ titles => c.titled)
  BY <1>2 DEF Chat!Rows
<1>4. x \in {"refused", "title"} /\ (RequireTitle /\ x = "title" => ~chats[s].draft \/ titles)
  OBVIOUS
<1> HIDE DEF c, x
<1>5. w \in R /\ w.pc = x /\ w.session = s /\ w.copy = c
  BY <1>3, <1>4 DEF Turning
<1> HIDE DEF w, R
<1>6. turn \in [Turns -> R]
  BY DEF ChatTypeOK, R
<1>7. turn' \in [Turns -> R] /\ turn'[t] = w /\ \A u \in Turns \ {t} : turn'[u] = turn[u]
  BY <1>1, <1>5, <1>6
<1>8. /\ peak' \in Nat /\ peak' >= peak /\ peak' >= Cardinality(InTurn) + 1
  <2>1. peak \in Nat /\ Cardinality(InTurn) + 1 \in Nat
    BY FS_CardinalityType DEF ChatTypeOK, Costs
  <2> QED BY <1>1, <2>1, MaxOfTwo
<1>9. /\ overlapped \subseteq overlapped' /\ (edit.pc # "idle" => s \in overlapped')
  BY <1>1 DEF Chat!NoEdit
<1>10. ChatTypeOK'
  <2>1. \A u \in Turns : turn'[u].pc # "none" => turn'[u].session \in Sessions /\ turn'[u].copy \in Chat!Rows
    BY <1>3, <1>5, <1>7 DEF ChatTypeOK
  <2>2. Chat!NoEdit' = Chat!NoEdit /\ settled' \subseteq Sessions
    BY <1>1 DEF Chat!NoEdit, ChatTypeOK
  <2> QED BY <1>1, <1>7, <1>8, <2>1, <2>2 DEF ChatTypeOK, R
<1> QED BY <1>1, <1>3, <1>4, <1>5, <1>7, <1>8, <1>9, <1>10 DEF StartFrame

LEMMA StartInv ==
  ASSUME ChatInv, Chat!ChatAssumption, NEW t \in Turns, NEW s \in Sessions, ChatTypeOK', StartFrame(t, s)
  PROVE  ChatInv'
<1>1. /\ ChatTypeOK /\ Lifetimes /\ Attachments /\ Knowledge /\ Settling /\ Titles /\ Answers /\ Costs
  BY DEF ChatInv
<1>2. /\ turn[t].pc = "none" /\ chats[s] # Absent
      /\ turn'[t].session = s /\ turn'[t].pc \in {"title", "refused"}
      /\ \A u \in Turns \ {t} : turn'[u] = turn[u]
      /\ UNCHANGED <<chats, log, files, spend, edit, dropped, paid, gone>>
      /\ settled' = settled \ {s} /\ overlapped \subseteq overlapped'
      /\ edit.pc # "idle" => s \in overlapped'
  BY DEF StartFrame
<1>3. s \in gone => s \in overlapped'
  BY <1>1, <1>2 DEF Lifetimes, DeletedStaysDeleted
<1>4. \A r \in Sessions : Related(r)' = Related(r)
  BY <1>2 DEF Related, MessageFiles
<1>5. \A u \in Turns \ {t} : Flying(u)' <=> Flying(u)
  BY <1>2 DEF Flying
<1>6. Lifetimes'
  BY <1>1, <1>2, <1>3, <1>5 DEF Lifetimes, DeletedStaysDeleted
<1>7. Attachments'
  <2>1. AttachmentsSurvive'
    BY <1>1, <1>2 DEF Attachments, AttachmentsSurvive
  <2> QED BY <1>1, <1>2, <2>1 DEF Attachments
<1>8. Knowledge'
  BY <1>1, <1>2 DEF Knowledge, KnowledgeSurvives
<1>9. Settling'
  <2>1. MoveCarriesFiles'
    <3>1. settled \subseteq Sessions
      BY <1>1 DEF ChatTypeOK
    <3> QED BY <1>1, <1>2, <1>4, <3>1 DEF Settling, MoveCarriesFiles
  <2>2. \A u \in Turns : Flying(u)' /\ turn'[u].session \in settled' => turn'[u].session \in overlapped'
    BY <1>1, <1>2, <1>5 DEF Settling
  <2>3. edit'.pc # "idle" => edit'.session \notin settled'
    BY <1>1, <1>2 DEF Settling
  <2>4. ASSUME edit'.pc = "follow", NEW r \in settled'
        PROVE  r \in overlapped' \/ chats'[r] = Absent \/ Related(r)' \cap edit'.related = {}
    <3>1. r \in settled /\ r \in Sessions
      BY <1>1, <1>2, <2>4 DEF ChatTypeOK
    <3> QED BY <1>1, <1>2, <1>4, <2>4, <3>1 DEF Settling
  <2>5. ASSUME edit'.pc = "follow"
        PROVE  (\/ edit.session \in overlapped \/ chats[edit.session] = Absent
                \/ /\ chats[edit.session].project = edit.copy.project
                   /\ \A f \in Related(edit.session) :
                        f \in edit.related \/ files[f] = Absent \/ files[f].project = edit.copy.project)'
    <3>1. PICK e \in Sessions : e = edit.session /\ e = edit'.session
      BY <1>1, <1>2, <2>5 DEF ChatTypeOK
    <3>2. \/ e \in overlapped' \/ chats'[e] = Absent
          \/ /\ chats'[e].project = edit'.copy.project
             /\ \A f \in Related(e)' :
                  f \in edit'.related \/ files'[f] = Absent \/ files'[f].project = edit'.copy.project
      BY <1>1, <1>2, <1>4, <2>5, <3>1 DEF Settling
    <3> QED BY <3>1, <3>2
  <2> QED BY <2>1, <2>2, <2>3, <2>4, <2>5 DEF Settling
<1>10. Titles'
  <2> SUFFICES ASSUME RequireTitle PROVE Titles'
    BY DEF Titles
  <2>1. turn'[t].pc = "title" => turn'[t].copy.titled
    BY <1>1, <1>2 DEF StartFrame, Titles
  <2>2. \A u \in Turns : Flying(u)' => turn'[u].copy.titled
    BY <1>1, <1>2, <1>5, <2>1 DEF Titles, Flying, Turning
  <2>3. \A r \in Sessions : Titled(r) => Titled(r)'
    BY <1>2 DEF Titled
  <2>4. \A u \in Turns : Flying(u)' /\ turn'[u].pc # "title" => Titled(turn[u].session)'
    <3> SUFFICES ASSUME NEW u \in Turns, Flying(u)', turn'[u].pc # "title"
                 PROVE  Titled(turn[u].session)'
      OBVIOUS
    <3>1. u # t
      BY <1>2 DEF Flying, Turning
    <3>2. PICK r \in Sessions : r = turn'[u].session /\ r = turn[u].session
      BY <1>2, <3>1 DEF ChatTypeOK, Flying, Turning
    <3>3. Titled(r)'
      BY <1>1, <1>2, <1>5, <2>3, <3>1, <3>2 DEF Titles
    <3> QED BY <3>2, <3>3 DEF Titled
  <2>5. TitledBeforeMessages'
    BY <1>1, <1>2 DEF Titles, TitledBeforeMessages
  <2> QED BY <1>1, <1>2, <2>2, <2>4, <2>5 DEF Titles
<1>11. Answers'
  <2>1. \A u \in Turns \ {t}, r \in {"user", "assistant"} : Said(u, r)' <=> Said(u, r)
    BY <1>2 DEF Said
  <2>2. AnsweredIsRecorded'
    BY <1>1, <1>2 DEF Answers, AnsweredIsRecorded
  <2> QED BY <1>1, <1>2, <2>1, <2>2 DEF Answers
<1>12. Costs'
  <2>1. Calling' = Calling
    BY <1>2 DEF Calling
  <2>2. InTurn' \subseteq InTurn \cup {t} /\ t \notin InTurn
    BY <1>2, <1>5 DEF InTurn, Flying, Turning
  <2>3. /\ IsFiniteSet(InTurn \cup {t}) /\ Cardinality(InTurn \cup {t}) = Cardinality(InTurn) + 1
        /\ Cardinality(InTurn) \in Nat
    BY <1>1, <2>2, FS_AddElement, FS_CardinalityType DEF Costs
  <2>4. /\ IsFiniteSet(InTurn') /\ Cardinality(InTurn') <= Cardinality(InTurn) + 1
        /\ Cardinality(InTurn') \in Nat
    BY <2>2, <2>3, FS_Subset, FS_CardinalityType
  <2>5. /\ peak \in Nat /\ peak' \in Nat /\ peak <= peak' /\ Cardinality(InTurn) + 1 <= peak'
    BY <1>1 DEF ChatTypeOK, StartFrame
  <2>6. /\ MaxCost \in Nat /\ Estimate \in Nat /\ Budget \in Nat /\ paid \in Nat
    BY <1>1 DEF ChatTypeOK, Chat!ChatAssumption
  <2>7. /\ peak * MaxCost \in Nat /\ peak' * MaxCost \in Nat /\ peak * MaxCost <= peak' * MaxCost
    <3>1. peak * MaxCost \in Nat /\ peak * MaxCost <= peak' * MaxCost
      BY <2>5, <2>6, CostBound
    <3>2. peak' <= peak'
      BY <2>5
    <3>3. peak' * MaxCost \in Nat
      BY <2>5, <2>6, <3>2, CostBound
    <3> QED BY <3>1, <3>3
  <2>8. Cardinality(Calling) * MaxCost \in Nat
    <3>1. Calling \subseteq InTurn
      BY DEF Calling, InTurn, Flying, Turning
    <3>2. Cardinality(Calling) \in Nat
      BY <1>1, <3>1, FS_Subset, FS_CardinalityType DEF Costs
    <3> QED BY <2>6, <3>2, CostBound
  <2> DEFINE a == Cardinality(Calling) * MaxCost
             b == peak * MaxCost
             c == peak' * MaxCost
  <2>9. \/ paid = 0 /\ Calling = {}
        \/ paid + Estimate + a <= Budget + b
    BY <1>1 DEF Costs
  <2>10. a \in Nat /\ b \in Nat /\ c \in Nat /\ b <= c
    BY <2>7, <2>8
  <2> HIDE DEF a, b, c
  <2>11. \/ paid = 0 /\ Calling = {}
         \/ paid + Estimate + a <= Budget + c
    BY <2>6, <2>9, <2>10
  <2>12. \/ paid' = 0 /\ Calling' = {}
         \/ paid' + Estimate + Cardinality(Calling') * MaxCost <= Budget + peak' * MaxCost
    BY <1>2, <2>1, <2>11 DEF a, c
  <2>13. paid' <= spend' /\ Cardinality(InTurn') <= peak'
    BY <1>1, <1>2, <2>3, <2>4, <2>5 DEF Costs
  <2> QED BY <2>4, <2>12, <2>13 DEF Costs
<1> QED BY <1>6, <1>7, <1>8, <1>9, <1>10, <1>11, <1>12 DEF ChatInv

-----------------------------------------------------------------------------
(* Edits                                                                   *)
-----------------------------------------------------------------------------
\* The turns go on as they were, and only the messages of what is gone go.
LEMMA EditSpares ==
  ASSUME ChatInv, UNCHANGED <<turn, dropped, paid, peak, spend>>, gone \subseteq gone',
         \A m \in log : m \in log' \/ m.session \in gone'
  PROVE  Answers' /\ Costs'
<1>1. Answers /\ Costs
  BY DEF ChatInv
<1>2. Answers'
  <2>1. \A t \in Turns, r \in {"user", "assistant"} :
          Said(t, r) => turn'[t].session \in gone' \/ Said(t, r)'
    BY DEF Said
  <2>2. \A t \in Turns, r \in {"user", "assistant"} :
          Said(t, r)' => \E m \in log' : m.turn = t /\ m.role = r /\ m.session = turn'[t].session
    BY DEF Said
  <2>3. AnsweredIsRecorded'
    <3> SUFFICES ASSUME NEW t \in Turns, turn'[t].pc = "done", t \notin dropped',
                        turn'[t].session \notin gone', NEW r \in {"user", "assistant"}
                 PROVE  \E m \in log' : m.turn = t /\ m.role = r /\ m.session = turn'[t].session
      BY DEF AnsweredIsRecorded
    <3>1. Said(t, r)
      BY <1>1 DEF Answers, AnsweredIsRecorded, Said
    <3> QED BY <2>1, <2>2, <3>1
  <2>4. \A t \in Turns : turn'[t].pc \in {"answer", "audit"} => turn'[t].session \in gone' \/ Said(t, "user")'
    BY <1>1, <2>1 DEF Answers
  <2>5. \A t \in Turns : turn'[t].pc = "audit" => turn'[t].session \in gone' \/ Said(t, "assistant")'
    BY <1>1, <2>1 DEF Answers
  <2> QED BY <2>3, <2>4, <2>5 DEF Answers
<1>3. Costs'
  BY <1>1 DEF Costs, InTurn, Calling, Flying
<1> QED BY <1>2, <1>3

\* The beginning of an edit of s.
BeginFrame(s) ==
  /\ edit.pc = "idle" /\ chats[s] # Absent
  /\ edit'.session = s /\ edit'.pc \in {"elsewhere", "follow", "context"}
  /\ UNCHANGED <<log, files, spend, turn, dropped, paid, peak, gone>>
  /\ overlapped' = overlapped \cup {turn[t].session : t \in InTurn}
  /\ settled' \subseteq settled \ {s}
  /\ \A r \in Sessions \ {s} : chats'[r] = chats[r]
  /\ chats'[s] # Absent /\ chats'[s].titled = chats[s].titled /\ chats'[s].draft = chats[s].draft
  /\ edit'.pc = "follow" =>
       /\ edit'.related = Related(s) /\ chats'[s].project = edit'.copy.project
       /\ \A r \in settled' : Related(r) \cap Related(s) = {}
  /\ edit'.pc = "context" => edit'.copy = chats[s]

LEMMA RelatedType ==
  ASSUME ChatTypeOK, NEW s
  PROVE  Related(s) \subseteq Files
BY DEF ChatTypeOK, Related, MessageFiles

EditRecord == [pc : {"idle", "elsewhere", "delete", "files", "follow", "context"},
               session : Sessions \cup {Absent}, copy : Chat!Rows \cup {Absent},
               related : SUBSET Files, elsewhere : SUBSET Files]

\* The type of what an edit leaves, from what it changes.
LEMMA EditTypes ==
  ASSUME ChatTypeOK, UNCHANGED <<spend, turn, paid, peak>>,
         chats' \in [Sessions -> Chat!Rows \cup {Absent}],
         files' \in [Files -> Chat!FileRows \cup {Absent}],
         log' \subseteq log, gone' \subseteq Sessions, settled' \subseteq Sessions,
         \/ edit' = Chat!NoEdit
         \/ /\ edit' \in EditRecord /\ edit'.pc # "idle" /\ edit'.session \in Sessions
            /\ edit'.pc \in {"follow", "context"} => edit'.copy \in Chat!Rows
  PROVE  ChatTypeOK'
<1>1. Chat!NoEdit' = Chat!NoEdit /\ Chat!NoEdit.pc = "idle" /\ Chat!NoEdit \in EditRecord
  BY DEF Chat!NoEdit, EditRecord
<1>2. /\ edit' \in EditRecord
      /\ edit'.pc # "idle" => edit'.session \in Sessions
      /\ edit'.pc \in {"follow", "context"} => edit'.copy \in Chat!Rows
      /\ edit'.pc = "idle" => edit' = Chat!NoEdit'
  BY <1>1
<1>3. log' \subseteq [turn : Turns, role : {"user", "assistant"}, session : Sessions,
                    file : Files \cup {Absent}]
  BY DEF ChatTypeOK
<1> QED BY <1>2, <1>3 DEF ChatTypeOK, EditRecord

\* The same for the beginning of one.
LEMMA BeginsFrame ==
  ASSUME ChatTypeOK, NEW s \in Sessions, Chat!Begins(s)
  PROVE  /\ edit.pc = "idle" /\ chats[s] # Absent /\ chats[s] \in Chat!Rows
         /\ overlapped' = overlapped \cup {turn[t].session : t \in InTurn}
BY ChatCopies DEF Chat!Begins, ChatTypeOK

LEMMA BeginDeleteKeeps ==
  ASSUME ChatTypeOK, NEW s \in Sessions, Chat!BeginDelete(s)
  PROVE  ChatTypeOK' /\ BeginFrame(s)
<1> DEFINE w == [Chat!NoEdit EXCEPT !.pc = "elsewhere", !.session = s, !.related = Related(s)]
<1>1. /\ edit' = w /\ settled' = settled \ {s}
      /\ UNCHANGED <<chats, log, files, spend, turn, dropped, paid, peak, gone>>
  BY ChatCopies DEF Chat!BeginDelete, Chat!store
<1>2. /\ edit.pc = "idle" /\ chats[s] # Absent /\ chats[s] \in Chat!Rows
      /\ overlapped' = overlapped \cup {turn[t].session : t \in InTurn}
  BY BeginsFrame DEF Chat!BeginDelete
<1>3. w \in EditRecord /\ w.pc = "elsewhere" /\ w.session = s
  BY RelatedType DEF EditRecord, Chat!NoEdit
<1> HIDE DEF w
<1>4. ChatTypeOK'
  <2>1. /\ chats' \in [Sessions -> Chat!Rows \cup {Absent}]
        /\ files' \in [Files -> Chat!FileRows \cup {Absent}]
        /\ log' \subseteq log /\ gone' \subseteq Sessions /\ settled' \subseteq Sessions
    BY <1>1 DEF ChatTypeOK
  <2> QED BY <1>1, <1>3, <2>1, EditTypes
<1> QED BY <1>1, <1>2, <1>3, <1>4 DEF BeginFrame

LEMMA ReadContextKeeps ==
  ASSUME ChatTypeOK, NEW s \in Sessions, Chat!ReadContext(s)
  PROVE  ChatTypeOK' /\ BeginFrame(s)
<1> DEFINE w == [Chat!NoEdit EXCEPT !.pc = "context", !.session = s, !.copy = chats[s]]
<1>1. /\ edit' = w /\ settled' = settled \ {s}
      /\ UNCHANGED <<chats, log, files, spend, turn, dropped, paid, peak, gone>>
  BY DEF Chat!ReadContext, Chat!store
<1>2. /\ edit.pc = "idle" /\ chats[s] # Absent /\ chats[s] \in Chat!Rows
      /\ overlapped' = overlapped \cup {turn[t].session : t \in InTurn}
  BY BeginsFrame DEF Chat!ReadContext
<1>3. w \in EditRecord /\ w.pc = "context" /\ w.session = s /\ w.copy = chats[s]
  BY <1>2 DEF EditRecord, Chat!NoEdit
<1> HIDE DEF w
<1>4. ChatTypeOK'
  <2>1. /\ chats' \in [Sessions -> Chat!Rows \cup {Absent}]
        /\ files' \in [Files -> Chat!FileRows \cup {Absent}]
        /\ log' \subseteq log /\ gone' \subseteq Sessions /\ settled' \subseteq Sessions
    BY <1>1 DEF ChatTypeOK
  <2> QED BY <1>1, <1>2, <1>3, <2>1, EditTypes
<1> QED BY <1>1, <1>2, <1>3, <1>4 DEF BeginFrame

LEMMA MoveKeeps ==
  ASSUME ChatTypeOK, Chat!AbsentAssumption, NEW s \in Sessions, NEW p \in Projects, Chat!Move(s, p)
  PROVE  ChatTypeOK' /\ BeginFrame(s)
<1> DEFINE c == [chats[s] EXCEPT !.project = p]
           w == [Chat!NoEdit EXCEPT !.pc = "follow", !.session = s, !.copy = c, !.related = Related(s)]
<1>1. /\ chats' = [chats EXCEPT ![s] = c]
      /\ edit' = w
      /\ settled' = {r \in settled \ {s} : Related(r) \cap Related(s) = {}}
      /\ UNCHANGED <<log, files, spend, turn, dropped, paid, peak, gone>>
  BY ChatCopies DEF Chat!Move
<1>2. /\ edit.pc = "idle" /\ chats[s] # Absent /\ chats[s] \in Chat!Rows
      /\ overlapped' = overlapped \cup {turn[t].session : t \in InTurn}
  BY BeginsFrame DEF Chat!Move
<1>3. c \in Chat!Rows /\ c.project = p /\ c.titled = chats[s].titled /\ c.draft = chats[s].draft
  BY <1>2 DEF Chat!Rows
<1> HIDE DEF c
<1>4. w \in EditRecord /\ w.pc = "follow" /\ w.session = s /\ w.copy = c /\ w.related = Related(s)
  BY <1>3, RelatedType DEF EditRecord, Chat!NoEdit
<1> HIDE DEF w
<1>5. /\ chats' \in [Sessions -> Chat!Rows \cup {Absent}] /\ chats'[s] = c
      /\ \A r \in Sessions \ {s} : chats'[r] = chats[r]
  BY <1>1, <1>3 DEF ChatTypeOK
<1>6. c # Absent
  BY <1>3 DEF Chat!AbsentAssumption
<1>7. ChatTypeOK'
  <2>1. /\ files' \in [Files -> Chat!FileRows \cup {Absent}]
        /\ log' \subseteq log /\ gone' \subseteq Sessions /\ settled' \subseteq Sessions
    BY <1>1 DEF ChatTypeOK
  <2> QED BY <1>1, <1>3, <1>4, <1>5, <2>1, EditTypes
<1> QED BY <1>1, <1>2, <1>3, <1>4, <1>5, <1>6, <1>7 DEF BeginFrame

LEMMA BeginInv ==
  ASSUME ChatInv, ChatTypeOK', NEW s \in Sessions, BeginFrame(s)
  PROVE  ChatInv'
<1>1. /\ ChatTypeOK /\ Lifetimes /\ Attachments /\ Knowledge /\ Settling /\ Titles
  BY DEF ChatInv
<1>2. /\ edit.pc = "idle" /\ chats[s] # Absent
      /\ edit'.session = s /\ edit'.pc \in {"elsewhere", "follow", "context"}
      /\ UNCHANGED <<log, files, spend, turn, dropped, paid, peak, gone>>
      /\ overlapped' = overlapped \cup {turn[t].session : t \in InTurn}
      /\ settled' \subseteq settled \ {s}
      /\ \A r \in Sessions \ {s} : chats'[r] = chats[r]
      /\ chats'[s] # Absent /\ chats'[s].titled = chats[s].titled /\ chats'[s].draft = chats[s].draft
  BY DEF BeginFrame
<1>3. /\ \A t \in Turns : Flying(t)' => Flying(t) /\ turn[t].session \in overlapped'
      /\ overlapped \subseteq overlapped'
  BY <1>2 DEF InTurn, Flying
<1>4. \A r \in Sessions : chats'[r] = Absent <=> chats[r] = Absent
  BY <1>2
<1>5. s \in gone => s \in overlapped
  BY <1>1, <1>2 DEF Lifetimes, DeletedStaysDeleted
<1>6. \A r \in Sessions : Related(r)' = Related(r)
  BY <1>2 DEF Related, MessageFiles
<1>7. Lifetimes'
  <2>1. DeletedStaysDeleted'
    <3>1. gone \subseteq Sessions
      BY <1>1 DEF ChatTypeOK
    <3> QED BY <1>1, <1>2, <1>3, <1>4, <3>1 DEF Lifetimes, DeletedStaysDeleted
  <2> QED BY <1>1, <1>2, <1>3, <1>4, <1>5, <2>1 DEF Lifetimes
<1>8. Attachments'
  <2>1. AttachmentsSurvive'
    <3>1. \A m \in log : m.session \in Sessions
      BY <1>1 DEF ChatTypeOK
    <3> QED BY <1>1, <1>2, <1>3, <1>4, <3>1 DEF Attachments, AttachmentsSurvive
  <2> QED BY <1>1, <1>2, <1>3, <2>1 DEF Attachments
<1>9. Knowledge'
  BY <1>1, <1>2 DEF Knowledge, KnowledgeSurvives
<1>10. Settling'
  <2>1. MoveCarriesFiles'
    <3>1. \A r \in settled' : r \in settled /\ r \in Sessions /\ chats'[r] = chats[r]
      BY <1>1, <1>2 DEF ChatTypeOK
    <3> QED BY <1>1, <1>2, <1>3, <1>6, <3>1 DEF Settling, MoveCarriesFiles
  <2>2. ASSUME edit'.pc = "follow", NEW r \in settled'
        PROVE  Related(r)' \cap edit'.related = {}
    <3>1. r \in Sessions
      BY <1>1, <1>2 DEF ChatTypeOK
    <3> QED BY <1>6, <2>2, <3>1 DEF BeginFrame
  <2>3. ASSUME edit'.pc = "follow"
        PROVE  (/\ chats[edit.session].project = edit.copy.project
                /\ \A f \in Related(edit.session) : f \in edit.related)'
    <3>1. chats'[s].project = edit'.copy.project /\ \A f \in Related(s)' : f \in edit'.related
      BY <1>6, <2>3 DEF BeginFrame
    <3> QED BY <1>2, <3>1
  <2> QED BY <1>1, <1>2, <1>3, <2>1, <2>2, <2>3 DEF Settling
<1>11. Titles'
  <2> SUFFICES ASSUME RequireTitle PROVE Titles'
    BY DEF Titles
  <2>1. \A r \in Sessions : Titled(r) => Titled(r)'
    BY <1>2, <1>3 DEF Titled
  <2>2. TitledBeforeMessages'
    <3>1. \A m \in log : m.session \in Sessions
      BY <1>1 DEF ChatTypeOK
    <3> QED BY <1>1, <1>2, <2>1, <3>1 DEF Titles, TitledBeforeMessages, Titled
  <2>3. \A r \in Sessions : chats'[r] # Absent /\ ~chats'[r].draft => chats'[r].titled
    BY <1>1, <1>2 DEF Titles
  <2>4. \A t \in Turns : Flying(t)' => turn'[t].copy.titled
    BY <1>1, <1>2, <1>3 DEF Titles
  <2>5. \A t \in Turns : Flying(t)' /\ turn'[t].pc # "title" => Titled(turn[t].session)'
    BY <1>2, <1>3 DEF Titled
  <2>6. edit'.pc = "context" =>
          /\ edit'.copy.draft \/ edit'.copy.titled
          /\ \A m \in log' : m.session = edit'.session => edit'.copy.titled \/ m.session \in overlapped'
    <3>1. edit'.pc = "context" => edit'.copy = chats[s]
      BY DEF BeginFrame
    <3>2. chats[s].draft \/ chats[s].titled
      BY <1>1, <1>2 DEF Titles
    <3> QED BY <1>1, <1>2, <1>3, <3>1, <3>2 DEF Titles, TitledBeforeMessages
  <2> QED BY <2>2, <2>3, <2>4, <2>5, <2>6 DEF Titles
<1>12. Answers' /\ Costs'
  BY <1>2, EditSpares
<1> QED BY <1>7, <1>8, <1>9, <1>10, <1>11, <1>12 DEF ChatInv

\* The others of a session, and the bases.
LEMMA FindElsewhereInv ==
  ASSUME ChatInv, Chat!ChatAssumption, Chat!FindElsewhere
  PROVE  ChatInv'
<1> DEFINE others == UNION {MessageFiles(s) : s \in {s \in Sessions \ {edit.session} : chats[s] # Absent}}
           w == [edit EXCEPT !.pc = "delete", !.elsewhere = Linked \cup others]
<1>1. /\ ChatTypeOK /\ Lifetimes /\ Attachments /\ Knowledge /\ Settling /\ Titles
  BY DEF ChatInv
<1>2. /\ edit.pc = "elsewhere" /\ edit' = w
      /\ UNCHANGED <<chats, log, files, spend, turn, dropped, overlapped, paid, peak, gone, settled>>
  <2>1. /\ edit.pc = "elsewhere"
        /\ UNCHANGED <<chats, log, files, spend, turn, dropped, overlapped, paid, peak, gone, settled>>
    BY DEF Chat!FindElsewhere, Chat!store, Chat!history
  <2> DEFINE O == {s \in Sessions \ {edit.session} : chats[s] # Absent}
             A == UNION {Chat!MessageFiles(s) : s \in O}
  <2>2. edit' = [edit EXCEPT !.pc = "delete", !.elsewhere = Linked \cup A]
    BY DEF Chat!FindElsewhere
  <2> HIDE DEF O
  <2>3. A = UNION {MessageFiles(s) : s \in O}
    BY ChatCopies
  <2>4. A = others
    BY <2>3 DEF O
  <2> HIDE DEF A, others
  <2> QED BY <2>1, <2>2, <2>4
<1>3. edit \in EditRecord /\ edit.session \in Sessions
  BY <1>1, <1>2 DEF ChatTypeOK, EditRecord
<1>4. Linked \cup others \subseteq Files
  <2>1. \A s : MessageFiles(s) \subseteq Files
    BY <1>1 DEF ChatTypeOK, MessageFiles
  <2> QED BY <2>1 DEF Chat!ChatAssumption
<1>5. \A m \in log :
        m.file = Absent \/ m.file \in others \/ m.session = edit.session \/ chats[m.session] = Absent
  BY <1>1 DEF ChatTypeOK, MessageFiles
<1> HIDE DEF others
<1>6. w \in EditRecord /\ w.pc = "delete" /\ w.session = edit.session /\ w.elsewhere = Linked \cup others
  BY <1>3, <1>4 DEF EditRecord
<1> HIDE DEF w
<1>7. ChatTypeOK'
  <2>1. /\ chats' \in [Sessions -> Chat!Rows \cup {Absent}]
        /\ files' \in [Files -> Chat!FileRows \cup {Absent}]
        /\ log' \subseteq log /\ gone' \subseteq Sessions /\ settled' \subseteq Sessions
    BY <1>1, <1>2 DEF ChatTypeOK
  <2> QED BY <1>1, <1>2, <1>3, <1>6, <2>1, EditTypes
<1>8. Lifetimes'
  <2>1. DeletedStaysDeleted'
    BY <1>1, <1>2 DEF Lifetimes, DeletedStaysDeleted
  <2> QED BY <1>1, <1>2, <1>6, <2>1 DEF Lifetimes, Flying
<1>9. Attachments'
  <2>1. AttachmentsSurvive'
    BY <1>1, <1>2 DEF Attachments, AttachmentsSurvive
  <2> QED BY <1>1, <1>2, <1>5, <1>6, <2>1 DEF Attachments
<1>10. Knowledge'
  BY <1>1, <1>2, <1>6 DEF Knowledge, KnowledgeSurvives
<1>11. Settling'
  <2>1. \A r \in Sessions : Related(r)' = Related(r)
    BY <1>2 DEF Related, MessageFiles
  <2>2. MoveCarriesFiles'
    BY <1>1, <1>2, <2>1 DEF Settling, MoveCarriesFiles, ChatTypeOK
  <2> QED BY <1>1, <1>2, <1>6, <2>2 DEF Settling, Flying
<1>12. Titles'
  <2> SUFFICES ASSUME RequireTitle PROVE Titles'
    BY DEF Titles
  <2>1. TitledBeforeMessages'
    BY <1>1, <1>2 DEF Titles, TitledBeforeMessages
  <2> QED BY <1>1, <1>2, <1>6, <2>1 DEF Titles, Titled, Flying
<1>13. Answers' /\ Costs'
  BY <1>2, EditSpares
<1> QED BY <1>7, <1>8, <1>9, <1>10, <1>11, <1>12, <1>13 DEF ChatInv

LEMMA DeleteSessionInv ==
  ASSUME ChatInv, Chat!AbsentAssumption, Chat!DeleteSession
  PROVE  ChatInv'
<1> DEFINE w == [edit EXCEPT !.pc = "files", !.related = @ \ edit.elsewhere]
<1>1. /\ ChatTypeOK /\ Lifetimes /\ Attachments /\ Knowledge /\ Settling /\ Titles
  BY DEF ChatInv
<1>0. PICK e \in Sessions : e = edit.session
  BY <1>1 DEF ChatTypeOK, Chat!DeleteSession
<1>2. /\ edit.pc = "delete" /\ edit' = w
      /\ chats' = [chats EXCEPT ![e] = Absent]
      /\ log' = {m \in log : m.session # e}
      /\ gone' = gone \cup {e}
      /\ UNCHANGED <<files, spend, turn, dropped, overlapped, paid, peak, settled>>
  BY <1>0 DEF Chat!DeleteSession
<1>3. edit \in EditRecord
  BY <1>1 DEF ChatTypeOK, EditRecord
<1>4. w \in EditRecord /\ w.pc = "files" /\ w.session = e /\ w.related = edit.related \ edit.elsewhere
  BY <1>0, <1>3 DEF EditRecord
<1> HIDE DEF w
<1>5. /\ chats' \in [Sessions -> Chat!Rows \cup {Absent}] /\ chats'[e] = Absent
      /\ \A r \in Sessions \ {e} : chats'[r] = chats[r]
  BY <1>1, <1>2 DEF ChatTypeOK
<1>6. ChatTypeOK'
  <2>1. /\ files' \in [Files -> Chat!FileRows \cup {Absent}]
        /\ log' \subseteq log /\ gone' \subseteq Sessions /\ settled' \subseteq Sessions
    BY <1>1, <1>2 DEF ChatTypeOK
  <2> QED BY <1>1, <1>2, <1>4, <1>5, <2>1, EditTypes
<1>7. \A m \in log : m.session \in Sessions /\ m.file \in Files \cup {Absent}
  BY <1>1 DEF ChatTypeOK
<1>8. \A t \in Turns : Flying(t)' => Flying(t) /\ turn[t].session \in overlapped
  BY <1>1, <1>2 DEF Lifetimes, Flying
<1>9. Lifetimes'
  <2>1. DeletedStaysDeleted'
    BY <1>1, <1>2, <1>5, <1>7 DEF Lifetimes, DeletedStaysDeleted, ChatTypeOK
  <2> QED BY <1>1, <1>2, <1>4, <1>5, <1>8, <2>1 DEF Lifetimes
<1>10. Attachments'
  <2>1. AttachmentsSurvive'
    BY <1>1, <1>2, <1>5, <1>7 DEF Attachments, AttachmentsSurvive
  <2>2. Absent \notin edit'.related
    BY <1>2, <1>4 DEF Chat!AbsentAssumption, EditRecord
  <2>3. \A m \in log' :
         m.file \notin edit'.related \/ m.session \in overlapped' \/ chats'[m.session] = Absent
    BY <1>0, <1>1, <1>2, <1>4, <1>5, <1>7, <2>2 DEF Attachments
  <2> QED BY <1>1, <1>2, <1>4, <2>1, <2>3 DEF Attachments
<1>11. Knowledge'
  BY <1>1, <1>2, <1>4 DEF Knowledge, KnowledgeSurvives
<1>12. Settling'
  <2>1. \A r \in Sessions : Related(r)' \subseteq Related(r)
    BY <1>2 DEF Related, MessageFiles
  <2>2. MoveCarriesFiles'
    BY <1>1, <1>2, <1>5, <2>1 DEF Settling, MoveCarriesFiles, ChatTypeOK
  <2> QED BY <1>0, <1>1, <1>2, <1>4, <2>2 DEF Settling, Flying
<1>13. Titles'
  <2> SUFFICES ASSUME RequireTitle PROVE Titles'
    BY DEF Titles
  <2>1. TitledBeforeMessages'
    BY <1>1, <1>2, <1>5, <1>7 DEF Titles, TitledBeforeMessages
  <2>2. \A r \in Sessions : Titled(r) => Titled(r)'
    BY <1>2, <1>5 DEF Titled
  <2>3. \A t \in Turns : Flying(t)' => Titled(turn[t].session)'
    BY <1>2, <1>8 DEF Titled
  <2> QED BY <1>1, <1>2, <1>4, <1>5, <1>8, <2>1, <2>3 DEF Titles
<1>14. Answers' /\ Costs'
  BY <1>2, EditSpares
<1> QED BY <1>6, <1>9, <1>10, <1>11, <1>12, <1>13, <1>14 DEF ChatInv

LEMMA DeleteFileInv ==
  ASSUME ChatInv, NEW f \in Files, Chat!DeleteFile(f)
  PROVE  ChatInv'
<1> DEFINE w == [edit EXCEPT !.related = @ \ {f}]
<1>1. /\ ChatTypeOK /\ Lifetimes /\ Attachments /\ Knowledge /\ Settling /\ Titles
  BY DEF ChatInv
<1>2. /\ edit.pc = "files" /\ f \in edit.related /\ edit' = w
      /\ files' = [files EXCEPT ![f] = Absent]
      /\ UNCHANGED <<chats, log, spend, turn, dropped, overlapped, paid, peak, gone, settled>>
  BY DEF Chat!DeleteFile, Chat!history
<1>3. edit \in EditRecord /\ edit.session \in Sessions
  BY <1>1, <1>2 DEF ChatTypeOK, EditRecord
<1>4. w \in EditRecord /\ w.pc = "files" /\ w.session = edit.session /\ w.related = edit.related \ {f}
  BY <1>2, <1>3 DEF EditRecord
<1> HIDE DEF w
<1>5. /\ files' \in [Files -> Chat!FileRows \cup {Absent}] /\ files'[f] = Absent
      /\ \A g \in Files \ {f} : files'[g] = files[g]
  BY <1>1, <1>2 DEF ChatTypeOK
<1>6. ChatTypeOK'
  <2>1. /\ chats' \in [Sessions -> Chat!Rows \cup {Absent}]
        /\ log' \subseteq log /\ gone' \subseteq Sessions /\ settled' \subseteq Sessions
    BY <1>1, <1>2 DEF ChatTypeOK
  <2> QED BY <1>1, <1>2, <1>3, <1>4, <1>5, <2>1, EditTypes
<1>7. \A m \in log : m.session \in Sessions /\ m.file \in Files \cup {Absent}
  BY <1>1 DEF ChatTypeOK
<1>8. \A t \in Turns : Flying(t)' => Flying(t) /\ turn[t].session \in overlapped
  BY <1>1, <1>2 DEF Lifetimes, Flying
<1>9. Lifetimes'
  <2>1. DeletedStaysDeleted'
    BY <1>1, <1>2 DEF Lifetimes, DeletedStaysDeleted
  <2> QED BY <1>1, <1>2, <1>4, <1>8, <2>1 DEF Lifetimes
<1>10. Attachments'
  <2>1. AttachmentsSurvive'
    BY <1>1, <1>2, <1>5, <1>7 DEF Attachments, AttachmentsSurvive
  <2>2. \A t \in Turns : turn'[t].pc \in {"search", "user"} => turn'[t].session \in overlapped'
    BY <1>2, <1>8 DEF Flying, Turning
  <2>3. edit'.pc = "files" =>
          \A m \in log' : m.file \notin edit'.related \/ m.session \in overlapped' \/ chats'[m.session] = Absent
    BY <1>1, <1>2, <1>4 DEF Attachments
  <2> QED BY <1>2, <1>4, <2>1, <2>2, <2>3 DEF Attachments
<1>11. Knowledge'
  <2>1. f \notin Linked
    BY <1>1, <1>2 DEF Knowledge
  <2>2. \A g \in Linked : files'[g] # Absent
    BY <1>1, <1>2, <2>1 DEF Knowledge, KnowledgeSurvives, ChatTypeOK
  <2> QED BY <1>1, <1>2, <1>4, <2>2 DEF Knowledge, KnowledgeSurvives
<1>12. Settling'
  <2>1. \A r \in Sessions : Related(r)' \subseteq Related(r)
    BY <1>2, <1>5 DEF Related, MessageFiles
  <2>2. \A r \in Sessions : Related(r) \subseteq Files
    BY <1>1, RelatedType
  <2>3. MoveCarriesFiles'
    BY <1>1, <1>2, <1>5, <2>1, <2>2 DEF Settling, MoveCarriesFiles, ChatTypeOK
  <2> QED BY <1>1, <1>2, <1>4, <2>3 DEF Settling, Flying
<1>13. Titles'
  <2> SUFFICES ASSUME RequireTitle PROVE Titles'
    BY DEF Titles
  <2>1. TitledBeforeMessages'
    BY <1>1, <1>2 DEF Titles, TitledBeforeMessages
  <2> QED BY <1>1, <1>2, <1>4, <2>1 DEF Titles, Titled, Flying
<1>14. Answers' /\ Costs'
  BY <1>2, EditSpares
<1> QED BY <1>6, <1>9, <1>10, <1>11, <1>12, <1>13, <1>14 DEF ChatInv

LEMMA MoveFileInv ==
  ASSUME ChatInv, Chat!AbsentAssumption, NEW f \in Files, Chat!MoveFile(f)
  PROVE  ChatInv'
<1> DEFINE w == [edit EXCEPT !.related = @ \ {f}]
           g == IF files[f] = Absent THEN files[f] ELSE [files[f] EXCEPT !.project = edit.copy.project]
<1>1. /\ ChatTypeOK /\ Lifetimes /\ Attachments /\ Knowledge /\ Settling /\ Titles
  BY DEF ChatInv
<1>2. /\ edit.pc = "follow" /\ f \in edit.related /\ edit' = w
      /\ files' = [files EXCEPT ![f] = g]
      /\ UNCHANGED <<chats, log, spend, turn, dropped, overlapped, paid, peak, gone, settled>>
  BY DEF Chat!MoveFile, Chat!history
<1>3. edit \in EditRecord /\ edit.copy \in Chat!Rows
  BY <1>1, <1>2 DEF ChatTypeOK, EditRecord
<1>0. PICK e \in Sessions : e = edit.session
  BY <1>1, <1>2 DEF ChatTypeOK
<1>4. w \in EditRecord /\ w.pc = "follow" /\ w.session = e /\ w.copy = edit.copy /\ w.related = edit.related \ {f}
  BY <1>0, <1>2, <1>3 DEF EditRecord
<1> HIDE DEF w
<1>5. /\ g \in Chat!FileRows \cup {Absent} /\ (g = Absent <=> files[f] = Absent)
      /\ g = Absent \/ (g.project = edit.copy.project /\ g.session = files[f].session)
  <2>1. CASE files[f] = Absent
    BY <2>1
  <2>2. CASE files[f] # Absent
    <3>1. files[f] \in Chat!FileRows /\ edit.copy.project \in Projects
      BY <1>1, <1>3, <2>2 DEF ChatTypeOK, Chat!Rows
    <3>2. g \in Chat!FileRows /\ g.project = edit.copy.project /\ g.session = files[f].session
      BY <2>2, <3>1 DEF Chat!FileRows
    <3> QED BY <2>2, <3>2 DEF Chat!AbsentAssumption
  <2> QED BY <2>1, <2>2
<1> HIDE DEF g
<1>6. /\ files' \in [Files -> Chat!FileRows \cup {Absent}] /\ files'[f] = g
      /\ \A h \in Files \ {f} : files'[h] = files[h]
      /\ \A h \in Files : files'[h] = Absent <=> files[h] = Absent
  BY <1>1, <1>2, <1>5 DEF ChatTypeOK
<1>7. ChatTypeOK'
  <2>1. /\ chats' \in [Sessions -> Chat!Rows \cup {Absent}]
        /\ log' \subseteq log /\ gone' \subseteq Sessions /\ settled' \subseteq Sessions
    BY <1>1, <1>2 DEF ChatTypeOK
  <2> QED BY <1>1, <1>2, <1>3, <1>4, <1>6, <2>1, EditTypes
<1>8. \A m \in log : m.session \in Sessions /\ m.file \in Files \cup {Absent}
  BY <1>1 DEF ChatTypeOK
<1>9. Lifetimes'
  <2>1. DeletedStaysDeleted'
    BY <1>1, <1>2 DEF Lifetimes, DeletedStaysDeleted
  <2> QED BY <1>0, <1>1, <1>2, <1>4, <2>1 DEF Lifetimes, Flying
<1>10. Attachments'
  <2>1. AttachmentsSurvive'
    BY <1>1, <1>2, <1>6, <1>8 DEF Attachments, AttachmentsSurvive
  <2>2. \A t \in Turns : turn[t].file \in Files \cup {Absent}
    BY <1>1 DEF ChatTypeOK
  <2> QED BY <1>1, <1>2, <1>4, <1>6, <2>1, <2>2 DEF Attachments
<1>11. Knowledge'
  <2>1. \A h \in Linked : files'[h] # Absent
    <3>1. CASE f \in Linked
      BY <1>1, <1>2, <1>5, <1>6, <3>1 DEF Knowledge, KnowledgeSurvives, ChatTypeOK
    <3>2. CASE f \notin Linked
      BY <1>1, <1>2, <3>2 DEF Knowledge, KnowledgeSurvives, ChatTypeOK
    <3> QED BY <3>1, <3>2
  <2> QED BY <1>2, <1>4, <2>1 DEF Knowledge, KnowledgeSurvives
<1>12. Settling'
  <2>1. \A r \in Sessions : Related(r)' \subseteq Related(r) /\ Related(r) \subseteq Files
    <3> TAKE r \in Sessions
    <3>1. \A h \in Files : files'[h] # Absent /\ files'[h].session = r => files[h] # Absent /\ files[h].session = r
      BY <1>5, <1>6
    <3>2. MessageFiles(r)' = MessageFiles(r)
      BY <1>2 DEF MessageFiles
    <3>3. Related(r)' \subseteq Related(r)
      BY <3>1, <3>2 DEF Related
    <3> QED BY <1>1, <3>3, RelatedType
  <2>2. ASSUME NEW r \in settled, r \notin overlapped, chats[r] # Absent
        PROVE  r \in Sessions /\ f \notin Related(r) /\ Related(r) \cap edit.related = {}
    BY <1>1, <1>2, <2>2 DEF Settling, ChatTypeOK
  <2>3. MoveCarriesFiles'
    BY <1>1, <1>2, <1>6, <2>1, <2>2 DEF Settling, MoveCarriesFiles
  <2>4. \A r \in settled' : r \in overlapped' \/ chats'[r] = Absent \/ Related(r)' \cap edit'.related = {}
    BY <1>2, <1>4, <2>1, <2>2
  <2>5. (\/ edit.session \in overlapped \/ chats[edit.session] = Absent
         \/ /\ chats[edit.session].project = edit.copy.project
            /\ \A h \in Related(edit.session) :
                 h \in edit.related \/ files[h] = Absent \/ files[h].project = edit.copy.project)'
    <3>1. \/ e \in overlapped \/ chats[e] = Absent
          \/ /\ chats[e].project = edit.copy.project
             /\ \A h \in Related(e) :
                  h \in edit.related \/ files[h] = Absent \/ files[h].project = edit.copy.project
      BY <1>0, <1>1, <1>2 DEF Settling
    <3>2. \A h \in Files : files'[h] = files[h] \/ files'[h] = Absent \/ files'[h].project = edit.copy.project
      BY <1>5, <1>6
    <3>3. \/ e \in overlapped' \/ chats'[e] = Absent
          \/ /\ chats'[e].project = edit'.copy.project
             /\ \A h \in Related(e)' :
                  h \in edit'.related \/ files'[h] = Absent \/ files'[h].project = edit'.copy.project
      BY <1>2, <1>4, <1>5, <1>6, <2>1, <3>1, <3>2
    <3> QED BY <1>2, <1>4, <3>3
  <2> QED BY <1>0, <1>1, <1>2, <1>4, <2>3, <2>4, <2>5 DEF Settling, Flying
<1>13. Titles'
  <2> SUFFICES ASSUME RequireTitle PROVE Titles'
    BY DEF Titles
  <2>1. TitledBeforeMessages'
    BY <1>1, <1>2 DEF Titles, TitledBeforeMessages
  <2> QED BY <1>1, <1>2, <1>4, <2>1 DEF Titles, Titled, Flying
<1>14. Answers' /\ Costs'
  BY <1>2, EditSpares
<1> QED BY <1>7, <1>9, <1>10, <1>11, <1>12, <1>13, <1>14 DEF ChatInv

\* A deletion or a move that is done.
LEMMA EndInv ==
  ASSUME ChatInv, Chat!EndDelete \/ Chat!EndMove
  PROVE  ChatInv'
<1>1. /\ ChatTypeOK /\ Lifetimes /\ Attachments /\ Knowledge /\ Settling /\ Titles
  BY DEF ChatInv
<1>2. /\ edit.pc \in {"files", "follow"} /\ edit.related = {} /\ edit' = Chat!NoEdit
      /\ UNCHANGED <<chats, log, files, spend, turn, dropped, overlapped, paid, peak, gone>>
      /\ settled' = settled \/ (edit.pc = "follow" /\ settled' = settled \cup {edit.session})
  BY DEF Chat!EndDelete, Chat!EndMove, Chat!store, Chat!history
<1>0. PICK e \in Sessions : e = edit.session
  BY <1>1, <1>2 DEF ChatTypeOK
<1>3. edit'.pc = "idle"
  BY <1>2 DEF Chat!NoEdit
<1>4. ChatTypeOK'
  <2>1. /\ chats' \in [Sessions -> Chat!Rows \cup {Absent}]
        /\ files' \in [Files -> Chat!FileRows \cup {Absent}]
        /\ log' \subseteq log /\ gone' \subseteq Sessions /\ settled' \subseteq Sessions
    BY <1>0, <1>1, <1>2 DEF ChatTypeOK
  <2> QED BY <1>1, <1>2, <2>1, EditTypes
<1>5. \A t \in Turns : Flying(t)' => Flying(t) /\ turn[t].session \in overlapped
  BY <1>1, <1>2 DEF Lifetimes, Flying
<1>6. Lifetimes'
  <2>1. DeletedStaysDeleted'
    BY <1>1, <1>2 DEF Lifetimes, DeletedStaysDeleted
  <2> QED BY <1>1, <1>2, <1>3, <1>5, <2>1 DEF Lifetimes
<1>7. Attachments'
  <2>1. AttachmentsSurvive'
    BY <1>1, <1>2 DEF Attachments, AttachmentsSurvive
  <2> QED BY <1>1, <1>2, <1>3, <2>1 DEF Attachments
<1>8. Knowledge'
  BY <1>1, <1>2, <1>3 DEF Knowledge, KnowledgeSurvives
<1>9. Settling'
  <2>1. \A r \in Sessions : Related(r)' = Related(r)
    BY <1>2 DEF Related, MessageFiles
  <2>2. MoveCarriesFiles'
    <3> SUFFICES ASSUME NEW r \in settled', r \notin overlapped, chats[r] # Absent
                 PROVE  \A f \in Related(r)' : files'[f] = Absent \/ files'[f].project = chats'[r].project
      BY <1>2 DEF MoveCarriesFiles
    <3>1. r \in Sessions
      BY <1>4 DEF ChatTypeOK
    <3>2. CASE r \in settled
      BY <1>1, <1>2, <2>1, <3>1, <3>2 DEF Settling, MoveCarriesFiles
    <3>3. CASE edit.pc = "follow" /\ r = e
      <4>1. \/ e \in overlapped \/ chats[e] = Absent
            \/ /\ chats[e].project = edit.copy.project
               /\ \A h \in Related(e) :
                    h \in edit.related \/ files[h] = Absent \/ files[h].project = edit.copy.project
        BY <1>0, <1>1, <3>3 DEF Settling
      <4> QED BY <1>2, <2>1, <3>1, <3>3, <4>1
    <3> QED BY <1>0, <1>2, <3>2, <3>3
  <2> QED BY <1>1, <1>2, <1>3, <1>5, <2>2 DEF Settling
<1>10. Titles'
  <2> SUFFICES ASSUME RequireTitle PROVE Titles'
    BY DEF Titles
  <2>1. TitledBeforeMessages'
    BY <1>1, <1>2 DEF Titles, TitledBeforeMessages
  <2> QED BY <1>1, <1>2, <1>3, <2>1 DEF Titles, Titled, Flying
<1>11. Answers' /\ Costs'
  BY <1>2, EditSpares
<1> QED BY <1>4, <1>6, <1>7, <1>8, <1>9, <1>10, <1>11 DEF ChatInv

LEMMA WriteContextInv ==
  ASSUME ChatInv, Chat!AbsentAssumption, Chat!WriteContext
  PROVE  ChatInv'
<1>1. /\ ChatTypeOK /\ Lifetimes /\ Attachments /\ Knowledge /\ Settling /\ Titles
  BY DEF ChatInv
<1>0. PICK e \in Sessions : e = edit.session
  BY <1>1 DEF ChatTypeOK, Chat!WriteContext
<1>2. /\ edit.pc = "context" /\ edit' = Chat!NoEdit /\ chats' = [chats EXCEPT ![e] = edit.copy]
      /\ UNCHANGED <<log, files, spend, turn, dropped, overlapped, paid, peak, gone, settled>>
  BY <1>0 DEF Chat!WriteContext, Chat!history
<1>3. edit'.pc = "idle"
  BY <1>2 DEF Chat!NoEdit
<1>4. edit.copy \in Chat!Rows /\ edit.copy # Absent
  BY <1>1, <1>2 DEF ChatTypeOK, Chat!AbsentAssumption
<1>5. /\ chats' \in [Sessions -> Chat!Rows \cup {Absent}] /\ chats'[e] = edit.copy
      /\ \A r \in Sessions \ {e} : chats'[r] = chats[r]
  BY <1>1, <1>2, <1>4 DEF ChatTypeOK
<1>6. ChatTypeOK'
  <2>1. /\ files' \in [Files -> Chat!FileRows \cup {Absent}]
        /\ log' \subseteq log /\ gone' \subseteq Sessions /\ settled' \subseteq Sessions
    BY <1>1, <1>2 DEF ChatTypeOK
  <2> QED BY <1>1, <1>2, <1>5, <2>1, EditTypes
<1>7. e \in gone => e \in overlapped
  BY <1>0, <1>1, <1>2 DEF Lifetimes
<1>8. chats[e] = Absent => e \in overlapped
  BY <1>1, <1>7 DEF Lifetimes
<1>9. \A m \in log : m.session \in Sessions /\ m.file \in Files \cup {Absent}
  BY <1>1 DEF ChatTypeOK
<1>10. \A t \in Turns : Flying(t)' => Flying(t) /\ turn[t].session \in overlapped
  BY <1>1, <1>2 DEF Lifetimes, Flying
<1>11. Lifetimes'
  <2>1. DeletedStaysDeleted'
    BY <1>1, <1>2, <1>5, <1>7 DEF Lifetimes, DeletedStaysDeleted, ChatTypeOK
  <2>2. \A r \in Sessions : chats'[r] = Absent => r \in gone'
    BY <1>1, <1>2, <1>4, <1>5 DEF Lifetimes
  <2> QED BY <1>1, <1>2, <1>3, <1>10, <2>1, <2>2 DEF Lifetimes
<1>12. Attachments'
  <2>1. AttachmentsSurvive'
    BY <1>1, <1>2, <1>5, <1>8, <1>9 DEF Attachments, AttachmentsSurvive
  <2> QED BY <1>1, <1>2, <1>3, <2>1 DEF Attachments
<1>13. Knowledge'
  BY <1>1, <1>2, <1>3 DEF Knowledge, KnowledgeSurvives
<1>14. Settling'
  <2>1. \A r \in Sessions : Related(r)' = Related(r)
    BY <1>2 DEF Related, MessageFiles
  <2>2. \A r \in settled : r \in Sessions /\ r # e
    BY <1>0, <1>1, <1>2 DEF Settling, ChatTypeOK
  <2>3. MoveCarriesFiles'
    BY <1>1, <1>2, <1>5, <2>1, <2>2 DEF Settling, MoveCarriesFiles
  <2> QED BY <1>1, <1>2, <1>3, <2>3 DEF Settling, Flying
<1>15. Titles'
  <2> SUFFICES ASSUME RequireTitle PROVE Titles'
    BY DEF Titles
  <2>1. edit.copy.draft \/ edit.copy.titled
    BY <1>1, <1>2 DEF Titles
  <2>2. \A m \in log : m.session = e => edit.copy.titled \/ m.session \in overlapped
    BY <1>0, <1>1, <1>2 DEF Titles
  <2>3. TitledBeforeMessages'
    BY <1>1, <1>2, <1>5, <1>9, <2>2 DEF Titles, TitledBeforeMessages
  <2>4. \A r \in Sessions : chats'[r] # Absent /\ ~chats'[r].draft => chats'[r].titled
    BY <1>1, <1>5, <2>1 DEF Titles
  <2>5. \A t \in Turns : Flying(t)' => turn'[t].copy.titled
    BY <1>1, <1>2, <1>10 DEF Titles
  <2>6. \A t \in Turns : Flying(t)' => Titled(turn[t].session)'
    BY <1>2, <1>10 DEF Titled
  <2> QED BY <1>3, <2>3, <2>4, <2>5, <2>6 DEF Titles
<1>16. Answers' /\ Costs'
  BY <1>2, EditSpares
<1> QED BY <1>6, <1>11, <1>12, <1>13, <1>14, <1>15, <1>16 DEF ChatInv

-----------------------------------------------------------------------------
(* The theorems                                                            *)
-----------------------------------------------------------------------------
LEMMA ChatInit ==
  ASSUME Chat!ChatAssumption, Chat!AbsentAssumption, Chat!Init
  PROVE  ChatInv
<1>1. /\ chats = [s \in Sessions |-> Chat!Row(Home)] /\ log = {}
      /\ files = [f \in Files |-> [project |-> Home, session |-> Absent]]
      /\ spend = 0 /\ turn = [t \in Turns |-> Chat!NoTurn] /\ edit = Chat!NoEdit
      /\ paid = 0 /\ peak = 0
      /\ dropped = {} /\ overlapped = {} /\ gone = {} /\ settled = {}
  BY DEF Chat!Init
<1>2. Chat!Row(Home) \in Chat!Rows /\ ~(~Chat!Row(Home).draft)
  BY DEF Chat!Row, Chat!Rows, Chat!ChatAssumption
<1>3. [project |-> Home, session |-> Absent] \in Chat!FileRows
  BY DEF Chat!FileRows, Chat!ChatAssumption
<1>4. /\ Chat!Row(Home) # Absent /\ [project |-> Home, session |-> Absent] # Absent
  BY <1>2, <1>3 DEF Chat!AbsentAssumption
<1>5. \A s \in Sessions : chats[s] # Absent /\ chats[s].draft
  BY <1>1, <1>2, <1>4
<1>6. \A f \in Files : files[f] # Absent
  BY <1>1, <1>4
<1>7. \A t \in Turns : turn[t].pc = "none" /\ turn[t].file = Absent
  BY <1>1 DEF Chat!NoTurn
<1>8. edit.pc = "idle"
  BY <1>1 DEF Chat!NoEdit
<1>9. ChatTypeOK
  <2>1. /\ chats \in [Sessions -> Chat!Rows \cup {Absent}]
        /\ files \in [Files -> Chat!FileRows \cup {Absent}]
    BY <1>1, <1>2, <1>3
  <2>2. Chat!NoTurn \in [pc : Turning \cup {"none", "done", "refused"},
                         session : Sessions \cup {Absent}, file : Files \cup {Absent},
                         copy : Chat!Rows \cup {Absent}, seen : Nat]
    BY DEF Chat!NoTurn
  <2>3. turn \in [Turns -> [pc : Turning \cup {"none", "done", "refused"},
                         session : Sessions \cup {Absent}, file : Files \cup {Absent},
                         copy : Chat!Rows \cup {Absent}, seen : Nat]]
    BY <1>1, <2>2
  <2>4. edit \in [pc : {"idle", "elsewhere", "delete", "files", "follow", "context"},
                  session : Sessions \cup {Absent}, copy : Chat!Rows \cup {Absent},
                  related : SUBSET Files, elsewhere : SUBSET Files]
    BY <1>1 DEF Chat!NoEdit
  <2> QED BY <1>1, <1>7, <1>8, <2>1, <2>3, <2>4 DEF ChatTypeOK
<1>10. \A t \in Turns : ~Flying(t)
  BY <1>7 DEF Flying, Turning
<1>11. Lifetimes
  BY <1>1, <1>5, <1>8, <1>10 DEF Lifetimes, DeletedStaysDeleted
<1>12. Attachments
  BY <1>1, <1>7, <1>8 DEF Attachments, AttachmentsSurvive
<1>13. Knowledge
  BY <1>6, <1>8 DEF Knowledge, KnowledgeSurvives, Chat!ChatAssumption
<1>14. Settling
  BY <1>1, <1>8, <1>10 DEF Settling, MoveCarriesFiles
<1>15. Titles
  BY <1>1, <1>5, <1>8, <1>10 DEF Titles, TitledBeforeMessages
<1>16. Answers
  BY <1>7 DEF Answers, AnsweredIsRecorded
<1>17. Costs
  <2>1. InTurn = {} /\ Calling = {}
    BY <1>7, <1>10 DEF InTurn, Calling
  <2> QED BY <1>1, <2>1, FS_EmptySet DEF Costs
<1> QED BY <1>9, <1>11, <1>12, <1>13, <1>14, <1>15, <1>16, <1>17 DEF ChatInv

LEMMA ChatNext ==
  ASSUME ChatInv, Chat!ChatAssumption, Chat!AbsentAssumption, Chat!Next
  PROVE  ChatInv'
<1>0. ChatTypeOK /\ Costs
  BY DEF ChatInv
<1>1. CASE \E t \in Turns, s \in Sessions, f \in Files \cup {Absent}, p \in Projects,
              titles \in BOOLEAN : Chat!Start(t, s, f, p, titles)
  BY <1>0, <1>1, StartKeeps, StartInv
<1>2. ASSUME NEW t \in Turns, Chat!Turn(t)
      PROVE  ChatInv'
  <2>1. TurnKeeps(t)
    BY <1>0, <1>2, EachTurnKeeps
  <2>2. ChatTypeOK'
    BY <2>1 DEF TurnKeeps
  <2> QED BY <2>1, <2>2, TurnLifetimes, TurnAttachments, TurnKnowledge, TurnSettling, TurnTitles,
             TurnAnswers, TurnCosts DEF ChatInv
<1>3. ASSUME NEW s \in Sessions, Chat!BeginDelete(s)
      PROVE  ChatInv'
  BY <1>0, <1>3, BeginDeleteKeeps, BeginInv
<1>4. ASSUME NEW s \in Sessions, Chat!ReadContext(s)
      PROVE  ChatInv'
  BY <1>0, <1>4, ReadContextKeeps, BeginInv
<1>5. ASSUME NEW s \in Sessions, NEW p \in Projects, Chat!Move(s, p)
      PROVE  ChatInv'
  BY <1>0, <1>5, MoveKeeps, BeginInv
<1>6. ASSUME Chat!Edit
      PROVE  ChatInv'
  BY <1>6, FindElsewhereInv, DeleteSessionInv, DeleteFileInv, MoveFileInv, EndInv, WriteContextInv
     DEF Chat!Edit
<1> QED BY <1>1, <1>2, <1>3, <1>4, <1>5, <1>6 DEF Chat!Next

LEMMA ChatStutter ==
  ASSUME ChatInv, UNCHANGED Chat!vars
  PROVE  ChatInv'
<1>1. UNCHANGED <<chats, log, files, spend, turn, edit, dropped, overlapped, paid, peak, gone, settled>>
  BY DEF Chat!vars
<1>2. ChatTypeOK' /\ Lifetimes' /\ Attachments' /\ Knowledge'
  BY <1>1 DEF ChatInv, ChatTypeOK, Lifetimes, Attachments, Knowledge, DeletedStaysDeleted,
              AttachmentsSurvive, KnowledgeSurvives, Flying, Chat!NoEdit
<1>3. Settling'
  BY <1>1 DEF ChatInv, Settling, MoveCarriesFiles, Related, MessageFiles, Flying
<1>4. Titles'
  BY <1>1 DEF ChatInv, Titles, TitledBeforeMessages, Titled, Flying
<1>5. Answers' /\ Costs'
  BY <1>1, EditSpares
<1> QED BY <1>2, <1>3, <1>4, <1>5 DEF ChatInv

LEMMA ChatHolds ==
  ASSUME Chat!ChatAssumption, Chat!AbsentAssumption
  PROVE  Chat!Spec => []ChatInv
<1>1. Chat!Init => ChatInv
  BY ChatInit
<1>2. ChatInv /\ [Chat!Next]_(Chat!vars) => ChatInv'
  BY ChatNext, ChatStutter
<1> QED BY <1>1, <1>2, PTL DEF Chat!Spec

\* What the budget did not see in time is what calls in flight together cost
\* above their estimate, and every answer that was not cut short is recorded.
THEOREM SpendIsAccountedHolds ==
  ASSUME Chat!ChatAssumption, Chat!AbsentAssumption
  PROVE  Chat!Spec => []SpendIsAccounted
<1>1. ChatInv => SpendIsAccounted
  <2> SUFFICES ASSUME ChatInv PROVE SpendIsAccounted
    OBVIOUS
  <2>1. ChatTypeOK /\ Answers /\ Costs
    BY DEF ChatInv
  <2>2. OverrunBounded
    <3>1. /\ MaxCost \in Nat /\ Estimate \in Nat /\ Budget \in Nat /\ paid \in Nat /\ peak \in Nat
      BY <2>1 DEF ChatTypeOK, Chat!ChatAssumption
    <3>2. Calling \subseteq InTurn
      BY DEF Calling, InTurn, Flying, Turning
    <3>3. Cardinality(Calling) \in Nat /\ Cardinality(Calling) <= peak
      <4>1. /\ IsFiniteSet(InTurn) /\ Cardinality(InTurn) \in Nat /\ Cardinality(InTurn) <= peak
        BY <2>1, FS_CardinalityType DEF Costs
      <4>2. Cardinality(Calling) \in Nat /\ Cardinality(Calling) <= Cardinality(InTurn)
        BY <3>2, <4>1, FS_Subset, FS_CardinalityType
      <4> QED BY <3>1, <4>1, <4>2
    <3> DEFINE a == Cardinality(Calling) * MaxCost
               b == peak * MaxCost
    <3>4. a \in Nat /\ b \in Nat
      <4>1. a \in Nat
        BY <3>1, <3>3, CostBound
      <4>2. peak <= peak
        BY <3>1
      <4> QED BY <3>1, <4>1, <4>2, CostBound
    <3>5. paid = 0 \/ paid + Estimate + a <= Budget + b
      BY <2>1 DEF Costs
    <3> HIDE DEF a, b
    <3>6. paid > Budget => paid + Estimate <= Budget + b
      BY <3>1, <3>4, <3>5
    <3> QED BY <3>6 DEF OverrunBounded, b
  <2> QED BY <2>1, <2>2 DEF SpendIsAccounted, Answers
<1> QED BY <1>1, ChatHolds, PTL

\* A deletion takes no file that a message of another session or a knowledge
\* base shows, leaves nothing of the session, a move carries what the session
\* shows, and where titles are required no session has messages before its title,
\* whatever requests, deletions, moves and updates come.
THEOREM SessionsKeepTogetherHolds ==
  ASSUME Chat!ChatAssumption, Chat!AbsentAssumption
  PROVE  Chat!Spec => []SessionsKeepTogether
<1>1. ChatInv => SessionsKeepTogether
  BY DEF ChatInv, SessionsKeepTogether, Lifetimes, Attachments, Knowledge, Settling, Titles,
         TitledBeforeMessages
<1> QED BY <1>1, ChatHolds, PTL
==============================================================================
