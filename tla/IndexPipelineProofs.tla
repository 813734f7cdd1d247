------------------------ MODULE IndexPipelineProofs ------------------------
(***************************************************************************)
(* What IndexPipeline promises, for every number of files, threads,        *)
(* workers, documents, requests, crashes and failures:                     *)
(*   - a deletion leaves no document of its file behind;                   *)
(*   - a completed document has the chunks of the version it says;         *)
(*   - what is indexed catches up with the file;                           *)
(*   - a file rests as failed only when its attempts are used up.          *)
(*                                                                         *)
(* The order of the argument.  Basic: what a thread's record and its       *)
(* worker's id in the queue say of each other.  For each action a lemma    *)
(* <Action>Is says what it changes; the provers never see an action again. *)
(* From those, a lemma for each piece of state says what any step          *)
(* may do to it (FileStep, DocStep, HoldStep, BusyStep, StatusStep, ...),  *)
(* and the invariants are proved from these:                               *)
(*   Deletions == Basic, who holds which documents (Own), who still works  *)
(*                on a deleted file (Departed), and what is left to delete *)
(*                (Emptying);                                              *)
(*   Searches  == Deletions, the copies of a calm file are of live rows    *)
(*                (CopiesLive), and the chunks match (CompletedHasChunks,  *)
(*                Replacing);                                              *)
(*   IInv      == Searches, a worker's copy is current unless a put is to  *)
(*                come (CopyIsCurrent), a stale document is to be indexed  *)
(*                again (StaleIsComing), a failed one to be retried        *)
(*                (FailedIsRetried).                                       *)
(***************************************************************************)
EXTENDS IndexPipeline, WellFoundedInduction, NaturalsInduction, SequenceTheorems, TLAPS

-----------------------------------------------------------------------------
(***************************************************************************)
(* The order of the documents                                              *)
(***************************************************************************)
\* In the order q, d does not come after e.
Before(q, d, e) == \E i, j \in DOMAIN q : i <= j /\ q[i] = d /\ q[j] = e

LEMMA LastExists ==
  ASSUME NEW T, NEW q \in Seq(T), NEW S, S # {}, S \subseteq ToSet(q)
  PROVE  \E d \in S : \A e \in S : Before(q, e, d)
<1> DEFINE R == OpToRel(<, Nat)
           from == {n \in Nat : \E i \in DOMAIN q : q[i] \in S /\ n = Len(q) - i}
<1>1. \A x, y \in Nat : y < x => <<y, x>> \in R
  BY DEF OpToRel
<1>2. IsWellFoundedOn(R, Nat)
  BY NatLessThanWellFounded
<1>3. from # {} /\ from \subseteq Nat
  <2>1. PICK d \in S : TRUE
    OBVIOUS
  <2>2. PICK i \in DOMAIN q : q[i] = d
    BY DEF ToSet
  <2>3. Len(q) - i \in from
    BY <2>1, <2>2
  <2> QED  BY <2>3
<1> HIDE DEF R, from
<1>4. PICK x \in from : \A y \in from : ~(<<y, x>> \in R)
  BY <1>2, <1>3, WFMin
<1>a. x \in Nat /\ \A y \in from : y \in Nat /\ ~(y < x)
  BY <1>1, <1>3, <1>4
<1>5. \A y \in from : x <= y
  BY <1>a
<1>6. PICK i \in DOMAIN q : q[i] \in S /\ x = Len(q) - i
  BY <1>4 DEF from
<1>7. ASSUME NEW e \in S PROVE \E j \in DOMAIN q : j <= i /\ q[j] = e
  <2>1. PICK j \in DOMAIN q : q[j] = e
    BY DEF ToSet
  <2>2. Len(q) - j \in from
    BY <2>1 DEF from
  <2>3. j <= i
    BY <1>5, <1>6, <2>2
  <2> QED  BY <2>1, <2>3
<1> QED  BY <1>6, <1>7 DEF Before

LEMMA PositionIs ==
  ASSUME NEW q, IsInjective(q), NEW i \in DOMAIN q
  PROVE  Position(q, q[i]) = i
BY DEF IsInjective, Position

\* The last of some documents is one of them, and no other comes after it.
LEMMA LatestIs ==
  ASSUME NEW T, NEW q \in Seq(T), IsInjective(q), NEW S, S # {}, S \subseteq ToSet(q)
  PROVE  Latest(q, S) \in S /\ \A e \in S : Before(q, e, Latest(q, S))
<1>1. PICK d \in S : \A e \in S : Before(q, e, d)
  BY LastExists
<1>2. PICK n \in DOMAIN q : q[n] = d
  BY DEF ToSet
<1>3. \A j \in DOMAIN q : q[j] \in S => j <= n
  BY <1>1, <1>2 DEF Before, IsInjective
<1> DEFINE i == CHOOSE i \in DOMAIN q : q[i] \in S /\ \A j \in DOMAIN q : q[j] \in S => j <= i
<1>4. i \in DOMAIN q /\ q[i] \in S /\ \A j \in DOMAIN q : q[j] \in S => j <= i
  BY <1>2, <1>3
<1>5. Latest(q, S) = q[i]
  BY DEF Latest
<1> HIDE DEF i
<1>6. \A e \in S : \E j \in DOMAIN q : q[j] = e
  BY DEF ToSet
<1> QED  BY <1>4, <1>5, <1>6 DEF Before

\* There is only one last.
LEMMA LastIsOne ==
  ASSUME NEW T, NEW q \in Seq(T), IsInjective(q), NEW S, S \subseteq ToSet(q),
         NEW d \in S, \A e \in S : Before(q, e, d)
  PROVE  Latest(q, S) = d
<1> DEFINE l == Latest(q, S)
<1>1. l \in S /\ \A e \in S : Before(q, e, l)
  BY LatestIs
<1> HIDE DEF l
<1>2. Before(q, l, d) /\ Before(q, d, l)
  BY <1>1
<1>3. l = d
  BY <1>2 DEF Before, IsInjective
<1> QED  BY <1>3 DEF l

LEMMA RemoveAtIs ==
  ASSUME NEW T, NEW q \in Seq(T), NEW k \in DOMAIN q
  PROVE  /\ RemoveAt(q, k) \in Seq(T) /\ Len(RemoveAt(q, k)) = Len(q) - 1
         /\ \A i \in 1 .. Len(q) - 1 : RemoveAt(q, k)[i] = IF i < k THEN q[i] ELSE q[i + 1]
<1> DEFINE a == SubSeq(q, 1, k - 1)
           b == SubSeq(q, k + 1, Len(q))
<1>1. k \in 1 .. Len(q) /\ Len(q) \in Nat
  OBVIOUS
<1>2. a \in Seq(T) /\ Len(a) = k - 1 /\ \A i \in 1 .. k - 1 : a[i] = q[i]
  BY <1>1
<1>3. b \in Seq(T) /\ Len(b) = Len(q) - k /\ \A i \in 1 .. Len(q) - k : b[i] = q[i + k]
  BY <1>1
<1> HIDE DEF a, b
<1>4. a \o b \in Seq(T) /\ Len(a \o b) = Len(q) - 1
  BY <1>1, <1>2, <1>3
<1>5. ASSUME NEW i \in 1 .. Len(q) - 1 PROVE (a \o b)[i] = IF i < k THEN q[i] ELSE q[i + 1]
  <2>1. CASE i < k
    BY <1>1, <1>2, <1>3, <2>1
  <2>2. CASE i >= k
    <3>1. (a \o b)[i] = b[i - (k - 1)]
      BY <1>1, <1>2, <1>3, <2>2
    <3>2. i - (k - 1) \in 1 .. Len(q) - k /\ i - (k - 1) + k = i + 1
      BY <1>1, <2>2
    <3> QED  BY <1>3, <3>1, <3>2, <2>2
  <2>3. i < k \/ i >= k
    BY <1>1
  <2> QED  BY <2>1, <2>2, <2>3
<1> QED  BY <1>4, <1>5 DEF RemoveAt, a, b

\* A document is taken out; the others keep their order.
LEMMA WithoutIs ==
  ASSUME recent \in Seq(DocIds), IsInjective(recent), NEW d
  PROVE  /\ Without(d) \in Seq(DocIds) /\ IsInjective(Without(d))
         /\ ToSet(Without(d)) = ToSet(recent) \ {d}
         /\ \A e, g \in ToSet(Without(d)) : Before(recent, e, g) => Before(Without(d), e, g)
<1>1. CASE d \notin ToSet(recent)
  BY <1>1 DEF Without, Live
<1>2. CASE d \in ToSet(recent)
  <2> DEFINE q == RemoveAt(recent, Position(recent, d))
  <2>1. PICK k \in DOMAIN recent : recent[k] = d /\ Position(recent, d) = k
    BY <1>2, PositionIs DEF ToSet
  <2>2. /\ q \in Seq(DocIds) /\ Len(q) = Len(recent) - 1
        /\ \A i \in 1 .. Len(recent) - 1 : q[i] = IF i < k THEN recent[i] ELSE recent[i + 1]
    BY <2>1, RemoveAtIs
  <2>3. Without(d) = q
    BY <1>2 DEF Without, Live
  <2> HIDE DEF q
  <2>4. DOMAIN q = 1 .. Len(recent) - 1 /\ DOMAIN recent = 1 .. Len(recent) /\ Len(recent) \in Nat
    BY <2>2
  <2>5. IsInjective(q)
    <3>1. SUFFICES ASSUME NEW i \in DOMAIN q, NEW j \in DOMAIN q, q[i] = q[j]
                   PROVE  i = j
      BY DEF IsInjective
    <3> DEFINE at(n) == IF n < k THEN n ELSE n + 1
    <3>2. /\ at(i) \in DOMAIN recent /\ q[i] = recent[at(i)]
          /\ at(j) \in DOMAIN recent /\ q[j] = recent[at(j)]
      BY <2>1, <2>2, <2>4
    <3>3. at(i) = at(j)
      <4> HIDE DEF at
      <4> QED  BY <3>1, <3>2 DEF IsInjective
    <3> QED  BY <2>1, <2>4, <3>3
  <2>6. \A i \in DOMAIN recent : i # k =>
          \E j \in DOMAIN q : q[j] = recent[i] /\ j = IF i < k THEN i ELSE i - 1
    <3> TAKE i \in DOMAIN recent
    <3> HAVE i # k
    <3>1. CASE i < k
      <4>1. i \in DOMAIN q /\ q[i] = recent[i]
        BY <2>1, <2>2, <2>4, <3>1
      <4> QED  BY <4>1, <3>1
    <3>2. CASE i > k
      <4>1. i - 1 \in DOMAIN q /\ q[i - 1] = recent[i]
        BY <2>1, <2>2, <2>4, <3>2
      <4> QED  BY <4>1, <3>2, <2>4
    <3> QED  BY <2>4, <3>1, <3>2
  <2>7. ASSUME NEW j \in DOMAIN q PROVE q[j] \in ToSet(recent) /\ q[j] # d
    <3> DEFINE i == IF j < k THEN j ELSE j + 1
    <3>1. i \in DOMAIN recent /\ i # k /\ q[j] = recent[i]
      BY <2>1, <2>2, <2>4
    <3> HIDE DEF i
    <3> QED  BY <3>1, <2>1 DEF IsInjective, ToSet
  <2>8. ToSet(q) = ToSet(recent) \ {d}
    <3>1. ASSUME NEW e \in ToSet(recent), e # d PROVE e \in ToSet(q)
      <4>1. PICK i \in DOMAIN recent : recent[i] = e
        BY DEF ToSet
      <4> QED  BY <4>1, <2>1, <2>6, <3>1 DEF ToSet
    <3> QED  BY <3>1, <2>7 DEF ToSet
  <2>9. ASSUME NEW e \in ToSet(q), NEW g \in ToSet(q), Before(recent, e, g) PROVE Before(q, e, g)
    <3>1. e # d /\ g # d
      BY <2>8
    <3>2. PICK i, j \in DOMAIN recent : i <= j /\ recent[i] = e /\ recent[j] = g
      BY <2>9 DEF Before
    <3>3. i # k /\ j # k
      BY <3>1, <3>2, <2>1
    <3>4. PICK m \in DOMAIN q : q[m] = e /\ m = IF i < k THEN i ELSE i - 1
      BY <2>6, <3>2, <3>3
    <3>5. PICK n \in DOMAIN q : q[n] = g /\ n = IF j < k THEN j ELSE j - 1
      BY <2>6, <3>2, <3>3
    <3>6. m <= n
      BY <3>2, <3>3, <3>4, <3>5, <2>4
    <3> QED  BY <3>4, <3>5, <3>6 DEF Before
  <2> QED  BY <2>2, <2>3, <2>5, <2>8, <2>9
<1> QED  BY <1>1, <1>2

\* A document is put at the end.
LEMMA AppendIs ==
  ASSUME NEW q \in Seq(DocIds), IsInjective(q), NEW d \in DocIds, d \notin ToSet(q)
  PROVE  /\ Append(q, d) \in Seq(DocIds) /\ IsInjective(Append(q, d))
         /\ ToSet(Append(q, d)) = ToSet(q) \cup {d}
         /\ \A e, g \in ToSet(q) : Before(q, e, g) => Before(Append(q, d), e, g)
         /\ \A e \in ToSet(Append(q, d)) : Before(Append(q, d), e, d)
<1> DEFINE r == Append(q, d)
<1>1. /\ r \in Seq(DocIds) /\ Len(r) = Len(q) + 1 /\ r[Len(q) + 1] = d
      /\ \A i \in 1 .. Len(q) : r[i] = q[i]
  OBVIOUS
<1>2. DOMAIN r = 1 .. Len(q) + 1 /\ DOMAIN q = 1 .. Len(q) /\ Len(q) \in Nat
  BY <1>1
<1> HIDE DEF r
<1>3. \A i \in 1 .. Len(q) : q[i] # d
  BY <1>2 DEF ToSet
<1>4. IsInjective(r)
  BY <1>1, <1>2, <1>3 DEF IsInjective
<1>5. ToSet(r) = ToSet(q) \cup {d}
  BY <1>1, <1>2 DEF ToSet
<1>6. \A e, g : Before(q, e, g) => Before(r, e, g)
  BY <1>1, <1>2 DEF Before
<1>7. \A e \in ToSet(r) : Before(r, e, d)
  BY <1>1, <1>2 DEF Before, ToSet
<1> QED  BY <1>1, <1>4, <1>5, <1>6, <1>7 DEF r

-----------------------------------------------------------------------------
(***************************************************************************)
(* Types, and what a thread's copies say where it stands                   *)
(***************************************************************************)
\* What a thread's record may be.
Jobs == [pc : Pcs, op : Ops, file : Files \cup {NoFile}, ver : Versions,
         id : DocIds \cup {NoDoc}, doc : Document \cup {Blank},
         todo : SUBSET (DocIds \cup (Files \X Versions)), puts : SUBSET Files,
         asks : BOOLEAN]

\* The store, the queue and the counters.
Data ==
  /\ files \in [Files -> [live : BOOLEAN, ver : Versions]]
  /\ docs \in [DocIds -> Document \cup {Blank}]
  /\ recent \in Seq(DocIds) /\ IsInjective(recent)
  /\ created \in 0 .. MaxDocs
  /\ vectors \in [DocIds -> Said]
  /\ status \in [Files -> {"free", "queued"} \cup Workers]
  /\ booting \in BOOLEAN
  /\ left \in [{"requests", "crashes", "outages"} -> Nat]
  /\ left.crashes <= MaxCrashes /\ left.outages <= MaxOutages
  /\ refused \subseteq Files
  /\ failures \in [Files -> 0 .. MaxAttempts]
  /\ overlapped \subseteq Files
\* The type invariant, with the threads' records in one set.
TypeInv == Data /\ proc \in [Procs -> Jobs]

\* A worker that has its document; a request that deletes documents.
Indexing == {"running", "clear", "upsert", "complete", "fail", "decide"}
Deleting == {"delete_list", "delete", "delete_doc"}
\* The thread will write the document back from its copy.
HasCopy(j) == j.pc \in Indexing \cup {"created", "mark_save"} \/ (j.pc = "save" /\ j.id # NoDoc)

\* Where a thread is says what it does and which of its fields are set.
WellFormed(p, j) ==
  /\ j.pc = "idle" => j = Resting
  /\ j.pc \in {"write_file", "mark", "mark_save"} \cup Deleting => j.op = "request"
  /\ j.pc \in Indexing \cup {"get_file", "release"} => j.op = "index"
  /\ j.pc = "put" => j.op \in {"request", "sweep"} /\ (j.op = "sweep" => j.todo = {})
  /\ j.pc # "idle" => j.op # "none"
  /\ j.op = "index" => p \in Workers /\ j.puts = {}
  /\ j.pc \notin {"idle", "put"} => j.file \in Files
  /\ j.op = "sweep" => j.todo \subseteq Files \X Versions
  /\ j.op # "sweep" => j.todo \subseteq DocIds
  /\ HasCopy(j) => j.id \in DocIds /\ j.doc \in Document /\ j.doc.file = j.file
  /\ j.pc = "delete_doc" => j.id \in DocIds
  /\ j.pc = "created" => j.doc.status = "pending"

\* A worker has exactly the file the queue says it has.
QueueOK(st, pr) ==
  \A w \in Workers, f \in Files : st[f] = w <=> pr[w].op = "index" /\ pr[w].file = f

\* What every other argument rests on.
Basic == TypeInv /\ (\A p \in Procs : WellFormed(p, proc[p])) /\ QueueOK(status, proc)

\* Thread p becomes new and no other thread moves.
Others(p) == \A q \in Procs : q # p => proc'[q] = proc[q]
Moved(p, new) == proc'[p] = new /\ Others(p)
\* The fields of a thread's record.
Is(j, pc, op, f, v, d, rec, todo, puts) ==
  /\ j.pc = pc /\ j.op = op /\ j.file = f /\ j.ver = v
  /\ j.id = d /\ j.doc = rec /\ j.todo = todo /\ j.puts = puts
\* p goes on with what it is doing, at pc.
Goes(p, j, pc) == Is(j, pc, proc[p].op, proc[p].file, proc[p].ver, proc[p].id, proc[p].doc,
                     proc[p].todo, proc[p].puts)
IsResting(j) == Is(j, "idle", "none", NoFile, 0, NoDoc, Blank, {}, {})
IsReleasing(p, j) == Is(j, "release", "index", proc[p].file, 0, NoDoc, Blank, {}, {})

LEMMA RestingIs ==
  /\ Resting \in Jobs /\ IsResting(Resting) /\ \A p : WellFormed(p, Resting)
BY ConstantsAssumption DEF Resting, Jobs, WellFormed, Pcs, Ops, Versions, HasCopy, Indexing,
   Deleting, NoDoc, IsResting, Is

LEMMA Moves ==
  ASSUME proc \in [Procs -> Jobs], \A q \in Procs : WellFormed(q, proc[q]),
         NEW p \in Procs, NEW new \in Jobs, WellFormed(p, new), Become(p, new)
  PROVE  /\ proc' \in [Procs -> Jobs] /\ \A q \in Procs : WellFormed(q, proc'[q])
         /\ Moved(p, new)
<1>1. proc' = [proc EXCEPT ![p] = new]
  BY DEF Become
<1>2. proc' \in [Procs -> Jobs] /\ Moved(p, new)
  BY <1>1 DEF Moved, Others
<1> QED  BY <1>2 DEF Moved, Others

\* A step of one thread that leaves the queue alone.
LEMMA LocalStep ==
  ASSUME Basic, NEW p \in Procs, NEW new \in Jobs, WellFormed(p, new), Become(p, new),
         Data', UNCHANGED status,
         \/ proc[p].op = "index" /\ new.op = "index" /\ new.file = proc[p].file
         \/ proc[p].op # "index" /\ new.op # "index"
  PROVE  Basic' /\ Moved(p, new)
<1>1. /\ proc' \in [Procs -> Jobs] /\ \A q \in Procs : WellFormed(q, proc'[q])
      /\ Moved(p, new)
  BY Moves DEF Basic, TypeInv
<1>2. QueueOK(status', proc')
  BY <1>1 DEF Basic, QueueOK, Moved, Others, Procs
<1> QED  BY <1>1, <1>2 DEF Basic, TypeInv

LEMMA JobIs ==
  ASSUME Basic, NEW p \in Procs
  PROVE  proc[p] \in Jobs /\ WellFormed(p, proc[p])
BY DEF Basic, TypeInv

\* The work of p is over, or its worker is about to release the id.
LEMMA Rests ==
  ASSUME Basic, NEW p \in Procs, proc[p].op # "index", Become(p, Resting), Data', UNCHANGED status
  PROVE  Basic' /\ Others(p) /\ IsResting(proc'[p])
<1>1. Resting.op = "none"
  BY RestingIs DEF IsResting, Is
<1> QED  BY <1>1, RestingIs, LocalStep DEF Moved

LEMMA Releases ==
  ASSUME Basic, NEW p \in Procs, proc[p].op = "index", Finish(p), Data', UNCHANGED status
  PROVE  Basic' /\ Others(p) /\ IsReleasing(p, proc'[p])
<1> DEFINE new == [Resting EXCEPT !.pc = "release", !.op = "index", !.file = proc[p].file]
<1>1. proc[p] \in Jobs /\ WellFormed(p, proc[p]) /\ Resting \in Jobs /\ IsResting(Resting)
  BY JobIs, RestingIs
<1>2. new \in Jobs
  BY <1>1 DEF Jobs, Pcs, Ops
<1>3. IsReleasing(p, new)
  BY <1>1 DEF Jobs, IsReleasing, IsResting, Is
<1>4. Become(p, new)
  BY DEF Finish
<1> HIDE DEF new
<1>5. proc[p].pc # "idle" /\ p \in Workers /\ new.file \in Files
  BY <1>1, <1>3 DEF WellFormed, IsReleasing, IsResting, Is, Jobs
<1>6. WellFormed(p, new)
  BY <1>3, <1>5 DEF WellFormed, IsReleasing, Is, HasCopy, Indexing, Deleting
<1>7. new.op = "index" /\ new.file = proc[p].file
  BY <1>3 DEF IsReleasing, Is
<1>8. Basic' /\ Moved(p, new)
  BY <1>2, <1>4, <1>6, <1>7, LocalStep
<1> QED  BY <1>3, <1>8 DEF Moved

-----------------------------------------------------------------------------
(***************************************************************************)
(* The store's calls                                                       *)
(***************************************************************************)
\* d is written and becomes the newest document; the others keep their order.
Saved(d, rec) ==
  /\ docs' = [docs EXCEPT ![d] = rec]
  /\ ToSet(recent') = ToSet(recent) \cup {d}
  /\ \A e, g \in ToSet(recent) \ {d} : Before(recent, e, g) => Before(recent', e, g)
  /\ \A e \in ToSet(recent') : Before(recent', e, d)

LEMMA PutLast ==
  ASSUME Data, NEW d \in DocIds, NEW rec \in Document,
         docs' = [docs EXCEPT ![d] = rec], recent' = Append(Without(d), d)
  PROVE  /\ docs' \in [DocIds -> Document \cup {Blank}]
         /\ recent' \in Seq(DocIds) /\ IsInjective(recent')
         /\ Saved(d, rec)
<1> DEFINE q == Without(d)
<1>1. /\ q \in Seq(DocIds) /\ IsInjective(q) /\ ToSet(q) = ToSet(recent) \ {d}
      /\ \A e, g \in ToSet(q) : Before(recent, e, g) => Before(q, e, g)
  BY WithoutIs DEF Data
<1> HIDE DEF q
<1>2. /\ Append(q, d) \in Seq(DocIds) /\ IsInjective(Append(q, d))
      /\ ToSet(Append(q, d)) = ToSet(q) \cup {d}
      /\ \A e, g \in ToSet(q) : Before(q, e, g) => Before(Append(q, d), e, g)
      /\ \A e \in ToSet(Append(q, d)) : Before(Append(q, d), e, d)
  BY <1>1, AppendIs
<1>3. recent' = Append(q, d)
  BY DEF q
<1>4. docs' \in [DocIds -> Document \cup {Blank}]
  BY DEF Data
<1>5. Saved(d, rec)
  BY <1>1, <1>2, <1>3 DEF Saved
<1> QED  BY <1>2, <1>3, <1>4, <1>5

LEMMA SaveIs ==
  ASSUME Data, NEW d \in DocIds, NEW rec \in Document, SaveDoc(d, rec)
  PROVE  /\ docs' \in [DocIds -> Document \cup {Blank}]
         /\ recent' \in Seq(DocIds) /\ IsInjective(recent')
         /\ Saved(d, rec) \/ (d \notin ToSet(recent) /\ UNCHANGED <<docs, recent>>)
         /\ d \in ToSet(recent) => Saved(d, rec)
<1>1. CASE Upsert \/ Live(d)
  BY <1>1, PutLast DEF SaveDoc
<1>2. CASE ~(Upsert \/ Live(d))
  BY <1>2 DEF SaveDoc, Live, Data
<1> QED  BY <1>1, <1>2

LEMMA CreateIs ==
  ASSUME Data, NEW d \in DocIds, NEW rec \in Document, d \notin ToSet(recent),
         docs' = [docs EXCEPT ![d] = rec], recent' = Append(recent, d)
  PROVE  /\ docs' \in [DocIds -> Document \cup {Blank}]
         /\ recent' \in Seq(DocIds) /\ IsInjective(recent')
         /\ Saved(d, rec)
<1>1. Without(d) = recent
  BY DEF Without, Live
<1> QED  BY <1>1, PutLast

\* d is gone; the others keep their order.
Removed(d) ==
  /\ docs' = [docs EXCEPT ![d] = Blank]
  /\ ToSet(recent') = ToSet(recent) \ {d}
  /\ \A e, g \in ToSet(recent') : Before(recent, e, g) => Before(recent', e, g)

LEMMA RemoveIs ==
  ASSUME Data, NEW d \in DocIds, docs' = [docs EXCEPT ![d] = Blank], recent' = Without(d)
  PROVE  /\ docs' \in [DocIds -> Document \cup {Blank}]
         /\ recent' \in Seq(DocIds) /\ IsInjective(recent')
         /\ Removed(d)
<1>1. /\ Without(d) \in Seq(DocIds) /\ IsInjective(Without(d))
      /\ ToSet(Without(d)) = ToSet(recent) \ {d}
      /\ \A e, g \in ToSet(Without(d)) : Before(recent, e, g) => Before(Without(d), e, g)
  BY WithoutIs DEF Data
<1> QED  BY <1>1 DEF Removed, Data

\* The newest document of a file, and its newest pending one, are documents of
\* the file.
LEMMA NewestIs ==
  ASSUME Data, NEW f
  PROVE  /\ DocsOf(f) = {} => NewestDoc(f) = NoDoc
         /\ DocsOf(f) # {} => /\ NewestDoc(f) \in DocsOf(f)
                              /\ \A e \in DocsOf(f) : Before(recent, e, NewestDoc(f))
         /\ NewestPending(f) # NoDoc => /\ NewestPending(f) \in DocsOf(f)
                                        /\ docs[NewestPending(f)].status = "pending"
<1>1. DocsOf(f) \subseteq ToSet(recent) /\ recent \in Seq(DocIds) /\ IsInjective(recent)
  BY DEF DocsOf, Data
<1>2. DocsOf(f) # {} => /\ Latest(recent, DocsOf(f)) \in DocsOf(f)
                        /\ \A e \in DocsOf(f) : Before(recent, e, Latest(recent, DocsOf(f)))
  BY <1>1, LatestIs
<1> DEFINE pending == {d \in DocsOf(f) : docs[d].status = "pending"}
<1>3. pending \subseteq ToSet(recent) /\ pending \subseteq DocsOf(f)
  BY <1>1
<1>4. pending # {} => Latest(recent, pending) \in pending
  BY <1>1, <1>3, LatestIs
<1>5. NewestPending(f) = IF pending = {} THEN NoDoc ELSE Latest(recent, pending)
  BY DEF NewestPending
<1> QED  BY <1>2, <1>4, <1>5 DEF NewestDoc

\* A last document of the file is its newest.
LEMMA NewestWhen ==
  ASSUME Data, NEW f, NEW d \in DocsOf(f), \A e \in DocsOf(f) : Before(recent, e, d)
  PROVE  NewestDoc(f) = d
<1>1. DocsOf(f) \subseteq ToSet(recent) /\ recent \in Seq(DocIds) /\ IsInjective(recent)
  BY DEF DocsOf, Data
<1>2. Latest(recent, DocsOf(f)) = d
  BY <1>1, LastIsOne
<1> QED  BY <1>2 DEF NewestDoc

\* A live document is in the store.
LEMMA LiveIsDoc ==
  ASSUME Data
  PROVE  ToSet(recent) \subseteq DocIds
BY DEF Data, ToSet

-----------------------------------------------------------------------------
(***************************************************************************)
(* What each step does to the thread that takes it                         *)
(***************************************************************************)
\* A step that changes only the thread.
LEMMA DataKept ==
  ASSUME Data, UNCHANGED <<storeVars, vectors, status, booting, left, history>>
  PROVE  Data'
BY DEF Data, storeVars, history

LEMMA GoesFits ==
  ASSUME Basic, NEW p \in Procs, NEW pc \in Pcs
  PROVE  LET new == [proc[p] EXCEPT !.pc = pc] IN new \in Jobs /\ Goes(p, new, pc)
BY JobIs DEF Jobs, Goes, Is

\* p goes on at pc, inside the same work.
LEMMA GoesOn ==
  ASSUME Basic, NEW p \in Procs, NEW pc \in Pcs, Goto(p, pc), Data', UNCHANGED status,
         \A new : Goes(p, new, pc) => WellFormed(p, new)
  PROVE  Basic' /\ Others(p) /\ Goes(p, proc'[p], pc)
<1> DEFINE new == [proc[p] EXCEPT !.pc = pc]
<1>1. new \in Jobs /\ Goes(p, new, pc) /\ Become(p, new)
  BY GoesFits DEF Goto
<1> HIDE DEF new
<1>2. WellFormed(p, new)
  BY <1>1
<1>3. new.op = proc[p].op /\ new.file = proc[p].file
  BY <1>1 DEF Goes, Is
<1> QED  BY <1>1, <1>2, <1>3, LocalStep DEF Moved

LEMMA EnsureReadIs ==
  ASSUME Basic, NEW p \in Procs, EnsureRead(p)
  PROVE  /\ Basic' /\ Others(p)
         /\ LET d == NewestDoc(proc[p].file) IN
              /\ d \in DocIds \cup {NoDoc}
              /\ Is(proc'[p], "save", proc[p].op, proc[p].file, proc[p].ver, d,
                    IF d = NoDoc THEN Blank ELSE docs[d], proc[p].todo, proc[p].puts)
<1> DEFINE d == NewestDoc(proc[p].file)
           rec == IF d = NoDoc THEN Blank ELSE docs[d]
           new == [proc[p] EXCEPT !.pc = "save", !.id = d, !.doc = rec]
<1>1. proc[p] \in Jobs /\ WellFormed(p, proc[p]) /\ proc[p].pc = "ensure" /\ Data
  BY JobIs DEF EnsureRead, At, Basic, TypeInv
<1>2. proc[p].file \in Files
  BY <1>1 DEF WellFormed
<1>3. d # NoDoc => d \in DocsOf(proc[p].file)
  BY <1>1, NewestIs
<1>4. d # NoDoc => d \in DocIds /\ docs[d].file = proc[p].file
  BY <1>1, <1>3, LiveIsDoc DEF DocsOf
<1>5. docs \in [DocIds -> Document \cup {Blank}] /\ Blank.file = NoFile
  BY <1>1 DEF Data, Blank
<1>6. d # NoDoc => rec \in Document /\ rec.file = proc[p].file
  BY <1>2, <1>4, <1>5, ConstantsAssumption
<1>7. d \in DocIds \cup {NoDoc} /\ rec \in Document \cup {Blank}
  BY <1>4, <1>6
<1> HIDE DEF d, rec
<1>8. new \in Jobs /\ Is(new, "save", proc[p].op, proc[p].file, proc[p].ver, d, rec,
                         proc[p].todo, proc[p].puts)
  BY <1>1, <1>7 DEF Jobs, Pcs, Is
<1>9. Become(p, new)
  BY DEF EnsureRead, d, rec
<1> HIDE DEF new
<1>10. WellFormed(p, new)
  BY <1>1, <1>2, <1>6, <1>7, <1>8 DEF WellFormed, Is, HasCopy, Indexing, Deleting
<1>11. Data' /\ UNCHANGED status
  BY <1>1, DataKept DEF EnsureRead
<1>12. Basic' /\ Moved(p, new)
  BY <1>1, <1>8, <1>9, <1>10, <1>11, LocalStep DEF Is
<1> QED  BY <1>7, <1>8, <1>12 DEF Moved, d, rec

LEMMA ScopeIs ==
  ASSUME NEW p, proc[p].ver \in Versions
  PROVE  Scope(p) \in Versions /\ (proc[p].op = "index" => Scope(p) = proc[p].ver)
BY ConstantsAssumption DEF Scope, Versions

LEMMA EnsureCreateIs ==
  ASSUME Basic, NEW p \in Procs, EnsureCreate(p), \A d \in ToSet(recent) : d <= created
  PROVE  LET d == created + 1
             rec == [file |-> proc[p].file, status |-> "pending", attempts |-> 0,
                     ver |-> Scope(p), tags |-> {proc[p].ver}] IN
         /\ Basic' /\ Others(p)
         /\ d \in DocIds /\ rec \in Document /\ d \notin ToSet(recent) /\ created' = d
         /\ Saved(d, rec)
         /\ Is(proc'[p], "created", proc[p].op, proc[p].file, proc[p].ver, d, rec,
               proc[p].todo, proc[p].puts)
<1> DEFINE d == created + 1
           rec == [file |-> proc[p].file, status |-> "pending", attempts |-> 0,
                   ver |-> Scope(p), tags |-> {proc[p].ver}]
           new == [proc[p] EXCEPT !.pc = "created", !.id = d, !.doc = rec]
<1>1. proc[p] \in Jobs /\ WellFormed(p, proc[p]) /\ proc[p].pc = "save" /\ Data
  BY JobIs DEF EnsureCreate, At, Basic, TypeInv
<1>2. proc[p].file \in Files /\ proc[p].ver \in Versions
  BY <1>1 DEF WellFormed, Jobs
<1>3. d \in DocIds /\ d \in 0 .. MaxDocs /\ d \notin ToSet(recent)
  BY <1>1, ConstantsAssumption DEF EnsureCreate, Data, DocIds
<1>4. rec \in Document /\ rec.file = proc[p].file /\ rec.status = "pending"
  BY <1>2, ScopeIs DEF Document, JobStatus, MaxAttempts
<1>5. docs' = [docs EXCEPT ![d] = rec] /\ recent' = Append(recent, d) /\ created' = d
      /\ Become(p, new) /\ UNCHANGED <<files, vectors, status, booting, left, history>>
  BY DEF EnsureCreate
<1> HIDE DEF d, rec
<1>6. new \in Jobs /\ Is(new, "created", proc[p].op, proc[p].file, proc[p].ver, d, rec,
                         proc[p].todo, proc[p].puts)
  BY <1>1, <1>3, <1>4 DEF Jobs, Pcs, Is
<1> HIDE DEF new
<1>7. WellFormed(p, new)
  BY <1>1, <1>2, <1>3, <1>4, <1>6 DEF WellFormed, Is, HasCopy, Indexing, Deleting
<1>8. /\ docs' \in [DocIds -> Document \cup {Blank}]
      /\ recent' \in Seq(DocIds) /\ IsInjective(recent') /\ Saved(d, rec)
  BY <1>1, <1>3, <1>4, <1>5, CreateIs
<1>9. Data'
  BY <1>1, <1>3, <1>5, <1>8 DEF Data, history
<1>10. Basic' /\ Moved(p, new)
  BY <1>1, <1>5, <1>6, <1>7, <1>9, LocalStep DEF Is
<1> QED  BY <1>3, <1>4, <1>5, <1>6, <1>8, <1>10 DEF Moved, d, rec

\* Where AfterEnsure leaves the thread.
Ensured(p, d, rec) ==
  LET rest == proc[p].todo \ {<<proc[p].file, proc[p].ver>>}
      puts == proc[p].puts \cup {proc[p].file} IN
  \/ /\ proc[p].op = "index"
     /\ Is(proc'[p], "running", "index", proc[p].file, proc[p].ver, d, rec, proc[p].todo,
           proc[p].puts)
  \/ /\ proc[p].op = "request"
     /\ Is(proc'[p], "mark", "request", proc[p].file, 0, NoDoc, Blank, {}, {proc[p].file})
  \/ /\ proc[p].op = "sweep" /\ rest = {}
     /\ Is(proc'[p], "put", "sweep", proc[p].file, proc[p].ver, NoDoc, Blank, {}, puts)
  \/ /\ proc[p].op = "sweep"
     /\ \E n \in rest : Is(proc'[p], "ensure", "sweep", n[1], n[2], NoDoc, Blank, rest, puts)

LEMMA AfterEnsureIs ==
  ASSUME Basic, NEW p \in Procs, proc[p].pc \in {"save", "created"},
         NEW d \in DocIds, NEW rec \in Document, rec.file = proc[p].file, AfterEnsure(p, d, rec),
         Data', UNCHANGED status
  PROVE  Basic' /\ Others(p) /\ Ensured(p, d, rec)
<1>1. proc[p] \in Jobs /\ WellFormed(p, proc[p])
  BY JobIs
<1>2. proc[p].op \in {"index", "request", "sweep"} /\ proc[p].file \in Files
      /\ proc[p].puts \subseteq Files /\ proc[p].todo \subseteq DocIds \cup (Files \X Versions)
  BY <1>1 DEF WellFormed, Jobs, Ops
<1>3. CASE proc[p].op = "index"
  <2> DEFINE new == [proc[p] EXCEPT !.id = d, !.doc = rec, !.pc = "running"]
             me == [proc[p] EXCEPT !.id = d, !.doc = rec]
  <2>1. new \in Jobs /\ Is(new, "running", proc[p].op, proc[p].file, proc[p].ver, d, rec,
                           proc[p].todo, proc[p].puts)
    BY <1>1 DEF Jobs, Pcs, Is
  <2>2. Become(p, [me EXCEPT !.pc = "running"])
    BY <1>3 DEF AfterEnsure
  <2>3. [me EXCEPT !.pc = "running"] = new
    OBVIOUS
  <2> HIDE DEF new, me
  <2>4. WellFormed(p, new)
    BY <1>1, <1>2, <1>3, <2>1 DEF WellFormed, Is, HasCopy, Indexing, Deleting
  <2>5. Basic' /\ Moved(p, new)
    BY <1>3, <2>1, <2>2, <2>3, <2>4, LocalStep DEF Is
  <2> QED  BY <1>3, <2>1, <2>5 DEF Moved, Ensured
<1>4. CASE proc[p].op = "request"
  <2> DEFINE new == [Resting EXCEPT !.pc = "mark", !.op = "request", !.file = proc[p].file,
                                    !.puts = {proc[p].file}]
  <2>1. /\ new \in Jobs
        /\ Is(new, "mark", "request", proc[p].file, 0, NoDoc, Blank, {}, {proc[p].file})
    BY <1>2, RestingIs DEF Jobs, Pcs, Ops, Is, IsResting
  <2>2. Become(p, new)
    BY <1>4 DEF AfterEnsure
  <2> HIDE DEF new
  <2>3. WellFormed(p, new)
    BY <1>2, <2>1 DEF WellFormed, Is, HasCopy, Indexing, Deleting
  <2>4. Basic' /\ Moved(p, new)
    BY <1>4, <2>1, <2>2, <2>3, LocalStep DEF Is
  <2> QED  BY <1>4, <2>1, <2>4 DEF Moved, Ensured
<1>5. CASE proc[p].op = "sweep"
  <2> DEFINE rest == proc[p].todo \ {<<proc[p].file, proc[p].ver>>}
             puts == proc[p].puts \cup {proc[p].file}
             me == [proc[p] EXCEPT !.id = d, !.doc = rec]
             known == [me EXCEPT !.id = NoDoc, !.doc = Blank, !.todo = rest,
                                 !.puts = @ \cup {proc[p].file}]
  <2>0. rest \subseteq Files \X Versions /\ puts \subseteq Files
    BY <1>1, <1>2, <1>5 DEF WellFormed
  <2>1. me \in Jobs /\ me.puts = proc[p].puts /\ me.op = proc[p].op /\ me.pc = proc[p].pc
        /\ me.file = proc[p].file /\ me.ver = proc[p].ver
    BY <1>1 DEF Jobs
  <2>2. known = [me EXCEPT !.id = NoDoc, !.doc = Blank, !.todo = rest, !.puts = puts]
    BY <2>1
  <2>3. IF rest = {} THEN Become(p, [known EXCEPT !.pc = "put"])
        ELSE \E n \in rest :
               Become(p, [known EXCEPT !.pc = "ensure", !.file = n[1], !.ver = n[2]])
    BY <1>5 DEF AfterEnsure
  <2> HIDE DEF me, puts, known, rest
  <2>4. known \in Jobs
        /\ Is(known, proc[p].pc, "sweep", proc[p].file, proc[p].ver, NoDoc, Blank, rest, puts)
    BY <1>5, <2>0, <2>1, <2>2 DEF Jobs, Is
  <2>5. CASE rest = {}
    <3> DEFINE new == [known EXCEPT !.pc = "put"]
    <3>1. new \in Jobs
          /\ Is(new, "put", "sweep", proc[p].file, proc[p].ver, NoDoc, Blank, {}, puts)
      BY <2>4, <2>5 DEF Jobs, Pcs, Is
    <3>2. Become(p, new)
      BY <2>3, <2>5
    <3> HIDE DEF new
    <3>3. WellFormed(p, new)
      BY <1>2, <3>1 DEF WellFormed, Is, HasCopy, Indexing, Deleting
    <3>4. Basic' /\ Moved(p, new)
      BY <1>5, <3>1, <3>2, <3>3, LocalStep DEF Is
    <3> QED  BY <1>5, <2>5, <3>1, <3>4 DEF Moved, Ensured, rest, puts
  <2>6. CASE rest # {}
    <3>1. PICK n \in rest : Become(p, [known EXCEPT !.pc = "ensure", !.file = n[1], !.ver = n[2]])
      BY <2>3, <2>6
    <3> DEFINE new == [known EXCEPT !.pc = "ensure", !.file = n[1], !.ver = n[2]]
    <3>2. n[1] \in Files /\ n[2] \in Versions
      BY <2>0
    <3>3. new \in Jobs
          /\ Is(new, "ensure", "sweep", n[1], n[2], NoDoc, Blank, rest, puts)
      BY <2>4, <3>2 DEF Jobs, Pcs, Is
    <3>4. Become(p, new)
      BY <3>1
    <3> HIDE DEF new
    <3>5. WellFormed(p, new)
      BY <2>0, <3>2, <3>3 DEF WellFormed, Is, HasCopy, Indexing, Deleting
    <3>6. Basic' /\ Moved(p, new)
      BY <1>5, <3>3, <3>4, <3>5, LocalStep DEF Is
    <3> QED  BY <1>5, <3>3, <3>6 DEF Moved, Ensured, rest, puts
  <2> QED  BY <2>5, <2>6
<1> QED  BY <1>2, <1>3, <1>4, <1>5

\* update_document of a row, as every step but the create uses it.
Writes(d, rec) == Saved(d, rec) \/ (d \notin ToSet(recent) /\ UNCHANGED <<docs, recent>>)

LEMMA WriteIs ==
  ASSUME Data, NEW d \in DocIds, NEW rec \in Document, SaveDoc(d, rec),
         UNCHANGED <<files, created, vectors, status, booting, left, refused, overlapped>>,
         failures' \in [Files -> 0 .. MaxAttempts]
  PROVE  Data' /\ Writes(d, rec) /\ (d \in ToSet(recent) => Saved(d, rec))
<1>1. /\ docs' \in [DocIds -> Document \cup {Blank}]
      /\ recent' \in Seq(DocIds) /\ IsInjective(recent')
      /\ Writes(d, rec) /\ (d \in ToSet(recent) => Saved(d, rec))
  BY SaveIs DEF Writes
<1> QED  BY <1>1 DEF Data

LEMMA EnsureCreatedIs ==
  ASSUME Basic, NEW p \in Procs, EnsureCreated(p)
  PROVE  LET d == proc[p].id
             rec == proc[p].doc IN
         /\ Basic' /\ Others(p)
         /\ HasCopy(proc[p]) /\ d \in DocIds /\ rec \in Document
         /\ Writes(d, rec) /\ (d \in ToSet(recent) => Saved(d, rec))
         /\ Ensured(p, d, rec)
<1>1. proc[p] \in Jobs /\ WellFormed(p, proc[p]) /\ proc[p].pc = "created" /\ Data
  BY JobIs DEF EnsureCreated, At, Basic, TypeInv
<1>2. HasCopy(proc[p]) /\ proc[p].id \in DocIds /\ proc[p].doc \in Document
      /\ proc[p].doc.file = proc[p].file
  BY <1>1 DEF WellFormed, HasCopy
<1>3. /\ Data' /\ Writes(proc[p].id, proc[p].doc)
      /\ (proc[p].id \in ToSet(recent) => Saved(proc[p].id, proc[p].doc))
  BY <1>1, <1>2, WriteIs DEF EnsureCreated, history, Data
<1> QED  BY <1>1, <1>2, <1>3, AfterEnsureIs DEF EnsureCreated

LEMMA EnsureSaveIs ==
  ASSUME Basic, NEW p \in Procs, EnsureSave(p)
  PROVE  LET d == proc[p].id
             rec == [proc[p].doc EXCEPT !.status = "pending", !.ver = Scope(p),
                                       !.tags = @ \cup {proc[p].ver}] IN
         /\ Basic' /\ Others(p)
         /\ HasCopy(proc[p]) /\ d \in DocIds /\ rec \in Document
         /\ rec.file = proc[p].file /\ rec.status = "pending" /\ (proc[p].op = "index" => Carries(rec, proc[p].ver))
         /\ Writes(d, rec) /\ (d \in ToSet(recent) => Saved(d, rec))
         /\ Ensured(p, d, rec)
<1> DEFINE d == proc[p].id
           rec == [proc[p].doc EXCEPT !.status = "pending", !.ver = Scope(p),
                                       !.tags = @ \cup {proc[p].ver}]
<1>1. proc[p] \in Jobs /\ WellFormed(p, proc[p]) /\ proc[p].pc = "save" /\ d # NoDoc /\ Data
  BY JobIs DEF EnsureSave, At, Basic, TypeInv
<1>2. HasCopy(proc[p]) /\ d \in DocIds /\ proc[p].doc \in Document
      /\ proc[p].doc.file = proc[p].file /\ proc[p].ver \in Versions
  BY <1>1 DEF WellFormed, HasCopy, Jobs
<1>3. /\ rec \in Document /\ rec.file = proc[p].file /\ rec.status = "pending"
      /\ proc[p].op = "index" => Carries(rec, proc[p].ver)
  BY <1>2, ScopeIs DEF Document, JobStatus, Carries
<1>4. SaveDoc(d, rec) /\ AfterEnsure(p, d, rec)
      /\ UNCHANGED <<files, created, vectors, status, booting, left, history>>
  BY DEF EnsureSave
<1> HIDE DEF d, rec
<1>5. Data' /\ Writes(d, rec) /\ (d \in ToSet(recent) => Saved(d, rec))
  BY <1>1, <1>2, <1>3, <1>4, WriteIs DEF history, Data
<1>6. Basic' /\ Others(p) /\ Ensured(p, d, rec)
  BY <1>1, <1>2, <1>3, <1>4, <1>5, AfterEnsureIs
<1> QED  BY <1>1, <1>2, <1>3, <1>5, <1>6 DEF d, rec

LEMMA MarkReadIs ==
  ASSUME Basic, NEW p \in Procs, MarkRead(p)
  PROVE  /\ Basic' /\ Others(p)
         /\ \/ Goes(p, proc'[p], "put")
            \/ LET d == NewestPending(proc[p].file) IN
               /\ d \in DocIds /\ d \in DocsOf(proc[p].file)
               /\ Is(proc'[p], "mark_save", proc[p].op, proc[p].file, proc[p].ver, d, docs[d],
                     proc[p].todo, proc[p].puts)
<1> DEFINE d == NewestPending(proc[p].file)
           new == [proc[p] EXCEPT !.pc = "mark_save", !.id = d, !.doc = docs[d]]
<1>1. proc[p] \in Jobs /\ WellFormed(p, proc[p]) /\ proc[p].pc = "mark" /\ Data
  BY JobIs DEF MarkRead, At, Basic, TypeInv
<1>2. Data' /\ UNCHANGED status
  BY <1>1, DataKept DEF MarkRead
<1>3. CASE d = NoDoc
  <2>1. Goto(p, "put")
    BY <1>3 DEF MarkRead
  <2>2. \A j : Goes(p, j, "put") => WellFormed(p, j)
    BY <1>1 DEF WellFormed, Goes, Is, HasCopy, Indexing, Deleting
  <2>3. "put" \in Pcs
    BY DEF Pcs
  <2> QED  BY <1>2, <2>1, <2>2, <2>3, GoesOn
<1>4. CASE d # NoDoc
  <2>1. proc[p].file \in Files /\ d \in DocsOf(proc[p].file)
    BY <1>1, <1>4, NewestIs DEF WellFormed
  <2>2. d \in DocIds /\ docs[d].file = proc[p].file
    BY <1>1, <2>1, LiveIsDoc DEF DocsOf
  <2>3. docs[d] \in Document
    BY <1>1, <2>1, <2>2, ConstantsAssumption DEF Data, Blank
  <2>4. Become(p, new)
    BY <1>4 DEF MarkRead
  <2> HIDE DEF d
  <2>5. new \in Jobs /\ Is(new, "mark_save", proc[p].op, proc[p].file, proc[p].ver, d, docs[d],
                           proc[p].todo, proc[p].puts)
    BY <1>1, <2>2, <2>3 DEF Jobs, Pcs, Is
  <2> HIDE DEF new
  <2>6. WellFormed(p, new)
    BY <1>1, <2>1, <2>2, <2>3, <2>5 DEF WellFormed, Is, HasCopy, Indexing, Deleting
  <2>7. Basic' /\ Moved(p, new)
    BY <1>1, <1>2, <2>4, <2>5, <2>6, LocalStep DEF Is
  <2> QED  BY <2>1, <2>2, <2>5, <2>7 DEF Moved, d
<1> QED  BY <1>3, <1>4

LEMMA MarkSaveIs ==
  ASSUME Basic, NEW p \in Procs, MarkSave(p)
  PROVE  LET d == proc[p].id
             rec == [proc[p].doc EXCEPT !.status = "running"] IN
         /\ Basic' /\ Others(p)
         /\ HasCopy(proc[p]) /\ d \in DocIds /\ rec \in Document
         /\ rec.file = proc[p].file /\ rec.status = "running"
         /\ Writes(d, rec) /\ (d \in ToSet(recent) => Saved(d, rec))
         /\ Is(proc'[p], "put", proc[p].op, proc[p].file, proc[p].ver, NoDoc, Blank,
               proc[p].todo, proc[p].puts)
<1> DEFINE d == proc[p].id
           rec == [proc[p].doc EXCEPT !.status = "running"]
           new == [proc[p] EXCEPT !.pc = "put", !.id = NoDoc, !.doc = Blank]
<1>1. proc[p] \in Jobs /\ WellFormed(p, proc[p]) /\ proc[p].pc = "mark_save" /\ Data
  BY JobIs DEF MarkSave, At, Basic, TypeInv
<1>2. HasCopy(proc[p]) /\ d \in DocIds /\ proc[p].doc \in Document
      /\ proc[p].doc.file = proc[p].file /\ proc[p].op = "request"
  BY <1>1 DEF WellFormed, HasCopy
<1>3. rec \in Document /\ rec.file = proc[p].file /\ rec.status = "running"
  BY <1>2 DEF Document, JobStatus
<1>4. SaveDoc(d, rec) /\ Become(p, new)
      /\ UNCHANGED <<files, created, vectors, status, booting, left, history>>
  BY DEF MarkSave
<1> HIDE DEF d, rec
<1>5. Data' /\ Writes(d, rec) /\ (d \in ToSet(recent) => Saved(d, rec))
  BY <1>1, <1>2, <1>3, <1>4, WriteIs DEF history, Data
<1>6. new \in Jobs /\ Is(new, "put", proc[p].op, proc[p].file, proc[p].ver, NoDoc, Blank,
                         proc[p].todo, proc[p].puts)
  BY <1>1 DEF Jobs, Pcs, Is
<1> HIDE DEF new
<1>7. WellFormed(p, new)
  BY <1>1, <1>2, <1>6 DEF WellFormed, Is, HasCopy, Indexing, Deleting
<1>8. Basic' /\ Moved(p, new)
  BY <1>1, <1>2, <1>4, <1>5, <1>6, <1>7, LocalStep DEF Is
<1> QED  BY <1>2, <1>3, <1>5, <1>6, <1>8 DEF Moved, d, rec

\* A step that also moves an id in the queue.
LEMMA QueueStep ==
  ASSUME Basic, NEW p \in Procs, NEW new \in Jobs, WellFormed(p, new), Become(p, new),
         Data', NEW f \in Files, NEW st, status' = [status EXCEPT ![f] = st],
         QueueOK(status', [proc EXCEPT ![p] = new])
  PROVE  Basic' /\ proc'[p] = new /\ Others(p)
<1>1. /\ proc' \in [Procs -> Jobs] /\ \A q \in Procs : WellFormed(q, proc'[q])
      /\ Moved(p, new) /\ proc' = [proc EXCEPT ![p] = new]
  BY Moves DEF Basic, TypeInv, Become
<1> QED  BY <1>1 DEF Basic, TypeInv, Moved

\* put of one id.
PutOne(p, f) ==
  /\ \/ /\ status[f] = "free" /\ status' = [status EXCEPT ![f] = "queued"]
        /\ refused' = refused \ {f}
     \/ /\ status[f] = "queued" /\ UNCHANGED <<status, refused>>
     \/ /\ status[f] \in Workers /\ UNCHANGED status /\ refused' = refused \cup {f}
  /\ \/ proc[p].puts = {f} /\ IsResting(proc'[p])
     \/ Is(proc'[p], "put", proc[p].op, proc[p].file, proc[p].ver, proc[p].id, proc[p].doc,
           proc[p].todo, proc[p].puts \ {f})

LEMMA PutIs ==
  ASSUME Basic, NEW p \in Procs, Put(p)
  PROVE  /\ Basic' /\ Others(p)
         /\ \E f \in proc[p].puts : f \in Files /\ PutOne(p, f)
<1>1. proc[p] \in Jobs /\ WellFormed(p, proc[p]) /\ proc[p].pc = "put" /\ Data /\ TypeInv
  BY JobIs DEF Put, At, Basic, TypeInv
<1>2. PICK f \in proc[p].puts :
       /\ IF status[f] = "free"
          THEN Queue!Enqueue(f) /\ refused' = refused \ {f}
                                /\ failures' = [failures EXCEPT ![f] = 0]
          ELSE /\ refused' = IF status[f] \in Workers THEN refused \cup {f} ELSE refused
               /\ UNCHANGED <<status, failures>>
       /\ UNCHANGED overlapped
       /\ IF proc[p].puts = {f} THEN Become(p, Resting)
          ELSE Become(p, [proc[p] EXCEPT !.puts = @ \ {f}])
  BY DEF Put
<1>3. f \in Files /\ UNCHANGED <<storeVars, vectors, booting, left>>
  BY <1>1, <1>2 DEF Jobs, Put
<1>4. status[f] \in {"free", "queued"} \cup Workers
      /\ "free" \notin Workers /\ "queued" \notin Workers
  BY <1>1, <1>3, ConstantsAssumption DEF Data
<1>5. /\ \/ /\ status[f] = "free" /\ status' = [status EXCEPT ![f] = "queued"]
            /\ refused' = refused \ {f}
         \/ /\ status[f] = "queued" /\ UNCHANGED <<status, refused>>
         \/ /\ status[f] \in Workers /\ UNCHANGED status /\ refused' = refused \cup {f}
      /\ failures' \in [Files -> 0 .. MaxAttempts]
  BY <1>1, <1>2, <1>3, <1>4 DEF Queue!Enqueue, Data, MaxAttempts
<1>6. Data'
  BY <1>1, <1>2, <1>3, <1>5 DEF Data, storeVars
<1>7. proc[p].op \in {"request", "sweep"}
  BY <1>1 DEF WellFormed
<1>8. PICK new \in Jobs : /\ Become(p, new) /\ WellFormed(p, new)
                          /\ \/ proc[p].puts = {f} /\ IsResting(new)
                             \/ Is(new, "put", proc[p].op, proc[p].file, proc[p].ver, proc[p].id,
                                   proc[p].doc, proc[p].todo, proc[p].puts \ {f})
  <2>1. CASE proc[p].puts = {f}
    BY <1>2, <2>1, RestingIs
  <2>2. CASE proc[p].puts # {f}
    <3> DEFINE new == [proc[p] EXCEPT !.puts = @ \ {f}]
    <3>1. new \in Jobs
          /\ Is(new, "put", proc[p].op, proc[p].file, proc[p].ver, proc[p].id,
                proc[p].doc, proc[p].todo, proc[p].puts \ {f})
      BY <1>1 DEF Jobs, Is
    <3>2. Become(p, new)
      BY <1>2, <2>2
    <3> HIDE DEF new
    <3>3. WellFormed(p, new)
      BY <1>1, <1>7, <3>1 DEF WellFormed, Is, HasCopy, Indexing, Deleting
    <3> QED  BY <3>1, <3>2, <3>3
  <2> QED  BY <2>1, <2>2
<1>9. new.op # "index" /\ proc[p].op # "index"
  BY <1>7, <1>8 DEF Is, IsResting
<1>10. QueueOK(status', [proc EXCEPT ![p] = new])
  BY <1>1, <1>3, <1>4, <1>5, <1>9 DEF Basic, QueueOK, TypeInv, Data, Procs
<1>11. \E st : status' = [status EXCEPT ![f] = st]
  BY <1>1, <1>3, <1>5 DEF Data
<1>12. Basic' /\ proc'[p] = new /\ Others(p)
  BY <1>3, <1>6, <1>8, <1>10, <1>11, QueueStep
<1> QED  BY <1>3, <1>5, <1>8, <1>12 DEF PutOne

-----------------------------------------------------------------------------
\* A request starts on f.
Requested(p, f, pc) == Is(proc'[p], pc, "request", f, files[f].ver, NoDoc, Blank, {}, {})

LEMMA RequestFits ==
  ASSUME Basic, NEW f \in Files, NEW pc \in {"write_file", "ensure", "delete_list"}
  PROVE  /\ Request(f, pc) \in Jobs
         /\ Is(Request(f, pc), pc, "request", f, files[f].ver, NoDoc, Blank, {}, {})
         /\ \A p : WellFormed(p, Request(f, pc))
<1>1. files[f].ver \in Versions
  BY DEF Basic, TypeInv, Data
<1>2. /\ Request(f, pc) \in Jobs
      /\ Is(Request(f, pc), pc, "request", f, files[f].ver, NoDoc, Blank, {}, {})
  BY <1>1, RestingIs DEF Request, Jobs, Pcs, Ops, Is, IsResting
<1> QED  BY <1>2 DEF WellFormed, Is, HasCopy, Indexing, Deleting, NoDoc

LEMMA SweepFits ==
  ASSUME Basic, NEW versions \in SUBSET (Files \X Versions), NEW n \in versions
  PROVE  /\ Sweep(versions, n) \in Jobs
         /\ Is(Sweep(versions, n), "ensure", "sweep", n[1], n[2], NoDoc, Blank, versions, {})
         /\ \A p : WellFormed(p, Sweep(versions, n))
<1>1. n[1] \in Files /\ n[2] \in Versions
  OBVIOUS
<1>2. /\ Sweep(versions, n) \in Jobs
      /\ Is(Sweep(versions, n), "ensure", "sweep", n[1], n[2], NoDoc, Blank, versions, {})
  BY <1>1, RestingIs DEF Sweep, Jobs, Pcs, Ops, Is, IsResting
<1> QED  BY <1>1, <1>2 DEF WellFormed, Is, HasCopy, Indexing, Deleting, NoDoc

LEMMA OneLess ==
  ASSUME Data, NEW what \in {"requests", "crashes", "outages"}, Spends(what)
  PROVE  /\ left' \in [{"requests", "crashes", "outages"} -> Nat]
         /\ left'.crashes <= MaxCrashes /\ left'.outages <= MaxOutages
         /\ left' = [left EXCEPT ![what] = left[what] - 1] /\ left[what] > 0
BY ConstantsAssumption DEF Spends, Data

\* A row is written: it is there, in version v.
RowWritten(f, v) ==
  files' = [files EXCEPT ![f] = [live |-> TRUE, ver |-> v]] /\ (files[f].ver > 0 => v > 0)

LEMMA OneIsVersion == 1 \in Versions
BY ConstantsAssumption DEF Versions

LEMMA UploadIs ==
  ASSUME Basic, NEW t \in Threads, NEW f \in Files, Upload(t, f)
  PROVE  /\ Basic' /\ Others(t) /\ RowWritten(f, 1)
         /\ Is(proc'[t], "ensure", "request", f, 1, NoDoc, Blank, {}, {})
<1> DEFINE new == [Request(f, "ensure") EXCEPT !.ver = 1]
<1>1. new \in Jobs /\ Is(new, "ensure", "request", f, 1, NoDoc, Blank, {}, {})
  BY RequestFits, OneIsVersion DEF Jobs, Is
<1>2. WellFormed(t, new)
  BY <1>1 DEF WellFormed, Is, HasCopy, Indexing, Deleting, NoDoc
<1>3. proc[t] = Resting /\ Become(t, new) /\ UNCHANGED status /\ RowWritten(f, 1)
  BY DEF Upload, RowWritten
<1>4. Data'
  BY OneIsVersion DEF Upload, Basic, TypeInv, Data, history
<1>5. new.op = "request" /\ proc[t].op = "none" /\ t \in Procs
  BY <1>1, <1>3, RestingIs DEF Is, IsResting, Procs
<1>6. Basic' /\ Moved(t, new)
  BY <1>1, <1>2, <1>3, <1>4, <1>5, LocalStep
<1> QED  BY <1>1, <1>3, <1>6 DEF Moved

LEMMA CreateFileIs ==
  ASSUME Basic, NEW t \in Threads, NEW f \in Files, CreateFile(t, f)
  PROVE  Basic' /\ RowWritten(f, 1)
<1>1. Data'
  BY OneIsVersion DEF CreateFile, Basic, TypeInv, Data, history
<1> QED  BY <1>1 DEF CreateFile, RowWritten, Basic, TypeInv, QueueOK

LEMMA ImportFileIs ==
  ASSUME Basic, NEW t \in Threads, NEW f \in Files, ImportFile(t, f)
  PROVE  /\ Basic' /\ Others(t) /\ RowWritten(f, 1)
         /\ Is(proc'[t], "ensure", "sweep", f, 1, NoDoc, Blank, {<<f, 1>>}, {})
<1> DEFINE new == Sweep({<<f, 1>>}, <<f, 1>>)
<1>1. /\ new \in Jobs /\ WellFormed(t, new)
      /\ Is(new, "ensure", "sweep", f, 1, NoDoc, Blank, {<<f, 1>>}, {})
  BY SweepFits, OneIsVersion
<1>2. proc[t] = Resting /\ Become(t, new) /\ UNCHANGED status /\ RowWritten(f, 1)
  BY DEF ImportFile, RowWritten
<1>3. Data'
  BY OneIsVersion DEF ImportFile, Basic, TypeInv, Data, history
<1>4. new.op = "sweep" /\ proc[t].op = "none" /\ t \in Procs
  BY <1>1, <1>2, RestingIs DEF Is, IsResting, Procs
<1>5. Basic' /\ Moved(t, new)
  BY <1>1, <1>2, <1>3, <1>4, LocalStep
<1> QED  BY <1>1, <1>2, <1>5 DEF Moved

LEMMA ArrivingIs ==
  ASSUME Basic, NEW t \in Threads, NEW f \in Files, proc[t] = Resting,
         NEW pc \in {"write_file", "ensure", "delete_list"}, Become(t, Request(f, pc)),
         Data', UNCHANGED status
  PROVE  Basic' /\ Others(t) /\ Requested(t, f, pc)
<1>1. /\ Request(f, pc) \in Jobs /\ WellFormed(t, Request(f, pc))
      /\ Is(Request(f, pc), pc, "request", f, files[f].ver, NoDoc, Blank, {}, {})
  BY RequestFits
<1>2. proc[t].op = "none" /\ Request(f, pc).op = "request" /\ t \in Procs
  BY <1>1, RestingIs DEF Is, IsResting, Procs
<1>3. Basic' /\ Moved(t, Request(f, pc))
  BY <1>1, <1>2, LocalStep
<1> QED  BY <1>1, <1>3 DEF Moved, Requested

LEMMA UpdateFileIs ==
  ASSUME Basic, NEW t \in Threads, NEW f \in Files, UpdateFile(t, f)
  PROVE  Basic' /\ Others(t) /\ Requested(t, f, "write_file")
<1>1. Data'
  BY OneLess DEF UpdateFile, Arrives, Basic, TypeInv, Data, storeVars, history
<1> QED  BY <1>1, ArrivingIs DEF UpdateFile

LEMMA FromFileIs ==
  ASSUME Basic, NEW t \in Threads, NEW f \in Files, FromFile(t, f)
  PROVE  Basic' /\ Others(t) /\ Requested(t, f, "ensure")
<1>1. Data'
  BY OneLess DEF FromFile, Arrives, Basic, TypeInv, Data, storeVars, history
<1> DEFINE new == [Request(f, "ensure") EXCEPT !.asks = TRUE]
<1>2. new \in Jobs /\ Is(new, "ensure", "request", f, files[f].ver, NoDoc, Blank, {}, {})
  <2>1. /\ Request(f, "ensure") \in Jobs
        /\ Is(Request(f, "ensure"), "ensure", "request", f, files[f].ver, NoDoc, Blank, {}, {})
    BY RequestFits
  <2> QED  BY <2>1 DEF Jobs, Is
<1>3. proc[t] = Resting /\ Become(t, new) /\ UNCHANGED status
  BY DEF FromFile
<1> HIDE DEF new
<1>4. WellFormed(t, new)
  BY <1>2 DEF WellFormed, Is, HasCopy, Indexing, Deleting, NoDoc
<1>5. new.op = "request" /\ proc[t].op = "none" /\ t \in Procs
  BY <1>2, <1>3, RestingIs DEF Is, IsResting, Procs
<1>6. Basic' /\ Moved(t, new)
  BY <1>1, <1>2, <1>3, <1>4, <1>5, LocalStep
<1> QED  BY <1>2, <1>6 DEF Moved, Requested

LEMMA DeleteFileIs ==
  ASSUME Basic, NEW t \in Threads, NEW f \in Files, DeleteFile(t, f)
  PROVE  /\ Basic' /\ Others(t) /\ Requested(t, f, "delete_list")
         /\ files'[f].live = FALSE /\ files'[f].ver = files[f].ver
         /\ \A g \in Files : g # f => files'[g] = files[g]
         /\ overlapped' = IF Quiet(f) THEN overlapped ELSE overlapped \cup {f}
<1>1. files \in [Files -> [live : BOOLEAN, ver : Versions]]
  BY DEF Basic, TypeInv, Data
<1>2. files' = [files EXCEPT ![f].live = FALSE]
  BY DEF DeleteFile
<1>3. /\ files'[f].live = FALSE /\ files'[f].ver = files[f].ver
      /\ \A g \in Files : g # f => files'[g] = files[g]
      /\ files' \in [Files -> [live : BOOLEAN, ver : Versions]]
  BY <1>1, <1>2
<1>4. overlapped' \in {overlapped, overlapped \cup {f}}
  BY DEF DeleteFile
<1>5. left' \in [{"requests", "crashes", "outages"} -> Nat]
         /\ left'.crashes <= MaxCrashes /\ left'.outages <= MaxOutages
  BY OneLess DEF DeleteFile, Arrives, Basic, TypeInv
<1>6. Data'
  BY <1>3, <1>4, <1>5 DEF DeleteFile, Basic, TypeInv, Data
<1> QED  BY <1>3, <1>6, ArrivingIs DEF DeleteFile

LEMMA WriteFileIs ==
  ASSUME Basic, NEW t \in Threads, WriteFile(t)
  PROVE  /\ Basic' /\ Others(t)
         /\ LET f == proc[t].file IN
            /\ f \in Files
            /\ \/ \E v \in Versions : /\ RowWritten(f, v)
                                      /\ Is(proc'[t], "ensure", proc[t].op, f, v, proc[t].id,
                                            proc[t].doc, proc[t].todo, proc[t].puts)
               \/ UNCHANGED files /\ IsResting(proc'[t])
<1> DEFINE f == proc[t].file
<1>0. t \in Procs
  BY DEF Procs
<1>1. proc[t] \in Jobs /\ WellFormed(t, proc[t]) /\ proc[t].pc = "write_file" /\ Data
  BY <1>0, JobIs DEF WriteFile, At, Basic, TypeInv
<1>2. f \in Files /\ proc[t].op = "request"
  BY <1>1 DEF WellFormed
<1>3. files[f].ver \in Nat
  BY <1>1, <1>2 DEF Versions, Data
<1>4. IF Upsert \/ files[f].live
      THEN \E v \in Written(t, f) :
             /\ v <= MaxVersion
             /\ files' = [files EXCEPT ![f] = [live |-> TRUE, ver |-> v]]
             /\ Become(t, [proc[t] EXCEPT !.pc = "ensure", !.ver = v])
      ELSE Become(t, Resting) /\ UNCHANGED files
  BY DEF WriteFile
<1>5. UNCHANGED <<docs, recent, created, vectors, status, booting, left, history>>
  BY DEF WriteFile
<1> HIDE DEF f
<1>6. CASE Upsert \/ files[f].live
  <2>0. PICK v \in Written(t, f) :
             /\ v <= MaxVersion
             /\ files' = [files EXCEPT ![f] = [live |-> TRUE, ver |-> v]]
             /\ Become(t, [proc[t] EXCEPT !.pc = "ensure", !.ver = v])
    BY <1>4, <1>6
  <2> DEFINE new == [proc[t] EXCEPT !.pc = "ensure", !.ver = v]
  <2>1. v \in Versions /\ v \in Nat
    BY <1>3, <2>0, ConstantsAssumption DEF Versions, Written
  <2>2. new \in Jobs /\ Is(new, "ensure", proc[t].op, f, v, proc[t].id,
                           proc[t].doc, proc[t].todo, proc[t].puts)
    BY <1>1, <2>1 DEF Jobs, Pcs, Is, f
  <2>3. Become(t, new)
    BY <2>0
  <2> HIDE DEF new
  <2>4. WellFormed(t, new)
    BY <1>1, <1>2, <2>2 DEF WellFormed, Is, HasCopy, Indexing, Deleting
  <2>5. RowWritten(f, v)
    BY <1>3, <2>0, <2>1 DEF RowWritten, Written
  <2>6. Data'
    BY <1>1, <1>2, <1>5, <2>1, <2>5 DEF Data, RowWritten, history
  <2>7. Basic' /\ Moved(t, new)
    BY <1>0, <1>2, <1>5, <2>2, <2>3, <2>4, <2>6, LocalStep DEF Is
  <2> QED  BY <1>2, <2>1, <2>2, <2>5, <2>7 DEF Moved, f
<1>7. CASE ~(Upsert \/ files[f].live)
  <2>1. Data'
    BY <1>1, <1>4, <1>5, <1>7 DEF Data, history
  <2> QED  BY <1>0, <1>2, <1>4, <1>5, <1>7, <2>1, Rests DEF f
<1> QED  BY <1>6, <1>7

-----------------------------------------------------------------------------
LEMMA DeleteListIs ==
  ASSUME Basic, NEW t \in Procs, DeleteList(t)
  PROVE  /\ Basic' /\ Others(t)
         /\ LET found == DocsOf(proc[t].file) IN
            \/ found = {} /\ IsResting(proc'[t])
            \/ found # {} /\ Is(proc'[t], "delete", proc[t].op, proc[t].file, proc[t].ver,
                                proc[t].id, proc[t].doc, found, proc[t].puts)
<1> DEFINE found == DocsOf(proc[t].file)
           new == [proc[t] EXCEPT !.pc = "delete", !.todo = found]
<1>1. proc[t] \in Jobs /\ WellFormed(t, proc[t]) /\ proc[t].pc = "delete_list" /\ Data
  BY JobIs DEF DeleteList, At, Basic, TypeInv
<1>2. proc[t].op = "request" /\ proc[t].file \in Files
  BY <1>1 DEF WellFormed, Deleting
<1>3. Data' /\ UNCHANGED status
  BY <1>1, DataKept DEF DeleteList
<1>4. found \subseteq DocIds
  BY <1>1, LiveIsDoc DEF DocsOf
<1>5. IF found = {} THEN Become(t, Resting) ELSE Become(t, new)
  BY DEF DeleteList
<1> HIDE DEF found
<1>6. CASE found = {}
  BY <1>2, <1>3, <1>5, <1>6, Rests DEF found
<1>7. CASE found # {}
  <2>1. new \in Jobs /\ Is(new, "delete", proc[t].op, proc[t].file, proc[t].ver,
                           proc[t].id, proc[t].doc, found, proc[t].puts)
    BY <1>1, <1>4 DEF Jobs, Pcs, Is
  <2>2. Become(t, new)
    BY <1>5, <1>7
  <2> HIDE DEF new
  <2>3. WellFormed(t, new)
    BY <1>1, <1>2, <1>4, <2>1 DEF WellFormed, Is, HasCopy, Indexing, Deleting
  <2>4. Basic' /\ Moved(t, new)
    BY <1>2, <1>3, <2>1, <2>2, <2>3, LocalStep DEF Is
  <2> QED  BY <1>7, <2>1, <2>4 DEF Moved, found
<1> QED  BY <1>6, <1>7

\* The two say the same of a file, and have the same chunks.
Alike(a, b) == a.file = b.file /\ a.ver = b.ver /\ a.tags = b.tags

LEMMA AlikeChunks ==
  ASSUME NEW a, NEW b, Alike(a, b)
  PROVE  Chunks(a) = Chunks(b) /\ \A v : Carries(a, v) <=> Carries(b, v)
BY DEF Alike, Chunks, Carries

\* The chunks of d are c now.
Becomes(d, c) == vectors' = [vectors EXCEPT ![d] = c]

LEMMA ChunksAre == NoChunks \in Said /\ \A rec \in Document : Chunks(rec) \in Said
BY ConstantsAssumption DEF NoChunks, Said, Chunks, Document, Versions

LEMMA VectorsData ==
  ASSUME Data, NEW d \in DocIds, NEW c \in Said,
         Becomes(d, c) \/ UNCHANGED vectors,
         UNCHANGED <<storeVars, status, booting, left, history>>
  PROVE  Data'
BY DEF Data, Becomes, storeVars, history

LEMMA DeleteVectorsIs ==
  ASSUME Basic, NEW t \in Procs, DeleteVectors(t)
  PROVE  /\ Basic' /\ Others(t)
         /\ \E d \in proc[t].todo :
              /\ d \in DocIds
              /\ vectors' = [vectors EXCEPT ![d] = NoChunks] \/ UNCHANGED vectors
              /\ Is(proc'[t], "delete_doc", proc[t].op, proc[t].file, proc[t].ver, d,
                    proc[t].doc, proc[t].todo \ {d}, proc[t].puts)
<1>1. proc[t] \in Jobs /\ WellFormed(t, proc[t]) /\ proc[t].pc = "delete" /\ Data
  BY JobIs DEF DeleteVectors, At, Basic, TypeInv
<1>2. proc[t].op = "request" /\ proc[t].file \in Files /\ proc[t].todo \subseteq DocIds
  BY <1>1 DEF WellFormed, Deleting
<1>3. PICK d \in proc[t].todo :
       /\ vectors' = [vectors EXCEPT ![d] = NoChunks] \/ UNCHANGED vectors
       /\ Become(t, [proc[t] EXCEPT !.pc = "delete_doc", !.id = d, !.todo = @ \ {d}])
  BY DEF DeleteVectors
<1>4. d \in DocIds /\ proc[t].todo \ {d} \subseteq DocIds
  BY <1>2
<1> DEFINE new == [proc[t] EXCEPT !.pc = "delete_doc", !.id = d, !.todo = @ \ {d}]
<1>5. new \in Jobs /\ Is(new, "delete_doc", proc[t].op, proc[t].file, proc[t].ver, d,
                         proc[t].doc, proc[t].todo \ {d}, proc[t].puts)
  BY <1>1, <1>4 DEF Jobs, Pcs, Is
<1>6. Become(t, new)
  BY <1>3
<1> HIDE DEF new
<1>7. WellFormed(t, new)
  BY <1>1, <1>2, <1>4, <1>5 DEF WellFormed, Is, HasCopy, Indexing, Deleting
<1>8. Data' /\ UNCHANGED status
  <2>1. UNCHANGED <<storeVars, status, booting, left, history>>
    BY DEF DeleteVectors, storeVars, history
  <2>2. Becomes(d, NoChunks) \/ UNCHANGED vectors
    BY <1>3 DEF Becomes
  <2>3. NoChunks \in Said
    BY ChunksAre
  <2> QED  BY <1>1, <1>4, <2>1, <2>2, <2>3, VectorsData
<1>9. Basic' /\ Moved(t, new)
  BY <1>2, <1>5, <1>6, <1>7, <1>8, LocalStep DEF Is
<1> QED  BY <1>3, <1>4, <1>5, <1>9 DEF Moved

LEMMA DeleteDocIs ==
  ASSUME Basic, NEW t \in Procs, DeleteDoc(t)
  PROVE  /\ Basic' /\ Others(t) /\ proc[t].id \in DocIds /\ Removed(proc[t].id)
         /\ \/ proc[t].todo = {} /\ IsResting(proc'[t])
            \/ Is(proc'[t], "delete", proc[t].op, proc[t].file, proc[t].ver, NoDoc,
                  proc[t].doc, proc[t].todo, proc[t].puts)
<1> DEFINE new == [proc[t] EXCEPT !.pc = "delete", !.id = NoDoc]
<1>1. proc[t] \in Jobs /\ WellFormed(t, proc[t]) /\ proc[t].pc = "delete_doc" /\ Data
  BY JobIs DEF DeleteDoc, At, Basic, TypeInv
<1>2. proc[t].op = "request" /\ proc[t].file \in Files /\ proc[t].id \in DocIds
  BY <1>1 DEF WellFormed, Deleting
<1>3. IF proc[t].todo = {} THEN Become(t, Resting) ELSE Become(t, new)
  BY DEF DeleteDoc
<1>4. /\ docs' \in [DocIds -> Document \cup {Blank}]
      /\ recent' \in Seq(DocIds) /\ IsInjective(recent') /\ Removed(proc[t].id)
  BY <1>1, <1>2, RemoveIs DEF DeleteDoc
<1>5. Data' /\ UNCHANGED status
  BY <1>1, <1>4 DEF DeleteDoc, Data, history
<1>6. CASE proc[t].todo = {}
  BY <1>2, <1>3, <1>4, <1>5, <1>6, Rests
<1>7. CASE proc[t].todo # {}
  <2>1. new \in Jobs /\ Is(new, "delete", proc[t].op, proc[t].file, proc[t].ver,
                           NoDoc, proc[t].doc, proc[t].todo, proc[t].puts)
    BY <1>1 DEF Jobs, Pcs, Is
  <2>2. Become(t, new)
    BY <1>3, <1>7
  <2> HIDE DEF new
  <2>3. WellFormed(t, new)
    BY <1>1, <1>2, <2>1 DEF WellFormed, Is, HasCopy, Indexing, Deleting
  <2>4. Basic' /\ Moved(t, new)
    BY <1>2, <1>5, <2>1, <2>2, <2>3, LocalStep DEF Is
  <2> QED  BY <1>2, <1>4, <1>7, <2>1, <2>4 DEF Moved
<1> QED  BY <1>6, <1>7

-----------------------------------------------------------------------------
\* The recovery sweep puts the unfinished files.
Recovers(p) == Is(proc'[p], "put", "sweep", NoFile, 0, NoDoc, Blank, {}, Unfinished)

LEMMA RecoverIs ==
  ASSUME Basic, NEW p \in Procs, proc[p] = Resting, Recover(p), booting' \in BOOLEAN
  PROVE  Basic' /\ Others(p) /\ Recovers(p)
<1> DEFINE new == [Resting EXCEPT !.pc = "put", !.op = "sweep", !.puts = Unfinished]
<1>1. Unfinished \subseteq Files
  BY DEF Unfinished
<1>2. new \in Jobs /\ Is(new, "put", "sweep", NoFile, 0, NoDoc, Blank, {}, Unfinished)
  BY <1>1, RestingIs DEF Jobs, Pcs, Ops, Is, IsResting
<1>3. Become(p, new) /\ UNCHANGED status
  BY DEF Recover
<1> HIDE DEF new
<1>4. WellFormed(p, new)
  BY <1>2 DEF WellFormed, Is, HasCopy, Indexing, Deleting, NoDoc
<1>5. proc[p].op = "none"
  BY RestingIs DEF Is, IsResting
<1>6. Data'
  BY DEF Recover, Data, Basic, TypeInv, storeVars, history
<1>7. Basic' /\ Moved(p, new)
  BY <1>2, <1>3, <1>4, <1>5, <1>6, LocalStep DEF Is
<1> QED  BY <1>2, <1>7 DEF Moved, Recovers

LEMMA IdleRecoverIs ==
  ASSUME Basic, NEW w \in Workers, IdleRecover(w)
  PROVE  Basic' /\ Others(w) /\ Recovers(w)
BY RecoverIs DEF IdleRecover, Basic, TypeInv, Data, Procs

LEMMA BootRecoverIs ==
  ASSUME Basic, NEW t \in Threads, BootRecover(t)
  PROVE  /\ Basic'
         /\ UNCHANGED proc \/ (Others(t) /\ Recovers(t))
<1>1. CASE Unfinished = {}
  <2>1. Data' /\ UNCHANGED <<proc, status>>
    BY <1>1 DEF BootRecover, Basic, TypeInv, Data, storeVars, history
  <2> QED  BY <2>1 DEF Basic, TypeInv
<1>2. CASE Unfinished # {}
  BY <1>2, RecoverIs DEF BootRecover, Procs
<1> QED  BY <1>1, <1>2

LEMMA BackfillIs ==
  ASSUME Basic, NEW w \in Workers, Backfill(w)
  PROVE  /\ Basic' /\ Others(w)
         /\ LET versions == {<<f, files[f].ver>> : f \in Missing} IN
            \E n \in versions :
              Is(proc'[w], "ensure", "sweep", n[1], n[2], NoDoc, Blank, versions, {})
<1> DEFINE versions == {<<f, files[f].ver>> : f \in Missing}
<1>1. versions \in SUBSET (Files \X Versions)
  BY DEF Basic, TypeInv, Data, Missing
<1>2. PICK n \in versions : Become(w, Sweep(versions, n))
  BY DEF Backfill
<1> HIDE DEF versions
<1>3. /\ Sweep(versions, n) \in Jobs /\ WellFormed(w, Sweep(versions, n))
      /\ Is(Sweep(versions, n), "ensure", "sweep", n[1], n[2], NoDoc, Blank, versions, {})
  BY <1>1, SweepFits
<1>4. proc[w].op = "none" /\ Sweep(versions, n).op = "sweep" /\ w \in Procs
  BY <1>3, RestingIs DEF Backfill, Is, IsResting, Procs
<1>5. Data' /\ UNCHANGED status
  BY DataKept DEF Backfill, Basic, TypeInv
<1>6. Basic' /\ Moved(w, Sweep(versions, n))
  BY <1>2, <1>3, <1>4, <1>5, LocalStep
<1> QED  BY <1>3, <1>6 DEF Moved, versions

-----------------------------------------------------------------------------
LEMMA GetIs ==
  ASSUME Basic, NEW w \in Workers, Get(w)
  PROVE  /\ Basic' /\ Others(w)
         /\ \E f \in Files : /\ status[f] = "queued" /\ status' = [status EXCEPT ![f] = w]
                             /\ Is(proc'[w], "get_file", "index", f, 0, NoDoc, Blank, {}, {})
<1>1. PICK f \in Files : Queue!Take(w, f)
                         /\ Become(w, [Resting EXCEPT !.pc = "get_file", !.op = "index", !.file = f])
  BY DEF Get
<1> DEFINE new == [Resting EXCEPT !.pc = "get_file", !.op = "index", !.file = f]
<1>2. status[f] = "queued" /\ status' = [status EXCEPT ![f] = w]
      /\ \A g \in Files : status[g] # w
  BY <1>1 DEF Queue!Take, Queue!Held
<1>3. new \in Jobs /\ Is(new, "get_file", "index", f, 0, NoDoc, Blank, {}, {})
  BY RestingIs DEF Jobs, Pcs, Ops, Is, IsResting
<1>4. Become(w, new)
  BY <1>1
<1> HIDE DEF new
<1>5. WellFormed(w, new)
  BY <1>3 DEF WellFormed, Is, HasCopy, Indexing, Deleting, NoDoc
<1>6. w \in Procs /\ Data /\ TypeInv /\ QueueOK(status, proc)
  BY DEF Basic, TypeInv, Procs
<1>7. Data'
  BY <1>2, <1>6 DEF Get, Data, storeVars, history
<1>8. "queued" \notin Workers
  BY ConstantsAssumption
<1>9. QueueOK(status', [proc EXCEPT ![w] = new])
  BY <1>2, <1>3, <1>6, <1>8 DEF QueueOK, TypeInv, Data, Is, Procs
<1>10. Basic' /\ proc'[w] = new /\ Others(w)
  BY <1>2, <1>3, <1>4, <1>5, <1>6, <1>7, <1>9, QueueStep
<1> QED  BY <1>2, <1>3, <1>10

LEMMA GetFileIs ==
  ASSUME Basic, NEW w \in Workers, GetFile(w)
  PROVE  /\ Basic' /\ Others(w) /\ proc[w].op = "index" /\ proc[w].file \in Files
         /\ \/ /\ files[proc[w].file].live
               /\ Is(proc'[w], "ensure", "index", proc[w].file, files[proc[w].file].ver,
                     proc[w].id, proc[w].doc, proc[w].todo, {})
            \/ ~files[proc[w].file].live /\ IsReleasing(w, proc'[w])
<1> DEFINE f == proc[w].file
           new == [proc[w] EXCEPT !.pc = "ensure", !.ver = files[f].ver]
<1>0. w \in Procs
  BY DEF Procs
<1>1. proc[w] \in Jobs /\ WellFormed(w, proc[w]) /\ proc[w].pc = "get_file" /\ Data
  BY <1>0, JobIs DEF GetFile, At, Basic, TypeInv
<1>2. proc[w].op = "index" /\ f \in Files /\ proc[w].puts = {}
  BY <1>1 DEF WellFormed
<1>3. Data' /\ UNCHANGED status
  BY <1>1, DataKept DEF GetFile
<1>4. CASE files[f].live
  <2>1. files[f].ver \in Versions
    BY <1>1, <1>2 DEF Data
  <2>2. new \in Jobs /\ Is(new, "ensure", "index", f, files[f].ver, proc[w].id, proc[w].doc,
                           proc[w].todo, {})
    BY <1>1, <1>2, <2>1 DEF Jobs, Pcs, Is
  <2>3. Become(w, new)
    BY <1>4 DEF GetFile
  <2> HIDE DEF new
  <2>4. WellFormed(w, new)
    BY <1>1, <1>2, <2>2 DEF WellFormed, Is, HasCopy, Indexing, Deleting
  <2>5. Basic' /\ Moved(w, new)
    BY <1>0, <1>2, <1>3, <2>2, <2>3, <2>4, LocalStep DEF Is
  <2> QED  BY <1>2, <1>4, <2>2, <2>5 DEF Moved
<1>5. CASE ~files[f].live
  <2>1. Finish(w)
    BY <1>5 DEF GetFile
  <2> QED  BY <1>0, <1>2, <1>3, <1>5, <2>1, Releases
<1> QED  BY <1>4, <1>5

\* A worker at pc has the copy of a document of its file.
LEMMA WorkerHas ==
  ASSUME Basic, NEW w \in Workers, proc[w].pc \in Indexing
  PROVE  /\ w \in Procs /\ Data /\ proc[w] \in Jobs /\ WellFormed(w, proc[w])
         /\ HasCopy(proc[w]) /\ proc[w].id \in DocIds /\ proc[w].doc \in Document
         /\ proc[w].doc.file = proc[w].file /\ proc[w].file \in Files
         /\ proc[w].op = "index" /\ proc[w].puts = {}
<1>1. w \in Procs /\ Data
  BY DEF Procs, Basic, TypeInv
<1>2. proc[w] \in Jobs /\ WellFormed(w, proc[w])
  BY <1>1, JobIs
<1>3. HasCopy(proc[w]) /\ proc[w].pc \notin {"idle", "put"}
  BY DEF HasCopy, Indexing
<1> QED  BY <1>1, <1>2, <1>3 DEF WellFormed

LEMMA MarkRunningIs ==
  ASSUME Basic, NEW w \in Workers, MarkRunning(w)
  PROVE  \E rec \in Document :
           /\ Basic' /\ Others(w)
           /\ rec.file = proc[w].file /\ rec.status = "running" /\ Alike(rec, proc[w].doc)
           /\ Writes(proc[w].id, rec)
           /\ (proc[w].id \in ToSet(recent) => Saved(proc[w].id, rec))
           /\ Is(proc'[w], "clear", "index", proc[w].file, proc[w].ver, proc[w].id, rec,
                 proc[w].todo, {})
<1> DEFINE n == proc[w].doc.attempts
           d == proc[w].id
           rec == [proc[w].doc EXCEPT !.status = "running",
                                      !.attempts = IF n < MaxAttempts THEN n + 1 ELSE n]
           new == [proc[w] EXCEPT !.pc = "clear", !.doc = rec]
<1>1. proc[w].pc = "running" /\ proc[w].pc \in Indexing
  BY DEF MarkRunning, At, Indexing
<1>2. /\ w \in Procs /\ Data /\ proc[w] \in Jobs /\ WellFormed(w, proc[w])
      /\ d \in DocIds /\ proc[w].doc \in Document
      /\ proc[w].doc.file = proc[w].file /\ proc[w].file \in Files
      /\ proc[w].op = "index" /\ proc[w].puts = {}
  BY <1>1, WorkerHas
<1>3. n \in 0 .. MaxAttempts /\ (IF n < MaxAttempts THEN n + 1 ELSE n) \in 0 .. MaxAttempts
  BY <1>2 DEF Document, MaxAttempts
<1>4. /\ rec \in Document /\ rec.file = proc[w].file /\ rec.status = "running"
      /\ Alike(rec, proc[w].doc)
  BY <1>2, <1>3 DEF Document, JobStatus, Alike
<1>5. SaveDoc(d, rec) /\ Become(w, new)
      /\ UNCHANGED <<files, created, vectors, status, booting, left, history>>
  BY DEF MarkRunning
<1> HIDE DEF d, rec, n
<1>6. Data' /\ Writes(d, rec) /\ (d \in ToSet(recent) => Saved(d, rec))
  BY <1>2, <1>4, <1>5, WriteIs DEF history, Data
<1>7. new \in Jobs /\ Is(new, "clear", "index", proc[w].file, proc[w].ver, proc[w].id, rec,
                         proc[w].todo, {})
  BY <1>2, <1>4 DEF Jobs, Pcs, Is
<1> HIDE DEF new
<1>8. WellFormed(w, new)
  BY <1>2, <1>4, <1>7 DEF WellFormed, Is, HasCopy, Indexing, Deleting, d
<1>9. Basic' /\ Moved(w, new)
  BY <1>2, <1>5, <1>6, <1>7, <1>8, LocalStep DEF Is
<1> QED  BY <1>4, <1>6, <1>7, <1>9 DEF Moved, d

\* A worker goes on at pc.
LEMMA WorkerGoesOn ==
  ASSUME Basic, NEW w \in Workers, proc[w].pc \in Indexing, NEW pc \in Indexing \ {"running"},
         Goto(w, pc), Data', UNCHANGED status
  PROVE  Basic' /\ Others(w) /\ Goes(w, proc'[w], pc)
<1>1. /\ w \in Procs /\ WellFormed(w, proc[w]) /\ pc \in Pcs
      /\ proc[w].id \in DocIds /\ proc[w].doc \in Document
      /\ proc[w].doc.file = proc[w].file /\ proc[w].file \in Files
      /\ proc[w].op = "index" /\ proc[w].puts = {}
  BY WorkerHas DEF Indexing, Pcs
<1>2. \A j : Goes(w, j, pc) => WellFormed(w, j)
  BY <1>1 DEF WellFormed, Goes, Is, HasCopy, Indexing, Deleting
<1> QED  BY <1>1, <1>2, GoesOn

LEMMA ClearVectorsIs ==
  ASSUME Basic, NEW w \in Workers, ClearVectors(w)
  PROVE  /\ Basic' /\ Others(w) /\ Becomes(proc[w].id, NoChunks)
         /\ \/ Goes(w, proc'[w], "upsert")
            \/ Goes(w, proc'[w], "complete") /\ Chunks(proc[w].doc) = NoChunks
<1>1. proc[w].pc \in Indexing /\ {"upsert", "complete"} \subseteq Indexing \ {"running"}
  BY DEF ClearVectors, At, Indexing
<1>2. proc[w].id \in DocIds /\ Data /\ proc[w].doc.file = proc[w].file
  BY <1>1, WorkerHas
<1>3. Becomes(proc[w].id, NoChunks) /\ NoChunks \in Said
  BY ChunksAre DEF ClearVectors, Becomes
<1>4. Data' /\ UNCHANGED status
  BY <1>2, <1>3, VectorsData DEF ClearVectors
<1>5. CASE proc[w].file \in Vectorless
  <2>1. Goto(w, "complete") /\ Chunks(proc[w].doc) = NoChunks
    BY <1>2, <1>5 DEF ClearVectors, Chunks
  <2> QED  BY <1>1, <1>3, <1>4, <2>1, WorkerGoesOn
<1>6. CASE proc[w].file \notin Vectorless
  <2>1. Goto(w, "upsert")
    BY <1>6 DEF ClearVectors
  <2> QED  BY <1>1, <1>3, <1>4, <2>1, WorkerGoesOn
<1> QED  BY <1>5, <1>6

LEMMA UpsertVectorsIs ==
  ASSUME Basic, NEW w \in Workers, UpsertVectors(w)
  PROVE  /\ Basic' /\ Others(w) /\ Becomes(proc[w].id, Chunks(proc[w].doc))
         /\ Goes(w, proc'[w], "complete")
<1>1. proc[w].pc \in Indexing /\ "complete" \in Indexing \ {"running"}
  BY DEF UpsertVectors, At, Indexing
<1>2. proc[w].id \in DocIds /\ Data /\ Chunks(proc[w].doc) \in Said
  BY <1>1, WorkerHas, ChunksAre
<1>3. Becomes(proc[w].id, Chunks(proc[w].doc))
  BY DEF UpsertVectors, Becomes
<1>4. Data' /\ UNCHANGED status
  BY <1>2, <1>3, VectorsData DEF UpsertVectors
<1> QED  BY <1>1, <1>3, <1>4, WorkerGoesOn DEF UpsertVectors

LEMMA IndexingFailsIs ==
  ASSUME Basic, NEW w \in Workers, IndexingFails(w)
  PROVE  /\ Basic' /\ Others(w)
         /\ Becomes(proc[w].id, Chunks(proc[w].doc)) \/ UNCHANGED vectors
         /\ Goes(w, proc'[w], "fail") /\ proc[w].pc \in {"clear", "upsert"}
<1>1. proc[w].pc \in Indexing /\ "fail" \in Indexing \ {"running"}
      /\ proc[w].pc \in {"clear", "upsert"}
  BY DEF IndexingFails, At, Indexing
<1>2. proc[w].id \in DocIds /\ Data /\ Chunks(proc[w].doc) \in Said
  BY <1>1, WorkerHas, ChunksAre
<1>3. Becomes(proc[w].id, Chunks(proc[w].doc)) \/ UNCHANGED vectors
  BY DEF IndexingFails, Becomes
<1>4. Data' /\ UNCHANGED status
  BY <1>2, <1>3, VectorsData DEF IndexingFails
<1> QED  BY <1>1, <1>3, <1>4, WorkerGoesOn DEF IndexingFails

LEMMA CompleteIs ==
  ASSUME Basic, NEW w \in Workers, Complete(w)
  PROVE  LET d == proc[w].id
             rec == [proc[w].doc EXCEPT !.status = "completed"] IN
         /\ Basic' /\ Others(w)
         /\ rec \in Document /\ rec.file = proc[w].file /\ rec.status = "completed"
         /\ Alike(rec, proc[w].doc)
         /\ Writes(d, rec) /\ (d \in ToSet(recent) => Saved(d, rec))
         /\ IsReleasing(w, proc'[w])
<1> DEFINE d == proc[w].id
           rec == [proc[w].doc EXCEPT !.status = "completed"]
<1>1. proc[w].pc \in Indexing
  BY DEF Complete, At, Indexing
<1>2. /\ w \in Procs /\ Data /\ d \in DocIds /\ proc[w].doc \in Document
      /\ proc[w].doc.file = proc[w].file /\ proc[w].op = "index"
  BY <1>1, WorkerHas
<1>3. /\ rec \in Document /\ rec.file = proc[w].file /\ rec.status = "completed"
      /\ Alike(rec, proc[w].doc)
  BY <1>2 DEF Document, JobStatus, Alike
<1>4. SaveDoc(d, rec) /\ Finish(w)
      /\ UNCHANGED <<files, created, vectors, status, booting, left, history>>
  BY DEF Complete
<1> HIDE DEF d, rec
<1>5. Data' /\ Writes(d, rec) /\ (d \in ToSet(recent) => Saved(d, rec))
  BY <1>2, <1>3, <1>4, WriteIs DEF history, Data
<1>6. Basic' /\ Others(w) /\ IsReleasing(w, proc'[w])
  BY <1>2, <1>4, <1>5, Releases
<1> QED  BY <1>3, <1>5, <1>6 DEF d, rec

LEMMA SaveFailedIs ==
  ASSUME Basic, NEW w \in Workers, SaveFailed(w)
  PROVE  LET d == proc[w].id
             rec == [proc[w].doc EXCEPT !.status = "failed"] IN
         /\ Basic' /\ Others(w)
         /\ rec \in Document /\ rec.file = proc[w].file /\ rec.status = "failed"
         /\ Writes(d, rec) /\ (d \in ToSet(recent) => Saved(d, rec))
         /\ Is(proc'[w], "decide", "index", proc[w].file, proc[w].ver, d, rec,
               proc[w].todo, {})
<1> DEFINE d == proc[w].id
           rec == [proc[w].doc EXCEPT !.status = "failed"]
           new == [proc[w] EXCEPT !.pc = "decide", !.doc = rec]
<1>1. proc[w].pc \in Indexing
  BY DEF SaveFailed, At, Indexing
<1>2. /\ w \in Procs /\ Data /\ proc[w] \in Jobs /\ WellFormed(w, proc[w])
      /\ d \in DocIds /\ proc[w].doc \in Document
      /\ proc[w].doc.file = proc[w].file /\ proc[w].file \in Files
      /\ proc[w].op = "index" /\ proc[w].puts = {}
  BY <1>1, WorkerHas
<1>3. rec \in Document /\ rec.file = proc[w].file /\ rec.status = "failed"
  BY <1>2 DEF Document, JobStatus
<1>4. /\ SaveDoc(d, rec) /\ Become(w, new)
      /\ UNCHANGED <<files, created, vectors, status, booting, left, refused, overlapped>>
  BY DEF SaveFailed
<1>5. failures' = [failures EXCEPT ![proc[w].file] = IF @ < MaxAttempts THEN @ + 1 ELSE @]
  BY DEF SaveFailed
<1>6. failures' \in [Files -> 0 .. MaxAttempts]
  BY <1>2, <1>5 DEF Data, MaxAttempts
<1> HIDE DEF d, rec
<1>7. Data' /\ Writes(d, rec) /\ (d \in ToSet(recent) => Saved(d, rec))
  BY <1>2, <1>3, <1>4, <1>6, WriteIs
<1>8. new \in Jobs /\ Is(new, "decide", "index", proc[w].file, proc[w].ver, d, rec,
                         proc[w].todo, {})
  BY <1>2, <1>3 DEF Jobs, Pcs, Is, d
<1> HIDE DEF new
<1>9. WellFormed(w, new)
  BY <1>2, <1>3, <1>8 DEF WellFormed, Is, HasCopy, Indexing, Deleting
<1>10. Basic' /\ Moved(w, new)
  BY <1>2, <1>4, <1>7, <1>8, <1>9, LocalStep DEF Is
<1> QED  BY <1>3, <1>7, <1>8, <1>10 DEF Moved, d, rec

\* The worker lets its id go: back to the queue, or free.
LEMMA LetsGo ==
  ASSUME Basic, NEW w \in Workers, proc[w].op = "index", proc[w].file \in Files,
         NEW place \in {"free", "queued"}, status' = [status EXCEPT ![proc[w].file] = place],
         Become(w, Resting), UNCHANGED <<storeVars, vectors, booting, left, history>>
  PROVE  Basic' /\ Others(w) /\ IsResting(proc'[w])
<1>1. w \in Procs /\ Data /\ TypeInv /\ QueueOK(status, proc)
  BY DEF Basic, TypeInv, Procs
<1>2. Data'
  BY <1>1 DEF Data, storeVars, history
<1>3. place \notin Workers /\ Resting.op = "none"
  BY ConstantsAssumption, RestingIs DEF IsResting, Is
<1>4. QueueOK(status', [proc EXCEPT ![w] = Resting])
  BY <1>1, <1>3 DEF QueueOK, TypeInv, Data, Procs
<1> QED  BY <1>1, <1>2, <1>4, RestingIs, QueueStep

LEMMA RetryIs ==
  ASSUME Basic, NEW w \in Workers, Retry(w)
  PROVE  /\ Basic' /\ Others(w) /\ IsResting(proc'[w])
         /\ proc[w].file \in Files /\ status[proc[w].file] = w
         /\ status' = [status EXCEPT ![proc[w].file] = "queued"]
<1>1. proc[w].pc \in Indexing
  BY DEF Retry, At, Indexing
<1> QED  BY <1>1, WorkerHas, LetsGo DEF Retry, Queue!Requeue

LEMMA GiveUpIs ==
  ASSUME Basic, NEW w \in Workers, GiveUp(w)
  PROVE  /\ Basic' /\ Others(w) /\ IsReleasing(w, proc'[w])
         /\ proc[w].op = "index" /\ proc[w].file \in Files
<1>1. proc[w].pc \in Indexing
  BY DEF GiveUp, At, Indexing
<1>2. Data' /\ UNCHANGED status
  BY <1>1, WorkerHas, DataKept DEF GiveUp
<1> QED  BY <1>1, <1>2, WorkerHas, Releases DEF GiveUp

LEMMA ReleaseIs ==
  ASSUME Basic, NEW w \in Workers, Release(w)
  PROVE  /\ Basic' /\ Others(w) /\ IsResting(proc'[w])
         /\ proc[w].file \in Files /\ status[proc[w].file] = w
         /\ status' = [status EXCEPT ![proc[w].file] = "free"]
<1>1. w \in Procs /\ proc[w].pc = "release"
  BY DEF Release, At, Procs
<1>2. proc[w].op = "index" /\ proc[w].file \in Files
  BY <1>1, JobIs DEF WellFormed
<1> QED  BY <1>2, LetsGo DEF Release, Queue!Release

-----------------------------------------------------------------------------
LEMMA StoreFailsIs ==
  ASSUME Basic, NEW p \in Procs, StoreFails(p)
  PROVE  /\ Basic' /\ Others(p) /\ left'.outages < MaxOutages
         /\ \/ proc[p].op = "index" /\ IsReleasing(p, proc'[p])
            \/ proc[p].op # "index" /\ IsResting(proc'[p])
<1>1. left' = [left EXCEPT !["outages"] = left["outages"] - 1] /\ left["outages"] > 0
      /\ left' \in [{"requests", "crashes", "outages"} -> Nat]
      /\ left'.crashes <= MaxCrashes /\ left'.outages <= MaxOutages
  BY OneLess DEF StoreFails, Basic, TypeInv
<1>2. left'.outages < MaxOutages
  BY <1>1, ConstantsAssumption DEF Basic, TypeInv, Data
<1>3. Data' /\ UNCHANGED status
  BY <1>1 DEF StoreFails, Basic, TypeInv, Data, storeVars, history
<1> QED  BY <1>2, <1>3, Rests, Releases DEF StoreFails

LEMMA CompleteFailsIs ==
  ASSUME Basic, NEW w \in Workers, CompleteFails(w)
  PROVE  Basic' /\ Others(w) /\ left'.outages < MaxOutages /\ Goes(w, proc'[w], "fail")
<1>1. left' = [left EXCEPT !["outages"] = left["outages"] - 1] /\ left["outages"] > 0
      /\ left' \in [{"requests", "crashes", "outages"} -> Nat]
      /\ left'.crashes <= MaxCrashes /\ left'.outages <= MaxOutages
  BY OneLess DEF CompleteFails, Basic, TypeInv
<1>2. left'.outages < MaxOutages
  BY <1>1, ConstantsAssumption DEF Basic, TypeInv, Data
<1>3. Data' /\ UNCHANGED status
  BY <1>1 DEF CompleteFails, Basic, TypeInv, Data, storeVars, history
<1>4. proc[w].pc \in Indexing /\ "fail" \in Indexing \ {"running"}
  BY DEF CompleteFails, At, Indexing
<1> QED  BY <1>2, <1>3, <1>4, WorkerGoesOn DEF CompleteFails

LEMMA CrashIs ==
  ASSUME Basic, Crash
  PROVE  /\ Basic' /\ left'.crashes < MaxCrashes
         /\ \A p \in Procs : IsResting(proc'[p])
         /\ \A f \in Files : status'[f] = "free"
<1>1. left' = [left EXCEPT !["crashes"] = left["crashes"] - 1] /\ left["crashes"] > 0
      /\ left' \in [{"requests", "crashes", "outages"} -> Nat]
      /\ left'.crashes <= MaxCrashes /\ left'.outages <= MaxOutages
  BY OneLess DEF Crash, Basic, TypeInv
<1>2. left'.crashes < MaxCrashes
  BY <1>1, ConstantsAssumption DEF Basic, TypeInv, Data
<1>3. proc' = [p \in Procs |-> Resting] /\ status' = [f \in Files |-> "free"]
  BY DEF Crash, Queue!Forget
<1>4. Data'
  BY <1>1, <1>3 DEF Crash, Basic, TypeInv, Data, storeVars, history
<1>5. proc' \in [Procs -> Jobs] /\ \A p \in Procs : proc'[p] = Resting
  BY <1>3, RestingIs
<1>6. (\A p \in Procs : WellFormed(p, proc'[p]) /\ IsResting(proc'[p])) /\ Resting.op = "none"
  BY <1>5, RestingIs DEF IsResting, Is
<1>7. QueueOK(status', proc')
  BY <1>3, <1>5, <1>6, ConstantsAssumption DEF QueueOK, Procs
<1> QED  BY <1>2, <1>3, <1>4, <1>5, <1>6, <1>7 DEF Basic, TypeInv

-----------------------------------------------------------------------------
(***************************************************************************)
(* What a step changes                                                     *)
(***************************************************************************)
LEMMA StepCases ==
  ASSUME [Next]_vars
  PROVE  \/ \E t \in Threads, f \in Files : Upload(t, f)
         \/ \E t \in Threads, f \in Files : CreateFile(t, f)
         \/ \E t \in Threads, f \in Files : ImportFile(t, f)
         \/ \E t \in Threads, f \in Files : UpdateFile(t, f)
         \/ \E t \in Threads, f \in Files : FromFile(t, f)
         \/ \E t \in Threads, f \in Files : DeleteFile(t, f)
         \/ \E t \in Threads : WriteFile(t)
         \/ \E t \in Threads : BootRecover(t)
         \/ \E p \in Procs : EnsureRead(p)
         \/ \E p \in Procs : EnsureCreate(p)
         \/ \E p \in Procs : EnsureCreated(p)
         \/ \E p \in Procs : EnsureSave(p)
         \/ \E p \in Procs : MarkRead(p)
         \/ \E p \in Procs : MarkSave(p)
         \/ \E p \in Procs : Put(p)
         \/ \E p \in Procs : DeleteList(p)
         \/ \E p \in Procs : DeleteVectors(p)
         \/ \E p \in Procs : DeleteDoc(p)
         \/ \E p \in Procs : StoreFails(p)
         \/ \E w \in Workers : IdleRecover(w)
         \/ \E w \in Workers : Backfill(w)
         \/ \E w \in Workers : Get(w)
         \/ \E w \in Workers : GetFile(w)
         \/ \E w \in Workers : MarkRunning(w)
         \/ \E w \in Workers : ClearVectors(w)
         \/ \E w \in Workers : UpsertVectors(w)
         \/ \E w \in Workers : Complete(w)
         \/ \E w \in Workers : IndexingFails(w)
         \/ \E w \in Workers : SaveFailed(w)
         \/ \E w \in Workers : Retry(w)
         \/ \E w \in Workers : GiveUp(w)
         \/ \E w \in Workers : Release(w)
         \/ \E w \in Workers : CompleteFails(w)
         \/ Crash
         \/ UNCHANGED vars
<1>1. CASE UNCHANGED vars
  BY <1>1
<1>2. CASE Next
  <2>1. \A t \in Threads : t \in Procs
    BY DEF Procs
  <2>2. \A w \in Workers : w \in Procs
    BY DEF Procs
  <2>3. ASSUME NEW t \in Threads, HandlerStep(t)
        PROVE  \/ WriteFile(t) \/ EnsureRead(t) \/ EnsureCreate(t) \/ EnsureCreated(t)
               \/ EnsureSave(t) \/ MarkRead(t) \/ MarkSave(t) \/ Put(t)
               \/ DeleteList(t) \/ DeleteVectors(t) \/ DeleteDoc(t)
    BY <2>3 DEF HandlerStep, Ensure
  <2>4. ASSUME NEW w \in Workers, WorkerStep(w)
        PROVE  \/ Get(w) \/ GetFile(w) \/ EnsureRead(w) \/ EnsureCreate(w)
               \/ EnsureCreated(w) \/ EnsureSave(w) \/ MarkRunning(w) \/ ClearVectors(w)
               \/ UpsertVectors(w) \/ Complete(w) \/ IndexingFails(w) \/ SaveFailed(w)
               \/ Retry(w) \/ GiveUp(w) \/ Release(w) \/ Put(w)
    BY <2>4 DEF WorkerStep, Ensure
  <2> QED  BY <1>2, <2>1, <2>2, <2>3, <2>4 DEF Next
<1> QED  BY <1>1, <1>2

\* A document is born from the count of all so far.
Rows == \A d \in ToSet(recent) : d <= created /\ docs[d] \in Document

\* What a step does to the row of f.
Fresh(f) == files[f].ver = 0 /\ files'[f].live /\ files'[f].ver > 0
Rewritten(f) ==
  /\ files'[f].live /\ (files[f].ver > 0 => files'[f].ver > 0)
  /\ \E t \in Threads : /\ proc[t].pc = "write_file" /\ proc[t].file = f
                         /\ proc'[t].pc = "ensure" /\ proc'[t].file = f
                         /\ proc'[t].op = "request"
Dropped(f) ==
  /\ files[f].live /\ ~files'[f].live /\ files'[f].ver = files[f].ver
  /\ overlapped' = IF Quiet(f) THEN overlapped ELSE overlapped \cup {f}
  /\ UNCHANGED <<docs, recent, vectors>>
  /\ \E t \in Threads : proc'[t].pc = "delete_list" /\ proc'[t].file = f /\ Others(t)
FileStep(f) ==
  \/ files'[f] = files[f] /\ (f \in overlapped' <=> f \in overlapped)
  \/ (Fresh(f) \/ Rewritten(f)) /\ UNCHANGED <<overlapped, docs, recent, vectors>>
  \/ Dropped(f)

LEMMA FilesStep ==
  ASSUME Basic, Rows, [Next]_vars
  PROVE  \A f \in Files : FileStep(f)
<1> files \in [Files -> [live : BOOLEAN, ver : Versions]]
  BY DEF Basic, TypeInv, Data
<1>1. ASSUME NEW t \in Threads, NEW f \in Files, Upload(t, f) PROVE \A g \in Files : FileStep(g)
  BY <1>1, UploadIs DEF Upload, FileStep, Fresh, RowWritten, history
<1>2. ASSUME NEW t \in Threads, NEW f \in Files, CreateFile(t, f) PROVE \A g \in Files : FileStep(g)
  BY <1>2, CreateFileIs DEF CreateFile, FileStep, Fresh, RowWritten, history
<1>3. ASSUME NEW t \in Threads, NEW f \in Files, ImportFile(t, f) PROVE \A g \in Files : FileStep(g)
  BY <1>3, ImportFileIs DEF ImportFile, FileStep, Fresh, RowWritten, history
<1>4. ASSUME NEW t \in Threads, NEW f \in Files, UpdateFile(t, f) PROVE \A g \in Files : FileStep(g)
  BY <1>4 DEF UpdateFile, FileStep, history, storeVars
<1>5. ASSUME NEW t \in Threads, NEW f \in Files, FromFile(t, f) PROVE \A g \in Files : FileStep(g)
  BY <1>5 DEF FromFile, FileStep, history, storeVars
<1>6. ASSUME NEW t \in Threads, NEW f \in Files, DeleteFile(t, f) PROVE \A g \in Files : FileStep(g)
  <2>1. /\ files'[f].live = FALSE /\ files'[f].ver = files[f].ver
        /\ \A g \in Files : g # f => files'[g] = files[g]
        /\ overlapped' = IF Quiet(f) THEN overlapped ELSE overlapped \cup {f}
        /\ Others(t) /\ Requested(t, f, "delete_list")
    BY <1>6, DeleteFileIs
  <2>2. files[f].live /\ UNCHANGED <<docs, recent, vectors>>
    BY <1>6 DEF DeleteFile
  <2>3. Dropped(f)
    BY <2>1, <2>2 DEF Dropped, Requested, Is
  <2>4. \A g \in Files : g # f => (g \in overlapped' <=> g \in overlapped)
    BY <2>1
  <2> QED  BY <2>1, <2>3, <2>4 DEF FileStep
<1>7. ASSUME NEW t \in Threads, WriteFile(t) PROVE \A g \in Files : FileStep(g)
  <2>1. PICK f \in Files :
          /\ proc[t].file = f
          /\ \/ \E v \in Versions : /\ RowWritten(f, v)
                                    /\ Is(proc'[t], "ensure", proc[t].op, f, v, proc[t].id,
                                          proc[t].doc, proc[t].todo, proc[t].puts)
             \/ UNCHANGED files
    BY <1>7, WriteFileIs
  <2>2. proc[t].pc = "write_file" /\ proc[t].op = "request" /\ UNCHANGED overlapped
        /\ UNCHANGED <<docs, recent, vectors>>
    BY <1>7, JobIs DEF WriteFile, At, WellFormed, Procs, history
  <2>3. CASE UNCHANGED files
    BY <2>2, <2>3 DEF FileStep
  <2>4. ASSUME NEW v \in Versions, RowWritten(f, v),
               Is(proc'[t], "ensure", proc[t].op, f, v, proc[t].id, proc[t].doc,
                  proc[t].todo, proc[t].puts)
        PROVE  \A g \in Files : FileStep(g)
    <3>1. /\ files'[f].live /\ (files[f].ver > 0 => files'[f].ver > 0)
          /\ \A g \in Files : g # f => files'[g] = files[g]
      BY <2>4 DEF RowWritten
    <3>2. Rewritten(f)
      BY <2>1, <2>2, <2>4, <3>1 DEF Rewritten, Is
    <3> QED  BY <2>2, <3>1, <3>2 DEF FileStep
  <2> QED  BY <2>1, <2>3, <2>4
<1>8. ASSUME NEW t \in Threads, BootRecover(t) PROVE \A g \in Files : FileStep(g)
  BY <1>8 DEF BootRecover, FileStep, history, storeVars, Recover
<1>9. ASSUME NEW p \in Procs, EnsureRead(p) PROVE \A g \in Files : FileStep(g)
  BY <1>9 DEF EnsureRead, FileStep, history, storeVars
<1>10. ASSUME NEW p \in Procs, EnsureCreate(p) PROVE \A g \in Files : FileStep(g)
  BY <1>10 DEF EnsureCreate, FileStep, history, storeVars
<1>11. ASSUME NEW p \in Procs, EnsureCreated(p) PROVE \A g \in Files : FileStep(g)
  BY <1>11 DEF EnsureCreated, FileStep, history, storeVars
<1>12. ASSUME NEW p \in Procs, EnsureSave(p) PROVE \A g \in Files : FileStep(g)
  BY <1>12 DEF EnsureSave, FileStep, history, storeVars
<1>13. ASSUME NEW p \in Procs, MarkRead(p) PROVE \A g \in Files : FileStep(g)
  BY <1>13 DEF MarkRead, FileStep, history, storeVars
<1>14. ASSUME NEW p \in Procs, MarkSave(p) PROVE \A g \in Files : FileStep(g)
  BY <1>14 DEF MarkSave, FileStep, history, storeVars
<1>15. ASSUME NEW p \in Procs, Put(p) PROVE \A g \in Files : FileStep(g)
  BY <1>15 DEF Put, FileStep, history, storeVars
<1>16. ASSUME NEW p \in Procs, DeleteList(p) PROVE \A g \in Files : FileStep(g)
  BY <1>16 DEF DeleteList, FileStep, history, storeVars
<1>17. ASSUME NEW p \in Procs, DeleteVectors(p) PROVE \A g \in Files : FileStep(g)
  BY <1>17 DEF DeleteVectors, FileStep, history, storeVars
<1>18. ASSUME NEW p \in Procs, DeleteDoc(p) PROVE \A g \in Files : FileStep(g)
  BY <1>18 DEF DeleteDoc, FileStep, history, storeVars
<1>19. ASSUME NEW p \in Procs, StoreFails(p) PROVE \A g \in Files : FileStep(g)
  BY <1>19 DEF StoreFails, FileStep, history, storeVars
<1>20. ASSUME NEW w \in Workers, IdleRecover(w) PROVE \A g \in Files : FileStep(g)
  BY <1>20 DEF IdleRecover, FileStep, history, storeVars, Recover
<1>21. ASSUME NEW w \in Workers, Backfill(w) PROVE \A g \in Files : FileStep(g)
  BY <1>21 DEF Backfill, FileStep, history, storeVars
<1>22. ASSUME NEW w \in Workers, Get(w) PROVE \A g \in Files : FileStep(g)
  BY <1>22 DEF Get, FileStep, history, storeVars
<1>23. ASSUME NEW w \in Workers, GetFile(w) PROVE \A g \in Files : FileStep(g)
  BY <1>23 DEF GetFile, FileStep, history, storeVars
<1>24. ASSUME NEW w \in Workers, MarkRunning(w) PROVE \A g \in Files : FileStep(g)
  BY <1>24 DEF MarkRunning, FileStep, history, storeVars
<1>25. ASSUME NEW w \in Workers, ClearVectors(w) PROVE \A g \in Files : FileStep(g)
  BY <1>25 DEF ClearVectors, FileStep, history, storeVars
<1>26. ASSUME NEW w \in Workers, UpsertVectors(w) PROVE \A g \in Files : FileStep(g)
  BY <1>26 DEF UpsertVectors, FileStep, history, storeVars
<1>27. ASSUME NEW w \in Workers, Complete(w) PROVE \A g \in Files : FileStep(g)
  BY <1>27 DEF Complete, FileStep, history, storeVars
<1>28. ASSUME NEW w \in Workers, IndexingFails(w) PROVE \A g \in Files : FileStep(g)
  BY <1>28 DEF IndexingFails, FileStep, history, storeVars
<1>29. ASSUME NEW w \in Workers, SaveFailed(w) PROVE \A g \in Files : FileStep(g)
  BY <1>29 DEF SaveFailed, FileStep, history, storeVars
<1>30. ASSUME NEW w \in Workers, Retry(w) PROVE \A g \in Files : FileStep(g)
  BY <1>30 DEF Retry, FileStep, history, storeVars
<1>31. ASSUME NEW w \in Workers, GiveUp(w) PROVE \A g \in Files : FileStep(g)
  BY <1>31 DEF GiveUp, FileStep, history, storeVars
<1>32. ASSUME NEW w \in Workers, Release(w) PROVE \A g \in Files : FileStep(g)
  BY <1>32 DEF Release, FileStep, history, storeVars
<1>33. ASSUME NEW w \in Workers, CompleteFails(w) PROVE \A g \in Files : FileStep(g)
  BY <1>33 DEF CompleteFails, FileStep, history, storeVars
<1>34. ASSUME Crash PROVE \A g \in Files : FileStep(g)
  BY <1>34 DEF Crash, FileStep, history, storeVars
<1>35. ASSUME UNCHANGED vars PROVE \A g \in Files : FileStep(g)
  BY <1>35 DEF vars, FileStep
<1> QED
  BY StepCases, <1>1, <1>2, <1>3, <1>4, <1>5, <1>6, <1>7, <1>8, <1>9, <1>10, <1>11,
    <1>12, <1>13, <1>14, <1>15, <1>16, <1>17, <1>18, <1>19, <1>20, <1>21, <1>22, <1>23,
    <1>24, <1>25, <1>26, <1>27, <1>28, <1>29, <1>30, <1>31, <1>32, <1>33, <1>34, <1>35

\* What a step does to the documents: p writes its copy back, makes one, or
\* takes one away.
Wrote(p, rec) ==
  /\ HasCopy(proc[p]) /\ rec \in Document /\ rec.file = proc[p].file
  /\ Writes(proc[p].id, rec) /\ (proc[p].id \in ToSet(recent) => Saved(proc[p].id, rec))
  /\ UNCHANGED <<created, files, vectors, overlapped>> /\ Others(p)
  /\ \/ rec.status \in {"pending", "running"}
     \/ /\ p \in Workers /\ proc[p].pc = "complete" /\ rec.status = "completed"
        /\ Alike(rec, proc[p].doc) /\ IsReleasing(p, proc'[p])
     \/ /\ p \in Workers /\ proc[p].pc = "fail" /\ rec.status = "failed"
        /\ proc'[p].pc = "decide" /\ proc'[p].doc = rec
        /\ proc'[p].op = "index" /\ proc'[p].file = proc[p].file
Made(p) ==
  /\ proc[p].pc = "save" /\ created + 1 \in DocIds /\ created + 1 \notin ToSet(recent)
  /\ created' = created + 1
  /\ \E rec \in Document : /\ rec.file = proc[p].file /\ rec.status = "pending"
                           /\ Saved(created + 1, rec)
  /\ UNCHANGED <<files, vectors, overlapped>> /\ Others(p)
Deleted(p) ==
  /\ proc[p].pc = "delete_doc" /\ proc[p].id \in DocIds /\ Removed(proc[p].id)
  /\ UNCHANGED <<created, files, vectors, overlapped>> /\ Others(p)
DocStep ==
  \/ UNCHANGED <<docs, recent, created>>
  \/ \E p \in Procs : Made(p) \/ Deleted(p) \/ \E rec \in Document : Wrote(p, rec)

LEMMA DocsStep ==
  ASSUME Basic, Rows, [Next]_vars
  PROVE  DocStep
<1>1. ASSUME NEW t \in Threads, NEW f \in Files, Upload(t, f) PROVE DocStep
  BY <1>1 DEF Upload, DocStep, history, storeVars
<1>2. ASSUME NEW t \in Threads, NEW f \in Files, CreateFile(t, f) PROVE DocStep
  BY <1>2 DEF CreateFile, DocStep, history, storeVars
<1>3. ASSUME NEW t \in Threads, NEW f \in Files, ImportFile(t, f) PROVE DocStep
  BY <1>3 DEF ImportFile, DocStep, history, storeVars
<1>4. ASSUME NEW t \in Threads, NEW f \in Files, UpdateFile(t, f) PROVE DocStep
  BY <1>4 DEF UpdateFile, DocStep, history, storeVars
<1>5. ASSUME NEW t \in Threads, NEW f \in Files, FromFile(t, f) PROVE DocStep
  BY <1>5 DEF FromFile, DocStep, history, storeVars
<1>6. ASSUME NEW t \in Threads, NEW f \in Files, DeleteFile(t, f) PROVE DocStep
  BY <1>6 DEF DeleteFile, DocStep, history, storeVars
<1>7. ASSUME NEW t \in Threads, WriteFile(t) PROVE DocStep
  BY <1>7 DEF WriteFile, DocStep, history, storeVars
<1>8. ASSUME NEW t \in Threads, BootRecover(t) PROVE DocStep
  BY <1>8 DEF BootRecover, DocStep, storeVars, Recover
<1>9. ASSUME NEW p \in Procs, EnsureRead(p) PROVE DocStep
  BY <1>9 DEF EnsureRead, DocStep, history, storeVars
<1>10. ASSUME NEW p \in Procs, EnsureCreate(p) PROVE DocStep
  BY <1>10, EnsureCreateIs DEF EnsureCreate, DocStep, Made, At, history, Rows
<1>11. ASSUME NEW p \in Procs, EnsureCreated(p) PROVE DocStep
  BY <1>11, EnsureCreatedIs, JobIs DEF EnsureCreated, DocStep, Wrote, history, At,
     WellFormed
<1>12. ASSUME NEW p \in Procs, EnsureSave(p) PROVE DocStep
  BY <1>12, EnsureSaveIs DEF EnsureSave, DocStep, Wrote, history
<1>13. ASSUME NEW p \in Procs, MarkRead(p) PROVE DocStep
  BY <1>13 DEF MarkRead, DocStep, history, storeVars
<1>14. ASSUME NEW p \in Procs, MarkSave(p) PROVE DocStep
  BY <1>14, MarkSaveIs DEF MarkSave, DocStep, Wrote, history
<1>15. ASSUME NEW p \in Procs, Put(p) PROVE DocStep
  BY <1>15 DEF Put, DocStep, history, storeVars
<1>16. ASSUME NEW p \in Procs, DeleteList(p) PROVE DocStep
  BY <1>16 DEF DeleteList, DocStep, history, storeVars
<1>17. ASSUME NEW p \in Procs, DeleteVectors(p) PROVE DocStep
  BY <1>17 DEF DeleteVectors, DocStep, history, storeVars
<1>18. ASSUME NEW p \in Procs, DeleteDoc(p) PROVE DocStep
  BY <1>18, DeleteDocIs DEF DeleteDoc, DocStep, Deleted, At, history
<1>19. ASSUME NEW p \in Procs, StoreFails(p) PROVE DocStep
  BY <1>19 DEF StoreFails, DocStep, history, storeVars
<1>20. ASSUME NEW w \in Workers, IdleRecover(w) PROVE DocStep
  BY <1>20 DEF IdleRecover, DocStep, storeVars, Recover
<1>21. ASSUME NEW w \in Workers, Backfill(w) PROVE DocStep
  BY <1>21 DEF Backfill, DocStep, history, storeVars
<1>22. ASSUME NEW w \in Workers, Get(w) PROVE DocStep
  BY <1>22 DEF Get, DocStep, history, storeVars
<1>23. ASSUME NEW w \in Workers, GetFile(w) PROVE DocStep
  BY <1>23 DEF GetFile, DocStep, history, storeVars
<1>24. ASSUME NEW w \in Workers, MarkRunning(w) PROVE DocStep
  BY <1>24, MarkRunningIs, WorkerHas DEF MarkRunning, DocStep, Wrote, history, At, Indexing
<1>25. ASSUME NEW w \in Workers, ClearVectors(w) PROVE DocStep
  BY <1>25 DEF ClearVectors, DocStep, history, storeVars
<1>26. ASSUME NEW w \in Workers, UpsertVectors(w) PROVE DocStep
  BY <1>26 DEF UpsertVectors, DocStep, history, storeVars
<1>27. ASSUME NEW w \in Workers, Complete(w) PROVE DocStep
  BY <1>27, CompleteIs, WorkerHas DEF Complete, DocStep, Wrote, history, At, Indexing
<1>28. ASSUME NEW w \in Workers, IndexingFails(w) PROVE DocStep
  BY <1>28 DEF IndexingFails, DocStep, history, storeVars
<1>29. ASSUME NEW w \in Workers, SaveFailed(w) PROVE DocStep
  BY <1>29, SaveFailedIs, WorkerHas DEF SaveFailed, DocStep, Wrote, At, Indexing, Is
<1>30. ASSUME NEW w \in Workers, Retry(w) PROVE DocStep
  BY <1>30 DEF Retry, DocStep, history, storeVars
<1>31. ASSUME NEW w \in Workers, GiveUp(w) PROVE DocStep
  BY <1>31 DEF GiveUp, DocStep, history, storeVars
<1>32. ASSUME NEW w \in Workers, Release(w) PROVE DocStep
  BY <1>32 DEF Release, DocStep, history, storeVars
<1>33. ASSUME NEW w \in Workers, CompleteFails(w) PROVE DocStep
  BY <1>33 DEF CompleteFails, DocStep, history, storeVars
<1>34. ASSUME Crash PROVE DocStep
  BY <1>34 DEF Crash, DocStep, history, storeVars
<1>35. ASSUME UNCHANGED vars PROVE DocStep
  BY <1>35 DEF vars, DocStep
<1> QED
  BY StepCases, <1>1, <1>2, <1>3, <1>4, <1>5, <1>6, <1>7, <1>8, <1>9, <1>10, <1>11,
    <1>12, <1>13, <1>14, <1>15, <1>16, <1>17, <1>18, <1>19, <1>20, <1>21, <1>22, <1>23,
    <1>24, <1>25, <1>26, <1>27, <1>28, <1>29, <1>30, <1>31, <1>32, <1>33, <1>34, <1>35

\* The documents a thread will write or delete.
HeldBy(j) == (IF HasCopy(j) \/ j.pc = "delete_doc" THEN {j.id} ELSE {})
             \cup IF j.pc \in {"delete", "delete_doc"} THEN j.todo ELSE {}

\* A thread keeps its file while it holds documents, and finds them among the
\* documents of the file or makes them.
HoldStep(p) ==
  \A d \in HeldBy(proc'[p]) :
    /\ proc'[p].file = proc[p].file
    /\ \/ d \in HeldBy(proc[p])
       \/ d \in DocsOf(proc[p].file) /\ UNCHANGED <<docs, recent, created>>
       \/ d = created + 1 /\ Made(p)

LEMMA HeldIs ==
  ASSUME NEW j
  PROVE  /\ j.pc \notin Indexing \cup {"save", "created", "mark_save", "delete", "delete_doc"}
              => HeldBy(j) = {}
         /\ HasCopy(j) => HeldBy(j) = {j.id}
         /\ j.pc = "save" => HeldBy(j) = {j.id} \ {NoDoc}
         /\ j.pc = "delete" => HeldBy(j) = j.todo
         /\ j.pc = "delete_doc" => HeldBy(j) = {j.id} \cup j.todo
BY DEF HeldBy, HasCopy, Indexing

LEMMA HoldsIf ==
  ASSUME NEW p \in Procs, Others(p), HoldStep(p)
  PROVE  \A q \in Procs : HoldStep(q)
BY DEF Others, HoldStep

\* Where a thread is when it takes a step.
LEMMA PcIs ==
  ASSUME NEW p
  PROVE  /\ WriteFile(p) => proc[p].pc = "write_file"
         /\ EnsureRead(p) => proc[p].pc = "ensure"
         /\ EnsureCreate(p) => proc[p].pc = "save"
         /\ EnsureCreated(p) => proc[p].pc = "created"
         /\ EnsureSave(p) => proc[p].pc = "save"
         /\ MarkRead(p) => proc[p].pc = "mark"
         /\ MarkSave(p) => proc[p].pc = "mark_save"
         /\ Put(p) => proc[p].pc = "put"
         /\ DeleteList(p) => proc[p].pc = "delete_list"
         /\ DeleteVectors(p) => proc[p].pc = "delete"
         /\ DeleteDoc(p) => proc[p].pc = "delete_doc"
         /\ GetFile(p) => proc[p].pc = "get_file"
         /\ MarkRunning(p) => proc[p].pc = "running"
         /\ ClearVectors(p) => proc[p].pc = "clear"
         /\ UpsertVectors(p) => proc[p].pc = "upsert"
         /\ Complete(p) => proc[p].pc = "complete"
         /\ SaveFailed(p) => proc[p].pc = "fail"
         /\ Retry(p) => proc[p].pc = "decide"
         /\ GiveUp(p) => proc[p].pc = "decide"
         /\ Release(p) => proc[p].pc = "release"
         /\ CompleteFails(p) => proc[p].pc = "complete"
         /\ IndexingFails(p) => proc[p].pc \in {"clear", "upsert"}
         /\ StoreFails(p) => proc[p].pc \notin {"idle", "put", "release"}
         /\ Complete(p) \/ CompleteFails(p) \/ MarkRunning(p) \/ ClearVectors(p)
              \/ UpsertVectors(p) \/ IndexingFails(p) \/ SaveFailed(p) \/ Retry(p) \/ GiveUp(p)
              => proc[p].pc \in Indexing
BY DEF At, Indexing, WriteFile, EnsureRead, EnsureCreate, EnsureCreated, EnsureSave, MarkRead,
   MarkSave, Put, DeleteList, DeleteVectors, DeleteDoc, GetFile, MarkRunning, ClearVectors,
   UpsertVectors, Complete, SaveFailed, Retry, GiveUp, Release, CompleteFails, IndexingFails,
   StoreFails

LEMMA HoldsNothing ==
  ASSUME NEW p \in Procs, Others(p),
         proc'[p].pc \in {"idle", "ensure", "mark", "put", "write_file", "delete_list",
                         "get_file", "release"}
  PROVE  \A q \in Procs : HoldStep(q)
<1>1. HeldBy(proc'[p]) = {}
  BY HeldIs DEF Indexing
<1> QED  BY <1>1, HoldsIf DEF HoldStep

LEMMA HoldsSame ==
  ASSUME NEW p \in Procs, Others(p), HasCopy(proc[p]), HasCopy(proc'[p]),
         proc'[p].id = proc[p].id, proc'[p].file = proc[p].file
  PROVE  \A q \in Procs : HoldStep(q)
BY HeldIs, HoldsIf DEF HoldStep

LEMMA HoldsStep ==
  ASSUME Basic, Rows, [Next]_vars
  PROVE  \A q \in Procs : HoldStep(q)
<1>1. ASSUME NEW t \in Threads, NEW f \in Files, Upload(t, f) PROVE \A q \in Procs : HoldStep(q)
  <2>1. Others(t) /\ proc'[t].pc \in {"idle", "ensure", "mark", "put", "write_file", "delete_list",
                                    "get_file", "release"}
    BY <1>1, UploadIs DEF Is
  <2> QED  BY <2>1, HoldsNothing DEF Procs
<1>2. ASSUME NEW t \in Threads, NEW f \in Files, CreateFile(t, f) PROVE \A q \in Procs : HoldStep(q)
  BY <1>2 DEF CreateFile, HoldStep
<1>3. ASSUME NEW t \in Threads, NEW f \in Files, ImportFile(t, f) PROVE \A q \in Procs : HoldStep(q)
  <2>1. Others(t) /\ proc'[t].pc \in {"idle", "ensure", "mark", "put", "write_file", "delete_list",
                                    "get_file", "release"}
    BY <1>3, ImportFileIs DEF Is
  <2> QED  BY <2>1, HoldsNothing DEF Procs
<1>4. ASSUME NEW t \in Threads, NEW f \in Files, UpdateFile(t, f) PROVE \A q \in Procs : HoldStep(q)
  <2>1. Others(t) /\ proc'[t].pc \in {"idle", "ensure", "mark", "put", "write_file", "delete_list",
                                    "get_file", "release"}
    BY <1>4, UpdateFileIs DEF Is, Requested
  <2> QED  BY <2>1, HoldsNothing DEF Procs
<1>5. ASSUME NEW t \in Threads, NEW f \in Files, FromFile(t, f) PROVE \A q \in Procs : HoldStep(q)
  <2>1. Others(t) /\ proc'[t].pc \in {"idle", "ensure", "mark", "put", "write_file", "delete_list",
                                    "get_file", "release"}
    BY <1>5, FromFileIs DEF Is, Requested
  <2> QED  BY <2>1, HoldsNothing DEF Procs
<1>6. ASSUME NEW t \in Threads, NEW f \in Files, DeleteFile(t, f) PROVE \A q \in Procs : HoldStep(q)
  <2>1. Others(t) /\ proc'[t].pc \in {"idle", "ensure", "mark", "put", "write_file", "delete_list",
                                    "get_file", "release"}
    BY <1>6, DeleteFileIs DEF Is, Requested
  <2> QED  BY <2>1, HoldsNothing DEF Procs
<1>7. ASSUME NEW t \in Threads, WriteFile(t) PROVE \A q \in Procs : HoldStep(q)
  <2>1. Others(t) /\ proc'[t].pc \in {"idle", "ensure", "mark", "put", "write_file", "delete_list",
                                    "get_file", "release"}
    BY <1>7, WriteFileIs DEF Is, IsResting
  <2> QED  BY <2>1, HoldsNothing DEF Procs
<1>8. ASSUME NEW t \in Threads, BootRecover(t) PROVE \A q \in Procs : HoldStep(q)
  <2>1. CASE UNCHANGED proc
    BY <2>1 DEF HoldStep
  <2>2. CASE Others(t) /\ Recovers(t)
    BY <2>2, HoldsNothing DEF Recovers, Is, Procs
  <2> QED  BY <1>8, <2>1, <2>2, BootRecoverIs
<1>9. ASSUME NEW p \in Procs, EnsureRead(p) PROVE \A q \in Procs : HoldStep(q)
  <2>1. /\ Others(p) /\ proc'[p].pc = "save" /\ proc'[p].file = proc[p].file
        /\ proc'[p].id = NewestDoc(proc[p].file)
    BY <1>9, EnsureReadIs DEF Is
  <2>2. NewestDoc(proc[p].file) # NoDoc => NewestDoc(proc[p].file) \in DocsOf(proc[p].file)
    BY NewestIs DEF Basic, TypeInv
  <2>3. HeldBy(proc'[p]) = {proc'[p].id} \ {NoDoc}
    BY <2>1, HeldIs
  <2>4. UNCHANGED <<docs, recent, created>>
    BY <1>9 DEF EnsureRead, storeVars
  <2>5. HoldStep(p)
    BY <2>1, <2>2, <2>3, <2>4 DEF HoldStep
  <2> QED  BY <2>1, <2>5, HoldsIf
<1>10. ASSUME NEW p \in Procs, EnsureCreate(p) PROVE \A q \in Procs : HoldStep(q)
  <2>1. /\ Others(p) /\ proc'[p].pc = "created" /\ proc'[p].file = proc[p].file
        /\ proc'[p].id = created + 1
    BY <1>10, EnsureCreateIs DEF Is, Rows
  <2>2. Made(p)
    BY <1>10, EnsureCreateIs DEF EnsureCreate, Made, At, history, Rows
  <2>3. HeldBy(proc'[p]) = {created + 1}
    BY <2>1, HeldIs DEF HasCopy
  <2>4. HoldStep(p)
    BY <2>1, <2>2, <2>3 DEF HoldStep
  <2> QED  BY <2>1, <2>4, HoldsIf
<1>11. ASSUME NEW p \in Procs, EnsureCreated(p) PROVE \A q \in Procs : HoldStep(q)
  <2>1. Others(p) /\ HasCopy(proc[p]) /\ Ensured(p, proc[p].id, proc[p].doc)
    BY <1>11, EnsureCreatedIs
  <2>2. \/ /\ proc'[p].pc = "running" /\ proc'[p].id = proc[p].id
           /\ proc'[p].file = proc[p].file
        \/ proc'[p].pc \in {"mark", "put", "ensure"}
    BY <2>1 DEF Ensured, Is
  <2> QED  BY <2>1, <2>2, HoldsNothing, HoldsSame DEF HasCopy, Indexing
<1>12. ASSUME NEW p \in Procs, EnsureSave(p) PROVE \A q \in Procs : HoldStep(q)
  <2>1. Others(p) /\ HasCopy(proc[p]) /\ HeldBy(proc[p]) = {proc[p].id}
    BY <1>12, EnsureSaveIs, HeldIs
  <2>2. PICK rec : Ensured(p, proc[p].id, rec)
    BY <1>12, EnsureSaveIs
  <2>3. \/ /\ proc'[p].pc = "running" /\ proc'[p].id = proc[p].id
           /\ proc'[p].file = proc[p].file
        \/ proc'[p].pc \in {"mark", "put", "ensure"}
    BY <2>2 DEF Ensured, Is
  <2>4. HoldStep(p)
    BY <2>1, <2>3, HeldIs DEF HoldStep, HasCopy, Indexing
  <2> QED  BY <2>1, <2>4, HoldsIf
<1>13. ASSUME NEW p \in Procs, MarkRead(p) PROVE \A q \in Procs : HoldStep(q)
  <2>1. Others(p)
    BY <1>13, MarkReadIs
  <2>2. \/ proc'[p].pc = "put"
        \/ /\ proc'[p].pc = "mark_save" /\ proc'[p].file = proc[p].file
           /\ proc'[p].id \in DocsOf(proc[p].file)
    BY <1>13, MarkReadIs DEF Goes, Is
  <2>3. UNCHANGED <<docs, recent, created>>
    BY <1>13 DEF MarkRead, storeVars
  <2>4. HoldStep(p)
    BY <2>2, <2>3, HeldIs DEF HoldStep, HasCopy, Indexing
  <2> QED  BY <2>1, <2>4, HoldsIf
<1>14. ASSUME NEW p \in Procs, MarkSave(p) PROVE \A q \in Procs : HoldStep(q)
  <2>1. Others(p) /\ proc'[p].pc \in {"idle", "ensure", "mark", "put", "write_file", "delete_list",
                                    "get_file", "release"}
    BY <1>14, MarkSaveIs DEF Is
  <2> QED  BY <2>1, HoldsNothing DEF Procs
<1>15. ASSUME NEW p \in Procs, Put(p) PROVE \A q \in Procs : HoldStep(q)
  <2>1. Others(p) /\ proc'[p].pc \in {"idle", "ensure", "mark", "put", "write_file", "delete_list",
                                    "get_file", "release"}
    BY <1>15, PutIs DEF Is, PutOne, IsResting
  <2> QED  BY <2>1, HoldsNothing DEF Procs
<1>16. ASSUME NEW p \in Procs, DeleteList(p) PROVE \A q \in Procs : HoldStep(q)
  <2>1. Others(p) /\ UNCHANGED <<docs, recent, created>>
    BY <1>16, DeleteListIs DEF DeleteList, storeVars
  <2>2. \/ proc'[p].pc = "idle"
        \/ /\ proc'[p].pc = "delete" /\ proc'[p].file = proc[p].file
           /\ proc'[p].todo = DocsOf(proc[p].file)
    BY <1>16, DeleteListIs DEF Is, IsResting
  <2>3. HoldStep(p)
    BY <2>1, <2>2, HeldIs DEF HoldStep, Indexing
  <2> QED  BY <2>1, <2>3, HoldsIf
<1>17. ASSUME NEW p \in Procs, DeleteVectors(p) PROVE \A q \in Procs : HoldStep(q)
  <2>1. PICK d \in proc[p].todo :
          /\ proc'[p].pc = "delete_doc" /\ proc'[p].file = proc[p].file
          /\ proc'[p].id = d /\ proc'[p].todo = proc[p].todo \ {d}
    BY <1>17, DeleteVectorsIs DEF Is
  <2>2. Others(p) /\ HeldBy(proc[p]) = proc[p].todo
    BY <1>17, DeleteVectorsIs, PcIs, HeldIs
  <2>3. HeldBy(proc'[p]) \subseteq proc[p].todo
    BY <2>1, HeldIs
  <2>4. HoldStep(p)
    BY <2>1, <2>2, <2>3 DEF HoldStep
  <2> QED  BY <2>2, <2>4, HoldsIf
<1>18. ASSUME NEW p \in Procs, DeleteDoc(p) PROVE \A q \in Procs : HoldStep(q)
  <2>1. Others(p) /\ HeldBy(proc[p]) = {proc[p].id} \cup proc[p].todo
    BY <1>18, DeleteDocIs, PcIs, HeldIs
  <2>2. \/ proc'[p].pc = "idle"
        \/ /\ proc'[p].pc = "delete" /\ proc'[p].file = proc[p].file
           /\ proc'[p].todo = proc[p].todo
    BY <1>18, DeleteDocIs DEF Is, IsResting
  <2>3. HoldStep(p)
    BY <2>1, <2>2, HeldIs DEF HoldStep, Indexing
  <2> QED  BY <2>1, <2>3, HoldsIf
<1>19. ASSUME NEW p \in Procs, StoreFails(p) PROVE \A q \in Procs : HoldStep(q)
  <2>1. Others(p) /\ proc'[p].pc \in {"idle", "ensure", "mark", "put", "write_file", "delete_list",
                                    "get_file", "release"}
    BY <1>19, StoreFailsIs DEF Is, IsResting, IsReleasing
  <2> QED  BY <2>1, HoldsNothing DEF Procs
<1>20. ASSUME NEW w \in Workers, IdleRecover(w) PROVE \A q \in Procs : HoldStep(q)
  <2>1. Others(w) /\ proc'[w].pc \in {"idle", "ensure", "mark", "put", "write_file", "delete_list",
                                    "get_file", "release"}
    BY <1>20, IdleRecoverIs DEF Is, Recovers
  <2> QED  BY <2>1, HoldsNothing DEF Procs
<1>21. ASSUME NEW w \in Workers, Backfill(w) PROVE \A q \in Procs : HoldStep(q)
  <2>1. Others(w) /\ proc'[w].pc \in {"idle", "ensure", "mark", "put", "write_file", "delete_list",
                                    "get_file", "release"}
    BY <1>21, BackfillIs DEF Is
  <2> QED  BY <2>1, HoldsNothing DEF Procs
<1>22. ASSUME NEW w \in Workers, Get(w) PROVE \A q \in Procs : HoldStep(q)
  <2>1. Others(w) /\ proc'[w].pc \in {"idle", "ensure", "mark", "put", "write_file", "delete_list",
                                    "get_file", "release"}
    BY <1>22, GetIs DEF Is
  <2> QED  BY <2>1, HoldsNothing DEF Procs
<1>23. ASSUME NEW w \in Workers, GetFile(w) PROVE \A q \in Procs : HoldStep(q)
  <2>1. Others(w) /\ proc'[w].pc \in {"idle", "ensure", "mark", "put", "write_file", "delete_list",
                                    "get_file", "release"}
    BY <1>23, GetFileIs DEF Is, IsReleasing
  <2> QED  BY <2>1, HoldsNothing DEF Procs
<1>24. ASSUME NEW w \in Workers, MarkRunning(w) PROVE \A q \in Procs : HoldStep(q)
  <2>1. /\ Others(w) /\ proc'[w].pc \in Indexing
        /\ proc'[w].id = proc[w].id /\ proc'[w].file = proc[w].file
    BY <1>24, MarkRunningIs DEF Is, Indexing
  <2>2. HasCopy(proc[w]) /\ w \in Procs
    BY <1>24, PcIs, WorkerHas
  <2> QED  BY <2>1, <2>2, HoldsSame DEF HasCopy
<1>25. ASSUME NEW w \in Workers, ClearVectors(w) PROVE \A q \in Procs : HoldStep(q)
  <2>1. /\ Others(w) /\ proc'[w].pc \in Indexing
        /\ proc'[w].id = proc[w].id /\ proc'[w].file = proc[w].file
    BY <1>25, ClearVectorsIs DEF Is, Indexing, Goes
  <2>2. HasCopy(proc[w]) /\ w \in Procs
    BY <1>25, PcIs, WorkerHas
  <2> QED  BY <2>1, <2>2, HoldsSame DEF HasCopy
<1>26. ASSUME NEW w \in Workers, UpsertVectors(w) PROVE \A q \in Procs : HoldStep(q)
  <2>1. /\ Others(w) /\ proc'[w].pc \in Indexing
        /\ proc'[w].id = proc[w].id /\ proc'[w].file = proc[w].file
    BY <1>26, UpsertVectorsIs DEF Is, Indexing, Goes
  <2>2. HasCopy(proc[w]) /\ w \in Procs
    BY <1>26, PcIs, WorkerHas
  <2> QED  BY <2>1, <2>2, HoldsSame DEF HasCopy
<1>27. ASSUME NEW w \in Workers, Complete(w) PROVE \A q \in Procs : HoldStep(q)
  <2>1. Others(w) /\ proc'[w].pc \in {"idle", "ensure", "mark", "put", "write_file", "delete_list",
                                    "get_file", "release"}
    BY <1>27, CompleteIs DEF Is, IsReleasing
  <2> QED  BY <2>1, HoldsNothing DEF Procs
<1>28. ASSUME NEW w \in Workers, IndexingFails(w) PROVE \A q \in Procs : HoldStep(q)
  <2>1. /\ Others(w) /\ proc'[w].pc \in Indexing
        /\ proc'[w].id = proc[w].id /\ proc'[w].file = proc[w].file
    BY <1>28, IndexingFailsIs DEF Is, Indexing, Goes
  <2>2. HasCopy(proc[w]) /\ w \in Procs
    BY <1>28, PcIs, WorkerHas
  <2> QED  BY <2>1, <2>2, HoldsSame DEF HasCopy
<1>29. ASSUME NEW w \in Workers, SaveFailed(w) PROVE \A q \in Procs : HoldStep(q)
  <2>1. /\ Others(w) /\ proc'[w].pc \in Indexing
        /\ proc'[w].id = proc[w].id /\ proc'[w].file = proc[w].file
    BY <1>29, SaveFailedIs DEF Is, Indexing
  <2>2. HasCopy(proc[w]) /\ w \in Procs
    BY <1>29, PcIs, WorkerHas
  <2> QED  BY <2>1, <2>2, HoldsSame DEF HasCopy
<1>30. ASSUME NEW w \in Workers, Retry(w) PROVE \A q \in Procs : HoldStep(q)
  <2>1. Others(w) /\ proc'[w].pc \in {"idle", "ensure", "mark", "put", "write_file", "delete_list",
                                    "get_file", "release"}
    BY <1>30, RetryIs DEF Is, IsResting
  <2> QED  BY <2>1, HoldsNothing DEF Procs
<1>31. ASSUME NEW w \in Workers, GiveUp(w) PROVE \A q \in Procs : HoldStep(q)
  <2>1. Others(w) /\ proc'[w].pc \in {"idle", "ensure", "mark", "put", "write_file", "delete_list",
                                    "get_file", "release"}
    BY <1>31, GiveUpIs DEF Is, IsReleasing
  <2> QED  BY <2>1, HoldsNothing DEF Procs
<1>32. ASSUME NEW w \in Workers, Release(w) PROVE \A q \in Procs : HoldStep(q)
  <2>1. Others(w) /\ proc'[w].pc \in {"idle", "ensure", "mark", "put", "write_file", "delete_list",
                                    "get_file", "release"}
    BY <1>32, ReleaseIs DEF Is, IsResting
  <2> QED  BY <2>1, HoldsNothing DEF Procs
<1>33. ASSUME NEW w \in Workers, CompleteFails(w) PROVE \A q \in Procs : HoldStep(q)
  <2>1. /\ Others(w) /\ proc'[w].pc \in Indexing
        /\ proc'[w].id = proc[w].id /\ proc'[w].file = proc[w].file
    BY <1>33, CompleteFailsIs DEF Is, Indexing, Goes
  <2>2. HasCopy(proc[w]) /\ w \in Procs
    BY <1>33, PcIs, WorkerHas
  <2> QED  BY <2>1, <2>2, HoldsSame DEF HasCopy
<1>34. ASSUME Crash PROVE \A q \in Procs : HoldStep(q)
  <2>1. \A p \in Procs : HeldBy(proc'[p]) = {}
    BY <1>34, CrashIs, HeldIs DEF IsResting, Is, Indexing
  <2> QED  BY <2>1 DEF HoldStep
<1>35. ASSUME UNCHANGED vars PROVE \A q \in Procs : HoldStep(q)
  BY <1>35 DEF vars, HoldStep
<1> QED
  BY StepCases, <1>1, <1>2, <1>3, <1>4, <1>5, <1>6, <1>7, <1>8, <1>9, <1>10, <1>11,
    <1>12, <1>13, <1>14, <1>15, <1>16, <1>17, <1>18, <1>19, <1>20, <1>21, <1>22, <1>23,
    <1>24, <1>25, <1>26, <1>27, <1>28, <1>29, <1>30, <1>31, <1>32, <1>33, <1>34, <1>35

LEMMA BasicStep ==
  ASSUME Basic, Rows, [Next]_vars
  PROVE  Basic'
<1>1. ASSUME NEW t \in Threads, NEW f \in Files, Upload(t, f) PROVE Basic'
  BY <1>1, UploadIs
<1>2. ASSUME NEW t \in Threads, NEW f \in Files, CreateFile(t, f) PROVE Basic'
  BY <1>2, CreateFileIs
<1>3. ASSUME NEW t \in Threads, NEW f \in Files, ImportFile(t, f) PROVE Basic'
  BY <1>3, ImportFileIs
<1>4. ASSUME NEW t \in Threads, NEW f \in Files, UpdateFile(t, f) PROVE Basic'
  BY <1>4, UpdateFileIs
<1>5. ASSUME NEW t \in Threads, NEW f \in Files, FromFile(t, f) PROVE Basic'
  BY <1>5, FromFileIs
<1>6. ASSUME NEW t \in Threads, NEW f \in Files, DeleteFile(t, f) PROVE Basic'
  BY <1>6, DeleteFileIs
<1>7. ASSUME NEW t \in Threads, WriteFile(t) PROVE Basic'
  BY <1>7, WriteFileIs
<1>8. ASSUME NEW t \in Threads, BootRecover(t) PROVE Basic'
  BY <1>8, BootRecoverIs
<1>9. ASSUME NEW p \in Procs, EnsureRead(p) PROVE Basic'
  BY <1>9, EnsureReadIs
<1>10. ASSUME NEW p \in Procs, EnsureCreate(p) PROVE Basic'
  BY <1>10, EnsureCreateIs DEF Rows
<1>11. ASSUME NEW p \in Procs, EnsureCreated(p) PROVE Basic'
  BY <1>11, EnsureCreatedIs
<1>12. ASSUME NEW p \in Procs, EnsureSave(p) PROVE Basic'
  BY <1>12, EnsureSaveIs
<1>13. ASSUME NEW p \in Procs, MarkRead(p) PROVE Basic'
  BY <1>13, MarkReadIs
<1>14. ASSUME NEW p \in Procs, MarkSave(p) PROVE Basic'
  BY <1>14, MarkSaveIs
<1>15. ASSUME NEW p \in Procs, Put(p) PROVE Basic'
  BY <1>15, PutIs
<1>16. ASSUME NEW p \in Procs, DeleteList(p) PROVE Basic'
  BY <1>16, DeleteListIs
<1>17. ASSUME NEW p \in Procs, DeleteVectors(p) PROVE Basic'
  BY <1>17, DeleteVectorsIs
<1>18. ASSUME NEW p \in Procs, DeleteDoc(p) PROVE Basic'
  BY <1>18, DeleteDocIs
<1>19. ASSUME NEW p \in Procs, StoreFails(p) PROVE Basic'
  BY <1>19, StoreFailsIs
<1>20. ASSUME NEW w \in Workers, IdleRecover(w) PROVE Basic'
  BY <1>20, IdleRecoverIs
<1>21. ASSUME NEW w \in Workers, Backfill(w) PROVE Basic'
  BY <1>21, BackfillIs
<1>22. ASSUME NEW w \in Workers, Get(w) PROVE Basic'
  BY <1>22, GetIs
<1>23. ASSUME NEW w \in Workers, GetFile(w) PROVE Basic'
  BY <1>23, GetFileIs
<1>24. ASSUME NEW w \in Workers, MarkRunning(w) PROVE Basic'
  BY <1>24, MarkRunningIs
<1>25. ASSUME NEW w \in Workers, ClearVectors(w) PROVE Basic'
  BY <1>25, ClearVectorsIs
<1>26. ASSUME NEW w \in Workers, UpsertVectors(w) PROVE Basic'
  BY <1>26, UpsertVectorsIs
<1>27. ASSUME NEW w \in Workers, Complete(w) PROVE Basic'
  BY <1>27, CompleteIs
<1>28. ASSUME NEW w \in Workers, IndexingFails(w) PROVE Basic'
  BY <1>28, IndexingFailsIs
<1>29. ASSUME NEW w \in Workers, SaveFailed(w) PROVE Basic'
  BY <1>29, SaveFailedIs
<1>30. ASSUME NEW w \in Workers, Retry(w) PROVE Basic'
  BY <1>30, RetryIs
<1>31. ASSUME NEW w \in Workers, GiveUp(w) PROVE Basic'
  BY <1>31, GiveUpIs
<1>32. ASSUME NEW w \in Workers, Release(w) PROVE Basic'
  BY <1>32, ReleaseIs
<1>33. ASSUME NEW w \in Workers, CompleteFails(w) PROVE Basic'
  BY <1>33, CompleteFailsIs
<1>34. ASSUME Crash PROVE Basic'
  BY <1>34, CrashIs
<1>35. ASSUME UNCHANGED vars PROVE Basic'
  BY <1>35 DEF vars, Basic, TypeInv, Data, QueueOK
<1> QED
  BY StepCases, <1>1, <1>2, <1>3, <1>4, <1>5, <1>6, <1>7, <1>8, <1>9, <1>10, <1>11,
    <1>12, <1>13, <1>14, <1>15, <1>16, <1>17, <1>18, <1>19, <1>20, <1>21, <1>22, <1>23,
    <1>24, <1>25, <1>26, <1>27, <1>28, <1>29, <1>30, <1>31, <1>32, <1>33, <1>34, <1>35

-----------------------------------------------------------------------------
(***************************************************************************)
(* Who holds which documents                                               *)
(***************************************************************************)
\* What a thread holds is a document of its file, or one that is gone, and two
\* threads that hold the same document work on the same file.
Owned == \A p \in Procs : \A d \in HeldBy(proc[p]) :
           d \in 1 .. created /\ docs[d].file \in {proc[p].file, NoFile}
Apart == \A p, q \in Procs : \A d \in HeldBy(proc[p]) \cap HeldBy(proc[q]) :
           proc[p].file = proc[q].file
Own == Rows /\ Owned /\ Apart

\* The documents a step leaves alone.
LEMMA OthersKeep ==
  ASSUME Basic, NEW d \in DocIds, NEW e \in DocIds, e # d,
         (\E rec : Saved(d, rec)) \/ Removed(d)
  PROVE  docs'[e] = docs[e] /\ (e \in ToSet(recent') <=> e \in ToSet(recent))
BY DEF Saved, Removed, Basic, TypeInv, Data

LEMMA SavedIs ==
  ASSUME Basic, NEW d \in DocIds, NEW rec, Saved(d, rec)
  PROVE  docs'[d] = rec /\ d \in ToSet(recent')
BY DEF Saved, Basic, TypeInv, Data

LEMMA RemovedIs ==
  ASSUME Basic, NEW d \in DocIds, Removed(d)
  PROVE  docs'[d] = Blank /\ d \notin ToSet(recent')
BY DEF Removed, Basic, TypeInv, Data

LEMMA HeldIsDoc ==
  ASSUME Basic, Owned, NEW p \in Procs, NEW d \in HeldBy(proc[p])
  PROVE  d \in DocIds /\ d \in 1 .. created
BY ConstantsAssumption DEF Basic, TypeInv, Data, Owned, DocIds

LEMMA RowsStep ==
  ASSUME Basic, Own, [Next]_vars
  PROVE  Rows'
<1>1. DocStep /\ ToSet(recent) \subseteq DocIds /\ created \in Nat
  BY DocsStep, LiveIsDoc DEF Own, Basic, TypeInv, Data
<1>2. CASE UNCHANGED <<docs, recent, created>>
  BY <1>2 DEF Own, Rows
<1>3. ASSUME NEW p \in Procs, Made(p) PROVE Rows'
  <2>1. PICK rec \in Document : Saved(created + 1, rec)
    BY <1>3 DEF Made
  <2>2. created + 1 \in DocIds /\ created' = created + 1
    BY <1>3 DEF Made
  <2>3. \A e \in ToSet(recent') : e = created + 1 \/ e \in ToSet(recent)
    BY <2>1 DEF Saved
  <2>4. \A e \in ToSet(recent) : e <= created + 1 /\ (e # created + 1 => docs'[e] \in Document)
    BY <1>1, <2>1, <2>2, OthersKeep, ConstantsAssumption DEF Own, Rows, DocIds
  <2> QED  BY <1>1, <2>1, <2>2, <2>3, <2>4, SavedIs DEF Rows
<1>4. ASSUME NEW p \in Procs, Deleted(p) PROVE Rows'
  <2>1. proc[p].id \in DocIds /\ Removed(proc[p].id) /\ created' = created
    BY <1>4 DEF Deleted
  <2>2. \A e \in ToSet(recent') : e \in ToSet(recent) /\ e # proc[p].id
    BY <2>1 DEF Removed
  <2> QED  BY <1>1, <2>1, <2>2, OthersKeep DEF Own, Rows
<1>5. ASSUME NEW p \in Procs, NEW rec \in Document, Wrote(p, rec) PROVE Rows'
  <2>1. proc[p].id \in HeldBy(proc[p]) /\ created' = created
    BY <1>5, HeldIs DEF Wrote
  <2>2. proc[p].id \in DocIds /\ proc[p].id <= created
    BY <1>1, <2>1, HeldIsDoc DEF Own
  <2>3. CASE UNCHANGED <<docs, recent>>
    BY <2>1, <2>3 DEF Own, Rows
  <2>4. CASE Saved(proc[p].id, rec)
    <3>1. \A e \in ToSet(recent') : e = proc[p].id \/ e \in ToSet(recent)
      BY <2>4 DEF Saved
    <3> QED  BY <1>1, <2>1, <2>2, <2>4, <3>1, SavedIs, OthersKeep DEF Own, Rows
  <2> QED  BY <1>5, <2>3, <2>4 DEF Wrote, Writes
<1> QED  BY <1>1, <1>2, <1>3, <1>4, <1>5 DEF DocStep

LEMMA OwnedStep ==
  ASSUME Basic, Own, [Next]_vars
  PROVE  Owned' /\ Apart'
<1>1. DocStep /\ created \in Nat /\ \A q \in Procs : HoldStep(q)
  BY DocsStep, HoldsStep DEF Own, Basic, TypeInv, Data
<1>a. \A d \in DocIds : d \in ToSet(recent) => docs[d].file # NoFile /\ d \in 1 .. created
  BY <1>1, ConstantsAssumption DEF Own, Rows, DocIds, Document
<1>b. ToSet(recent) \subseteq DocIds
  BY LiveIsDoc DEF Basic, TypeInv
<1>2. ASSUME NEW q \in Procs, NEW d \in HeldBy(proc[q])
      PROVE  docs'[d].file \in {proc[q].file, NoFile} /\ d \in 1 .. created'
  <2>1. d \in DocIds /\ d \in 1 .. created /\ docs[d].file \in {proc[q].file, NoFile}
    BY HeldIsDoc DEF Own, Owned
  <2>2. CASE UNCHANGED <<docs, recent, created>>
    BY <2>1, <2>2
  <2>3. ASSUME NEW p \in Procs, Made(p)
        PROVE  docs'[d].file \in {proc[q].file, NoFile} /\ d \in 1 .. created'
    <3>1. d # created + 1 /\ created' = created + 1 /\ created + 1 \in DocIds
      BY <1>1, <2>1, <2>3 DEF Made
    <3>2. docs'[d] = docs[d]
      BY <2>1, <2>3, <3>1, OthersKeep DEF Made
    <3> QED  BY <1>1, <2>1, <3>1, <3>2
  <2>4. ASSUME NEW p \in Procs, Deleted(p)
        PROVE  docs'[d].file \in {proc[q].file, NoFile} /\ d \in 1 .. created'
    <3>1. docs'[d] = docs[d] \/ docs'[d] = Blank
      BY <2>1, <2>4, OthersKeep, RemovedIs DEF Deleted
    <3> QED  BY <2>1, <2>4, <3>1 DEF Deleted, Blank
  <2>5. ASSUME NEW p \in Procs, NEW rec \in Document, Wrote(p, rec)
        PROVE  docs'[d].file \in {proc[q].file, NoFile} /\ d \in 1 .. created'
    <3>1. proc[p].id \in HeldBy(proc[p]) /\ created' = created /\ rec.file = proc[p].file
      BY <2>5, HeldIs DEF Wrote
    <3>2. proc[p].id \in DocIds
      BY <3>1, HeldIsDoc DEF Own
    <3>3. d = proc[p].id => rec.file = proc[q].file
      BY <3>1 DEF Own, Apart
    <3>4. docs'[d] = docs[d] \/ (d = proc[p].id /\ docs'[d] = rec)
      BY <2>1, <2>5, <3>2, OthersKeep, SavedIs DEF Wrote, Writes
    <3> QED  BY <2>1, <3>1, <3>3, <3>4
  <2> QED  BY <1>1, <2>2, <2>3, <2>4, <2>5 DEF DocStep
<1>3. ASSUME NEW q \in Procs, Made(q)
      PROVE  docs'[created + 1].file = proc[q].file /\ created + 1 \in 1 .. created'
             /\ \A r \in Procs : r # q => HeldBy(proc'[r]) = HeldBy(proc[r])
  BY <1>1, <1>3, SavedIs DEF Made, Others
<1>4. Owned'
  <2> SUFFICES ASSUME NEW q \in Procs, NEW d \in HeldBy(proc'[q])
               PROVE  docs'[d].file \in {proc'[q].file, NoFile} /\ d \in 1 .. created'
    BY DEF Owned
  <2>1. proc'[q].file = proc[q].file
        /\ \/ d \in HeldBy(proc[q])
           \/ d \in DocsOf(proc[q].file) /\ UNCHANGED <<docs, recent, created>>
           \/ d = created + 1 /\ Made(q)
    BY <1>1 DEF HoldStep
  <2>2. CASE d \in HeldBy(proc[q])
    BY <1>2, <2>1, <2>2
  <2>3. CASE d \in DocsOf(proc[q].file) /\ UNCHANGED <<docs, recent, created>>
    BY <1>a, <1>b, <2>1, <2>3 DEF DocsOf
  <2>4. CASE d = created + 1 /\ Made(q)
    BY <1>3, <2>1, <2>4
  <2> QED  BY <2>1, <2>2, <2>3, <2>4
<1>5. Apart'
  <2> SUFFICES ASSUME NEW q \in Procs, NEW r \in Procs, NEW d \in HeldBy(proc'[q]),
                      d \in HeldBy(proc'[r])
               PROVE  proc'[q].file = proc'[r].file
    BY DEF Apart
  <2>1. proc'[q].file = proc[q].file
        /\ \/ d \in HeldBy(proc[q])
           \/ d \in DocsOf(proc[q].file)
           \/ d = created + 1 /\ Made(q)
    BY <1>1 DEF HoldStep
  <2>2. proc'[r].file = proc[r].file
        /\ \/ d \in HeldBy(proc[r])
           \/ d \in DocsOf(proc[r].file)
           \/ d = created + 1 /\ Made(r)
    BY <1>1 DEF HoldStep
  <2>3. \A p \in Procs : d \in HeldBy(proc[p]) =>
                           docs[d].file \in {proc[p].file, NoFile} /\ d \in 1 .. created
    BY DEF Own, Owned
  <2>4. \A f : d \in DocsOf(f) => docs[d].file = f /\ f # NoFile /\ d \in 1 .. created
    BY <1>a, <1>b DEF DocsOf
  <2>5. CASE d = created + 1
    <3>1. d \notin 1 .. created
      BY <1>1, <2>5
    <3>2. Made(q) /\ Made(r)
      BY <2>1, <2>2, <2>3, <2>4, <3>1
    <3>3. q = r
      BY <1>3, <2>3, <3>1, <3>2
    <3> QED  BY <3>3
  <2>6. CASE d # created + 1
    <3>1. (d \in HeldBy(proc[q]) /\ d \in HeldBy(proc[r])) => proc[q].file = proc[r].file
      BY DEF Own, Apart
    <3> QED  BY <2>1, <2>2, <2>3, <2>4, <2>6, <3>1
  <2> QED  BY <2>5, <2>6
<1> QED  BY <1>4, <1>5

-----------------------------------------------------------------------------
(***************************************************************************)
(* Who works on which file                                                 *)
(***************************************************************************)
\* The thread is at work on f, or will put it.
Works(j, f) ==
  \/ j.file = f \/ f \in j.puts
  \/ j.op = "sweep" /\ \E n \in j.todo : n[1] = f
\* Where a thread may be with a deleted file: it deletes the documents, or has
\* yet to learn that the file is gone.
Safe == {"put", "get_file", "release"} \cup Deleting

\* How a thread comes to work on f.
BusyStep(p, f) ==
  Works(proc'[p], f) =>
    \/ Works(proc[p], f) /\ (proc[p].pc \in Safe => proc'[p].pc \in Safe)
    \/ files[f].live
    \/ Fresh(f)
    \/ DocsOf(f) # {} /\ proc'[p].pc = "put"
    \/ status[f] = "queued" /\ proc'[p].pc = "get_file"

LEMMA BusyIf ==
  ASSUME NEW p \in Procs, Others(p), \A f \in Files : BusyStep(p, f)
  PROVE  \A q \in Procs, f \in Files : BusyStep(q, f)
BY DEF Others, BusyStep

LEMMA NotNoFile == \A f \in Files : f # NoFile
BY ConstantsAssumption

LEMMA BusyKept ==
  ASSUME UNCHANGED proc
  PROVE  \A q \in Procs, f \in Files : BusyStep(q, f)
BY DEF BusyStep

LEMMA RestingBusy ==
  ASSUME NEW j, IsResting(j), NEW f \in Files
  PROVE  ~Works(j, f)
BY NotNoFile DEF IsResting, Is, Works

LEMMA BusySteps ==
  ASSUME Basic, Rows, [Next]_vars
  PROVE  \A q \in Procs, f \in Files : BusyStep(q, f)
<1>1. ASSUME NEW t \in Threads, NEW f \in Files, Upload(t, f)
      PROVE  \A q \in Procs, g \in Files : BusyStep(q, g)
  <2>1. Fresh(f)
    BY <1>1, UploadIs DEF Upload, Fresh, RowWritten, Basic, TypeInv, Data
  <2>2. Others(t) /\ \A g \in Files : BusyStep(t, g)
    BY <1>1, <2>1, UploadIs, NotNoFile DEF BusyStep, Works, Is
  <2> QED  BY <2>2, BusyIf DEF Procs
<1>2. ASSUME NEW t \in Threads, NEW f \in Files, CreateFile(t, f)
      PROVE  \A q \in Procs, g \in Files : BusyStep(q, g)
  BY <1>2, BusyKept DEF CreateFile
<1>3. ASSUME NEW t \in Threads, NEW f \in Files, ImportFile(t, f)
      PROVE  \A q \in Procs, g \in Files : BusyStep(q, g)
  <2>1. Fresh(f)
    BY <1>3, ImportFileIs DEF ImportFile, Fresh, RowWritten, Basic, TypeInv, Data
  <2>2. Others(t) /\ \A g \in Files : BusyStep(t, g)
    BY <1>3, <2>1, ImportFileIs, NotNoFile DEF BusyStep, Works, Is
  <2> QED  BY <2>2, BusyIf DEF Procs
<1>4. ASSUME NEW t \in Threads, NEW f \in Files, UpdateFile(t, f)
      PROVE  \A q \in Procs, g \in Files : BusyStep(q, g)
  <2>1. files[f].live
    BY <1>4 DEF UpdateFile
  <2>2. Others(t) /\ \A g \in Files : BusyStep(t, g)
    BY <1>4, <2>1, UpdateFileIs, NotNoFile DEF BusyStep, Works, Safe, Deleting, Is, Requested, Procs
  <2> QED  BY <2>2, BusyIf DEF Procs
<1>5. ASSUME NEW t \in Threads, NEW f \in Files, FromFile(t, f)
      PROVE  \A q \in Procs, g \in Files : BusyStep(q, g)
  <2>1. files[f].live
    BY <1>5 DEF FromFile
  <2>2. Others(t) /\ \A g \in Files : BusyStep(t, g)
    BY <1>5, <2>1, FromFileIs, NotNoFile DEF BusyStep, Works, Safe, Deleting, Is, Requested, Procs
  <2> QED  BY <2>2, BusyIf DEF Procs
<1>6. ASSUME NEW t \in Threads, NEW f \in Files, DeleteFile(t, f)
      PROVE  \A q \in Procs, g \in Files : BusyStep(q, g)
  <2>1. files[f].live
    BY <1>6 DEF DeleteFile
  <2>2. Others(t) /\ \A g \in Files : BusyStep(t, g)
    BY <1>6, <2>1, DeleteFileIs, NotNoFile DEF BusyStep, Works, Safe, Deleting, Is, Requested, Procs
  <2> QED  BY <2>2, BusyIf DEF Procs
<1>7. ASSUME NEW t \in Threads, WriteFile(t) PROVE \A q \in Procs, g \in Files : BusyStep(q, g)
  <2>1. proc[t].pc = "write_file" /\ t \in Procs /\ Others(t)
    BY <1>7, PcIs, WriteFileIs DEF Procs
  <2>2. \/ IsResting(proc'[t])
        \/ /\ proc'[t].op = proc[t].op /\ proc'[t].file = proc[t].file
           /\ proc'[t].todo = proc[t].todo /\ proc'[t].puts = proc[t].puts
    BY <1>7, WriteFileIs DEF Is
  <2>3. \A g \in Files : BusyStep(t, g)
    BY <2>1, <2>2, RestingBusy DEF BusyStep, Works, Safe, Deleting
  <2> QED  BY <2>1, <2>3, BusyIf
<1>8. ASSUME NEW t \in Threads, BootRecover(t) PROVE \A q \in Procs, g \in Files : BusyStep(q, g)
  <2>1. CASE UNCHANGED proc
    BY <2>1, BusyKept
  <2>2. CASE Others(t) /\ Recovers(t)
    <3>1. \A g \in Files : BusyStep(t, g)
      BY <2>2, NotNoFile DEF BusyStep, Works, Is, Recovers, Unfinished
    <3> QED  BY <2>2, <3>1, BusyIf DEF Procs
  <2> QED  BY <1>8, <2>1, <2>2, BootRecoverIs
<1>9. ASSUME NEW p \in Procs, EnsureRead(p) PROVE \A q \in Procs, g \in Files : BusyStep(q, g)
  <2>1. Others(p) /\ \A g \in Files : BusyStep(p, g)
    BY <1>9, EnsureReadIs, PcIs DEF BusyStep, Works, Safe, Deleting, Is
  <2> QED  BY <2>1, BusyIf DEF Procs
<1>10. ASSUME NEW p \in Procs, EnsureCreate(p) PROVE \A q \in Procs, g \in Files : BusyStep(q, g)
  <2>1. Others(p) /\ \A g \in Files : BusyStep(p, g)
    BY <1>10, EnsureCreateIs, PcIs DEF BusyStep, Works, Safe, Deleting, Is, Rows
  <2> QED  BY <2>1, BusyIf DEF Procs
<1>11. ASSUME NEW p \in Procs, EnsureCreated(p) PROVE \A q \in Procs, g \in Files : BusyStep(q, g)
  <2>1. Others(p) /\ \A g \in Files : BusyStep(p, g)
    BY <1>11, EnsureCreatedIs, PcIs DEF BusyStep, Works, Safe, Deleting, Is, Ensured
  <2> QED  BY <2>1, BusyIf DEF Procs
<1>12. ASSUME NEW p \in Procs, EnsureSave(p) PROVE \A q \in Procs, g \in Files : BusyStep(q, g)
  <2>1. proc[p].pc = "save" /\ Others(p)
    BY <1>12, PcIs, EnsureSaveIs
  <2>2. PICK rec : Ensured(p, proc[p].id, rec)
    BY <1>12, EnsureSaveIs
  <2>3. \A g \in Files : BusyStep(p, g)
    BY <2>1, <2>2 DEF Ensured, BusyStep, Works, Safe, Deleting, Is
  <2> QED  BY <2>1, <2>3, BusyIf
<1>13. ASSUME NEW p \in Procs, MarkRead(p) PROVE \A q \in Procs, g \in Files : BusyStep(q, g)
  <2>1. Others(p) /\ \A g \in Files : BusyStep(p, g)
    BY <1>13, MarkReadIs, PcIs DEF BusyStep, Works, Safe, Deleting, Is, Goes
  <2> QED  BY <2>1, BusyIf DEF Procs
<1>14. ASSUME NEW p \in Procs, MarkSave(p) PROVE \A q \in Procs, g \in Files : BusyStep(q, g)
  <2>1. Others(p) /\ \A g \in Files : BusyStep(p, g)
    BY <1>14, MarkSaveIs, PcIs DEF BusyStep, Works, Safe, Deleting, Is
  <2> QED  BY <2>1, BusyIf DEF Procs
<1>15. ASSUME NEW p \in Procs, Put(p) PROVE \A q \in Procs, g \in Files : BusyStep(q, g)
  <2>1. Others(p) /\ \A g \in Files : BusyStep(p, g)
    BY <1>15, PutIs, PcIs, RestingBusy DEF BusyStep, Works, Safe, Deleting, Is, PutOne
  <2> QED  BY <2>1, BusyIf DEF Procs
<1>16. ASSUME NEW p \in Procs, DeleteList(p) PROVE \A q \in Procs, g \in Files : BusyStep(q, g)
  <2>1. proc[p].pc = "delete_list" /\ proc[p].op = "request" /\ Others(p)
    BY <1>16, PcIs, JobIs, DeleteListIs DEF WellFormed, Deleting
  <2>2. \/ IsResting(proc'[p])
        \/ /\ proc'[p].op = "request" /\ proc'[p].file = proc[p].file
           /\ proc'[p].puts = proc[p].puts /\ proc'[p].pc = "delete"
    BY <1>16, <2>1, DeleteListIs DEF Is
  <2>3. \A g \in Files : BusyStep(p, g)
    BY <2>1, <2>2, RestingBusy DEF BusyStep, Works, Safe, Deleting
  <2> QED  BY <2>1, <2>3, BusyIf
<1>17. ASSUME NEW p \in Procs, DeleteVectors(p) PROVE \A q \in Procs, g \in Files : BusyStep(q, g)
  <2>1. Others(p) /\ \A g \in Files : BusyStep(p, g)
    BY <1>17, DeleteVectorsIs, PcIs DEF BusyStep, Works, Safe, Deleting, Is
  <2> QED  BY <2>1, BusyIf DEF Procs
<1>18. ASSUME NEW p \in Procs, DeleteDoc(p) PROVE \A q \in Procs, g \in Files : BusyStep(q, g)
  <2>1. Others(p) /\ \A g \in Files : BusyStep(p, g)
    BY <1>18, DeleteDocIs, PcIs, RestingBusy DEF BusyStep, Works, Safe, Deleting, Is
  <2> QED  BY <2>1, BusyIf DEF Procs
<1>19. ASSUME NEW p \in Procs, StoreFails(p) PROVE \A q \in Procs, g \in Files : BusyStep(q, g)
  <2>1. Others(p) /\ \A g \in Files : BusyStep(p, g)
    BY <1>19, StoreFailsIs, RestingBusy, PcIs DEF BusyStep, Works, Safe, Deleting, Is, IsReleasing
  <2> QED  BY <2>1, BusyIf DEF Procs
<1>20. ASSUME NEW w \in Workers, IdleRecover(w) PROVE \A q \in Procs, g \in Files : BusyStep(q, g)
  <2>1. Others(w) /\ \A g \in Files : BusyStep(w, g)
    BY <1>20, IdleRecoverIs, NotNoFile DEF BusyStep, Works, Safe, Deleting, Is, Recovers,
       Unfinished, Procs
  <2> QED  BY <2>1, BusyIf DEF Procs
<1>21. ASSUME NEW w \in Workers, Backfill(w) PROVE \A q \in Procs, g \in Files : BusyStep(q, g)
  <2>1. Others(w) /\ \A g \in Files : BusyStep(w, g)
    BY <1>21, BackfillIs, NotNoFile DEF BusyStep, Works, Safe, Deleting, Is, Missing, Procs
  <2> QED  BY <2>1, BusyIf DEF Procs
<1>22. ASSUME NEW w \in Workers, Get(w) PROVE \A q \in Procs, g \in Files : BusyStep(q, g)
  <2>1. Others(w) /\ \A g \in Files : BusyStep(w, g)
    BY <1>22, GetIs, NotNoFile DEF BusyStep, Works, Safe, Deleting, Is, Procs
  <2> QED  BY <2>1, BusyIf DEF Procs
<1>23. ASSUME NEW w \in Workers, GetFile(w) PROVE \A q \in Procs, g \in Files : BusyStep(q, g)
  <2>1. Others(w) /\ \A g \in Files : BusyStep(w, g)
    BY <1>23, GetFileIs, PcIs DEF BusyStep, Works, Safe, Deleting, Is, IsReleasing, Procs
  <2> QED  BY <2>1, BusyIf DEF Procs
<1>24. ASSUME NEW w \in Workers, MarkRunning(w) PROVE \A q \in Procs, g \in Files : BusyStep(q, g)
  <2>1. Others(w) /\ \A g \in Files : BusyStep(w, g)
    BY <1>24, MarkRunningIs, PcIs DEF BusyStep, Works, Safe, Deleting, Is, Procs
  <2> QED  BY <2>1, BusyIf DEF Procs
<1>25. ASSUME NEW w \in Workers, ClearVectors(w) PROVE \A q \in Procs, g \in Files : BusyStep(q, g)
  <2>1. Others(w) /\ \A g \in Files : BusyStep(w, g)
    BY <1>25, ClearVectorsIs, PcIs DEF BusyStep, Works, Safe, Deleting, Is, Goes, Procs
  <2> QED  BY <2>1, BusyIf DEF Procs
<1>26. ASSUME NEW w \in Workers, UpsertVectors(w) PROVE \A q \in Procs, g \in Files : BusyStep(q, g)
  <2>1. Others(w) /\ \A g \in Files : BusyStep(w, g)
    BY <1>26, UpsertVectorsIs, PcIs DEF BusyStep, Works, Safe, Deleting, Is, Goes, Procs
  <2> QED  BY <2>1, BusyIf DEF Procs
<1>27. ASSUME NEW w \in Workers, Complete(w) PROVE \A q \in Procs, g \in Files : BusyStep(q, g)
  <2>1. Others(w) /\ \A g \in Files : BusyStep(w, g)
    BY <1>27, CompleteIs, PcIs DEF BusyStep, Works, Safe, Deleting, Is, IsReleasing, Procs
  <2> QED  BY <2>1, BusyIf DEF Procs
<1>28. ASSUME NEW w \in Workers, IndexingFails(w) PROVE \A q \in Procs, g \in Files : BusyStep(q, g)
  <2>1. Others(w) /\ \A g \in Files : BusyStep(w, g)
    BY <1>28, IndexingFailsIs, PcIs DEF BusyStep, Works, Safe, Deleting, Is, Goes, Procs
  <2> QED  BY <2>1, BusyIf DEF Procs
<1>29. ASSUME NEW w \in Workers, SaveFailed(w) PROVE \A q \in Procs, g \in Files : BusyStep(q, g)
  <2>1. Others(w) /\ \A g \in Files : BusyStep(w, g)
    BY <1>29, SaveFailedIs, PcIs DEF BusyStep, Works, Safe, Deleting, Is, Procs
  <2> QED  BY <2>1, BusyIf DEF Procs
<1>30. ASSUME NEW w \in Workers, Retry(w) PROVE \A q \in Procs, g \in Files : BusyStep(q, g)
  <2>1. Others(w) /\ \A g \in Files : BusyStep(w, g)
    BY <1>30, RetryIs, RestingBusy DEF BusyStep, Works, Safe, Deleting, Is, Procs
  <2> QED  BY <2>1, BusyIf DEF Procs
<1>31. ASSUME NEW w \in Workers, GiveUp(w) PROVE \A q \in Procs, g \in Files : BusyStep(q, g)
  <2>1. Others(w) /\ \A g \in Files : BusyStep(w, g)
    BY <1>31, GiveUpIs, PcIs DEF BusyStep, Works, Safe, Deleting, Is, IsReleasing, Procs
  <2> QED  BY <2>1, BusyIf DEF Procs
<1>32. ASSUME NEW w \in Workers, Release(w) PROVE \A q \in Procs, g \in Files : BusyStep(q, g)
  <2>1. Others(w) /\ \A g \in Files : BusyStep(w, g)
    BY <1>32, ReleaseIs, RestingBusy DEF BusyStep, Works, Safe, Deleting, Is, Procs
  <2> QED  BY <2>1, BusyIf DEF Procs
<1>33. ASSUME NEW w \in Workers, CompleteFails(w) PROVE \A q \in Procs, g \in Files : BusyStep(q, g)
  <2>1. Others(w) /\ \A g \in Files : BusyStep(w, g)
    BY <1>33, CompleteFailsIs, PcIs DEF BusyStep, Works, Safe, Deleting, Is, Goes, Procs
  <2> QED  BY <2>1, BusyIf DEF Procs
<1>34. ASSUME Crash PROVE \A q \in Procs, g \in Files : BusyStep(q, g)
  BY <1>34, CrashIs, RestingBusy DEF BusyStep
<1>35. ASSUME UNCHANGED vars PROVE \A q \in Procs, g \in Files : BusyStep(q, g)
  BY <1>35, BusyKept DEF vars
<1> QED
  BY StepCases, <1>1, <1>2, <1>3, <1>4, <1>5, <1>6, <1>7, <1>8, <1>9, <1>10, <1>11,
    <1>12, <1>13, <1>14, <1>15, <1>16, <1>17, <1>18, <1>19, <1>20, <1>21, <1>22, <1>23,
    <1>24, <1>25, <1>26, <1>27, <1>28, <1>29, <1>30, <1>31, <1>32, <1>33, <1>34, <1>35

\* What a step does to the place of f in the queue.
StatusStep(f) ==
  \/ status'[f] = status[f]
  \/ /\ status[f] = "free" /\ status'[f] = "queued"
     /\ \E p \in Procs : proc[p].pc = "put" /\ f \in proc[p].puts
  \/ /\ status[f] = "queued"
     /\ \E w \in Workers : status'[f] = w /\ proc'[w].pc = "get_file"
  \/ /\ status'[f] = "queued"
     /\ \E w \in Workers : status[f] = w /\ proc[w].pc = "decide" /\ Retry(w)
  \/ /\ status'[f] = "free"
     /\ \E w \in Workers : status[f] = w /\ proc[w].pc = "release"
  \/ status'[f] = "free" /\ Crash

LEMMA StatusKept ==
  ASSUME UNCHANGED status
  PROVE  \A f \in Files : StatusStep(f)
BY DEF StatusStep

LEMMA StatusSteps ==
  ASSUME Basic, Rows, [Next]_vars
  PROVE  \A f \in Files : StatusStep(f)
<1> status \in [Files -> {"free", "queued"} \cup Workers]
  BY DEF Basic, TypeInv, Data
<1>1. ASSUME NEW t \in Threads, NEW f \in Files, Upload(t, f) PROVE \A g \in Files : StatusStep(g)
  BY <1>1, StatusKept DEF Upload, history, storeVars
<1>2. ASSUME NEW t \in Threads, NEW f \in Files, CreateFile(t, f)
      PROVE  \A g \in Files : StatusStep(g)
  BY <1>2, StatusKept DEF CreateFile, history, storeVars
<1>3. ASSUME NEW t \in Threads, NEW f \in Files, ImportFile(t, f)
      PROVE  \A g \in Files : StatusStep(g)
  BY <1>3, StatusKept DEF ImportFile, history, storeVars
<1>4. ASSUME NEW t \in Threads, NEW f \in Files, UpdateFile(t, f)
      PROVE  \A g \in Files : StatusStep(g)
  BY <1>4, StatusKept DEF UpdateFile, history, storeVars
<1>5. ASSUME NEW t \in Threads, NEW f \in Files, FromFile(t, f) PROVE \A g \in Files : StatusStep(g)
  BY <1>5, StatusKept DEF FromFile, history, storeVars
<1>6. ASSUME NEW t \in Threads, NEW f \in Files, DeleteFile(t, f)
      PROVE  \A g \in Files : StatusStep(g)
  BY <1>6, StatusKept DEF DeleteFile, history, storeVars
<1>7. ASSUME NEW t \in Threads, WriteFile(t) PROVE \A g \in Files : StatusStep(g)
  BY <1>7, StatusKept DEF WriteFile, history, storeVars
<1>8. ASSUME NEW t \in Threads, BootRecover(t) PROVE \A g \in Files : StatusStep(g)
  BY <1>8, StatusKept DEF BootRecover, Recover
<1>9. ASSUME NEW p \in Procs, EnsureRead(p) PROVE \A g \in Files : StatusStep(g)
  BY <1>9, StatusKept DEF EnsureRead, history, storeVars
<1>10. ASSUME NEW p \in Procs, EnsureCreate(p) PROVE \A g \in Files : StatusStep(g)
  BY <1>10, StatusKept DEF EnsureCreate, history, storeVars
<1>11. ASSUME NEW p \in Procs, EnsureCreated(p) PROVE \A g \in Files : StatusStep(g)
  BY <1>11, StatusKept DEF EnsureCreated, history, storeVars
<1>12. ASSUME NEW p \in Procs, EnsureSave(p) PROVE \A g \in Files : StatusStep(g)
  BY <1>12, StatusKept DEF EnsureSave, history, storeVars
<1>13. ASSUME NEW p \in Procs, MarkRead(p) PROVE \A g \in Files : StatusStep(g)
  BY <1>13, StatusKept DEF MarkRead, history, storeVars
<1>14. ASSUME NEW p \in Procs, MarkSave(p) PROVE \A g \in Files : StatusStep(g)
  BY <1>14, StatusKept DEF MarkSave, history, storeVars
<1>15. ASSUME NEW p \in Procs, Put(p) PROVE \A g \in Files : StatusStep(g)
  <2>1. proc[p].pc = "put"
    BY <1>15, PcIs
  <2>2. PICK f \in proc[p].puts :
          /\ f \in Files
          /\ \/ status[f] = "free" /\ status' = [status EXCEPT ![f] = "queued"]
             \/ UNCHANGED status
    BY <1>15, PutIs DEF PutOne
  <2>3. status \in [Files -> {"free", "queued"} \cup Workers]
    BY DEF Basic, TypeInv, Data
  <2> QED  BY <2>1, <2>2, <2>3 DEF StatusStep
<1>16. ASSUME NEW p \in Procs, DeleteList(p) PROVE \A g \in Files : StatusStep(g)
  BY <1>16, StatusKept DEF DeleteList, history, storeVars
<1>17. ASSUME NEW p \in Procs, DeleteVectors(p) PROVE \A g \in Files : StatusStep(g)
  BY <1>17, StatusKept DEF DeleteVectors, history, storeVars
<1>18. ASSUME NEW p \in Procs, DeleteDoc(p) PROVE \A g \in Files : StatusStep(g)
  BY <1>18, StatusKept DEF DeleteDoc, history, storeVars
<1>19. ASSUME NEW p \in Procs, StoreFails(p) PROVE \A g \in Files : StatusStep(g)
  BY <1>19, StatusKept DEF StoreFails, history, storeVars
<1>20. ASSUME NEW w \in Workers, IdleRecover(w) PROVE \A g \in Files : StatusStep(g)
  BY <1>20, StatusKept DEF IdleRecover, Recover
<1>21. ASSUME NEW w \in Workers, Backfill(w) PROVE \A g \in Files : StatusStep(g)
  BY <1>21, StatusKept DEF Backfill, history, storeVars
<1>22. ASSUME NEW w \in Workers, Get(w) PROVE \A g \in Files : StatusStep(g)
  BY <1>22, GetIs DEF StatusStep, Is
<1>23. ASSUME NEW w \in Workers, GetFile(w) PROVE \A g \in Files : StatusStep(g)
  BY <1>23, StatusKept DEF GetFile, history, storeVars
<1>24. ASSUME NEW w \in Workers, MarkRunning(w) PROVE \A g \in Files : StatusStep(g)
  BY <1>24, StatusKept DEF MarkRunning, history, storeVars
<1>25. ASSUME NEW w \in Workers, ClearVectors(w) PROVE \A g \in Files : StatusStep(g)
  BY <1>25, StatusKept DEF ClearVectors, history, storeVars
<1>26. ASSUME NEW w \in Workers, UpsertVectors(w) PROVE \A g \in Files : StatusStep(g)
  BY <1>26, StatusKept DEF UpsertVectors, history, storeVars
<1>27. ASSUME NEW w \in Workers, Complete(w) PROVE \A g \in Files : StatusStep(g)
  BY <1>27, StatusKept DEF Complete, history, storeVars
<1>28. ASSUME NEW w \in Workers, IndexingFails(w) PROVE \A g \in Files : StatusStep(g)
  BY <1>28, StatusKept DEF IndexingFails, history, storeVars
<1>29. ASSUME NEW w \in Workers, SaveFailed(w) PROVE \A g \in Files : StatusStep(g)
  BY <1>29, StatusKept DEF SaveFailed, history, storeVars
<1>30. ASSUME NEW w \in Workers, Retry(w) PROVE \A g \in Files : StatusStep(g)
  BY <1>30, RetryIs, PcIs DEF StatusStep
<1>31. ASSUME NEW w \in Workers, GiveUp(w) PROVE \A g \in Files : StatusStep(g)
  BY <1>31, StatusKept DEF GiveUp, history, storeVars
<1>32. ASSUME NEW w \in Workers, Release(w) PROVE \A g \in Files : StatusStep(g)
  BY <1>32, ReleaseIs, PcIs DEF StatusStep
<1>33. ASSUME NEW w \in Workers, CompleteFails(w) PROVE \A g \in Files : StatusStep(g)
  BY <1>33, StatusKept DEF CompleteFails, history, storeVars
<1>34. ASSUME Crash PROVE \A g \in Files : StatusStep(g)
  BY <1>34, CrashIs DEF StatusStep
<1>35. ASSUME UNCHANGED vars PROVE \A g \in Files : StatusStep(g)
  BY <1>35, StatusKept DEF vars
<1> QED
  BY StepCases, <1>1, <1>2, <1>3, <1>4, <1>5, <1>6, <1>7, <1>8, <1>9, <1>10, <1>11,
    <1>12, <1>13, <1>14, <1>15, <1>16, <1>17, <1>18, <1>19, <1>20, <1>21, <1>22, <1>23,
    <1>24, <1>25, <1>26, <1>27, <1>28, <1>29, <1>30, <1>31, <1>32, <1>33, <1>34, <1>35

\* A thread starts to delete only what it made go.
DeleterStep(p) ==
  proc'[p].pc \in Deleting =>
    \/ proc[p].pc \in Deleting /\ proc'[p].file = proc[p].file
    \/ proc'[p].file \in Files /\ ~files'[proc'[p].file].live

LEMMA DeleterIf ==
  ASSUME NEW p \in Procs, Others(p),
         \/ proc'[p].pc \notin Deleting
         \/ proc[p].pc \in Deleting /\ proc'[p].file = proc[p].file
         \/ proc'[p].file \in Files /\ ~files'[proc'[p].file].live
  PROVE  \A q \in Procs : DeleterStep(q)
BY DEF Others, DeleterStep

LEMMA DeleterSteps ==
  ASSUME Basic, Rows, [Next]_vars
  PROVE  \A q \in Procs : DeleterStep(q)
<1>1. ASSUME NEW t \in Threads, NEW f \in Files, Upload(t, f) PROVE \A q \in Procs : DeleterStep(q)
  BY <1>1, UploadIs, DeleterIf DEF Is, Deleting, Procs
<1>2. ASSUME NEW t \in Threads, NEW f \in Files, CreateFile(t, f)
      PROVE  \A q \in Procs : DeleterStep(q)
  BY <1>2, CreateFileIs DEF CreateFile, DeleterStep
<1>3. ASSUME NEW t \in Threads, NEW f \in Files, ImportFile(t, f)
      PROVE  \A q \in Procs : DeleterStep(q)
  BY <1>3, ImportFileIs, DeleterIf DEF Is, Deleting, Procs
<1>4. ASSUME NEW t \in Threads, NEW f \in Files, UpdateFile(t, f)
      PROVE  \A q \in Procs : DeleterStep(q)
  BY <1>4, UpdateFileIs, DeleterIf DEF Is, Deleting, Procs, Requested
<1>5. ASSUME NEW t \in Threads, NEW f \in Files, FromFile(t, f)
      PROVE  \A q \in Procs : DeleterStep(q)
  BY <1>5, FromFileIs, DeleterIf DEF Is, Deleting, Procs, Requested
<1>6. ASSUME NEW t \in Threads, NEW f \in Files, DeleteFile(t, f)
      PROVE  \A q \in Procs : DeleterStep(q)
  <2>1. files'[f].live = FALSE /\ proc'[t].file = f /\ Others(t)
    BY <1>6, DeleteFileIs DEF Requested, Is
  <2> QED  BY <2>1, DeleterIf DEF Procs
<1>7. ASSUME NEW t \in Threads, WriteFile(t) PROVE \A q \in Procs : DeleterStep(q)
  BY <1>7, WriteFileIs, PcIs, DeleterIf DEF Is, Deleting, Procs, IsResting,
     IsReleasing
<1>8. ASSUME NEW t \in Threads, BootRecover(t) PROVE \A q \in Procs : DeleterStep(q)
  BY <1>8, BootRecoverIs, DeleterIf DEF Is, Deleting, Procs, Recovers,
     DeleterStep
<1>9. ASSUME NEW p \in Procs, EnsureRead(p) PROVE \A q \in Procs : DeleterStep(q)
  BY <1>9, EnsureReadIs, PcIs, DeleterIf DEF Is, Deleting
<1>10. ASSUME NEW p \in Procs, EnsureCreate(p) PROVE \A q \in Procs : DeleterStep(q)
  BY <1>10, EnsureCreateIs, DeleterIf DEF Is, Deleting, Rows
<1>11. ASSUME NEW p \in Procs, EnsureCreated(p) PROVE \A q \in Procs : DeleterStep(q)
  BY <1>11, EnsureCreatedIs, DeleterIf DEF Is, Deleting, Ensured
<1>12. ASSUME NEW p \in Procs, EnsureSave(p) PROVE \A q \in Procs : DeleterStep(q)
  BY <1>12, EnsureSaveIs, DeleterIf DEF Is, Deleting, Ensured
<1>13. ASSUME NEW p \in Procs, MarkRead(p) PROVE \A q \in Procs : DeleterStep(q)
  BY <1>13, MarkReadIs, DeleterIf DEF Is, Deleting, Goes
<1>14. ASSUME NEW p \in Procs, MarkSave(p) PROVE \A q \in Procs : DeleterStep(q)
  BY <1>14, MarkSaveIs, DeleterIf DEF Is, Deleting
<1>15. ASSUME NEW p \in Procs, Put(p) PROVE \A q \in Procs : DeleterStep(q)
  BY <1>15, PutIs, DeleterIf DEF Is, Deleting, PutOne, IsResting
<1>16. ASSUME NEW p \in Procs, DeleteList(p) PROVE \A q \in Procs : DeleterStep(q)
  BY <1>16, DeleteListIs, PcIs, DeleterIf DEF Is, Deleting, Procs, IsResting,
     IsReleasing
<1>17. ASSUME NEW p \in Procs, DeleteVectors(p) PROVE \A q \in Procs : DeleterStep(q)
  BY <1>17, DeleteVectorsIs, PcIs, DeleterIf DEF Is, Deleting
<1>18. ASSUME NEW p \in Procs, DeleteDoc(p) PROVE \A q \in Procs : DeleterStep(q)
  BY <1>18, DeleteDocIs, PcIs, DeleterIf DEF Is, Deleting, Procs, IsResting,
     IsReleasing
<1>19. ASSUME NEW p \in Procs, StoreFails(p) PROVE \A q \in Procs : DeleterStep(q)
  BY <1>19, StoreFailsIs, PcIs, DeleterIf DEF Is, Deleting, Procs, IsResting,
     IsReleasing
<1>20. ASSUME NEW w \in Workers, IdleRecover(w) PROVE \A q \in Procs : DeleterStep(q)
  BY <1>20, IdleRecoverIs, DeleterIf DEF Is, Deleting, Procs, Recovers
<1>21. ASSUME NEW w \in Workers, Backfill(w) PROVE \A q \in Procs : DeleterStep(q)
  BY <1>21, BackfillIs, DeleterIf DEF Is, Deleting, Procs
<1>22. ASSUME NEW w \in Workers, Get(w) PROVE \A q \in Procs : DeleterStep(q)
  BY <1>22, GetIs, DeleterIf DEF Is, Deleting, Procs
<1>23. ASSUME NEW w \in Workers, GetFile(w) PROVE \A q \in Procs : DeleterStep(q)
  BY <1>23, GetFileIs, DeleterIf DEF Is, Deleting, Procs, IsReleasing, IsResting
<1>24. ASSUME NEW w \in Workers, MarkRunning(w) PROVE \A q \in Procs : DeleterStep(q)
  BY <1>24, MarkRunningIs, DeleterIf DEF Is, Deleting, Procs
<1>25. ASSUME NEW w \in Workers, ClearVectors(w) PROVE \A q \in Procs : DeleterStep(q)
  BY <1>25, ClearVectorsIs, DeleterIf DEF Is, Deleting, Procs, Goes
<1>26. ASSUME NEW w \in Workers, UpsertVectors(w) PROVE \A q \in Procs : DeleterStep(q)
  BY <1>26, UpsertVectorsIs, DeleterIf DEF Is, Deleting, Procs, Goes
<1>27. ASSUME NEW w \in Workers, Complete(w) PROVE \A q \in Procs : DeleterStep(q)
  BY <1>27, CompleteIs, DeleterIf DEF Is, Deleting, Procs, IsReleasing, IsResting
<1>28. ASSUME NEW w \in Workers, IndexingFails(w) PROVE \A q \in Procs : DeleterStep(q)
  BY <1>28, IndexingFailsIs, DeleterIf DEF Is, Deleting, Procs, Goes
<1>29. ASSUME NEW w \in Workers, SaveFailed(w) PROVE \A q \in Procs : DeleterStep(q)
  BY <1>29, SaveFailedIs, DeleterIf DEF Is, Deleting, Procs
<1>30. ASSUME NEW w \in Workers, Retry(w) PROVE \A q \in Procs : DeleterStep(q)
  BY <1>30, RetryIs, DeleterIf DEF Is, Deleting, Procs, IsReleasing, IsResting
<1>31. ASSUME NEW w \in Workers, GiveUp(w) PROVE \A q \in Procs : DeleterStep(q)
  BY <1>31, GiveUpIs, DeleterIf DEF Is, Deleting, Procs, IsReleasing, IsResting
<1>32. ASSUME NEW w \in Workers, Release(w) PROVE \A q \in Procs : DeleterStep(q)
  BY <1>32, ReleaseIs, DeleterIf DEF Is, Deleting, Procs, IsReleasing, IsResting
<1>33. ASSUME NEW w \in Workers, CompleteFails(w) PROVE \A q \in Procs : DeleterStep(q)
  BY <1>33, CompleteFailsIs, DeleterIf DEF Is, Deleting, Procs, Goes
<1>34. ASSUME Crash PROVE \A q \in Procs : DeleterStep(q)
  BY <1>34, CrashIs DEF DeleterStep, IsResting, Is, Deleting
<1>35. ASSUME UNCHANGED vars PROVE \A q \in Procs : DeleterStep(q)
  BY <1>35 DEF vars, DeleterStep
<1> QED
  BY StepCases, <1>1, <1>2, <1>3, <1>4, <1>5, <1>6, <1>7, <1>8, <1>9, <1>10, <1>11,
    <1>12, <1>13, <1>14, <1>15, <1>16, <1>17, <1>18, <1>19, <1>20, <1>21, <1>22, <1>23,
    <1>24, <1>25, <1>26, <1>27, <1>28, <1>29, <1>30, <1>31, <1>32, <1>33, <1>34, <1>35

\* A document of f that was not one before is written by a thread that works on f.
LEMMA DocsOfStep ==
  ASSUME Basic, Own, [Next]_vars, NEW f \in Files, NEW d \in DocsOf(f)', d \notin DocsOf(f)
  PROVE  \E p \in Procs : proc[p].file = f /\ (HasCopy(proc[p]) \/ proc[p].pc = "save")
<1>1. DocStep /\ d \in ToSet(recent') /\ docs'[d].file = f
  BY DocsStep DEF DocsOf, Own
<1>2. ~UNCHANGED <<docs, recent>>
  BY DEF DocsOf
<1>3. ToSet(recent') \subseteq DocIds
  BY BasicStep, LiveIsDoc DEF Own, Basic, TypeInv, Data, ToSet
<1>4. ASSUME NEW p \in Procs, Made(p) PROVE proc[p].file = f /\ proc[p].pc = "save"
  <2>1. PICK rec \in Document : rec.file = proc[p].file /\ Saved(created + 1, rec)
    BY <1>4 DEF Made
  <2>2. d = created + 1
    BY <1>1, <1>3, <1>4, <2>1, OthersKeep DEF DocsOf, Made
  <2> QED  BY <1>1, <1>4, <2>1, <2>2, SavedIs DEF Made
<1>5. ASSUME NEW p \in Procs, Deleted(p) PROVE FALSE
  <2>1. d # proc[p].id
    BY <1>1, <1>5, RemovedIs DEF Deleted
  <2> QED  BY <1>1, <1>3, <1>5, <2>1, OthersKeep DEF DocsOf, Deleted
<1>6. ASSUME NEW p \in Procs, NEW rec \in Document, Wrote(p, rec)
      PROVE  proc[p].file = f /\ HasCopy(proc[p])
  <2>1. rec.file = proc[p].file /\ HasCopy(proc[p]) /\ Saved(proc[p].id, rec)
    BY <1>2, <1>6 DEF Wrote, Writes
  <2>2. proc[p].id \in DocIds
    BY <2>1, HeldIs, HeldIsDoc DEF Own
  <2>3. d = proc[p].id
    BY <1>1, <1>3, <2>1, <2>2, OthersKeep DEF DocsOf
  <2> QED  BY <1>1, <2>1, <2>2, <2>3, SavedIs
<1> QED  BY <1>1, <1>2, <1>4, <1>5, <1>6 DEF DocStep

-----------------------------------------------------------------------------
(***************************************************************************)
(* Files that are not there                                                *)
(***************************************************************************)
\* The file was deleted, and nothing else went on for it.
Gone(f) == files[f].ver > 0 /\ ~files[f].live /\ f \notin overlapped

\* A file that never was has nothing; on a deleted one only the deletion, or
\* what has yet to learn of it, goes on; a deletion knows that the row is gone.
Unborn == \A f \in Files : files[f].ver = 0 => ~files[f].live /\ Quiet(f) /\ DocsOf(f) = {}
GoneIsLeft == \A f \in Files, p \in Procs : Gone(f) /\ Works(proc[p], f) => proc[p].pc \in Safe
DeleterKnows == \A p \in Procs : proc[p].pc \in Deleting =>
                  ~files[proc[p].file].live \/ proc[p].file \in overlapped
Departed == Unborn /\ GoneIsLeft /\ DeleterKnows

LEMMA QuietIs ==
  ASSUME Basic, NEW f \in Files
  PROVE  Quiet(f) <=> status[f] = "free" /\ \A p \in Procs : ~Works(proc[p], f)
BY DEF Quiet, InFlight, Busy, Works

LEMMA FileTypes ==
  ASSUME Basic
  PROVE  /\ files \in [Files -> [live : BOOLEAN, ver : Versions]]
         /\ \A f \in Files : files[f].ver \in Nat
         /\ \A p \in Procs : proc[p].pc \in Deleting => proc[p].file \in Files
<1>1. files \in [Files -> [live : BOOLEAN, ver : Versions]]
  BY DEF Basic, TypeInv, Data
<1>2. \A p \in Procs : WellFormed(p, proc[p])
  BY JobIs
<1> QED  BY <1>1, <1>2 DEF Versions, WellFormed, Deleting

LEMMA UnbornStep ==
  ASSUME Basic, Own, Departed, [Next]_vars
  PROVE  Unborn'
<1> SUFFICES ASSUME NEW f \in Files, files'[f].ver = 0
             PROVE  ~files'[f].live /\ Quiet(f)' /\ DocsOf(f)' = {}
  BY DEF Unborn
<1>0. Basic' /\ FileStep(f) /\ StatusStep(f) /\ \A p \in Procs : BusyStep(p, f)
  BY BasicStep, FilesStep, StatusSteps, BusySteps DEF Own
<1>1. files'[f] = files[f]
  <2>1. ~Dropped(f)
    BY DEF Dropped, Departed, Unborn
  <2>2. ~Rewritten(f)
    BY FileTypes, QuietIs DEF Rewritten, Departed, Unborn, Works, Procs
  <2> QED  BY <1>0, <2>1, <2>2, FileTypes DEF FileStep, Fresh
<1>2. files[f].ver = 0 /\ ~files[f].live /\ status[f] = "free" /\ DocsOf(f) = {}
      /\ \A p \in Procs : ~Works(proc[p], f)
  BY <1>1, QuietIs DEF Departed, Unborn
<1>3. \A p \in Procs : ~Works(proc'[p], f)
  BY <1>0, <1>1, <1>2 DEF BusyStep, Fresh
<1>4. status'[f] = "free"
  <2>1. "free" \notin Workers
    BY ConstantsAssumption
  <2> QED  BY <1>0, <1>2, <2>1 DEF StatusStep, Works
<1>5. Quiet(f)'
  BY <1>3, <1>4 DEF Quiet, InFlight, Busy, Works
<1>6. DocsOf(f)' = {}
  <2>1. \A d \in DocsOf(f)' : FALSE
    BY <1>2, DocsOfStep DEF Works
  <2> QED  BY <2>1
<1> QED  BY <1>1, <1>2, <1>5, <1>6

LEMMA GoneIsLeftStep ==
  ASSUME Basic, Own, Departed, [Next]_vars
  PROVE  GoneIsLeft'
<1> SUFFICES ASSUME NEW f \in Files, NEW p \in Procs, Gone(f)', Works(proc'[p], f)
             PROVE  proc'[p].pc \in Safe
  BY DEF GoneIsLeft, Works
<1>1. Basic' /\ FileStep(f) /\ BusyStep(p, f)
  BY BasicStep, FilesStep, BusySteps DEF Own
<1>2. CASE files'[f] = files[f] /\ (f \in overlapped' <=> f \in overlapped)
  <2>1. Gone(f)
    BY <1>2 DEF Gone
  <2> QED  BY <1>1, <1>2, <2>1 DEF BusyStep, Departed, GoneIsLeft, Fresh, Safe, Gone
<1>3. CASE Dropped(f)
  <2>1. Quiet(f)
    BY <1>3 DEF Dropped, Gone
  <2>2. PICK t \in Threads : proc'[t].pc = "delete_list" /\ Others(t)
    BY <1>3 DEF Dropped
  <2>3. p # t => Works(proc[p], f)
    BY <2>2 DEF Others
  <2> QED  BY <2>1, <2>2, <2>3, QuietIs DEF Safe, Deleting
<1> QED  BY <1>1, <1>2, <1>3 DEF FileStep, Fresh, Rewritten, Gone

LEMMA DeleterKnowsStep ==
  ASSUME Basic, Own, Departed, [Next]_vars
  PROVE  DeleterKnows'
<1> SUFFICES ASSUME NEW p \in Procs, proc'[p].pc \in Deleting
             PROVE  ~files'[proc'[p].file].live \/ proc'[p].file \in overlapped'
  BY DEF DeleterKnows
<1> DEFINE f == proc'[p].file
<1>1. DeleterStep(p)
  BY DeleterSteps DEF Own
<1>2. CASE ~files'[f].live
  BY <1>2
<1>3. CASE proc[p].pc \in Deleting /\ f = proc[p].file
  <2>1. f \in Files /\ (~files[f].live \/ f \in overlapped) /\ Works(proc[p], f)
    BY <1>3, FileTypes DEF Departed, DeleterKnows, Works
  <2>2. FileStep(f)
    BY <2>1, FilesStep DEF Own
  <2>3. ~Fresh(f)
    BY <2>1, QuietIs DEF Fresh, Departed, Unborn
  <2>4. CASE Rewritten(f)
    <3>1. PICK t \in Threads : proc[t].pc = "write_file" /\ proc[t].file = f
      BY <2>4 DEF Rewritten
    <3>2. t \in Procs /\ Works(proc[t], f) /\ proc[t].pc \notin Safe
      BY <3>1 DEF Procs, Works, Safe, Deleting
    <3>3. ~Gone(f) /\ files[f].ver # 0
      BY <2>1, <3>2, QuietIs DEF Departed, GoneIsLeft, Unborn
    <3>4. f \in overlapped
      BY <2>1, <3>3, FileTypes DEF Gone
    <3> QED  BY <2>2, <3>4 DEF FileStep, Dropped
  <2> QED  BY <2>1, <2>2, <2>3, <2>4 DEF FileStep, Dropped
<1> QED  BY <1>1, <1>2, <1>3 DEF DeleterStep

LEMMA DepartedStep ==
  ASSUME Basic, Own, Departed, [Next]_vars
  PROVE  Departed'
BY UnbornStep, GoneIsLeftStep, DeleterKnowsStep DEF Departed

-----------------------------------------------------------------------------
(***************************************************************************)
(* A deletion leaves nothing behind                                        *)
(***************************************************************************)
LEMMA StaysUndisturbed ==
  ASSUME Basic, Rows, [Next]_vars, Undisturbed'
  PROVE  /\ Undisturbed /\ ~Crash
         /\ \A p \in Procs : ~StoreFails(p) /\ ~CompleteFails(p)
<1> DEFINE Goal == left'.crashes = left.crashes /\ left'.outages = left.outages
<1> left \in [{"requests", "crashes", "outages"} -> Nat]
  BY DEF Basic, TypeInv, Data
<1>a. ~Crash
  BY CrashIs, ConstantsAssumption DEF Undisturbed, Basic, TypeInv, Data
<1>b. ASSUME NEW p \in Procs PROVE ~StoreFails(p)
  BY StoreFailsIs, ConstantsAssumption DEF Undisturbed, Basic, TypeInv, Data
<1>c. ASSUME NEW w \in Workers PROVE ~CompleteFails(w)
  BY CompleteFailsIs, ConstantsAssumption DEF Undisturbed, Basic, TypeInv, Data
<1>d. ASSUME NEW t \in Threads PROVE ~CompleteFails(t)
  <2>1. proc[t].pc # "complete"
    BY JobIs, ConstantsAssumption DEF Procs, WellFormed, Indexing
  <2> QED  BY <2>1, PcIs
<1>e. ASSUME Goal PROVE Undisturbed
  BY <1>e DEF Undisturbed
<1>1. ASSUME NEW t \in Threads, NEW f \in Files, Upload(t, f) PROVE Goal
  BY <1>1 DEF Upload, history, storeVars
<1>2. ASSUME NEW t \in Threads, NEW f \in Files, CreateFile(t, f) PROVE Goal
  BY <1>2 DEF CreateFile, history, storeVars
<1>3. ASSUME NEW t \in Threads, NEW f \in Files, ImportFile(t, f) PROVE Goal
  BY <1>3 DEF ImportFile, history, storeVars
<1>4. ASSUME NEW t \in Threads, NEW f \in Files, UpdateFile(t, f) PROVE Goal
  BY <1>4, OneLess DEF UpdateFile, Arrives, Basic, TypeInv
<1>5. ASSUME NEW t \in Threads, NEW f \in Files, FromFile(t, f) PROVE Goal
  BY <1>5, OneLess DEF FromFile, Arrives, Basic, TypeInv
<1>6. ASSUME NEW t \in Threads, NEW f \in Files, DeleteFile(t, f) PROVE Goal
  BY <1>6, OneLess DEF DeleteFile, Arrives, Basic, TypeInv
<1>7. ASSUME NEW t \in Threads, WriteFile(t) PROVE Goal
  BY <1>7 DEF WriteFile, history, storeVars
<1>8. ASSUME NEW t \in Threads, BootRecover(t) PROVE Goal
  BY <1>8 DEF BootRecover, Recover
<1>9. ASSUME NEW p \in Procs, EnsureRead(p) PROVE Goal
  BY <1>9 DEF EnsureRead, history, storeVars
<1>10. ASSUME NEW p \in Procs, EnsureCreate(p) PROVE Goal
  BY <1>10 DEF EnsureCreate, history, storeVars
<1>11. ASSUME NEW p \in Procs, EnsureCreated(p) PROVE Goal
  BY <1>11 DEF EnsureCreated, history, storeVars
<1>12. ASSUME NEW p \in Procs, EnsureSave(p) PROVE Goal
  BY <1>12 DEF EnsureSave, history, storeVars
<1>13. ASSUME NEW p \in Procs, MarkRead(p) PROVE Goal
  BY <1>13 DEF MarkRead, history, storeVars
<1>14. ASSUME NEW p \in Procs, MarkSave(p) PROVE Goal
  BY <1>14 DEF MarkSave, history, storeVars
<1>15. ASSUME NEW p \in Procs, Put(p) PROVE Goal
  BY <1>15 DEF Put, history, storeVars
<1>16. ASSUME NEW p \in Procs, DeleteList(p) PROVE Goal
  BY <1>16 DEF DeleteList, history, storeVars
<1>17. ASSUME NEW p \in Procs, DeleteVectors(p) PROVE Goal
  BY <1>17 DEF DeleteVectors, history, storeVars
<1>18. ASSUME NEW p \in Procs, DeleteDoc(p) PROVE Goal
  BY <1>18 DEF DeleteDoc, history, storeVars
<1>19. ASSUME NEW p \in Procs, StoreFails(p) PROVE Goal
  BY <1>19, <1>b
<1>20. ASSUME NEW w \in Workers, IdleRecover(w) PROVE Goal
  BY <1>20 DEF IdleRecover, Recover
<1>21. ASSUME NEW w \in Workers, Backfill(w) PROVE Goal
  BY <1>21 DEF Backfill, history, storeVars
<1>22. ASSUME NEW w \in Workers, Get(w) PROVE Goal
  BY <1>22 DEF Get, history, storeVars
<1>23. ASSUME NEW w \in Workers, GetFile(w) PROVE Goal
  BY <1>23 DEF GetFile, history, storeVars
<1>24. ASSUME NEW w \in Workers, MarkRunning(w) PROVE Goal
  BY <1>24 DEF MarkRunning, history, storeVars
<1>25. ASSUME NEW w \in Workers, ClearVectors(w) PROVE Goal
  BY <1>25 DEF ClearVectors, history, storeVars
<1>26. ASSUME NEW w \in Workers, UpsertVectors(w) PROVE Goal
  BY <1>26 DEF UpsertVectors, history, storeVars
<1>27. ASSUME NEW w \in Workers, Complete(w) PROVE Goal
  BY <1>27 DEF Complete, history, storeVars
<1>28. ASSUME NEW w \in Workers, IndexingFails(w) PROVE Goal
  BY <1>28 DEF IndexingFails, history, storeVars
<1>29. ASSUME NEW w \in Workers, SaveFailed(w) PROVE Goal
  BY <1>29 DEF SaveFailed, history, storeVars
<1>30. ASSUME NEW w \in Workers, Retry(w) PROVE Goal
  BY <1>30 DEF Retry, history, storeVars
<1>31. ASSUME NEW w \in Workers, GiveUp(w) PROVE Goal
  BY <1>31 DEF GiveUp, history, storeVars
<1>32. ASSUME NEW w \in Workers, Release(w) PROVE Goal
  BY <1>32 DEF Release, history, storeVars
<1>33. ASSUME NEW w \in Workers, CompleteFails(w) PROVE Goal
  BY <1>33, <1>c
<1>34. ASSUME Crash PROVE Goal
  BY <1>34, <1>a
<1>35. ASSUME UNCHANGED vars PROVE Goal
  BY <1>35 DEF vars
<1> HIDE DEF Goal
<1>36. Goal
  BY StepCases, <1>1, <1>2, <1>3, <1>4, <1>5, <1>6, <1>7, <1>8, <1>9, <1>10, <1>11,
    <1>12, <1>13, <1>14, <1>15, <1>16, <1>17, <1>18, <1>19, <1>20, <1>21, <1>22, <1>23,
    <1>24, <1>25, <1>26, <1>27, <1>28, <1>29, <1>30, <1>31, <1>32, <1>33, <1>34, <1>35
<1> QED
  BY <1>a, <1>b, <1>c, <1>d, <1>e, <1>36 DEF Procs

\* How a deletion goes on.
DeletionStep(p) ==
  \/ proc'[p] = proc[p]
  \/ proc[p].pc = "delete_list" /\ UNCHANGED <<docs, recent>>
     /\ \/ DocsOf(proc[p].file) = {}
        \/ /\ proc'[p].pc = "delete" /\ proc'[p].file = proc[p].file
           /\ proc'[p].todo = DocsOf(proc[p].file)
  \/ /\ proc[p].pc = "delete" /\ proc'[p].pc = "delete_doc" /\ proc'[p].file = proc[p].file
     /\ proc[p].todo \subseteq {proc'[p].id} \cup proc'[p].todo
  \/ proc[p].pc = "delete_doc" /\ Deleted(p)
     /\ \/ proc[p].todo = {}
        \/ /\ proc'[p].pc = "delete" /\ proc'[p].file = proc[p].file
           /\ proc'[p].todo = proc[p].todo

LEMMA NotMoving ==
  ASSUME NEW q, NEW p \in Procs, Others(q), proc[p].pc \in Deleting,
         proc[q].pc \notin Deleting
  PROVE  DeletionStep(p)
<1>1. p # q
  OBVIOUS
<1> QED  BY <1>1 DEF Others, DeletionStep

LEMMA NotMovingWorker ==
  ASSUME Basic, NEW w \in Workers, NEW p \in Procs, Others(w), proc[p].pc \in Deleting,
         proc[w].pc \in Indexing
  PROVE  DeletionStep(p)
BY NotMoving DEF Indexing, Deleting

LEMMA NotMovingIdle ==
  ASSUME NEW q \in Procs, NEW p \in Procs, Others(q), proc[p].pc \in Deleting,
         proc[q] = Resting
  PROVE  DeletionStep(p)
BY RestingIs, NotMoving DEF IsResting, Is, Deleting

LEMMA DeletionSteps ==
  ASSUME Basic, Rows, [Next]_vars, ~Crash, \A q \in Procs : ~StoreFails(q),
         NEW g \in Procs, proc[g].pc \in Deleting
  PROVE  DeletionStep(g)
<1>1. ASSUME NEW t \in Threads, NEW f \in Files, Upload(t, f) PROVE DeletionStep(g)
  BY <1>1, UploadIs, NotMovingIdle DEF Upload, Procs
<1>2. ASSUME NEW t \in Threads, NEW f \in Files, CreateFile(t, f) PROVE DeletionStep(g)
  BY <1>2 DEF CreateFile, DeletionStep
<1>3. ASSUME NEW t \in Threads, NEW f \in Files, ImportFile(t, f) PROVE DeletionStep(g)
  BY <1>3, ImportFileIs, NotMovingIdle DEF ImportFile, Procs
<1>4. ASSUME NEW t \in Threads, NEW f \in Files, UpdateFile(t, f) PROVE DeletionStep(g)
  BY <1>4, UpdateFileIs, NotMovingIdle DEF UpdateFile, Procs
<1>5. ASSUME NEW t \in Threads, NEW f \in Files, FromFile(t, f) PROVE DeletionStep(g)
  BY <1>5, FromFileIs, NotMovingIdle DEF FromFile, Procs
<1>6. ASSUME NEW t \in Threads, NEW f \in Files, DeleteFile(t, f) PROVE DeletionStep(g)
  BY <1>6, DeleteFileIs, NotMovingIdle DEF DeleteFile, Procs
<1>7. ASSUME NEW t \in Threads, WriteFile(t) PROVE DeletionStep(g)
  BY <1>7, WriteFileIs, PcIs, NotMoving DEF Deleting
<1>8. ASSUME NEW t \in Threads, BootRecover(t) PROVE DeletionStep(g)
  BY <1>8, BootRecoverIs, NotMovingIdle DEF BootRecover, Procs, DeletionStep
<1>9. ASSUME NEW p \in Procs, EnsureRead(p) PROVE DeletionStep(g)
  BY <1>9, EnsureReadIs, PcIs, NotMoving DEF Deleting
<1>10. ASSUME NEW p \in Procs, EnsureCreate(p) PROVE DeletionStep(g)
  BY <1>10, EnsureCreateIs, PcIs, NotMoving DEF Deleting, Rows
<1>11. ASSUME NEW p \in Procs, EnsureCreated(p) PROVE DeletionStep(g)
  BY <1>11, EnsureCreatedIs, PcIs, NotMoving DEF Deleting
<1>12. ASSUME NEW p \in Procs, EnsureSave(p) PROVE DeletionStep(g)
  BY <1>12, EnsureSaveIs, PcIs, NotMoving DEF Deleting
<1>13. ASSUME NEW p \in Procs, MarkRead(p) PROVE DeletionStep(g)
  BY <1>13, MarkReadIs, PcIs, NotMoving DEF Deleting
<1>14. ASSUME NEW p \in Procs, MarkSave(p) PROVE DeletionStep(g)
  BY <1>14, MarkSaveIs, PcIs, NotMoving DEF Deleting
<1>15. ASSUME NEW p \in Procs, Put(p) PROVE DeletionStep(g)
  BY <1>15, PutIs, PcIs, NotMoving DEF Deleting
<1>16. ASSUME NEW p \in Procs, DeleteList(p) PROVE DeletionStep(g)
  <2>1. Others(p) /\ proc[p].pc = "delete_list"
    BY <1>16, DeleteListIs, PcIs
  <2>2. \/ DocsOf(proc[p].file) = {}
        \/ /\ proc'[p].pc = "delete" /\ proc'[p].file = proc[p].file
           /\ proc'[p].todo = DocsOf(proc[p].file)
    BY <1>16, DeleteListIs DEF Is
  <2>3. UNCHANGED <<docs, recent>>
    BY <1>16 DEF DeleteList, storeVars
  <2> QED  BY <2>1, <2>2, <2>3 DEF DeletionStep, Others
<1>17. ASSUME NEW p \in Procs, DeleteVectors(p) PROVE DeletionStep(g)
  <2>1. Others(p) /\ proc[p].pc = "delete"
    BY <1>17, DeleteVectorsIs, PcIs
  <2>2. /\ proc'[p].pc = "delete_doc" /\ proc'[p].file = proc[p].file
        /\ proc[p].todo \subseteq {proc'[p].id} \cup proc'[p].todo
    BY <1>17, DeleteVectorsIs DEF Is
  <2> QED  BY <2>1, <2>2 DEF DeletionStep, Others
<1>18. ASSUME NEW p \in Procs, DeleteDoc(p) PROVE DeletionStep(g)
  <2>1. Others(p) /\ proc[p].pc = "delete_doc"
    BY <1>18, DeleteDocIs, PcIs
  <2>2. \/ proc[p].todo = {}
        \/ /\ proc'[p].pc = "delete" /\ proc'[p].file = proc[p].file
           /\ proc'[p].todo = proc[p].todo
    BY <1>18, DeleteDocIs DEF Is
  <2>3. Deleted(p)
    BY <1>18, <2>1, DeleteDocIs DEF Deleted, DeleteDoc, history
  <2> QED  BY <2>1, <2>2, <2>3 DEF DeletionStep, Others
<1>19. ASSUME NEW p \in Procs, StoreFails(p) PROVE DeletionStep(g)
  BY <1>19
<1>20. ASSUME NEW w \in Workers, IdleRecover(w) PROVE DeletionStep(g)
  BY <1>20, IdleRecoverIs, NotMovingIdle DEF IdleRecover, Procs
<1>21. ASSUME NEW w \in Workers, Backfill(w) PROVE DeletionStep(g)
  BY <1>21, BackfillIs, NotMovingIdle DEF Backfill, Procs
<1>22. ASSUME NEW w \in Workers, Get(w) PROVE DeletionStep(g)
  BY <1>22, GetIs, NotMovingIdle DEF Get, Procs
<1>23. ASSUME NEW w \in Workers, GetFile(w) PROVE DeletionStep(g)
  BY <1>23, GetFileIs, PcIs, NotMoving DEF Deleting
<1>24. ASSUME NEW w \in Workers, MarkRunning(w) PROVE DeletionStep(g)
  BY <1>24, MarkRunningIs, PcIs, NotMovingWorker
<1>25. ASSUME NEW w \in Workers, ClearVectors(w) PROVE DeletionStep(g)
  BY <1>25, ClearVectorsIs, PcIs, NotMovingWorker
<1>26. ASSUME NEW w \in Workers, UpsertVectors(w) PROVE DeletionStep(g)
  BY <1>26, UpsertVectorsIs, PcIs, NotMovingWorker
<1>27. ASSUME NEW w \in Workers, Complete(w) PROVE DeletionStep(g)
  BY <1>27, CompleteIs, PcIs, NotMovingWorker
<1>28. ASSUME NEW w \in Workers, IndexingFails(w) PROVE DeletionStep(g)
  BY <1>28, IndexingFailsIs, PcIs, NotMovingWorker
<1>29. ASSUME NEW w \in Workers, SaveFailed(w) PROVE DeletionStep(g)
  BY <1>29, SaveFailedIs, PcIs, NotMovingWorker
<1>30. ASSUME NEW w \in Workers, Retry(w) PROVE DeletionStep(g)
  BY <1>30, RetryIs, PcIs, NotMovingWorker
<1>31. ASSUME NEW w \in Workers, GiveUp(w) PROVE DeletionStep(g)
  BY <1>31, GiveUpIs, PcIs, NotMovingWorker
<1>32. ASSUME NEW w \in Workers, Release(w) PROVE DeletionStep(g)
  BY <1>32, ReleaseIs, PcIs, NotMoving DEF Deleting
<1>33. ASSUME NEW w \in Workers, CompleteFails(w) PROVE DeletionStep(g)
  BY <1>33, CompleteFailsIs, PcIs, NotMovingWorker
<1>34. ASSUME Crash PROVE DeletionStep(g)
  BY <1>34
<1>35. ASSUME UNCHANGED vars PROVE DeletionStep(g)
  BY <1>35 DEF vars, DeletionStep
<1> QED
  BY StepCases, <1>1, <1>2, <1>3, <1>4, <1>5, <1>6, <1>7, <1>8, <1>9, <1>10, <1>11,
    <1>12, <1>13, <1>14, <1>15, <1>16, <1>17, <1>18, <1>19, <1>20, <1>21, <1>22, <1>23,
    <1>24, <1>25, <1>26, <1>27, <1>28, <1>29, <1>30, <1>31, <1>32, <1>33, <1>34, <1>35

\* A deletion that is not over still has every document of the file to delete.
Emptying == \A f \in Files : Undisturbed /\ Gone(f) /\ DocsOf(f) # {} =>
  \E p \in Procs :
    /\ proc[p].file = f
    /\ \/ proc[p].pc = "delete_list"
       \/ proc[p].pc \in {"delete", "delete_doc"} /\ DocsOf(f) \subseteq HeldBy(proc[p])

LEMMA EmptyingStep ==
  ASSUME Basic, Own, Departed, Emptying, [Next]_vars
  PROVE  Emptying'
<1> SUFFICES ASSUME NEW f \in Files, Undisturbed', Gone(f)', DocsOf(f)' # {}
             PROVE  \E p \in Procs :
                      /\ proc'[p].file = f
                      /\ \/ proc'[p].pc = "delete_list"
                         \/ /\ proc'[p].pc \in {"delete", "delete_doc"}
                            /\ DocsOf(f)' \subseteq HeldBy(proc'[p])
  BY DEF Emptying, HeldBy, HasCopy
<1>1. /\ Undisturbed /\ ~Crash /\ (\A p \in Procs : ~StoreFails(p)) /\ FileStep(f)
      /\ GoneIsLeft'
  BY StaysUndisturbed, FilesStep, GoneIsLeftStep DEF Own
<1>2. CASE Dropped(f)
  BY <1>2 DEF Dropped, Procs
<1>3. CASE files'[f] = files[f] /\ (f \in overlapped' <=> f \in overlapped)
  <2>1. Gone(f)
    BY <1>3 DEF Gone
  <2>2. \A p \in Procs : Works(proc[p], f) => proc[p].pc \in Safe
    BY <2>1 DEF Departed, GoneIsLeft
  <2>3. \A p \in Procs : proc[p].file = f => ~HasCopy(proc[p]) /\ proc[p].pc # "save"
    BY <2>2 DEF Works, Safe, HasCopy, Indexing, Deleting
  <2>4. DocsOf(f)' \subseteq DocsOf(f)
    BY <2>3, DocsOfStep
  <2>5. PICK p \in Procs :
          /\ proc[p].file = f
          /\ \/ proc[p].pc = "delete_list"
             \/ proc[p].pc \in {"delete", "delete_doc"} /\ DocsOf(f) \subseteq HeldBy(proc[p])
    BY <1>1, <2>1, <2>4 DEF Emptying
  <2>6. DeletionStep(p)
    BY <1>1, <2>5, DeletionSteps DEF Own, Deleting
  <2>7. CASE proc'[p] = proc[p]
    BY <2>4, <2>5, <2>7
  <2>8. CASE proc[p].pc = "delete_list" /\ proc'[p] # proc[p]
    <3>1. DocsOf(f) # {}
      BY <2>4
    <3>2. proc'[p].pc = "delete" /\ proc'[p].file = f /\ proc'[p].todo = DocsOf(f)
      BY <2>5, <2>6, <2>8, <3>1 DEF DeletionStep
    <3> QED  BY <2>4, <3>2, HeldIs
  <2>9. CASE proc[p].pc = "delete" /\ proc'[p] # proc[p]
    <3>1. /\ proc'[p].pc = "delete_doc" /\ proc'[p].file = f
          /\ proc[p].todo \subseteq {proc'[p].id} \cup proc'[p].todo
      BY <2>5, <2>6, <2>9 DEF DeletionStep
    <3>2. HeldBy(proc[p]) = proc[p].todo /\ HeldBy(proc'[p]) = {proc'[p].id} \cup proc'[p].todo
      BY <2>9, <3>1, HeldIs
    <3> QED  BY <2>4, <2>5, <2>9, <3>1, <3>2
  <2>10. CASE proc[p].pc = "delete_doc" /\ proc'[p] # proc[p]
    <3>1. /\ Deleted(p)
          /\ \/ proc[p].todo = {}
             \/ /\ proc'[p].pc = "delete" /\ proc'[p].file = f
                /\ proc'[p].todo = proc[p].todo
      BY <2>5, <2>6, <2>10 DEF DeletionStep
    <3>2. HeldBy(proc[p]) = {proc[p].id} \cup proc[p].todo
      BY <2>10, HeldIs
    <3>3. proc[p].id \notin DocsOf(f)'
      BY <3>1, RemovedIs DEF Deleted, DocsOf
    <3>4. DocsOf(f)' \subseteq proc[p].todo
      BY <2>4, <2>5, <2>10, <3>2, <3>3
    <3> QED  BY <3>1, <3>4, HeldIs
  <2> QED  BY <2>5, <2>7, <2>8, <2>9, <2>10
<1> QED  BY <1>1, <1>2, <1>3 DEF FileStep, Fresh, Rewritten, Gone

-----------------------------------------------------------------------------
(***************************************************************************)
(* The invariant of the pipeline's deletions, and what follows from it     *)
(***************************************************************************)
Deletions == Basic /\ Own /\ Departed /\ Emptying

LEMMA InitIsBasic ==
  ASSUME Init
  PROVE  Basic
<1>1. Data
  <2>1. MaxDocs \in Nat /\ MaxVersion \in Nat /\ 0 \in Versions /\ 0 \in 0 .. MaxDocs
        /\ 0 \in 0 .. MaxAttempts
    BY ConstantsAssumption DEF Versions, MaxAttempts
  <2>2. files \in [Files -> [live : BOOLEAN, ver : Versions]]
    BY <2>1 DEF Init
  <2>3. recent \in Seq(DocIds) /\ IsInjective(recent)
    BY DEF Init, IsInjective
  <2>4. /\ left \in [{"requests", "crashes", "outages"} -> Nat]
        /\ left.crashes <= MaxCrashes /\ left.outages <= MaxOutages
    BY ConstantsAssumption DEF Init
  <2>5. status \in [Files -> {"free", "queued"} \cup Workers]
    BY DEF Init, Queue!Init
  <2> QED  BY <2>1, <2>2, <2>3, <2>4, <2>5, ChunksAre DEF Init, Data
<1>2. \A p \in Procs : proc[p] = Resting
  BY DEF Init
<1>3. Resting \in Jobs /\ IsResting(Resting) /\ \A p \in Procs : WellFormed(p, Resting)
  BY RestingIs
<1>4. proc \in [Procs -> Jobs]
  BY <1>3 DEF Init
<1>5. QueueOK(status, proc)
  BY <1>2, <1>3, ConstantsAssumption DEF Init, Queue!Init, QueueOK, IsResting, Is, Procs
<1> QED  BY <1>1, <1>2, <1>3, <1>4, <1>5 DEF Basic, TypeInv

LEMMA InitIsDeletions ==
  ASSUME Init
  PROVE  Deletions
<1>1. Basic
  BY InitIsBasic
<1>2. ToSet(recent) = {} /\ \A f \in Files : DocsOf(f) = {}
  BY DEF Init, DocsOf, ToSet
<1>3. \A p \in Procs : IsResting(proc[p])
  BY RestingIs DEF Init
<1>4. \A p \in Procs : HeldBy(proc[p]) = {} /\ proc[p].pc \notin Deleting
  BY <1>3, HeldIs DEF IsResting, Is, Indexing, Deleting
<1>5. Own
  BY <1>2, <1>4 DEF Own, Rows, Owned, Apart
<1>6. \A f \in Files : Quiet(f) /\ ~Gone(f) /\ ~files[f].live
  <2> TAKE f \in Files
  <2>1. status[f] = "free" /\ files[f] = [live |-> FALSE, ver |-> 0]
    BY DEF Init, Queue!Init
  <2>2. \A p \in Procs : ~Works(proc[p], f)
    BY <1>3, NotNoFile DEF IsResting, Is, Works
  <2> QED  BY <1>1, <2>1, <2>2, QuietIs DEF Gone
<1>7. Departed
  BY <1>2, <1>4, <1>6 DEF Departed, Unborn, GoneIsLeft, DeleterKnows
<1> QED  BY <1>1, <1>5, <1>6, <1>7 DEF Deletions, Emptying

LEMMA DeletionsStep ==
  ASSUME Deletions, [Next]_vars
  PROVE  Deletions'
<1>1. Basic /\ Own /\ Departed /\ Emptying
  BY DEF Deletions
<1>2. Basic' /\ Rows' /\ Owned' /\ Apart' /\ Departed' /\ Emptying'
  BY <1>1, BasicStep, RowsStep, OwnedStep, DepartedStep, EmptyingStep DEF Own
<1> QED  BY <1>2 DEF Deletions, Own

\* Types: every field of the store, the queue and the threads stays in its set,
\* whatever runs when.
THEOREM TypeCorrect == Spec => []TypeOK
<1>1. Init => Deletions
  BY InitIsDeletions
<1>2. Deletions /\ [Next]_vars => Deletions'
  BY DeletionsStep
<1>3. Deletions => TypeOK
  <2> SUFFICES ASSUME Basic PROVE TypeOK
    BY DEF Deletions
  <2>1. Queue!TypeOK
    BY DEF Basic, TypeInv, Data, Queue!TypeOK, Queue!Statuses, Queue!Places
  <2>2. ASSUME NEW p \in Procs
        PROVE  /\ proc[p].pc \in Pcs /\ proc[p].op \in Ops
               /\ proc[p].file \in Files \cup {NoFile} /\ proc[p].ver \in Versions
               /\ proc[p].id \in DocIds \cup {NoDoc} /\ proc[p].doc \in Document \cup {Blank}
               /\ proc[p].puts \subseteq Files /\ proc[p].asks \in BOOLEAN
               /\ proc[p].op = "sweep" => proc[p].todo \subseteq Files \X Versions
               /\ proc[p].op # "sweep" => proc[p].todo \subseteq DocIds
    BY JobIs DEF Jobs, WellFormed
  <2>3. DOMAIN proc = Procs
    BY DEF Basic, TypeInv
  <2>4. Data
    BY DEF Basic, TypeInv
  <2> QED  BY <2>1, <2>2, <2>3, <2>4 DEF TypeOK, Data
<1> QED  BY <1>1, <1>2, <1>3, PTL DEF Spec

\* DELETE /files/{id} alone with its file leaves no document of it, for every
\* number of threads, workers, files and requests.
THEOREM DeleteLeavesNothingHolds == Spec => []DeleteLeavesNothing
<1>1. Init => Deletions
  BY InitIsDeletions
<1>2. Deletions /\ [Next]_vars => Deletions'
  BY DeletionsStep
<1>3. Deletions => DeleteLeavesNothing
  <2> SUFFICES ASSUME Deletions, NEW f \in Files, Undisturbed, Gone(f), Quiet(f)
               PROVE  DocsOf(f) = {}
    BY DEF DeleteLeavesNothing, Gone
  <2>1. \A p \in Procs : proc[p].file # f
    BY DEF Quiet, Busy
  <2> QED  BY <2>1 DEF Deletions, Emptying
<1> QED  BY <1>1, <1>2, <1>3, PTL DEF Spec

-----------------------------------------------------------------------------
(***************************************************************************)
(* Files that are there                                                    *)
(***************************************************************************)
\* The file is there, and was never deleted in the midst of other work.
Calm(f) == files[f].live /\ f \notin overlapped

LEMMA CalmStep ==
  ASSUME Deletions, [Next]_vars, NEW f \in Files, Calm(f)'
  PROVE  \/ Calm(f) /\ (files'[f] = files[f] \/ Rewritten(f))
         \/ Quiet(f) /\ DocsOf(f) = {} /\ UNCHANGED <<docs, recent, vectors>>
<1>1. Basic /\ Own /\ Departed /\ FileStep(f)
  BY FilesStep DEF Deletions, Own
<1>2. CASE files'[f] = files[f] /\ (f \in overlapped' <=> f \in overlapped)
  BY <1>2 DEF Calm
<1>3. CASE Fresh(f) /\ UNCHANGED <<overlapped, docs, recent, vectors>>
  BY <1>1, <1>3 DEF Fresh, Departed, Unborn
<1>4. CASE Rewritten(f) /\ UNCHANGED <<overlapped, docs, recent, vectors>>
  <2>1. PICK t \in Threads : proc[t].pc = "write_file" /\ proc[t].file = f
    BY <1>4 DEF Rewritten
  <2>2. t \in Procs /\ Works(proc[t], f) /\ proc[t].pc \notin Safe
    BY <2>1 DEF Procs, Works, Safe, Deleting
  <2>3. ~Gone(f) /\ files[f].ver # 0
    BY <1>1, <2>2, QuietIs DEF Departed, GoneIsLeft, Unborn
  <2>4. f \notin overlapped
    BY <1>4 DEF Calm
  <2>5. files[f].live
    BY <1>1, <2>3, <2>4, FileTypes DEF Gone
  <2> QED  BY <1>4, <2>4, <2>5 DEF Calm
<1>5. CASE Dropped(f)
  BY <1>5 DEF Dropped, Calm
<1> QED  BY <1>1, <1>2, <1>3, <1>4, <1>5 DEF FileStep

\* Work that goes on for a calm file after a step went on for one before it.
LEMMA CalmWas ==
  ASSUME Deletions, [Next]_vars, NEW f \in Files, Calm(f)',
         NEW p \in Procs, Works(proc[p], f)
  PROVE  Calm(f) /\ (files'[f] = files[f] \/ Rewritten(f))
<1>1. ~Quiet(f)
  BY DEF Quiet, Busy, Works
<1> QED  BY <1>1, CalmStep

\* A document belongs to the thread that holds it.
LEMMA HolderIs ==
  ASSUME Deletions, NEW f \in Files, NEW d \in DocsOf(f), NEW p \in Procs, d \in HeldBy(proc[p])
  PROVE  proc[p].file = f
BY NotNoFile DEF Deletions, Own, Owned, DocsOf

\* Nobody deletes the documents of a calm file.
LEMMA CalmIsKept ==
  ASSUME Deletions, NEW f \in Files, Calm(f), NEW p \in Procs, proc[p].file = f
  PROVE  proc[p].pc \notin Deleting
BY DEF Deletions, Departed, DeleterKnows, Calm

LEMMA DocsKept ==
  ASSUME Deletions, [Next]_vars, NEW f \in Files, Calm(f), NEW d \in DocsOf(f)
  PROVE  d \in DocsOf(f)'
<1>1. Basic /\ Own /\ DocStep /\ d \in ToSet(recent) /\ d \in DocIds /\ docs[d].file = f
  BY DocsStep, LiveIsDoc DEF Deletions, Own, DocsOf, Basic, TypeInv
<1>2. ASSUME NEW p \in Procs, Made(p) PROVE d \in DocsOf(f)'
  <2>1. PICK rec \in Document : Saved(created + 1, rec)
    BY <1>2 DEF Made
  <2>2. created + 1 \in DocIds /\ d # created + 1
    BY <1>1, <1>2 DEF Made
  <2> QED  BY <1>1, <2>1, <2>2, OthersKeep DEF DocsOf
<1>3. ASSUME NEW p \in Procs, Deleted(p) PROVE d \in DocsOf(f)'
  <2>1. proc[p].pc = "delete_doc" /\ proc[p].id \in DocIds /\ Removed(proc[p].id)
    BY <1>3 DEF Deleted
  <2>2. proc[p].id \in HeldBy(proc[p]) /\ proc[p].pc \in Deleting
    BY <2>1, HeldIs DEF Deleting
  <2>3. d # proc[p].id
    BY <2>2, HolderIs, CalmIsKept
  <2> QED  BY <1>1, <2>1, <2>3, OthersKeep DEF DocsOf
<1>4. ASSUME NEW p \in Procs, NEW rec \in Document, Wrote(p, rec) PROVE d \in DocsOf(f)'
  <2>1. HasCopy(proc[p]) /\ rec.file = proc[p].file /\ Writes(proc[p].id, rec)
    BY <1>4 DEF Wrote
  <2>2. proc[p].id \in HeldBy(proc[p]) /\ proc[p].id \in DocIds
    BY <1>1, <2>1, HeldIs, HeldIsDoc DEF Own
  <2>3. CASE UNCHANGED <<docs, recent>>
    BY <1>1, <2>3 DEF DocsOf
  <2>4. CASE Saved(proc[p].id, rec) /\ d = proc[p].id
    <3>1. proc[p].file = f
      BY <2>2, <2>4, HolderIs
    <3> QED  BY <1>1, <2>1, <2>2, <2>4, <3>1, SavedIs DEF DocsOf
  <2>5. CASE Saved(proc[p].id, rec) /\ d # proc[p].id
    BY <1>1, <2>2, <2>5, OthersKeep DEF DocsOf
  <2> QED  BY <2>1, <2>3, <2>4, <2>5 DEF Writes
<1> QED  BY <1>1, <1>2, <1>3, <1>4 DEF DocStep, DocsOf

\* What a thread writes back for a calm file is still in the store: no write
\* of theirs brings a deleted document back or is lost.
CopiesLive == \A p \in Procs, f \in Files :
  HasCopy(proc[p]) /\ proc[p].file = f /\ Calm(f) => proc[p].id \in DocsOf(f)

LEMMA CopiesLiveStep ==
  ASSUME Deletions, CopiesLive, [Next]_vars
  PROVE  CopiesLive'
<1> SUFFICES ASSUME NEW p \in Procs, NEW f \in Files,
                    HasCopy(proc'[p]), proc'[p].file = f, Calm(f)'
             PROVE  proc'[p].id \in DocsOf(f)'
  BY DEF CopiesLive, HasCopy
<1> DEFINE d == proc'[p].id
<1>1. Basic /\ Own /\ HoldStep(p) /\ Basic'
  BY HoldsStep, BasicStep DEF Deletions, Own
<1>4. d \in HeldBy(proc'[p])
  BY HeldIs
<1>5. proc[p].file = f
  BY <1>1, <1>4 DEF HoldStep
<1>6. Calm(f)
  BY <1>5, CalmWas DEF Works
<1>7. CASE d \in HeldBy(proc[p])
  <2>1. proc[p].pc \notin Deleting
    BY <1>5, <1>6, CalmIsKept
  <2>2. HasCopy(proc[p]) /\ d = proc[p].id
    BY <1>7, <2>1 DEF HeldBy, Deleting
  <2>3. d \in DocsOf(f)
    BY <1>5, <1>6, <2>2 DEF CopiesLive
  <2> QED  BY <1>6, <2>3, DocsKept
<1>8. CASE d \in DocsOf(proc[p].file) /\ UNCHANGED <<docs, recent, created>>
  BY <1>5, <1>8 DEF DocsOf
<1>9. CASE d = created + 1 /\ Made(p)
  <2>1. PICK rec \in Document : rec.file = f /\ Saved(d, rec)
    BY <1>5, <1>9 DEF Made
  <2>2. d \in DocIds
    BY <1>9 DEF Made
  <2> QED  BY <1>1, <2>1, <2>2, SavedIs DEF DocsOf
<1> QED  BY <1>1, <1>4, <1>7, <1>8, <1>9 DEF HoldStep

-----------------------------------------------------------------------------
(***************************************************************************)
(* How a worker goes from one step of the indexing to the next             *)
(***************************************************************************)
From(w, a, b) == proc[w].pc = a /\ proc'[w].pc = b

\* The copy goes to the document as the worker's next copy.
Kept(w) == Wrote(w, proc'[w].doc) /\ proc'[w].id = proc[w].id

Advance(w) ==
  \/ From(w, "get_file", "ensure") /\ proc'[w].ver = files[proc[w].file].ver
  \/ From(w, "get_file", "release") /\ ~files[proc[w].file].live
  \/ From(w, "ensure", "save") /\ proc'[w].ver = proc[w].ver
  \/ From(w, "save", "created") /\ Carries(proc'[w].doc, proc[w].ver) /\ Made(w)
  \/ From(w, "save", "running") /\ Carries(proc'[w].doc, proc[w].ver) /\ Kept(w)
     /\ proc'[w].doc.status = "pending"
  \/ From(w, "created", "running") /\ Alike(proc'[w].doc, proc[w].doc)
  \/ From(w, "running", "clear") /\ Alike(proc'[w].doc, proc[w].doc) /\ Kept(w)
     /\ proc'[w].doc.status = "running"
  \/ From(w, "clear", "upsert") /\ proc'[w].doc = proc[w].doc /\ proc'[w].id = proc[w].id
  \/ From(w, "clear", "complete") /\ proc'[w].doc = proc[w].doc /\ proc'[w].id = proc[w].id
     /\ Becomes(proc[w].id, Chunks(proc[w].doc))
  \/ From(w, "upsert", "complete") /\ proc'[w].doc = proc[w].doc /\ proc'[w].id = proc[w].id
     /\ Becomes(proc[w].id, Chunks(proc[w].doc))
  \/ proc[w].pc \in {"clear", "upsert", "complete"} /\ proc'[w].pc = "fail"
  \/ From(w, "fail", "decide") /\ Kept(w) /\ proc'[w].doc.status = "failed"
  \/ /\ From(w, "complete", "release")
     /\ \E rec \in Document : rec.status = "completed" /\ Wrote(w, rec)
  \/ From(w, "decide", "release") /\ proc[w].doc.attempts >= MaxAttempts
  \/ StoreFails(w) /\ proc'[w].pc = "release"

\* How a worker goes on.
WorkStep(w) ==
  proc'[w].op = "index" =>
    \/ proc'[w] = proc[w]
    \/ proc'[w].pc = "get_file"
    \/ proc[w].op = "index" /\ proc'[w].file = proc[w].file /\ Advance(w)

LEMMA WorkIf ==
  ASSUME NEW p \in Procs, Others(p),
         proc'[p].op # "index" \/ (p \in Workers => WorkStep(p))
  PROVE  \A w \in Workers : WorkStep(w)
BY DEF Others, WorkStep, Procs

LEMMA WorkSteps ==
  ASSUME Basic, Rows, [Next]_vars
  PROVE  \A v \in Workers : WorkStep(v)
<1>1. ASSUME NEW t \in Threads, NEW f \in Files, Upload(t, f) PROVE \A v \in Workers : WorkStep(v)
  <2>1. Others(t) /\ proc'[t].op # "index"
    BY <1>1, UploadIs DEF Is
  <2> QED  BY <2>1, WorkIf DEF Procs
<1>2. ASSUME NEW t \in Threads, NEW f \in Files, CreateFile(t, f)
      PROVE  \A v \in Workers : WorkStep(v)
  BY <1>2 DEF CreateFile, WorkStep
<1>3. ASSUME NEW t \in Threads, NEW f \in Files, ImportFile(t, f)
      PROVE  \A v \in Workers : WorkStep(v)
  <2>1. Others(t) /\ proc'[t].op # "index"
    BY <1>3, ImportFileIs DEF Is
  <2> QED  BY <2>1, WorkIf DEF Procs
<1>4. ASSUME NEW t \in Threads, NEW f \in Files, UpdateFile(t, f)
      PROVE  \A v \in Workers : WorkStep(v)
  <2>1. Others(t) /\ proc'[t].op # "index"
    BY <1>4, UpdateFileIs DEF Is, Requested
  <2> QED  BY <2>1, WorkIf DEF Procs
<1>5. ASSUME NEW t \in Threads, NEW f \in Files, FromFile(t, f) PROVE \A v \in Workers : WorkStep(v)
  <2>1. Others(t) /\ proc'[t].op # "index"
    BY <1>5, FromFileIs DEF Is, Requested
  <2> QED  BY <2>1, WorkIf DEF Procs
<1>6. ASSUME NEW t \in Threads, NEW f \in Files, DeleteFile(t, f)
      PROVE  \A v \in Workers : WorkStep(v)
  <2>1. Others(t) /\ proc'[t].op # "index"
    BY <1>6, DeleteFileIs DEF Is, Requested
  <2> QED  BY <2>1, WorkIf DEF Procs
<1>7. ASSUME NEW t \in Threads, WriteFile(t) PROVE \A v \in Workers : WorkStep(v)
  <2>1. Others(t) /\ proc[t].op # "index"
    BY <1>7, PcIs, JobIs, WriteFileIs DEF WellFormed, Indexing, Deleting, Procs
  <2>2. proc'[t].op # "index"
    BY <1>7, <2>1, WriteFileIs DEF Is, IsResting
  <2> QED  BY <2>1, <2>2, WorkIf DEF Procs
<1>8. ASSUME NEW t \in Threads, BootRecover(t) PROVE \A v \in Workers : WorkStep(v)
  <2>1. CASE UNCHANGED proc
    BY <2>1 DEF WorkStep
  <2>2. CASE Others(t) /\ Recovers(t)
    BY <2>2, WorkIf DEF Recovers, Is, Procs
  <2> QED  BY <1>8, <2>1, <2>2, BootRecoverIs
<1>9. ASSUME NEW p \in Procs, EnsureRead(p) PROVE \A v \in Workers : WorkStep(v)
  <2>1. Others(p) /\ (proc'[p].op = "index" => WorkStep(p))
    BY <1>9, EnsureReadIs, PcIs DEF Is, WorkStep, Advance, From
  <2> QED  BY <2>1, WorkIf
<1>10. ASSUME NEW p \in Procs, EnsureCreate(p) PROVE \A v \in Workers : WorkStep(v)
  <2>1. Made(p)
    BY <1>10, EnsureCreateIs, PcIs DEF EnsureCreate, Made, history, Rows
  <2> DEFINE rec == [file |-> proc[p].file, status |-> "pending", attempts |-> 0,
                     ver |-> Scope(p), tags |-> {proc[p].ver}]
  <2>a. /\ Others(p)
        /\ Is(proc'[p], "created", proc[p].op, proc[p].file, proc[p].ver, created + 1, rec,
              proc[p].todo, proc[p].puts)
    BY <1>10, EnsureCreateIs DEF Rows
  <2>b. proc[p].op = "index" => Carries(rec, proc[p].ver)
    BY ScopeIs, JobIs DEF Carries, Jobs
  <2> HIDE DEF rec
  <2>2. /\ Others(p) /\ proc'[p].pc = "created" /\ (proc[p].op = "index" => Carries(proc'[p].doc, proc[p].ver))
        /\ proc'[p].file = proc[p].file /\ proc'[p].op = proc[p].op
    BY <2>a, <2>b DEF Is
  <2>3. proc[p].pc = "save"
    BY <1>10, PcIs
  <2>4. proc'[p].op = "index" => WorkStep(p)
    BY <2>1, <2>2, <2>3 DEF WorkStep, Advance, From
  <2> QED  BY <2>2, <2>4, WorkIf
<1>11. ASSUME NEW p \in Procs, EnsureCreated(p) PROVE \A v \in Workers : WorkStep(v)
  <2>1. Others(p) /\ (proc'[p].op = "index" => WorkStep(p))
    BY <1>11, EnsureCreatedIs, PcIs DEF Ensured, Is, WorkStep, Advance, From, Alike
  <2> QED  BY <2>1, WorkIf
<1>12. ASSUME NEW p \in Procs, EnsureSave(p) PROVE \A v \in Workers : WorkStep(v)
  <2>1. PICK rec \in Document :
          /\ proc[p].op = "index" => Carries(rec, proc[p].ver)
          /\ rec.status = "pending" /\ Wrote(p, rec)
          /\ Ensured(p, proc[p].id, rec)
    BY <1>12, EnsureSaveIs DEF EnsureSave, Wrote, history
  <2>2. Others(p) /\ proc[p].pc = "save"
    BY <1>12, EnsureSaveIs, PcIs
  <2>3. proc'[p].op = "index" => WorkStep(p)
    BY <2>1, <2>2 DEF Ensured, Is, WorkStep, Advance, From, Kept
  <2> QED  BY <2>2, <2>3, WorkIf
<1>13. ASSUME NEW p \in Procs, MarkRead(p) PROVE \A v \in Workers : WorkStep(v)
  <2>1. Others(p) /\ proc[p].op # "index"
    BY <1>13, PcIs, JobIs, MarkReadIs DEF WellFormed, Indexing, Deleting, Procs
  <2>2. proc'[p].op # "index"
    BY <1>13, <2>1, MarkReadIs DEF Is, Goes
  <2> QED  BY <2>1, <2>2, WorkIf DEF Procs
<1>14. ASSUME NEW p \in Procs, MarkSave(p) PROVE \A v \in Workers : WorkStep(v)
  <2>1. Others(p) /\ proc[p].op # "index"
    BY <1>14, PcIs, JobIs, MarkSaveIs DEF WellFormed, Indexing, Deleting, Procs
  <2>2. proc'[p].op # "index"
    BY <1>14, <2>1, MarkSaveIs DEF Is
  <2> QED  BY <2>1, <2>2, WorkIf DEF Procs
<1>15. ASSUME NEW p \in Procs, Put(p) PROVE \A v \in Workers : WorkStep(v)
  <2>1. Others(p) /\ proc[p].op # "index"
    BY <1>15, PcIs, JobIs, PutIs DEF WellFormed, Indexing, Deleting, Procs
  <2>2. proc'[p].op # "index"
    BY <1>15, <2>1, PutIs DEF Is, PutOne, IsResting
  <2> QED  BY <2>1, <2>2, WorkIf DEF Procs
<1>16. ASSUME NEW p \in Procs, DeleteList(p) PROVE \A v \in Workers : WorkStep(v)
  <2>1. Others(p) /\ proc[p].op # "index"
    BY <1>16, PcIs, JobIs, DeleteListIs DEF WellFormed, Indexing, Deleting, Procs
  <2>2. proc'[p].op # "index"
    BY <1>16, <2>1, DeleteListIs DEF Is, IsResting
  <2> QED  BY <2>1, <2>2, WorkIf DEF Procs
<1>17. ASSUME NEW p \in Procs, DeleteVectors(p) PROVE \A v \in Workers : WorkStep(v)
  <2>1. Others(p) /\ proc[p].op # "index"
    BY <1>17, PcIs, JobIs, DeleteVectorsIs DEF WellFormed, Indexing, Deleting, Procs
  <2>2. proc'[p].op # "index"
    BY <1>17, <2>1, DeleteVectorsIs DEF Is, IsResting
  <2> QED  BY <2>1, <2>2, WorkIf DEF Procs
<1>18. ASSUME NEW p \in Procs, DeleteDoc(p) PROVE \A v \in Workers : WorkStep(v)
  <2>1. Others(p) /\ proc[p].op # "index"
    BY <1>18, PcIs, JobIs, DeleteDocIs DEF WellFormed, Indexing, Deleting, Procs
  <2>2. proc'[p].op # "index"
    BY <1>18, <2>1, DeleteDocIs DEF Is, IsResting
  <2> QED  BY <2>1, <2>2, WorkIf DEF Procs
<1>19. ASSUME NEW p \in Procs, StoreFails(p) PROVE \A v \in Workers : WorkStep(v)
  <2>1. Others(p) /\ (proc'[p].op = "index" => WorkStep(p))
    BY <1>19, StoreFailsIs DEF Is, IsReleasing, IsResting, WorkStep, Advance
  <2> QED  BY <2>1, WorkIf
<1>20. ASSUME NEW w \in Workers, IdleRecover(w) PROVE \A v \in Workers : WorkStep(v)
  <2>1. Others(w) /\ proc'[w].op # "index"
    BY <1>20, IdleRecoverIs DEF Is, Recovers
  <2> QED  BY <2>1, WorkIf DEF Procs
<1>21. ASSUME NEW w \in Workers, Backfill(w) PROVE \A v \in Workers : WorkStep(v)
  <2>1. Others(w) /\ proc'[w].op # "index"
    BY <1>21, BackfillIs DEF Is
  <2> QED  BY <2>1, WorkIf DEF Procs
<1>22. ASSUME NEW w \in Workers, Get(w) PROVE \A v \in Workers : WorkStep(v)
  <2>1. Others(w) /\ WorkStep(w)
    BY <1>22, GetIs, PcIs DEF Is, WorkStep, Advance, From
  <2> QED  BY <2>1, WorkIf DEF Procs
<1>23. ASSUME NEW w \in Workers, GetFile(w) PROVE \A v \in Workers : WorkStep(v)
  <2>1. Others(w) /\ WorkStep(w)
    BY <1>23, GetFileIs, PcIs DEF Is, IsReleasing, WorkStep, Advance, From
  <2> QED  BY <2>1, WorkIf DEF Procs
<1>24. ASSUME NEW w \in Workers, MarkRunning(w) PROVE \A v \in Workers : WorkStep(v)
  <2>1. PICK rec \in Document :
          /\ rec.file = proc[w].file /\ rec.status = "running" /\ Alike(rec, proc[w].doc)
          /\ Writes(proc[w].id, rec)
          /\ (proc[w].id \in ToSet(recent) => Saved(proc[w].id, rec))
          /\ Is(proc'[w], "clear", "index", proc[w].file, proc[w].ver, proc[w].id, rec,
                proc[w].todo, {})
    BY <1>24, MarkRunningIs
  <2>2. Others(w) /\ proc[w].pc = "running" /\ HasCopy(proc[w]) /\ proc[w].op = "index"
    BY <1>24, MarkRunningIs, WorkerHas, PcIs
  <2>3. Wrote(w, rec)
    BY <1>24, <2>1, <2>2 DEF Wrote, MarkRunning, history
  <2>4. WorkStep(w)
    BY <2>1, <2>2, <2>3 DEF Is, WorkStep, Advance, From, Kept
  <2> QED  BY <2>2, <2>4, WorkIf DEF Procs
<1>25. ASSUME NEW w \in Workers, ClearVectors(w) PROVE \A v \in Workers : WorkStep(v)
  <2>1. Others(w) /\ WorkStep(w)
    BY <1>25, ClearVectorsIs, PcIs, WorkerHas DEF Is, Goes, WorkStep, Advance, From
  <2> QED  BY <2>1, WorkIf DEF Procs
<1>26. ASSUME NEW w \in Workers, UpsertVectors(w) PROVE \A v \in Workers : WorkStep(v)
  <2>1. Others(w) /\ WorkStep(w)
    BY <1>26, UpsertVectorsIs, PcIs, WorkerHas DEF Is, Goes, WorkStep, Advance, From
  <2> QED  BY <2>1, WorkIf DEF Procs
<1>27. ASSUME NEW w \in Workers, Complete(w) PROVE \A v \in Workers : WorkStep(v)
  <2>1. PICK rec \in Document :
          /\ rec.file = proc[w].file /\ rec.status = "completed" /\ Alike(rec, proc[w].doc)
          /\ Writes(proc[w].id, rec)
          /\ (proc[w].id \in ToSet(recent) => Saved(proc[w].id, rec))
    BY <1>27, CompleteIs
  <2>2. /\ Others(w) /\ proc[w].pc = "complete" /\ HasCopy(proc[w]) /\ proc[w].op = "index"
        /\ IsReleasing(w, proc'[w])
    BY <1>27, CompleteIs, WorkerHas, PcIs
  <2>3. Wrote(w, rec)
    BY <1>27, <2>1, <2>2 DEF Wrote, Complete, history
  <2>4. WorkStep(w)
    BY <2>1, <2>2, <2>3 DEF Is, IsReleasing, WorkStep, Advance, From
  <2> QED  BY <2>2, <2>4, WorkIf DEF Procs
<1>28. ASSUME NEW w \in Workers, IndexingFails(w) PROVE \A v \in Workers : WorkStep(v)
  <2>1. Others(w) /\ WorkStep(w)
    BY <1>28, IndexingFailsIs, PcIs, WorkerHas DEF Is, Goes, WorkStep, Advance, From
  <2> QED  BY <2>1, WorkIf DEF Procs
<1>29. ASSUME NEW w \in Workers, SaveFailed(w) PROVE \A v \in Workers : WorkStep(v)
  <2>1. PICK rec \in Document :
          /\ rec.file = proc[w].file /\ rec.status = "failed"
          /\ Writes(proc[w].id, rec)
          /\ (proc[w].id \in ToSet(recent) => Saved(proc[w].id, rec))
          /\ Is(proc'[w], "decide", "index", proc[w].file, proc[w].ver, proc[w].id, rec,
                proc[w].todo, {})
    BY <1>29, SaveFailedIs
  <2>2. Others(w) /\ proc[w].pc = "fail" /\ HasCopy(proc[w]) /\ proc[w].op = "index"
    BY <1>29, SaveFailedIs, WorkerHas, PcIs
  <2>3. Wrote(w, rec)
    BY <1>29, <2>1, <2>2 DEF Wrote, SaveFailed, Is
  <2>4. WorkStep(w)
    BY <2>1, <2>2, <2>3 DEF Is, WorkStep, Advance, From, Kept
  <2> QED  BY <2>2, <2>4, WorkIf DEF Procs
<1>30. ASSUME NEW w \in Workers, Retry(w) PROVE \A v \in Workers : WorkStep(v)
  <2>1. Others(w) /\ proc'[w].op # "index"
    BY <1>30, RetryIs DEF Is, IsResting
  <2> QED  BY <2>1, WorkIf DEF Procs
<1>31. ASSUME NEW w \in Workers, GiveUp(w) PROVE \A v \in Workers : WorkStep(v)
  <2>1. Others(w) /\ IsReleasing(w, proc'[w]) /\ proc[w].pc = "decide" /\ proc[w].op = "index"
    BY <1>31, GiveUpIs, PcIs
  <2>2. proc[w].doc.attempts >= MaxAttempts
    BY <1>31 DEF GiveUp
  <2>3. WorkStep(w)
    BY <2>1, <2>2 DEF Is, IsReleasing, WorkStep, Advance, From
  <2> QED  BY <2>1, <2>3, WorkIf DEF Procs
<1>32. ASSUME NEW w \in Workers, Release(w) PROVE \A v \in Workers : WorkStep(v)
  <2>1. Others(w) /\ proc'[w].op # "index"
    BY <1>32, ReleaseIs DEF Is, IsResting
  <2> QED  BY <2>1, WorkIf DEF Procs
<1>33. ASSUME NEW w \in Workers, CompleteFails(w) PROVE \A v \in Workers : WorkStep(v)
  <2>1. Others(w) /\ WorkStep(w)
    BY <1>33, CompleteFailsIs, PcIs, WorkerHas DEF Is, Goes, WorkStep, Advance, From
  <2> QED  BY <2>1, WorkIf DEF Procs
<1>34. ASSUME Crash PROVE \A v \in Workers : WorkStep(v)
  BY <1>34, CrashIs DEF WorkStep, IsResting, Is, Procs
<1>35. ASSUME UNCHANGED vars PROVE \A v \in Workers : WorkStep(v)
  BY <1>35 DEF vars, WorkStep
<1> QED
  BY StepCases, <1>1, <1>2, <1>3, <1>4, <1>5, <1>6, <1>7, <1>8, <1>9, <1>10, <1>11,
    <1>12, <1>13, <1>14, <1>15, <1>16, <1>17, <1>18, <1>19, <1>20, <1>21, <1>22, <1>23,
    <1>24, <1>25, <1>26, <1>27, <1>28, <1>29, <1>30, <1>31, <1>32, <1>33, <1>34, <1>35

\* What a step does to the chunks of d.
VectorStep(d) ==
  \/ vectors'[d] = vectors[d]
  \/ /\ UNCHANGED <<docs, recent>>
     /\ \/ \E w \in Workers : proc[w].pc \in {"clear", "upsert"} /\ proc[w].id = d
        \/ \E p \in Procs : proc[p].pc = "delete" /\ d \in proc[p].todo

LEMMA VectorsKept ==
  ASSUME UNCHANGED vectors
  PROVE  \A d \in DocIds : VectorStep(d)
BY DEF VectorStep

LEMMA ChunksIf ==
  ASSUME Basic, NEW c, NEW v, Becomes(c, v), UNCHANGED <<docs, recent>>,
         \/ \E w \in Workers : proc[w].pc \in {"clear", "upsert"} /\ proc[w].id = c
         \/ \E p \in Procs : proc[p].pc = "delete" /\ c \in proc[p].todo
  PROVE  \A d \in DocIds : VectorStep(d)
BY DEF VectorStep, Becomes, Basic, TypeInv, Data

LEMMA VectorSteps ==
  ASSUME Basic, Rows, [Next]_vars
  PROVE  \A d \in DocIds : VectorStep(d)
<1>1. ASSUME NEW t \in Threads, NEW f \in Files, Upload(t, f) PROVE \A d \in DocIds : VectorStep(d)
  BY <1>1, VectorsKept DEF Upload
<1>2. ASSUME NEW t \in Threads, NEW f \in Files, CreateFile(t, f)
      PROVE  \A d \in DocIds : VectorStep(d)
  BY <1>2, VectorsKept DEF CreateFile
<1>3. ASSUME NEW t \in Threads, NEW f \in Files, ImportFile(t, f)
      PROVE  \A d \in DocIds : VectorStep(d)
  BY <1>3, VectorsKept DEF ImportFile
<1>4. ASSUME NEW t \in Threads, NEW f \in Files, UpdateFile(t, f)
      PROVE  \A d \in DocIds : VectorStep(d)
  BY <1>4, VectorsKept DEF UpdateFile
<1>5. ASSUME NEW t \in Threads, NEW f \in Files, FromFile(t, f)
      PROVE  \A d \in DocIds : VectorStep(d)
  BY <1>5, VectorsKept DEF FromFile
<1>6. ASSUME NEW t \in Threads, NEW f \in Files, DeleteFile(t, f)
      PROVE  \A d \in DocIds : VectorStep(d)
  BY <1>6, VectorsKept DEF DeleteFile
<1>7. ASSUME NEW t \in Threads, WriteFile(t) PROVE \A d \in DocIds : VectorStep(d)
  BY <1>7, VectorsKept DEF WriteFile
<1>8. ASSUME NEW t \in Threads, BootRecover(t) PROVE \A d \in DocIds : VectorStep(d)
  BY <1>8, VectorsKept DEF BootRecover, Recover
<1>9. ASSUME NEW p \in Procs, EnsureRead(p) PROVE \A d \in DocIds : VectorStep(d)
  BY <1>9, VectorsKept DEF EnsureRead
<1>10. ASSUME NEW p \in Procs, EnsureCreate(p) PROVE \A d \in DocIds : VectorStep(d)
  BY <1>10, VectorsKept DEF EnsureCreate
<1>11. ASSUME NEW p \in Procs, EnsureCreated(p) PROVE \A d \in DocIds : VectorStep(d)
  BY <1>11, VectorsKept DEF EnsureCreated
<1>12. ASSUME NEW p \in Procs, EnsureSave(p) PROVE \A d \in DocIds : VectorStep(d)
  BY <1>12, VectorsKept DEF EnsureSave
<1>13. ASSUME NEW p \in Procs, MarkRead(p) PROVE \A d \in DocIds : VectorStep(d)
  BY <1>13, VectorsKept DEF MarkRead
<1>14. ASSUME NEW p \in Procs, MarkSave(p) PROVE \A d \in DocIds : VectorStep(d)
  BY <1>14, VectorsKept DEF MarkSave
<1>15. ASSUME NEW p \in Procs, Put(p) PROVE \A d \in DocIds : VectorStep(d)
  BY <1>15, VectorsKept DEF Put
<1>16. ASSUME NEW p \in Procs, DeleteList(p) PROVE \A d \in DocIds : VectorStep(d)
  BY <1>16, VectorsKept DEF DeleteList
<1>17. ASSUME NEW p \in Procs, DeleteVectors(p) PROVE \A d \in DocIds : VectorStep(d)
  <2>1. PICK d \in proc[p].todo : vectors' = [vectors EXCEPT ![d] = NoChunks] \/ UNCHANGED vectors
    BY <1>17, DeleteVectorsIs
  <2>2. UNCHANGED <<docs, recent>> /\ proc[p].pc = "delete"
    BY <1>17, PcIs DEF DeleteVectors, storeVars
  <2> QED  BY <2>1, <2>2, VectorsKept, ChunksIf DEF Becomes
<1>18. ASSUME NEW p \in Procs, DeleteDoc(p) PROVE \A d \in DocIds : VectorStep(d)
  BY <1>18, VectorsKept DEF DeleteDoc
<1>19. ASSUME NEW p \in Procs, StoreFails(p) PROVE \A d \in DocIds : VectorStep(d)
  BY <1>19, VectorsKept DEF StoreFails
<1>20. ASSUME NEW w \in Workers, IdleRecover(w) PROVE \A d \in DocIds : VectorStep(d)
  BY <1>20, VectorsKept DEF IdleRecover, Recover
<1>21. ASSUME NEW w \in Workers, Backfill(w) PROVE \A d \in DocIds : VectorStep(d)
  BY <1>21, VectorsKept DEF Backfill
<1>22. ASSUME NEW w \in Workers, Get(w) PROVE \A d \in DocIds : VectorStep(d)
  BY <1>22, VectorsKept DEF Get
<1>23. ASSUME NEW w \in Workers, GetFile(w) PROVE \A d \in DocIds : VectorStep(d)
  BY <1>23, VectorsKept DEF GetFile
<1>24. ASSUME NEW w \in Workers, MarkRunning(w) PROVE \A d \in DocIds : VectorStep(d)
  BY <1>24, VectorsKept DEF MarkRunning
<1>25. ASSUME NEW w \in Workers, ClearVectors(w) PROVE \A d \in DocIds : VectorStep(d)
  <2>1. UNCHANGED <<docs, recent>> /\ proc[w].pc = "clear"
    BY <1>25, PcIs DEF ClearVectors, storeVars
  <2> QED  BY <1>25, <2>1, ClearVectorsIs, ChunksIf
<1>26. ASSUME NEW w \in Workers, UpsertVectors(w) PROVE \A d \in DocIds : VectorStep(d)
  <2>1. UNCHANGED <<docs, recent>> /\ proc[w].pc = "upsert"
    BY <1>26, PcIs DEF UpsertVectors, storeVars
  <2> QED  BY <1>26, <2>1, UpsertVectorsIs, ChunksIf
<1>27. ASSUME NEW w \in Workers, Complete(w) PROVE \A d \in DocIds : VectorStep(d)
  BY <1>27, VectorsKept DEF Complete
<1>28. ASSUME NEW w \in Workers, IndexingFails(w) PROVE \A d \in DocIds : VectorStep(d)
  <2>1. UNCHANGED <<docs, recent>> /\ proc[w].pc \in {"clear", "upsert"}
    BY <1>28, PcIs DEF IndexingFails, storeVars
  <2> QED  BY <1>28, <2>1, IndexingFailsIs, VectorsKept, ChunksIf
<1>29. ASSUME NEW w \in Workers, SaveFailed(w) PROVE \A d \in DocIds : VectorStep(d)
  BY <1>29, VectorsKept DEF SaveFailed
<1>30. ASSUME NEW w \in Workers, Retry(w) PROVE \A d \in DocIds : VectorStep(d)
  BY <1>30, VectorsKept DEF Retry
<1>31. ASSUME NEW w \in Workers, GiveUp(w) PROVE \A d \in DocIds : VectorStep(d)
  BY <1>31, VectorsKept DEF GiveUp
<1>32. ASSUME NEW w \in Workers, Release(w) PROVE \A d \in DocIds : VectorStep(d)
  BY <1>32, VectorsKept DEF Release
<1>33. ASSUME NEW w \in Workers, CompleteFails(w) PROVE \A d \in DocIds : VectorStep(d)
  BY <1>33, VectorsKept DEF CompleteFails
<1>34. ASSUME Crash PROVE \A d \in DocIds : VectorStep(d)
  BY <1>34, VectorsKept DEF Crash
<1>35. ASSUME UNCHANGED vars PROVE \A d \in DocIds : VectorStep(d)
  BY <1>35, VectorsKept DEF vars
<1> QED
  BY StepCases, <1>1, <1>2, <1>3, <1>4, <1>5, <1>6, <1>7, <1>8, <1>9, <1>10, <1>11,
    <1>12, <1>13, <1>14, <1>15, <1>16, <1>17, <1>18, <1>19, <1>20, <1>21, <1>22, <1>23,
    <1>24, <1>25, <1>26, <1>27, <1>28, <1>29, <1>30, <1>31, <1>32, <1>33, <1>34, <1>35

-----------------------------------------------------------------------------
(***************************************************************************)
(* What rests as completed has its chunks                                  *)
(***************************************************************************)
\* A live completed document has the chunks of the version it says, and a
\* worker that is replacing the chunks has marked the document before.
CompletedHasChunks == \A d \in DocIds, f \in Files :
  d \in DocsOf(f) /\ Calm(f) /\ docs[d].status = "completed" => vectors[d] = Chunks(docs[d])
Replacing == \A w \in Workers, f \in Files :
  proc[w].pc \in {"clear", "upsert", "complete"} /\ proc[w].file = f /\ Calm(f) =>
    /\ docs[proc[w].id].status # "completed"
    /\ proc[w].pc = "complete" => vectors[proc[w].id] = Chunks(proc[w].doc)

\* At most one worker has a file.
LEMMA OneWorker ==
  ASSUME Basic, NEW w \in Workers, NEW v \in Workers, NEW f \in Files,
         proc[w].op = "index", proc[w].file = f, proc[v].op = "index", proc[v].file = f
  PROVE  w = v
BY DEF Basic, QueueOK

LEMMA WorkerHolds ==
  ASSUME Deletions, CopiesLive, NEW w \in Workers, proc[w].pc \in Indexing,
         NEW f \in Files, proc[w].file = f, Calm(f)
  PROVE  /\ proc[w].id \in DocsOf(f) /\ proc[w].id \in DocIds /\ proc[w].id \in HeldBy(proc[w])
         /\ proc[w].op = "index" /\ w \in Procs
<1>1. Basic
  BY DEF Deletions
<1>2. HasCopy(proc[w]) /\ proc[w].id \in DocIds /\ w \in Procs /\ proc[w].op = "index"
  BY <1>1, WorkerHas
<1> QED  BY <1>2, HeldIs DEF CopiesLive

LEMMA CompletedHasChunksStep ==
  ASSUME Deletions, CopiesLive, CompletedHasChunks, Replacing, [Next]_vars
  PROVE  CompletedHasChunks'
<1> SUFFICES ASSUME NEW d \in DocIds, NEW f \in Files, d \in DocsOf(f)', Calm(f)',
                    docs'[d].status = "completed"
             PROVE  vectors'[d] = Chunks(docs'[d])
  BY DEF CompletedHasChunks
<1>1. Basic /\ Own /\ DocStep /\ VectorStep(d) /\ ToSet(recent) \subseteq DocIds
      /\ d \in ToSet(recent') /\ docs'[d].file = f
  BY DocsStep, VectorSteps, LiveIsDoc DEF Deletions, Own, Basic, TypeInv, DocsOf
<1>2. CASE UNCHANGED <<docs, recent>>
  <2>1. d \in DocsOf(f)
    BY <1>2 DEF DocsOf
  <2>2. Calm(f)
    BY <2>1, CalmStep
  <2>3. vectors[d] = Chunks(docs[d])
    BY <1>2, <2>1, <2>2 DEF CompletedHasChunks
  <2>4. ASSUME NEW w \in Workers, proc[w].pc \in {"clear", "upsert"}, proc[w].id = d
        PROVE  FALSE
    <3>1. w \in Procs /\ d \in HeldBy(proc[w])
      BY <1>1, <2>4, WorkerHas, HeldIs DEF Indexing
    <3>2. proc[w].file = f
      BY <2>1, <3>1, HolderIs
    <3> QED  BY <1>2, <2>2, <2>4, <3>2 DEF Replacing
  <2>5. ASSUME NEW p \in Procs, proc[p].pc = "delete", d \in proc[p].todo PROVE FALSE
    <3>1. proc[p].file = f
      BY <2>1, <2>5, HolderIs, HeldIs
    <3> QED  BY <2>2, <2>5, <3>1, CalmIsKept DEF Deleting
  <2> QED  BY <1>1, <1>2, <2>3, <2>4, <2>5 DEF VectorStep
<1>3. ASSUME ~UNCHANGED <<docs, recent>> PROVE Calm(f) /\ vectors'[d] = vectors[d]
  BY <1>1, <1>3, CalmStep DEF VectorStep
<1>4. ASSUME NEW e \in DocIds, d # e, (\E rec : Saved(e, rec)) \/ Removed(e),
             ~UNCHANGED <<docs, recent>>
      PROVE  vectors'[d] = Chunks(docs'[d])
  BY <1>1, <1>3, <1>4, OthersKeep DEF CompletedHasChunks, DocsOf
<1>5. ASSUME NEW p \in Procs, Made(p), ~UNCHANGED <<docs, recent>>
      PROVE  vectors'[d] = Chunks(docs'[d])
  <2>1. PICK rec \in Document : rec.status = "pending" /\ Saved(created + 1, rec)
    BY <1>5 DEF Made
  <2>2. created + 1 \in DocIds
    BY <1>5 DEF Made
  <2>3. d # created + 1
    BY <1>1, <2>1, <2>2, SavedIs
  <2> QED  BY <1>4, <1>5, <2>1, <2>2, <2>3
<1>6. ASSUME NEW p \in Procs, Deleted(p), ~UNCHANGED <<docs, recent>>
      PROVE  vectors'[d] = Chunks(docs'[d])
  <2>1. proc[p].id \in DocIds /\ Removed(proc[p].id)
    BY <1>6 DEF Deleted
  <2> QED  BY <1>1, <1>4, <1>6, <2>1, RemovedIs
<1>7. ASSUME NEW p \in Procs, NEW rec \in Document, Wrote(p, rec), ~UNCHANGED <<docs, recent>>
      PROVE  vectors'[d] = Chunks(docs'[d])
  <2>1. HasCopy(proc[p]) /\ rec.file = proc[p].file /\ Saved(proc[p].id, rec)
    BY <1>7 DEF Wrote, Writes
  <2>2. proc[p].id \in DocIds
    BY <1>1, <2>1, HeldIs, HeldIsDoc DEF Own
  <2>3. CASE d = proc[p].id
    <3>1. docs'[d] = rec
      BY <1>1, <2>1, <2>2, <2>3, SavedIs
    <3>2. p \in Workers /\ proc[p].pc = "complete" /\ Alike(rec, proc[p].doc)
      BY <1>7, <3>1 DEF Wrote
    <3>3. proc[p].file = f
      BY <1>1, <2>1, <3>1
    <3> QED  BY <1>3, <1>7, <2>3, <3>1, <3>2, <3>3, AlikeChunks DEF Replacing
  <2> QED  BY <1>4, <1>7, <2>1, <2>2, <2>3
<1> QED  BY <1>1, <1>2, <1>5, <1>6, <1>7 DEF DocStep

LEMMA ReplacingStep ==
  ASSUME Deletions, CopiesLive, Replacing, [Next]_vars
  PROVE  Replacing'
<1> SUFFICES ASSUME NEW w \in Workers, NEW f \in Files,
                    proc'[w].pc \in {"clear", "upsert", "complete"}, proc'[w].file = f, Calm(f)'
             PROVE  /\ docs'[proc'[w].id].status # "completed"
                    /\ proc'[w].pc = "complete" => vectors'[proc'[w].id] = Chunks(proc'[w].doc)
  BY DEF Replacing
<1> DEFINE d == proc[w].id
<1>1. /\ Basic /\ Own /\ Basic' /\ WorkStep(w) /\ DocStep /\ ToSet(recent) \subseteq DocIds
      /\ w \in Procs
  BY BasicStep, WorkSteps, DocsStep, LiveIsDoc DEF Deletions, Own, Basic, TypeInv, Procs
<1>2. proc'[w].op = "index"
  BY <1>1 DEF Basic, WellFormed, Indexing
<1>3. /\ proc[w].op = "index" /\ proc[w].file = f /\ proc'[w].id = d
      /\ proc[w].pc \in Indexing
      /\ \/ From(w, "running", "clear") /\ Kept(w) /\ proc'[w].doc.status = "running"
         \/ From(w, "clear", "upsert")
         \/ /\ From(w, "upsert", "complete") \/ From(w, "clear", "complete")
            /\ proc'[w].doc = proc[w].doc
            /\ Becomes(proc[w].id, Chunks(proc[w].doc))
         \/ proc'[w] = proc[w]
  BY <1>1, <1>2 DEF WorkStep, Advance, From, Kept, Indexing
<1>4. Calm(f)
  BY <1>1, <1>3, CalmWas DEF Works
<1>5. d \in DocsOf(f) /\ d \in DocIds /\ d \in HeldBy(proc[w]) /\ d \in ToSet(recent)
  BY <1>3, <1>4, WorkerHolds DEF DocsOf
<1>6. docs'[d].status # "completed"
  <2>1. CASE From(w, "running", "clear") /\ Kept(w) /\ proc'[w].doc.status = "running"
    <3>1. Saved(d, proc'[w].doc)
      BY <1>5, <2>1 DEF Kept, Wrote
    <3> QED  BY <1>1, <1>5, <2>1, <3>1, SavedIs
  <2>2. CASE proc[w].pc \in {"clear", "upsert", "complete"}
    <3>1. docs[d].status # "completed"
      BY <1>3, <1>4, <2>2 DEF Replacing
    <3>2. CASE UNCHANGED <<docs, recent>>
      BY <3>1, <3>2
    <3>3. ASSUME NEW p \in Procs, Made(p) PROVE docs'[d].status # "completed"
      <4>1. created + 1 \in DocIds /\ d # created + 1 /\ \E rec : Saved(created + 1, rec)
        BY <1>5, <3>3 DEF Made
      <4> QED  BY <1>1, <1>5, <3>1, <4>1, OthersKeep
    <3>4. ASSUME NEW p \in Procs, Deleted(p) PROVE docs'[d].status # "completed"
      <4>1. proc[p].id \in DocIds /\ Removed(proc[p].id)
        BY <3>4 DEF Deleted
      <4>2. CASE d = proc[p].id
        BY <1>1, <4>1, <4>2, RemovedIs DEF Blank
      <4>3. CASE d # proc[p].id
        BY <1>1, <1>5, <3>1, <4>1, <4>3, OthersKeep
      <4> QED  BY <4>2, <4>3
    <3>5. ASSUME NEW p \in Procs, NEW rec \in Document, Wrote(p, rec)
          PROVE  docs'[d].status # "completed"
      <4>1. /\ HasCopy(proc[p])
            /\ Writes(proc[p].id, rec) /\ (proc[p].id \in ToSet(recent) => Saved(proc[p].id, rec))
        BY <3>5 DEF Wrote
      <4>2. proc[p].id \in DocIds /\ proc[p].id \in HeldBy(proc[p])
        BY <1>1, <4>1, HeldIs, HeldIsDoc DEF Own
      <4>3. CASE d = proc[p].id
        <5>1. docs'[d] = rec
          BY <1>1, <1>5, <4>1, <4>2, <4>3, SavedIs
        <5>2. ASSUME rec.status = "completed" PROVE FALSE
          <6>1. p \in Workers /\ proc[p].pc = "complete" /\ IsReleasing(p, proc'[p])
            BY <3>5, <5>2 DEF Wrote
          <6>2. proc[p].file = f /\ proc[p].op = "index"
            BY <1>1, <1>5, <4>2, <4>3, <6>1, HolderIs, WorkerHas DEF Indexing
          <6>3. p = w
            BY <1>1, <1>3, <6>1, <6>2, OneWorker
          <6> QED  BY <6>1, <6>3 DEF IsReleasing, Is
        <5> QED  BY <5>1, <5>2
      <4>4. CASE d # proc[p].id
        BY <1>1, <1>5, <3>1, <4>1, <4>2, <4>4, OthersKeep DEF Writes
      <4> QED  BY <4>3, <4>4
    <3> QED  BY <1>1, <3>2, <3>3, <3>4, <3>5 DEF DocStep
  <2> QED  BY <1>3, <2>1, <2>2 DEF From
<1>7. ASSUME proc'[w].pc = "complete" PROVE vectors'[d] = Chunks(proc'[w].doc)
  <2>1. CASE Becomes(proc[w].id, Chunks(proc[w].doc)) /\ proc'[w].doc = proc[w].doc
    BY <1>1, <1>5, <2>1 DEF Becomes, Basic, TypeInv, Data
  <2>2. CASE proc'[w] = proc[w]
    <3>1. vectors[d] = Chunks(proc[w].doc)
      BY <1>3, <1>4, <1>7, <2>2 DEF Replacing
    <3>2. ASSUME NEW v \in Workers, proc[v].pc \in {"clear", "upsert"}, proc[v].id = d
          PROVE  FALSE
      <4>1. v \in Procs /\ d \in HeldBy(proc[v]) /\ proc[v].op = "index"
        BY <1>1, <3>2, WorkerHas, HeldIs DEF Indexing
      <4>2. proc[v].file = f
        BY <1>5, <4>1, HolderIs
      <4>3. v = w
        BY <1>1, <1>3, <4>1, <4>2, OneWorker
      <4> QED  BY <1>7, <2>2, <3>2, <4>3
    <3>3. ASSUME NEW p \in Procs, proc[p].pc = "delete", d \in proc[p].todo PROVE FALSE
      <4>1. proc[p].file = f
        BY <1>5, <3>3, HolderIs, HeldIs
      <4> QED  BY <1>4, <3>3, <4>1, CalmIsKept DEF Deleting
    <3>4. VectorStep(d)
      BY <1>5, VectorSteps DEF Deletions, Own
    <3> QED  BY <2>2, <3>1, <3>2, <3>3, <3>4 DEF VectorStep
  <2> QED  BY <1>3, <1>7, <2>1, <2>2 DEF From
<1> QED  BY <1>3, <1>6, <1>7

\* The invariant of what searches find.
Searches == Deletions /\ CopiesLive /\ CompletedHasChunks /\ Replacing

LEMMA InitIsSearches ==
  ASSUME Init
  PROVE  Searches
<1>1. Deletions /\ \A p \in Procs : IsResting(proc[p])
  BY InitIsDeletions, RestingIs DEF Init
<1>2. \A p \in Procs : ~HasCopy(proc[p]) /\ proc[p].pc \notin {"clear", "upsert", "complete"}
  BY <1>1 DEF IsResting, Is, HasCopy, Indexing
<1>3. \A f \in Files : DocsOf(f) = {}
  BY DEF Init, DocsOf, ToSet
<1> QED  BY <1>1, <1>2, <1>3 DEF Searches, CopiesLive, CompletedHasChunks, Replacing, Procs

LEMMA SearchesStep ==
  ASSUME Searches, [Next]_vars
  PROVE  Searches'
<1>1. Deletions /\ CopiesLive /\ CompletedHasChunks /\ Replacing
  BY DEF Searches
<1>2. Deletions' /\ CopiesLive' /\ CompletedHasChunks' /\ Replacing'
  BY <1>1, DeletionsStep, CopiesLiveStep, CompletedHasChunksStep, ReplacingStep
<1> QED  BY <1>2 DEF Searches

\* A completed document answers searches with the chunks of its own version,
\* whatever failed and however often the process died.
THEOREM CompletedIsSearchableHolds == Spec => []CompletedIsSearchable
<1>1. Init => Searches
  BY InitIsSearches
<1>2. Searches /\ [Next]_vars => Searches'
  BY SearchesStep
<1>3. Searches => CompletedIsSearchable
  <2> SUFFICES ASSUME Searches, NEW f \in Files, Calm(f), DocsOf(f) # {},
                      docs[NewestDoc(f)].status = "completed"
               PROVE  vectors[NewestDoc(f)] = Chunks(docs[NewestDoc(f)])
    BY DEF CompletedIsSearchable, Calm
  <2>1. Data
    BY DEF Searches, Deletions, Basic, TypeInv
  <2>2. NewestDoc(f) \in DocsOf(f) /\ NewestDoc(f) \in DocIds
    BY <2>1, NewestIs, LiveIsDoc DEF DocsOf
  <2> QED  BY <2>2 DEF Searches, CompletedHasChunks
<1> QED  BY <1>1, <1>2, <1>3, PTL DEF Spec

-----------------------------------------------------------------------------
(***************************************************************************)
(* The newest document of a file after a step                              *)
(***************************************************************************)
NewestSame(f) ==
  /\ DocsOf(f)' = DocsOf(f) /\ NewestDoc(f)' = NewestDoc(f)
  /\ DocsOf(f) # {} => docs'[NewestDoc(f)] = docs[NewestDoc(f)]

LEMMA NewestKept ==
  ASSUME Basic, Basic', NEW f \in Files, NEW d \in DocIds, d \notin DocsOf(f),
         (\E rec : rec.file # f /\ Saved(d, rec)) \/ Removed(d)
  PROVE  NewestSame(f)
<1>1. /\ Data /\ recent' \in Seq(DocIds) /\ IsInjective(recent')
      /\ ToSet(recent) \subseteq DocIds /\ ToSet(recent') \subseteq DocIds
  BY LiveIsDoc DEF Basic, TypeInv, Data, ToSet
<1>2. d \notin DocsOf(f)'
  BY SavedIs, RemovedIs DEF DocsOf
<1>3. \A e \in DocIds : e # d =>
        docs'[e] = docs[e] /\ (e \in ToSet(recent') <=> e \in ToSet(recent))
  BY OthersKeep
<1>4. DocsOf(f)' = DocsOf(f)
  <2>1. \A e \in DocsOf(f)' : e \in DocsOf(f)
    BY <1>1, <1>2, <1>3 DEF DocsOf
  <2>2. \A e \in DocsOf(f) : e \in DocsOf(f)'
    BY <1>1, <1>3 DEF DocsOf
  <2> QED  BY <2>1, <2>2
<1>5. CASE DocsOf(f) = {}
  BY <1>4, <1>5 DEF NewestSame, NewestDoc
<1>6. CASE DocsOf(f) # {}
  <2> DEFINE n == NewestDoc(f)
  <2>1. n \in DocsOf(f) /\ \A e \in DocsOf(f) : Before(recent, e, n)
    BY <1>1, <1>6, NewestIs
  <2> HIDE DEF n
  <2>2. \A e \in DocsOf(f) : Before(recent', e, n)
    <3>1. \A e \in DocsOf(f) : e \in ToSet(recent) \ {d} /\ e \in ToSet(recent')
      BY <1>1, <1>3 DEF DocsOf
    <3> QED  BY <2>1, <3>1 DEF Saved, Removed
  <2>3. DocsOf(f) \subseteq ToSet(recent')
    BY <1>4 DEF DocsOf
  <2>4. Latest(recent', DocsOf(f)) = n
    BY <1>1, <2>1, <2>2, <2>3, LastIsOne
  <2>5. NewestDoc(f)' = n
    BY <1>4, <1>6, <2>4 DEF NewestDoc
  <2>6. docs'[n] = docs[n]
    BY <1>1, <1>3, <2>1 DEF DocsOf
  <2> QED  BY <1>4, <2>5, <2>6 DEF NewestSame, n
<1> QED  BY <1>5, <1>6

LEMMA NewestSaved ==
  ASSUME Basic, Basic', NEW f \in Files, NEW d \in DocIds, NEW rec, rec.file = f, Saved(d, rec)
  PROVE  DocsOf(f)' # {} /\ docs'[NewestDoc(f)'] = rec
<1>1. recent' \in Seq(DocIds) /\ IsInjective(recent')
  BY DEF Basic, TypeInv, Data
<1>2. docs'[d] = rec /\ d \in DocsOf(f)'
  BY SavedIs DEF DocsOf
<1>3. DocsOf(f)' \subseteq ToSet(recent') /\ \A e \in DocsOf(f)' : Before(recent', e, d)
  BY DEF DocsOf, Saved
<1>4. Latest(recent', DocsOf(f)') = d
  BY <1>1, <1>2, <1>3, LastIsOne
<1>5. NewestDoc(f)' = d
  BY <1>2, <1>4 DEF NewestDoc
<1> QED  BY <1>2, <1>5

\* What is written for a calm file becomes the newest of its documents.
LEMMA NewestWritten ==
  ASSUME Deletions, CopiesLive, [Next]_vars, NEW f \in Files, Calm(f),
         NEW p \in Procs, proc[p].file = f, NEW rec \in Document, Wrote(p, rec)
  PROVE  DocsOf(f)' # {} /\ docs'[NewestDoc(f)'] = rec
<1>1. Basic /\ Own /\ Basic'
  BY BasicStep DEF Deletions, Own
<1>2. HasCopy(proc[p]) /\ rec.file = f /\ (proc[p].id \in ToSet(recent) => Saved(proc[p].id, rec))
  BY DEF Wrote
<1>3. proc[p].id \in DocsOf(f) /\ proc[p].id \in DocIds
  BY <1>1, <1>2, HeldIs, HeldIsDoc DEF CopiesLive, Own
<1> QED  BY <1>1, <1>2, <1>3, NewestSaved DEF DocsOf

LEMMA NewestMade ==
  ASSUME Deletions, [Next]_vars, NEW f \in Files, NEW p \in Procs, proc[p].file = f, Made(p)
  PROVE  DocsOf(f)' # {} /\ docs'[NewestDoc(f)'].status = "pending"
<1>1. Basic /\ Basic'
  BY BasicStep DEF Deletions, Own
<1>2. /\ created + 1 \in DocIds
      /\ \E rec : rec.file = f /\ rec.status = "pending" /\ Saved(created + 1, rec)
  BY DEF Made
<1> QED  BY <1>1, <1>2, NewestSaved

LEMMA NewestStep ==
  ASSUME Deletions, CopiesLive, [Next]_vars, NEW f \in Files, Calm(f)
  PROVE  \/ NewestSame(f)
         \/ docs'[NewestDoc(f)'].status = "pending"
         \/ \E p \in Procs, rec \in Document :
              Wrote(p, rec) /\ proc[p].file = f /\ docs'[NewestDoc(f)'] = rec
<1>1. Basic /\ Own /\ Basic' /\ DocStep
  BY BasicStep, DocsStep DEF Deletions, Own
<1>2. CASE UNCHANGED <<docs, recent, created>>
  <2>1. DocsOf(f)' = DocsOf(f)
    BY <1>2 DEF DocsOf
  <2> QED  BY <1>2, <2>1 DEF NewestSame, NewestDoc
<1>3. ASSUME NEW p \in Procs, Made(p), proc[p].file # f PROVE NewestSame(f)
  <2>1. PICK rec \in Document : rec.file = proc[p].file /\ Saved(created + 1, rec)
    BY <1>3 DEF Made
  <2>2. created + 1 \in DocIds /\ created + 1 \notin DocsOf(f)
    BY <1>3 DEF Made, DocsOf
  <2> QED  BY <1>1, <1>3, <2>1, <2>2, NewestKept
<1>4. ASSUME NEW p \in Procs, Deleted(p) PROVE NewestSame(f)
  <2>1. proc[p].pc = "delete_doc" /\ proc[p].id \in DocIds /\ Removed(proc[p].id)
    BY <1>4 DEF Deleted
  <2>2. proc[p].id \in HeldBy(proc[p]) /\ proc[p].pc \in Deleting
    BY <2>1, HeldIs DEF Deleting
  <2>3. proc[p].id \notin DocsOf(f)
    BY <2>2, HolderIs, CalmIsKept
  <2> QED  BY <1>1, <2>1, <2>3, NewestKept
<1>5. ASSUME NEW p \in Procs, NEW rec \in Document, Wrote(p, rec), proc[p].file # f
      PROVE  NewestSame(f)
  <2>1. HasCopy(proc[p]) /\ rec.file = proc[p].file /\ Writes(proc[p].id, rec)
    BY <1>5 DEF Wrote
  <2>2. proc[p].id \in DocIds /\ proc[p].id \in HeldBy(proc[p])
    BY <1>1, <2>1, HeldIs, HeldIsDoc DEF Own
  <2>3. proc[p].id \notin DocsOf(f)
    BY <1>5, <2>2, HolderIs
  <2>4. CASE UNCHANGED <<docs, recent>>
    <3>1. DocsOf(f)' = DocsOf(f)
      BY <2>4 DEF DocsOf
    <3> QED  BY <2>4, <3>1 DEF NewestSame, NewestDoc
  <2>5. CASE Saved(proc[p].id, rec)
    BY <1>1, <1>5, <2>1, <2>2, <2>3, <2>5, NewestKept
  <2> QED  BY <2>1, <2>4, <2>5 DEF Writes
<1> QED  BY <1>1, <1>2, <1>3, <1>4, <1>5, NewestWritten, NewestMade DEF DocStep

-----------------------------------------------------------------------------
(***************************************************************************)
(* Work that ends in a put of the file                                     *)
(***************************************************************************)
Ensuring == {"ensure", "save", "created"}
WillPutBy(j, f) ==
  \/ j.op = "request" /\ j.pc \in Ensuring /\ j.file = f
  \/ j.op = "request" /\ j.pc \in {"mark", "mark_save", "put"} /\ f \in j.puts
  \/ j.op = "sweep" /\ j.pc \in Ensuring
     /\ (j.file = f \/ f \in j.puts \/ \E n \in j.todo : n[1] = f)
  \/ j.op = "sweep" /\ j.pc = "put" /\ f \in j.puts
WillPut(f) == \E p \in Procs : WillPutBy(proc[p], f)

\* A put is not forgotten: the thread goes on to it, or the file is queued, or
\* it is with a worker and the put was refused.
PutStep(p) == \A f \in Files :
  WillPutBy(proc[p], f) => WillPutBy(proc'[p], f) \/ status'[f] = "queued" \/ f \in refused'
\* Only an accepted put takes the mark of a refusal away.
RefusedStep(f) == f \in refused => f \in refused' \/ status'[f] = "queued"
PutsStep == (\A p \in Procs : PutStep(p)) /\ \A f \in Files : RefusedStep(f)

LEMMA PutsIf ==
  ASSUME NEW p \in Procs, Others(p), PutStep(p), UNCHANGED refused
  PROVE  PutsStep
BY DEF Others, PutsStep, PutStep, RefusedStep

LEMMA PutsIfNot ==
  ASSUME NEW p \in Procs, Others(p), UNCHANGED refused, \A f \in Files : ~WillPutBy(proc[p], f)
  PROVE  PutsStep
BY PutsIf DEF PutStep

LEMMA PutsKept ==
  ASSUME UNCHANGED <<proc, refused>>
  PROVE  PutsStep
BY DEF PutsStep, PutStep, RefusedStep

LEMMA RestingPuts ==
  ASSUME NEW p, proc[p] = Resting
  PROVE  \A f \in Files : ~WillPutBy(proc[p], f)
BY RestingIs DEF IsResting, Is, WillPutBy

LEMMA WorkerPuts ==
  ASSUME Basic, NEW p \in Procs, proc[p].pc \notin Ensuring \cup {"mark", "mark_save", "put"}
  PROVE  \A f \in Files : ~WillPutBy(proc[p], f)
BY DEF WillPutBy

LEMMA PutsSteps ==
  ASSUME Basic, Rows, [Next]_vars, ~Crash, \A p \in Procs : ~StoreFails(p)
  PROVE  PutsStep
<1>1. ASSUME NEW t \in Threads, NEW f \in Files, Upload(t, f) PROVE PutsStep
  BY <1>1, UploadIs, RestingPuts, PutsIfNot DEF Upload, history, Procs
<1>2. ASSUME NEW t \in Threads, NEW f \in Files, CreateFile(t, f) PROVE PutsStep
  BY <1>2, PutsKept DEF CreateFile, history
<1>3. ASSUME NEW t \in Threads, NEW f \in Files, ImportFile(t, f) PROVE PutsStep
  BY <1>3, ImportFileIs, RestingPuts, PutsIfNot DEF ImportFile, history, Procs
<1>4. ASSUME NEW t \in Threads, NEW f \in Files, UpdateFile(t, f) PROVE PutsStep
  BY <1>4, UpdateFileIs, RestingPuts, PutsIfNot DEF UpdateFile, history, Procs
<1>5. ASSUME NEW t \in Threads, NEW f \in Files, FromFile(t, f) PROVE PutsStep
  BY <1>5, FromFileIs, RestingPuts, PutsIfNot DEF FromFile, history, Procs
<1>6. ASSUME NEW t \in Threads, NEW f \in Files, DeleteFile(t, f) PROVE PutsStep
  BY <1>6, DeleteFileIs, RestingPuts, PutsIfNot DEF DeleteFile, Procs
<1>7. ASSUME NEW t \in Threads, WriteFile(t) PROVE PutsStep
  <2>1. Others(t) /\ t \in Procs /\ proc[t].pc \notin Ensuring \cup {"mark", "mark_save", "put"}
    BY <1>7, WriteFileIs, PcIs DEF Ensuring, Indexing, Procs
  <2>2. UNCHANGED refused
    BY <1>7 DEF WriteFile, history
  <2> QED  BY <2>1, <2>2, WorkerPuts, PutsIfNot
<1>8. ASSUME NEW t \in Threads, BootRecover(t) PROVE PutsStep
  <2>1. UNCHANGED refused /\ proc[t] = Resting
    BY <1>8 DEF BootRecover, Recover, history
  <2> QED  BY <1>8, <2>1, BootRecoverIs, PutsKept, RestingPuts, PutsIfNot DEF Procs
<1>9. ASSUME NEW p \in Procs, EnsureRead(p) PROVE PutsStep
  <2>1. Others(p) /\ proc[p].pc = "ensure"
    BY <1>9, EnsureReadIs, PcIs DEF Rows
  <2>2. UNCHANGED refused
    BY <1>9 DEF EnsureRead, history
  <2>3. PutStep(p)
    BY <1>9, <2>1, EnsureReadIs DEF PutStep, WillPutBy, Ensuring, Is
  <2> QED  BY <2>1, <2>2, <2>3, PutsIf
<1>10. ASSUME NEW p \in Procs, EnsureCreate(p) PROVE PutsStep
  <2>1. Others(p) /\ proc[p].pc = "save"
    BY <1>10, EnsureCreateIs, PcIs DEF Rows
  <2>2. UNCHANGED refused
    BY <1>10 DEF EnsureCreate, history
  <2>3. PutStep(p)
    BY <1>10, <2>1, EnsureCreateIs DEF PutStep, WillPutBy, Ensuring, Is, Rows
  <2> QED  BY <2>1, <2>2, <2>3, PutsIf
<1>11. ASSUME NEW p \in Procs, EnsureCreated(p) PROVE PutsStep
  <2>1. Others(p) /\ proc[p].pc = "created" /\ \E rec : Ensured(p, proc[p].id, rec)
    BY <1>11, EnsureCreatedIs, PcIs
  <2>2. UNCHANGED refused
    BY <1>11 DEF EnsureCreated, history
  <2>3. PutStep(p)
    <3> SUFFICES ASSUME NEW f \in Files, WillPutBy(proc[p], f) PROVE WillPutBy(proc'[p], f)
      BY DEF PutStep
    <3>1. CASE proc[p].op = "request"
      BY <2>1, <3>1 DEF Ensured, Is, WillPutBy, Ensuring
    <3>2. CASE proc[p].op = "sweep"
      <4>1. WellFormed(p, proc[p])
        BY JobIs
      <4>2. proc[p].todo \subseteq Files \X Versions
        BY <3>2, <4>1 DEF WellFormed
      <4>3. \/ f \in proc[p].puts \cup {proc[p].file}
            \/ \E n \in proc[p].todo \ {<<proc[p].file, proc[p].ver>>} : n[1] = f
        BY <2>1, <3>2, <4>2 DEF WillPutBy, Ensuring
      <4> QED  BY <2>1, <3>2, <4>3 DEF Ensured, Is, WillPutBy, Ensuring
    <3> QED  BY <3>1, <3>2 DEF WillPutBy
  <2> QED  BY <2>1, <2>2, <2>3, PutsIf
<1>12. ASSUME NEW p \in Procs, EnsureSave(p) PROVE PutsStep
  <2>1. Others(p) /\ proc[p].pc = "save" /\ \E rec : Ensured(p, proc[p].id, rec)
    BY <1>12, EnsureSaveIs, PcIs
  <2>2. UNCHANGED refused
    BY <1>12 DEF EnsureSave, history
  <2>3. PutStep(p)
    <3> SUFFICES ASSUME NEW f \in Files, WillPutBy(proc[p], f) PROVE WillPutBy(proc'[p], f)
      BY DEF PutStep
    <3>1. CASE proc[p].op = "request"
      BY <2>1, <3>1 DEF Ensured, Is, WillPutBy, Ensuring
    <3>2. CASE proc[p].op = "sweep"
      <4>1. WellFormed(p, proc[p])
        BY JobIs
      <4>2. proc[p].todo \subseteq Files \X Versions
        BY <3>2, <4>1 DEF WellFormed
      <4>3. \/ f \in proc[p].puts \cup {proc[p].file}
            \/ \E n \in proc[p].todo \ {<<proc[p].file, proc[p].ver>>} : n[1] = f
        BY <2>1, <3>2, <4>2 DEF WillPutBy, Ensuring
      <4> QED  BY <2>1, <3>2, <4>3 DEF Ensured, Is, WillPutBy, Ensuring
    <3> QED  BY <3>1, <3>2 DEF WillPutBy
  <2> QED  BY <2>1, <2>2, <2>3, PutsIf
<1>13. ASSUME NEW p \in Procs, MarkRead(p) PROVE PutsStep
  <2>1. Others(p) /\ proc[p].pc = "mark"
    BY <1>13, MarkReadIs, PcIs DEF Rows
  <2>2. UNCHANGED refused
    BY <1>13 DEF MarkRead, history
  <2>3. PutStep(p)
    BY <1>13, <2>1, MarkReadIs DEF PutStep, WillPutBy, Ensuring, Is, Goes
  <2> QED  BY <2>1, <2>2, <2>3, PutsIf
<1>14. ASSUME NEW p \in Procs, MarkSave(p) PROVE PutsStep
  <2>1. Others(p) /\ proc[p].pc = "mark_save"
    BY <1>14, MarkSaveIs, PcIs DEF Rows
  <2>2. UNCHANGED refused
    BY <1>14 DEF MarkSave, history
  <2>3. PutStep(p)
    BY <1>14, <2>1, MarkSaveIs DEF PutStep, WillPutBy, Ensuring, Is
  <2> QED  BY <2>1, <2>2, <2>3, PutsIf
<1>15. ASSUME NEW p \in Procs, Put(p) PROVE PutsStep
  <2>1. Others(p) /\ proc[p].pc = "put" /\ WellFormed(p, proc[p])
    BY <1>15, PutIs, PcIs, JobIs
  <2>2. PICK f \in proc[p].puts : f \in Files /\ PutOne(p, f)
    BY <1>15, PutIs
  <2>3. /\ status \in [Files -> {"free", "queued"} \cup Workers]
    BY DEF Basic, TypeInv, Data
  <2>4. status'[f] = "queued" \/ f \in refused'
    BY <2>2, <2>3 DEF PutOne
  <2>5. PutStep(p)
    BY <2>1, <2>2, <2>4 DEF PutOne, PutStep, WillPutBy, Ensuring, Is, IsResting, WellFormed
  <2>6. \A g \in Files : RefusedStep(g)
    BY <2>2, <2>4 DEF PutOne, RefusedStep
  <2> QED  BY <2>1, <2>5, <2>6 DEF PutsStep, PutStep, Others
<1>16. ASSUME NEW p \in Procs, DeleteList(p) PROVE PutsStep
  <2>1. Others(p) /\ p \in Procs /\ proc[p].pc \notin Ensuring \cup {"mark", "mark_save", "put"}
    BY <1>16, DeleteListIs, PcIs DEF Ensuring, Indexing, Procs
  <2>2. UNCHANGED refused
    BY <1>16 DEF DeleteList, history
  <2> QED  BY <2>1, <2>2, WorkerPuts, PutsIfNot
<1>17. ASSUME NEW p \in Procs, DeleteVectors(p) PROVE PutsStep
  <2>1. Others(p) /\ p \in Procs /\ proc[p].pc \notin Ensuring \cup {"mark", "mark_save", "put"}
    BY <1>17, DeleteVectorsIs, PcIs DEF Ensuring, Indexing, Procs
  <2>2. UNCHANGED refused
    BY <1>17 DEF DeleteVectors, history
  <2> QED  BY <2>1, <2>2, WorkerPuts, PutsIfNot
<1>18. ASSUME NEW p \in Procs, DeleteDoc(p) PROVE PutsStep
  <2>1. Others(p) /\ p \in Procs /\ proc[p].pc \notin Ensuring \cup {"mark", "mark_save", "put"}
    BY <1>18, DeleteDocIs, PcIs DEF Ensuring, Indexing, Procs
  <2>2. UNCHANGED refused
    BY <1>18 DEF DeleteDoc, history
  <2> QED  BY <2>1, <2>2, WorkerPuts, PutsIfNot
<1>19. ASSUME NEW p \in Procs, StoreFails(p) PROVE PutsStep
  BY <1>19
<1>20. ASSUME NEW w \in Workers, IdleRecover(w) PROVE PutsStep
  BY <1>20, IdleRecoverIs, RestingPuts, PutsIfNot DEF IdleRecover, history, Procs, Recover
<1>21. ASSUME NEW w \in Workers, Backfill(w) PROVE PutsStep
  BY <1>21, BackfillIs, RestingPuts, PutsIfNot DEF Backfill, history, Procs
<1>22. ASSUME NEW w \in Workers, Get(w) PROVE PutsStep
  BY <1>22, GetIs, RestingPuts, PutsIfNot DEF Get, history, Procs
<1>23. ASSUME NEW w \in Workers, GetFile(w) PROVE PutsStep
  <2>1. Others(w) /\ w \in Procs /\ proc[w].pc \notin Ensuring \cup {"mark", "mark_save", "put"}
    BY <1>23, GetFileIs, PcIs DEF Ensuring, Indexing, Procs
  <2>2. UNCHANGED refused
    BY <1>23 DEF GetFile, history
  <2> QED  BY <2>1, <2>2, WorkerPuts, PutsIfNot
<1>24. ASSUME NEW w \in Workers, MarkRunning(w) PROVE PutsStep
  <2>1. Others(w) /\ w \in Procs /\ proc[w].pc \notin Ensuring \cup {"mark", "mark_save", "put"}
    BY <1>24, MarkRunningIs, PcIs DEF Ensuring, Indexing, Procs
  <2>2. UNCHANGED refused
    BY <1>24 DEF MarkRunning, history
  <2> QED  BY <2>1, <2>2, WorkerPuts, PutsIfNot
<1>25. ASSUME NEW w \in Workers, ClearVectors(w) PROVE PutsStep
  <2>1. Others(w) /\ w \in Procs /\ proc[w].pc \notin Ensuring \cup {"mark", "mark_save", "put"}
    BY <1>25, ClearVectorsIs, PcIs DEF Ensuring, Indexing, Procs
  <2>2. UNCHANGED refused
    BY <1>25 DEF ClearVectors, history
  <2> QED  BY <2>1, <2>2, WorkerPuts, PutsIfNot
<1>26. ASSUME NEW w \in Workers, UpsertVectors(w) PROVE PutsStep
  <2>1. Others(w) /\ w \in Procs /\ proc[w].pc \notin Ensuring \cup {"mark", "mark_save", "put"}
    BY <1>26, UpsertVectorsIs, PcIs DEF Ensuring, Indexing, Procs
  <2>2. UNCHANGED refused
    BY <1>26 DEF UpsertVectors, history
  <2> QED  BY <2>1, <2>2, WorkerPuts, PutsIfNot
<1>27. ASSUME NEW w \in Workers, Complete(w) PROVE PutsStep
  <2>1. Others(w) /\ w \in Procs /\ proc[w].pc \notin Ensuring \cup {"mark", "mark_save", "put"}
    BY <1>27, CompleteIs, PcIs DEF Ensuring, Indexing, Procs
  <2>2. UNCHANGED refused
    BY <1>27 DEF Complete, history
  <2> QED  BY <2>1, <2>2, WorkerPuts, PutsIfNot
<1>28. ASSUME NEW w \in Workers, IndexingFails(w) PROVE PutsStep
  <2>1. Others(w) /\ w \in Procs /\ proc[w].pc \notin Ensuring \cup {"mark", "mark_save", "put"}
    BY <1>28, IndexingFailsIs, PcIs DEF Ensuring, Indexing, Procs
  <2>2. UNCHANGED refused
    BY <1>28 DEF IndexingFails, history
  <2> QED  BY <2>1, <2>2, WorkerPuts, PutsIfNot
<1>29. ASSUME NEW w \in Workers, SaveFailed(w) PROVE PutsStep
  <2>1. Others(w) /\ w \in Procs /\ proc[w].pc \notin Ensuring \cup {"mark", "mark_save", "put"}
    BY <1>29, SaveFailedIs, PcIs DEF Ensuring, Indexing, Procs
  <2>2. UNCHANGED refused
    BY <1>29 DEF SaveFailed
  <2> QED  BY <2>1, <2>2, WorkerPuts, PutsIfNot
<1>30. ASSUME NEW w \in Workers, Retry(w) PROVE PutsStep
  <2>1. Others(w) /\ w \in Procs /\ proc[w].pc \notin Ensuring \cup {"mark", "mark_save", "put"}
    BY <1>30, RetryIs, PcIs DEF Ensuring, Indexing, Procs
  <2>2. UNCHANGED refused
    BY <1>30 DEF Retry, history
  <2> QED  BY <2>1, <2>2, WorkerPuts, PutsIfNot
<1>31. ASSUME NEW w \in Workers, GiveUp(w) PROVE PutsStep
  <2>1. Others(w) /\ w \in Procs /\ proc[w].pc \notin Ensuring \cup {"mark", "mark_save", "put"}
    BY <1>31, GiveUpIs, PcIs DEF Ensuring, Indexing, Procs
  <2>2. UNCHANGED refused
    BY <1>31 DEF GiveUp, history
  <2> QED  BY <2>1, <2>2, WorkerPuts, PutsIfNot
<1>32. ASSUME NEW w \in Workers, Release(w) PROVE PutsStep
  <2>1. Others(w) /\ w \in Procs /\ proc[w].pc \notin Ensuring \cup {"mark", "mark_save", "put"}
    BY <1>32, ReleaseIs, PcIs DEF Ensuring, Indexing, Procs
  <2>2. UNCHANGED refused
    BY <1>32 DEF Release, history
  <2> QED  BY <2>1, <2>2, WorkerPuts, PutsIfNot
<1>33. ASSUME NEW w \in Workers, CompleteFails(w) PROVE PutsStep
  <2>1. Others(w) /\ w \in Procs /\ proc[w].pc \notin Ensuring \cup {"mark", "mark_save", "put"}
    BY <1>33, CompleteFailsIs, PcIs DEF Ensuring, Indexing, Procs
  <2>2. UNCHANGED refused
    BY <1>33 DEF CompleteFails, history
  <2> QED  BY <2>1, <2>2, WorkerPuts, PutsIfNot
<1>34. ASSUME Crash PROVE PutsStep
  BY <1>34
<1>35. ASSUME UNCHANGED vars PROVE PutsStep
  BY <1>35, PutsKept DEF vars
<1> QED
  BY StepCases, <1>1, <1>2, <1>3, <1>4, <1>5, <1>6, <1>7, <1>8, <1>9, <1>10, <1>11,
    <1>12, <1>13, <1>14, <1>15, <1>16, <1>17, <1>18, <1>19, <1>20, <1>21, <1>22, <1>23,
    <1>24, <1>25, <1>26, <1>27, <1>28, <1>29, <1>30, <1>31, <1>32, <1>33, <1>34, <1>35

-----------------------------------------------------------------------------
(***************************************************************************)
(* What is indexed catches up with the file                                *)
(***************************************************************************)
Stale(f) == /\ Calm(f) /\ f \notin refused /\ DocsOf(f) # {}
            /\ docs[NewestDoc(f)].status = "completed"
            /\ ~Carries(docs[NewestDoc(f)], files[f].ver)

\* A completed document behind its file is about to be indexed again: the
\* file will be put, is queued, or is with a worker that has yet to write.
StaleIsComing == \A f \in Files : Undisturbed /\ Stale(f) =>
  \/ WillPut(f) \/ status[f] = "queued"
  \/ \E w \in Workers : status[f] = w /\ proc[w].pc \in {"get_file", "ensure", "save"}

\* A worker whose file nobody is about to put works on its current version.
Current(j, v) ==
  /\ j.pc \in {"ensure", "save"} => j.ver = v
  /\ j.pc \in {"created", "running", "clear", "upsert", "complete"} => Carries(j.doc, v)
CopyIsCurrent == \A w \in Workers, f \in Files :
  /\ Undisturbed /\ Calm(f) /\ f \notin refused /\ ~WillPut(f)
  /\ proc[w].op = "index" /\ proc[w].file = f
  => Current(proc[w], files[f].ver)

LEMMA RewrittenPuts ==
  ASSUME NEW f \in Files, Rewritten(f)
  PROVE  WillPut(f)'
BY DEF Rewritten, WillPut, WillPutBy, Ensuring, Procs

LEMMA WillPutStep ==
  ASSUME PutsStep, NEW f \in Files, WillPut(f)
  PROVE  WillPut(f)' \/ status'[f] = "queued" \/ f \in refused'
BY DEF PutsStep, PutStep, WillPut

LEMMA CopyIsCurrentStep ==
  ASSUME Searches, CopyIsCurrent, [Next]_vars
  PROVE  CopyIsCurrent'
<1> SUFFICES ASSUME NEW w \in Workers, NEW f \in Files, Undisturbed', Calm(f)',
                    f \notin refused', ~(WillPut(f)'), proc'[w].op = "index", proc'[w].file = f,
                    proc'[w].pc # "get_file"
             PROVE  Current(proc'[w], files'[f].ver)
  BY DEF CopyIsCurrent, Current
<1>1. Deletions /\ Basic /\ Rows /\ Basic' /\ WorkStep(w) /\ w \in Procs
  BY BasicStep, WorkSteps DEF Searches, Deletions, Own, Procs
<1>2. Undisturbed /\ ~Crash /\ \A p \in Procs : ~StoreFails(p)
  BY <1>1, StaysUndisturbed
<1>3. PutsStep
  BY <1>1, <1>2, PutsSteps
<1>4. /\ proc[w].op = "index" /\ proc[w].file = f
      /\ proc'[w] = proc[w] \/ Advance(w)
  BY <1>1 DEF WorkStep
<1>5. Calm(f) /\ (files'[f] = files[f] \/ Rewritten(f))
  BY <1>1, <1>4, CalmWas DEF Works
<1>6. files'[f] = files[f]
  BY <1>5, RewrittenPuts
<1>7. status'[f] # "queued"
  <2>1. status'[f] = w
    BY <1>1 DEF Basic, QueueOK
  <2> QED  BY <2>1, ConstantsAssumption
<1>8. f \notin refused /\ ~WillPut(f)
  BY <1>3, <1>7, WillPutStep DEF PutsStep, RefusedStep
<1>9. Current(proc[w], files[f].ver)
  BY <1>2, <1>4, <1>5, <1>8 DEF CopyIsCurrent
<1>10. CASE proc'[w] = proc[w]
  BY <1>6, <1>9, <1>10
<1>11. CASE Advance(w)
  BY <1>1, <1>2, <1>4, <1>6, <1>9, <1>11 DEF Advance, From, Current, Alike, Carries
<1> QED  BY <1>4, <1>10, <1>11

LEMMA StaleIsComingStep ==
  ASSUME Searches, CopyIsCurrent, StaleIsComing, [Next]_vars
  PROVE  StaleIsComing'
<1> DEFINE Coming(f) ==
             \E w \in Workers :
               status'[f] = w /\ proc'[w].pc \in {"get_file", "ensure", "save"}
<1> SUFFICES ASSUME NEW f \in Files, Undisturbed', Stale(f)', ~(WillPut(f)'),
                    status'[f] # "queued"
             PROVE  Coming(f)
  BY DEF StaleIsComing
<1>1. /\ Deletions /\ CopiesLive /\ Basic /\ Rows /\ Basic' /\ StatusStep(f)
      /\ \A w \in Workers : WorkStep(w) /\ w \in Procs
  BY BasicStep, WorkSteps, StatusSteps DEF Searches, Deletions, Own, Procs
<1>2. Undisturbed /\ ~Crash /\ \A p \in Procs : ~StoreFails(p)
  BY <1>1, StaysUndisturbed
<1>3. PutsStep
  BY <1>1, <1>2, PutsSteps
<1>4. Calm(f)' /\ f \notin refused' /\ DocsOf(f)' # {} /\ docs'[NewestDoc(f)'].status = "completed"
      /\ ~Carries(docs'[NewestDoc(f)'], files'[f].ver)
  BY DEF Stale
<1>5. Calm(f) /\ (files'[f] = files[f] \/ Rewritten(f))
  <2>1. CASE DocsOf(f) = {} /\ UNCHANGED <<docs, recent>>
    BY <1>4, <2>1 DEF DocsOf
  <2> QED  BY <1>1, <1>4, <2>1, CalmStep
<1>6. files'[f] = files[f]
  BY <1>5, RewrittenPuts
<1>7. f \notin refused /\ ~WillPut(f)
  BY <1>3, <1>4, WillPutStep DEF PutsStep, RefusedStep
<1>8. CASE NewestSame(f)
  <2>1. Stale(f)
    BY <1>4, <1>5, <1>6, <1>7, <1>8 DEF NewestSame, Stale
  <2>2. CASE status[f] = "queued"
    <3>1. \A w \in Workers : w # "queued" /\ w # "free"
      BY ConstantsAssumption
    <3> QED  BY <1>1, <1>2, <2>2, <3>1 DEF StatusStep
  <2>3. ASSUME NEW w \in Workers, status[f] = w, proc[w].pc \in {"get_file", "ensure", "save"}
        PROVE  Coming(f)
    <3>1. \A v \in Workers : v # "queued" /\ v # "free"
      BY ConstantsAssumption
    <3>2. proc[w].op = "index" /\ proc[w].file = f
      BY <1>1, <2>3 DEF Basic, QueueOK
    <3>3. status'[f] = w
      BY <1>1, <1>2, <2>3, <3>1 DEF StatusStep
    <3>4. proc'[w].op = "index"
      BY <1>1, <3>3 DEF Basic, QueueOK
    <3>5. ASSUME Made(w) PROVE FALSE
      BY <1>1, <1>4, <3>2, <3>5, NewestMade
    <3>6. ASSUME Kept(w), proc'[w].doc.status = "pending" PROVE FALSE
      <4>1. proc'[w].doc \in Document /\ Wrote(w, proc'[w].doc)
        BY <3>6 DEF Kept, Wrote
      <4>2. docs'[NewestDoc(f)'] = proc'[w].doc
        BY <1>1, <1>5, <3>2, <4>1, NewestWritten
      <4> QED  BY <1>4, <3>6, <4>2
    <3>7. proc'[w].pc \in {"get_file", "ensure", "save"}
      BY <1>1, <1>2, <1>5, <2>3, <3>2, <3>4, <3>5, <3>6 DEF WorkStep, Advance, From, Calm
    <3> QED  BY <3>3, <3>7
  <2> QED  BY <1>2, <1>7, <2>1, <2>2, <2>3 DEF StaleIsComing
<1>9. ASSUME NEW p \in Procs, NEW rec \in Document, Wrote(p, rec), proc[p].file = f,
             docs'[NewestDoc(f)'] = rec
      PROVE  FALSE
  <2>1. p \in Workers /\ proc[p].pc = "complete" /\ Alike(rec, proc[p].doc)
    BY <1>4, <1>9 DEF Wrote
  <2>2. proc[p].op = "index"
    BY <1>1, <2>1, WorkerHas DEF Indexing
  <2>3. Current(proc[p], files[f].ver)
    BY <1>2, <1>5, <1>7, <1>9, <2>1, <2>2 DEF CopyIsCurrent
  <2> QED  BY <1>4, <1>6, <1>9, <2>1, <2>3, AlikeChunks DEF Current
<1> QED  BY <1>1, <1>4, <1>5, <1>8, <1>9, NewestStep

-----------------------------------------------------------------------------
(***************************************************************************)
(* A failed indexing is tried again                                        *)
(***************************************************************************)
Failed(f) == /\ Calm(f) /\ DocsOf(f) # {}
             /\ docs[NewestDoc(f)].status = "failed"
             /\ docs[NewestDoc(f)].attempts # MaxAttempts

\* A file that failed with attempts left is still in the queue's hands, and the
\* worker that is about to decide decides on the attempts of its document.
FailedIsRetried == \A f \in Files : Undisturbed /\ Failed(f) =>
  /\ status[f] # "free"
  /\ \A w \in Workers : status[f] = w =>
       /\ proc[w].pc # "release"
       /\ proc[w].pc = "decide" => proc[w].doc.attempts = docs[NewestDoc(f)].attempts

LEMMA FailedIsRetriedStep ==
  ASSUME Searches, FailedIsRetried, [Next]_vars
  PROVE  FailedIsRetried'
<1> SUFFICES ASSUME NEW f \in Files, Undisturbed', Failed(f)'
             PROVE  /\ status'[f] # "free"
                    /\ \A w \in Workers : status'[f] = w =>
                         /\ proc'[w].pc # "release"
                         /\ proc'[w].pc = "decide"
                              => proc'[w].doc.attempts = docs'[NewestDoc(f)'].attempts
  BY DEF FailedIsRetried
<1>1. /\ Deletions /\ CopiesLive /\ Basic /\ Rows /\ Basic' /\ StatusStep(f)
      /\ \A w \in Workers : WorkStep(w) /\ w \in Procs
  BY BasicStep, WorkSteps, StatusSteps DEF Searches, Deletions, Own, Procs
<1>2. Undisturbed /\ ~Crash /\ \A p \in Procs : ~StoreFails(p)
  BY <1>1, StaysUndisturbed
<1>3. /\ Calm(f)' /\ DocsOf(f)' # {} /\ docs'[NewestDoc(f)'].status = "failed"
      /\ docs'[NewestDoc(f)'].attempts # MaxAttempts
  BY DEF Failed
<1>4. Calm(f)
  <2>1. CASE DocsOf(f) = {} /\ UNCHANGED <<docs, recent>>
    BY <1>3, <2>1 DEF DocsOf
  <2> QED  BY <1>1, <1>3, <2>1, CalmStep
<1>5. \A w \in Workers : w # "queued" /\ w # "free"
  BY ConstantsAssumption
<1>6. ASSUME NEW p \in Procs, NEW rec \in Document, Wrote(p, rec), proc[p].file = f
      PROVE  p \in Workers /\ proc'[p].pc = "decide" /\ proc'[p].doc = rec /\ status'[f] = p
  <2>1. docs'[NewestDoc(f)'] = rec
    BY <1>1, <1>4, <1>6, NewestWritten
  <2>2. p \in Workers /\ proc'[p].pc = "decide" /\ proc'[p].doc = rec
        /\ proc'[p].op = "index" /\ proc'[p].file = proc[p].file
    BY <1>3, <1>6, <2>1 DEF Wrote
  <2> QED  BY <1>1, <1>6, <2>2 DEF Basic, QueueOK
<1>7. CASE \E p \in Procs, rec \in Document :
             Wrote(p, rec) /\ proc[p].file = f /\ docs'[NewestDoc(f)'] = rec
  <2>1. PICK p \in Procs, rec \in Document :
          Wrote(p, rec) /\ proc[p].file = f /\ docs'[NewestDoc(f)'] = rec
    BY <1>7
  <2> QED  BY <1>5, <1>6, <2>1
<1>8. CASE NewestSame(f)
  <2>1. Failed(f) /\ docs'[NewestDoc(f)'] = docs[NewestDoc(f)]
    BY <1>3, <1>4, <1>8 DEF NewestSame, Failed
  <2>2. /\ status[f] # "free"
        /\ \A w \in Workers : status[f] = w =>
             /\ proc[w].pc # "release"
             /\ proc[w].pc = "decide" => proc[w].doc.attempts = docs[NewestDoc(f)].attempts
    BY <1>2, <2>1 DEF FailedIsRetried
  <2>3. status'[f] # "free"
    BY <1>1, <1>2, <1>5, <2>2 DEF StatusStep
  <2>4. ASSUME NEW w \in Workers, status'[f] = w
        PROVE  /\ proc'[w].pc # "release"
               /\ proc'[w].pc = "decide" => proc'[w].doc.attempts = docs[NewestDoc(f)].attempts
    <3>1. proc'[w].op = "index" /\ proc'[w].file = f
      BY <1>1, <2>4 DEF Basic, QueueOK
    <3>2. CASE proc'[w].pc = "get_file"
      BY <3>2
    <3>3. CASE proc[w].op = "index" /\ proc[w].file = f /\ (proc'[w] = proc[w] \/ Advance(w))
      <4>1. status[f] = w
        BY <1>1, <3>3 DEF Basic, QueueOK
      <4>2. CASE proc'[w] = proc[w]
        BY <2>2, <4>1, <4>2
      <4>3. ASSUME NEW rec \in Document, Wrote(w, rec)
            PROVE  proc'[w].pc = "decide" /\ proc'[w].doc = rec
        BY <1>1, <1>6, <3>3, <4>3
      <4>4. ASSUME Kept(w), proc'[w].pc = "decide"
            PROVE  proc'[w].doc.attempts = docs[NewestDoc(f)].attempts
        <5>1. proc'[w].doc \in Document /\ Wrote(w, proc'[w].doc)
          BY <4>4 DEF Kept, Wrote
        <5>2. docs'[NewestDoc(f)'] = proc'[w].doc
          BY <1>1, <1>4, <3>3, <5>1, NewestWritten
        <5> QED  BY <2>1, <5>2
      <4>5. ASSUME proc[w].pc = "decide", proc[w].doc.attempts >= MaxAttempts PROVE FALSE
        <5>1. proc[w].doc.attempts = docs[NewestDoc(f)].attempts
          BY <2>2, <4>1, <4>5
        <5>2. proc[w].doc.attempts \in 0 .. MaxAttempts
          BY <1>1, <4>5, WorkerHas DEF Indexing, Document
        <5> QED  BY <2>1, <4>5, <5>1, <5>2 DEF Failed, MaxAttempts
      <4>6. CASE Advance(w)
        <5>1. proc'[w].pc # "release"
          BY <1>1, <1>2, <1>4, <3>3, <4>3, <4>5, <4>6 DEF Advance, From, Calm
        <5>2. proc'[w].pc = "decide" => Kept(w)
          BY <4>6 DEF Advance, From
        <5> QED  BY <4>4, <5>1, <5>2
      <4> QED  BY <3>3, <4>2, <4>6
    <3>4. CASE proc'[w] = proc[w]
      <4>1. proc[w].op = "index" /\ proc[w].file = f
        BY <3>1, <3>4
      <4> QED  BY <3>3, <3>4, <4>1
    <3> QED  BY <1>1, <3>1, <3>2, <3>3, <3>4 DEF WorkStep
  <2> QED  BY <2>1, <2>3, <2>4
<1> QED  BY <1>1, <1>3, <1>4, <1>7, <1>8, NewestStep

-----------------------------------------------------------------------------
(***************************************************************************)
(* The invariant of the pipeline                                           *)
(***************************************************************************)
IInv == Searches /\ CopyIsCurrent /\ StaleIsComing /\ FailedIsRetried

LEMMA InitIsIInv ==
  ASSUME Init
  PROVE  IInv
<1>1. Searches
  BY InitIsSearches
<1>3. \A f \in Files : DocsOf(f) = {}
  BY DEF Init, DocsOf, ToSet
<1>2. \A p \in Procs : proc[p].op # "index"
  BY RestingIs DEF Init, IsResting, Is
<1> QED  BY <1>1, <1>2, <1>3 DEF IInv, CopyIsCurrent, StaleIsComing, Stale, FailedIsRetried,
   Failed, Procs

LEMMA IInvStep ==
  ASSUME IInv, [Next]_vars
  PROVE  IInv'
<1>1. Searches /\ CopyIsCurrent /\ StaleIsComing /\ FailedIsRetried
  BY DEF IInv
<1>2. Searches' /\ CopyIsCurrent' /\ StaleIsComing' /\ FailedIsRetried'
  BY <1>1, SearchesStep, CopyIsCurrentStep, StaleIsComingStep, FailedIsRetriedStep
<1> QED  BY <1>2 DEF IInv

\* A quiet file is in nobody's hands.
LEMMA QuietHas ==
  ASSUME NEW f \in Files, Quiet(f)
  PROVE  status[f] = "free" /\ ~WillPut(f)
BY DEF Quiet, InFlight, Busy, WillPut, WillPutBy

\* Once nothing goes on for a file whose puts were accepted, its completed
\* document has the title and scope that the file has now, and all its tags.
THEOREM FreshUnlessRefusedHolds == Spec => []FreshUnlessRefused
<1>1. Init => IInv
  BY InitIsIInv
<1>2. IInv /\ [Next]_vars => IInv'
  BY IInvStep
<1>3. IInv => FreshUnlessRefused
  <2> SUFFICES ASSUME IInv, NEW f \in Files, Undisturbed, Quiet(f), Stale(f) PROVE FALSE
    BY DEF FreshUnlessRefused, Stale, Calm
  <2>1. status[f] = "free" /\ ~WillPut(f)
    BY QuietHas
  <2>2. \A w \in Workers : w # "free"
    BY ConstantsAssumption
  <2> QED  BY <2>1, <2>2 DEF IInv, StaleIsComing
<1> QED  BY <1>1, <1>2, <1>3, PTL DEF Spec

\* Types, chunks and freshness together: what rests as completed answers
\* searches with the title, the scope and at least the tags of its file.
THEOREM CompletedIsCurrentHolds == Spec => []CompletedIsCurrent
<1>1. TypeOK /\ CompletedIsSearchable /\ FreshUnlessRefused => CompletedIsCurrent
  BY DEF CompletedIsCurrent
<1> QED  BY <1>1, TypeCorrect, CompletedIsSearchableHolds, FreshUnlessRefusedHolds, PTL

\* A file rests on a failed document only when its attempts are used up.
THEOREM FailedIsExhaustedHolds == Spec => []FailedIsExhausted
<1>1. Init => IInv
  BY InitIsIInv
<1>2. IInv /\ [Next]_vars => IInv'
  BY IInvStep
<1>3. IInv => FailedIsExhausted
  <2> SUFFICES ASSUME IInv, NEW f \in Files, Undisturbed, Quiet(f), Failed(f) PROVE FALSE
    BY DEF FailedIsExhausted, Failed, Calm
  <2> QED  BY QuietHas DEF IInv, FailedIsRetried
<1> QED  BY <1>1, <1>2, <1>3, PTL DEF Spec

\* Both outcomes of an indexing are what they say, whichever of its calls failed.
THEOREM OutcomeIsTrueHolds == Spec => []OutcomeIsTrue
<1>1. CompletedIsSearchable /\ FailedIsExhausted => OutcomeIsTrue
  BY DEF OutcomeIsTrue
<1> QED  BY <1>1, CompletedIsSearchableHolds, FailedIsExhaustedHolds, PTL
=============================================================================
