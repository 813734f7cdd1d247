--------------------------- MODULE MCIndexPipeline ---------------------------
EXTENDS IndexPipeline, TLC

Symmetry == Permutations(Threads)

(***************************************************************************)
(* The view of MCIndexRaces.cfg: all but the counters of attempts.  Where  *)
(* no indexing fails (Failing is FALSE, no outages), only the worker that  *)
(* gives up reads them, which never happens, and no property of that run   *)
(* but its types does: states that differ in nothing else behave alike.    *)
(***************************************************************************)
Uncounted(doc) == <<doc.file, doc.status, doc.ver, doc.tags>>
UncountedState ==
  <<files, [d \in DocIds |-> Uncounted(docs[d])], recent, created, vectors, status,
    [p \in Procs |-> [proc[p] EXCEPT !.doc = Uncounted(@)]], booting, left, refused, overlapped>>
=============================================================================
