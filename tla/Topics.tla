------------------------------- MODULE Topics -------------------------------
(***************************************************************************)
(* Checking a pure definition: an initial state is a topic and an input of *)
(* it, one step computes the answer, and an invariant compares the two.    *)
(***************************************************************************)
EXTENDS Integers, FiniteSets, Sequences, SequencesExt, FiniteSetsExt, TLC

CONSTANTS None, Pending

VARIABLES topic, in, out

vars == <<topic, in, out>>

Input(t, cases) == topic = t /\ in \in cases
Answer(t, result) == topic = t /\ out = Pending /\ out' = result /\ UNCHANGED <<topic, in>>
Answered(t) == topic = t /\ out # Pending

UpTo(n, S) == UNION {[1 .. k -> S] : k \in 0 .. n}
=============================================================================
