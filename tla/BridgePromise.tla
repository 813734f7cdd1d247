---------------------------- MODULE BridgePromise ----------------------------
(***************************************************************************)
(* What the bridge to Fusion is for: of the state of FusionBridge, what an *)
(* executor is told and what the document holds, and how they relate.      *)
(***************************************************************************)
EXTENDS Integers, FiniteSets

CONSTANTS
  Steps,        \* plan steps, each with a thread that executes it
  MaxAttempts   \* executions of a step: the first and its retries

VARIABLES
  step,       \* the execution of each step
  document,   \* attempts whose tool ran, in order
  \* history
  abandoned,  \* attempts whose worker gave up before the main thread began
  cut         \* attempts that ended without the answer of a tool that may run

Times(a) == Cardinality({i \in DOMAIN document : document[i] = a})

\* A step answered by Fusion was run for the attempt that answered.
AnsweredIsBuilt == \A s \in Steps : step[s].result = "ok" => Times(<<s, step[s].attempt>>) = 1

\* An attempt runs its tool at most once, and a step is built twice only if
\* an earlier attempt was cut off from its answer: that is a failure of the
\* step, which may be executed again while the host may still be at it.
RebuiltOnlyAfterCut ==
  \A s \in Steps : \A n \in 1 .. MaxAttempts :
    /\ Times(<<s, n>>) <= 1
    /\ Times(<<s, n>>) = 1 /\ n < step[s].attempt => <<s, n>> \in cut

\* A request whose worker gave up before the main thread came to it never
\* runs, even when its event is still in Fusion's queue.
AbandonedNeverRuns == \A a \in abandoned : Times(a) = 0

\* A step is built by the attempt that was answered, and by no other but those
\* that were cut off from their answers.
BridgeBuildsOnce == AnsweredIsBuilt /\ RebuiltOnlyAfterCut /\ AbandonedNeverRuns
=============================================================================
