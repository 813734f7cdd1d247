---------------------------- MODULE MCAlgorithms ----------------------------
(***************************************************************************)
(* Every pure module over its inputs.                                      *)
(***************************************************************************)
EXTENDS ChatTopics, ModelingTopics

Init == out = Pending /\ (ChatInputs \/ ModelingInputs)
Next == ChatAnswers \/ ModelingAnswers
Spec == Init /\ [][Next]_vars
=============================================================================
