---------------------------- MODULE MCAnalysisQueue ----------------------------
(* Instances of AnalysisQueue for TLC. *)
EXTENDS AnalysisQueue, TLC

Symmetry == Permutations(Pods) \cup Permutations(Convs)
=============================================================================
