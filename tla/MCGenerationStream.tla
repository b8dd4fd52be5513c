------------------------- MODULE MCGenerationStream -------------------------
(* Instances of GenerationStream for TLC. *)
EXTENDS GenerationStream, TLC

Symmetry == Permutations(Senders) \cup Permutations(Readers)
=============================================================================
