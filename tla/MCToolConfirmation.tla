--------------------------- MODULE MCToolConfirmation ---------------------------
(* Small instances of ToolConfirmation for TLC. *)
EXTENDS ToolConfirmation, TLC

CONSTANTS m1, m2, r1, r2

\* The requests of a kind are interchangeable.
Symmetry == Permutations(Messages) \cup Permutations(Resumes)
=================================================================================
