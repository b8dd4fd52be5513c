------------------------- MODULE MCConversationHistory -------------------------
(* Instances of ConversationHistory for TLC. *)
EXTENDS ConversationHistory, TLC

Symmetry == Permutations(Turns) \cup Permutations(Edits)

\* Bound: several other requests beside one chat request and a short history, or one of them
\* beside several chat requests.
Few ==
    \/ Cardinality({e \in Edits : edit[e].step # "new"}) <= 1
    \/ Cardinality({t \in Turns : turn[t].step # "new"}) <= 1 /\ Len(row.history) <= 3
=============================================================================
