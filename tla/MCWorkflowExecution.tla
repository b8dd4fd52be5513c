------------------------- MODULE MCWorkflowExecution -------------------------
(* Instances of WorkflowExecution for TLC. *)
EXTENDS WorkflowExecution, TLC

Symmetry == Permutations(Nodes)

\* Bound: beside a resume, an abort or a crash, at most one parallel node of the first run
\* ends otherwise than well; the process dies when all of them but one have succeeded.
Begun ==
    \/ \E r \in Resumes : run[r] # "idle"
    \/ \E a \in Aborts : request[a] # "idle" \/ ~LockFree(a)
Failing == {s \in StepsOf(First) : outcome[s] \notin {"none", "ok"}}
Unfinished == {s \in StepsOf(First) : step[s] # "SUCCEEDED"}
FewSteps ==
    /\ Begun => Cardinality(Failing) <= 1
    /\ recovery.stage # "up" => Cardinality(Unfinished) <= 1
=============================================================================
