------------------------- MODULE MCDatasourceIndexing --------------------------
(* Instances of DatasourceIndexing for TLC. *)
EXTENDS DatasourceIndexing

\* Bound: no mishap or fault beside an indexing that a user starts.  No step the specification
\* is fair to leads out of it.
Few == (\E r \in ManualRuns : run[r].step # "idle") => mishaps + faults = 0
=============================================================================
