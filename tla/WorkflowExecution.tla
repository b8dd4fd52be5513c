--------------------------- MODULE WorkflowExecution ---------------------------
(***************************************************************************)
(* One workflow execution: its status row, the rows of its steps, and the  *)
(* actors that read a row, compute, and write the whole row back.  Every   *)
(* executor run (the first one and each resume) and every abort request    *)
(* has a WorkflowExecutionService of its own, whose lock covers only that  *)
(* instance; the nodes of a run share the instance of the run.             *)
(*                                                                         *)
(* A run executes one superstep of parallel nodes.  The resume endpoint    *)
(* does not look at the status, so a run may be resumed at any time.       *)
(***************************************************************************)
EXTENDS Naturals, FiniteSets

CONSTANTS
    First,    \* the run that starts the execution
    Resumes,  \* runs of the resume endpoint
    Aborts,   \* requests of the abort endpoints
    Nodes,    \* parallel nodes of the first run
    ResumeNodes, \* parallel nodes of a resumed run
    Crashes   \* may the process die (once)

Runs == {First} \cup Resumes
Services == Runs \cup Aborts
NodeSteps == ({First} \X Nodes) \cup (Resumes \X ResumeNodes)
\* the step "AI/Run Thoughts", in which a run records the exception it ended with
ErrorStep(r) == <<r, "AI/Run Thoughts">>
Steps == NodeSteps \cup {ErrorStep(r) : r \in Runs}
RunOf(s) == s[1]

ASSUME ActorsAssumption ==
    First \notin Resumes /\ Runs \cap Aborts = {} /\ Crashes \in BOOLEAN

VARIABLES
    status,   \* WorkflowExecution.overall_status
    step,     \* the status of each WorkflowExecutionState row
    run,      \* where each executor run stands
    node,     \* where each node thread stands
    outcome,  \* how its execute() ended
    request,  \* where each abort request stands
    section,  \* what each service does inside workflow_execution_lock
    recovery  \* crash, restart and startup recovery

vars == <<status, step, run, node, outcome, request, section, recovery>>

Statuses == {"IN_PROGRESS", "INTERRUPTED", "AUTHENTICATION_REQUIRED", "SUCCEEDED", "FAILED",
             "ABORTED"}
Terminal == {"FAILED", "SUCCEEDED", "ABORTED", "INTERRUPTED"}
Stuck == {"IN_PROGRESS", "INTERRUPTED"}
Buckets == {"IN_PROGRESS", "INTERRUPTED"}
Outcomes == {"none", "ok", "bad_request", "auth", "raise"}
Ops == {"none", "finish_state", "fail", "interrupt", "mark_auth", "finish", "abort", "resume"}
Free == [op |-> "none", by |-> <<>>, phase |-> "free", read |-> "IN_PROGRESS", found |-> {}]

TypeOK ==
    /\ status \in Statuses
    /\ step \in [Steps -> Statuses \cup {"none"}]
    /\ run \in [Runs -> {"idle", "graph", "done", "dead"}]
    /\ node \in [Steps -> {"todo", "started", "working", "executed", "finished", "done"}]
    /\ outcome \in [Steps -> Outcomes]
    /\ request \in [Aborts -> {"idle", "done", "dead"}]
    /\ \A i \in Services :
        /\ section[i].op \in Ops
        /\ section[i].by \in Steps \cup {<<>>}
        /\ section[i].phase \in {"free", "read", "written", "found"}
        /\ section[i].read \in Statuses
        /\ section[i].found \subseteq Steps
    /\ recovery.stage \in {"up", "down", "over"} \cup Buckets
    /\ recovery.parent \in Statuses \cup {"unread", "none"}
    /\ {recovery.found, recovery.before, recovery.interrupted} \subseteq SUBSET Steps
    /\ {recovery.missed, recovery.resumed} \subseteq BOOLEAN

Init ==
    /\ status = "IN_PROGRESS"
    /\ step = [s \in Steps |-> "none"]
    /\ run = [r \in Runs |-> IF r = First THEN "graph" ELSE "idle"]
    /\ node = [s \in Steps |-> "todo"]
    /\ outcome = [s \in Steps |-> "none"]
    /\ request = [a \in Aborts |-> "idle"]
    /\ section = [i \in Services |-> Free]
    /\ recovery = [stage |-> "up", parent |-> "unread", found |-> {}, before |-> {},
                   interrupted |-> {}, missed |-> FALSE, resumed |-> FALSE]

-----------------------------------------------------------------------------
(* What a service does at a time, mostly inside its lock: refresh the row, *)
(* write it, tidy the steps.                                               *)

LockFree(i) == section[i].op = "none"
Holds(i, op, phase) == section[i].op = op /\ section[i].phase = phase
Leave(i) == section' = [section EXCEPT ![i] = Free]

\* mutant: the row is the one read when the service was made
ReadOnce(i, op, by) ==
    /\ LockFree(i)
    /\ section' = [section EXCEPT ![i] =
          [op |-> op, by |-> by, phase |-> "read", read |-> "IN_PROGRESS", found |-> {}]]
    /\ UNCHANGED <<status, step, outcome, recovery>>
\* take the lock and _refresh_workflow_execution
Refresh(i, op, by) ==
    /\ LockFree(i)
    /\ section' = [section EXCEPT ![i] =
          [op |-> op, by |-> by, phase |-> "read", read |-> status, found |-> {}]]
    /\ UNCHANGED <<status, step, outcome, recovery>>

\* mutant: finish() keeps whatever status it read
FinishKeepsStatus(op, read) ==
    CASE op \in {"finish_state", "finish"} -> read
      [] op = "fail" -> "FAILED"
      [] op = "interrupt" -> "INTERRUPTED"
      [] op = "mark_auth" -> "AUTHENTICATION_REQUIRED"
      [] op = "abort" -> "ABORTED"
\* The row as it was read, with the status the operation sets.
StatusToWrite(op, read) ==
    CASE op = "finish_state" -> read
      [] op = "fail" -> "FAILED"
      [] op = "interrupt" -> "INTERRUPTED"
      [] op = "mark_auth" -> "AUTHENTICATION_REQUIRED"
      [] op = "finish" -> IF read = "AUTHENTICATION_REQUIRED" THEN read ELSE "SUCCEEDED"
      [] op = "abort" -> "ABORTED"
GivesWayToAbort(i) == section[i].read = "ABORTED" /\ section[i].op # "abort"

\* workflow_execution.update(): the whole row; finish_state writes it only
\* when the token usage could be computed
WriteStatus(i) ==
    /\ section[i].phase = "read" /\ ~GivesWayToAbort(i)
    /\ \/ status' = StatusToWrite(section[i].op, section[i].read)
       \/ section[i].op = "finish_state" /\ UNCHANGED status
    /\ section' = [section EXCEPT ![i].phase = "written"]
    /\ UNCHANGED <<step, run, node, outcome, request, recovery>>

\* A query for the rows of some steps, which are then saved one after the other:
\* _cleanup_inflight_states, and resume_states.  The interruption's query finds one
\* finished or running predecessor at most, or fails.
Query(i, steps) ==
    /\ section' = [section EXCEPT ![i].phase = "found", ![i].found = steps]
    /\ UNCHANGED <<status, step, run, node, outcome, request, recovery>>
SweepQuery(i) ==
    /\ Holds(i, "fail", "written") \/ Holds(i, "abort", "written")
    /\ Query(i, {s \in Steps : step[s] \in Stuck})
ResumeQuery(i) ==
    Holds(i, "resume", "written") /\ Query(i, {s \in Steps : step[s] = "INTERRUPTED"})
PredecessorQuery(i) ==
    /\ Holds(i, "interrupt", "written")
    /\ \E found \in {{}} \cup {{s} : s \in {t \in Steps : step[t] \in {"SUCCEEDED", "IN_PROGRESS"}}} :
        Query(i, found)
SweepStatus(i) ==
    CASE section[i].op = "abort" -> "ABORTED"
      [] section[i].op = "interrupt" -> "INTERRUPTED"
      [] section[i].op = "resume" -> "SUCCEEDED"
      [] OTHER -> "FAILED"
Sweep(i) ==
    step' = [s \in Steps |-> IF s \in section[i].found THEN SweepStatus(i) ELSE step[s]]

-----------------------------------------------------------------------------
(* A node: BaseNode.__call__ *)

NodeMoves(s, from, to) ==
    /\ run[RunOf(s)] = "graph"
    /\ node[s] = from /\ node' = [node EXCEPT ![s] = to]
    /\ UNCHANGED <<run, request>>
Aborted == status = "ABORTED"

StartState(s) ==
    /\ s \in NodeSteps /\ LockFree(RunOf(s))
    /\ NodeMoves(s, "todo", "started")
    /\ step' = [step EXCEPT ![s] = "IN_PROGRESS"]
    /\ UNCHANGED <<status, outcome, section, recovery>>
\* ExecutionAbortedException before execute(): abort_state, without the lock
NodeAborted(s) ==
    /\ Aborted
    /\ NodeMoves(s, "started", "done")
    /\ step' = [step EXCEPT ![s] = "ABORTED"]
    /\ UNCHANGED <<status, outcome, section, recovery>>
NodeExecutes(s) ==
    /\ ~Aborted
    /\ NodeMoves(s, "started", "working")
    /\ UNCHANGED <<status, step, outcome, section, recovery>>
\* execute() returns or raises; after a success the abort is looked at again
NodeExecuted(s) ==
    /\ NodeMoves(s, "working", "executed")
    /\ \E o \in Outcomes \ {"none"} :
        outcome' = [outcome EXCEPT ![s] = IF o = "ok" /\ Aborted THEN "none" ELSE o]
    /\ UNCHANGED <<status, step, section, recovery>>

\* the status finish_state is called with
FinalStatus(s) ==
    CASE outcome[s] = "ok" -> "SUCCEEDED"
      [] outcome[s] = "none" -> "ABORTED"
      [] outcome[s] = "auth" -> "AUTHENTICATION_REQUIRED"
      [] OTHER -> "FAILED"
FinishStateBegins(s) ==
    /\ Refresh(RunOf(s), "finish_state", s)
    /\ NodeMoves(s, "executed", "executed")
FinishState(i) ==
    LET s == section[i].by
    IN /\ \/ Holds(i, "finish_state", "written")
          \/ Holds(i, "finish_state", "read") /\ GivesWayToAbort(i)
       /\ NodeMoves(s, "executed", "finished")
       /\ step' = [step EXCEPT ![s] = FinalStatus(s)]
       /\ Leave(i)
       /\ UNCHANGED <<status, outcome, recovery>>

\* what follows finish_state: fail() for a bad request, mark_authentication_required(),
\* an exception that ends the graph, or nothing
NodeReports(s) ==
    /\ NodeMoves(s, "finished", "done")
    /\ \/ outcome[s] = "bad_request" /\ Refresh(RunOf(s), "fail", s)
       \/ outcome[s] = "auth" /\ Refresh(RunOf(s), "mark_auth", s)
       \/ s = ErrorStep(RunOf(s)) /\ Refresh(RunOf(s), "fail", <<>>)
       \/ /\ s \in NodeSteps /\ outcome[s] \in {"ok", "none", "raise"}
          /\ UNCHANGED <<status, step, outcome, section, recovery>>

-----------------------------------------------------------------------------
(* A run: WorkflowExecutor._execute_workflow_stream *)

StepsOf(r) == {s \in NodeSteps : RunOf(s) = r}
NodesDone(r) == run[r] = "graph" /\ LockFree(r) /\ \A s \in StepsOf(r) : node[s] = "done"
Raised(r) == \E s \in StepsOf(r) : outcome[s] = "raise"
RunMoves(r, to) == run' = [run EXCEPT ![r] = to] /\ UNCHANGED <<node, request>>

\* on_workflow_start of a resume: start_progress(), then resume_states()
ResumeStart(r) ==
    /\ run[r] = "idle" /\ r \in Resumes
    /\ RunMoves(r, "graph")
    /\ status' = "IN_PROGRESS"
    /\ section' = [section EXCEPT ![r] = [Free EXCEPT !.op = "resume", !.phase = "written"]]
    /\ recovery' = [recovery EXCEPT !.resumed = recovery.stage # "up"]
    /\ UNCHANGED <<step, outcome>>

\* _handle_task_exception: the error gets a step of its own, finished as any
\* other, and then fail() is called
RunFails(r) ==
    /\ NodesDone(r) /\ Raised(r)
    /\ NodeMoves(ErrorStep(r), "todo", "executed")
    /\ step' = [step EXCEPT ![ErrorStep(r)] = "IN_PROGRESS"]
    /\ outcome' = [outcome EXCEPT ![ErrorStep(r)] = "raise"]
    /\ UNCHANGED <<status, section, recovery>>
RunInterrupted(r) ==
    NodesDone(r) /\ ~Raised(r) /\ Refresh(r, "interrupt", <<>>) /\ RunMoves(r, "graph")
RunFinishes(r) ==
    NodesDone(r) /\ ~Raised(r) /\ Refresh(r, "finish", <<>>) /\ RunMoves(r, "graph")

\* The operation returns to its caller: the node that called it, which goes on,
\* or the run, which is over.
Return(i) ==
    /\ Leave(i)
    /\ run' = IF i \in Runs /\ section[i].by = <<>> /\ section[i].op # "resume"
              THEN [run EXCEPT ![i] = "done"] ELSE run
    /\ request' = IF i \in Aborts THEN [request EXCEPT ![i] = "done"] ELSE request
    /\ UNCHANGED <<status, node, outcome, recovery>>

GiveWay(i) ==
    /\ section[i].phase = "read" /\ GivesWayToAbort(i) /\ section[i].op # "finish_state"
    /\ Return(i)
    /\ UNCHANGED step
StatusWritten(i) ==
    /\ Holds(i, "mark_auth", "written") \/ Holds(i, "finish", "written")
    /\ Return(i)
    /\ UNCHANGED step
Swept(i) == section[i].phase = "found" /\ Sweep(i) /\ Return(i)

-----------------------------------------------------------------------------
(* Abort requests, a crash, and startup recovery *)

Abort(a) ==
    /\ request[a] = "idle"
    /\ Refresh(a, "abort", <<>>)
    /\ UNCHANGED <<run, node, request>>

Crash ==
    /\ Crashes /\ recovery.stage = "up"
    /\ run' = [r \in Runs |-> IF run[r] = "graph" THEN "dead" ELSE run[r]]
    /\ node' = [s \in Steps |-> IF run[RunOf(s)] = "graph" THEN "done" ELSE node[s]]
    /\ outcome' = [s \in Steps |-> IF run[RunOf(s)] = "graph" THEN "none" ELSE outcome[s]]
    /\ request' = [a \in Aborts |-> IF LockFree(a) THEN request[a] ELSE "dead"]
    /\ section' = [i \in Services |-> Free]
    /\ recovery' = [recovery EXCEPT
          !.stage = "down",
          !.before = {s \in Steps : step[s] # "none"},
          !.interrupted = {s \in Steps : step[s] = "INTERRUPTED"}]
    /\ UNCHANGED <<status, step>>

(* recover_orphaned_workflow_states: the steps of one status after those of *)
(* the other; what fails is logged and left.                                *)
Recovers(r, missed) ==
    /\ recovery' = [r EXCEPT !.missed = recovery.missed \/ missed]
    /\ UNCHANGED <<status, run, node, outcome, request, section>>
ReadBucket(from, to) ==
    /\ recovery.stage = from /\ recovery.found = {}
    /\ \/ Recovers([recovery EXCEPT !.stage = to, !.found = {s \in Steps : step[s] = to}], FALSE)
       \/ Recovers([recovery EXCEPT !.stage = to], TRUE)
    /\ UNCHANGED step
RecoveryEnds ==
    /\ recovery.stage = "INTERRUPTED" /\ recovery.found = {}
    /\ Recovers([recovery EXCEPT !.stage = "over"], FALSE)
    /\ UNCHANGED step
\* _parent_for_execution: the execution is read for the first of its steps
ReadParent ==
    /\ recovery.parent = "unread" /\ recovery.found # {}
    /\ \/ Recovers([recovery EXCEPT !.parent = status], FALSE)
       \/ Recovers([recovery EXCEPT !.parent = "none"], TRUE)
    /\ UNCHANGED step

\* mutant: INTERRUPTED steps are recovered in every terminal execution
RecoverAll(s) == recovery.parent \in Terminal /\ s \in recovery.before
\* _recover_single_state: is the step to be failed, by what was read of it and its execution?
Recoverable(s) ==
    /\ recovery.parent \in Terminal /\ s \in recovery.before
    /\ recovery.stage = "INTERRUPTED" => recovery.parent # "INTERRUPTED"
\* mutant: the execution is not locked and looked at once more
StepUnchanged(s) == step[s] = recovery.stage
\* _mark_state_failed_if_still_stuck: an UPDATE ... WHERE status = the one read, under a
\* row lock on the execution
StillStuck(s) == status = recovery.parent /\ step[s] = recovery.stage
RecoverStep(s) ==
    /\ s \in recovery.found /\ recovery.parent # "unread"
    /\ \/ /\ Recovers([recovery EXCEPT !.found = @ \ {s}], FALSE)
          /\ step' = IF Recoverable(s) /\ StillStuck(s) THEN [step EXCEPT ![s] = "FAILED"] ELSE step
       \/ /\ Recoverable(s)
          /\ Recovers([recovery EXCEPT !.found = @ \ {s}], TRUE)
          /\ UNCHANGED step

-----------------------------------------------------------------------------
Next ==
    \/ \E s \in Steps : StartState(s) \/ NodeAborted(s) \/ NodeExecutes(s) \/ NodeExecuted(s)
                        \/ FinishStateBegins(s) \/ NodeReports(s)
    \/ \E r \in Runs : ResumeStart(r) \/ RunFails(r) \/ RunInterrupted(r) \/ RunFinishes(r)
                       \/ FinishState(r)
    \/ \E i \in Services : WriteStatus(i) \/ SweepQuery(i) \/ ResumeQuery(i) \/ PredecessorQuery(i)
                           \/ Swept(i) \/ GiveWay(i) \/ StatusWritten(i)
    \/ \E a \in Aborts : Abort(a)
    \/ Crash
    \/ ReadBucket("down", "IN_PROGRESS") \/ ReadBucket("IN_PROGRESS", "INTERRUPTED")
    \/ ReadParent \/ RecoveryEnds
    \/ \E s \in Steps : RecoverStep(s)

Spec == Init /\ [][Next]_vars

-----------------------------------------------------------------------------
(* Properties *)

Quiet == /\ \A i \in Services : LockFree(i)
         /\ \A r \in Runs : run[r] # "graph"

\* Once every run has ended (none died), the execution is not left IN_PROGRESS,
\* however aborts, sibling nodes and racing resumes overwrote the row.
EndsDecided == Quiet /\ recovery.stage = "up" => status # "IN_PROGRESS"

\* A failure or an authentication request recorded by one parallel node is not
\* lost to a sibling that writes back the row it had read: only a resume sets
\* the execution to IN_PROGRESS again.
SiblingsKeepStatus ==
    [][ (/\ \A r \in Resumes : run'[r] = "idle"
         /\ status \in {"FAILED", "AUTHENTICATION_REQUIRED"}) => status' # "IN_PROGRESS" ]_vars

\* When startup recovery is over, nothing of it failed, and nobody has resumed the
\* execution since the restart: no step is stuck in a terminal execution, and if the
\* execution is an interrupted one, its INTERRUPTED steps still are, for resume_states().
RecoveryRepairs ==
    recovery.stage = "over" /\ ~recovery.missed /\ ~recovery.resumed /\ Quiet =>
        \A s \in Steps :
            /\ step[s] = "IN_PROGRESS" => status \notin Terminal
            /\ step[s] = "INTERRUPTED" => status \notin Terminal \ {"INTERRUPTED"}
            /\ s \in recovery.interrupted /\ status = "INTERRUPTED" => step[s] = "INTERRUPTED"

\* However late it comes and whoever resumes or aborts the execution meanwhile, recovery
\* fails no step that a run has finished or is working at, and no INTERRUPTED step of an
\* execution that waits for its resume or is being resumed.
RecoverySpares ==
    [][\A s \in Steps : recovery'.found # recovery.found /\ step'[s] # step[s] =>
            /\ step[s] \in Stuck
            /\ run[RunOf(s)] # "graph"
            /\ step[s] = "INTERRUPTED" => status \notin {"INTERRUPTED", "IN_PROGRESS"}]_vars
=============================================================================
