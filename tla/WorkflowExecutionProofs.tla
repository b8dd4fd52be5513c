------------------------- MODULE WorkflowExecutionProofs -------------------------
(***************************************************************************)
(* Proofs about WorkflowExecution: types, and the four properties of its   *)
(* rows, for every number of runs, nodes and abort requests.               *)
(***************************************************************************)
EXTENDS WorkflowExecution, TLAPS

-----------------------------------------------------------------------------
(* Types *)

Sections == [op : Ops, by : Steps \cup {<<>>}, phase : {"free", "read", "written", "found"},
             read : Statuses, found : SUBSET Steps]
Recoveries == [stage : {"up", "down", "over"} \cup Buckets,
               parent : Statuses \cup {"unread", "none"}, found : SUBSET Steps,
               before : SUBSET Steps, interrupted : SUBSET Steps,
               missed : BOOLEAN, resumed : BOOLEAN]

Typed ==
    /\ status \in Statuses
    /\ step \in [Steps -> Statuses \cup {"none"}]
    /\ run \in [Runs -> {"idle", "graph", "done", "dead"}]
    /\ node \in [Steps -> {"todo", "started", "working", "executed", "finished", "done"}]
    /\ outcome \in [Steps -> Outcomes]
    /\ request \in [Aborts -> {"idle", "done", "dead"}]
    /\ section \in [Services -> Sections]
    /\ recovery \in Recoveries

LEMMA TypedTypes == Typed => TypeOK
<1> SUFFICES ASSUME Typed PROVE TypeOK
  OBVIOUS
<1>1. \A i \in Services : section[i] \in Sections
  BY DEF Typed
<1> QED BY <1>1 DEF Typed, TypeOK, Sections, Recoveries

\* A step belongs to a run, and its name is not the empty one.
LEMMA StepsOfRuns == \A s \in Steps : RunOf(s) \in Runs /\ s # <<>>
<1> SUFFICES ASSUME NEW s \in Steps PROVE RunOf(s) \in Runs /\ s # <<>>
  OBVIOUS
<1>1. CASE s \in NodeSteps
  <2>1. PICK r \in Runs, n \in Nodes \cup ResumeNodes : s = <<r, n>>
    BY <1>1 DEF NodeSteps, Runs
  <2> QED BY <2>1 DEF RunOf
<1>2. CASE s \notin NodeSteps
  <2>1. PICK r \in Runs : s = <<r, "AI/Run Thoughts">>
    BY <1>2 DEF Steps, ErrorStep
  <2> QED BY <2>1 DEF RunOf
<1> QED BY <1>1, <1>2

LEMMA FreeTyped == Free \in Sections
BY DEF Free, Sections, Ops, Statuses

LEMMA ErrorSteps == \A r \in Runs : ErrorStep(r) \in Steps /\ RunOf(ErrorStep(r)) = r
BY DEF Steps, ErrorStep, RunOf

LEMMA RefreshTyped ==
    ASSUME Typed, NEW i \in Services, NEW op \in Ops, NEW by \in Steps \cup {<<>>},
           Refresh(i, op, by)
    PROVE  section' \in [Services -> Sections]
BY DEF Typed, Refresh, Sections

\* Who is in a critical section: a run, while its graph runs, or an abort request.
InUse ==
    /\ \A i \in Services : section[i].op = "none" <=> section[i].phase = "free"
    /\ \A r \in Runs : section[r].op # "none" => run[r] = "graph"
    /\ \A r \in Runs : section[r].op # "abort"
    /\ \A r \in Runs : section[r].op = "finish_state" => section[r].by \in Steps
    /\ \A a \in Aborts : section[a].op \in {"none", "abort"}
    /\ \A r \in Runs : section[r].op = "resume" => section[r].phase \in {"written", "found"}

LEMMA WrittenTyped ==
    ASSUME Typed, InUse, NEW i \in Services, section[i].phase = "read"
    PROVE  StatusToWrite(section[i].op, section[i].read) \in Statuses
<1>1. section[i].op \in Ops \ {"none", "resume"} /\ section[i].read \in Statuses
  BY DEF Typed, Sections, InUse, Services
<1> QED BY <1>1 DEF StatusToWrite, Statuses, Ops

LEMMA BaseInit == Init => Typed /\ InUse
<1> SUFFICES ASSUME Init PROVE Typed /\ InUse
  OBVIOUS
<1>1. section = [i \in Services |-> Free] /\ Runs \subseteq Services /\ Aborts \subseteq Services
  BY DEF Init, Services
<1>2. InUse
  BY <1>1 DEF InUse, Free
<1>3. Typed
  BY <1>1, FreeTyped DEF Init, Typed, Statuses, Outcomes, Recoveries, Buckets
<1> QED BY <1>2, <1>3

\* What a step does to the sections: nothing; one service takes its lock, goes on inside, or
\* leaves; or all of them go with their process.
LEMMA TakesLock ==
    ASSUME Typed, InUse, NEW i \in Services, NEW op \in Ops, NEW by \in Steps \cup {<<>>},
           Refresh(i, op, by), op # "none",
           \/ i \in Aborts /\ i \notin Runs /\ op = "abort"
           \/ /\ i \in Runs /\ i \notin Aborts /\ op \notin {"abort", "resume"} /\ run'[i] = "graph"
              /\ op = "finish_state" => by \in Steps,
           \A r \in Runs : run[r] = "graph" => run'[r] = "graph"
    PROVE  InUse'
<1>1. section'[i].op = op /\ section'[i].by = by /\ section'[i].phase = "read"
  BY DEF Refresh, Typed
<1>2. \A j \in Services \ {i} : section'[j] = section[j]
  BY DEF Refresh, Typed
<1>3. Runs \subseteq Services /\ Aborts \subseteq Services
  BY DEF Services
<1> QED BY <1>1, <1>2, <1>3 DEF InUse

LEMMA LeavesLock ==
    ASSUME Typed, InUse, NEW i \in Services, Leave(i),
           \A r \in Runs \ {i} : run'[r] = run[r]
    PROVE  InUse' /\ section' \in [Services -> Sections]
<1>1. section'[i] = Free
  BY DEF Leave, Typed
<1>2. \A j \in Services \ {i} : section'[j] = section[j]
  BY DEF Leave, Typed
<1>3. Runs \subseteq Services /\ Aborts \subseteq Services
  BY DEF Services
<1>4. section' \in [Services -> Sections]
  BY FreeTyped DEF Leave, Typed
<1> QED BY <1>1, <1>2, <1>3, <1>4 DEF InUse, Free

LEMMA GoesOn ==
    ASSUME Typed, InUse, NEW i \in Services, NEW phase \in {"written", "found"},
           NEW found \in SUBSET Steps, section[i].phase \in {"read", "written"},
           \/ section' = [section EXCEPT ![i].phase = phase]
           \/ section' = [section EXCEPT ![i].phase = phase, ![i].found = found],
           UNCHANGED run
    PROVE  InUse' /\ section' \in [Services -> Sections]
<1>1. section[i] \in Sections
  BY DEF Typed
<1>2. \A j \in Services : section'[j].op = section[j].op /\ section'[j].by = section[j].by
  BY <1>1 DEF Typed, Sections
<1>3. section'[i].phase = phase /\ \A j \in Services \ {i} : section'[j] = section[j]
  BY <1>1 DEF Typed, Sections
<1>4. Runs \subseteq Services /\ Aborts \subseteq Services
  BY DEF Services
<1>5. section' \in [Services -> Sections]
  BY <1>1 DEF Typed, Sections
<1> QED BY <1>2, <1>3, <1>4, <1>5 DEF InUse

\* The steps of a node thread.
NodeStep(s) ==
    \/ StartState(s) \/ NodeAborted(s) \/ NodeExecutes(s) \/ NodeExecuted(s)
    \/ FinishStateBegins(s) \/ NodeReports(s)

LEMMA NodeMovesTyped ==
    ASSUME Typed, NEW s \in Steps, NEW from,
           NEW to \in {"todo", "started", "working", "executed", "finished", "done"},
           NodeMoves(s, from, to)
    PROVE  /\ node' \in [Steps -> {"todo", "started", "working", "executed", "finished", "done"}]
           /\ UNCHANGED <<run, request>> /\ run[RunOf(s)] = "graph"
BY DEF Typed, NodeMoves

LEMMA BaseNode ==
    ASSUME Typed, InUse, NEW s \in Steps, NodeStep(s)
    PROVE  Typed' /\ InUse'
<1> DEFINE r == RunOf(s)
<1>1. r \in Runs /\ r \in Services /\ r \notin Aborts /\ s # <<>>
  BY StepsOfRuns, ActorsAssumption DEF Services
<1>2. CASE StartState(s)
  BY <1>2, NodeMovesTyped DEF StartState, Typed, InUse, Statuses
<1>3. CASE NodeAborted(s)
  BY <1>3, NodeMovesTyped DEF NodeAborted, Typed, InUse, Statuses
<1>4. CASE NodeExecutes(s)
  BY <1>4, NodeMovesTyped DEF NodeExecutes, Typed, InUse
<1>5. CASE NodeExecuted(s)
  BY <1>5, NodeMovesTyped DEF NodeExecuted, Typed, InUse, Outcomes
<1>6. ASSUME NEW op \in Ops, NEW by \in Steps \cup {<<>>}, Refresh(r, op, by),
             op \notin {"none", "abort", "resume"}, op = "finish_state" => by \in Steps,
             NEW from, NEW to \in {"executed", "done"}, NodeMoves(s, from, to)
      PROVE  Typed' /\ InUse'
  <2>1. InUse'
    BY <1>1, <1>6, TakesLock, NodeMovesTyped
  <2>2. section' \in [Services -> Sections]
    BY <1>1, <1>6, RefreshTyped
  <2> QED BY <1>6, <2>1, <2>2, NodeMovesTyped DEF Typed, Refresh
<1>7. CASE FinishStateBegins(s)
  BY <1>6, <1>7 DEF FinishStateBegins, Ops
<1>8. CASE NodeReports(s)
  <2>1. CASE \/ Refresh(r, "fail", s) \/ Refresh(r, "mark_auth", s) \/ Refresh(r, "fail", <<>>)
    BY <1>6, <1>8, <2>1 DEF NodeReports, Ops
  <2>2. CASE UNCHANGED <<status, step, outcome, section, recovery>>
    BY <1>8, <2>2, NodeMovesTyped DEF NodeReports, Typed, InUse
  <2> QED BY <1>8, <2>1, <2>2 DEF NodeReports
<1> QED BY <1>2, <1>3, <1>4, <1>5, <1>7, <1>8 DEF NodeStep

\* The steps of a run.
RunStep(r) == ResumeStart(r) \/ RunFails(r) \/ RunInterrupted(r) \/ RunFinishes(r)

LEMMA BaseRun ==
    ASSUME Typed, InUse, NEW r \in Runs, RunStep(r)
    PROVE  Typed' /\ InUse'
<1>1. r \in Services /\ r \notin Aborts
  BY ActorsAssumption DEF Services
<1>2. CASE ResumeStart(r)
  <2>1. run' \in [Runs -> {"idle", "graph", "done", "dead"}] /\ UNCHANGED <<node, request>>
    BY <1>2 DEF ResumeStart, RunMoves, Typed
  <2>2. status' \in Statuses
    BY <1>2 DEF ResumeStart, Statuses
  <2>3. recovery' \in Recoveries
    BY <1>2 DEF ResumeStart, Typed, Recoveries
  <2>4. run'[r] = "graph" /\ \A q \in Runs \ {r} : run'[q] = run[q]
    BY <1>2 DEF ResumeStart, RunMoves, Typed
  <2>5. [Free EXCEPT !.op = "resume", !.phase = "written"] \in Sections
    BY DEF Free, Sections, Ops, Statuses
  <2>6. section' \in [Services -> Sections]
    BY <1>2, <2>5 DEF ResumeStart, Typed
  <2>7. /\ section'[r].op = "resume" /\ section'[r].phase = "written"
        /\ \A i \in Services \ {r} : section'[i] = section[i]
    BY <1>1, <1>2 DEF ResumeStart, Typed, Free
  <2>8. InUse'
    BY <1>1, <2>4, <2>7 DEF InUse, Services
  <2> QED BY <1>2, <2>1, <2>2, <2>3, <2>6, <2>8 DEF ResumeStart, Typed
<1>3. CASE RunFails(r)
  BY <1>3, NodeMovesTyped, ErrorSteps DEF RunFails, Typed, InUse, Statuses, Outcomes
<1>4. ASSUME NEW op \in {"interrupt", "finish"}, NodesDone(r), Refresh(r, op, <<>>),
             RunMoves(r, "graph")
      PROVE  Typed' /\ InUse'
  <2>1. run' = run
    BY <1>4 DEF NodesDone, RunMoves, Typed
  <2>2. InUse'
    BY <1>1, <1>4, <2>1, TakesLock DEF Ops, NodesDone
  <2>3. section' \in [Services -> Sections]
    BY <1>1, <1>4, RefreshTyped DEF Ops
  <2> QED BY <1>4, <2>1, <2>2, <2>3 DEF Typed, Refresh, RunMoves
<1> QED BY <1>2, <1>3, <1>4 DEF RunStep, RunInterrupted, RunFinishes

\* The queries of a service for the steps it saves next.
Queries(i) == SweepQuery(i) \/ ResumeQuery(i) \/ PredecessorQuery(i)

LEMMA QueryIs ==
    ASSUME NEW i \in Services, Queries(i)
    PROVE  \E found \in SUBSET Steps :
              /\ Query(i, found)
              /\ section[i].phase = "written"
              /\ section[i].op \in {"fail", "abort", "resume", "interrupt"}
              /\ section[i].op = "abort" => found = {s \in Steps : step[s] \in Stuck}
              /\ \A s \in found : step[s] # "none"
<1>1. CASE SweepQuery(i)
  BY <1>1 DEF SweepQuery, Holds, Stuck
<1>2. CASE ResumeQuery(i)
  BY <1>2 DEF ResumeQuery, Holds
<1>3. CASE PredecessorQuery(i)
  <2>1. PICK found \in {{}} \cup {{s} : s \in {t \in Steps : step[t] \in {"SUCCEEDED", "IN_PROGRESS"}}} :
            Query(i, found)
    BY <1>3 DEF PredecessorQuery
  <2>2. found \in SUBSET Steps /\ \A s \in found : step[s] # "none"
    BY <2>1
  <2> QED BY <1>3, <2>1, <2>2 DEF PredecessorQuery, Holds
<1> QED BY <1>1, <1>2, <1>3 DEF Queries

\* The steps of a service inside its lock.
ServiceStep(i) ==
    \/ WriteStatus(i) \/ Queries(i) \/ Swept(i) \/ GiveWay(i) \/ StatusWritten(i)
    \/ (i \in Runs /\ FinishState(i))

LEMMA FinalTyped ==
    ASSUME Typed, NEW s \in Steps
    PROVE  FinalStatus(s) \in Statuses
BY DEF FinalStatus, Statuses

LEMMA BaseReturn ==
    ASSUME Typed, InUse, NEW i \in Services, Return(i),
           step' \in [Steps -> Statuses \cup {"none"}]
    PROVE  Typed' /\ InUse'
<1>1. /\ run' \in [Runs -> {"idle", "graph", "done", "dead"}]
      /\ \A r \in Runs \ {i} : run'[r] = run[r]
  BY DEF Return, Typed
<1>2. request' \in [Aborts -> {"idle", "done", "dead"}]
  BY DEF Return, Typed
<1>3. InUse' /\ section' \in [Services -> Sections]
  BY <1>1, LeavesLock DEF Return
<1> QED BY <1>1, <1>2, <1>3 DEF Return, Typed

LEMMA BaseService ==
    ASSUME Typed, InUse, NEW i \in Services, ServiceStep(i)
    PROVE  Typed' /\ InUse'
<1>1. CASE WriteStatus(i)
  <2>1. InUse' /\ section' \in [Services -> Sections]
    BY <1>1, GoesOn DEF WriteStatus
  <2>2. status' \in Statuses
    BY <1>1, WrittenTyped DEF WriteStatus, Typed
  <2> QED BY <1>1, <2>1, <2>2 DEF WriteStatus, Typed
<1>2. CASE Queries(i)
  <2>1. PICK found \in SUBSET Steps : Query(i, found) /\ section[i].phase = "written"
    BY <1>2, QueryIs
  <2>2. InUse' /\ section' \in [Services -> Sections]
    BY <2>1, GoesOn DEF Query
  <2> QED BY <2>1, <2>2 DEF Query, Typed
<1>3. CASE Swept(i)
  <2>1. step' \in [Steps -> Statuses \cup {"none"}]
    BY <1>3 DEF Swept, Sweep, SweepStatus, Typed, Statuses
  <2> QED BY <1>3, <2>1, BaseReturn DEF Swept
<1>4. CASE GiveWay(i) \/ StatusWritten(i)
  BY <1>4, BaseReturn DEF GiveWay, StatusWritten, Typed
<1>6. CASE i \in Runs /\ FinishState(i)
  <2> DEFINE s == section[i].by
  <2>1. s \in Steps
    BY <1>6 DEF FinishState, Holds, InUse
  <2>2. /\ NodeMoves(s, "executed", "finished") /\ Leave(i)
        /\ step' = [step EXCEPT ![s] = FinalStatus(s)]
        /\ UNCHANGED <<status, outcome, recovery>>
    BY <1>6 DEF FinishState
  <2>3. InUse' /\ section' \in [Services -> Sections]
    BY <2>1, <2>2, LeavesLock, NodeMovesTyped
  <2>4. step' \in [Steps -> Statuses \cup {"none"}]
    BY <2>1, <2>2, FinalTyped DEF Typed
  <2> QED BY <2>1, <2>2, <2>3, <2>4, NodeMovesTyped DEF Typed
<1> QED BY <1>1, <1>2, <1>3, <1>4, <1>6 DEF ServiceStep

LEMMA BaseAbort ==
    ASSUME Typed, InUse, NEW a \in Aborts, Abort(a)
    PROVE  Typed' /\ InUse'
<1>1. a \in Services /\ a \notin Runs
  BY ActorsAssumption DEF Services
<1>2. InUse'
  BY <1>1, TakesLock DEF Abort, Ops
<1>3. section' \in [Services -> Sections]
  BY <1>1, RefreshTyped DEF Abort, Ops
<1> QED BY <1>2, <1>3 DEF Abort, Refresh, Typed

LEMMA BaseCrash ==
    ASSUME Typed, InUse, Crash
    PROVE  Typed' /\ InUse'
<1>1. InUse'
  <2>1. Runs \subseteq Services /\ Aborts \subseteq Services
    BY DEF Services
  <2> QED BY <2>1 DEF Crash, InUse, Free
<1>2. /\ run' \in [Runs -> {"idle", "graph", "done", "dead"}]
      /\ node' \in [Steps -> {"todo", "started", "working", "executed", "finished", "done"}]
      /\ outcome' \in [Steps -> Outcomes]
  BY DEF Crash, Typed, Outcomes
<1>3. /\ request' \in [Aborts -> {"idle", "done", "dead"}]
      /\ section' \in [Services -> Sections]
      /\ recovery' \in Recoveries
  BY FreeTyped DEF Crash, Typed, Recoveries
<1> QED BY <1>1, <1>2, <1>3 DEF Crash, Typed

\* The steps of startup recovery, which changes nothing but one step of the execution.
RecoveryStep ==
    \/ ReadBucket("down", "IN_PROGRESS") \/ ReadBucket("IN_PROGRESS", "INTERRUPTED")
    \/ ReadParent \/ RecoveryEnds
    \/ \E s \in Steps : RecoverStep(s)

LEMMA RecoversTyped ==
    ASSUME Typed, NEW r \in Recoveries, NEW missed \in BOOLEAN, Recovers(r, missed),
           r.before = recovery.before, r.interrupted = recovery.interrupted,
           r.resumed = recovery.resumed
    PROVE  /\ recovery' \in Recoveries
           /\ recovery'.stage = r.stage /\ recovery'.parent = r.parent /\ recovery'.found = r.found
           /\ recovery'.before = recovery.before /\ recovery'.interrupted = recovery.interrupted
           /\ recovery'.resumed = recovery.resumed
           /\ recovery.missed \/ missed => recovery'.missed
           /\ UNCHANGED <<status, run, node, outcome, request, section>>
BY DEF Recovers, Recoveries, Typed

\* What each of them does, unless something fails.
BucketRead(from, to) ==
    /\ recovery.stage = from /\ recovery'.stage = to /\ recovery'.parent = recovery.parent
    /\ recovery.found = {} /\ UNCHANGED step
    /\ ~recovery'.missed => recovery'.found = {s \in Steps : step[s] = to}
ParentRead ==
    /\ recovery.parent = "unread" /\ recovery.found # {} /\ UNCHANGED step
    /\ recovery'.stage = recovery.stage /\ recovery'.found = recovery.found
    /\ recovery'.parent \in {status, "none"}
    /\ ~recovery'.missed => recovery'.parent = status
Ended ==
    /\ recovery.stage = "INTERRUPTED" /\ recovery'.stage = "over"
    /\ recovery.found = {} /\ recovery'.found = {} /\ UNCHANGED step
Recovered(s) ==
    /\ s \in recovery.found /\ recovery'.found = recovery.found \ {s}
    /\ recovery'.parent = recovery.parent /\ recovery.parent # "unread"
    /\ recovery'.stage = recovery.stage
    /\ \/ /\ Recoverable(s) /\ StillStuck(s)
          /\ step' = [step EXCEPT ![s] = "FAILED"]
       \/ UNCHANGED step /\ (recovery'.missed \/ ~Recoverable(s) \/ ~StillStuck(s))

LEMMA RecoveryDoes ==
    ASSUME Typed, RecoveryStep
    PROVE  /\ recovery' \in Recoveries
           /\ recovery'.before = recovery.before /\ recovery'.interrupted = recovery.interrupted
           /\ recovery'.resumed = recovery.resumed
           /\ recovery.missed => recovery'.missed
           /\ UNCHANGED <<status, run, node, outcome, request, section>>
           /\ \/ BucketRead("down", "IN_PROGRESS") \/ BucketRead("IN_PROGRESS", "INTERRUPTED")
              \/ ParentRead \/ Ended
              \/ \E s \in Steps : Recovered(s)
<1>0. recovery \in Recoveries /\ status \in Statuses
  BY DEF Typed
<1>1. ASSUME NEW from, NEW to \in Buckets, ReadBucket(from, to)
      PROVE  /\ recovery' \in Recoveries
             /\ recovery'.before = recovery.before
             /\ recovery'.interrupted = recovery.interrupted
             /\ recovery'.resumed = recovery.resumed
             /\ recovery.missed => recovery'.missed
             /\ UNCHANGED <<status, run, node, outcome, request, section>>
             /\ BucketRead(from, to)
  <2>1. CASE Recovers([recovery EXCEPT !.stage = to, !.found = {s \in Steps : step[s] = to}], FALSE)
    <3> DEFINE new == [recovery EXCEPT !.stage = to, !.found = {s \in Steps : step[s] = to}]
    <3>1. /\ new \in Recoveries /\ new.before = recovery.before
          /\ new.interrupted = recovery.interrupted /\ new.resumed = recovery.resumed
          /\ new.stage = to /\ new.parent = recovery.parent
          /\ new.found = {s \in Steps : step[s] = to}
      BY <1>0 DEF Recoveries
    <3> HIDE DEF new
    <3>2. Recovers(new, FALSE)
      BY <2>1 DEF new
    <3> QED BY <1>1, <3>1, <3>2, RecoversTyped DEF ReadBucket, BucketRead
  <2>2. CASE Recovers([recovery EXCEPT !.stage = to], TRUE)
    <3> DEFINE new == [recovery EXCEPT !.stage = to]
    <3>1. /\ new \in Recoveries /\ new.before = recovery.before
          /\ new.interrupted = recovery.interrupted /\ new.resumed = recovery.resumed
          /\ new.stage = to /\ new.parent = recovery.parent
      BY <1>0 DEF Recoveries
    <3> HIDE DEF new
    <3>2. Recovers(new, TRUE)
      BY <2>2 DEF new
    <3> QED BY <1>1, <3>1, <3>2, RecoversTyped DEF ReadBucket, BucketRead
  <2> QED BY <1>1, <2>1, <2>2 DEF ReadBucket
<1>2. ASSUME ReadParent
      PROVE  /\ recovery' \in Recoveries
             /\ recovery'.before = recovery.before
             /\ recovery'.interrupted = recovery.interrupted
             /\ recovery'.resumed = recovery.resumed
             /\ recovery.missed => recovery'.missed
             /\ UNCHANGED <<status, run, node, outcome, request, section>>
             /\ ParentRead
  <2>1. PICK parent \in {status, "none"} :
            Recovers([recovery EXCEPT !.parent = parent], parent # status)
    BY <1>0, <1>2 DEF ReadParent, Statuses
  <2> DEFINE new == [recovery EXCEPT !.parent = parent]
  <2>2. /\ new \in Recoveries /\ new.before = recovery.before
        /\ new.interrupted = recovery.interrupted /\ new.resumed = recovery.resumed
        /\ new.stage = recovery.stage /\ new.parent = parent /\ new.found = recovery.found
    BY <1>0 DEF Recoveries
  <2> HIDE DEF new
  <2>3. Recovers(new, parent # status)
    BY <2>1 DEF new
  <2> QED BY <1>2, <2>2, <2>3, RecoversTyped DEF ReadParent, ParentRead
<1>3. ASSUME RecoveryEnds
      PROVE  /\ recovery' \in Recoveries
             /\ recovery'.before = recovery.before
             /\ recovery'.interrupted = recovery.interrupted
             /\ recovery'.resumed = recovery.resumed
             /\ recovery.missed => recovery'.missed
             /\ UNCHANGED <<status, run, node, outcome, request, section>>
             /\ Ended
  <2> DEFINE new == [recovery EXCEPT !.stage = "over"]
  <2>1. /\ new \in Recoveries /\ new.before = recovery.before
        /\ new.interrupted = recovery.interrupted /\ new.resumed = recovery.resumed
        /\ new.stage = "over" /\ new.found = recovery.found
    BY <1>0 DEF Recoveries
  <2> HIDE DEF new
  <2>2. Recovers(new, FALSE)
    BY <1>3 DEF RecoveryEnds, new
  <2> QED BY <1>3, <2>1, <2>2, RecoversTyped DEF RecoveryEnds, Ended
<1>4. ASSUME NEW s \in Steps, RecoverStep(s)
      PROVE  /\ recovery' \in Recoveries
             /\ recovery'.before = recovery.before
             /\ recovery'.interrupted = recovery.interrupted
             /\ recovery'.resumed = recovery.resumed
             /\ recovery.missed => recovery'.missed
             /\ UNCHANGED <<status, run, node, outcome, request, section>>
             /\ Recovered(s)
  <2> DEFINE new == [recovery EXCEPT !.found = @ \ {s}]
  <2>1. /\ new \in Recoveries /\ new.before = recovery.before
        /\ new.interrupted = recovery.interrupted /\ new.resumed = recovery.resumed
        /\ new.stage = recovery.stage /\ new.parent = recovery.parent
        /\ new.found = recovery.found \ {s}
    BY <1>0 DEF Recoveries
  <2>2. \/ /\ Recovers(new, FALSE)
           /\ step' = IF Recoverable(s) /\ StillStuck(s)
                      THEN [step EXCEPT ![s] = "FAILED"] ELSE step
        \/ Recovers(new, TRUE) /\ UNCHANGED step
    BY <1>4 DEF RecoverStep
  <2>3. s \in recovery.found /\ recovery.parent # "unread"
    BY <1>4 DEF RecoverStep
  <2> HIDE DEF new
  <2>4. CASE Recovers(new, FALSE)
             /\ step' = IF Recoverable(s) /\ StillStuck(s)
                        THEN [step EXCEPT ![s] = "FAILED"] ELSE step
    BY <2>1, <2>3, <2>4, RecoversTyped DEF Recovered
  <2>5. CASE Recovers(new, TRUE) /\ UNCHANGED step
    BY <2>1, <2>3, <2>5, RecoversTyped DEF Recovered
  <2> QED BY <2>2, <2>4, <2>5
<1> QED BY <1>1, <1>2, <1>3, <1>4 DEF RecoveryStep, Buckets

LEMMA BaseRecovery ==
    ASSUME Typed, InUse, RecoveryStep
    PROVE  Typed' /\ InUse'
<1>1. step' \in [Steps -> Statuses \cup {"none"}]
  BY RecoveryDoes DEF BucketRead, ParentRead, Ended, Recovered, Typed, Statuses
<1> QED BY <1>1, RecoveryDoes DEF Typed, InUse

\* Every step is one of these.
LEMMA StepKinds ==
    ASSUME Next
    PROVE  \/ \E s \in Steps : NodeStep(s)
           \/ \E r \in Runs : RunStep(r)
           \/ \E i \in Services : ServiceStep(i)
           \/ \E a \in Aborts : Abort(a)
           \/ Crash \/ RecoveryStep
BY DEF Next, NodeStep, RunStep, ServiceStep, Queries, RecoveryStep, Services

LEMMA BaseStep == Typed /\ InUse /\ [Next]_vars => Typed' /\ InUse'
<1> SUFFICES ASSUME Typed, InUse, [Next]_vars PROVE Typed' /\ InUse'
  OBVIOUS
<1>1. CASE UNCHANGED vars
  BY <1>1 DEF vars, Typed, InUse
<1>2. CASE Next
  BY <1>2, StepKinds, BaseNode, BaseRun, BaseService, BaseAbort, BaseCrash, BaseRecovery
<1> QED BY <1>1, <1>2

LEMMA Base == Spec => [](Typed /\ InUse)
BY BaseInit, BaseStep, PTL DEF Spec

\* Every variable keeps its type, for every number of runs, nodes and abort requests.
THEOREM ExecutionTypeCorrect == Spec => []TypeOK
BY Base, TypedTypes, PTL
-----------------------------------------------------------------------------
(* Changes of the status row, and of the sections *)

\* The status is written by a service in its section, or by a resume.
LEMMA StatusWriters ==
    ASSUME Typed, InUse, [Next]_vars, status' # status
    PROVE  \/ \E i \in Services : WriteStatus(i)
           \/ \E r \in Resumes : ResumeStart(r)
<1>1. Next
  BY DEF vars
<1>2. \A s \in Steps : ~NodeStep(s)
  BY DEF NodeStep, StartState, NodeAborted, NodeExecutes, NodeExecuted, FinishStateBegins,
         NodeReports, Refresh
<1>3. ASSUME NEW r \in Runs, RunStep(r)
      PROVE  ResumeStart(r) /\ r \in Resumes
  BY <1>3 DEF RunStep, ResumeStart, RunFails, RunInterrupted, RunFinishes, Refresh
<1>4. ASSUME NEW i \in Services, ServiceStep(i)
      PROVE  WriteStatus(i)
  BY <1>4, QueryIs DEF ServiceStep, Query, Swept, GiveWay, StatusWritten, FinishState, Return
<1>5. \A a \in Aborts : ~Abort(a)
  BY DEF Abort, Refresh
<1>6. ~Crash /\ ~RecoveryStep
  BY RecoveryDoes DEF Crash
<1> QED BY <1>1, <1>2, <1>3, <1>4, <1>5, <1>6, StepKinds

\* Only finish_state can write IN_PROGRESS, and only if it has read it.
LEMMA WritesInProgress ==
    ASSUME Typed, InUse, NEW i \in Services, WriteStatus(i), status' = "IN_PROGRESS",
           status # "IN_PROGRESS"
    PROVE  Holds(i, "finish_state", "read") /\ section[i].read = "IN_PROGRESS"
<1>1. section[i].op \in Ops \ {"none", "resume"} /\ section[i].phase = "read"
  BY DEF WriteStatus, InUse, Typed, Sections, Services
<1>2. status' = StatusToWrite(section[i].op, section[i].read)
  BY DEF WriteStatus
<1> QED BY <1>1, <1>2 DEF StatusToWrite, Ops, Holds

\* What a step does to the section of i: nothing, or i enters it having read the row, goes
\* on inside, or leaves it.
Enters(i) ==
    /\ section[i].op = "none" /\ section'[i].phase = "read" /\ section'[i].read = status
    /\ section'[i].found = {} /\ status' = status
Resuming(i) == section'[i].op = "resume" /\ section'[i].found = {}
LEMMA SectionChanges ==
    ASSUME Typed, InUse, [Next]_vars, NEW i \in Services
    PROVE  \/ section'[i] = section[i]
           \/ Enters(i)
           \/ WriteStatus(i) \/ Queries(i)
           \/ Resuming(i)
           \/ section'[i] = Free /\ status' = status
<1>1. CASE UNCHANGED vars
  BY <1>1 DEF vars
<1>2. ASSUME NEW j \in Services, NEW op, NEW by, Refresh(j, op, by)
      PROVE  section'[i] = section[i] \/ Enters(i)
  BY <1>2 DEF Refresh, LockFree, Typed, Enters
<1>3. ASSUME NEW j \in Services, Leave(j)
      PROVE  section'[i] \in {section[i], Free}
  BY <1>3 DEF Leave, Typed
<1>4. ASSUME NEW s \in Steps, NodeStep(s)
      PROVE  section'[i] = section[i] \/ Enters(i)
  <2>1. RunOf(s) \in Services
    BY StepsOfRuns DEF Services
  <2> QED BY <1>2, <1>4, <2>1 DEF NodeStep, StartState, NodeAborted, NodeExecutes,
                                   NodeExecuted, FinishStateBegins, NodeReports
<1>5. ASSUME NEW r \in Runs, RunStep(r)
      PROVE  section'[i] = section[i] \/ Enters(i) \/ Resuming(i)
  <2>1. r \in Services
    BY DEF Services
  <2>2. CASE ResumeStart(r)
    BY <2>1, <2>2 DEF ResumeStart, Typed, Free, Resuming
  <2> QED BY <1>2, <1>5, <2>1, <2>2 DEF RunStep, RunFails, RunInterrupted, RunFinishes
<1>6. ASSUME NEW j \in Services, ServiceStep(j)
      PROVE  \/ section'[i] = section[i] \/ WriteStatus(i) \/ Queries(i)
             \/ section'[i] = Free /\ status' = status
  <2>1. CASE WriteStatus(j)
    BY <2>1 DEF WriteStatus, Typed
  <2>2. CASE Queries(j)
    BY <2>2, QueryIs DEF Query, Typed
  <2>3. CASE Swept(j) \/ GiveWay(j) \/ StatusWritten(j)
    BY <1>3, <2>3 DEF Swept, GiveWay, StatusWritten, Return
  <2>4. CASE j \in Runs /\ FinishState(j)
    BY <1>3, <2>4 DEF FinishState
  <2> QED BY <1>6, <2>1, <2>2, <2>3, <2>4 DEF ServiceStep
<1>7. ASSUME NEW a \in Aborts, Abort(a)
      PROVE  section'[i] = section[i] \/ Enters(i)
  BY <1>2, <1>7 DEF Abort, Services
<1>8. CASE Crash
  BY <1>8 DEF Crash
<1>9. CASE RecoveryStep
  BY <1>9, RecoveryDoes
<1> QED BY <1>1, <1>4, <1>5, <1>6, <1>7, <1>8, <1>9, StepKinds DEF vars

\* A run that was started does not become idle again.
LEMMA StaysStarted ==
    ASSUME Typed, InUse, [Next]_vars, NEW r \in Runs, run'[r] = "idle"
    PROVE  run[r] = "idle"
<1>1. CASE UNCHANGED vars
  BY <1>1 DEF vars
<1>2. ASSUME NEW s \in Steps, NodeStep(s)
      PROVE  run' = run
  BY <1>2 DEF NodeStep, NodeMoves, StartState, NodeAborted, NodeExecutes, NodeExecuted,
              FinishStateBegins, NodeReports
<1>3. ASSUME NEW q \in Runs, RunStep(q)
      PROVE  run[r] = "idle"
  BY <1>3 DEF RunStep, ResumeStart, RunFails, RunInterrupted, RunFinishes, RunMoves,
              NodeMoves, Typed
<1>4. ASSUME NEW i \in Services, ServiceStep(i)
      PROVE  run[r] = "idle"
  BY <1>4, QueryIs DEF ServiceStep, WriteStatus, Query, Swept, GiveWay, StatusWritten,
              FinishState, NodeMoves, Return, Typed
<1>5. CASE (\E a \in Aborts : Abort(a)) \/ Crash \/ RecoveryStep
  BY <1>5, RecoveryDoes DEF Abort, Crash, Typed
<1> QED BY <1>1, <1>2, <1>3, <1>4, <1>5, StepKinds

-----------------------------------------------------------------------------
(* Sibling nodes *)

\* While only the first run has ever run, its service is the only one that writes anything
\* but ABORTED: once it has recorded a failure, it does not hold an older row.
NoResume == \A r \in Resumes : run[r] = "idle"
HoldsProgress(r) == Holds(r, "finish_state", "read") /\ section[r].read = "IN_PROGRESS"
NoStaleRow ==
    NoResume /\ status \in {"FAILED", "AUTHENTICATION_REQUIRED"} =>
        \A r \in Runs : ~HoldsProgress(r)

LEMMA OnlyFirstRuns ==
    ASSUME InUse, NoResume, NEW r \in Runs, section[r].op # "none"
    PROVE  r = First
BY DEF InUse, NoResume, Runs

LEMMA NoStaleRowStep ==
    Typed /\ InUse /\ Typed' /\ InUse' /\ NoStaleRow /\ [Next]_vars => NoStaleRow'
<1> SUFFICES ASSUME Typed, InUse, Typed', InUse', NoStaleRow, [Next]_vars, NoResume',
                    status' \in {"FAILED", "AUTHENTICATION_REQUIRED"},
                    NEW r \in Runs, HoldsProgress(r)'
             PROVE  FALSE
  BY DEF NoStaleRow
<1>1. NoResume
  BY StaysStarted DEF NoResume, Runs
<1>2. r \in Services
  BY DEF Services
<1>3. section'[r] = section[r]
  <2>1. ~Enters(r) /\ section'[r] # Free /\ ~Resuming(r)
    BY DEF HoldsProgress, Holds, Enters, Free, Resuming
  <2>2. section'[r].phase = "read" /\ section[r] \in Sections
    BY <1>2 DEF HoldsProgress, Holds, Typed
  <2>3. ~WriteStatus(r)
    BY <1>2, <2>2 DEF WriteStatus, Typed, Sections
  <2>4. ~Queries(r)
    <3>1. ASSUME NEW found, Query(r, found)
          PROVE  section'[r].phase = "found"
      BY <1>2, <3>1 DEF Query, Typed, Sections
    <3> QED BY <1>2, <2>2, <3>1, QueryIs
  <2> QED BY <1>2, <2>1, <2>3, <2>4, SectionChanges
<1>4. r = First /\ HoldsProgress(r)
  BY <1>1, <1>3, OnlyFirstRuns DEF HoldsProgress, Holds
<1>5. status' # status
  BY <1>1, <1>4 DEF NoStaleRow
<1>6. ~\E q \in Resumes : ResumeStart(q)
  BY DEF ResumeStart, RunMoves, Typed, NoResume, Runs
<1>7. PICK i \in Services : WriteStatus(i)
  BY <1>5, <1>6, StatusWriters
<1>8. i # r
  BY <1>2, <1>3, <1>7 DEF WriteStatus, Typed, Sections
<1>9. i \in Aborts /\ section[i].op = "abort"
  BY <1>1, <1>4, <1>7, <1>8, OnlyFirstRuns DEF Services, InUse, WriteStatus
<1> QED BY <1>5, <1>7, <1>9 DEF WriteStatus, StatusToWrite

LEMMA SiblingsKeepStatusStep ==
    Typed /\ InUse /\ NoStaleRow /\ [Next]_vars =>
        (NoResume' /\ status \in {"FAILED", "AUTHENTICATION_REQUIRED"} =>
            status' # "IN_PROGRESS")
<1> SUFFICES ASSUME Typed, InUse, NoStaleRow, [Next]_vars, NoResume',
                    status \in {"FAILED", "AUTHENTICATION_REQUIRED"}, status' = "IN_PROGRESS"
             PROVE  FALSE
  OBVIOUS
<1>1. NoResume
  BY StaysStarted DEF NoResume, Runs
<1>2. ~\E q \in Resumes : ResumeStart(q)
  BY DEF ResumeStart, RunMoves, Typed, NoResume, Runs
<1>3. PICK i \in Services : WriteStatus(i)
  BY <1>2, StatusWriters
<1>4. Holds(i, "finish_state", "read") /\ section[i].read = "IN_PROGRESS"
  BY <1>3, WritesInProgress
<1>5. i \in Runs
  BY <1>4 DEF Services, InUse, Holds
<1> QED BY <1>1, <1>4, <1>5 DEF NoStaleRow, HoldsProgress

\* A failure or an authentication request recorded by one node is not lost to a sibling, for
\* every number of nodes and abort requests.
THEOREM SiblingsAlwaysKeepStatus == Spec => SiblingsKeepStatus
<1>1. Init => NoStaleRow
  BY DEF Init, NoStaleRow
<1>2. Spec => []NoStaleRow
  BY <1>1, Base, NoStaleRowStep, PTL DEF Spec
<1>3. Typed /\ InUse /\ NoStaleRow /\ [Next]_vars =>
        [(/\ \A r \in Resumes : run'[r] = "idle"
          /\ status \in {"FAILED", "AUTHENTICATION_REQUIRED"}) => status' # "IN_PROGRESS"]_vars
  BY SiblingsKeepStatusStep DEF NoResume
<1> QED BY <1>2, <1>3, Base, PTL DEF Spec, SiblingsKeepStatus
-----------------------------------------------------------------------------
(* Every execution is decided *)

\* A run is past its last word once its own closing operation (by = <<>>) has written the
\* row or is about to give way to an abort.
LastWord(r) ==
    /\ section[r].op \notin {"none", "resume"} /\ section[r].by = <<>>
    /\ \/ section[r].phase \in {"written", "found"}
       \/ section[r].phase = "read" /\ GivesWayToAbort(r)
WillDecide(r) == run[r] = "graph" /\ ~LastWord(r)
Undecided == recovery.stage = "up" /\ status = "IN_PROGRESS"
SomeoneDecides == Undecided => \E r \in Runs : WillDecide(r)

\* A run ends by its last word, or with the process.
LEMMA EndsAfterLastWord ==
    ASSUME Typed, InUse, [Next]_vars, NEW r \in Runs, run[r] = "graph", run'[r] # "graph"
    PROVE  LastWord(r) \/ Crash
<1>1. Next
  BY DEF vars
<1>2. \A s \in Steps : ~NodeStep(s)
  BY DEF NodeStep, NodeMoves, StartState, NodeAborted, NodeExecutes, NodeExecuted,
         FinishStateBegins, NodeReports
<1>3. \A q \in Runs : ~RunStep(q)
  BY DEF RunStep, ResumeStart, RunFails, RunInterrupted, RunFinishes, RunMoves, NodeMoves, Typed
<1>4. ASSUME NEW i \in Services, ServiceStep(i)
      PROVE  LastWord(r)
  <2>1. ~WriteStatus(i) /\ ~Queries(i) /\ ~FinishState(i)
    BY QueryIs DEF WriteStatus, Query, FinishState, NodeMoves
  <2>2. Return(i)
    BY <1>4, <2>1 DEF ServiceStep, Swept, GiveWay, StatusWritten
  <2>3. i = r /\ section[i].by = <<>> /\ section[i].op # "resume"
    BY <2>2 DEF Return, Typed
  <2>4. \/ section[i].phase \in {"written", "found"}
        \/ section[i].phase = "read" /\ GivesWayToAbort(i)
    BY <1>4, <2>1 DEF ServiceStep, Swept, GiveWay, StatusWritten, Holds
  <2> QED BY <2>3, <2>4 DEF LastWord, InUse, Services
<1>5. \A a \in Aborts : ~Abort(a)
  BY DEF Abort
<1>6. ~RecoveryStep
  BY RecoveryDoes
<1> QED BY <1>1, <1>2, <1>3, <1>4, <1>5, <1>6, StepKinds

\* Who writes recovery.
LEMMA RecoveryWriters ==
    ASSUME [Next]_vars, recovery' # recovery
    PROVE  Crash \/ RecoveryStep \/ \E r \in Runs : ResumeStart(r)
<1>1. Next
  BY DEF vars
<1>2. \A s \in Steps : ~NodeStep(s)
  BY DEF NodeStep, StartState, NodeAborted, NodeExecutes, NodeExecuted, FinishStateBegins,
         NodeReports, Refresh
<1>3. \A r \in Runs : RunStep(r) => ResumeStart(r)
  BY DEF RunStep, RunFails, RunInterrupted, RunFinishes, Refresh
<1>4. \A i \in Services : ~ServiceStep(i)
  BY QueryIs DEF ServiceStep, WriteStatus, Query, Swept, GiveWay, StatusWritten, FinishState, Return
<1>5. \A a \in Aborts : ~Abort(a)
  BY DEF Abort, Refresh
<1> QED BY <1>1, <1>2, <1>3, <1>4, <1>5, StepKinds

\* Recovery has steps before it only while it goes through a bucket, and reads the execution
\* for the first of them.
ScanOpen ==
    /\ recovery.found # {} => recovery.stage \in Buckets
    /\ recovery.stage \in {"up", "down"} => recovery.parent = "unread"

LEMMA ScanOpenStep == Typed /\ ScanOpen /\ [Next]_vars => ScanOpen'
<1> SUFFICES ASSUME Typed, ScanOpen, [Next]_vars PROVE ScanOpen'
  OBVIOUS
<1>1. CASE recovery' = recovery
  BY <1>1 DEF ScanOpen
<1>2. CASE Crash
  BY <1>2 DEF Crash, Typed, Recoveries, ScanOpen, Buckets
<1>3. CASE RecoveryStep
  <2>1. CASE BucketRead("down", "IN_PROGRESS") \/ BucketRead("IN_PROGRESS", "INTERRUPTED")
    BY <2>1 DEF BucketRead, ScanOpen, Buckets
  <2>2. CASE ParentRead \/ Ended
    BY <2>2 DEF ParentRead, Ended, ScanOpen, Buckets
  <2>3. CASE \E s \in Steps : Recovered(s)
    BY <2>3 DEF Recovered, ScanOpen, Buckets
  <2> QED BY <1>3, <2>1, <2>2, <2>3, RecoveryDoes
<1>4. CASE \E r \in Runs : ResumeStart(r)
  BY <1>4 DEF ResumeStart, Typed, Recoveries, ScanOpen
<1> QED BY <1>1, <1>2, <1>3, <1>4, RecoveryWriters

LEMMA Scans == Spec => []ScanOpen
<1>1. Init => ScanOpen
  BY DEF Init, ScanOpen
<1> QED BY <1>1, Base, ScanOpenStep, PTL DEF Spec

\* The process that crashed does not come up as if nothing had happened, and what has been
\* resumed since stays resumed.
LEMMA StaysDown ==
    ASSUME [Next]_vars, Typed, ScanOpen
    PROVE  /\ recovery'.stage = "up" => recovery.stage = "up" /\ ~Crash
           /\ recovery.stage # "up" /\ recovery.resumed => recovery'.resumed
<1>1. CASE recovery' = recovery
  BY <1>1 DEF Crash, Typed, Recoveries
<1>2. CASE Crash
  BY <1>2 DEF Crash, Typed, Recoveries
<1>3. CASE RecoveryStep
  <2>1. recovery'.stage # "up"
    BY <1>3, RecoveryDoes DEF BucketRead, ParentRead, Ended, Recovered, ScanOpen, Buckets
  <2> QED BY <1>3, <2>1, RecoveryDoes
<1>4. CASE \E r \in Runs : ResumeStart(r)
  BY <1>4 DEF ResumeStart, Crash, Typed, Recoveries
<1> QED BY <1>1, <1>2, <1>3, <1>4, RecoveryWriters

\* Whoever makes the execution IN_PROGRESS has a last word to say.
LEMMA WriterDecides ==
    ASSUME Typed, InUse, Typed', InUse', [Next]_vars,
           status' = "IN_PROGRESS", status # "IN_PROGRESS"
    PROVE  \E r \in Runs : WillDecide(r)'
<1>1. ASSUME NEW i \in Services, WriteStatus(i)
      PROVE  i \in Runs /\ WillDecide(i)'
  <2>1. Holds(i, "finish_state", "read")
    BY <1>1, WritesInProgress
  <2>2. i \in Runs /\ run[i] = "graph" /\ section[i].by \in Steps
    BY <2>1 DEF Services, InUse, Holds
  <2>3. section'[i].by = section[i].by /\ run' = run
    BY <1>1, <2>2 DEF WriteStatus, Typed, Sections, Services
  <2> QED BY <2>2, <2>3, StepsOfRuns DEF WillDecide, LastWord
<1>2. ASSUME NEW r \in Resumes, ResumeStart(r)
      PROVE  r \in Runs /\ WillDecide(r)'
  <2>1. r \in Runs /\ section'[r].op = "resume"
    BY <1>2 DEF ResumeStart, Runs, Services, Typed, Free
  <2>2. run'[r] = "graph"
    BY <1>2, <2>1 DEF ResumeStart, RunMoves, Typed
  <2> QED BY <2>1, <2>2 DEF WillDecide, LastWord
<1> QED BY <1>1, <1>2, StatusWriters

\* As long as the execution stays IN_PROGRESS, a run with a last word to say keeps it.
LEMMA DeciderStays ==
    ASSUME Typed, InUse, Typed', InUse', [Next]_vars, ~Crash,
           status' = "IN_PROGRESS", status = "IN_PROGRESS",
           NEW r \in Runs, WillDecide(r)
    PROVE  WillDecide(r)'
<1>1. run'[r] = "graph"
  BY EndsAfterLastWord DEF WillDecide
<1>2. r \in Services
  BY DEF Services
<1> SUFFICES ASSUME LastWord(r)' PROVE FALSE
  BY <1>1 DEF WillDecide
<1>3. CASE section'[r] = section[r]
  BY <1>3 DEF WillDecide, LastWord, GivesWayToAbort
<1>4. CASE Enters(r) \/ Resuming(r)
  BY <1>4 DEF Enters, Resuming, LastWord, GivesWayToAbort
<1>5. CASE WriteStatus(r)
  <2>1. section[r].by = <<>> /\ section[r].op \in Ops \ {"none"}
    BY <1>2, <1>5 DEF WriteStatus, LastWord, Typed, Sections
  <2>2. section[r].op \notin {"finish_state", "abort", "resume"}
    BY <1>5, <2>1, StepsOfRuns DEF InUse, WriteStatus
  <2>3. status' = StatusToWrite(section[r].op, section[r].read)
    BY <1>5, <2>2 DEF WriteStatus
  <2> QED BY <2>1, <2>2, <2>3 DEF StatusToWrite, Ops
<1>6. CASE Queries(r)
  <2>1. section[r] \in Sections /\ section[r].phase = "written"
    BY <1>2, <1>6, QueryIs DEF Typed
  <2>2. PICK found : section' = [section EXCEPT ![r].phase = "found", ![r].found = found]
    BY <1>2, <1>6, QueryIs DEF Query
  <2>3. section'[r].by = section[r].by /\ section'[r].op = section[r].op
    BY <1>2, <2>1, <2>2 DEF Typed, Sections
  <2> QED BY <2>1, <2>3 DEF WillDecide, LastWord
<1>7. CASE section'[r] = Free
  BY <1>7 DEF LastWord, Free
<1> QED BY <1>2, <1>3, <1>4, <1>5, <1>6, <1>7, SectionChanges

LEMMA SomeoneDecidesStep ==
    Typed /\ InUse /\ Typed' /\ InUse' /\ ScanOpen /\ SomeoneDecides /\ [Next]_vars
        => SomeoneDecides'
BY StaysDown, WriterDecides, DeciderStays DEF SomeoneDecides, Undecided

\* Once every run has ended and none died, the execution is not left IN_PROGRESS, for every
\* number of runs, nodes and abort requests.
THEOREM ExecutionsAlwaysEndDecided == Spec => []EndsDecided
<1>1. Init => SomeoneDecides
  <2> SUFFICES ASSUME Init PROVE WillDecide(First) /\ First \in Runs
    BY DEF SomeoneDecides
  <2> QED BY DEF Init, WillDecide, LastWord, Free, Services, Runs
<1>2. Spec => []SomeoneDecides
  BY <1>1, Base, Scans, SomeoneDecidesStep, PTL DEF Spec
<1>3. SomeoneDecides => EndsDecided
  BY DEF SomeoneDecides, Undecided, WillDecide, EndsDecided, Quiet
<1> QED BY <1>2, <1>3, PTL

-----------------------------------------------------------------------------
(* Startup recovery *)

Ill(s) ==
    \/ step[s] = "IN_PROGRESS" /\ status \in Terminal
    \/ step[s] = "INTERRUPTED" /\ status \in Terminal \ {"INTERRUPTED"}
\* An abort request that has not swept s yet.
WillSweep(a, s) ==
    \/ Holds(a, "abort", "written")
    \/ Holds(a, "abort", "found") /\ s \in section[a].found
Unresumed == recovery.stage # "up" /\ ~recovery.resumed
NobodyRuns == Unresumed => \A r \in Runs : run[r] # "graph"

\* What can happen after the process has died, until somebody resumes the execution.
LEMMA UnresumedSteps ==
    ASSUME Typed, InUse, ScanOpen, NobodyRuns, [Next]_vars, Unresumed'
    PROVE  \/ Crash
           \/ /\ Unresumed
              /\ \/ RecoveryStep
                 \/ \E a \in Aborts : Abort(a) \/ ServiceStep(a)
                 \/ UNCHANGED vars
<1> SUFFICES ASSUME ~Crash
             PROVE  Unresumed /\ (\/ RecoveryStep
                                  \/ \E a \in Aborts : Abort(a) \/ ServiceStep(a)
                                  \/ UNCHANGED vars)
  OBVIOUS
<1>1. Unresumed
  <2>1. CASE recovery' = recovery
    BY <2>1 DEF Unresumed
  <2>2. CASE RecoveryStep
    <3>1. recovery.stage # "up"
      BY <2>2, RecoveryDoes DEF BucketRead, ParentRead, Ended, Recovered, ScanOpen, Buckets
    <3>2. recovery'.resumed = recovery.resumed
      BY <2>2, RecoveryDoes
    <3> QED BY <3>1, <3>2 DEF Unresumed
  <2>3. CASE \E r \in Runs : ResumeStart(r)
    BY <2>3 DEF ResumeStart, Unresumed, Typed, Recoveries
  <2> QED BY <2>1, <2>2, <2>3, RecoveryWriters
<1>2. \A r \in Runs : run[r] # "graph" /\ section[r].op = "none" /\ section[r].phase = "free"
  BY <1>1 DEF NobodyRuns, InUse, Services
<1>3. \A s \in Steps : ~NodeStep(s)
  BY <1>2, StepsOfRuns DEF NodeStep, NodeMoves, StartState, NodeAborted, NodeExecutes,
         NodeExecuted, FinishStateBegins, NodeReports
<1>4. \A r \in Runs : ~RunStep(r)
  BY <1>1, <1>2 DEF RunStep, ResumeStart, RunFails, RunInterrupted, RunFinishes, NodesDone,
                    Unresumed, Typed, Recoveries
<1>5. ASSUME NEW r \in Runs PROVE ~ServiceStep(r)
  <2>1. section[r].phase = "free" /\ section[r].op = "none" /\ r \in Services
    BY <1>2 DEF Services
  <2>2. ~Queries(r)
    BY <2>1, QueryIs
  <2> QED BY <2>1, <2>2 DEF ServiceStep, WriteStatus, Swept, GiveWay, StatusWritten,
                            FinishState, Holds
<1>6. CASE UNCHANGED vars
  BY <1>1, <1>6
<1>7. CASE Next
  BY <1>1, <1>3, <1>4, <1>5, <1>7, StepKinds DEF Services
<1> QED BY <1>6, <1>7

\* An abort request inside its lock writes ABORTED, queries, sweeps and leaves.
AbortWrites(a) ==
    /\ status' = "ABORTED" /\ section'[a].op = "abort" /\ section'[a].phase = "written"
    /\ section[a].phase = "read" /\ UNCHANGED step
AbortQueries(a) ==
    /\ section'[a].op = "abort" /\ section'[a].phase = "found"
    /\ section'[a].found = {s \in Steps : step[s] \in Stuck}
    /\ section[a].phase = "written" /\ UNCHANGED <<status, step>>
AbortSweeps(a) ==
    /\ section[a].phase = "found" /\ section'[a] = Free /\ UNCHANGED status
    /\ step' = [s \in Steps |-> IF s \in section[a].found THEN "ABORTED" ELSE step[s]]

LEMMA AbortSteps ==
    ASSUME Typed, InUse, NEW a \in Aborts, ServiceStep(a)
    PROVE  /\ section[a].op = "abort" /\ a \in Services
           /\ UNCHANGED <<recovery, run>>
           /\ \A b \in Services \ {a} : section'[b] = section[b]
           /\ AbortWrites(a) \/ AbortQueries(a) \/ AbortSweeps(a)
<1>1. section[a] \in Sections /\ a \in Services /\ a \notin Runs
  BY ActorsAssumption DEF Typed, Services
<1>2. section[a].op = "abort"
  <2>1. section[a].op # "none"
    BY <1>1, QueryIs DEF ServiceStep, WriteStatus, Swept, GiveWay, StatusWritten, Holds, InUse
  <2> QED BY <2>1 DEF InUse
<1>3. WriteStatus(a) \/ Queries(a) \/ Swept(a)
  BY <1>1, <1>2 DEF ServiceStep, GiveWay, StatusWritten, Holds, GivesWayToAbort
<1>4. CASE WriteStatus(a)
  <2>1. status' = "ABORTED" /\ section[a].phase = "read" /\ UNCHANGED <<step, recovery, run>>
    BY <1>2, <1>4 DEF WriteStatus, StatusToWrite
  <2>2. section' = [section EXCEPT ![a].phase = "written"]
    BY <1>4 DEF WriteStatus
  <2>3. /\ section'[a].op = "abort" /\ section'[a].phase = "written"
        /\ \A b \in Services \ {a} : section'[b] = section[b]
    BY <1>1, <1>2, <2>2 DEF Typed, Sections
  <2> QED BY <1>1, <1>2, <2>1, <2>3 DEF AbortWrites
<1>5. CASE Queries(a)
  <2> DEFINE stuck == {s \in Steps : step[s] \in Stuck}
  <2>1. Query(a, stuck) /\ section[a].phase = "written"
    BY <1>1, <1>2, <1>5, QueryIs
  <2>2. /\ section' = [section EXCEPT ![a].phase = "found", ![a].found = stuck]
        /\ UNCHANGED <<status, step, run, recovery>>
    BY <2>1 DEF Query
  <2> HIDE DEF stuck
  <2>3. /\ section'[a].op = "abort" /\ section'[a].phase = "found" /\ section'[a].found = stuck
        /\ \A b \in Services \ {a} : section'[b] = section[b]
    BY <1>1, <1>2, <2>2 DEF Typed, Sections
  <2> QED BY <1>1, <1>2, <2>1, <2>2, <2>3 DEF AbortQueries, stuck
<1>6. CASE Swept(a)
  <2>1. section[a].phase = "found" /\ Leave(a) /\ UNCHANGED <<status, recovery, run>>
    BY <1>1, <1>6 DEF Swept, Return
  <2>2. step' = [s \in Steps |-> IF s \in section[a].found THEN "ABORTED" ELSE step[s]]
    BY <1>2, <1>6 DEF Swept, Sweep, SweepStatus
  <2>3. section'[a] = Free /\ \A b \in Services \ {a} : section'[b] = section[b]
    BY <1>1, <2>1 DEF Leave, Typed
  <2> QED BY <1>1, <1>2, <2>1, <2>2, <2>3 DEF AbortSweeps
<1> QED BY <1>3, <1>4, <1>5, <1>6

LEMMA AbortBegins ==
    ASSUME Typed, InUse, NEW a \in Aborts, Abort(a)
    PROVE  /\ UNCHANGED <<status, step, run, recovery>>
           /\ a \in Services /\ section[a].op = "none" /\ section'[a].phase = "read"
           /\ \A b \in Services \ {a} : section'[b] = section[b]
BY DEF Abort, Refresh, LockFree, Typed, Services

LEMMA NobodyRunsStep ==
    Typed /\ InUse /\ ScanOpen /\ NobodyRuns /\ [Next]_vars => NobodyRuns'
<1> SUFFICES ASSUME Typed, InUse, ScanOpen, NobodyRuns, [Next]_vars, Unresumed', NEW r \in Runs
             PROVE  run'[r] # "graph"
  BY DEF NobodyRuns
<1>1. CASE Crash
  BY <1>1 DEF Crash, Typed
<1>2. ASSUME Unresumed, NEW a \in Aborts, Abort(a) \/ ServiceStep(a)
      PROVE  run' = run
  BY <1>2, AbortSteps, AbortBegins
<1>3. ASSUME Unresumed, RecoveryStep \/ UNCHANGED vars
      PROVE  run' = run
  BY <1>3, RecoveryDoes DEF vars
<1> QED BY <1>1, <1>2, <1>3, UnresumedSteps DEF NobodyRuns

\* Until somebody resumes the execution, only aborts write it, and no step begins: what an
\* interrupted execution keeps for its resume stays as it was.
Kept ==
    Unresumed =>
        /\ \A s \in Steps : step[s] # "none" => s \in recovery.before
        /\ status = "INTERRUPTED" => \A s \in recovery.interrupted : step[s] = "INTERRUPTED"
        /\ \A a \in Aborts :
            /\ section[a].phase \in {"written", "found"} => status = "ABORTED"
            /\ section[a].phase = "found" => section[a].found \subseteq recovery.before

LEMMA KeptStep ==
    Typed /\ InUse /\ ScanOpen /\ NobodyRuns /\ Kept /\ [Next]_vars => Kept'
<1> SUFFICES ASSUME Typed, InUse, ScanOpen, NobodyRuns, Kept, [Next]_vars, Unresumed'
             PROVE  Kept'
  BY DEF Kept
<1>0. Aborts \subseteq Services
  BY DEF Services
<1>1. CASE Crash
  <2>1. /\ recovery'.before = {s \in Steps : step[s] # "none"}
        /\ recovery'.interrupted = {s \in Steps : step[s] = "INTERRUPTED"}
        /\ UNCHANGED <<status, step>> /\ \A a \in Aborts : section'[a].phase = "free"
    BY <1>0, <1>1 DEF Crash, Typed, Recoveries, Free
  <2> QED BY <2>1 DEF Kept
<1>2. ASSUME Unresumed, NEW a \in Aborts, Abort(a)
      PROVE  Kept'
  BY <1>0, <1>2, AbortBegins DEF Kept
<1>3. ASSUME Unresumed, NEW a \in Aborts, ServiceStep(a)
      PROVE  Kept'
  <2>0. /\ section[a].op = "abort" /\ a \in Services /\ UNCHANGED recovery
        /\ \A b \in Aborts \ {a} : section'[b] = section[b]
        /\ AbortWrites(a) \/ AbortQueries(a) \/ AbortSweeps(a)
    BY <1>0, <1>3, AbortSteps
  <2>1. CASE AbortWrites(a)
    BY <1>3, <2>0, <2>1 DEF Kept, AbortWrites
  <2>2. CASE AbortQueries(a)
    <3>1. section'[a].found \subseteq recovery.before
      BY <1>3, <2>2 DEF Kept, AbortQueries, Stuck
    <3> QED BY <1>3, <2>0, <2>2, <3>1 DEF Kept, AbortQueries
  <2>3. CASE AbortSweeps(a)
    <3>1. status = "ABORTED" /\ status' = "ABORTED" /\ section[a].found \subseteq recovery.before
      BY <1>3, <2>3 DEF Kept, AbortSweeps
    <3>2. \A s \in Steps : step'[s] # "none" => s \in recovery.before
      BY <1>3, <2>3, <3>1 DEF Kept, AbortSweeps
    <3>3. section'[a].phase = "free"
      BY <2>3 DEF AbortSweeps, Free
    <3> QED BY <1>3, <2>0, <3>1, <3>2, <3>3 DEF Kept
  <2> QED BY <2>0, <2>1, <2>2, <2>3
<1>4. ASSUME Unresumed, RecoveryStep
      PROVE  Kept'
  <2>0. /\ recovery'.before = recovery.before /\ recovery'.interrupted = recovery.interrupted
        /\ UNCHANGED <<status, section>>
    BY <1>4, RecoveryDoes
  <2>1. \/ step' = step
        \/ \E s \in Steps : Recoverable(s) /\ StillStuck(s) /\ s \in recovery.found
                            /\ step' = [step EXCEPT ![s] = "FAILED"]
    BY <1>4, RecoveryDoes DEF BucketRead, ParentRead, Ended, Recovered
  <2>2. CASE step' = step
    BY <1>4, <2>0, <2>2 DEF Kept
  <2>3. ASSUME NEW s \in Steps, Recoverable(s), StillStuck(s), s \in recovery.found,
               step' = [step EXCEPT ![s] = "FAILED"]
        PROVE  Kept'
    <3>1. s \in recovery.before /\ recovery.stage \in Buckets /\ step[s] = recovery.stage
      BY <2>3 DEF Recoverable, StillStuck, ScanOpen
    <3>2. status = "INTERRUPTED" => step[s] # "INTERRUPTED"
      BY <2>3, <3>1 DEF Recoverable, StillStuck
    <3>3. /\ step'[s] = "FAILED" /\ \A t \in Steps \ {s} : step'[t] = step[t]
          /\ recovery.interrupted \subseteq Steps
      BY <2>3 DEF Typed, Recoveries
    <3>4. \A t \in Steps : step'[t] # "none" => t \in recovery.before
      BY <1>4, <3>1, <3>3 DEF Kept
    <3>5. status = "INTERRUPTED" => \A t \in recovery.interrupted : step'[t] = "INTERRUPTED"
      BY <1>4, <3>2, <3>3 DEF Kept
    <3> QED BY <1>4, <2>0, <3>4, <3>5 DEF Kept
  <2> QED BY <2>1, <2>2, <2>3
<1>5. CASE Unresumed /\ UNCHANGED vars
  BY <1>5 DEF vars, Kept, Unresumed
<1> QED BY <1>1, <1>2, <1>3, <1>4, <1>5, UnresumedSteps

\* A step that contradicts the execution is still before recovery, or before an abort.
Pending(s) ==
    \/ recovery.stage = "down"
    \/ /\ recovery.stage = "IN_PROGRESS" /\ recovery.parent \in {"unread", status}
       /\ step[s] = "INTERRUPTED" \/ s \in recovery.found
    \/ /\ recovery.stage = "INTERRUPTED" /\ recovery.parent \in {"unread", status}
       /\ step[s] = "INTERRUPTED" /\ s \in recovery.found
IllAreRepaired ==
    Unresumed /\ ~recovery.missed =>
        \A s \in Steps : Ill(s) => Pending(s) \/ \E a \in Aborts : WillSweep(a, s)

LEMMA IllDuringRecovery ==
    ASSUME Typed, ScanOpen, NobodyRuns, Kept, IllAreRepaired, Unresumed, RecoveryStep,
           ~recovery'.missed, NEW s \in Steps, Ill(s)'
    PROVE  Pending(s)' \/ \E a \in Aborts : WillSweep(a, s)'
<1>1. UNCHANGED <<status, section>> /\ ~recovery.missed
  BY RecoveryDoes
<1>2. \/ BucketRead("down", "IN_PROGRESS") \/ BucketRead("IN_PROGRESS", "INTERRUPTED")
      \/ ParentRead \/ Ended
      \/ \E t \in Steps : Recovered(t)
  BY RecoveryDoes
<1>3. step'[s] = step[s] /\ Ill(s)
  <2>1. CASE step' = step
    BY <1>1, <2>1 DEF Ill
  <2>2. ASSUME NEW t \in Steps, step' = [step EXCEPT ![t] = "FAILED"]
        PROVE  step'[s] = step[s] /\ Ill(s)
    BY <1>1, <2>2 DEF Ill, Typed
  <2> QED BY <1>2, <2>1, <2>2 DEF BucketRead, ParentRead, Ended, Recovered
<1>4. CASE \E a \in Aborts : WillSweep(a, s)
  BY <1>1, <1>4 DEF WillSweep, Holds
<1>5. CASE Pending(s)
  <2>1. CASE BucketRead("down", "IN_PROGRESS")
    BY <1>3, <2>1 DEF BucketRead, Pending, Ill, ScanOpen
  <2>2. CASE BucketRead("IN_PROGRESS", "INTERRUPTED")
    BY <1>1, <1>3, <1>5, <2>2 DEF BucketRead, Pending
  <2>3. CASE ParentRead
    BY <1>1, <1>3, <1>5, <2>3 DEF ParentRead, Pending, ScanOpen, Buckets
  <2>4. CASE Ended
    BY <1>5, <2>4 DEF Ended, Pending
  <2>5. ASSUME NEW t \in Steps, Recovered(t)
        PROVE  Pending(s)'
    <3>1. /\ t \in recovery.found /\ recovery'.found = recovery.found \ {t}
          /\ recovery'.parent = recovery.parent /\ recovery.parent # "unread"
          /\ recovery'.stage = recovery.stage /\ recovery.stage \in Buckets
      BY <2>5 DEF Recovered, ScanOpen
    <3>2. CASE s # t
      BY <1>1, <1>3, <1>5, <3>1, <3>2 DEF Pending, Buckets
    <3>3. CASE s = t /\ step[s] = recovery.stage
      <4>1. recovery.parent = status /\ s \in recovery.before
        BY <1>3, <1>5, <3>1, <3>3 DEF Pending, Buckets, Kept, Ill
      <4>2. Recoverable(s) /\ StillStuck(s)
        BY <1>3, <3>3, <4>1 DEF Recoverable, StillStuck, Ill
      <4>3. step' = [step EXCEPT ![s] = "FAILED"]
        BY <2>5, <3>3, <4>2 DEF Recovered
      <4> QED BY <1>3, <4>3 DEF Ill, Typed
    <3>4. CASE s = t /\ step[s] # recovery.stage
      BY <1>1, <1>3, <1>5, <3>1, <3>4 DEF Pending, Buckets, Ill
    <3> QED BY <3>2, <3>3, <3>4
  <2> QED BY <1>2, <2>1, <2>2, <2>3, <2>4, <2>5
<1> QED BY <1>1, <1>3, <1>4, <1>5 DEF IllAreRepaired

LEMMA IllDuringAborts ==
    ASSUME Typed, InUse, IllAreRepaired, Unresumed, ~recovery'.missed,
           NEW b \in Aborts, Abort(b) \/ ServiceStep(b), NEW s \in Steps, Ill(s)'
    PROVE  Pending(s)' \/ \E a \in Aborts : WillSweep(a, s)'
<1>1. Aborts \subseteq Services
  BY DEF Services
<1>2. recovery' = recovery
  BY AbortSteps, AbortBegins
<1>3. Ill(s) => Pending(s) \/ \E a \in Aborts : WillSweep(a, s)
  BY <1>2 DEF IllAreRepaired
<1>4. CASE Abort(b)
  <2>1. Ill(s) /\ status' = status /\ step' = step
    BY <1>4, AbortBegins DEF Ill
  <2>2. \A a \in Aborts : WillSweep(a, s) => WillSweep(a, s)'
    BY <1>1, <1>4, AbortBegins DEF WillSweep, Holds
  <2> QED BY <1>2, <1>3, <2>1, <2>2 DEF Pending
<1>5. CASE ServiceStep(b) /\ AbortWrites(b)
  BY <1>5 DEF AbortWrites, WillSweep, Holds
<1>6. CASE ServiceStep(b) /\ AbortQueries(b)
  <2>1. step[s] \in Stuck
    BY <1>6 DEF Ill, Stuck, AbortQueries
  <2> QED BY <1>6, <2>1 DEF AbortQueries, WillSweep, Holds
<1>7. CASE ServiceStep(b) /\ AbortSweeps(b)
  <2>1. s \notin section[b].found /\ step'[s] = step[s] /\ status' = status
    BY <1>7 DEF AbortSweeps, Ill
  <2>2. \A a \in Aborts : WillSweep(a, s) => WillSweep(a, s)'
    BY <1>1, <1>7, <2>1, AbortSteps DEF WillSweep, Holds, AbortSweeps
  <2>3. Ill(s)
    BY <2>1 DEF Ill
  <2> QED BY <1>2, <1>3, <2>1, <2>2, <2>3 DEF Pending
<1> QED BY <1>4, <1>5, <1>6, <1>7, AbortSteps

LEMMA IllAreRepairedStep ==
    Typed /\ InUse /\ ScanOpen /\ NobodyRuns /\ Kept /\ IllAreRepaired /\ [Next]_vars
        => IllAreRepaired'
<1> SUFFICES ASSUME Typed, InUse, ScanOpen, NobodyRuns, Kept, IllAreRepaired, [Next]_vars,
                    Unresumed', ~recovery'.missed, NEW s \in Steps, Ill(s)'
             PROVE  Pending(s)' \/ \E a \in Aborts : WillSweep(a, s)'
  BY DEF IllAreRepaired
<1>1. CASE Crash
  BY <1>1 DEF Crash, Typed, Recoveries, Pending
<1>2. CASE Unresumed /\ RecoveryStep
  BY <1>2, IllDuringRecovery
<1>3. ASSUME Unresumed, NEW b \in Aborts, Abort(b) \/ ServiceStep(b)
      PROVE  Pending(s)' \/ \E a \in Aborts : WillSweep(a, s)'
  BY <1>3, IllDuringAborts
<1>4. CASE Unresumed /\ UNCHANGED vars
  BY <1>4 DEF vars, IllAreRepaired, Ill, WillSweep, Holds, Pending
<1> QED BY <1>1, <1>2, <1>3, <1>4, UnresumedSteps

LEMMA AfterCrash == Spec => [](NobodyRuns /\ Kept /\ IllAreRepaired)
<1>1. Init => NobodyRuns /\ Kept /\ IllAreRepaired
  BY DEF Init, NobodyRuns, Kept, IllAreRepaired, Unresumed
<1> QED BY <1>1, Base, Scans, NobodyRunsStep, KeptStep, IllAreRepairedStep, PTL DEF Spec

\* Startup recovery, if nothing of it fails, leaves no step that contradicts the status of its
\* execution, and keeps what an interrupted execution resumes from, unless somebody resumes
\* the execution: for every number of steps and of aborts that race with it.
THEOREM RecoveryAlwaysRepairs == Spec => []RecoveryRepairs
<1>1. Typed /\ NobodyRuns /\ Kept /\ IllAreRepaired => RecoveryRepairs
  <2> SUFFICES ASSUME Typed, NobodyRuns, Kept, IllAreRepaired, recovery.stage = "over",
                      ~recovery.missed, ~recovery.resumed, Quiet, NEW s \in Steps
               PROVE  /\ ~Ill(s)
                      /\ s \in recovery.interrupted /\ status = "INTERRUPTED"
                            => step[s] = "INTERRUPTED"
    BY DEF RecoveryRepairs, Ill
  <2>1. \A a \in Aborts : ~WillSweep(a, s)
    BY DEF WillSweep, Holds, Quiet, LockFree, Services
  <2>2. ~Pending(s) /\ Unresumed
    BY DEF Pending, Unresumed
  <2> QED BY <2>1, <2>2 DEF IllAreRepaired, Kept
<1> QED BY <1>1, AfterCrash, Base, PTL

-----------------------------------------------------------------------------
(* What recovery leaves alone *)

\* A step that has a row belongs to a run that was started, and the runs whose steps recovery
\* looks at have died.
Started ==
    /\ \A s \in Steps : step[s] # "none" => run[RunOf(s)] # "idle"
    /\ \A i \in Services : \A s \in section[i].found : run[RunOf(s)] # "idle"
    /\ recovery.stage # "up" => \A s \in recovery.before : run[RunOf(s)] \notin {"idle", "graph"}

\* A step gets its row from a node of a run, or it was found by a service or by recovery.
LEMMA StepWriters ==
    ASSUME Typed, InUse, ScanOpen, [Next]_vars, NEW s \in Steps, step'[s] # "none"
    PROVE  \/ step[s] # "none" \/ run[RunOf(s)] = "graph"
           \/ \E i \in Services : s \in section[i].found
<1>1. CASE step' = step
  BY <1>1
<1>2. ASSUME NEW t \in Steps, NodeStep(t)
      PROVE  step[s] # "none" \/ run[RunOf(s)] = "graph"
  BY <1>2 DEF NodeStep, StartState, NodeAborted, NodeExecutes, NodeExecuted, FinishStateBegins,
              NodeReports, NodeMoves, Refresh, Typed
<1>3. ASSUME NEW r \in Runs, RunStep(r)
      PROVE  step[s] # "none" \/ run[RunOf(s)] = "graph"
  <2>1. CASE RunFails(r)
    BY <1>3, <2>1, ErrorSteps DEF RunFails, NodeMoves, Typed
  <2> QED BY <1>3, <2>1 DEF RunStep, ResumeStart, RunInterrupted, RunFinishes, Refresh
<1>4. ASSUME NEW i \in Services, ServiceStep(i)
      PROVE  step[s] # "none" \/ run[RunOf(s)] = "graph" \/ s \in section[i].found
  <2>1. CASE Swept(i)
    BY <2>1 DEF Swept, Sweep
  <2>2. CASE i \in Runs /\ FinishState(i)
    <3>1. section[i].by \in Steps /\ NodeMoves(section[i].by, "executed", "finished")
      BY <2>2 DEF FinishState, Holds, InUse
    <3>2. step' = [step EXCEPT ![section[i].by] = FinalStatus(section[i].by)]
      BY <2>2 DEF FinishState
    <3> QED BY <3>1, <3>2 DEF NodeMoves, Typed
  <2>3. CASE WriteStatus(i) \/ Queries(i) \/ GiveWay(i) \/ StatusWritten(i)
    BY <2>3, QueryIs DEF WriteStatus, Query, GiveWay, StatusWritten
  <2> QED BY <1>4, <2>1, <2>2, <2>3 DEF ServiceStep
<1>5. CASE (\E a \in Aborts : Abort(a)) \/ Crash
  BY <1>5 DEF Abort, Refresh, Crash
<1>6. CASE RecoveryStep
  <2>1. CASE step' = step
    BY <2>1
  <2>2. ASSUME NEW t \in Steps, StillStuck(t), t \in recovery.found,
               step' = [step EXCEPT ![t] = "FAILED"]
        PROVE  step[s] # "none"
    <3>1. step[t] # "none"
      BY <2>2 DEF StillStuck, ScanOpen, Buckets
    <3> QED BY <2>2, <3>1 DEF Typed
  <2> QED BY <1>6, <2>1, <2>2, RecoveryDoes DEF BucketRead, ParentRead, Ended, Recovered
<1> QED BY <1>1, <1>2, <1>3, <1>4, <1>5, <1>6, StepKinds DEF vars

LEMMA FoundHasRow ==
    ASSUME Typed, InUse, [Next]_vars, NEW i \in Services, NEW s \in section'[i].found
    PROVE  s \in section[i].found \/ step[s] # "none"
<1>1. CASE section'[i] = section[i] \/ Enters(i) \/ Resuming(i) \/ section'[i] = Free
  BY <1>1 DEF Enters, Resuming, Free
<1>2. CASE WriteStatus(i)
  BY <1>2 DEF WriteStatus, Typed, Sections
<1>3. CASE Queries(i)
  <2>1. PICK found \in SUBSET Steps : Query(i, found) /\ \A t \in found : step[t] # "none"
    BY <1>3, QueryIs
  <2>2. section'[i].found = found
    BY <2>1 DEF Query, Typed, Sections
  <2> QED BY <2>1, <2>2
<1> QED BY <1>1, <1>2, <1>3, SectionChanges

\* The runs that recovery looks at stay dead.
LEMMA DeadStayDead ==
    ASSUME Typed, InUse, ScanOpen, [Next]_vars, Started, recovery'.stage # "up",
           NEW s \in recovery'.before
    PROVE  run'[RunOf(s)] \notin {"idle", "graph"}
<1>1. CASE Crash
  <2>1. s \in Steps /\ step[s] # "none"
    BY <1>1 DEF Crash, Typed, Recoveries
  <2>2. RunOf(s) \in Runs /\ run[RunOf(s)] # "idle"
    BY <2>1, StepsOfRuns DEF Started
  <2> QED BY <1>1, <2>2 DEF Crash
<1>2. ASSUME ~Crash
      PROVE  run'[RunOf(s)] \notin {"idle", "graph"}
  <2>1. recovery.stage # "up" /\ recovery'.before = recovery.before
    <3>1. CASE recovery' = recovery
      BY <3>1
    <3>2. CASE RecoveryStep
      BY <3>2, RecoveryDoes DEF BucketRead, ParentRead, Ended, Recovered, ScanOpen, Buckets
    <3>3. CASE \E r \in Runs : ResumeStart(r)
      BY <3>3 DEF ResumeStart, Typed, Recoveries
    <3> QED BY <1>2, <3>1, <3>2, <3>3, RecoveryWriters
  <2>2. s \in Steps /\ RunOf(s) \in Runs
    BY <2>1, StepsOfRuns DEF Typed, Recoveries
  <2>3. run[RunOf(s)] \notin {"idle", "graph"}
    BY <2>1 DEF Started
  <2>4. run'[RunOf(s)] # "idle"
    BY <2>2, <2>3, StaysStarted
  <2>5. run'[RunOf(s)] # "graph"
    <3>1. ASSUME NEW t \in Steps, NodeStep(t) PROVE run' = run
      BY <3>1 DEF NodeStep, NodeMoves, StartState, NodeAborted, NodeExecutes, NodeExecuted,
                  FinishStateBegins, NodeReports
    <3>2. ASSUME NEW r \in Runs, RunStep(r) PROVE run'[RunOf(s)] # "graph"
      BY <2>2, <2>3, <3>2 DEF RunStep, ResumeStart, RunFails, RunInterrupted, RunFinishes, RunMoves,
                  NodesDone, NodeMoves, Typed
    <3>3. ASSUME NEW i \in Services, ServiceStep(i) PROVE run'[RunOf(s)] # "graph"
      BY <2>2, <2>3, <3>3, QueryIs DEF ServiceStep, WriteStatus, Query, Swept, GiveWay, StatusWritten,
                  FinishState, NodeMoves, Return, Typed
    <3>4. CASE (\E a \in Aborts : Abort(a)) \/ RecoveryStep
      BY <2>3, <3>4, RecoveryDoes DEF Abort
    <3>5. CASE UNCHANGED vars
      BY <2>3, <3>5 DEF vars
    <3> QED BY <1>2, <2>3, <3>1, <3>2, <3>3, <3>4, <3>5, StepKinds
  <2> QED BY <2>4, <2>5
<1> QED BY <1>1, <1>2

LEMMA StartedStep == Typed /\ InUse /\ ScanOpen /\ Started /\ [Next]_vars => Started'
<1> SUFFICES ASSUME Typed, InUse, ScanOpen, Started, [Next]_vars PROVE Started'
  OBVIOUS
<1>1. ASSUME NEW s \in Steps, run'[RunOf(s)] = "idle"
      PROVE  run[RunOf(s)] = "idle"
  BY <1>1, StepsOfRuns, StaysStarted
<1>2. ASSUME NEW s \in Steps, step'[s] # "none"
      PROVE  run'[RunOf(s)] # "idle"
  BY <1>1, <1>2, StepWriters DEF Started
<1>3. ASSUME NEW i \in Services, NEW s \in section'[i].found
      PROVE  run'[RunOf(s)] # "idle"
  <2>1. s \in Steps
    <3>1. section[i] \in Sections
      BY DEF Typed
    <3>2. Typed'
      BY BaseStep
    <3>3. section'[i] \in Sections
      BY <3>2 DEF Typed
    <3> QED BY <1>3, <3>3 DEF Sections
  <2> QED BY <1>1, <1>3, <2>1, FoundHasRow DEF Started
<1> QED BY <1>2, <1>3, DeadStayDead DEF Started

LEMMA RecoverySparesStep ==
    ASSUME Typed, InUse, ScanOpen, Started, [Next]_vars, recovery'.found # recovery.found,
           NEW s \in Steps, step'[s] # step[s]
    PROVE  /\ step[s] \in Stuck
           /\ run[RunOf(s)] # "graph"
           /\ step[s] = "INTERRUPTED" => status \notin {"INTERRUPTED", "IN_PROGRESS"}
<1>1. RecoveryStep
  BY RecoveryWriters DEF Crash, ResumeStart, Typed, Recoveries
<1>2. Recoverable(s) /\ StillStuck(s) /\ s \in recovery.found
  <2>1. PICK t \in Steps : Recovered(t) /\ step' # step
    BY <1>1, RecoveryDoes DEF BucketRead, ParentRead, Ended
  <2>2. Recoverable(t) /\ StillStuck(t) /\ step' = [step EXCEPT ![t] = "FAILED"]
    BY <2>1 DEF Recovered
  <2>3. s = t
    BY <2>2 DEF Typed
  <2> QED BY <2>1, <2>2, <2>3 DEF Recovered
<1>3. recovery.stage \in Buckets /\ s \in recovery.before
  BY <1>2 DEF ScanOpen, Recoverable
<1> QED BY <1>2, <1>3 DEF Recoverable, StillStuck, Stuck, Buckets, Started, Terminal

\* However late it comes, startup recovery fails no step that a run has finished or is working
\* at, and takes nothing from the resume of an execution, for every number of runs and aborts.
THEOREM RecoveryAlwaysSpares == Spec => RecoverySpares
<1>1. Init => Started
  BY StepsOfRuns DEF Init, Started, Free, Services
<1>2. Spec => []Started
  BY <1>1, Base, Scans, StartedStep, PTL DEF Spec
<1>3. Typed /\ InUse /\ ScanOpen /\ Started /\ [Next]_vars =>
        [\A s \in Steps : recovery'.found # recovery.found /\ step'[s] # step[s] =>
            /\ step[s] \in Stuck
            /\ run[RunOf(s)] # "graph"
            /\ step[s] = "INTERRUPTED" => status \notin {"INTERRUPTED", "IN_PROGRESS"}]_vars
  BY RecoverySparesStep
<1> QED BY <1>2, <1>3, Base, Scans, PTL DEF Spec, RecoverySpares
==================================================================================
