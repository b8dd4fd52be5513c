-------------------------- MODULE TriggerLeaderProofs --------------------------
(***************************************************************************)
(* Theorems about TriggerLeader and DatasourceIndexing, for every number   *)
(* of pods, runs and faults: leadership keeps engines apart, the composed  *)
(* system keeps every promise of the leaders it is built on, and the       *)
(* datasource lock keeps its reindexings apart.                            *)
(***************************************************************************)
EXTENDS DatasourceIndexing, TLAPS

-----------------------------------------------------------------------------
(* Leadership *)

USE DEF leaderVars, CtlMoves, Fault

LEMMA LeaderTypeInit == Init => TypeOK
BY LeaderAssumption DEF Init, TypeOK

LEMMA LeaderTypeNext == TypeOK /\ [Next]_leaderVars => TypeOK'
<1> SUFFICES ASSUME TypeOK, [Next]_leaderVars PROVE TypeOK'
  OBVIOUS
<1> USE LeaderAssumption DEF TypeOK
<1>1. CASE DatabaseFails
  BY <1>1 DEF DatabaseFails
<1>2. CASE DatabaseReturns
  BY <1>2 DEF DatabaseReturns
<1>3. ASSUME NEW p \in Pods, ControllerStep(p) PROVE TypeOK'
  <2>1. CASE TryLock(p)
    BY <2>1 DEF TryLock
  <2>2. CASE TryLockRaises(p)
    BY <2>2 DEF TryLockRaises
  <2>3. CASE StartEngine(p)
    BY <2>3 DEF StartEngine
  <2>4. CASE Probe(p)
    BY <2>4 DEF Probe
  <2>5. CASE Shutdown(p)
    BY <2>5 DEF Shutdown
  <2>6. CASE Release(p)
    BY <2>6 DEF Release
  <2> QED BY <1>3, <2>1, <2>2, <2>3, <2>4, <2>5, <2>6 DEF ControllerStep
<1>4. ASSUME NEW p \in Pods, StartEngineRaises(p) PROVE TypeOK'
  BY <1>4 DEF StartEngineRaises
<1>5. ASSUME NEW p \in Pods, LoseLock(p) PROVE TypeOK'
  BY <1>5 DEF LoseLock
<1>6. ASSUME NEW p \in Pods, Restart(p) PROVE TypeOK'
  BY <1>6 DEF Restart
<1>7. CASE UNCHANGED leaderVars
  BY <1>7
<1> QED BY <1>1, <1>2, <1>3, <1>4, <1>5, <1>6, <1>7 DEF Next

\* Every step of the leaders keeps their state well formed.
THEOREM LeaderTypeCorrect == Spec => []TypeOK
BY LeaderTypeInit, LeaderTypeNext, PTL DEF Spec

\* An engine runs only between start_async and shutdown, and a pod past the
\* lock holds it unless it was lost under it.
PastLock(p) == ctl[p] \in {"acquired", "leading", "stopping", "stopped"}
EngineInv ==
    /\ \A p \in Pods : engine[p] => ctl[p] \in {"leading", "stopping"}
    /\ \A p \in Pods : PastLock(p) => lock = p \/ p \in lost
LeaderInv == TypeOK /\ EngineInv

LEMMA EngineNext == LeaderInv /\ [Next]_leaderVars => EngineInv'
<1> SUFFICES ASSUME LeaderInv, [Next]_leaderVars PROVE EngineInv'
  OBVIOUS
<1> USE LeaderAssumption DEF LeaderInv, TypeOK, EngineInv, PastLock
<1>1. CASE DatabaseFails
  BY <1>1 DEF DatabaseFails
<1>2. CASE DatabaseReturns
  BY <1>2 DEF DatabaseReturns
<1>3. ASSUME NEW p \in Pods, ControllerStep(p) PROVE EngineInv'
  <2>1. CASE TryLock(p)
    BY <2>1 DEF TryLock
  <2>2. CASE TryLockRaises(p)
    BY <2>2 DEF TryLockRaises
  <2>3. CASE StartEngine(p)
    BY <2>3 DEF StartEngine
  <2>4. CASE Probe(p)
    BY <2>4 DEF Probe
  <2>5. CASE Shutdown(p)
    BY <2>5 DEF Shutdown
  <2>6. CASE Release(p)
    BY <2>6 DEF Release
  <2> QED BY <1>3, <2>1, <2>2, <2>3, <2>4, <2>5, <2>6 DEF ControllerStep
<1>4. ASSUME NEW p \in Pods, StartEngineRaises(p) PROVE EngineInv'
  BY <1>4 DEF StartEngineRaises
<1>5. ASSUME NEW p \in Pods, LoseLock(p) PROVE EngineInv'
  BY <1>5 DEF LoseLock
<1>6. ASSUME NEW p \in Pods, Restart(p) PROVE EngineInv'
  BY <1>6 DEF Restart
<1>7. CASE UNCHANGED leaderVars
  BY <1>7
<1> QED BY <1>1, <1>2, <1>3, <1>4, <1>5, <1>6, <1>7 DEF Next

\* Two engines never run, unless the lock of one was lost under it.
THEOREM OneEngineEver == Spec => []OneEngine
<1>1. Init => LeaderInv
  BY LeaderTypeInit DEF LeaderInv, EngineInv, PastLock, Init
<1>2. LeaderInv /\ [Next]_leaderVars => LeaderInv'
  BY LeaderTypeNext, EngineNext DEF LeaderInv
<1>3. LeaderInv => OneEngine
  BY LeaderAssumption DEF LeaderInv, EngineInv, PastLock, OneEngine
<1> QED BY <1>1, <1>2, <1>3, PTL DEF Spec

-----------------------------------------------------------------------------
(* The composition *)

\* What the datasource runs do is nothing, or one step of the leaders, to them.
LEMMA IndexStepIsLeaderStep == [IndexNext]_vars => [Next]_leaderVars
<1> SUFFICES ASSUME [IndexNext]_vars PROVE [Next]_leaderVars
  OBVIOUS
<1>1. CASE LeaderStep
  BY <1>1 DEF LeaderStep, Next
<1>2. CASE Outage
  BY <1>2 DEF Outage, Next
<1>3. ASSUME NEW p \in Pods, PodRestarts(p) PROVE Next
  BY <1>3 DEF PodRestarts, Next
<1>4. CASE GrowsOld
  BY <1>4 DEF GrowsOld
<1>5. CASE LoseJobLock \/ SettingsChange
  BY <1>5 DEF LoseJobLock, SettingsChange
<1>6. ASSUME NEW p \in Pods, WatchStep(p) PROVE UNCHANGED leaderVars
  <2>1. CASE WatchReserve(p)
    BY <2>1 DEF WatchReserve
  <2>2. CASE WatchClaim(p)
    BY <2>2 DEF WatchClaim
  <2>3. CASE WatchSubmit(p)
    BY <2>3 DEF WatchSubmit
  <2> QED BY <1>6, <2>1, <2>2, <2>3 DEF WatchStep
<1>7. ASSUME NEW r \in Runs, RunStep(r) PROVE UNCHANGED leaderVars
  <2>1. CASE TakeJobLock(r)
    BY <2>1 DEF TakeJobLock
  <2>10. CASE Begin(r) \/ Refused(r) \/ Skipped(r)
    BY <2>10 DEF Begin, Refused, Skipped
  <2>2. CASE Gate(r)
    BY <2>2 DEF Gate
  <2>3. CASE Admit(r)
    BY <2>3 DEF Admit
  <2>4. CASE QueueTimeout(r)
    BY <2>4 DEF QueueTimeout
  <2>5. CASE StartFetching(r)
    BY <2>5 DEF StartFetching
  <2>6. CASE StartProgress(r)
    BY <2>6 DEF StartProgress
  <2>7. CASE Complete(r)
    BY <2>7 DEF Complete
  <2>8. CASE WriteRaises(r)
    BY <2>8 DEF WriteRaises
  <2>9. CASE Leave(r)
    BY <2>9 DEF Leave
  <2> QED BY <1>7, <2>1, <2>2, <2>3, <2>4, <2>5, <2>6, <2>7, <2>8, <2>9, <2>10
         DEF RunStep
<1>8. ASSUME NEW r \in Runs, Heartbeat(r) \/ ProcessRaises(r) PROVE UNCHANGED leaderVars
  BY <1>8 DEF Heartbeat, ProcessRaises
<1>9. ASSUME NEW r \in Runs, NEW p \in Pods, StartManual(r, p) \/ StartJob(r, p)
      PROVE  UNCHANGED leaderVars
  BY <1>9 DEF StartManual, StartJob
<1>10. CASE UNCHANGED vars
  BY <1>10 DEF vars
<1> QED BY <1>1, <1>2, <1>3, <1>4, <1>5, <1>6, <1>7, <1>8, <1>9, <1>10 DEF IndexNext

\* The composed system implements the leaders: whatever is proved of their
\* specification holds beside the indexings too.
THEOREM CompositionImplementsLeaders == IndexSpec => Spec
<1>1. IndexInit => Init
  BY DEF IndexInit
<1> QED BY <1>1, IndexStepIsLeaderStep, PTL DEF IndexSpec, Spec

COROLLARY OneEngineComposed == IndexSpec => []OneEngine
BY CompositionImplementsLeaders, OneEngineEver, PTL

-----------------------------------------------------------------------------
(* The datasource lock *)

RunType == [step : {"idle", "reserved", "claimed", "leaked", "lock", "locked", "gate",
                    "waiting", "admitted", "fetching", "progress", "ended", "done"},
            pod : Pods \cup {NoPod}, queued : BOOLEAN]
LockType ==
    /\ run \in [Runs -> RunType]
    /\ jobLock \in LockedRuns \cup {NoRun}
    /\ lostJobs \subseteq LockedRuns
\* A run past the datasource lock holds it, unless it was lost under it.
LockInv ==
    /\ LockType
    /\ \A r \in ManualRuns : run[r].step \notin {"lock", "locked"}
    /\ \A r \in LockedRuns : Reindexing(r) => jobLock = r \/ r \in lostJobs

LEMMA Kinds ==
    /\ NoRun \notin LockedRuns
    /\ LockedRuns \subseteq Runs
    /\ \A p \in Pods : ResumeOf(p) \in LockedRuns
    /\ \A r \in Runs : r \in LockedRuns \/ r \in ManualRuns
    /\ \A r \in ManualRuns : r \in Runs /\ r \notin LockedRuns
    /\ JobRuns \subseteq LockedRuns
BY DEF NoRun, LockedRuns, Runs, ManualRuns, JobRuns, ResumeOf

LEMMA FinishedRun ==
    ASSUME NEW r
    PROVE  Finished(r) \in RunType /\ Finished(r).step \in {"idle", "done"}
BY DEF Finished, Idle, Done, RunType

USE DEF RunMoves, Starts

LEMMA LockNext == LockInv /\ [IndexNext]_vars => LockInv'
<1> SUFFICES ASSUME LockInv, [IndexNext]_vars PROVE LockInv'
  OBVIOUS
<1> USE Kinds, FinishedRun DEF LockInv, LockType, RunType, Reindexing
<1>1. CASE LeaderStep
  BY <1>1 DEF LeaderStep, rowVars
<1>2. CASE Outage
  BY <1>2 DEF Outage
<1>3. ASSUME NEW p \in Pods, PodRestarts(p) PROVE LockInv'
  BY <1>3 DEF PodRestarts
<1>4. CASE GrowsOld
  BY <1>4 DEF GrowsOld
<1>5. CASE LoseJobLock \/ SettingsChange
  BY <1>5 DEF LoseJobLock, SettingsChange
<1>6. ASSUME NEW p \in Pods, WatchStep(p) PROVE LockInv'
  <2>1. CASE WatchReserve(p)
    BY <2>1 DEF WatchReserve
  <2>2. CASE WatchClaim(p)
    <3>1. CASE run' = [run EXCEPT ![ResumeOf(p)].step = "claimed"]
      BY <2>2, <3>1 DEF WatchClaim
    <3>2. CASE run' = [run EXCEPT ![ResumeOf(p)] = Idle]
      <4>1. Idle \in RunType /\ Idle.step = "idle"
        BY DEF Idle
      <4> QED BY <2>2, <3>2, <4>1 DEF WatchClaim
    <3> QED BY <2>2, <3>1, <3>2 DEF WatchClaim
  <2>3. CASE WatchSubmit(p)
    BY <2>3 DEF WatchSubmit
  <2> QED BY <1>6, <2>1, <2>2, <2>3 DEF WatchStep
<1>7. ASSUME NEW r \in Runs, RunStep(r) PROVE LockInv'
  <2>1. CASE TakeJobLock(r)
    BY <2>1 DEF TakeJobLock
  <2>10. CASE Begin(r) \/ Refused(r) \/ Skipped(r)
    BY <2>10 DEF Begin, Refused, Skipped
  <2>2. CASE Gate(r)
    BY <2>2 DEF Gate
  <2>3. CASE Admit(r)
    BY <2>3 DEF Admit
  <2>4. CASE QueueTimeout(r)
    BY <2>4 DEF QueueTimeout
  <2>5. CASE StartFetching(r)
    BY <2>5 DEF StartFetching
  <2>6. CASE StartProgress(r)
    BY <2>6 DEF StartProgress
  <2>7. CASE Complete(r)
    BY <2>7 DEF Complete
  <2>8. CASE WriteRaises(r)
    BY <2>8 DEF WriteRaises, Processing
  <2>9. CASE Leave(r)
    BY <2>9 DEF Leave
  <2> QED BY <1>7, <2>1, <2>2, <2>3, <2>4, <2>5, <2>6, <2>7, <2>8, <2>9, <2>10
         DEF RunStep
<1>8. ASSUME NEW r \in Runs, Heartbeat(r) \/ ProcessRaises(r) PROVE LockInv'
  BY <1>8 DEF Heartbeat, ProcessRaises, Processing
<1>9. ASSUME NEW r \in Runs, NEW p \in Pods, StartManual(r, p) \/ StartJob(r, p)
      PROVE  LockInv'
  BY <1>9 DEF StartManual, StartJob
<1>10. CASE UNCHANGED vars
  BY <1>10 DEF vars, rowVars
<1> QED BY <1>1, <1>2, <1>3, <1>4, <1>5, <1>6, <1>7, <1>8, <1>9, <1>10 DEF IndexNext

LEMMA LockInit == IndexInit => LockInv
<1> SUFFICES ASSUME IndexInit PROVE LockInv
  OBVIOUS
<1>1. Idle \in RunType /\ Idle.step = "idle"
  BY DEF Idle, RunType
<1> QED BY <1>1, Kinds DEF IndexInit, LockInv, LockType, Reindexing

\* Two jobs or resumes never reindex the datasource at once, unless the lock
\* of one was lost under it.
THEOREM OneReindexerEver == IndexSpec => []OneReindexer
<1>1. LockInv => OneReindexer
  BY DEF LockInv, OneReindexer
<1> QED BY <1>1, LockInit, LockNext, PTL DEF IndexSpec
-----------------------------------------------------------------------------
(* The row, and the slots of the concurrency gate *)

\* A slot is held by a run of its pod that is past the gate; whoever is past
\* the gate holds the slot of its pod.
Gated == JobRuns \cup ManualRuns
SlotInv ==
    /\ IndexTypeOK
    /\ \A r \in Runs : run[r].step \notin {"idle", "done"} => run[r].pod \in Pods
    /\ \A p \in Pods : run[ResumeOf(p)].step \notin {"gate", "waiting"}
    /\ SlotsMatchRuns

LEMMA GateKinds ==
    /\ NoRun \notin Runs
    /\ Runs = Gated \cup {ResumeOf(p) : p \in Pods}
    /\ \A p \in Pods : ResumeOf(p) \notin Gated
BY DEF NoRun, LockedRuns, Runs, ManualRuns, JobRuns, ResumeOf, Gated

RowType == [completed : BOOLEAN, error : BOOLEAN, fetching : BOOLEAN, queued : BOOLEAN,
            old : BOOLEAN]
LEMMA ErrorRow == ASSUME row \in RowType PROVE RowError \in RowType
BY DEF RowType, RowError
LEMMA YoungRow == ASSUME row \in RowType PROVE [row EXCEPT !.old = FALSE] \in RowType
BY DEF RowType
LEMMA QueuedRow == RowSaysQueued \in RowType
BY DEF RowType, RowSaysQueued

LEMMA LeaderTypeFaults == TypeOK => faults \in Nat
BY LeaderAssumption DEF TypeOK

LEMMA SlotNext == SlotInv /\ LockInv /\ [IndexNext]_vars => SlotInv'
<1> SUFFICES ASSUME SlotInv, LockInv, [IndexNext]_vars PROVE SlotInv'
  OBVIOUS
<1>0. TypeOK'
  BY LeaderTypeNext, IndexStepIsLeaderStep DEF SlotInv, IndexTypeOK
<1> USE <1>0, Kinds, GateKinds, FinishedRun, IndexAssumption
    DEF SlotInv, IndexTypeOK, SlotsMatchRuns, Processing, Gated, RunType
<1>1. CASE LeaderStep
  BY <1>1 DEF LeaderStep, rowVars
<1>2. CASE Outage
  BY <1>2 DEF Outage, LockInv, LockType
<1>3. ASSUME NEW p \in Pods, PodRestarts(p) PROVE SlotInv'
  BY <1>3 DEF PodRestarts
<1>4. CASE GrowsOld
  BY <1>4 DEF GrowsOld
<1>12. CASE SettingsChange
  <2>1. mishaps' \in 0..MaxMishaps
    BY <1>12, LeaderTypeFaults DEF SettingsChange, Mishap
  <2> QED BY <1>12, <2>1 DEF SettingsChange
<1>5. CASE LoseJobLock
  <2>1. mishaps' \in 0..MaxMishaps
    BY <1>5, LeaderTypeFaults DEF LoseJobLock, Mishap
  <2> QED BY <1>5, <2>1 DEF LoseJobLock
<1>6. ASSUME NEW p \in Pods, WatchStep(p) PROVE SlotInv'
  <2>1. CASE WatchReserve(p)
    BY <2>1 DEF WatchReserve
  <2>2. CASE WatchClaim(p)
    <3>1. CASE run' = [run EXCEPT ![ResumeOf(p)].step = "claimed"]
      <4>0. row' = [row EXCEPT !.old = FALSE] \/ row' = row
        BY <2>2 DEF WatchClaim
      <4>1. row' \in RowType
        BY <4>0, YoungRow DEF RowType
      <4>2. run[ResumeOf(p)].step = "reserved" /\ UNCHANGED <<jobLock, slot, lostJobs, settings, mishaps>>
        BY <2>2 DEF WatchClaim
      <4> QED BY <3>1, <4>1, <4>2 DEF RowType
    <3>2. CASE run' = [run EXCEPT ![ResumeOf(p)] = Idle]
      <4>0. row' = [row EXCEPT !.old = FALSE] \/ row' = row
        BY <2>2 DEF WatchClaim
      <4>1. row' \in RowType
        BY <4>0, YoungRow DEF RowType
      <4>2. Idle \in RunType /\ Idle.step = "idle"
        BY DEF Idle
      <4>3. run[ResumeOf(p)].step = "reserved" /\ UNCHANGED <<jobLock, slot, lostJobs, settings, mishaps>>
        BY <2>2 DEF WatchClaim
      <4> QED BY <3>2, <4>1, <4>2, <4>3 DEF RowType
    <3> QED BY <2>2, <3>1, <3>2 DEF WatchClaim
  <2>3. CASE WatchSubmit(p)
    BY <2>3 DEF WatchSubmit
  <2> QED BY <1>6, <2>1, <2>2, <2>3 DEF WatchStep
<1>7. ASSUME NEW r \in Runs, RunStep(r) PROVE SlotInv'
  <2>1. CASE TakeJobLock(r)
    <3>1. CASE run' = [run EXCEPT ![r] = Finished(r)]
      BY <2>1, <3>1 DEF TakeJobLock, LockInv
    <3>2. CASE run' = [run EXCEPT ![r].step = "locked"]
      BY <2>1, <3>2 DEF TakeJobLock, LockInv
    <3> QED BY <2>1, <3>1, <3>2 DEF TakeJobLock
  <2>10. CASE Begin(r) \/ Refused(r) \/ Skipped(r)
    <3>1. /\ run[r].step = "locked" /\ r \notin ManualRuns
          /\ UNCHANGED <<jobLock, slot, lostJobs, settings, mishaps>>
      BY <2>10 DEF Begin, Refused, Skipped, LockInv
    <3>2. \E to \in {"gate", "admitted", "ended"} :
              /\ run' = [run EXCEPT ![r].step = to]
              /\ to = "gate" => r \in JobRuns
              /\ to = "admitted" => r \notin JobRuns
      BY <2>10 DEF Begin, Refused, Skipped
    <3>3. row' \in RowType
      BY <2>10, ErrorRow DEF Begin, Refused, Skipped, RowType
    <3>4. \A q \in Pods : slot[q] # r
      BY <3>1
    <3>5. IndexTypeOK'
      BY <3>1, <3>2, <3>3 DEF RowType
    <3> QED BY <3>1, <3>2, <3>4, <3>5
  <2>2. CASE Gate(r)
    <3>1. run[r].step = "gate" /\ run[r].pod \in Pods /\ r \in Gated
          /\ UNCHANGED <<jobLock, lostJobs, settings, mishaps>>
      BY <2>2 DEF Gate
    <3>2. \A q \in Pods : slot[q] # r
      BY <3>1
    <3>3. CASE slot[run[r].pod] = NoRun
      <4>1. /\ run' = [run EXCEPT ![r].step = "admitted"]
            /\ slot' = [slot EXCEPT ![run[r].pod] = r]
            /\ UNCHANGED row
        BY <2>2, <3>3 DEF Gate
      <4> QED BY <3>1, <3>2, <3>3, <4>1
    <3>4. CASE slot[run[r].pod] # NoRun
      <4>0. row' = RowSaysQueued \/ row' = row
        BY <2>2, <3>4 DEF Gate
      <4>1. row' \in RowType
        BY <4>0, QueuedRow DEF RowType
      <4>2. UNCHANGED slot
            /\ \E queued \in BOOLEAN :
                  run' = [run EXCEPT ![r].step = "waiting", ![r].queued = queued]
        BY <2>2, <3>4 DEF Gate
      <4> QED BY <3>1, <3>2, <4>1, <4>2 DEF RowType
    <3> QED BY <3>3, <3>4
  <2>3. CASE Admit(r)
    BY <2>3 DEF Admit, RowInProgress
  <2>4. CASE QueueTimeout(r)
    BY <2>4, ErrorRow DEF QueueTimeout, RowType
  <2>5. CASE StartFetching(r)
    BY <2>5 DEF StartFetching, RowInProgress
  <2>6. CASE StartProgress(r)
    BY <2>6 DEF StartProgress, RowInProgress
  <2>7. CASE Complete(r)
    BY <2>7 DEF Complete, RowCompleted
  <2>8. CASE WriteRaises(r)
    BY <2>8 DEF WriteRaises
  <2>9. CASE Leave(r)
    BY <2>9 DEF Leave
  <2> QED BY <1>7, <2>1, <2>2, <2>3, <2>4, <2>5, <2>6, <2>7, <2>8, <2>9, <2>10
         DEF RunStep
<1>8. ASSUME NEW r \in Runs, Heartbeat(r) PROVE SlotInv'
  BY <1>8 DEF Heartbeat
<1>9. ASSUME NEW r \in Runs, ProcessRaises(r) PROVE SlotInv'
  <2>1. mishaps' \in 0..MaxMishaps
    BY <1>9, LeaderTypeFaults DEF ProcessRaises, Mishap
  <2>2. row' \in RowType /\ run' = [run EXCEPT ![r].step = "ended"]
    BY <1>9, ErrorRow DEF ProcessRaises, RowType
  <2>3. run' \in [Runs -> RunType]
    BY <2>2
  <2> QED BY <1>9, <2>1, <2>2, <2>3 DEF ProcessRaises, RowType
<1>10. ASSUME NEW r \in Runs, NEW p \in Pods, StartManual(r, p) \/ StartJob(r, p)
      PROVE  SlotInv'
  <2>1. PICK to \in {"gate", "lock"} : run' = [run EXCEPT ![r].step = to, ![r].pod = p]
    BY <1>10 DEF StartManual, StartJob
  <2>2. run[r].step = "idle" /\ r \in Gated /\ UNCHANGED <<row, jobLock, slot, lostJobs, settings, mishaps>>
    BY <1>10 DEF StartManual, StartJob
  <2>3. run' \in [Runs -> RunType] /\ \A s \in Runs \ {r} : run'[s] = run[s]
    BY <2>1
  <2>4. run'[r].step = to /\ run'[r].pod = p
    BY <2>1
  <2>5. \A q \in Pods : slot[q] # r
    BY <2>2
  <2> QED BY <2>2, <2>3, <2>4, <2>5
<1>11. CASE UNCHANGED vars
  BY <1>11 DEF vars, rowVars
<1> QED BY <1>1, <1>2, <1>3, <1>4, <1>5, <1>6, <1>7, <1>8, <1>9, <1>10, <1>11, <1>12
       DEF IndexNext

LEMMA SlotInit == IndexInit => SlotInv
<1> SUFFICES ASSUME IndexInit PROVE SlotInv
  OBVIOUS
<1>1. Idle \in RunType /\ Idle.step = "idle"
  BY DEF Idle, RunType
<1>2. TypeOK
  BY LeaderTypeInit DEF IndexInit
<1>3. \A r \in Runs : run[r] = Idle
  BY DEF IndexInit
<1>4. IndexTypeOK
  BY <1>1, <1>2, Kinds, IndexAssumption DEF IndexInit, IndexTypeOK, RunType, RowInProgress
<1>5. SlotsMatchRuns
  BY <1>1, <1>3, Kinds, GateKinds DEF IndexInit, SlotsMatchRuns, Processing, Gated
<1> QED BY <1>1, <1>3, <1>4, <1>5, Kinds DEF SlotInv

LEMMA SlotAlways == IndexSpec => []SlotInv
<1>1. IndexInit => LockInv
  BY LockInit
<1> QED BY <1>1, SlotInit, LockNext, SlotNext, PTL DEF IndexSpec

\* The rows, runs, locks and slots keep their types.
THEOREM IndexTypeCorrect == IndexSpec => []IndexTypeOK
<1>1. SlotInv => IndexTypeOK
  BY DEF SlotInv
<1> QED BY <1>1, SlotAlways, PTL

\* The gate admits one run per slot, on every pod and whatever fails.
THEOREM SlotsMatchRunsEver == IndexSpec => []SlotsMatchRuns
<1>1. SlotInv => SlotsMatchRuns
  BY DEF SlotInv
<1> QED BY <1>1, SlotAlways, PTL
=============================================================================
