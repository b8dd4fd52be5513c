-------------------------- MODULE DatasourceIndexing ---------------------------
(***************************************************************************)
(* The index row of one datasource and the runs that write it: background  *)
(* tasks of the API ("manual"), jobs of the trigger engine ("job"), and    *)
(* the resumes of the stale-indexing watchdog ("resume", one per pod).     *)
(* Jobs and resumes take the datasource's advisory lock; manual runs and   *)
(* jobs pass the pod's concurrency gate, of which one slot is left here.   *)
(* Composed with TriggerLeader: engines come and go, and outages end all   *)
(* locks.                                                                  *)
(***************************************************************************)
EXTENDS TriggerLeader

CONSTANTS
    Manual,    \* indexings users start
    ApiPods,   \* pods that serve requests to index the datasource
    Jobs,      \* scheduled reindexings
    MaxMishaps \* failed runs, lost datasource locks, changes of settings and faults before
               \* them, in all (bound)

ASSUME IndexAssumption == ApiPods \subseteq Pods /\ MaxMishaps \in Nat

ManualRuns == {"manual"} \X Manual
JobRuns == {"job"} \X Jobs
ResumeOf(p) == <<"resume", p>>
LockedRuns == JobRuns \cup {ResumeOf(p) : p \in Pods}
Runs == ManualRuns \cup LockedRuns
NoRun == <<"none">>

VARIABLES
    row,      \* the IndexInfo row; old: update_date is before the staleness cutoff
    run,      \* where each run stands, on which pod, and did it store is_queued
    jobLock,  \* the run whose connection holds the datasource's lock
    slot,     \* the run that holds the gate's slot on each pod
    lostJobs, \* history: runs whose datasource lock was lost under them
    settings, \* can the datasource be indexed with its settings, credentials and owner
    mishaps

rowVars == <<row, run, jobLock, slot, lostJobs, settings, mishaps>>
vars == <<leaderVars, rowVars>>

Idle == [step |-> "idle", pod |-> NoPod, queued |-> FALSE]
Done == [step |-> "done", pod |-> NoPod, queued |-> FALSE]

IndexTypeOK ==
    /\ TypeOK
    /\ row \in [completed : BOOLEAN, error : BOOLEAN, fetching : BOOLEAN, queued : BOOLEAN,
                old : BOOLEAN]
    /\ run \in [Runs -> [step : {"idle", "reserved", "claimed", "leaked", "lock", "locked", "gate",
                                 "waiting", "admitted", "fetching", "progress", "ended", "done"},
                         pod : Pods \cup {NoPod}, queued : BOOLEAN]]
    /\ jobLock \in LockedRuns \cup {NoRun}
    /\ slot \in [Pods -> Runs \cup {NoRun}]
    /\ lostJobs \subseteq LockedRuns
    /\ settings \in {"ready", "refused", "missing"}
    /\ mishaps \in 0..MaxMishaps

\* start_fetching, start_progress, clear_queued; also how a row is created
RowInProgress(fetching) == [completed |-> FALSE, error |-> FALSE, fetching |-> fetching,
                            queued |-> FALSE, old |-> FALSE]

IndexInit ==
    /\ Init
    /\ row = RowInProgress(FALSE)
    /\ run = [r \in Runs |-> Idle]
    /\ jobLock = NoRun
    /\ slot = [p \in Pods |-> NoRun]
    /\ lostJobs = {}
    /\ settings \in {"ready", "refused", "missing"}
    /\ mishaps = 0

-----------------------------------------------------------------------------
(* The row *)

InProgress == ~row.completed /\ ~row.error
\* get_stale_in_progress
Stale == InProgress /\ ~row.fetching /\ row.old
\* try_claim_for_resume
Claimable == InProgress /\ row.old

RowSaysQueued == [completed |-> FALSE, error |-> FALSE, fetching |-> FALSE, queued |-> TRUE,
                  old |-> FALSE]
RowCompleted == [completed |-> TRUE, error |-> FALSE, fetching |-> FALSE, queued |-> FALSE,
                 old |-> FALSE]
\* set_error leaves "completed" as it is
RowError == [row EXCEPT !.error = TRUE, !.fetching = FALSE, !.queued = FALSE, !.old = FALSE]

\* no write for longer than the threshold
GrowsOld ==
    /\ InProgress /\ ~row.old
    /\ row' = [row EXCEPT !.old = TRUE]
    /\ UNCHANGED <<leaderVars, run, jobLock, slot, lostJobs, settings, mishaps>>

-----------------------------------------------------------------------------
(* Starting runs *)

Mishap == faults + mishaps < MaxMishaps /\ mishaps' = mishaps + 1
RunMoves(r, from, to) == run[r].step = from /\ run' = [run EXCEPT ![r].step = to]
Starts(r, p, to) ==
    run[r].step = "idle" /\ run' = [run EXCEPT ![r].step = to, ![r].pod = p]

\* schedule(): a background task of the request
StartManual(r, p) ==
    /\ r \in ManualRuns /\ p \in ApiPods /\ Starts(r, p, "gate")
    /\ UNCHANGED <<leaderVars, row, jobLock, slot, lostJobs, settings, mishaps>>

\* the scheduler of a running engine fires
StartJob(r, p) ==
    /\ r \in JobRuns /\ engine[p] /\ Starts(r, p, "lock")
    /\ UNCHANGED <<leaderVars, row, jobLock, slot, lostJobs, settings, mishaps>>

\* __watch_stale_indexing: find the row and reserve its id in _resuming_ids
WatchReserve(p) ==
    /\ engine[p] /\ db = "up" /\ Stale
    /\ Starts(ResumeOf(p), p, "reserved")
    /\ UNCHANGED <<leaderVars, row, jobLock, slot, lostJobs, settings, mishaps>>
\* a claim that is lost or raises gives the id back
WatchClaim(p) ==
    LET r == ResumeOf(p)
    IN /\ run[r].step = "reserved"
       /\ \/ /\ db = "up" /\ Claimable
             /\ row' = [row EXCEPT !.old = FALSE]
             /\ RunMoves(r, "reserved", "claimed")
          \/ /\ db = "down" \/ ~Claimable
             /\ run' = [run EXCEPT ![r] = Idle]
             /\ UNCHANGED row
       /\ UNCHANGED <<leaderVars, jobLock, slot, lostJobs, settings, mishaps>>
\* reload and submit; if either raises, the id stays in _resuming_ids
WatchSubmit(p) ==
    /\ RunMoves(ResumeOf(p), "claimed",
                IF db = "up" /\ watchdog[p] = "open" THEN "lock" ELSE "leaked")
    /\ UNCHANGED <<leaderVars, row, jobLock, slot, lostJobs, settings, mishaps>>

-----------------------------------------------------------------------------
(* The datasource lock and the gate *)

Finished(r) == IF r \in JobRuns \cup ManualRuns THEN Done ELSE Idle

\* mutant: the wrapper does not look at the lock's answer
TakeJobLockAnyway(r) ==
    /\ db = "up"
    /\ jobLock' = IF jobLock = NoRun THEN r ELSE jobLock
    /\ lostJobs' = lostJobs \ {r}
    /\ RunMoves(r, "lock", "locked")
    /\ UNCHANGED <<leaderVars, row, slot, settings, mishaps>>
\* with_datasource_job_lock: skip when another process has the lock, when the
\* database cannot be reached, or when there is no Elasticsearch
TakeJobLock(r) ==
    /\ \/ /\ db = "up" /\ jobLock = NoRun
          /\ jobLock' = r
          /\ lostJobs' = lostJobs \ {r}
          /\ RunMoves(r, "lock", "locked")
       \/ /\ db = "down" \/ jobLock # NoRun \/ settings = "missing"
          /\ run[r].step = "lock" /\ run' = [run EXCEPT ![r] = Finished(r)]
          /\ UNCHANGED <<jobLock, lostJobs>>
    /\ UNCHANGED <<leaderVars, row, slot, settings, mishaps>>

\* The actor, or the resume, has what it needs.
Begin(r) ==
    /\ db = "up"
    /\ settings = "ready" \/ (settings = "refused" /\ r \in JobRuns)
    /\ RunMoves(r, "locked", IF r \in JobRuns THEN "gate" ELSE "admitted")
    /\ UNCHANGED <<leaderVars, row, jobLock, slot, lostJobs, settings, mishaps>>
\* mutant: a resume that is refused leaves the row as it is
RefusedSilently(r) ==
    /\ db = "up" /\ settings = "refused" /\ r \notin JobRuns
    /\ RunMoves(r, "locked", "ended")
    /\ UNCHANGED <<leaderVars, row, jobLock, slot, lostJobs, settings, mishaps>>
\* no resume for this type of datasource, or its owner is not active: set_error
Refused(r) ==
    /\ db = "up" /\ settings = "refused" /\ r \notin JobRuns
    /\ RunMoves(r, "locked", "ended")
    /\ row' = RowError
    /\ UNCHANGED <<leaderVars, jobLock, slot, lostJobs, settings, mishaps>>
\* credentials or configuration are missing, the owner of a job is not active, or the
\* database cannot be asked: the run returns or raises, and the row is not written
Skipped(r) ==
    /\ db = "down" \/ settings = "missing" \/ (settings = "refused" /\ r \in JobRuns)
    /\ RunMoves(r, "locked", "ended")
    /\ UNCHANGED <<leaderVars, row, jobLock, slot, lostJobs, settings, mishaps>>

\* DatasourceConcurrencyManager.run: a free slot, or wait as queued
Gate(r) ==
    LET p == run[r].pod
    IN /\ run[r].step = "gate"
       /\ \/ /\ slot[p] = NoRun
             /\ slot' = [slot EXCEPT ![p] = r]
             /\ RunMoves(r, "gate", "admitted")
             /\ UNCHANGED row
          \/ /\ slot[p] # NoRun
             /\ row' = IF db = "up" THEN RowSaysQueued ELSE row
             /\ run' = [run EXCEPT ![r].step = "waiting", ![r].queued = (db = "up")]
             /\ UNCHANGED slot
       /\ UNCHANGED <<leaderVars, jobLock, lostJobs, settings, mishaps>>
\* a slot opens: clear_queued writes the whole row of the queued run
Admit(r) ==
    LET p == run[r].pod
    IN /\ run[r].step = "waiting" /\ slot[p] = NoRun
       /\ slot' = [slot EXCEPT ![p] = r]
       /\ row' = IF run[r].queued /\ db = "up" THEN RowInProgress(FALSE) ELSE row
       /\ RunMoves(r, "waiting", "admitted")
       /\ UNCHANGED <<leaderVars, jobLock, lostJobs, settings, mishaps>>
QueueTimeout(r) ==
    /\ run[r].step = "waiting"
    /\ row' = IF db = "up" THEN RowError ELSE row
    /\ RunMoves(r, "waiting", "ended")
    /\ UNCHANGED <<leaderVars, jobLock, slot, lostJobs, settings, mishaps>>

-----------------------------------------------------------------------------
(* BaseDatasourceProcessor.process *)

Processing(r) == run[r].step \in {"admitted", "fetching", "progress"}

StartFetching(r) ==
    /\ db = "up" /\ RunMoves(r, "admitted", "fetching")
    /\ row' = RowInProgress(TRUE)
    /\ UNCHANGED <<leaderVars, jobLock, slot, lostJobs, settings, mishaps>>
StartProgress(r) ==
    /\ db = "up" /\ RunMoves(r, "fetching", "progress")
    /\ row' = RowInProgress(FALSE)
    /\ UNCHANGED <<leaderVars, jobLock, slot, lostJobs, settings, mishaps>>
\* commit_stats between documents
Heartbeat(r) ==
    /\ db = "up" /\ run[r].step = "progress" /\ row.old
    /\ row' = [row EXCEPT !.old = FALSE]
    /\ UNCHANGED <<leaderVars, run, jobLock, slot, lostJobs, settings, mishaps>>
Complete(r) ==
    /\ db = "up" /\ RunMoves(r, "progress", "ended")
    /\ row' = RowCompleted
    /\ UNCHANGED <<leaderVars, jobLock, slot, lostJobs, settings, mishaps>>
\* preparing, loading or indexing raises; what reprocess() cleans up first is outside of
\* the try statement that records the error
ProcessRaises(r) ==
    /\ db = "up" /\ Processing(r)
    /\ run' = [run EXCEPT ![r].step = "ended"]
    /\ \/ row' = RowError
       \/ run[r].step = "admitted" /\ r \in JobRuns \cup ManualRuns /\ UNCHANGED row
    /\ Mishap
    /\ UNCHANGED <<leaderVars, jobLock, slot, lostJobs, settings>>
\* a write raises, and so does the set_error that follows
WriteRaises(r) ==
    /\ db = "down" /\ Processing(r)
    /\ run' = [run EXCEPT ![r].step = "ended"]
    /\ UNCHANGED <<leaderVars, row, jobLock, slot, lostJobs, settings, mishaps>>

\* mutant: the gate frees the slot also for a run that never had it
LeaveGate(r) ==
    /\ run[r].step = "ended"
    /\ slot' = [slot EXCEPT ![run[r].pod] = NoRun]
    /\ jobLock' = IF jobLock = r THEN NoRun ELSE jobLock
    /\ run' = [run EXCEPT ![r] = Finished(r)]
    /\ UNCHANGED <<leaderVars, row, lostJobs, settings, mishaps>>
\* the finally blocks of the gate, the lock and __run_resume
Leave(r) ==
    /\ run[r].step = "ended"
    /\ slot' = [p \in Pods |-> IF slot[p] = r THEN NoRun ELSE slot[p]]
    /\ jobLock' = IF jobLock = r THEN NoRun ELSE jobLock
    /\ run' = [run EXCEPT ![r] = Finished(r)]
    /\ UNCHANGED <<leaderVars, row, lostJobs, settings, mishaps>>

-----------------------------------------------------------------------------
(* Faults and the steps of the leaders *)

\* credentials and owners come and go
SettingsChange ==
    /\ settings' \in {"ready", "refused", "missing"} \ {settings}
    /\ Mishap
    /\ UNCHANGED <<leaderVars, row, run, jobLock, slot, lostJobs>>

LoseJobLock ==
    /\ jobLock # NoRun
    /\ Mishap
    /\ jobLock' = NoRun
    /\ lostJobs' = lostJobs \cup {jobLock}
    /\ UNCHANGED <<leaderVars, row, run, slot, settings>>

Outage ==
    /\ DatabaseFails
    /\ jobLock' = NoRun
    /\ lostJobs' = lostJobs \cup ({jobLock} \ {NoRun})
    /\ UNCHANGED <<row, run, slot, settings, mishaps>>

PodRestarts(p) ==
    /\ Restart(p)
    /\ run' = [r \in Runs |-> IF run[r].pod = p THEN Finished(r) ELSE run[r]]
    /\ jobLock' = IF jobLock # NoRun /\ run[jobLock].pod = p THEN NoRun ELSE jobLock
    /\ slot' = [slot EXCEPT ![p] = NoRun]
    /\ lostJobs' = {r \in lostJobs : run[r].pod # p}
    /\ UNCHANGED <<row, settings, mishaps>>

LeaderStep ==
    /\ DatabaseReturns \/ \E p \in Pods : ControllerStep(p) \/ StartEngineRaises(p) \/ LoseLock(p)
    /\ UNCHANGED rowVars

WatchStep(p) == WatchReserve(p) \/ WatchClaim(p) \/ WatchSubmit(p)
RunStep(r) ==
    \/ TakeJobLock(r) \/ Begin(r) \/ Refused(r) \/ Skipped(r) \/ Gate(r) \/ Admit(r) \/ QueueTimeout(r)
    \/ StartFetching(r) \/ StartProgress(r) \/ Complete(r) \/ WriteRaises(r) \/ Leave(r)

IndexNext ==
    \/ LeaderStep \/ Outage \/ \E p \in Pods : PodRestarts(p)
    \/ GrowsOld \/ LoseJobLock \/ SettingsChange
    \/ \E p \in Pods : WatchStep(p)
    \/ \E r \in Runs : RunStep(r) \/ Heartbeat(r) \/ ProcessRaises(r)
    \/ \E r \in Runs, p \in Pods : StartManual(r, p) \/ StartJob(r, p)

IndexSpec == IndexInit /\ [][IndexNext]_vars
\* The controllers, the watchdog's interval job and the runs' threads go on,
\* outages pass, other indexings end, and a row nobody writes grows old.
FairIndexSpec ==
    /\ IndexSpec
    /\ WF_vars(DatabaseReturns /\ UNCHANGED rowVars) /\ WF_vars(GrowsOld)
    /\ \A p \in Pods : WF_vars(ControllerStep(p) /\ UNCHANGED rowVars) /\ WF_vars(WatchReserve(p))
                       /\ WF_vars(WatchClaim(p) \/ WatchSubmit(p))
    /\ \A r \in Runs : WF_vars(RunStep(r))

-----------------------------------------------------------------------------
(* Properties *)

Reindexing(r) == run[r].step \in {"locked", "gate", "waiting", "admitted", "fetching", "progress", "ended"}

\* Two jobs or resumes never reindex the datasource at once, on one pod or on
\* two, whoever leads, unless the lock of one was lost under it ("Whoever
\* gets the lock reindexes; anyone else skips").
OneReindexer ==
    \A r, s \in LockedRuns : Reindexing(r) /\ Reindexing(s) /\ r # s => r \in lostJobs \/ s \in lostJobs

\* The gate admits one run per slot: whoever was admitted holds the slot of
\* its pod, and a slot is held only by a run of that pod that still needs it.
SlotsMatchRuns ==
    /\ \A r \in JobRuns \cup ManualRuns : Processing(r) => slot[run[r].pod] = r
    /\ \A p \in Pods : slot[p] \in Runs =>
          run[slot[p]].pod = p /\ (Processing(slot[p]) \/ run[slot[p]].step = "ended")

\* Once what it needs is there for good, or it is refused for good, an indexing does
\* not stay in progress for ever: it ends, or is resumed until it ends.  Until
\* then the watchdog may claim and skip the row any number of times.  The exceptions
\* are what the code leaves behind: a process that died while it was fetching
\* (the watchdog passes such a row by), a leader whose watchdog has kept the id
\* of a resume it could not submit, and controllers that have all given up.
NothingMissing == <>[](settings # "missing")
AliveRun == \E r \in Runs : run[r].step \in {"gate", "waiting"} \/ Processing(r)
FetchDied == row.fetching /\ ~AliveRun
LeaderCannotResume == \E p \in Pods : Leads(p) /\ run[ResumeOf(p)].step = "leaked"
IndexingEnds ==
    NothingMissing => <>[](~InProgress \/ FetchDied \/ LeaderCannotResume \/ AllDead)
=============================================================================
