---------------------------- MODULE MarketplaceAudit ----------------------------
(***************************************************************************)
(* Audits of one entity kind of the marketplace: the run row whose partial *)
(* unique index is the deployment-wide claim, the worker thread that       *)
(* scores the catalogue and persists verdicts chunk by chunk, the          *)
(* heartbeat and the reaper, the purges that follow a deleted assistant,   *)
(* retention, and the result one pod caches for its readers.               *)
(***************************************************************************)
EXTENDS Naturals, FiniteSets

CONSTANTS
    Entities,  \* assistants of the catalogue
    MaxRuns,   \* bound: audits started; a run is its place in the order of started_at
    Local,     \* the runs whose worker lives in the pod whose cache is modelled
    Readers,   \* requests to that pod
    Stalls     \* may heartbeats of a live worker fail for the whole timeout

Runs == 1..MaxRuns
NoRun == 0
Nightly == 0   \* the nightly sweep, beside the sweeps the runs end with

ASSUME AuditAssumption ==
    MaxRuns \in Nat /\ Local \subseteq Runs /\ Stalls \in BOOLEAN /\ IsFiniteSet(Entities)

VARIABLES
    status,   \* mm_audit_run.status
    quiet,    \* heartbeat_at is older than the timeout
    worker,   \* the worker thread of each run
    corpus,   \* the entities its engine scored
    todo,     \* those whose chunk is not written yet
    verdicts, \* mm_audit_verdict: (run, entity)
    existing, \* the assistants table
    hooks,    \* deleted entities whose delete path has not purged yet
    found,    \* what each sweep found and has not purged yet
    cache,    \* AuditCache._results: the run whose result it holds
    label,    \* AuditCache._result_run_ids
    reader,   \* get_or_run: what each request is hydrating
    stalled,  \* history: a live worker's row went quiet
    missed    \* history: a purge, or the failing of a run row, was given up

rowVars == <<status, quiet>>
workVars == <<worker, corpus, todo>>
dataVars == <<verdicts, existing, hooks, found, missed>>
podVars == <<cache, label, reader>>
vars == <<rowVars, workVars, dataVars, podVars, stalled>>

Scoring == {"claimed", "scored"}
Working == Scoring \cup {"persisting"}
Alive == Working \cup {"failing", "closed", "sweeping", "swept", "published"}
Serveable == {"SUCCEEDED", "PARTIAL"}

TypeOK ==
    /\ status \in [Runs -> {"none", "RUNNING", "FAILED"} \cup Serveable]
    /\ quiet \in [Runs -> BOOLEAN]
    /\ worker \in [Runs -> {"idle", "done", "dead"} \cup Alive]
    /\ corpus \in [Runs -> SUBSET Entities]
    /\ todo \in [Runs -> SUBSET Entities]
    /\ verdicts \subseteq Runs \X Entities
    /\ existing \subseteq Entities
    /\ hooks \subseteq Entities
    /\ found \in [Runs \cup {Nightly} -> SUBSET Entities]
    /\ cache \in Runs \cup {NoRun}
    /\ label \in Runs \cup {NoRun}
    /\ reader \in [Readers -> [step : {"idle", "read", "labelled"}, run : Runs \cup {NoRun}]]
    /\ stalled \in BOOLEAN
    /\ missed \in BOOLEAN

Idle == [step |-> "idle", run |-> NoRun]

Init ==
    /\ status = [r \in Runs |-> "none"]
    /\ quiet = [r \in Runs |-> FALSE]
    /\ worker = [r \in Runs |-> "idle"]
    /\ corpus = [r \in Runs |-> {}] /\ todo = [r \in Runs |-> {}]
    /\ verdicts = {} /\ existing = Entities /\ hooks = {}
    /\ found = [s \in Runs \cup {Nightly} |-> {}]
    /\ cache = NoRun /\ label = NoRun
    /\ reader = [q \in Readers |-> Idle]
    /\ stalled = FALSE /\ missed = FALSE

-----------------------------------------------------------------------------
(* The claim and the run row *)

\* mutant: the claim looks at finished runs only
IndexIgnored(r) == TRUE
\* uq_mm_audit_run_active lets this row be RUNNING
IndexAllows(r) == \A s \in Runs \ {r} : status[s] # "RUNNING"
\* a row that readers may be served from, and the one they are: ORDER BY started_at DESC
Served(r) == status[r] \in Serveable
LatestRun ==
    IF \E r \in Runs : Served(r)
    THEN CHOOSE r \in Runs : Served(r) /\ \A s \in Runs : Served(s) => s <= r
    ELSE NoRun

WorkerMoves(r, from, to) == worker[r] \in from /\ worker' = [worker EXCEPT ![r] = to]
RowIs(r, to) ==
    /\ status' = [status EXCEPT ![r] = to]
    /\ quiet' = [quiet EXCEPT ![r] = FALSE]

\* _claim_run; a refused claim (409) leaves nothing behind
ClaimRun(r) ==
    /\ \A s \in Runs : s < r => worker[s] # "idle"
    /\ IndexAllows(r)
    /\ WorkerMoves(r, {"idle"}, "claimed")
    /\ RowIs(r, "RUNNING")
    /\ UNCHANGED <<corpus, todo, dataVars, podVars, stalled>>

ListRecords(r) ==
    /\ WorkerMoves(r, {"claimed"}, "scored")
    /\ corpus' = [corpus EXCEPT ![r] = existing]
    /\ UNCHANGED <<rowVars, todo, dataVars, podVars, stalled>>

TouchHeartbeat(r) ==
    /\ worker[r] \in Scoring /\ status[r] = "RUNNING" /\ quiet[r]
    /\ quiet' = [quiet EXCEPT ![r] = FALSE]
    /\ UNCHANGED <<status, workVars, dataVars, podVars, stalled>>

\* _persist re-opens the row; the index refuses if another run is active by now
OpenRunRow(r) ==
    /\ IF IndexAllows(r)
       THEN WorkerMoves(r, {"scored"}, "persisting") /\ RowIs(r, "RUNNING")
       ELSE WorkerMoves(r, {"scored"}, "failing") /\ UNCHANGED rowVars
    /\ todo' = [todo EXCEPT ![r] = corpus[r]]
    /\ UNCHANGED <<corpus, dataVars, podVars, stalled>>

\* one transaction per chunk (of one entity); it does not look at the status
WriteChunk(r) ==
    /\ worker[r] = "persisting"
    /\ \E e \in todo[r] :
        /\ verdicts' = verdicts \cup {<<r, e>>}
        /\ todo' = [todo EXCEPT ![r] = @ \ {e}]
    /\ quiet' = [quiet EXCEPT ![r] = FALSE]
    /\ UNCHANGED <<status, worker, corpus, existing, hooks, found, missed, podVars, stalled>>

\* mutant: the last chunk is left out of the loop
AllButOneWritten(r) == Cardinality(todo[r]) <= 1
AllWritten(r) == todo[r] = {}
\* _close_run_row; the commit may be reported as an error although it happened
CloseRunRow(r) ==
    /\ AllWritten(r)
    /\ \E to \in {"closed", "failing"} : WorkerMoves(r, {"persisting"}, to)
    /\ \E s \in Serveable : RowIs(r, s)
    /\ UNCHANGED <<corpus, todo, dataVars, podVars, stalled>>

AuditRaises(r) ==
    /\ WorkerMoves(r, Working, "failing")
    /\ UNCHANGED <<rowVars, corpus, todo, dataVars, podVars, stalled>>
\* _fail_run_row, by _persist and again by the thread: unconditional, and itself
\* best effort
FailRunRow(r) ==
    /\ WorkerMoves(r, {"failing"}, "done")
    /\ \/ RowIs(r, "FAILED") /\ UNCHANGED missed
       \/ UNCHANGED rowVars /\ missed' = TRUE
    /\ UNCHANGED <<corpus, todo, verdicts, existing, hooks, found, podVars, stalled>>

-----------------------------------------------------------------------------
(* Heartbeats going quiet, and the reaper *)

\* the timeout passes: for a dead or finished worker in any case, for a live one
\* only if its heartbeats fail
GoesQuiet(r) ==
    /\ status[r] = "RUNNING" /\ ~quiet[r]
    /\ worker[r] \in Alive => Stalls
    /\ quiet' = [quiet EXCEPT ![r] = TRUE]
    /\ stalled' = (stalled \/ worker[r] \in Alive)
    /\ UNCHANGED <<status, workVars, dataVars, podVars>>

\* mutant: the reaper forgets the runs that are RUNNING
PendingOnly(r) == status[r] = "PENDING" /\ quiet[r]
Stale(r) == status[r] = "RUNNING" /\ quiet[r]
ReapStaleRuns ==
    /\ \E r \in Runs : Stale(r)
    /\ status' = [r \in Runs |-> IF Stale(r) THEN "FAILED" ELSE status[r]]
    /\ UNCHANGED <<quiet, workVars, dataVars, podVars, stalled>>

\* mutant: retention deletes by age alone
KeepsNothing(r) == FALSE
RetentionKeeps(r) == r = LatestRun
\* delete_older_than: long after their workers are gone; verdicts go by cascade
RetentionPurge(cutoff) ==
    LET old == {r \in Runs : r < cutoff /\ status[r] # "none" /\ ~RetentionKeeps(r)}
    IN /\ old # {}
       /\ \A r \in old : worker[r] \notin Alive
       /\ status' = [r \in Runs |-> IF r \in old THEN "none" ELSE status[r]]
       /\ verdicts' = {v \in verdicts : v[1] \notin old}
       /\ UNCHANGED <<quiet, workVars, existing, hooks, found, missed, podVars, stalled>>

-----------------------------------------------------------------------------
(* Deleted assistants *)

PurgeEntities(gone) == verdicts' = {v \in verdicts : v[2] \notin gone}
\* mutant: only verdicts of runs that readers see are candidates
OrphansServed == {v[2] : v \in {w \in verdicts : Served(w[1])}} \ existing
Orphans == {v[2] : v \in verdicts} \ existing

DeleteAssistant(e) ==
    /\ e \in existing
    /\ existing' = existing \ {e}
    /\ hooks' = hooks \cup {e}
    /\ UNCHANGED <<rowVars, workVars, verdicts, found, missed, podVars, stalled>>
PurgeHook(e) ==
    /\ e \in hooks /\ hooks' = hooks \ {e}
    /\ PurgeEntities({e})
    /\ UNCHANGED <<rowVars, workVars, existing, found, missed, podVars, stalled>>
PurgeHookFails(e) ==
    /\ e \in hooks /\ hooks' = hooks \ {e}
    /\ missed' = TRUE
    /\ UNCHANGED <<rowVars, workVars, verdicts, existing, found, podVars, stalled>>

\* mutant: a run does not sweep after itself
SweepsNothing(s) == IF s = Nightly THEN Orphans ELSE {}
SweepFinds(s) == Orphans
SweepRun(r) ==
    /\ WorkerMoves(r, {"closed"}, "sweeping")
    /\ found' = [found EXCEPT ![r] = SweepFinds(r)]
    /\ UNCHANGED <<rowVars, corpus, todo, verdicts, existing, hooks, missed, podVars, stalled>>
SweepRunPurges(r) ==
    /\ WorkerMoves(r, {"sweeping"}, "swept")
    /\ PurgeEntities(found[r])
    /\ found' = [found EXCEPT ![r] = {}]
    /\ UNCHANGED <<rowVars, corpus, todo, existing, hooks, missed, podVars, stalled>>
\* logged and swallowed
SweepRunFails(r) ==
    /\ WorkerMoves(r, {"closed", "sweeping"}, "swept")
    /\ found' = [found EXCEPT ![r] = {}]
    /\ missed' = TRUE
    /\ UNCHANGED <<rowVars, corpus, todo, verdicts, existing, hooks, podVars, stalled>>
SweepNightly ==
    /\ found[Nightly] = {} /\ SweepFinds(Nightly) # {}
    /\ found' = [found EXCEPT ![Nightly] = SweepFinds(Nightly)]
    /\ UNCHANGED <<rowVars, workVars, verdicts, existing, hooks, missed, podVars, stalled>>
SweepNightlyPurges ==
    /\ found[Nightly] # {}
    /\ PurgeEntities(found[Nightly])
    /\ found' = [found EXCEPT ![Nightly] = {}]
    /\ UNCHANGED <<rowVars, workVars, existing, hooks, missed, podVars, stalled>>

-----------------------------------------------------------------------------
(* The cache of one pod: a finishing worker and readers write it *)

Publish(r, from, to) ==
    /\ WorkerMoves(r, {from}, to)
    /\ UNCHANGED <<rowVars, corpus, todo, dataVars, reader, stalled>>
PublishResult(r) == r \in Local /\ Publish(r, "swept", "published") /\ cache' = r /\ UNCHANGED label
PublishLabel(r) == Publish(r, "published", "done") /\ label' = r /\ UNCHANGED cache
PublishElsewhere(r) == r \notin Local /\ Publish(r, "swept", "done") /\ UNCHANGED <<cache, label>>

Reads(q, from, to) ==
    /\ reader[q].step = from
    /\ reader' = [reader EXCEPT ![q] = to]
    /\ UNCHANGED <<rowVars, workVars, dataVars, stalled>>
CacheIsCurrent == cache # NoRun /\ LatestRun \in {NoRun, label}
GetOrRun(q) ==
    /\ ~CacheIsCurrent /\ LatestRun # NoRun
    /\ Reads(q, "idle", [step |-> "read", run |-> LatestRun])
    /\ UNCHANGED <<cache, label>>
HydrateLabels(q) ==
    /\ Reads(q, "read", [reader[q] EXCEPT !.step = "labelled"])
    /\ label' = reader[q].run /\ UNCHANGED cache
HydrateStores(q) ==
    /\ Reads(q, "labelled", Idle)
    /\ cache' = reader[q].run /\ UNCHANGED label

\* a pod dies, with its workers and its cache
Crash(pod) ==
    /\ worker' = [r \in Runs |-> IF r \in pod /\ worker[r] \in Alive THEN "dead" ELSE worker[r]]
    /\ found' = [s \in DOMAIN found |-> IF s \in pod THEN {} ELSE found[s]]
    /\ IF pod = Local
       THEN cache' = NoRun /\ label' = NoRun /\ reader' = [q \in Readers |-> Idle]
       ELSE UNCHANGED podVars
    /\ UNCHANGED <<rowVars, corpus, todo, verdicts, existing, hooks, missed, stalled>>

-----------------------------------------------------------------------------
WorkerSteps(r) ==
    \/ ListRecords(r) \/ OpenRunRow(r) \/ WriteChunk(r) \/ CloseRunRow(r)
    \/ AuditRaises(r) \/ FailRunRow(r)
    \/ SweepRun(r) \/ SweepRunPurges(r) \/ SweepRunFails(r)
    \/ PublishResult(r) \/ PublishLabel(r) \/ PublishElsewhere(r)

Next ==
    \/ \E r \in Runs :
        \/ ClaimRun(r) \/ ListRecords(r) \/ TouchHeartbeat(r) \/ OpenRunRow(r) \/ WriteChunk(r)
        \/ CloseRunRow(r) \/ AuditRaises(r) \/ FailRunRow(r) \/ GoesQuiet(r)
        \/ SweepRun(r) \/ SweepRunPurges(r) \/ SweepRunFails(r)
        \/ PublishResult(r) \/ PublishLabel(r) \/ PublishElsewhere(r)
    \/ ReapStaleRuns
    \/ \E cutoff \in Runs : RetentionPurge(cutoff)
    \/ \E e \in Entities : DeleteAssistant(e) \/ PurgeHook(e) \/ PurgeHookFails(e)
    \/ SweepNightly \/ SweepNightlyPurges
    \/ \E q \in Readers : GetOrRun(q) \/ HydrateLabels(q) \/ HydrateStores(q)
    \/ \E pod \in {Local, Runs \ Local} : Crash(pod)

Spec == Init /\ [][Next]_vars

(***************************************************************************)
(* Fairness: a live worker thread gets on, whatever it ends in; time       *)
(* passes for the row of a dead one; the reaper and the nightly sweep are  *)
(* scheduled jobs that come back until they succeed.                       *)
(***************************************************************************)
FairSpec ==
    /\ Spec
    /\ \A r \in Runs : WF_vars(WorkerSteps(r)) /\ WF_vars(GoesQuiet(r) /\ worker[r] \notin Alive)
    /\ WF_vars(ReapStaleRuns)
    /\ WF_vars(SweepNightly) /\ WF_vars(SweepNightlyPurges)

-----------------------------------------------------------------------------
(* Properties *)

\* Unless a live worker's heartbeats failed for the whole timeout, two workers
\* never audit at once, although claims end by commits, failures, crashes and
\* the reaper, each on a pod of its own.
OneAuditAtATime ==
    ~stalled => \A r, s \in Runs : worker[r] \in Working /\ worker[s] \in Working => r = s

\* A run that readers may be served from has a verdict for every assistant it
\* scored that still exists: no failure, reaping, purge or second run leaves a
\* half-written run serveable.
ServedRunsAreWhole ==
    \A r \in Runs : Served(r) => \A e \in corpus[r] \cap existing : <<r, e>> \in verdicts

\* An assistant deleted while a run was in flight has no verdict in it once the
\* run has ended and the delete path is through, unless a purge or the failing of a
\* row was given up ("the run that creates them reaps them").
NoOrphansServed ==
    ~missed => \A r \in Runs : Served(r) /\ worker[r] = "done" =>
                   \A e \in Entities \ (existing \cup hooks) : <<r, e>> \notin verdicts

\* Readers are never sent back to an older run by retention or by an older run
\* that finishes late, only because the worker of the newest recorded it FAILED.
ReadersNeverGoBack ==
    [][ LatestRun' < LatestRun =>
            status'[LatestRun] = "FAILED" /\ worker[LatestRun] = "failing" ]_vars

\* However its worker ends, a run stops holding the claim, so that the kind can
\* be audited again.
ClaimReleased == \A r \in Runs : status[r] = "RUNNING" ~> status[r] # "RUNNING"

\* A verdict of a deleted assistant goes in the end, whatever run wrote it, even
\* one that failed, and whichever purge failed.
OrphansReclaimed ==
    \A r \in Runs, e \in Entities :
        <<r, e>> \in verdicts /\ e \notin existing ~> <<r, e>> \notin verdicts
=============================================================================
