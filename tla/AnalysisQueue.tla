----------------------------- MODULE AnalysisQueue -----------------------------
(***************************************************************************)
(* The conversation analysis queue: a cron job on every pod selects, under *)
(* an advisory lock, the conversations that need an analysis and inserts   *)
(* queue records for them; a loop on every pod claims batches of records,  *)
(* analyses their conversations and upserts one analytics row for each.    *)
(*                                                                         *)
(* A conversation is its number of changes (its update_date, in the order  *)
(* of time), its number of messages, and whether it has been quiet for the *)
(* lookback days.  Queue records of a conversation live in slots; a record *)
(* no query looks at any more gives its slot back.                         *)
(***************************************************************************)
EXTENDS Integers, FiniteSets

CONSTANTS
    Pods,
    Convs,
    Slots,       \* queue records a conversation may have at once (bound)
    BatchSize,   \* CONVERSATION_ANALYSIS_BATCH_SIZE
    MaxRetries,  \* CONVERSATION_ANALYSIS_MAX_RETRIES
    MaxChanges,  \* changes users make to one conversation (bound)
    MaxFaults,   \* failures, crashes and lost connections, in all (bound)
    NoPod        \* nobody holds the advisory lock

Items == Convs \X Slots
ConvOf(i) == i[1]
NoItem == <<>>

ASSUME QueueAssumption ==
    /\ NoPod \notin Pods
    /\ NoItem \notin Items
    /\ BatchSize \in Nat \ {0} /\ MaxRetries \in Nat \ {0}
    /\ MaxChanges \in Nat /\ MaxFaults \in Nat
    /\ IsFiniteSet(Convs) /\ IsFiniteSet(Slots)

VARIABLES
    conv,       \* the conversations
    analytics,  \* the analytics rows
    item,       \* the queue records
    lock,       \* the pod whose connection holds the advisory lock
    job,        \* where the queue population stands on each pod
    worker,     \* where the processing loop stands on each pod
    faults,     \* how many faults there were
    lostLock,   \* history: a leader's connection broke while it led
    abandoned,  \* history: claimed records nobody will finish
    slipped     \* history: changed during an analysis, without growing

vars == <<conv, analytics, item, lock, job, worker, faults, lostLock, abandoned, slipped>>
history == <<lostLock, abandoned, slipped>>

Statuses == {"none", "PENDING", "PROCESSING", "COMPLETED", "FAILED"}
JobIdle == [step |-> "idle", convs |-> {}]
WorkerIdle == [step |-> "idle", batch |-> {}, current |-> NoItem, seen |-> 0, count |-> 0,
               stamp |-> 0, exists |-> FALSE]

TypeOK ==
    /\ conv \in [Convs -> [version : 0..MaxChanges, count : Nat, quiet : BOOLEAN]]
    /\ analytics \in [Convs -> [exists : BOOLEAN, seen : 0..MaxChanges, count : Nat,
                                stamp : 0..MaxChanges]]
    /\ item \in [Items -> [status : Statuses, retries : Nat]]
    /\ lock \in Pods \cup {NoPod}
    /\ job \in [Pods -> [step : {"idle", "leader", "fetched", "checked"},
                         convs : SUBSET Convs]]
    /\ worker \in [Pods -> [step : {"idle", "claiming", "claimed", "reading", "analysed", "looked",
                                    "saved", "failing"},
                            batch : SUBSET Items, current : Items \cup {NoItem},
                            seen : 0..MaxChanges, count : Nat, stamp : 0..MaxChanges,
                            exists : BOOLEAN]]
    /\ faults \in 0..MaxFaults
    /\ lostLock \in BOOLEAN /\ abandoned \subseteq Items /\ slipped \subseteq Convs

Init ==
    /\ conv = [c \in Convs |-> [version |-> 0, count |-> 1, quiet |-> TRUE]]
    /\ analytics = [c \in Convs |-> [exists |-> FALSE, seen |-> 0, count |-> 0, stamp |-> 0]]
    /\ item = [i \in Items |-> [status |-> "none", retries |-> 0]]
    /\ lock = NoPod
    /\ job = [p \in Pods |-> JobIdle]
    /\ worker = [p \in Pods |-> WorkerIdle]
    /\ faults = 0
    /\ lostLock = FALSE /\ abandoned = {} /\ slipped = {}

-----------------------------------------------------------------------------
(* Users change conversations; time passes *)

\* a turn is added, edited in place, or removed
Change(c, delta) ==
    /\ conv[c].version < MaxChanges /\ conv[c].count + delta >= 0
    /\ conv' = [conv EXCEPT ![c] = [version |-> @.version + 1, count |-> @.count + delta,
                                    quiet |-> FALSE]]
    /\ UNCHANGED <<analytics, item, lock, job, worker, faults, history>>

GrowsQuiet(c) ==
    /\ ~conv[c].quiet
    /\ conv' = [conv EXCEPT ![c].quiet = TRUE]
    /\ UNCHANGED <<analytics, item, lock, job, worker, faults, history>>

-----------------------------------------------------------------------------
(* schedule_analysis_job: populate the queue, as the leader *)

jobOnly == <<conv, analytics, item, worker, faults, history>>

\* mutant: the answer of pg_try_advisory_lock is not looked at
LeadAnyway(p) ==
    /\ job[p].step = "idle"
    /\ lock' = IF lock = NoPod THEN p ELSE lock
    /\ job' = [job EXCEPT ![p].step = "leader"]
    /\ UNCHANGED jobOnly

\* LeaderLockContext.__enter__: another pod's lock means "skipped"
TryLead(p) ==
    /\ job[p].step = "idle" /\ lock = NoPod
    /\ lock' = p
    /\ job' = [job EXCEPT ![p].step = "leader"]
    /\ UNCHANGED jobOnly

\* mutant: a grown history is not a reason of its own
NeedsAnalysisByDate(c) ==
    conv[c].quiet /\ (~analytics[c].exists \/ conv[c].version > analytics[c].stamp)
\* the criteria of _fetch_conversations_for_analysis
NeedsAnalysis(c) ==
    /\ conv[c].quiet
    /\ \/ ~analytics[c].exists
       \/ conv[c].version > analytics[c].stamp
       \/ conv[c].count > analytics[c].count

\* LeaderLockContext.__exit__
LeaveLock(p) ==
    /\ lock' = IF lock = p THEN NoPod ELSE lock
    /\ job' = [job EXCEPT ![p] = JobIdle]

Fetch(p) ==
    /\ job[p].step = "leader"
    /\ LET found == {c \in Convs : NeedsAnalysis(c)}
       IN \/ /\ found # {}
             /\ job' = [job EXCEPT ![p] = [step |-> "fetched", convs |-> found]]
             /\ UNCHANGED lock
          \/ /\ found = {}
             /\ LeaveLock(p)
    /\ UNCHANGED jobOnly

\* add_conversations_to_queue: the select, then the insert of its own
Open(i) == item[i].status \in {"PENDING", "PROCESSING"}
ReadExisting(p) ==
    /\ job[p].step = "fetched"
    /\ job' = [job EXCEPT ![p] = [step |-> "checked",
                                  convs |-> {c \in @.convs : ~ \E s \in Slots : Open(<<c, s>>)}]]
    /\ UNCHANGED <<lock, jobOnly>>

\* no query looks at the record any more
Spent(i) ==
    \/ item[i].status \in {"none", "COMPLETED"}
    \/ item[i].status = "FAILED" /\ item[i].retries >= MaxRetries
Insert(p) ==
    /\ job[p].step = "checked"
    /\ \E slot \in [job[p].convs -> Slots] :
        /\ \A c \in job[p].convs : Spent(<<c, slot[c]>>)
        /\ item' = [i \in Items |->
              IF ConvOf(i) \in job[p].convs /\ i[2] = slot[ConvOf(i)]
              THEN [status |-> "PENDING", retries |-> 0] ELSE item[i]]
    /\ LeaveLock(p)
    /\ UNCHANGED <<conv, analytics, worker, faults, history>>

\* the database or a proxy ends the idle lock connection; the job goes on
LoseLock(p) ==
    /\ lock = p /\ faults < MaxFaults
    /\ lock' = NoPod
    /\ faults' = faults + 1
    /\ lostLock' = TRUE
    /\ UNCHANGED <<conv, analytics, item, job, worker, abandoned, slipped>>

-----------------------------------------------------------------------------
(* process_batch *)

Claimable(i) ==
    \/ item[i].status = "PENDING"
    \/ item[i].status = "FAILED" /\ item[i].retries < MaxRetries
RowLocked(i) == \E p \in Pods : worker[p].step = "claiming" /\ i \in worker[p].batch

workerOnly == <<conv, lock, job, lostLock>>

\* mutant: a plain SELECT
ClaimWithoutLocks(p) ==
    /\ worker[p].step = "idle"
    /\ \E batch \in SUBSET {i \in Items : Claimable(i)} :
        /\ batch # {} /\ Cardinality(batch) <= BatchSize
        /\ worker' = [worker EXCEPT ![p].step = "claiming", ![p].batch = batch]
    /\ UNCHANGED <<workerOnly, analytics, item, faults, abandoned, slipped>>
\* SELECT ... FOR UPDATE SKIP LOCKED, a full batch if there is one
ClaimSelect(p) ==
    /\ worker[p].step = "idle"
    /\ LET free == {i \in Items : Claimable(i) /\ ~RowLocked(i)}
       IN \E batch \in SUBSET free :
           /\ batch # {}
           /\ Cardinality(batch) = BatchSize \/ (batch = free /\ Cardinality(free) < BatchSize)
           /\ worker' = [worker EXCEPT ![p].step = "claiming", ![p].batch = batch]
    /\ UNCHANGED <<workerOnly, analytics, item, faults, abandoned, slipped>>

ClaimCommit(p) ==
    /\ worker[p].step = "claiming"
    /\ item' = [i \in Items |->
          IF i \in worker[p].batch THEN [item[i] EXCEPT !.status = "PROCESSING"] ELSE item[i]]
    /\ worker' = [worker EXCEPT ![p].step = "claimed"]
    /\ UNCHANGED <<workerOnly, analytics, faults, abandoned, slipped>>

\* _analyze_conversation reads the conversation
ReadConversation(p) ==
    /\ worker[p].step = "claimed"
    /\ \E i \in worker[p].batch :
        worker' = [worker EXCEPT ![p].step = "reading", ![p].current = i,
                                 ![p].seen = conv[ConvOf(i)].version,
                                 ![p].count = conv[ConvOf(i)].count]
    /\ UNCHANGED <<workerOnly, analytics, item, faults, abandoned, slipped>>

\* ... and dates the analysis when the model has answered
StampAnalysis(p) ==
    /\ worker[p].step = "reading"
    /\ worker' = [worker EXCEPT ![p].step = "analysed",
                                ![p].stamp = conv[ConvOf(worker[p].current)].version]
    /\ UNCHANGED <<workerOnly, analytics, item, faults, abandoned, slipped>>

\* upsert_analysis: the select, then an update or an insert
LookUp(p) ==
    /\ worker[p].step = "analysed"
    /\ worker' = [worker EXCEPT ![p].step = "looked",
                                ![p].exists = analytics[ConvOf(worker[p].current)].exists]
    /\ UNCHANGED <<workerOnly, analytics, item, faults, abandoned, slipped>>
\* the local variables of one iteration of the loop end
OnlyItem(w, step) == [WorkerIdle EXCEPT !.step = step, !.batch = w.batch, !.current = w.current]
\* a second insert for a conversation breaks the unique index
Upsert(p) ==
    LET w == worker[p]
        c == ConvOf(w.current)
    IN /\ w.step = "looked"
       /\ \/ /\ w.exists = analytics[c].exists
             /\ analytics' = [analytics EXCEPT ![c] =
                   [exists |-> TRUE, seen |-> w.seen, count |-> w.count, stamp |-> w.stamp]]
             /\ slipped' = IF w.seen < w.stamp /\ conv[c].count <= w.count
                           THEN slipped \cup {c} ELSE slipped
             /\ worker' = [worker EXCEPT ![p] = OnlyItem(w, "saved")]
          \/ /\ ~w.exists /\ analytics[c].exists
             /\ worker' = [worker EXCEPT ![p] = OnlyItem(w, "failing")]
             /\ UNCHANGED <<analytics, slipped>>
       /\ UNCHANGED <<workerOnly, item, faults, abandoned>>

\* the loop goes on with the rest of the batch, or the next process_batch
ItemDone(p, i) ==
    LET rest == worker[p].batch \ {i}
    IN worker' = [worker EXCEPT ![p] =
           [WorkerIdle EXCEPT !.step = IF rest = {} THEN "idle" ELSE "claimed", !.batch = rest]]

MarkCompleted(p) ==
    /\ worker[p].step = "saved"
    /\ item' = [item EXCEPT ![worker[p].current].status = "COMPLETED"]
    /\ ItemDone(p, worker[p].current)
    /\ UNCHANGED <<workerOnly, analytics, faults, abandoned, slipped>>

\* anything inside the try raises
AnalysisFails(p) ==
    /\ worker[p].step \in {"reading", "analysed", "looked", "saved"} /\ faults < MaxFaults
    /\ worker' = [worker EXCEPT ![p] = OnlyItem(@, "failing")]
    /\ faults' = faults + 1
    /\ UNCHANGED <<workerOnly, analytics, item, abandoned, slipped>>

MarkFailed(p) ==
    /\ worker[p].step = "failing"
    /\ item' = [item EXCEPT ![worker[p].current] =
          [status |-> "FAILED", retries |-> @.retries + 1]]
    /\ ItemDone(p, worker[p].current)
    /\ UNCHANGED <<workerOnly, analytics, faults, abandoned, slipped>>

\* mark_failed raises too: process_batch ends, its records stay PROCESSING
MarkFailedRaises(p) ==
    /\ worker[p].step = "failing" /\ faults < MaxFaults
    /\ worker' = [worker EXCEPT ![p] = WorkerIdle]
    /\ abandoned' = abandoned \cup worker[p].batch
    /\ faults' = faults + 1
    /\ UNCHANGED <<workerOnly, analytics, item, slipped>>

\* the pod dies: its connections close, its uncommitted claim is rolled back
Crash(p) ==
    /\ faults < MaxFaults
    /\ faults' = faults + 1
    /\ worker' = [worker EXCEPT ![p] = WorkerIdle]
    /\ abandoned' = IF worker[p].step \in {"idle", "claiming"} THEN abandoned
                    ELSE abandoned \cup worker[p].batch
    /\ LeaveLock(p)
    /\ UNCHANGED <<conv, analytics, item, lostLock, slipped>>

-----------------------------------------------------------------------------
PopulateStep(p) == TryLead(p) \/ Fetch(p) \/ ReadExisting(p) \/ Insert(p)
WorkStep(p) ==
    \/ ClaimSelect(p) \/ ClaimCommit(p)
    \/ ReadConversation(p) \/ StampAnalysis(p) \/ LookUp(p) \/ Upsert(p)
    \/ MarkCompleted(p) \/ MarkFailed(p)

Next ==
    \/ \E c \in Convs : GrowsQuiet(c) \/ \E delta \in {-1, 0, 1} : Change(c, delta)
    \/ \E p \in Pods : PopulateStep(p) \/ LoseLock(p)
    \/ \E p \in Pods : WorkStep(p) \/ AnalysisFails(p) \/ MarkFailedRaises(p) \/ Crash(p)

Spec == Init /\ [][Next]_vars

\* The cron fires again and again, the processing loop never ends, days pass.
FairSpec ==
    /\ Spec
    /\ \A p \in Pods : WF_vars(PopulateStep(p)) /\ WF_vars(WorkStep(p))
    /\ \A c \in Convs : WF_vars(GrowsQuiet(c))

-----------------------------------------------------------------------------
(* Properties *)

Live(p) == worker[p].step \notin {"idle", "claiming"}

\* Two pods never work on the same queue record (conversation_analysis_queue_repository.py:107-113),
\* and a record is PROCESSING exactly while a pod works on it or after its
\* batch was given up: nothing else can hide a record from the queue.
ClaimedByOnePod ==
    /\ \A p, q \in Pods : p # q => worker[p].batch \cap worker[q].batch = {}
    /\ \A i \in Items : item[i].status = "PROCESSING"
          <=> i \in abandoned \/ \E p \in Pods : Live(p) /\ i \in worker[p].batch

\* As long as no leader lost its connection, two open records of one
\* conversation never both come from a population run: at most one has not
\* failed before ("only if no pending/processing record exists").
QueuedOnce ==
    ~lostLock => \A i, j \in Items :
        ConvOf(i) = ConvOf(j) /\ Open(i) /\ Open(j) /\ item[i].retries = 0 /\ item[j].retries = 0
        => i = j

\* When users stop changing a conversation its analysis catches up with its
\* last change, unless a claimed record was given up (nothing ever returns it
\* to the queue and population skips the conversation), or a change slipped
\* in between the reading and the dating of an analysis without adding
\* messages.
Analysed(c) == analytics[c].exists /\ analytics[c].seen = conv[c].version
AnalysisCatchesUp ==
    \A c \in Convs : <>[](Analysed(c) \/ c \in slipped \/ \E i \in abandoned : ConvOf(i) = c)
=============================================================================
