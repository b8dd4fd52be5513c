------------------------ MODULE MarketplaceAuditProofs ------------------------
(***************************************************************************)
(* Theorems about MarketplaceAudit, for every number of audits, assistants *)
(* and readers: the claim of the partial unique index keeps audits apart,  *)
(* only whole runs are served, and readers are not sent back.              *)
(***************************************************************************)
EXTENDS MarketplaceAudit, WellFoundedInduction, TLAPS

-----------------------------------------------------------------------------
(* The latest run *)

\* A non-empty set of runs has a greatest member.
LEMMA GreatestRun ==
    ASSUME NEW S, S \subseteq Runs, S # {}
    PROVE  \E r \in S : \A s \in S : s <= r
<1> DEFINE T == {MaxRuns - r : r \in S}
<1>1. T \subseteq Nat /\ T # {}
  BY AuditAssumption DEF Runs
<1>2. PICK x \in T : \A y \in T : ~ (<<y, x>> \in OpToRel(<, Nat))
  BY <1>1, NatLessThanWellFounded, WFMin
<1>3. \A y \in T : ~ (y < x)
  BY <1>1, <1>2 DEF OpToRel
<1>4. PICK r \in S : x = MaxRuns - r
  OBVIOUS
<1>5. \A s \in S : s <= r
  BY <1>3, <1>4, AuditAssumption DEF Runs
<1> QED BY <1>5

\* LatestRun is the greatest run that is served, if there is one.
LEMMA LatestIsServed ==
    ASSUME NEW r \in Runs, Served(r)
    PROVE  LatestRun \in Runs /\ Served(LatestRun) /\ \A s \in Runs : Served(s) => s <= LatestRun
<1>1. \E x \in {s \in Runs : Served(s)} : \A s \in {s \in Runs : Served(s)} : s <= x
  BY GreatestRun
<1>2. \E x \in Runs : Served(x) /\ \A s \in Runs : Served(s) => s <= x
  BY <1>1
<1> QED BY <1>2 DEF LatestRun

LEMMA LatestType == LatestRun \in Runs \cup {NoRun}
<1>1. CASE \E r \in Runs : Served(r)
  BY <1>1, LatestIsServed
<1>2. CASE ~ \E r \in Runs : Served(r)
  BY <1>2 DEF LatestRun
<1> QED BY <1>1, <1>2

-----------------------------------------------------------------------------
(* Type correctness *)

USE DEF Serveable, Scoring, Working, Alive

LEMMA TypeInit == Init => TypeOK
<1> SUFFICES ASSUME Init PROVE TypeOK
  OBVIOUS
<1>1. Idle \in [step : {"idle", "read", "labelled"}, run : Runs \cup {NoRun}]
  BY DEF Idle
<1> QED BY <1>1 DEF Init, TypeOK

LEMMA TypeNext == TypeOK /\ [Next]_vars => TypeOK'
<1> SUFFICES ASSUME TypeOK, [Next]_vars PROVE TypeOK'
  OBVIOUS
<1> USE DEF TypeOK, rowVars, workVars, dataVars, podVars, WorkerMoves, RowIs, PurgeEntities
<1>1. ASSUME NEW r \in Runs, ClaimRun(r) PROVE TypeOK'
  BY <1>1 DEF ClaimRun
<1>2. ASSUME NEW r \in Runs, ListRecords(r) PROVE TypeOK'
  BY <1>2 DEF ListRecords
<1>3. ASSUME NEW r \in Runs, TouchHeartbeat(r) PROVE TypeOK'
  BY <1>3 DEF TouchHeartbeat
<1>4. ASSUME NEW r \in Runs, OpenRunRow(r) PROVE TypeOK'
  BY <1>4 DEF OpenRunRow
<1>5. ASSUME NEW r \in Runs, WriteChunk(r) PROVE TypeOK'
  BY <1>5 DEF WriteChunk
<1>6. ASSUME NEW r \in Runs, CloseRunRow(r) PROVE TypeOK'
  BY <1>6 DEF CloseRunRow
<1>7. ASSUME NEW r \in Runs, AuditRaises(r) PROVE TypeOK'
  BY <1>7 DEF AuditRaises
<1>8. ASSUME NEW r \in Runs, FailRunRow(r) PROVE TypeOK'
  BY <1>8 DEF FailRunRow
<1>9. ASSUME NEW r \in Runs, GoesQuiet(r) PROVE TypeOK'
  BY <1>9 DEF GoesQuiet
<1>10. ASSUME NEW r \in Runs, SweepRun(r) PROVE TypeOK'
  <2>1. Orphans \subseteq Entities
    BY DEF Orphans
  <2> QED BY <1>10, <2>1 DEF SweepRun, SweepFinds
<1>11. ASSUME NEW r \in Runs, SweepRunPurges(r) PROVE TypeOK'
  BY <1>11 DEF SweepRunPurges
<1>12. ASSUME NEW r \in Runs, SweepRunFails(r) PROVE TypeOK'
  BY <1>12 DEF SweepRunFails
<1>13. ASSUME NEW r \in Runs, PublishResult(r) \/ PublishLabel(r) \/ PublishElsewhere(r) PROVE TypeOK'
  BY <1>13 DEF PublishResult, PublishLabel, PublishElsewhere, Publish
<1>14. CASE ReapStaleRuns
  BY <1>14 DEF ReapStaleRuns, Stale
<1>15. ASSUME NEW cutoff \in Runs, RetentionPurge(cutoff) PROVE TypeOK'
  BY <1>15 DEF RetentionPurge
<1>16. ASSUME NEW e \in Entities, DeleteAssistant(e) \/ PurgeHook(e) \/ PurgeHookFails(e) PROVE TypeOK'
  BY <1>16 DEF DeleteAssistant, PurgeHook, PurgeHookFails
<1>17. CASE SweepNightly \/ SweepNightlyPurges
  <2>1. Orphans \subseteq Entities
    BY DEF Orphans
  <2> QED BY <1>17, <2>1 DEF SweepNightly, SweepNightlyPurges, SweepFinds
<1>18. ASSUME NEW q \in Readers, GetOrRun(q) \/ HydrateLabels(q) \/ HydrateStores(q) PROVE TypeOK'
  BY <1>18, LatestType DEF GetOrRun, HydrateLabels, HydrateStores, Reads, Idle
<1>19. ASSUME NEW pod \in {Local, Runs \ Local}, Crash(pod) PROVE TypeOK'
  BY <1>19 DEF Crash, Idle
<1>20. CASE UNCHANGED vars
  BY <1>20 DEF vars
<1> QED BY <1>1, <1>2, <1>3, <1>4, <1>5, <1>6, <1>7, <1>8, <1>9, <1>10, <1>11, <1>12, <1>13, <1>14,
           <1>15, <1>16, <1>17, <1>18, <1>19, <1>20 DEF Next

\* Every variable keeps its type: no order of claims, failures, reapings and purges
\* gives a row, a worker or a cache a value the code has no name for.
THEOREM TypeCorrect == Spec => []TypeOK
  BY TypeInit, TypeNext, PTL DEF Spec

-----------------------------------------------------------------------------
(* One audit at a time *)

\* The index: at most one row is RUNNING, whoever claimed, re-opened or lost it.
OneRunning == \A r, s \in Runs : status[r] = "RUNNING" /\ status[s] = "RUNNING" => r = s

\* A worker that never fell silent still owns its row: OneAuditAtATime follows
\* from OneRunning only because the reaper has not failed the row of a live one.
WorkersOwnRows ==
    ~stalled => \A r \in Runs : worker[r] \in Working => status[r] = "RUNNING" /\ ~quiet[r]

ClaimInv == TypeOK /\ OneRunning /\ WorkersOwnRows

LEMMA ClaimStep == ClaimInv /\ [Next]_vars => ClaimInv'
<1> SUFFICES ASSUME ClaimInv, [Next]_vars PROVE ClaimInv'
  OBVIOUS
<1> USE DEF ClaimInv, TypeOK, OneRunning, WorkersOwnRows, rowVars, workVars, dataVars, podVars,
            WorkerMoves, RowIs
<1>t. TypeOK'
  BY TypeNext
<1>1. ASSUME NEW r \in Runs, ClaimRun(r) PROVE ClaimInv'
  BY <1>1, <1>t DEF ClaimRun, IndexAllows
<1>2. ASSUME NEW r \in Runs, ListRecords(r) \/ TouchHeartbeat(r) PROVE ClaimInv'
  BY <1>2, <1>t DEF ListRecords, TouchHeartbeat
<1>3. ASSUME NEW r \in Runs, OpenRunRow(r) PROVE ClaimInv'
  BY <1>3, <1>t DEF OpenRunRow, IndexAllows
<1>4. ASSUME NEW r \in Runs, WriteChunk(r) PROVE ClaimInv'
  BY <1>4, <1>t DEF WriteChunk
<1>5. ASSUME NEW r \in Runs, CloseRunRow(r) PROVE ClaimInv'
  BY <1>5, <1>t DEF CloseRunRow
<1>6. ASSUME NEW r \in Runs, AuditRaises(r) \/ FailRunRow(r) PROVE ClaimInv'
  BY <1>6, <1>t DEF AuditRaises, FailRunRow
<1>7. ASSUME NEW r \in Runs, GoesQuiet(r) PROVE ClaimInv'
  BY <1>7, <1>t DEF GoesQuiet
<1>8. ASSUME NEW r \in Runs, SweepRun(r) \/ SweepRunPurges(r) \/ SweepRunFails(r) PROVE ClaimInv'
  BY <1>8, <1>t DEF SweepRun, SweepRunPurges, SweepRunFails
<1>9. ASSUME NEW r \in Runs, PublishResult(r) \/ PublishLabel(r) \/ PublishElsewhere(r) PROVE ClaimInv'
  BY <1>9, <1>t DEF PublishResult, PublishLabel, PublishElsewhere, Publish
<1>10. CASE ReapStaleRuns
  BY <1>10, <1>t DEF ReapStaleRuns, Stale
<1>11. ASSUME NEW cutoff \in Runs, RetentionPurge(cutoff) PROVE ClaimInv'
  BY <1>11, <1>t DEF RetentionPurge
<1>12. ASSUME NEW e \in Entities, DeleteAssistant(e) \/ PurgeHook(e) \/ PurgeHookFails(e) PROVE ClaimInv'
  BY <1>12, <1>t DEF DeleteAssistant, PurgeHook, PurgeHookFails
<1>13. CASE SweepNightly \/ SweepNightlyPurges
  BY <1>13, <1>t DEF SweepNightly, SweepNightlyPurges
<1>14. ASSUME NEW q \in Readers, GetOrRun(q) \/ HydrateLabels(q) \/ HydrateStores(q) PROVE ClaimInv'
  BY <1>14, <1>t DEF GetOrRun, HydrateLabels, HydrateStores, Reads
<1>15. ASSUME NEW pod \in {Local, Runs \ Local}, Crash(pod) PROVE ClaimInv'
  BY <1>15, <1>t DEF Crash
<1>16. CASE UNCHANGED vars
  BY <1>16, <1>t DEF vars
<1> QED BY <1>1, <1>2, <1>3, <1>4, <1>5, <1>6, <1>7, <1>8, <1>9, <1>10, <1>11, <1>12, <1>13, <1>14,
           <1>15, <1>16 DEF Next

LEMMA ClaimAlways == Spec => []ClaimInv
<1>1. Init => ClaimInv
  BY TypeInit DEF Init, ClaimInv, OneRunning, WorkersOwnRows
<1> QED BY <1>1, ClaimStep, PTL DEF Spec

\* Two workers never audit at once, on whatever pods they run and however the
\* earlier ones ended, while no live worker lost its heartbeat.
THEOREM OneAudit == Spec => []OneAuditAtATime
<1>1. ClaimInv => OneAuditAtATime
  BY DEF ClaimInv, OneRunning, WorkersOwnRows, OneAuditAtATime
<1> QED BY <1>1, ClaimAlways, PTL

-----------------------------------------------------------------------------
(* What readers are served *)

\* A served row is written last: its worker has left its chunks behind.
ServedIsClosed ==
    \A r \in Runs : Served(r) => worker[r] \notin Working \cup {"idle"} /\ todo[r] = {}

\* While chunks are written, every scored assistant that exists is either still
\* to be written or has its verdict.
Covered(r) == \A e \in corpus[r] \cap existing : e \in todo[r] \/ <<r, e>> \in verdicts
ChunksCover == \A r \in Runs : worker[r] = "persisting" \/ Served(r) => Covered(r)

\* What a delete path or a sweep is about to purge is gone for good.
PurgesAreGone == hooks \cap existing = {} /\ \A s \in Runs \cup {Nightly} : found[s] \cap existing = {}

ServedInv == TypeOK /\ ServedIsClosed /\ ChunksCover /\ PurgesAreGone

LEMMA ServedStep == ServedInv /\ [Next]_vars => ServedInv'
<1> SUFFICES ASSUME ServedInv, [Next]_vars PROVE ServedInv'
  OBVIOUS
<1> USE DEF ServedInv, TypeOK, ServedIsClosed, ChunksCover, Covered, PurgesAreGone, Served,
            rowVars, workVars, dataVars, podVars, WorkerMoves, RowIs
<1>t. TypeOK'
  BY TypeNext
<1>1. ASSUME NEW r \in Runs, ClaimRun(r) PROVE ServedInv'
  BY <1>1, <1>t DEF ClaimRun
<1>2. ASSUME NEW r \in Runs, ListRecords(r) \/ TouchHeartbeat(r) PROVE ServedInv'
  BY <1>2, <1>t DEF ListRecords, TouchHeartbeat
<1>3. ASSUME NEW r \in Runs, OpenRunRow(r) PROVE ServedInv'
  BY <1>3, <1>t DEF OpenRunRow
<1>4. ASSUME NEW r \in Runs, WriteChunk(r) PROVE ServedInv'
  BY <1>4, <1>t DEF WriteChunk
<1>5. ASSUME NEW r \in Runs, CloseRunRow(r) PROVE ServedInv'
  BY <1>5, <1>t DEF CloseRunRow, AllWritten
<1>6. ASSUME NEW r \in Runs, AuditRaises(r) \/ FailRunRow(r) PROVE ServedInv'
  BY <1>6, <1>t DEF AuditRaises, FailRunRow
<1>7. ASSUME NEW r \in Runs, GoesQuiet(r) PROVE ServedInv'
  BY <1>7, <1>t DEF GoesQuiet
<1>8. ASSUME NEW r \in Runs, SweepRun(r) \/ SweepRunPurges(r) \/ SweepRunFails(r) PROVE ServedInv'
  BY <1>8, <1>t DEF SweepRun, SweepRunPurges, SweepRunFails, SweepFinds, Orphans, PurgeEntities
<1>9. ASSUME NEW r \in Runs, PublishResult(r) \/ PublishLabel(r) \/ PublishElsewhere(r) PROVE ServedInv'
  BY <1>9, <1>t DEF PublishResult, PublishLabel, PublishElsewhere, Publish
<1>10. CASE ReapStaleRuns
  BY <1>10, <1>t DEF ReapStaleRuns, Stale
<1>11. ASSUME NEW cutoff \in Runs, RetentionPurge(cutoff) PROVE ServedInv'
  BY <1>11, <1>t DEF RetentionPurge
<1>12. ASSUME NEW e \in Entities, DeleteAssistant(e) \/ PurgeHook(e) \/ PurgeHookFails(e) PROVE ServedInv'
  BY <1>12, <1>t DEF DeleteAssistant, PurgeHook, PurgeHookFails, PurgeEntities
<1>13. CASE SweepNightly \/ SweepNightlyPurges
  BY <1>13, <1>t DEF SweepNightly, SweepNightlyPurges, SweepFinds, Orphans, PurgeEntities
<1>14. ASSUME NEW q \in Readers, GetOrRun(q) \/ HydrateLabels(q) \/ HydrateStores(q) PROVE ServedInv'
  BY <1>14, <1>t DEF GetOrRun, HydrateLabels, HydrateStores, Reads
<1>15. ASSUME NEW pod \in {Local, Runs \ Local}, Crash(pod) PROVE ServedInv'
  BY <1>15, <1>t DEF Crash
<1>16. CASE UNCHANGED vars
  BY <1>16, <1>t DEF vars
<1> QED BY <1>1, <1>2, <1>3, <1>4, <1>5, <1>6, <1>7, <1>8, <1>9, <1>10, <1>11, <1>12, <1>13, <1>14,
           <1>15, <1>16 DEF Next

LEMMA ServedAlways == Spec => []ServedInv
<1>1. Init => ServedInv
  BY TypeInit DEF Init, ServedInv, ServedIsClosed, ChunksCover, PurgesAreGone, Served
<1> QED BY <1>1, ServedStep, PTL DEF Spec

\* No failure, crash, reaping, delete or purge leaves a run serveable that lacks
\* the verdict of an assistant it scored and that still exists.
THEOREM ServedWhole == Spec => []ServedRunsAreWhole
<1>1. ServedInv => ServedRunsAreWhole
  BY DEF ServedInv, ServedIsClosed, ChunksCover, Covered, ServedRunsAreWhole
<1> QED BY <1>1, ServedAlways, PTL

-----------------------------------------------------------------------------
(* Readers are not sent back *)

\* LatestIsServed, of the next state.
LEMMA LatestNext ==
    ASSUME NEW r \in Runs, Served(r)'
    PROVE  LatestRun' \in Runs /\ r <= LatestRun'
<1>1. \E x \in {s \in Runs : Served(s)'} : \A s \in {s \in Runs : Served(s)'} : s <= x
  BY GreatestRun
<1>2. \E x \in Runs : Served(x)' /\ \A s \in Runs : Served(s)' => s <= x
  BY <1>1
<1> QED BY <1>2 DEF LatestRun

\* If the latest run goes back, the row it was on is not served any more.
LEMMA BackIsUnserved ==
    ASSUME LatestRun' < LatestRun
    PROVE  LatestRun \in Runs /\ Served(LatestRun) /\ \A r \in Runs : r = LatestRun => ~Served(r)'
<1>1. LatestRun' \in Nat
  <2>1. CASE \E r \in Runs : Served(r)'
    BY <2>1, LatestNext DEF Runs
  <2>2. CASE ~ \E r \in Runs : Served(r)'
    BY <2>2 DEF LatestRun, NoRun
  <2> QED BY <2>1, <2>2
<1>2. \E r \in Runs : Served(r)
  <2>1. ASSUME ~ \E r \in Runs : Served(r) PROVE FALSE
    BY <2>1, <1>1 DEF LatestRun, NoRun
  <2> QED BY <2>1
<1>3. LatestRun \in Runs /\ Served(LatestRun)
  BY <1>2, LatestIsServed
<1>4. ASSUME NEW r \in Runs, r = LatestRun, Served(r)' PROVE FALSE
  BY <1>1, <1>4, LatestNext DEF Runs
<1> QED BY <1>3, <1>4

\* Only the worker of a run un-serves it, or retention, which keeps the latest.
LEMMA UnservedByItsWorker ==
    ASSUME ServedInv, [Next]_vars, NEW x \in Runs, x = LatestRun, Served(x), ~Served(x)'
    PROVE  status'[x] = "FAILED" /\ worker[x] = "failing"
<1> USE DEF ServedInv, TypeOK, ServedIsClosed, Served, rowVars, workVars, dataVars, podVars,
            WorkerMoves, RowIs
<1>1. ASSUME NEW r \in Runs, ClaimRun(r) \/ OpenRunRow(r) \/ CloseRunRow(r) PROVE FALSE
  BY <1>1 DEF ClaimRun, OpenRunRow, CloseRunRow
<1>2. ASSUME NEW r \in Runs, FailRunRow(r)
      PROVE status'[x] = "FAILED" /\ worker[x] = "failing"
  BY <1>2 DEF FailRunRow
<1>3. CASE ReapStaleRuns
  BY <1>3 DEF ReapStaleRuns, Stale
<1>4. ASSUME NEW cutoff \in Runs, RetentionPurge(cutoff) PROVE FALSE
  BY <1>4 DEF RetentionPurge, RetentionKeeps
<1>5. ASSUME NEW r \in Runs,
             \/ ListRecords(r) \/ TouchHeartbeat(r) \/ WriteChunk(r) \/ AuditRaises(r) \/ GoesQuiet(r)
             \/ SweepRun(r) \/ SweepRunPurges(r) \/ SweepRunFails(r)
             \/ PublishResult(r) \/ PublishLabel(r) \/ PublishElsewhere(r)
      PROVE FALSE
  BY <1>5 DEF ListRecords, TouchHeartbeat, WriteChunk, AuditRaises, GoesQuiet, SweepRun,
              SweepRunPurges, SweepRunFails, PublishResult, PublishLabel, PublishElsewhere, Publish
<1>6. ASSUME NEW e \in Entities, DeleteAssistant(e) \/ PurgeHook(e) \/ PurgeHookFails(e) PROVE FALSE
  BY <1>6 DEF DeleteAssistant, PurgeHook, PurgeHookFails
<1>7. CASE SweepNightly \/ SweepNightlyPurges
  BY <1>7 DEF SweepNightly, SweepNightlyPurges
<1>8. ASSUME NEW q \in Readers, GetOrRun(q) \/ HydrateLabels(q) \/ HydrateStores(q) PROVE FALSE
  BY <1>8 DEF GetOrRun, HydrateLabels, HydrateStores, Reads
<1>9. ASSUME NEW pod \in {Local, Runs \ Local}, Crash(pod) PROVE FALSE
  BY <1>9 DEF Crash
<1>10. CASE UNCHANGED vars
  BY <1>10 DEF vars
<1> QED BY <1>1, <1>2, <1>3, <1>4, <1>5, <1>6, <1>7, <1>8, <1>9, <1>10 DEF Next

\* Retention and late finishers never send readers back to an older run.
THEOREM NeverBack == Spec => ReadersNeverGoBack
<1>1. ServedInv /\ [Next]_vars =>
        [ LatestRun' < LatestRun =>
            status'[LatestRun] = "FAILED" /\ worker[LatestRun] = "failing" ]_vars
  <2> SUFFICES ASSUME ServedInv, [Next]_vars, LatestRun' < LatestRun
               PROVE  status'[LatestRun] = "FAILED" /\ worker[LatestRun] = "failing"
    OBVIOUS
  <2>1. PICK x \in Runs : x = LatestRun /\ Served(x) /\ ~Served(x)'
    BY BackIsUnserved
  <2> QED BY <2>1, UnservedByItsWorker
<1> QED BY <1>1, ServedAlways, PTL DEF Spec, ReadersNeverGoBack

-----------------------------------------------------------------------------
(* Verdicts of deleted assistants *)

\* A verdict of run r whose assistant is deleted and past its delete path.
Orphaned(r, e) == <<r, e>> \in verdicts /\ e \notin existing \cup hooks

\* The two purges meet in the middle: what was deleted before the sweep of its run
\* looked is in the sweep's hands, what was deleted after it looked is in the hooks',
\* so nothing is left once the sweep is through.
SweepCovers ==
    ~missed => \A r \in Runs, e \in Entities : Orphaned(r, e) =>
        /\ worker[r] = "sweeping" => e \in found[r]
        /\ worker[r] \notin {"swept", "published"}
        /\ worker[r] = "done" => ~Served(r)

SweepInv == TypeOK /\ SweepCovers

LEMMA SweepStep == SweepInv /\ ServedIsClosed /\ [Next]_vars => SweepInv'
<1> SUFFICES ASSUME SweepInv, ServedIsClosed, [Next]_vars PROVE SweepInv'
  OBVIOUS
<1> USE DEF SweepInv, TypeOK, ServedIsClosed, SweepCovers, Orphaned, Served,
            rowVars, workVars, dataVars, podVars, WorkerMoves, RowIs
<1>t. TypeOK'
  BY TypeNext
<1>1. ASSUME NEW r \in Runs, ClaimRun(r) PROVE SweepInv'
  BY <1>1, <1>t DEF ClaimRun
<1>2. ASSUME NEW r \in Runs, ListRecords(r) \/ TouchHeartbeat(r) PROVE SweepInv'
  BY <1>2, <1>t DEF ListRecords, TouchHeartbeat
<1>3. ASSUME NEW r \in Runs, OpenRunRow(r) PROVE SweepInv'
  BY <1>3, <1>t DEF OpenRunRow
<1>4. ASSUME NEW r \in Runs, WriteChunk(r) PROVE SweepInv'
  BY <1>4, <1>t DEF WriteChunk
<1>5. ASSUME NEW r \in Runs, CloseRunRow(r) PROVE SweepInv'
  BY <1>5, <1>t DEF CloseRunRow
<1>6. ASSUME NEW r \in Runs, AuditRaises(r) \/ FailRunRow(r) PROVE SweepInv'
  BY <1>6, <1>t DEF AuditRaises, FailRunRow
<1>7. ASSUME NEW r \in Runs, GoesQuiet(r) PROVE SweepInv'
  BY <1>7, <1>t DEF GoesQuiet
<1>8. ASSUME NEW r \in Runs, SweepRun(r) \/ SweepRunPurges(r) \/ SweepRunFails(r) PROVE SweepInv'
  BY <1>8, <1>t DEF SweepRun, SweepRunPurges, SweepRunFails, SweepFinds, Orphans, PurgeEntities
<1>9. ASSUME NEW r \in Runs, PublishResult(r) \/ PublishLabel(r) \/ PublishElsewhere(r) PROVE SweepInv'
  BY <1>9, <1>t DEF PublishResult, PublishLabel, PublishElsewhere, Publish
<1>10. CASE ReapStaleRuns
  BY <1>10, <1>t DEF ReapStaleRuns, Stale
<1>11. ASSUME NEW cutoff \in Runs, RetentionPurge(cutoff) PROVE SweepInv'
  BY <1>11, <1>t DEF RetentionPurge
<1>12. ASSUME NEW e \in Entities, DeleteAssistant(e) \/ PurgeHook(e) \/ PurgeHookFails(e) PROVE SweepInv'
  BY <1>12, <1>t DEF DeleteAssistant, PurgeHook, PurgeHookFails, PurgeEntities
<1>13. CASE SweepNightly \/ SweepNightlyPurges
  BY <1>13, <1>t DEF SweepNightly, SweepNightlyPurges, PurgeEntities, Nightly, Runs
<1>14. ASSUME NEW q \in Readers, GetOrRun(q) \/ HydrateLabels(q) \/ HydrateStores(q) PROVE SweepInv'
  BY <1>14, <1>t DEF GetOrRun, HydrateLabels, HydrateStores, Reads
<1>15. ASSUME NEW pod \in {Local, Runs \ Local}, Crash(pod) PROVE SweepInv'
  BY <1>15, <1>t DEF Crash
<1>16. CASE UNCHANGED vars
  BY <1>16, <1>t DEF vars
<1> QED BY <1>1, <1>2, <1>3, <1>4, <1>5, <1>6, <1>7, <1>8, <1>9, <1>10, <1>11, <1>12, <1>13, <1>14,
           <1>15, <1>16 DEF Next

\* An assistant deleted at any moment of an audit, before or after its verdict is
\* written and before or after the run's own sweep looks, has no verdict in the run
\* once both purges are through, unless one of them (or the failing of a row) was given up.
THEOREM NoOrphansEver == Spec => []NoOrphansServed
<1>1. Init => SweepInv
  BY TypeInit DEF Init, SweepInv, SweepCovers, Orphaned
<1>2. SweepInv => NoOrphansServed
  BY DEF SweepInv, SweepCovers, Orphaned, NoOrphansServed
<1>3. ServedInv => ServedIsClosed
  BY DEF ServedInv
<1> QED BY <1>1, <1>2, <1>3, SweepStep, ServedAlways, PTL DEF Spec
=============================================================================
