-------------------------- MODULE AnalysisQueueProofs --------------------------
(***************************************************************************)
(* Theorems about AnalysisQueue, for every number of pods, conversations,  *)
(* changes, retries and faults: row locks keep the pods' batches apart,    *)
(* and the leader lock keeps a conversation from being queued twice.       *)
(***************************************************************************)
EXTENDS AnalysisQueue, TLAPS

-----------------------------------------------------------------------------
(* Types *)

ConvType == [version : 0..MaxChanges, count : Nat, quiet : BOOLEAN]
RowType == [exists : BOOLEAN, seen : 0..MaxChanges, count : Nat, stamp : 0..MaxChanges]
ItemType == [status : Statuses, retries : Nat]
JobType == [step : {"idle", "leader", "fetched", "checked"}, convs : SUBSET Convs]
WorkerType == [step : {"idle", "claiming", "claimed", "reading", "analysed", "looked", "saved",
                       "failing"},
               batch : SUBSET Items, current : Items \cup {NoItem},
               seen : 0..MaxChanges, count : Nat, stamp : 0..MaxChanges, exists : BOOLEAN]

LEMMA Types == TypeOK <=>
    /\ conv \in [Convs -> ConvType] /\ analytics \in [Convs -> RowType]
    /\ item \in [Items -> ItemType] /\ lock \in Pods \cup {NoPod}
    /\ job \in [Pods -> JobType] /\ worker \in [Pods -> WorkerType]
    /\ faults \in 0..MaxFaults
    /\ lostLock \in BOOLEAN /\ abandoned \subseteq Items /\ slipped \subseteq Convs
BY DEF TypeOK, ConvType, RowType, ItemType, JobType, WorkerType

LEMMA TypesNext == TypeOK' <=>
    /\ conv' \in [Convs -> ConvType] /\ analytics' \in [Convs -> RowType]
    /\ item' \in [Items -> ItemType] /\ lock' \in Pods \cup {NoPod}
    /\ job' \in [Pods -> JobType] /\ worker' \in [Pods -> WorkerType]
    /\ faults' \in 0..MaxFaults
    /\ lostLock' \in BOOLEAN /\ abandoned' \subseteq Items /\ slipped' \subseteq Convs
BY DEF TypeOK, ConvType, RowType, ItemType, JobType, WorkerType

LEMMA IdleTypes == WorkerIdle \in WorkerType /\ JobIdle \in JobType
BY QueueAssumption DEF WorkerIdle, JobIdle, WorkerType, JobType

LEMMA ItemParts == \A i \in Items : ConvOf(i) \in Convs
BY DEF Items, ConvOf

\* A worker that has taken an item up has it in its batch; an idle one has none.
HasItem(p) == worker[p].step \in {"reading", "analysed", "looked", "saved", "failing"}
WorkerInv ==
    \A p \in Pods :
        /\ worker[p].step = "idle" => worker[p].batch = {}
        /\ HasItem(p) => worker[p].current \in worker[p].batch
Typed == TypeOK /\ WorkerInv

LEMMA WorkersInit == Init => Typed
<1> SUFFICES ASSUME Init PROVE Typed
  OBVIOUS
<1>1. MaxChanges \in Nat /\ MaxFaults \in Nat /\ 0 \in 0..MaxChanges /\ 0 \in 0..MaxFaults
  BY QueueAssumption
<1>2. conv \in [Convs -> ConvType] /\ analytics \in [Convs -> RowType]
  BY <1>1 DEF Init, ConvType, RowType
<1>3. item \in [Items -> ItemType]
  BY DEF Init, ItemType, Statuses
<1>4. job \in [Pods -> JobType] /\ worker \in [Pods -> WorkerType]
  BY IdleTypes DEF Init
<1>5. TypeOK
  BY <1>1, <1>2, <1>3, <1>4, Types DEF Init
<1> QED BY <1>5 DEF Typed, WorkerInv, HasItem, Init, WorkerIdle

\* One worker's record is replaced by a well-typed one.
LEMMA WorkerSet ==
    ASSUME Typed, NEW p \in Pods, NEW w \in WorkerType,
           w.step = "idle" => w.batch = {},
           w.step \in {"reading", "analysed", "looked", "saved", "failing"} => w.current \in w.batch,
           worker' = [worker EXCEPT ![p] = w]
    PROVE  worker' \in [Pods -> WorkerType] /\ WorkerInv'
BY Types DEF Typed, WorkerInv, HasItem

LEMMA OnlyItemType ==
    ASSUME NEW w \in WorkerType, NEW step \in {"saved", "failing"}
    PROVE  /\ OnlyItem(w, step) \in WorkerType
           /\ OnlyItem(w, step).step = step
           /\ OnlyItem(w, step).batch = w.batch
           /\ OnlyItem(w, step).current = w.current
BY IdleTypes, QueueAssumption DEF OnlyItem, WorkerType, WorkerIdle

\* What the loop leaves of a worker when an item is done.
Rest(p, i) == worker[p].batch \ {i}
LEMMA ItemDoneKeeps ==
    ASSUME Typed, NEW p \in Pods, NEW i \in Items, ItemDone(p, i)
    PROVE  /\ worker' \in [Pods -> WorkerType] /\ WorkerInv'
           /\ worker'[p].batch = worker[p].batch \ {i}
           /\ worker'[p].step \in {"idle", "claimed"}
           /\ \A q \in Pods \ {p} : worker'[q] = worker[q]
<1> DEFINE w == [WorkerIdle EXCEPT !.step = IF Rest(p, i) = {} THEN "idle" ELSE "claimed",
                                   !.batch = Rest(p, i)]
<1>1. worker[p] \in WorkerType /\ worker \in [Pods -> WorkerType]
  BY Types DEF Typed
<1>2. Rest(p, i) \in SUBSET Items
  BY <1>1 DEF Rest, WorkerType
<1>3. w \in WorkerType /\ w.batch = Rest(p, i)
      /\ w.step = IF Rest(p, i) = {} THEN "idle" ELSE "claimed"
  BY <1>2, IdleTypes DEF WorkerType, WorkerIdle
<1>4. worker' = [worker EXCEPT ![p] = w]
  BY DEF ItemDone, Rest
<1> HIDE DEF w
<1>5. worker' \in [Pods -> WorkerType] /\ WorkerInv'
  BY <1>3, <1>4, WorkerSet
<1> QED BY <1>1, <1>3, <1>4, <1>5 DEF Rest

LEMMA TypedStep == Typed /\ [Next]_vars => Typed'
<1> SUFFICES ASSUME Typed, [Next]_vars PROVE Typed'
  OBVIOUS
<1>0. /\ conv \in [Convs -> ConvType] /\ analytics \in [Convs -> RowType]
      /\ item \in [Items -> ItemType] /\ lock \in Pods \cup {NoPod}
      /\ job \in [Pods -> JobType] /\ worker \in [Pods -> WorkerType]
      /\ faults \in 0..MaxFaults
      /\ lostLock \in BOOLEAN /\ abandoned \subseteq Items /\ slipped \subseteq Convs
      /\ MaxChanges \in Nat /\ MaxFaults \in Nat /\ WorkerInv
  BY Types, QueueAssumption DEF Typed
<1>w. \A p \in Pods : /\ HasItem(p) => worker[p].current \in Items
                      /\ HasItem(p) => ConvOf(worker[p].current) \in Convs
                      /\ worker[p].batch \subseteq Items
  BY <1>0, ItemParts DEF WorkerInv, WorkerType
<1>i. \A i \in Items : item[i] \in ItemType
  BY <1>0
<1>f. faults < MaxFaults => faults + 1 \in 0..MaxFaults
  BY <1>0
<1>1. ASSUME NEW c \in Convs, GrowsQuiet(c) \/ (\E delta \in {-1, 0, 1} : Change(c, delta))
      PROVE  Typed'
  <2>1. conv' \in [Convs -> ConvType]
    <3>1. CASE GrowsQuiet(c)
      BY <1>0, <3>1 DEF GrowsQuiet, ConvType
    <3>2. CASE \E delta \in {-1, 0, 1} : Change(c, delta)
      <4> PICK delta \in {-1, 0, 1} : Change(c, delta)
        BY <3>2
      <4>1. conv[c].version \in 0..MaxChanges /\ conv[c].count \in Nat
        BY <1>0 DEF ConvType
      <4>2. conv[c].version + 1 \in 0..MaxChanges /\ conv[c].count + delta \in Nat
        BY <4>1, <1>0 DEF Change
      <4> QED BY <1>0, <4>2 DEF Change, ConvType
    <3> QED BY <1>1, <3>1, <3>2
  <2>2. UNCHANGED <<analytics, item, lock, job, worker, faults, history>>
    BY <1>1 DEF GrowsQuiet, Change
  <2>3. TypeOK'
    BY <1>0, <2>1, <2>2, TypesNext DEF history
  <2>4. WorkerInv'
    BY <1>0, <2>2 DEF WorkerInv, HasItem
  <2> QED BY <2>3, <2>4 DEF Typed
<1>2. ASSUME NEW p \in Pods, PopulateStep(p) \/ LoseLock(p) \/ Crash(p)
      PROVE  job' \in [Pods -> JobType] /\ lock' \in Pods \cup {NoPod}
  <2>1. ASSUME LeaveLock(p) PROVE job' \in [Pods -> JobType] /\ lock' \in Pods \cup {NoPod}
    BY <1>0, <2>1, IdleTypes DEF LeaveLock
  <2>2. CASE TryLead(p)
    BY <1>0, <2>2 DEF TryLead, JobType
  <2>3. CASE Fetch(p)
    <3> DEFINE found == {c \in Convs : NeedsAnalysis(c)}
    <3>1. [step |-> "fetched", convs |-> found] \in JobType
      BY DEF JobType
    <3>2. \/ /\ job' = [job EXCEPT ![p] = [step |-> "fetched", convs |-> found]]
             /\ UNCHANGED lock
          \/ LeaveLock(p)
      BY <2>3 DEF Fetch
    <3> HIDE DEF found
    <3> QED BY <1>0, <2>1, <3>1, <3>2
  <2>4. CASE ReadExisting(p)
    <3> DEFINE rest == {c \in job[p].convs : ~ \E s \in Slots : Open(<<c, s>>)}
    <3>1. [step |-> "checked", convs |-> rest] \in JobType
      BY <1>0 DEF JobType
    <3>2. job' = [job EXCEPT ![p] = [step |-> "checked", convs |-> rest]] /\ UNCHANGED lock
      BY <2>4 DEF ReadExisting
    <3> HIDE DEF rest
    <3> QED BY <1>0, <3>1, <3>2
  <2>5. CASE Insert(p)
    BY <2>1, <2>5 DEF Insert
  <2>6. CASE LoseLock(p)
    BY <1>0, <2>6 DEF LoseLock
  <2>7. CASE Crash(p)
    BY <2>1, <2>7 DEF Crash
  <2> QED BY <1>2, <2>2, <2>3, <2>4, <2>5, <2>6, <2>7 DEF PopulateStep
<1>3. ASSUME NEW p \in Pods, PopulateStep(p) \/ LoseLock(p) PROVE Typed'
  <2>1. item' \in [Items -> ItemType]
    BY <1>0, <1>3 DEF PopulateStep, LoseLock, TryLead, Fetch, ReadExisting, Insert, jobOnly,
                      ItemType, Statuses
  <2>2. UNCHANGED <<conv, analytics, worker, abandoned, slipped>>
    BY <1>3 DEF PopulateStep, LoseLock, TryLead, Fetch, ReadExisting, Insert, jobOnly, history
  <2>3. faults' \in 0..MaxFaults /\ lostLock' \in BOOLEAN
    BY <1>0, <1>3, <1>f DEF PopulateStep, LoseLock, TryLead, Fetch, ReadExisting, Insert, jobOnly,
                            history
  <2>4. TypeOK'
    BY <1>0, <1>2, <1>3, <2>1, <2>2, <2>3, TypesNext
  <2>5. WorkerInv'
    BY <1>0, <2>2 DEF WorkerInv, HasItem
  <2> QED BY <2>4, <2>5 DEF Typed
<1>4. ASSUME NEW p \in Pods,
             WorkStep(p) \/ AnalysisFails(p) \/ MarkFailedRaises(p) \/ Crash(p)
      PROVE  Typed'
  <2>w. worker[p] \in WorkerType
    BY <1>0
  <2>1. conv' = conv /\ lostLock' = lostLock
    BY <1>4 DEF WorkStep, ClaimSelect, ClaimCommit, ReadConversation, StampAnalysis, LookUp,
       Upsert, MarkCompleted, MarkFailed, AnalysisFails, MarkFailedRaises, Crash, workerOnly
  <2>2. faults' \in 0..MaxFaults
    BY <1>0, <1>4, <1>f DEF WorkStep, ClaimSelect, ClaimCommit, ReadConversation, StampAnalysis,
       LookUp, Upsert, MarkCompleted, MarkFailed, AnalysisFails, MarkFailedRaises, Crash
  <2>3. abandoned' \subseteq Items
    BY <1>0, <1>w, <1>4 DEF WorkStep, ClaimSelect, ClaimCommit, ReadConversation, StampAnalysis,
       LookUp, Upsert, MarkCompleted, MarkFailed, AnalysisFails, MarkFailedRaises, Crash
  <2>4. job' \in [Pods -> JobType] /\ lock' \in Pods \cup {NoPod}
    <3>1. CASE Crash(p)
      BY <1>2, <3>1
    <3>2. CASE UNCHANGED <<lock, job>>
      BY <1>0, <3>2
    <3> QED BY <1>4, <3>1, <3>2 DEF WorkStep, ClaimSelect, ClaimCommit, ReadConversation,
       StampAnalysis, LookUp, Upsert, MarkCompleted, MarkFailed, AnalysisFails, MarkFailedRaises,
       workerOnly
  <2>5. item' \in [Items -> ItemType]
    <3>1. CASE ClaimCommit(p)
      BY <1>0, <1>i, <3>1 DEF ClaimCommit, ItemType, Statuses
    <3>2. CASE MarkCompleted(p)
      BY <1>0, <1>i, <3>2 DEF MarkCompleted, ItemType, Statuses
    <3>3. CASE MarkFailed(p)
      <4>1. worker[p].current \in Items
        BY <1>w, <3>3 DEF MarkFailed, HasItem
      <4>2. item[worker[p].current].retries + 1 \in Nat
        BY <4>1, <1>i DEF ItemType
      <4> QED BY <1>0, <4>1, <4>2, <3>3 DEF MarkFailed, ItemType, Statuses
    <3>4. CASE UNCHANGED item
      BY <1>0, <3>4
    <3> QED BY <1>4, <3>1, <3>2, <3>3, <3>4 DEF WorkStep, ClaimSelect, ReadConversation,
       StampAnalysis, LookUp, Upsert, AnalysisFails, MarkFailedRaises, Crash
  <2>6. analytics' \in [Convs -> RowType] /\ slipped' \subseteq Convs
    <3>1. CASE Upsert(p)
      <4>1. ConvOf(worker[p].current) \in Convs
        BY <1>w, <3>1 DEF Upsert, HasItem
      <4>2. [exists |-> TRUE, seen |-> worker[p].seen, count |-> worker[p].count,
             stamp |-> worker[p].stamp] \in RowType
        BY <2>w DEF WorkerType, RowType
      <4> QED BY <1>0, <4>1, <4>2, <3>1 DEF Upsert
    <3>2. CASE UNCHANGED <<analytics, slipped>>
      BY <1>0, <3>2
    <3> QED BY <1>4, <3>1, <3>2 DEF WorkStep, ClaimSelect, ClaimCommit, ReadConversation,
       StampAnalysis, LookUp, MarkCompleted, MarkFailed, AnalysisFails, MarkFailedRaises, Crash
  <2>7. worker' \in [Pods -> WorkerType] /\ WorkerInv'
    <3>1. CASE ClaimSelect(p)
      <4> PICK batch \in SUBSET Items :
             worker' = [worker EXCEPT ![p].step = "claiming", ![p].batch = batch]
        BY <3>1 DEF ClaimSelect
      <4> DEFINE w == [worker[p] EXCEPT !.step = "claiming", !.batch = batch]
      <4>1. w \in WorkerType /\ w.step = "claiming"
        BY <2>w DEF WorkerType
      <4>2. worker' = [worker EXCEPT ![p] = w]
        BY <1>0
      <4> HIDE DEF w
      <4> QED BY <4>1, <4>2, WorkerSet
    <3>2. CASE ClaimCommit(p)
      <4> DEFINE w == [worker[p] EXCEPT !.step = "claimed"]
      <4>1. w \in WorkerType /\ w.step = "claimed"
        BY <2>w DEF WorkerType
      <4>2. worker' = [worker EXCEPT ![p] = w]
        BY <3>2 DEF ClaimCommit
      <4> HIDE DEF w
      <4> QED BY <4>1, <4>2, WorkerSet
    <3>3. CASE ReadConversation(p)
      <4> PICK i \in worker[p].batch :
             worker' = [worker EXCEPT ![p].step = "reading", ![p].current = i,
                                      ![p].seen = conv[ConvOf(i)].version,
                                      ![p].count = conv[ConvOf(i)].count]
        BY <3>3 DEF ReadConversation
      <4> DEFINE w == [worker[p] EXCEPT !.step = "reading", !.current = i,
                                        !.seen = conv[ConvOf(i)].version,
                                        !.count = conv[ConvOf(i)].count]
      <4>1. i \in Items /\ conv[ConvOf(i)] \in ConvType
        BY <1>0, <1>w, ItemParts
      <4>2. w \in WorkerType /\ w.step = "reading" /\ w.current \in w.batch
        BY <2>w, <4>1 DEF WorkerType, ConvType
      <4>3. worker' = [worker EXCEPT ![p] = w]
        BY <1>0
      <4> HIDE DEF w
      <4> QED BY <4>2, <4>3, WorkerSet
    <3>4. CASE StampAnalysis(p)
      <4> DEFINE stamp == conv[ConvOf(worker[p].current)].version
                 w == [worker[p] EXCEPT !.step = "analysed", !.stamp = stamp]
      <4>1. worker[p].current \in worker[p].batch /\ stamp \in 0..MaxChanges
        BY <1>0, <1>w, <3>4 DEF StampAnalysis, WorkerInv, HasItem, ConvType
      <4>2. w \in WorkerType /\ w.step = "analysed" /\ w.current \in w.batch
        BY <2>w, <4>1 DEF WorkerType
      <4>3. worker' = [worker EXCEPT ![p] = w]
        BY <1>0, <3>4 DEF StampAnalysis
      <4> HIDE DEF w, stamp
      <4> QED BY <4>2, <4>3, WorkerSet
    <3>5. CASE LookUp(p)
      <4> DEFINE exists == analytics[ConvOf(worker[p].current)].exists
                 w == [worker[p] EXCEPT !.step = "looked", !.exists = exists]
      <4>1. worker[p].current \in worker[p].batch /\ exists \in BOOLEAN
        BY <1>0, <1>w, <3>5 DEF LookUp, WorkerInv, HasItem, RowType
      <4>2. w \in WorkerType /\ w.step = "looked" /\ w.current \in w.batch
        BY <2>w, <4>1 DEF WorkerType
      <4>3. worker' = [worker EXCEPT ![p] = w]
        BY <1>0, <3>5 DEF LookUp
      <4> HIDE DEF w, exists
      <4> QED BY <4>2, <4>3, WorkerSet
    <3>6. ASSUME NEW step \in {"saved", "failing"}, HasItem(p),
                 worker' = [worker EXCEPT ![p] = OnlyItem(worker[p], step)]
          PROVE  worker' \in [Pods -> WorkerType] /\ WorkerInv'
      <4>1. worker[p].current \in worker[p].batch
        BY <1>0, <3>6 DEF WorkerInv
      <4>2. /\ OnlyItem(worker[p], step) \in WorkerType
            /\ OnlyItem(worker[p], step).step # "idle"
            /\ OnlyItem(worker[p], step).current \in OnlyItem(worker[p], step).batch
        BY <2>w, <4>1, OnlyItemType
      <4> QED BY <3>6, <4>2, WorkerSet
    <3>7. CASE Upsert(p) \/ AnalysisFails(p)
      <4>1. HasItem(p)
        BY <3>7 DEF Upsert, AnalysisFails, HasItem
      <4>2. \E step \in {"saved", "failing"} :
               worker' = [worker EXCEPT ![p] = OnlyItem(worker[p], step)]
        BY <1>0, <3>7 DEF Upsert, AnalysisFails
      <4> QED BY <4>1, <4>2, <3>6
    <3>8. CASE MarkCompleted(p) \/ MarkFailed(p)
      <4>1. worker[p].current \in Items /\ ItemDone(p, worker[p].current)
        BY <1>w, <3>8 DEF MarkCompleted, MarkFailed, HasItem
      <4> QED BY <4>1, ItemDoneKeeps
    <3>9. CASE MarkFailedRaises(p) \/ Crash(p)
      <4>1. worker' = [worker EXCEPT ![p] = WorkerIdle]
        BY <3>9 DEF MarkFailedRaises, Crash
      <4>2. WorkerIdle.step = "idle" /\ WorkerIdle.batch = {}
        BY DEF WorkerIdle
      <4> QED BY <4>1, <4>2, IdleTypes, WorkerSet
    <3> QED BY <1>4, <3>1, <3>2, <3>3, <3>4, <3>5, <3>7, <3>8, <3>9 DEF WorkStep
  <2>8. TypeOK'
    BY <1>0, <2>1, <2>2, <2>3, <2>4, <2>5, <2>6, <2>7, TypesNext
  <2> QED BY <2>7, <2>8 DEF Typed
<1>5. CASE UNCHANGED vars
  <2>1. TypeOK'
    BY <1>0, <1>5, TypesNext DEF vars
  <2>2. WorkerInv'
    BY <1>0, <1>5 DEF WorkerInv, HasItem, vars
  <2> QED BY <2>1, <2>2 DEF Typed
<1> QED BY <1>1, <1>3, <1>4, <1>5 DEF Next

\* Every variable keeps its type, whatever the pods, the users and the faults do.
THEOREM QueueTypeCorrect == Spec => []TypeOK
<1>1. Init => Typed
  BY WorkersInit
<1>2. Typed /\ [Next]_vars => Typed'
  BY TypedStep
<1>3. Typed => TypeOK
  BY DEF Typed
<1> QED BY <1>1, <1>2, <1>3, PTL DEF Spec

-----------------------------------------------------------------------------
(* Claims *)

\* A claim that is not committed holds records the query may return; a record
\* given up is in nobody's batch.
Disjoint == \A p, q \in Pods : p # q => worker[p].batch \cap worker[q].batch = {}
ClaimsClaimable ==
    \A p \in Pods : worker[p].step = "claiming" => \A i \in worker[p].batch : Claimable(i)
GivenUpAlone == \A p \in Pods : worker[p].batch \cap abandoned = {}
ProcessingIsHeld ==
    \A i \in Items : item[i].status = "PROCESSING"
        <=> i \in abandoned \/ \E p \in Pods : Live(p) /\ i \in worker[p].batch
ClaimInv == Disjoint /\ ClaimsClaimable /\ GivenUpAlone /\ ProcessingIsHeld

LEMMA ClaimInit == Init => ClaimInv
BY DEF Init, ClaimInv, Disjoint, ClaimsClaimable, GivenUpAlone, ProcessingIsHeld, WorkerIdle, Live

\* Population writes only into slots no claim and no worker holds.
LEMMA ClaimInsert ==
    ASSUME Typed, ClaimInv, NEW p \in Pods, Insert(p)
    PROVE  ClaimInv'
<1>1. item \in [Items -> ItemType] /\ worker \in [Pods -> WorkerType]
  BY Types DEF Typed
<1>2. UNCHANGED <<worker, abandoned>>
  BY DEF Insert, history
<1>3. \A i \in Items : \/ item'[i] = item[i]
                       \/ /\ Spent(i) /\ item'[i].status = "PENDING"
  <2> PICK slot \in [job[p].convs -> Slots] :
        /\ \A c \in job[p].convs : Spent(<<c, slot[c]>>)
        /\ item' = [i \in Items |->
              IF ConvOf(i) \in job[p].convs /\ i[2] = slot[ConvOf(i)]
              THEN [status |-> "PENDING", retries |-> 0] ELSE item[i]]
    BY DEF Insert
  <2> TAKE i \in Items
  <2>1. i = <<ConvOf(i), i[2]>>
    BY DEF Items, ConvOf
  <2> QED BY <2>1
<1>4. \A i \in Items : Claimable(i) => item'[i] = item[i]
  BY <1>1, <1>3, QueueAssumption DEF Claimable, Spent, ItemType
<1>5. \A i \in Items : item'[i].status = "PROCESSING" <=> item[i].status = "PROCESSING"
  BY <1>3 DEF Spent
<1>6. Disjoint' /\ GivenUpAlone' /\ ProcessingIsHeld'
  BY <1>2, <1>5 DEF ClaimInv, Disjoint, GivenUpAlone, ProcessingIsHeld, Live
<1>7. ClaimsClaimable'
  <2>1. \A q \in Pods : worker[q].batch \subseteq Items
    BY <1>1 DEF WorkerType
  <2> QED BY <1>2, <1>4, <2>1 DEF ClaimInv, ClaimsClaimable, Claimable
<1> QED BY <1>6, <1>7 DEF ClaimInv

\* FOR UPDATE SKIP LOCKED: what one pod selects, nobody else has.
LEMMA ClaimSelected ==
    ASSUME Typed, ClaimInv, NEW p \in Pods, ClaimSelect(p)
    PROVE  ClaimInv'
<1>1. worker \in [Pods -> WorkerType] /\ WorkerInv
  BY Types DEF Typed
<1> PICK batch \in SUBSET {i \in Items : Claimable(i) /\ ~RowLocked(i)} :
       worker' = [worker EXCEPT ![p].step = "claiming", ![p].batch = batch]
  BY DEF ClaimSelect
<1>2. UNCHANGED <<item, abandoned>> /\ worker[p].step = "idle" /\ worker[p].batch = {}
  BY <1>1 DEF ClaimSelect, WorkerInv
<1>3. worker'[p].batch = batch /\ worker'[p].step = "claiming"
      /\ \A q \in Pods \ {p} : worker'[q] = worker[q]
  BY <1>1 DEF WorkerType
<1>4. \A i \in batch : Claimable(i) /\ i \in Items /\ i \notin abandoned
                       /\ \A q \in Pods : i \notin worker[q].batch
  <2> TAKE i \in batch
  <2>1. Claimable(i) /\ i \in Items /\ ~RowLocked(i)
    OBVIOUS
  <2>2. item[i].status # "PROCESSING"
    BY <2>1 DEF Claimable
  <2>3. i \notin abandoned /\ \A q \in Pods : ~(Live(q) /\ i \in worker[q].batch)
    BY <2>1, <2>2 DEF ClaimInv, ProcessingIsHeld
  <2> QED BY <1>1, <2>1, <2>3 DEF Live, WorkerInv, RowLocked
<1>5. Disjoint'
  BY <1>3, <1>4 DEF ClaimInv, Disjoint
<1>6. ClaimsClaimable'
  BY <1>2, <1>3, <1>4 DEF ClaimInv, ClaimsClaimable, Claimable
<1>7. GivenUpAlone'
  BY <1>2, <1>3, <1>4 DEF ClaimInv, GivenUpAlone
<1>8. ProcessingIsHeld'
  BY <1>2, <1>3 DEF ClaimInv, ProcessingIsHeld, Live
<1> QED BY <1>5, <1>6, <1>7, <1>8 DEF ClaimInv

LEMMA ClaimCommitted ==
    ASSUME Typed, ClaimInv, NEW p \in Pods, ClaimCommit(p)
    PROVE  ClaimInv'
<1>1. worker \in [Pods -> WorkerType] /\ item \in [Items -> ItemType]
  BY Types DEF Typed
<1>2. /\ worker'[p].batch = worker[p].batch /\ worker'[p].step = "claimed"
      /\ \A q \in Pods \ {p} : worker'[q] = worker[q]
      /\ abandoned' = abandoned /\ worker[p].step = "claiming"
  BY <1>1 DEF ClaimCommit, WorkerType
<1>3. \A i \in Items : IF i \in worker[p].batch THEN item'[i].status = "PROCESSING"
                                               ELSE item'[i] = item[i]
  BY <1>1 DEF ClaimCommit, ItemType
<1>4. \A q \in Pods : worker[q].batch \subseteq Items
  BY <1>1 DEF WorkerType
<1>5. Disjoint' /\ GivenUpAlone'
  BY <1>2 DEF ClaimInv, Disjoint, GivenUpAlone
<1>6. ClaimsClaimable'
  BY <1>2, <1>3, <1>4 DEF ClaimInv, Disjoint, ClaimsClaimable, Claimable
<1>7. ProcessingIsHeld'
  <2>1. Live(p)' /\ ~Live(p) /\ \A q \in Pods \ {p} : Live(q)' <=> Live(q)
    BY <1>2 DEF Live
  <2> QED BY <1>2, <1>3, <2>1 DEF ClaimInv, ProcessingIsHeld
<1> QED BY <1>5, <1>6, <1>7 DEF ClaimInv

\* A step inside an analysis: the batch stays, and the pod stays at work.
LEMMA ClaimAtWork ==
    ASSUME Typed, ClaimInv, NEW p \in Pods, UNCHANGED <<item, abandoned>>,
           worker[p].step \notin {"idle", "claiming"}, worker'[p].step \notin {"idle", "claiming"},
           worker'[p].batch = worker[p].batch, \A q \in Pods \ {p} : worker'[q] = worker[q]
    PROVE  ClaimInv'
BY DEF ClaimInv, Disjoint, ClaimsClaimable, GivenUpAlone, ProcessingIsHeld, Live, Claimable

LEMMA ClaimMarked ==
    ASSUME Typed, ClaimInv, NEW p \in Pods, MarkCompleted(p) \/ MarkFailed(p)
    PROVE  ClaimInv'
<1> DEFINE i == worker[p].current
<1>1. worker \in [Pods -> WorkerType] /\ item \in [Items -> ItemType] /\ WorkerInv
  BY Types DEF Typed
<1>2. HasItem(p) /\ i \in worker[p].batch /\ i \in Items
  BY <1>1 DEF MarkCompleted, MarkFailed, HasItem, WorkerInv, WorkerType
<1>3. /\ WorkerInv' /\ worker'[p].batch = worker[p].batch \ {i}
      /\ worker'[p].step \in {"idle", "claimed"}
      /\ \A q \in Pods \ {p} : worker'[q] = worker[q]
  BY <1>2, ItemDoneKeeps DEF MarkCompleted, MarkFailed
<1>4. abandoned' = abandoned /\ item'[i].status \in {"COMPLETED", "FAILED"}
      /\ \A j \in Items \ {i} : item'[j] = item[j]
  BY <1>1, <1>2 DEF MarkCompleted, MarkFailed, ItemType
<1> HIDE DEF i
<1>5. Disjoint' /\ GivenUpAlone'
  BY <1>3, <1>4 DEF ClaimInv, Disjoint, GivenUpAlone
<1>6. ClaimsClaimable'
  <2>1. \A q \in Pods \ {p} : i \notin worker[q].batch
    BY <1>2 DEF ClaimInv, Disjoint
  <2>2. \A q \in Pods : worker[q].batch \subseteq Items
    BY <1>1 DEF WorkerType
  <2> QED BY <1>3, <1>4, <2>1, <2>2 DEF ClaimInv, ClaimsClaimable, Claimable
<1>7. ProcessingIsHeld'
  <2>1. Live(p) /\ \A q \in Pods \ {p} : Live(q)' <=> Live(q)
    BY <1>2, <1>3 DEF Live, HasItem
  <2>2. Live(p)' \/ worker'[p].batch = {}
    BY <1>3 DEF Live, WorkerInv
  <2>3. i \notin abandoned /\ \A q \in Pods \ {p} : i \notin worker[q].batch
    BY <1>2 DEF ClaimInv, Disjoint, GivenUpAlone
  <2>4. ASSUME NEW j \in Items
        PROVE  item'[j].status = "PROCESSING"
                 <=> j \in abandoned' \/ \E q \in Pods : Live(q)' /\ j \in worker'[q].batch
    <3>1. CASE j = i
      BY <1>3, <1>4, <2>3, <3>1
    <3>2. CASE j # i
      <4>1. item[j].status = "PROCESSING"
              <=> j \in abandoned \/ \E q \in Pods : Live(q) /\ j \in worker[q].batch
        BY DEF ClaimInv, ProcessingIsHeld
      <4>2. \A q \in Pods : (Live(q)' /\ j \in worker'[q].batch)
                            <=> (Live(q) /\ j \in worker[q].batch)
        BY <1>3, <2>1, <2>2, <3>2
      <4> QED BY <1>4, <3>2, <4>1, <4>2
    <3> QED BY <3>1, <3>2
  <2> QED BY <2>4 DEF ProcessingIsHeld
<1> QED BY <1>5, <1>6, <1>7 DEF ClaimInv

\* A worker that stops leaves what it had committed to to nobody.
LEMMA ClaimGivenUp ==
    ASSUME Typed, ClaimInv, NEW p \in Pods, MarkFailedRaises(p) \/ Crash(p)
    PROVE  ClaimInv'
<1>1. worker \in [Pods -> WorkerType] /\ WorkerInv
  BY Types DEF Typed
<1>2. /\ worker'[p] = WorkerIdle /\ \A q \in Pods \ {p} : worker'[q] = worker[q]
      /\ item' = item
  BY <1>1 DEF MarkFailedRaises, Crash
<1>3. worker'[p].batch = {} /\ worker'[p].step = "idle"
  BY <1>2 DEF WorkerIdle
<1>4. abandoned' = IF Live(p) THEN abandoned \cup worker[p].batch ELSE abandoned
  BY DEF MarkFailedRaises, Crash, Live
<1>5. Disjoint'
  BY <1>2, <1>3 DEF ClaimInv, Disjoint
<1>6. GivenUpAlone'
  BY <1>2, <1>3, <1>4 DEF ClaimInv, Disjoint, GivenUpAlone
<1>7. ClaimsClaimable'
  BY <1>2, <1>3 DEF ClaimInv, ClaimsClaimable, Claimable
<1>8. ProcessingIsHeld'
  BY <1>2, <1>3, <1>4 DEF ClaimInv, ProcessingIsHeld, Live
<1> QED BY <1>5, <1>6, <1>7, <1>8 DEF ClaimInv

LEMMA ClaimStep == Typed /\ ClaimInv /\ [Next]_vars => ClaimInv'
<1> SUFFICES ASSUME Typed, ClaimInv, [Next]_vars PROVE ClaimInv'
  OBVIOUS
<1>0. worker \in [Pods -> WorkerType]
  BY Types DEF Typed
<1>1. CASE UNCHANGED <<item, worker, abandoned>>
  BY <1>1 DEF ClaimInv, Disjoint, ClaimsClaimable, GivenUpAlone, ProcessingIsHeld, Live, Claimable
<1>2. ASSUME NEW p \in Pods,
             ReadConversation(p) \/ StampAnalysis(p) \/ LookUp(p)
      PROVE  ClaimInv'
  <2>1. /\ UNCHANGED <<item, abandoned>>
        /\ worker[p].step \notin {"idle", "claiming"}
        /\ worker'[p].step \notin {"idle", "claiming"}
        /\ worker'[p].batch = worker[p].batch
        /\ \A q \in Pods \ {p} : worker'[q] = worker[q]
    <3>1. CASE ReadConversation(p)
      BY <1>0, <3>1 DEF ReadConversation, WorkerType
    <3>2. CASE StampAnalysis(p)
      BY <1>0, <3>2 DEF StampAnalysis, WorkerType
    <3>3. CASE LookUp(p)
      BY <1>0, <3>3 DEF LookUp, WorkerType
    <3> QED BY <1>2, <3>1, <3>2, <3>3
  <2> QED BY <2>1, ClaimAtWork
<1>3. ASSUME NEW p \in Pods, Upsert(p) \/ AnalysisFails(p)
      PROVE  ClaimInv'
  <2>1. PICK step \in {"saved", "failing"} :
            worker' = [worker EXCEPT ![p] = OnlyItem(worker[p], step)]
    BY <1>0, <1>3 DEF Upsert, AnalysisFails
  <2>2. /\ UNCHANGED <<item, abandoned>>
        /\ worker[p].step \notin {"idle", "claiming"}
    BY <1>3 DEF Upsert, AnalysisFails
  <2>3. worker'[p] = OnlyItem(worker[p], step) /\ worker[p] \in WorkerType
    BY <1>0, <2>1
  <2>4. worker'[p].step \notin {"idle", "claiming"} /\ worker'[p].batch = worker[p].batch
    BY <2>3, OnlyItemType
  <2> QED BY <1>0, <2>1, <2>2, <2>4, ClaimAtWork
<1>4. ASSUME NEW p \in Pods, PopulateStep(p) \/ LoseLock(p)
      PROVE  ClaimInv'
  <2>1. CASE Insert(p)
    BY <2>1, ClaimInsert
  <2>2. CASE ~Insert(p)
    BY <1>1, <1>4, <2>2 DEF PopulateStep, TryLead, Fetch, ReadExisting, LoseLock, jobOnly, history
  <2> QED BY <2>1, <2>2
<1>5. ASSUME NEW p \in Pods,
             WorkStep(p) \/ AnalysisFails(p) \/ MarkFailedRaises(p) \/ Crash(p)
      PROVE  ClaimInv'
  BY <1>2, <1>3, <1>5, ClaimSelected, ClaimCommitted, ClaimMarked, ClaimGivenUp DEF WorkStep
<1>6. ASSUME NEW c \in Convs, GrowsQuiet(c) \/ \E delta \in {-1, 0, 1} : Change(c, delta)
      PROVE  ClaimInv'
  BY <1>1, <1>6 DEF GrowsQuiet, Change, history
<1>7. CASE UNCHANGED vars
  BY <1>1, <1>7 DEF vars
<1> QED BY <1>4, <1>5, <1>6, <1>7 DEF Next

\* Two pods never work on one queue record, and no record is PROCESSING but
\* one a pod works on or gave up: the claim of process_batch, whatever
\* crashes, failures and lost connections come between its steps.
THEOREM ClaimedByOnePodEver == Spec => []ClaimedByOnePod
<1>1. Init => Typed /\ ClaimInv
  BY WorkersInit, ClaimInit
<1>2. Typed /\ ClaimInv /\ [Next]_vars => (Typed /\ ClaimInv)'
  BY TypedStep, ClaimStep
<1>3. Typed /\ ClaimInv => ClaimedByOnePod
  BY DEF ClaimInv, Disjoint, ProcessingIsHeld, ClaimedByOnePod
<1> QED BY <1>1, <1>2, <1>3, PTL DEF Spec

-----------------------------------------------------------------------------
(* The queue holds a conversation once *)

\* A fresh record is open and has not failed yet; only a population run makes
\* one, and a failed record is never fresh again.
Fresh(i) == Open(i) /\ item[i].retries = 0
FailedCounted == \A i \in Items : item[i].status = "FAILED" => item[i].retries > 0
OneLeader == \A p \in Pods : job[p].step # "idle" => lock = p
CheckedUnqueued ==
    \A p \in Pods : job[p].step = "checked"
        => \A i \in Items : ConvOf(i) \in job[p].convs => ~Fresh(i)
FreshOnce == \A i, j \in Items : ConvOf(i) = ConvOf(j) /\ Fresh(i) /\ Fresh(j) => i = j
QueueInv == FailedCounted /\ (~lostLock => OneLeader /\ CheckedUnqueued /\ FreshOnce)

\* Steps that make no record fresh and let nobody in.
LEMMA QueueQuiet ==
    ASSUME QueueInv, FailedCounted', UNCHANGED lostLock, ~lostLock => OneLeader',
           \A i \in Items : Fresh(i)' => Fresh(i),
           \A p \in Pods : job'[p].step = "checked" => job'[p] = job[p]
    PROVE  QueueInv'
BY DEF QueueInv, CheckedUnqueued, FreshOnce

\* Leaving the lock leaves nobody else inside.
LEMMA Leaving ==
    ASSUME Typed, OneLeader, NEW p \in Pods, LeaveLock(p)
    PROVE  /\ OneLeader' /\ job'[p].step = "idle"
           /\ \A q \in Pods \ {p} : job'[q] = job[q]
           /\ job[p].step # "idle" => \A q \in Pods : job'[q].step = "idle"
<1>1. job \in [Pods -> JobType] /\ lock \in Pods \cup {NoPod} /\ NoPod \notin Pods
  BY Types, QueueAssumption DEF Typed
<1>2. job'[p] = JobIdle /\ \A q \in Pods \ {p} : job'[q] = job[q]
  BY <1>1 DEF LeaveLock
<1>3. lock' = IF lock = p THEN NoPod ELSE lock
  BY DEF LeaveLock
<1> QED BY <1>1, <1>2, <1>3 DEF OneLeader, JobIdle

LEMMA QueueInsert ==
    ASSUME Typed, QueueInv, NEW p \in Pods, Insert(p)
    PROVE  QueueInv'
<1>1. item \in [Items -> ItemType]
  BY Types DEF Typed
<1> PICK slot \in [job[p].convs -> Slots] :
      /\ \A c \in job[p].convs : Spent(<<c, slot[c]>>)
      /\ item' = [i \in Items |->
            IF ConvOf(i) \in job[p].convs /\ i[2] = slot[ConvOf(i)]
            THEN [status |-> "PENDING", retries |-> 0] ELSE item[i]]
  BY DEF Insert
<1> DEFINE New(i) == ConvOf(i) \in job[p].convs /\ i[2] = slot[ConvOf(i)]
<1>2. \A i \in Items : IF New(i) THEN item'[i] = [status |-> "PENDING", retries |-> 0]
                                 ELSE item'[i] = item[i]
  OBVIOUS
<1>3. \A i, j \in Items : New(i) /\ New(j) /\ ConvOf(i) = ConvOf(j) => i = j
  BY DEF Items, ConvOf
<1>4. FailedCounted'
  BY <1>2 DEF QueueInv, FailedCounted
<1>5. ASSUME ~lostLock PROVE OneLeader' /\ CheckedUnqueued' /\ FreshOnce'
  <2>1. OneLeader /\ CheckedUnqueued /\ FreshOnce /\ job[p].step = "checked" /\ LeaveLock(p)
    BY <1>5 DEF QueueInv, Insert
  <2>2. OneLeader' /\ CheckedUnqueued'
    BY <2>1, Leaving DEF CheckedUnqueued
  <2>3. \A i \in Items : ConvOf(i) \in job[p].convs => ~Fresh(i)
    BY <2>1 DEF CheckedUnqueued
  <2>4. \A i \in Items : Fresh(i)' => New(i) \/ Fresh(i)
    BY <1>2 DEF Fresh, Open
  <2>5. FreshOnce'
    <3> SUFFICES ASSUME NEW i \in Items, NEW j \in Items, ConvOf(i) = ConvOf(j),
                        Fresh(i)', Fresh(j)'
                 PROVE  i = j
      BY DEF FreshOnce
    <3>1. CASE New(i) /\ New(j)
      BY <1>3, <3>1
    <3>2. CASE ~New(i) /\ ~New(j)
      BY <2>1, <2>4, <3>2 DEF FreshOnce
    <3>3. CASE New(i) /\ ~New(j)
      BY <2>3, <2>4, <3>3
    <3>4. CASE ~New(i) /\ New(j)
      BY <2>3, <2>4, <3>4
    <3> QED BY <3>1, <3>2, <3>3, <3>4
  <2> QED BY <2>2, <2>5
<1>6. lostLock' = lostLock
  BY DEF Insert, history
<1> QED BY <1>4, <1>5, <1>6 DEF QueueInv

LEMMA QueueChecked ==
    ASSUME Typed, QueueInv, NEW p \in Pods, ReadExisting(p)
    PROVE  QueueInv'
<1>1. job \in [Pods -> JobType]
  BY Types DEF Typed
<1>2. /\ job'[p] = [step |-> "checked",
                    convs |-> {c \in job[p].convs : ~ \E s \in Slots : Open(<<c, s>>)}]
      /\ \A q \in Pods \ {p} : job'[q] = job[q]
      /\ UNCHANGED <<item, lock, lostLock>>
      /\ job[p].step = "fetched"
  BY <1>1 DEF ReadExisting, jobOnly, history
<1>3. \A i \in Items : ConvOf(i) \in job'[p].convs => ~Open(i)
  <2> SUFFICES ASSUME NEW i \in Items, ConvOf(i) \in job'[p].convs PROVE ~Open(i)
    OBVIOUS
  <2>1. i = <<ConvOf(i), i[2]>> /\ i[2] \in Slots
    BY DEF Items, ConvOf
  <2> QED BY <1>2, <2>1
<1>4. FailedCounted' /\ (OneLeader => OneLeader') /\ (FreshOnce => FreshOnce')
  BY <1>2 DEF QueueInv, FailedCounted, OneLeader, FreshOnce, Fresh, Open
<1>5. CheckedUnqueued => CheckedUnqueued'
  BY <1>2, <1>3 DEF CheckedUnqueued, Fresh, Open
<1> QED BY <1>2, <1>4, <1>5 DEF QueueInv

LEMMA QueueStep == Typed /\ ClaimInv /\ QueueInv /\ [Next]_vars => QueueInv'
<1> SUFFICES ASSUME Typed, ClaimInv, QueueInv, [Next]_vars PROVE QueueInv'
  OBVIOUS
<1>0. /\ item \in [Items -> ItemType] /\ job \in [Pods -> JobType]
      /\ lock \in Pods \cup {NoPod} /\ NoPod \notin Pods
      /\ worker \in [Pods -> WorkerType] /\ WorkerInv
  BY Types, QueueAssumption DEF Typed
<1>1. CASE UNCHANGED <<item, lock, job, lostLock>>
  BY <1>1 DEF QueueInv, FailedCounted, OneLeader, CheckedUnqueued, FreshOnce, Fresh, Open
<1>2. ASSUME NEW p \in Pods, PopulateStep(p) \/ LoseLock(p) PROVE QueueInv'
  <2>1. CASE TryLead(p)
    <3>1. /\ lock = NoPod /\ lock' = p /\ UNCHANGED <<item, lostLock>>
          /\ job'[p].step = "leader" /\ \A q \in Pods \ {p} : job'[q] = job[q]
      BY <1>0, <2>1 DEF TryLead, jobOnly, history, JobType
    <3>2. OneLeader => OneLeader'
      BY <1>0, <3>1 DEF OneLeader
    <3>3. FailedCounted' /\ \A i \in Items : Fresh(i)' => Fresh(i)
      BY <3>1 DEF QueueInv, FailedCounted, Fresh, Open
    <3> QED BY <3>1, <3>2, <3>3, QueueQuiet DEF QueueInv
  <2>2. CASE Fetch(p)
    <3>1. UNCHANGED <<item, lostLock>>
      BY <2>2 DEF Fetch, jobOnly, history
    <3>2. FailedCounted' /\ \A i \in Items : Fresh(i)' => Fresh(i)
      BY <3>1 DEF QueueInv, FailedCounted, Fresh, Open
    <3>3. CASE LeaveLock(p)
      <4>1. \A q \in Pods : job'[q].step = "checked" => job'[q] = job[q]
        BY <1>0, <3>3 DEF LeaveLock, JobIdle
      <4>2. ~lostLock => OneLeader'
        BY <3>3, Leaving DEF QueueInv
      <4> QED BY <3>1, <3>2, <4>1, <4>2, QueueQuiet
    <3>4. CASE UNCHANGED lock /\ \E found \in SUBSET Convs :
                  job' = [job EXCEPT ![p] = [step |-> "fetched", convs |-> found]]
      <4>1. /\ job'[p].step = "fetched" /\ \A q \in Pods \ {p} : job'[q] = job[q]
            /\ job[p].step = "leader"
        BY <1>0, <2>2, <3>4 DEF Fetch
      <4>2. ~lostLock => OneLeader'
        BY <3>4, <4>1 DEF QueueInv, OneLeader
      <4> QED BY <3>1, <3>2, <4>1, <4>2, QueueQuiet
    <3> QED BY <2>2, <3>3, <3>4 DEF Fetch
  <2>3. CASE LoseLock(p)
    <3>1. lostLock' /\ item' = item
      BY <2>3 DEF LoseLock
    <3> QED BY <3>1 DEF QueueInv, FailedCounted
  <2> QED BY <1>2, <2>1, <2>2, <2>3, QueueInsert, QueueChecked DEF PopulateStep
<1>3. ASSUME NEW p \in Pods,
             FailedCounted', \A i \in Items : Fresh(i)' => Fresh(i), UNCHANGED <<lock, job, lostLock>>
      PROVE  QueueInv'
  <2>1. ~lostLock => OneLeader'
    BY <1>3 DEF QueueInv, OneLeader
  <2> QED BY <1>3, <2>1, QueueQuiet
<1>4. ASSUME NEW p \in Pods, WorkStep(p) \/ AnalysisFails(p) \/ MarkFailedRaises(p)
      PROVE  QueueInv'
  <2>1. UNCHANGED <<lock, job, lostLock>>
    BY <1>4 DEF WorkStep, ClaimSelect, ClaimCommit, ReadConversation, StampAnalysis, LookUp,
       Upsert, MarkCompleted, MarkFailed, AnalysisFails, MarkFailedRaises, workerOnly
  <2>2. CASE ClaimCommit(p)
    <3>1. \A i \in Items : \/ item'[i] = item[i]
                           \/ /\ i \in worker[p].batch /\ item'[i].status = "PROCESSING"
                              /\ item'[i].retries = item[i].retries
      BY <1>0, <2>2 DEF ClaimCommit, ItemType
    <3>2. \A i \in worker[p].batch : Claimable(i)
      BY <2>2 DEF ClaimCommit, ClaimInv, ClaimsClaimable
    <3>3. FailedCounted' /\ \A i \in Items : Fresh(i)' => Fresh(i)
      BY <3>1, <3>2 DEF QueueInv, FailedCounted, Fresh, Open, Claimable
    <3> QED BY <1>3, <2>1, <3>3
  <2>3. CASE MarkCompleted(p) \/ MarkFailed(p)
    <3>1. worker[p].current \in Items
      BY <1>0, <2>3 DEF MarkCompleted, MarkFailed, WorkerInv, HasItem, WorkerType
    <3>2. item[worker[p].current].retries \in Nat
      BY <1>0, <3>1 DEF ItemType
    <3>3. \A i \in Items : \/ item'[i] = item[i] \/ item'[i].status = "COMPLETED"
                           \/ item'[i].status = "FAILED" /\ item'[i].retries > 0
      BY <1>0, <2>3, <3>1, <3>2 DEF MarkCompleted, MarkFailed, ItemType
    <3>4. FailedCounted' /\ \A i \in Items : Fresh(i)' => Fresh(i)
      BY <3>3 DEF QueueInv, FailedCounted, Fresh, Open
    <3> QED BY <1>3, <2>1, <3>4
  <2> QED BY <1>1, <1>4, <2>1, <2>2, <2>3 DEF WorkStep, ClaimSelect, ReadConversation,
       StampAnalysis, LookUp, Upsert, AnalysisFails, MarkFailedRaises
<1>5. ASSUME NEW p \in Pods, Crash(p) PROVE QueueInv'
  <2>1. LeaveLock(p) /\ UNCHANGED <<item, lostLock>>
    BY <1>5 DEF Crash
  <2>2. FailedCounted' /\ \A i \in Items : Fresh(i)' => Fresh(i)
    BY <2>1 DEF QueueInv, FailedCounted, Fresh, Open
  <2>3. \A q \in Pods : job'[q].step = "checked" => job'[q] = job[q]
    BY <1>0, <2>1 DEF LeaveLock, JobIdle
  <2>4. ~lostLock => OneLeader'
    BY <2>1, Leaving DEF QueueInv
  <2> QED BY <2>1, <2>2, <2>3, <2>4, QueueQuiet
<1>6. ASSUME NEW c \in Convs, GrowsQuiet(c) \/ \E delta \in {-1, 0, 1} : Change(c, delta)
      PROVE  QueueInv'
  BY <1>1, <1>6 DEF GrowsQuiet, Change, history
<1>7. CASE UNCHANGED vars
  BY <1>1, <1>7 DEF vars, history
<1> QED BY <1>2, <1>4, <1>5, <1>6, <1>7 DEF Next

\* While no leader's lock connection breaks, the select and the separate
\* insert of add_conversations_to_queue never queue a conversation that is
\* queued already, for all the pods whose cron fires.
THEOREM QueuedOnceEver == Spec => []QueuedOnce
<1>1. Init => Typed /\ ClaimInv /\ QueueInv
  <2>1. Init => QueueInv
    BY DEF Init, QueueInv, FailedCounted, OneLeader, CheckedUnqueued, FreshOnce, Fresh, Open, JobIdle
  <2> QED BY <2>1, WorkersInit, ClaimInit
<1>2. Typed /\ ClaimInv /\ QueueInv /\ [Next]_vars => (Typed /\ ClaimInv /\ QueueInv)'
  BY TypedStep, ClaimStep, QueueStep
<1>3. QueueInv => QueuedOnce
  BY DEF QueueInv, FreshOnce, Fresh, QueuedOnce
<1> QED BY <1>1, <1>2, <1>3, PTL DEF Spec

=============================================================================
