------------------------- MODULE GenerationStreamProofs -------------------------
(***************************************************************************)
(* Proofs about GenerationStream: types, the order of both queues, and     *)
(* what a turn is stored as, for every number of threads, subscribers and  *)
(* chunks.                                                                 *)
(***************************************************************************)
EXTENDS GenerationStream, TLAPS

-----------------------------------------------------------------------------
(* Types *)

SendingTypes == [step : {"idle", "published", "queued"}, chunk : 0..MaxChunks]
SavedTypes == [status : {"none", "SUCCESS", "ERROR", "INTERRUPTED"}, chunks : Nat,
               thoughts : SUBSET (0..MaxChunks)]
ServerStates == {"new", "setupFailed", "leaving", "done"} \cup Serving \cup Draining
ReaderStates == {"idle", "found", "live", "check", "done", "left"}

\* TypeOK, but for the chunks that were stored and the thoughts that were merged, which need
\* the invariants below.
Typed ==
    /\ hist \in 0..MaxChunks /\ queue \in Seq(Items)
    /\ subscribers \subseteq Readers /\ subQueue \in [Readers -> Seq(Items)]
    /\ closed \in BOOLEAN /\ reason \in {"none", "aborted"}
    /\ closing \in Closers \cup {"none"}
    /\ sending \in [Senders -> SendingTypes]
    /\ thoughts \subseteq 0..MaxChunks
    /\ producer \in {"none", "submitted", "running", "failing", "closing", "done"}
    /\ raised \in BOOLEAN /\ failChunk \in 0..MaxChunks
    /\ server \in ServerStates
    /\ taken \in Seq(Chunks)
    /\ saved \in SavedTypes
    /\ timedOut \in BOOLEAN /\ registered \in BOOLEAN
    /\ aborter \in {"idle", "aborting", "done"}
    /\ reader \in [Readers -> ReaderStates]
    /\ got \in [Readers -> Seq(Chunks)]
    /\ poolFull \in BOOLEAN

LEMMA ItemsTyped ==
    /\ MaxChunks \in Nat \ {0}
    /\ \A n \in 0..MaxChunks : n \in Items /\ UpTo(n) \in Seq(Chunks) /\ Len(UpTo(n)) = n
    /\ <<StopIteration>> \in Seq(Items) /\ <<Raised, StopIteration>> \in Seq(Items)
    /\ ~IsChunk(StopIteration) /\ ~IsChunk(Raised) /\ StopIteration # Raised
<1>1. MaxChunks \in Nat \ {0}
  BY BoundsAssumption
<1>2. ASSUME NEW n \in 0..MaxChunks
      PROVE  n \in Items /\ UpTo(n) \in Seq(Chunks) /\ Len(UpTo(n)) = n
  <2>1. n \in Nat /\ \A i \in 1..n : i \in Chunks
    BY <1>1 DEF Chunks
  <2> QED BY <1>1, <2>1 DEF UpTo, Items, Chunks, StopIteration
<1>3. StopIteration \in Items /\ Raised \in Items
  BY DEF Items
<1> QED BY <1>1, <1>2, <1>3 DEF StopIteration, Raised, IsChunk, Chunks

LEMMA MulticastTyped ==
    ASSUME Typed, NEW items \in Seq(Items)
    PROVE  Multicast(items) \in [Readers -> Seq(Items)]
BY DEF Typed, Multicast

LEMMA TypedInit == Init => Typed
<1> SUFFICES ASSUME Init PROVE Typed
  OBVIOUS
<1>1. sending \in [Senders -> SendingTypes] /\ saved \in SavedTypes
  BY ItemsTyped DEF Init, SendingTypes, SavedTypes, NotSaved
<1>2. queue \in Seq(Items) /\ subQueue \in [Readers -> Seq(Items)]
  BY DEF Init
<1>3. taken \in Seq(Chunks) /\ got \in [Readers -> Seq(Chunks)]
  BY DEF Init
<1>4. reader \in [Readers -> ReaderStates] /\ server \in ServerStates
  BY DEF Init, ReaderStates, ServerStates
<1>5. 0 \in 0..MaxChunks
  BY ItemsTyped
<1> QED BY <1>1, <1>2, <1>3, <1>4, <1>5 DEF Init, Typed

\* The steps of the sending threads, of close(), of the agent run, of the response body and
\* its drainer, of the abort endpoint and the pool, and of a subscriber.
SenderStep(s) == Publish(s) \/ ReportFailure(s) \/ Enqueue(s) \/ ProcessThought(s)
CloserStep == (\E who \in Closers : Close(who)) \/ CloseEnds
RunStep == ProducerStarts \/ RunReturns \/ RunRaises \/ RunFailed \/ ProducerDone
ServerStep == SetupFails \/ ServeStart \/ Serves
AbortStep == AbortStart \/ AbortEnd \/ PoolChanges
ReaderStep(r) == FindGenerator(r) \/ Subscribe(r) \/ ReaderLeaves(r) \/ Reads(r)

LEMMA StepKinds ==
    ASSUME Next
    PROVE  \/ \E s \in Senders : SenderStep(s)
           \/ CloserStep \/ RunStep \/ ServerStep \/ AbortStep
           \/ \E r \in Readers : ReaderStep(r)
BY DEF Next, SenderStep, CloserStep, RunStep, ServerStep, AbortStep, ReaderStep, Serves, Reads

LEMMA SendTyped ==
    ASSUME Typed, NEW s \in Senders, Send(s)
    PROVE  /\ hist \in 0..(MaxChunks - 1) /\ hist' = hist + 1 /\ hist' \in 0..MaxChunks
           /\ subQueue' \in [Readers -> Seq(Items)]
           /\ sending' \in [Senders -> SendingTypes]
<1>1. hist' \in 0..MaxChunks /\ hist' = hist + 1 /\ hist \in 0..(MaxChunks - 1)
  BY ItemsTyped DEF Send, Typed
<1>2. <<hist + 1>> \in Seq(Items)
  BY <1>1, ItemsTyped
<1>3. subQueue' \in [Readers -> Seq(Items)]
  BY <1>2, MulticastTyped DEF Send
<1>4. sending' \in [Senders -> SendingTypes]
  BY <1>1 DEF Send, Typed, SendingTypes
<1> QED BY <1>1, <1>3, <1>4

LEMMA TypedSender ==
    ASSUME Typed, NEW s \in Senders, SenderStep(s)
    PROVE  Typed'
<1>1. CASE Publish(s)
  BY <1>1, SendTyped DEF Publish, Send, Typed, serveVars, readVars
<1>2. CASE ReportFailure(s)
  BY <1>2, SendTyped DEF ReportFailure, Send, Typed, serveVars, readVars
<1>3. sending[s] \in SendingTypes
  BY DEF Typed
<1>4. CASE Enqueue(s)
  <2>1. sending[s].chunk \in Items
    BY <1>3, ItemsTyped DEF SendingTypes
  <2>2. queue' \in Seq(Items)
    BY <1>4, <2>1 DEF Enqueue, Typed
  <2>3. sending' \in [Senders -> SendingTypes]
    BY <1>3, <1>4 DEF Enqueue, Typed, SendingTypes
  <2> QED BY <1>4, <2>2, <2>3 DEF Enqueue, Typed, serveVars, readVars
<1>5. CASE ProcessThought(s)
  <2>1. sending' \in [Senders -> SendingTypes]
    BY <1>5, ItemsTyped DEF ProcessThought, Typed, SendingTypes
  <2>2. thoughts' \subseteq 0..MaxChunks
    BY <1>3, <1>5 DEF ProcessThought, Typed, SendingTypes
  <2> QED BY <1>5, <2>1, <2>2 DEF ProcessThought, Typed, genVars, serveVars, readVars
<1> QED BY <1>1, <1>2, <1>4, <1>5 DEF SenderStep

LEMMA TypedCloser == ASSUME Typed, CloserStep PROVE Typed'
<1>1. ASSUME NEW who \in Closers, Close(who) PROVE Typed'
  BY <1>1 DEF Close, Typed, runVars, serveVars, readVars
<1>2. CASE CloseEnds
  <2>1. PICK marks \in Seq(Items) : subQueue' = Multicast(marks) /\ queue' = queue \o marks
    BY <1>2, ItemsTyped DEF CloseEnds
  <2>2. queue' \in Seq(Items) /\ subQueue' \in [Readers -> Seq(Items)]
    BY <2>1, MulticastTyped DEF Typed
  <2> QED BY <1>2, <2>2 DEF CloseEnds, Typed, runVars, serveVars, readVars
<1> QED BY <1>1, <1>2 DEF CloserStep

LEMMA TypedRun == ASSUME Typed, RunStep PROVE Typed'
<1>1. \A from, to : Produce(from, to) /\ raised' \in BOOLEAN
                    /\ to \in {"running", "closing", "done"} => Typed'
  BY DEF Produce, Typed, genVars, serveVars, readVars
<1> QED BY <1>1 DEF RunStep, ProducerStarts, RunReturns, RunRaises, RunFailed, ProducerDone, Typed

\* A step of the server takes a chunk, or a mark, or nothing from the queue; it stores the
\* turn only when it ends.
Keeps == UNCHANGED <<hist, subscribers, subQueue, closed, reason, closing, sending, thoughts,
                     raised, failChunk, aborter, readVars, poolFull>>
TakesChunk == /\ queue # <<>> /\ IsChunk(Head(queue))
              /\ queue' = Tail(queue) /\ taken' = Append(taken, Head(queue))
TakesMark(mark) == /\ queue # <<>> /\ Head(queue) = mark
                   /\ queue' = Tail(queue) /\ taken' = taken
TakesNothing == queue' = queue /\ taken' = taken

LEMMA ServerKinds ==
    ASSUME ServerStep
    PROVE  /\ Keeps
           /\ TakesChunk \/ TakesNothing \/ \E mark \in {Raised, StopIteration} : TakesMark(mark)
           /\ timedOut' \in {timedOut, TRUE}
           /\ registered' \in {registered, FALSE}
           /\ producer' \in {producer, "submitted"} /\ (producer' # producer => server = "new")
           /\ \/ saved' = saved
              \/ \E status \in {"SUCCESS", "ERROR", "INTERRUPTED"} : SaveAs(status)
           /\ server' \in ServerStates
<1> USE DEF Serve, Keeps, TakesNothing, TakesMark, TakesChunk, ServerStates, Serving, Draining
<1>1. CASE SetupFails \/ ServeStart \/ Unregister \/ SetupFailed
  BY <1>1 DEF SetupFails, ServeStart, Unregister, SetupFailed, Unsaved, StaysRegistered
<1>2. CASE ServeChunk \/ DrainChunk
  BY <1>2 DEF ServeChunk, DrainChunk, TakeChunk, Unsaved, StaysRegistered
<1>3. CASE ServeError \/ DrainError
  BY <1>3 DEF ServeError, DrainError, TakeSentinel, StaysRegistered
<1>4. CASE ServeEnd
  BY <1>4 DEF ServeEnd, TakeSentinel, StaysRegistered, ServedStatus
<1>5. CASE DrainEnd
  BY <1>5 DEF DrainEnd, TakeSentinel, StaysRegistered, DrainedStatus
<1>6. CASE ServeTimeout \/ DrainTimeout
  BY <1>6 DEF ServeTimeout, DrainTimeout, QueueEmpty, Unsaved, StaysRegistered
<1>7. CASE ServeTimedOut \/ ClientTakes \/ ClientTakesTimeout \/ DrainStart \/ DrainTimedOut
  BY <1>7 DEF ServeTimedOut, ClientTakes, ClientTakesTimeout, DrainStart, DrainTimedOut
<1>8. CASE ClientLeaves
  BY <1>8 DEF ClientLeaves, HandOff, Unsaved, StaysRegistered
<1> QED BY <1>1, <1>2, <1>3, <1>4, <1>5, <1>6, <1>7, <1>8 DEF ServerStep, Serves

LEMMA TypedServer == ASSUME Typed, ServerStep PROVE Typed'
<1>1. queue' \in Seq(Items) /\ taken' \in Seq(Chunks)
  <2>1. CASE TakesChunk
    BY <2>1 DEF TakesChunk, Typed, IsChunk
  <2>2. CASE TakesNothing
    BY <2>2 DEF TakesNothing, Typed
  <2>3. ASSUME NEW mark, TakesMark(mark)
        PROVE  queue' \in Seq(Items) /\ taken' \in Seq(Chunks)
    BY <2>3 DEF TakesMark, Typed
  <2> QED BY <2>1, <2>2, <2>3, ServerKinds
<1>2. saved' \in SavedTypes
  <2>1. ASSUME NEW status \in {"SUCCESS", "ERROR", "INTERRUPTED"}, SaveAs(status)
        PROVE  saved' \in SavedTypes
    BY <2>1 DEF SaveAs, SavedTypes, Typed
  <2> QED BY <2>1, ServerKinds DEF Typed
<1>3. /\ hist' \in 0..MaxChunks /\ subscribers' \subseteq Readers
      /\ subQueue' \in [Readers -> Seq(Items)] /\ sending' \in [Senders -> SendingTypes]
      /\ thoughts' \subseteq 0..MaxChunks /\ failChunk' \in 0..MaxChunks
      /\ reader' \in [Readers -> ReaderStates] /\ got' \in [Readers -> Seq(Chunks)]
  BY ServerKinds DEF Keeps, Typed, readVars
<1>4. /\ closed' \in BOOLEAN /\ raised' \in BOOLEAN /\ poolFull' \in BOOLEAN
      /\ reason' \in {"none", "aborted"} /\ closing' \in Closers \cup {"none"}
      /\ aborter' \in {"idle", "aborting", "done"}
  BY ServerKinds DEF Keeps, Typed
<1> QED BY <1>1, <1>2, <1>3, <1>4, ServerKinds DEF Typed

LEMMA TypedAbort == ASSUME Typed, AbortStep PROVE Typed'
<1>1. CASE PoolChanges
  <2>1. poolFull' \in BOOLEAN
    BY <1>1, Zenon DEF PoolChanges
  <2>2. UNCHANGED <<genVars, runVars, serveVars, registered, aborter, readVars>>
    BY <1>1 DEF PoolChanges
  <2> HIDE <1>1
  <2> QED BY <2>1, <2>2 DEF Typed, genVars, runVars, serveVars, readVars
<1>2. CASE AbortStart \/ AbortEnd
  BY <1>2 DEF AbortStart, AbortEnd, Aborting, Typed, genVars, runVars, serveVars, readVars
<1> QED BY <1>1, <1>2 DEF AbortStep

LEMMA TypedReader ==
    ASSUME Typed, NEW r \in Readers, ReaderStep(r)
    PROVE  Typed'
<1>1. reader' \in [Readers -> ReaderStates]
  BY DEF ReaderStep, Reads, FindGenerator, Subscribe, ReaderLeaves, ReadChunk, ReadEnd,
         ReadTimeout, ReadOn, ReadGivesUp, Read, Typed, ReaderStates
<1>2. UNCHANGED <<hist, queue, closed, reason, closing, runVars, serveVars, registered, aborter,
                  poolFull>>
  BY DEF ReaderStep, Reads, FindGenerator, Subscribe, ReaderLeaves, ReadChunk, ReadEnd,
         ReadTimeout, ReadOn, ReadGivesUp, Read
<1>3. /\ subscribers' \subseteq Readers
      /\ subQueue' \in [Readers -> Seq(Items)] /\ got' \in [Readers -> Seq(Chunks)]
  <2>1. CASE Subscribe(r)
    BY <2>1, ItemsTyped DEF Subscribe, SnapshotHistory, Typed
  <2>2. CASE ReadChunk(r)
    BY <2>2 DEF ReadChunk, Typed, IsChunk
  <2>3. CASE FindGenerator(r) \/ ReadTimeout(r) \/ ReadOn(r)
    BY <2>3 DEF FindGenerator, ReadTimeout, ReadOn, Stays, Typed
  <2>4. CASE ReaderLeaves(r) \/ ReadEnd(r) \/ ReadGivesUp(r)
    BY <2>4 DEF ReaderLeaves, ReadEnd, ReadGivesUp, Unsubscribes, Typed
  <2> QED BY <2>1, <2>2, <2>3, <2>4 DEF ReaderStep, Reads
<1> QED BY <1>1, <1>2, <1>3 DEF Typed, runVars, serveVars

LEMMA TypedStep == Typed /\ [Next]_vars => Typed'
<1>1. ASSUME Typed, UNCHANGED vars PROVE Typed'
  BY <1>1 DEF vars, genVars, runVars, serveVars, readVars, Typed
<1> QED BY <1>1, StepKinds, TypedSender, TypedCloser, TypedRun, TypedServer, TypedAbort, TypedReader

-----------------------------------------------------------------------------
(* Queues that hold a run of chunks and then marks *)

LEMMA HoldsEmpty == \A n \in Nat : Holds(<<>>, n, n)
BY DEF Holds

\* The first item is the next chunk, and without it the queue holds the rest.
LEMMA HoldsTail ==
    ASSUME NEW q \in Seq(Items), NEW n \in Nat, NEW m \in Int, Holds(q, n, m),
           q # <<>>, IsChunk(Head(q))
    PROVE  Head(q) = n + 1 /\ Holds(Tail(q), n + 1, m)
<1>1. Len(q) \in Nat \ {0} /\ Head(q) = q[1]
  OBVIOUS
<1>2. m - n >= 1
  BY <1>1 DEF Holds
<1>3. Len(Tail(q)) = Len(q) - 1 /\ \A i \in 1..Len(Tail(q)) : Tail(q)[i] = q[i + 1]
  BY <1>1
<1>4. m - (n + 1) \in 0..Len(Tail(q))
  BY <1>1, <1>2, <1>3 DEF Holds
<1>5. ASSUME NEW i \in 1..(m - (n + 1)) PROVE Tail(q)[i] = (n + 1) + i
  <2>1. i + 1 \in 1..(m - n) /\ i \in 1..Len(Tail(q))
    BY <1>4
  <2> QED BY <1>3, <2>1 DEF Holds
<1>6. ASSUME NEW i \in (m - (n + 1) + 1)..Len(Tail(q)) PROVE ~IsChunk(Tail(q)[i])
  <2>1. i + 1 \in (m - n + 1)..Len(q) /\ i \in 1..Len(Tail(q))
    BY <1>2, <1>3
  <2> QED BY <1>3, <2>1 DEF Holds
<1> QED BY <1>1, <1>2, <1>4, <1>5, <1>6 DEF Holds

\* Once a mark comes first no chunk is left.
LEMMA HoldsMark ==
    ASSUME NEW q \in Seq(Items), NEW n \in 0..MaxChunks, NEW m \in 0..MaxChunks, Holds(q, n, m),
           q # <<>>, ~IsChunk(Head(q))
    PROVE  m = n /\ Holds(Tail(q), n, m)
<1>1. Len(q) \in Nat \ {0} /\ Head(q) = q[1] /\ MaxChunks \in Nat
  BY ItemsTyped
<1>2. m = n
  <2> SUFFICES ASSUME m - n >= 1 PROVE FALSE
    BY <1>1 DEF Holds
  <2>1. q[1] = n + 1
    BY <1>1 DEF Holds
  <2> QED BY <1>1, <2>1 DEF IsChunk, Chunks
<1>3. Len(Tail(q)) = Len(q) - 1 /\ \A i \in 1..Len(Tail(q)) : Tail(q)[i] = q[i + 1]
  BY <1>1
<1> QED BY <1>1, <1>2, <1>3 DEF Holds

\* A queue without marks takes the next chunk, or the marks.
OnlyChunks(q) == \A i \in 1..Len(q) : IsChunk(q[i])
LEMMA HoldsAll ==
    ASSUME NEW q \in Seq(Items), NEW n \in Nat, NEW m \in Int, Holds(q, n, m), OnlyChunks(q)
    PROVE  m - n = Len(q)
BY DEF Holds, OnlyChunks

LEMMA HoldsNext ==
    ASSUME NEW q \in Seq(Items), NEW n \in Nat, NEW m \in Int, Holds(q, n, m), OnlyChunks(q),
           m + 1 \in Chunks
    PROVE  /\ Holds(q \o <<m + 1>>, n, m + 1) /\ OnlyChunks(q \o <<m + 1>>)
           /\ Append(q, m + 1) = q \o <<m + 1>>
<1> DEFINE p == q \o <<m + 1>>
<1>1. m - n = Len(q)
  BY HoldsAll
<1>2. /\ Len(p) = Len(q) + 1 /\ p[Len(q) + 1] = m + 1
      /\ \A i \in 1..Len(q) : p[i] = q[i]
  OBVIOUS
<1>3. \A i \in 1..Len(q) : q[i] = n + i
  BY <1>1 DEF Holds
<1>4. Len(q) \in Nat /\ Append(q, m + 1) = p
  OBVIOUS
<1> HIDE DEF p
<1>5. Holds(p, n, m + 1)
  BY <1>1, <1>2, <1>3, <1>4 DEF Holds
<1>6. OnlyChunks(p)
  BY <1>2, <1>4 DEF OnlyChunks, IsChunk
<1> QED BY <1>4, <1>5, <1>6 DEF p

LEMMA HoldsMarks ==
    ASSUME NEW q \in Seq(Items), NEW n \in Nat, NEW m \in Int, Holds(q, n, m),
           NEW marks \in Seq(Items), \A i \in 1..Len(marks) : ~IsChunk(marks[i])
    PROVE  Holds(q \o marks, n, m)
<1> DEFINE p == q \o marks
<1>1. /\ Len(p) = Len(q) + Len(marks) /\ Len(q) \in Nat /\ Len(marks) \in Nat
      /\ \A i \in 1..Len(q) : p[i] = q[i]
      /\ \A i \in (Len(q) + 1)..Len(p) : p[i] = marks[i - Len(q)]
  OBVIOUS
<1> HIDE DEF p
<1>2. \A i \in (Len(q) + 1)..Len(p) : ~IsChunk(p[i])
  <2> SUFFICES ASSUME NEW i \in (Len(q) + 1)..Len(p) PROVE ~IsChunk(p[i])
    OBVIOUS
  <2>1. i - Len(q) \in 1..Len(marks)
    BY <1>1
  <2> QED BY <1>1, <2>1
<1>3. Holds(p, n, m)
  BY <1>1, <1>2 DEF Holds
<1> QED BY <1>3 DEF p

\* The marks that close() puts at the end.
LEMMA CloseMarks ==
    ASSUME NEW marks \in {<<StopIteration>>, <<Raised, StopIteration>>}
    PROVE  /\ marks \in Seq(Items) /\ Len(marks) \in {1, 2}
           /\ \A i \in 1..Len(marks) : ~IsChunk(marks[i])
           /\ Len(marks) = 2 => marks[1] # StopIteration
<1>1. CASE marks = <<StopIteration>>
  <2>1. Len(marks) = 1 /\ marks[1] = StopIteration
    BY <1>1
  <2> QED BY <1>1, <2>1, ItemsTyped
<1>2. CASE marks = <<Raised, StopIteration>>
  <2>1. Len(marks) = 2 /\ marks[1] = Raised /\ marks[2] = StopIteration
    BY <1>2
  <2> QED BY <1>2, <2>1, ItemsTyped
<1> QED BY <1>1, <1>2

LEMMA TailOnlyChunks ==
    ASSUME NEW q \in Seq(Items), q # <<>>, OnlyChunks(q)
    PROVE  OnlyChunks(Tail(q))
<1>1. /\ Len(q) \in Nat \ {0} /\ Len(Tail(q)) = Len(q) - 1
      /\ \A i \in 1..Len(Tail(q)) : Tail(q)[i] = q[i + 1]
  OBVIOUS
<1> QED BY <1>1 DEF OnlyChunks

\* The chunks taken so far, and the next one.
LEMMA UpToNext ==
    ASSUME NEW n \in Nat
    PROVE  Append(UpTo(n), n + 1) = UpTo(n + 1) /\ Len(UpTo(n)) = n /\ UpTo(0) = <<>>
BY DEF UpTo

-----------------------------------------------------------------------------
(* The close lock *)

\* One thread at a time is between publishing a chunk and enqueueing it, and none once the
\* generator is closed; the chunks on their way and the merged ones are the published ones.
InSend(s) == sending[s].step # "idle"
Locked ==
    /\ \A s, t \in Senders :
        sending[s].step = "published" /\ sending[t].step = "published" => s = t
    /\ \A s \in Senders : InSend(s) => sending[s].chunk \in 1..hist
    /\ \A s \in Senders : sending[s].step = "published" => sending[s].chunk = hist
    /\ closing # "none" => closed
    /\ closed => NoneSending
Merged == thoughts \cup {sending[s].chunk : s \in {t \in Senders : InSend(t)}} = 1..hist

LEMMA SendingOfSend ==
    ASSUME Typed, NEW s \in Senders, Send(s)
    PROVE  /\ sending'[s].step = "published" /\ sending'[s].chunk = hist'
           /\ \A t \in Senders \ {s} : sending'[t] = sending[t]
           /\ sending[s].step = "idle"
           /\ ~closed /\ closed' = closed /\ closing' = "none" /\ closing = "none" /\ NoneSending
           /\ thoughts' = thoughts
BY DEF Send, Typed, CloseLockFree

LEMMA LockedStep == Typed /\ Locked /\ [Next]_vars => Locked'
<1> SUFFICES ASSUME Typed, Locked, [Next]_vars PROVE Locked'
  OBVIOUS
<1>0. hist \in Nat /\ \A s \in Senders : sending[s] \in SendingTypes
  BY ItemsTyped DEF Typed
<1>1. ASSUME UNCHANGED <<hist, sending, closed, closing>> PROVE Locked'
  BY <1>1 DEF Locked, InSend, NoneSending
<1>2. ASSUME NEW s \in Senders, Send(s) PROVE Locked'
  BY <1>0, <1>2, SendingOfSend, SendTyped DEF Locked, InSend, NoneSending
<1>3. ASSUME NEW s \in Senders, Enqueue(s) PROVE Locked'
  <2>1. /\ sending'[s].step = "queued" /\ sending'[s].chunk = sending[s].chunk
        /\ \A t \in Senders \ {s} : sending'[t] = sending[t]
        /\ sending[s].step = "published" /\ UNCHANGED <<hist, closed, closing>>
    BY <1>0, <1>3 DEF Enqueue, Typed, SendingTypes
  <2> QED BY <2>1 DEF Locked, InSend, NoneSending
<1>4. ASSUME NEW s \in Senders, ProcessThought(s) PROVE Locked'
  <2>1. /\ sending'[s].step = "idle"
        /\ \A t \in Senders \ {s} : sending'[t] = sending[t]
        /\ UNCHANGED <<hist, closed, closing>>
    BY <1>4 DEF ProcessThought, Typed, genVars
  <2> QED BY <2>1 DEF Locked, InSend, NoneSending
<1>5. CASE CloserStep
  BY <1>5 DEF CloserStep, Close, CloseEnds, CloseLockFree, runVars, Locked, InSend, NoneSending
<1>6. CASE RunStep
  BY <1>1, <1>6 DEF RunStep, ProducerStarts, RunReturns, RunRaises, RunFailed, ProducerDone,
                    Produce, genVars
<1>7. CASE ServerStep
  BY <1>1, <1>7, ServerKinds DEF Keeps
<1>8. CASE AbortStep
  BY <1>1, <1>8 DEF AbortStep, AbortStart, AbortEnd, Aborting, PoolChanges, genVars, runVars
<1>9. CASE \E r \in Readers : ReaderStep(r)
  BY <1>1, <1>9 DEF ReaderStep, Reads, FindGenerator, Subscribe, ReaderLeaves, ReadChunk,
                    ReadEnd, ReadTimeout, ReadOn, ReadGivesUp, Read, runVars
<1>10. CASE UNCHANGED vars
  BY <1>1, <1>10 DEF vars, genVars, runVars
<1> QED BY <1>2, <1>3, <1>4, <1>5, <1>6, <1>7, <1>8, <1>9, <1>10, StepKinds
           DEF SenderStep, Publish, ReportFailure

\* What the steps other than those of the senders, close() and the server leave alone.
LEMMA OthersKeep ==
    ASSUME RunStep \/ AbortStep \/ (\E r \in Readers : ReaderStep(r)) \/ UNCHANGED vars
    PROVE  UNCHANGED <<hist, queue, closed, reason, closing, sending, thoughts, failChunk, server,
                       taken, saved, timedOut>>
<1>1. CASE RunStep
  BY <1>1 DEF RunStep, ProducerStarts, RunReturns, RunRaises, RunFailed, ProducerDone, Produce,
              genVars, serveVars
<1>2. CASE AbortStep
  BY <1>2 DEF AbortStep, AbortStart, AbortEnd, Aborting, PoolChanges, genVars, runVars, serveVars
<1>3. CASE \E r \in Readers : ReaderStep(r)
  BY <1>3 DEF ReaderStep, Reads, FindGenerator, Subscribe, ReaderLeaves, ReadChunk, ReadEnd,
              ReadTimeout, ReadOn, ReadGivesUp, Read, runVars, serveVars
<1>4. CASE UNCHANGED vars
  BY <1>4 DEF vars, genVars, runVars, serveVars
<1> QED BY <1>1, <1>2, <1>3, <1>4

-----------------------------------------------------------------------------
(* The main queue *)

Sent == IF NoneSending THEN hist ELSE hist - 1
\* The marks come with the end of close().
MarksAtEnd == ~closed \/ closing # "none" => OnlyChunks(queue)

LEMMA SentTyped == Typed /\ Locked => Sent \in 0..MaxChunks
<1> SUFFICES ASSUME Typed, Locked PROVE Sent \in 0..MaxChunks
  OBVIOUS
<1>1. hist \in Nat /\ MaxChunks \in Nat /\ hist <= MaxChunks
  BY ItemsTyped DEF Typed
<1>2. ~NoneSending => hist >= 1
  BY <1>1 DEF NoneSending, Locked, InSend
<1> QED BY <1>1, <1>2 DEF Sent

LEMMA OrderSender ==
    ASSUME Typed, Locked, QueueInOrder, MarksAtEnd, NEW s \in Senders, SenderStep(s)
    PROVE  QueueInOrder' /\ MarksAtEnd'
<1>0. hist \in Nat /\ MaxChunks \in Nat /\ sending[s] \in SendingTypes
      /\ queue \in Seq(Items) /\ Len(taken) \in Nat
  BY ItemsTyped DEF Typed
<1>1. ASSUME UNCHANGED <<queue, taken, closed, closing>>, Sent' = Sent
      PROVE  QueueInOrder' /\ MarksAtEnd'
  BY <1>1 DEF QueueInOrder, MarksAtEnd, Sent, Holds, OnlyChunks
<1>2. CASE Publish(s) \/ ReportFailure(s)
  <2>1. Send(s)
    BY <1>2 DEF Publish, ReportFailure
  <2>2. hist' = hist + 1 /\ NoneSending /\ ~NoneSending'
    BY <2>1, SendTyped, SendingOfSend DEF NoneSending
  <2>3. Sent' = Sent
    BY <1>0, <2>2 DEF Sent
  <2> QED BY <1>1, <2>1, <2>3 DEF Send, serveVars
<1>3. CASE Enqueue(s)
  <2>1. /\ sending[s].step = "published" /\ queue' = Append(queue, sending[s].chunk)
        /\ UNCHANGED <<hist, taken, closed, closing>>
    BY <1>3 DEF Enqueue, serveVars
  <2>2. ~NoneSending /\ ~closed /\ sending[s].chunk = hist /\ hist >= 1
    BY <1>0, <2>1 DEF NoneSending, Locked, InSend
  <2>3. NoneSending'
    BY <1>0, <1>3, <2>1 DEF Enqueue, NoneSending, Locked, Typed, SendingTypes
  <2>4. OnlyChunks(queue) /\ Holds(queue, Len(taken), hist - 1) /\ (hist - 1) + 1 \in Chunks
    BY <1>0, <2>2 DEF MarksAtEnd, QueueInOrder, Chunks, Typed
  <2>5. Holds(queue', Len(taken), hist) /\ OnlyChunks(queue')
    <3>1. PICK m \in Int : m = hist - 1
      BY <1>0
    <3>2. Holds(queue, Len(taken), m) /\ m + 1 \in Chunks /\ m + 1 = hist
      BY <1>0, <2>4, <3>1
    <3>3. /\ Holds(queue \o <<m + 1>>, Len(taken), m + 1) /\ OnlyChunks(queue \o <<m + 1>>)
          /\ Append(queue, m + 1) = queue \o <<m + 1>>
      BY <1>0, <2>4, <3>2, HoldsNext
    <3> QED BY <2>1, <2>2, <3>2, <3>3
  <2>6. \A i \in 1..Len(queue') : queue'[i] # StopIteration
    BY <2>5, ItemsTyped DEF OnlyChunks
  <2>7. Len(queue') \in Nat
    BY <1>0, <2>1
  <2> QED BY <1>0, <2>1, <2>3, <2>5, <2>6, <2>7 DEF QueueInOrder, MarksAtEnd
<1>4. CASE ProcessThought(s)
  <2>1. UNCHANGED <<hist, queue, taken, closed, closing>>
    BY <1>4 DEF ProcessThought, genVars, serveVars
  <2>2. NoneSending' <=> NoneSending
    BY <1>4 DEF ProcessThought, NoneSending, Typed
  <2> QED BY <1>1, <2>1, <2>2 DEF Sent
<1> QED BY <1>2, <1>3, <1>4 DEF SenderStep

LEMMA OrderCloser ==
    ASSUME Typed, Locked, QueueInOrder, MarksAtEnd, CloserStep
    PROVE  QueueInOrder' /\ MarksAtEnd'
<1>1. ASSUME NEW who \in Closers, Close(who)
      PROVE  QueueInOrder' /\ MarksAtEnd'
  BY <1>1 DEF Close, Closers, runVars, serveVars, QueueInOrder, MarksAtEnd, Holds, NoneSending,
              OnlyChunks, CloseLockFree
<1>2. CASE CloseEnds
  <2>1. PICK marks \in {<<StopIteration>>, <<Raised, StopIteration>>} : queue' = queue \o marks
    BY <1>2 DEF CloseEnds
  <2>2. /\ UNCHANGED <<hist, taken, sending, closed>> /\ closing # "none" /\ closing' = "none"
    BY <1>2 DEF CloseEnds, runVars, serveVars
  <2>3. OnlyChunks(queue) /\ closed'
    BY <2>2 DEF MarksAtEnd, Locked
  <2>4. /\ marks \in Seq(Items) /\ Len(marks) \in {1, 2}
        /\ \A i \in 1..Len(marks) : ~IsChunk(marks[i])
        /\ Len(marks) = 2 => marks[1] # StopIteration
    BY <2>1, CloseMarks
  <2>5. queue \in Seq(Items) /\ Len(queue) \in Nat /\ Len(taken) \in Nat /\ Sent \in Int
    BY SentTyped DEF Typed
  <2>6. Holds(queue \o marks, Len(taken), Sent)
    BY <2>4, <2>5, HoldsMarks DEF QueueInOrder, Sent
  <2>7. \A i \in 1..Len(queue') - 1 : queue'[i] # StopIteration
    <3> SUFFICES ASSUME NEW i \in 1..Len(queue') - 1 PROVE queue'[i] # StopIteration
      OBVIOUS
    <3>1. CASE i <= Len(queue)
      BY <2>1, <2>3, <2>4, <2>5, <3>1, ItemsTyped DEF OnlyChunks
    <3>2. CASE i > Len(queue)
      <4>1. Len(queue') = Len(queue) + Len(marks) /\ queue'[i] = marks[i - Len(queue)]
        BY <2>1, <2>4, <2>5, <3>2
      <4>2. Len(marks) = 2 /\ i - Len(queue) = 1
        BY <2>4, <2>5, <3>2, <4>1
      <4> QED BY <2>4, <4>1, <4>2
    <3> QED BY <2>1, <2>4, <2>5, <3>1, <3>2
  <2> QED BY <2>1, <2>2, <2>3, <2>6, <2>7 DEF QueueInOrder, MarksAtEnd, Sent, NoneSending
<1> QED BY <1>1, <1>2 DEF CloserStep

LEMMA OrderServer ==
    ASSUME Typed, Locked, QueueInOrder, MarksAtEnd, ServerStep
    PROVE  QueueInOrder' /\ MarksAtEnd'
<1>1. Keeps /\ (NoneSending' <=> NoneSending) /\ Sent' = Sent
  BY ServerKinds DEF Keeps, Sent, NoneSending
<1>2. Sent \in 0..MaxChunks /\ MaxChunks \in Nat /\ queue \in Seq(Items) /\ Len(taken) \in Nat
      /\ Holds(queue, Len(taken), Sent) /\ taken = UpTo(Len(taken))
  BY SentTyped, ItemsTyped DEF Typed, QueueInOrder, Sent
<1>3. ASSUME queue # <<>>, queue' = Tail(queue)
      PROVE  /\ \A i \in 1..Len(queue') - 1 : queue'[i] # StopIteration
             /\ MarksAtEnd'
  <2>1. Len(queue) \in Nat \ {0}
    BY <1>2, <1>3
  <2>2. Len(queue') = Len(queue) - 1 /\ \A i \in 1..Len(queue') : queue'[i] = queue[i + 1]
    BY <1>2, <1>3, <2>1
  <2> QED BY <1>1, <2>1, <2>2 DEF QueueInOrder, MarksAtEnd, OnlyChunks, Keeps
<1>4. CASE TakesChunk
  <2>1. Head(queue) = Len(taken) + 1 /\ Holds(queue', Len(taken) + 1, Sent)
    BY <1>2, <1>4, HoldsTail DEF TakesChunk
  <2>2. taken' = UpTo(Len(taken) + 1) /\ Len(taken') = Len(taken) + 1
    <3>1. PICK n \in Nat : n = Len(taken) /\ taken = UpTo(n)
      BY <1>2
    <3>2. taken' = Append(UpTo(n), n + 1)
      BY <1>4, <2>1, <3>1 DEF TakesChunk
    <3>3. n + 1 \in Nat
      OBVIOUS
    <3>4. Append(UpTo(n), n + 1) = UpTo(n + 1) /\ Len(UpTo(n + 1)) = n + 1
      BY <3>3, UpToNext
    <3> QED BY <3>1, <3>2, <3>4
  <2> QED BY <1>1, <1>3, <1>4, <2>1, <2>2 DEF TakesChunk, QueueInOrder, Sent
<1>5. ASSUME NEW mark \in {Raised, StopIteration}, TakesMark(mark)
      PROVE  QueueInOrder' /\ MarksAtEnd'
  <2>1. Len(taken) \in 0..MaxChunks
    BY <1>2 DEF Holds
  <2>2. Holds(queue', Len(taken), Sent)
    BY <1>2, <1>5, <2>1, ItemsTyped, HoldsMark DEF TakesMark
  <2> QED BY <1>1, <1>2, <1>3, <1>5, <2>2 DEF TakesMark, QueueInOrder, Sent
<1>6. CASE TakesNothing
  BY <1>1, <1>6 DEF TakesNothing, QueueInOrder, MarksAtEnd, OnlyChunks, Keeps, Sent, Holds
<1> QED BY <1>4, <1>5, <1>6, ServerKinds

LEMMA OrderStep ==
    Typed /\ Locked /\ QueueInOrder /\ MarksAtEnd /\ [Next]_vars => QueueInOrder' /\ MarksAtEnd'
<1>1. ASSUME QueueInOrder, MarksAtEnd,
             UNCHANGED <<hist, queue, taken, closed, closing, sending>>
      PROVE  QueueInOrder' /\ MarksAtEnd'
  BY <1>1 DEF QueueInOrder, MarksAtEnd, Holds, OnlyChunks, NoneSending
<1> QED BY <1>1, OthersKeep, StepKinds, OrderSender, OrderCloser, OrderServer

LEMMA OrderInit == Init => Locked /\ QueueInOrder /\ MarksAtEnd
<1> SUFFICES ASSUME Init PROVE Locked /\ QueueInOrder /\ MarksAtEnd
  OBVIOUS
<1>1. NoneSending /\ Locked
  BY DEF Init, NoneSending, Locked, InSend
<1>2. QueueInOrder
  BY <1>1, HoldsEmpty, UpToNext DEF Init, QueueInOrder
<1> QED BY <1>1, <1>2 DEF Init, MarksAtEnd, OnlyChunks

LEMMA OrderAlways == Spec => [](Typed /\ Locked /\ QueueInOrder /\ MarksAtEnd)
BY TypedInit, TypedStep, OrderInit, LockedStep, OrderStep, PTL DEF Spec

\* The server reads the published chunks in order, none missing or twice, and nothing after
\* StopIteration, for every number of threads and chunks.
THEOREM QueueAlwaysInOrder == Spec => []QueueInOrder
BY OrderAlways, PTL

-----------------------------------------------------------------------------
(* The subscribers *)

Subscribed ==
    /\ \A r \in Readers : r \in subscribers <=> reader[r] \in {"live", "check"}
    /\ \A r \in Readers : reader[r] \in {"idle", "found"} => subQueue[r] = <<>>
    /\ ~closed \/ closing # "none" => \A r \in subscribers : OnlyChunks(subQueue[r])

\* What a subscriber has to have got.
InOrder(r) == got[r] = UpTo(Len(got[r])) /\ Holds(subQueue[r], Len(got[r]), hist)

LEMMA InOrderOf ==
    Subscribed /\ Typed => (SubscriberInOrder <=> \A r \in subscribers : InOrder(r))
BY DEF Subscribed, SubscriberInOrder, InOrder, Typed

LEMMA SubscribedTyped ==
    ASSUME Typed, NEW r \in Readers
    PROVE  subQueue[r] \in Seq(Items) /\ Len(got[r]) \in Nat /\ hist \in Nat
           /\ MaxChunks \in Nat
BY ItemsTyped DEF Typed

LEMMA SubscribedKept ==
    ASSUME Typed, Subscribed, SubscriberInOrder,
           UNCHANGED <<hist, subscribers, subQueue, reader, got, closed, closing>>
    PROVE  Subscribed' /\ SubscriberInOrder'
BY DEF Subscribed, SubscriberInOrder, Holds, OnlyChunks

\* All subscribers get the same items.
LEMMA SubscribedMulticast ==
    ASSUME Typed, Typed', Subscribed, SubscriberInOrder, NEW items \in Seq(Items),
           subQueue' = Multicast(items), UNCHANGED <<subscribers, reader, got>>,
           \A r \in subscribers : Holds(subQueue[r] \o items, Len(got[r]), hist'),
           ~closed' \/ closing' # "none" =>
               \A r \in subscribers : OnlyChunks(subQueue[r] \o items)
    PROVE  Subscribed' /\ SubscriberInOrder'
<1>1. \A r \in Readers : subQueue'[r] = IF r \in subscribers THEN subQueue[r] \o items
                                        ELSE subQueue[r]
  BY DEF Multicast
<1>2. subscribers \subseteq Readers
  BY DEF Typed
<1>3. Subscribed'
  BY <1>1, <1>2 DEF Subscribed
<1>4. \A r \in subscribers : InOrder(r)'
  BY <1>1, <1>2, InOrderOf DEF InOrder
<1> QED BY <1>3, <1>4 DEF SubscriberInOrder, InOrder

LEMMA SubscribedSender ==
    ASSUME Typed, Typed', Locked, Subscribed, SubscriberInOrder,
           NEW s \in Senders, SenderStep(s)
    PROVE  Subscribed' /\ SubscriberInOrder'
<1>1. CASE Publish(s) \/ ReportFailure(s)
  <2>1. Send(s)
    BY <1>1 DEF Publish, ReportFailure
  <2>2. /\ subQueue' = Multicast(<<hist + 1>>) /\ hist' = hist + 1 /\ hist + 1 \in Chunks
        /\ UNCHANGED <<subscribers, reader, got, closed, closing>> /\ ~closed
    BY <2>1, SendTyped, ItemsTyped DEF Send, Chunks, readVars, Typed
  <2>3. <<hist + 1>> \in Seq(Items)
    BY <2>2 DEF Items
  <2>4. ASSUME NEW r \in subscribers
        PROVE  /\ Holds(subQueue[r] \o <<hist + 1>>, Len(got[r]), hist')
               /\ OnlyChunks(subQueue[r] \o <<hist + 1>>)
    <3>1. r \in Readers /\ InOrder(r) /\ OnlyChunks(subQueue[r])
      BY <2>2, InOrderOf DEF Typed, Subscribed
    <3>2. /\ subQueue[r] \in Seq(Items) /\ Len(got[r]) \in Nat /\ hist \in Int
          /\ Holds(subQueue[r], Len(got[r]), hist)
      BY <3>1, SubscribedTyped DEF InOrder
    <3> QED BY <2>2, <3>1, <3>2, HoldsNext
  <2> QED BY <2>2, <2>3, <2>4, SubscribedMulticast
<1>2. CASE Enqueue(s)
  BY <1>2, SubscribedKept DEF Enqueue, readVars
<1>3. CASE ProcessThought(s)
  BY <1>3, SubscribedKept DEF ProcessThought, genVars, readVars
<1> QED BY <1>1, <1>2, <1>3 DEF SenderStep

LEMMA SubscribedCloser ==
    ASSUME Typed, Typed', Locked, Subscribed, SubscriberInOrder, CloserStep
    PROVE  Subscribed' /\ SubscriberInOrder'
<1>1. ASSUME NEW who \in Closers, Close(who)
      PROVE  Subscribed' /\ SubscriberInOrder'
  BY <1>1 DEF Close, Subscribed, SubscriberInOrder, Holds, OnlyChunks, readVars
<1>2. CASE CloseEnds
  <2>1. PICK marks \in {<<StopIteration>>, <<Raised, StopIteration>>} :
            subQueue' = Multicast(marks)
    BY <1>2 DEF CloseEnds
  <2>2. /\ UNCHANGED <<hist, subscribers, reader, got, closed>> /\ closing' = "none" /\ closed
    BY <1>2 DEF CloseEnds, readVars, Locked
  <2>3. marks \in Seq(Items) /\ \A i \in 1..Len(marks) : ~IsChunk(marks[i])
    BY <2>1, CloseMarks
  <2>4. ASSUME NEW r \in subscribers
        PROVE  Holds(subQueue[r] \o marks, Len(got[r]), hist)
    <3>1. r \in Readers /\ InOrder(r)
      BY InOrderOf DEF Typed
    <3>2. subQueue[r] \in Seq(Items) /\ Len(got[r]) \in Nat /\ hist \in Int
      BY <3>1, SubscribedTyped
    <3> QED BY <2>3, <3>1, <3>2, HoldsMarks DEF InOrder
  <2> QED BY <2>1, <2>2, <2>3, <2>4, SubscribedMulticast
<1> QED BY <1>1, <1>2 DEF CloserStep

LEMMA SubscribedReader ==
    ASSUME Typed, Typed', Subscribed, SubscriberInOrder, NEW r \in Readers, ReaderStep(r)
    PROVE  Subscribed' /\ SubscriberInOrder'
<1>1. UNCHANGED <<hist, closed, closing>>
  BY OthersKeep
<1>2. /\ \A q \in Readers \ {r} : /\ reader'[q] = reader[q] /\ subQueue'[q] = subQueue[q]
                                  /\ got'[q] = got[q]
                                  /\ q \in subscribers' <=> q \in subscribers
      /\ subscribers' \subseteq Readers
  BY DEF ReaderStep, Reads, FindGenerator, Subscribe, ReaderLeaves, ReadChunk, ReadEnd,
         ReadTimeout, ReadOn, ReadGivesUp, Read, Stays, Unsubscribes, Typed
<1>3. ASSUME r \in subscribers' <=> reader'[r] \in {"live", "check"},
             reader'[r] \in {"idle", "found"} => subQueue'[r] = <<>>,
             r \in subscribers' => /\ InOrder(r)'
                                   /\ ~closed \/ closing # "none" => OnlyChunks(subQueue'[r])
      PROVE  Subscribed' /\ SubscriberInOrder'
  <2>1. ASSUME NEW q \in Readers
        PROVE  /\ q \in subscribers' <=> reader'[q] \in {"live", "check"}
               /\ reader'[q] \in {"idle", "found"} => subQueue'[q] = <<>>
    <3>1. CASE q = r
      BY <1>3, <3>1
    <3>2. CASE q # r
      <4>1. /\ reader'[q] = reader[q] /\ subQueue'[q] = subQueue[q]
            /\ q \in subscribers' <=> q \in subscribers
        BY <1>2, <3>2
      <4> QED BY <4>1 DEF Subscribed
    <3> QED BY <3>1, <3>2
  <2>2. ASSUME NEW q \in subscribers'
        PROVE  InOrder(q)' /\ (~closed \/ closing # "none" => OnlyChunks(subQueue'[q]))
    <3>1. CASE q = r
      BY <1>3, <3>1
    <3>2. CASE q # r
      <4>1. q \in Readers \ {r}
        BY <1>2, <3>2
      <4>2. /\ q \in subscribers /\ got'[q] = got[q] /\ subQueue'[q] = subQueue[q]
        BY <1>2, <4>1
      <4>3. InOrder(q) /\ (~closed \/ closing # "none" => OnlyChunks(subQueue[q]))
        BY <4>2, InOrderOf DEF Subscribed
      <4> QED BY <1>1, <4>2, <4>3 DEF InOrder
    <3> QED BY <3>1, <3>2
  <2>3. Subscribed'
    BY <1>1, <2>1, <2>2 DEF Subscribed
  <2> QED BY <2>2, <2>3 DEF SubscriberInOrder, InOrder
<1>4. CASE FindGenerator(r) \/ ReadTimeout(r) \/ ReadOn(r)
  <2>1. /\ reader[r] \in {"idle", "live", "check"} /\ UNCHANGED <<subscribers, subQueue, got>>
        /\ reader[r] = "idle" => reader'[r] = "found"
        /\ reader[r] # "idle" => reader'[r] \in {"live", "check"}
    BY <1>4 DEF FindGenerator, ReadTimeout, ReadOn, Read, Stays, Typed
  <2> QED BY <1>1, <1>3, <2>1, InOrderOf DEF Subscribed, InOrder
<1>5. CASE ReaderLeaves(r) \/ ReadEnd(r) \/ ReadGivesUp(r)
  <2>1. reader'[r] \in {"done", "left"} /\ r \notin subscribers'
    BY <1>5 DEF ReaderLeaves, ReadEnd, ReadGivesUp, Read, Unsubscribes, Typed
  <2> QED BY <1>3, <2>1
<1>6. CASE Subscribe(r)
  <2>1. /\ subQueue'[r] = <<>> /\ r \notin subscribers /\ got'[r] = UpTo(hist)
        /\ reader'[r] = IF closed THEN "done" ELSE "live"
        /\ subscribers' = IF closed THEN subscribers ELSE subscribers \cup {r}
    BY <1>6 DEF Subscribe, Read, SnapshotHistory, Subscribed, Typed
  <2>2. hist \in Nat /\ Len(UpTo(hist)) = hist
    BY SubscribedTyped, UpToNext
  <2>3. InOrder(r)' /\ OnlyChunks(subQueue'[r])
    BY <1>1, <2>1, <2>2, HoldsEmpty DEF InOrder, OnlyChunks
  <2> QED BY <1>3, <2>1, <2>3
<1>7. CASE ReadChunk(r)
  <2>1. /\ r \in subscribers /\ r \in subscribers' /\ reader'[r] = "live" /\ InOrder(r)
        /\ subQueue[r] # <<>> /\ IsChunk(Head(subQueue[r]))
        /\ subQueue'[r] = Tail(subQueue[r]) /\ got'[r] = Append(got[r], Head(subQueue[r]))
    BY <1>7, InOrderOf DEF ReadChunk, Read, Subscribed, Typed
  <2>2. PICK n \in Nat : n = Len(got[r])
    BY SubscribedTyped
  <2>3. Head(subQueue[r]) = n + 1 /\ Holds(subQueue'[r], n + 1, hist)
    <3>1. subQueue[r] \in Seq(Items) /\ hist \in Int /\ Holds(subQueue[r], n, hist)
      BY <2>1, <2>2, SubscribedTyped DEF InOrder
    <3>2. Head(subQueue[r]) = n + 1 /\ Holds(Tail(subQueue[r]), n + 1, hist)
      BY <2>1, <3>1, HoldsTail
    <3> QED BY <2>1, <3>2
  <2>4. got'[r] = UpTo(n + 1) /\ Len(got'[r]) = n + 1
    <3>1. got'[r] = Append(UpTo(n), n + 1)
      BY <2>1, <2>2, <2>3 DEF InOrder
    <3>2. n + 1 \in Nat
      OBVIOUS
    <3> QED BY <3>1, <3>2, UpToNext
  <2>5. ~closed \/ closing # "none" => OnlyChunks(subQueue'[r])
    <3>1. OnlyChunks(subQueue[r]) => OnlyChunks(Tail(subQueue[r]))
      BY <2>1, SubscribedTyped, TailOnlyChunks
    <3> QED BY <2>1, <3>1 DEF Subscribed
  <2>6. InOrder(r)'
    BY <1>1, <2>3, <2>4 DEF InOrder
  <2> QED BY <1>3, <2>1, <2>5, <2>6
<1> QED BY <1>4, <1>5, <1>6, <1>7 DEF ReaderStep, Reads

LEMMA SubscribedStep ==
    Typed /\ Typed' /\ Locked /\ Subscribed /\ SubscriberInOrder /\ [Next]_vars =>
        Subscribed' /\ SubscriberInOrder'
<1> SUFFICES ASSUME Typed, Typed', Locked, Subscribed, SubscriberInOrder, [Next]_vars
             PROVE  Subscribed' /\ SubscriberInOrder'
  OBVIOUS
<1>1. CASE RunStep \/ ServerStep \/ AbortStep \/ UNCHANGED vars
  <2>1. UNCHANGED <<hist, subscribers, subQueue, reader, got, closed, closing>>
    BY <1>1, ServerKinds DEF Keeps, RunStep, ProducerStarts, RunReturns, RunRaises, RunFailed,
       ProducerDone, Produce, AbortStep, AbortStart, AbortEnd, Aborting, PoolChanges, vars, genVars, readVars
  <2> QED BY <2>1, SubscribedKept
<1> QED BY <1>1, StepKinds, SubscribedSender, SubscribedCloser, SubscribedReader

LEMMA SubscribedAlways == Spec => [](Subscribed /\ SubscriberInOrder)
<1>1. Init => Subscribed /\ SubscriberInOrder
  BY DEF Init, Subscribed, SubscriberInOrder
<1> QED BY <1>1, OrderAlways, SubscribedStep, PTL DEF Spec

\* A client that subscribes in the middle of a turn gets the snapshot and then every later
\* chunk once and in order, for every number of threads, clients and chunks.
THEOREM SubscribersAlwaysInOrder == Spec => []SubscriberInOrder
BY SubscribedAlways, PTL

-----------------------------------------------------------------------------
(* The turn is stored once, and can be found until then *)

Over == server \in {"leaving", "done"}
StoredAtEnd == saved # NotSaved => Over
Found == server \notin {"setupFailed", "done"} /\ aborter # "done" => registered

\* The server stores the turn on its way out, and only then.
LEMMA ServerEnds ==
    ASSUME ServerStep
    PROVE  /\ saved' # saved => ~Over /\ Over'
           /\ Over => Over'
           /\ registered' # registered => server' \in {"setupFailed", "done"}
           /\ server \in {"setupFailed", "done"} => server' = "done"
<1> USE DEF Serve, Over
<1>1. CASE SetupFails \/ ServeStart \/ Unregister \/ SetupFailed
  BY <1>1 DEF SetupFails, ServeStart, Unregister, SetupFailed, Unsaved, StaysRegistered
<1>2. CASE ServeChunk \/ DrainChunk
  BY <1>2 DEF ServeChunk, DrainChunk, TakeChunk, Unsaved, StaysRegistered
<1>3. CASE ServeError \/ DrainError \/ ServeEnd \/ DrainEnd
  BY <1>3 DEF ServeError, DrainError, ServeEnd, DrainEnd, TakeSentinel, StaysRegistered
<1>4. CASE ServeTimeout \/ DrainTimeout
  BY <1>4 DEF ServeTimeout, DrainTimeout, QueueEmpty, Unsaved, StaysRegistered
<1>5. CASE ServeTimedOut \/ ClientTakes \/ ClientTakesTimeout \/ DrainStart \/ DrainTimedOut
  BY <1>5 DEF ServeTimedOut, ClientTakes, ClientTakesTimeout, DrainStart, DrainTimedOut
<1>6. CASE ClientLeaves
  BY <1>6 DEF ClientLeaves, HandOff, Unsaved, StaysRegistered
<1> QED BY <1>1, <1>2, <1>3, <1>4, <1>5, <1>6 DEF ServerStep, Serves

LEMMA OnlyServerStores ==
    ASSUME [Next]_vars, ~ServerStep
    PROVE  /\ UNCHANGED <<server, saved, taken, timedOut>>
           /\ registered' # registered => aborter' = "done"
           /\ aborter = "done" => aborter' = "done"
<1>1. ASSUME NEW s \in Senders, SenderStep(s)
      PROVE  UNCHANGED <<server, saved, taken, timedOut, registered, aborter>>
  BY <1>1 DEF SenderStep, Publish, ReportFailure, Send, Enqueue, ProcessThought, serveVars
<1>2. CASE CloserStep
  BY <1>2 DEF CloserStep, Close, CloseEnds, serveVars
<1>3. CASE RunStep
  BY <1>3 DEF RunStep, ProducerStarts, RunReturns, RunRaises, RunFailed, ProducerDone, Produce,
              serveVars
<1>4. CASE AbortStep
  BY <1>4 DEF AbortStep, AbortStart, AbortEnd, Aborting, PoolChanges, serveVars
<1>5. CASE \E r \in Readers : ReaderStep(r)
  BY <1>5 DEF ReaderStep, Reads, FindGenerator, Subscribe, ReaderLeaves, ReadChunk, ReadEnd,
              ReadTimeout, ReadOn, ReadGivesUp, Read, serveVars
<1>6. CASE UNCHANGED vars
  BY <1>6 DEF vars, serveVars
<1> QED BY <1>1, <1>2, <1>3, <1>4, <1>5, <1>6, StepKinds

LEMMA StoredStep == StoredAtEnd /\ Found /\ [Next]_vars => StoredAtEnd' /\ Found'
<1> SUFFICES ASSUME StoredAtEnd, Found, [Next]_vars PROVE StoredAtEnd' /\ Found'
  OBVIOUS
<1>1. CASE ServerStep
  <2>1. aborter' = aborter
    BY <1>1, ServerKinds DEF Keeps
  <2> QED BY <1>1, <2>1, ServerEnds DEF StoredAtEnd, Found, NotSaved
<1>2. CASE ~ServerStep
  BY <1>2, OnlyServerStores DEF StoredAtEnd, Found, Over, NotSaved
<1> QED BY <1>1, <1>2

LEMMA StoredAlways == Spec => [](StoredAtEnd /\ Found)
<1>1. Init => StoredAtEnd /\ Found
  BY DEF Init, StoredAtEnd, Found
<1> QED BY <1>1, StoredStep, PTL DEF Spec

\* The server and the drainer never both store the turn, wherever the client leaves.
THEOREM StoredOnce == Spec => SavedOnce
<1>1. StoredAtEnd /\ [Next]_vars => [saved # NotSaved => UNCHANGED saved]_vars
  BY ServerEnds, OnlyServerStores DEF StoredAtEnd
<1> QED BY <1>1, StoredAlways, PTL DEF Spec, SavedOnce

-----------------------------------------------------------------------------
(* What is stored *)

\* The generator was closed by its own run, and the server waits for the end of that.
OwnEnd == /\ closed /\ reason # "aborted" /\ ~timedOut
          /\ server \notin {"setupFailed", "leaving", "done"}
Ends ==
    /\ server = "new" => producer = "none"
    /\ server \in {"timingOut", "drainTimingOut"} => timedOut
    /\ producer = "failing" => failChunk # 0
    /\ producer \in {"closing", "done"} /\ ~raised /\ failChunk = 0 =>
            \A s \in Senders : ~InSend(s)
    /\ OwnEnd => /\ producer \in {"closing", "done"}
                 /\ closing \in {"none", "producer"}
                 /\ closing = "none" /\ raised => \E i \in 1..Len(queue) : queue[i] = Raised

LEMMA MergedStep == Typed /\ Locked /\ Merged /\ [Next]_vars => Merged'
<1> SUFFICES ASSUME Typed, Locked, Merged, [Next]_vars PROVE Merged'
  OBVIOUS
<1> DEFINE OnTheWay == {sending[s].chunk : s \in {t \in Senders : InSend(t)}}
<1>0. hist \in Nat /\ \A s \in Senders : sending[s] \in SendingTypes
  BY ItemsTyped DEF Typed
<1>1. CASE UNCHANGED <<hist, sending, thoughts>>
  BY <1>1 DEF Merged, InSend
<1>2. ASSUME NEW s \in Senders, Send(s) PROVE Merged'
  <2>1. hist' = hist + 1 /\ thoughts' = thoughts
    BY <1>2, SendTyped, SendingOfSend
  <2>2. OnTheWay' = OnTheWay \cup {hist + 1}
    BY <1>2, <2>1, SendingOfSend DEF InSend
  <2> QED BY <1>0, <2>1, <2>2 DEF Merged
<1>3. ASSUME NEW s \in Senders, Enqueue(s) PROVE Merged'
  <2>1. /\ sending'[s].step = "queued" /\ sending'[s].chunk = sending[s].chunk
        /\ \A t \in Senders \ {s} : sending'[t] = sending[t]
        /\ sending[s].step = "published" /\ UNCHANGED <<hist, thoughts>>
    BY <1>0, <1>3 DEF Enqueue, Typed, SendingTypes
  <2>2. OnTheWay' = OnTheWay
    BY <2>1 DEF InSend
  <2> QED BY <2>1, <2>2 DEF Merged
<1>4. ASSUME NEW s \in Senders, ProcessThought(s) PROVE Merged'
  <2>1. /\ sending'[s].step = "idle" /\ InSend(s)
        /\ \A t \in Senders \ {s} : sending'[t] = sending[t]
        /\ hist' = hist /\ thoughts' = thoughts \cup {sending[s].chunk}
    BY <1>4 DEF ProcessThought, Typed, InSend, genVars
  <2>2. OnTheWay' \cup {sending[s].chunk} = OnTheWay
    BY <2>1 DEF InSend
  <2> QED BY <2>1, <2>2 DEF Merged
<1>5. CASE CloserStep
  BY <1>1, <1>5 DEF CloserStep, Close, CloseEnds, runVars
<1>6. CASE ServerStep
  BY <1>1, <1>6, ServerKinds DEF Keeps
<1> QED BY <1>1, <1>2, <1>3, <1>4, <1>5, <1>6, OthersKeep, StepKinds
           DEF SenderStep, Publish, ReportFailure

\* A step of the server that stores the turn, gives up, or takes a mark.
EndsWell == /\ server \in {"serving", "draining"} /\ timedOut' = timedOut /\ taken' = taken
            /\ queue # <<>> /\ Head(queue) = StopIteration
            /\ \E status \in {"SUCCESS", "ERROR", "INTERRUPTED"} :
                SaveAs(status) /\ (status = "SUCCESS" => reason # "aborted")
LEMMA ServerStores ==
    ASSUME ServerStep
    PROVE  /\ saved' = saved \/ SaveAs("ERROR") \/ EndsWell
           /\ server' \in {"timingOut", "drainTimingOut"} => timedOut'
           /\ server' # "new" /\ (server \in {"setupFailed", "leaving"} => Over')
           /\ server # "done"
           /\ TakesChunk \/ TakesNothing \/ server' = "leaving"
<1> USE DEF Serve, Over, EndsWell, TakesNothing, TakesChunk
<1>1. CASE SetupFails \/ ServeStart \/ Unregister \/ SetupFailed
  BY <1>1 DEF SetupFails, ServeStart, Unregister, SetupFailed, Unsaved
<1>2. CASE ServeChunk \/ DrainChunk
  BY <1>2 DEF ServeChunk, DrainChunk, TakeChunk, Unsaved
<1>3. CASE ServeError \/ DrainError
  BY <1>3 DEF ServeError, DrainError, TakeSentinel
<1>4. CASE ServeEnd
  BY <1>4 DEF ServeEnd, TakeSentinel, ServedStatus
<1>5. CASE DrainEnd
  BY <1>5 DEF DrainEnd, TakeSentinel, DrainedStatus
<1>6. CASE ServeTimeout \/ DrainTimeout
  BY <1>6 DEF ServeTimeout, DrainTimeout, QueueEmpty, Unsaved
<1>7. CASE ServeTimedOut \/ ClientTakes \/ ClientTakesTimeout \/ DrainStart \/ DrainTimedOut
  BY <1>7 DEF ServeTimedOut, ClientTakes, ClientTakesTimeout, DrainStart, DrainTimedOut
<1>8. CASE ClientLeaves
  BY <1>8 DEF ClientLeaves, HandOff, Unsaved
<1> QED BY <1>1, <1>2, <1>3, <1>4, <1>5, <1>6, <1>7, <1>8 DEF ServerStep, Serves

LEMMA EndsSender ==
    ASSUME Typed, Typed', Locked, Ends, NEW s \in Senders, SenderStep(s)
    PROVE  Ends'
<1>1. UNCHANGED <<server, timedOut, reason>>
  BY DEF SenderStep, Publish, ReportFailure, Send, Enqueue, ProcessThought, serveVars, genVars
<1>2. CASE Publish(s) \/ ReportFailure(s)
  <2>1. Send(s) /\ ~closed'
    BY <1>2, SendingOfSend DEF Publish, ReportFailure
  <2>2. producer' \in {"running", "failing"} /\ (producer' = "failing" => failChunk' # 0)
        /\ producer # "none"
    BY <1>2, SendTyped, ItemsTyped DEF Publish, ReportFailure, Ends, Typed
  <2> QED BY <1>1, <2>1, <2>2 DEF Ends, OwnEnd
<1>3. CASE Enqueue(s)
  <2>1. ~closed /\ ~closed' /\ InSend(s) /\ UNCHANGED <<producer, failChunk, raised>>
    BY <1>3 DEF Enqueue, Locked, NoneSending, InSend
  <2> QED BY <1>1, <2>1 DEF Ends, OwnEnd
<1>4. CASE ProcessThought(s)
  <2>1. UNCHANGED <<producer, failChunk, raised, closed, closing, queue>> /\ InSend(s)
    BY <1>4 DEF ProcessThought, InSend, genVars
  <2> QED BY <1>1, <2>1 DEF Ends, OwnEnd
<1> QED BY <1>2, <1>3, <1>4 DEF SenderStep

LEMMA EndsCloser ==
    ASSUME Typed, Typed', Locked, Ends, CloserStep
    PROVE  Ends'
<1>1. UNCHANGED <<server, timedOut, producer, failChunk, raised, sending>>
  BY DEF CloserStep, Close, CloseEnds, serveVars, runVars
<1>2. ASSUME OwnEnd' => /\ producer \in {"closing", "done"}
                        /\ closing' \in {"none", "producer"}
                        /\ closing' = "none" /\ raised =>
                            \E i \in 1..Len(queue') : queue'[i] = Raised
      PROVE  Ends'
  BY <1>1, <1>2 DEF Ends, InSend
<1>3. ASSUME NEW who \in Closers, Close(who), OwnEnd'
      PROVE  producer = "closing" /\ closing' = "producer"
  <2>1. who # "abort" /\ closing' = who
    BY <1>3 DEF Close, OwnEnd
  <2>2. server \notin {"setupFailed", "timingOut", "drainTimingOut"}
    BY <1>1, <1>3 DEF Ends, OwnEnd
  <2> QED BY <1>3, <2>1, <2>2 DEF Close, Closers, Wants
<1>4. ASSUME CloseEnds, OwnEnd'
      PROVE  /\ producer \in {"closing", "done"} /\ closing' = "none"
             /\ raised => \E i \in 1..Len(queue') : queue'[i] = Raised
  <2>1. OwnEnd /\ closing = "producer"
    BY <1>1, <1>4 DEF CloseEnds, OwnEnd, Ends
  <2>2. ASSUME raised PROVE queue'[Len(queue) + 1] = Raised /\ Len(queue) + 1 \in 1..Len(queue')
    <3>1. queue' = queue \o <<Raised, StopIteration>>
      BY <1>4, <2>1, <2>2 DEF CloseEnds
    <3>2. queue \in Seq(Items)
      BY DEF Typed
    <3> QED BY <3>1, <3>2, ItemsTyped
  <2> QED BY <1>4, <2>1, <2>2 DEF CloseEnds, Ends
<1> QED BY <1>2, <1>3, <1>4 DEF CloserStep

LEMMA EndsRun ==
    ASSUME Typed, Typed', Ends, RunStep
    PROVE  Ends'
<1>1. UNCHANGED <<server, timedOut, failChunk, sending, closed, reason, closing, queue>>
  BY OthersKeep
<1>2. /\ producer' \in {"running", "closing", "done"} /\ producer # "none"
      /\ OwnEnd => producer' = "done" /\ raised' = raised
      /\ producer' \in {"closing", "done"} /\ ~raised' /\ failChunk = 0 =>
            \A s \in Senders : ~InSend(s)
  BY DEF RunStep, ProducerStarts, RunReturns, RunRaises, RunFailed, ProducerDone, Produce, Ends,
         InSend
<1> QED BY <1>1, <1>2 DEF Ends, OwnEnd, InSend

LEMMA EndsServer ==
    ASSUME Typed, Typed', Ends, QueueInOrder, ServerStep
    PROVE  Ends'
<1>1. UNCHANGED <<failChunk, sending, closed, reason, closing, raised>>
  BY ServerKinds DEF Keeps
<1>2. /\ server' # "new" /\ (server' \in {"timingOut", "drainTimingOut"} => timedOut')
      /\ producer' \notin {"failing", "closing", "done"} \/ producer' = producer
  BY ServerStores, ServerKinds
<1>3. ASSUME OwnEnd'
      PROVE  /\ producer' \in {"closing", "done"} /\ closing \in {"none", "producer"}
             /\ closing = "none" /\ raised => \E i \in 1..Len(queue') : queue'[i] = Raised
  <2>1. OwnEnd
    BY <1>1, <1>3, ServerStores, ServerKinds DEF OwnEnd, Over, Typed
  <2>2. producer \in {"closing", "done"} /\ producer' = producer
    BY <2>1, ServerKinds DEF Ends
  <2>3. ASSUME NEW i \in 1..Len(queue), queue[i] = Raised
        PROVE  \E j \in 1..Len(queue') : queue'[j] = Raised
    <3>1. CASE TakesNothing
      BY <2>3, <3>1 DEF TakesNothing
    <3>2. CASE TakesChunk
      <4>1. /\ queue \in Seq(Items) /\ queue # <<>> /\ queue' = Tail(queue)
            /\ Head(queue) = queue[1] /\ Len(queue) \in Nat
        BY <3>2 DEF TakesChunk, Typed
      <4>2. i # 1
        BY <2>3, <3>2, <4>1, ItemsTyped DEF TakesChunk
      <4>3. i - 1 \in 1..Len(queue') /\ queue'[i - 1] = queue[i]
        BY <2>3, <4>1, <4>2
      <4> QED BY <2>3, <4>3
    <3> QED BY <1>3, <3>1, <3>2, ServerStores DEF OwnEnd
  <2> QED BY <2>1, <2>2, <2>3 DEF Ends
<1> QED BY <1>1, <1>2, <1>3 DEF Ends, InSend

LEMMA EndsStep ==
    Typed /\ Typed' /\ Locked /\ QueueInOrder /\ Ends /\ [Next]_vars => Ends'
<1>1. ASSUME Ends, AbortStep \/ (\E r \in Readers : ReaderStep(r)) \/ UNCHANGED vars
      PROVE  Ends'
  <2>1. UNCHANGED <<server, timedOut, failChunk, sending, closed, reason, closing, queue>>
    BY <1>1, OthersKeep
  <2>2. UNCHANGED <<producer, raised>>
    BY <1>1 DEF AbortStep, AbortStart, AbortEnd, Aborting, PoolChanges, ReaderStep, Reads, FindGenerator,
       Subscribe, ReaderLeaves, ReadChunk, ReadEnd, ReadTimeout, ReadOn, ReadGivesUp, Read, vars,
       runVars
  <2> QED BY <1>1, <2>1, <2>2 DEF Ends, OwnEnd, InSend
<1> QED BY <1>1, StepKinds, EndsSender, EndsCloser, EndsRun, EndsServer

Whole ==
    /\ saved.status \in {"SUCCESS", "INTERRUPTED"} => closed /\ saved.chunks = hist
    /\ saved.status = "SUCCESS" => /\ reason # "aborted"
                                   /\ ~timedOut /\ failChunk = 0 => saved.thoughts = 1..hist
    /\ saved.chunks \in 0..MaxChunks /\ saved.thoughts \subseteq Chunks

\* Once the generator is closed nothing is published, and the reason and the failure stand.
LEMMA ClosedStays ==
    ASSUME Typed, [Next]_vars, closed
    PROVE  UNCHANGED <<closed, hist, reason, failChunk>>
<1>1. ASSUME NEW s \in Senders, SenderStep(s)
      PROVE  UNCHANGED <<closed, hist, reason, failChunk>>
  BY <1>1, SendingOfSend DEF SenderStep, Publish, ReportFailure, Enqueue, ProcessThought, genVars
<1>2. CASE CloserStep
  BY <1>2 DEF CloserStep, Close, CloseEnds, runVars
<1>3. CASE ServerStep
  BY <1>3, ServerKinds DEF Keeps
<1> QED BY <1>1, <1>2, <1>3, OthersKeep, StepKinds

\* A turn that ends with StopIteration is whole.
LEMMA WholeAtEnd ==
    ASSUME Typed, Locked, QueueInOrder, MarksAtEnd, Merged, Ends, EndsWell
    PROVE  /\ closed /\ Len(taken) = hist
           /\ reason # "aborted" /\ ~timedOut /\ failChunk = 0 => thoughts = 1..hist
<1>1. /\ queue \in Seq(Items) /\ queue # <<>> /\ Head(queue) = queue[1] /\ queue[1] = StopIteration
      /\ Len(queue) \in Nat \ {0} /\ MaxChunks \in Nat /\ Len(taken) \in Nat
  BY ItemsTyped DEF EndsWell, Typed
<1>2. closed /\ closing = "none" /\ NoneSending
  <2>1. ~IsChunk(queue[1]) /\ 1 \in 1..Len(queue)
    BY <1>1, ItemsTyped
  <2>2. ~OnlyChunks(queue)
    BY <2>1 DEF OnlyChunks
  <2>3. closed /\ closing = "none"
    BY <2>2 DEF MarksAtEnd
  <2> QED BY <2>3 DEF Locked
<1>3. Len(taken) = hist
  <2>1. Holds(queue, Len(taken), hist) /\ hist \in 0..MaxChunks
    BY <1>2 DEF QueueInOrder, Typed
  <2>2. Len(taken) \in 0..MaxChunks
    BY <1>1, <2>1 DEF Holds
  <2> QED BY <1>1, <2>1, <2>2, ItemsTyped, HoldsMark
<1>4. ASSUME reason # "aborted", ~timedOut, failChunk = 0
      PROVE  thoughts = 1..hist
  <2>1. OwnEnd
    BY <1>2, <1>4 DEF OwnEnd, EndsWell
  <2>2. ~raised
    <3> SUFFICES ASSUME NEW i \in 1..Len(queue), queue[i] = Raised PROVE FALSE
      BY <1>2, <2>1 DEF Ends
    <3>1. i # 1
      BY <1>1, ItemsTyped
    <3>2. 1 \in 1..Len(queue) - 1
      BY <1>1, <3>1
    <3> QED BY <1>1, <3>2 DEF QueueInOrder
  <2>3. \A s \in Senders : ~InSend(s)
    BY <1>4, <2>1, <2>2 DEF Ends
  <2> QED BY <2>3 DEF Merged
<1> QED BY <1>2, <1>3, <1>4

LEMMA WholeStep ==
    /\ Typed /\ Typed' /\ Locked /\ QueueInOrder /\ MarksAtEnd /\ Merged /\ Ends /\ StoredAtEnd
    /\ Whole /\ [Next]_vars
    => Whole'
<1> SUFFICES ASSUME Typed, Typed', Locked, QueueInOrder, MarksAtEnd, Merged, Ends, StoredAtEnd,
                    Whole, [Next]_vars
             PROVE  Whole'
  OBVIOUS
<1>1. CASE saved' = saved
  <2>1. timedOut => timedOut'
    BY ServerKinds, OnlyServerStores DEF Typed
  <2> QED BY <1>1, <2>1, ClosedStays DEF Whole
<1>2. CASE saved' # saved
  <2>1. ServerStep
    BY <1>2, OnlyServerStores
  <2>2. UNCHANGED <<closed, hist, reason, failChunk>>
    BY <2>1, ServerKinds DEF Keeps
  <2>3. Len(taken) \in 0..MaxChunks
    <3>1. Sent \in 0..MaxChunks /\ MaxChunks \in Nat /\ Len(taken) \in Nat
      BY SentTyped, ItemsTyped DEF Typed
    <3> QED BY <3>1 DEF QueueInOrder, Holds, Sent
  <2>4. thoughts \subseteq Chunks
    BY ItemsTyped DEF Merged, Typed, Chunks
  <2>5. CASE SaveAs("ERROR")
    BY <2>3, <2>4, <2>5 DEF SaveAs, Whole
  <2>6. CASE EndsWell
    <3>1. PICK status \in {"SUCCESS", "ERROR", "INTERRUPTED"} :
              SaveAs(status) /\ (status = "SUCCESS" => reason # "aborted")
      BY <2>6 DEF EndsWell
    <3>2. /\ saved'.status = status /\ saved'.chunks = Len(taken) /\ saved'.thoughts = thoughts
          /\ timedOut' = timedOut
      BY <2>6, <3>1 DEF SaveAs, EndsWell
    <3> QED BY <2>2, <2>3, <2>4, <2>6, <3>1, <3>2, WholeAtEnd DEF Whole
  <2> QED BY <1>2, <2>1, <2>5, <2>6, ServerStores
<1> QED BY <1>1, <1>2

LEMMA WholeAlways == Spec => [](Merged /\ Ends /\ Whole)
<1>1. Init => Merged /\ Ends /\ Whole
  <2> SUFFICES ASSUME Init PROVE Merged /\ Ends /\ Whole
    OBVIOUS
  <2>1. Merged
    BY DEF Init, Merged, InSend
  <2>2. Ends
    BY DEF Init, Ends, OwnEnd, InSend
  <2>3. Whole
    BY ItemsTyped DEF Init, Whole, NotSaved
  <2> QED BY <2>1, <2>2, <2>3
<1> QED BY <1>1, OrderAlways, StoredAlways, MergedStep, EndsStep, WholeStep, PTL DEF Spec

\* A turn stored as finished or interrupted holds everything that was published, and a success
\* every thought, for every number of threads and chunks.
THEOREM SavedAlwaysWhole == Spec => []SavedIsWhole
<1>1. Whole => SavedIsWhole
  BY DEF Whole, SavedIsWhole
<1> QED BY <1>1, WholeAlways, PTL

\* Every variable keeps its type.
THEOREM StreamTypeCorrect == Spec => []TypeOK
<1>1. Typed /\ Merged /\ Whole => TypeOK
  <2> SUFFICES ASSUME Typed, Merged, Whole PROVE TypeOK
    OBVIOUS
  <2>1. thoughts \subseteq Chunks
    BY ItemsTyped DEF Merged, Typed, Chunks
  <2>2. saved \in [status : {"none", "SUCCESS", "ERROR", "INTERRUPTED"},
                   chunks : 0..MaxChunks, thoughts : SUBSET Chunks]
    BY DEF Typed, SavedTypes, Whole
  <2> QED BY <2>1, <2>2 DEF Typed, TypeOK, SendingTypes, ServerStates, ReaderStates
<1> QED BY <1>1, OrderAlways, WholeAlways, PTL
=================================================================================
