---------------------------- MODULE GenerationStream ----------------------------
(***************************************************************************)
(* One streamed turn: the threads of the agent send chunks through a       *)
(* ThreadedGenerator; the response body reads its queue and stores the     *)
(* turn, or a background drainer does once the client is gone; clients     *)
(* that come back subscribe to the same generator; the user may abort.     *)
(*                                                                         *)
(* A chunk is the number of its place in the history.  A queue also        *)
(* carries the two sentinels StopIteration and Raised (an exception).      *)
(***************************************************************************)
EXTENDS Naturals, Sequences, FiniteSets, SequencesExt

CONSTANTS
    Senders,    \* threads of one run that send chunks (parallel tools, callbacks)
    Readers,    \* clients that subscribe to the running generation
    MaxChunks   \* bound: chunks sent in one turn

ASSUME BoundsAssumption == MaxChunks \in Nat \ {0}

VARIABLES
    hist,        \* _history_chunks: chunks 1..hist were published
    queue,       \* the generator's main queue
    subscribers, \* _subscribers
    subQueue,    \* the queue of each subscriber
    closed,      \* ThreadedGenerator.closed
    reason,      \* cancellation_reason
    closing,     \* who is inside close(), holding _close_lock
    sending,     \* where each sender stands in send(), and with which chunk
    thoughts,    \* the chunks _process_thought has merged
    producer,    \* the agent run in the assistant pool
    raised,      \* the run ends by close(error)
    failChunk,   \* the chunk that reports a failed run, if it was sent
    server,      \* _serve_data, then _drain_and_save_chat_history
    taken,       \* the chunks the server read, in order
    saved,       \* what the turn was stored as
    timedOut,    \* history: the server gave up waiting once
    registered,  \* the GenerationManager holds the generator
    aborter,     \* GenerationManager.abort, under _reg_lock while "aborting"
    reader,      \* where each subscriber stands
    got,         \* the chunks each subscriber received, in order
    poolFull     \* work of this turn would find no free worker in the assistant pool

genVars == <<hist, queue, subscribers, subQueue, closed, reason, closing>>
runVars == <<sending, thoughts, producer, raised, failChunk>>
serveVars == <<server, taken, saved, timedOut>>
readVars == <<reader, got>>
vars == <<genVars, runVars, serveVars, registered, aborter, readVars, poolFull>>

Chunks == 1..MaxChunks
StopIteration == 0
Raised == MaxChunks + 1
Items == Chunks \cup {StopIteration, Raised}
IsChunk(item) == item \in Chunks
UpTo(n) == [i \in 1..n |-> i]

Closers == {"producer", "serve", "drain", "setup", "abort"}
Serving == {"serving", "yielding", "timingOut", "timedOut"}
Draining == {"drainQueued", "draining", "drainTimingOut"}
NotSaved == [status |-> "none", chunks |-> 0, thoughts |-> {}]

TypeOK ==
    /\ hist \in 0..MaxChunks
    /\ queue \in Seq(Items)
    /\ subscribers \subseteq Readers
    /\ subQueue \in [Readers -> Seq(Items)]
    /\ closed \in BOOLEAN
    /\ reason \in {"none", "aborted"}
    /\ closing \in Closers \cup {"none"}
    /\ sending \in [Senders -> [step : {"idle", "published", "queued"}, chunk : 0..MaxChunks]]
    /\ thoughts \subseteq Chunks
    /\ producer \in {"none", "submitted", "running", "failing", "closing", "done"}
    /\ raised \in BOOLEAN
    /\ failChunk \in 0..MaxChunks
    /\ server \in {"new", "setupFailed", "leaving", "done"} \cup Serving \cup Draining
    /\ taken \in Seq(Chunks)
    /\ saved \in [status : {"none", "SUCCESS", "ERROR", "INTERRUPTED"},
                  chunks : 0..MaxChunks, thoughts : SUBSET Chunks]
    /\ timedOut \in BOOLEAN
    /\ registered \in BOOLEAN
    /\ aborter \in {"idle", "aborting", "done"}
    /\ reader \in [Readers -> {"idle", "found", "live", "check", "done", "left"}]
    /\ got \in [Readers -> Seq(Chunks)]
    /\ poolFull \in BOOLEAN

Init ==
    /\ hist = 0 /\ queue = <<>> /\ subscribers = {}
    /\ subQueue = [r \in Readers |-> <<>>]
    /\ closed = FALSE /\ reason = "none" /\ closing = "none"
    /\ sending = [s \in Senders |-> [step |-> "idle", chunk |-> 0]]
    /\ thoughts = {} /\ producer = "none" /\ raised = FALSE /\ failChunk = 0
    /\ server = "new" /\ taken = <<>> /\ saved = NotSaved /\ timedOut = FALSE
    /\ registered = TRUE /\ aborter = "idle"
    /\ reader = [r \in Readers |-> "idle"]
    /\ got = [r \in Readers |-> <<>>]
    /\ poolFull = FALSE

-----------------------------------------------------------------------------
(* Locks and hand-offs *)

\* _close_lock is held from publishing a chunk until it is in the main queue,
\* and throughout close().
NoneSending == \A s \in Senders : sending[s].step # "published"
\* mutant: send() leaves the lock before the main queue has the chunk
SendUnlocked == closing = "none"
CloseLockFree == closing = "none" /\ NoneSending
RegLockFree == aborter # "aborting"
\* what put() to every subscriber queue leaves
Multicast(items) ==
    [r \in Readers |-> IF r \in subscribers THEN subQueue[r] \o items ELSE subQueue[r]]
\* mutant: a chunk enters the history only once it is in the main queue
SnapshotQueued == UpTo(Len(taken) + Len(SelectSeq(queue, IsChunk)))
SnapshotHistory == UpTo(hist)

(***************************************************************************)
(* ThreadedGenerator.send: published to history and subscribers, put in    *)
(* the main queue (the lock is released), the thought merged outside it.   *)
(***************************************************************************)
Send(s) ==
    /\ sending[s].step = "idle"
    /\ CloseLockFree /\ ~closed
    /\ hist < MaxChunks
    /\ hist' = hist + 1
    /\ subQueue' = Multicast(<<hist + 1>>)
    /\ sending' = [sending EXCEPT ![s] = [step |-> "published", chunk |-> hist + 1]]
    /\ UNCHANGED <<queue, subscribers, closed, reason, closing, thoughts, raised,
                   serveVars, registered, aborter, readVars, poolFull>>

Publish(s) ==
    /\ producer \in {"running", "failing"}
    /\ Send(s)
    /\ UNCHANGED <<producer, failChunk>>

\* _send_error_to_thread: the last chunk reports the failed run
ReportFailure(s) ==
    /\ producer = "running"
    /\ Send(s)
    /\ producer' = "failing"
    /\ failChunk' = hist + 1

Enqueue(s) ==
    /\ sending[s].step = "published"
    /\ queue' = Append(queue, sending[s].chunk)
    /\ sending' = [sending EXCEPT ![s].step = "queued"]
    /\ UNCHANGED <<hist, subscribers, subQueue, closed, reason, closing, thoughts, producer,
                   raised, failChunk, serveVars, registered, aborter, readVars, poolFull>>

ProcessThought(s) ==
    /\ sending[s].step = "queued"
    /\ thoughts' = thoughts \cup {sending[s].chunk}
    /\ sending' = [sending EXCEPT ![s] = [step |-> "idle", chunk |-> 0]]
    /\ UNCHANGED <<genVars, producer, raised, failChunk, serveVars, registered, aborter,
                   readVars, poolFull>>

(***************************************************************************)
(* ThreadedGenerator.close by whoever needs it; a second close is a no-op, *)
(* seen by its caller as soon as the lock is free.                         *)
(***************************************************************************)
Wants(who) ==
    CASE who = "producer" -> producer = "closing"
      [] who = "serve"    -> server = "timingOut"
      [] who = "drain"    -> server = "drainTimingOut"
      [] who = "setup"    -> server = "setupFailed"
      [] who = "abort"    -> aborter = "aborting"
CloseReturns(who) == Wants(who) /\ closed /\ CloseLockFree

Close(who) ==
    /\ Wants(who)
    /\ CloseLockFree /\ ~closed
    /\ closed' = TRUE
    /\ closing' = who
    /\ reason' = IF who = "abort" THEN "aborted" ELSE "none"
    /\ UNCHANGED <<hist, queue, subscribers, subQueue, runVars, serveVars, registered,
                   aborter, readVars, poolFull>>

CloseEnds ==
    LET sentinels == IF closing = "producer" /\ raised
                     THEN <<Raised, StopIteration>> ELSE <<StopIteration>>
    IN /\ closing # "none"
       /\ subQueue' = Multicast(sentinels)
       /\ queue' = queue \o sentinels
       /\ closing' = "none"
       /\ UNCHANGED <<hist, subscribers, closed, reason, runVars, serveVars, registered,
                      aborter, readVars, poolFull>>

-----------------------------------------------------------------------------
(* The agent run *)

Produce(from, to) ==
    /\ producer = from /\ producer' = to
    /\ UNCHANGED <<genVars, sending, thoughts, failChunk, serveVars, registered, aborter,
                   readVars, poolFull>>

\* a free worker of the assistant pool picks the run up, however late
ProducerStarts == ~poolFull /\ Produce("submitted", "running") /\ UNCHANGED raised
\* mutant: the run returns without waiting for its tool threads
ReturnsEarly ==
    /\ NoneSending
    /\ Produce("running", "closing") /\ UNCHANGED raised
\* every thread of the run has returned from send()
RunReturns ==
    /\ \A s \in Senders : sending[s].step = "idle"
    /\ Produce("running", "closing") /\ UNCHANGED raised
RunRaises == Produce("running", "closing") /\ raised' = TRUE
RunFailed == Produce("failing", "closing") /\ UNCHANGED raised
ProducerDone ==
    /\ CloseReturns("producer")
    /\ Produce("closing", "done") /\ UNCHANGED raised

-----------------------------------------------------------------------------
(* The response body and the drainer *)

Serve(from, to) ==
    /\ server = from /\ server' = to
    /\ UNCHANGED <<hist, subscribers, subQueue, closed, reason, closing, sending, thoughts,
                   raised, failChunk, aborter, readVars, poolFull>>
SaveAs(status) ==
    saved' = [status |-> status, chunks |-> Len(taken), thoughts |-> thoughts]
StaysRegistered == UNCHANGED registered
Unsaved == UNCHANGED saved

\* _handle_stream fails between registering the generator and serving it
SetupFails ==
    /\ Serve("new", "setupFailed")
    /\ RegLockFree /\ registered' = FALSE
    /\ UNCHANGED <<queue, producer, taken, saved, timedOut>>
SetupFailed ==
    /\ CloseReturns("setup")
    /\ Serve("setupFailed", "done")
    /\ SaveAs("ERROR")
    /\ UNCHANGED <<queue, producer, taken, timedOut, registered>>

ServeStart ==
    /\ Serve("new", "serving")
    /\ producer' = "submitted"
    /\ Unsaved /\ StaysRegistered
    /\ UNCHANGED <<queue, taken, timedOut>>

\* the next item of the main queue
TakeChunk ==
    /\ queue # <<>> /\ IsChunk(Head(queue))
    /\ queue' = Tail(queue)
    /\ taken' = Append(taken, Head(queue))
    /\ Unsaved /\ StaysRegistered
    /\ UNCHANGED <<producer, timedOut>>
TakeSentinel(item, status) ==
    /\ queue # <<>> /\ Head(queue) = item
    /\ queue' = Tail(queue)
    /\ SaveAs(status)
    /\ StaysRegistered
    /\ UNCHANGED <<producer, taken, timedOut>>
QueueEmpty ==
    /\ queue = <<>>
    /\ timedOut' = TRUE
    /\ Unsaved /\ StaysRegistered
    /\ UNCHANGED <<queue, producer, taken>>

ServedStatus ==
    CASE reason = "aborted" -> "INTERRUPTED"
      [] reason # "aborted" /\ failChunk \in ToSet(taken) -> "ERROR"
      [] OTHER -> "SUCCESS"
DrainedStatus == IF reason = "aborted" THEN "INTERRUPTED" ELSE "SUCCESS"

ServeChunk == Serve("serving", "yielding") /\ TakeChunk
ServeError == Serve("serving", "leaving") /\ TakeSentinel(Raised, "ERROR")
ServeEnd == Serve("serving", "leaving") /\ TakeSentinel(StopIteration, ServedStatus)
ServeTimeout == Serve("serving", "timingOut") /\ QueueEmpty
\* mutant: the timeout is stored before its chunk is yielded
SavesBeforeYield ==
    /\ CloseReturns("serve")
    /\ Serve("timingOut", "timedOut")
    /\ SaveAs("ERROR")
    /\ UNCHANGED <<queue, producer, taken, timedOut, registered>>
\* mutant: the generator of a timed-out turn is not closed
GivesUpOpen ==
    /\ Serve("timingOut", "timedOut")
    /\ UNCHANGED <<queue, producer, taken, saved, timedOut, registered>>
ServeTimedOut ==
    /\ CloseReturns("serve")
    /\ Serve("timingOut", "timedOut")
    /\ UNCHANGED <<queue, producer, taken, saved, timedOut, registered>>

\* the client reads what was yielded, or is gone (GeneratorExit at the yield)
ClientTakes ==
    /\ Serve("yielding", "serving")
    /\ UNCHANGED <<queue, producer, taken, saved, timedOut, registered>>
ClientTakesTimeout ==
    /\ Serve("timedOut", "leaving")
    /\ SaveAs("ERROR")
    /\ UNCHANGED <<queue, producer, taken, timedOut, registered>>
HandOff == Unsaved /\ StaysRegistered
ClientLeaves ==
    /\ Serve("yielding", "drainQueued") \/ Serve("timedOut", "drainQueued")
    /\ HandOff
    /\ UNCHANGED <<queue, producer, taken, timedOut>>

\* The drainer waits for a worker of the same pool, which takes its work in the
\* order it came in: the run before the drainer.
DrainStart ==
    /\ ~poolFull /\ producer # "submitted"
    /\ Serve("drainQueued", "draining")
    /\ UNCHANGED <<queue, producer, taken, saved, timedOut, registered>>
DrainChunk == Serve("draining", "draining") /\ TakeChunk
DrainError == Serve("draining", "leaving") /\ TakeSentinel(Raised, "ERROR")
DrainEnd == Serve("draining", "leaving") /\ TakeSentinel(StopIteration, DrainedStatus)
\* mutant: the drainer waits without a timeout
DrainsForever == Serve("draining", "drainTimingOut") /\ QueueEmpty /\ closed
DrainTimeout == Serve("draining", "drainTimingOut") /\ QueueEmpty
DrainTimedOut ==
    /\ CloseReturns("drain")
    /\ Serve("drainTimingOut", "leaving")
    /\ SaveAs("ERROR")
    /\ UNCHANGED <<queue, producer, taken, timedOut, registered>>

Unregister ==
    /\ Serve("leaving", "done")
    /\ RegLockFree /\ registered' = FALSE
    /\ UNCHANGED <<queue, producer, taken, saved, timedOut>>

-----------------------------------------------------------------------------
(* The abort endpoint and the clients that come back *)

Aborting(from, to) ==
    /\ aborter = from /\ aborter' = to
    /\ UNCHANGED <<genVars, runVars, serveVars, readVars, poolFull>>
AbortStart == registered /\ Aborting("idle", "aborting") /\ UNCHANGED registered
AbortEnd ==
    /\ CloseReturns("abort")
    /\ Aborting("aborting", "done")
    /\ registered' = FALSE

Read(r, from, to) ==
    /\ reader[r] = from /\ reader' = [reader EXCEPT ![r] = to]
    /\ UNCHANGED <<hist, queue, closed, reason, closing, runVars, serveVars, registered,
                   aborter, poolFull>>
Stays(r) == UNCHANGED <<subscribers, subQueue, got>>
Unsubscribes(r) == subscribers' = subscribers \ {r} /\ UNCHANGED <<subQueue, got>>

FindGenerator(r) == registered /\ RegLockFree /\ Read(r, "idle", "found") /\ Stays(r)

Subscribe(r) ==
    /\ Read(r, "found", IF closed THEN "done" ELSE "live")
    /\ got' = [got EXCEPT ![r] = SnapshotHistory]
    /\ subscribers' = IF closed THEN subscribers ELSE subscribers \cup {r}
    /\ UNCHANGED subQueue

ReadChunk(r) ==
    /\ Read(r, "live", "live")
    /\ subQueue[r] # <<>> /\ IsChunk(Head(subQueue[r]))
    /\ subQueue' = [subQueue EXCEPT ![r] = Tail(@)]
    /\ got' = [got EXCEPT ![r] = Append(@, Head(subQueue[r]))]
    /\ UNCHANGED subscribers
ReadEnd(r) ==
    /\ Read(r, "live", "done")
    /\ subQueue[r] # <<>> /\ ~IsChunk(Head(subQueue[r]))
    /\ Unsubscribes(r)
\* queue.Empty is raised; is_closed() is looked at only afterwards
ReadTimeout(r) == subQueue[r] = <<>> /\ Read(r, "live", "check") /\ Stays(r)
ReadOn(r) == ~closed /\ Read(r, "check", "live") /\ Stays(r)
ReadGivesUp(r) == closed /\ Read(r, "check", "done") /\ Unsubscribes(r)
ReaderLeaves(r) == Read(r, "live", "left") /\ Unsubscribes(r)

\* The runs and drainers of other turns take the pool's workers and give them
\* back, which matters while work of this turn waits for one.
PoolChanges ==
    /\ producer = "submitted" \/ server = "drainQueued"
    /\ poolFull' = ~poolFull
    /\ UNCHANGED <<genVars, runVars, serveVars, registered, aborter, readVars>>

-----------------------------------------------------------------------------
Serves ==
    \/ ServeChunk \/ ServeError \/ ServeEnd \/ ServeTimeout \/ ServeTimedOut
    \/ ClientTakes \/ ClientTakesTimeout \/ ClientLeaves
    \/ DrainStart \/ DrainChunk \/ DrainError \/ DrainEnd \/ DrainTimeout \/ DrainTimedOut
    \/ SetupFailed \/ Unregister
Reads(r) == ReadChunk(r) \/ ReadEnd(r) \/ ReadTimeout(r) \/ ReadOn(r) \/ ReadGivesUp(r)

Next ==
    \/ \E s \in Senders : Publish(s) \/ ReportFailure(s) \/ Enqueue(s) \/ ProcessThought(s)
    \/ \E who \in Closers : Close(who)
    \/ CloseEnds
    \/ ProducerStarts \/ RunReturns \/ RunRaises \/ RunFailed \/ ProducerDone
    \/ SetupFails \/ ServeStart
    \/ ServeChunk \/ ServeError \/ ServeEnd \/ ServeTimeout \/ ServeTimedOut
    \/ ClientTakes \/ ClientTakesTimeout \/ ClientLeaves
    \/ DrainStart \/ DrainChunk \/ DrainError \/ DrainEnd \/ DrainTimeout \/ DrainTimedOut
    \/ SetupFailed \/ Unregister
    \/ AbortStart \/ AbortEnd
    \/ \E r \in Readers : FindGenerator(r) \/ Subscribe(r) \/ ReaderLeaves(r)
    \/ \E r \in Readers : ReadChunk(r) \/ ReadEnd(r) \/ ReadTimeout(r) \/ ReadOn(r)
                          \/ ReadGivesUp(r)
    \/ PoolChanges

Spec == Init /\ [][Next]_vars

(***************************************************************************)
(* Fairness: threads inside send() and close() move on, and a thread that  *)
(* keeps asking for the lock gets it; the server and a subscriber read     *)
(* their queues with a timeout; the HTTP server resumes or cancels a       *)
(* response it is iterating; the pool starts its work in turn whenever a   *)
(* worker is free.  Nothing is assumed of the agent, the run may hang, nor *)
(* of the pool: its workers may all be held by runs that hang.             *)
(***************************************************************************)
FairSpec ==
    /\ Spec
    /\ \A s \in Senders : WF_vars(Enqueue(s))
    /\ \A who \in Closers : SF_vars(Close(who))
    /\ WF_vars(CloseEnds)
    /\ SF_vars(ProducerStarts) /\ SF_vars(Serves)
    /\ SF_vars(AbortEnd)
    /\ \A r \in Readers : WF_vars(Reads(r))
-----------------------------------------------------------------------------
(* Properties *)

Ended(r) == reader[r] \in {"done", "left"}

\* The queue holds the chunks n+1..m in order, then nothing but the marks of close().
Holds(q, n, m) ==
    /\ m - n \in 0..Len(q)
    /\ \A i \in 1..(m - n) : q[i] = n + i
    /\ \A i \in (m - n + 1)..Len(q) : ~IsChunk(q[i])

\* The server reads the chunks in the order they were published, none missing
\* or twice, however many threads send at once, and nothing after StopIteration:
\* send() keeps _close_lock from publishing a chunk until it is queued.
QueueInOrder ==
    /\ taken = UpTo(Len(taken))
    /\ Holds(queue, Len(taken), IF NoneSending THEN hist ELSE hist - 1)
    /\ \A i \in 1..Len(queue) - 1 : queue[i] # StopIteration

\* A client that subscribes in the middle of a turn gets the snapshot and then
\* the live chunks with no gap and no duplicate at the boundary (subscribe and
\* send share _sub_lock).
SubscriberInOrder ==
    \A r \in subscribers :
        reader[r] \in {"live", "check"} =>
            /\ got[r] = UpTo(Len(got[r]))
            /\ Holds(subQueue[r], Len(got[r]), hist)

\* A turn stored as finished or interrupted holds everything that was ever
\* published, whether the server or the drainer stored it.  A success is never
\* a turn the user aborted; if the run also reported no failure and nobody gave
\* up waiting for it, every thought is stored, although thoughts are merged
\* outside the lock.
SavedIsWhole ==
    /\ saved.status \in {"SUCCESS", "INTERRUPTED"} => saved.chunks = hist
    /\ saved.status = "SUCCESS" =>
        /\ reason # "aborted"
        /\ ~timedOut /\ failChunk = 0 => saved.thoughts = 1..hist

\* The turn is stored once: the server and the drainer it hands over to never
\* both store it, wherever the client leaves.
SavedOnce == [][saved # NotSaved => UNCHANGED saved]_vars

\* The drainer of a turn is queued behind the runs of the others.
PoolServes == []<>~poolFull

\* A served turn is stored and its generator forgotten, even if the run hangs or
\* loses its client, as long as a worker of the assistant pool is free now and
\* then.
TurnEnds == PoolServes => (server = "serving" ~> saved # NotSaved /\ ~registered)

\* A subscriber of a served turn is not kept waiting forever, under the same
\* condition: a turn that is not drained is not closed either.
SubscribersEnd ==
    PoolServes => \A r \in Readers : (reader[r] = "live" /\ server # "new" ~> Ended(r))
=============================================================================
