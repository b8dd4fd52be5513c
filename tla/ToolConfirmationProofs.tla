------------------------- MODULE ToolConfirmationProofs -------------------------
(***************************************************************************)
(* Proofs about ToolConfirmation, for any number of messages, resumes,     *)
(* agents, wire ids and AI messages, with every fault allowed.             *)
(***************************************************************************)
EXTENDS ToolConfirmation, TLAPS

\* A call that may run: not held back, or allowed by a user.
Cleared(c) == Risky(c) => c \in granted

\* What an interrupt recorded of a call is true of the call.
SoundItem(i) ==
    /\ i.call \in Proposed
    /\ i.verdict = "ask" => Risky(i.call)
    /\ i.verdict = "allow" => Cleared(i.call)

SoundGraph(g) ==
    /\ \A i \in g.waiting : SoundItem(i)
    /\ \A c \in g.ready : c \in Proposed /\ Cleared(c)

SoundDecision(d) == d.action = "allow" => d.call \in Proposed /\ Cleared(d.call)

\* A pass that has not happened has no calls; the policy holds back real calls.
PassesSound == \A p \in Passes :
    /\ passes[p].risky \subseteq passes[p].wires
    /\ p > lastPass => passes[p].wires = {}

RowSound == \A i \in row : SoundItem(i) /\ (i.verdict = "ask" => i.call \in asked)
CarrierSound == \A t \in Turns : \A d \in carrier[t] : SoundDecision(d)
GraphsSound == SoundGraph(ckpt.graph) /\ \A t \in Turns : SoundGraph(mem[t])
HistorySound ==
    /\ asked \subseteq Held
    /\ granted \subseteq asked
    /\ \A c \in Calls : ran[c] > 0 => c \in Proposed /\ Cleared(c)

\* RunsOnlyWhenGranted is not inductive: nothing in it says where a ready call
\* came from.  Its strengthening follows a permission through every place that
\* stores one: interrupts, checkpoint, row, carrier, memory of each run.
IndInv == TypeOK /\ PassesSound /\ RowSound /\ CarrierSound /\ GraphsSound /\ HistorySound

-----------------------------------------------------------------------------
(* Type correctness *)

USE DEF Turns, Passes, Calls, PassOf

LEMMA GraphUpdate ==
    ASSUME NEW m \in [Turns -> GraphState], NEW t \in Turns, NEW g \in GraphState
    PROVE  /\ [m EXCEPT ![t] = g] \in [Turns -> GraphState]
           /\ [m EXCEPT ![t] = g][t] = g
  OBVIOUS

\* The database operations keep the types of the stored checkpoint.
LEMMA StoreTypes ==
    ASSUME ckpt \in Checkpoint, NEW t \in Turns, NEW g \in GraphState, NEW h \in GraphState,
           NEW p \in Passes, SaveStep(t, p, g, h) \/ PutWrites(t, g) \/ PutCheckpoint(t, g)
    PROVE  ckpt' \in Checkpoint
<1>1. [graph |-> g, holders |-> {t}, writesOnly |-> FALSE] \in Checkpoint
  BY DEF Checkpoint
<1>2. /\ [ckpt EXCEPT !.graph = g] \in Checkpoint /\ [ckpt EXCEPT !.graph = h] \in Checkpoint
      /\ [ckpt EXCEPT !.writesOnly = TRUE] \in Checkpoint
  BY DEF Checkpoint
<1> QED BY <1>1, <1>2 DEF SaveStep, PutWrites, PutCheckpoint

\* The calls of a gate, with their verdicts, are items.
LEMMA GateTypes ==
    ASSUME TypeOK, NEW t \in Turns, NEW p \in Passes
    PROVE  /\ GateItems(t, p) \subseteq Items
           /\ AllowedCalls(t, p) \subseteq Calls
<1>1. CallsOf(p) \subseteq Calls
  <2>1. passes[p] \in [loc : Locations, wires : SUBSET Wires, risky : SUBSET Wires]
    BY DEF TypeOK
  <2> QED BY <2>1 DEF CallsOf
<1>2. \A c \in Calls : CallVerdict(t, c) \in Verdicts
  BY DEF CallVerdict, Verdicts
<1>3. GateItems(t, p) \subseteq Items
  BY <1>1, <1>2 DEF GateItems, Items
<1> QED BY <1>3 DEF AllowedCalls, Items

LEMMA TypeInit == Init => TypeOK
<1> SUFFICES ASSUME Init PROVE TypeOK
  OBVIOUS
<1>1. EmptyGraph \in GraphState
  BY DEF EmptyGraph, GraphState
<1>2. ckpt \in Checkpoint
  BY <1>1 DEF Init, NoCheckpoint, Checkpoint
<1>3. passes \in [Passes -> [loc : Locations, wires : SUBSET Wires, risky : SUBSET Wires]]
  BY DEF Init
<1> QED BY <1>1, <1>2, <1>3, BoundAssumption DEF Init, TypeOK

LEMMA GotoTypes ==
    ASSUME TypeOK, NEW t \in Turns, NEW from, NEW to \in Active \cup {"done", "dead"},
           Goto(t, from, to)
    PROVE  pc' \in [Turns -> Active \cup {"idle", "done", "dead"}]
  BY DEF Goto, TypeOK

LEMMA TypeNext == ASSUME TypeOK, Next PROVE TypeOK'
<1> USE DEF dbVars, runVars, history
<1>0. PICK t \in Turns :
          \/ TurnStart(t) \/ Consume(t) \/ ResumeRefused(t)
          \/ Progress(t) \/ EmitMessage(t)
          \/ BeginResumeFails(t) \/ RunFails(t) \/ Abort(t) \/ Crash(t)
  BY DEF Next
<1>g. EmptyGraph \in GraphState /\ NoCheckpoint \in Checkpoint
  BY DEF EmptyGraph, GraphState, NoCheckpoint, Checkpoint
<1>1. CASE TurnStart(t)
  <2>1. pc' \in [Turns -> Active \cup {"idle", "done", "dead"}]
    BY <1>1, GotoTypes DEF TurnStart, Active
  <2>2. row' = {} /\ ckpt' \in Checkpoint
    BY <1>1, <1>g DEF TurnStart, TakePause, TypeOK
  <2> QED BY <1>1, <2>1, <2>2 DEF TurnStart, TypeOK
<1>2. CASE RunStart(t)
  <2>1. pc' \in [Turns -> Active \cup {"idle", "done", "dead"}]
    BY <1>2, GotoTypes DEF RunStart, Active
  <2>2. mem' \in [Turns -> GraphState]
    BY <1>2, <1>g, GraphUpdate DEF RunStart, TypeOK
  <2> QED BY <1>2, <1>g, <2>1, <2>2 DEF RunStart, DeleteCheckpoints, TypeOK
<1>3. CASE Consume(t)
  <2>1. pc' \in [Turns -> Active \cup {"idle", "done", "dead"}]
    BY <1>3, GotoTypes DEF Consume, Active
  <2>2. PICK allowedKeys :
            /\ carrier' = [carrier EXCEPT ![t] = {Applied(i, allowedKeys) : i \in row}]
            /\ granted' = granted \cup {i.call : i \in {j \in Shown(row) : KeyOf(j.call) \in allowedKeys}}
    BY <1>3 DEF Consume
  <2>3. \A i \in Items : Applied(i, allowedKeys) \in Decisions
    BY DEF Applied, Items, Decisions, Verdicts
  <2>4. carrier' \in [Turns -> SUBSET Decisions]
    BY <2>2, <2>3 DEF TypeOK
  <2>5. granted' \subseteq Calls
    BY <2>2 DEF TypeOK, Shown, Items
  <2> QED BY <1>3, <2>1, <2>4, <2>5 DEF Consume, TypeOK
<1>4. CASE ResumeRefused(t) \/ BeginResume(t) \/ BeginResumeFails(t) \/ RunFails(t)
           \/ StreamStops(t) \/ AskNothing(t) \/ Crash(t)
  <2>1. pc' \in [Turns -> Active \cup {"idle", "done", "dead"}]
    BY <1>4 DEF ResumeRefused, BeginResume, BeginResumeFails, RunFails, StreamStops,
                AskNothing, Crash, Goto, Active, TypeOK
  <2>2. UNCHANGED <<unresumable, row, ckpt, passes, lastPass, mem, carrier, acks, closed, asked, granted, ran>>
    BY <1>4 DEF ResumeRefused, BeginResume, BeginResumeFails, RunFails, StreamStops,
                AskNothing, Crash
  <2> QED BY <2>1, <2>2 DEF TypeOK
<1>5. CASE ReadInterrupts(t)
  <2>1. pc' \in [Turns -> Active \cup {"idle", "done", "dead"}]
    BY <1>5, GotoTypes DEF ReadInterrupts, Active
  <2>2. PassesOf(ckpt.graph.waiting) \subseteq Passes
    BY DEF PassesOf, TypeOK, Checkpoint, GraphState, Items
  <2> QED BY <1>5, <2>1, <2>2 DEF ReadInterrupts, TypeOK
<1>6. CASE LoadCheckpoint(t)
  <2>1. PassesOf(ckpt.graph.waiting) \subseteq Passes
    BY DEF PassesOf, TypeOK, Checkpoint, GraphState, Items
  <2> DEFINE g == [fresh |-> ckpt.graph.fresh \cup PassesOf(ckpt.graph.waiting),
                   waiting |-> {}, ready |-> ckpt.graph.ready]
  <2>a. g \in GraphState
    BY <2>1 DEF TypeOK, Checkpoint, GraphState
  <2>b. mem' \in {mem, [mem EXCEPT ![t] = g]}
    BY <1>6 DEF LoadCheckpoint
  <2>c. mem' \in [Turns -> GraphState]
    <3> HIDE DEF g
    <3> QED BY <2>a, <2>b, GraphUpdate DEF TypeOK
  <2>d. ckpt' \in Checkpoint
    <3>1. ckpt' \in {ckpt, [ckpt EXCEPT !.holders = @ \cup {t}]}
      BY <1>6 DEF LoadCheckpoint
    <3>2. [ckpt EXCEPT !.holders = @ \cup {t}] \in Checkpoint
      BY DEF TypeOK, Checkpoint
    <3> QED BY <3>1, <3>2 DEF TypeOK
  <2>2. mem' \in [Turns -> GraphState] /\ ckpt' \in Checkpoint
    BY <2>c, <2>d
  <2>3. pc' \in [Turns -> Active \cup {"idle", "done", "dead"}]
    BY <1>6, GotoTypes DEF LoadCheckpoint, Active
  <2> QED BY <1>6, <2>2, <2>3 DEF LoadCheckpoint, TypeOK
<1>7. CASE EmitMessage(t)
  <2>1. lastPass' \in Passes
    BY <1>7, BoundAssumption DEF EmitMessage, TypeOK
  <2>2. PICK l \in Locations, W \in SUBSET Wires, R \in SUBSET Wires :
            /\ passes' = [passes EXCEPT ![lastPass'] = [loc |-> l, wires |-> W, risky |-> R]]
            /\ mem' = [mem EXCEPT ![t].fresh = @ \cup {lastPass'}]
            /\ SaveStep(t, lastPass', mem'[t], [ckpt.graph EXCEPT !.fresh = @ \cup {lastPass'}])
    BY <1>7 DEF EmitMessage
  <2>3. passes' \in [Passes -> [loc : Locations, wires : SUBSET Wires, risky : SUBSET Wires]]
    BY <2>1, <2>2 DEF TypeOK
  <2>a. mem[t] \in GraphState
    BY DEF TypeOK
  <2>b. [mem[t] EXCEPT !.fresh = @ \cup {lastPass'}] \in GraphState
    BY <2>1, <2>a DEF GraphState
  <2>c. mem' = [mem EXCEPT ![t] = [mem[t] EXCEPT !.fresh = @ \cup {lastPass'}]]
    BY <2>2
  <2>4. mem' \in [Turns -> GraphState] /\ mem'[t] \in GraphState
    BY <2>b, <2>c, GraphUpdate DEF TypeOK
  <2>5. [ckpt.graph EXCEPT !.fresh = @ \cup {lastPass'}] \in GraphState
    BY <2>1 DEF TypeOK, Checkpoint, GraphState
  <2>6. ckpt' \in Checkpoint
    BY <2>1, <2>2, <2>4, <2>5, StoreTypes DEF TypeOK
  <2> QED BY <1>7, <2>1, <2>3, <2>4, <2>6 DEF EmitMessage, TypeOK
<1>8. ASSUME NEW p \in Passes, GatePauses(t, p) PROVE TypeOK'
  <2>1. GateItems(t, p) \subseteq Items
    BY GateTypes
  <2>a. mem[t] \in GraphState
    BY DEF TypeOK
  <2>b. [mem[t] EXCEPT !.fresh = @ \ {p}, !.waiting = @ \cup GateItems(t, p)] \in GraphState
    BY <2>1, <2>a DEF GraphState
  <2>c. mem' = [mem EXCEPT ![t] = [mem[t] EXCEPT !.fresh = @ \ {p}, !.waiting = @ \cup GateItems(t, p)]]
    BY <1>8 DEF GatePauses
  <2>2. mem' \in [Turns -> GraphState]
    BY <2>b, <2>c, GraphUpdate DEF TypeOK
  <2>3. [ckpt.graph EXCEPT !.fresh = @ \ {p}, !.waiting = @ \cup GateItems(t, p)] \in GraphState
    BY <2>1 DEF TypeOK, Checkpoint, GraphState
  <2>4. ckpt' \in Checkpoint
    BY <1>8, <2>3 DEF GatePauses, PutWrites, TypeOK, Checkpoint
  <2> QED BY <1>8, <2>2, <2>4 DEF GatePauses, TypeOK
<1>9. ASSUME NEW p \in Passes, GatePasses(t, p) PROVE TypeOK'
  <2>1. AllowedCalls(t, p) \subseteq Calls
    BY GateTypes
  <2>a. mem[t] \in GraphState
    BY DEF TypeOK
  <2>b. [mem[t] EXCEPT !.fresh = @ \ {p}, !.ready = @ \cup AllowedCalls(t, p)] \in GraphState
    BY <2>1, <2>a DEF GraphState
  <2>c. mem' = [mem EXCEPT ![t] = [mem[t] EXCEPT !.fresh = @ \ {p}, !.ready = @ \cup AllowedCalls(t, p)]]
    BY <1>9 DEF GatePasses
  <2>2. mem' \in [Turns -> GraphState] /\ mem'[t] \in GraphState
    BY <2>b, <2>c, GraphUpdate DEF TypeOK
  <2>3. [fresh |-> ckpt.graph.fresh \ {p},
         waiting |-> {i \in ckpt.graph.waiting : PassOf(i.call) # p},
         ready |-> ckpt.graph.ready \cup AllowedCalls(t, p)] \in GraphState
    BY <2>1 DEF TypeOK, Checkpoint, GraphState
  <2>4. ckpt' \in Checkpoint
    BY <1>9, <2>2, <2>3, StoreTypes DEF GatePasses, TypeOK
  <2> QED BY <1>9, <2>2, <2>4 DEF GatePasses, TypeOK
<1>10. ASSUME NEW c \in Calls, RunTool(t, c) PROVE TypeOK'
  <2>a. mem[t] \in GraphState
    BY DEF TypeOK
  <2>b. [mem[t] EXCEPT !.ready = @ \ {c}] \in GraphState
    BY <2>a DEF GraphState
  <2>c. mem' = [mem EXCEPT ![t] = [mem[t] EXCEPT !.ready = @ \ {c}]]
    BY <1>10 DEF RunTool
  <2>1. mem' \in [Turns -> GraphState]
    BY <2>b, <2>c, GraphUpdate DEF TypeOK
  <2>2. ckpt' \in Checkpoint
    BY <1>10 DEF RunTool, PutWrites, TypeOK, Checkpoint, GraphState
  <2>3. ran' \in [Calls -> 0..2]
    <3> HIDE DEF Calls
    <3>1. ran \in [Calls -> 0..2] /\ ran' = [ran EXCEPT ![c] = IF @ = 2 THEN 2 ELSE @ + 1]
      BY <1>10 DEF RunTool, TypeOK
    <3>2. ran[c] \in 0..2
      BY <3>1
    <3> QED BY <3>1, <3>2
  <2> QED BY <1>10, <2>1, <2>2, <2>3 DEF RunTool, TypeOK
<1>11. CASE GraphEnds(t)
  <2>1. pc' \in [Turns -> Active \cup {"idle", "done", "dead"}]
    BY <1>11, GotoTypes DEF GraphEnds, Active
  <2>2. ckpt' \in Checkpoint
    <3>1. [graph |-> EmptyGraph, holders |-> {t}, writesOnly |-> FALSE] \in Checkpoint
      BY <1>g DEF Checkpoint
    <3> QED BY <1>11, <3>1 DEF GraphEnds, PutCheckpoint, TypeOK
  <2> QED BY <1>11, <2>1, <2>2 DEF GraphEnds, TypeOK
<1>12. CASE AskPauses(t)
  <2>1. pc' \in [Turns -> Active \cup {"idle", "done", "dead"}]
    BY <1>12, GotoTypes DEF AskPauses, Active
  <2>2. PendingItems(t) \subseteq Items
    BY DEF PendingItems, TypeOK, Checkpoint, GraphState
  <2>3. asked' \subseteq Calls
    BY <1>12, <2>2 DEF AskPauses, Shown, Items, TypeOK
  <2> QED BY <1>12, <2>1, <2>2, <2>3 DEF AskPauses, WritePause, TypeOK
<1>13. CASE Finish(t)
  <2>1. pc' \in [Turns -> Active \cup {"idle", "done", "dead"}]
    BY <1>13, GotoTypes DEF Finish, Active
  <2>2. ckpt' \in Checkpoint
    BY <1>13, <1>g DEF Finish, DeleteCheckpointsIfNoPending, TypeOK
  <2> QED BY <1>13, <2>1, <2>2 DEF Finish, TypeOK
<1>14. CASE Abort(t)
  BY <1>14 DEF Abort, TypeOK
<1> QED BY <1>0, <1>1, <1>2, <1>3, <1>4, <1>5, <1>6, <1>7, <1>8, <1>9, <1>10, <1>11, <1>12,
           <1>13, <1>14 DEF Progress, Gate, Tools

LEMMA TypeStep == TypeOK /\ [Next]_vars => TypeOK'
<1>1. CASE Next
  BY <1>1, TypeNext
<1>2. CASE UNCHANGED vars
  BY <1>2 DEF vars, TypeOK
<1> QED BY <1>1, <1>2

\* Every variable keeps its type in every behaviour.
THEOREM TypeCorrect == Spec => []TypeOK
  BY TypeInit, TypeStep, PTL DEF Spec

-----------------------------------------------------------------------------
(* Where permissions live *)

Facts == RowSound /\ CarrierSound /\ GraphsSound /\ HistorySound

\* A step that forgets no proposal and no grant and leaves the policy's verdict
\* on proposed calls keeps every stored item, graph and decision sound.
Keeps ==
    /\ Proposed \subseteq Proposed'
    /\ granted \subseteq granted'
    /\ \A c \in Proposed : Risky(c)' = Risky(c)

LEMMA SoundKept ==
    ASSUME Keeps
    PROVE  /\ \A i : SoundItem(i) => SoundItem(i)'
           /\ \A g : SoundGraph(g) => SoundGraph(g)'
           /\ \A d : SoundDecision(d) => SoundDecision(d)'
           /\ \A c : c \in Proposed /\ Cleared(c) => (c \in Proposed /\ Cleared(c))'
<1>1. \A c : c \in Proposed /\ Cleared(c) => (c \in Proposed /\ Cleared(c))'
  BY DEF Keeps, Cleared
<1>2. \A i : SoundItem(i) => SoundItem(i)'
  BY <1>1 DEF Keeps, SoundItem
<1>3. \A g : SoundGraph(g) => SoundGraph(g)'
  BY <1>1, <1>2 DEF SoundGraph
<1>4. \A d : SoundDecision(d) => SoundDecision(d)'
  BY <1>1 DEF SoundDecision
<1> QED BY <1>1, <1>2, <1>3, <1>4

\* Every step but a new AI message leaves the messages alone.
LEMMA KeepsIfSame ==
    ASSUME UNCHANGED passes, granted \subseteq granted'
    PROVE  Keeps /\ Proposed' = Proposed /\ Held' = Held
  BY DEF Keeps, Proposed, Held, Risky, CallsOf

\* The store never holds anything but what one of the two graphs held.
LEMMA StoreSound ==
    ASSUME TypeOK, NEW t \in Turns, NEW g, NEW h, NEW p,
           SoundGraph(ckpt.graph), SoundGraph(g), SoundGraph(h),
           SaveStep(t, p, g, h) \/ PutWrites(t, h) \/ PutCheckpoint(t, g)
    PROVE  ckpt'.graph \in {ckpt.graph, g, h}
  BY DEF SaveStep, PutWrites, PutCheckpoint, TypeOK, Checkpoint

\* What a gate decides: a carried permission of this very call stands, and
\* nothing else lets a call of the policy through.
LEMMA GateSound ==
    ASSUME TypeOK, CarrierSound, NEW t \in Turns, NEW p \in Passes
    PROVE  /\ \A i \in GateItems(t, p) : SoundItem(i)
           /\ \A c \in AllowedCalls(t, p) : c \in Proposed /\ Cleared(c)
<1>1. ASSUME NEW c \in CallsOf(p), "allow" \in Carried(t, c) PROVE Cleared(c)
  <2>1. c \in Calls /\ c = <<p, c[2]>>
    <3>1. passes[p] \in [loc : Locations, wires : SUBSET Wires, risky : SUBSET Wires]
      BY DEF TypeOK
    <3> QED BY <3>1, <1>1 DEF CallsOf
  <2>2. PICK d \in carrier[t] : d.action = "allow" /\ KeyOf(d.call) = KeyOf(c) /\ PassOf(d.call) = PassOf(c)
    BY <1>1 DEF Carried
  <2>3. d.call \in Calls
    BY <2>2 DEF TypeOK, Decisions
  <2>4. d.call = c
    BY <2>1, <2>2, <2>3 DEF KeyOf
  <2> QED BY <2>2, <2>4 DEF CarrierSound, SoundDecision
<1>2. \A c \in CallsOf(p) : c \in Proposed
  <2>1. passes[p] \in [loc : Locations, wires : SUBSET Wires, risky : SUBSET Wires]
    BY DEF TypeOK
  <2> QED BY <2>1 DEF CallsOf, Proposed
<1>3. ASSUME NEW c \in CallsOf(p), CallVerdict(t, c) = "allow" PROVE Cleared(c)
  BY <1>1, <1>3 DEF CallVerdict, Cleared
<1>4. ASSUME NEW c \in CallsOf(p), CallVerdict(t, c) = "ask" PROVE Risky(c)
  BY <1>4 DEF CallVerdict
<1>5. \A i \in GateItems(t, p) : SoundItem(i)
  BY <1>2, <1>3, <1>4 DEF GateItems, SoundItem
<1> QED BY <1>5 DEF AllowedCalls, SoundItem

\* What every step except a pause and a tool execution has to show.
LEMMA FactsKept ==
    ASSUME Facts, Keeps, ran' = ran, row' \subseteq row, asked \subseteq asked',
           asked' \subseteq Held', granted' \subseteq asked',
           SoundGraph(ckpt'.graph),
           \A t \in Turns : SoundGraph(mem'[t]),
           \A t \in Turns : \A d \in carrier'[t] : SoundDecision(d) \/ SoundDecision(d)'
    PROVE  Facts'
<1>1. RowSound'
  BY SoundKept DEF Facts, RowSound
<1>2. CarrierSound'
  BY SoundKept DEF CarrierSound
<1>3. SoundGraph(ckpt.graph)'
  BY SoundKept DEF SoundGraph
<1>4. ASSUME NEW t \in Turns PROVE SoundGraph(mem[t])'
  BY SoundKept DEF SoundGraph
<1>5. HistorySound'
  BY SoundKept DEF Facts, HistorySound
<1> QED BY <1>1, <1>2, <1>3, <1>4, <1>5 DEF Facts, GraphsSound

LEMMA FactsInit == Init => PassesSound /\ Facts
<1> SUFFICES ASSUME Init PROVE PassesSound /\ Facts
  OBVIOUS
<1>1. PassesSound
  BY DEF Init, PassesSound
<1>2. SoundGraph(EmptyGraph)
  BY DEF SoundGraph, EmptyGraph
<1>3. GraphsSound
  BY <1>2 DEF Init, GraphsSound, NoCheckpoint
<1>4. RowSound /\ CarrierSound /\ HistorySound
  BY DEF Init, RowSound, CarrierSound, HistorySound
<1> QED BY <1>1, <1>3, <1>4 DEF Facts

LEMMA FactsNext ==
    ASSUME TypeOK, TypeOK', PassesSound, Facts, Next
    PROVE  PassesSound' /\ Facts'
<1> USE DEF dbVars, runVars, history
<1>0. PICK t \in Turns :
          \/ TurnStart(t) \/ Consume(t) \/ ResumeRefused(t)
          \/ Progress(t) \/ EmitMessage(t)
          \/ BeginResumeFails(t) \/ RunFails(t) \/ Abort(t) \/ Crash(t)
  BY DEF Next
<1>e. SoundGraph(EmptyGraph) /\ SoundGraph(NoCheckpoint.graph)
  BY DEF SoundGraph, EmptyGraph, NoCheckpoint
<1>g. /\ SoundGraph(ckpt.graph) /\ SoundGraph(mem[t])
      /\ \A u \in Turns : SoundGraph(mem[u])
      /\ \A u \in Turns : \A d \in carrier[u] : SoundDecision(d)
      /\ asked \subseteq Held /\ granted \subseteq asked
  BY DEF Facts, GraphsSound, CarrierSound, HistorySound
<1>p. UNCHANGED <<passes, lastPass>> => PassesSound'
  BY DEF PassesSound
<1>k. UNCHANGED <<passes, granted>> => Keeps /\ Held' = Held
  BY KeepsIfSame
<1>1. CASE TurnStart(t)
  <2>1. UNCHANGED <<passes, lastPass, mem, carrier, asked, granted, ran>> /\ row' = {}
    BY <1>1 DEF TurnStart, TakePause
  <2>2. SoundGraph(ckpt'.graph)
    BY <1>1, <1>e, <1>g DEF TurnStart, TakePause
  <2> QED BY <1>g, <1>p, <1>k, <2>1, <2>2, FactsKept
<1>2. CASE RunStart(t)
  <2>1. UNCHANGED <<row, passes, lastPass, carrier, asked, granted, ran>>
    BY <1>2 DEF RunStart
  <2>2. SoundGraph(ckpt'.graph)
    BY <1>2, <1>e DEF RunStart, DeleteCheckpoints
  <2>3. \A u \in Turns : SoundGraph(mem'[u])
    BY <1>2, <1>e, <1>g DEF RunStart, TypeOK
  <2> QED BY <1>g, <1>p, <1>k, <2>1, <2>2, <2>3, FactsKept
<1>3. CASE Consume(t)
  <2>1. UNCHANGED <<ckpt, passes, lastPass, mem, asked, ran>> /\ row' = {}
    BY <1>3 DEF Consume
  <2>2. PICK allowedKeys :
            /\ carrier' = [carrier EXCEPT ![t] = {Applied(i, allowedKeys) : i \in row}]
            /\ granted' = granted \cup {i.call : i \in {j \in Shown(row) : KeyOf(j.call) \in allowedKeys}}
    BY <1>3 DEF Consume
  <2>3. Keeps /\ Held' = Held
    BY <2>1, <2>2, KeepsIfSame
  <2>4. granted' \subseteq asked'
    BY <1>g, <2>1, <2>2 DEF Facts, RowSound, Shown
  <2>5. ASSUME NEW i \in row, NEW d, d = Applied(i, allowedKeys) PROVE SoundDecision(d)'
    <3>1. SoundItem(i)' /\ i \in Items
      BY <2>3, SoundKept DEF Facts, RowSound, TypeOK
    <3>2. d.call = i.call
      BY <2>5 DEF Applied
    <3>3. CASE i.verdict = "ask" /\ KeyOf(i.call) \in allowedKeys
      BY <2>2, <3>1, <3>2, <3>3 DEF SoundDecision, SoundItem, Cleared, Shown
    <3>4. CASE ~(i.verdict = "ask" /\ KeyOf(i.call) \in allowedKeys)
      <4>1. d.action = "allow" => i.verdict = "allow"
        BY <2>5, <3>1, <3>4 DEF Applied, Items, Verdicts
      <4> QED BY <3>1, <3>2, <4>1 DEF SoundDecision, SoundItem
    <3> QED BY <3>3, <3>4
  <2>6. ASSUME NEW u \in Turns, NEW d \in carrier'[u] PROVE SoundDecision(d) \/ SoundDecision(d)'
    <3>1. d \in carrier[u] \/ \E i \in row : d = Applied(i, allowedKeys)
      BY <2>2 DEF TypeOK
    <3> QED BY <1>g, <2>5, <3>1
  <2> QED BY <1>g, <1>p, <2>1, <2>3, <2>4, <2>6, FactsKept
<1>4. CASE ResumeRefused(t) \/ BeginResume(t) \/ BeginResumeFails(t) \/ RunFails(t)
           \/ StreamStops(t) \/ AskNothing(t) \/ Crash(t) \/ ReadInterrupts(t) \/ Abort(t)
  <2>1. UNCHANGED <<row, ckpt, passes, lastPass, mem, carrier, asked, granted, ran>>
    BY <1>4 DEF ResumeRefused, BeginResume, BeginResumeFails, RunFails, StreamStops,
                AskNothing, Crash, ReadInterrupts, Abort
  <2> QED BY <1>g, <1>p, <1>k, <2>1, FactsKept
<1>5. CASE LoadCheckpoint(t)
  <2>1. UNCHANGED <<row, passes, lastPass, carrier, asked, granted, ran>>
    BY <1>5 DEF LoadCheckpoint
  <2>2. SoundGraph(ckpt'.graph)
    BY <1>5, <1>g DEF LoadCheckpoint, TypeOK, Checkpoint
  <2>3. \A u \in Turns : SoundGraph(mem'[u])
    BY <1>5, <1>g DEF LoadCheckpoint, SoundGraph, TypeOK
  <2> QED BY <1>g, <1>p, <1>k, <2>1, <2>2, <2>3, FactsKept
<1>6. CASE EmitMessage(t)
  <2>1. lastPass' \in Passes /\ lastPass' = lastPass + 1 /\ lastPass \in Nat
    BY <1>6, BoundAssumption DEF EmitMessage, TypeOK
  <2>2. UNCHANGED <<row, carrier, asked, granted, ran>>
    BY <1>6 DEF EmitMessage
  <2>3. PICK l \in Locations, W \in SUBSET Wires, R \in SUBSET Wires :
            /\ R \subseteq W
            /\ passes' = [passes EXCEPT ![lastPass'] = [loc |-> l, wires |-> W, risky |-> R]]
            /\ mem' = [mem EXCEPT ![t].fresh = @ \cup {lastPass'}]
            /\ SaveStep(t, lastPass', mem'[t], [ckpt.graph EXCEPT !.fresh = @ \cup {lastPass'}])
    BY <1>6 DEF EmitMessage
  <2>4. passes[lastPass'].wires = {}
    BY <2>1 DEF PassesSound
  <2>5. \A q \in Passes \ {lastPass'} : passes'[q] = passes[q]
    BY <2>3 DEF TypeOK
  <2>6. passes'[lastPass'] = [loc |-> l, wires |-> W, risky |-> R]
    BY <2>1, <2>3 DEF TypeOK
  <2>7. PassesSound'
    BY <2>1, <2>3, <2>5, <2>6 DEF PassesSound
  <2>8. \A c \in Proposed : PassOf(c) # lastPass' /\ PassOf(c) \in Passes
    BY <2>4 DEF Proposed, CallsOf
  <2>9. Keeps
    BY <2>2, <2>5, <2>8 DEF Keeps, Proposed, CallsOf, Risky
  <2>10. asked' \subseteq Held'
    <3>1. \A c \in Held : c \in Proposed
      <4>1. ASSUME NEW c \in Held PROVE c = <<PassOf(c), c[2]>> /\ c[2] \in passes[PassOf(c)].wires
        BY DEF Held, Risky, PassesSound
      <4> QED BY <4>1 DEF Held, Proposed, CallsOf
    <3> QED BY <1>g, <2>2, <2>9, <3>1 DEF Keeps, Held
  <2>11. \A u \in Turns : SoundGraph(mem'[u])
    BY <1>g, <2>3 DEF SoundGraph, TypeOK, GraphState
  <2>12. SoundGraph([ckpt.graph EXCEPT !.fresh = @ \cup {lastPass'}])
    BY <1>g DEF SoundGraph, TypeOK, Checkpoint, GraphState
  <2>13. SoundGraph(ckpt'.graph)
    BY <1>g, <2>3, <2>11, <2>12, StoreSound
  <2> QED BY <1>g, <2>2, <2>7, <2>9, <2>10, <2>11, <2>13, FactsKept
<1>7. ASSUME NEW p \in Passes, GatePauses(t, p) PROVE PassesSound' /\ Facts'
  <2>1. UNCHANGED <<row, passes, lastPass, carrier, asked, granted, ran>>
    BY <1>7 DEF GatePauses
  <2>2. \A i \in GateItems(t, p) : SoundItem(i)
    BY GateSound DEF Facts
  <2>3. SoundGraph(ckpt'.graph)
    BY <1>7, <1>g, <2>2 DEF GatePauses, PutWrites, SoundGraph, TypeOK, Checkpoint, GraphState
  <2>4. \A u \in Turns : SoundGraph(mem'[u])
    BY <1>7, <1>g, <2>2 DEF GatePauses, SoundGraph, TypeOK, GraphState
  <2> QED BY <1>g, <1>p, <1>k, <2>1, <2>3, <2>4, FactsKept
<1>8. ASSUME NEW p \in Passes, GatePasses(t, p) PROVE PassesSound' /\ Facts'
  <2>1. UNCHANGED <<row, passes, lastPass, carrier, asked, granted, ran>>
    BY <1>8 DEF GatePasses
  <2>2. \A c \in AllowedCalls(t, p) : c \in Proposed /\ Cleared(c)
    BY GateSound DEF Facts
  <2> DEFINE h == [fresh |-> ckpt.graph.fresh \ {p},
                   waiting |-> {i \in ckpt.graph.waiting : PassOf(i.call) # p},
                   ready |-> ckpt.graph.ready \cup AllowedCalls(t, p)]
  <2>3. SoundGraph(h)
    BY <1>g, <2>2 DEF SoundGraph
  <2>4. \A u \in Turns : SoundGraph(mem'[u])
    BY <1>8, <1>g, <2>2 DEF GatePasses, SoundGraph, TypeOK, GraphState
  <2>5. SaveStep(t, p, mem'[t], h)
    BY <1>8 DEF GatePasses
  <2>6. SoundGraph(ckpt'.graph)
    <3> HIDE DEF h
    <3> QED BY <1>g, <2>3, <2>4, <2>5, StoreSound
  <2> QED BY <1>g, <1>p, <1>k, <2>1, <2>4, <2>6, FactsKept
<1>9. ASSUME NEW c \in Calls, RunTool(t, c) PROVE PassesSound' /\ Facts'
  <2>1. UNCHANGED <<row, passes, lastPass, carrier, asked, granted>>
    BY <1>9 DEF RunTool
  <2>2. Keeps /\ Held' = Held
    BY <1>k, <2>1
  <2>3. c \in Proposed /\ Cleared(c)
    BY <1>9, <1>g DEF RunTool, SoundGraph
  <2>4. SoundGraph(ckpt'.graph)
    BY <1>9, <1>g DEF RunTool, PutWrites, SoundGraph, TypeOK, Checkpoint, GraphState
  <2>5. \A u \in Turns : SoundGraph(mem'[u])
    BY <1>9, <1>g DEF RunTool, SoundGraph, TypeOK, GraphState
  <2>6. \A d \in Calls : ran'[d] > 0 => d = c \/ ran[d] > 0
    <3> HIDE DEF Calls
    <3> QED BY <1>9 DEF RunTool, TypeOK
  <2>7. HistorySound'
    BY <2>1, <2>2, <2>3, <2>6, SoundKept DEF Facts, HistorySound
  <2>8. RowSound' /\ CarrierSound'
    BY <2>1, <2>2, SoundKept DEF Facts, RowSound, CarrierSound
  <2>9. GraphsSound'
    BY <2>2, <2>4, <2>5, SoundKept DEF GraphsSound, SoundGraph
  <2> QED BY <1>p, <2>1, <2>7, <2>8, <2>9 DEF Facts
<1>10. CASE GraphEnds(t)
  <2>1. UNCHANGED <<row, passes, lastPass, mem, carrier, asked, granted, ran>>
    BY <1>10 DEF GraphEnds
  <2>2. SoundGraph(ckpt'.graph)
    BY <1>10, <1>e, <1>g DEF GraphEnds, PutCheckpoint
  <2> QED BY <1>g, <1>p, <1>k, <2>1, <2>2, FactsKept
<1>11. CASE AskPauses(t)
  <2>1. UNCHANGED <<ckpt, passes, lastPass, mem, carrier, granted, ran>>
    BY <1>11 DEF AskPauses
  <2>2. Keeps /\ Held' = Held
    BY <1>k, <2>1
  <2>3. row' = PendingItems(t) /\ asked' = asked \cup {i.call : i \in Shown(PendingItems(t))}
    BY <1>11 DEF AskPauses, WritePause
  <2>4. \A i \in PendingItems(t) : SoundItem(i) /\ i \in Items
    BY <1>g DEF PendingItems, SoundGraph, TypeOK, Checkpoint, GraphState
  <2>5. RowSound'
    BY <2>2, <2>3, <2>4, SoundKept DEF RowSound, Shown
  <2>6. asked' \subseteq Held'
    BY <1>g, <2>2, <2>3, <2>4 DEF Shown, SoundItem, Held, Items
  <2>7. HistorySound'
    BY <1>g, <2>1, <2>2, <2>3, <2>6, SoundKept DEF Facts, HistorySound
  <2>8. CarrierSound' /\ GraphsSound'
    BY <2>1, <2>2, SoundKept DEF Facts, CarrierSound, GraphsSound, SoundGraph
  <2> QED BY <1>p, <2>1, <2>5, <2>7, <2>8 DEF Facts
<1>12. CASE Finish(t)
  <2>1. UNCHANGED <<row, passes, lastPass, mem, carrier, asked, granted, ran>>
    BY <1>12 DEF Finish
  <2>2. SoundGraph(ckpt'.graph)
    BY <1>12, <1>e, <1>g DEF Finish, DeleteCheckpointsIfNoPending
  <2> QED BY <1>g, <1>p, <1>k, <2>1, <2>2, FactsKept
<1> QED BY <1>0, <1>1, <1>2, <1>3, <1>4, <1>5, <1>6, <1>7, <1>8, <1>9, <1>10, <1>11, <1>12
        DEF Progress, Gate, Tools

LEMMA IndStep == IndInv /\ [Next]_vars => IndInv'
<1>1. ASSUME IndInv, Next PROVE IndInv'
  BY <1>1, TypeNext, FactsNext DEF IndInv, Facts
<1>2. CASE IndInv /\ UNCHANGED vars
  <2>1. Keeps
    BY <1>2, KeepsIfSame DEF vars
  <2> QED BY <1>2, <2>1 DEF vars, IndInv, TypeOK, PassesSound, RowSound, CarrierSound, GraphsSound,
          HistorySound, SoundItem, SoundGraph, SoundDecision, Cleared, Risky, Proposed, Held, CallsOf
<1> QED BY <1>1, <1>2

LEMMA IndAlways == Spec => []IndInv
<1>1. Init => IndInv
  BY TypeInit, FactsInit DEF IndInv, Facts
<1> QED BY <1>1, IndStep, PTL DEF Spec

\* A held-back call runs only when a user allowed that very call, for every
\* number of turns, agents and messages and every fault.
THEOREM NeverUngranted == Spec => []RunsOnlyWhenGranted
<1>1. IndInv => RunsOnlyWhenGranted
  BY DEF IndInv, HistorySound, RunsOnlyWhenGranted, Cleared
<1> QED BY <1>1, IndAlways, PTL

-----------------------------------------------------------------------------
(* Refinement *)

LEMMA StepApproves == ASSUME IndInv, IndInv', Next PROVE [Approval!Next]_(Approval!vars)
<1> USE DEF dbVars, runVars, history, IndInv
<1>0. PICK t \in Turns :
          \/ TurnStart(t) \/ Consume(t) \/ ResumeRefused(t)
          \/ Progress(t) \/ EmitMessage(t)
          \/ BeginResumeFails(t) \/ RunFails(t) \/ Abort(t) \/ Crash(t)
  BY DEF Next
<1>s. UNCHANGED <<passes, asked, granted, ran>> => UNCHANGED Approval!vars
  BY DEF Approval!vars, Proposed, Held, Done, CallsOf, Risky
<1>1. CASE TurnStart(t) \/ RunStart(t) \/ ResumeRefused(t) \/ BeginResume(t) \/ BeginResumeFails(t)
           \/ ReadInterrupts(t) \/ LoadCheckpoint(t) \/ GraphEnds(t) \/ StreamStops(t)
           \/ AskNothing(t) \/ Finish(t) \/ RunFails(t) \/ Abort(t) \/ Crash(t)
  <2>1. UNCHANGED <<passes, asked, granted, ran>>
    BY <1>1 DEF TurnStart, RunStart, ResumeRefused, BeginResume, BeginResumeFails, ReadInterrupts,
                LoadCheckpoint, GraphEnds, StreamStops, AskNothing, Finish, RunFails, Abort, Crash
  <2> QED BY <1>s, <2>1
<1>2. ASSUME NEW p \in Passes, GatePauses(t, p) \/ GatePasses(t, p)
      PROVE  [Approval!Next]_(Approval!vars)
  BY <1>2, <1>s DEF GatePauses, GatePasses
<1>3. CASE EmitMessage(t)
  <2>1. lastPass' \in Passes /\ lastPass' = lastPass + 1 /\ lastPass \in Nat
    BY <1>3, BoundAssumption DEF EmitMessage, TypeOK
  <2>2. PICK l \in Locations, W \in SUBSET Wires, R \in SUBSET Wires :
            /\ R \subseteq W
            /\ passes' = [passes EXCEPT ![lastPass'] = [loc |-> l, wires |-> W, risky |-> R]]
    BY <1>3 DEF EmitMessage
  <2> DEFINE new == {c \in Calls : PassOf(c) = lastPass' /\ c[2] \in W}
             risky == {c \in Calls : PassOf(c) = lastPass' /\ c[2] \in R}
  <2>3. passes[lastPass'].wires = {} /\ passes[lastPass'].risky = {}
    BY <2>1 DEF PassesSound
  <2>4. \A q \in Passes \ {lastPass'} : passes'[q] = passes[q]
    BY <2>2 DEF TypeOK
  <2>5. passes'[lastPass'] = [loc |-> l, wires |-> W, risky |-> R]
    BY <2>1, <2>2 DEF TypeOK
  <2>6. new \cap Proposed = {} /\ risky \subseteq new /\ new \in SUBSET Calls /\ risky \in SUBSET Calls
    BY <2>2, <2>3 DEF Proposed, CallsOf
  <2>7. ASSUME NEW c \in Calls PROVE c \in Proposed' <=> c \in Proposed \/ c \in new
    BY <2>3, <2>4, <2>5 DEF Proposed, CallsOf
  <2>8. ASSUME NEW c \in Calls PROVE c \in Held' <=> c \in Held \/ c \in risky
    BY <2>3, <2>4, <2>5 DEF Held, Risky
  <2>9. Proposed' = Proposed \cup new /\ Held' = Held \cup risky
    BY <2>7, <2>8 DEF Proposed, Held
  <2>10. UNCHANGED <<asked, granted, Done>>
    BY <1>3 DEF EmitMessage, Done
  <2>11. Approval!Propose(new, risky)
    BY <2>6, <2>9, <2>10 DEF Approval!Propose
  <2> QED BY <2>6, <2>11 DEF Approval!Next
<1>4. CASE Consume(t)
  <2>a. PICK allowedKeys :
            granted' = granted \cup {i.call : i \in {j \in Shown(row) : KeyOf(j.call) \in allowedKeys}}
    BY <1>4 DEF Consume
  <2> DEFINE allowed == {i.call : i \in {j \in Shown(row) : KeyOf(j.call) \in allowedKeys}}
  <2>1. granted' = granted \cup allowed /\ allowed \subseteq {i.call : i \in Shown(row)}
    BY <2>a
  <2>2. allowed \subseteq asked /\ allowed \in SUBSET Calls
    BY <2>1 DEF RowSound, Shown, TypeOK, Items
  <2>3. UNCHANGED <<passes, asked, ran>>
    BY <1>4 DEF Consume
  <2>4. Approval!Grant(allowed)
    BY <2>1, <2>2, <2>3 DEF Approval!Grant, Proposed, Held, Done, CallsOf, Risky
  <2> QED BY <2>2, <2>4 DEF Approval!Next
<1>5. CASE AskPauses(t)
  <2> DEFINE shown == {i.call : i \in Shown(PendingItems(t))}
  <2>1. asked' = asked \cup shown
    BY <1>5 DEF AskPauses
  <2>2. \A i \in PendingItems(t) : SoundItem(i) /\ i \in Items
    BY DEF PendingItems, GraphsSound, SoundGraph, TypeOK, Checkpoint, GraphState
  <2>3. shown \subseteq Held /\ shown \in SUBSET Calls
    BY <2>2 DEF Shown, SoundItem, Held, Items
  <2>4. UNCHANGED <<passes, granted, ran>>
    BY <1>5 DEF AskPauses
  <2>5. Approval!Ask(shown)
    BY <2>1, <2>3, <2>4 DEF Approval!Ask, Proposed, Held, Done, CallsOf, Risky
  <2> QED BY <2>3, <2>5 DEF Approval!Next
<1>6. ASSUME NEW c \in Calls, RunTool(t, c) PROVE [Approval!Next]_(Approval!vars)
  <2>1. UNCHANGED <<passes, asked, granted>>
    BY <1>6 DEF RunTool
  <2>2. c \in Proposed /\ (c \in Held => c \in granted)
    BY <1>6 DEF RunTool, GraphsSound, SoundGraph, Cleared, Held
  <2>3. \A d \in Calls : ran'[d] > 0 <=> d = c \/ ran[d] > 0
    <3> HIDE DEF Calls
    <3> QED BY <1>6 DEF RunTool, TypeOK
  <2>4. Done' = Done \cup {c}
    BY <2>3 DEF Done
  <2>5. Approval!Execute(c)
    BY <2>1, <2>2, <2>4 DEF Approval!Execute, Proposed, Held, CallsOf, Risky
  <2> QED BY <2>5 DEF Approval!Next
<1> QED BY <1>0, <1>1, <1>2, <1>3, <1>4, <1>5, <1>6 DEF Progress, Gate, Tools

\* The confirmation implements the promise of ToolApproval: every step of the
\* gates, the repository and the turns proposes, asks, grants, executes or
\* changes nothing the promise is about.
THEOREM ConfirmationImplementsApproval == Spec => ImplementsApproval
<1>1. Init => Approval!Init
  BY DEF Init, Approval!Init, Proposed, Held, Done, CallsOf, Risky
<1>2. IndInv /\ IndInv' /\ [Next]_vars => [Approval!Next]_(Approval!vars)
  <2>1. CASE UNCHANGED vars
    BY <2>1 DEF vars, Approval!vars, Proposed, Held, Done, CallsOf, Risky
  <2> QED BY <2>1, StepApproves
<1> QED BY <1>1, <1>2, IndAlways, PTL DEF Spec, ImplementsApproval, Approval!Spec

\* The promise of ToolApproval holds of every behaviour of the abstract specification.
LEMMA ApprovedAlways == Approval!Spec => []Approval!Approved
<1>1. Approval!Init => Approval!Approved
  BY DEF Approval!Init, Approval!Approved
<1>2. Approval!Approved /\ [Approval!Next]_(Approval!vars) => Approval!Approved'
  <2> SUFFICES ASSUME Approval!Approved, [Approval!Next]_(Approval!vars)
               PROVE  Approval!Approved'
    OBVIOUS
  <2> USE DEF Approval!Approved
  <2>1. ASSUME NEW new \in SUBSET Calls, NEW risky \in SUBSET Calls,
               Approval!Propose(new, risky)
        PROVE  Approval!Approved'
    BY <2>1 DEF Approval!Propose
  <2>2. ASSUME NEW shown \in SUBSET Calls, Approval!Ask(shown)
        PROVE  Approval!Approved'
    BY <2>2 DEF Approval!Ask
  <2>3. ASSUME NEW allowed \in SUBSET Calls, Approval!Grant(allowed)
        PROVE  Approval!Approved'
    BY <2>3 DEF Approval!Grant
  <2>4. ASSUME NEW c \in Calls, Approval!Execute(c)
        PROVE  Approval!Approved'
    BY <2>4 DEF Approval!Execute
  <2>5. CASE UNCHANGED Approval!vars
    BY <2>5 DEF Approval!vars
  <2> QED BY <2>1, <2>2, <2>3, <2>4, <2>5 DEF Approval!Next
<1> QED BY <1>1, <1>2, PTL DEF Approval!Spec

\* Hence of the confirmation: every call that was run was produced by a message, and one the
\* policy holds back was shown to a user, who allowed it.
THEOREM OnlyApprovedRun == Spec => []Approval!Approved
BY ConfirmationImplementsApproval, ApprovedAlways, PTL DEF ImplementsApproval

-----------------------------------------------------------------------------
(* Once, and resumable *)

\* No call of the pass was executed.
Unrun(p) == \A c \in Calls : PassOf(c) = p => ran[c] = 0

\* A graph can be run on without executing a call twice: what waits at a gate was
\* not executed, nor was what is ready, and no pass is in two of the three places.
OnceGraph(g) ==
    /\ \A p \in g.fresh \cup PassesOf(g.waiting) : p <= lastPass /\ Unrun(p)
    /\ \A c \in g.ready : PassOf(c) <= lastPass /\ ran[c] = 0
    /\ \A c \in g.ready : PassOf(c) \notin g.fresh \cup PassesOf(g.waiting)
    /\ g.fresh \cap PassesOf(g.waiting) = {}

\* The stored state follows a run: it is the run's own, or the run has nothing yet.
Paired(t) ==
    IF t \in unresumable THEN ckpt = NoCheckpoint
    ELSE /\ mem[t].ready = ckpt.graph.ready
         /\ t \in ckpt.holders \/ (mem[t] = EmptyGraph /\ ckpt = NoCheckpoint)

OneTurn == \A t, u \in Turns : pc[t] \in Active /\ pc[u] \in Active => t = u
PauseRests == row # {} => Quiet /\ ckpt.graph.waiting = row
UnresumableNeverPauses == \A t \in unresumable : mem[t].waiting = {}
OnlyResumesLoad == \A t \in Turns : pc[t] \in {"consumed", "resuming", "acked"} => t \in Resumes
GraphsOnce ==
    /\ OnceGraph(ckpt.graph)
    /\ \A t \in Turns : pc[t] = "graph" => OnceGraph(mem[t]) /\ Paired(t)
CountsOnce == \A c \in Calls : ran[c] <= 1 /\ (ran[c] > 0 => PassOf(c) <= lastPass)

\* RunsAtMostOnce says nothing of what will be executed: the strengthening is that
\* one turn works at a time, that a stored pause is only there when none does, and
\* that neither the stored graph nor the one in memory holds an executed call.
OnceInv ==
    /\ TypeOK /\ OneTurn /\ PauseRests /\ UnresumableNeverPauses /\ OnlyResumesLoad
    /\ GraphsOnce /\ CountsOnce

LEMMA EmptyOnce == OnceGraph(EmptyGraph) /\ OnceGraph(NoCheckpoint.graph)
  BY DEF OnceGraph, EmptyGraph, NoCheckpoint, PassesOf

\* Only a new AI message and an executed call change what a graph may hold.
LEMMA OnceSame ==
    ASSUME UNCHANGED <<lastPass, ran>>
    PROVE  (\A g : OnceGraph(g) => OnceGraph(g)') /\ (CountsOnce => CountsOnce')
  BY DEF OnceGraph, CountsOnce, Unrun, PassesOf

\* A turn that moves on at work is the only one at work, before and after.
LEMMA WorksAlone ==
    ASSUME TypeOK, OneTurn, NEW t \in Turns, pc[t] \in Active, NEW to, pc' = [pc EXCEPT ![t] = to]
    PROVE  OneTurn' /\ \A u \in Turns \ {t} : pc'[u] = pc[u] /\ pc[u] \notin Active
  BY DEF TypeOK, OneTurn

\* What a step that leaves its turn outside the graph has to show.
LEMMA OnceOutside ==
    ASSUME OnceInv, TypeOK', NEW t \in Turns, NEW to, pc' = [pc EXCEPT ![t] = to], to # "graph",
           OneTurn', PauseRests', OnlyResumesLoad', UnresumableNeverPauses',
           UNCHANGED <<lastPass, ran>>,
           OnceGraph(ckpt'.graph),
           \A u \in Turns \ {t} : pc[u] = "graph" => UNCHANGED <<mem, ckpt, unresumable>>
    PROVE  OnceInv'
<1>1. OnceGraph(ckpt.graph)'
  BY OnceSame
<1>2. ASSUME NEW u \in Turns, pc'[u] = "graph" PROVE OnceGraph(mem[u])' /\ Paired(u)'
  <2>1. u # t /\ pc[u] = "graph"
    BY <1>2 DEF OnceInv, TypeOK
  <2>2. UNCHANGED <<mem, ckpt, unresumable>>
    BY <2>1
  <2>3. OnceGraph(mem[u]) /\ Paired(u)
    BY <2>1 DEF OnceInv, GraphsOnce
  <2> QED BY <2>2, <2>3, OnceSame DEF Paired
<1> QED BY <1>1, <1>2, OnceSame DEF OnceInv, GraphsOnce

\* What a step of a turn in the graph has to show.
LEMMA OnceInside ==
    ASSUME OnceInv, TypeOK', NEW t \in Turns, pc[t] \in Active, pc' = [pc EXCEPT ![t] = "graph"],
           UNCHANGED <<unresumable, row>>,
           UnresumableNeverPauses', CountsOnce',
           \A x : x = mem'[t] \/ x = ckpt'.graph => OnceGraph(x)',
           Paired(t)'
    PROVE  OnceInv'
<1>1. OneTurn' /\ \A u \in Turns \ {t} : pc'[u] = pc[u] /\ pc[u] \notin Active
  BY WorksAlone DEF OnceInv
<1>2. row = {}
  BY DEF OnceInv, PauseRests, Quiet
<1>3. \A u \in Turns : pc'[u] = "graph" => u = t
  BY <1>1 DEF Active
<1>4. OnlyResumesLoad'
  BY DEF OnceInv, OnlyResumesLoad, TypeOK
<1>5. PauseRests'
  BY <1>2 DEF PauseRests
<1>6. OnceGraph(mem[t])' /\ OnceGraph(ckpt.graph)'
  BY DEF OnceGraph
<1> QED BY <1>1, <1>3, <1>4, <1>5, <1>6 DEF OnceInv, GraphsOnce

\* An executed call leaves a graph that held it once.
LEMMA OnceRun ==
    ASSUME TypeOK, CountsOnce, NEW c \in Calls, ran[c] = 0, PassOf(c) <= lastPass,
           lastPass' = lastPass, ran' = [ran EXCEPT ![c] = IF @ = 2 THEN 2 ELSE @ + 1]
    PROVE  /\ CountsOnce'
           /\ \A g : OnceGraph(g) /\ c \in g.ready
                       => OnceGraph([fresh |-> g.fresh, waiting |-> g.waiting, ready |-> g.ready \ {c}])'
<1> HIDE DEF Calls
<1>1. ran'[c] = 1 /\ \A d \in Calls \ {c} : ran'[d] = ran[d]
  BY DEF TypeOK
<1>2. CountsOnce'
  BY <1>1 DEF CountsOnce
<1>3. ASSUME NEW g, OnceGraph(g), c \in g.ready
      PROVE OnceGraph([fresh |-> g.fresh, waiting |-> g.waiting, ready |-> g.ready \ {c}])'
  <2>1. \A p \in g.fresh \cup PassesOf(g.waiting) : p # PassOf(c)
    BY <1>3 DEF OnceGraph
  <2>2. \A p \in g.fresh \cup PassesOf(g.waiting) : Unrun(p)'
    BY <1>1, <1>3, <2>1 DEF OnceGraph, Unrun
  <2>3. \A d \in g.ready \ {c} : PassOf(d) <= lastPass /\ ran'[d] = 0
    <3>1. ASSUME NEW d \in g.ready \ {c} PROVE ran'[d] = 0
      <4>1. ran[d] = 0
        BY <1>3 DEF OnceGraph
      <4>2. ran'[d] = ran[d]
        BY DEF TypeOK
      <4> QED BY <4>1, <4>2
    <3> QED BY <3>1, <1>3 DEF OnceGraph
  <2> QED BY <1>3, <2>2, <2>3 DEF OnceGraph, PassesOf
<1> QED BY <1>2, <1>3

\* A new AI message is nobody's pass yet.
LEMMA OnceEmit ==
    ASSUME TypeOK, CountsOnce, NEW n, n = lastPass + 1, lastPass' = n, ran' = ran
    PROVE  /\ CountsOnce'
           /\ \A g \in GraphState : OnceGraph(g)
                  => OnceGraph([fresh |-> g.fresh \cup {n}, waiting |-> g.waiting, ready |-> g.ready])'
<1> HIDE DEF Calls, PassOf
<1>1. lastPass \in Nat /\ \A c \in Calls : PassOf(c) \in Nat /\ ran[c] \in Nat
  BY BoundAssumption DEF TypeOK, Calls, PassOf
<1>2. Unrun(n)'
  BY <1>1 DEF Unrun, CountsOnce
<1>3. CountsOnce'
  BY <1>1 DEF CountsOnce
<1>4. ASSUME NEW g \in GraphState, OnceGraph(g)
      PROVE OnceGraph([fresh |-> g.fresh \cup {n}, waiting |-> g.waiting, ready |-> g.ready])'
  <2>1. g.fresh \subseteq Nat /\ PassesOf(g.waiting) \subseteq Nat /\ \A c \in g.ready : PassOf(c) \in Nat
    BY <1>4 DEF GraphState, PassesOf, Items, Calls, PassOf
  <2>2. \A p \in g.fresh \cup PassesOf(g.waiting) : p <= n /\ Unrun(p)'
    <3>1. ASSUME NEW p \in g.fresh \cup PassesOf(g.waiting) PROVE p <= lastPass /\ Unrun(p)
      BY <1>4 DEF OnceGraph
    <3> QED BY <1>1, <2>1, <3>1 DEF Unrun
  <2>3. \A c \in g.ready : PassOf(c) <= n /\ PassOf(c) # n /\ ran'[c] = 0
    BY <1>1, <1>4, <2>1 DEF OnceGraph
  <2>4. \A c \in g.ready : PassOf(c) \notin (g.fresh \cup {n}) \cup PassesOf(g.waiting)
    BY <1>4, <2>3 DEF OnceGraph
  <2>5. \A p \in (g.fresh \cup {n}) \cup PassesOf(g.waiting) : p <= n /\ Unrun(p)'
    BY <1>1, <1>2, <2>2
  <2>6. (g.fresh \cup {n}) \cap PassesOf(g.waiting) = {}
    <3>1. \A p \in PassesOf(g.waiting) : p # n
      BY <1>1, <1>4, <2>1 DEF OnceGraph
    <3> QED BY <3>1, <1>4 DEF OnceGraph
  <2> QED BY <2>3, <2>4, <2>5, <2>6 DEF OnceGraph, PassesOf
<1> QED BY <1>3, <1>4

\* The items of a gate and the calls it lets pass are of its pass.
LEMMA GatePass ==
    ASSUME NEW t \in Turns, NEW p \in Passes
    PROVE  PassesOf(GateItems(t, p)) \subseteq {p} /\ \A c \in AllowedCalls(t, p) : PassOf(c) = p
  BY DEF PassesOf, GateItems, AllowedCalls, CallsOf

LEMMA PausesOnce ==
    ASSUME NEW t \in Turns, NEW p \in Passes, NEW g, OnceGraph(g), p <= lastPass, Unrun(p),
           \A c \in g.ready : PassOf(c) # p
    PROVE  OnceGraph([fresh |-> g.fresh \ {p}, waiting |-> g.waiting \cup GateItems(t, p),
                      ready |-> g.ready])
<1>1. PassesOf(g.waiting \cup GateItems(t, p)) \subseteq PassesOf(g.waiting) \cup {p}
  BY GatePass DEF PassesOf
<1> QED BY <1>1 DEF OnceGraph

LEMMA PassesOnce ==
    ASSUME TypeOK, NEW t \in Turns, NEW p \in Passes, NEW g, OnceGraph(g), p \in g.fresh
    PROVE  OnceGraph([fresh |-> g.fresh \ {p}, waiting |-> g.waiting,
                      ready |-> g.ready \cup AllowedCalls(t, p)])
<1>1. AllowedCalls(t, p) \subseteq Calls
  BY GateTypes
<1>2. p <= lastPass /\ Unrun(p) /\ p \notin PassesOf(g.waiting)
  BY DEF OnceGraph
<1>3. \A c \in AllowedCalls(t, p) : PassOf(c) = p /\ ran[c] = 0
  BY <1>1, <1>2, GatePass DEF Unrun
<1> HIDE DEF Calls
<1> QED BY <1>2, <1>3 DEF OnceGraph

\* A run in the graph that holds anything is the holder of the stored state.
LEMMA HoldsStored ==
    ASSUME NEW t \in Turns, Paired(t), t \notin unresumable, mem[t].fresh # {} \/ mem[t].ready # {}
    PROVE  t \in ckpt.holders
  BY DEF Paired, EmptyGraph

LEMMA OncePauses ==
    ASSUME OnceInv, TypeOK', NEW t \in Turns, NEW p \in Passes, GatePauses(t, p)
    PROVE  OnceInv'
<1> USE DEF dbVars, runVars, history
<1>1. /\ pc[t] = "graph" /\ p \in mem[t].fresh /\ t \notin unresumable
      /\ UNCHANGED <<unresumable, row, passes, lastPass, pc, ran>>
  BY DEF GatePauses, Pauses
<1>2. /\ OnceGraph(mem[t]) /\ OnceGraph(ckpt.graph) /\ Paired(t)
      /\ mem[t] \in GraphState /\ ckpt \in Checkpoint /\ ckpt.graph \in GraphState
  BY <1>1 DEF OnceInv, GraphsOnce, TypeOK, Checkpoint
<1>3. p <= lastPass /\ Unrun(p) /\ \A c \in mem[t].ready : PassOf(c) # p
  BY <1>1, <1>2 DEF OnceGraph
<1>4. t \in ckpt.holders /\ mem[t].ready = ckpt.graph.ready
  BY <1>1, <1>2, HoldsStored DEF Paired
<1> DEFINE items == GateItems(t, p)
           g == [fresh |-> mem[t].fresh \ {p}, waiting |-> mem[t].waiting \cup items, ready |-> mem[t].ready]
           h == [fresh |-> ckpt.graph.fresh \ {p}, waiting |-> ckpt.graph.waiting \cup items,
                 ready |-> ckpt.graph.ready]
<1>5. mem'[t] = g /\ \A u \in Turns \ {t} : mem'[u] = mem[u]
  BY <1>2 DEF GatePauses, GraphState, OnceInv, TypeOK
<1>6. ckpt' = [graph |-> h, holders |-> ckpt.holders, writesOnly |-> ckpt.writesOnly]
  BY <1>2, <1>4 DEF GatePauses, PutWrites, GraphState, Checkpoint
<1>7. OnceGraph(g) /\ OnceGraph(h)
  BY <1>2, <1>3, <1>4, PausesOnce
<1>8. \A x : x = mem'[t] \/ x = ckpt'.graph => OnceGraph(x)'
  <2> HIDE DEF g, h
  <2> QED BY <1>1, <1>5, <1>6, <1>7, OnceSame
<1>9. Paired(t)'
  BY <1>1, <1>4, <1>5, <1>6 DEF Paired
<1>10. UnresumableNeverPauses'
  BY <1>1, <1>5 DEF OnceInv, UnresumableNeverPauses, TypeOK
<1>11. CountsOnce'
  BY <1>1, OnceSame DEF OnceInv
<1>12. pc' = [pc EXCEPT ![t] = "graph"] /\ pc[t] \in Active
  BY <1>1 DEF OnceInv, TypeOK, Active
<1> QED BY <1>1, <1>8, <1>9, <1>10, <1>11, <1>12, OnceInside

\* What SaveStep stores of a gate that was passed.
LEMMA StoredOnce ==
    ASSUME TypeOK, NEW t \in Turns, NEW p \in Passes, NEW g, OnceGraph(g), p <= lastPass, Unrun(p)
    PROVE  OnceGraph([fresh |-> g.fresh \ {p}, waiting |-> {i \in g.waiting : PassOf(i.call) # p},
                      ready |-> g.ready \cup AllowedCalls(t, p)])
<1>1. AllowedCalls(t, p) \subseteq Calls
  BY GateTypes
<1>2. \A c \in AllowedCalls(t, p) : PassOf(c) = p /\ ran[c] = 0
  BY <1>1, GatePass DEF Unrun
<1>3. PassesOf({i \in g.waiting : PassOf(i.call) # p}) = PassesOf(g.waiting) \ {p}
  BY DEF PassesOf
<1> HIDE DEF Calls
<1> QED BY <1>2, <1>3 DEF OnceGraph

LEMMA OncePasses ==
    ASSUME OnceInv, TypeOK', NEW t \in Turns, NEW p \in Passes, GatePasses(t, p)
    PROVE  OnceInv'
<1> USE DEF dbVars, runVars, history
<1>1. /\ pc[t] = "graph" /\ p \in mem[t].fresh
      /\ UNCHANGED <<unresumable, row, passes, lastPass, pc, ran>>
  BY DEF GatePasses
<1>2. /\ OnceGraph(mem[t]) /\ OnceGraph(ckpt.graph) /\ Paired(t)
      /\ mem[t] \in GraphState /\ ckpt \in Checkpoint /\ ckpt.graph \in GraphState
  BY <1>1 DEF OnceInv, GraphsOnce, TypeOK, Checkpoint
<1>3. p <= lastPass /\ Unrun(p)
  BY <1>1, <1>2 DEF OnceGraph
<1> DEFINE g == [fresh |-> mem[t].fresh \ {p}, waiting |-> mem[t].waiting,
                 ready |-> mem[t].ready \cup AllowedCalls(t, p)]
           h == [fresh |-> ckpt.graph.fresh \ {p},
                 waiting |-> {i \in ckpt.graph.waiting : PassOf(i.call) # p},
                 ready |-> ckpt.graph.ready \cup AllowedCalls(t, p)]
<1>4. mem'[t] = g /\ \A u \in Turns \ {t} : mem'[u] = mem[u]
  BY <1>2 DEF GatePasses, GraphState, OnceInv, TypeOK
<1>5. OnceGraph(g) /\ OnceGraph(h)
  BY <1>1, <1>2, <1>3, PassesOnce, StoredOnce DEF OnceInv
<1>6. SaveStep(t, p, mem'[t], h)
  BY DEF GatePasses
<1>7. Paired(t)' /\ ckpt'.graph \in {ckpt.graph, g, h}
  <2>1. CASE t \in unresumable
    BY <1>1, <1>2, <1>6, <2>1 DEF Paired, SaveStep, PutWrites, PutCheckpoint, NoCheckpoint
  <2>2. CASE t \notin unresumable
    <3>1. t \in ckpt.holders /\ h.ready = g.ready
      BY <1>1, <1>2, <2>2, HoldsStored DEF Paired
    <3>2. \/ ckpt' = [graph |-> g, holders |-> {t}, writesOnly |-> FALSE]
          \/ ckpt' = [graph |-> h, holders |-> ckpt.holders, writesOnly |-> ckpt.writesOnly]
      <4> HIDE DEF g, h
      <4> QED BY <1>2, <1>4, <1>6, <2>2, <3>1 DEF SaveStep, PutWrites, PutCheckpoint, Checkpoint
    <3> HIDE DEF g, h
    <3> QED BY <1>1, <1>4, <2>2, <3>1, <3>2 DEF Paired
  <2> QED BY <2>1, <2>2
<1>8. \A x : x = mem'[t] \/ x = ckpt'.graph => OnceGraph(x)'
  <2> HIDE DEF g, h
  <2> QED BY <1>1, <1>2, <1>4, <1>5, <1>7, OnceSame
<1>9. UnresumableNeverPauses'
  BY <1>1, <1>4 DEF OnceInv, UnresumableNeverPauses, TypeOK
<1>10. CountsOnce'
  BY <1>1, OnceSame DEF OnceInv
<1>11. pc' = [pc EXCEPT ![t] = "graph"] /\ pc[t] \in Active
  BY <1>1 DEF OnceInv, TypeOK, Active
<1> QED BY <1>1, <1>7, <1>8, <1>9, <1>10, <1>11, OnceInside

LEMMA OnceRuns ==
    ASSUME OnceInv, TypeOK', NEW t \in Turns, NEW c \in Calls, RunTool(t, c)
    PROVE  OnceInv'
<1> USE DEF dbVars, runVars, history
<1> HIDE DEF Calls
<1>1. /\ pc[t] = "graph" /\ c \in mem[t].ready
      /\ UNCHANGED <<unresumable, row, passes, lastPass, pc>>
      /\ ran' = [ran EXCEPT ![c] = IF @ = 2 THEN 2 ELSE @ + 1]
  BY DEF RunTool
<1>2. /\ OnceGraph(mem[t]) /\ OnceGraph(ckpt.graph) /\ Paired(t)
      /\ mem[t] \in GraphState /\ ckpt \in Checkpoint /\ ckpt.graph \in GraphState
  BY <1>1 DEF OnceInv, GraphsOnce, TypeOK, Checkpoint
<1>3. ran[c] = 0 /\ PassOf(c) <= lastPass
  BY <1>1, <1>2 DEF OnceGraph
<1> DEFINE g == [fresh |-> mem[t].fresh, waiting |-> mem[t].waiting, ready |-> mem[t].ready \ {c}]
           h == [fresh |-> ckpt.graph.fresh, waiting |-> ckpt.graph.waiting,
                 ready |-> ckpt.graph.ready \ {c}]
<1>4. mem'[t] = g /\ \A u \in Turns \ {t} : mem'[u] = mem[u]
  BY <1>2 DEF RunTool, GraphState, OnceInv, TypeOK
<1>5. CountsOnce' /\ \A x : OnceGraph(x) /\ c \in x.ready
          => OnceGraph([fresh |-> x.fresh, waiting |-> x.waiting, ready |-> x.ready \ {c}])'
  BY <1>1, <1>3, OnceRun DEF OnceInv
<1>6. PutWrites(t, h)
  <2>1. h = [ckpt.graph EXCEPT !.ready = @ \ {c}]
    BY <1>2 DEF GraphState
  <2> QED BY <2>1 DEF RunTool
<1>7. /\ Paired(t)'
      /\ ckpt'.graph = EmptyGraph \/ (c \in ckpt.graph.ready /\ ckpt'.graph = h)
  <2>1. CASE t \in unresumable
    <3>1. ckpt = NoCheckpoint
      BY <1>2, <2>1 DEF Paired
    <3>2. ckpt' = ckpt
      <4> HIDE DEF h
      <4> QED BY <1>6, <2>1, <3>1 DEF PutWrites, NoCheckpoint
    <3> HIDE DEF g, h
    <3> QED BY <1>1, <2>1, <3>1, <3>2 DEF Paired, NoCheckpoint
  <2>2. CASE t \notin unresumable
    <3>1. t \in ckpt.holders /\ h.ready = g.ready /\ c \in ckpt.graph.ready
      BY <1>1, <1>2, <2>2, HoldsStored DEF Paired
    <3>2. ckpt' = [graph |-> h, holders |-> ckpt.holders, writesOnly |-> ckpt.writesOnly]
      <4> HIDE DEF h
      <4> QED BY <1>2, <1>6, <3>1 DEF PutWrites, Checkpoint
    <3> HIDE DEF g, h
    <3> QED BY <1>1, <1>4, <2>2, <3>1, <3>2 DEF Paired
  <2> QED BY <2>1, <2>2
<1>8. \A x : x = mem'[t] \/ x = ckpt'.graph => OnceGraph(x)'
  <2>1. \A x : x = EmptyGraph => OnceGraph(x)'
    BY DEF OnceGraph, EmptyGraph, PassesOf
  <2>2. \A x : x = g => OnceGraph(x)'
    <3>1. ASSUME NEW y, y = mem[t] PROVE OnceGraph([fresh |-> y.fresh, waiting |-> y.waiting, ready |-> y.ready \ {c}])'
      BY <1>1, <1>2, <1>5, <3>1
    <3> QED BY <3>1
  <2>3. c \in ckpt.graph.ready => \A x : x = h => OnceGraph(x)'
    <3>1. ASSUME NEW y, y = ckpt.graph, c \in y.ready
          PROVE OnceGraph([fresh |-> y.fresh, waiting |-> y.waiting, ready |-> y.ready \ {c}])'
      BY <1>2, <1>5, <3>1
    <3> QED BY <3>1
  <2> HIDE DEF g, h
  <2> QED BY <1>4, <1>7, <2>1, <2>2, <2>3
<1>9. UnresumableNeverPauses'
  BY <1>1, <1>4 DEF OnceInv, UnresumableNeverPauses, TypeOK
<1>10. pc' = [pc EXCEPT ![t] = "graph"] /\ pc[t] \in Active
  BY <1>1 DEF OnceInv, TypeOK, Active
<1> QED BY <1>1, <1>5, <1>7, <1>8, <1>9, <1>10, OnceInside

LEMMA OnceEmits ==
    ASSUME OnceInv, TypeOK', NEW t \in Turns, EmitMessage(t)
    PROVE  OnceInv'
<1> USE DEF dbVars, runVars, history
<1> HIDE DEF Calls
<1>1. pc[t] = "graph" /\ UNCHANGED <<unresumable, row, pc, ran>>
  BY DEF EmitMessage
<1>2. /\ OnceGraph(mem[t]) /\ OnceGraph(ckpt.graph) /\ Paired(t)
      /\ mem[t] \in GraphState /\ ckpt \in Checkpoint /\ ckpt.graph \in GraphState
  BY <1>1 DEF OnceInv, GraphsOnce, TypeOK, Checkpoint
<1>3. PICK n : n = lastPass + 1 /\ lastPass' = n
  BY DEF EmitMessage
<1> DEFINE g == [fresh |-> mem[t].fresh \cup {n}, waiting |-> mem[t].waiting, ready |-> mem[t].ready]
           h == [fresh |-> ckpt.graph.fresh \cup {n}, waiting |-> ckpt.graph.waiting,
                 ready |-> ckpt.graph.ready]
<1>4. mem'[t] = g /\ \A u \in Turns \ {t} : mem'[u] = mem[u]
  BY <1>2, <1>3 DEF EmitMessage, GraphState, OnceInv, TypeOK
<1>5. CountsOnce' /\ \A x \in GraphState : OnceGraph(x)
          => OnceGraph([fresh |-> x.fresh \cup {n}, waiting |-> x.waiting, ready |-> x.ready])'
  BY <1>1, <1>3, OnceEmit DEF OnceInv
<1>6. SaveStep(t, n, g, h)
  <2>1. h = [ckpt.graph EXCEPT !.fresh = @ \cup {n}]
    BY <1>2 DEF GraphState
  <2> QED BY <1>3, <1>4, <2>1 DEF EmitMessage
<1>7. Paired(t)' /\ ckpt'.graph \in {EmptyGraph, g, h}
  <2>1. CASE t \in unresumable
    BY <1>1, <1>2, <1>6, <2>1 DEF Paired, SaveStep, PutWrites, PutCheckpoint, NoCheckpoint
  <2>2. CASE t \notin unresumable
    <3>1. h.ready = g.ready /\ (OtherBranch(t, n) => t \in ckpt.holders)
      BY <1>2, <2>2 DEF Paired, OtherBranch, EmptyGraph, PassesOf
    <3>2. \/ ckpt' = [graph |-> g, holders |-> {t}, writesOnly |-> FALSE]
          \/ ckpt' = [graph |-> h, holders |-> ckpt.holders, writesOnly |-> ckpt.writesOnly] /\ t \in ckpt.holders
      <4> HIDE DEF g, h
      <4> QED BY <1>2, <1>6, <2>2, <3>1 DEF SaveStep, PutWrites, PutCheckpoint, Checkpoint
    <3> HIDE DEF g, h
    <3> QED BY <1>1, <1>4, <2>2, <3>1, <3>2 DEF Paired
  <2> QED BY <2>1, <2>2
<1>8. \A x : x = mem'[t] \/ x = ckpt'.graph => OnceGraph(x)'
  <2>1. \A x : x = EmptyGraph => OnceGraph(x)'
    BY DEF OnceGraph, EmptyGraph, PassesOf
  <2>2. \A x : x = g => OnceGraph(x)'
    <3>1. ASSUME NEW y, y = mem[t]
          PROVE OnceGraph([fresh |-> y.fresh \cup {n}, waiting |-> y.waiting, ready |-> y.ready])'
      BY <1>2, <1>5, <3>1
    <3> QED BY <3>1
  <2>3. \A x : x = h => OnceGraph(x)'
    <3>1. ASSUME NEW y, y = ckpt.graph
          PROVE OnceGraph([fresh |-> y.fresh \cup {n}, waiting |-> y.waiting, ready |-> y.ready])'
      BY <1>2, <1>5, <3>1
    <3> QED BY <3>1
  <2> HIDE DEF g, h
  <2> QED BY <1>4, <1>7, <2>1, <2>2, <2>3
<1>9. UnresumableNeverPauses'
  BY <1>1, <1>4 DEF OnceInv, UnresumableNeverPauses, TypeOK
<1>10. pc' = [pc EXCEPT ![t] = "graph"] /\ pc[t] \in Active
  BY <1>1 DEF OnceInv, TypeOK, Active
<1> QED BY <1>1, <1>5, <1>7, <1>8, <1>9, <1>10, OnceInside

\* A run enters the graph with nothing, or with the stored graph.
LEMMA OnceEnters ==
    ASSUME OnceInv, TypeOK', NEW t \in Turns, RunStart(t) \/ (LoadCheckpoint(t) /\ HasCheckpoint)
    PROVE  OnceInv'
<1> USE DEF dbVars, runVars, history
<1>1. /\ pc[t] \in Active /\ pc' = [pc EXCEPT ![t] = "graph"]
      /\ UNCHANGED <<unresumable, row, passes, lastPass, ran>>
  BY DEF RunStart, LoadCheckpoint, Goto, Active
<1>2. CountsOnce'
  BY <1>1, OnceSame DEF OnceInv
<1>3. CASE RunStart(t)
  <2>1. /\ mem'[t] = EmptyGraph /\ \A u \in Turns \ {t} : mem'[u] = mem[u]
        /\ ckpt' = NoCheckpoint
    BY <1>3 DEF RunStart, DeleteCheckpoints, OnceInv, TypeOK
  <2>2. Paired(t)'
    BY <2>1 DEF Paired, NoCheckpoint, EmptyGraph
  <2>3. \A x : x = mem'[t] \/ x = ckpt'.graph => OnceGraph(x)'
    BY <2>1, <1>1, EmptyOnce, OnceSame
  <2>4. UnresumableNeverPauses'
    BY <1>1, <2>1 DEF OnceInv, UnresumableNeverPauses, TypeOK, EmptyGraph
  <2> QED BY <1>1, <1>2, <2>2, <2>3, <2>4, OnceInside
<1>4. CASE LoadCheckpoint(t) /\ HasCheckpoint
  <2> DEFINE g == [fresh |-> ckpt.graph.fresh \cup PassesOf(ckpt.graph.waiting),
                   waiting |-> {}, ready |-> ckpt.graph.ready]
  <2>1. /\ mem'[t] = g /\ \A u \in Turns \ {t} : mem'[u] = mem[u]
        /\ ckpt'.graph = ckpt.graph /\ t \in ckpt'.holders
    <3>1. mem' = [mem EXCEPT ![t] = g] /\ ckpt' = [ckpt EXCEPT !.holders = @ \cup {t}]
      BY <1>4 DEF LoadCheckpoint
    <3>2. mem \in [Turns -> GraphState] /\ ckpt \in Checkpoint
      BY DEF OnceInv, TypeOK
    <3> HIDE DEF g
    <3> QED BY <3>1, <3>2 DEF Checkpoint
  <2>2. t \notin unresumable
    <3>1. t \in Resumes
      BY <1>4 DEF LoadCheckpoint, Goto, OnceInv, OnlyResumesLoad
    <3> QED BY <3>1, TurnsAssumption DEF OnceInv, TypeOK
  <2>3. Paired(t)'
    BY <1>1, <2>1, <2>2 DEF Paired
  <2>4. OnceGraph(ckpt.graph) /\ OnceGraph(g)
    BY DEF OnceInv, GraphsOnce, OnceGraph, PassesOf
  <2>5. \A x : x = mem'[t] \/ x = ckpt'.graph => OnceGraph(x)'
    <3> HIDE DEF g
    <3> QED BY <1>1, <2>1, <2>4, OnceSame
  <2>6. UnresumableNeverPauses'
    BY <1>1, <2>1 DEF OnceInv, UnresumableNeverPauses, TypeOK
  <2> QED BY <1>1, <1>2, <2>3, <2>5, <2>6, OnceInside
<1> QED BY <1>3, <1>4

\* A step that moves its turn without work in the graph, and stores no more than it found.
LEMMA OnceMoves ==
    ASSUME OnceInv, TypeOK', NEW t \in Turns, NEW to, pc' = [pc EXCEPT ![t] = to], to # "graph",
           to \in Active => pc[t] \in Active,
           to \in {"resuming", "acked"} => t \in Resumes,
           to # "consumed",
           UNCHANGED <<unresumable, row, lastPass, mem, ran>>,
           ckpt' = ckpt \/ (pc[t] \in Active /\ OnceGraph(ckpt'.graph))
    PROVE  OnceInv'
<1>1. OneTurn'
  BY DEF OnceInv, TypeOK, OneTurn
<1>2. PauseRests'
  BY DEF OnceInv, TypeOK, PauseRests, Quiet
<1>3. OnlyResumesLoad' /\ UnresumableNeverPauses'
  BY DEF OnceInv, TypeOK, OnlyResumesLoad, UnresumableNeverPauses
<1>4. \A u \in Turns \ {t} : pc[u] = "graph" => UNCHANGED <<mem, ckpt, unresumable>>
  BY DEF OnceInv, OneTurn, Active
<1>5. OnceGraph(ckpt'.graph)
  BY DEF OnceInv, GraphsOnce
<1> QED BY <1>1, <1>2, <1>3, <1>4, <1>5, OnceOutside

LEMMA OnceNext ==
    ASSUME OnceInv, MessagesAlone', Next
    PROVE  OnceInv'
<1> USE DEF dbVars, runVars, history
<1>t. TypeOK'
  BY TypeNext DEF OnceInv
<1>0. PICK t \in Turns :
          \/ TurnStart(t) \/ Consume(t) \/ ResumeRefused(t)
          \/ Progress(t) \/ EmitMessage(t)
          \/ BeginResumeFails(t) \/ RunFails(t) \/ Abort(t) \/ Crash(t)
  BY DEF Next
<1>g. OnceGraph(ckpt.graph) /\ \A u \in Turns : pc[u] \in Active \cup {"idle", "done", "dead"}
  BY DEF OnceInv, GraphsOnce, TypeOK
<1>1. CASE TurnStart(t)
  <2>1. /\ pc' = [pc EXCEPT ![t] = "started"] /\ pc[t] = "idle" /\ t \in Messages
        /\ row' = {} /\ UNCHANGED <<unresumable, lastPass, mem, ran>>
        /\ ckpt' \in {ckpt, NoCheckpoint}
    BY <1>1 DEF TurnStart, Goto, TakePause
  <2>2. \A u \in Turns \ {t} : pc'[u] = pc[u] /\ pc[u] \notin Active
    <3>1. pc'[t] \in Active /\ \A u \in Turns \ {t} : pc'[u] = pc[u]
      BY <2>1 DEF OnceInv, TypeOK, Active
    <3> QED BY <2>1, <3>1 DEF MessagesAlone
  <2>3. OneTurn' /\ PauseRests'
    BY <2>1, <2>2 DEF OneTurn, PauseRests
  <2>4. OnlyResumesLoad' /\ UnresumableNeverPauses'
    BY <2>1, <2>2 DEF OnceInv, TypeOK, OnlyResumesLoad, UnresumableNeverPauses
  <2>5. \A u \in Turns \ {t} : pc[u] # "graph"
    BY <2>2 DEF Active
  <2>6. OnceGraph(ckpt'.graph)
    BY <2>1, <1>g, EmptyOnce
  <2> QED BY <1>t, <2>1, <2>3, <2>4, <2>5, <2>6, OnceOutside
<1>2. CASE Consume(t)
  <2>1. /\ pc' = [pc EXCEPT ![t] = "consumed"] /\ t \in Resumes
        /\ row # {} /\ row' = {} /\ UNCHANGED <<unresumable, ckpt, lastPass, mem, ran>>
    BY <1>2 DEF Consume, Goto
  <2>2. \A u \in Turns : pc[u] \notin Active
    BY <2>1 DEF OnceInv, PauseRests, Quiet
  <2>3. OneTurn' /\ PauseRests'
    BY <2>1, <2>2 DEF OnceInv, TypeOK, OneTurn, PauseRests
  <2>4. OnlyResumesLoad' /\ UnresumableNeverPauses'
    BY <2>1, <2>2 DEF OnceInv, TypeOK, OnlyResumesLoad, UnresumableNeverPauses
  <2> QED BY <1>t, <1>g, <2>1, <2>3, <2>4, OnceOutside
<1>3. CASE BeginResume(t) \/ ReadInterrupts(t)
  <2>1. /\ \E to \in {"resuming", "acked"} : pc' = [pc EXCEPT ![t] = to]
        /\ pc[t] \in {"consumed", "resuming"}
        /\ UNCHANGED <<unresumable, row, ckpt, lastPass, mem, ran>>
    BY <1>3 DEF BeginResume, ReadInterrupts, Goto
  <2>2. t \in Resumes /\ pc[t] \in Active
    BY <2>1 DEF OnceInv, OnlyResumesLoad, Active
  <2> QED BY <1>t, <2>1, <2>2, OnceMoves
<1>4. CASE ResumeRefused(t) \/ BeginResumeFails(t) \/ RunFails(t) \/ StreamStops(t)
           \/ AskNothing(t) \/ Crash(t) \/ (LoadCheckpoint(t) /\ ~HasCheckpoint)
  <2>1. /\ \E to \in {"done", "finish", "ask", "dead"} : pc' = [pc EXCEPT ![t] = to] /\ (to \in Active => pc[t] \in Active)
        /\ UNCHANGED <<unresumable, row, ckpt, lastPass, mem, ran>>
    BY <1>4 DEF ResumeRefused, BeginResumeFails, RunFails, StreamStops, AskNothing, Crash,
                LoadCheckpoint, Goto, Active
  <2> QED BY <1>t, <2>1, OnceMoves
<1>5. CASE GraphEnds(t) \/ Finish(t)
  <2>1. /\ \E to \in {"ask", "done"} : pc' = [pc EXCEPT ![t] = to]
        /\ pc[t] \in Active
        /\ UNCHANGED <<unresumable, row, lastPass, mem, ran>>
    BY <1>5 DEF GraphEnds, Finish, Goto, Active
  <2>2. ckpt'.graph \in {ckpt.graph, EmptyGraph}
    BY <1>5 DEF GraphEnds, Finish, PutCheckpoint, DeleteCheckpointsIfNoPending, NoCheckpoint
  <2>3. OnceGraph(ckpt'.graph)
    BY <2>2, <1>g, EmptyOnce
  <2> QED BY <1>t, <2>1, <2>3, OnceMoves
<1>6. CASE AskPauses(t)
  <2>1. /\ pc' = [pc EXCEPT ![t] = "done"] /\ pc[t] = "ask" /\ row' = PendingItems(t)
        /\ PendingItems(t) # {} /\ UNCHANGED <<unresumable, ckpt, lastPass, mem, ran>>
    BY <1>6 DEF AskPauses, Goto, WritePause
  <2>2. row' = ckpt.graph.waiting
    BY <2>1 DEF PendingItems, OnceInv, UnresumableNeverPauses
  <2>3. OneTurn' /\ Quiet'
    BY <2>1 DEF OnceInv, OneTurn, Quiet, TypeOK, Active
  <2>4. PauseRests'
    BY <2>1, <2>2, <2>3 DEF PauseRests
  <2>5. OnlyResumesLoad' /\ UnresumableNeverPauses'
    BY <2>1 DEF OnceInv, TypeOK, OnlyResumesLoad, UnresumableNeverPauses
  <2> QED BY <1>t, <1>g, <2>1, <2>3, <2>4, <2>5, OnceOutside
<1>7. CASE Abort(t)
  BY <1>7, <1>t, OnceSame DEF Abort, OnceInv, OneTurn, PauseRests, Quiet, UnresumableNeverPauses,
     OnlyResumesLoad, GraphsOnce, OnceGraph, Unrun, Paired
<1>8. CASE RunStart(t) \/ (LoadCheckpoint(t) /\ HasCheckpoint)
  BY <1>t, <1>8, OnceEnters
<1>9. CASE EmitMessage(t) \/ Gate(t) \/ Tools(t)
  BY <1>t, <1>9, OnceEmits, OncePauses, OncePasses, OnceRuns DEF Gate, Tools
<1> QED BY <1>0, <1>1, <1>2, <1>3, <1>4, <1>5, <1>6, <1>7, <1>8, <1>9 DEF Progress

LEMMA OnceInit == Init => OnceInv
<1> SUFFICES ASSUME Init PROVE OnceInv
  OBVIOUS
<1>1. \A t \in Turns : pc[t] = "idle"
  BY DEF Init
<1>2. OneTurn /\ PauseRests /\ OnlyResumesLoad /\ GraphsOnce
  BY <1>1, EmptyOnce DEF Init, OneTurn, PauseRests, OnlyResumesLoad, GraphsOnce, Active
<1>3. UnresumableNeverPauses
  BY DEF Init, UnresumableNeverPauses, EmptyGraph
<1>4. CountsOnce
  <2> HIDE DEF Calls
  <2> QED BY DEF Init, CountsOnce
<1> QED BY <1>2, <1>3, <1>4, TypeInit DEF OnceInv

LEMMA OnceStep == OnceInv /\ MessagesAlone' /\ [Next]_vars => OnceInv'
<1>1. CASE UNCHANGED vars
  <2>1. OnceInv => OnceInv'
    BY <1>1, TypeStep, OnceSame DEF vars, OnceInv, OneTurn, PauseRests, Quiet, UnresumableNeverPauses,
       OnlyResumesLoad, GraphsOnce, OnceGraph, Unrun, Paired
  <2> QED BY <2>1
<1> QED BY <1>1, OnceNext

LEMMA OnceAlways == Spec /\ []MessagesAlone => []OnceInv
  BY OnceInit, OnceStep, PTL DEF Spec

\* An allowed call is executed once, whatever number of resumes race for the pause,
\* whichever run crashes, is aborted or fails, and however often a resumed run pauses
\* again, as long as no new message is at work together with another turn.
THEOREM AtMostOnceWhileAlone == Spec /\ []MessagesAlone => []RunsAtMostOnce
<1>1. OnceInv => RunsAtMostOnce
  BY DEF OnceInv, CountsOnce, RunsAtMostOnce
<1> QED BY <1>1, OnceAlways, PTL

\* Under the same condition a pause found in the database can be resumed: nothing has
\* replaced or deleted the graph that waits at its gates.
THEOREM ResumableWhileAlone == Spec /\ []MessagesAlone => []PauseIsResumable
<1>1. OnceInv => PauseIsResumable
  BY DEF OnceInv, PauseRests, PauseIsResumable
<1> QED BY <1>1, OnceAlways, PTL

-----------------------------------------------------------------------------
(* One message and its resumes are always alone *)

\* Turns begin to work with TurnStart and Consume only.
LEMMA NoNewWork ==
    ASSUME TypeOK, Next
    PROVE  \/ \E t \in Turns : TurnStart(t) \/ Consume(t)
           \/ \A u \in Turns : /\ pc'[u] \in Active => pc[u] \in Active
                               /\ pc'[u] = "idle" => pc[u] = "idle"
<1> USE DEF dbVars, runVars, history
<1>0. PICK t \in Turns :
          \/ TurnStart(t) \/ Consume(t) \/ ResumeRefused(t)
          \/ Progress(t) \/ EmitMessage(t)
          \/ BeginResumeFails(t) \/ RunFails(t) \/ Abort(t) \/ Crash(t)
  BY DEF Next
<1>1. CASE RunStart(t) \/ BeginResume(t) \/ ReadInterrupts(t) \/ LoadCheckpoint(t) \/ GraphEnds(t)
           \/ StreamStops(t) \/ AskPauses(t) \/ AskNothing(t) \/ Finish(t)
  <2>1. \E to \in Active \cup {"done"} : pc' = [pc EXCEPT ![t] = to] /\ pc[t] \in Active
    BY <1>1 DEF RunStart, BeginResume, ReadInterrupts, LoadCheckpoint, GraphEnds, StreamStops,
                AskPauses, AskNothing, Finish, Goto, Active
  <2> QED BY <2>1 DEF TypeOK, Active
<1>2. CASE ResumeRefused(t) \/ BeginResumeFails(t) \/ RunFails(t) \/ Crash(t)
  <2>1. \E to \in {"done", "dead", "finish"} :
            pc' = [pc EXCEPT ![t] = to] /\ (to \in Active => pc[t] \in Active)
    BY <1>2 DEF ResumeRefused, BeginResumeFails, RunFails, Crash, Goto, Active
  <2> QED BY <2>1 DEF TypeOK, Active
<1>3. CASE EmitMessage(t) \/ Abort(t) \/ Gate(t) \/ Tools(t)
  BY <1>3 DEF EmitMessage, Abort, Gate, GatePauses, GatePasses, Tools, RunTool
<1> QED BY <1>0, <1>1, <1>2, <1>3 DEF Progress

\* Before the message nothing is at work and nothing is paused.
NothingBefore == \A m \in Messages : pc[m] = "idle" => row = {} /\ \A t \in Turns : pc[t] \notin Active

LEMMA FirstStep ==
    ASSUME \A m, n \in Messages : m = n
    PROVE  OnceInv /\ NothingBefore /\ [Next]_vars => (OnceInv /\ NothingBefore)' /\ MessagesAlone'
<1> USE DEF dbVars, runVars, history
<1> SUFFICES ASSUME OnceInv, NothingBefore, [Next]_vars
             PROVE  (OnceInv /\ NothingBefore)' /\ MessagesAlone'
  OBVIOUS
<1>1. MessagesAlone
  BY DEF OnceInv, OneTurn, MessagesAlone
<1>2. CASE UNCHANGED vars
  BY <1>1, <1>2, OnceStep DEF vars, MessagesAlone, NothingBefore
<1>3. ASSUME NEW t \in Turns, TurnStart(t) PROVE NothingBefore' /\ MessagesAlone'
  <2>1. pc' = [pc EXCEPT ![t] = "started"] /\ pc[t] = "idle" /\ t \in Messages
    BY <1>3 DEF TurnStart, Goto
  <2>2. \A u \in Turns : pc[u] \notin Active
    BY <2>1 DEF NothingBefore
  <2>3. \A u \in Turns \ {t} : pc'[u] \notin Active
    BY <2>1, <2>2 DEF OnceInv, TypeOK
  <2>4. pc'[t] = "started"
    BY <2>1 DEF OnceInv, TypeOK
  <2> QED BY <2>1, <2>3, <2>4 DEF NothingBefore, MessagesAlone
<1>4. ASSUME NEW t \in Turns, Consume(t) PROVE NothingBefore' /\ MessagesAlone'
  <2>1. pc' = [pc EXCEPT ![t] = "consumed"] /\ pc[t] = "idle" /\ row # {}
    BY <1>4 DEF Consume, Goto
  <2>2. \A u \in Turns : pc[u] \notin Active
    BY <2>1 DEF OnceInv, PauseRests, Quiet
  <2>3. \A u \in Turns \ {t} : pc'[u] \notin Active
    BY <2>1, <2>2 DEF OnceInv, TypeOK
  <2>4. \A m \in Messages : pc[m] # "idle" /\ pc'[m] # "idle"
    BY <2>1 DEF OnceInv, TypeOK, NothingBefore
  <2> QED BY <2>3, <2>4 DEF NothingBefore, MessagesAlone
<1>5. ASSUME Next, \A u \in Turns : (pc'[u] \in Active => pc[u] \in Active) /\ (pc'[u] = "idle" => pc[u] = "idle")
      PROVE  NothingBefore' /\ MessagesAlone'
  <2>1. MessagesAlone'
    BY <1>1, <1>5 DEF MessagesAlone
  <2>2. ASSUME NEW m \in Messages, pc'[m] = "idle"
        PROVE  row' = {}
    <3>1. pc[m] = "idle" /\ row = {} /\ \A u \in Turns : pc[u] \notin Active
      BY <1>5, <2>2 DEF NothingBefore
    <3>2. ASSUME NEW t \in Turns, AskPauses(t) PROVE FALSE
      BY <3>1, <3>2 DEF AskPauses, Goto, Active
    <3>3. row' = row \/ row' = {}
      BY <1>5, <3>2 DEF Next, Progress, Gate, Tools, TurnStart, TakePause, Consume, ResumeRefused, RunStart,
         BeginResume, ReadInterrupts, LoadCheckpoint, GatePauses, GatePasses, RunTool, GraphEnds,
         StreamStops, AskNothing, Finish, EmitMessage, BeginResumeFails, RunFails, Abort, Crash
    <3> QED BY <3>1, <3>3
  <2> QED BY <1>5, <2>1, <2>2 DEF NothingBefore
<1>6. CASE Next
  <2>1. NothingBefore' /\ MessagesAlone'
    BY <1>3, <1>4, <1>5, <1>6, NoNewWork DEF OnceInv
  <2> QED BY <1>6, <2>1, OnceNext
<1> QED BY <1>2, <1>6

\* A conversation with one message, however often it pauses and is resumed, meets the
\* condition by itself: its allowed calls are executed at most once.
THEOREM OneMessageRunsOnce ==
    ASSUME \A m, n \in Messages : m = n
    PROVE  Spec => [](RunsAtMostOnce /\ PauseIsResumable)
<1>1. Init => NothingBefore
  BY DEF Init, NothingBefore, Active
<1>2. OnceInv => RunsAtMostOnce /\ PauseIsResumable
  BY DEF OnceInv, CountsOnce, RunsAtMostOnce, PauseRests, PauseIsResumable
<1> QED BY <1>1, <1>2, OnceInit, FirstStep, PTL DEF Spec

-----------------------------------------------------------------------------
(* Checkpoints left behind *)

\* While stored rows need no pause, a turn that will delete them is at work.
SomebodyDeletes == row = {} /\ HasRows => \E t \in Turns \ unresumable : pc[t] \in Active

LEMMA DeleterStays ==
    ASSUME SomebodyDeletes, UNCHANGED <<unresumable, row>>, HasRows' => HasRows,
           \A u \in Turns \ unresumable : pc[u] \in Active => pc'[u] \in Active
    PROVE  SomebodyDeletes'
  BY DEF SomebodyDeletes

LEMMA WriterDeletes ==
    ASSUME NEW t \in Turns, t \notin unresumable, UNCHANGED unresumable, pc'[t] \in Active
    PROVE  SomebodyDeletes'
  BY DEF SomebodyDeletes

\* The store is written by a run that can be resumed, or keeps its holders.
LEMMA StoreHolders ==
    ASSUME TypeOK, NEW t \in Turns, NEW g, NEW h, NEW p,
           SaveStep(t, p, g, h) \/ PutWrites(t, h) \/ PutCheckpoint(t, g)
    PROVE  t \notin unresumable \/ (ckpt'.holders = ckpt.holders /\ ckpt'.writesOnly = ckpt.writesOnly)
  BY DEF SaveStep, PutWrites, PutCheckpoint, TypeOK, Checkpoint

LEMMA DeletesNext ==
    ASSUME Faults \cap {"crash", "restore"} = {}, TypeOK, SomebodyDeletes, Next
    PROVE  SomebodyDeletes'
<1> USE DEF dbVars, runVars, history
<1>0. PICK t \in Turns :
          \/ TurnStart(t) \/ Consume(t) \/ ResumeRefused(t)
          \/ Progress(t) \/ EmitMessage(t)
          \/ BeginResumeFails(t) \/ RunFails(t) \/ Abort(t) \/ Crash(t)
  BY DEF Next
<1>1. CASE TurnStart(t)
  <2>1. CASE row = {}
    <3>1. UNCHANGED <<unresumable, row, ckpt>>
      BY <1>1, <2>1 DEF TurnStart, TakePause
    <3>2. \A u \in Turns : pc[u] \in Active => pc'[u] \in Active
      BY <1>1 DEF TurnStart, Goto, TypeOK, Active
    <3> QED BY <3>1, <3>2, DeleterStays DEF HasRows, HasCheckpoint
  <2>2. CASE row # {}
    BY <1>1, <2>2 DEF TurnStart, TakePause, SomebodyDeletes, HasRows, HasCheckpoint, NoCheckpoint
  <2> QED BY <2>1, <2>2
<1>2. CASE RunStart(t)
  BY <1>2 DEF RunStart, DeleteCheckpoints, SomebodyDeletes, HasRows, HasCheckpoint, NoCheckpoint
<1>3. CASE Consume(t)
  <2>1. t \notin unresumable /\ UNCHANGED unresumable /\ pc'[t] \in Active
    BY <1>3, TurnsAssumption DEF Consume, Goto, TypeOK, Active
  <2> QED BY <2>1, WriterDeletes
<1>4. CASE ResumeRefused(t) \/ BeginResume(t) \/ ReadInterrupts(t) \/ RunFails(t) \/ StreamStops(t)
           \/ AskNothing(t) \/ Abort(t)
  <2>1. UNCHANGED <<unresumable, row, ckpt>>
    BY <1>4 DEF ResumeRefused, BeginResume, ReadInterrupts, RunFails, StreamStops, AskNothing, Abort
  <2>2. pc' = pc \/ \E to : pc' = [pc EXCEPT ![t] = to] /\ (to \in Active \/ pc[t] \notin Active)
    BY <1>4 DEF ResumeRefused, BeginResume, ReadInterrupts, RunFails, StreamStops, AskNothing, Abort, Goto, Active
  <2>3. \A u \in Turns : pc[u] \in Active => pc'[u] \in Active
    BY <2>2 DEF TypeOK
  <2> QED BY <2>1, <2>3, DeleterStays DEF HasRows, HasCheckpoint
<1>5. CASE LoadCheckpoint(t)
  <2>1. UNCHANGED <<unresumable, row>> /\ (HasRows' => HasRows)
    BY <1>5 DEF LoadCheckpoint, HasRows, HasCheckpoint
  <2>2. \E to \in Active : pc' = [pc EXCEPT ![t] = to]
    BY <1>5 DEF LoadCheckpoint, Goto, Active
  <2> QED BY <2>1, <2>2, DeleterStays DEF TypeOK
<1>6. CASE EmitMessage(t) \/ Gate(t) \/ Tools(t) \/ GraphEnds(t)
  <2>1. /\ UNCHANGED <<unresumable, row>>
        /\ \A u \in Turns : pc[u] \in Active => pc'[u] \in Active
        /\ pc'[t] \in Active
    BY <1>6 DEF EmitMessage, Gate, GatePauses, GatePasses, Tools, RunTool, GraphEnds, Goto, TypeOK, Active
  <2>2. ckpt' = ckpt \/ \E g, h, p : SaveStep(t, p, g, h) \/ PutWrites(t, h) \/ PutCheckpoint(t, g)
    BY <1>6 DEF EmitMessage, Gate, GatePauses, GatePasses, Tools, RunTool, GraphEnds
  <2>3. t \notin unresumable \/ (ckpt'.holders = ckpt.holders /\ ckpt'.writesOnly = ckpt.writesOnly)
    BY <2>2, StoreHolders
  <2> QED BY <2>1, <2>3, WriterDeletes, DeleterStays DEF HasRows, HasCheckpoint
<1>7. CASE AskPauses(t)
  BY <1>7 DEF AskPauses, WritePause, SomebodyDeletes
<1>8. CASE Finish(t)
  <2>1. /\ UNCHANGED <<unresumable, row>>
        /\ \A u \in Turns \ {t} : pc'[u] = pc[u]
    BY <1>8 DEF Finish, Goto, TypeOK
  <2>2. CASE t \in unresumable
    BY <1>8, <2>1, <2>2, DeleterStays DEF Finish, HasRows, HasCheckpoint
  <2>3. CASE t \notin unresumable
    BY <1>8, <2>1, <2>3 DEF Finish, DeleteCheckpointsIfNoPending, SomebodyDeletes, HasRows, HasCheckpoint, NoCheckpoint
  <2> QED BY <2>2, <2>3
<1>9. CASE BeginResumeFails(t) \/ Crash(t)
  BY <1>9 DEF BeginResumeFails, Crash
<1> QED BY <1>0, <1>1, <1>2, <1>3, <1>4, <1>5, <1>6, <1>7, <1>8, <1>9 DEF Progress

\* Whatever messages and resumes overlap, abort, stop or fail: when the last of them has
\* ended, the checkpoint rows are gone or a pause needs them.  (A crash and a restore that
\* fails are the exceptions; their rows are left to the next message.)
THEOREM NoOrphansLeft ==
    ASSUME Faults \cap {"crash", "restore"} = {}
    PROVE  Spec => []NoOrphanCheckpoints
<1>1. Init => SomebodyDeletes
  BY DEF Init, SomebodyDeletes, HasRows, HasCheckpoint, NoCheckpoint
<1>2. TypeOK /\ SomebodyDeletes /\ [Next]_vars => SomebodyDeletes'
  <2>1. CASE UNCHANGED vars
    BY <2>1 DEF vars, SomebodyDeletes, HasRows, HasCheckpoint
  <2> QED BY <2>1, DeletesNext
<1>3. SomebodyDeletes => NoOrphanCheckpoints
  BY DEF SomebodyDeletes, NoOrphanCheckpoints, Quiet
<1> QED BY <1>1, <1>2, <1>3, TypeCorrect, PTL DEF Spec
=================================================================================
