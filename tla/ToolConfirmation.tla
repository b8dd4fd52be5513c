---------------------------- MODULE ToolConfirmation ----------------------------
(***************************************************************************)
(* The tool-call confirmation of one conversation: the gate that every AI  *)
(* message passes, the pending row and the checkpoint rows kept in the     *)
(* database, and the turns that race on them.  A turn is one request: a    *)
(* new message (Messages) or a resume of a pause (Resumes).                *)
(*                                                                         *)
(* A PASS is one AI message with tool calls arriving at one gate; its      *)
(* number stands for the gate's checkpoint_ns, which is new for every      *)
(* message.  A CALL is <<pass, wire id>>: providers may reuse wire ids, so *)
(* the wire id alone does not identify a call.                             *)
(***************************************************************************)
EXTENDS Naturals, FiniteSets

CONSTANTS
    Messages,     \* turns that are new user messages
    Resumes,      \* turns that are resume requests (Allow / Deny)
    Wires,        \* provider tool-call ids
    Locations,    \* agents of the tree: the root and parallel sub-assistants
    MaxPass,      \* bound: AI messages with tool calls in one behaviour
    Faults        \* which of "crash", "abort", "error", "restore" may happen

Turns == Messages \cup Resumes
Passes == 1..MaxPass
Calls == Passes \X Wires

\* What the gate recorded of a call when it interrupted: allowed by the policy
\* or by a carried decision, denied by a carried decision, or still to be asked.
Verdicts == {"allow", "deny", "ask"}
Items == [call : Calls, verdict : Verdicts]
Decisions == [call : Calls, action : {"allow", "deny"}]

ASSUME TurnsAssumption ==
    Messages \cap Resumes = {}
ASSUME BoundAssumption == MaxPass \in Nat

VARIABLES
    unresumable, \* the messages whose run cannot be resumed (history off, no stream)
    row,       \* conversation_pending_tool_calls: the items of the pause, {} = no row
    ckpt,      \* conversation_checkpoints: what the stored graph state holds
    passes,    \* the AI messages produced so far
    lastPass,  \* how many
    pc,        \* where each turn stands
    mem,       \* the graph state each run holds in memory
    carrier,   \* the decisions a resume carries into the graph
    acks,      \* the gates a resume acknowledges
    closed,    \* the turn's generator is closed by an abort or a queue timeout
    asked,     \* history: calls some pause showed to the user
    granted,   \* history: calls the user allowed
    ran        \* history: how often each call was executed

dbVars == <<row, ckpt>>
runVars == <<unresumable, passes, lastPass, mem, carrier, acks>>
history == <<asked, granted, ran>>
vars == <<unresumable, row, ckpt, passes, lastPass, pc, mem, carrier, acks, closed,
          asked, granted, ran>>

-----------------------------------------------------------------------------
(* Calls, items and graph states *)

PassOf(c) == c[1]
\* location key and wire id: what a step id and a carrier entry are keyed by
KeyOf(c) == <<passes[PassOf(c)].loc, c[2]>>
CallsOf(p) == {<<p, w>> : w \in passes[p].wires}
Risky(c) == c[2] \in passes[PassOf(c)].risky
PassesOf(items) == {PassOf(i.call) : i \in items}
Shown(items) == {i \in items : i.verdict = "ask"}

\* The state of a graph: AI messages the gate has not seen, calls its gates
\* paused on, calls routed to the tools node and not finished.
GraphState == [fresh : SUBSET Passes, waiting : SUBSET Items, ready : SUBSET Calls]
EmptyGraph == [fresh |-> {}, waiting |-> {}, ready |-> {}]

\* holders: the runs whose latest checkpoint is the stored one (none: no checkpoint);
\* writesOnly: there is a row without a checkpoint.
Checkpoint == [graph : GraphState, holders : SUBSET Turns, writesOnly : BOOLEAN]
NoCheckpoint == [graph |-> EmptyGraph, holders |-> {}, writesOnly |-> FALSE]
HasCheckpoint == ckpt.holders # {}
HasRows == HasCheckpoint \/ ckpt.writesOnly

Active == {"started", "consumed", "resuming", "acked", "graph", "ask", "finish"}

TypeOK ==
    /\ unresumable \subseteq Messages
    /\ row \subseteq Items
    /\ ckpt \in Checkpoint
    /\ passes \in [Passes -> [loc : Locations, wires : SUBSET Wires, risky : SUBSET Wires]]
    /\ lastPass \in 0..MaxPass
    /\ pc \in [Turns -> Active \cup {"idle", "done", "dead"}]
    /\ mem \in [Turns -> GraphState]
    /\ carrier \in [Turns -> SUBSET Decisions]
    /\ acks \in [Turns -> SUBSET Passes]
    /\ closed \in [Turns -> BOOLEAN]
    /\ asked \subseteq Calls
    /\ granted \subseteq Calls
    /\ ran \in [Calls -> 0..2]

Init ==
    /\ unresumable \in SUBSET Messages
    /\ row = {}
    /\ ckpt = NoCheckpoint
    /\ \E l \in Locations : passes = [p \in Passes |-> [loc |-> l, wires |-> {}, risky |-> {}]]
    /\ lastPass = 0
    /\ pc = [t \in Turns |-> "idle"]
    /\ mem = [t \in Turns |-> EmptyGraph]
    /\ carrier = [t \in Turns |-> {}]
    /\ acks = [t \in Turns |-> {}]
    /\ closed = [t \in Turns |-> FALSE]
    /\ asked = {}
    /\ granted = {}
    /\ ran = [c \in Calls |-> 0]

Goto(t, from, to) == pc[t] = from /\ pc' = [pc EXCEPT ![t] = to]

(***************************************************************************)
(* The pause repository: one SQL statement or transaction each.            *)
(***************************************************************************)
DeleteCheckpoints == ckpt' = NoCheckpoint
DeleteCheckpointsIfNoPending == ckpt' = IF row = {} THEN NoCheckpoint ELSE ckpt
TakePause == row' = {} /\ ckpt' = IF row = {} THEN ckpt ELSE NoCheckpoint
WritePause(items) == row' = items

\* put_checkpoint replaces the row whoever wrote it; put_writes counts only
\* while the stored checkpoint is still the writer's.  Where no row is left it
\* makes one of writes alone: no checkpoint (get_checkpoint), and its writes name
\* an id under which none is put again (get_tuple), but a row to be deleted.
PutCheckpoint(t, g) ==
    ckpt' = IF t \in unresumable THEN ckpt
            ELSE [graph |-> g, holders |-> {t}, writesOnly |-> FALSE]
PutWrites(t, g) ==
    ckpt' = IF t \in ckpt.holders THEN [ckpt EXCEPT !.graph = g]
            ELSE IF t \in unresumable \/ HasCheckpoint THEN ckpt
            ELSE [ckpt EXCEPT !.writesOnly = TRUE]

\* A superstep of the only active branch ends with a checkpoint of the root
\* namespace; with a parallel branch still open only task writes are stored.
OtherBranch(t, p) ==
    \/ mem[t].fresh \ {p} # {}
    \/ PassesOf(mem[t].waiting) \ {p} # {}
    \/ {PassOf(c) : c \in mem[t].ready} \ {p} # {}
SaveStep(t, p, g, stored) ==
    IF OtherBranch(t, p) THEN PutWrites(t, stored) ELSE PutCheckpoint(t, g)

-----------------------------------------------------------------------------
(* A new message: end the pause, build the agent, start the run *)

\* process_request / _guard_conversation_not_finished: a waiting pause ends.
TurnStart(t) ==
    /\ t \in Messages
    /\ Goto(t, "idle", "started")
    /\ TakePause
    /\ UNCHANGED <<runVars, closed, history>>

\* stream(): the run starts from no stored checkpoint.
RunStart(t) ==
    /\ t \in Messages
    /\ Goto(t, "started", "graph")
    /\ DeleteCheckpoints
    /\ mem' = [mem EXCEPT ![t] = EmptyGraph]
    /\ UNCHANGED <<unresumable, row, passes, lastPass, carrier, acks, closed, history>>

-----------------------------------------------------------------------------
(* A resume: take the row with the decisions, restore the turn, load the graph *)

\* applied_decisions: the policy's and the carried verdicts stand, the user's
\* allowed step ids decide the rest.
Applied(i, allowedKeys) ==
    [call |-> i.call,
     action |-> CASE i.verdict = "ask" -> IF KeyOf(i.call) \in allowedKeys THEN "allow" ELSE "deny"
                  [] OTHER -> i.verdict]

\* Mutant: the row is read and validated but not deleted.
ConsumeKeepsRow(t) ==
    /\ t \in Resumes
    /\ row # {}
    /\ Goto(t, "idle", "consumed")
    /\ \E allowedKeys \in SUBSET {KeyOf(i.call) : i \in Shown(row)} :
        /\ carrier' = [carrier EXCEPT ![t] = {Applied(i, allowedKeys) : i \in row}]
        /\ granted' = granted \cup {i.call : i \in {j \in Shown(row) : KeyOf(j.call) \in allowedKeys}}
    /\ UNCHANGED <<unresumable, row, ckpt, passes, lastPass, mem, acks, closed, asked, ran>>

\* Mutant: the decisions may name a call that was not shown.
ConsumeUnshown(t) ==
    /\ t \in Resumes
    /\ row # {}
    /\ Goto(t, "idle", "consumed")
    /\ \E allowedKeys \in SUBSET {KeyOf(i.call) : i \in row} :
        /\ carrier' = [carrier EXCEPT ![t] = {Applied(i, allowedKeys) : i \in row}]
        /\ granted' = granted \cup {i.call : i \in {j \in row : KeyOf(j.call) \in allowedKeys}}
    /\ row' = {}
    /\ UNCHANGED <<unresumable, ckpt, passes, lastPass, mem, acks, closed, asked, ran>>

\* resume_tool_call with decisions naming exactly the shown calls: SELECT FOR
\* UPDATE, validate, DELETE RETURNING in one transaction.
Consume(t) ==
    /\ t \in Resumes
    /\ row # {}
    /\ Goto(t, "idle", "consumed")
    /\ \E allowedKeys \in SUBSET {KeyOf(i.call) : i \in Shown(row)} :
        /\ carrier' = [carrier EXCEPT ![t] = {Applied(i, allowedKeys) : i \in row}]
        /\ granted' = granted \cup {i.call : i \in {j \in Shown(row) : KeyOf(j.call) \in allowedKeys}}
    /\ row' = {}
    /\ UNCHANGED <<unresumable, ckpt, passes, lastPass, mem, acks, closed, asked, ran>>

\* 404 without a row; 409 (the row stays) when root assistant or decisions differ.
ResumeRefused(t) ==
    /\ t \in Resumes
    /\ Goto(t, "idle", "done")
    /\ UNCHANGED <<dbVars, runVars, closed, history>>

\* begin_resume and build_resumed_agent; a raise ends the turn in error and
\* leaves the checkpoint rows to the next run.
BeginResume(t) ==
    /\ Goto(t, "consumed", "resuming")
    /\ UNCHANGED <<dbVars, runVars, closed, history>>
BeginResumeFails(t) ==
    /\ "restore" \in Faults
    /\ Goto(t, "consumed", "done")
    /\ UNCHANGED <<dbVars, runVars, closed, history>>

\* resume_from_interrupt reads the pending interrupts of the stored state ...
ReadInterrupts(t) ==
    /\ Goto(t, "resuming", "acked")
    /\ acks' = [acks EXCEPT ![t] = PassesOf(ckpt.graph.waiting)]
    /\ UNCHANGED <<unresumable, dbVars, passes, lastPass, mem, carrier, closed, history>>

\* ... and the graph loads the state again; its paused gates run from the top.
LoadCheckpoint(t) ==
    /\ IF HasCheckpoint
       THEN /\ Goto(t, "acked", "graph")
            /\ mem' = [mem EXCEPT ![t] =
                   [fresh |-> ckpt.graph.fresh \cup PassesOf(ckpt.graph.waiting),
                    waiting |-> {},
                    ready |-> ckpt.graph.ready]]
            /\ ckpt' = [ckpt EXCEPT !.holders = @ \cup {t}]
       ELSE /\ Goto(t, "acked", "finish")
            /\ UNCHANGED <<unresumable, mem, ckpt>>
    /\ UNCHANGED <<unresumable, row, passes, lastPass, carrier, acks, closed, history>>

-----------------------------------------------------------------------------
(* The graph *)

BranchFree(t, l) ==
    \A p \in mem[t].fresh \cup PassesOf(mem[t].waiting) \cup {PassOf(c) : c \in mem[t].ready} :
        passes[p].loc # l

\* The model of the agent at l answers with tool calls; the policy makes some of
\* them risky.  The pre_model_hook lets no model run on a closed stream.
EmitMessage(t) ==
    /\ pc[t] = "graph"
    /\ ~closed[t]
    /\ lastPass < MaxPass
    /\ lastPass' = lastPass + 1
    /\ \E l \in Locations, W \in SUBSET Wires \ {{}}, R \in SUBSET Wires :
        /\ R \subseteq W
        /\ BranchFree(t, l)
        /\ passes' = [passes EXCEPT ![lastPass'] = [loc |-> l, wires |-> W, risky |-> R]]
        /\ mem' = [mem EXCEPT ![t].fresh = @ \cup {lastPass'}]
        /\ SaveStep(t, lastPass', mem'[t], [ckpt.graph EXCEPT !.fresh = @ \cup {lastPass'}])
    /\ UNCHANGED <<unresumable, row, pc, carrier, acks, closed, history>>

\* Mutant: the namespace of the entry is not compared.
CarriedByKey(t, c) == {d.action : d \in {e \in carrier[t] : KeyOf(e.call) = KeyOf(c)}}

\* The carried decision of a call: the entry of its key, used only when it was
\* made for this gate's own namespace.
Carried(t, c) ==
    {d.action : d \in {e \in carrier[t] : KeyOf(e.call) = KeyOf(c) /\ PassOf(e.call) = PassOf(c)}}

\* Mutant: the policy is asked before the carried decision.
CallVerdictPolicyFirst(t, c) ==
    CASE Risky(c) -> "ask"
      [] "deny" \in Carried(t, c) -> "deny"
      [] OTHER -> "allow"

CallVerdict(t, c) ==
    CASE "allow" \in Carried(t, c) -> "allow"
      [] "deny" \in Carried(t, c) -> "deny"
      [] Risky(c) -> "ask"
      [] OTHER -> "allow"

GateItems(t, p) == {[call |-> c, verdict |-> CallVerdict(t, c)] : c \in CallsOf(p)}

\* The post_model_hook of one AI message: one interrupt with every call when some
\* call is undecided, unless the run cannot pause or the interrupt is
\* acknowledged; then every call that is not allowed is denied.
Pauses(t, p) == Shown(GateItems(t, p)) # {} /\ p \notin acks[t] /\ t \notin unresumable

GatePauses(t, p) ==
    /\ pc[t] = "graph"
    /\ p \in mem[t].fresh
    /\ Pauses(t, p)
    /\ mem' = [mem EXCEPT ![t].fresh = @ \ {p}, ![t].waiting = @ \cup GateItems(t, p)]
    /\ PutWrites(t, [ckpt.graph EXCEPT !.fresh = @ \ {p}, !.waiting = @ \cup GateItems(t, p)])
    /\ UNCHANGED <<unresumable, row, passes, lastPass, pc, carrier, acks, closed, history>>

AllowedCalls(t, p) == {i.call : i \in {j \in GateItems(t, p) : j.verdict = "allow"}}

GatePasses(t, p) ==
    /\ pc[t] = "graph"
    /\ p \in mem[t].fresh
    /\ ~Pauses(t, p)
    /\ mem' = [mem EXCEPT ![t].fresh = @ \ {p}, ![t].ready = @ \cup AllowedCalls(t, p)]
    /\ SaveStep(t, p, mem'[t],
           [fresh |-> ckpt.graph.fresh \ {p},
            waiting |-> {i \in ckpt.graph.waiting : PassOf(i.call) # p},
            ready |-> ckpt.graph.ready \cup AllowedCalls(t, p)])
    /\ UNCHANGED <<unresumable, row, passes, lastPass, pc, carrier, acks, closed, history>>

\* The tools node executes one routed call; its result is a task write.
RunTool(t, c) ==
    /\ pc[t] = "graph"
    /\ c \in mem[t].ready
    /\ ran' = [ran EXCEPT ![c] = IF @ = 2 THEN 2 ELSE @ + 1]
    /\ mem' = [mem EXCEPT ![t].ready = @ \ {c}]
    /\ PutWrites(t, [ckpt.graph EXCEPT !.ready = @ \ {c}])
    /\ UNCHANGED <<unresumable, row, passes, lastPass, pc, carrier, acks, closed, asked, granted>>

\* The stream of the graph ends: a final answer (its checkpoint has no task
\* left) or paused gates.
GraphEnds(t) ==
    /\ Goto(t, "graph", "ask")
    /\ mem[t].fresh = {}
    /\ mem[t].ready = {}
    /\ IF mem[t].waiting = {} THEN PutCheckpoint(t, EmptyGraph) ELSE UNCHANGED ckpt
    /\ UNCHANGED <<row, runVars, closed, history>>

\* A closed generator stops the run: the consumer leaves its loop and still asks,
\* or a pre_model_hook raises and the run ends without asking.
StreamStops(t) ==
    /\ closed[t]
    /\ Goto(t, "graph", "ask") \/ Goto(t, "graph", "finish")
    /\ UNCHANGED <<dbVars, runVars, closed, history>>

\* An exception anywhere in the run ends in the same finally as a success.
RunFails(t) ==
    /\ "error" \in Faults
    /\ \E from \in {"started", "resuming", "acked", "graph", "ask"} : Goto(t, from, "finish")
    /\ UNCHANGED <<dbVars, runVars, closed, history>>

\* ask_for_tool_confirmation: the pending interrupts of the STORED state become
\* the row, written before any waiting step streams.
PendingItems(t) == IF t \in unresumable THEN mem[t].waiting ELSE ckpt.graph.waiting

AskPauses(t) ==
    /\ PendingItems(t) # {}
    /\ Goto(t, "ask", "done")
    /\ WritePause(PendingItems(t))
    /\ asked' = asked \cup {i.call : i \in Shown(PendingItems(t))}
    /\ UNCHANGED <<ckpt, runVars, closed, granted, ran>>

AskNothing(t) ==
    /\ PendingItems(t) = {}
    /\ Goto(t, "ask", "finish")
    /\ UNCHANGED <<dbVars, runVars, closed, history>>

\* Mutant: the checkpoints are left to the next run.
FinishKeepsCheckpoints(t) ==
    /\ Goto(t, "finish", "done")
    /\ UNCHANGED <<dbVars, runVars, closed, history>>

\* _delete_checkpoints_after_run of a run that did not pause.
Finish(t) ==
    /\ Goto(t, "finish", "done")
    /\ IF t \in unresumable THEN UNCHANGED ckpt ELSE DeleteCheckpointsIfNoPending
    /\ UNCHANGED <<row, runVars, closed, history>>

-----------------------------------------------------------------------------
(* What happens to a turn from outside *)

\* GenerationManager.abort or a queue timeout closes the generator.
Abort(t) ==
    /\ "abort" \in Faults
    /\ pc[t] \in Active
    /\ ~closed[t]
    /\ closed' = [closed EXCEPT ![t] = TRUE]
    /\ UNCHANGED <<dbVars, runVars, pc, history>>

Crash(t) ==
    /\ "crash" \in Faults
    /\ pc[t] \in Active
    /\ pc' = [pc EXCEPT ![t] = "dead"]
    /\ UNCHANGED <<dbVars, runVars, closed, history>>

Gate(t) == \E p \in Passes : GatePauses(t, p) \/ GatePasses(t, p)
Tools(t) == \E c \in Calls : RunTool(t, c)

\* What the turn's own threads do once it has begun.
Progress(t) ==
    \/ RunStart(t) \/ BeginResume(t) \/ ReadInterrupts(t) \/ LoadCheckpoint(t)
    \/ Gate(t) \/ Tools(t) \/ GraphEnds(t) \/ StreamStops(t)
    \/ AskPauses(t) \/ AskNothing(t) \/ Finish(t)

Next == \E t \in Turns :
    \/ TurnStart(t) \/ Consume(t) \/ ResumeRefused(t)
    \/ Progress(t) \/ EmitMessage(t)
    \/ BeginResumeFails(t) \/ RunFails(t) \/ Abort(t) \/ Crash(t)

Spec == Init /\ [][Next]_vars

\* The threads of a turn run until they end; users owe nothing.
FairSpec == Spec /\ \A t \in Turns : WF_vars(Progress(t))

-----------------------------------------------------------------------------
(* Properties *)

\* A call the policy holds back runs only after a user allowed that very call:
\* no carrier, checkpoint or row of another pause or another run lets it through
\* (confirmation_gate: an entry of another namespace is ignored, an undecided
\* call is denied).
RunsOnlyWhenGranted == \A c \in Calls : ran[c] > 0 /\ Risky(c) => c \in granted

\* No new message is at work together with another turn.  Nothing in the code
\* refuses it, and RunsAtMostOnce and PauseIsResumable need it: a message deletes
\* the checkpoint of a pause that is being written or resumed.
MessagesAlone == \A m \in Messages : \A t \in Turns \ {m} : ~(pc[m] \in Active /\ pc[t] \in Active)

\* Of any number of resumes one takes the pause, so an allowed call is executed
\* once, whatever fails or crashes (while MessagesAlone).
RunsAtMostOnce == \A c \in Calls : ran[c] <= 1

\* A run that ended leaves no checkpoint rows behind unless a pause needs them.
Quiet == \A t \in Turns : pc[t] \notin Active
NoOrphanCheckpoints == Quiet /\ row = {} => ~HasRows

\* A pause in the database can be resumed: with no turn at work the stored
\* graph waits at exactly the gates of the row (while MessagesAlone).
PauseIsResumable == Quiet /\ row # {} => ckpt.graph.waiting = row

\* The confirmation keeps the promise of ToolApproval whatever the interleaving
\* of turns, faults and deletes: only a proposed call is asked about, only a
\* shown call is granted, and a held one runs only when granted.
Proposed == {c \in Calls : c \in CallsOf(PassOf(c))}
Held == {c \in Calls : Risky(c)}
Done == {c \in Calls : ran[c] > 0}
Approval == INSTANCE ToolApproval WITH proposed <- Proposed, held <- Held, done <- Done
ImplementsApproval == Approval!Spec

\* What the user allowed is executed in the end.
GrantedRuns == \A c \in Calls : (c \in granted) ~> (ran[c] > 0)
=================================================================================
