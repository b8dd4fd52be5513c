-------------------------- MODULE ConversationHistory --------------------------
(***************************************************************************)
(* One conversation row and the requests that change it.  Nearly all of    *)
(* them load the row, change their copy and call update(): it reads the    *)
(* row again and writes those columns of the copy that differ from what it *)
(* read, with no lock and no version.  Finishing is one conditional UPDATE *)
(* and settling a cost re-reads the history under a row lock.              *)
(*                                                                         *)
(* An entry stands for the user's message and its answer, which the code   *)
(* appends and replaces as a pair.  A streamed turn saves an in_progress   *)
(* entry first and replaces it when the answer is there.                   *)
(***************************************************************************)
EXTENDS Integers, Sequences, FiniteSets, FiniteSetsExt, SequencesExt

CONSTANTS
    Turns,     \* chat requests
    Old,       \* a turn that was saved before
    Edits,     \* the other requests
    MaxEntries \* entries of the history (bound)

ASSUME HistoryAssumption ==
    /\ Old \notin Turns
    /\ MaxEntries \in Nat \ {0}

VARIABLES
    row,        \* the conversation
    turn,       \* where each chat request stands
    edit,       \* where each other request stands
    registered, \* GenerationManager: the turns an abort of the conversation finds
    finishes,   \* history: requests that were told they finished this row
    slips,      \* history: what copies were written over, and what happened under a turn
    late,       \* history: turns whose save raised after its commit
    saved,      \* history: turns whose answer was saved
    removed     \* history: turns whose answer was removed by a user since

vars == <<row, turn, edit, registered, finishes, slips, late, saved, removed>>

NoIndex == -1
Indices == Nat
Statuses == {"success", "error", "interrupted"}
Entry == [turn : Turns \cup {Old}, index : Indices, text : {"", "answer", "edited"},
          progress : BOOLEAN, status : Statuses, pending : BOOLEAN]
Gone == [exists |-> FALSE, finished |-> FALSE, history |-> <<>>]
Columns == {"finished", "history"}
Slips == {"overwritten", "reopened", "disturbed", "clash"}
Updates == {"abort", "remove", "clear", "edit", "settings"}
Ops == Updates \cup {"finish", "settle", "delete"}

\* a row in the type, without enumerating the sequences of entries
IsRow(r) ==
    /\ DOMAIN r = {"exists", "finished", "history"}
    /\ r.exists \in BOOLEAN /\ r.finished \in BOOLEAN
    /\ r.history \in Seq(Entry) /\ Len(r.history) <= MaxEntries
TypeOK ==
    /\ IsRow(row)
    /\ \A t \in Turns :
        /\ turn[t].step \in {"new", "begun", "prompt", "promptGot", "running", "answer", "answerGot",
                             "over"}
        /\ turn[t].index \in Indices \cup {NoIndex}
        /\ {turn[t].streamed, turn[t].persisted, turn[t].aborted, turn[t].retried} \subseteq BOOLEAN
        /\ IsRow(turn[t].mine)
        /\ turn[t].columns \subseteq Columns
    /\ \A e \in Edits :
        /\ edit[e].step \in {"new", "loaded", "stopped", "got", "done"}
        /\ edit[e].op \in Ops \cup {"none"}
        /\ edit[e].index \in Indices \cup {NoIndex}
        /\ IsRow(edit[e].mine)
        /\ edit[e].columns \subseteq Columns
    /\ registered \subseteq Turns
    /\ finishes \in Nat
    /\ slips \subseteq Slips
    /\ late \subseteq Turns /\ saved \subseteq Turns /\ removed \subseteq Turns

OldEntry == [turn |-> Old, index |-> 0, text |-> "answer", progress |-> FALSE,
             status |-> "success", pending |-> TRUE]
NewTurn == [step |-> "new", streamed |-> FALSE, index |-> NoIndex, persisted |-> FALSE,
            aborted |-> FALSE, retried |-> FALSE, mine |-> Gone, columns |-> {}]
NewEdit == [step |-> "new", op |-> "none", index |-> NoIndex, mine |-> Gone, columns |-> {}]

Init ==
    /\ row \in {Gone, [exists |-> TRUE, finished |-> FALSE, history |-> <<OldEntry>>]}
    /\ turn = [t \in Turns |-> NewTurn]
    /\ edit = [e \in Edits |-> NewEdit]
    /\ registered = {}
    /\ finishes = 0
    /\ slips = {} /\ late = {}
    /\ saved = {} /\ removed = {}

-----------------------------------------------------------------------------
(* The history *)

Answers(r) == {r.history[i].turn : i \in {j \in DOMAIN r.history : r.history[j].text = "answer"}}
IndicesOf(h) == {h[i].index : i \in DOMAIN h}

\* mutant: every save appends
KeepAll(h, index, replace) == h
\* _build_retained_history: a turn replaces the latest entry of its index
Retained(h, index, replace) ==
    LET same == {i \in DOMAIN h : h[i].index = index}
    IN IF replace /\ same # {} THEN RemoveAt(h, Max(same)) ELSE h

\* _resolve_turn_status: an abort that came before has marked the last entry
TurnStatus(h, status) ==
    IF h # <<>> /\ Last(h).status = "interrupted" THEN "interrupted" ELSE status

\* remove_conversation_history_index: the others stay in their order
Nth(S, k) == CHOOSE i \in S : Cardinality({j \in S : j <= i}) = k
WithoutIndex(h, index) ==
    LET kept == {i \in DOMAIN h : h[i].index # index}
    IN [k \in 1..Cardinality(kept) |->
           [h[Nth(kept, k)] EXCEPT !.index = IF @ < index THEN @ ELSE @ - 1]]

\* update_conversation_ai_message: a variant is copied, with a new text
WithEdited(h, i) == Append(h, [h[i] EXCEPT !.text = "edited"])

\* the abort endpoint
\* mutant: it marks the last entry whatever it is
MarkLast(h) == IF h # <<>> THEN [h EXCEPT ![Len(h)].progress = FALSE,
                                          ![Len(h)].status = "interrupted"] ELSE h
MarkInterrupted(h) ==
    IF h # <<>> /\ Last(h).progress
    THEN [h EXCEPT ![Len(h)].progress = FALSE, ![Len(h)].status = "interrupted"]
    ELSE h

Settled(h, turns) ==
    [i \in DOMAIN h |->
        IF h[i].turn \in turns /\ ~h[i].progress THEN [h[i] EXCEPT !.pending = FALSE] ELSE h[i]]

-----------------------------------------------------------------------------
(* update() of a copy, in the two steps of its session *)

\* session.get, then merge: the columns of the copy that differ from the row
Differing(new) == {c \in Columns : new[c] # row[c]}
\* the UPDATE sets those columns
Flushed(new, columns) ==
    [exists |-> TRUE,
     finished |-> IF "finished" \in columns THEN new.finished ELSE row.finished,
     history |-> IF "history" \in columns THEN new.history ELSE row.history]
\* history: a change of the history the copy had not seen is lost, or the mark of a finished
\* conversation is
SlipsOf(mine, columns) ==
    {s \in {"overwritten", "reopened"} :
        \/ s = "overwritten" /\ "history" \in columns /\ row.history # mine.history
        \/ s = "reopened" /\ "finished" \in columns}

-----------------------------------------------------------------------------
(* Chat requests *)

UnderWay(t) == turn[t].step \in {"begun", "prompt", "promptGot", "running", "answer", "answerGot"}

\* mutant: _guard_finished is forgotten
NoGuard(r) == TRUE
\* _guard_finished
Unfinished(r) == ~(r.exists /\ r.finished)

Ends(t) == turn' = [turn EXCEPT ![t] = [NewTurn EXCEPT !.step = "over"]] /\ registered' = registered \ {t}

\* The guards before a turn; a streamed one registers its generator.  The
\* client may name the index, to add a variant of an entry it has seen.
Begin(t) ==
    /\ turn[t].step = "new"
    /\ \/ /\ Unfinished(row)
          /\ \E streamed \in BOOLEAN, index \in IndicesOf(row.history) \cup {NoIndex} :
              /\ turn' = [turn EXCEPT ![t].step = IF streamed THEN "begun" ELSE "running",
                                      ![t].streamed = streamed, ![t].index = index]
              /\ registered' = IF streamed THEN registered \cup {t} ELSE registered
       \/ ~Unfinished(row) /\ Ends(t)
    /\ UNCHANGED <<row, edit, finishes, slips, late, saved, removed>>

\* A save of the placeholder that raises is logged.  One of the answer ends the
\* turn, or has it saved once more as an error if a drainer was at it.
PromptFails(t) ==
    turn' = [turn EXCEPT ![t].step = "running", ![t].mine = Gone, ![t].columns = {}]
    /\ UNCHANGED registered
AnswerFails(t) ==
    \/ /\ turn[t].streamed /\ ~turn[t].retried
       /\ turn' = [turn EXCEPT ![t].step = "running", ![t].retried = TRUE, ![t].mine = Gone,
                               ![t].columns = {}]
       /\ UNCHANGED registered
    \/ Ends(t)

\* upsert_chat_history, up to the write: find, guard, index
Load(t, from, to, failed) ==
    LET index == IF turn[t].index # NoIndex THEN turn[t].index
                 ELSE Max(IndicesOf(row.history) \cup {-1}) + 1
    IN /\ turn[t].step = from
       /\ \/ /\ Unfinished(row)
             /\ turn' = [turn EXCEPT ![t].step = to, ![t].mine = row, ![t].index = index]
             /\ slips' = slips \cup {s \in {"clash"} :
                            \E u \in Turns \ {t} : UnderWay(u) /\ turn[u].index = index}
             /\ UNCHANGED registered
          \/ /\ ~Unfinished(row)
             /\ failed
             /\ UNCHANGED slips
       /\ UNCHANGED <<row, edit, finishes, late, saved, removed>>

\* ... the first half of update(); the history has a new message
Get(t, from, to, failed) ==
    /\ turn[t].step = from /\ turn[t].mine.exists
    /\ \/ /\ row.exists
          /\ turn' = [turn EXCEPT ![t].step = to,
                                  ![t].columns = Differing(turn[t].mine) \cup {"history"}]
          /\ UNCHANGED registered
       \/ ~row.exists /\ failed
    /\ UNCHANGED <<row, edit, finishes, slips, late, saved, removed>>

\* ... and the write: save() inserts, the second half of update() needs the row
\* to be there still.  Files and metrics follow, and may raise.
Stores(t, from, got, entry, then, failed) ==
    LET mine == turn[t].mine
        history == Append(Retained(mine.history, entry.index, turn[t].persisted), entry)
        new == [mine EXCEPT !.history = history]
    IN /\ turn[t].step = IF mine.exists THEN got ELSE from
       /\ Len(history) <= MaxEntries
       /\ \/ /\ mine.exists /\ row.exists
             /\ row' = Flushed(new, turn[t].columns)
             /\ slips' = slips \cup SlipsOf(mine, turn[t].columns)
          \/ /\ ~mine.exists /\ ~row.exists
             /\ row' = [new EXCEPT !.exists = TRUE]
             /\ UNCHANGED slips
          \/ mine.exists # row.exists /\ UNCHANGED <<row, slips>>
       /\ \/ mine.exists = row.exists /\ then /\ UNCHANGED late
          \/ mine.exists = row.exists /\ failed /\ late' = late \cup {t}
          \/ mine.exists # row.exists /\ failed /\ UNCHANGED late
       /\ saved' = IF mine.exists = row.exists /\ ~entry.progress THEN saved \cup {t} ELSE saved
       /\ UNCHANGED <<edit, finishes, removed>>

EntryOf(t, text, progress, status) ==
    [turn |-> t, index |-> turn[t].index, text |-> text, progress |-> progress,
     status |-> status, pending |-> TRUE]

LoadPrompt(t) == Load(t, "begun", "prompt", PromptFails(t))
GetPrompt(t) == Get(t, "prompt", "promptGot", PromptFails(t))
SavePrompt(t) ==
    Stores(t, "prompt", "promptGot", EntryOf(t, "", TRUE, "success"),
           /\ turn' = [turn EXCEPT ![t].step = "running", ![t].persisted = TRUE, ![t].mine = Gone,
                                   ![t].columns = {}]
           /\ UNCHANGED registered,
           PromptFails(t))
LoadAnswer(t) == Load(t, "running", "answer", AnswerFails(t))
GetAnswer(t) == Get(t, "answer", "answerGot", AnswerFails(t))
SaveAnswer(t) ==
    LET given == IF turn[t].retried THEN "error"
                 ELSE IF turn[t].aborted THEN "interrupted" ELSE "success"
    IN Stores(t, "answer", "answerGot",
              EntryOf(t, "answer", FALSE, TurnStatus(turn[t].mine.history, given)),
              Ends(t),
              AnswerFails(t))

-----------------------------------------------------------------------------
(* The other requests: load, ... *)

Loads(e, op, index) ==
    edit' = [edit EXCEPT ![e] = [NewEdit EXCEPT !.step = "loaded", !.op = op, !.index = index,
                                                !.mine = row]]
Done(e) == edit' = [edit EXCEPT ![e] = [NewEdit EXCEPT !.step = "done"]]
Loaded(e, op) == edit[e].step = "loaded" /\ edit[e].op = op

LoadEdit(e) ==
    /\ edit[e].step = "new" /\ row.exists
    /\ \E op \in {"remove", "clear", "edit"} :
        \/ /\ Unfinished(row)
           /\ \E index \in IndicesOf(row.history) : Loads(e, op, index)
        \/ ~Unfinished(row) /\ Done(e)
    /\ UNCHANGED <<row, turn, registered, finishes, slips, late, saved, removed>>
LoadOther(e) ==
    /\ edit[e].step = "new" /\ row.exists
    /\ \/ \E op \in {"abort", "settings"} : Loads(e, op, NoIndex)
       \/ Unfinished(row) /\ Loads(e, "finish", NoIndex)
       \/ ~Unfinished(row) /\ Done(e)
       \/ (\E i \in DOMAIN row.history : row.history[i].pending /\ ~row.history[i].progress)
          /\ Loads(e, "settle", NoIndex)
    /\ UNCHANGED <<row, turn, registered, finishes, slips, late, saved, removed>>

\* The abort closes the registered generators, those that are not closed yet;
\* a turn that saves its answer has read its status before.
Stop(e) ==
    /\ Loaded(e, "abort")
    /\ \E open \in SUBSET {t \in registered : turn[t].step \notin {"answer", "answerGot"}} :
        turn' = [t \in Turns |-> IF t \in open THEN [turn[t] EXCEPT !.aborted = TRUE] ELSE turn[t]]
    /\ registered' = {}
    /\ IF MarkInterrupted(edit[e].mine.history) # edit[e].mine.history
       THEN edit' = [edit EXCEPT ![e].step = "stopped"]
       ELSE Done(e)
    /\ UNCHANGED <<row, finishes, slips, late, saved, removed>>

(* ... change the copy and write *)

\* what a request may make of the history of its copy
Changed(e) ==
    LET h == edit[e].mine.history
        op == edit[e].op
    IN CASE op = "abort" -> {MarkInterrupted(h)}
         [] op = "remove" -> {WithoutIndex(h, edit[e].index)}
         [] op = "clear" -> {<<>>}
         [] op = "edit" -> {WithEdited(h, i) : i \in {j \in DOMAIN h : h[j].index = edit[e].index}}
         [] OTHER -> {h}

\* the first half of update(); an edited text is a new one
GetRow(e) ==
    /\ \/ edit[e].step = "loaded" /\ edit[e].op \in Updates \ {"abort"}
       \/ edit[e].step = "stopped"
    /\ IF row.exists
       THEN \E h \in Changed(e) :
               edit' = [edit EXCEPT ![e].step = "got",
                                    ![e].columns = Differing([edit[e].mine EXCEPT !.history = h])
                                        \cup {c \in {"history"} : edit[e].op = "edit"}]
       ELSE Done(e)
    /\ UNCHANGED <<row, turn, registered, finishes, slips, late, saved, removed>>

\* history: a turn under way loses the place of its entry
Disturbs(e) ==
    \/ edit[e].op = "remove" /\ \E t \in Turns : UnderWay(t)
    \/ edit[e].op = "edit" /\ \E t \in Turns : UnderWay(t) /\ turn[t].index = edit[e].index
GoneWith(new) == removed' = removed \cup (saved \cap (Answers(row) \ Answers(new)))

\* the second half: the row may have been deleted in between
Write(e) ==
    /\ edit[e].step = "got"
    /\ \/ /\ row.exists
          /\ \E h \in Changed(e) :
              /\ Len(h) <= MaxEntries
              /\ row' = Flushed([edit[e].mine EXCEPT !.history = h], edit[e].columns)
          /\ slips' = slips \cup SlipsOf(edit[e].mine, edit[e].columns)
                            \cup {s \in {"disturbed"} : Disturbs(e)}
          /\ IF edit[e].op \in {"remove", "clear"} THEN GoneWith(row') ELSE UNCHANGED removed
       \/ ~row.exists /\ UNCHANGED <<row, slips, removed>>
    /\ Done(e)
    /\ UNCHANGED <<turn, registered, finishes, late, saved>>

\* mutant: the UPDATE has no condition
FinishAnyway(e) ==
    /\ Loaded(e, "finish") /\ row.exists
    /\ row' = [row EXCEPT !.finished = TRUE]
    /\ finishes' = finishes + 1
    /\ Done(e)
    /\ UNCHANGED <<turn, registered, slips, late, saved, removed>>
\* _finish_loaded_conversation: one UPDATE ... WHERE finished_at IS NULL
Finish(e) ==
    /\ Loaded(e, "finish")
    /\ IF row.exists /\ ~row.finished
       THEN row' = [row EXCEPT !.finished = TRUE] /\ finishes' = finishes + 1
       ELSE UNCHANGED <<row, finishes>>
    /\ Done(e)
    /\ UNCHANGED <<turn, registered, slips, late, saved, removed>>

SettledBy(e) == {edit[e].mine.history[i].turn : i \in {j \in DOMAIN edit[e].mine.history :
                    edit[e].mine.history[j].pending /\ ~edit[e].mine.history[j].progress}}
\* mutant: the history loaded before the ledger read is written
SettleLoaded(e) ==
    /\ Loaded(e, "settle")
    /\ row' = [row EXCEPT !.history = IF row.exists THEN Settled(edit[e].mine.history, SettledBy(e)) ELSE @]
    /\ Done(e)
    /\ UNCHANGED <<turn, registered, finishes, slips, late, saved, removed>>
\* _write_settled_turns: SELECT ... FOR UPDATE and UPDATE in one transaction,
\* for those turns the ledger has settled
Settle(e) ==
    /\ Loaded(e, "settle")
    /\ row' = [row EXCEPT !.history = Settled(@, SettledBy(e))]
    /\ Done(e)
    /\ UNCHANGED <<turn, registered, finishes, slips, late, saved, removed>>

Delete(e) ==
    /\ edit[e].step = "new" /\ row.exists
    /\ row' = Gone
    /\ finishes' = 0
    /\ GoneWith(Gone)
    /\ edit' = [edit EXCEPT ![e] = [NewEdit EXCEPT !.step = "done", !.op = "delete"]]
    /\ UNCHANGED <<turn, registered, slips, late, saved>>

-----------------------------------------------------------------------------
TurnStep(t) ==
    \/ Begin(t) \/ LoadPrompt(t) \/ GetPrompt(t) \/ SavePrompt(t)
    \/ LoadAnswer(t) \/ GetAnswer(t) \/ SaveAnswer(t)
EditStep(e) ==
    \/ LoadEdit(e) \/ LoadOther(e) \/ Stop(e) \/ GetRow(e) \/ Write(e)
    \/ Finish(e) \/ Settle(e) \/ Delete(e)

Next == (\E t \in Turns : TurnStep(t)) \/ (\E e \in Edits : EditStep(e))
Spec == Init /\ [][Next]_vars

-----------------------------------------------------------------------------
(* Properties *)

\* A saved answer stays in the history until a user removes it, and stands there
\* once, without its in_progress entry, unless a save of its turn raised after the
\* commit (the turn then appends a second entry beside the first).  What else can
\* break it are writes of a history over one the copy had not seen, an entry
\* removed (or a variant added) under a turn that keeps its index, and two turns
\* under way on one index.
Undisturbed == slips \cap {"overwritten", "disturbed", "clash"} = {}
AnswersKept ==
    Undisturbed => \A t \in saved \ removed :
        LET answers == {i \in DOMAIN row.history :
                            row.history[i].turn = t /\ row.history[i].text = "answer"}
        IN /\ answers # {}
           /\ t \notin late =>
                /\ Cardinality(answers) = 1
                /\ \A i \in DOMAIN row.history : row.history[i].turn = t => row.history[i].text # ""

\* As long as no copy's mark was written over the row's, a conversation is finished
\* by one request only ("finished_at is set once at finish time").
FinishedByOne == "reopened" \notin slips => finishes <= 1

\* Once a conversation is finished, and whatever copy can still be written back is of
\* the finished conversation with these answers, it stays so until it is deleted: a turn
\* that began before and ends later cannot add its answer, and nothing reopens it.
Copies == {turn[t].mine : t \in {u \in Turns : turn[u].step \in {"prompt", "promptGot", "answer",
                                                                 "answerGot"}}}
          \cup {edit[e].mine : e \in {d \in Edits : edit[d].op \in Updates
                                        /\ edit[d].step \in {"loaded", "stopped", "got"}}}
Closed ==
    /\ row.exists /\ row.finished
    /\ \A copy \in Copies : copy.finished /\ Answers(copy) = Answers(row)
Deleted == \E e \in Edits : edit[e].op = "delete"
FinishedKeepsAnswers ==
    [][Closed /\ ~Deleted' => Closed' /\ Answers(row') = Answers(row)]_vars

\* Settling costs on a read changes nothing but costs: no turn saved since the
\* reader loaded the conversation is lost ("Saving the history loaded before
\* the ledger read would overwrite a turn a chat request saved meanwhile").
CostsAside(r) == [r EXCEPT !.history = [i \in DOMAIN r.history |->
                                           [r.history[i] EXCEPT !.pending = FALSE]]]
SettleKeepsTurns ==
    [][\A e \in Edits : Loaded(e, "settle") /\ edit'[e].step = "done"
          => CostsAside(row') = CostsAside(row)]_vars

\* What was stored of a saved answer never changes afterwards: neither a
\* late abort nor another turn turns a success into an interrupted one, or
\* back.  The exceptions are those of AnswersKept, with the turns whose save
\* raised after its commit: a drainer then stores a success as an error.
Outcome(r, t) == {r.history[i].status : i \in {j \in DOMAIN r.history :
                     r.history[j].turn = t /\ r.history[j].text = "answer"}}
OutcomesStay ==
    [][Undisturbed' => \A t \in saved \ (removed' \cup late') :
            Outcome(row', t) = Outcome(row, t)]_vars
=============================================================================
