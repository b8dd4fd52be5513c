# CodeMie: a verification project

CodeMie runs AI assistants and workflows for many users on several pods over one
PostgreSQL database. Most of its logic is row-at-a-time CRUD and calls to models
and tools. What is hard to test is the rest: threads, requests and pods that read,
wait and write back the same few rows and queues. This project models those
protocols in TLA+, checks them with TLC and proves what matters most with TLAPS.

Paths below are relative to `src/src/codemie/` unless they start with `src/`.

## 1. Inventory

### Components with a protocol

| Component | State | Operations | Interacts with |
|---|---|---|---|
| Tool-call confirmation: `repository/conversation_pause_repository.py`, `rest_api/handlers/tool_call_resume.py`, `agents/tool_confirmation/*`, `agents/langgraph_agent.py` | one pending row and the langgraph checkpoint rows of a conversation; the graph state, carrier and acknowledged gates of each run | a new message ends a pause; a run start deletes checkpoints; the gate lets calls through, denies or pauses; a pause is written; a resume consumes the row and carries decisions; a run end deletes checkpoints | generation stream (abort closes the run), conversation history (waiting steps) |
| Generation stream: `core/thread.py`, `rest_api/handlers/assistant_handlers.py`, `rest_api/routers/conversation/streaming.py`, `service/generation_manager.py` | a generator's history, main queue, subscriber queues, closed flag and thoughts; the registry by conversation; the stored turn | send, close, subscribe; serve with a queue timeout; hand over to a drainer when the client leaves; abort; live replay | agent runs and their thread pool, conversation history |
| Workflow execution status: `service/workflow_execution/*`, `workflows/workflow.py`, `workflows/nodes/base_node.py` | the execution row, the step rows, one lock per service instance | start, finish and abort a step; fail, interrupt, finish, abort, mark as waiting for authentication; resume; recover stuck steps at startup | langgraph, sub-workflows, conversation history |
| Marketplace audit: `service/marketplace_management/audit_service.py`, `audit_retention.py`, `audit_read_repository.py`, delete path in `rest_api/models/assistant.py`, jobs in `rest_api/main.py` | run rows with status and heartbeat under a partial unique index, verdict rows, a result cache per pod | claim, score, persist in chunks, close, fail; heartbeat, reaper, retention; purges on delete, after a run and nightly; publish and hydrate the cache | leader locks, assistants |
| Marketplace review and index: `service/marketplace_management/queue_service.py`, `marketplace_index_sync.py`, `service/assistant/assistant_version_service.py`, `service/skill_service.py`, routes in `rest_api/routers/assistant/*` | an assistant's marketplace columns with a version, the ledger of decisions, the document in the marketplace index, one advisory lock per assistant | submit, re-submit, approve, reject, force-publish, withdraw; edit, roll back, attach a skill, publish with or without a review, publish as a part of a parent, unpublish, delete; sync the index after a commit | audit, assistants' CRUD |
| Conversation history: `service/conversation_service.py`, `rest_api/models/conversation.py`, endpoints in `rest_api/routers/conversation/*` | one row with the whole history as JSON; the registry of running turns | a turn saves a placeholder and then its answer; abort, remove, clear, edit, change settings, finish, settle costs, delete | generation stream, confirmation, ledger of costs |
| Conversation analysis queue: `repository/conversation_analysis_queue_repository.py`, `service/conversation_analysis/*` | queue rows with a status, retries and a claiming pod; one analytics row per conversation | populate under a leader lock, claim with SKIP LOCKED, analyse, upsert, complete, fail, retry | leadership, conversations |
| Leadership: `utils/leader_lock.py`, `triggers/node_controller.py`, `triggers/job_lock.py` | session-level advisory locks, the controller of each pod | acquire, probe, step down, release, restart | trigger engine, datasource jobs, all schedulers |
| Trigger engine and datasource indexing: `triggers/bindings/cron.py`, `triggers/actors/datasource.py`, `rest_api/models/index.py`, `datasource/*` | the `IndexInfo` row, the datasource's lock, the concurrency gate and the watchdog's pool of each pod | start manually or by a job; queue, fetch, progress, heartbeat, complete, fail; claim and resume stale rows | leadership |
| Hedged handler: `rest_api/handlers/hedged_handler.py` | a winner under a lock, two threads, one stream | race a fast path against the agent, stream the winner | generation stream |

### What is hard, and what makes each part correct

- **Confirmation.** Checkpoints, pause row and run are written in separate
  transactions, by up to several requests on several pods, with crashes, aborts and
  errors anywhere, and parallel sub-assistants that pause in one graph. Correct: a held-back
  call runs only when a user allowed that very call; once; a stored pause can be resumed;
  nothing is left behind; what was allowed is executed.
- **Stream.** Many threads send, one thread consumes until the client leaves at some
  yield, another then takes over, clients come back and subscribe in the middle, the user aborts, and the
  server may give up waiting just before the answer arrives. Correct: chunks in order
  and whole on every queue; the turn stored once and whole; forgotten at its end; nobody waits for ever.
- **Workflow.** Every status change reads the row, computes and writes the row back under a lock
  that other instances do not share; recovery reads steps and executions in several queries while others resume. Correct: a failure is not lost to a sibling, an
  ended execution is decided, recovery leaves no stuck step and fails none that a run still needs.
- **Audit.** One unique index coordinates all pods; workers die with their pod or go
  silent; a run persists in several transactions and races deletes and retention. Correct: one audit at a
  time, the claim always comes back, only whole runs are served, never an older one,
  no verdict of a deleted assistant stays.
- **Review.** Decisions are compare-and-set; everything else saves a copy that is refreshed only
  sometimes, in two steps (`update()` reads the row, then writes the columns in which the copy differs from it); the index is written after the commit, in any order, by pods that may die. Correct: decisions form a chain; a review
  covers the content that was reviewed; what is public was approved; the index says what the row says.
- **History.** Almost every request loads the row, changes its copy and saves it by the same `update()`; what follows a committed save may still raise. Correct, as long as
  nobody writes a copy over a change it has not seen: saved answers stay and keep their outcome; one request finishes a conversation; settling costs never loses a turn.
- **Queue.** Selecting and inserting are two steps; claiming relies on row locks; the analysis is dated when it ends. Correct:
  one pod per record, one waiting record per conversation, and the analysis catches up.
- **Leadership and indexing.** A session lock dies with its connection, unnoticed until a probe; jobs do not probe at all; rows are
  declared stale by age while their run waits in a queue. Correct: one engine, and one locked run, unless a lock was lost; a leader without its lock steps down; somebody leads; slots come back;
  no indexing stays in progress.

`PROJECT.json` lists the other components with the reason they are not modelled, and
40 hazards at the lines where they bite, with the properties that cover them.

## 2. The modules

| Module | Role |
|---|---|
| `ToolApproval` | abstract specification of the confirmation: propose, ask, grant, execute |
| `ToolConfirmation` | the confirmation in detail; `ImplementsApproval` instantiates `ToolApproval` under a refinement mapping |
| `GenerationStream` | one streamed turn |
| `WorkflowExecution` | one execution, its runs and its abort requests |
| `MarketplaceAudit` | the audits of one entity kind |
| `MarketplaceReview` | the decisions, owners' requests and index of one assistant |
| `ConversationHistory` | one conversation row and the requests that write it |
| `AnalysisQueue` | the queue, its population and its workers |
| `TriggerLeader` | leadership of the trigger engine |
| `DatasourceIndexing` | one datasource's indexing, composed with `TriggerLeader` (it extends it, and its every step is a leader's step or leaves the leaders alone) |
| `ToolConfirmationProofs`, `GenerationStreamProofs`, `WorkflowExecutionProofs`, `MarketplaceAuditProofs`, `MarketplaceReviewProofs`, `ConversationHistoryProofs`, `AnalysisQueueProofs`, `TriggerLeaderProofs` | theorems about the module they name; the last also about `DatasourceIndexing` |
| `MC*` and `*.cfg` | instances for TLC |

Operators marked `mutant:` are not used by the specifications. Each is a plausible
bug in the definition below it, and `PROJECT.json` names the property that notices it. Variables whose comment begins
with `history:` record what happened for the properties and guard nothing.

### ToolConfirmation

`row` is the conversation's `conversation_pending_tool_calls` row (its items), `ckpt` the stored
graph state and the runs whose latest checkpoint it is. `mem`, `carrier` and `acks` belong to
one request each, `pc` says where its threads stand. A *pass* is one AI message
arriving at one agent's gate, and stands for the gate's `checkpoint_ns`; a *call* is a pass and a
provider id, because providers reuse ids. `TurnStart`, `RunStart`, `Consume`, `BeginResume`,
`ReadInterrupts`, `LoadCheckpoint`, `EmitMessage`, `GatePauses`, `GatePasses`, `RunTool`,
`GraphEnds`, `StreamStops`, `AskPauses`, `Finish` are the functions of the map, each one database
transaction or one uninterrupted stretch of a thread. Faults are `crash` (the pod dies), `abort`
(the generator is closed), `error` (the graph raises) and `restore` (building the resumed agent fails).

What a langgraph superstep stores is external: a checkpoint after the superstep and
task writes within it. Steps shown in the conversation history are left out.

### GenerationStream

A chunk is its place in the history; a queue holds chunks and the two end marks. `send` is `Send`
(publish, under `_close_lock`) and `Enqueue`; `close` is `Close` and `CloseEnds`. The response body is
`server`: `serving`, at a `yield` (where a client may leave), giving up, and then the drainer. The
content of chunks is one bit: the chunk that reports a failed run. Saving is one step that
succeeds (`ConversationHistory` has the saves that fail). `poolFull` says whether the agent runs and drainers of other turns hold
all workers of `assistant_executor`; this turn's run (`ProducerStarts`) and its drainer (`DrainStart`) both wait there (`PoolChanges`).

### WorkflowExecution

`status` and `step` are the rows. `section[i]` is what service instance `i` does inside its
`workflow_execution_lock`: `Refresh` reads the row, `WriteStatus` writes it back with the status of
the operation, a query (`SweepQuery`, `ResumeQuery`, `PredecessorQuery`) finds steps that `Swept` then saves. A node is `StartState`, `NodeExecutes`,
`NodeExecuted`, `FinishStateBegins`/`FinishState`, or `NodeReports` when it ends in a bad request, an authentication request or an
exception. A run is one superstep of parallel nodes. A resume is `ResumeStart` (`start_progress`), then its query and its saves. The interruption may find no predecessor, or fail to ask.
`recovery` is a crash, a restart on another pod and `recover_orphaned_workflow_states`, query by query: the IN_PROGRESS steps (`ReadBucket`), the execution once, for the
first step (`ReadParent`, cached), each step by an UPDATE that compares the status read and the execution's (`RecoverStep`, `StillStuck`), then the INTERRUPTED steps. Each query and update may fail (`missed`).
Here `update()` is one step: only one column matters, and a read followed by a write of it if it differed is the same as one write at either moment. Left out: the cascade to sub-workflows, token accounting (it may
fail, which keeps `finish_state` from writing), history messages, auto-delete and the thought consumer.

### MarketplaceAudit

A run is its place in the order of `started_at`. `status` and `quiet` (heartbeat older than the
timeout) are its row, `worker` its thread, `todo` the chunks not written. A chunk is one entity here
(500 in the code): only the boundary between transactions matters. `cache`, `label` and `reader` are
one pod's `AuditCache`; the runs in `Local` publish to it. A refused claim changes nothing and is a stutter;
status PENDING is in the index but nothing writes it. `FailRunRow` stands for the two attempts the code makes. Retention
is applied to runs whose workers are gone, since its age is counted in days. `purge_orphans` handles at most
1000 entities a sweep; the model's sweep handles all.

### MarketplaceReview

`row` holds the marketplace columns (`there`, `status`, `global`, `version`), `ledger` the rows of `mm_review_decision`, `indexed` the
document in the index, `lock` the advisory lock of index writes. `req[r]` is one request: its plan, its step, the copy of the columns it loaded, the
version it is pinned to (`at`), and the decision it will call. A decision is `Read`, `Lookup` (the replay check), then `Decide`, one transaction that compares the
version, moves the row along `Transitions` and writes the ledger, or `Conflict`; then `SyncReads`/`SyncUnread` under the lock and `SyncWrites`. An owner's request loads
(`BeginEdit`, `BeginSkill`, ...), refreshes the columns (`Refresh`) where the code does, and saves its copy: `Get` is the read of `update()`, which fixes the columns to write, and one of `Writes`' users commits them (`SaveEdit`, `SaveSkill`, `SaveRollback`, `SaveSubmit`, `SaveForce`, `SaveDirect`); an edit of a public or
pending assistant re-submits it, and `CloseEdit` writes once more. `loose` records what went
past the ledger (`overwrite`, `unchecked`), what is neither the row found nor the one meant (`mixed`), or what went past the index (`unlisted`, `missed`), and each property excepts only the entries it must. Left out: a client's own
Idempotency-Key, the verification mark, content and categories, what the gate finds (it may block), activity events and metrics, the administrators' reindex.

### ConversationHistory

`row` is the conversation (`exists`, `finished`, `history`); an entry stands for the pair of messages of one turn. `turn[t]` is a chat
request: `Begin` is its guards and, if streamed, its registration; `LoadPrompt`, `GetPrompt`, `SavePrompt` store the placeholder; `LoadAnswer`, `GetAnswer`, `SaveAnswer` the answer, which
replaces the latest entry of the turn's index (`Retained`). `mine` is the copy between load and write. `update()` is two steps, as in the code: `Get` (`GetRow` of an edit) reads the row and fixes the columns in which the copy differs (`Differing`),
the write sets just these (`Flushed`), whatever was committed in between; a row that is gone by then fails it, as a row that was created in between fails `save()`. What follows the commit (files, names, metrics) may raise: then the turn does not know that it was saved, a
placeholder is not replaced, and a drainer saves the answer once more as an error (`AnswerFails`, `retried`; the history variable `late`). `registered` are the generators an abort finds: a set, of which `Stop` closes those that are not closed yet.
`edit[e]` is any other request: `LoadEdit` or `LoadOther`, `Stop` for an abort, `GetRow`, `Write`. `Finish` is one conditional UPDATE and
`Settle` one transaction under the row's lock. Left out: import and the endpoint that stores a whole history, sharing, folders, projects, metrics rows and the display steps of confirmations.

### AnalysisQueue

A conversation is its number of changes, its number of messages and whether it is quiet; an analytics row remembers which change it has seen, with how many messages, and its date. `job[p]` is the cron run of pod `p`:
`TryLead`, `Fetch`, `ReadExisting`, `Insert`. `worker[p]` is its processing loop: `ClaimSelect` takes row locks (`RowLocked`) on what is `Claimable`, `ClaimCommit` writes PROCESSING; then `ReadConversation`,
`StampAnalysis`, `LookUp`, `Upsert`, `MarkCompleted` for each record, or `AnalysisFails` with `MarkFailed` (or `MarkFailedRaises`, which gives up the batch). `LoseLock` and `Crash` may come anywhere. Records nobody looks at any more give their slot back.
Left out: prompts and answers, and the manual trigger.

### TriggerLeader and DatasourceIndexing

`ctl[p]` is the loop of `NodeController.start`: `TryLock` (or `TryLockRaises`: the controller's task ends for ever), `StartEngine` (or it raises, before or after the scheduler exists), `Probe`, `Shutdown`, `Release`. The database
drops `lock` when the holder's connection goes (`LoseLock`, `DatabaseFails`) without telling it. `watchdog[p]` is the thread pool a Cron makes once and shuts down for good.

`DatasourceIndexing` adds the `IndexInfo` row, the runs and the gate. A run is `Starts`, `TakeJobLock` (jobs and resumes; it is skipped if another process has the lock or there is no Elasticsearch), then `Begin`, or `Refused` (a type that cannot be resumed or an inactive owner: `set_error`), or `Skipped` (credentials or configuration are missing: nothing is written), `Gate`/`Admit`/`QueueTimeout` (manual runs and jobs), `StartFetching`, `StartProgress`, `Heartbeat`, `Complete` or an exception, `Leave`. The watchdog is
`WatchReserve`, `WatchClaim` (its conditional UPDATE), `WatchSubmit` (which fails on a pool that was shut down and keeps the id). `GrowsOld` is the passing of the staleness threshold: an idle row becomes old, also one whose run waits for a slot. One of the gate's slots is modelled, the one the datasource competes
for. `settings` says which of these answers a run gets, and changes (`SettingsChange`). The gate's `set_queued` and `clear_queued` are one step each. Left out: loaders and chunks, deletion of a datasource, guardrails, webhooks, the actors of assistants and workflows.

## 3. What the runs check

| Run | Instance | Shows |
|---|---|---|
| `confirmation_double_resume` | 1 message, 2 resumes, 2 agents, 1 id, 3 passes, all faults | `RunsOnlyWhenGranted`, `RunsAtMostOnce`, `PauseIsResumable` |
| `confirmation_overlap` | 2 messages, 1 resume, 1 agent, 2 ids, 2 passes, aborts | `NoOrphanCheckpoints`, and that every step implements `ToolApproval` |
| `confirmation_live` | 1 message, 2 resumes, 2 agents, no faults | `GrantedRuns` |
| `stream_turn` | 2 senders, 1 subscriber, 3 chunks | order on both queues, stored once and whole (about 1.1 million states) |
| `stream_live` | 1 sender, 1 subscriber, 1 chunk | `TurnEnds`, `SubscribersEnd` |
| `workflow_rows` | 1 run with 2 parallel nodes, 1 resume, 1 abort, 1 crash and its recovery, failing queries (about 3.7 million states) | `EndsDecided`, `SiblingsKeepStatus`, `RecoveryRepairs`, `RecoverySpares` |
| `audit_runs` | 2 audits on 2 pods, 1 assistant, 1 reader, failing heartbeats | all audit properties, with liveness (about 425 000 states) |
| `analysis_queue` | 2 pods, 1 conversation that changes once, 2 slots, 2 faults | one pod per record, one waiting record, the analysis catches up |
| `trigger_leader` | 3 pods, 3 faults | one engine, a leader without its lock steps down, somebody leads |
| `datasource_indexing` | 2 pods, 1 manual run, 1 job, 2 watchdogs, 2 mishaps or faults | one locked run, slots come back, `IndexingEnds` |
| `history_requests` | 2 turns beside 1 other request of any kind (up to 5 entries), or 1 turn beside 2 (up to 3) | `AnswersKept`, `OutcomesStay`, `FinishedByOne`, `FinishedKeepsAnswers`, `SettleKeepsTurns` (about 3.3 million states) |
| `marketplace_review` | 1 review, 2 owners' requests of any kind, crashes | ledger, stale reviews, visibility, index |

### Bounds

Two of each actor that races is the least that shows a race, and the properties relate at most two. Three
passes let an agent pause, resume and pause again with another agent in between. Three chunks give a first, a
middle and a last one around a subscription. Two audits suffice for "at once", for "older" and for an
audit after a reaped one; one assistant suffices because verdicts are per assistant and purges act on
each alone. Two owners' requests beside a review suffice for a copy loaded before a decision and written after one; two turns and one request
for an index that moves under a turn while another one saves; a turn, a finish and one more request for a copy that is loaded before the finish, read during it and written after it. The constraint `Few` of `MCConversationHistory` keeps the two stories apart; the theorems (section 4) have no such bound. One conversation suffices for the queue, whose records never relate two of
them; `MaxFaults = 2` lets a record fail and its retry meet a crash. Three pods give a leader that lost its lock, its successor and a third that may
take over from it. In `datasource_indexing` one mishap leaves a row for the watchdog and a second one may meet its resume (credentials that go, a failed run, an outage), after which it must end without another. A manual run differs from a job by the lock and the
owner check only, so it runs in the instance without mishaps (the constraint `Few` of `MCDatasourceIndexing`, which leaves out no step that is assumed fair); one of each is enough for two to be at the lock or the slot at once, and the theorems cover every number of runs and mishaps.
In `workflow_rows` all nodes race without a bound by themselves; beside a resume or an abort one of them at most ends otherwise than well, and the process dies when all but one have succeeded (`FewSteps` of `MCWorkflowExecution`), at any step of the last one, of the abort and of the resume: recovery treats steps one by one, and the properties relate one failure to one sibling.

Deadlock checking is on in `analysis_queue`, whose processes never stop. It is off in the others: each models a finite story (a turn, an execution, `MaxRuns`
audits, a set of requests) that ends, or, in `trigger_leader` and `datasource_indexing`, controllers that may all end after an outage. Symmetry is used for messages, resumes and senders, parallel nodes, turns, edits and owners, never with liveness.

### Assumptions of the properties

Several properties name, in their antecedent, the one thing the code does not protect against. The exception is a state the model reaches; it is
the boundary of what the code promises.

- `RunsAtMostOnce` and `PauseIsResumable` need `MessagesAlone`: no new message is at work together with another turn. Nothing in the code refuses that. A message that finds no row may delete the checkpoints of a pause being written, and two messages
  with two resumes can run one call twice. The run has one message, which meets the condition by itself (`OneMessageRunsOnce`).
- `NoOrphanCheckpoints` is checked, and proved, without crashes and failing restores, after which the code leaves rows to the next turn by design.
- `OneAuditAtATime` excludes a live worker whose heartbeats failed for the whole timeout; such a worker goes on beside the next audit. The other audit properties hold through it.
- `EndsDecided` is about executions whose process lives: nothing ends an execution left IN_PROGRESS by a crash. `SiblingsKeepStatus` ends where a resume starts.
- `RecoveryRepairs` is about a recovery of which no query failed and that nobody's resume came across; `RecoverySpares` has no condition.
- `TurnEnds` has the premise `PoolServes`: a worker of the assistant pool is free again and again. The drainer is queued behind the agent runs, which nothing bounds.
- `AnswersKept` and `OutcomesStay` except a history written over one its copy had not seen (`overwritten`), an entry removed, or a variant of it added, under a running turn (`disturbed`), two turns on one index (`clash`), and, for what the answer's number and outcome are, a turn whose save raised after its commit (`late`). `FinishedByOne` excepts a mark written over the row's (`reopened`). `FinishedKeepsAnswers` speaks of a conversation whose copies in flight are finished too, with its answers (`Closed`); a copy loaded before can still add an answer or reopen it, as `update()` writes by column.
- `QueuedOnce` excepts a leader whose lock connection broke and records that failed before; `AnalysisCatchesUp` excepts records given up while PROCESSING (`abandoned`) and a change during an analysis that adds no message (`slipped`).
- `OneEngine` and `OneReindexer` except a holder whose lock was lost under it; `SomeoneLeads` and `IndexingEnds` except controllers that all died of an outage (`AllDead`), and the latter has the premise `NothingMissing` (credentials and configuration do not stay away for ever: until they come the watchdog claims and skips the row, at every threshold), and excepts a process that died while fetching (`FetchDied`) and a watchdog that kept an id it could not submit (`LeaderCannotResume`).
- `LedgerIsAChain` excepts an overwritten decision in its last clause only; `PublicOnlyApproved` a parent's publish that shows an assistant by the status of its copy (`unchecked`) and a write whose columns met a decision committed since its read (`mixed`: a publish with the gate off sets `is_global` beside a withdrawal); `IndexFollowsRow` anything missed by or written past the index.

### Fairness

- Confirmation: the threads of a turn run to their end; users owe nothing, so no turn need begin.
- Stream: a thread inside `send` or `close` moves on, and one that waits for a lock that is free again and again gets it (strong fairness); queues are
  read with a timeout; the HTTP server resumes or cancels a response; the pool starts what waits for it if a worker is free again and again, which is no assumption but the premise of `TurnEnds`. Nothing is assumed
  of the agent: `TurnEnds` holds if it hangs.
- Audit: a live worker gets on (scoring ends; a scoring that hangs would keep its heartbeat and claim, and nothing in the code bounds it); a dead one's heartbeat ages; the reaper and the nightly sweep are scheduled jobs that come back until they succeed. Readers, retention, purges in the delete path and admins owe nothing.
- Queue: the cron and the loop of every pod come back (they are scheduled), and a conversation left alone becomes quiet. Faults are bounded, not fair.
- Leadership: the database returns, and the loop of each live controller goes on; connections, outages, restarts and crashes owe nothing.
- Indexing: as for leadership, and the steps of a live run, the watchdog's schedule and the ageing of an idle row go on. Users and jobs owe nothing.

`ConversationHistory` and `MarketplaceReview` state no liveness: a request that is never finished is simply gone.

### What the code says otherwise

Met while modelling; none is a run of its own, and where one bounds a property the property names it.

- `conversation_pause_repository.py:192` "The checkpoint rows stay: the resumed run reads them": a message that starts after a resume consumed the row and
  before the resumed run loads the checkpoint deletes it in `stream()`; the allowed call is silently not run.
- `assistant_handlers.py:1043` "let the caller persist the turn as failed": when the client is gone, the drainer stores a timed-out or failed turn as a success.
- `workflow_execution_service.py:72` "a late status write must not overwrite it": check and write are apart and the abort endpoint has a lock of its own, so IN_PROGRESS comes back over ABORTED.
- `src/tests/codemie/workflows/test_base_node_lifecycle.py:941` `fail()` is called "to guarantee the overall workflow transitions to FAILED": after a bad request (`workflow.py:1043`) the run's `finish()` writes SUCCEEDED.
- `audit_service.py:975` "either value is a valid cache entry": a reader stores the older result under the newer run's id, and the staleness check accepts it until the next audit. `audit_retention.py:193` says a run reaps "before it closes"; it closes first.
- `streaming.py:112`: a subscriber whose wait times out just before the last chunk and the close leaves without that chunk.
- `node_controller.py:34` "a standby pod acquires it within RETRY_INTERVAL_SECONDS seconds": an attempt that meets an unreachable database raises out of `start()`, whose task nobody restarts.
- `cron.py:408`: the watchdog's pool is made once and shut down with the engine, so a pod that leads again claims rows it cannot resume. Queued rows outlive the staleness threshold and are resumed while they wait; rows that die while fetching never are.
- `conversation_analysis_queue_repository.py:37` "only if no pending/processing record exists": a failed record that is retried may be claimed beside a new one. A `mark_failed` that raises leaves the batch PROCESSING for ever.
- `src/src/external/alembic/versions/67b7c43d6090_add_finished_at_to_conversations.py:11` "finished_at is set once at finish time": an edit or turn whose copy was loaded before, and which reads the row after it, writes it back to NULL; one that read the row before it adds its answer to the finished conversation. A late abort marks a completed answer interrupted; a turn that was stored is stored again as an error when its metrics raise (`assistant_handlers.py:1121`), or beside its placeholder; removing an entry under a running turn shifts what its answer replaces; a delete during a turn is undone by its completion.
- `rest_api/models/assistant.py:1175` "must call refresh_marketplace_columns_from_db() immediately before update()": making a version (`assistant_version_service.py:145`) and attaching a skill (`skill_service.py:1004`) do not; a decision in between is undone, version included, and every later decision from that version hits the ledger's uniqueness rule ("should be unreachable while the CAS above is correct").
- `triggers/actors/datasource.py:1139` "without this the watchdog re-claims and re-skips the row forever": that is what it does for a resume whose credentials are missing (`datasource.py:1057`) and on a pod without Elasticsearch (`job_lock.py:111`).
- An edit is saved before it is re-submitted: an approval pinned in between covers content nobody reviewed. An edit loaded while DRAFT and saved after the submission is not re-submitted. A delete tells the index only if the assistant was public when it was loaded.

## 4. What is proved

Every theorem holds for every value of the constants (any number of actors, any bounds), from the named ASSUME of its module alone. A property is
seldom inductive; the invariant that carries each proof is named.

- **Confirmation** (`ToolConfirmationProofs`). `TypeCorrect`. `NeverUngranted`: `RunsOnlyWhenGranted`, which does not say where a ready call came from.
  `IndInv` adds that every permission is backed by a grant in each place that stores one: the items of the row, the
  decisions of a carrier, the stored graph state, the memory of each run, and the history (`SoundItem`, `SoundDecision`, `SoundGraph`);
  and that passes not yet produced have no calls, so that a later message cannot change what was granted. `ConfirmationImplementsApproval`: with `proposed`, `held` and `done` mapped to the calls of all passes, the risky ones and those
  run, every step is a step of `ToolApproval` or a stutter. `ApprovedAlways`: the abstract specification keeps its promise; `OnlyApprovedRun`: hence the detailed one does.
  `AtMostOnceWhileAlone` and `ResumableWhileAlone` assume `[]MessagesAlone`, the condition of section 3, of the behaviour. `OnceInv`: one turn works at a time, a stored pause is there only while none does, only resumes load a graph, and neither the stored graph nor
  the one in memory waits for a call that was executed (`GraphsOnce`). `OneMessageRunsOnce` drops the condition for a conversation with one message: a resume needs the row that this message writes with its last step.
  `NoOrphansLeft` is proved for `Faults` without "crash" and "restore": while rows are stored that no pause needs, some turn that will delete them is at work (`SomebodyDeletes`), however turns overlap.
- **Stream** (`GenerationStreamProofs`). `StreamTypeCorrect`. `QueueAlwaysInOrder` and `SubscribersAlwaysInOrder`: `Locked` says that one sender at a time is between publishing and queueing,
  with the newest chunk, and none once the generator is closed; `MarksAtEnd` that marks come only then; `Holds` that a queue holds exactly the chunks after those taken; `Subscribed` that a registered reader's queue holds what its snapshot did not. `StoredOnce`: a turn is stored only when its server leaves
  (`StoredAtEnd`). `SavedAlwaysWhole`: every published chunk's thought is stored or in a sender's hands (`Merged`); the generator's own end comes after all sends, and an error leaves its mark on the queue (`Ends`);
  so whoever takes the end mark has taken everything (`WholeAtEnd`).
- **Workflow** (`WorkflowExecutionProofs`). `ExecutionTypeCorrect`, with `InUse`: a section is used only by a run or abort that has begun. `SiblingsAlwaysKeepStatus`: once a failure is recorded, no running instance holds an older row (`NoStaleRow`), because one instance's nodes
  share a lock and an abort's instance writes only ABORTED. `ExecutionsAlwaysEndDecided`: while the status is IN_PROGRESS some run still has a deciding write ahead (`WillDecide`). `RecoveryAlwaysRepairs`: after a crash nobody runs until a resume (`NobodyRuns`), a step that contradicts its execution
  is yet to be found, waits to be repaired, or will be swept by an abort (`IllAreRepaired`), and what an interrupted execution keeps stays as it was (`Kept`). `RecoveryAlwaysSpares`: recovery looks only at steps of runs that had started before it, which have died (`Started`), by what it has read (`ScanOpen`).
- **Audit** (`MarketplaceAuditProofs`). `TypeCorrect`. `OneAudit`: the property speaks of worker threads, the index of rows; `ClaimInv` joins them: at most one row is RUNNING (`OneRunning`), and while no live worker has lost its heartbeat, a worker that audits owns a RUNNING row that is
  not quiet (`WorkersOwnRows`). `ServedWhole`: a row becomes serveable only when
  nothing is left to write and its worker writes no more (`ServedIsClosed`); while chunks are written each scored assistant that exists is still to be written or
  has its verdict (`ChunksCover`); and what a purge will delete is gone for good (`PurgesAreGone`). `NoOrphansEver`: the verdict of a deleted assistant whose delete path is over is found by the sweep of its run, or its run's sweep is yet to look; once a run is swept it has none (`SweepCovers`). It uses `ServedIsClosed`, because nothing
  is written after the sweep. `NeverBack`, an action property: if the latest served run goes back its row was un-served, and only
  its own failing worker does that, because retention keeps it.
- **Review** (`MarketplaceReviewProofs`). `ReviewTypeCorrect`. `LedgerIsAlwaysAChain`: every version held anywhere (row, copies, pins) was reached by decisions (`Chain`), so no write can bring in one that was not, and the row is ahead of the ledger unless overwritten (`Ahead`).
  `StaleReviewsAlwaysConflict`: what a review has not seen is decided from a later version (`Later`). `OnlyApprovedArePublic`: also of every copy in flight, and of every row that a flush in two steps leaves unless it is mixed (`ApprovedCopies`). `IndexAlwaysFollows`: whenever the index may be wrong, a write that corrects it is owed or
  under way (`Converges`), and a submission that read a private row is not taken of a public one (`Hidden`).
- **Queue** (`AnalysisQueueProofs`). `QueueTypeCorrect`. `ClaimedByOnePodEver`: claims in progress hold claimable records, batches are disjoint, and given-up records are nobody's (`ClaimInv`). `QueuedOnceEver`: whoever is past the lock holds it, and what was checked is still unqueued (`QueueInv`).
- **Leadership and indexing** (`TriggerLeaderProofs`). `LeaderTypeCorrect`, `OneEngineEver` (a pod past the lock holds it or lost it, and engines run only there: `LeaderInv`). `CompositionImplementsLeaders`: every behaviour of `DatasourceIndexing` is one of `TriggerLeader`, so that `OneEngineComposed` follows.
  `OneReindexerEver` (`LockInv`), `IndexTypeCorrect`, `SlotsMatchRunsEver` (`SlotInv`).
- **History** (`ConversationHistoryProofs`). The proofs rest on lemmas about the operators on histories, for sequences of any length: a save appends its entry, keeps the others in their order and removes at most the last one of its index (`SavedHistory`); `remove` keeps entries of other indices only, each once (`WithoutIs`); an abort marks the last entry or nothing (`MarkedIs`).
  - `HistoryTypeCorrect`: `TypeInv` bounds every index, stored or in a copy, by some number, which a load that computes a new index raises by one.
  - `AnswersKeptEver` and `OutcomesStayEver` share `KeptInv`. While nothing of what section 3 excepts has happened (`CalmInv`): a turn that has not placed its entry is absent from the history (`NotYet`); one that has is there as an entry of its own that is the last of its index, unless the index is gone (`Placed`);
    two turns that hold an index hold different ones (`Apart`); an answer that was saved and not removed is there, once unless its save raised late (`Answered`); and no answer is in progress (`OpenIn`), so that an abort marks none. `Apart` and `Placed` say together that the entry a turn's save removes is the turn's own.
  - `FinishedKeepsAnswersEver`: the guard lets no turn, removal or edit hold a copy of a finished conversation (`GuardedCopies`), so that the copies of a closed one are those of aborts and settings, which change no answer.
  - `FinishedByOneEver`: while no mark was written over the row's, the number of requests told they finished is one exactly if the row is finished (`FinishCounted`). `SettleKeepsTurnsEver`: the settling step maps the row as it is then.

### Only model-checked

Every invariant and every action property of the runs is a theorem; three carry a hypothesis that the runs' instances meet: `MessagesAlone` for `RunsAtMostOnce` and `PauseIsResumable` (none is needed for one message), no crashes and failing restores for `NoOrphanCheckpoints`. What is only model-checked is liveness: `GrantedRuns`, `TurnEnds`, `SubscribersEnd`, `ClaimReleased`, `OrphansReclaimed`, `AnalysisCatchesUp`, `StepsDown`, `SomeoneLeads`, `IndexingEnds` (liveness under fairness and ENABLED are out of the
prover's reach). Every module's type invariant is a theorem.

## 5. Not modelled, and why

Within the modelled components:

- The display state of confirmation steps and `_cancel_stale_steps` (`conversation_checkpoint_service.py:94`): one more whole-row write of the kind `ConversationHistory` has. A click that names a step of an
  earlier pause with the same provider id (`call_identity.py:53`) needs ids reused across pauses.
- A client that leaves before the response body's first iteration (`assistant_handlers.py:932`): no handler of the turn runs then, which depends on the web server.
- A process that dies with its execution IN_PROGRESS (`startup_recovery.py:146`): recovery looks only at executions in another status, so no property can hold of it. The cascade of an abort to a sub-workflow (`workflow_execution_service.py:220`).
- An audit whose scoring hangs (`audit_service.py:1362`): nothing bounds it, so the fairness of the worker assumes it away.
- A comparison of history indices by identity (`conversation_service.py:1471`): an interpreter's detail (integers above 256) that no bound here reaches.
- The loss of a database session in the middle of an index write (`marketplace_index_sync.py`), which leaves the index as a crash does.

Whole components: the hedged handler (two racing threads, one winner and one stream; unlike the plain handler it has no drainer and no registry, so a
client that leaves ends its turn unsaved, `hedged_handler.py:699`, and there is no stored turn a property could speak of). Agents, tools, models, OAuth providers
and file stores are external and are chosen freely where they matter. CRUD, analytics SQL, budgets, settings and migrations change one row at a time, or compute in SQL, and have no
protocol of their own; they are most of the code's lines.

## 6. What could follow

1. The hedged handler, on top of `GenerationStream`: one winner, one answer.
2. The sub-workflow cascade in `WorkflowExecution`.
3. The display steps of confirmations in `ConversationHistory`, composed with `ToolConfirmation`.
4. A weaker condition than `MessagesAlone` under which an allowed call runs once: one that names the two interleavings that break it.
