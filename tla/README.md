# A TLA+ model of DAO agent harness

This directory holds a formal model of the harness in `src/agent_harness`: TLA+
modules, the TLC configurations that check them on small instances, and proofs
checked by TLAPS for every instance. `PROJECT.json` maps each definition to the
lines it models, lists the runs, the mutations each property detects, the
disagreements found between code and documents, and the hazards of the code.

## 1. Inventory

| Component | Code | State it keeps | Operations | What is hard about it |
|---|---|---|---|---|
| Session execution | `runtime.py` | per Session: execution lock, active run, paused latch, retained pause prefix; background tasks | `submit`, `enqueue_input`, `run_next`, `pause_for_revision`, `revise_paused_input`, `restart_pending`, `discard_paused_run`; phases LOAD, PREPARE, RUN, SAVE, RESPOND | callers queue for a lock while inputs are injected into the run that holds it; cancellation at every await; retries |
| Runner | `runner.py` | working messages, turn counter, injected count | provider request, tool batch, injection points, checkpoint callbacks, turn limit | order of record and execute; an await between reading the queue and claiming from it |
| Session | `session.py` | pending inputs, entry tree, active leaf, context summaries, unpersisted events | `enqueue`, `edit_pending`, `commit_working_messages`, `checkout`, event replay, rollback | commit must consume a queue prefix exactly once at the current revision |
| Checkpoints | `checkpoints/` | one file per Session | `load`, atomic `save`, `delete` | a file may outlive the commit, the edit or the clear that made it stale |
| Session stores | `storage/` | event log or snapshot files | append with fsync, replay | torn tails, an fsync that fails after the write |
| Consolidation | `consolidation.py`, `summary.py` | context summaries, per-Session lock, one background task per Session | reconcile, estimate, select, generate, record, queue for memory | a provider call between selecting messages and recording; the leaf may move meanwhile |
| Memory inbox, Dream | `memory/` | inbox log, cursor, MEMORY.md, dream log, one Dream task with a wakeup flag | append, read after cursor, plan, repair, apply, write, record, advance | entries queued while a batch is worked on; crashes between the writes; torn tails |
| Tools | `tools/registry.py`, `runner.py` 576-637 | nothing durable | parallel groups and barriers, deadline, artifact overflow | result against deadline, cancellation of siblings, work that cannot be stopped |
| File mutations | `tools/mutation.py` and the write tools | per-path lock with user count | `hold` | dropping an idle lock while someone is about to wait |
| Context governor, skill activations | `context_governor.py`, `skills.py` 363-506, `token_estimation.py` | none | deduplicate, repair, truncate, compact and snip messages within a budget | call and result pairs, the task and the skills must survive every cut |
| Artifacts | `artifacts/` | files with a quota | put, read | interrupted writes |
| Provider adapters | `providers/` | none | assemble a stream into an answer | fragments of several tool calls |
| Command line | `cli.py` | the active task | chat loop, `/pause`, `/edit`, `/retry`, `/clear` | what the user types while a run is active |
| Context builder, status, skill catalog | `context.py`, `status*.py`, `skills.py` | none after start | resolving the summary of a branch, rendering, discovery | nothing concurrent |

How they interact.  A channel calls `submit`: the input is appended to the
Session and saved before the caller asks for the Session's lock.  The holder of
the lock runs the head of the queue: LOAD looks for a checkpoint or a retained
pause prefix, PREPARE claims inputs and builds the messages, RUN hands them to
the Runner.  The Runner calls back into the Runtime to save a checkpoint (after
the model asked for tools, after the tools, after the final answer) and to claim
further queued inputs (after tools, after a candidate answer).  SAVE commits the
messages and removes the consumed inputs from the queue in one event, then
deletes the checkpoint.  A waiting caller whose input was injected meanwhile is
told so.  `pause_for_revision` cancels the run's task and keeps the messages in
front of the input the user wants to edit; `restart_pending` goes on from there.
A crash loses everything but the Session, the checkpoint and the memory files.

Around a run: PREPARE waits for the Session's background consolidation and makes
a pass of its own; SAVE schedules the next background pass.  A pass that finds
the context too large has the oldest uncovered messages summarised, records the
summary in the Session and queues those messages in the memory inbox, then asks
for a Dream.  Dream takes the inbox in batches, has a plan made and applied to a
copy of MEMORY.md, and moves its cursor.  Before each provider request the
context governor cuts the messages to the budget.  Tool calls of an answer go to
the registry in batches; mutations of one file wait for each other in a queue
that all Sessions share.

## 2. Modules

### `InputLedger`: what a Session promises

Inputs are numbered as they are accepted, may be edited until consumed, and are
consumed exactly once, in order, at the last confirmed revision, one or more per
committed turn.  Clearing drops what is queued.  Three variables, four actions.

### `AgentRuntime`: one Session, its runs, pauses and crashes

Composes `runtime.py`, the loop of `runner.py`, the queue and commit of
`session.py` and the checkpoint store.

*State.*  `pending`, `history`, `checkpoint` are on disk.  `waiters` is the FIFO
of the `asyncio.Lock`.  `run` is the active `ExecutionContext` with the Runner's
locals; `run.pc` names the await the run is blocked in.  `latch` and `paused` are
`_paused_sessions` and `_paused_runs`.  The other variables only observe:
`asked` (what the user last confirmed), `batches`, `ran` and `disclosed` (tool
batches asked for, started, reported as discarded), `requested` (user messages
some provider request held), `reply` (answers of `submit`).

*Steps.*  asyncio runs one task until it suspends, so one action is the code
between two suspension points.  The provider request and the tools always
suspend.  The token estimator and the stream handler may return plain values or
awaitables (`isawaitable` in the code), so their awaits are suspension points
only where `Events` holds `estimator_awaits` or `handler_awaits`; the first also
stands for any other await in PREPARE.  `limit` and `save` are no awaits: there
only a crash can intervene.  A free lock with nobody waiting is taken without
suspending, as `asyncio.Lock.acquire` does, so `Submit` runs up to PREPARE's
first await in one step.

| Code | Actions and operators |
|---|---|
| `submit`, `enqueue_input`, `run_next` | `Submit`, `Resubmit` (same source id again), `EnqueueInput`, `RunNext`, `HandOff` over `Acquire`, `Grant`, `ShortCircuit` |
| `_load`, `_restore_*`, recovery of messages | `Load` with `LoadFresh`, `LoadCheckpoint`, `LoadPaused`, `LoadFails` |
| `_prepare` | `PrepareDone`, `PrepareFails` |
| Runner loop | `ProviderFails`, `ProviderCallsTools`, `ProviderAnswers`, `BeginTools`, `ToolsDone`, `InjectAfterTools`, `InjectAfterCandidate`, `ContinueLoop`, `FinishResponse`, `CloseAtLimit` |
| `_persist_runner_checkpoint` | `SaveCheckpoint`: a failed save leaves the old file or, when only the directory sync failed, the new one |
| `_save`, `commit_working_messages` | `Save` behind `MayCommit`, `SaveFails` |
| cancelled caller | `CancelRun`, `CancelWaiter` |
| pause and revision | `PauseInactive`, `PauseActive`, `CapturePausedRun`, `Revise`, `RestartPending` |
| `/clear`, process death | `Clear`, `Crash` |

*Data.*  An input is its number, a revision and whether it exceeds the token
limit.  A tool batch with its calls is one message, its results another.  A request holds the
working messages, or with `snip` in `Events` what an emergency snip may leave of
their inputs: those from some message on, the first and the latest one
(`Requested`, `ShownInputs`); `ContextView` has the snip itself.
`_completed_before_pause_result` after a cancellation is left out: it needs a
provider or handler that suppresses `CancelledError`.  The active leaf moves
only by commits here (`Session.checkout` has no caller in the Runtime), so it is
the number of committed turns.  Usage, status and rendered context are left out.

*Caps.*  `MaxInputs`, `MaxRevision`, `MaxBatches` and `MaxWaiting` bound the
environment; `MaxTurns` and `MaxInjected` are parameters of the code.  A caller
that would find `MaxWaiting` others waiting does not call.

### `SessionLog`: one Session in its append-only log

`storage/jsonl.py` with the event side of `session.py`.

*State.*  `session` is the live Session the store caches (queue, entry tree,
active leaf, summaries) and `tracked` its `_unpersisted_events`.  `file` is the
`.jsonl` file: its complete lines, whether bytes without a newline follow, how
many lines are synced, and whether its name is.  `issued`, `confirmed` and
`refused` only observe.

*Steps.*  The operations are synchronous, so one action is one operation with its
`save()`: `Enqueue`, `EditPending`, `CommitWorkingMessages`, `Checkout` and
`RecordContextSummary` are `Perform` of their event; `Resubmit` is an enqueue of
an id that is still queued, which saves what an earlier error left.  `save()`
returns (`SaveReturns`), raises (`SaveRaises`) or dies within (`SaveDies`);
`Faults` says which of these happen.  Edits and commits run inside
`rollback_on_error`, the other operations do not (`RollsBack`).  `Load` cuts a
torn tail and replays, `Delete` drops the cached Session first, `Crash` and
`PowerLoss` lose the memory, the second also what was not synced.

*Data.*  An event has a number, what its conflict checks look at, and whether its
text holds a character at which `str.splitlines` cuts.  A committed turn is one
entry.  The header is written together with the first records by an atomic
rename and is left out.  `Checkout` has no caller in the Runtime; it is one of
the Session's public operations, and the log has to replay it.

*Assumed of the file system.*  Appended bytes reach the disk in order, a synced
prefix stays, a rename is atomic, a cut or an unlink that returned is not undone,
and syncing a file also keeps its name, if the directory's sync failed before.

### `MemoryInbox`: the memory of a workspace

`memory/store.py`, `memory/dream.py` and the Dream task of `runtime.py`.

*State.*  `inbox` are the complete lines of `inbox.jsonl` and `torn` says whether
bytes without a newline follow; `dreamCursor`, `memory` and `records` are
`.dream_cursor`, `MEMORY.md` and `dream-log.jsonl`.  `worker` is `_dream_task`
with the locals of `Dream.run`, `wakeup` is `_dream_wakeup_requested`.  `settled`
(summaries of batches whose plan took effect), `asked` (what was queued when a
Dream was last asked for) and `failures` only observe.

*Steps.*  A Dream suspends while a plan is made, while an answer that is no plan
is repaired, and in the run that edits a copy of `MEMORY.md` (`worker.pc` is
`planning`, `repairing`, `applying`).  There entries may be queued and further
Dreams asked for.  Between its three writes (`writing`, `recording`, `advancing`)
it does not suspend: there only a crash or an error of the write comes between.

| Code | Actions and operators |
|---|---|
| `enqueue`, `read_pending`, `_read_inbox` | `Enqueue`, `EnqueueRaises`, `EnqueueDies`, `NextBatch`, `Readable` |
| `_schedule_dream`, `_run_dream_until_idle` | `Schedule`, `Begin`, `RunNextBatch` |
| `Dream.run`: plan and repair | `AnswerIsPlan`, `AnswerIsNoPlan`, `PlanningFails` |
| `Dream.run`: apply, write, record, advance | `ApplyDone`, `ApplyFails`, `WriteMemory`, `WriteRecord`, `AdvanceCursor`, `WriteRaises` |
| cancellation, process death | `CancelTask`, `Crash` |

*Data.*  A plan is the set of summaries its statements cite; what cites a source
outside the batch is no plan.  `MEMORY.md` is the set of summaries some statement
in it stems from.

### `Consolidation`: context summaries of one Session

`consolidation.py` with the tasks of `runtime.py` that call it, on top of
`MemoryInbox`, whose files it extends.  The Dream task is asked for here but does
not step: Dream never writes the inbox, and its cursor never passes the last
entry, so the cursors of new entries do not depend on it.

*State.*  `parent` and `leaf` are the entry tree, `summaries` the live Session's
summaries and `saved` how many of them reached its file.  `run` and `background`
are the active execution and the task in `_consolidation_tasks`; `pass` is the
holder of the consolidation lock with the locals of `maybe_consolidate`.
`receipt` has the messages each inbox entry was queued with.  `everSaved` makes
ids unique, as the code's random ids are; `missed` observes which summaries a
failure kept from the inbox.

*Steps.*  A pass suspends in the token estimator, twice (`estimating`,
`picking`), and in the summary request (`generating`).  Saving a summary and
queueing it (`enqueuing`) run without a suspension, so only a crash or an error
comes between.  Every other action may happen at every suspension: `Save` and
`Checkout` move the leaf under a pass, `Clear` cancels the background task,
`RunEnds` cancels PREPARE.

| Code | Actions and operators |
|---|---|
| `_prepare`, `_save`, `_schedule_background_consolidation` | `BeginRun`, `Prepare`, `ResumeRun`, `Save`, `RunEnds`, `BackgroundBegins` |
| `maybe_consolidate`, `_consolidate_locked`, `_reconcile_memory` | `EnterPass`, `Reconcile`, `EstimateTooLarge`, `EstimateEnds`, `PickBoundary`, `PickNothing`, `Return`, `Raise` |
| `generate`, `record_context_summary` | `GenerateFails`, `RecordSummary`, `RecordRaises` behind `Accepted` |
| `_enqueue_memory` | `EnqueueMemory`, `EnqueueMemoryFails` |
| `SessionContextResolver.resolve` | `Resolved`, `ContextOf` |
| checkout, `/clear`, process death | `Checkout`, `Clear`, `Die` |

*Data.*  A unit is a user message with all that follows it up to the next one:
boundaries lie between units.  `Branch` is the walk from a unit to the root, said
without the walk: the fewest units that hold it and the parent of each of them
(`Upward`).  A summary's text is the set of units it was made from.  Token estimates are choices: every estimate may be above or below every
limit.

### `ToolBatches`: the tool calls of model turns

`_execute_tools` of `runner.py`, `execute_call` of `tools/registry.py`, `hold` of
`tools/mutation.py` and what the write, edit, read and bash tools do while they
wait.

*State.*  `pc`, `at` and `results` are the loop over the batches; `task` and
`stop` are each call's task and the cancellation it has yet to receive, from its
deadline or from its run.  `queue`, `entry` and `via` are the mutation queue: the
entry of a path, its lock with holder, waiters and user count, and the entry each
call refers to, which may be one that the queue no longer holds.  `thread`, `seen`
and `file` are the pool's threads and the files.  `history` (the order in which
mutations finished) and `outlived` (calls that ended before their thread) only
observe.

*Steps.*  A call is a task of the event loop; `Start` runs it up to its first
suspension.  A thread that has started cannot be stopped: it reads and writes
files after its call timed out or was cancelled (`StopThread`).  A deadline and a
cancellation cancel the task, and the exception is received later, so the work
may be finished in between and the call may be cancelled again (`Cancel`).  A
command with a timeout of its own is killed and its output awaited, with
`asyncio.timeout` of the registry still around it (`OwnTimeout`, `Drained`).

| Code | Actions and operators |
|---|---|
| `_partition_tool_batches`, `_execute_tools` | `Begins`, `Batch`, `BatchOf`, `Later`, `NextBatch`, `Cancel`, `Cancelled` |
| `execute_call`, `_completed_result` | `Start`, `Resume`, `Deadline`, `ReceiveStop`, `Stopped`, `Store` |
| `FileMutationQueue.hold` | `EnterLock`, `Acquire`, `LeaveLock` |
| threads of write, edit, read | `ThreadStarts`, `ThreadFinishes`, `ThreadFails` |
| bash | `ShellExits`, `OwnTimeout`, `Drained` |

*Data.*  A file is the set of mutations its text holds: a write replaces the
text, an edit adds itself to what it read.  `Begins` says of a call whether a
batch begins with it; the code collects the same batches in a loop over the
calls.

### `ContextView`: what a request shows of the conversation

`context_governor.py` and the activations of `skills.py`.  The stages of
`prepare` are operators on sequences of messages (`Deduplicated`, `Repaired`,
`TruncateToolResults`, `DropRuntimeStatuses`, `Microcompact`, `EmergencySnip`
with its bisection); `Visible` is what the Runtime hands over, covered history
reduced to its active skills.  A small state machine makes the conversations
these stages meet: turns, batches with results, activated skills, injected
inputs, a batch a pause left open, the turn limit, a refused request, history a
summary covers.  `Request` is where the view is built, and the properties compare
it with `messages`.

- *Results* (`ReceiveResults`) are written in the order their calls complete:
  adjacent calls of parallel-safe tools in any order, any other call is a barrier
  (`Completions`; the races themselves are in `ToolBatches`).  The order decides
  which of two skills a batch activates is the later one.
- *Inputs* (`Answer`, `AddInputs`, `Restart`) join a turn several at once, up to
  `MaxInjected` in a turn (`Injections`).
- *Ids* of calls are the provider's choice; no code in the harness checks that they
  differ.  `repeating`, which is chosen with the budget at the beginning, says whether
  the provider may give one again.  A batch has any length.
- *`Restart`* stands for a pause of a batch or a request and the restart, with the
  inputs that wait.  A pause that cuts the conversation in front of a revised input
  leads to a state in which that input has not come yet, which `AddInputs` and
  `Answer` leave as well.

A text is its size, which serves as its tokens and its characters.  A tool is
named by what the code looks at: whether its results may be compacted and whether
it activates a skill.  The text an assistant message may carry beside its tool
calls is left out; with it `deduplicate_skill_messages` keeps the message.

### `Positions`: parts of sequences

The n-th position of a set (`Nth`), and what a sequence has at the positions of a
set (`Chosen`).  `AgentRuntime` finds the user messages of a run with it,
`Consolidation` the summaries still to be queued.

### `MCAgentRuntime`, `MCToolBatches`, `MCContextView`: instances for TLC

Named sets of `Events`, turns of tool calls, and tools with their result sizes.
The other modules take their instances from the configurations alone.

### `AgentRuntimeProofs`, `RunInputsProofs`, `SessionLogProofs`, `MemoryInboxProofs`, `ConsolidationProofs`, `ToolBatchesProofs`, `ContextViewProofs`, `NumberLemmas`

Theorems; see section 5.  The first two are about `AgentRuntime`: the queue, its
prefixes and the tool batches in the messages, then the inputs the messages speak
for.  The others are about the modules they are named after.  `NumberLemmas` has the least and greatest members of sets of numbers, and counts
the members of sets of positions.

## 3. Runs

A configuration has the name of its run.  Deadlock is checked in every run but those
of `ContextView`, where a conversation stops at its bound: a Session can always
accept a call, and finished tool batches stutter.

| Run | Module and environment | Properties | What it shows |
|---|---|---|---|
| `interleaving` | `AgentRuntime`, no failures, every optional await, requests that may cut; 3 inputs of 2 sizes, 3 turns, 3 waiting callers, 2 injections | `EndsWereRequested`, `InjectedWasCommitted`, `SubmitReturns` | submits against injections, several at once too, the token limit, and requests that cut |
| `recovery` | `AgentRuntime`, crash, cancel, provider, checkpoint and session failures; 2 inputs, 2 turns, 3 batches | `NoOpenToolBatch`, `EffectsAccounted`, `CheckpointsGrow`, `FinalAnswerCommitted` | what the checkpoint is for |
| `revision` | `AgentRuntime`, pauses at every await but those of the stream handler; 2 inputs, 2 revisions, 3 turns, 2 batches, 2 waiting callers | `LatchStopsRuns`, `EffectsAccounted`, `SubmitReturns` | pause, edit and restart against waiting callers, and tools a paused run has started |
| `mixed` | `AgentRuntime`, pauses at every await, clear, crash, checkpoint failures; 2 inputs of 2 sizes, 2 revisions | `CheckpointUsable`, `PausedPrefixHolds`, `BudgetShared`, `RunHoldsPrefix`, `ImplementsLedger` | leftovers of one mechanism met by another, the queue and one budget through all of them |
| `log_crash` | `SessionLog`, crashes, power losses, saves that raise before they write; 6 events | `LogReadable`, `ConfirmedKept`, `MemoryMatchesLog`, `RefusedIsGone` | what the log promises, and that the live Session and its replay never part |
| `memory_inbox` | `MemoryInbox`, provider failures, failing writes, crashes, cancellation; 3 summaries, batches of 2, 2 failures | `InboxReadable`, `NothingSkipped`, `Traceable`, `WakeupServed` | Dream against entries queued meanwhile and against crashes between its writes |
| `consolidation` | `Consolidation`, all of `AllTrouble` and crashes; 3 units, 2 summaries, 2 rounds, 1 failure | `ContentComplete`, `ContextComplete`, `ReceiptsMatch`, `NothingMissed`, `OncePerSummary`, `PrepareEnds` | passes against SAVE, checkout and clear, and the way of a summary into the inbox |
| `tool_batches` | `ToolBatches`, deadlines, cancellations, tool errors; 2 runs, 2 paths, four pairs of turns with up to 3 calls | `BarrierHeld`, `ResultsComplete`, `SerialEffect`, `QueueEmptied`, `NoneOutlives`, `BatchesEnd` | batches, locks and threads under every race with a deadline |
| `model_requests` | `ContextView`; 8 messages, 6 if ids repeat, budgets 4 and 7, 4 tools, 2 of them skills, 2 injections, 4 ids | `ViewLegal`, `ViewLinked`, `CurrentShown`, `SkillsShown`, `SnipLongest` | every stage of the context governor on every such conversation |

Type invariants are proved (section 5) rather than run.

Why the bounds are enough.  In `AgentRuntime` two inputs are the run's own and
one queued behind it; the three in `interleaving` are a turn's own and two that join
it at once or one after the other (`MaxInjected = 2`), or one that comes too late for
it.  Two turns give a first and a last one, hence a turn with and one without room
for injection; three add one between.  Three batches
with two turns let a batch be asked for, lost and asked for again.  One revision
suffices where nobody edits; two give a stale and a current one.  In `SessionLog`
six events are two turns on different branches (two enqueues, two commits, a
checkout) and a summary, or three events retried after an error each.  In
`MemoryInbox` three summaries and batches of two give a full batch, a batch that
is not full, and an entry queued behind the batch in hand; two failures are a
failed batch and a crash in its retry.  In `Consolidation` three units make a
branch whose summary leaves two behind it, and two branches with a common root;
two summaries are one and the one that extends it, or two on different branches.
In `ToolBatches` three edits of one file are a holder and two waiters, of which
two are in the same run and the third is not; three calls are a parallel batch
before or behind a barrier.  In `ContextView`
eight messages hold a turn with a call and a second turn with one, the first of which
may be covered; a turn with a batch of two and two or three inputs behind it; or two
batches in one turn, the second of them interrupted.  One batch activates two skills,
in either order of completion, another has a barrier in front of a parallel call.
The smaller budget forces all stages while the larger lets each be the last.  The ids
of calls are interchangeable, hence symmetric; four are as many as eight messages hold
calls.  Six messages are enough for ids that repeat within a batch, and for a second
call with the id of an answered one, interrupted or answered itself.

Fairness.  Each `FairSpec` assumes weak fairness of what the event loop runs when
it can run, and that what is outside answers, with a result or an error:

- `AgentRuntime`: `RunStep` and `HandOff`.  Providers, tools, handlers and
  estimators answer; the HTTP client and the tools have timeouts.  A cancelled
  caller, a crash and a pause all count as answers of `submit`, as they do in
  the code.
- `MemoryInbox`: `WorkerStep`.
- `Consolidation`: `PassStep`, `BackgroundBegins` and `Prepare`.
- `ToolBatches`: `NextBatch`, `Cancelled`, the steps of a call on the event loop,
  and `Deadline`, a timer.  Threads and commands may take for ever, as nothing
  stops them.  What a killed command printed is assumed to end (`Drained`), unless
  a child of its holds the pipe (`child`).

No fairness is assumed of callers, pauses, restarts, failures or of a Dream being
asked for.

The violation runs each have one property, a statement of the documents, and a
trace TLC finds against it:

| Run | Statement | What the code does |
|---|---|---|
| `inbox_torn_tail` | an inbox with a torn tail can be recovered (`docs/memory-system-design.md:155`) | the tail is skipped when read but not removed; the next entry is joined to it, and the inbox cannot be read any more |
| `snipped_inputs` | SAVE consumes only inputs that were in a provider request (`README.md:82`, `docs/message-injection-design.md:16`) | two inputs join a run together behind a candidate answer; the request shows the turn's first input and the later of the two, and as the run reports every user message it holds as seen (`runner.py:702`), all three are committed |
| `command_deadline` | `timed_out` says that the harness no longer waits (`docs/tool-execution-design.md:302`) | the deadline kills a command with a timeout of its own and awaits its output, which a child may keep open; running the code, a deadline of 1 s passed only when a child ended after 20 s |

Some environments are left out of the passing runs because the code does not
keep the property there.  No run is kept for them; each can be seen by a change
of one constant.

- With `MaxInjected = 2` and `snip` in `Events`, `ConsumedWasRequested` fails (the
  run `snipped_inputs`).  It holds with one injection, where the snip's two anchors
  are all of the turn's inputs, and without cuts for any number of injections
  (section 5).  For the same reason the request behind an injection need not show
  every input of it (`docs/message-injection-design.md:255` says it does): under a
  short budget the earlier ones are cut (`context_governor.py:434`).
- A provider that gives one id to two calls of a conversation makes `ViewLegal`,
  `CurrentShown`, `SkillsShown` and `SnipLongest` fail without their `~repeating`:
  a result no longer says which call it answers.  `ViewLinked` is what holds then.
  A result in front of a call counts as its answer too (`context_governor.py:297`),
  so an interrupted call that repeats an id is shown without a result behind it,
  where `docs/context-governor-design.md:147` asks for one.
- A run that resumes with no turn left claims newly queued inputs, which SAVE
  then consumes unseen (`runtime.py:920` against `README.md:82` of the
  repository): `EndsWereRequested` with `Events <- Recovery`.  For the same
  reason an input that is too large is sent when a resumed run claims it, since
  the limit was checked before.
- A pause for an input that is not in the run yet keeps a tool call without its
  results, and the restart commits it (`runtime.py:1341`): `NoOpenToolBatch` with
  `Events = {"pause"}`.  The context governor answers the call when a request is
  made (`ContextView`, where an open batch is one of the conversations).
- After revise, restart and a failure, a repeated pause is answered "paused" from
  what the first one retained, although the latch is gone (`runtime.py:379`).
- Pausing an idle Session behind the checkpoint of a failed run deletes the
  checkpoint, and with it tools that were executed, without reporting them, and so
  does a pause while an asynchronous handler is told of the final answer:
  `EffectsAccounted` with `Events = {"pause", "provider_error"}` or
  `{"pause", "handler_awaits"}`.
- A text with U+2028 or the like splits its record when the file is read with
  `str.splitlines` (`storage/jsonl.py:93`): `LogReadable` with
  `Texts = {"separator"}`.
- An fsync that fails behind a write leaves the record in the file; with that of
  the retry the file is refused (`storage/jsonl.py:189`): `LogReadable` with
  `sync_error` in `Faults`.
- A write that stops halfway while the process lives on leaves a torn record that
  only a load removes; the next one is joined to it, and a confirmed save is lost:
  `ConfirmedKept` with `short_write` in `Faults`.

## 4. Properties worth knowing

- `ImplementsLedger`: the refinement of `InputLedger`, the exactly-once,
  in-order, current-revision promise.
- `RunHoldsPrefix`: the conflict checks in front of checkpoints, injections and
  commits never refuse a run.
- `CheckpointUsable`, `PausedPrefixHolds`: no checkpoint file, however stale, and
  no retained pause prefix makes LOAD or PREPARE fail with a conflict, which
  would block the Session for good.
- `CheckpointsGrow`, `FinalAnswerCommitted`: retries lose no progress, refund no
  turns, and do not ask again once an answer is recorded.
- `EffectsAccounted`: a started tool batch is never silently forgotten.
- `BudgetShared`: a logical run has asked the model once for every answer its
  messages hold and takes no more inputs than its capacity, however often it is
  injected into, crashes and is resumed, or is paused, cut and restarted.
- `EndsWereRequested`: of the inputs a turn consumed the first and the latest were
  in a request, whatever was cut.
- `LatchStopsRuns`, `InjectedWasCommitted`, `SubmitReturns`: what callers that
  wait for the lock may rely on.
- `LogReadable`, `ConfirmedKept`, `RefusedIsGone`: the log after any crash can be
  replayed, holds what was confirmed, and not what was rolled back.
- `MemoryMatchesLog`: the live Session is the replay of the file and the events
  still to be written, through every error path.
- `NothingSkipped`, `Traceable`: the Dream cursor passes an entry only behind a
  batch that took effect and is in the log, although entries are queued while the
  batch is worked on and a crash may separate the three writes.
- `WakeupServed`: a Dream asked for during the last batch of another gets to the
  new entries.  The wakeup flag is not what ensures it: the task reads the inbox
  again behind each batch, and where the flag is read it is never set.  A batch
  that fails ends the task and drops what was asked for during it; the entries
  wait for the next consolidation.  `WakeupServed` excludes that case.
- `ContentComplete`, `ContextComplete`: a summary stands for all of its branch up
  to the unit it covers although the leaf may have moved while it was generated,
  and a run sees its branch whole, summary and rest without a gap or an overlap.
- `ReceiptsMatch`, `NothingMissed`, `OncePerSummary`: a summary is queued for
  memory once, if not at once then by the next pass, from the same messages
  (`docs/memory-system-design.md`, section 5.1: the summary is saved before it is
  queued).
- `PrepareEnds`: a run gets past the background pass it waits for and past the
  consolidation lock.
- `BarrierHeld`, `ResultsComplete`: sequential calls do not overlap with their
  neighbours, and each call has one result whatever races with its deadline.
- `SerialEffect`, `QueueEmptied`: mutations of one path take effect one after the
  other across Sessions (`docs/basic-tools-design.md:72`) although locks come and
  go with their users.  The promise ends where a thread outlives its call.
- `NoneOutlives`, `BatchesEnd`: a run ends after its calls, and deadlines end it
  even if no tool ever returns.
- `ViewLegal`, `CurrentShown`, `SkillsShown`, `SnipLongest`: what
  `docs/context-governor-design.md`, section 11, asks of a request.  `SnipLongest`
  compares the bisection with the definition by all legal starts; it holds
  although the repair behind the bisection may enlarge a candidate.  `CurrentShown`
  says of inputs that joined together that the later ones are kept first.
- `ViewLinked`: results have calls and calls have results by their ids alone, which
  is what the repair ensures when a provider repeats ids.

`MemoryInbox` has no writer of `MEMORY.md` but Dream.  The documents invite people
to edit it by hand (`docs/memory-system-design.md:15`); Dream replaces the file by
the edited copy it made before, so an edit made while a plan is applied is lost.

## 5. Proofs

The theorems of `AgentRuntimeProofs`, and of `RunInputsProofs`, which extends it, are
about `Spec` with arbitrary constants satisfying `RuntimeAssumption`: any number of
inputs, revisions, turns, batches and waiting callers, and any combination of
failures.

- `TypeCorrect`: `Spec => []TypeOK`.  `TypeInv` adds `CallRecorded`: while tools
  run, the last working message is their call (`ToolsDone` reads its number).
- `RunPrefixHolds`: `Spec => []RunHoldsPrefix`.  `PrefixInv` adds what makes it
  inductive: where inputs are about to be injected they are still the queue's
  next ones, and a run under a pause does not lose its target.
- `LatchHolds`: `Spec => []LatchStopsRuns`, from the same invariant.
- `SessionImplementsLedger`: `Spec => ImplementsLedger`.  `LedgerInv` says that
  the queue is the tail of the accepted inputs with the revisions in `asked`, and
  that a pause target is queued.  Then `Init` maps to `LedgerInit`, and every
  action maps to `Accept`, `Edit`, `Consume`, `ClearAll` or a stutter.

The second half of the module follows the tool batches through messages, checkpoint
and history.

- `HistoryIsAnswered`: `Spec => []NoOpenToolBatch`, and `EffectsAreAccounted`:
  `Spec => []EffectsAccounted`, both under `NoPauses`: with pauses they do not hold
  in every environment (section 3).  What a pause discloses is checked by the run
  `revision`.  `BatchInv` says which batch may be open (the one whose tools
  run, or ran when the checkpoint was taken), and that a started batch is in the
  history or in the checkpoint.  The delicate case is a checkpoint about to be
  replaced: the run that would do it has taken over every started batch the history
  lacks, and a checkpoint whose input has left the queue holds none.
- `InjectedIsCommitted`: `Spec => []InjectedWasCommitted`, under `NoClears`, with
  pauses and all failures: `/clear` empties the history the answer refers to.
  `InjectedInv` adds that what has left the queue is in the history, and that a
  caller waits for an input that was accepted.

`RunInputsProofs` follows the inputs.  Every theorem but the last three holds for any
mix of events, pauses, revisions and clears included.

- `CheckpointIsUsable`: `Spec => []CheckpointUsable`.
- `RetainedIsUsable`: `Spec => []PausedPrefixHolds`.
- `CheckpointsOnlyGrow`: `Spec => CheckpointsGrow`, an action property.
- `FinalAnswerIsCommitted`: `Spec => FinalAnswerCommitted`, an action property, under
  `NoPauses` and `NoClears`, since both discard a checkpoint on purpose.
- `ConsumedIsRequested`: `Spec => []ConsumedWasRequested`, if nothing fails, stops or
  crashes a run (`Undisturbed`) and no request has to cut the conversation
  (`"snip" \notin Events`), for injections of any length.  A run resumed from a
  checkpoint claims inputs whatever turns are left and may commit them unseen, and so
  may a run one of whose requests is cut (section 3).
- `TaskAndLatestRequested`: `Spec => []EndsWereRequested`, under `Undisturbed` alone:
  this much survives the cuts.

`InputsInv` has four parts.  `CheckpointInv`: a checkpoint's user messages are those
of its inputs, which head the queue at an unmoved leaf, or the first of them has been
consumed; and it never has more answers than turns, so a resumed run does not
exceed the limit.  `PauseInv`: the same of a retained prefix, which excludes a
checkpoint.  `RunInv`: the same of the run at each await.  `GrowInv`: while a
checkpoint of a queued input exists, the active run goes on from its messages, and
has begun a turn more for a batch the checkpoint lacks.  Without `GrowInv` a run
could write a smaller checkpoint; without the count of answers in `RunInv` the turn
recovered from messages could pass the limit.  `SeenInv` is the invariant of
the last two: an input is injected only with a turn left to request it in, and every
request shows the first and the latest of its inputs, and all of them without cuts.
TLC checked `InputsInv` in an environment of pauses, clears, crashes, cancellations
and failing providers, checkpoints and saves before it was proved.

The theorems of `SessionLogProofs` are about `Spec` of `SessionLog` for any number
of events and any texts, under the hypothesis `CleanFaults`: a save that raises
has written nothing.  Section 3 says what happens without it.

- `ConfirmedIsKept`: `Spec => []ConfirmedKept`.
- `RefusedStaysGone`: `Spec => []RefusedIsGone`.
- `LogIsReadable`: `Spec => []LogReadable`, and `MemoryIsReplay`:
  `Spec => []MemoryMatchesLog`, under the further hypothesis `PlainTexts`: no text
  has a line separator of the kind section 3 describes.

`LogInv` adds to the two properties that event numbers are never reused, that
nothing is confirmed while the file's name is not durable, and that a live Session
never sits over torn bytes, so an append starts a line of its own.  `SaveOutcomes`
says what a save may do to the file; `PerformStep` then covers all five kinds of
event at once, and `QuietStep` the steps that create none.

`MatchInv` adds to `LogInv` that the file can be replayed, and that the live Session
is the replay of the file followed by the events still to be written.  `ReplayAppend`
takes it over a new event.  A save that returns moves events from the second part to
the first, one that raises leaves the file and either keeps the event to be written
or rolls it back in both; what a crash or a power loss leaves of the file is a
beginning of one that could be replayed (`PlayablePrefix`).

The theorems of `MemoryInboxProofs` are about `Spec` of `MemoryInbox` for any
number of summaries, any batch size and any mix of failures, under the hypothesis
`WholeAppends`: an append that does not return writes its whole line or nothing.
The run `inbox_torn_tail` shows that the hypothesis is needed.

- `InboxTypeCorrect`: `Spec => []TypeOK`.
- `InboxStaysReadable`: `Spec => []InboxReadable`.
- `NothingIsSkipped`: `Spec => []NothingSkipped`.
- `EverythingIsTraceable`: `Spec => []Traceable`.

- `QueuedOnce`: `Spec => []OncePerSummary`, without the hypothesis: the line that a
  torn append leaves behind makes the inbox refuse every further entry, so that it
  cannot cause a duplicate either.

`InboxInv` joins to these what they rest on: `Whole` (no torn bytes, no garbage,
cursors increase), `BatchFollows` (the batch in hand is a range of entries without
a gap, directly behind the cursor, whatever was queued since), `BatchSettled` (it
took effect before it is recorded as completed) and `BatchRecorded` (it is recorded
before the cursor passes it).  The cursor then moves over exactly the batch.
The last entry of a batch, and the place of a new one, are found with
`NumberLemmas`.

The theorems of `ToolBatchesProofs` are about `Spec` of `ToolBatches` for any number
of runs, paths and calls, any turns, and any mix of deadlines, cancellations, tool
errors and children that hold a pipe.  They have no hypothesis but the assumption on
the constants.

- `TypeCorrect`: `Spec => []TypeOK`.
- `BarrierIsHeld`: `Spec => []BarrierHeld`, and `NothingOutlives`:
  `Spec => []NoneOutlives`.  `BatchInv`: what has begun is in the current batch or
  before it, and what is before it has ended.
- `ResultsAreComplete`: `Spec => []ResultsComplete`.  `ResultInv`: a call of a run that
  was not cancelled has ended if and only if it has a result, and never two.
- `QueueIsEmptied`: `Spec => []QueueEmptied`.  `LockInv`: the user count of an entry is
  the number of calls that refer to it, all of which find it in the queue; the holder
  works, the waiters wait, and who works holds the lock.
- `EffectsAreSerial`: `Spec => []SerialEffect`.  `SerialInv`: on a path no outlived
  thread has touched, the file is the replay of the finished mutations, and a thread
  that has read sees that file still.  It needs the exclusion of `LockInv` and, from
  `ThreadInv`, that a thread works only while its call does or has outlived it.

The theorems of `ConsolidationProofs` are about `ConsolidationSpec` for any number
of units, summaries and rounds, any tree, and any mix of `AllTrouble`, crashes and
failures.  Their hypothesis is `ConsolidationAssumption`, which leaves torn appends
to `MemoryInbox`.

- `SummariesAreComplete`: `ConsolidationSpec => []ContentComplete`.
- `ContextIsWhole`: `ConsolidationSpec => []ContextComplete`.
- `ReceiptsAreSummarised`: `ConsolidationSpec => []ReceiptsMatch`.
- `NoneIsForgotten`: `ConsolidationSpec => []NothingMissed`.
- `QueuedOncePerSummary`: `ConsolidationSpec => []OncePerSummary`.

All five follow from `ConsInv` (`SummariesAreSound`), which TLC checked as an
invariant of the run `consolidation` before it was proved.  `SessionInv`: a summary
stands for the branch of the unit it covers, and the one it follows was recorded
before it and covers no more, on the branch it was made on.  `PassInv`: what a pass
has read is some branch of the tree and a summary that covers a part of it,
although the active branch may be another by now, its chunk is the rest up to a
later unit, and the summary it is about to queue is not queued.  That is why a
summary generated while the leaf moved has no gap: `_apply_context_summary_created`
need not know which branch its chunk came from.  `StoreInv`: the inbox is whole.
What the proofs need of trees is `BranchCut` (the branch of a unit on another branch
is the part of that up to the unit) and `BranchKept` (a commit leaves the branches
there are); `ReconstructedIsChunk` is why a summary that is queued late is queued
with what it was made of.

The theorems of `ContextViewProofs` are about `Spec` of `ContextView` for conversations,
batches and results of any length and size, results in any order their calls may
complete in, any number of inputs at once, any tools and skills, and any budgets and
limits.  All but the last are about conversations in which the provider gives no call id again
(`~repeating`), which the code does not check; section 3 says what happens otherwise.

- `RequestIsView`: `Spec => [](~repeating => ViewInv)`.  Conversations keep calls before their results,
  number messages and calls once, leave only the last batch open and cover whole turns;
  and a request was built by `prepare` from what is visible of its conversation.
- `ResultsAreMarked`: `Spec => [](~repeating => MarkInv)`.  A result names the tool of its call, and only
  `prepare` makes up answers.
- `ViewIsLegal`: `Spec => []ViewLegal`.  Legality has three parts: `Coherent` (numbers are
  used once, and a result is in the block behind its call), `Owned` (each result has its
  call) and `Answers` (each call has its result).  Every stage keeps the first, the repair
  establishes the others, and the compaction keeps them.  `EmergencySnip` repairs whatever
  candidate it settles for.
- `SnipIsLongest`: `Spec => []SnipLongest`.  The bisection looks at candidates that are not
  repaired yet.  A later start gives a part of an earlier candidate, so they only shrink
  (`EmbedSum` compares sizes message by message), and what the bisection skips does not
  fit.  The repair of a candidate only adds answers, as each result in it has its call, so
  nothing skipped would fit repaired; behind the bisection the search is linear, and the
  repair may refuse a start the bisection found.  In the same way each earlier stage only
  shrinks the view, hence a view that fits without a snip still fits at the end.
- `CurrentIsShown`: `Spec => []CurrentShown`.  A function takes the places of a view to
  places of the conversation, in their order (`Follows`).  `Passes` says which messages
  each stage lets through, and `Clips` what it may do to a result.
- `SkillsAreShown`: `Spec => []SkillsShown`.  `Active` selects instructions from the last
  one backwards.  What is covered is reduced to its active skills before
  deduplication selects again, so the proof compares the two selections: the second one
  finds every later activation and no superseded one.
- `ViewIsLinked`: `Spec => []ViewLinked`, whatever ids repeat.  `LinkInv` needs no
  more of a conversation than that it holds messages: dropping orphans leaves each
  result behind a call with its id (`Preceded`), and for an id no result has the first
  call with it is filled in (`BackfillLinks`, by the least such call).  The stages
  behind the repair change neither ids nor calls, and a snip repairs its candidate.

Several operators count or take minima of index sets.  What they return is proved
from the well-foundedness of `<` on the naturals (`LeastNumber`): the least
counterexample is a non-temporal argument that needs no induction schema.  For this
reason `UsersOf` names the n-th user message by its position (`Nth`), `Branch` is a
least set and `Begins` says where a batch begins, where recursion or a fold over the
sequence would do for TLC.  A recursive function over a whole sequence (`Replay`,
`Sum`, the selection of skills, the bisection) is taken one step at a time: `StepsExist`
and its companions show that a function with these steps exists and is the only one, and
a fact about its value for every sequence is then a least counterexample once more.

Checked by TLC only:

- All liveness (`SubmitReturns`, `WakeupServed`, `PrepareEnds`, `BatchesEnd`): out of
  the prover's reach under fairness.
- `LogReadable` and `MemoryMatchesLog` with saves that raise after they wrote: in some
  environments only, see section 3.
- `EffectsAccounted` under pauses, where it holds in some environments only.
- `BudgetShared`; and `ConsumedWasRequested` with cuts and one injection, which the
  theorems leave to the run `interleaving`.

## 6. Plan

Next theorems: `BudgetShared`, much of which is in `RunInv`, and `EffectsAccounted` in
the environment of `revision`.  Every other safety property the passing runs
check is proved.

Next modules: the assembly of streamed tool calls (`providers/`), the chat loop of
the command line with its input task and its active task, and the artifact store.

## 7. Not modelled

`PROJECT.json` lists every component.

- Provider adapters: streams are assembled within one task, from fragments that
  belong to one index each.
- The command line's own loop: the calls it makes are actions, its prompts and
  rendering are not.
- The artifact store: each file is written once, by an atomic replace, under the
  hash of its content.
- The snapshot store and the in-memory stores: `SessionLog` has the store the
  command line uses.  In `AgentRuntime` a failed save leaves the Session's file as
  it was; partial writes and failed syncs are in `SessionLog`.
- Encoding and validation of events, checkpoints, summaries and memory records,
  and the casting of tool arguments against a schema.
- Token estimation and its fallback: estimates are choices or sizes.
- Rendering (context builder, status, prompts), discovery and parsing of skill
  files, path policies and the input and output of the listing tools keep no state
  that a schedule could break.
