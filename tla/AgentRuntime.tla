---------------------------- MODULE AgentRuntime ----------------------------
(***************************************************************************)
(* One Session driven by AgentRuntime: the durable queue of PendingInputs, *)
(* the Runner's provider / tool loop, mid-run injection, checkpoints and   *)
(* recovery, and pausing a run to revise an input.                         *)
(*                                                                         *)
(* asyncio runs one task at a time, so an action is the code between two   *)
(* suspension points.  run.pc names the await the active run is blocked    *)
(* in; "limit" and "save" are points inside synchronous code, where only a *)
(* crash can intervene.                                                    *)
(***************************************************************************)
EXTENDS Integers, SequencesExt, Positions

CONSTANTS
  MaxTurns,     \* max_turns: provider requests one run may make
  MaxInjected,  \* max_injected_inputs_per_run
  Sizes,        \* {"small"} without max_input_tokens, {"small", "big"} with it
  Events,       \* which of PossibleEvents the environment may produce
  MaxInputs,    \* bound: inputs ever accepted
  MaxRevision,  \* bound: revisions of one input
  MaxBatches,   \* bound: tool batches the provider ever asks for
  MaxWaiting    \* bound: callers waiting for the Session lock

PossibleEvents ==
  {"crash", "cancel", "pause", "clear", "provider_error", "checkpoint_error",
   "session_error", "estimator_awaits", "handler_awaits", "snip"}

ASSUME RuntimeAssumption ==
  /\ MaxTurns \in Nat \ {0} /\ MaxInjected \in Nat
  /\ Sizes \subseteq {"small", "big"} /\ "small" \in Sizes
  /\ Events \subseteq PossibleEvents
  /\ MaxInputs \in Nat /\ MaxRevision \in Nat \ {0}
  /\ MaxBatches \in Nat /\ MaxWaiting \in Nat

VARIABLES
  pending,     \* durable: Session.pending_inputs
  history,     \* durable: the committed turns of the active branch
  checkpoint,  \* durable: the Session's ContextCheckpoint file
  waiters,     \* callers blocked on the Session's asyncio.Lock, in FIFO order
  run,         \* the active run: ExecutionContext plus the Runner's locals
  latch,       \* session_id in _paused_sessions
  paused,      \* _paused_runs[session_id]
  asked,       \* history variable: the revision the user last confirmed, by id
  batches,     \* history variable: tool batches the provider has asked for
  ran,         \* history variable: batches whose tools were started
  disclosed,   \* history variable: batches a pause result listed as discarded
  requested,   \* history variable: user messages some provider request held
  reply        \* history variable: what the latest submit() of an id returned

durable == <<pending, history, checkpoint>>
observed == <<asked, batches, ran, disclosed, requested, reply>>
vars == <<pending, history, checkpoint, waiters, run, latch, paused,
          asked, batches, ran, disclosed, requested, reply>>

-----------------------------------------------------------------------------
(* Values *)

\* A PendingInput: its id is its position in the order of acceptance; content
\* is told apart by its revision and by whether it exceeds the token limit.
Item(id, rev, size) == [id |-> id, rev |-> rev, size |-> size]
Items == [id : Nat \ {0}, rev : Nat \ {0}, size : {"small", "big"}]
Fits(item) == item.size = "small"

\* Messages.  One "call" is an AssistantMessage with its tool batch, one
\* "result" the batch's tool results, "unknown" the results synthesised for
\* an interrupted batch, "text" an answer without tool calls.
Message(kind, ref, rev) == [kind |-> kind, ref |-> ref, rev |-> rev]
Messages == [kind : {"user", "call", "result", "unknown", "text"}, ref : Nat, rev : Nat]
Call(n) == Message("call", n, 0)
ToolResults(n) == Message("result", n, 0)
Text == Message("text", 0, 0)
ToUserMessage(item) == Message("user", item.id, item.rev)
ToUserMessages(items) == [i \in DOMAIN items |-> ToUserMessage(items[i])]
IsAssistant(m) == m.kind \in {"call", "text"}
BatchesOf(msgs) == {m.ref : m \in {n \in Range(msgs) : n.kind = "call"}}

\* The user messages of msgs, in their order.
UserPositions(msgs) == {i \in DOMAIN msgs : msgs[i].kind = "user"}
UsersOf(msgs) ==
  [n \in 1..Cardinality(UserPositions(msgs)) |-> msgs[Nth(UserPositions(msgs), n)]]

Ids(items) == [i \in DOMAIN items |-> items[i].id]
IdSet(items) == {items[i].id : i \in DOMAIN items}

\* A committed turn: the inputs its TurnCommitted event consumed and its
\* messages.  Commits are the only moves of the active leaf here, so the
\* number of turns stands for active_leaf_id and for the branch length.
Turn(inputs, msgs) == [inputs |-> inputs, msgs |-> msgs]
Leaf == Len(history)

NoCheckpoint == [phase |-> "none", base |-> 0, turn |-> 0, inc |-> <<>>, msgs |-> <<>>]
NoPause == [target |-> 0, base |-> 0, turn |-> 0, kept |-> <<>>, msgs |-> <<>>]
IdleRun == [pc |-> "idle", who |-> 0, base |-> 0, inc |-> <<>>,
            initial |-> <<>>, msgs |-> <<>>, turn |-> 0, accepted |-> 0, target |-> 0]

Ready(pc) == run.pc = pc /\ run.target = 0

-----------------------------------------------------------------------------
(* The queue prefix a run incorporates *)

\* _remaining_injection_capacity
RemainingCapacity(inc) == MaxInjected - (Len(inc) - 1)

\* _claim_pending_suffix: up to limit inputs of queue q behind the prefix inc.
ClaimSuffix(q, inc, limit) ==
  SubSeq(q, Len(inc) + 1, IF Len(inc) + limit < Len(q) THEN Len(inc) + limit ELSE Len(q))

\* How many items, from the first on, fit the token limit.
LeadingFits(items) == Cardinality({n \in DOMAIN items : \A i \in 1..n : Fits(items[i])})

\* Faulty variant: injecting at the last model turn.
AcceptedAtLastTurn(turn, inc) ==
  LeadingFits(ClaimSuffix(pending, inc, RemainingCapacity(inc)))

\* _collect_injections and _collect_pending_injection before their await: how
\* many queued inputs the coming injection takes.  None without a next model
\* turn or capacity; the first oversized candidate closes the batch.
AcceptedCount(turn, inc) ==
  IF turn + 1 < MaxTurns /\ RemainingCapacity(inc) > 0
  THEN LeadingFits(ClaimSuffix(pending, inc, RemainingCapacity(inc))) ELSE 0

\* The Runner's loop: another provider request while turns remain.
LoopAt(turn) == IF turn < MaxTurns THEN "request" ELSE "limit"

-----------------------------------------------------------------------------
(* Suspension points *)

\* Awaits of the active run.  The token estimator and the stream handler may
\* return awaitables or plain values, so theirs suspend only if Events says so.
EstimatorAwaits == {"prepare", "inject", "injectFinal"}
HandlerAwaits == {"toolNotify", "injectNotify", "finalNotify"}
Interruptible ==
  {"request", "tools"}
    \cup (IF "estimator_awaits" \in Events THEN EstimatorAwaits ELSE {})
    \cup (IF "handler_awaits" \in Events THEN HandlerAwaits ELSE {})

\* Other tasks run only while the run is idle or suspended.
OthersMayRun == run.pc = "idle" \/ run.pc \in Interruptible

\* Awaits at which the Runner turns CancelledError into a cancelled result
\* that carries its working messages; elsewhere the error leaves the Runner.
CancelCaught == {"request", "tools", "inject", "injectFinal"}

\* The caller of run_next (0 for one that did not submit an input) is answered.
Answer(who, status) == IF who = 0 THEN reply ELSE [reply EXCEPT ![who] = status]

\* The run ends without touching the Session; pending inputs stay queued.
EndRun(status) ==
  /\ run' = IdleRun
  /\ reply' = Answer(run.who, status)

\* _delete_checkpoint_best_effort: a delete that fails, or a process that dies
\* before it, leaves the file.
DropCheckpoint ==
  \/ checkpoint' = NoCheckpoint
  \/ Events \cap {"checkpoint_error", "crash"} # {} /\ checkpoint' = checkpoint

-----------------------------------------------------------------------------
(* LOAD and PREPARE up to its first await, for caller who and queue q *)

\* No checkpoint, or one whose input is consumed or edited since: start afresh.
LoadFresh(who, q) ==
  /\ \/ checkpoint = NoCheckpoint /\ UNCHANGED checkpoint
     \/ /\ checkpoint # NoCheckpoint
        /\ \/ checkpoint.inc[1].id \notin IdSet(q)
           \/ checkpoint.inc[1].id = q[1].id /\ checkpoint.inc[1].rev # q[1].rev
        /\ DropCheckpoint
  /\ run' = [IdleRun EXCEPT !.pc = "prepare", !.who = who, !.base = Leaf, !.inc = <<q[1]>>]
  /\ reply' = Answer(who, "waiting")

\* _checkpoint_conflict and the max_turns test of _restore_checkpoint_inputs.
CheckpointFits(q) ==
  /\ ClaimSuffix(q, <<>>, Len(checkpoint.inc)) = checkpoint.inc
  /\ checkpoint.base = Leaf
  /\ UsersOf(checkpoint.msgs) = ToUserMessages(checkpoint.inc)
  /\ checkpoint.turn <= MaxTurns

\* Faulty variant: the interrupted batch is left open.
NoInterruptedResults == <<>>

\* _append_interrupted_tool_results
InterruptedResults ==
  IF checkpoint.phase = "awaiting_tools"
  THEN <<Message("unknown", Last(checkpoint.msgs).ref, 0)>> ELSE <<>>

\* _append_resumed_inputs: the queue behind the checkpoint's inputs, whatever
\* its items' sizes and however many model turns are left.
ResumedInputs(q) ==
  IF checkpoint.phase = "final_response" \/ RemainingCapacity(checkpoint.inc) <= 0
  THEN <<>> ELSE ClaimSuffix(q, checkpoint.inc, RemainingCapacity(checkpoint.inc))

\* Faulty variants: a final answer is asked for again; the turn budget restarts.
ResumeAtLoop == LoopAt(checkpoint.turn)
ResumeAtZero == 0

\* Where and at which turn a checkpoint is resumed.
ResumePoint ==
  IF checkpoint.phase = "final_response" THEN "save" ELSE LoopAt(checkpoint.turn)
ResumeTurn == checkpoint.turn

\* The head's checkpoint is resumed.  Its inputs count as seen, so PREPARE
\* estimates nothing and the run goes straight to RUN, or to SAVE when final.
LoadCheckpoint(who, q) ==
  /\ checkpoint # NoCheckpoint
  /\ checkpoint.inc[1] = q[1]
  /\ CheckpointFits(q)
  /\ LET claimed == ResumedInputs(q)
         msgs == checkpoint.msgs \o InterruptedResults \o ToUserMessages(claimed)
     IN run' = [IdleRun EXCEPT
                  !.pc = ResumePoint, !.who = who, !.base = checkpoint.base, !.inc = checkpoint.inc \o claimed,
                  !.initial = msgs, !.msgs = msgs, !.turn = ResumeTurn]
  /\ reply' = Answer(who, "waiting")
  /\ UNCHANGED checkpoint

\* A retained pause prefix is resumed: the kept inputs must still head the
\* queue; the revised target and what follows are claimed behind them.
LoadPaused(who, q) ==
  /\ ClaimSuffix(q, <<>>, Len(paused.kept)) = paused.kept
  /\ paused.base = Leaf
  /\ LET claimed == IF paused.kept = <<>> THEN ClaimSuffix(q, <<>>, 1)
                    ELSE IF RemainingCapacity(paused.kept) > 0
                         THEN ClaimSuffix(q, paused.kept, RemainingCapacity(paused.kept))
                         ELSE <<>>
     IN run' = [IdleRun EXCEPT !.pc = "prepare", !.who = who, !.base = paused.base,
                               !.inc = paused.kept \o claimed]
  /\ reply' = Answer(who, "waiting")
  /\ DropCheckpoint

\* CheckpointStore.load raises: the run fails, nothing is touched.
LoadFails(who) ==
  /\ "checkpoint_error" \in Events
  /\ reply' = Answer(who, "failed")
  /\ UNCHANGED <<run, checkpoint>>

Load(who, q) ==
  \/ /\ q = <<>>
     /\ reply' = Answer(who, "idle")
     /\ DropCheckpoint
     /\ UNCHANGED run
  \/ /\ q # <<>> /\ paused # NoPause
     /\ LoadPaused(who, q)
  \/ /\ q # <<>> /\ paused = NoPause
     /\ LoadFresh(who, q) \/ LoadCheckpoint(who, q) \/ LoadFails(who)

\* Faulty variants: the latch binds only callers without an input of their own;
\* an input that is not at the head counts as injected.
LatchForContinuations(who, q) ==
  CASE latch /\ who = 0 -> "paused"
    [] who # 0 /\ who \notin IdSet(q) -> "injected"
    [] OTHER -> "none"
InjectedUnlessHead(who, q) ==
  CASE latch -> "paused"
    [] ~latch /\ who # 0 /\ q # <<>> /\ who # q[1].id -> "injected"
    [] OTHER -> "none"

\* _run_short_circuit_result: the latch, or an input that an earlier run has
\* consumed, ends the call at once.
ShortCircuit(who, q) ==
  CASE latch -> "paused"
    [] ~latch /\ who # 0 /\ who \notin IdSet(q) -> "injected"
    [] OTHER -> "none"

\* run_next with the Session lock held.
Grant(who, q) ==
  \/ /\ ShortCircuit(who, q) # "none"
     /\ reply' = Answer(who, ShortCircuit(who, q))
     /\ UNCHANGED <<run, checkpoint>>
  \/ /\ ShortCircuit(who, q) = "none"
     /\ Load(who, q)

\* Faulty variant: the newest caller is served first.
JoinInFront(who) == <<who>> \o waiters

JoinWaiters(who) == Append(waiters, who)

\* asyncio.Lock: a caller that finds the lock free and nobody waiting takes it
\* without suspending; any other waits its turn.
Acquire(who, q) ==
  \/ /\ run.pc = "idle" /\ waiters = <<>>
     /\ Grant(who, q)
     /\ UNCHANGED waiters
  \/ /\ run.pc # "idle" \/ waiters # <<>>
     /\ Len(waiters) < MaxWaiting
     /\ waiters' = JoinWaiters(who)
     /\ reply' = Answer(who, "waiting")
     /\ UNCHANGED <<run, checkpoint>>

-----------------------------------------------------------------------------
(* Calls of the channel *)

NewItem(size) == Item(Len(asked) + 1, 1, size)

\* Session.enqueue of a message with a new source id.
Enqueue(size) ==
  /\ OthersMayRun
  /\ Len(asked) < MaxInputs
  /\ pending' = Append(pending, NewItem(size))
  /\ asked' = Append(asked, 1)

\* enqueue_input alone, as the CLI does while a run is active.
EnqueueInput(size) ==
  /\ Enqueue(size)
  /\ UNCHANGED <<history, checkpoint, waiters, run, latch, paused,
                 batches, ran, disclosed, requested, reply>>

\* submit: the input is durable before run_next asks for the lock.
Submit(size) ==
  /\ Enqueue(size)
  /\ Acquire(Len(asked) + 1, Append(pending, NewItem(size)))
  /\ UNCHANGED <<history, latch, paused, batches, ran, disclosed, requested>>

\* submit again for a source id still queued: the queue is unchanged and the
\* caller waits for the same input.
Resubmit(id) ==
  /\ OthersMayRun
  /\ id \in IdSet(pending)
  /\ reply[id] # "waiting"
  /\ Acquire(id, pending)
  /\ UNCHANGED <<pending, history, latch, paused,
                 asked, batches, ran, disclosed, requested>>

\* run_next without an input of its own (continuation, /retry).
RunNext ==
  /\ OthersMayRun
  /\ Acquire(0, pending)
  /\ UNCHANGED <<pending, history, latch, paused,
                 asked, batches, ran, disclosed, requested>>

\* The lock is released to the caller that has waited longest.
HandOff ==
  /\ run.pc = "idle" /\ waiters # <<>>
  /\ waiters' = Tail(waiters)
  /\ Grant(Head(waiters), pending)
  /\ UNCHANGED <<pending, history, latch, paused,
                 asked, batches, ran, disclosed, requested>>

-----------------------------------------------------------------------------
(* The active run: end of PREPARE, the Runner's loop, SAVE *)

\* Inputs PREPARE has not restored as already seen by the model.
UnseenInputs == SubSeq(run.inc, Len(paused.kept) + 1, Len(run.inc))

\* _enforce_prepare_input_limit; a retained pause prefix stays retained.
PrepareFails ==
  /\ Ready("prepare")
  /\ \E i \in DOMAIN UnseenInputs : ~Fits(UnseenInputs[i])
  /\ EndRun("failed")
  /\ UNCHANGED <<pending, history, checkpoint, waiters, latch, paused,
                 asked, batches, ran, disclosed, requested>>

\* _build_working_messages and _build_run_spec; the pause prefix is taken over.
\* Nothing replaces _paused_runs while its run prepares, so paused also stands
\* for context.paused_run; NoPause has no inputs, messages or turns to restore.
PrepareDone ==
  /\ Ready("prepare")
  /\ \A i \in DOMAIN UnseenInputs : Fits(UnseenInputs[i])
  /\ LET msgs == paused.msgs \o ToUserMessages(UnseenInputs)
     IN run' = [run EXCEPT !.pc = LoopAt(paused.turn), !.turn = paused.turn,
                           !.initial = msgs, !.msgs = msgs]
  /\ paused' = NoPause
  /\ UNCHANGED <<pending, history, checkpoint, waiters, latch,
                 asked, batches, ran, disclosed, requested, reply>>

\* What is left of the turn's inputs in a view that begins at start: those from
\* there on, the one the turn began with and the latest.
ShownInputs(msgs, start) ==
  LET users == UserPositions(msgs)
  IN {msgs[i] : i \in {j \in users : \/ j >= start
                                     \/ \A k \in users : j <= k
                                     \/ \A k \in users : k <= j}}

\* The provider has answered a request; an emergency snip may have cut its view.
Requested ==
  \E start \in DOMAIN run.msgs :
    /\ start = 1 \/ "snip" \in Events
    /\ requested' = requested \cup ShownInputs(run.msgs, start)

\* It raises or answers with finish_reason "error".
ProviderFails ==
  /\ Ready("request")
  /\ "provider_error" \in Events
  /\ Requested
  /\ EndRun("failed")
  /\ UNCHANGED <<pending, history, checkpoint, waiters, latch, paused,
                 asked, batches, ran, disclosed>>

\* It asks for tools: the stream segment is ended first.
ProviderCallsTools ==
  /\ Ready("request")
  /\ batches < MaxBatches
  /\ batches' = batches + 1
  /\ Requested
  /\ run' = [run EXCEPT !.pc = "toolNotify"]
  /\ UNCHANGED <<pending, history, checkpoint, waiters, latch, paused,
                 asked, ran, disclosed, reply>>

\* It answers without tools: a candidate response, unless inputs are injected.
ProviderAnswers ==
  /\ Ready("request")
  /\ Requested
  /\ run' = [run EXCEPT !.pc = "injectFinal", !.accepted = AcceptedCount(run.turn, run.inc)]
  /\ UNCHANGED <<pending, history, checkpoint, waiters, latch, paused,
                 asked, batches, ran, disclosed, reply>>

\* _checkpoint_identity_conflict, tested before every checkpoint and injection.
IdentityHolds ==
  /\ run.base = Leaf
  /\ run.inc # <<>>
  /\ ClaimSuffix(pending, <<>>, Len(run.inc)) = run.inc

NewCheckpoint(phase, turn, msgs) ==
  [phase |-> phase, base |-> run.base, turn |-> turn, inc |-> run.inc, msgs |-> msgs]

\* _persist_runner_checkpoint; after a failed save the old file or, when only
\* the directory sync failed, the new one is on disk, and the run fails.
SaveCheckpoint(phase, turn, msgs, onSuccess) ==
  /\ IdentityHolds
  /\ Ids(run.inc) = [i \in DOMAIN UsersOf(msgs) |-> UsersOf(msgs)[i].ref]
  /\ \/ /\ checkpoint' = NewCheckpoint(phase, turn, msgs)
        /\ run' = onSuccess
        /\ UNCHANGED reply
     \/ /\ "checkpoint_error" \in Events
        /\ checkpoint' \in {checkpoint, NewCheckpoint(phase, turn, msgs)}
        /\ EndRun("failed")

\* Faulty variant: the tools start whether or not the call was recorded.
StartAnyway == ran' = ran \cup {batches}

StartTools == ran' = IF run'.pc = "tools" THEN ran \cup {batches} ELSE ran

\* The tool call is recorded before its tools are started.
BeginTools ==
  /\ Ready("toolNotify")
  /\ LET msgs == Append(run.msgs, Call(batches))
     IN SaveCheckpoint("awaiting_tools", run.turn + 1, msgs,
                       [run EXCEPT !.pc = "tools", !.msgs = msgs])
  /\ StartTools
  /\ UNCHANGED <<pending, history, waiters, latch, paused,
                 asked, batches, disclosed, requested>>

ToolsDone ==
  /\ Ready("tools")
  /\ LET msgs == Append(run.msgs, ToolResults(Last(run.msgs).ref))
     IN SaveCheckpoint("tools_completed", run.turn + 1, msgs,
                       [run EXCEPT !.pc = "inject", !.msgs = msgs,
                                   !.accepted = AcceptedCount(run.turn, run.inc)])
  /\ UNCHANGED <<pending, history, waiters, latch, paused,
                 asked, batches, ran, disclosed, requested>>

\* AFTER_TOOLS: inputs accepted before the estimator's await are claimed now.
InjectAfterTools ==
  /\ Ready("inject")
  /\ LET claimed == ClaimSuffix(pending, run.inc, run.accepted)
     IN run' = [run EXCEPT !.pc = LoopAt(run.turn + 1), !.turn = @ + 1, !.accepted = 0,
                           !.inc = @ \o claimed, !.msgs = @ \o ToUserMessages(claimed)]
  /\ UNCHANGED <<pending, history, checkpoint, waiters, latch, paused,
                 asked, batches, ran, disclosed, requested, reply>>

\* AFTER_CANDIDATE_RESPONSE with inputs to inject: the candidate becomes an
\* intermediate answer and the loop goes on once the handler returns.
InjectAfterCandidate ==
  /\ Ready("injectFinal") /\ run.accepted > 0
  /\ LET claimed == ClaimSuffix(pending, run.inc, run.accepted)
     IN run' = [run EXCEPT !.pc = "injectNotify", !.accepted = 0, !.inc = @ \o claimed,
                           !.msgs = @ \o <<Text>> \o ToUserMessages(claimed)]
  /\ UNCHANGED <<pending, history, checkpoint, waiters, latch, paused,
                 asked, batches, ran, disclosed, requested, reply>>

ContinueLoop ==
  /\ Ready("injectNotify")
  /\ run' = [run EXCEPT !.pc = LoopAt(run.turn + 1), !.turn = @ + 1]
  /\ UNCHANGED <<pending, history, checkpoint, waiters, latch, paused,
                 asked, batches, ran, disclosed, requested, reply>>

\* The candidate is final, or the turns are used up: the closing answer is
\* checkpointed before the stream is ended.
Finish(pc, turn) ==
  /\ Ready(pc)
  /\ LET msgs == Append(run.msgs, Text)
     IN SaveCheckpoint("final_response", turn, msgs,
                       [run EXCEPT !.pc = "finalNotify", !.msgs = msgs])
  /\ UNCHANGED <<pending, history, waiters, latch, paused,
                 asked, batches, ran, disclosed, requested>>

FinishResponse == run.accepted = 0 /\ Finish("injectFinal", run.turn + 1)
CloseAtLimit == Finish("limit", MaxTurns)

\* The checks of commit_working_messages.  That SAVE only consumes inputs the
\* model has seen holds of every finished run: _result counts every user
\* message of the working messages as seen.
MayCommit ==
  /\ run.base = Leaf
  /\ run.inc # <<>>
  /\ Ids(ClaimSuffix(pending, <<>>, Len(run.inc))) = Ids(run.inc)
  /\ \A i \in DOMAIN run.inc :
       SelectSeq(UsersOf(run.msgs), LAMBDA m : m.ref = pending[i].id)
         = <<ToUserMessage(pending[i])>>

\* Faulty variant: the last consumed input stays queued.
KeepLastConsumed == SubSeq(pending, Len(run.inc), Len(pending))

\* del pending_inputs[:len(consumed_inputs)]
Remaining == SubSeq(pending, Len(run.inc) + 1, Len(pending))

Saving == Ready("finalNotify") \/ Ready("save")

Save ==
  /\ Saving
  /\ MayCommit
  /\ history' = Append(history, Turn(SubSeq(pending, 1, Len(run.inc)), run.msgs))
  /\ pending' = Remaining
  /\ DropCheckpoint
  /\ EndRun("answered")
  /\ UNCHANGED <<waiters, latch, paused,
                 asked, batches, ran, disclosed, requested>>

\* SessionStore.save raises: rollback_on_error restores the Session.
SaveFails ==
  /\ Saving
  /\ "session_error" \in Events
  /\ EndRun("error")
  /\ UNCHANGED <<pending, history, checkpoint, waiters, latch, paused,
                 asked, batches, ran, disclosed, requested>>

-----------------------------------------------------------------------------
(* Cancellation, pause and revision *)

\* The caller's task is cancelled while its run is suspended.
CancelRun ==
  /\ "cancel" \in Events
  /\ run.pc \in Interruptible /\ run.target = 0
  /\ EndRun("cancelled")
  /\ UNCHANGED <<pending, history, checkpoint, waiters, latch, paused,
                 asked, batches, ran, disclosed, requested>>

\* The caller's task is cancelled while it waits for the lock.
CancelWaiter(k) ==
  /\ "cancel" \in Events
  /\ OthersMayRun
  /\ waiters' = RemoveAt(waiters, k)
  /\ reply' = Answer(waiters[k], "cancelled")
  /\ UNCHANGED <<pending, history, checkpoint, run, latch, paused,
                 asked, batches, ran, disclosed, requested>>

\* pause_for_revision up to the latch.  While a pause prefix is retained,
\* _repeated_pause_result answers or refuses, and nothing changes.
MayPause(id) ==
  /\ "pause" \in Events
  /\ OthersMayRun
  /\ id \in IdSet(pending)
  /\ paused = NoPause

\* Faulty variant: the checkpoint survives the pause.
RetainCheckpoint(prefix) ==
  /\ paused' = prefix
  /\ UNCHANGED checkpoint

\* _delete_checkpoint_for_revision and the new _paused_runs entry; when the
\* delete raises, the latch is left without one.
RetainPrefix(prefix) ==
  \/ /\ checkpoint' = NoCheckpoint
     /\ paused' = prefix
  \/ /\ "checkpoint_error" \in Events
     /\ UNCHANGED <<checkpoint, paused>>

\* pause_for_revision without an active run: the committed history is the
\* prefix, and the result reports no discarded tool calls.
PauseInactive(id) ==
  /\ MayPause(id)
  /\ run.pc = "idle"
  /\ latch' = TRUE
  /\ RetainPrefix([NoPause EXCEPT !.target = id, !.base = Leaf])
  /\ UNCHANGED <<pending, history, waiters, run,
                 asked, batches, ran, disclosed, requested, reply>>

\* pause_for_revision with an active run: latch, then task.cancel().
PauseActive(id) ==
  /\ MayPause(id)
  /\ run.pc # "idle"
  /\ latch' = TRUE
  /\ run' = [run EXCEPT !.target = id]
  /\ UNCHANGED <<pending, history, checkpoint, waiters, paused,
                 asked, batches, ran, disclosed, requested, reply>>

\* Faulty variant: the Runner's result is ignored.
SourceInitial == run.initial

\* _pause_source: the Runner's messages if it turned the cancellation into a
\* result, else those it started from, else none behind the history.
PauseSource ==
  IF run.pc \in CancelCaught THEN run.msgs ELSE run.initial

\* Faulty variant: the target's own message is preserved.
PreservedThroughTarget(id) ==
  LET at == {i \in DOMAIN PauseSource : PauseSource[i].ref = id /\ PauseSource[i].kind = "user"}
  IN IF at = {} THEN PauseSource ELSE SubSeq(PauseSource, 1, Min(at))

\* _split_messages_at_input: everything before the target's user message.
PreservedMessages(id) ==
  LET at == {i \in DOMAIN PauseSource :
               PauseSource[i].kind = "user" /\ PauseSource[i].ref = id}
  IN IF at = {} THEN PauseSource ELSE SubSeq(PauseSource, 1, Min(at) - 1)

DiscardedMessages(id) ==
  SubSeq(PauseSource, Len(PreservedMessages(id)) + 1, Len(PauseSource))

\* _preserved_metadata: the inputs whose messages are preserved (the first ones
\* of the run, as a prefix of its messages is).
PreservedInputs(id) ==
  SubSeq(run.inc, 1, Cardinality({i \in DOMAIN run.inc :
                       ToUserMessage(run.inc[i]) \in Range(PreservedMessages(id))}))
\* Faulty variant: an answer that inputs were injected behind counts no model turn.
BatchesAsTurns(id) == Cardinality(BatchesOf(PreservedMessages(id)))

\* ... and one model turn per preserved AssistantMessage.
PreservedTurns(id) ==
  Cardinality({i \in DOMAIN PreservedMessages(id) : IsAssistant(PreservedMessages(id)[i])})

\* The cancelled run ends: _capture_paused_run.  _discarded_tool_effects lists
\* the discarded batches.
CapturePausedRun ==
  /\ run.target # 0
  /\ LET id == run.target
         prefix == [target |-> id, base |-> run.base, turn |-> PreservedTurns(id),
                    kept |-> PreservedInputs(id), msgs |-> PreservedMessages(id)]
     IN /\ RetainPrefix(prefix)
        /\ disclosed' = IF paused' = prefix
                        THEN disclosed \cup BatchesOf(DiscardedMessages(id)) ELSE disclosed
        /\ EndRun(IF paused' = prefix THEN "paused" ELSE "error")
  /\ UNCHANGED <<pending, history, waiters, latch, asked, batches, ran, requested>>

\* revise_paused_input of the selected target.
Revise(size) ==
  /\ OthersMayRun
  /\ latch /\ paused # NoPause
  /\ asked[paused.target] < MaxRevision
  /\ asked' = [asked EXCEPT ![paused.target] = @ + 1]
  /\ pending' = [k \in DOMAIN pending |->
                   IF pending[k].id = paused.target
                   THEN Item(paused.target, pending[k].rev + 1, size) ELSE pending[k]]
  /\ UNCHANGED <<history, checkpoint, waiters, run, latch, paused,
                 batches, ran, disclosed, requested, reply>>

\* run_next as called by restart_pending, after the latch is gone.
RestartRun ==
  \/ /\ run.pc = "idle" /\ waiters = <<>>
     /\ Load(0, pending)
     /\ UNCHANGED waiters
  \/ /\ run.pc # "idle" \/ waiters # <<>>
     /\ Len(waiters) < MaxWaiting
     /\ waiters' = JoinWaiters(0)
     /\ UNCHANGED <<run, checkpoint, reply>>

RestartPending ==
  /\ OthersMayRun
  /\ latch
  /\ latch' = FALSE
  /\ RestartRun
  /\ UNCHANGED <<pending, history, paused,
                 asked, batches, ran, disclosed, requested>>

-----------------------------------------------------------------------------
(* Clearing the Session; process crash *)

\* /clear with nothing running: discard_paused_run, SessionStore.delete and
\* CheckpointStore.delete, the last of which may not happen.
Clear ==
  /\ "clear" \in Events
  /\ run.pc = "idle" /\ waiters = <<>>
  /\ latch' = FALSE /\ paused' = NoPause
  /\ pending' = <<>> /\ history' = <<>>
  /\ DropCheckpoint
  /\ ran' = {}
  /\ UNCHANGED <<waiters, run, asked, batches, disclosed, requested, reply>>

Crash ==
  /\ "crash" \in Events
  /\ waiters' = <<>> /\ run' = IdleRun
  /\ latch' = FALSE /\ paused' = NoPause
  /\ reply' = [i \in DOMAIN reply |-> IF reply[i] = "waiting" THEN "lost" ELSE reply[i]]
  /\ UNCHANGED <<durable, asked, batches, ran, disclosed, requested>>

-----------------------------------------------------------------------------
(* Specification *)

Init ==
  /\ pending = <<>> /\ history = <<>> /\ checkpoint = NoCheckpoint
  /\ waiters = <<>> /\ run = IdleRun /\ latch = FALSE /\ paused = NoPause
  /\ asked = <<>> /\ batches = 0 /\ ran = {} /\ disclosed = {} /\ requested = {}
  /\ reply = [i \in 1..MaxInputs |-> "none"]

RunStep ==
  \/ PrepareFails \/ PrepareDone
  \/ ProviderFails \/ ProviderCallsTools \/ ProviderAnswers
  \/ BeginTools \/ ToolsDone \/ InjectAfterTools
  \/ InjectAfterCandidate \/ ContinueLoop \/ FinishResponse \/ CloseAtLimit
  \/ Save \/ SaveFails
  \/ CapturePausedRun

ChannelCall ==
  \/ \E size \in Sizes : EnqueueInput(size) \/ Submit(size) \/ Revise(size)
  \/ \E id \in 1..MaxInputs : Resubmit(id) \/ PauseInactive(id) \/ PauseActive(id)
  \/ \E k \in DOMAIN waiters : CancelWaiter(k)
  \/ RunNext \/ RestartPending \/ CancelRun \/ Clear

Next == RunStep \/ HandOff \/ ChannelCall \/ Crash

\* The event loop runs ready tasks; the provider, tools, stream handler and
\* token estimator answer in the end (with a result or an error).
Fairness == WF_vars(RunStep) /\ WF_vars(HandOff)

Spec == Init /\ [][Next]_vars
FairSpec == Spec /\ Fairness

-----------------------------------------------------------------------------
(* Type invariant *)

InputIds == 0..MaxInputs
Turns == [inputs : Seq(Items), msgs : Seq(Messages)]
Checkpoints ==
  [phase : {"none", "awaiting_tools", "tools_completed", "final_response"},
   base : Nat, turn : Nat, inc : Seq(Items), msgs : Seq(Messages)]
Runs ==
  [pc : {"idle", "limit", "save"} \cup CancelCaught \cup EstimatorAwaits \cup HandlerAwaits,
   who : InputIds, base : Nat, inc : Seq(Items), initial : Seq(Messages),
   msgs : Seq(Messages), turn : Nat, accepted : Nat, target : InputIds]
Pauses ==
  [target : InputIds, base : Nat, turn : Nat, kept : Seq(Items), msgs : Seq(Messages)]
Statuses == {"none", "waiting", "answered", "idle", "failed", "error",
             "cancelled", "injected", "paused", "lost"}
Replies == [1..MaxInputs -> Statuses]

TypeOK ==
  /\ pending \in Seq(Items) /\ history \in Seq(Turns) /\ checkpoint \in Checkpoints
  /\ waiters \in Seq(InputIds) /\ run \in Runs /\ latch \in BOOLEAN /\ paused \in Pauses
  /\ asked \in Seq(Nat \ {0}) /\ Len(asked) <= MaxInputs
  /\ batches \in 0..MaxBatches /\ ran \subseteq Nat /\ disclosed \subseteq Nat
  /\ requested \subseteq Messages /\ reply \in Replies

-----------------------------------------------------------------------------
(* Safety *)

\* The conflict checks before checkpoints, injections and the commit
\* (_checkpoint_identity_conflict, _claim_pending_suffix, the leaf and prefix
\* checks of commit_working_messages) never refuse the active run: under any
\* interleaving of submits, pauses, edits and restarts it starts from the
\* current leaf and holds the queue's prefix at its current revisions.
RunHoldsPrefix == run.pc # "idle" => IdentityHolds

\* A checkpoint file never wedges its Session: whenever LOAD finds one, it
\* belongs to an input consumed or edited since, and is dropped, or it heads
\* the queue and passes every validity check, and is resumed; the conflict
\* failures of _load and _prepare do not occur.
CheckpointUsable ==
  checkpoint # NoCheckpoint /\ pending # <<>> =>
    LET primary == checkpoint.inc[1] IN
    \/ primary.id \notin IdSet(pending)
    \/ primary.id = pending[1].id /\ (primary.rev = pending[1].rev => CheckpointFits(pending))

\* What a pause retains can be resumed after any edit of its target: the kept
\* inputs still head the queue at the revisions the kept messages show, the
\* target is queued behind them, and the leaf has not moved
\* (_restore_paused_inputs and _validate_prepare_session never raise).
PausedPrefixHolds ==
  paused # NoPause =>
    /\ ClaimSuffix(pending, <<>>, Len(paused.kept)) = paused.kept
    /\ UsersOf(paused.msgs) = ToUserMessages(paused.kept)
    /\ paused.target \in IdSet(pending) \ IdSet(paused.kept)
    /\ paused.base = Leaf
    /\ paused.turn <= MaxTurns

\* While the latch is set over a retained prefix no run is active, whoever was
\* waiting for the lock when the run was cancelled.
LatchStopsRuns == latch /\ paused # NoPause => run.pc = "idle"

\* A turn only consumes inputs that some provider request has held, at the
\* revision that is committed (README: SAVE only consumes inputs that entered
\* a provider request at least once).
ConsumedWasRequested ==
  \A t \in DOMAIN history : Range(UsersOf(history[t].msgs)) \subseteq requested

\* What is left of that promise when several inputs are injected together and a
\* request has to cut the conversation of its turn: the input a turn began with and
\* the latest one it consumed have each been in a request (the snip anchors both).
EndsWereRequested ==
  \A t \in DOMAIN history :
    LET msgs == history[t].msgs
        users == UserPositions(msgs)
    IN \A i \in users :
         (\A j \in users : i <= j) \/ (\A j \in users : j <= i) => msgs[i] \in requested

\* One logical run has one budget, however often it is injected into, crashes and is
\* resumed, or is paused, cut and restarted: it asks the model once for every answer
\* its working messages hold, and takes no more inputs than max_injected_inputs_per_run.
BudgetShared ==
  /\ run.pc = "request" =>
       run.turn = Cardinality({i \in DOMAIN run.msgs : IsAssistant(run.msgs[i])})
  /\ run.pc # "idle" => Len(run.inc) <= MaxInjected + 1

\* Committed history never holds a tool call without its results: each call is
\* directly followed by the results of its batch or by synthesised ones.
NoOpenToolBatch ==
  \A t \in DOMAIN history :
    LET msgs == history[t].msgs IN
    \A i \in DOMAIN msgs : msgs[i].kind = "call" =>
      /\ i < Len(msgs)
      /\ msgs[i + 1].kind \in {"result", "unknown"} /\ msgs[i + 1].ref = msgs[i].ref

\* A tool batch that was started is never forgotten: it is in the history, the
\* checkpoint, the working messages or the retained prefix, or a pause result
\* listed it as discarded.
EffectsAccounted ==
  ran \subseteq (UNION {BatchesOf(history[t].msgs) : t \in DOMAIN history})
                 \cup BatchesOf(checkpoint.msgs) \cup BatchesOf(run.msgs)
                 \cup BatchesOf(paused.msgs) \cup disclosed

\* A submit() answered "injected" had its input committed by another run.
InjectedWasCommitted ==
  \A id \in DOMAIN reply :
    reply[id] = "injected" => \E t \in DOMAIN history : id \in IdSet(history[t].inputs)

-----------------------------------------------------------------------------
(* Action properties *)

\* Checkpoints of one input only grow, whatever crashed in between: a later one
\* extends the messages of the earlier one, never gives model turns back, and
\* counts one more for a batch the earlier one did not have.
CheckpointsGrow ==
  [][ (/\ checkpoint # NoCheckpoint /\ checkpoint' # NoCheckpoint
       /\ checkpoint.inc[1] = checkpoint'.inc[1])
        => (/\ IsPrefix(checkpoint.msgs, checkpoint'.msgs)
            /\ checkpoint.turn <= checkpoint'.turn
            /\ BatchesOf(checkpoint.msgs) # BatchesOf(checkpoint'.msgs)
                 => checkpoint.turn < checkpoint'.turn) ]_vars

\* Once a final answer is checkpointed the model is not asked again: the file
\* goes away only when exactly these messages are committed.
FinalAnswerCommitted ==
  [][ (/\ checkpoint.phase = "final_response"
       /\ IdSet(checkpoint.inc) \subseteq IdSet(pending)
       /\ checkpoint' # checkpoint)
        => (/\ Len(history') = Len(history) + 1
            /\ Last(history').msgs = checkpoint.msgs) ]_vars

-----------------------------------------------------------------------------
(* Refinement and liveness *)

\* The ledger a state stands for: ids are numbers in the order of acceptance,
\* so what is not queued has been consumed (or cleared).
Consumed == Len(asked) - Len(pending)
Entries(items) == [j \in DOMAIN items |-> [id |-> items[j].id, rev |-> items[j].rev]]
ConsumedTurns == [t \in DOMAIN history |-> Entries(history[t].inputs)]

Ledger == INSTANCE InputLedger WITH consumed <- Consumed, turns <- ConsumedTurns

\* The Session consumes every accepted input exactly once, in order and at the
\* revision last confirmed, across concurrent submits, injections, pauses,
\* failures and crashes: it implements InputLedger.
ImplementsLedger == Ledger!LedgerSpec

\* Every submit() returns: the lock is handed on and each run ends.
SubmitReturns ==
  \A id \in 1..MaxInputs : reply[id] = "waiting" ~> reply[id] # "waiting"
=============================================================================
