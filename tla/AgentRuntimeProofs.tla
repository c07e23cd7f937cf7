------------------------- MODULE AgentRuntimeProofs -------------------------
(***************************************************************************)
(* Proofs about AgentRuntime for every value of its constants: its type    *)
(* invariant, that the active run always holds the prefix of the queue it  *)
(* was started with, that a paused Session runs nothing, that the Session  *)
(* implements InputLedger; and what it keeps of a run: the messages of its *)
(* turns, of its checkpoint and of the history, the tool batches that were *)
(* started, and the inputs that were committed.                            *)
(***************************************************************************)
EXTENDS AgentRuntime, NumberLemmas, SequenceTheorems, FiniteSetTheorems, TLAPS

-----------------------------------------------------------------------------
(* Numbers, sequences and the helpers of the model *)

\* Min picks the least member.
LEMMA MinOfNumbers ==
  ASSUME NEW S \in SUBSET Nat, S # {}
  PROVE  Min(S) \in S
BY LeastNumber DEF Min

LEMMA PrefixType ==
  ASSUME NEW S, NEW s \in Seq(S), NEW n \in 0..Len(s)
  PROVE  SubSeq(s, 1, n) \in Seq(S) /\ Len(SubSeq(s, 1, n)) = n
BY SubSeqProperties, LenProperties

\* What ClaimSuffix returns: items of the queue, in the order of the queue.
LEMMA ClaimSuffixType ==
  ASSUME NEW S, NEW q \in Seq(S), NEW inc \in Seq(S), NEW limit \in Int
  PROVE  ClaimSuffix(q, inc, limit) \in Seq(S)
BY SubSeqProperties, LenProperties, ElementOfSeq DEF ClaimSuffix

LEMMA ToUserMessagesType ==
  ASSUME NEW items \in Seq(Items)
  PROVE  ToUserMessages(items) \in Seq(Messages)
<1>1. \A item \in Items : ToUserMessage(item) \in Messages
  BY DEF Items, Messages, ToUserMessage, Message
<1>2. Len(items) \in Nat /\ DOMAIN items = 1..Len(items) /\ \A i \in 1..Len(items) : items[i] \in Items
  BY LenProperties, ElementOfSeq
<1> DEFINE e(i) == ToUserMessage(items[i])
<1>3. \A i \in 1..Len(items) : e(i) \in Messages
  BY <1>1, <1>2
<1> HIDE DEF e
<1>4. [i \in 1..Len(items) |-> e(i)] \in Seq(Messages)
  BY <1>2, <1>3, IsASeq
<1> QED BY <1>2, <1>4 DEF e, ToUserMessages

\* The number of inputs an injection takes is a natural number.
LEMMA AcceptedCountType ==
  ASSUME RuntimeAssumption, pending \in Seq(Items), NEW inc \in Seq(Items), NEW turn \in Nat
  PROVE  AcceptedCount(turn, inc) \in Nat
<1>1. RemainingCapacity(inc) \in Int
  BY LenProperties DEF RuntimeAssumption, RemainingCapacity
<1>2. ClaimSuffix(pending, inc, RemainingCapacity(inc)) \in Seq(Items)
  BY <1>1, ClaimSuffixType
<1>3. ASSUME NEW items \in Seq(Items) PROVE LeadingFits(items) \in Nat
  <2>1. Len(items) \in Nat /\ DOMAIN items = 1..Len(items)
    BY LenProperties
  <2> QED BY <2>1, PositionCount DEF LeadingFits
<1> QED BY <1>2, <1>3 DEF AcceptedCount

-----------------------------------------------------------------------------
(* Types of the parts steps are made of *)

LEMMA ConstantTypes ==
  ASSUME RuntimeAssumption
  PROVE  IdleRun \in Runs /\ NoPause \in Pauses /\ NoCheckpoint \in Checkpoints
<1>1. <<>> \in Seq(Items) /\ <<>> \in Seq(Messages)
  BY EmptySeq
<1>2. 0 \in InputIds
  BY DEF RuntimeAssumption, InputIds
<1> QED
  BY <1>1, <1>2 DEF IdleRun, Runs, NoPause, Pauses, NoCheckpoint, Checkpoints

LEMMA AnswerType ==
  ASSUME reply \in Replies, NEW who, NEW status \in Statuses
  PROVE  Answer(who, status) \in Replies
BY DEF Answer, Replies

LEMMA EndRunType ==
  ASSUME RuntimeAssumption, TypeOK, NEW status \in Statuses, EndRun(status)
  PROVE  run' \in Runs /\ reply' \in Replies
BY ConstantTypes, AnswerType DEF EndRun, TypeOK

LEMMA DropCheckpointType ==
  ASSUME RuntimeAssumption, TypeOK, DropCheckpoint
  PROVE  checkpoint' \in Checkpoints /\ checkpoint' \in {NoCheckpoint, checkpoint}
BY ConstantTypes DEF DropCheckpoint, TypeOK

LEMMA SaveCheckpointType ==
  ASSUME RuntimeAssumption, TypeOK,
         NEW phase \in {"awaiting_tools", "tools_completed", "final_response"},
         NEW turn \in Nat, NEW msgs \in Seq(Messages), NEW onSuccess \in Runs,
         SaveCheckpoint(phase, turn, msgs, onSuccess)
  PROVE  checkpoint' \in Checkpoints /\ run' \in Runs /\ reply' \in Replies
<1>1. NewCheckpoint(phase, turn, msgs) \in Checkpoints
  BY DEF NewCheckpoint, Checkpoints, TypeOK, Runs
<1>2. CASE checkpoint' = NewCheckpoint(phase, turn, msgs) /\ run' = onSuccess /\ UNCHANGED reply
  BY <1>1, <1>2 DEF TypeOK
<1>3. CASE /\ checkpoint' \in {checkpoint, NewCheckpoint(phase, turn, msgs)}
           /\ EndRun("failed")
  BY <1>1, <1>3, EndRunType DEF TypeOK, Statuses
<1> QED BY <1>2, <1>3 DEF SaveCheckpoint

\* A record of the tool call is present wherever its results are appended.
CallRecorded ==
  /\ run.pc = "tools" => run.msgs # <<>>
  /\ checkpoint.phase = "awaiting_tools" => checkpoint.msgs # <<>>

\* Last of a non-empty sequence of messages is a message.
LEMMA LastMessage ==
  ASSUME NEW msgs \in Seq(Messages), msgs # <<>>
  PROVE  Last(msgs) \in Messages /\ Last(msgs).ref \in Nat
<1>1. Len(msgs) \in Nat /\ Len(msgs) > 0
  BY EmptySeq, LenProperties
<1>2. msgs[Len(msgs)] \in Messages
  BY <1>1, ElementOfSeq
<1> QED BY <1>2 DEF Last, Messages

LEMMA ResumedTypes ==
  ASSUME RuntimeAssumption, TypeOK, CallRecorded, NEW q \in Seq(Items)
  PROVE  InterruptedResults \in Seq(Messages) /\ ResumedInputs(q) \in Seq(Items)
<1>1. checkpoint.inc \in Seq(Items) /\ checkpoint.msgs \in Seq(Messages)
  BY DEF TypeOK, Checkpoints
<1>2. InterruptedResults \in Seq(Messages)
  <2>1. CASE checkpoint.phase = "awaiting_tools"
    <3>1. Message("unknown", Last(checkpoint.msgs).ref, 0) \in Messages
      BY <1>1, <2>1, LastMessage DEF CallRecorded, Message, Messages
    <3> QED BY <2>1, <3>1 DEF InterruptedResults
  <2>2. CASE checkpoint.phase # "awaiting_tools"
    BY <2>2, EmptySeq DEF InterruptedResults
  <2> QED BY <2>1, <2>2
<1>3. RemainingCapacity(checkpoint.inc) \in Int
  BY <1>1, LenProperties DEF RemainingCapacity, RuntimeAssumption
<1>4. ResumedInputs(q) \in Seq(Items)
  BY <1>1, <1>3, ClaimSuffixType, EmptySeq DEF ResumedInputs
<1> QED BY <1>2, <1>4

LEMMA LoadFreshType ==
  ASSUME RuntimeAssumption, TypeOK, NEW who \in InputIds, NEW q \in Seq(Items), q # <<>>,
         LoadFresh(who, q)
  PROVE  run' \in Runs /\ run'.pc = "prepare" /\ reply' \in Replies /\ checkpoint' \in Checkpoints
<1>1. Leaf \in Nat
  BY LenProperties DEF TypeOK, Leaf
<1>2. q[1] \in Items /\ <<q[1]>> \in Seq(Items)
  BY EmptySeq, LenProperties, ElementOfSeq
<1>3. [IdleRun EXCEPT !.pc = "prepare", !.who = who, !.base = Leaf, !.inc = <<q[1]>>] \in Runs
  BY <1>1, <1>2, ConstantTypes DEF Runs, EstimatorAwaits
<1>4. reply' \in Replies
  BY AnswerType DEF LoadFresh, TypeOK, Statuses
<1>5. checkpoint' \in Checkpoints
  BY DropCheckpointType DEF LoadFresh, TypeOK
<1>6. run'.pc = "prepare"
  BY DEF LoadFresh, IdleRun
<1> QED BY <1>3, <1>4, <1>5, <1>6 DEF LoadFresh

LEMMA LoadCheckpointType ==
  ASSUME RuntimeAssumption, TypeOK, CallRecorded, NEW who \in InputIds, NEW q \in Seq(Items),
         LoadCheckpoint(who, q)
  PROVE  run' \in Runs /\ run'.pc \in {"save", "request", "limit"}
         /\ reply' \in Replies /\ checkpoint' = checkpoint
<1> DEFINE claimed == ResumedInputs(q)
           msgs == checkpoint.msgs \o InterruptedResults \o ToUserMessages(claimed)
<1>1. claimed \in Seq(Items) /\ msgs \in Seq(Messages) /\ checkpoint.inc \o claimed \in Seq(Items)
  BY ResumedTypes, ToUserMessagesType, ConcatProperties DEF TypeOK, Checkpoints
<1>2. ResumePoint \in {"save", "request", "limit"}
  BY DEF ResumePoint, LoopAt
<1>3. checkpoint.base \in Nat /\ ResumeTurn \in Nat
  BY DEF TypeOK, Checkpoints, ResumeTurn
<1> HIDE DEF claimed, msgs
<1>4. [IdleRun EXCEPT !.pc = ResumePoint, !.who = who, !.base = checkpoint.base,
                      !.inc = checkpoint.inc \o claimed,
                      !.initial = msgs, !.msgs = msgs, !.turn = ResumeTurn] \in Runs
  BY <1>1, <1>2, <1>3, ConstantTypes DEF Runs, CancelCaught
<1>5. reply' \in Replies
  BY AnswerType DEF LoadCheckpoint, TypeOK, Statuses
<1> QED BY <1>2, <1>4, <1>5 DEF LoadCheckpoint, claimed, msgs, IdleRun

LEMMA LoadPausedType ==
  ASSUME RuntimeAssumption, TypeOK, NEW who \in InputIds, NEW q \in Seq(Items),
         LoadPaused(who, q)
  PROVE  run' \in Runs /\ run'.pc = "prepare" /\ reply' \in Replies /\ checkpoint' \in Checkpoints
<1> DEFINE claimed == IF paused.kept = <<>> THEN ClaimSuffix(q, <<>>, 1)
                      ELSE IF RemainingCapacity(paused.kept) > 0
                           THEN ClaimSuffix(q, paused.kept, RemainingCapacity(paused.kept))
                           ELSE <<>>
<1>1. paused.kept \in Seq(Items) /\ paused.base \in Nat /\ RemainingCapacity(paused.kept) \in Int
  BY LenProperties DEF TypeOK, Pauses, RemainingCapacity, RuntimeAssumption
<1>2. claimed \in Seq(Items)
  <2>1. <<>> \in Seq(Items) /\ 1 \in Int
    BY EmptySeq
  <2>2. ClaimSuffix(q, <<>>, 1) \in Seq(Items)
    BY <2>1, ClaimSuffixType, Zenon
  <2>3. ClaimSuffix(q, paused.kept, RemainingCapacity(paused.kept)) \in Seq(Items)
    BY <1>1, ClaimSuffixType
  <2> QED BY <2>1, <2>2, <2>3
<1>3. paused.kept \o claimed \in Seq(Items)
  BY <1>1, <1>2, ConcatProperties
<1> HIDE DEF claimed
<1>4. [IdleRun EXCEPT !.pc = "prepare", !.who = who, !.base = paused.base,
                      !.inc = paused.kept \o claimed] \in Runs
  BY <1>1, <1>3, ConstantTypes DEF Runs, EstimatorAwaits
<1>5. reply' \in Replies
  BY AnswerType DEF LoadPaused, TypeOK, Statuses
<1>6. checkpoint' \in Checkpoints
  BY DropCheckpointType DEF LoadPaused
<1> QED BY <1>4, <1>5, <1>6 DEF LoadPaused, claimed, IdleRun

\* run_next with the lock leaves the state well typed and starts no tools.
LEMMA GrantType ==
  ASSUME RuntimeAssumption, TypeOK, CallRecorded, NEW who \in InputIds, NEW q \in Seq(Items),
         Grant(who, q) \/ Load(who, q)
  PROVE  /\ run' \in Runs /\ (run' = run \/ run'.pc # "tools")
         /\ reply' \in Replies
         /\ checkpoint' \in Checkpoints /\ checkpoint' \in {NoCheckpoint, checkpoint}
<1>1. CASE Load(who, q)
  <2>1. CASE q = <<>> /\ reply' = Answer(who, "idle") /\ DropCheckpoint /\ UNCHANGED run
    BY <2>1, DropCheckpointType, AnswerType DEF TypeOK, Statuses
  <2>2. CASE q # <<>> /\ LoadPaused(who, q)
    BY <2>2, LoadPausedType, DropCheckpointType DEF LoadPaused
  <2>3. CASE q # <<>> /\ LoadFresh(who, q)
    BY <2>3, LoadFreshType, DropCheckpointType DEF LoadFresh
  <2>4. CASE q # <<>> /\ LoadCheckpoint(who, q)
    BY <2>4, LoadCheckpointType DEF TypeOK
  <2>5. CASE LoadFails(who)
    BY <2>5, AnswerType DEF LoadFails, TypeOK, Statuses
  <2> QED BY <1>1, <2>1, <2>2, <2>3, <2>4, <2>5 DEF Load
<1>2. CASE reply' = Answer(who, ShortCircuit(who, q)) /\ UNCHANGED <<run, checkpoint>>
  <2>1. ShortCircuit(who, q) \in Statuses
    BY DEF ShortCircuit, Statuses, TypeOK
  <2> QED BY <1>2, <2>1, AnswerType DEF TypeOK
<1> QED BY <1>1, <1>2 DEF Grant

\* The same for a caller that may have to wait for the lock.
LEMMA AcquireType ==
  ASSUME RuntimeAssumption, TypeOK, CallRecorded, NEW who \in InputIds, NEW q \in Seq(Items),
         Acquire(who, q)
  PROVE  /\ run' \in Runs /\ (run' = run \/ run'.pc # "tools")
         /\ reply' \in Replies
         /\ checkpoint' \in Checkpoints /\ checkpoint' \in {NoCheckpoint, checkpoint}
         /\ waiters' \in Seq(InputIds)
<1>1. CASE Grant(who, q) /\ UNCHANGED waiters
  BY <1>1, GrantType DEF TypeOK
<1>2. CASE waiters' = JoinWaiters(who) /\ reply' = Answer(who, "waiting") /\ UNCHANGED <<run, checkpoint>>
  <2>1. waiters' \in Seq(InputIds)
    BY <1>2, AppendProperties DEF JoinWaiters, TypeOK
  <2> QED BY <1>2, <2>1, AnswerType DEF TypeOK, Statuses
<1> QED BY <1>1, <1>2 DEF Acquire

-----------------------------------------------------------------------------
(* Type correctness *)

TypeInv == TypeOK /\ CallRecorded

LEMMA RunFields ==
  ASSUME TypeOK
  PROVE  /\ run.inc \in Seq(Items) /\ run.msgs \in Seq(Messages) /\ run.initial \in Seq(Messages)
         /\ run.turn \in Nat /\ run.accepted \in Nat /\ run.base \in Nat
         /\ run.who \in InputIds /\ run.target \in InputIds
BY DEF TypeOK, Runs

\* The steps of the active run up to its closing answer.
LEMMA RunStepType ==
  ASSUME RuntimeAssumption, TypeInv,
         \/ PrepareFails \/ PrepareDone \/ ProviderFails \/ ProviderCallsTools \/ ProviderAnswers
         \/ InjectAfterTools \/ InjectAfterCandidate \/ ContinueLoop
  PROVE  TypeInv'
<1> USE DEF TypeInv
<1>a. ASSUME Requested PROVE requested' \subseteq Messages
  <2>1. \A i \in UserPositions(run.msgs) : run.msgs[i] \in Messages
    BY RunFields, ElementOfSeq, LenProperties DEF UserPositions
  <2>2. \A start : ShownInputs(run.msgs, start) \subseteq Messages
    BY <2>1 DEF ShownInputs
  <2> QED BY <1>a, <2>2 DEF Requested, TypeOK
<1>b. ASSUME NEW turn \in Nat PROVE LoopAt(turn) \in {"request", "limit"}
  BY DEF LoopAt
<1>1. CASE PrepareFails
  BY <1>1, EndRunType DEF PrepareFails, TypeOK, CallRecorded, Statuses, EndRun, IdleRun
<1>2. CASE PrepareDone
  <2> DEFINE msgs == paused.msgs \o ToUserMessages(UnseenInputs)
  <2>1. paused.msgs \in Seq(Messages) /\ paused.kept \in Seq(Items) /\ paused.turn \in Nat
    BY DEF TypeOK, Pauses
  <2>2. UnseenInputs \in Seq(Items)
    BY <2>1, RunFields, SubSeqProperties, LenProperties, ElementOfSeq DEF UnseenInputs
  <2>3. msgs \in Seq(Messages)
    BY <2>1, <2>2, ToUserMessagesType, ConcatProperties
  <2> HIDE DEF msgs
  <2>4. [run EXCEPT !.pc = LoopAt(paused.turn), !.turn = paused.turn,
                    !.initial = msgs, !.msgs = msgs] \in Runs
    BY <2>1, <2>3, <1>b DEF TypeOK, Runs, CancelCaught
  <2>5. run'.pc # "tools"
    BY <1>2, <2>1, <1>b DEF PrepareDone, TypeOK, Runs
  <2>6. run' \in Runs
    BY <1>2, <2>4 DEF PrepareDone, msgs
  <2> QED BY <1>2, <2>5, <2>6, ConstantTypes DEF PrepareDone, TypeOK, CallRecorded
<1>3. CASE ProviderFails
  BY <1>3, <1>a, EndRunType DEF ProviderFails, TypeOK, CallRecorded, Statuses, EndRun, IdleRun
<1>4. CASE ProviderCallsTools
  <2>1. run' \in Runs /\ run'.pc # "tools"
    BY <1>4 DEF ProviderCallsTools, TypeOK, Runs, HandlerAwaits
  <2>2. batches' \in 0..MaxBatches
    BY <1>4 DEF ProviderCallsTools, TypeOK, RuntimeAssumption
  <2> QED BY <1>4, <1>a, <2>1, <2>2 DEF ProviderCallsTools, TypeOK, CallRecorded
<1>5. CASE ProviderAnswers
  <2>1. AcceptedCount(run.turn, run.inc) \in Nat
    BY RunFields, AcceptedCountType DEF TypeOK
  <2>2. run' \in Runs /\ run'.pc # "tools"
    BY <1>5, <2>1 DEF ProviderAnswers, TypeOK, Runs, CancelCaught
  <2> QED BY <1>5, <1>a, <2>2 DEF ProviderAnswers, TypeOK, CallRecorded
<1>c. ASSUME NEW claimed, claimed = ClaimSuffix(pending, run.inc, run.accepted)
      PROVE  claimed \in Seq(Items) /\ run.inc \o claimed \in Seq(Items)
             /\ run.msgs \o ToUserMessages(claimed) \in Seq(Messages)
             /\ (run.msgs \o <<Text>>) \o ToUserMessages(claimed) \in Seq(Messages)
  <2>1. claimed \in Seq(Items)
    <3>1. pending \in Seq(Items) /\ run.inc \in Seq(Items) /\ run.accepted \in Int
      BY RunFields DEF TypeOK
    <3> QED BY <1>c, <3>1, ClaimSuffixType
  <2>2. <<Text>> \in Seq(Messages)
    BY EmptySeq DEF Text, Message, Messages
  <2> QED BY <2>1, <2>2, RunFields, ToUserMessagesType, ConcatProperties
<1>6. CASE InjectAfterTools
  <2> DEFINE claimed == ClaimSuffix(pending, run.inc, run.accepted)
  <2>1. LoopAt(run.turn + 1) \in {"request", "limit"}
    BY RunFields, <1>b
  <2>2. run.inc \o claimed \in Seq(Items) /\ run.msgs \o ToUserMessages(claimed) \in Seq(Messages)
    BY <1>c
  <2> HIDE DEF claimed
  <2>3. run' = [run EXCEPT !.pc = LoopAt(run.turn + 1), !.turn = @ + 1, !.accepted = 0,
                  !.inc = @ \o claimed, !.msgs = @ \o ToUserMessages(claimed)]
    BY <1>6 DEF InjectAfterTools, claimed
  <2>4. run.turn + 1 \in Nat /\ run \in Runs
    BY RunFields DEF TypeOK
  <2>5. run' \in Runs /\ run'.pc # "tools"
    BY <2>1, <2>2, <2>3, <2>4 DEF Runs, CancelCaught
  <2> QED BY <1>6, <2>5 DEF InjectAfterTools, TypeOK, CallRecorded
<1>7. CASE InjectAfterCandidate
  <2> DEFINE claimed == ClaimSuffix(pending, run.inc, run.accepted)
  <2>1. run.inc \o claimed \in Seq(Items) /\ (run.msgs \o <<Text>>) \o ToUserMessages(claimed) \in Seq(Messages)
    BY <1>c
  <2> HIDE DEF claimed
  <2>2. run' = [run EXCEPT !.pc = "injectNotify", !.accepted = 0, !.inc = @ \o claimed,
                  !.msgs = @ \o <<Text>> \o ToUserMessages(claimed)]
    BY <1>7 DEF InjectAfterCandidate, claimed
  <2>3. run' \in Runs /\ run'.pc # "tools"
    BY <2>1, <2>2 DEF TypeOK, Runs, HandlerAwaits
  <2> QED BY <1>7, <2>3 DEF InjectAfterCandidate, TypeOK, CallRecorded
<1>8. CASE ContinueLoop
  <2>1. LoopAt(run.turn + 1) \in {"request", "limit"}
    BY RunFields, <1>b
  <2>2. run.turn + 1 \in Nat /\ run \in Runs
    BY RunFields DEF TypeOK
  <2>3. run' = [run EXCEPT !.pc = LoopAt(run.turn + 1), !.turn = run.turn + 1]
    BY <1>8 DEF ContinueLoop
  <2>4. run' \in Runs /\ run'.pc # "tools"
    BY <2>1, <2>2, <2>3 DEF Runs, CancelCaught
  <2> QED BY <1>8, <2>4 DEF ContinueLoop, TypeOK, CallRecorded
<1> QED BY <1>1, <1>2, <1>3, <1>4, <1>5, <1>6, <1>7, <1>8

\* The steps that write a checkpoint.
LEMMA CheckpointStepType ==
  ASSUME RuntimeAssumption, TypeInv,
         BeginTools \/ ToolsDone \/ FinishResponse \/ CloseAtLimit
  PROVE  TypeInv'
<1> USE DEF TypeInv
<1>a. ASSUME NEW m \in Messages
      PROVE  Append(run.msgs, m) \in Seq(Messages) /\ Append(run.msgs, m) # <<>>
  BY RunFields, AppendProperties, EmptySeq, LenProperties
<1>b. run.turn + 1 \in Nat /\ run \in Runs /\ MaxTurns \in Nat /\ batches \in Nat
  BY RunFields DEF TypeOK, RuntimeAssumption
<1>1. CASE BeginTools
  <2> DEFINE msgs == Append(run.msgs, Call(batches))
             onSuccess == [run EXCEPT !.pc = "tools", !.msgs = msgs]
  <2>1. msgs \in Seq(Messages) /\ msgs # <<>>
    <3>1. Call(batches) \in Messages
      BY <1>b DEF Call, Message, Messages
    <3> QED BY <3>1, <1>a
  <2>2. SaveCheckpoint("awaiting_tools", run.turn + 1, msgs, onSuccess)
    BY <1>1 DEF BeginTools
  <2> HIDE DEF msgs
  <2>3. onSuccess \in Runs /\ onSuccess.msgs = msgs
    BY <1>b, <2>1 DEF Runs, CancelCaught
  <2> HIDE DEF onSuccess
  <2>4. checkpoint' \in Checkpoints /\ run' \in Runs /\ reply' \in Replies
    BY <1>b, <2>1, <2>2, <2>3, SaveCheckpointType
  <2>5. CallRecorded'
    BY <2>1, <2>2, <2>3 DEF SaveCheckpoint, NewCheckpoint, EndRun, IdleRun, CallRecorded
  <2>6. ran' \subseteq Nat
    BY <1>1, <1>b DEF BeginTools, StartTools, TypeOK
  <2> QED BY <1>1, <2>4, <2>5, <2>6 DEF BeginTools, TypeOK
<1>2. CASE ToolsDone
  <2> DEFINE msgs == Append(run.msgs, ToolResults(Last(run.msgs).ref))
             accepted == AcceptedCount(run.turn, run.inc)
             onSuccess == [run EXCEPT !.pc = "inject", !.msgs = msgs, !.accepted = accepted]
  <2>1. msgs \in Seq(Messages) /\ msgs # <<>>
    <3>1. Last(run.msgs).ref \in Nat
      BY <1>2, RunFields, LastMessage DEF ToolsDone, Ready, CallRecorded
    <3>2. ToolResults(Last(run.msgs).ref) \in Messages
      BY <3>1 DEF ToolResults, Message, Messages
    <3> QED BY <3>2, <1>a
  <2>2. accepted \in Nat
    BY RunFields, AcceptedCountType DEF TypeOK
  <2>3. SaveCheckpoint("tools_completed", run.turn + 1, msgs, onSuccess)
    BY <1>2 DEF ToolsDone
  <2> HIDE DEF msgs, accepted
  <2>4. onSuccess \in Runs /\ onSuccess.pc = "inject"
    BY <1>b, <2>1, <2>2 DEF Runs, CancelCaught
  <2> HIDE DEF onSuccess
  <2>5. checkpoint' \in Checkpoints /\ run' \in Runs /\ reply' \in Replies
    BY <1>b, <2>1, <2>3, <2>4, SaveCheckpointType
  <2>6. CallRecorded'
    BY <2>1, <2>3, <2>4 DEF SaveCheckpoint, NewCheckpoint, EndRun, IdleRun, CallRecorded
  <2> QED BY <1>2, <2>5, <2>6 DEF ToolsDone, TypeOK
<1>3. ASSUME NEW pc, NEW turn \in Nat, Finish(pc, turn)
      PROVE  TypeInv'
  <2> DEFINE msgs == Append(run.msgs, Text)
             onSuccess == [run EXCEPT !.pc = "finalNotify", !.msgs = msgs]
  <2>1. msgs \in Seq(Messages) /\ msgs # <<>>
    <3>1. Text \in Messages
      BY DEF Text, Message, Messages
    <3> QED BY <3>1, <1>a
  <2>2. SaveCheckpoint("final_response", turn, msgs, onSuccess)
    BY <1>3 DEF Finish
  <2> HIDE DEF msgs
  <2>3. onSuccess \in Runs /\ onSuccess.pc = "finalNotify"
    BY <1>b, <2>1 DEF Runs, HandlerAwaits
  <2> HIDE DEF onSuccess
  <2>4. checkpoint' \in Checkpoints /\ run' \in Runs /\ reply' \in Replies
    BY <2>1, <2>2, <2>3, SaveCheckpointType
  <2>5. CallRecorded'
    BY <2>1, <2>2, <2>3 DEF SaveCheckpoint, NewCheckpoint, EndRun, IdleRun, CallRecorded
  <2> QED BY <1>3, <2>4, <2>5 DEF Finish, TypeOK
<1> QED BY <1>1, <1>2, <1>3, <1>b DEF FinishResponse, CloseAtLimit

\* SAVE, cancellation, pause, revision, clear and crash.
LEMMA SessionStepType ==
  ASSUME RuntimeAssumption, TypeInv,
         \/ Save \/ SaveFails \/ CancelRun \/ Clear \/ Crash
         \/ \E k \in DOMAIN waiters : CancelWaiter(k)
         \/ \E size \in Sizes : Revise(size)
  PROVE  TypeInv'
<1> USE DEF TypeInv
<1>a. <<>> \in Seq(Items) /\ <<>> \in Seq(Turns) /\ <<>> \in Seq(InputIds)
  BY EmptySeq
<1>b. Len(run.inc) \in Nat /\ Len(pending) \in Nat
  BY RunFields, LenProperties DEF TypeOK
<1>1. CASE Save
  <2>1. SubSeq(pending, 1, Len(run.inc)) \in Seq(Items)
    <3>1. Len(run.inc) <= Len(pending)
      <4>1. DOMAIN ClaimSuffix(pending, <<>>, Len(run.inc)) = DOMAIN run.inc
        BY <1>1 DEF Save, MayCommit, Ids
      <4>2. ClaimSuffix(pending, <<>>, Len(run.inc)) = SubSeq(pending, 1, IF Len(run.inc) < Len(pending) THEN Len(run.inc) ELSE Len(pending))
        BY <1>b DEF ClaimSuffix
      <4>3. DOMAIN ClaimSuffix(pending, <<>>, Len(run.inc)) = 1..(IF Len(run.inc) < Len(pending) THEN Len(run.inc) ELSE Len(pending))
        BY <4>2, <1>b, PrefixType, LenProperties DEF TypeOK
      <4>4. DOMAIN run.inc = 1..Len(run.inc)
        BY RunFields, LenProperties
      <4> QED BY <4>1, <4>3, <4>4, <1>b
    <3> QED BY <3>1, <1>b, PrefixType DEF TypeOK
  <2>2. Turn(SubSeq(pending, 1, Len(run.inc)), run.msgs) \in Turns
    BY <2>1, RunFields DEF Turn, Turns
  <2>3. history' \in Seq(Turns)
    BY <1>1, <2>2, AppendProperties DEF Save, TypeOK
  <2>4. pending' \in Seq(Items)
    BY <1>1, <1>b, SubSeqProperties, ElementOfSeq DEF Save, Remaining, TypeOK
  <2>5. checkpoint' \in Checkpoints /\ checkpoint' \in {NoCheckpoint, checkpoint}
    BY <1>1, DropCheckpointType DEF Save
  <2>6. run' \in Runs /\ run'.pc = "idle" /\ reply' \in Replies
    BY <1>1, EndRunType DEF Save, EndRun, IdleRun, Statuses
  <2>7. CallRecorded'
    BY <2>5, <2>6 DEF CallRecorded, NoCheckpoint
  <2> QED BY <1>1, <2>3, <2>4, <2>5, <2>6, <2>7 DEF Save, TypeOK
<1>2. CASE SaveFails
  BY <1>2, EndRunType DEF SaveFails, TypeOK, CallRecorded, Statuses, EndRun, IdleRun
<1>3. CASE CancelRun
  BY <1>3, EndRunType DEF CancelRun, TypeOK, CallRecorded, Statuses, EndRun, IdleRun
<1>4. CASE Clear
  <2>1. checkpoint' \in Checkpoints /\ checkpoint' \in {NoCheckpoint, checkpoint}
    BY <1>4, DropCheckpointType DEF Clear
  <2>2. CallRecorded'
    BY <1>4, <2>1 DEF Clear, CallRecorded, NoCheckpoint
  <2> QED BY <1>4, <1>a, <2>1, <2>2, ConstantTypes DEF Clear, TypeOK
<1>5. CASE Crash
  <2>1. reply' \in Replies
    BY <1>5 DEF Crash, TypeOK, Replies, Statuses
  <2>2. CallRecorded'
    BY <1>5 DEF Crash, durable, CallRecorded, IdleRun
  <2> QED BY <1>5, <1>a, <2>1, <2>2, ConstantTypes DEF Crash, durable, TypeOK
<1>6. ASSUME NEW k \in DOMAIN waiters, CancelWaiter(k) PROVE TypeInv'
  <2>1. k \in 1..Len(waiters) /\ Len(waiters) \in Nat
    BY LenProperties DEF TypeOK
  <2>2. waiters' \in Seq(InputIds)
    <3>1. SubSeq(waiters, 1, k - 1) \in Seq(InputIds)
      BY <2>1, SubSeqProperties, ElementOfSeq DEF TypeOK
    <3>2. SubSeq(waiters, k + 1, Len(waiters)) \in Seq(InputIds)
      BY <2>1, SubSeqProperties, ElementOfSeq DEF TypeOK
    <3> QED BY <1>6, <3>1, <3>2, ConcatProperties DEF CancelWaiter, RemoveAt
  <2>3. reply' \in Replies
    BY <1>6, AnswerType DEF CancelWaiter, TypeOK, Statuses
  <2> QED BY <1>6, <2>2, <2>3 DEF CancelWaiter, TypeOK, CallRecorded
<1>7. ASSUME NEW size \in Sizes, Revise(size) PROVE TypeInv'
  <2>1. asked' \in Seq(Nat \ {0}) /\ Len(asked') = Len(asked)
    <3>1. asked \in Seq(Nat \ {0}) /\ Len(asked) \in Nat /\ DOMAIN asked = 1..Len(asked)
      BY LenProperties DEF TypeOK
    <3>2. asked' = [i \in 1..Len(asked) |-> IF i = paused.target THEN asked[i] + 1 ELSE asked[i]]
      BY <1>7, <3>1 DEF Revise
    <3>3. \A i \in 1..Len(asked) : asked[i] \in Nat \ {0}
      BY <3>1, ElementOfSeq
    <3> DEFINE e(i) == IF i = paused.target THEN asked[i] + 1 ELSE asked[i]
    <3>4. \A i \in 1..Len(asked) : e(i) \in Nat \ {0}
      BY <3>3
    <3>5. asked' = [i \in 1..Len(asked) |-> e(i)]
      BY <3>2
    <3> HIDE DEF e
    <3>6. [i \in 1..Len(asked) |-> e(i)] \in Seq(Nat \ {0})
      BY <3>1, <3>4, IsASeq
    <3>7. Len(asked') = Len(asked)
      BY <3>1, <3>5, <3>6, LenProperties
    <3> QED BY <3>5, <3>6, <3>7
  <2>2. pending' \in Seq(Items)
    <3> DEFINE e(k) == IF pending[k].id = paused.target
                       THEN Item(paused.target, pending[k].rev + 1, size) ELSE pending[k]
    <3>1. \A k \in 1..Len(pending) : pending[k] \in Items
      BY ElementOfSeq DEF TypeOK
    <3>2. size \in {"small", "big"}
      BY DEF RuntimeAssumption
    <3>3. \A k \in 1..Len(pending) : e(k) \in Items
      BY <3>1, <3>2 DEF Items, Item
    <3>4. pending' = [k \in 1..Len(pending) |-> e(k)]
      BY <1>7, LenProperties DEF Revise, TypeOK
    <3> HIDE DEF e
    <3> QED BY <1>b, <3>3, <3>4, IsASeq
  <2> QED BY <1>7, <2>1, <2>2 DEF Revise, TypeOK, CallRecorded
<1> QED BY <1>1, <1>2, <1>3, <1>4, <1>5, <1>6, <1>7

\* The messages a pause preserves, and what is counted of them.
LEMMA PreservedTypes ==
  ASSUME TypeOK, NEW id
  PROVE  /\ PreservedMessages(id) \in Seq(Messages)
         /\ PreservedInputs(id) \in Seq(Items)
         /\ PreservedTurns(id) \in Nat
         /\ BatchesOf(DiscardedMessages(id)) \subseteq Nat
<1>1. PauseSource \in Seq(Messages) /\ Len(PauseSource) \in Nat
  BY RunFields, LenProperties DEF PauseSource
<1> DEFINE at == {i \in DOMAIN PauseSource :
                    PauseSource[i].kind = "user" /\ PauseSource[i].ref = id}
<1>2. PreservedMessages(id) \in Seq(Messages)
  <2>1. CASE at = {}
    BY <1>1, <2>1 DEF PreservedMessages
  <2>2. CASE at # {}
    <3>1. at \in SUBSET Nat /\ at \subseteq 1..Len(PauseSource)
      BY <1>1, LenProperties
    <3>2. Min(at) \in 1..Len(PauseSource)
      BY <2>2, <3>1, MinOfNumbers
    <3>3. Min(at) - 1 \in 0..Len(PauseSource)
      BY <1>1, <3>2
    <3>4. SubSeq(PauseSource, 1, Min(at) - 1) \in Seq(Messages)
      BY <1>1, <3>3, PrefixType
    <3> QED BY <2>2, <3>4 DEF PreservedMessages
  <2> QED BY <2>1, <2>2
<1>3. Len(PreservedMessages(id)) \in Nat
      /\ DOMAIN PreservedMessages(id) = 1..Len(PreservedMessages(id))
  BY <1>2, LenProperties
<1>4. PreservedTurns(id) \in Nat
  BY <1>3, PositionCount DEF PreservedTurns
<1>5. PreservedInputs(id) \in Seq(Items)
  <2> DEFINE T == {i \in DOMAIN run.inc :
                     ToUserMessage(run.inc[i]) \in Range(PreservedMessages(id))}
  <2>1. run.inc \in Seq(Items) /\ Len(run.inc) \in Nat /\ T \in SUBSET (1..Len(run.inc))
    BY RunFields, LenProperties
  <2>2. Cardinality(T) \in 0..Len(run.inc)
    BY <2>1, PositionCount
  <2> QED BY <2>1, <2>2, PrefixType DEF PreservedInputs
<1>6. DiscardedMessages(id) \in Seq(Messages)
  BY <1>1, <1>3, SubSeqProperties, ElementOfSeq DEF DiscardedMessages
<1>7. \A m \in Range(DiscardedMessages(id)) : m.ref \in Nat
  <2> DEFINE msgs == DiscardedMessages(id)
  <2>1. msgs \in Seq(Messages) /\ DOMAIN msgs = 1..Len(msgs)
    BY <1>6, LenProperties
  <2>2. \A i \in DOMAIN msgs : msgs[i] \in Messages
    BY <2>1, ElementOfSeq
  <2>3. \A m \in Messages : m.ref \in Nat
    BY DEF Messages
  <2> HIDE DEF msgs
  <2>4. \A m \in Range(msgs) : m.ref \in Nat
    BY <2>2, <2>3 DEF Range
  <2> QED BY <2>4 DEF msgs
<1>8. BatchesOf(DiscardedMessages(id)) \subseteq Nat
  BY <1>7 DEF BatchesOf
<1> QED BY <1>2, <1>4, <1>5, <1>8

LEMMA PauseStepType ==
  ASSUME RuntimeAssumption, TypeInv,
         \/ \E id \in 1..MaxInputs : PauseInactive(id) \/ PauseActive(id)
         \/ CapturePausedRun
  PROVE  TypeInv'
<1> USE DEF TypeInv
<1>a. ASSUME NEW prefix \in Pauses, RetainPrefix(prefix)
      PROVE  /\ checkpoint' \in Checkpoints /\ checkpoint' \in {NoCheckpoint, checkpoint}
             /\ paused' \in Pauses
  BY <1>a, ConstantTypes DEF RetainPrefix, TypeOK
<1>1. ASSUME NEW id \in 1..MaxInputs, PauseInactive(id) PROVE TypeInv'
  <2>1. [NoPause EXCEPT !.target = id, !.base = Leaf] \in Pauses
    <3>1. Leaf \in Nat /\ id \in InputIds
      BY LenProperties DEF TypeOK, Leaf, InputIds, RuntimeAssumption
    <3> QED BY <3>1, ConstantTypes DEF Pauses
  <2>2. RetainPrefix([NoPause EXCEPT !.target = id, !.base = Leaf])
    BY <1>1 DEF PauseInactive
  <2>3. /\ checkpoint' \in Checkpoints /\ checkpoint' \in {NoCheckpoint, checkpoint}
        /\ paused' \in Pauses
    BY <2>1, <2>2, <1>a
  <2>4. CallRecorded'
    <3>1. UNCHANGED run
      BY <1>1 DEF PauseInactive
    <3> QED BY <2>3, <3>1 DEF CallRecorded, NoCheckpoint
  <2> QED BY <1>1, <2>3, <2>4 DEF PauseInactive, TypeOK
<1>2. ASSUME NEW id \in 1..MaxInputs, PauseActive(id) PROVE TypeInv'
  <2>1. id \in InputIds
    BY DEF InputIds, RuntimeAssumption
  <2>2. run' \in Runs /\ run'.pc = run.pc /\ run'.msgs = run.msgs
    BY <1>2, <2>1 DEF PauseActive, TypeOK, Runs
  <2> QED BY <1>2, <2>2 DEF PauseActive, TypeOK, CallRecorded
<1>3. CASE CapturePausedRun
  <2> DEFINE id == run.target
             prefix == [target |-> id, base |-> run.base, turn |-> PreservedTurns(id),
                        kept |-> PreservedInputs(id), msgs |-> PreservedMessages(id)]
  <2>1. prefix \in Pauses
    BY RunFields, PreservedTypes DEF Pauses
  <2>2. RetainPrefix(prefix)
    BY <1>3 DEF CapturePausedRun
  <2> HIDE DEF prefix
  <2>3. /\ checkpoint' \in Checkpoints /\ checkpoint' \in {NoCheckpoint, checkpoint}
        /\ paused' \in Pauses
    BY <2>1, <2>2, <1>a
  <2>4. disclosed' \subseteq Nat
    BY <1>3, PreservedTypes DEF CapturePausedRun, TypeOK
  <2>5. run' \in Runs /\ run'.pc = "idle" /\ reply' \in Replies
    <3>1. PICK status \in {"paused", "error"} : EndRun(status)
      BY <1>3 DEF CapturePausedRun
    <3> QED BY <3>1, EndRunType DEF EndRun, IdleRun, Statuses
  <2>6. CallRecorded'
    BY <2>3, <2>5 DEF CallRecorded, NoCheckpoint
  <2> QED BY <1>3, <2>3, <2>4, <2>5, <2>6 DEF CapturePausedRun, TypeOK
<1> QED BY <1>1, <1>2, <1>3

\* Accepting an input and asking for the lock.
LEMMA CallStepType ==
  ASSUME RuntimeAssumption, TypeInv,
         \/ \E size \in Sizes : EnqueueInput(size) \/ Submit(size)
         \/ \E id \in 1..MaxInputs : Resubmit(id)
         \/ RunNext \/ HandOff \/ RestartPending
  PROVE  TypeInv'
<1> USE DEF TypeInv
<1>a. 0 \in InputIds /\ 1..MaxInputs \subseteq InputIds /\ pending \in Seq(Items)
  BY DEF InputIds, RuntimeAssumption, TypeOK
<1>b. ASSUME run' \in Runs, run' = run \/ run'.pc # "tools",
             checkpoint' \in {NoCheckpoint, checkpoint}
      PROVE  CallRecorded'
  BY <1>b DEF CallRecorded, NoCheckpoint
<1>c. ASSUME NEW size \in Sizes, Enqueue(size)
      PROVE  /\ Append(pending, NewItem(size)) \in Seq(Items) /\ pending' \in Seq(Items)
             /\ asked' \in Seq(Nat \ {0}) /\ Len(asked') <= MaxInputs
             /\ Len(asked) + 1 \in InputIds
  <2>1. Len(asked) \in Nat /\ size \in {"small", "big"} /\ Len(asked) < MaxInputs
    BY <1>c, LenProperties DEF TypeOK, RuntimeAssumption, Enqueue
  <2>2. NewItem(size) \in Items
    BY <2>1 DEF NewItem, Item, Items
  <2>3. Append(pending, NewItem(size)) \in Seq(Items)
    BY <1>a, <2>2, AppendProperties
  <2>4. asked' \in Seq(Nat \ {0}) /\ Len(asked') = Len(asked) + 1
    BY <1>c, AppendProperties DEF Enqueue, TypeOK
  <2> QED BY <1>c, <2>1, <2>3, <2>4 DEF Enqueue, InputIds, RuntimeAssumption
<1>1. ASSUME NEW size \in Sizes, EnqueueInput(size) PROVE TypeInv'
  BY <1>1, <1>c DEF EnqueueInput, TypeOK, CallRecorded
<1>2. ASSUME NEW size \in Sizes, Submit(size) PROVE TypeInv'
  <2>1. Acquire(Len(asked) + 1, Append(pending, NewItem(size)))
    BY <1>2 DEF Submit
  <2>2. /\ run' \in Runs /\ (run' = run \/ run'.pc # "tools") /\ reply' \in Replies
        /\ checkpoint' \in Checkpoints /\ checkpoint' \in {NoCheckpoint, checkpoint}
        /\ waiters' \in Seq(InputIds)
    BY <1>2, <1>c, <2>1, AcquireType DEF Submit
  <2> QED BY <1>2, <1>b, <1>c, <2>2 DEF Submit, TypeOK
<1>3. ASSUME NEW id \in 1..MaxInputs, Resubmit(id) PROVE TypeInv'
  <2>1. /\ run' \in Runs /\ (run' = run \/ run'.pc # "tools") /\ reply' \in Replies
        /\ checkpoint' \in Checkpoints /\ checkpoint' \in {NoCheckpoint, checkpoint}
        /\ waiters' \in Seq(InputIds)
    BY <1>3, <1>a, AcquireType DEF Resubmit
  <2> QED BY <1>3, <1>b, <2>1 DEF Resubmit, TypeOK
<1>4. CASE RunNext
  <2>1. /\ run' \in Runs /\ (run' = run \/ run'.pc # "tools") /\ reply' \in Replies
        /\ checkpoint' \in Checkpoints /\ checkpoint' \in {NoCheckpoint, checkpoint}
        /\ waiters' \in Seq(InputIds)
    BY <1>4, <1>a, AcquireType DEF RunNext
  <2> QED BY <1>4, <1>b, <2>1 DEF RunNext, TypeOK
<1>5. CASE HandOff
  <2>1. Head(waiters) \in InputIds /\ Tail(waiters) \in Seq(InputIds)
    BY <1>5, HeadTailProperties DEF HandOff, TypeOK
  <2>2. /\ run' \in Runs /\ (run' = run \/ run'.pc # "tools") /\ reply' \in Replies
        /\ checkpoint' \in Checkpoints /\ checkpoint' \in {NoCheckpoint, checkpoint}
    BY <1>5, <1>a, <2>1, GrantType DEF HandOff
  <2> QED BY <1>5, <1>b, <2>1, <2>2 DEF HandOff, TypeOK
<1>6. CASE RestartPending
  <2>1. /\ run' \in Runs /\ (run' = run \/ run'.pc # "tools") /\ reply' \in Replies
        /\ checkpoint' \in Checkpoints /\ checkpoint' \in {NoCheckpoint, checkpoint}
        /\ waiters' \in Seq(InputIds)
    <3>1. CASE Load(0, pending) /\ UNCHANGED waiters
      BY <3>1, <1>a, GrantType DEF TypeOK
    <3>2. CASE waiters' = JoinWaiters(0) /\ UNCHANGED <<run, checkpoint, reply>>
      BY <3>2, <1>a, AppendProperties DEF JoinWaiters, TypeOK
    <3> QED BY <1>6, <3>1, <3>2 DEF RestartPending, RestartRun
  <2> QED BY <1>6, <1>b, <2>1 DEF RestartPending, TypeOK
<1> QED BY <1>1, <1>2, <1>3, <1>4, <1>5, <1>6

LEMMA TypeInit ==
  ASSUME RuntimeAssumption, Init
  PROVE  TypeInv
<1>1. <<>> \in Seq(Items) /\ <<>> \in Seq(Turns) /\ <<>> \in Seq(InputIds)
      /\ <<>> \in Seq(Nat \ {0}) /\ Len(<<>>) = 0
  BY EmptySeq
<1>2. reply \in Replies
  BY DEF Init, Replies, Statuses
<1>3. CallRecorded
  BY DEF Init, CallRecorded, IdleRun, NoCheckpoint
<1>4. 0 \in 0..MaxBatches /\ Len(asked) <= MaxInputs
  BY <1>1 DEF Init, RuntimeAssumption
<1>5. TypeOK
  BY <1>1, <1>2, <1>4, ConstantTypes DEF Init, TypeOK
<1> QED BY <1>3, <1>5 DEF TypeInv

LEMMA TypeStep ==
  ASSUME RuntimeAssumption, TypeInv, [Next]_vars
  PROVE  TypeInv'
<1>1. CASE UNCHANGED vars
  BY <1>1 DEF vars, TypeInv, TypeOK, CallRecorded
<1>2. CASE RunStep
  BY <1>2, RunStepType, CheckpointStepType, SessionStepType, PauseStepType DEF RunStep
<1>3. CASE ChannelCall
  BY <1>3, SessionStepType, PauseStepType, CallStepType DEF ChannelCall
<1>4. CASE HandOff \/ Crash
  BY <1>4, SessionStepType, CallStepType
<1> QED BY <1>1, <1>2, <1>3, <1>4 DEF Next

LEMMA TypeInvariant == Spec => []TypeInv
BY RuntimeAssumption, TypeInit, TypeStep, PTL DEF Spec

\* Every reachable state is well typed: the fields of the Session, the
\* checkpoint, the run, the retained prefix and the replies stay within their
\* types under every handler of AgentRuntime and AgentRunner.
THEOREM TypeCorrect == Spec => []TypeOK
<1>1. TypeInv => TypeOK
  BY DEF TypeInv
<1> QED BY <1>1, TypeInvariant, PTL

-----------------------------------------------------------------------------
(* The active run holds the prefix of the queue *)

IsHead(inc, q) == Len(inc) <= Len(q) /\ \A i \in 1..Len(inc) : q[i] = inc[i]

\* The prefix comparison of the conflict checks, element by element.
LEMMA PrefixMeans ==
  ASSUME NEW S, NEW q \in Seq(S), NEW inc \in Seq(S)
  PROVE  ClaimSuffix(q, <<>>, Len(inc)) = inc <=> IsHead(inc, q)
<1> DEFINE n == IF Len(inc) < Len(q) THEN Len(inc) ELSE Len(q)
<1>1. Len(q) \in Nat /\ Len(inc) \in Nat /\ n \in 0..Len(q)
  BY LenProperties
<1>2. ClaimSuffix(q, <<>>, Len(inc)) = SubSeq(q, 1, n)
  BY <1>1 DEF ClaimSuffix
<1>3. SubSeq(q, 1, n) \in Seq(S) /\ Len(SubSeq(q, 1, n)) = n
  BY <1>1, PrefixType
<1>4. \A i \in 1..n : SubSeq(q, 1, n)[i] = q[i]
  BY <1>1, SubSeqProperties, ElementOfSeq
<1>5. ASSUME SubSeq(q, 1, n) = inc PROVE IsHead(inc, q)
  BY <1>1, <1>3, <1>4, <1>5 DEF IsHead
<1>6. ASSUME IsHead(inc, q) PROVE SubSeq(q, 1, n) = inc
  <2>1. n = Len(inc)
    BY <1>1, <1>6 DEF IsHead
  <2>2. \A i \in 1..Len(inc) : SubSeq(q, 1, n)[i] = inc[i]
    BY <1>4, <1>6, <2>1 DEF IsHead
  <2> QED BY <1>1, <1>3, <2>1, <2>2, SeqEqual
<1> QED BY <1>2, <1>5, <1>6

\* Claiming behind a prefix of the queue gives a longer prefix of it.
LEMMA ClaimExtends ==
  ASSUME NEW S, NEW q \in Seq(S), NEW inc \in Seq(S), NEW limit \in Nat, IsHead(inc, q)
  PROVE  IsHead(inc \o ClaimSuffix(q, inc, limit), q)
<1> DEFINE a == Len(inc)
           b == IF Len(inc) + limit < Len(q) THEN Len(inc) + limit ELSE Len(q)
           claimed == SubSeq(q, a + 1, b)
<1>1. Len(q) \in Nat /\ a \in Nat /\ b \in Nat /\ a <= b /\ b <= Len(q)
  BY LenProperties DEF IsHead
<1>2. \A i \in (a + 1)..b : q[i] \in S
  BY <1>1, ElementOfSeq
<1>3. /\ claimed \in Seq(S) /\ Len(claimed) = b - a
      /\ \A i \in 1..(b - a) : claimed[i] = q[a + i]
  <2>1. /\ claimed \in Seq(S) /\ Len(claimed) = IF a + 1 <= b THEN b - (a + 1) + 1 ELSE 0
        /\ \A i \in 1..(b - (a + 1) + 1) : claimed[i] = q[(a + 1) + i - 1]
    BY <1>1, <1>2, SubSeqProperties
  <2> QED BY <1>1, <2>1
<1> HIDE DEF claimed
<1>4. /\ Len(inc \o claimed) = b
      /\ \A i \in 1..b : (inc \o claimed)[i] = IF i <= a THEN inc[i] ELSE claimed[i - a]
  BY <1>1, <1>3, ConcatProperties
<1>5. \A i \in 1..b : q[i] = (inc \o claimed)[i]
  <2> TAKE i \in 1..b
  <2>1. CASE i <= a
    BY <1>1, <1>4, <2>1 DEF IsHead
  <2>2. CASE i > a
    <3>1. i - a \in 1..(b - a) /\ a + (i - a) = i
      BY <1>1, <2>2
    <3> QED BY <1>1, <1>3, <1>4, <2>2, <3>1
  <2>3. i <= a \/ i > a
    <3>1. i \in Nat /\ a \in Nat
      BY <1>1
    <3> QED BY <3>1
  <2> QED BY <2>1, <2>2, <2>3
<1> QED BY <1>1, <1>4, <1>5 DEF IsHead, ClaimSuffix, claimed

\* What holds of the active run besides its types: an idle Session has none,
\* a retained prefix is taken over at the end of PREPARE, the latch keeps runs
\* out, and the run passes the identity check of the next checkpoint.
PrefixInv ==
  /\ run.pc = "idle" => run = IdleRun
  /\ run.pc \notin {"idle", "prepare"} => paused = NoPause
  /\ checkpoint # NoCheckpoint => checkpoint.inc # <<>>
  /\ LatchStopsRuns
  /\ RunHoldsPrefix

\* A run as LOAD leaves it, for queue q.
Loaded(q) ==
  /\ run'.pc # "idle" /\ run'.target = 0
  /\ run'.pc # "prepare" => paused = NoPause
  /\ run'.base = Leaf
  /\ run'.inc \in Seq(Items) /\ run'.inc # <<>>
  /\ IsHead(run'.inc, q)

LEMMA LoadHoldsPrefix ==
  ASSUME RuntimeAssumption, TypeInv, PrefixInv, NEW who \in InputIds, NEW q \in Seq(Items),
         Load(who, q)
  PROVE  run' = run \/ Loaded(q)
<1> USE DEF TypeInv
<1>a. \A inc, s \in Seq(Items) : inc # <<>> => inc \o s # <<>>
  BY ConcatProperties, LenProperties, EmptySeq
<1>b. Leaf \in Nat
  BY LenProperties DEF TypeOK, Leaf
<1>1. CASE q # <<>> /\ paused = NoPause /\ LoadFresh(who, q)
  <2>1. q[1] \in Items /\ <<q[1]>> \in Seq(Items) /\ Len(q) \in Nat /\ Len(q) >= 1
    BY <1>1, EmptySeq, LenProperties, ElementOfSeq
  <2>2. IsHead(<<q[1]>>, q)
    BY <2>1 DEF IsHead
  <2>3. run'.pc = "prepare" /\ run'.target = 0 /\ run'.base = Leaf /\ run'.inc = <<q[1]>>
    BY <1>1 DEF LoadFresh, IdleRun
  <2> QED BY <2>1, <2>2, <2>3 DEF Loaded
<1>2. CASE q # <<>> /\ paused = NoPause /\ LoadCheckpoint(who, q)
  <2>1. checkpoint.inc \in Seq(Items) /\ checkpoint.inc # <<>>
    BY <1>2 DEF LoadCheckpoint, PrefixInv, TypeOK, Checkpoints
  <2>2. IsHead(checkpoint.inc, q)
    BY <1>2, <2>1, PrefixMeans DEF LoadCheckpoint, CheckpointFits
  <2>3. ResumedInputs(q) \in Seq(Items) /\ IsHead(checkpoint.inc \o ResumedInputs(q), q)
    <3>1. RemainingCapacity(checkpoint.inc) \in Int
      BY <2>1, LenProperties DEF RemainingCapacity, RuntimeAssumption
    <3>2. ResumedInputs(q) \in Seq(Items)
      BY ResumedTypes
    <3>3. CASE ResumedInputs(q) = <<>>
      BY <2>1, <2>2, <3>3, ConcatEmptySeq
    <3>4. CASE /\ RemainingCapacity(checkpoint.inc) \in Nat
               /\ ResumedInputs(q) = ClaimSuffix(q, checkpoint.inc, RemainingCapacity(checkpoint.inc))
      <4>1. IsHead(checkpoint.inc \o ClaimSuffix(q, checkpoint.inc, RemainingCapacity(checkpoint.inc)), q)
        BY <2>1, <2>2, <3>4, ClaimExtends
      <4> QED BY <3>2, <3>4, <4>1
    <3> QED BY <3>1, <3>2, <3>3, <3>4 DEF ResumedInputs
  <2>4. /\ run'.pc = ResumePoint /\ run'.target = 0 /\ run'.base = checkpoint.base
        /\ run'.inc = checkpoint.inc \o ResumedInputs(q)
    BY <1>2 DEF LoadCheckpoint, IdleRun
  <2>5. run'.inc \in Seq(Items) /\ run'.inc # <<>>
    BY <2>1, <2>3, <2>4, <1>a, ConcatProperties
  <2>6. run'.pc # "idle" /\ run'.base = Leaf
    BY <1>2, <2>4 DEF ResumePoint, LoopAt, LoadCheckpoint, CheckpointFits
  <2> QED BY <1>2, <2>3, <2>4, <2>5, <2>6 DEF Loaded
<1>3. CASE q # <<>> /\ LoadPaused(who, q)
  <2> DEFINE claimed == IF paused.kept = <<>> THEN ClaimSuffix(q, <<>>, 1)
                        ELSE IF RemainingCapacity(paused.kept) > 0
                             THEN ClaimSuffix(q, paused.kept, RemainingCapacity(paused.kept))
                             ELSE <<>>
  <2>1. paused.kept \in Seq(Items) /\ RemainingCapacity(paused.kept) \in Int
    BY LenProperties DEF TypeOK, Pauses, RemainingCapacity, RuntimeAssumption
  <2>2. IsHead(paused.kept, q)
    BY <1>3, <2>1, PrefixMeans DEF LoadPaused
  <2>3. claimed \in Seq(Items) /\ IsHead(paused.kept \o claimed, q)
        /\ paused.kept \o claimed \in Seq(Items) /\ paused.kept \o claimed # <<>>
    <3>1. CASE paused.kept = <<>>
      <4>1. <<>> \in Seq(Items) /\ 1 \in Int /\ 1 \in Nat
        BY EmptySeq
      <4>2. ClaimSuffix(q, <<>>, 1) \in Seq(Items)
        BY <4>1, ClaimSuffixType, Zenon
      <4>3. IsHead(<<>> \o ClaimSuffix(q, <<>>, 1), q)
        BY <2>2, <3>1, <4>1, ClaimExtends, Zenon
      <4>4. Len(q) \in Nat /\ Len(q) >= 1
        BY <1>3, LenProperties, EmptySeq
      <4>5. ClaimSuffix(q, <<>>, 1) = SubSeq(q, 1, 1)
        BY <4>4 DEF ClaimSuffix
      <4>6. ClaimSuffix(q, <<>>, 1) # <<>>
        <5>1. 1 \in 0..Len(q) /\ 1 # 0 /\ Len(<<>>) = 0
          BY <4>4, EmptySeq
        <5>2. Len(SubSeq(q, 1, 1)) = 1
          BY <5>1, PrefixType
        <5> QED BY <4>5, <5>1, <5>2, Zenon
      <4>7. <<>> \o ClaimSuffix(q, <<>>, 1) = ClaimSuffix(q, <<>>, 1)
        BY <4>2, ConcatEmptySeq
      <4> QED BY <3>1, <4>2, <4>3, <4>6, <4>7
    <3>2. CASE paused.kept # <<>> /\ RemainingCapacity(paused.kept) > 0
      <4>1. RemainingCapacity(paused.kept) \in Nat
        BY <2>1, <3>2
      <4>2. claimed = ClaimSuffix(q, paused.kept, RemainingCapacity(paused.kept))
        BY <3>2
      <4> HIDE DEF claimed
      <4> DEFINE cap == RemainingCapacity(paused.kept)
      <4>3. claimed \in Seq(Items)
        <5>1. cap \in Int
          BY <4>1
        <5> HIDE DEF cap
        <5> QED BY <2>1, <4>2, <5>1, ClaimSuffixType DEF cap
      <4>4. IsHead(paused.kept \o claimed, q)
        BY <2>1, <2>2, <4>1, <4>2, ClaimExtends
      <4> QED BY <2>1, <3>2, <4>3, <4>4, <1>a, ConcatProperties
    <3>3. CASE paused.kept # <<>> /\ ~(RemainingCapacity(paused.kept) > 0)
      BY <2>1, <2>2, <3>3, ConcatEmptySeq, EmptySeq
    <3> QED BY <3>1, <3>2, <3>3
  <2> HIDE DEF claimed
  <2>4. run'.pc = "prepare" /\ run'.target = 0 /\ run'.base = paused.base
        /\ run'.inc = paused.kept \o claimed
    BY <1>3 DEF LoadPaused, IdleRun, claimed
  <2>5. paused.base = Leaf
    BY <1>3 DEF LoadPaused
  <2> QED BY <2>3, <2>4, <2>5 DEF Loaded
<1> QED BY <1>1, <1>2, <1>3 DEF Load, LoadFails

\* run_next starts a run only with the lock free and the latch clear.
LEMMA AcquireHoldsPrefix ==
  ASSUME RuntimeAssumption, TypeInv, PrefixInv, NEW who \in InputIds, NEW q \in Seq(Items),
         Acquire(who, q) \/ (run.pc = "idle" /\ Grant(who, q))
  PROVE  run' = run \/ (run.pc = "idle" /\ ~latch /\ Loaded(q))
<1>1. CASE run.pc = "idle" /\ Grant(who, q)
  <2>1. CASE ShortCircuit(who, q) = "none" /\ Load(who, q)
    <3>1. ~latch
      BY <2>1 DEF ShortCircuit, TypeInv, TypeOK
    <3> QED BY <1>1, <2>1, <3>1, LoadHoldsPrefix
  <2>2. CASE UNCHANGED run
    BY <2>2
  <2> QED BY <1>1, <2>1, <2>2 DEF Grant
<1> QED BY <1>1 DEF Acquire

\* A loaded run satisfies the invariant, whatever else the call did to the
\* queue q it was loaded from.
LEMMA LoadedPrefix ==
  ASSUME RuntimeAssumption, PrefixInv, NEW q \in Seq(Items), Loaded(q),
         pending' = q, UNCHANGED <<history, paused>>, ~latch',
         checkpoint' \in {NoCheckpoint, checkpoint}
  PROVE  PrefixInv'
<1>1. ClaimSuffix(q, <<>>, Len(run'.inc)) = run'.inc
  BY PrefixMeans DEF Loaded
<1>2. IdentityHolds'
  BY <1>1 DEF Loaded, IdentityHolds, Leaf, ClaimSuffix
<1>3. checkpoint' # NoCheckpoint => checkpoint'.inc # <<>>
  BY DEF PrefixInv
<1> QED BY <1>2, <1>3 DEF Loaded, PrefixInv, RunHoldsPrefix, LatchStopsRuns

\* Accepting an input leaves the prefix a run holds in place.
LEMMA AppendKeepsHead ==
  ASSUME NEW S, NEW q \in Seq(S), NEW x \in S, NEW inc \in Seq(S), IsHead(inc, q)
  PROVE  IsHead(inc, Append(q, x))
<1>1. /\ Len(Append(q, x)) = Len(q) + 1 /\ Len(q) \in Nat /\ Len(inc) \in Nat
      /\ \A i \in 1..Len(q) : Append(q, x)[i] = q[i]
  BY AppendProperties, LenProperties
<1> QED BY <1>1 DEF IsHead

\* A step that leaves the queue, the history and the run's inputs alone.
LEMMA SamePrefix ==
  ASSUME PrefixInv, run.pc # "idle", run'.pc # "idle",
         run'.inc = run.inc, run'.base = run.base,
         UNCHANGED <<pending, history, latch>>,
         paused' \in {paused, NoPause},
         run'.pc = "prepare" => run.pc = "prepare",
         run'.pc # "prepare" => run.pc # "prepare" \/ paused' = NoPause,
         checkpoint' \in {checkpoint, NoCheckpoint} \/ checkpoint'.inc = run.inc
  PROVE  PrefixInv'
<1>1. IdentityHolds'
  BY DEF PrefixInv, RunHoldsPrefix, IdentityHolds, Leaf, ClaimSuffix
<1>2. checkpoint' # NoCheckpoint => checkpoint'.inc # <<>>
  BY DEF PrefixInv, RunHoldsPrefix, IdentityHolds
<1>3. run'.pc # "prepare" => paused' = NoPause
  BY DEF PrefixInv
<1>4. LatchStopsRuns'
  BY DEF PrefixInv, LatchStopsRuns
<1> QED BY <1>1, <1>2, <1>3, <1>4 DEF PrefixInv, RunHoldsPrefix

\* A step after which the Session is idle.
LEMMA NowIdle ==
  ASSUME PrefixInv, run' = IdleRun,
         \/ checkpoint' \in {checkpoint, NoCheckpoint}
         \/ run.pc # "idle" /\ checkpoint'.inc = run.inc
  PROVE  PrefixInv'
BY DEF PrefixInv, IdleRun, LatchStopsRuns, RunHoldsPrefix, IdentityHolds

LEMMA RunStepPrefix ==
  ASSUME RuntimeAssumption, TypeInv, PrefixInv, RunStep
  PROVE  PrefixInv'
<1> USE DEF TypeInv
<1>a. ASSUME NEW pc, Ready(pc), pc # "idle" PROVE run.pc = pc /\ run.pc # "idle"
  BY <1>a DEF Ready
<1>b. \A turn : LoopAt(turn) \notin {"idle", "prepare"}
  BY DEF LoopAt
<1>1. CASE PrepareFails \/ ProviderFails \/ SaveFails
  BY <1>1, NowIdle DEF PrepareFails, ProviderFails, SaveFails, EndRun
<1>2. CASE PrepareDone
  <2>1. PICK r \in Runs : r = run
    BY DEF TypeOK
  <2>2. PICK msgs : run' = [r EXCEPT !.pc = LoopAt(paused.turn), !.turn = paused.turn,
                                     !.initial = msgs, !.msgs = msgs]
    BY <1>2, <2>1 DEF PrepareDone
  <2>3. run'.pc \notin {"idle", "prepare"} /\ run'.inc = run.inc /\ run'.base = run.base
    BY <1>b, <2>1, <2>2 DEF Runs
  <2> QED BY <1>2, <2>3, <1>a, SamePrefix DEF PrepareDone
<1>3. CASE ProviderCallsTools \/ ProviderAnswers \/ ContinueLoop
  <2>a. PICK r \in Runs : r = run
    BY DEF TypeOK
  <2>1. run'.pc \notin {"idle", "prepare"} /\ run'.inc = run.inc /\ run'.base = run.base
    <3>1. CASE ProviderCallsTools
      <4>1. run' = [r EXCEPT !.pc = "toolNotify"]
        BY <2>a, <3>1 DEF ProviderCallsTools
      <4> QED BY <2>a, <4>1 DEF Runs
    <3>2. CASE ProviderAnswers
      <4> DEFINE count == AcceptedCount(r.turn, r.inc)
      <4>1. run' = [r EXCEPT !.pc = "injectFinal", !.accepted = count]
        BY <2>a, <3>2 DEF ProviderAnswers
      <4> HIDE DEF count
      <4> QED BY <2>a, <4>1 DEF Runs
    <3>3. CASE ContinueLoop
      <4>1. run' = [r EXCEPT !.pc = LoopAt(r.turn + 1), !.turn = r.turn + 1]
        BY <2>a, <3>3 DEF ContinueLoop
      <4>2. run'.pc = LoopAt(r.turn + 1) /\ run'.inc = r.inc /\ run'.base = r.base
        BY <2>a, <4>1 DEF Runs
      <4> QED BY <1>b, <2>a, <4>2
    <3> QED BY <1>3, <3>1, <3>2, <3>3
  <2>2. run.pc \notin {"idle", "prepare"}
    BY <1>3 DEF ProviderCallsTools, ProviderAnswers, ContinueLoop, Ready
  <2>3. UNCHANGED <<pending, history, checkpoint, latch, paused>>
    BY <1>3 DEF ProviderCallsTools, ProviderAnswers, ContinueLoop
  <2> QED BY <2>1, <2>2, <2>3, SamePrefix
<1>4. ASSUME NEW phase, NEW turn, NEW msgs, NEW onSuccess,
             SaveCheckpoint(phase, turn, msgs, onSuccess),
             run.pc \notin {"idle", "prepare"}, onSuccess.pc \notin {"idle", "prepare"},
             onSuccess.inc = run.inc, onSuccess.base = run.base,
             UNCHANGED <<pending, history, latch, paused>>
      PROVE  PrefixInv'
  <2>1. NewCheckpoint(phase, turn, msgs).inc = run.inc
    BY DEF NewCheckpoint
  <2>2. CASE checkpoint' = NewCheckpoint(phase, turn, msgs) /\ run' = onSuccess
    BY <1>4, <2>1, <2>2, SamePrefix
  <2>3. CASE checkpoint' \in {checkpoint, NewCheckpoint(phase, turn, msgs)} /\ EndRun("failed")
    BY <1>4, <2>1, <2>3, NowIdle DEF EndRun
  <2> QED BY <1>4, <2>2, <2>3 DEF SaveCheckpoint
<1>5. CASE BeginTools
  <2> DEFINE msgs == Append(run.msgs, Call(batches))
             onSuccess == [run EXCEPT !.pc = "tools", !.msgs = msgs]
  <2>1. onSuccess.pc = "tools" /\ onSuccess.inc = run.inc /\ onSuccess.base = run.base
    BY DEF TypeOK, Runs
  <2>2. SaveCheckpoint("awaiting_tools", run.turn + 1, msgs, onSuccess)
    BY <1>5 DEF BeginTools
  <2>3. run.pc \notin {"idle", "prepare"} /\ UNCHANGED <<pending, history, latch, paused>>
    BY <1>5 DEF BeginTools, Ready
  <2> HIDE DEF msgs, onSuccess
  <2> QED BY <1>4, <2>1, <2>2, <2>3
<1>6. CASE ToolsDone
  <2> DEFINE msgs == Append(run.msgs, ToolResults(Last(run.msgs).ref))
             onSuccess == [run EXCEPT !.pc = "inject", !.msgs = msgs,
                                      !.accepted = AcceptedCount(run.turn, run.inc)]
  <2>1. onSuccess.pc = "inject" /\ onSuccess.inc = run.inc /\ onSuccess.base = run.base
    BY DEF TypeOK, Runs
  <2>2. SaveCheckpoint("tools_completed", run.turn + 1, msgs, onSuccess)
    BY <1>6 DEF ToolsDone
  <2>3. run.pc \notin {"idle", "prepare"} /\ UNCHANGED <<pending, history, latch, paused>>
    BY <1>6 DEF ToolsDone, Ready
  <2> HIDE DEF msgs, onSuccess
  <2> QED BY <1>4, <2>1, <2>2, <2>3
<1>7. CASE FinishResponse \/ CloseAtLimit
  <2> DEFINE msgs == Append(run.msgs, Text)
             onSuccess == [run EXCEPT !.pc = "finalNotify", !.msgs = msgs]
  <2>1. onSuccess.pc = "finalNotify" /\ onSuccess.inc = run.inc /\ onSuccess.base = run.base
    BY DEF TypeOK, Runs
  <2>2. PICK turn : SaveCheckpoint("final_response", turn, msgs, onSuccess)
    BY <1>7 DEF FinishResponse, CloseAtLimit, Finish
  <2>3. run.pc \notin {"idle", "prepare"} /\ UNCHANGED <<pending, history, latch, paused>>
    BY <1>7 DEF FinishResponse, CloseAtLimit, Finish, Ready
  <2> HIDE DEF msgs, onSuccess
  <2> QED BY <1>4, <2>1, <2>2, <2>3
<1>8. CASE InjectAfterTools \/ InjectAfterCandidate
  <2> DEFINE claimed == ClaimSuffix(pending, run.inc, run.accepted)
  <2>1. run.inc \in Seq(Items) /\ pending \in Seq(Items) /\ run.accepted \in Nat
    BY RunFields DEF TypeOK
  <2>2. run.pc \notin {"idle", "prepare"} /\ run.base = Leaf /\ run.inc # <<>>
    BY <1>8 DEF InjectAfterTools, InjectAfterCandidate, Ready, PrefixInv, RunHoldsPrefix, IdentityHolds
  <2>3. IsHead(run.inc, pending)
    BY <2>1, <2>2, PrefixMeans DEF PrefixInv, RunHoldsPrefix, IdentityHolds
  <2>4. claimed \in Seq(Items)
    <3>1. run.accepted \in Int
      BY <2>1
    <3> QED BY <2>1, <3>1, ClaimSuffixType
  <2>5. IsHead(run.inc \o claimed, pending)
    BY <2>1, <2>3, ClaimExtends
  <2> HIDE DEF claimed
  <2>6. run.inc \o claimed \in Seq(Items) /\ run.inc \o claimed # <<>>
    BY <2>1, <2>2, <2>4, ConcatProperties, LenProperties, EmptySeq
  <2>7. /\ run'.pc \notin {"idle", "prepare"} /\ run'.base = run.base
        /\ run'.inc = run.inc \o claimed
    <3>1. CASE InjectAfterTools
      <4>1. run' = [run EXCEPT !.pc = LoopAt(run.turn + 1), !.turn = @ + 1, !.accepted = 0,
                      !.inc = @ \o claimed, !.msgs = @ \o ToUserMessages(claimed)]
        BY <3>1 DEF InjectAfterTools, claimed
      <4> QED BY <4>1, <1>b DEF TypeOK, Runs
    <3>2. CASE InjectAfterCandidate
      <4>1. run' = [run EXCEPT !.pc = "injectNotify", !.accepted = 0, !.inc = @ \o claimed,
                      !.msgs = @ \o <<Text>> \o ToUserMessages(claimed)]
        BY <3>2 DEF InjectAfterCandidate, claimed
      <4> QED BY <4>1 DEF TypeOK, Runs
    <3> QED BY <1>8, <3>1, <3>2
  <2>8. UNCHANGED <<pending, history, checkpoint, latch, paused>>
    BY <1>8 DEF InjectAfterTools, InjectAfterCandidate
  <2>9. ClaimSuffix(pending, <<>>, Len(run'.inc)) = run'.inc
    <3>1. ASSUME NEW inc \in Seq(Items), IsHead(inc, pending)
          PROVE  ClaimSuffix(pending, <<>>, Len(inc)) = inc
      BY <2>1, <3>1, PrefixMeans
    <3> QED BY <2>5, <2>6, <2>7, <3>1
  <2>10. IdentityHolds'
    BY <2>2, <2>6, <2>7, <2>8, <2>9 DEF IdentityHolds, Leaf, ClaimSuffix
  <2> QED BY <2>2, <2>7, <2>8, <2>10 DEF PrefixInv, RunHoldsPrefix, LatchStopsRuns
<1>9. CASE Save
  BY <1>9, NowIdle, DropCheckpointType DEF Save, EndRun
<1>10. CASE CapturePausedRun
  <2>1. run' = IdleRun
    BY <1>10 DEF CapturePausedRun, EndRun
  <2>2. checkpoint' \in {checkpoint, NoCheckpoint}
    BY <1>10 DEF CapturePausedRun, RetainPrefix
  <2> QED BY <2>1, <2>2, NowIdle
<1> QED BY <1>1, <1>2, <1>3, <1>5, <1>6, <1>7, <1>8, <1>9, <1>10 DEF RunStep

LEMMA CallStepPrefix ==
  ASSUME RuntimeAssumption, TypeInv, PrefixInv, ChannelCall \/ HandOff \/ Crash
  PROVE  PrefixInv'
<1> USE DEF TypeInv
<1>a. 0 \in InputIds /\ 1..MaxInputs \subseteq InputIds /\ pending \in Seq(Items)
  BY DEF InputIds, RuntimeAssumption, TypeOK
<1>b. \A who, q : Acquire(who, q) \/ Grant(who, q) \/ Load(who, q)
                    => checkpoint' \in {NoCheckpoint, checkpoint}
  BY DEF Acquire, Grant, Load, LoadFresh, LoadCheckpoint, LoadPaused, LoadFails, DropCheckpoint
<1>c. ASSUME UNCHANGED <<pending, history, run, latch, paused>>,
             checkpoint' \in {NoCheckpoint, checkpoint}
      PROVE  PrefixInv'
  BY <1>c DEF PrefixInv, LatchStopsRuns, RunHoldsPrefix, IdentityHolds, Leaf, ClaimSuffix
<1>d. ASSUME NEW size \in Sizes, Enqueue(size)
      PROVE  /\ NewItem(size) \in Items /\ pending' = Append(pending, NewItem(size))
             /\ pending' \in Seq(Items) /\ Len(asked) + 1 \in InputIds
  <2>1. Len(asked) \in Nat /\ size \in {"small", "big"} /\ Len(asked) < MaxInputs
    BY <1>d, LenProperties DEF TypeOK, RuntimeAssumption, Enqueue
  <2>2. NewItem(size) \in Items
    BY <2>1 DEF NewItem, Item, Items
  <2> QED BY <1>a, <1>d, <2>1, <2>2, AppendProperties DEF Enqueue, InputIds, RuntimeAssumption
<1>e. ASSUME NEW size \in Sizes, Enqueue(size), UNCHANGED <<history, run, latch, paused>>,
             checkpoint' \in {NoCheckpoint, checkpoint}
      PROVE  PrefixInv'
  <2>1. CASE run.pc = "idle"
    BY <1>e, <2>1 DEF PrefixInv, LatchStopsRuns, RunHoldsPrefix
  <2>2. CASE run.pc # "idle"
    <3>1. IdentityHolds /\ run.inc \in Seq(Items)
      BY <2>2, RunFields DEF PrefixInv, RunHoldsPrefix
    <3>2. IsHead(run.inc, pending)
      BY <1>a, <3>1, PrefixMeans DEF IdentityHolds
    <3>3. IsHead(run.inc, pending')
      BY <1>a, <1>d, <1>e, <3>1, <3>2, AppendKeepsHead
    <3>4. ClaimSuffix(pending', <<>>, Len(run.inc)) = run.inc
      BY <1>d, <1>e, <3>1, <3>3, PrefixMeans
    <3>5. IdentityHolds'
      BY <1>e, <3>1, <3>4 DEF IdentityHolds, Leaf, ClaimSuffix
    <3> QED BY <1>e, <3>5 DEF PrefixInv, LatchStopsRuns, RunHoldsPrefix
  <2> QED BY <2>1, <2>2
<1>1. ASSUME NEW size \in Sizes, EnqueueInput(size) PROVE PrefixInv'
  BY <1>1, <1>e DEF EnqueueInput
<1>2. ASSUME NEW size \in Sizes, Submit(size) PROVE PrefixInv'
  <2> DEFINE q == Append(pending, NewItem(size))
  <2>1. Enqueue(size) /\ Acquire(Len(asked) + 1, q) /\ UNCHANGED <<history, latch, paused>>
    BY <1>2 DEF Submit
  <2>2. q \in Seq(Items) /\ pending' = q /\ Len(asked) + 1 \in InputIds
    BY <2>1, <1>d
  <2>3. run' = run \/ (~latch /\ Loaded(q))
    BY <2>1, <2>2, AcquireHoldsPrefix
  <2>4. checkpoint' \in {NoCheckpoint, checkpoint}
    BY <2>1, <1>b
  <2> HIDE DEF q
  <2> QED BY <1>e, <2>1, <2>2, <2>3, <2>4, LoadedPrefix
<1>3. ASSUME NEW who \in InputIds, Acquire(who, pending) \/ (run.pc = "idle" /\ Grant(who, pending)),
             UNCHANGED <<pending, history, latch, paused>>
      PROVE  PrefixInv'
  <2>1. run' = run \/ (~latch /\ Loaded(pending))
    BY <1>3, <1>a, AcquireHoldsPrefix
  <2>2. checkpoint' \in {NoCheckpoint, checkpoint}
    BY <1>3, <1>b
  <2> QED BY <1>a, <1>c, <1>3, <2>1, <2>2, LoadedPrefix
<1>4. ASSUME NEW id \in 1..MaxInputs, Resubmit(id) PROVE PrefixInv'
  BY <1>3, <1>4, <1>a DEF Resubmit
<1>5. CASE RunNext
  BY <1>3, <1>5, <1>a DEF RunNext
<1>6. CASE HandOff
  <2>1. Head(waiters) \in InputIds
    BY <1>6, HeadTailProperties DEF HandOff, TypeOK
  <2> QED BY <1>3, <1>6, <2>1 DEF HandOff
<1>7. CASE RestartPending
  <2>1. UNCHANGED <<pending, history, paused>> /\ ~latch' /\ latch
    BY <1>7 DEF RestartPending
  <2>2. CASE UNCHANGED <<run, checkpoint>>
    BY <2>1, <2>2 DEF PrefixInv, LatchStopsRuns, RunHoldsPrefix, IdentityHolds, Leaf, ClaimSuffix
  <2>3. CASE Load(0, pending) /\ run.pc = "idle"
    <3>1. run' = run \/ Loaded(pending)
      BY <2>3, <1>a, LoadHoldsPrefix
    <3>2. checkpoint' \in {NoCheckpoint, checkpoint}
      BY <2>3, <1>b
    <3>3. CASE run' = run
      BY <2>1, <2>3, <3>2, <3>3 DEF PrefixInv, LatchStopsRuns, RunHoldsPrefix
    <3> QED BY <1>a, <2>1, <3>1, <3>2, <3>3, LoadedPrefix
  <2> QED BY <1>7, <2>2, <2>3 DEF RestartPending, RestartRun
<1>8. ASSUME NEW id \in 1..MaxInputs, PauseInactive(id) PROVE PrefixInv'
  <2>1. run.pc = "idle" /\ run' = IdleRun
    BY <1>8 DEF PauseInactive, PrefixInv
  <2>2. checkpoint' \in {NoCheckpoint, checkpoint}
    BY <1>8 DEF PauseInactive, RetainPrefix
  <2> QED BY <2>1, <2>2, NowIdle
<1>9. ASSUME NEW id \in 1..MaxInputs, PauseActive(id) PROVE PrefixInv'
  <2>1. run'.pc = run.pc /\ run'.inc = run.inc /\ run'.base = run.base
    BY <1>9 DEF PauseActive, TypeOK, Runs
  <2>2. paused = NoPause /\ run.pc # "idle" /\ UNCHANGED <<pending, history, checkpoint, paused>>
    BY <1>9 DEF PauseActive, MayPause
  <2>3. IdentityHolds'
    BY <2>1, <2>2 DEF PrefixInv, RunHoldsPrefix, IdentityHolds, Leaf, ClaimSuffix
  <2> QED BY <2>1, <2>2, <2>3 DEF PrefixInv, LatchStopsRuns, RunHoldsPrefix
<1>10. ASSUME NEW size \in Sizes, Revise(size) PROVE PrefixInv'
  <2>1. latch /\ paused # NoPause /\ UNCHANGED <<run, checkpoint, latch, paused>>
    BY <1>10 DEF Revise
  <2>2. run.pc = "idle"
    BY <2>1 DEF PrefixInv, LatchStopsRuns
  <2> QED BY <2>1, <2>2 DEF PrefixInv, LatchStopsRuns, RunHoldsPrefix
<1>11. ASSUME NEW k \in DOMAIN waiters, CancelWaiter(k) PROVE PrefixInv'
  BY <1>11, <1>c DEF CancelWaiter
<1>12. CASE CancelRun
  BY <1>12, NowIdle DEF CancelRun, EndRun
<1>13. CASE Clear
  <2>1. run' = IdleRun /\ checkpoint' \in {NoCheckpoint, checkpoint}
    BY <1>13 DEF Clear, DropCheckpoint, PrefixInv
  <2> QED BY <2>1, NowIdle
<1>14. CASE Crash
  BY <1>14, NowIdle DEF Crash, durable
<1> QED
  BY <1>1, <1>2, <1>4, <1>5, <1>6, <1>7, <1>8, <1>9, <1>10, <1>11, <1>12, <1>13, <1>14
  DEF ChannelCall

LEMMA PrefixStep ==
  ASSUME RuntimeAssumption, TypeInv, PrefixInv, [Next]_vars
  PROVE  PrefixInv'
<1>1. CASE UNCHANGED vars
  BY <1>1 DEF vars, PrefixInv, LatchStopsRuns, RunHoldsPrefix, IdentityHolds, Leaf, ClaimSuffix
<1> QED BY <1>1, RunStepPrefix, CallStepPrefix DEF Next

LEMMA PrefixInvariant == Spec => []PrefixInv
<1>1. Init => PrefixInv
  BY DEF Init, PrefixInv, LatchStopsRuns, RunHoldsPrefix, IdleRun
<1> QED BY RuntimeAssumption, TypeInvariant, <1>1, PrefixStep, PTL DEF Spec

\* The conflict checks never refuse the active run: it starts from the current
\* leaf and holds the queue's prefix at its current revisions, for any number
\* of callers, inputs, turns and failures.
THEOREM RunPrefixHolds == Spec => []RunHoldsPrefix
<1>1. PrefixInv => RunHoldsPrefix
  BY DEF PrefixInv
<1> QED BY <1>1, PrefixInvariant, PTL

\* A Session whose pause retained a prefix runs nothing until it is restarted
\* or cleared, whoever was waiting for its lock.
THEOREM LatchHolds == Spec => []LatchStopsRuns
<1>1. PrefixInv => LatchStopsRuns
  BY DEF PrefixInv
<1> QED BY <1>1, PrefixInvariant, PTL

-----------------------------------------------------------------------------
(* The Session implements InputLedger *)

\* The queue is the unconsumed tail of what was accepted, at the revisions last
\* confirmed, and pauses only concern inputs in it.  The ledger's order and
\* exactly-once promise rest on this and on the prefix check of the commit.
QueueIsTail ==
  /\ Len(pending) <= Len(asked)
  /\ \A k \in 1..Len(pending) :
       pending[k].id = Consumed + k /\ pending[k].rev = asked[Consumed + k]

TargetsQueued ==
  /\ paused # NoPause => paused.target \in IdSet(pending)
  /\ run.target # 0 => run.target \in IdSet(pending)

LedgerInv == QueueIsTail /\ TargetsQueued

LEMMA QueueFacts ==
  ASSUME TypeOK
  PROVE  /\ Len(pending) \in Nat /\ DOMAIN pending = 1..Len(pending)
         /\ Len(asked) \in Nat /\ DOMAIN asked = 1..Len(asked)
         /\ Len(history) \in Nat /\ DOMAIN history = 1..Len(history)
         /\ \A k \in 1..Len(pending) : pending[k] \in Items
         /\ Consumed \in Int
BY LenProperties, ElementOfSeq DEF TypeOK, Consumed

\* A step that touches neither the queue nor the user's record of it.
LEMMA LedgerStutter ==
  ASSUME UNCHANGED <<pending, asked, history>>
  PROVE  UNCHANGED Ledger!ledgerVars
BY DEF Ledger!ledgerVars, Consumed, ConsumedTurns, Entries

\* enqueue: the new item takes the next number.
LEMMA EnqueueAccepts ==
  ASSUME RuntimeAssumption, TypeInv, LedgerInv, NEW size \in Sizes, Enqueue(size), UNCHANGED history
  PROVE  /\ Ledger!Accept /\ QueueIsTail' /\ IdSet(pending) \subseteq IdSet(pending')
<1>1. NewItem(size).id = Len(asked) + 1 /\ NewItem(size).rev = 1
  BY DEF NewItem, Item
<1>2. NewItem(size) \in Items
  BY QueueFacts DEF NewItem, Item, Items, TypeInv, RuntimeAssumption
<1>3. /\ Len(pending') = Len(pending) + 1 /\ DOMAIN pending' = 1..(Len(pending) + 1)
      /\ \A k \in 1..Len(pending) : pending'[k] = pending[k]
      /\ pending'[Len(pending) + 1] = NewItem(size)
  BY <1>2, AppendProperties, LenProperties DEF Enqueue, TypeInv, TypeOK
<1>4. /\ Len(asked') = Len(asked) + 1
      /\ \A k \in 1..Len(asked) : asked'[k] = asked[k]
      /\ asked'[Len(asked) + 1] = 1
  BY AppendProperties DEF Enqueue, TypeInv, TypeOK
<1>5. Consumed' = Consumed
  BY <1>3, <1>4, QueueFacts DEF Consumed, TypeInv
<1>6. QueueIsTail'
  <2>1. Len(pending') <= Len(asked')
    BY <1>3, <1>4, QueueFacts DEF LedgerInv, QueueIsTail, TypeInv
  <2>2. ASSUME NEW k \in 1..Len(pending)
        PROVE  pending'[k].id = Consumed + k /\ pending'[k].rev = asked'[Consumed + k]
    <3>1. Consumed + k \in 1..Len(asked)
      BY QueueFacts DEF LedgerInv, QueueIsTail, Consumed, TypeInv
    <3> QED BY <1>3, <1>4, <3>1 DEF LedgerInv, QueueIsTail
  <2>3. Consumed + (Len(pending) + 1) = Len(asked) + 1
    BY QueueFacts DEF Consumed, TypeInv
  <2>4. ASSUME NEW k \in 1..Len(pending')
        PROVE  pending'[k].id = Consumed + k /\ pending'[k].rev = asked'[Consumed + k]
    <3>1. k \in 1..Len(pending) \/ k = Len(pending) + 1
      BY <1>3, QueueFacts DEF TypeInv
    <3> QED BY <1>1, <1>3, <1>4, <2>2, <2>3, <3>1
  <2> QED BY <1>5, <2>1, <2>4 DEF QueueIsTail
<1>7. Ledger!Accept
  BY <1>5 DEF Enqueue, Ledger!Accept, ConsumedTurns, Entries
<1>8. IdSet(pending) \subseteq IdSet(pending')
  BY <1>3, QueueFacts DEF IdSet, TypeInv
<1> QED BY <1>6, <1>7, <1>8

\* revise_paused_input: an edit of an input that is still queued.
LEMMA ReviseEdits ==
  ASSUME RuntimeAssumption, TypeInv, LedgerInv, NEW size \in Sizes, Revise(size)
  PROVE  /\ \E i \in (Consumed + 1)..Len(asked) : Ledger!Edit(i)
         /\ QueueIsTail' /\ IdSet(pending') = IdSet(pending)
<1> DEFINE t == paused.target
<1>1. PICK n \in 1..Len(pending) : t = Consumed + n
  BY QueueFacts DEF Revise, LedgerInv, TargetsQueued, QueueIsTail, IdSet, TypeInv
<1>2. t \in (Consumed + 1)..Len(asked) /\ t \in 1..Len(asked)
  BY <1>1, QueueFacts DEF LedgerInv, QueueIsTail, Consumed, TypeInv
<1>3. /\ DOMAIN asked' = 1..Len(asked) /\ Len(asked') = Len(asked)
      /\ \A i \in 1..Len(asked) : asked'[i] = IF i = t THEN asked[i] + 1 ELSE asked[i]
  <2>1. asked' = [asked EXCEPT ![t] = asked[t] + 1]
    BY DEF Revise
  <2>2. asked[t] + 1 \in Nat \ {0} /\ asked \in Seq(Nat \ {0})
    BY <1>2, ElementOfSeq DEF TypeInv, TypeOK
  <2>3. asked' \in Seq(Nat \ {0}) /\ Len(asked') = Len(asked)
    BY <1>2, <2>1, <2>2, ExceptSeq
  <2> QED BY <2>1, <2>3, LenProperties, QueueFacts DEF TypeInv
<1>4. /\ DOMAIN pending' = 1..Len(pending)
      /\ \A k \in 1..Len(pending) :
           pending'[k] = IF pending[k].id = t THEN Item(t, pending[k].rev + 1, size) ELSE pending[k]
  BY QueueFacts DEF Revise, TypeInv
<1>5. Len(pending') = Len(pending)
  <2>1. pending' = [k \in 1..Len(pending) |-> pending'[k]]
    BY <1>4, QueueFacts DEF Revise, TypeInv
  <2> QED BY <2>1, QueueFacts, IsASeq, LenProperties DEF TypeInv
<1>6. Consumed' = Consumed
  BY <1>3, <1>5 DEF Consumed
<1>7. QueueIsTail'
  <2>1. ASSUME NEW k \in 1..Len(pending)
        PROVE  pending'[k].id = Consumed + k /\ pending'[k].rev = asked'[Consumed + k]
    <3>1. Consumed + k \in 1..Len(asked) /\ pending[k].id = Consumed + k
          /\ pending[k].rev = asked[Consumed + k]
      BY QueueFacts DEF LedgerInv, QueueIsTail, Consumed, TypeInv
    <3>2. CASE pending[k].id = t
      <4>1. pending'[k].id = t /\ pending'[k].rev = pending[k].rev + 1
        BY <1>4, <3>2 DEF Item
      <4> QED BY <1>3, <3>1, <3>2, <4>1
    <3>3. CASE pending[k].id # t
      BY <1>3, <1>4, <3>1, <3>3
    <3> QED BY <3>2, <3>3
  <2> QED BY <1>3, <1>5, <1>6, <2>1 DEF LedgerInv, QueueIsTail
<1>8. \A k \in 1..Len(pending) : pending'[k].id = pending[k].id
  BY <1>4 DEF Item
<1>9. IdSet(pending') = IdSet(pending)
  BY <1>4, <1>8, QueueFacts DEF IdSet, TypeInv
<1>10. Ledger!Edit(t)
  BY <1>6 DEF Revise, Ledger!Edit, ConsumedTurns, Entries
<1> QED BY <1>2, <1>7, <1>9, <1>10

\* What is left of a queue whose first k items are taken.
LEMMA DropPrefix ==
  ASSUME NEW S, NEW q \in Seq(S), NEW k \in 0..Len(q)
  PROVE  /\ Len(SubSeq(q, k + 1, Len(q))) = Len(q) - k
         /\ \A j \in 1..(Len(q) - k) : SubSeq(q, k + 1, Len(q))[j] = q[k + j]
<1> DEFINE n == Len(q)
<1>1. n \in Nat /\ k \in Nat /\ k <= n
  BY LenProperties
<1>2. \A i \in (k + 1)..n : q[i] \in S
  BY <1>1, ElementOfSeq
<1>3. /\ Len(SubSeq(q, k + 1, n)) = IF k + 1 <= n THEN n - (k + 1) + 1 ELSE 0
      /\ \A i \in 1..(n - (k + 1) + 1) : SubSeq(q, k + 1, n)[i] = q[(k + 1) + i - 1]
  BY <1>1, <1>2, SubSeqProperties
<1>4. (IF k + 1 <= n THEN n - (k + 1) + 1 ELSE 0) = n - k /\ n - (k + 1) + 1 = n - k
  BY <1>1
<1>5. \A j \in 1..(n - k) : (k + 1) + j - 1 = k + j
  BY <1>1
<1> QED BY <1>3, <1>4, <1>5

\* commit_working_messages: the run's inputs leave the head of the queue.
LEMMA SaveConsumes ==
  ASSUME RuntimeAssumption, TypeInv, PrefixInv, LedgerInv, Save
  PROVE  /\ \E k \in 1..(Len(asked) - Consumed) : Ledger!Consume(k)
         /\ QueueIsTail' /\ paused = NoPause
<1> DEFINE k == Len(run.inc)
<1>1. run.inc \in Seq(Items) /\ k \in Nat /\ run.inc # <<>> /\ k >= 1
  BY RunFields, LenProperties, EmptySeq DEF Save, MayCommit, TypeInv
<1>2. run.pc \notin {"idle", "prepare"} /\ paused = NoPause
  BY DEF Save, Saving, Ready, PrefixInv
<1>3. k <= Len(pending)
  BY <1>1, <1>2, PrefixMeans DEF PrefixInv, RunHoldsPrefix, IdentityHolds, IsHead, TypeInv, TypeOK
<1>4. k \in 1..(Len(asked) - Consumed)
  BY <1>1, <1>3, QueueFacts DEF Consumed, TypeInv
<1>5. /\ Len(SubSeq(pending, 1, k)) = k /\ DOMAIN SubSeq(pending, 1, k) = 1..k
      /\ \A j \in 1..k : SubSeq(pending, 1, k)[j] = pending[j]
  BY <1>1, <1>3, QueueFacts, SubSeqProperties, LenProperties DEF TypeInv
<1>6. /\ Len(pending') = Len(pending) - k
      /\ \A j \in 1..(Len(pending) - k) : pending'[j] = pending[k + j]
  <2>1. pending' = SubSeq(pending, k + 1, Len(pending)) /\ pending \in Seq(Items)
    BY DEF Save, Remaining, TypeInv, TypeOK
  <2>2. k \in 0..Len(pending)
    BY <1>1, <1>3, QueueFacts DEF TypeInv
  <2> HIDE DEF k
  <2> QED BY <2>1, <2>2, DropPrefix
<1>7. Consumed' = Consumed + k
  <2>1. asked' = asked /\ Len(asked) \in Nat /\ Len(pending) \in Nat
    BY QueueFacts DEF Save, TypeInv
  <2> HIDE DEF k
  <2> QED BY <1>1, <1>6, <2>1 DEF Consumed
<1>8. QueueIsTail'
  <2>1. ASSUME NEW j \in 1..(Len(pending) - k)
        PROVE  pending'[j].id = (Consumed + k) + j /\ pending'[j].rev = asked[(Consumed + k) + j]
    <3>1. k + j \in 1..Len(pending) /\ (Consumed + k) + j = Consumed + (k + j)
      BY <1>1, QueueFacts DEF TypeInv
    <3> QED BY <1>6, <3>1 DEF LedgerInv, QueueIsTail
  <2>2. Len(pending') <= Len(asked)
    <3>1. Len(pending) \in Nat /\ Len(asked) \in Nat /\ Len(pending) <= Len(asked)
      BY QueueFacts DEF LedgerInv, QueueIsTail, TypeInv
    <3> HIDE DEF k
    <3> QED BY <1>1, <1>6, <3>1
  <2>3. asked' = asked
    BY DEF Save
  <2> QED BY <1>6, <1>7, <2>1, <2>2, <2>3 DEF QueueIsTail
<1>9. Ledger!Consume(k)
  <2> DEFINE taken == [j \in 1..k |-> [id |-> Consumed + j, rev |-> asked[Consumed + j]]]
             h == Turn(SubSeq(pending, 1, k), run.msgs)
  <2>1. Entries(h.inputs) = taken
    <3>1. h.inputs = SubSeq(pending, 1, k)
      BY DEF Turn
    <3>2. \A j \in 1..k : pending[j].id = Consumed + j /\ pending[j].rev = asked[Consumed + j]
      BY <1>1, <1>3, QueueFacts DEF LedgerInv, QueueIsTail, TypeInv
    <3> QED BY <1>5, <3>1, <3>2 DEF Entries
  <2>2. history' = Append(history, h)
    BY DEF Save
  <2>3. h \in Turns
    BY <1>1, <1>3, QueueFacts, PrefixType, RunFields DEF Turn, Turns, TypeInv, TypeOK
  <2> HIDE DEF h, taken
  <2>4. /\ DOMAIN history' = 1..(Len(history) + 1)
        /\ \A t \in 1..Len(history) : history'[t] = history[t]
        /\ history'[Len(history) + 1] = h
    BY <2>2, <2>3, AppendProperties, LenProperties DEF TypeInv, TypeOK
  <2> DEFINE n == Len(history)
  <2>5. n \in Nat /\ DOMAIN history = 1..n
    BY QueueFacts DEF TypeInv
  <2>6. ConsumedTurns = [t \in 1..n |-> Entries(history[t].inputs)]
    BY <2>5 DEF ConsumedTurns
  <2>7. ConsumedTurns' = [t \in 1..(n + 1) |-> Entries(history'[t].inputs)]
    BY <2>4 DEF ConsumedTurns, Entries
  <2>8. ConsumedTurns' = [t \in 1..(n + 1) |-> IF t <= n THEN ConsumedTurns[t] ELSE taken]
    <3>1. ASSUME NEW t \in 1..(n + 1)
          PROVE  Entries(history'[t].inputs) = IF t <= n THEN ConsumedTurns[t] ELSE taken
      <4>1. CASE t \in 1..n
        BY <2>4, <2>5, <2>6, <4>1
      <4>2. CASE t = n + 1
        BY <2>1, <2>4, <2>5, <4>2
      <4> QED BY <2>5, <4>1, <4>2
    <3> QED BY <2>7, <3>1
  <2>9. Append(ConsumedTurns, taken) = [t \in 1..(n + 1) |-> IF t <= n THEN ConsumedTurns[t] ELSE taken]
    <3> DEFINE S == {ConsumedTurns[t] : t \in 1..n} \cup {taken}
               e(t) == Entries(history[t].inputs)
    <3>1. \A t \in 1..n : e(t) \in S
      BY <2>6
    <3>2. ConsumedTurns = [t \in 1..n |-> e(t)]
      BY <2>6
    <3> HIDE DEF e, S
    <3>3. ConsumedTurns \in Seq(S) /\ Len(ConsumedTurns) = n
      BY <2>5, <3>1, <3>2, IsASeq, LenProperties
    <3>4. taken \in S
      BY DEF S
    <3>5. /\ Append(ConsumedTurns, taken) \in Seq(S)
          /\ Len(Append(ConsumedTurns, taken)) = n + 1
          /\ \A t \in 1..n : Append(ConsumedTurns, taken)[t] = ConsumedTurns[t]
          /\ Append(ConsumedTurns, taken)[n + 1] = taken
      BY <3>3, <3>4, AppendProperties
    <3>6. Append(ConsumedTurns, taken) =
            [t \in 1..(n + 1) |-> Append(ConsumedTurns, taken)[t]]
      BY <3>5, LenProperties
    <3> QED BY <2>5, <3>5, <3>6
  <2>10. ConsumedTurns' = Append(ConsumedTurns, taken)
    BY <2>8, <2>9
  <2> QED BY <1>7, <2>10 DEF Ledger!Consume, Save, taken
<1> QED BY <1>2, <1>4, <1>8, <1>9

\* /clear: what is queued is dropped and the conversation starts again.
LEMMA ClearClears ==
  ASSUME TypeInv, LedgerInv, Clear
  PROVE  Ledger!ClearAll /\ QueueIsTail'
<1>1. pending' = <<>> /\ history' = <<>> /\ asked' = asked /\ Len(<<>>) = 0
  BY EmptySeq DEF Clear
<1>2. Consumed' = Len(asked)
  BY <1>1, QueueFacts DEF Consumed, TypeInv
<1>3. ConsumedTurns' = <<>>
  BY <1>1 DEF ConsumedTurns, Entries
<1>4. QueueIsTail'
  BY <1>1, QueueFacts DEF QueueIsTail, TypeInv
<1> QED BY <1>1, <1>2, <1>3, <1>4 DEF Ledger!ClearAll

\* Where the targets of pauses come from.
LEMMA TargetStep ==
  ASSUME TypeInv, PrefixInv, LedgerInv,
         IdSet(pending) \subseteq IdSet(pending'),
         paused' \in {paused, NoPause} \/ paused'.target \in IdSet(pending),
         run'.target \in {0, run.target} \/ run'.target \in IdSet(pending)
  PROVE  TargetsQueued'
BY DEF LedgerInv, TargetsQueued, NoPause, IdSet

LEMMA LedgerStep ==
  ASSUME RuntimeAssumption, TypeInv, PrefixInv, LedgerInv, [Next]_vars
  PROVE  LedgerInv' /\ [Ledger!LedgerNext]_(Ledger!ledgerVars)
<1> USE DEF TypeInv
<1>a. ASSUME UNCHANGED <<pending, asked, history>>,
             paused' \in {paused, NoPause} \/ paused'.target \in IdSet(pending),
             run'.target \in {0, run.target} \/ run'.target \in IdSet(pending)
      PROVE  LedgerInv' /\ [Ledger!LedgerNext]_(Ledger!ledgerVars)
  <2>1. QueueIsTail' /\ IdSet(pending') = IdSet(pending)
    BY <1>a DEF LedgerInv, QueueIsTail, Consumed, IdSet
  <2> QED BY <1>a, <2>1, TargetStep, LedgerStutter DEF LedgerInv
<1>b. IdleRun.target = 0
  BY DEF IdleRun
<1>c. \A who \in InputIds : \A q \in Seq(Items) :
        Acquire(who, q) \/ (run.pc = "idle" /\ Grant(who, q)) \/ Load(who, q)
          => run'.target \in {0, run.target}
  BY AcquireHoldsPrefix, LoadHoldsPrefix DEF Loaded
<1>d. 0 \in InputIds /\ 1..MaxInputs \subseteq InputIds /\ pending \in Seq(Items)
  BY DEF InputIds, RuntimeAssumption, TypeOK
<1>1. CASE UNCHANGED vars
  BY <1>1, <1>a DEF vars
<1>2. CASE PrepareFails \/ ProviderFails \/ SaveFails \/ CancelRun
  BY <1>2, <1>a, <1>b DEF PrepareFails, ProviderFails, SaveFails, CancelRun, EndRun
<1>3. CASE PrepareDone \/ ProviderCallsTools \/ ProviderAnswers \/ ContinueLoop
           \/ InjectAfterTools \/ InjectAfterCandidate
  <2>1. run'.target = run.target
    BY <1>3 DEF PrepareDone, ProviderCallsTools, ProviderAnswers, ContinueLoop, InjectAfterTools,
                InjectAfterCandidate, TypeOK, Runs
  <2>2. UNCHANGED <<pending, asked, history>> /\ paused' \in {paused, NoPause}
    BY <1>3 DEF PrepareDone, ProviderCallsTools, ProviderAnswers, ContinueLoop, InjectAfterTools,
                InjectAfterCandidate
  <2> QED BY <1>a, <2>1, <2>2
<1>4. CASE BeginTools \/ ToolsDone \/ FinishResponse \/ CloseAtLimit
  <2>1. run'.target \in {0, run.target}
    BY <1>4, <1>b DEF BeginTools, ToolsDone, FinishResponse, CloseAtLimit, Finish, SaveCheckpoint,
                EndRun, TypeOK, Runs
  <2>2. UNCHANGED <<pending, asked, history, paused>>
    BY <1>4 DEF BeginTools, ToolsDone, FinishResponse, CloseAtLimit, Finish
  <2> QED BY <1>a, <2>1, <2>2
<1>5. CASE Save
  <2>1. paused' = NoPause /\ run' = IdleRun
    BY <1>5, SaveConsumes DEF Save, EndRun
  <2>2. TargetsQueued'
    BY <1>b, <2>1 DEF TargetsQueued
  <2> QED BY <1>5, <2>2, SaveConsumes DEF LedgerInv, Ledger!LedgerNext
<1>6. CASE CapturePausedRun
  <2>1. run.target \in IdSet(pending) /\ run' = IdleRun /\ UNCHANGED <<pending, asked, history>>
    BY <1>6 DEF CapturePausedRun, EndRun, LedgerInv, TargetsQueued
  <2>2. paused' = paused \/ paused'.target = run.target
    BY <1>6 DEF CapturePausedRun, RetainPrefix
  <2> QED BY <1>a, <1>b, <2>1, <2>2
<1>7. ASSUME NEW size \in Sizes, EnqueueInput(size) \/ Submit(size)
      PROVE  LedgerInv' /\ [Ledger!LedgerNext]_(Ledger!ledgerVars)
  <2>1. Enqueue(size) /\ UNCHANGED <<history, paused>>
    BY <1>7 DEF EnqueueInput, Submit
  <2>2. Ledger!Accept /\ QueueIsTail' /\ IdSet(pending) \subseteq IdSet(pending')
    BY <2>1, EnqueueAccepts
  <2>3. run'.target \in {0, run.target}
    <3>1. CASE EnqueueInput(size)
      BY <3>1 DEF EnqueueInput
    <3>2. CASE Submit(size)
      <4>1. Len(asked) + 1 \in InputIds
        BY <2>1, QueueFacts DEF Enqueue, InputIds, RuntimeAssumption
      <4>2. NewItem(size) \in Items
        BY QueueFacts DEF NewItem, Item, Items, RuntimeAssumption
      <4>3. Append(pending, NewItem(size)) \in Seq(Items)
        BY <1>d, <4>2, AppendProperties
      <4>4. Acquire(Len(asked) + 1, Append(pending, NewItem(size)))
        BY <3>2 DEF Submit
      <4> QED BY <1>c, <4>1, <4>3, <4>4
    <3> QED BY <1>7, <3>1, <3>2
  <2>4. TargetsQueued'
    BY <2>1, <2>2, <2>3, TargetStep
  <2> QED BY <2>2, <2>4 DEF LedgerInv, Ledger!LedgerNext
<1>8. ASSUME NEW size \in Sizes, Revise(size)
      PROVE  LedgerInv' /\ [Ledger!LedgerNext]_(Ledger!ledgerVars)
  <2>1. UNCHANGED <<run, paused>>
    BY <1>8 DEF Revise
  <2>2. TargetsQueued'
    BY <1>8, <2>1, ReviseEdits, TargetStep
  <2> QED BY <1>8, <2>2, ReviseEdits DEF LedgerInv, Ledger!LedgerNext
<1>9. ASSUME NEW id \in 1..MaxInputs, Resubmit(id)
      PROVE  LedgerInv' /\ [Ledger!LedgerNext]_(Ledger!ledgerVars)
  <2>1. UNCHANGED <<pending, asked, history, paused>> /\ Acquire(id, pending)
    BY <1>9 DEF Resubmit
  <2> QED BY <1>a, <1>c, <1>d, <2>1
<1>10. CASE RunNext \/ HandOff \/ RestartPending
  <2>1. UNCHANGED <<pending, asked, history, paused>>
    BY <1>10 DEF RunNext, HandOff, RestartPending
  <2>2. run'.target \in {0, run.target}
    <3>1. CASE RunNext
      BY <3>1, <1>c, <1>d DEF RunNext
    <3>2. CASE HandOff
      <4>1. Head(waiters) \in InputIds
        BY <3>2, HeadTailProperties DEF HandOff, TypeOK
      <4> QED BY <3>2, <4>1, <1>c, <1>d DEF HandOff
    <3>3. CASE RestartPending
      BY <3>3, <1>c, <1>d DEF RestartPending, RestartRun
    <3> QED BY <1>10, <3>1, <3>2, <3>3
  <2> QED BY <1>a, <2>1, <2>2
<1>11. ASSUME NEW id \in 1..MaxInputs, PauseInactive(id) \/ PauseActive(id)
       PROVE  LedgerInv' /\ [Ledger!LedgerNext]_(Ledger!ledgerVars)
  <2>1. id \in IdSet(pending) /\ UNCHANGED <<pending, asked, history>>
    BY <1>11 DEF PauseInactive, PauseActive, MayPause
  <2>2. paused' = paused \/ paused'.target = id
    BY <1>11 DEF PauseInactive, PauseActive, RetainPrefix, NoPause
  <2>3. run'.target = run.target \/ run'.target = id
    BY <1>11 DEF PauseInactive, PauseActive, TypeOK, Runs
  <2> QED BY <1>a, <2>1, <2>2, <2>3
<1>12. ASSUME NEW k \in DOMAIN waiters, CancelWaiter(k)
       PROVE  LedgerInv' /\ [Ledger!LedgerNext]_(Ledger!ledgerVars)
  BY <1>12, <1>a DEF CancelWaiter
<1>13. CASE Clear
  <2>1. run.pc = "idle" /\ run = IdleRun /\ run' = run /\ paused' = NoPause
    BY <1>13 DEF Clear, PrefixInv
  <2>2. TargetsQueued'
    BY <1>b, <2>1 DEF TargetsQueued
  <2> QED BY <1>13, <2>2, ClearClears DEF LedgerInv, Ledger!LedgerNext
<1>14. CASE Crash
  BY <1>14, <1>a, <1>b DEF Crash, durable
<1> QED
  BY <1>1, <1>2, <1>3, <1>4, <1>5, <1>6, <1>7, <1>8, <1>9, <1>10, <1>11, <1>12, <1>13, <1>14
  DEF Next, RunStep, ChannelCall

LEMMA LedgerStart ==
  ASSUME Init
  PROVE  LedgerInv /\ Ledger!LedgerInit
<1>1. Len(<<>>) = 0
  BY EmptySeq
<1>2. LedgerInv
  BY <1>1 DEF Init, LedgerInv, QueueIsTail, TargetsQueued, IdleRun
<1>3. Ledger!LedgerInit
  BY <1>1 DEF Init, Ledger!LedgerInit, Consumed, ConsumedTurns, Entries
<1> QED BY <1>2, <1>3

\* The detailed specification implements the abstract one: accepted inputs are
\* consumed exactly once, in order, at the revision the user last confirmed,
\* under every interleaving, failure and crash of the model and for every value
\* of its constants.
THEOREM SessionImplementsLedger == Spec => ImplementsLedger
<1>1. Spec => []LedgerInv
  BY RuntimeAssumption, TypeInvariant, PrefixInvariant, LedgerStart, LedgerStep, PTL DEF Spec
<1>2. Spec => Ledger!LedgerInit /\ [][Ledger!LedgerNext]_(Ledger!ledgerVars)
  BY <1>1, RuntimeAssumption, TypeInvariant, PrefixInvariant, LedgerStart, LedgerStep, PTL DEF Spec
<1> QED BY <1>2, PTL DEF ImplementsLedger, Ledger!LedgerSpec

-----------------------------------------------------------------------------
(* Messages and tool batches *)

\* The call at position i is followed by the results of its batch.
AnsweredAt(msgs, i) ==
  msgs[i].kind = "call" =>
    /\ i < Len(msgs)
    /\ msgs[i + 1].kind \in {"result", "unknown"} /\ msgs[i + 1].ref = msgs[i].ref

Answered(msgs) == \A i \in 1..Len(msgs) : AnsweredAt(msgs, i)

\* The last message is the call of a batch whose results are still to come.
OneOpen(msgs) ==
  /\ msgs # <<>> /\ Last(msgs).kind = "call"
  /\ \A i \in 1..(Len(msgs) - 1) : AnsweredAt(msgs, i)

\* longer is msgs with messages behind it that are no calls.
NoCallsBehind(msgs, longer) ==
  /\ Len(msgs) <= Len(longer)
  /\ \A i \in 1..Len(msgs) : longer[i] = msgs[i]
  /\ \A i \in (Len(msgs) + 1)..Len(longer) : longer[i].kind # "call"

LEMMA AppendFacts ==
  ASSUME NEW S, NEW s \in Seq(S), NEW x \in S
  PROVE  /\ Append(s, x) \in Seq(S)
         /\ Len(Append(s, x)) = Len(s) + 1
         /\ \A i \in 1..Len(s) : Append(s, x)[i] = s[i]
         /\ Append(s, x)[Len(s) + 1] = x
<1>1. Len(s) \in Nat
  BY LenProperties
<1> QED BY <1>1, AppendProperties

LEMMA ConcatFacts ==
  ASSUME NEW S, NEW s \in Seq(S), NEW t \in Seq(S)
  PROVE  /\ s \o t \in Seq(S)
         /\ Len(s \o t) = Len(s) + Len(t)
         /\ \A i \in 1..Len(s) : (s \o t)[i] = s[i]
         /\ \A i \in 1..Len(t) : (s \o t)[Len(s) + i] = t[i]
<1>1. Len(s) \in Nat /\ Len(t) \in Nat
  BY LenProperties
<1>2. \A i \in 1..(Len(s) + Len(t)) :
        (s \o t)[i] = IF i <= Len(s) THEN s[i] ELSE t[i - Len(s)]
  BY ConcatProperties
<1>3. ASSUME NEW i \in 1..Len(s)
      PROVE  i \in 1..(Len(s) + Len(t)) /\ i <= Len(s)
  BY <1>1
<1>4. ASSUME NEW i \in 1..Len(t)
      PROVE  Len(s) + i \in 1..(Len(s) + Len(t)) /\ ~(Len(s) + i <= Len(s)) /\ (Len(s) + i) - Len(s) = i
  BY <1>1
<1>5. \A i \in 1..Len(s) : (s \o t)[i] = s[i]
  BY <1>2, <1>3
<1>6. \A i \in 1..Len(t) : (s \o t)[Len(s) + i] = t[i]
  BY <1>2, <1>4
<1> QED BY <1>5, <1>6, ConcatProperties

LEMMA NoCallsAppended ==
  ASSUME NEW msgs \in Seq(Messages), NEW m \in Messages, m.kind # "call"
  PROVE  NoCallsBehind(msgs, Append(msgs, m))
<1>1. Len(msgs) \in Nat
  BY LenProperties
<1> DEFINE s == Append(msgs, m)
<1>2. Len(s) = Len(msgs) + 1 /\ (\A i \in 1..Len(msgs) : s[i] = msgs[i]) /\ s[Len(msgs) + 1] = m
  BY AppendFacts
<1> HIDE DEF s
<1>3. \A i \in (Len(msgs) + 1)..Len(s) : i = Len(msgs) + 1
  BY <1>1, <1>2
<1> QED BY <1>1, <1>2, <1>3 DEF NoCallsBehind, s

LEMMA NoCallsConcatenated ==
  ASSUME NEW msgs \in Seq(Messages), NEW more \in Seq(Messages),
         \A i \in 1..Len(more) : more[i].kind # "call"
  PROVE  NoCallsBehind(msgs, msgs \o more)
<1> DEFINE s == msgs \o more
<1>1. Len(msgs) \in Nat /\ Len(more) \in Nat
  BY LenProperties
<1>2. /\ Len(s) = Len(msgs) + Len(more)
      /\ \A i \in 1..Len(msgs) : s[i] = msgs[i]
      /\ \A i \in 1..Len(more) : s[Len(msgs) + i] = more[i]
  BY ConcatFacts
<1> HIDE DEF s
<1>3. ASSUME NEW i \in (Len(msgs) + 1)..Len(s)
      PROVE  s[i].kind # "call"
  <2>1. i - Len(msgs) \in 1..Len(more) /\ Len(msgs) + (i - Len(msgs)) = i
    BY <1>1, <1>2
  <2>2. s[i] = more[i - Len(msgs)]
    BY <1>2, <2>1
  <2> QED BY <2>1, <2>2
<1> QED BY <1>1, <1>2, <1>3 DEF NoCallsBehind, s

LEMMA NoCallsTransitive ==
  ASSUME NEW a \in Seq(Messages), NEW b \in Seq(Messages), NEW c \in Seq(Messages),
         NoCallsBehind(a, b), NoCallsBehind(b, c)
  PROVE  NoCallsBehind(a, c)
<1>1. Len(a) \in Nat /\ Len(b) \in Nat /\ Len(c) \in Nat
  BY LenProperties
<1>2. Len(a) <= Len(b) /\ Len(b) <= Len(c)
  BY DEF NoCallsBehind
<1>3. ASSUME NEW i \in 1..Len(a)
      PROVE  c[i] = a[i]
  <2>1. i \in 1..Len(b)
    BY <1>1, <1>2
  <2> QED BY <2>1 DEF NoCallsBehind
<1>4. ASSUME NEW i \in (Len(a) + 1)..Len(c)
      PROVE  c[i].kind # "call"
  <2>1. i \in (Len(a) + 1)..Len(b) \/ i \in (Len(b) + 1)..Len(c)
    BY <1>1, <1>2
  <2>2. CASE i \in (Len(a) + 1)..Len(b)
    <3>1. i \in 1..Len(b)
      BY <1>1, <2>2
    <3> QED BY <2>2, <3>1 DEF NoCallsBehind
  <2>3. CASE i \in (Len(b) + 1)..Len(c)
    BY <2>3 DEF NoCallsBehind
  <2> QED BY <2>1, <2>2, <2>3
<1> QED BY <1>1, <1>2, <1>3, <1>4 DEF NoCallsBehind

\* Messages that are no calls leave every answered call answered.
LEMMA StaysAnswered ==
  ASSUME NEW a \in Seq(Messages), NEW b \in Seq(Messages), NoCallsBehind(a, b), Answered(a)
  PROVE  Answered(b)
<1> SUFFICES ASSUME NEW i \in 1..Len(b), b[i].kind = "call"
             PROVE  /\ i < Len(b)
                    /\ b[i + 1].kind \in {"result", "unknown"} /\ b[i + 1].ref = b[i].ref
  BY DEF Answered, AnsweredAt
<1>1. Len(a) \in Nat /\ Len(b) \in Nat /\ Len(a) <= Len(b)
  BY LenProperties DEF NoCallsBehind
<1>2. i \in 1..Len(a)
  <2>1. i \notin (Len(a) + 1)..Len(b)
    BY DEF NoCallsBehind
  <2> QED BY <1>1, <2>1
<1>3. a[i] = b[i]
  BY <1>2 DEF NoCallsBehind
<1>4. i < Len(a) /\ a[i + 1].kind \in {"result", "unknown"} /\ a[i + 1].ref = a[i].ref
  BY <1>2, <1>3 DEF Answered, AnsweredAt
<1>5. i + 1 \in 1..Len(a)
  BY <1>1, <1>4
<1>6. b[i + 1] = a[i + 1]
  BY <1>5 DEF NoCallsBehind
<1> QED BY <1>1, <1>3, <1>4, <1>6

\* The results of the open batch close it.
LEMMA BecomesAnswered ==
  ASSUME NEW a \in Seq(Messages), NEW b \in Seq(Messages), NoCallsBehind(a, b), OneOpen(a),
         Len(b) > Len(a),
         b[Len(a) + 1].kind \in {"result", "unknown"}, b[Len(a) + 1].ref = Last(a).ref
  PROVE  Answered(b)
<1> SUFFICES ASSUME NEW i \in 1..Len(b), b[i].kind = "call"
             PROVE  /\ i < Len(b)
                    /\ b[i + 1].kind \in {"result", "unknown"} /\ b[i + 1].ref = b[i].ref
  BY DEF Answered, AnsweredAt
<1>1. Len(a) \in Nat /\ Len(b) \in Nat /\ Len(a) <= Len(b) /\ Len(a) # 0
  BY LenProperties, EmptySeq DEF NoCallsBehind, OneOpen
<1>2. i \in 1..Len(a)
  <2>1. i \notin (Len(a) + 1)..Len(b)
    BY DEF NoCallsBehind
  <2> QED BY <1>1, <2>1
<1>3. a[i] = b[i]
  BY <1>2 DEF NoCallsBehind
<1>4. CASE i = Len(a)
  <2>1. Last(a) = b[i]
    BY <1>3, <1>4 DEF Last
  <2> QED BY <1>1, <1>4, <2>1
<1>5. CASE i # Len(a)
  <2>1. i \in 1..(Len(a) - 1)
    BY <1>1, <1>2, <1>5
  <2>2. i < Len(a) /\ a[i + 1].kind \in {"result", "unknown"} /\ a[i + 1].ref = a[i].ref
    BY <1>3, <2>1 DEF OneOpen, AnsweredAt
  <2>3. i + 1 \in 1..Len(a)
    BY <1>1, <2>2
  <2>4. b[i + 1] = a[i + 1]
    BY <2>3 DEF NoCallsBehind
  <2> QED BY <1>1, <1>3, <2>2, <2>4
<1> QED BY <1>4, <1>5

\* A call behind answered ones.
LEMMA CallAppended ==
  ASSUME NEW msgs \in Seq(Messages), Answered(msgs), NEW m \in Messages, m.kind = "call"
  PROVE  OneOpen(Append(msgs, m))
<1> DEFINE s == Append(msgs, m)
           n == Len(msgs)
<1>1. n \in Nat
  BY LenProperties
<1>2. s \in Seq(Messages) /\ Len(s) = n + 1 /\ (\A i \in 1..n : s[i] = msgs[i]) /\ s[n + 1] = m
  BY AppendFacts
<1> HIDE DEF s, n
<1>3. s # <<>> /\ Last(s) = m
  BY <1>1, <1>2, EmptySeq DEF Last
<1>4. ASSUME NEW i \in 1..(Len(s) - 1), s[i].kind = "call"
      PROVE  /\ i < Len(s)
             /\ s[i + 1].kind \in {"result", "unknown"} /\ s[i + 1].ref = s[i].ref
  <2>1. i \in 1..n
    BY <1>1, <1>2
  <2>2. i < n /\ msgs[i + 1].kind \in {"result", "unknown"} /\ msgs[i + 1].ref = msgs[i].ref
    BY <1>2, <1>4, <2>1 DEF Answered, AnsweredAt, n
  <2>3. i + 1 \in 1..n
    BY <1>1, <2>2
  <2> QED BY <1>1, <1>2, <2>1, <2>2, <2>3
<1>5. \A i \in 1..(Len(s) - 1) : AnsweredAt(s, i)
  BY <1>4 DEF AnsweredAt
<1> QED BY <1>3, <1>5 DEF OneOpen, s

LEMMA BatchesMeans ==
  ASSUME NEW msgs \in Seq(Messages), NEW b
  PROVE  b \in BatchesOf(msgs) <=> \E i \in 1..Len(msgs) : msgs[i].kind = "call" /\ msgs[i].ref = b
<1>1. DOMAIN msgs = 1..Len(msgs)
  BY LenProperties
<1>2. ASSUME NEW i \in 1..Len(msgs), msgs[i].kind = "call", msgs[i].ref = b
      PROVE  b \in BatchesOf(msgs)
  <2>1. msgs[i] \in Range(msgs)
    BY <1>1 DEF Range
  <2>2. msgs[i] \in {n \in Range(msgs) : n.kind = "call"}
    BY <1>2, <2>1
  <2> QED BY <1>2, <2>2 DEF BatchesOf
<1>3. ASSUME b \in BatchesOf(msgs)
      PROVE  \E i \in 1..Len(msgs) : msgs[i].kind = "call" /\ msgs[i].ref = b
  <2>1. PICK m \in {n \in Range(msgs) : n.kind = "call"} : b = m.ref
    BY <1>3 DEF BatchesOf
  <2>2. PICK i \in DOMAIN msgs : msgs[i] = m
    BY <2>1 DEF Range
  <2> QED BY <1>1, <2>1, <2>2
<1> QED BY <1>2, <1>3

\* Messages that are no calls name no further batch.
LEMMA SameBatches ==
  ASSUME NEW a \in Seq(Messages), NEW b \in Seq(Messages), NoCallsBehind(a, b)
  PROVE  BatchesOf(b) = BatchesOf(a)
<1>1. Len(a) \in Nat /\ Len(b) \in Nat /\ Len(a) <= Len(b)
  BY LenProperties DEF NoCallsBehind
<1>2. ASSUME NEW n \in BatchesOf(b)
      PROVE  n \in BatchesOf(a)
  <2>1. PICK i \in 1..Len(b) : b[i].kind = "call" /\ b[i].ref = n
    BY BatchesMeans
  <2>2. i \in 1..Len(a)
    <3>1. i \notin (Len(a) + 1)..Len(b)
      BY <2>1 DEF NoCallsBehind
    <3> QED BY <1>1, <3>1
  <2>3. a[i] = b[i]
    BY <2>2 DEF NoCallsBehind
  <2> QED BY <2>1, <2>2, <2>3, BatchesMeans
<1>3. ASSUME NEW n \in BatchesOf(a)
      PROVE  n \in BatchesOf(b)
  <2>1. PICK i \in 1..Len(a) : a[i].kind = "call" /\ a[i].ref = n
    BY BatchesMeans
  <2>2. i \in 1..Len(b) /\ b[i] = a[i]
    BY <1>1 DEF NoCallsBehind
  <2> QED BY <2>1, <2>2, BatchesMeans
<1> QED BY <1>2, <1>3

LEMMA BatchAppended ==
  ASSUME NEW msgs \in Seq(Messages), NEW m \in Messages, m.kind = "call"
  PROVE  BatchesOf(Append(msgs, m)) = BatchesOf(msgs) \cup {m.ref}
<1> DEFINE s == Append(msgs, m)
           n == Len(msgs)
<1>1. n \in Nat
  BY LenProperties
<1>2. s \in Seq(Messages) /\ Len(s) = n + 1 /\ (\A i \in 1..n : s[i] = msgs[i]) /\ s[n + 1] = m
  BY AppendFacts
<1> HIDE DEF s
<1>3. ASSUME NEW b \in BatchesOf(s)
      PROVE  b \in BatchesOf(msgs) \cup {m.ref}
  <2>1. PICK i \in 1..Len(s) : s[i].kind = "call" /\ s[i].ref = b
    BY <1>2, BatchesMeans
  <2>2. i \in 1..n \/ i = n + 1
    BY <1>1, <1>2
  <2>3. CASE i \in 1..n
    <3>1. msgs[i].kind = "call" /\ msgs[i].ref = b
      BY <1>2, <2>1, <2>3
    <3> QED BY <2>3, <3>1, BatchesMeans
  <2>4. CASE i = n + 1
    BY <1>2, <2>1, <2>4
  <2> QED BY <2>2, <2>3, <2>4
<1>4. ASSUME NEW b \in BatchesOf(msgs)
      PROVE  b \in BatchesOf(s)
  <2>1. PICK i \in 1..n : msgs[i].kind = "call" /\ msgs[i].ref = b
    BY BatchesMeans
  <2>2. i \in 1..Len(s) /\ s[i] = msgs[i]
    BY <1>1, <1>2
  <2> QED BY <1>2, <2>1, <2>2, BatchesMeans
<1>5. m.ref \in BatchesOf(s)
  <2>1. n + 1 \in 1..Len(s)
    BY <1>1, <1>2
  <2> QED BY <1>2, <2>1, BatchesMeans
<1> QED BY <1>3, <1>4, <1>5 DEF s

LEMMA NoMessages ==
  /\ <<>> \in Seq(Messages) /\ Len(<<>>) = 0
  /\ Answered(<<>>) /\ BatchesOf(<<>>) = {}
<1>1. <<>> \in Seq(Messages) /\ Len(<<>>) = 0
  BY EmptySeq
<1>2. ASSUME NEW b \in BatchesOf(<<>>)
      PROVE  FALSE
  <2>1. PICK i \in 1..Len(<<>>) : TRUE
    BY <1>1, BatchesMeans
  <2> QED BY <1>1, <2>1
<1>3. BatchesOf(<<>>) = {}
  BY <1>2
<1> QED BY <1>1, <1>3 DEF Answered

\* User messages are no calls.
LEMMA UserMessages ==
  ASSUME NEW items \in Seq(Items)
  PROVE  /\ ToUserMessages(items) \in Seq(Messages)
         /\ Len(ToUserMessages(items)) = Len(items)
         /\ \A i \in 1..Len(items) : ToUserMessages(items)[i] = ToUserMessage(items[i])
         /\ \A i \in 1..Len(ToUserMessages(items)) : ToUserMessages(items)[i].kind # "call"
<1> DEFINE s == ToUserMessages(items)
           n == Len(items)
<1>1. n \in Nat /\ DOMAIN items = 1..n
  BY LenProperties
<1>2. s \in Seq(Messages)
  BY ToUserMessagesType
<1>3. s = [i \in 1..n |-> ToUserMessage(items[i])]
  BY <1>1 DEF ToUserMessages
<1>4. DOMAIN s = 1..Len(s) /\ Len(s) \in Nat
  BY <1>2, LenProperties
<1>5. DOMAIN s = 1..n
  BY <1>3
<1>6. Len(s) = n
  <2>1. ASSUME NEW m \in Nat, NEW k \in Nat, 1..m = 1..k
        PROVE  m = k
    <3>1. k \in 1..k <=> k \in 1..m
      BY <2>1, Zenon
    <3>2. m \in 1..k <=> m \in 1..m
      BY <2>1, Zenon
    <3> QED BY <3>1, <3>2
  <2>2. 1..Len(s) = 1..n
    BY <1>4, <1>5, Zenon
  <2> HIDE DEF s, n
  <2> QED BY <1>1, <1>4, <2>1, <2>2, Zenon
<1>7. \A i \in 1..n : s[i] = ToUserMessage(items[i])
  BY <1>3
<1> HIDE DEF s
<1>8. \A item : ToUserMessage(item).kind = "user"
  BY DEF ToUserMessage, Message
<1>9. \A i \in 1..n : s[i].kind # "call"
  <2> SUFFICES ASSUME NEW i \in 1..n PROVE s[i].kind # "call"
    OBVIOUS
  <2>1. s[i] = ToUserMessage(items[i])
    BY <1>7
  <2>2. s[i].kind = "user"
    BY <1>8, <2>1, Zenon
  <2> QED BY <2>2
<1> QED BY <1>2, <1>6, <1>7, <1>9 DEF s

-----------------------------------------------------------------------------
(* The steps of a Session nobody pauses *)

NoPauses == "pause" \notin Events

\* Without pauses nothing is retained, selected or latched.
Calm == paused = NoPause /\ run.target = 0 /\ latch = FALSE

\* The run goes on as it is or ends; nothing leaves the queue.
Stays ==
  /\ run' \in {run, IdleRun}
  /\ UNCHANGED <<history, checkpoint, ran>>
  /\ IdSet(pending) \subseteq IdSet(pending')

\* The run goes on, with further messages that are no calls.
Talks ==
  /\ run.pc \notin {"idle", "tools"} /\ run'.pc \notin {"idle", "tools", "prepare"}
  /\ run.pc # "prepare" => NoCallsBehind(run.msgs, run'.msgs)
  /\ Answered(run'.msgs) \/ run.pc # "prepare"
  /\ run'.target = run.target
  /\ UNCHANGED <<pending, history, checkpoint, ran>>

\* A caller who has the lock loads the Session with the queue it finds.
Loads ==
  /\ run.pc = "idle"
  /\ pending' \in Seq(Items) /\ IdSet(pending) \subseteq IdSet(pending')
  /\ UNCHANGED <<history, ran>>
  /\ \E who \in InputIds : Load(who, pending')

\* A request for the lock: nothing, or LOAD.
LEMMA AcquireShape ==
  ASSUME TypeInv, NEW who \in InputIds,
         Acquire(who, pending') \/ (run.pc = "idle" /\ Grant(who, pending')),
         pending' \in Seq(Items), IdSet(pending) \subseteq IdSet(pending'),
         UNCHANGED <<history, ran>>
  PROVE  Stays \/ Loads
<1>1. CASE UNCHANGED <<run, checkpoint>>
  BY <1>1 DEF Stays
<1>2. CASE run.pc = "idle" /\ Load(who, pending')
  BY <1>2 DEF Loads
<1> QED BY <1>1, <1>2 DEF Acquire, Grant

LEMMA EnqueueGrows ==
  ASSUME RuntimeAssumption, TypeInv, NEW size \in Sizes, Enqueue(size)
  PROVE  /\ NewItem(size) \in Items /\ NewItem(size).rev = 1
         /\ pending' = Append(pending, NewItem(size)) /\ pending' \in Seq(Items)
         /\ IdSet(pending) \subseteq IdSet(pending')
         /\ Len(asked) + 1 \in InputIds
<1>1. NewItem(size) \in Items /\ NewItem(size).rev = 1
  BY QueueFacts DEF NewItem, Item, Items, TypeInv, RuntimeAssumption
<1>2. pending \in Seq(Items) /\ pending' = Append(pending, NewItem(size))
  BY DEF Enqueue, TypeInv, TypeOK
<1> DEFINE new == NewItem(size)
<1>3. /\ pending' \in Seq(Items) /\ Len(pending') = Len(pending) + 1
      /\ \A i \in 1..Len(pending) : pending'[i] = pending[i]
  <2>1. new \in Items /\ pending' = Append(pending, new)
    BY <1>1, <1>2
  <2> HIDE DEF new
  <2> QED BY <1>2, <2>1, AppendFacts
<1>4. DOMAIN pending = 1..Len(pending) /\ DOMAIN pending' = 1..Len(pending') /\ Len(pending) \in Nat
  BY <1>2, <1>3, LenProperties
<1>5. IdSet(pending) \subseteq IdSet(pending')
  <2> SUFFICES ASSUME NEW i \in 1..Len(pending)
               PROVE  pending[i].id \in IdSet(pending')
    BY <1>4 DEF IdSet
  <2>1. i \in DOMAIN pending' /\ pending'[i] = pending[i]
    BY <1>3, <1>4
  <2> QED BY <2>1 DEF IdSet
<1>6. Len(asked) + 1 \in InputIds
  BY QueueFacts DEF Enqueue, InputIds, RuntimeAssumption, TypeInv
<1> QED BY <1>1, <1>2, <1>3, <1>5, <1>6

\* Steps of the run that only add user messages or an intermediate answer.
LEMMA TalkShape ==
  ASSUME RuntimeAssumption, TypeInv, Calm,
         \/ PrepareDone \/ ProviderCallsTools \/ ProviderAnswers \/ ContinueLoop
         \/ InjectAfterTools \/ InjectAfterCandidate
  PROVE  Talks
<1> USE DEF TypeInv
<1>a. PICK r \in Runs : r = run
  BY DEF TypeOK
<1>b. \A turn : LoopAt(turn) \notin {"idle", "tools", "prepare"}
  BY DEF LoopAt
<1>c. r.msgs \in Seq(Messages) /\ NoCallsBehind(r.msgs, r.msgs)
  <2>1. r.msgs \in Seq(Messages)
    BY <1>a, RunFields
  <2>2. Len(r.msgs) \in Nat
    BY <2>1, LenProperties
  <2> QED BY <2>1, <2>2 DEF NoCallsBehind
<1>d. pending \in Seq(Items) /\ run.inc \in Seq(Items) /\ run.accepted \in Int
  BY RunFields DEF TypeOK
<1>1. CASE PrepareDone
  <2> DEFINE msgs == paused.msgs \o ToUserMessages(UnseenInputs)
  <2>1. UnseenInputs \in Seq(Items)
    <3>1. Len(paused.kept) \in Nat /\ Len(run.inc) \in Nat
      BY <1>d, LenProperties DEF TypeOK, Pauses
    <3>2. \A i \in (Len(paused.kept) + 1)..Len(run.inc) : run.inc[i] \in Items
      BY <1>d, <3>1, ElementOfSeq
    <3> QED BY <3>1, <3>2, SubSeqProperties DEF UnseenInputs
  <2>2. msgs = ToUserMessages(UnseenInputs)
    <3>1. paused.msgs = <<>>
      BY DEF Calm, NoPause
    <3> QED BY <2>1, <3>1, UserMessages, ConcatEmptySeq
  <2>3. Answered(msgs)
    BY <2>1, <2>2, UserMessages DEF Answered, AnsweredAt
  <2>4. run' = [r EXCEPT !.pc = LoopAt(paused.turn), !.turn = paused.turn,
                         !.initial = msgs, !.msgs = msgs]
    BY <1>1, <1>a DEF PrepareDone
  <2> HIDE DEF msgs
  <2>5. run'.pc = LoopAt(paused.turn) /\ run'.msgs = msgs /\ run'.target = r.target
    BY <2>4 DEF Runs
  <2> QED BY <1>1, <1>a, <1>b, <2>3, <2>5 DEF PrepareDone, Ready, Talks
<1>2. CASE ProviderCallsTools
  <2>1. run' = [r EXCEPT !.pc = "toolNotify"]
    BY <1>2, <1>a DEF ProviderCallsTools
  <2>2. run'.pc = "toolNotify" /\ run'.msgs = r.msgs /\ run'.target = r.target
    BY <2>1 DEF Runs
  <2> QED BY <1>2, <1>a, <1>c, <2>2 DEF ProviderCallsTools, Ready, Talks
<1>3. CASE ProviderAnswers
  <2> DEFINE count == AcceptedCount(r.turn, r.inc)
  <2>1. run' = [r EXCEPT !.pc = "injectFinal", !.accepted = count]
    BY <1>3, <1>a DEF ProviderAnswers
  <2> HIDE DEF count
  <2>2. run'.pc = "injectFinal" /\ run'.msgs = r.msgs /\ run'.target = r.target
    BY <2>1 DEF Runs
  <2> QED BY <1>3, <1>a, <1>c, <2>2 DEF ProviderAnswers, Ready, Talks
<1>4. CASE ContinueLoop
  <2>1. run' = [r EXCEPT !.pc = LoopAt(r.turn + 1), !.turn = r.turn + 1]
    BY <1>4, <1>a DEF ContinueLoop
  <2>2. run'.pc = LoopAt(r.turn + 1) /\ run'.msgs = r.msgs /\ run'.target = r.target
    BY <2>1 DEF Runs
  <2> QED BY <1>4, <1>a, <1>b, <1>c, <2>2 DEF ContinueLoop, Ready, Talks
<1> DEFINE claimed == ClaimSuffix(pending, run.inc, run.accepted)
           users == ToUserMessages(claimed)
<1>e. claimed \in Seq(Items)
  BY <1>d, ClaimSuffixType
<1> HIDE DEF claimed
<1>f. users \in Seq(Messages) /\ \A i \in 1..Len(users) : users[i].kind # "call"
  BY <1>e, UserMessages
<1> HIDE DEF users
<1>5. CASE InjectAfterTools
  <2>1. run' = [r EXCEPT !.pc = LoopAt(r.turn + 1), !.turn = r.turn + 1, !.accepted = 0,
                         !.inc = r.inc \o claimed, !.msgs = r.msgs \o users]
    BY <1>5, <1>a DEF InjectAfterTools, claimed, users
  <2>2. run'.pc = LoopAt(r.turn + 1) /\ run'.msgs = r.msgs \o users /\ run'.target = r.target
    BY <2>1 DEF Runs
  <2>3. NoCallsBehind(r.msgs, r.msgs \o users)
    BY <1>c, <1>f, NoCallsConcatenated
  <2> QED BY <1>5, <1>a, <1>b, <2>2, <2>3 DEF InjectAfterTools, Ready, Talks
<1>6. CASE InjectAfterCandidate
  <2> DEFINE said == r.msgs \o <<Text>>
  <2>1. run' = [r EXCEPT !.pc = "injectNotify", !.accepted = 0,
                         !.inc = r.inc \o claimed, !.msgs = said \o users]
    BY <1>6, <1>a DEF InjectAfterCandidate, claimed, users
  <2>2. run'.pc = "injectNotify" /\ run'.msgs = said \o users /\ run'.target = r.target
    BY <2>1 DEF Runs
  <2>3. Text \in Messages /\ Text.kind # "call"
    BY DEF Text, Message, Messages
  <2>4. <<Text>> \in Seq(Messages) /\ \A i \in 1..Len(<<Text>>) : <<Text>>[i].kind # "call"
    BY <2>3
  <2>5. said \in Seq(Messages) /\ NoCallsBehind(r.msgs, said)
    BY <1>c, <2>4, NoCallsConcatenated, ConcatProperties
  <2> HIDE DEF said
  <2>6. said \o users \in Seq(Messages) /\ NoCallsBehind(said, said \o users)
    BY <1>f, <2>5, NoCallsConcatenated, ConcatProperties
  <2>7. NoCallsBehind(r.msgs, said \o users)
    BY <1>c, <2>5, <2>6, NoCallsTransitive
  <2> QED BY <1>6, <1>a, <2>2, <2>7 DEF InjectAfterCandidate, Ready, Talks
<1> QED BY <1>1, <1>2, <1>3, <1>4, <1>5, <1>6

\* Every step of a Session nobody pauses keeps it calm, adds to the queue or takes
\* from it, and has one of these shapes.
LEMMA StepShapes ==
  ASSUME NoPauses, RuntimeAssumption, TypeInv, Calm, [Next]_vars
  PROVE  /\ paused' = NoPause /\ latch' = FALSE
         /\ \/ UNCHANGED pending
            \/ \E item \in Items : item.rev = 1 /\ pending' = Append(pending, item)
            \/ Save \/ Clear
         /\ \/ Stays \/ Talks \/ BeginTools \/ ToolsDone \/ FinishResponse \/ CloseAtLimit
            \/ Save \/ Loads \/ Clear
<1> USE DEF TypeInv
<1>a. 0 \in InputIds /\ 1..MaxInputs \subseteq InputIds /\ pending \in Seq(Items)
  BY DEF InputIds, RuntimeAssumption, TypeOK
<1>b. paused = NoPause /\ run.target = 0 /\ latch = FALSE
  BY DEF Calm
<1>c. UNCHANGED pending => pending' \in Seq(Items) /\ IdSet(pending) \subseteq IdSet(pending')
  BY <1>a
<1>1. CASE UNCHANGED vars
  BY <1>1, <1>b, <1>c DEF vars, Stays
<1>2. CASE PrepareFails \/ ProviderFails \/ SaveFails \/ CancelRun
  BY <1>2, <1>b, <1>c DEF PrepareFails, ProviderFails, SaveFails, CancelRun, EndRun, Stays
<1>3. CASE PrepareDone \/ ProviderCallsTools \/ ProviderAnswers \/ ContinueLoop
           \/ InjectAfterTools \/ InjectAfterCandidate
  <2>1. paused' \in {paused, NoPause} /\ UNCHANGED <<pending, latch>>
    BY <1>3 DEF PrepareDone, ProviderCallsTools, ProviderAnswers, ContinueLoop, InjectAfterTools,
                InjectAfterCandidate
  <2> QED BY <1>3, <1>b, <2>1, TalkShape
<1>4. CASE BeginTools \/ ToolsDone \/ FinishResponse \/ CloseAtLimit
  BY <1>4, <1>b DEF BeginTools, ToolsDone, FinishResponse, CloseAtLimit, Finish
<1>5. CASE Save
  BY <1>5, <1>b DEF Save
<1>6. ~CapturePausedRun
  BY <1>b DEF CapturePausedRun
<1>7. ASSUME NEW size \in Sizes, EnqueueInput(size) \/ Submit(size)
      PROVE  /\ UNCHANGED <<paused, latch>>
             /\ \E item \in Items : item.rev = 1 /\ pending' = Append(pending, item)
             /\ Stays \/ Loads
  <2>1. Enqueue(size) /\ UNCHANGED <<history, latch, paused, ran>>
    BY <1>7 DEF EnqueueInput, Submit
  <2>2. CASE EnqueueInput(size)
    <3>1. UNCHANGED <<run, checkpoint>>
      BY <2>2 DEF EnqueueInput
    <3> QED BY <2>1, <3>1, EnqueueGrows DEF Stays
  <2>3. CASE Submit(size)
    <3>1. Acquire(Len(asked) + 1, pending')
      BY <2>1, <2>3, EnqueueGrows DEF Submit
    <3>2. Stays \/ Loads
      BY <2>1, <3>1, EnqueueGrows, AcquireShape
    <3> QED BY <2>1, <3>2, EnqueueGrows
  <2> QED BY <1>7, <2>2, <2>3
<1>8. ~(\E size \in Sizes : Revise(size))
  BY <1>b DEF Revise
<1>9. ASSUME NEW id \in 1..MaxInputs, Resubmit(id)
      PROVE  UNCHANGED <<paused, latch, pending>> /\ (Stays \/ Loads)
  <2>1. UNCHANGED <<pending, history, latch, paused, ran>> /\ Acquire(id, pending')
    BY <1>9 DEF Resubmit
  <2> QED BY <1>a, <1>c, <2>1, AcquireShape
<1>10. CASE RunNext
  <2>1. UNCHANGED <<pending, history, latch, paused, ran>> /\ Acquire(0, pending')
    BY <1>10 DEF RunNext
  <2> QED BY <1>a, <1>b, <1>c, <2>1, AcquireShape
<1>11. CASE HandOff
  <2>1. UNCHANGED <<pending, history, latch, paused, ran>> /\ run.pc = "idle"
        /\ Grant(Head(waiters), pending')
    BY <1>11 DEF HandOff
  <2>2. Head(waiters) \in InputIds
    BY <1>11, HeadTailProperties DEF HandOff, TypeOK
  <2> QED BY <1>b, <1>c, <2>1, <2>2, AcquireShape
<1>12. ~RestartPending
  BY <1>b DEF RestartPending
<1>13. ~(\E id \in 1..MaxInputs : PauseInactive(id) \/ PauseActive(id))
  BY DEF PauseInactive, PauseActive, MayPause, NoPauses
<1>14. ASSUME NEW k \in DOMAIN waiters, CancelWaiter(k)
       PROVE  UNCHANGED <<paused, latch, pending>> /\ Stays
  BY <1>14, <1>c DEF CancelWaiter, Stays
<1>15. CASE Clear
  BY <1>15 DEF Clear
<1>16. CASE Crash
  BY <1>16, <1>b, <1>c DEF Crash, durable, Stays
<1> QED
  BY <1>b, <1>1, <1>2, <1>3, <1>4, <1>5, <1>6, <1>7, <1>8, <1>9, <1>10, <1>11, <1>12, <1>13, <1>14,
     <1>15, <1>16
  DEF Next, RunStep, ChannelCall

-----------------------------------------------------------------------------
(* Batches are answered, and started batches are kept *)

\* Nothing is revised: every queued input, and the one a checkpoint was taken for,
\* is at its first revision.
FirstRevisions ==
  /\ \A i \in 1..Len(pending) : pending[i].rev = 1
  /\ checkpoint # NoCheckpoint => checkpoint.inc[1].rev = 1

\* A run has no messages before PREPARE is through.
PrepareIsBlank == run.pc = "prepare" => run.msgs = <<>>

\* Only the batch whose tools run, or ran when a checkpoint was taken, is open.
MessagesInv ==
  /\ run.pc # "tools" => Answered(run.msgs)
  /\ run.pc = "tools" => OneOpen(run.msgs)
  /\ checkpoint.phase # "awaiting_tools" => Answered(checkpoint.msgs)
  /\ checkpoint.phase = "awaiting_tools" => OneOpen(checkpoint.msgs)
  /\ \A t \in 1..Len(history) : Answered(history[t].msgs)

Committed == UNION {BatchesOf(history[t].msgs) : t \in 1..Len(history)}

\* Started batches of which the checkpoint is the only record, but for the history.
Kept == BatchesOf(checkpoint.msgs) \cap ran

\* The history and the checkpoint hold every started batch.  What the history does
\* not hold is taken over by the run that would replace the checkpoint, and a
\* checkpoint whose input has left the queue holds nothing that the history lacks.
EffectsInv ==
  /\ ran \subseteq Committed \cup BatchesOf(checkpoint.msgs)
  /\ checkpoint # NoCheckpoint /\ checkpoint.inc[1].id \notin IdSet(pending) => Kept \subseteq Committed
  /\ run.pc # "idle" => Kept \subseteq Committed \cup BatchesOf(run.msgs)

\* The inductive invariant of NoOpenToolBatch and EffectsAccounted.
BatchInv ==
  /\ Calm
  /\ FirstRevisions
  /\ PrepareIsBlank
  /\ MessagesInv
  /\ EffectsInv

LEMMA MessagesTypes ==
  ASSUME TypeInv
  PROVE  /\ run.msgs \in Seq(Messages) /\ run.inc \in Seq(Items)
         /\ checkpoint.msgs \in Seq(Messages) /\ checkpoint.inc \in Seq(Items)
         /\ history \in Seq(Turns) /\ Len(history) \in Nat
         /\ \A t \in 1..Len(history) : history[t].msgs \in Seq(Messages)
         /\ pending \in Seq(Items)
<1>1. history \in Seq(Turns) /\ pending \in Seq(Items) /\ checkpoint \in Checkpoints /\ run \in Runs
  BY DEF TypeInv, TypeOK
<1>2. Len(history) \in Nat /\ \A t \in 1..Len(history) : history[t] \in Turns
  BY <1>1, LenProperties, ElementOfSeq
<1> QED BY <1>1, <1>2 DEF Turns, Checkpoints, Runs

LEMMA NothingKept ==
  ASSUME checkpoint = NoCheckpoint
  PROVE  Kept = {} /\ BatchesOf(checkpoint.msgs) = {} /\ Answered(checkpoint.msgs)
         /\ checkpoint.phase # "awaiting_tools"
<1>1. checkpoint.msgs = <<>> /\ checkpoint.phase = "none"
  BY DEF NoCheckpoint
<1> QED BY <1>1, NoMessages DEF Kept

\* A run or an idle Session without messages.
LEMMA BlankRun == IdleRun.pc = "idle" /\ IdleRun.msgs = <<>> /\ IdleRun.target = 0
BY DEF IdleRun

\* The first input of a run whose identity check passes heads the queue.
LEMMA RunHeadsQueue ==
  ASSUME TypeInv, IdentityHolds
  PROVE  run.inc[1].id \in IdSet(pending) /\ 1 \in 1..Len(pending) /\ run.inc[1] = pending[1]
<1>1. run.inc \in Seq(Items) /\ pending \in Seq(Items) /\ run.inc # <<>>
  BY MessagesTypes DEF IdentityHolds
<1>2. IsHead(run.inc, pending)
  BY <1>1, PrefixMeans DEF IdentityHolds
<1>3. Len(run.inc) \in Nat /\ Len(run.inc) # 0 /\ Len(pending) \in Nat /\ DOMAIN pending = 1..Len(pending)
  BY <1>1, LenProperties, EmptySeq
<1>4. 1 \in 1..Len(run.inc) /\ 1 \in 1..Len(pending)
  BY <1>2, <1>3 DEF IsHead
<1>5. pending[1] = run.inc[1]
  BY <1>2, <1>4 DEF IsHead
<1> QED BY <1>3, <1>4, <1>5 DEF IdSet

LEMMA StaysStep ==
  ASSUME TypeInv, PrefixInv, BatchInv, Stays
  PROVE  PrepareIsBlank' /\ MessagesInv' /\ EffectsInv' /\ run'.target = 0
<1>1. UNCHANGED <<history, checkpoint, ran>> /\ run' \in {run, IdleRun}
      /\ IdSet(pending) \subseteq IdSet(pending')
  BY DEF Stays
<1>2. Kept' = Kept /\ Committed' = Committed
  BY <1>1 DEF Kept, Committed
<1>3. CASE run' = run
  <2>1. PrepareIsBlank' /\ run'.target = 0
    BY <1>3 DEF BatchInv, PrepareIsBlank, Calm
  <2>2. MessagesInv'
    BY <1>1, <1>3 DEF BatchInv, MessagesInv
  <2>3. EffectsInv'
    BY <1>1, <1>2, <1>3 DEF BatchInv, EffectsInv
  <2> QED BY <2>1, <2>2, <2>3
<1>4. CASE run' = IdleRun
  <2>1. run'.pc = "idle" /\ run'.msgs = <<>> /\ run'.target = 0
    BY <1>4, BlankRun
  <2>2. PrepareIsBlank'
    BY <2>1 DEF PrepareIsBlank
  <2>3. MessagesInv'
    BY <1>1, <2>1, NoMessages DEF BatchInv, MessagesInv
  <2>4. EffectsInv'
    BY <1>1, <1>2, <2>1 DEF BatchInv, EffectsInv
  <2> QED BY <2>1, <2>2, <2>3, <2>4
<1> QED BY <1>1, <1>3, <1>4

LEMMA TalksStep ==
  ASSUME TypeInv, TypeInv', BatchInv, Talks
  PROVE  PrepareIsBlank' /\ MessagesInv' /\ EffectsInv' /\ run'.target = 0
<1>1. UNCHANGED <<pending, history, checkpoint, ran>> /\ run'.target = 0
      /\ run.pc \notin {"idle", "tools"} /\ run'.pc \notin {"idle", "tools", "prepare"}
  BY DEF Talks, BatchInv, Calm
<1>2. Kept' = Kept /\ Committed' = Committed
  BY <1>1 DEF Kept, Committed
<1>3. run.msgs \in Seq(Messages) /\ run'.msgs \in Seq(Messages)
  BY MessagesTypes DEF TypeInv, TypeOK, Runs
<1>4. Answered(run'.msgs)
  <2>1. CASE run.pc = "prepare"
    BY <2>1 DEF Talks
  <2>2. CASE run.pc # "prepare"
    <3>1. Answered(run.msgs) /\ NoCallsBehind(run.msgs, run'.msgs)
      BY <1>1, <2>2 DEF Talks, BatchInv, MessagesInv
    <3> QED BY <1>3, <3>1, StaysAnswered
  <2> QED BY <2>1, <2>2
<1>5. BatchesOf(run.msgs) \subseteq BatchesOf(run'.msgs)
  <2>1. CASE run.pc = "prepare"
    BY <2>1, NoMessages DEF BatchInv, PrepareIsBlank
  <2>2. CASE run.pc # "prepare"
    <3>1. NoCallsBehind(run.msgs, run'.msgs)
      BY <2>2 DEF Talks
    <3> QED BY <1>3, <3>1, SameBatches
  <2> QED BY <2>1, <2>2
<1>6. PrepareIsBlank'
  BY <1>1 DEF PrepareIsBlank
<1>7. MessagesInv'
  BY <1>1, <1>4 DEF BatchInv, MessagesInv
<1>8. EffectsInv'
  BY <1>1, <1>2, <1>5 DEF BatchInv, EffectsInv
<1> QED BY <1>1, <1>6, <1>7, <1>8

\* A checkpoint is written, or the run fails over it.
LEMMA RecordStep ==
  ASSUME TypeInv, BatchInv, run.pc \notin {"idle", "prepare"},
         NEW phase, NEW turn, NEW msgs \in Seq(Messages), NEW onSuccess,
         SaveCheckpoint(phase, turn, msgs, onSuccess),
         onSuccess.msgs = msgs, onSuccess.target = 0, onSuccess.pc \notin {"idle", "prepare"},
         IF phase = "awaiting_tools" THEN onSuccess.pc = "tools" /\ OneOpen(msgs)
         ELSE onSuccess.pc # "tools" /\ Answered(msgs),
         BatchesOf(run.msgs) \subseteq BatchesOf(msgs),
         ran \subseteq ran', ran' = ran \/ (run'.pc = "tools" /\ ran' \subseteq ran \cup BatchesOf(msgs)),
         UNCHANGED <<pending, history>>
  PROVE  /\ PrepareIsBlank' /\ MessagesInv' /\ EffectsInv' /\ run'.target = 0
         /\ checkpoint' = checkpoint \/ checkpoint'.inc[1].rev = 1
<1> DEFINE new == NewCheckpoint(phase, turn, msgs)
<1>1. new.phase = phase /\ new.msgs = msgs /\ new.inc = run.inc
  BY DEF NewCheckpoint
<1>2. \/ checkpoint' = new /\ run' = onSuccess
      \/ checkpoint' \in {checkpoint, new} /\ run' = IdleRun
  BY DEF SaveCheckpoint, EndRun
<1>3. run.inc[1].id \in IdSet(pending) /\ run.inc[1].rev = 1
  <2>1. IdentityHolds
    BY DEF SaveCheckpoint
  <2> QED BY <2>1, RunHeadsQueue DEF BatchInv, FirstRevisions
<1> HIDE DEF new
<1>4. Committed' = Committed
  BY DEF Committed
<1>5. \A t \in 1..Len(history) : Answered(history[t].msgs)
  BY DEF BatchInv, MessagesInv
<1>6. ran \subseteq Committed \cup BatchesOf(msgs)
  BY DEF BatchInv, EffectsInv, Kept
<1>7. CASE checkpoint' = new /\ run' = onSuccess
  <2>1. PrepareIsBlank' /\ run'.target = 0
    BY <1>7 DEF PrepareIsBlank
  <2>2. MessagesInv'
    BY <1>1, <1>5, <1>7 DEF MessagesInv
  <2>3. EffectsInv'
    <3>1. ran' \subseteq Committed \cup BatchesOf(msgs) /\ Kept' \subseteq BatchesOf(msgs)
      BY <1>1, <1>6, <1>7 DEF Kept
    <3> QED BY <1>1, <1>3, <1>4, <1>7, <3>1 DEF EffectsInv
  <2> QED BY <1>1, <1>3, <1>7, <2>1, <2>2, <2>3
<1>8. CASE checkpoint' \in {checkpoint, new} /\ run' = IdleRun
  <2>1. run'.pc = "idle" /\ run'.msgs = <<>> /\ run'.target = 0 /\ ran' = ran
    BY <1>8, BlankRun
  <2>2. PrepareIsBlank'
    BY <2>1 DEF PrepareIsBlank
  <2>3. MessagesInv'
    BY <1>1, <1>5, <1>8, <2>1, NoMessages DEF MessagesInv, BatchInv
  <2>4. EffectsInv'
    <3>1. CASE checkpoint' = checkpoint
      <4>1. Kept' = Kept
        BY <2>1, <3>1 DEF Kept
      <4> QED BY <1>4, <2>1, <3>1, <4>1 DEF EffectsInv, BatchInv
    <3>2. CASE checkpoint' = new
      BY <1>1, <1>3, <1>4, <1>6, <2>1, <3>2 DEF EffectsInv
    <3> QED BY <1>8, <3>1, <3>2
  <2> QED BY <1>1, <1>3, <1>8, <2>1, <2>2, <2>3, <2>4
<1> QED BY <1>2, <1>7, <1>8

LEMMA RecordingStep ==
  ASSUME RuntimeAssumption, TypeInv, BatchInv, BeginTools \/ ToolsDone \/ FinishResponse \/ CloseAtLimit
  PROVE  /\ PrepareIsBlank' /\ MessagesInv' /\ EffectsInv' /\ run'.target = 0
         /\ checkpoint' = checkpoint \/ checkpoint'.inc[1].rev = 1
<1>a. PICK r \in Runs : r = run
  BY DEF TypeInv, TypeOK
<1>b. r.msgs \in Seq(Messages) /\ r.target = 0
  BY <1>a, MessagesTypes DEF BatchInv, Calm
<1>1. CASE BeginTools
  <2> DEFINE call == Call(batches)
             msgs == Append(r.msgs, call)
             onSuccess == [r EXCEPT !.pc = "tools", !.msgs = msgs]
  <2>1. call \in Messages /\ call.kind = "call" /\ call.ref = batches
    <3>1. batches \in Nat
      BY DEF TypeInv, TypeOK, RuntimeAssumption
    <3> QED BY <3>1 DEF Call, Message, Messages
  <2>2. SaveCheckpoint("awaiting_tools", r.turn + 1, msgs, onSuccess) /\ run.pc = "toolNotify"
        /\ StartTools /\ UNCHANGED <<pending, history>>
    BY <1>1, <1>a DEF BeginTools, Ready
  <2> HIDE DEF call
  <2>3. msgs \in Seq(Messages) /\ OneOpen(msgs)
    <3>1. Answered(r.msgs)
      BY <1>a, <2>2 DEF BatchInv, MessagesInv
    <3> QED BY <1>b, <2>1, <3>1, CallAppended, AppendProperties
  <2>4. BatchesOf(msgs) = BatchesOf(r.msgs) \cup {batches}
    BY <1>b, <2>1, BatchAppended
  <2> HIDE DEF msgs
  <2>5. onSuccess.pc = "tools" /\ onSuccess.msgs = msgs /\ onSuccess.target = 0
    BY <1>b DEF Runs
  <2> HIDE DEF onSuccess
  <2>6. ran \subseteq ran' /\ (ran' = ran \/ (run'.pc = "tools" /\ ran' \subseteq ran \cup BatchesOf(msgs)))
    BY <2>2, <2>4 DEF StartTools
  <2> QED BY <1>a, <2>2, <2>3, <2>4, <2>5, <2>6, RecordStep
<1>2. CASE ToolsDone
  <2> DEFINE result == ToolResults(Last(r.msgs).ref)
             msgs == Append(r.msgs, result)
             count == AcceptedCount(r.turn, r.inc)
             onSuccess == [r EXCEPT !.pc = "inject", !.msgs = msgs, !.accepted = count]
  <2>1. run.pc = "tools" /\ OneOpen(r.msgs) /\ r.msgs # <<>>
    BY <1>2, <1>a DEF ToolsDone, Ready, BatchInv, MessagesInv, OneOpen
  <2>2. result \in Messages /\ result.kind = "result" /\ result.ref = Last(r.msgs).ref
    <3>1. Last(r.msgs).ref \in Nat
      BY <1>b, <2>1, LastMessage
    <3> QED BY <3>1 DEF ToolResults, Message, Messages
  <2>3. SaveCheckpoint("tools_completed", r.turn + 1, msgs, onSuccess)
        /\ UNCHANGED <<pending, history, ran>>
    BY <1>2, <1>a DEF ToolsDone
  <2> HIDE DEF result, count
  <2>4. NoCallsBehind(r.msgs, msgs) /\ msgs \in Seq(Messages)
    BY <1>b, <2>2, NoCallsAppended, AppendProperties
  <2>5. Len(msgs) = Len(r.msgs) + 1 /\ msgs[Len(r.msgs) + 1] = result /\ Len(r.msgs) \in Nat
    BY <1>b, <2>2, AppendFacts, LenProperties
  <2> HIDE DEF msgs
  <2>6. Answered(msgs)
    BY <1>b, <2>1, <2>2, <2>4, <2>5, BecomesAnswered
  <2>7. BatchesOf(msgs) = BatchesOf(r.msgs)
    BY <1>b, <2>4, SameBatches
  <2>8. onSuccess.pc = "inject" /\ onSuccess.msgs = msgs /\ onSuccess.target = 0
    BY <1>b DEF Runs
  <2> HIDE DEF onSuccess
  <2> QED BY <1>a, <2>1, <2>3, <2>4, <2>6, <2>7, <2>8, RecordStep
<1>3. ASSUME NEW pc, NEW turn, Finish(pc, turn), pc \notin {"idle", "prepare", "tools"}
      PROVE  /\ PrepareIsBlank' /\ MessagesInv' /\ EffectsInv' /\ run'.target = 0
             /\ checkpoint' = checkpoint \/ checkpoint'.inc[1].rev = 1
  <2> DEFINE msgs == Append(r.msgs, Text)
             onSuccess == [r EXCEPT !.pc = "finalNotify", !.msgs = msgs]
  <2>1. run.pc = pc /\ Answered(r.msgs)
    BY <1>3, <1>a DEF Finish, Ready, BatchInv, MessagesInv
  <2>2. Text \in Messages /\ Text.kind # "call"
    BY DEF Text, Message, Messages
  <2>3. SaveCheckpoint("final_response", turn, msgs, onSuccess)
        /\ UNCHANGED <<pending, history, ran>>
    BY <1>3, <1>a DEF Finish
  <2>4. NoCallsBehind(r.msgs, msgs) /\ msgs \in Seq(Messages)
    BY <1>b, <2>2, NoCallsAppended, AppendProperties
  <2> HIDE DEF msgs
  <2>5. Answered(msgs) /\ BatchesOf(msgs) = BatchesOf(r.msgs)
    BY <1>b, <2>1, <2>4, StaysAnswered, SameBatches
  <2>6. onSuccess.pc = "finalNotify" /\ onSuccess.msgs = msgs /\ onSuccess.target = 0
    BY <1>b DEF Runs
  <2> HIDE DEF onSuccess
  <2> QED BY <1>3, <1>a, <2>1, <2>3, <2>4, <2>5, <2>6, RecordStep
<1> QED BY <1>1, <1>2, <1>3 DEF FinishResponse, CloseAtLimit

\* commit_working_messages: the history takes over what the run holds.
LEMMA SaveStep ==
  ASSUME TypeInv, PrefixInv, BatchInv, Save
  PROVE  /\ PrepareIsBlank' /\ MessagesInv' /\ EffectsInv' /\ run'.target = 0
         /\ checkpoint' \in {checkpoint, NoCheckpoint}
         /\ \A i \in 1..Len(pending') : pending'[i].rev = 1
<1> DEFINE h == Turn(SubSeq(pending, 1, Len(run.inc)), run.msgs)
           n == Len(history)
<1>1. run.pc \in {"finalNotify", "save"} /\ run' = IdleRun /\ UNCHANGED ran
      /\ history' = Append(history, h) /\ pending' = SubSeq(pending, Len(run.inc) + 1, Len(pending))
      /\ checkpoint' \in {checkpoint, NoCheckpoint}
  BY DEF Save, Saving, Ready, EndRun, DropCheckpoint, Remaining
<1>2. h.msgs = run.msgs
  BY DEF Turn
<1> HIDE DEF h
<1>3. history \in Seq(Turns) /\ n \in Nat
  BY MessagesTypes
<1>4. Len(history') = n + 1 /\ (\A t \in 1..n : history'[t] = history[t]) /\ history'[n + 1] = h
  <2>1. history \in Seq(Turns \cup {h}) /\ h \in Turns \cup {h}
    BY <1>3, SeqMonotonic
  <2> QED BY <1>1, <2>1, AppendFacts
<1>5. run'.pc = "idle" /\ run'.msgs = <<>> /\ run'.target = 0
  BY <1>1, BlankRun
<1>6. PrepareIsBlank'
  BY <1>5 DEF PrepareIsBlank
<1>7. \A t \in 1..(n + 1) : t \in 1..n \/ t = n + 1
  BY <1>3
<1>8. MessagesInv'
  <2>1. \A t \in 1..Len(history') : Answered(history'[t].msgs)
    BY <1>1, <1>2, <1>4, <1>7 DEF BatchInv, MessagesInv
  <2>2. checkpoint'.phase # "awaiting_tools" => Answered(checkpoint'.msgs)
    BY <1>1, NoMessages DEF BatchInv, MessagesInv, NoCheckpoint
  <2>3. checkpoint'.phase = "awaiting_tools" => OneOpen(checkpoint'.msgs)
    BY <1>1 DEF BatchInv, MessagesInv, NoCheckpoint
  <2> QED BY <1>5, <2>1, <2>2, <2>3, NoMessages DEF MessagesInv
<1>9. Committed \cup BatchesOf(run.msgs) \subseteq Committed'
  <2>1. n + 1 \in 1..Len(history') /\ \A t \in 1..n : t \in 1..Len(history')
    BY <1>3, <1>4
  <2>2. ASSUME NEW b \in Committed
        PROVE  b \in Committed'
    <3>1. PICK t \in 1..n : b \in BatchesOf(history[t].msgs)
      BY DEF Committed
    <3> QED BY <1>4, <2>1, <3>1 DEF Committed
  <2>3. BatchesOf(run.msgs) \subseteq Committed'
    BY <1>2, <1>4, <2>1 DEF Committed
  <2> QED BY <2>2, <2>3
<1>10. ran \subseteq Committed'
  BY <1>1, <1>9 DEF BatchInv, EffectsInv, Kept
<1>11. EffectsInv'
  BY <1>1, <1>5, <1>10 DEF EffectsInv, Kept
<1>12. \A i \in 1..Len(pending') : pending'[i].rev = 1
  <2> DEFINE k == Len(run.inc)
  <2>1. pending \in Seq(Items) /\ run.inc \in Seq(Items) /\ k \in Nat /\ Len(pending) \in Nat
    BY MessagesTypes, LenProperties
  <2>2. k <= Len(pending)
    <3>1. IdentityHolds
      BY <1>1 DEF PrefixInv, RunHoldsPrefix
    <3> QED BY <2>1, <3>1, PrefixMeans DEF IdentityHolds, IsHead
  <2>3. Len(pending') = Len(pending) - k
        /\ \A j \in 1..(Len(pending) - k) : pending'[j] = pending[k + j]
    <3>1. k \in 0..Len(pending) /\ pending' = SubSeq(pending, k + 1, Len(pending))
      BY <1>1, <2>1, <2>2
    <3> HIDE DEF k
    <3>2. /\ Len(SubSeq(pending, k + 1, Len(pending))) = Len(pending) - k
          /\ \A j \in 1..(Len(pending) - k) :
               SubSeq(pending, k + 1, Len(pending))[j] = pending[k + j]
      BY <2>1, <3>1, DropPrefix
    <3> QED BY <3>1, <3>2
  <2>4. \A j \in 1..(Len(pending) - k) : k + j \in 1..Len(pending)
    BY <2>1, <2>2
  <2> QED BY <2>3, <2>4 DEF BatchInv, FirstRevisions
<1> QED BY <1>1, <1>5, <1>6, <1>8, <1>11, <1>12

\* LOAD drops a checkpoint that holds nothing the history lacks, or resumes it whole.
LEMMA LoadsStep ==
  ASSUME RuntimeAssumption, TypeInv, PrefixInv, BatchInv, Loads,
         \A i \in 1..Len(pending') : pending'[i].rev = 1
  PROVE  /\ PrepareIsBlank' /\ MessagesInv' /\ EffectsInv' /\ run'.target = 0
         /\ checkpoint' \in {checkpoint, NoCheckpoint}
<1> DEFINE q == pending'
<1>a. /\ q \in Seq(Items) /\ IdSet(pending) \subseteq IdSet(q)
      /\ run = IdleRun /\ run.pc = "idle" /\ run.msgs = <<>>
      /\ UNCHANGED <<history, ran>> /\ Committed' = Committed
  BY BlankRun DEF Loads, PrefixInv, Committed
<1>b. PICK who \in InputIds : Load(who, q)
  BY DEF Loads
<1>c. \A t \in 1..Len(history) : Answered(history[t].msgs)
  BY DEF BatchInv, MessagesInv
<1>d. checkpoint # NoCheckpoint /\ checkpoint.inc[1].id \notin IdSet(q) => Kept \subseteq Committed
  BY <1>a DEF BatchInv, EffectsInv
<1>e. IdSet(<<>>) = {}
  <2>1. DOMAIN <<>> = {}
    BY NoMessages, LenProperties
  <2> QED BY <2>1 DEF IdSet
<1> HIDE DEF q
\* The checkpoint is dropped or left behind, the new run has no messages.
<1>1. ASSUME Kept \subseteq Committed, checkpoint' \in {checkpoint, NoCheckpoint},
             run'.pc \in {"idle", "prepare"}, run'.msgs = <<>>, run'.target = 0
      PROVE  /\ PrepareIsBlank' /\ MessagesInv' /\ EffectsInv' /\ run'.target = 0
             /\ checkpoint' \in {checkpoint, NoCheckpoint}
  <2>1. ran \subseteq Committed
    BY <1>1 DEF BatchInv, EffectsInv, Kept
  <2>2. Kept' \subseteq Committed'
    BY <1>a, <2>1 DEF Kept
  <2>3. PrepareIsBlank'
    BY <1>1 DEF PrepareIsBlank
  <2>4. EffectsInv'
    BY <1>a, <2>1, <2>2 DEF EffectsInv
  <2>5. MessagesInv'
    BY <1>1, <1>a, <1>c, NoMessages DEF BatchInv, MessagesInv, NoCheckpoint
  <2> QED BY <1>1, <2>3, <2>4, <2>5
<1>2. CASE q = <<>>
  <2>1. run' = run /\ checkpoint' \in {checkpoint, NoCheckpoint}
    BY <1>b, <1>2 DEF Load, DropCheckpoint
  <2>2. Kept \subseteq Committed
    <3>1. CASE checkpoint = NoCheckpoint
      BY <3>1, NothingKept
    <3>2. CASE checkpoint # NoCheckpoint
      BY <1>2, <1>d, <1>e, <3>2
    <3> QED BY <3>1, <3>2
  <2> QED BY <1>1, <1>a, <2>1, <2>2, BlankRun
<1>3. CASE q # <<>> /\ LoadFresh(who, q)
  <2>1. run'.pc = "prepare" /\ run'.msgs = <<>> /\ run'.target = 0
        /\ checkpoint' \in {checkpoint, NoCheckpoint}
    BY <1>3 DEF LoadFresh, IdleRun, DropCheckpoint
  <2>2. Kept \subseteq Committed
    <3>1. CASE checkpoint = NoCheckpoint
      BY <3>1, NothingKept
    <3>2. CASE checkpoint # NoCheckpoint
      <4>1. checkpoint.inc[1].id \notin IdSet(q) \/ checkpoint.inc[1].rev # q[1].rev
        BY <1>3, <3>2 DEF LoadFresh
      <4>2. checkpoint.inc[1].rev = 1
        BY <3>2 DEF BatchInv, FirstRevisions
      <4>3. 1 \in 1..Len(q)
        <5>1. Len(q) \in Nat \ {0}
          BY <1>a, <1>3, EmptySeq
        <5> QED BY <5>1
      <4>4. q[1].rev = 1
        BY <4>3 DEF q
      <4> QED BY <1>d, <3>2, <4>1, <4>2, <4>4
    <3> QED BY <3>1, <3>2
  <2> QED BY <1>1, <2>1, <2>2
<1>4. CASE q # <<>> /\ LoadCheckpoint(who, q)
  <2> DEFINE claimed == ResumedInputs(q)
             c == checkpoint.msgs
             closed == c \o InterruptedResults
             users == ToUserMessages(claimed)
             msgs == closed \o users
  <2>1. /\ claimed \in Seq(Items) /\ InterruptedResults \in Seq(Messages) /\ c \in Seq(Messages)
    BY <1>a, ResumedTypes, MessagesTypes DEF TypeInv
  <2>2. /\ checkpoint' = checkpoint
        /\ run'.pc = ResumePoint /\ run'.msgs = msgs /\ run'.target = 0
    BY <1>4 DEF LoadCheckpoint, IdleRun
  <2>3. run'.pc \in {"save", "request", "limit"}
    BY <2>2 DEF ResumePoint, LoopAt
  <2> HIDE DEF claimed, c
  <2>4. /\ NoCallsBehind(c, closed) /\ closed \in Seq(Messages)
        /\ Answered(closed)
    <3>1. CASE checkpoint.phase = "awaiting_tools"
      <4> DEFINE result == Message("unknown", Last(c).ref, 0)
      <4>1. InterruptedResults = <<result>> /\ OneOpen(c)
        BY <3>1 DEF InterruptedResults, BatchInv, MessagesInv, c
      <4>2. c # <<>>
        BY <4>1 DEF OneOpen
      <4>3. result \in Messages /\ result.kind = "unknown" /\ result.ref = Last(c).ref
        <5>1. Last(c).ref \in Nat
          BY <2>1, <4>2, LastMessage
        <5> QED BY <5>1 DEF Message, Messages
      <4> HIDE DEF result
      <4>4. Len(<<result>>) = 1 /\ <<result>>[1] = result
            /\ \A i \in 1..Len(<<result>>) : <<result>>[i].kind # "call"
        BY <4>3
      <4>5. NoCallsBehind(c, closed) /\ closed \in Seq(Messages)
        BY <2>1, <4>1, <4>4, NoCallsConcatenated, ConcatProperties
      <4>6. Len(closed) = Len(c) + 1 /\ closed[Len(c) + 1] = result /\ Len(c) \in Nat
        BY <2>1, <4>1, <4>4, ConcatFacts, LenProperties
      <4> HIDE DEF closed
      <4>7. Answered(closed)
        BY <2>1, <4>1, <4>3, <4>5, <4>6, BecomesAnswered
      <4> QED BY <4>5, <4>7
    <3>2. CASE checkpoint.phase # "awaiting_tools"
      <4>1. closed = c
        BY <2>1, <3>2, ConcatEmptySeq DEF InterruptedResults
      <4>2. NoCallsBehind(c, c)
        <5>1. Len(c) \in Nat
          BY <2>1, LenProperties
        <5> QED BY <5>1 DEF NoCallsBehind
      <4>3. Answered(c)
        BY <3>2 DEF BatchInv, MessagesInv, c
      <4> QED BY <2>1, <4>1, <4>2, <4>3
    <3> QED BY <3>1, <3>2
  <2> HIDE DEF closed
  <2>5. users \in Seq(Messages) /\ \A i \in 1..Len(users) : users[i].kind # "call"
    BY <2>1, UserMessages
  <2> HIDE DEF users
  <2>6. NoCallsBehind(closed, msgs) /\ msgs \in Seq(Messages)
    BY <2>4, <2>5, NoCallsConcatenated, ConcatProperties
  <2> HIDE DEF msgs
  <2>7. Answered(msgs) /\ BatchesOf(msgs) = BatchesOf(checkpoint.msgs)
    <3>1. BatchesOf(msgs) = BatchesOf(closed) /\ BatchesOf(closed) = BatchesOf(c)
      BY <2>1, <2>4, <2>6, SameBatches
    <3> QED BY <2>4, <2>6, <3>1, StaysAnswered DEF c
  <2>8. PrepareIsBlank'
    BY <2>3 DEF PrepareIsBlank
  <2>9. MessagesInv'
    BY <1>a, <1>c, <2>2, <2>3, <2>7 DEF BatchInv, MessagesInv
  <2>10. EffectsInv'
    <3>1. Kept' = Kept /\ Kept \subseteq BatchesOf(run'.msgs)
      BY <1>a, <2>2, <2>7 DEF Kept
    <3>2. IdSet(pending) \subseteq IdSet(pending')
      BY <1>a DEF q
    <3> QED BY <1>a, <2>2, <3>1, <3>2 DEF BatchInv, EffectsInv
  <2> QED BY <2>2, <2>8, <2>9, <2>10
<1>5. CASE LoadFails(who)
  <2>1. Stays
    BY <1>a, <1>5 DEF LoadFails, Stays, q
  <2> QED BY <1>5, <2>1, StaysStep DEF LoadFails
<1>6. ~(paused # NoPause)
  BY DEF BatchInv, Calm
<1> QED BY <1>b, <1>2, <1>3, <1>4, <1>5, <1>6 DEF Load

LEMMA ClearStep ==
  ASSUME TypeInv, PrefixInv, BatchInv, Clear
  PROVE  /\ PrepareIsBlank' /\ MessagesInv' /\ EffectsInv' /\ run'.target = 0
         /\ checkpoint' \in {checkpoint, NoCheckpoint}
         /\ Len(pending') = 0
<1>1. /\ run = IdleRun /\ run' = run /\ checkpoint' \in {checkpoint, NoCheckpoint}
      /\ history' = <<>> /\ ran' = {} /\ pending' = <<>>
  BY DEF Clear, PrefixInv, DropCheckpoint
<1>2. run'.pc = "idle" /\ run'.msgs = <<>> /\ run'.target = 0
  BY <1>1, BlankRun
<1>3. Len(<<>>) = 0
  BY NoMessages
<1>4. MessagesInv'
  BY <1>1, <1>2, <1>3, NoMessages DEF BatchInv, MessagesInv, NoCheckpoint
<1>5. EffectsInv'
  BY <1>1, <1>2 DEF EffectsInv, Kept
<1> QED BY <1>1, <1>2, <1>3, <1>4, <1>5 DEF PrepareIsBlank

LEMMA BatchInvStep ==
  ASSUME NoPauses, RuntimeAssumption, TypeInv, TypeInv', PrefixInv, BatchInv, [Next]_vars
  PROVE  BatchInv'
<1>1. /\ paused' = NoPause /\ latch' = FALSE
      /\ \/ UNCHANGED pending
         \/ \E item \in Items : item.rev = 1 /\ pending' = Append(pending, item)
         \/ Save \/ Clear
      /\ \/ Stays \/ Talks \/ BeginTools \/ ToolsDone \/ FinishResponse \/ CloseAtLimit
         \/ Save \/ Loads \/ Clear
  BY StepShapes DEF BatchInv
<1>2. \A i \in 1..Len(pending') : pending'[i].rev = 1
  <2>1. CASE UNCHANGED pending
    BY <2>1 DEF BatchInv, FirstRevisions
  <2>2. ASSUME NEW item \in Items, item.rev = 1, pending' = Append(pending, item)
        PROVE  \A i \in 1..Len(pending') : pending'[i].rev = 1
    <3>1. pending \in Seq(Items) /\ Len(pending) \in Nat
      BY MessagesTypes, LenProperties
    <3>2. Len(pending') = Len(pending) + 1 /\ (\A i \in 1..Len(pending) : pending'[i] = pending[i])
          /\ pending'[Len(pending) + 1] = item
      BY <2>2, <3>1, AppendFacts
    <3>3. \A i \in 1..(Len(pending) + 1) : i \in 1..Len(pending) \/ i = Len(pending) + 1
      BY <3>1
    <3> QED BY <2>2, <3>2, <3>3 DEF BatchInv, FirstRevisions
  <2>3. CASE Save
    BY <2>3, SaveStep
  <2>4. CASE Clear
    BY <2>4, ClearStep
  <2> QED BY <1>1, <2>1, <2>2, <2>3, <2>4
<1>3. /\ PrepareIsBlank' /\ MessagesInv' /\ EffectsInv' /\ run'.target = 0
      /\ checkpoint' \in {checkpoint, NoCheckpoint} \/ checkpoint'.inc[1].rev = 1
  <2>1. CASE Stays
    BY <2>1, StaysStep DEF Stays
  <2>2. CASE Talks
    BY <2>2, TalksStep DEF Talks
  <2>3. CASE BeginTools \/ ToolsDone \/ FinishResponse \/ CloseAtLimit
    BY <2>3, RecordingStep
  <2>4. CASE Save
    BY <2>4, SaveStep
  <2>5. CASE Loads
    BY <1>2, <2>5, LoadsStep
  <2>6. CASE Clear
    BY <2>6, ClearStep
  <2> QED BY <1>1, <2>1, <2>2, <2>3, <2>4, <2>5, <2>6
<1>4. FirstRevisions'
  BY <1>2, <1>3 DEF BatchInv, FirstRevisions
<1> QED BY <1>1, <1>3, <1>4 DEF BatchInv, Calm

LEMMA BatchInvInit == Init => BatchInv
<1> SUFFICES ASSUME Init PROVE BatchInv
  OBVIOUS
<1>1. /\ paused = NoPause /\ latch = FALSE /\ run = IdleRun /\ checkpoint = NoCheckpoint
      /\ history = <<>> /\ ran = {} /\ pending = <<>>
  BY Zenon DEF Init
<1>2. run.pc = "idle" /\ run.msgs = <<>> /\ run.target = 0
  BY <1>1, BlankRun
<1>3. Len(<<>>) = 0
  BY NoMessages
<1>4. MessagesInv
  BY <1>1, <1>2, <1>3, NothingKept, NoMessages DEF MessagesInv
<1>5. EffectsInv
  BY <1>1, <1>2 DEF EffectsInv, Kept
<1>6. Calm /\ FirstRevisions /\ PrepareIsBlank
  BY <1>1, <1>2, <1>3 DEF Calm, FirstRevisions, PrepareIsBlank
<1> QED BY <1>4, <1>5, <1>6 DEF BatchInv

LEMMA BatchInvariant ==
  ASSUME NoPauses
  PROVE  Spec => []BatchInv
<1>1. RuntimeAssumption /\ TypeInv /\ TypeInv' /\ PrefixInv /\ BatchInv /\ [Next]_vars => BatchInv'
  BY BatchInvStep
<1> QED BY RuntimeAssumption, TypeInvariant, PrefixInvariant, BatchInvInit, <1>1, PTL DEF Spec

\* The history never holds a tool call without its results, however runs fail, are
\* cancelled, crash and are resumed, as long as nobody pauses one.
THEOREM HistoryIsAnswered ==
  ASSUME NoPauses
  PROVE  Spec => []NoOpenToolBatch
<1>1. TypeInv /\ BatchInv => NoOpenToolBatch
  <2> SUFFICES ASSUME TypeInv, BatchInv, NEW t \in DOMAIN history, NEW i \in DOMAIN history[t].msgs,
                      history[t].msgs[i].kind = "call"
               PROVE  /\ i < Len(history[t].msgs)
                      /\ history[t].msgs[i + 1].kind \in {"result", "unknown"}
                      /\ history[t].msgs[i + 1].ref = history[t].msgs[i].ref
    BY DEF NoOpenToolBatch
  <2>1. t \in 1..Len(history) /\ history[t].msgs \in Seq(Messages)
    BY MessagesTypes, LenProperties
  <2>2. i \in 1..Len(history[t].msgs)
    BY <2>1, LenProperties
  <2> QED BY <2>1, <2>2 DEF BatchInv, MessagesInv, Answered, AnsweredAt
<1> QED BY <1>1, TypeInvariant, BatchInvariant, PTL

\* A started tool batch is never forgotten: the history or the checkpoint holds it,
\* whatever fails or crashes, as long as nobody pauses the run.
THEOREM EffectsAreAccounted ==
  ASSUME NoPauses
  PROVE  Spec => []EffectsAccounted
<1>1. TypeInv /\ BatchInv => EffectsAccounted
  <2> SUFFICES ASSUME TypeInv, BatchInv PROVE EffectsAccounted
    OBVIOUS
  <2>1. DOMAIN history = 1..Len(history)
    BY MessagesTypes, LenProperties
  <2>2. Committed = UNION {BatchesOf(history[t].msgs) : t \in DOMAIN history}
    BY <2>1 DEF Committed
  <2>3. ran \subseteq Committed \cup BatchesOf(checkpoint.msgs)
    BY DEF BatchInv, EffectsInv
  <2> DEFINE committed == UNION {BatchesOf(history[t].msgs) : t \in DOMAIN history}
             kept == BatchesOf(checkpoint.msgs)
             held == BatchesOf(run.msgs)
             retained == BatchesOf(paused.msgs)
  <2>4. ran \subseteq committed \cup kept
    BY <2>2, <2>3
  <2> HIDE DEF committed, kept, held, retained
  <2>5. ran \subseteq committed \cup kept \cup held \cup retained \cup disclosed
    BY <2>4
  <2> QED BY <2>5 DEF committed, kept, held, retained, EffectsAccounted
<1> QED BY <1>1, TypeInvariant, BatchInvariant, PTL

-----------------------------------------------------------------------------
(* What a submit() was told *)

\* The Session is not cleared: "committed" speaks of a history that is kept.
NoClears == "clear" \notin Events

\* Who waits for the lock waits for an accepted input, or for none.
WaitersKnown == \A k \in 1..Len(waiters) : waiters[k] <= Len(asked)

\* What has left the queue is in the history.
TakenIsCommitted ==
  \A id \in 1..Consumed : \E t \in 1..Len(history) : id \in IdSet(history[t].inputs)

InjectedInv == WaitersKnown /\ TakenIsCommitted /\ InjectedWasCommitted

\* A new answer "injected" is given for an accepted input that is not queued.
AnswersAreRight ==
  \A id \in 1..MaxInputs :
    reply'[id] = "injected" =>
      reply[id] = "injected" \/ (id \notin IdSet(pending') /\ id <= Len(asked'))

LEMMA AnswerGiven ==
  ASSUME TypeOK, NEW who, NEW status, reply' = Answer(who, status)
  PROVE  \A id \in 1..MaxInputs : reply'[id] = "injected" =>
           reply[id] = "injected" \/ (status = "injected" /\ id = who /\ who # 0)
BY DEF Answer, TypeOK, Replies

LEMMA OtherAnswer ==
  ASSUME TypeOK, NEW who, NEW status, reply' = Answer(who, status), status # "injected"
  PROVE  AnswersAreRight
BY AnswerGiven DEF AnswersAreRight

LEMMA EndAnswer ==
  ASSUME TypeOK, NEW status, EndRun(status), status # "injected"
  PROVE  AnswersAreRight
BY OtherAnswer DEF EndRun

\* LOAD answers "injected" to nobody; run_next only does for an input that is
\* accepted and no longer queued.
LEMMA LoadAnswer ==
  ASSUME TypeOK, NEW who, NEW q, Load(who, q)
  PROVE  AnswersAreRight
<1>1. PICK status \in {"idle", "waiting", "failed"} : reply' = Answer(who, status)
  BY DEF Load, LoadPaused, LoadFresh, LoadCheckpoint, LoadFails
<1> QED BY <1>1, OtherAnswer

LEMMA GrantAnswer ==
  ASSUME TypeOK, NEW who, Grant(who, pending'), who <= Len(asked')
  PROVE  AnswersAreRight
<1>1. CASE Load(who, pending')
  BY <1>1, LoadAnswer
<1>2. CASE reply' = Answer(who, ShortCircuit(who, pending'))
  <2>1. CASE ShortCircuit(who, pending') # "injected"
    BY <1>2, <2>1, OtherAnswer
  <2>2. CASE ShortCircuit(who, pending') = "injected"
    <3>1. who \notin IdSet(pending')
      BY <2>2 DEF ShortCircuit
    <3> QED BY <1>2, <3>1, AnswerGiven DEF AnswersAreRight
  <2> QED BY <2>1, <2>2
<1> QED BY <1>1, <1>2 DEF Grant

\* A caller that asks for the lock, and what is known of who waits for it then.
LEMMA AcquireAnswer ==
  ASSUME RuntimeAssumption, TypeOK, WaitersKnown, NEW who \in InputIds, Acquire(who, pending'),
         who <= Len(asked'), Len(asked) <= Len(asked'), Len(asked') \in Nat
  PROVE  AnswersAreRight /\ WaitersKnown'
<1>1. waiters \in Seq(InputIds) /\ Len(waiters) \in Nat /\ Len(asked) \in Nat
  BY LenProperties DEF TypeOK
<1>2. ASSUME NEW k \in 1..Len(waiters) PROVE waiters[k] <= Len(asked')
  <2>1. waiters[k] \in Nat /\ waiters[k] <= Len(asked)
    BY <1>1, ElementOfSeq DEF WaitersKnown, InputIds, RuntimeAssumption
  <2> QED BY <1>1, <2>1
<1>3. CASE Grant(who, pending') /\ UNCHANGED waiters
  BY <1>2, <1>3, GrantAnswer DEF WaitersKnown
<1>4. CASE waiters' = JoinWaiters(who) /\ reply' = Answer(who, "waiting")
  <2>1. AnswersAreRight
    BY <1>4, OtherAnswer
  <2>2. /\ Len(waiters') = Len(waiters) + 1 /\ waiters'[Len(waiters) + 1] = who
        /\ \A k \in 1..Len(waiters) : waiters'[k] = waiters[k]
    BY <1>1, <1>4, AppendFacts DEF JoinWaiters
  <2>3. ASSUME NEW k \in 1..Len(waiters') PROVE waiters'[k] <= Len(asked')
    <3>1. k \in 1..Len(waiters) \/ k = Len(waiters) + 1
      BY <1>1, <2>2
    <3> QED BY <1>2, <2>2, <3>1
  <2> QED BY <2>1, <2>3 DEF WaitersKnown
<1> QED BY <1>3, <1>4 DEF Acquire

\* A caller in the middle of the line is cancelled.
LEMMA WaiterLeaves ==
  ASSUME TypeOK, WaitersKnown, NEW k \in DOMAIN waiters, waiters' = RemoveAt(waiters, k),
         asked' = asked
  PROVE  WaitersKnown'
<1>1. waiters \in Seq(InputIds) /\ Len(waiters) \in Nat /\ k \in 1..Len(waiters) /\ k \in Nat
  BY LenProperties DEF TypeOK
<1> DEFINE S == {i \in InputIds : i <= Len(asked)}
<1>2. \A i \in 1..Len(waiters) : waiters[i] \in S
  BY <1>1, ElementOfSeq DEF WaitersKnown
<1> HIDE DEF S
<1>3. SubSeq(waiters, 1, k - 1) \in Seq(S)
  BY <1>1, <1>2, SubSeqProperties
<1>4. SubSeq(waiters, k + 1, Len(waiters)) \in Seq(S)
  BY <1>1, <1>2, SubSeqProperties
<1>5. waiters' \in Seq(S)
  BY <1>3, <1>4, ConcatProperties DEF RemoveAt
<1>6. \A i \in 1..Len(waiters') : waiters'[i] \in S
  BY <1>5, ElementOfSeq
<1> QED BY <1>6 DEF WaitersKnown, S

LEMMA NextWaiter ==
  ASSUME TypeOK, WaitersKnown, waiters # <<>>, waiters' = Tail(waiters), asked' = asked
  PROVE  Head(waiters) \in InputIds /\ Head(waiters) <= Len(asked) /\ WaitersKnown'
<1>1. waiters \in Seq(InputIds) /\ Len(waiters) \in Nat /\ Len(waiters) # 0
  BY EmptySeq, LenProperties DEF TypeOK
<1>2. Head(waiters) = waiters[1] /\ Len(Tail(waiters)) = Len(waiters) - 1
      /\ \A i \in 1..(Len(waiters) - 1) : Tail(waiters)[i] = waiters[i + 1]
  BY <1>1, HeadTailProperties
<1>3. 1 \in 1..Len(waiters)
  BY <1>1
<1>4. Head(waiters) \in InputIds /\ Head(waiters) <= Len(asked)
  BY <1>1, <1>2, <1>3, ElementOfSeq DEF WaitersKnown
<1>5. ASSUME NEW i \in 1..Len(waiters') PROVE waiters'[i] <= Len(asked')
  <2>1. i \in 1..(Len(waiters) - 1) /\ i + 1 \in 1..Len(waiters)
    BY <1>1, <1>2
  <2> QED BY <1>2, <2>1 DEF WaitersKnown
<1> QED BY <1>4, <1>5 DEF WaitersKnown

\* A queued input is an accepted one, with a number behind the consumed ones.
LEMMA QueuedAccepted ==
  ASSUME TypeInv, LedgerInv, NEW id \in IdSet(pending)
  PROVE  id \in Nat /\ id <= Len(asked)
<1>1. PICK k \in 1..Len(pending) : id = pending[k].id
  BY QueueFacts DEF IdSet, TypeInv
<1>2. id = Consumed + k /\ id \in Nat
  BY <1>1, QueueFacts DEF LedgerInv, QueueIsTail, TypeInv, Items
<1> QED BY <1>1, <1>2, QueueFacts DEF Consumed, TypeInv

LEMMA AcceptedGrows ==
  ASSUME RuntimeAssumption, TypeInv, NEW size \in Sizes, Enqueue(size)
  PROVE  Len(asked') = Len(asked) + 1 /\ Len(asked) \in Nat /\ Len(asked) + 1 \in InputIds
BY AppendProperties, QueueFacts, EnqueueGrows DEF Enqueue, TypeInv, TypeOK

\* Every step answers rightly and keeps the line in front of the lock known.
LEMMA StepAnswers ==
  ASSUME NoClears, RuntimeAssumption, TypeInv, LedgerInv, WaitersKnown, [Next]_vars
  PROVE  AnswersAreRight /\ WaitersKnown'
<1> USE DEF TypeInv
<1>a. ASSUME UNCHANGED <<waiters, asked>> PROVE WaitersKnown'
  BY <1>a DEF WaitersKnown
<1>b. ASSUME UNCHANGED reply PROVE AnswersAreRight
  BY <1>b DEF AnswersAreRight
<1>c. 0 \in InputIds /\ 1..MaxInputs \subseteq InputIds /\ Len(asked) \in Nat /\ 0 <= Len(asked)
  BY QueueFacts DEF InputIds, RuntimeAssumption
<1>1. CASE UNCHANGED vars
  BY <1>1, <1>a, <1>b DEF vars
<1>2. CASE PrepareFails \/ ProviderFails \/ SaveFails \/ CancelRun \/ Save
  BY <1>2, <1>a, EndAnswer DEF PrepareFails, ProviderFails, SaveFails, CancelRun, Save
<1>3. CASE PrepareDone \/ ProviderCallsTools \/ ProviderAnswers \/ ContinueLoop
           \/ InjectAfterTools \/ InjectAfterCandidate
  BY <1>3, <1>a, <1>b DEF PrepareDone, ProviderCallsTools, ProviderAnswers, ContinueLoop,
                          InjectAfterTools, InjectAfterCandidate
<1>4. CASE BeginTools \/ ToolsDone \/ FinishResponse \/ CloseAtLimit
  <2>1. UNCHANGED <<waiters, asked>>
    BY <1>4 DEF BeginTools, ToolsDone, FinishResponse, CloseAtLimit, Finish
  <2>2. UNCHANGED reply \/ EndRun("failed")
    BY <1>4 DEF BeginTools, ToolsDone, FinishResponse, CloseAtLimit, Finish, SaveCheckpoint
  <2> QED BY <1>a, <1>b, <2>1, <2>2, EndAnswer
<1>5. CASE CapturePausedRun
  <2>1. UNCHANGED <<waiters, asked>> /\ (EndRun("paused") \/ EndRun("error"))
    BY <1>5 DEF CapturePausedRun
  <2> QED BY <1>a, <2>1, EndAnswer
<1>6. ASSUME NEW size \in Sizes, EnqueueInput(size)
      PROVE  AnswersAreRight /\ WaitersKnown'
  <2>1. UNCHANGED <<waiters, reply>> /\ Len(asked') = Len(asked) + 1
    BY <1>6, AcceptedGrows DEF EnqueueInput
  <2>2. ASSUME NEW k \in 1..Len(waiters) PROVE waiters[k] <= Len(asked) + 1
    <3>1. waiters[k] \in Nat /\ waiters[k] <= Len(asked)
      BY ElementOfSeq DEF WaitersKnown, InputIds, TypeOK, RuntimeAssumption
    <3> QED BY <3>1, <1>c
  <2> QED BY <1>b, <2>1, <2>2 DEF WaitersKnown
<1>7. ASSUME NEW size \in Sizes, Submit(size)
      PROVE  AnswersAreRight /\ WaitersKnown'
  <2>1. Enqueue(size) /\ Acquire(Len(asked) + 1, pending')
    BY <1>7 DEF Submit, Enqueue
  <2>2. Len(asked') = Len(asked) + 1 /\ Len(asked) + 1 \in InputIds
    BY <2>1, AcceptedGrows
  <2>3. Len(asked') \in Nat /\ Len(asked) <= Len(asked') /\ Len(asked) + 1 <= Len(asked')
    BY <1>c, <2>2
  <2> QED BY <2>1, <2>2, <2>3, AcquireAnswer
<1>d. ASSUME NEW who \in InputIds, Acquire(who, pending'), who <= Len(asked), asked' = asked
      PROVE  AnswersAreRight /\ WaitersKnown'
  <2>1. who <= Len(asked') /\ Len(asked) <= Len(asked') /\ Len(asked') \in Nat
    BY <1>c, <1>d
  <2> QED BY <1>d, <2>1, AcquireAnswer
<1>8. ASSUME NEW id \in 1..MaxInputs, Resubmit(id)
      PROVE  AnswersAreRight /\ WaitersKnown'
  <2>1. Acquire(id, pending') /\ asked' = asked /\ id \in IdSet(pending)
    BY <1>8 DEF Resubmit
  <2> QED BY <1>c, <1>d, <2>1, QueuedAccepted
<1>9. CASE RunNext
  BY <1>9, <1>c, <1>d DEF RunNext
<1>10. CASE HandOff
  <2>1. waiters # <<>> /\ waiters' = Tail(waiters) /\ asked' = asked
        /\ Grant(Head(waiters), pending')
    BY <1>10 DEF HandOff
  <2>2. Head(waiters) <= Len(asked) /\ WaitersKnown'
    BY <2>1, NextWaiter
  <2> QED BY <2>1, <2>2, GrantAnswer
<1>11. CASE RestartPending
  <2>1. asked' = asked /\ RestartRun
    BY <1>11 DEF RestartPending
  <2>2. CASE Load(0, pending) /\ UNCHANGED waiters
    BY <2>1, <2>2, <1>a, LoadAnswer
  <2>3. CASE waiters' = JoinWaiters(0) /\ UNCHANGED reply
    <3>1. waiters \in Seq(InputIds)
      BY DEF TypeOK
    <3>2. Len(waiters) \in Nat
      BY <3>1, LenProperties
    <3>3. /\ Len(waiters') = Len(waiters) + 1 /\ waiters'[Len(waiters) + 1] = 0
          /\ \A k \in 1..Len(waiters) : waiters'[k] = waiters[k]
      BY <1>c, <2>3, <3>1, AppendFacts DEF JoinWaiters
    <3>4. \A k \in 1..Len(waiters') : k \in 1..Len(waiters) \/ k = Len(waiters) + 1
      BY <3>2, <3>3
    <3> QED BY <1>b, <1>c, <2>1, <2>3, <3>3, <3>4 DEF WaitersKnown
  <2> QED BY <2>1, <2>2, <2>3 DEF RestartRun
<1>12. ASSUME NEW id \in 1..MaxInputs, PauseInactive(id) \/ PauseActive(id)
       PROVE  AnswersAreRight /\ WaitersKnown'
  BY <1>12, <1>a, <1>b DEF PauseInactive, PauseActive
<1>13. ASSUME NEW k \in DOMAIN waiters, CancelWaiter(k)
       PROVE  AnswersAreRight /\ WaitersKnown'
  BY <1>13, WaiterLeaves, OtherAnswer DEF CancelWaiter
<1>14. ASSUME NEW size \in Sizes, Revise(size)
       PROVE  AnswersAreRight /\ WaitersKnown'
  <2>1. UNCHANGED <<waiters, reply>>
    BY <1>14 DEF Revise
  <2>2. Len(asked') = Len(asked)
    <3>1. asked' = [i \in 1..Len(asked) |-> asked'[i]]
      BY <1>14, QueueFacts DEF Revise
    <3> QED BY <3>1, <1>c, IsASeq, LenProperties
  <2> QED BY <1>b, <2>1, <2>2 DEF WaitersKnown
<1>15. ~Clear
  BY DEF Clear, NoClears
<1>16. CASE Crash
  <2>1. waiters' = <<>> /\ Len(<<>>) = 0
    BY <1>16, EmptySeq DEF Crash
  <2>2. AnswersAreRight
    BY <1>16 DEF Crash, AnswersAreRight, TypeOK, Replies
  <2> QED BY <2>1, <2>2 DEF WaitersKnown
<1> QED
  BY <1>1, <1>2, <1>3, <1>4, <1>5, <1>6, <1>7, <1>8, <1>9, <1>10, <1>11, <1>12, <1>13, <1>14,
     <1>15, <1>16
  DEF Next, RunStep, ChannelCall

\* What has left the queue has been committed.
LEMMA StepCommits ==
  ASSUME NoClears, RuntimeAssumption, TypeInv, PrefixInv, LedgerInv, TakenIsCommitted, [Next]_vars
  PROVE  /\ TakenIsCommitted'
         /\ Len(history) <= Len(history')
         /\ \A t \in 1..Len(history) : history'[t] = history[t]
<1> USE DEF TypeInv
<1>a. ASSUME UNCHANGED history, Consumed' = Consumed
      PROVE  /\ TakenIsCommitted' /\ Len(history) <= Len(history')
             /\ \A t \in 1..Len(history) : history'[t] = history[t]
  BY <1>a, QueueFacts DEF TakenIsCommitted, IdSet
<1>b. ASSUME UNCHANGED <<history, pending, asked>>
      PROVE  /\ TakenIsCommitted' /\ Len(history) <= Len(history')
             /\ \A t \in 1..Len(history) : history'[t] = history[t]
  BY <1>a, <1>b DEF Consumed
<1>1. CASE UNCHANGED vars
  BY <1>1, <1>b DEF vars
<1>2. CASE PrepareFails \/ ProviderFails \/ SaveFails \/ CancelRun \/ CapturePausedRun
  BY <1>2, <1>b DEF PrepareFails, ProviderFails, SaveFails, CancelRun, CapturePausedRun
<1>3. CASE PrepareDone \/ ProviderCallsTools \/ ProviderAnswers \/ ContinueLoop
           \/ InjectAfterTools \/ InjectAfterCandidate
  BY <1>3, <1>b DEF PrepareDone, ProviderCallsTools, ProviderAnswers, ContinueLoop,
                    InjectAfterTools, InjectAfterCandidate
<1>4. CASE BeginTools \/ ToolsDone \/ FinishResponse \/ CloseAtLimit
  BY <1>4, <1>b DEF BeginTools, ToolsDone, FinishResponse, CloseAtLimit, Finish
<1>5. CASE Save
  <2> DEFINE k == Len(run.inc)
             h == Turn(SubSeq(pending, 1, k), run.msgs)
  <2>1. run.inc \in Seq(Items) /\ k \in Nat
    BY RunFields, LenProperties
  <2>2. run.pc # "idle"
    BY <1>5 DEF Save, Saving, Ready
  <2>3. k <= Len(pending)
    BY <2>1, <2>2, PrefixMeans DEF PrefixInv, RunHoldsPrefix, IdentityHolds, IsHead, TypeOK
  <2>4. /\ SubSeq(pending, 1, k) \in Seq(Items)
        /\ DOMAIN SubSeq(pending, 1, k) = 1..k
        /\ \A j \in 1..k : SubSeq(pending, 1, k)[j] = pending[j]
    BY <2>1, <2>3, QueueFacts, SubSeqProperties, LenProperties
  <2>5. h \in Turns /\ h.inputs = SubSeq(pending, 1, k)
    BY <2>4, RunFields DEF Turn, Turns
  <2>6. history' = Append(history, h) /\ pending' = SubSeq(pending, k + 1, Len(pending)) /\ asked' = asked
    BY <1>5 DEF Save, Remaining
  <2>7. Len(pending') = Len(pending) - k
    <3>1. pending \in Seq(Items) /\ k \in 0..Len(pending)
      BY <2>1, <2>3, QueueFacts DEF TypeOK
    <3> HIDE DEF k
    <3> QED BY <2>6, <3>1, DropPrefix
  <2>8. Consumed' = Consumed + k
    <3>1. Len(asked) \in Nat /\ Len(pending) \in Nat /\ asked' = asked /\ k \in Nat
      BY <2>1, <2>6, QueueFacts
    <3> HIDE DEF k
    <3> QED BY <2>7, <3>1 DEF Consumed
  <2>9. \A j \in 1..k : Consumed + j \in IdSet(h.inputs)
    <3>1. ASSUME NEW j \in 1..k
          PROVE  Consumed + j \in IdSet(h.inputs)
      <4>1. j \in 1..Len(pending)
        BY <2>1, <2>3, QueueFacts
      <4>2. pending[j].id = Consumed + j
        BY <4>1 DEF LedgerInv, QueueIsTail
      <4> QED BY <2>4, <2>5, <4>2 DEF IdSet
    <3> QED BY <3>1
  <2> HIDE DEF h
  <2>10. /\ Len(history') = Len(history) + 1 /\ history'[Len(history) + 1] = h
         /\ \A t \in 1..Len(history) : history'[t] = history[t]
    BY <2>5, <2>6, AppendFacts DEF TypeOK
  <2> DEFINE n == Len(history)
  <2>11. n \in Nat
    BY QueueFacts
  <2> HIDE DEF n
  <2>12. Len(history') = n + 1 /\ history'[n + 1] = h /\ \A t \in 1..n : history'[t] = history[t]
    BY <2>10 DEF n
  <2>13. ASSUME NEW id \in 1..Consumed'
         PROVE  \E t \in 1..Len(history') : id \in IdSet(history'[t].inputs)
    <3>1. CASE id \in 1..Consumed
      <4>1. PICK t \in 1..n : id \in IdSet(history[t].inputs)
        BY <3>1 DEF TakenIsCommitted, n
      <4>2. t \in 1..Len(history') /\ history'[t] = history[t]
        BY <2>11, <2>12, <4>1
      <4> QED BY <4>1, <4>2, Zenon
    <3>2. CASE id \notin 1..Consumed
      <4>1. Consumed \in Int /\ k \in Nat
        BY <2>1, QueueFacts
      <4> HIDE DEF k
      <4>2. \E j \in 1..k : id = Consumed + j
        <5>1. id \in Nat /\ id > Consumed /\ id <= Consumed + k
          BY <2>8, <3>2, <4>1
        <5>2. id - Consumed \in 1..k /\ id = Consumed + (id - Consumed)
          BY <4>1, <5>1
        <5> QED BY <5>2
      <4>3. id \in IdSet(h.inputs)
        BY <2>9, <4>2
      <4>4. n + 1 \in 1..Len(history') /\ history'[n + 1] = h
        BY <2>11, <2>12
      <4> QED BY <4>3, <4>4, Zenon
    <3> QED BY <3>1, <3>2
  <2>14. n <= Len(history')
    BY <2>11, <2>12
  <2>15. TakenIsCommitted'
    BY <2>13 DEF TakenIsCommitted, IdSet
  <2> QED BY <2>12, <2>14, <2>15 DEF n
<1>6. ASSUME NEW size \in Sizes, EnqueueInput(size) \/ Submit(size)
      PROVE  UNCHANGED history /\ Consumed' = Consumed
  <2>1. Enqueue(size) /\ UNCHANGED history
    BY <1>6 DEF EnqueueInput, Submit
  <2> QED BY <2>1, EnqueueAccepts DEF Ledger!Accept
<1>7. ASSUME NEW size \in Sizes, Revise(size)
      PROVE  UNCHANGED history /\ Consumed' = Consumed
  BY <1>7, ReviseEdits DEF Ledger!Edit, Revise
<1>8. CASE RunNext \/ HandOff \/ RestartPending \/ \E id \in 1..MaxInputs : Resubmit(id)
  BY <1>8, <1>b DEF RunNext, HandOff, RestartPending, Resubmit
<1>9. CASE \/ \E id \in 1..MaxInputs : PauseInactive(id) \/ PauseActive(id)
           \/ \E k \in DOMAIN waiters : CancelWaiter(k)
  BY <1>9, <1>b DEF PauseInactive, PauseActive, CancelWaiter
<1>10. ~Clear
  BY DEF Clear, NoClears
<1>11. CASE Crash
  BY <1>11, <1>b DEF Crash, durable
<1> QED
  BY <1>a, <1>1, <1>2, <1>3, <1>4, <1>5, <1>6, <1>7, <1>8, <1>9, <1>10, <1>11
  DEF Next, RunStep, ChannelCall

LEMMA InjectedStep ==
  ASSUME NoClears, RuntimeAssumption, TypeInv, PrefixInv, LedgerInv, InjectedInv, [Next]_vars
  PROVE  InjectedInv'
<1>1. AnswersAreRight /\ WaitersKnown'
  BY StepAnswers DEF InjectedInv
<1>2. /\ TakenIsCommitted' /\ Len(history) <= Len(history')
      /\ \A t \in 1..Len(history) : history'[t] = history[t]
  BY StepCommits DEF InjectedInv
<1>3. QueueIsTail' /\ TypeOK'
  BY LedgerStep, TypeStep DEF LedgerInv, TypeInv
<1>4. /\ Len(history) \in Nat /\ DOMAIN history = 1..Len(history)
      /\ Len(history') \in Nat /\ DOMAIN history' = 1..Len(history')
      /\ DOMAIN reply = 1..MaxInputs /\ DOMAIN reply' = 1..MaxInputs
  BY <1>3, LenProperties DEF TypeInv, TypeOK, Replies
<1>5. ASSUME NEW id \in 1..MaxInputs, reply'[id] = "injected"
      PROVE  \E t \in 1..Len(history') : id \in IdSet(history'[t].inputs)
  <2>1. CASE reply[id] = "injected"
    <3>1. PICK t \in 1..Len(history) : id \in IdSet(history[t].inputs)
      BY <1>4, <2>1 DEF InjectedInv, InjectedWasCommitted
    <3>2. t \in 1..Len(history') /\ history'[t] = history[t]
      BY <1>2, <1>4, <3>1
    <3> QED BY <3>1, <3>2, Zenon
  <2>2. CASE id \notin IdSet(pending') /\ id <= Len(asked')
    <3>1. /\ Len(pending') \in Nat /\ DOMAIN pending' = 1..Len(pending') /\ Len(asked') \in Nat
          /\ Len(pending') <= Len(asked')
      BY <1>3, LenProperties DEF TypeOK, QueueIsTail
    <3>2. \A k \in 1..Len(pending') : pending'[k].id = (Len(asked') - Len(pending')) + k
      BY <1>3 DEF QueueIsTail, Consumed
    <3>3. id \in 1..(Len(asked') - Len(pending'))
      <4>1. SUFFICES ASSUME id > Len(asked') - Len(pending') PROVE FALSE
        BY <2>2, <3>1
      <4>2. PICK k \in 1..Len(pending') : id = (Len(asked') - Len(pending')) + k
        <5>1. id - (Len(asked') - Len(pending')) \in 1..Len(pending')
          BY <2>2, <3>1, <4>1
        <5> QED BY <3>1, <5>1
      <4>3. pending'[k].id = id /\ k \in DOMAIN pending'
        BY <3>1, <3>2, <4>2
      <4> QED BY <2>2, <4>3 DEF IdSet
    <3> QED BY <1>2, <3>3 DEF TakenIsCommitted, Consumed, IdSet
  <2> QED BY <1>1, <1>5, <2>1, <2>2 DEF AnswersAreRight
<1>6. InjectedWasCommitted'
  BY <1>4, <1>5 DEF InjectedWasCommitted, IdSet
<1> QED BY <1>1, <1>2, <1>6 DEF InjectedInv

LEMMA InjectedInit == RuntimeAssumption /\ Init => InjectedInv
<1> SUFFICES ASSUME RuntimeAssumption, Init PROVE InjectedInv
  OBVIOUS
<1>1. Len(<<>>) = 0
  BY EmptySeq
<1>2. Consumed = 0 /\ Len(waiters) = 0
  BY <1>1 DEF Init, Consumed
<1>3. \A id \in DOMAIN reply : reply[id] # "injected"
  BY DEF Init
<1> QED BY <1>2, <1>3 DEF InjectedInv, WaitersKnown, TakenIsCommitted, InjectedWasCommitted

\* A submit() answered "injected" had its input committed by another run, with
\* whatever callers wait, leave or come back, and whatever pauses, fails or
\* crashes; unless the Session is cleared, and its history with it.
THEOREM InjectedIsCommitted ==
  ASSUME NoClears
  PROVE  Spec => []InjectedWasCommitted
<1>1. Spec => []LedgerInv
  BY RuntimeAssumption, TypeInvariant, PrefixInvariant, LedgerStart, LedgerStep, PTL DEF Spec
<1>2. TypeInv /\ PrefixInv /\ LedgerInv /\ InjectedInv /\ [Next]_vars => InjectedInv'
  BY NoClears, RuntimeAssumption, InjectedStep
<1>3. Init => InjectedInv
  BY RuntimeAssumption, InjectedInit
<1>4. Spec => []InjectedInv
  BY <1>1, <1>2, <1>3, TypeInvariant, PrefixInvariant, PTL DEF Spec
<1>5. InjectedInv => InjectedWasCommitted
  BY DEF InjectedInv
<1> QED BY <1>4, <1>5, PTL
=============================================================================
