------------------------------ MODULE MemoryInbox ------------------------------
(***************************************************************************)
(* The long-term memory of one workspace: the inbox file, the Dream cursor *)
(* and MEMORY.md of memory/store.py, the batches of memory/dream.py and    *)
(* the Dream task of runtime.py.                                           *)
(*                                                                         *)
(* The event loop runs one task until it suspends.  A Dream suspends in    *)
(* its provider requests ("planning", "repairing") and in the run that     *)
(* edits a copy of MEMORY.md ("applying").  Between its writes ("writing", *)
(* "recording", "advancing") it does not suspend: there only a crash can   *)
(* intervene.                                                              *)
(***************************************************************************)
EXTENDS Integers, Sequences, FiniteSets

CONSTANTS
  MaxSummaries,   \* the number of context summaries handed to the inbox
  MaxBatch,       \* DreamConfig.max_batch_size
  MaxFailures,    \* bound on failures and crashes
  Faults          \* which of them happen, a subset of AllFaults

AllFaults == {"provider", "error", "crash", "cancel", "tear"}

ASSUME MemoryAssumption ==
  /\ MaxSummaries \in Nat
  /\ MaxBatch \in Nat \ {0}
  /\ MaxFailures \in Nat
  /\ Faults \subseteq AllFaults

Summaries == 1 .. MaxSummaries

Entry == [cursor : Nat \ {0}, summary : Summaries]

\* A complete line that is no record: torn bytes and what was appended to them.
Garbage == [cursor |-> 0, summary |-> 0]

Reasons == {"completed", "analysis_failed", "execution_failed", "cancelled"}

Record == [first : Nat \ {0}, last : Nat \ {0}, reason : Reasons]

VARIABLES
  inbox,       \* the complete lines of inbox.jsonl
  torn,        \* bytes without a newline follow them
  dreamCursor, \* .dream_cursor
  memory,      \* MEMORY.md: the summaries some statement in it is taken from
  records,     \* dream-log.jsonl
  worker,      \* _dream_task with the locals of Dream.run
  wakeup,      \* _dream_wakeup_requested
  failures,    \* observed: failures and crashes so far
  settled,     \* observed: summaries of batches whose plan took effect
  asked        \* observed: the last cursor queued when a Dream was asked for; 0 after it failed

files == <<inbox, torn, dreamCursor, memory, records>>
observed == <<failures, settled, asked>>
vars == <<files, worker, wakeup, observed>>

NoWorker == [pc |-> "none", batch |-> {}, plan |-> {}, base |-> {}, reason |-> "completed"]

WorkerStates == {"none", "scheduled", "planning", "repairing", "applying",
                 "writing", "recording", "advancing"}

Workers == [pc : WorkerStates, batch : SUBSET Entry, plan : SUBSET Summaries,
            base : SUBSET Summaries, reason : Reasons]

--------------------------------------------------------------------------------
(* The store *)

Lines == {inbox[i] : i \in 1 .. Len(inbox)}

\* _read_inbox raises for a line that is no record, and unless cursors increase.
Readable ==
  /\ Garbage \notin Lines
  /\ \A i, j \in 1 .. Len(inbox) : i < j => inbox[i].cursor < inbox[j].cursor

Queued(s) == \E e \in Lines : e.summary = s

LastCursor == IF inbox = <<>> THEN 0 ELSE inbox[Len(inbox)].cursor

Pending(cursor) == {e \in Lines : e.cursor > cursor}

\* read_pending(after_cursor, limit): the first max_batch_size pending entries.
NextBatch(cursor) ==
  {e \in Pending(cursor) :
     Cardinality({d \in Pending(cursor) : d.cursor < e.cursor}) < MaxBatch}

FirstOf(batch) == CHOOSE c \in {e.cursor : e \in batch} : \A e \in batch : c <= e.cursor

\* Mutant: the cursor is advanced to the end of the inbox.
LastInInbox(batch) == inbox[Len(inbox)].cursor

LastOf(batch) == CHOOSE c \in {e.cursor : e \in batch} : \A e \in batch : e.cursor <= c

SourcesOf(batch) == {e.summary : e \in batch}

\* Mutant: cursors count from the Dream cursor alone.
EntryAfterCursor(s) == [cursor |-> 1 + dreamCursor, summary |-> s]

NewEntry(s) ==
  [cursor |-> 1 + (IF dreamCursor > LastCursor THEN dreamCursor ELSE LastCursor),
   summary |-> s]

\* _append_json of a whole line, which joins what a torn append left behind.
AppendLine(entry) ==
  /\ inbox' = Append(inbox, IF torn THEN Garbage ELSE entry)
  /\ torn' = FALSE

\* What an append that raised or died may have left.
AppendOutcome(entry) ==
  \/ AppendLine(entry)
  \/ UNCHANGED <<inbox, torn>>
  \/ "tear" \in Faults /\ torn' = TRUE /\ UNCHANGED inbox

--------------------------------------------------------------------------------
(* Failures *)

\* The process runs one task until it suspends.
Busy == worker.pc \in {"writing", "recording", "advancing"}

MayFail(kind) == kind \in Faults /\ failures < MaxFailures

\* Memory is lost with the process; settled describes the files.
Restart ==
  /\ worker' = NoWorker
  /\ wakeup' = FALSE
  /\ asked' = 0

Failure == failures' = failures + 1

\* The Dream task ends with a failed batch or an exception; what asked for it is lost.
TaskFailure == Failure /\ asked' = 0

Crash ==
  /\ MayFail("crash")
  /\ Failure
  /\ Restart
  /\ UNCHANGED <<files, settled>>

--------------------------------------------------------------------------------
(* What consolidation does with the store *)

\* enqueue: the summary's id is the idempotency key.
Enqueue(s) ==
  /\ ~Busy
  /\ Readable
  /\ ~Queued(s)
  /\ AppendLine(NewEntry(s))
  /\ UNCHANGED <<dreamCursor, memory, records, worker, wakeup, observed>>

EnqueueRaises(s) ==
  /\ ~Busy
  /\ MayFail("error")
  /\ Readable
  /\ ~Queued(s)
  /\ AppendOutcome(NewEntry(s))
  /\ Failure
  /\ UNCHANGED <<dreamCursor, memory, records, worker, wakeup, settled, asked>>

EnqueueDies(s) ==
  /\ ~Busy
  /\ MayFail("crash")
  /\ Readable
  /\ ~Queued(s)
  /\ AppendOutcome(NewEntry(s))
  /\ Failure
  /\ Restart
  /\ UNCHANGED <<dreamCursor, memory, records, settled>>

\* _schedule_dream: a running Dream keeps one wakeup, otherwise a task is created.
Schedule ==
  /\ ~Busy
  /\ IF worker.pc = "none"
     THEN /\ wakeup' = FALSE
          /\ worker' = [NoWorker EXCEPT !.pc = "scheduled"]
     ELSE /\ wakeup' = TRUE
          /\ UNCHANGED worker
  /\ asked' = LastCursor
  /\ UNCHANGED <<files, failures, settled>>

--------------------------------------------------------------------------------
(* The Dream task *)

\* The next round of _run_dream_until_idle up to its first suspension.  Nothing
\* suspends between reading an empty inbox and returning, and an inbox that
\* cannot be read ends the task with an exception.
RunNextBatch(cursor) ==
  /\ wakeup' = FALSE
  /\ worker' = IF Readable /\ NextBatch(cursor) # {}
               THEN [NoWorker EXCEPT !.pc = "planning", !.batch = NextBatch(cursor)]
               ELSE NoWorker

Begin ==
  /\ worker.pc = "scheduled"
  /\ RunNextBatch(dreamCursor)
  /\ UNCHANGED <<files, observed>>

EndsTask == worker' = NoWorker /\ UNCHANGED wakeup

\* _failed: the batch stays queued, its record names the reason.
RecordFailure(reason) == worker' = [worker EXCEPT !.pc = "recording", !.reason = reason]

\* The provider fails, or answers with an error or tool calls.
PlanningFails ==
  /\ worker.pc \in {"planning", "repairing"}
  /\ MayFail("provider")
  /\ TaskFailure
  /\ RecordFailure("analysis_failed")
  /\ UNCHANGED <<files, wakeup, settled>>

\* A plan may cite sources of its batch only; the provider gets one more chance.
\* {} is a plan without operations, and what cites 0 is no valid plan whatever else.
Parses(cited) == cited \subseteq SourcesOf(worker.batch)

AnswerIsNoPlan(cited) ==
  /\ worker.pc \in {"planning", "repairing"}
  /\ ~Parses(cited)
  /\ \/ /\ worker.pc = "planning"
        /\ worker' = [worker EXCEPT !.pc = "repairing"]
        /\ UNCHANGED <<failures, asked>>
     \/ /\ worker.pc = "repairing"
        /\ MayFail("provider")
        /\ TaskFailure
        /\ RecordFailure("analysis_failed")
  /\ UNCHANGED <<files, wakeup, settled>>

TakesEffect == settled' = settled \cup SourcesOf(worker.batch)

\* A plan without operations completes the batch, any other is applied.
AnswerIsPlan(cited) ==
  /\ worker.pc \in {"planning", "repairing"}
  /\ Parses(cited)
  /\ IF cited = {}
     THEN /\ worker' = [worker EXCEPT !.pc = "recording"]
          /\ TakesEffect
     ELSE /\ worker' = [worker EXCEPT !.pc = "applying", !.plan = cited, !.base = memory]
          /\ UNCHANGED settled
  /\ UNCHANGED <<files, wakeup, failures, asked>>

\* The run on the copy fails, hits its turn limit, or leaves a text too long.
ApplyFails ==
  /\ worker.pc = "applying"
  /\ MayFail("provider")
  /\ TaskFailure
  /\ RecordFailure("execution_failed")
  /\ UNCHANGED <<files, wakeup, settled>>

\* Cancelling the task is noted only while the plan is applied.
CancelTask ==
  /\ worker.pc \in {"scheduled", "planning", "repairing", "applying"}
  /\ MayFail("cancel")
  /\ TaskFailure
  /\ IF worker.pc = "applying" THEN RecordFailure("cancelled") ELSE worker' = NoWorker
  /\ UNCHANGED <<files, wakeup, settled>>

\* The run has made some of the plan's edits.  The text is written if it differs
\* from the file.
ApplyDone(edits) ==
  /\ worker.pc = "applying"
  /\ edits \subseteq worker.plan
  /\ IF worker.base \cup edits # memory
     THEN /\ worker' = [worker EXCEPT !.pc = "writing", !.plan = edits]
          /\ UNCHANGED settled
     ELSE /\ worker' = [worker EXCEPT !.pc = "recording"]
          /\ TakesEffect
  /\ UNCHANGED <<files, wakeup, failures, asked>>

\* write_memory replaces MEMORY.md.
WriteMemory ==
  /\ worker.pc = "writing"
  /\ memory' = worker.base \cup worker.plan
  /\ worker' = [worker EXCEPT !.pc = "recording"]
  /\ TakesEffect
  /\ UNCHANGED <<inbox, torn, dreamCursor, records, wakeup, failures, asked>>

\* Mutant: the record names the first entry only.
RecordOfFirst ==
  [first |-> FirstOf(worker.batch), last |-> FirstOf(worker.batch), reason |-> worker.reason]

RecordOfBatch ==
  [first |-> FirstOf(worker.batch), last |-> LastOf(worker.batch), reason |-> worker.reason]

\* append_dream_record, of a completed batch or by _failed, which ends the task.
WriteRecord ==
  /\ worker.pc = "recording"
  /\ records' = Append(records, RecordOfBatch)
  /\ IF worker.reason = "completed"
     THEN worker' = [worker EXCEPT !.pc = "advancing"] /\ UNCHANGED wakeup
     ELSE EndsTask
  /\ UNCHANGED <<inbox, torn, dreamCursor, memory, observed>>

\* Mutant: the task ends behind one batch.
AdvanceOnce ==
  /\ worker.pc = "advancing"
  /\ dreamCursor' = LastOf(worker.batch)
  /\ EndsTask
  /\ UNCHANGED <<inbox, torn, memory, records, observed>>

\* advance_dream_cursor, then the next round.  It reads the inbox again and raises
\* where it cannot.
AdvanceCursor ==
  /\ worker.pc = "advancing"
  /\ IF Readable
     THEN /\ dreamCursor' = LastOf(worker.batch)
          /\ RunNextBatch(LastOf(worker.batch))
     ELSE UNCHANGED dreamCursor /\ EndsTask
  /\ UNCHANGED <<inbox, torn, memory, records, observed>>

\* A write raises, before or after it replaced the file: the task ends with it.
WriteRaises ==
  /\ Busy
  /\ MayFail("error")
  /\ TaskFailure
  /\ EndsTask
  /\ \/ UNCHANGED <<dreamCursor, memory, records, settled>>
     \/ /\ worker.pc = "writing"
        /\ memory' = worker.base \cup worker.plan
        /\ TakesEffect
        /\ UNCHANGED <<dreamCursor, records>>
     \/ /\ worker.pc = "recording"
        /\ records' = Append(records, RecordOfBatch)
        /\ UNCHANGED <<dreamCursor, memory, settled>>
     \/ /\ worker.pc = "advancing"
        /\ dreamCursor' = LastOf(worker.batch)
        /\ UNCHANGED <<memory, records, settled>>
  /\ UNCHANGED <<inbox, torn>>

--------------------------------------------------------------------------------
Init ==
  /\ inbox = <<>>
  /\ torn = FALSE
  /\ dreamCursor = 0
  /\ memory = {}
  /\ records = <<>>
  /\ worker = NoWorker
  /\ wakeup = FALSE
  /\ failures = 0
  /\ settled = {}
  /\ asked = 0

\* What a plan may cite; 0 stands for a source that does not exist.
Answers == (SUBSET Summaries) \cup {{0}}

WorkerStep ==
  \/ Begin
  \/ PlanningFails
  \/ \E cited \in Answers : AnswerIsNoPlan(cited) \/ AnswerIsPlan(cited)
  \/ ApplyFails
  \/ \E edits \in SUBSET Summaries : ApplyDone(edits)
  \/ WriteMemory
  \/ WriteRecord
  \/ AdvanceCursor
  \/ WriteRaises

Next ==
  \/ \E s \in Summaries : Enqueue(s) \/ EnqueueRaises(s) \/ EnqueueDies(s)
  \/ Schedule
  \/ CancelTask
  \/ Crash
  \/ WorkerStep

Spec == Init /\ [][Next]_vars

\* Providers answer in the end, with a result or an error.
FairSpec == Spec /\ WF_vars(WorkerStep)

--------------------------------------------------------------------------------
(* Properties *)

TypeOK ==
  /\ inbox \in Seq(Entry \cup {Garbage})
  /\ torn \in BOOLEAN
  /\ dreamCursor \in Nat
  /\ memory \subseteq Summaries
  /\ records \in Seq(Record)
  /\ worker \in Workers
  /\ wakeup \in BOOLEAN
  /\ failures \in Nat
  /\ settled \subseteq Summaries
  /\ asked \in Nat

\* The inbox can be read: every line is a record, and cursors increase.  An inbox
\* that cannot be read stops the memory of the workspace for good.
InboxReadable == Readable

\* An enqueue may be repeated after an error or a crash, whatever the first attempt
\* left: a summary is never queued twice.
OncePerSummary ==
  \A i, j \in 1 .. Len(inbox) : inbox[i].summary = inbox[j].summary => i = j

\* The cursor passes an entry only after a batch with it took effect: its plan was
\* empty, or MEMORY.md holds the result.  Entries queued while a plan is made or
\* applied, failures and crashes between the writes do not change that.
NothingSkipped ==
  \A e \in Lines : e.cursor <= dreamCursor => e.summary \in settled

\* Every entry behind the cursor lies in the range of a completed record of the
\* dream log, so that what became of it can be looked up.
Traceable ==
  \A e \in Lines : e.cursor <= dreamCursor =>
    \E i \in 1 .. Len(records) : /\ records[i].reason = "completed"
                               /\ records[i].first <= e.cursor
                               /\ e.cursor <= records[i].last

\* A Dream asked for, while one runs or not, gets to every entry queued by then,
\* unless the task fails or the process dies first.
WakeupServed ==
  \A n \in Summaries : (asked >= n) ~> (dreamCursor >= n \/ asked < n)

================================================================================
