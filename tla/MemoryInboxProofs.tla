--------------------------- MODULE MemoryInboxProofs ---------------------------
(***************************************************************************)
(* Proofs about MemoryInbox for any number of summaries, batch sizes and   *)
(* failures.  Where no append leaves bytes without a newline, the inbox    *)
(* stays readable and the Dream cursor passes only entries whose batch     *)
(* took effect and is recorded.  Whatever appends leave, no summary is     *)
(* queued twice.                                                           *)
(***************************************************************************)
EXTENDS MemoryInbox, NumberLemmas, FiniteSetTheorems, SequenceTheorems, TLAPS

\* Appends are whole or absent.
WholeAppends == "tear" \notin Faults

\* The inbox has no bytes behind its last newline, and can be read.
Whole == torn = FALSE /\ Readable

\* batch holds every line from the cursor up to any of its entries.
Closed(batch, cursor) ==
  /\ batch \subseteq Lines
  /\ \A e \in Lines, d \in batch : cursor < e.cursor /\ e.cursor <= d.cursor => e \in batch

Holding == worker.pc \notin {"none", "scheduled"}

\* The batch in hand is what follows the cursor in the inbox, without a gap.
BatchFollows == Holding => worker.batch # {} /\ Closed(worker.batch, dreamCursor)

\* A batch about to be recorded as completed, or recorded so, took effect.
BatchSettled ==
  worker.pc \in {"recording", "advancing"} /\ worker.reason = "completed"
    => SourcesOf(worker.batch) \subseteq settled

\* The log has a completed record from entry first to entry last.
Recorded(first, last) ==
  \E i \in 1 .. Len(records) :
    records[i].reason = "completed" /\ records[i].first = first /\ records[i].last = last

\* The cursor is advanced behind the record.
BatchRecorded ==
  worker.pc = "advancing" =>
    worker.reason = "completed" /\ Recorded(FirstOf(worker.batch), LastOf(worker.batch))

\* The inductive invariant.
InboxInv ==
  /\ TypeOK
  /\ Whole
  /\ BatchFollows
  /\ BatchSettled
  /\ BatchRecorded
  /\ NothingSkipped
  /\ Traceable

-----------------------------------------------------------------------------
(* The lines of the inbox *)

\* In a readable inbox every line is an entry, the last one has the greatest cursor.
LEMMA LinesAreEntries ==
  ASSUME TypeOK, Readable
  PROVE  /\ Lines \subseteq Entry
         /\ IsFiniteSet(Lines)
         /\ LastCursor \in Nat
         /\ \A e \in Lines : e.cursor <= LastCursor
<1> DEFINE n == Len(inbox)
<1>1. n \in Nat /\ DOMAIN inbox = 1 .. n /\ inbox \in [1 .. n -> Entry \cup {Garbage}]
  BY DEF TypeOK
<1>2. Lines \subseteq Entry
  BY <1>1 DEF Readable, Lines
<1>3. IsFiniteSet(Lines)
  <2>1. inbox \in Surjection(1 .. n, Lines)
    BY <1>1 DEF Surjection, Lines
  <2>2. IsFiniteSet(1 .. n)
    BY <1>1, FS_Interval
  <2> QED BY <2>1, <2>2, FS_Surjection
<1>4. CASE inbox = <<>>
  <2>1. Lines = {} /\ LastCursor = 0
    BY <1>4 DEF Lines, LastCursor
  <2> QED BY <1>2, <1>3, <2>1
<1>5. CASE inbox # <<>>
  <2>1. n \in 1 .. n /\ LastCursor = inbox[n].cursor
    BY <1>1, <1>5, EmptySeq DEF LastCursor
  <2>2. inbox[n] \in Entry
    BY <1>2, <2>1 DEF Lines
  <2>3. \A i \in 1 .. n : inbox[i] \in Entry /\ inbox[i].cursor <= inbox[n].cursor
    <3> TAKE i \in 1 .. n
    <3>1. inbox[i] \in Entry
      BY <1>2 DEF Lines
    <3>2. i < n => inbox[i].cursor < inbox[n].cursor
      BY <1>1, <2>1 DEF Readable
    <3> QED BY <1>1, <2>2, <3>1, <3>2 DEF Entry
  <2>4. LastCursor \in Nat
    BY <2>1, <2>2 DEF Entry
  <2>5. \A e \in Lines : e.cursor <= LastCursor
    BY <2>1, <2>3 DEF Lines
  <2> QED BY <1>2, <1>3, <2>4, <2>5
<1> QED BY <1>4, <1>5

\* FirstOf and LastOf are the least and the greatest cursor of a batch.
LEMMA BatchEnds ==
  ASSUME TypeOK, Readable, NEW batch, batch \subseteq Lines, batch # {}
  PROVE  /\ FirstOf(batch) \in Nat \ {0}
         /\ LastOf(batch) \in Nat \ {0}
         /\ \A e \in batch : FirstOf(batch) <= e.cursor /\ e.cursor <= LastOf(batch)
         /\ \E d \in batch : d.cursor = LastOf(batch)
<1> DEFINE C == {e.cursor : e \in batch}
<1>1. batch \subseteq Entry /\ LastCursor \in Nat /\ \A e \in batch : e.cursor <= LastCursor
  BY LinesAreEntries
<1>2. C \in SUBSET Nat /\ C \in SUBSET (0 .. LastCursor) /\ C # {} /\ 0 \notin C
  BY <1>1 DEF Entry
<1>3. \E c \in C : \A n \in C : c <= n
  BY <1>2, LeastNumber
<1>4. \E c \in C : \A n \in C : n <= c
  BY <1>1, <1>2, GreatestNumber
<1>5. FirstOf(batch) \in C /\ \A e \in batch : FirstOf(batch) <= e.cursor
  <2>1. \E c \in C : \A e \in batch : c <= e.cursor
    BY <1>3
  <2> QED BY <2>1 DEF FirstOf
<1>6. LastOf(batch) \in C /\ \A e \in batch : e.cursor <= LastOf(batch)
  <2>1. \E c \in C : \A e \in batch : e.cursor <= c
    BY <1>4
  <2> QED BY <2>1 DEF LastOf
<1> QED BY <1>2, <1>5, <1>6

\* What read_pending returns is what follows the cursor, without a gap.
LEMMA NextBatchFollows ==
  ASSUME TypeOK, Readable, NEW cursor \in Nat
  PROVE  NextBatch(cursor) \in SUBSET Entry /\ Closed(NextBatch(cursor), cursor)
<1>1. Lines \subseteq Entry /\ IsFiniteSet(Lines)
  BY LinesAreEntries
<1>2. NextBatch(cursor) \subseteq Lines
  BY DEF NextBatch, Pending
<1>3. MaxBatch \in Nat
  BY MemoryAssumption
<1>4. ASSUME NEW e \in Lines, NEW d \in NextBatch(cursor), cursor < e.cursor, e.cursor <= d.cursor
      PROVE  e \in NextBatch(cursor)
  <2> DEFINE Before(x) == {y \in Pending(cursor) : y.cursor < x.cursor}
  <2>1. e \in Entry /\ d \in Entry /\ e \in Pending(cursor)
    BY <1>1, <1>2, <1>4 DEF Pending, Entry
  <2>2. Before(e) \subseteq Before(d) /\ Before(d) \subseteq Lines
    BY <1>1, <1>4, <2>1 DEF Pending, Entry
  <2>3. IsFiniteSet(Before(d)) /\ IsFiniteSet(Before(e))
    BY <1>1, <2>2, FS_Subset
  <2>4. Cardinality(Before(e)) <= Cardinality(Before(d))
    BY <2>2, <2>3, FS_Subset
  <2>5. Cardinality(Before(d)) < MaxBatch
    BY DEF NextBatch
  <2>6. Cardinality(Before(e)) \in Nat /\ Cardinality(Before(d)) \in Nat
    BY <2>3, FS_CardinalityType
  <2>7. Cardinality(Before(e)) < MaxBatch
    BY <1>3, <2>4, <2>5, <2>6
  <2> QED BY <2>1, <2>7 DEF NextBatch
<1> QED BY <1>1, <1>2, <1>4 DEF Closed

-----------------------------------------------------------------------------
(* Steps that leave the inbox, the cursor and the log alone *)

\* NoWorker has the shape of a worker.
LEMMA NoWorkerType ==
  NoWorker \in Workers
BY DEF NoWorker, Workers, WorkerStates, Reasons

\* The properties of the files hold on; a summary once settled stays so.
LEMMA FilesKept ==
  ASSUME InboxInv, UNCHANGED <<inbox, torn, dreamCursor, records>>, settled \subseteq settled'
  PROVE  Whole' /\ NothingSkipped' /\ Traceable'
<1>1. Lines' = Lines
  BY DEF Lines
<1>2. Whole'
  BY <1>1 DEF InboxInv, Whole, Readable
<1>3. NothingSkipped'
  BY <1>1 DEF InboxInv, NothingSkipped
<1>4. Traceable'
  BY <1>1 DEF InboxInv, Traceable
<1> QED BY <1>2, <1>3, <1>4

\* A worker without a batch promises nothing.
LEMMA NothingHeld ==
  ASSUME worker'.pc \in {"none", "scheduled"}
  PROVE  BatchFollows' /\ BatchSettled' /\ BatchRecorded'
BY DEF BatchFollows, BatchSettled, BatchRecorded, Holding

\* The worker goes on with its batch.
LEMMA SameBatch ==
  ASSUME InboxInv, Holding, worker'.batch = worker.batch, UNCHANGED <<inbox, dreamCursor>>
  PROVE  BatchFollows'
<1>1. Lines' = Lines
  BY DEF Lines
<1>2. worker.batch # {} /\ Closed(worker.batch, dreamCursor)
  BY DEF InboxInv, BatchFollows
<1>3. worker'.batch # {} /\ Closed(worker.batch, dreamCursor)'
  BY <1>1, <1>2 DEF Closed
<1> QED BY <1>3 DEF BatchFollows, Closed

\* Crash
LEMMA CrashStep ==
  ASSUME InboxInv, Crash
  PROVE  InboxInv'
<1>1. TypeOK'
  <2>1. /\ UNCHANGED <<inbox, torn, dreamCursor, memory, records, settled>>
        /\ worker' = NoWorker /\ wakeup' = FALSE /\ asked' = 0 /\ failures' = failures + 1
    BY DEF Crash, Failure, Restart, files
  <2>2. worker' \in Workers
    BY <2>1, NoWorkerType, Zenon
  <2>3. failures \in Nat
    BY DEF InboxInv, TypeOK
  <2>4. failures' \in Nat /\ asked' \in Nat
    BY <2>1, <2>3
  <2>5. wakeup' \in BOOLEAN
    BY <2>1, Zenon
  <2> QED BY <2>1, <2>2, <2>4, <2>5 DEF InboxInv, TypeOK
<1>2. Whole' /\ NothingSkipped' /\ Traceable'
  BY FilesKept DEF Crash, files
<1>3. BatchFollows' /\ BatchSettled' /\ BatchRecorded'
  BY NothingHeld DEF Crash, Restart, NoWorker
<1> QED BY <1>1, <1>2, <1>3 DEF InboxInv

\* Schedule
LEMMA ScheduleStep ==
  ASSUME InboxInv, Schedule
  PROVE  InboxInv'
<1>1. LastCursor \in Nat
  BY LinesAreEntries DEF InboxInv, Whole
<1>2. TypeOK'
  BY <1>1, NoWorkerType DEF InboxInv, TypeOK, Schedule, files, Workers, WorkerStates
<1>3. Whole' /\ NothingSkipped' /\ Traceable'
  BY FilesKept DEF Schedule, files
<1>4. CASE worker.pc = "none"
  <2>1. worker'.pc = "scheduled"
    BY <1>4 DEF Schedule, NoWorker
  <2> QED BY <1>2, <1>3, <2>1, NothingHeld DEF InboxInv
<1>5. CASE worker.pc # "none"
  <2>1. UNCHANGED <<inbox, dreamCursor, records, settled, worker>>
    BY <1>5 DEF Schedule, files
  <2>2. Lines' = Lines
    BY <2>1 DEF Lines
  <2>3. BatchFollows'
    BY <2>1, <2>2 DEF InboxInv, BatchFollows, Closed, Holding
  <2>4. BatchSettled' /\ BatchRecorded'
    BY <2>1 DEF InboxInv, BatchSettled, SourcesOf, BatchRecorded, Recorded, FirstOf, LastOf
  <2> QED BY <1>2, <1>3, <2>3, <2>4 DEF InboxInv
<1> QED BY <1>4, <1>5

\* RunNextBatch leaves no worker, or one that plans for a batch in order.
LEMMA NextRound ==
  ASSUME InboxInv, NEW cursor \in Nat, RunNextBatch(cursor), dreamCursor' = cursor, UNCHANGED inbox
  PROVE  /\ worker' \in Workers
         /\ BatchFollows' /\ BatchSettled' /\ BatchRecorded'
<1>1. TypeOK /\ Readable
  BY DEF InboxInv, Whole
<1>2. NextBatch(cursor) \in SUBSET Entry /\ Closed(NextBatch(cursor), cursor)
  BY <1>1, NextBatchFollows
<1>3. Lines' = Lines
  BY DEF Lines
<1>4. CASE NextBatch(cursor) = {}
  <2>1. worker' = NoWorker
    BY <1>4 DEF RunNextBatch
  <2>2. worker'.pc = "none"
    BY <2>1 DEF NoWorker
  <2> QED BY <2>1, <2>2, NoWorkerType, NothingHeld
<1>5. CASE NextBatch(cursor) # {}
  <2>1. worker' = [NoWorker EXCEPT !.pc = "planning", !.batch = NextBatch(cursor)]
    BY <1>1, <1>5 DEF RunNextBatch
  <2>2. worker' \in Workers
    BY <1>2, <2>1, NoWorkerType DEF Workers, WorkerStates
  <2>3. worker'.pc = "planning" /\ worker'.batch = NextBatch(cursor)
    BY <2>1 DEF NoWorker
  <2>4. BatchFollows'
    BY <1>2, <1>3, <1>5, <2>3 DEF BatchFollows, Closed
  <2>5. BatchSettled' /\ BatchRecorded'
    BY <2>3 DEF BatchSettled, BatchRecorded
  <2> QED BY <2>2, <2>4, <2>5
<1> QED BY <1>4, <1>5

\* Begin
LEMMA BeginStep ==
  ASSUME InboxInv, Begin
  PROVE  InboxInv'
<1>1. dreamCursor \in Nat
  BY DEF InboxInv, TypeOK
<1>2. /\ worker' \in Workers
      /\ BatchFollows' /\ BatchSettled' /\ BatchRecorded'
  BY <1>1, NextRound DEF Begin, files
<1>3. TypeOK'
  BY <1>2 DEF InboxInv, TypeOK, Begin, RunNextBatch, files, observed
<1>4. Whole' /\ NothingSkipped' /\ Traceable'
  BY FilesKept DEF Begin, files, observed
<1> QED BY <1>2, <1>3, <1>4 DEF InboxInv

\* The worker goes on with its batch, up to the record; a batch may take effect.
LEMMA BatchGoesOn ==
  ASSUME InboxInv, Holding, UNCHANGED <<inbox, torn, dreamCursor, records, wakeup>>,
         worker' \in Workers, worker'.batch = worker.batch, worker'.pc # "advancing",
         worker'.pc = "recording" /\ worker'.reason = "completed"
           => SourcesOf(worker.batch) \subseteq settled',
         settled' = settled \/ TakesEffect,
         memory' \subseteq Summaries, failures' \in Nat, asked' \in Nat
  PROVE  InboxInv'
<1>1. worker.batch \in SUBSET Entry
  BY DEF InboxInv, TypeOK, Workers
<1>2. SourcesOf(worker.batch) \subseteq Summaries
  BY <1>1 DEF SourcesOf, Entry
<1>3. settled \subseteq settled' /\ settled' \subseteq Summaries
  BY <1>2 DEF TakesEffect, InboxInv, TypeOK
<1>4. TypeOK'
  BY <1>3 DEF InboxInv, TypeOK
<1>5. Whole' /\ NothingSkipped' /\ Traceable'
  BY <1>3, FilesKept
<1>6. BatchFollows'
  BY SameBatch
<1>7. BatchSettled' /\ BatchRecorded'
  BY DEF BatchSettled, BatchRecorded, SourcesOf
<1> QED BY <1>4, <1>5, <1>6, <1>7 DEF InboxInv

\* The worker ends before the record.
LEMMA BatchDropped ==
  ASSUME InboxInv, UNCHANGED <<inbox, torn, dreamCursor, records, wakeup>>, worker' = NoWorker,
         settled' = settled \/ TakesEffect,
         memory' \subseteq Summaries, failures' \in Nat, asked' \in Nat
  PROVE  InboxInv'
<1>1. worker.batch \in SUBSET Entry
  BY DEF InboxInv, TypeOK, Workers
<1>2. SourcesOf(worker.batch) \subseteq Summaries
  BY <1>1 DEF SourcesOf, Entry
<1>3. settled \subseteq settled' /\ settled' \subseteq Summaries
  BY <1>2 DEF TakesEffect, InboxInv, TypeOK
<1>4. worker' \in Workers /\ worker'.pc = "none"
  BY NoWorkerType DEF NoWorker
<1>5. TypeOK'
  BY <1>3, <1>4 DEF InboxInv, TypeOK
<1>6. Whole' /\ NothingSkipped' /\ Traceable'
  BY <1>3, FilesKept
<1> QED BY <1>4, <1>5, <1>6, NothingHeld DEF InboxInv

\* The failure counter stays a number.
LEMMA FailureType ==
  ASSUME InboxInv, Failure
  PROVE  failures' \in Nat
<1>1. failures \in Nat
  BY DEF InboxInv, TypeOK
<1> QED BY <1>1 DEF Failure

\* A batch whose plan or whose run failed is recorded so.
LEMMA FailsStep ==
  ASSUME InboxInv, PlanningFails \/ ApplyFails
  PROVE  InboxInv'
<1>1. PICK r \in {"analysis_failed", "execution_failed"} : RecordFailure(r)
  BY DEF PlanningFails, ApplyFails
<1>2. /\ UNCHANGED <<inbox, torn, dreamCursor, records, wakeup, memory, settled>>
      /\ Failure /\ asked' = 0 /\ worker.pc \in {"planning", "repairing", "applying"}
  BY DEF PlanningFails, ApplyFails, TaskFailure, files
<1>3. worker \in Workers
  BY DEF InboxInv, TypeOK
<1>4. worker' \in Workers /\ worker'.batch = worker.batch /\ worker'.pc = "recording"
      /\ worker'.reason # "completed"
  BY <1>1, <1>3 DEF RecordFailure, Workers, WorkerStates, Reasons
<1>5. Holding
  BY <1>2 DEF Holding
<1>6. failures' \in Nat /\ asked' \in Nat /\ memory' \subseteq Summaries
  BY <1>2, FailureType DEF InboxInv, TypeOK
<1> QED BY <1>2, <1>4, <1>5, <1>6, BatchGoesOn

\* An answer that is no plan: one more chance, then the batch failed.
LEMMA AnswerIsNoPlanStep ==
  ASSUME InboxInv, NEW cited, AnswerIsNoPlan(cited)
  PROVE  InboxInv'
<1>1. /\ UNCHANGED <<inbox, torn, dreamCursor, records, wakeup, memory, settled>>
      /\ worker.pc \in {"planning", "repairing"}
  BY DEF AnswerIsNoPlan, files
<1>2. worker \in Workers
  BY DEF InboxInv, TypeOK
<1>3. \/ worker' = [worker EXCEPT !.pc = "repairing"]
      \/ RecordFailure("analysis_failed")
  BY DEF AnswerIsNoPlan
<1>4. /\ worker' \in Workers
      /\ worker'.batch = worker.batch
      /\ \/ worker'.pc = "repairing"
         \/ worker'.pc = "recording" /\ worker'.reason # "completed"
  <2>1. CASE worker' = [worker EXCEPT !.pc = "repairing"]
    <3>1. worker' \in Workers
      BY <1>2, <2>1 DEF Workers, WorkerStates
    <3>2. worker'.batch = worker.batch /\ worker'.pc = "repairing"
      BY <1>2, <2>1 DEF Workers
    <3> QED BY <3>1, <3>2
  <2>2. CASE RecordFailure("analysis_failed")
    BY <1>2, <2>2 DEF RecordFailure, Workers, WorkerStates, Reasons
  <2> QED BY <1>3, <2>1, <2>2
<1>5. Holding
  BY <1>1 DEF Holding
<1>6. UNCHANGED <<failures, asked>> \/ (Failure /\ asked' = 0)
  BY DEF AnswerIsNoPlan, TaskFailure
<1>7. failures' \in Nat /\ asked' \in Nat /\ memory' \subseteq Summaries
  BY <1>1, <1>6, FailureType DEF InboxInv, TypeOK
<1> QED BY <1>1, <1>4, <1>5, <1>7, BatchGoesOn

\* A plan without operations settles the batch, any other is applied.
LEMMA AnswerIsPlanStep ==
  ASSUME InboxInv, NEW cited, AnswerIsPlan(cited)
  PROVE  InboxInv'
<1>1. /\ UNCHANGED <<inbox, torn, dreamCursor, records, wakeup, memory, failures, asked>>
      /\ worker.pc \in {"planning", "repairing"}
  BY DEF AnswerIsPlan, files
<1>2. worker \in Workers /\ memory \subseteq Summaries
  BY DEF InboxInv, TypeOK
<1>3. cited \subseteq Summaries
  BY <1>2 DEF AnswerIsPlan, Parses, SourcesOf, Workers, Entry
<1>4. \/ worker' = [worker EXCEPT !.pc = "recording"] /\ TakesEffect
      \/ /\ worker' = [worker EXCEPT !.pc = "applying", !.plan = cited, !.base = memory]
         /\ settled' = settled
  BY DEF AnswerIsPlan
<1>5. /\ worker' \in Workers
      /\ worker'.batch = worker.batch
      /\ \/ worker'.pc = "recording" /\ TakesEffect
         \/ worker'.pc = "applying" /\ settled' = settled
  <2>1. CASE worker' = [worker EXCEPT !.pc = "recording"] /\ TakesEffect
    <3>1. worker' \in Workers
      BY <1>2, <2>1 DEF Workers, WorkerStates
    <3>2. worker'.batch = worker.batch /\ worker'.pc = "recording"
      BY <1>2, <2>1 DEF Workers
    <3>3. TakesEffect
      BY <2>1
    <3> QED BY <3>1, <3>2, <3>3
  <2>2. CASE /\ worker' = [worker EXCEPT !.pc = "applying", !.plan = cited, !.base = memory]
             /\ settled' = settled
    BY <1>2, <1>3, <2>2 DEF Workers, WorkerStates
  <2> QED BY <1>4, <2>1, <2>2
<1>6. TakesEffect => SourcesOf(worker.batch) \subseteq settled'
  BY DEF TakesEffect
<1>7. Holding
  BY <1>1 DEF Holding
<1>8. failures' \in Nat /\ asked' \in Nat /\ memory' \subseteq Summaries
  BY <1>1 DEF InboxInv, TypeOK
<1> QED BY <1>1, <1>5, <1>6, <1>7, <1>8, BatchGoesOn

\* The run on the copy ends; nothing to write settles the batch.
LEMMA ApplyDoneStep ==
  ASSUME InboxInv, NEW edits \in SUBSET Summaries, ApplyDone(edits)
  PROVE  InboxInv'
<1>1. /\ UNCHANGED <<inbox, torn, dreamCursor, records, wakeup, memory, failures, asked>>
      /\ worker.pc = "applying"
  BY DEF ApplyDone, files
<1>2. worker \in Workers
  BY DEF InboxInv, TypeOK
<1>3. \/ worker' = [worker EXCEPT !.pc = "writing", !.plan = edits] /\ settled' = settled
      \/ worker' = [worker EXCEPT !.pc = "recording"] /\ TakesEffect
  BY DEF ApplyDone
<1>4. /\ worker' \in Workers
      /\ worker'.batch = worker.batch
      /\ \/ worker'.pc = "recording" /\ TakesEffect
         \/ worker'.pc = "writing" /\ settled' = settled
  <2>1. CASE worker' = [worker EXCEPT !.pc = "recording"] /\ TakesEffect
    <3>1. worker' \in Workers
      BY <1>2, <2>1 DEF Workers, WorkerStates
    <3>2. worker'.batch = worker.batch /\ worker'.pc = "recording"
      BY <1>2, <2>1 DEF Workers
    <3>3. TakesEffect
      BY <2>1
    <3> QED BY <3>1, <3>2, <3>3
  <2>2. CASE worker' = [worker EXCEPT !.pc = "writing", !.plan = edits] /\ settled' = settled
    BY <1>2, <2>2 DEF Workers, WorkerStates
  <2> QED BY <1>3, <2>1, <2>2
<1>5. TakesEffect => SourcesOf(worker.batch) \subseteq settled'
  BY DEF TakesEffect
<1>6. Holding
  BY <1>1 DEF Holding
<1>7. failures' \in Nat /\ asked' \in Nat /\ memory' \subseteq Summaries
  BY <1>1 DEF InboxInv, TypeOK
<1> QED BY <1>1, <1>4, <1>5, <1>6, <1>7, BatchGoesOn

\* CancelTask drops the batch or records it as cancelled.
LEMMA CancelTaskStep ==
  ASSUME InboxInv, CancelTask
  PROVE  InboxInv'
<1>1. /\ UNCHANGED <<inbox, torn, dreamCursor, records, wakeup, memory, settled>>
      /\ Failure /\ asked' = 0
  BY DEF CancelTask, TaskFailure, files
<1>2. failures' \in Nat /\ asked' \in Nat /\ memory' \subseteq Summaries
  BY <1>1, FailureType DEF InboxInv, TypeOK
<1>3. CASE worker.pc = "applying"
  <2>1. RecordFailure("cancelled")
    BY <1>3 DEF CancelTask
  <2>2. worker \in Workers
    BY DEF InboxInv, TypeOK
  <2>3. /\ worker' \in Workers
        /\ worker'.batch = worker.batch
        /\ worker'.pc = "recording"
        /\ worker'.reason # "completed"
    BY <2>1, <2>2 DEF RecordFailure, Workers, WorkerStates, Reasons
  <2>4. Holding
    BY <1>3 DEF Holding
  <2> QED BY <1>1, <1>2, <2>3, <2>4, BatchGoesOn
<1>4. CASE worker.pc # "applying"
  <2>1. worker' = NoWorker
    BY <1>4 DEF CancelTask
  <2> QED BY <1>1, <1>2, <2>1, BatchDropped
<1> QED BY <1>3, <1>4

\* What write_memory leaves in MEMORY.md.
LEMMA MemoryWritten ==
  ASSUME InboxInv, memory' = worker.base \cup worker.plan
  PROVE  memory' \subseteq Summaries
BY DEF InboxInv, TypeOK, Workers

\* Writing MEMORY.md settles the batch.
LEMMA WriteMemoryStep ==
  ASSUME InboxInv, WriteMemory
  PROVE  InboxInv'
<1>1. /\ UNCHANGED <<inbox, torn, dreamCursor, records, wakeup, failures, asked>>
      /\ worker.pc = "writing" /\ TakesEffect
      /\ memory' = worker.base \cup worker.plan
      /\ worker' = [worker EXCEPT !.pc = "recording"]
  BY DEF WriteMemory
<1>2. worker \in Workers
  BY DEF InboxInv, TypeOK
<1>3. worker' \in Workers
  BY <1>1, <1>2 DEF Workers, WorkerStates
<1>4. worker'.batch = worker.batch /\ worker'.pc = "recording"
  BY <1>1, <1>2 DEF Workers
<1>5. SourcesOf(worker.batch) \subseteq settled'
  BY <1>1 DEF TakesEffect
<1>6. Holding
  BY <1>1 DEF Holding
<1>7. failures' \in Nat /\ asked' \in Nat
  BY <1>1 DEF InboxInv, TypeOK
<1>8. memory' \subseteq Summaries
  BY <1>1, MemoryWritten
<1> QED BY <1>1, <1>3, <1>4, <1>5, <1>6, <1>7, <1>8, BatchGoesOn

-----------------------------------------------------------------------------
(* The record and the cursor *)

\* The ends of the batch in hand.
LEMMA HeldBatch ==
  ASSUME InboxInv, Holding
  PROVE  /\ worker.batch \in SUBSET Entry /\ worker.batch # {}
         /\ Closed(worker.batch, dreamCursor)
         /\ FirstOf(worker.batch) \in Nat \ {0} /\ LastOf(worker.batch) \in Nat \ {0}
         /\ \A e \in worker.batch :
               FirstOf(worker.batch) <= e.cursor /\ e.cursor <= LastOf(worker.batch)
         /\ \E d \in worker.batch : d.cursor = LastOf(worker.batch)
<1>1. worker.batch # {} /\ Closed(worker.batch, dreamCursor)
  BY DEF InboxInv, BatchFollows
<1>2. TypeOK /\ Readable /\ worker.batch \subseteq Lines
  BY <1>1 DEF InboxInv, Whole, Closed
<1>3. worker.batch \in SUBSET Entry
  BY <1>2 DEF TypeOK, Workers
<1> QED BY <1>1, <1>2, <1>3, BatchEnds

\* append_dream_record adds a record of the batch and keeps the others.
LEMMA LogGrows ==
  ASSUME InboxInv, Holding, records' = Append(records, RecordOfBatch),
         UNCHANGED <<inbox, torn, dreamCursor, settled>>
  PROVE  /\ records' \in Seq(Record)
         /\ Whole' /\ NothingSkipped' /\ Traceable'
         /\ \E i \in 1 .. Len(records') : records'[i] = RecordOfBatch
<1>1. FirstOf(worker.batch) \in Nat \ {0} /\ LastOf(worker.batch) \in Nat \ {0}
  BY HeldBatch
<1>2. worker.reason \in Reasons /\ records \in Seq(Record)
  BY DEF InboxInv, TypeOK, Workers
<1>3. RecordOfBatch \in Record
  BY <1>1, <1>2 DEF RecordOfBatch, Record
<1>4. /\ records' \in Seq(Record) /\ Len(records) \in Nat /\ Len(records') = Len(records) + 1
      /\ \A i \in 1 .. Len(records) : records'[i] = records[i]
      /\ records'[Len(records) + 1] = RecordOfBatch
  BY <1>2, <1>3
<1>5. Lines' = Lines
  BY DEF Lines
<1>6. Whole' /\ NothingSkipped'
  BY <1>5 DEF InboxInv, Whole, Readable, NothingSkipped
<1>7. Traceable'
  <2> SUFFICES ASSUME NEW e \in Lines, e.cursor <= dreamCursor
               PROVE  \E i \in 1 .. Len(records') : /\ records'[i].reason = "completed"
                                                   /\ records'[i].first <= e.cursor
                                                   /\ e.cursor <= records'[i].last
    BY <1>5 DEF Traceable
  <2>1. PICK i \in 1 .. Len(records) : /\ records[i].reason = "completed"
                                      /\ records[i].first <= e.cursor
                                      /\ e.cursor <= records[i].last
    BY DEF InboxInv, Traceable
  <2>2. i \in 1 .. Len(records') /\ records'[i] = records[i]
    BY <1>4
  <2> QED BY <2>1, <2>2
<1>8. \E i \in 1 .. Len(records') : records'[i] = RecordOfBatch
  BY <1>4
<1> QED BY <1>4, <1>6, <1>7, <1>8

\* After the record a completed batch goes on to the cursor, a failed one ends the task.
LEMMA WriteRecordStep ==
  ASSUME InboxInv, WriteRecord
  PROVE  InboxInv'
<1>1. /\ worker.pc = "recording" /\ records' = Append(records, RecordOfBatch)
      /\ UNCHANGED <<inbox, torn, dreamCursor, memory, failures, settled, asked, wakeup>>
  BY DEF WriteRecord, EndsTask, observed
<1>2. worker \in Workers
  BY DEF InboxInv, TypeOK
<1>3. Holding
  BY <1>1 DEF Holding
<1>4. records' \in Seq(Record) /\ Whole' /\ NothingSkipped' /\ Traceable'
  BY <1>1, <1>3, LogGrows
<1>5. worker' \in Workers => TypeOK'
  BY <1>1, <1>4 DEF InboxInv, TypeOK
<1>6. CASE worker.reason = "completed"
  <2>1. worker' = [worker EXCEPT !.pc = "advancing"]
    BY <1>6 DEF WriteRecord
  <2>2. worker' \in Workers
    BY <1>2, <2>1 DEF Workers, WorkerStates
  <2>3. worker'.batch = worker.batch /\ worker'.pc = "advancing" /\ worker'.reason = "completed"
    BY <1>2, <1>6, <2>1 DEF Workers
  <2>4. BatchFollows'
    BY <1>1, <1>3, <2>3, SameBatch
  <2>5. SourcesOf(worker.batch) \subseteq settled
    BY <1>1, <1>6 DEF InboxInv, BatchSettled
  <2>6. BatchSettled'
    BY <1>1, <2>3, <2>5 DEF BatchSettled, SourcesOf
  <2>7. PICK i \in 1 .. Len(records') : records'[i] = RecordOfBatch
    BY <1>1, <1>3, LogGrows
  <2>8. /\ records'[i].reason = "completed"
        /\ records'[i].first = FirstOf(worker.batch) /\ records'[i].last = LastOf(worker.batch)
    BY <1>6, <2>7 DEF RecordOfBatch
  <2>9. BatchRecorded'
    BY <2>3, <2>7, <2>8 DEF BatchRecorded, Recorded
  <2> QED BY <1>4, <1>5, <2>2, <2>4, <2>6, <2>9 DEF InboxInv
<1>7. CASE worker.reason # "completed"
  <2>1. worker' = NoWorker
    BY <1>7 DEF WriteRecord, EndsTask
  <2>2. worker' \in Workers /\ worker'.pc = "none"
    BY <2>1, NoWorkerType DEF NoWorker
  <2> QED BY <1>4, <1>5, <2>2, NothingHeld DEF InboxInv
<1> QED BY <1>6, <1>7

\* advance_dream_cursor passes what the recorded batch held, and nothing else.
LEMMA CursorPasses ==
  ASSUME InboxInv, worker.pc = "advancing", dreamCursor' = LastOf(worker.batch),
         UNCHANGED <<inbox, torn, records, settled>>
  PROVE  dreamCursor' \in Nat /\ Whole' /\ NothingSkipped' /\ Traceable'
<1>1. Holding
  BY DEF Holding
<1>2. Lines' = Lines /\ Whole'
  BY DEF Lines, InboxInv, Whole, Readable
<1>3. Lines \subseteq Entry /\ dreamCursor \in Nat
  BY LinesAreEntries DEF InboxInv, Whole, TypeOK
<1>4. ASSUME NEW e \in Lines, e.cursor <= dreamCursor', ~(e.cursor <= dreamCursor)
      PROVE  e \in worker.batch
  <2>1. PICK d \in worker.batch : d.cursor = LastOf(worker.batch)
    BY <1>1, HeldBatch
  <2>2. e.cursor \in Nat /\ dreamCursor < e.cursor /\ e.cursor <= d.cursor
    BY <1>3, <1>4, <2>1 DEF Entry
  <2> QED BY <1>1, <2>2, HeldBatch DEF Closed
<1>5. NothingSkipped'
  <2>1. SourcesOf(worker.batch) \subseteq settled
    BY DEF InboxInv, BatchSettled, BatchRecorded
  <2> SUFFICES ASSUME NEW e \in Lines, e.cursor <= dreamCursor'
               PROVE  e.summary \in settled
    BY <1>2 DEF NothingSkipped
  <2>2. CASE e.cursor <= dreamCursor
    BY <2>2 DEF InboxInv, NothingSkipped
  <2>3. CASE ~(e.cursor <= dreamCursor)
    BY <1>4, <2>1, <2>3 DEF SourcesOf
  <2> QED BY <2>2, <2>3
<1>6. Traceable'
  <2> SUFFICES ASSUME NEW e \in Lines, e.cursor <= dreamCursor'
               PROVE  \E i \in 1 .. Len(records) : /\ records[i].reason = "completed"
                                                  /\ records[i].first <= e.cursor
                                                  /\ e.cursor <= records[i].last
    BY <1>2 DEF Traceable
  <2>1. CASE e.cursor <= dreamCursor
    BY <2>1 DEF InboxInv, Traceable
  <2>2. CASE ~(e.cursor <= dreamCursor)
    <3>1. e \in worker.batch
      BY <1>4, <2>2
    <3>2. FirstOf(worker.batch) <= e.cursor /\ e.cursor <= LastOf(worker.batch)
      BY <1>1, <3>1, HeldBatch
    <3>3. Recorded(FirstOf(worker.batch), LastOf(worker.batch))
      BY DEF InboxInv, BatchRecorded
    <3> QED BY <3>2, <3>3 DEF Recorded
  <2> QED BY <2>1, <2>2
<1>7. dreamCursor' \in Nat
  BY <1>1, HeldBatch
<1> QED BY <1>2, <1>5, <1>6, <1>7

\* The cursor passes the batch and the next one is read.
LEMMA AdvanceCursorStep ==
  ASSUME InboxInv, AdvanceCursor
  PROVE  InboxInv'
<1>1. /\ worker.pc = "advancing" /\ Readable
      /\ dreamCursor' = LastOf(worker.batch) /\ RunNextBatch(LastOf(worker.batch))
      /\ UNCHANGED <<inbox, torn, memory, records, failures, settled, asked>>
  BY DEF AdvanceCursor, InboxInv, Whole, observed
<1>2. dreamCursor' \in Nat /\ Whole' /\ NothingSkipped' /\ Traceable'
  BY <1>1, CursorPasses
<1>3. LastOf(worker.batch) \in Nat
  BY <1>1, <1>2
<1>4. worker' \in Workers /\ BatchFollows' /\ BatchSettled' /\ BatchRecorded'
  BY <1>1, <1>3, NextRound
<1>5. wakeup' \in BOOLEAN
  BY <1>1 DEF RunNextBatch
<1>6. TypeOK'
  BY <1>1, <1>2, <1>4, <1>5 DEF InboxInv, TypeOK
<1> QED BY <1>2, <1>4, <1>6 DEF InboxInv

\* A write that raises ends the task, with or without its effect.
LEMMA WriteRaisesStep ==
  ASSUME InboxInv, WriteRaises
  PROVE  InboxInv'
<1>1. /\ worker.pc \in {"writing", "recording", "advancing"}
      /\ Failure /\ asked' = 0 /\ worker' = NoWorker
      /\ UNCHANGED <<inbox, torn, wakeup>>
  BY DEF WriteRaises, Busy, TaskFailure, EndsTask
<1>2. worker' \in Workers /\ worker'.pc = "none" /\ failures' \in Nat /\ asked' \in Nat
  BY <1>1, NoWorkerType, FailureType DEF NoWorker
<1>3. Holding
  BY <1>1 DEF Holding
<1>4. CASE UNCHANGED <<dreamCursor, memory, records, settled>>
  <2>1. memory' \subseteq Summaries
    BY <1>4 DEF InboxInv, TypeOK
  <2> QED BY <1>1, <1>2, <1>4, <2>1, BatchDropped
<1>5. CASE /\ memory' = worker.base \cup worker.plan
           /\ TakesEffect
           /\ UNCHANGED <<dreamCursor, records>>
  <2>1. memory' \subseteq Summaries
    BY <1>5, MemoryWritten
  <2> QED BY <1>1, <1>2, <1>5, <2>1, BatchDropped
<1>6. CASE /\ records' = Append(records, RecordOfBatch)
           /\ UNCHANGED <<dreamCursor, memory, settled>>
  <2>1. records' \in Seq(Record) /\ Whole' /\ NothingSkipped' /\ Traceable'
    BY <1>1, <1>3, <1>6, LogGrows
  <2>2. TypeOK'
    BY <1>1, <1>2, <1>6, <2>1 DEF InboxInv, TypeOK
  <2> QED BY <1>2, <2>1, <2>2, NothingHeld DEF InboxInv
<1>7. CASE /\ worker.pc = "advancing" /\ dreamCursor' = LastOf(worker.batch)
           /\ UNCHANGED <<memory, records, settled>>
  <2>1. dreamCursor' \in Nat /\ Whole' /\ NothingSkipped' /\ Traceable'
    BY <1>1, <1>7, CursorPasses
  <2>2. TypeOK'
    BY <1>1, <1>2, <1>7, <2>1 DEF InboxInv, TypeOK
  <2> QED BY <1>2, <2>1, <2>2, NothingHeld DEF InboxInv
<1> QED BY <1>4, <1>5, <1>6, <1>7 DEF WriteRaises

-----------------------------------------------------------------------------
(* The queue *)

\* A new entry goes behind every other, and behind the Dream cursor.
LEMMA NewEntryIsLast ==
  ASSUME InboxInv, NEW s \in Summaries
  PROVE  /\ NewEntry(s) \in Entry
         /\ dreamCursor < NewEntry(s).cursor
         /\ \A e \in Lines : e.cursor < NewEntry(s).cursor
<1>1. dreamCursor \in Nat /\ LastCursor \in Nat /\ Lines \subseteq Entry
      /\ \A e \in Lines : e.cursor <= LastCursor
  BY LinesAreEntries DEF InboxInv, Whole, TypeOK
<1>2. Summaries \subseteq Nat
  BY MemoryAssumption DEF Summaries
<1>3. NewEntry(s).cursor = 1 + (IF dreamCursor > LastCursor THEN dreamCursor ELSE LastCursor)
      /\ NewEntry(s).summary = s
  BY DEF NewEntry
<1>4. NewEntry(s) \in Entry
  BY <1>1 DEF NewEntry, Entry
<1> QED BY <1>1, <1>3, <1>4 DEF Entry

\* The inbox with one more entry: what holds of the files and of the batch in hand.
LEMMA InboxGrows ==
  ASSUME InboxInv, NEW s \in Summaries, AppendLine(NewEntry(s)),
         UNCHANGED <<dreamCursor, records, settled>>
  PROVE  /\ inbox' \in Seq(Entry \cup {Garbage}) /\ torn' = FALSE
         /\ Whole' /\ NothingSkipped' /\ Traceable'
         /\ UNCHANGED worker => BatchFollows'
<1> DEFINE n == Len(inbox)
           new == NewEntry(s)
<1>1. /\ new \in Entry /\ dreamCursor < new.cursor
      /\ \A e \in Lines : e.cursor < new.cursor
  BY NewEntryIsLast
<1>2. inbox' = Append(inbox, new) /\ torn' = FALSE
  BY DEF AppendLine, InboxInv, Whole
<1>3. inbox \in Seq(Entry \cup {Garbage}) /\ n \in Nat
  BY DEF InboxInv, TypeOK
<1> HIDE DEF new
<1>4. /\ inbox' \in Seq(Entry \cup {Garbage}) /\ Len(inbox') = n + 1
      /\ \A i \in 1 .. n : inbox'[i] = inbox[i]
      /\ inbox'[n + 1] = new
  BY <1>1, <1>2, <1>3
<1>5. Lines' = Lines \cup {new}
  <2>1. Lines' \subseteq Lines \cup {new}
    <3> SUFFICES ASSUME NEW i \in 1 .. n + 1
                 PROVE  inbox'[i] \in Lines \cup {new}
      BY <1>4 DEF Lines
    <3>1. CASE i = n + 1
      BY <1>4, <3>1
    <3>2. CASE i # n + 1
      <4>1. i \in 1 .. n
        BY <1>3, <3>2
      <4> QED BY <1>4, <4>1 DEF Lines
    <3> QED BY <3>1, <3>2
  <2>2. Lines \cup {new} \subseteq Lines'
    <3>1. n + 1 \in 1 .. Len(inbox') /\ \A i \in 1 .. n : i \in 1 .. Len(inbox')
      BY <1>3, <1>4
    <3> QED BY <1>4, <3>1 DEF Lines
  <2> QED BY <2>1, <2>2
<1>6. Lines \subseteq Entry
  BY LinesAreEntries DEF InboxInv, Whole
<1>7. Garbage \notin Entry
  BY DEF Garbage, Entry
<1>8. Whole'
  <2>1. Garbage \notin Lines'
    BY <1>1, <1>5, <1>6, <1>7
  <2>2. ASSUME NEW i \in 1 .. Len(inbox'), NEW j \in 1 .. Len(inbox'), i < j
        PROVE  inbox'[i].cursor < inbox'[j].cursor
    <3>1. i \in 1 .. n /\ (j \in 1 .. n \/ j = n + 1)
      BY <1>3, <1>4, <2>2
    <3>2. CASE j \in 1 .. n
      BY <1>4, <2>2, <3>1, <3>2 DEF InboxInv, Whole, Readable
    <3>3. CASE j = n + 1
      <4>1. inbox[i] \in Lines
        BY <3>1 DEF Lines
      <4> QED BY <1>1, <1>4, <3>1, <3>3, <4>1
    <3> QED BY <3>1, <3>2, <3>3
  <2> QED BY <1>2, <2>1, <2>2 DEF Whole, Readable
<1>9. ASSUME NEW e \in Lines', e.cursor <= dreamCursor'
      PROVE  e \in Lines
  <2>1. dreamCursor \in Nat /\ new.cursor \in Nat
    BY <1>1 DEF InboxInv, TypeOK, Entry
  <2> QED BY <1>1, <1>5, <1>9, <2>1
<1>10. NothingSkipped'
  BY <1>9 DEF InboxInv, NothingSkipped
<1>11. Traceable'
  BY <1>9 DEF InboxInv, Traceable
<1>12. ASSUME UNCHANGED worker
       PROVE  BatchFollows'
  <2> SUFFICES ASSUME Holding
               PROVE  worker.batch # {} /\ Closed(worker.batch, dreamCursor)'
    BY <1>12 DEF BatchFollows, Holding, Closed
  <2>1. worker.batch # {} /\ worker.batch \subseteq Lines
    BY HeldBatch DEF Closed
  <2>2. ASSUME NEW e \in Lines', NEW d \in worker.batch, dreamCursor < e.cursor, e.cursor <= d.cursor
        PROVE  e \in worker.batch
    <3>1. d.cursor < new.cursor /\ d.cursor \in Nat /\ new.cursor \in Nat
      BY <1>1, <1>6, <2>1 DEF Entry
    <3>2. e # new
      BY <2>2, <3>1
    <3>3. e \in Lines
      BY <1>5, <3>2
    <3> QED BY <2>2, <3>3, HeldBatch DEF Closed
  <2> QED BY <1>5, <1>12, <2>1, <2>2 DEF Closed
<1> QED BY <1>2, <1>4, <1>8, <1>10, <1>11, <1>12

\* Enqueue, EnqueueRaises and EnqueueDies: the entry is appended or not, and the
\* worker goes on or is lost with the process.
LEMMA EnqueueStep ==
  ASSUME InboxInv, WholeAppends, NEW s \in Summaries,
         Enqueue(s) \/ EnqueueRaises(s) \/ EnqueueDies(s)
  PROVE  InboxInv'
<1>1. /\ UNCHANGED <<dreamCursor, memory, records, settled>>
      /\ AppendLine(NewEntry(s)) \/ UNCHANGED <<inbox, torn>>
  BY DEF Enqueue, EnqueueRaises, EnqueueDies, AppendOutcome, WholeAppends, observed
<1>2. UNCHANGED failures \/ Failure
  BY DEF Enqueue, EnqueueRaises, EnqueueDies, observed
<1>3. \/ UNCHANGED <<worker, wakeup, asked>>
      \/ worker' = NoWorker /\ wakeup' = FALSE /\ asked' = 0
  BY DEF Enqueue, EnqueueRaises, EnqueueDies, Restart, observed
<1>4. failures' \in Nat
  BY <1>2, FailureType DEF InboxInv, TypeOK
<1>5. /\ inbox' \in Seq(Entry \cup {Garbage}) /\ torn' \in BOOLEAN
      /\ Whole' /\ NothingSkipped' /\ Traceable'
      /\ UNCHANGED worker => BatchFollows'
  <2>1. CASE AppendLine(NewEntry(s))
    BY <1>1, <2>1, InboxGrows
  <2>2. CASE UNCHANGED <<inbox, torn>>
    <3>1. Whole' /\ NothingSkipped' /\ Traceable'
      BY <1>1, <2>2, FilesKept
    <3>2. inbox' \in Seq(Entry \cup {Garbage}) /\ torn' \in BOOLEAN
      BY <2>2 DEF InboxInv, TypeOK
    <3>3. UNCHANGED worker => BatchFollows'
      BY <1>1, <2>2 DEF InboxInv, BatchFollows, Closed, Holding, Lines
    <3> QED BY <3>1, <3>2, <3>3
  <2> QED BY <1>1, <2>1, <2>2
<1>6. CASE UNCHANGED <<worker, wakeup, asked>>
  <2>1. TypeOK'
    BY <1>1, <1>4, <1>5, <1>6 DEF InboxInv, TypeOK
  <2>2. BatchSettled' /\ BatchRecorded'
    BY <1>1, <1>6 DEF InboxInv, BatchSettled, SourcesOf, BatchRecorded, Recorded, FirstOf, LastOf
  <2> QED BY <1>5, <1>6, <2>1, <2>2 DEF InboxInv
<1>7. CASE worker' = NoWorker /\ wakeup' = FALSE /\ asked' = 0
  <2>1. worker' \in Workers /\ worker'.pc = "none"
    BY <1>7, NoWorkerType DEF NoWorker
  <2>2. wakeup' \in BOOLEAN
    BY <1>7, Zenon
  <2>3. TypeOK'
    BY <1>1, <1>4, <1>5, <1>7, <2>1, <2>2 DEF InboxInv, TypeOK
  <2> QED BY <1>5, <2>1, <2>3, NothingHeld DEF InboxInv
<1> QED BY <1>3, <1>6, <1>7

-----------------------------------------------------------------------------
(* The theorems *)

\* The inductive invariant holds of an empty inbox.
LEMMA InboxInvInit == Init => InboxInv
<1> SUFFICES ASSUME Init PROVE InboxInv
  OBVIOUS
<1>1. worker.pc = "none" /\ worker \in Workers
  BY NoWorkerType DEF Init, NoWorker
<1>2. TypeOK
  <2>1. torn \in BOOLEAN /\ wakeup \in BOOLEAN
    BY Zenon DEF Init
  <2>2. dreamCursor \in Nat /\ failures \in Nat /\ asked \in Nat
    BY DEF Init
  <2>3. inbox \in Seq(Entry \cup {Garbage}) /\ records \in Seq(Record)
    BY EmptySeq DEF Init
  <2>4. memory \subseteq Summaries /\ settled \subseteq Summaries
    BY Zenon DEF Init
  <2> QED BY <1>1, <2>1, <2>2, <2>3, <2>4 DEF TypeOK
<1>3. Lines = {}
  BY DEF Init, Lines
<1>4. Whole /\ NothingSkipped /\ Traceable
  BY <1>3 DEF Init, Whole, Readable, NothingSkipped, Traceable
<1>5. BatchFollows /\ BatchSettled /\ BatchRecorded
  BY <1>1 DEF BatchFollows, BatchSettled, BatchRecorded, Holding
<1> QED BY <1>2, <1>4, <1>5 DEF InboxInv

\* Every step preserves the inductive invariant.
LEMMA InboxInvStep ==
  ASSUME WholeAppends, InboxInv, [Next]_vars
  PROVE  InboxInv'
<1>1. ASSUME NEW s \in Summaries, Enqueue(s) \/ EnqueueRaises(s) \/ EnqueueDies(s)
      PROVE  InboxInv'
  BY <1>1, EnqueueStep
<1>2. CASE Schedule
  BY <1>2, ScheduleStep
<1>3. CASE CancelTask
  BY <1>3, CancelTaskStep
<1>4. CASE Crash
  BY <1>4, CrashStep
<1>5. CASE Begin
  BY <1>5, BeginStep
<1>6. CASE PlanningFails \/ ApplyFails
  BY <1>6, FailsStep
<1>7. ASSUME NEW cited, AnswerIsNoPlan(cited) \/ AnswerIsPlan(cited)
      PROVE  InboxInv'
  BY <1>7, AnswerIsNoPlanStep, AnswerIsPlanStep
<1>8. ASSUME NEW edits \in SUBSET Summaries, ApplyDone(edits)
      PROVE  InboxInv'
  BY <1>8, ApplyDoneStep
<1>9. CASE WriteMemory
  BY <1>9, WriteMemoryStep
<1>10. CASE WriteRecord
  BY <1>10, WriteRecordStep
<1>11. CASE AdvanceCursor
  BY <1>11, AdvanceCursorStep
<1>12. CASE WriteRaises
  BY <1>12, WriteRaisesStep
<1>13. CASE UNCHANGED vars
  <2>1. UNCHANGED <<inbox, torn, dreamCursor, memory, records, worker, wakeup, failures, settled, asked>>
    BY <1>13 DEF vars, files, observed
  <2>2. Lines' = Lines
    BY <2>1 DEF Lines
  <2>3. TypeOK' /\ Whole' /\ NothingSkipped' /\ Traceable'
    BY <2>1, FilesKept DEF InboxInv, TypeOK
  <2>4. BatchFollows'
    BY <2>1, <2>2 DEF InboxInv, BatchFollows, Closed, Holding
  <2>5. BatchSettled' /\ BatchRecorded'
    BY <2>1 DEF InboxInv, BatchSettled, SourcesOf, BatchRecorded, Recorded, FirstOf, LastOf
  <2> QED BY <2>3, <2>4, <2>5 DEF InboxInv
<1> QED BY <1>1, <1>2, <1>3, <1>4, <1>5, <1>6, <1>7, <1>8, <1>9, <1>10, <1>11, <1>12, <1>13
        DEF Next, WorkerStep

\* Every reachable state of the inbox, the memory files and the Dream task is well
\* typed, for any number of summaries, failures and crashes.
THEOREM InboxTypeCorrect ==
  ASSUME WholeAppends
  PROVE  Spec => []TypeOK
<1>1. InboxInv /\ [Next]_vars => InboxInv'
  BY InboxInvStep
<1>2. InboxInv => TypeOK
  BY DEF InboxInv
<1> QED BY InboxInvInit, <1>1, <1>2, PTL DEF Spec

\* The inbox never becomes unreadable: every line stays an entry and cursors
\* increase, whatever enqueue, Dream and the failures of both do between them.
THEOREM InboxStaysReadable ==
  ASSUME WholeAppends
  PROVE  Spec => []InboxReadable
<1>1. InboxInv /\ [Next]_vars => InboxInv'
  BY InboxInvStep
<1>2. InboxInv => InboxReadable
  BY DEF InboxInv, Whole, InboxReadable
<1> QED BY InboxInvInit, <1>1, <1>2, PTL DEF Spec

\* The Dream cursor never passes an entry whose batch did not take effect: nothing
\* handed to the long-term memory is lost to a failure or a crash.
THEOREM NothingIsSkipped ==
  ASSUME WholeAppends
  PROVE  Spec => []NothingSkipped
<1>1. InboxInv /\ [Next]_vars => InboxInv'
  BY InboxInvStep
<1>2. InboxInv => NothingSkipped
  BY DEF InboxInv
<1> QED BY InboxInvInit, <1>1, <1>2, PTL DEF Spec

\* Every entry behind the Dream cursor lies in a completed record of the dream log.
THEOREM EverythingIsTraceable ==
  ASSUME WholeAppends
  PROVE  Spec => []Traceable
<1>1. InboxInv /\ [Next]_vars => InboxInv'
  BY InboxInvStep
<1>2. InboxInv => Traceable
  BY DEF InboxInv
<1> QED BY InboxInvInit, <1>1, <1>2, PTL DEF Spec

-----------------------------------------------------------------------------
(* No summary is queued twice, torn appends or not *)

\* The inductive invariant of OncePerSummary, which needs no whole appends: after a
\* torn one the inbox holds one line that is no record, and takes no further entry.
OnceInv ==
  /\ inbox \in Seq(Lines)
  /\ \A e \in Lines : e.summary \in Summaries \/ e = Garbage
  /\ OncePerSummary

\* An append of a line whose summary no other line has.
LEMMA OnceAppended ==
  ASSUME OnceInv, NEW e, inbox' = Append(inbox, e),
         e.summary \in Summaries \/ e = Garbage,
         \A d \in Lines : d.summary # e.summary
  PROVE  OnceInv'
<1> DEFINE n == Len(inbox)
<1>1. inbox \in Seq(Lines \cup {e}) /\ n \in Nat
  BY DEF OnceInv
<1>2. /\ inbox' \in Seq(Lines \cup {e})
      /\ Len(inbox') = n + 1
      /\ \A i \in 1 .. n : inbox'[i] = inbox[i]
      /\ inbox'[n + 1] = e
  BY <1>1
<1>3. ASSUME NEW i \in 1 .. n + 1
      PROVE  i \in 1 .. n \/ i = n + 1
  BY <1>1
<1>4. \A i \in 1 .. n : inbox[i] \in Lines
  BY DEF Lines
<1>5. Lines' = Lines \cup {e}
  <2>1. Lines' \subseteq Lines \cup {e}
    <3> SUFFICES ASSUME NEW i \in 1 .. n + 1
                 PROVE  inbox'[i] \in Lines \cup {e}
      BY <1>2 DEF Lines
    <3> QED BY <1>2, <1>3, <1>4
  <2>2. Lines \cup {e} \subseteq Lines'
    <3>1. n + 1 \in 1 .. Len(inbox') /\ \A i \in 1 .. n : i \in 1 .. Len(inbox')
      BY <1>1, <1>2
    <3> QED BY <1>2, <3>1 DEF Lines
  <2> QED BY <2>1, <2>2
<1>6. inbox' \in Seq(Lines')
  BY <1>2, <1>5
<1>7. \A d \in Lines' : d.summary \in Summaries \/ d = Garbage
  BY <1>5 DEF OnceInv
<1>8. OncePerSummary'
  <2> SUFFICES ASSUME NEW i \in 1 .. n + 1, NEW j \in 1 .. n + 1,
                      inbox'[i].summary = inbox'[j].summary
               PROVE  i = j
    BY <1>2 DEF OncePerSummary
  <2>1. CASE i \in 1 .. n /\ j \in 1 .. n
    BY <1>2, <2>1 DEF OnceInv, OncePerSummary
  <2>2. CASE i \in 1 .. n /\ j = n + 1
    BY <1>2, <1>4, <2>2
  <2>3. CASE i = n + 1 /\ j \in 1 .. n
    BY <1>2, <1>4, <2>3
  <2> QED BY <1>3, <2>1, <2>2, <2>3
<1> QED BY <1>6, <1>7, <1>8 DEF OnceInv

\* An enqueue appends the summary it was asked for, or completes torn bytes to the
\* first line that is no record, or leaves the lines alone.
LEMMA OnceEnqueued ==
  ASSUME OnceInv, NEW s \in Summaries,
         Enqueue(s) \/ EnqueueRaises(s) \/ EnqueueDies(s)
  PROVE  OnceInv'
<1>1. /\ Readable
      /\ ~Queued(s)
      /\ AppendLine(NewEntry(s)) \/ UNCHANGED inbox
  BY DEF Enqueue, EnqueueRaises, EnqueueDies, AppendOutcome
<1>2. CASE UNCHANGED inbox
  BY <1>2 DEF OnceInv, OncePerSummary, Lines
<1>3. CASE AppendLine(NewEntry(s)) /\ torn
  <2>1. inbox' = Append(inbox, Garbage)
    BY <1>3 DEF AppendLine
  <2>2. ASSUME NEW d \in Lines
        PROVE  d.summary # Garbage.summary
    <3>1. d.summary \in Summaries
      BY <1>1 DEF OnceInv, Readable
    <3> QED BY <3>1, MemoryAssumption DEF Summaries, Garbage
  <2> QED BY <2>1, <2>2, OnceAppended
<1>4. CASE AppendLine(NewEntry(s)) /\ ~torn
  <2> DEFINE new == NewEntry(s)
  <2>1. inbox' = Append(inbox, new) /\ new.summary = s
    BY <1>4 DEF AppendLine, NewEntry
  <2>2. \A d \in Lines : d.summary # new.summary
    BY <1>1, <2>1 DEF Queued
  <2> HIDE DEF new
  <2> QED BY <2>1, <2>2, OnceAppended
<1> QED BY <1>1, <1>2, <1>3, <1>4

\* Only an enqueue writes to the inbox.
LEMMA OnceInvStep ==
  ASSUME OnceInv, [Next]_vars
  PROVE  OnceInv'
<1>1. CASE \E s \in Summaries : Enqueue(s) \/ EnqueueRaises(s) \/ EnqueueDies(s)
  BY <1>1, OnceEnqueued
<1>2. CASE UNCHANGED inbox
  BY <1>2 DEF OnceInv, OncePerSummary, Lines
<1>3. Schedule \/ CancelTask \/ Crash => UNCHANGED inbox
  BY DEF Schedule, CancelTask, Crash, files
<1>4. WorkerStep => UNCHANGED inbox
  BY DEF WorkerStep, Begin, PlanningFails, AnswerIsNoPlan, AnswerIsPlan, ApplyFails, ApplyDone,
         WriteMemory, WriteRecord, AdvanceCursor, WriteRaises, files
<1>5. UNCHANGED vars => UNCHANGED inbox
  BY DEF vars, files
<1> QED BY <1>1, <1>2, <1>3, <1>4, <1>5 DEF Next

\* A summary is queued at most once, however often its enqueue is repeated after an
\* error or a crash and whatever bytes the attempts before left in the file.
THEOREM QueuedOnce == Spec => []OncePerSummary
<1>1. Init => OnceInv
  <2> SUFFICES ASSUME Init PROVE OnceInv
    OBVIOUS
  <2>1. inbox = <<>> /\ Lines = {}
    BY DEF Init, Lines
  <2> QED BY <2>1 DEF OnceInv, OncePerSummary
<1>2. OnceInv /\ [Next]_vars => OnceInv'
  BY OnceInvStep
<1>3. OnceInv => OncePerSummary
  BY DEF OnceInv
<1> QED BY <1>1, <1>2, <1>3, PTL DEF Spec

================================================================================
