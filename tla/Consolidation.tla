----------------------------- MODULE Consolidation -----------------------------
(***************************************************************************)
(* Context summaries of one Session: consolidation.py with the background  *)
(* tasks of runtime.py, composed with the memory inbox its summaries feed. *)
(* The Dream task it schedules does not get to run here: of what Dream     *)
(* changes this component reads the cursor alone, which lies within the    *)
(* inbox, so that cursors of new entries do not depend on it.              *)
(*                                                                         *)
(* A unit is a user message with what follows it up to the next one.  The  *)
(* units of a Session form a tree; they are numbered as they are           *)
(* committed, so a branch is a set of units in increasing order.           *)
(*                                                                         *)
(* A pass of maybe_consolidate suspends in the token estimator             *)
(* ("estimating", "picking") and in the summary request ("generating").    *)
(* Between saving a summary and queueing it ("enqueuing") it does not.     *)
(***************************************************************************)
EXTENDS MemoryInbox, Positions

CONSTANTS
  MaxUnits,     \* bound on the committed units
  MaxRounds,    \* ConsolidationConfig.max_rounds
  Trouble       \* what else may happen, a subset of AllTrouble

AllTrouble == {"save_error", "enqueue_error", "generation_error", "estimation_error",
               "pause", "checkout", "clear"}

ASSUME ConsolidationAssumption ==
  /\ MaxUnits \in Nat
  /\ MaxRounds \in Nat \ {0}
  /\ Trouble \subseteq AllTrouble
  /\ "tear" \notin Faults

Units == 1 .. MaxUnits

Summary == [id : Summaries, through : Units, source : Units,
            previous : Summaries \cup {0}, content : SUBSET Units]

VARIABLES
  parent,      \* the entry tree: parent[u] is a unit, or 0
  leaf,        \* active_leaf_id, 0 for none
  summaries,   \* context_summaries of the live Session
  saved,       \* how many of them are in the Session's file
  run,         \* the active execution
  background,  \* the task in _consolidation_tasks
  pass,        \* the holder of the consolidation lock with its locals
  receipt,     \* the units each inbox entry was queued with
  everSaved,   \* the ids that reached the Session's file: an id is never given twice
  missed       \* observed: summaries a failure kept from being queued

session == <<parent, leaf, summaries, saved>>
tasks == <<run, background, pass>>
allVars == <<vars, session, tasks, receipt, everSaved, missed>>

NoContext == [content |-> {}, tail |-> {}]
NoRun == [pc |-> "none", base |-> 0, context |-> NoContext]

NoPass == [owner |-> "none", pc |-> "none", round |-> 0, path |-> {}, previous |-> 0,
           covered |-> 0, chunk |-> {}]

--------------------------------------------------------------------------------
(* The Session *)

\* branch_entries: the units from the root to u, the fewest that hold u and the parent
\* of each of them.
Upward(u) ==
  {S \in SUBSET (1 .. Len(parent)) :
     \A v \in {u} \cup {parent[w] : w \in S} : v # 0 => v \in S}

Branch(u) == {v \in 1 .. Len(parent) : \A S \in Upward(u) : v \in S}

\* SessionContextResolver.resolve: the summary that covers most of the branch, the
\* latest of several; 0 if none applies.
Applicable(path) == {i \in 1 .. Len(summaries) : summaries[i].through \in path}

\* Mutant: the latest summary of the Session, on whatever branch.
ResolvedLatest(path) == Len(summaries)

Resolved(path) ==
  IF Applicable(path) = {} THEN 0
  ELSE CHOOSE i \in Applicable(path) :
         \A j \in Applicable(path) :
           \/ summaries[j].through < summaries[i].through
           \/ summaries[j].through = summaries[i].through /\ j <= i

CoveredBy(i) == IF i = 0 THEN 0 ELSE summaries[i].through
ContentOf(i) == IF i = 0 THEN {} ELSE summaries[i].content

After(path, covered) == {u \in path : u > covered}

\* What a model request on the active branch is built from.
ContextOf(path) ==
  [content |-> ContentOf(Resolved(path)),
   tail |-> After(path, CoveredBy(Resolved(path)))]

Running == [pc |-> "running", base |-> leaf, context |-> ContextOf(Branch(leaf))]

IndexOf(id) == IF id = 0 THEN 0 ELSE CHOOSE i \in 1 .. Len(summaries) : summaries[i].id = id
ThroughOf(id) == CoveredBy(IndexOf(id))

\* _apply_context_summary_created: the covered unit and the one covered before lie on
\* the source branch, in this order.
Accepted(s) ==
  /\ s.through \in Branch(s.source)
  /\ s.previous # 0 =>
       /\ ThroughOf(s.previous) \in Branch(s.source)
       /\ ThroughOf(s.previous) <= s.through

--------------------------------------------------------------------------------
(* Queueing for memory *)

\* A chunk as _reconcile_memory finds it again: behind the previous summary, on the
\* source branch.
\* Mutant: from the root.
ReconstructedFromRoot(s) == {u \in Branch(s.source) : u <= s.through}

Reconstructed(s) ==
  {u \in Branch(s.source) : u > ThroughOf(s.previous) /\ u <= s.through}

LiveIds == {summaries[i].id : i \in 1 .. Len(summaries)}

\* Mutants: only the last summary is tried, or the receipts are not asked.
MissingLast(failing) ==
  {id \in LiveIds \ failing : ~Queued(id) /\ IndexOf(id) = Len(summaries)}

MissingAny(failing) == LiveIds \ failing

Missing(failing) == {id \in LiveIds \ failing : ~Queued(id)}

\* _reconcile_memory tries every summary in order; the store's errors are logged only.
\* failing are those whose append raises.
Reconcile(failing) ==
  LET missing == {i \in 1 .. Len(summaries) : summaries[i].id \in Missing(failing)}
      todo == Chosen(summaries, missing)
  IN /\ inbox' = inbox \o [i \in 1 .. Len(todo) |->
                             [NewEntry(todo[i].id) EXCEPT !.cursor = @ + i - 1]]
     /\ receipt' = [id \in Summaries |->
                      IF id \in Missing(failing)
                      THEN Reconstructed(summaries[IndexOf(id)]) ELSE receipt[id]]
     /\ missed' = failing

--------------------------------------------------------------------------------
(* A pass of maybe_consolidate *)

Suspended == pass.pc # "enqueuing"

May(kind) == kind \in Trouble
MayFailHere(kind) == May(kind) /\ failures < MaxFailures

\* Under the lock: reconcile, then the first estimate.
Entered(owner) == [NoPass EXCEPT !.owner = owner, !.pc = "estimating", !.round = 1]

EnterPass(owner) ==
  /\ pass = NoPass
  /\ pass' = Entered(owner)
  /\ \/ Reconcile({}) /\ UNCHANGED failures
     \/ /\ MayFailHere("enqueue_error")
        /\ \E failing \in (SUBSET Missing({})) \ {{}} : Reconcile(failing)
        /\ Failure

\* The pass returns: its task schedules a Dream and, if it is PREPARE, goes on to RUN
\* with the context of the Session, or fails because the leaf has moved.
Return ==
  /\ pass' = NoPass
  /\ IF pass.owner = "background"
     THEN background' = "none" /\ UNCHANGED run
     ELSE /\ run' = IF leaf = run.base THEN Running ELSE NoRun
          /\ UNCHANGED background
  /\ Schedule

\* Mutant: the task stays in _consolidation_tasks.
RaiseKeepsTask ==
  /\ pass' = NoPass
  /\ run' = (IF pass.owner = "background" THEN run ELSE NoRun)
  /\ UNCHANGED background

\* The pass raises: a background task logs it, PREPARE fails with it.
Raise ==
  /\ pass' = NoPass
  /\ IF pass.owner = "background"
     THEN background' = "none" /\ UNCHANGED run
     ELSE run' = NoRun /\ UNCHANGED background

\* Below the trigger or the target, or the estimator fails.
EstimateEnds ==
  /\ Suspended
  /\ pass.pc = "estimating"
  /\ Return
  /\ UNCHANGED <<session, receipt, everSaved, missed>>

Greatest(S) == CHOOSE u \in S : \A v \in S : v <= u

\* A fresh id; MaxSummaries bounds how many there are.
NextId == 1 + Greatest({0} \cup LiveIds \cup everSaved \cup {s \in Summaries : Queued(s)})

\* Too large: the branch and its summary are read, then messages are estimated.
EstimateTooLarge ==
  /\ Suspended
  /\ pass.pc = "estimating"
  /\ pass.round <= MaxRounds
  /\ NextId \in Summaries
  /\ LET path == Branch(leaf)
         i == Resolved(path)
     IN pass' = [pass EXCEPT !.pc = "picking", !.path = path,
                             !.previous = IF i = 0 THEN 0 ELSE summaries[i].id,
                             !.covered = CoveredBy(i)]
  /\ UNCHANGED <<vars, session, run, background, receipt, everSaved, missed>>

\* _pick_boundary: whole units behind the covered ones, up to a later user message.
Chunks ==
  LET uncovered == After(pass.path, pass.covered)
  IN {{u \in uncovered : u < next} :
        next \in {v \in uncovered : \E u \in uncovered : u < v}}

PickBoundary(chunk) ==
  /\ Suspended
  /\ pass.pc = "picking"
  /\ chunk \in Chunks
  /\ pass' = [pass EXCEPT !.pc = "generating", !.chunk = chunk]
  /\ UNCHANGED <<vars, session, run, background, receipt, everSaved, missed>>

\* No boundary, or the estimator fails.
PickNothing ==
  /\ Suspended
  /\ pass.pc = "picking"
  /\ Chunks = {} \/ May("estimation_error")
  /\ Return
  /\ UNCHANGED <<session, receipt, everSaved, missed>>

\* The provider fails, or its answer is no summary even after the repair request.
GenerateFails ==
  /\ Suspended
  /\ pass.pc = "generating"
  /\ May("generation_error") \/ leaf = 0
  /\ Return
  /\ UNCHANGED <<session, receipt, everSaved, missed>>

\* Mutant: the request does not hold the previous summary.
SummaryOfChunk ==
  [id |-> NextId, through |-> Greatest(pass.chunk), source |-> leaf,
   previous |-> pass.previous, content |-> pass.chunk]

NewSummary ==
  [id |-> NextId,
   through |-> Greatest(pass.chunk),
   source |-> leaf,
   previous |-> pass.previous,
   content |-> ContentOf(IndexOf(pass.previous)) \cup pass.chunk]

\* The summary is recorded against the leaf that is active now, and saved.
RecordSummary ==
  /\ Suspended
  /\ pass.pc = "generating"
  /\ leaf # 0
  /\ Accepted(NewSummary)
  /\ summaries' = Append(summaries, NewSummary)
  /\ saved' = Len(summaries')
  /\ everSaved' = everSaved \cup {summaries'[i].id : i \in 1 .. Len(summaries')}
  /\ pass' = [pass EXCEPT !.pc = "enqueuing"]
  /\ UNCHANGED <<vars, parent, leaf, run, background, receipt, missed>>

\* The Session refuses the summary, or its store raises: the event stays unsaved.
RecordRaises ==
  /\ Suspended
  /\ pass.pc = "generating"
  /\ leaf # 0
  /\ \/ ~Accepted(NewSummary) /\ UNCHANGED <<summaries, failures, missed>>
     \/ /\ Accepted(NewSummary)
        /\ MayFailHere("save_error")
        /\ summaries' = Append(summaries, NewSummary)
        /\ missed' = missed \cup {NewSummary.id}
        /\ Failure
  /\ Raise
  /\ UNCHANGED <<files, worker, wakeup, settled, asked>>
  /\ UNCHANGED <<parent, leaf, saved, receipt, everSaved>>

LastSummary == summaries[Len(summaries)]

NextRound == pass' = [pass EXCEPT !.pc = "estimating", !.round = @ + 1]

\* _enqueue_memory with the chunk that was summarised; an error is logged only.
EnqueueMemory ==
  /\ pass.pc = "enqueuing"
  /\ Readable
  /\ AppendLine(NewEntry(LastSummary.id))
  /\ receipt' = [receipt EXCEPT ![LastSummary.id] = pass.chunk]
  /\ NextRound
  /\ UNCHANGED <<dreamCursor, memory, records, worker, wakeup, observed>>
  /\ UNCHANGED <<session, run, background, everSaved, missed>>

EnqueueMemoryFails ==
  /\ pass.pc = "enqueuing"
  /\ MayFailHere("enqueue_error")
  /\ Failure
  /\ \/ /\ AppendLine(NewEntry(LastSummary.id))
        /\ receipt' = [receipt EXCEPT ![LastSummary.id] = pass.chunk]
        /\ UNCHANGED missed
     \/ /\ missed' = missed \cup {LastSummary.id}
        /\ UNCHANGED <<inbox, torn, receipt>>
  /\ NextRound
  /\ UNCHANGED <<dreamCursor, memory, records, worker, wakeup, settled, asked>>
  /\ UNCHANGED <<session, run, background, everSaved>>

PassStep ==
  \/ EstimateEnds
  \/ EstimateTooLarge
  \/ \E chunk \in SUBSET Units : PickBoundary(chunk)
  \/ PickNothing
  \/ GenerateFails
  \/ RecordSummary
  \/ RecordRaises
  \/ EnqueueMemory
  \/ EnqueueMemoryFails

--------------------------------------------------------------------------------
(* The Runtime *)

StoreUnchanged == UNCHANGED <<files, worker, wakeup, observed>>

\* LOAD of a fresh input: PREPARE waits for a background pass, then makes its own.
BeginRun ==
  /\ Suspended
  /\ run = NoRun
  /\ run' = [NoRun EXCEPT !.pc = "preparing", !.base = leaf]
  /\ StoreUnchanged
  /\ UNCHANGED <<session, background, pass, receipt, everSaved, missed>>

Prepare ==
  /\ Suspended
  /\ run.pc = "preparing"
  /\ background = "none"
  /\ EnterPass("run")
  /\ run' = [run EXCEPT !.pc = "consolidating"]
  /\ UNCHANGED <<torn, dreamCursor, memory, records, worker, wakeup, settled, asked>>
  /\ UNCHANGED <<session, background, everSaved>>

\* A run resumed from a checkpoint or a pause does not wait and does not consolidate.
ResumeRun ==
  /\ Suspended
  /\ run = NoRun
  /\ run' = Running
  /\ StoreUnchanged
  /\ UNCHANGED <<session, background, pass, receipt, everSaved, missed>>

\* SAVE commits a unit, with every event not saved yet, and schedules a background
\* pass unless one is still there.
Save ==
  /\ Suspended
  /\ run.pc = "running"
  /\ leaf = run.base
  /\ Len(parent) < MaxUnits
  /\ parent' = Append(parent, leaf)
  /\ leaf' = Len(parent) + 1
  /\ saved' = Len(summaries)
  /\ everSaved' = everSaved \cup LiveIds
  /\ run' = NoRun
  /\ background' = IF background = "none" THEN "scheduled" ELSE background
  /\ StoreUnchanged
  /\ UNCHANGED <<summaries, pass, receipt, missed>>

\* The leaf has moved, the run fails or is cancelled.  A cancelled PREPARE releases
\* the lock; the background pass it may wait for is shielded.
RunEnds ==
  /\ Suspended
  /\ run # NoRun
  /\ run.pc = "running" \/ May("pause")
  /\ run' = NoRun
  /\ pass' = IF pass.owner = "run" THEN NoPass ELSE pass
  /\ StoreUnchanged
  /\ UNCHANGED <<session, background, receipt, everSaved, missed>>

\* The background task starts.
BackgroundBegins ==
  /\ Suspended
  /\ background = "scheduled"
  /\ EnterPass("background")
  /\ background' = "running"
  /\ UNCHANGED <<torn, dreamCursor, memory, records, worker, wakeup, settled, asked>>
  /\ UNCHANGED <<session, run, everSaved>>

\* An embedding application moves the active leaf and saves.
Checkout(u) ==
  /\ Suspended
  /\ May("checkout")
  /\ u # leaf
  /\ leaf' = u
  /\ saved' = Len(summaries)
  /\ everSaved' = everSaved \cup LiveIds
  /\ StoreUnchanged
  /\ UNCHANGED <<parent, summaries, tasks, receipt, missed>>

\* /clear: no run is active; the background task is cancelled, the Session deleted.
Clear ==
  /\ Suspended
  /\ May("clear")
  /\ run = NoRun
  /\ parent # <<>>
  /\ parent' = <<>>
  /\ leaf' = 0
  /\ summaries' = <<>>
  /\ saved' = 0
  /\ background' = "none"
  /\ pass' = NoPass
  /\ missed' = {}
  /\ StoreUnchanged
  /\ UNCHANGED <<run, receipt, everSaved>>

\* The process dies at any point and starts again with what is in the files.
Die ==
  /\ Crash
  /\ summaries' = SubSeq(summaries, 1, saved)
  /\ run' = NoRun
  /\ background' = "none"
  /\ pass' = NoPass
  /\ missed' = {summaries[i].id : i \in 1 .. saved} \cap
                 (missed \cup IF pass.pc = "enqueuing" THEN {LastSummary.id} ELSE {})
  /\ UNCHANGED <<parent, leaf, saved, receipt, everSaved>>

--------------------------------------------------------------------------------
SessionInit ==
  /\ parent = <<>>
  /\ leaf = 0
  /\ summaries = <<>>
  /\ saved = 0
  /\ run = NoRun
  /\ background = "none"
  /\ pass = NoPass
  /\ receipt = [id \in Summaries |-> {}]
  /\ everSaved = {}
  /\ missed = {}

ConsolidationInit == Init /\ SessionInit

ConsolidationNext ==
  \/ PassStep
  \/ BeginRun
  \/ Prepare
  \/ ResumeRun
  \/ Save
  \/ RunEnds
  \/ BackgroundBegins
  \/ \E u \in 0 .. Len(parent) : Checkout(u)
  \/ Clear
  \/ Die

ConsolidationSpec == ConsolidationInit /\ [][ConsolidationNext]_allVars

\* Estimators and providers answer in the end, and tasks that can run do run.
ConsolidationFairSpec ==
  /\ ConsolidationSpec
  /\ WF_allVars(PassStep)
  /\ WF_allVars(BackgroundBegins)
  /\ WF_allVars(Prepare)

--------------------------------------------------------------------------------
(* Properties *)

\* A summary stands for all of the history up to the unit it covers, on whatever
\* branch it is used, although the leaf may have moved while it was generated.
ContentComplete ==
  \A i \in 1 .. Len(summaries) : summaries[i].content = Branch(summaries[i].through)

\* The context of a run is its whole branch: nothing is lost between the summary and
\* the messages behind it, and nothing is said twice.
ContextComplete ==
  run.pc = "running" =>
    /\ run.context.content \cup run.context.tail = Branch(run.base)
    /\ run.context.content \cap run.context.tail = {}

\* What memory is given for a summary is what was summarised, no matter if it was
\* queued at once or reconstructed after a failure.
ReceiptsMatch ==
  \A i \in 1 .. Len(summaries) :
    Queued(summaries[i].id) =>
      receipt[summaries[i].id] =
        summaries[i].content \ ContentOf(IndexOf(summaries[i].previous))

\* A summary of the Session waits in the inbox unless a failure or a crash since the
\* last pass kept it from there, or it is just being queued.
NothingMissed ==
  \A i \in 1 .. Len(summaries) :
    \/ Queued(summaries[i].id)
    \/ summaries[i].id \in missed
    \/ pass.pc = "enqueuing" /\ i = Len(summaries)

\* A run gets out of PREPARE, past the background pass it waits for and its own.
PrepareEnds ==
  run.pc \in {"preparing", "consolidating"} ~> run.pc \in {"running", "none"}

================================================================================
