------------------------------ MODULE ToolBatches ------------------------------
(***************************************************************************)
(* The tool calls of model turns: the batches of runner.py, one call under *)
(* its deadline as in tools/registry.py, the per-path locks of             *)
(* tools/mutation.py, and what write.py, edit.py, read.py and bash.py hand *)
(* to a thread or a process.                                               *)
(*                                                                         *)
(* Several runs share the locks and the files.  A call is a task of the    *)
(* event loop.  A thread of the pool that has started cannot be stopped:   *)
(* it goes on after its call timed out or was cancelled.                   *)
(***************************************************************************)
EXTENDS Integers, Sequences, FiniteSets, SequencesExt

CONSTANTS
  Runs,       \* the runs of different Sessions
  Paths,      \* canonical paths
  MaxCalls,   \* bound on the calls of a model turn
  Scripts,    \* the calls that the runs' turns may ask for
  Trouble,    \* what may happen, a subset of AllTrouble
  None

AllTrouble == {"deadline", "cancel", "tool_error", "child"}

Kinds == {"write", "edit", "read", "bash", "invalid"}

Call == [kind : Kinds, path : Paths \cup {None}]

ASSUME ToolAssumption ==
  /\ MaxCalls \in Nat
  /\ \A s \in Scripts : \A r \in Runs :
       /\ s[r] \in Seq(Call)
       /\ Len(s[r]) <= MaxCalls
       /\ \A i \in 1 .. Len(s[r]) : s[r][i].path = None <=> s[r][i].kind \notin {"write", "edit"}
  /\ Trouble \subseteq AllTrouble
  /\ None \notin Paths \cup (Runs \X (1 .. MaxCalls))

\* A call is named by its run and its place in the turn.
Ids == Runs \X (1 .. MaxCalls)

VARIABLES
  script,    \* the calls of each run's turn
  pc,        \* where each run is
  at,        \* the call that its batch begins with; 0 before the first batch
  results,   \* the results it has collected, in their order of arrival
  task,      \* where each call is
  stop,      \* the cancellation its task has yet to receive, and from whom
  thread,    \* the pool thread working for it
  seen,      \* what an edit's thread has read
  file,      \* the mutations each file's text holds
  queue,     \* FileMutationQueue._entries: the call that created the entry of a path
  entry,     \* the entries, by the call that created them
  via,       \* the entry each call uses
  history,   \* observed: finished mutations of each path, in their order
  outlived   \* observed: calls that ended before their thread

loop == <<script, pc, at, results>>
locks == <<queue, entry, via>>
work == <<thread, seen, file, history>>
vars == <<loop, task, stop, locks, work, outlived>>

NoEntry == [users |-> 0, holder |-> None, waiters |-> <<>>]

TaskStates == {"idle", "waiting", "thread", "shell", "timed_shell", "killed",
               "drain_timeout", "drain_cancel", "storing", "ended"}

ThreadStates == {"none", "queued", "started", "finished", "failed"}

Statuses == {"completed", "failed", "timed_out"}

KindOf(c) == script[c[1]][c[2]].kind
PathOf(c) == script[c[1]][c[2]].path
CallsOf(r) == {<<r, i>> : i \in 1 .. Len(script[r])}
Calls == UNION {CallsOf(r) : r \in Runs}

--------------------------------------------------------------------------------
(* Batches *)

\* A known tool keeps its mode when its arguments are invalid; "invalid" calls name
\* no tool.
ParallelSafe(call) == call.kind = "read"

\* Mutant: an unknown tool is no barrier.
BeginsUnlessUnknown(calls, i) ==
  i = 1 \/ ~({calls[i - 1].kind, calls[i].kind} \subseteq {"read", "invalid"})

\* _partition_tool_batches: a call joins the batch of the one before it if both are
\* parallel-safe, otherwise a batch begins with it.
Begins(calls, i) == i = 1 \/ ~(ParallelSafe(calls[i - 1]) /\ ParallelSafe(calls[i]))

\* The batch that begins with call i.
Batch(calls, i) == {j \in i .. Len(calls) : \A k \in i + 1 .. j : ~Begins(calls, k)}

BatchOf(r) == {<<r, i>> : i \in IF at[r] = 0 THEN {} ELSE Batch(script[r], at[r])}

Later(r) == {i \in at[r] + 1 .. Len(script[r]) : Begins(script[r], i)}

BatchEnded(r) == \A c \in BatchOf(r) : task[c] = "ended"

--------------------------------------------------------------------------------
(* The per-path locks: hold() *)

Locked(e) == entry[e].holder # None

\* Fast path of asyncio.Lock.acquire, or a place behind the other waiters.
EnterLock(c) ==
  LET e == IF queue[PathOf(c)] = None THEN c ELSE queue[PathOf(c)]
      free == ~Locked(e) /\ entry[e].waiters = <<>>
  IN /\ queue' = [queue EXCEPT ![PathOf(c)] = e]
     /\ via' = [via EXCEPT ![c] = e]
     /\ entry' = [entry EXCEPT ![e].users = @ + 1,
                               ![e].holder = IF free THEN c ELSE @,
                               ![e].waiters = IF free THEN @ ELSE Append(@, c)]
     /\ task' = [task EXCEPT ![c] = IF free THEN "thread" ELSE "waiting"]
     /\ thread' = [thread EXCEPT ![c] = IF free THEN "queued" ELSE @]

Without(c, s) ==
  IF \E i \in 1 .. Len(s) : s[i] = c
  THEN RemoveAt(s, CHOOSE i \in 1 .. Len(s) : s[i] = c) ELSE s

\* Mutants: an entry goes although others wait for it, or stays behind the last user.
LeaveLockAndPop(c) ==
  LET e == via[c]
  IN /\ entry' = [entry EXCEPT ![e].users = @ - 1,
                               ![e].holder = IF @ = c THEN None ELSE @,
                               ![e].waiters = Without(c, @)]
     /\ queue' = [p \in Paths |-> IF queue[p] = e THEN None ELSE queue[p]]
     /\ via' = [via EXCEPT ![c] = None]

LeaveLockWhenHeld(c) ==
  LET e == via[c]
      users == entry[e].users - 1
  IN /\ entry' = [entry EXCEPT ![e].users = users,
                               ![e].holder = IF @ = c THEN None ELSE @,
                               ![e].waiters = Without(c, @)]
     /\ queue' = [p \in Paths |->
                    IF queue[p] = e /\ users = 0 /\ entry[e].holder = c
                    THEN None ELSE queue[p]]
     /\ via' = [via EXCEPT ![c] = None]

\* The lock is released or the wait given up; an idle entry is removed.
LeaveLock(c) ==
  LET e == via[c]
      users == entry[e].users - 1
  IN /\ entry' = [entry EXCEPT ![e].users = users,
                               ![e].holder = IF @ = c THEN None ELSE @,
                               ![e].waiters = Without(c, @)]
     /\ queue' = [p \in Paths |->
                    IF queue[p] = e /\ users = 0 /\ entry[e].holder \in {None, c}
                    THEN None ELSE queue[p]]
     /\ via' = [via EXCEPT ![c] = None]

LeaveLockIfAny(c) == IF via[c] # None THEN LeaveLock(c) ELSE UNCHANGED locks

--------------------------------------------------------------------------------
(* The calls: execute_call *)

EndsWith(c, status) ==
  /\ task' = [task EXCEPT ![c] = "ended"]
  /\ results' = [results EXCEPT ![c[1]] = Append(@, [call |-> c[2], status |-> status])]

\* The first step of a call: prepare_call, the deadline, the tool's execute up to
\* where it suspends.  A bash command has a timeout of its own or has none.
Start(c) ==
  /\ pc[c[1]] = "running"
  /\ c \in BatchOf(c[1])
  /\ task[c] = "idle"
  /\ stop[c] = "no"
  /\ \/ /\ KindOf(c) = "invalid" \/ "tool_error" \in Trouble
        /\ EndsWith(c, "failed")
        /\ UNCHANGED <<locks, thread>>
     \/ /\ KindOf(c) \in {"write", "edit"}
        /\ EnterLock(c)
        /\ UNCHANGED results
     \/ /\ KindOf(c) = "read"
        /\ task' = [task EXCEPT ![c] = "thread"]
        /\ thread' = [thread EXCEPT ![c] = "queued"]
        /\ UNCHANGED <<results, locks>>
     \/ /\ KindOf(c) = "bash"
        /\ \E state \in {"shell", "timed_shell"} : task' = [task EXCEPT ![c] = state]
        /\ UNCHANGED <<results, locks, thread>>
  /\ UNCHANGED <<script, pc, at, stop, seen, file, history, outlived>>

\* The lock wakes its waiters in turn.
Acquire(c) ==
  /\ task[c] = "waiting"
  /\ stop[c] = "no"
  /\ ~Locked(via[c])
  /\ Head(entry[via[c]].waiters) = c
  /\ entry' = [entry EXCEPT ![via[c]].holder = c, ![via[c]].waiters = Tail(@)]
  /\ task' = [task EXCEPT ![c] = "thread"]
  /\ thread' = [thread EXCEPT ![c] = "queued"]
  /\ UNCHANGED <<loop, stop, queue, via, seen, file, history, outlived>>

\* The thread's function has returned or raised before the task is stopped.
Resume(c) ==
  /\ task[c] = "thread"
  /\ stop[c] = "no"
  /\ thread[c] \in {"finished", "failed"}
  /\ EndsWith(c, IF thread[c] = "finished" THEN "completed" ELSE "failed")
  /\ LeaveLockIfAny(c)
  /\ UNCHANGED <<script, pc, at, stop, work, outlived>>

\* The command's output ends.  A long one is stored first, another is a result.
ShellExits(c) ==
  /\ task[c] \in {"shell", "timed_shell", "killed"}
  /\ stop[c] = "no"
  /\ \/ task' = [task EXCEPT ![c] = "storing"] /\ UNCHANGED results
     \/ task[c] # "killed" /\ EndsWith(c, "completed")
     \/ EndsWith(c, "failed")
  /\ UNCHANGED <<script, pc, at, stop, locks, work, outlived>>

\* The command's own timeout: it is killed and the rest of its output awaited.
OwnTimeout(c) ==
  /\ task[c] = "timed_shell"
  /\ stop[c] = "no"
  /\ task' = [task EXCEPT ![c] = "killed"]
  /\ UNCHANGED <<loop, stop, locks, work, outlived>>

\* put_text of the complete output, outside the deadline.
Store(c) ==
  /\ task[c] = "storing"
  /\ stop[c] = "no"
  /\ \/ EndsWith(c, "completed")
     \/ EndsWith(c, "failed")
  /\ UNCHANGED <<script, pc, at, stop, locks, work, outlived>>

\* Mutant: a command that brings its own timeout gets no deadline.
DeadlineUnlessOwn(c) ==
  /\ "deadline" \in Trouble
  /\ task[c] \in {"waiting", "thread", "shell", "killed"}
  /\ stop[c] = "no"
  /\ stop' = [stop EXCEPT ![c] = "timeout"]
  /\ UNCHANGED <<loop, task, locks, work, outlived>>

\* The deadline of asyncio.timeout cancels the task, wherever the tool is; it does so
\* once.
Deadline(c) ==
  /\ "deadline" \in Trouble
  /\ task[c] \in {"waiting", "thread", "shell", "timed_shell", "killed"}
  /\ stop[c] = "no"
  /\ stop' = [stop EXCEPT ![c] = "timeout"]
  /\ UNCHANGED <<loop, task, locks, work, outlived>>

StopThread(c) ==
  /\ thread' = [thread EXCEPT ![c] = IF @ = "queued" THEN "none" ELSE @]
  /\ outlived' = IF thread[c] = "started" THEN outlived \cup {c} ELSE outlived

\* Mutant: the deadline ends the call without a result.
StoppedSilently(c, cause) ==
  task' = [task EXCEPT ![c] = "ended"] /\ UNCHANGED results

\* A deadline becomes a result, a cancellation none.
Stopped(c, cause) ==
  IF cause = "timeout" THEN EndsWith(c, "timed_out")
  ELSE task' = [task EXCEPT ![c] = "ended"] /\ UNCHANGED results

\* The task receives the CancelledError.  The tool's context managers run; only a
\* command with a timeout of its own is killed and awaited.
ReceiveStop(c) ==
  /\ stop[c] # "no"
  /\ task[c] # "ended"
  /\ IF task[c] = "timed_shell"
     THEN /\ task' = [task EXCEPT ![c] = IF stop[c] = "timeout" THEN "drain_timeout"
                                         ELSE "drain_cancel"]
          /\ UNCHANGED results
     ELSE Stopped(c, stop[c])
  /\ LeaveLockIfAny(c)
  /\ StopThread(c)
  /\ stop' = [stop EXCEPT ![c] = "no"]
  /\ UNCHANGED <<script, pc, at, seen, file, history>>

\* The killed command's output has ended: the CancelledError goes on.
Drained(c) ==
  /\ task[c] \in {"drain_timeout", "drain_cancel"}
  /\ stop[c] = "no"
  /\ Stopped(c, IF task[c] = "drain_timeout" THEN "timeout" ELSE "cancel")
  /\ UNCHANGED <<script, pc, at, stop, locks, work, outlived>>

CallStep(c) ==
  \/ Start(c)
  \/ Acquire(c)
  \/ Resume(c)
  \/ Store(c)
  \/ ReceiveStop(c)

--------------------------------------------------------------------------------
(* The threads *)

\* A thread takes the function; an edit reads the file.
ThreadStarts(c) ==
  /\ thread[c] = "queued"
  /\ thread' = [thread EXCEPT ![c] = "started"]
  /\ seen' = [seen EXCEPT ![c] = IF KindOf(c) = "edit" THEN file[PathOf(c)] ELSE {}]
  /\ UNCHANGED <<loop, task, stop, locks, file, history, outlived>>

\* A write replaces the text, an edit changes the text it has read.
ThreadFinishes(c) ==
  /\ thread[c] = "started"
  /\ thread' = [thread EXCEPT ![c] = "finished"]
  /\ IF KindOf(c) = "read" THEN UNCHANGED <<file, history>>
     ELSE /\ file' = [file EXCEPT ![PathOf(c)] = seen[c] \cup {c}]
          /\ history' = [history EXCEPT ![PathOf(c)] = Append(@, c)]
  /\ UNCHANGED <<loop, task, stop, locks, seen, outlived>>

\* The file cannot be read, or the text to replace is not there.
ThreadFails(c) ==
  /\ "tool_error" \in Trouble
  /\ thread[c] = "started"
  /\ thread' = [thread EXCEPT ![c] = "failed"]
  /\ UNCHANGED <<loop, task, stop, locks, seen, file, history, outlived>>

--------------------------------------------------------------------------------
(* The runs: _execute_tools *)

\* The next batch, once every call of the last one has its result.
NextBatch(r) ==
  /\ pc[r] = "running"
  /\ BatchEnded(r)
  /\ IF Later(r) = {}
     THEN pc' = [pc EXCEPT ![r] = "done"] /\ UNCHANGED at
     ELSE /\ at' = [at EXCEPT ![r] = CHOOSE i \in Later(r) : \A j \in Later(r) : i <= j]
          /\ UNCHANGED pc
  /\ UNCHANGED <<script, results, task, stop, locks, work, outlived>>

\* The run is cancelled: its results are lost, and it cancels the calls of the
\* batch.  It may be cancelled again while it waits for them.
Cancel(r) ==
  /\ "cancel" \in Trouble
  /\ pc[r] \in {"running", "cancelling"}
  /\ at[r] > 0
  /\ pc' = [pc EXCEPT ![r] = "cancelling"]
  /\ stop' = [c \in Ids |-> IF c \in BatchOf(r) /\ task[c] # "ended" THEN "cancel" ELSE stop[c]]
  /\ UNCHANGED <<script, at, results, task, locks, work, outlived>>

\* Mutant: the cancelled calls are not awaited.
CancelledAtOnce(r) ==
  /\ pc[r] = "cancelling"
  /\ pc' = [pc EXCEPT ![r] = "cancelled"]
  /\ UNCHANGED <<script, at, results, task, stop, locks, work, outlived>>

\* The calls have ended, the cancellation goes on.
Cancelled(r) ==
  /\ pc[r] = "cancelling"
  /\ BatchEnded(r)
  /\ pc' = [pc EXCEPT ![r] = "cancelled"]
  /\ UNCHANGED <<script, at, results, task, stop, locks, work, outlived>>

Ended(r) == pc[r] \in {"done", "cancelled"}

Terminated == (\A r \in Runs : Ended(r)) /\ UNCHANGED vars

--------------------------------------------------------------------------------
Init ==
  /\ script \in Scripts
  /\ pc = [r \in Runs |-> "running"]
  /\ at = [r \in Runs |-> 0]
  /\ results = [r \in Runs |-> <<>>]
  /\ task = [c \in Ids |-> "idle"]
  /\ stop = [c \in Ids |-> "no"]
  /\ thread = [c \in Ids |-> "none"]
  /\ seen = [c \in Ids |-> {}]
  /\ file = [p \in Paths |-> {}]
  /\ queue = [p \in Paths |-> None]
  /\ entry = [c \in Ids |-> NoEntry]
  /\ via = [c \in Ids |-> None]
  /\ history = [p \in Paths |-> <<>>]
  /\ outlived = {}

Next ==
  \/ \E c \in Calls :
       \/ CallStep(c)
       \/ ShellExits(c)
       \/ OwnTimeout(c)
       \/ Deadline(c)
       \/ Drained(c)
       \/ ThreadStarts(c)
       \/ ThreadFinishes(c)
       \/ ThreadFails(c)
  \/ \E r \in Runs : NextBatch(r) \/ Cancel(r) \/ Cancelled(r)
  \/ Terminated

Spec == Init /\ [][Next]_vars

\* The event loop runs what can run and its timers, and artifacts get stored.
\* Threads and commands may take for ever; what a killed command printed ends, unless
\* a child of its holds the output.
FairSpec ==
  /\ Spec
  /\ \A r \in Runs : WF_vars(NextBatch(r)) /\ WF_vars(Cancelled(r))
  /\ \A c \in Ids : WF_vars(CallStep(c)) /\ WF_vars(Deadline(c))
  /\ "child" \notin Trouble => \A c \in Ids : WF_vars(Drained(c))

--------------------------------------------------------------------------------
(* Properties *)

RunStates == {"running", "cancelling", "cancelled", "done"}
Entries == [users : Nat, holder : Ids \cup {None}, waiters : Seq(Ids)]

TypeOK ==
  /\ script \in Scripts
  /\ pc \in [Runs -> RunStates]
  /\ at \in [Runs -> Nat]
  /\ results \in [Runs -> Seq([call : Nat, status : Statuses])]
  /\ task \in [Ids -> TaskStates]
  /\ stop \in [Ids -> {"no", "timeout", "cancel"}]
  /\ thread \in [Ids -> ThreadStates]
  /\ seen \in [Ids -> SUBSET Ids]
  /\ file \in [Paths -> SUBSET Ids]
  /\ queue \in [Paths -> Ids \cup {None}]
  /\ entry \in [Ids -> Entries]
  /\ via \in [Ids -> Ids \cup {None}]
  /\ history \in [Paths -> Seq(Ids)]
  /\ outlived \subseteq Ids

\* A sequential call and its neighbours never run at the same time: what the model
\* asked for before it has ended when it starts, what comes behind it has not begun.
BarrierHeld ==
  \A r \in Runs : \A i, j \in 1 .. Len(script[r]) :
    (i < j /\ task[<<r, j>>] # "idle") =>
      \/ task[<<r, i>>] = "ended"
      \/ ParallelSafe(script[r][i]) /\ ParallelSafe(script[r][j])

\* A turn that was not cancelled has one result for each call, whatever failed, timed
\* out or raced with its deadline.
ResultsComplete ==
  \A r \in Runs : pc[r] = "done" =>
    /\ Len(results[r]) = Len(script[r])
    /\ {results[r][k].call : k \in 1 .. Len(results[r])} = 1 .. Len(script[r])

\* The mutations a file's text holds if those of history came one after the other.
Replayed(mutations) ==
  {mutations[k] : k \in {k \in 1 .. Len(mutations) :
     \A l \in k + 1 .. Len(mutations) : KindOf(mutations[l]) = "edit"}}

\* The text of a file is what its mutations make of it one after the other: none is
\* lost to another run, as long as no thread has outlived its call.
SerialEffect ==
  \A p \in Paths :
    (\A c \in outlived : PathOf(c) # p) => file[p] = Replayed(history[p])

\* The queue keeps no entry without a user, whichever way the last one left.
QueueEmptied == \A p \in Paths : queue[p] # None => entry[queue[p]].users > 0

\* Nothing goes on for a run that has ended, but the threads that cannot be stopped.
NoneOutlives ==
  \A r \in Runs : Ended(r) => \A c \in CallsOf(r) : task[c] \in {"idle", "ended"}

\* Deadlines free a run even if none of its threads and commands ever returns.
BatchesEnd == \A r \in Runs : pc[r] = "running" ~> Ended(r)

================================================================================
