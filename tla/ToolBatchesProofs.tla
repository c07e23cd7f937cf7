--------------------------- MODULE ToolBatchesProofs ---------------------------
(***************************************************************************)
(* What ToolBatches does for any number of runs, paths and calls, any      *)
(* scripts and any trouble: TypeCorrect, BarrierIsHeld, NothingOutlives,   *)
(* ResultsAreComplete, QueueIsEmptied and EffectsAreSerial.                *)
(***************************************************************************)
EXTENDS ToolBatches, FiniteSetTheorems, SequenceTheorems, NumberLemmas, TLAPS

Mutating(c) == KindOf(c) \in {"write", "edit"}

--------------------------------------------------------------------------------
(* The inductive invariant *)

\* What has begun lies in the current batch or before it, and what lies before it has
\* ended.
AtBatch ==
  /\ \A r \in Runs : at[r] <= Len(script[r])
  /\ \A c \in Calls :
       /\ task[c] # "idle" => c[2] < at[c[1]] \/ c \in BatchOf(c[1])
       /\ c[2] < at[c[1]] => task[c] = "ended"

\* Only a call that has not ended is stopped, and only within the current batch.
StopsInBatch ==
  \A c \in Ids : stop[c] # "no" => c \in Calls /\ task[c] # "ended" /\ c \in BatchOf(c[1])

EndedRuns ==
  \A r \in Runs :
    /\ pc[r] = "cancelled" => BatchEnded(r)
    /\ pc[r] = "done" => \A c \in CallsOf(r) : task[c] = "ended"

BatchInv == AtBatch /\ StopsInBatch /\ EndedRuns

\* A result is of a call that has ended, and there is one for each.
ResultInv ==
  \A r \in Runs :
    /\ \A k \in 1 .. Len(results[r]) :
         /\ results[r][k].call \in 1 .. Len(script[r])
         /\ task[<<r, results[r][k].call>>] = "ended"
         /\ \A l \in 1 .. Len(results[r]) : results[r][k].call = results[r][l].call => k = l
    /\ pc[r] \in {"running", "done"} =>
         \A i \in 1 .. Len(script[r]) :
           /\ stop[<<r, i>>] # "cancel" /\ task[<<r, i>>] # "drain_cancel"
           /\ task[<<r, i>>] = "ended" => \E k \in 1 .. Len(results[r]) : results[r][k].call = i

UsersOf(e) == {c \in Ids : via[c] = e}

\* Whoever refers to an entry waits or works, and finds it in the queue.
UsersQueued ==
  \A c \in Ids : via[c] # None =>
    /\ c \in Calls /\ Mutating(c)
    /\ task[c] \in {"waiting", "thread"}
    /\ queue[PathOf(c)] = via[c]

EntriesUsed ==
  \A p \in Paths : queue[p] # None =>
    /\ queue[p] \in Calls /\ PathOf(queue[p]) = p
    /\ entry[queue[p]].users > 0

UsersCounted ==
  \A e \in Ids : IsFiniteSet(UsersOf(e)) /\ entry[e].users = Cardinality(UsersOf(e))

HolderWorks ==
  \A e \in Ids : entry[e].holder # None =>
    via[entry[e].holder] = e /\ task[entry[e].holder] = "thread"

WaitersWait ==
  \A e \in Ids : \A k \in 1 .. Len(entry[e].waiters) :
    /\ via[entry[e].waiters[k]] = e
    /\ task[entry[e].waiters[k]] = "waiting"
    /\ \A l \in 1 .. Len(entry[e].waiters) : entry[e].waiters[k] = entry[e].waiters[l] => k = l

WaitersListed ==
  \A c \in Calls : task[c] = "waiting" =>
    via[c] # None /\ \E k \in 1 .. Len(entry[via[c]].waiters) : entry[via[c]].waiters[k] = c

\* The lock excludes: who works on a path holds the lock of its entry.
WorkersHold ==
  \A c \in Calls : task[c] = "thread" /\ Mutating(c) =>
    via[c] # None /\ entry[via[c]].holder = c

LockInv ==
  /\ UsersQueued /\ EntriesUsed /\ UsersCounted
  /\ HolderWorks /\ WaitersWait /\ WaitersListed /\ WorkersHold

\* A thread that works for a call works while the call does, unless it outlived it.
ThreadInv ==
  \A c \in Ids :
    /\ thread[c] # "none" => c \in Calls /\ KindOf(c) \in {"write", "edit", "read"}
    /\ thread[c] = "queued" => task[c] = "thread"
    /\ thread[c] = "started" => task[c] = "thread" \/ c \in outlived

Untouched(p) == \A c \in outlived : PathOf(c) # p

SerialInv ==
  \A p \in Paths :
    /\ \A k \in 1 .. Len(history[p]) : history[p][k] \in Calls
    /\ Untouched(p) =>
         /\ file[p] = Replayed(history[p])
         /\ \A c \in Calls : PathOf(c) = p /\ thread[c] = "started" =>
              seen[c] = IF KindOf(c) = "edit" THEN file[p] ELSE {}

ToolInv == TypeOK /\ BatchInv /\ ResultInv /\ LockInv /\ ThreadInv /\ SerialInv

--------------------------------------------------------------------------------
(* Calls and batches *)

LEMMA CallFacts ==
  ASSUME TypeOK, NEW c \in Calls
  PROVE  /\ c \in Ids /\ c[1] \in Runs
         /\ c[2] \in 1 .. Len(script[c[1]])
         /\ c[2] \in Nat /\ at[c[1]] \in Nat
         /\ c \in CallsOf(c[1])
         /\ script[c[1]] \in Seq(Call)
         /\ script[c[1]][c[2]] \in Call
         /\ KindOf(c) \in Kinds
         /\ Mutating(c) <=> PathOf(c) \in Paths
<1>1. PICK r \in Runs : c \in CallsOf(r)
  BY DEF Calls
<1>2. PICK i \in 1 .. Len(script[r]) : c = <<r, i>>
  BY <1>1 DEF CallsOf
<1>3. /\ script[r] \in Seq(Call) /\ Len(script[r]) <= MaxCalls
      /\ script[r][i].path = None <=> script[r][i].kind \notin {"write", "edit"}
  BY <1>2, ToolAssumption DEF TypeOK
<1>4. script[r][i] \in Call
  BY <1>2, <1>3
<1>5. c \in Ids
  BY <1>2, <1>3, ToolAssumption DEF Ids
<1>6. c[1] = r /\ c[2] = i
  BY <1>2
<1>7. KindOf(c) = script[r][i].kind /\ PathOf(c) = script[r][i].path
  BY <1>6 DEF KindOf, PathOf
<1>8. KindOf(c) \in Kinds /\ PathOf(c) \in Paths \cup {None} /\ None \notin Paths
  BY <1>4, <1>7, ToolAssumption DEF Call
<1>9. Mutating(c) <=> PathOf(c) \in Paths
  BY <1>3, <1>7, <1>8 DEF Mutating
<1>10. c[2] \in Nat /\ at[c[1]] \in Nat
  BY <1>2, <1>3, <1>6 DEF TypeOK
<1> QED BY <1>1, <1>2, <1>3, <1>4, <1>5, <1>6, <1>8, <1>9, <1>10

LEMMA CallIs ==
  ASSUME TypeOK, NEW r \in Runs, NEW i \in 1 .. Len(script[r])
  PROVE  <<r, i>> \in CallsOf(r) /\ <<r, i>> \in Calls /\ <<r, i>> \in Ids
<1>1. <<r, i>> \in CallsOf(r)
  BY DEF CallsOf
<1>2. <<r, i>> \in Calls
  BY <1>1 DEF Calls
<1> QED BY <1>1, <1>2, CallFacts

LEMMA CallPair ==
  ASSUME NEW c \in Calls
  PROVE  c = <<c[1], c[2]>>
BY DEF Calls, CallsOf

LEMMA AppendFacts ==
  ASSUME NEW T, NEW s \in Seq(T), NEW x \in T
  PROVE  /\ Append(s, x) \in Seq(T)
         /\ Len(Append(s, x)) = Len(s) + 1
         /\ \A k \in 1 .. Len(s) : Append(s, x)[k] = s[k]
         /\ Append(s, x)[Len(s) + 1] = x
OBVIOUS

\* The calls of the current batch are calls of the turn, from at on.
LEMMA BatchIsCalls ==
  ASSUME TypeOK, NEW r \in Runs, NEW c \in BatchOf(r)
  PROVE  c \in Calls /\ c[1] = r /\ at[r] > 0 /\ c[2] >= at[r] /\ c[2] \in Batch(script[r], at[r])
<1>1. at[r] \in Nat /\ at[r] # 0
  BY DEF TypeOK, BatchOf
<1>2. PICK i \in Batch(script[r], at[r]) : c = <<r, i>>
  BY <1>1 DEF BatchOf
<1>3. script[r] \in Seq(Call)
  BY ToolAssumption DEF TypeOK
<1>4. i \in 1 .. Len(script[r]) /\ i >= at[r]
  BY <1>1, <1>2, <1>3 DEF Batch
<1> QED BY <1>1, <1>2, <1>4, CallIs

--------------------------------------------------------------------------------
(* Frames of the actions of a call *)

\* Call c moves within the current batch; it has not ended before.
CallFrame(c) ==
  /\ c \in Calls /\ c \in BatchOf(c[1]) /\ task[c] # "ended"
  /\ UNCHANGED <<script, pc, at>>
  /\ \A d \in Ids \ {c} : task'[d] = task[d] /\ stop'[d] = stop[d]
  /\ task'[c] # "idle"
  /\ stop'[c] # "no" => task'[c] # "ended"

\* It ends with a result, or goes on without one unless it was cancelled.
ResultFrame(c) ==
  /\ \/ results' = results /\ (task'[c] = "ended" => stop[c] = "cancel" \/ task[c] = "drain_cancel")
     \/ /\ task'[c] = "ended"
        /\ \E status \in Statuses :
             results' = [results EXCEPT ![c[1]] = Append(@, [call |-> c[2], status |-> status])]
  /\ stop'[c] = "cancel" => stop[c] = "cancel"
  /\ task'[c] = "drain_cancel" => task[c] = "drain_cancel" \/ stop[c] = "cancel"

\* Threads move, tasks do not.
ThreadFrame == UNCHANGED <<loop, task, stop, locks>>

\* A call that is neither idle nor ended is in the current batch.
LEMMA MovingInBatch ==
  ASSUME TypeOK, BatchInv, NEW c \in Calls, task[c] \notin {"idle", "ended"}
  PROVE  c \in BatchOf(c[1])
BY CallFacts DEF BatchInv, AtBatch, TypeOK

LEMMA StartFrames ==
  ASSUME ToolInv, NEW c \in Calls, Start(c)
  PROVE  CallFrame(c) /\ ResultFrame(c)
<1>1. c \in Ids /\ task \in [Ids -> TaskStates] /\ stop \in [Ids -> {"no", "timeout", "cancel"}]
  BY CallFacts DEF ToolInv, TypeOK
<1>2. /\ c \in BatchOf(c[1]) /\ task[c] = "idle" /\ stop[c] = "no"
      /\ UNCHANGED <<script, pc, at, stop>>
  BY DEF Start
<1>3. \/ EndsWith(c, "failed")
      \/ EnterLock(c) /\ results' = results
      \/ \E state \in {"thread", "shell", "timed_shell"} :
           task' = [task EXCEPT ![c] = state] /\ results' = results
  BY DEF Start
<1>4. CASE EndsWith(c, "failed")
  BY <1>1, <1>2, <1>4 DEF EndsWith, CallFrame, ResultFrame, Statuses
<1>5. CASE EnterLock(c) /\ results' = results
  BY <1>1, <1>2, <1>5 DEF EnterLock, CallFrame, ResultFrame
<1>6. CASE \E state \in {"thread", "shell", "timed_shell"} :
             task' = [task EXCEPT ![c] = state] /\ results' = results
  BY <1>1, <1>2, <1>6 DEF CallFrame, ResultFrame
<1> QED BY <1>3, <1>4, <1>5, <1>6

LEMMA MoveFrames ==
  ASSUME ToolInv, NEW c \in Calls,
         Acquire(c) \/ Resume(c) \/ ShellExits(c) \/ OwnTimeout(c) \/ Store(c) \/ Deadline(c)
           \/ Drained(c)
  PROVE  CallFrame(c) /\ ResultFrame(c)
<1> USE DEF CallFrame, ResultFrame
<1>1. /\ c \in Ids /\ task \in [Ids -> TaskStates] /\ stop \in [Ids -> {"no", "timeout", "cancel"}]
      /\ task[c] \notin {"idle", "ended"} => c \in BatchOf(c[1])
  BY CallFacts, MovingInBatch DEF ToolInv, TypeOK
<1>2. CASE Acquire(c)
  BY <1>1, <1>2 DEF Acquire, loop
<1>3. CASE Resume(c)
  BY <1>1, <1>3 DEF Resume, EndsWith, Statuses
<1>4. CASE ShellExits(c)
  BY <1>1, <1>4 DEF ShellExits, EndsWith, Statuses
<1>5. CASE OwnTimeout(c)
  BY <1>1, <1>5 DEF OwnTimeout, loop
<1>6. CASE Store(c)
  BY <1>1, <1>6 DEF Store, EndsWith, Statuses
<1>7. CASE Deadline(c)
  BY <1>1, <1>7 DEF Deadline, loop
<1>8. CASE Drained(c)
  BY <1>1, <1>8 DEF Drained, Stopped, EndsWith, Statuses
<1> QED BY <1>2, <1>3, <1>4, <1>5, <1>6, <1>7, <1>8

LEMMA StopFrames ==
  ASSUME ToolInv, NEW c \in Calls, ReceiveStop(c)
  PROVE  CallFrame(c) /\ ResultFrame(c)
<1>1. /\ c \in Ids /\ task \in [Ids -> TaskStates] /\ stop \in [Ids -> {"no", "timeout", "cancel"}]
  BY CallFacts DEF ToolInv, TypeOK
<1>2. /\ c \in BatchOf(c[1]) /\ task[c] # "ended" /\ stop[c] \in {"timeout", "cancel"}
      /\ UNCHANGED <<script, pc, at>> /\ stop' = [stop EXCEPT ![c] = "no"]
  BY <1>1 DEF ReceiveStop, ToolInv, BatchInv, StopsInBatch
<1>3. CASE task[c] = "timed_shell"
  BY <1>1, <1>2, <1>3 DEF ReceiveStop, CallFrame, ResultFrame
<1>4. CASE task[c] # "timed_shell"
  BY <1>1, <1>2, <1>4 DEF ReceiveStop, Stopped, EndsWith, CallFrame, ResultFrame, Statuses
<1> QED BY <1>3, <1>4

LEMMA ThreadFrames ==
  ASSUME NEW c \in Calls, ThreadStarts(c) \/ ThreadFinishes(c) \/ ThreadFails(c)
  PROVE  ThreadFrame
BY DEF ThreadStarts, ThreadFinishes, ThreadFails, ThreadFrame

--------------------------------------------------------------------------------
(* Batches: one behind the other *)

LEMMA FramedBatch ==
  ASSUME TypeOK, BatchInv, NEW c \in Calls, CallFrame(c)
  PROVE  BatchInv'
<1>0. c \in Ids /\ c[1] \in Runs /\ c \in CallsOf(c[1]) /\ c[2] >= at[c[1]]
  BY CallFacts, BatchIsCalls DEF CallFrame
<1>1. /\ Calls' = Calls /\ \A r \in Runs : BatchOf(r)' = BatchOf(r) /\ CallsOf(r)' = CallsOf(r)
      /\ UNCHANGED <<script, pc, at>>
  BY DEF Calls, CallsOf, BatchOf, CallFrame
<1>2. \A d \in Calls : d \in Ids /\ d[1] \in Runs
  BY CallFacts
<1>3. AtBatch'
  <2>1. \A r \in Runs : at'[r] <= Len(script'[r])
    BY <1>1 DEF BatchInv, AtBatch
  <2>2. ASSUME NEW d \in Calls
        PROVE  /\ task'[d] # "idle" => d[2] < at[d[1]] \/ d \in BatchOf(d[1])
               /\ d[2] < at[d[1]] => task'[d] = "ended"
    <3>1. CASE d = c
      <4>1. c[2] \in Nat /\ at[c[1]] \in Nat
        BY CallFacts
      <4>2. ~(c[2] < at[c[1]])
        BY <1>0, <4>1
      <4> QED BY <3>1, <4>2 DEF CallFrame
    <3>2. CASE d # c
      BY <1>2, <3>2 DEF CallFrame, BatchInv, AtBatch
    <3> QED BY <3>1, <3>2
  <2> QED BY <1>1, <1>2, <2>1, <2>2 DEF AtBatch
<1>4. StopsInBatch'
  <2>1. ASSUME NEW d \in Ids, stop'[d] # "no"
        PROVE  d \in Calls /\ task'[d] # "ended" /\ d \in BatchOf(d[1])
    <3>1. CASE d = c
      BY <2>1, <3>1 DEF CallFrame
    <3>2. CASE d # c
      BY <2>1, <3>2 DEF CallFrame, BatchInv, StopsInBatch
    <3> QED BY <3>1, <3>2
  <2> QED BY <1>1, <1>2, <2>1 DEF StopsInBatch
<1>5. EndedRuns'
  <2>1. pc[c[1]] \notin {"cancelled", "done"}
    BY <1>0 DEF CallFrame, BatchInv, EndedRuns, BatchEnded
  <2>2. ASSUME NEW r \in Runs, r # c[1]
        PROVE  /\ \A d \in BatchOf(r) : d \in Ids \ {c}
               /\ \A d \in CallsOf(r) : d \in Ids \ {c}
    BY <2>2, BatchIsCalls, CallFacts, CallIs DEF CallsOf
  <2>3. ASSUME NEW r \in Runs
        PROVE  /\ pc[r] = "cancelled" => \A d \in BatchOf(r) : task'[d] = "ended"
               /\ pc[r] = "done" => \A d \in CallsOf(r) : task'[d] = "ended"
    BY <2>1, <2>2 DEF CallFrame, BatchInv, EndedRuns, BatchEnded
  <2> QED BY <1>1, <2>3 DEF EndedRuns, BatchEnded
<1> QED BY <1>3, <1>4, <1>5 DEF BatchInv

LEMMA ThreadsBatch ==
  ASSUME BatchInv, ThreadFrame
  PROVE  BatchInv'
<1>1. /\ Calls' = Calls /\ \A r \in Runs : BatchOf(r)' = BatchOf(r) /\ CallsOf(r)' = CallsOf(r)
      /\ \A r \in Runs : BatchEnded(r)' = BatchEnded(r)
      /\ UNCHANGED <<script, pc, at, task, stop>>
  BY DEF Calls, CallsOf, BatchOf, BatchEnded, ThreadFrame, loop
<1>2. AtBatch' /\ StopsInBatch'
  BY <1>1 DEF BatchInv, AtBatch, StopsInBatch, Calls, CallsOf, BatchOf
<1>3. EndedRuns'
  BY <1>1 DEF BatchInv, EndedRuns, CallsOf
<1> QED BY <1>2, <1>3 DEF BatchInv

\* A batch that begins at b ends where the next one begins.
LEMMA NextBegins ==
  ASSUME NEW calls \in Seq(Call), NEW b \in Nat \ {0}, NEW j \in b .. Len(calls),
         NEW next \in Nat, j < next,
         \A i \in b + 1 .. Len(calls) : Begins(calls, i) => next <= i
  PROVE  j \in Batch(calls, b)
BY DEF Batch

\* The step to the next batch.
LEMMA AdvanceBatch ==
  ASSUME TypeOK, BatchInv, NEW r \in Runs, NextBatch(r)
  PROVE  BatchInv'
<1>0. /\ script' = script /\ task' = task /\ stop' = stop /\ pc[r] = "running"
      /\ BatchEnded(r) /\ script[r] \in Seq(Call) /\ at[r] \in Nat /\ at \in [Runs -> Nat]
      /\ at[r] <= Len(script[r]) /\ Calls' = Calls /\ CallsOf(r)' = CallsOf(r)
      /\ pc \in [Runs -> RunStates]
  BY ToolAssumption DEF NextBatch, TypeOK, BatchInv, AtBatch, Calls, CallsOf
<1>1. \A q \in Runs : CallsOf(q)' = CallsOf(q)
  BY <1>0 DEF CallsOf
\* What a batch holds is either ended or not begun.
<1>2. ASSUME NEW c \in Calls, c[1] = r
      PROVE  task[c] \in {"idle", "ended"} /\ stop[c] = "no"
  BY <1>0, <1>2, CallFacts DEF BatchInv, AtBatch, StopsInBatch, BatchEnded, TypeOK
<1>3. CASE Later(r) = {}
  <2>1. pc' = [pc EXCEPT ![r] = "done"] /\ at' = at
    BY <1>3 DEF NextBatch
  <2>2. \A q \in Runs : BatchOf(q)' = BatchOf(q) /\ BatchEnded(q)' = BatchEnded(q)
    BY <1>0, <2>1 DEF BatchOf, BatchEnded
  <2>3. AtBatch' /\ StopsInBatch'
    BY <1>0, <2>1, <2>2 DEF BatchInv, AtBatch, StopsInBatch, Calls, CallsOf, BatchOf
  <2>4. ASSUME NEW c \in CallsOf(r)
        PROVE  task[c] = "ended"
    <3>1. PICK i \in 1 .. Len(script[r]) : c = <<r, i>>
      BY DEF CallsOf
    <3>2. c \in Calls /\ c[1] = r /\ c[2] = i
      BY <3>1, CallIs
    <3>3. CASE i < at[r]
      BY <3>2, <3>3 DEF BatchInv, AtBatch
    <3>4. CASE ~(i < at[r]) /\ at[r] > 0
      <4>1. \A k \in at[r] + 1 .. Len(script[r]) : ~Begins(script[r], k)
        BY <1>3 DEF Later
      <4>2. i \in at[r] .. Len(script[r])
        BY <1>0, <3>1, <3>4
      <4>3. i \in Batch(script[r], at[r])
        BY <1>0, <4>1, <4>2 DEF Batch
      <4> QED BY <1>0, <3>1, <3>4, <4>3 DEF BatchEnded, BatchOf
    <3>5. CASE at[r] = 0
      <4>1. 1 \in at[r] + 1 .. Len(script[r])
        BY <1>0, <3>1, <3>5
      <4>2. 1 \in Later(r)
        <5>1. Begins(script[r], 1)
          BY DEF Begins
        <5> QED BY <4>1, <5>1 DEF Later
      <4> QED BY <1>3, <4>2
    <3> QED BY <1>0, <3>3, <3>4, <3>5
  <2>5. EndedRuns'
    BY <1>0, <1>1, <2>1, <2>2, <2>4 DEF BatchInv, EndedRuns
  <2> QED BY <2>3, <2>5 DEF BatchInv
<1>4. CASE Later(r) # {}
  <2> DEFINE next == CHOOSE i \in Later(r) : \A j \in Later(r) : i <= j
  <2>1. at' = [at EXCEPT ![r] = next] /\ pc' = pc
    BY <1>4 DEF NextBatch
  <2>2. next \in Later(r) /\ \A j \in Later(r) : next <= j
    <3>1. Later(r) \in SUBSET Nat
      BY <1>0 DEF Later
    <3> QED BY <1>4, <3>1, LeastNumber
  <2> HIDE DEF next
  <2>3. next \in 1 .. Len(script[r]) /\ next > at[r] /\ at'[r] = next
    BY <1>0, <2>1, <2>2 DEF Later
  <2>4. ASSUME NEW c \in Calls, c[1] = r, c[2] < next
        PROVE  task[c] = "ended"
    <3>1. PICK i \in 1 .. Len(script[r]) : c = <<r, i>>
      BY <2>4, CallFacts, CallPair
    <3>2. i < next /\ c[2] = i
      BY <2>4, <3>1
    <3>3. CASE i < at[r]
      BY <2>4, <3>2, <3>3 DEF BatchInv, AtBatch
    <3>4. CASE ~(i < at[r]) /\ at[r] > 0
      <4>1. \A k \in at[r] + 1 .. Len(script[r]) : Begins(script[r], k) => next <= k
        BY <2>2 DEF Later
      <4>2. i \in at[r] .. Len(script[r]) /\ at[r] \in Nat \ {0} /\ next \in Nat
        BY <1>0, <2>3, <3>1, <3>4
      <4>3. i \in Batch(script[r], at[r])
        BY <1>0, <3>2, <4>1, <4>2, NextBegins
      <4> QED BY <1>0, <3>1, <3>4, <4>3 DEF BatchEnded, BatchOf
    <3>5. CASE at[r] = 0
      <4>1. 1 \in at[r] + 1 .. Len(script[r])
        BY <1>0, <2>3, <3>5
      <4>2. 1 \in Later(r)
        <5>1. Begins(script[r], 1)
          BY DEF Begins
        <5> QED BY <4>1, <5>1 DEF Later
      <4> QED BY <2>2, <2>3, <3>1, <3>2, <4>2
    <3> QED BY <1>0, <3>3, <3>4, <3>5
  <2>5. \A q \in Runs \ {r} : BatchOf(q)' = BatchOf(q) /\ at'[q] = at[q]
    BY <1>0, <2>1 DEF BatchOf
  <2>6. AtBatch'
    <3>1. \A q \in Runs : at'[q] <= Len(script[q])
      BY <1>0, <2>1, <2>3, <2>5 DEF BatchInv, AtBatch
    <3>2. ASSUME NEW c \in Calls
          PROVE  /\ task[c] # "idle" => c[2] < at'[c[1]] \/ c \in BatchOf(c[1])'
                 /\ c[2] < at'[c[1]] => task[c] = "ended"
      <4>1. CASE c[1] # r
        BY <2>5, <4>1, CallFacts DEF BatchInv, AtBatch
      <4>2. CASE c[1] = r
        <5>1. ASSUME task[c] # "idle"
              PROVE  c[2] < next
          <6>1. c[2] < at[r] \/ c \in BatchOf(r)
            BY <4>2, <5>1 DEF BatchInv, AtBatch
          <6>2. CASE c[2] < at[r]
            BY <1>0, <2>3, <4>2, <6>2, CallFacts
          <6>3. CASE c \in BatchOf(r)
            <7>1. c[2] \in Batch(script[r], at[r]) /\ at[r] > 0
              BY <6>3, BatchIsCalls
            <7> QED BY <1>0, <2>2, <2>3, <7>1 DEF Batch, Later
          <6> QED BY <6>1, <6>2, <6>3
        <5> QED BY <2>3, <2>4, <4>2, <5>1
      <4> QED BY <4>1, <4>2
    <3> QED BY <1>0, <3>1, <3>2 DEF AtBatch
  <2>7. StopsInBatch'
    <3>1. ASSUME NEW c \in Ids, stop[c] # "no"
          PROVE  c \in Calls /\ c[1] \in Runs \ {r} /\ task[c] # "ended" /\ c \in BatchOf(c[1])
      BY <1>2, <3>1, CallFacts DEF BatchInv, StopsInBatch
    <3> QED BY <1>0, <2>5, <3>1 DEF StopsInBatch
  <2>8. EndedRuns'
    <3>1. \A q \in Runs \ {r} : BatchEnded(q)' = BatchEnded(q)
      BY <1>0, <2>5 DEF BatchEnded
    <3> QED BY <1>0, <1>1, <2>1, <3>1 DEF BatchInv, EndedRuns
  <2> QED BY <2>6, <2>7, <2>8 DEF BatchInv
<1> QED BY <1>3, <1>4

LEMMA CancelBatch ==
  ASSUME TypeOK, BatchInv, NEW r \in Runs, Cancel(r) \/ Cancelled(r)
  PROVE  BatchInv'
<1>0. /\ script' = script /\ task' = task /\ at' = at
      /\ pc \in [Runs -> RunStates] /\ pc[r] # "done"
  BY DEF Cancel, Cancelled, TypeOK
<1>1. /\ Calls' = Calls
      /\ \A q \in Runs : /\ CallsOf(q)' = CallsOf(q) /\ BatchOf(q)' = BatchOf(q)
                         /\ BatchEnded(q)' = BatchEnded(q)
  BY <1>0 DEF Calls, CallsOf, BatchOf, BatchEnded
<1>2. AtBatch'
  BY <1>0 DEF BatchInv, AtBatch, Calls, CallsOf, BatchOf
<1>3. StopsInBatch'
  <2>1. ASSUME NEW c \in Ids, stop'[c] # "no"
        PROVE  c \in Calls /\ task[c] # "ended" /\ c \in BatchOf(c[1])
    <3>1. stop'[c] = stop[c] \/ (c \in BatchOf(r) /\ task[c] # "ended")
      BY DEF Cancel, Cancelled
    <3> QED BY <2>1, <3>1, BatchIsCalls DEF BatchInv, StopsInBatch
  <2>2. \A c \in Calls : BatchOf(c[1])' = BatchOf(c[1])
    BY <1>1, CallFacts
  <2> QED BY <1>0, <1>1, <2>1, <2>2 DEF StopsInBatch
<1>4. EndedRuns'
  <2>1. CASE Cancel(r)
    <3>1. pc' = [pc EXCEPT ![r] = "cancelling"]
      BY <2>1 DEF Cancel
    <3> QED BY <1>0, <1>1, <3>1 DEF BatchInv, EndedRuns
  <2>2. CASE Cancelled(r)
    <3>1. pc' = [pc EXCEPT ![r] = "cancelled"] /\ BatchEnded(r)
      BY <2>2 DEF Cancelled
    <3> QED BY <1>0, <1>1, <3>1 DEF BatchInv, EndedRuns
  <2> QED BY <2>1, <2>2
<1> QED BY <1>2, <1>3, <1>4 DEF BatchInv

--------------------------------------------------------------------------------
(* Results *)

LEMMA FramedResults ==
  ASSUME ToolInv, NEW c \in Calls, CallFrame(c), ResultFrame(c)
  PROVE  ResultInv'
<1>0. /\ TypeOK /\ c \in Ids /\ c[1] \in Runs /\ c[2] \in 1 .. Len(script[c[1]])
      /\ \A r \in Runs : script[r] \in Seq(Call) /\ \A i \in 1 .. Len(script[r]) : <<r, i>> \in Ids
      /\ UNCHANGED <<script, pc>>
  BY CallFacts, CallIs, ToolAssumption DEF ToolInv, TypeOK, CallFrame
<1>1. /\ results \in [Runs -> Seq([call : Nat, status : Statuses])]
      /\ \A r \in Runs : results[r] \in Seq([call : Nat, status : Statuses])
      /\ \A r \in Runs : Len(results[r]) \in Nat
  <2>1. results \in [Runs -> Seq([call : Nat, status : Statuses])]
    BY DEF ToolInv, TypeOK
  <2>2. \A r \in Runs : results[r] \in Seq([call : Nat, status : Statuses])
    BY <2>1
  <2> QED BY <2>1, <2>2, LenProperties
<1>2. ASSUME NEW r \in Runs, NEW i \in 1 .. Len(script[r]), <<r, i>> # c
      PROVE  task'[<<r, i>>] = task[<<r, i>>] /\ stop'[<<r, i>>] = stop[<<r, i>>]
  BY <1>0, <1>2 DEF CallFrame
<1>3. ASSUME NEW r \in Runs, NEW k \in 1 .. Len(results[r])
      PROVE  /\ results[r][k].call \in 1 .. Len(script[r])
             /\ task'[<<r, results[r][k].call>>] = "ended"
             /\ <<r, results[r][k].call>> # c
             /\ \A l \in 1 .. Len(results[r]) : results[r][k].call = results[r][l].call => k = l
  <2>1. /\ results[r][k].call \in 1 .. Len(script[r])
        /\ task[<<r, results[r][k].call>>] = "ended"
        /\ \A l \in 1 .. Len(results[r]) : results[r][k].call = results[r][l].call => k = l
    BY DEF ToolInv, ResultInv
  <2>2. <<r, results[r][k].call>> # c
    BY <2>1 DEF CallFrame
  <2> QED BY <1>2, <2>1, <2>2
<1>4. pc[c[1]] \in {"running", "done"} => stop[c] # "cancel" /\ task[c] # "drain_cancel"
  <2>1. c = <<c[1], c[2]>>
    BY CallPair
  <2> QED BY <1>0, <2>1 DEF ToolInv, ResultInv
<1>5. CASE results' = results /\ (task'[c] = "ended" => stop[c] = "cancel" \/ task[c] = "drain_cancel")
  <2>2. ASSUME NEW r \in Runs, pc[r] \in {"running", "done"}, NEW i \in 1 .. Len(script[r])
        PROVE  /\ stop'[<<r, i>>] # "cancel" /\ task'[<<r, i>>] # "drain_cancel"
               /\ task'[<<r, i>>] = "ended" => \E k \in 1 .. Len(results[r]) : results[r][k].call = i
    <3>1. CASE <<r, i>> = c
      <4>1. r = c[1]
        BY <3>1
      <4>2. stop'[c] # "cancel" /\ task'[c] # "drain_cancel" /\ task'[c] # "ended"
        BY <1>4, <1>5, <2>2, <4>1 DEF ResultFrame
      <4> QED BY <3>1, <4>2
    <3>2. CASE <<r, i>> # c
      BY <1>2, <2>2, <3>2 DEF ToolInv, ResultInv
    <3> QED BY <3>1, <3>2
  <2>3. UNCHANGED <<script, pc, results>>
    BY <1>0, <1>5
  <2> QED BY <1>3, <2>2, <2>3 DEF ResultInv
<1>6. ASSUME NEW status \in Statuses, task'[c] = "ended",
             results' = [results EXCEPT ![c[1]] = Append(@, [call |-> c[2], status |-> status])]
      PROVE  ResultInv'
  <2> DEFINE q == c[1]
             n == Len(results[q]) + 1
  <2>0. q \in Runs /\ n \in Nat /\ n \in 1 .. n
    BY <1>0, <1>1
  <2>1. /\ Len(results'[q]) = n
        /\ \A k \in 1 .. Len(results[q]) : results'[q][k] = results[q][k]
        /\ results'[q][n].call = c[2]
    <3> DEFINE x == [call |-> c[2], status |-> status]
    <3>1. results'[q] = Append(results[q], x) /\ x.call = c[2]
      BY <1>1, <1>6, <2>0
    <3>2. results[q] \in Seq([call : Nat, status : Statuses]) /\ x \in [call : Nat, status : Statuses]
      BY <1>0, <1>1, CallFacts
    <3> HIDE DEF x
    <3> QED BY <3>1, <3>2, AppendFacts
  <2>2. \A r \in Runs \ {q} : results'[r] = results[r]
    BY <1>1, <1>6, <2>0
  <2>3. ASSUME NEW r \in Runs, NEW k \in 1 .. Len(results'[r])
        PROVE  /\ results'[r][k].call \in 1 .. Len(script[r])
               /\ task'[<<r, results'[r][k].call>>] = "ended"
               /\ \A l \in 1 .. Len(results'[r]) : results'[r][k].call = results'[r][l].call => k = l
    <3>1. CASE r # q
      BY <1>3, <2>2, <3>1
    <3>2. CASE r = q
      <4>1. \A l \in 1 .. Len(results'[r]) : l \in 1 .. Len(results[r]) \/ l = n
        BY <1>1, <2>0, <2>1, <3>2
      <4>2. \A l \in 1 .. Len(results[r]) :
              /\ results'[r][l] = results[r][l]
              /\ results[r][l].call \in 1 .. Len(script[r])
              /\ results[r][l].call # c[2]
              /\ task'[<<r, results[r][l].call>>] = "ended"
              /\ \A j \in 1 .. Len(results[r]) : results[r][j].call = results[r][l].call => j = l
        <5>1. ASSUME NEW l \in 1 .. Len(results[r]), results[r][l].call = c[2]
              PROVE  FALSE
          <6>1. <<r, results[r][l].call>> # c
            BY <1>3
          <6>2. <<r, c[2]>> = c
            BY <3>2, CallPair
          <6> QED BY <5>1, <6>1, <6>2
        <5>2. \A l \in 1 .. Len(results[r]) : results'[r][l] = results[r][l]
          BY <2>1, <3>2
        <5> QED BY <1>3, <5>1, <5>2
      <4>3. CASE k = n
        <5>1. <<r, c[2]>> = c
          BY <3>2, CallPair
        <5>2. results'[r][k].call = c[2]
          BY <2>1, <3>2, <4>3
        <5>3. task'[<<r, results'[r][k].call>>] = "ended"
          BY <1>6, <5>1, <5>2
        <5>4. results'[r][k].call \in 1 .. Len(script[r])
          BY <1>0, <3>2, <5>2
        <5> QED BY <4>1, <4>2, <4>3, <5>2, <5>3, <5>4
      <4>4. CASE k \in 1 .. Len(results[r])
        <5>1. /\ results'[r][k] = results[r][k] /\ results[r][k].call # c[2]
              /\ results[r][k].call \in 1 .. Len(script[r])
              /\ task'[<<r, results[r][k].call>>] = "ended"
          BY <4>2, <4>4
        <5>2. ASSUME NEW l \in 1 .. Len(results'[r]), results'[r][k].call = results'[r][l].call
              PROVE  k = l
          <6>1. l # n
            BY <2>1, <3>2, <5>1, <5>2
          <6>2. l \in 1 .. Len(results[r])
            BY <4>1, <6>1
          <6> QED BY <4>2, <4>4, <5>2, <6>2
        <5> QED BY <5>1, <5>2
      <4> QED BY <4>1, <4>3, <4>4
    <3> QED BY <3>1, <3>2
  <2>4. ASSUME NEW r \in Runs, pc[r] \in {"running", "done"}, NEW i \in 1 .. Len(script[r])
        PROVE  /\ stop'[<<r, i>>] # "cancel" /\ task'[<<r, i>>] # "drain_cancel"
               /\ task'[<<r, i>>] = "ended" => \E k \in 1 .. Len(results'[r]) : results'[r][k].call = i
    <3>1. CASE <<r, i>> = c
      <4>1. r = c[1] /\ i = c[2]
        BY <3>1
      <4>2. stop'[c] # "cancel" /\ task'[c] # "drain_cancel"
        BY <1>4, <2>4, <4>1 DEF ResultFrame
      <4>3. n \in 1 .. Len(results'[r]) /\ results'[r][n].call = i
        BY <2>0, <2>1, <4>1
      <4> QED BY <3>1, <4>2, <4>3
    <3>2. CASE <<r, i>> # c
      <4>1. /\ stop'[<<r, i>>] # "cancel" /\ task'[<<r, i>>] # "drain_cancel"
            /\ task'[<<r, i>>] = "ended" => \E k \in 1 .. Len(results[r]) : results[r][k].call = i
        BY <1>2, <2>4, <3>2 DEF ToolInv, ResultInv
      <4>2. \A k \in 1 .. Len(results[r]) : k \in 1 .. Len(results'[r]) /\ results'[r][k] = results[r][k]
        <5>1. CASE r = q
          BY <1>1, <2>1, <5>1
        <5>2. CASE r # q
          BY <2>2, <5>2
        <5> QED BY <5>1, <5>2
      <4> QED BY <4>1, <4>2
    <3> QED BY <3>1, <3>2
  <2> QED BY <1>0, <2>3, <2>4 DEF ResultInv
<1> QED BY <1>5, <1>6 DEF ResultFrame

\* A thread's step and the ends of batches leave the results alone; a run that is
\* cancelled no longer owes them.
LEMMA RestOfResults ==
  ASSUME ToolInv, UNCHANGED <<script, results, task>>,
         \A r \in Runs : pc'[r] \in {"running", "done"} =>
           /\ pc[r] \in {"running", "done"}
           /\ \A i \in 1 .. Len(script[r]) : stop'[<<r, i>>] = "cancel" => stop[<<r, i>>] = "cancel"
  PROVE  ResultInv'
<1>1. ASSUME NEW r \in Runs
      PROVE  \A k \in 1 .. Len(results[r]) :
               /\ results[r][k].call \in 1 .. Len(script[r])
               /\ task[<<r, results[r][k].call>>] = "ended"
               /\ \A l \in 1 .. Len(results[r]) : results[r][k].call = results[r][l].call => k = l
  BY DEF ToolInv, ResultInv
<1>2. ASSUME NEW r \in Runs, pc'[r] \in {"running", "done"}, NEW i \in 1 .. Len(script[r])
      PROVE  /\ stop'[<<r, i>>] # "cancel" /\ task[<<r, i>>] # "drain_cancel"
             /\ task[<<r, i>>] = "ended" => \E k \in 1 .. Len(results[r]) : results[r][k].call = i
  BY <1>2 DEF ToolInv, ResultInv
<1> QED BY <1>1, <1>2 DEF ResultInv

--------------------------------------------------------------------------------
(* Locks *)

\* The sequence without its i-th element.
LEMMA RemoveAtFacts ==
  ASSUME NEW S, NEW s \in Seq(S), NEW i \in 1 .. Len(s)
  PROVE  /\ RemoveAt(s, i) \in Seq(S) /\ Len(RemoveAt(s, i)) = Len(s) - 1
         /\ \A k \in 1 .. i - 1 : RemoveAt(s, i)[k] = s[k]
         /\ \A k \in i .. Len(s) - 1 : RemoveAt(s, i)[k] = s[k + 1]
<1>1. PICK n \in Nat : n = Len(s)
  BY LenProperties
<1>2. PICK a : a = SubSeq(s, 1, i - 1)
  OBVIOUS
<1>3. PICK b : b = SubSeq(s, i + 1, n)
  OBVIOUS
<1>4. PICK t : t = RemoveAt(s, i)
  OBVIOUS
<1>5. t = a \o b
  BY <1>1, <1>2, <1>3, <1>4 DEF RemoveAt
<1>6. /\ i \in 1 .. n
      /\ \A k \in 1 .. n : s[k] \in S
  BY <1>1, LenProperties
<1>7. a \in Seq(S) /\ Len(a) = i - 1 /\ \A k \in 1 .. i - 1 : a[k] = s[k]
  <2>1. /\ SubSeq(s, 1, i - 1) \in Seq(S)
        /\ Len(SubSeq(s, 1, i - 1)) = IF 1 <= i - 1 THEN (i - 1) - 1 + 1 ELSE 0
        /\ \A k \in 1 .. (i - 1) - 1 + 1 : SubSeq(s, 1, i - 1)[k] = s[1 + k - 1]
    <3>1. \A k \in 1 .. i - 1 : s[k] \in S
      BY <1>6
    <3> QED BY <1>6, <3>1, SubSeqProperties
  <2> QED BY <1>2, <1>6, <2>1
<1>8. b \in Seq(S) /\ Len(b) = n - i /\ \A k \in 1 .. n - i : b[k] = s[k + i]
  <2>1. /\ SubSeq(s, i + 1, n) \in Seq(S)
        /\ Len(SubSeq(s, i + 1, n)) = IF i + 1 <= n THEN n - (i + 1) + 1 ELSE 0
        /\ \A k \in 1 .. n - (i + 1) + 1 : SubSeq(s, i + 1, n)[k] = s[(i + 1) + k - 1]
    <3>1. \A k \in i + 1 .. n : s[k] \in S
      BY <1>6
    <3> QED BY <1>6, <3>1, SubSeqProperties
  <2>2. Len(b) = n - i
    BY <1>3, <1>6, <2>1
  <2>3. ASSUME NEW k \in 1 .. n - i
        PROVE  b[k] = s[k + i]
    <3>1. k \in 1 .. n - (i + 1) + 1 /\ (i + 1) + k - 1 = k + i
      BY <1>6
    <3> QED BY <1>3, <2>1, <3>1
  <2> QED BY <1>3, <2>1, <2>2, <2>3
<1>9. /\ t \in Seq(S) /\ Len(t) = Len(a) + Len(b)
      /\ \A k \in 1 .. Len(a) + Len(b) : t[k] = IF k <= Len(a) THEN a[k] ELSE b[k - Len(a)]
  <2>1. a \in Seq(S) /\ b \in Seq(S)
    BY <1>7, <1>8
  <2> QED BY <1>5, <2>1, ConcatProperties
<1>10. Len(t) = n - 1
  BY <1>6, <1>7, <1>8, <1>9
<1>11. ASSUME NEW k \in 1 .. i - 1
       PROVE  t[k] = s[k]
  <2>1. k \in 1 .. Len(a) + Len(b) /\ k <= Len(a)
    BY <1>6, <1>7, <1>8
  <2> QED BY <1>7, <1>9, <2>1
<1>12. ASSUME NEW k \in i .. n - 1
       PROVE  t[k] = s[k + 1]
  <2>1. /\ k \in 1 .. Len(a) + Len(b) /\ ~(k <= Len(a)) /\ k - Len(a) = k - (i - 1)
        /\ k - (i - 1) \in 1 .. n - i /\ (k - (i - 1)) + i = k + 1
    BY <1>6, <1>7, <1>8
  <2>2. t[k] = b[k - (i - 1)]
    BY <1>9, <2>1
  <2>3. b[k - (i - 1)] = s[(k - (i - 1)) + i]
    BY <1>8, <2>1
  <2> QED BY <2>1, <2>2, <2>3
<1> QED BY <1>1, <1>4, <1>9, <1>10, <1>11, <1>12

LEMMA WithoutFacts ==
  ASSUME NEW s \in Seq(Ids), NEW c,
         \A k, l \in 1 .. Len(s) : s[k] = s[l] => k = l
  PROVE  /\ Without(c, s) \in Seq(Ids)
         /\ \A k \in 1 .. Len(Without(c, s)) :
              \E j \in 1 .. Len(s) : Without(c, s)[k] = s[j] /\ s[j] # c
         /\ \A k, l \in 1 .. Len(Without(c, s)) : Without(c, s)[k] = Without(c, s)[l] => k = l
         /\ \A j \in 1 .. Len(s) : s[j] # c => \E k \in 1 .. Len(Without(c, s)) : Without(c, s)[k] = s[j]
<1>1. CASE ~ \E i \in 1 .. Len(s) : s[i] = c
  <2>1. Without(c, s) = s
    BY <1>1 DEF Without
  <2> QED BY <1>1, <2>1
<1>2. CASE \E i \in 1 .. Len(s) : s[i] = c
  <2>1. PICK i \in 1 .. Len(s) : s[i] = c /\ Without(c, s) = RemoveAt(s, i)
    BY <1>2, Zenon DEF Without
  <2> DEFINE t == RemoveAt(s, i)
             n == Len(s)
  <2>2. n \in Nat /\ i \in 1 .. n
    OBVIOUS
  <2>3. /\ t \in Seq(Ids) /\ Len(t) = n - 1
        /\ \A k \in 1 .. i - 1 : t[k] = s[k]
        /\ \A k \in i .. n - 1 : t[k] = s[k + 1]
    BY RemoveAtFacts
  <2> HIDE DEF t, n
  <2>4. ASSUME NEW k \in 1 .. n - 1
        PROVE  \E j \in 1 .. n : t[k] = s[j] /\ j # i /\ j = IF k < i THEN k ELSE k + 1
    BY <2>2, <2>3
  <2>5. \A j \in 1 .. n : s[j] = c => j = i
    BY <2>1, <2>2 DEF n
  <2>6. ASSUME NEW k \in 1 .. Len(t)
        PROVE  \E j \in 1 .. n : t[k] = s[j] /\ s[j] # c
    BY <2>3, <2>4, <2>5
  <2>7. ASSUME NEW k \in 1 .. Len(t), NEW l \in 1 .. Len(t), t[k] = t[l]
        PROVE  k = l
    <3>1. PICK j \in 1 .. n : t[k] = s[j] /\ j = IF k < i THEN k ELSE k + 1
      BY <2>3, <2>4
    <3>2. PICK m \in 1 .. n : t[l] = s[m] /\ m = IF l < i THEN l ELSE l + 1
      BY <2>3, <2>4
    <3>3. j = m
      BY <2>7, <3>1, <3>2 DEF n
    <3> QED BY <2>2, <2>3, <3>1, <3>2, <3>3
  <2>8. ASSUME NEW j \in 1 .. n, s[j] # c
         PROVE  \E k \in 1 .. Len(t) : t[k] = s[j]
    <3>1. CASE j < i
      BY <2>2, <2>3, <3>1
    <3>2. CASE j > i
      <4> DEFINE k == j - 1
      <4>1. k \in i .. n - 1 /\ k + 1 = j /\ k \in 1 .. Len(t)
        BY <2>2, <2>3, <3>2
      <4>2. t[k] = s[j]
        BY <2>3, <4>1
      <4> QED BY <4>1, <4>2
    <3> QED BY <2>1, <2>2, <2>8, <3>1, <3>2
  <2> QED BY <2>1, <2>3, <2>6, <2>7, <2>8 DEF t, n
<1> QED BY <1>1, <1>2

LEMMA SameScript ==
  ASSUME UNCHANGED script
  PROVE  /\ Calls' = Calls
         /\ \A c : KindOf(c)' = KindOf(c) /\ PathOf(c)' = PathOf(c) /\ Mutating(c)' = Mutating(c)
         /\ \A r : CallsOf(r)' = CallsOf(r)
BY DEF Calls, CallsOf, KindOf, PathOf, Mutating

LEMMA EntryFacts ==
  ASSUME TypeOK, NEW e \in Ids
  PROVE  /\ entry[e] \in Entries
         /\ entry[e].users \in Nat /\ entry[e].holder \in Ids \cup {None}
         /\ entry[e].waiters \in Seq(Ids) /\ Len(entry[e].waiters) \in Nat
         /\ \A k \in 1 .. Len(entry[e].waiters) : entry[e].waiters[k] \in Ids
         /\ None \notin Ids
BY ToolAssumption, LenProperties DEF TypeOK, Entries, Ids

\* Steps that touch no lock, of calls that use none.
LEMMA LocksAlone ==
  ASSUME ToolInv, UNCHANGED <<script, locks>>,
         \A d \in Ids : via[d] # None => task'[d] = task[d],
         \A d \in Calls : /\ task'[d] = "waiting" => task[d] = "waiting"
                          /\ task'[d] = "thread" /\ Mutating(d) => task[d] = "thread"
  PROVE  LockInv'
<1>0. /\ UNCHANGED <<script, queue, entry, via>>
      /\ Calls' = Calls /\ \A e : UsersOf(e)' = UsersOf(e)
      /\ \A c : PathOf(c)' = PathOf(c) /\ Mutating(c)' = Mutating(c)
  BY SameScript DEF locks, UsersOf
<1>1. UsersQueued'
  BY <1>0 DEF ToolInv, LockInv, UsersQueued
<1>2. EntriesUsed'
  BY <1>0 DEF ToolInv, LockInv, EntriesUsed
<1>3. UsersCounted'
  BY <1>0 DEF ToolInv, LockInv, UsersCounted
<1>4. HolderWorks'
  <2>1. ASSUME NEW e \in Ids, entry[e].holder # None
        PROVE  entry[e].holder \in Ids /\ e # None
    BY <2>1, EntryFacts DEF ToolInv
  <2> QED BY <1>0, <2>1 DEF ToolInv, LockInv, HolderWorks
<1>5. WaitersWait'
  <2>1. ASSUME NEW e \in Ids, NEW k \in 1 .. Len(entry[e].waiters)
        PROVE  entry[e].waiters[k] \in Ids /\ e # None
    BY EntryFacts DEF ToolInv
  <2> QED BY <1>0, <2>1 DEF ToolInv, LockInv, WaitersWait
<1>6. WaitersListed'
  BY <1>0 DEF ToolInv, LockInv, WaitersListed
<1>7. WorkersHold'
  BY <1>0 DEF ToolInv, LockInv, WorkersHold
<1> QED BY <1>1, <1>2, <1>3, <1>4, <1>5, <1>6, <1>7 DEF LockInv

LEMMA EnterKeeps ==
  ASSUME ToolInv, NEW c \in Calls, Mutating(c), task[c] = "idle", script' = script, EnterLock(c),
         NEW e, e = IF queue[PathOf(c)] = None THEN c ELSE queue[PathOf(c)]
  PROVE  LockInv'
<1> DEFINE p == PathOf(c)
           free == ~Locked(e) /\ entry[e].waiters = <<>>
<1>0. /\ TypeOK /\ c \in Ids /\ p \in Paths /\ None \notin Ids
      /\ queue \in [Paths -> Ids \cup {None}] /\ entry \in [Ids -> Entries]
      /\ via \in [Ids -> Ids \cup {None}] /\ task \in [Ids -> TaskStates]
      /\ \A d \in Calls : d \in Ids
  BY CallFacts, EntryFacts DEF ToolInv, TypeOK
<1>1. /\ queue' = [queue EXCEPT ![p] = e]
      /\ via' = [via EXCEPT ![c] = e]
      /\ entry' = [entry EXCEPT ![e].users = @ + 1,
                                ![e].holder = IF free THEN c ELSE @,
                                ![e].waiters = IF free THEN @ ELSE Append(@, c)]
      /\ task' = [task EXCEPT ![c] = IF free THEN "thread" ELSE "waiting"]
  BY Zenon DEF EnterLock
<1>2. e \in Calls /\ PathOf(e) = p
  <2>1. queue[p] # None => queue[p] \in Calls /\ PathOf(queue[p]) = p
    BY <1>0 DEF ToolInv, LockInv, EntriesUsed
  <2> QED BY <2>1
<1>3. e \in Ids /\ e # None /\ (free <=> entry[e].holder = None /\ entry[e].waiters = <<>>)
  <2>1. e \in Ids /\ e # None
    BY <1>0, <1>2
  <2> QED BY <2>1 DEF Locked
<1>4. via[c] = None
  <2>1. UsersQueued
    BY DEF ToolInv, LockInv
  <2> HIDE DEF free, p
  <2> QED BY <1>0, <2>1 DEF UsersQueued
<1> HIDE DEF free, p
<1>5. /\ \A d \in Ids \ {e} : entry'[d] = entry[d]
      /\ entry'[e].users = entry[e].users + 1
      /\ entry'[e].holder = IF free THEN c ELSE entry[e].holder
      /\ entry'[e].waiters = IF free THEN entry[e].waiters ELSE Append(entry[e].waiters, c)
  <2>1. entry[e] \in [users : Nat, holder : Ids \cup {None}, waiters : Seq(Ids)]
    BY <1>0, <1>3 DEF Entries
  <2> QED BY <1>0, <1>1, <1>3, <2>1
<1>6. /\ \A d \in Ids \ {c} : via'[d] = via[d] /\ task'[d] = task[d]
      /\ via'[c] = e /\ task'[c] = IF free THEN "thread" ELSE "waiting"
      /\ \A q \in Paths \ {p} : queue'[q] = queue[q]
      /\ queue'[p] = e
  BY <1>0, <1>1
<1>7. Calls' = Calls /\ \A d : PathOf(d)' = PathOf(d) /\ Mutating(d)' = Mutating(d)
  BY SameScript
<1>8. entry[e].users \in Nat /\ entry[e].waiters \in Seq(Ids) /\ entry[e].holder \in Ids \cup {None}
  BY <1>0, <1>3, EntryFacts
<1>9. UsersQueued'
  <2>1. ASSUME NEW d \in Ids, via'[d] # None
        PROVE  /\ d \in Calls /\ Mutating(d)
               /\ task'[d] \in {"waiting", "thread"}
               /\ queue'[PathOf(d)] = via'[d]
    <3>1. CASE d = c
      BY <1>6, <3>1 DEF p
    <3>2. CASE d # c
      <4>1. via[d] # None /\ via'[d] = via[d] /\ task'[d] = task[d]
        BY <1>6, <2>1, <3>2
      <4>2. d \in Calls /\ Mutating(d) /\ task[d] \in {"waiting", "thread"} /\ queue[PathOf(d)] = via[d]
        BY <4>1 DEF ToolInv, LockInv, UsersQueued
      <4>3. PathOf(d) \in Paths
        BY <1>0, <4>2, CallFacts
      <4>4. PathOf(d) = p => via[d] = e
        BY <4>1, <4>2 DEF p
      <4> QED BY <1>6, <4>1, <4>2, <4>3, <4>4
    <3> QED BY <3>1, <3>2
  <2> QED BY <1>7, <2>1 DEF UsersQueued
<1>10. EntriesUsed'
  <2>1. ASSUME NEW q \in Paths, queue'[q] # None
        PROVE  queue'[q] \in Calls /\ PathOf(queue'[q]) = q /\ entry'[queue'[q]].users > 0
    <3>1. CASE q = p
      BY <1>2, <1>5, <1>6, <1>8, <3>1
    <3>2. CASE q # p
      <4>1. queue'[q] = queue[q]
        BY <1>6, <3>2
      <4>2. queue[q] \in Calls /\ PathOf(queue[q]) = q /\ entry[queue[q]].users > 0
        BY <2>1, <4>1 DEF ToolInv, LockInv, EntriesUsed
      <4>3. queue[q] # e /\ queue[q] \in Ids
        BY <1>0, <1>2, <3>2, <4>2
      <4> QED BY <1>5, <4>1, <4>2, <4>3
    <3> QED BY <3>1, <3>2
  <2> QED BY <1>7, <2>1 DEF EntriesUsed
<1>11. UsersCounted'
  <2>1. /\ \A d \in Ids \ {e} : UsersOf(d)' = UsersOf(d)
        /\ UsersOf(e)' = UsersOf(e) \cup {c} /\ c \notin UsersOf(e)
    <3>1. \A d \in Ids : via'[d] = IF d = c THEN e ELSE via[d]
      BY <1>6
    <3>2. c \in Ids /\ e # None /\ via[c] = None /\ None \notin Ids
      BY <1>0, <1>3, <1>4
    <3> QED BY <3>1, <3>2 DEF UsersOf
  <2>2. IsFiniteSet(UsersOf(e)) /\ entry[e].users = Cardinality(UsersOf(e))
    BY <1>3 DEF ToolInv, LockInv, UsersCounted
  <2>3. IsFiniteSet(UsersOf(e)') /\ Cardinality(UsersOf(e)') = Cardinality(UsersOf(e)) + 1
    BY <2>1, <2>2, FS_AddElement
  <2>4. ASSUME NEW d \in Ids
        PROVE  IsFiniteSet(UsersOf(d)') /\ entry'[d].users = Cardinality(UsersOf(d)')
    <3>1. CASE d = e
      BY <1>5, <2>2, <2>3, <3>1
    <3>2. CASE d # e
      BY <1>5, <2>1, <3>2 DEF ToolInv, LockInv, UsersCounted
    <3> QED BY <3>1, <3>2
  <2> QED BY <2>4 DEF UsersCounted
<1>12. HolderWorks'
  <2>1. ASSUME NEW d \in Ids, entry'[d].holder # None
        PROVE  via'[entry'[d].holder] = d /\ task'[entry'[d].holder] = "thread"
    <3>1. CASE d = e /\ free
      BY <1>5, <1>6, <3>1
    <3>2. CASE ~(d = e /\ free)
      <4>1. entry'[d].holder = entry[d].holder
        BY <1>5, <3>2
      <4>2. entry[d].holder \in Ids /\ via[entry[d].holder] = d /\ task[entry[d].holder] = "thread"
        BY <1>0, <2>1, <4>1, EntryFacts DEF ToolInv, LockInv, HolderWorks
      <4>3. entry[d].holder # c
        BY <1>0, <1>4, <4>2
      <4> QED BY <1>6, <4>1, <4>2, <4>3
    <3> QED BY <3>1, <3>2
  <2> QED BY <2>1 DEF HolderWorks
<1>13. \A d \in Ids : \A k \in 1 .. Len(entry[d].waiters) :
         /\ entry[d].waiters[k] # c /\ entry[d].waiters[k] \in Ids
         /\ via'[entry[d].waiters[k]] = d /\ task'[entry[d].waiters[k]] = "waiting"
         /\ \A l \in 1 .. Len(entry[d].waiters) : entry[d].waiters[k] = entry[d].waiters[l] => k = l
  <2>1. ASSUME NEW d \in Ids, NEW k \in 1 .. Len(entry[d].waiters)
        PROVE  /\ entry[d].waiters[k] # c /\ entry[d].waiters[k] \in Ids
               /\ via'[entry[d].waiters[k]] = d /\ task'[entry[d].waiters[k]] = "waiting"
               /\ \A l \in 1 .. Len(entry[d].waiters) : entry[d].waiters[k] = entry[d].waiters[l] => k = l
    <3>1. /\ entry[d].waiters[k] \in Ids
          /\ via[entry[d].waiters[k]] = d /\ task[entry[d].waiters[k]] = "waiting"
          /\ \A l \in 1 .. Len(entry[d].waiters) : entry[d].waiters[k] = entry[d].waiters[l] => k = l
      BY <1>0, EntryFacts DEF ToolInv, LockInv, WaitersWait
    <3> QED BY <1>0, <1>4, <1>6, <3>1
  <2> QED BY <2>1
<1>14. WaitersWait'
  <2>1. ASSUME NEW d \in Ids, ~(d = e /\ ~free)
        PROVE  entry'[d].waiters = entry[d].waiters
    BY <1>5, <2>1
  <2>2. ASSUME ~free
        PROVE  \A k \in 1 .. Len(entry'[e].waiters) :
                 /\ via'[entry'[e].waiters[k]] = e /\ task'[entry'[e].waiters[k]] = "waiting"
                 /\ \A l \in 1 .. Len(entry'[e].waiters) :
                      entry'[e].waiters[k] = entry'[e].waiters[l] => k = l
    <3> DEFINE s == entry[e].waiters
               t == entry'[e].waiters
               n == Len(s) + 1
    <3>1. /\ t = Append(s, c) /\ Len(t) = n /\ n \in Nat
          /\ \A k \in 1 .. Len(s) : t[k] = s[k]
          /\ t[n] = c
      <4>1. t = Append(s, c) /\ s \in Seq(Ids) /\ c \in Ids
        BY <1>0, <1>5, <1>8, <2>2
      <4> HIDE DEF t, s
      <4>2. Len(s) \in Nat
        BY <4>1, LenProperties
      <4>3. /\ Len(t) = Len(s) + 1 /\ t[Len(s) + 1] = c
            /\ \A k \in 1 .. Len(s) : t[k] = s[k]
        BY <4>1, AppendFacts
      <4> QED BY <4>1, <4>2, <4>3
    <3>2. \A k \in 1 .. n : k \in 1 .. Len(s) \/ k = n
      BY <1>8
    <3>3. \A k \in 1 .. Len(s) :
            /\ t[k] # c /\ via'[t[k]] = e /\ task'[t[k]] = "waiting"
            /\ \A l \in 1 .. Len(s) : t[k] = t[l] => k = l
      <4>1. e \in Ids
        BY <1>3
      <4>2. \A k \in 1 .. Len(s) :
              /\ s[k] # c /\ via'[s[k]] = e /\ task'[s[k]] = "waiting"
              /\ \A l \in 1 .. Len(s) : s[k] = s[l] => k = l
        BY <1>13, <4>1
      <4>3. \A k \in 1 .. Len(s) : t[k] = s[k]
        BY <3>1, Zenon
      <4> HIDE DEF s, t
      <4> QED BY <4>2, <4>3
    <3>4. via'[t[n]] = e /\ task'[t[n]] = "waiting"
      BY <1>6, <2>2, <3>1
    <3> HIDE DEF t, n, s
    <3>5. ASSUME NEW k \in 1 .. n
          PROVE  /\ via'[t[k]] = e /\ task'[t[k]] = "waiting"
                 /\ \A l \in 1 .. n : t[k] = t[l] => k = l
      <4>1. CASE k = n
        <5>1. \A l \in 1 .. Len(s) : t[l] # t[k]
          BY <3>1, <3>3, <4>1
        <5> QED BY <3>2, <3>4, <4>1, <5>1
      <4>2. CASE k \in 1 .. Len(s)
        BY <3>1, <3>2, <3>3, <4>2
      <4> QED BY <3>2, <4>1, <4>2
    <3> QED BY <3>1, <3>5 DEF t
  <2>3. ASSUME NEW d \in Ids, NEW k \in 1 .. Len(entry'[d].waiters)
        PROVE  /\ via'[entry'[d].waiters[k]] = d /\ task'[entry'[d].waiters[k]] = "waiting"
               /\ \A l \in 1 .. Len(entry'[d].waiters) :
                    entry'[d].waiters[k] = entry'[d].waiters[l] => k = l
    <3>1. CASE d = e /\ ~free
      BY <2>2, <3>1
    <3>2. CASE ~(d = e /\ ~free)
      <4>1. entry'[d].waiters = entry[d].waiters
        BY <2>1, <3>2
      <4> QED BY <1>13, <4>1
    <3> QED BY <3>1, <3>2
  <2> QED BY <2>3 DEF WaitersWait
<1>15. WaitersListed'
  <2>1. ASSUME NEW d \in Calls, task'[d] = "waiting"
        PROVE  /\ via'[d] # None
               /\ \E k \in 1 .. Len(entry'[via'[d]].waiters) : entry'[via'[d]].waiters[k] = d
    <3>1. CASE d = c
      <4>1. ~free /\ entry'[e].waiters = Append(entry[e].waiters, c)
        BY <1>5, <1>6, <2>1, <3>1
      <4>2. /\ Len(entry'[e].waiters) = Len(entry[e].waiters) + 1
            /\ entry'[e].waiters[Len(entry[e].waiters) + 1] = c
        BY <1>0, <1>8, <4>1, AppendFacts
      <4>3. Len(entry[e].waiters) + 1 \in 1 .. Len(entry'[e].waiters)
        BY <1>8, <4>2
      <4>4. via'[d] = e /\ e # None
        BY <1>3, <1>6, <3>1
      <4> QED BY <3>1, <4>2, <4>3, <4>4
    <3>2. CASE d # c
      <4>1. d \in Ids /\ task[d] = "waiting" /\ via'[d] = via[d]
        BY <1>0, <1>6, <2>1, <3>2
      <4>2. via[d] # None /\ via[d] \in Ids
        BY <1>0, <4>1 DEF ToolInv, LockInv, WaitersListed
      <4>3. PICK k \in 1 .. Len(entry[via[d]].waiters) : entry[via[d]].waiters[k] = d
        BY <4>1 DEF ToolInv, LockInv, WaitersListed
      <4>4. k \in 1 .. Len(entry'[via[d]].waiters) /\ entry'[via[d]].waiters[k] = d
        <5>1. CASE via[d] = e /\ ~free
          <6>1. /\ entry'[e].waiters = Append(entry[e].waiters, c)
                /\ Len(entry'[e].waiters) = Len(entry[e].waiters) + 1
                /\ entry'[e].waiters[k] = entry[e].waiters[k]
            <7>1. entry'[e].waiters = Append(entry[e].waiters, c) /\ k \in 1 .. Len(entry[e].waiters)
              BY <1>5, <4>3, <5>1
            <7> HIDE DEF free
            <7>2. entry[e].waiters \in Seq(Ids) /\ c \in Ids
              BY <1>0, <1>8
            <7> QED BY <7>1, <7>2, AppendFacts
          <6> DEFINE n == Len(entry[e].waiters)
          <6>2. n \in Nat /\ k \in 1 .. n
            BY <1>8, <4>3, <5>1
          <6> HIDE DEF n
          <6>3. k \in 1 .. n + 1
            BY <6>2
          <6> QED BY <4>3, <5>1, <6>1, <6>3, Zenon DEF n
        <5>2. CASE ~(via[d] = e /\ ~free)
          BY <1>5, <4>2, <4>3, <5>2
        <5> QED BY <5>1, <5>2
      <4> QED BY <4>1, <4>2, <4>4
    <3> QED BY <3>1, <3>2
  <2> QED BY <1>7, <2>1 DEF WaitersListed
<1>16. WorkersHold'
  <2>1. ASSUME NEW d \in Calls, task'[d] = "thread", Mutating(d)
        PROVE  via'[d] # None /\ entry'[via'[d]].holder = d
    <3>1. CASE d = c
      BY <1>3, <1>5, <1>6, <2>1, <3>1
    <3>2. CASE d # c
      <4>1. d \in Ids /\ via'[d] = via[d] /\ task[d] = "thread"
        BY <1>0, <1>6, <2>1, <3>2
      <4>2. via[d] # None /\ via[d] \in Ids /\ entry[via[d]].holder = d
        BY <1>0, <2>1, <4>1 DEF ToolInv, LockInv, WorkersHold
      <4>3. d # None
        BY <1>0, <4>1
      <4> QED BY <1>3, <1>5, <4>1, <4>2, <4>3
    <3> QED BY <3>1, <3>2
  <2> QED BY <1>7, <2>1 DEF WorkersHold
<1> QED BY <1>9, <1>10, <1>11, <1>12, <1>14, <1>15, <1>16 DEF LockInv

LEMMA AcquireKeeps ==
  ASSUME ToolInv, NEW c \in Calls, Acquire(c), NEW e, e = via[c]
  PROVE  LockInv'
<1>0. /\ TypeOK /\ c \in Ids /\ None \notin Ids
      /\ entry \in [Ids -> Entries] /\ via \in [Ids -> Ids \cup {None}] /\ task \in [Ids -> TaskStates]
      /\ \A d \in Calls : d \in Ids
  BY CallFacts, EntryFacts DEF ToolInv, TypeOK
<1>1. /\ task[c] = "waiting" /\ entry[e].holder = None /\ Head(entry[e].waiters) = c
      /\ entry' = [entry EXCEPT ![e].holder = c, ![e].waiters = Tail(@)]
      /\ task' = [task EXCEPT ![c] = "thread"]
      /\ UNCHANGED <<script, queue, via>>
  BY DEF Acquire, Locked, loop
<1>2. /\ e \in Ids /\ \E k \in 1 .. Len(entry[e].waiters) : entry[e].waiters[k] = c
  BY <1>0, <1>1 DEF ToolInv, LockInv, WaitersListed
<1> DEFINE s == entry[e].waiters
<1>3. /\ s \in Seq(Ids) /\ s # <<>> /\ s[1] = c /\ 1 \in 1 .. Len(s)
      /\ Tail(s) \in Seq(Ids) /\ Len(Tail(s)) = Len(s) - 1 /\ Len(s) \in Nat
      /\ \A k \in 1 .. Len(Tail(s)) : Tail(s)[k] = s[k + 1] /\ k + 1 \in 1 .. Len(s)
  <2>1. s \in Seq(Ids) /\ Len(s) \in Nat
    BY <1>0, <1>2, EntryFacts
  <2>2. 1 \in 1 .. Len(s)
    BY <1>2, <2>1
  <2>3. s # <<>> /\ Head(s) = s[1]
    BY <2>1, <2>2, EmptySeq
  <2>4. Tail(s) \in Seq(Ids) /\ Len(Tail(s)) = Len(s) - 1
        /\ \A k \in 1 .. Len(Tail(s)) : Tail(s)[k] = s[k + 1]
    BY <2>1, <2>3, HeadTailProperties
  <2> QED BY <1>1, <2>1, <2>2, <2>3, <2>4
<1>4. /\ \A d \in Ids \ {e} : entry'[d] = entry[d]
      /\ entry'[e].users = entry[e].users /\ entry'[e].holder = c /\ entry'[e].waiters = Tail(s)
  <2>1. entry[e] \in [users : Nat, holder : Ids \cup {None}, waiters : Seq(Ids)]
    BY <1>0, <1>2 DEF Entries
  <2> QED BY <1>0, <1>1, <1>2, <2>1
<1>5. task'[c] = "thread" /\ \A d \in Ids \ {c} : task'[d] = task[d]
  BY <1>0, <1>1
<1>6. Calls' = Calls /\ \A d : PathOf(d)' = PathOf(d) /\ Mutating(d)' = Mutating(d)
  BY <1>1, SameScript
<1>7. UsersQueued'
  <2>1. \A d \in Ids : via[d] # None => task'[d] \in {"waiting", "thread"}
    BY <1>5 DEF ToolInv, LockInv, UsersQueued
  <2> QED BY <1>1, <1>6, <2>1 DEF ToolInv, LockInv, UsersQueued
<1>8. EntriesUsed'
  <2>1. \A d \in Ids : entry'[d].users = entry[d].users
    BY <1>4
  <2>2. \A p \in Paths : queue[p] # None => queue[p] \in Ids
    BY <1>0 DEF ToolInv, LockInv, EntriesUsed
  <2> QED BY <1>1, <1>6, <2>1, <2>2 DEF ToolInv, LockInv, EntriesUsed
<1>9. UsersCounted'
  <2>1. \A d \in Ids : entry'[d].users = entry[d].users /\ UsersOf(d)' = UsersOf(d)
    BY <1>1, <1>4 DEF UsersOf
  <2> QED BY <2>1 DEF ToolInv, LockInv, UsersCounted
<1>10. HolderWorks'
  <2>1. ASSUME NEW d \in Ids, entry'[d].holder # None
        PROVE  via'[entry'[d].holder] = d /\ task'[entry'[d].holder] = "thread"
    <3>1. CASE d = e
      BY <1>1, <1>4, <1>5, <3>1
    <3>2. CASE d # e
      <4>1. entry'[d].holder = entry[d].holder
        BY <1>4, <3>2
      <4>2. entry[d].holder \in Ids /\ via[entry[d].holder] = d /\ task[entry[d].holder] = "thread"
        BY <1>0, <2>1, <4>1, EntryFacts DEF ToolInv, LockInv, HolderWorks
      <4> QED BY <1>1, <1>5, <4>1, <4>2
    <3> QED BY <3>1, <3>2
  <2> QED BY <2>1 DEF HolderWorks
<1>11. WaitersWait'
  <2>1. ASSUME NEW d \in Ids, NEW k \in 1 .. Len(entry[d].waiters)
        PROVE  /\ entry[d].waiters[k] \in Ids
               /\ via[entry[d].waiters[k]] = d /\ task[entry[d].waiters[k]] = "waiting"
               /\ \A l \in 1 .. Len(entry[d].waiters) : entry[d].waiters[k] = entry[d].waiters[l] => k = l
    BY <1>0, EntryFacts DEF ToolInv, LockInv, WaitersWait
  <2>2. ASSUME NEW d \in Ids \ {e}, NEW k \in 1 .. Len(entry[d].waiters)
        PROVE  task'[entry[d].waiters[k]] = "waiting"
    <3>1. entry[d].waiters[k] # c
      BY <2>1
    <3> QED BY <1>5, <2>1, <3>1
  <2>3. ASSUME NEW k \in 1 .. Len(Tail(s))
        PROVE  /\ via[Tail(s)[k]] = e /\ task'[Tail(s)[k]] = "waiting"
               /\ \A l \in 1 .. Len(Tail(s)) : Tail(s)[k] = Tail(s)[l] => k = l
    <3>1. k + 1 \in 1 .. Len(s) /\ k + 1 # 1 /\ Tail(s)[k] = s[k + 1]
      BY <1>3
    <3>2. s[k + 1] # c /\ s[k + 1] \in Ids /\ via[s[k + 1]] = e /\ task[s[k + 1]] = "waiting"
      BY <1>2, <1>3, <2>1, <3>1
    <3>3. ASSUME NEW l \in 1 .. Len(Tail(s)), Tail(s)[k] = Tail(s)[l]
          PROVE  k = l
      <4>1. l + 1 \in 1 .. Len(s) /\ Tail(s)[l] = s[l + 1]
        BY <1>3
      <4>2. k + 1 = l + 1
        BY <1>2, <2>1, <3>1, <3>3, <4>1
      <4> QED BY <1>3, <4>2
    <3> QED BY <1>5, <3>1, <3>2, <3>3
  <2>4. ASSUME NEW d \in Ids, NEW k \in 1 .. Len(entry'[d].waiters)
        PROVE  /\ via'[entry'[d].waiters[k]] = d /\ task'[entry'[d].waiters[k]] = "waiting"
               /\ \A l \in 1 .. Len(entry'[d].waiters) :
                    entry'[d].waiters[k] = entry'[d].waiters[l] => k = l
    <3> DEFINE t == entry'[d].waiters
    <3>0. \A x : via'[x] = via[x]
      BY <1>1
    <3>1. CASE d = e
      <4>1. t = Tail(s)
        BY <1>4, <3>1
      <4> HIDE DEF t, s
      <4> QED BY <2>3, <3>0, <3>1, <4>1 DEF t
    <3>2. CASE d # e
      <4>1. t = entry[d].waiters
        BY <1>4, <3>2
      <4>2. \A j \in 1 .. Len(entry[d].waiters) :
              /\ via[entry[d].waiters[j]] = d /\ task'[entry[d].waiters[j]] = "waiting"
              /\ \A l \in 1 .. Len(entry[d].waiters) : entry[d].waiters[j] = entry[d].waiters[l] => j = l
        BY <2>1, <2>2, <3>2
      <4> QED BY <3>0, <4>1, <4>2
    <3> QED BY <3>1, <3>2
  <2> QED BY <2>4 DEF WaitersWait
<1>12. WaitersListed'
  <2>1. ASSUME NEW d \in Calls, task'[d] = "waiting"
        PROVE  /\ via'[d] # None
               /\ \E k \in 1 .. Len(entry'[via'[d]].waiters) : entry'[via'[d]].waiters[k] = d
    <3>1. d # c /\ d \in Ids /\ task[d] = "waiting" /\ via'[d] = via[d]
      BY <1>0, <1>1, <1>5, <2>1
    <3>2. via[d] # None /\ via[d] \in Ids
      BY <1>0, <3>1 DEF ToolInv, LockInv, WaitersListed
    <3>3. PICK k \in 1 .. Len(entry[via[d]].waiters) : entry[via[d]].waiters[k] = d
      BY <3>1 DEF ToolInv, LockInv, WaitersListed
    <3>4. CASE via[d] # e
      BY <1>4, <3>1, <3>2, <3>3, <3>4
    <3>5. CASE via[d] = e
      <4> DEFINE j == k - 1
      <4>1. k # 1 /\ k \in 1 .. Len(s)
        BY <1>3, <3>1, <3>3, <3>5
      <4>2. Len(s) \in Nat /\ Len(Tail(s)) = Len(s) - 1
        BY <1>3
      <4>3. j \in 1 .. Len(Tail(s)) /\ j + 1 = k
        BY <4>1, <4>2
      <4> HIDE DEF j
      <4>4. Tail(s)[j] = s[k]
        BY <1>3, <4>3
      <4>5. entry'[e].waiters = Tail(s) /\ s[k] = d
        BY <1>4, <3>3, <3>5
      <4> QED BY <3>1, <3>2, <3>5, <4>3, <4>4, <4>5
    <3> QED BY <3>4, <3>5
  <2> QED BY <1>6, <2>1 DEF WaitersListed
<1>13. WorkersHold'
  <2>1. ASSUME NEW d \in Calls, task'[d] = "thread", Mutating(d)
        PROVE  via'[d] # None /\ entry'[via'[d]].holder = d
    <3>1. CASE d = c
      BY <1>0, <1>1, <1>2, <1>4, <3>1
    <3>2. CASE d # c
      <4>1. d \in Ids /\ via'[d] = via[d] /\ task[d] = "thread"
        BY <1>0, <1>1, <1>5, <2>1, <3>2
      <4>2. via[d] # None /\ via[d] \in Ids /\ entry[via[d]].holder = d
        BY <1>0, <2>1, <4>1 DEF ToolInv, LockInv, WorkersHold
      <4>3. via[d] # e
        BY <1>0, <1>1, <4>1, <4>2
      <4> QED BY <1>4, <4>1, <4>2, <4>3
    <3> QED BY <3>1, <3>2
  <2> QED BY <1>6, <2>1 DEF WorkersHold
<1> QED BY <1>7, <1>8, <1>9, <1>10, <1>11, <1>12, <1>13 DEF LockInv

\* Leaving hands the lock to nobody: a waiter takes it by a step of its own.
LEMMA LeaveKeeps ==
  ASSUME ToolInv, NEW c \in Calls, NEW e, e = via[c], e # None, script' = script, LeaveLock(c),
         task'[c] = "ended", \A d \in Ids \ {c} : task'[d] = task[d]
  PROVE  LockInv'
<1> DEFINE s == entry[e].waiters
           users == entry[e].users - 1
           last == users = 0 /\ entry[e].holder \in {None, c}
<1>0. /\ TypeOK /\ c \in Ids /\ None \notin Ids /\ e \in Ids
      /\ queue \in [Paths -> Ids \cup {None}]
      /\ entry \in [Ids -> Entries] /\ via \in [Ids -> Ids \cup {None}]
      /\ \A d \in Calls : d \in Ids
  BY CallFacts, EntryFacts DEF ToolInv, TypeOK
<1>1. /\ entry' = [entry EXCEPT ![e].users = users,
                                ![e].holder = IF @ = c THEN None ELSE @,
                                ![e].waiters = Without(c, @)]
      /\ queue' = [p \in Paths |-> IF queue[p] = e /\ last THEN None ELSE queue[p]]
      /\ via' = [via EXCEPT ![c] = None]
  BY Zenon DEF LeaveLock
<1>2. s \in Seq(Ids) /\ entry[e].users \in Nat /\ entry[e].holder \in Ids \cup {None}
  BY <1>0, EntryFacts
<1> HIDE DEF users, last
<1>3. /\ \A d \in Ids \ {e} : entry'[d] = entry[d]
      /\ entry'[e].users = users /\ entry'[e].waiters = Without(c, s)
      /\ entry'[e].holder = IF entry[e].holder = c THEN None ELSE entry[e].holder
  <2>1. entry[e] \in [users : Nat, holder : Ids \cup {None}, waiters : Seq(Ids)]
    BY <1>0 DEF Entries
  <2> QED BY <1>0, <1>1, <2>1
<1>4. via'[c] = None /\ \A d \in Ids \ {c} : via'[d] = via[d]
  BY <1>0, <1>1
<1>5. Calls' = Calls /\ \A d : PathOf(d)' = PathOf(d) /\ Mutating(d)' = Mutating(d)
  BY SameScript
<1>6. /\ UsersOf(e)' = UsersOf(e) \ {c} /\ c \in UsersOf(e)
      /\ \A d \in Ids \ {e} : UsersOf(d)' = UsersOf(d)
  <2>1. \A d \in Ids : via'[d] = IF d = c THEN None ELSE via[d]
    BY <1>4
  <2> QED BY <1>0, <2>1 DEF UsersOf
<1>7. /\ IsFiniteSet(UsersOf(e)') /\ users = Cardinality(UsersOf(e)') /\ users \in Nat
  <2>1. IsFiniteSet(UsersOf(e)) /\ entry[e].users = Cardinality(UsersOf(e))
    BY <1>0 DEF ToolInv, LockInv, UsersCounted
  <2>2. IsFiniteSet(UsersOf(e)') /\ Cardinality(UsersOf(e)') = Cardinality(UsersOf(e)) - 1
    BY <1>6, <2>1, FS_RemoveElement
  <2> QED BY <2>1, <2>2, FS_CardinalityType DEF users
\* Whoever still refers to the entry keeps it in the queue.
<1>8. ASSUME NEW d \in Ids \ {c}, via[d] = e
      PROVE  users > 0 /\ ~last
  <2>1. d \in UsersOf(e)'
    BY <1>0, <1>4, <1>8 DEF UsersOf
  <2>2. users # 0
    BY <1>7, <2>1, FS_EmptySet
  <2> QED BY <1>7, <2>2 DEF last
<1>9. UsersQueued'
  <2>1. ASSUME NEW d \in Ids, via'[d] # None
        PROVE  /\ d \in Calls /\ Mutating(d)
               /\ task'[d] \in {"waiting", "thread"}
               /\ queue'[PathOf(d)] = via'[d]
    <3>1. d # c /\ via'[d] = via[d] /\ task'[d] = task[d]
      BY <1>4, <2>1
    <3>2. d \in Calls /\ Mutating(d) /\ task[d] \in {"waiting", "thread"} /\ queue[PathOf(d)] = via[d]
      BY <2>1, <3>1 DEF ToolInv, LockInv, UsersQueued
    <3>3. PathOf(d) \in Paths
      BY <1>0, <3>2, CallFacts
    <3>4. ~(queue[PathOf(d)] = e /\ last)
      BY <1>8, <3>1, <3>2
    <3> QED BY <1>1, <3>1, <3>2, <3>3, <3>4
  <2> QED BY <1>5, <2>1 DEF UsersQueued
<1>10. EntriesUsed'
  <2>1. ASSUME NEW p \in Paths, queue'[p] # None
        PROVE  queue'[p] \in Calls /\ PathOf(queue'[p]) = p /\ entry'[queue'[p]].users > 0
    <3>1. queue'[p] = queue[p] /\ ~(queue[p] = e /\ last)
      BY <1>1, <2>1
    <3>2. queue[p] \in Calls /\ PathOf(queue[p]) = p /\ entry[queue[p]].users > 0
      BY <2>1, <3>1 DEF ToolInv, LockInv, EntriesUsed
    <3>3. CASE queue[p] = e
      <4>1. CASE users # 0
        BY <1>3, <1>7, <3>1, <3>2, <3>3, <4>1
      <4>2. CASE entry[e].holder \notin {None, c}
        <5>1. entry[e].holder \in Ids \ {c} /\ via[entry[e].holder] = e
          BY <1>0, <1>2, <4>2 DEF ToolInv, LockInv, HolderWorks
        <5>2. users > 0
          BY <1>8, <5>1
        <5> QED BY <1>3, <3>1, <3>2, <3>3, <5>2
      <4> QED BY <3>1, <3>3, <4>1, <4>2 DEF last
    <3>4. CASE queue[p] # e
      BY <1>0, <1>3, <3>1, <3>2, <3>4
    <3> QED BY <3>3, <3>4
  <2> QED BY <1>5, <2>1 DEF EntriesUsed
<1>11. UsersCounted'
  <2>1. ASSUME NEW d \in Ids
        PROVE  IsFiniteSet(UsersOf(d)') /\ entry'[d].users = Cardinality(UsersOf(d)')
    <3>1. CASE d = e
      BY <1>3, <1>7, <3>1
    <3>2. CASE d # e
      BY <1>3, <1>6, <3>2 DEF ToolInv, LockInv, UsersCounted
    <3> QED BY <3>1, <3>2
  <2> QED BY <2>1 DEF UsersCounted
<1>12. HolderWorks'
  <2>1. ASSUME NEW d \in Ids, entry'[d].holder # None
        PROVE  via'[entry'[d].holder] = d /\ task'[entry'[d].holder] = "thread"
    <3>1. entry'[d].holder = entry[d].holder
      BY <1>3, <2>1
    <3>2. entry[d].holder \in Ids /\ via[entry[d].holder] = d /\ task[entry[d].holder] = "thread"
      BY <1>0, <2>1, <3>1, EntryFacts DEF ToolInv, LockInv, HolderWorks
    <3>3. entry[d].holder # c
      <4>1. CASE d = e
        BY <1>3, <2>1, <3>1, <4>1
      <4>2. CASE d # e
        BY <3>2, <4>2
      <4> QED BY <4>1, <4>2
    <3> QED BY <1>4, <3>1, <3>2, <3>3
  <2> QED BY <2>1 DEF HolderWorks
<1>13. ASSUME NEW d \in Ids, NEW k \in 1 .. Len(entry[d].waiters)
       PROVE  /\ entry[d].waiters[k] \in Ids
              /\ via[entry[d].waiters[k]] = d /\ task[entry[d].waiters[k]] = "waiting"
              /\ \A l \in 1 .. Len(entry[d].waiters) : entry[d].waiters[k] = entry[d].waiters[l] => k = l
  BY <1>0, EntryFacts DEF ToolInv, LockInv, WaitersWait
<1>14. /\ \A k \in 1 .. Len(Without(c, s)) : \E j \in 1 .. Len(s) : Without(c, s)[k] = s[j] /\ s[j] # c
       /\ \A k, l \in 1 .. Len(Without(c, s)) : Without(c, s)[k] = Without(c, s)[l] => k = l
       /\ \A j \in 1 .. Len(s) : s[j] # c => \E k \in 1 .. Len(Without(c, s)) : Without(c, s)[k] = s[j]
  <2>1. \A k, l \in 1 .. Len(s) : s[k] = s[l] => k = l
    BY <1>0, <1>13
  <2> QED BY <1>2, <2>1, WithoutFacts
<1>15. WaitersWait'
  <2>1. ASSUME NEW k \in 1 .. Len(Without(c, s))
        PROVE  via'[Without(c, s)[k]] = e /\ task'[Without(c, s)[k]] = "waiting"
    <3>1. PICK j \in 1 .. Len(s) : Without(c, s)[k] = s[j] /\ s[j] # c
      BY <1>14
    <3>2. s[j] \in Ids /\ via[s[j]] = e /\ task[s[j]] = "waiting"
      BY <1>0, <1>13
    <3> QED BY <1>4, <3>1, <3>2
  <2>2. ASSUME NEW d \in Ids \ {e}, NEW k \in 1 .. Len(entry[d].waiters)
        PROVE  via'[entry[d].waiters[k]] = d /\ task'[entry[d].waiters[k]] = "waiting"
    <3>1. entry[d].waiters[k] # c
      BY <1>13
    <3> QED BY <1>4, <1>13, <3>1
  <2>3. ASSUME NEW d \in Ids, NEW k \in 1 .. Len(entry'[d].waiters)
        PROVE  /\ via'[entry'[d].waiters[k]] = d /\ task'[entry'[d].waiters[k]] = "waiting"
               /\ \A l \in 1 .. Len(entry'[d].waiters) :
                    entry'[d].waiters[k] = entry'[d].waiters[l] => k = l
    <3>1. CASE d = e
      <4>1. entry'[d].waiters = Without(c, s)
        BY <1>3, <3>1
      <4> QED BY <1>14, <2>1, <3>1, <4>1
    <3>2. CASE d # e
      BY <1>3, <1>13, <2>2, <3>2
    <3> QED BY <3>1, <3>2
  <2> QED BY <2>3 DEF WaitersWait
<1>16. WaitersListed'
  <2>1. ASSUME NEW d \in Calls, task'[d] = "waiting"
        PROVE  /\ via'[d] # None
               /\ \E k \in 1 .. Len(entry'[via'[d]].waiters) : entry'[via'[d]].waiters[k] = d
    <3>1. d # c /\ d \in Ids /\ task[d] = "waiting" /\ via'[d] = via[d]
      BY <1>0, <1>4, <2>1
    <3>2. via[d] # None /\ via[d] \in Ids
      BY <1>0, <3>1 DEF ToolInv, LockInv, WaitersListed
    <3>3. PICK k \in 1 .. Len(entry[via[d]].waiters) : entry[via[d]].waiters[k] = d
      BY <3>1 DEF ToolInv, LockInv, WaitersListed
    <3>4. CASE via[d] # e
      BY <1>3, <3>1, <3>2, <3>3, <3>4
    <3>5. CASE via[d] = e
      <4>1. \E j \in 1 .. Len(Without(c, s)) : Without(c, s)[j] = d
        BY <1>14, <3>1, <3>3, <3>5
      <4> QED BY <1>3, <3>1, <3>2, <3>5, <4>1
    <3> QED BY <3>4, <3>5
  <2> QED BY <1>5, <2>1 DEF WaitersListed
<1>17. WorkersHold'
  <2>1. ASSUME NEW d \in Calls, task'[d] = "thread", Mutating(d)
        PROVE  via'[d] # None /\ entry'[via'[d]].holder = d
    <3>1. d # c /\ d \in Ids /\ via'[d] = via[d] /\ task[d] = "thread"
      BY <1>0, <1>4, <2>1
    <3>2. via[d] # None /\ via[d] \in Ids /\ entry[via[d]].holder = d
      BY <1>0, <2>1, <3>1 DEF ToolInv, LockInv, WorkersHold
    <3> QED BY <1>3, <3>1, <3>2
  <2> QED BY <1>5, <2>1 DEF WorkersHold
<1> QED BY <1>9, <1>10, <1>11, <1>12, <1>15, <1>16, <1>17 DEF LockInv

--------------------------------------------------------------------------------
(* Types *)

LockTypes ==
  /\ queue \in [Paths -> Ids \cup {None}]
  /\ entry \in [Ids -> Entries]
  /\ via \in [Ids -> Ids \cup {None}]

WorkTypes ==
  /\ thread \in [Ids -> ThreadStates]
  /\ seen \in [Ids -> SUBSET Ids]
  /\ file \in [Paths -> SUBSET Ids]
  /\ history \in [Paths -> Seq(Ids)]
  /\ outlived \subseteq Ids

TaskTypes ==
  /\ script \in Scripts
  /\ pc \in [Runs -> RunStates]
  /\ at \in [Runs -> Nat]
  /\ task \in [Ids -> TaskStates]
  /\ stop \in [Ids -> {"no", "timeout", "cancel"}]

ResultTypes == results \in [Runs -> Seq([call : Nat, status : Statuses])]

LEMMA TypeParts ==
  /\ TypeOK <=> LockTypes /\ WorkTypes /\ TaskTypes /\ ResultTypes
  /\ TypeOK' <=> LockTypes' /\ WorkTypes' /\ TaskTypes' /\ ResultTypes'
BY DEF TypeOK, LockTypes, WorkTypes, TaskTypes, ResultTypes

LEMMA EnterTypes ==
  ASSUME TypeOK, NEW c \in Calls, Mutating(c), EnterLock(c)
  PROVE  LockTypes' /\ task' \in [Ids -> TaskStates] /\ thread' \in [Ids -> ThreadStates]
<1> DEFINE p == PathOf(c)
           e == IF queue[p] = None THEN c ELSE queue[p]
           free == ~Locked(e) /\ entry[e].waiters = <<>>
<1>1. /\ queue' = [queue EXCEPT ![p] = e]
      /\ via' = [via EXCEPT ![c] = e]
      /\ entry' = [entry EXCEPT ![e].users = @ + 1,
                                ![e].holder = IF free THEN c ELSE @,
                                ![e].waiters = IF free THEN @ ELSE Append(@, c)]
      /\ task' = [task EXCEPT ![c] = IF free THEN "thread" ELSE "waiting"]
      /\ thread' = [thread EXCEPT ![c] = IF free THEN "queued" ELSE @]
  BY Zenon DEF EnterLock
<1>2. c \in Ids /\ p \in Paths /\ e \in Ids
  BY CallFacts DEF TypeOK
<1> HIDE DEF p, e, free
<1>3. /\ entry[e] \in [users : Nat, holder : Ids \cup {None}, waiters : Seq(Ids)]
      /\ Append(entry[e].waiters, c) \in Seq(Ids)
  <2>1. entry[e] \in Entries /\ entry[e].waiters \in Seq(Ids)
    BY <1>2, EntryFacts
  <2>2. Append(entry[e].waiters, c) \in Seq(Ids)
    BY <1>2, <2>1, AppendFacts
  <2> QED BY <2>1, <2>2 DEF Entries
<1>4. entry' \in [Ids -> Entries]
  <2> DEFINE holder == IF free THEN c ELSE entry[e].holder
             waiters == IF free THEN entry[e].waiters ELSE Append(entry[e].waiters, c)
  <2>1. holder \in Ids \cup {None} /\ waiters \in Seq(Ids) /\ entry[e].users + 1 \in Nat
    BY <1>2, <1>3
  <2>2. entry' = [entry EXCEPT ![e].users = @ + 1, ![e].holder = holder, ![e].waiters = waiters]
    BY <1>1
  <2> HIDE DEF holder, waiters
  <2>3. entry \in [Ids -> Entries]
    BY DEF TypeOK
  <2>4. /\ entry' = [d \in Ids |-> entry'[d]]
        /\ \A d \in Ids \ {e} : entry'[d] = entry[d]
    BY <1>2, <2>2, <2>3
  <2>5. entry'[e] = [entry[e] EXCEPT !.users = @ + 1, !.holder = holder, !.waiters = waiters]
    BY <1>2, <2>2, <2>3
  <2>6. entry'[e] \in Entries
    BY <1>3, <2>1, <2>5 DEF Entries
  <2> QED BY <2>3, <2>4, <2>6
<1>5. /\ queue' \in [Paths -> Ids \cup {None}] /\ via' \in [Ids -> Ids \cup {None}]
      /\ task' \in [Ids -> TaskStates] /\ thread' \in [Ids -> ThreadStates]
  BY <1>1, <1>2 DEF TypeOK, TaskStates, ThreadStates
<1> QED BY <1>4, <1>5 DEF LockTypes

LEMMA LeaveTypes ==
  ASSUME ToolInv, NEW c \in Calls, LeaveLockIfAny(c)
  PROVE  LockTypes'
<1>0. TypeOK /\ c \in Ids
  BY CallFacts DEF ToolInv
<1>1. CASE via[c] = None
  BY <1>0, <1>1 DEF LeaveLockIfAny, locks, TypeOK, LockTypes
<1>2. CASE via[c] # None
  <2> DEFINE e == via[c]
             users == entry[e].users - 1
             last == users = 0 /\ entry[e].holder \in {None, c}
  <2>1. /\ entry' = [entry EXCEPT ![e].users = users,
                                  ![e].holder = IF @ = c THEN None ELSE @,
                                  ![e].waiters = Without(c, @)]
        /\ queue' = [p \in Paths |-> IF queue[p] = e /\ last THEN None ELSE queue[p]]
        /\ via' = [via EXCEPT ![c] = None]
    BY <1>2, Zenon DEF LeaveLockIfAny, LeaveLock
  <2>2. e \in Ids
    BY <1>0, <1>2 DEF TypeOK
  <2>3. users \in Nat
    <3>1. /\ IsFiniteSet(UsersOf(e)) /\ entry[e].users = Cardinality(UsersOf(e))
          /\ c \in UsersOf(e)
      BY <1>0, <2>2 DEF ToolInv, LockInv, UsersCounted, UsersOf
    <3>2. entry[e].users # 0 /\ entry[e].users \in Nat
      BY <3>1, FS_EmptySet, FS_CardinalityType
    <3> QED BY <3>2
  <2>4. Without(c, entry[e].waiters) \in Seq(Ids)
    <3>1. /\ entry[e].waiters \in Seq(Ids)
          /\ \A k, l \in 1 .. Len(entry[e].waiters) : entry[e].waiters[k] = entry[e].waiters[l] => k = l
      BY <1>0, <2>2, EntryFacts DEF ToolInv, LockInv, WaitersWait
    <3> QED BY <3>1, WithoutFacts
  <2> HIDE DEF e, users, last
  <2>5. entry' \in [Ids -> Entries]
    <3>1. entry[e] \in [users : Nat, holder : Ids \cup {None}, waiters : Seq(Ids)]
      BY <1>0, <2>2, EntryFacts DEF Entries
    <3> QED BY <1>0, <2>1, <2>2, <2>3, <2>4, <3>1 DEF TypeOK, Entries
  <2>6. queue' \in [Paths -> Ids \cup {None}] /\ via' \in [Ids -> Ids \cup {None}]
    BY <1>0, <2>1 DEF TypeOK
  <2> QED BY <2>5, <2>6 DEF LockTypes
<1> QED BY <1>1, <1>2

LEMMA EndsTypes ==
  ASSUME TypeOK, NEW c \in Calls, NEW status \in Statuses, EndsWith(c, status)
  PROVE  task' \in [Ids -> TaskStates] /\ ResultTypes'
<1>1. c \in Ids /\ c[1] \in Runs /\ c[2] \in Nat
  BY CallFacts
<1>2. task' = [task EXCEPT ![c] = "ended"]
  BY DEF EndsWith
<1>3. task' \in [Ids -> TaskStates]
  BY <1>1, <1>2 DEF TypeOK, TaskStates
<1>4. results \in [Runs -> Seq([call : Nat, status : Statuses])]
  BY DEF TypeOK
<1> DEFINE x == [call |-> c[2], status |-> status]
<1>5. results' = [results EXCEPT ![c[1]] = Append(@, x)] /\ x \in [call : Nat, status : Statuses]
  BY <1>1 DEF EndsWith
<1> HIDE DEF x
<1>6. Append(results[c[1]], x) \in Seq([call : Nat, status : Statuses])
  BY <1>1, <1>4, <1>5, AppendFacts
<1> QED BY <1>1, <1>3, <1>4, <1>5, <1>6 DEF ResultTypes

LEMMA StoppedTypes ==
  ASSUME TypeOK, NEW c \in Calls, NEW cause, Stopped(c, cause)
  PROVE  task' \in [Ids -> TaskStates] /\ ResultTypes'
<1>1. CASE cause = "timeout"
  BY <1>1, EndsTypes DEF Stopped, Statuses
<1>2. CASE cause # "timeout"
  BY <1>2 DEF Stopped, TypeOK, TaskStates, ResultTypes
<1> QED BY <1>1, <1>2

LEMMA TypesHold ==
  ASSUME ToolInv, [Next]_vars
  PROVE  TypeOK'
<1>0. TypeOK /\ LockTypes /\ WorkTypes /\ TaskTypes /\ ResultTypes
  BY TypeParts DEF ToolInv
<1>1. ASSUME NEW c \in Calls, Start(c)
      PROVE  TypeOK'
  <2>0. c \in Ids
    BY <1>0, CallFacts
  <2>1. UNCHANGED <<script, pc, at, stop, seen, file, history, outlived>>
    BY <1>1 DEF Start
  <2>2. CASE EndsWith(c, "failed") /\ UNCHANGED <<locks, thread>>
    <3>1. task' \in [Ids -> TaskStates] /\ ResultTypes'
      BY <1>0, <2>2, EndsTypes DEF Statuses
    <3> QED BY <1>0, <2>1, <2>2, <3>1, TypeParts DEF locks, LockTypes, WorkTypes, TaskTypes
  <2>3. CASE KindOf(c) \in {"write", "edit"} /\ EnterLock(c) /\ UNCHANGED results
    <3>1. LockTypes' /\ task' \in [Ids -> TaskStates] /\ thread' \in [Ids -> ThreadStates]
      BY <1>0, <2>3, EnterTypes DEF Mutating
    <3> QED BY <1>0, <2>1, <2>3, <3>1, TypeParts DEF WorkTypes, TaskTypes, ResultTypes
  <2>4. CASE /\ task' = [task EXCEPT ![c] = "thread"]
             /\ thread' = [thread EXCEPT ![c] = "queued"]
             /\ UNCHANGED <<results, locks>>
    <3>1. task' \in [Ids -> TaskStates] /\ thread' \in [Ids -> ThreadStates]
      BY <1>0, <2>4 DEF TaskTypes, WorkTypes, TaskStates, ThreadStates
    <3> QED BY <1>0, <2>1, <2>4, <3>1, TypeParts DEF locks, LockTypes, WorkTypes, TaskTypes, ResultTypes
  <2>5. CASE /\ \E state \in {"shell", "timed_shell"} : task' = [task EXCEPT ![c] = state]
             /\ UNCHANGED <<results, locks, thread>>
    <3>1. task' \in [Ids -> TaskStates]
      BY <1>0, <2>5 DEF TaskTypes, TaskStates
    <3> QED BY <1>0, <2>1, <2>5, <3>1, TypeParts DEF locks, LockTypes, WorkTypes, TaskTypes, ResultTypes
  <2> QED BY <1>1, <2>2, <2>3, <2>4, <2>5 DEF Start
<1>2. ASSUME NEW c \in Calls, Acquire(c)
      PROVE  TypeOK'
  <2> DEFINE e == via[c]
  <2>1. /\ entry' = [entry EXCEPT ![e].holder = c, ![e].waiters = Tail(@)]
        /\ task' = [task EXCEPT ![c] = "thread"]
        /\ thread' = [thread EXCEPT ![c] = "queued"]
        /\ UNCHANGED <<script, pc, at, results, stop, queue, via, seen, file, history, outlived>>
    BY <1>2, Zenon DEF Acquire, loop
  <2>2. c \in Ids /\ e \in Ids /\ \E k \in 1 .. Len(entry[e].waiters) : entry[e].waiters[k] = c
    <3>1. task[c] = "waiting" /\ c \in Ids
      BY <1>0, <1>2, CallFacts DEF Acquire
    <3> QED BY <1>0, <3>1 DEF ToolInv, LockInv, WaitersListed, LockTypes
  <2> HIDE DEF e
  <2>3. /\ entry[e] \in [users : Nat, holder : Ids \cup {None}, waiters : Seq(Ids)]
        /\ Tail(entry[e].waiters) \in Seq(Ids)
    <3>1. entry[e] \in Entries /\ entry[e].waiters \in Seq(Ids) /\ entry[e].waiters # <<>>
      BY <1>0, <2>2, EntryFacts, EmptySeq
    <3> QED BY <3>1, HeadTailProperties DEF Entries
  <2>4. entry' \in [Ids -> Entries]
    BY <1>0, <2>1, <2>2, <2>3 DEF LockTypes, Entries
  <2>5. task' \in [Ids -> TaskStates] /\ thread' \in [Ids -> ThreadStates]
    BY <1>0, <2>1 DEF TaskTypes, WorkTypes, TaskStates, ThreadStates
  <2> QED BY <1>0, <2>1, <2>4, <2>5, TypeParts DEF LockTypes, WorkTypes, TaskTypes, ResultTypes
<1>3. ASSUME NEW c \in Calls, Resume(c)
      PROVE  TypeOK'
  <2>1. PICK status \in Statuses : EndsWith(c, status)
    BY <1>3 DEF Resume, Statuses
  <2>2. task' \in [Ids -> TaskStates] /\ ResultTypes'
    BY <1>0, <2>1, EndsTypes
  <2>3. LockTypes' /\ UNCHANGED <<script, pc, at, stop, thread, seen, file, history, outlived>>
    BY <1>3, LeaveTypes DEF Resume, work
  <2> QED BY <1>0, <2>2, <2>3, TypeParts DEF WorkTypes, TaskTypes
<1>4. ASSUME NEW c \in Calls, ShellExits(c) \/ Store(c) \/ OwnTimeout(c) \/ Drained(c)
      PROVE  TypeOK'
  <2>1. UNCHANGED <<script, pc, at, stop, queue, entry, via, thread, seen, file, history, outlived>>
    BY <1>4 DEF ShellExits, Store, OwnTimeout, Drained, loop, locks, work
  <2>2. \/ \E status \in Statuses : EndsWith(c, status)
        \/ \E state \in TaskStates : task' = [task EXCEPT ![c] = state] /\ UNCHANGED results
        \/ \E cause : Stopped(c, cause)
    BY <1>4 DEF ShellExits, Store, OwnTimeout, Drained, loop, Statuses, TaskStates
  <2>3. task' \in [Ids -> TaskStates] /\ ResultTypes'
    <3>1. CASE \E status \in Statuses : EndsWith(c, status)
      BY <1>0, <3>1, EndsTypes
    <3>2. CASE \E state \in TaskStates : task' = [task EXCEPT ![c] = state] /\ UNCHANGED results
      BY <1>0, <3>2 DEF TaskTypes, ResultTypes
    <3>3. CASE \E cause : Stopped(c, cause)
      BY <1>0, <3>3, StoppedTypes
    <3> QED BY <2>2, <3>1, <3>2, <3>3
  <2> QED BY <1>0, <2>1, <2>3, TypeParts DEF LockTypes, WorkTypes, TaskTypes
<1>5. ASSUME NEW c \in Calls, Deadline(c)
      PROVE  TypeOK'
  <2>1. stop' \in [Ids -> {"no", "timeout", "cancel"}]
    BY <1>0, <1>5 DEF Deadline, TaskTypes
  <2>2. /\ UNCHANGED <<script, pc, at, results, task, queue, entry, via, thread, seen, file, history, outlived>>
    BY <1>5 DEF Deadline, loop, locks, work
  <2> QED BY <1>0, <2>1, <2>2, TypeParts DEF LockTypes, WorkTypes, TaskTypes, ResultTypes
<1>6. ASSUME NEW c \in Calls, ReceiveStop(c)
      PROVE  TypeOK'
  <2>0. c \in Ids
    BY <1>0, CallFacts
  <2>1. task' \in [Ids -> TaskStates] /\ ResultTypes'
    <3>1. CASE task[c] = "timed_shell"
      <4>1. /\ results' = results
            /\ task' = [task EXCEPT ![c] = IF stop[c] = "timeout" THEN "drain_timeout" ELSE "drain_cancel"]
        BY <1>6, <3>1 DEF ReceiveStop
      <4> QED BY <1>0, <4>1 DEF TaskTypes, ResultTypes, TaskStates
    <3>2. CASE task[c] # "timed_shell"
      BY <1>0, <1>6, <3>2, StoppedTypes DEF ReceiveStop
    <3> QED BY <3>1, <3>2
  <2>2. LockTypes'
    BY <1>6, LeaveTypes DEF ReceiveStop
  <2>3. /\ stop' = [stop EXCEPT ![c] = "no"] /\ UNCHANGED <<script, pc, at, seen, file, history>>
        /\ thread' = [thread EXCEPT ![c] = IF @ = "queued" THEN "none" ELSE @]
        /\ outlived' \subseteq outlived \cup {c}
    BY <1>6 DEF ReceiveStop, StopThread
  <2>4. thread' \in [Ids -> ThreadStates] /\ outlived' \subseteq Ids /\ stop' \in [Ids -> {"no", "timeout", "cancel"}]
    BY <1>0, <2>0, <2>3 DEF WorkTypes, TaskTypes, ThreadStates
  <2> QED BY <1>0, <2>1, <2>2, <2>3, <2>4, TypeParts DEF WorkTypes, TaskTypes
<1>7. ASSUME NEW c \in Calls, ThreadStarts(c) \/ ThreadFinishes(c) \/ ThreadFails(c)
      PROVE  TypeOK'
  <2>0. c \in Ids /\ (Mutating(c) => PathOf(c) \in Paths)
    BY <1>0, CallFacts
  <2>1. UNCHANGED <<script, pc, at, results, task, stop, queue, entry, via, outlived>>
    BY <1>7 DEF ThreadStarts, ThreadFinishes, ThreadFails, loop, locks
  <2>2. thread' \in [Ids -> ThreadStates]
    BY <1>0, <1>7 DEF ThreadStarts, ThreadFinishes, ThreadFails, WorkTypes, ThreadStates
  <2>3. seen' \in [Ids -> SUBSET Ids] /\ file' \in [Paths -> SUBSET Ids] /\ history' \in [Paths -> Seq(Ids)]
    <3>1. CASE ThreadStarts(c)
      <4>1. KindOf(c) = "edit" => file[PathOf(c)] \in SUBSET Ids
        BY <1>0, <2>0 DEF Mutating, WorkTypes
      <4> QED BY <1>0, <2>0, <3>1, <4>1 DEF ThreadStarts, WorkTypes
    <3>2. CASE ThreadFinishes(c)
      <4>1. seen' = seen
        BY <3>2 DEF ThreadFinishes
      <4>2. CASE KindOf(c) = "read"
        BY <1>0, <3>2, <4>1, <4>2 DEF ThreadFinishes, WorkTypes
      <4>3. CASE KindOf(c) # "read"
        <5>1. /\ file' = [file EXCEPT ![PathOf(c)] = seen[c] \cup {c}]
              /\ history' = [history EXCEPT ![PathOf(c)] = Append(@, c)]
          BY <3>2, <4>3 DEF ThreadFinishes
        <5>2. Mutating(c)
          BY <2>0, <3>2, <4>3 DEF ThreadFinishes, ToolInv, ThreadInv, Mutating
        <5>3. Append(history[PathOf(c)], c) \in Seq(Ids)
          BY <1>0, <2>0, <5>2, AppendFacts DEF WorkTypes
        <5> QED BY <1>0, <2>0, <4>1, <5>1, <5>2, <5>3 DEF WorkTypes
      <4> QED BY <4>2, <4>3
    <3>3. CASE ThreadFails(c)
      BY <1>0, <3>3 DEF ThreadFails, WorkTypes
    <3> QED BY <1>7, <3>1, <3>2, <3>3
  <2> QED BY <1>0, <2>1, <2>2, <2>3, TypeParts DEF LockTypes, WorkTypes, TaskTypes, ResultTypes
<1>8. ASSUME NEW r \in Runs, NextBatch(r) \/ Cancel(r) \/ Cancelled(r)
      PROVE  TypeOK'
  <2>1. UNCHANGED <<script, results, task, queue, entry, via, thread, seen, file, history, outlived>>
    BY <1>8 DEF NextBatch, Cancel, Cancelled, locks, work
  <2>2. pc' \in [Runs -> RunStates] /\ stop' \in [Ids -> {"no", "timeout", "cancel"}]
    BY <1>0, <1>8 DEF NextBatch, Cancel, Cancelled, TaskTypes, RunStates
  <2>3. at' \in [Runs -> Nat]
    <3>1. CASE at' = at
      BY <1>0, <3>1 DEF TaskTypes
    <3>2. CASE NextBatch(r) /\ Later(r) # {}
      <4>1. Later(r) \in SUBSET Nat
        BY <1>0 DEF Later, TaskTypes
      <4>2. PICK i \in Later(r) : i = CHOOSE k \in Later(r) : \A j \in Later(r) : k <= j
        BY <3>2, <4>1, LeastNumber
      <4>3. at' = [at EXCEPT ![r] = i]
        BY <3>2, <4>2 DEF NextBatch
      <4> QED BY <1>0, <4>1, <4>3 DEF TaskTypes
    <3> QED BY <1>8, <3>1, <3>2 DEF NextBatch, Cancel, Cancelled
  <2> QED BY <1>0, <2>1, <2>2, <2>3, TypeParts DEF LockTypes, WorkTypes, TaskTypes, ResultTypes
<1>9. CASE UNCHANGED vars
  BY <1>0, <1>9, TypeParts DEF vars, loop, locks, work, LockTypes, WorkTypes, TaskTypes, ResultTypes
<1> QED BY <1>1, <1>2, <1>3, <1>4, <1>5, <1>6, <1>7, <1>8, <1>9 DEF Next, CallStep, Terminated

--------------------------------------------------------------------------------
(* Threads, and what they do to the files *)

LEMMA ThreadsFollow ==
  ASSUME ToolInv, [Next]_vars
  PROVE  ThreadInv'
<1>0. /\ thread \in [Ids -> ThreadStates] /\ task \in [Ids -> TaskStates]
      /\ \A c \in Calls : c \in Ids
  BY CallFacts DEF ToolInv, TypeOK
<1>1. ASSUME NEW d \in Ids
      PROVE  /\ thread[d] # "none" => d \in Calls /\ KindOf(d) \in {"write", "edit", "read"}
             /\ thread[d] = "queued" => task[d] = "thread"
             /\ thread[d] = "started" => task[d] = "thread" \/ d \in outlived
  BY DEF ToolInv, ThreadInv
<1>2. UNCHANGED script => Calls' = Calls /\ \A d : KindOf(d)' = KindOf(d)
  BY SameScript
\* What a step may do to the thread and the task of one call.
<1>3. ASSUME UNCHANGED script, NEW c \in Calls,
             \A d \in Ids \ {c} : thread'[d] = thread[d] /\ task'[d] = task[d],
             outlived \subseteq outlived',
             thread'[c] # "none" => KindOf(c) \in {"write", "edit", "read"},
             thread'[c] = "queued" => task'[c] = "thread",
             thread'[c] = "started" => task'[c] = "thread" \/ c \in outlived'
      PROVE  ThreadInv'
  BY <1>0, <1>1, <1>2, <1>3 DEF ThreadInv
<1>4. ASSUME NEW c \in Calls, Start(c)
      PROVE  ThreadInv'
  <2>1. UNCHANGED <<script, outlived>> /\ c \in Ids
    BY <1>0, <1>4 DEF Start
  <2>2. thread[c] # "queued" /\ (thread[c] = "started" => c \in outlived)
    BY <1>1, <1>4, <2>1 DEF Start
  <2>3. /\ \A d \in Ids \ {c} : thread'[d] = thread[d] /\ task'[d] = task[d]
        /\ thread'[c] = thread[c] \/ (thread'[c] = "queued" /\ task'[c] = "thread")
        /\ thread'[c] # thread[c] => KindOf(c) \in {"write", "edit", "read"}
    <3>1. CASE EndsWith(c, "failed") /\ UNCHANGED thread
      <4>1. task' = [task EXCEPT ![c] = "ended"]
        BY <3>1 DEF EndsWith
      <4> QED BY <1>0, <2>1, <3>1, <4>1
    <3>2. CASE EnterLock(c) /\ KindOf(c) \in {"write", "edit"}
      BY <1>0, <2>1, <3>2 DEF EnterLock
    <3>3. CASE /\ KindOf(c) = "read" /\ task' = [task EXCEPT ![c] = "thread"]
               /\ thread' = [thread EXCEPT ![c] = "queued"]
      BY <1>0, <2>1, <3>3
    <3>4. CASE /\ \E state \in {"shell", "timed_shell"} : task' = [task EXCEPT ![c] = state]
               /\ UNCHANGED thread
      BY <1>0, <2>1, <3>4
    <3> QED BY <1>4, <3>1, <3>2, <3>3, <3>4 DEF Start
  <2> QED BY <1>1, <1>3, <2>1, <2>2, <2>3
<1>5. ASSUME NEW c \in Calls, Acquire(c)
      PROVE  ThreadInv'
  <2>1. /\ UNCHANGED <<script, outlived>> /\ c \in Ids /\ task[c] = "waiting"
        /\ \A d \in Ids \ {c} : thread'[d] = thread[d] /\ task'[d] = task[d]
        /\ thread'[c] = "queued" /\ task'[c] = "thread"
    BY <1>0, <1>5 DEF Acquire, loop
  <2>2. KindOf(c) \in {"write", "edit"}
    BY <2>1 DEF ToolInv, LockInv, WaitersListed, UsersQueued, Mutating
  <2> QED BY <1>3, <2>1, <2>2
<1>6. ASSUME NEW c \in Calls, Resume(c) \/ ShellExits(c) \/ OwnTimeout(c) \/ Store(c) \/ Drained(c)
      PROVE  ThreadInv'
  <2>1. UNCHANGED <<script, thread, outlived>> /\ c \in Ids
    BY <1>0, <1>6 DEF Resume, ShellExits, OwnTimeout, Store, Drained, work, loop
  <2>2. \A d \in Ids \ {c} : task'[d] = task[d]
    BY <1>0, <1>6 DEF Resume, ShellExits, OwnTimeout, Store, Drained, EndsWith, Stopped
  <2>3. thread[c] # "queued" /\ (thread[c] = "started" => c \in outlived)
    BY <1>1, <1>6, <2>1 DEF Resume, ShellExits, OwnTimeout, Store, Drained
  <2> QED BY <1>1, <1>3, <2>1, <2>2, <2>3
<1>7. ASSUME NEW c \in Calls, ReceiveStop(c)
      PROVE  ThreadInv'
  <2>1. /\ UNCHANGED script /\ c \in Ids
        /\ thread' = [thread EXCEPT ![c] = IF @ = "queued" THEN "none" ELSE @]
        /\ outlived' = IF thread[c] = "started" THEN outlived \cup {c} ELSE outlived
    BY <1>0, <1>7 DEF ReceiveStop, StopThread
  <2>2. \A d \in Ids \ {c} : task'[d] = task[d]
    BY <1>0, <1>7 DEF ReceiveStop, Stopped, EndsWith
  <2>3. /\ \A d \in Ids \ {c} : thread'[d] = thread[d]
        /\ thread'[c] # "queued" /\ (thread'[c] # "none" => thread'[c] = thread[c])
    BY <1>0, <2>1
  <2>4. outlived \subseteq outlived' /\ (thread'[c] = "started" => c \in outlived')
    BY <2>1, <2>3
  <2> QED BY <1>1, <1>3, <2>1, <2>2, <2>3, <2>4
<1>8. ASSUME NEW c \in Calls, ThreadStarts(c) \/ ThreadFinishes(c) \/ ThreadFails(c)
      PROVE  ThreadInv'
  <2>1. UNCHANGED <<script, task, outlived>> /\ c \in Ids
    BY <1>0, <1>8 DEF ThreadStarts, ThreadFinishes, ThreadFails, loop
  <2>2. /\ \A d \in Ids \ {c} : thread'[d] = thread[d]
        /\ thread'[c] \in {"started", "finished", "failed"} /\ thread[c] \in {"queued", "started"}
        /\ thread'[c] = "started" => thread[c] = "queued"
    BY <1>0, <1>8 DEF ThreadStarts, ThreadFinishes, ThreadFails
  <2> QED BY <1>1, <1>3, <2>1, <2>2
<1>9. ASSUME UNCHANGED <<script, task, thread, outlived>>
      PROVE  ThreadInv'
  BY <1>1, <1>2, <1>9 DEF ThreadInv
<1>10. ASSUME NEW c \in Calls, Deadline(c)
       PROVE  UNCHANGED <<script, task, thread, outlived>>
  BY <1>10 DEF Deadline, loop, work
<1>11. ASSUME NEW r \in Runs, NextBatch(r) \/ Cancel(r) \/ Cancelled(r)
       PROVE  UNCHANGED <<script, task, thread, outlived>>
  BY <1>11 DEF NextBatch, Cancel, Cancelled, work
<1>12. ASSUME UNCHANGED vars
       PROVE  UNCHANGED <<script, task, thread, outlived>>
  BY <1>12 DEF vars, loop, work
<1> QED BY <1>4, <1>5, <1>6, <1>7, <1>8, <1>9, <1>10, <1>11, <1>12 DEF Next, CallStep, Terminated

LEMMA ReplayedAppend ==
  ASSUME NEW h \in Seq(Ids), NEW c \in Ids
  PROVE  Replayed(Append(h, c)) = IF KindOf(c) = "edit" THEN Replayed(h) \cup {c} ELSE {c}
<1> DEFINE t == Append(h, c)
           n == Len(h) + 1
           Kept(s) == {k \in 1 .. Len(s) : \A l \in k + 1 .. Len(s) : KindOf(s[l]) = "edit"}
<1>1. /\ Len(h) \in Nat /\ Len(t) = n /\ t[n] = c
      /\ \A k \in 1 .. Len(h) : t[k] = h[k]
  BY AppendFacts, LenProperties
<1>2. Replayed(t) = {t[k] : k \in Kept(t)} /\ Replayed(h) = {h[k] : k \in Kept(h)}
  BY DEF Replayed
<1> HIDE DEF t
<1>3. n \in Kept(t)
  BY <1>1
<1>4. CASE KindOf(c) = "edit"
  <2>1. ASSUME NEW k \in 1 .. Len(h)
        PROVE  k \in Kept(t) <=> k \in Kept(h)
    <3>1. k + 1 .. n = (k + 1 .. Len(h)) \cup {n}
      <4>1. Len(h) \in Nat /\ n = Len(h) + 1 /\ k \in Nat /\ k <= Len(h)
        BY <1>1
      <4> HIDE DEF n
      <4> QED BY <4>1
    <3>2. (\A l \in k + 1 .. Len(t) : KindOf(t[l]) = "edit")
            <=> (\A l \in k + 1 .. Len(h) : KindOf(h[l]) = "edit")
      BY <1>1, <1>4, <3>1
    <3>3. k \in 1 .. Len(t)
      BY <1>1
    <3> QED BY <3>2, <3>3
  <2>2. \A k \in Kept(t) : k = n \/ k \in 1 .. Len(h)
    BY <1>1
  <2>3. Kept(t) = Kept(h) \cup {n}
    BY <1>3, <2>1, <2>2
  <2>4. \A k \in Kept(h) : t[k] = h[k]
    BY <1>1
  <2> HIDE DEF Kept, n
  <2>5. {t[k] : k \in Kept(h) \cup {n}} = {t[k] : k \in Kept(h)} \cup {t[n]}
    OBVIOUS
  <2>6. {t[k] : k \in Kept(h)} = {h[k] : k \in Kept(h)}
    BY <2>4
  <2>7. Replayed(t) = Replayed(h) \cup {c}
    BY <1>1, <1>2, <2>3, <2>5, <2>6
  <2> QED BY <1>4, <2>7 DEF t
<1>5. CASE KindOf(c) # "edit"
  <2>1. ASSUME NEW k \in Kept(t)
        PROVE  k = n
    <3>1. k \in 1 .. n /\ (n \in k + 1 .. n => KindOf(c) = "edit")
      BY <1>1
    <3> QED BY <1>1, <1>5, <3>1
  <2>2. Kept(t) = {n}
    BY <1>3, <2>1
  <2> HIDE DEF Kept, n
  <2> QED BY <1>1, <1>2, <1>5, <2>2 DEF t
<1> QED BY <1>4, <1>5

\* Two threads that work on the same path for calls that have not ended are one.
LEMMA OneWorker ==
  ASSUME ToolInv, NEW c \in Calls, NEW d \in Calls, Mutating(c), PathOf(c) = PathOf(d),
         Untouched(PathOf(c)), thread[c] = "started", thread[d] = "started"
  PROVE  c = d
<1>1. c \in Ids /\ d \in Ids /\ PathOf(c) \in Paths /\ Mutating(d)
  BY CallFacts DEF ToolInv
<1>2. task[c] = "thread" /\ task[d] = "thread"
  BY <1>1 DEF ToolInv, ThreadInv, Untouched
<1>3. /\ via[c] # None /\ entry[via[c]].holder = c
      /\ via[d] # None /\ entry[via[d]].holder = d
  BY <1>1, <1>2 DEF ToolInv, LockInv, WorkersHold
<1>4. via[c] = via[d]
  BY <1>1, <1>3 DEF ToolInv, LockInv, UsersQueued
<1> QED BY <1>3, <1>4

LEMMA SameReplay ==
  ASSUME UNCHANGED script
  PROVE  \A h : Replayed(h)' = Replayed(h)
BY DEF Replayed, KindOf

LEMMA FilesAlone ==
  ASSUME ToolInv, UNCHANGED <<script, seen, file, history>>, outlived \subseteq outlived',
         \A c \in Calls : thread'[c] = "started" => thread[c] = "started"
  PROVE  SerialInv'
<1>1. /\ Calls' = Calls /\ \A d : KindOf(d)' = KindOf(d) /\ PathOf(d)' = PathOf(d)
      /\ \A h : Replayed(h)' = Replayed(h)
  BY SameScript, SameReplay
<1>2. ASSUME NEW p \in Paths
      PROVE  /\ \A k \in 1 .. Len(history[p]) : history[p][k] \in Calls
             /\ Untouched(p)' =>
                  /\ file[p] = Replayed(history[p])
                  /\ \A c \in Calls : PathOf(c) = p /\ thread'[c] = "started" =>
                       seen[c] = IF KindOf(c) = "edit" THEN file[p] ELSE {}
  <2>1. Untouched(p)' => Untouched(p)
    BY <1>1 DEF Untouched
  <2> QED BY <2>1 DEF ToolInv, SerialInv
<1>3. \A p \in Paths : Replayed(history[p])' = Replayed(history[p])
  BY <1>1
<1> QED BY <1>1, <1>2, <1>3 DEF SerialInv

LEMMA FilesFollow ==
  ASSUME ToolInv, [Next]_vars
  PROVE  SerialInv'
<1>0. /\ TypeOK /\ \A c \in Calls : c \in Ids
      /\ thread \in [Ids -> ThreadStates] /\ seen \in [Ids -> SUBSET Ids]
      /\ file \in [Paths -> SUBSET Ids] /\ history \in [Paths -> Seq(Ids)]
  BY CallFacts DEF ToolInv, TypeOK
<1>1. ASSUME NEW p \in Paths
      PROVE  /\ \A k \in 1 .. Len(history[p]) : history[p][k] \in Calls
             /\ Untouched(p) =>
                  /\ file[p] = Replayed(history[p])
                  /\ \A c \in Calls : PathOf(c) = p /\ thread[c] = "started" =>
                       seen[c] = IF KindOf(c) = "edit" THEN file[p] ELSE {}
  BY DEF ToolInv, SerialInv
<1>2. ASSUME NEW c \in Calls, Start(c) \/ Acquire(c)
      PROVE  SerialInv'
  <2>1. UNCHANGED <<script, seen, file, history, outlived>>
    BY <1>2 DEF Start, Acquire, loop
  <2>2. thread' = thread \/ \E state \in {"queued", thread[c]} : thread' = [thread EXCEPT ![c] = state]
    <3>1. ASSUME EnterLock(c)
          PROVE  \E state \in {"queued", thread[c]} : thread' = [thread EXCEPT ![c] = state]
      <4> DEFINE e == IF queue[PathOf(c)] = None THEN c ELSE queue[PathOf(c)]
                 free == ~Locked(e) /\ entry[e].waiters = <<>>
                 state == IF free THEN "queued" ELSE thread[c]
      <4>1. thread' = [thread EXCEPT ![c] = state]
        BY <3>1, Zenon DEF EnterLock
      <4> HIDE DEF free
      <4> QED BY <4>1
    <3> QED BY <1>2, <3>1 DEF Start, Acquire
  <2>3. \A d \in Calls : thread'[d] = "started" => thread[d] = "started"
    BY <1>0, <2>2
  <2> QED BY <2>1, <2>3, FilesAlone
<1>3. ASSUME NEW c \in Calls, Resume(c) \/ ShellExits(c) \/ OwnTimeout(c) \/ Store(c) \/ Deadline(c)
                                \/ Drained(c)
      PROVE  SerialInv'
  <2>1. UNCHANGED <<script, thread, seen, file, history, outlived>>
    BY <1>3 DEF Resume, ShellExits, OwnTimeout, Store, Deadline, Drained, work, loop
  <2> QED BY <2>1, FilesAlone
<1>4. ASSUME NEW c \in Calls, ReceiveStop(c)
      PROVE  SerialInv'
  <2>1. /\ UNCHANGED <<script, seen, file, history>> /\ outlived \subseteq outlived'
        /\ thread' = [thread EXCEPT ![c] = IF @ = "queued" THEN "none" ELSE @]
    BY <1>4 DEF ReceiveStop, StopThread
  <2>2. \A d \in Calls : thread'[d] = "started" => thread[d] = "started"
    BY <1>0, <2>1
  <2> QED BY <2>1, <2>2, FilesAlone
<1>5. ASSUME NEW c \in Calls, ThreadStarts(c)
      PROVE  SerialInv'
  <2>1. /\ UNCHANGED <<script, file, history, outlived>>
        /\ thread' = [thread EXCEPT ![c] = "started"]
        /\ seen' = [seen EXCEPT ![c] = IF KindOf(c) = "edit" THEN file[PathOf(c)] ELSE {}]
    BY <1>5 DEF ThreadStarts, loop
  <2>2. /\ Calls' = Calls /\ \A d : KindOf(d)' = KindOf(d) /\ PathOf(d)' = PathOf(d)
        /\ \A p \in Paths : Replayed(history[p])' = Replayed(history[p]) /\ Untouched(p)' = Untouched(p)
    <3>1. \A h : Replayed(h)' = Replayed(h)
      BY <2>1, SameReplay
    <3> QED BY <2>1, <3>1, SameScript DEF Untouched
  <2>3. ASSUME NEW p \in Paths, Untouched(p), NEW d \in Calls, PathOf(d) = p, thread'[d] = "started"
        PROVE  seen'[d] = IF KindOf(d) = "edit" THEN file[p] ELSE {}
    <3>1. CASE d = c
      BY <1>0, <2>1, <2>3, <3>1
    <3>2. CASE d # c
      <4>1. thread[d] = "started" /\ seen'[d] = seen[d]
        BY <1>0, <2>1, <2>3, <3>2
      <4> QED BY <1>1, <2>3, <4>1
    <3> QED BY <3>1, <3>2
  <2>4. ASSUME NEW p \in Paths
        PROVE  /\ \A k \in 1 .. Len(history'[p]) : history'[p][k] \in Calls
               /\ Untouched(p) => file'[p] = Replayed(history[p])
    BY <1>1, <2>1
  <2> QED BY <2>1, <2>2, <2>3, <2>4 DEF SerialInv
<1>6. ASSUME NEW c \in Calls, ThreadFinishes(c)
      PROVE  SerialInv'
  <2>1. /\ UNCHANGED <<script, seen, outlived>> /\ thread[c] = "started"
        /\ thread' = [thread EXCEPT ![c] = "finished"]
    BY <1>6 DEF ThreadFinishes, loop
  <2>2. \A d \in Calls : thread'[d] = "started" => d # c /\ thread[d] = "started"
    BY <1>0, <2>1
  <2>3. CASE KindOf(c) = "read"
    <3>1. UNCHANGED <<file, history>>
      BY <1>6, <2>3 DEF ThreadFinishes
    <3> QED BY <2>1, <2>2, <3>1, FilesAlone
  <2>4. CASE KindOf(c) # "read"
    <3>0. Mutating(c) /\ c \in Ids /\ PathOf(c) \in Paths
      BY <1>0, <2>1, <2>4, CallFacts DEF ToolInv, ThreadInv, Mutating
    <3>1. /\ file' = [file EXCEPT ![PathOf(c)] = seen[c] \cup {c}]
          /\ history' = [history EXCEPT ![PathOf(c)] = Append(@, c)]
      BY <1>6, <2>4 DEF ThreadFinishes
    <3>2. /\ Calls' = Calls /\ \A d : KindOf(d)' = KindOf(d) /\ PathOf(d)' = PathOf(d)
          /\ \A h : Replayed(h)' = Replayed(h)
          /\ \A p \in Paths : Untouched(p)' = Untouched(p)
      BY <2>1, SameScript, SameReplay DEF Untouched
    <3>3. ASSUME NEW p \in Paths
          PROVE  \A k \in 1 .. Len(history'[p]) : history'[p][k] \in Calls
      <4>1. CASE p = PathOf(c)
        <5>1. /\ history'[p] = Append(history[p], c) /\ history[p] \in Seq(Ids)
          BY <1>0, <3>1, <4>1
        <5>2. /\ Len(history'[p]) = Len(history[p]) + 1 /\ Len(history[p]) \in Nat
              /\ \A k \in 1 .. Len(history[p]) : history'[p][k] = history[p][k]
              /\ history'[p][Len(history[p]) + 1] = c
          BY <3>0, <5>1, AppendFacts, LenProperties
        <5>3. \A k \in 1 .. Len(history'[p]) : k \in 1 .. Len(history[p]) \/ k = Len(history[p]) + 1
          BY <5>2
        <5> QED BY <1>1, <5>2, <5>3
      <4>2. CASE p # PathOf(c)
        BY <1>0, <1>1, <3>1, <4>2
      <4> QED BY <4>1, <4>2
    <3>4. ASSUME NEW p \in Paths, Untouched(p)
          PROVE  file'[p] = Replayed(history'[p])
      <4>1. CASE p = PathOf(c)
        <5>1. seen[c] = IF KindOf(c) = "edit" THEN Replayed(history[p]) ELSE {}
          BY <1>1, <2>1, <3>4, <4>1
        <5>2. /\ file'[p] = seen[c] \cup {c} /\ history'[p] = Append(history[p], c)
              /\ history[p] \in Seq(Ids)
          BY <1>0, <3>1, <4>1
        <5>3. Replayed(history'[p]) = IF KindOf(c) = "edit" THEN Replayed(history[p]) \cup {c} ELSE {c}
          BY <3>0, <5>2, ReplayedAppend
        <5> QED BY <5>1, <5>2, <5>3
      <4>2. CASE p # PathOf(c)
        BY <1>0, <1>1, <3>1, <3>4, <4>2
      <4> QED BY <4>1, <4>2
    <3>5. ASSUME NEW p \in Paths, Untouched(p), NEW d \in Calls, PathOf(d) = p, thread'[d] = "started"
          PROVE  seen[d] = IF KindOf(d) = "edit" THEN file'[p] ELSE {}
      <4>1. d # c /\ thread[d] = "started"
        BY <2>2, <3>5
      <4>2. p # PathOf(c)
        BY <2>1, <3>0, <3>5, <4>1, OneWorker
      <4>3. file'[p] = file[p]
        BY <1>0, <3>1, <4>2
      <4> QED BY <1>1, <3>5, <4>1, <4>3
    <3>6. \A p \in Paths : Replayed(history[p])' = Replayed(history'[p])
      BY <3>2 DEF Replayed
    <3> QED BY <2>1, <3>2, <3>3, <3>4, <3>5, <3>6 DEF SerialInv
  <2> QED BY <2>3, <2>4
<1>7. ASSUME NEW c \in Calls, ThreadFails(c)
      PROVE  SerialInv'
  <2>1. /\ UNCHANGED <<script, seen, file, history, outlived>>
        /\ thread' = [thread EXCEPT ![c] = "failed"]
    BY <1>7 DEF ThreadFails, loop
  <2>2. \A d \in Calls : thread'[d] = "started" => thread[d] = "started"
    BY <1>0, <2>1
  <2> QED BY <2>1, <2>2, FilesAlone
<1>8. ASSUME NEW r \in Runs, NextBatch(r) \/ Cancel(r) \/ Cancelled(r)
      PROVE  SerialInv'
  <2>1. UNCHANGED <<script, thread, seen, file, history, outlived>>
    BY <1>8 DEF NextBatch, Cancel, Cancelled, work
  <2> QED BY <2>1, FilesAlone
<1>9. CASE UNCHANGED vars
  <2>1. UNCHANGED <<script, thread, seen, file, history, outlived>>
    BY <1>9 DEF vars, loop, work
  <2> QED BY <2>1, FilesAlone
<1> QED BY <1>2, <1>3, <1>4, <1>5, <1>6, <1>7, <1>8, <1>9 DEF Next, CallStep, Terminated

--------------------------------------------------------------------------------
(* The invariant holds *)

LEMMA InitInv ==
  ASSUME Init
  PROVE  ToolInv
<1>0. /\ script \in Scripts /\ pc = [r \in Runs |-> "running"] /\ at = [r \in Runs |-> 0]
      /\ results = [r \in Runs |-> <<>>] /\ task = [c \in Ids |-> "idle"]
      /\ stop = [c \in Ids |-> "no"] /\ thread = [c \in Ids |-> "none"] /\ seen = [c \in Ids |-> {}]
      /\ file = [p \in Paths |-> {}] /\ queue = [p \in Paths |-> None]
      /\ entry = [c \in Ids |-> NoEntry] /\ via = [c \in Ids |-> None]
      /\ history = [p \in Paths |-> <<>>] /\ outlived = {}
  BY DEF Init
<1>1. TypeOK
  <2>1. NoEntry \in Entries
    BY DEF NoEntry, Entries
  <2>2. /\ results \in [Runs -> Seq([call : Nat, status : Statuses])]
        /\ history \in [Paths -> Seq(Ids)]
    BY <1>0
  <2>3. pc \in [Runs -> RunStates] /\ at \in [Runs -> Nat] /\ task \in [Ids -> TaskStates]
    BY <1>0 DEF RunStates, TaskStates
  <2>4. stop \in [Ids -> {"no", "timeout", "cancel"}] /\ thread \in [Ids -> ThreadStates]
    BY <1>0 DEF ThreadStates
  <2>5. /\ seen \in [Ids -> SUBSET Ids] /\ file \in [Paths -> SUBSET Ids]
        /\ queue \in [Paths -> Ids \cup {None}] /\ via \in [Ids -> Ids \cup {None}] /\ outlived \subseteq Ids
    BY <1>0
  <2>6. entry \in [Ids -> Entries]
    BY <1>0, <2>1
  <2> QED BY <1>0, <2>2, <2>3, <2>4, <2>5, <2>6 DEF TypeOK
<1>2. /\ \A c \in Calls : c \in Ids /\ c[1] \in Runs /\ c[2] \in Nat \ {0}
      /\ \A r \in Runs : /\ Len(script[r]) \in Nat
                         /\ \A i \in 1 .. Len(script[r]) : <<r, i>> \in Ids
  <2>1. ASSUME NEW r \in Runs
        PROVE  script[r] \in Seq(Call) /\ Len(script[r]) \in Nat
    BY <1>0, ToolAssumption, LenProperties
  <2>2. ASSUME NEW c \in Calls
        PROVE  c \in Ids /\ c[1] \in Runs /\ c[2] \in Nat \ {0}
    <3>1. c \in Ids /\ c[1] \in Runs /\ c[2] \in 1 .. Len(script[c[1]])
      BY <1>1, CallFacts
    <3> QED BY <2>1, <3>1
  <2> QED BY <1>1, <2>1, <2>2, CallIs
<1>3. BatchInv
  <2>1. \A r \in Runs : BatchOf(r) = {}
    BY <1>0 DEF BatchOf
  <2>2. AtBatch /\ StopsInBatch
    BY <1>0, <1>2 DEF AtBatch, StopsInBatch
  <2>3. EndedRuns
    BY <1>0 DEF EndedRuns
  <2> QED BY <2>2, <2>3 DEF BatchInv
<1>4. ResultInv
  BY <1>0, <1>2 DEF ResultInv
<1>5. LockInv
  <2>1. None \notin Ids
    BY ToolAssumption DEF Ids
  <2>2. UsersQueued /\ EntriesUsed /\ HolderWorks /\ WaitersWait
    BY <1>0 DEF UsersQueued, EntriesUsed, HolderWorks, WaitersWait, NoEntry
  <2>3. WaitersListed /\ WorkersHold
    BY <1>0, <1>2 DEF WaitersListed, WorkersHold
  <2>4. UsersCounted
    <3>1. \A e \in Ids : UsersOf(e) = {}
      BY <1>0, <2>1 DEF UsersOf
    <3> QED BY <1>0, <3>1, FS_EmptySet DEF UsersCounted, NoEntry
  <2> QED BY <2>2, <2>3, <2>4 DEF LockInv
<1>6. ThreadInv
  BY <1>0 DEF ThreadInv
<1>7. SerialInv
  BY <1>0, <1>2 DEF SerialInv, Replayed
<1> QED BY <1>1, <1>3, <1>4, <1>5, <1>6, <1>7 DEF ToolInv

LEMMA BatchesFollow ==
  ASSUME ToolInv, [Next]_vars
  PROVE  BatchInv'
<1>0. TypeOK /\ BatchInv
  BY DEF ToolInv
<1>1. ASSUME NEW c \in Calls, CallFrame(c)
      PROVE  BatchInv'
  BY <1>0, <1>1, FramedBatch
<1>2. ASSUME NEW c \in Calls, ThreadStarts(c) \/ ThreadFinishes(c) \/ ThreadFails(c)
      PROVE  BatchInv'
  BY <1>0, <1>2, ThreadFrames, ThreadsBatch
<1>3. CASE UNCHANGED vars
  <2>1. ThreadFrame
    BY <1>3 DEF vars, ThreadFrame
  <2> QED BY <1>0, <2>1, ThreadsBatch
<1>4. ASSUME NEW r \in Runs, NextBatch(r) \/ Cancel(r) \/ Cancelled(r)
      PROVE  BatchInv'
  BY <1>0, <1>4, AdvanceBatch, CancelBatch
<1> QED BY <1>1, <1>2, <1>3, <1>4, StartFrames, MoveFrames, StopFrames DEF Next, CallStep, Terminated

LEMMA ResultsFollow ==
  ASSUME ToolInv, [Next]_vars
  PROVE  ResultInv'
<1>1. ASSUME NEW c \in Calls, CallFrame(c), ResultFrame(c)
      PROVE  ResultInv'
  BY <1>1, FramedResults
<1>2. ASSUME NEW c \in Calls, ThreadStarts(c) \/ ThreadFinishes(c) \/ ThreadFails(c)
      PROVE  ResultInv'
  <2>1. UNCHANGED <<script, results, task, pc, stop>>
    BY <1>2 DEF ThreadStarts, ThreadFinishes, ThreadFails, loop
  <2> QED BY <2>1, RestOfResults
<1>3. CASE UNCHANGED vars
  <2>1. UNCHANGED <<script, results, task, pc, stop>>
    BY <1>3 DEF vars, loop
  <2> QED BY <2>1, RestOfResults
<1>4. ASSUME NEW r \in Runs, NextBatch(r) \/ Cancel(r) \/ Cancelled(r)
      PROVE  ResultInv'
  <2>0. /\ UNCHANGED <<script, results, task>> /\ pc \in [Runs -> RunStates]
        /\ stop \in [Ids -> {"no", "timeout", "cancel"}]
    BY <1>4 DEF NextBatch, Cancel, Cancelled, ToolInv, TypeOK
  <2>1. CASE NextBatch(r) \/ Cancelled(r)
    <3>1. /\ stop' = stop
          /\ \A q \in Runs : pc'[q] \in {"running", "done"} => pc[q] \in {"running", "done"}
      BY <2>0, <2>1 DEF NextBatch, Cancelled
    <3> QED BY <2>0, <3>1, RestOfResults
  <2>2. CASE Cancel(r)
    <3>1. /\ pc' = [pc EXCEPT ![r] = "cancelling"]
          /\ stop' = [c \in Ids |-> IF c \in BatchOf(r) /\ task[c] # "ended" THEN "cancel" ELSE stop[c]]
      BY <2>2 DEF Cancel
    <3>2. ASSUME NEW q \in Runs, pc'[q] \in {"running", "done"}
          PROVE  /\ pc[q] \in {"running", "done"}
                 /\ \A i \in 1 .. Len(script[q]) : stop'[<<q, i>>] = "cancel" => stop[<<q, i>>] = "cancel"
      <4>1. q # r /\ pc[q] = pc'[q]
        BY <2>0, <3>1, <3>2
      <4>2. ASSUME NEW i \in 1 .. Len(script[q])
            PROVE  stop'[<<q, i>>] = stop[<<q, i>>]
        <5>1. <<q, i>> \in Ids
          BY CallIs DEF ToolInv
        <5>2. <<q, i>> \notin BatchOf(r)
          BY <4>1, BatchIsCalls DEF ToolInv
        <5> QED BY <3>1, <5>1, <5>2
      <4> QED BY <3>2, <4>1, <4>2
    <3> QED BY <2>0, <3>2, RestOfResults
  <2> QED BY <1>4, <2>1, <2>2
<1> QED BY <1>1, <1>2, <1>3, <1>4, StartFrames, MoveFrames, StopFrames DEF Next, CallStep, Terminated

LEMMA LocksFollow ==
  ASSUME ToolInv, [Next]_vars
  PROVE  LockInv'
<1>0. TypeOK /\ \A c \in Calls : c \in Ids
  BY CallFacts DEF ToolInv
<1>1. \A d \in Ids : via[d] # None => d \in Calls /\ Mutating(d) /\ task[d] \in {"waiting", "thread"}
  BY DEF ToolInv, LockInv, UsersQueued
\* A call that uses no lock moves, but neither waits for a lock nor works under one.
<1>2. ASSUME UNCHANGED <<script, locks>>, NEW c \in Calls, via[c] = None,
             \A d \in Ids \ {c} : task'[d] = task[d],
             task'[c] # "waiting", task'[c] = "thread" => ~Mutating(c)
      PROVE  LockInv'
  <2>1. \A d \in Ids : via[d] # None => d # c /\ task'[d] = task[d]
    BY <1>2
  <2>2. ASSUME NEW d \in Calls
        PROVE  /\ task'[d] = "waiting" => task[d] = "waiting"
               /\ task'[d] = "thread" /\ Mutating(d) => task[d] = "thread"
    BY <1>0, <1>2
  <2> QED BY <1>2, <2>1, <2>2, LocksAlone
<1>3. ASSUME UNCHANGED <<script, locks, task>>
      PROVE  LockInv'
  BY <1>3, LocksAlone
<1>4. ASSUME NEW c \in Calls, Start(c)
      PROVE  LockInv'
  <2>0. /\ UNCHANGED script /\ task[c] = "idle" /\ via[c] = None /\ c \in Ids
        /\ task \in [Ids -> TaskStates]
    BY <1>0, <1>1, <1>4 DEF Start, TypeOK
  <2>1. CASE EnterLock(c) /\ KindOf(c) \in {"write", "edit"}
    <3> DEFINE e == IF queue[PathOf(c)] = None THEN c ELSE queue[PathOf(c)]
    <3>1. PICK x : x = e
      OBVIOUS
    <3> QED BY <2>0, <2>1, <3>1, EnterKeeps DEF Mutating
  <2>2. CASE UNCHANGED locks /\ KindOf(c) \notin {"write", "edit"} /\
             \E state \in {"ended", "thread", "shell", "timed_shell"} : task' = [task EXCEPT ![c] = state]
    BY <1>2, <2>0, <2>2 DEF Mutating
  <2>3. CASE UNCHANGED locks /\ EndsWith(c, "failed")
    <3>1. task' = [task EXCEPT ![c] = "ended"]
      BY <2>3 DEF EndsWith
    <3> QED BY <1>2, <2>0, <2>3, <3>1
  <2> QED BY <1>4, <2>1, <2>2, <2>3 DEF Start
<1>5. ASSUME NEW c \in Calls, Acquire(c)
      PROVE  LockInv'
  <2>1. PICK e : e = via[c]
    OBVIOUS
  <2> QED BY <1>5, <2>1, AcquireKeeps
\* A call ends, leaving its lock if it has one.
<1>6. ASSUME UNCHANGED script, NEW c \in Calls, LeaveLockIfAny(c),
             \A d \in Ids \ {c} : task'[d] = task[d],
             via[c] # None => task'[c] = "ended",
             task'[c] \notin {"waiting", "thread"}
      PROVE  LockInv'
  <2>1. CASE via[c] = None
    BY <1>2, <1>6, <2>1 DEF LeaveLockIfAny
  <2>2. CASE via[c] # None
    <3>1. PICK e : e = via[c]
      OBVIOUS
    <3> QED BY <1>6, <2>2, <3>1, LeaveKeeps DEF LeaveLockIfAny
  <2> QED BY <2>1, <2>2
<1>7. ASSUME NEW c \in Calls, Resume(c)
      PROVE  LockInv'
  <2>1. /\ UNCHANGED script /\ LeaveLockIfAny(c) /\ c \in Ids
        /\ task' = [task EXCEPT ![c] = "ended"] /\ task \in [Ids -> TaskStates]
    BY <1>0, <1>7 DEF Resume, EndsWith, TypeOK
  <2> QED BY <1>6, <2>1
<1>8. ASSUME NEW c \in Calls, ReceiveStop(c)
      PROVE  LockInv'
  <2>1. UNCHANGED script /\ LeaveLockIfAny(c) /\ c \in Ids /\ task \in [Ids -> TaskStates]
    BY <1>0, <1>8 DEF ReceiveStop, TypeOK
  <2>2. \/ task[c] = "timed_shell" /\ \E state \in {"drain_timeout", "drain_cancel"} :
                                        task' = [task EXCEPT ![c] = state]
        \/ task' = [task EXCEPT ![c] = "ended"]
    BY <1>8 DEF ReceiveStop, Stopped, EndsWith
  <2> QED BY <1>1, <1>6, <2>1, <2>2
<1>9. ASSUME NEW c \in Calls, ShellExits(c) \/ OwnTimeout(c) \/ Store(c) \/ Drained(c)
      PROVE  LockInv'
  <2>1. /\ UNCHANGED <<script, locks>> /\ c \in Ids /\ task \in [Ids -> TaskStates]
        /\ task[c] \notin {"waiting", "thread"}
    BY <1>0, <1>9 DEF ShellExits, OwnTimeout, Store, Drained, loop, TypeOK
  <2>2. \E state \in {"ended", "storing", "killed"} : task' = [task EXCEPT ![c] = state]
    BY <1>9 DEF ShellExits, OwnTimeout, Store, Drained, EndsWith, Stopped
  <2> QED BY <1>1, <1>2, <2>1, <2>2
<1>10. ASSUME NEW c \in Calls, Deadline(c) \/ ThreadStarts(c) \/ ThreadFinishes(c) \/ ThreadFails(c)
       PROVE  LockInv'
  <2>1. UNCHANGED <<script, locks, task>>
    BY <1>10 DEF Deadline, ThreadStarts, ThreadFinishes, ThreadFails, loop
  <2> QED BY <1>3, <2>1
<1>11. ASSUME NEW r \in Runs, NextBatch(r) \/ Cancel(r) \/ Cancelled(r)
       PROVE  LockInv'
  <2>1. UNCHANGED <<script, locks, task>>
    BY <1>11 DEF NextBatch, Cancel, Cancelled
  <2> QED BY <1>3, <2>1
<1>12. CASE UNCHANGED vars
  <2>1. UNCHANGED <<script, locks, task>>
    BY <1>12 DEF vars, loop
  <2> QED BY <1>3, <2>1
<1> QED BY <1>4, <1>5, <1>7, <1>8, <1>9, <1>10, <1>11, <1>12 DEF Next, CallStep, Terminated

LEMMA Invariance == Spec => []ToolInv
<1>1. Init => ToolInv
  BY InitInv
<1>2. ToolInv /\ [Next]_vars => ToolInv'
  BY TypesHold, BatchesFollow, ResultsFollow, LocksFollow, ThreadsFollow, FilesFollow DEF ToolInv
<1> QED BY <1>1, <1>2, PTL DEF Spec

--------------------------------------------------------------------------------
(* Theorems *)

\* Every variable keeps its type.
THEOREM TypeCorrect == Spec => []TypeOK
BY Invariance, PTL DEF ToolInv

\* A sequential call starts when all before it have ended, and nothing behind it starts
\* before it has ended.
THEOREM BarrierIsHeld == Spec => []BarrierHeld
<1>1. ToolInv => BarrierHeld
  <2> SUFFICES ASSUME ToolInv, NEW r \in Runs, NEW i \in 1 .. Len(script[r]), NEW j \in 1 .. Len(script[r]),
                      i < j, task[<<r, j>>] # "idle", task[<<r, i>>] # "ended"
               PROVE  ParallelSafe(script[r][i]) /\ ParallelSafe(script[r][j])
    BY DEF BarrierHeld
  <2>0. /\ script[r] \in Seq(Call) /\ at[r] \in Nat
    BY ToolAssumption DEF ToolInv, TypeOK
  <2>1. /\ ~(i < at[r]) /\ (j < at[r] \/ <<r, j>> \in BatchOf(r))
    BY CallIs DEF ToolInv, BatchInv, AtBatch
  <2>2. <<r, j>> \in BatchOf(r)
    BY <2>0, <2>1
  <2>3. j \in Batch(script[r], at[r]) /\ at[r] > 0
    BY <2>2, BatchIsCalls DEF ToolInv
  <2>4. ASSUME NEW k \in at[r] + 1 .. j
        PROVE  ParallelSafe(script[r][k - 1]) /\ ParallelSafe(script[r][k])
    BY <2>0, <2>3 DEF Batch, Begins
  <2>5. j \in at[r] + 1 .. j /\ i + 1 \in at[r] + 1 .. j /\ (i + 1) - 1 = i
    BY <2>0, <2>1
  <2> QED BY <2>4, <2>5
<1> QED BY <1>1, Invariance, PTL

\* No call of a run goes on after the run, whichever way it ended.
THEOREM NothingOutlives == Spec => []NoneOutlives
<1>1. ToolInv => NoneOutlives
  <2> SUFFICES ASSUME ToolInv, NEW r \in Runs, Ended(r), NEW c \in CallsOf(r)
               PROVE  task[c] \in {"idle", "ended"}
    BY DEF NoneOutlives
  <2>1. c \in Calls /\ c[1] = r
    BY CallIs DEF CallsOf, ToolInv
  <2>2. CASE pc[r] = "done"
    BY <2>2 DEF ToolInv, BatchInv, EndedRuns
  <2>3. CASE pc[r] = "cancelled"
    <3>1. BatchEnded(r)
      BY <2>3 DEF ToolInv, BatchInv, EndedRuns
    <3> QED BY <2>1, <3>1, MovingInBatch DEF ToolInv, BatchEnded
  <2> QED BY <2>2, <2>3 DEF Ended
<1> QED BY <1>1, Invariance, PTL

\* A run that was not cancelled has exactly one result for each call of its turn.
THEOREM ResultsAreComplete == Spec => []ResultsComplete
<1>1. ToolInv => ResultsComplete
  <2> SUFFICES ASSUME ToolInv, NEW r \in Runs, pc[r] = "done"
               PROVE  /\ Len(results[r]) = Len(script[r])
                      /\ {results[r][k].call : k \in 1 .. Len(results[r])} = 1 .. Len(script[r])
    BY DEF ResultsComplete
  <2> DEFINE n == Len(results[r])
             m == Len(script[r])
             f == [k \in 1 .. n |-> results[r][k].call]
  <2>1. n \in Nat /\ m \in Nat
    <3>1. script[r] \in Seq(Call)
      BY ToolAssumption DEF ToolInv, TypeOK
    <3>2. results[r] \in Seq([call : Nat, status : Statuses])
      BY DEF ToolInv, TypeOK
    <3> QED BY <3>1, <3>2, LenProperties
  <2>2. \A k \in 1 .. n : /\ results[r][k].call \in 1 .. m
                          /\ \A l \in 1 .. n : results[r][k].call = results[r][l].call => k = l
    BY DEF ToolInv, ResultInv
  <2>3. ASSUME NEW i \in 1 .. m
        PROVE  \E k \in 1 .. n : results[r][k].call = i
    <3>1. task[<<r, i>>] = "ended"
      BY CallIs DEF ToolInv, BatchInv, EndedRuns
    <3> QED BY <3>1 DEF ToolInv, ResultInv
  <2> HIDE DEF n, m
  <2>4. f \in Injection(1 .. n, 1 .. m)
    BY <2>2 DEF Injection, IsInjective
  <2>5. f \in Surjection(1 .. n, 1 .. m)
    BY <2>2, <2>3 DEF Surjection
  <2>6. IsFiniteSet(1 .. m) /\ Cardinality(1 .. m) = m /\ Cardinality(1 .. n) = n
    BY <2>1, FS_Interval
  <2> HIDE DEF f
  <2>7. n = m
    BY <2>4, <2>5, <2>6, FS_Injection
  <2>8. {results[r][k].call : k \in 1 .. n} = 1 .. m
    BY <2>2, <2>3
  <2> QED BY <2>7, <2>8 DEF n, m
<1> QED BY <1>1, Invariance, PTL

\* The queue holds no entry that nobody uses.
THEOREM QueueIsEmptied == Spec => []QueueEmptied
<1>1. ToolInv => QueueEmptied
  BY DEF ToolInv, LockInv, EntriesUsed, QueueEmptied
<1> QED BY <1>1, Invariance, PTL

\* A file's text is what its mutations make of it one after the other, as long as no
\* thread has outlived its call.
THEOREM EffectsAreSerial == Spec => []SerialEffect
<1>1. ToolInv => SerialEffect
  BY DEF ToolInv, SerialInv, SerialEffect, Untouched
<1> QED BY <1>1, Invariance, PTL

================================================================================
