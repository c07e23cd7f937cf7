----------------------------- MODULE SessionLog -----------------------------
(***************************************************************************)
(* One Session in JsonlSessionStore: the live Session object with its      *)
(* unpersisted events, and the append-only file it is replayed from.  The  *)
(* process may die or lose power at any time, also in the middle of a      *)
(* save, and a save may raise before, during or after its write.           *)
(*                                                                         *)
(* Every public operation is synchronous and ends in save(), so one action *)
(* is one operation.  The header line is written together with the first   *)
(* records by an atomic rename and is left out.                            *)
(***************************************************************************)
EXTENDS Integers, SequencesExt

CONSTANTS
  Faults,    \* which of PossibleFaults may happen
  Texts,     \* content: "plain", or "separator" if str.splitlines would split it
  MaxEvents  \* bound: events ever created

PossibleFaults == {"crash", "power_loss", "clean_error", "short_write", "sync_error"}

ASSUME LogAssumption ==
  /\ Faults \subseteq PossibleFaults
  /\ Texts \subseteq {"plain", "separator"}
  /\ MaxEvents \in Nat

VARIABLES
  file,       \* the Session's .jsonl file
  session,    \* the live Session cached by the store
  tracked,    \* its _unpersisted_events
  issued,     \* history variable: events created so far; numbers the next one
  confirmed,  \* history variable: events whose save() returned
  refused     \* history variable: events rolled back because save() raised

vars == <<file, session, tracked, issued, confirmed, refused>>

-----------------------------------------------------------------------------
(* Session and its reducer *)

\* Events carry the number they were created with.  An input is named by the
\* event that enqueued it, a committed turn (a chain of entries) by its position
\* in entries, a summary by its position in summaries; 0 is None.
Enqueued(n, text) == [id |-> n, op |-> "input_enqueued", text |-> text]
Edited(n, text, input, rev) ==
  [id |-> n, op |-> "input_edited", text |-> text, input |-> input, rev |-> rev]
Committed(n, text, base, consumed) ==
  [id |-> n, op |-> "turn_committed", text |-> text, base |-> base, consumed |-> consumed]
Moved(n, from, to) ==
  [id |-> n, op |-> "leaf_changed", text |-> "plain", from |-> from, to |-> to]
Summarised(n, text, source, covered, previous) ==
  [id |-> n, op |-> "context_summary_created", text |-> text,
   source |-> source, covered |-> covered, previous |-> previous]

EmptySession == [pending |-> <<>>, entries |-> <<>>, leaf |-> 0, summaries |-> <<>>]
NotLoaded == [EmptySession EXCEPT !.leaf = -1]

Inputs(items) == {items[k].id : k \in DOMAIN items}
CommittedInputs(s) == UNION {s.entries[n].inputs : n \in DOMAIN s.entries}

\* _path_ids: the branch that ends in entry n.
Branch(s, n) ==
  LET up[k \in 0..Len(s.entries)] == IF k = 0 THEN {} ELSE {k} \cup up[s.entries[k].parent]
  IN up[n]

\* The conflict checks of the _apply_* methods.
Accepts(s, e) ==
  CASE e.op = "input_enqueued" ->
         e.id \notin Inputs(s.pending) \cup CommittedInputs(s)
    [] e.op = "input_edited" ->
         [id |-> e.input, rev |-> e.rev] \in Range(s.pending)
    [] e.op = "turn_committed" ->
         /\ s.leaf = e.base
         /\ IsPrefix(e.consumed, s.pending)
         /\ Inputs(e.consumed) \cap CommittedInputs(s) = {}
    [] e.op = "leaf_changed" ->
         s.leaf = e.from /\ e.to \in 0..Len(s.entries)
    [] e.op = "context_summary_created" ->
         /\ e.source \in DOMAIN s.entries
         /\ e.covered \in Branch(s, e.source)
         /\ e.previous # 0 =>
              /\ e.previous \in DOMAIN s.summaries
              /\ s.summaries[e.previous] \in Branch(s, e.source)
              /\ s.summaries[e.previous] <= e.covered

\* apply_event for an event the Session accepts.
Reduce(s, e) ==
  CASE e.op = "input_enqueued" ->
         [s EXCEPT !.pending = Append(@, [id |-> e.id, rev |-> 1])]
    [] e.op = "input_edited" ->
         [s EXCEPT !.pending = [k \in DOMAIN @ |->
            IF @[k].id = e.input THEN [id |-> e.input, rev |-> e.rev + 1] ELSE @[k]]]
    [] e.op = "turn_committed" ->
         [s EXCEPT !.pending = SubSeq(@, Len(e.consumed) + 1, Len(@)),
                   !.entries = Append(@, [parent |-> e.base, inputs |-> Inputs(e.consumed)]),
                   !.leaf = Len(s.entries) + 1]
    [] e.op = "leaf_changed" -> [s EXCEPT !.leaf = e.to]
    [] e.op = "context_summary_created" -> [s EXCEPT !.summaries = Append(@, e.covered)]

-----------------------------------------------------------------------------
(* The file *)

\* lines are its complete lines, torn tells whether bytes without a newline
\* follow; the first synced lines survive a power loss, and the file itself
\* does if its name was synced with the directory.
NoFile == [exists |-> FALSE, named |-> FALSE, lines |-> <<>>, torn |-> FALSE, synced |-> 0]
NewFile(records, named) ==
  [exists |-> TRUE, named |-> named, lines |-> records, torn |-> FALSE, synced |-> Len(records)]

\* A line that is no record: a torn record with the next one behind it.
Garbage == [id |-> 0, op |-> "garbage"]

\* The complete lines once the first k of records are appended.
LinesAfter(records, k) ==
  IF file.torn /\ k > 0 THEN file.lines \o <<Garbage>> \o SubSeq(records, 2, k)
                        ELSE file.lines \o SubSeq(records, 1, k)

\* The file after an append that wrote k of records, and a part of the next.
Appended(records, k, torn) ==
  [file EXCEPT !.lines = LinesAfter(records, k), !.torn = torn]

\* An append that stops before its end.
StopsEarly(records) ==
  \E k \in 0..(Len(records) - 1), torn \in BOOLEAN :
    /\ k = 0 /\ file.torn => torn
    /\ file' = Appended(records, k, torn)

WriteAll(records) ==
  IF file.exists THEN Appended(records, Len(records), FALSE) ELSE NewFile(records, FALSE)

\* The Session behind the events of lines.
Replay(lines) ==
  LET after[n \in 0..Len(lines)] ==
        IF n = 0 THEN EmptySession ELSE Reduce(after[n - 1], lines[n])
  IN after[Len(lines)]

\* _read succeeds: every line is one record with a new id, and the Session
\* replayed from the lines before accepts it.
Readable(lines) ==
  \A n \in DOMAIN lines :
    /\ lines[n] # Garbage
    /\ lines[n].text = "plain"
    /\ \A k \in 1..(n - 1) : lines[k].id # lines[n].id
    /\ Accepts(Replay(SubSeq(lines, 1, n - 1)), lines[n])

-----------------------------------------------------------------------------
(* save() of the records of all unpersisted events *)

\* Faulty variant: the append is not synced.
ReturnsUnsynced(records) == file' = WriteAll(records)

\* The syncs succeeded.  That syncing a file also keeps its name, where the
\* directory's sync had failed before, is a property of journaling file systems.
SaveReturns(records) ==
  file' = [WriteAll(records) EXCEPT !.named = TRUE, !.synced = Len(WriteAll(records).lines)]

\* SessionStorageError before the write, within it, or from a sync behind it.
SaveRaises(records) ==
  \/ "clean_error" \in Faults /\ UNCHANGED file
  \/ "short_write" \in Faults /\ file.exists /\ StopsEarly(records)
  \/ "sync_error" \in Faults /\ file' = WriteAll(records)

\* The process dies within save().
SaveDies(records) ==
  /\ "crash" \in Faults
  /\ \/ UNCHANGED file
     \/ file.exists /\ StopsEarly(records)
     \/ file' = WriteAll(records)
  /\ session' = NotLoaded /\ tracked' = <<>>

\* Faulty variant: the events stay marked as unpersisted.
KeepTracked(records) == records

\* mark_events_persisted
MarkPersisted(records) == <<>>

\* rollback_on_error surrounds edits and commits; the other operations leave
\* their event in the Session and among its unpersisted events.
RollsBack(e) == e.op \in {"input_edited", "turn_committed"}

\* Faulty variant: the event list is not restored.
KeepFailedEvent(e) == Append(tracked, e)

TrackedAfterError(e) == IF RollsBack(e) THEN tracked ELSE Append(tracked, e)

\* An operation of the live Session: one event, then save().
Perform(e) ==
  /\ session # NotLoaded
  /\ issued < MaxEvents /\ issued' = issued + 1
  /\ Accepts(session, e)
  /\ LET records == Append(tracked, e) IN
     \/ /\ SaveReturns(records)
        /\ session' = Reduce(session, e)
        /\ tracked' = MarkPersisted(records)
        /\ confirmed' = confirmed \cup Range(records)
        /\ UNCHANGED refused
     \/ /\ SaveRaises(records)
        /\ session' = IF RollsBack(e) THEN session ELSE Reduce(session, e)
        /\ tracked' = TrackedAfterError(e)
        /\ refused' = IF RollsBack(e) THEN refused \cup {e} ELSE refused
        /\ UNCHANGED confirmed
     \/ /\ SaveDies(records)
        /\ UNCHANGED <<confirmed, refused>>

-----------------------------------------------------------------------------
(* Operations *)

Enqueue(text) == Perform(Enqueued(issued + 1, text))

EditPending(k, text) ==
  Perform(Edited(issued + 1, text, session.pending[k].id, session.pending[k].rev))

CommitWorkingMessages(k, text) ==
  Perform(Committed(issued + 1, text, session.leaf, SubSeq(session.pending, 1, k)))

Checkout(n) ==
  /\ n # session.leaf
  /\ Perform(Moved(issued + 1, session.leaf, n))

RecordContextSummary(covered, previous, text) ==
  Perform(Summarised(issued + 1, text, session.leaf, covered, previous))

\* enqueue of a source id that is still queued creates no event, but saves what
\* an earlier error has left unpersisted.
Resubmit ==
  /\ session # NotLoaded /\ session.pending # <<>> /\ tracked # <<>>
  /\ \/ /\ SaveReturns(tracked)
        /\ tracked' = MarkPersisted(tracked)
        /\ confirmed' = confirmed \cup Range(tracked)
        /\ UNCHANGED session
     \/ /\ SaveRaises(tracked)
        /\ UNCHANGED <<session, tracked, confirmed>>
     \/ /\ SaveDies(tracked)
        /\ UNCHANGED confirmed
  /\ UNCHANGED <<issued, refused>>

\* Faulty variant: torn bytes are left.
KeepTornBytes == file

\* _read_complete_content: torn bytes are cut off, and the cut is synced.
CompleteContent ==
  IF file.torn THEN [file EXCEPT !.torn = FALSE, !.synced = Len(file.lines)] ELSE file

\* get_or_create of a Session that is not cached; an unreadable file is cut and
\* stays unreadable.
Load ==
  /\ session = NotLoaded
  /\ file' = CompleteContent
  /\ session' = IF Readable(file'.lines) THEN Replay(file'.lines) ELSE NotLoaded
  /\ UNCHANGED <<tracked, issued, confirmed, refused>>

\* delete drops the cached Session first, also when unlink raises.
Delete ==
  /\ session' = NotLoaded /\ tracked' = <<>>
  /\ \/ file' = NoFile /\ confirmed' = {}
     \/ "clean_error" \in Faults /\ UNCHANGED <<file, confirmed>>
  /\ UNCHANGED <<issued, refused>>

Crash ==
  /\ "crash" \in Faults
  /\ session' = NotLoaded /\ tracked' = <<>>
  /\ UNCHANGED <<file, issued, confirmed, refused>>

\* What has not been synced may be lost from some byte on.
PowerLoss ==
  /\ "power_loss" \in Faults
  /\ session' = NotLoaded /\ tracked' = <<>>
  /\ \/ ~file.named /\ file' = NoFile
     \/ \E n \in file.synced..Len(file.lines), torn \in BOOLEAN :
          /\ n = Len(file.lines) /\ torn => file.torn
          /\ file' = [file EXCEPT !.lines = SubSeq(@, 1, n), !.torn = torn]
  /\ UNCHANGED <<issued, confirmed, refused>>

-----------------------------------------------------------------------------
(* Specification *)

Init ==
  /\ file = NoFile /\ session = NotLoaded /\ tracked = <<>>
  /\ issued = 0 /\ confirmed = {} /\ refused = {}

Next ==
  \/ \E text \in Texts :
       \/ Enqueue(text)
       \/ \E k \in DOMAIN session.pending : EditPending(k, text) \/ CommitWorkingMessages(k, text)
       \/ \E covered \in DOMAIN session.entries, previous \in 0..Len(session.summaries) :
            RecordContextSummary(covered, previous, text)
  \/ \E n \in 0..Len(session.entries) : Checkout(n)
  \/ Resubmit \/ Load \/ Delete \/ Crash \/ PowerLoss

Spec == Init /\ [][Next]_vars

-----------------------------------------------------------------------------
(* Safety *)

\* The file can always be replayed, whatever happened while it was written: at
\* most bytes without a newline follow its records (session-persistence-design:
\* a crash leaves at most one incomplete last line).
LogReadable == Readable(file.lines)

\* What save() has confirmed survives crashes, power losses and failed saves.
ConfirmedKept ==
  \A e \in confirmed : \E n \in 1..file.synced : file.lines[n] = e

\* The live Session is what a restart would replay from the file, followed by
\* the events it still has to write: no error path lets them drift apart.
MemoryMatchesLog ==
  session # NotLoaded =>
    /\ Readable(file.lines \o tracked)
    /\ session = Replay(file.lines \o tracked)

\* An edit or a commit whose save raised has no effect, neither now nor after
\* any restart or later save.
RefusedIsGone ==
  \A e \in refused : e \notin Range(file.lines) \cup Range(tracked)
=============================================================================
