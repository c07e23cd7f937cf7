-------------------------- MODULE SessionLogProofs --------------------------
(***************************************************************************)
(* Proofs about SessionLog for any number of events and any contents,      *)
(* where a save that raises has written nothing: what save() confirmed     *)
(* survives crashes and power losses, an operation that was rolled back    *)
(* never comes back, and the file can always be replayed, to the Session   *)
(* a process has in memory.                                                *)
(***************************************************************************)
EXTENDS SessionLog, NumberLemmas, SequenceTheorems

\* The faults under which the file keeps its promise.
CleanFaults == Faults \cap {"short_write", "sync_error"} = {}

Files(S) ==
  [exists : BOOLEAN, named : BOOLEAN, lines : Seq(S), torn : BOOLEAN, synced : Nat]

IsFile(f) ==
  /\ f \in Files(Range(f.lines))
  /\ f.synced <= Len(f.lines)
  /\ ~f.exists => f = NoFile

\* The shape of the file and of the event list; a live Session was loaded from a
\* file without torn bytes, and only its death leaves any.
LogShape ==
  /\ IsFile(file)
  /\ tracked \in Seq(Range(tracked))
  /\ session # NotLoaded => ~file.torn

\* Event numbers are not used twice.
Numbered ==
  /\ issued \in Nat
  /\ \A e \in Range(file.lines) : e.id \in 0..issued
  /\ \A e \in Range(tracked) \cup confirmed \cup refused : e.id \in 1..issued

\* A file whose name is not yet durable holds nothing confirmed.
NamedOnce == ~file.named => confirmed = {}

\* The inductive invariant.
LogInv == LogShape /\ Numbered /\ NamedOnce /\ ConfirmedKept /\ RefusedIsGone

-----------------------------------------------------------------------------
(* Sequences of unknown elements *)

\* A sequence is one over its own elements, and these are of its type.
LEMMA OwnRange ==
  ASSUME NEW S, NEW s \in Seq(S)
  PROVE  s \in Seq(Range(s)) /\ Range(s) \subseteq S
<1>1. s \in [1..Len(s) -> S] /\ Len(s) \in Nat /\ DOMAIN s = 1..Len(s)
  OBVIOUS
<1>2. s \in [1..Len(s) -> Range(s)] /\ Range(s) \subseteq S
  BY <1>1 DEF Range
<1> QED BY <1>1, <1>2

\* A sequence over a set is one over any larger set.
LEMMA LongerSeq ==
  ASSUME NEW S, NEW T, S \subseteq T, NEW s \in Seq(S)
  PROVE  s \in Seq(T)
OBVIOUS

\* Appending one event behind those still to be written.
LEMMA AppendRange ==
  ASSUME NEW s, s \in Seq(Range(s)), NEW e
  PROVE  /\ Append(s, e) \in Seq(Range(Append(s, e)))
         /\ Append(s, e) # <<>>
         /\ Range(Append(s, e)) = Range(s) \cup {e}
         /\ Len(Append(s, e)) \in Nat \ {0}
<1> DEFINE T == Range(s) \cup {e}
<1>1. s \in Seq(T) /\ e \in T
  BY LongerSeq
<1>2. Append(s, e) \in Seq(T) /\ Len(Append(s, e)) = Len(s) + 1
  BY <1>1
<1>3. Range(Append(s, e)) = T
  <2>1. \A i \in 1..Len(s) : Append(s, e)[i] = s[i]
    BY <1>1
  <2>2. Append(s, e)[Len(s) + 1] = e
    BY <1>1
  <2>3. DOMAIN Append(s, e) = 1..(Len(s) + 1) /\ DOMAIN s = 1..Len(s) /\ Len(s) \in Nat
    BY <1>1, <1>2
  <2> QED BY <2>1, <2>2, <2>3 DEF Range
<1> QED BY <1>2, <1>3, OwnRange

\* Appending records to complete lines.
LEMMA ConcatRange ==
  ASSUME NEW s, s \in Seq(Range(s)), NEW r, r \in Seq(Range(r))
  PROVE  /\ s \o r \in Seq(Range(s \o r))
         /\ Range(s \o r) = Range(s) \cup Range(r)
         /\ Len(s \o r) = Len(s) + Len(r)
         /\ \A i \in 1..Len(s) : (s \o r)[i] = s[i]
         /\ \A i \in 1..Len(r) : (s \o r)[Len(s) + i] = r[i]
<1> DEFINE T == Range(s) \cup Range(r)
<1>1. s \in Seq(T) /\ r \in Seq(T)
  BY LongerSeq
<1>2. /\ s \o r \in Seq(T) /\ Len(s \o r) = Len(s) + Len(r)
      /\ Len(s) \in Nat /\ Len(r) \in Nat
      /\ DOMAIN s = 1..Len(s) /\ DOMAIN r = 1..Len(r)
      /\ DOMAIN (s \o r) = 1..(Len(s) + Len(r))
  BY <1>1
<1>3. \A i \in 1..Len(s) : (s \o r)[i] = s[i]
  BY <1>1
<1>4. \A i \in 1..Len(r) : (s \o r)[Len(s) + i] = r[i]
  BY <1>1
<1>5. T \subseteq Range(s \o r)
  <2> SUFFICES ASSUME NEW x \in T PROVE x \in Range(s \o r)
    OBVIOUS
  <2>1. CASE x \in Range(s)
    BY <2>1, <1>2, <1>3 DEF Range
  <2>2. CASE x \in Range(r)
    <3>1. PICK i \in 1..Len(r) : r[i] = x
      BY <2>2, <1>2 DEF Range
    <3>2. Len(s) + i \in DOMAIN (s \o r) /\ (s \o r)[Len(s) + i] = x
      BY <3>1, <1>2, <1>4
    <3> QED BY <3>2 DEF Range
  <2> QED BY <2>1, <2>2
<1> QED BY <1>2, <1>3, <1>4, <1>5, OwnRange, Zenon

\* Cutting a sequence.
LEMMA SubSeqRange ==
  ASSUME NEW s, s \in Seq(Range(s)), NEW k \in 0..Len(s)
  PROVE  /\ SubSeq(s, 1, k) \in Seq(Range(SubSeq(s, 1, k)))
         /\ Range(SubSeq(s, 1, k)) \subseteq Range(s)
         /\ Len(SubSeq(s, 1, k)) = k
         /\ \A i \in 1..k : SubSeq(s, 1, k)[i] = s[i]
<1>1. /\ SubSeq(s, 1, k) \in Seq(Range(s)) /\ Len(SubSeq(s, 1, k)) = k
      /\ \A i \in 1..k : SubSeq(s, 1, k)[i] = s[i]
  OBVIOUS
<1> QED BY <1>1, OwnRange

\* The empty sequence has no elements.
LEMMA EmptyRange == <<>> \in Seq(Range(<<>>)) /\ Range(<<>>) = {} /\ Len(<<>>) = 0
BY DEF Range

\* Before its first save the Session's file is absent, which is a file state.
LEMMA NoFileIsFile == IsFile(NoFile)
BY EmptyRange DEF IsFile, Files, NoFile

-----------------------------------------------------------------------------
(* What a save may do to the file *)

\* The file holds what it held, and of the records some; what was durable
\* still is.
Grown(records) ==
  /\ IsFile(file')
  /\ Range(file'.lines) \subseteq Range(file.lines) \cup Range(records)
  /\ file.synced <= file'.synced
  /\ \A n \in 1..file.synced : file'.lines[n] = file.lines[n]
  /\ ~file'.named => ~file.named

\* An append to a file without torn bytes.
LEMMA AppendedShape ==
  ASSUME IsFile(file), file.exists, ~file.torn,
         NEW records, records \in Seq(Range(records)),
         NEW k \in 0..Len(records), NEW torn \in BOOLEAN,
         NEW f, f = Appended(records, k, torn)
  PROVE  /\ IsFile(f)
         /\ Range(f.lines) \subseteq Range(file.lines) \cup Range(records)
         /\ k = Len(records) => Range(f.lines) = Range(file.lines) \cup Range(records)
         /\ \A n \in 1..file.synced : f.lines[n] = file.lines[n]
         /\ file.synced <= Len(f.lines) /\ Len(f.lines) \in Nat
         /\ f.synced = file.synced /\ f.named = file.named
         /\ f.exists /\ f.torn = torn
<1> DEFINE part == SubSeq(records, 1, k)
<1>1. /\ part \in Seq(Range(part)) /\ Range(part) \subseteq Range(records)
      /\ Len(part) = k
      /\ \A i \in 1..k : part[i] = records[i]
  BY SubSeqRange
<1>2. k = Len(records) => Range(part) = Range(records)
  <2> SUFFICES ASSUME k = Len(records), NEW x \in Range(records) PROVE x \in Range(part)
    BY <1>1
  <2>1. DOMAIN records = 1..Len(records) /\ DOMAIN part = 1..k
    BY <1>1
  <2> QED BY <1>1, <2>1 DEF Range
<1>3. f = [file EXCEPT !.lines = file.lines \o part, !.torn = torn]
  BY DEF Appended, LinesAfter
<1>4. /\ file.lines \in Seq(Range(file.lines)) /\ file.synced \in Nat
      /\ file.exists \in BOOLEAN /\ file.named \in BOOLEAN
      /\ file.synced <= Len(file.lines)
      /\ Len(file.lines) \in Nat
      /\ file = [exists |-> file.exists, named |-> file.named, lines |-> file.lines,
                 torn |-> file.torn, synced |-> file.synced]
  BY DEF IsFile, Files
<1>5. f = [exists |-> file.exists, named |-> file.named, lines |-> file.lines \o part,
           torn |-> torn, synced |-> file.synced]
  BY <1>3, <1>4
<1> HIDE DEF part
<1>6. /\ file.lines \o part \in Seq(Range(file.lines \o part))
      /\ Range(file.lines \o part) = Range(file.lines) \cup Range(part)
      /\ Len(file.lines \o part) = Len(file.lines) + k
      /\ \A i \in 1..Len(file.lines) : (file.lines \o part)[i] = file.lines[i]
  <2> DEFINE lines == file.lines
  <2>1. lines \in Seq(Range(lines)) /\ part \in Seq(Range(part)) /\ Len(part) = k
    BY <1>1, <1>4
  <2> HIDE DEF lines
  <2>2. /\ lines \o part \in Seq(Range(lines \o part))
        /\ Range(lines \o part) = Range(lines) \cup Range(part)
        /\ Len(lines \o part) = Len(lines) + Len(part)
        /\ \A i \in 1..Len(lines) : (lines \o part)[i] = lines[i]
    <3>1. lines \o part \in Seq(Range(lines \o part))
      BY <2>1, ConcatRange, Zenon
    <3>2. Range(lines \o part) = Range(lines) \cup Range(part)
      BY <2>1, ConcatRange, Zenon
    <3>3. Len(lines \o part) = Len(lines) + Len(part)
      BY <2>1, ConcatRange, Zenon
    <3>4. \A i \in 1..Len(lines) : (lines \o part)[i] = lines[i]
      <4> DEFINE T == Range(lines) \cup Range(part)
      <4>1. lines \in Seq(T) /\ part \in Seq(T)
        BY <2>1, LongerSeq
      <4> HIDE DEF T
      <4> QED BY <4>1
    <3> QED BY <3>1, <3>2, <3>3, <3>4
  <2> QED BY <2>1, <2>2 DEF lines
<1>7. IsFile(f)
  <2> DEFINE lines == file.lines \o part
             n == Len(file.lines)
  <2>1. lines \in Seq(Range(lines)) /\ Len(lines) = n + k /\ n \in Nat /\ k \in Nat
    BY <1>4, <1>6
  <2> HIDE DEF lines, n
  <2>2. f = [exists |-> file.exists, named |-> file.named, lines |-> lines,
             torn |-> torn, synced |-> file.synced]
    BY <1>5 DEF lines
  <2>3. file.synced <= Len(lines)
    BY <1>4, <2>1 DEF n
  <2>4. f.lines = lines /\ f.synced = file.synced /\ f.exists = file.exists
    BY <2>2
  <2>5. f \in Files(Range(lines))
    BY <1>4, <2>1, <2>2 DEF Files
  <2>6. file.exists
    BY DEF Appended, IsFile
  <2> QED BY <2>3, <2>4, <2>5, <2>6 DEF IsFile
<1>8. \A n \in 1..file.synced : f.lines[n] = file.lines[n]
  BY <1>4, <1>5, <1>6
<1>9. file.synced <= Len(f.lines) /\ Len(f.lines) \in Nat
  BY <1>4, <1>5, <1>6
<1>10. /\ Range(f.lines) \subseteq Range(file.lines) \cup Range(records)
       /\ k = Len(records) => Range(f.lines) = Range(file.lines) \cup Range(records)
  BY <1>1, <1>2, <1>5, <1>6
<1>11. f.synced = file.synced /\ f.named = file.named /\ f.exists /\ f.torn = torn
  BY <1>5
<1> QED BY <1>7, <1>8, <1>9, <1>10, <1>11

\* A save without partial writes or failed syncs returns with everything
\* durable, or raises with nothing written, or dies having written a part.
LEMMA SaveOutcomes ==
  ASSUME CleanFaults, LogShape, session # NotLoaded,
         NEW records, records \in Seq(Range(records)), Len(records) \in Nat \ {0}
  PROVE  /\ SaveReturns(records) =>
              /\ Grown(records) /\ file'.named /\ ~file'.torn
              /\ file'.synced = Len(file'.lines)
              /\ Range(records) \subseteq Range(file'.lines)
         /\ SaveRaises(records) => file' = file
         /\ SaveDies(records) => Grown(records)
<1>1. /\ IsFile(file) /\ ~file.torn /\ file.synced \in Nat
      /\ file.lines \in Seq(Range(file.lines)) /\ Len(file.lines) \in Nat
  BY DEF LogShape, IsFile, Files
<1>2. Len(records) \in 0..Len(records) /\ FALSE \in BOOLEAN
  OBVIOUS
<1> DEFINE w == WriteAll(records)
<1> HIDE DEF w
<1>3. /\ IsFile(w) /\ ~w.torn /\ w.exists
      /\ Range(w.lines) = Range(file.lines) \cup Range(records)
      /\ \A n \in 1..file.synced : w.lines[n] = file.lines[n]
      /\ file.synced <= w.synced /\ Len(w.lines) \in Nat
      /\ file.synced <= Len(w.lines)
      /\ ~w.named => ~file.named
  <2>1. CASE file.exists
    <3> PICK torn \in BOOLEAN, k \in 0..Len(records) : torn = FALSE /\ k = Len(records)
      BY <1>2
    <3>1. w = Appended(records, k, torn)
      BY <2>1 DEF WriteAll, w
    <3>2. /\ IsFile(w)
          /\ k = Len(records) => Range(w.lines) = Range(file.lines) \cup Range(records)
          /\ \A n \in 1..file.synced : w.lines[n] = file.lines[n]
          /\ file.synced <= Len(w.lines) /\ Len(w.lines) \in Nat
          /\ w.synced = file.synced /\ w.named = file.named
          /\ w.exists /\ w.torn = torn
      BY <1>1, <2>1, <3>1, AppendedShape
    <3>3. file.synced <= w.synced
      BY <1>1, <3>2
    <3> QED BY <3>2, <3>3, Zenon
  <2>2. CASE ~file.exists
    <3>1. /\ w = NewFile(records, FALSE)
          /\ file.lines = <<>> /\ file.synced = 0 /\ ~file.named
      BY <1>1, <2>2 DEF WriteAll, w, IsFile, NoFile
    <3>2. w = [exists |-> TRUE, named |-> FALSE, lines |-> records, torn |-> FALSE,
               synced |-> Len(records)]
      BY <3>1 DEF NewFile
    <3>3. IsFile(w)
      BY <3>2 DEF IsFile, Files
    <3>4. Range(file.lines) = {}
      BY <3>1, EmptyRange
    <3>5. ~w.torn /\ w.exists /\ w.lines = records /\ w.synced = Len(records)
      BY <3>2
    <3>6. Range(w.lines) = Range(file.lines) \cup Range(records)
      BY <3>4, <3>5
    <3>7. /\ \A n \in 1..file.synced : w.lines[n] = file.lines[n]
          /\ file.synced <= w.synced /\ Len(w.lines) \in Nat
          /\ file.synced <= Len(w.lines)
      <4>1. 1..file.synced = {} /\ file.synced = 0
        BY <3>1
      <4> QED BY <4>1, <3>5
    <3> QED BY <3>1, <3>3, <3>5, <3>6, <3>7, Zenon
  <2> QED BY <2>1, <2>2
<1>4. /\ w.lines \in Seq(Range(w.lines))
      /\ w = [exists |-> w.exists, named |-> w.named, lines |-> w.lines,
              torn |-> w.torn, synced |-> w.synced]
      /\ w.named \in BOOLEAN /\ w.exists \in BOOLEAN /\ w.torn \in BOOLEAN
  BY <1>3 DEF IsFile, Files
<1>5. ASSUME SaveReturns(records)
      PROVE  /\ Grown(records) /\ file'.named /\ ~file'.torn
             /\ file'.synced = Len(file'.lines)
             /\ Range(records) \subseteq Range(file'.lines)
  <2>1. file' = [w EXCEPT !.named = TRUE, !.synced = Len(w.lines)]
    BY <1>5 DEF SaveReturns, w
  <2>2. file' = [exists |-> w.exists, named |-> TRUE, lines |-> w.lines,
                 torn |-> w.torn, synced |-> Len(w.lines)]
    BY <1>4, <2>1
  <2>3. /\ file'.lines = w.lines /\ file'.named /\ ~file'.torn
        /\ file'.synced = Len(w.lines)
    BY <1>3, <2>2
  <2>4. IsFile(file')
    BY <1>3, <1>4, <2>2 DEF IsFile, Files
  <2> QED BY <1>1, <1>3, <2>3, <2>4 DEF Grown
<1>6. ASSUME SaveRaises(records) PROVE file' = file
  BY <1>6 DEF SaveRaises, CleanFaults
<1>7. ASSUME SaveDies(records) PROVE Grown(records)
  <2>1. CASE UNCHANGED file
    BY <1>1, <2>1 DEF Grown
  <2>2. CASE file.exists /\ StopsEarly(records)
    <3>1. PICK k \in 0..(Len(records) - 1), torn \in BOOLEAN :
            file' = Appended(records, k, torn)
      BY <2>2 DEF StopsEarly
    <3>2. k \in 0..Len(records)
      BY <3>1
    <3>3. /\ IsFile(file')
          /\ Range(file'.lines) \subseteq Range(file.lines) \cup Range(records)
          /\ \A n \in 1..file.synced : file'.lines[n] = file.lines[n]
          /\ file'.synced = file.synced /\ file'.named = file.named
      BY <1>1, <2>2, <3>1, <3>2, AppendedShape
    <3> QED BY <1>1, <3>3 DEF Grown
  <2>3. CASE file' = WriteAll(records)
    <3>1. file' = w
      BY <2>3 DEF w
    <3> QED BY <1>3, <3>1 DEF Grown
  <2> QED BY <1>7, <2>1, <2>2, <2>3 DEF SaveDies
<1> QED BY <1>5, <1>6, <1>7

-----------------------------------------------------------------------------
(* The invariant's two promises across a save *)

\* Growth keeps what was confirmed, and brings back nothing that was refused.
LEMMA GrownKeeps ==
  ASSUME LogInv, NEW records, Grown(records),
         \A e \in Range(records) : e.id \in 1..(issued + 1) /\ e \notin refused
  PROVE  /\ \A e \in confirmed : \E n \in 1..file'.synced : file'.lines[n] = e
         /\ \A e \in refused : e \notin Range(file'.lines)
         /\ \A e \in Range(file'.lines) : e.id \in 0..(issued + 1)
         /\ ~file'.named => confirmed = {}
<1>1. file.synced \in Nat /\ file'.synced \in Nat /\ file.synced <= file'.synced
  BY DEF LogInv, LogShape, IsFile, Files, Grown
<1>2. ASSUME NEW e \in confirmed PROVE \E n \in 1..file'.synced : file'.lines[n] = e
  <2>1. PICK n \in 1..file.synced : file.lines[n] = e
    BY DEF LogInv, ConfirmedKept
  <2>2. n \in 1..file'.synced /\ file'.lines[n] = e
    BY <1>1, <2>1 DEF Grown
  <2> QED BY <2>2
<1>3. \A e \in refused : e \notin Range(file'.lines)
  BY DEF LogInv, RefusedIsGone, Grown
<1>4. \A e \in Range(file'.lines) : e.id \in 0..(issued + 1)
  <2> SUFFICES ASSUME NEW e \in Range(file'.lines) PROVE e.id \in 0..(issued + 1)
    OBVIOUS
  <2>1. issued \in Nat
    BY DEF LogInv, Numbered
  <2>2. CASE e \in Range(file.lines)
    <3>1. e.id \in 0..issued
      BY <2>2 DEF LogInv, Numbered
    <3> QED BY <2>1, <3>1
  <2>3. CASE e \in Range(records)
    <3>1. e.id \in 1..(issued + 1)
      BY <2>3
    <3> QED BY <2>1, <3>1
  <2> QED BY <2>2, <2>3 DEF Grown
<1> QED BY <1>2, <1>3, <1>4 DEF LogInv, NamedOnce, Grown

\* What a returning save has written is durable.
LEMMA ReturnedIsDurable ==
  ASSUME NEW records, IsFile(file'), file'.synced = Len(file'.lines),
         Range(records) \subseteq Range(file'.lines)
  PROVE  \A e \in Range(records) : \E n \in 1..file'.synced : file'.lines[n] = e
<1>1. DOMAIN file'.lines = 1..Len(file'.lines)
  BY DEF IsFile, Files
<1> QED BY <1>1 DEF Range

\* An operation of the live Session, whatever event it creates.
LEMMA PerformStep ==
  ASSUME CleanFaults, LogInv, NEW e, e.id = issued + 1, Perform(e)
  PROVE  LogInv'
<1> DEFINE records == Append(tracked, e)
<1>1. /\ issued \in Nat /\ issued' = issued + 1 /\ session # NotLoaded
      /\ IsFile(file) /\ tracked \in Seq(Range(tracked)) /\ ~file.torn
  BY DEF LogInv, LogShape, Numbered, Perform
<1>2. /\ records \in Seq(Range(records)) /\ Len(records) \in Nat \ {0}
      /\ Range(records) = Range(tracked) \cup {e}
  BY <1>1, AppendRange
<1>3. /\ \A x \in Range(tracked) \cup confirmed \cup refused : x.id \in 1..issued
      /\ \A x \in Range(file.lines) : x.id \in 0..issued
  BY DEF LogInv, Numbered
<1>4. e \notin refused \cup Range(tracked) \cup Range(file.lines)
  BY <1>1, <1>3
<1>5. \A x \in Range(records) : x.id \in 1..(issued + 1) /\ x \notin refused
  BY <1>1, <1>2, <1>3, <1>4 DEF LogInv, RefusedIsGone
<1>6. /\ \A x \in Range(tracked) \cup confirmed \cup refused : x.id \in 1..(issued + 1)
      /\ \A x \in Range(file.lines) : x.id \in 0..(issued + 1)
  BY <1>1, <1>3
<1> HIDE DEF records
<1>7. /\ SaveReturns(records) =>
           /\ Grown(records) /\ file'.named /\ ~file'.torn
           /\ file'.synced = Len(file'.lines)
           /\ Range(records) \subseteq Range(file'.lines)
      /\ SaveRaises(records) => file' = file
      /\ SaveDies(records) => Grown(records)
  BY <1>1, <1>2, SaveOutcomes DEF LogInv
<1>8. ASSUME SaveReturns(records), tracked' = MarkPersisted(records),
             confirmed' = confirmed \cup Range(records), refused' = refused
      PROVE  LogInv'
  <2>1. /\ Grown(records) /\ file'.named /\ ~file'.torn /\ IsFile(file')
        /\ file'.synced = Len(file'.lines) /\ Range(records) \subseteq Range(file'.lines)
    BY <1>7, <1>8 DEF Grown
  <2>2. /\ \A x \in confirmed : \E n \in 1..file'.synced : file'.lines[n] = x
        /\ \A x \in refused : x \notin Range(file'.lines)
        /\ \A x \in Range(file'.lines) : x.id \in 0..(issued + 1)
    BY <1>5, <2>1, GrownKeeps
  <2>3. \A x \in Range(records) : \E n \in 1..file'.synced : file'.lines[n] = x
    BY <2>1, ReturnedIsDurable
  <2>4. tracked' = <<>> /\ Range(tracked') = {} /\ tracked' \in Seq(Range(tracked'))
    BY <1>8, EmptyRange DEF MarkPersisted
  <2>5. LogShape'
    BY <2>1, <2>4 DEF LogShape
  <2>6. Numbered'
    BY <1>1, <1>5, <1>6, <1>8, <2>2, <2>4 DEF Numbered
  <2>7. NamedOnce'
    BY <2>1 DEF NamedOnce
  <2>8. ConfirmedKept'
    BY <1>8, <2>2, <2>3 DEF ConfirmedKept
  <2>9. RefusedIsGone'
    BY <1>8, <2>2, <2>4 DEF RefusedIsGone
  <2> QED BY <2>5, <2>6, <2>7, <2>8, <2>9 DEF LogInv
<1>9. ASSUME SaveRaises(records), confirmed' = confirmed,
             \/ RollsBack(e) /\ tracked' = tracked /\ refused' = refused \cup {e}
             \/ ~RollsBack(e) /\ tracked' = records /\ refused' = refused
      PROVE  LogInv'
  <2>1. file' = file
    BY <1>7, <1>9
  <2>2. LogShape'
    BY <1>1, <1>2, <1>9, <2>1 DEF LogShape
  <2>3. Numbered'
    BY <1>1, <1>2, <1>5, <1>6, <1>9, <2>1 DEF Numbered
  <2>4. NamedOnce' /\ ConfirmedKept'
    BY <1>9, <2>1 DEF LogInv, NamedOnce, ConfirmedKept
  <2>5. RefusedIsGone'
    BY <1>2, <1>4, <1>5, <1>9, <2>1 DEF LogInv, RefusedIsGone
  <2> QED BY <2>2, <2>3, <2>4, <2>5 DEF LogInv
<1>10. ASSUME SaveDies(records), confirmed' = confirmed, refused' = refused
       PROVE  LogInv'
  <2>1. /\ Grown(records) /\ IsFile(file') /\ session' = NotLoaded
        /\ tracked' = <<>> /\ Range(tracked') = {} /\ tracked' \in Seq(Range(tracked'))
    BY <1>7, <1>10, EmptyRange DEF SaveDies, Grown
  <2>2. /\ \A x \in confirmed : \E n \in 1..file'.synced : file'.lines[n] = x
        /\ \A x \in refused : x \notin Range(file'.lines)
        /\ \A x \in Range(file'.lines) : x.id \in 0..(issued + 1)
        /\ ~file'.named => confirmed = {}
    BY <1>5, <2>1, GrownKeeps
  <2>3. LogShape'
    BY <2>1 DEF LogShape
  <2>4. Numbered'
    BY <1>1, <1>6, <1>10, <2>1, <2>2 DEF Numbered
  <2>5. NamedOnce' /\ ConfirmedKept' /\ RefusedIsGone'
    BY <1>10, <2>1, <2>2 DEF NamedOnce, ConfirmedKept, RefusedIsGone
  <2> QED BY <2>3, <2>4, <2>5 DEF LogInv
<1> QED BY <1>8, <1>9, <1>10 DEF Perform, TrackedAfterError, records

\* A step that creates no event: the file is cut, removed or loaded.
LEMMA QuietStep ==
  ASSUME LogInv, IsFile(file'), session' # NotLoaded => ~file'.torn,
         tracked' = tracked \/ tracked' = <<>>,
         issued' = issued, refused' = refused,
         Range(file'.lines) \subseteq Range(file.lines),
         \/ confirmed' = {}
         \/ /\ confirmed' = confirmed
            /\ file'.synced >= file.synced
            /\ \A n \in 1..file.synced : file'.lines[n] = file.lines[n]
            /\ ~file'.named => ~file.named
  PROVE  LogInv'
<1>1. /\ file.synced \in Nat /\ file'.synced \in Nat
      /\ tracked \in Seq(Range(tracked))
  BY DEF LogInv, LogShape, IsFile, Files
<1>2. Range(tracked') \subseteq Range(tracked) /\ tracked' \in Seq(Range(tracked'))
  BY <1>1, EmptyRange
<1>3. LogShape'
  BY <1>2 DEF LogShape
<1>4. confirmed' \subseteq confirmed
  OBVIOUS
<1>5. Numbered'
  BY <1>2, <1>4 DEF LogInv, Numbered
<1>6. NamedOnce'
  BY DEF LogInv, NamedOnce
<1>7. ConfirmedKept'
  <2> SUFFICES ASSUME NEW e \in confirmed' PROVE \E n \in 1..file'.synced : file'.lines[n] = e
    BY DEF ConfirmedKept
  <2>1. PICK n \in 1..file.synced : file.lines[n] = e
    BY <1>4 DEF LogInv, ConfirmedKept
  <2>2. n \in 1..file'.synced /\ file'.lines[n] = e
    BY <1>1, <2>1
  <2> QED BY <2>2
<1>8. RefusedIsGone'
  BY <1>2 DEF LogInv, RefusedIsGone
<1> QED BY <1>3, <1>5, <1>6, <1>7, <1>8 DEF LogInv

\* Saving again what an earlier error has left.
LEMMA ResubmitStep ==
  ASSUME CleanFaults, LogInv, Resubmit
  PROVE  LogInv'
<1>1. /\ issued \in Nat /\ issued' = issued /\ session # NotLoaded /\ refused' = refused
      /\ tracked \in Seq(Range(tracked)) /\ Len(tracked) \in Nat \ {0}
  BY DEF LogInv, LogShape, Numbered, Resubmit
<1>2. /\ \A x \in Range(tracked) \cup confirmed \cup refused : x.id \in 1..issued
      /\ \A x \in Range(file.lines) : x.id \in 0..issued
  BY DEF LogInv, Numbered
<1>3. \A x \in Range(tracked) : x.id \in 1..(issued + 1) /\ x \notin refused
  BY <1>1, <1>2 DEF LogInv, RefusedIsGone
<1>4. /\ SaveReturns(tracked) =>
           /\ Grown(tracked) /\ file'.named /\ ~file'.torn
           /\ file'.synced = Len(file'.lines)
           /\ Range(tracked) \subseteq Range(file'.lines)
      /\ SaveRaises(tracked) => file' = file
      /\ SaveDies(tracked) => Grown(tracked)
  BY <1>1, SaveOutcomes DEF LogInv
<1>5. Grown(tracked) => \A x \in Range(file'.lines) : x.id \in 0..issued
  <2>1. \A x \in Range(tracked) : x.id \in 0..issued
    BY <1>1, <1>2
  <2> QED BY <1>2, <2>1 DEF Grown
<1>6. ASSUME SaveReturns(tracked), tracked' = MarkPersisted(tracked),
             confirmed' = confirmed \cup Range(tracked)
      PROVE  LogInv'
  <2>1. /\ Grown(tracked) /\ file'.named /\ ~file'.torn /\ IsFile(file')
        /\ file'.synced = Len(file'.lines) /\ Range(tracked) \subseteq Range(file'.lines)
    BY <1>4, <1>6 DEF Grown
  <2>2. /\ \A x \in confirmed : \E n \in 1..file'.synced : file'.lines[n] = x
        /\ \A x \in refused : x \notin Range(file'.lines)
    BY <1>3, <2>1, GrownKeeps
  <2>3. \A x \in Range(tracked) : \E n \in 1..file'.synced : file'.lines[n] = x
    BY <2>1, ReturnedIsDurable
  <2>4. tracked' = <<>> /\ Range(tracked') = {} /\ tracked' \in Seq(Range(tracked'))
    BY <1>6, EmptyRange DEF MarkPersisted
  <2>5. LogShape'
    BY <2>1, <2>4 DEF LogShape
  <2>6. Numbered'
    BY <1>1, <1>2, <1>5, <1>6, <2>1, <2>4 DEF Numbered
  <2>7. NamedOnce'
    BY <2>1 DEF NamedOnce
  <2>8. ConfirmedKept'
    BY <1>6, <2>2, <2>3 DEF ConfirmedKept
  <2>9. RefusedIsGone'
    BY <1>1, <2>2, <2>4 DEF RefusedIsGone
  <2> QED BY <2>5, <2>6, <2>7, <2>8, <2>9 DEF LogInv
<1>7. ASSUME SaveRaises(tracked), UNCHANGED <<session, tracked, confirmed>>
      PROVE  LogInv'
  <2>1. file' = file
    BY <1>4, <1>7
  <2> QED BY <1>1, <1>7, <2>1
          DEF LogInv, LogShape, Numbered, NamedOnce, ConfirmedKept, RefusedIsGone
<1>8. ASSUME SaveDies(tracked), confirmed' = confirmed
      PROVE  LogInv'
  <2>1. /\ Grown(tracked) /\ IsFile(file') /\ session' = NotLoaded
        /\ tracked' = <<>> /\ Range(tracked') = {} /\ tracked' \in Seq(Range(tracked'))
    BY <1>4, <1>8, EmptyRange DEF SaveDies, Grown
  <2>2. /\ \A x \in confirmed : \E n \in 1..file'.synced : file'.lines[n] = x
        /\ \A x \in refused : x \notin Range(file'.lines)
        /\ ~file'.named => confirmed = {}
    BY <1>3, <2>1, GrownKeeps
  <2>3. LogShape'
    BY <2>1 DEF LogShape
  <2>4. Numbered'
    BY <1>1, <1>2, <1>5, <1>8, <2>1 DEF Numbered
  <2>5. NamedOnce' /\ ConfirmedKept' /\ RefusedIsGone'
    BY <1>1, <1>8, <2>1, <2>2 DEF NamedOnce, ConfirmedKept, RefusedIsGone
  <2> QED BY <2>3, <2>4, <2>5 DEF LogInv
<1> QED BY <1>6, <1>7, <1>8 DEF Resubmit

\* Loading cuts torn bytes off, and nothing else.
LEMMA LoadStep ==
  ASSUME LogInv, Load
  PROVE  LogInv'
<1>1. /\ IsFile(file) /\ file.synced \in Nat /\ file.synced <= Len(file.lines)
      /\ Len(file.lines) \in Nat /\ file.torn \in BOOLEAN
      /\ file = [exists |-> file.exists, named |-> file.named, lines |-> file.lines,
                 torn |-> file.torn, synced |-> file.synced]
      /\ file.exists \in BOOLEAN /\ file.named \in BOOLEAN
      /\ file.lines \in Seq(Range(file.lines))
  BY DEF LogInv, LogShape, IsFile, Files
<1>2. CASE ~file.torn
  <2>1. file' = file
    BY <1>2 DEF Load, CompleteContent
  <2> QED BY <1>1, <1>2, <2>1, QuietStep DEF Load
<1>3. CASE file.torn
  <2>1. file' = [exists |-> file.exists, named |-> file.named, lines |-> file.lines,
                 torn |-> FALSE, synced |-> Len(file.lines)]
    BY <1>1, <1>3 DEF Load, CompleteContent
  <2>2. ~file'.torn /\ file'.lines = file.lines /\ file'.synced = Len(file.lines)
        /\ file'.named = file.named /\ file'.exists = file.exists
    BY <2>1
  <2>3. file.exists
    BY <1>1, <1>3 DEF IsFile, NoFile
  <2>4. IsFile(file')
    BY <1>1, <2>1, <2>2, <2>3 DEF IsFile, Files
  <2> QED BY <1>1, <2>2, <2>4, QuietStep DEF Load
<1> QED BY <1>2, <1>3

\* Deleting forgets what was confirmed together with the file.
LEMMA DeleteStep ==
  ASSUME LogInv, Delete
  PROVE  LogInv'
<1>1. IsFile(file) /\ file.synced \in Nat /\ file.named \in BOOLEAN
  BY DEF LogInv, LogShape, IsFile, Files
<1>2. CASE file' = NoFile /\ confirmed' = {}
  <2>1. Range(file'.lines) = {} /\ ~file'.torn
    BY <1>2, EmptyRange DEF NoFile
  <2> QED BY <1>2, <2>1, NoFileIsFile, QuietStep DEF Delete
<1>3. CASE UNCHANGED <<file, confirmed>>
  BY <1>1, <1>3, QuietStep DEF Delete
<1> QED BY <1>2, <1>3 DEF Delete

\* A crash leaves the file alone.
LEMMA CrashStep ==
  ASSUME LogInv, Crash
  PROVE  LogInv'
<1>1. IsFile(file) /\ file.synced \in Nat /\ file.named \in BOOLEAN
  BY DEF LogInv, LogShape, IsFile, Files
<1> QED BY <1>1, QuietStep DEF Crash

\* A power loss takes only what was not synced.
LEMMA PowerLossStep ==
  ASSUME LogInv, PowerLoss
  PROVE  LogInv'
<1>1. /\ IsFile(file) /\ file.synced \in Nat /\ file.synced <= Len(file.lines)
      /\ Len(file.lines) \in Nat
      /\ file = [exists |-> file.exists, named |-> file.named, lines |-> file.lines,
                 torn |-> file.torn, synced |-> file.synced]
      /\ file.exists \in BOOLEAN /\ file.named \in BOOLEAN
      /\ file.lines \in Seq(Range(file.lines))
  BY DEF LogInv, LogShape, IsFile, Files
<1>2. /\ session' = NotLoaded /\ tracked' = <<>> /\ issued' = issued
      /\ confirmed' = confirmed /\ refused' = refused
  BY DEF PowerLoss
<1>3. CASE ~file.named /\ file' = NoFile
  <2>1. Range(file'.lines) = {} /\ ~file'.torn /\ confirmed' = {}
    BY <1>3, EmptyRange DEF NoFile, PowerLoss, LogInv, NamedOnce
  <2> QED BY <1>3, <2>1, NoFileIsFile, QuietStep DEF PowerLoss
<1>4. ASSUME NEW n \in file.synced..Len(file.lines), NEW torn \in BOOLEAN,
             n = Len(file.lines) /\ torn => file.torn,
             file' = [file EXCEPT !.lines = SubSeq(@, 1, n), !.torn = torn]
      PROVE  LogInv'
  <2> DEFINE kept == SubSeq(file.lines, 1, n)
  <2>1. n \in 0..Len(file.lines) /\ file.synced <= n /\ n \in Nat
    BY <1>1
  <2>2. /\ kept \in Seq(Range(kept)) /\ Range(kept) \subseteq Range(file.lines)
        /\ Len(kept) = n /\ \A i \in 1..n : kept[i] = file.lines[i]
    BY <1>1, <2>1, SubSeqRange
  <2>3. file' = [exists |-> file.exists, named |-> file.named, lines |-> kept,
                 torn |-> torn, synced |-> file.synced]
    BY <1>1, <1>4
  <2> HIDE DEF kept
  <2>4. /\ file'.lines = kept /\ file'.synced = file.synced
        /\ file'.named = file.named /\ file'.exists = file.exists /\ file'.torn = torn
    BY <2>3
  <2>5. ~file'.exists => file' = NoFile
    <3> SUFFICES ASSUME ~file.exists PROVE file' = NoFile
      BY <2>4
    <3>1. file = NoFile
      BY <1>1 DEF IsFile
    <3>2. Len(file.lines) = 0 /\ file.synced = 0 /\ ~file.torn
      BY <3>1 DEF NoFile
    <3>3. kept = <<>> /\ ~torn
      BY <1>4, <2>1, <2>2, <3>2
    <3> QED BY <2>3, <3>1, <3>3 DEF NoFile
  <2>6. IsFile(file')
    BY <1>1, <2>1, <2>2, <2>3, <2>4, <2>5 DEF IsFile, Files
  <2>7. \A i \in 1..file.synced : file'.lines[i] = file.lines[i]
    BY <1>1, <2>1, <2>2, <2>4
  <2> QED BY <1>1, <1>2, <2>2, <2>4, <2>6, <2>7, QuietStep
<1> QED BY <1>3, <1>4 DEF PowerLoss

-----------------------------------------------------------------------------
(* Replaying the file *)

\* f is the replay of the first n lines, step by step.
Replays(f, lines, n) ==
  f = [k \in 0..n |-> IF k = 0 THEN EmptySession ELSE Reduce(f[k - 1], lines[k])]

\* There is a replay of any number of lines: the least number without one would
\* have one line more than a number with one.
LEMMA ReplayExists ==
  ASSUME NEW lines, NEW n \in Nat
  PROVE  \E f : Replays(f, lines, n)
<1> DEFINE bad == {m \in Nat : ~ \E f : Replays(f, lines, m)}
<1> SUFFICES ASSUME bad # {} PROVE FALSE
  OBVIOUS
<1>1. PICK m \in bad : \A j \in bad : m <= j
  <2>1. bad \in SUBSET Nat
    OBVIOUS
  <2> QED BY <2>1, LeastNumber
<1>2. m \in Nat /\ ~ \E f : Replays(f, lines, m)
  BY <1>1
<1>3. m # 0
  <2>1. Replays([k \in 0..0 |-> EmptySession], lines, 0)
    BY DEF Replays
  <2> QED BY <1>2, <2>1
<1>4. m - 1 \in Nat /\ ~ (m <= m - 1) /\ (m - 1) + 1 = m
  BY <1>2, <1>3
<1>5. PICK g : Replays(g, lines, m - 1)
  BY <1>1, <1>4
<1> DEFINE h == [k \in 0..m |-> IF k = m THEN Reduce(g[m - 1], lines[m]) ELSE g[k]]
<1>6. \A k \in 0..m : h[k] = IF k = 0 THEN EmptySession ELSE Reduce(h[k - 1], lines[k])
  <2> SUFFICES ASSUME NEW k \in 0..m
               PROVE  h[k] = IF k = 0 THEN EmptySession ELSE Reduce(h[k - 1], lines[k])
    OBVIOUS
  <2>1. CASE k = m
    <3>1. h[m] = Reduce(g[m - 1], lines[m]) /\ h[m - 1] = g[m - 1]
      BY <1>2, <1>4
    <3> QED BY <1>3, <2>1, <3>1
  <2>2. CASE k = 0
    <3>1. h[0] = g[0] /\ g[0] = EmptySession
      BY <1>3, <1>4, <1>5 DEF Replays
    <3> QED BY <2>2, <3>1
  <2>3. CASE k # m /\ k # 0
    <3>1. k \in 0..(m - 1) /\ k - 1 \in 0..m /\ k - 1 # m
      BY <1>2, <2>3
    <3>2. h[k] = g[k] /\ h[k - 1] = g[k - 1]
      BY <2>3, <3>1
    <3>3. g[k] = Reduce(g[k - 1], lines[k])
      BY <1>5, <2>3, <3>1 DEF Replays
    <3> QED BY <2>3, <3>2, <3>3
  <2> QED BY <2>1, <2>2, <2>3
<1>7. h = [k \in 0..m |-> h[k]]
  OBVIOUS
<1> HIDE DEF h
<1>8. Replays(h, lines, m)
  BY <1>6, <1>7 DEF Replays
<1> QED BY <1>2, <1>8

\* Replays of files that agree on their first lines agree on them.
LEMMA ReplaysAgree ==
  ASSUME NEW f, NEW g, NEW a, NEW b, NEW m \in Nat, NEW n \in Nat, m <= n,
         Replays(f, a, m), Replays(g, b, n), \A k \in 1..m : a[k] = b[k]
  PROVE  f[m] = g[m]
<1> DEFINE bad == {k \in 0..m : f[k] # g[k]}
<1> SUFFICES ASSUME bad # {} PROVE FALSE
  OBVIOUS
<1>1. PICK k \in bad : \A j \in bad : k <= j
  <2>1. bad \in SUBSET Nat
    OBVIOUS
  <2> QED BY <2>1, LeastNumber
<1>2. k \in 0..m /\ k \in 0..n /\ f[k] # g[k]
  BY <1>1
<1>3. f[k] = (IF k = 0 THEN EmptySession ELSE Reduce(f[k - 1], a[k]))
  BY <1>2 DEF Replays
<1>4. g[k] = (IF k = 0 THEN EmptySession ELSE Reduce(g[k - 1], b[k]))
  BY <1>2 DEF Replays
<1>5. k # 0
  BY <1>2, <1>3, <1>4
<1>6. k - 1 \in 0..m /\ k \in 1..m /\ ~ (k <= k - 1)
  BY <1>2, <1>5
<1>7. f[k - 1] = g[k - 1]
  BY <1>1, <1>6
<1> QED BY <1>2, <1>3, <1>4, <1>5, <1>6, <1>7

\* The replay of a file is the last step of its replay.
LEMMA ReplayIs ==
  ASSUME NEW lines, Len(lines) \in Nat, NEW f, Replays(f, lines, Len(lines))
  PROVE  Replay(lines) = f[Len(lines)]
<1> DEFINE n == Len(lines)
           g == CHOOSE g : g = [k \in 0..n |->
                  IF k = 0 THEN EmptySession ELSE Reduce(g[k - 1], lines[k])]
<1>1. Replay(lines) = g[n]
  BY DEF Replay
<1>2. Replays(g, lines, n)
  BY ReplayExists DEF Replays
<1> HIDE DEF g
<1>3. g[n] = f[n]
  BY <1>2, ReplaysAgree
<1> QED BY <1>1, <1>3

\* Of nothing, nothing; of one line more, one event more.
LEMMA ReplayEmpty == Replay(<<>>) = EmptySession
<1>1. Len(<<>>) = 0
  OBVIOUS
<1>2. PICK f : Replays(f, <<>>, 0)
  BY ReplayExists
<1>3. Replay(<<>>) = f[0]
  BY <1>1, <1>2, ReplayIs
<1>4. f[0] = EmptySession
  BY <1>2 DEF Replays
<1> QED BY <1>3, <1>4

LEMMA ReplayAppend ==
  ASSUME NEW lines, lines \in Seq(Range(lines)), NEW e
  PROVE  Replay(Append(lines, e)) = Reduce(Replay(lines), e)
<1> DEFINE n == Len(lines)
           more == Append(lines, e)
<1>1. /\ n \in Nat /\ Len(more) = n + 1 /\ more[n + 1] = e
      /\ \A k \in 1..n : lines[k] = more[k]
  <2>1. lines \in Seq(Range(lines) \cup {e})
    BY LongerSeq
  <2> QED BY <2>1
<1> HIDE DEF more, n
<1>0. /\ n + 1 \in Nat /\ n <= n + 1 /\ n + 1 \in 0..(n + 1) /\ n + 1 # 0
      /\ (n + 1) - 1 = n
  BY <1>1
<1>2. PICK f : Replays(f, lines, n)
  BY <1>1, ReplayExists
<1>3. PICK g : Replays(g, more, n + 1)
  BY <1>0, ReplayExists
<1>4. Replay(lines) = f[n] /\ Replay(more) = g[n + 1]
  <2>1. Replay(lines) = f[n]
    BY <1>1, <1>2, ReplayIs DEF n
  <2>2. Replay(more) = g[n + 1]
    BY <1>0, <1>1, <1>3, ReplayIs
  <2> QED BY <2>1, <2>2
<1>5. f[n] = g[n]
  <2>1. n \in Nat /\ n + 1 \in Nat /\ n <= n + 1
    BY <1>0, <1>1
  <2>2. \A k \in 1..n : lines[k] = more[k]
    BY <1>1
  <2>3. ASSUME NEW p \in Nat, NEW q \in Nat, p <= q, Replays(f, lines, p),
               Replays(g, more, q), \A k \in 1..p : lines[k] = more[k]
        PROVE  f[p] = g[p]
    BY <2>3, ReplaysAgree
  <2> QED BY <2>1, <2>2, <2>3, <1>2, <1>3
<1>6. g[n + 1] = Reduce(g[n], e)
  <2>1. g[n + 1] = Reduce(g[(n + 1) - 1], more[n + 1])
    BY <1>0, <1>3 DEF Replays
  <2> QED BY <1>0, <1>1, <2>1
<1> QED BY <1>4, <1>5, <1>6 DEF more

\* The beginning of a readable file is readable.
LEMMA ReadablePrefix ==
  ASSUME NEW lines, lines \in Seq(Range(lines)), Readable(lines), NEW k \in 0..Len(lines)
  PROVE  Readable(SubSeq(lines, 1, k))
<1> DEFINE part == SubSeq(lines, 1, k)
<1>1. /\ DOMAIN part = 1..k /\ DOMAIN lines = 1..Len(lines) /\ Len(lines) \in Nat
      /\ \A i \in 1..k : part[i] = lines[i]
  OBVIOUS
<1>2. \A n \in 1..k : SubSeq(part, 1, n - 1) = SubSeq(lines, 1, n - 1)
  OBVIOUS
<1> HIDE DEF part
<1> SUFFICES ASSUME NEW n \in DOMAIN part
             PROVE  /\ part[n] # Garbage
                    /\ part[n].text = "plain"
                    /\ \A j \in 1..(n - 1) : part[j].id # part[n].id
                    /\ Accepts(Replay(SubSeq(part, 1, n - 1)), part[n])
  BY DEF Readable, part
<1>3. /\ n \in DOMAIN lines /\ n \in 1..k /\ part[n] = lines[n]
      /\ \A j \in 1..(n - 1) : part[j] = lines[j]
  BY <1>1
<1> QED BY <1>2, <1>3 DEF Readable

\* One line more: its event is accepted by the replay of the lines before.
LEMMA ReadableAppend ==
  ASSUME NEW lines, lines \in Seq(Range(lines)), Readable(lines),
         NEW e, e # Garbage, e.text = "plain", \A x \in Range(lines) : x.id # e.id,
         Accepts(Replay(lines), e)
  PROVE  Readable(Append(lines, e))
<1> DEFINE more == Append(lines, e)
<1>1. lines \in Seq(Range(lines) \cup {e})
  BY LongerSeq
<1>2. /\ DOMAIN more = 1..(Len(lines) + 1) /\ DOMAIN lines = 1..Len(lines) /\ Len(lines) \in Nat
      /\ more[Len(lines) + 1] = e
      /\ \A i \in 1..Len(lines) : more[i] = lines[i]
  BY <1>1
<1>3. \A n \in 1..(Len(lines) + 1) : SubSeq(more, 1, n - 1) = SubSeq(lines, 1, n - 1)
  BY <1>1
<1>4. SubSeq(lines, 1, (Len(lines) + 1) - 1) = lines
  OBVIOUS
<1> HIDE DEF more
<1> SUFFICES ASSUME NEW n \in 1..(Len(lines) + 1)
             PROVE  /\ more[n] # Garbage
                    /\ more[n].text = "plain"
                    /\ \A j \in 1..(n - 1) : more[j].id # more[n].id
                    /\ Accepts(Replay(SubSeq(more, 1, n - 1)), more[n])
  BY <1>2 DEF Readable, more
<1>5. CASE n = Len(lines) + 1
  <2>1. \A j \in 1..(n - 1) : more[j] = lines[j] /\ lines[j] \in Range(lines)
    BY <1>2, <1>5 DEF Range
  <2>2. SubSeq(more, 1, n - 1) = lines
    BY <1>3, <1>4, <1>5
  <2> QED BY <1>2, <1>5, <2>1, <2>2
<1>6. CASE n # Len(lines) + 1
  <2>1. /\ n \in DOMAIN lines /\ more[n] = lines[n]
        /\ \A j \in 1..(n - 1) : more[j] = lines[j]
    BY <1>2, <1>6
  <2> QED BY <1>3, <2>1 DEF Readable
<1> QED BY <1>5, <1>6

\* A Session as the events make it; NotLoaded is none.
Whole(s) ==
  /\ s = [pending |-> s.pending, entries |-> s.entries, leaf |-> s.leaf,
          summaries |-> s.summaries]
  /\ s.entries \in Seq(Range(s.entries))
  /\ s.leaf \in Nat

\* A readable file that leads to such a Session, with every line.
Playable(lines) ==
  /\ Readable(lines)
  /\ \A n \in 0..Len(lines) : Whole(Replay(SubSeq(lines, 1, n)))

LEMMA PlayablePrefix ==
  ASSUME NEW lines, lines \in Seq(Range(lines)), Playable(lines), NEW k \in 0..Len(lines)
  PROVE  Playable(SubSeq(lines, 1, k))
<1>1. Len(SubSeq(lines, 1, k)) = k /\ Len(lines) \in Nat
  OBVIOUS
<1>2. \A n \in 0..k : SubSeq(SubSeq(lines, 1, k), 1, n) = SubSeq(lines, 1, n)
  OBVIOUS
<1>3. \A n \in 0..k : n \in 0..Len(lines)
  BY <1>1
<1>4. Readable(SubSeq(lines, 1, k))
  BY ReadablePrefix DEF Playable
<1> QED BY <1>1, <1>2, <1>3, <1>4 DEF Playable

LEMMA PlayableAppend ==
  ASSUME NEW lines, lines \in Seq(Range(lines)), Playable(lines),
         NEW e, e # Garbage, e.text = "plain", \A x \in Range(lines) : x.id # e.id,
         Accepts(Replay(lines), e), Whole(Reduce(Replay(lines), e))
  PROVE  Playable(Append(lines, e))
<1> DEFINE more == Append(lines, e)
<1>1. lines \in Seq(Range(lines) \cup {e})
  BY LongerSeq
<1>2. /\ Len(more) = Len(lines) + 1 /\ Len(lines) \in Nat
      /\ SubSeq(more, 1, Len(lines) + 1) = more
      /\ \A n \in 0..Len(lines) : SubSeq(more, 1, n) = SubSeq(lines, 1, n)
  BY <1>1
<1>3. Readable(more)
  BY ReadableAppend DEF Playable
<1>4. Whole(Replay(more))
  BY ReplayAppend
<1> HIDE DEF more
<1>5. ASSUME NEW n \in 0..Len(more) PROVE Whole(Replay(SubSeq(more, 1, n)))
  <2>1. CASE n = Len(lines) + 1
    BY <1>2, <1>4, <2>1
  <2>2. CASE n # Len(lines) + 1
    <3>1. n \in 0..Len(lines)
      BY <1>2, <2>2
    <3> QED BY <1>2, <3>1 DEF Playable
  <2> QED BY <2>1, <2>2
<1>6. Playable(more)
  BY <1>3, <1>5 DEF Playable
<1> QED BY <1>6 DEF more

LEMMA PlayableEmpty == Playable(<<>>)
<1>1. Len(<<>>) = 0 /\ SubSeq(<<>>, 1, 0) = <<>>
  OBVIOUS
<1>2. Whole(EmptySession)
  BY EmptyRange DEF Whole, EmptySession
<1>3. Readable(<<>>)
  BY DEF Readable
<1>4. ASSUME NEW n \in 0..Len(<<>>) PROVE Whole(Replay(SubSeq(<<>>, 1, n)))
  <2>1. n = 0
    BY <1>1
  <2>2. SubSeq(<<>>, 1, n) = <<>>
    BY <1>1, <2>1
  <2> QED BY <1>2, <2>2, ReplayEmpty
<1> QED BY <1>3, <1>4 DEF Playable

\* Replaying a readable file never leads to what NotLoaded stands for.
LEMMA PlayableIsWhole ==
  ASSUME NEW lines, lines \in Seq(Range(lines)), Playable(lines)
  PROVE  Whole(Replay(lines)) /\ Replay(lines) # NotLoaded
<1>1. Len(lines) \in 0..Len(lines) /\ SubSeq(lines, 1, Len(lines)) = lines
  OBVIOUS
<1>2. NotLoaded.leaf \notin Nat
  BY DEF NotLoaded, EmptySession
<1>3. Whole(Replay(lines))
  BY <1>1 DEF Playable
<1> QED BY <1>2, <1>3 DEF Whole

\* The events of the operations keep a Session whole.
LEMMA ReduceWhole ==
  ASSUME NEW s, Whole(s), NEW e, Accepts(s, e),
         e.op \in {"input_enqueued", "input_edited", "turn_committed", "leaf_changed",
                   "context_summary_created"}
  PROVE  Whole(Reduce(s, e))
<1>1. /\ s = [pending |-> s.pending, entries |-> s.entries, leaf |-> s.leaf,
              summaries |-> s.summaries]
      /\ s.entries \in Seq(Range(s.entries)) /\ s.leaf \in Nat /\ Len(s.entries) \in Nat
  BY DEF Whole
<1>2. CASE e.op = "input_enqueued"
  BY <1>1, <1>2 DEF Whole, Reduce
<1>3. CASE e.op = "input_edited"
  <2> DEFINE pending == [k \in DOMAIN s.pending |->
               IF s.pending[k].id = e.input THEN [id |-> e.input, rev |-> e.rev + 1]
               ELSE s.pending[k]]
  <2>1. Reduce(s, e) = [s EXCEPT !.pending = pending]
    BY <1>3 DEF Reduce
  <2> HIDE DEF pending
  <2> QED BY <1>1, <2>1 DEF Whole
<1>4. CASE e.op = "turn_committed"
  <2> DEFINE turn == [parent |-> e.base, inputs |-> Inputs(e.consumed)]
             pending == SubSeq(s.pending, Len(e.consumed) + 1, Len(s.pending))
  <2>1. Reduce(s, e) = [s EXCEPT !.pending = pending, !.entries = Append(s.entries, turn),
                                 !.leaf = Len(s.entries) + 1]
    BY <1>4 DEF Reduce
  <2>2. Append(s.entries, turn) \in Seq(Range(Append(s.entries, turn)))
    BY <1>1, AppendRange
  <2> HIDE DEF pending, turn
  <2>3. Reduce(s, e) = [pending |-> pending, entries |-> Append(s.entries, turn),
                        leaf |-> Len(s.entries) + 1, summaries |-> s.summaries]
    BY <1>1, <2>1
  <2> QED BY <1>1, <2>2, <2>3 DEF Whole
<1>5. CASE e.op = "leaf_changed"
  <2>1. e.to \in Nat
    BY <1>1, <1>5 DEF Accepts
  <2> QED BY <1>1, <1>5, <2>1 DEF Whole, Reduce
<1>6. CASE e.op = "context_summary_created"
  BY <1>1, <1>6 DEF Whole, Reduce
<1> QED BY <1>2, <1>3, <1>4, <1>5, <1>6

\* The lines behind a save of records, where nothing is written by halves.
LEMMA SavedLines ==
  ASSUME CleanFaults, LogShape, session # NotLoaded,
         NEW records, records \in Seq(Range(records)), Playable(file.lines \o records)
  PROVE  /\ SaveReturns(records) => file'.lines = file.lines \o records
         /\ SaveDies(records) => Playable(file'.lines)
<1> DEFINE whole == file.lines \o records
           n == Len(file.lines)
<1>1. /\ ~file.torn /\ file.lines \in Seq(Range(file.lines)) /\ n \in Nat
      /\ file = [exists |-> file.exists, named |-> file.named, lines |-> file.lines,
                 torn |-> file.torn, synced |-> file.synced]
      /\ ~file.exists => file.lines = <<>>
  BY DEF LogShape, IsFile, Files, NoFile
<1>2. /\ whole \in Seq(Range(whole)) /\ Len(whole) = n + Len(records)
  BY <1>1, ConcatRange, Zenon
<1>3. /\ SubSeq(records, 1, Len(records)) = records
      /\ <<>> \o records = records
  OBVIOUS
<1>4. WriteAll(records).lines = whole
  <2>1. CASE file.exists
    BY <1>1, <1>3, <2>1 DEF WriteAll, Appended, LinesAfter
  <2>2. CASE ~file.exists
    BY <1>1, <1>3, <2>2 DEF WriteAll, NewFile
  <2> QED BY <2>1, <2>2
<1>5. ASSUME SaveReturns(records) PROVE file'.lines = whole
  <2> DEFINE w == WriteAll(records)
  <2>1. w = [exists |-> w.exists, named |-> w.named, lines |-> w.lines,
                torn |-> w.torn, synced |-> w.synced]
    BY <1>1 DEF WriteAll, Appended, NewFile
  <2>2. file' = [w EXCEPT !.named = TRUE, !.synced = Len(w.lines)]
    BY <1>5 DEF SaveReturns
  <2> HIDE DEF w
  <2>3. file'.lines = w.lines
    BY <2>1, <2>2
  <2> QED BY <1>4, <2>3 DEF w
<1>6. ASSUME SaveDies(records) PROVE Playable(file'.lines)
  <2>1. CASE UNCHANGED file
    <3>1. SubSeq(whole, 1, n) = file.lines
      <4> DEFINE T == Range(file.lines) \cup Range(records)
                 lines == file.lines
      <4>1. lines \in Seq(T) /\ records \in Seq(T)
        BY <1>1, LongerSeq
      <4> HIDE DEF T, lines
      <4>2. SubSeq(lines \o records, 1, Len(lines)) = lines
        BY <4>1
      <4> QED BY <4>2 DEF lines
    <3>2. n \in 0..Len(whole)
      <4>1. Len(records) \in Nat
        OBVIOUS
      <4> QED BY <1>1, <1>2, <4>1
    <3> QED BY <1>2, <2>1, <3>1, <3>2, PlayablePrefix
  <2>2. CASE file.exists /\ StopsEarly(records)
    <3>1. PICK k \in 0..(Len(records) - 1), torn \in BOOLEAN :
            file' = Appended(records, k, torn)
      BY <2>2 DEF StopsEarly
    <3>2. file'.lines = file.lines \o SubSeq(records, 1, k)
      BY <1>1, <3>1 DEF Appended, LinesAfter
    <3>3. SubSeq(whole, 1, n + k) = file.lines \o SubSeq(records, 1, k)
      <4> DEFINE T == Range(file.lines) \cup Range(records)
                 lines == file.lines
      <4>1. lines \in Seq(T) /\ records \in Seq(T) /\ k \in 0..Len(records)
        BY <1>1, LongerSeq
      <4> HIDE DEF T, lines
      <4>2. SubSeq(lines \o records, 1, Len(lines) + k) = lines \o SubSeq(records, 1, k)
        BY <4>1
      <4> QED BY <4>2 DEF lines
    <3>4. n + k \in 0..Len(whole)
      <4>1. Len(records) \in Nat
        OBVIOUS
      <4> QED BY <1>1, <1>2, <4>1
    <3> QED BY <1>2, <3>2, <3>3, <3>4, PlayablePrefix
  <2>3. CASE file' = WriteAll(records)
    BY <1>4, <2>3
  <2> QED BY <1>6, <2>1, <2>2, <2>3 DEF SaveDies
<1> QED BY <1>5, <1>6

-----------------------------------------------------------------------------
(* Theorems *)

\* The invariant holds of a store that holds nothing.
LEMMA LogInvInit == Init => LogInv
<1> SUFFICES ASSUME Init PROVE LogInv
  OBVIOUS
<1>1. file.lines = <<>> /\ file.synced = 0 /\ Range(file.lines) = {} /\ ~file.torn
  BY EmptyRange DEF Init, NoFile
<1>2. LogShape
  BY <1>1, EmptyRange, NoFileIsFile DEF Init, LogShape
<1>3. Numbered /\ NamedOnce /\ ConfirmedKept /\ RefusedIsGone
  BY <1>1, EmptyRange DEF Init, Numbered, NamedOnce, ConfirmedKept, RefusedIsGone
<1> QED BY <1>2, <1>3 DEF LogInv

\* Every operation and every fault keeps the invariant.
LEMMA LogInvStep ==
  ASSUME CleanFaults, LogInv, [Next]_vars
  PROVE  LogInv'
<1>1. ASSUME NEW text, Enqueue(text) PROVE LogInv'
  BY <1>1, PerformStep DEF Enqueue, Enqueued
<1>2. ASSUME NEW k, NEW text, EditPending(k, text) PROVE LogInv'
  BY <1>2, PerformStep DEF EditPending, Edited
<1>3. ASSUME NEW k, NEW text, CommitWorkingMessages(k, text) PROVE LogInv'
  BY <1>3, PerformStep DEF CommitWorkingMessages, Committed
<1>4. ASSUME NEW n, Checkout(n) PROVE LogInv'
  BY <1>4, PerformStep DEF Checkout, Moved
<1>5. ASSUME NEW covered, NEW previous, NEW text,
             RecordContextSummary(covered, previous, text)
      PROVE  LogInv'
  BY <1>5, PerformStep DEF RecordContextSummary, Summarised
<1>6. CASE UNCHANGED vars
  BY <1>6 DEF vars, LogInv, LogShape, IsFile, Numbered, NamedOnce, ConfirmedKept,
              RefusedIsGone
<1> QED BY <1>1, <1>2, <1>3, <1>4, <1>5, <1>6,
           ResubmitStep, LoadStep, DeleteStep, CrashStep, PowerLossStep DEF Next

\* What save() of JsonlSessionStore has confirmed is in the synced part of the
\* file for ever, until the Session is deleted: across crashes and power losses
\* at any point, for every history of events.
THEOREM ConfirmedIsKept ==
  ASSUME CleanFaults
  PROVE  Spec => []ConfirmedKept
<1>1. LogInv /\ [Next]_vars => LogInv'
  BY LogInvStep
<1>2. LogInv => ConfirmedKept
  BY DEF LogInv
<1> QED BY LogInvInit, <1>1, <1>2, PTL DEF Spec

\* An edit or a commit that rollback_on_error has undone is never written by a
\* later save and never replayed after a restart.
THEOREM RefusedStaysGone ==
  ASSUME CleanFaults
  PROVE  Spec => []RefusedIsGone
<1>1. LogInv /\ [Next]_vars => LogInv'
  BY LogInvStep
<1>2. LogInv => RefusedIsGone
  BY DEF LogInv
<1> QED BY LogInvInit, <1>1, <1>2, PTL DEF Spec
-----------------------------------------------------------------------------
(* The Session and its replay *)

\* No text that str.splitlines would cut.
PlainTexts == Texts \subseteq {"plain"}

\* The file is readable, and the live Session is where its replay and the events
\* still to be written lead; what is not live has none to write.
Matches ==
  /\ Playable(file.lines)
  /\ session = NotLoaded => tracked = <<>>
  /\ session # NotLoaded =>
       /\ Playable(file.lines \o tracked)
       /\ session = Replay(file.lines \o tracked)

\* The invariant of the replay.
MatchInv == LogInv /\ Matches

\* The file with the events still to be written, as far as it matters here.
LEMMA LongFile ==
  ASSUME LogShape
  PROVE  /\ file.lines \o tracked \in Seq(Range(file.lines \o tracked))
         /\ Range(file.lines \o tracked) = Range(file.lines) \cup Range(tracked)
         /\ file.lines \o <<>> = file.lines
         /\ \A e : Append(file.lines \o tracked, e) = file.lines \o Append(tracked, e)
<1> DEFINE lines == file.lines
<1>1. lines \in Seq(Range(lines)) /\ tracked \in Seq(Range(tracked))
  BY DEF LogShape, IsFile, Files
<1> HIDE DEF lines
<1>2. /\ lines \o tracked \in Seq(Range(lines \o tracked))
      /\ Range(lines \o tracked) = Range(lines) \cup Range(tracked)
  BY <1>1, ConcatRange, Zenon
<1>3. lines \o <<>> = lines
  BY <1>1
<1>4. ASSUME NEW e PROVE Append(lines \o tracked, e) = lines \o Append(tracked, e)
  <2> DEFINE T == Range(lines) \cup Range(tracked) \cup {e}
  <2>1. lines \in Seq(T) /\ tracked \in Seq(T) /\ e \in T
    BY <1>1, LongerSeq
  <2> HIDE DEF T
  <2> QED BY <2>1
<1> QED BY <1>2, <1>3, <1>4 DEF lines

\* An operation of the live Session, whatever event it creates.
LEMMA PerformMatches ==
  ASSUME CleanFaults, MatchInv,
         NEW e, e.id = issued + 1, e.text = "plain", e # Garbage, Perform(e),
         e.op \in {"input_enqueued", "input_edited", "turn_committed", "leaf_changed",
                   "context_summary_created"}
  PROVE  Matches'
<1> DEFINE records == Append(tracked, e)
           before == file.lines \o tracked
<1>1. /\ issued \in Nat /\ session # NotLoaded /\ LogShape
      /\ tracked \in Seq(Range(tracked))
      /\ \A x \in Range(file.lines) \cup Range(tracked) : x.id \in 0..issued
      /\ Accepts(session, e)
      /\ Playable(before) /\ session = Replay(before)
  <2>1. \A x \in Range(tracked) : x.id \in 0..issued
    BY DEF MatchInv, LogInv, Numbered
  <2> QED BY <2>1 DEF MatchInv, LogInv, LogShape, Numbered, Perform, Matches
<1>2. /\ before \in Seq(Range(before))
      /\ Range(before) = Range(file.lines) \cup Range(tracked)
      /\ Append(before, e) = file.lines \o records
      /\ file.lines \o <<>> = file.lines
  BY <1>1, LongFile
<1>3. records \in Seq(Range(records))
  BY <1>1, AppendRange
<1>4. \A x \in Range(before) : x.id # e.id
  BY <1>1, <1>2
<1> HIDE DEF before
<1>5. Playable(Append(before, e))
  <2>1. Whole(Replay(before))
    BY <1>1, <1>2, PlayableIsWhole
  <2>2. Whole(Reduce(Replay(before), e))
    BY <1>1, <2>1, ReduceWhole
  <2> QED BY <1>1, <1>2, <1>4, <2>2, PlayableAppend
<1>6. /\ Replay(Append(before, e)) = Reduce(session, e)
      /\ Reduce(session, e) # NotLoaded
  <2>1. Replay(Append(before, e)) = Reduce(session, e)
    BY <1>1, <1>2, ReplayAppend
  <2>2. Append(before, e) \in Seq(Range(Append(before, e)))
    BY <1>2, AppendRange
  <2> QED BY <1>5, <2>1, <2>2, PlayableIsWhole
<1>7. /\ SaveReturns(records) => file'.lines = file.lines \o records
      /\ SaveDies(records) => Playable(file'.lines)
      /\ SaveRaises(records) => file' = file
  <2>1. SaveRaises(records) => file' = file
    BY DEF SaveRaises, CleanFaults
  <2> HIDE DEF records
  <2>2. Playable(file.lines \o records)
    BY <1>2, <1>5
  <2> QED BY <1>1, <1>3, <2>1, <2>2, SavedLines
<1>8. Matches
  BY DEF MatchInv
<1>9. ASSUME SaveReturns(records), session' = Reduce(session, e),
             tracked' = MarkPersisted(records)
      PROVE  Matches'
  <2>1. file'.lines = Append(before, e) /\ tracked' = <<>>
    BY <1>2, <1>7, <1>9 DEF MarkPersisted
  <2>2. file'.lines \o <<>> = file'.lines
    <3>1. Append(before, e) \in Seq(Range(Append(before, e)))
      BY <1>2, AppendRange
    <3> QED BY <2>1, <3>1
  <2> QED BY <1>5, <1>6, <1>9, <2>1, <2>2 DEF Matches
<1>10. ASSUME SaveRaises(records), RollsBack(e), session' = session, tracked' = tracked
       PROVE  Matches'
  BY <1>1, <1>7, <1>8, <1>10 DEF Matches, before
<1>11. ASSUME SaveRaises(records), ~RollsBack(e), session' = Reduce(session, e),
              tracked' = records
       PROVE  Matches'
  <2>1. file'.lines \o tracked' = Append(before, e)
    BY <1>2, <1>7, <1>11
  <2>2. Playable(file'.lines)
    BY <1>7, <1>8, <1>11 DEF Matches
  <2> QED BY <1>5, <1>6, <1>11, <2>1, <2>2 DEF Matches
<1>12. ASSUME SaveDies(records) PROVE Matches'
  BY <1>7, <1>12 DEF Matches, SaveDies
<1> HIDE DEF records
<1>13. \/ /\ SaveReturns(records) /\ session' = Reduce(session, e)
          /\ tracked' = MarkPersisted(records)
       \/ SaveRaises(records) /\ RollsBack(e) /\ session' = session /\ tracked' = tracked
       \/ /\ SaveRaises(records) /\ ~RollsBack(e) /\ session' = Reduce(session, e)
          /\ tracked' = records
       \/ SaveDies(records)
  BY DEF Perform, TrackedAfterError, records
<1> QED BY <1>9, <1>10, <1>11, <1>12, <1>13

\* Saving again what an earlier error has left.
LEMMA ResubmitMatches ==
  ASSUME CleanFaults, MatchInv, Resubmit
  PROVE  Matches'
<1> DEFINE before == file.lines \o tracked
<1>1. /\ session # NotLoaded /\ LogShape /\ tracked \in Seq(Range(tracked))
      /\ Playable(before) /\ session = Replay(before) /\ Playable(file.lines)
  BY DEF MatchInv, LogInv, LogShape, Resubmit, Matches
<1>2. /\ before \in Seq(Range(before)) /\ before \o <<>> = before
  <2>1. before \in Seq(Range(before))
    BY <1>1, LongFile
  <2> HIDE DEF before
  <2> QED BY <2>1
<1>3. /\ SaveReturns(tracked) => file'.lines = before
      /\ SaveDies(tracked) => Playable(file'.lines)
      /\ SaveRaises(tracked) => file' = file
  <2>1. SaveRaises(tracked) => file' = file
    BY DEF SaveRaises, CleanFaults
  <2> QED BY <1>1, <2>1, SavedLines
<1>4. CASE SaveReturns(tracked) /\ tracked' = MarkPersisted(tracked) /\ session' = session
  <2>1. file'.lines = before /\ tracked' = <<>>
    BY <1>3, <1>4 DEF MarkPersisted
  <2> HIDE DEF before
  <2> QED BY <1>1, <1>2, <1>4, <2>1 DEF Matches
<1>5. CASE SaveRaises(tracked) /\ UNCHANGED <<session, tracked>>
  BY <1>1, <1>3, <1>5 DEF Matches
<1>6. CASE SaveDies(tracked)
  BY <1>3, <1>6 DEF Matches, SaveDies
<1> QED BY <1>4, <1>5, <1>6 DEF Resubmit

\* A Session that is loaded is the replay of its file.
LEMMA LoadMatches ==
  ASSUME MatchInv, Load
  PROVE  Matches'
<1>1. /\ Playable(file.lines) /\ session = NotLoaded
      /\ file.lines \in Seq(Range(file.lines))
      /\ file = [exists |-> file.exists, named |-> file.named, lines |-> file.lines,
                 torn |-> file.torn, synced |-> file.synced]
      /\ tracked = <<>> /\ Readable(file.lines)
  BY DEF MatchInv, LogInv, LogShape, Matches, Playable, IsFile, Files, Load
<1>2. file'.lines = file.lines /\ session' = Replay(file.lines) /\ tracked' = <<>>
  BY <1>1 DEF Load, CompleteContent
<1>3. file'.lines \o tracked' = file'.lines
  <2> DEFINE lines == file.lines
  <2>1. lines \in Seq(Range(lines))
    BY <1>1
  <2> HIDE DEF lines
  <2>2. lines \o <<>> = lines
    BY <2>1
  <2> QED BY <1>2, <2>2 DEF lines
<1> QED BY <1>1, <1>2, <1>3 DEF Matches

\* Without a live Session only the file matters, which loses lines at its end only.
LEMMA DeathMatches ==
  ASSUME MatchInv, session' = NotLoaded, tracked' = <<>>,
         \/ file' = file
         \/ file' = NoFile
         \/ \E n \in 0..Len(file.lines) : file'.lines = SubSeq(file.lines, 1, n)
  PROVE  Matches'
<1>1. Playable(file.lines) /\ file.lines \in Seq(Range(file.lines))
  BY DEF MatchInv, LogInv, LogShape, Matches, IsFile, Files
<1>2. Playable(NoFile.lines)
  BY PlayableEmpty DEF NoFile
<1>3. Playable(file'.lines)
  BY <1>1, <1>2, PlayablePrefix
<1> QED BY <1>3 DEF Matches

LEMMA PowerLossMatches ==
  ASSUME MatchInv, PowerLoss
  PROVE  Matches'
<1>1. /\ file.synced \in Nat /\ Len(file.lines) \in Nat
      /\ file = [exists |-> file.exists, named |-> file.named, lines |-> file.lines,
                 torn |-> file.torn, synced |-> file.synced]
  BY DEF MatchInv, LogInv, LogShape, IsFile, Files
<1>2. ASSUME NEW n \in file.synced..Len(file.lines), NEW torn,
             file' = [file EXCEPT !.lines = SubSeq(@, 1, n), !.torn = torn]
      PROVE  \E k \in 0..Len(file.lines) : file'.lines = SubSeq(file.lines, 1, k)
  <2>1. n \in 0..Len(file.lines)
    BY <1>1
  <2>2. file'.lines = SubSeq(file.lines, 1, n)
    BY <1>1, <1>2
  <2> QED BY <2>1, <2>2
<1> QED BY <1>2, DeathMatches DEF PowerLoss

\* Every operation and every fault keeps it.
LEMMA MatchInvStep ==
  ASSUME CleanFaults, PlainTexts, MatchInv, [Next]_vars
  PROVE  MatchInv'
<1>1. LogInv'
  BY LogInvStep DEF MatchInv
<1> SUFFICES Matches'
  BY <1>1 DEF MatchInv
<1>2. ASSUME NEW text \in Texts, Enqueue(text) PROVE Matches'
  BY <1>2, PerformMatches DEF PlainTexts, Enqueue, Enqueued, Garbage
<1>3. ASSUME NEW text \in Texts, NEW k, EditPending(k, text)
      PROVE  Matches'
  BY <1>3, PerformMatches DEF PlainTexts, EditPending, Edited, Garbage
<1>4. ASSUME NEW text \in Texts, NEW k, CommitWorkingMessages(k, text)
      PROVE  Matches'
  BY <1>4, PerformMatches DEF PlainTexts, CommitWorkingMessages, Committed, Garbage
<1>5. ASSUME NEW n, Checkout(n) PROVE Matches'
  BY <1>5, PerformMatches DEF Checkout, Moved, Garbage
<1>6. ASSUME NEW text \in Texts, NEW covered, NEW previous,
             RecordContextSummary(covered, previous, text)
      PROVE  Matches'
  BY <1>6, PerformMatches DEF PlainTexts, RecordContextSummary, Summarised, Garbage
<1>7. CASE Delete
  BY <1>7, DeathMatches DEF Delete
<1>8. CASE Crash
  BY <1>8, DeathMatches DEF Crash
<1>9. CASE UNCHANGED vars
  BY <1>9 DEF vars, MatchInv, Matches
<1> QED BY <1>2, <1>3, <1>4, <1>5, <1>6, <1>7, <1>8, <1>9,
           ResubmitMatches, LoadMatches, PowerLossMatches DEF Next

LEMMA MatchInvInit == Init => MatchInv
<1> SUFFICES ASSUME Init PROVE MatchInv
  OBVIOUS
<1>1. file.lines = <<>> /\ session = NotLoaded /\ tracked = <<>>
  BY DEF Init, NoFile
<1> QED BY <1>1, LogInvInit, PlayableEmpty DEF MatchInv, Matches

\* The file of JsonlSessionStore can be replayed after any crash, power loss and
\* failed save: _read never refuses a line, whatever the history of the Session, if
\* a save that raises has written nothing and no text holds a line separator.
THEOREM LogIsReadable ==
  ASSUME CleanFaults, PlainTexts
  PROVE  Spec => []LogReadable
<1>1. MatchInv /\ [Next]_vars => MatchInv'
  BY MatchInvStep
<1>2. MatchInv => LogReadable
  BY DEF MatchInv, Matches, Playable, LogReadable
<1> QED BY MatchInvInit, <1>1, <1>2, PTL DEF Spec

\* The live Session is at any time what a replay of the file and of its unpersisted
\* events gives: rollback_on_error, a failed save and a save that is repeated never
\* make them differ.
THEOREM MemoryIsReplay ==
  ASSUME CleanFaults, PlainTexts
  PROVE  Spec => []MemoryMatchesLog
<1>1. MatchInv /\ [Next]_vars => MatchInv'
  BY MatchInvStep
<1>2. MatchInv => MemoryMatchesLog
  BY DEF MatchInv, Matches, Playable, MemoryMatchesLog
<1> QED BY MatchInvInit, <1>1, <1>2, PTL DEF Spec
=============================================================================
