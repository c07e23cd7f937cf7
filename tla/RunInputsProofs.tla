--------------------------- MODULE RunInputsProofs ---------------------------
(***************************************************************************)
(* Proofs about which inputs a run speaks for: the working messages, the   *)
(* checkpoint and the retained prefix of a pause hold the messages of      *)
(* exactly the inputs they name, in their order, and never more answers    *)
(* than the model turns they count.                                        *)
(***************************************************************************)
EXTENDS AgentRuntimeProofs

-----------------------------------------------------------------------------
(* The user messages of working messages *)

LEMMA UsersFacts ==
  ASSUME NEW msgs \in Seq(Messages)
  PROVE  /\ Len(msgs) \in Nat /\ UserPositions(msgs) \in SUBSET (1..Len(msgs))
         /\ Cardinality(UserPositions(msgs)) \in Nat
         /\ UsersOf(msgs) \in Seq(Messages)
         /\ Len(UsersOf(msgs)) = Cardinality(UserPositions(msgs))
         /\ \A k \in 1..Len(UsersOf(msgs)) :
              UsersOf(msgs)[k] = msgs[Nth(UserPositions(msgs), k)]
<1> DEFINE S == UserPositions(msgs)
           e(k) == msgs[Nth(S, k)]
<1>1. Len(msgs) \in Nat /\ DOMAIN msgs = 1..Len(msgs)
  BY LenProperties
<1>2. S \in SUBSET (1..Len(msgs))
  BY <1>1 DEF UserPositions
<1>3. Cardinality(S) \in Nat
  <2>1. Cardinality(S) \in 0..Len(msgs)
    BY <1>1, <1>2, CountFacts
  <2> QED BY <1>1, <2>1
<1>4. \A k \in 1..Cardinality(S) : e(k) \in Messages
  <2> SUFFICES ASSUME NEW k \in 1..Cardinality(S) PROVE e(k) \in Messages
    OBVIOUS
  <2>1. Nth(S, k) \in S
    BY <1>1, <1>2, NthExists
  <2> QED BY <1>2, <2>1, ElementOfSeq
<1>5. UsersOf(msgs) = [k \in 1..Cardinality(S) |-> e(k)]
  BY DEF UsersOf
<1> HIDE DEF e
<1>6. UsersOf(msgs) \in Seq(Messages)
  BY <1>3, <1>4, <1>5, IsASeq
<1>7. Len(UsersOf(msgs)) = Cardinality(S)
  <2>1. DOMAIN UsersOf(msgs) = 1..Len(UsersOf(msgs)) /\ Len(UsersOf(msgs)) \in Nat
    BY <1>6, LenProperties
  <2>2. DOMAIN UsersOf(msgs) = 1..Cardinality(S)
    BY <1>5
  <2>3. \A a, b \in Nat : 1..a = 1..b => a = b
    <3> SUFFICES ASSUME NEW a \in Nat, NEW b \in Nat, 1..a = 1..b PROVE a = b
      OBVIOUS
    <3>1. (a \in 1..a <=> a \in 1..b) /\ (b \in 1..a <=> b \in 1..b)
      OBVIOUS
    <3> QED BY <3>1
  <2> HIDE DEF S
  <2>4. 1..Len(UsersOf(msgs)) = 1..Cardinality(S)
    BY <2>1, <2>2, Zenon
  <2> QED BY <1>3, <2>1, <2>3, <2>4
<1>8. \A k \in 1..Cardinality(S) : UsersOf(msgs)[k] = e(k)
  BY <1>5
<1> QED BY <1>1, <1>2, <1>3, <1>6, <1>7, <1>8 DEF e

\* Longer working messages hold the same user messages first.
LEMMA UsersBehind ==
  ASSUME NEW a \in Seq(Messages), NEW b \in Seq(Messages), IsHead(a, b)
  PROVE  /\ UserPositions(a) = UserPositions(b) \cap (1..Len(a))
         /\ \A i \in 0..Len(a) : UserPositions(a) \cap (1..i) = UserPositions(b) \cap (1..i)
         /\ IsHead(UsersOf(a), UsersOf(b))
<1> DEFINE S == UserPositions(a)
           T == UserPositions(b)
<1>1. /\ Len(a) \in Nat /\ Len(b) \in Nat /\ Len(a) <= Len(b)
      /\ DOMAIN a = 1..Len(a) /\ DOMAIN b = 1..Len(b)
      /\ \A i \in 1..Len(a) : b[i] = a[i]
  BY LenProperties DEF IsHead
<1>2. S = T \cap (1..Len(a))
  <2>1. 1..Len(a) \subseteq 1..Len(b)
    BY <1>1
  <2> QED BY <1>1, <2>1 DEF UserPositions
<1>3. ASSUME NEW i \in 0..Len(a)
      PROVE  S \cap (1..i) = T \cap (1..i)
  <2>1. 1..i \subseteq 1..Len(a)
    BY <1>1
  <2> QED BY <1>2, <2>1
<1>4. S \in SUBSET (1..Len(a)) /\ T \in SUBSET (1..Len(b)) /\ S \subseteq T
  BY <1>2, UsersFacts
<1>5. Len(UsersOf(a)) = Cardinality(S) /\ Len(UsersOf(b)) = Cardinality(T)
      /\ Cardinality(S) \in Nat /\ Cardinality(T) \in Nat
  BY UsersFacts
<1>6. Cardinality(S) <= Cardinality(T)
  <2>1. IsFiniteSet(T) /\ S \in SUBSET T
    BY <1>1, <1>4, CountFacts
  <2> QED BY <2>1, FS_Subset
<1>7. ASSUME NEW k \in 1..Cardinality(S)
      PROVE  UsersOf(b)[k] = UsersOf(a)[k]
  <2>1. PICK i \in S : i = Nth(S, k) /\ Cardinality(S \cap (1..i)) = k
    BY <1>1, <1>4, NthExists
  <2>2. i \in 1..Len(a) /\ i \in 0..Len(a) /\ i \in T
    BY <1>1, <1>4
  <2>3. Cardinality(T \cap (1..i)) = k
    BY <1>3, <2>1, <2>2
  <2>4. Nth(T, k) = i
    BY <1>1, <1>4, <2>2, <2>3, NthIs
  <2>5. UsersOf(a)[k] = a[i] /\ UsersOf(b)[k] = b[i]
    <3>1. k \in 1..Len(UsersOf(a)) /\ k \in 1..Len(UsersOf(b))
      BY <1>5, <1>6
    <3> HIDE DEF S, T
    <3>2. UsersOf(a)[k] = a[Nth(S, k)] /\ UsersOf(b)[k] = b[Nth(T, k)]
      BY <3>1, UsersFacts DEF S, T
    <3> QED BY <2>1, <2>4, <3>2, Zenon
  <2> QED BY <1>1, <2>2, <2>5
<1>8. IsHead(UsersOf(a), UsersOf(b))
  BY <1>5, <1>6, <1>7 DEF IsHead
<1> QED BY <1>2, <1>3, <1>8

\* No user message among the further ones: the user messages stay the same.
LEMMA SameUsers ==
  ASSUME NEW a \in Seq(Messages), NEW b \in Seq(Messages), IsHead(a, b),
         \A i \in (Len(a) + 1)..Len(b) : b[i].kind # "user"
  PROVE  UsersOf(b) = UsersOf(a)
<1>1. /\ Len(a) \in Nat /\ Len(b) \in Nat /\ DOMAIN b = 1..Len(b) /\ DOMAIN a = 1..Len(a)
  BY LenProperties
<1>2. UserPositions(b) = UserPositions(a)
  <2>1. UserPositions(a) = UserPositions(b) \cap (1..Len(a))
    BY UsersBehind
  <2>2. \A i \in 1..Len(b) : i \in 1..Len(a) \/ i \in (Len(a) + 1)..Len(b)
    BY <1>1
  <2>3. UserPositions(b) \subseteq 1..Len(a)
    BY <1>1, <2>2 DEF UserPositions
  <2> QED BY <2>1, <2>3
<1>3. Len(UsersOf(b)) = Len(UsersOf(a)) /\ UsersOf(a) \in Seq(Messages) /\ UsersOf(b) \in Seq(Messages)
  BY <1>2, UsersFacts
<1>4. \A k \in 1..Len(UsersOf(a)) : UsersOf(b)[k] = UsersOf(a)[k]
  BY UsersBehind DEF IsHead
<1> QED BY <1>3, <1>4, SeqEqual

\* A user message is the one its position counts it as.
LEMMA UserAt ==
  ASSUME NEW msgs \in Seq(Messages), NEW i \in 1..Len(msgs), msgs[i].kind = "user"
  PROVE  \E k \in 1..Len(UsersOf(msgs)) : UsersOf(msgs)[k] = msgs[i]
<1> DEFINE S == UserPositions(msgs)
           k == Cardinality(S \cap (1..i))
<1>1. i \in S /\ S \in SUBSET (1..Len(msgs)) /\ Len(msgs) \in Nat
  BY UsersFacts, LenProperties DEF UserPositions
<1>2. Nth(S, k) = i /\ k \in 1..Cardinality(S)
  BY <1>1, NthIs
<1> HIDE DEF k
<1>3. k \in 1..Len(UsersOf(msgs)) /\ UsersOf(msgs)[k] = msgs[i]
  BY <1>2, UsersFacts
<1> QED BY <1>3

\* The k-th user message stands somewhere among the messages.
LEMMA UserStands ==
  ASSUME NEW msgs \in Seq(Messages), NEW k \in 1..Len(UsersOf(msgs))
  PROVE  \E i \in 1..Len(msgs) : msgs[i] = UsersOf(msgs)[k] /\ msgs[i].kind = "user"
<1>1. /\ UserPositions(msgs) \in SUBSET (1..Len(msgs)) /\ Len(msgs) \in Nat
      /\ k \in 1..Cardinality(UserPositions(msgs))
      /\ UsersOf(msgs)[k] = msgs[Nth(UserPositions(msgs), k)]
  BY UsersFacts
<1>2. PICK i \in UserPositions(msgs) : i = Nth(UserPositions(msgs), k)
  BY <1>1, NthExists
<1>3. msgs[i].kind = "user" /\ i \in 1..Len(msgs)
  BY <1>1 DEF UserPositions
<1> QED BY <1>1, <1>2, <1>3

\* The positions behind the first n, and how they count on.
LEMMA CountNext ==
  ASSUME NEW n \in Nat, NEW j \in Nat
  PROVE  IsFiniteSet((n + 1)..(n + j)) /\ Cardinality((n + 1)..(n + j)) = j
<1>1. PICK a \in Int, b \in Int : a = n + 1 /\ b = n + j
  OBVIOUS
<1>2. IsFiniteSet(a..b) /\ Cardinality(a..b) = IF a > b THEN 0 ELSE b - a + 1
  BY FS_Interval
<1>3. (IF a > b THEN 0 ELSE b - a + 1) = j
  BY <1>1
<1> QED BY <1>1, <1>2, <1>3

LEMMA CountJoined ==
  ASSUME NEW S, NEW V, IsFiniteSet(S), IsFiniteSet(V), \A i \in V : i \notin S
  PROVE  Cardinality(S \cup V) = Cardinality(S) + Cardinality(V)
<1>1. S \cap V = {}
  OBVIOUS
<1>2. Cardinality(S \cap V) = 0
  BY <1>1, FS_EmptySet
<1>3. Cardinality(S) \in Nat /\ Cardinality(V) \in Nat
  BY FS_CardinalityType
<1>4. Cardinality(S \cup V) = Cardinality(S) + Cardinality(V) - Cardinality(S \cap V)
  BY FS_Union
<1> QED BY <1>2, <1>3, <1>4

\* The first k members of a sequence.
LEMMA PrefixFacts ==
  ASSUME NEW S, NEW s \in Seq(S), NEW k \in 0..Len(s)
  PROVE  /\ SubSeq(s, 1, k) \in Seq(S) /\ Len(SubSeq(s, 1, k)) = k
         /\ \A i \in 1..k : SubSeq(s, 1, k)[i] = s[i]
<1>1. Len(s) \in Nat /\ k \in Nat
  BY LenProperties
<1>2. \A i \in 1..k : s[i] \in S
  BY <1>1, ElementOfSeq
<1>3. /\ SubSeq(s, 1, k) \in Seq(S)
      /\ Len(SubSeq(s, 1, k)) = IF 1 <= k THEN k - 1 + 1 ELSE 0
      /\ \A i \in 1..(k - 1 + 1) : SubSeq(s, 1, k)[i] = s[1 + i - 1]
  BY <1>1, <1>2, SubSeqProperties
<1>4. (IF 1 <= k THEN k - 1 + 1 ELSE 0) = k /\ k - 1 + 1 = k
  BY <1>1
<1>5. \A i \in 1..k : 1 + i - 1 = i
  BY <1>1
<1> QED BY <1>3, <1>4, <1>5

\* Messages b that are a and the messages of further inputs.
LEMMA UsersJoined ==
  ASSUME NEW a \in Seq(Messages), NEW more \in Seq(Items), NEW b \in Seq(Messages),
         Len(b) = Len(a) + Len(more), IsHead(a, b),
         \A j \in 1..Len(more) : b[Len(a) + j] = ToUserMessage(more[j])
  PROVE  /\ Len(UsersOf(b)) = Len(UsersOf(a)) + Len(more)
         /\ \A j \in 1..Len(UsersOf(a)) : UsersOf(b)[j] = UsersOf(a)[j]
         /\ \A j \in 1..Len(more) : UsersOf(b)[Len(UsersOf(a)) + j] = ToUserMessage(more[j])
<1>1. PICK n \in Nat, m \in Nat : n = Len(a) /\ m = Len(more)
  BY LenProperties
<1>2. PICK S \in SUBSET (1..n), T \in SUBSET (1..(n + m)) :
        S = UserPositions(a) /\ T = UserPositions(b)
  BY <1>1, UsersFacts
<1>3. Len(UsersOf(a)) = Cardinality(S) /\ Len(UsersOf(b)) = Cardinality(T) /\ Cardinality(S) \in Nat
  BY <1>2, UsersFacts
<1>4. S = T \cap (1..n)
  BY <1>1, <1>2, UsersBehind
<1>5. \A j \in 1..m : n + j \in T
  <2> SUFFICES ASSUME NEW j \in 1..m PROVE n + j \in T
    OBVIOUS
  <2>1. DOMAIN b = 1..(n + m)
    BY <1>1, LenProperties
  <2>2. n + j \in DOMAIN b
    BY <2>1
  <2>3. b[n + j] = ToUserMessage(more[j])
    BY <1>1
  <2>4. b[n + j].kind = "user"
    BY <2>3 DEF ToUserMessage, Message
  <2> QED BY <1>2, <2>2, <2>4 DEF UserPositions
<1>6. T = S \cup ((n + 1)..(n + m))
  <2>1. ASSUME NEW i \in (n + 1)..(n + m) PROVE i \in T
    <3>1. i - n \in 1..m /\ n + (i - n) = i
      OBVIOUS
    <3> QED BY <1>5, <3>1
  <2>2. \A i \in 1..(n + m) : i \in 1..n \/ i \in (n + 1)..(n + m)
    OBVIOUS
  <2> QED BY <1>4, <2>1, <2>2
<1>7. /\ Cardinality(T) = Cardinality(S) + m
      /\ \A j \in 1..m : Nth(T, Cardinality(S) + j) = n + j
  <2>1. IsFiniteSet(S)
    BY CountFacts
  <2>2. ASSUME NEW j \in 0..m
        PROVE  Cardinality(T \cap (1..(n + j))) = Cardinality(S) + j
    <3>1. PICK V : V = (n + 1)..(n + j)
      OBVIOUS
    <3>2. IsFiniteSet(V) /\ Cardinality(V) = j
      <4>1. j \in Nat
        OBVIOUS
      <4>2. IsFiniteSet((n + 1)..(n + j)) /\ Cardinality((n + 1)..(n + j)) = j
        BY <4>1, CountNext, Zenon
      <4> QED BY <3>1, <4>2, Zenon
    <3>3. \A i \in V : i \in (n + 1)..(n + m) /\ i \in 1..(n + j) /\ i \notin S
      BY <3>1
    <3>4. \A i \in S : i \in 1..(n + j)
      OBVIOUS
    <3>5. \A i \in (n + 1)..(n + m) : i \in 1..(n + j) => i \in V
      BY <3>1
    <3>6. T \cap (1..(n + j)) = S \cup V
      BY <1>6, <3>3, <3>4, <3>5
    <3>7. Cardinality(S \cup V) = Cardinality(S) + Cardinality(V)
      BY <2>1, <3>2, <3>3, CountJoined
    <3> QED BY <3>2, <3>6, <3>7
  <2>3. Cardinality(T) = Cardinality(S) + m
    <3>1. T \cap (1..(n + m)) = T
      OBVIOUS
    <3>2. Cardinality(T \cap (1..(n + m))) = Cardinality(S) + m
      BY <2>2
    <3> QED BY <3>1, <3>2
  <2>4. ASSUME NEW j \in 1..m PROVE Nth(T, Cardinality(S) + j) = n + j
    <3>1. PICK h \in Nat : h = n + m
      OBVIOUS
    <3>2. PICK i \in T : i = n + j
      BY <1>5
    <3>3. T \in SUBSET (1..h)
      BY <3>1
    <3>4. Nth(T, Cardinality(T \cap (1..i))) = i
      BY <3>3, NthIs
    <3>5. Cardinality(T \cap (1..i)) = Cardinality(S) + j
      BY <2>2, <3>2
    <3> QED BY <3>2, <3>4, <3>5
  <2> QED BY <2>3, <2>4
<1>8. ASSUME NEW j \in 1..m
      PROVE  UsersOf(b)[Cardinality(S) + j] = ToUserMessage(more[j])
  <2>1. Cardinality(S) + j \in 1..Len(UsersOf(b))
    BY <1>3, <1>7
  <2>2. UsersOf(b)[Cardinality(S) + j] = b[Nth(T, Cardinality(S) + j)]
    BY <1>2, <2>1, UsersFacts
  <2>3. b[n + j] = ToUserMessage(more[j])
    BY <1>1
  <2> QED BY <1>7, <2>2, <2>3
<1>9. \A j \in 1..Len(UsersOf(a)) : UsersOf(b)[j] = UsersOf(a)[j]
  BY UsersBehind DEF IsHead
<1> QED BY <1>1, <1>3, <1>7, <1>8, <1>9

\* Appending the messages of further inputs.
LEMMA UsersExtend ==
  ASSUME NEW a \in Seq(Messages), NEW items \in Seq(Items), NEW more \in Seq(Items),
         UsersOf(a) = ToUserMessages(items)
  PROVE  UsersOf(a \o ToUserMessages(more)) = ToUserMessages(items \o more)
<1>1. PICK u \in Seq(Messages) : u = ToUserMessages(more)
  BY UserMessages
<1>2. Len(u) = Len(more) /\ \A j \in 1..Len(more) : u[j] = ToUserMessage(more[j])
  BY <1>1, UserMessages
<1>3. PICK b \in Seq(Messages) : b = a \o u
  BY ConcatFacts
<1>4. /\ Len(b) = Len(a) + Len(more) /\ \A i \in 1..Len(a) : b[i] = a[i]
      /\ \A j \in 1..Len(more) : b[Len(a) + j] = ToUserMessage(more[j])
  <2>1. /\ Len(b) = Len(a) + Len(u) /\ \A i \in 1..Len(a) : b[i] = a[i]
        /\ \A j \in 1..Len(u) : b[Len(a) + j] = u[j]
    BY <1>3, ConcatFacts
  <2> QED BY <1>2, <2>1
<1>5. IsHead(a, b)
  <2>1. Len(a) \in Nat /\ Len(more) \in Nat
    BY LenProperties
  <2> QED BY <1>4, <2>1 DEF IsHead
<1>6. PICK both \in Seq(Items) : both = items \o more
  BY ConcatFacts
<1>7. /\ Len(both) = Len(items) + Len(more)
      /\ \A j \in 1..Len(items) : both[j] = items[j]
      /\ \A j \in 1..Len(more) : both[Len(items) + j] = more[j]
  BY <1>6, ConcatFacts
<1>8. PICK r \in Seq(Messages) : r = ToUserMessages(both)
  BY UserMessages
<1>9. Len(r) = Len(both) /\ \A j \in 1..Len(both) : r[j] = ToUserMessage(both[j])
  BY <1>8, UserMessages
<1>10. Len(UsersOf(a)) = Len(items) /\ \A j \in 1..Len(items) : UsersOf(a)[j] = ToUserMessage(items[j])
  BY UserMessages
<1>11. /\ Len(UsersOf(b)) = Len(items) + Len(more)
       /\ \A j \in 1..Len(items) : UsersOf(b)[j] = ToUserMessage(items[j])
       /\ \A j \in 1..Len(more) : UsersOf(b)[Len(items) + j] = ToUserMessage(more[j])
  <2>1. /\ Len(UsersOf(b)) = Len(UsersOf(a)) + Len(more)
        /\ \A j \in 1..Len(UsersOf(a)) : UsersOf(b)[j] = UsersOf(a)[j]
        /\ \A j \in 1..Len(more) : UsersOf(b)[Len(UsersOf(a)) + j] = ToUserMessage(more[j])
    BY <1>4, <1>5, UsersJoined
  <2> QED BY <1>10, <2>1
<1>12. PICK c \in Nat, m \in Nat : c = Len(items) /\ m = Len(more)
  BY LenProperties
<1>13. ASSUME NEW j \in 1..(c + m) PROVE UsersOf(b)[j] = r[j]
  <2>1. r[j] = ToUserMessage(both[j])
    BY <1>7, <1>9, <1>12
  <2>2. CASE j \in 1..c
    BY <1>7, <1>11, <1>12, <2>1, <2>2
  <2>3. CASE j \notin 1..c
    <3>1. PICK i \in 1..m : j = c + i
      <4>1. j - c \in 1..m /\ j = c + (j - c)
        BY <2>3
      <4> QED BY <4>1
    <3> QED BY <1>7, <1>11, <1>12, <2>1, <3>1
  <2> QED BY <2>2, <2>3
<1>14. UsersOf(b) \in Seq(Messages) /\ Len(UsersOf(b)) = Len(r)
  BY <1>7, <1>9, <1>11, UsersFacts
<1>15. UsersOf(b) = r
  BY <1>7, <1>9, <1>12, <1>13, <1>14, SeqEqual
<1> QED BY <1>1, <1>3, <1>6, <1>8, <1>15

\* What is preserved of working messages, up to a position, speaks for the
\* inputs whose messages it holds, the first ones of the run.
LEMMA UsersPreserved ==
  ASSUME NEW src \in Seq(Messages), NEW inc \in Seq(Items),
         \A i, j \in 1..Len(inc) : inc[i].id = inc[j].id => i = j,
         NEW k \in 0..Len(inc), UsersOf(src) = ToUserMessages(SubSeq(inc, 1, k)),
         NEW p \in Seq(Messages), IsHead(p, src),
         NEW c, c = Cardinality({i \in DOMAIN inc : ToUserMessage(inc[i]) \in Range(p)})
  PROVE  /\ c \in 0..Len(inc)
         /\ UsersOf(p) = ToUserMessages(SubSeq(inc, 1, c))
         /\ \A i \in 1..c : \E j \in 1..Len(p) : p[j] = ToUserMessage(inc[i])
<1> DEFINE n == Len(UsersOf(p))
<1>1. /\ Len(inc) \in Nat /\ k \in Nat /\ k <= Len(inc) /\ DOMAIN inc = 1..Len(inc)
      /\ Len(p) \in Nat /\ DOMAIN p = 1..Len(p) /\ n \in Nat /\ UsersOf(p) \in Seq(Messages)
  BY LenProperties, UsersFacts
<1>2. /\ SubSeq(inc, 1, k) \in Seq(Items) /\ Len(SubSeq(inc, 1, k)) = k
      /\ \A i \in 1..k : SubSeq(inc, 1, k)[i] = inc[i]
  BY PrefixFacts
<1>3. Len(UsersOf(src)) = k /\ \A i \in 1..k : UsersOf(src)[i] = ToUserMessage(inc[i])
  <2>1. PICK part \in Seq(Items) : part = SubSeq(inc, 1, k)
    BY <1>2
  <2>2. Len(part) = k /\ (\A i \in 1..k : part[i] = inc[i]) /\ UsersOf(src) = ToUserMessages(part)
    BY <1>2, <2>1
  <2> QED BY <2>2, UserMessages
<1>4. n <= k /\ \A i \in 1..n : UsersOf(p)[i] = ToUserMessage(inc[i])
  <2>1. IsHead(UsersOf(p), UsersOf(src))
    BY UsersBehind
  <2>2. n <= k /\ \A i \in 1..n : UsersOf(src)[i] = UsersOf(p)[i]
    BY <1>3, <2>1 DEF IsHead
  <2>3. 1..n \subseteq 1..k
    BY <1>1, <2>2
  <2> QED BY <1>3, <2>2, <2>3
<1>5. \A i \in 1..n : \E j \in 1..Len(p) : p[j] = ToUserMessage(inc[i])
  <2> SUFFICES ASSUME NEW i \in 1..n
               PROVE  \E j \in 1..Len(p) : p[j] = ToUserMessage(inc[i])
    OBVIOUS
  <2>1. \E j \in 1..Len(p) : p[j] = UsersOf(p)[i] /\ p[j].kind = "user"
    BY UserStands
  <2> QED BY <1>4, <2>1
<1>6. ASSUME NEW i \in 1..Len(inc), NEW j \in 1..Len(p), p[j] = ToUserMessage(inc[i])
      PROVE  i \in 1..n
  <2>1. p[j].kind = "user" /\ p[j].ref = inc[i].id
    BY <1>6 DEF ToUserMessage, Message
  <2>2. PICK h \in 1..n : UsersOf(p)[h] = p[j]
    BY <2>1, UserAt
  <2>3. p[j] = ToUserMessage(inc[h])
    BY <1>4, <2>2
  <2>4. p[j].ref = inc[h].id /\ h \in 1..Len(inc)
    BY <1>1, <1>4, <2>3 DEF ToUserMessage, Message
  <2> QED BY <2>1, <2>4
<1>7. {i \in DOMAIN inc : ToUserMessage(inc[i]) \in Range(p)} = 1..n
  <2>1. Range(p) = {p[j] : j \in 1..Len(p)}
    BY <1>1 DEF Range
  <2>2. 1..n \subseteq 1..Len(inc)
    BY <1>1, <1>4
  <2> QED BY <1>1, <1>5, <1>6, <2>1, <2>2
<1>8. c = n
  <2>1. c = Cardinality(1..n)
    BY <1>7, Zenon
  <2>2. \A h \in Nat : Cardinality(1..h) = h
    <3> SUFFICES ASSUME NEW h \in Nat PROVE Cardinality(1..h) = h
      OBVIOUS
    <3>1. Cardinality(1..h) = IF 1 > h THEN 0 ELSE h - 1 + 1
      BY FS_Interval
    <3> QED BY <3>1
  <2> QED BY <1>1, <2>1, <2>2
<1>9. c \in 0..Len(inc)
  BY <1>1, <1>4, <1>8
<1>10. /\ SubSeq(inc, 1, c) \in Seq(Items) /\ Len(SubSeq(inc, 1, c)) = c
       /\ \A i \in 1..c : SubSeq(inc, 1, c)[i] = inc[i]
  BY <1>9, PrefixFacts
<1> HIDE DEF n
<1> DEFINE r == ToUserMessages(SubSeq(inc, 1, c))
<1>11. r \in Seq(Messages) /\ Len(r) = c /\ \A i \in 1..c : r[i] = ToUserMessage(inc[i])
  <2>1. PICK part \in Seq(Items) : part = SubSeq(inc, 1, c)
    BY <1>10
  <2>2. Len(part) = c /\ (\A i \in 1..c : part[i] = inc[i])
    BY <1>10, <2>1
  <2>3. r = ToUserMessages(part)
    BY <2>1
  <2> HIDE DEF r
  <2>4. r \in Seq(Messages) /\ Len(r) = Len(part)
        /\ \A i \in 1..Len(part) : r[i] = ToUserMessage(part[i])
    BY <2>3, UserMessages
  <2> QED BY <2>2, <2>4
<1> HIDE DEF r
<1>12. UsersOf(p) = r
  <2>1. UsersOf(p) \in Seq(Messages) /\ Len(UsersOf(p)) = Len(r)
    BY <1>1, <1>8, <1>11 DEF n
  <2>2. \A i \in 1..Len(UsersOf(p)) : UsersOf(p)[i] = r[i]
    BY <1>4, <1>8, <1>11 DEF n
  <2> QED BY <1>11, <2>1, <2>2, SeqEqual
<1> QED BY <1>5, <1>8, <1>9, <1>12 DEF r

-----------------------------------------------------------------------------
(* The answers of working messages *)

\* How many messages of the model there are.
Answers(msgs) == Cardinality({i \in DOMAIN msgs : IsAssistant(msgs[i])})

LEMMA HeadRefl ==
  ASSUME NEW S, NEW a \in Seq(S)
  PROVE  IsHead(a, a)
<1>1. Len(a) \in Nat
  BY LenProperties
<1> QED BY <1>1 DEF IsHead

LEMMA HeadTrans ==
  ASSUME NEW S, NEW a \in Seq(S), NEW b \in Seq(S), NEW c \in Seq(S),
         IsHead(a, b), IsHead(b, c)
  PROVE  IsHead(a, c)
<1>1. Len(a) \in Nat /\ Len(b) \in Nat /\ Len(c) \in Nat
  BY LenProperties
<1>2. Len(a) <= Len(b) /\ Len(b) <= Len(c)
  BY DEF IsHead
<1>3. \A i \in 1..Len(a) : i \in 1..Len(b)
  BY <1>1, <1>2
<1>4. \A i \in 1..Len(a) : c[i] = a[i]
  BY <1>3 DEF IsHead
<1> QED BY <1>1, <1>2, <1>4 DEF IsHead

LEMMA HeadAppended ==
  ASSUME NEW S, NEW a \in Seq(S), NEW x \in S
  PROVE  IsHead(a, Append(a, x))
<1>1. IsHead(a, a)
  BY HeadRefl
<1> QED BY <1>1, AppendKeepsHead

LEMMA HeadConcatenated ==
  ASSUME NEW S, NEW a \in Seq(S), NEW b \in Seq(S)
  PROVE  IsHead(a, a \o b)
<1>1. Len(a) \in Nat /\ Len(b) \in Nat
  BY LenProperties
<1>2. Len(a \o b) = Len(a) + Len(b) /\ \A i \in 1..Len(a) : (a \o b)[i] = a[i]
  BY ConcatFacts
<1> QED BY <1>1, <1>2 DEF IsHead

LEMMA HeadCut ==
  ASSUME NEW S, NEW a \in Seq(S), NEW k \in 0..Len(a)
  PROVE  SubSeq(a, 1, k) \in Seq(S) /\ IsHead(SubSeq(a, 1, k), a)
<1>1. Len(a) \in Nat /\ k \in Nat /\ k <= Len(a)
  BY LenProperties
<1>2. /\ SubSeq(a, 1, k) \in Seq(S) /\ Len(SubSeq(a, 1, k)) = k
      /\ \A i \in 1..k : SubSeq(a, 1, k)[i] = a[i]
  BY PrefixFacts
<1>3. \A i \in 1..k : a[i] = SubSeq(a, 1, k)[i]
  BY <1>2
<1> HIDE DEF IsHead
<1> QED BY <1>1, <1>2, <1>3 DEF IsHead

\* What heads a sequence is the first part of it.
LEMMA HeadIsCut ==
  ASSUME NEW S, NEW a \in Seq(S), NEW b \in Seq(S), IsHead(a, b)
  PROVE  Len(a) \in 0..Len(b) /\ a = SubSeq(b, 1, Len(a))
<1>1. Len(a) \in Nat /\ Len(b) \in Nat /\ Len(a) <= Len(b)
  BY LenProperties DEF IsHead
<1>2. Len(a) \in 0..Len(b)
  BY <1>1
<1>3. PICK p \in Seq(S) : p = SubSeq(b, 1, Len(a))
  BY <1>2, PrefixFacts
<1>4. Len(p) = Len(a) /\ \A i \in 1..Len(a) : p[i] = b[i]
  BY <1>2, <1>3, PrefixFacts
<1>5. \A i \in 1..Len(a) : p[i] = a[i]
  BY <1>4 DEF IsHead
<1>6. p = a
  BY <1>4, <1>5, SeqEqual
<1> QED BY <1>2, <1>3, <1>6

\* A first part and the rest are the whole.
LEMMA CutJoined ==
  ASSUME NEW S, NEW a \in Seq(S), NEW k \in 0..Len(a)
  PROVE  /\ SubSeq(a, k + 1, Len(a)) \in Seq(S)
         /\ SubSeq(a, 1, k) \o SubSeq(a, k + 1, Len(a)) = a
<1>1. PICK n \in Nat : n = Len(a)
  BY LenProperties
<1>2. k \in Nat /\ k <= n
  BY <1>1
<1>3. PICK p \in Seq(S) : p = SubSeq(a, 1, k)
  BY PrefixFacts
<1>4. Len(p) = k /\ \A i \in 1..k : p[i] = a[i]
  BY <1>3, PrefixFacts
<1>5. SubSeq(a, k + 1, n) \in Seq(S)
  <2>1. \A i \in (k + 1)..n : a[i] \in S
    BY <1>1, <1>2, ElementOfSeq
  <2> QED BY <1>1, <1>2, <2>1, SubSeqProperties
<1>6. PICK r \in Seq(S) : r = SubSeq(a, k + 1, n)
  BY <1>5
<1>7. Len(r) = n - k /\ \A j \in 1..(n - k) : r[j] = a[k + j]
  BY <1>1, <1>6, DropPrefix
<1>8. PICK w \in Seq(S) : w = p \o r
  BY ConcatFacts
<1>9. /\ Len(w) = Len(p) + Len(r)
      /\ \A i \in 1..Len(p) : w[i] = p[i]
      /\ \A i \in 1..Len(r) : w[Len(p) + i] = r[i]
  BY <1>8, ConcatFacts
<1>10. Len(w) = n
  BY <1>2, <1>4, <1>7, <1>9
<1>11. ASSUME NEW i \in 1..n PROVE w[i] = a[i]
  <2>1. CASE i \in 1..k
    BY <1>4, <1>9, <2>1
  <2>2. CASE i \notin 1..k
    <3>1. i - k \in 1..(n - k) /\ k + (i - k) = i
      BY <1>2, <2>2
    <3>2. w[k + (i - k)] = r[i - k] /\ r[i - k] = a[k + (i - k)]
      BY <1>4, <1>7, <1>9, <3>1
    <3> QED BY <3>1, <3>2
  <2> QED BY <2>1, <2>2
<1>12. w = a
  BY <1>1, <1>10, <1>11, SeqEqual
<1> QED BY <1>1, <1>3, <1>5, <1>6, <1>8, <1>12

LEMMA AnswersCount ==
  ASSUME NEW msgs \in Seq(Messages)
  PROVE  /\ Answers(msgs) \in Nat
         /\ IsFiniteSet({i \in DOMAIN msgs : IsAssistant(msgs[i])})
         /\ {i \in DOMAIN msgs : IsAssistant(msgs[i])} \in SUBSET (1..Len(msgs))
         /\ Len(msgs) \in Nat /\ DOMAIN msgs = 1..Len(msgs)
<1> DEFINE S == {i \in DOMAIN msgs : IsAssistant(msgs[i])}
<1>1. Len(msgs) \in Nat /\ DOMAIN msgs = 1..Len(msgs)
  BY LenProperties
<1>2. S \in SUBSET (1..Len(msgs))
  BY <1>1
<1> HIDE DEF S
<1>3. IsFiniteSet(S) /\ Cardinality(S) \in Nat
  BY <1>1, <1>2, CountFacts, FS_CardinalityType
<1> QED BY <1>1, <1>2, <1>3 DEF S, Answers

\* Longer working messages hold at least as many answers, and as many when no
\* answer is among the further ones.
LEMMA AnswersBehind ==
  ASSUME NEW a \in Seq(Messages), NEW b \in Seq(Messages), IsHead(a, b)
  PROVE  /\ Answers(a) <= Answers(b)
         /\ (\A i \in (Len(a) + 1)..Len(b) : ~IsAssistant(b[i])) => Answers(b) = Answers(a)
<1> DEFINE S == {i \in DOMAIN a : IsAssistant(a[i])}
           T == {i \in DOMAIN b : IsAssistant(b[i])}
<1>1. /\ S \in SUBSET (1..Len(a)) /\ T \in SUBSET (1..Len(b)) /\ IsFiniteSet(T)
      /\ Len(a) \in Nat /\ Len(b) \in Nat /\ DOMAIN a = 1..Len(a) /\ DOMAIN b = 1..Len(b)
      /\ Cardinality(S) \in Nat /\ Cardinality(T) \in Nat
  BY AnswersCount DEF Answers
<1>2. Len(a) <= Len(b) /\ \A i \in 1..Len(a) : b[i] = a[i]
  BY DEF IsHead
<1>3. \A i \in 1..Len(a) : i \in 1..Len(b)
  BY <1>1, <1>2
<1>4. S \subseteq T
  BY <1>1, <1>2, <1>3
<1>5. Cardinality(S) <= Cardinality(T)
  <2> HIDE DEF S, T
  <2> QED BY <1>1, <1>4, FS_Subset
<1>6. ASSUME \A i \in (Len(a) + 1)..Len(b) : ~IsAssistant(b[i])
      PROVE  T = S
  <2>1. ASSUME NEW i \in T PROVE i \in S
    <3>1. i \in 1..Len(b) /\ IsAssistant(b[i])
      BY <1>1
    <3>2. i \in 1..Len(a)
      BY <1>1, <1>6, <3>1
    <3> QED BY <1>1, <1>2, <3>1, <3>2
  <2> QED BY <1>4, <2>1
<1> HIDE DEF S, T
<1>7. (\A i \in (Len(a) + 1)..Len(b) : ~IsAssistant(b[i])) => Cardinality(T) = Cardinality(S)
  BY <1>6
<1> QED BY <1>5, <1>7 DEF S, T, Answers

\* One more message is at most one more answer.
LEMMA AnswerAppended ==
  ASSUME NEW msgs \in Seq(Messages), NEW m \in Messages
  PROVE  /\ Answers(Append(msgs, m)) <= Answers(msgs) + 1
         /\ ~IsAssistant(m) => Answers(Append(msgs, m)) = Answers(msgs)
<1>1. PICK s \in Seq(Messages) : s = Append(msgs, m)
  BY AppendFacts
<1>2. /\ Len(s) = Len(msgs) + 1 /\ (\A i \in 1..Len(msgs) : s[i] = msgs[i])
      /\ s[Len(msgs) + 1] = m
  BY <1>1, AppendFacts
<1>3. IsHead(msgs, s)
  BY <1>1, HeadAppended
<1> DEFINE S == {i \in DOMAIN msgs : IsAssistant(msgs[i])}
           T == {i \in DOMAIN s : IsAssistant(s[i])}
<1>4. /\ S \in SUBSET (1..Len(msgs)) /\ T \in SUBSET (1..Len(s)) /\ IsFiniteSet(T) /\ IsFiniteSet(S)
      /\ Len(msgs) \in Nat /\ DOMAIN msgs = 1..Len(msgs) /\ DOMAIN s = 1..Len(s)
      /\ Cardinality(S) \in Nat /\ Cardinality(T) \in Nat
  BY AnswersCount DEF Answers
<1>5. \A i \in (Len(msgs) + 1)..Len(s) : i = Len(msgs) + 1
  BY <1>2, <1>4
<1>6. ~IsAssistant(m) => Answers(s) = Answers(msgs)
  BY <1>2, <1>3, <1>5, AnswersBehind
<1>7. T \subseteq S \cup {Len(msgs) + 1}
  <2> SUFFICES ASSUME NEW i \in T, i # Len(msgs) + 1 PROVE i \in S
    OBVIOUS
  <2>1. i \in 1..Len(s) /\ IsAssistant(s[i])
    BY <1>4
  <2>2. i \in 1..Len(msgs)
    BY <1>2, <1>4, <2>1
  <2> QED BY <1>2, <1>4, <2>1, <2>2
<1> HIDE DEF S, T
<1>8. IsFiniteSet(S \cup {Len(msgs) + 1}) /\ Cardinality(S \cup {Len(msgs) + 1}) <= Cardinality(S) + 1
  <2> DEFINE x == Len(msgs) + 1
             c == Cardinality(S \cup {x})
  <2>1. IsFiniteSet(S \cup {x}) /\ c = IF x \in S THEN Cardinality(S) ELSE Cardinality(S) + 1
    BY <1>4, FS_AddElement
  <2> HIDE DEF c
  <2>2. c <= Cardinality(S) + 1
    BY <1>4, <2>1
  <2> QED BY <2>1, <2>2 DEF c
<1>9. Cardinality(T) <= Cardinality(S \cup {Len(msgs) + 1})
  BY <1>7, <1>8, FS_Subset
<1>10. Cardinality(S \cup {Len(msgs) + 1}) \in Nat
  BY <1>8, FS_CardinalityType
<1>11. Cardinality(T) <= Cardinality(S) + 1
  BY <1>4, <1>8, <1>9, <1>10
<1> QED BY <1>1, <1>6, <1>11 DEF S, T, Answers

LEMMA NoAnswers ==
  Answers(<<>>) = 0 /\ UsersOf(<<>>) = ToUserMessages(<<>>) /\ ToUserMessages(<<>>) = <<>>
<1>1. /\ <<>> \in Seq(Messages) /\ <<>> \in Seq(Items) /\ Len(<<>>) = 0
  BY EmptySeq
<1>2. {i \in DOMAIN <<>> : IsAssistant(<<>>[i])} = {} /\ UserPositions(<<>>) = {}
  BY <1>1, LenProperties DEF UserPositions
<1>3. Answers(<<>>) = 0 /\ Cardinality(UserPositions(<<>>)) = 0
  BY <1>2, FS_EmptySet DEF Answers
<1>4. Len(UsersOf(<<>>)) = 0 /\ UsersOf(<<>>) \in Seq(Messages)
  BY <1>1, <1>3, UsersFacts
<1>5. Len(ToUserMessages(<<>>)) = 0 /\ ToUserMessages(<<>>) \in Seq(Messages)
  BY <1>1, UserMessages
<1> QED BY <1>3, <1>4, <1>5, EmptySeq

-----------------------------------------------------------------------------
(* What runs, checkpoints and retained prefixes hold *)

\* A checkpoint's messages speak for its inputs, and its turns fit the limit.
CheckpointGood(c) ==
  /\ c.inc # <<>>
  /\ UsersOf(c.msgs) = ToUserMessages(c.inc)
  /\ c.turn <= MaxTurns
  /\ c.phase # "final_response" => Answers(c.msgs) <= c.turn

\* Its inputs head the queue still, or the first of them has been consumed.
CheckpointInv ==
  checkpoint # NoCheckpoint =>
    /\ CheckpointGood(checkpoint)
    /\ \/ checkpoint.inc[1].id \in 1..Consumed
       \/ IsHead(checkpoint.inc, pending) /\ checkpoint.base = Leaf

\* So do a retained prefix's messages, which leave out its target's.
PauseGood(w) ==
  /\ UsersOf(w.msgs) = ToUserMessages(w.kept)
  /\ w.target \notin IdSet(w.kept)
  /\ w.turn <= MaxTurns /\ Answers(w.msgs) <= w.turn

PauseInv ==
  /\ PauseGood(paused)
  /\ IsHead(paused.kept, pending)
  /\ paused # NoPause => checkpoint = NoCheckpoint /\ paused.base = Leaf
  /\ run.pc = "prepare" => Len(paused.kept) <= Len(run.inc)

\* Where the Runner's loop has turns left.
Looping == {"request", "toolNotify", "tools", "inject", "injectFinal", "injectNotify"}

\* And a run's messages for its inputs; those it started from speak for the first
\* of them.  There is at most one answer for every turn the run has begun.
RunGood(r) ==
  /\ r.pc = "prepare" => r.initial = <<>>
  /\ r.pc # "prepare" => UsersOf(r.msgs) = ToUserMessages(r.inc)
  /\ \E k \in 0..Len(r.inc) : UsersOf(r.initial) = ToUserMessages(SubSeq(r.inc, 1, k))
  /\ r.pc \in Looping => r.turn < MaxTurns
  /\ r.pc = "limit" => r.turn = MaxTurns
  /\ r.pc # "save" => Answers(r.initial) <= MaxTurns
  /\ r.pc \in {"request", "toolNotify", "injectFinal", "limit"} => Answers(r.msgs) <= r.turn
  /\ r.pc \in {"tools", "inject", "injectNotify"} => Answers(r.msgs) <= r.turn + 1
  /\ r.target # 0 => r.pc # "save"

RunInv == run.pc # "idle" => RunGood(run)

\* The turns a run has begun, as its next checkpoint counts them.
Spent(r) == IF r.pc \in {"tools", "inject"} THEN r.turn + 1 ELSE r.turn

\* Run r goes on from checkpoint c, and has begun a turn for every batch c lacks.
GoesOn(c, r) ==
  /\ r.pc # "prepare"
  /\ IsHead(c.msgs, r.msgs)
  /\ r.pc \in Looping \cup {"limit"} =>
       /\ c.turn <= Spent(r)
       /\ c.turn = Spent(r) => BatchesOf(c.msgs) = BatchesOf(r.msgs)
       /\ c.phase # "final_response"
  /\ r.pc = "tools" => BatchesOf(c.msgs) = BatchesOf(r.msgs)
  /\ c.phase = "final_response" => r.msgs = c.msgs

GrowInv ==
  checkpoint # NoCheckpoint /\ checkpoint.inc[1].id > Consumed /\ run.pc # "idle" =>
    GoesOn(checkpoint, run)

\* The inductive invariant of CheckpointUsable, PausedPrefixHolds and CheckpointsGrow.
InputsInv == CheckpointInv /\ PauseInv /\ RunInv /\ GrowInv

\* The queue stays or takes one more input; what was consumed stays consumed.
QueueGrows ==
  /\ Consumed' = Consumed
  /\ UNCHANGED pending \/ \E item \in Items : pending' = Append(pending, item)

\* The run goes on as it is or ends.
Idles ==
  /\ run' = run \/ run' = IdleRun
  /\ QueueGrows
  /\ UNCHANGED <<history, checkpoint>>
  /\ paused' = paused \/ (paused' = NoPause /\ run' = IdleRun)

\* The run goes on between two requests of the provider.
Proceeds ==
  /\ \/ PrepareDone \/ ProviderCallsTools \/ ProviderAnswers \/ ContinueLoop
     \/ InjectAfterTools \/ InjectAfterCandidate
  /\ UNCHANGED <<pending, asked, history, checkpoint>>
  /\ UNCHANGED paused \/ PrepareDone

\* A checkpoint is due.
Records ==
  /\ BeginTools \/ ToolsDone \/ FinishResponse \/ CloseAtLimit
  /\ UNCHANGED <<pending, asked, history, paused>>

\* A caller who has the lock loads the Session.
StartsRun ==
  /\ run.pc = "idle"
  /\ QueueGrows
  /\ UNCHANGED <<history, paused>>
  /\ \E who \in InputIds : Load(who, pending')

\* A prefix is retained, of the history or of the run that was cancelled.
Retains ==
  /\ (\E id \in 1..MaxInputs : PauseInactive(id)) \/ CapturePausedRun
  /\ UNCHANGED <<pending, asked, history>>

LEMMA AcquireShapes ==
  ASSUME TypeInv, PrefixInv, NEW who \in InputIds,
         Acquire(who, pending') \/ (run.pc = "idle" /\ Grant(who, pending')),
         QueueGrows, UNCHANGED <<history, paused>>
  PROVE  Idles \/ StartsRun
<1>1. CASE UNCHANGED <<run, checkpoint>>
  BY <1>1 DEF Idles
<1>2. CASE run.pc = "idle" /\ Load(who, pending')
  BY <1>2 DEF StartsRun
<1> QED BY <1>1, <1>2 DEF Acquire, Grant

LEMMA EnqueueConsumesNothing ==
  ASSUME RuntimeAssumption, TypeInv, NEW size \in Sizes, Enqueue(size)
  PROVE  QueueGrows /\ Len(asked) + 1 \in InputIds
<1>1. /\ NewItem(size) \in Items /\ pending' = Append(pending, NewItem(size))
      /\ Len(asked) + 1 \in InputIds
  BY EnqueueGrows
<1>2. PICK item \in Items : pending' = Append(pending, item)
  BY <1>1
<1>3. Len(pending') = Len(pending) + 1 /\ Len(pending) \in Nat
  BY <1>2, AppendFacts, LenProperties DEF TypeInv, TypeOK
<1>4. Len(asked') = Len(asked) + 1 /\ Len(asked) \in Nat
  BY AppendProperties, LenProperties DEF Enqueue, TypeInv, TypeOK
<1>5. Consumed' = Consumed
  BY <1>3, <1>4 DEF Consumed
<1> QED BY <1>1, <1>2, <1>5 DEF QueueGrows

\* Every step has one of these shapes.
LEMMA InputShapes ==
  ASSUME RuntimeAssumption, TypeInv, PrefixInv, [Next]_vars
  PROVE  \/ Idles \/ Proceeds \/ Records \/ Save \/ StartsRun \/ Retains \/ Clear
         \/ \E id \in 1..MaxInputs : PauseActive(id)
         \/ \E size \in Sizes : Revise(size)
<1>a. 0 \in InputIds /\ 1..MaxInputs \subseteq InputIds /\ pending \in Seq(Items)
  BY DEF InputIds, RuntimeAssumption, TypeInv, TypeOK
<1>b. UNCHANGED <<pending, asked>> => QueueGrows
  BY DEF QueueGrows, Consumed
<1>1. CASE UNCHANGED vars
  BY <1>1, <1>b DEF vars, Idles
<1>2. CASE PrepareFails \/ ProviderFails \/ SaveFails \/ CancelRun
  BY <1>2, <1>b DEF PrepareFails, ProviderFails, SaveFails, CancelRun, EndRun, Idles
<1>3. CASE PrepareDone \/ ProviderCallsTools \/ ProviderAnswers \/ ContinueLoop
           \/ InjectAfterTools \/ InjectAfterCandidate
  <2>1. UNCHANGED <<pending, asked, history, checkpoint>> /\ (UNCHANGED paused \/ PrepareDone)
    BY <1>3 DEF PrepareDone, ProviderCallsTools, ProviderAnswers, ContinueLoop, InjectAfterTools,
                InjectAfterCandidate
  <2> QED BY <1>3, <2>1 DEF Proceeds
<1>4. CASE BeginTools \/ ToolsDone \/ FinishResponse \/ CloseAtLimit
  <2>1. UNCHANGED <<pending, asked, history, paused>>
    BY <1>4 DEF BeginTools, ToolsDone, FinishResponse, CloseAtLimit, Finish
  <2> QED BY <1>4, <2>1 DEF Records
<1>5. CASE CapturePausedRun
  BY <1>5 DEF CapturePausedRun, Retains
<1>6. ASSUME NEW size \in Sizes, EnqueueInput(size) \/ Submit(size)
      PROVE  Idles \/ StartsRun
  <2>1. Enqueue(size) /\ UNCHANGED <<history, paused>>
    BY <1>6 DEF EnqueueInput, Submit
  <2>2. QueueGrows /\ Len(asked) + 1 \in InputIds
    BY <2>1, EnqueueConsumesNothing
  <2>3. CASE EnqueueInput(size)
    <3>1. UNCHANGED <<run, checkpoint>>
      BY <2>3 DEF EnqueueInput
    <3> QED BY <2>1, <2>2, <3>1 DEF Idles
  <2>4. CASE Submit(size)
    <3>1. Acquire(Len(asked) + 1, pending')
      BY <2>1, <2>4, EnqueueGrows DEF Submit
    <3> QED BY <2>1, <2>2, <3>1, AcquireShapes
  <2> QED BY <1>6, <2>3, <2>4
<1>7. ASSUME NEW id \in 1..MaxInputs, Resubmit(id)
      PROVE  Idles \/ StartsRun
  <2>1. UNCHANGED <<pending, asked, history, paused>> /\ Acquire(id, pending')
    BY <1>7 DEF Resubmit
  <2> QED BY <1>a, <1>b, <2>1, AcquireShapes
<1>8. CASE RunNext
  <2>1. UNCHANGED <<pending, asked, history, paused>> /\ Acquire(0, pending')
    BY <1>8 DEF RunNext
  <2> QED BY <1>a, <1>b, <2>1, AcquireShapes
<1>9. CASE HandOff
  <2>1. UNCHANGED <<pending, asked, history, paused>> /\ run.pc = "idle"
        /\ Grant(Head(waiters), pending')
    BY <1>9 DEF HandOff
  <2>2. Head(waiters) \in InputIds
    BY <1>9, HeadTailProperties DEF HandOff, TypeInv, TypeOK
  <2> QED BY <1>b, <2>1, <2>2, AcquireShapes
<1>10. CASE RestartPending
  <2>1. UNCHANGED <<pending, asked, history, paused>>
    BY <1>10 DEF RestartPending
  <2>2. CASE UNCHANGED <<run, checkpoint>>
    BY <1>b, <2>1, <2>2 DEF Idles
  <2>3. CASE run.pc = "idle" /\ Load(0, pending)
    <3>1. Load(0, pending')
      BY <2>1, <2>3
    <3> QED BY <1>a, <1>b, <2>1, <2>3, <3>1 DEF StartsRun
  <2> QED BY <1>10, <2>2, <2>3 DEF RestartPending, RestartRun
<1>11. ASSUME NEW id \in 1..MaxInputs, PauseInactive(id)
       PROVE  Retains
  BY <1>11 DEF PauseInactive, Retains
<1>12. ASSUME NEW k \in DOMAIN waiters, CancelWaiter(k)
       PROVE  Idles
  BY <1>12, <1>b DEF CancelWaiter, Idles
<1>13. CASE Crash
  BY <1>13, <1>b DEF Crash, durable, Idles
<1> QED
  BY <1>1, <1>2, <1>3, <1>4, <1>5, <1>6, <1>7, <1>8, <1>9, <1>10, <1>11, <1>12, <1>13
  DEF Next, RunStep, ChannelCall

-----------------------------------------------------------------------------
(* Steps that leave what is kept alone, and LOAD *)

LEMMA InputsTypes ==
  ASSUME TypeInv
  PROVE  /\ pending \in Seq(Items) /\ history \in Seq(Turns) /\ Leaf \in Nat /\ Consumed \in Int
         /\ checkpoint \in Checkpoints /\ checkpoint.inc \in Seq(Items)
         /\ checkpoint.msgs \in Seq(Messages) /\ checkpoint.turn \in Nat
         /\ paused \in Pauses /\ paused.kept \in Seq(Items) /\ paused.msgs \in Seq(Messages)
         /\ paused.turn \in Nat
         /\ run \in Runs /\ run.inc \in Seq(Items) /\ run.msgs \in Seq(Messages)
         /\ run.initial \in Seq(Messages) /\ run.turn \in Nat
<1>1. TypeOK
  BY DEF TypeInv
<1>2. history \in Seq(Turns) /\ Leaf \in Nat /\ Consumed \in Int
  BY <1>1, QueueFacts DEF Leaf, TypeOK
<1> QED BY <1>1, <1>2 DEF TypeOK, Checkpoints, Pauses, Runs

\* The queue's prefixes stay its prefixes.
LEMMA HeadsStay ==
  ASSUME TypeInv, QueueGrows, NEW inc \in Seq(Items), IsHead(inc, pending)
  PROVE  IsHead(inc, pending') /\ pending' \in Seq(Items)
<1>1. pending \in Seq(Items)
  BY InputsTypes
<1>2. CASE UNCHANGED pending
  BY <1>1, <1>2
<1>3. ASSUME NEW item \in Items, pending' = Append(pending, item)
      PROVE  IsHead(inc, pending') /\ pending' \in Seq(Items)
  BY <1>1, <1>3, AppendKeepsHead, AppendFacts
<1> QED BY <1>2, <1>3 DEF QueueGrows

LEMMA CheckpointStays ==
  ASSUME TypeInv, CheckpointInv, QueueGrows, UNCHANGED history,
         checkpoint' = checkpoint \/ checkpoint' = NoCheckpoint
  PROVE  CheckpointInv'
<1>1. Leaf' = Leaf /\ Consumed' = Consumed
  BY DEF Leaf, QueueGrows
<1>2. checkpoint.inc \in Seq(Items)
  BY InputsTypes
<1>3. IsHead(checkpoint.inc, pending) => IsHead(checkpoint.inc, pending')
  BY <1>2, HeadsStay
<1> QED BY <1>1, <1>3 DEF CheckpointInv

LEMMA NothingRetained ==
  ASSUME RuntimeAssumption
  PROVE  /\ PauseGood(NoPause) /\ NoPause.kept = <<>> /\ NoPause.msgs = <<>> /\ Len(NoPause.kept) = 0
         /\ NoPause.turn = 0
<1>1. NoPause.msgs = <<>> /\ NoPause.kept = <<>> /\ NoPause.turn = 0 /\ NoPause.target = 0
  BY DEF NoPause
<1>2. IdSet(<<>>) = {} /\ Len(<<>>) = 0
  <2>1. DOMAIN <<>> = {}
    BY NoMessages, LenProperties
  <2> QED BY <2>1, NoMessages DEF IdSet
<1> QED BY <1>1, <1>2, NoAnswers DEF PauseGood, RuntimeAssumption

LEMMA EmptyHeads ==
  ASSUME NEW S, NEW q \in Seq(S)
  PROVE  IsHead(<<>>, q)
<1>1. Len(<<>>) = 0 /\ Len(q) \in Nat
  BY EmptySeq, LenProperties
<1> QED BY <1>1 DEF IsHead

LEMMA PauseStays ==
  ASSUME RuntimeAssumption, TypeInv, PauseInv, QueueGrows, UNCHANGED history,
         checkpoint' = checkpoint \/ checkpoint' = NoCheckpoint,
         paused' = paused \/ paused' = NoPause,
         run'.pc = "prepare" /\ paused' # NoPause => Len(paused.kept) <= Len(run'.inc),
         run' \in Runs
  PROVE  PauseInv'
<1>1. Leaf' = Leaf
  BY DEF Leaf
<1>2. PauseGood(paused)'
  BY NothingRetained DEF PauseInv
<1>3. IsHead(paused.kept, pending')
  BY HeadsStay, InputsTypes DEF PauseInv
<1>4. IsHead(NoPause.kept, pending')
  <2>1. pending' \in Seq(Items)
    BY <1>3, HeadsStay, InputsTypes DEF PauseInv
  <2> QED BY <2>1, EmptyHeads, NothingRetained
<1>5. Len(NoPause.kept) <= Len(run'.inc)
  <2>1. Len(run'.inc) \in Nat
    BY LenProperties DEF Runs
  <2> QED BY <2>1, NothingRetained
<1>6. IsHead(paused.kept, pending)'
  BY <1>3, <1>4
<1>7. (paused # NoPause => checkpoint = NoCheckpoint /\ paused.base = Leaf)'
  BY <1>1 DEF PauseInv
<1>8. (run.pc = "prepare" => Len(paused.kept) <= Len(run.inc))'
  BY <1>5
<1> QED BY <1>2, <1>6, <1>7, <1>8 DEF PauseInv

LEMMA IdleHolds ==
  ASSUME run' = IdleRun
  PROVE  RunInv' /\ GrowInv'
BY BlankRun DEF RunInv, GrowInv

LEMMA IdlesKeep ==
  ASSUME RuntimeAssumption, TypeInv, InputsInv, Idles
  PROVE  InputsInv'
<1>1. CheckpointInv'
  BY CheckpointStays DEF InputsInv, Idles
<1>2. run \in Runs /\ IdleRun \in Runs /\ IdleRun.pc = "idle"
  BY InputsTypes, ConstantTypes, BlankRun
<1>3. PauseInv'
  <2>1. run' \in Runs
    BY <1>2 DEF Idles
  <2>2. run'.pc = "prepare" /\ paused' # NoPause => Len(paused.kept) <= Len(run'.inc)
    BY <1>2 DEF Idles, InputsInv, PauseInv
  <2> QED BY <2>1, <2>2, PauseStays DEF Idles, InputsInv
<1>4. RunInv' /\ GrowInv'
  <2>1. CASE run' = run
    <3>1. Consumed' = Consumed /\ checkpoint' = checkpoint
      BY DEF Idles, QueueGrows
    <3> QED BY <2>1, <3>1 DEF InputsInv, RunInv, GrowInv
  <2>2. CASE run' = IdleRun
    BY <2>2, IdleHolds
  <2> QED BY <2>1, <2>2 DEF Idles
<1> QED BY <1>1, <1>3, <1>4 DEF InputsInv

\* The active run is selected for a pause.
LEMMA PauseActiveKeeps ==
  ASSUME RuntimeAssumption, TypeInv, InputsInv, NEW id \in 1..MaxInputs, PauseActive(id)
  PROVE  InputsInv'
<1>1. PICK r \in Runs : r = run
  BY InputsTypes
<1>2. /\ UNCHANGED <<pending, asked, history, checkpoint, paused>> /\ paused = NoPause
      /\ run' = [r EXCEPT !.target = id] /\ OthersMayRun /\ r.pc # "idle"
  BY <1>1 DEF PauseActive, MayPause
<1>3. /\ run'.pc = r.pc /\ run'.inc = r.inc /\ run'.initial = r.initial /\ run'.msgs = r.msgs
      /\ run'.turn = r.turn /\ run'.target = id
  BY <1>2 DEF Runs
<1>4. QueueGrows
  BY <1>2 DEF QueueGrows, Consumed
<1>5. CheckpointInv'
  BY <1>2, <1>4, CheckpointStays DEF InputsInv
<1>6. run' \in Runs
  <2>1. id \in InputIds
    BY DEF InputIds, RuntimeAssumption
  <2> QED BY <1>2, <2>1 DEF Runs
<1>7. PauseInv'
  <2>1. run'.pc = "prepare" /\ paused' # NoPause => Len(paused.kept) <= Len(run'.inc)
    BY <1>2
  <2> QED BY <1>2, <1>4, <1>6, <2>1, PauseStays DEF InputsInv
<1>8. RunInv'
  <2>1. RunGood(r)
    BY <1>1, <1>2 DEF InputsInv, RunInv
  <2>2. r.pc # "save"
    BY <1>1, <1>2
    DEF OthersMayRun, Interruptible, EstimatorAwaits, HandlerAwaits
  <2>3. RunGood(run')
    BY <1>3, <2>1, <2>2 DEF RunGood
  <2> QED BY <2>3 DEF RunInv
<1>9. GrowInv'
  <2>1. checkpoint # NoCheckpoint /\ checkpoint.inc[1].id > Consumed => GoesOn(checkpoint, r)
    BY <1>1, <1>2 DEF InputsInv, GrowInv
  <2>2. GoesOn(checkpoint, r) => GoesOn(checkpoint, run')
    BY <1>3 DEF GoesOn, Spent
  <2>3. Consumed' = Consumed
    BY <1>4 DEF QueueGrows
  <2> QED BY <1>2, <2>1, <2>2, <2>3 DEF GrowInv
<1> QED BY <1>5, <1>7, <1>8, <1>9 DEF InputsInv

\* A checkpoint whose first input is not consumed heads the queue.
LEMMA CheckpointHeads ==
  ASSUME TypeInv, CheckpointInv, checkpoint # NoCheckpoint, ~(checkpoint.inc[1].id \in 1..Consumed)
  PROVE  /\ IsHead(checkpoint.inc, pending) /\ checkpoint.base = Leaf
         /\ 1 \in 1..Len(checkpoint.inc) /\ 1 \in 1..Len(pending) /\ pending[1] = checkpoint.inc[1]
         /\ checkpoint.inc[1].id \in IdSet(pending)
<1>1. /\ IsHead(checkpoint.inc, pending) /\ checkpoint.base = Leaf /\ checkpoint.inc # <<>>
  BY DEF CheckpointInv, CheckpointGood
<1>2. /\ Len(checkpoint.inc) \in Nat \ {0} /\ Len(pending) \in Nat /\ DOMAIN pending = 1..Len(pending)
  BY <1>1, InputsTypes, LenProperties, EmptySeq
<1>3. 1 \in 1..Len(checkpoint.inc) /\ 1 \in 1..Len(pending)
  BY <1>1, <1>2 DEF IsHead
<1>4. pending[1] = checkpoint.inc[1]
  BY <1>1, <1>3 DEF IsHead
<1> QED BY <1>1, <1>2, <1>3, <1>4 DEF IdSet

\* And one whose first input is consumed does not belong to the queue.
LEMMA ConsumedIsGone ==
  ASSUME TypeInv, LedgerInv, NEW id \in 1..Consumed
  PROVE  id \notin IdSet(pending)
<1>1. Len(pending) \in Nat /\ DOMAIN pending = 1..Len(pending) /\ Consumed \in Int
  BY QueueFacts DEF TypeInv
<1>2. ASSUME NEW k \in 1..Len(pending) PROVE pending[k].id # id
  <2>1. pending[k].id = Consumed + k
    BY DEF LedgerInv, QueueIsTail
  <2> QED BY <1>1, <2>1
<1> QED BY <1>1, <1>2 DEF IdSet

-----------------------------------------------------------------------------
(* The run goes on between two requests *)

LEMMA UsersBehindType ==
  ASSUME NEW a \in Seq(Messages), NEW more \in Seq(Items)
  PROVE  \E b \in Seq(Messages) : b = a \o ToUserMessages(more)
<1>1. PICK u \in Seq(Messages) : u = ToUserMessages(more)
  BY UserMessages
<1> QED BY <1>1, ConcatFacts

\* The messages of further inputs behind working messages.
LEMMA UsersAdded ==
  ASSUME NEW a \in Seq(Messages), NEW items \in Seq(Items), NEW more \in Seq(Items),
         UsersOf(a) = ToUserMessages(items),
         NEW b \in Seq(Messages), b = a \o ToUserMessages(more)
  PROVE  /\ IsHead(a, b) /\ NoCallsBehind(a, b)
         /\ UsersOf(b) = ToUserMessages(items \o more)
         /\ Answers(b) = Answers(a)
<1>1. PICK u \in Seq(Messages) : u = ToUserMessages(more)
  BY UserMessages
<1>2. Len(u) = Len(more) /\ (\A i \in 1..Len(more) : u[i] = ToUserMessage(more[i]))
      /\ \A i \in 1..Len(u) : u[i].kind # "call"
  BY <1>1, UserMessages
<1>3. b = a \o u
  BY <1>1
<1>4. IsHead(a, b) /\ NoCallsBehind(a, b)
  BY <1>2, <1>3, HeadConcatenated, NoCallsConcatenated
<1>5. UsersOf(b) = ToUserMessages(items \o more)
  BY UsersExtend
<1>6. Len(b) = Len(a) + Len(u) /\ \A i \in 1..Len(u) : b[Len(a) + i] = u[i]
  BY <1>3, ConcatFacts
<1>7. \A i \in (Len(a) + 1)..Len(b) : ~IsAssistant(b[i])
  <2> SUFFICES ASSUME NEW i \in (Len(a) + 1)..Len(b) PROVE ~IsAssistant(b[i])
    OBVIOUS
  <2>1. Len(a) \in Nat /\ Len(u) \in Nat
    BY LenProperties
  <2>2. PICK j \in 1..Len(u) : i = Len(a) + j
    <3>1. i - Len(a) \in 1..Len(u) /\ i = Len(a) + (i - Len(a))
      BY <1>6, <2>1
    <3> QED BY <3>1
  <2>3. b[i] = ToUserMessage(more[j])
    BY <1>2, <1>6, <2>2
  <2>4. b[i].kind = "user"
    BY <2>3 DEF ToUserMessage, Message
  <2> QED BY <2>4 DEF IsAssistant
<1>8. Answers(b) = Answers(a)
  BY <1>3, <1>4, <1>7, AnswersBehind
<1> QED BY <1>3, <1>4, <1>5, <1>8

\* One message that is no user's behind working messages.
LEMMA OneSaid ==
  ASSUME NEW a \in Seq(Messages), NEW m \in Messages, m.kind # "user",
         NEW b, b = Append(a, m)
  PROVE  /\ b \in Seq(Messages) /\ IsHead(a, b)
         /\ UsersOf(b) = UsersOf(a)
         /\ Answers(b) <= Answers(a) + 1
         /\ ~IsAssistant(m) => Answers(b) = Answers(a)
<1>1. b \in Seq(Messages) /\ Len(b) = Len(a) + 1 /\ b[Len(a) + 1] = m /\ Len(a) \in Nat
  BY AppendFacts, LenProperties
<1>2. IsHead(a, b)
  BY HeadAppended
<1>3. \A i \in (Len(a) + 1)..Len(b) : i = Len(a) + 1
  BY <1>1
<1>4. UsersOf(b) = UsersOf(a)
  BY <1>1, <1>2, <1>3, SameUsers
<1> QED BY <1>1, <1>2, <1>4, AnswerAppended

\* The first inputs of a run stay its first inputs.
LEMMA CutStays ==
  ASSUME NEW S, NEW a \in Seq(S), NEW b \in Seq(S), NEW k \in 0..Len(a)
  PROVE  k \in 0..Len(a \o b) /\ SubSeq(a \o b, 1, k) = SubSeq(a, 1, k)
<1>1. PICK w \in Seq(S) : w = a \o b
  BY ConcatFacts
<1>2. Len(w) = Len(a) + Len(b) /\ \A i \in 1..Len(a) : w[i] = a[i]
  BY <1>1, ConcatFacts
<1>3. Len(a) \in Nat /\ Len(b) \in Nat /\ k \in Nat
  BY LenProperties
<1>4. k \in 0..Len(w)
  BY <1>2, <1>3
<1>5. PICK p \in Seq(S), s \in Seq(S) : p = SubSeq(w, 1, k) /\ s = SubSeq(a, 1, k)
  BY <1>4, PrefixFacts
<1>6. Len(p) = k /\ Len(s) = k /\ (\A i \in 1..k : p[i] = w[i]) /\ \A i \in 1..k : s[i] = a[i]
  BY <1>4, <1>5, PrefixFacts
<1>7. \A i \in 1..k : i \in 1..Len(a)
  BY <1>3
<1>8. \A i \in 1..k : p[i] = s[i]
  BY <1>2, <1>6, <1>7
<1>9. p = s
  BY <1>6, <1>8, SeqEqual
<1> QED BY <1>1, <1>4, <1>5, <1>9

\* A run that goes on from a checkpoint and gets no further batch still does.
LEMMA GoesFurther ==
  ASSUME NEW c \in Checkpoints, NEW r \in Runs, NEW s \in Runs, GoesOn(c, r),
         r.pc \in Looping \cup {"limit"}, s.pc \notin {"prepare", "tools"},
         NoCallsBehind(r.msgs, s.msgs), Spent(r) <= Spent(s)
  PROVE  GoesOn(c, s)
<1>1. /\ c.msgs \in Seq(Messages) /\ r.msgs \in Seq(Messages) /\ s.msgs \in Seq(Messages)
      /\ c.turn \in Nat /\ Spent(r) \in Nat /\ Spent(s) \in Nat
  <2>1. r.turn \in Nat /\ s.turn \in Nat
    BY DEF Runs
  <2>2. Spent(r) \in Nat /\ Spent(s) \in Nat
    BY <2>1 DEF Spent
  <2> QED BY <2>2 DEF Checkpoints, Runs
<1>2. IsHead(c.msgs, s.msgs)
  <2>1. IsHead(r.msgs, s.msgs)
    BY DEF NoCallsBehind, IsHead
  <2> QED BY <1>1, <2>1, HeadTrans DEF GoesOn
<1>3. BatchesOf(s.msgs) = BatchesOf(r.msgs)
  BY <1>1, SameBatches
<1>4. /\ c.turn <= Spent(r) /\ c.phase # "final_response"
      /\ c.turn = Spent(r) => BatchesOf(c.msgs) = BatchesOf(r.msgs)
  BY DEF GoesOn
<1>5. c.turn <= Spent(s) /\ (c.turn = Spent(s) => c.turn = Spent(r))
  BY <1>1, <1>4
<1>6. c.turn = Spent(s) => BatchesOf(c.msgs) = BatchesOf(s.msgs)
  BY <1>3, <1>4, <1>5
<1> HIDE DEF Spent
<1> QED BY <1>2, <1>4, <1>5, <1>6 DEF GoesOn

\* PrepareDone takes over a retained prefix, if there is one.
LEMMA PrepareDoneGood ==
  ASSUME RuntimeAssumption, TypeInv, PrefixInv, InputsInv, PrepareDone
  PROVE  run'.pc \in {"request", "limit"} /\ RunGood(run')
<1>1. PICK r \in Runs : r = run
  BY InputsTypes
<1>2. PICK w \in Pauses : w = paused
  BY InputsTypes
<1>3. r.inc \in Seq(Items) /\ w.kept \in Seq(Items) /\ w.msgs \in Seq(Messages) /\ w.turn \in Nat
      /\ r.pc = "prepare" /\ r.target = 0
  BY <1>1, <1>2 DEF Runs, Pauses, PrepareDone, Ready
<1>4. /\ UsersOf(w.msgs) = ToUserMessages(w.kept) /\ w.turn <= MaxTurns
      /\ Answers(w.msgs) <= w.turn /\ Len(w.kept) <= Len(r.inc) /\ IsHead(w.kept, pending)
  BY <1>1, <1>2, <1>3 DEF InputsInv, PauseInv, PauseGood
<1>5. IsHead(r.inc, pending) /\ pending \in Seq(Items)
  <2>1. IdentityHolds
    BY <1>1, <1>3 DEF PrefixInv, RunHoldsPrefix
  <2>2. pending \in Seq(Items)
    BY InputsTypes
  <2> QED BY <1>1, <1>3, <2>1, <2>2, PrefixMeans DEF IdentityHolds
<1>6. IsHead(w.kept, r.inc)
  <2>1. Len(w.kept) \in Nat /\ Len(r.inc) \in Nat
    BY <1>3, LenProperties
  <2>2. \A i \in 1..Len(w.kept) : i \in 1..Len(r.inc)
    BY <1>4, <2>1
  <2>3. \A i \in 1..Len(w.kept) : pending[i] = w.kept[i] /\ pending[i] = r.inc[i]
    BY <1>4, <1>5, <2>2 DEF IsHead
  <2> QED BY <1>4, <2>3 DEF IsHead
<1>a. PICK n \in 0..Len(r.inc) : n = Len(w.kept) /\ w.kept = SubSeq(r.inc, 1, n)
  BY <1>3, <1>6, HeadIsCut
<1>7. PICK rest \in Seq(Items) : rest = SubSeq(r.inc, n + 1, Len(r.inc))
  BY <1>3, CutJoined
<1>8. w.kept \o rest = r.inc
  <2>1. PICK inc \in Seq(Items) : inc = r.inc
    BY <1>3
  <2>2. n \in 0..Len(inc)
    BY <2>1
  <2>3. SubSeq(inc, 1, n) \o SubSeq(inc, n + 1, Len(inc)) = inc
    BY <2>2, CutJoined
  <2> QED BY <1>7, <1>a, <2>1, <2>3, Zenon
<1>9. PICK msgs \in Seq(Messages) : msgs = w.msgs \o ToUserMessages(rest)
  BY <1>3, UsersBehindType
<1>10. run' = [r EXCEPT !.pc = LoopAt(w.turn), !.turn = w.turn, !.initial = msgs, !.msgs = msgs]
  BY <1>1, <1>2, <1>7, <1>9, <1>a DEF PrepareDone, UnseenInputs
<1>11. /\ run'.pc = LoopAt(w.turn) /\ run'.turn = w.turn /\ run'.initial = msgs /\ run'.msgs = msgs
       /\ run'.inc = r.inc /\ run'.target = r.target
  BY <1>10 DEF Runs
<1>12. UsersOf(msgs) = ToUserMessages(r.inc) /\ Answers(msgs) = Answers(w.msgs)
  <2>1. PICK a \in Seq(Messages), items \in Seq(Items) : a = w.msgs /\ items = w.kept
    BY <1>3
  <2>2. UsersOf(a) = ToUserMessages(items) /\ msgs = a \o ToUserMessages(rest)
    BY <1>4, <1>9, <2>1
  <2>3. UsersOf(msgs) = ToUserMessages(items \o rest)
    <3>1. UsersOf(a \o ToUserMessages(rest)) = ToUserMessages(items \o rest)
      BY <2>2, UsersExtend
    <3> QED BY <2>2, <3>1, Zenon
  <2>4. Answers(msgs) = Answers(a)
    BY <2>2, UsersAdded, ZenonT(40)
  <2> QED BY <1>8, <2>1, <2>3, <2>4, Zenon
<1>13. \E k \in 0..Len(r.inc) : UsersOf(msgs) = ToUserMessages(SubSeq(r.inc, 1, k))
  <2>1. Len(r.inc) \in 0..Len(r.inc) /\ r.inc = SubSeq(r.inc, 1, Len(r.inc))
    BY <1>3, HeadRefl, HeadIsCut
  <2> QED BY <1>12, <2>1
<1>14. Answers(msgs) <= w.turn /\ Answers(msgs) <= MaxTurns
  <2>1. Answers(msgs) \in Nat /\ MaxTurns \in Nat
    BY <1>12, AnswersCount DEF RuntimeAssumption
  <2> QED BY <1>3, <1>4, <1>12, <2>1
<1>15. /\ LoopAt(w.turn) \in {"request", "limit"}
       /\ LoopAt(w.turn) = "request" => w.turn < MaxTurns
       /\ LoopAt(w.turn) = "limit" => w.turn = MaxTurns
  BY <1>3, <1>4 DEF LoopAt, RuntimeAssumption
<1>16. RunGood(run')
  BY <1>3, <1>11, <1>12, <1>13, <1>14, <1>15 DEF RunGood, Looping
<1> QED BY <1>11, <1>15, <1>16

\* What is claimed for a run is behind its inputs, in messages and in turns.
LEMMA ClaimedGood ==
  ASSUME TypeInv, NEW r \in Runs, r = run, NEW said \in Seq(Messages),
         UsersOf(said) = ToUserMessages(r.inc), RunGood(r)
  PROVE  \E claimed \in Seq(Items), msgs \in Seq(Messages) :
           /\ claimed = ClaimSuffix(pending, r.inc, r.accepted)
           /\ msgs = said \o ToUserMessages(claimed)
           /\ IsHead(said, msgs) /\ NoCallsBehind(said, msgs)
           /\ UsersOf(msgs) = ToUserMessages(r.inc \o claimed) /\ Answers(msgs) = Answers(said)
           /\ \E k \in 0..Len(r.inc \o claimed) :
                UsersOf(r.initial) = ToUserMessages(SubSeq(r.inc \o claimed, 1, k))
<1>1. PICK inc \in Seq(Items) : inc = r.inc
  BY DEF Runs
<1>2. pending \in Seq(Items) /\ r.accepted \in Int
  BY InputsTypes DEF Runs
<1>3. PICK claimed \in Seq(Items) : claimed = ClaimSuffix(pending, inc, r.accepted)
  BY <1>2, ClaimSuffixType
<1>4. PICK msgs \in Seq(Messages) : msgs = said \o ToUserMessages(claimed)
  BY UsersBehindType
<1>5. UsersOf(said) = ToUserMessages(inc)
  BY <1>1
<1>6. /\ IsHead(said, msgs) /\ NoCallsBehind(said, msgs)
      /\ UsersOf(msgs) = ToUserMessages(inc \o claimed) /\ Answers(msgs) = Answers(said)
  <2>1. UsersOf(msgs) = ToUserMessages(inc \o claimed)
    <3>1. UsersOf(said \o ToUserMessages(claimed)) = ToUserMessages(inc \o claimed)
      BY <1>5, UsersExtend
    <3> QED BY <1>4, <3>1, Zenon
  <2>2. Answers(msgs) = Answers(said)
    BY <1>4, <1>5, UsersAdded, ZenonT(40)
  <2>3. IsHead(said, msgs) /\ NoCallsBehind(said, msgs)
    BY <1>4, <1>5, UsersAdded, ZenonT(40)
  <2> QED BY <2>1, <2>2, <2>3
<1>7. PICK k \in 0..Len(inc) : UsersOf(r.initial) = ToUserMessages(SubSeq(inc, 1, k))
  BY <1>1 DEF RunGood
<1>8. k \in 0..Len(inc \o claimed) /\ SubSeq(inc \o claimed, 1, k) = SubSeq(inc, 1, k)
  BY CutStays
<1>9. \E j \in 0..Len(inc \o claimed) : UsersOf(r.initial) = ToUserMessages(SubSeq(inc \o claimed, 1, j))
  BY <1>7, <1>8, Zenon
<1> QED BY <1>1, <1>3, <1>4, <1>6, <1>9, ZenonT(40)

\* Where the loop goes after a turn.
LEMMA LoopFacts ==
  ASSUME RuntimeAssumption, NEW turn \in Nat, turn < MaxTurns
  PROVE  /\ LoopAt(turn + 1) \in {"request", "limit"}
         /\ LoopAt(turn + 1) = "request" => turn + 1 < MaxTurns
         /\ LoopAt(turn + 1) = "limit" => turn + 1 = MaxTurns
BY DEF LoopAt, RuntimeAssumption

\* The steps between two requests: the run keeps to its inputs and its turns.
LEMMA ProceedsGood ==
  ASSUME RuntimeAssumption, TypeInv, PrefixInv, InputsInv,
         \/ ProviderCallsTools \/ ProviderAnswers \/ ContinueLoop
         \/ InjectAfterTools \/ InjectAfterCandidate
  PROVE  /\ run.pc \in Looping /\ run'.pc \notin {"prepare", "tools"} /\ RunGood(run')
         /\ NoCallsBehind(run.msgs, run'.msgs)
         /\ Spent(run) <= Spent(run')
<1>1. PICK r \in Runs : r = run
  BY InputsTypes
<1>2. r.inc \in Seq(Items) /\ r.msgs \in Seq(Messages) /\ r.turn \in Nat /\ r.initial \in Seq(Messages)
  BY DEF Runs
<1>3. ASSUME r.pc # "idle" PROVE RunGood(r)
  BY <1>1, <1>3 DEF InputsInv, RunInv
<1>4. NoCallsBehind(r.msgs, r.msgs)
  <2>1. Len(r.msgs) \in Nat
    BY <1>2, LenProperties
  <2> QED BY <2>1 DEF NoCallsBehind
<1>5. CASE ProviderCallsTools
  <2>1. run' = [r EXCEPT !.pc = "toolNotify"] /\ r.pc = "request"
    BY <1>5, <1>1 DEF ProviderCallsTools, Ready
  <2>2. /\ run'.pc = "toolNotify" /\ run'.msgs = r.msgs /\ run'.inc = r.inc /\ run'.turn = r.turn
        /\ run'.initial = r.initial /\ run'.target = r.target
    BY <2>1 DEF Runs
  <2>3. RunGood(run')
    BY <1>3, <2>1, <2>2 DEF RunGood, Looping
  <2> QED BY <1>1, <1>2, <1>4, <2>1, <2>2, <2>3 DEF Spent, Looping
<1>6. CASE ProviderAnswers
  <2> DEFINE count == AcceptedCount(r.turn, r.inc)
  <2>1. run' = [r EXCEPT !.pc = "injectFinal", !.accepted = count] /\ r.pc = "request"
    BY <1>6, <1>1 DEF ProviderAnswers, Ready
  <2> HIDE DEF count
  <2>2. /\ run'.pc = "injectFinal" /\ run'.msgs = r.msgs /\ run'.inc = r.inc /\ run'.turn = r.turn
        /\ run'.initial = r.initial /\ run'.target = r.target
    BY <2>1 DEF Runs
  <2>3. RunGood(run')
    BY <1>3, <2>1, <2>2 DEF RunGood, Looping
  <2> QED BY <1>1, <1>2, <1>4, <2>1, <2>2, <2>3 DEF Spent, Looping
<1>7. CASE ContinueLoop
  <2>1. run' = [r EXCEPT !.pc = LoopAt(r.turn + 1), !.turn = r.turn + 1] /\ r.pc = "injectNotify"
    BY <1>7, <1>1 DEF ContinueLoop, Ready
  <2>2. /\ run'.pc = LoopAt(r.turn + 1) /\ run'.msgs = r.msgs /\ run'.inc = r.inc
        /\ run'.turn = r.turn + 1 /\ run'.initial = r.initial /\ run'.target = r.target
    BY <2>1 DEF Runs
  <2>3. RunGood(r) /\ r.turn < MaxTurns
    BY <1>3, <2>1 DEF RunGood, Looping
  <2>4. /\ LoopAt(r.turn + 1) \in {"request", "limit"}
        /\ LoopAt(r.turn + 1) = "request" => r.turn + 1 < MaxTurns
        /\ LoopAt(r.turn + 1) = "limit" => r.turn + 1 = MaxTurns
    BY <1>2, <2>3, LoopFacts
  <2>5. RunGood(run')
    BY <2>1, <2>2, <2>3, <2>4 DEF RunGood, Looping
  <2>6. Spent(r) <= Spent(run')
    BY <1>2, <2>1, <2>2, <2>4 DEF Spent
  <2> QED BY <1>1, <1>4, <2>1, <2>2, <2>4, <2>5, <2>6 DEF Looping
<1>8. CASE InjectAfterTools
  <2>1. r.pc = "inject" /\ RunGood(r) /\ r.turn < MaxTurns /\ UsersOf(r.msgs) = ToUserMessages(r.inc)
    BY <1>1, <1>3, <1>8 DEF InjectAfterTools, Ready, RunGood, Looping
  <2>2. PICK claimed \in Seq(Items), msgs \in Seq(Messages) :
          /\ claimed = ClaimSuffix(pending, r.inc, r.accepted)
          /\ msgs = r.msgs \o ToUserMessages(claimed)
          /\ IsHead(r.msgs, msgs) /\ NoCallsBehind(r.msgs, msgs)
          /\ UsersOf(msgs) = ToUserMessages(r.inc \o claimed) /\ Answers(msgs) = Answers(r.msgs)
          /\ \E k \in 0..Len(r.inc \o claimed) :
               UsersOf(r.initial) = ToUserMessages(SubSeq(r.inc \o claimed, 1, k))
    BY <1>1, <1>2, <2>1, ClaimedGood
  <2>3. PICK inc : inc = r.inc \o claimed
    OBVIOUS
  <2>4. run' = [r EXCEPT !.pc = LoopAt(r.turn + 1), !.turn = r.turn + 1, !.accepted = 0,
                         !.inc = inc, !.msgs = msgs]
    BY <1>1, <1>8, <2>2, <2>3 DEF InjectAfterTools
  <2>5. /\ run'.pc = LoopAt(r.turn + 1) /\ run'.msgs = msgs /\ run'.inc = inc
        /\ run'.turn = r.turn + 1 /\ run'.initial = r.initial /\ run'.target = r.target
    BY <2>4 DEF Runs
  <2>6. /\ LoopAt(r.turn + 1) \in {"request", "limit"}
        /\ LoopAt(r.turn + 1) = "request" => r.turn + 1 < MaxTurns
        /\ LoopAt(r.turn + 1) = "limit" => r.turn + 1 = MaxTurns
    BY <1>2, <2>1, LoopFacts
  <2>7. /\ UsersOf(msgs) = ToUserMessages(inc)
        /\ \E k \in 0..Len(inc) : UsersOf(r.initial) = ToUserMessages(SubSeq(inc, 1, k))
    BY <2>2, <2>3
  <2>8. Answers(msgs) <= r.turn + 1
    BY <2>1, <2>2 DEF RunGood
  <2>9. RunGood(run')
    BY <2>1, <2>5, <2>6, <2>7, <2>8 DEF RunGood, Looping
  <2>10. Spent(r) <= Spent(run')
    BY <1>2, <2>1, <2>5, <2>6 DEF Spent
  <2> QED BY <1>1, <2>1, <2>2, <2>5, <2>6, <2>9, <2>10 DEF Looping
<1>9. CASE InjectAfterCandidate
  <2>1. r.pc = "injectFinal" /\ RunGood(r) /\ r.turn < MaxTurns /\ UsersOf(r.msgs) = ToUserMessages(r.inc)
        /\ Answers(r.msgs) <= r.turn
    BY <1>1, <1>3, <1>9 DEF InjectAfterCandidate, Ready, RunGood, Looping
  <2>2. Text \in Messages /\ Text.kind = "text"
    BY DEF Text, Message, Messages
  <2>3. PICK said \in Seq(Messages) : said = Append(r.msgs, Text)
    BY <1>2, <2>2, AppendFacts
  <2>4. /\ UsersOf(said) = ToUserMessages(r.inc) /\ Answers(said) <= Answers(r.msgs) + 1
        /\ NoCallsBehind(r.msgs, said)
    <3>1. UsersOf(said) = UsersOf(r.msgs) /\ Answers(said) <= Answers(r.msgs) + 1
      BY <1>2, <2>2, <2>3, OneSaid
    <3>2. NoCallsBehind(r.msgs, said)
      BY <1>2, <2>2, <2>3, NoCallsAppended
    <3> QED BY <2>1, <3>1, <3>2
  <2>5. PICK claimed \in Seq(Items), msgs \in Seq(Messages) :
          /\ claimed = ClaimSuffix(pending, r.inc, r.accepted)
          /\ msgs = said \o ToUserMessages(claimed)
          /\ IsHead(said, msgs) /\ NoCallsBehind(said, msgs)
          /\ UsersOf(msgs) = ToUserMessages(r.inc \o claimed) /\ Answers(msgs) = Answers(said)
          /\ \E k \in 0..Len(r.inc \o claimed) :
               UsersOf(r.initial) = ToUserMessages(SubSeq(r.inc \o claimed, 1, k))
    BY <1>1, <2>1, <2>4, ClaimedGood
  <2>6. PICK inc : inc = r.inc \o claimed
    OBVIOUS
  <2>7. run' = [r EXCEPT !.pc = "injectNotify", !.accepted = 0, !.inc = inc, !.msgs = msgs]
    <3>1. r.msgs \o <<Text>> = said
      BY <1>2, <2>2, <2>3, AppendIsConcat
    <3> QED BY <1>1, <1>9, <2>5, <2>6, <3>1 DEF InjectAfterCandidate
  <2>8. /\ run'.pc = "injectNotify" /\ run'.msgs = msgs /\ run'.inc = inc
        /\ run'.turn = r.turn /\ run'.initial = r.initial /\ run'.target = r.target
    BY <2>7 DEF Runs
  <2>9. /\ UsersOf(msgs) = ToUserMessages(inc)
        /\ \E k \in 0..Len(inc) : UsersOf(r.initial) = ToUserMessages(SubSeq(inc, 1, k))
    BY <2>5, <2>6
  <2>10. Answers(msgs) <= r.turn + 1
    <3>1. Answers(msgs) \in Nat /\ Answers(said) \in Nat /\ Answers(r.msgs) \in Nat
      BY <1>2, AnswersCount
    <3> QED BY <1>2, <2>1, <2>4, <2>5, <3>1, SMT
  <2>11. RunGood(run')
    BY <2>1, <2>8, <2>9, <2>10 DEF RunGood, Looping
  <2>12. NoCallsBehind(r.msgs, msgs)
    BY <1>2, <2>4, <2>5, NoCallsTransitive
  <2>13. Spent(r) <= Spent(run')
    BY <1>2, <2>1, <2>8 DEF Spent
  <2> QED BY <1>1, <2>1, <2>8, <2>11, <2>12, <2>13 DEF Looping
<1> QED BY <1>5, <1>6, <1>7, <1>8, <1>9

LEMMA ProceedsKeep ==
  ASSUME RuntimeAssumption, TypeInv, TypeInv', PrefixInv, InputsInv, Proceeds
  PROVE  InputsInv'
<1>1. QueueGrows /\ UNCHANGED <<history, checkpoint>> /\ Consumed' = Consumed
  BY DEF Proceeds, QueueGrows, Consumed
<1>2. CheckpointInv'
  BY <1>1, CheckpointStays DEF InputsInv
<1>3. run' \in Runs /\ run \in Runs /\ checkpoint \in Checkpoints
  BY InputsTypes DEF TypeInv, TypeOK
<1>4. /\ run'.pc # "prepare" /\ RunGood(run')
      /\ paused' = paused \/ paused' = NoPause
  <2>1. CASE PrepareDone
    BY <2>1, PrepareDoneGood DEF PrepareDone
  <2>2. CASE ~PrepareDone
    BY <2>2, ProceedsGood DEF Proceeds
  <2> QED BY <2>1, <2>2
<1>5. PauseInv'
  BY <1>1, <1>3, <1>4, PauseStays DEF InputsInv
<1>6. RunInv'
  BY <1>4 DEF RunInv
<1>7. GrowInv'
  <2> SUFFICES ASSUME checkpoint # NoCheckpoint, checkpoint.inc[1].id > Consumed
               PROVE  GoesOn(checkpoint, run')
    BY <1>1 DEF GrowInv
  <2>1. run.pc # "idle"
    BY DEF Proceeds, PrepareDone, ProviderCallsTools, ProviderAnswers, ContinueLoop,
           InjectAfterTools, InjectAfterCandidate, Ready
  <2>2. GoesOn(checkpoint, run)
    BY <2>1 DEF InputsInv, GrowInv
  <2>3. ~PrepareDone
    BY <2>2 DEF GoesOn, PrepareDone, Ready
  <2>4. /\ run.pc \in Looping /\ run'.pc \notin {"prepare", "tools"}
        /\ NoCallsBehind(run.msgs, run'.msgs) /\ Spent(run) <= Spent(run')
    BY <2>3, ProceedsGood DEF Proceeds
  <2>5. PICK r \in Runs, s \in Runs, c \in Checkpoints : r = run /\ s = run' /\ c = checkpoint
    BY <1>3
  <2>6. /\ r.pc \in Looping \cup {"limit"} /\ s.pc \notin {"prepare", "tools"} /\ GoesOn(c, r)
        /\ NoCallsBehind(r.msgs, s.msgs) /\ Spent(r) <= Spent(s)
    BY <2>2, <2>4, <2>5
  <2>7. GoesOn(c, s)
    BY <2>6, GoesFurther
  <2> QED BY <2>5, <2>7
<1> QED BY <1>2, <1>5, <1>6, <1>7 DEF InputsInv

-----------------------------------------------------------------------------
(* A checkpoint is written *)

\* A checkpoint of the run, which goes on from it or fails over it.
LEMMA RecordKeeps ==
  ASSUME RuntimeAssumption, TypeInv, TypeInv', PrefixInv, LedgerInv, InputsInv,
         UNCHANGED <<pending, asked, history, paused>>, run.pc \notin {"idle", "prepare"},
         NEW phase, NEW turn, NEW msgs, NEW onSuccess,
         SaveCheckpoint(phase, turn, msgs, onSuccess),
         phase # "none", UsersOf(msgs) = ToUserMessages(run.inc), turn <= MaxTurns,
         phase # "final_response" => Answers(msgs) <= turn,
         onSuccess.pc \notin {"idle", "prepare"}, RunGood(onSuccess),
         GoesOn(NewCheckpoint(phase, turn, msgs), onSuccess)
  PROVE  InputsInv'
<1> DEFINE new == NewCheckpoint(phase, turn, msgs)
<1>1. new.phase = phase /\ new.msgs = msgs /\ new.inc = run.inc /\ new.turn = turn /\ new.base = run.base
  BY DEF NewCheckpoint
<1>2. IdentityHolds
  BY DEF SaveCheckpoint
<1>3. /\ run.inc \in Seq(Items) /\ pending \in Seq(Items) /\ run.inc # <<>> /\ run.base = Leaf
  BY <1>2, InputsTypes DEF IdentityHolds
<1>4. IsHead(run.inc, pending)
  BY <1>2, <1>3, PrefixMeans DEF IdentityHolds
<1>5. \/ checkpoint' = new /\ run' = onSuccess
      \/ checkpoint' = checkpoint /\ run' = IdleRun
      \/ checkpoint' = new /\ run' = IdleRun
  BY DEF SaveCheckpoint, EndRun
<1> HIDE DEF new
<1>6. QueueGrows /\ Consumed' = Consumed /\ Leaf' = Leaf
  BY DEF QueueGrows, Consumed, Leaf
<1>7. CheckpointGood(new)
  BY <1>1, <1>3 DEF CheckpointGood
<1>8. CheckpointInv'
  <2>1. CASE checkpoint' = checkpoint
    BY <1>6, <2>1, CheckpointStays DEF InputsInv
  <2>2. CASE checkpoint' = new
    BY <1>1, <1>3, <1>4, <1>6, <1>7, <2>2 DEF CheckpointInv
  <2> QED BY <1>5, <2>1, <2>2
<1>9. RunInv'
  BY <1>5, IdleHolds DEF RunInv
<1>10. GrowInv'
  <2>1. CASE checkpoint' = new /\ run' = onSuccess
    BY <2>1 DEF GrowInv, new
  <2>2. CASE run' = IdleRun
    BY <2>2, IdleHolds
  <2> QED BY <1>5, <2>1, <2>2
<1>11. PauseInv'
  <2>1. paused = NoPause
    BY DEF PrefixInv
  <2>2. PauseGood(NoPause) /\ NoPause.kept = <<>>
    BY NothingRetained
  <2>3. IsHead(<<>>, pending)
    BY <1>3, EmptyHeads
  <2>4. run'.pc # "prepare"
    BY <1>5, BlankRun
  <2> QED BY <2>1, <2>2, <2>3, <2>4 DEF PauseInv
<1> QED BY <1>8, <1>9, <1>10, <1>11 DEF InputsInv

\* A checkpoint of messages msgs that the run goes on with.
LEMMA GoesOnFromNew ==
  ASSUME NEW c, NEW r \in Runs, c.msgs = r.msgs, r.pc # "prepare",
         r.pc \in {"tools", "inject"} => c.turn = r.turn + 1 /\ c.phase # "final_response",
         r.pc \in {"tools", "inject", "finalNotify"}
  PROVE  GoesOn(c, r)
<1>1. r.msgs \in Seq(Messages) /\ r.turn \in Nat
  BY DEF Runs
<1>2. IsHead(r.msgs, r.msgs)
  BY <1>1, HeadRefl
<1>3. r.pc \in Looping \cup {"limit"} => r.pc \in {"tools", "inject"}
  BY DEF Looping
<1>4. r.pc \in {"tools", "inject"} => Spent(r) = r.turn + 1
  BY DEF Spent
<1> QED BY <1>1, <1>2, <1>3, <1>4 DEF GoesOn

LEMMA RecordsKeep ==
  ASSUME RuntimeAssumption, TypeInv, TypeInv', PrefixInv, LedgerInv, InputsInv, Records
  PROVE  InputsInv'
<1>1. PICK r \in Runs : r = run
  BY InputsTypes
<1>2. r.inc \in Seq(Items) /\ r.msgs \in Seq(Messages) /\ r.turn \in Nat /\ r.initial \in Seq(Messages)
      /\ Answers(r.msgs) \in Nat
  BY AnswersCount DEF Runs
<1>3. ASSUME r.pc # "idle" PROVE RunGood(r)
  BY <1>1, <1>3 DEF InputsInv, RunInv
<1>4. UNCHANGED <<pending, asked, history, paused>>
  BY DEF Records
<1>5. CASE BeginTools
  <2>1. PICK call \in Messages : call = Call(batches) /\ call.kind = "call"
    <3>1. batches \in Nat
      BY DEF TypeInv, TypeOK, RuntimeAssumption
    <3>2. Call(batches) \in Messages /\ Call(batches).kind = "call"
      BY <3>1 DEF Call, Message, Messages
    <3> QED BY <3>2
  <2>2. PICK msgs \in Seq(Messages) : msgs = Append(r.msgs, call)
    BY <1>2, AppendFacts
  <2>3. PICK s : s = [r EXCEPT !.pc = "tools", !.msgs = msgs]
    OBVIOUS
  <2>4. SaveCheckpoint("awaiting_tools", r.turn + 1, msgs, s) /\ r.pc = "toolNotify"
    BY <1>1, <1>5, <2>1, <2>2, <2>3 DEF BeginTools, Ready
  <2>5. /\ s \in Runs /\ s.pc = "tools" /\ s.msgs = msgs /\ s.inc = r.inc /\ s.turn = r.turn
        /\ s.initial = r.initial /\ s.target = r.target
    BY <2>3 DEF Runs, CancelCaught
  <2>6. UsersOf(msgs) = UsersOf(r.msgs) /\ Answers(msgs) <= Answers(r.msgs) + 1 /\ Answers(msgs) \in Nat
    BY <1>2, <2>1, <2>2, OneSaid, AnswersCount
  <2>7. /\ UsersOf(msgs) = ToUserMessages(r.inc) /\ Answers(msgs) <= r.turn + 1
        /\ r.turn + 1 <= MaxTurns /\ RunGood(r)
    BY <1>2, <1>3, <2>4, <2>6 DEF RunGood, Looping, RuntimeAssumption
  <2>8. RunGood(s)
    BY <2>4, <2>5, <2>7 DEF RunGood, Looping
  <2>9. PICK c : c = NewCheckpoint("awaiting_tools", r.turn + 1, msgs)
    OBVIOUS
  <2>10. c.msgs = msgs /\ c.turn = r.turn + 1 /\ c.phase = "awaiting_tools"
    BY <2>9 DEF NewCheckpoint
  <2>11. GoesOn(c, s)
    BY <2>5, <2>10, GoesOnFromNew
  <2>12. /\ run.pc \notin {"idle", "prepare"} /\ s.pc \notin {"idle", "prepare"}
         /\ UsersOf(msgs) = ToUserMessages(run.inc)
         /\ GoesOn(NewCheckpoint("awaiting_tools", r.turn + 1, msgs), s)
    BY <1>1, <2>4, <2>5, <2>7, <2>9, <2>11
  <2> QED BY <1>4, <2>4, <2>7, <2>8, <2>12, RecordKeeps
<1>6. CASE ToolsDone
  <2>1. r.pc = "tools" /\ r.msgs # <<>>
    BY <1>1, <1>6 DEF ToolsDone, Ready, TypeInv, CallRecorded
  <2>2. PICK result \in Messages : result = ToolResults(Last(r.msgs).ref) /\ result.kind = "result"
    <3>1. Last(r.msgs).ref \in Nat
      BY <1>2, <2>1, LastMessage
    <3>2. ToolResults(Last(r.msgs).ref) \in Messages /\ ToolResults(Last(r.msgs).ref).kind = "result"
      BY <3>1 DEF ToolResults, Message, Messages
    <3> QED BY <3>2
  <2>3. PICK msgs \in Seq(Messages) : msgs = Append(r.msgs, result)
    BY <1>2, AppendFacts
  <2>4. PICK count \in Nat : count = AcceptedCount(r.turn, r.inc)
    BY <1>2, AcceptedCountType, InputsTypes
  <2>5. PICK s : s = [r EXCEPT !.pc = "inject", !.msgs = msgs, !.accepted = count]
    OBVIOUS
  <2>6. SaveCheckpoint("tools_completed", r.turn + 1, msgs, s)
    BY <1>1, <1>6, <2>2, <2>3, <2>4, <2>5 DEF ToolsDone
  <2>7. /\ s \in Runs /\ s.pc = "inject" /\ s.msgs = msgs /\ s.inc = r.inc /\ s.turn = r.turn
        /\ s.initial = r.initial /\ s.target = r.target
    BY <2>5 DEF Runs, CancelCaught
  <2>8. UsersOf(msgs) = UsersOf(r.msgs) /\ Answers(msgs) = Answers(r.msgs)
    <3>1. ~IsAssistant(result)
      BY <2>2 DEF IsAssistant
    <3> QED BY <1>2, <2>2, <2>3, <3>1, OneSaid
  <2>9. /\ UsersOf(msgs) = ToUserMessages(r.inc) /\ Answers(msgs) <= r.turn + 1
        /\ r.turn + 1 <= MaxTurns /\ RunGood(r)
    BY <1>2, <1>3, <2>1, <2>8 DEF RunGood, Looping, RuntimeAssumption
  <2>10. RunGood(s)
    BY <2>1, <2>7, <2>9 DEF RunGood, Looping
  <2>11. PICK c : c = NewCheckpoint("tools_completed", r.turn + 1, msgs)
    OBVIOUS
  <2>12. c.msgs = msgs /\ c.turn = r.turn + 1 /\ c.phase = "tools_completed"
    BY <2>11 DEF NewCheckpoint
  <2>13. GoesOn(c, s)
    BY <2>7, <2>12, GoesOnFromNew
  <2>14. /\ run.pc \notin {"idle", "prepare"} /\ s.pc \notin {"idle", "prepare"}
         /\ UsersOf(msgs) = ToUserMessages(run.inc)
         /\ GoesOn(NewCheckpoint("tools_completed", r.turn + 1, msgs), s)
    BY <1>1, <2>1, <2>7, <2>9, <2>11, <2>13
  <2> QED BY <1>4, <2>6, <2>9, <2>10, <2>14, RecordKeeps
<1>7. ASSUME NEW pc \in {"injectFinal", "limit"}, NEW turn, turn <= MaxTurns, Finish(pc, turn)
      PROVE  InputsInv'
  <2>1. Text \in Messages /\ Text.kind = "text"
    BY DEF Text, Message, Messages
  <2>2. PICK msgs \in Seq(Messages) : msgs = Append(r.msgs, Text)
    BY <1>2, <2>1, AppendFacts
  <2>3. PICK s : s = [r EXCEPT !.pc = "finalNotify", !.msgs = msgs]
    OBVIOUS
  <2>4. SaveCheckpoint("final_response", turn, msgs, s) /\ r.pc = pc
    BY <1>1, <1>7, <2>2, <2>3 DEF Finish, Ready
  <2>5. /\ s \in Runs /\ s.pc = "finalNotify" /\ s.msgs = msgs /\ s.inc = r.inc /\ s.turn = r.turn
        /\ s.initial = r.initial /\ s.target = r.target
    BY <2>3 DEF Runs, HandlerAwaits
  <2>6. UsersOf(msgs) = ToUserMessages(r.inc) /\ RunGood(r)
    <3>1. UsersOf(msgs) = UsersOf(r.msgs)
      BY <1>2, <2>1, <2>2, OneSaid
    <3>2. RunGood(r)
      BY <1>3, <2>4
    <3> QED BY <2>4, <3>1, <3>2 DEF RunGood
  <2>7. RunGood(s)
    BY <2>4, <2>5, <2>6 DEF RunGood, Looping
  <2>8. PICK c : c = NewCheckpoint("final_response", turn, msgs)
    OBVIOUS
  <2>9. c.msgs = msgs /\ c.phase = "final_response"
    BY <2>8 DEF NewCheckpoint
  <2>10. GoesOn(c, s)
    BY <2>5, <2>9, GoesOnFromNew
  <2>11. /\ run.pc \notin {"idle", "prepare"} /\ s.pc \notin {"idle", "prepare"}
         /\ UsersOf(msgs) = ToUserMessages(run.inc)
         /\ GoesOn(NewCheckpoint("final_response", turn, msgs), s)
    BY <1>1, <2>4, <2>5, <2>6, <2>8, <2>10
  <2> QED BY <1>4, <1>7, <2>4, <2>7, <2>11, RecordKeeps
<1>8. CASE FinishResponse
  <2>1. Finish("injectFinal", r.turn + 1) /\ r.pc = "injectFinal"
    BY <1>1, <1>8 DEF FinishResponse, Finish, Ready
  <2>2. r.turn + 1 <= MaxTurns
    BY <1>2, <1>3, <2>1 DEF RunGood, Looping, RuntimeAssumption
  <2> QED BY <1>7, <2>1, <2>2
<1>9. CASE CloseAtLimit
  <2>1. Finish("limit", MaxTurns) /\ MaxTurns <= MaxTurns
    BY <1>9 DEF CloseAtLimit, RuntimeAssumption
  <2> QED BY <1>7, <2>1
<1> QED BY <1>5, <1>6, <1>8, <1>9 DEF Records

-----------------------------------------------------------------------------
(* Steps that consume or clear what is queued *)

\* What consumes the head of the queue consumes the input of its checkpoint.
LEMMA CheckpointPasses ==
  ASSUME TypeInv, LedgerInv, CheckpointInv, checkpoint' \in {checkpoint, NoCheckpoint},
         Consumed' \in Int, Consumed <= Consumed', 1 \in 1..Len(pending) => Consumed < Consumed'
  PROVE  CheckpointInv'
<1> SUFFICES ASSUME checkpoint' = checkpoint, checkpoint # NoCheckpoint
             PROVE  CheckpointInv'
  BY DEF CheckpointInv
<1>1. CheckpointGood(checkpoint)
  BY DEF CheckpointInv
<1>2. Consumed \in Nat
  BY QueueFacts DEF TypeInv, LedgerInv, QueueIsTail, Consumed
<1>3. checkpoint.inc[1].id \in 1..Consumed'
  <2>1. CASE checkpoint.inc[1].id \in 1..Consumed
    BY <1>2, <2>1
  <2>2. CASE ~(checkpoint.inc[1].id \in 1..Consumed)
    <3>1. 1 \in 1..Len(pending) /\ pending[1] = checkpoint.inc[1]
      BY <2>2, CheckpointHeads
    <3>2. pending[1].id = Consumed + 1
      BY <3>1 DEF LedgerInv, QueueIsTail
    <3> QED BY <1>2, <3>1, <3>2
  <2> QED BY <2>1, <2>2
<1> QED BY <1>1, <1>3 DEF CheckpointInv

\* Nothing is retained afterwards, and the run is over.
LEMMA NothingLeft ==
  ASSUME RuntimeAssumption, paused' = NoPause, run' = IdleRun, pending' \in Seq(Items)
  PROVE  PauseInv' /\ RunInv' /\ GrowInv'
<1>1. PauseGood(NoPause) /\ IsHead(NoPause.kept, pending')
  BY NothingRetained, EmptyHeads
<1>2. run'.pc = "idle"
  BY BlankRun
<1>3. PauseInv'
  BY <1>1, <1>2 DEF PauseInv
<1> QED BY <1>3, IdleHolds

LEMMA SaveKeeps ==
  ASSUME RuntimeAssumption, TypeInv, TypeInv', PrefixInv, LedgerInv, InputsInv, Save
  PROVE  InputsInv'
<1>1. paused' = NoPause /\ run' = IdleRun /\ checkpoint' \in {checkpoint, NoCheckpoint}
  BY SaveConsumes DEF Save, EndRun, DropCheckpoint
<1>2. PICK k \in Nat : k = Len(run.inc) /\ k >= 1
  BY RunFields, LenProperties, EmptySeq DEF Save, MayCommit, TypeInv
<1>3. k <= Len(pending)
  <2>1. run.pc # "idle"
    BY DEF Save, Saving, Ready
  <2>2. IsHead(run.inc, pending)
    BY <2>1, PrefixMeans, InputsTypes DEF PrefixInv, RunHoldsPrefix, IdentityHolds
  <2> QED BY <1>2, <2>2 DEF IsHead
<1>4. Len(pending') = Len(pending) - k
  <2>1. pending' = SubSeq(pending, k + 1, Len(pending)) /\ pending \in Seq(Items)
    BY <1>2, InputsTypes DEF Save, Remaining
  <2>2. k \in 0..Len(pending)
    BY <1>3, QueueFacts DEF TypeInv
  <2> QED BY <2>1, <2>2, DropPrefix
<1>5. Consumed' = Consumed + k /\ Consumed \in Int
  <2>1. asked' = asked /\ Len(asked) \in Nat /\ Len(pending) \in Nat
    BY QueueFacts DEF Save, TypeInv
  <2> QED BY <1>4, <2>1 DEF Consumed
<1>6. CheckpointInv'
  <2>1. Consumed' \in Int /\ Consumed <= Consumed' /\ Consumed < Consumed'
    BY <1>2, <1>5
  <2> QED BY <1>1, <2>1, CheckpointPasses DEF InputsInv
<1>7. pending' \in Seq(Items)
  BY DEF TypeInv, TypeOK
<1> QED BY <1>1, <1>6, <1>7, NothingLeft DEF InputsInv

LEMMA ClearKeeps ==
  ASSUME RuntimeAssumption, TypeInv, TypeInv', PrefixInv, LedgerInv, InputsInv, Clear
  PROVE  InputsInv'
<1>1. paused' = NoPause /\ run' = IdleRun /\ checkpoint' \in {checkpoint, NoCheckpoint}
      /\ asked' = asked /\ pending' = <<>>
  BY DEF Clear, PrefixInv, DropCheckpoint
<1>2. Len(pending') = 0 /\ pending' \in Seq(Items)
  BY <1>1, EmptySeq
<1>3. Consumed' = Len(asked) /\ Len(asked) \in Nat /\ Len(pending) \in Nat
  BY <1>1, <1>2, QueueFacts DEF Consumed, TypeInv
<1>4. CheckpointInv'
  <2>1. Consumed = Len(asked) - Len(pending)
    BY DEF Consumed
  <2>2. Consumed' \in Int /\ Consumed <= Consumed' /\ (1 \in 1..Len(pending) => Consumed < Consumed')
    BY <1>3, <2>1
  <2> QED BY <1>1, <2>2, CheckpointPasses DEF InputsInv
<1> QED BY <1>1, <1>2, <1>4, NothingLeft DEF InputsInv

-----------------------------------------------------------------------------
(* LOAD *)

\* A run that prepares has no messages yet.
LEMMA PreparingGood ==
  ASSUME RuntimeAssumption, NEW r \in Runs, r.pc = "prepare", r.initial = <<>>
  PROVE  RunGood(r)
<1>1. r.inc \in Seq(Items) /\ Len(r.inc) \in Nat
  BY LenProperties DEF Runs
<1>2. 0 \in 0..Len(r.inc) /\ SubSeq(r.inc, 1, 0) = <<>>
  <2>1. 0 \in 0..Len(r.inc)
    BY <1>1
  <2>2. SubSeq(r.inc, 1, 0) \in Seq(Items) /\ Len(SubSeq(r.inc, 1, 0)) = 0
    BY <1>1, <2>1, PrefixFacts
  <2> QED BY <2>1, <2>2, EmptySeq
<1>3. UsersOf(r.initial) = ToUserMessages(SubSeq(r.inc, 1, 0)) /\ Answers(r.initial) = 0
  BY <1>2, NoAnswers
<1>4. Answers(r.initial) <= MaxTurns
  BY <1>3 DEF RuntimeAssumption
<1> QED BY <1>2, <1>3, <1>4 DEF RunGood, Looping

\* All of a sequence is its first part.
LEMMA WholeCut ==
  ASSUME NEW S, NEW s \in Seq(S)
  PROVE  Len(s) \in 0..Len(s) /\ SubSeq(s, 1, Len(s)) = s
BY HeadRefl, HeadIsCut

\* The results of an interrupted batch are neither a user's nor an answer.
LEMMA InterruptedSaid ==
  ASSUME RuntimeAssumption, TypeInv
  PROVE  \E closed \in Seq(Messages) :
           /\ closed = checkpoint.msgs \o InterruptedResults
           /\ IsHead(checkpoint.msgs, closed) /\ NoCallsBehind(checkpoint.msgs, closed)
           /\ UsersOf(closed) = UsersOf(checkpoint.msgs)
           /\ Answers(closed) = Answers(checkpoint.msgs)
           /\ checkpoint.phase = "final_response" => closed = checkpoint.msgs
<1>1. PICK c \in Seq(Messages) : c = checkpoint.msgs
  BY InputsTypes
<1>2. CASE checkpoint.phase = "awaiting_tools"
  <2>1. c # <<>>
    BY <1>1, <1>2 DEF TypeInv, CallRecorded
  <2>2. PICK m : m = Message("unknown", Last(c).ref, 0)
    OBVIOUS
  <2>3. m \in Messages /\ m.kind = "unknown" /\ ~IsAssistant(m)
    <3>1. Last(c).ref \in Nat
      BY <2>1, LastMessage
    <3>2. m \in Messages /\ m.kind = "unknown"
      BY <2>2, <3>1 DEF Message, Messages
    <3> QED BY <3>2 DEF IsAssistant
  <2>4. PICK closed \in Seq(Messages) : closed = Append(c, m)
    BY <2>3, AppendFacts
  <2>5. closed = checkpoint.msgs \o InterruptedResults
    <3>1. InterruptedResults = <<m>>
      BY <1>1, <1>2, <2>2 DEF InterruptedResults
    <3>2. c \o <<m>> = Append(c, m)
      BY <2>3, AppendIsConcat
    <3> QED BY <1>1, <2>4, <3>1, <3>2
  <2>6. IsHead(c, closed) /\ UsersOf(closed) = UsersOf(c) /\ Answers(closed) = Answers(c)
    BY <2>3, <2>4, OneSaid
  <2>7. NoCallsBehind(c, closed)
    BY <2>3, <2>4, NoCallsAppended
  <2> QED BY <1>1, <1>2, <2>5, <2>6, <2>7
<1>3. CASE checkpoint.phase # "awaiting_tools"
  <2>1. c = checkpoint.msgs \o InterruptedResults
    BY <1>1, <1>3, ConcatEmptySeq DEF InterruptedResults
  <2>2. IsHead(c, c)
    BY HeadRefl
  <2>3. NoCallsBehind(c, c)
    <3>1. Len(c) \in Nat
      BY LenProperties
    <3> QED BY <3>1 DEF NoCallsBehind
  <2> QED BY <1>1, <2>1, <2>2, <2>3
<1> QED BY <1>2, <1>3

\* A run that resumes the checkpoint speaks for its inputs and goes on from it.
LEMMA ResumedGood ==
  ASSUME RuntimeAssumption, TypeInv, TypeInv', InputsInv, NEW who \in InputIds, NEW q \in Seq(Items),
         LoadCheckpoint(who, q)
  PROVE  RunGood(run') /\ GoesOn(checkpoint, run')
<1>1. PICK r \in Runs : r = run'
  BY DEF TypeInv, TypeOK
<1>2. PICK c \in Checkpoints : c = checkpoint
  BY InputsTypes
<1>3. c.msgs \in Seq(Messages) /\ c.inc \in Seq(Items) /\ c.turn \in Nat /\ Answers(c.msgs) \in Nat
  BY AnswersCount DEF Checkpoints
<1>4. /\ UsersOf(c.msgs) = ToUserMessages(c.inc) /\ c.turn <= MaxTurns
      /\ c.phase # "final_response" => Answers(c.msgs) <= c.turn
  BY <1>2 DEF InputsInv, CheckpointInv, CheckpointGood, LoadCheckpoint
<1>5. PICK closed \in Seq(Messages) :
        /\ closed = c.msgs \o InterruptedResults
        /\ IsHead(c.msgs, closed) /\ NoCallsBehind(c.msgs, closed)
        /\ UsersOf(closed) = UsersOf(c.msgs)
        /\ Answers(closed) = Answers(c.msgs)
        /\ c.phase = "final_response" => closed = c.msgs
  BY <1>2, InterruptedSaid
<1>6. PICK claimed \in Seq(Items) : claimed = ResumedInputs(q)
  BY ResumedTypes DEF TypeInv
<1>7. PICK msgs \in Seq(Messages) : msgs = closed \o ToUserMessages(claimed)
  BY UsersBehindType
<1>8. /\ IsHead(closed, msgs) /\ NoCallsBehind(closed, msgs)
      /\ UsersOf(msgs) = ToUserMessages(c.inc \o claimed)
      /\ Answers(msgs) = Answers(c.msgs)
  <2>1. UsersOf(closed) = ToUserMessages(c.inc)
    BY <1>4, <1>5
  <2>2. PICK inc \in Seq(Items) : inc = c.inc
    BY <1>3
  <2>3. UsersOf(closed) = ToUserMessages(inc)
    BY <2>1, <2>2
  <2>4. UsersOf(msgs) = ToUserMessages(inc \o claimed)
    <3>1. UsersOf(closed \o ToUserMessages(claimed)) = ToUserMessages(inc \o claimed)
      BY <2>3, UsersExtend
    <3> QED BY <1>7, <3>1, Zenon
  <2>5. Answers(msgs) = Answers(closed)
    BY <1>7, <2>3, UsersAdded, ZenonT(40)
  <2>6. IsHead(closed, msgs) /\ NoCallsBehind(closed, msgs)
    BY <1>7, <2>3, UsersAdded, ZenonT(40)
  <2> QED BY <1>5, <2>2, <2>4, <2>5, <2>6
<1>9. /\ r.pc = ResumePoint /\ r.inc = c.inc \o claimed /\ r.initial = msgs /\ r.msgs = msgs
      /\ r.turn = c.turn /\ r.target = 0
  BY <1>1, <1>2, <1>5, <1>6, <1>7 DEF LoadCheckpoint, IdleRun, ResumeTurn
<1>10. /\ c.phase = "final_response" => r.pc = "save"
       /\ c.phase # "final_response" => r.pc = LoopAt(c.turn)
  BY <1>2, <1>9 DEF ResumePoint
<1>11. /\ r.pc \in {"save", "request", "limit"} /\ (r.pc = "save" <=> c.phase = "final_response")
       /\ (r.pc = "request" => c.turn < MaxTurns) /\ (r.pc = "limit" => c.turn = MaxTurns)
  BY <1>3, <1>4, <1>10 DEF LoopAt, RuntimeAssumption
<1>12. RunGood(r)
  <2>1. PICK inc \in Seq(Items) : inc = r.inc
    BY DEF Runs
  <2>2. Len(inc) \in 0..Len(inc) /\ UsersOf(r.initial) = ToUserMessages(SubSeq(inc, 1, Len(inc)))
    <3>1. Len(inc) \in 0..Len(inc) /\ SubSeq(inc, 1, Len(inc)) = inc
      BY WholeCut
    <3> QED BY <1>8, <1>9, <2>1, <3>1
  <2>3. \E k \in 0..Len(r.inc) : UsersOf(r.initial) = ToUserMessages(SubSeq(r.inc, 1, k))
    BY <2>1, <2>2
  <2>4. c.phase # "final_response" => Answers(msgs) <= c.turn /\ Answers(msgs) <= MaxTurns
    BY <1>3, <1>4, <1>8 DEF RuntimeAssumption
  <2> QED BY <1>8, <1>9, <1>11, <2>3, <2>4 DEF RunGood, Looping
<1>13. GoesOn(c, r)
  <2>1. IsHead(c.msgs, r.msgs)
    BY <1>3, <1>5, <1>8, <1>9, HeadTrans
  <2>2. BatchesOf(c.msgs) = BatchesOf(r.msgs)
    <3>1. NoCallsBehind(c.msgs, msgs)
      BY <1>3, <1>5, <1>8, NoCallsTransitive
    <3> QED BY <1>3, <1>9, <3>1, SameBatches
  <2>3. ASSUME c.phase = "final_response" PROVE r.msgs = c.msgs
    <3>1. claimed = <<>> /\ closed = c.msgs
      BY <1>2, <1>5, <1>6, <2>3 DEF ResumedInputs
    <3>2. msgs = closed
      BY <1>7, <3>1, NoAnswers, ConcatEmptySeq
    <3> QED BY <1>9, <3>1, <3>2
  <2>4. Spent(r) = c.turn
    BY <1>9, <1>11 DEF Spent
  <2> QED BY <1>3, <1>11, <2>1, <2>2, <2>3, <2>4 DEF GoesOn, Looping
<1> QED BY <1>1, <1>2, <1>12, <1>13

LEMMA StartsRunKeep ==
  ASSUME RuntimeAssumption, TypeInv, TypeInv', PrefixInv, InputsInv, StartsRun
  PROVE  InputsInv'
<1>1. PICK q \in Seq(Items) : q = pending'
  BY DEF TypeInv, TypeOK
<1>2. PICK who \in InputIds : Load(who, q)
  BY <1>1 DEF StartsRun
<1>3. QueueGrows /\ UNCHANGED <<history, paused>> /\ run = IdleRun /\ Consumed' = Consumed
  BY DEF StartsRun, PrefixInv, QueueGrows
<1>4. PICK r \in Runs : r = run'
  BY DEF TypeInv, TypeOK
<1>5. checkpoint' \in {checkpoint, NoCheckpoint}
  BY <1>2 DEF Load, LoadPaused, LoadFresh, LoadCheckpoint, LoadFails, DropCheckpoint
<1>6. CheckpointInv'
  BY <1>3, <1>5, CheckpointStays DEF InputsInv
<1>7. ASSUME r.pc = "prepare" /\ paused # NoPause => Len(paused.kept) <= Len(r.inc)
      PROVE  PauseInv'
  BY <1>3, <1>4, <1>5, <1>7, PauseStays DEF InputsInv
\* No run starts.
<1>8. CASE run' = run
  BY <1>3, <1>4, <1>6, <1>7, <1>8, IdleHolds, BlankRun DEF InputsInv
<1>9. CASE q # <<>> /\ paused = NoPause /\ LoadFresh(who, q)
  <2>1. r.pc = "prepare" /\ r.initial = <<>>
    BY <1>4, <1>9 DEF LoadFresh, IdleRun
  <2>2. RunInv'
    BY <1>4, <2>1, PreparingGood DEF RunInv
  <2>3. PauseInv'
    BY <1>7, <1>9
  <2>4. ASSUME checkpoint # NoCheckpoint, checkpoint.inc[1].id > Consumed
        PROVE  FALSE
    <3>a. Consumed \in Int /\ checkpoint.inc \in Seq(Items)
      BY InputsTypes
    <3>b. \A id : id > Consumed => id \notin 1..Consumed
      BY <3>a
    <3>1. checkpoint.inc[1].id \notin 1..Consumed /\ checkpoint.inc \in Seq(Items)
      BY <2>4, <3>a, <3>b, Zenon
    <3>2. IsHead(checkpoint.inc, pending) /\ 1 \in 1..Len(checkpoint.inc)
      BY <2>4, <3>1, CheckpointHeads DEF InputsInv
    <3>3. IsHead(checkpoint.inc, q)
      BY <1>1, <1>3, <3>1, <3>2, HeadsStay
    <3>4. q[1] = checkpoint.inc[1] /\ 1 \in 1..Len(q)
      BY <1>1, <3>1, <3>2, <3>3, LenProperties DEF IsHead
    <3>5. checkpoint.inc[1].id \in IdSet(q)
      BY <1>1, <3>4, LenProperties DEF IdSet
    <3> QED BY <1>9, <2>4, <3>4, <3>5 DEF LoadFresh
  <2>5. GrowInv'
    BY <1>3, <1>5, <2>4 DEF GrowInv
  <2> QED BY <1>6, <2>2, <2>3, <2>5 DEF InputsInv
<1>10. CASE q # <<>> /\ paused = NoPause /\ LoadCheckpoint(who, q)
  <2>1. RunGood(run') /\ GoesOn(checkpoint, run') /\ checkpoint' = checkpoint
    BY <1>10, ResumedGood DEF LoadCheckpoint
  <2>2. RunInv' /\ GrowInv'
    BY <2>1 DEF RunInv, GrowInv
  <2>3. PauseInv'
    BY <1>7, <1>10
  <2> QED BY <1>6, <2>2, <2>3 DEF InputsInv
<1>11. CASE q # <<>> /\ paused # NoPause /\ LoadPaused(who, q)
  <2>1. r.pc = "prepare" /\ r.initial = <<>>
    BY <1>4, <1>11 DEF LoadPaused, IdleRun
  <2>2. PICK kept \in Seq(Items) : kept = paused.kept
    BY InputsTypes
  <2>3. PICK claimed : r.inc = kept \o claimed /\ claimed \in Seq(Items)
    <3>1. RemainingCapacity(kept) \in Int
      BY LenProperties DEF RemainingCapacity, RuntimeAssumption
    <3>2. /\ <<>> \in Seq(Items) /\ 1 \in Int
          /\ ClaimSuffix(q, <<>>, 1) \in Seq(Items)
          /\ ClaimSuffix(q, kept, RemainingCapacity(kept)) \in Seq(Items)
      <4>1. <<>> \in Seq(Items) /\ 1 \in Int
        BY EmptySeq
      <4>2. ClaimSuffix(q, <<>>, 1) \in Seq(Items)
        BY <4>1, ClaimSuffixType, Zenon
      <4>3. ClaimSuffix(q, kept, RemainingCapacity(kept)) \in Seq(Items)
        BY <3>1, ClaimSuffixType
      <4> QED BY <4>1, <4>2, <4>3
    <3>3. r.inc = kept \o (IF kept = <<>> THEN ClaimSuffix(q, <<>>, 1)
                           ELSE IF RemainingCapacity(kept) > 0
                                THEN ClaimSuffix(q, kept, RemainingCapacity(kept))
                                ELSE <<>>)
      BY <1>4, <1>11, <2>2 DEF LoadPaused, IdleRun
    <3> QED BY <3>2, <3>3
  <2>4. Len(kept) <= Len(r.inc)
    <3>1. Len(kept \o claimed) = Len(kept) + Len(claimed)
      BY <2>3, ConcatFacts
    <3>2. Len(kept) \in Nat /\ Len(claimed) \in Nat
      BY <2>3, LenProperties
    <3> QED BY <2>3, <3>1, <3>2
  <2>5. PauseInv'
    BY <1>7, <2>2, <2>4
  <2>6. RunInv'
    BY <1>4, <2>1, PreparingGood DEF RunInv
  <2>7. checkpoint' = NoCheckpoint
    BY <1>5, <1>11 DEF InputsInv, PauseInv
  <2>8. GrowInv'
    BY <2>7 DEF GrowInv
  <2> QED BY <1>6, <2>5, <2>6, <2>8 DEF InputsInv
<1> QED BY <1>2, <1>8, <1>9, <1>10, <1>11 DEF Load, LoadFails

-----------------------------------------------------------------------------
(* Pausing and revising *)

\* The messages before a target's hold no message of the target, and are the
\* first ones of the source.
LEMMA PreservedFacts ==
  ASSUME TypeInv, NEW id, NEW src \in Seq(Messages), src = PauseSource
  PROVE  \E p \in Seq(Messages) :
           /\ p = PreservedMessages(id) /\ IsHead(p, src)
           /\ \A j \in 1..Len(p) : ~(p[j].kind = "user" /\ p[j].ref = id)
<1> DEFINE at == {i \in DOMAIN src : src[i].kind = "user" /\ src[i].ref = id}
<1>1. Len(src) \in Nat /\ DOMAIN src = 1..Len(src)
  BY LenProperties
<1>2. PreservedMessages(id) = IF at = {} THEN src ELSE SubSeq(src, 1, Min(at) - 1)
  BY DEF PreservedMessages
<1>3. at \in SUBSET Nat /\ at \subseteq 1..Len(src)
  BY <1>1
<1>4. CASE at = {}
  <2>1. PreservedMessages(id) = src /\ IsHead(src, src)
    BY <1>2, <1>4, HeadRefl
  <2>2. \A j \in 1..Len(src) : ~(src[j].kind = "user" /\ src[j].ref = id)
    BY <1>1, <1>4
  <2> QED BY <2>1, <2>2
<1>5. CASE at # {}
  <2> DEFINE m == Min(at)
  <2>1. m \in at /\ \A j \in at : m <= j
    <3> HIDE DEF at
    <3>1. PICK first \in at : \A j \in at : first <= j
      BY <1>3, <1>5, LeastNumber
    <3> QED BY <3>1 DEF Min
  <2>2. m \in 1..Len(src) /\ m - 1 \in 0..Len(src)
    BY <1>1, <1>3, <2>1
  <2>3. PreservedMessages(id) = SubSeq(src, 1, m - 1)
    BY <1>2, <1>5
  <2> HIDE DEF m, at
  <2>4. \A j \in 1..(m - 1) : j \notin at
    BY <1>1, <2>1, <2>2
  <2>5. PICK p \in Seq(Messages) : p = SubSeq(src, 1, m - 1)
    <3>1. PICK h \in 0..Len(src) : h = m - 1
      BY <2>2
    <3>2. SubSeq(src, 1, h) \in Seq(Messages)
      BY HeadCut
    <3> QED BY <3>1, <3>2
  <2>6. IsHead(p, src) /\ Len(p) = m - 1 /\ \A j \in 1..(m - 1) : p[j] = src[j]
    BY <2>2, <2>5, HeadCut, PrefixFacts
  <2>7. \A j \in 1..(m - 1) : j \in DOMAIN src
    BY <1>1, <2>2
  <2>8. \A j \in 1..Len(p) : ~(p[j].kind = "user" /\ p[j].ref = id)
    BY <2>4, <2>6, <2>7 DEF at
  <2> QED BY <2>3, <2>5, <2>6, <2>8
<1> QED BY <1>4, <1>5

\* The messages a pause starts from speak for the first inputs of the run.
LEMMA SourceGood ==
  ASSUME RuntimeAssumption, TypeInv, NEW r \in Runs, r = run, r.target # 0, RunGood(r)
  PROVE  \E src \in Seq(Messages), k \in 0..Len(r.inc) :
           /\ src = PauseSource /\ UsersOf(src) = ToUserMessages(SubSeq(r.inc, 1, k))
           /\ Answers(src) <= MaxTurns
<1>1. r.msgs \in Seq(Messages) /\ r.initial \in Seq(Messages) /\ r.inc \in Seq(Items) /\ r.turn \in Nat
      /\ Answers(r.msgs) \in Nat
  BY AnswersCount DEF Runs
<1>2. CASE r.pc \in CancelCaught
  <2>1. PauseSource = r.msgs
    BY <1>2 DEF PauseSource
  <2>2. PICK inc \in Seq(Items) : inc = r.inc
    BY <1>1
  <2>3. Len(inc) \in 0..Len(inc) /\ SubSeq(inc, 1, Len(inc)) = inc
    BY WholeCut
  <2>4. UsersOf(r.msgs) = ToUserMessages(inc)
    BY <1>2, <2>2 DEF RunGood, CancelCaught
  <2>5. Answers(r.msgs) <= MaxTurns
    BY <1>1, <1>2 DEF RunGood, CancelCaught, Looping, RuntimeAssumption
  <2> QED BY <1>1, <2>1, <2>2, <2>3, <2>4, <2>5
<1>3. CASE r.pc \notin CancelCaught
  BY <1>1, <1>3 DEF PauseSource, RunGood
<1> QED BY <1>2, <1>3

\* So a prefix retained of a run speaks for the inputs it keeps.
LEMMA CapturedGood ==
  ASSUME RuntimeAssumption, TypeInv, PrefixInv, LedgerInv, InputsInv,
         run.target # 0, NEW w,
         w = [target |-> run.target, base |-> run.base, turn |-> PreservedTurns(run.target),
              kept |-> PreservedInputs(run.target), msgs |-> PreservedMessages(run.target)]
  PROVE  PauseGood(w) /\ IsHead(w.kept, pending) /\ w.base = Leaf
<1>1. PICK r \in Runs : r = run
  BY InputsTypes
<1>2. PICK id : id = r.target
  OBVIOUS
<1>3. r.pc # "idle"
  BY <1>1 DEF PrefixInv, IdleRun
<1>4. RunGood(r)
  BY <1>1, <1>3 DEF InputsInv, RunInv
<1>5. PICK inc \in Seq(Items) : inc = r.inc
  BY DEF Runs
<1>6. PICK src \in Seq(Messages), k \in 0..Len(inc) :
        /\ src = PauseSource /\ UsersOf(src) = ToUserMessages(SubSeq(inc, 1, k))
        /\ Answers(src) <= MaxTurns
  BY <1>1, <1>4, <1>5, SourceGood
<1>7. PICK p \in Seq(Messages) :
        /\ p = PreservedMessages(id) /\ IsHead(p, src)
        /\ \A j \in 1..Len(p) : ~(p[j].kind = "user" /\ p[j].ref = id)
  BY <1>6, PreservedFacts
<1>8. PICK c : c = Cardinality({i \in DOMAIN inc : ToUserMessage(inc[i]) \in Range(p)})
  OBVIOUS
<1>9. IsHead(inc, pending) /\ r.base = Leaf /\ pending \in Seq(Items)
  BY <1>1, <1>3, <1>5, PrefixMeans, InputsTypes DEF PrefixInv, RunHoldsPrefix, IdentityHolds
<1>10. \A i, j \in 1..Len(inc) : inc[i].id = inc[j].id => i = j
  <2>1. Consumed \in Int /\ Len(inc) \in Nat /\ Len(pending) \in Nat
    BY InputsTypes, LenProperties
  <2>2. \A i \in 1..Len(inc) : inc[i].id = Consumed + i
    <3> SUFFICES ASSUME NEW i \in 1..Len(inc) PROVE inc[i].id = Consumed + i
      OBVIOUS
    <3>1. i \in 1..Len(pending) /\ pending[i] = inc[i]
      BY <1>9, <2>1 DEF IsHead
    <3>2. pending[i].id = Consumed + i
      BY <3>1 DEF LedgerInv, QueueIsTail
    <3> QED BY <3>1, <3>2
  <2> QED BY <2>1, <2>2
<1>11. /\ c \in 0..Len(inc)
       /\ UsersOf(p) = ToUserMessages(SubSeq(inc, 1, c))
       /\ \A i \in 1..c : \E j \in 1..Len(p) : p[j] = ToUserMessage(inc[i])
  <2>1. UsersOf(src) = ToUserMessages(SubSeq(inc, 1, k)) /\ IsHead(p, src)
    BY <1>6, <1>7
  <2>2. c \in 0..Len(inc)
    BY <1>8, <1>10, <2>1, UsersPreserved
  <2> QED BY <1>8, <1>10, <2>1, <2>2, UsersPreserved
<1>12. PICK kept \in Seq(Items) : kept = SubSeq(inc, 1, c)
  BY <1>11, HeadCut
<1>13. /\ w.target = id /\ w.base = r.base /\ w.turn = Answers(p) /\ w.kept = kept /\ w.msgs = p
  BY <1>1, <1>2, <1>5, <1>7, <1>8, <1>12 DEF PreservedInputs, PreservedTurns, Answers
<1>14. IsHead(kept, pending)
  <2>1. IsHead(kept, inc)
    BY <1>11, <1>12, HeadCut
  <2> QED BY <1>9, <2>1, HeadTrans
<1>15. id \notin IdSet(kept)
  <2>1. Len(kept) = c /\ DOMAIN kept = 1..c /\ \A i \in 1..c : kept[i] = inc[i]
    <3>1. Len(kept) = c /\ \A i \in 1..c : kept[i] = inc[i]
      BY <1>11, <1>12, PrefixFacts
    <3> QED BY <3>1, LenProperties
  <2>2. ASSUME NEW i \in 1..c PROVE inc[i].id # id
    <3>1. PICK j \in 1..Len(p) : p[j] = ToUserMessage(inc[i])
      BY <1>11
    <3>2. p[j].kind = "user" /\ p[j].ref = inc[i].id
      BY <3>1 DEF ToUserMessage, Message
    <3> QED BY <1>7, <3>2
  <2> QED BY <2>1, <2>2 DEF IdSet
<1>16. Answers(p) <= Answers(src) /\ Answers(p) \in Nat /\ Answers(src) \in Nat
  BY <1>7, AnswersBehind, AnswersCount
<1>17. w.turn <= MaxTurns /\ Answers(w.msgs) <= w.turn
  BY <1>6, <1>13, <1>16 DEF RuntimeAssumption
<1>18. UsersOf(w.msgs) = ToUserMessages(w.kept) /\ w.target \notin IdSet(w.kept)
  BY <1>11, <1>12, <1>13, <1>15
<1> QED BY <1>9, <1>13, <1>14, <1>17, <1>18 DEF PauseGood

LEMMA RetainsKeep ==
  ASSUME RuntimeAssumption, TypeInv, PrefixInv, LedgerInv, InputsInv, Retains
  PROVE  InputsInv'
<1>1. UNCHANGED <<pending, asked, history>> /\ QueueGrows /\ Leaf' = Leaf
  BY DEF Retains, QueueGrows, Consumed, Leaf
<1>2. ASSUME run' = IdleRun, UNCHANGED <<checkpoint, paused>>
      PROVE  InputsInv'
  <2>1. Idles
    BY <1>1, <1>2 DEF Idles
  <2> QED BY <2>1, IdlesKeep
<1>3. ASSUME run' = IdleRun, checkpoint' = NoCheckpoint, NEW w, paused' = w,
             PauseGood(w), IsHead(w.kept, pending), w.base = Leaf
      PROVE  InputsInv'
  <2>1. CheckpointInv'
    BY <1>3 DEF CheckpointInv
  <2>2. PauseInv'
    BY <1>1, <1>3, BlankRun DEF PauseInv
  <2> QED BY <1>3, <2>1, <2>2, IdleHolds DEF InputsInv
<1>4. ASSUME NEW id \in 1..MaxInputs, PauseInactive(id)
      PROVE  InputsInv'
  <2>1. run' = IdleRun
    BY <1>4 DEF PauseInactive, PrefixInv
  <2>2. PICK w : w = [NoPause EXCEPT !.target = id, !.base = Leaf]
    OBVIOUS
  <2>3. /\ w.target = id /\ w.base = Leaf /\ w.turn = NoPause.turn
        /\ w.kept = NoPause.kept /\ w.msgs = NoPause.msgs
    BY <2>2 DEF NoPause
  <2>4. PauseGood(w)
    <3>1. IdSet(<<>>) = {}
      <4>1. DOMAIN <<>> = {}
        BY NoMessages, LenProperties
      <4> QED BY <4>1 DEF IdSet
    <3> QED BY <2>3, <3>1, NothingRetained DEF PauseGood
  <2>5. IsHead(w.kept, pending)
    BY <2>3, NothingRetained, EmptyHeads, InputsTypes
  <2>6. CASE checkpoint' = NoCheckpoint /\ paused' = w
    BY <1>3, <2>1, <2>3, <2>4, <2>5, <2>6
  <2>7. CASE UNCHANGED <<checkpoint, paused>>
    BY <1>2, <2>1, <2>7
  <2> QED BY <1>4, <2>2, <2>6, <2>7 DEF PauseInactive, RetainPrefix
<1>5. CASE CapturePausedRun
  <2>1. run' = IdleRun /\ run.target # 0
    BY <1>5 DEF CapturePausedRun, EndRun
  <2>2. PICK w : w = [target |-> run.target, base |-> run.base, turn |-> PreservedTurns(run.target),
                      kept |-> PreservedInputs(run.target), msgs |-> PreservedMessages(run.target)]
    OBVIOUS
  <2>3. PauseGood(w) /\ IsHead(w.kept, pending) /\ w.base = Leaf
    BY <2>1, <2>2, CapturedGood
  <2>4. CASE checkpoint' = NoCheckpoint /\ paused' = w
    BY <1>3, <2>1, <2>3, <2>4
  <2>5. CASE UNCHANGED <<checkpoint, paused>>
    BY <1>2, <2>1, <2>5
  <2>6. RetainPrefix(w)
    BY <1>5, <2>2 DEF CapturePausedRun
  <2> QED BY <2>4, <2>5, <2>6 DEF RetainPrefix
<1> QED BY <1>4, <1>5 DEF Retains

\* Revising the target leaves the kept inputs as they are.
LEMMA ReviseKeeps ==
  ASSUME RuntimeAssumption, TypeInv, TypeInv', PrefixInv, InputsInv, NEW size \in Sizes, Revise(size)
  PROVE  InputsInv'
<1>1. /\ paused # NoPause /\ UNCHANGED <<paused, history, checkpoint, run>>
      /\ run' = IdleRun /\ Leaf' = Leaf
  BY DEF Revise, PrefixInv, LatchStopsRuns, Leaf
<1>2. checkpoint' = NoCheckpoint
  BY <1>1 DEF InputsInv, PauseInv
<1>3. CheckpointInv'
  BY <1>2 DEF CheckpointInv
<1>4. PICK kept \in Seq(Items) : kept = paused.kept
  BY InputsTypes
<1>5. IsHead(kept, pending) /\ paused.target \notin IdSet(kept)
  BY <1>4 DEF InputsInv, PauseInv, PauseGood
<1>6. Len(pending') = Len(pending) /\ \A i \in 1..Len(pending) :
        pending[i].id # paused.target => pending'[i] = pending[i]
  <2>1. /\ pending \in Seq(Items) /\ pending' \in Seq(Items)
        /\ pending' = [k \in DOMAIN pending |->
                         IF pending[k].id = paused.target
                         THEN Item(paused.target, pending[k].rev + 1, size) ELSE pending[k]]
    BY DEF Revise, TypeInv, TypeOK
  <2>2. DOMAIN pending' = DOMAIN pending /\ DOMAIN pending = 1..Len(pending) /\ Len(pending) \in Nat
        /\ DOMAIN pending' = 1..Len(pending') /\ Len(pending') \in Nat
    BY <2>1, LenProperties
  <2>3. Len(pending') = Len(pending)
    <3>1. \A a, b \in Nat : 1..a = 1..b => a = b
      <4> SUFFICES ASSUME NEW a \in Nat, NEW b \in Nat, 1..a = 1..b PROVE a = b
        OBVIOUS
      <4>1. (a \in 1..a <=> a \in 1..b) /\ (b \in 1..a <=> b \in 1..b)
        OBVIOUS
      <4> QED BY <4>1
    <3>2. 1..Len(pending') = 1..Len(pending)
      BY <2>2, Zenon
    <3> QED BY <2>2, <3>1, <3>2
  <2> QED BY <2>1, <2>2, <2>3
<1>7. IsHead(kept, pending')
  <2>1. Len(kept) \in Nat /\ DOMAIN kept = 1..Len(kept) /\ Len(pending) \in Nat
    BY InputsTypes, LenProperties
  <2>2. ASSUME NEW i \in 1..Len(kept) PROVE pending'[i] = kept[i]
    <3>1. pending[i] = kept[i] /\ i \in 1..Len(pending)
      BY <1>5, <2>1 DEF IsHead
    <3>2. kept[i].id # paused.target
      BY <1>5, <2>1 DEF IdSet
    <3> QED BY <1>6, <3>1, <3>2
  <2> QED BY <1>5, <1>6, <2>2 DEF IsHead
<1>8. PauseInv'
  <2>1. PauseGood(paused) /\ paused.base = Leaf
    BY <1>1 DEF InputsInv, PauseInv
  <2>2. PauseGood(paused)'
    BY <1>1, <2>1
  <2>3. IsHead(paused.kept, pending)'
    BY <1>1, <1>4, <1>7
  <2> QED BY <1>1, <1>2, <2>1, <2>2, <2>3, BlankRun DEF PauseInv
<1> QED BY <1>1, <1>3, <1>8, IdleHolds DEF InputsInv

-----------------------------------------------------------------------------
(* The invariant *)

LEMMA InputsInit == RuntimeAssumption /\ Init => InputsInv
<1> SUFFICES ASSUME RuntimeAssumption, Init PROVE InputsInv
  OBVIOUS
<1>1. run.pc = "idle" /\ checkpoint = NoCheckpoint /\ paused = NoPause /\ pending = <<>>
  BY BlankRun DEF Init
<1>2. IsHead(NoPause.kept, pending)
  <2>1. <<>> \in Seq(Items)
    BY EmptySeq
  <2> QED BY <1>1, <2>1, EmptyHeads, NothingRetained
<1>3. PauseInv
  BY <1>1, <1>2, NothingRetained DEF PauseInv
<1> QED BY <1>1, <1>3 DEF InputsInv, CheckpointInv, RunInv, GrowInv

LEMMA InputsStep ==
  ASSUME RuntimeAssumption, TypeInv, PrefixInv, LedgerInv, InputsInv, [Next]_vars
  PROVE  InputsInv'
<1>1. TypeInv'
  BY TypeStep
<1>2. \/ Idles \/ Proceeds \/ Records \/ Save \/ StartsRun \/ Retains \/ Clear
      \/ \E id \in 1..MaxInputs : PauseActive(id)
      \/ \E size \in Sizes : Revise(size)
  BY InputShapes
<1>3. CASE Idles
  BY <1>3, IdlesKeep
<1>4. CASE Proceeds
  BY <1>1, <1>4, ProceedsKeep
<1>5. CASE Records
  BY <1>1, <1>5, RecordsKeep
<1>6. CASE Save
  BY <1>1, <1>6, SaveKeeps
<1>7. CASE StartsRun
  BY <1>1, <1>7, StartsRunKeep
<1>8. CASE Retains
  BY <1>8, RetainsKeep
<1>9. CASE Clear
  BY <1>1, <1>9, ClearKeeps
<1>10. ASSUME NEW id \in 1..MaxInputs, PauseActive(id) PROVE InputsInv'
  BY <1>10, PauseActiveKeeps
<1>11. ASSUME NEW size \in Sizes, Revise(size) PROVE InputsInv'
  BY <1>1, <1>11, ReviseKeeps
<1> QED BY <1>2, <1>3, <1>4, <1>5, <1>6, <1>7, <1>8, <1>9, <1>10, <1>11

LEMMA QueueInvariant == Spec => []LedgerInv
BY RuntimeAssumption, TypeInvariant, PrefixInvariant, LedgerStart, LedgerStep, PTL DEF Spec

LEMMA InputsInvariant == Spec => []InputsInv
<1>1. Init => InputsInv
  BY RuntimeAssumption, InputsInit
<1>2. TypeInv /\ PrefixInv /\ LedgerInv /\ InputsInv /\ [Next]_vars => InputsInv'
  BY RuntimeAssumption, InputsStep
<1> QED BY <1>1, <1>2, TypeInvariant, PrefixInvariant, QueueInvariant, PTL DEF Spec

-----------------------------------------------------------------------------
(* The theorems *)

\* A checkpoint file that LOAD finds is dropped with good reason, or it passes
\* every validity check, under any interleaving of submits, pauses, revisions,
\* clears, failures and crashes (JsonFileCheckpointStore, _load and _prepare).
THEOREM CheckpointIsUsable == Spec => []CheckpointUsable
<1>1. ASSUME TypeInv, LedgerInv, InputsInv
      PROVE  CheckpointUsable
  <2> SUFFICES ASSUME checkpoint # NoCheckpoint
               PROVE  LET primary == checkpoint.inc[1] IN
                      \/ primary.id \notin IdSet(pending)
                      \/ primary.id = pending[1].id
                         /\ (primary.rev = pending[1].rev => CheckpointFits(pending))
    BY DEF CheckpointUsable
  <2>1. CASE checkpoint.inc[1].id \in 1..Consumed
    BY <1>1, <2>1, ConsumedIsGone
  <2>2. CASE ~(checkpoint.inc[1].id \in 1..Consumed)
    <3>1. IsHead(checkpoint.inc, pending) /\ checkpoint.base = Leaf /\ pending[1] = checkpoint.inc[1]
      BY <1>1, <2>2, CheckpointHeads DEF InputsInv
    <3>2. ClaimSuffix(pending, <<>>, Len(checkpoint.inc)) = checkpoint.inc
      BY <1>1, <3>1, InputsTypes, PrefixMeans
    <3>3. CheckpointFits(pending)
      BY <1>1, <3>1, <3>2 DEF InputsInv, CheckpointInv, CheckpointGood, CheckpointFits
    <3> QED BY <3>1, <3>3
  <2> QED BY <2>1, <2>2
<1> QED BY <1>1, TypeInvariant, QueueInvariant, InputsInvariant, PTL

\* What a pause retains can be resumed, whatever happens to the Session until
\* then (_restore_paused_inputs, _validate_prepare_session).
THEOREM RetainedIsUsable == Spec => []PausedPrefixHolds
<1>1. ASSUME TypeInv, LedgerInv, InputsInv
      PROVE  PausedPrefixHolds
  <2>1. IsHead(paused.kept, pending) /\ PauseGood(paused)
        /\ (paused # NoPause => paused.base = Leaf)
    BY <1>1 DEF InputsInv, PauseInv
  <2>2. ClaimSuffix(pending, <<>>, Len(paused.kept)) = paused.kept
    BY <1>1, <2>1, InputsTypes, PrefixMeans
  <2>3. paused # NoPause => paused.target \in IdSet(pending)
    BY <1>1 DEF LedgerInv, TargetsQueued
  <2> QED BY <2>1, <2>2, <2>3 DEF PauseGood, PausedPrefixHolds
<1> QED BY <1>1, TypeInvariant, QueueInvariant, InputsInvariant, PTL

\* Only a record of the run puts another checkpoint in the place of one.
LEMMA CheckpointMoves ==
  ASSUME RuntimeAssumption, TypeInv, PrefixInv, [Next]_vars
  PROVE  checkpoint' \in {checkpoint, NoCheckpoint} \/ Records
<1>1. CASE StartsRun
  <2>1. \E who \in InputIds : Load(who, pending')
    BY <1>1 DEF StartsRun
  <2> QED BY <2>1 DEF Load, LoadPaused, LoadFresh, LoadCheckpoint, LoadFails, DropCheckpoint
<1>2. CASE Retains
  BY <1>2 DEF Retains, PauseInactive, CapturePausedRun, RetainPrefix
<1>3. CASE Idles \/ Proceeds
  BY <1>3 DEF Idles, Proceeds
<1>4. CASE Save \/ Clear
  BY <1>4 DEF Save, Clear, DropCheckpoint
<1>5. ASSUME NEW id \in 1..MaxInputs, PauseActive(id) PROVE checkpoint' = checkpoint
  BY <1>5 DEF PauseActive
<1>6. ASSUME NEW size \in Sizes, Revise(size) PROVE checkpoint' = checkpoint
  BY <1>6 DEF Revise
<1> QED BY <1>1, <1>2, <1>3, <1>4, <1>5, <1>6, InputShapes

\* What heads a sequence is a prefix of it, as the community modules define one.
LEMMA HeadIsPrefix ==
  ASSUME NEW S, NEW a \in Seq(S), NEW b \in Seq(S), IsHead(a, b)
  PROVE  IsPrefix(a, b)
<1>1. Len(a) \in 0..Len(b) /\ a = SubSeq(b, 1, Len(a))
  BY HeadIsCut
<1>2. SubSeq(a, 1, Len(a)) = a /\ Len(a) <= Len(b)
  BY <1>1, WholeCut, LenProperties
<1> QED BY <1>1, <1>2 DEF IsPrefix

\* The run behind a checkpoint about to be replaced by one of the same input
\* goes on from it.
LEMMA RecordGoesOn ==
  ASSUME RuntimeAssumption, TypeInv, PrefixInv, LedgerInv, InputsInv,
         checkpoint # NoCheckpoint, checkpoint.inc[1] = run.inc[1], run.pc # "idle"
  PROVE  GoesOn(checkpoint, run) /\ RunGood(run)
<1>1. PICK inc \in Seq(Items) : inc = run.inc
  BY InputsTypes
<1>2. IsHead(inc, pending) /\ inc # <<>> /\ pending \in Seq(Items)
  BY <1>1, PrefixMeans, InputsTypes DEF PrefixInv, RunHoldsPrefix, IdentityHolds
<1>3. 1 \in 1..Len(pending) /\ pending[1] = inc[1]
  <2>1. Len(inc) \in Nat \ {0} /\ Len(pending) \in Nat
    BY <1>2, LenProperties, EmptySeq
  <2> QED BY <1>2, <2>1 DEF IsHead
<1>4. pending[1].id = Consumed + 1 /\ Consumed \in Int
  BY <1>3, InputsTypes DEF LedgerInv, QueueIsTail
<1>5. checkpoint.inc[1].id > Consumed
  <2>1. checkpoint.inc[1].id = Consumed + 1
    BY <1>1, <1>3, <1>4
  <2> QED BY <1>4, <2>1
<1> QED BY <1>5 DEF InputsInv, GrowInv, RunInv

\* A record with one message more, of a turn the run has begun or, for a call, of
\* the next one.
LEMMA RecordGrows ==
  ASSUME RuntimeAssumption, TypeInv, PrefixInv, LedgerInv, InputsInv,
         run.pc \in Looping \cup {"limit"},
         NEW phase, NEW turn \in Nat, NEW m \in Messages, NEW onSuccess,
         SaveCheckpoint(phase, turn, Append(run.msgs, m), onSuccess),
         checkpoint # NoCheckpoint, checkpoint' # checkpoint,
         checkpoint.inc[1] = checkpoint'.inc[1],
         Spent(run) <= turn, m.kind # "call" \/ Spent(run) < turn
  PROVE  /\ IsPrefix(checkpoint.msgs, checkpoint'.msgs)
         /\ checkpoint.turn <= checkpoint'.turn
         /\ BatchesOf(checkpoint.msgs) # BatchesOf(checkpoint'.msgs)
              => checkpoint.turn < checkpoint'.turn
<1>1. PICK r \in Runs, c \in Checkpoints : r = run /\ c = checkpoint
  BY InputsTypes
<1>2. r.msgs \in Seq(Messages) /\ c.msgs \in Seq(Messages) /\ c.turn \in Nat /\ r.turn \in Nat
      /\ Spent(r) \in Nat
  BY DEF Runs, Checkpoints, Spent
<1>3. PICK msgs \in Seq(Messages) : msgs = Append(r.msgs, m)
  BY <1>2, AppendFacts
<1>4. checkpoint' = NewCheckpoint(phase, turn, msgs)
  BY <1>1, <1>3 DEF SaveCheckpoint
<1>5. checkpoint'.msgs = msgs /\ checkpoint'.turn = turn /\ checkpoint'.inc = run.inc
  BY <1>4 DEF NewCheckpoint
<1>6. GoesOn(c, r)
  BY <1>1, <1>5, RecordGoesOn DEF Looping
<1>7. IsHead(c.msgs, r.msgs) /\ c.turn <= Spent(r)
      /\ (c.turn = Spent(r) => BatchesOf(c.msgs) = BatchesOf(r.msgs))
  BY <1>1, <1>6 DEF GoesOn
<1>8. IsPrefix(c.msgs, msgs)
  <2>1. IsHead(r.msgs, msgs)
    BY <1>2, <1>3, HeadAppended
  <2>2. IsHead(c.msgs, msgs)
    BY <1>2, <1>7, <2>1, HeadTrans
  <2> QED BY <1>2, <2>2, HeadIsPrefix
<1>9. Spent(r) <= turn /\ (m.kind # "call" \/ Spent(r) < turn)
  BY <1>1
<1>10. c.turn <= turn
  BY <1>2, <1>7, <1>9
<1>11. ASSUME c.turn = turn PROVE BatchesOf(c.msgs) = BatchesOf(msgs)
  <2>1. c.turn = Spent(r) /\ m.kind # "call"
    BY <1>2, <1>7, <1>9, <1>11
  <2>2. NoCallsBehind(r.msgs, msgs)
    BY <1>2, <1>3, <2>1, NoCallsAppended
  <2>3. BatchesOf(msgs) = BatchesOf(r.msgs)
    BY <1>2, <2>2, SameBatches
  <2> QED BY <1>7, <2>1, <2>3
<1>12. BatchesOf(c.msgs) # BatchesOf(msgs) => c.turn < turn
  BY <1>2, <1>10, <1>11
<1> QED BY <1>1, <1>5, <1>8, <1>10, <1>12

Grown ==
  (/\ checkpoint # NoCheckpoint /\ checkpoint' # NoCheckpoint
   /\ checkpoint.inc[1] = checkpoint'.inc[1])
    => (/\ IsPrefix(checkpoint.msgs, checkpoint'.msgs)
        /\ checkpoint.turn <= checkpoint'.turn
        /\ BatchesOf(checkpoint.msgs) # BatchesOf(checkpoint'.msgs)
             => checkpoint.turn < checkpoint'.turn)

LEMMA GrowStep ==
  ASSUME RuntimeAssumption, TypeInv, PrefixInv, LedgerInv, InputsInv, [Next]_vars
  PROVE  Grown
<1>1. CASE checkpoint' = checkpoint
  <2>1. PICK c \in Checkpoints : c = checkpoint
    BY InputsTypes
  <2>2. c.msgs \in Seq(Messages) /\ c.turn \in Nat
    BY DEF Checkpoints
  <2>3. IsPrefix(c.msgs, c.msgs) /\ c.turn <= c.turn
    BY <2>2, HeadRefl, HeadIsPrefix
  <2> QED BY <1>1, <2>1, <2>3 DEF Grown
<1>2. CASE checkpoint' = NoCheckpoint
  BY <1>2 DEF Grown
<1>3. ASSUME Records, checkpoint # NoCheckpoint, checkpoint' # checkpoint,
             checkpoint.inc[1] = checkpoint'.inc[1]
      PROVE  Grown
  <2>1. PICK r \in Runs : r = run
    BY InputsTypes
  <2>2. r.msgs \in Seq(Messages) /\ r.turn \in Nat
    BY DEF Runs
  <2>3. RunGood(r) \/ r.pc = "idle"
    BY <2>1 DEF InputsInv, RunInv
  <2>4. CASE BeginTools
    <3>1. PICK m : m = Call(batches)
      OBVIOUS
    <3>2. m \in Messages
      BY <3>1 DEF Call, Message, Messages, TypeInv, TypeOK
    <3>3. PICK s : s = [run EXCEPT !.pc = "tools", !.msgs = Append(run.msgs, m)]
      OBVIOUS
    <3>4. SaveCheckpoint("awaiting_tools", r.turn + 1, Append(run.msgs, m), s) /\ r.pc = "toolNotify"
      BY <2>1, <2>4, <3>1, <3>3 DEF BeginTools, Ready
    <3>5. Spent(r) <= r.turn + 1 /\ Spent(r) < r.turn + 1 /\ r.turn + 1 \in Nat
      BY <2>2, <3>4 DEF Spent
    <3>6. run.pc \in Looping \cup {"limit"} /\ Spent(run) <= r.turn + 1 /\ Spent(run) < r.turn + 1
      BY <2>1, <3>4, <3>5 DEF Looping
    <3> QED BY <1>3, <3>2, <3>4, <3>5, <3>6, RecordGrows DEF Grown
  <2>5. CASE ToolsDone
    <3>1. r.pc = "tools" /\ r.msgs # <<>>
      BY <2>1, <2>5 DEF ToolsDone, Ready, TypeInv, CallRecorded
    <3>2. PICK m : m = ToolResults(Last(r.msgs).ref)
      OBVIOUS
    <3>3. m \in Messages /\ m.kind # "call"
      <4>1. Last(r.msgs).ref \in Nat
        BY <2>2, <3>1, LastMessage
      <4> QED BY <3>2, <4>1 DEF ToolResults, Message, Messages
    <3>4. PICK s : s = [run EXCEPT !.pc = "inject", !.msgs = Append(run.msgs, m),
                                   !.accepted = AcceptedCount(run.turn, run.inc)]
      OBVIOUS
    <3>5. SaveCheckpoint("tools_completed", r.turn + 1, Append(run.msgs, m), s)
      BY <2>1, <2>5, <3>2, <3>4 DEF ToolsDone
    <3>6. Spent(r) <= r.turn + 1 /\ r.turn + 1 \in Nat
      BY <2>2, <3>1 DEF Spent
    <3>7. run.pc \in Looping \cup {"limit"} /\ Spent(run) <= r.turn + 1
      BY <2>1, <3>1, <3>6 DEF Looping
    <3> QED BY <1>3, <3>3, <3>5, <3>6, <3>7, RecordGrows DEF Grown
  <2>6. ASSUME NEW pc \in {"injectFinal", "limit"}, NEW turn \in Nat, Finish(pc, turn), r.turn <= turn
        PROVE  Grown
    <3>1. Text \in Messages /\ Text.kind # "call"
      BY DEF Text, Message, Messages
    <3>2. PICK s : s = [run EXCEPT !.pc = "finalNotify", !.msgs = Append(run.msgs, Text)]
      OBVIOUS
    <3>3. SaveCheckpoint("final_response", turn, Append(run.msgs, Text), s) /\ r.pc = pc
      BY <2>1, <2>6, <3>2 DEF Finish, Ready
    <3>4. Spent(r) <= turn
      BY <2>2, <2>6, <3>3 DEF Spent
    <3>5. run.pc \in Looping \cup {"limit"} /\ Spent(run) <= turn
      BY <2>1, <3>3, <3>4 DEF Looping
    <3> QED BY <1>3, <3>1, <3>3, <3>5, RecordGrows DEF Grown
  <2>7. CASE FinishResponse
    <3>1. Finish("injectFinal", r.turn + 1) /\ r.turn + 1 \in Nat /\ r.turn <= r.turn + 1
      BY <2>1, <2>2, <2>7 DEF FinishResponse
    <3> QED BY <2>6, <3>1
  <2>8. CASE CloseAtLimit
    <3>1. r.pc = "limit" /\ Finish("limit", MaxTurns)
      BY <2>1, <2>8 DEF CloseAtLimit, Finish, Ready
    <3>2. r.turn = MaxTurns
      BY <2>3, <3>1 DEF RunGood
    <3>3. MaxTurns \in Nat /\ r.turn <= MaxTurns
      BY <2>2, <3>2
    <3> QED BY <2>6, <3>1, <3>3
  <2> QED BY <1>3, <2>4, <2>5, <2>7, <2>8 DEF Records
<1> QED BY <1>1, <1>2, <1>3, CheckpointMoves DEF Grown

\* Checkpoints of one input only grow, whatever crashed, failed or was paused in
\* between (_persist_runner_checkpoint).
THEOREM CheckpointsOnlyGrow == Spec => CheckpointsGrow
<1>1. TypeInv /\ PrefixInv /\ LedgerInv /\ InputsInv /\ [Next]_vars => [Grown]_vars
  BY RuntimeAssumption, GrowStep
<1> QED
  BY <1>1, TypeInvariant, PrefixInvariant, QueueInvariant, InputsInvariant, PTL
  DEF Spec, CheckpointsGrow, Grown

\* Without pauses nothing retains a prefix, and nothing but a commit or a clear
\* puts away a final answer whose input is queued.
Committing ==
  (/\ checkpoint.phase = "final_response"
   /\ IdSet(checkpoint.inc) \subseteq IdSet(pending)
   /\ checkpoint' # checkpoint)
    => (/\ Len(history') = Len(history) + 1
        /\ Last(history').msgs = checkpoint.msgs)

LEMMA CommitStep ==
  ASSUME NoPauses, NoClears, RuntimeAssumption, TypeInv, PrefixInv, LedgerInv, BatchInv, InputsInv,
         [Next]_vars
  PROVE  Committing
<1> SUFFICES ASSUME checkpoint.phase = "final_response",
                    IdSet(checkpoint.inc) \subseteq IdSet(pending), checkpoint' # checkpoint
             PROVE  /\ Len(history') = Len(history) + 1
                    /\ Last(history').msgs = checkpoint.msgs
  BY DEF Committing
<1>1. checkpoint # NoCheckpoint /\ checkpoint.inc # <<>>
  BY DEF NoCheckpoint, PrefixInv
<1>2. PICK inc \in Seq(Items) : inc = checkpoint.inc
  BY InputsTypes
<1>3. 1 \in 1..Len(inc) /\ inc[1].id \in IdSet(inc)
  <2>1. Len(inc) \in Nat \ {0} /\ DOMAIN inc = 1..Len(inc)
    BY <1>1, <1>2, LenProperties, EmptySeq
  <2> QED BY <2>1 DEF IdSet
<1>4. ~(inc[1].id \in 1..Consumed)
  BY <1>2, <1>3, ConsumedIsGone
<1>5. IsHead(inc, pending) /\ 1 \in 1..Len(pending) /\ pending[1] = inc[1]
  BY <1>1, <1>2, <1>4, CheckpointHeads DEF InputsInv
<1>6. inc[1].id > Consumed
  <2>1. pending[1].id = Consumed + 1 /\ Consumed \in Int
    BY <1>5, InputsTypes DEF LedgerInv, QueueIsTail
  <2> QED BY <1>5, <2>1
<1>7. run.pc # "idle" => GoesOn(checkpoint, run)
  BY <1>1, <1>2, <1>6 DEF InputsInv, GrowInv
<1>8. CASE Records
  <2>1. run.pc \in Looping \cup {"limit"} /\ run.pc # "idle"
    BY <1>8 DEF Records, BeginTools, ToolsDone, FinishResponse, CloseAtLimit, Finish, Ready, Looping
  <2> QED BY <1>7, <2>1 DEF GoesOn
<1>9. CASE Save
  <2>1. run.pc # "idle"
    BY <1>9 DEF Save, Saving, Ready
  <2>2. run.msgs = checkpoint.msgs
    BY <1>7, <2>1 DEF GoesOn
  <2>3. PICK h : h = Turn(SubSeq(pending, 1, Len(run.inc)), run.msgs)
    OBVIOUS
  <2>4. h.msgs = run.msgs /\ history' = Append(history, h)
    BY <1>9, <2>3 DEF Save, Turn
  <2>5. history \in Seq(Turns \cup {h}) /\ h \in Turns \cup {h}
    BY InputsTypes, SeqMonotonic
  <2>6. history' \in Seq(Turns \cup {h}) /\ Len(history') = Len(history) + 1
        /\ history'[Len(history) + 1] = h
    BY <2>4, <2>5, AppendFacts
  <2>7. Last(history') = h
    BY <2>6 DEF Last
  <2> QED BY <2>2, <2>4, <2>6, <2>7
<1>10. CASE StartsRun
  <2>1. QueueGrows
    BY <1>10 DEF StartsRun
  <2>2. PICK who \in InputIds : Load(who, pending')
    BY <1>10 DEF StartsRun
  <2>3. IsHead(inc, pending') /\ pending' \in Seq(Items)
    BY <1>2, <1>5, <2>1, HeadsStay
  <2>4. pending'[1] = inc[1] /\ 1 \in 1..Len(pending')
    BY <1>3, <2>3, LenProperties DEF IsHead
  <2>5. pending' # <<>> /\ inc[1].id \in IdSet(pending')
    <3>1. DOMAIN pending' = 1..Len(pending')
      BY <2>3, LenProperties
    <3>2. pending' # <<>>
      BY <2>4, EmptySeq
    <3> QED BY <2>4, <3>1, <3>2 DEF IdSet
  <2>6. paused = NoPause
    BY <1>1 DEF InputsInv, PauseInv
  <2>7. ~LoadFresh(who, pending')
    BY <1>1, <1>2, <2>4, <2>5 DEF LoadFresh
  <2>8. LoadCheckpoint(who, pending') \/ LoadFails(who)
    BY <2>2, <2>5, <2>6, <2>7 DEF Load
  <2> QED BY <2>8 DEF LoadCheckpoint, LoadFails
<1>11. ~Retains
  BY DEF Retains, PauseInactive, MayPause, NoPauses, CapturePausedRun, BatchInv, Calm
<1>12. ~Clear
  BY DEF Clear, NoClears
<1>13. ~Idles /\ ~Proceeds
  BY DEF Idles, Proceeds
<1>14. ASSUME NEW id \in 1..MaxInputs, PauseActive(id) PROVE FALSE
  BY <1>14 DEF PauseActive
<1>15. ASSUME NEW size \in Sizes, Revise(size) PROVE FALSE
  BY <1>15 DEF Revise
<1> QED BY <1>8, <1>9, <1>10, <1>11, <1>12, <1>13, <1>14, <1>15, InputShapes

\* Once a final answer is checkpointed its file goes away only when exactly these
\* messages are committed, unless a pause or a clear discards it (_save and
\* _delete_checkpoint_best_effort).
THEOREM FinalAnswerIsCommitted ==
  ASSUME NoPauses, NoClears
  PROVE  Spec => FinalAnswerCommitted
<1>1. TypeInv /\ PrefixInv /\ LedgerInv /\ BatchInv /\ InputsInv /\ [Next]_vars => [Committing]_vars
  BY RuntimeAssumption, CommitStep
<1> QED
  BY <1>1, TypeInvariant, PrefixInvariant, QueueInvariant, BatchInvariant, InputsInvariant, PTL
  DEF Spec, FinalAnswerCommitted, Committing

-----------------------------------------------------------------------------
(* What the model has seen of a committed turn *)

\* Nothing fails, stops or crashes a run, so none goes on from a checkpoint: one
\* that does takes queued inputs whatever turns are left, and may close at the
\* limit without the model having seen them.
Undisturbed == Events \subseteq {"clear", "estimator_awaits", "handler_awaits", "snip"}

\* The first user message of msgs, or the last.
AtEnd(msgs, i) ==
  \/ \A j \in 1..Len(msgs) : msgs[j].kind = "user" => i <= j
  \/ \A j \in 1..Len(msgs) : msgs[j].kind = "user" => j <= i

\* Some request of the provider showed each user message of msgs; of those between
\* the first and the last only if no view is cut.
Seen(msgs) ==
  \A i \in 1..Len(msgs) :
    msgs[i].kind = "user" /\ ("snip" \in Events => AtEnd(msgs, i)) => msgs[i] \in requested

\* Where the provider has answered, and nothing has been injected since.
Replied == {"toolNotify", "tools", "inject", "injectFinal", "finalNotify", "limit"}

\* The inductive invariant of ConsumedWasRequested: what is injected is injected
\* with a turn left to request it in.
SeenInv ==
  /\ run.pc \in {"idle", "prepare"} => checkpoint = NoCheckpoint
  /\ run.pc \in Replied => Seen(run.msgs)
  /\ run.pc \in {"inject", "injectFinal"} => run.accepted = 0 \/ run.turn + 1 < MaxTurns
  /\ run.pc = "injectNotify" => run.turn + 1 < MaxTurns
  /\ run.pc # "save"
  /\ \A t \in 1..Len(history) : Seen(history[t].msgs)

LEMMA RequestedGrows ==
  ASSUME [Next]_vars
  PROVE  requested \subseteq requested'
<1>1. CASE UNCHANGED requested
  BY <1>1
<1>2. CASE Requested
  BY <1>2 DEF Requested
<1>3. CASE UNCHANGED vars
  BY <1>1, <1>3 DEF vars
<1>4. CASE ChannelCall \/ HandOff \/ Crash
  BY <1>1, <1>4
  DEF ChannelCall, EnqueueInput, Submit, Revise, Resubmit, PauseInactive, PauseActive,
      CancelWaiter, RunNext, RestartPending, CancelRun, Clear, HandOff, Crash
<1>5. CASE RunStep
  BY <1>1, <1>2, <1>5
  DEF RunStep, PrepareFails, PrepareDone, ProviderFails, ProviderCallsTools, ProviderAnswers,
      BeginTools, ToolsDone, InjectAfterTools, InjectAfterCandidate, ContinueLoop, FinishResponse,
      CloseAtLimit, Finish, Save, SaveFails, CapturePausedRun
<1> QED BY <1>3, <1>4, <1>5 DEF Next

\* A record succeeds.
LEMMA RecordSucceeds ==
  ASSUME Undisturbed, NEW phase, NEW turn, NEW msgs, NEW onSuccess,
         SaveCheckpoint(phase, turn, msgs, onSuccess)
  PROVE  run' = onSuccess /\ checkpoint' = NewCheckpoint(phase, turn, msgs)
BY DEF Undisturbed, SaveCheckpoint

\* A run that has begun its requests ends by its commit.
LEMMA RunsEndSaved ==
  ASSUME Undisturbed, TypeInv, PrefixInv, Calm, [Next]_vars, run.pc \notin {"idle", "prepare"},
         run' = IdleRun
  PROVE  Save
<1>1. PICK r \in Runs : r = run
  BY InputsTypes
<1>2. r.pc \notin {"idle", "prepare"} /\ IdleRun.pc = "idle" /\ r.target = 0
  BY <1>1, BlankRun DEF Calm
<1>3. run' # run
  BY <1>1, <1>2
<1>4. ~UNCHANGED vars
  BY <1>3 DEF vars
<1>5. \A turn : LoopAt(turn) # "idle"
  BY DEF LoopAt
<1>6. ~HandOff /\ ~Crash
  BY <1>1, <1>2 DEF HandOff, Crash, Undisturbed
<1>7. ~ChannelCall
  <2>1. ~\E size \in Sizes : EnqueueInput(size) \/ Submit(size) \/ Revise(size)
    BY <1>1, <1>2, <1>3 DEF EnqueueInput, Submit, Revise, Acquire
  <2>2. ~\E id \in 1..MaxInputs : Resubmit(id) \/ PauseInactive(id) \/ PauseActive(id)
    BY <1>1, <1>2, <1>3 DEF Resubmit, Acquire, PauseInactive, PauseActive, MayPause, Undisturbed
  <2>3. ~RunNext /\ ~RestartPending /\ ~CancelRun /\ ~Clear
        /\ ~\E k \in DOMAIN waiters : CancelWaiter(k)
    BY <1>1, <1>2, <1>3
    DEF RunNext, Acquire, RestartPending, Calm, CancelRun, Clear, CancelWaiter, Undisturbed
  <2> QED BY <2>1, <2>2, <2>3 DEF ChannelCall
<1>8. ASSUME NEW pc, NEW s, run' = s, s.pc = pc, pc # "idle" PROVE FALSE
  BY <1>2, <1>8
<1>9. ~PrepareFails /\ ~PrepareDone /\ ~ProviderFails /\ ~SaveFails /\ ~CapturePausedRun
  BY <1>1, <1>2
  DEF PrepareFails, PrepareDone, Ready, ProviderFails, SaveFails, CapturePausedRun, Undisturbed
<1>10. ~ProviderCallsTools /\ ~ProviderAnswers
  <2>1. [r EXCEPT !.pc = "toolNotify"].pc = "toolNotify"
    BY DEF Runs
  <2>2. [r EXCEPT !.pc = "injectFinal", !.accepted = AcceptedCount(r.turn, r.inc)].pc = "injectFinal"
    BY DEF Runs
  <2> QED BY <1>1, <1>8, <2>1, <2>2 DEF ProviderCallsTools, ProviderAnswers
<1>11. ~ContinueLoop
  <2>1. [r EXCEPT !.pc = LoopAt(r.turn + 1), !.turn = @ + 1].pc = LoopAt(r.turn + 1)
    BY DEF Runs
  <2> QED BY <1>1, <1>5, <1>8, <2>1 DEF ContinueLoop
<1>12. ~InjectAfterTools
  <2> SUFFICES ASSUME InjectAfterTools PROVE FALSE
    OBVIOUS
  <2>1. PICK claimed : run' = [r EXCEPT !.pc = LoopAt(r.turn + 1), !.turn = @ + 1, !.accepted = 0,
                                        !.inc = @ \o claimed, !.msgs = @ \o ToUserMessages(claimed)]
    BY <1>1 DEF InjectAfterTools
  <2>2. run'.pc = LoopAt(r.turn + 1)
    BY <2>1 DEF Runs
  <2> QED BY <1>2, <1>5, <2>2
<1>13. ~InjectAfterCandidate
  <2> SUFFICES ASSUME InjectAfterCandidate PROVE FALSE
    OBVIOUS
  <2>1. PICK claimed : run' = [r EXCEPT !.pc = "injectNotify", !.accepted = 0, !.inc = @ \o claimed,
                                        !.msgs = @ \o <<Text>> \o ToUserMessages(claimed)]
    BY <1>1 DEF InjectAfterCandidate
  <2>2. run'.pc = "injectNotify"
    BY <2>1 DEF Runs
  <2> QED BY <1>2, <2>2
<1>14. ~BeginTools
  <2> SUFFICES ASSUME BeginTools PROVE FALSE
    OBVIOUS
  <2>1. PICK msgs : run' = [r EXCEPT !.pc = "tools", !.msgs = msgs]
    BY <1>1, RecordSucceeds DEF BeginTools
  <2>2. run'.pc = "tools"
    BY <2>1 DEF Runs
  <2> QED BY <1>2, <2>2
<1>15. ~ToolsDone
  <2> SUFFICES ASSUME ToolsDone PROVE FALSE
    OBVIOUS
  <2>a. PICK msgs, n : msgs = Append(r.msgs, ToolResults(Last(r.msgs).ref))
                       /\ n = AcceptedCount(r.turn, r.inc)
    OBVIOUS
  <2>1. run' = [r EXCEPT !.pc = "inject", !.msgs = msgs, !.accepted = n]
    BY <1>1, <2>a, RecordSucceeds DEF ToolsDone
  <2>2. run'.pc = "inject"
    BY <2>1 DEF Runs
  <2> QED BY <1>2, <2>2
<1>16. ~FinishResponse /\ ~CloseAtLimit
  <2> SUFFICES ASSUME NEW pc, NEW turn, Finish(pc, turn) PROVE FALSE
    BY DEF FinishResponse, CloseAtLimit
  <2>1. PICK msgs : run' = [r EXCEPT !.pc = "finalNotify", !.msgs = msgs]
    BY <1>1, RecordSucceeds DEF Finish
  <2>2. run'.pc = "finalNotify"
    BY <2>1 DEF Runs
  <2> QED BY <1>2, <2>2
<1> QED
  BY <1>4, <1>6, <1>7, <1>9, <1>10, <1>11, <1>12, <1>13, <1>14, <1>15, <1>16 DEF Next, RunStep

\* What was seen stays seen, and so is a message of nobody's behind it.
LEMMA SeenStays ==
  ASSUME requested \subseteq requested', NEW msgs, Seen(msgs)
  PROVE  Seen(msgs)'
BY DEF Seen

LEMMA SeenAppended ==
  ASSUME NEW msgs \in Seq(Messages), NEW m \in Messages, m.kind # "user", Seen(msgs)
  PROVE  Seen(Append(msgs, m))
<1>1. /\ Len(Append(msgs, m)) = Len(msgs) + 1 /\ Len(msgs) \in Nat
      /\ \A i \in 1..Len(msgs) : Append(msgs, m)[i] = msgs[i]
      /\ Append(msgs, m)[Len(msgs) + 1] = m
  BY AppendFacts, LenProperties
<1>2. \A i \in 1..(Len(msgs) + 1) : i \in 1..Len(msgs) \/ i = Len(msgs) + 1
  BY <1>1
<1>3. ASSUME NEW i \in 1..Len(msgs), AtEnd(Append(msgs, m), i) PROVE AtEnd(msgs, i)
  <2>1. \A j \in 1..Len(msgs) : j \in 1..Len(Append(msgs, m)) /\ Append(msgs, m)[j] = msgs[j]
    BY <1>1
  <2> QED BY <1>3, <2>1 DEF AtEnd
<1> QED BY <1>1, <1>2, <1>3 DEF Seen

LEMMA RequestedSeen ==
  ASSUME TypeInv, Requested
  PROVE  Seen(run.msgs)'  \/ run'.msgs # run.msgs
<1>1. PICK msgs \in Seq(Messages) : msgs = run.msgs
  BY InputsTypes
<1>2. DOMAIN msgs = 1..Len(msgs) /\ Len(msgs) \in Nat
  BY LenProperties
<1>3. PICK start \in 1..Len(msgs) :
        /\ start = 1 \/ "snip" \in Events
        /\ requested' = requested \cup ShownInputs(msgs, start)
  BY <1>1, <1>2 DEF Requested
<1>4. ASSUME NEW i \in 1..Len(msgs), msgs[i].kind = "user", "snip" \in Events => AtEnd(msgs, i)
      PROVE  msgs[i] \in requested'
  <2>1. UserPositions(msgs) = {j \in 1..Len(msgs) : msgs[j].kind = "user"}
    BY <1>2 DEF UserPositions
  <2>2. i >= start \/ AtEnd(msgs, i)
    BY <1>2, <1>3, <1>4
  <2>3. msgs[i] \in ShownInputs(msgs, start)
    BY <1>4, <2>1, <2>2 DEF ShownInputs, AtEnd
  <2> QED BY <1>3, <2>3
<1>5. Seen(msgs)'
  BY <1>4 DEF Seen
<1> QED BY <1>1, <1>5

\* Nothing is claimed behind a prefix when nothing is accepted.
LEMMA NothingClaimed ==
  ASSUME NEW q \in Seq(Items), NEW inc \in Seq(Items)
  PROVE  ToUserMessages(ClaimSuffix(q, inc, 0)) = <<>>
<1>1. Len(inc) \in Nat /\ Len(q) \in Nat
  BY LenProperties
<1>2. PICK n \in Int : n = (IF Len(inc) + 0 < Len(q) THEN Len(inc) + 0 ELSE Len(q)) /\ n <= Len(inc)
  BY <1>1
<1>3. PICK claimed \in Seq(Items) : claimed = ClaimSuffix(q, inc, 0)
  BY ClaimSuffixType
<1>4. claimed = SubSeq(q, Len(inc) + 1, n)
  BY <1>2, <1>3 DEF ClaimSuffix
<1>5. claimed = <<>>
  BY <1>1, <1>2, <1>4
<1> QED BY <1>3, <1>5, NoAnswers

LEMMA InjectsInTime ==
  ASSUME RuntimeAssumption, NEW turn \in Nat, NEW inc
  PROVE  AcceptedCount(turn, inc) = 0 \/ turn + 1 < MaxTurns
BY DEF AcceptedCount

\* The steps between two requests.
LEMMA SeenProceeds ==
  ASSUME RuntimeAssumption, TypeInv, Calm, SeenInv, Proceeds, requested \subseteq requested'
  PROVE  SeenInv'
<1>1. PICK r \in Runs : r = run
  BY InputsTypes
<1>2. /\ r.msgs \in Seq(Messages) /\ r.turn \in Nat /\ r.inc \in Seq(Items) /\ pending \in Seq(Items)
  BY InputsTypes DEF Runs
<1>3. UNCHANGED <<history, checkpoint>>
  BY DEF Proceeds
<1>4. \A t \in 1..Len(history') : Seen(history[t].msgs)'
  BY <1>3, SeenStays DEF SeenInv
<1>5. \A turn \in Nat : turn < MaxTurns => LoopAt(turn) = "request"
  BY DEF LoopAt
<1>6. ASSUME run'.pc \in {"request", "toolNotify", "injectFinal", "injectNotify", "limit"},
             run'.pc \in {"toolNotify", "injectFinal", "limit"} => Seen(run.msgs)',
             run'.pc = "injectFinal" => run'.accepted = 0 \/ run'.turn + 1 < MaxTurns,
             run'.pc = "injectNotify" => run'.turn + 1 < MaxTurns
      PROVE  SeenInv'
  BY <1>4, <1>6 DEF SeenInv, Replied
<1>7. CASE PrepareDone
  <2>1. PICK msgs : run' = [r EXCEPT !.pc = LoopAt(0), !.turn = 0, !.initial = msgs, !.msgs = msgs]
    BY <1>1, <1>7, NothingRetained DEF PrepareDone, Calm
  <2>2. run'.pc = LoopAt(0) /\ 0 < MaxTurns
    BY <2>1 DEF Runs, RuntimeAssumption
  <2> QED BY <1>5, <1>6, <2>2
<1>8. CASE ProviderCallsTools
  <2>1. Requested /\ run' = [r EXCEPT !.pc = "toolNotify"]
    BY <1>1, <1>8 DEF ProviderCallsTools
  <2>2. run'.pc = "toolNotify" /\ run'.msgs = run.msgs
    BY <1>1, <2>1 DEF Runs
  <2> QED BY <1>6, <2>1, <2>2, RequestedSeen
<1>9. CASE ProviderAnswers
  <2>1. PICK n : n = AcceptedCount(r.turn, r.inc)
    OBVIOUS
  <2>2. Requested /\ run' = [r EXCEPT !.pc = "injectFinal", !.accepted = n]
    BY <1>1, <1>9, <2>1 DEF ProviderAnswers
  <2>3. run'.pc = "injectFinal" /\ run'.msgs = run.msgs /\ run'.accepted = n /\ run'.turn = r.turn
    BY <1>1, <2>2 DEF Runs
  <2>4. n = 0 \/ r.turn + 1 < MaxTurns
    BY <1>2, <2>1, InjectsInTime
  <2> QED BY <1>6, <2>2, <2>3, <2>4, RequestedSeen
<1>10. CASE ContinueLoop
  <2>1. r.pc = "injectNotify" /\ run' = [r EXCEPT !.pc = LoopAt(r.turn + 1), !.turn = @ + 1]
    BY <1>1, <1>10 DEF ContinueLoop, Ready
  <2>2. run'.pc = LoopAt(r.turn + 1)
    BY <2>1 DEF Runs
  <2>3. r.turn + 1 < MaxTurns /\ r.turn + 1 \in Nat
    BY <1>1, <1>2, <2>1 DEF SeenInv
  <2> QED BY <1>5, <1>6, <2>2, <2>3
<1>11. CASE InjectAfterTools
  <2>1. PICK claimed : claimed = ClaimSuffix(pending, r.inc, r.accepted)
    OBVIOUS
  <2>2. r.pc = "inject" /\
        run' = [r EXCEPT !.pc = LoopAt(r.turn + 1), !.turn = @ + 1, !.accepted = 0,
                         !.inc = @ \o claimed, !.msgs = @ \o ToUserMessages(claimed)]
    BY <1>1, <1>11, <2>1 DEF InjectAfterTools, Ready
  <2>3. run'.pc = LoopAt(r.turn + 1) /\ run'.msgs = r.msgs \o ToUserMessages(claimed)
    BY <2>2 DEF Runs
  <2>4. Seen(r.msgs) /\ (r.accepted = 0 \/ r.turn + 1 < MaxTurns)
    BY <1>1, <2>2 DEF SeenInv, Replied
  <2>5. CASE r.turn + 1 < MaxTurns
    <3>1. r.turn + 1 \in Nat
      BY <1>2
    <3> QED BY <1>5, <1>6, <2>3, <2>5, <3>1
  <2>6. CASE r.accepted = 0
    <3>1. ToUserMessages(claimed) = <<>>
      BY <1>2, <2>1, <2>6, NothingClaimed
    <3>2. run'.msgs = r.msgs
      BY <1>2, <2>3, <3>1, ConcatEmptySeq
    <3>3. Seen(r.msgs)'
      BY <2>4, SeenStays
    <3>4. Seen(run.msgs)'
      BY <3>2, <3>3
    <3>5. run'.pc \in {"request", "limit"}
      BY <2>3 DEF LoopAt
    <3> QED BY <1>6, <3>4, <3>5
  <2> QED BY <2>4, <2>5, <2>6
<1>12. CASE InjectAfterCandidate
  <2>1. PICK claimed : claimed = ClaimSuffix(pending, r.inc, r.accepted)
    OBVIOUS
  <2>2. r.pc = "injectFinal" /\ r.accepted > 0 /\
        run' = [r EXCEPT !.pc = "injectNotify", !.accepted = 0, !.inc = @ \o claimed,
                         !.msgs = @ \o <<Text>> \o ToUserMessages(claimed)]
    BY <1>1, <1>12, <2>1 DEF InjectAfterCandidate, Ready
  <2>3. run'.pc = "injectNotify" /\ run'.turn = r.turn
    BY <2>2 DEF Runs
  <2>4. r.turn + 1 < MaxTurns
    <3>1. r.accepted = 0 \/ r.turn + 1 < MaxTurns
      BY <1>1, <2>2 DEF SeenInv
    <3>2. r.accepted # 0
      BY <2>2
    <3> QED BY <3>1, <3>2
  <2> QED BY <1>6, <2>3, <2>4
<1> QED BY <1>7, <1>8, <1>9, <1>10, <1>11, <1>12 DEF Proceeds

LEMMA SeenRecords ==
  ASSUME RuntimeAssumption, Undisturbed, TypeInv, SeenInv, Records, requested \subseteq requested'
  PROVE  SeenInv'
<1>1. PICK r \in Runs : r = run
  BY InputsTypes
<1>2. /\ r.msgs \in Seq(Messages) /\ r.turn \in Nat /\ r.inc \in Seq(Items)
  BY DEF Runs
<1>3. UNCHANGED history
  BY DEF Records
<1>4. \A t \in 1..Len(history') : Seen(history[t].msgs)'
  BY <1>3, SeenStays DEF SeenInv
<1>5. ASSUME NEW m \in Messages, m.kind # "user", r.pc \in Replied, run'.msgs = Append(r.msgs, m),
             run'.pc \in {"tools", "inject", "finalNotify"},
             run'.pc = "inject" => run'.accepted = 0 \/ run'.turn + 1 < MaxTurns
      PROVE  SeenInv'
  <2>1. Seen(r.msgs)
    BY <1>1, <1>5 DEF SeenInv
  <2>2. Seen(Append(r.msgs, m))
    BY <1>2, <1>5, <2>1, SeenAppended
  <2>3. PICK msgs : msgs = Append(r.msgs, m)
    OBVIOUS
  <2>4. Seen(msgs)'
    BY <2>2, <2>3, SeenStays
  <2>5. Seen(run.msgs)'
    BY <1>5, <2>3, <2>4
  <2> QED BY <1>4, <1>5, <2>5 DEF SeenInv
<1>6. CASE BeginTools
  <2>1. PICK m : m = Call(batches)
    OBVIOUS
  <2>2. m \in Messages /\ m.kind # "user"
    BY <2>1 DEF Call, Message, Messages, TypeInv, TypeOK
  <2>3. PICK msgs : msgs = Append(r.msgs, m)
    OBVIOUS
  <2>4. r.pc = "toolNotify" /\ run' = [r EXCEPT !.pc = "tools", !.msgs = msgs]
    BY <1>1, <1>6, <2>1, <2>3, RecordSucceeds DEF BeginTools, Ready
  <2>5. run'.pc = "tools" /\ run'.msgs = msgs
    BY <2>4 DEF Runs
  <2> QED BY <1>5, <2>2, <2>3, <2>4, <2>5 DEF Replied
<1>7. CASE ToolsDone
  <2>1. r.pc = "tools" /\ r.msgs # <<>>
    BY <1>1, <1>7 DEF ToolsDone, Ready, TypeInv, CallRecorded
  <2>2. PICK m : m = ToolResults(Last(r.msgs).ref)
    OBVIOUS
  <2>3. m \in Messages /\ m.kind # "user"
    <3>1. Last(r.msgs).ref \in Nat
      BY <1>2, <2>1, LastMessage
    <3> QED BY <2>2, <3>1 DEF ToolResults, Message, Messages
  <2>4. PICK msgs, n : msgs = Append(r.msgs, m) /\ n = AcceptedCount(r.turn, r.inc)
    OBVIOUS
  <2>5. run' = [r EXCEPT !.pc = "inject", !.msgs = msgs, !.accepted = n]
    BY <1>1, <1>7, <2>2, <2>4, RecordSucceeds DEF ToolsDone
  <2>6. run'.pc = "inject" /\ run'.msgs = msgs /\ run'.accepted = n /\ run'.turn = r.turn
    BY <2>5 DEF Runs
  <2>7. n = 0 \/ r.turn + 1 < MaxTurns
    BY <1>2, <2>4, InjectsInTime
  <2> QED BY <1>5, <2>1, <2>3, <2>4, <2>6, <2>7 DEF Replied
<1>8. ASSUME NEW pc \in {"injectFinal", "limit"}, NEW turn, Finish(pc, turn)
      PROVE  SeenInv'
  <2>1. Text \in Messages /\ Text.kind # "user"
    BY DEF Text, Message, Messages
  <2>2. PICK msgs : msgs = Append(r.msgs, Text)
    OBVIOUS
  <2>3. r.pc = pc /\ run' = [r EXCEPT !.pc = "finalNotify", !.msgs = msgs]
    BY <1>1, <1>8, <2>2, RecordSucceeds DEF Finish, Ready
  <2>4. run'.pc = "finalNotify" /\ run'.msgs = msgs
    BY <2>3 DEF Runs
  <2> QED BY <1>5, <2>1, <2>2, <2>3, <2>4 DEF Replied
<1> QED BY <1>6, <1>7, <1>8 DEF Records, FinishResponse, CloseAtLimit

LEMMA SeenSave ==
  ASSUME Undisturbed, TypeInv, SeenInv, Save, requested \subseteq requested'
  PROVE  SeenInv'
<1>1. checkpoint' = NoCheckpoint /\ run' = IdleRun /\ run.pc = "finalNotify"
  BY DEF Save, Saving, Ready, DropCheckpoint, EndRun, Undisturbed, SeenInv
<1>2. PICK msgs : msgs = run.msgs
  OBVIOUS
<1>3. PICK h : h = Turn(SubSeq(pending, 1, Len(run.inc)), msgs)
  OBVIOUS
<1>4. h.msgs = msgs /\ history' = Append(history, h)
  BY <1>2, <1>3 DEF Save, Turn
<1>5. Seen(msgs)
  BY <1>1, <1>2 DEF SeenInv, Replied
<1>6. /\ Len(history') = Len(history) + 1 /\ Len(history) \in Nat
      /\ \A t \in 1..Len(history) : history'[t] = history[t]
      /\ history'[Len(history) + 1] = h
  <2>1. history \in Seq(Turns \cup {h}) /\ h \in Turns \cup {h}
    BY InputsTypes, SeqMonotonic
  <2> QED BY <1>4, <2>1, AppendFacts, LenProperties
<1>7. ASSUME NEW t \in 1..Len(history') PROVE Seen(history[t].msgs)'
  <2>1. CASE t \in 1..Len(history)
    <3>1. Seen(history[t].msgs)
      BY <2>1 DEF SeenInv
    <3>2. PICK said : said = history[t].msgs
      OBVIOUS
    <3>3. Seen(said)'
      BY <3>1, <3>2, SeenStays
    <3> QED BY <1>6, <2>1, <3>2, <3>3
  <2>2. CASE t = Len(history) + 1
    <3>1. Seen(msgs)'
      BY <1>5, SeenStays
    <3> QED BY <1>4, <1>6, <2>2, <3>1
  <2> QED BY <1>6, <2>1, <2>2
<1> QED BY <1>1, <1>7, BlankRun DEF SeenInv, Replied

\* A run that ends or starts otherwise has no checkpoint to go on from.
LEMMA SeenRests ==
  ASSUME SeenInv, requested \subseteq requested', UNCHANGED history, checkpoint' = NoCheckpoint,
         run'.pc \in {"idle", "prepare"}
  PROVE  SeenInv'
<1>1. \A t \in 1..Len(history') : Seen(history[t].msgs)'
  BY SeenStays DEF SeenInv
<1> QED BY <1>1 DEF SeenInv, Replied

LEMMA SeenStep ==
  ASSUME RuntimeAssumption, Undisturbed, TypeInv, PrefixInv, Calm, SeenInv, [Next]_vars
  PROVE  SeenInv'
<1>1. requested \subseteq requested'
  BY RequestedGrows
<1>2. CASE Save
  BY <1>1, <1>2, SeenSave
<1>3. CASE Clear
  <2>1. history' = <<>> /\ Len(history') = 0 /\ checkpoint' = NoCheckpoint /\ run'.pc = "idle"
    BY <1>3, EmptySeq DEF Clear, DropCheckpoint, SeenInv
  <2> QED BY <2>1 DEF SeenInv, Replied
<1>4. CASE Idles /\ ~Save
  <2>1. CASE run.pc \in {"idle", "prepare"}
    <3>1. checkpoint' = NoCheckpoint /\ UNCHANGED history /\ run'.pc \in {"idle", "prepare"}
      BY <1>4, <2>1, BlankRun DEF Idles, SeenInv
    <3> QED BY <1>1, <3>1, SeenRests
  <2>2. CASE run.pc \notin {"idle", "prepare"}
    <3>1. run' = run /\ UNCHANGED <<history, checkpoint>>
      BY <1>4, <2>2, RunsEndSaved DEF Idles
    <3>2. \A t \in 1..Len(history') : Seen(history[t].msgs)'
      BY <1>1, <3>1, SeenStays DEF SeenInv
    <3>3. PICK msgs : msgs = run.msgs
      OBVIOUS
    <3>4. run'.pc \in Replied => Seen(msgs)'
      BY <1>1, <3>1, <3>3, SeenStays DEF SeenInv
    <3> QED BY <3>1, <3>2, <3>3, <3>4 DEF SeenInv
  <2> QED BY <2>1, <2>2
<1>5. CASE Proceeds
  BY <1>1, <1>5, SeenProceeds
<1>6. CASE Records
  BY <1>1, <1>6, SeenRecords
<1>7. CASE StartsRun
  <2>1. UNCHANGED history /\ checkpoint = NoCheckpoint /\ paused = NoPause /\ run.pc = "idle"
    BY <1>7 DEF StartsRun, SeenInv, Calm
  <2>2. PICK who \in InputIds : Load(who, pending')
    BY <1>7 DEF StartsRun
  <2>3. run' = run \/ LoadFresh(who, pending')
    BY <2>1, <2>2 DEF Load, LoadCheckpoint, LoadFails
  <2>4. run'.pc \in {"idle", "prepare"}
    BY <2>1, <2>3 DEF LoadFresh, IdleRun
  <2>5. checkpoint' = NoCheckpoint
    BY <2>1, <2>2 DEF Load, LoadCheckpoint, LoadFails, LoadFresh, DropCheckpoint
  <2> QED BY <1>1, <2>1, <2>4, <2>5, SeenRests
<1>8. ~Retains
  BY DEF Retains, PauseInactive, MayPause, Undisturbed, CapturePausedRun, Calm
<1>9. ASSUME NEW id \in 1..MaxInputs, PauseActive(id) PROVE FALSE
  BY <1>9 DEF PauseActive, MayPause, Undisturbed
<1>10. ASSUME NEW size \in Sizes, Revise(size) PROVE FALSE
  BY <1>10 DEF Revise, Calm
<1> QED BY <1>2, <1>3, <1>4, <1>5, <1>6, <1>7, <1>8, <1>9, <1>10, InputShapes

LEMMA SeenInit == Init => SeenInv
<1> SUFFICES ASSUME Init PROVE SeenInv
  OBVIOUS
<1>1. run.pc = "idle" /\ checkpoint = NoCheckpoint /\ history = <<>> /\ Len(history) = 0
  BY BlankRun, EmptySeq DEF Init
<1> QED BY <1>1 DEF SeenInv, Replied

LEMMA SeenInvariant ==
  ASSUME Undisturbed
  PROVE  Spec => []SeenInv
<1>1. NoPauses
  BY DEF Undisturbed, NoPauses
<1>2. Spec => []BatchInv
  BY <1>1, BatchInvariant
<1>3. Init => SeenInv
  BY SeenInit
<1>4. TypeInv /\ PrefixInv /\ BatchInv /\ SeenInv /\ [Next]_vars => SeenInv'
  BY RuntimeAssumption, SeenStep DEF BatchInv
<1> QED BY <1>2, <1>3, <1>4, TypeInvariant, PrefixInvariant, PTL DEF Spec

\* A turn only consumes inputs that some request of the provider has shown, at the
\* revision that is committed, if nothing interrupts the runs and no request has to
\* cut the conversation of the turn (README: SAVE only consumes inputs that entered
\* a provider request at least once).
THEOREM ConsumedIsRequested ==
  ASSUME Undisturbed, "snip" \notin Events
  PROVE  Spec => []ConsumedWasRequested
<1>1. ASSUME TypeInv, SeenInv PROVE ConsumedWasRequested
  <2> SUFFICES ASSUME NEW t \in 1..Len(history)
               PROVE  Range(UsersOf(history[t].msgs)) \subseteq requested
    BY <1>1, InputsTypes, LenProperties DEF ConsumedWasRequested
  <2>1. PICK msgs \in Seq(Messages) : msgs = history[t].msgs
    BY <1>1, MessagesTypes
  <2>2. Seen(msgs)
    BY <1>1, <2>1 DEF SeenInv
  <2>3. UsersOf(msgs) \in Seq(Messages) /\ DOMAIN UsersOf(msgs) = 1..Len(UsersOf(msgs))
    BY UsersFacts, LenProperties
  <2>4. ASSUME NEW k \in 1..Len(UsersOf(msgs)) PROVE UsersOf(msgs)[k] \in requested
    <3>1. \E i \in 1..Len(msgs) : msgs[i] = UsersOf(msgs)[k] /\ msgs[i].kind = "user"
      BY UserStands
    <3> QED BY <2>2, <3>1 DEF Seen
  <2> QED BY <2>1, <2>3, <2>4 DEF Range
<1> QED BY <1>1, SeenInvariant, TypeInvariant, PTL

\* Whatever the requests cut and however many inputs are injected together, a turn
\* commits the input it began with and the latest one only after some request has
\* shown them, at the revision that is committed, if nothing interrupts the runs.
THEOREM TaskAndLatestRequested ==
  ASSUME Undisturbed
  PROVE  Spec => []EndsWereRequested
<1>1. ASSUME TypeInv, SeenInv PROVE EndsWereRequested
  <2> SUFFICES ASSUME NEW t \in 1..Len(history), NEW i \in UserPositions(history[t].msgs),
                      \/ \A j \in UserPositions(history[t].msgs) : i <= j
                      \/ \A j \in UserPositions(history[t].msgs) : j <= i
               PROVE  history[t].msgs[i] \in requested
    BY <1>1, InputsTypes, LenProperties DEF EndsWereRequested
  <2>1. PICK msgs \in Seq(Messages) : msgs = history[t].msgs
    BY <1>1, MessagesTypes
  <2>2. UserPositions(msgs) = {j \in 1..Len(msgs) : msgs[j].kind = "user"}
    BY LenProperties DEF UserPositions
  <2>3. Seen(msgs)
    BY <1>1, <2>1 DEF SeenInv
  <2>4. AtEnd(msgs, i)
    BY <2>1, <2>2 DEF AtEnd
  <2> QED BY <2>1, <2>2, <2>3, <2>4 DEF Seen
<1> QED BY <1>1, SeenInvariant, TypeInvariant, PTL

===============================================================================
