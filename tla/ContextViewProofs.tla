--------------------------- MODULE ContextViewProofs ---------------------------
(***************************************************************************)
(* Proofs about ContextView for conversations of any length, any tools,    *)
(* batches, skills and budgets.  The view of every request is legal; it    *)
(* shows the turn, its latest input and its results, and the active skills *)
(* within their limit; and the snip cuts no more than the budget asks.     *)
(* These hold for conversations in which the provider gives no call id     *)
(* again (~ repeating); the last theorem says what is left when it does.   *)
(*                                                                         *)
(* Legality follows each stage of prepare by what it does to coherence and *)
(* ownership of results.  What is shown follows each message through the   *)
(* stages: a function takes the places of a view to places of the          *)
(* conversation, in their order.                                           *)
(***************************************************************************)
EXTENDS ContextView, NumberLemmas, SequenceTheorems

--------------------------------------------------------------------------------
(* Recursive functions *)

\* A function from the naturals up to n may be defined step by step,
LEMMA StepsExist ==
  ASSUME NEW S, NEW base \in S, NEW n \in Nat, NEW step \in [1 .. n -> [S -> S]]
  PROVE  \E f \in [0 .. n -> S] :
           f[0] = base /\ \A m \in 1 .. n : f[m] = step[m][f[m - 1]]
<1> DEFINE Upto(f, k) == /\ f \in [0 .. k -> S]
                         /\ f[0] = base
                         /\ \A m \in 1 .. k : f[m] = step[m][f[m - 1]]
           bad == {k \in 0 .. n : ~ \E f : Upto(f, k)}
<1> SUFFICES ASSUME bad # {} PROVE FALSE
  <2>1. n \in 0 .. n
    OBVIOUS
  <2> QED BY <2>1
<1>1. PICK k \in bad : \A j \in bad : k <= j
  <2>1. bad \in SUBSET Nat
    OBVIOUS
  <2> QED BY <2>1, LeastNumber
<1>2. k \in 0 .. n /\ ~ \E f : Upto(f, k)
  BY <1>1
<1>3. k # 0
  <2> DEFINE f == [i \in 0 .. 0 |-> base]
  <2>1. Upto(f, 0)
    OBVIOUS
  <2> QED BY <1>2, <2>1
<1>4. k - 1 \in 0 .. n /\ ~ (k <= k - 1) /\ k \in 1 .. n /\ k \in Nat /\ k - 1 \in Nat
  BY <1>2, <1>3
<1>5. PICK g : Upto(g, k - 1)
  BY <1>1, <1>4
<1> DEFINE next == step[k][g[k - 1]]
           h == [i \in 0 .. k |-> IF i = k THEN next ELSE g[i]]
<1>6. \A i \in 0 .. k - 1 : g[i] \in S
  BY <1>5
<1>7. next \in S
  <2>1. g[k - 1] \in S
    BY <1>4, <1>6
  <2> QED BY <1>4, <2>1
<1> HIDE DEF next
<1>8. \A i \in 0 .. k - 1 : i \in 0 .. k /\ i # k /\ h[i] = g[i]
  BY <1>4
<1>9. h \in [0 .. k -> S] /\ h[k] = next
  <2>1. \A i \in 0 .. k : i = k \/ i \in 0 .. k - 1
    BY <1>4
  <2> QED BY <1>4, <1>6, <1>7, <2>1
<1> HIDE DEF h
<1>10. h[0] = base
  <2>1. 0 \in 0 .. k - 1
    BY <1>4
  <2> QED BY <1>5, <1>8, <2>1
<1>11. ASSUME NEW m \in 1 .. k PROVE h[m] = step[m][h[m - 1]]
  <2>1. m - 1 \in 0 .. k - 1 /\ (m = k \/ (m \in 1 .. k - 1 /\ m \in 0 .. k - 1))
    BY <1>4
  <2>2. h[m - 1] = g[m - 1]
    BY <1>8, <2>1
  <2>3. CASE m = k
    BY <1>9, <2>2, <2>3 DEF next
  <2>4. CASE m \in 1 .. k - 1 /\ m \in 0 .. k - 1
    BY <1>5, <1>8, <2>2, <2>4
  <2> QED BY <2>1, <2>3, <2>4
<1> QED BY <1>2, <1>9, <1>10, <1>11

\* and has what each step preserves.
LEMMA StepsStay ==
  ASSUME NEW S, NEW n \in Nat, NEW f, f[0] \in S,
         \A m \in 1 .. n : f[m - 1] \in S => f[m] \in S
  PROVE  \A m \in 0 .. n : f[m] \in S
<1> DEFINE bad == {m \in 0 .. n : f[m] \notin S}
<1> SUFFICES ASSUME bad # {} PROVE FALSE
  OBVIOUS
<1>1. PICK m \in bad : \A j \in bad : m <= j
  <2>1. bad \in SUBSET Nat
    OBVIOUS
  <2> QED BY <2>1, LeastNumber
<1>2. m \in 0 .. n /\ f[m] \notin S /\ m # 0
  BY <1>1
<1>3. m \in 1 .. n /\ m - 1 \in 0 .. n /\ ~ (m <= m - 1)
  BY <1>2
<1>4. f[m - 1] \in S
  BY <1>1, <1>3
<1> QED BY <1>2, <1>3, <1>4

--------------------------------------------------------------------------------
(* Joining sequences *)

LEMMA Joined ==
  ASSUME NEW T, NEW a \in Seq(T), NEW b \in Seq(T)
  PROVE  /\ a \o b \in Seq(T) /\ Len(a) \in Nat /\ Len(b) \in Nat
         /\ Len(a \o b) = Len(a) + Len(b)
         /\ \A i \in 1 .. Len(a) : (a \o b)[i] = a[i]
         /\ \A i \in 1 .. Len(b) : (a \o b)[Len(a) + i] = b[i]
OBVIOUS

\* f is the joining of the first m blocks, step by step.
Joins(f, blocks, m) ==
  f = [i \in 1 .. m |-> IF i = 1 THEN blocks[i] ELSE f[i - 1] \o blocks[i]]

LEMMA JoinExists ==
  ASSUME NEW blocks, NEW n \in Nat
  PROVE  \E f : Joins(f, blocks, n)
<1> DEFINE bad == {m \in Nat : ~ \E f : Joins(f, blocks, m)}
<1> SUFFICES ASSUME bad # {} PROVE FALSE
  OBVIOUS
<1>1. PICK m \in bad : \A j \in bad : m <= j
  <2>1. bad \in SUBSET Nat
    OBVIOUS
  <2> QED BY <2>1, LeastNumber
<1>2. m \in Nat /\ ~ \E f : Joins(f, blocks, m)
  BY <1>1
<1>3. m # 0
  <2>1. Joins([i \in 1 .. 0 |-> blocks[i]], blocks, 0)
    BY DEF Joins
  <2> QED BY <1>2, <2>1
<1>4. m - 1 \in Nat /\ ~ (m <= m - 1) /\ (m - 1) + 1 = m
  BY <1>2, <1>3
<1>5. PICK g : Joins(g, blocks, m - 1)
  BY <1>1, <1>4
<1> DEFINE h == [i \in 1 .. m |-> IF i < m THEN g[i]
                                  ELSE IF m = 1 THEN blocks[1] ELSE g[m - 1] \o blocks[m]]
<1>6. \A i \in 1 .. m : h[i] = IF i = 1 THEN blocks[i] ELSE h[i - 1] \o blocks[i]
  <2> SUFFICES ASSUME NEW i \in 1 .. m
               PROVE  h[i] = IF i = 1 THEN blocks[i] ELSE h[i - 1] \o blocks[i]
    OBVIOUS
  <2>1. CASE i = m /\ m = 1
    BY <1>2, <2>1
  <2>2. CASE i = m /\ m # 1
    <3>1. m - 1 \in 1 .. m /\ m - 1 < m /\ ~ (m < m) /\ m \in 1 .. m
      BY <1>2, <1>3, <2>2
    <3>2. h[m] = g[m - 1] \o blocks[m] /\ h[m - 1] = g[m - 1]
      BY <2>2, <3>1
    <3> QED BY <2>2, <3>2
  <2>3. CASE i < m
    <3>1. i \in 1 .. (m - 1) /\ (i # 1 => i - 1 \in 1 .. m /\ i - 1 < m)
      BY <1>2, <2>3
    <3>2. h[i] = g[i] /\ (i # 1 => h[i - 1] = g[i - 1])
      BY <2>3, <3>1
    <3>3. g[i] = IF i = 1 THEN blocks[i] ELSE g[i - 1] \o blocks[i]
      BY <1>5, <3>1 DEF Joins
    <3> QED BY <3>2, <3>3
  <2> QED BY <1>2, <2>1, <2>2, <2>3
<1>7. h = [i \in 1 .. m |-> h[i]]
  OBVIOUS
<1> HIDE DEF h
<1>8. Joins(h, blocks, m)
  BY <1>6, <1>7 DEF Joins
<1> QED BY <1>2, <1>8

\* The blocks of a joined sequence begin where the blocks before them end.
Layout(ends, blocks) ==
  /\ ends \in [0 .. Len(blocks) -> Nat]
  /\ ends[0] = 0
  /\ \A i \in 1 .. Len(blocks) : ends[i] = ends[i - 1] + Len(blocks[i])

LEMMA LayoutOrder ==
  ASSUME NEW blocks, Len(blocks) \in Nat, \A i \in 1 .. Len(blocks) : Len(blocks[i]) \in Nat,
         NEW ends, Layout(ends, blocks),
         NEW i \in 0 .. Len(blocks), NEW j \in 0 .. Len(blocks), i <= j
  PROVE  ends[i] <= ends[j]
<1> DEFINE bad == {k \in 0 .. Len(blocks) : i <= k /\ ~ (ends[i] <= ends[k])}
<1> SUFFICES ASSUME bad # {} PROVE FALSE
  OBVIOUS
<1>1. PICK k \in bad : \A m \in bad : k <= m
  <2>1. bad \in SUBSET Nat
    OBVIOUS
  <2> QED BY <2>1, LeastNumber
<1>2. k \in 0 .. Len(blocks) /\ i <= k /\ ~ (ends[i] <= ends[k])
  BY <1>1
<1>3. ends[i] \in Nat /\ ends[k] \in Nat
  BY <1>2 DEF Layout
<1>4. k # i
  BY <1>2, <1>3
<1>5. k - 1 \in 0 .. Len(blocks) /\ i <= k - 1 /\ ~ (k <= k - 1) /\ k \in 1 .. Len(blocks)
  BY <1>2, <1>4
<1>6. ends[i] <= ends[k - 1]
  BY <1>1, <1>5
<1>7. ends[k] = ends[k - 1] + Len(blocks[k]) /\ Len(blocks[k]) \in Nat /\ ends[k - 1] \in Nat
  BY <1>5 DEF Layout
<1> QED BY <1>2, <1>3, <1>6, <1>7

\* Every place of a joined sequence is in one of its blocks.
LEMMA LayoutCovers ==
  ASSUME NEW blocks, Len(blocks) \in Nat, \A i \in 1 .. Len(blocks) : Len(blocks[i]) \in Nat,
         NEW ends, Layout(ends, blocks), NEW p \in 1 .. ends[Len(blocks)]
  PROVE  \E j \in 1 .. Len(blocks) : \E o \in 1 .. Len(blocks[j]) : p = ends[j - 1] + o
<1> DEFINE reach == {k \in 0 .. Len(blocks) : p <= ends[k]}
<1>1. ends[Len(blocks)] \in Nat /\ Len(blocks) \in 0 .. Len(blocks)
  BY DEF Layout
<1>2. Len(blocks) \in reach
  BY <1>1
<1>3. PICK j \in reach : \A m \in reach : j <= m
  <2>1. reach \in SUBSET Nat /\ reach # {}
    BY <1>2
  <2> QED BY <2>1, LeastNumber
<1>4. j \in 0 .. Len(blocks) /\ p <= ends[j]
  BY <1>3
<1>5. j # 0
  <2>1. ends[0] = 0
    BY DEF Layout
  <2> QED BY <1>1, <1>4, <2>1
<1>6. j \in 1 .. Len(blocks) /\ j - 1 \in 0 .. Len(blocks) /\ ~ (j <= j - 1)
  BY <1>4, <1>5
<1>7. ~ (p <= ends[j - 1])
  BY <1>3, <1>6
<1>8. ends[j] = ends[j - 1] + Len(blocks[j]) /\ Len(blocks[j]) \in Nat /\ ends[j - 1] \in Nat
  BY <1>6 DEF Layout
<1>9. p - ends[j - 1] \in 1 .. Len(blocks[j]) /\ p = ends[j - 1] + (p - ends[j - 1])
  BY <1>1, <1>4, <1>7, <1>8
<1> QED BY <1>6, <1>9

\* A place in a block is a place in what holds the block.
LEMMA OffsetWithin ==
  ASSUME NEW a \in Nat, NEW l \in Nat, NEW c \in Nat, NEW o \in 1 .. l, a + l <= c
  PROVE  a + o \in 1 .. c
OBVIOUS

\* What FlattenSeq makes of blocks.
LEMMA Flattened ==
  ASSUME NEW T, NEW blocks \in Seq(Seq(T))
  PROVE  /\ FlattenSeq(blocks) \in Seq(T)
         /\ \E ends : /\ Layout(ends, blocks)
                      /\ Len(FlattenSeq(blocks)) = ends[Len(blocks)]
                      /\ \A j \in 1 .. Len(blocks) : \A o \in 1 .. Len(blocks[j]) :
                           FlattenSeq(blocks)[ends[j - 1] + o] = blocks[j][o]
<1> DEFINE n == Len(blocks)
<1>1. n \in Nat /\ \A i \in 1 .. n : blocks[i] \in Seq(T) /\ Len(blocks[i]) \in Nat
  OBVIOUS
<1>2. CASE n = 0
  <2>1. FlattenSeq(blocks) = blocks
    BY <1>2 DEF FlattenSeq
  <2>2. blocks = <<>>
    BY <1>2
  <2>3. Layout([i \in 0 .. 0 |-> 0], blocks)
    BY <1>2, <2>2 DEF Layout
  <2>4. [i \in 0 .. 0 |-> 0][Len(blocks)] = 0
    BY <1>2
  <2>5. Len(FlattenSeq(blocks)) = 0
    BY <1>2, <2>1
  <2>6. FlattenSeq(blocks) \in Seq(T)
    BY <2>1, <2>2
  <2>7. \A j \in 1 .. Len(blocks) : FALSE
    BY <1>2
  <2> DEFINE ends == [i \in 0 .. 0 |-> 0]
  <2> HIDE DEF ends
  <2> QED BY <2>3, <2>4, <2>5, <2>6, <2>7 DEF ends
<1>3. CASE n # 0
  <2>1. n \in Nat \ {0} /\ n \in 1 .. n /\ 1 \in 1 .. n
    BY <1>1, <1>3
  <2> DEFINE g == CHOOSE g : g = [i \in 1 .. n |->
                    IF i = 1 THEN blocks[i] ELSE g[i - 1] \o blocks[i]]
  <2>2. Joins(g, blocks, n)
    BY <1>1, JoinExists DEF Joins
  <2>3. FlattenSeq(blocks) = g[n]
    BY <1>3 DEF FlattenSeq
  <2> HIDE DEF g
  <2>4. \A i \in 1 .. n : g[i] = IF i = 1 THEN blocks[i] ELSE g[i - 1] \o blocks[i]
    BY <2>2 DEF Joins
  <2>5. \A i \in 1 .. n : g[i] \in Seq(T)
    <3> DEFINE bad == {i \in 1 .. n : g[i] \notin Seq(T)}
    <3> SUFFICES ASSUME bad # {} PROVE FALSE
      OBVIOUS
    <3>1. PICK i \in bad : \A m \in bad : i <= m
      <4>1. bad \in SUBSET Nat
        OBVIOUS
      <4> QED BY <4>1, LeastNumber
    <3>2. i \in 1 .. n /\ g[i] \notin Seq(T)
      BY <3>1
    <3>3. i # 1
      BY <1>1, <2>4, <3>2
    <3>4. i - 1 \in 1 .. n /\ ~ (i <= i - 1)
      BY <1>1, <3>2, <3>3
    <3>5. g[i - 1] \in Seq(T) /\ blocks[i] \in Seq(T)
      BY <1>1, <3>1, <3>2, <3>4
    <3>6. g[i] = g[i - 1] \o blocks[i]
      BY <2>4, <3>2, <3>3
    <3> QED BY <3>2, <3>5, <3>6
  <2> DEFINE ends == [i \in 0 .. n |-> IF i = 0 THEN 0 ELSE Len(g[i])]
  <2>6. Layout(ends, blocks)
    <3>1. ends \in [0 .. n -> Nat]
      BY <2>5
    <3>2. ends[0] = 0
      BY <1>1
    <3>3. ASSUME NEW i \in 1 .. n PROVE ends[i] = ends[i - 1] + Len(blocks[i])
      <4>1. CASE i = 1
        <5>1. ends[1] = Len(g[1]) /\ ends[1 - 1] = 0 /\ g[1] = blocks[1]
          BY <1>1, <2>4, <4>1
        <5> QED BY <1>1, <4>1, <5>1
      <4>2. CASE i # 1
        <5>1. i - 1 \in 1 .. n
          BY <1>1, <4>2
        <5>2. ends[i] = Len(g[i]) /\ ends[i - 1] = Len(g[i - 1])
          BY <5>1
        <5>3. g[i] = g[i - 1] \o blocks[i] /\ g[i - 1] \in Seq(T) /\ blocks[i] \in Seq(T)
          BY <1>1, <2>4, <2>5, <4>2, <5>1
        <5>4. Len(g[i]) = Len(g[i - 1]) + Len(blocks[i])
          BY <5>3, Joined
        <5> HIDE DEF ends
        <5> QED BY <5>2, <5>4
      <4> QED BY <4>1, <4>2
    <3> HIDE DEF ends
    <3> QED BY <3>1, <3>2, <3>3 DEF Layout
  <2>7. \A i \in 1 .. n : ends[i] = Len(g[i])
    BY <1>1
  <2> HIDE DEF ends
  <2>8. \A i \in 1 .. n : \A j \in 1 .. i : \A o \in 1 .. Len(blocks[j]) :
          g[i][ends[j - 1] + o] = blocks[j][o]
    <3> DEFINE Right(i) == \A j \in 1 .. i : \A o \in 1 .. Len(blocks[j]) :
                             g[i][ends[j - 1] + o] = blocks[j][o]
               bad == {i \in 1 .. n : ~ Right(i)}
    <3> SUFFICES ASSUME bad # {} PROVE FALSE
      OBVIOUS
    <3>1. PICK i \in bad : \A m \in bad : i <= m
      <4>1. bad \in SUBSET Nat
        OBVIOUS
      <4> QED BY <4>1, LeastNumber
    <3>2. i \in 1 .. n /\ ~ Right(i)
      BY <3>1
    <3>3. i # 1
      <4>1. g[1] = blocks[1] /\ ends[1 - 1] = 0
        BY <1>1, <2>1, <2>4, <2>6 DEF Layout
      <4>2. \A o \in 1 .. Len(blocks[1]) : 0 + o = o
        BY <1>1, <2>1
      <4>3. ASSUME NEW j \in 1 .. 1, NEW o \in 1 .. Len(blocks[j])
            PROVE  g[1][ends[j - 1] + o] = blocks[j][o]
        <5>1. j = 1
          OBVIOUS
        <5>2. o \in 1 .. Len(blocks[1])
          BY <5>1, Zenon
        <5>3. 0 + o = o
          BY <4>2, <5>2, Zenon
        <5> QED BY <4>1, <5>1, <5>3, Zenon
      <4>4. Right(1)
        BY <4>3, Zenon
      <4> QED BY <3>2, <4>4, Zenon
    <3>4. i - 1 \in 1 .. n /\ ~ (i <= i - 1) /\ i - 1 \in 0 .. n
      BY <1>1, <3>2, <3>3
    <3>5. Right(i - 1)
      BY <3>1, <3>4
    <3>6. g[i] = g[i - 1] \o blocks[i] /\ g[i - 1] \in Seq(T) /\ blocks[i] \in Seq(T)
      BY <1>1, <2>4, <2>5, <3>2, <3>3, <3>4
    <3>7. ends[i - 1] = Len(g[i - 1])
      BY <2>7, <3>4
    <3> HIDE DEF bad
    <3>8. ASSUME NEW j \in 1 .. i, NEW o \in 1 .. Len(blocks[j])
          PROVE  g[i][ends[j - 1] + o] = blocks[j][o]
      <4>0. /\ Len(g[i - 1]) \in Nat
            /\ \A q \in 1 .. Len(g[i - 1]) : g[i][q] = g[i - 1][q]
            /\ \A q \in 1 .. Len(blocks[i]) : g[i][Len(g[i - 1]) + q] = blocks[i][q]
        <5> DEFINE a == g[i - 1]
                   b == blocks[i]
        <5>1. a \in Seq(T) /\ b \in Seq(T) /\ g[i] = a \o b
          BY <3>6
        <5> HIDE DEF a, b
        <5>2. /\ Len(a) \in Nat
              /\ \A q \in 1 .. Len(a) : (a \o b)[q] = a[q]
              /\ \A q \in 1 .. Len(b) : (a \o b)[Len(a) + q] = b[q]
          BY <5>1, Joined
        <5> QED BY <5>1, <5>2 DEF a, b
      <4>1. CASE j = i
        BY <3>7, <4>0, <4>1
      <4>2. CASE j # i
        <5>1. j \in 1 .. (i - 1) /\ j \in 0 .. n /\ j \in 1 .. n /\ j - 1 \in 0 .. n /\ j <= i - 1
          BY <1>1, <3>2, <3>4, <4>2
        <5>2. ends[j] <= ends[i - 1]
          BY <1>1, <2>6, <3>4, <5>1, LayoutOrder
        <5>3. ends[j] = ends[j - 1] + Len(blocks[j]) /\ ends[j - 1] \in Nat /\ Len(blocks[j]) \in Nat
          BY <1>1, <2>6, <5>1 DEF Layout
        <5>4. ends[j - 1] + o \in 1 .. Len(g[i - 1])
          <6>1. o \in 1 .. Len(blocks[j])
            OBVIOUS
          <6>2. Len(g[i - 1]) \in Nat /\ ends[j] \in Nat
            BY <4>0, <2>6, <5>1 DEF Layout
          <6>3. ends[j - 1] + Len(blocks[j]) <= Len(g[i - 1])
            BY <3>7, <5>2, <5>3, Zenon
          <6> QED BY <5>3, <6>1, <6>2, <6>3, OffsetWithin, Zenon
        <5>5. g[i][ends[j - 1] + o] = g[i - 1][ends[j - 1] + o]
          BY <4>0, <5>4
        <5> QED BY <3>5, <5>1, <5>5
      <4> QED BY <4>1, <4>2
    <3> QED BY <3>2, <3>8
  <2>9. Len(FlattenSeq(blocks)) = ends[n] /\ FlattenSeq(blocks) \in Seq(T)
    BY <2>1, <2>3, <2>5, <2>7
  <2>10. \A j \in 1 .. n : \A o \in 1 .. Len(blocks[j]) :
           FlattenSeq(blocks)[ends[j - 1] + o] = blocks[j][o]
    <3> HIDE DEF n
    <3>1. n \in 1 .. n
      BY <2>1, Zenon
    <3>2. \A j \in 1 .. n : \A o \in 1 .. Len(blocks[j]) : g[n][ends[j - 1] + o] = blocks[j][o]
      BY <2>8, <3>1, Zenon
    <3> QED BY <2>3, <3>2, Zenon
  <2> HIDE DEF n
  <2>11. Len(FlattenSeq(blocks)) = ends[Len(blocks)]
    BY <2>9 DEF n
  <2>12. \A j \in 1 .. Len(blocks) : \A o \in 1 .. Len(blocks[j]) :
           FlattenSeq(blocks)[ends[j - 1] + o] = blocks[j][o]
    BY <2>10 DEF n
  <2>13. \E e : /\ Layout(e, blocks)
                /\ Len(FlattenSeq(blocks)) = e[Len(blocks)]
                /\ \A j \in 1 .. Len(blocks) : \A o \in 1 .. Len(blocks[j]) :
                     FlattenSeq(blocks)[e[j - 1] + o] = blocks[j][o]
    <3> WITNESS ends
    <3> QED BY <2>6, <2>11, <2>12, Zenon
  <2> QED BY <2>9, <2>13, Zenon
<1> QED BY <1>2, <1>3

\* Where the places of a joined sequence come from: block blk[p], place off[p].
Splits(blk, off, flat, blocks) ==
  /\ blk \in [Indices(flat) -> Indices(blocks)]
  /\ off \in [Indices(flat) -> Nat]
  /\ \A p \in Indices(flat) :
       off[p] \in Indices(blocks[blk[p]]) /\ flat[p] = blocks[blk[p]][off[p]]
  /\ \A p, q \in Indices(flat) :
       p < q => blk[p] < blk[q] \/ (blk[p] = blk[q] /\ off[p] < off[q])
  /\ \A j \in Indices(blocks) : \A o \in Indices(blocks[j]) :
       \E p \in Indices(flat) : blk[p] = j /\ off[p] = o

LEMMA FlattenSplits ==
  ASSUME NEW T, NEW blocks \in Seq(Seq(T))
  PROVE  /\ FlattenSeq(blocks) \in Seq(T)
         /\ \E blk, off : Splits(blk, off, FlattenSeq(blocks), blocks)
<1> DEFINE flat == FlattenSeq(blocks)
           n == Len(blocks)
<1>1. n \in Nat /\ \A i \in 1 .. n : Len(blocks[i]) \in Nat
  OBVIOUS
<1>2. flat \in Seq(T)
  BY Flattened
<1>3. PICK ends : /\ Layout(ends, blocks)
                  /\ Len(flat) = ends[n]
                  /\ \A j \in 1 .. n : \A o \in 1 .. Len(blocks[j]) :
                       flat[ends[j - 1] + o] = blocks[j][o]
  BY Flattened
<1> HIDE DEF flat
<1>4. ends \in [0 .. n -> Nat] /\ \A i \in 1 .. n : ends[i] = ends[i - 1] + Len(blocks[i])
  BY <1>3 DEF Layout
<1>5. \A i, j \in 0 .. n : i <= j => ends[i] <= ends[j]
  BY <1>1, <1>3, LayoutOrder
<1>6. \A p \in 1 .. Len(flat) : \E j \in 1 .. n : \E o \in 1 .. Len(blocks[j]) : p = ends[j - 1] + o
  BY <1>1, <1>3, LayoutCovers
<1> HIDE DEF n
<1>15. \A i \in 1 .. n : i - 1 \in 0 .. n /\ i \in 0 .. n /\ i \in Nat /\ i - 1 \in Nat
  BY <1>1
<1>16. \A i \in 1 .. n : /\ ends[i] = ends[i - 1] + Len(blocks[i])
                         /\ ends[i - 1] \in Nat /\ ends[i] \in Nat
  BY <1>4, <1>15
<1> DEFINE In(p, j, o) == j \in 1 .. n /\ o \in 1 .. Len(blocks[j]) /\ p = ends[j - 1] + o
<1>7. ASSUME NEW p, NEW q, NEW j, NEW h, NEW o, NEW u, In(p, j, o), In(q, h, u), j < h
      PROVE  p < q
  <2>0. j \in 1 .. n /\ h \in 1 .. n
    BY <1>7
  <2>1. /\ j \in 0 .. n /\ h - 1 \in 0 .. n /\ j \in Nat /\ h \in Nat
        /\ ends[j] = ends[j - 1] + Len(blocks[j])
        /\ ends[j - 1] \in Nat /\ ends[j] \in Nat /\ ends[h - 1] \in Nat
        /\ Len(blocks[j]) \in Nat /\ Len(blocks[h]) \in Nat
    BY <1>1, <1>15, <1>16, <2>0
  <2>2. ends[j] <= ends[h - 1]
    <3>1. j <= h - 1
      BY <1>7, <2>1
    <3> QED BY <1>5, <2>1, <3>1
  <2>3. o \in 1 .. Len(blocks[j]) /\ u \in 1 .. Len(blocks[h])
        /\ p = ends[j - 1] + o /\ q = ends[h - 1] + u
    BY <1>7
  <2>4. o \in Nat /\ u \in Nat /\ o <= Len(blocks[j]) /\ 1 <= u
    BY <2>1, <2>3
  <2>5. ASSUME NEW a \in Nat, NEW b \in Nat, NEW l \in Nat, NEW v \in Nat, NEW w \in Nat,
               a + l <= b, v <= l, 1 <= w
        PROVE  a + v < b + w
    BY <2>5
  <2> QED BY <2>1, <2>2, <2>3, <2>4, <2>5
<1>8. \A p, j, o : In(p, j, o) => p \in 1 .. Len(flat)
  <2> SUFFICES ASSUME NEW p, NEW j, NEW o, In(p, j, o) PROVE p \in 1 .. Len(flat)
    OBVIOUS
  <2>1. ends[j] <= ends[n] /\ ends[j] = ends[j - 1] + Len(blocks[j])
        /\ ends[j - 1] \in Nat /\ Len(blocks[j]) \in Nat /\ ends[n] \in Nat
    <3>0. j \in 1 .. n
      OBVIOUS
    <3>1. j \in 0 .. n /\ n \in 0 .. n /\ j <= n /\ n \in 1 .. n
      BY <1>1, <3>0
    <3> QED BY <1>1, <1>5, <1>16, <3>0, <3>1
  <2>2. o \in 1 .. Len(blocks[j]) /\ p = ends[j - 1] + o
    OBVIOUS
  <2>3. ends[j - 1] + Len(blocks[j]) <= Len(flat) /\ Len(flat) \in Nat
    BY <1>3, <2>1, Zenon
  <2>4. ends[j - 1] + o \in 1 .. Len(flat)
    BY <2>1, <2>2, <2>3, OffsetWithin, Zenon
  <2> QED BY <2>2, <2>4, Zenon
<1> DEFINE Where(p) == CHOOSE j \in 1 .. n : \E o \in 1 .. Len(blocks[j]) : In(p, j, o)
           blk == [p \in 1 .. Len(flat) |-> Where(p)]
           off == [p \in 1 .. Len(flat) |-> p - ends[blk[p] - 1]]
<1>9. \A p \in 1 .. Len(flat) : blk[p] \in 1 .. n /\ In(p, blk[p], off[p]) /\ off[p] \in Nat
  <2> SUFFICES ASSUME NEW p \in 1 .. Len(flat)
               PROVE  blk[p] \in 1 .. n /\ In(p, blk[p], off[p]) /\ off[p] \in Nat
    OBVIOUS
  <2>1. blk[p] \in 1 .. n /\ \E o \in 1 .. Len(blocks[blk[p]]) : In(p, blk[p], o)
    <3> DEFINE Good(j) == \E o \in 1 .. Len(blocks[j]) : In(p, j, o)
    <3>1. \E j \in 1 .. n : Good(j)
      BY <1>6
    <3>2. blk[p] = CHOOSE j \in 1 .. n : Good(j)
      OBVIOUS
    <3> HIDE DEF Good, blk
    <3>3. blk[p] \in 1 .. n /\ Good(blk[p])
      BY <3>1, <3>2
    <3> QED BY <3>3 DEF Good
  <2>2. off[p] = p - ends[blk[p] - 1]
    OBVIOUS
  <2> HIDE DEF blk, off
  <2>3. PICK o \in 1 .. Len(blocks[blk[p]]) : p = ends[blk[p] - 1] + o
    BY <2>1
  <2>4. ends[blk[p] - 1] \in Nat /\ Len(blocks[blk[p]]) \in Nat
    BY <1>1, <1>16, <2>1
  <2>5. off[p] = o /\ o \in Nat
    BY <2>2, <2>3, <2>4
  <2> QED BY <2>1, <2>3, <2>5
<1>10. blk \in [1 .. Len(flat) -> 1 .. n] /\ off \in [1 .. Len(flat) -> Nat]
  <2> HIDE DEF Where
  <2>1. blk = [p \in 1 .. Len(flat) |-> blk[p]]
    OBVIOUS
  <2> HIDE DEF blk
  <2>2. off = [p \in 1 .. Len(flat) |-> off[p]]
    OBVIOUS
  <2> HIDE DEF off
  <2> QED BY <1>9, <2>1, <2>2
<1> HIDE DEF blk, off
<1>11. ASSUME NEW p \in 1 .. Len(flat)
       PROVE  off[p] \in 1 .. Len(blocks[blk[p]]) /\ flat[p] = blocks[blk[p]][off[p]]
  BY <1>3, <1>9
<1>12. ASSUME NEW p \in 1 .. Len(flat), NEW q \in 1 .. Len(flat), p < q
       PROVE  blk[p] < blk[q] \/ (blk[p] = blk[q] /\ off[p] < off[q])
  <2>1. blk[p] \in Int /\ blk[q] \in Int /\ p \in Int /\ q \in Int
    BY <1>9, <1>1
  <2>2. ~ (blk[q] < blk[p])
    <3>1. blk[q] < blk[p] => q < p
      BY <1>7, <1>9
    <3> QED BY <2>1, <3>1, <1>12
  <2>3. ASSUME blk[p] = blk[q] PROVE off[p] < off[q]
    <3>1. p = ends[blk[p] - 1] + off[p] /\ q = ends[blk[p] - 1] + off[q]
          /\ ends[blk[p] - 1] \in Nat /\ off[p] \in Nat /\ off[q] \in Nat
      BY <1>9, <1>16, <2>3
    <3> QED BY <1>12, <3>1
  <2> QED BY <2>1, <2>2, <2>3
<1>13. ASSUME NEW j \in 1 .. n, NEW o \in 1 .. Len(blocks[j])
       PROVE  \E p \in 1 .. Len(flat) : blk[p] = j /\ off[p] = o
  <2> DEFINE p == ends[j - 1] + o
  <2>1. In(p, j, o)
    OBVIOUS
  <2> HIDE DEF p
  <2>2. p \in 1 .. Len(flat) /\ In(p, blk[p], off[p]) /\ blk[p] \in 1 .. n
    BY <1>8, <1>9, <2>1
  <2>3. p \in Int /\ j \in Int /\ blk[p] \in Int
    BY <1>1, <2>2
  <2>4. ~ (blk[p] < j) /\ ~ (j < blk[p])
    <3> HIDE DEF In
    <3>1. blk[p] < j => p < p
      BY <1>7, <2>1, <2>2, Zenon
    <3>2. j < blk[p] => p < p
      BY <1>7, <2>1, <2>2, Zenon
    <3>3. ~ (p < p)
      BY <2>3
    <3> QED BY <3>1, <3>2, <3>3, Zenon
  <2>5. blk[p] = j
    BY <2>3, <2>4
  <2>6. off[p] = o
    <3>1. p = ends[blk[p] - 1] + off[p] /\ off[p] \in Nat
      BY <1>9, <2>2
    <3>2. p = ends[j - 1] + off[p]
      BY <2>5, <3>1, Zenon
    <3>3. ends[j - 1] \in Nat /\ p = ends[j - 1] + o
      BY <1>16, <2>1
    <3>4. o \in Nat
      BY <1>1
    <3> DEFINE a == ends[j - 1]
               b == off[p]
    <3>5. a \in Nat /\ b \in Nat /\ p = a + b /\ p = a + o
      BY <3>1, <3>2, <3>3
    <3> HIDE DEF a, b
    <3>6. b = o
      BY <3>4, <3>5
    <3> QED BY <3>6 DEF b
  <2> QED BY <2>2, <2>5, <2>6
<1>14. Splits(blk, off, flat, blocks)
  BY <1>10, <1>11, <1>12, <1>13 DEF Splits, Indices, n
<1> QED BY <1>2, <1>14 DEF flat

\* Where the elements that At picks come from.
Picks(pos, part, seq, places) ==
  /\ pos \in [Indices(part) -> Indices(seq) \cap places]
  /\ \A p, q \in Indices(part) : p < q => pos[p] < pos[q]
  /\ \A i \in Indices(seq) \cap places : \E p \in Indices(part) : pos[p] = i
  /\ \A p \in Indices(part) : part[p] = seq[pos[p]]

LEMMA AtPicks ==
  ASSUME NEW T, NEW seq \in Seq(T), NEW places
  PROVE  /\ At(seq, places) \in Seq(T)
         /\ \E pos : Picks(pos, At(seq, places), seq, places)
<1> DEFINE blocks == [i \in Indices(seq) |-> IF i \in places THEN <<seq[i]>> ELSE <<>>]
           flat == FlattenSeq(blocks)
<1>1. Len(seq) \in Nat /\ \A i \in Indices(seq) : seq[i] \in T
  BY DEF Indices
<1>2. \A i \in Indices(seq) : /\ blocks[i] \in Seq(T)
                              /\ i \in places => Len(blocks[i]) = 1 /\ blocks[i][1] = seq[i]
                              /\ i \notin places => Len(blocks[i]) = 0
  BY <1>1
<1>3. blocks \in Seq(Seq(T)) /\ Len(blocks) = Len(seq)
  <2>1. blocks = [i \in 1 .. Len(seq) |-> blocks[i]]
    BY DEF Indices
  <2> HIDE DEF blocks
  <2>2. \A i \in 1 .. Len(seq) : blocks[i] \in Seq(T)
    BY <1>2 DEF Indices
  <2>3. blocks \in [1 .. Len(seq) -> Seq(T)]
    BY <2>1, <2>2
  <2> QED BY <1>1, <2>3
<1>4. At(seq, places) = flat
  BY DEF At
<1> HIDE DEF blocks
<1>5. flat \in Seq(T) /\ \E blk, off : Splits(blk, off, flat, blocks)
  BY <1>3, FlattenSplits
<1> HIDE DEF flat
<1>6. PICK blk, off : Splits(blk, off, flat, blocks)
  BY <1>5
<1>7. Indices(blocks) = Indices(seq)
  BY <1>3 DEF Indices
<1>8. ASSUME NEW p \in Indices(flat)
      PROVE  /\ blk[p] \in Indices(seq) /\ blk[p] \in places
             /\ off[p] = 1 /\ flat[p] = seq[blk[p]]
  <2>1. blk[p] \in Indices(seq) /\ off[p] \in Indices(blocks[blk[p]])
        /\ flat[p] = blocks[blk[p]][off[p]]
    BY <1>6, <1>7 DEF Splits
  <2>2. off[p] \in 1 .. Len(blocks[blk[p]])
    BY <2>1 DEF Indices
  <2>3. CASE blk[p] \in places
    <3>1. off[p] = 1
      BY <1>2, <2>1, <2>2, <2>3
    <3> QED BY <1>2, <2>1, <2>3, <3>1
  <2>4. CASE blk[p] \notin places
    BY <1>2, <2>1, <2>2, <2>4
  <2> QED BY <2>3, <2>4
<1>9. ASSUME NEW i \in Indices(seq) \cap places
      PROVE  \E p \in Indices(flat) : blk[p] = i
  <2>1. 1 \in Indices(blocks[i])
    BY <1>2 DEF Indices
  <2> QED BY <1>6, <1>7, <2>1 DEF Splits
<1>10. \A p, q \in Indices(flat) : p < q => blk[p] < blk[q]
  <2> SUFFICES ASSUME NEW p \in Indices(flat), NEW q \in Indices(flat), p < q
               PROVE  blk[p] < blk[q]
    OBVIOUS
  <2>1. off[p] = 1 /\ off[q] = 1
    BY <1>8
  <2>2. blk[p] < blk[q] \/ (blk[p] = blk[q] /\ off[p] < off[q])
    BY <1>6 DEF Splits
  <2> QED BY <2>1, <2>2
<1>11. Picks(blk, flat, seq, places)
  <2>1. blk \in [Indices(flat) -> Indices(seq)]
    BY <1>6, <1>7 DEF Splits
  <2>2. blk \in [Indices(flat) -> Indices(seq) \cap places]
    BY <1>8, <2>1
  <2> QED BY <1>8, <1>9, <1>10, <2>2 DEF Picks
<1> QED BY <1>4, <1>5, <1>11

--------------------------------------------------------------------------------
(* Coherent conversations *)

Call == Ids \X DOMAIN Tools

Message ==
  {m \in [kind : {"user", "assistant", "status", "result", "skill", "backfilled"},
          id : Nat \cup Ids, calls : Seq(Call), tool : DOMAIN Tools \cup {""}, size : Nat \ {0}] :
     m.kind # "assistant" => m.calls = <<>>}

Distinct(m) ==
  \A k, l \in Indices(m.calls) : m.calls[k][1] = m.calls[l][1] => k = l

\* No call and no result occurs twice, and a result whose call is there stands behind it
\* with nothing but results of the same batch between.
Coherent(ms) ==
  /\ ms \in Seq(Message)
  /\ \A i \in Indices(ms) : Distinct(ms[i])
  /\ \A i, j \in Indices(ms) : \A id \in CallIds(ms[i]) : id \in CallIds(ms[j]) => i = j
  /\ \A i, j \in Results(ms) : ms[i].id = ms[j].id => i = j
  /\ \A i \in Results(ms), j \in Indices(ms) :
       ms[i].id \in CallIds(ms[j]) =>
         /\ j < i
         /\ \A k \in j + 1 .. i : IsResult(ms[k]) /\ ms[k].id \in CallIds(ms[j])

Owned(ms) == \A i \in Results(ms) : \E j \in Indices(ms) : ms[i].id \in CallIds(ms[j])

Answers(ms) ==
  \A j \in Indices(ms) : \A id \in CallIds(ms[j]) : \E i \in Results(ms) : ms[i].id = id

Legal(ms) == Coherent(ms) /\ Owned(ms) /\ Answers(ms)

\* ViewLegal is what is said here of the view.
LEMMA LegalView ==
  ASSUME NEW ms, Legal(ms)
  PROVE  /\ \A i \in Results(ms) : \E j \in Declares(ms, i) : j < i
         /\ \A j \in Indices(ms) : \A id \in CallIds(ms[j]) :
              \E i \in j + 1 .. Len(ms) :
                /\ {k \in Results(ms) : ms[k].id = id} = {i}
                /\ \A k \in j + 1 .. i : IsResult(ms[k]) /\ ms[k].id \in CallIds(ms[j])
<1> USE DEF Legal, Coherent, Owned, Answers
<1>1. ASSUME NEW i \in Results(ms) PROVE \E j \in Declares(ms, i) : j < i
  BY <1>1 DEF Declares
<1>2. ASSUME NEW j \in Indices(ms), NEW id \in CallIds(ms[j])
      PROVE  \E i \in j + 1 .. Len(ms) :
               /\ {k \in Results(ms) : ms[k].id = id} = {i}
               /\ \A k \in j + 1 .. i : IsResult(ms[k]) /\ ms[k].id \in CallIds(ms[j])
  <2>1. PICK i \in Results(ms) : ms[i].id = id
    OBVIOUS
  <2>2. j < i /\ \A k \in j + 1 .. i : IsResult(ms[k]) /\ ms[k].id \in CallIds(ms[j])
    BY <2>1
  <2>3. {k \in Results(ms) : ms[k].id = id} = {i}
    BY <2>1
  <2>4. i \in j + 1 .. Len(ms)
    <3>1. i \in 1 .. Len(ms) /\ j \in 1 .. Len(ms) /\ Len(ms) \in Nat
      BY DEF Results, Indices
    <3> QED BY <2>2, <3>1
  <2> QED BY <2>2, <2>3, <2>4
<1> QED BY <1>1, <1>2

\* What is left of messages when some of them go, or some of their calls, but no call
\* whose result stays.
Projects(src, new, ms) ==
  /\ new \in Seq(Message)
  /\ src \in [Indices(new) -> Indices(ms)]
  /\ \A p, q \in Indices(new) : p < q => src[p] < src[q]
  /\ \A p \in Indices(new) : /\ new[p].kind = ms[src[p]].kind
                             /\ new[p].id = ms[src[p]].id
                             /\ CallIds(new[p]) \subseteq CallIds(ms[src[p]])
                             /\ Distinct(new[p])
  /\ \A p, q \in Indices(new) :
       IsResult(new[q]) /\ new[q].id \in CallIds(ms[src[p]]) => new[q].id \in CallIds(new[p])

LEMMA ProjectCoherent ==
  ASSUME NEW ms, NEW new, NEW src, Coherent(ms), Projects(src, new, ms)
  PROVE  Coherent(new)
<1>1. /\ new \in Seq(Message) /\ Len(new) \in Nat /\ Len(ms) \in Nat
      /\ \A p \in Indices(new) : src[p] \in Indices(ms) /\ p \in Int /\ src[p] \in Int
      /\ \A p, q \in Indices(new) : p < q => src[p] < src[q]
  BY DEF Projects, Coherent, Indices
<1>2. \A p, q \in Indices(new) : (src[p] = src[q] => p = q) /\ (src[p] < src[q] => p < q)
  <2> SUFFICES ASSUME NEW p \in Indices(new), NEW q \in Indices(new)
               PROVE  (src[p] = src[q] => p = q) /\ (src[p] < src[q] => p < q)
    OBVIOUS
  <2> DEFINE a == src[p]
             b == src[q]
  <2>1. p \in Int /\ q \in Int /\ a \in Int /\ b \in Int
    BY <1>1
  <2>2. (p < q => a < b) /\ (q < p => b < a)
    BY <1>1
  <2>3. p = q => a = b
    OBVIOUS
  <2> HIDE DEF a, b
  <2>4. (a = b => p = q) /\ (a < b => p < q)
    BY <2>1, <2>2, <2>3
  <2> QED BY <2>4 DEF a, b
<1>3. \A p \in Indices(new) : /\ IsResult(new[p]) <=> IsResult(ms[src[p]])
                              /\ new[p].id = ms[src[p]].id
                              /\ CallIds(new[p]) \subseteq CallIds(ms[src[p]])
                              /\ Distinct(new[p])
  BY DEF Projects, IsResult
<1>4. \A p \in Results(new) : p \in Indices(new) /\ src[p] \in Results(ms)
  BY <1>1, <1>3 DEF Results
<1>5. \A i, j \in Indices(new) : \A id \in CallIds(new[i]) : id \in CallIds(new[j]) => i = j
  BY <1>1, <1>2, <1>3 DEF Coherent
<1>6. \A i, j \in Results(new) : new[i].id = new[j].id => i = j
  BY <1>2, <1>3, <1>4 DEF Coherent
<1>7. ASSUME NEW i \in Results(new), NEW j \in Indices(new), new[i].id \in CallIds(new[j])
      PROVE  /\ j < i
             /\ \A k \in j + 1 .. i : IsResult(new[k]) /\ new[k].id \in CallIds(new[j])
  <2>1. /\ src[i] \in Results(ms) /\ src[j] \in Indices(ms) /\ i \in Indices(new)
        /\ ms[src[i]].id \in CallIds(ms[src[j]])
    BY <1>1, <1>3, <1>4, <1>7
  <2>2. /\ src[j] < src[i]
        /\ \A k \in src[j] + 1 .. src[i] : IsResult(ms[k]) /\ ms[k].id \in CallIds(ms[src[j]])
    BY <2>1 DEF Coherent
  <2>3. j < i
    BY <1>2, <2>1, <2>2
  <2>4. ASSUME NEW k \in j + 1 .. i PROVE IsResult(new[k]) /\ new[k].id \in CallIds(new[j])
    <3>1. k \in Indices(new) /\ j < k /\ (k = i \/ k < i)
      <4>1. i \in 1 .. Len(new) /\ j \in 1 .. Len(new)
        BY <2>1 DEF Indices
      <4> QED BY <1>1, <4>1 DEF Indices
    <3>2. src[k] \in Int /\ src[j] < src[k] /\ (src[k] = src[i] \/ src[k] < src[i])
      BY <1>1, <2>1, <3>1
    <3>3. src[k] \in src[j] + 1 .. src[i]
      BY <1>1, <2>1, <3>2
    <3>4. IsResult(ms[src[k]]) /\ ms[src[k]].id \in CallIds(ms[src[j]])
      BY <2>2, <3>3
    <3> QED BY <1>3, <3>1, <3>4 DEF Projects
  <2> QED BY <2>3, <2>4
<1> QED BY <1>1, <1>3, <1>5, <1>6, <1>7 DEF Coherent

\* A choice of the messages.
LEMMA AtCoherent ==
  ASSUME NEW ms, Coherent(ms), NEW places
  PROVE  Coherent(At(ms, places))
<1>1. At(ms, places) \in Seq(Message) /\ \E pos : Picks(pos, At(ms, places), ms, places)
  BY AtPicks DEF Coherent
<1> DEFINE new == At(ms, places)
<1> HIDE DEF new
<1>2. PICK pos : Picks(pos, new, ms, places)
  BY <1>1 DEF new
<1>3. Projects(pos, new, ms)
  <2>1. \A p \in Indices(new) : pos[p] \in Indices(ms) /\ new[p] = ms[pos[p]]
    BY <1>2 DEF Picks
  <2>2. pos \in [Indices(new) -> Indices(ms)]
    BY <1>2 DEF Picks
  <2>3. \A p \in Indices(new) : Distinct(new[p])
    BY <2>1 DEF Coherent
  <2>4. new \in Seq(Message)
    BY <1>1 DEF new
  <2> QED BY <1>2, <2>1, <2>2, <2>3, <2>4 DEF Projects, Picks
<1> QED BY <1>3, ProjectCoherent DEF new

\* Messages whose sizes change.
Resizes(new, ms) ==
  /\ new \in Seq(Message)
  /\ Len(new) = Len(ms)
  /\ \A i \in Indices(ms) : /\ new[i].kind = ms[i].kind /\ new[i].id = ms[i].id
                            /\ new[i].calls = ms[i].calls /\ new[i].tool = ms[i].tool

LEMMA ResizeLegal ==
  ASSUME NEW ms, NEW new, Legal(ms), Resizes(new, ms)
  PROVE  Legal(new)
<1>1. Indices(new) = Indices(ms)
  BY DEF Resizes, Indices
<1>2. \A i \in Indices(ms) : /\ CallIds(new[i]) = CallIds(ms[i]) /\ new[i].id = ms[i].id
                             /\ IsResult(new[i]) <=> IsResult(ms[i])
                             /\ Distinct(new[i]) <=> Distinct(ms[i])
  BY DEF Resizes, CallIds, IsResult, Distinct
<1>3. Results(new) = Results(ms)
  BY <1>1, <1>2 DEF Results
<1>4. Results(ms) \subseteq Indices(ms)
  BY DEF Results
<1>5. Coherent(new)
  <2> DEFINE id == [i \in Indices(ms) |-> i]
  <2>1. \A i \in Indices(ms) : id[i] = i
    OBVIOUS
  <2>2. id \in [Indices(new) -> Indices(ms)]
    BY <1>1
  <2> HIDE DEF id
  <2>3. Projects(id, new, ms)
    BY <1>1, <1>2, <2>1, <2>2 DEF Projects, Resizes, Legal, Coherent
  <2> QED BY <2>3, ProjectCoherent DEF Legal
<1>6. Owned(new) /\ Answers(new)
  BY <1>1, <1>2, <1>3, <1>4 DEF Legal, Owned, Answers
<1> QED BY <1>5, <1>6 DEF Legal

--------------------------------------------------------------------------------
(* Calls and skills *)

LEMMA KeptCalls ==
  ASSUME NEW m \in Message, NEW kept
  PROVE  /\ WithCalls(m, kept) \in Message
         /\ WithCalls(m, kept).kind = m.kind /\ WithCalls(m, kept).id = m.id
         /\ WithCalls(m, kept).tool = m.tool /\ WithCalls(m, kept).size = m.size
         /\ CallIds(WithCalls(m, kept)) = {m.calls[k][1] : k \in Indices(m.calls) \cap kept}
         /\ Distinct(m) => Distinct(WithCalls(m, kept))
         /\ WithCalls(m, kept).calls = <<>> <=> Indices(m.calls) \cap kept = {}
<1> DEFINE part == At(m.calls, kept)
           new == WithCalls(m, kept)
<1>1. m.calls \in Seq(Call)
  BY DEF Message
<1>2. part \in Seq(Call) /\ \E pos : Picks(pos, part, m.calls, kept)
  BY <1>1, AtPicks
<1>3. new = [m EXCEPT !.calls = part]
  BY DEF WithCalls
<1>4. /\ new.kind = m.kind /\ new.id = m.id /\ new.tool = m.tool /\ new.size = m.size
      /\ new.calls = part
  BY <1>3 DEF Message
<1> HIDE DEF part
<1>5. PICK pos : Picks(pos, part, m.calls, kept)
  BY <1>2
<1>6. Len(part) \in Nat /\ Indices(part) = 1 .. Len(part)
  BY <1>2 DEF Indices
<1>7. part = <<>> <=> Indices(m.calls) \cap kept = {}
  <2>1. ASSUME Indices(m.calls) \cap kept = {} PROVE part = <<>>
    <3>1. Indices(part) = {}
      BY <1>5, <2>1 DEF Picks
    <3>2. Len(part) # 0 => 1 \in Indices(part)
      BY <1>6
    <3> QED BY <1>2, <3>1, <3>2
  <2>2. ASSUME part = <<>> PROVE Indices(m.calls) \cap kept = {}
    <3>1. Indices(part) = {}
      BY <2>2, <1>6
    <3> QED BY <1>5, <3>1 DEF Picks
  <2> QED BY <2>1, <2>2
<1>8. new \in Message
  <2>1. m.kind # "assistant" => part = <<>>
    <3> SUFFICES ASSUME m.kind # "assistant" PROVE part = <<>>
      OBVIOUS
    <3>1. m.calls = <<>>
      BY DEF Message
    <3>2. Indices(m.calls) = {}
      BY <3>1 DEF Indices
    <3> QED BY <1>7, <3>2
  <2> QED BY <1>2, <1>3, <2>1 DEF Message
<1>9. CallIds(new) = {m.calls[k][1] : k \in Indices(m.calls) \cap kept}
  <2>1. CallIds(new) = {part[p][1] : p \in Indices(part)}
    BY <1>4 DEF CallIds, Indices
  <2>2. \A p \in Indices(part) : pos[p] \in Indices(m.calls) \cap kept
                                 /\ part[p] = m.calls[pos[p]]
    BY <1>5 DEF Picks
  <2>3. \A i \in Indices(m.calls) \cap kept : \E p \in Indices(part) : pos[p] = i
    BY <1>5 DEF Picks
  <2> QED BY <2>1, <2>2, <2>3
<1>10. ASSUME Distinct(m) PROVE Distinct(new)
  <2>1. \A p \in Indices(part) : pos[p] \in Indices(m.calls) /\ part[p] = m.calls[pos[p]]
    BY <1>5 DEF Picks
  <2>2. \A p, q \in Indices(part) : pos[p] = pos[q] => p = q
    <3>1. \A p, q \in Indices(part) : p < q => pos[p] < pos[q]
      BY <1>5 DEF Picks
    <3>2. \A p \in Indices(part) : p \in Int /\ pos[p] \in Int
      BY <1>1, <1>6, <2>1 DEF Indices
    <3> QED BY <3>1, <3>2
  <2>3. \A p, q \in Indices(part) : part[p][1] = part[q][1] => pos[p] = pos[q]
    BY <1>10, <2>1 DEF Distinct
  <2> QED BY <1>4, <2>2, <2>3 DEF Distinct
<1> HIDE DEF new
<1> QED BY <1>4, <1>7, <1>8, <1>9, <1>10 DEF new

\* An activation is a result, and one message declares it.
LEMMA OneDeclarer ==
  ASSUME NEW ms, Coherent(ms), NEW i \in Activations(ms)
  PROVE  /\ i \in Results(ms) /\ i \in Indices(ms)
         /\ Greatest(Declares(ms, i)) \in Declares(ms, i)
         /\ \A j \in Declares(ms, i) : j = Greatest(Declares(ms, i))
         /\ Greatest(Declares(ms, i)) \in Indices(ms)
         /\ ms[i].id \in CallIds(ms[Greatest(Declares(ms, i))])
         /\ Greatest(Declares(ms, i)) < i
<1>1. i \in Results(ms) /\ i \in Indices(ms) /\ Declares(ms, i) # {}
  BY DEF Activations, Instructions, Results, IsResult
<1>2. PICK j \in Declares(ms, i) : TRUE
  BY <1>1
<1>3. j \in Indices(ms) /\ ms[i].id \in CallIds(ms[j])
  BY <1>2 DEF Declares
<1>4. \A h \in Declares(ms, i) : h = j
  BY <1>3 DEF Declares, Coherent
<1>5. j < i /\ j \in Int
  BY <1>1, <1>3 DEF Coherent, Indices
<1>6. Greatest(Declares(ms, i)) = j
  <2>1. Declares(ms, i) = {j}
    BY <1>2, <1>4
  <2>2. j <= j
    BY <1>5
  <2> QED BY <2>1, <2>2 DEF Greatest
<1> QED BY <1>1, <1>2, <1>3, <1>4, <1>5, <1>6

LEMMA DeduplicatedCoherent ==
  ASSUME NEW ms, Coherent(ms)
  PROVE  Coherent(Deduplicated(ms))
<1> DEFINE gone == Activations(ms) \ Active(ms)
           pruned == [j \in Indices(ms) |->
                        WithCalls(ms[j], Indices(ms[j].calls) \ CallsFor(ms, j, gone))]
           places == {j \in Indices(ms) \ gone : ms[j].calls = <<>> \/ pruned[j].calls # <<>>}
           new == At(pruned, places)
<1>1. Deduplicated(ms) = new
  BY DEF Deduplicated
<1>2. \A i \in gone : i \in Results(ms)
  BY OneDeclarer
<1> HIDE DEF gone
<1>3. \A j \in Indices(ms) : ms[j] \in Message /\ Distinct(ms[j])
  BY DEF Coherent, Indices
<1>4. \A j \in Indices(ms) : pruned[j] = WithCalls(ms[j], Indices(ms[j].calls) \ CallsFor(ms, j, gone))
  OBVIOUS
<1>5. pruned = [j \in 1 .. Len(ms) |-> pruned[j]]
  BY DEF Indices
<1>6. places \subseteq Indices(ms) \ gone
  OBVIOUS
<1> HIDE DEF pruned, places
<1>7. ASSUME NEW j \in Indices(ms)
      PROVE  /\ pruned[j] \in Message /\ pruned[j].kind = ms[j].kind /\ pruned[j].id = ms[j].id
             /\ Distinct(pruned[j])
             /\ CallIds(pruned[j]) \subseteq CallIds(ms[j])
             /\ \A id \in CallIds(ms[j]) :
                  (\A i \in gone : ms[i].id # id) => id \in CallIds(pruned[j])
  <2> DEFINE kept == Indices(ms[j].calls) \ CallsFor(ms, j, gone)
  <2>1. pruned[j] = WithCalls(ms[j], kept)
    BY <1>4
  <2> HIDE DEF kept
  <2>2. /\ pruned[j] \in Message /\ pruned[j].kind = ms[j].kind /\ pruned[j].id = ms[j].id
        /\ Distinct(pruned[j])
        /\ CallIds(pruned[j]) = {ms[j].calls[k][1] : k \in Indices(ms[j].calls) \cap kept}
    BY <1>3, <2>1, KeptCalls
  <2>3. CallIds(pruned[j]) \subseteq CallIds(ms[j])
    BY <2>2 DEF CallIds, Indices
  <2>4. ASSUME NEW id \in CallIds(ms[j]), \A i \in gone : ms[i].id # id
        PROVE  id \in CallIds(pruned[j])
    <3>1. PICK k \in Indices(ms[j].calls) : ms[j].calls[k][1] = id
      BY DEF CallIds, Indices
    <3>2. k \notin CallsFor(ms, j, gone)
      BY <2>4, <3>1 DEF CallsFor
    <3> QED BY <2>2, <3>1, <3>2 DEF kept
  <2> QED BY <2>2, <2>3, <2>4
<1>8. pruned \in Seq(Message) /\ Len(pruned) = Len(ms)
  <2>1. Len(ms) \in Nat
    BY DEF Coherent
  <2>2. pruned \in [1 .. Len(ms) -> Message]
    BY <1>5, <1>7 DEF Indices
  <2> QED BY <2>1, <2>2
<1>9. new \in Seq(Message) /\ \E pos : Picks(pos, new, pruned, places)
  BY <1>8, AtPicks
<1> HIDE DEF new
<1>10. PICK pos : Picks(pos, new, pruned, places)
  BY <1>9
<1>11. Indices(pruned) = Indices(ms)
  BY <1>8 DEF Indices
<1>12. \A p \in Indices(new) : pos[p] \in Indices(ms) /\ pos[p] \notin gone /\ new[p] = pruned[pos[p]]
  BY <1>6, <1>10, <1>11 DEF Picks
<1>13. pos \in [Indices(new) -> Indices(ms)]
  BY <1>10, <1>11 DEF Picks
<1>14. ASSUME NEW p \in Indices(new), NEW q \in Indices(new),
              IsResult(new[q]), new[q].id \in CallIds(ms[pos[p]])
       PROVE  new[q].id \in CallIds(new[p])
  <2>1. pos[q] \in Results(ms) /\ ms[pos[q]].id = new[q].id
    BY <1>7, <1>12, <1>14 DEF Results, IsResult
  <2>2. \A i \in gone : ms[i].id # new[q].id
    BY <1>2, <1>12, <2>1 DEF Coherent
  <2> QED BY <1>7, <1>12, <1>14, <2>2
<1>15. Projects(pos, new, ms)
  <2>1. \A p, q \in Indices(new) : p < q => pos[p] < pos[q]
    BY <1>10 DEF Picks
  <2>2. ASSUME NEW p \in Indices(new)
        PROVE  /\ new[p].kind = ms[pos[p]].kind /\ new[p].id = ms[pos[p]].id
               /\ CallIds(new[p]) \subseteq CallIds(ms[pos[p]])
               /\ Distinct(new[p])
    <3>1. pos[p] \in Indices(ms) /\ new[p] = pruned[pos[p]]
      BY <1>12
    <3> QED BY <1>7, <3>1
  <2> QED BY <1>9, <1>13, <1>14, <2>1, <2>2, Zenon DEF Projects
<1> QED BY <1>1, <1>15, ProjectCoherent

\* The selection of Active, step by step.
Choice(ms) == [chosen : SUBSET LatestActivations(ms), remaining : Int]

Take(ms, s, i) ==
  IF i \in LatestActivations(ms) /\ ms[i].size <= s.remaining
  THEN [chosen |-> s.chosen \cup {i}, remaining |-> s.remaining - ms[i].size] ELSE s

Takes(f, ms) ==
  f = [n \in 0 .. Len(ms) |-> IF n = 0 THEN [chosen |-> {}, remaining |-> MaxSkillChars]
                              ELSE Take(ms, f[n - 1], Len(ms) + 1 - n)]

LEMMA ActiveSteps ==
  ASSUME NEW ms \in Seq(Message)
  PROVE  \E f : /\ Active(ms) = f[Len(ms)].chosen
                /\ f[0] = [chosen |-> {}, remaining |-> MaxSkillChars]
                /\ \A n \in 0 .. Len(ms) : f[n] \in Choice(ms)
                /\ \A n \in 1 .. Len(ms) : f[n] = Take(ms, f[n - 1], Len(ms) + 1 - n)
<1> DEFINE base == [chosen |-> {}, remaining |-> MaxSkillChars]
           last == Len(ms)
<1>1. last \in Nat /\ base \in Choice(ms)
  BY ViewAssumption DEF Choice
<1>2. ASSUME NEW s \in Choice(ms), NEW i PROVE Take(ms, s, i) \in Choice(ms)
  <2>1. CASE i \in LatestActivations(ms) /\ ms[i].size <= s.remaining
    <3>1. i \in 1 .. Len(ms)
      BY <2>1 DEF LatestActivations, Activations, Instructions, Indices
    <3>2. ms[i].size \in Nat
      <4>1. ms[i] \in Message
        BY <3>1
      <4> QED BY <4>1 DEF Message
    <3> DEFINE size == ms[i].size
    <3> HIDE DEF size
    <3>3. [chosen |-> s.chosen \cup {i}, remaining |-> s.remaining - size] \in Choice(ms)
      BY <2>1, <3>2 DEF Choice, size
    <3> QED BY <2>1, <3>3 DEF Take, size
  <2>2. CASE ~ (i \in LatestActivations(ms) /\ ms[i].size <= s.remaining)
    BY <2>2 DEF Take
  <2> QED BY <2>1, <2>2
<1> HIDE DEF base
<1> DEFINE step == [n \in 1 .. last |-> [s \in Choice(ms) |-> Take(ms, s, last + 1 - n)]]
<1>3. step \in [1 .. last -> [Choice(ms) -> Choice(ms)]]
  BY <1>2
<1>4. \A n \in 1 .. last, s \in Choice(ms) : step[n][s] = Take(ms, s, last + 1 - n)
  OBVIOUS
<1> HIDE DEF step
<1> HIDE DEF last
<1>5. PICK f \in [0 .. last -> Choice(ms)] :
        f[0] = base /\ \A n \in 1 .. last : f[n] = step[n][f[n - 1]]
  BY <1>1, <1>3, StepsExist
<1>6. \A n \in 1 .. last : n # 0 /\ n \in 0 .. last /\ n - 1 \in 0 .. last
  BY <1>1
<1>7. \A n \in 1 .. last : f[n] = Take(ms, f[n - 1], last + 1 - n)
  BY <1>4, <1>5, <1>6
<1>8. f = [n \in 0 .. last |-> IF n = 0 THEN base ELSE Take(ms, f[n - 1], last + 1 - n)]
  <2>1. \A n \in 0 .. last : n = 0 \/ n \in 1 .. last
    BY <1>1
  <2>2. \A n \in 0 .. last : f[n] = IF n = 0 THEN base ELSE Take(ms, f[n - 1], last + 1 - n)
    BY <1>5, <1>6, <1>7, <2>1
  <2> QED BY <2>2
<1>9. Takes(f, ms)
  BY <1>8 DEF Takes, last, base
<1> DEFINE g == CHOOSE g : g =
             [n \in 0 .. Len(ms) |-> IF n = 0 THEN [chosen |-> {}, remaining |-> MaxSkillChars]
              ELSE Take(ms, g[n - 1], Len(ms) + 1 - n)]
<1>10. Takes(g, ms)
  BY <1>9 DEF Takes
<1>11. Active(ms) = g[last].chosen
  BY DEF Active, Take, last
<1> HIDE DEF g
<1>12. g = [n \in 0 .. last |-> IF n = 0 THEN base ELSE Take(ms, g[n - 1], last + 1 - n)]
  BY <1>10 DEF Takes, last, base
<1>13. g[0] = base /\ \A n \in 1 .. last : g[n] = Take(ms, g[n - 1], last + 1 - n)
  <2>1. 0 \in 0 .. last
    BY <1>1
  <2> QED BY <1>6, <1>12, <2>1
<1>14. \A n \in 0 .. last : g[n] \in Choice(ms)
  <2>1. g[0] \in Choice(ms)
    BY <1>1, <1>13
  <2>2. \A n \in 1 .. last : g[n - 1] \in Choice(ms) => g[n] \in Choice(ms)
    BY <1>2, <1>13
  <2> QED BY <1>1, <2>1, <2>2, StepsStay
<1> QED BY <1>11, <1>13, <1>14 DEF last, base

LEMMA ActiveActivated ==
  ASSUME NEW ms \in Seq(Message)
  PROVE  Active(ms) \subseteq LatestActivations(ms) /\ LatestActivations(ms) \subseteq Activations(ms)
<1>1. PICK f : /\ Active(ms) = f[Len(ms)].chosen
               /\ \A n \in 0 .. Len(ms) : f[n] \in Choice(ms)
  BY ActiveSteps
<1>2. Len(ms) \in 0 .. Len(ms)
  OBVIOUS
<1>3. f[Len(ms)] \in Choice(ms)
  BY <1>1, <1>2
<1> QED BY <1>1, <1>3 DEF Choice, LatestActivations

\* Only a message that declares nothing is a result.
LEMMA CallersAnswerNothing ==
  ASSUME NEW m \in Message
  PROVE  (\E id : id \in CallIds(m)) => m.kind = "assistant" /\ ~ IsResult(m)
<1>1. m.kind # "assistant" => m.calls = <<>>
  BY DEF Message
<1>2. m.calls = <<>> => CallIds(m) = {}
  BY DEF CallIds
<1> QED BY <1>1, <1>2 DEF IsResult

\* Where the messages of a block of ActiveSkillMessages come from: an activated skill's
\* call from its message, the activations from behind it.
Caller(ms, i) == Greatest(Declares(ms, i))
Activated(ms, j) == {i \in Active(ms) : Caller(ms, i) = j}
SkillBlock(ms, j) ==
  <<WithCalls(ms[j], CallsFor(ms, j, Activated(ms, j)))>> \o At(ms, Activated(ms, j))
Picked(ms, j) == CHOOSE pos : Picks(pos, At(ms, Activated(ms, j)), ms, Activated(ms, j))
Place(ms, j, o) == IF o = 1 THEN j ELSE Picked(ms, j)[o - 1]

\* A call of a message is that of an active skill if it is that of one whose caller the
\* message is.
LEMMA CallsAgree ==
  ASSUME NEW ms, Coherent(ms), NEW j \in Indices(ms)
  PROVE  CallsFor(ms, j, Activated(ms, j)) = CallsFor(ms, j, Active(ms))
<1>1. Activated(ms, j) \subseteq Active(ms)
  BY DEF Activated
<1>2. ASSUME NEW k \in Indices(ms[j].calls), NEW i \in Active(ms), ms[i].id = ms[j].calls[k][1]
      PROVE  i \in Activated(ms, j)
  <2>1. i \in Activations(ms)
    BY ActiveActivated DEF Coherent
  <2>2. ms[i].id \in CallIds(ms[j])
    BY <1>2 DEF CallIds, Indices
  <2>3. j \in Declares(ms, i)
    BY <2>2 DEF Declares
  <2>4. j = Caller(ms, i)
    BY <2>1, <2>3, OneDeclarer DEF Caller
  <2> QED BY <2>4 DEF Activated
<1> QED BY <1>1, <1>2 DEF CallsFor

LEMMA SkillPlaces ==
  ASSUME NEW ms, Coherent(ms), NEW j \in {Caller(ms, i) : i \in Active(ms)}
  PROVE  /\ j \in Indices(ms) /\ ms[j].kind = "assistant" /\ ~ IsResult(ms[j])
         /\ SkillBlock(ms, j) \in Seq(Message)
         /\ 1 \in Indices(SkillBlock(ms, j))
         /\ \A o \in Indices(SkillBlock(ms, j)) :
              /\ Place(ms, j, o) \in Indices(ms)
              /\ o # 1 => /\ Place(ms, j, o) \in Activated(ms, j)
                          /\ SkillBlock(ms, j)[o] = ms[Place(ms, j, o)]
                          /\ j < Place(ms, j, o)
              /\ SkillBlock(ms, j)[1] = WithCalls(ms[j], CallsFor(ms, j, Active(ms)))
         /\ \A i \in Activated(ms, j) : \E o \in Indices(SkillBlock(ms, j)) :
              o # 1 /\ Place(ms, j, o) = i
         /\ \A o, u \in Indices(SkillBlock(ms, j)) : o < u => Place(ms, j, o) < Place(ms, j, u)
<1> DEFINE mine == Activated(ms, j)
           tail == At(ms, mine)
           pos == Picked(ms, j)
           head == WithCalls(ms[j], CallsFor(ms, j, Active(ms)))
           block == SkillBlock(ms, j)
<1>1. ms \in Seq(Message) /\ Len(ms) \in Nat
  BY DEF Coherent
<1>2. \A i \in Active(ms) : i \in Activations(ms)
  BY <1>1, ActiveActivated
<1>3. PICK a \in Active(ms) : j = Caller(ms, a)
  OBVIOUS
<1>4. j \in Indices(ms) /\ ms[a].id \in CallIds(ms[j])
  BY <1>2, <1>3, OneDeclarer DEF Caller
<1>5. ms[j] \in Message
  BY <1>1, <1>4 DEF Indices
<1>6. ms[j].kind = "assistant" /\ ~ IsResult(ms[j])
  BY <1>4, <1>5, CallersAnswerNothing
<1>7. \A i \in mine : i \in Active(ms) /\ i \in Indices(ms) /\ j < i
  BY <1>2, OneDeclarer DEF Caller, Activated
<1>8. tail \in Seq(Message) /\ \E f : Picks(f, tail, ms, mine)
  BY <1>1, AtPicks
<1>9. Picks(pos, tail, ms, mine)
  BY <1>8 DEF Picked
<1>10. head \in Message
  BY <1>5, KeptCalls
<1>11. block = <<head>> \o tail
  BY <1>4, CallsAgree DEF SkillBlock
<1> HIDE DEF mine, tail, pos, head, block
<1>12. /\ block \in Seq(Message) /\ Len(tail) \in Nat /\ Len(block) = Len(tail) + 1
       /\ block[1] = head
       /\ \A o \in 1 .. Len(tail) : block[o + 1] = tail[o]
  BY <1>8, <1>10, <1>11
<1>13. 1 \in Indices(block)
  BY <1>12 DEF Indices
<1>14. \A o \in Indices(block) : o \in Int /\ (o # 1 => o - 1 \in Indices(tail) /\ (o - 1) + 1 = o)
  BY <1>12 DEF Indices
<1>15. \A o \in Indices(tail) : pos[o] \in mine /\ pos[o] \in Indices(ms) /\ tail[o] = ms[pos[o]]
  BY <1>9 DEF Picks
<1>16. ASSUME NEW o \in Indices(block), o # 1
       PROVE  /\ Place(ms, j, o) = pos[o - 1] /\ o - 1 \in Indices(tail)
              /\ Place(ms, j, o) \in mine /\ block[o] = ms[Place(ms, j, o)]
  <2>1. o - 1 \in Indices(tail) /\ (o - 1) + 1 = o
    BY <1>14, <1>16
  <2>2. Place(ms, j, o) = pos[o - 1]
    BY <1>16 DEF Place, pos
  <2>3. block[o] = tail[o - 1]
    <3>1. block[(o - 1) + 1] = tail[o - 1]
      BY <1>12, <2>1 DEF Indices
    <3> QED BY <2>1, <3>1
  <2> QED BY <1>15, <2>1, <2>2, <2>3
<1>17. ASSUME NEW i \in mine
       PROVE  \E o \in Indices(block) : o # 1 /\ Place(ms, j, o) = i
  <2>1. PICK o \in Indices(tail) : pos[o] = i
    BY <1>7, <1>9 DEF Picks
  <2>2. o + 1 \in Indices(block) /\ o + 1 # 1 /\ (o + 1) - 1 = o
    BY <1>12, <2>1 DEF Indices
  <2>3. Place(ms, j, o + 1) = pos[(o + 1) - 1]
    BY <1>16, <2>2
  <2> QED BY <2>1, <2>2, <2>3
<1>18. ASSUME NEW o \in Indices(block), NEW u \in Indices(block), o < u
       PROVE  Place(ms, j, o) < Place(ms, j, u)
  <2>1. o \in Int /\ u \in Int /\ 1 <= o /\ u # 1
    BY <1>12, <1>18 DEF Indices
  <2>2. CASE o = 1
    <3>1. Place(ms, j, o) = j
      BY <2>2 DEF Place
    <3> QED BY <1>7, <1>16, <2>1, <3>1
  <2>3. CASE o # 1
    <3>1. o - 1 < u - 1
      BY <1>18, <2>1
    <3> QED BY <1>9, <1>16, <2>1, <2>3, <3>1 DEF Picks
  <2> QED BY <2>2, <2>3
<1>19. \A o \in Indices(block) : Place(ms, j, o) \in Indices(ms)
  <2>1. Place(ms, j, 1) = j
    BY DEF Place
  <2> QED BY <1>4, <1>7, <1>16, <2>1
<1>20. \A o \in Indices(block) : o # 1 => j < Place(ms, j, o)
  BY <1>7, <1>16
<1> QED BY <1>4, <1>6, <1>12, <1>13, <1>16, <1>17, <1>18, <1>19, <1>20 DEF block, head, mine

LEMMA SkillBlockProjects ==
  ASSUME NEW ms, Coherent(ms), NEW j \in {Caller(ms, i) : i \in Active(ms)},
         NEW o \in Indices(SkillBlock(ms, j))
  PROVE  LET new == SkillBlock(ms, j)[o]
             old == ms[Place(ms, j, o)]
         IN /\ new \in Message /\ new.kind = old.kind /\ new.id = old.id /\ Distinct(new)
            /\ CallIds(new) \subseteq CallIds(old)
            /\ \A i \in Active(ms) : ms[i].id \in CallIds(old) => ms[i].id \in CallIds(new)
            /\ IsResult(new) => o # 1
<1> DEFINE new == SkillBlock(ms, j)[o]
           old == ms[Place(ms, j, o)]
<1>1. /\ j \in Indices(ms) /\ ~ IsResult(ms[j])
      /\ Place(ms, j, o) \in Indices(ms)
      /\ o # 1 => new = old
      /\ SkillBlock(ms, j)[1] = WithCalls(ms[j], CallsFor(ms, j, Active(ms)))
  BY SkillPlaces
<1>2. \A i \in Indices(ms) : ms[i] \in Message /\ Distinct(ms[i])
  BY DEF Coherent, Indices
<1>3. CASE o # 1
  BY <1>1, <1>2, <1>3
<1>4. CASE o = 1
  <2> DEFINE kept == CallsFor(ms, j, Active(ms))
             m == ms[j]
  <2>1. new = WithCalls(m, kept) /\ old = m /\ m \in Message /\ Distinct(m)
    BY <1>1, <1>2, <1>4 DEF Place
  <2> HIDE DEF new, old
  <2>2. \A id : (\E k \in Indices(m.calls) \cap kept : m.calls[k][1] = id)
                  <=> (id \in CallIds(m) /\ \E i \in Active(ms) : ms[i].id = id)
    BY DEF CallsFor, CallIds, Indices
  <2>3. ~ IsResult(m)
    BY <1>1
  <2> HIDE DEF kept, m
  <2>4. /\ new \in Message /\ new.kind = m.kind /\ new.id = m.id /\ Distinct(new)
        /\ CallIds(new) = {m.calls[k][1] : k \in Indices(m.calls) \cap kept}
    BY <2>1, KeptCalls
  <2>5. ~ IsResult(new)
    BY <2>3, <2>4 DEF IsResult
  <2>6. \A id : id \in CallIds(new) <=> (id \in CallIds(m) /\ \E i \in Active(ms) : ms[i].id = id)
    BY <2>2, <2>4
  <2>7. CallIds(new) \subseteq CallIds(m)
    BY <2>6
  <2>8. \A i \in Active(ms) : ms[i].id \in CallIds(m) => ms[i].id \in CallIds(new)
    BY <2>6
  <2> QED BY <2>1, <2>4, <2>5, <2>7, <2>8 DEF new, old
<1> QED BY <1>3, <1>4

\* What is left of covered history: the active skills and their calls.
LEMMA SkillMessages ==
  ASSUME NEW ms, Coherent(ms)
  PROVE  \E src : /\ Projects(src, ActiveSkillMessages(ms), ms)
                  /\ \A p \in Results(ActiveSkillMessages(ms)) :
                       src[p] \in Active(ms) /\ ActiveSkillMessages(ms)[p] = ms[src[p]]
                  /\ \A i \in Active(ms) : \E p \in Results(ActiveSkillMessages(ms)) : src[p] = i
                  /\ Owned(ActiveSkillMessages(ms))
<1> DEFINE callers == {Caller(ms, i) : i \in Active(ms)}
           blocks == [j \in Indices(ms) |-> IF j \in callers THEN SkillBlock(ms, j) ELSE <<>>]
           new == FlattenSeq(blocks)
<1>1. ActiveSkillMessages(ms) = new
  <2> DEFINE shown == [j \in Indices(ms) |->
                         IF Activated(ms, j) # {} THEN SkillBlock(ms, j) ELSE <<>>]
  <2>1. ActiveSkillMessages(ms) = FlattenSeq(shown)
    BY DEF ActiveSkillMessages, SkillBlock, Activated, Caller
  <2>2. \A j \in Indices(ms) : Activated(ms, j) # {} <=> j \in callers
    BY DEF Activated
  <2>3. shown = blocks
    BY <2>2
  <2> QED BY <2>1, <2>3
<1>2. ms \in Seq(Message) /\ Len(ms) \in Nat
  BY DEF Coherent
<1>3. \A j \in Indices(ms) : /\ blocks[j] \in Seq(Message)
                             /\ j \in callers => blocks[j] = SkillBlock(ms, j)
                             /\ j \notin callers => Len(blocks[j]) = 0
  BY SkillPlaces
<1>4. blocks = [j \in 1 .. Len(ms) |-> blocks[j]]
  BY DEF Indices
<1> HIDE DEF blocks
<1>5. blocks \in Seq(Seq(Message)) /\ Indices(blocks) = Indices(ms)
  <2>1. blocks \in [1 .. Len(ms) -> Seq(Message)]
    BY <1>3, <1>4 DEF Indices
  <2> QED BY <1>2, <2>1 DEF Indices
<1>6. new \in Seq(Message) /\ \E blk, off : Splits(blk, off, new, blocks)
  BY <1>5, FlattenSplits
<1> HIDE DEF new
<1>7. PICK blk, off : Splits(blk, off, new, blocks)
  BY <1>6
<1> DEFINE src == [p \in Indices(new) |-> Place(ms, blk[p], off[p])]
<1>8. \A p \in Indices(new) : src[p] = Place(ms, blk[p], off[p])
  OBVIOUS
<1>9. ASSUME NEW p \in Indices(new)
      PROVE  /\ blk[p] \in callers /\ off[p] \in Indices(SkillBlock(ms, blk[p]))
             /\ new[p] = SkillBlock(ms, blk[p])[off[p]]
             /\ blk[p] \in Indices(ms)
  <2>1. /\ blk[p] \in Indices(ms) /\ off[p] \in Indices(blocks[blk[p]])
        /\ new[p] = blocks[blk[p]][off[p]]
    BY <1>5, <1>7 DEF Splits
  <2>2. blk[p] \in callers
    <3> SUFFICES ASSUME blk[p] \notin callers PROVE FALSE
      OBVIOUS
    <3>1. Len(blocks[blk[p]]) = 0
      BY <1>3, <2>1
    <3> QED BY <2>1, <3>1 DEF Indices
  <2> QED BY <1>3, <2>1, <2>2
<1>10. src \in [Indices(new) -> Indices(ms)]
  <2>1. \A p \in Indices(new) : Place(ms, blk[p], off[p]) \in Indices(ms)
    BY <1>9, SkillPlaces
  <2> QED BY <2>1
<1> HIDE DEF src
<1>11. ASSUME NEW p \in Indices(new)
       PROVE  /\ new[p] \in Message /\ new[p].kind = ms[src[p]].kind /\ new[p].id = ms[src[p]].id
              /\ Distinct(new[p])
              /\ CallIds(new[p]) \subseteq CallIds(ms[src[p]])
              /\ \A i \in Active(ms) : ms[i].id \in CallIds(ms[src[p]]) => ms[i].id \in CallIds(new[p])
              /\ IsResult(new[p]) => off[p] # 1
  BY <1>8, <1>9, SkillBlockProjects
<1>12. ASSUME NEW p \in Results(new)
       PROVE  p \in Indices(new) /\ src[p] \in Active(ms) /\ new[p] = ms[src[p]]
  <2>1. p \in Indices(new) /\ off[p] # 1
    BY <1>11 DEF Results
  <2>2. Place(ms, blk[p], off[p]) \in Activated(ms, blk[p])
        /\ SkillBlock(ms, blk[p])[off[p]] = ms[Place(ms, blk[p], off[p])]
    BY <1>9, <2>1, SkillPlaces
  <2> QED BY <1>8, <1>9, <2>1, <2>2 DEF Activated
<1>13. ASSUME NEW i \in Active(ms) PROVE \E p \in Results(new) : src[p] = i
  <2> DEFINE j == Caller(ms, i)
  <2>1. j \in callers /\ i \in Activated(ms, j)
    BY DEF Activated
  <2> HIDE DEF j
  <2>2. PICK o \in Indices(SkillBlock(ms, j)) : o # 1 /\ Place(ms, j, o) = i
    BY <2>1, SkillPlaces
  <2>3. j \in Indices(ms) /\ SkillBlock(ms, j)[o] = ms[i]
    BY <2>1, <2>2, SkillPlaces
  <2>4. blocks[j] = SkillBlock(ms, j)
    BY <1>3, <2>1, <2>3
  <2>5. PICK p \in Indices(new) : blk[p] = j /\ off[p] = o
    <3>1. \A h \in Indices(blocks) : \A u \in Indices(blocks[h]) :
            \E p \in Indices(new) : blk[p] = h /\ off[p] = u
      BY <1>7 DEF Splits
    <3>2. j \in Indices(blocks) /\ o \in Indices(blocks[j])
      BY <1>5, <2>2, <2>3, <2>4
    <3> QED BY <3>1, <3>2
  <2>6. src[p] = i /\ new[p] = ms[i]
    BY <1>8, <1>9, <2>2, <2>3, <2>5
  <2>7. IsResult(ms[i])
    BY <1>2, ActiveActivated DEF Activations, Instructions, IsResult
  <2> QED BY <2>5, <2>6, <2>7 DEF Results
<1>14. ASSUME NEW p \in Indices(new), NEW q \in Indices(new), p < q
       PROVE  src[p] < src[q]
  <2>1. blk[p] < blk[q] \/ (blk[p] = blk[q] /\ off[p] < off[q])
    BY <1>7, <1>14 DEF Splits
  <2>2. CASE blk[p] = blk[q] /\ off[p] < off[q]
    BY <1>8, <1>9, <2>2, SkillPlaces
  <2>3. CASE blk[p] < blk[q]
    <3> DEFINE j == blk[p]
               h == blk[q]
               i == src[p]
    <3>1. /\ j \in callers /\ h \in callers /\ j \in Indices(ms) /\ h \in Indices(ms)
          /\ off[p] \in Indices(SkillBlock(ms, j)) /\ off[q] \in Indices(SkillBlock(ms, h))
          /\ i = Place(ms, j, off[p]) /\ src[q] = Place(ms, h, off[q])
      BY <1>8, <1>9
    <3>2. i \in Indices(ms) /\ src[q] \in Indices(ms)
      BY <1>10
    <3>3. h = src[q] \/ h < src[q]
      <4>1. off[q] = 1 => h = src[q]
        BY <3>1 DEF Place
      <4>2. off[q] # 1 => h < src[q]
        BY <3>1, SkillPlaces
      <4> QED BY <4>1, <4>2
    <3>4. ~ IsResult(ms[h])
      BY <3>1, SkillPlaces
    <3>5. i < h
      <4>1. CASE off[p] = 1
        BY <2>3, <3>1, <4>1 DEF Place
      <4>2. CASE off[p] # 1
        <5>1. i \in Activated(ms, j)
          BY <3>1, <4>2, SkillPlaces
        <5>2. i \in Active(ms) /\ j = Caller(ms, i)
          BY <5>1 DEF Activated
        <5>3. i \in Results(ms) /\ ms[i].id \in CallIds(ms[j])
          BY <1>2, <5>2, ActiveActivated, OneDeclarer DEF Caller
        <5>4. \A k \in j + 1 .. i : IsResult(ms[k])
          BY <3>1, <5>3 DEF Coherent
        <5>5. h \notin j + 1 .. i
          BY <3>4, <5>4
        <5>6. h \in Int /\ i \in Int /\ j \in Int /\ j < h
          BY <2>3, <3>1, <3>2 DEF Indices
        <5> HIDE DEF h, i, j
        <5> QED BY <5>5, <5>6
      <4> QED BY <4>1, <4>2
    <3>6. h \in Int /\ i \in Int /\ src[q] \in Int
      BY <3>1, <3>2 DEF Indices
    <3> QED BY <3>3, <3>5, <3>6
  <2> QED BY <2>1, <2>2, <2>3
<1>15. ASSUME NEW p \in Indices(new), NEW q \in Indices(new),
              IsResult(new[q]), new[q].id \in CallIds(ms[src[p]])
       PROVE  new[q].id \in CallIds(new[p])
  <2>1. q \in Results(new)
    BY <1>15 DEF Results
  <2>2. src[q] \in Active(ms) /\ new[q].id = ms[src[q]].id
    BY <1>12, <2>1
  <2> QED BY <1>11, <1>15, <2>2
<1>16. Projects(src, new, ms)
  BY <1>6, <1>10, <1>11, <1>14, <1>15 DEF Projects
<1>17. ASSUME NEW p \in Results(new)
       PROVE  \E q \in Indices(new) : new[p].id \in CallIds(new[q])
  <2> DEFINE j == blk[p]
             i == src[p]
  <2>1. /\ p \in Indices(new) /\ off[p] # 1 /\ i \in Active(ms) /\ new[p] = ms[i]
        /\ j \in callers /\ j \in Indices(ms) /\ off[p] \in Indices(SkillBlock(ms, j))
        /\ i = Place(ms, j, off[p])
    BY <1>8, <1>9, <1>11, <1>12 DEF Results
  <2> HIDE DEF j, i
  <2>2. i \in Activated(ms, j) /\ 1 \in Indices(SkillBlock(ms, j))
    BY <2>1, SkillPlaces
  <2>3. ms[i].id \in CallIds(ms[j])
    BY <1>2, <2>1, <2>2, ActiveActivated, OneDeclarer DEF Activated, Caller
  <2>4. PICK q \in Indices(new) : blk[q] = j /\ off[q] = 1
    <3>1. \A h \in Indices(blocks) : \A u \in Indices(blocks[h]) :
            \E q \in Indices(new) : blk[q] = h /\ off[q] = u
      BY <1>7 DEF Splits
    <3>2. j \in Indices(blocks) /\ 1 \in Indices(blocks[j])
      BY <1>3, <1>5, <2>1, <2>2
    <3> QED BY <3>1, <3>2
  <2>5. src[q] = j
    BY <1>8, <2>4 DEF Place
  <2> QED BY <1>11, <2>1, <2>3, <2>4, <2>5
<1>18. Owned(new)
  BY <1>17 DEF Owned
<1> QED BY <1>1, <1>12, <1>13, <1>16, <1>18

--------------------------------------------------------------------------------
(* The conversation that is shown *)

\* What is covered ends before a user message.
CoveredWhole(ms, n) ==
  n \in 0 .. Len(ms) /\ (n < Len(ms) => ms[n + 1].kind = "user")

Shown(ms, n) == ActiveSkillMessages(SubSeq(ms, 1, n)) \o SubSeq(ms, n + 1, Len(ms))

LEMMA Parts ==
  ASSUME NEW ms \in Seq(Message), NEW n \in 0 .. Len(ms)
  PROVE  /\ SubSeq(ms, 1, n) \in Seq(Message) /\ Len(SubSeq(ms, 1, n)) = n
         /\ \A i \in 1 .. n : SubSeq(ms, 1, n)[i] = ms[i]
         /\ SubSeq(ms, n + 1, Len(ms)) \in Seq(Message)
         /\ Len(SubSeq(ms, n + 1, Len(ms))) = Len(ms) - n
         /\ \A i \in 1 .. Len(ms) - n : SubSeq(ms, n + 1, Len(ms))[i] = ms[n + i]
OBVIOUS

LEMMA PartCoherent ==
  ASSUME NEW ms, Coherent(ms), NEW n \in 0 .. Len(ms)
  PROVE  Coherent(SubSeq(ms, 1, n))
<1> DEFINE part == SubSeq(ms, 1, n)
           src == [i \in 1 .. n |-> i]
<1>1. part \in Seq(Message) /\ Len(part) = n /\ \A i \in 1 .. n : part[i] = ms[i]
  BY Parts DEF Coherent
<1>2. src \in [Indices(part) -> Indices(ms)] /\ \A i \in Indices(part) : src[i] = i
  <2>1. Len(ms) \in Nat
    BY DEF Coherent
  <2> QED BY <1>1, <2>1 DEF Indices
<1> HIDE DEF part, src
<1>3. \A i \in Indices(part) : part[i] = ms[i] /\ i \in Indices(ms)
  BY <1>1, <1>2 DEF Indices
<1>4. Projects(src, part, ms)
  BY <1>1, <1>2, <1>3 DEF Projects, Coherent
<1> QED BY <1>4, ProjectCoherent DEF part

\* What is shown of a conversation, as a projection of it: of covered history the active
\* skills, and then every message.
LEMMA ShownIs ==
  ASSUME NEW ms, Coherent(ms), NEW n, CoveredWhole(ms, n)
  PROVE  LET old == SubSeq(ms, 1, n)
             kept == ActiveSkillMessages(old)
         IN \E src : /\ Projects(src, Shown(ms, n), ms)
                     /\ \A p \in Indices(Shown(ms, n)) :
                          src[p] <= n => /\ p <= Len(kept)
                                         /\ p \in Results(kept) <=> p \in Results(Shown(ms, n))
                     /\ \A p \in Results(Shown(ms, n)) :
                          src[p] <= n => src[p] \in Active(old) /\ Shown(ms, n)[p] = ms[src[p]]
                     /\ \A p \in Indices(Shown(ms, n)) :
                          n < src[p] => Shown(ms, n)[p] = ms[src[p]]
                     /\ \A i \in Active(old) : \E p \in Results(Shown(ms, n)) : src[p] = i
                     /\ \A i \in n + 1 .. Len(ms) : \E p \in Indices(Shown(ms, n)) : src[p] = i
                     /\ Owned(ms) => Owned(Shown(ms, n))
<1> DEFINE old == SubSeq(ms, 1, n)
           kept == ActiveSkillMessages(old)
           rest == SubSeq(ms, n + 1, Len(ms))
           new == Shown(ms, n)
           m == Len(kept)
<1>1. /\ ms \in Seq(Message) /\ Len(ms) \in Nat /\ n \in 0 .. Len(ms) /\ n \in Nat
      /\ n < Len(ms) => ms[n + 1].kind = "user"
  BY DEF Coherent, CoveredWhole
<1>2. /\ old \in Seq(Message) /\ Len(old) = n /\ \A i \in 1 .. n : old[i] = ms[i]
      /\ rest \in Seq(Message) /\ Len(rest) = Len(ms) - n
      /\ \A i \in 1 .. Len(ms) - n : rest[i] = ms[n + i]
  BY <1>1, Parts
<1>3. Coherent(old)
  BY <1>1, PartCoherent
<1>5. new = kept \o rest
  BY DEF Shown
<1> HIDE DEF old, rest, new
<1>4. PICK f : /\ Projects(f, kept, old)
               /\ \A p \in Results(kept) : f[p] \in Active(old) /\ kept[p] = old[f[p]]
               /\ \A i \in Active(old) : \E p \in Results(kept) : f[p] = i
               /\ Owned(kept)
  BY <1>3, SkillMessages
<1> HIDE DEF kept
<1>6. kept \in Seq(Message) /\ m \in Nat
  BY <1>4 DEF Projects
<1>7. /\ new \in Seq(Message) /\ Len(new) = m + (Len(ms) - n)
      /\ \A i \in 1 .. m : new[i] = kept[i]
      /\ \A i \in 1 .. Len(ms) - n : new[m + i] = rest[i]
  <2>1. /\ kept \o rest \in Seq(Message) /\ Len(kept \o rest) = Len(kept) + Len(rest)
        /\ \A i \in 1 .. Len(kept) : (kept \o rest)[i] = kept[i]
        /\ \A i \in 1 .. Len(rest) : (kept \o rest)[Len(kept) + i] = rest[i]
    <3>1. kept \in Seq(Message) /\ rest \in Seq(Message)
      BY <1>2, <1>6
    <3> HIDE DEF m
    <3>2. kept \o rest \in Seq(Message) /\ Len(kept \o rest) = Len(kept) + Len(rest)
      BY <3>1, Joined
    <3>3. \A i \in 1 .. Len(kept) : (kept \o rest)[i] = kept[i]
      BY <3>1, Joined
    <3>4. \A i \in 1 .. Len(rest) : (kept \o rest)[Len(kept) + i] = rest[i]
      BY <3>1, Joined
    <3> QED BY <3>2, <3>3, <3>4
  <2>2. Len(rest) = Len(ms) - n
    BY <1>2
  <2> QED BY <1>5, <2>1, <2>2, Zenon
<1> HIDE DEF m
<1> DEFINE src == [p \in Indices(new) |-> IF p <= m THEN f[p] ELSE n + (p - m)]
<1>8. \A p \in Indices(new) : p \in Nat /\ 1 <= p /\ p <= m + (Len(ms) - n)
  BY <1>1, <1>6, <1>7 DEF Indices
<1>9. \A p \in Indices(new) : src[p] = IF p <= m THEN f[p] ELSE n + (p - m)
  OBVIOUS
<1>10. src = [p \in Indices(new) |-> src[p]]
  OBVIOUS
<1> HIDE DEF src
<1>11. Indices(kept) = 1 .. m /\ Indices(old) = 1 .. n /\ Indices(ms) = 1 .. Len(ms)
  BY <1>2 DEF Indices, m
<1>12. ASSUME NEW p \in Indices(new), p <= m
       PROVE  /\ p \in Indices(kept) /\ src[p] = f[p] /\ f[p] \in 1 .. n
              /\ new[p] = kept[p] /\ old[f[p]] = ms[src[p]]
  <2>1. p \in 1 .. m
    BY <1>6, <1>8, <1>12
  <2>2. f[p] \in 1 .. n
    BY <1>4, <1>11, <2>1 DEF Projects
  <2> QED BY <1>2, <1>7, <1>9, <1>11, <1>12, <2>1, <2>2
<1>13. ASSUME NEW p \in Indices(new), ~ (p <= m)
       PROVE  /\ src[p] = n + (p - m) /\ src[p] \in n + 1 .. Len(ms) /\ new[p] = ms[src[p]]
  <2>1. p - m \in 1 .. Len(ms) - n /\ m + (p - m) = p /\ n + (p - m) \in n + 1 .. Len(ms)
    <3> DEFINE l == Len(ms)
    <3>1. p \in Nat /\ p <= m + (l - n) /\ ~ (p <= m)
      BY <1>8, <1>13
    <3>2. m \in Nat /\ n \in Nat /\ l \in Nat /\ n <= l
      BY <1>1, <1>6
    <3> HIDE DEF l, new
    <3>3. p - m \in 1 .. l - n /\ m + (p - m) = p /\ n + (p - m) \in n + 1 .. l
      BY <3>1, <3>2
    <3> QED BY <3>3 DEF l
  <2>2. new[m + (p - m)] = rest[p - m] /\ rest[p - m] = ms[n + (p - m)]
    BY <1>2, <1>7, <2>1
  <2> QED BY <1>9, <1>13, <2>1, <2>2
<1>14. \A p \in Indices(new) : /\ src[p] \in 1 .. Len(ms) /\ src[p] \in Int
                               /\ src[p] <= n <=> p <= m
                               /\ n < src[p] <=> ~ (p <= m)
  BY <1>1, <1>12, <1>13
<1>15. src \in [Indices(new) -> Indices(ms)]
  BY <1>10, <1>11, <1>14
<1>16. ASSUME NEW p \in Indices(new), NEW q \in Indices(new), p < q PROVE src[p] < src[q]
  <2>1. CASE q <= m
    <3>1. p <= m
      BY <1>6, <1>8, <1>16, <2>1
    <3> QED BY <1>4, <1>12, <1>16, <2>1, <3>1 DEF Projects
  <2>2. CASE ~ (q <= m) /\ p <= m
    BY <1>1, <1>14, <2>2
  <2>3. CASE ~ (q <= m) /\ ~ (p <= m)
    BY <1>1, <1>6, <1>8, <1>13, <1>16, <2>3
  <2> QED BY <2>1, <2>2, <2>3
<1>17. ASSUME NEW p \in Indices(new)
       PROVE  /\ new[p].kind = ms[src[p]].kind /\ new[p].id = ms[src[p]].id
              /\ CallIds(new[p]) \subseteq CallIds(ms[src[p]])
              /\ Distinct(new[p])
  <2>1. CASE p <= m
    BY <1>4, <1>12, <2>1 DEF Projects
  <2>2. CASE ~ (p <= m)
    <3>1. src[p] \in Indices(ms) /\ new[p] = ms[src[p]]
      BY <1>11, <1>13, <1>14, <2>2
    <3> QED BY <3>1 DEF Coherent
  <2> QED BY <2>1, <2>2
<1>18. ASSUME NEW p \in Indices(new), NEW q \in Indices(new),
              IsResult(new[q]), new[q].id \in CallIds(ms[src[p]])
       PROVE  new[q].id \in CallIds(new[p])
  <2>1. CASE ~ (p <= m)
    BY <1>13, <1>18, <2>1
  <2>2. CASE p <= m /\ q <= m
    <3>1. p \in Indices(kept) /\ q \in Indices(kept) /\ new[p] = kept[p] /\ new[q] = kept[q]
          /\ old[f[p]] = ms[src[p]]
      BY <1>12, <2>2
    <3> QED BY <1>4, <1>18, <3>1 DEF Projects
  <2>3. CASE p <= m /\ ~ (q <= m)
    <3>1. new[q] = ms[src[q]] /\ src[q] \in Indices(ms) /\ src[p] \in Indices(ms)
      BY <1>11, <1>13, <1>14, <2>3
    <3>2. src[q] \in Results(ms)
      BY <1>18, <3>1 DEF Results
    <3>3. \A k \in src[p] + 1 .. src[q] : IsResult(ms[k])
      BY <1>18, <3>1, <3>2 DEF Coherent
    <3>4. n + 1 \in src[p] + 1 .. src[q] /\ n < Len(ms)
      BY <1>1, <1>14, <2>3
    <3>5. IsResult(ms[n + 1]) /\ ms[n + 1].kind = "user"
      BY <1>1, <3>3, <3>4
    <3> QED BY <3>5 DEF IsResult
  <2> QED BY <2>1, <2>2, <2>3
<1>19. Projects(src, new, ms)
  BY <1>7, <1>15, <1>16, <1>17, <1>18 DEF Projects
<1>20. \A p \in Indices(new) : src[p] <= n => p <= m /\ (p \in Results(kept) <=> p \in Results(new))
  BY <1>12, <1>14 DEF Results
<1>21. \A p \in Results(new) : p \in Indices(new)
  BY DEF Results
<1>22. \A p \in Results(new) : src[p] <= n => src[p] \in Active(old) /\ new[p] = ms[src[p]]
  <2> SUFFICES ASSUME NEW p \in Results(new), src[p] <= n
               PROVE  src[p] \in Active(old) /\ new[p] = ms[src[p]]
    OBVIOUS
  <2>1. p \in Indices(new) /\ p <= m /\ p \in Results(kept)
    BY <1>20, <1>21
  <2> QED BY <1>4, <1>12, <2>1
<1>23. \A p \in Indices(new) : n < src[p] => new[p] = ms[src[p]]
  BY <1>13, <1>14
<1>24. ASSUME NEW i \in Active(old) PROVE \E p \in Results(new) : src[p] = i
  <2>1. PICK p \in Results(kept) : f[p] = i
    BY <1>4
  <2>2. p \in 1 .. m /\ IsResult(kept[p])
    BY <1>11, <2>1 DEF Results
  <2>3. p \in Indices(new) /\ p <= m
    BY <1>1, <1>6, <1>7, <2>2 DEF Indices
  <2> QED BY <1>12, <2>1, <2>2, <2>3 DEF Results
<1>25. ASSUME NEW i \in n + 1 .. Len(ms) PROVE \E p \in Indices(new) : src[p] = i
  <2> DEFINE p == m + (i - n)
  <2>1. p \in Indices(new) /\ ~ (p <= m) /\ n + (p - m) = i
    BY <1>1, <1>6, <1>7 DEF Indices
  <2> HIDE DEF p
  <2> QED BY <1>13, <2>1
<1>26. ASSUME Owned(ms), NEW p \in Results(new)
       PROVE  \E q \in Indices(new) : new[p].id \in CallIds(new[q])
  <2>1. p \in Indices(new) /\ IsResult(new[p])
    BY DEF Results
  <2>2. CASE p <= m
    <3>1. p \in Results(kept) /\ new[p] = kept[p]
      BY <1>12, <2>1, <2>2 DEF Results
    <3>2. PICK q \in Indices(kept) : kept[p].id \in CallIds(kept[q])
      BY <1>4, <3>1 DEF Owned
    <3>3. q \in 1 .. m
      BY <1>11, <3>2
    <3>4. q \in Indices(new) /\ new[q] = kept[q]
      BY <1>1, <1>6, <1>7, <3>3 DEF Indices
    <3> QED BY <3>1, <3>2, <3>4
  <2>3. CASE ~ (p <= m)
    <3>1. /\ src[p] \in n + 1 .. Len(ms) /\ new[p] = ms[src[p]]
          /\ src[p] \in Indices(ms) /\ src[p] \in Results(ms)
      BY <1>11, <1>13, <1>14, <2>1, <2>3 DEF Results
    <3>2. PICK j \in Indices(ms) : ms[src[p]].id \in CallIds(ms[j])
      BY <1>26, <3>1 DEF Owned
    <3>3. j < src[p] /\ \A k \in j + 1 .. src[p] : IsResult(ms[k])
      BY <3>1, <3>2 DEF Coherent
    <3>4. j \in 1 .. Len(ms)
      BY <1>11, <3>2
    <3>5. n < j
      <4> SUFFICES ASSUME ~ (n < j) PROVE FALSE
        OBVIOUS
      <4>1. n + 1 \in j + 1 .. src[p] /\ n < Len(ms)
        BY <1>1, <3>1, <3>4
      <4>2. IsResult(ms[n + 1]) /\ ms[n + 1].kind = "user"
        BY <1>1, <3>3, <4>1
      <4> QED BY <4>2 DEF IsResult
    <3>6. PICK q \in Indices(new) : src[q] = j
      BY <1>1, <1>25, <3>4, <3>5
    <3>7. new[q] = ms[j]
      BY <1>23, <3>5, <3>6
    <3> QED BY <3>1, <3>2, <3>6, <3>7
  <2> QED BY <2>2, <2>3
<1>27. Owned(ms) => Owned(new)
  BY <1>26 DEF Owned
<1> HIDE DEF src
<1> QED BY <1>19, <1>20, <1>22, <1>23, <1>24, <1>25, <1>27 DEF new, old, kept, m

LEMMA ShownCoherent ==
  ASSUME NEW ms, Coherent(ms), NEW n, CoveredWhole(ms, n)
  PROVE  Coherent(Shown(ms, n))
<1> DEFINE new == Shown(ms, n)
<1> HIDE DEF new
<1>1. \E src : Projects(src, new, ms)
  BY ShownIs DEF new
<1>2. Coherent(new)
  BY <1>1, ProjectCoherent
<1> QED BY <1>2 DEF new

--------------------------------------------------------------------------------
(* Protocol repair *)

LEMMA DroppedOwned ==
  ASSUME NEW ms, Coherent(ms)
  PROVE  Coherent(DropOrphanToolResults(ms)) /\ Owned(DropOrphanToolResults(ms))
<1> DEFINE places == {i \in Indices(ms) : i \in Results(ms) => \E j \in Declares(ms, i) : j < i}
           new == At(ms, places)
<1>1. DropOrphanToolResults(ms) = new
  BY DEF DropOrphanToolResults
<1>2. Coherent(new)
  BY AtCoherent
<1>3. \E pos : Picks(pos, new, ms, places)
  BY AtPicks DEF Coherent
<1> HIDE DEF new
<1>4. PICK pos : Picks(pos, new, ms, places)
  BY <1>3
<1>5. \A p \in Indices(new) : pos[p] \in places /\ pos[p] \in Indices(ms) /\ new[p] = ms[pos[p]]
  BY <1>4 DEF Picks
<1>6. \A i \in places : i \in Indices(ms) /\ \E p \in Indices(new) : pos[p] = i
  BY <1>4 DEF Picks
<1>7. ASSUME NEW p \in Results(new)
      PROVE  \E q \in Indices(new) : new[p].id \in CallIds(new[q])
  <2>1. pos[p] \in places /\ pos[p] \in Results(ms) /\ new[p] = ms[pos[p]]
    BY <1>5 DEF Results
  <2>2. PICK j \in Declares(ms, pos[p]) : j < pos[p]
    BY <2>1
  <2>3. j \in Indices(ms) /\ ms[pos[p]].id \in CallIds(ms[j])
    BY <2>2 DEF Declares
  <2>4. ms[j] \in Message
    BY <2>3 DEF Coherent, Indices
  <2>5. j \notin Results(ms)
    BY <2>3, <2>4, CallersAnswerNothing DEF Results
  <2>6. PICK q \in Indices(new) : pos[q] = j
    BY <1>6, <2>3, <2>5
  <2> QED BY <1>5, <2>1, <2>3, <2>6
<1> QED BY <1>1, <1>2, <1>7 DEF Owned

\* What BackfillMissingToolResults puts behind message j.
BackfillBlock(ms, j) ==
  <<ms[j]>> \o [k \in 1 .. Len(Missing(ms, j)) |-> Backfilled(Missing(ms, j)[k])]

FillsGaps(block, ms, j) ==
  \A id \in CallIds(ms[j]) : (\A i \in Results(ms) : ms[i].id # id) =>
    \E o \in Indices(block) : o # 1 /\ block[o].id = id

\* No id comes twice, so that a result is missing of every call that has none.
LEMMA MissingIs ==
  ASSUME NEW ms, Coherent(ms), NEW j \in Indices(ms)
  PROVE  Missing(ms, j) =
           At(ms[j].calls, Indices(ms[j].calls) \ CallsFor(ms, j, Results(ms)))
<1> DEFINE calls == ms[j].calls
           kept == Indices(calls) \ CallsFor(ms, j, Results(ms))
<1>1. ms[j] \in Message /\ Distinct(ms[j]) /\ Len(ms) \in Nat /\ j \in 1 .. Len(ms)
  BY DEF Coherent, Indices
<1>2. calls \in Seq(Call) /\ Len(calls) \in Nat
  <2>1. \A m \in Message : m.calls \in Seq(Call)
    BY DEF Message
  <2>2. calls \in Seq(Call)
    BY <1>1, <2>1
  <2> QED BY <2>2
<1>3. ASSUME NEW k \in Indices(calls) PROVE calls[k][1] \notin IdsBefore(ms, j, k)
  <2>1. k \in 1 .. Len(calls) /\ calls[k][1] \in CallIds(ms[j])
    BY DEF Indices, CallIds
  <2>2. ASSUME NEW i \in 1 .. j - 1 PROVE calls[k][1] \notin CallIds(ms[i])
    <3>1. i \in Indices(ms) /\ i # j
      BY <1>1 DEF Indices
    <3> QED BY <2>1, <3>1 DEF Coherent
  <2>3. ASSUME NEW l \in 1 .. k - 1 PROVE calls[l][1] # calls[k][1]
    <3>1. l \in Indices(calls) /\ l # k
      BY <1>2, <2>1 DEF Indices
    <3> QED BY <1>1, <3>1 DEF Distinct
  <2> QED BY <2>2, <2>3 DEF IdsBefore
<1>4. {k \in kept : calls[k][1] \notin IdsBefore(ms, j, k)} = kept
  BY <1>3
<1> QED BY <1>4 DEF Missing

LEMMA BackfillBlockIs ==
  ASSUME NEW ms, Coherent(ms), NEW j \in Indices(ms)
  PROVE  /\ BackfillBlock(ms, j) \in Seq(Message)
         /\ 1 \in Indices(BackfillBlock(ms, j)) /\ BackfillBlock(ms, j)[1] = ms[j]
         /\ \A o \in Indices(BackfillBlock(ms, j)) : o # 1 =>
              LET m == BackfillBlock(ms, j)[o]
              IN /\ m.kind = "backfilled" /\ IsResult(m) /\ m.calls = <<>> /\ CallIds(m) = {}
                 /\ m.id \in CallIds(ms[j])
                 /\ \A i \in Results(ms) : ms[i].id # m.id
         /\ \A o, u \in Indices(BackfillBlock(ms, j)) :
              (o # 1 /\ u # 1 /\ BackfillBlock(ms, j)[o].id = BackfillBlock(ms, j)[u].id) => o = u
         /\ FillsGaps(BackfillBlock(ms, j), ms, j)
<1> DEFINE calls == ms[j].calls
           kept == Indices(calls) \ CallsFor(ms, j, Results(ms))
           missing == Missing(ms, j)
           tail == [k \in 1 .. Len(missing) |-> Backfilled(missing[k])]
           block == BackfillBlock(ms, j)
<1>1. ms[j] \in Message /\ Distinct(ms[j])
  BY DEF Coherent, Indices
<1>2. calls \in Seq(Call)
  BY <1>1 DEF Message
<1>3. missing = At(calls, kept)
  BY MissingIs
<1>4. \A k \in kept : k \in Indices(calls) /\ \A i \in Results(ms) : ms[i].id # calls[k][1]
  BY DEF CallsFor
<1>5. \A k \in Indices(calls) : (\A i \in Results(ms) : ms[i].id # calls[k][1]) => k \in kept
  BY DEF CallsFor
<1>6. CallIds(ms[j]) = {calls[k][1] : k \in Indices(calls)}
  BY DEF CallIds, Indices
<1>7. \A k, l \in Indices(calls) : calls[k][1] = calls[l][1] => k = l
  BY <1>1 DEF Distinct
<1>8. block = <<ms[j]>> \o tail
  BY DEF BackfillBlock
<1> HIDE DEF kept, missing, block, calls
<1>9. missing \in Seq(Call) /\ \E pos : Picks(pos, missing, calls, kept)
  BY <1>2, <1>3, AtPicks
<1>10. PICK pos : Picks(pos, missing, calls, kept)
  BY <1>9
<1>11. Len(missing) \in Nat /\ Indices(missing) = 1 .. Len(missing)
  BY <1>9 DEF Indices
<1>12. \A k \in Indices(missing) : /\ pos[k] \in kept /\ pos[k] \in Indices(calls)
                                   /\ missing[k] = calls[pos[k]]
  BY <1>10 DEF Picks
<1>13. \A k, l \in Indices(missing) : pos[k] = pos[l] => k = l
  <2>1. \A k \in Indices(missing) : k \in Int /\ pos[k] \in Int
    BY <1>2, <1>11, <1>12 DEF Indices
  <2>2. \A k, l \in Indices(missing) : k < l => pos[k] < pos[l]
    BY <1>10 DEF Picks
  <2> QED BY <2>1, <2>2
<1>14. \A k \in 1 .. Len(missing) :
         /\ tail[k] \in Message /\ tail[k].kind = "backfilled" /\ tail[k].id = missing[k][1]
         /\ tail[k].calls = <<>>
  <2> SUFFICES ASSUME NEW k \in 1 .. Len(missing)
               PROVE  LET m == Backfilled(missing[k])
                      IN /\ m \in Message /\ m.kind = "backfilled" /\ m.id = missing[k][1]
                         /\ m.calls = <<>>
    OBVIOUS
  <2>1. missing[k] \in Call
    BY <1>9
  <2> DEFINE c == missing[k]
  <2>2. c \in Call
    BY <2>1
  <2> HIDE DEF c
  <2>3. c[1] \in Ids /\ c[2] \in DOMAIN Tools
    BY <2>2 DEF Call
  <2>4. Backfilled(c) = [kind |-> "backfilled", id |-> c[1], calls |-> <<>>, tool |-> c[2], size |-> 1]
    BY DEF Backfilled, Result
  <2>5. <<>> \in Seq(Call) /\ 1 \in Nat \ {0}
    OBVIOUS
  <2>6. Backfilled(c) \in Message /\ Backfilled(c).kind = "backfilled"
        /\ Backfilled(c).id = c[1] /\ Backfilled(c).calls = <<>>
    <3>1. ASSUME NEW x \in Ids, NEW y \in DOMAIN Tools
          PROVE  [kind |-> "backfilled", id |-> x, calls |-> <<>>, tool |-> y, size |-> 1] \in Message
      BY <2>5 DEF Message
    <3> QED BY <2>3, <2>4, <3>1
  <2> QED BY <2>6 DEF c
<1>15. tail \in Seq(Message) /\ Len(tail) = Len(missing)
  BY <1>11, <1>14
<1> HIDE DEF tail
<1>16. /\ block \in Seq(Message) /\ Len(block) = Len(missing) + 1
       /\ block[1] = ms[j]
       /\ \A k \in 1 .. Len(missing) : block[k + 1] = tail[k]
  BY <1>1, <1>8, <1>15
<1>17. 1 \in Indices(block)
  BY <1>11, <1>16 DEF Indices
<1>18. ASSUME NEW o \in Indices(block), o # 1
       PROVE  /\ o - 1 \in Indices(missing) /\ block[o] = tail[o - 1] /\ o \in Int
  <2>1. o - 1 \in 1 .. Len(missing) /\ (o - 1) + 1 = o
    BY <1>11, <1>16, <1>18 DEF Indices
  <2>2. block[(o - 1) + 1] = tail[o - 1]
    BY <1>16, <2>1
  <2> QED BY <1>11, <2>1, <2>2
<1>19. ASSUME NEW o \in Indices(block), o # 1
       PROVE  /\ block[o].kind = "backfilled" /\ IsResult(block[o]) /\ block[o].calls = <<>>
              /\ CallIds(block[o]) = {}
              /\ block[o].id = calls[pos[o - 1]][1]
  <2>1. o - 1 \in 1 .. Len(missing) /\ block[o] = tail[o - 1]
    BY <1>11, <1>18, <1>19
  <2>2. block[o].kind = "backfilled" /\ block[o].calls = <<>> /\ block[o].id = calls[pos[o - 1]][1]
    BY <1>11, <1>12, <1>14, <2>1
  <2> QED BY <2>2 DEF CallIds, IsResult
<1>20. ASSUME NEW o \in Indices(block), o # 1
       PROVE  /\ block[o].id \in CallIds(ms[j])
              /\ \A i \in Results(ms) : ms[i].id # block[o].id
  <2>1. pos[o - 1] \in kept /\ pos[o - 1] \in Indices(calls)
    BY <1>12, <1>18, <1>20
  <2> QED BY <1>4, <1>6, <1>19, <1>20, <2>1
<1>21. ASSUME NEW o \in Indices(block), NEW u \in Indices(block), o # 1, u # 1,
              block[o].id = block[u].id
       PROVE  o = u
  <2>1. /\ o - 1 \in Indices(missing) /\ u - 1 \in Indices(missing)
        /\ pos[o - 1] \in Indices(calls) /\ pos[u - 1] \in Indices(calls)
        /\ calls[pos[o - 1]][1] = calls[pos[u - 1]][1] /\ o \in Int /\ u \in Int
    BY <1>12, <1>18, <1>19, <1>21
  <2>2. o - 1 = u - 1
    BY <1>7, <1>13, <2>1
  <2> QED BY <2>1, <2>2
<1>22. ASSUME NEW id \in CallIds(ms[j]), \A i \in Results(ms) : ms[i].id # id
       PROVE  \E o \in Indices(block) : o # 1 /\ block[o].id = id
  <2>1. PICK k \in Indices(calls) : calls[k][1] = id
    BY <1>6
  <2>2. k \in kept
    BY <1>5, <1>22, <2>1
  <2>3. PICK l \in Indices(missing) : pos[l] = k
    BY <1>10, <2>1, <2>2 DEF Picks
  <2>4. l + 1 \in Indices(block) /\ l + 1 # 1 /\ (l + 1) - 1 = l
    BY <1>11, <1>16, <2>3 DEF Indices
  <2>5. block[l + 1].id = calls[pos[(l + 1) - 1]][1]
    BY <1>19, <2>4
  <2> QED BY <2>1, <2>3, <2>4, <2>5
<1> QED BY <1>16, <1>17, <1>19, <1>20, <1>21, <1>22 DEF block, FillsGaps

\* Behind the repair, every call has its result and every result its call.
LEMMA BackfillLegal ==
  ASSUME NEW ms, Coherent(ms), Owned(ms)
  PROVE  Legal(BackfillMissingToolResults(ms))
<1> DEFINE blocks == [j \in Indices(ms) |-> BackfillBlock(ms, j)]
           new == FlattenSeq(blocks)
<1>1. BackfillMissingToolResults(ms) = new
  BY DEF BackfillMissingToolResults, BackfillBlock
<1>2. ms \in Seq(Message) /\ Len(ms) \in Nat
  BY DEF Coherent
<1>3. \A j \in Indices(ms) : blocks[j] = BackfillBlock(ms, j) /\ blocks[j] \in Seq(Message)
  BY BackfillBlockIs
<1>4. blocks = [j \in 1 .. Len(ms) |-> blocks[j]]
  BY DEF Indices
<1> HIDE DEF blocks
<1>5. blocks \in Seq(Seq(Message)) /\ Indices(blocks) = Indices(ms)
  <2>1. blocks \in [1 .. Len(ms) -> Seq(Message)]
    BY <1>3, <1>4 DEF Indices
  <2> QED BY <1>2, <2>1 DEF Indices
<1>6. new \in Seq(Message) /\ \E blk, off : Splits(blk, off, new, blocks)
  BY <1>5, FlattenSplits
<1> HIDE DEF new
<1>7. PICK blk, off : Splits(blk, off, new, blocks)
  BY <1>6
<1>8. \A p \in Indices(new) : /\ blk[p] \in Indices(ms) /\ off[p] \in Indices(BackfillBlock(ms, blk[p]))
                              /\ new[p] = BackfillBlock(ms, blk[p])[off[p]]
  BY <1>3, <1>5, <1>7 DEF Splits
<1>9. \A j \in Indices(ms) : \A o \in Indices(BackfillBlock(ms, j)) :
        \E p \in Indices(new) : blk[p] = j /\ off[p] = o
  <2>1. \A j \in Indices(blocks) : \A o \in Indices(blocks[j]) :
          \E p \in Indices(new) : blk[p] = j /\ off[p] = o
    BY <1>7 DEF Splits
  <2> QED BY <1>3, <1>5, <2>1
<1>10. /\ Len(new) \in Nat
       /\ \A p \in Indices(new) : p \in Int /\ blk[p] \in Int /\ off[p] \in Int
  BY <1>6, <1>7, <1>8 DEF Indices, Splits
<1>11. \A p, q \in Indices(new) : p < q => blk[p] < blk[q] \/ (blk[p] = blk[q] /\ off[p] < off[q])
  BY <1>7 DEF Splits
<1>12. \A p, q \in Indices(new) : blk[p] = blk[q] /\ off[p] = off[q] => p = q
  BY <1>10, <1>11
<1>13. ASSUME NEW p \in Indices(new)
       PROVE  /\ off[p] = 1 => new[p] = ms[blk[p]]
              /\ off[p] # 1 => /\ IsResult(new[p]) /\ new[p].calls = <<>> /\ CallIds(new[p]) = {}
                               /\ new[p].id \in CallIds(ms[blk[p]])
                               /\ \A i \in Results(ms) : ms[i].id # new[p].id
  BY <1>8, BackfillBlockIs
<1>14. \A j \in Indices(ms) : \E p \in Indices(new) : blk[p] = j /\ off[p] = 1
  BY <1>9, BackfillBlockIs
<1>15. \A j \in Indices(ms) : ms[j] \in Message /\ Distinct(ms[j])
  BY <1>2 DEF Indices, Coherent
<1>16. \A p \in Indices(new) : \A id \in CallIds(new[p]) : off[p] = 1 /\ id \in CallIds(ms[blk[p]])
  BY <1>13
<1>17. \A p \in Results(new) : p \in Indices(new) /\ IsResult(new[p])
                               /\ (off[p] = 1 => blk[p] \in Results(ms))
  BY <1>8, <1>13 DEF Results
<1>18. \A p \in Indices(new) : Distinct(new[p])
  <2> SUFFICES ASSUME NEW p \in Indices(new) PROVE Distinct(new[p])
    OBVIOUS
  <2>1. CASE off[p] = 1
    BY <1>8, <1>13, <1>15, <2>1
  <2>2. CASE off[p] # 1
    <3>1. new[p].calls = <<>>
      BY <1>13, <2>2
    <3> QED BY <3>1 DEF Distinct, Indices
  <2> QED BY <2>1, <2>2
<1>19. \A p, q \in Indices(new) : \A id \in CallIds(new[p]) : id \in CallIds(new[q]) => p = q
  <2> SUFFICES ASSUME NEW p \in Indices(new), NEW q \in Indices(new),
                      NEW id \in CallIds(new[p]), id \in CallIds(new[q])
               PROVE  p = q
    OBVIOUS
  <2>1. off[p] = 1 /\ off[q] = 1 /\ id \in CallIds(ms[blk[p]]) /\ id \in CallIds(ms[blk[q]])
    BY <1>16
  <2>2. blk[p] = blk[q]
    BY <1>8, <2>1 DEF Coherent
  <2> QED BY <1>12, <2>1, <2>2
<1>20. ASSUME NEW p \in Results(new), NEW q \in Results(new), new[p].id = new[q].id
       PROVE  p = q
  <2>1. p \in Indices(new) /\ q \in Indices(new)
    BY <1>17
  <2>2. CASE off[p] = 1 /\ off[q] = 1
    <3>1. blk[p] \in Results(ms) /\ blk[q] \in Results(ms) /\ ms[blk[p]].id = ms[blk[q]].id
      BY <1>13, <1>17, <1>20, <2>1, <2>2
    <3>2. blk[p] = blk[q]
      BY <3>1 DEF Coherent
    <3> QED BY <1>12, <2>1, <2>2, <3>2
  <2>3. CASE off[p] = 1 /\ off[q] # 1
    BY <1>13, <1>17, <1>20, <2>1, <2>3
  <2>4. CASE off[p] # 1 /\ off[q] = 1
    BY <1>13, <1>17, <1>20, <2>1, <2>4
  <2>5. CASE off[p] # 1 /\ off[q] # 1
    <3>1. new[p].id \in CallIds(ms[blk[p]]) /\ new[p].id \in CallIds(ms[blk[q]])
      BY <1>13, <1>20, <2>1, <2>5
    <3>2. blk[p] = blk[q]
      BY <1>8, <2>1, <3>1 DEF Coherent
    <3>3. off[p] = off[q]
      BY <1>8, <1>20, <2>1, <2>5, <3>2, BackfillBlockIs
    <3> QED BY <1>12, <2>1, <3>2, <3>3
  <2> QED BY <2>2, <2>3, <2>4, <2>5
<1>21. ASSUME NEW q \in Results(new), NEW p \in Indices(new), new[q].id \in CallIds(new[p])
       PROVE  /\ p < q
              /\ \A r \in p + 1 .. q : IsResult(new[r]) /\ new[r].id \in CallIds(new[p])
  <2> DEFINE j == blk[p]
             i == blk[q]
  <2>1. /\ off[p] = 1 /\ new[p] = ms[j] /\ new[q].id \in CallIds(ms[j])
        /\ j \in Indices(ms) /\ i \in Indices(ms) /\ q \in Indices(new)
        /\ j \in Int /\ i \in Int /\ p \in Int /\ q \in Int /\ off[q] \in Int
    BY <1>8, <1>10, <1>13, <1>16, <1>17, <1>21
  <2>2. j <= i /\ \A k \in j + 1 .. i : IsResult(ms[k]) /\ ms[k].id \in CallIds(ms[j])
    <3>1. CASE off[q] = 1
      <4>1. i \in Results(ms) /\ ms[i].id \in CallIds(ms[j])
        BY <1>13, <1>17, <2>1, <3>1
      <4>2. j < i /\ \A k \in j + 1 .. i : IsResult(ms[k]) /\ ms[k].id \in CallIds(ms[j])
        BY <2>1, <4>1 DEF Coherent
      <4> QED BY <2>1, <4>2
    <3>2. CASE off[q] # 1
      <4>1. new[q].id \in CallIds(ms[i])
        BY <1>13, <2>1, <3>2
      <4>2. i = j
        BY <2>1, <4>1 DEF Coherent
      <4>3. j + 1 .. i = {} /\ j <= i
        BY <2>1, <4>2
      <4> QED BY <4>3
    <3> QED BY <3>1, <3>2
  <2>3. p # q
    <3>1. IsResult(new[q])
      BY <1>17
    <3>2. ~ IsResult(ms[j])
      BY <1>15, <2>1, CallersAnswerNothing
    <3> QED BY <2>1, <3>1, <3>2
  <2>4. ~ (q < p)
    <3> SUFFICES ASSUME q < p PROVE FALSE
      OBVIOUS
    <3>1. i < j \/ (i = j /\ off[q] < off[p])
      BY <1>11, <2>1
    <3>2. off[q] < 1
      BY <2>1, <2>2, <3>1
    <3>3. 1 <= off[q]
      <4>1. off[q] \in 1 .. Len(BackfillBlock(ms, i))
        BY <1>8, <2>1 DEF Indices
      <4> QED BY <4>1, <2>1
    <3> QED BY <2>1, <3>2, <3>3
  <2>5. p < q
    BY <2>1, <2>3, <2>4
  <2>6. ASSUME NEW r \in p + 1 .. q PROVE IsResult(new[r]) /\ new[r].id \in CallIds(new[p])
    <3>1. r \in Indices(new) /\ p < r /\ (r < q \/ r = q) /\ r \in Int
      BY <1>10, <2>1 DEF Indices
    <3>2. blk[r] \in Indices(ms) /\ blk[r] \in Int /\ off[r] \in Int
      BY <1>8, <1>10, <3>1
    <3>3. j < blk[r] \/ (j = blk[r] /\ 1 < off[r])
      BY <1>11, <2>1, <3>1
    <3>4. blk[r] <= i
      <4>1. CASE r = q
        BY <2>1, <4>1
      <4>2. CASE r < q
        <5>1. blk[r] < i \/ blk[r] = i
          BY <1>11, <2>1, <3>1, <4>2
        <5> QED BY <2>1, <3>2, <5>1
      <4> QED BY <3>1, <4>1, <4>2
    <3>5. CASE j = blk[r] /\ 1 < off[r]
      <4>1. off[r] # 1
        BY <3>2, <3>5
      <4>2. IsResult(new[r]) /\ new[r].id \in CallIds(ms[blk[r]])
        BY <1>13, <3>1, <4>1
      <4> QED BY <2>1, <3>5, <4>2
    <3>6. CASE j < blk[r]
      <4>1. blk[r] \in j + 1 .. i
        BY <2>1, <3>2, <3>4, <3>6
      <4>2. IsResult(ms[blk[r]]) /\ ms[blk[r]].id \in CallIds(ms[j])
        BY <2>2, <4>1
      <4>3. off[r] = 1
        <5> SUFFICES ASSUME off[r] # 1 PROVE FALSE
          OBVIOUS
        <5>1. new[r].id \in CallIds(ms[blk[r]])
          BY <1>13, <3>1
        <5> QED BY <1>15, <3>2, <4>2, <5>1, CallersAnswerNothing
      <4> QED BY <1>13, <2>1, <3>1, <4>2, <4>3
    <3> QED BY <3>3, <3>5, <3>6
  <2> QED BY <2>5, <2>6
<1>22. Owned(new)
  <2> SUFFICES ASSUME NEW q \in Results(new)
               PROVE  \E p \in Indices(new) : new[q].id \in CallIds(new[p])
    BY DEF Owned
  <2>1. \E j \in Indices(ms) : new[q].id \in CallIds(ms[j])
    <3>1. CASE off[q] = 1
      BY <1>13, <1>17, <3>1 DEF Owned
    <3>2. CASE off[q] # 1
      BY <1>8, <1>13, <1>17, <3>2
    <3> QED BY <3>1, <3>2
  <2>2. PICK j \in Indices(ms) : new[q].id \in CallIds(ms[j])
    BY <2>1
  <2>3. PICK p \in Indices(new) : blk[p] = j /\ off[p] = 1
    BY <1>14
  <2> QED BY <1>13, <2>2, <2>3
<1>23. Answers(new)
  <2> SUFFICES ASSUME NEW p \in Indices(new), NEW id \in CallIds(new[p])
               PROVE  \E q \in Results(new) : new[q].id = id
    BY DEF Answers
  <2>1. blk[p] \in Indices(ms) /\ id \in CallIds(ms[blk[p]])
    BY <1>8, <1>16
  <2>2. CASE \E i \in Results(ms) : ms[i].id = id
    <3>1. PICK i \in Results(ms) : ms[i].id = id
      BY <2>2
    <3>2. i \in Indices(ms) /\ IsResult(ms[i])
      BY <3>1 DEF Results
    <3>3. PICK q \in Indices(new) : blk[q] = i /\ off[q] = 1
      BY <1>14, <3>2
    <3>4. new[q] = ms[i]
      BY <1>13, <3>3
    <3> QED BY <3>1, <3>2, <3>3, <3>4 DEF Results
  <2>3. CASE \A i \in Results(ms) : ms[i].id # id
    <3> DEFINE j == blk[p]
    <3>4. j \in Indices(ms) /\ id \in CallIds(ms[j])
      BY <2>1
    <3> HIDE DEF j
    <3>5. \E o \in Indices(BackfillBlock(ms, j)) : o # 1 /\ BackfillBlock(ms, j)[o].id = id
      <4>1. FillsGaps(BackfillBlock(ms, j), ms, j)
        BY <3>4, BackfillBlockIs
      <4> QED BY <2>3, <3>4, <4>1 DEF FillsGaps
    <3>1. PICK o \in Indices(BackfillBlock(ms, blk[p])) :
            o # 1 /\ BackfillBlock(ms, blk[p])[o].id = id
      BY <3>5 DEF j
    <3>2. PICK q \in Indices(new) : blk[q] = blk[p] /\ off[q] = o
      BY <1>9, <2>1, <3>1
    <3>3. new[q].id = id /\ IsResult(new[q])
      BY <1>8, <1>13, <3>1, <3>2
    <3> QED BY <3>2, <3>3 DEF Results
  <2> QED BY <2>2, <2>3
<1>24. Coherent(new)
  BY <1>6, <1>18, <1>19, <1>20, <1>21 DEF Coherent
<1> QED BY <1>1, <1>22, <1>23, <1>24 DEF Legal

LEMMA RepairedLegal ==
  ASSUME NEW ms, Coherent(ms)
  PROVE  Legal(Repaired(ms))
<1> DEFINE new == DropOrphanToolResults(ms)
<1>1. Coherent(new) /\ Owned(new)
  BY DroppedOwned
<1>2. Repaired(ms) = BackfillMissingToolResults(new)
  BY DEF Repaired
<1> HIDE DEF new
<1> QED BY <1>1, <1>2, BackfillLegal

--------------------------------------------------------------------------------
(* The stages of prepare *)

LEMMA Resized ==
  ASSUME NEW m \in Message, NEW size \in Nat \ {0}, NEW r, r = [m EXCEPT !.size = size] \/ r = m
  PROVE  r \in Message /\ r.kind = m.kind /\ r.id = m.id /\ r.calls = m.calls /\ r.tool = m.tool
BY DEF Message

LEMMA Truncated ==
  ASSUME NEW ms \in Seq(Message)
  PROVE  Resizes(TruncateToolResults(ms), ms)
<1> DEFINE new == TruncateToolResults(ms)
<1>1. Len(ms) \in Nat /\ Indices(ms) = 1 .. Len(ms) /\ \A i \in Indices(ms) : ms[i] \in Message
  BY DEF Indices
<1>2. new = [i \in 1 .. Len(ms) |->
               IF i \in Results(ms) \ Instructions(ms) /\ ms[i].size > MaxResult
               THEN [ms[i] EXCEPT !.size = MaxResult] ELSE ms[i]]
  BY <1>1 DEF TruncateToolResults
<1>3. MaxResult \in Nat \ {0}
  BY ViewAssumption
<1>4. ASSUME NEW i \in Indices(ms)
      PROVE  /\ new[i] \in Message /\ new[i].kind = ms[i].kind /\ new[i].id = ms[i].id
             /\ new[i].calls = ms[i].calls /\ new[i].tool = ms[i].tool
  <2> DEFINE m == ms[i]
             r == new[i]
  <2>1. m \in Message /\ (r = [m EXCEPT !.size = MaxResult] \/ r = m)
    BY <1>1, <1>2
  <2> HIDE DEF m, r
  <2>2. r \in Message /\ r.kind = m.kind /\ r.id = m.id /\ r.calls = m.calls /\ r.tool = m.tool
    BY <1>3, <2>1, Resized
  <2> QED BY <2>2 DEF m, r
<1>5. new \in [1 .. Len(ms) -> Message]
  <2>1. new = [i \in 1 .. Len(ms) |-> new[i]]
    BY <1>2
  <2> HIDE DEF new
  <2> QED BY <1>1, <1>4, <2>1
<1> HIDE DEF new
<1>6. new \in Seq(Message) /\ Len(new) = Len(ms)
  BY <1>1, <1>5
<1> QED BY <1>4, <1>6 DEF Resizes, new

LEMMA Microcompacted ==
  ASSUME NEW ms \in Seq(Message), NEW end
  PROVE  Resizes(Microcompact(ms, end), ms)
<1> DEFINE new == Microcompact(ms, end)
           Old(i) == /\ i \in Eligible(ms, end)
                     /\ Cardinality({j \in Eligible(ms, end) : j > i}) >= KeepRecent
                     /\ ms[i].size >= MinCompact
<1>1. Len(ms) \in Nat /\ Indices(ms) = 1 .. Len(ms) /\ \A i \in Indices(ms) : ms[i] \in Message
  BY DEF Indices
<1>2. new = [i \in 1 .. Len(ms) |-> IF Old(i) THEN [ms[i] EXCEPT !.size = 1] ELSE ms[i]]
  BY <1>1 DEF Microcompact
<1> HIDE DEF Old
<1>4. ASSUME NEW i \in Indices(ms)
      PROVE  /\ new[i] \in Message /\ new[i].kind = ms[i].kind /\ new[i].id = ms[i].id
             /\ new[i].calls = ms[i].calls /\ new[i].tool = ms[i].tool
  <2> DEFINE m == ms[i]
             r == new[i]
  <2>1. m \in Message /\ (r = [m EXCEPT !.size = 1] \/ r = m)
    BY <1>1, <1>2
  <2> HIDE DEF m, r
  <2>2. r \in Message /\ r.kind = m.kind /\ r.id = m.id /\ r.calls = m.calls /\ r.tool = m.tool
    <3>1. 1 \in Nat \ {0}
      OBVIOUS
    <3> QED BY <2>1, <3>1, Resized
  <2> QED BY <2>2 DEF m, r
<1>5. new \in [1 .. Len(ms) -> Message]
  <2>1. new = [i \in 1 .. Len(ms) |-> new[i]]
    BY <1>2
  <2> HIDE DEF new
  <2> QED BY <1>1, <1>4, <2>1
<1> HIDE DEF new
<1>6. new \in Seq(Message) /\ Len(new) = Len(ms)
  BY <1>1, <1>5
<1> QED BY <1>4, <1>6 DEF Resizes, new

\* Statuses are neither calls nor results.
LEMMA QuietLegal ==
  ASSUME NEW ms, Legal(ms)
  PROVE  Legal(DropRuntimeStatuses(ms))
<1> DEFINE places == {i \in Indices(ms) : ms[i].kind # "status"}
           new == At(ms, places)
<1>1. DropRuntimeStatuses(ms) = new
  BY DEF DropRuntimeStatuses
<1>2. Coherent(ms) /\ Owned(ms) /\ Answers(ms) /\ ms \in Seq(Message)
  BY DEF Legal, Coherent
<1>3. Coherent(new)
  BY <1>2, AtCoherent
<1>4. \E pos : Picks(pos, new, ms, places)
  BY <1>2, AtPicks
<1> HIDE DEF new
<1>5. PICK pos : Picks(pos, new, ms, places)
  BY <1>4
<1>6. \A p \in Indices(new) : pos[p] \in Indices(ms) /\ new[p] = ms[pos[p]]
  BY <1>5 DEF Picks
<1>7. \A i \in Indices(ms) : ms[i].kind # "status" => \E p \in Indices(new) : pos[p] = i
  BY <1>5 DEF Picks
<1>8. \A i \in Results(ms) : i \in Indices(ms) /\ IsResult(ms[i]) /\ ms[i].kind # "status"
  BY DEF Results, IsResult
<1>9. \A j \in Indices(ms) : \A id \in CallIds(ms[j]) : ms[j].kind # "status"
  BY <1>2, CallersAnswerNothing DEF Indices
<1>10. \A p \in Results(new) : p \in Indices(new) /\ pos[p] \in Results(ms)
  BY <1>6 DEF Results
<1>11. Owned(new)
  <2> SUFFICES ASSUME NEW p \in Results(new)
               PROVE  \E q \in Indices(new) : new[p].id \in CallIds(new[q])
    BY DEF Owned
  <2>1. pos[p] \in Results(ms) /\ new[p] = ms[pos[p]]
    BY <1>6, <1>10
  <2>2. PICK j \in Indices(ms) : ms[pos[p]].id \in CallIds(ms[j])
    BY <1>2, <2>1 DEF Owned
  <2>3. PICK q \in Indices(new) : pos[q] = j
    BY <1>7, <1>9, <2>2
  <2> QED BY <1>6, <2>1, <2>2, <2>3
<1>12. Answers(new)
  <2> SUFFICES ASSUME NEW p \in Indices(new), NEW id \in CallIds(new[p])
               PROVE  \E q \in Results(new) : new[q].id = id
    BY DEF Answers
  <2>1. pos[p] \in Indices(ms) /\ id \in CallIds(ms[pos[p]])
    BY <1>6
  <2>2. PICK i \in Results(ms) : ms[i].id = id
    BY <1>2, <2>1 DEF Answers
  <2>3. PICK q \in Indices(new) : pos[q] = i
    BY <1>7, <1>8
  <2>4. new[q] = ms[i] /\ IsResult(new[q])
    BY <1>6, <1>8, <2>3
  <2> QED BY <2>2, <2>3, <2>4 DEF Results
<1> QED BY <1>1, <1>3, <1>11, <1>12 DEF Legal

\* The bisection, step by step.
Round == [low : Nat \ {0}, high : Nat]

Halve(ms, anchors, starts, r) ==
  LET middle == (r.low + r.high) \div 2
  IN IF r.low >= r.high THEN r
     ELSE IF Fits(Candidate(ms, anchors, starts[middle]))
          THEN [r EXCEPT !.high = middle] ELSE [r EXCEPT !.low = middle + 1]

Halves(f, ms, anchors, starts) ==
  f = [n \in 0 .. Len(starts) |-> IF n = 0 THEN [low |-> 1, high |-> Len(starts)]
                                  ELSE Halve(ms, anchors, starts, f[n - 1])]

LEMMA HalveStays ==
  ASSUME NEW ms, NEW anchors, NEW starts, NEW r \in Round
  PROVE  Halve(ms, anchors, starts, r) \in Round
<1> DEFINE middle == (r.low + r.high) \div 2
<1>1. r.low \in Nat \ {0} /\ r.high \in Nat
  BY DEF Round
<1>2. middle \in Nat /\ middle + 1 \in Nat \ {0}
  BY <1>1
<1> HIDE DEF middle
<1>3. [r EXCEPT !.high = middle] \in Round /\ [r EXCEPT !.low = middle + 1] \in Round
  BY <1>2 DEF Round
<1> QED BY <1>3 DEF Halve, middle

LEMMA BisectSteps ==
  ASSUME NEW ms, NEW anchors, NEW starts, Len(starts) \in Nat
  PROVE  \E f : /\ Bisect(ms, anchors, starts) = f[Len(starts)].low
                /\ f[0] = [low |-> 1, high |-> Len(starts)]
                /\ \A n \in 0 .. Len(starts) : f[n] \in Round
                /\ \A n \in 1 .. Len(starts) : f[n] = Halve(ms, anchors, starts, f[n - 1])
<1> DEFINE base == [low |-> 1, high |-> Len(starts)]
           last == Len(starts)
           Next1(r) == Halve(ms, anchors, starts, r)
<1>1. last \in Nat /\ base \in Round
  BY DEF Round
<1>2. \A r \in Round : Next1(r) \in Round
  BY HalveStays
<1> HIDE DEF base, Next1
<1> DEFINE step == [n \in 1 .. last |-> [r \in Round |-> Next1(r)]]
<1>3. step \in [1 .. last -> [Round -> Round]]
  BY <1>2
<1>4. \A n \in 1 .. last, r \in Round : step[n][r] = Next1(r)
  OBVIOUS
<1> HIDE DEF step, last
<1>5. PICK f \in [0 .. last -> Round] :
        f[0] = base /\ \A n \in 1 .. last : f[n] = step[n][f[n - 1]]
  BY <1>1, <1>3, StepsExist
<1>6. \A n \in 1 .. last : n # 0 /\ n \in 0 .. last /\ n - 1 \in 0 .. last
  BY <1>1
<1>7. \A n \in 1 .. last : f[n] = Next1(f[n - 1])
  BY <1>4, <1>5, <1>6
<1>8. f = [n \in 0 .. last |-> IF n = 0 THEN base ELSE Next1(f[n - 1])]
  <2>1. \A n \in 0 .. last : n = 0 \/ n \in 1 .. last
    BY <1>1
  <2>2. \A n \in 0 .. last : f[n] = IF n = 0 THEN base ELSE Next1(f[n - 1])
    BY <1>5, <1>6, <1>7, <2>1
  <2> QED BY <2>2
<1>9. Halves(f, ms, anchors, starts)
  BY <1>8 DEF Halves, last, base, Next1
<1> DEFINE g == CHOOSE g : g =
             [n \in 0 .. Len(starts) |-> IF n = 0 THEN [low |-> 1, high |-> Len(starts)]
              ELSE Halve(ms, anchors, starts, g[n - 1])]
<1>10. Halves(g, ms, anchors, starts)
  BY <1>9 DEF Halves
<1>11. Bisect(ms, anchors, starts) = g[last].low
  BY DEF Bisect, Halve, last
<1> HIDE DEF g
<1>12. g = [n \in 0 .. last |-> IF n = 0 THEN base ELSE Next1(g[n - 1])]
  BY <1>10 DEF Halves, last, base, Next1
<1>13. g[0] = base /\ \A n \in 1 .. last : g[n] = Next1(g[n - 1])
  <2>1. 0 \in 0 .. last
    BY <1>1
  <2> QED BY <1>6, <1>12, <2>1
<1>14. \A n \in 0 .. last : g[n] \in Round
  <2>1. g[0] \in Round
    BY <1>1, <1>13
  <2>2. \A n \in 1 .. last : g[n - 1] \in Round => g[n] \in Round
    BY <1>2, <1>13
  <2> QED BY <1>1, <2>1, <2>2, StepsStay
<1> QED BY <1>11, <1>13, <1>14 DEF last, base, Next1

LEMMA NormalLegal ==
  ASSUME NEW ms, Coherent(ms)
  PROVE  Legal(Normal(ms))
<1> DEFINE repaired == Repaired(Deduplicated(ms))
<1>1. Legal(repaired)
  BY DeduplicatedCoherent, RepairedLegal
<1>2. Normal(ms) = TruncateToolResults(repaired)
  BY DEF Normal
<1> HIDE DEF repaired
<1>3. repaired \in Seq(Message)
  BY <1>1 DEF Legal, Coherent
<1>4. Resizes(TruncateToolResults(repaired), repaired)
  BY <1>3, Truncated
<1> QED BY <1>1, <1>2, <1>4, ResizeLegal

\* The bisection ends at a place.
LEMMA BisectFirst ==
  ASSUME NEW ms, NEW anchors, NEW starts, Len(starts) \in Nat
  PROVE  Bisect(ms, anchors, starts) \in Nat \ {0}
<1>1. PICK f : /\ Bisect(ms, anchors, starts) = f[Len(starts)].low
               /\ f[0] = [low |-> 1, high |-> Len(starts)]
               /\ \A n \in 0 .. Len(starts) : f[n] \in Round
               /\ \A n \in 1 .. Len(starts) : f[n] = Halve(ms, anchors, starts, f[n - 1])
  BY BisectSteps
<1>2. f[Len(starts)] \in Round
  BY <1>1
<1> QED BY <1>1, <1>2 DEF Round

\* What an emergency snip sends is the repair of one of its candidates.
LEMMA SnipIs ==
  ASSUME NEW ms \in Seq(Message), NEW current
  PROVE  LET starts == Started(ms, current)
             anchors == Anchors(ms, current)
             r == EmergencySnip(ms, current)
         IN \/ r = Exceeded
            \/ \E k \in 1 .. Len(starts) :
                 /\ r = Sent(Repaired(Candidate(ms, anchors, starts[k])))
                 /\ Fits(r.view)
<1> DEFINE starts == Started(ms, current)
           anchors == Anchors(ms, current)
           last == Len(starts)
           first == Bisect(ms, anchors, starts)
           view == [k \in 1 .. last |-> Repaired(Candidate(ms, anchors, starts[k]))]
           fitting == {k \in first .. last : Fits(view[k])}
           r == EmergencySnip(ms, current)
<1>1. r = IF ~Fits(Candidate(ms, anchors, Last(starts))) \/ fitting = {} THEN Exceeded
          ELSE Sent(view[Least(fitting)])
  BY DEF EmergencySnip
<1>2. last \in Nat
  <2> DEFINE places == [i \in Indices(ms) |-> i]
  <2>1. places \in Seq(Nat)
    <3>1. Len(ms) \in Nat /\ Indices(ms) = 1 .. Len(ms)
      BY DEF Indices
    <3>2. places = [i \in 1 .. Len(ms) |-> i]
      BY <3>1
    <3> QED BY <3>1, <3>2
  <2> HIDE DEF places
  <2>2. At(places, Starts(ms, current)) \in Seq(Nat)
    BY <2>1, AtPicks
  <2>3. starts = At(places, Starts(ms, current))
    BY DEF Started, places
  <2> QED BY <2>2, <2>3
<1>3. first \in Nat \ {0}
  <2>1. Len(starts) \in Nat
    BY <1>2
  <2> HIDE DEF starts, anchors
  <2> QED BY <2>1, BisectFirst
<1>4. \A k \in 1 .. last : view[k] = Repaired(Candidate(ms, anchors, starts[k]))
  OBVIOUS
<1> HIDE DEF starts, anchors, last, first, view, r
<1>5. CASE r = Exceeded
  BY <1>5 DEF r, starts, anchors
<1>6. CASE r # Exceeded
  <2>1. fitting # {} /\ r = Sent(view[Least(fitting)])
    BY <1>1, <1>6
  <2>2. fitting \subseteq Nat /\ \A k \in fitting : k \in 1 .. last /\ Fits(view[k])
    BY <1>2, <1>3
  <2> HIDE DEF fitting
  <2>3. Least(fitting) \in fitting
    <3>1. \E m \in fitting : \A n \in fitting : m <= n
      BY <2>1, <2>2, LeastNumber
    <3> QED BY <3>1 DEF Least
  <2> DEFINE k == Least(fitting)
  <2>4. k \in 1 .. last /\ r = Sent(view[k]) /\ Fits(view[k])
    BY <2>1, <2>2, <2>3
  <2> HIDE DEF k
  <2>5. r.view = view[k]
    BY <2>4 DEF Sent
  <2>6. r = Sent(Repaired(Candidate(ms, anchors, starts[k])))
    BY <1>4, <2>4
  <2>7. Fits(r.view)
    BY <2>4, <2>5
  <2> QED BY <2>4, <2>6, <2>7 DEF r, starts, anchors, last
<1> QED BY <1>5, <1>6

LEMMA SnipLegal ==
  ASSUME NEW ms, Coherent(ms), NEW current
  PROVE  LET r == EmergencySnip(ms, current)
         IN r.made /\ (r.sent => Legal(r.view))
<1> DEFINE r == EmergencySnip(ms, current)
<1>1. ms \in Seq(Message)
  BY DEF Coherent
<1>2. CASE r = Exceeded
  BY <1>2 DEF Exceeded
<1>3. CASE \E k \in 1 .. Len(Started(ms, current)) :
             r = Sent(Repaired(Candidate(ms, Anchors(ms, current), Started(ms, current)[k])))
  <2> DEFINE Candidacy(k) == Repaired(Candidate(ms, Anchors(ms, current), Started(ms, current)[k]))
  <2>1. PICK k \in 1 .. Len(Started(ms, current)) : r = Sent(Candidacy(k))
    BY <1>3
  <2>2. Legal(Candidacy(k))
    BY AtCoherent, RepairedLegal DEF Candidate
  <2> HIDE DEF r, Candidacy
  <2>3. r.made /\ r.view = Candidacy(k)
    BY <2>1 DEF Sent
  <2> QED BY <2>2, <2>3 DEF r
<1> QED BY <1>1, <1>2, <1>3, SnipIs

LEMMA PreparedLegal ==
  ASSUME NEW ms, Coherent(ms), NEW user
  PROVE  Prepare(ms, user).made /\ (Prepare(ms, user).sent => Legal(Prepare(ms, user).view))
<1> DEFINE normal == Normal(ms)
           quiet == DropRuntimeStatuses(normal)
           compact == Microcompact(quiet, PositionOf(quiet, user))
           snip == EmergencySnip(compact, PositionOf(compact, user))
           r == Prepare(ms, user)
<1>1. r = IF Fits(normal) THEN Sent(normal)
          ELSE IF Fits(quiet) THEN Sent(quiet)
          ELSE IF Fits(compact) THEN Sent(compact) ELSE snip
  BY DEF Prepare
<1>2. Legal(normal)
  BY NormalLegal
<1> HIDE DEF normal
<1>3. Legal(quiet)
  BY <1>2, QuietLegal
<1> HIDE DEF quiet
<1>4. Legal(compact)
  <2>1. quiet \in Seq(Message)
    BY <1>3 DEF Legal, Coherent
  <2> QED BY <1>3, <2>1, Microcompacted, ResizeLegal
<1> HIDE DEF compact
<1>5. snip.made /\ (snip.sent => Legal(snip.view))
  BY <1>4, SnipLegal DEF Legal
<1> HIDE DEF snip, r
<1>6. r = Sent(normal) \/ r = Sent(quiet) \/ r = Sent(compact) \/ r = snip
  BY <1>1
<1>7. \A v : Sent(v).made /\ Sent(v).view = v
  BY DEF Sent
<1>8. r.made /\ (r.sent => Legal(r.view))
  BY <1>2, <1>3, <1>4, <1>5, <1>6, <1>7
<1> QED BY <1>8 DEF r

--------------------------------------------------------------------------------
(* The conversation *)

\* Anything but a result is numbered by its place, and every result answers a call.
Conversation(ms) ==
  /\ Coherent(ms)
  /\ Owned(ms)
  /\ \A i \in Indices(ms) : ~ IsResult(ms[i]) => ms[i].id = i

\* A message whose calls are new.
LEMMA ConversationAppend ==
  ASSUME NEW ms, Conversation(ms), NEW m \in Message, ~ IsResult(m), m.id = Len(ms) + 1,
         Distinct(m), \A i \in Indices(ms) : CallIds(m) \cap CallIds(ms[i]) = {}
  PROVE  Conversation(Append(ms, m)) /\ Len(Append(ms, m)) = Len(ms) + 1
<1> DEFINE new == Append(ms, m)
           n == Len(ms)
<1>1. ms \in Seq(Message) /\ n \in Nat
  BY DEF Conversation, Coherent
<1>2. /\ new \in Seq(Message) /\ Len(new) = n + 1 /\ new[n + 1] = m
      /\ \A i \in 1 .. n : new[i] = ms[i]
  BY <1>1
<1> HIDE DEF new
<1> HIDE DEF n
<1>3. /\ Indices(ms) = 1 .. n /\ Indices(new) = 1 .. (n + 1)
      /\ \A i \in Indices(new) : i \in Nat /\ (i \in Indices(ms) \/ i = n + 1)
      /\ \A i \in Indices(ms) : i \in Indices(new) /\ i # n + 1 /\ new[i] = ms[i]
      /\ n + 1 \in Indices(new)
  BY <1>1, <1>2 DEF Indices, n
<1>4. ASSUME NEW i \in Indices(new)
      PROVE  (~ IsResult(new[i]) => new[i].id = i) /\ Distinct(new[i])
  <2>1. CASE i \in Indices(ms)
    <3>1. new[i] = ms[i] /\ Distinct(ms[i])
      BY <1>3, <2>1 DEF Conversation, Coherent
    <3> QED BY <2>1, <3>1 DEF Conversation
  <2>2. CASE i = n + 1
    <3>1. new[i] = m
      BY <1>2, <2>2
    <3> QED BY <2>2, <3>1 DEF n
  <2> QED BY <1>3, <2>1, <2>2
<1>5. \A i, j \in Indices(new) : \A id \in CallIds(new[i]) : id \in CallIds(new[j]) => i = j
  <2> SUFFICES ASSUME NEW i \in Indices(new), NEW j \in Indices(new),
                      NEW id \in CallIds(new[i]), id \in CallIds(new[j])
               PROVE  i = j
    OBVIOUS
  <2>1. CASE i \in Indices(ms) /\ j \in Indices(ms)
    <3>1. id \in CallIds(ms[i]) /\ id \in CallIds(ms[j])
      BY <1>3, <2>1
    <3> QED BY <2>1, <3>1 DEF Conversation, Coherent
  <2>2. CASE i = n + 1 /\ j \in Indices(ms)
    BY <1>2, <1>3, <2>2
  <2>3. CASE i \in Indices(ms) /\ j = n + 1
    BY <1>2, <1>3, <2>3
  <2> QED BY <1>3, <2>1, <2>2, <2>3
<1>6. \A i \in Results(new) : i \in Results(ms) /\ i \in Indices(ms) /\ new[i] = ms[i]
  BY <1>2, <1>3 DEF Results
<1>7. Owned(new)
  <2>1. \A i \in Results(ms) : \E j \in Indices(ms) : ms[i].id \in CallIds(ms[j])
    BY DEF Conversation, Owned
  <2> QED BY <1>3, <1>6, <2>1 DEF Owned
<1>8. ASSUME NEW i \in Results(new), NEW j \in Indices(new), new[i].id \in CallIds(new[j])
      PROVE  j < i /\ \A k \in j + 1 .. i : IsResult(new[k]) /\ new[k].id \in CallIds(new[j])
  <2>1. PICK h \in Indices(ms) : ms[i].id \in CallIds(ms[h])
    BY <1>6 DEF Conversation, Owned
  <2>2. j = h
    <3>1. new[i].id \in CallIds(new[h]) /\ h \in Indices(new)
      BY <1>3, <1>6, <2>1
    <3> QED BY <1>5, <1>8, <3>1
  <2>3. j \in Indices(ms) /\ i \in Results(ms) /\ new[j] = ms[j] /\ i \in Indices(ms)
    BY <1>3, <1>6, <2>2
  <2>4. j < i /\ \A k \in j + 1 .. i : IsResult(ms[k]) /\ ms[k].id \in CallIds(ms[j])
    BY <2>1, <2>2, <2>3 DEF Conversation, Coherent
  <2>5. \A k \in j + 1 .. i : new[k] = ms[k]
    BY <1>1, <1>2, <1>3, <2>3
  <2> QED BY <2>3, <2>4, <2>5
<1>9. \A i, j \in Results(new) : new[i].id = new[j].id => i = j
  BY <1>6 DEF Conversation, Coherent
<1>10. Coherent(new)
  BY <1>2, <1>4, <1>5, <1>8, <1>9 DEF Coherent
<1> QED BY <1>2, <1>4, <1>7, <1>10 DEF Conversation, new, n

\* Messages without calls.
LEMMA ConversationJoin ==
  ASSUME NEW ms, Conversation(ms), NEW more \in Seq(Message),
         \A k \in Indices(more) :
           ~ IsResult(more[k]) /\ more[k].id = Len(ms) + k /\ more[k].calls = <<>>
  PROVE  Conversation(ms \o more)
<1> DEFINE new == ms \o more
           n == Len(ms)
           b == Len(more)
<1>1. ms \in Seq(Message) /\ n \in Nat /\ b \in Nat
  BY DEF Conversation, Coherent
<1>2. /\ new \in Seq(Message) /\ Len(new) = n + b
      /\ \A i \in 1 .. n : new[i] = ms[i]
      /\ \A k \in 1 .. b : new[n + k] = more[k]
  BY <1>1, Joined
<1>3. \A k \in 1 .. b : ~ IsResult(more[k]) /\ more[k].id = n + k /\ more[k].calls = <<>>
  BY DEF Indices
<1>4. Indices(ms) = 1 .. n
  BY DEF Indices
<1> HIDE DEF new, n, b
<1>5. Indices(new) = 1 .. (n + b)
  BY <1>2 DEF Indices
<1>6. \A i \in Indices(ms) : i \in Indices(new) /\ new[i] = ms[i]
  BY <1>1, <1>2, <1>4, <1>5
<1>7. ASSUME NEW i \in Indices(new), i \notin Indices(ms)
      PROVE  ~ IsResult(new[i]) /\ new[i].id = i /\ new[i].calls = <<>> /\ CallIds(new[i]) = {}
  <2>1. i - n \in 1 .. b /\ n + (i - n) = i
    BY <1>1, <1>4, <1>5, <1>7
  <2>2. new[n + (i - n)] = more[i - n]
    BY <1>2, <2>1
  <2>3. ~ IsResult(new[i]) /\ new[i].id = i /\ new[i].calls = <<>>
    BY <1>3, <2>1, <2>2
  <2> QED BY <2>3 DEF CallIds
<1>8. ASSUME NEW i \in Indices(new)
      PROVE  (~ IsResult(new[i]) => new[i].id = i) /\ Distinct(new[i])
  <2>1. CASE i \in Indices(ms)
    <3>1. new[i] = ms[i] /\ Distinct(ms[i])
      BY <1>6, <2>1 DEF Conversation, Coherent
    <3> QED BY <2>1, <3>1 DEF Conversation
  <2>2. CASE i \notin Indices(ms)
    <3>1. Indices(new[i].calls) = {}
      BY <1>7, <2>2 DEF Indices
    <3> QED BY <1>7, <2>2, <3>1 DEF Distinct
  <2> QED BY <2>1, <2>2
<1>9. \A i \in Indices(new) : \A id \in CallIds(new[i]) :
        i \in Indices(ms) /\ new[i] = ms[i] /\ id \in CallIds(ms[i])
  BY <1>6, <1>7
<1>10. \A i, j \in Indices(new) : \A id \in CallIds(new[i]) : id \in CallIds(new[j]) => i = j
  BY <1>9 DEF Conversation, Coherent
<1>11. \A i \in Results(new) : i \in Results(ms) /\ i \in Indices(ms) /\ new[i] = ms[i]
  BY <1>6, <1>7 DEF Results
<1>12. Owned(new)
  <2>1. \A i \in Results(ms) : \E j \in Indices(ms) : ms[i].id \in CallIds(ms[j])
    BY DEF Conversation, Owned
  <2> QED BY <1>6, <1>11, <2>1 DEF Owned
<1>13. ASSUME NEW i \in Results(new), NEW j \in Indices(new), new[i].id \in CallIds(new[j])
       PROVE  j < i /\ \A k \in j + 1 .. i : IsResult(new[k]) /\ new[k].id \in CallIds(new[j])
  <2>1. /\ i \in Results(ms) /\ i \in Indices(ms) /\ new[i] = ms[i]
        /\ j \in Indices(ms) /\ new[j] = ms[j]
    BY <1>9, <1>11, <1>13
  <2>2. j < i /\ \A k \in j + 1 .. i : IsResult(ms[k]) /\ ms[k].id \in CallIds(ms[j])
    BY <1>13, <2>1 DEF Conversation, Coherent
  <2>3. \A k \in j + 1 .. i : k \in Indices(ms)
    BY <1>1, <1>4, <2>1
  <2> QED BY <1>6, <2>1, <2>2, <2>3
<1>14. \A i, j \in Results(new) : new[i].id = new[j].id => i = j
  BY <1>11 DEF Conversation, Coherent
<1>15. Coherent(new)
  BY <1>2, <1>8, <1>10, <1>13, <1>14 DEF Coherent
<1> QED BY <1>8, <1>12, <1>15 DEF Conversation, new

\* The results of a batch come behind its message.
LEMMA ConversationResults ==
  ASSUME NEW ms, Conversation(ms), Len(ms) # 0, NEW outcome \in Seq(Message),
         \A k \in Indices(outcome) : IsResult(outcome[k]) /\ outcome[k].id \in CallIds(ms[Len(ms)]),
         \A k, l \in Indices(outcome) : outcome[k].id = outcome[l].id => k = l
  PROVE  Conversation(ms \o outcome) /\ Len(ms \o outcome) = Len(ms) + Len(outcome)
<1> DEFINE new == ms \o outcome
           n == Len(ms)
           b == Len(outcome)
<1>1. ms \in Seq(Message) /\ n \in Nat /\ b \in Nat
  BY DEF Conversation, Coherent
<1>2. /\ new \in Seq(Message) /\ Len(new) = n + b
      /\ \A i \in 1 .. n : new[i] = ms[i]
      /\ \A k \in 1 .. b : new[n + k] = outcome[k]
  <2>1. ASSUME NEW T, NEW x \in Seq(T), NEW y \in Seq(T)
        PROVE  /\ x \o y \in Seq(T) /\ Len(x \o y) = Len(x) + Len(y)
               /\ \A i \in 1 .. Len(x) : (x \o y)[i] = x[i]
               /\ \A i \in 1 .. Len(y) : (x \o y)[Len(x) + i] = y[i]
    BY Joined
  <2> HIDE DEF n, b, new
  <2>2. /\ ms \o outcome \in Seq(Message) /\ Len(ms \o outcome) = Len(ms) + Len(outcome)
        /\ \A i \in 1 .. Len(ms) : (ms \o outcome)[i] = ms[i]
        /\ \A i \in 1 .. Len(outcome) : (ms \o outcome)[Len(ms) + i] = outcome[i]
    BY ONLY outcome \in Seq(Message), <1>1, <2>1
  <2> QED BY <2>2 DEF n, b, new
<1>3. \A i \in 1 .. n : ms[i] \in Message
  BY <1>1
<1>4. n # 0 /\ \A k \in 1 .. b : IsResult(outcome[k])
  BY DEF Indices
<1>5. \A k \in 1 .. b : outcome[k] \in Message
  OBVIOUS
<1>6. Indices(ms) = 1 .. n
  BY DEF Indices
<1>7. \A k \in 1 .. b : outcome[k].id \in CallIds(ms[n])
  BY DEF Indices
<1>8. n \in Indices(ms) /\ n \in Nat
  BY <1>1, <1>4, <1>6
<1>9. \A k, l \in 1 .. b : outcome[k].id = outcome[l].id => k = l
  BY DEF Indices
<1> HIDE DEF new, b
<1>10. Indices(new) = 1 .. (n + b)
  BY <1>2 DEF Indices
<1>11. ~ IsResult(ms[n]) \/ b = 0
  <2> SUFFICES ASSUME b # 0 PROVE ~ IsResult(ms[n])
    OBVIOUS
  <2>1. 1 \in 1 .. b
    BY <1>1
  <2>2. ms[n] \in Message
    BY <1>3, <1>6, <1>8
  <2> QED BY <1>7, <2>1, <2>2, CallersAnswerNothing
<1> HIDE DEF n
<1>12. \A i \in Indices(new) : \/ i \in Indices(ms) /\ new[i] = ms[i]
                               \/ /\ i - n \in 1 .. b /\ new[i] = outcome[i - n]
                                  /\ IsResult(new[i]) /\ new[i].calls = <<>> /\ CallIds(new[i]) = {}
                                  /\ new[i].id \in CallIds(ms[n])
  <2> SUFFICES ASSUME NEW i \in Indices(new), i \notin Indices(ms)
               PROVE  /\ i - n \in 1 .. b /\ new[i] = outcome[i - n]
                      /\ IsResult(new[i]) /\ new[i].calls = <<>> /\ CallIds(new[i]) = {}
                      /\ new[i].id \in CallIds(ms[n])
    BY <1>2, <1>6, <1>10
  <2>1. i - n \in 1 .. b /\ n + (i - n) = i
    BY <1>1, <1>6, <1>10
  <2>2. new[n + (i - n)] = outcome[i - n]
    BY <1>2, <2>1
  <2>3. new[i] = outcome[i - n] /\ new[i] \in Message /\ IsResult(new[i])
        /\ new[i].id \in CallIds(ms[n])
    BY <1>4, <1>5, <1>7, <2>1, <2>2
  <2>4. new[i].calls = <<>>
    BY <2>3 DEF Message, IsResult
  <2> QED BY <2>1, <2>3, <2>4 DEF CallIds
<1>13. \A i \in Indices(ms) : i \in Indices(new) /\ new[i] = ms[i] /\ i \in Nat /\ i <= n
  BY <1>1, <1>2, <1>6, <1>10
<1>14. ASSUME NEW i \in Indices(new)
       PROVE  /\ Distinct(new[i])
              /\ ~ IsResult(new[i]) => new[i].id = i
              /\ \A id \in CallIds(new[i]) : i \in Indices(ms) /\ id \in CallIds(ms[i])
  <2>1. CASE i \in Indices(ms)
    <3>1. new[i] = ms[i]
      BY <1>13, <2>1
    <3>2. Distinct(ms[i])
      BY <2>1 DEF Conversation, Coherent
    <3> QED BY <2>1, <3>1, <3>2 DEF Conversation
  <2>2. CASE i \notin Indices(ms)
    <3>1. IsResult(new[i]) /\ new[i].calls = <<>> /\ CallIds(new[i]) = {}
      BY <1>12, <2>2
    <3>2. Indices(new[i].calls) = {}
      BY <3>1 DEF Indices
    <3> QED BY <3>1, <3>2 DEF Distinct
  <2> QED BY <2>1, <2>2
<1>15. \A i, j \in Indices(new) : \A id \in CallIds(new[i]) : id \in CallIds(new[j]) => i = j
  BY <1>14 DEF Conversation, Coherent
<1>16. \A i \in Results(new) :
         \/ i \in Results(ms) /\ new[i] = ms[i]
         \/ /\ i - n \in 1 .. b /\ new[i] = outcome[i - n] /\ new[i].id \in CallIds(ms[n])
            /\ i \notin Indices(ms) /\ i \in Indices(new)
  BY <1>1, <1>2, <1>6, <1>12, <1>10 DEF Results
<1>17. \A i \in Results(ms) : i \in Indices(ms) /\ ms[i].id \notin CallIds(ms[n])
  <2> SUFFICES ASSUME NEW i \in Results(ms), ms[i].id \in CallIds(ms[n]) PROVE FALSE
    BY DEF Results
  <2>1. n < i /\ i \in Indices(ms)
    BY <1>8 DEF Conversation, Coherent, Results
  <2> QED BY <1>13, <2>1, <1>1
<1>18. ASSUME NEW i \in Results(new), NEW j \in Results(new), new[i].id = new[j].id
       PROVE  i = j
  <2>1. CASE i \in Results(ms) /\ new[i] = ms[i] /\ j \in Results(ms) /\ new[j] = ms[j]
    BY <1>18, <2>1 DEF Conversation, Coherent
  <2>2. CASE i \in Results(ms) /\ new[i] = ms[i] /\ new[j].id \in CallIds(ms[n])
    BY <1>17, <1>18, <2>2
  <2>3. CASE j \in Results(ms) /\ new[j] = ms[j] /\ new[i].id \in CallIds(ms[n])
    BY <1>17, <1>18, <2>3
  <2>4. CASE i - n \in 1 .. b /\ new[i] = outcome[i - n] /\ j - n \in 1 .. b /\ new[j] = outcome[j - n]
             /\ i \in Indices(new) /\ j \in Indices(new)
    <3>2. i - n = j - n
      BY <1>9, <1>18, <2>4
    <3>3. i \in Int /\ j \in Int
      BY <1>1, <1>10, <2>4
    <3> QED BY <1>1, <3>2, <3>3
  <2> QED BY <1>16, <2>1, <2>2, <2>3, <2>4
<1>19. Owned(new)
  <2> SUFFICES ASSUME NEW i \in Results(new)
               PROVE  \E j \in Indices(new) : new[i].id \in CallIds(new[j])
    BY DEF Owned
  <2>1. \E j \in Indices(ms) : new[i].id \in CallIds(ms[j])
    <3>1. CASE i \in Results(ms) /\ new[i] = ms[i]
      BY <3>1 DEF Conversation, Owned
    <3>2. CASE new[i].id \in CallIds(ms[n])
      BY <1>8, <3>2
    <3> QED BY <1>16, <3>1, <3>2
  <2> QED BY <1>13, <2>1
<1>20. ASSUME NEW i \in Results(new), NEW j \in Indices(new), new[i].id \in CallIds(new[j])
       PROVE  j < i /\ \A k \in j + 1 .. i : IsResult(new[k]) /\ new[k].id \in CallIds(new[j])
  <2>1. j \in Indices(ms) /\ new[i].id \in CallIds(ms[j]) /\ new[j] = ms[j]
    BY <1>13, <1>14, <1>20
  <2>2. CASE i \in Results(ms) /\ new[i] = ms[i]
    <3>1. j < i /\ \A k \in j + 1 .. i : IsResult(ms[k]) /\ ms[k].id \in CallIds(ms[j])
      BY <2>1, <2>2 DEF Conversation, Coherent
    <3>2. i \in Indices(ms)
      BY <2>2 DEF Results
    <3>3. \A k \in j + 1 .. i : k \in Indices(ms)
      BY <1>1, <1>6, <2>1, <3>2
    <3> QED BY <1>13, <2>1, <3>1, <3>3
  <2>3. CASE /\ i - n \in 1 .. b /\ new[i].id \in CallIds(ms[n])
             /\ i \notin Indices(ms) /\ i \in Indices(new)
    <3>1. j = n
      BY <1>8, <2>1, <2>3 DEF Conversation, Coherent
    <3>2. n < i /\ i \in 1 .. (n + b)
      BY <1>1, <1>6, <1>10, <2>3
    <3>3. \A k \in n + 1 .. i : k \in Indices(new) /\ k \notin Indices(ms)
      BY <1>1, <1>6, <1>10, <3>2
    <3> QED BY <1>12, <2>1, <3>1, <3>2, <3>3
  <2> QED BY <1>16, <2>2, <2>3
<1>21. Coherent(new)
  BY <1>2, <1>14, <1>15, <1>18, <1>20 DEF Coherent
<1> QED BY <1>2, <1>14, <1>19, <1>21 DEF Conversation, new, n, b

\* The conversation up to a message.
LEMMA ConversationPrefix ==
  ASSUME NEW ms, Conversation(ms), NEW n \in 0 .. Len(ms)
  PROVE  /\ Conversation(SubSeq(ms, 1, n)) /\ Len(SubSeq(ms, 1, n)) = n
         /\ \A i \in 1 .. n : SubSeq(ms, 1, n)[i] = ms[i]
<1> DEFINE new == SubSeq(ms, 1, n)
<1>1. ms \in Seq(Message) /\ Coherent(ms) /\ Len(ms) \in Nat
  BY DEF Conversation, Coherent
<1>2. Len(new) = n /\ \A i \in 1 .. n : new[i] = ms[i]
  BY <1>1, Parts
<1>3. Coherent(new)
  BY <1>1, PartCoherent
<1> HIDE DEF new
<1>4. /\ Indices(new) = 1 .. n
      /\ \A i \in Indices(new) : i \in Indices(ms) /\ new[i] = ms[i]
  BY <1>1, <1>2 DEF Indices
<1>5. Owned(new)
  <2> SUFFICES ASSUME NEW i \in Results(new)
               PROVE  \E j \in Indices(new) : new[i].id \in CallIds(new[j])
    BY DEF Owned
  <2>1. i \in Indices(new) /\ i \in Results(ms) /\ new[i] = ms[i]
    BY <1>4 DEF Results
  <2>2. PICK j \in Indices(ms) : ms[i].id \in CallIds(ms[j])
    BY <2>1 DEF Conversation, Owned
  <2>3. j < i
    BY <1>1, <2>1, <2>2 DEF Coherent
  <2>4. j \in Indices(new)
    BY <1>1, <1>4, <2>1, <2>2, <2>3 DEF Indices
  <2> QED BY <1>4, <2>1, <2>2, <2>4
<1> QED BY <1>2, <1>3, <1>4, <1>5 DEF Conversation, new

\* What the program writes.
LEMMA Written ==
  ASSUME NEW n \in Nat, NEW calls \in Seq(Call)
  PROVE  /\ User(n) \in Message /\ ~ IsResult(User(n)) /\ User(n).id = n
         /\ User(n).calls = <<>> /\ User(n).kind = "user"
         /\ Status(n) \in Message /\ ~ IsResult(Status(n)) /\ Status(n).id = n
         /\ Status(n).calls = <<>> /\ Status(n).kind = "status"
         /\ Assistant(n, calls) \in Message /\ ~ IsResult(Assistant(n, calls))
         /\ Assistant(n, calls).id = n /\ Assistant(n, calls).calls = calls
         /\ Assistant(n, calls).kind = "assistant"
<1>1. <<>> \in Seq(Call) /\ 1 \in Nat \ {0}
  OBVIOUS
<1>2. /\ User(n).kind = "user" /\ User(n).id = n /\ User(n).calls = <<>>
      /\ Status(n).kind = "status" /\ Status(n).id = n /\ Status(n).calls = <<>>
      /\ Assistant(n, calls).kind = "assistant" /\ Assistant(n, calls).id = n
      /\ Assistant(n, calls).calls = calls
  BY DEF User, Status, Assistant
<1>3. ASSUME NEW kind \in {"user", "assistant", "status"}, NEW c \in Seq(Call),
             kind # "assistant" => c = <<>>
      PROVE  [kind |-> kind, id |-> n, calls |-> c, tool |-> "", size |-> 1] \in Message
  BY <1>1, <1>3 DEF Message
<1>4. User(n) \in Message
  BY <1>1, <1>3 DEF User
<1>5. Status(n) \in Message
  BY <1>1, <1>3 DEF Status
<1>6. Assistant(n, calls) \in Message
  BY <1>3 DEF Assistant
<1> QED BY <1>2, <1>4, <1>5, <1>6 DEF IsResult

Extends(new, ms) ==
  /\ Len(ms) \in Nat /\ Len(new) \in Nat /\ Len(ms) <= Len(new)
  /\ \A i \in 1 .. Len(ms) : new[i] = ms[i]

LEMMA AppendExtends ==
  ASSUME NEW ms, Conversation(ms), NEW m \in Message
  PROVE  Extends(Append(ms, m), ms) /\ Append(ms, m)[Len(ms) + 1] = m
BY DEF Conversation, Coherent, Extends

\* A message without calls behind the conversation.
LEMMA WriteOne ==
  ASSUME NEW ms, Conversation(ms), NEW m \in Message, ~ IsResult(m), m.id = Len(ms) + 1,
         m.calls = <<>>
  PROVE  /\ Conversation(Append(ms, m)) /\ Len(Append(ms, m)) = Len(ms) + 1
         /\ Extends(Append(ms, m), ms) /\ Append(ms, m)[Len(ms) + 1] = m
<1>1. Indices(m.calls) = {} /\ CallIds(m) = {}
  BY DEF Indices, CallIds
<1>2. Distinct(m)
  BY <1>1 DEF Distinct
<1>3. Conversation(Append(ms, m)) /\ Len(Append(ms, m)) = Len(ms) + 1
  BY <1>1, <1>2, ConversationAppend
<1>4. Extends(Append(ms, m), ms) /\ Append(ms, m)[Len(ms) + 1] = m
  BY AppendExtends
<1> QED BY <1>3, <1>4

\* Inputs behind the conversation.
LEMMA InputsWritten ==
  ASSUME NEW ms, Conversation(ms), NEW n \in Nat
  PROVE  Conversation(WithInputs(ms, n)) /\ Extends(WithInputs(ms, n), ms)
<1> DEFINE more == [k \in 1 .. n |-> User(Len(ms) + k)]
<1>1. ms \in Seq(Message) /\ Len(ms) \in Nat
  BY DEF Conversation, Coherent
<1>2. ASSUME NEW k \in 1 .. n
      PROVE  /\ more[k] \in Message /\ ~ IsResult(more[k]) /\ more[k].id = Len(ms) + k
             /\ more[k].calls = <<>>
  <2> DEFINE m == Len(ms) + k
  <2>1. <<>> \in Seq(Call) /\ m \in Nat
    BY <1>1
  <2>2. more[k] = User(m)
    OBVIOUS
  <2> HIDE DEF more, m
  <2>3. User(m) \in Message /\ ~ IsResult(User(m)) /\ User(m).id = m /\ User(m).calls = <<>>
    BY <2>1, Written
  <2>4. more[k] \in Message /\ ~ IsResult(more[k]) /\ more[k].id = m /\ more[k].calls = <<>>
    BY <2>2, <2>3
  <2> QED BY <2>4 DEF m
<1>3. more \in Seq(Message) /\ Len(more) = n
  <2>1. more = [k \in 1 .. n |-> more[k]]
    OBVIOUS
  <2> HIDE DEF more
  <2>2. more \in [1 .. n -> Message]
    BY <1>2, <2>1
  <2> QED BY <2>1, <2>2
<1>4. WithInputs(ms, n) = ms \o more
  BY DEF WithInputs
<1> HIDE DEF more
<1>5. Conversation(ms \o more)
  <2>1. \A k \in Indices(more) :
          ~ IsResult(more[k]) /\ more[k].id = Len(ms) + k /\ more[k].calls = <<>>
    BY <1>2, <1>3 DEF Indices
  <2> QED BY <1>3, <2>1, ConversationJoin
<1>6. Extends(ms \o more, ms)
  <2>1. Len(ms \o more) = Len(ms) + Len(more) /\ \A i \in 1 .. Len(ms) : (ms \o more)[i] = ms[i]
    BY <1>1, <1>3, Joined
  <2>2. Len(ms \o more) \in Nat /\ Len(ms) <= Len(ms \o more)
    BY <1>1, <1>3, <2>1
  <2> QED BY <1>1, <2>1, <2>2 DEF Extends
<1> QED BY <1>4, <1>5, <1>6

LEMMA InputsAre ==
  ASSUME NEW ms, Conversation(ms), NEW n \in Nat
  PROVE  \A i \in Indices(WithInputs(ms, n)) :
           i \in Indices(ms) \/ WithInputs(ms, n)[i].kind = "user"
<1> DEFINE more == [k \in 1 .. n |-> User(Len(ms) + k)]
           new == WithInputs(ms, n)
<1>1. ms \in Seq(Message) /\ Len(ms) \in Nat
  BY DEF Conversation, Coherent
<1>2. \A k \in 1 .. n : more[k] \in Message /\ more[k].kind = "user"
  <2> SUFFICES ASSUME NEW k \in 1 .. n PROVE more[k] \in Message /\ more[k].kind = "user"
    OBVIOUS
  <2> DEFINE m == Len(ms) + k
  <2>1. <<>> \in Seq(Call) /\ m \in Nat
    BY <1>1
  <2>2. more[k] = User(m)
    OBVIOUS
  <2> HIDE DEF more, m
  <2>3. User(m) \in Message /\ User(m).kind = "user"
    BY <2>1, Written
  <2> QED BY <2>2, <2>3
<1>3. new = ms \o more
  BY DEF WithInputs
<1>4. more \in Seq(Message) /\ Len(more) = n
  <2>1. more = [k \in 1 .. n |-> more[k]]
    OBVIOUS
  <2> HIDE DEF more
  <2>2. more \in [1 .. n -> Message]
    BY <1>2, <2>1
  <2> QED BY <2>1, <2>2
<1> HIDE DEF more, new
<1>5. Len(new) = Len(ms) + n /\ \A k \in 1 .. n : new[Len(ms) + k] = more[k]
  <2>1. ASSUME NEW T, NEW x \in Seq(T), NEW y \in Seq(T)
        PROVE  /\ Len(x \o y) = Len(x) + Len(y)
               /\ \A i \in 1 .. Len(y) : (x \o y)[Len(x) + i] = y[i]
    BY Joined
  <2>2. /\ Len(ms \o more) = Len(ms) + Len(more)
        /\ \A i \in 1 .. Len(more) : (ms \o more)[Len(ms) + i] = more[i]
    BY ONLY <1>1, <1>4, <2>1
  <2> QED BY <1>3, <1>4, <2>2
<1>6. ASSUME NEW i \in Indices(new), i \notin Indices(ms) PROVE new[i].kind = "user"
  <2>1. i - Len(ms) \in 1 .. n /\ Len(ms) + (i - Len(ms)) = i
    BY <1>1, <1>5, <1>6 DEF Indices
  <2> QED BY <1>2, <1>5, <2>1
<1> QED BY <1>6 DEF new

LEMMA AskedIs ==
  ASSUME Conversation(messages)
  PROVE  /\ Conversation(Asked) /\ Extends(Asked, messages) /\ Len(messages) \in Nat
         /\ \A i \in Indices(Asked) : \A id \in CallIds(Asked[i]) :
              i \in Indices(messages) /\ Asked[i] = messages[i]
<1>1. messages \in Seq(Message) /\ Len(messages) \in Nat /\ Len(messages) + 1 \in Nat
  BY DEF Conversation, Coherent
<1>2. CASE reporting
  <2> DEFINE m == Status(Len(messages) + 1)
  <2>1. m \in Message /\ ~ IsResult(m) /\ m.id = Len(messages) + 1 /\ m.calls = <<>>
    <3>1. <<>> \in Seq(Call)
      OBVIOUS
    <3> QED BY <1>1, <3>1, Written
  <2>2. Asked = Append(messages, m)
    BY <1>2 DEF Asked, NextId
  <2> HIDE DEF m
  <2>3. /\ Conversation(Asked) /\ Len(Asked) = Len(messages) + 1 /\ Extends(Asked, messages)
        /\ Asked[Len(messages) + 1] = m
    BY <1>1, <2>1, <2>2, WriteOne
  <2>4. CallIds(m) = {}
    BY <2>1 DEF CallIds
  <2>5. \A i \in Indices(Asked) : i \in 1 .. Len(messages) \/ i = Len(messages) + 1
    BY <1>1, <2>3 DEF Indices
  <2> QED BY <1>1, <2>3, <2>4, <2>5 DEF Extends, Indices
<1>3. CASE ~ reporting
  BY <1>1, <1>3 DEF Asked, Extends, Indices
<1> QED BY <1>2, <1>3

\* The answer and its calls behind the conversation.
LEMMA AnsweredIs ==
  ASSUME Conversation(messages), NEW calls \in Seq(Call),
         \A k, l \in Indices(calls) : calls[k][1] = calls[l][1] => k = l,
         \A i \in Indices(messages), k \in Indices(calls) : calls[k][1] \notin CallIds(messages[i])
  PROVE  /\ Conversation(Answered(calls)) /\ Extends(Answered(calls), messages)
         /\ Len(Answered(calls)) = Len(Asked) + 1
         /\ Answered(calls)[Len(Asked) + 1].calls = calls
         /\ Len(Asked) \in Nat
<1> DEFINE m == Assistant(Len(Asked) + 1, calls)
           n == Len(Asked)
<1>1. Conversation(Asked) /\ Extends(Asked, messages) /\ n \in Nat /\ n + 1 \in Nat
  BY AskedIs DEF Extends
<1>2. m \in Message /\ ~ IsResult(m) /\ m.id = n + 1 /\ m.calls = calls
  BY <1>1, Written
<1>3. Distinct(m) /\ \A i \in Indices(Asked) : CallIds(m) \cap CallIds(Asked[i]) = {}
  <2>1. Distinct(m)
    BY <1>2 DEF Distinct
  <2>2. CallIds(m) = {calls[k][1] : k \in Indices(calls)}
    BY <1>2 DEF CallIds, Indices
  <2> QED BY <2>1, <2>2, AskedIs
<1>4. Answered(calls) = Append(Asked, m)
  BY DEF Answered
<1> HIDE DEF m, n
<1>5. /\ Conversation(Append(Asked, m)) /\ Len(Append(Asked, m)) = n + 1
      /\ Extends(Append(Asked, m), Asked) /\ Append(Asked, m)[n + 1] = m
  BY <1>1, <1>2, <1>3, ConversationAppend, AppendExtends DEF n
<1>6. Extends(Append(Asked, m), messages)
  BY <1>1, <1>5 DEF Extends
<1> QED BY <1>1, <1>2, <1>4, <1>5, <1>6 DEF n

LEMMA AnswerWritten ==
  ASSUME Conversation(messages)
  PROVE  Conversation(Answered(<<>>)) /\ Extends(Answered(<<>>), messages)
<1> DEFINE calls == <<>>
<1>1. calls \in Seq(Call) /\ Indices(calls) = {}
  BY DEF Indices
<1> HIDE DEF calls
<1>2. Conversation(Answered(calls)) /\ Extends(Answered(calls), messages)
  BY <1>1, AnsweredIs
<1> QED BY <1>2 DEF calls

--------------------------------------------------------------------------------
(* The invariant *)

\* The conversation is well formed, whatever is covered ends before a user message and
\* before the turn, and a request is the view of the conversation as it stands.
TurnStands ==
  /\ turn \in 0 .. Len(messages)
  /\ CoveredWhole(messages, covered)
  /\ turn # 0 => covered < turn /\ messages[turn] = User(turn)

BatchStands ==
  awaited # <<>> =>
    /\ turn # 0 /\ Len(messages) # 0
    /\ messages[Len(messages)].calls = awaited

RequestStands ==
  IF request.made
  THEN turn # 0 /\ awaited = <<>> /\ request = Prepare(Visible, messages[turn])
  ELSE request = NotMade

ViewInv ==
  /\ Conversation(messages)
  /\ TurnStands
  /\ BatchStands
  /\ RequestStands

LEMMA TurnGrows ==
  ASSUME ViewInv, turn # 0, Conversation(messages'), Extends(messages', messages),
         turn' \in {0, turn}, covered' = covered
  PROVE  TurnStands'
<1>1. /\ Len(messages) \in Nat /\ Len(messages') \in Nat /\ Len(messages) <= Len(messages')
      /\ \A i \in 1 .. Len(messages) : messages'[i] = messages[i]
  BY DEF Extends
<1>2. turn \in 1 .. Len(messages) /\ covered \in 0 .. Len(messages) /\ covered < turn
      /\ messages[turn] = User(turn)
      /\ (covered < Len(messages) => messages[covered + 1].kind = "user")
  BY <1>1 DEF ViewInv, TurnStands, CoveredWhole
<1>3. covered + 1 \in 1 .. Len(messages) /\ covered < Len(messages)
      /\ covered \in 0 .. Len(messages') /\ turn \in 0 .. Len(messages')
  BY <1>1, <1>2
<1>4. messages'[covered + 1].kind = "user" /\ messages'[turn] = User(turn)
  BY <1>1, <1>2, <1>3
<1>5. 0 \in 0 .. Len(messages')
  BY <1>1
<1> QED BY <1>2, <1>3, <1>4, <1>5 DEF TurnStands, CoveredWhole

\* The view is one of the conversation and the budget alone.
LEMMA PrepareStays ==
  ASSUME messages' = messages, covered' = covered, turn' = turn, budget' = budget
  PROVE  Prepare(Visible, messages[turn])' = Prepare(Visible, messages[turn])
<1>1. Visible' = Visible
  BY DEF Visible
<1> QED BY <1>1 DEF Prepare, EmergencySnip, Bisect, Fits

LEMMA StutterKeeps ==
  ASSUME ViewInv, UNCHANGED vars
  PROVE  ViewInv'
<1>1. /\ messages' = messages /\ covered' = covered /\ turn' = turn /\ awaited' = awaited
      /\ request' = request /\ budget' = budget
  BY DEF vars, settings
<1>3. TurnStands' /\ BatchStands' /\ Conversation(messages)'
  BY <1>1 DEF ViewInv, TurnStands, BatchStands
<1>4. Prepare(Visible, messages[turn])' = Prepare(Visible, messages[turn])
  BY <1>1, PrepareStays
<1>5. RequestStands'
  BY <1>1, <1>4 DEF ViewInv, RequestStands
<1> QED BY <1>3, <1>5 DEF ViewInv

LEMMA UserWritten ==
  ASSUME Conversation(messages)
  PROVE  LET new == Append(messages, User(NextId))
         IN /\ Conversation(new) /\ Len(new) = Len(messages) + 1 /\ Extends(new, messages)
            /\ new[Len(messages) + 1] = User(Len(messages) + 1)
            /\ Len(messages) \in Nat
<1> DEFINE m == User(Len(messages) + 1)
<1>1. Len(messages) \in Nat /\ Len(messages) + 1 \in Nat
  BY DEF Conversation, Coherent
<1>2. m \in Message /\ ~ IsResult(m) /\ m.id = Len(messages) + 1 /\ m.calls = <<>>
  <2>1. <<>> \in Seq(Call)
    OBVIOUS
  <2> QED BY <1>1, <2>1, Written
<1>3. m = User(NextId)
  BY DEF NextId
<1> HIDE DEF m
<1>4. /\ Conversation(Append(messages, m)) /\ Len(Append(messages, m)) = Len(messages) + 1
      /\ Extends(Append(messages, m), messages) /\ Append(messages, m)[Len(messages) + 1] = m
  BY <1>2, WriteOne
<1> QED BY <1>1, <1>3, <1>4 DEF m

LEMMA BeginTurnKeeps ==
  ASSUME ViewInv, BeginTurn
  PROVE  ViewInv'
<1> DEFINE new == Append(messages, User(NextId))
           n == Len(messages)
<1>1. Conversation(messages) /\ TurnStands /\ BatchStands /\ RequestStands
  BY DEF ViewInv
<1>2. /\ turn = 0 /\ messages' = new /\ turn' = n + 1
      /\ covered' \in {covered} \cup {i - 1 : i \in {j \in Users(messages) : j > covered}}
      /\ awaited' = awaited /\ request' = request
  BY DEF BeginTurn, NextId
<1>3. /\ Conversation(new) /\ Len(new) = n + 1 /\ n \in Nat /\ new[n + 1] = User(n + 1)
      /\ \A i \in 1 .. n : new[i] = messages[i]
  BY <1>1, UserWritten DEF Extends
<1> HIDE DEF new, n
<1>4. /\ covered \in 0 .. n /\ (covered < n => messages[covered + 1].kind = "user")
  BY <1>1 DEF TurnStands, CoveredWhole, n
<1>5. covered' \in 0 .. n /\ new[covered' + 1].kind = "user"
  <2>1. CASE covered' = covered
    <3>1. CASE covered < n
      <4>1. covered + 1 \in 1 .. n
        BY <1>3, <1>4, <3>1
      <4> QED BY <1>3, <1>4, <2>1, <3>1, <4>1
    <3>2. CASE covered = n
      <4>1. User(n + 1).kind = "user"
        BY DEF User
      <4> QED BY <1>3, <1>4, <2>1, <3>2, <4>1
    <3> QED BY <1>3, <1>4, <3>1, <3>2
  <2>2. CASE covered' # covered
    <3>1. PICK i \in Users(messages) : covered' = i - 1
      BY <1>2, <2>2
    <3>2. i \in 1 .. n /\ messages[i].kind = "user"
      BY DEF Users, Indices, n
    <3>3. i - 1 \in 0 .. n /\ (i - 1) + 1 = i
      BY <1>3, <3>2
    <3> QED BY <1>3, <3>1, <3>2, <3>3
  <2> QED BY <2>1, <2>2
<1>6. TurnStands'
  <2>1. n + 1 \in 0 .. (n + 1) /\ covered' \in 0 .. (n + 1) /\ covered' < n + 1
    BY <1>3, <1>5
  <2> QED BY <1>2, <1>3, <1>5, <2>1 DEF TurnStands, CoveredWhole
<1>7. BatchStands' /\ RequestStands'
  BY <1>1, <1>2 DEF BatchStands, RequestStands, NotMade
<1> QED BY <1>2, <1>3, <1>6, <1>7 DEF ViewInv

LEMMA RequestKeeps ==
  ASSUME ViewInv, Request
  PROVE  ViewInv'
<1>1. /\ Conversation(messages) /\ TurnStands /\ BatchStands
      /\ turn # 0 /\ awaited = <<>> /\ request' = Prepare(Visible, messages[turn])
      /\ messages' = messages /\ covered' = covered /\ turn' = turn /\ awaited' = awaited
      /\ budget' = budget
  BY DEF ViewInv, Request, Requesting, settings
<1>3. Prepare(Visible, messages[turn])' = Prepare(Visible, messages[turn])
  BY <1>1, PrepareStays
<1>4. Coherent(Visible)
  <2>1. Coherent(messages) /\ CoveredWhole(messages, covered)
    BY <1>1 DEF Conversation, TurnStands
  <2> QED BY <2>1, ShownCoherent DEF Shown, Visible
<1>5. Prepare(Visible, messages[turn]).made
  BY <1>4, PreparedLegal
<1>6. RequestStands'
  BY <1>1, <1>3, <1>5 DEF RequestStands
<1>7. TurnStands' /\ BatchStands' /\ Conversation(messages)'
  BY <1>1 DEF TurnStands, BatchStands
<1> QED BY <1>6, <1>7 DEF ViewInv

\* A request that is sent was made.
LEMMA SentMade ==
  ASSUME ViewInv
  PROVE  /\ request.sent => request.made
         /\ request.made => turn # 0 /\ awaited = <<>>
         /\ ~ request.made => request = NotMade
BY DEF ViewInv, RequestStands, NotMade

LEMMA AnswerKeeps ==
  ASSUME ViewInv, Answer
  PROVE  ViewInv'
<1>1. Conversation(messages) /\ turn # 0 /\ awaited = <<>>
  BY SentMade DEF ViewInv, Answer
<1>2. PICK n \in Injections : messages' = WithInputs(Answered(<<>>), n)
  BY DEF Answer
<1>3. request' = NotMade /\ covered' = covered /\ awaited' = awaited /\ turn' \in {0, turn}
  BY DEF Answer
<1>4. Conversation(Answered(<<>>)) /\ Extends(Answered(<<>>), messages)
  BY <1>1, AnswerWritten
<1>5. n \in Nat
  BY DEF Injections
<1>6. Conversation(messages') /\ Extends(messages', messages)
  <2> DEFINE one == Answered(<<>>)
  <2>1. Conversation(one) /\ Extends(one, messages) /\ messages' = WithInputs(one, n)
    BY <1>2, <1>4
  <2> HIDE DEF one
  <2>2. Conversation(messages') /\ Extends(messages', one)
    BY <1>5, <2>1, InputsWritten
  <2> QED BY <2>1, <2>2 DEF Extends
<1>7. TurnStands'
  BY <1>1, <1>3, <1>6, TurnGrows
<1>8. BatchStands' /\ RequestStands'
  BY <1>1, <1>3 DEF BatchStands, RequestStands, NotMade
<1> QED BY <1>6, <1>7, <1>8 DEF ViewInv

\* The calls have ids of their own unless the provider repeats one.
LEMMA AskedCalls ==
  ASSUME Conversation(messages), NEW tools \in Batches, NEW ids \in [1 .. Len(tools) -> Ids],
         Unused(ids)
  PROVE  LET calls == [k \in 1 .. Len(tools) |-> <<ids[k], tools[k]>>]
         IN /\ calls \in Seq(Call)
            /\ \A k, l \in Indices(calls) : calls[k][1] = calls[l][1] => k = l
            /\ \A i \in Indices(messages), k \in Indices(calls) :
                 calls[k][1] \notin CallIds(messages[i])
<1> DEFINE n == Len(tools)
           calls == [k \in 1 .. n |-> <<ids[k], tools[k]>>]
<1>1. tools \in Seq(DOMAIN Tools) /\ n \in Nat
  BY ViewAssumption
<1>2. \A k \in 1 .. n : <<ids[k], tools[k]>> \in Call
  BY <1>1 DEF Call
<1> HIDE DEF n
<1>3. calls \in Seq(Call) /\ Len(calls) = n
  <2>1. calls \in [1 .. n -> Call]
    BY <1>2
  <2> HIDE DEF calls
  <2> QED BY <1>1, <2>1
<1>4. Indices(calls) = 1 .. n /\ \A k \in 1 .. n : calls[k][1] = ids[k]
  BY <1>3 DEF Indices
<1>5. \A k, l \in 1 .. n : ids[k] = ids[l] => k = l
  BY DEF Unused, IsInjective, n
<1>6. \A k \in 1 .. n : ids[k] \in ToSet(ids)
  BY DEF ToSet, n
<1>7. \A i \in Indices(messages), k \in 1 .. n : ids[k] \notin CallIds(messages[i])
  BY <1>6 DEF Unused
<1> HIDE DEF calls
<1> QED BY <1>3, <1>4, <1>5, <1>7 DEF calls, n

LEMMA AskToolsKeeps ==
  ASSUME ViewInv, ~ repeating, NEW tools \in Batches, NEW ids \in [1 .. Len(tools) -> Ids],
         AskTools(tools, ids)
  PROVE  ViewInv'
<1> DEFINE n == Len(Asked)
           calls == [k \in 1 .. Len(tools) |-> <<ids[k], tools[k]>>]
<1>1. Conversation(messages) /\ turn # 0 /\ awaited = <<>>
  BY SentMade DEF ViewInv, AskTools
<1>2. /\ request' = NotMade /\ covered' = covered /\ turn' = turn
      /\ messages' = Answered(calls) /\ awaited' = calls /\ Unused(ids)
  BY DEF AskTools
<1>3. /\ calls \in Seq(Call)
      /\ \A k, l \in Indices(calls) : calls[k][1] = calls[l][1] => k = l
      /\ \A i \in Indices(messages), k \in Indices(calls) : calls[k][1] \notin CallIds(messages[i])
  BY <1>1, <1>2, AskedCalls
<1> HIDE DEF calls
<1>4. /\ Conversation(Answered(calls)) /\ Extends(Answered(calls), messages)
      /\ Len(Answered(calls)) = n + 1 /\ Answered(calls)[n + 1].calls = calls /\ n \in Nat
  BY <1>1, <1>3, AnsweredIs
<1> HIDE DEF n
<1>5. TurnStands'
  BY <1>1, <1>2, <1>4, TurnGrows
<1>6. BatchStands' /\ RequestStands'
  BY <1>1, <1>2, <1>4 DEF BatchStands, RequestStands, NotMade
<1> QED BY <1>2, <1>4, <1>5, <1>6 DEF ViewInv

\* The results of a call, as the tools and the skills give them.
LEMMA OutcomeIs ==
  ASSUME NEW call \in Call, NEW m \in Outcomes(call)
  PROVE  m \in Message /\ IsResult(m) /\ m.id = call[1] /\ m.calls = <<>>
<1>1. call[1] \in Ids /\ call[2] \in DOMAIN Tools
  BY DEF Call
<1>2. Skills \subseteq DOMAIN Tools /\ \A tool \in DOMAIN Tools : Tools[tool] \subseteq Nat \ {0}
  BY ViewAssumption
<1>3. <<>> \in Seq(Call) /\ 1 \in Nat \ {0}
  OBVIOUS
<1>4. ASSUME NEW size \in Nat \ {0}
      PROVE  /\ Result(call, size) \in Message /\ IsResult(Result(call, size))
             /\ Result(call, size).id = call[1] /\ Result(call, size).calls = <<>>
             /\ Instruction(call, size) \in Message /\ IsResult(Instruction(call, size))
             /\ Instruction(call, size).id = call[1] /\ Instruction(call, size).calls = <<>>
  <2>1. ASSUME NEW x \in Ids, NEW y \in DOMAIN Tools, NEW kind \in {"result", "skill"}
        PROVE  [kind |-> kind, id |-> x, calls |-> <<>>, tool |-> y, size |-> size] \in Message
    BY <1>3, <2>1 DEF Message
  <2>2. Result(call, size) =
          [kind |-> "result", id |-> call[1], calls |-> <<>>, tool |-> call[2], size |-> size]
    BY DEF Result
  <2>3. Instruction(call, size) =
          [kind |-> "skill", id |-> call[1], calls |-> <<>>, tool |-> call[2], size |-> size]
    BY DEF Result, Instruction
  <2> QED BY <1>1, <2>1, <2>2, <2>3 DEF IsResult
<1>5. \/ \E size \in Nat \ {0} : m = Result(call, size)
      \/ \E size \in Nat \ {0} : m = Instruction(call, size)
  BY <1>1, <1>2, <1>3 DEF Outcomes
<1> QED BY <1>4, <1>5

\* What a batch gives: one result of each of its calls, in some order.
LEMMA ReceivedIs ==
  ASSUME ViewInv, ReceiveResults
  PROVE  \E outcome, order :
           /\ outcome \in Seq(Message) /\ messages' = messages \o outcome
           /\ awaited \in Seq(Call) /\ Len(outcome) = Len(awaited)
           /\ order \in [Indices(outcome) -> Indices(awaited)]
           /\ \A k, l \in Indices(outcome) : order[k] = order[l] => k = l
           /\ \A k \in Indices(outcome) : outcome[k] \in Outcomes(awaited[order[k]])
<1> DEFINE n == Len(messages)
           b == Len(awaited)
<1>1. Conversation(messages) /\ n # 0 /\ messages[n].calls = awaited
  BY DEF ViewInv, ReceiveResults, BatchStands
<1>2. awaited \in Seq(Call)
  <2>1. messages \in Seq(Message) /\ n \in Nat
    BY <1>1 DEF Conversation, Coherent
  <2>2. messages[n] \in Message
    BY <1>1, <2>1
  <2> QED BY <1>1, <2>2 DEF Message
<1>3. b \in Nat /\ DOMAIN awaited = 1 .. b /\ \A k \in 1 .. b : awaited[k] \in Call
  BY <1>2
<1>4. PICK order \in Completions(awaited) :
        \E outcome \in [DOMAIN awaited -> UNION {Outcomes(call) : call \in ToSet(awaited)}] :
          /\ \A k \in DOMAIN awaited :
               outcome[k] \in Outcomes([h \in DOMAIN awaited |-> awaited[order[h]]][k])
          /\ messages' = messages \o outcome
  BY DEF ReceiveResults
<1>5. PICK outcome \in [DOMAIN awaited -> UNION {Outcomes(call) : call \in ToSet(awaited)}] :
        /\ \A k \in DOMAIN awaited : outcome[k] \in Outcomes(awaited[order[k]])
        /\ messages' = messages \o outcome
  BY <1>4
<1>6. /\ order \in [1 .. b -> 1 .. b]
      /\ \A k, l \in 1 .. b : order[k] = order[l] => k = l
  BY DEF Completions, Indices, IsInjective
<1> HIDE DEF n, b
<1>7. \A k \in 1 .. b : outcome[k] \in Outcomes(awaited[order[k]]) /\ awaited[order[k]] \in Call
  BY <1>3, <1>5, <1>6
<1>8. \A k \in 1 .. b : outcome[k] \in Message
  BY <1>7, OutcomeIs
<1>9. outcome \in Seq(Message) /\ Len(outcome) = b
  <2>1. outcome = [k \in 1 .. b |-> outcome[k]]
    BY <1>3, <1>5
  <2>2. outcome \in [1 .. b -> Message]
    BY <1>8, <2>1
  <2> QED BY <1>3, <2>1, <2>2
<1>10. Indices(outcome) = 1 .. b /\ Indices(awaited) = 1 .. b
  BY <1>9 DEF Indices, b
<1> QED BY <1>2, <1>5, <1>6, <1>7, <1>9, <1>10 DEF b

LEMMA ReceiveResultsKeeps ==
  ASSUME ViewInv, ReceiveResults
  PROVE  ViewInv'
<1> DEFINE n == Len(messages)
<1>1. Conversation(messages) /\ turn # 0 /\ n # 0 /\ messages[n].calls = awaited
      /\ ~ request.made /\ request = NotMade
  BY SentMade DEF ViewInv, ReceiveResults, BatchStands
<1>2. /\ request' = request /\ covered' = covered /\ turn' = turn /\ awaited' = <<>>
  BY DEF ReceiveResults
<1>3. PICK outcome, order :
        /\ outcome \in Seq(Message) /\ messages' = messages \o outcome
        /\ awaited \in Seq(Call) /\ Len(outcome) = Len(awaited)
        /\ order \in [Indices(outcome) -> Indices(awaited)]
        /\ \A k, l \in Indices(outcome) : order[k] = order[l] => k = l
        /\ \A k \in Indices(outcome) : outcome[k] \in Outcomes(awaited[order[k]])
  BY ReceivedIs
<1>4. messages \in Seq(Message) /\ n \in Nat
  BY <1>1 DEF Conversation, Coherent
<1>5. \A k \in Indices(awaited) : awaited[k] \in Call /\ awaited[k][1] \in CallIds(messages[n])
  <2>1. \A k \in Indices(awaited) : awaited[k] \in Call
    BY <1>3 DEF Indices
  <2> QED BY <1>1, <2>1 DEF CallIds, Indices
<1>6. ASSUME NEW k \in Indices(outcome)
      PROVE  /\ IsResult(outcome[k]) /\ outcome[k].id = awaited[order[k]][1]
             /\ order[k] \in Indices(awaited) /\ outcome[k].id \in CallIds(messages[n])
  <2>1. order[k] \in Indices(awaited) /\ outcome[k] \in Outcomes(awaited[order[k]])
    BY <1>3
  <2>2. IsResult(outcome[k]) /\ outcome[k].id = awaited[order[k]][1]
    BY <1>5, <2>1, OutcomeIs
  <2> QED BY <1>5, <2>1, <2>2
<1>7. \A k, l \in Indices(outcome) : outcome[k].id = outcome[l].id => k = l
  <2>1. Distinct(messages[n])
    <3>1. n \in Indices(messages)
      BY <1>1, <1>4 DEF Indices
    <3> QED BY <1>1, <3>1 DEF Conversation, Coherent
  <2>2. \A k, l \in Indices(awaited) : awaited[k][1] = awaited[l][1] => k = l
    BY <1>1, <2>1 DEF Distinct
  <2> QED BY <1>3, <1>6, <2>2
<1>8. outcome \in Seq(Message)
  BY <1>3
<1>9. Conversation(messages \o outcome)
  BY <1>1, <1>6, <1>7, <1>8, ConversationResults
<1>10. Extends(messages \o outcome, messages)
  <2> HIDE DEF n
  <2>1. messages \in Seq(Message) /\ outcome \in Seq(Message)
    BY <1>4, <1>8
  <2> DEFINE a == messages
             b == outcome
  <2>2. a \in Seq(Message) /\ b \in Seq(Message)
    BY <2>1
  <2> HIDE DEF a, b
  <2>3. /\ Len(a) \in Nat /\ Len(b) \in Nat /\ Len(a \o b) = Len(a) + Len(b)
        /\ \A i \in 1 .. Len(a) : (a \o b)[i] = a[i]
    BY <2>2, Joined
  <2>4. Len(a \o b) \in Nat /\ Len(a) <= Len(a \o b)
    BY <2>3
  <2> QED BY <2>3, <2>4 DEF Extends, a, b
<1>11. Conversation(messages') /\ Extends(messages', messages)
  BY <1>3, <1>9, <1>10
<1>12. TurnStands'
  BY <1>1, <1>2, <1>11, TurnGrows
<1>13. BatchStands' /\ RequestStands'
  BY <1>1, <1>2 DEF BatchStands, RequestStands, NotMade
<1> QED BY <1>11, <1>12, <1>13 DEF ViewInv

LEMMA AddInputsKeeps ==
  ASSUME ViewInv, AddInputs
  PROVE  ViewInv'
<1>1. Conversation(messages) /\ turn # 0 /\ ~ request.made /\ request = NotMade
  BY SentMade DEF ViewInv, AddInputs
<1>2. /\ request' = request /\ covered' = covered /\ turn' = turn
      /\ awaited = <<>> /\ awaited' = awaited
  BY DEF AddInputs
<1>3. PICK n \in Injections : messages' = WithInputs(messages, n)
  BY DEF AddInputs
<1>4. n \in Nat
  BY DEF Injections
<1>5. Conversation(messages') /\ Extends(messages', messages)
  BY <1>1, <1>3, <1>4, InputsWritten
<1>6. TurnStands'
  BY <1>1, <1>2, <1>5, TurnGrows
<1>7. BatchStands' /\ RequestStands'
  BY <1>1, <1>2 DEF BatchStands, RequestStands, NotMade
<1> QED BY <1>5, <1>6, <1>7 DEF ViewInv

LEMMA RestartKeeps ==
  ASSUME ViewInv, Restart
  PROVE  ViewInv'
<1> DEFINE kept == IF request.sent THEN Asked ELSE messages
<1>1. Conversation(messages) /\ turn # 0
  BY SentMade DEF ViewInv, Restart, BatchStands
<1>2. request' = NotMade /\ covered' = covered /\ turn' = turn /\ awaited' = <<>>
  BY DEF Restart
<1>3. PICK n \in Injections : messages' = WithInputs(kept, n)
  BY DEF Restart
<1>4. n \in Nat
  BY DEF Injections
<1>5. Conversation(kept) /\ Extends(kept, messages)
  <2>1. Conversation(Asked) /\ Extends(Asked, messages)
    BY <1>1, AskedIs
  <2>2. Extends(messages, messages)
    BY <1>1 DEF Conversation, Coherent, Extends
  <2> QED BY <1>1, <2>1, <2>2
<1> HIDE DEF kept
<1>6. Conversation(messages') /\ Extends(messages', messages)
  <2>1. Conversation(messages') /\ Extends(messages', kept)
    BY <1>3, <1>4, <1>5, InputsWritten
  <2> QED BY <1>5, <2>1 DEF Extends
<1>7. TurnStands'
  BY <1>1, <1>2, <1>6, TurnGrows
<1>8. BatchStands' /\ RequestStands'
  BY <1>1, <1>2 DEF BatchStands, RequestStands, NotMade
<1> QED BY <1>6, <1>7, <1>8 DEF ViewInv

LEMMA ReachLimitKeeps ==
  ASSUME ViewInv, ReachLimit
  PROVE  ViewInv'
<1> DEFINE m == Assistant(NextId, <<>>)
<1>1. Conversation(messages) /\ turn # 0 /\ ~ request.made /\ request = NotMade /\ awaited = <<>>
  BY SentMade DEF ViewInv, ReachLimit, Requesting
<1>2. /\ request' = request /\ covered' = covered /\ turn' = 0 /\ awaited' = awaited
      /\ messages' = Append(messages, m)
  BY DEF ReachLimit
<1>3. m \in Message /\ ~ IsResult(m) /\ m.id = Len(messages) + 1 /\ m.calls = <<>>
  <2>1. <<>> \in Seq(Call)
    OBVIOUS
  <2>2. NextId \in Nat /\ NextId = Len(messages) + 1
    BY <1>1 DEF Conversation, Coherent, NextId
  <2>3. ASSUME NEW n \in Nat, NEW c \in Seq(Call)
        PROVE  Assistant(n, c) \in Message /\ ~ IsResult(Assistant(n, c))
               /\ Assistant(n, c).id = n /\ Assistant(n, c).calls = c
    BY Written
  <2>4. m \in Message /\ ~ IsResult(m) /\ m.id = NextId /\ m.calls = <<>>
    BY <2>1, <2>2, <2>3
  <2> QED BY <2>2, <2>4
<1> HIDE DEF m
<1>4. Conversation(messages') /\ Extends(messages', messages)
  BY <1>1, <1>2, <1>3, WriteOne
<1>5. TurnStands'
  BY <1>1, <1>2, <1>4, TurnGrows
<1>6. BatchStands' /\ RequestStands'
  BY <1>1, <1>2 DEF BatchStands, RequestStands, NotMade
<1> QED BY <1>4, <1>5, <1>6 DEF ViewInv

LEMMA RefuseKeeps ==
  ASSUME ViewInv, Refuse
  PROVE  ViewInv'
<1> DEFINE new == SubSeq(messages, 1, turn - 1)
           n == turn - 1
<1>1. Conversation(messages) /\ TurnStands /\ turn # 0 /\ awaited = <<>>
  BY SentMade DEF ViewInv, Refuse
<1>2. /\ request' = NotMade /\ covered' = covered /\ turn' = 0 /\ awaited' = awaited
      /\ messages' = new
  BY DEF Refuse
<1>3. Len(messages) \in Nat
  BY <1>1 DEF Conversation, Coherent
<1>4. /\ n \in 0 .. Len(messages) /\ covered \in 0 .. n
      /\ covered < n => covered < Len(messages)
      /\ covered < Len(messages) => messages[covered + 1].kind = "user"
  BY <1>1, <1>3 DEF TurnStands, CoveredWhole
<1>5. Conversation(new) /\ Len(new) = n /\ \A i \in 1 .. n : new[i] = messages[i]
  BY <1>1, <1>4, ConversationPrefix
<1> HIDE DEF new, n
<1>6. TurnStands'
  <2>1. covered < n => covered + 1 \in 1 .. n
    BY <1>3, <1>4
  <2>2. 0 \in 0 .. n
    BY <1>3, <1>4
  <2> QED BY <1>2, <1>4, <1>5, <2>1, <2>2 DEF TurnStands, CoveredWhole
<1>7. BatchStands' /\ RequestStands'
  BY <1>1, <1>2 DEF BatchStands, RequestStands, NotMade
<1> QED BY <1>2, <1>5, <1>6, <1>7 DEF ViewInv

LEMMA InitView == Init => ViewInv
<1> SUFFICES ASSUME Init PROVE ViewInv
  OBVIOUS
<1>1. messages = <<>> /\ covered = 0 /\ turn = 0 /\ awaited = <<>> /\ request = NotMade
  BY DEF Init
<1>2. /\ <<>> \in Seq(Message) /\ Len(<<>>) = 0 /\ Indices(<<>>) = {} /\ Results(<<>>) = {}
  BY DEF Indices, Results
<1>3. Conversation(messages)
  BY <1>1, <1>2 DEF Conversation, Coherent, Owned
<1>4. TurnStands /\ BatchStands /\ RequestStands
  BY <1>1, <1>2 DEF TurnStands, BatchStands, RequestStands, CoveredWhole, NotMade
<1> QED BY <1>3, <1>4 DEF ViewInv

LEMMA SettingsStay == [Next]_vars => UNCHANGED settings
BY DEF Next, vars, BeginTurn, Request, Answer, AskTools, ReceiveResults, AddInputs, Restart,
       ReachLimit, Refuse

LEMMA NextKeepsView ==
  ASSUME ~ repeating, ViewInv, [Next]_vars
  PROVE  ViewInv'
<1>1. CASE BeginTurn
  BY <1>1, BeginTurnKeeps
<1>2. CASE Request
  BY <1>2, RequestKeeps
<1>3. CASE Answer
  BY <1>3, AnswerKeeps
<1>4. CASE \E tools \in Batches : \E ids \in [1 .. Len(tools) -> Ids] : AskTools(tools, ids)
  BY <1>4, AskToolsKeeps
<1>5. CASE ReceiveResults
  BY <1>5, ReceiveResultsKeeps
<1>6. CASE AddInputs
  BY <1>6, AddInputsKeeps
<1>7. CASE Restart
  BY <1>7, RestartKeeps
<1>8. CASE ReachLimit
  BY <1>8, ReachLimitKeeps
<1>9. CASE Refuse
  BY <1>9, RefuseKeeps
<1>10. CASE UNCHANGED vars
  BY <1>10, StutterKeeps
<1> QED BY <1>1, <1>2, <1>3, <1>4, <1>5, <1>6, <1>7, <1>8, <1>9, <1>10 DEF Next

\* The conversation stays well formed, and a request is the view of it: prepare is
\* called with the messages the run has then, and nothing is written until the answer.
THEOREM RequestIsView == Spec => [](~ repeating => ViewInv)
<1> DEFINE Inv == ~ repeating => ViewInv
<1>1. Init => Inv
  BY InitView
<1>2. Inv /\ [Next]_vars => Inv'
  BY NextKeepsView, SettingsStay DEF settings
<1> QED BY <1>1, <1>2, PTL DEF Spec

LEMMA ViewInvShows ==
  ASSUME ViewInv, request.made
  PROVE  /\ Coherent(Visible) /\ Conversation(messages)
         /\ turn \in 1 .. Len(messages) /\ CoveredWhole(messages, covered) /\ covered < turn
         /\ messages[turn] = User(turn)
         /\ request = Prepare(Visible, messages[turn])
<1>1. /\ Conversation(messages) /\ TurnStands /\ turn # 0
      /\ request = Prepare(Visible, messages[turn])
  BY DEF ViewInv, RequestStands
<1>2. Coherent(messages) /\ CoveredWhole(messages, covered) /\ Len(messages) \in Nat
  BY <1>1 DEF Conversation, TurnStands, Coherent
<1>3. Coherent(Visible)
  BY <1>2, ShownCoherent DEF Shown, Visible
<1> QED BY <1>1, <1>2, <1>3 DEF TurnStands

\* Every request is one a provider takes, for conversations of any length, with any
\* tools, skills, batches and limits: each call is followed by one result of its own and
\* nothing but results of its batch between, and each result has its call.
THEOREM ViewIsLegal == Spec => []ViewLegal
<1>1. ViewInv => ViewLegal
  <2> SUFFICES ASSUME ViewInv, request.sent
               PROVE  /\ \A i \in Results(View) : \E j \in Declares(View, i) : j < i
                      /\ \A j \in Indices(View) : \A id \in CallIds(View[j]) :
                           \E i \in j + 1 .. Len(View) :
                             /\ {k \in Results(View) : View[k].id = id} = {i}
                             /\ \A k \in j + 1 .. i :
                                  IsResult(View[k]) /\ View[k].id \in CallIds(View[j])
    BY DEF ViewLegal
  <2>1. Coherent(Visible) /\ request = Prepare(Visible, messages[turn])
    BY SentMade, ViewInvShows
  <2>2. Legal(Prepare(Visible, messages[turn]).view)
    BY <2>1, PreparedLegal
  <2>3. Legal(View)
    BY <2>1, <2>2 DEF View
  <2> QED BY <2>3, LegalView
<1>2. (~ repeating => ViewInv) => ViewLegal
  BY <1>1 DEF ViewLegal
<1> QED BY <1>2, RequestIsView, PTL

--------------------------------------------------------------------------------
(* Sizes *)

\* The sum of the sizes, message by message.
LEMMA SumSteps ==
  ASSUME NEW ms \in Seq(Message)
  PROVE  \E f \in [0 .. Len(ms) -> Nat] :
           /\ Sum(ms) = f[Len(ms)] /\ f[0] = 0
           /\ \A n \in 1 .. Len(ms) : f[n] = f[n - 1] + ms[n].size
<1> DEFINE last == Len(ms)
           step == [n \in 1 .. last |-> [s \in Nat |-> s + ms[n].size]]
<1>1. last \in Nat /\ 0 \in Nat /\ \A n \in 1 .. last : ms[n].size \in Nat
  <2>1. last \in Nat /\ \A n \in 1 .. last : ms[n] \in Message
    OBVIOUS
  <2>2. \A m \in Message : m.size \in Nat
    BY DEF Message
  <2> QED BY <2>1, <2>2
<1>2. step \in [1 .. last -> [Nat -> Nat]]
  BY <1>1
<1>3. \A n \in 1 .. last, s \in Nat : step[n][s] = s + ms[n].size
  OBVIOUS
<1> HIDE DEF step, last
<1>4. PICK f \in [0 .. last -> Nat] : f[0] = 0 /\ \A n \in 1 .. last : f[n] = step[n][f[n - 1]]
  <2> DEFINE zero == 0
             S == Nat
  <2>1. last \in Nat /\ zero \in S /\ step \in [1 .. last -> [S -> S]]
    BY <1>1, <1>2
  <2> HIDE DEF zero, S
  <2>2. \E f \in [0 .. last -> S] :
          f[0] = zero /\ \A n \in 1 .. last : f[n] = step[n][f[n - 1]]
    BY <2>1, StepsExist
  <2> QED BY <2>2 DEF zero, S
<1>5. \A n \in 1 .. last : n # 0 /\ n \in 0 .. last /\ n - 1 \in 0 .. last
  BY <1>1
<1>6. \A n \in 1 .. last : f[n] = f[n - 1] + ms[n].size
  BY <1>3, <1>4, <1>5
<1> DEFINE Sums(s) == s = [n \in 0 .. last |-> IF n = 0 THEN 0 ELSE s[n - 1] + ms[n].size]
<1>7. Sums(f)
  <2>1. \A n \in 0 .. last : n = 0 \/ n \in 1 .. last
    BY <1>1
  <2>2. \A n \in 0 .. last : f[n] = IF n = 0 THEN 0 ELSE f[n - 1] + ms[n].size
    BY <1>4, <1>5, <1>6, <2>1
  <2> QED BY <1>4, <2>2
<1> DEFINE g == CHOOSE s : Sums(s)
<1>8. Sums(g)
  BY <1>7
<1>9. Sum(ms) = g[last]
  BY DEF Sum, last
<1> HIDE DEF g
<1>10. g[0] = 0 /\ \A n \in 1 .. last : g[n] = g[n - 1] + ms[n].size
  <2>1. 0 \in 0 .. last
    BY <1>1
  <2> QED BY <1>5, <1>8, <2>1
<1>11. \A n \in 0 .. last : g[n] \in Nat
  <2>1. ASSUME NEW n \in 1 .. last, g[n - 1] \in Nat PROVE g[n] \in Nat
    <3>1. g[n] = g[n - 1] + ms[n].size /\ ms[n].size \in Nat
      BY <1>1, <1>10
    <3> QED BY <2>1, <3>1
  <2> QED BY <1>1, <1>10, <2>1, StepsStay
<1>12. g \in [0 .. last -> Nat]
  BY <1>8, <1>11
<1> QED BY <1>9, <1>10, <1>12 DEF last

\* Messages that are found in others, in their order and no larger, need no more.
Embeds(at, small, big) ==
  /\ at \in [Indices(small) -> Indices(big)]
  /\ \A p, q \in Indices(small) : p < q => at[p] < at[q]
  /\ \A p \in Indices(small) : small[p].size <= big[at[p]].size

\* Two sums that grow by a smaller and a larger part stay in their order.
LEMMA SumsOrdered ==
  ASSUME NEW a \in Nat, NEW b \in Nat, NEW c \in Nat, NEW d \in Nat, NEW e \in Nat,
         a <= b, b <= c, d <= e
  PROVE  a + d <= c + e
OBVIOUS

\* A sum stays above what its first part is above.
LEMMA LaterSum ==
  ASSUME NEW a \in Nat, NEW b \in Nat, NEW c \in Nat, a <= b
  PROVE  a <= b + c
OBVIOUS

LEMMA EmbedSum ==
  ASSUME NEW small \in Seq(Message), NEW big \in Seq(Message), NEW at, Embeds(at, small, big)
  PROVE  Sum(small) <= Sum(big) /\ Sum(small) \in Nat /\ Sum(big) \in Nat
<1>1. PICK f \in [0 .. Len(small) -> Nat] :
        /\ Sum(small) = f[Len(small)] /\ f[0] = 0
        /\ \A n \in 1 .. Len(small) : f[n] = f[n - 1] + small[n].size
  BY SumSteps
<1>2. PICK g \in [0 .. Len(big) -> Nat] :
        /\ Sum(big) = g[Len(big)] /\ g[0] = 0
        /\ \A n \in 1 .. Len(big) : g[n] = g[n - 1] + big[n].size
  BY SumSteps
<1> DEFINE l == Len(small)
           m == Len(big)
<1>3. l \in Nat /\ m \in Nat
  OBVIOUS
<1>4. /\ \A n \in 1 .. l : small[n].size \in Nat
      /\ \A n \in 1 .. m : big[n].size \in Nat
  <2>1. (\A n \in 1 .. l : small[n] \in Message) /\ \A n \in 1 .. m : big[n] \in Message
    OBVIOUS
  <2> QED BY <2>1 DEF Message
<1>5. /\ at \in [1 .. l -> 1 .. m]
      /\ \A p, q \in 1 .. l : p < q => at[p] < at[q]
      /\ \A p \in 1 .. l : small[p].size <= big[at[p]].size
  BY DEF Embeds, Indices
<1>6. /\ f \in [0 .. l -> Nat] /\ f[0] = 0 /\ \A n \in 1 .. l : f[n] = f[n - 1] + small[n].size
      /\ g \in [0 .. m -> Nat] /\ g[0] = 0 /\ \A n \in 1 .. m : g[n] = g[n - 1] + big[n].size
  BY <1>1, <1>2
<1> HIDE DEF l, m
\* the sums only grow
<1>7. \A i \in 0 .. m : \A j \in 0 .. i : g[j] <= g[i]
  <2> DEFINE bad == {i \in 0 .. m : \E j \in 0 .. i : ~ (g[j] <= g[i])}
  <2> SUFFICES ASSUME bad # {} PROVE FALSE
    OBVIOUS
  <2>1. PICK i \in bad : \A k \in bad : i <= k
    <3>1. bad \in SUBSET Nat
      OBVIOUS
    <3> QED BY <3>1, LeastNumber
  <2>2. PICK j \in 0 .. i : ~ (g[j] <= g[i])
    BY <2>1
  <2>3. i \in 0 .. m /\ i # 0 /\ j # i /\ g[i] \in Nat
    <3>1. i \in 0 .. m
      BY <2>1
    <3>2. g[i] \in Nat
      BY <1>6, <3>1
    <3>3. g[i] <= g[i]
      BY <3>2
    <3>4. j # i
      BY <2>2, <3>3, Zenon
    <3>5. i # 0
      BY <3>4
    <3> QED BY <3>1, <3>2, <3>4, <3>5
  <2>4. i \in 1 .. m /\ i - 1 \in 0 .. m /\ ~ (i <= i - 1) /\ j \in 0 .. i - 1 /\ j \in 0 .. m
    BY <1>3, <2>2, <2>3
  <2>5. g[j] <= g[i - 1]
    BY <2>1, <2>4
  <2>6. g[i] = g[i - 1] + big[i].size /\ big[i].size \in Nat
    BY <1>4, <1>6, <2>4
  <2>7. g[i - 1] \in Nat /\ g[j] \in Nat
    BY <1>6, <2>4
  <2>8. g[j] <= g[i - 1] + big[i].size
    BY <2>5, <2>6, <2>7, LaterSum, Zenon
  <2> QED BY <2>2, <2>6, <2>8, Zenon
<1> DEFINE To(p) == IF p = 0 THEN 0 ELSE at[p]
<1>8. \A p \in 0 .. l : To(p) \in 0 .. m
  BY <1>3, <1>5
<1>9. \A p \in 1 .. l : To(p - 1) < To(p) /\ To(p) \in 1 .. m /\ To(p) - 1 \in 0 .. m
  BY <1>3, <1>5
<1>10. \A p \in 1 .. l : small[p].size <= big[To(p)].size
  BY <1>3, <1>5
<1> HIDE DEF To
<1>11. \A p \in 0 .. l : f[p] <= g[To(p)]
  <2> DEFINE bad == {p \in 0 .. l : ~ (f[p] <= g[To(p)])}
  <2> SUFFICES ASSUME bad # {} PROVE FALSE
    OBVIOUS
  <2>1. PICK p \in bad : \A k \in bad : p <= k
    <3>1. bad \in SUBSET Nat
      OBVIOUS
    <3> QED BY <3>1, LeastNumber
  <2>2. p \in 0 .. l /\ ~ (f[p] <= g[To(p)])
    BY <2>1
  <2>3. p # 0
    <3>1. To(0) \in 0 .. m
      BY <1>3, <1>8
    <3>2. g[To(0)] \in Nat
      BY <1>6, <3>1
    <3> QED BY <1>6, <2>2, <3>2
  <2>4. p \in 1 .. l /\ p - 1 \in 0 .. l /\ ~ (p <= p - 1)
    BY <1>3, <2>2, <2>3
  <2>5. f[p - 1] <= g[To(p - 1)]
    BY <2>1, <2>4
  <2>6. /\ f[p] = f[p - 1] + small[p].size /\ small[p].size \in Nat /\ f[p - 1] \in Nat
    BY <1>4, <1>6, <2>4
  <2>7. /\ g[To(p)] = g[To(p) - 1] + big[To(p)].size /\ big[To(p)].size \in Nat
        /\ g[To(p) - 1] \in Nat
    BY <1>4, <1>6, <1>9, <2>4
  <2>8. g[To(p - 1)] <= g[To(p) - 1] /\ g[To(p - 1)] \in Nat
    <3>1. To(p - 1) \in 0 .. To(p) - 1 /\ To(p - 1) \in 0 .. m
      BY <1>3, <1>8, <1>9, <2>4
    <3> QED BY <1>6, <1>7, <1>9, <2>4, <3>1
  <2>9. small[p].size <= big[To(p)].size
    BY <1>10, <2>4
  <2>10. f[p - 1] + small[p].size <= g[To(p) - 1] + big[To(p)].size
    BY <2>5, <2>6, <2>7, <2>8, <2>9, SumsOrdered
  <2>11. f[p] <= g[To(p)]
    BY <2>6, <2>7, <2>10, Zenon
  <2> QED BY <2>2, <2>11
<1>12. l \in 0 .. l /\ m \in 0 .. m /\ To(l) \in 0 .. m
  BY <1>3, <1>8
<1>13. f[l] <= g[To(l)] /\ g[To(l)] <= g[m] /\ f[l] \in Nat /\ g[m] \in Nat /\ g[To(l)] \in Nat
  BY <1>6, <1>7, <1>11, <1>12
<1>14. f[l] <= g[m]
  BY <1>13
<1> QED BY <1>1, <1>2, <1>13, <1>14 DEF l, m


\* A choice that leaves nothing out changes nothing.
LEMMA AtAll ==
  ASSUME NEW T, NEW seq \in Seq(T), NEW places, Indices(seq) \subseteq places
  PROVE  At(seq, places) = seq
<1> DEFINE part == At(seq, places)
           l == Len(part)
           n == Len(seq)
<1>1. part \in Seq(T) /\ \E pos : Picks(pos, part, seq, places)
  BY AtPicks
<1> HIDE DEF part
<1>2. PICK pos : Picks(pos, part, seq, places)
  BY <1>1
<1>3. l \in Nat /\ n \in Nat
  BY <1>1
<1>4. /\ \A p \in 1 .. l : pos[p] \in 1 .. n /\ part[p] = seq[pos[p]]
      /\ \A p, q \in 1 .. l : p < q => pos[p] < pos[q]
      /\ \A i \in 1 .. n : \E p \in 1 .. l : pos[p] = i
  BY <1>2 DEF Picks, Indices
<1> HIDE DEF l, n
<1>5. \A p \in 1 .. l : pos[p] = p
  <2> DEFINE bad == {p \in 1 .. l : pos[p] # p}
  <2> SUFFICES ASSUME bad # {} PROVE FALSE
    OBVIOUS
  <2>1. PICK p \in bad : \A k \in bad : p <= k
    <3>1. bad \in SUBSET Nat
      BY <1>3
    <3> QED BY <3>1, LeastNumber
  <2>2. p \in 1 .. l /\ pos[p] # p /\ pos[p] \in 1 .. n
    BY <1>4, <2>1
  <2>3. ~ (pos[p] < p)
    <3> SUFFICES ASSUME pos[p] < p PROVE FALSE
      OBVIOUS
    <3> DEFINE q == pos[p]
    <3>1. q \in 1 .. l /\ q < p
      BY <1>3, <2>2
    <3>2. q \notin bad
      BY <1>3, <2>1, <2>2, <3>1
    <3>3. pos[q] = q /\ pos[q] < pos[p]
      BY <1>4, <2>2, <3>1, <3>2
    <3> QED BY <1>3, <2>2, <3>3
  <2>4. p \in 1 .. n /\ p < pos[p]
    BY <1>3, <2>2, <2>3
  <2>5. PICK q \in 1 .. l : pos[q] = p
    BY <1>4, <2>4
  <2>6. q < p
    <3>1. q # p /\ ~ (p < q)
      BY <1>3, <1>4, <2>2, <2>4, <2>5
    <3> QED BY <1>3, <2>2, <3>1
  <2>7. q \notin bad
    BY <1>3, <2>1, <2>2, <2>6
  <2> QED BY <1>3, <2>2, <2>5, <2>6, <2>7
<1>6. l = n
  <2>1. ASSUME l # 0 PROVE l <= n
    <3>1. l \in 1 .. l
      BY <1>3, <2>1
    <3>2. pos[l] = l /\ pos[l] \in 1 .. n
      BY <1>4, <1>5, <3>1
    <3> QED BY <1>3, <3>2
  <2>2. ASSUME n # 0 PROVE n <= l
    <3>1. n \in 1 .. n
      BY <1>3, <2>2
    <3>2. PICK p \in 1 .. l : pos[p] = n
      BY <1>4, <3>1
    <3>3. pos[p] = p
      BY <1>5
    <3> QED BY <1>3, <3>2, <3>3
  <2> QED BY <1>3, <2>1, <2>2
<1>7. \A p \in 1 .. l : part[p] = seq[p]
  BY <1>4, <1>5
<1> QED BY <1>1, <1>6, <1>7 DEF l, n, part

\* Fewer messages need no more.
LEMMA FewerSum ==
  ASSUME NEW ms \in Seq(Message), NEW few, NEW many, few \subseteq many
  PROVE  /\ Sum(At(ms, few)) <= Sum(At(ms, many))
         /\ Sum(At(ms, few)) \in Nat /\ Sum(At(ms, many)) \in Nat
<1> DEFINE small == At(ms, few)
           big == At(ms, many)
<1>1. /\ small \in Seq(Message) /\ big \in Seq(Message)
      /\ \E pos : Picks(pos, small, ms, few)
      /\ \E pos : Picks(pos, big, ms, many)
  BY AtPicks
<1> HIDE DEF small, big
<1>2. PICK s : Picks(s, small, ms, few)
  BY <1>1
<1>3. PICK b : Picks(b, big, ms, many)
  BY <1>1
<1>4. \A p \in Indices(small) : \E q \in Indices(big) : b[q] = s[p]
  BY <1>2, <1>3 DEF Picks
<1> DEFINE at == [p \in Indices(small) |-> CHOOSE q \in Indices(big) : b[q] = s[p]]
<1>5. \A p \in Indices(small) : at[p] \in Indices(big) /\ b[at[p]] = s[p]
  BY <1>4
<1>6. at \in [Indices(small) -> Indices(big)]
  BY <1>5
<1> HIDE DEF at
<1>7. \A p \in Indices(small) : small[p].size <= big[at[p]].size
  <2> SUFFICES ASSUME NEW p \in Indices(small) PROVE small[p].size <= big[at[p]].size
    OBVIOUS
  <2>1. big[at[p]] = small[p]
    BY <1>2, <1>3, <1>5 DEF Picks
  <2>2. small[p] \in Message
    BY <1>1 DEF Indices
  <2>3. small[p].size \in Nat
    BY <2>2 DEF Message
  <2> QED BY <2>1, <2>3
<1>8. \A p, q \in Indices(small) : p < q => at[p] < at[q]
  <2> SUFFICES ASSUME NEW p \in Indices(small), NEW q \in Indices(small), p < q
               PROVE  at[p] < at[q]
    OBVIOUS
  <2>1. s[p] < s[q] /\ s[p] \in Int /\ s[q] \in Int
    BY <1>2 DEF Picks, Indices
  <2>2. /\ at[p] \in Indices(big) /\ at[q] \in Indices(big) /\ at[p] \in Int /\ at[q] \in Int
        /\ b[at[p]] < b[at[q]] /\ b[at[p]] \in Int /\ b[at[q]] \in Int
    BY <1>5, <2>1 DEF Indices
  <2>3. at[q] < at[p] => b[at[q]] < b[at[p]]
    BY <1>3, <2>2 DEF Picks
  <2> QED BY <2>2, <2>3
<1>9. Embeds(at, small, big)
  BY <1>6, <1>7, <1>8 DEF Embeds
<1> QED BY <1>1, <1>9, EmbedSum DEF small, big

\* Messages that shrink need no more.
LEMMA ResizedSum ==
  ASSUME NEW ms \in Seq(Message), NEW new \in Seq(Message), Len(new) = Len(ms),
         \A i \in Indices(ms) : new[i].size <= ms[i].size
  PROVE  Sum(new) <= Sum(ms) /\ Sum(new) \in Nat /\ Sum(ms) \in Nat
<1> DEFINE at == [i \in Indices(ms) |-> i]
<1>1. Indices(new) = Indices(ms)
  BY DEF Indices
<1>2. /\ at \in [Indices(new) -> Indices(ms)] /\ \A i \in Indices(new) : at[i] = i
  BY <1>1
<1> HIDE DEF at
<1>3. Embeds(at, new, ms)
  BY <1>1, <1>2 DEF Embeds
<1> QED BY <1>3, EmbedSum

LEMMA LessSum ==
  ASSUME NEW ms \in Seq(Message), NEW places
  PROVE  Sum(At(ms, places)) <= Sum(ms) /\ Sum(At(ms, places)) \in Nat /\ Sum(ms) \in Nat
<1> DEFINE all == Indices(ms) \cup places
<1>1. At(ms, all) = ms
  BY AtAll
<1>2. places \subseteq all
  OBVIOUS
<1> HIDE DEF all
<1>3. /\ Sum(At(ms, places)) <= Sum(At(ms, all))
      /\ Sum(At(ms, places)) \in Nat /\ Sum(At(ms, all)) \in Nat
  BY <1>2, FewerSum
<1> QED BY <1>1, <1>3

--------------------------------------------------------------------------------
(* Where the messages of a view come from *)

\* User messages and instructions stay as they are.
Same(m, o) ==
  m.kind = o.kind /\ m.id = o.id /\ (m.kind \in {"user", "skill"} => m = o)

\* The messages of new in the order they had in ms; those from nowhere are backfilled.
Follows(src, new, ms) ==
  /\ new \in Seq(Message)
  /\ src \in [Indices(new) -> {0} \cup Indices(ms)]
  /\ \A p, q \in Indices(new) : p < q /\ src[q] # 0 => src[p] < src[q]
  /\ \A p \in Indices(new) : src[p] = 0 => new[p].kind = "backfilled"
  /\ \A p \in Indices(new) : src[p] # 0 => Same(new[p], ms[src[p]])

Through(s, t, new) == [p \in Indices(new) |-> IF s[p] = 0 THEN 0 ELSE t[s[p]]]

LEMMA FollowsThrough ==
  ASSUME NEW new, NEW mid, NEW ms, NEW s, NEW t, mid \in Seq(Message), ms \in Seq(Message),
         Follows(s, new, mid), Follows(t, mid, ms)
  PROVE  Follows(Through(s, t, new), new, ms)
<1> DEFINE src == Through(s, t, new)
<1>1. /\ \A p \in Indices(new) : src[p] = IF s[p] = 0 THEN 0 ELSE t[s[p]]
      /\ src = [p \in Indices(new) |-> src[p]]
  BY DEF Through
<1> HIDE DEF src
<1>2. \A p \in Indices(new) : s[p] # 0 => s[p] \in Indices(mid)
  BY DEF Follows
<1>3. \A k \in Indices(mid) : t[k] \in {0} \cup Indices(ms)
  BY DEF Follows
<1>4. src \in [Indices(new) -> {0} \cup Indices(ms)]
  BY <1>1, <1>2, <1>3
<1>5. \A k \in Indices(ms) : k \in Nat /\ 0 < k
  BY DEF Indices
<1>6. ASSUME NEW p \in Indices(new), NEW q \in Indices(new), p < q, src[q] # 0
      PROVE  src[p] < src[q]
  <2>1. s[q] # 0 /\ s[q] \in Indices(mid) /\ t[s[q]] # 0 /\ src[q] = t[s[q]] /\ src[q] \in Indices(ms)
    BY <1>1, <1>2, <1>3, <1>6
  <2>2. CASE s[p] = 0
    BY <1>1, <1>5, <2>1, <2>2
  <2>3. CASE s[p] # 0
    <3>1. s[p] \in Indices(mid) /\ s[p] < s[q] /\ src[p] = t[s[p]]
      BY <1>1, <1>2, <1>6, <2>1, <2>3 DEF Follows
    <3> QED BY <2>1, <3>1 DEF Follows
  <2> QED BY <2>2, <2>3
<1>7. ASSUME NEW p \in Indices(new), src[p] = 0 PROVE new[p].kind = "backfilled"
  <2>1. CASE s[p] = 0
    BY <2>1 DEF Follows
  <2>2. CASE s[p] # 0
    <3>1. s[p] \in Indices(mid) /\ t[s[p]] = 0 /\ Same(new[p], mid[s[p]])
      BY <1>1, <1>2, <1>7, <2>2 DEF Follows
    <3>2. mid[s[p]].kind = "backfilled"
      BY <3>1 DEF Follows
    <3> QED BY <3>1, <3>2 DEF Same
  <2> QED BY <2>1, <2>2
<1>8. ASSUME NEW p \in Indices(new), src[p] # 0 PROVE Same(new[p], ms[src[p]])
  <2>1. s[p] # 0 /\ s[p] \in Indices(mid) /\ src[p] = t[s[p]] /\ t[s[p]] # 0
    BY <1>1, <1>2, <1>8
  <2>2. Same(new[p], mid[s[p]]) /\ Same(mid[s[p]], ms[src[p]])
    BY <2>1 DEF Follows
  <2> QED BY <2>2 DEF Same
<1>9. new \in Seq(Message)
  BY DEF Follows
<1>10. Follows(src, new, ms)
  BY <1>4, <1>6, <1>7, <1>8, <1>9 DEF Follows
<1> QED BY <1>10 DEF src

\* A choice of the messages.
Culls(src, new, ms, places) ==
  /\ Follows(src, new, ms)
  /\ \A p \in Indices(new) : src[p] \in Indices(ms) \cap places /\ new[p] = ms[src[p]]
  /\ \A i \in Indices(ms) \cap places : \E p \in Indices(new) : src[p] = i

LEMMA AtFollows ==
  ASSUME NEW ms \in Seq(Message), NEW places
  PROVE  /\ At(ms, places) \in Seq(Message)
         /\ \E src : Culls(src, At(ms, places), ms, places)
<1> DEFINE new == At(ms, places)
<1>1. new \in Seq(Message) /\ \E pos : Picks(pos, new, ms, places)
  BY AtPicks
<1> HIDE DEF new
<1>2. PICK pos : Picks(pos, new, ms, places)
  BY <1>1
<1>3. /\ pos \in [Indices(new) -> {0} \cup Indices(ms)]
      /\ \A p \in Indices(new) : pos[p] \in Indices(ms) \cap places /\ new[p] = ms[pos[p]]
      /\ \A p, q \in Indices(new) : p < q => pos[p] < pos[q]
      /\ \A i \in Indices(ms) \cap places : \E p \in Indices(new) : pos[p] = i
  BY <1>2 DEF Picks
<1>4. \A k \in Indices(ms) : k # 0
  BY DEF Indices
<1>5. \A p \in Indices(new) : pos[p] # 0 /\ Same(new[p], ms[pos[p]])
  BY <1>3, <1>4 DEF Same
<1>6. Follows(pos, new, ms)
  BY <1>1, <1>3, <1>5 DEF Follows
<1>7. Culls(pos, new, ms, places)
  BY <1>3, <1>6 DEF Culls
<1> QED BY <1>1, <1>7 DEF new

Itself(ms) == [i \in Indices(ms) |-> i]

\* Messages whose sizes change, but for the instructions and what the user said.
LEMMA ResizeFollows ==
  ASSUME NEW ms \in Seq(Message), NEW new, Resizes(new, ms),
         \A i \in Indices(ms) : ms[i].kind \in {"user", "skill"} => new[i] = ms[i]
  PROVE  Follows(Itself(ms), new, ms) /\ \A i \in Indices(new) : i \in Indices(ms) /\ Itself(ms)[i] = i
<1>1. Indices(new) = Indices(ms) /\ new \in Seq(Message)
  BY DEF Resizes, Indices
<1>2. \A i \in Indices(ms) : Itself(ms)[i] = i /\ i # 0
  BY DEF Itself, Indices
<1>3. Itself(ms) \in [Indices(new) -> {0} \cup Indices(ms)]
  BY <1>1 DEF Itself
<1>4. \A i \in Indices(ms) : Same(new[i], ms[i])
  BY DEF Resizes, Same
<1> QED BY <1>1, <1>2, <1>3, <1>4 DEF Follows

\* A result whose call is there is no orphan.
LEMMA DropsNothing ==
  ASSUME NEW ms, Coherent(ms), Owned(ms)
  PROVE  DropOrphanToolResults(ms) = ms
<1> DEFINE places == {i \in Indices(ms) : i \in Results(ms) => \E j \in Declares(ms, i) : j < i}
<1>1. ASSUME NEW i \in Indices(ms), i \in Results(ms)
      PROVE  \E j \in Declares(ms, i) : j < i
  <2>1. PICK j \in Indices(ms) : ms[i].id \in CallIds(ms[j])
    BY <1>1 DEF Owned
  <2>2. j \in Declares(ms, i) /\ j < i
    BY <1>1, <2>1 DEF Declares, Coherent
  <2> QED BY <2>2
<1>2. Indices(ms) \subseteq places /\ ms \in Seq(Message)
  BY <1>1 DEF Coherent
<1>3. DropOrphanToolResults(ms) = At(ms, places)
  BY DEF DropOrphanToolResults
<1> HIDE DEF places
<1> QED BY <1>2, <1>3, AtAll

\* Every message is still there behind the repair, and nothing but what is backfilled
\* comes to them.
Filled(src, at, new, ms) ==
  /\ Follows(src, new, ms)
  /\ at \in [Indices(ms) -> Indices(new)]
  /\ \A i, j \in Indices(ms) : i < j => at[i] < at[j]
  /\ \A i \in Indices(ms) : new[at[i]] = ms[i] /\ src[at[i]] = i
  /\ \A p \in Indices(new) : src[p] # 0 => new[p] = ms[src[p]]

LEMMA BackfillFollows ==
  ASSUME NEW ms, Coherent(ms)
  PROVE  \E src, at : Filled(src, at, BackfillMissingToolResults(ms), ms)
<1> DEFINE blocks == [j \in Indices(ms) |-> BackfillBlock(ms, j)]
           new == FlattenSeq(blocks)
<1>1. BackfillMissingToolResults(ms) = new
  BY DEF BackfillMissingToolResults, BackfillBlock
<1>2. ms \in Seq(Message) /\ Len(ms) \in Nat
  BY DEF Coherent
<1>3. \A j \in Indices(ms) : blocks[j] = BackfillBlock(ms, j) /\ blocks[j] \in Seq(Message)
  BY BackfillBlockIs
<1>4. blocks = [j \in 1 .. Len(ms) |-> blocks[j]]
  BY DEF Indices
<1> HIDE DEF blocks
<1>5. blocks \in Seq(Seq(Message)) /\ Indices(blocks) = Indices(ms)
  <2>1. blocks \in [1 .. Len(ms) -> Seq(Message)]
    BY <1>3, <1>4 DEF Indices
  <2> QED BY <1>2, <2>1 DEF Indices
<1>6. new \in Seq(Message) /\ \E blk, off : Splits(blk, off, new, blocks)
  BY <1>5, FlattenSplits
<1> HIDE DEF new
<1>7. PICK blk, off : Splits(blk, off, new, blocks)
  BY <1>6
<1>8. \A p \in Indices(new) : /\ blk[p] \in Indices(ms) /\ off[p] \in Indices(BackfillBlock(ms, blk[p]))
                              /\ new[p] = BackfillBlock(ms, blk[p])[off[p]]
  BY <1>3, <1>5, <1>7 DEF Splits
<1>9. \A j \in Indices(ms) : \E p \in Indices(new) : blk[p] = j /\ off[p] = 1
  <2>1. \A j \in Indices(blocks) : \A o \in Indices(blocks[j]) :
          \E p \in Indices(new) : blk[p] = j /\ off[p] = o
    BY <1>7 DEF Splits
  <2>2. \A j \in Indices(ms) : 1 \in Indices(BackfillBlock(ms, j))
    BY BackfillBlockIs
  <2>3. ASSUME NEW j \in Indices(ms) PROVE \E p \in Indices(new) : blk[p] = j /\ off[p] = 1
    <3>1. j \in Indices(blocks) /\ 1 \in Indices(blocks[j])
      BY <1>3, <1>5, <2>2
    <3> QED BY <2>1, <3>1
  <2> QED BY <2>3
<1>10. /\ Len(new) \in Nat
       /\ \A p \in Indices(new) : p \in Int /\ blk[p] \in Int /\ off[p] \in Int /\ 0 < blk[p]
  <2>1. \A j \in Indices(ms) : j \in Int /\ 0 < j
    BY <1>2 DEF Indices
  <2>2. \A p \in Indices(new) : p \in Int
    BY <1>6 DEF Indices
  <2> QED BY <1>6, <1>7, <1>8, <2>1, <2>2 DEF Splits
<1>11. \A p, q \in Indices(new) : p < q => blk[p] < blk[q] \/ (blk[p] = blk[q] /\ off[p] < off[q])
  BY <1>7 DEF Splits
<1>12. ASSUME NEW p \in Indices(new)
       PROVE  /\ off[p] = 1 => new[p] = ms[blk[p]]
              /\ off[p] # 1 => new[p].kind = "backfilled"
  BY <1>8, BackfillBlockIs
<1> DEFINE src == [p \in Indices(new) |-> IF off[p] = 1 THEN blk[p] ELSE 0]
           at == [i \in Indices(ms) |-> CHOOSE p \in Indices(new) : blk[p] = i /\ off[p] = 1]
<1>13. \A p \in Indices(new) : src[p] = IF off[p] = 1 THEN blk[p] ELSE 0
  OBVIOUS
<1>14. \A i \in Indices(ms) : at[i] \in Indices(new) /\ blk[at[i]] = i /\ off[at[i]] = 1
  BY <1>9
<1>15. src \in [Indices(new) -> {0} \cup Indices(ms)] /\ at \in [Indices(ms) -> Indices(new)]
  BY <1>8, <1>14
<1> HIDE DEF src, at
<1>16. \A p \in Indices(new) : /\ src[p] # 0 => off[p] = 1 /\ src[p] = blk[p] /\ new[p] = ms[src[p]]
                               /\ src[p] = 0 => off[p] # 1
  BY <1>10, <1>12, <1>13
<1>17. \A p, q \in Indices(new) : p < q /\ src[q] # 0 => src[p] < src[q]
  BY <1>10, <1>11, <1>13, <1>16
<1>18. Follows(src, new, ms)
  BY <1>6, <1>12, <1>15, <1>16, <1>17 DEF Follows, Same
<1>19. \A i \in Indices(ms) : new[at[i]] = ms[i] /\ src[at[i]] = i
  BY <1>12, <1>13, <1>14
<1>20. \A i, j \in Indices(ms) : i < j => at[i] < at[j]
  <2> SUFFICES ASSUME NEW i \in Indices(ms), NEW j \in Indices(ms), i < j PROVE at[i] < at[j]
    OBVIOUS
  <2>1. /\ at[i] \in Indices(new) /\ at[j] \in Indices(new) /\ at[i] \in Int /\ at[j] \in Int
        /\ blk[at[i]] = i /\ blk[at[j]] = j /\ off[at[i]] = 1 /\ off[at[j]] = 1
        /\ i \in Int /\ j \in Int
    BY <1>2, <1>10, <1>14 DEF Indices
  <2>2. at[j] < at[i] => blk[at[j]] < blk[at[i]] \/ off[at[j]] < off[at[i]]
    BY <1>11, <2>1
  <2> QED BY <2>1, <2>2
<1>21. Filled(src, at, new, ms)
  BY <1>15, <1>16, <1>18, <1>19, <1>20 DEF Filled
<1> QED BY <1>1, <1>21

\* Where no result is an orphan, a repair only adds.
LEMMA RepairedFollows ==
  ASSUME NEW ms, Coherent(ms), Owned(ms)
  PROVE  /\ \E src, at : Filled(src, at, Repaired(ms), ms)
         /\ Legal(Repaired(ms))
         /\ Sum(ms) <= Sum(Repaired(ms)) /\ Sum(ms) \in Nat /\ Sum(Repaired(ms)) \in Nat
<1> DEFINE new == Repaired(ms)
<1>1. new = BackfillMissingToolResults(ms)
  BY DropsNothing DEF Repaired
<1>2. Legal(new)
  BY RepairedLegal
<1> HIDE DEF new
<1>3. PICK src, at : Filled(src, at, new, ms)
  BY <1>1, BackfillFollows
<1>4. ms \in Seq(Message) /\ new \in Seq(Message)
  BY <1>2 DEF Legal, Coherent
<1>5. Embeds(at, ms, new)
  <2>1. \A i \in Indices(ms) : ms[i].size <= new[at[i]].size
    <3> SUFFICES ASSUME NEW i \in Indices(ms) PROVE ms[i].size <= new[at[i]].size
      OBVIOUS
    <3>1. new[at[i]] = ms[i] /\ ms[i] \in Message
      BY <1>3, <1>4 DEF Filled, Indices
    <3>2. ms[i].size \in Nat
      BY <3>1 DEF Message
    <3> QED BY <3>1, <3>2
  <2> QED BY <1>3, <2>1 DEF Embeds, Filled
<1> QED BY <1>2, <1>3, <1>4, <1>5, EmbedSum DEF new

--------------------------------------------------------------------------------
(* The emergency snip *)

\* A span never begins at a result that has its call.
LEMMA SpansBeginAtCalls ==
  ASSUME NEW ms, Coherent(ms), Owned(ms), NEW i \in SpanStarts(ms)
  PROVE  i \in Indices(ms) /\ ~ IsResult(ms[i])
<1>1. i \in Indices(ms)
  BY DEF SpanStarts
<1>2. ASSUME IsResult(ms[i]) PROVE FALSE
  <2>1. i \in Results(ms)
    BY <1>1, <1>2 DEF Results
  <2>2. PICK j \in Indices(ms) : ms[i].id \in CallIds(ms[j])
    BY <2>1 DEF Owned
  <2>3. j < i /\ \A k \in j + 1 .. i : IsResult(ms[k])
    BY <2>1, <2>2 DEF Coherent
  <2>4. ms[j].calls # <<>>
    BY <2>2 DEF CallIds
  <2>5. j \in 1 .. i - 1
    <3>1. Len(ms) \in Nat
      BY DEF Coherent
    <3> QED BY <1>1, <2>2, <2>3, <3>1 DEF Indices
  <2> QED BY <2>3, <2>4, <2>5 DEF SpanStarts
<1> QED BY <1>1, <1>2

\* With a result that stays, its call stays: behind a start, or with the anchors.
LEMMA CandidateOwned ==
  ASSUME NEW ms, Coherent(ms), Owned(ms), NEW current \in Users(ms),
         NEW start \in Starts(ms, current)
  PROVE  /\ Coherent(Candidate(ms, Anchors(ms, current), start))
         /\ Owned(Candidate(ms, Anchors(ms, current), start))
<1> DEFINE anchors == Anchors(ms, current)
           places == {i \in Indices(ms) : i >= start \/ i \in anchors}
           new == At(ms, places)
<1>1. Candidate(ms, anchors, start) = new
  BY DEF Candidate
<1>2. Coherent(new)
  BY AtCoherent
<1>3. \E pos : Picks(pos, new, ms, places)
  BY AtPicks DEF Coherent
<1> HIDE DEF new
<1>4. PICK pos : Picks(pos, new, ms, places)
  BY <1>3
<1>5. /\ \A p \in Indices(new) : pos[p] \in Indices(ms) /\ pos[p] \in places /\ new[p] = ms[pos[p]]
      /\ \A i \in Indices(ms) : i \in places => \E p \in Indices(new) : pos[p] = i
  BY <1>4 DEF Picks
<1>6. start \in Indices(ms) /\ ~ IsResult(ms[start])
  BY SpansBeginAtCalls DEF Starts
<1>7. ms \in Seq(Message) /\ Len(ms) \in Nat /\ \A i \in Indices(ms) : i \in Int /\ ms[i] \in Message
  BY DEF Coherent, Indices
<1>8. ASSUME NEW i \in Results(ms), i \in anchors PROVE i \in Activations(ms)
  <2>1. i \in Indices(ms) /\ IsResult(ms[i])
    BY DEF Results
  <2> DEFINE later == {k \in Users(ms) : k >= current}
  <2>2. i # current
    BY <2>1 DEF Users, IsResult
  <2>3. i # Greatest(later)
    <3>1. later \in SUBSET (0 .. Len(ms)) /\ current \in later
      BY <1>7 DEF Users, Indices
    <3>2. \E m \in later : \A n \in later : n <= m
      BY <1>7, <3>1, GreatestNumber
    <3>3. Greatest(later) \in later
      BY <3>2 DEF Greatest
    <3> QED BY <2>1, <3>3 DEF Users, IsResult
  <2>4. ASSUME NEW k \in Activations(ms) PROVE i # Greatest(Declares(ms, k))
    <3>1. Greatest(Declares(ms, k)) \in Indices(ms)
          /\ ms[k].id \in CallIds(ms[Greatest(Declares(ms, k))])
      BY OneDeclarer
    <3> QED BY <1>7, <2>1, <3>1, CallersAnswerNothing
  <2> QED BY <1>8, <2>2, <2>3, <2>4 DEF Anchors
<1>9. ASSUME NEW i \in Activations(ms) PROVE Greatest(Declares(ms, i)) \in anchors
  BY DEF Anchors
<1> HIDE DEF anchors
<1>10. ASSUME NEW p \in Results(new)
       PROVE  \E q \in Indices(new) : new[p].id \in CallIds(new[q])
  <2> DEFINE i == pos[p]
  <2>1. i \in Results(ms) /\ i \in places /\ new[p] = ms[i] /\ i \in Int
    BY <1>5, <1>7 DEF Results
  <2>2. PICK j \in Indices(ms) : ms[i].id \in CallIds(ms[j])
    BY <2>1 DEF Owned
  <2> HIDE DEF i
  <2>3. j \in places
    <3>1. CASE i >= start
      <4> SUFFICES ASSUME ~ (j >= start) PROVE FALSE
        BY <2>2
      <4>1. \A k \in j + 1 .. i : IsResult(ms[k])
        BY <2>1, <2>2 DEF Coherent
      <4>2. start \in j + 1 .. i
        BY <1>6, <1>7, <2>1, <2>2, <3>1
      <4> QED BY <1>6, <4>1, <4>2
    <3>2. CASE i \in anchors
      <4>1. i \in Activations(ms)
        BY <1>8, <2>1, <3>2
      <4>2. j \in Declares(ms, i)
        BY <2>2 DEF Declares
      <4>3. j = Greatest(Declares(ms, i))
        BY <4>1, <4>2, OneDeclarer
      <4> QED BY <1>9, <2>2, <4>1, <4>3
    <3> QED BY <2>1, <3>1, <3>2
  <2>4. PICK q \in Indices(new) : pos[q] = j
    BY <1>5, <2>2, <2>3
  <2> QED BY <1>5, <2>1, <2>2, <2>4
<1> QED BY <1>1, <1>2, <1>10 DEF Owned, anchors

\* The starts in their order.
LEMMA StartedIs ==
  ASSUME NEW ms \in Seq(Message), NEW current
  PROVE  LET starts == Started(ms, current)
         IN /\ starts \in Seq(Nat) /\ Len(starts) \in Nat
            /\ \A k \in 1 .. Len(starts) : starts[k] \in Starts(ms, current)
            /\ \A k, l \in 1 .. Len(starts) : k < l => starts[k] < starts[l]
            /\ \A i \in Starts(ms, current) : \E k \in 1 .. Len(starts) : starts[k] = i
<1> DEFINE all == [i \in Indices(ms) |-> i]
           starts == Started(ms, current)
<1>1. /\ all \in Seq(Nat) /\ Indices(all) = Indices(ms)
      /\ \A i \in Indices(ms) : all[i] = i
  <2>1. Len(ms) \in Nat /\ Indices(ms) = 1 .. Len(ms)
    BY DEF Indices
  <2>2. all = [i \in 1 .. Len(ms) |-> i]
    BY <2>1
  <2>3. all \in Seq(Nat) /\ Len(all) = Len(ms)
    BY <2>1, <2>2
  <2> QED BY <2>1, <2>3 DEF Indices
<1>2. starts = At(all, Starts(ms, current))
  BY DEF Started
<1> HIDE DEF all, starts
<1>3. starts \in Seq(Nat) /\ \E pos : Picks(pos, starts, all, Starts(ms, current))
  BY <1>1, <1>2, AtPicks
<1>4. PICK pos : Picks(pos, starts, all, Starts(ms, current))
  BY <1>3
<1>5. Starts(ms, current) \subseteq Indices(ms)
  BY DEF Starts, SpanStarts
<1>6. \A k \in Indices(starts) : starts[k] = pos[k] /\ pos[k] \in Starts(ms, current)
  BY <1>1, <1>4 DEF Picks
<1>7. \A k, l \in Indices(starts) : k < l => starts[k] < starts[l]
  BY <1>4, <1>6 DEF Picks
<1>8. \A i \in Starts(ms, current) : \E k \in Indices(starts) : starts[k] = i
  BY <1>1, <1>4, <1>5, <1>6 DEF Picks
<1>9. Indices(starts) = 1 .. Len(starts) /\ Len(starts) \in Nat
  BY <1>3 DEF Indices
<1> QED BY <1>3, <1>6, <1>7, <1>8, <1>9 DEF starts

\* The bisection passes over no start whose candidate fits.
LEMMA BisectSkips ==
  ASSUME NEW ms, NEW anchors, NEW starts, Len(starts) \in Nat,
         \A k, l \in 1 .. Len(starts) :
           k <= l /\ Fits(Candidate(ms, anchors, starts[k]))
             => Fits(Candidate(ms, anchors, starts[l]))
  PROVE  /\ Bisect(ms, anchors, starts) \in Nat \ {0}
         /\ \A k \in 1 .. Len(starts) :
              Fits(Candidate(ms, anchors, starts[k])) => Bisect(ms, anchors, starts) <= k
<1> DEFINE n == Len(starts)
           Fitting(k) == Fits(Candidate(ms, anchors, starts[k]))
           Good == {r \in Round : r.high <= n /\ \A k \in 1 .. n : Fitting(k) => r.low <= k}
<1>1. PICK f : /\ Bisect(ms, anchors, starts) = f[n].low
               /\ f[0] = [low |-> 1, high |-> n]
               /\ \A m \in 0 .. n : f[m] \in Round
               /\ \A m \in 1 .. n : f[m] = Halve(ms, anchors, starts, f[m - 1])
  BY BisectSteps
<1>2. \A k, l \in 1 .. n : k <= l /\ Fitting(k) => Fitting(l)
  OBVIOUS
<1>3. ASSUME NEW r \in Good PROVE Halve(ms, anchors, starts, r) \in Good
  <2> DEFINE middle == (r.low + r.high) \div 2
             h == Halve(ms, anchors, starts, r)
  <2> SUFFICES h \in Good
    OBVIOUS
  <2>1. h = IF r.low >= r.high THEN r
            ELSE IF Fitting(middle) THEN [r EXCEPT !.high = middle] ELSE [r EXCEPT !.low = middle + 1]
    BY DEF Halve
  <2>2. r \in Round /\ r.low \in Nat \ {0} /\ r.high \in Nat /\ r.high <= n
        /\ \A k \in 1 .. n : Fitting(k) => r.low <= k
    BY DEF Round
  <2>3. ~ (r.low >= r.high) => middle \in 1 .. n /\ middle \in Nat
    BY <2>2
  <2>4. h \in Round
    BY <2>2, HalveStays
  <2> HIDE DEF Fitting, h, middle, n
  <2>5. CASE r.low >= r.high
    BY <2>1, <2>5
  <2>6. CASE ~ (r.low >= r.high) /\ Fitting(middle)
    <3>1. h.high = middle /\ h.low = r.low
      BY <2>1, <2>2, <2>6 DEF Round
    <3>2. middle <= n
      BY <2>3, <2>6
    <3> QED BY <2>2, <2>4, <3>1, <3>2
  <2>7. CASE ~ (r.low >= r.high) /\ ~ Fitting(middle)
    <3>1. h.high = r.high /\ h.low = middle + 1
      BY <2>1, <2>2, <2>7 DEF Round
    <3>2. ASSUME NEW k \in 1 .. n, Fitting(k) PROVE middle + 1 <= k
      <4>1. ~ (k <= middle)
        BY <1>2, <2>3, <2>7, <3>2
      <4> QED BY <2>3, <2>7, <4>1
    <3> QED BY <2>2, <2>4, <3>1, <3>2
  <2> QED BY <2>5, <2>6, <2>7 DEF h
<1> HIDE DEF Fitting
<1>4. \A m \in 0 .. n : f[m] \in Good
  <2>1. f[0] \in Good
    <3>1. 0 \in 0 .. n /\ n <= n
      OBVIOUS
    <3>2. f[0] \in Round /\ f[0].high = n /\ f[0].low = 1
      BY <1>1, <3>1
    <3> QED BY <3>1, <3>2
  <2>2. \A m \in 1 .. n : f[m - 1] \in Good => f[m] \in Good
    BY <1>1, <1>3
  <2> HIDE DEF Good
  <2> QED BY <2>1, <2>2, StepsStay
<1>5. n \in 0 .. n
  OBVIOUS
<1>6. f[n] \in Good
  BY <1>4, <1>5
<1> QED BY <1>1, <1>6 DEF Fitting, Round

LEMMA LeastIs ==
  ASSUME NEW S \in SUBSET Nat, NEW n \in S, \A m \in S : n <= m
  PROVE  Least(S) = n
<1>1. Least(S) \in S /\ \A m \in S : Least(S) <= m
  BY DEF Least
<1> HIDE DEF Least
<1>2. Least(S) <= n /\ n <= Least(S) /\ Least(S) \in Nat /\ n \in Nat
  BY <1>1
<1> QED BY <1>2

GreatestIn(S, n) == n \in S /\ \A m \in S : m <= n

LEMMA GreatestIs ==
  ASSUME NEW S \in SUBSET Nat, NEW n, GreatestIn(S, n)
  PROVE  Greatest(S) = n
<1>1. n \in S /\ \A m \in S : m <= n
  BY DEF GreatestIn
<1>2. Greatest(S) \in S /\ \A m \in S : m <= Greatest(S)
  BY <1>1 DEF Greatest
<1>3. Greatest(S) <= n /\ n <= Greatest(S) /\ Greatest(S) \in Nat /\ n \in Nat
  BY <1>1, <1>2
<1> QED BY <1>3

\* The snip begins at the first start whose view fits, and fails if there is none.
LEMMA SnipTakesFirst ==
  ASSUME NEW ms, Coherent(ms), Owned(ms), NEW current \in Users(ms), budget \in Nat
  PROVE  LET views == [start \in Starts(ms, current) |->
                         Repaired(Candidate(ms, Anchors(ms, current), start))]
             possible == {start \in DOMAIN views : Fits(views[start])}
             r == EmergencySnip(ms, current)
         IN /\ r.made
            /\ IF r.sent
               THEN /\ Fits(r.view) /\ Least(possible) \in Starts(ms, current)
                    /\ r.view = views[Least(possible)]
               ELSE possible = {}
<1> DEFINE anchors == Anchors(ms, current)
           all == Starts(ms, current)
           starts == Started(ms, current)
           n == Len(starts)
           Cand(start) == Candidate(ms, anchors, start)
           Rep(start) == Repaired(Cand(start))
           views == [start \in all |-> Rep(start)]
           possible == {start \in DOMAIN views : Fits(views[start])}
           view == [k \in 1 .. n |-> Rep(starts[k])]
           first == Bisect(ms, anchors, starts)
           fitting == {k \in first .. n : Fits(view[k])}
           r == EmergencySnip(ms, current)
<1>1. ms \in Seq(Message) /\ Len(ms) \in Nat
  BY DEF Coherent
<1>2. /\ n \in Nat
      /\ \A k \in 1 .. n : starts[k] \in all
      /\ \A k, l \in 1 .. n : k < l => starts[k] < starts[l]
      /\ \A i \in all : \E k \in 1 .. n : starts[k] = i
  BY <1>1, StartedIs
<1>3. all \in SUBSET Nat
  BY <1>1 DEF Starts, SpanStarts, Indices
<1>4. ASSUME NEW start \in all PROVE Fits(Rep(start)) => Fits(Cand(start))
  <2>1. Coherent(Cand(start)) /\ Owned(Cand(start))
    BY CandidateOwned
  <2> DEFINE c == Cand(start)
  <2> HIDE DEF c
  <2>2. Sum(c) <= Sum(Repaired(c)) /\ Sum(c) \in Nat /\ Sum(Repaired(c)) \in Nat
    BY <2>1, RepairedFollows DEF c
  <2> QED BY <2>2 DEF Fits, c
<1>5. ASSUME NEW k \in 1 .. n, NEW l \in 1 .. n, k <= l, Fits(Cand(starts[k]))
      PROVE  Fits(Cand(starts[l]))
  <2> DEFINE Places(start) == {i \in Indices(ms) : i >= start \/ i \in anchors}
             few == Places(starts[l])
             many == Places(starts[k])
  <2>1. starts[k] \in Nat /\ starts[l] \in Nat /\ starts[k] <= starts[l]
    <3>1. k = l \/ k < l
      BY <1>2, <1>5
    <3>2. starts[k] \in Nat /\ starts[l] \in Nat
      BY <1>2, <1>3
    <3> QED BY <1>2, <3>1, <3>2
  <2>2. few \subseteq many
    <3>1. \A i \in Indices(ms) : i \in Nat
      BY <1>1 DEF Indices
    <3> QED BY <2>1, <3>1
  <2>3. Cand(starts[l]) = At(ms, few) /\ Cand(starts[k]) = At(ms, many)
    BY DEF Candidate
  <2> HIDE DEF few, many, Cand
  <2>4. /\ Sum(At(ms, few)) <= Sum(At(ms, many))
        /\ Sum(At(ms, few)) \in Nat /\ Sum(At(ms, many)) \in Nat
    BY <1>1, <2>2, FewerSum
  <2> QED BY <1>5, <2>3, <2>4 DEF Fits
<1>6. first \in Nat \ {0} /\ \A k \in 1 .. n : Fits(Cand(starts[k])) => first <= k
  <2>1. \A k, l \in 1 .. n : k <= l /\ Fits(Cand(starts[k])) => Fits(Cand(starts[l]))
    BY <1>5
  <2> QED BY <1>2, <2>1, BisectSkips
<1>7. r = IF ~ Fits(Cand(Last(starts))) \/ fitting = {} THEN Exceeded
          ELSE Sent(view[Least(fitting)])
  BY DEF EmergencySnip
<1>8. \A start \in possible : start \in all /\ Fits(Rep(start))
  OBVIOUS
<1>9. \A start \in all : Fits(Rep(start)) => start \in possible
  OBVIOUS
<1>10. \A k \in fitting : k \in first .. n /\ Fits(view[k])
  OBVIOUS
<1>11. \A k \in first .. n : Fits(view[k]) => k \in fitting
  OBVIOUS
<1>12. \A k \in 1 .. n : view[k] = Rep(starts[k])
  OBVIOUS
<1>13. \A start \in all : views[start] = Rep(start)
  OBVIOUS
<1>14. fitting \in SUBSET Nat /\ \A k \in fitting : k \in 1 .. n
  BY <1>2, <1>6
<1>15. Last(starts) = starts[n]
  BY DEF Last
<1> HIDE DEF anchors, all, starts, n, Cand, Rep, views, possible, view, first, fitting, r
<1>16. \A k \in fitting : starts[k] \in possible
  BY <1>2, <1>9, <1>10, <1>12, <1>14
<1>17. \A start \in possible : \E k \in fitting : starts[k] = start
  <2> SUFFICES ASSUME NEW start \in possible PROVE \E k \in fitting : starts[k] = start
    OBVIOUS
  <2>1. start \in all /\ Fits(Rep(start)) /\ Fits(Cand(start))
    BY <1>4, <1>8
  <2>2. PICK k \in 1 .. n : starts[k] = start
    BY <1>2, <2>1
  <2>3. first <= k
    BY <1>6, <2>1, <2>2
  <2>4. k \in first .. n
    BY <1>2, <1>6, <2>2, <2>3
  <2> QED BY <1>11, <1>12, <2>1, <2>2, <2>4
<1>18. \A k \in fitting : Fits(Cand(Last(starts)))
  <2> SUFFICES ASSUME NEW k \in fitting PROVE Fits(Cand(starts[n]))
    BY <1>15
  <2>1. k \in 1 .. n /\ Fits(Rep(starts[k]))
    BY <1>10, <1>12, <1>14
  <2>2. Fits(Cand(starts[k])) /\ n \in 1 .. n /\ k <= n
    BY <1>2, <1>4, <2>1
  <2> QED BY <1>5, <2>1, <2>2
<1>19. CASE fitting = {}
  <2>1. r = Exceeded /\ possible = {}
    BY <1>7, <1>17, <1>19
  <2>2. r.made /\ ~ r.sent
    BY <2>1 DEF Exceeded
  <2> QED BY <2>1, <2>2, Zenon DEF r, possible, views, all, Rep, Cand, anchors
<1>20. CASE fitting # {}
  <2> DEFINE k == Least(fitting)
  <2>1. k \in fitting /\ \A l \in fitting : k <= l
    <3>1. \E m \in fitting : \A l \in fitting : m <= l
      BY <1>14, <1>20, LeastNumber
    <3> QED BY <3>1 DEF Least
  <2>2. r = Sent(view[k])
    BY <1>7, <1>18, <1>20
  <2> HIDE DEF k
  <2>3. k \in 1 .. n /\ starts[k] \in possible /\ starts[k] \in all
    BY <1>2, <1>14, <1>16, <2>1
  <2>4. ASSUME NEW start \in possible PROVE starts[k] <= start
    <3>1. PICK l \in fitting : starts[l] = start
      BY <1>17
    <3>2. l \in 1 .. n /\ k <= l /\ (k = l \/ k < l)
      BY <1>2, <1>14, <2>1, <2>3, <3>1
    <3>3. starts[k] \in Nat /\ starts[l] \in Nat
      BY <1>2, <1>3, <2>3, <3>2
    <3>4. k < l => starts[k] < starts[l]
      BY <1>2, <2>3, <3>2
    <3> QED BY <3>1, <3>2, <3>3, <3>4
  <2>5. possible \in SUBSET Nat
    BY <1>3, <1>8
  <2>6. Least(possible) = starts[k]
    BY <2>3, <2>4, <2>5, LeastIs
  <2>7. /\ r.made /\ r.sent /\ r.view = view[k]
    BY <2>2 DEF Sent
  <2>8. r.view = views[Least(possible)] /\ Fits(r.view) /\ Least(possible) \in all
    BY <1>10, <1>12, <1>13, <2>1, <2>3, <2>6, <2>7
  <2> QED BY <2>7, <2>8 DEF r, possible, views, all, Rep, Cand, anchors
<1> QED BY <1>19, <1>20

--------------------------------------------------------------------------------
(* What each stage of prepare leaves *)

LEMMA RecordsEqual ==
  ASSUME NEW A, NEW B, NEW C, NEW D, NEW E,
         NEW m \in [kind : A, id : B, calls : C, tool : D, size : E],
         NEW o \in [kind : A, id : B, calls : C, tool : D, size : E],
         m.kind = o.kind, m.id = o.id, m.calls = o.calls, m.tool = o.tool, m.size = o.size
  PROVE  m = o
OBVIOUS

LEMMA MessagesEqual ==
  ASSUME NEW m \in Message, NEW o \in Message,
         m.kind = o.kind, m.id = o.id, m.calls = o.calls, m.tool = o.tool, m.size = o.size
  PROVE  m = o
BY RecordsEqual DEF Message

LEMMA NoCallsKept ==
  ASSUME NEW m \in Message, NEW kept, m.calls = <<>>
  PROVE  WithCalls(m, kept) = m
<1> DEFINE new == WithCalls(m, kept)
<1>1. /\ new \in Message /\ new.kind = m.kind /\ new.id = m.id /\ new.tool = m.tool
      /\ new.size = m.size /\ (new.calls = <<>> <=> Indices(m.calls) \cap kept = {})
  BY KeptCalls
<1>2. Indices(m.calls) = {}
  BY DEF Indices
<1>3. new.calls = m.calls
  BY <1>1, <1>2
<1> HIDE DEF new
<1>4. new = m
  BY <1>1, <1>3, MessagesEqual
<1> QED BY <1>4 DEF new

Gone(ms) == Activations(ms) \ Active(ms)

\* A call is left out with its result alone, and a message with the last of its calls.
Deduplicates(src, new, ms) ==
  /\ Follows(src, new, ms)
  /\ \A p \in Indices(new) : /\ src[p] \in Indices(ms) /\ src[p] \notin Gone(ms)
                             /\ new[p].size = ms[src[p]].size
  /\ \A i \in Indices(ms) \ Gone(ms) :
       ms[i].calls = <<>> => \E p \in Indices(new) : src[p] = i
  /\ \A i \in Indices(ms) : \A id \in CallIds(ms[i]) :
       (\A a \in Gone(ms) : ms[a].id # id) => \E p \in Indices(new) : src[p] = i
  /\ Owned(ms) => Owned(new)

LEMMA DeduplicatedFollows ==
  ASSUME NEW ms, Coherent(ms)
  PROVE  \E src : Deduplicates(src, Deduplicated(ms), ms)
<1> DEFINE gone == Gone(ms)
           pruned == [j \in Indices(ms) |->
                        WithCalls(ms[j], Indices(ms[j].calls) \ CallsFor(ms, j, gone))]
           places == {j \in Indices(ms) \ gone : ms[j].calls = <<>> \/ pruned[j].calls # <<>>}
           new == At(pruned, places)
<1>1. Deduplicated(ms) = new
  BY DEF Deduplicated, Gone
<1>2. \A i \in gone : i \in Results(ms)
  BY OneDeclarer DEF Gone
<1> HIDE DEF gone
<1>3. ms \in Seq(Message) /\ Len(ms) \in Nat /\ \A j \in Indices(ms) : ms[j] \in Message
  BY DEF Coherent, Indices
<1>4. \A j \in Indices(ms) : pruned[j] = WithCalls(ms[j], Indices(ms[j].calls) \ CallsFor(ms, j, gone))
  OBVIOUS
<1>5. pruned = [j \in 1 .. Len(ms) |-> pruned[j]]
  BY DEF Indices
<1>6. \A j \in Indices(ms) : j \in places <=> j \notin gone /\ (ms[j].calls = <<>> \/ pruned[j].calls # <<>>)
  OBVIOUS
<1> HIDE DEF pruned, places
<1>7. ASSUME NEW j \in Indices(ms)
      PROVE  /\ pruned[j] \in Message /\ pruned[j].kind = ms[j].kind /\ pruned[j].id = ms[j].id
             /\ pruned[j].size = ms[j].size
             /\ ms[j].kind \in {"user", "skill"} => pruned[j] = ms[j]
             /\ CallIds(pruned[j]) \subseteq CallIds(ms[j])
             /\ \A id \in CallIds(ms[j]) :
                  (\A i \in gone : ms[i].id # id) => id \in CallIds(pruned[j])
  <2> DEFINE kept == Indices(ms[j].calls) \ CallsFor(ms, j, gone)
             m == ms[j]
  <2>1. pruned[j] = WithCalls(m, kept) /\ m \in Message
    BY <1>3, <1>4
  <2>2. \A k \in Indices(m.calls) : (\A i \in gone : ms[i].id # m.calls[k][1]) => k \in kept
    BY DEF CallsFor
  <2>3. CallIds(m) = {m.calls[k][1] : k \in Indices(m.calls)}
    BY DEF CallIds, Indices
  <2> HIDE DEF kept, m
  <2>4. /\ pruned[j] \in Message /\ pruned[j].kind = m.kind /\ pruned[j].id = m.id
        /\ pruned[j].size = m.size
        /\ CallIds(pruned[j]) = {m.calls[k][1] : k \in Indices(m.calls) \cap kept}
    BY <2>1, KeptCalls
  <2>5. m.kind \in {"user", "skill"} => pruned[j] = m
    <3> SUFFICES ASSUME m.kind \in {"user", "skill"} PROVE pruned[j] = m
      OBVIOUS
    <3>1. m.calls = <<>>
      BY <2>1 DEF Message
    <3> QED BY <2>1, <3>1, NoCallsKept
  <2>6. ASSUME NEW id \in CallIds(m), \A i \in gone : ms[i].id # id
        PROVE  id \in CallIds(pruned[j])
    <3>1. PICK k \in Indices(m.calls) : m.calls[k][1] = id
      BY <2>3
    <3> QED BY <2>2, <2>4, <2>6, <3>1
  <2>7. CallIds(pruned[j]) \subseteq CallIds(m)
    BY <2>3, <2>4
  <2> QED BY <2>4, <2>5, <2>6, <2>7 DEF m
<1>8. pruned \in Seq(Message) /\ Len(pruned) = Len(ms) /\ Indices(pruned) = Indices(ms)
  <2>1. pruned \in [1 .. Len(ms) -> Message]
    BY <1>5, <1>7 DEF Indices
  <2> QED BY <1>3, <2>1 DEF Indices
<1>9. new \in Seq(Message) /\ \E src : Picks(src, new, pruned, places)
  BY <1>8, AtPicks
<1> HIDE DEF new
<1>10. PICK src : Picks(src, new, pruned, places)
  BY <1>9
<1>11. /\ src \in [Indices(new) -> {0} \cup Indices(ms)]
       /\ \A p \in Indices(new) : src[p] \in Indices(ms) /\ src[p] \in places /\ new[p] = pruned[src[p]]
       /\ \A p, q \in Indices(new) : p < q => src[p] < src[q]
       /\ \A i \in Indices(ms) : i \in places => \E p \in Indices(new) : src[p] = i
  BY <1>8, <1>10 DEF Picks
<1>12. \A i \in Indices(ms) : i # 0
  BY DEF Indices
<1>13. Follows(src, new, ms)
  <2>1. \A p \in Indices(new) : src[p] # 0 /\ Same(new[p], ms[src[p]])
    BY <1>7, <1>11, <1>12 DEF Same
  <2> QED BY <1>9, <1>11, <2>1 DEF Follows
<1>14. \A p \in Indices(new) : /\ src[p] \in Indices(ms) /\ src[p] \notin gone
                               /\ new[p].size = ms[src[p]].size
  BY <1>6, <1>7, <1>11
<1>15. \A i \in Indices(ms) \ gone : ms[i].calls = <<>> => \E p \in Indices(new) : src[p] = i
  BY <1>6, <1>11
<1>16. ASSUME NEW i \in Indices(ms), NEW id \in CallIds(ms[i]), \A a \in gone : ms[a].id # id
       PROVE  \E p \in Indices(new) : src[p] = i
  <2>1. id \in CallIds(pruned[i])
    BY <1>7, <1>16
  <2>2. pruned[i].calls # <<>>
    BY <2>1 DEF CallIds
  <2>3. i \notin gone
    <3>1. ~ IsResult(ms[i])
      BY <1>3, CallersAnswerNothing
    <3> QED BY <1>2, <3>1 DEF Results
  <2> QED BY <1>6, <1>11, <2>2, <2>3
<1>17. ASSUME Owned(ms), NEW p \in Results(new)
       PROVE  \E q \in Indices(new) : new[p].id \in CallIds(new[q])
  <2> DEFINE i == src[p]
  <2>1. /\ i \in Results(ms) /\ i \notin gone /\ ms[i].id = new[p].id
    BY <1>7, <1>11, <1>14 DEF Results, IsResult
  <2> HIDE DEF i
  <2>2. PICK j \in Indices(ms) : ms[i].id \in CallIds(ms[j])
    BY <1>17, <2>1 DEF Owned
  <2>3. \A a \in gone : ms[a].id # ms[i].id
    BY <1>2, <2>1 DEF Coherent
  <2>4. PICK q \in Indices(new) : src[q] = j
    BY <1>16, <2>2, <2>3
  <2>5. ms[i].id \in CallIds(pruned[j])
    BY <1>7, <2>2, <2>3
  <2> QED BY <1>11, <2>1, <2>4, <2>5
<1>18. Owned(ms) => Owned(new)
  BY <1>17 DEF Owned
<1>19. Deduplicates(src, new, ms)
  BY <1>13, <1>14, <1>15, <1>16, <1>18 DEF Deduplicates, gone
<1> QED BY <1>1, <1>19

\* What is neither a status nor of a superseded activation passes.
Passes(src, new, ms) ==
  /\ Follows(src, new, ms)
  /\ \A p \in Indices(new) : src[p] \notin Gone(ms)
  /\ \A i \in Indices(ms) \ Gone(ms) :
       ms[i].calls = <<>> /\ ms[i].kind # "status" => \E p \in Indices(new) : src[p] = i
  /\ \A i \in Indices(ms) : \A id \in CallIds(ms[i]) :
       (\A a \in Gone(ms) : ms[a].id # id) => \E p \in Indices(new) : src[p] = i

LEMMA GoneIs ==
  ASSUME NEW ms
  PROVE  \A i \in Gone(ms) : i \in Indices(ms) /\ i # 0 /\ ms[i].kind = "skill"
BY DEF Gone, Activations, Instructions, Indices

LEMMA PassesThrough ==
  ASSUME NEW new, NEW mid, NEW ms, NEW s, NEW t, mid \in Seq(Message), ms \in Seq(Message),
         Follows(s, new, mid), Passes(t, mid, ms),
         \A k \in Indices(mid) : mid[k].kind # "status" => \E p \in Indices(new) : s[p] = k
  PROVE  Passes(Through(s, t, new), new, ms)
<1> DEFINE src == Through(s, t, new)
<1>1. /\ Follows(src, new, ms)
      /\ \A p \in Indices(new) : src[p] = IF s[p] = 0 THEN 0 ELSE t[s[p]]
  <2>1. Follows(t, mid, ms)
    BY DEF Passes
  <2>2. Follows(src, new, ms)
    BY <2>1, FollowsThrough
  <2>3. \A p \in Indices(new) : src[p] = IF s[p] = 0 THEN 0 ELSE t[s[p]]
    BY DEF Through
  <2> QED BY <2>2, <2>3
<1> HIDE DEF src
<1>2. \A p \in Indices(new) : s[p] # 0 => s[p] \in Indices(mid)
  BY DEF Follows
<1>3. \A k \in Indices(mid) : k # 0
  BY DEF Indices
<1>4. \A p \in Indices(new) : src[p] \notin Gone(ms)
  BY <1>1, <1>2, GoneIs DEF Passes
<1>5. ASSUME NEW i \in Indices(ms), ms[i].kind # "status", \E k \in Indices(mid) : t[k] = i
      PROVE  \E p \in Indices(new) : src[p] = i
  <2>1. PICK k \in Indices(mid) : t[k] = i
    BY <1>5
  <2>2. i # 0
    BY DEF Indices
  <2>3. mid[k].kind = ms[i].kind
    BY <2>1, <2>2 DEF Passes, Follows, Same
  <2>4. PICK p \in Indices(new) : s[p] = k
    BY <1>5, <2>3
  <2> QED BY <1>1, <1>3, <2>1, <2>4
<1>6. \A i \in Indices(ms) \ Gone(ms) :
        ms[i].calls = <<>> /\ ms[i].kind # "status" => \E p \in Indices(new) : src[p] = i
  BY <1>5 DEF Passes
<1>7. ASSUME NEW i \in Indices(ms), NEW id \in CallIds(ms[i]), \A a \in Gone(ms) : ms[a].id # id
      PROVE  \E p \in Indices(new) : src[p] = i
  <2>1. ms[i] \in Message
    BY DEF Indices
  <2>2. ms[i].kind = "assistant"
    BY <2>1, CallersAnswerNothing
  <2>3. \E k \in Indices(mid) : t[k] = i
    BY <1>7 DEF Passes
  <2> QED BY <1>5, <2>2, <2>3
<1> QED BY <1>1, <1>4, <1>6, <1>7 DEF Passes, src

\* From some message on, sizes are the original ones but for the limit on results.
Clipped(m, o) == m.size = o.size \/ (m.size = MaxResult /\ o.size > MaxResult)

Clips(src, new, ms, from) ==
  \A p \in Indices(new) : src[p] # 0 /\ from <= src[p] => Clipped(new[p], ms[src[p]])

LEMMA NormalPasses ==
  ASSUME NEW ms, Coherent(ms), Owned(ms)
  PROVE  \E src : Passes(src, Normal(ms), ms) /\ Clips(src, Normal(ms), ms, 1)
<1> DEFINE d == Deduplicated(ms)
           r == Repaired(d)
           new == TruncateToolResults(r)
<1>1. Normal(ms) = new
  BY DEF Normal
<1>2. Coherent(d)
  BY DeduplicatedCoherent
<1>3. PICK s : Deduplicates(s, d, ms)
  BY DeduplicatedFollows
<1> HIDE DEF d
<1>4. Owned(d) /\ Follows(s, d, ms)
  BY <1>3 DEF Deduplicates
<1>5. PICK t, at : Filled(t, at, r, d)
  BY <1>2, <1>4, RepairedFollows
<1> HIDE DEF r
<1>6. /\ ms \in Seq(Message) /\ d \in Seq(Message) /\ r \in Seq(Message)
      /\ Follows(t, r, d)
  BY <1>4, <1>5 DEF Filled, Follows, Coherent
<1>7. Passes(s, d, ms)
  BY <1>3 DEF Passes, Deduplicates
<1>8. Passes(Through(t, s, r), r, ms)
  <2>1. \A k \in Indices(d) : \E p \in Indices(r) : t[p] = k
    BY <1>5 DEF Filled
  <2> QED BY <1>6, <1>7, <2>1, PassesThrough
<1>9. /\ Resizes(new, r)
      /\ \A i \in Indices(r) : /\ r[i].kind \in {"user", "skill"} => new[i] = r[i]
                               /\ Clipped(new[i], r[i])
  <2>1. Resizes(new, r)
    BY <1>6, Truncated
  <2>2. \A i \in Indices(r) : r[i] \in Message
    BY <1>6 DEF Indices
  <2>3. ASSUME NEW i \in Indices(r)
        PROVE  /\ r[i].kind \in {"user", "skill"} => new[i] = r[i]
               /\ Clipped(new[i], r[i])
    <3>1. new[i] = IF i \in Results(r) \ Instructions(r) /\ r[i].size > MaxResult
                   THEN [r[i] EXCEPT !.size = MaxResult] ELSE r[i]
      BY DEF TruncateToolResults
    <3>2. r[i].kind \in {"user", "skill"} => i \notin Results(r) \ Instructions(r)
      BY DEF Results, IsResult, Instructions
    <3>3. [r[i] EXCEPT !.size = MaxResult].size = MaxResult
      BY <2>2 DEF Message
    <3> QED BY <3>1, <3>2, <3>3 DEF Clipped
  <2> QED BY <2>1, <2>3
<1> HIDE DEF new
<1>10. /\ Follows(Itself(r), new, r)
       /\ \A i \in Indices(new) : i \in Indices(r) /\ Itself(r)[i] = i /\ i # 0
       /\ Indices(new) = Indices(r)
  <2>1. \A i \in Indices(r) : r[i].kind \in {"user", "skill"} => new[i] = r[i]
    BY <1>9
  <2>2. /\ Follows(Itself(r), new, r)
        /\ \A i \in Indices(new) : i \in Indices(r) /\ Itself(r)[i] = i
    BY <1>6, <1>9, <2>1, ResizeFollows, Zenon
  <2>3. Indices(new) = Indices(r)
    BY <1>9 DEF Resizes, Indices
  <2>4. \A i \in Indices(r) : i # 0
    BY DEF Indices
  <2> QED BY <2>2, <2>3, <2>4, Zenon
<1> DEFINE src == Through(Itself(r), Through(t, s, r), new)
<1>11. Passes(src, new, ms)
  BY <1>6, <1>8, <1>10, PassesThrough
<1>12. \A p \in Indices(new) : src[p] = IF t[p] = 0 THEN 0 ELSE s[t[p]]
  BY <1>10 DEF Through
<1> HIDE DEF src
<1>13. Clips(src, new, ms, 1)
  <2> SUFFICES ASSUME NEW p \in Indices(new), src[p] # 0 PROVE Clipped(new[p], ms[src[p]])
    BY DEF Clips
  <2>1. p \in Indices(r) /\ t[p] # 0 /\ t[p] \in Indices(d) /\ src[p] = s[t[p]]
    BY <1>6, <1>10, <1>12 DEF Follows
  <2>2. r[p] = d[t[p]] /\ d[t[p]].size = ms[src[p]].size
    BY <1>3, <1>5, <2>1 DEF Filled, Deduplicates
  <2>3. Clipped(new[p], r[p])
    BY <1>9, <2>1
  <2> QED BY <2>2, <2>3 DEF Clipped
<1> QED BY <1>1, <1>11, <1>13

LEMMA QuietPasses ==
  ASSUME NEW ms, Coherent(ms), Owned(ms)
  PROVE  LET quiet == DropRuntimeStatuses(Normal(ms))
         IN /\ \E src : Passes(src, quiet, ms) /\ Clips(src, quiet, ms, 1)
            /\ Legal(quiet)
            /\ Sum(quiet) <= Sum(Normal(ms)) /\ Sum(quiet) \in Nat /\ Sum(Normal(ms)) \in Nat
<1> DEFINE n == Normal(ms)
           places == {i \in Indices(n) : n[i].kind # "status"}
           new == DropRuntimeStatuses(n)
<1>1. Legal(n)
  BY NormalLegal
<1>2. PICK t : Passes(t, n, ms) /\ Clips(t, n, ms, 1)
  BY NormalPasses
<1> HIDE DEF n
<1>3. n \in Seq(Message) /\ ms \in Seq(Message)
  BY <1>1 DEF Legal, Coherent
<1>4. new = At(n, places)
  BY DEF DropRuntimeStatuses
<1>5. Legal(new)
  BY <1>1, QuietLegal
<1>6. Sum(new) <= Sum(n) /\ Sum(new) \in Nat /\ Sum(n) \in Nat
  BY <1>3, <1>4, LessSum
<1>7. PICK s : Culls(s, new, n, places)
  BY <1>3, <1>4, AtFollows
<1>8. /\ Follows(s, new, n)
      /\ \A p \in Indices(new) : s[p] \in Indices(n) /\ new[p] = n[s[p]]
      /\ \A k \in Indices(n) : n[k].kind # "status" => \E p \in Indices(new) : s[p] = k
  BY <1>7 DEF Culls
<1> HIDE DEF new, places
<1> DEFINE src == Through(s, t, new)
<1>9. Passes(src, new, ms)
  BY <1>2, <1>3, <1>8, PassesThrough
<1>10. \A k \in Indices(n) : k # 0
  BY DEF Indices
<1>11. \A p \in Indices(new) : src[p] = t[s[p]]
  BY <1>8, <1>10 DEF Through
<1> HIDE DEF src
<1>12. Clips(src, new, ms, 1)
  BY <1>2, <1>8, <1>11 DEF Clips
<1> QED BY <1>5, <1>6, <1>9, <1>12 DEF n, new

\* No two user messages are numbered alike.
UsersApart(ms) ==
  \A i, j \in Users(ms) : ms[i].id = ms[j].id => i = j

\* The message of the user that prepare is called with is found where it went.
LEMMA PositionFound ==
  ASSUME NEW ms \in Seq(Message), NEW new, NEW src, Passes(src, new, ms), UsersApart(ms),
         NEW c \in Users(ms)
  PROVE  /\ PositionOf(new, ms[c]) \in Users(new)
         /\ src[PositionOf(new, ms[c])] = c
<1> DEFINE u == ms[c]
           pos == PositionOf(new, u)
<1>1. c \in Indices(ms) /\ u.kind = "user" /\ u \in Message /\ c # 0
  BY DEF Users, Indices
<1>2. c \notin Gone(ms) /\ u.calls = <<>>
  BY <1>1, GoneIs DEF Message
<1>3. PICK p \in Indices(new) : src[p] = c
  BY <1>1, <1>2 DEF Passes
<1>4. new[p] = u
  BY <1>1, <1>3 DEF Passes, Follows, Same
<1> HIDE DEF u
<1>5. pos \in Indices(new) /\ new[pos] = u
  BY <1>3, <1>4 DEF PositionOf
<1> HIDE DEF pos
<1>6. src[pos] # 0
  <2>1. new[pos].kind # "backfilled"
    BY <1>1, <1>5
  <2> QED BY <1>5, <2>1 DEF Passes, Follows
<1>7. src[pos] \in Indices(ms) /\ ms[src[pos]].kind = "user" /\ ms[src[pos]].id = u.id
  BY <1>1, <1>5, <1>6 DEF Passes, Follows, Same
<1>8. src[pos] = c
  BY <1>7 DEF UsersApart, Users, u
<1> QED BY <1>1, <1>5, <1>8 DEF Users, u, pos

LEMMA CompactPasses ==
  ASSUME NEW ms, Coherent(ms), Owned(ms), UsersApart(ms), NEW c \in Users(ms)
  PROVE  LET quiet == DropRuntimeStatuses(Normal(ms))
             new == Microcompact(quiet, PositionOf(quiet, ms[c]))
         IN /\ \E src : Passes(src, new, ms) /\ Clips(src, new, ms, c)
            /\ Legal(new)
            /\ Sum(new) <= Sum(quiet) /\ Sum(new) \in Nat /\ Sum(quiet) \in Nat
<1> DEFINE q == DropRuntimeStatuses(Normal(ms))
           end == PositionOf(q, ms[c])
           new == Microcompact(q, end)
<1>1. PICK t : Passes(t, q, ms) /\ Clips(t, q, ms, 1)
  BY QuietPasses
<1>2. Legal(q)
  BY QuietLegal, NormalLegal
<1> HIDE DEF q
<1>3. q \in Seq(Message) /\ ms \in Seq(Message)
  BY <1>2 DEF Legal, Coherent
<1>4. end \in Users(q) /\ t[end] = c
  BY <1>1, <1>3, PositionFound
<1> HIDE DEF end
<1>5. Resizes(new, q)
  BY <1>3, Microcompacted
<1>6. Legal(new)
  BY <1>2, <1>5, ResizeLegal
<1>7. ASSUME NEW i \in Indices(q)
      PROVE  /\ q[i] \in Message /\ q[i].size \in Nat \ {0}
             /\ new[i] = q[i] \/ (i \in Eligible(q, end) /\ new[i].size = 1)
  <2>1. q[i] \in Message
    BY <1>3 DEF Indices
  <2>2. q[i].size \in Nat \ {0} /\ [q[i] EXCEPT !.size = 1].size = 1
    BY <2>1 DEF Message
  <2>3. new[i] = q[i] \/ (i \in Eligible(q, end) /\ new[i] = [q[i] EXCEPT !.size = 1])
    BY DEF Microcompact
  <2> QED BY <2>1, <2>2, <2>3
<1> HIDE DEF new
<1>8. new \in Seq(Message) /\ Len(new) = Len(q)
  BY <1>5 DEF Resizes
<1>9. \A i \in Indices(q) : new[i].size <= q[i].size
  BY <1>7
<1>10. Sum(new) <= Sum(q) /\ Sum(new) \in Nat /\ Sum(q) \in Nat
  BY <1>3, <1>8, <1>9, ResizedSum
<1>11. \A i \in Indices(q) : q[i].kind \in {"user", "skill"} => new[i] = q[i]
  BY <1>7 DEF Eligible, Results, IsResult, Instructions
<1>12. /\ Follows(Itself(q), new, q)
       /\ \A i \in Indices(new) : i \in Indices(q) /\ Itself(q)[i] = i /\ i # 0
       /\ Indices(new) = Indices(q)
  BY <1>3, <1>5, <1>11, ResizeFollows DEF Resizes, Indices
<1> DEFINE src == Through(Itself(q), t, new)
<1>13. Passes(src, new, ms)
  BY <1>1, <1>3, <1>12, PassesThrough
<1>14. \A p \in Indices(new) : src[p] = t[p]
  BY <1>12 DEF Through
<1> HIDE DEF src
<1>15. Clips(src, new, ms, c)
  <2> SUFFICES ASSUME NEW p \in Indices(new), src[p] # 0, c <= src[p]
               PROVE  Clipped(new[p], ms[src[p]])
    BY DEF Clips
  <2>1. p \in Indices(q) /\ t[p] # 0 /\ c <= t[p] /\ src[p] = t[p]
    BY <1>12, <1>14
  <2>2. ~ (p < end)
    <3> SUFFICES ASSUME p < end PROVE FALSE
      OBVIOUS
    <3>1. end \in Indices(q) /\ c \in Indices(ms) /\ t[p] \in Indices(ms)
      BY <1>1, <1>4, <2>1 DEF Users, Passes, Follows
    <3>2. c # 0 /\ c \in Nat /\ t[p] \in Nat
      BY <3>1 DEF Indices
    <3>3. t[p] < t[end]
      BY <1>1, <1>4, <2>1, <3>1, <3>2 DEF Passes, Follows
    <3> QED BY <1>4, <2>1, <3>2, <3>3
  <2>3. new[p] = q[p]
    BY <1>7, <2>1, <2>2 DEF Eligible
  <2>4. t[p] \in Indices(ms)
    BY <1>1, <2>1 DEF Passes, Follows
  <2>5. 1 <= t[p]
    BY <2>4 DEF Indices
  <2>6. Clipped(q[p], ms[t[p]])
    BY <1>1, <2>1, <2>5 DEF Clips
  <2> QED BY <2>1, <2>3, <2>6
<1> QED BY <1>6, <1>10, <1>13, <1>15 DEF q, end, new

\* What every view shows of the messages prepare is given, the turn of which began at c.
Views(src, view, ms, c) ==
  /\ Follows(src, view, ms)
  /\ \A p \in Indices(view) : src[p] \notin Gone(ms)
  /\ Clips(src, view, ms, c)
  /\ \E p \in Indices(view) : src[p] = c
  /\ \A g : GreatestIn(Users(ms), g) => \E p \in Indices(view) : src[p] = g
  /\ \A i, j \in Users(ms) :
       c < i /\ i <= j /\ (\E p \in Indices(view) : src[p] = i)
         => \E p \in Indices(view) : src[p] = j
  /\ \A a \in Instructions(ms) \ Gone(ms) : \E p \in Indices(view) : src[p] = a
  /\ \A i \in Indices(ms) :
       /\ ms[i].kind # "status" /\ i \notin Gone(ms)
       /\ ms[i].calls = <<>> \/ \E id \in CallIds(ms[i]) : \A a \in Gone(ms) : ms[a].id # id
       /\ \A j \in i + 1 .. Len(ms) : IsResult(ms[j])
       => \E p \in Indices(view) : src[p] = i

LEMMA PassesViews ==
  ASSUME NEW ms \in Seq(Message), NEW view, NEW src, NEW c \in Users(ms),
         Passes(src, view, ms), Clips(src, view, ms, c)
  PROVE  Views(src, view, ms, c)
<1>1. \A i \in Indices(ms) : ms[i] \in Message
  BY DEF Indices
<1>2. ASSUME NEW i \in Indices(ms), ms[i].kind \in {"user", "skill"}, i \notin Gone(ms)
      PROVE  \E p \in Indices(view) : src[p] = i
  <2>1. ms[i].calls = <<>>
    BY <1>1, <1>2 DEF Message
  <2> QED BY <1>2, <2>1 DEF Passes
<1>3. \A i \in Users(ms) : i \in Indices(ms) /\ ms[i].kind = "user" /\ i \notin Gone(ms)
  BY GoneIs DEF Users
<1>4. \A a \in Instructions(ms) : a \in Indices(ms) /\ ms[a].kind = "skill"
  BY DEF Instructions
<1>5. \A g : GreatestIn(Users(ms), g) => g \in Users(ms)
  BY DEF GreatestIn
<1>6. \A i \in Indices(ms) :
        ms[i].kind # "status" /\ i \notin Gone(ms) /\ ms[i].calls = <<>>
          => \E p \in Indices(view) : src[p] = i
  BY DEF Passes
<1>7. \A i \in Indices(ms) :
        (\E id \in CallIds(ms[i]) : \A a \in Gone(ms) : ms[a].id # id)
          => \E p \in Indices(view) : src[p] = i
  BY DEF Passes
<1>8. Follows(src, view, ms) /\ \A p \in Indices(view) : src[p] \notin Gone(ms)
  BY DEF Passes
<1> QED BY <1>2, <1>3, <1>4, <1>5, <1>6, <1>7, <1>8 DEF Views

\* What a snip begins at, is anchored or comes behind is in its view.
LEMMA SnipViews ==
  ASSUME NEW ms \in Seq(Message), NEW c \in Users(ms), NEW new, NEW t,
         Passes(t, new, ms), Clips(t, new, ms, c), Legal(new),
         NEW current \in Users(new), t[current] = c, NEW start \in Starts(new, current)
  PROVE  \E src : Views(src, Repaired(Candidate(new, Anchors(new, current), start)), ms, c)
<1> DEFINE anchors == Anchors(new, current)
           places == {i \in Indices(new) : i >= start \/ i \in anchors}
           cand == At(new, places)
           view == Repaired(cand)
<1>1. Candidate(new, anchors, start) = cand
  BY DEF Candidate
<1>2. Coherent(new) /\ Owned(new) /\ new \in Seq(Message)
  BY DEF Legal, Coherent
<1>3. Coherent(cand) /\ Owned(cand)
  BY <1>1, <1>2, CandidateOwned
<1>4. PICK s : Culls(s, cand, new, places)
  BY <1>2, AtFollows
<1>5. \A k \in Indices(new) : (k >= start \/ k \in anchors) <=> k \in places
  OBVIOUS
<1> HIDE DEF cand, places
<1>6. PICK f, at : Filled(f, at, view, cand)
  BY <1>3, RepairedFollows
<1> HIDE DEF view
<1> DEFINE g == Through(f, s, view)
           src == Through(g, t, view)
<1>7. cand \in Seq(Message) /\ Follows(f, view, cand) /\ Follows(s, cand, new) /\ Follows(t, new, ms)
  BY <1>4, <1>6 DEF Filled, Culls, Follows, Passes
<1>8. Follows(g, view, new)
  BY <1>2, <1>7, FollowsThrough
<1>9. \A p \in Indices(view) : g[p] = IF f[p] = 0 THEN 0 ELSE s[f[p]]
  BY DEF Through
<1> HIDE DEF g
<1>10. Follows(src, view, ms)
  BY <1>2, <1>7, <1>8, FollowsThrough
<1>11. \A p \in Indices(view) : src[p] = IF g[p] = 0 THEN 0 ELSE t[g[p]]
  BY DEF Through
<1> HIDE DEF src
<1>12. ASSUME NEW p \in Indices(view), g[p] # 0
       PROVE  /\ g[p] \in Indices(new) /\ view[p] = new[g[p]]
              /\ g[p] >= start \/ g[p] \in anchors
  <2>1. f[p] # 0 /\ f[p] \in Indices(cand) /\ g[p] = s[f[p]]
    BY <1>7, <1>9, <1>12 DEF Follows
  <2>2. s[f[p]] \in Indices(new) \cap places /\ view[p] = new[g[p]]
    BY <1>4, <1>6, <2>1 DEF Filled, Culls
  <2> QED BY <1>5, <2>1, <2>2
<1>13. ASSUME NEW k \in Indices(new), k >= start \/ k \in anchors
       PROVE  \E p \in Indices(view) : g[p] = k /\ src[p] = t[k]
  <2>1. PICK q \in Indices(cand) : s[q] = k
    BY <1>4, <1>5, <1>13 DEF Culls
  <2>2. at[q] \in Indices(view) /\ f[at[q]] = q /\ q # 0 /\ k # 0
    BY <1>6, <2>1 DEF Filled, Indices
  <2> QED BY <1>9, <1>11, <2>1, <2>2
<1>14. /\ \A k \in Indices(new) : k \in Int /\ new[k] \in Message /\ t[k] \in {0} \cup Indices(ms)
       /\ \A i \in Indices(ms) : i \in Nat /\ i # 0 /\ ms[i] \in Message
  <2>1. \A k \in Indices(new) : t[k] \in {0} \cup Indices(ms)
    BY <1>7 DEF Follows
  <2>2. \A k \in Indices(new) : k \in Int /\ new[k] \in Message
    BY <1>2 DEF Indices
  <2>3. \A i \in Indices(ms) : i \in Nat /\ i # 0 /\ ms[i] \in Message
    BY DEF Indices
  <2> QED BY <2>1, <2>2, <2>3
<1>15. \A p \in Indices(view) : src[p] \notin Gone(ms)
  BY <1>11, <1>12, GoneIs DEF Passes
<1>16. Clips(src, view, ms, c)
  BY <1>11, <1>12 DEF Clips
<1>17. \E p \in Indices(view) : src[p] = c
  <2>1. current \in Indices(new) /\ current \in anchors
    BY DEF Users, Anchors
  <2> QED BY <1>13, <2>1
<1>18. ASSUME NEW i \in Indices(ms), ms[i].kind \in {"user", "skill"}, i \notin Gone(ms)
       PROVE  \E k \in Indices(new) : t[k] = i /\ new[k] = ms[i]
  <2>1. ms[i].calls = <<>> /\ ms[i].kind # "status"
    BY <1>14, <1>18 DEF Message
  <2>2. PICK k \in Indices(new) : t[k] = i
    BY <1>18, <2>1 DEF Passes
  <2>3. Same(new[k], ms[i])
    BY <1>7, <1>14, <2>2 DEF Follows
  <2> QED BY <1>18, <2>2, <2>3 DEF Same
<1>19. ASSUME NEW u, GreatestIn(Users(ms), u) PROVE \E p \in Indices(view) : src[p] = u
  <2>1. u \in Indices(ms) /\ ms[u].kind = "user" /\ c \in Indices(ms) /\ c <= u
    BY <1>19 DEF GreatestIn, Users
  <2>2. u \notin Gone(ms)
    BY <2>1, GoneIs
  <2>3. PICK k \in Indices(new) : t[k] = u /\ new[k] = ms[u]
    BY <1>18, <2>1, <2>2
  <2> DEFINE later == {i \in Users(new) : i >= current}
  <2>4. k \in Users(new)
    BY <2>1, <2>3 DEF Users
  <2>5. k >= current
    <3> SUFFICES ASSUME k < current PROVE FALSE
      BY <1>14, <2>3 DEF Users
    <3>1. t[k] < t[current]
      BY <1>7, <1>14, <2>1 DEF Follows, Users
    <3> QED BY <1>14, <2>1, <2>3, <3>1
  <2>6. ASSUME NEW i \in later PROVE i <= k
    <3>1. i \in Indices(new) /\ new[i].kind = "user"
      BY DEF Users
    <3>2. t[i] # 0 /\ t[i] \in Indices(ms) /\ Same(new[i], ms[t[i]])
      BY <1>7, <1>14, <3>1 DEF Follows
    <3>3. t[i] \in Users(ms)
      BY <3>1, <3>2 DEF Same, Users
    <3>4. t[i] <= u
      BY <1>19, <3>3 DEF GreatestIn
    <3>5. k < i => t[k] < t[i]
      BY <1>7, <2>3, <3>1, <3>2 DEF Follows
    <3> QED BY <1>14, <2>1, <2>3, <3>1, <3>2, <3>4, <3>5
  <2>7. later \in SUBSET Nat
    BY <1>2 DEF Users, Indices
  <2>8. GreatestIn(later, k)
    BY <2>4, <2>5, <2>6 DEF GreatestIn
  <2>9. Greatest(later) = k
    <3> HIDE DEF later
    <3> QED BY <2>7, <2>8, GreatestIs
  <2>10. k \in anchors
    BY <2>9 DEF Anchors
  <2> QED BY <1>13, <2>3, <2>10
<1>20. ASSUME NEW a \in Instructions(ms) \ Gone(ms) PROVE \E p \in Indices(view) : src[p] = a
  <2>1. a \in Indices(ms) /\ ms[a].kind = "skill"
    BY DEF Instructions
  <2>2. PICK k \in Indices(new) : t[k] = a /\ new[k] = ms[a]
    BY <1>18, <2>1
  <2>3. k \in Instructions(new) /\ k \in Results(new)
    BY <2>1, <2>2 DEF Instructions, Results, IsResult
  <2>4. Declares(new, k) # {}
    BY <1>2, <2>3 DEF Owned, Declares
  <2>5. k \in anchors
    BY <2>3, <2>4 DEF Anchors, Activations
  <2> QED BY <1>13, <2>2, <2>5
<1>21. ASSUME NEW i \in Indices(ms), ms[i].kind # "status", i \notin Gone(ms),
              ms[i].calls = <<>> \/ (\E id \in CallIds(ms[i]) : \A a \in Gone(ms) : ms[a].id # id),
              \A j \in i + 1 .. Len(ms) : IsResult(ms[j])
       PROVE  \E p \in Indices(view) : src[p] = i
  <2>1. PICK k \in Indices(new) : t[k] = i
    BY <1>21 DEF Passes
  <2>2. start \in Indices(new) /\ ~ IsResult(new[start])
    BY <1>2, SpansBeginAtCalls DEF Starts
  <2>3. k >= start
    <3> SUFFICES ASSUME k < start PROVE FALSE
      BY <1>14, <2>1, <2>2
    <3>1. t[start] # 0
      BY <1>7, <2>2 DEF Follows, IsResult
    <3>2. t[k] < t[start] /\ t[start] \in Indices(ms) /\ Same(new[start], ms[t[start]])
      BY <1>7, <1>14, <2>1, <2>2, <3>1 DEF Follows
    <3>3. t[start] \in i + 1 .. Len(ms)
      BY <1>14, <2>1, <3>2 DEF Indices
    <3>4. IsResult(ms[t[start]])
      BY <1>21, <3>3
    <3> QED BY <2>2, <3>2, <3>4 DEF Same, IsResult
  <2> QED BY <1>13, <2>1, <2>3
<1>22. ASSUME NEW i \in Users(ms), NEW j \in Users(ms), c < i, i <= j,
              NEW p \in Indices(view), src[p] = i
       PROVE  \E q \in Indices(view) : src[q] = j
  <2>1. /\ i \in Indices(ms) /\ j \in Indices(ms) /\ c \in Indices(ms)
        /\ ms[i].kind = "user" /\ ms[j].kind = "user"
        /\ i \in Nat /\ j \in Nat /\ c \in Nat /\ i # 0 /\ j # 0
    BY <1>14 DEF Users
  <2>2. PICK b \in Indices(new) : t[b] = j /\ new[b] = ms[j]
    <3>1. j \notin Gone(ms)
      BY <2>1, GoneIs
    <3> QED BY <1>18, <2>1, <3>1
  <2> DEFINE a == g[p]
  <2>3. a \in Indices(new) /\ t[a] = i /\ (a >= start \/ a \in anchors)
    BY <1>11, <1>12, <1>22, <2>1
  <2> HIDE DEF a
  <2>4. new[a].kind = "user" /\ new[b].kind = "user" /\ a \in Users(new) /\ b \in Users(new)
    <3>1. Same(new[a], ms[i])
      BY <1>7, <2>1, <2>3 DEF Follows
    <3> QED BY <2>1, <2>2, <2>3, <3>1 DEF Same, Users
  <2>5. a \in Int /\ b \in Int /\ current \in Int /\ start \in Int /\ current \in Indices(new)
    BY <1>14, <2>2, <2>3 DEF Users, Starts, SpanStarts
  <2>6. \A x, y \in Indices(new) : x < y /\ t[y] # 0 => t[x] < t[y]
    BY <1>7 DEF Follows
  <2>7. a <= b
    BY <1>22, <2>1, <2>2, <2>3, <2>5, <2>6
  <2>8. CASE a >= start
    <3>1. b >= start
      BY <2>5, <2>7, <2>8
    <3> QED BY <1>13, <2>2, <3>1
  <2>9. CASE a \in anchors
    <3> DEFINE later == {x \in Users(new) : x >= current}
    <3>1. a # current
      BY <1>22, <2>1, <2>3
    <3>2. a \notin Activations(new)
      BY <2>4 DEF Activations, Instructions
    <3>3. ASSUME NEW x \in Activations(new) PROVE a # Greatest(Declares(new, x))
      <4>1. \A id : id \notin CallIds(new[a])
        BY <1>14, <2>3, <2>4, CallersAnswerNothing
      <4> QED BY <1>2, <4>1, OneDeclarer
    <3>4. a = Greatest(later)
      BY <2>9, <3>1, <3>2, <3>3 DEF Anchors
    <3>5. \A x \in later : x <= a
      <4>1. later \in SUBSET (0 .. Len(new)) /\ current \in later /\ Len(new) \in Nat
        <5>1. \A x \in later : x \in 1 .. Len(new)
          BY DEF Users, Indices
        <5>2. current >= current
          BY <2>5
        <5> QED BY <1>2, <5>1, <5>2
      <4> HIDE DEF later
      <4>2. \E x \in later : \A y \in later : y <= x
        BY <4>1, GreatestNumber
      <4> QED BY <3>4, <4>2 DEF Greatest
    <3>6. a >= current
      <4>1. a < current => t[a] < t[current]
        BY <1>14, <2>1, <2>3, <2>5, <2>6
      <4> QED BY <1>22, <2>1, <2>3, <2>5, <4>1
    <3>7. b \in later
      BY <2>4, <2>5, <2>7, <3>6
    <3>8. b = a
      BY <2>5, <2>7, <3>5, <3>7
    <3> QED BY <1>22, <2>2, <2>3, <3>8
  <2> QED BY <2>3, <2>8, <2>9
<1>23. Views(src, view, ms, c)
  BY <1>10, <1>15, <1>16, <1>17, <1>19, <1>20, <1>21, <1>22 DEF Views
<1> QED BY <1>1, <1>23 DEF view

\* Whatever the pressure, what a view shows.
LEMMA PrepareViews ==
  ASSUME NEW ms, Coherent(ms), Owned(ms), UsersApart(ms), NEW c \in Users(ms), budget \in Nat,
         Prepare(ms, ms[c]).sent
  PROVE  \E src : Views(src, Prepare(ms, ms[c]).view, ms, c)
<1> DEFINE normal == Normal(ms)
           quiet == DropRuntimeStatuses(normal)
           compact == Microcompact(quiet, PositionOf(quiet, ms[c]))
           current == PositionOf(compact, ms[c])
           snip == EmergencySnip(compact, current)
           r == Prepare(ms, ms[c])
<1>1. r = IF Fits(normal) THEN Sent(normal)
          ELSE IF Fits(quiet) THEN Sent(quiet)
          ELSE IF Fits(compact) THEN Sent(compact) ELSE snip
  BY DEF Prepare
<1>2. ms \in Seq(Message) /\ 1 <= c
  BY DEF Coherent, Users, Indices
<1>3. \E src : Passes(src, normal, ms) /\ Clips(src, normal, ms, 1)
  BY NormalPasses
<1>4. \E src : Passes(src, quiet, ms) /\ Clips(src, quiet, ms, 1)
  BY QuietPasses
<1>5. Legal(compact) /\ \E src : Passes(src, compact, ms) /\ Clips(src, compact, ms, c)
  BY CompactPasses
<1>6. ASSUME NEW v, NEW src, Clips(src, v, ms, 1), Follows(src, v, ms) PROVE Clips(src, v, ms, c)
  <2>1. \A p \in Indices(v) : src[p] # 0 => 1 <= src[p]
    BY <1>2, <1>6 DEF Follows, Indices
  <2> QED BY <1>6, <2>1 DEF Clips
<1>7. ASSUME NEW v, \E src : Passes(src, v, ms) /\ Clips(src, v, ms, 1)
      PROVE  \E src : Views(src, v, ms, c)
  <2>1. PICK src : Passes(src, v, ms) /\ Clips(src, v, ms, 1)
    BY <1>7
  <2>2. Clips(src, v, ms, c)
    BY <1>6, <2>1 DEF Passes
  <2> QED BY <1>2, <2>1, <2>2, PassesViews
<1>8. \E src : Views(src, normal, ms, c)
  BY <1>3, <1>7
<1>9. \E src : Views(src, quiet, ms, c)
  BY <1>4, <1>7
<1> HIDE DEF normal, quiet, compact
<1>10. PICK t : Passes(t, compact, ms) /\ Clips(t, compact, ms, c)
  BY <1>5
<1>11. \E src : Views(src, compact, ms, c)
  BY <1>2, <1>10, PassesViews
<1>12. current \in Users(compact) /\ t[current] = c
  BY <1>2, <1>10, PositionFound
<1> HIDE DEF current
<1>13. ASSUME snip.sent PROVE \E src : Views(src, snip.view, ms, c)
  <2> DEFINE views == [start \in Starts(compact, current) |->
                         Repaired(Candidate(compact, Anchors(compact, current), start))]
             possible == {start \in DOMAIN views : Fits(views[start])}
             start == Least(possible)
  <2>1. start \in Starts(compact, current) /\ snip.view = views[start]
    BY <1>5, <1>12, <1>13, SnipTakesFirst DEF Legal
  <2> HIDE DEF start, possible
  <2>2. snip.view = Repaired(Candidate(compact, Anchors(compact, current), start))
    BY <2>1
  <2> HIDE DEF snip
  <2> QED BY <1>2, <1>5, <1>10, <1>12, <2>1, <2>2, SnipViews
<1> HIDE DEF snip
<1>14. r = Sent(normal) \/ r = Sent(quiet) \/ r = Sent(compact) \/ r = snip
  BY <1>1
<1>15. \A v : Sent(v).view = v
  BY DEF Sent
<1>16. r.sent
  OBVIOUS
<1> HIDE DEF r
<1>17. \E src : Views(src, r.view, ms, c)
  <2>1. ASSUME NEW v, r = Sent(v), \E src : Views(src, v, ms, c)
        PROVE  \E src : Views(src, r.view, ms, c)
    BY <1>15, <2>1
  <2> QED BY <1>8, <1>9, <1>11, <1>13, <1>14, <1>16, <2>1
<1> QED BY <1>17 DEF r

\* What is sent fits, and nothing is cut that did not have to be.
LEMMA PreparedLongest ==
  ASSUME NEW ms, Coherent(ms), Owned(ms), UsersApart(ms), NEW c \in Users(ms), budget \in Nat
  PROVE  LET quiet == DropRuntimeStatuses(Normal(ms))
             compact == Microcompact(quiet, PositionOf(quiet, ms[c]))
             current == PositionOf(compact, ms[c])
             views == [start \in Starts(compact, current) |->
                         Repaired(Candidate(compact, Anchors(compact, current), start))]
             possible == {start \in DOMAIN views : Fits(views[start])}
             r == Prepare(ms, ms[c])
         IN IF r.sent THEN Fits(r.view) /\ (Fits(compact) \/ r.view = views[Least(possible)])
            ELSE possible = {}
<1> DEFINE normal == Normal(ms)
           quiet == DropRuntimeStatuses(normal)
           compact == Microcompact(quiet, PositionOf(quiet, ms[c]))
           current == PositionOf(compact, ms[c])
           views == [start \in Starts(compact, current) |->
                       Repaired(Candidate(compact, Anchors(compact, current), start))]
           possible == {start \in DOMAIN views : Fits(views[start])}
           snip == EmergencySnip(compact, current)
           r == Prepare(ms, ms[c])
<1> SUFFICES IF r.sent THEN Fits(r.view) /\ (Fits(compact) \/ r.view = views[Least(possible)])
             ELSE possible = {}
  OBVIOUS
<1>1. r = IF Fits(normal) THEN Sent(normal)
          ELSE IF Fits(quiet) THEN Sent(quiet)
          ELSE IF Fits(compact) THEN Sent(compact) ELSE snip
  BY DEF Prepare
<1>2. Sum(quiet) <= Sum(normal) /\ Sum(quiet) \in Nat /\ Sum(normal) \in Nat
  BY QuietPasses
<1>3. /\ Legal(compact) /\ Sum(compact) <= Sum(quiet) /\ Sum(compact) \in Nat
      /\ \E src : Passes(src, compact, ms) /\ Clips(src, compact, ms, c)
  BY CompactPasses
<1> HIDE DEF normal, quiet, compact
<1>4. PICK t : Passes(t, compact, ms) /\ Clips(t, compact, ms, c)
  BY <1>3
<1>5. current \in Users(compact)
  BY <1>4, PositionFound DEF Coherent
<1> HIDE DEF current
<1>6. IF snip.sent THEN Fits(snip.view) /\ snip.view = views[Least(possible)] ELSE possible = {}
  BY <1>3, <1>5, SnipTakesFirst DEF Legal
<1> HIDE DEF snip, r, views, possible
<1>7. (Fits(normal) => Fits(quiet)) /\ (Fits(quiet) => Fits(compact))
  BY <1>2, <1>3 DEF Fits
<1>8. \A v : Sent(v).view = v /\ Sent(v).sent
  BY DEF Sent
<1> QED BY <1>1, <1>6, <1>7, <1>8

--------------------------------------------------------------------------------
(* What the results of a conversation say of their calls *)

\* Nothing is backfilled in the conversation itself, only a skill gives instructions, and
\* a result names the tool that was called.
Marked(ms) ==
  /\ \A i \in Results(ms) : ms[i].kind # "backfilled"
  /\ \A i \in Instructions(ms) : ms[i].tool \in Skills
  /\ \A i \in Results(ms), j \in Indices(ms) : \A k \in Indices(ms[j].calls) :
       ms[j].calls[k][1] = ms[i].id => ms[j].calls[k][2] = ms[i].tool

MarkInv == budget \in Budgets /\ Marked(messages)

LEMMA CallIdsAre ==
  ASSUME NEW m, NEW k \in Indices(m.calls)
  PROVE  m.calls[k][1] \in CallIds(m)
BY DEF CallIds, Indices

\* A message that is no result changes nothing of that.
LEMMA MarkedAppend ==
  ASSUME NEW ms, Conversation(ms), Marked(ms), NEW m \in Message, ~ IsResult(m),
         Conversation(Append(ms, m))
  PROVE  Marked(Append(ms, m))
<1> DEFINE new == Append(ms, m)
           n == Len(ms)
<1>1. ms \in Seq(Message) /\ n \in Nat
  BY DEF Conversation, Coherent
<1>2. Len(new) = n + 1 /\ new[n + 1] = m /\ \A i \in 1 .. n : new[i] = ms[i]
  BY <1>1
<1>3. Conversation(new)
  OBVIOUS
<1> HIDE DEF new
<1>4. \A i \in Results(new) : i \in Results(ms) /\ new[i] = ms[i]
  BY <1>1, <1>2 DEF Results, Indices
<1>5. \A i \in Indices(ms) : i \in Indices(new) /\ new[i] = ms[i]
  BY <1>1, <1>2 DEF Indices
<1>6. \A i \in Instructions(new) : i \in Results(new)
  BY DEF Instructions, Results, IsResult
<1>7. \A i \in Instructions(new) : i \in Instructions(ms) /\ new[i] = ms[i]
  BY <1>4, <1>6 DEF Instructions, Results
<1>8. ASSUME NEW i \in Results(new), NEW j \in Indices(new), NEW k \in Indices(new[j].calls),
             new[j].calls[k][1] = new[i].id
      PROVE  new[j].calls[k][2] = new[i].tool
  <2>1. PICK h \in Indices(ms) : ms[i].id \in CallIds(ms[h])
    BY <1>4 DEF Conversation, Owned
  <2>2. new[i].id \in CallIds(new[j])
    BY <1>8, CallIdsAre
  <2>3. j = h
    BY <1>3, <1>4, <1>5, <2>1, <2>2 DEF Conversation, Coherent
  <2>4. new[j] = ms[j] /\ new[i] = ms[i] /\ j \in Indices(ms) /\ i \in Results(ms)
    BY <1>4, <1>5, <2>1, <2>3
  <2> QED BY <1>8, <2>4 DEF Marked
<1>9. \A i \in Results(new) : new[i].kind # "backfilled"
  BY <1>4 DEF Marked
<1>10. \A i \in Instructions(new) : new[i].tool \in Skills
  BY <1>7 DEF Marked
<1> QED BY <1>8, <1>9, <1>10 DEF Marked, new

LEMMA MarkedPrefix ==
  ASSUME NEW ms, Conversation(ms), Marked(ms), NEW n \in 0 .. Len(ms)
  PROVE  Marked(SubSeq(ms, 1, n))
<1> DEFINE new == SubSeq(ms, 1, n)
<1>1. Len(ms) \in Nat
  BY DEF Conversation, Coherent
<1>2. Len(new) = n /\ \A i \in 1 .. n : new[i] = ms[i]
  BY ConversationPrefix
<1> HIDE DEF new
<1>3. \A i \in Indices(new) : i \in Indices(ms) /\ new[i] = ms[i]
  BY <1>1, <1>2 DEF Indices
<1>4. \A i \in Results(new) : i \in Results(ms) /\ new[i] = ms[i]
  BY <1>3 DEF Results
<1>5. \A i \in Instructions(new) : i \in Instructions(ms) /\ new[i] = ms[i]
  BY <1>3 DEF Instructions
<1>6. \A i \in Results(new), j \in Indices(new) : \A k \in Indices(new[j].calls) :
        new[j].calls[k][1] = new[i].id => new[j].calls[k][2] = new[i].tool
  <2> SUFFICES ASSUME NEW i \in Results(new), NEW j \in Indices(new),
                      NEW k \in Indices(new[j].calls), new[j].calls[k][1] = new[i].id
               PROVE  new[j].calls[k][2] = new[i].tool
    OBVIOUS
  <2>1. i \in Results(ms) /\ new[i] = ms[i] /\ j \in Indices(ms) /\ new[j] = ms[j]
    BY <1>3, <1>4
  <2> QED BY <2>1 DEF Marked
<1> QED BY <1>4, <1>5, <1>6 DEF Marked, new

LEMMA MarkedResults ==
  ASSUME NEW ms, Conversation(ms), Marked(ms), Len(ms) # 0, NEW outcome \in Seq(Message),
         Conversation(ms \o outcome),
         \A k \in Indices(outcome) :
           /\ \E l \in Indices(ms[Len(ms)].calls) :
                /\ outcome[k].id = ms[Len(ms)].calls[l][1]
                /\ outcome[k].tool = ms[Len(ms)].calls[l][2]
           /\ outcome[k].kind = "result" \/ (outcome[k].kind = "skill" /\ outcome[k].tool \in Skills)
  PROVE  Marked(ms \o outcome)
<1> DEFINE new == ms \o outcome
           n == Len(ms)
           b == Len(outcome)
<1>1. ms \in Seq(Message) /\ n \in Nat /\ b \in Nat
  BY DEF Conversation, Coherent
<1>2. /\ Len(new) = n + b /\ \A i \in 1 .. n : new[i] = ms[i]
      /\ \A k \in 1 .. b : new[n + k] = outcome[k]
  <2>1. ms \in Seq(Message) /\ outcome \in Seq(Message)
    BY <1>1
  <2> HIDE DEF n, b
  <2>2. Len(ms \o outcome) = Len(ms) + Len(outcome)
    BY <2>1, Joined
  <2>3. \A i \in 1 .. Len(ms) : (ms \o outcome)[i] = ms[i]
    BY <2>1, Joined
  <2>4. \A i \in 1 .. Len(outcome) : (ms \o outcome)[Len(ms) + i] = outcome[i]
    BY <2>1, Joined
  <2> QED BY <2>2, <2>3, <2>4, Zenon DEF n, b, new
<1>3. Conversation(new)
  OBVIOUS
<1> HIDE DEF new
<1>4. ASSUME NEW i \in Indices(new)
      PROVE  \/ i \in Indices(ms) /\ new[i] = ms[i]
             \/ \E k \in Indices(outcome) : i = n + k /\ new[i] = outcome[k]
  <2>1. i \in 1 .. n \/ (i - n \in 1 .. b /\ i = n + (i - n))
    BY <1>1, <1>2 DEF Indices
  <2> QED BY <1>2, <2>1 DEF Indices
<1>5. n \in Indices(ms) /\ \A i \in Indices(ms) : i \in Indices(new) /\ new[i] = ms[i]
  BY <1>1, <1>2 DEF Indices
<1> HIDE DEF n, b
<1>6. \A i \in Results(new) : new[i].kind # "backfilled"
  <2> SUFFICES ASSUME NEW i \in Indices(new), IsResult(new[i]) PROVE new[i].kind # "backfilled"
    BY DEF Results
  <2> QED BY <1>4 DEF Marked, Results
<1>7. \A i \in Instructions(new) : new[i].tool \in Skills
  <2> SUFFICES ASSUME NEW i \in Indices(new), new[i].kind = "skill" PROVE new[i].tool \in Skills
    BY DEF Instructions
  <2> QED BY <1>4 DEF Marked, Instructions
<1>8. ASSUME NEW i \in Results(new), NEW j \in Indices(new), NEW k \in Indices(new[j].calls),
             new[j].calls[k][1] = new[i].id
      PROVE  new[j].calls[k][2] = new[i].tool
  <2>1. new[i].id \in CallIds(new[j]) /\ i \in Indices(new) /\ IsResult(new[i])
    BY <1>8, CallIdsAre DEF Results
  <2>2. CASE i \in Indices(ms) /\ new[i] = ms[i]
    <3>1. i \in Results(ms)
      BY <2>1, <2>2 DEF Results
    <3>2. PICK h \in Indices(ms) : ms[i].id \in CallIds(ms[h])
      BY <3>1 DEF Conversation, Owned
    <3>3. j = h
      <4>1. h \in Indices(new) /\ new[h] = ms[h]
        BY <1>5, <3>2
      <4>2. new[i].id \in CallIds(new[h])
        BY <2>2, <3>2, <4>1
      <4>3. \A p, q \in Indices(new) : \A id \in CallIds(new[p]) : id \in CallIds(new[q]) => p = q
        BY <1>3 DEF Conversation, Coherent
      <4> HIDE DEF new
      <4> QED BY <2>1, <4>1, <4>2, <4>3
    <3>4. new[j] = ms[j] /\ j \in Indices(ms)
      BY <1>5, <3>2, <3>3
    <3> QED BY <1>8, <2>2, <3>1, <3>4 DEF Marked
  <2>3. CASE \E o \in Indices(outcome) : i = n + o /\ new[i] = outcome[o]
    <3>1. PICK o \in Indices(ms[n].calls) :
            new[i].id = ms[n].calls[o][1] /\ new[i].tool = ms[n].calls[o][2]
      BY <2>3 DEF n
    <3>2. /\ new[i].id = ms[n].calls[o][1] /\ new[i].tool = ms[n].calls[o][2]
          /\ new[n] = ms[n] /\ n \in Indices(new)
      BY <1>5, <3>1
    <3>3. new[i].id \in CallIds(new[n])
      BY <3>2, CallIdsAre
    <3>4. j = n
      BY <1>3, <2>1, <3>2, <3>3 DEF Conversation, Coherent
    <3>5. Distinct(new[n])
      BY <1>3, <3>2 DEF Conversation, Coherent
    <3>6. k = o
      BY <1>8, <3>2, <3>4, <3>5 DEF Distinct
    <3> QED BY <3>2, <3>4, <3>6
  <2> QED BY <1>4, <2>1, <2>2, <2>3
<1> QED BY <1>6, <1>7, <1>8 DEF Marked, new

LEMMA MarkedAsked ==
  ASSUME Conversation(messages), Marked(messages)
  PROVE  Marked(Asked)
<1>1. CASE reporting
  <2> DEFINE m == Status(Len(messages) + 1)
  <2>1. m \in Message /\ ~ IsResult(m)
    <3>1. <<>> \in Seq(Call) /\ Len(messages) + 1 \in Nat
      BY DEF Conversation, Coherent
    <3> QED BY <3>1, Written
  <2>2. Asked = Append(messages, m)
    BY <1>1 DEF Asked, NextId
  <2>3. Conversation(Asked)
    BY AskedIs
  <2> HIDE DEF m
  <2> QED BY <2>1, <2>2, <2>3, MarkedAppend
<1>2. CASE ~ reporting
  BY <1>2 DEF Asked
<1> QED BY <1>1, <1>2

LEMMA MarkedAnswered ==
  ASSUME Conversation(messages), Marked(messages), NEW calls \in Seq(Call),
         Conversation(Answered(calls))
  PROVE  Marked(Answered(calls))
<1> DEFINE m == Assistant(Len(Asked) + 1, calls)
<1>1. Conversation(Asked) /\ Marked(Asked) /\ Len(Asked) + 1 \in Nat
  BY AskedIs, MarkedAsked DEF Extends
<1>2. m \in Message /\ ~ IsResult(m)
  BY <1>1, Written
<1>3. Answered(calls) = Append(Asked, m)
  BY DEF Answered
<1> HIDE DEF m
<1> QED BY <1>1, <1>2, <1>3, MarkedAppend

LEMMA MarkedInputs ==
  ASSUME NEW ms, Conversation(ms), Marked(ms), NEW n \in Nat
  PROVE  Marked(WithInputs(ms, n))
<1> DEFINE new == WithInputs(ms, n)
<1>1. /\ Conversation(new) /\ Extends(new, ms)
      /\ \A i \in Indices(new) : i \in Indices(ms) \/ new[i].kind = "user"
  BY InputsWritten, InputsAre
<1> HIDE DEF new
<1>2. \A i \in Indices(ms) : i \in Indices(new) /\ new[i] = ms[i]
  BY <1>1 DEF Extends, Indices
<1>3. \A i \in Results(new) : i \in Results(ms) /\ new[i] = ms[i]
  BY <1>1, <1>2 DEF Results, IsResult
<1>4. \A i \in Instructions(new) : i \in Instructions(ms) /\ new[i] = ms[i]
  BY <1>1, <1>2 DEF Instructions
<1>5. ASSUME NEW i \in Results(new), NEW j \in Indices(new), NEW k \in Indices(new[j].calls),
             new[j].calls[k][1] = new[i].id
      PROVE  new[j].calls[k][2] = new[i].tool
  <2>1. PICK h \in Indices(ms) : ms[i].id \in CallIds(ms[h])
    BY <1>3 DEF Conversation, Owned
  <2>2. new[i].id \in CallIds(new[j])
    BY <1>5, CallIdsAre
  <2>3. j = h
    BY <1>1, <1>2, <1>3, <2>1, <2>2 DEF Conversation, Coherent
  <2>4. new[j] = ms[j] /\ new[i] = ms[i] /\ j \in Indices(ms) /\ i \in Results(ms)
    BY <1>2, <1>3, <2>1, <2>3
  <2> QED BY <1>5, <2>4 DEF Marked
<1>6. \A i \in Results(new) : new[i].kind # "backfilled"
  BY <1>3 DEF Marked
<1>7. \A i \in Instructions(new) : new[i].tool \in Skills
  BY <1>4 DEF Marked
<1> QED BY <1>5, <1>6, <1>7 DEF Marked, new

\* An outcome names the tool of its call, and is an instruction of a skill alone.
LEMMA OutcomeMarked ==
  ASSUME NEW call \in Call, NEW m \in Outcomes(call)
  PROVE  /\ m.tool = call[2]
         /\ m.kind = "result" \/ (m.kind = "skill" /\ m.tool \in Skills)
<1>1. ASSUME NEW size
      PROVE  /\ Result(call, size).tool = call[2] /\ Result(call, size).kind = "result"
             /\ Instruction(call, size).tool = call[2] /\ Instruction(call, size).kind = "skill"
  BY DEF Result, Instruction
<1>2. \/ \E size : m = Result(call, size)
      \/ call[2] \in Skills /\ \E size : m = Instruction(call, size)
  BY DEF Outcomes
<1> QED BY <1>1, <1>2

LEMMA InitMarked == Init => MarkInv
<1> SUFFICES ASSUME Init PROVE MarkInv
  OBVIOUS
<1>1. budget \in Budgets /\ Results(messages) = {} /\ Instructions(messages) = {}
  BY DEF Init, Results, Instructions, Indices
<1> QED BY <1>1 DEF MarkInv, Marked

LEMMA NextKeepsMarked == ViewInv /\ ViewInv' /\ MarkInv /\ [Next]_vars => MarkInv'
<1> SUFFICES ASSUME ViewInv, ViewInv', MarkInv, [Next]_vars PROVE MarkInv'
  OBVIOUS
<1>1. Conversation(messages) /\ Marked(messages) /\ budget \in Budgets /\ Len(messages) \in Nat
  BY DEF ViewInv, MarkInv, Conversation, Coherent
<1>2. Conversation(messages')
  BY DEF ViewInv
<1>3. budget' = budget
  BY SettingsStay DEF settings
<1> SUFFICES Marked(messages')
  BY <1>1, <1>3 DEF MarkInv
<1>4. CASE BeginTurn
  <2>1. messages' = Append(messages, User(NextId)) /\ NextId \in Nat
    BY <1>1, <1>4 DEF BeginTurn, NextId
  <2>2. User(NextId) \in Message /\ ~ IsResult(User(NextId))
    <3>1. <<>> \in Seq(Call)
      OBVIOUS
    <3> QED BY <2>1, <3>1, Written
  <2> QED BY <1>1, <1>2, <2>1, <2>2, MarkedAppend
<1>5. CASE Request
  BY <1>1, <1>5 DEF Request
<1>6. CASE Answer
  <2> DEFINE calls == <<>>
             one == Answered(calls)
  <2>1. calls \in Seq(Call) /\ Conversation(one)
    BY <1>1, AnswerWritten
  <2>2. PICK n \in Injections : messages' = WithInputs(one, n)
    BY <1>6 DEF Answer
  <2> HIDE DEF calls
  <2>3. Marked(one)
    BY <1>1, <2>1, MarkedAnswered
  <2>4. n \in Nat
    BY DEF Injections
  <2> HIDE DEF one
  <2> QED BY <2>1, <2>2, <2>3, <2>4, MarkedInputs
<1>7. ASSUME NEW tools \in Batches, NEW ids \in [1 .. Len(tools) -> Ids], AskTools(tools, ids)
      PROVE  Marked(messages')
  <2>1. messages' = Answered(awaited')
    BY <1>7 DEF AskTools
  <2>2. awaited' \in Seq(Call)
    <3>1. awaited' # <<>> => awaited' = messages'[Len(messages')].calls /\ Len(messages') # 0
      BY DEF ViewInv, BatchStands
    <3>2. messages' \in Seq(Message)
      BY <1>2 DEF Conversation, Coherent
    <3>3. Len(messages') # 0 => messages'[Len(messages')] \in Message
      BY <3>2
    <3>4. Len(messages') # 0 => messages'[Len(messages')].calls \in Seq(Call)
      BY <3>3 DEF Message
    <3>5. <<>> \in Seq(Call)
      OBVIOUS
    <3> QED BY <3>1, <3>4, <3>5
  <2> QED BY <1>1, <1>2, <2>1, <2>2, MarkedAnswered
<1>8. CASE ReceiveResults
  <2> DEFINE n == Len(messages)
  <2>1. n # 0 /\ messages[n].calls = awaited
    BY <1>8 DEF ViewInv, ReceiveResults, BatchStands
  <2>2. PICK outcome, order :
          /\ outcome \in Seq(Message) /\ messages' = messages \o outcome
          /\ awaited \in Seq(Call) /\ Len(outcome) = Len(awaited)
          /\ order \in [Indices(outcome) -> Indices(awaited)]
          /\ \A k, l \in Indices(outcome) : order[k] = order[l] => k = l
          /\ \A k \in Indices(outcome) : outcome[k] \in Outcomes(awaited[order[k]])
    BY <1>8, ReceivedIs
  <2>3. ASSUME NEW k \in Indices(outcome)
        PROVE  /\ \E l \in Indices(messages[n].calls) :
                    /\ outcome[k].id = messages[n].calls[l][1]
                    /\ outcome[k].tool = messages[n].calls[l][2]
               /\ outcome[k].kind = "result"
                    \/ (outcome[k].kind = "skill" /\ outcome[k].tool \in Skills)
    <3>1. order[k] \in Indices(awaited) /\ outcome[k] \in Outcomes(awaited[order[k]])
      BY <2>2
    <3>2. awaited[order[k]] \in Call
      BY <2>2, <3>1 DEF Indices
    <3>3. /\ outcome[k].id = awaited[order[k]][1] /\ outcome[k].tool = awaited[order[k]][2]
          /\ outcome[k].kind = "result" \/ (outcome[k].kind = "skill" /\ outcome[k].tool \in Skills)
      BY <3>1, <3>2, OutcomeIs, OutcomeMarked
    <3> QED BY <2>1, <3>1, <3>3
  <2>4. Conversation(messages \o outcome)
    BY <1>2, <2>2
  <2> QED BY <1>1, <2>1, <2>2, <2>3, <2>4, MarkedResults
<1>9. CASE ReachLimit
  <2> DEFINE m == Assistant(NextId, <<>>)
  <2>1. messages' = Append(messages, m)
    BY <1>9 DEF ReachLimit
  <2>2. m \in Message /\ ~ IsResult(m)
    <3>1. <<>> \in Seq(Call) /\ NextId \in Nat
      BY <1>1 DEF NextId
    <3>2. ASSUME NEW n \in Nat, NEW c \in Seq(Call)
          PROVE  Assistant(n, c) \in Message /\ ~ IsResult(Assistant(n, c))
      BY Written
    <3> QED BY <3>1, <3>2
  <2> HIDE DEF m
  <2> QED BY <1>1, <1>2, <2>1, <2>2, MarkedAppend
<1>10. CASE Refuse
  <2>1. messages' = SubSeq(messages, 1, turn - 1)
    BY <1>10 DEF Refuse
  <2>2. turn - 1 \in 0 .. Len(messages)
    <3>1. turn # 0 /\ turn \in 0 .. Len(messages)
      BY <1>10, SentMade DEF ViewInv, TurnStands, Refuse
    <3> QED BY <1>1, <3>1
  <2> QED BY <1>1, <2>1, <2>2, MarkedPrefix
<1>11. CASE AddInputs
  <2>1. PICK n \in Injections : messages' = WithInputs(messages, n)
    BY <1>11 DEF AddInputs
  <2>2. n \in Nat
    BY DEF Injections
  <2> QED BY <1>1, <2>1, <2>2, MarkedInputs
<1>12. CASE Restart
  <2> DEFINE kept == IF request.sent THEN Asked ELSE messages
  <2>1. PICK n \in Injections : messages' = WithInputs(kept, n)
    BY <1>12 DEF Restart
  <2>2. n \in Nat
    BY DEF Injections
  <2>3. Conversation(kept) /\ Marked(kept)
    BY <1>1, AskedIs, MarkedAsked
  <2> HIDE DEF kept
  <2> QED BY <2>1, <2>2, <2>3, MarkedInputs
<1>13. CASE UNCHANGED vars
  BY <1>1, <1>13 DEF vars
<1> QED BY <1>4, <1>5, <1>6, <1>7, <1>8, <1>9, <1>10, <1>11, <1>12, <1>13 DEF Next

\* Results are known by their calls in every conversation.
THEOREM ResultsAreMarked == Spec => [](~ repeating => MarkInv)
<1> DEFINE Unrepeated == ~ repeating => ViewInv
           Inv == ~ repeating => MarkInv
<1>1. Init => Inv
  BY InitMarked
<1>2. Unrepeated /\ Unrepeated' /\ Inv /\ [Next]_vars => Inv'
  BY NextKeepsMarked, SettingsStay DEF settings
<1> QED BY <1>1, <1>2, RequestIsView, PTL DEF Spec

--------------------------------------------------------------------------------
(* What is sent of the conversation *)

\* The messages of v in the order they had in ms, of which n are covered.
Displays(src, v, ms, n) ==
  /\ src \in [Indices(v) -> Indices(ms)]
  /\ \A p, q \in Indices(v) : p < q => src[p] < src[q]
  /\ \A p \in Indices(v) : v[p].kind = ms[src[p]].kind /\ v[p].id = ms[src[p]].id
  /\ \A p \in Indices(v) : n < src[p] => v[p] = ms[src[p]]
  /\ \A p \in Results(v) : /\ v[p] = ms[src[p]]
                           /\ src[p] <= n => src[p] \in Active(SubSeq(ms, 1, n))
  /\ \A i \in Active(SubSeq(ms, 1, n)) : \E p \in Results(v) : src[p] = i
  /\ \A i \in n + 1 .. Len(ms) : \E p \in Indices(v) : src[p] = i

LEMMA ShownDisplays ==
  ASSUME NEW ms, Coherent(ms), NEW n, CoveredWhole(ms, n)
  PROVE  \E src : Displays(src, Shown(ms, n), ms, n)
<1> DEFINE v == Shown(ms, n)
           old == SubSeq(ms, 1, n)
<1>1. PICK src : /\ Projects(src, v, ms)
                 /\ \A p \in Results(v) : src[p] <= n => src[p] \in Active(old) /\ v[p] = ms[src[p]]
                 /\ \A p \in Indices(v) : n < src[p] => v[p] = ms[src[p]]
                 /\ \A i \in Active(old) : \E p \in Results(v) : src[p] = i
                 /\ \A i \in n + 1 .. Len(ms) : \E p \in Indices(v) : src[p] = i
  BY ShownIs
<1> HIDE DEF v, old
<1>2. Len(ms) \in Nat /\ n \in Nat
  BY DEF Coherent, CoveredWhole
<1>3. \A p \in Indices(v) : src[p] \in Indices(ms) /\ (src[p] <= n \/ n < src[p])
  BY <1>1, <1>2 DEF Projects, Indices
<1>4. \A p \in Results(v) : p \in Indices(v)
  BY DEF Results
<1>5. \A p \in Results(v) : /\ v[p] = ms[src[p]]
                            /\ src[p] <= n => src[p] \in Active(old)
  BY <1>1, <1>3, <1>4
<1>6. Displays(src, v, ms, n)
  BY <1>1, <1>5 DEF Displays, Projects, old
<1> QED BY <1>6 DEF v

\* While a request is made, prepare is called with a user message of what is shown.
Turned(src, c) ==
  /\ Displays(src, Visible, messages, covered)
  /\ c \in Users(Visible) /\ src[c] = turn /\ Visible[c] = messages[turn]

LEMMA VisibleIs ==
  ASSUME ViewInv, MarkInv, request.made
  PROVE  /\ Coherent(Visible) /\ Owned(Visible) /\ UsersApart(Visible)
         /\ Conversation(messages) /\ Marked(messages) /\ budget \in Nat
         /\ turn \in 1 .. Len(messages) /\ covered < turn /\ covered \in Nat
         /\ request = Prepare(Visible, messages[turn])
         /\ \E src, c : Turned(src, c)
<1> DEFINE v == Visible
<1>1. /\ Coherent(v) /\ Conversation(messages) /\ Coherent(messages) /\ Owned(messages)
      /\ turn \in 1 .. Len(messages) /\ CoveredWhole(messages, covered) /\ covered < turn
      /\ messages[turn] = User(turn) /\ request = Prepare(Visible, messages[turn])
  BY ViewInvShows DEF Conversation
<1>2. Marked(messages) /\ budget \in Nat
  BY ViewAssumption DEF MarkInv
<1>3. v = Shown(messages, covered)
  BY DEF Visible, Shown
<1>4. Owned(v)
  BY <1>1, <1>3, ShownIs
<1>5. \E src : Displays(src, v, messages, covered)
  BY <1>1, <1>3, ShownDisplays
<1> HIDE DEF v
<1>6. PICK src : Displays(src, v, messages, covered)
  BY <1>5
<1>7. covered \in Nat /\ turn \in covered + 1 .. Len(messages)
  BY <1>1 DEF CoveredWhole, Coherent
<1>8. PICK c \in Indices(v) : src[c] = turn
  BY <1>6, <1>7 DEF Displays
<1>9. v[c] = messages[turn] /\ v[c].kind = "user"
  <2>1. covered < src[c]
    BY <1>1, <1>8
  <2>2. v[c] = messages[turn]
    BY <1>6, <1>8, <2>1 DEF Displays
  <2>3. User(turn).kind = "user"
    BY DEF User
  <2> QED BY <1>1, <2>2, <2>3
<1>10. UsersApart(v)
  <2> SUFFICES ASSUME NEW p \in Users(v), NEW q \in Users(v), v[p].id = v[q].id PROVE p = q
    BY DEF UsersApart
  <2>1. p \in Indices(v) /\ q \in Indices(v) /\ v[p].kind = "user" /\ v[q].kind = "user"
    BY DEF Users
  <2>2. /\ src[p] \in Indices(messages) /\ src[q] \in Indices(messages)
        /\ messages[src[p]].kind = "user" /\ messages[src[q]].kind = "user"
        /\ messages[src[p]].id = messages[src[q]].id
    BY <1>6, <2>1 DEF Displays
  <2>3. src[p] = src[q]
    BY <1>1, <2>2 DEF Conversation, IsResult
  <2>4. p \in Int /\ q \in Int /\ src[p] \in Int
    BY <2>1, <2>2 DEF Indices
  <2>5. ~ (p < q) /\ ~ (q < p)
    BY <1>6, <2>1, <2>3, <2>4 DEF Displays
  <2> QED BY <2>4, <2>5
<1>11. Turned(src, c)
  BY <1>6, <1>8, <1>9 DEF Turned, Users, v
<1> QED BY <1>1, <1>2, <1>4, <1>7, <1>10, <1>11 DEF v

\* No view is cut more than the budget asks, and no request is refused that had a view
\* within it, for conversations of any length and any budget.
THEOREM SnipIsLongest == Spec => []SnipLongest
<1>1. ViewInv /\ MarkInv => SnipLongest
  <2> SUFFICES ASSUME ViewInv, MarkInv, request.made PROVE SnipLongest
    BY DEF SnipLongest
  <2>1. /\ Coherent(Visible) /\ Owned(Visible) /\ UsersApart(Visible) /\ budget \in Nat
        /\ request = Prepare(Visible, messages[turn])
        /\ \E src, c : Turned(src, c)
    BY VisibleIs
  <2>2. PICK c \in Users(Visible) : Visible[c] = messages[turn]
    BY <2>1 DEF Turned
  <2> DEFINE v == Visible
             u == messages[turn]
             quiet == DropRuntimeStatuses(Normal(v))
             ms == Microcompact(quiet, PositionOf(quiet, u))
             current == PositionOf(ms, u)
             views == [start \in Starts(ms, current) |->
                         Repaired(Candidate(ms, Anchors(ms, current), start))]
             possible == {start \in DOMAIN views : Fits(views[start])}
  <2>3. LET r == Prepare(v, u)
        IN IF r.sent THEN Fits(r.view) /\ (Fits(ms) \/ r.view = views[Least(possible)])
           ELSE possible = {}
    <3> DEFINE Longest(user) ==
                 LET calm == DropRuntimeStatuses(Normal(v))
                     compact == Microcompact(calm, PositionOf(calm, user))
                     here == PositionOf(compact, user)
                     each == [start \in Starts(compact, here) |->
                                Repaired(Candidate(compact, Anchors(compact, here), start))]
                     fit == {start \in DOMAIN each : Fits(each[start])}
                     r == Prepare(v, user)
                 IN IF r.sent
                    THEN Fits(r.view) /\ (Fits(compact) \/ r.view = each[Least(fit)])
                    ELSE fit = {}
    <3>1. Longest(v[c])
      BY <2>1, <2>2, PreparedLongest, Zenon
    <3> HIDE DEF Longest
    <3>2. Longest(u)
      BY <2>2, <3>1, Zenon
    <3> QED BY <3>2 DEF Longest
  <2>4. IF request.sent THEN Fits(View) /\ (Fits(ms) \/ View = views[Least(possible)])
        ELSE possible = {}
    BY <2>1, <2>3 DEF View
  <2> QED BY <2>4 DEF SnipLongest
<1>2. (~ repeating => ViewInv) /\ (~ repeating => MarkInv) => SnipLongest
  BY <1>1 DEF SnipLongest
<1> QED BY <1>2, RequestIsView, ResultsAreMarked, PTL

LEMMA SentViews ==
  ASSUME ViewInv, MarkInv, request.sent
  PROVE  /\ Coherent(Visible) /\ Conversation(messages) /\ Marked(messages)
         /\ turn \in 1 .. Len(messages) /\ covered < turn /\ covered \in Nat
         /\ \E d, c, src : Turned(d, c) /\ Views(src, View, Visible, c)
<1>1. /\ Coherent(Visible) /\ Owned(Visible) /\ UsersApart(Visible)
      /\ Conversation(messages) /\ Marked(messages) /\ budget \in Nat
      /\ turn \in 1 .. Len(messages) /\ covered < turn /\ covered \in Nat
      /\ request = Prepare(Visible, messages[turn])
      /\ \E d, c : Turned(d, c)
  BY SentMade, VisibleIs
<1>2. PICK d, c : Turned(d, c)
  BY <1>1
<1>3. c \in Users(Visible) /\ request = Prepare(Visible, Visible[c])
  BY <1>1, <1>2 DEF Turned
<1>4. \E src : Views(src, Prepare(Visible, Visible[c]).view, Visible, c)
  BY <1>1, <1>3, PrepareViews
<1>5. \E src : Views(src, View, Visible, c)
  BY <1>3, <1>4 DEF View
<1> QED BY <1>1, <1>2, <1>5

\* A message that went into the view is shown.
LEMMA WentShows ==
  ASSUME NEW d, NEW c, NEW src, Turned(d, c), Views(src, View, Visible, c),
         NEW p \in Indices(View), NEW i \in Indices(Visible), src[p] = i
  PROVE  Shows(messages[d[i]])
<1>1. i # 0
  BY DEF Indices
<1>2. View[p].kind = Visible[i].kind /\ View[p].id = Visible[i].id
  BY <1>1 DEF Views, Follows, Same
<1>3. Visible[i].kind = messages[d[i]].kind /\ Visible[i].id = messages[d[i]].id
  BY DEF Turned, Displays
<1> QED BY <1>2, <1>3 DEF Shows

LEMMA ViewShowsCurrent == ViewInv /\ MarkInv => CurrentShown
<1> SUFFICES ASSUME ViewInv, MarkInv, request.sent
             PROVE  /\ Shows(messages[turn])
                    /\ Shows(messages[Greatest(Users(messages))])
                    /\ \A i, j \in Users(messages) :
                         turn < i /\ i <= j /\ Shows(messages[i]) => Shows(messages[j])
                    /\ \A i \in turn + 1 .. Len(messages) :
                         (\A j \in i + 1 .. Len(messages) : IsResult(messages[j]))
                           => messages[i].kind = "status" \/ Shows(messages[i]) \/ OfSkill(messages[i])
                    /\ \A i \in Results(messages), k \in Results(View) :
                         (i > turn /\ messages[i].kind = View[k].kind /\ messages[i].id = View[k].id)
                           => \/ View[k].size = messages[i].size
                              \/ View[k].size = MaxResult /\ messages[i].size > MaxResult
  BY DEF CurrentShown
<1> DEFINE v == Visible
           n == Len(messages)
<1>1. /\ Coherent(v) /\ Conversation(messages) /\ Marked(messages)
      /\ turn \in 1 .. n /\ covered < turn /\ covered \in Nat
      /\ \E d, c, src : Turned(d, c) /\ Views(src, View, v, c)
  BY SentViews
<1>2. PICK d, c, src : Turned(d, c) /\ Views(src, View, v, c)
  BY <1>1
<1>3. ASSUME NEW i \in Indices(v), \E p \in Indices(View) : src[p] = i
      PROVE  Shows(messages[d[i]])
  BY <1>2, <1>3, WentShows
<1>4. /\ d \in [Indices(v) -> Indices(messages)]
      /\ \A p, q \in Indices(v) : p < q => d[p] < d[q]
      /\ \A p \in Indices(v) : v[p].kind = messages[d[p]].kind /\ v[p].id = messages[d[p]].id
      /\ \A p \in Indices(v) : covered < d[p] => v[p] = messages[d[p]]
      /\ \A p \in Results(v) : v[p] = messages[d[p]]
      /\ \A i \in covered + 1 .. n : \E p \in Indices(v) : d[p] = i
      /\ c \in Users(v) /\ c \in Indices(v) /\ d[c] = turn /\ v[c] = messages[turn]
  BY <1>2 DEF Turned, Displays, Users
<1>5. /\ messages \in Seq(Message) /\ n \in Nat /\ v \in Seq(Message)
      /\ \A i \in Indices(messages) : i \in Nat /\ i # 0 /\ messages[i] \in Message
      /\ \A p \in Indices(v) : p \in Nat /\ p # 0 /\ v[p] \in Message
  BY <1>1 DEF Conversation, Coherent, Indices
<1> HIDE DEF v
<1>6. Shows(messages[turn])
  BY <1>2, <1>3, <1>4 DEF Views
<1>7. Shows(messages[Greatest(Users(messages))])
  <2> DEFINE users == Users(messages)
             u == Greatest(users)
  <2>1. u \in users /\ \A i \in users : i <= u
    <3>1. users \in SUBSET (0 .. n) /\ turn \in users
      <4>1. turn \in Indices(messages) /\ messages[turn].kind = "user"
        BY <1>1, <1>4 DEF Indices, Users
      <4> QED BY <1>5, <4>1 DEF Users, Indices
    <3> HIDE DEF users
    <3>2. \E i \in users : \A j \in users : j <= i
      BY <1>5, <3>1, GreatestNumber
    <3> QED BY <3>2 DEF Greatest
  <2>2. turn \in users
    <3>1. turn \in Indices(messages) /\ messages[turn].kind = "user"
      BY <1>1, <1>4 DEF Indices, Users
    <3> QED BY <3>1 DEF Users
  <2> HIDE DEF u
  <2>3. u \in covered + 1 .. n /\ u \in Indices(messages) /\ messages[u].kind = "user"
    <3>1. u \in Indices(messages) /\ messages[u].kind = "user" /\ turn <= u
      BY <2>1, <2>2 DEF Users
    <3> QED BY <1>1, <1>5, <3>1 DEF Indices
  <2>4. PICK g \in Indices(v) : d[g] = u
    BY <1>4, <2>3
  <2>5. g \in Users(v)
    BY <1>4, <2>3, <2>4 DEF Users
  <2>6. ASSUME NEW p \in Users(v) PROVE p <= g
    <3>1. p \in Indices(v) /\ d[p] \in Indices(messages) /\ messages[d[p]].kind = "user"
      BY <1>4 DEF Users
    <3>2. d[p] <= u
      BY <2>1, <3>1 DEF Users
    <3>3. g < p => d[g] < d[p]
      BY <1>4, <3>1
    <3>4. g \in Nat /\ p \in Nat /\ u \in Nat /\ d[p] \in Nat
      BY <1>5, <2>3, <3>1
    <3> QED BY <2>4, <3>2, <3>3, <3>4
  <2>7. GreatestIn(Users(v), g)
    BY <2>5, <2>6 DEF GreatestIn
  <2>8. \E p \in Indices(View) : src[p] = g
    BY <1>2, <2>7 DEF Views
  <2> QED BY <1>3, <2>4, <2>8 DEF u
<1>8. ASSUME NEW i \in turn + 1 .. n, \A j \in i + 1 .. n : IsResult(messages[j]),
             messages[i].kind # "status", ~ OfSkill(messages[i])
      PROVE  Shows(messages[i])
  <2> DEFINE m == messages[i]
  <2>1. i \in covered + 1 .. n /\ i \in Indices(messages) /\ covered < i
    BY <1>1, <1>5 DEF Indices
  <2>2. PICK p \in Indices(v) : d[p] = i
    BY <1>4, <2>1
  <2>3. v[p] = m /\ m \in Message
    BY <1>4, <1>5, <2>1, <2>2
  <2>4. m.kind # "skill" /\ m.kind # "status" /\ \A call \in ToSet(m.calls) : call[2] \notin Skills
    BY <1>8 DEF OfSkill
  <2> HIDE DEF m
  <2>5. p \notin Gone(v)
    BY <2>3, <2>4, GoneIs
  <2>6. ASSUME NEW id \in CallIds(m), NEW a \in Gone(v) PROVE v[a].id # id
    <3> SUFFICES ASSUME v[a].id = id PROVE FALSE
      OBVIOUS
    <3>1. a \in Indices(v) /\ v[a].kind = "skill"
      BY GoneIs
    <3>2. a \in Results(v)
      BY <3>1 DEF Results, IsResult
    <3>3. v[a] = messages[d[a]] /\ d[a] \in Indices(messages)
      BY <1>4, <3>1, <3>2
    <3>4. /\ d[a] \in Instructions(messages) /\ d[a] \in Results(messages)
          /\ messages[d[a]].id = id
      BY <3>1, <3>3 DEF Instructions, Results, IsResult
    <3>5. PICK k \in Indices(m.calls) : m.calls[k][1] = id
      BY DEF CallIds, Indices
    <3>6. m.calls[k][2] = messages[d[a]].tool
      BY <1>1, <2>1, <3>4, <3>5 DEF Marked, m
    <3>7. messages[d[a]].tool \in Skills
      BY <1>1, <3>4 DEF Marked
    <3>8. m.calls[k] \in ToSet(m.calls)
      <4>1. m.calls \in Seq(Call)
        BY <2>3 DEF Message
      <4> QED BY <4>1 DEF ToSet, Indices
    <3> QED BY <2>4, <3>6, <3>7, <3>8
  <2>7. m.calls = <<>> \/ \E id \in CallIds(m) : \A a \in Gone(v) : v[a].id # id
    <3> SUFFICES ASSUME m.calls # <<>> PROVE \E id \in CallIds(m) : TRUE
      BY <2>6
    <3>1. m.calls \in Seq(Call)
      BY <2>3 DEF Message
    <3>2. 1 \in Indices(m.calls)
      BY <3>1 DEF Indices
    <3> QED BY <3>2, CallIdsAre
  <2>8. ASSUME NEW q \in p + 1 .. Len(v) PROVE IsResult(v[q])
    <3>1. q \in Indices(v) /\ p < q
      BY <1>5, <2>2 DEF Indices
    <3>2. i < d[q] /\ d[q] \in Indices(messages)
      BY <1>4, <2>2, <3>1
    <3>3. d[q] \in i + 1 .. n
      BY <1>5, <2>1, <3>2 DEF Indices
    <3>4. IsResult(messages[d[q]])
      BY <1>8, <3>3
    <3> QED BY <1>4, <3>1, <3>4 DEF IsResult
  <2>9. \E r \in Indices(View) : src[r] = p
    BY <1>2, <2>3, <2>4, <2>5, <2>7, <2>8 DEF Views
  <2> QED BY <1>3, <2>2, <2>9
<1>9. ASSUME NEW i \in Results(messages), NEW k \in Results(View),
             i > turn, messages[i].kind = View[k].kind, messages[i].id = View[k].id
      PROVE  \/ View[k].size = messages[i].size
             \/ View[k].size = MaxResult /\ messages[i].size > MaxResult
  <2>1. i \in Indices(messages) /\ k \in Indices(View) /\ IsResult(messages[i])
        /\ messages[i].kind # "backfilled"
    BY <1>1 DEF Results, Marked
  <2>2. src[k] # 0 /\ src[k] \in Indices(v) /\ Same(View[k], v[src[k]])
    BY <1>2, <1>9, <2>1 DEF Views, Follows
  <2>3. /\ d[src[k]] \in Indices(messages) /\ messages[d[src[k]]].kind = messages[i].kind
        /\ messages[d[src[k]]].id = messages[i].id
    BY <1>4, <1>9, <2>2 DEF Same
  <2>4. d[src[k]] \in Results(messages)
    BY <2>1, <2>3 DEF Results, IsResult
  <2>5. d[src[k]] = i
    BY <1>1, <2>3, <2>4 DEF Conversation, Coherent
  <2>6. covered < i /\ i \in Nat /\ turn \in Nat
    BY <1>1, <1>5, <1>9, <2>1
  <2>7. v[src[k]] = messages[i]
    BY <1>4, <2>2, <2>5, <2>6
  <2>8. c <= src[k]
    <3>1. src[k] < c => d[src[k]] < d[c]
      BY <1>4, <2>2
    <3> QED BY <1>4, <1>5, <1>9, <2>2, <2>5, <2>6, <3>1
  <2>9. Clipped(View[k], v[src[k]])
    BY <1>2, <2>1, <2>2, <2>8 DEF Views, Clips
  <2> QED BY <2>7, <2>9 DEF Clipped
<1>10. ASSUME NEW i \in Users(messages), NEW j \in Users(messages), turn < i, i <= j,
              Shows(messages[i])
       PROVE  Shows(messages[j])
  <2>1. /\ i \in Indices(messages) /\ j \in Indices(messages)
        /\ messages[i].kind = "user" /\ messages[j].kind = "user"
        /\ i \in Nat /\ j \in Nat /\ turn \in Nat
    BY <1>1, <1>5 DEF Users
  <2>2. PICK k \in Indices(View) : View[k].kind = "user" /\ View[k].id = messages[i].id
    BY <1>10, <2>1 DEF Shows
  <2> DEFINE a == src[k]
  <2>3. a # 0 /\ a \in Indices(v) /\ Same(View[k], v[a])
    BY <1>2, <2>2 DEF Views, Follows
  <2> HIDE DEF a
  <2>4. /\ d[a] \in Indices(messages) /\ messages[d[a]].kind = "user"
        /\ messages[d[a]].id = messages[i].id /\ v[a].kind = "user"
    BY <1>4, <2>2, <2>3 DEF Same
  <2>5. d[a] = i
    <3>1. ~ IsResult(messages[d[a]]) /\ ~ IsResult(messages[i])
      BY <2>1, <2>4 DEF IsResult
    <3> QED BY <1>1, <2>1, <2>4, <3>1 DEF Conversation
  <2>6. PICK b \in Indices(v) : d[b] = j
    <3>1. j \in covered + 1 .. n
      BY <1>1, <1>5, <1>10, <2>1 DEF Indices
    <3> QED BY <1>4, <3>1
  <2>7. a \in Users(v) /\ b \in Users(v)
    BY <1>4, <2>1, <2>3, <2>4, <2>6 DEF Users
  <2>8. a \in Nat /\ b \in Nat /\ c \in Nat
    BY <1>4, <1>5, <2>3, <2>6
  <2>9. c < a
    <3>1. a < c => d[a] < d[c]
      BY <1>4, <2>3
    <3> QED BY <1>4, <1>10, <2>1, <2>5, <2>8, <3>1
  <2>10. a <= b
    <3>1. b < a => d[b] < d[a]
      BY <1>4, <2>3, <2>6
    <3> QED BY <1>10, <2>1, <2>5, <2>6, <2>8, <3>1
  <2>11. \E p \in Indices(View) : src[p] = b
    <3>1. \A x, y \in Users(v) :
            c < x /\ x <= y /\ (\E p \in Indices(View) : src[p] = x)
              => \E p \in Indices(View) : src[p] = y
      BY <1>2 DEF Views
    <3> QED BY <2>7, <2>9, <2>10, <3>1 DEF a
  <2> QED BY <1>3, <2>6, <2>11
<1> QED BY <1>6, <1>7, <1>8, <1>9, <1>10

\* The task, the latest input and the batch behind it are in every view, an earlier input
\* of the turn only together with all later ones, and no result of the turn is shortened
\* but by the limit on one result, whatever was cut for the budget.
THEOREM CurrentIsShown == Spec => []CurrentShown
<1>1. ViewInv /\ MarkInv => CurrentShown
  BY ViewShowsCurrent
<1>2. (~ repeating => ViewInv) /\ (~ repeating => MarkInv) => CurrentShown
  BY <1>1 DEF CurrentShown
<1> QED BY <1>2, RequestIsView, ResultsAreMarked, PTL

--------------------------------------------------------------------------------
(* The limit on the active skills *)

\* What falls, or grows, with each step is never more, or less, later.
LEMMA NeverMore ==
  ASSUME NEW n \in Nat, NEW r \in [0 .. n -> Nat], \A m \in 1 .. n : r[m] <= r[m - 1]
  PROVE  \A m \in 0 .. n : \A k \in 0 .. m : r[m] <= r[k]
<1> DEFINE bad == {m \in 0 .. n : \E k \in 0 .. m : ~ (r[m] <= r[k])}
<1> SUFFICES ASSUME bad # {} PROVE FALSE
  OBVIOUS
<1>1. PICK m \in bad : \A j \in bad : m <= j
  <2>1. bad \in SUBSET Nat
    OBVIOUS
  <2> QED BY <2>1, LeastNumber
<1>2. PICK k \in 0 .. m : ~ (r[m] <= r[k])
  BY <1>1
<1>3. m \in 0 .. n /\ m # k /\ m # 0 /\ k \in 0 .. n
  BY <1>1, <1>2
<1>4. m \in 1 .. n /\ m - 1 \in 0 .. n /\ ~ (m <= m - 1) /\ k \in 0 .. m - 1
  BY <1>2, <1>3
<1>5. r[m - 1] <= r[k] /\ r[m] <= r[m - 1]
  BY <1>1, <1>4
<1> QED BY <1>2, <1>3, <1>4, <1>5

LEMMA NeverLess ==
  ASSUME NEW n \in Nat, NEW c, \A m \in 1 .. n : c[m - 1] \subseteq c[m]
  PROVE  \A m \in 0 .. n : \A k \in 0 .. m : c[k] \subseteq c[m]
<1> DEFINE bad == {m \in 0 .. n : \E k \in 0 .. m : ~ (c[k] \subseteq c[m])}
<1> SUFFICES ASSUME bad # {} PROVE FALSE
  OBVIOUS
<1>1. PICK m \in bad : \A j \in bad : m <= j
  <2>1. bad \in SUBSET Nat
    OBVIOUS
  <2> QED BY <2>1, LeastNumber
<1>2. PICK k \in 0 .. m : ~ (c[k] \subseteq c[m])
  BY <1>1
<1>3. m \in 0 .. n /\ m # k /\ m # 0 /\ k \in 0 .. n
  BY <1>1, <1>2
<1>4. m \in 1 .. n /\ m - 1 \in 0 .. n /\ ~ (m <= m - 1) /\ k \in 0 .. m - 1
  BY <1>2, <1>3
<1>5. c[k] \subseteq c[m - 1] /\ c[m - 1] \subseteq c[m]
  BY <1>1, <1>4
<1> QED BY <1>2, <1>5

\* The selection goes from the last message to the first.  What it takes stays taken, and
\* takes its size from what remains.
Selects(f, ms) ==
  LET n == Len(ms)
  IN /\ Active(ms) = f[n].chosen
     /\ f[0] = [chosen |-> {}, remaining |-> MaxSkillChars]
     /\ \A m \in 1 .. n : f[m] = Take(ms, f[m - 1], n + 1 - m)
     /\ \A m \in 0 .. n : f[m].remaining \in Nat
     /\ \A m \in 0 .. n : \A k \in 0 .. m :
          f[m].remaining <= f[k].remaining /\ f[k].chosen \subseteq f[m].chosen
     /\ \A m \in 0 .. n : \A i \in f[m].chosen :
          /\ i \in 1 .. n /\ n + 1 - i \in 1 .. m
          /\ f[n + 1 - i].remaining + ms[i].size = f[n - i].remaining

LEMMA ActiveSelects ==
  ASSUME NEW ms \in Seq(Message)
  PROVE  \E f : Selects(f, ms)
<1> DEFINE n == Len(ms)
<1>1. PICK f : /\ Active(ms) = f[n].chosen
               /\ f[0] = [chosen |-> {}, remaining |-> MaxSkillChars]
               /\ \A m \in 0 .. n : f[m] \in Choice(ms)
               /\ \A m \in 1 .. n : f[m] = Take(ms, f[m - 1], n + 1 - m)
  BY ActiveSteps
<1>2. n \in Nat /\ MaxSkillChars \in Nat /\ \A i \in 1 .. n : ms[i] \in Message
  BY ViewAssumption
<1>3. \A i \in 1 .. n : ms[i].size \in Nat
  BY <1>2 DEF Message
<1>4. \A i \in LatestActivations(ms) : i \in 1 .. n
  BY DEF LatestActivations, Activations, Instructions, Indices
<1> HIDE DEF n
<1>5. ASSUME NEW m \in 1 .. n
      PROVE  \/ f[m] = f[m - 1]
             \/ /\ n + 1 - m \in LatestActivations(ms)
                /\ ms[n + 1 - m].size <= f[m - 1].remaining
                /\ f[m].chosen = f[m - 1].chosen \cup {n + 1 - m}
                /\ f[m].remaining = f[m - 1].remaining - ms[n + 1 - m].size
  <2> DEFINE i == n + 1 - m
             s == f[m - 1]
  <2>1. f[m] = Take(ms, s, i)
    BY <1>1
  <2> HIDE DEF i, s
  <2>2. CASE i \in LatestActivations(ms) /\ ms[i].size <= s.remaining
    <3>1. f[m] = [chosen |-> s.chosen \cup {i}, remaining |-> s.remaining - ms[i].size]
      BY <2>1, <2>2 DEF Take
    <3>2. f[m].chosen = s.chosen \cup {i} /\ f[m].remaining = s.remaining - ms[i].size
      BY <3>1
    <3> QED BY <2>2, <3>2 DEF i, s
  <2>3. CASE ~ (i \in LatestActivations(ms) /\ ms[i].size <= s.remaining)
    BY <2>1, <2>3 DEF Take, s
  <2> QED BY <2>2, <2>3
<1> DEFINE Good == {s \in Choice(ms) : s.remaining \in Nat}
<1>6. \A m \in 0 .. n : f[m] \in Good
  <2>1. 0 \in 0 .. n
    BY <1>2
  <2>2. f[0] \in Good
    BY <1>1, <1>2, <2>1
  <2>3. ASSUME NEW m \in 1 .. n, f[m - 1] \in Good PROVE f[m] \in Good
    <3>1. f[m] \in Choice(ms) /\ n + 1 - m \in 1 .. n
      BY <1>1, <1>2
    <3>2. f[m].remaining \in Nat
      <4> DEFINE s == f[m - 1].remaining
                 size == ms[n + 1 - m].size
      <4>1. s \in Nat /\ size \in Nat
        BY <1>3, <2>3, <3>1
      <4>2. f[m].remaining = s \/ (size <= s /\ f[m].remaining = s - size)
        BY <1>5, Zenon
      <4> HIDE DEF s, size
      <4>3. size <= s => s - size \in Nat
        BY <4>1
      <4> QED BY <4>1, <4>2, <4>3, Zenon
    <3> QED BY <3>1, <3>2
  <2> HIDE DEF Good
  <2> QED BY <1>2, <2>2, <2>3, StepsStay
<1>7. \A m \in 0 .. n : f[m].remaining \in Nat
  BY <1>6
<1>8. \A m \in 1 .. n : m \in 0 .. n /\ m - 1 \in 0 .. n /\ n + 1 - m \in 1 .. n /\ m # 0
  BY <1>2
<1> DEFINE r == [m \in 0 .. n |-> f[m].remaining]
           c == [m \in 0 .. n |-> f[m].chosen]
<1>9. \A m \in 0 .. n : \A k \in 0 .. m : f[m].remaining <= f[k].remaining
  <2>1. r \in [0 .. n -> Nat] /\ \A m \in 0 .. n : r[m] = f[m].remaining
    BY <1>7
  <2>2. ASSUME NEW m \in 1 .. n PROVE r[m] <= r[m - 1]
    <3>1. /\ f[m].remaining \in Nat /\ f[m - 1].remaining \in Nat /\ ms[n + 1 - m].size \in Nat
          /\ r[m] = f[m].remaining /\ r[m - 1] = f[m - 1].remaining
      BY <1>3, <1>7, <1>8
    <3> QED BY <1>5, <3>1
  <2> HIDE DEF r
  <2>3. \A m \in 0 .. n : \A k \in 0 .. m : r[m] <= r[k]
    BY <1>2, <2>1, <2>2, NeverMore
  <2>4. \A m \in 0 .. n : \A k \in 0 .. m : k \in 0 .. n
    BY <1>2
  <2> QED BY <2>1, <2>3, <2>4
<1>10. \A m \in 0 .. n : \A k \in 0 .. m : f[k].chosen \subseteq f[m].chosen
  <2>1. \A m \in 0 .. n : c[m] = f[m].chosen
    OBVIOUS
  <2>2. ASSUME NEW m \in 1 .. n PROVE c[m - 1] \subseteq c[m]
    <3>1. c[m] = f[m].chosen /\ c[m - 1] = f[m - 1].chosen
      BY <1>8, <2>1
    <3> QED BY <1>5, <3>1
  <2> HIDE DEF c
  <2>3. \A m \in 0 .. n : \A k \in 0 .. m : c[k] \subseteq c[m]
    BY <1>2, <2>2, NeverLess
  <2>4. \A m \in 0 .. n : \A k \in 0 .. m : k \in 0 .. n
    BY <1>2
  <2> QED BY <2>1, <2>3, <2>4
<1> DEFINE Taken(i, m) == /\ i \in 1 .. n /\ n + 1 - i \in 1 .. m
                          /\ f[n + 1 - i].remaining + ms[i].size = f[n - i].remaining
           bad == {m \in 0 .. n : \E i \in f[m].chosen : ~ Taken(i, m)}
<1>11. bad = {}
  <2> SUFFICES ASSUME bad # {} PROVE FALSE
    OBVIOUS
  <2>1. PICK m \in bad : \A j \in bad : m <= j
    <3>1. bad \in SUBSET Nat
      OBVIOUS
    <3> QED BY <3>1, LeastNumber
  <2>2. PICK i \in f[m].chosen : ~ Taken(i, m)
    BY <2>1
  <2>3. m \in 0 .. n /\ m # 0
    <3>1. f[0].chosen = {}
      BY <1>1
    <3> QED BY <2>1, <2>2, <3>1
  <2>4. m \in 1 .. n /\ m - 1 \in 0 .. n /\ ~ (m <= m - 1)
    BY <1>2, <2>3
  <2>5. m - 1 \notin bad
    BY <2>1, <2>4
  <2>6. CASE i \in f[m - 1].chosen
    <3>1. Taken(i, m - 1)
      BY <2>4, <2>5, <2>6
    <3>2. n + 1 - i \in 1 .. m - 1 => n + 1 - i \in 1 .. m
      BY <2>4
    <3> QED BY <2>2, <3>1, <3>2
  <2>7. CASE i \notin f[m - 1].chosen
    <3>1. /\ i = n + 1 - m /\ f[m].remaining = f[m - 1].remaining - ms[i].size
      BY <1>5, <2>2, <2>4, <2>7
    <3>2. i \in 1 .. n /\ n + 1 - i = m /\ n - i = m - 1 /\ m \in 1 .. m
      <4>1. i = n + 1 - m /\ n \in Nat
        BY <1>2, <3>1, Zenon
      <4>2. m \in 1 .. n
        BY <2>4
      <4> HIDE DEF bad, Taken
      <4> QED BY <4>1, <4>2
    <3>3. f[m].remaining \in Nat /\ f[m - 1].remaining \in Nat /\ ms[i].size \in Nat
      BY <1>3, <1>7, <2>3, <2>4, <3>2
    <3>4. f[m].remaining + ms[i].size = f[m - 1].remaining
      <4> DEFINE x == f[m].remaining
                 y == f[m - 1].remaining
                 size == ms[i].size
      <4>1. x \in Nat /\ y \in Nat /\ size \in Nat /\ x = y - size
        BY <3>1, <3>3
      <4> HIDE DEF x, y, size, bad, Taken
      <4>2. x + size = y
        BY <4>1
      <4> QED BY <4>2 DEF x, y, size
    <3> QED BY <2>2, <3>2, <3>4
  <2> QED BY <2>6, <2>7
<1>12. \A m \in 0 .. n : \A i \in f[m].chosen : Taken(i, m)
  BY <1>11
<1>13. Selects(f, ms)
  BY <1>1, <1>7, <1>9, <1>10, <1>12 DEF Selects, n
<1> QED BY <1>13

\* The active skills are within their limit together.
LEMMA ActiveSum ==
  ASSUME NEW ms \in Seq(Message)
  PROVE  Sum(At(ms, Active(ms))) <= MaxSkillChars
<1> DEFINE part == At(ms, Active(ms))
           n == Len(ms)
           l == Len(part)
<1>1. PICK f : Selects(f, ms)
  BY ActiveSelects
<1>2. part \in Seq(Message) /\ \E pos : Picks(pos, part, ms, Active(ms))
  BY AtPicks
<1> HIDE DEF part
<1>3. PICK pos : Picks(pos, part, ms, Active(ms))
  BY <1>2
<1>4. PICK S \in [0 .. l -> Nat] :
        Sum(part) = S[l] /\ S[0] = 0 /\ \A p \in 1 .. l : S[p] = S[p - 1] + part[p].size
  BY <1>2, SumSteps
<1>5. n \in Nat /\ l \in Nat /\ MaxSkillChars \in Nat
  BY <1>2, ViewAssumption
<1>6. /\ \A p \in 1 .. l : pos[p] \in 1 .. n /\ pos[p] \in f[n].chosen /\ part[p] = ms[pos[p]]
      /\ \A p, q \in 1 .. l : p < q => pos[p] < pos[q]
  <2>1. Active(ms) = f[n].chosen
    BY <1>1 DEF Selects
  <2> QED BY <1>3, <2>1 DEF Picks, Indices
<1>7. /\ f[0].remaining = MaxSkillChars
      /\ \A m \in 0 .. n : f[m].remaining \in Nat
      /\ \A m \in 0 .. n : \A k \in 0 .. m : f[m].remaining <= f[k].remaining
  BY <1>1 DEF Selects
<1>8. \A i \in f[n].chosen : f[n + 1 - i].remaining + ms[i].size = f[n - i].remaining
  <2>1. n \in 0 .. n
    BY <1>5
  <2> QED BY <1>1, <2>1 DEF Selects
<1>9. \A p \in 1 .. l : part[p].size \in Nat
  <2>1. \A p \in 1 .. l : part[p] \in Message
    BY <1>2
  <2> QED BY <2>1 DEF Message
<1> DEFINE rem == [m \in 0 .. n |-> f[m].remaining]
<1>10. \A m \in 0 .. n : rem[m] \in Nat /\ rem[m] = f[m].remaining
  BY <1>7
<1> HIDE DEF rem, n, l
<1>11. /\ rem[0] = MaxSkillChars
       /\ \A m \in 0 .. n : \A k \in 0 .. m : rem[m] <= rem[k]
  <2>1. 0 \in 0 .. n /\ \A m \in 0 .. n : \A k \in 0 .. m : k \in 0 .. n
    BY <1>5
  <2> QED BY <1>7, <1>10, <2>1
<1>12. ASSUME NEW p \in 1 .. l
       PROVE  /\ n + 1 - pos[p] \in 1 .. n /\ n - pos[p] \in 0 .. n
              /\ rem[n + 1 - pos[p]] + part[p].size = rem[n - pos[p]]
  <2>1. n + 1 - pos[p] \in 1 .. n /\ n - pos[p] \in 0 .. n /\ n + 1 - pos[p] \in 0 .. n
    BY <1>5, <1>6
  <2>2. f[n + 1 - pos[p]].remaining + ms[pos[p]].size = f[n - pos[p]].remaining
    BY <1>6, <1>8
  <2> QED BY <1>6, <1>10, <2>1, <2>2
<1>15. \A x \in 1 .. n : n + 1 - x \in 0 .. n /\ n - x \in 0 .. n
  BY <1>5
<1>16. \A x, y \in 1 .. n : x < y => n + 1 - y \in 0 .. n - x
  BY <1>5
\* from the last one back, what was taken and what remains are within the limit
<1> DEFINE Within(p) == (S[l] - S[p - 1]) + rem[n + 1 - pos[p]] <= MaxSkillChars
           bad == {p \in 1 .. l : ~ Within(p)}
<1>13. bad = {}
  <2> SUFFICES ASSUME bad # {} PROVE FALSE
    OBVIOUS
  <2>1. PICK p \in bad : \A q \in bad : q <= p
    <3>1. bad \in SUBSET (0 .. l)
      BY <1>5
    <3> HIDE DEF bad
    <3> QED BY <1>5, <3>1, GreatestNumber
  <2>2. p \in 1 .. l /\ ~ Within(p)
    BY <2>1
  <2>3. p \in 0 .. l /\ p - 1 \in 0 .. l /\ l \in 0 .. l
    BY <1>5, <2>2
  <2>4. /\ S[l] \in Nat /\ S[p] \in Nat /\ S[p - 1] \in Nat /\ part[p].size \in Nat
        /\ S[p] = S[p - 1] + part[p].size
    BY <1>4, <1>9, <2>2, <2>3
  <2> DEFINE after == rem[n + 1 - pos[p]]
             before == rem[n - pos[p]]
  <2>5. after \in Nat /\ before \in Nat /\ after + part[p].size = before
    <3>1. n + 1 - pos[p] \in 0 .. n /\ n - pos[p] \in 0 .. n
      BY <1>6, <1>15, <2>2
    <3> QED BY <1>10, <1>12, <2>2, <3>1
  <2>6. ~ ((S[l] - S[p - 1]) + after <= MaxSkillChars)
    BY <2>2
  <2>7. (S[l] - S[p]) + before <= MaxSkillChars
    <3>1. CASE p = l
      <4>1. n - pos[p] \in 0 .. n /\ 0 \in 0 .. n - pos[p]
        BY <1>5, <1>12, <2>2
      <4>2. before <= MaxSkillChars
        BY <1>11, <4>1
      <4> HIDE DEF before
      <4> DEFINE x == S[l]
                 y == S[p]
      <4>3. x \in Nat /\ x = y /\ before \in Nat
        BY <2>4, <2>5, <3>1
      <4> HIDE DEF x, y, bad, Within
      <4>4. (x - y) + before <= MaxSkillChars
        BY <4>2, <4>3
      <4> QED BY <4>4 DEF x, y
    <3>2. CASE p # l
      <4> DEFINE q == p + 1
                 next == rem[n + 1 - pos[q]]
      <4>1. q \in 1 .. l /\ p < q /\ ~ (q <= p) /\ q - 1 = p
        BY <1>5, <2>2, <3>2
      <4>2. Within(q)
        BY <2>1, <4>1
      <4>3. (S[l] - S[p]) + next <= MaxSkillChars
        BY <4>1, <4>2
      <4>4. pos[p] < pos[q] /\ pos[p] \in 1 .. n /\ pos[q] \in 1 .. n
        BY <1>6, <2>2, <4>1
      <4>5. n - pos[p] \in 0 .. n /\ n + 1 - pos[q] \in 0 .. n - pos[p] /\ n + 1 - pos[q] \in 0 .. n
        BY <1>15, <1>16, <4>4
      <4>6. before <= next /\ next \in Nat
        BY <1>10, <1>11, <4>5
      <4> DEFINE x == S[l]
                 y == S[p]
      <4>7. x \in Nat /\ y \in Nat /\ (x - y) + next <= MaxSkillChars /\ before \in Nat
        BY <2>4, <2>5, <4>3
      <4>8. MaxSkillChars \in Nat
        BY <1>5
      <4> HIDE DEF next, before, x, y, bad, Within
      <4>9. (x - y) + before <= MaxSkillChars
        BY <4>6, <4>7, <4>8
      <4> QED BY <4>9 DEF x, y
    <3> QED BY <3>1, <3>2
  <2> HIDE DEF after, before
  <2> DEFINE x == S[l]
             y == S[p]
             z == S[p - 1]
             size == part[p].size
             limit == MaxSkillChars
  <2>8. /\ x \in Nat /\ y \in Nat /\ z \in Nat /\ size \in Nat /\ limit \in Nat
        /\ y = z + size /\ (x - y) + before <= limit /\ after + size = before
        /\ ~ ((x - z) + after <= limit)
    BY <1>5, <2>4, <2>5, <2>6, <2>7
  <2> HIDE DEF x, y, z, size, limit
  <2> QED BY <2>5, <2>8
<1>14. S[l] <= MaxSkillChars
  <2>1. CASE l = 0
    BY <1>4, <1>5, <2>1
  <2>2. CASE l # 0
    <3>1. 1 \in 1 .. l /\ 0 \in 0 .. l /\ l \in 0 .. l /\ 1 - 1 = 0
      BY <1>5, <2>2
    <3>2. (S[l] - S[0]) + rem[n + 1 - pos[1]] <= MaxSkillChars
      BY <1>13, <3>1
    <3>3. rem[n + 1 - pos[1]] \in Nat
      <4>1. n + 1 - pos[1] \in 0 .. n
        BY <1>5, <1>6, <3>1
      <4> QED BY <1>10, <4>1
    <3> QED BY <1>4, <1>5, <3>1, <3>2, <3>3
  <2> QED BY <2>1, <2>2
<1> QED BY <1>4, <1>14 DEF part

\* The last activation is taken first, if it is within the limit by itself.
LEMMA LastActive ==
  ASSUME NEW ms \in Seq(Message), NEW a, GreatestIn(Activations(ms), a),
         ms[a].size <= MaxSkillChars
  PROVE  a \in Active(ms)
<1> DEFINE n == Len(ms)
<1>1. PICK f : Selects(f, ms)
  BY ActiveSelects
<1>2. n \in Nat /\ a \in 1 .. n /\ \A b \in Activations(ms) : b <= a /\ b \in Nat
  BY DEF GreatestIn, Activations, Instructions, Indices
<1>3. a \in LatestActivations(ms)
  BY <1>2 DEF LatestActivations, GreatestIn
<1>4. /\ Active(ms) = f[n].chosen
      /\ f[0] = [chosen |-> {}, remaining |-> MaxSkillChars]
      /\ \A m \in 1 .. n : f[m] = Take(ms, f[m - 1], n + 1 - m)
      /\ \A m \in 0 .. n : \A k \in 0 .. m : f[k].chosen \subseteq f[m].chosen
  BY <1>1 DEF Selects
<1> HIDE DEF n
<1> DEFINE first == f[0]
           r == n - a
           Firsts == {first}
<1>5. r \in 0 .. n /\ r + 1 \in 1 .. n /\ n + 1 - (r + 1) = a /\ (r + 1) - 1 = r
  BY <1>2
<1>6. \A m \in 0 .. r : f[m] \in Firsts
  <2>1. r \in Nat /\ f[0] \in Firsts
    BY <1>5
  <2>2. ASSUME NEW m \in 1 .. r, f[m - 1] \in Firsts PROVE f[m] \in Firsts
    <3>1. m \in 1 .. n /\ ~ (n + 1 - m <= a)
      BY <1>2, <1>5
    <3>2. n + 1 - m \notin LatestActivations(ms)
      BY <1>2, <3>1 DEF LatestActivations
    <3>3. f[m] = f[m - 1]
      BY <1>4, <3>1, <3>2 DEF Take
    <3> QED BY <2>2, <3>3
  <2> HIDE DEF Firsts, r
  <2> QED BY <2>1, <2>2, StepsStay
<1>7. f[r] = f[0]
  <2>1. r \in 0 .. r
    BY <1>5
  <2> QED BY <1>6, <2>1
<1>8. f[r].remaining = MaxSkillChars
  BY <1>4, <1>7
<1>9. f[r + 1] = Take(ms, f[r], a)
  BY <1>4, <1>5
<1>10. a \in f[r + 1].chosen
  BY <1>3, <1>8, <1>9 DEF Take
<1>11. n \in 0 .. n /\ r + 1 \in 0 .. n
  BY <1>2, <1>5
<1> QED BY <1>4, <1>10, <1>11

\* An instruction that is shown is an active one of what is visible, as it was written.
LEMMA ShownInstruction ==
  ASSUME NEW d, NEW c, NEW src, Turned(d, c), Views(src, View, Visible, c),
         Coherent(Visible), Owned(Visible), Conversation(messages),
         NEW i \in Instructions(messages), Shows(messages[i])
  PROVE  \E q \in Active(Visible) : q \in Indices(Visible) /\ d[q] = i /\ Visible[q] = messages[i]
<1> DEFINE v == Visible
<1>1. i \in Indices(messages) /\ messages[i].kind = "skill" /\ i \in Results(messages)
  BY DEF Instructions, Results, IsResult
<1>2. PICK p \in Indices(View) : View[p].kind = "skill" /\ View[p].id = messages[i].id
  BY <1>1 DEF Shows
<1>3. /\ Follows(src, View, v) /\ \A k \in Indices(View) : src[k] \notin Gone(v)
      /\ Displays(d, v, messages, covered)
  BY DEF Views, Turned
<1> HIDE DEF v
<1> DEFINE q == src[p]
<1>4. q # 0 /\ q \in Indices(v) /\ Same(View[p], v[q])
  BY <1>2, <1>3 DEF Follows
<1>5. q \notin Gone(v)
  BY <1>2, <1>3
<1> HIDE DEF q
<1>6. v[q].kind = "skill" /\ v[q].id = messages[i].id
  BY <1>2, <1>4 DEF Same
<1>7. q \in Results(v) /\ q \in Instructions(v)
  BY <1>4, <1>6 DEF Results, Instructions, IsResult
<1>8. v[q] = messages[d[q]] /\ d[q] \in Indices(messages)
  BY <1>3, <1>4, <1>7 DEF Displays
<1>9. d[q] \in Results(messages) /\ messages[d[q]].id = messages[i].id
  BY <1>6, <1>8 DEF Results, IsResult
<1>10. d[q] = i
  BY <1>1, <1>9 DEF Conversation, Coherent
<1>11. Declares(v, q) # {}
  BY <1>7 DEF Owned, Declares, v
<1>12. q \in Active(v)
  BY <1>5, <1>7, <1>11 DEF Activations, Gone
<1> QED BY <1>4, <1>8, <1>10, <1>12 DEF v

\* With its call, every instruction is an activation.
LEMMA InstructionsActivate ==
  ASSUME NEW ms, Owned(ms)
  PROVE  Activations(ms) = Instructions(ms)
<1>1. ASSUME NEW i \in Instructions(ms) PROVE Declares(ms, i) # {}
  <2>1. i \in Results(ms)
    BY DEF Instructions, Results, IsResult
  <2> QED BY <2>1 DEF Owned, Declares
<1> QED BY <1>1 DEF Activations

\* Of what is covered, the active skills are those of the history alone.
LEMMA CoveredIs ==
  ASSUME NEW ms, Conversation(ms), NEW n \in 0 .. Len(ms)
  PROVE  LET old == SubSeq(ms, 1, n)
         IN /\ old \in Seq(Message) /\ Activations(old) = Instructions(old)
            /\ \A i \in Instructions(ms) : i <= n => i \in Instructions(old) /\ old[i] = ms[i]
            /\ \A i \in Instructions(old) : i \in Instructions(ms) /\ old[i] = ms[i] /\ i <= n
<1> DEFINE old == SubSeq(ms, 1, n)
<1>1. Conversation(old) /\ Len(old) = n /\ \A i \in 1 .. n : old[i] = ms[i]
  BY ConversationPrefix
<1> HIDE DEF old
<1>2. old \in Seq(Message) /\ Owned(old) /\ Len(ms) \in Nat
  BY <1>1 DEF Conversation, Coherent
<1>3. Activations(old) = Instructions(old)
  BY <1>2, InstructionsActivate
<1>4. \A i \in Instructions(ms) : i <= n => i \in Instructions(old) /\ old[i] = ms[i]
  BY <1>1, <1>2 DEF Instructions, Indices
<1>5. \A i \in Instructions(old) : i \in Instructions(ms) /\ old[i] = ms[i] /\ i <= n
  BY <1>1, <1>2 DEF Instructions, Indices
<1> QED BY <1>2, <1>3, <1>4, <1>5 DEF old

LEMMA ViewShowsSkills == ViewInv /\ MarkInv => SkillsShown
<1> DEFINE activated == Instructions(messages)
           shown == {i \in activated : Shows(messages[i])}
<1> SUFFICES ASSUME ViewInv, MarkInv, request.sent
             PROVE  /\ \A i \in shown, j \in activated :
                         messages[i].tool = messages[j].tool => j <= i
                    /\ Sum(At(messages, shown)) <= MaxSkillChars
                    /\ \A i \in activated :
                         i = Greatest(activated) /\ messages[i].size <= MaxSkillChars
                           => \E k \in Results(View) : View[k] = messages[i]
  BY DEF SkillsShown
<1> DEFINE v == Visible
           old == SubSeq(messages, 1, covered)
<1>1. /\ Coherent(v) /\ Conversation(messages)
      /\ turn \in 1 .. Len(messages) /\ covered < turn /\ covered \in Nat
      /\ \E d, c, src : Turned(d, c) /\ Views(src, View, v, c)
  BY SentViews
<1>2. Owned(v)
  BY SentMade, VisibleIs
<1>3. PICK d, c, src : Turned(d, c) /\ Views(src, View, v, c)
  BY <1>1
<1>4. /\ \A p \in Indices(v) : d[p] \in Indices(messages)
      /\ \A p, q \in Indices(v) : p < q => d[p] < d[q]
      /\ \A p \in Results(v) : v[p] = messages[d[p]]
      /\ \A i \in Active(old) : \E p \in Results(v) : d[p] = i
      /\ \A i \in covered + 1 .. Len(messages) : \E p \in Indices(v) : d[p] = i
      /\ \A p \in Indices(v) : v[p].kind = messages[d[p]].kind
  BY <1>3 DEF Turned, Displays
<1>5. /\ messages \in Seq(Message) /\ v \in Seq(Message) /\ Len(messages) \in Nat
      /\ \A i \in Indices(messages) : i \in Nat /\ i # 0
      /\ \A p \in Indices(v) : p \in Nat /\ p # 0
  BY <1>1 DEF Conversation, Coherent, Indices
<1>6. covered \in 0 .. Len(messages)
  BY <1>1, <1>5
<1>7. /\ old \in Seq(Message) /\ Activations(old) = Instructions(old)
      /\ \A i \in activated : i <= covered => i \in Instructions(old) /\ old[i] = messages[i]
      /\ \A i \in Instructions(old) : i \in activated /\ old[i] = messages[i] /\ i <= covered
  BY <1>1, <1>6, CoveredIs
<1>8. Activations(v) = Instructions(v)
  BY <1>2, InstructionsActivate
<1>9. \A i \in activated : i \in Indices(messages) /\ i \in Nat /\ messages[i].kind = "skill"
  BY <1>5 DEF Instructions
<1>10. ASSUME NEW i \in shown
       PROVE  \E q \in Active(v) : q \in Indices(v) /\ d[q] = i /\ v[q] = messages[i]
  BY <1>1, <1>2, <1>3, <1>10, ShownInstruction
<1>11. ASSUME NEW i \in activated, covered < i \/ i \in Active(old)
       PROVE  \E q \in Activations(v) : q \in Indices(v) /\ d[q] = i /\ v[q] = messages[i]
  <2>1. PICK q \in Indices(v) : d[q] = i
    <3>1. covered < i => i \in covered + 1 .. Len(messages)
      BY <1>1, <1>5, <1>9 DEF Indices
    <3> QED BY <1>4, <1>11, <3>1 DEF Results
  <2>2. v[q].kind = "skill"
    BY <1>4, <1>9, <2>1
  <2>3. q \in Results(v) /\ q \in Instructions(v)
    BY <2>1, <2>2 DEF Results, Instructions, IsResult
  <2> QED BY <1>4, <1>8, <2>1, <2>3
<1>12. \A q \in Active(v) : q \in LatestActivations(v) /\ q \in Activations(v)
  BY <1>5, ActiveActivated
<1>13. \A q \in Active(old) : q \in LatestActivations(old) /\ q \in Activations(old)
  BY <1>7, ActiveActivated
<1>14. \A i \in shown : i \in activated
  OBVIOUS
<1> HIDE DEF v, old, shown
<1>15. ASSUME NEW i \in shown, NEW j \in activated, messages[i].tool = messages[j].tool
       PROVE  j <= i
  <2>1. PICK q \in Active(v) : q \in Indices(v) /\ d[q] = i /\ v[q] = messages[i]
    BY <1>10
  <2>2. i \in activated /\ i \in Nat /\ j \in Nat
    BY <1>9, <1>14
  <2>3. CASE covered < j \/ j \in Active(old)
    <3>1. PICK r \in Activations(v) : r \in Indices(v) /\ d[r] = j /\ v[r] = messages[j]
      BY <1>11, <2>3
    <3>2. r <= q
      BY <1>12, <1>15, <2>1, <3>1 DEF LatestActivations
    <3>3. r = q \/ r < q
      BY <1>5, <2>1, <3>1, <3>2
    <3>4. r < q => j < i
      BY <1>4, <2>1, <3>1
    <3>5. r = q => j = i
      BY <2>1, <3>1
    <3> QED BY <2>2, <3>3, <3>4, <3>5
  <2>4. CASE ~ (covered < j) /\ j \notin Active(old)
    <3>1. CASE covered < i
      BY <1>1, <2>2, <2>4, <3>1
    <3>2. CASE ~ (covered < i)
      <4>1. i <= covered /\ j <= covered
        BY <1>1, <2>2, <2>4, <3>2
      <4>2. i \in Active(old)
        <5>1. PICK p \in Indices(v) : d[p] = i /\ p \in Active(v)
          BY <2>1
        <5>2. p \in Results(v)
          BY <1>8, <1>12, <5>1 DEF Instructions, Results, IsResult
        <5> QED BY <1>3, <4>1, <5>1, <5>2 DEF Turned, Displays, v, old
      <4>3. j \in Activations(old) /\ old[j] = messages[j] /\ old[i] = messages[i]
        BY <1>7, <2>2, <4>1
      <4> QED BY <1>13, <1>15, <4>2, <4>3 DEF LatestActivations
    <3> QED BY <3>1, <3>2
  <2> QED BY <2>3, <2>4
<1>16. Sum(At(messages, shown)) <= MaxSkillChars
  <2> DEFINE small == At(messages, shown)
             big == At(v, Active(v))
  <2>1. /\ small \in Seq(Message) /\ big \in Seq(Message)
        /\ \E pos : Picks(pos, small, messages, shown)
        /\ \E pos : Picks(pos, big, v, Active(v))
    BY <1>5, AtPicks
  <2>2. Sum(big) <= MaxSkillChars
    BY <1>5, ActiveSum
  <2> HIDE DEF small, big
  <2>3. PICK s : Picks(s, small, messages, shown)
    BY <2>1
  <2>4. PICK b : Picks(b, big, v, Active(v))
    BY <2>1
  <2>5. \A p \in Indices(small) : s[p] \in shown /\ s[p] \in Indices(messages) /\ small[p] = messages[s[p]]
    BY <2>3 DEF Picks
  <2>6. \A p \in Indices(big) : b[p] \in Indices(v) /\ big[p] = v[b[p]]
    BY <2>4 DEF Picks
  <2>7. ASSUME NEW p \in Indices(small)
        PROVE  \E k \in Indices(big) : d[b[k]] = s[p] /\ big[k] = small[p]
    <3>1. PICK q \in Active(v) : q \in Indices(v) /\ d[q] = s[p] /\ v[q] = messages[s[p]]
      BY <1>10, <2>5
    <3>2. PICK k \in Indices(big) : b[k] = q
      BY <2>4, <3>1 DEF Picks
    <3> QED BY <2>5, <2>6, <3>1, <3>2
  <2> DEFINE at == [p \in Indices(small) |->
                      CHOOSE k \in Indices(big) : d[b[k]] = s[p] /\ big[k] = small[p]]
  <2>8. \A p \in Indices(small) : at[p] \in Indices(big) /\ d[b[at[p]]] = s[p] /\ big[at[p]] = small[p]
    BY <2>7
  <2>9. at \in [Indices(small) -> Indices(big)]
    BY <2>8
  <2> HIDE DEF at
  <2>10. ASSUME NEW p \in Indices(small), NEW r \in Indices(small), p < r PROVE at[p] < at[r]
    <3>1. s[p] < s[r] /\ s[p] \in Nat /\ s[r] \in Nat
      BY <1>5, <2>3, <2>5, <2>10 DEF Picks
    <3>2. /\ at[p] \in Indices(big) /\ at[r] \in Indices(big) /\ at[p] \in Int /\ at[r] \in Int
          /\ b[at[p]] \in Indices(v) /\ b[at[r]] \in Indices(v)
          /\ d[b[at[p]]] = s[p] /\ d[b[at[r]]] = s[r]
      BY <2>6, <2>8 DEF Indices
    <3>3. at[p] # at[r]
      BY <3>1, <3>2
    <3>4. ~ (at[r] < at[p])
      <4> SUFFICES ASSUME at[r] < at[p] PROVE FALSE
        OBVIOUS
      <4>1. b[at[r]] < b[at[p]]
        BY <2>4, <3>2 DEF Picks
      <4>2. s[r] < s[p]
        BY <1>4, <3>2, <4>1
      <4> QED BY <3>1, <4>2
    <3> QED BY <3>2, <3>3, <3>4
  <2>11. \A p \in Indices(small) : small[p].size <= big[at[p]].size
    <3> SUFFICES ASSUME NEW p \in Indices(small) PROVE small[p].size <= big[at[p]].size
      OBVIOUS
    <3>1. small[p] \in Message /\ big[at[p]] = small[p]
      BY <2>1, <2>8 DEF Indices
    <3>2. small[p].size \in Nat
      BY <3>1 DEF Message
    <3> QED BY <3>1, <3>2
  <2>12. Embeds(at, small, big)
    BY <2>9, <2>10, <2>11 DEF Embeds
  <2>13. Sum(small) <= Sum(big) /\ Sum(small) \in Nat /\ Sum(big) \in Nat
    BY <2>1, <2>12, EmbedSum
  <2>14. MaxSkillChars \in Nat
    BY ViewAssumption
  <2>15. Sum(small) <= MaxSkillChars
    BY <2>2, <2>13, <2>14
  <2> QED BY <2>15 DEF small
<1>17. ASSUME NEW i \in activated, i = Greatest(activated), messages[i].size <= MaxSkillChars
       PROVE  \E k \in Results(View) : View[k] = messages[i]
  <2>1. i \in Nat /\ \A j \in activated : j <= i
    <3>1. activated \in SUBSET (0 .. Len(messages))
      BY <1>5 DEF Instructions, Indices
    <3> HIDE DEF activated
    <3>2. \E m \in activated : \A j \in activated : j <= m
      BY <1>5, <1>17, <3>1, GreatestNumber
    <3>3. Greatest(activated) \in activated /\ \A j \in activated : j <= Greatest(activated)
      BY <3>2 DEF Greatest
    <3> QED BY <1>17, <3>1, <3>3
  <2>2. covered < i \/ i \in Active(old)
    <3> SUFFICES ASSUME ~ (covered < i) PROVE i \in Active(old)
      OBVIOUS
    <3>1. i <= covered
      BY <1>1, <2>1
    <3>2. i \in Activations(old) /\ old[i] = messages[i]
      BY <1>7, <3>1
    <3>3. GreatestIn(Activations(old), i)
      BY <1>7, <2>1, <3>2 DEF GreatestIn
    <3>4. old[i].size <= MaxSkillChars
      BY <1>17, <3>2
    <3> QED BY <1>7, <3>3, <3>4, LastActive
  <2>3. PICK q \in Activations(v) : q \in Indices(v) /\ d[q] = i /\ v[q] = messages[i]
    BY <1>11, <2>2
  <2>4. ASSUME NEW p \in Activations(v) PROVE p <= q
    <3>1. p \in Indices(v) /\ v[p].kind = "skill"
      BY DEF Activations, Instructions
    <3>2. d[p] \in activated
      BY <1>4, <3>1 DEF Instructions
    <3>3. d[p] <= i /\ d[p] \in Nat
      BY <1>9, <2>1, <3>2
    <3>4. q < p => d[q] < d[p]
      BY <1>4, <2>3, <3>1
    <3>5. p \in Nat /\ q \in Nat
      BY <1>5, <2>3, <3>1
    <3> QED BY <2>1, <2>3, <3>3, <3>4, <3>5
  <2>5. GreatestIn(Activations(v), q)
    BY <2>4 DEF GreatestIn
  <2>6. v[q].size <= MaxSkillChars
    BY <1>17, <2>3
  <2>7. q \in Active(v)
    BY <1>5, <2>5, <2>6, LastActive
  <2>8. q \in Instructions(v) \ Gone(v) /\ v[q].kind = "skill" /\ q # 0
    BY <1>5, <1>8, <2>3, <2>7 DEF Gone, Instructions
  <2>9. PICK k \in Indices(View) : src[k] = q
    BY <1>3, <2>8 DEF Views, v
  <2>10. Same(View[k], v[q])
    BY <1>3, <2>8, <2>9 DEF Views, Follows, v
  <2>11. View[k] = messages[i] /\ View[k].kind = "skill"
    BY <2>3, <2>8, <2>10 DEF Same
  <2> QED BY <2>9, <2>11 DEF Results, IsResult
<1> QED BY <1>15, <1>16, <1>17

\* Of each skill the last instruction is shown, all of them together within their limit,
\* and the last one never goes, however old its turn is and whatever is cut.
THEOREM SkillsAreShown == Spec => []SkillsShown
<1>1. ViewInv /\ MarkInv => SkillsShown
  BY ViewShowsSkills
<1>2. (~ repeating => ViewInv) /\ (~ repeating => MarkInv) => SkillsShown
  BY <1>1 DEF SkillsShown
<1> QED BY <1>2, RequestIsView, ResultsAreMarked, PTL

--------------------------------------------------------------------------------
(* Calls and results whatever ids the provider gives *)

\* Conversations are any sequences of messages here: neither ids nor the order in which
\* calls and results lie say anything, until prepare repairs them.
Preceded(ms) ==
  \A i \in Results(ms) : \E j \in Indices(ms) : j < i /\ ms[i].id \in CallIds(ms[j])

Linked(ms) == ms \in Seq(Message) /\ Preceded(ms) /\ Answers(ms)

LEMMA DroppedPreceded ==
  ASSUME NEW ms \in Seq(Message)
  PROVE  DropOrphanToolResults(ms) \in Seq(Message) /\ Preceded(DropOrphanToolResults(ms))
<1> DEFINE places == {i \in Indices(ms) : i \in Results(ms) => \E j \in Declares(ms, i) : j < i}
           new == At(ms, places)
<1>1. DropOrphanToolResults(ms) = new
  BY DEF DropOrphanToolResults
<1>2. new \in Seq(Message) /\ \E pos : Picks(pos, new, ms, places)
  BY AtPicks
<1> HIDE DEF new
<1>3. PICK pos : Picks(pos, new, ms, places)
  BY <1>2
<1>4. \A p \in Indices(new) : pos[p] \in places /\ pos[p] \in Indices(ms) /\ new[p] = ms[pos[p]]
  BY <1>3 DEF Picks
<1>5. \A i \in places : i \in Indices(ms) /\ \E p \in Indices(new) : pos[p] = i
  BY <1>3 DEF Picks
<1>6. \A p, q \in Indices(new) : p < q => pos[p] < pos[q]
  BY <1>3 DEF Picks
<1>7. \A p \in Indices(new) : p \in Int /\ pos[p] \in Int
  BY <1>2, <1>4 DEF Indices
<1>8. ASSUME NEW p \in Results(new)
      PROVE  \E q \in Indices(new) : q < p /\ new[p].id \in CallIds(new[q])
  <2>1. p \in Indices(new) /\ pos[p] \in places /\ pos[p] \in Results(ms) /\ new[p] = ms[pos[p]]
    BY <1>4 DEF Results
  <2>2. PICK j \in Declares(ms, pos[p]) : j < pos[p]
    BY <2>1
  <2>3. j \in Indices(ms) /\ ms[pos[p]].id \in CallIds(ms[j])
    BY <2>2 DEF Declares
  <2>4. ms[j] \in Message
    BY <2>3 DEF Indices
  <2>5. j \notin Results(ms)
    BY <2>3, <2>4, CallersAnswerNothing DEF Results
  <2>6. PICK q \in Indices(new) : pos[q] = j
    BY <1>5, <2>3, <2>5
  <2>7. q < p
    BY <1>6, <1>7, <2>1, <2>2, <2>6
  <2> QED BY <1>4, <2>1, <2>3, <2>6, <2>7
<1> QED BY <1>1, <1>2, <1>8 DEF Preceded

\* The first call with an id no result has is filled in.
Gap(ms, j, k) ==
  /\ \A i \in Results(ms) : ms[i].id # ms[j].calls[k][1]
  /\ ms[j].calls[k][1] \notin IdsBefore(ms, j, k)

FillsGap(ms, j, k) ==
  Gap(ms, j, k) => \E o \in Indices(BackfillBlock(ms, j)) :
                     o # 1 /\ BackfillBlock(ms, j)[o].id = ms[j].calls[k][1]

LEMMA BackfillBlockLinks ==
  ASSUME NEW ms \in Seq(Message), NEW j \in Indices(ms)
  PROVE  /\ BackfillBlock(ms, j) \in Seq(Message)
         /\ 1 \in Indices(BackfillBlock(ms, j)) /\ BackfillBlock(ms, j)[1] = ms[j]
         /\ \A o \in Indices(BackfillBlock(ms, j)) : o # 1 =>
              LET m == BackfillBlock(ms, j)[o]
              IN IsResult(m) /\ CallIds(m) = {} /\ m.id \in CallIds(ms[j])
         /\ \A k \in Indices(ms[j].calls) : FillsGap(ms, j, k)
<1> DEFINE calls == ms[j].calls
           kept == {k \in Indices(calls) \ CallsFor(ms, j, Results(ms)) :
                      calls[k][1] \notin IdsBefore(ms, j, k)}
           missing == Missing(ms, j)
           tail == [k \in 1 .. Len(missing) |-> Backfilled(missing[k])]
           block == BackfillBlock(ms, j)
<1>1. ms[j] \in Message
  BY DEF Indices
<1>2. calls \in Seq(Call)
  BY <1>1 DEF Message
<1>3. missing = At(calls, kept)
  BY DEF Missing
<1>4. \A k \in Indices(calls) : Gap(ms, j, k) => k \in kept
  BY DEF CallsFor, Gap
<1>5. CallIds(ms[j]) = {calls[k][1] : k \in Indices(calls)}
  BY DEF CallIds, Indices
<1>6. block = <<ms[j]>> \o tail
  BY DEF BackfillBlock
<1> HIDE DEF kept, missing, block, calls
<1>7. missing \in Seq(Call) /\ \E pos : Picks(pos, missing, calls, kept)
  BY <1>2, <1>3, AtPicks
<1>8. PICK pos : Picks(pos, missing, calls, kept)
  BY <1>7
<1>9. Len(missing) \in Nat /\ Indices(missing) = 1 .. Len(missing)
  BY <1>7 DEF Indices
<1>10. \A k \in Indices(missing) : pos[k] \in Indices(calls) /\ missing[k] = calls[pos[k]]
  BY <1>8 DEF Picks
<1>11. \A k \in 1 .. Len(missing) :
         /\ tail[k] \in Message /\ tail[k].kind = "backfilled" /\ tail[k].id = missing[k][1]
         /\ tail[k].calls = <<>>
  <2> SUFFICES ASSUME NEW k \in 1 .. Len(missing)
               PROVE  LET m == Backfilled(missing[k])
                      IN /\ m \in Message /\ m.kind = "backfilled" /\ m.id = missing[k][1]
                         /\ m.calls = <<>>
    OBVIOUS
  <2> DEFINE c == missing[k]
  <2>1. c \in Call
    BY <1>7
  <2> HIDE DEF c
  <2>2. c[1] \in Ids /\ c[2] \in DOMAIN Tools
    BY <2>1 DEF Call
  <2>3. Backfilled(c) = [kind |-> "backfilled", id |-> c[1], calls |-> <<>>, tool |-> c[2], size |-> 1]
    BY DEF Backfilled, Result
  <2>4. <<>> \in Seq(Call) /\ 1 \in Nat \ {0}
    OBVIOUS
  <2>5. ASSUME NEW x \in Ids, NEW y \in DOMAIN Tools
        PROVE  [kind |-> "backfilled", id |-> x, calls |-> <<>>, tool |-> y, size |-> 1] \in Message
    BY <2>4 DEF Message
  <2>6. Backfilled(c) \in Message /\ Backfilled(c).kind = "backfilled"
        /\ Backfilled(c).id = c[1] /\ Backfilled(c).calls = <<>>
    BY <2>2, <2>3, <2>5
  <2> QED BY <2>6 DEF c
<1>12. tail \in Seq(Message) /\ Len(tail) = Len(missing)
  BY <1>9, <1>11
<1> HIDE DEF tail
<1>13. /\ block \in Seq(Message) /\ Len(block) = Len(missing) + 1
       /\ block[1] = ms[j]
       /\ \A k \in 1 .. Len(missing) : block[k + 1] = tail[k]
  BY <1>1, <1>6, <1>12
<1>14. 1 \in Indices(block)
  BY <1>9, <1>13 DEF Indices
<1>15. ASSUME NEW o \in Indices(block), o # 1
       PROVE  /\ IsResult(block[o]) /\ CallIds(block[o]) = {}
              /\ block[o].id = calls[pos[o - 1]][1] /\ pos[o - 1] \in Indices(calls)
  <2>1. o - 1 \in 1 .. Len(missing) /\ (o - 1) + 1 = o
    BY <1>9, <1>13, <1>15 DEF Indices
  <2>2. block[o] = tail[o - 1]
    BY <1>13, <2>1
  <2>3. /\ block[o].kind = "backfilled" /\ block[o].calls = <<>>
        /\ block[o].id = missing[o - 1][1]
    BY <1>11, <2>1, <2>2
  <2>4. pos[o - 1] \in Indices(calls) /\ missing[o - 1] = calls[pos[o - 1]]
    BY <1>9, <1>10, <2>1
  <2> QED BY <2>3, <2>4 DEF CallIds, IsResult
<1>16. ASSUME NEW k \in Indices(calls), Gap(ms, j, k)
       PROVE  \E o \in Indices(block) : o # 1 /\ block[o].id = calls[k][1]
  <2>1. k \in kept
    BY <1>4, <1>16
  <2>2. PICK l \in Indices(missing) : pos[l] = k
    BY <1>8, <2>1 DEF Picks
  <2>3. l + 1 \in Indices(block) /\ l + 1 # 1 /\ (l + 1) - 1 = l
    BY <1>9, <1>13, <2>2 DEF Indices
  <2>4. block[l + 1].id = calls[pos[(l + 1) - 1]][1]
    BY <1>15, <2>3
  <2> QED BY <2>2, <2>3, <2>4
<1>17. \A k \in Indices(ms[j].calls) : FillsGap(ms, j, k)
  BY <1>16 DEF FillsGap, block, calls
<1> QED BY <1>5, <1>13, <1>14, <1>15, <1>17 DEF block, calls

LEMMA BackfillLinks ==
  ASSUME NEW ms \in Seq(Message), Preceded(ms)
  PROVE  Linked(BackfillMissingToolResults(ms))
<1> DEFINE blocks == [j \in Indices(ms) |-> BackfillBlock(ms, j)]
           new == FlattenSeq(blocks)
<1>1. BackfillMissingToolResults(ms) = new
  BY DEF BackfillMissingToolResults, BackfillBlock
<1>2. Len(ms) \in Nat /\ Indices(ms) = 1 .. Len(ms)
  BY DEF Indices
<1>3. \A j \in Indices(ms) : blocks[j] = BackfillBlock(ms, j) /\ blocks[j] \in Seq(Message)
  BY BackfillBlockLinks
<1>4. blocks = [j \in 1 .. Len(ms) |-> blocks[j]]
  BY DEF Indices
<1> HIDE DEF blocks
<1>5. blocks \in Seq(Seq(Message)) /\ Indices(blocks) = Indices(ms)
  <2>1. blocks \in [1 .. Len(ms) -> Seq(Message)]
    BY <1>2, <1>3, <1>4
  <2> QED BY <1>2, <2>1 DEF Indices
<1>6. new \in Seq(Message) /\ \E blk, off : Splits(blk, off, new, blocks)
  BY <1>5, FlattenSplits
<1> HIDE DEF new
<1>7. PICK blk, off : Splits(blk, off, new, blocks)
  BY <1>6
<1>8. \A p \in Indices(new) : /\ blk[p] \in Indices(ms) /\ off[p] \in Indices(BackfillBlock(ms, blk[p]))
                              /\ new[p] = BackfillBlock(ms, blk[p])[off[p]]
  BY <1>3, <1>5, <1>7 DEF Splits
<1>9. \A j \in Indices(ms) : \A o \in Indices(BackfillBlock(ms, j)) :
        \E p \in Indices(new) : blk[p] = j /\ off[p] = o
  <2>1. \A j \in Indices(blocks) : \A o \in Indices(blocks[j]) :
          \E p \in Indices(new) : blk[p] = j /\ off[p] = o
    BY <1>7 DEF Splits
  <2> QED BY <1>3, <1>5, <2>1
<1>10. /\ Len(new) \in Nat
       /\ \A p \in Indices(new) : p \in Int /\ blk[p] \in Int /\ off[p] \in Int
  BY <1>2, <1>6, <1>7, <1>8 DEF Indices, Splits
<1>11. \A p, q \in Indices(new) : p < q => blk[p] < blk[q] \/ (blk[p] = blk[q] /\ off[p] < off[q])
  BY <1>7 DEF Splits
<1>12. ASSUME NEW p \in Indices(new)
       PROVE  /\ off[p] = 1 => new[p] = ms[blk[p]]
              /\ off[p] # 1 => /\ IsResult(new[p]) /\ CallIds(new[p]) = {}
                               /\ new[p].id \in CallIds(ms[blk[p]])
  <2>a. PICK j \in Indices(ms) : blk[p] = j
    BY <1>8
  <2>1. PICK o \in Indices(BackfillBlock(ms, j)) :
          off[p] = o /\ new[p] = BackfillBlock(ms, j)[o]
    BY <1>8, <2>a
  <2> DEFINE m == BackfillBlock(ms, j)[o]
  <2>2. BackfillBlock(ms, j)[1] = ms[j]
    BY BackfillBlockLinks
  <2>3. o # 1 => IsResult(m) /\ CallIds(m) = {} /\ m.id \in CallIds(ms[j])
    BY BackfillBlockLinks
  <2> QED BY <2>a, <2>1, <2>2, <2>3
<1>13. \A j \in Indices(ms) : \E p \in Indices(new) : blk[p] = j /\ off[p] = 1 /\ new[p] = ms[j]
  BY <1>8, <1>9, <1>12, BackfillBlockLinks
<1>14. \A p \in Indices(new) : off[p] >= 1
  <2> SUFFICES ASSUME NEW p \in Indices(new) PROVE off[p] >= 1
    OBVIOUS
  <2>1. off[p] \in 1 .. Len(BackfillBlock(ms, blk[p]))
    BY <1>8 DEF Indices
  <2>2. Len(BackfillBlock(ms, blk[p])) \in Nat
    BY <1>8, BackfillBlockLinks
  <2> QED BY <2>1, <2>2
<1>15. ASSUME NEW p \in Results(new)
       PROVE  \E q \in Indices(new) : q < p /\ new[p].id \in CallIds(new[q])
  <2>1. p \in Indices(new) /\ IsResult(new[p]) /\ blk[p] \in Indices(ms)
    BY <1>8 DEF Results
  <2>2. CASE off[p] = 1
    <3>1. blk[p] \in Results(ms) /\ new[p] = ms[blk[p]]
      BY <1>12, <2>1, <2>2 DEF Results
    <3>2. PICK j \in Indices(ms) : j < blk[p] /\ ms[blk[p]].id \in CallIds(ms[j])
      BY <3>1 DEF Preceded
    <3>3. PICK q \in Indices(new) : blk[q] = j /\ off[q] = 1 /\ new[q] = ms[j]
      BY <1>13, <3>2
    <3>4. q < p
      BY <1>10, <1>11, <2>1, <3>2, <3>3
    <3> QED BY <3>1, <3>2, <3>3, <3>4
  <2>3. CASE off[p] # 1
    <3>1. PICK q \in Indices(new) : blk[q] = blk[p] /\ off[q] = 1 /\ new[q] = ms[blk[p]]
      BY <1>13, <2>1
    <3>2. off[q] < off[p]
      BY <1>10, <1>14, <2>1, <2>3, <3>1
    <3>3. q < p
      BY <1>10, <1>11, <2>1, <3>1, <3>2
    <3> QED BY <1>12, <2>1, <2>3, <3>1, <3>3
  <2> QED BY <2>2, <2>3
<1>16. ASSUME NEW q \in Indices(new), NEW id \in CallIds(new[q])
       PROVE  \E p \in Results(new) : new[p].id = id
  <2>1. blk[q] \in Indices(ms) /\ off[q] = 1 /\ id \in CallIds(ms[blk[q]])
    BY <1>8, <1>12, <1>16
  <2>2. CASE \E i \in Results(ms) : ms[i].id = id
    <3>1. PICK i \in Results(ms) : ms[i].id = id
      BY <2>2
    <3>2. i \in Indices(ms) /\ IsResult(ms[i])
      BY DEF Results
    <3>3. PICK p \in Indices(new) : new[p] = ms[i]
      BY <1>13, <3>2
    <3> QED BY <3>1, <3>2, <3>3 DEF Results
  <2>3. CASE \A i \in Results(ms) : ms[i].id # id
    <3>1. PICK j \in Indices(ms) : /\ id \in CallIds(ms[j])
                                   /\ \A i \in Indices(ms) : id \in CallIds(ms[i]) => j <= i
      <4> DEFINE declaring == {i \in Indices(ms) : id \in CallIds(ms[i])}
      <4>1. declaring \in SUBSET Nat /\ blk[q] \in declaring
        BY <1>2, <2>1
      <4> HIDE DEF declaring
      <4>2. PICK j \in declaring : \A i \in declaring : j <= i
        BY <4>1, LeastNumber
      <4> QED BY <4>2 DEF declaring
    <3> DEFINE calls == ms[j].calls
    <3>2. calls \in Seq(Call) /\ Len(calls) \in Nat
      <4>1. \A m \in Message : m.calls \in Seq(Call)
        BY DEF Message
      <4>2. ms[j] \in Message
        BY <1>2
      <4>3. calls \in Seq(Call)
        BY <4>1, <4>2
      <4> QED BY <4>3
    <3>3. CallIds(ms[j]) = {calls[k][1] : k \in 1 .. Len(calls)}
      BY DEF CallIds
    <3> HIDE DEF calls
    <3>4. PICK k \in 1 .. Len(calls) : /\ calls[k][1] = id
                                       /\ \A l \in 1 .. Len(calls) : calls[l][1] = id => k <= l
      <4> DEFINE asking == {l \in 1 .. Len(calls) : calls[l][1] = id}
      <4>1. asking \in SUBSET Nat /\ asking # {}
        BY <3>1, <3>2, <3>3
      <4> HIDE DEF asking
      <4>2. PICK k \in asking : \A l \in asking : k <= l
        BY <4>1, LeastNumber
      <4> QED BY <4>2 DEF asking
    <3>5. id \notin IdsBefore(ms, j, k)
      <4>1. ASSUME NEW i \in 1 .. j - 1 PROVE id \notin CallIds(ms[i])
        BY <1>2, <3>1
      <4>2. ASSUME NEW l \in 1 .. k - 1 PROVE calls[l][1] # id
        BY <3>2, <3>4
      <4> QED BY <4>1, <4>2 DEF IdsBefore, calls
    <3>6. k \in Indices(ms[j].calls) /\ ms[j].calls[k][1] = id
      BY <3>4 DEF Indices, calls
    <3>7. PICK o \in Indices(BackfillBlock(ms, j)) : o # 1 /\ BackfillBlock(ms, j)[o].id = id
      <4>1. k \in Indices(ms[j].calls) /\ Gap(ms, j, k)
        BY <2>3, <3>5, <3>6 DEF Gap
      <4>2. FillsGap(ms, j, k)
        BY <4>1, BackfillBlockLinks
      <4> QED BY <3>6, <4>1, <4>2 DEF FillsGap
    <3>8. PICK p \in Indices(new) : blk[p] = j /\ off[p] = o
      BY <1>9, <3>7
    <3>9. new[p].id = id /\ IsResult(new[p])
      BY <1>8, <1>12, <3>7, <3>8
    <3> QED BY <3>9 DEF Results
  <2> QED BY <2>2, <2>3
<1> QED BY <1>1, <1>6, <1>15, <1>16 DEF Linked, Preceded, Answers

LEMMA RepairedLinks ==
  ASSUME NEW ms \in Seq(Message)
  PROVE  Linked(Repaired(ms))
<1> DEFINE new == DropOrphanToolResults(ms)
<1>1. new \in Seq(Message) /\ Preceded(new)
  BY DroppedPreceded
<1>2. Repaired(ms) = BackfillMissingToolResults(new)
  BY DEF Repaired
<1> HIDE DEF new
<1> QED BY <1>1, <1>2, BackfillLinks

LEMMA ResizeLinks ==
  ASSUME NEW ms, NEW new, Linked(ms), Resizes(new, ms)
  PROVE  Linked(new)
<1>1. Indices(new) = Indices(ms) /\ new \in Seq(Message)
  BY DEF Resizes, Indices
<1>2. \A i \in Indices(ms) : /\ CallIds(new[i]) = CallIds(ms[i]) /\ new[i].id = ms[i].id
                             /\ IsResult(new[i]) <=> IsResult(ms[i])
  BY DEF Resizes, CallIds, IsResult
<1>3. Results(new) = Results(ms)
  BY <1>1, <1>2 DEF Results
<1>4. Results(ms) \subseteq Indices(ms)
  BY DEF Results
<1> QED BY <1>1, <1>2, <1>3, <1>4 DEF Linked, Preceded, Answers

LEMMA QuietLinks ==
  ASSUME NEW ms, Linked(ms)
  PROVE  Linked(DropRuntimeStatuses(ms))
<1> DEFINE places == {i \in Indices(ms) : ms[i].kind # "status"}
           new == At(ms, places)
<1>1. DropRuntimeStatuses(ms) = new
  BY DEF DropRuntimeStatuses
<1>2. ms \in Seq(Message) /\ Preceded(ms) /\ Answers(ms)
  BY DEF Linked
<1>3. new \in Seq(Message) /\ \E pos : Picks(pos, new, ms, places)
  BY <1>2, AtPicks
<1> HIDE DEF new
<1>4. PICK pos : Picks(pos, new, ms, places)
  BY <1>3
<1>5. \A p \in Indices(new) : pos[p] \in Indices(ms) /\ new[p] = ms[pos[p]]
  BY <1>4 DEF Picks
<1>6. \A i \in Indices(ms) : ms[i].kind # "status" => \E p \in Indices(new) : pos[p] = i
  BY <1>4 DEF Picks
<1>7. \A p, q \in Indices(new) : p < q => pos[p] < pos[q]
  BY <1>4 DEF Picks
<1>8. \A p \in Indices(new) : p \in Int /\ pos[p] \in Int
  BY <1>2, <1>3, <1>5 DEF Indices
<1>9. \A i \in Results(ms) : i \in Indices(ms) /\ IsResult(ms[i]) /\ ms[i].kind # "status"
  BY DEF Results, IsResult
<1>10. \A j \in Indices(ms) : \A id \in CallIds(ms[j]) : ms[j].kind # "status"
  BY <1>2, CallersAnswerNothing DEF Indices
<1>11. ASSUME NEW p \in Results(new)
       PROVE  \E q \in Indices(new) : q < p /\ new[p].id \in CallIds(new[q])
  <2>1. p \in Indices(new) /\ pos[p] \in Results(ms) /\ new[p] = ms[pos[p]]
    BY <1>5 DEF Results
  <2>2. PICK j \in Indices(ms) : j < pos[p] /\ ms[pos[p]].id \in CallIds(ms[j])
    BY <1>2, <2>1 DEF Preceded
  <2>3. PICK q \in Indices(new) : pos[q] = j
    BY <1>6, <1>10, <2>2
  <2>4. q < p
    BY <1>7, <1>8, <2>1, <2>2, <2>3
  <2> QED BY <1>5, <2>1, <2>2, <2>3, <2>4
<1>12. ASSUME NEW p \in Indices(new), NEW id \in CallIds(new[p])
       PROVE  \E q \in Results(new) : new[q].id = id
  <2>1. pos[p] \in Indices(ms) /\ id \in CallIds(ms[pos[p]])
    BY <1>5
  <2>2. PICK i \in Results(ms) : ms[i].id = id
    BY <1>2, <2>1 DEF Answers
  <2>3. PICK q \in Indices(new) : pos[q] = i
    BY <1>6, <1>9
  <2>4. new[q] = ms[i] /\ IsResult(new[q])
    BY <1>5, <1>9, <2>3
  <2> QED BY <2>2, <2>3, <2>4 DEF Results
<1> QED BY <1>1, <1>3, <1>11, <1>12 DEF Linked, Preceded, Answers

\* What deduplication and the selection of skills make of messages are messages.
LEMMA DeduplicatedMessages ==
  ASSUME NEW ms \in Seq(Message)
  PROVE  Deduplicated(ms) \in Seq(Message)
<1> DEFINE gone == Activations(ms) \ Active(ms)
           pruned == [j \in Indices(ms) |->
                        WithCalls(ms[j], Indices(ms[j].calls) \ CallsFor(ms, j, gone))]
           places == {j \in Indices(ms) \ gone : ms[j].calls = <<>> \/ pruned[j].calls # <<>>}
<1>1. Deduplicated(ms) = At(pruned, places)
  BY DEF Deduplicated
<1> HIDE DEF gone
<1>2. Len(ms) \in Nat /\ Indices(ms) = 1 .. Len(ms) /\ \A j \in Indices(ms) : ms[j] \in Message
  BY DEF Indices
<1>3. \A j \in Indices(ms) :
        pruned[j] = WithCalls(ms[j], Indices(ms[j].calls) \ CallsFor(ms, j, gone))
  OBVIOUS
<1>4. pruned = [j \in 1 .. Len(ms) |-> pruned[j]]
  BY DEF Indices
<1> HIDE DEF pruned, places
<1>5. ASSUME NEW j \in Indices(ms) PROVE pruned[j] \in Message
  <2> DEFINE kept == Indices(ms[j].calls) \ CallsFor(ms, j, gone)
             m == ms[j]
  <2>1. pruned[j] = WithCalls(m, kept) /\ m \in Message
    BY <1>2, <1>3
  <2> HIDE DEF kept, m
  <2> QED BY <2>1, KeptCalls
<1>6. pruned \in Seq(Message)
  <2>1. pruned \in [1 .. Len(ms) -> Message]
    BY <1>2, <1>4, <1>5
  <2> QED BY <1>2, <2>1
<1>7. At(pruned, places) \in Seq(Message)
  BY <1>6, AtPicks
<1> QED BY <1>1, <1>7

LEMMA ActiveSkillMessagesAre ==
  ASSUME NEW ms \in Seq(Message)
  PROVE  ActiveSkillMessages(ms) \in Seq(Message)
<1> DEFINE blocks == [j \in Indices(ms) |->
                        IF Activated(ms, j) # {} THEN SkillBlock(ms, j) ELSE <<>>]
<1>1. ActiveSkillMessages(ms) = FlattenSeq(blocks)
  BY DEF ActiveSkillMessages, SkillBlock, Activated, Caller
<1>2. Len(ms) \in Nat /\ Indices(ms) = 1 .. Len(ms) /\ \A j \in Indices(ms) : ms[j] \in Message
  BY DEF Indices
<1>3. ASSUME NEW j \in Indices(ms) PROVE blocks[j] \in Seq(Message)
  <2> DEFINE m == ms[j]
             kept == CallsFor(ms, j, Activated(ms, j))
             head == WithCalls(m, kept)
             tail == At(ms, Activated(ms, j))
  <2>1. SkillBlock(ms, j) = <<head>> \o tail
    BY DEF SkillBlock
  <2>2. tail \in Seq(Message)
    BY AtPicks
  <2>3. m \in Message
    BY <1>2
  <2> HIDE DEF m, kept, tail
  <2>4. head \in Message
    BY <2>3, KeptCalls
  <2> HIDE DEF head
  <2>5. <<head>> \o tail \in Seq(Message)
    BY <2>2, <2>4
  <2>6. blocks[j] = SkillBlock(ms, j) \/ blocks[j] = <<>>
    OBVIOUS
  <2>7. <<>> \in Seq(Message)
    OBVIOUS
  <2> HIDE DEF blocks
  <2>8. SkillBlock(ms, j) \in Seq(Message)
    BY <2>1, <2>5
  <2> QED BY <2>6, <2>7, <2>8
<1>4. blocks = [j \in 1 .. Len(ms) |-> blocks[j]]
  BY DEF Indices
<1> HIDE DEF blocks
<1>5. blocks \in Seq(Seq(Message))
  <2>1. blocks \in [1 .. Len(ms) -> Seq(Message)]
    BY <1>2, <1>3, <1>4
  <2> QED BY <1>2, <2>1
<1>6. FlattenSeq(blocks) \in Seq(Message)
  BY <1>5, FlattenSplits
<1> QED BY <1>1, <1>6

LEMMA ShownMessages ==
  ASSUME NEW ms \in Seq(Message), NEW n \in 0 .. Len(ms)
  PROVE  Shown(ms, n) \in Seq(Message)
<1> DEFINE old == SubSeq(ms, 1, n)
           rest == SubSeq(ms, n + 1, Len(ms))
<1>1. old \in Seq(Message) /\ rest \in Seq(Message)
  BY Parts
<1>2. Shown(ms, n) = ActiveSkillMessages(old) \o rest
  BY DEF Shown
<1> HIDE DEF old, rest
<1>3. ActiveSkillMessages(old) \in Seq(Message)
  BY <1>1, ActiveSkillMessagesAre
<1> QED BY <1>1, <1>2, <1>3

\* Every stage leaves calls and results linked by their ids, and so does the snip, which
\* repairs whatever candidate it settles for.
LEMMA SnipLinks ==
  ASSUME NEW ms \in Seq(Message), NEW current
  PROVE  LET r == EmergencySnip(ms, current) IN r.sent => Linked(r.view)
<1> DEFINE r == EmergencySnip(ms, current)
<1>2. CASE r = Exceeded
  BY <1>2 DEF Exceeded
<1>3. CASE \E k \in 1 .. Len(Started(ms, current)) :
             r = Sent(Repaired(Candidate(ms, Anchors(ms, current), Started(ms, current)[k])))
  <2> DEFINE Candidacy(k) == Candidate(ms, Anchors(ms, current), Started(ms, current)[k])
  <2>1. PICK k \in 1 .. Len(Started(ms, current)) : r = Sent(Repaired(Candidacy(k)))
    BY <1>3
  <2>2. Candidacy(k) \in Seq(Message)
    BY AtPicks DEF Candidate
  <2> HIDE DEF r, Candidacy
  <2>3. Linked(Repaired(Candidacy(k)))
    BY <2>2, RepairedLinks
  <2>4. r.view = Repaired(Candidacy(k))
    BY <2>1 DEF Sent
  <2> QED BY <2>3, <2>4 DEF r
<1> QED BY <1>2, <1>3, SnipIs

LEMMA PreparedLinks ==
  ASSUME NEW ms \in Seq(Message), NEW user
  PROVE  Prepare(ms, user).sent => Linked(Prepare(ms, user).view)
<1> DEFINE deduplicated == Deduplicated(ms)
           repaired == Repaired(deduplicated)
           normal == TruncateToolResults(repaired)
           quiet == DropRuntimeStatuses(normal)
           compact == Microcompact(quiet, PositionOf(quiet, user))
           snip == EmergencySnip(compact, PositionOf(compact, user))
           r == Prepare(ms, user)
<1>1. r = IF Fits(normal) THEN Sent(normal)
          ELSE IF Fits(quiet) THEN Sent(quiet)
          ELSE IF Fits(compact) THEN Sent(compact) ELSE snip
  BY DEF Prepare, Normal
<1>2. deduplicated \in Seq(Message)
  BY DeduplicatedMessages
<1> HIDE DEF deduplicated
<1>3. Linked(repaired)
  BY <1>2, RepairedLinks
<1> HIDE DEF repaired
<1>4. Linked(normal)
  <2>1. Resizes(normal, repaired)
    BY <1>3, Truncated DEF Linked
  <2> QED BY <1>3, <2>1, ResizeLinks
<1> HIDE DEF normal
<1>5. Linked(quiet)
  BY <1>4, QuietLinks
<1> HIDE DEF quiet
<1>6. Linked(compact)
  <2>1. Resizes(compact, quiet)
    BY <1>5, Microcompacted DEF Linked
  <2> QED BY <1>5, <2>1, ResizeLinks
<1> HIDE DEF compact
<1>7. snip.sent => Linked(snip.view)
  BY <1>6, SnipLinks DEF Linked
<1> HIDE DEF snip, r
<1>8. r = Sent(normal) \/ r = Sent(quiet) \/ r = Sent(compact) \/ r = snip
  BY <1>1
<1>9. \A v : Sent(v).view = v
  BY DEF Sent
<1>10. r.sent => Linked(r.view)
  BY <1>4, <1>5, <1>6, <1>7, <1>8, <1>9
<1> QED BY <1>10 DEF r

\* The invariant, for whatever ids: messages are messages, and a view that is sent is
\* linked.
LinkInv ==
  /\ messages \in Seq(Message)
  /\ awaited \in Seq(Call)
  /\ turn \in 0 .. Len(messages) /\ covered \in 0 .. Len(messages)
  /\ turn # 0 => covered < turn
  /\ request.made => turn # 0
  /\ request.sent => request.made /\ Linked(request.view)

LEMMA NothingSent == ~ NotMade.made /\ ~ NotMade.sent
BY DEF NotMade

\* A step that only writes behind the conversation.
LEMMA WritesKeepLinks ==
  ASSUME LinkInv, messages' \in Seq(Message), Len(messages) <= Len(messages'),
         covered' = covered, turn' \in {0, turn}, awaited' \in Seq(Call),
         request' = NotMade \/ (request' = request /\ turn' = turn)
  PROVE  LinkInv'
<1>1. Len(messages) \in Nat /\ Len(messages') \in Nat
  BY DEF LinkInv
<1>2. turn' \in 0 .. Len(messages') /\ covered' \in 0 .. Len(messages')
  BY <1>1 DEF LinkInv
<1>3. turn' # 0 => covered' < turn'
  BY DEF LinkInv
<1>4. /\ request'.made => turn' # 0
      /\ request'.sent => request'.made /\ Linked(request'.view)
  BY NothingSent DEF LinkInv
<1> QED BY <1>2, <1>3, <1>4 DEF LinkInv, Linked, Preceded, Answers

LEMMA InputsTyped ==
  ASSUME NEW ms \in Seq(Message), NEW n \in Nat
  PROVE  WithInputs(ms, n) \in Seq(Message) /\ Len(ms) <= Len(WithInputs(ms, n))
<1> DEFINE more == [k \in 1 .. n |-> User(Len(ms) + k)]
<1>1. \A k \in 1 .. n : more[k] \in Message
  <2> SUFFICES ASSUME NEW k \in 1 .. n PROVE User(Len(ms) + k) \in Message
    OBVIOUS
  <2> DEFINE m == Len(ms) + k
  <2>1. <<>> \in Seq(Call) /\ m \in Nat
    OBVIOUS
  <2> HIDE DEF m
  <2>2. User(m) \in Message
    BY <2>1, Written
  <2> QED BY <2>2 DEF m
<1>2. more \in Seq(Message)
  <2>1. more = [k \in 1 .. n |-> more[k]]
    OBVIOUS
  <2> HIDE DEF more
  <2>2. more \in [1 .. n -> Message]
    BY <1>1, <2>1
  <2> QED BY <2>1, <2>2
<1>3. WithInputs(ms, n) = ms \o more
  BY DEF WithInputs
<1> HIDE DEF more
<1> QED BY <1>2, <1>3

LEMMA AskedTyped ==
  ASSUME messages \in Seq(Message)
  PROVE  Asked \in Seq(Message) /\ Len(messages) <= Len(Asked)
<1> DEFINE m == Len(messages) + 1
<1>1. <<>> \in Seq(Call) /\ m \in Nat
  OBVIOUS
<1>2. Asked = Append(messages, Status(m)) \/ Asked = messages
  BY DEF Asked, NextId
<1> HIDE DEF m
<1>3. Status(m) \in Message
  BY <1>1, Written
<1> QED BY <1>2, <1>3

LEMMA AnsweredTyped ==
  ASSUME messages \in Seq(Message), NEW calls \in Seq(Call)
  PROVE  Answered(calls) \in Seq(Message) /\ Len(messages) <= Len(Answered(calls))
<1> DEFINE m == Len(Asked) + 1
<1>1. Asked \in Seq(Message) /\ Len(messages) <= Len(Asked)
  BY AskedTyped
<1>2. m \in Nat
  BY <1>1
<1>3. Answered(calls) = Append(Asked, Assistant(m, calls))
  BY DEF Answered
<1> HIDE DEF m
<1>4. Assistant(m, calls) \in Message
  BY <1>2, Written
<1> QED BY <1>1, <1>3, <1>4

LEMMA CallsTyped ==
  ASSUME NEW tools \in Batches, NEW ids \in [1 .. Len(tools) -> Ids]
  PROVE  [k \in 1 .. Len(tools) |-> <<ids[k], tools[k]>>] \in Seq(Call)
<1> DEFINE n == Len(tools)
           calls == [k \in 1 .. n |-> <<ids[k], tools[k]>>]
<1>1. tools \in Seq(DOMAIN Tools) /\ n \in Nat
  BY ViewAssumption
<1>2. \A k \in 1 .. n : <<ids[k], tools[k]>> \in Call
  BY <1>1 DEF Call
<1> HIDE DEF n
<1>3. calls \in [1 .. n -> Call]
  BY <1>2
<1> HIDE DEF calls
<1>4. calls \in Seq(Call)
  BY <1>1, <1>3
<1> QED BY <1>4 DEF calls, n

LEMMA ReceivedTyped ==
  ASSUME messages \in Seq(Message), awaited \in Seq(Call), ReceiveResults
  PROVE  messages' \in Seq(Message) /\ Len(messages) <= Len(messages')
<1> DEFINE b == Len(awaited)
<1>1. b \in Nat /\ DOMAIN awaited = 1 .. b /\ \A k \in 1 .. b : awaited[k] \in Call
  OBVIOUS
<1>2. PICK order \in Completions(awaited) :
        \E outcome \in [DOMAIN awaited -> UNION {Outcomes(call) : call \in ToSet(awaited)}] :
          /\ \A k \in DOMAIN awaited :
               outcome[k] \in Outcomes([h \in DOMAIN awaited |-> awaited[order[h]]][k])
          /\ messages' = messages \o outcome
  BY DEF ReceiveResults
<1>3. PICK outcome \in [DOMAIN awaited -> UNION {Outcomes(call) : call \in ToSet(awaited)}] :
        /\ \A k \in DOMAIN awaited : outcome[k] \in Outcomes(awaited[order[k]])
        /\ messages' = messages \o outcome
  BY <1>2
<1>4. order \in [1 .. b -> 1 .. b]
  BY DEF Completions, Indices
<1> HIDE DEF b
<1>5. \A k \in 1 .. b : outcome[k] \in Outcomes(awaited[order[k]]) /\ awaited[order[k]] \in Call
  BY <1>1, <1>3, <1>4
<1>6. \A k \in 1 .. b : outcome[k] \in Message
  BY <1>5, OutcomeIs
<1>7. outcome \in Seq(Message)
  <2>1. outcome = [k \in 1 .. b |-> outcome[k]]
    BY <1>1, <1>3
  <2>2. outcome \in [1 .. b -> Message]
    BY <1>6, <2>1
  <2> QED BY <1>1, <2>1, <2>2
<1> QED BY <1>3, <1>7

\* A view that is sent was made.
LEMMA PreparedSent ==
  ASSUME NEW ms \in Seq(Message), NEW user
  PROVE  Prepare(ms, user).sent => Prepare(ms, user).made
<1> DEFINE normal == Normal(ms)
           quiet == DropRuntimeStatuses(normal)
           compact == Microcompact(quiet, PositionOf(quiet, user))
           snip == EmergencySnip(compact, PositionOf(compact, user))
           r == Prepare(ms, user)
<1>1. \A v : Sent(v).made
  BY DEF Sent
<1>2. Exceeded.made
  BY DEF Exceeded
<1>3. snip.made
  <2>1. snip = Exceeded \/ \E v : snip = Sent(v)
    BY DEF EmergencySnip
  <2> QED BY <1>1, <1>2, <2>1
<1>4. r = Sent(normal) \/ r = Sent(quiet) \/ r = Sent(compact) \/ r = snip
  BY DEF Prepare
<1> QED BY <1>1, <1>3, <1>4

LEMMA NextKeepsLinks ==
  ASSUME LinkInv, [Next]_vars
  PROVE  LinkInv'
<1>1. /\ messages \in Seq(Message) /\ awaited \in Seq(Call) /\ Len(messages) \in Nat
      /\ turn \in 0 .. Len(messages) /\ covered \in 0 .. Len(messages)
      /\ turn # 0 => covered < turn
      /\ request.sent => request.made
  BY DEF LinkInv
<1>2. <<>> \in Seq(Call)
  OBVIOUS
<1>3. CASE BeginTurn
  <2> DEFINE n == Len(messages)
  <2>1. /\ messages' = Append(messages, User(n + 1)) /\ turn' = n + 1
        /\ awaited' = awaited /\ request' = request
        /\ covered' \in {covered} \cup {i - 1 : i \in {j \in Users(messages) : j > covered}}
    BY <1>3 DEF BeginTurn, NextId
  <2>2. n \in Nat /\ n + 1 \in Nat /\ covered \in 0 .. n
    BY <1>1
  <2>3. covered' \in 0 .. n
    BY <2>1, <2>2 DEF Users, Indices
  <2> HIDE DEF n
  <2>4. User(n + 1) \in Message
    BY <1>2, <2>2, Written
  <2>5. messages' \in Seq(Message) /\ Len(messages') = n + 1
    BY <1>1, <2>1, <2>4 DEF n
  <2>6. /\ turn' \in 0 .. Len(messages') /\ covered' \in 0 .. Len(messages')
        /\ covered' < turn' /\ turn' # 0
    BY <2>1, <2>2, <2>3, <2>5
  <2> QED BY <1>1, <2>1, <2>5, <2>6 DEF LinkInv, Linked, Preceded, Answers
<1>4. CASE Request
  <2>1. /\ turn # 0 /\ request' = Prepare(Visible, messages[turn])
        /\ messages' = messages /\ covered' = covered /\ turn' = turn /\ awaited' = awaited
    BY <1>4 DEF Request, Requesting
  <2>2. Visible \in Seq(Message)
    BY <1>1, ShownMessages DEF Shown, Visible
  <2> DEFINE r == Prepare(Visible, messages[turn])
  <2>3. r.sent => Linked(r.view)
    BY <2>2, PreparedLinks
  <2>4. r.sent => r.made
    BY <2>2, PreparedSent
  <2> HIDE DEF r
  <2>5. request' = r
    BY <2>1 DEF r
  <2>6. request'.sent => request'.made /\ Linked(request'.view)
    BY <2>3, <2>4, <2>5
  <2>7. Linked(request'.view) => Linked(request.view)'
    BY DEF Linked, Preceded, Answers
  <2> QED BY <1>1, <2>1, <2>6, <2>7 DEF LinkInv
<1>5. CASE Answer
  <2>1. PICK n \in Injections : messages' = WithInputs(Answered(<<>>), n)
    BY <1>5 DEF Answer
  <2>2. /\ request' = NotMade /\ covered' = covered /\ awaited' = awaited /\ turn' \in {0, turn}
    BY <1>5 DEF Answer
  <2>3. n \in Nat
    BY DEF Injections
  <2>4. Answered(<<>>) \in Seq(Message) /\ Len(messages) <= Len(Answered(<<>>))
    BY <1>1, <1>2, AnsweredTyped
  <2>5. /\ messages' \in Seq(Message) /\ Len(Answered(<<>>)) <= Len(messages')
    BY <2>1, <2>3, <2>4, InputsTyped
  <2>6. Len(messages) <= Len(messages')
    BY <1>1, <2>4, <2>5
  <2> QED BY <1>1, <2>2, <2>5, <2>6, WritesKeepLinks
<1>6. CASE \E tools \in Batches : \E ids \in [1 .. Len(tools) -> Ids] : AskTools(tools, ids)
  <2>1. PICK tools \in Batches : \E ids \in [1 .. Len(tools) -> Ids] : AskTools(tools, ids)
    BY <1>6
  <2>2. PICK ids \in [1 .. Len(tools) -> Ids] : AskTools(tools, ids)
    BY <2>1
  <2> DEFINE calls == [k \in 1 .. Len(tools) |-> <<ids[k], tools[k]>>]
  <2>3. /\ messages' = Answered(calls) /\ awaited' = calls
        /\ request' = NotMade /\ covered' = covered /\ turn' = turn
    BY <2>2 DEF AskTools
  <2>4. calls \in Seq(Call)
    BY CallsTyped
  <2> HIDE DEF calls
  <2>5. messages' \in Seq(Message) /\ Len(messages) <= Len(messages')
    BY <1>1, <2>3, <2>4, AnsweredTyped
  <2> QED BY <2>3, <2>4, <2>5, WritesKeepLinks
<1>7. CASE ReceiveResults
  <2>1. /\ awaited' = <<>> /\ covered' = covered /\ turn' = turn /\ request' = request
    BY <1>7 DEF ReceiveResults
  <2>2. messages' \in Seq(Message) /\ Len(messages) <= Len(messages')
    BY <1>1, <1>7, ReceivedTyped
  <2> QED BY <1>2, <2>1, <2>2, WritesKeepLinks
<1>8. CASE AddInputs
  <2>1. PICK n \in Injections : messages' = WithInputs(messages, n)
    BY <1>8 DEF AddInputs
  <2>2. /\ request' = request /\ covered' = covered /\ awaited' = awaited /\ turn' = turn
    BY <1>8 DEF AddInputs
  <2>3. n \in Nat
    BY DEF Injections
  <2>4. messages' \in Seq(Message) /\ Len(messages) <= Len(messages')
    BY <1>1, <2>1, <2>3, InputsTyped
  <2> QED BY <1>1, <2>2, <2>4, WritesKeepLinks
<1>9. CASE Restart
  <2> DEFINE kept == IF request.sent THEN Asked ELSE messages
  <2>1. PICK n \in Injections : messages' = WithInputs(kept, n)
    BY <1>9 DEF Restart
  <2>2. /\ request' = NotMade /\ covered' = covered /\ awaited' = <<>> /\ turn' = turn
    BY <1>9 DEF Restart
  <2>3. n \in Nat
    BY DEF Injections
  <2>4. kept \in Seq(Message) /\ Len(messages) <= Len(kept)
    BY <1>1, AskedTyped
  <2> HIDE DEF kept
  <2>5. messages' \in Seq(Message) /\ Len(kept) <= Len(messages')
    BY <2>1, <2>3, <2>4, InputsTyped
  <2>6. Len(messages) <= Len(messages')
    BY <1>1, <2>4, <2>5
  <2> QED BY <1>2, <2>2, <2>5, <2>6, WritesKeepLinks
<1>10. CASE ReachLimit
  <2> DEFINE m == Assistant(NextId, <<>>)
  <2>1. /\ messages' = Append(messages, m) /\ turn' = 0 /\ ~ request.made
        /\ request' = request /\ covered' = covered /\ awaited' = awaited
    BY <1>10 DEF ReachLimit, Requesting
  <2>2. NextId \in Nat
    BY <1>1 DEF NextId
  <2>3. m \in Message
    BY <1>2, <2>2, Written
  <2> HIDE DEF m
  <2>4. messages' \in Seq(Message) /\ Len(messages') = Len(messages) + 1
    BY <1>1, <2>1, <2>3
  <2>5. turn' \in 0 .. Len(messages') /\ covered' \in 0 .. Len(messages')
    BY <1>1, <2>1, <2>4
  <2>6. ~ request'.sent /\ ~ request'.made
    BY <1>1, <2>1
  <2> QED BY <1>1, <2>1, <2>4, <2>5, <2>6 DEF LinkInv
<1>11. CASE Refuse
  <2> DEFINE n == turn - 1
  <2>1. /\ messages' = SubSeq(messages, 1, n) /\ turn' = 0 /\ request' = NotMade
        /\ covered' = covered /\ awaited' = awaited /\ request.made
    BY <1>11 DEF Refuse
  <2>2. n \in 0 .. Len(messages) /\ covered \in 0 .. n
    BY <1>1, <2>1 DEF LinkInv
  <2> HIDE DEF n
  <2>3. messages' \in Seq(Message) /\ Len(messages') = n
    BY <1>1, <2>1, <2>2, Parts
  <2>4. turn' \in 0 .. Len(messages') /\ covered' \in 0 .. Len(messages')
    BY <2>1, <2>2, <2>3
  <2> QED BY <1>1, <2>1, <2>3, <2>4, NothingSent DEF LinkInv
<1>12. CASE UNCHANGED vars
  <2>1. /\ messages' = messages /\ covered' = covered /\ turn' = turn /\ awaited' = awaited
        /\ request' = request
    BY <1>12 DEF vars
  <2> QED BY <2>1 DEF LinkInv, Linked, Preceded, Answers
<1> QED BY <1>3, <1>4, <1>5, <1>6, <1>7, <1>8, <1>9, <1>10, <1>11, <1>12 DEF Next

\* Whatever ids the provider gives and however often it repeats them, each result a
\* request shows has a call with its id before it, and each call a result with its id.
THEOREM ViewIsLinked == Spec => []ViewLinked
<1>1. Init => LinkInv
  <2> SUFFICES ASSUME Init PROVE LinkInv
    OBVIOUS
  <2>1. messages = <<>> /\ covered = 0 /\ turn = 0 /\ awaited = <<>> /\ request = NotMade
    BY DEF Init
  <2>2. <<>> \in Seq(Message) /\ <<>> \in Seq(Call) /\ Len(<<>>) = 0
    OBVIOUS
  <2> QED BY <2>1, <2>2, NothingSent DEF LinkInv
<1>2. LinkInv /\ [Next]_vars => LinkInv'
  BY NextKeepsLinks
<1>3. LinkInv => ViewLinked
  <2> SUFFICES ASSUME LinkInv, request.sent
               PROVE  /\ \A i \in Results(View) : \E j \in Declares(View, i) : j < i
                      /\ \A j \in Indices(View) :
                           CallsFor(View, j, Results(View)) = Indices(View[j].calls)
    BY DEF ViewLinked
  <2>1. Preceded(View) /\ Answers(View)
    BY DEF LinkInv, Linked, View
  <2>2. \A i \in Results(View) : \E j \in Declares(View, i) : j < i
    BY <2>1 DEF Preceded, Declares
  <2>3. ASSUME NEW j \in Indices(View), NEW k \in Indices(View[j].calls)
        PROVE  k \in CallsFor(View, j, Results(View))
    <3>1. View[j].calls[k][1] \in CallIds(View[j])
      BY DEF CallIds, Indices
    <3>2. PICK i \in Results(View) : View[i].id = View[j].calls[k][1]
      BY <2>1, <3>1 DEF Answers
    <3> QED BY <3>2 DEF CallsFor
  <2> QED BY <2>2, <2>3 DEF CallsFor
<1> QED BY <1>1, <1>2, <1>3, PTL DEF Spec

================================================================================
