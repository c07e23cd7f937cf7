--------------------------- MODULE ConsolidationProofs ---------------------------
(***************************************************************************)
(* Proofs about Consolidation for every value of its constants: summaries  *)
(* stand for whole branches, the context of a run is its branch, and the   *)
(* memory inbox gets each summary once, from the messages it was made of.  *)
(***************************************************************************)
EXTENDS Consolidation, NumberLemmas, SequenceTheorems, FiniteSetTheorems, TLAPS

--------------------------------------------------------------------------------
(* Branches *)

Tree ==
  /\ parent \in Seq(Nat) /\ Len(parent) <= MaxUnits
  /\ \A v \in 1 .. Len(parent) : parent[v] < v
  /\ leaf \in 0 .. Len(parent)

\* A branch is one of the sets that go up to the root, and is in all of them.
LEMMA BranchUpward ==
  ASSUME Tree, NEW u \in 0 .. Len(parent)
  PROVE  Branch(u) \in Upward(u)
<1>1. ASSUME NEW v \in {u} \cup {parent[w] : w \in Branch(u)}, v # 0
      PROVE  v \in Branch(u)
  <2>1. v \in 1 .. Len(parent)
    <3>1. CASE v = u
      BY <1>1, <3>1
    <3>2. ASSUME NEW w \in Branch(u), v = parent[w]
          PROVE  v \in 1 .. Len(parent)
      <4>1. w \in 1 .. Len(parent) /\ Len(parent) \in Nat
        BY LenProperties DEF Tree, Branch
      <4>2. parent[w] \in Nat /\ parent[w] < w
        BY <4>1, ElementOfSeq DEF Tree
      <4> QED BY <1>1, <3>2, <4>1, <4>2
    <3> QED BY <1>1, <3>1, <3>2
  <2>2. ASSUME NEW S \in Upward(u) PROVE v \in S
    <3>1. v \in {u} \cup {parent[w] : w \in S}
      BY <1>1, <2>2 DEF Branch
    <3> QED BY <1>1, <3>1 DEF Upward
  <2> QED BY <2>1, <2>2 DEF Branch
<1>2. Branch(u) \in SUBSET (1 .. Len(parent))
  BY DEF Branch
<1> QED BY <1>1, <1>2 DEF Upward

LEMMA BranchLeast ==
  ASSUME NEW u, NEW S \in Upward(u)
  PROVE  Branch(u) \subseteq S
BY DEF Branch

LEMMA BranchFacts ==
  ASSUME Tree
  PROVE  /\ Len(parent) \in Nat
         /\ Branch(0) = {}
         /\ \A u \in 1 .. Len(parent) : u \in Branch(u)
         /\ \A u \in 0 .. Len(parent) : \A v \in Branch(u) : v \in 1 .. u /\ v \in 1 .. Len(parent)
<1>1. Len(parent) \in Nat
  BY LenProperties DEF Tree
<1>2. Branch(0) = {}
  <2>1. {} \in Upward(0)
    BY DEF Upward
  <2> QED BY <2>1, BranchLeast
<1>3. ASSUME NEW u \in 1 .. Len(parent) PROVE u \in Branch(u)
  <2>1. u \in 0 .. Len(parent) /\ u # 0
    BY <1>1
  <2>2. Branch(u) \in Upward(u)
    BY <2>1, BranchUpward
  <2> QED BY <2>1, <2>2 DEF Upward
<1>4. ASSUME NEW u \in 0 .. Len(parent), NEW v \in Branch(u)
      PROVE  v \in 1 .. u /\ v \in 1 .. Len(parent)
  <2>1. 1 .. u \in Upward(u)
    <3>1. 1 .. u \in SUBSET (1 .. Len(parent))
      BY <1>1
    <3>2. ASSUME NEW w \in {u} \cup {parent[x] : x \in 1 .. u}, w # 0 PROVE w \in 1 .. u
      <4>1. CASE w = u
        BY <1>1, <3>2, <4>1
      <4>2. ASSUME NEW x \in 1 .. u, w = parent[x] PROVE w \in 1 .. u
        <5>1. x \in 1 .. Len(parent)
          BY <1>1
        <5>2. parent[x] \in Nat /\ parent[x] < x
          BY <1>1, <5>1, ElementOfSeq DEF Tree
        <5> QED BY <3>2, <4>2, <5>1, <5>2
      <4> QED BY <3>2, <4>1, <4>2
    <3> QED BY <3>1, <3>2 DEF Upward
  <2>2. Branch(u) \subseteq 1 .. u
    BY <2>1, BranchLeast
  <2> QED BY <1>1, <2>2
<1> QED BY <1>1, <1>2, <1>3, <1>4

\* The branch of a unit is the unit and the branch of its parent.
LEMMA BranchStep ==
  ASSUME Tree, NEW u \in 1 .. Len(parent)
  PROVE  /\ parent[u] \in 0 .. Len(parent) /\ parent[u] < u
         /\ Branch(u) = {u} \cup Branch(parent[u])
<1>1. /\ Len(parent) \in Nat /\ u \in 0 .. Len(parent)
      /\ parent[u] \in 0 .. Len(parent) /\ parent[u] < u
  BY ElementOfSeq, LenProperties DEF Tree
<1>2. PICK p \in 0 .. Len(parent) : p = parent[u] /\ p < u
  BY <1>1
<1>3. Branch(u) \in Upward(u) /\ Branch(p) \in Upward(p)
  BY <1>1, BranchUpward
<1>4. {u} \cup Branch(p) \in Upward(u)
  <2>1. {u} \cup Branch(p) \in SUBSET (1 .. Len(parent))
    BY DEF Branch
  <2>2. ASSUME NEW v \in {u} \cup {parent[w] : w \in {u} \cup Branch(p)}, v # 0
        PROVE  v \in {u} \cup Branch(p)
    <3>1. v = u \/ v \in {p} \cup {parent[w] : w \in Branch(p)}
      BY <1>2
    <3> QED BY <1>3, <2>2, <3>1 DEF Upward
  <2> QED BY <2>1, <2>2 DEF Upward
<1>5. Branch(u) \subseteq {u} \cup Branch(p)
  BY <1>4, BranchLeast
<1>6. Branch(u) \in Upward(p)
  <2>1. u \in Branch(u)
    BY BranchFacts
  <2>2. Branch(u) \in SUBSET (1 .. Len(parent))
    BY DEF Branch
  <2>3. ASSUME NEW v \in {p} \cup {parent[w] : w \in Branch(u)}, v # 0 PROVE v \in Branch(u)
    BY <1>2, <1>3, <2>1, <2>3 DEF Upward
  <2> QED BY <2>2, <2>3 DEF Upward
<1>7. Branch(p) \subseteq Branch(u)
  BY <1>6, BranchLeast
<1>8. u \in Branch(u)
  BY BranchFacts
<1> QED BY <1>1, <1>2, <1>5, <1>7, <1>8

\* The branch of a unit on another branch is the part of that up to the unit.
LEMMA BranchCut ==
  ASSUME Tree, NEW u \in 0 .. Len(parent), NEW v \in Branch(u)
  PROVE  Branch(v) = {w \in Branch(u) : w <= v}
<1>1. Len(parent) \in Nat /\ v \in 1 .. Len(parent) /\ v \in 1 .. u /\ v \in 0 .. Len(parent)
  BY BranchFacts
<1> DEFINE S == {x \in Branch(u) : (x > v => v \in Branch(x)) /\ (x <= v => x \in Branch(v))}
<1>2. Branch(u) \in Upward(u) /\ Branch(v) \in Upward(v) /\ Branch(u) \in SUBSET (1 .. Len(parent))
  BY <1>1, BranchUpward DEF Branch
<1>3. S \in Upward(u)
  <2>1. S \in SUBSET (1 .. Len(parent))
    BY <1>2
  <2>2. u \in S
    <3>1. u \in 1 .. Len(parent)
      BY <1>1
    <3>2. u \in Branch(u)
      BY <3>1, BranchFacts
    <3>3. u <= v => u = v
      BY <1>1
    <3>4. v \in Branch(v)
      BY <1>1, BranchFacts
    <3> QED BY <3>2, <3>3, <3>4
  <2>3. ASSUME NEW x \in S, parent[x] # 0 PROVE parent[x] \in S
    <3>1. x \in Branch(u) /\ x \in 1 .. Len(parent)
      BY <1>2
    <3>2. PICK p \in 0 .. Len(parent) : p = parent[x] /\ p < x /\ Branch(x) = {x} \cup Branch(p)
      BY <3>1, BranchStep
    <3>3. p \in Branch(u)
      BY <1>2, <2>3, <3>1, <3>2 DEF Upward
    <3>4. CASE x <= v
      <4>1. x \in Branch(v)
        BY <3>4
      <4>2. p \in Branch(v)
        BY <1>2, <2>3, <3>2, <4>1 DEF Upward
      <4>3. ~(p > v)
        BY <1>1, <3>1, <3>2, <3>4
      <4> QED BY <3>2, <3>3, <4>2, <4>3
    <3>5. CASE x > v
      <4>1. v \in Branch(p)
        BY <1>1, <3>1, <3>2, <3>5
      <4>2. v <= p
        BY <3>2, <4>1, BranchFacts
      <4>3. p <= v => p = v
        BY <1>1, <3>2, <4>2
      <4>4. p <= v => p \in Branch(v)
        BY <1>1, <4>3, BranchFacts
      <4> QED BY <3>2, <3>3, <4>1, <4>4
    <3> QED BY <1>1, <3>1, <3>4, <3>5
  <2> QED BY <2>1, <2>2, <2>3 DEF Upward
<1>4. Branch(u) \subseteq S
  BY <1>3, BranchLeast
<1>5. ASSUME NEW w \in Branch(u), w <= v PROVE w \in Branch(v)
  BY <1>4, <1>5
<1>6. Branch(u) \in Upward(v)
  <2>1. ASSUME NEW x \in {v} \cup {parent[w] : w \in Branch(u)}, x # 0 PROVE x \in Branch(u)
    BY <1>2, <2>1 DEF Upward
  <2> QED BY <1>2, <2>1 DEF Upward
<1>7. ASSUME NEW w \in Branch(v) PROVE w \in Branch(u) /\ w <= v
  <2>1. w \in Branch(u)
    BY <1>6, BranchLeast
  <2>2. w \in 1 .. v
    BY <1>1, BranchFacts
  <2> QED BY <1>1, <2>1, <2>2
<1> QED BY <1>5, <1>7

\* A unit more leaves the branches there are.
LEMMA BranchKept ==
  ASSUME Tree, NEW p \in 0 .. Len(parent), parent' = Append(parent, p),
         NEW u \in 0 .. Len(parent)
  PROVE  Branch(u)' = Branch(u)
<1>1. /\ Len(parent) \in Nat /\ Len(parent') = Len(parent) + 1
      /\ \A v \in 1 .. Len(parent) : parent'[v] = parent[v]
  <2>1. parent \in Seq(Nat) /\ p \in Nat
    BY LenProperties DEF Tree
  <2> QED BY <2>1, AppendProperties, LenProperties
<1>2. ASSUME NEW S \in Upward(u) PROVE S \in Upward(u)'
  <2>1. S \in SUBSET (1 .. Len(parent))
    BY DEF Upward
  <2>2. S \in SUBSET (1 .. Len(parent'))
    BY <1>1, <2>1
  <2>3. \A w \in S : parent'[w] = parent[w]
    BY <1>1, <2>1
  <2> QED BY <2>2, <2>3 DEF Upward
<1>3. Branch(u) \in Upward(u)
  BY BranchUpward
<1>4. ASSUME NEW S \in Upward(u)' PROVE S \cap (1 .. Len(parent)) \in Upward(u)
  <2>1. ASSUME NEW v \in {u} \cup {parent[w] : w \in S \cap (1 .. Len(parent))}, v # 0
        PROVE  v \in S \cap (1 .. Len(parent))
    <3>1. CASE v = u
      <4>1. v \in S
        BY <1>4, <2>1, <3>1 DEF Upward
      <4> QED BY <1>1, <2>1, <3>1, <4>1
    <3>2. ASSUME NEW w \in S \cap (1 .. Len(parent)), v = parent[w]
          PROVE  v \in S \cap (1 .. Len(parent))
      <4>1. v \in 0 .. Len(parent)
        BY <3>2, BranchStep
      <4>2. v \in S
        BY <1>1, <1>4, <2>1, <3>2 DEF Upward
      <4> QED BY <1>1, <2>1, <4>1, <4>2
    <3> QED BY <2>1, <3>1, <3>2
  <2> QED BY <2>1 DEF Upward
<1>5. Branch(u)' \subseteq Branch(u)
  <2>1. Branch(u) \in Upward(u)'
    BY <1>2, <1>3
  <2> QED BY <2>1 DEF Branch
<1>6. Branch(u) \subseteq Branch(u)'
  <2> SUFFICES ASSUME NEW v \in Branch(u) PROVE v \in Branch(u)'
    OBVIOUS
  <2>1. v \in 1 .. Len(parent')
    BY <1>1 DEF Branch
  <2>2. ASSUME NEW S \in Upward(u)' PROVE v \in S
    BY <1>4, <2>2 DEF Branch
  <2> QED BY <2>1, <2>2 DEF Branch
<1> QED BY <1>5, <1>6

--------------------------------------------------------------------------------
(* Summaries *)

SummariesTyped ==
  /\ summaries \in Seq(Summary) /\ saved \in 0 .. Len(summaries) /\ everSaved \subseteq Summaries
  /\ \A i, j \in 1 .. Len(summaries) : summaries[i].id = summaries[j].id => i = j

\* id is of one of the first n summaries, which covers a unit of path, or of none.
Follows(id, covered, path, n) ==
  \/ id = 0 /\ covered = 0
  \/ \E j \in 1 .. n :
       summaries[j].id = id /\ summaries[j].through = covered /\ covered \in path

\* A summary stands for the whole branch of the unit it covers, and follows one that
\* was recorded before it and covers less of the branch it was made on.
Sound(i) ==
  /\ summaries[i].source \in 1 .. Len(parent)
  /\ summaries[i].through \in Branch(summaries[i].source)
  /\ summaries[i].content = Branch(summaries[i].through)
  /\ \E covered \in 0 .. summaries[i].through :
       Follows(summaries[i].previous, covered, Branch(summaries[i].source), i - 1)

SessionInv ==
  /\ Tree
  /\ SummariesTyped
  /\ \A i \in 1 .. Len(summaries) : Sound(i)

\* The messages a summary was made of.
Chunk(i) == summaries[i].content \ ContentOf(IndexOf(summaries[i].previous))

LEMMA SummaryTypes ==
  ASSUME SummariesTyped
  PROVE  /\ Len(summaries) \in Nat
         /\ \A i \in 1 .. Len(summaries) :
              /\ summaries[i].id \in Summaries /\ summaries[i].id # 0
              /\ summaries[i].through \in Units /\ summaries[i].content \in SUBSET Units
              /\ summaries[i] \in Summary
<1>1. Len(summaries) \in Nat
  BY LenProperties DEF SummariesTyped
<1>2. \A i \in 1 .. Len(summaries) : summaries[i] \in Summary
  BY ElementOfSeq DEF SummariesTyped
<1>3. 0 \notin Summaries
  BY DEF Summaries
<1> QED BY <1>1, <1>2, <1>3 DEF Summary

LEMMA IndexFacts ==
  ASSUME SummariesTyped
  PROVE  /\ IndexOf(0) = 0 /\ CoveredBy(0) = 0 /\ ContentOf(0) = {}
         /\ \A i \in 1 .. Len(summaries) :
              /\ IndexOf(summaries[i].id) = i
              /\ CoveredBy(i) = summaries[i].through
              /\ ContentOf(i) = summaries[i].content
<1>1. IndexOf(0) = 0 /\ CoveredBy(0) = 0 /\ ContentOf(0) = {}
  BY DEF IndexOf, CoveredBy, ContentOf
<1>2. ASSUME NEW i \in 1 .. Len(summaries)
      PROVE  /\ IndexOf(summaries[i].id) = i
             /\ CoveredBy(i) = summaries[i].through
             /\ ContentOf(i) = summaries[i].content
  <2>1. i # 0 /\ summaries[i].id # 0
    BY SummaryTypes
  <2>2. \A j \in 1 .. Len(summaries) : summaries[j].id = summaries[i].id => j = i
    BY DEF SummariesTyped
  <2>3. IndexOf(summaries[i].id) = i
    BY <2>1, <2>2 DEF IndexOf
  <2> QED BY <2>1, <2>3 DEF CoveredBy, ContentOf
<1> QED BY <1>1, <1>2

\* What a summary says that another follows.
LEMMA FollowsFacts ==
  ASSUME SessionInv, NEW id, NEW covered, NEW u \in 0 .. Len(parent),
         NEW n \in 0 .. Len(summaries), Follows(id, covered, Branch(u), n)
  PROVE  /\ ThroughOf(id) = covered
         /\ covered \in Nat
         /\ ContentOf(IndexOf(id)) = {w \in Branch(u) : w <= covered}
<1>1. CASE id = 0 /\ covered = 0
  <2>1. \A w \in Branch(u) : ~(w <= covered)
    <3> SUFFICES ASSUME NEW w \in Branch(u) PROVE ~(w <= covered)
      OBVIOUS
    <3>1. w \in 1 .. u
      BY BranchFacts DEF SessionInv
    <3>2. u \in Nat
      BY BranchFacts DEF SessionInv
    <3> QED BY <1>1, <3>1, <3>2
  <2> QED BY <1>1, <2>1, IndexFacts DEF ThroughOf, SessionInv
<1>2. ASSUME NEW j \in 1 .. n, summaries[j].id = id, summaries[j].through = covered,
             covered \in Branch(u)
      PROVE  /\ ThroughOf(id) = covered
             /\ covered \in Nat
             /\ ContentOf(IndexOf(id)) = {w \in Branch(u) : w <= covered}
  <2>1. j \in 1 .. Len(summaries)
    BY SummaryTypes DEF SessionInv
  <2>2. IndexOf(id) = j /\ CoveredBy(j) = covered /\ ContentOf(j) = summaries[j].content
    BY <1>2, <2>1, IndexFacts DEF SessionInv
  <2>3. summaries[j].content = Branch(covered)
    BY <1>2, <2>1 DEF SessionInv, Sound
  <2>4. Branch(covered) = {w \in Branch(u) : w <= covered}
    BY <1>2, BranchCut DEF SessionInv
  <2>5. covered \in Nat
    BY <1>2, BranchFacts DEF SessionInv
  <2> QED BY <2>2, <2>3, <2>4, <2>5 DEF ThroughOf
<1> QED BY <1>1, <1>2 DEF Follows

\* What _reconcile_memory reconstructs is what the summary was made of.
LEMMA ReconstructedIsChunk ==
  ASSUME SessionInv, NEW i \in 1 .. Len(summaries)
  PROVE  Reconstructed(summaries[i]) = Chunk(i)
<1>1. PICK s \in Summary : s = summaries[i]
  BY SummaryTypes DEF SessionInv
<1>2. /\ s.source \in 1 .. Len(parent) /\ s.through \in Branch(s.source)
      /\ s.content = Branch(s.through)
  BY <1>1 DEF SessionInv, Sound
<1>3. PICK covered \in 0 .. s.through : Follows(s.previous, covered, Branch(s.source), i - 1)
  BY <1>1 DEF SessionInv, Sound
<1>4. s.source \in 0 .. Len(parent) /\ i - 1 \in 0 .. Len(summaries) /\ Len(parent) \in Nat
  BY <1>2, BranchFacts, SummaryTypes DEF SessionInv
<1>5. /\ ThroughOf(s.previous) = covered
      /\ ContentOf(IndexOf(s.previous)) = {w \in Branch(s.source) : w <= covered}
  BY <1>3, <1>4, FollowsFacts
<1>6. Branch(s.through) = {w \in Branch(s.source) : w <= s.through}
  BY <1>2, <1>4, BranchCut DEF SessionInv
<1>7. ASSUME NEW w \in Branch(s.source) PROVE w > covered <=> ~(w <= covered)
  BY <1>2, <1>3, <1>4, BranchFacts DEF SessionInv
<1>8. Reconstructed(s) = {w \in Branch(s.source) : w > covered /\ w <= s.through}
  BY <1>5 DEF Reconstructed
<1>9. s.content \ ContentOf(IndexOf(s.previous))
        = {w \in Branch(s.source) : w > covered /\ w <= s.through}
  BY <1>2, <1>5, <1>6, <1>7
<1> QED BY <1>1, <1>8, <1>9 DEF Chunk

\* The summary a branch is resolved to covers part of it.
LEMMA ResolvedFacts ==
  ASSUME SessionInv, NEW u \in 0 .. Len(parent)
  PROVE  LET i == Resolved(Branch(u)) IN
         \/ i = 0
         \/ i \in 1 .. Len(summaries) /\ summaries[i].through \in Branch(u)
<1> DEFINE A == Applicable(Branch(u))
<1>1. CASE A = {}
  BY <1>1 DEF Resolved
<1>2. CASE A # {}
  <2>1. A \in SUBSET (1 .. Len(summaries)) /\ Len(summaries) \in Nat
    BY SummaryTypes DEF Applicable, SessionInv
  <2>2. \A j \in A : summaries[j].through \in 0 .. Len(parent)
    <3> SUFFICES ASSUME NEW j \in A PROVE summaries[j].through \in 0 .. Len(parent)
      OBVIOUS
    <3>1. summaries[j].through \in Branch(u)
      BY DEF Applicable
    <3> QED BY <3>1, BranchFacts DEF SessionInv
  <2>3. Len(parent) \in Nat
    BY BranchFacts DEF SessionInv
  <2> HIDE DEF A
  <2> DEFINE T == {summaries[j].through : j \in A}
  <2>4. PICK t \in T : \A x \in T : x <= t
    <3>1. T \in SUBSET (0 .. Len(parent)) /\ T # {}
      BY <1>2, <2>2 DEF A
    <3> HIDE DEF T
    <3> QED BY <2>3, <3>1, GreatestNumber
  <2> DEFINE B == {j \in A : summaries[j].through = t}
  <2>5. PICK i \in B : \A j \in B : j <= i
    <3>1. PICK j \in A : summaries[j].through = t
      BY <2>4
    <3>2. B # {}
      BY <3>1
    <3>3. A \in SUBSET (0 .. Len(summaries))
      BY <2>1
    <3>4. B \in SUBSET (0 .. Len(summaries))
      BY <3>3
    <3> HIDE DEF B
    <3> QED BY <2>1, <3>2, <3>4, GreatestNumber
  <2>6. i \in A /\ \A j \in A : \/ summaries[j].through < summaries[i].through
                                \/ summaries[j].through = summaries[i].through /\ j <= i
    <3> SUFFICES ASSUME NEW j \in A
                 PROVE  \/ summaries[j].through < summaries[i].through
                        \/ summaries[j].through = summaries[i].through /\ j <= i
      OBVIOUS
    <3>1. summaries[j].through <= t /\ summaries[i].through = t
      BY <2>4
    <3>2. summaries[j].through = t => j <= i
      BY <2>5
    <3>3. summaries[j].through \in Nat /\ t \in Nat
      BY <2>2, <2>3
    <3> QED BY <3>1, <3>2, <3>3
  <2>7. Resolved(Branch(u)) \in A
    BY <1>2, <2>6 DEF Resolved, A
  <2> QED BY <2>7 DEF A, Applicable
<1> QED BY <1>1, <1>2

\* The context of a branch is the branch.
LEMMA ContextIsBranch ==
  ASSUME SessionInv, NEW u \in 0 .. Len(parent)
  PROVE  /\ ContextOf(Branch(u)).content \cup ContextOf(Branch(u)).tail = Branch(u)
         /\ ContextOf(Branch(u)).content \cap ContextOf(Branch(u)).tail = {}
<1>1. PICK i : i = Resolved(Branch(u))
  OBVIOUS
<1>2. i = 0 \/ (i \in 1 .. Len(summaries) /\ summaries[i].through \in Branch(u))
  BY <1>1, ResolvedFacts
<1>3. PICK covered, content : covered = CoveredBy(i) /\ content = ContentOf(i)
  OBVIOUS
<1>4. covered \in Nat /\ content = {w \in Branch(u) : w <= covered}
  <2> DEFINE id == IF i = 0 THEN 0 ELSE summaries[i].id
  <2>1. Follows(id, covered, Branch(u), Len(summaries))
    BY <1>2, <1>3, IndexFacts DEF Follows, SessionInv
  <2>2. IndexOf(id) = i
    BY <1>2, IndexFacts DEF SessionInv
  <2>3. Len(summaries) \in 0 .. Len(summaries)
    BY SummaryTypes DEF SessionInv
  <2> HIDE DEF id
  <2> QED BY <1>3, <2>1, <2>2, <2>3, FollowsFacts
<1>5. ContextOf(Branch(u)) = [content |-> content, tail |-> {w \in Branch(u) : w > covered}]
  BY <1>1, <1>3 DEF ContextOf, After
<1>6. \A w \in Branch(u) : w > covered <=> ~(w <= covered)
  <2> SUFFICES ASSUME NEW w \in Branch(u) PROVE w > covered <=> ~(w <= covered)
    OBVIOUS
  <2>1. w \in 1 .. u /\ u \in Nat
    BY BranchFacts DEF SessionInv
  <2> QED BY <1>4, <2>1
<1> QED BY <1>4, <1>5, <1>6

--------------------------------------------------------------------------------
(* The inductive invariant *)

PassTyped ==
  pass \in [owner : {"none", "run", "background"},
            pc : {"none", "estimating", "picking", "generating", "enqueuing"},
            round : Nat, path : SUBSET Units, previous : Summaries \cup {0},
            covered : Nat, chunk : SUBSET Units]

RunTyped ==
  run \in [pc : {"none", "preparing", "consolidating", "running"}, base : Nat,
           context : [content : SUBSET Units, tail : SUBSET Units]]

\* Where a pass works on a branch, its previous summary is one that covers a part of
\* it, however the leaf moves.
PassReads ==
  /\ NextId \in Summaries
  /\ \E u \in 0 .. Len(parent) :
       pass.path = Branch(u) /\ Follows(pass.previous, pass.covered, Branch(u), Len(summaries))

\* The chunk to be summarised is what follows there, up to some later message.
PassPicked ==
  /\ pass.chunk # {}
  /\ \E next \in pass.path : pass.chunk = {u \in pass.path : pass.covered < u /\ u < next}

\* The last summary is about to be queued.
PassQueues ==
  /\ summaries # <<>>
  /\ ~Queued(LastSummary.id)
  /\ pass.chunk = Chunk(Len(summaries))

PassInv ==
  /\ PassTyped
  /\ pass.pc \in {"picking", "generating"} => PassReads
  /\ pass.pc = "generating" => PassPicked
  /\ pass.pc = "enqueuing" => PassQueues

RunInv ==
  /\ RunTyped
  /\ run.pc = "running" => run.base \in 0 .. Len(parent)
  /\ ContextComplete

StoreInv ==
  /\ inbox \in Seq(Entry) /\ torn = FALSE /\ dreamCursor \in Nat
  /\ receipt \in [Summaries -> SUBSET Units] /\ missed \subseteq Summaries
  /\ OncePerSummary

ConsInv == SessionInv /\ PassInv /\ RunInv /\ StoreInv /\ ReceiptsMatch /\ NothingMissed

--------------------------------------------------------------------------------
(* A new summary *)

LEMMA GreatestFacts ==
  ASSUME NEW n \in Nat, NEW S \in SUBSET (0 .. n), S # {}
  PROVE  Greatest(S) \in S /\ \A v \in S : v <= Greatest(S)
<1>1. PICK u \in S : \A v \in S : v <= u
  BY GreatestNumber
<1> QED BY <1>1 DEF Greatest

\* A new id is none of the Session's, of its file or of the inbox.
LEMMA NextIdFresh ==
  ASSUME SummariesTyped
  PROVE  NextId \in Nat /\ NextId \notin LiveIds /\ ~(NextId \in Summaries /\ Queued(NextId))
<1> DEFINE S == {0} \cup LiveIds \cup everSaved \cup {s \in Summaries : Queued(s)}
<1>1. PICK n \in Nat : Summaries \subseteq 0 .. n
  <2>1. CASE MaxSummaries \in Nat
    BY <2>1 DEF Summaries
  <2> QED BY <2>1, ConsolidationAssumption, MemoryAssumption
<1>2. LiveIds \subseteq Summaries /\ everSaved \subseteq Summaries
  BY SummaryTypes DEF LiveIds, SummariesTyped
<1>3. S \in SUBSET (0 .. n) /\ S # {}
  <2>1. S \subseteq {0} \cup Summaries
    BY <1>2
  <2>2. 0 \in S /\ 0 \in 0 .. n
    OBVIOUS
  <2> HIDE DEF S
  <2> QED BY <1>1, <2>1, <2>2
<1>4. PICK g \in S : g = Greatest(S) /\ \A v \in S : v <= g
  <2> HIDE DEF S
  <2> QED BY <1>3, GreatestFacts
<1>5. g \in Nat /\ NextId = 1 + g
  BY <1>3, <1>4 DEF NextId
<1>6. 1 + g \notin S
  BY <1>4, <1>5
<1> QED BY <1>5, <1>6

LEMMA NextIdSame ==
  ASSUME UNCHANGED <<summaries, inbox>>, everSaved' \in {everSaved, everSaved \cup LiveIds}
  PROVE  NextId' = NextId
<1>1. LiveIds' = LiveIds
  BY DEF LiveIds
<1>2. {s \in Summaries : Queued(s)}' = {s \in Summaries : Queued(s)}
  BY DEF Queued, Lines
<1>3. ({0} \cup LiveIds \cup everSaved \cup {s \in Summaries : Queued(s)})'
        = {0} \cup LiveIds \cup everSaved \cup {s \in Summaries : Queued(s)}
  BY <1>1, <1>2
<1> QED BY <1>3 DEF NextId, Greatest

LEMMA BranchSame ==
  ASSUME UNCHANGED parent, NEW u
  PROVE  Branch(u)' = Branch(u)
BY DEF Branch, Upward

\* The branch up to the greatest unit of a chunk is what was covered and the chunk.
LEMMA ChunkFacts ==
  ASSUME SessionInv, PassInv, pass.pc = "generating"
  PROVE  LET t == Greatest(pass.chunk) IN
         /\ t \in 1 .. Len(parent) /\ t \in Units
         /\ pass.chunk \cap ContentOf(IndexOf(pass.previous)) = {}
         /\ ContentOf(IndexOf(pass.previous)) \cup pass.chunk = Branch(t)
<1>1. PICK u \in 0 .. Len(parent) :
        pass.path = Branch(u) /\ Follows(pass.previous, pass.covered, Branch(u), Len(summaries))
  BY DEF PassInv, PassReads
<1>2. PICK next \in Branch(u) :
        pass.chunk = {w \in Branch(u) : pass.covered < w /\ w < next}
  BY <1>1 DEF PassInv, PassPicked
<1>3. PICK c, d : c = pass.covered /\ d = pass.chunk
  OBVIOUS
<1>4. c \in Nat /\ ContentOf(IndexOf(pass.previous)) = {w \in Branch(u) : w <= c}
  <2>1. PICK n \in 0 .. Len(summaries) : n = Len(summaries)
    BY SummaryTypes DEF SessionInv
  <2>2. PICK id : id = pass.previous
    OBVIOUS
  <2>3. Follows(id, c, Branch(u), n)
    BY <1>1, <1>3, <2>1, <2>2
  <2>4. c \in Nat /\ ContentOf(IndexOf(id)) = {w \in Branch(u) : w <= c}
    BY <2>3, FollowsFacts
  <2> QED BY <2>2, <2>4
<1>5. /\ Len(parent) \in Nat /\ Len(parent) <= MaxUnits
      /\ \A w \in Branch(u) : w \in 1 .. Len(parent) /\ w \in Nat
  BY BranchFacts DEF SessionInv, Tree
<1>6. d = {w \in Branch(u) : c < w /\ w < next} /\ d # {}
  BY <1>2, <1>3 DEF PassInv, PassPicked
<1>7. PICK t \in d : t = Greatest(d) /\ \A v \in d : v <= t
  <2>1. d \in SUBSET (0 .. Len(parent))
    BY <1>5, <1>6
  <2> QED BY <1>5, <1>6, <2>1, GreatestFacts
<1>8. t \in Branch(u) /\ c < t /\ t < next /\ t \in 1 .. Len(parent) /\ next \in Nat
  BY <1>5, <1>6, <1>7
<1>9. Branch(t) = {w \in Branch(u) : w <= t}
  BY <1>8, BranchCut DEF SessionInv
<1>10. \A w \in Branch(u) : w <= t <=> (w <= c \/ w \in d)
  <2> SUFFICES ASSUME NEW w \in Branch(u) PROVE w <= t <=> (w <= c \/ w \in d)
    OBVIOUS
  <2>1. w \in Nat /\ t \in Nat
    BY <1>5, <1>8
  <2>2. w <= c => w <= t
    BY <1>4, <1>8, <2>1
  <2>3. w \in d => w <= t
    BY <1>7
  <2>4. w <= t /\ ~(w <= c) => w \in d
    BY <1>4, <1>6, <1>8, <2>1
  <2> QED BY <2>2, <2>3, <2>4
<1>11. {w \in Branch(u) : w <= c} \cup d = Branch(t)
  BY <1>6, <1>9, <1>10
<1>12. d \cap {w \in Branch(u) : w <= c} = {}
  BY <1>4, <1>5, <1>6
<1>13. t \in Units
  <2>1. MaxUnits \in Nat
    BY ConsolidationAssumption
  <2> QED BY <1>5, <1>8, <2>1 DEF Units
<1> QED BY <1>3, <1>4, <1>7, <1>8, <1>11, <1>12, <1>13

--------------------------------------------------------------------------------
(* What later states keep of the summaries *)

LEMMA IndexLater ==
  ASSUME SummariesTyped', NEW i, i \in 1 .. Len(summaries'), NEW t, t = summaries'[i],
         NEW id, id = t.id
  PROVE  IndexOf(id)' = i /\ ContentOf(i)' = t.content
<1>1. /\ summaries'[i] \in Summary
      /\ \A j \in 1 .. Len(summaries') : summaries'[j].id = summaries'[i].id => j = i
  BY ElementOfSeq DEF SummariesTyped
<1>2. id # 0 /\ i # 0
  <2>1. 0 \notin Summaries
    BY DEF Summaries
  <2> QED BY <1>1, <2>1 DEF Summary
<1>3. \A j \in 1 .. Len(summaries') : summaries'[j].id = id <=> j = i
  BY <1>1
<1> QED BY <1>2, <1>3 DEF IndexOf, ContentOf

LEMMA NoneLater ==
  ContentOf(IndexOf(0))' = {}
BY DEF ContentOf, IndexOf

\* A summary stays sound, and made of the same chunk, while those up to it and the
\* branches stay.
LEMMA SoundLater ==
  ASSUME SessionInv, NEW i \in 1 .. Len(summaries),
         \A j \in 1 .. i : summaries'[j] = summaries[j],
         1 .. Len(parent) \subseteq 1 .. Len(parent'),
         \A u \in 0 .. Len(parent) : Branch(u)' = Branch(u)
  PROVE  Sound(i)'
<1>1. PICK s \in Summary : s = summaries[i] /\ s = summaries'[i]
  <2>1. i \in 1 .. i
    BY SummaryTypes DEF SessionInv
  <2>2. summaries[i] \in Summary
    BY SummaryTypes DEF SessionInv
  <2> QED BY <2>1, <2>2
<1>2. /\ s.source \in 1 .. Len(parent) /\ s.through \in Branch(s.source)
      /\ s.content = Branch(s.through)
  BY <1>1 DEF SessionInv, Sound
<1>3. PICK covered \in 0 .. s.through : Follows(s.previous, covered, Branch(s.source), i - 1)
  BY <1>1 DEF SessionInv, Sound
<1>4. Len(parent) \in Nat /\ s.source \in 0 .. Len(parent)
  BY <1>2, BranchFacts DEF SessionInv
<1>5. s.through \in 0 .. Len(parent)
  BY <1>2, <1>4, BranchFacts DEF SessionInv
<1>6. Branch(s.source)' = Branch(s.source) /\ Branch(s.through)' = Branch(s.through)
  <2>1. PICK a \in 0 .. Len(parent), b \in 0 .. Len(parent) : a = s.source /\ b = s.through
    BY <1>4, <1>5
  <2>2. Branch(a)' = Branch(a) /\ Branch(b)' = Branch(b)
    OBVIOUS
  <2> QED BY <2>1, <2>2
<1>7. Follows(s.previous, covered, Branch(s.source), i - 1)'
  <2>1. CASE s.previous = 0 /\ covered = 0
    BY <2>1 DEF Follows
  <2>2. ASSUME NEW j \in 1 .. i - 1, summaries[j].id = s.previous,
               summaries[j].through = covered, covered \in Branch(s.source)
        PROVE  Follows(s.previous, covered, Branch(s.source), i - 1)'
    <3>1. j \in 1 .. i
      BY SummaryTypes DEF SessionInv
    <3>2. summaries'[j] = summaries[j]
      BY <3>1
    <3> QED BY <1>6, <2>2, <3>2 DEF Follows
  <2> QED BY <1>3, <2>1, <2>2 DEF Follows
<1>8. s.source \in 1 .. Len(parent')
  BY <1>2
<1> QED BY <1>1, <1>2, <1>3, <1>6, <1>7, <1>8 DEF Sound

LEMMA ChunkLater ==
  ASSUME SessionInv, SummariesTyped', NEW i \in 1 .. Len(summaries), i \in 1 .. Len(summaries'),
         \A j \in 1 .. i : summaries'[j] = summaries[j]
  PROVE  Chunk(i)' = Chunk(i)
<1>1. PICK s \in Summary : s = summaries[i] /\ s = summaries'[i]
  <2>1. i \in 1 .. i
    BY SummaryTypes DEF SessionInv
  <2>2. summaries[i] \in Summary
    BY SummaryTypes DEF SessionInv
  <2> QED BY <2>1, <2>2
<1>2. PICK covered : Follows(s.previous, covered, Branch(s.source), i - 1)
  BY <1>1 DEF SessionInv, Sound
<1>3. CASE s.previous = 0
  <2>1. ContentOf(IndexOf(0))' = ContentOf(IndexOf(0))
    BY NoneLater, IndexFacts DEF SessionInv
  <2> QED BY <1>1, <1>3, <2>1 DEF Chunk
<1>4. ASSUME NEW j \in 1 .. i - 1, summaries[j].id = s.previous
      PROVE  Chunk(i)' = Chunk(i)
  <2>1. j \in 1 .. i /\ j \in 1 .. Len(summaries) /\ j \in 1 .. Len(summaries')
    <3>1. Len(summaries) \in Nat /\ Len(summaries') \in Nat
      BY LenProperties DEF SessionInv, SummariesTyped
    <3> QED BY <3>1
  <2>2. PICK t : t = summaries[j] /\ t = summaries'[j] /\ t.id = s.previous
    BY <1>4, <2>1
  <2>3. IndexOf(t.id) = j /\ ContentOf(j) = t.content
    BY <2>1, <2>2, IndexFacts DEF SessionInv
  <2>4. PICK id : id = t.id
    OBVIOUS
  <2>5. ContentOf(IndexOf(id)) = t.content
    BY <2>3, <2>4
  <2>6. IndexOf(id)' = j /\ ContentOf(j)' = t.content
    BY <2>1, <2>2, <2>4, IndexLater
  <2>7. ContentOf(IndexOf(id))' = t.content
    BY <2>6 DEF ContentOf
  <2> QED BY <1>1, <2>2, <2>4, <2>5, <2>7 DEF Chunk
<1> QED BY <1>2, <1>3, <1>4 DEF Follows

\* The same for all of the summaries that stay.
LEMMA SummariesLater ==
  ASSUME SessionInv, SummariesTyped', NEW n \in 0 .. Len(summaries), n \in 0 .. Len(summaries'),
         \A j \in 1 .. n : summaries'[j] = summaries[j],
         1 .. Len(parent) \subseteq 1 .. Len(parent'),
         \A u \in 0 .. Len(parent) : Branch(u)' = Branch(u)
  PROVE  \A i \in 1 .. n : Sound(i)' /\ Chunk(i)' = Chunk(i)
<1> SUFFICES ASSUME NEW i \in 1 .. n PROVE Sound(i)' /\ Chunk(i)' = Chunk(i)
  OBVIOUS
<1>1. Len(summaries) \in Nat /\ Len(summaries') \in Nat
  BY LenProperties DEF SessionInv, SummariesTyped
<1>2. i \in 1 .. Len(summaries) /\ i \in 1 .. Len(summaries') /\ 1 .. i \subseteq 1 .. n
  BY <1>1
<1>3. \A j \in 1 .. i : summaries'[j] = summaries[j]
  BY <1>2
<1>4. Sound(i)'
  BY <1>2, <1>3, SoundLater
<1>5. Chunk(i)' = Chunk(i)
  BY <1>2, <1>3, ChunkLater
<1> QED BY <1>4, <1>5

--------------------------------------------------------------------------------
(* The Session in every step *)

\* The summaries and the tree stay; the leaf may move, and events are saved.
LEMMA SessionSame ==
  ASSUME SessionInv, UNCHANGED <<parent, summaries>>, leaf' \in 0 .. Len(parent),
         saved' \in 0 .. Len(summaries), everSaved' \in {everSaved, everSaved \cup LiveIds}
  PROVE  /\ SessionInv'
         /\ \A i \in 1 .. Len(summaries) : Chunk(i)' = Chunk(i)
<1>1. LiveIds \subseteq Summaries
  BY SummaryTypes DEF LiveIds, SessionInv
<1>2. SummariesTyped' /\ Tree'
  BY <1>1 DEF SessionInv, SummariesTyped, Tree
<1>3. PICK n \in 0 .. Len(summaries) : n = Len(summaries) /\ n = Len(summaries')
  BY SummaryTypes DEF SessionInv
<1>4. \A j \in 1 .. n : summaries'[j] = summaries[j]
  OBVIOUS
<1>5. \A u \in 0 .. Len(parent) : Branch(u)' = Branch(u)
  BY BranchSame
<1>6. 1 .. Len(parent) \subseteq 1 .. Len(parent')
  OBVIOUS
<1>7. n \in 0 .. Len(summaries')
  BY <1>3
<1>8. \A i \in 1 .. n : Sound(i)' /\ Chunk(i)' = Chunk(i)
  BY <1>2, <1>4, <1>5, <1>6, <1>7, SummariesLater
<1> QED BY <1>2, <1>3, <1>8 DEF SessionInv

\* A unit is committed behind the leaf.
LEMMA SessionGrows ==
  ASSUME SessionInv, UNCHANGED summaries, Len(parent) < MaxUnits,
         parent' = Append(parent, leaf), leaf' = Len(parent) + 1,
         saved' = Len(summaries), everSaved' = everSaved \cup LiveIds
  PROVE  /\ SessionInv'
         /\ \A i \in 1 .. Len(summaries) : Chunk(i)' = Chunk(i)
         /\ \A u \in 0 .. Len(parent) : Branch(u)' = Branch(u)
         /\ 0 .. Len(parent) \subseteq 0 .. Len(parent')
<1>1. LiveIds \subseteq Summaries /\ Len(summaries) \in Nat
  BY SummaryTypes DEF LiveIds, SessionInv
<1>2. SummariesTyped'
  BY <1>1 DEF SessionInv, SummariesTyped
<1>3. parent \in Seq(Nat) /\ leaf \in Nat /\ Len(parent) \in Nat /\ MaxUnits \in Nat /\ leaf <= Len(parent)
  BY LenProperties, ConsolidationAssumption DEF SessionInv, Tree
<1>4. /\ parent' \in Seq(Nat) /\ Len(parent') = Len(parent) + 1
      /\ \A v \in 1 .. Len(parent) : parent'[v] = parent[v]
      /\ parent'[Len(parent) + 1] = leaf
  BY <1>3, AppendProperties
<1>5. Tree'
  <2>1. ASSUME NEW v \in 1 .. Len(parent') PROVE parent'[v] < v
    <3>1. CASE v = Len(parent) + 1
      BY <1>3, <1>4, <3>1
    <3>2. CASE v # Len(parent) + 1
      <4>1. v \in 1 .. Len(parent)
        BY <1>3, <1>4, <3>2
      <4> QED BY <1>4, <4>1 DEF SessionInv, Tree
    <3> QED BY <3>1, <3>2
  <2>2. Len(parent') <= MaxUnits /\ leaf' \in 0 .. Len(parent')
    BY <1>3, <1>4
  <2> QED BY <1>4, <2>1, <2>2 DEF Tree
<1>6. \A u \in 0 .. Len(parent) : Branch(u)' = Branch(u)
  <2>1. Tree /\ leaf \in 0 .. Len(parent)
    BY DEF SessionInv, Tree
  <2> QED BY <2>1, BranchKept
<1>7. 1 .. Len(parent) \subseteq 1 .. Len(parent') /\ 0 .. Len(parent) \subseteq 0 .. Len(parent')
  BY <1>3, <1>4
<1>8. PICK n \in 0 .. Len(summaries) : n = Len(summaries) /\ n = Len(summaries')
  BY <1>1
<1>9. n \in 0 .. Len(summaries') /\ \A j \in 1 .. n : summaries'[j] = summaries[j]
  BY <1>8
<1>10. \A i \in 1 .. n : Sound(i)' /\ Chunk(i)' = Chunk(i)
  BY <1>2, <1>6, <1>7, <1>9, SummariesLater
<1> QED BY <1>2, <1>5, <1>6, <1>7, <1>8, <1>10 DEF SessionInv

\* The process dies: what was not saved is gone.
LEMMA SessionCut ==
  ASSUME SessionInv, UNCHANGED <<parent, leaf, saved, everSaved>>,
         summaries' = SubSeq(summaries, 1, saved)
  PROVE  /\ SessionInv'
         /\ Len(summaries') = saved
         /\ \A i \in 1 .. saved : summaries'[i] = summaries[i] /\ Chunk(i)' = Chunk(i)
<1>1. Len(summaries) \in Nat /\ saved \in Nat /\ saved <= Len(summaries) /\ summaries \in Seq(Summary)
  BY SummaryTypes DEF SessionInv, SummariesTyped
<1>2. /\ summaries' \in Seq(Summary) /\ Len(summaries') = saved
      /\ \A i \in 1 .. saved : summaries'[i] = summaries[i]
  BY <1>1
<1>3. SummariesTyped' /\ Tree'
  <2>1. ASSUME NEW i \in 1 .. Len(summaries'), NEW j \in 1 .. Len(summaries'),
               summaries'[i].id = summaries'[j].id
        PROVE  i = j
    <3>1. i \in 1 .. Len(summaries) /\ j \in 1 .. Len(summaries)
      BY <1>1, <1>2
    <3> QED BY <1>2, <2>1, <3>1 DEF SessionInv, SummariesTyped
  <2> QED BY <1>1, <1>2, <2>1 DEF SessionInv, SummariesTyped, Tree
<1>4. PICK n \in 0 .. Len(summaries) : n = saved /\ n = Len(summaries')
  BY <1>1, <1>2
<1>5. \A u \in 0 .. Len(parent) : Branch(u)' = Branch(u)
  BY BranchSame
<1>6. 1 .. Len(parent) \subseteq 1 .. Len(parent')
  OBVIOUS
<1>7. n \in 0 .. Len(summaries') /\ \A j \in 1 .. n : summaries'[j] = summaries[j]
  BY <1>2, <1>4
<1>8. \A i \in 1 .. n : Sound(i)' /\ Chunk(i)' = Chunk(i)
  BY <1>3, <1>5, <1>6, <1>7, SummariesLater
<1> QED BY <1>2, <1>3, <1>4, <1>8 DEF SessionInv

\* A summary is recorded: a new one, of the chunk its pass has picked.
LEMMA NewSummaryTyped ==
  ASSUME SessionInv, PassInv, pass.pc = "generating", leaf # 0
  PROVE  NewSummary \in Summary /\ NewSummary.content = Branch(NewSummary.through)
<1>1. PICK t \in Units :
        /\ t = Greatest(pass.chunk) /\ t \in 1 .. Len(parent)
        /\ ContentOf(IndexOf(pass.previous)) \cup pass.chunk = Branch(t)
  BY ChunkFacts
<1>2. Len(parent) \in Nat /\ Len(parent) <= MaxUnits /\ MaxUnits \in Nat
  BY LenProperties, ConsolidationAssumption DEF SessionInv, Tree
<1>3. Branch(t) \in SUBSET Units
  BY <1>2 DEF Branch, Units
<1>4. leaf \in Units
  BY <1>2 DEF SessionInv, Tree, Units
<1>5. NextId \in Summaries
  BY DEF PassInv, PassReads
<1>6. pass.previous \in Summaries \cup {0}
  BY DEF PassInv, PassTyped
<1> QED BY <1>1, <1>3, <1>4, <1>5, <1>6 DEF NewSummary, Summary

LEMMA SummaryAdded ==
  ASSUME NEW n \in Nat, n = Len(summaries), SessionInv, PassInv, pass.pc = "generating", leaf # 0, Accepted(NewSummary),
         summaries' = Append(summaries, NewSummary), UNCHANGED <<parent, leaf>>,
         saved' \in {saved, Len(summaries')},
         everSaved' \in {everSaved, everSaved \cup {summaries'[i].id : i \in 1 .. Len(summaries')}}
  PROVE  /\ SessionInv'
         /\ Len(summaries') = n + 1
         /\ \A i \in 1 .. n : summaries'[i] = summaries[i] /\ Chunk(i)' = Chunk(i)
         /\ summaries'[n + 1] = NewSummary
         /\ Chunk(n + 1)' = pass.chunk
<1>1. PICK s \in Summary : s = NewSummary
  BY NewSummaryTyped
<1>2. /\ s.id = NextId /\ s.source = leaf /\ s.previous = pass.previous
      /\ s.content = ContentOf(IndexOf(s.previous)) \cup pass.chunk
      /\ s.content = Branch(s.through)
  BY <1>1, NewSummaryTyped DEF NewSummary
<1>3. n = Len(summaries)
  OBVIOUS
<1>4. /\ summaries' \in Seq(Summary) /\ Len(summaries') = n + 1
      /\ \A i \in 1 .. n : summaries'[i] = summaries[i]
      /\ summaries'[n + 1] = s
  <2>1. summaries \in Seq(Summary)
    BY DEF SessionInv, SummariesTyped
  <2> QED BY <1>1, <1>3, <2>1, AppendProperties
<1>5. \A i \in 1 .. n : summaries[i].id # s.id
  BY <1>2, <1>3, NextIdFresh DEF LiveIds, SessionInv
<1>6. SummariesTyped'
  <2>1. ASSUME NEW i \in 1 .. n + 1, NEW j \in 1 .. n + 1, summaries'[i].id = summaries'[j].id
        PROVE  i = j
    <3>1. CASE i \in 1 .. n /\ j \in 1 .. n
      BY <1>3, <1>4, <2>1, <3>1 DEF SessionInv, SummariesTyped
    <3>2. CASE i = n + 1 /\ j \in 1 .. n
      BY <1>4, <1>5, <2>1, <3>2
    <3>3. CASE i \in 1 .. n /\ j = n + 1
      BY <1>4, <1>5, <2>1, <3>3
    <3> QED BY <3>1, <3>2, <3>3
  <2>2. saved' \in 0 .. n + 1
    BY <1>3, <1>4 DEF SessionInv, SummariesTyped
  <2>3. {summaries'[i].id : i \in 1 .. Len(summaries')} \subseteq Summaries
    <3>1. \A i \in 1 .. Len(summaries') : summaries'[i] \in Summary
      BY <1>4, ElementOfSeq
    <3> QED BY <3>1 DEF Summary
  <2>4. everSaved' \subseteq Summaries
    BY <2>3 DEF SessionInv, SummariesTyped
  <2> QED BY <1>4, <2>1, <2>2, <2>4 DEF SummariesTyped
<1>7. Tree'
  BY DEF Tree, SessionInv
<1>8. \A u : Branch(u)' = Branch(u)
  BY BranchSame
<1>9. \A i \in 1 .. n : Sound(i)' /\ Chunk(i)' = Chunk(i)
  <2>1. n \in 0 .. Len(summaries) /\ n \in 0 .. Len(summaries')
    BY <1>3, <1>4
  <2>2. 1 .. Len(parent) \subseteq 1 .. Len(parent')
    OBVIOUS
  <2>3. \A u \in 0 .. Len(parent) : Branch(u)' = Branch(u)
    BY <1>8
  <2> QED BY <1>4, <1>6, <2>1, <2>2, <2>3, SummariesLater
<1>10. PICK covered \in Nat : Follows(s.previous, covered, Branch(leaf), n) /\ covered <= s.through
  <2>1. PICK u \in 0 .. Len(parent), covered \in {pass.covered} :
          Follows(s.previous, covered, Branch(u), n)
    BY <1>2, <1>3 DEF PassInv, PassReads
  <2>2. covered \in Nat /\ ThroughOf(s.previous) = covered
    <3>1. PICK id : id = s.previous
      OBVIOUS
    <3>2. n \in 0 .. Len(summaries) /\ Follows(id, covered, Branch(u), n)
      BY <1>3, <2>1, <3>1
    <3>3. covered \in Nat /\ ThroughOf(id) = covered
      BY <3>2, FollowsFacts
    <3> QED BY <3>1, <3>3
  <2>3. s.previous # 0 => covered \in Branch(leaf) /\ covered <= s.through
    BY <1>1, <1>2, <2>2 DEF Accepted
  <2>4. s.through \in Nat
    BY DEF Summary, Units
  <2> QED BY <2>1, <2>2, <2>3, <2>4 DEF Follows
<1>11. Follows(s.previous, covered, Branch(leaf), n)'
  <2>1. CASE s.previous = 0 /\ covered = 0
    BY <2>1 DEF Follows
  <2>2. ASSUME NEW j \in 1 .. n, summaries[j].id = s.previous, summaries[j].through = covered,
               covered \in Branch(leaf)
        PROVE  Follows(s.previous, covered, Branch(leaf), n)'
    BY <1>4, <1>8, <2>2 DEF Follows
  <2> QED BY <1>10, <2>1, <2>2 DEF Follows
<1>12. Sound(n + 1)'
  <2>1. leaf \in 1 .. Len(parent)
    BY LenProperties DEF SessionInv, Tree
  <2>2. s.through \in Branch(leaf)
    BY <1>1, <1>2 DEF Accepted
  <2>3. Branch(s.through)' = Branch(s.through)
    BY BranchSame
  <2>4. Branch(leaf)' = Branch(leaf)
    BY DEF Branch, Upward
  <2>5. (n + 1) - 1 = n /\ covered \in 0 .. s.through
    <3>1. s.through \in Nat
      BY DEF Summary, Units
    <3> QED BY <1>10, <3>1
  <2>6. Follows(s.previous, covered, Branch(s.source), n)'
    BY <1>2, <1>11
  <2> QED BY <1>2, <1>4, <2>1, <2>2, <2>3, <2>4, <2>5, <2>6 DEF Sound
<1>13. ContentOf(IndexOf(s.previous))' = ContentOf(IndexOf(s.previous))
  <2>1. CASE s.previous = 0
    <3>1. ContentOf(IndexOf(0))' = ContentOf(IndexOf(0))
      BY NoneLater, IndexFacts DEF SessionInv
    <3> QED BY <2>1, <3>1
  <2>2. ASSUME NEW j \in 1 .. n, summaries[j].id = s.previous
        PROVE  ContentOf(IndexOf(s.previous))' = ContentOf(IndexOf(s.previous))
    <3>1. PICK t, id : t = summaries[j] /\ t = summaries'[j] /\ id = t.id /\ id = s.previous
      BY <1>4, <2>2
    <3>2. j \in 1 .. Len(summaries) /\ j \in 1 .. Len(summaries')
      BY <1>3, <1>4
    <3>3. IndexOf(id) = j /\ ContentOf(j) = t.content
      BY <3>1, <3>2, IndexFacts DEF SessionInv
    <3>4. IndexOf(id)' = j /\ ContentOf(j)' = t.content
      BY <1>6, <3>1, <3>2, IndexLater
    <3>5. ContentOf(IndexOf(id))' = ContentOf(IndexOf(id))
      BY <3>3, <3>4 DEF ContentOf
    <3> QED BY <3>1, <3>5
  <2> QED BY <1>10, <2>1, <2>2 DEF Follows
<1>14. Chunk(n + 1)' = pass.chunk
  <2>1. PICK c, d : c = ContentOf(IndexOf(s.previous)) /\ d = pass.chunk
    OBVIOUS
  <2>2. Chunk(n + 1)' = s.content \ c
    BY <1>4, <1>13, <2>1 DEF Chunk
  <2>3. d \cap c = {} /\ s.content = c \cup d
    BY <1>2, <2>1, ChunkFacts
  <2>4. s.content \ c = d
    BY <2>3
  <2> QED BY <2>1, <2>2, <2>4
<1>15. \A i \in 1 .. Len(summaries') : Sound(i)'
  BY <1>4, <1>9, <1>12
<1>16. SessionInv'
  BY <1>6, <1>7, <1>15 DEF SessionInv
<1> QED BY <1>1, <1>4, <1>9, <1>14, <1>16

\* The steps that change the Session.
LEMMA SessionMoves ==
  ASSUME ConsolidationNext
  PROVE  \/ RecordSummary \/ RecordRaises \/ Save \/ Clear \/ Die
         \/ \E u \in 0 .. Len(parent) : Checkout(u)
         \/ UNCHANGED <<session, everSaved>>
<1>1. CASE PassStep
  BY <1>1 DEF PassStep, EstimateEnds, EstimateTooLarge, PickBoundary, PickNothing, GenerateFails,
     EnqueueMemory, EnqueueMemoryFails
<1>2. CASE BeginRun \/ Prepare \/ ResumeRun \/ RunEnds \/ BackgroundBegins
  BY <1>2 DEF BeginRun, Prepare, ResumeRun, RunEnds, BackgroundBegins
<1> QED BY <1>1, <1>2 DEF ConsolidationNext

LEMMA SessionKept ==
  ASSUME ConsInv, ConsolidationNext
  PROVE  SessionInv'
<1>1. SessionInv /\ PassInv /\ leaf \in 0 .. Len(parent) /\ saved \in 0 .. Len(summaries)
      /\ Len(summaries) \in Nat
  BY SummaryTypes DEF ConsInv, SessionInv, Tree, SummariesTyped
<1>2. PICK n \in Nat : n = Len(summaries)
  BY <1>1
<1>3. CASE RecordSummary
  BY <1>1, <1>2, <1>3, SummaryAdded DEF RecordSummary
<1>4. CASE RecordRaises
  <2>1. CASE UNCHANGED summaries
    <3>1. UNCHANGED <<parent, summaries, leaf, saved, everSaved>>
      BY <1>4, <2>1 DEF RecordRaises
    <3> QED BY <1>1, <3>1, SessionSame
  <2>2. CASE summaries' = Append(summaries, NewSummary) /\ Accepted(NewSummary)
    <3>1. UNCHANGED <<parent, leaf, saved, everSaved>> /\ pass.pc = "generating" /\ leaf # 0
      BY <1>4 DEF RecordRaises
    <3> QED BY <1>1, <1>2, <2>2, <3>1, SummaryAdded
  <2> QED BY <1>4, <2>1, <2>2 DEF RecordRaises
<1>5. CASE Save
  BY <1>1, <1>5, SessionGrows DEF Save
<1>6. ASSUME NEW u \in 0 .. Len(parent), Checkout(u) PROVE SessionInv'
  <2>1. Len(summaries) \in 0 .. Len(summaries)
    BY <1>1
  <2> QED BY <1>1, <1>6, <2>1, SessionSame DEF Checkout
<1>7. CASE Clear
  <2>1. parent' = <<>> /\ leaf' = 0 /\ summaries' = <<>> /\ saved' = 0 /\ everSaved' = everSaved
    BY <1>7 DEF Clear
  <2>2. <<>> \in Seq(Nat) /\ <<>> \in Seq(Summary) /\ Len(<<>>) = 0
    OBVIOUS
  <2>3. MaxUnits \in Nat
    BY ConsolidationAssumption
  <2>4. Tree'
    BY <2>1, <2>2, <2>3 DEF Tree
  <2>5. SummariesTyped'
    BY <1>1, <2>1, <2>2 DEF SummariesTyped, SessionInv
  <2> QED BY <2>1, <2>2, <2>4, <2>5 DEF SessionInv
<1>8. CASE Die
  BY <1>1, <1>8, SessionCut DEF Die
<1>9. CASE UNCHANGED <<session, everSaved>>
  BY <1>1, <1>9, SessionSame DEF session
<1> QED BY <1>3, <1>4, <1>5, <1>6, <1>7, <1>8, <1>9, SessionMoves

\* Whatever a step does, the branches there are stay, or the Session is cleared.
LEMMA BranchesLater ==
  ASSUME ConsInv, ConsolidationNext
  PROVE  \/ Clear
         \/ /\ \A u \in 0 .. Len(parent) : Branch(u)' = Branch(u)
            /\ 0 .. Len(parent) \subseteq 0 .. Len(parent')
<1>1. CASE Save
  BY <1>1, SessionGrows DEF ConsInv, Save
<1>2. CASE UNCHANGED parent
  BY <1>2, BranchSame
<1>3. UNCHANGED parent \/ Save \/ Clear
  BY SessionMoves DEF RecordSummary, RecordRaises, Checkout, Die, session
<1> QED BY <1>1, <1>2, <1>3

--------------------------------------------------------------------------------
(* The run in every step *)

LEMMA RunMoves ==
  ASSUME ConsolidationNext
  PROVE  \/ run' \in {run, NoRun}
         \/ run' = Running /\ UNCHANGED <<session, everSaved>>
         \/ run' = [NoRun EXCEPT !.pc = "preparing", !.base = leaf]
         \/ run.pc = "preparing" /\ run' = [run EXCEPT !.pc = "consolidating"]
<1>1. CASE PassStep
  <2>1. CASE EstimateEnds \/ PickNothing \/ GenerateFails
    BY <2>1 DEF EstimateEnds, PickNothing, GenerateFails, Return
  <2>2. CASE RecordRaises
    BY <2>2 DEF RecordRaises, Raise
  <2> QED BY <1>1, <2>1, <2>2 DEF PassStep, EstimateTooLarge, PickBoundary, RecordSummary,
             EnqueueMemory, EnqueueMemoryFails
<1> QED BY <1>1 DEF ConsolidationNext, BeginRun, Prepare, ResumeRun, Save, RunEnds, BackgroundBegins,
           Checkout, Clear, Die, tasks

LEMMA RunKept ==
  ASSUME ConsInv, ConsolidationNext
  PROVE  RunInv'
<1>1. SessionInv /\ RunInv /\ RunTyped
  BY DEF ConsInv, RunInv
<1>2. CASE run' = NoRun
  <2>1. run'.pc = "none" /\ RunTyped'
    BY <1>2 DEF NoRun, NoContext, RunTyped
  <2> QED BY <2>1 DEF RunInv, ContextComplete
<1>3. CASE run' = run /\ run.pc # "running"
  BY <1>1, <1>3 DEF RunInv, RunTyped, ContextComplete
<1>4. CASE run' = run /\ run.pc = "running"
  <2>1. ~Clear
    BY <1>4 DEF Clear, NoRun
  <2>2. PICK b \in 0 .. Len(parent) : b = run.base
    BY <1>1, <1>4 DEF RunInv
  <2>3. Branch(b)' = Branch(b) /\ b \in 0 .. Len(parent')
    BY <2>1, BranchesLater
  <2>4. /\ run'.context.content \cup run'.context.tail = Branch(b)'
        /\ run'.context.content \cap run'.context.tail = {}
    BY <1>1, <1>4, <2>2, <2>3 DEF RunInv, ContextComplete
  <2>5. RunTyped'
    BY <1>1, <1>4 DEF RunTyped
  <2>6. b = run'.base
    BY <1>4, <2>2
  <2>7. ContextComplete'
    BY <2>4, <2>6 DEF ContextComplete, Branch
  <2> QED BY <2>3, <2>5, <2>6, <2>7 DEF RunInv
<1>5. CASE run' = Running /\ UNCHANGED <<session, everSaved>>
  <2>1. PICK b \in 0 .. Len(parent) : b = leaf
    BY <1>1 DEF SessionInv, Tree
  <2>2. PICK c : c = ContextOf(Branch(b))
    OBVIOUS
  <2>3. c.content \cup c.tail = Branch(b) /\ c.content \cap c.tail = {}
    BY <1>1, <2>2, ContextIsBranch
  <2>4. run' = [pc |-> "running", base |-> b, context |-> c]
    BY <1>5, <2>1, <2>2 DEF Running
  <2>5. Branch(b)' = Branch(b) /\ b \in 0 .. Len(parent')
    BY <1>5, BranchSame DEF session
  <2>6. Branch(b) \in SUBSET Units /\ Len(parent) \in Nat
    <3>1. Len(parent) \in Nat /\ Len(parent) <= MaxUnits /\ MaxUnits \in Nat
      BY <1>1, LenProperties, ConsolidationAssumption DEF SessionInv, Tree
    <3> QED BY <3>1 DEF Branch, Units
  <2>7. c = [content |-> c.content, tail |-> c.tail]
    BY <2>2 DEF ContextOf
  <2>8. c \in [content : SUBSET Units, tail : SUBSET Units]
    BY <2>3, <2>6, <2>7
  <2>9. RunTyped'
    BY <2>4, <2>6, <2>8 DEF RunTyped
  <2>10. run'.pc = "running" /\ run'.base = b /\ run'.context = c
    BY <2>4
  <2>11. ContextComplete'
    BY <2>3, <2>5, <2>10 DEF ContextComplete, Branch
  <2> QED BY <2>5, <2>9, <2>10, <2>11 DEF RunInv
<1>6. CASE run' = [NoRun EXCEPT !.pc = "preparing", !.base = leaf]
  <2>1. leaf \in Nat
    BY <1>1 DEF SessionInv, Tree
  <2>2. run'.pc = "preparing" /\ RunTyped'
    BY <1>6, <2>1 DEF NoRun, NoContext, RunTyped
  <2> QED BY <2>2 DEF RunInv, ContextComplete
<1>7. CASE run.pc = "preparing" /\ run' = [run EXCEPT !.pc = "consolidating"]
  <2>1. run'.pc = "consolidating" /\ RunTyped'
    BY <1>1, <1>7 DEF RunTyped
  <2> QED BY <2>1 DEF RunInv, ContextComplete
<1> QED BY <1>2, <1>3, <1>4, <1>5, <1>6, <1>7, RunMoves

--------------------------------------------------------------------------------
(* The pass in every step *)

LEMMA PassEnds ==
  ASSUME pass' = NoPass \/ pass' = Entered("run") \/ pass' = Entered("background")
  PROVE  PassInv'
<1>1. PICK o \in {"none", "run", "background"}, pc \in {"none", "estimating"}, r \in Nat :
        pass' = [owner |-> o, pc |-> pc, round |-> r, path |-> {}, previous |-> 0,
                 covered |-> 0, chunk |-> {}]
  <2>1. CASE pass' = NoPass
    BY <2>1 DEF NoPass
  <2>2. ASSUME NEW o \in {"run", "background"}, pass' = Entered(o)
        PROVE  pass' = [owner |-> o, pc |-> "estimating", round |-> 1, path |-> {},
                        previous |-> 0, covered |-> 0, chunk |-> {}]
    BY <2>2 DEF NoPass, Entered
  <2> QED BY <2>1, <2>2 DEF NoPass
<1>2. PassTyped' /\ pass'.pc = pc
  BY <1>1 DEF PassTyped
<1> QED BY <1>2 DEF PassInv

\* The next round keeps nothing of the pass but its number.
LEMMA PassGoesOn ==
  ASSUME PassInv, NextRound
  PROVE  PassInv'
<1>1. pass.round \in Nat /\ pass.round + 1 \in Nat
  BY DEF PassInv, PassTyped
<1>2. pass'.pc = "estimating"
  BY DEF PassInv, PassTyped, NextRound
<1>3. PassTyped'
  BY <1>1 DEF PassInv, PassTyped, NextRound
<1> QED BY <1>2, <1>3 DEF PassInv

\* While a pass waits for an answer, the tree may grow and the leaf may move.
LEMMA PassWaits ==
  ASSUME PassInv, UNCHANGED pass, pass.pc # "enqueuing", UNCHANGED <<summaries, inbox>>,
         everSaved' \in {everSaved, everSaved \cup LiveIds},
         \A u \in 0 .. Len(parent) : Branch(u)' = Branch(u),
         0 .. Len(parent) \subseteq 0 .. Len(parent')
  PROVE  PassInv'
<1>1. ASSUME PassReads PROVE PassReads'
  <2>1. NextId' = NextId
    BY NextIdSame
  <2>2. PICK u \in 0 .. Len(parent) :
          pass.path = Branch(u) /\ Follows(pass.previous, pass.covered, Branch(u), Len(summaries))
    BY <1>1 DEF PassReads
  <2>3. u \in 0 .. Len(parent') /\ Branch(u)' = Branch(u)
    OBVIOUS
  <2>4. Follows(pass.previous, pass.covered, Branch(u), Len(summaries))'
    BY <2>2, <2>3 DEF Follows
  <2> QED BY <1>1, <2>1, <2>2, <2>3, <2>4 DEF PassReads
<1>2. PassTyped' /\ (PassPicked => PassPicked')
  BY DEF PassInv, PassTyped, PassPicked
<1> QED BY <1>1, <1>2 DEF PassInv

\* The branch is read with the summary it is resolved to.
LEMMA PassPicks ==
  ASSUME SessionInv, PassInv, EstimateTooLarge
  PROVE  PassInv'
<1>1. PICK u \in 0 .. Len(parent) : u = leaf
  BY DEF SessionInv, Tree
<1>2. PICK path : path = Branch(u)
  OBVIOUS
<1>3. PICK i : i = Resolved(path)
  OBVIOUS
<1>4. i = 0 \/ (i \in 1 .. Len(summaries) /\ summaries[i].through \in path)
  BY <1>2, <1>3, ResolvedFacts
<1>5. PICK id, covered : id = (IF i = 0 THEN 0 ELSE summaries[i].id) /\ covered = CoveredBy(i)
  OBVIOUS
<1>6. pass' = [pass EXCEPT !.pc = "picking", !.path = path, !.previous = id, !.covered = covered]
  BY <1>1, <1>2, <1>3, <1>5 DEF EstimateTooLarge
<1>7. UNCHANGED <<parent, summaries, inbox, everSaved>> /\ NextId \in Summaries
  BY DEF EstimateTooLarge, vars, files, session
<1>8. Follows(id, covered, path, Len(summaries))
  BY <1>4, <1>5, IndexFacts DEF Follows, SessionInv
<1>9. path \in SUBSET Units /\ id \in Summaries \cup {0} /\ covered \in Nat
  <2>1. Len(parent) \in Nat /\ Len(parent) <= MaxUnits /\ MaxUnits \in Nat
    BY LenProperties, ConsolidationAssumption DEF SessionInv, Tree
  <2>2. path \in SUBSET Units
    BY <1>2, <2>1 DEF Branch, Units
  <2>3. CASE i = 0
    BY <1>5, <2>2, <2>3, IndexFacts DEF SessionInv
  <2>4. CASE i \in 1 .. Len(summaries)
    <3>1. i # 0 /\ summaries[i].id \in Summaries /\ CoveredBy(i) = summaries[i].through
          /\ summaries[i].through \in Units
      BY <2>4, IndexFacts, SummaryTypes DEF SessionInv
    <3> QED BY <1>5, <2>2, <3>1 DEF Units
  <2> QED BY <1>4, <2>3, <2>4
<1>10. PassTyped' /\ pass'.pc = "picking" /\ pass'.path = path /\ pass'.previous = id
       /\ pass'.covered = covered
  BY <1>6, <1>9 DEF PassInv, PassTyped
<1>11. PassReads'
  <2>1. NextId' = NextId
    BY <1>7, NextIdSame
  <2>2. Branch(u)' = path /\ u \in 0 .. Len(parent')
    BY <1>2, <1>7, BranchSame
  <2>3. PICK n : n = Len(summaries)
    OBVIOUS
  <2>4. Follows(id, covered, path, n)' /\ n = Len(summaries')
    BY <1>7, <1>8, <2>3 DEF Follows
  <2>5. Follows(pass.previous, pass.covered, Branch(u), Len(summaries))'
    BY <1>10, <2>2, <2>4 DEF Follows
  <2> QED BY <1>7, <1>10, <2>1, <2>2, <2>5 DEF PassReads
<1> QED BY <1>10, <1>11 DEF PassInv

\* A chunk is whole units behind the covered ones, up to a later one.
LEMMA PassBounds ==
  ASSUME SessionInv, PassInv, NEW chunk, PickBoundary(chunk)
  PROVE  PassInv'
<1>1. PICK u \in 0 .. Len(parent) :
        pass.path = Branch(u) /\ Follows(pass.previous, pass.covered, Branch(u), Len(summaries))
  BY DEF PassInv, PassReads, PickBoundary
<1>2. PICK c, path : c = pass.covered /\ path = pass.path
  OBVIOUS
<1>3. /\ UNCHANGED <<parent, summaries, inbox, everSaved>>
      /\ pass' = [pass EXCEPT !.pc = "generating", !.chunk = chunk]
      /\ pass.pc = "picking" /\ chunk \in Chunks
  BY DEF PickBoundary, vars, files, session
<1>4. PICK next \in After(path, c) :
        /\ \E v \in After(path, c) : v < next
        /\ chunk = {v \in After(path, c) : v < next}
  BY <1>2, <1>3 DEF Chunks
<1>5. path \in SUBSET Units /\ c \in Nat
  BY <1>2 DEF PassInv, PassTyped
<1>6. chunk = {v \in path : c < v /\ v < next} /\ chunk # {} /\ next \in path /\ chunk \in SUBSET Units
  BY <1>4, <1>5 DEF After, Units
<1>7. /\ PassTyped' /\ pass'.pc = "generating" /\ pass'.path = path /\ pass'.covered = c
      /\ pass'.previous = pass.previous /\ pass'.chunk = chunk
  BY <1>2, <1>3, <1>6 DEF PassInv, PassTyped
<1>8. PassPicked'
  BY <1>6, <1>7 DEF PassPicked
<1>9. PassReads'
  <2>1. NextId' = NextId /\ NextId \in Summaries
    BY <1>3, NextIdSame DEF PassInv, PassReads
  <2>2. Branch(u)' = Branch(u) /\ u \in 0 .. Len(parent')
    BY <1>3, BranchSame
  <2>3. Follows(pass.previous, pass.covered, Branch(u), Len(summaries))'
    BY <1>1, <1>2, <1>3, <1>7, <2>2 DEF Follows
  <2> QED BY <1>1, <1>2, <1>7, <2>1, <2>2, <2>3 DEF PassReads
<1> QED BY <1>7, <1>8, <1>9 DEF PassInv

\* The summary is recorded, and not queued yet.
LEMMA PassRecords ==
  ASSUME SessionInv, PassInv, RecordSummary
  PROVE  PassInv'
<1>1. PICK n \in Nat : n = Len(summaries)
  BY SummaryTypes DEF SessionInv
<1>2. /\ Len(summaries') = n + 1
      /\ summaries'[n + 1] = NewSummary
      /\ Chunk(n + 1)' = pass.chunk
      /\ SessionInv'
  BY <1>1, SummaryAdded DEF RecordSummary
<1>3. /\ PassTyped' /\ pass'.pc = "enqueuing" /\ pass'.chunk = pass.chunk
      /\ UNCHANGED inbox
  BY DEF RecordSummary, PassInv, PassTyped, vars, files
<1>4. PICK id \in Summaries : id = NewSummary.id /\ ~Queued(id)
  BY NextIdFresh DEF PassInv, PassReads, RecordSummary, SessionInv, NewSummary
<1>5. ~Queued(LastSummary.id)'
  <2>1. LastSummary' = NewSummary
    BY <1>2 DEF LastSummary
  <2>2. (LastSummary.id)' = id
    BY <1>4, <2>1
  <2>3. ~Queued(id)'
    BY <1>3, <1>4 DEF Queued, Lines
  <2> QED BY <2>2, <2>3 DEF Queued
<1>6. summaries' # <<>>
  BY <1>1, <1>2
<1>7. PICK k : k = n + 1
  OBVIOUS
<1>8. Chunk(k)' = pass'.chunk /\ k = Len(summaries')
  BY <1>2, <1>3, <1>7
<1>9. PassQueues'
  BY <1>5, <1>6, <1>8 DEF PassQueues
<1> QED BY <1>3, <1>9 DEF PassInv

LEMMA PassMoves ==
  ASSUME ConsolidationNext
  PROVE  \/ pass' \in {NoPass, Entered("run"), Entered("background")}
         \/ NextRound
         \/ EstimateTooLarge
         \/ \E chunk : PickBoundary(chunk)
         \/ RecordSummary
         \/ /\ UNCHANGED <<pass, summaries, inbox>> /\ pass.pc # "enqueuing" /\ ~Clear
            /\ everSaved' \in {everSaved, everSaved \cup LiveIds}
<1>1. CASE PassStep
  BY <1>1 DEF PassStep, EstimateEnds, PickNothing, GenerateFails, Return, RecordRaises, Raise,
     EnqueueMemory, EnqueueMemoryFails
<1>2. CASE Prepare \/ BackgroundBegins
  BY <1>2 DEF Prepare, BackgroundBegins, EnterPass
<1>3. CASE Clear \/ Die
  BY <1>3 DEF Clear, Die
<1>4. CASE RunEnds
  <2>1. UNCHANGED <<summaries, inbox, parent, everSaved>> /\ pass.pc # "enqueuing"
        /\ pass' \in {NoPass, pass}
    BY <1>4 DEF RunEnds, Suspended, StoreUnchanged, files, session
  <2>2. Clear => pass' = NoPass
    BY DEF Clear
  <2> QED BY <2>1, <2>2
<1>5. ASSUME BeginRun \/ ResumeRun \/ Save \/ \E u \in 0 .. Len(parent) : Checkout(u)
      PROVE  /\ UNCHANGED <<pass, summaries, inbox>> /\ pass.pc # "enqueuing"
             /\ everSaved' \in {everSaved, everSaved \cup LiveIds}
  BY <1>5 DEF BeginRun, ResumeRun, Save, Checkout, Suspended, StoreUnchanged, files, session, tasks
<1>6. Clear => pass' = NoPass
  BY DEF Clear
<1> QED BY <1>1, <1>2, <1>3, <1>4, <1>5, <1>6 DEF ConsolidationNext

LEMMA PassKept ==
  ASSUME ConsInv, ConsolidationNext
  PROVE  PassInv'
<1>1. SessionInv /\ PassInv
  BY DEF ConsInv
<1>2. CASE pass' \in {NoPass, Entered("run"), Entered("background")}
  BY <1>2, PassEnds
<1>3. CASE NextRound
  BY <1>1, <1>3, PassGoesOn
<1>4. CASE EstimateTooLarge
  BY <1>1, <1>4, PassPicks
<1>5. ASSUME NEW chunk, PickBoundary(chunk) PROVE PassInv'
  BY <1>1, <1>5, PassBounds
<1>6. CASE RecordSummary
  BY <1>1, <1>6, PassRecords
<1>7. CASE /\ UNCHANGED <<pass, summaries, inbox>> /\ pass.pc # "enqueuing" /\ ~Clear
           /\ everSaved' \in {everSaved, everSaved \cup LiveIds}
  BY <1>1, <1>7, BranchesLater, PassWaits
<1> QED BY <1>2, <1>3, <1>4, <1>5, <1>6, <1>7, PassMoves

--------------------------------------------------------------------------------
(* The inbox *)

\* Entries of summaries that are not queued, no two of the same.
LEMMA EntriesAdded ==
  ASSUME inbox \in Seq(Entry), OncePerSummary, NEW added \in Seq(Entry), inbox' = inbox \o added,
         \A i, j \in 1 .. Len(added) : added[i].summary = added[j].summary => i = j,
         \A i \in 1 .. Len(added) : ~Queued(added[i].summary)
  PROVE  /\ inbox' \in Seq(Entry) /\ OncePerSummary'
         /\ \A s : Queued(s)' <=> Queued(s) \/ \E i \in 1 .. Len(added) : added[i].summary = s
<1>1. PICK n \in Nat, m \in Nat : n = Len(inbox) /\ m = Len(added)
  BY LenProperties
<1>2. /\ inbox' \in Seq(Entry) /\ Len(inbox') = n + m
      /\ \A i \in 1 .. n + m : inbox'[i] = IF i <= n THEN inbox[i] ELSE added[i - n]
  BY <1>1, ConcatProperties
<1>3. \A i \in 1 .. n + m : \/ i \in 1 .. n /\ inbox'[i] = inbox[i]
                            \/ i - n \in 1 .. m /\ inbox'[i] = added[i - n]
  BY <1>2
<1>4. ASSUME NEW i \in 1 .. n, NEW j \in 1 .. m
      PROVE  inbox[i].summary # added[j].summary
  <2>1. ~Queued(added[j].summary) /\ inbox[i] \in Lines
    BY <1>1 DEF Lines
  <2> QED BY <2>1 DEF Queued
<1>5. OncePerSummary'
  <2> SUFFICES ASSUME NEW i \in 1 .. n + m, NEW j \in 1 .. n + m,
                      inbox'[i].summary = inbox'[j].summary
               PROVE  i = j
    BY <1>2 DEF OncePerSummary
  <2>1. CASE i \in 1 .. n /\ inbox'[i] = inbox[i] /\ j \in 1 .. n /\ inbox'[j] = inbox[j]
    BY <1>1, <2>1 DEF OncePerSummary
  <2>2. CASE i - n \in 1 .. m /\ inbox'[i] = added[i - n] /\ j - n \in 1 .. m /\ inbox'[j] = added[j - n]
    <3>1. i - n = j - n
      BY <1>1, <2>2
    <3> QED BY <3>1
  <2> QED BY <1>3, <1>4, <2>1, <2>2
<1>6. ASSUME NEW s
      PROVE  Queued(s)' <=> Queued(s) \/ \E i \in 1 .. Len(added) : added[i].summary = s
  <2>1. ASSUME NEW i \in 1 .. n + m, inbox'[i].summary = s
        PROVE  Queued(s) \/ \E k \in 1 .. m : added[k].summary = s
    BY <1>1, <1>3, <2>1 DEF Queued, Lines
  <2>2. ASSUME NEW i \in 1 .. n, inbox[i].summary = s
        PROVE  \E k \in 1 .. n + m : inbox'[k].summary = s
    <3>1. i \in 1 .. n + m /\ inbox'[i] = inbox[i]
      BY <1>2
    <3> QED BY <2>2, <3>1
  <2>3. ASSUME NEW i \in 1 .. m, added[i].summary = s
        PROVE  \E k \in 1 .. n + m : inbox'[k].summary = s
    <3>1. n + i \in 1 .. n + m /\ ~(n + i <= n) /\ (n + i) - n = i
      BY <1>1
    <3>2. inbox'[n + i] = added[i]
      BY <1>2, <3>1
    <3> QED BY <2>3, <3>1, <3>2
  <2>4. Queued(s)' <=> \E k \in 1 .. n + m : inbox'[k].summary = s
    BY <1>2 DEF Queued, Lines
  <2>5. Queued(s) <=> \E k \in 1 .. n : inbox[k].summary = s
    BY <1>1 DEF Queued, Lines
  <2> QED BY <1>1, <2>1, <2>2, <2>3, <2>4, <2>5
<1> QED BY <1>2, <1>5, <1>6

\* One entry is appended.
LEMMA EntryAdded ==
  ASSUME StoreInv, NEW id \in Summaries, ~Queued(id), AppendLine(NewEntry(id))
  PROVE  /\ inbox' \in Seq(Entry) /\ torn' = FALSE /\ OncePerSummary'
         /\ \A s : Queued(s)' <=> Queued(s) \/ s = id
<1>1. PICK e \in Entry : e = NewEntry(id) /\ e.summary = id
  <2>1. LastCursor \in Nat /\ dreamCursor \in Nat
    <3>1. CASE inbox = <<>>
      BY <3>1 DEF LastCursor, StoreInv
    <3>2. CASE inbox # <<>>
      <4>1. Len(inbox) \in 1 .. Len(inbox)
        BY <3>2, EmptySeq DEF StoreInv
      <4>2. inbox[Len(inbox)] \in Entry
        BY <4>1, ElementOfSeq DEF StoreInv
      <4> QED BY <3>2, <4>2 DEF LastCursor, Entry, StoreInv
    <3> QED BY <3>1, <3>2
  <2>2. NewEntry(id) \in Entry /\ NewEntry(id).summary = id
    BY <2>1 DEF NewEntry, Entry
  <2> QED BY <2>2
<1>2. inbox' = Append(inbox, e) /\ torn' = FALSE
  BY <1>1 DEF AppendLine, StoreInv
<1>3. PICK added \in Seq(Entry) : added = <<e>> /\ Len(added) = 1 /\ added[1] = e
  <2>1. <<e>> \in Seq(Entry) /\ Len(<<e>>) = 1 /\ <<e>>[1] = e
    OBVIOUS
  <2> QED BY <2>1, Zenon
<1>4. inbox' = inbox \o added
  BY <1>2, <1>3, AppendIsConcat DEF StoreInv
<1>5. 1 \in 1 .. Len(added) /\ \A i \in 1 .. Len(added) : i = 1 /\ added[i].summary = id
  BY <1>1, <1>3
<1>6. inbox \in Seq(Entry) /\ OncePerSummary
  BY DEF StoreInv
<1>7. /\ inbox' \in Seq(Entry) /\ OncePerSummary'
      /\ \A s : Queued(s)' <=> Queued(s) \/ \E i \in 1 .. Len(added) : added[i].summary = s
  BY <1>4, <1>5, <1>6, EntriesAdded
<1>8. ASSUME NEW s PROVE Queued(s)' <=> Queued(s) \/ s = id
  <2>1. Queued(s)' <=> Queued(s) \/ \E i \in 1 .. Len(added) : added[i].summary = s
    BY <1>7
  <2>2. (\E i \in 1 .. Len(added) : added[i].summary = s) <=> s = id
    BY <1>5
  <2> QED BY <2>1, <2>2
<1> QED BY <1>2, <1>7, <1>8

\* _reconcile_memory queues every summary of the Session that is not queued and does
\* not fail, each with what it was made of.
LEMMA ReconcileAdds ==
  ASSUME SessionInv, StoreInv, NEW failing, Reconcile(failing)
  PROVE  /\ inbox' \in Seq(Entry) /\ OncePerSummary'
         /\ \A s : Queued(s)' <=> Queued(s) \/ s \in Missing(failing)
<1>0. PICK n \in Nat : n = Len(summaries)
  BY SummaryTypes DEF SessionInv
<1>1. PICK M \in SUBSET (1 .. n) : M = {i \in 1 .. Len(summaries) : summaries[i].id \in Missing(failing)}
  <2>1. {i \in 1 .. Len(summaries) : summaries[i].id \in Missing(failing)} \in SUBSET (1 .. n)
    BY <1>0
  <2> QED BY <2>1, Zenon
<1>2. PICK m \in Nat : m = Cardinality(M)
  <2>1. IsFiniteSet(M)
    BY CountFacts
  <2> QED BY <2>1, FS_CardinalityType
<1>3. \A k \in 1 .. m : Nth(M, k) \in M /\ Cardinality(M \cap (1 .. Nth(M, k))) = k
  <2> SUFFICES ASSUME NEW k \in 1 .. m
               PROVE  Nth(M, k) \in M /\ Cardinality(M \cap (1 .. Nth(M, k))) = k
    OBVIOUS
  <2>1. k \in 1 .. Cardinality(M)
    BY <1>2
  <2> QED BY <2>1, NthExists
<1>4. PICK todo : todo = Chosen(summaries, M)
  OBVIOUS
<1>5. /\ todo = [k \in 1 .. m |-> summaries[Nth(M, k)]]
      /\ Len(todo) = m
      /\ \A k \in 1 .. m : todo[k] = summaries[Nth(M, k)]
  BY <1>2, <1>4 DEF Chosen
<1>6. PICK c \in Nat : c > 0 /\ \A s : NewEntry(s) = [cursor |-> c, summary |-> s]
  <2>1. LastCursor \in Nat /\ dreamCursor \in Nat
    <3>1. CASE inbox = <<>>
      BY <3>1 DEF LastCursor, StoreInv
    <3>2. CASE inbox # <<>>
      <4>1. Len(inbox) \in 1 .. Len(inbox)
        BY <3>2, EmptySeq DEF StoreInv
      <4>2. inbox[Len(inbox)] \in Entry
        BY <4>1, ElementOfSeq DEF StoreInv
      <4> QED BY <3>2, <4>2 DEF LastCursor, Entry, StoreInv
    <3> QED BY <3>1, <3>2
  <2> DEFINE d == 1 + (IF dreamCursor > LastCursor THEN dreamCursor ELSE LastCursor)
  <2>2. d \in Nat /\ d > 0
    BY <2>1
  <2>3. \A s : NewEntry(s) = [cursor |-> d, summary |-> s]
    BY DEF NewEntry
  <2> HIDE DEF d
  <2> QED BY <2>2, <2>3
<1>7. PICK added : added = [i \in 1 .. Len(todo) |-> [NewEntry(todo[i].id) EXCEPT !.cursor = @ + i - 1]]
  OBVIOUS
<1>8. ASSUME NEW k \in 1 .. m
      PROVE  /\ added[k] = [cursor |-> c + k - 1, summary |-> todo[k].id]
             /\ added[k].summary = todo[k].id
  BY <1>5, <1>6, <1>7
<1>9. added \in Seq(Entry) /\ Len(added) = m
  <2>1. ASSUME NEW k \in 1 .. m PROVE added[k] \in Entry
    <3>1. PICK i \in M : i = Nth(M, k)
      BY <1>3
    <3>2. todo[k] = summaries[i] /\ i \in 1 .. n
      BY <1>5, <3>1
    <3>3. todo[k].id \in Summaries
      BY <1>0, <3>2, SummaryTypes DEF SessionInv
    <3>4. c + k - 1 \in Nat \ {0}
      BY <1>6
    <3>5. added[k] = [cursor |-> c + k - 1, summary |-> todo[k].id]
      BY <1>8
    <3> QED BY <3>3, <3>4, <3>5 DEF Entry
  <2>2. added \in [1 .. m -> Entry]
    BY <1>5, <1>7, <2>1
  <2> QED BY <2>2
<1>10. ASSUME NEW k \in 1 .. m
       PROVE  \E i \in M : i = Nth(M, k) /\ added[k].summary = summaries[i].id
  <2>1. PICK i \in M : i = Nth(M, k)
    BY <1>3
  <2>2. todo[k] = summaries[i] /\ added[k].summary = todo[k].id
    BY <1>5, <1>8, <2>1
  <2> QED BY <2>1, <2>2
<1>11. ASSUME NEW j \in 1 .. Len(added), NEW k \in 1 .. Len(added), added[j].summary = added[k].summary
       PROVE  j = k
  <2>1. j \in 1 .. m /\ k \in 1 .. m
    BY <1>9
  <2>2. PICK a \in M : a = Nth(M, j) /\ added[j].summary = summaries[a].id
    BY <1>10, <2>1
  <2>3. PICK b \in M : b = Nth(M, k) /\ added[k].summary = summaries[b].id
    BY <1>10, <2>1
  <2>4. a = b
    BY <1>0, <1>11, <2>2, <2>3 DEF SessionInv, SummariesTyped
  <2> QED BY <1>3, <2>1, <2>2, <2>3, <2>4
<1>12. \A i \in M : summaries[i].id \in Missing(failing)
  BY <1>1
<1>13. ASSUME NEW k \in 1 .. Len(added) PROVE ~Queued(added[k].summary)
  BY <1>9, <1>10, <1>12 DEF Missing
<1>14. inbox' = inbox \o added
  BY <1>1, <1>4, <1>7 DEF Reconcile
<1>15. /\ inbox' \in Seq(Entry) /\ OncePerSummary'
       /\ \A s : Queued(s)' <=> Queued(s) \/ \E i \in 1 .. Len(added) : added[i].summary = s
  BY <1>9, <1>11, <1>13, <1>14, EntriesAdded DEF StoreInv
<1>16. ASSUME NEW s
       PROVE  (\E k \in 1 .. Len(added) : added[k].summary = s) <=> s \in Missing(failing)
  <2>1. ASSUME NEW k \in 1 .. Len(added), added[k].summary = s PROVE s \in Missing(failing)
    BY <1>9, <1>10, <1>12, <2>1
  <2>2. ASSUME s \in Missing(failing)
        PROVE  \E k \in 1 .. Len(added) : added[k].summary = s
    <3>1. PICK i \in M : summaries[i].id = s
      BY <1>1, <2>2 DEF Missing, LiveIds
    <3>2. PICK k \in 1 .. m : Nth(M, k) = i
      <4>1. Nth(M, Cardinality(M \cap (1 .. i))) = i /\ Cardinality(M \cap (1 .. i)) \in 1 .. Cardinality(M)
        BY NthIs
      <4> QED BY <1>2, <4>1
    <3> QED BY <1>9, <1>10, <3>1, <3>2
  <2> QED BY <2>1, <2>2
<1>17. ASSUME NEW s PROVE Queued(s)' <=> Queued(s) \/ s \in Missing(failing)
  <2>1. Queued(s)' <=> Queued(s) \/ \E i \in 1 .. Len(added) : added[i].summary = s
    BY <1>15
  <2> QED BY <1>16, <2>1
<1> QED BY <1>15, <1>17

--------------------------------------------------------------------------------
(* The inbox and the receipts in every step *)

\* What ReceiptsMatch and NothingMissed say of one summary.
Matched(i) == Queued(summaries[i].id) => receipt[summaries[i].id] = Chunk(i)

Accounted(i) ==
  \/ Queued(summaries[i].id)
  \/ summaries[i].id \in missed
  \/ pass.pc = "enqueuing" /\ i = Len(summaries)

QueueInv == StoreInv /\ ReceiptsMatch /\ NothingMissed

LEMMA QueueParts ==
  /\ ReceiptsMatch <=> \A i \in 1 .. Len(summaries) : Matched(i)
  /\ NothingMissed <=> \A i \in 1 .. Len(summaries) : Accounted(i)
BY DEF ReceiptsMatch, NothingMissed, Matched, Accounted, Chunk

LEMMA QueuePartsLater ==
  ASSUME \A i \in 1 .. Len(summaries') : Matched(i)' /\ Accounted(i)'
  PROVE  ReceiptsMatch' /\ NothingMissed'
BY DEF ReceiptsMatch, NothingMissed, Matched, Accounted, Chunk

LEMMA ChunkSame ==
  ASSUME UNCHANGED summaries, NEW i
  PROVE  Chunk(i)' = Chunk(i)
BY DEF Chunk, ContentOf, IndexOf

LEMMA ChunkTyped ==
  ASSUME SummariesTyped, NEW i \in 1 .. Len(summaries)
  PROVE  Chunk(i) \in SUBSET Units
BY SummaryTypes DEF Chunk

LEMMA QueueSame ==
  ASSUME QueueInv, pass.pc # "enqueuing",
         UNCHANGED <<inbox, torn, dreamCursor, receipt, missed, summaries>>
  PROVE  QueueInv'
<1>1. StoreInv'
  BY DEF QueueInv, StoreInv, OncePerSummary
<1>2. ReceiptsMatch'
  BY DEF QueueInv, ReceiptsMatch, Queued, Lines, ContentOf, IndexOf
<1>3. NothingMissed'
  BY DEF QueueInv, NothingMissed, Queued, Lines
<1> QED BY <1>1, <1>2, <1>3 DEF QueueInv

\* Recording leaves the inbox alone; the new summary is to be queued next, or missed.
LEMMA QueueRecords ==
  ASSUME SessionInv, PassInv, QueueInv, pass.pc = "generating", leaf # 0, Accepted(NewSummary),
         summaries' = Append(summaries, NewSummary), UNCHANGED <<parent, leaf>>,
         saved' \in {saved, Len(summaries')},
         everSaved' \in {everSaved, everSaved \cup {summaries'[i].id : i \in 1 .. Len(summaries')}},
         UNCHANGED <<inbox, torn, dreamCursor, receipt>>, missed' \in {missed, missed \cup {NewSummary.id}},
         NewSummary.id \in missed' \/ pass'.pc = "enqueuing"
  PROVE  QueueInv'
<1>1. PICK n \in Nat : n = Len(summaries)
  BY SummaryTypes DEF SessionInv
<1>2. PICK s \in Summary : s = NewSummary
  BY NewSummaryTyped
<1>3. /\ Len(summaries') = n + 1
      /\ \A i \in 1 .. n : summaries'[i] = summaries[i] /\ Chunk(i)' = Chunk(i)
      /\ summaries'[n + 1] = s
  BY <1>1, <1>2, SummaryAdded
<1>4. s.id \in Summaries /\ ~Queued(s.id)
  <2>1. s.id = NextId
    BY <1>2 DEF NewSummary
  <2> QED BY <2>1, NextIdFresh DEF SessionInv, PassInv, PassReads
<1>5. StoreInv'
  BY <1>2, <1>4 DEF QueueInv, StoreInv, OncePerSummary
<1>6. \A id : Queued(id)' <=> Queued(id)
  BY DEF Queued, Lines
<1>7. ASSUME NEW i \in 1 .. n + 1
      PROVE  Matched(i)' /\ Accounted(i)'
  <2>1. CASE i \in 1 .. n
    <3>1. PICK t : t = summaries[i] /\ t = summaries'[i] /\ Chunk(i)' = Chunk(i)
      BY <1>3, <2>1
    <3>2. Matched(i) /\ Accounted(i)
      BY <1>1, <2>1, QueueParts DEF QueueInv
    <3>3. PICK id : id = t.id
      OBVIOUS
    <3>4. Queued(id)' <=> Queued(id)
      BY <1>6
    <3>5. (Queued(id) => receipt[id] = Chunk(i)) /\ (Queued(id) \/ id \in missed)
      BY <3>1, <3>2, <3>3 DEF Matched, Accounted
    <3>6. (Queued(id)' => receipt'[id] = Chunk(i)') /\ (Queued(id)' \/ id \in missed')
      BY <3>1, <3>4, <3>5
    <3>7. id = (summaries[i].id)'
      BY <3>1, <3>3
    <3> QED BY <3>6, <3>7 DEF Matched, Accounted, Queued
  <2>2. CASE i = n + 1
    <3>1. PICK id : id = s.id
      OBVIOUS
    <3>2. ~Queued(id)' /\ id = (summaries[i].id)'
      BY <1>3, <1>4, <1>6, <2>2, <3>1
    <3>3. Matched(i)'
      BY <3>2 DEF Matched, Queued
    <3>4. Accounted(i)'
      BY <1>2, <1>3, <2>2, <3>1, <3>2 DEF Accounted
    <3> QED BY <3>3, <3>4
  <2> QED BY <1>1, <2>1, <2>2
<1>8. ReceiptsMatch' /\ NothingMissed'
  BY <1>3, <1>7, QueuePartsLater
<1> QED BY <1>5, <1>8 DEF QueueInv

\* _enqueue_memory: what the summary was made of is what it is queued with.
LEMMA QueueAppends ==
  ASSUME SessionInv, PassInv, QueueInv, pass.pc = "enqueuing", UNCHANGED <<summaries, dreamCursor>>,
         \/ /\ AppendLine(NewEntry(LastSummary.id))
            /\ receipt' = [receipt EXCEPT ![LastSummary.id] = pass.chunk]
            /\ UNCHANGED missed
         \/ /\ missed' = missed \cup {LastSummary.id}
            /\ UNCHANGED <<inbox, torn, receipt>>
  PROVE  QueueInv'
<1>1. PICK n \in Nat : n = Len(summaries) /\ n \in 1 .. Len(summaries)
  <2>1. summaries \in Seq(Summary) /\ summaries # <<>>
    BY DEF SessionInv, SummariesTyped, PassInv, PassQueues
  <2> QED BY <2>1, EmptySeq
<1>2. PICK last \in Summaries : last = LastSummary.id /\ last = summaries[n].id
  BY <1>1, SummaryTypes DEF SessionInv, LastSummary
<1>3. ~Queued(last) /\ pass.chunk = Chunk(n)
  BY <1>1, <1>2 DEF PassInv, PassQueues
<1>4. \A i \in 1 .. n : summaries[i].id \in Summaries /\ (summaries[i].id = last => i = n)
  BY <1>1, <1>2, SummaryTypes DEF SessionInv, SummariesTyped
<1>5. Chunk(n) \in SUBSET Units
  BY <1>1, ChunkTyped DEF SessionInv
<1>6. CASE /\ AppendLine(NewEntry(LastSummary.id))
           /\ receipt' = [receipt EXCEPT ![LastSummary.id] = pass.chunk]
           /\ UNCHANGED missed
  <2>1. /\ inbox' \in Seq(Entry) /\ torn' = FALSE /\ OncePerSummary'
        /\ \A s : Queued(s)' <=> Queued(s) \/ s = last
    BY <1>2, <1>3, <1>6, EntryAdded DEF QueueInv
  <2>2. receipt' = [receipt EXCEPT ![last] = Chunk(n)]
    BY <1>2, <1>3, <1>6
  <2>3. StoreInv'
    BY <1>2, <1>5, <1>6, <2>1, <2>2 DEF QueueInv, StoreInv
  <2>4. ASSUME NEW i \in 1 .. n PROVE Matched(i)' /\ Accounted(i)'
    <3>1. PICK id \in Summaries : id = summaries[i].id /\ (id = last => i = n)
      BY <1>4
    <3>2. Matched(i) /\ Accounted(i)
      BY <1>1, QueueParts DEF QueueInv
    <3>3. (Queued(id) => receipt[id] = Chunk(i)) /\ (Queued(id) \/ id \in missed \/ i = n)
      BY <1>1, <3>1, <3>2 DEF Matched, Accounted
    <3>4. Queued(id)' <=> Queued(id) \/ id = last
      BY <2>1
    <3>5. receipt'[id] = IF id = last THEN Chunk(n) ELSE receipt[id]
      BY <2>2 DEF QueueInv, StoreInv
    <3>6. Chunk(i)' = Chunk(i) /\ id = (summaries[i].id)'
      BY <3>1, ChunkSame
    <3>7. (Queued(id)' => receipt'[id] = Chunk(i)') /\ (Queued(id)' \/ id \in missed')
      BY <1>2, <1>6, <3>1, <3>3, <3>4, <3>5, <3>6
    <3> QED BY <3>6, <3>7 DEF Matched, Accounted, Queued
  <2>5. ReceiptsMatch' /\ NothingMissed'
    BY <1>1, <2>4, QueuePartsLater
  <2> QED BY <2>3, <2>5 DEF QueueInv
<1>7. CASE missed' = missed \cup {LastSummary.id} /\ UNCHANGED <<inbox, torn, receipt>>
  <2>1. StoreInv'
    BY <1>2, <1>7 DEF QueueInv, StoreInv, OncePerSummary
  <2>2. ASSUME NEW i \in 1 .. n PROVE Matched(i)' /\ Accounted(i)'
    <3>1. PICK id \in Summaries : id = summaries[i].id /\ (i = n => id = last)
      BY <1>2, <1>4
    <3>2. Matched(i) /\ Accounted(i)
      BY <1>1, QueueParts DEF QueueInv
    <3>3. (Queued(id) => receipt[id] = Chunk(i)) /\ (Queued(id) \/ id \in missed \/ i = n)
      BY <1>1, <3>1, <3>2 DEF Matched, Accounted
    <3>4. Queued(id)' <=> Queued(id)
      BY <1>7 DEF Queued, Lines
    <3>5. Chunk(i)' = Chunk(i) /\ id = (summaries[i].id)'
      BY <3>1, ChunkSame
    <3>6. (Queued(id)' => receipt'[id] = Chunk(i)') /\ (Queued(id)' \/ id \in missed')
      BY <1>2, <1>7, <3>1, <3>3, <3>4, <3>5
    <3> QED BY <3>5, <3>6 DEF Matched, Accounted, Queued
  <2>3. ReceiptsMatch' /\ NothingMissed'
    BY <1>1, <2>2, QueuePartsLater
  <2> QED BY <2>1, <2>3 DEF QueueInv
<1> QED BY <1>6, <1>7

\* _reconcile_memory: a summary that fails again is the only one that stays missed.
LEMMA QueueReconciles ==
  ASSUME SessionInv, QueueInv, NEW failing \in SUBSET Summaries, Reconcile(failing),
         UNCHANGED <<summaries, torn, dreamCursor>>
  PROVE  QueueInv'
<1>1. PICK n \in Nat : n = Len(summaries)
  BY SummaryTypes DEF SessionInv
<1>2. /\ inbox' \in Seq(Entry) /\ OncePerSummary'
      /\ \A s : Queued(s)' <=> Queued(s) \/ s \in Missing(failing)
  BY ReconcileAdds DEF QueueInv
<1>3. receipt' = [id \in Summaries |-> IF id \in Missing(failing)
                                       THEN Reconstructed(summaries[IndexOf(id)]) ELSE receipt[id]]
      /\ missed' = failing
  BY DEF Reconcile
<1>4. ASSUME NEW i \in 1 .. n
      PROVE  /\ IndexOf(summaries[i].id) = i
             /\ Reconstructed(summaries[i]) = Chunk(i)
             /\ Chunk(i) \in SUBSET Units
  BY <1>1, IndexFacts, ReconstructedIsChunk, ChunkTyped DEF SessionInv
<1>5. receipt' \in [Summaries -> SUBSET Units]
  <2>1. ASSUME NEW id \in Missing(failing)
        PROVE  Reconstructed(summaries[IndexOf(id)]) \in SUBSET Units
    <3>1. PICK i \in 1 .. n : id = summaries[i].id
      BY <1>1 DEF Missing, LiveIds
    <3>2. IndexOf(id) = i
      BY <1>4, <3>1
    <3> QED BY <1>4, <3>2
  <2>2. receipt \in [Summaries -> SUBSET Units]
    BY DEF QueueInv, StoreInv
  <2> QED BY <1>3, <2>1, <2>2
<1>6. StoreInv'
  BY <1>2, <1>3, <1>5 DEF QueueInv, StoreInv
<1>7. ASSUME NEW i \in 1 .. n PROVE Matched(i)' /\ Accounted(i)'
  <2>1. PICK id \in Summaries : id = summaries[i].id
    BY <1>1, SummaryTypes DEF SessionInv
  <2>2. Matched(i)
    BY <1>1, QueueParts DEF QueueInv
  <2>3. Queued(id) => receipt[id] = Chunk(i)
    BY <2>1, <2>2 DEF Matched
  <2>4. id \in Missing(failing) \/ Queued(id) \/ id \in failing
    BY <1>1, <2>1 DEF Missing, LiveIds
  <2>5. IndexOf(id) = i
    BY <1>4, <2>1
  <2>6. receipt'[id] = IF id \in Missing(failing) THEN Chunk(i) ELSE receipt[id]
    BY <1>3, <1>4, <2>5
  <2>7. Queued(id)' <=> Queued(id) \/ id \in Missing(failing)
    BY <1>2
  <2>8. Chunk(i)' = Chunk(i) /\ id = (summaries[i].id)'
    BY <2>1, ChunkSame
  <2>9. (Queued(id)' => receipt'[id] = Chunk(i)') /\ (Queued(id)' \/ id \in missed')
    BY <1>3, <2>3, <2>4, <2>6, <2>7, <2>8
  <2> QED BY <2>8, <2>9 DEF Matched, Accounted, Queued
<1>8. ReceiptsMatch' /\ NothingMissed'
  BY <1>1, <1>7, QueuePartsLater
<1> QED BY <1>6, <1>8 DEF QueueInv

\* A process that dies forgets the summaries that were not saved, and keeps of its
\* failures those that concern the others.
LEMMA QueueRestarts ==
  ASSUME SessionInv, QueueInv, Die
  PROVE  QueueInv'
<1>1. PICK n \in 0 .. Len(summaries) : n = saved
  BY DEF SessionInv, SummariesTyped
<1>2. Len(summaries') = n /\ \A i \in 1 .. n : summaries'[i] = summaries[i] /\ Chunk(i)' = Chunk(i)
  BY <1>1, SessionCut DEF Die
<1>3. /\ UNCHANGED <<inbox, torn, dreamCursor, receipt>>
      /\ missed' = {summaries[i].id : i \in 1 .. n} \cap
                     (missed \cup IF pass.pc = "enqueuing" THEN {LastSummary.id} ELSE {})
  BY <1>1 DEF Die, Crash, files
<1>4. \A i \in 1 .. n : i \in 1 .. Len(summaries) /\ summaries[i].id \in Summaries
  BY SummaryTypes DEF SessionInv
<1>5. StoreInv'
  BY <1>3, <1>4 DEF QueueInv, StoreInv, OncePerSummary
<1>6. ASSUME NEW i \in 1 .. n PROVE Matched(i)' /\ Accounted(i)'
  <2>1. PICK t : t = summaries[i] /\ t = summaries'[i] /\ Chunk(i)' = Chunk(i)
    BY <1>2
  <2>2. PICK id : id = t.id
    OBVIOUS
  <2>3. Matched(i) /\ Accounted(i)
    BY <1>4, QueueParts DEF QueueInv
  <2>4. /\ Queued(id) => receipt[id] = Chunk(i)
        /\ Queued(id) \/ id \in missed \/ (pass.pc = "enqueuing" /\ id = LastSummary.id)
    BY <2>1, <2>2, <2>3 DEF Matched, Accounted, LastSummary
  <2>5. Queued(id)' <=> Queued(id)
    BY <1>3 DEF Queued, Lines
  <2>6. Queued(id) \/ id \in missed'
    BY <1>3, <2>1, <2>2, <2>4
  <2>7. id = (summaries[i].id)'
    BY <2>1, <2>2
  <2>8. (Queued(id)' => receipt'[id] = Chunk(i)') /\ (Queued(id)' \/ id \in missed')
    BY <1>3, <2>1, <2>4, <2>5, <2>6
  <2> QED BY <2>7, <2>8 DEF Matched, Accounted, Queued
<1>7. ReceiptsMatch' /\ NothingMissed'
  BY <1>2, <1>6, QueuePartsLater
<1> QED BY <1>5, <1>7 DEF QueueInv

\* The steps that change the inbox, its receipts or the list of summaries.
LEMMA QueueMoves ==
  ASSUME ConsolidationNext
  PROVE  \/ RecordSummary \/ RecordRaises \/ EnqueueMemory \/ EnqueueMemoryFails \/ Clear \/ Die
         \/ /\ UNCHANGED <<summaries, torn, dreamCursor>>
            /\ \E failing \in SUBSET LiveIds : Reconcile(failing)
         \/ /\ UNCHANGED <<inbox, torn, dreamCursor, receipt, missed, summaries>>
            /\ pass.pc # "enqueuing"
<1>1. CASE PassStep
  BY <1>1 DEF PassStep, EstimateEnds, EstimateTooLarge, PickBoundary, PickNothing, GenerateFails,
     Return, Schedule, Suspended, vars, files, session
<1>2. CASE Prepare \/ BackgroundBegins
  <2>1. UNCHANGED <<summaries, torn, dreamCursor>>
    BY <1>2 DEF Prepare, BackgroundBegins, session
  <2>2. Missing({}) \subseteq LiveIds
    BY DEF Missing
  <2>3. \E failing \in SUBSET LiveIds : Reconcile(failing)
    BY <1>2, <2>2 DEF Prepare, BackgroundBegins, EnterPass
  <2> QED BY <2>1, <2>3
<1>3. CASE BeginRun \/ ResumeRun \/ Save \/ RunEnds \/ \E u \in 0 .. Len(parent) : Checkout(u)
  BY <1>3 DEF BeginRun, ResumeRun, Save, RunEnds, Checkout, Suspended, StoreUnchanged, files, session
<1> QED BY <1>1, <1>2, <1>3 DEF ConsolidationNext

LEMMA QueueKept ==
  ASSUME ConsInv, ConsolidationNext
  PROVE  QueueInv'
<1>1. SessionInv /\ PassInv /\ QueueInv
  BY DEF ConsInv, QueueInv
<1>2. CASE RecordSummary
  <2>1. UNCHANGED <<inbox, torn, dreamCursor, receipt, missed>> /\ pass'.pc = "enqueuing"
    BY <1>1, <1>2 DEF RecordSummary, vars, files, PassInv, PassTyped
  <2> QED BY <1>1, <1>2, <2>1, QueueRecords DEF RecordSummary
<1>3. CASE RecordRaises
  <2>1. /\ UNCHANGED <<inbox, torn, dreamCursor, receipt, parent, leaf, saved, everSaved>>
        /\ pass.pc = "generating" /\ leaf # 0
    BY <1>3 DEF RecordRaises, files
  <2>2. CASE UNCHANGED <<summaries, missed>>
    BY <1>1, <2>1, <2>2, QueueSame
  <2>3. CASE /\ Accepted(NewSummary) /\ summaries' = Append(summaries, NewSummary)
             /\ missed' = missed \cup {NewSummary.id}
    <3>1. NewSummary.id \in missed'
      BY <2>3
    <3> QED BY <1>1, <2>1, <2>3, <3>1, QueueRecords
  <2> QED BY <1>3, <2>2, <2>3 DEF RecordRaises
<1>4. CASE EnqueueMemory
  <2>1. UNCHANGED <<summaries, dreamCursor, missed>>
    BY <1>4 DEF EnqueueMemory, session
  <2> QED BY <1>1, <1>4, <2>1, QueueAppends DEF EnqueueMemory
<1>5. CASE EnqueueMemoryFails
  <2>1. UNCHANGED <<summaries, dreamCursor>>
    BY <1>5 DEF EnqueueMemoryFails, session
  <2> QED BY <1>1, <1>5, <2>1, QueueAppends DEF EnqueueMemoryFails
<1>6. CASE Clear
  <2>1. summaries' = <<>> /\ missed' = {} /\ UNCHANGED <<inbox, torn, dreamCursor, receipt>>
    BY <1>6 DEF Clear, StoreUnchanged, files
  <2>2. StoreInv'
    BY <1>1, <2>1 DEF QueueInv, StoreInv, OncePerSummary
  <2>3. 1 .. Len(summaries') = {}
    BY <2>1
  <2> QED BY <2>2, <2>3, QueuePartsLater DEF QueueInv
<1>7. CASE Die
  BY <1>1, <1>7, QueueRestarts
<1>8. ASSUME UNCHANGED <<summaries, torn, dreamCursor>>, NEW failing \in SUBSET LiveIds,
             Reconcile(failing)
      PROVE  QueueInv'
  <2>1. failing \in SUBSET Summaries
    BY <1>1, SummaryTypes DEF LiveIds, SessionInv
  <2> QED BY <1>1, <1>8, <2>1, QueueReconciles
<1>9. CASE UNCHANGED <<inbox, torn, dreamCursor, receipt, missed, summaries>> /\ pass.pc # "enqueuing"
  BY <1>1, <1>9, QueueSame
<1> QED BY <1>2, <1>3, <1>4, <1>5, <1>6, <1>7, <1>8, <1>9, QueueMoves

--------------------------------------------------------------------------------
(* The theorems *)

LEMMA ConsInit == ConsolidationInit => ConsInv
<1> SUFFICES ASSUME ConsolidationInit PROVE ConsInv
  OBVIOUS
<1>1. MaxUnits \in Nat
  BY ConsolidationAssumption
<1>2. /\ parent = <<>> /\ leaf = 0 /\ summaries = <<>> /\ saved = 0 /\ everSaved = {}
      /\ run = NoRun /\ pass = NoPass /\ receipt = [id \in Summaries |-> {}] /\ missed = {}
      /\ inbox = <<>> /\ torn = FALSE /\ dreamCursor = 0
  BY DEF ConsolidationInit, SessionInit, Init
<1>3. SessionInv
  BY <1>1, <1>2 DEF SessionInv, Tree, SummariesTyped
<1>4. pass.pc = "none" /\ PassTyped
  BY <1>2 DEF NoPass, PassTyped
<1>5. run.pc = "none" /\ RunTyped
  BY <1>2 DEF NoRun, NoContext, RunTyped
<1>6. StoreInv /\ ReceiptsMatch /\ NothingMissed
  BY <1>2 DEF StoreInv, OncePerSummary, ReceiptsMatch, NothingMissed
<1> QED BY <1>3, <1>4, <1>5, <1>6 DEF ConsInv, PassInv, RunInv, ContextComplete

LEMMA ConsStep == ConsInv /\ [ConsolidationNext]_allVars => ConsInv'
<1>1. CASE ConsInv /\ ConsolidationNext
  BY <1>1, SessionKept, PassKept, RunKept, QueueKept DEF ConsInv, QueueInv
<1>2. CASE ConsInv /\ UNCHANGED allVars
  <2>1. /\ UNCHANGED <<parent, leaf, summaries, saved, everSaved, run, pass, receipt, missed>>
        /\ UNCHANGED <<inbox, torn, dreamCursor>>
    BY <1>2 DEF allVars, vars, files, session, tasks
  <2>2. SessionInv'
    <3>1. leaf' \in 0 .. Len(parent) /\ saved' \in 0 .. Len(summaries)
      BY <1>2, <2>1 DEF ConsInv, SessionInv, Tree, SummariesTyped
    <3> QED BY <1>2, <2>1, <3>1, SessionSame DEF ConsInv
  <2>3. \A u : Branch(u)' = Branch(u)
    BY <2>1 DEF Branch, Upward
  <2>4. PassInv'
    <3>1. NextId' = NextId
      BY <2>1, NextIdSame
    <3>2. PassReads => PassReads'
      BY <2>1, <2>3, <3>1 DEF PassReads, Follows
    <3>3. PassQueues => PassQueues'
      BY <2>1 DEF PassQueues, LastSummary, Queued, Lines, Chunk, ContentOf, IndexOf
    <3>4. (PassPicked => PassPicked') /\ (PassTyped => PassTyped')
      BY <2>1 DEF PassPicked, PassTyped
    <3> QED BY <1>2, <2>1, <3>2, <3>3, <3>4 DEF ConsInv, PassInv
  <2>5. RunInv'
    BY <1>2, <2>1 DEF ConsInv, RunInv, RunTyped, ContextComplete, Branch, Upward
  <2>6. StoreInv'
    BY <1>2, <2>1 DEF ConsInv, StoreInv, OncePerSummary
  <2>7. \A id : Queued(id)' = Queued(id)
    BY <2>1 DEF Queued, Lines
  <2>8. \A i : ContentOf(i)' = ContentOf(i)
    BY <2>1 DEF ContentOf
  <2>9. \A id : IndexOf(id)' = IndexOf(id)
    BY <2>1 DEF IndexOf
  <2>10. ReceiptsMatch'
    <3>1. ReceiptsMatch
      BY <1>2 DEF ConsInv
    <3>2. SUFFICES ASSUME NEW i \in 1 .. Len(summaries), Queued(summaries[i].id)
                   PROVE  receipt[summaries[i].id]
                            = summaries[i].content
                                \ ContentOf(IndexOf(summaries[i].previous))'
      BY <2>1, <2>7 DEF ReceiptsMatch
    <3>3. ContentOf(IndexOf(summaries[i].previous))'
            = ContentOf(IndexOf(summaries[i].previous))
      BY <2>1, <2>8, <2>9
    <3> QED BY <3>1, <3>2, <3>3 DEF ReceiptsMatch
  <2>11. NothingMissed'
    BY <1>2, <2>1, <2>7 DEF ConsInv, NothingMissed
  <2> QED BY <2>2, <2>4, <2>5, <2>6, <2>10, <2>11 DEF ConsInv
<1> QED BY <1>1, <1>2

\* The invariant the others follow from: every summary stands for the branch up to the
\* unit it covers and follows one recorded before it, a pass goes on where a summary
\* ends although the leaf may have moved, and the inbox is the account of both.
THEOREM SummariesAreSound == ConsolidationSpec => []ConsInv
BY ConsInit, ConsStep, PTL DEF ConsolidationSpec

\* A summary is never made of a part of the history it stands for: moving the leaf, a
\* commit or a crash while the provider answers leaves no gap in it.
THEOREM SummariesAreComplete == ConsolidationSpec => []ContentComplete
<1>1. ConsInv => ContentComplete
  BY DEF ConsInv, SessionInv, Sound, ContentComplete
<1> QED BY <1>1, SummariesAreSound, PTL

\* A run starts from its whole branch, told once.
THEOREM ContextIsWhole == ConsolidationSpec => []ContextComplete
<1>1. ConsInv => ContextComplete
  BY DEF ConsInv, RunInv
<1> QED BY <1>1, SummariesAreSound, PTL

\* What is queued for memory is what was summarised, reconstructed or not.
THEOREM ReceiptsAreSummarised == ConsolidationSpec => []ReceiptsMatch
<1>1. ConsInv => ReceiptsMatch
  BY DEF ConsInv
<1> QED BY <1>1, SummariesAreSound, PTL

\* A summary is queued unless something kept it from there since the last pass.
THEOREM NoneIsForgotten == ConsolidationSpec => []NothingMissed
<1>1. ConsInv => NothingMissed
  BY DEF ConsInv
<1> QED BY <1>1, SummariesAreSound, PTL

\* Reconciling after failures and crashes never queues a summary a second time.
THEOREM QueuedOncePerSummary == ConsolidationSpec => []OncePerSummary
<1>1. ConsInv => OncePerSummary
  BY DEF ConsInv, StoreInv
<1> QED BY <1>1, SummariesAreSound, PTL

================================================================================
