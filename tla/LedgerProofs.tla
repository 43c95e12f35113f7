---------------------------- MODULE LedgerProofs ----------------------------
(***************************************************************************)
(* Proofs about Ledger, for every finite tree of blocks, every assignment  *)
(* of updates and minted values to them, every depth of VerifyDB and any   *)
(* number of crashes: the money supply and the governance database are     *)
(* those of the chain, unless a start came upon files of another block.    *)
(***************************************************************************)
EXTENDS Ledger, FiniteSetTheorems, WellFoundedInduction, TLAPS

\* Sets of blocks that go down to genesis with each of their members.
Closed(S) == \A y \in S \ {Genesis} : Parent[y] \in S
Below(b) == {x \in Blocks : \A S \in SUBSET Blocks : b \in S /\ Closed(S) => x \in S}

\* The order of the numbers, as a relation.
Less == {ss \in Nat \X Nat : ss[1] < ss[2]}

\* The natural numbers are well-founded (the library's fact, for a relation
\* that no operator is a parameter of).
LEMMA LessWellFounded == IsWellFoundedOn(Less, Nat)
  BY NatLessThanWellFounded DEF Less, OpToRel

\* A set of blocks has a member whose parent is not in it.
LEMMA LowestBlock ==
  ASSUME NEW T \in SUBSET Blocks, T # {}
  PROVE  \E b \in T : b # Genesis => Parent[b] \notin T
<1>1. PICK rank \in [Blocks -> 0..Cardinality(Blocks)] :
         \A b \in Blocks \ {Genesis} : rank[Parent[b]] < rank[b]
  BY LedgerAssumption DEF LedgerAssumption
<1>2. Cardinality(Blocks) \in Nat
  BY LedgerAssumption, FS_CardinalityType DEF LedgerAssumption
<1> DEFINE W == {rank[b] : b \in T}
<1>3. W \subseteq Nat /\ W # {}
  BY <1>1, <1>2
<1> HIDE DEF W
<1>4. PICK w \in W : \A v \in W : ~(<<v, w>> \in Less)
  BY <1>3, LessWellFounded, WFMin
<1>5. PICK b \in T : rank[b] = w
  BY DEF W
<1>6. ASSUME b # Genesis, Parent[b] \in T
      PROVE  FALSE
  <2>1. rank[Parent[b]] < rank[b] /\ rank[Parent[b]] \in Nat /\ rank[b] \in Nat
    BY <1>1, <1>2, <1>6
  <2>2. rank[Parent[b]] \in W
    BY <1>6 DEF W
  <2> QED
    BY <2>1, <2>2, <1>4, <1>5 DEF Less
<1> QED
  BY <1>6

\* Below solves the equation that defines Chain.
LEMMA BelowUnfolds ==
  ASSUME NEW b \in Blocks
  PROVE  Below(b) = IF b = Genesis THEN {b} ELSE {b} \cup Below(Parent[b])
<1>1. CASE b = Genesis
  <2>1. Closed({Genesis}) /\ {Genesis} \in SUBSET Blocks
    BY LedgerAssumption DEF Closed
  <2> QED
    BY <2>1, <1>1 DEF Below
<1>2. CASE b # Genesis
  <2> DEFINE p == Parent[b]
  <2>0. p \in Blocks
    BY <1>2, LedgerAssumption
  <2>1. Below(b) \subseteq {b} \cup Below(p)
    <3> SUFFICES ASSUME NEW x \in Below(b), x # b, NEW S \in SUBSET Blocks, p \in S, Closed(S)
                 PROVE  x \in S
      BY DEF Below
    <3>1. Closed(S \cup {b})
      BY <1>2 DEF Closed
    <3> QED
      BY <3>1 DEF Below
  <2>2. {b} \cup Below(p) \subseteq Below(b)
    BY <1>2, <2>0 DEF Below, Closed
  <2> QED
    BY <2>1, <2>2, <1>2
<1> QED
  BY <1>1, <1>2

\* The recursive definition of Chain holds as an equation.
LEMMA ChainUnfolds ==
  ASSUME NEW b \in Blocks
  PROVE  Chain[b] = IF b = Genesis THEN {b} ELSE {b} \cup Chain[Parent[b]]
<1> DEFINE F(f) == [x \in Blocks |-> IF x = Genesis THEN {x} ELSE {x} \cup f[Parent[x]]]
           g == [x \in Blocks |-> Below(x)]
<1>1. g = F(g)
  <2>1. \A x \in Blocks : g[x] = IF x = Genesis THEN {x} ELSE {x} \cup g[Parent[x]]
    BY BelowUnfolds, LedgerAssumption
  <2> QED
    BY <2>1
<1>2. \E f : f = F(f)
  <2> HIDE DEF F, g
  <2> QED
    BY <1>1
<1>3. Chain = F(Chain)
  <2>1. Chain = CHOOSE f : f = F(f)
    BY DEF Chain
  <2> HIDE DEF F
  <2> QED
    BY <1>2, <2>1
<1> QED
  BY <1>3

\* The same by cases.
LEMMA ChainCases ==
  /\ Genesis \in Blocks /\ Chain[Genesis] = {Genesis}
  /\ \A b \in Blocks : b # Genesis => Parent[b] \in Blocks /\ Chain[b] = {b} \cup Chain[Parent[b]]
<1>1. Genesis \in Blocks /\ Chain[Genesis] = {Genesis}
  BY ChainUnfolds, LedgerAssumption
<1>2. ASSUME NEW b \in Blocks, b # Genesis
      PROVE  Parent[b] \in Blocks /\ Chain[b] = {b} \cup Chain[Parent[b]]
  BY <1>2, ChainUnfolds, LedgerAssumption
<1> QED
  BY <1>1, <1>2

\* What the ancestors of a block are: blocks, the block itself among them, and
\* genesis at the bottom.
LEMMA ChainBounds ==
  ASSUME NEW b \in Blocks
  PROVE  Chain[b] \subseteq Blocks /\ b \in Chain[b] /\ Genesis \in Chain[b] /\ IsFiniteSet(Chain[b])
<1> DEFINE T == {x \in Blocks : ~(Chain[x] \subseteq Blocks /\ Genesis \in Chain[x])}
<1>1. T = {}
  <2> SUFFICES ASSUME T # {} PROVE FALSE
    OBVIOUS
  <2>1. PICK x \in T : x # Genesis => Parent[x] \notin T
    <3> HIDE DEF T
    <3>1. T \in SUBSET Blocks
      BY DEF T
    <3> QED
      BY <3>1, LowestBlock
  <2>2. CASE x = Genesis
    BY <2>1, <2>2, ChainCases
  <2>3. CASE x # Genesis
    BY <2>1, <2>3, ChainCases
  <2> QED
    BY <2>2, <2>3
<1>2. b \in Chain[b]
  BY ChainUnfolds
<1>3. Chain[b] \subseteq Blocks /\ Genesis \in Chain[b]
  BY <1>1
<1> QED
  BY <1>2, <1>3, FS_Subset, LedgerAssumption

\* An ancestor's ancestors are ancestors.
LEMMA ChainTransitive ==
  ASSUME NEW b \in Blocks, NEW x \in Chain[b]
  PROVE  x \in Blocks /\ Chain[x] \subseteq Chain[b]
<1> DEFINE T == {y \in Blocks : ~(\A z \in Chain[y] : Chain[z] \subseteq Chain[y])}
<1>1. T = {}
  <2> SUFFICES ASSUME T # {} PROVE FALSE
    OBVIOUS
  <2>1. PICK y \in T : y # Genesis => Parent[y] \notin T
    <3> HIDE DEF T
    <3>1. T \in SUBSET Blocks
      BY DEF T
    <3> QED
      BY <3>1, LowestBlock
  <2>2. CASE y = Genesis
    BY <2>1, <2>2, ChainCases
  <2>3. CASE y # Genesis
    BY <2>1, <2>3, ChainCases
  <2> QED
    BY <2>2, <2>3
<1> QED
  BY <1>1, ChainBounds

\* The parent's chain does not hold the block.
LEMMA NotBelowParent ==
  ASSUME NEW b \in Blocks \ {Genesis}
  PROVE  Parent[b] \in Blocks /\ b \notin Chain[Parent[b]] /\ Chain[b] = {b} \cup Chain[Parent[b]]
<1> DEFINE T == {y \in Blocks \ {Genesis} : y \in Chain[Parent[y]]}
<1>1. T = {}
  <2> SUFFICES ASSUME T # {} PROVE FALSE
    OBVIOUS
  <2>1. PICK y \in T : y # Genesis => Parent[y] \notin T
    <3> HIDE DEF T
    <3>1. T \in SUBSET Blocks
      BY DEF T
    <3> QED
      BY <3>1, LowestBlock
  <2> DEFINE p == Parent[y]
  <2>2. y # Genesis /\ y \in Blocks /\ p \in Blocks /\ y \in Chain[p]
    BY <2>1, ChainCases
  <2>3. Chain[y] \subseteq Chain[p] /\ p \in Chain[y]
    BY <2>2, ChainTransitive, ChainCases, ChainBounds
  <2>4. p # Genesis
    BY <2>2, ChainCases
  <2>5. y \in Chain[Parent[p]]
    <3>1. Chain[p] = {p} \cup Chain[Parent[p]]
      BY <2>2, <2>4, ChainCases
    <3>2. CASE y = p
      BY <2>1, <2>2, <3>2
    <3> QED
      BY <2>2, <3>1, <3>2
  <2>6. p \in Chain[Parent[p]]
    <3>1. Parent[p] \in Blocks
      BY <2>2, <2>4, ChainCases
    <3> QED
      BY <2>3, <2>5, <3>1, ChainTransitive
  <2> QED
    BY <2>1, <2>2, <2>4, <2>6
<1> QED
  BY <1>1, ChainCases

\* A branch is a line: of two ancestors of a block one is below the other.
LEMMA ChainIsALine ==
  ASSUME NEW b \in Blocks, NEW x \in Chain[b], NEW y \in Chain[b]
  PROVE  x \in Chain[y] \/ y \in Chain[x]
<1> DEFINE T == {c \in Blocks : ~(\A u, v \in Chain[c] : u \in Chain[v] \/ v \in Chain[u])}
<1>1. T = {}
  <2> SUFFICES ASSUME T # {} PROVE FALSE
    OBVIOUS
  <2>1. PICK c \in T : c # Genesis => Parent[c] \notin T
    <3> HIDE DEF T
    <3>1. T \in SUBSET Blocks
      BY DEF T
    <3> QED
      BY <3>1, LowestBlock
  <2>2. CASE c = Genesis
    BY <2>1, <2>2, ChainCases
  <2>3. CASE c # Genesis
    BY <2>1, <2>3, ChainCases
  <2> QED
    BY <2>2, <2>3
<1> QED
  BY <1>1

\* The height of a block is one more than its parent's.
LEMMA HeightOfParent ==
  /\ Height(Genesis) = 0
  /\ \A b \in Blocks \ {Genesis} : Height(Parent[b]) = Height(b) - 1 /\ Height(b) \in Nat
<1>1. Height(Genesis) = 0
  BY ChainCases, FS_Singleton DEF Height
<1>2. ASSUME NEW b \in Blocks \ {Genesis}
      PROVE  Height(Parent[b]) = Height(b) - 1 /\ Height(b) \in Nat
  <2> DEFINE A == Chain[Parent[b]]
  <2>1. IsFiniteSet(A) /\ b \notin A /\ Chain[b] = A \cup {b}
    BY NotBelowParent, ChainBounds
  <2>2. Cardinality(A) \in Nat /\ Cardinality(Chain[b]) = Cardinality(A) + 1
    BY <2>1, FS_AddElement, FS_CardinalityType
  <2> QED
    BY <2>2 DEF Height
<1> QED
  BY <1>1, <1>2
\* Heights grow along a chain.
LEMMA HeightsGrow ==
  ASSUME NEW b \in Blocks, NEW x \in Chain[b]
  PROVE  /\ x \in Blocks /\ Height(x) \in Nat /\ Height(b) \in Nat
         /\ x = b \/ Height(x) < Height(b)
<1> DEFINE T == {y \in Blocks : ~(\A z \in Chain[y] : z = y \/ Height(z) < Height(y))}
<1>1. T = {}
  <2> SUFFICES ASSUME T # {} PROVE FALSE
    OBVIOUS
  <2>1. PICK y \in T : y # Genesis => Parent[y] \notin T
    <3> HIDE DEF T
    <3>1. T \in SUBSET Blocks
      BY DEF T
    <3> QED
      BY <3>1, LowestBlock
  <2>2. PICK z \in Chain[y] : z # y /\ ~(Height(z) < Height(y))
    BY <2>1
  <2>3. y # Genesis /\ z \in Chain[Parent[y]] /\ Parent[y] \in Blocks
    BY <2>2, <2>1, ChainCases
  <2>4. z \in Blocks
    BY <2>3, ChainBounds
  <2>5. Height(Parent[y]) = Height(y) - 1 /\ (z = Parent[y] \/ Height(z) < Height(Parent[y]))
    BY <2>3, <2>1, HeightOfParent
  <2>6. {Height(z), Height(y), Height(Parent[y])} \subseteq Nat
    BY <2>3, <2>4, <2>1, HeightOfParent
  <2> QED
    BY <2>2, <2>5, <2>6
<1>2. x \in Blocks
  BY ChainBounds
<1> QED
  BY <1>1, <1>2, HeightOfParent

\* Two blocks of a chain have two heights, and only genesis has height 0.
LEMMA HeightsDiffer ==
  ASSUME NEW b \in Blocks
  PROVE  /\ \A x, y \in Chain[b] : Height(x) = Height(y) => x = y
         /\ b # Genesis => Height(b) > 0
<1>1. ASSUME NEW x \in Chain[b], NEW y \in Chain[b], x # y
      PROVE  Height(x) # Height(y)
  <2>1. x \in Blocks /\ y \in Blocks
    BY ChainBounds
  <2>2. CASE x \in Chain[y]
    BY <1>1, <2>1, <2>2, HeightsGrow
  <2>3. CASE y \in Chain[x]
    BY <1>1, <2>1, <2>3, HeightsGrow
  <2> QED
    BY <2>2, <2>3, ChainIsALine
<1>2. b # Genesis => Height(b) > 0
  BY ChainBounds, HeightsGrow
<1> QED
  BY <1>1, <1>2
-----------------------------------------------------------------------------
(* The supply of a chain.                                                  *)

\* g gives the supplies of the blocks of b's chain.
Sums(g, b) ==
  /\ g \in [Chain[b] -> Int] /\ g[Genesis] = 0
  /\ \A x \in Chain[b] \ {Genesis} : g[x] = g[Parent[x]] + Minted[x]

\* A chain is closed under Parent.
LEMMA ParentOnChain ==
  ASSUME NEW b \in Blocks, NEW x \in Chain[b], x # Genesis
  PROVE  x \in Blocks /\ Parent[x] \in Chain[b]
<1>1. x \in Blocks /\ Chain[x] \subseteq Chain[b]
  BY ChainTransitive
<1>2. Parent[x] \in Chain[x]
  BY <1>1, ChainCases, ChainBounds
<1> QED
  BY <1>1, <1>2

\* There is one such function ...
LEMMA SumsUnique ==
  ASSUME NEW b \in Blocks, NEW g, NEW h, Sums(g, b), Sums(h, b)
  PROVE  \A x \in Chain[b] : g[x] = h[x]
<1> DEFINE T == {x \in Chain[b] : g[x] # h[x]}
<1>1. T = {}
  <2> SUFFICES ASSUME T # {} PROVE FALSE
    OBVIOUS
  <2>1. PICK x \in T : x # Genesis => Parent[x] \notin T
    <3> HIDE DEF T
    <3>1. T \in SUBSET Blocks
      BY ChainBounds DEF T
    <3> QED
      BY <3>1, LowestBlock
  <2>2. x # Genesis
    BY <2>1 DEF Sums
  <2>3. Parent[x] \in Chain[b] /\ g[Parent[x]] = h[Parent[x]]
    BY <2>1, <2>2, ParentOnChain
  <2> QED
    BY <2>1, <2>2, <2>3 DEF Sums
<1> QED
  BY <1>1

\* ... for every block.
LEMMA SumsExist ==
  ASSUME NEW b \in Blocks
  PROVE  \E g : Sums(g, b)
<1> DEFINE T == {x \in Blocks : ~ \E g : Sums(g, x)}
<1>1. T = {}
  <2> SUFFICES ASSUME T # {} PROVE FALSE
    OBVIOUS
  <2>1. PICK x \in T : x # Genesis => Parent[x] \notin T
    <3> HIDE DEF T
    <3>1. T \in SUBSET Blocks
      BY DEF T
    <3> QED
      BY <3>1, LowestBlock
  <2>2. CASE x = Genesis
    <3>1. Sums([y \in {Genesis} |-> 0], Genesis)
      BY ChainCases DEF Sums
    <3> QED
      BY <2>1, <2>2, <3>1
  <2>3. CASE x # Genesis
    <3> DEFINE p == Parent[x]
    <3>1. x \in Blocks /\ p \in Blocks /\ p \notin T /\ x \notin Chain[p] /\ Chain[x] = {x} \cup Chain[p]
      BY <2>1, <2>3, NotBelowParent
    <3>2. PICK g : Sums(g, p)
      BY <3>1
    <3> DEFINE h == [y \in Chain[x] |-> IF y = x THEN g[p] + Minted[x] ELSE g[y]]
    <3>3. p \in Chain[p] /\ Genesis \in Chain[p] /\ Minted[x] \in Int
      BY <3>1, ChainBounds, LedgerAssumption DEF LedgerAssumption
    <3>4. h \in [Chain[x] -> Int] /\ h[Genesis] = 0
      BY <3>1, <3>2, <3>3, <2>3 DEF Sums
    <3>5. ASSUME NEW y \in Chain[x] \ {Genesis}
          PROVE  h[y] = h[Parent[y]] + Minted[y]
      <4>1. CASE y = x
        BY <3>1, <3>3, <4>1
      <4>2. CASE y # x
        <5>1. y \in Chain[p] /\ Parent[y] \in Chain[p]
          BY <3>1, <4>2, ParentOnChain
        <5>2. g[y] = g[Parent[y]] + Minted[y]
          BY <3>2, <5>1 DEF Sums
        <5> QED
          BY <3>1, <4>2, <5>1, <5>2
      <4> QED
        BY <4>1, <4>2
    <3>6. Sums(h, x)
      <4> HIDE DEF h
      <4> QED
        BY <3>4, <3>5 DEF Sums
    <3> HIDE DEF h
    <3> QED
      BY <2>1, <3>6
  <2> QED
    BY <2>2, <2>3
<1> QED
  BY <1>1
\* The right side of the definition of Total.
SumStep(f) == [b \in Blocks |-> IF b = Genesis THEN 0 ELSE f[Parent[b]] + Minted[b]]

\* The supply of a block is its parent's and what it minted itself.
LEMMA TotalUnfolds ==
  /\ Total[Genesis] = 0
  /\ \A b \in Blocks : Total[b] \in Int
  /\ \A b \in Blocks \ {Genesis} : Total[b] = Total[Parent[b]] + Minted[b]
<1> DEFINE G(b) == CHOOSE g : Sums(g, b)
           f == [b \in Blocks |-> G(b)[b]]
<1>1. ASSUME NEW b \in Blocks PROVE Sums(G(b), b)
  BY SumsExist
<1>2. Genesis \in Blocks /\ f[Genesis] = 0
  BY <1>1, LedgerAssumption DEF LedgerAssumption, Sums
<1>3. ASSUME NEW b \in Blocks PROVE f[b] \in Int
  <2>1. b \in Chain[b]
    BY ChainBounds
  <2> QED
    BY <1>1, <2>1 DEF Sums
<1>4. ASSUME NEW b \in Blocks \ {Genesis} PROVE f[b] = f[Parent[b]] + Minted[b]
  <2> DEFINE p == Parent[b]
             r == [x \in Chain[p] |-> G(b)[x]]
  <2>1. p \in Blocks /\ p \in Chain[p] /\ b \in Chain[b] /\ Chain[p] \subseteq Chain[b] /\ Genesis \in Chain[p]
    BY ChainBounds, ChainCases, NotBelowParent
  <2>2. Sums(G(b), b)
    BY <1>1
  <2> HIDE DEF G
  <2>3. G(b)[b] = G(b)[p] + Minted[b]
    BY <2>1, <2>2 DEF Sums
  <2>4. r \in [Chain[p] -> Int] /\ r[Genesis] = 0
    BY <2>1, <2>2 DEF Sums
  <2>5. ASSUME NEW x \in Chain[p] \ {Genesis} PROVE r[x] = r[Parent[x]] + Minted[x]
    <3>1. Parent[x] \in Chain[p]
      BY <2>1, ParentOnChain
    <3> QED
      BY <2>1, <2>2, <3>1 DEF Sums
  <2>6. Sums(r, p)
    <3> HIDE DEF r
    <3> QED
      BY <2>4, <2>5 DEF Sums
  <2>7. Sums(G(p), p)
    BY <1>1, <2>1
  <2>8. r[p] = G(p)[p]
    <3> HIDE DEF r, p
    <3> QED
      BY <2>1, <2>6, <2>7, SumsUnique
  <2> QED
    BY <2>1, <2>3, <2>8
<1>5. f = SumStep(f)
  <2> HIDE DEF G
  <2>1. ASSUME NEW b \in Blocks
        PROVE  f[b] = IF b = Genesis THEN 0 ELSE f[Parent[b]] + Minted[b]
    BY <1>2, <1>4
  <2> QED
    BY <2>1 DEF SumStep
<1>6. \E g : g = SumStep(g)
  <2> HIDE DEF f
  <2> QED
    BY <1>5
<1>7. Total = CHOOSE g : g = SumStep(g)
  BY DEF Total, SumStep
<1>8. Total = SumStep(Total)
  <2> HIDE DEF SumStep
  <2> QED
    BY <1>6, <1>7
<1>9. ASSUME NEW b \in Blocks
      PROVE  Total[b] = IF b = Genesis THEN 0 ELSE Total[Parent[b]] + Minted[b]
  BY <1>8 DEF SumStep
<1> DEFINE T == {b \in Blocks : Total[b] \notin Int}
<1>10. T = {}
  <2> SUFFICES ASSUME T # {} PROVE FALSE
    OBVIOUS
  <2>1. PICK x \in T : x # Genesis => Parent[x] \notin T
    <3> HIDE DEF T
    <3>1. T \in SUBSET Blocks
      BY DEF T
    <3> QED
      BY <3>1, LowestBlock
  <2> HIDE DEF f, G
  <2>2. x \in Blocks /\ (x # Genesis => Total[Parent[x]] \in Int) /\ Minted[x] \in Int
    BY <2>1, LedgerAssumption DEF LedgerAssumption
  <2> QED
    BY <1>9, <2>1, <2>2
<1> HIDE DEF f, G
<1> QED
  BY <1>2, <1>9, <1>10
-----------------------------------------------------------------------------
(* The entries of a chain.                                                 *)

\* Genesis has the first entry alone, and a block adds its own update to
\* the entries of its parent, at a height that was free.
LEMMA EntriesOfBlock ==
  /\ \A h \in Heights : ChainEntry(Genesis, h) = IF h = 0 THEN InitialCost ELSE NoCost
  /\ \A b \in Blocks \ {Genesis} :
       /\ ChainEntry(b, Height(b)) = IF Height(b) < HeightGovernance THEN NoCost ELSE Update[b]
       /\ ChainEntry(Parent[b], Height(b)) = NoCost
       /\ \A h \in Heights \ {Height(b)} : ChainEntry(b, h) = ChainEntry(Parent[b], h)
<1> DEFINE On(b, h) == {y \in Chain[b] : Height(y) = h}
<1>1. ASSUME NEW h \in Heights
      PROVE  ChainEntry(Genesis, h) = IF h = 0 THEN InitialCost ELSE NoCost
  <2>1. h # 0 => On(Genesis, h) = {}
    BY ChainCases, HeightOfParent
  <2> QED
    BY <2>1 DEF ChainEntry
<1>2. ASSUME NEW b \in Blocks \ {Genesis}
      PROVE  /\ ChainEntry(b, Height(b)) =
                  IF Height(b) < HeightGovernance THEN NoCost ELSE Update[b]
             /\ ChainEntry(Parent[b], Height(b)) = NoCost
             /\ \A h \in Heights \ {Height(b)} : ChainEntry(b, h) = ChainEntry(Parent[b], h)
  <2> DEFINE p == Parent[b]
  <2>1. p \in Blocks /\ b \in Chain[b] /\ b \notin Chain[p] /\ Chain[b] = {b} \cup Chain[p]
    BY NotBelowParent, ChainBounds
  <2>2. Height(b) # 0
    BY HeightsDiffer, HeightsGrow, <2>1
  <2>3. On(p, Height(b)) = {}
    BY <2>1, HeightsDiffer
  <2>4. On(b, Height(b)) = {b}
    BY <2>1, <2>3
  <2>5. {Update[x] : x \in On(b, Height(b))} = {Update[b]}
    BY <2>4
  <2>6. ASSUME NEW h \in Heights \ {Height(b)}
        PROVE  ChainEntry(b, h) = ChainEntry(p, h)
    <3>1. On(b, h) = On(p, h)
      BY <2>1
    <3> QED
      BY <3>1, Zenon DEF ChainEntry
  <2>7. ChainEntry(b, Height(b)) = IF Height(b) < HeightGovernance THEN NoCost ELSE Update[b]
    <3>1. CASE Update[b] = NoCost
      <4>1. {Update[x] : x \in On(b, Height(b))} \ {NoCost} = {}
        BY <2>5, <3>1
      <4> QED
        BY <4>1, <2>2, <3>1 DEF ChainEntry
    <3>2. CASE Update[b] # NoCost
      <4>1. {Update[x] : x \in On(b, Height(b))} \ {NoCost} = {Update[b]}
        BY <2>5, <3>2
      <4>2. (CHOOSE cost \in {Update[b]} : TRUE) = Update[b]
        OBVIOUS
      <4> QED
        BY <4>1, <4>2, <2>2 DEF ChainEntry
    <3> QED
      BY <3>1, <3>2
  <2>8. ChainEntry(p, Height(b)) = NoCost
    <3>1. {Update[x] : x \in On(p, Height(b))} \ {NoCost} = {}
      BY <2>3
    <3> QED
      BY <3>1, <2>2 DEF ChainEntry
  <2> QED
    BY <2>6, <2>7, <2>8
<1> QED
  BY <1>1, <1>2
-----------------------------------------------------------------------------
(* The inductive invariant.                                                *)

\* VerifyDB walks between the block it stopped at and the tip, and nothing
\* is flushed meanwhile.
WalkOK ==
    /\ verify # "no" => flush = "no" /\ pindexState \in Chain[pindex] /\ pindex \in Chain[tip]
    /\ verify = "disconnect" => pindex = pindexState

\* The supply in memory and the one on disk are those of their blocks.
SupplyOK ==
    /\ ~supplyLost => nMoneySupply = Total[At]
    /\ diskSupplyAt # NoBlock => diskSupply = Total[diskSupplyAt]

\* The governance database is that of the block VerifyDB or the chain is at,
\* but for the heights that are astray.
EntriesOK == \A h \in Heights \ astray : governance[h] = ChainEntry(At, h)

\* The updates of the blocks that VerifyDB disconnected are gone, whatever
\* was there before, until it connects them again.
Cleared ==
    verify # "no" =>
        \A b \in Chain[tip] \ Chain[pindex] :
            Update[b] # NoCost => governance[Height(b)] = NoCost

\* The updates of the blocks that it connected again are there, when
\* governance is deployed at the tip.
Restored ==
    verify = "reconnect" /\ AreGovernanceDeployed =>
        \A b \in Chain[pindex] \ Chain[pindexState] :
            Update[b] # NoCost => governance[Height(b)] = Update[b]

LedgerInv == TypeOK /\ WalkOK /\ SupplyOK /\ EntriesOK /\ Cleared /\ Restored
\* The block that the state is of is a block.
LEMMA AtIsBlock == TypeOK => At \in Blocks
  BY DEF TypeOK, At

\* What a connected block does to the entries, one height at a time.
LEMMA UpdateWrites ==
  ASSUME TypeOK, NEW b \in Blocks
  PROVE  /\ UpdateCost(b) \in [Heights -> Range(Update) \cup {InitialCost, NoCost}]
         /\ \A h \in Heights \ {Height(b)} : UpdateCost(b)[h] = governance[h]
         /\ AreGovernanceDeployed /\ Update[b] # NoCost /\ governance[Height(b)] = NoCost =>
              UpdateCost(b)[Height(b)] = Update[b]
         /\ ~AreGovernanceDeployed \/ Update[b] = NoCost => UpdateCost(b) = governance
<1>1. Height(b) \in Heights /\ Update[b] \in Range(Update)
  BY LedgerAssumption DEF LedgerAssumption, Heights, Range
<1>2. governance \in [Heights -> Range(Update) \cup {InitialCost, NoCost}]
  BY DEF TypeOK
<1> QED
  BY <1>1, <1>2 DEF UpdateCost

\* The same for a disconnected block.
LEMMA RevertWrites ==
  ASSUME TypeOK, NEW b \in Blocks
  PROVE  /\ RevertUpdateCost(b) \in [Heights -> Range(Update) \cup {InitialCost, NoCost}]
         /\ \A h \in Heights \ {Height(b)} : RevertUpdateCost(b)[h] = governance[h]
         /\ Update[b] # NoCost => RevertUpdateCost(b)[Height(b)] = NoCost
         /\ Update[b] = NoCost => RevertUpdateCost(b) = governance
<1>1. Height(b) \in Heights
  BY DEF Heights
<1>2. governance \in [Heights -> Range(Update) \cup {InitialCost, NoCost}]
  BY DEF TypeOK
<1> QED
  BY <1>1, <1>2 DEF RevertUpdateCost

\* Connecting a block makes its parent's entries its own, but for an update
\* that is written below the first height with updates.
LEMMA ConnectEntries ==
  ASSUME TypeOK, NEW b \in Blocks \ {Genesis}, ConnectBlock(b),
         Height(b) >= HeightGovernance => AreGovernanceDeployed,
         \A h \in Heights \ astray : governance[h] = ChainEntry(Parent[b], h)
  PROVE  /\ astray' \subseteq Heights
         /\ \A h \in Heights \ astray' : governance'[h] = ChainEntry(b, h)
<1>1. Height(b) \in Heights /\ Height(b) \in Nat /\ HeightGovernance \in Nat
  BY HeightOfParent, LedgerAssumption DEF LedgerAssumption, Heights
<1>2. /\ governance' = UpdateCost(b) /\ astray \subseteq astray'
      /\ governance' # governance /\ Height(b) < HeightGovernance => Height(b) \in astray'
      /\ astray' \subseteq Heights
  BY <1>1 DEF ConnectBlock, TypeOK
<1>3. ASSUME NEW h \in Heights \ astray', h # Height(b)
      PROVE  governance'[h] = ChainEntry(b, h)
  BY <1>2, <1>3, UpdateWrites, EntriesOfBlock
<1>4. ASSUME Height(b) \notin astray'
      PROVE  governance'[Height(b)] = ChainEntry(b, Height(b))
  <2>1. governance[Height(b)] = NoCost
    BY <1>1, <1>2, <1>4, EntriesOfBlock
  <2>2. CASE Height(b) < HeightGovernance
    BY <1>2, <1>4, <2>1, <2>2, EntriesOfBlock
  <2>3. CASE ~(Height(b) < HeightGovernance)
    <3>1. AreGovernanceDeployed /\ ChainEntry(b, Height(b)) = Update[b]
      BY <1>1, <2>3, EntriesOfBlock
    <3> QED
      BY <1>2, <2>1, <3>1, UpdateWrites
  <2> QED
    BY <2>2, <2>3
<1> QED
  BY <1>2, <1>3, <1>4

\* Disconnecting it brings its parent's back, and rights its own height when
\* no entry is left there.
LEMMA DisconnectEntries ==
  ASSUME TypeOK, NEW b \in Blocks \ {Genesis}, DisconnectBlock(b),
         \A h \in Heights \ astray : governance[h] = ChainEntry(b, h)
  PROVE  /\ astray' \subseteq Heights
         /\ \A h \in Heights \ astray' : governance'[h] = ChainEntry(Parent[b], h)
<1>1. Height(b) \in Heights
  BY DEF Heights
<1>2. /\ governance' = RevertUpdateCost(b) /\ astray' \subseteq Heights
      /\ \A h \in Heights \ {Height(b)} : h \in astray => h \in astray'
      /\ Height(b) \notin astray' => Height(b) \notin astray \/ governance'[Height(b)] = NoCost
  BY DEF DisconnectBlock, TypeOK
<1>3. ASSUME NEW h \in Heights \ astray', h # Height(b)
      PROVE  governance'[h] = ChainEntry(Parent[b], h)
  BY <1>2, <1>3, RevertWrites, EntriesOfBlock
<1>4. ASSUME Height(b) \notin astray'
      PROVE  governance'[Height(b)] = ChainEntry(Parent[b], Height(b))
  <2>1. ChainEntry(Parent[b], Height(b)) = NoCost
    BY EntriesOfBlock
  <2>2. CASE Height(b) \notin astray /\ Update[b] = NoCost
    BY <1>1, <1>2, <2>1, <2>2, RevertWrites, EntriesOfBlock
  <2>3. CASE Height(b) \in astray \/ Update[b] # NoCost
    BY <1>2, <1>4, <2>1, <2>3, RevertWrites
  <2> QED
    BY <2>2, <2>3
<1> QED
  BY <1>2, <1>3, <1>4

\* Two blocks have the same entry at every height where no update is on the
\* chain of one of them alone.
LEMMA SameApart ==
  ASSUME NEW b \in Blocks, NEW c \in Blocks
  PROVE  /\ Apart(b, c) \subseteq Heights
         /\ \A h \in Heights \ Apart(b, c) : ChainEntry(b, h) = ChainEntry(c, h)
<1>1. Apart(b, c) \subseteq Heights
  BY ChainBounds DEF Apart, UpdateHeights, Heights
<1>2. ASSUME NEW h \in Heights \ Apart(b, c)
      PROVE  ChainEntry(b, h) = ChainEntry(c, h)
  <2> DEFINE On(d) == {Update[x] : x \in {y \in Chain[d] : Height(y) = h}} \ {NoCost}
  <2>1. \A x \in (Chain[b] \ Chain[c]) \cup (Chain[c] \ Chain[b]) :
          Height(x) = h => Update[x] = NoCost
    BY DEF Apart, UpdateHeights
  <2>2. On(b) = On(c)
    BY <2>1
  <2> QED
    BY <2>2, Zenon DEF ChainEntry
<1> QED
  BY <1>1, <1>2

\* The heights at which two blocks differ may be added to those astray when
\* the state passes from one to the other.
LEMMA MovedEntries ==
  ASSUME TypeOK, EntriesOK, At \in Blocks, NEW c \in Blocks, At' = c,
         astray' \subseteq Heights, astray \cup Apart(At, c) \subseteq astray',
         \A h \in Heights \ astray' : governance'[h] = governance[h]
  PROVE  EntriesOK'
<1>1. \A h \in Heights \ astray' : governance'[h] = ChainEntry(c, h)
  BY SameApart DEF EntriesOK
<1> QED
  BY <1>1 DEF EntriesOK

\* A VerifyDB that begins at the tip has all of its invariant.
LEMMA BeginKeeps ==
  ASSUME tip' \in Blocks, flush' = "no", verify' = "disconnect",
         pindex' = tip', pindexState' = tip'
  PROVE  WalkOK' /\ Cleared' /\ Restored' /\ At' = tip'
<1>1. tip' \in Chain[tip']
  BY ChainBounds
<1> QED
  BY <1>1 DEF WalkOK, Cleared, Restored, At

\* A node that runs no VerifyDB has no such invariant to keep.
LEMMA IdleKeeps ==
  ASSUME verify' = "no"
  PROVE  WalkOK' /\ Cleared' /\ Restored' /\ At' = tip'
  BY DEF WalkOK, Cleared, Restored, At

\* The first state has the invariant.
LEMMA InitOK == Init => LedgerInv
<1> SUFFICES ASSUME Init PROVE LedgerInv
  OBVIOUS
<1> USE DEF Init
<1>1. TypeOK
  <2>1. Genesis \in Blocks /\ 0 \in 0..MaxLosses
    BY LedgerAssumption DEF LedgerAssumption
  <2>2. governance \in [Heights -> Range(Update) \cup {InitialCost, NoCost}]
    OBVIOUS
  <2>3. {fLoaded, supplyLost} \subseteq BOOLEAN /\ astray \subseteq Heights
    BY Zenon
  <2> QED
    BY <2>1, <2>2, <2>3 DEF TypeOK
<1>2. WalkOK /\ Cleared /\ Restored /\ At = Genesis
  BY DEF WalkOK, Cleared, Restored, At
<1>3. SupplyOK
  BY <1>2, TotalUnfolds DEF SupplyOK
<1>4. EntriesOK
  BY <1>2, EntriesOfBlock DEF EntriesOK
<1> QED
  BY <1>1, <1>2, <1>3, <1>4 DEF LedgerInv

\* ConnectTip keeps it: the block's update goes to a height that was free.
LEMMA ConnectTipStep ==
  ASSUME LedgerInv, NEW b \in Blocks, ConnectTip(b)
  PROVE  LedgerInv'
<1> USE DEF LedgerInv
<1>1. /\ verify = "no" /\ verify' = "no" /\ b # Genesis /\ Parent[b] = tip /\ tip' = b
      /\ governance' = UpdateCost(b) /\ nMoneySupply' = nMoneySupply + Minted[b]
      /\ ConnectBlock(b) /\ UNCHANGED <<fLoaded, disk, flush, verifying, lossy>>
  BY DEF ConnectTip, Running, NextBlocks, ConnectBlock, verifying
<1>2. Minted[b] \in Int /\ Total[b] = Total[tip] + Minted[b]
  BY <1>1, TotalUnfolds, LedgerAssumption DEF LedgerAssumption
<1>3. At = tip /\ At' = b /\ WalkOK' /\ Cleared' /\ Restored'
  BY <1>1, IdleKeeps DEF At
<1>4. Height(b) >= HeightGovernance => AreGovernanceDeployed
  <2>1. Height(tip) = Height(b) - 1 /\ Height(b) \in Nat
    BY <1>1, HeightOfParent
  <2>2. Height(tip) + 1 = Height(b)
    BY <2>1
  <2> QED
    BY <2>2 DEF AreGovernanceDeployed
<1>5. astray' \subseteq Heights /\ \A h \in Heights \ astray' : governance'[h] = ChainEntry(b, h)
  BY <1>1, <1>3, <1>4, ConnectEntries DEF EntriesOK
<1>6. TypeOK'
  BY <1>1, <1>2, <1>5, UpdateWrites DEF TypeOK, disk, verifying, lossy
<1>7. SupplyOK'
  BY <1>1, <1>2, <1>3 DEF SupplyOK, TypeOK, disk, lossy
<1>8. EntriesOK'
  BY <1>3, <1>5 DEF EntriesOK
<1> QED
  BY <1>3, <1>6, <1>7, <1>8

\* A block that is refused keeps it: it only marks the database as astray.
LEMMA CheckOnlyStep ==
  ASSUME LedgerInv, NEW b \in Blocks, CheckOnly(b)
  PROVE  LedgerInv'
<1> USE DEF LedgerInv
<1>1. /\ verify = "no" /\ verify' = "no" /\ governance' = UpdateCost(b)
      /\ UNCHANGED <<memory, disk, flush, verifying, lossy>>
      /\ astray \subseteq astray' /\ astray' \subseteq astray \cup {Height(b)}
      /\ governance' = governance \/ Height(b) \in astray'
  BY DEF CheckOnly, Running, verifying
<1>2. TypeOK'
  <2>1. astray' \subseteq Heights
    BY <1>1 DEF Heights, TypeOK
  <2> QED
    BY <1>1, <2>1, UpdateWrites DEF TypeOK, memory, disk, verifying, lossy
<1>3. At = tip /\ At' = tip /\ WalkOK' /\ Cleared' /\ Restored'
  BY <1>1, IdleKeeps DEF At, memory
<1>4. SupplyOK'
  BY <1>1, <1>3 DEF SupplyOK, memory, disk, lossy
<1>5. EntriesOK'
  BY <1>1, <1>3, UpdateWrites DEF EntriesOK
<1> QED
  BY <1>2, <1>3, <1>4, <1>5

\* DisconnectTip keeps it: the parent had no entry at the block's height.
LEMMA DisconnectTipStep ==
  ASSUME LedgerInv, DisconnectTip
  PROVE  LedgerInv'
<1> USE DEF LedgerInv
<1>1. /\ verify = "no" /\ verify' = "no" /\ tip # Genesis /\ tip' = Parent[tip]
      /\ governance' = RevertUpdateCost(tip) /\ nMoneySupply' = nMoneySupply - Minted[tip]
      /\ flush' = "index" /\ DisconnectBlock(tip)
      /\ UNCHANGED <<fLoaded, disk, verifying, lossy>>
  BY DEF DisconnectTip, Running, DisconnectBlock, verifying
<1>2. tip \in Blocks \ {Genesis} /\ Parent[tip] \in Blocks
  BY <1>1, LedgerAssumption DEF LedgerAssumption, TypeOK
<1>3. /\ Minted[tip] \in Int /\ Total[Parent[tip]] \in Int
      /\ Total[tip] = Total[Parent[tip]] + Minted[tip]
  BY <1>2, TotalUnfolds, LedgerAssumption DEF LedgerAssumption
<1>4. At = tip /\ At' = Parent[tip] /\ WalkOK' /\ Cleared' /\ Restored'
  BY <1>1, IdleKeeps DEF At
<1>5. /\ astray' \subseteq Heights
      /\ \A h \in Heights \ astray' : governance'[h] = ChainEntry(Parent[tip], h)
  BY <1>1, <1>2, <1>4, DisconnectEntries DEF EntriesOK
<1>6. TypeOK'
  <2>1. governance' \in [Heights -> Range(Update) \cup {InitialCost, NoCost}]
    BY <1>1, <1>2, RevertWrites
  <2>2. nMoneySupply \in Int
    BY DEF TypeOK
  <2>3. nMoneySupply' \in Int
    BY <1>1, <1>3, <2>2
  <2> QED
    BY <1>1, <1>2, <1>5, <2>1, <2>3 DEF TypeOK, disk, verifying, lossy
<1>7. SupplyOK'
  BY <1>1, <1>3, <1>4 DEF SupplyOK, TypeOK, disk, lossy
<1>8. EntriesOK'
  BY <1>4, <1>5 DEF EntriesOK
<1> QED
  BY <1>4, <1>6, <1>7, <1>8

\* A DisconnectTip that fails keeps it: the height of the tip is astray.
LEMMA DisconnectTipFailsStep ==
  ASSUME LedgerInv, DisconnectTipFails
  PROVE  LedgerInv'
<1> USE DEF LedgerInv
<1>1. /\ verify = "no" /\ verify' = "no" /\ tip # Genesis /\ tip' = tip
      /\ losses < MaxLosses /\ losses' = losses + 1
      /\ governance' = RevertUpdateCost(tip)
      /\ astray' = astray \cup UpdateHeights({tip})
      /\ nMoneySupply' \in {nMoneySupply, nMoneySupply - Minted[tip]}
      /\ supplyLost' = (supplyLost \/ nMoneySupply' # nMoneySupply)
      /\ UNCHANGED <<fLoaded, disk, flush, verifying>>
  BY DEF DisconnectTipFails, Running, verifying
<1>2. tip \in Blocks /\ Minted[tip] \in Int /\ nMoneySupply \in Int
  BY LedgerAssumption DEF LedgerAssumption, TypeOK
<1>3. nMoneySupply' \in Int /\ losses' \in 0..MaxLosses /\ supplyLost' \in BOOLEAN
  BY <1>1, <1>2, LedgerAssumption DEF LedgerAssumption, TypeOK
<1>4. astray' \subseteq Heights
  BY <1>1, <1>2 DEF UpdateHeights, Heights, TypeOK
<1>5. TypeOK'
  BY <1>1, <1>2, <1>3, <1>4, RevertWrites, Zenon DEF TypeOK, disk, verifying
<1>6. At = tip /\ At' = tip /\ WalkOK' /\ Cleared' /\ Restored'
  BY <1>1, IdleKeeps DEF At
<1>7. SupplyOK'
  BY <1>1, <1>6, Zenon DEF SupplyOK, disk
<1>8. ASSUME NEW h \in Heights \ astray' PROVE governance'[h] = governance[h]
  <2>1. h # Height(tip) \/ Update[tip] = NoCost
    BY <1>1, <1>8 DEF UpdateHeights
  <2> QED
    BY <1>1, <1>2, <2>1, RevertWrites
<1>9. EntriesOK'
  BY <1>1, <1>6, <1>8, Zenon DEF EntriesOK
<1> QED
  BY <1>5, <1>6, <1>7, <1>9

\* A write of the supply leaves the supply of its block on disk.
LEMMA SupplyWritten ==
  ASSUME TypeOK, NEW b \in Blocks, ~supplyLost => nMoneySupply = Total[b],
         WriteMoneySupply(b)
  PROVE  /\ diskSupplyAt' \in Blocks \cup {NoBlock} /\ diskSupply' \in Int
         /\ diskSupplyAt' # NoBlock => diskSupply' = Total[diskSupplyAt']
  BY DEF WriteMoneySupply, TypeOK

\* The write of the index keeps it, with the supply of the tip on disk.
LEMMA WriteIndexStep ==
  ASSUME LedgerInv, NEW rest \in {"no", "coins"}, WriteIndex(rest)
  PROVE  LedgerInv'
<1> USE DEF LedgerInv
<1>1. /\ verify = "no" /\ verify' = "no" /\ flush' = rest /\ WriteMoneySupply(tip)
      /\ UNCHANGED <<memory, governance, diskTip, verifying, lossy, astray>>
  BY DEF WriteIndex, verifying
<1>2. At = tip /\ At' = tip /\ WalkOK' /\ Cleared' /\ Restored'
  BY <1>1, IdleKeeps DEF At, memory
<1>3. tip \in Blocks /\ (~supplyLost => nMoneySupply = Total[tip])
  BY <1>2 DEF TypeOK, SupplyOK
<1>4. TypeOK'
  BY <1>1, <1>3, SupplyWritten DEF TypeOK, memory, verifying, lossy
<1>5. SupplyOK'
  BY <1>1, <1>2, <1>3, SupplyWritten DEF SupplyOK, memory, lossy
<1>6. EntriesOK'
  BY <1>1, <1>2 DEF EntriesOK
<1> QED
  BY <1>2, <1>4, <1>5, <1>6

\* The write of the coins keeps it.
LEMMA WriteCoinsStep ==
  ASSUME LedgerInv, WriteCoins
  PROVE  LedgerInv'
<1> USE DEF LedgerInv
<1>1. /\ verify = "no" /\ verify' = "no" /\ flush' = "no" /\ diskTip' = tip
      /\ UNCHANGED <<memory, governance, diskSupply, diskSupplyAt, verifying, lossy, astray>>
  BY DEF WriteCoins, WalkOK, TypeOK, verifying
<1>2. At = tip /\ At' = tip /\ WalkOK' /\ Cleared' /\ Restored'
  BY <1>1, IdleKeeps DEF At, memory
<1>3. TypeOK'
  BY <1>1 DEF TypeOK, memory, verifying, lossy
<1>4. SupplyOK'
  BY <1>1, <1>2 DEF SupplyOK, memory, lossy
<1>5. EntriesOK'
  BY <1>1, <1>2 DEF EntriesOK
<1> QED
  BY <1>2, <1>3, <1>4, <1>5

\* A shutdown and the start after it keep it.
LEMMA ShutdownStep ==
  ASSUME LedgerInv, Shutdown
  PROVE  LedgerInv'
<1> USE DEF LedgerInv
<1>1. /\ At = tip /\ tip' = tip /\ diskTip' = tip /\ nMoneySupply' = nMoneySupply
      /\ flush' = "no" /\ verify' = "disconnect" /\ pindexState' = tip /\ pindex' = tip
      /\ WriteMoneySupply(tip) /\ fLoaded' = FALSE /\ UNCHANGED <<governance, lossy, astray>>
  BY DEF Shutdown, Start, Running, At
<1>2. tip \in Blocks /\ (~supplyLost => nMoneySupply = Total[tip])
  BY <1>1 DEF TypeOK, SupplyOK
<1>3. At' = tip /\ WalkOK' /\ Cleared' /\ Restored'
  BY <1>1, <1>2, BeginKeeps
<1>4. TypeOK'
  BY <1>1, <1>2, SupplyWritten, Zenon DEF TypeOK, lossy
<1>5. SupplyOK'
  BY <1>1, <1>2, <1>3, SupplyWritten DEF SupplyOK, lossy
<1>6. EntriesOK'
  BY <1>1, <1>3 DEF EntriesOK
<1> QED
  BY <1>3, <1>4, <1>5, <1>6

\* The process starts with the coins database's best block and either the
\* supply on disk or the one it counts.
LEMMA CrashStep ==
  ASSUME LedgerInv, Crash \/ CrashReindexing
  PROVE  LedgerInv'
<1> USE DEF LedgerInv
<1>1. /\ losses < MaxLosses /\ losses' = losses + 1
      /\ astray' = astray \cup Apart(At, diskTip) /\ fLoaded' = FALSE
      /\ tip' = diskTip /\ flush' = "no" /\ verify' = "disconnect"
      /\ pindexState' = diskTip /\ pindex' = diskTip
      /\ UNCHANGED <<governance, disk>>
      /\ \/ supplyLost' = (diskSupplyAt # diskTip) /\ nMoneySupply' = diskSupply
         \/ supplyLost' = FALSE /\ nMoneySupply' = Total[diskTip]
  BY DEF Crash, CrashReindexing, Start
<1>2. diskTip \in Blocks /\ diskTip # NoBlock /\ Total[diskTip] \in Int
  BY TotalUnfolds, LedgerAssumption DEF LedgerAssumption, TypeOK
<1>3. At' = diskTip /\ WalkOK' /\ Cleared' /\ Restored'
  BY <1>1, <1>2, BeginKeeps
<1>4. losses' \in 0..MaxLosses
  BY <1>1, LedgerAssumption DEF LedgerAssumption, TypeOK
<1>5. supplyLost' \in BOOLEAN /\ At \in Blocks /\ astray' \subseteq Heights
  BY <1>1, <1>2, AtIsBlock, SameApart, Zenon DEF TypeOK
<1>6. TypeOK'
  BY <1>1, <1>2, <1>4, <1>5, Zenon DEF TypeOK, disk
<1>7. SupplyOK'
  BY <1>1, <1>2, <1>3, Zenon DEF SupplyOK, disk
<1>8. EntriesOK'
  BY <1>1, <1>2, <1>3, <1>5, MovedEntries
<1> QED
  BY <1>3, <1>6, <1>7, <1>8

\* The verifychain RPC keeps it as it begins.
LEMMA VerifyChainStep ==
  ASSUME LedgerInv, VerifyChain
  PROVE  LedgerInv'
<1> USE DEF LedgerInv
<1>1. /\ At = tip /\ tip' = tip /\ flush' = "no"
      /\ verify' = "disconnect" /\ pindexState' = tip /\ pindex' = tip
      /\ UNCHANGED <<memory, governance, disk, flush, lossy, astray>>
  BY DEF VerifyChain, Running, At, memory
<1>2. tip \in Blocks
  BY DEF TypeOK
<1>3. At' = tip /\ WalkOK' /\ Cleared' /\ Restored'
  BY <1>1, <1>2, BeginKeeps
<1>4. TypeOK'
  BY <1>1, <1>2 DEF TypeOK, memory, disk, lossy
<1>5. SupplyOK'
  BY <1>1, <1>3 DEF SupplyOK, memory, disk, lossy
<1>6. EntriesOK'
  BY <1>1, <1>3 DEF EntriesOK
<1> QED
  BY <1>3, <1>4, <1>5, <1>6
\* A round of the first loop keeps it, and clears the block's update whatever
\* the entry was.
LEMMA VerifyDisconnectStep ==
  ASSUME LedgerInv, VerifyDisconnect
  PROVE  LedgerInv'
<1> USE DEF LedgerInv
<1> DEFINE p == Parent[pindex]
<1>1. /\ verify = "disconnect" /\ verify' = "disconnect" /\ pindex # Genesis
      /\ governance' = RevertUpdateCost(pindex)
      /\ nMoneySupply' = nMoneySupply - Minted[pindex]
      /\ pindexState' = p /\ pindex' = p /\ tip' = tip
      /\ DisconnectBlock(pindex) /\ UNCHANGED <<fLoaded, disk, flush, lossy>>
  BY DEF VerifyDisconnect, DisconnectBlock
<1>2. pindex \in Blocks \ {Genesis} /\ p \in Blocks /\ tip \in Blocks /\ pindex \in Chain[tip] /\ flush = "no"
  BY <1>1, LedgerAssumption DEF LedgerAssumption, TypeOK, WalkOK
<1>3. /\ Minted[pindex] \in Int /\ Total[p] \in Int
      /\ Total[pindex] = Total[p] + Minted[pindex]
  BY <1>2, TotalUnfolds, LedgerAssumption DEF LedgerAssumption
<1>4. /\ At = pindex /\ At' = p /\ astray' \subseteq Heights
      /\ \A h \in Heights \ astray' : governance'[h] = ChainEntry(p, h)
  <2>1. At = pindex /\ At' = p
    BY <1>1 DEF At
  <2> QED
    BY <1>1, <1>2, <2>1, DisconnectEntries DEF EntriesOK
<1>5. TypeOK'
  <2>1. governance' \in [Heights -> Range(Update) \cup {InitialCost, NoCost}]
    BY <1>1, <1>2, RevertWrites
  <2>2. nMoneySupply \in Int
    BY DEF TypeOK
  <2>3. nMoneySupply' \in Int
    BY <1>1, <1>3, <2>2
  <2> QED
    BY <1>1, <1>2, <1>4, <2>1, <2>3 DEF TypeOK, disk, lossy
<1>6. WalkOK' /\ Restored'
  <2>1. p \in Chain[p] /\ p \in Chain[tip]
    BY <1>2, ChainBounds, ParentOnChain
  <2> QED
    BY <1>1, <1>2, <2>1 DEF WalkOK, Restored
<1>7. SupplyOK'
  BY <1>1, <1>3, <1>4 DEF SupplyOK, TypeOK, disk, lossy
<1>8. EntriesOK'
  BY <1>4 DEF EntriesOK
<1>9. Cleared'
  <2> SUFFICES ASSUME NEW b \in Chain[tip] \ Chain[p], Update[b] # NoCost
               PROVE  RevertUpdateCost(pindex)[Height(b)] = NoCost
    BY <1>1 DEF Cleared
  <2>1. CASE b = pindex
    BY <1>2, <2>1, RevertWrites
  <2>2. CASE b # pindex
    <3>1. b \in Blocks /\ Height(b) \in Heights /\ Height(b) # Height(pindex)
      BY <1>2, <2>2, ChainBounds, HeightsDiffer DEF Heights
    <3>2. b \notin Chain[pindex]
      BY <1>2, <2>2, ChainCases
    <3>3. governance[Height(b)] = NoCost
      BY <1>1, <3>2 DEF Cleared
    <3> QED
      BY <1>2, <3>1, <3>3, RevertWrites
  <2> QED
    BY <2>1, <2>2
<1> QED
  BY <1>5, <1>6, <1>7, <1>8, <1>9

\* The end of the first loop keeps it: nothing is connected again yet.
LEMMA VerifyTurnStep ==
  ASSUME LedgerInv, VerifyTurn
  PROVE  LedgerInv'
<1> USE DEF LedgerInv
<1>1. /\ verify = "disconnect" /\ verify' = "reconnect" /\ pindex = pindexState
      /\ UNCHANGED <<memory, governance, disk, flush, pindexState, pindex, lossy, astray>>
  BY DEF VerifyTurn, WalkOK
<1>2. TypeOK'
  BY <1>1 DEF TypeOK, memory, disk, lossy
<1>3. WalkOK' /\ Restored' /\ Cleared'
  BY <1>1 DEF WalkOK, Restored, Cleared, memory
<1>4. At' = At
  BY <1>1 DEF At
<1>5. SupplyOK' /\ EntriesOK'
  BY <1>1, <1>4 DEF SupplyOK, EntriesOK, memory, disk, lossy
<1> QED
  BY <1>2, <1>3, <1>5

\* A VerifyDB that does not end keeps it, whether the node shuts down or goes
\* on: the heights where the block it has reached differs from the tip are
\* astray.
LEMMA HalfwayStep ==
  ASSUME LedgerInv, verify # "no", losses < MaxLosses, losses' = losses + 1,
         supplyLost' = (supplyLost \/ pindex # tip),
         governance' \in [Heights -> Range(Update) \cup {InitialCost, NoCost}],
         astray' \subseteq Heights, astray \cup Apart(pindex, tip) \subseteq astray',
         \A h \in Heights \ astray' : governance'[h] = governance[h],
         \/ verify' = "no" /\ UNCHANGED <<memory, disk, flush, pindexState, pindex>>
         \/ ShutdownHalfway
  PROVE  LedgerInv'
<1> USE DEF LedgerInv
<1>1. At = pindex /\ {tip, pindex, pindexState} \subseteq Blocks
  BY DEF At, TypeOK
<1>2. losses' \in 0..MaxLosses /\ supplyLost' \in BOOLEAN
  BY LedgerAssumption DEF LedgerAssumption, TypeOK
<1>3. ~supplyLost => nMoneySupply = Total[pindex]
  BY <1>1 DEF SupplyOK
<1>4. CASE verify' = "no" /\ UNCHANGED <<memory, disk, flush, pindexState, pindex>>
  <2>1. At' = tip /\ WalkOK' /\ Cleared' /\ Restored'
    BY <1>4, IdleKeeps DEF memory
  <2>2. TypeOK'
    BY <1>2, <1>4 DEF TypeOK, memory, disk
  <2>3. SupplyOK'
    BY <1>3, <1>4, <2>1, ZenonT(30) DEF SupplyOK, memory, disk
  <2>4. EntriesOK'
    BY <1>1, <2>1, MovedEntries
  <2> QED
    BY <2>1, <2>2, <2>3, <2>4
<1>5. CASE ShutdownHalfway
  <2>1. /\ tip' = tip /\ diskTip' = tip /\ nMoneySupply' = nMoneySupply /\ fLoaded' = FALSE
        /\ flush' = "no" /\ verify' = "disconnect" /\ pindexState' = tip /\ pindex' = tip
        /\ WriteMoneySupply(pindex)
    BY <1>5 DEF ShutdownHalfway, Start
  <2>2. At' = tip /\ WalkOK' /\ Cleared' /\ Restored'
    BY <1>1, <2>1, BeginKeeps
  <2>3. TypeOK'
    BY <1>1, <1>2, <1>3, <2>1, SupplyWritten, Zenon DEF TypeOK
  <2>4. SupplyOK'
    BY <1>1, <1>3, <2>1, <2>2, SupplyWritten, ZenonT(30) DEF SupplyOK
  <2>5. EntriesOK'
    BY <1>1, <2>2, MovedEntries
  <2> QED
    BY <2>2, <2>3, <2>4, <2>5
<1> QED
  BY <1>4, <1>5

\* A shutdown in the first loop keeps it, with the supply of the block that
\* VerifyDB has reached on disk.
LEMMA VerifyInterruptedStep ==
  ASSUME LedgerInv, VerifyInterrupted
  PROVE  LedgerInv'
<1>1. /\ verify # "no" /\ losses < MaxLosses /\ losses' = losses + 1
      /\ supplyLost' = (supplyLost \/ pindex # tip)
      /\ astray' = astray \cup Apart(pindex, tip)
      /\ ShutdownHalfway /\ governance' = governance
  BY DEF VerifyInterrupted
<1>2. TypeOK /\ {tip, pindex} \subseteq Blocks
  BY DEF LedgerInv, TypeOK
<1>3. /\ governance' \in [Heights -> Range(Update) \cup {InitialCost, NoCost}]
      /\ astray' \subseteq Heights
  BY <1>1, <1>2, SameApart DEF TypeOK
<1> QED
  BY <1>1, <1>3, HalfwayStep

\* An error return keeps it: what the last round wrote is astray too.
LEMMA VerifyFailsStep ==
  ASSUME LedgerInv, VerifyFails
  PROVE  LedgerInv'
<1> DEFINE wrote == {h \in Heights : governance'[h] # governance[h]}
<1>1. /\ verify # "no" /\ losses < MaxLosses /\ losses' = losses + 1
      /\ supplyLost' = (supplyLost \/ pindex # tip)
      /\ astray' = astray \cup Apart(pindex, tip) \cup wrote
      /\ \/ verify' = "no" /\ UNCHANGED <<memory, disk, flush, pindexState, pindex>>
         \/ ShutdownHalfway
  BY DEF VerifyFails
<1>2. TypeOK /\ {tip, pindex} \subseteq Blocks
  BY DEF LedgerInv, TypeOK
<1>3. governance' \in [Heights -> Range(Update) \cup {InitialCost, NoCost}]
  <2>1. CASE governance' = governance
    BY <1>2, <2>1 DEF TypeOK
  <2>2. CASE governance' = RevertUpdateCost(pindex)
    BY <1>2, <2>2, RevertWrites
  <2>3. ASSUME NEW b \in ReconnectBlocks, governance' = UpdateCost(b)
        PROVE  governance' \in [Heights -> Range(Update) \cup {InitialCost, NoCost}]
    <3>1. b \in Blocks
      BY <1>2, ChainBounds DEF ReconnectBlocks
    <3> QED
      BY <1>2, <2>3, <3>1, UpdateWrites
  <2> QED
    BY <2>1, <2>2, <2>3 DEF VerifyFails
<1>4. /\ astray' \subseteq Heights /\ astray \cup Apart(pindex, tip) \subseteq astray'
      /\ \A h \in Heights \ astray' : governance'[h] = governance[h]
  BY <1>1, <1>2, SameApart DEF TypeOK
<1> HIDE DEF wrote
<1> QED
  BY <1>1, <1>3, <1>4, HalfwayStep

\* A round of the second loop keeps it: the height of its block was cleared,
\* so that the update is written, and no other block of the chain has it.
LEMMA VerifyReconnectStep ==
  ASSUME LedgerInv, VerifyReconnect
  PROVE  LedgerInv'
<1> USE DEF LedgerInv
<1>1. PICK b \in Chain[tip] \ {Genesis} :
        /\ verify = "reconnect" /\ verify' = "reconnect"
        /\ Parent[b] = pindex /\ pindex' = b /\ tip' = tip
        /\ governance' = UpdateCost(b) /\ nMoneySupply' = nMoneySupply + Minted[b]
        /\ ConnectBlock(b) /\ UNCHANGED <<fLoaded, disk, flush, pindexState, lossy>>
  BY DEF VerifyReconnect, ReconnectBlocks, ConnectBlock
<1>2. /\ b \in Blocks \ {Genesis} /\ {tip, pindex, pindexState} \subseteq Blocks
      /\ flush = "no" /\ pindexState \in Chain[pindex]
  BY <1>1, ChainBounds DEF TypeOK, WalkOK
<1>3. Minted[b] \in Int /\ Total[b] = Total[pindex] + Minted[b]
  BY <1>1, <1>2, TotalUnfolds, LedgerAssumption DEF LedgerAssumption
<1>4. /\ At = pindex /\ At' = b /\ astray' \subseteq Heights
      /\ \A h \in Heights \ astray' : governance'[h] = ChainEntry(b, h)
  <2>1. At = pindex /\ At' = b
    BY <1>1 DEF At
  <2>2. Height(b) >= HeightGovernance => AreGovernanceDeployed
    <3>1. {Height(b), Height(tip), HeightGovernance} \subseteq Nat /\ (b = tip \/ Height(b) < Height(tip))
      BY <1>1, <1>2, HeightsGrow, LedgerAssumption DEF LedgerAssumption
    <3> QED
      BY <3>1 DEF AreGovernanceDeployed
  <2> QED
    BY <1>1, <1>2, <2>1, <2>2, ConnectEntries DEF EntriesOK
<1>5. Chain[b] = {b} \cup Chain[pindex] /\ b \notin Chain[pindex]
  BY <1>1, <1>2, NotBelowParent
<1>6. TypeOK'
  <2>1. governance' \in [Heights -> Range(Update) \cup {InitialCost, NoCost}]
    BY <1>1, <1>2, UpdateWrites
  <2>2. nMoneySupply \in Int /\ nMoneySupply' = nMoneySupply + Minted[b]
    BY <1>1 DEF TypeOK
  <2>3. nMoneySupply' \in Int
    BY <1>3, <2>2
  <2> QED
    BY <1>1, <1>2, <1>4, <2>1, <2>3 DEF TypeOK, disk, lossy
<1>7. WalkOK'
  BY <1>1, <1>2, <1>5 DEF WalkOK
<1>8. SupplyOK'
  BY <1>1, <1>3, <1>4 DEF SupplyOK, TypeOK, disk, lossy
<1>9. EntriesOK'
  BY <1>4 DEF EntriesOK
<1>10. ASSUME NEW x \in Chain[tip] \cup Chain[b], x # b
       PROVE  UpdateCost(b)[Height(x)] = governance[Height(x)]
  <2>1. x \in Chain[tip]
    BY <1>1, <1>2, ChainTransitive
  <2>2. x \in Blocks /\ Height(x) \in Heights /\ Height(x) # Height(b)
    BY <1>1, <1>2, <1>10, <2>1, ChainBounds, HeightsDiffer DEF Heights
  <2> QED
    BY <1>2, <2>2, UpdateWrites
<1>11. Cleared'
  <2> SUFFICES ASSUME NEW x \in Chain[tip] \ Chain[b], Update[x] # NoCost
               PROVE  UpdateCost(b)[Height(x)] = NoCost
    BY <1>1 DEF Cleared
  <2>1. x # b /\ x \notin Chain[pindex]
    BY <1>5
  <2>2. governance[Height(x)] = NoCost
    BY <1>1, <2>1 DEF Cleared
  <2> QED
    BY <1>10, <2>1, <2>2
<1>12. Restored'
  <2> SUFFICES ASSUME AreGovernanceDeployed,
                      NEW x \in Chain[b] \ Chain[pindexState], Update[x] # NoCost
               PROVE  UpdateCost(b)[Height(x)] = Update[x]
    BY <1>1 DEF Restored, AreGovernanceDeployed
  <2>1. CASE x = b
    <3>1. governance[Height(b)] = NoCost
      BY <1>1, <1>5, <2>1 DEF Cleared
    <3> QED
      BY <1>2, <2>1, <3>1, UpdateWrites
  <2>2. CASE x # b
    <3>1. governance[Height(x)] = Update[x]
      BY <1>1, <1>5, <2>2 DEF Restored
    <3> QED
      BY <1>10, <2>2, <3>1
  <2> QED
    BY <2>1, <2>2
<1> QED
  BY <1>6, <1>7, <1>8, <1>9, <1>11, <1>12
\* The end of the second loop keeps it.
LEMMA VerifyDoneStep ==
  ASSUME LedgerInv, VerifyDone
  PROVE  LedgerInv'
<1> USE DEF LedgerInv
<1>1. /\ verify = "reconnect" /\ verify' = "no" /\ pindex = tip /\ fLoaded' = TRUE
      /\ UNCHANGED <<tip, nMoneySupply, governance, disk, flush, pindexState, pindex, lossy, astray>>
  BY DEF VerifyDone
<1>2. TypeOK'
  BY <1>1 DEF TypeOK, disk, lossy
<1>3. At' = At /\ WalkOK' /\ Restored' /\ Cleared'
  BY <1>1, IdleKeeps DEF At
<1>4. SupplyOK' /\ EntriesOK'
  BY <1>1, <1>3 DEF SupplyOK, EntriesOK, disk, lossy
<1> QED
  BY <1>2, <1>3, <1>4

\* Every step keeps the invariant.
LEMMA StepOK == LedgerInv /\ [Next]_vars => LedgerInv'
<1> SUFFICES ASSUME LedgerInv, [Next]_vars PROVE LedgerInv'
  OBVIOUS
<1>1. CASE UNCHANGED vars
  <2>1. UNCHANGED <<tip, nMoneySupply, fLoaded, governance, diskTip, diskSupply, diskSupplyAt,
                    flush, verify, pindexState, pindex, losses, supplyLost, astray>>
    BY <1>1 DEF vars, memory, disk, verifying, lossy
  <2>2. TypeOK' /\ WalkOK'
    BY <2>1 DEF LedgerInv, TypeOK, WalkOK
  <2>3. SupplyOK' /\ EntriesOK'
    BY <2>1 DEF LedgerInv, SupplyOK, EntriesOK, At
  <2>4. Cleared' /\ Restored'
    BY <2>1 DEF LedgerInv, Cleared, Restored, AreGovernanceDeployed
  <2> QED
    BY <2>2, <2>3, <2>4 DEF LedgerInv
<1>2. ASSUME NEW b \in Blocks, ConnectTip(b) \/ CheckOnly(b) PROVE LedgerInv'
  BY <1>2, ConnectTipStep, CheckOnlyStep
<1>3. ASSUME NEW rest \in {"no", "coins"}, WriteIndex(rest) PROVE LedgerInv'
  BY <1>3, WriteIndexStep
<1>4. ASSUME DisconnectTip \/ DisconnectTipFails \/ WriteCoins \/ Shutdown PROVE LedgerInv'
  BY <1>4, DisconnectTipStep, DisconnectTipFailsStep, WriteCoinsStep, ShutdownStep
<1>5. ASSUME Crash \/ CrashReindexing \/ VerifyInterrupted \/ VerifyFails PROVE LedgerInv'
  BY <1>5, CrashStep, VerifyInterruptedStep, VerifyFailsStep
<1>6. ASSUME VerifyChain \/ VerifyDisconnect \/ VerifyTurn PROVE LedgerInv'
  BY <1>6, VerifyChainStep, VerifyDisconnectStep, VerifyTurnStep
<1>7. ASSUME VerifyReconnect \/ VerifyDone PROVE LedgerInv'
  BY <1>7, VerifyReconnectStep, VerifyDoneStep
<1> QED
  BY <1>1, <1>2, <1>3, <1>4, <1>5, <1>6, <1>7 DEF Next

\* The invariant holds in every state.
LEMMA LedgerInvariance == Spec => []LedgerInv
  BY InitOK, StepOK, PTL DEF Spec
-----------------------------------------------------------------------------
(* What GetCost reports.                                                   *)

\* A chain has a block of every height up to its own.
LEMMA HeightsAreDense ==
  ASSUME NEW b \in Blocks
  PROVE  0..Height(b) \subseteq Heights
<1> DEFINE T == {y \in Blocks : ~(0..Height(y) \subseteq Heights)}
<1>1. T = {}
  <2> SUFFICES ASSUME T # {} PROVE FALSE
    OBVIOUS
  <2>1. PICK y \in T : y # Genesis => Parent[y] \notin T
    <3> HIDE DEF T
    <3>1. T \in SUBSET Blocks
      BY DEF T
    <3> QED
      BY <3>1, LowestBlock
  <2>2. y \in Blocks /\ Height(y) \in Heights
    BY <2>1 DEF Heights
  <2>3. CASE y = Genesis
    <3>1. Height(y) = 0
      BY <2>3, HeightOfParent
    <3>2. 0..Height(y) = {0}
      BY <3>1
    <3> QED
      BY <2>1, <2>2, <3>1, <3>2
  <2>4. CASE y # Genesis
    <3>1. Parent[y] \in Blocks /\ Height(Parent[y]) = Height(y) - 1 /\ Height(y) \in Nat
      BY <2>2, <2>4, HeightOfParent, NotBelowParent
    <3>2. 0..(Height(y) - 1) \subseteq Heights
      BY <2>1, <2>4, <3>1
    <3>3. 0..Height(y) \subseteq 0..(Height(y) - 1) \cup {Height(y)}
      BY <3>1
    <3> QED
      BY <2>1, <2>2, <3>2, <3>3
  <2> QED
    BY <2>3, <2>4
<1> QED
  BY <1>1

\* A nonempty set of numbers that is bounded has its maximum.
LEMMA MaxExists ==
  ASSUME NEW n \in Nat, NEW S \in SUBSET (0..n), S # {}
  PROVE  Max(S) \in S
<1> DEFINE W == {n - h : h \in S}
<1>1. W \subseteq Nat /\ W # {}
  <2>1. \A h \in S : n - h \in Nat
    OBVIOUS
  <2> QED
    BY <2>1, Zenon
<1>2. PICK w \in W : \A v \in W : ~(<<v, w>> \in Less)
  <2> HIDE DEF W
  <2> QED
    BY <1>1, LessWellFounded, WFMin, Zenon
<1>3. PICK m \in S : w = n - m
  OBVIOUS
<1>4. ASSUME NEW h \in S PROVE m >= h
  <2>1. n - h \in W /\ n - h \in Nat /\ w \in Nat
    BY <1>1
  <2>2. ~(n - h < w)
    BY <1>2, <2>1, Zenon DEF Less
  <2> QED
    BY <1>3, <2>2
<1> HIDE DEF W
<1> QED
  BY <1>4, Zenon DEF Max

\* When the entries are those of a block, GetCost is the cost in force at it.
LEMMA CostInForce ==
  ASSUME NEW b \in Blocks, \A h \in Heights : governance[h] = ChainEntry(b, h)
  PROVE  GetCost = ChainEntry(b, Max({h \in 0..Height(b) : ChainEntry(b, h) # NoCost}))
<1> DEFINE S == {h \in 0..Height(b) : ChainEntry(b, h) # NoCost}
           G == {h \in Heights : governance[h] # NoCost}
<1>1. Height(b) \in Nat
  BY ChainBounds, HeightsGrow
<1>2. ASSUME NEW h \in Heights, ChainEntry(b, h) # NoCost PROVE h \in 0..Height(b)
  <2>1. CASE h = 0
    BY <1>1, <2>1
  <2>2. CASE h # 0
    <3>1. PICK y \in Chain[b] : Height(y) = h
      BY <1>2, <2>2 DEF ChainEntry
    <3> QED
      BY <1>1, <3>1, HeightsGrow
  <2> QED
    BY <2>1, <2>2
<1>3. S = G
  BY <1>2, HeightsAreDense
<1>4. ChainEntry(b, 0) = InitialCost /\ InitialCost # NoCost
  BY LedgerAssumption DEF LedgerAssumption, ChainEntry
<1>5. 0 \in S
  BY <1>1, <1>4
<1>6. S \in SUBSET (0..Height(b)) /\ S # {}
  BY <1>5
<1>7. Max(S) \in S
  <2> HIDE DEF S
  <2> QED
    BY <1>1, <1>6, MaxExists, Zenon
<1>8. Max(S) \in Heights
  BY <1>7, HeightsAreDense
<1>9. GetCost = governance[Max(G)]
  BY DEF GetCost
<1> HIDE DEF S, G
<1>10. GetCost = ChainEntry(b, Max(S))
  BY <1>3, <1>8, <1>9
<1> QED
  BY <1>10 DEF S
-----------------------------------------------------------------------------
\* For every tree, every assignment of updates, every height from which they
\* count and every depth of VerifyDB, through any sequence of connects,
\* reorganisations, flushes, shutdowns, crashes, failures and verifications:
\* at every height that no crash, no failure and no update of a block that is
\* not connected has put astray, the entry is the one that the chain sets
\* there, and when no height is astray the costs in force are the chain's.
THEOREM GovernanceCorrect == Spec => []GovernanceFollowsChain
<1>1. LedgerInv => GovernanceFollowsChain
  <2> SUFFICES ASSUME LedgerInv
               PROVE  /\ \A h \in Heights \ astray : governance[h] = ChainEntry(At, h)
                      /\ astray = {} => GetCost = ChainEntry(At,
                           Max({h \in 0..Height(At) : ChainEntry(At, h) # NoCost}))
    BY DEF GovernanceFollowsChain
  <2>1. At \in Blocks /\ \A h \in Heights \ astray : governance[h] = ChainEntry(At, h)
    BY AtIsBlock DEF LedgerInv, EntriesOK
  <2> QED
    BY <2>1, CostInForce
<1> QED
  BY <1>1, LedgerInvariance, PTL

\* The supply in memory is what the blocks of the chain minted, whatever is
\* disconnected, connected again, flushed, crashed and started, unless the
\* last start read a supply that was not written at the coins' best block, or
\* an error ended VerifyDB or DisconnectBlock at another block's supply.
THEOREM SupplyCorrect == Spec => []SupplyFollowsChain
<1>1. LedgerInv => SupplyFollowsChain
  BY DEF LedgerInv, SupplyOK, SupplyFollowsChain
<1> QED
  BY <1>1, LedgerInvariance, PTL

\* Where governance is deployed, a verification that reaches the tip has put
\* back every update of the blocks it took off, whatever the database held
\* before it began: it needs neither a clean start nor the absence of refused
\* blocks.
THEOREM VerifyRestores == Spec => []VerifyRestoresUpdates
<1>1. LedgerInv => VerifyRestoresUpdates
  BY DEF LedgerInv, Restored, VerifyRestoresUpdates
<1> QED
  BY <1>1, LedgerInvariance, PTL
=============================================================================
