-------------------------- MODULE ChainStateProofs --------------------------
(***************************************************************************)
(* Proofs about the block index and the active chain (ChainState), for     *)
(* every finite block tree and every bound.                                *)
(*                                                                         *)
(* Anc is a recursive function, so nothing about it comes for free.  The   *)
(* first part shows that its equation has a solution (the least set that   *)
(* holds the block and is closed under Parent), and then what the model    *)
(* uses of it, each time by looking at a counterexample of least work.     *)
(***************************************************************************)
EXTENDS ChainState, FiniteSetTheorems, WellFoundedInduction, TLAPS

\* Sets of blocks that go down to genesis with each of their members.
Closed(S) == \A y \in S \ {Genesis} : Parent[y] \in S
Below(b) == {x \in Blocks : \A S \in SUBSET Blocks : b \in S /\ Closed(S) => x \in S}

\* The order of the numbers, as a relation.
Less == {ss \in Nat \X Nat : ss[1] < ss[2]}

\* The natural numbers are well-founded (the library's fact, for a relation
\* that no operator is a parameter of).
LEMMA LessWellFounded == IsWellFoundedOn(Less, Nat)
  BY NatLessThanWellFounded, Zenon DEF Less, OpToRel

\* A set of blocks has a member whose parent is not in it: nChainWork grows
\* along every branch.
LEMMA LowestBlock ==
  ASSUME NEW T \in SUBSET Blocks, T # {}
  PROVE  \E b \in T : b # Genesis => Parent[b] \notin T
<1> DEFINE W == {ChainWork[b] : b \in T}
<1>1. W \subseteq Nat /\ W # {}
  BY TreeAssumption
<1> HIDE DEF W
<1>2. PICK w \in W : \A v \in W : ~(<<v, w>> \in Less)
  BY <1>1, LessWellFounded, WFMin, Zenon
<1>3. PICK b \in T : ChainWork[b] = w
  BY Zenon DEF W
<1>4. ASSUME b # Genesis, Parent[b] \in T
      PROVE  FALSE
  <2>1. ChainWork[Parent[b]] < ChainWork[b] /\ ChainWork[Parent[b]] \in Nat /\ ChainWork[b] \in Nat
    BY <1>4, TreeAssumption, Zenon
  <2>2. ChainWork[Parent[b]] \in W
    BY <1>4, Zenon DEF W
  <2> QED
    BY <2>1, <2>2, <1>2, <1>3, Zenon DEF Less
<1> QED
  BY <1>4, Zenon

\* Below solves the equation that defines Anc.
LEMMA BelowUnfolds ==
  ASSUME NEW b \in Blocks
  PROVE  Below(b) = IF b = Genesis THEN {b} ELSE {b} \cup Below(Parent[b])
<1>1. CASE b = Genesis
  <2>1. Closed({Genesis}) /\ {Genesis} \in SUBSET Blocks
    BY TreeAssumption, Zenon DEF Closed
  <2> QED
    BY <2>1, <1>1, Zenon DEF Below
<1>2. CASE b # Genesis
  <2> DEFINE p == Parent[b]
  <2>0. p \in Blocks
    BY <1>2, TreeAssumption, Zenon
  <2>1. Below(b) \subseteq {b} \cup Below(p)
    <3> SUFFICES ASSUME NEW x \in Below(b), x # b, NEW S \in SUBSET Blocks, p \in S, Closed(S)
                 PROVE  x \in S
      BY Zenon DEF Below
    <3>1. Closed(S \cup {b})
      BY <1>2, Zenon DEF Closed
    <3> QED
      BY <3>1, Zenon DEF Below
  <2>2. {b} \cup Below(p) \subseteq Below(b)
    BY <1>2, <2>0, Zenon DEF Below, Closed
  <2> QED
    BY <2>1, <2>2, <1>2, Zenon
<1> QED
  BY <1>1, <1>2, Zenon

\* The recursive definition of Anc holds as an equation.
LEMMA AncUnfolds ==
  ASSUME NEW b \in Blocks
  PROVE  Anc[b] = IF b = Genesis THEN {b} ELSE {b} \cup Anc[Parent[b]]
<1> DEFINE F(f) == [x \in Blocks |-> IF x = Genesis THEN {x} ELSE {x} \cup f[Parent[x]]]
           g == [x \in Blocks |-> Below(x)]
<1>1. g = F(g)
  <2>1. \A x \in Blocks : g[x] = IF x = Genesis THEN {x} ELSE {x} \cup g[Parent[x]]
    BY BelowUnfolds, TreeAssumption, Zenon
  <2> QED
    BY <2>1, Zenon
<1>2. \E f : f = F(f)
  <2> HIDE DEF F, g
  <2> QED
    BY <1>1, Zenon
<1>3. Anc = F(Anc)
  <2>1. Anc = CHOOSE f : f = F(f)
    BY Zenon DEF Anc
  <2> HIDE DEF F
  <2> QED
    BY <1>2, <2>1, Zenon
<1> QED
  BY <1>3, Zenon

\* The same by cases.
LEMMA AncCases ==
  /\ Genesis \in Blocks /\ Anc[Genesis] = {Genesis}
  /\ \A b \in Blocks : b # Genesis => Parent[b] \in Blocks /\ Anc[b] = {b} \cup Anc[Parent[b]]
<1>1. Genesis \in Blocks /\ Anc[Genesis] = {Genesis}
  BY AncUnfolds, TreeAssumption, Zenon
<1>2. ASSUME NEW b \in Blocks, b # Genesis
      PROVE  Parent[b] \in Blocks /\ Anc[b] = {b} \cup Anc[Parent[b]]
  BY <1>2, AncUnfolds, TreeAssumption, Zenon
<1> QED
  BY <1>1, <1>2, Zenon

\* What the ancestors of a block are: blocks, the block itself among them, and
\* genesis at the bottom.
LEMMA AncBounds ==
  ASSUME NEW b \in Blocks
  PROVE  Anc[b] \subseteq Blocks /\ b \in Anc[b] /\ Genesis \in Anc[b] /\ IsFiniteSet(Anc[b])
<1> DEFINE T == {x \in Blocks : ~(Anc[x] \subseteq Blocks /\ Genesis \in Anc[x])}
<1>1. T = {}
  <2> SUFFICES ASSUME T # {} PROVE FALSE
    BY Zenon
  <2>1. PICK x \in T : x # Genesis => Parent[x] \notin T
    <3> HIDE DEF T
    <3>1. T \in SUBSET Blocks
      BY Zenon DEF T
    <3> QED
      BY <3>1, LowestBlock, Zenon
  <2>2. CASE x = Genesis
    BY <2>1, <2>2, AncCases, Zenon
  <2>3. CASE x # Genesis
    BY <2>1, <2>3, AncCases, Zenon
  <2> QED
    BY <2>2, <2>3, Zenon
<1>2. b \in Anc[b]
  BY AncUnfolds, Zenon
<1>3. Anc[b] \subseteq Blocks /\ Genesis \in Anc[b]
  BY <1>1, Zenon
<1> QED
  BY <1>2, <1>3, FS_Subset, TreeAssumption, Zenon

\* An ancestor's ancestors are ancestors.
LEMMA AncTransitive ==
  ASSUME NEW b \in Blocks, NEW x \in Anc[b]
  PROVE  x \in Blocks /\ Anc[x] \subseteq Anc[b]
<1> DEFINE T == {y \in Blocks : ~(\A z \in Anc[y] : Anc[z] \subseteq Anc[y])}
<1>1. T = {}
  <2> SUFFICES ASSUME T # {} PROVE FALSE
    BY Zenon
  <2>1. PICK y \in T : y # Genesis => Parent[y] \notin T
    <3> HIDE DEF T
    <3>1. T \in SUBSET Blocks
      BY Zenon DEF T
    <3> QED
      BY <3>1, LowestBlock, Zenon
  <2>2. CASE y = Genesis
    BY <2>1, <2>2, AncCases, Zenon
  <2>3. CASE y # Genesis
    BY <2>1, <2>3, AncCases
  <2> QED
    BY <2>2, <2>3, Zenon
<1> QED
  BY <1>1, AncBounds, Zenon

\* No block has more work than a descendant, and only itself as much.
LEMMA AncWork ==
  ASSUME NEW b \in Blocks, NEW x \in Anc[b], x # b
  PROVE  ChainWork[x] < ChainWork[b]
<1> DEFINE T == {y \in Blocks : ~(\A z \in Anc[y] : z = y \/ ChainWork[z] < ChainWork[y])}
<1>1. T = {}
  <2> SUFFICES ASSUME T # {} PROVE FALSE
    BY Zenon
  <2>1. PICK y \in T : y # Genesis => Parent[y] \notin T
    <3> HIDE DEF T
    <3>1. T \in SUBSET Blocks
      BY Zenon DEF T
    <3> QED
      BY <3>1, LowestBlock, Zenon
  <2>2. PICK z \in Anc[y] : z # y /\ ~(ChainWork[z] < ChainWork[y])
    BY <2>1, Zenon
  <2>3. y # Genesis /\ z \in Anc[Parent[y]] /\ Parent[y] \in Blocks
    BY <2>2, <2>1, AncCases, Zenon
  <2>4. z \in Blocks
    BY <2>3, AncBounds, Zenon
  <2>5. ChainWork[Parent[y]] < ChainWork[y] /\ (z = Parent[y] \/ ChainWork[z] < ChainWork[Parent[y]])
    BY <2>3, <2>1, TreeAssumption, Zenon
  <2>6. {ChainWork[z], ChainWork[y], ChainWork[Parent[y]]} \subseteq Nat
    BY <2>3, <2>4, <2>1, TreeAssumption
  <2> QED
    BY <2>2, <2>5, <2>6
<1> QED
  BY <1>1, Zenon

\* The parent's branch does not hold the block.
LEMMA NotBelowParent ==
  ASSUME NEW b \in Blocks \ {Genesis}
  PROVE  Parent[b] \in Blocks /\ b \notin Anc[Parent[b]] /\ Anc[b] = {b} \cup Anc[Parent[b]]
<1>1. Parent[b] \in Blocks /\ ChainWork[Parent[b]] < ChainWork[b]
      /\ ChainWork[b] \in Nat /\ ChainWork[Parent[b]] \in Nat
  BY TreeAssumption, Zenon
<1>2. ASSUME b \in Anc[Parent[b]] PROVE FALSE
  BY <1>1, <1>2, AncWork
<1> QED
  BY <1>1, <1>2, AncUnfolds, Zenon

\* A branch is a line: of two ancestors of a block one is below the other.
LEMMA AncIsALine ==
  ASSUME NEW b \in Blocks, NEW x \in Anc[b], NEW y \in Anc[b]
  PROVE  x \in Anc[y] \/ y \in Anc[x]
<1> DEFINE T == {c \in Blocks : ~(\A u, v \in Anc[c] : u \in Anc[v] \/ v \in Anc[u])}
<1>1. T = {}
  <2> SUFFICES ASSUME T # {} PROVE FALSE
    BY Zenon
  <2>1. PICK c \in T : c # Genesis => Parent[c] \notin T
    <3> HIDE DEF T
    <3>1. T \in SUBSET Blocks
      BY Zenon DEF T
    <3> QED
      BY <3>1, LowestBlock, Zenon
  <2>2. CASE c = Genesis
    BY <2>1, <2>2, AncCases, Zenon
  <2>3. CASE c # Genesis
    BY <2>1, <2>3, AncCases
  <2> QED
    BY <2>2, <2>3, Zenon
<1> QED
  BY <1>1, Zenon

\* The height of a block is one more than its parent's.
LEMMA HeightOfParent ==
  /\ Height(Genesis) = 0
  /\ \A b \in Blocks \ {Genesis} : Height(Parent[b]) = Height(b) - 1 /\ Height(b) \in Nat
<1>1. Height(Genesis) = 0
  BY AncCases, FS_Singleton DEF Height
<1>2. ASSUME NEW b \in Blocks \ {Genesis}
      PROVE  Height(Parent[b]) = Height(b) - 1 /\ Height(b) \in Nat
  <2> DEFINE A == Anc[Parent[b]]
  <2>1. IsFiniteSet(A) /\ b \notin A /\ Anc[b] = A \cup {b}
    BY NotBelowParent, AncBounds, Zenon
  <2>2. Cardinality(A) \in Nat /\ Cardinality(Anc[b]) = Cardinality(A) + 1
    BY <2>1, FS_AddElement, FS_CardinalityType, Zenon
  <2> QED
    BY <2>2 DEF Height
<1> QED
  BY <1>1, <1>2, Zenon

\* From a proper ancestor there is a next block on the way up.
LEMMA NextOnBranch ==
  ASSUME NEW b \in Blocks, NEW x \in Anc[b], x # b
  PROVE  \E y \in Anc[b] : y # Genesis /\ Parent[y] = x
<1> DEFINE T == {c \in Blocks : ~(\A u \in Anc[c] \ {c} : \E y \in Anc[c] : y # Genesis /\ Parent[y] = u)}
<1>1. T = {}
  <2> SUFFICES ASSUME T # {} PROVE FALSE
    BY Zenon
  <2>1. PICK c \in T : c # Genesis => Parent[c] \notin T
    <3> HIDE DEF T
    <3>1. T \in SUBSET Blocks
      BY Zenon DEF T
    <3> QED
      BY <3>1, LowestBlock, Zenon
  <2>2. CASE c = Genesis
    BY <2>1, <2>2, AncCases, Zenon
  <2>3. CASE c # Genesis
    BY <2>1, <2>3, AncCases
  <2> QED
    BY <2>2, <2>3, Zenon
<1> QED
  BY <1>1, Zenon

\* CBlockIndexWorkComparator orders the blocks: two that differ compare, and
\* worse than a worse block is worse.
LEMMA WorseIsAnOrder ==
  ASSUME NEW s \in [Blocks -> Int]
  PROVE  /\ \A a, b \in Blocks : a = b \/ WorseBySequence(s, a, b) \/ WorseBySequence(s, b, a)
         /\ \A a, b, c \in Blocks :
               WorseBySequence(s, a, b) /\ WorseBySequence(s, b, c) => WorseBySequence(s, a, c)
<1>1. \A a \in Blocks : ChainWork[a] \in Int /\ Address[a] \in Int /\ s[a] \in Int
  BY TreeAssumption
<1>2. \A a, b \in Blocks : a # b => Address[a] # Address[b]
  BY TreeAssumption, Zenon
<1> QED
  BY <1>1, <1>2 DEF WorseBySequence

\* A set of blocks has a best one.
LEMMA BestExists ==
  ASSUME NEW s \in [Blocks -> Int], NEW G \in SUBSET Blocks, G # {}
  PROVE  \E c \in G : \A d \in G : d = c \/ WorseBySequence(s, d, c)
<1> DEFINE Best(c, T) == \A d \in T : d = c \/ WorseBySequence(s, d, c)
           Without == {T \in SUBSET Blocks : T # {} /\ ~(\E c \in T : Best(c, T))}
           R == StrictSubsetOrdering(Blocks)
<1>1. Without = {}
  <2> SUFFICES ASSUME Without # {} PROVE FALSE
    BY Zenon
  <2>1. PICK T \in Without : \A U \in Without : ~(<<U, T>> \in R)
    <3> HIDE DEF Without, R
    <3>1. IsWellFoundedOn(R, SUBSET Blocks)
      <4>1. IsWellFoundedOn(R, FiniteSubsetsOf(Blocks))
        BY FS_StrictSubsetOrderingWellFounded, Zenon DEF R
      <4>2. FiniteSubsetsOf(Blocks) = SUBSET Blocks
        BY FS_FiniteSubsetsOfFinite, TreeAssumption, Zenon
      <4> QED
        BY <4>1, <4>2, Zenon
    <3>2. Without \subseteq SUBSET Blocks
      BY Zenon DEF Without
    <3> QED
      BY <3>1, <3>2, WFMin, Zenon
  <2>2. PICK x \in T : TRUE
    BY Zenon
  <2> DEFINE U == T \ {x}
  <2>3. U \in SUBSET Blocks /\ x \in Blocks /\ T = U \cup {x}
    BY <2>2, Zenon
  <2>4. <<U, T>> \in R
    BY <2>2, <2>3, Zenon DEF StrictSubsetOrdering
  <2>5. CASE U = {}
    BY <2>2, <2>3, <2>5, Zenon
  <2>6. CASE U # {}
    <3>1. PICK m \in U : Best(m, U)
      BY <2>1, <2>3, <2>4, <2>6, Zenon
    <3>2. WorseBySequence(s, x, m) \/ WorseBySequence(s, m, x)
      BY <3>1, <2>3, WorseIsAnOrder, Zenon
    <3>3. CASE WorseBySequence(s, x, m)
      <4>1. Best(m, T)
        BY <3>1, <3>3, <2>3, Zenon
      <4> QED
        BY <4>1, <3>1, Zenon
    <3>4. CASE WorseBySequence(s, m, x)
      <4>1. \A d \in U : WorseBySequence(s, d, x)
        BY <3>1, <3>4, <2>3, WorseIsAnOrder, Zenon
      <4>2. Best(x, T)
        BY <4>1, <2>3, Zenon
      <4> QED
        BY <4>2, <2>2, Zenon
    <3> QED
      BY <3>2, <3>3, <3>4, Zenon
  <2> QED
    BY <2>5, <2>6, Zenon
<1> QED
  BY <1>1, Zenon

\* FindMostWorkChain returns a candidate with a usable branch, or none.
LEMMA MostWorkIsUsable ==
  ASSUME seq \in [Blocks -> Int], candidates \subseteq Blocks
  PROVE  MostWork = NoBlock \/ (MostWork \in candidates /\ Usable(MostWork))
<1> DEFINE good == {c \in candidates : Usable(c)}
           Best(c) == \A d \in good : d = c \/ Worse(d, c)
<1>1. CASE good = {}
  BY <1>1, Zenon DEF MostWork
<1>2. CASE good # {}
  <2>1. good \in SUBSET Blocks
    BY Zenon
  <2>2. MostWork = CHOOSE c \in good : Best(c)
    BY <1>2, Zenon DEF MostWork
  <2>3. \E c \in good : Best(c)
    <3> HIDE DEF good
    <3> QED
      BY <1>2, <2>1, BestExists, Zenon DEF Worse
  <2>4. MostWork \in good
    <3> HIDE DEF good, Best
    <3> QED
      BY <2>2, <2>3, Zenon
  <2> QED
    BY <2>4, Zenon
<1> QED
  BY <1>1, <1>2, Zenon
-----------------------------------------------------------------------------
(* The inductive invariant.                                                *)

Pointers == Blocks \cup {NoBlock}
CallRecords == [pblock : Pointers, target : Pointers]
Places == {"free", "step", "invalidate", "replay", "flush"}
Sections == [at : Places, call : CallRecords, target : Pointers, old : Pointers,
             left : Nat, pend : Pointers]

\* mapBlockIndex, nChainTx and mapBlocksUnlinked.
IndexOK ==
    /\ Genesis \in data /\ data \subseteq known /\ known \subseteq Blocks
    /\ linked = {x \in data : Anc[x] \subseteq data}
    /\ unlinked = data \ linked
    /\ nSeq \in Nat /\ seq \in [Blocks -> 0 .. nSeq - 1]

\* What points into the index.
MarksOK ==
    /\ failedValid \subseteq known /\ failedChild \subseteq known /\ dirty \subseteq known
    /\ candidates \subseteq linked /\ tip \in linked
    /\ refused \subseteq Blocks /\ rejected \subseteq Blocks
    /\ checked \subseteq Blocks \ {Genesis}
    /\ calls \subseteq CallRecords /\ replays \subseteq SUBSET known

\* The section that holds cs_main: what it works towards is linked, genesis is
\* never disconnected, and between the write of the block index and the write
\* of the coins no entry gets dirty.
SectionOK ==
    /\ op \in Sections
    /\ op.at = "step" => op.target \in linked
    /\ op.at = "invalidate" => op.target \in Blocks \ {Genesis}
    /\ op.at = "replay" => IF op.pend = NoBlock THEN op.left <= Height(tip)
                                                ELSE op.left < Height(tip)
    /\ op.pend \in (linked \ {Genesis}) \cup {NoBlock}
    /\ op.pend # NoBlock \/ op.at = "flush" => dirty = {}

\* The database: every block whose data is not on disk yet is dirty.
DiskOK ==
    /\ disk \in [known : SUBSET Blocks, data : SUBSET Blocks, failedValid : SUBSET Blocks,
                 failedChild : SUBSET Blocks, tip : Blocks]
    /\ disk.data \subseteq disk.known /\ disk.known \subseteq known
    /\ disk.failedValid \cup disk.failedChild \subseteq disk.known
    /\ disk.data \subseteq data /\ data \subseteq disk.data \cup dirty
    /\ Anc[disk.tip] \subseteq disk.data

ChainInv == IndexOK /\ MarksOK /\ SectionOK /\ DiskOK

\* The invariant gives the two properties.
LEMMA ChainInvSuffices == ChainInv => LinksAreExact /\ DiskTipIsIndexed
<1> SUFFICES ASSUME ChainInv PROVE LinksAreExact /\ DiskTipIsIndexed
  BY Zenon
<1>1. \A x \in known : x \in Anc[x]
  BY AncBounds, Zenon DEF ChainInv, IndexOK
<1>2. linked = {x \in known : Anc[x] \subseteq data}
  BY <1>1, Zenon DEF ChainInv, IndexOK
<1>3. \A c \in calls : {c.pblock, c.target} \subseteq Blocks \cup {NoBlock}
  BY Zenon DEF ChainInv, MarksOK, CallRecords, Pointers
<1>4. TypeOK
  BY <1>3, Zenon DEF ChainInv, IndexOK, MarksOK, DiskOK, TypeOK, Failed
<1> QED
  BY <1>2, <1>4, Zenon DEF ChainInv, IndexOK, MarksOK, DiskOK, LinksAreExact, DiskTipIsIndexed

\* Sections are made of the right parts.
LEMMA SectionTypes ==
  /\ NewCall \in CallRecords
  /\ \A p, t \in Pointers : Call(p, t) \in CallRecords
  /\ \A at \in Places, c \in CallRecords, t \in Pointers, o \in Pointers, n \in Nat :
        /\ Section(at, c, t, o, n) \in Sections
        /\ Section(at, c, t, o, n).at = at
        /\ Section(at, c, t, o, n).target = t
        /\ Section(at, c, t, o, n).left = n
        /\ Section(at, c, t, o, n).pend = NoBlock
  BY DEF NewCall, Call, CallRecords, Pointers, Section, Sections

\* Nobody holds cs_main.
LEMMA FreeTypes == Free \in Sections /\ Free.at = "free" /\ Free.pend = NoBlock
<1>1. NoBlock \in Pointers /\ 0 \in Nat /\ "free" \in Places
  BY Zenon DEF Pointers, Places
<1> QED
  BY <1>1, SectionTypes DEF Free

\* The sections of InvalidateBlock, ReprocessBlocks and FlushStateToDisk.
LEMMA OtherSections ==
  /\ \A b \in Blocks : LET s == Section("invalidate", NewCall, b, NoBlock, 0)
                      IN  s \in Sections /\ s.at = "invalidate" /\ s.target = b /\ s.pend = NoBlock
  /\ LET s == Section("replay", NewCall, NoBlock, NoBlock, nReplay + 1)
     IN  s \in Sections /\ s.at = "replay" /\ s.pend = NoBlock /\ s.left = nReplay + 1
  /\ LET s == Section("flush", NewCall, NoBlock, NoBlock, 0)
     IN  s \in Sections /\ s.at = "flush" /\ s.pend = NoBlock
<1>1. /\ {"invalidate", "replay", "flush"} \subseteq Places /\ Blocks \cup {NoBlock} \subseteq Pointers
      /\ 0 \in Nat /\ nReplay + 1 \in Nat /\ NewCall \in CallRecords
  BY SectionTypes, TreeAssumption DEF Places, Pointers
<1> QED
  BY <1>1, SectionTypes

\* What the steps of a new block and of the end of a refusal leave alone.
LEMMA BlockFrame ==
  ASSUME NEW b \in Blocks,
         \/ RefuseBlock(b) \/ AcceptDuplicate(b) \/ FailContextualCheck(b) \/ FailStakeCheck(b)
         \/ AcceptBlock(b) \/ CheckNewBlock(b) \/ EndRefusing(b)
  PROVE  /\ disk' = disk /\ op' = op /\ tip' = tip /\ failedChild' = failedChild
         /\ replays' = replays /\ dirty \subseteq dirty'
         /\ \/ failedValid' = failedValid
            \/ failedValid' = failedValid \cup {b} /\ b \in dirty' /\ b \notin data
<1>1. CASE RefuseBlock(b)
  BY <1>1, Zenon DEF RefuseBlock, flags, swift
<1>2. CASE AcceptDuplicate(b)
  BY <1>2, Zenon DEF AcceptDuplicate, flags, swift
<1>3. CASE FailContextualCheck(b)
  BY <1>3, Zenon DEF FailContextualCheck, swift
<1>4. CASE FailStakeCheck(b)
  BY <1>4, Zenon DEF FailStakeCheck, flags, swift
<1>5. CASE AcceptBlock(b)
  BY <1>5, Zenon DEF AcceptBlock, flags, swift
<1>6. CASE CheckNewBlock(b)
  BY <1>6, Zenon DEF CheckNewBlock, flags
<1>7. CASE EndRefusing(b)
  BY <1>7, Zenon DEF EndRefusing, flags
<1> QED
  BY <1>1, <1>2, <1>3, <1>4, <1>5, <1>6, <1>7, Zenon

\* The program starts with the invariant.
LEMMA ChainInvInit == Init => ChainInv
<1> SUFFICES ASSUME Init PROVE ChainInv
  BY Zenon
<1>1. IndexOK
  <2>1. nSeq \in Nat /\ seq \in [Blocks -> 0 .. nSeq - 1]
    BY DEF Init
  <2> QED
    BY <2>1, AncCases, Zenon DEF Init, IndexOK
<1>2. MarksOK
  BY AncCases, TreeAssumption, Zenon DEF Init, MarksOK
<1>3. SectionOK
  BY FreeTypes, Zenon DEF Init, SectionOK
<1>4. DiskOK
  BY AncCases, TreeAssumption, Zenon DEF Init, DiskOK
<1> QED
  BY <1>1, <1>2, <1>3, <1>4, Zenon DEF ChainInv

\* Sequence numbers are integers.
LEMMA SequenceTypes ==
  ASSUME NEW n \in Nat, NEW s \in [Blocks -> 0 .. n - 1]
  PROVE  s \in [Blocks -> Int]
BY SMTT(20)

\* The types that most of the steps need.
LEMMA InvTypes ==
  ASSUME ChainInv
  PROVE  /\ IndexOK /\ op \in Sections /\ linked \subseteq Blocks /\ linked \subseteq data
         /\ tip \in linked /\ tip \in Blocks /\ tip # NoBlock
         /\ candidates \subseteq Blocks /\ seq \in [Blocks -> Int]
<1>1. IndexOK /\ op \in Sections /\ tip \in linked /\ candidates \subseteq linked
  BY Zenon DEF ChainInv, MarksOK, SectionOK
<1>2. linked \subseteq data /\ linked \subseteq Blocks
  BY <1>1, Zenon DEF IndexOK
<1>3. tip \in Blocks /\ tip # NoBlock /\ candidates \subseteq Blocks
  BY <1>1, <1>2, TreeAssumption, Zenon
<1>4. seq \in [Blocks -> Int]
  BY <1>1, SequenceTypes, Zenon DEF IndexOK
<1> QED
  BY <1>1, <1>2, <1>3, <1>4, Zenon

\* A linked block's ancestors are linked.
LEMMA LinkedIsClosed ==
  ASSUME IndexOK, NEW b \in linked, NEW x \in Anc[b]
  PROVE  x \in linked
<1>1. b \in Blocks /\ Anc[b] \subseteq data
  BY Zenon DEF IndexOK
<1>2. x \in Blocks /\ Anc[x] \subseteq Anc[b]
  BY <1>1, AncTransitive, Zenon
<1> QED
  BY <1>1, <1>2, Zenon DEF IndexOK

\* Another header in the index disturbs nothing.
LEMMA KnownGrows ==
  ASSUME IndexOK, NEW b \in Blocks, known' = known \cup {b},
         UNCHANGED <<data, linked, seq, nSeq, unlinked>>
  PROVE  IndexOK'
  BY Zenon DEF IndexOK

\* ReceivedBlockTransactions keeps nChainTx exact, whether the block is linked
\* with those that waited for it or has to wait itself.
LEMMA ReceivedKeepsIndex ==
  ASSUME IndexOK, NEW b \in Blocks \ {Genesis}, Parent[b] \in known, b \notin data,
         known' = known \cup {b}, data' = data \cup {b}, Link(b) \/ LeaveUnlinked(b)
  PROVE  IndexOK' /\ linked \subseteq linked'
<1> DEFINE NL == NewlyLinked(b)
           Full == {x \in data \cup {b} : Anc[x] \subseteq data \cup {b}}
<1>1. Parent[b] \in Blocks /\ b \notin Anc[Parent[b]] /\ Anc[b] = {b} \cup Anc[Parent[b]]
      /\ Parent[b] \in Anc[Parent[b]]
  BY NotBelowParent, AncBounds, Zenon
<1>2. \A x \in Blocks : b \notin Anc[x] => (x \in Full <=> x \in linked)
  BY AncBounds, Zenon DEF IndexOK
<1>3. \A x \in linked : b \notin Anc[x]
  BY Zenon DEF IndexOK
<1>4. Full \subseteq Blocks /\ linked \subseteq Full
  BY Zenon DEF IndexOK
<1>5. CASE Link(b)
  <2>1. Anc[b] \subseteq data \cup {b}
    BY <1>5, <1>1, Zenon DEF Link, IndexOK
  <2>2. ASSUME NEW x \in NL PROVE x \in Full
    <3>1. x \in Blocks /\ Anc[x] \ Anc[b] \subseteq data
      BY Zenon DEF NewlyLinked, Desc, IndexOK
    <3> QED
      BY <3>1, <2>1, AncBounds, Zenon
  <2>3. ASSUME NEW x \in Full, b \in Anc[x] PROVE x \in NL
    <3>1. ASSUME NEW y \in Anc[x] \ Anc[b] PROVE y \in unlinked
      <4>1. y # b /\ y \in data
        BY <3>1, <2>3, <1>1, Zenon
      <4>2. b \in Anc[y]
        BY <3>1, <2>3, <1>4, AncIsALine, Zenon
      <4> QED
        BY <4>1, <4>2, <1>3, Zenon DEF IndexOK
    <3> QED
      BY <3>1, <2>3, <1>4, Zenon DEF NewlyLinked, Desc
  <2>4. Full = linked \cup NL
    BY <2>2, <2>3, <1>2, <1>4, Zenon
  <2>5. IsFiniteSet(NL) /\ Cardinality(NL) \in Nat /\ NL \subseteq Blocks
    BY FS_Subset, FS_CardinalityType, TreeAssumption, Zenon DEF NewlyLinked, Desc
  <2>6. nSeq' \in Nat /\ seq' \in [Blocks -> 0 .. nSeq' - 1]
    <3> HIDE DEF NL
    <3>1. PICK f \in Numberings(NL) :
             seq' = [x \in Blocks |-> IF x \in DOMAIN f THEN f[x] ELSE seq[x]]
      BY <1>5, Zenon DEF Link, NL
    <3>2. f \in [NL -> nSeq .. (nSeq + Cardinality(NL) - 1)]
      BY Zenon DEF Numberings
    <3>3. nSeq \in Nat /\ nSeq' = nSeq + Cardinality(NL) /\ seq \in [Blocks -> 0 .. nSeq - 1]
      BY <1>5, Zenon DEF Link, NL, IndexOK
    <3>4. nSeq' \in Nat /\ nSeq <= nSeq' /\ NL \subseteq Blocks /\ DOMAIN f = NL
      BY <3>2, <3>3, <2>5
    <3>5. \A x \in NL : f[x] \in 0 .. nSeq' - 1
      <4>1. \A x \in NL : f[x] \in nSeq .. (nSeq + Cardinality(NL) - 1)
        BY <3>2, Zenon
      <4>2. nSeq .. (nSeq + Cardinality(NL) - 1) \subseteq 0 .. nSeq' - 1
        BY <3>3, <2>5
      <4> QED
        BY <4>1, <4>2, Zenon
    <3>6. \A x \in Blocks : seq[x] \in 0 .. nSeq' - 1
      BY <3>3, <3>4
    <3> QED
      BY <3>1, <3>4, <3>5, <3>6, Zenon
  <2>7. linked' = Full /\ unlinked' = (data \cup {b}) \ Full
    <3>1. b \in NL
      BY <2>1, <2>3, <1>1, Zenon
    <3>2. linked' = linked \cup NL /\ unlinked' = unlinked \ NL
      BY <1>5, Zenon DEF Link
    <3> HIDE DEF NL, Full
    <3> QED
      BY <3>1, <3>2, <2>4, Zenon DEF IndexOK
  <2> QED
    BY <2>6, <2>7, <1>4, Zenon DEF IndexOK
<1>6. CASE LeaveUnlinked(b)
  <2>1. Parent[b] \notin linked
    BY <1>6, Zenon DEF LeaveUnlinked
  <2>2. ASSUME NEW x \in Full, b \in Anc[x] PROVE FALSE
    <3>1. Anc[b] \subseteq Anc[x]
      BY <2>2, <1>4, AncTransitive, Zenon
    <3>2. Anc[Parent[b]] \subseteq data
      BY <3>1, <1>1, Zenon
    <3> QED
      BY <3>2, <2>1, <1>1, Zenon DEF IndexOK
  <2>3. Full = linked
    BY <2>2, <1>2, <1>4, Zenon
  <2> QED
    BY <2>3, <1>6, Zenon DEF IndexOK, LeaveUnlinked
<1> QED
  BY <1>5, <1>6, Zenon

\* Giving cs_main back leaves no obligation behind.
LEMMA FreeKeepsSection == op' = Free => SectionOK'
  BY FreeTypes, Zenon DEF SectionOK

\* A section goes on as it was while nothing it looks at is taken away.
LEMMA SectionGoesOn ==
  ASSUME SectionOK, op' = op, linked \subseteq linked', tip' = tip, dirty' = dirty
  PROVE  SectionOK'
  BY Zenon DEF SectionOK, Height

\* Writing the dirty entries, and maybe more, brings the database up to date.
LEMMA WriteIndexKeepsDisk ==
  ASSUME IndexOK, DiskOK, NEW fv \in SUBSET known, NEW fc \in SUBSET known,
         NEW D \in SUBSET known, dirty \subseteq D,
         disk' = WriteIndex(fv, fc, D), dirty' = {}, known' = known, data' = data
  PROVE  DiskOK' /\ data \subseteq disk'.data
<1>1. /\ disk'.known = disk.known \cup D
      /\ disk'.data = disk.data \cup (data \cap D)
      /\ disk'.failedValid = (disk.failedValid \ D) \cup (fv \cap D)
      /\ disk'.failedChild = (disk.failedChild \ D) \cup (fc \cap D)
      /\ disk'.tip = disk.tip
  BY Zenon DEF WriteIndex, DiskOK
<1>2. disk' \in [known : SUBSET Blocks, data : SUBSET Blocks, failedValid : SUBSET Blocks,
                 failedChild : SUBSET Blocks, tip : Blocks]
  BY Zenon DEF WriteIndex, DiskOK, IndexOK
<1>3. data \subseteq disk'.data
  BY <1>1, Zenon DEF DiskOK
<1>4. disk'.data \subseteq disk'.known /\ disk'.known \subseteq known /\ disk'.data \subseteq data
  BY <1>1, Zenon DEF DiskOK, IndexOK
<1>5. disk'.failedValid \cup disk'.failedChild \subseteq disk'.known
  BY <1>1, Zenon DEF DiskOK
<1>6. Anc[disk'.tip] \subseteq disk'.data
  BY <1>1, Zenon DEF DiskOK
<1> QED
  BY <1>2, <1>3, <1>4, <1>5, <1>6, Zenon DEF DiskOK

\* A block arrives: whatever becomes of it, the invariant is kept.
LEMMA ArrivalKeepsInv ==
  ASSUME ChainInv, NEW b \in Blocks,
         \/ RefuseBlock(b) \/ AcceptDuplicate(b) \/ FailContextualCheck(b)
         \/ FailStakeCheck(b) \/ AcceptBlock(b)
  PROVE  ChainInv'
<1> USE DEF ChainInv
<1>1. b # Genesis /\ b \in Pointers /\ NoBlock \in Pointers /\ checked' \subseteq checked
  BY Zenon DEF RefuseBlock, AcceptDuplicate, FailContextualCheck, FailStakeCheck, AcceptBlock,
         Accepting, MarksOK, Pointers
<1>2. Call(b, NoBlock) \in CallRecords
  BY <1>1, SectionTypes, Zenon
<1>3. op = Free /\ op' = op
  BY Zenon DEF RefuseBlock, AcceptDuplicate, FailContextualCheck, FailStakeCheck, AcceptBlock, Accepting
<1>4. SectionOK'
  BY <1>3, FreeKeepsSection, Zenon
<1>5. CASE RefuseBlock(b) \/ AcceptDuplicate(b)
  <2>1. UNCHANGED <<index, flags, candidates, tip, dirty, swift, disk>>
        /\ calls' \subseteq calls \cup {Call(b, NoBlock)}
    BY <1>5, Zenon DEF RefuseBlock, AcceptDuplicate
  <2>2. IndexOK'
    BY <2>1, Zenon DEF index, IndexOK
  <2>3. MarksOK'
    BY <2>1, <1>1, <1>2, Zenon DEF index, flags, swift, MarksOK
  <2>4. DiskOK'
    BY <2>1, Zenon DEF index, DiskOK
  <2> QED
    BY <2>2, <2>3, <2>4, <1>4, Zenon
<1>6. CASE FailContextualCheck(b) \/ FailStakeCheck(b)
  <2>1. /\ known' = known \cup {b}
        /\ failedValid' \subseteq failedValid \cup {b} /\ failedChild' = failedChild
        /\ dirty \subseteq dirty' /\ dirty' \subseteq dirty \cup {b}
        /\ UNCHANGED <<data, linked, seq, nSeq, unlinked, candidates, tip, swift, disk, calls>>
    BY <1>6, Zenon DEF FailContextualCheck, FailStakeCheck, flags
  <2>2. IndexOK'
    BY <2>1, KnownGrows, Zenon
  <2>3. MarksOK'
    BY <2>1, <1>1, Zenon DEF swift, MarksOK
  <2>4. DiskOK'
    BY <2>1, Zenon DEF DiskOK
  <2> QED
    BY <2>2, <2>3, <2>4, <1>4, Zenon
<1>7. CASE AcceptBlock(b)
  <2>1. /\ Parent[b] \in known /\ b \notin data
        /\ known' = known \cup {b} /\ data' = data \cup {b} /\ dirty' = dirty \cup {b}
        /\ Link(b) \/ LeaveUnlinked(b)
        /\ calls' = calls \cup {Call(b, NoBlock)}
        /\ UNCHANGED <<flags, tip, swift, disk>>
    BY <1>7, Zenon DEF AcceptBlock, HeaderAccepted
  <2>2. IndexOK' /\ linked \subseteq linked'
    BY <2>1, <1>1, ReceivedKeepsIndex, Zenon
  <2>3. candidates' \subseteq linked'
    BY <2>1, <2>2, Zenon DEF Link, LeaveUnlinked, MarksOK
  <2>4. MarksOK'
    BY <2>1, <2>2, <2>3, <1>1, <1>2, Zenon DEF flags, swift, MarksOK
  <2>5. DiskOK'
    BY <2>1, Zenon DEF DiskOK
  <2> QED
    BY <2>2, <2>4, <2>5, <1>4, Zenon
<1> QED
  BY <1>5, <1>6, <1>7, Zenon

\* ReconsiderBlock clears flags and adds candidates that are linked.
LEMMA ReconsiderKeepsMarks ==
  ASSUME ChainInv, NEW b \in known, ReconsiderBlock(b)
  PROVE  /\ failedValid' \subseteq failedValid /\ failedChild' \subseteq failedChild
         /\ dirty \subseteq dirty' /\ dirty' \subseteq known /\ candidates' \subseteq linked
  BY Zenon DEF ChainInv, MarksOK, ReconsiderBlock, Failed

\* Its three callers: the RPC, a failed checkpoint block, and ReprocessBlocks.
LEMMA ReconsiderKeepsInv ==
  ASSUME ChainInv,
         \/ \E b \in Blocks : Reconsider(b) \/ ReconsiderCheckpoint(b)
         \/ \E R \in replays : \E b \in R : ReplayReconsider(R, b)
  PROVE  ChainInv'
<1> USE DEF ChainInv
<1>1. \E b \in known : ReconsiderBlock(b)
  <2>1. ASSUME NEW b \in Blocks, Reconsider(b) PROVE \E c \in known : ReconsiderBlock(c)
    BY <2>1, Zenon DEF Reconsider
  <2>2. ASSUME NEW b \in Blocks, ReconsiderCheckpoint(b) PROVE \E c \in known : ReconsiderBlock(c)
    BY <2>2, Zenon DEF ReconsiderCheckpoint, Failed, MarksOK
  <2>3. ASSUME NEW R \in replays, NEW b \in R, ReplayReconsider(R, b)
        PROVE  \E c \in known : ReconsiderBlock(c)
    BY <2>3, Zenon DEF ReplayReconsider, MarksOK
  <2> QED
    BY <2>1, <2>2, <2>3, Zenon
<1>2. /\ failedValid' \subseteq failedValid /\ failedChild' \subseteq failedChild
      /\ dirty \subseteq dirty' /\ dirty' \subseteq known /\ candidates' \subseteq linked
  BY <1>1, ReconsiderKeepsMarks, Zenon
<1>3. UNCHANGED <<index, tip, refused, rejected, disk>> /\ op' = Free /\ checked' \subseteq checked
  BY Zenon DEF Reconsider, ReconsiderCheckpoint, ReplayReconsider, Accepting, swift
<1>4. calls' \subseteq CallRecords /\ replays' \subseteq SUBSET known
  <2>0. NewCall \in CallRecords /\ \A b \in Blocks : Call(b, NoBlock) \in CallRecords
    BY SectionTypes, Zenon DEF Pointers
  <2>1. ASSUME NEW b \in Blocks, Reconsider(b)
        PROVE  calls' \subseteq CallRecords /\ replays' \subseteq SUBSET known
    BY <2>1, <2>0, Zenon DEF Reconsider, swift, MarksOK
  <2>2. ASSUME NEW b \in Blocks, ReconsiderCheckpoint(b)
        PROVE  calls' \subseteq CallRecords /\ replays' \subseteq SUBSET known
    BY <2>2, <2>0, Zenon DEF ReconsiderCheckpoint, swift, MarksOK
  <2>3. ASSUME NEW R \in replays, NEW b \in R, ReplayReconsider(R, b)
        PROVE  calls' \subseteq CallRecords /\ replays' \subseteq SUBSET known
    BY <2>3, Zenon DEF ReplayReconsider, MarksOK
  <2> QED
    BY <2>1, <2>2, <2>3, Zenon
<1>5. IndexOK'
  BY <1>3, Zenon DEF index, IndexOK
<1>6. MarksOK'
  BY <1>2, <1>3, <1>4, Zenon DEF index, MarksOK
<1>7. DiskOK'
  BY <1>2, <1>3, Zenon DEF index, DiskOK
<1> QED
  BY <1>3, <1>5, <1>6, <1>7, FreeKeepsSection, Zenon

\* FindMostWorkChain marks blocks that are there and adds no candidate.
LEMMA FindKeepsMarks ==
  ASSUME ChainInv, FindMostWorkChain
  PROVE  failedChild' \subseteq known /\ candidates' \subseteq linked
<1>1. ASSUME NEW c \in Dropped PROVE AboveFailed(c) \subseteq known
  <2>1. c \in linked
    BY Zenon DEF Dropped, ChainInv, MarksOK
  <2> QED
    BY <2>1, Zenon DEF AboveFailed, Branch, ChainInv, IndexOK
<1> QED
  BY <1>1 DEF FindMostWorkChain, ChainInv, MarksOK

\* An iteration of ActivateBestChain begins, or its loop ends.
LEMMA IterationKeepsInv ==
  ASSUME ChainInv, NEW c \in calls, NothingToActivate(c) \/ BeginStep(c) \/ EndActivate(c)
  PROVE  ChainInv'
<1> USE DEF ChainInv
<1>1. /\ UNCHANGED <<index, failedValid, tip, dirty, swift, disk, checked>>
      /\ calls' \subseteq calls
      /\ failedChild' \subseteq known /\ candidates' \subseteq linked
  <2>1. CASE NothingToActivate(c)
    BY <2>1, FindKeepsMarks, Zenon DEF NothingToActivate
  <2>2. CASE BeginStep(c)
    BY <2>2, FindKeepsMarks, Zenon DEF BeginStep
  <2>3. CASE EndActivate(c)
    BY <2>3, Zenon DEF EndActivate, flags, MarksOK
  <2> QED
    BY <2>1, <2>2, <2>3, Zenon
<1>2. IndexOK'
  BY <1>1, Zenon DEF index, IndexOK
<1>3. MarksOK'
  BY <1>1, Zenon DEF index, swift, MarksOK
<1>4. DiskOK'
  BY <1>1, Zenon DEF index, DiskOK
<1>5. SectionOK'
  <2>1. CASE NothingToActivate(c) \/ EndActivate(c)
    <3>1. op' = op
      BY <2>1, Zenon DEF NothingToActivate, EndActivate
    <3> QED
      BY <3>1, <1>1, SectionGoesOn, Zenon DEF index
  <2>2. CASE BeginStep(c)
    <3>1. seq \in [Blocks -> Int] /\ candidates \subseteq Blocks
      BY SequenceTypes, Zenon DEF IndexOK, MarksOK
    <3>2. MostWork \in linked
      BY <3>1, <2>2, MostWorkIsUsable, Zenon DEF BeginStep, MarksOK
    <3>3. c \in CallRecords /\ MostWork \in Pointers /\ tip \in Pointers
          /\ "step" \in Places /\ 0 \in Nat
      BY <3>2, Zenon DEF MarksOK, IndexOK, Pointers, Places
    <3>4. /\ op' \in Sections /\ op'.at = "step" /\ op'.target = MostWork
          /\ op'.pend = NoBlock
      <4>1. op' = Section("step", c, MostWork, tip, 0)
        BY <2>2, Zenon DEF BeginStep
      <4> QED
        BY <4>1, <3>3, SectionTypes
    <3>5. linked' = linked
      BY <1>1, Zenon DEF index
    <3> QED
      BY <3>2, <3>4, <3>5, Zenon DEF SectionOK
  <2> QED
    BY <2>1, <2>2, Zenon
<1> QED
  BY <1>2, <1>3, <1>4, <1>5, Zenon

\* DisconnectTip writes the block index ...
LEMMA BeginDisconnectKeepsInv ==
  ASSUME ChainInv, DisconnectTip \/ InvalidateTip \/ ReplayTip
  PROVE  ChainInv'
<1> USE DEF ChainInv
<1>0. tip \in known /\ tip \in linked /\ tip \in Blocks
  BY Zenon DEF MarksOK, IndexOK
<1>1. /\ UNCHANGED <<index, failedValid, tip, swift, checked, calls>>
      /\ dirty' = {} /\ candidates' \subseteq candidates
      /\ failedChild' \subseteq failedChild \cup {tip}
      /\ op'.pend = tip /\ op'.at = op.at /\ op'.target = op.target /\ op' \in Sections
      /\ op.at # "replay" => op'.left = op.left
  <2>1. CASE DisconnectTip
    BY <2>1, <1>0, Zenon DEF DisconnectTip, BeginDisconnect, flags, SectionOK, Sections, Pointers
  <2>2. CASE InvalidateTip
    BY <2>2, <1>0, Zenon DEF InvalidateTip, BeginDisconnect, SectionOK, Sections, Pointers
  <2>3. CASE ReplayTip
    <3>1. op.left \in Nat /\ op.left > 0
      BY <2>3, Zenon DEF ReplayTip, SectionOK, Sections
    <3>2. op.left - 1 \in Nat
      BY <3>1
    <3>3. op' = [op EXCEPT !.pend = tip, !.left = op.left - 1]
      BY <2>3, Zenon DEF ReplayTip
    <3>4. /\ op'.pend = tip /\ op'.at = op.at /\ op'.target = op.target /\ op' \in Sections
      BY <3>2, <3>3, <1>0, Zenon DEF SectionOK, Sections, Pointers
    <3> QED
      BY <2>3, <3>4, Zenon DEF ReplayTip, flags
  <2> QED
    BY <2>1, <2>2, <2>3, Zenon
<1>2. \E D \in SUBSET known : dirty \subseteq D /\ disk' = WriteIndex(failedValid, failedChild', D)
  <2>1. CASE DisconnectTip \/ ReplayTip
    BY <2>1, Zenon DEF DisconnectTip, ReplayTip, BeginDisconnect, flags, MarksOK
  <2>2. CASE InvalidateTip
    <3>1. dirty \cup {tip} \in SUBSET known
      BY <1>0, Zenon DEF MarksOK
    <3> QED
      BY <3>1, <2>2, Zenon DEF InvalidateTip, BeginDisconnect
  <2> QED
    BY <2>1, <2>2, Zenon
<1>3. DiskOK'
  <2>1. failedValid \in SUBSET known /\ failedChild' \in SUBSET known
    BY <1>0, <1>1, Zenon DEF MarksOK
  <2>2. known' = known /\ data' = data
    BY <1>1, Zenon DEF index
  <2> QED
    BY <2>1, <2>2, <1>1, <1>2, WriteIndexKeepsDisk, Zenon
<1>4. IndexOK'
  BY <1>1, Zenon DEF index, IndexOK
<1>5. MarksOK'
  BY <1>0, <1>1, Zenon DEF index, swift, MarksOK
<1>6. tip # Genesis
  <2>1. CASE DisconnectTip
    <3>1. op.target \in Blocks
      BY <2>1, Zenon DEF DisconnectTip, SectionOK, IndexOK
    <3> QED
      BY <3>1, <2>1, AncBounds, Zenon DEF DisconnectTip
  <2>2. CASE InvalidateTip
    BY <2>2, AncCases, Zenon DEF InvalidateTip, Active, SectionOK
  <2>3. CASE ReplayTip
    BY <2>3, HeightOfParent DEF ReplayTip, SectionOK, Sections
  <2> QED
    BY <2>1, <2>2, <2>3, Zenon
<1>7. op.at = "replay" => op'.left < Height(tip)
  <2>1. CASE ReplayTip
    <3>1. op.left \in Nat /\ op'.left = op.left - 1 /\ op.left <= Height(tip) /\ Height(tip) \in Nat
      BY <2>1, <1>0, <1>6, HeightOfParent, Zenon DEF ReplayTip, SectionOK, Sections
    <3> QED
      BY <3>1
  <2>2. CASE ~ReplayTip
    BY <2>2, Zenon DEF DisconnectTip, InvalidateTip
  <2> QED
    BY <2>1, <2>2, Zenon
<1>8. SectionOK'
  <2>1. linked' = linked /\ tip' = tip
    BY <1>1, Zenon DEF index
  <2>2. Height(tip)' = Height(tip)
    BY <2>1, Zenon DEF Height
  <2>3. NoBlock # tip
    BY <1>0, TreeAssumption, Zenon
  <2> QED
    BY <2>1, <2>2, <2>3, <1>0, <1>1, <1>6, <1>7, Zenon DEF SectionOK
<1> QED
  BY <1>3, <1>4, <1>5, <1>8, Zenon

\* ... and the coins, and moves the tip.
LEMMA FinishDisconnectKeepsInv ==
  ASSUME ChainInv, FinishDisconnect
  PROVE  ChainInv'
<1> USE DEF ChainInv
<1>0. tip \in linked /\ tip \in Blocks /\ tip # NoBlock
  BY TreeAssumption DEF MarksOK, IndexOK
<1>1. tip # Genesis /\ dirty = {}
  BY <1>0, Zenon DEF FinishDisconnect, SectionOK
<1>2. Parent[tip] \in Blocks /\ Anc[Parent[tip]] \subseteq Anc[tip] /\ Parent[tip] \in Anc[tip]
  BY <1>0, <1>1, NotBelowParent, AncBounds
<1>3. Parent[tip] \in linked
  BY <1>0, <1>2, LinkedIsClosed, Zenon
<1>4. UNCHANGED <<index, flags, candidates, dirty, swift, checked, calls>>
  BY Zenon DEF FinishDisconnect
<1>5. IndexOK'
  BY <1>4, Zenon DEF index, IndexOK
<1>6. MarksOK'
  BY <1>3, <1>4, Zenon DEF index, flags, swift, MarksOK, FinishDisconnect
<1>7. DiskOK'
  <2>1. disk' = [disk EXCEPT !.tip = Parent[tip]]
    BY Zenon DEF FinishDisconnect
  <2>2. Anc[Parent[tip]] \subseteq disk.data
    BY <1>0, <1>1, <1>2, Zenon DEF IndexOK, DiskOK
  <2> QED
    BY <2>1, <2>2, <1>1, <1>2, <1>4, Zenon DEF index, DiskOK
<1>8. SectionOK'
  <2>1. /\ op' \in Sections /\ op'.at = op.at /\ op'.target = op.target /\ op'.left = op.left
        /\ op'.pend = NoBlock /\ op'.at # "flush"
    BY Zenon DEF FinishDisconnect, SectionOK, Sections, Pointers
  <2>2. op.at = "replay" => op.left < Height(tip)
    BY <1>0, Zenon DEF FinishDisconnect, SectionOK
  <2>3. Height(tip)' = Height(tip) - 1 /\ Height(tip) \in Nat
    BY <1>0, <1>1, HeightOfParent, Zenon DEF FinishDisconnect, Height
  <2>4. op.left \in Nat
    BY Zenon DEF SectionOK, Sections
  <2>5. op.at = "replay" => op.left <= Height(tip)'
    BY <2>2, <2>3, <2>4
  <2> QED
    BY <2>1, <2>5, <1>4, Zenon DEF index, SectionOK
<1> QED
  BY <1>5, <1>6, <1>7, <1>8, Zenon

\* The next block to connect is linked and not genesis.
LEMMA NextBlockIsLinked ==
  ASSUME ChainInv, Connecting
  PROVE  NextBlock \in linked \ {Genesis} /\ NextBlock \in known /\ NextBlock # tip
<1> USE DEF ChainInv
<1>1. op.target \in linked /\ op.target \in Blocks
  BY Zenon DEF Connecting, SectionOK, IndexOK
<1>2. \E x \in Anc[op.target] : x # Genesis /\ Parent[x] = tip
  BY <1>1, NextOnBranch, Zenon DEF Connecting
<1>3. NextBlock \in Anc[op.target] /\ NextBlock # Genesis /\ Parent[NextBlock] = tip
  BY <1>2, Zenon DEF NextBlock
<1>4. NextBlock \in linked
  BY <1>1, <1>3, LinkedIsClosed, Zenon
<1>5. NextBlock \in Blocks
  BY <1>4, Zenon DEF IndexOK
<1>6. NextBlock # tip
  BY <1>3, <1>5, NotBelowParent, AncBounds, Zenon
<1> QED
  BY <1>3, <1>4, <1>6, Zenon DEF IndexOK

\* UpdateTip to a linked block: the candidates shrink, and the section ends or
\* goes on towards the same target.
LEMMA ConnectedKeeps ==
  ASSUME ChainInv, NEW b \in linked, op.at = "step", Connected(b), linked' = linked
  PROVE  /\ SectionOK' /\ calls' \subseteq CallRecords
         /\ candidates' \subseteq linked /\ tip' = b
<1> USE DEF ChainInv
<1>1. candidates' \subseteq linked /\ tip' = b
  BY Zenon DEF Connected, Prune, MarksOK
<1>2. CASE EndStep
  <2>1. Call(op.call.pblock, op.target) \in CallRecords
    BY SectionTypes, Zenon DEF SectionOK, Sections, CallRecords
  <2> QED
    BY <2>1, <1>1, <1>2, FreeKeepsSection, Zenon DEF EndStep, MarksOK
<1>3. CASE op' = [op EXCEPT !.pend = NoBlock] /\ UNCHANGED calls
  <2>1. op' \in Sections /\ op'.at = "step" /\ op'.target = op.target /\ op'.pend = NoBlock
    BY <1>3, Zenon DEF SectionOK, Sections, Pointers
  <2>2. SectionOK'
    BY <2>1, Zenon DEF SectionOK
  <2> QED
    BY <2>2, <1>1, <1>3, Zenon DEF MarksOK
<1> QED
  BY <1>2, <1>3, Zenon DEF Connected

\* ConnectTip without a flush.
LEMMA ConnectTipKeepsInv ==
  ASSUME ChainInv, ConnectTip
  PROVE  ChainInv'
<1> USE DEF ChainInv
<1>1. NextBlock \in linked \ {Genesis} /\ NextBlock \in known
  BY NextBlockIsLinked, Zenon DEF ConnectTip
<1>2. UNCHANGED <<index, flags, swift, disk, checked>> /\ dirty' = dirty \cup {NextBlock}
  BY Zenon DEF ConnectTip
<1>3. /\ SectionOK' /\ calls' \subseteq CallRecords
      /\ candidates' \subseteq linked /\ tip' \in linked
  BY <1>1, <1>2, ConnectedKeeps, Zenon DEF ConnectTip, Connecting, index
<1>4. IndexOK'
  BY <1>2, Zenon DEF index, IndexOK
<1>5. MarksOK'
  BY <1>1, <1>2, <1>3, Zenon DEF index, flags, swift, MarksOK
<1>6. DiskOK'
  BY <1>2, Zenon DEF index, DiskOK
<1> QED
  BY <1>3, <1>4, <1>5, <1>6, Zenon

\* ConnectTip with a flush writes the block index ...
LEMMA ConnectTipFlushingKeepsInv ==
  ASSUME ChainInv, ConnectTipFlushing
  PROVE  ChainInv'
<1> USE DEF ChainInv
<1>1. NextBlock \in linked \ {Genesis} /\ NextBlock \in known
  BY NextBlockIsLinked, Zenon DEF ConnectTipFlushing
<1>2. /\ UNCHANGED <<index, flags, candidates, tip, swift, checked, calls>> /\ dirty' = {}
      /\ disk' = WriteIndex(failedValid, failedChild, dirty \cup {NextBlock})
      /\ op' = [op EXCEPT !.pend = NextBlock] /\ op.at = "step"
  BY Zenon DEF ConnectTipFlushing, Connecting
<1>3. IndexOK'
  BY <1>2, Zenon DEF index, IndexOK
<1>4. MarksOK'
  BY <1>2, Zenon DEF index, flags, swift, MarksOK
<1>5. DiskOK'
  <2>1. failedValid \in SUBSET known /\ failedChild \in SUBSET known
        /\ dirty \cup {NextBlock} \in SUBSET known
    BY <1>1, Zenon DEF MarksOK
  <2>2. known' = known /\ data' = data
    BY <1>2, Zenon DEF index
  <2> QED
    BY <2>1, <2>2, <1>2, WriteIndexKeepsDisk, Zenon
<1>6. SectionOK'
  <2>1. NextBlock \in Pointers
    BY <1>1, Zenon DEF IndexOK, Pointers
  <2>2. op' \in Sections /\ op'.at = "step" /\ op'.target = op.target /\ op'.pend = NextBlock
    BY <1>2, <2>1, Zenon DEF SectionOK, Sections
  <2> QED
    BY <2>2, <1>1, <1>2, Zenon DEF index, SectionOK
<1> QED
  BY <1>3, <1>4, <1>5, <1>6, Zenon

\* ... and then the coins.
LEMMA FinishConnectKeepsInv ==
  ASSUME ChainInv, FinishConnect
  PROVE  ChainInv'
<1> USE DEF ChainInv
<1>1. op.pend \in linked /\ dirty = {} /\ op.at = "step"
  BY Zenon DEF FinishConnect, SectionOK
<1>2. UNCHANGED <<index, flags, dirty, swift, checked>> /\ disk' = [disk EXCEPT !.tip = op.pend]
  BY Zenon DEF FinishConnect
<1>3. /\ SectionOK' /\ calls' \subseteq CallRecords
      /\ candidates' \subseteq linked /\ tip' \in linked
  BY <1>1, <1>2, ConnectedKeeps, Zenon DEF FinishConnect, index
<1>4. IndexOK'
  BY <1>2, Zenon DEF index, IndexOK
<1>5. MarksOK'
  BY <1>1, <1>2, <1>3, Zenon DEF index, flags, swift, MarksOK
<1>6. DiskOK'
  <2>1. op.pend \in Blocks /\ Anc[op.pend] \subseteq disk.data
    BY <1>1, Zenon DEF IndexOK, DiskOK
  <2> QED
    BY <2>1, <1>2, Zenon DEF index, DiskOK
<1> QED
  BY <1>3, <1>4, <1>5, <1>6, Zenon

\* InvalidBlockFound.
LEMMA InvalidBlockFoundKeepsInv ==
  ASSUME ChainInv, InvalidBlockFound
  PROVE  ChainInv'
<1> USE DEF ChainInv
<1>1. NextBlock \in known /\ NextBlock \in Blocks
  BY NextBlockIsLinked, Zenon DEF InvalidBlockFound, IndexOK
<1>2. /\ UNCHANGED <<index, failedChild, tip, refused, replays, disk, checked>>
      /\ failedValid' = failedValid \cup {NextBlock} /\ dirty' = dirty \cup {NextBlock}
      /\ candidates' \subseteq candidates /\ rejected' \subseteq rejected \cup {NextBlock}
      /\ EndStep
  BY Zenon DEF InvalidBlockFound
<1>3. calls' \subseteq CallRecords
  <2>1. Call(op.call.pblock, op.target) \in CallRecords
    BY SectionTypes, Zenon DEF SectionOK, Sections, CallRecords
  <2> QED
    BY <2>1, <1>2, Zenon DEF EndStep, MarksOK
<1>4. IndexOK'
  BY <1>2, Zenon DEF index, IndexOK
<1>5. MarksOK'
  BY <1>1, <1>2, <1>3, Zenon DEF index, MarksOK
<1>6. DiskOK'
  BY <1>2, Zenon DEF index, DiskOK
<1>7. SectionOK'
  BY <1>2, FreeKeepsSection, Zenon DEF EndStep
<1> QED
  BY <1>4, <1>5, <1>6, <1>7, Zenon

\* InvalidateBlock marks the block, and at its end refills the candidates.
LEMMA InvalidateKeepsInv ==
  ASSUME ChainInv, FinishInvalidate \/ \E b \in Blocks : Invalidate(b)
  PROVE  ChainInv'
<1> USE DEF ChainInv
<1>1. CASE FinishInvalidate
  <2>1. /\ UNCHANGED <<index, flags, tip, dirty, swift, disk, checked>>
        /\ candidates' = Refilled /\ op' = Free /\ calls' = calls \cup {NewCall}
    BY <1>1, Zenon DEF FinishInvalidate
  <2>2. IndexOK'
    BY <2>1, Zenon DEF index, IndexOK
  <2>3. MarksOK'
    BY <2>1, SectionTypes, Zenon DEF index, flags, swift, MarksOK, Refilled
  <2>4. DiskOK'
    BY <2>1, Zenon DEF index, DiskOK
  <2> QED
    BY <2>1, <2>2, <2>3, <2>4, FreeKeepsSection, Zenon
<1>2. ASSUME NEW b \in Blocks, Invalidate(b) PROVE ChainInv'
  <2>1. /\ UNCHANGED <<index, failedChild, tip, swift, disk, checked, calls>>
        /\ b \in known \ {Genesis}
        /\ failedValid' = failedValid \cup {b} /\ dirty' = dirty \cup {b}
        /\ candidates' \subseteq candidates
        /\ op' = Section("invalidate", NewCall, b, NoBlock, 0)
    BY <1>2, Zenon DEF Invalidate
  <2>2. IndexOK'
    BY <2>1, Zenon DEF index, IndexOK
  <2>3. MarksOK'
    BY <2>1, Zenon DEF index, swift, MarksOK
  <2>4. DiskOK'
    BY <2>1, Zenon DEF index, DiskOK
  <2>5. SectionOK'
    <3>1. /\ op' \in Sections /\ op'.at = "invalidate" /\ op'.target = b
          /\ op'.pend = NoBlock
      BY <2>1, OtherSections, Zenon
    <3> QED
      BY <2>1, <3>1, Zenon DEF SectionOK
  <2> QED
    BY <2>2, <2>3, <2>4, <2>5, Zenon
<1> QED
  BY <1>1, <1>2, Zenon

\* DisconnectBlocks begins when the chain is long enough, and ends.
LEMMA ReplayKeepsInv ==
  ASSUME ChainInv, BeginReplay \/ FinishReplay
  PROVE  ChainInv'
<1> USE DEF ChainInv
<1>1. /\ UNCHANGED <<index, flags, candidates, tip, dirty, refused, rejected, disk, checked>>
      /\ replays' \subseteq replays /\ calls' \subseteq calls \cup {NewCall}
  BY Zenon DEF BeginReplay, FinishReplay, swift
<1>2. IndexOK'
  BY <1>1, Zenon DEF index, IndexOK
<1>3. MarksOK'
  BY <1>1, SectionTypes, Zenon DEF index, flags, MarksOK
<1>4. DiskOK'
  BY <1>1, Zenon DEF index, DiskOK
<1>5. SectionOK'
  <2>1. CASE BeginReplay
    <3>1. op' = Section("replay", NewCall, NoBlock, NoBlock, nReplay + 1)
      BY <2>1, Zenon DEF BeginReplay
    <3>2. op' \in Sections /\ op'.at = "replay" /\ op'.pend = NoBlock /\ op'.left = nReplay + 1
      BY <3>1, OtherSections, Zenon
    <3>3. nReplay + 1 <= Height(tip)'
      <4>1. Height(tip)' = Height(tip)
        BY <1>1, Zenon DEF Height
      <4>2. tip \in Blocks
        BY Zenon DEF MarksOK, IndexOK
      <4>3. Height(tip) \in Nat
        BY <4>2, HeightOfParent
      <4> QED
        BY <4>1, <4>3, <2>1, TreeAssumption, Zenon DEF BeginReplay
    <3> QED
      BY <3>2, <3>3, Zenon DEF SectionOK
  <2>2. CASE FinishReplay
    BY <2>2, FreeKeepsSection, Zenon DEF FinishReplay
  <2> QED
    BY <2>1, <2>2, Zenon
<1> QED
  BY <1>2, <1>3, <1>4, <1>5, Zenon

\* A block is checked, it begins to be refused, or no longer is: none of it under
\* cs_main, none of it in the index.
LEMMA OutsideKeepsInv ==
  ASSUME ChainInv, NEW b \in Blocks, CheckNewBlock(b) \/ BeginRefusing(b) \/ EndRefusing(b)
  PROVE  ChainInv'
<1> USE DEF ChainInv
<1>1. UNCHANGED <<index, flags, candidates, tip, dirty, disk, calls, op>>
  BY Zenon DEF CheckNewBlock, BeginRefusing, EndRefusing
<1>2. /\ refused' \subseteq Blocks /\ rejected' \subseteq Blocks
      /\ checked' \subseteq Blocks \ {Genesis} /\ replays' \subseteq SUBSET known
  <2>1. CASE CheckNewBlock(b)
    BY <2>1, Zenon DEF CheckNewBlock, MarksOK
  <2>2. CASE BeginRefusing(b)
    BY <2>2 DEF BeginRefusing, MarksOK
  <2>3. CASE EndRefusing(b)
    BY <2>3, Zenon DEF EndRefusing, MarksOK
  <2> QED
    BY <2>1, <2>2, <2>3, Zenon
<1>3. IndexOK'
  BY <1>1, Zenon DEF index, IndexOK
<1>4. MarksOK'
  BY <1>1, <1>2, Zenon DEF index, flags, MarksOK
<1>5. DiskOK'
  BY <1>1, Zenon DEF index, DiskOK
<1>6. SectionOK'
  BY <1>1, SectionGoesOn, Zenon DEF index
<1> QED
  BY <1>3, <1>4, <1>5, <1>6, Zenon

\* FlushStateToDisk: the block index first, the coins after it.
LEMMA FlushKeepsInv ==
  ASSUME ChainInv, BeginFlush \/ FinishFlush
  PROVE  ChainInv'
<1> USE DEF ChainInv
<1>1. UNCHANGED <<index, flags, candidates, tip, swift, checked, calls>>
  BY Zenon DEF BeginFlush, FinishFlush
<1>2. IndexOK'
  BY <1>1, Zenon DEF index, IndexOK
<1>3. MarksOK'
  BY <1>1, Zenon DEF index, flags, swift, MarksOK, BeginFlush, FinishFlush
<1>4. CASE BeginFlush
  <2>1. /\ disk' = WriteIndex(failedValid, failedChild, dirty) /\ dirty' = {}
        /\ op' \in {Free, Section("flush", NewCall, NoBlock, NoBlock, 0)}
    BY <1>4, Zenon DEF BeginFlush
  <2>2. failedValid \in SUBSET known /\ failedChild \in SUBSET known /\ dirty \in SUBSET known
    BY Zenon DEF MarksOK
  <2>3. known' = known /\ data' = data
    BY <1>1, Zenon DEF index
  <2>4. DiskOK'
    BY <2>1, <2>2, <2>3, WriteIndexKeepsDisk, Zenon
  <2>5. op' \in Sections /\ op'.at \in {"free", "flush"} /\ op'.pend = NoBlock
    BY <2>1, OtherSections, FreeTypes, Zenon
  <2>6. SectionOK'
    BY <2>1, <2>5, Zenon DEF SectionOK
  <2> QED
    BY <2>4, <2>6, <1>2, <1>3, Zenon
<1>5. CASE FinishFlush
  <2>1. dirty = {} /\ dirty' = dirty /\ disk' = [disk EXCEPT !.tip = tip] /\ op' = Free
    BY <1>5, Zenon DEF FinishFlush, SectionOK
  <2>2. tip \in Blocks /\ Anc[tip] \subseteq disk.data
    BY <2>1, Zenon DEF MarksOK, IndexOK, DiskOK
  <2>3. DiskOK'
    BY <2>1, <2>2, <1>1, Zenon DEF index, DiskOK
  <2> QED
    BY <2>1, <2>3, <1>2, <1>3, FreeKeepsSection, Zenon
<1> QED
  BY <1>4, <1>5, Zenon

\* LoadBlockIndexDB rebuilds nChainTx, mapBlocksUnlinked and the candidates
\* from what a crash at any point has left on disk.
LEMMA RestartKeepsInv ==
  ASSUME ChainInv, Restart
  PROVE  ChainInv'
<1> USE DEF ChainInv
<1> DEFINE L == {x \in disk.data : Anc[x] \subseteq disk.data}
<1>1. /\ disk.data \subseteq disk.known /\ disk.known \subseteq Blocks /\ disk.tip \in Blocks
      /\ Anc[disk.tip] \subseteq disk.data
  BY Zenon DEF DiskOK
<1>2. disk.tip \in L /\ Genesis \in disk.data
  BY <1>1, AncBounds, Zenon
<1>3. /\ known' = disk.known /\ data' = disk.data /\ linked' = L /\ tip' = disk.tip
      /\ failedValid' = disk.failedValid /\ failedChild' = disk.failedChild
      /\ unlinked' = {x \in disk.data \ {Genesis} : Parent[x] \notin L}
      /\ seq' = [b \in Blocks |-> 0] /\ nSeq' = 1
      /\ candidates' \subseteq L /\ dirty' = {} /\ disk' = disk
      /\ refused' = {} /\ rejected' = {} /\ replays' = {} /\ checked' = {}
      /\ calls' = {NewCall} /\ op' = Free
  BY Zenon DEF Restart, LoadedLinks
<1>4. \A x \in disk.data \ {Genesis} : Parent[x] \in L <=> x \in L
  <2> TAKE x \in disk.data \ {Genesis}
  <2>1. Parent[x] \in Blocks /\ Anc[x] = {x} \cup Anc[Parent[x]] /\ Parent[x] \in Anc[Parent[x]]
    BY <1>1, NotBelowParent, AncBounds, Zenon
  <2> QED
    BY <2>1, Zenon
<1>5. Genesis \in L
  BY <1>2, AncCases, Zenon
<1>6. unlinked' = disk.data \ L
  <2> HIDE DEF L
  <2> QED
    BY <1>3, <1>4, <1>5, Zenon
<1>7. IndexOK'
  <2>1. Genesis \in data' /\ data' \subseteq known' /\ known' \subseteq Blocks
    BY <1>1, <1>2, <1>3, Zenon
  <2>2. linked' = {x \in data' : Anc[x] \subseteq data'} /\ unlinked' = data' \ linked'
    BY <1>3, <1>6, Zenon
  <2>3. nSeq' \in Nat /\ seq' \in [Blocks -> 0 .. nSeq' - 1]
    <3>1. nSeq' = 1 /\ seq' = [b \in Blocks |-> 0]
      BY <1>3, Zenon
    <3> QED
      BY <3>1
  <2> QED
    BY <2>1, <2>2, <2>3, Zenon DEF IndexOK
<1>8. MarksOK'
  <2> HIDE DEF L
  <2>1. disk.failedValid \subseteq disk.known /\ disk.failedChild \subseteq disk.known
    BY Zenon DEF DiskOK
  <2> QED
    BY <1>2, <1>3, <2>1, SectionTypes, Zenon DEF MarksOK
<1>9. DiskOK'
  BY <1>3, Zenon DEF DiskOK
<1> QED
  BY <1>3, <1>7, <1>8, <1>9, FreeKeepsSection, Zenon

\* Every step keeps the invariant.
LEMMA ChainInvNext == ChainInv /\ [Next]_vars => ChainInv'
<1> SUFFICES ASSUME ChainInv, [Next]_vars PROVE ChainInv'
  BY Zenon
<1>1. CASE UNCHANGED vars
  BY <1>1, Zenon DEF vars, index, flags, swift, ChainInv, IndexOK, MarksOK, SectionOK, DiskOK, Height
<1>2. CASE Progress
  <2>1. CASE \E b \in Blocks : RefuseBlock(b) \/ AcceptDuplicate(b) \/ FailContextualCheck(b)
                               \/ FailStakeCheck(b) \/ AcceptBlock(b)
    BY <2>1, ArrivalKeepsInv, Zenon
  <2>2. CASE \/ \E b \in Blocks : ReconsiderCheckpoint(b)
             \/ \E R \in replays : \E b \in R : ReplayReconsider(R, b)
    BY <2>2, ReconsiderKeepsInv, Zenon
  <2>3. CASE \E c \in calls : NothingToActivate(c) \/ BeginStep(c) \/ EndActivate(c)
    BY <2>3, IterationKeepsInv, Zenon
  <2>4. CASE DisconnectTip \/ InvalidateTip \/ ReplayTip
    BY <2>4, BeginDisconnectKeepsInv, Zenon
  <2>5. CASE FinishDisconnect
    BY <2>5, FinishDisconnectKeepsInv, Zenon
  <2>6. CASE ConnectTip
    BY <2>6, ConnectTipKeepsInv, Zenon
  <2>7. CASE ConnectTipFlushing
    BY <2>7, ConnectTipFlushingKeepsInv, Zenon
  <2>8. CASE FinishConnect
    BY <2>8, FinishConnectKeepsInv, Zenon
  <2>9. CASE InvalidBlockFound
    BY <2>9, InvalidBlockFoundKeepsInv, Zenon
  <2>10. CASE FinishInvalidate
    BY <2>10, InvalidateKeepsInv, Zenon
  <2>11. CASE BeginReplay \/ FinishReplay
    BY <2>11, ReplayKeepsInv, Zenon
  <2>12. CASE FinishFlush
    BY <2>12, FlushKeepsInv, Zenon
  <2> QED
    BY <1>2, <2>1, <2>2, <2>3, <2>4, <2>5, <2>6, <2>7, <2>8, <2>9, <2>10, <2>11, <2>12
    DEF Progress
<1>3. CASE Environment
  <2>1. CASE \E b \in Blocks : CheckNewBlock(b) \/ BeginRefusing(b) \/ EndRefusing(b)
    BY <2>1, OutsideKeepsInv, Zenon
  <2>2. CASE \E b \in Blocks : Invalidate(b)
    BY <2>2, InvalidateKeepsInv, Zenon
  <2>3. CASE \E b \in Blocks : Reconsider(b)
    BY <2>3, ReconsiderKeepsInv, Zenon
  <2>4. CASE BeginFlush
    BY <2>4, FlushKeepsInv, Zenon
  <2>5. CASE Restart
    BY <2>5, RestartKeepsInv, Zenon
  <2> QED
    BY <1>3, <2>1, <2>2, <2>3, <2>4, <2>5, Zenon DEF Environment
<1> QED
  BY <1>1, <1>2, <1>3, Zenon DEF Next

\* ChainInv is an invariant.
LEMMA ChainInvHolds == Spec => []ChainInv
  BY ChainInvInit, ChainInvNext, PTL DEF Spec

\* On every block tree, in whatever order the blocks arrive and wherever the
\* process dies, nChainTx is set exactly on the blocks that are there with all
\* their ancestors, mapBlocksUnlinked holds exactly the others, and every
\* candidate is linked (CheckBlockIndex).
THEOREM LinksStayExact == Spec => []LinksAreExact
  BY ChainInvHolds, ChainInvSuffices, PTL

\* The coins on disk never name a best block that the block index on disk does
\* not hold with all its ancestors' data, wherever the process dies.
THEOREM DiskTipStaysIndexed == Spec => []DiskTipIsIndexed
  BY ChainInvHolds, ChainInvSuffices, PTL
-----------------------------------------------------------------------------
(* Marks and the active chain.                                             *)

Counters == [invalidate : Nat, reconsider : Nat, refuse : Nat, crash : Nat]

\* Unless InvalidateBlock was interrupted: a step works towards a target whose
\* branch has not failed, and what has failed in the active chain is above the
\* block that InvalidateBlock is taking out.
ActiveOK ==
    /\ op.at \notin {"step", "invalidate"} => Active \cap Failed = {}
    /\ op.at = "step" =>
          /\ (Active \cup Anc[op.target]) \cap Failed = {}
          /\ op.pend \in Anc[op.target] \cup {tip, NoBlock}
    /\ op.at = "invalidate" => \A x \in Active \cap Failed : op.target \in Anc[x]

\* The tip on disk is in the active chain, and a mark that is on disk and not
\* in memory is about to be erased.
DiskChainOK ==
    /\ disk.tip \in Active
    /\ disk.failedValid \subseteq failedValid \cup dirty
    /\ disk.failedChild \subseteq failedChild \cup dirty

\* What a restart would find as the active chain has not failed.
DiskClean == Anc[disk.tip] \cap (disk.failedValid \cup disk.failedChild) = {}

ActiveInv ==
    /\ used \in Counters
    /\ DiskChainOK
    /\ Uninterrupted => ActiveOK
    /\ used.invalidate = 0 => op.at # "invalidate" /\ DiskClean

\* The invariant gives the property.
LEMMA ActiveInvSuffices == ActiveInv => ActiveChainHasNotFailed
  BY FreeTypes, Zenon DEF ActiveInv, ActiveOK, ActiveChainHasNotFailed

\* It holds at the start.
LEMMA ActiveInvInit == Init => ActiveInv
<1> SUFFICES ASSUME Init
             PROVE  ActiveInv
  BY Zenon
<1>1. used \in Counters
  BY Zenon DEF Init, Counters
<1>2. op.at = "free"
  BY FreeTypes, Zenon DEF Init
<1>3. Failed = {} /\ disk.failedValid = {} /\ disk.failedChild = {}
  BY Zenon DEF Init, Failed
<1>4. disk.tip \in Active
  BY AncCases, Zenon DEF Init, Active
<1> QED
  BY <1>1, <1>2, <1>3, <1>4, Zenon DEF ActiveInv, ActiveOK, DiskChainOK, DiskClean

\* The bounds only count up.
LEMMA CountersCount ==
  ASSUME used \in Counters, [Next]_vars
  PROVE  /\ used' \in Counters
         /\ used'.crash = 0 => used.crash = 0 /\ ~Restart
         /\ used'.invalidate = 0 => used.invalidate = 0 /\ \A b \in Blocks : ~Invalidate(b)
         /\ used'.reconsider = 0 => used.reconsider = 0 /\ \A b \in Blocks : ~Reconsider(b)
         /\ used'.refuse = 0 => used.refuse = 0 /\ \A b \in Blocks : ~BeginRefusing(b)
<1>0. /\ used.invalidate \in Nat /\ used.reconsider \in Nat /\ used.refuse \in Nat /\ used.crash \in Nat
      /\ \A n \in Nat : n + 1 \in Nat /\ n + 1 # 0 /\ n + 1 # n
  BY DEF Counters
<1>1. CASE used' = used
  <2>1. ~Restart /\ \A b \in Blocks : ~Invalidate(b) /\ ~Reconsider(b) /\ ~BeginRefusing(b)
    BY <1>0, <1>1, Zenon DEF Counters, Restart, Invalidate, Reconsider, BeginRefusing
  <2> QED
    BY <1>1, <2>1, Zenon
<1>2. CASE \E b \in Blocks : Invalidate(b)
  <2>1. used' = [used EXCEPT !.invalidate = used.invalidate + 1]
    BY <1>2, Zenon DEF Invalidate
  <2>2. /\ used' \in Counters /\ used'.crash = used.crash /\ used'.invalidate # 0
        /\ used'.reconsider = used.reconsider /\ used'.refuse = used.refuse
    BY <2>1 DEF Counters
  <2>3. ~Restart /\ \A b \in Blocks : ~Reconsider(b) /\ ~BeginRefusing(b)
    BY <2>2 DEF Counters, Restart, Reconsider, BeginRefusing
  <2> QED
    BY <2>2, <2>3, Zenon
<1>3. CASE \E b \in Blocks : Reconsider(b)
  <2>1. used' = [used EXCEPT !.reconsider = used.reconsider + 1]
    BY <1>3, Zenon DEF Reconsider
  <2>2. /\ used' \in Counters /\ used'.crash = used.crash /\ used'.invalidate = used.invalidate
        /\ used'.reconsider # 0 /\ used'.refuse = used.refuse
    BY <2>1 DEF Counters
  <2>3. ~Restart /\ \A b \in Blocks : ~Invalidate(b) /\ ~BeginRefusing(b)
    BY <2>2 DEF Counters, Restart, Invalidate, BeginRefusing
  <2> QED
    BY <2>2, <2>3, Zenon
<1>4. CASE \E b \in Blocks : BeginRefusing(b)
  <2>1. used' = [used EXCEPT !.refuse = used.refuse + 1]
    BY <1>4, Zenon DEF BeginRefusing
  <2>2. /\ used' \in Counters /\ used'.crash = used.crash /\ used'.invalidate = used.invalidate
        /\ used'.reconsider = used.reconsider /\ used'.refuse # 0
    BY <2>1 DEF Counters
  <2>3. ~Restart /\ \A b \in Blocks : ~Invalidate(b) /\ ~Reconsider(b)
    BY <2>2 DEF Counters, Restart, Invalidate, Reconsider
  <2> QED
    BY <2>2, <2>3, Zenon
<1>5. CASE Restart
  <2>1. used' = [used EXCEPT !.crash = used.crash + 1]
    BY <1>5, Zenon DEF Restart
  <2>2. /\ used' \in Counters /\ used'.crash # 0 /\ used'.invalidate = used.invalidate
        /\ used'.reconsider = used.reconsider /\ used'.refuse = used.refuse
    BY <2>1 DEF Counters
  <2>3. \A b \in Blocks : ~Invalidate(b) /\ ~Reconsider(b) /\ ~BeginRefusing(b)
    BY <2>2 DEF Counters, Invalidate, Reconsider, BeginRefusing
  <2> QED
    BY <2>2, <2>3, Zenon
<1>6. used' = used \/ (\E b \in Blocks : Invalidate(b)) \/ (\E b \in Blocks : Reconsider(b))
      \/ (\E b \in Blocks : BeginRefusing(b)) \/ Restart
  BY Zenon DEF vars, Next, Progress, Environment, RefuseBlock, AcceptDuplicate, FailContextualCheck,
         FailStakeCheck, AcceptBlock, ReconsiderCheckpoint, NothingToActivate, BeginStep,
         EndActivate, DisconnectTip, FinishDisconnect, ConnectTip, ConnectTipFlushing,
         FinishConnect, InvalidBlockFound, InvalidateTip, FinishInvalidate, ReplayReconsider,
         BeginReplay, ReplayTip, FinishReplay, FinishFlush, CheckNewBlock, EndRefusing, BeginFlush
<1> QED
  BY <1>1, <1>2, <1>3, <1>4, <1>5, <1>6, Zenon

\* Marks on blocks without data, and marks taken away, disturb nobody.
LEMMA MarksElsewhere ==
  ASSUME ChainInv, ActiveOK, op' = op, tip' = tip, Failed' \cap data \subseteq Failed
  PROVE  ActiveOK'
<1>1. Active \subseteq data /\ (op.at = "step" => Anc[op.target] \subseteq data)
  BY Zenon DEF ChainInv, IndexOK, MarksOK, SectionOK, Active
<1>2. Active' = Active
  BY Zenon DEF Active
<1> QED
  BY <1>1, <1>2, Zenon DEF ActiveOK

\* The steps that move neither the tip nor the section.
LEMMA QuietStepsKeepActive ==
  ASSUME ChainInv, ActiveOK,
         \/ \E b \in Blocks : \/ RefuseBlock(b) \/ AcceptDuplicate(b) \/ FailContextualCheck(b)
                              \/ FailStakeCheck(b) \/ AcceptBlock(b)
                              \/ CheckNewBlock(b) \/ BeginRefusing(b) \/ EndRefusing(b)
                              \/ Reconsider(b) \/ ReconsiderCheckpoint(b)
         \/ \E R \in replays : \E b \in R : ReplayReconsider(R, b)
         \/ \E c \in calls : EndActivate(c)
  PROVE  ActiveOK'
<1>1. CASE \E b \in Blocks : \/ RefuseBlock(b) \/ AcceptDuplicate(b) \/ FailContextualCheck(b)
                             \/ FailStakeCheck(b) \/ AcceptBlock(b)
                             \/ CheckNewBlock(b) \/ EndRefusing(b)
  <2>1. op' = op /\ tip' = tip /\ failedChild' = failedChild
        /\ failedValid' \cap data \subseteq failedValid
    BY <1>1, BlockFrame, Zenon
  <2> QED
    BY <2>1, MarksElsewhere, Zenon DEF Failed
<1>2. CASE \E b \in Blocks : BeginRefusing(b)
  <2>1. op' = op /\ tip' = tip /\ Failed' = Failed
    BY <1>2, Zenon DEF BeginRefusing, flags, Failed
  <2> QED
    BY <2>1, MarksElsewhere, Zenon
<1>3. CASE \/ \E b \in Blocks : Reconsider(b) \/ ReconsiderCheckpoint(b)
           \/ \E R \in replays : \E b \in R : ReplayReconsider(R, b)
  <2>1. op' = op /\ tip' = tip /\ \E b : ReconsiderBlock(b)
    BY <1>3, Zenon DEF Reconsider, ReconsiderCheckpoint, ReplayReconsider
  <2>2. Failed' \subseteq Failed
    BY <2>1, Zenon DEF ReconsiderBlock, Failed
  <2> QED
    BY <2>1, <2>2, MarksElsewhere, Zenon
<1>4. CASE \E c \in calls : EndActivate(c)
  <2>1. op' = op /\ tip' = tip /\ Failed' = Failed
    BY <1>4, Zenon DEF EndActivate, flags, Failed
  <2> QED
    BY <2>1, MarksElsewhere, Zenon
<1> QED
  BY <1>1, <1>2, <1>3, <1>4, Zenon

\* The steps of ReprocessBlocks and of a flush never go up a branch.
LEMMA LoweringKeepsActive ==
  ASSUME ChainInv, ActiveOK, BeginReplay \/ ReplayTip \/ FinishReplay \/ BeginFlush \/ FinishFlush
  PROVE  ActiveOK'
<1>1. tip' = tip /\ Failed' = Failed /\ Active' = Active
  BY Zenon DEF BeginReplay, ReplayTip, FinishReplay, BeginFlush, FinishFlush, flags, Failed, Active
<1>2. op.at \notin {"step", "invalidate"}
  BY FreeTypes, Zenon DEF BeginReplay, ReplayTip, FinishReplay, BeginFlush, FinishFlush
<1>3. op'.at \in {"free", "replay", "flush"}
  <2>1. ReplayTip => op'.at = "replay"
    BY Zenon DEF ReplayTip, ChainInv, SectionOK, Sections
  <2>2. BeginReplay \/ BeginFlush \/ FinishReplay \/ FinishFlush => op'.at \in {"free", "replay", "flush"}
    BY FreeTypes DEF BeginReplay, BeginFlush, FinishReplay, FinishFlush, Section
  <2> QED
    BY <2>1, <2>2, Zenon
<1> QED
  BY <1>1, <1>2, <1>3, Zenon DEF ActiveOK

\* FindMostWorkChain marks no block of the active chain and none of the branch
\* that it chooses: what it marks is above a failed block.
LEMMA FindMarksElsewhere ==
  ASSUME ChainInv, Active \cap Failed = {}, FindMostWorkChain, failedValid' = failedValid
  PROVE  /\ Active \cap Failed' = {}
         /\ MostWork # NoBlock => Anc[MostWork] \cap Failed' = {}
<1>0. tip \in Blocks /\ candidates \subseteq Blocks /\ seq \in [Blocks -> Int]
  <2>1. linked \subseteq Blocks /\ tip \in linked /\ candidates \subseteq linked
    BY Zenon DEF ChainInv, MarksOK, IndexOK
  <2>2. seq \in [Blocks -> Int]
    BY SequenceTypes, Zenon DEF ChainInv, IndexOK
  <2> QED
    BY <2>1, <2>2, Zenon
<1>1. \A x \in Failed' \ Failed : \E c \in Dropped : x \in AboveFailed(c)
  BY Zenon DEF FindMostWorkChain, Failed
<1>2. Active \cap Failed' = {}
  BY <1>1, Zenon DEF AboveFailed, Branch
<1>3. ASSUME MostWork # NoBlock, NEW x \in Anc[MostWork], x \in Failed'
      PROVE  FALSE
  <2>1. MostWork \in candidates /\ Usable(MostWork) /\ MostWork \in Blocks
    BY <1>0, <1>3, MostWorkIsUsable, Zenon
  <2>2. Anc[MostWork] \cap Failed = {}
    BY <2>1, Zenon DEF Usable, Branch
  <2>3. PICK c \in Dropped : x \in AboveFailed(c)
    BY <1>1, <1>3, <2>2, Zenon
  <2>4. c \in Blocks /\ x \in Anc[c] /\ x \in Blocks
    BY <1>0, <2>1, <2>3, <1>3, AncTransitive, Zenon DEF Dropped, AboveFailed, Branch
  <2>5. PICK y \in Branch(c) \cap Failed : TRUE
    BY <2>3, Zenon DEF Dropped, Usable
  <2>6. y \in Anc[c] /\ y \in Failed /\ x \notin Anc[y]
    BY <2>3, <2>5, Zenon DEF AboveFailed, Branch
  <2>7. y \in Anc[x]
    BY <2>4, <2>6, AncIsALine, Zenon
  <2>8. y \in Anc[MostWork]
    BY <2>1, <2>7, <1>3, AncTransitive, Zenon
  <2> QED
    BY <2>2, <2>6, <2>8, Zenon
<1> QED
  BY <1>2, <1>3, Zenon

\* An iteration of ActivateBestChain begins.
LEMMA IterationKeepsActive ==
  ASSUME ChainInv, ActiveOK, NEW c \in calls, NothingToActivate(c) \/ BeginStep(c)
  PROVE  ActiveOK'
<1>1. op = Free /\ tip' = tip /\ failedValid' = failedValid /\ FindMostWorkChain
  BY Zenon DEF NothingToActivate, BeginStep
<1>2. Active \cap Failed = {} /\ Active' = Active
  BY <1>1, FreeTypes, Zenon DEF ActiveOK, Active
<1>3. /\ Active \cap Failed' = {}
      /\ MostWork # NoBlock => Anc[MostWork] \cap Failed' = {}
  BY <1>1, <1>2, FindMarksElsewhere, Zenon
<1>4. CASE NothingToActivate(c)
  BY <1>1, <1>2, <1>3, <1>4, FreeTypes, Zenon DEF NothingToActivate, ActiveOK
<1>5. CASE BeginStep(c)
  <2>1. op'.at = "step" /\ op'.target = MostWork /\ op'.pend = NoBlock /\ MostWork # NoBlock
    BY <1>5, Zenon DEF BeginStep, Section
  <2> QED
    BY <2>1, <1>2, <1>3, Zenon DEF ActiveOK
<1> QED
  BY <1>4, <1>5, Zenon

\* The tip is disconnected.
LEMMA DisconnectKeepsActive ==
  ASSUME ChainInv, ActiveOK, DisconnectTip \/ FinishDisconnect \/ InvalidateTip
  PROVE  ActiveOK'
<1>0. tip \in Blocks /\ tip # NoBlock /\ op \in Sections
  BY TreeAssumption DEF ChainInv, MarksOK, IndexOK, SectionOK
<1>1. CASE DisconnectTip
  <2>1. /\ op.at = "step" /\ op'.at = "step" /\ op'.target = op.target /\ op'.pend = tip
        /\ tip' = tip /\ Failed' = Failed
    BY <1>0, <1>1, Zenon DEF DisconnectTip, BeginDisconnect, flags, Failed, Sections
  <2> QED
    BY <2>1, Zenon DEF ActiveOK, Active
<1>2. CASE FinishDisconnect
  <2>1. tip # Genesis
    BY <1>0, <1>2, Zenon DEF FinishDisconnect, ChainInv, SectionOK
  <2>2. Anc[Parent[tip]] \subseteq Anc[tip]
    BY <1>0, <2>1, NotBelowParent
  <2>3. /\ op'.at = op.at /\ op'.target = op.target /\ op'.pend = NoBlock
        /\ Failed' = Failed /\ Active' \subseteq Active
    BY <1>0, <1>2, <2>2, Zenon DEF FinishDisconnect, flags, Failed, Sections, Active
  <2> QED
    BY <2>3, Zenon DEF ActiveOK
<1>3. CASE InvalidateTip
  <2>1. /\ op.at = "invalidate" /\ op'.at = "invalidate" /\ op'.target = op.target
        /\ tip' = tip /\ Failed' = Failed \cup {tip} /\ op.target \in Anc[tip]
    BY <1>0, <1>3, Zenon DEF InvalidateTip, BeginDisconnect, Failed, Sections, Active
  <2> QED
    BY <2>1, Zenon DEF ActiveOK, Active
<1> QED
  BY <1>1, <1>2, <1>3, Zenon

\* The next block is on the way from the tip to the target.
LEMMA NextBlockOnBranch ==
  ASSUME ChainInv, Connecting
  PROVE  /\ op.target \in Blocks /\ NextBlock \in Anc[op.target] /\ NextBlock \in Blocks
         /\ NextBlock # Genesis /\ Parent[NextBlock] = tip /\ Anc[NextBlock] = {NextBlock} \cup Active
<1>1. op.target \in Blocks
  BY Zenon DEF Connecting, ChainInv, SectionOK, IndexOK
<1>2. \E x \in Anc[op.target] : x # Genesis /\ Parent[x] = tip
  BY <1>1, NextOnBranch, Zenon DEF Connecting
<1>3. NextBlock \in Anc[op.target] /\ NextBlock # Genesis /\ Parent[NextBlock] = tip
  BY <1>2, Zenon DEF NextBlock
<1>4. NextBlock \in Blocks
  BY <1>1, <1>3, AncTransitive, Zenon
<1> QED
  BY <1>1, <1>3, <1>4, NotBelowParent, Zenon DEF Active

\* A block of the target's branch is connected, or found invalid.
LEMMA ConnectKeepsActive ==
  ASSUME ChainInv, ActiveOK,
         ConnectTip \/ ConnectTipFlushing \/ FinishConnect \/ InvalidBlockFound
  PROVE  ActiveOK'
<1>0. /\ op.at = "step" /\ op \in Sections /\ op.target \in Blocks /\ tip \in Blocks
      /\ (Active \cup Anc[op.target]) \cap Failed = {}
  BY Zenon DEF ConnectTip, ConnectTipFlushing, FinishConnect, InvalidBlockFound, Connecting,
         ChainInv, SectionOK, IndexOK, MarksOK, ActiveOK
<1>1. ASSUME Connecting
      PROVE  NextBlock \in Anc[op.target] /\ NextBlock \notin Active
  <2>1. NextBlock \in Anc[op.target] /\ NextBlock \in Blocks \ {Genesis} /\ Parent[NextBlock] = tip
    BY <1>1, NextBlockOnBranch, Zenon
  <2> QED
    BY <2>1, NotBelowParent, Zenon DEF Active
<1>2. ASSUME NEW b \in Anc[op.target], Connected(b), Failed' = Failed
      PROVE  ActiveOK'
  <2>1. Active' \subseteq Anc[op.target]
    BY <1>0, <1>2, AncTransitive, Zenon DEF Connected, Active
  <2>2. op'.at = "free" \/ (op'.at = "step" /\ op'.target = op.target /\ op'.pend = NoBlock)
    BY <1>0, <1>2, FreeTypes, Zenon DEF Connected, EndStep, Sections
  <2> QED
    BY <1>0, <1>2, <2>1, <2>2, Zenon DEF ActiveOK
<1>3. CASE ConnectTip
  BY <1>1, <1>2, <1>3, Zenon DEF ConnectTip, flags, Failed
<1>4. CASE ConnectTipFlushing
  <2>1. /\ op'.at = "step" /\ op'.target = op.target /\ op'.pend = NextBlock
        /\ tip' = tip /\ Failed' = Failed
    BY <1>0, <1>4, Zenon DEF ConnectTipFlushing, flags, Failed, Sections
  <2> QED
    BY <1>0, <1>1, <1>4, <2>1, Zenon DEF ConnectTipFlushing, ActiveOK, Active
<1>5. CASE FinishConnect
  <2>1. op.pend \in Anc[op.target]
    BY <1>0, <1>5, Zenon DEF FinishConnect, ActiveOK
  <2> QED
    BY <1>2, <1>5, <2>1, Zenon DEF FinishConnect, flags, Failed
<1>6. CASE InvalidBlockFound
  <2>1. op'.at = "free" /\ Failed' = Failed \cup {NextBlock} /\ Active' = Active
    BY <1>6, FreeTypes, Zenon DEF InvalidBlockFound, EndStep, Failed, Active
  <2> QED
    BY <1>0, <1>1, <1>6, <2>1, Zenon DEF InvalidBlockFound, ActiveOK
<1> QED
  BY <1>3, <1>4, <1>5, <1>6, Zenon

\* InvalidateBlock marks its block, and ends when the active chain is below it.
LEMMA InvalidateKeepsActive ==
  ASSUME ChainInv, ActiveOK, FinishInvalidate \/ \E b \in Blocks : Invalidate(b)
  PROVE  ActiveOK'
<1>0. tip \in Blocks
  BY Zenon DEF ChainInv, MarksOK, IndexOK
<1>1. CASE FinishInvalidate
  <2>1. op'.at = "free" /\ Failed' = Failed /\ Active' = Active
    BY <1>1, FreeTypes, Zenon DEF FinishInvalidate, flags, Failed, Active
  <2>2. ASSUME NEW x \in Active \cap Failed PROVE FALSE
    <3>1. op.target \in Anc[x]
      BY <1>1, Zenon DEF FinishInvalidate, ActiveOK
    <3>2. Anc[x] \subseteq Active
      BY <1>0, AncTransitive, Zenon DEF Active
    <3> QED
      BY <1>1, <3>1, <3>2, Zenon DEF FinishInvalidate
  <2> QED
    BY <2>1, <2>2, Zenon DEF ActiveOK
<1>2. ASSUME NEW b \in Blocks, Invalidate(b) PROVE ActiveOK'
  <2>1. /\ op = Free /\ op'.at = "invalidate" /\ op'.target = b
        /\ Failed' = Failed \cup {b} /\ Active' = Active
    BY <1>2, Zenon DEF Invalidate, Section, Failed, Active
  <2>2. b \in Anc[b] /\ Active \cap Failed = {}
    BY <2>1, AncBounds, FreeTypes, Zenon DEF ActiveOK
  <2> QED
    BY <2>1, <2>2, Zenon DEF ActiveOK
<1> QED
  BY <1>1, <1>2, Zenon

\* Every step but a restart keeps it.
LEMMA ActiveOKNext ==
  ASSUME ChainInv, ActiveOK, [Next]_vars, ~Restart
  PROVE  ActiveOK'
<1>2. CASE UNCHANGED vars
  BY <1>2, Zenon DEF vars, flags, ActiveOK, Active, Failed
<1>3. CASE Progress
  BY <1>3, QuietStepsKeepActive, LoweringKeepsActive, IterationKeepsActive,
     DisconnectKeepsActive, ConnectKeepsActive, InvalidateKeepsActive DEF Progress
<1>4. CASE Environment
  BY <1>4, QuietStepsKeepActive, LoweringKeepsActive, InvalidateKeepsActive, Zenon DEF Environment
<1> QED
  BY <1>2, <1>3, <1>4, Zenon DEF Next

\* The steps that write the block index.
LEMMA IndexWritten ==
  ASSUME ChainInv,
         DisconnectTip \/ InvalidateTip \/ ReplayTip \/ ConnectTipFlushing \/ BeginFlush
  PROVE  /\ tip' = tip /\ failedValid' = failedValid /\ failedChild \subseteq failedChild' /\ dirty' = {}
         /\ disk'.tip = disk.tip
         /\ disk'.failedValid \subseteq failedValid \cup (disk.failedValid \ dirty)
         /\ disk'.failedChild \subseteq failedChild' \cup (disk.failedChild \ dirty)
<1>1. /\ tip' = tip /\ failedValid' = failedValid /\ failedChild \subseteq failedChild' /\ dirty' = {}
      /\ \E D : dirty \subseteq D /\ disk' = WriteIndex(failedValid, failedChild', D)
  <2>1. CASE DisconnectTip
    BY <2>1, Zenon DEF DisconnectTip, BeginDisconnect, flags
  <2>2. CASE InvalidateTip
    <3>1. dirty \subseteq dirty \cup {tip} /\ failedChild \subseteq failedChild \cup {tip}
      BY Zenon
    <3> QED
      BY <2>2, <3>1, Zenon DEF InvalidateTip, BeginDisconnect
  <2>3. CASE ReplayTip \/ BeginFlush
    BY <2>3, Zenon DEF ReplayTip, BeginFlush, flags
  <2>4. CASE ConnectTipFlushing
    <3>1. dirty \subseteq dirty \cup {NextBlock}
      BY Zenon
    <3> QED
      BY <2>4, <3>1, Zenon DEF ConnectTipFlushing, flags
  <2> QED
    BY <2>1, <2>2, <2>3, <2>4, Zenon
<1>2. PICK D : dirty \subseteq D /\ disk' = WriteIndex(failedValid, failedChild', D)
  BY <1>1, Zenon
<1>3. /\ disk'.tip = disk.tip
      /\ disk'.failedValid = (disk.failedValid \ D) \cup (failedValid \cap D)
      /\ disk'.failedChild = (disk.failedChild \ D) \cup (failedChild' \cap D)
  BY <1>2, Zenon DEF WriteIndex, ChainInv, DiskOK
<1>4. /\ disk'.failedValid \subseteq failedValid \cup (disk.failedValid \ dirty)
      /\ disk'.failedChild \subseteq failedChild' \cup (disk.failedChild \ dirty)
  BY <1>2, <1>3, Zenon
<1> QED
  BY <1>1, <1>3, <1>4, Zenon

\* A step either leaves the database alone or leaves nothing dirty.
LEMMA DiskChainKept ==
  ASSUME ChainInv, DiskChainOK, Next
  PROVE  DiskChainOK' /\ (disk' = disk \/ dirty' = {})
<1>0. tip \in Blocks /\ tip \in Anc[tip] /\ disk.tip \in Blocks
  BY AncBounds, Zenon DEF ChainInv, MarksOK, IndexOK, DiskOK
<1>1. CASE \E b \in Blocks : \/ RefuseBlock(b) \/ AcceptDuplicate(b) \/ FailContextualCheck(b)
                             \/ FailStakeCheck(b) \/ AcceptBlock(b)
                             \/ CheckNewBlock(b) \/ EndRefusing(b)
  <2>1. disk' = disk /\ tip' = tip /\ failedChild' = failedChild /\ dirty \subseteq dirty'
        /\ failedValid \subseteq failedValid'
    BY <1>1, BlockFrame, Zenon
  <2> QED
    BY <2>1, Zenon DEF DiskChainOK, Active
<1>2. CASE (\E b \in Blocks : BeginRefusing(b)) \/ (\E c \in calls : EndActivate(c))
  <2>1. UNCHANGED <<disk, tip, failedValid, failedChild, dirty>>
    BY <1>2, Zenon DEF BeginRefusing, EndActivate, flags
  <2> QED
    BY <2>1, Zenon DEF DiskChainOK, Active
<1>3. CASE \/ \E b \in Blocks : Reconsider(b) \/ ReconsiderCheckpoint(b)
           \/ \E R \in replays : \E b \in R : ReplayReconsider(R, b)
  <2>1. disk' = disk /\ tip' = tip /\ \E b : ReconsiderBlock(b)
    BY <1>3, Zenon DEF Reconsider, ReconsiderCheckpoint, ReplayReconsider
  <2>2. /\ failedValid \subseteq failedValid' \cup dirty' /\ failedChild \subseteq failedChild' \cup dirty'
        /\ dirty \subseteq dirty'
    BY <2>1, Zenon DEF ReconsiderBlock, Failed
  <2> QED
    BY <2>1, <2>2, Zenon DEF DiskChainOK, Active
<1>4. CASE \E c \in calls : NothingToActivate(c) \/ BeginStep(c)
  <2>1. UNCHANGED <<disk, tip, failedValid, dirty>> /\ failedChild \subseteq failedChild'
    BY <1>4, Zenon DEF NothingToActivate, BeginStep, FindMostWorkChain
  <2> QED
    BY <2>1, Zenon DEF DiskChainOK, Active
<1>5. CASE DisconnectTip \/ InvalidateTip \/ ReplayTip \/ ConnectTipFlushing \/ BeginFlush
  BY <1>5, IndexWritten, Zenon DEF DiskChainOK, Active
<1>6. CASE FinishDisconnect \/ FinishConnect \/ FinishFlush
  <2>1. dirty = {} /\ UNCHANGED <<dirty, failedValid, failedChild>>
    <3>1. UNCHANGED <<dirty, failedValid, failedChild>>
      BY <1>6, Zenon DEF FinishDisconnect, FinishConnect, FinishFlush, flags
    <3>2. op.pend # NoBlock \/ op.at = "flush"
      BY <1>0, <1>6, TreeAssumption, Zenon DEF FinishDisconnect, FinishConnect, FinishFlush
    <3> QED
      BY <3>1, <3>2, Zenon DEF ChainInv, SectionOK
  <2>2. disk' = [disk EXCEPT !.tip = tip'] /\ tip' \in Blocks
    <3>1. CASE FinishDisconnect
      <4>1. tip # Genesis
        BY <1>0, <3>1, TreeAssumption, Zenon DEF FinishDisconnect, ChainInv, SectionOK
      <4> QED
        BY <1>0, <3>1, <4>1, NotBelowParent, Zenon DEF FinishDisconnect
    <3>2. CASE FinishConnect
      BY <3>2, Zenon DEF FinishConnect, Connected, ChainInv, SectionOK, IndexOK
    <3>3. CASE FinishFlush
      BY <1>0, <3>3, Zenon DEF FinishFlush
    <3> QED
      BY <1>6, <3>1, <3>2, <3>3, Zenon
  <2>3. disk'.tip = tip' /\ disk'.failedValid = disk.failedValid /\ disk'.failedChild = disk.failedChild
    BY <2>2, Zenon DEF ChainInv, DiskOK
  <2>4. tip' \in Anc[tip']
    BY <2>2, AncBounds, Zenon
  <2> QED
    BY <2>1, <2>3, <2>4, Zenon DEF DiskChainOK, Active
<1>7. CASE ConnectTip
  <2>1. UNCHANGED <<disk, failedValid, failedChild>> /\ dirty \subseteq dirty' /\ tip' = NextBlock
    BY <1>7, Zenon DEF ConnectTip, Connected, flags
  <2>2. Anc[tip] \subseteq Anc[NextBlock]
    BY <1>7, NextBlockOnBranch, Zenon DEF ConnectTip, Active
  <2> QED
    BY <2>1, <2>2, Zenon DEF DiskChainOK, Active
<1>8. CASE InvalidBlockFound \/ (\E b \in Blocks : Invalidate(b)) \/ FinishInvalidate
           \/ BeginReplay \/ FinishReplay
  <2>1. /\ disk' = disk /\ tip' = tip /\ failedChild' = failedChild
        /\ failedValid \subseteq failedValid' /\ dirty \subseteq dirty'
    BY <1>8, Zenon DEF InvalidBlockFound, Invalidate, FinishInvalidate, BeginReplay, FinishReplay, flags
  <2> QED
    BY <2>1, Zenon DEF DiskChainOK, Active
<1>9. CASE Restart
  <2>1. /\ disk' = disk /\ tip' = disk.tip /\ failedValid' = disk.failedValid
        /\ failedChild' = disk.failedChild
    BY <1>9, Zenon DEF Restart
  <2>2. disk.tip \in Anc[disk.tip]
    BY <1>0, AncBounds, Zenon
  <2> QED
    BY <2>1, <2>2, Zenon DEF DiskChainOK, Active
<1> QED
  BY <1>1, <1>2, <1>3, <1>4, <1>5, <1>6, <1>7, <1>8, <1>9, Zenon DEF Next, Progress, Environment

\* InvalidateBlock gets cs_main by the RPC only.
LEMMA InvalidateBegins ==
  ASSUME ChainInv, Next, op.at # "invalidate", \A b \in Blocks : ~Invalidate(b)
  PROVE  op'.at # "invalidate"
<1>0. op \in Sections
  BY Zenon DEF ChainInv, SectionOK
<1>1. CASE op' = op
  BY <1>1, Zenon
<1>2. CASE op' = Free
  BY <1>2, FreeTypes, Zenon
<1>3. ASSUME NEW c \in calls, BeginStep(c) PROVE op'.at # "invalidate"
  BY <1>3, Zenon DEF BeginStep, Section
<1>4. CASE BeginReplay \/ BeginFlush
  BY <1>4, FreeTypes, OtherSections, Zenon DEF BeginReplay, BeginFlush
<1>5. CASE DisconnectTip \/ FinishDisconnect \/ ConnectTip \/ ConnectTipFlushing \/ FinishConnect
           \/ ReplayTip
  <2>1. op' = Free \/ (\E p : op' = [op EXCEPT !.pend = p]) \/ (\E p, n : op' = [op EXCEPT !.pend = p, !.left = n])
    BY <1>5, Zenon DEF DisconnectTip, BeginDisconnect, FinishDisconnect, ConnectTip, ConnectTipFlushing,
       FinishConnect, Connected, EndStep, ReplayTip
  <2>2. ASSUME NEW p, op' = [op EXCEPT !.pend = p] PROVE op'.at = op.at
    BY <1>0, <2>2, Zenon DEF Sections
  <2>3. ASSUME NEW p, NEW n, op' = [op EXCEPT !.pend = p, !.left = n] PROVE op'.at = op.at
    BY <1>0, <2>3, Zenon DEF Sections
  <2> QED
    BY <1>2, <2>1, <2>2, <2>3, Zenon
<1>6. CASE InvalidateTip
  BY <1>6, Zenon DEF InvalidateTip
<1> QED
  BY <1>1, <1>2, <1>3, <1>4, <1>5, <1>6, Zenon DEF Next, Progress, Environment, RefuseBlock, AcceptDuplicate,
     FailContextualCheck, FailStakeCheck, AcceptBlock, ReconsiderCheckpoint, NothingToActivate,
     EndActivate, InvalidBlockFound, EndStep, FinishInvalidate, ReplayReconsider, FinishReplay,
     FinishFlush, CheckNewBlock, Reconsider, BeginRefusing, EndRefusing, Restart

\* Every step keeps the invariant.
LEMMA ActiveInvNext == ChainInv /\ ActiveInv /\ ChainInv' /\ [Next]_vars => ActiveInv'
<1> SUFFICES ASSUME ChainInv, ActiveInv, ChainInv', [Next]_vars PROVE ActiveInv'
  BY Zenon
<1>1. CASE UNCHANGED vars
  BY <1>1, Zenon DEF vars, flags, ActiveInv, ActiveOK, DiskChainOK, DiskClean, Uninterrupted, Active, Failed
<1>2. CASE Next
  <2>1. /\ used' \in Counters /\ (used'.crash = 0 => used.crash = 0 /\ ~Restart)
        /\ used'.invalidate = 0 => used.invalidate = 0 /\ \A b \in Blocks : ~Invalidate(b)
    BY CountersCount, Zenon DEF ActiveInv
  <2>2. DiskChainOK' /\ (disk' = disk \/ dirty' = {})
    BY <1>2, DiskChainKept, Zenon DEF ActiveInv
  <2>3. ASSUME ~Restart, Uninterrupted' PROVE ActiveOK'
    BY <2>1, <2>3, ActiveOKNext, Zenon DEF ActiveInv, Uninterrupted
  <2>4. ASSUME Restart, used'.invalidate = 0 PROVE ActiveOK'
    <3>1. Active' \cap Failed' = {}
      BY <2>1, <2>4, Zenon DEF ActiveInv, DiskClean, Restart, Active, Failed
    <3>2. op'.at = "free"
      BY <2>4, FreeTypes, Zenon DEF Restart
    <3> QED
      BY <3>1, <3>2, Zenon DEF ActiveOK
  <2>5. Uninterrupted' => ActiveOK'
    BY <2>1, <2>3, <2>4, Zenon DEF Uninterrupted
  <2>6. ASSUME used'.invalidate = 0 PROVE op'.at # "invalidate" /\ DiskClean'
    <3>1. op'.at # "invalidate"
      BY <1>2, <2>1, <2>6, InvalidateBegins, Zenon DEF ActiveInv
    <3>2. ActiveOK'
      BY <2>5, <2>6, Zenon DEF Uninterrupted
    <3>3. Active' \cap Failed' = {}
      BY <3>1, <3>2, Zenon DEF ActiveOK
    <3>4. Anc[disk'.tip] \subseteq Active'
      <4>1. tip' \in Blocks
        BY Zenon DEF ChainInv, MarksOK, IndexOK
      <4> QED
        BY <2>2, <4>1, AncTransitive, Zenon DEF DiskChainOK, Active
    <3>5. CASE dirty' = {}
      <4>1. disk'.failedValid \cup disk'.failedChild \subseteq Failed'
        BY <2>2, <3>5, Zenon DEF DiskChainOK, Failed
      <4> QED
        BY <3>1, <3>3, <3>4, <4>1, Zenon DEF DiskClean
    <3>6. CASE disk' = disk
      BY <2>1, <2>6, <3>1, <3>6, Zenon DEF ActiveInv, DiskClean
    <3> QED
      BY <2>2, <3>5, <3>6, Zenon
  <2> QED
    BY <2>1, <2>2, <2>5, <2>6, Zenon DEF ActiveInv
<1> QED
  BY <1>1, <1>2, Zenon

\* Unless InvalidateBlock is interrupted by a crash, no block of the active
\* chain is marked failed once cs_main is free: neither FindMostWorkChain's
\* marks nor InvalidateBlock's can be on the chain that ActivateBestChain
\* leaves behind, nor on the one that a restart finds on disk.
THEOREM ActiveChainNeverFails == Spec => []ActiveChainHasNotFailed
  BY ChainInvHolds, ActiveInvInit, ActiveInvNext, ActiveInvSuffices, PTL DEF Spec
-----------------------------------------------------------------------------
(* Where marks come from.                                                  *)

HasInvalidAncestor(x, V) == Anc[x] \cap V # {}

\* While nothing is reconsidered: every mark, in memory and on disk, has a
\* block with BLOCK_FAILED_VALID at or below it, and the disk's are those of
\* memory but for the dirty entries.
MarkOK ==
    /\ \A x \in Failed : HasInvalidAncestor(x, failedValid)
    /\ disk.failedValid \subseteq failedValid /\ failedValid \subseteq disk.failedValid \cup dirty
    /\ \A x \in disk.failedChild : HasInvalidAncestor(x, disk.failedValid)
    /\ op.at = "invalidate" => op.target \in failedValid
    /\ replays = {}

MarkInv == used \in Counters /\ (Undisturbed => MarkOK)

\* The invariant gives the property.
LEMMA MarkInvSuffices == MarkInv => FailedHasInvalidAncestor
  BY Zenon DEF MarkInv, MarkOK, FailedHasInvalidAncestor, HasInvalidAncestor

\* It holds at the start.
LEMMA MarkInvInit == Init => MarkInv
<1> SUFFICES ASSUME Init
             PROVE  MarkInv
  BY Zenon
<1>1. used \in Counters
  BY Zenon DEF Init, Counters
<1>2. op.at = "free"
  BY FreeTypes, Zenon DEF Init
<1>3. Failed = {} /\ failedValid = {} /\ replays = {}
  BY Zenon DEF Init, Failed
<1>4. disk.failedValid = {} /\ disk.failedChild = {}
  BY Zenon DEF Init
<1> QED
  BY <1>1, <1>2, <1>3, <1>4, Zenon DEF MarkInv, MarkOK

\* A step that does not write the index: marks are added on blocks that get
\* dirty, or above marked ones.
LEMMA NewMarks ==
  ASSUME ChainInv, MarkOK,
         disk'.failedValid = disk.failedValid, disk'.failedChild = disk.failedChild,
         failedValid \subseteq failedValid', failedValid' \subseteq failedValid \cup dirty',
         failedValid' \subseteq Blocks, dirty \subseteq dirty', replays' = {},
         \A x \in failedChild' \ failedChild : HasInvalidAncestor(x, failedValid'),
         op'.at = "invalidate" => op'.target \in failedValid'
  PROVE  MarkOK'
<1>1. \A x \in Failed' : HasInvalidAncestor(x, failedValid')
  BY AncBounds, Zenon DEF MarkOK, Failed, HasInvalidAncestor
<1> QED
  BY <1>1, Zenon DEF MarkOK, HasInvalidAncestor

\* A step that does write it.
LEMMA WrittenMarks ==
  ASSUME ChainInv, MarkOK, NEW D, dirty \subseteq D,
         disk' = WriteIndex(failedValid, failedChild', D), failedValid' = failedValid,
         \A x \in failedChild' : HasInvalidAncestor(x, failedValid), replays' = {},
         op'.at = "invalidate" => op'.target \in failedValid
  PROVE  MarkOK'
<1>1. /\ disk'.failedValid = (disk.failedValid \ D) \cup (failedValid \cap D)
      /\ disk'.failedChild = (disk.failedChild \ D) \cup (failedChild' \cap D)
  BY Zenon DEF WriteIndex, ChainInv, DiskOK
<1>2. disk'.failedValid = failedValid
  BY <1>1, Zenon DEF MarkOK
<1>3. \A x \in disk.failedChild : HasInvalidAncestor(x, failedValid)
  BY Zenon DEF MarkOK, HasInvalidAncestor
<1>4. \A x \in Failed' : HasInvalidAncestor(x, failedValid)
  BY Zenon DEF Failed, MarkOK
<1>5. \A x \in disk'.failedChild : HasInvalidAncestor(x, failedValid)
  BY <1>1, <1>3, Zenon
<1> QED
  BY <1>2, <1>4, <1>5, Zenon DEF MarkOK, HasInvalidAncestor

\* Every step but those that reconsider keeps the invariant.
LEMMA MarksKept ==
  ASSUME ChainInv, ChainInv', MarkOK, Next,
         \A b \in Blocks : ~Reconsider(b) /\ ~ReconsiderCheckpoint(b) /\ ~BeginRefusing(b)
  PROVE  MarkOK'
<1>0. op \in Sections /\ disk' \in [known : SUBSET Blocks, data : SUBSET Blocks,
         failedValid : SUBSET Blocks, failedChild : SUBSET Blocks, tip : Blocks]
      /\ failedValid' \subseteq Blocks /\ tip \in Blocks /\ replays = {}
  BY Zenon DEF ChainInv, SectionOK, DiskOK, MarksOK, IndexOK, MarkOK
<1>1. CASE \E b \in Blocks : \/ RefuseBlock(b) \/ AcceptDuplicate(b) \/ FailContextualCheck(b)
                             \/ FailStakeCheck(b) \/ AcceptBlock(b)
                             \/ CheckNewBlock(b) \/ EndRefusing(b)
  <2>1. /\ disk' = disk /\ op' = op /\ failedChild' = failedChild /\ dirty \subseteq dirty'
        /\ failedValid \subseteq failedValid' /\ failedValid' \subseteq failedValid \cup dirty'
        /\ replays' = replays
    BY <1>1, BlockFrame, Zenon
  <2> QED
    BY <1>0, <2>1, NewMarks, Zenon DEF MarkOK
<1>2. CASE \E c \in calls : NothingToActivate(c) \/ BeginStep(c) \/ EndActivate(c)
  <2>1. /\ disk' = disk /\ dirty' = dirty /\ failedValid' = failedValid /\ replays' = replays
        /\ op'.at = "invalidate" => op' = op
    <3>1. ASSUME NEW c \in calls, NothingToActivate(c) \/ EndActivate(c)
          PROVE  UNCHANGED <<disk, dirty, failedValid, replays, op>>
      BY <3>1, Zenon DEF NothingToActivate, EndActivate, flags, swift
    <3>2. ASSUME NEW c \in calls, BeginStep(c)
          PROVE  UNCHANGED <<disk, dirty, failedValid, replays>> /\ op'.at = "step"
      BY <3>2, Zenon DEF BeginStep, swift, Section
    <3> QED
      BY <1>2, <3>1, <3>2, Zenon
  <2>2. ASSUME NEW x \in failedChild' \ failedChild PROVE HasInvalidAncestor(x, failedValid)
    <3>1. FindMostWorkChain
      BY <1>2, <2>2, Zenon DEF NothingToActivate, BeginStep, EndActivate, flags
    <3>2. PICK c \in Dropped : x \in AboveFailed(c)
      BY <3>1, <2>2, Zenon DEF FindMostWorkChain
    <3>3. c \in Blocks
      BY Zenon DEF Dropped, ChainInv, MarksOK, IndexOK
    <3>4. PICK y \in Branch(c) \cap Failed : TRUE
      BY Zenon DEF Dropped, Usable
    <3>5. x \in Anc[c] /\ y \in Anc[c] /\ x \notin Anc[y] /\ y \in Failed
      BY <3>2, <3>4, Zenon DEF AboveFailed, Branch
    <3>6. y \in Anc[x] /\ x \in Blocks
      BY <3>3, <3>5, AncIsALine, AncTransitive
    <3>7. Anc[y] \subseteq Anc[x]
      BY <3>6, AncTransitive, Zenon
    <3> QED
      BY <3>5, <3>7, Zenon DEF MarkOK, HasInvalidAncestor
  <2> QED
    BY <1>0, <2>1, <2>2, NewMarks, Zenon DEF MarkOK
<1>3. CASE \E R \in replays : \E b \in R : ReplayReconsider(R, b)
  BY <1>0, <1>3, Zenon
<1>4. CASE DisconnectTip \/ ReplayTip \/ BeginFlush \/ ConnectTipFlushing
  <2>1. /\ failedValid' = failedValid /\ failedChild' = failedChild /\ replays' = replays
        /\ op'.at = "invalidate" => op.at = "invalidate" /\ op'.target = op.target
    <3>1. failedValid' = failedValid /\ failedChild' = failedChild /\ replays' = replays
      BY <1>4, Zenon DEF DisconnectTip, ReplayTip, BeginFlush, ConnectTipFlushing, flags, swift
    <3>2. DisconnectTip => op'.at # "invalidate"
      BY <1>0, Zenon DEF DisconnectTip, BeginDisconnect, Sections
    <3>3. ReplayTip => op'.at # "invalidate"
      BY <1>0, Zenon DEF ReplayTip, Sections
    <3>4. ConnectTipFlushing => op'.at # "invalidate"
      BY <1>0, Zenon DEF ConnectTipFlushing, Connecting, Sections
    <3>5. BeginFlush => op'.at # "invalidate"
      BY FreeTypes, OtherSections, Zenon DEF BeginFlush
    <3> QED
      BY <1>4, <3>1, <3>2, <3>3, <3>4, <3>5
  <2>2. \E D : dirty \subseteq D /\ disk' = WriteIndex(failedValid, failedChild', D)
    BY <1>4, <2>1, Zenon DEF DisconnectTip, BeginDisconnect, ReplayTip, BeginFlush, ConnectTipFlushing
  <2>3. \A x \in failedChild' : HasInvalidAncestor(x, failedValid)
    BY <2>1, Zenon DEF MarkOK, Failed
  <2> QED
    BY <1>0, <2>1, <2>2, <2>3, WrittenMarks DEF MarkOK
<1>5. CASE InvalidateTip
  <2>1. /\ failedValid' = failedValid /\ failedChild' = failedChild \cup {tip} /\ replays' = replays
        /\ op.at = "invalidate" /\ op'.target = op.target /\ op.target \in Anc[tip]
        /\ disk' = WriteIndex(failedValid, failedChild', dirty \cup {tip})
    BY <1>0, <1>5, Zenon DEF InvalidateTip, BeginDisconnect, Sections, Active, swift
  <2>2. \A x \in failedChild' : HasInvalidAncestor(x, failedValid)
    BY <2>1, Zenon DEF MarkOK, Failed, HasInvalidAncestor
  <2>3. dirty \subseteq dirty \cup {tip} /\ op.target \in failedValid /\ replays' = {}
    BY <1>0, <2>1, Zenon DEF MarkOK
  <2> QED
    BY <2>1, <2>2, <2>3, WrittenMarks
<1>6. CASE FinishDisconnect \/ ConnectTip \/ FinishConnect \/ FinishInvalidate
           \/ BeginReplay \/ FinishReplay \/ FinishFlush
  <2>1. /\ failedValid' = failedValid /\ failedChild' = failedChild /\ dirty \subseteq dirty'
        /\ replays' \subseteq replays
    BY <1>6, Zenon DEF FinishDisconnect, ConnectTip, FinishConnect, FinishInvalidate, BeginReplay,
       FinishReplay, FinishFlush, flags, swift
  <2>2. disk'.failedValid = disk.failedValid /\ disk'.failedChild = disk.failedChild
    BY <1>6, Zenon DEF FinishDisconnect, ConnectTip, FinishConnect, FinishInvalidate, BeginReplay,
       FinishReplay, FinishFlush, ChainInv, DiskOK
  <2>3. op'.at = "invalidate" => op.at = "invalidate" /\ op'.target = op.target
    BY <1>0, <1>6, FreeTypes DEF FinishDisconnect, ConnectTip, FinishConnect, Connected, EndStep,
       FinishInvalidate, BeginReplay, FinishReplay, FinishFlush, Section, Sections
  <2> QED
    BY <1>0, <2>1, <2>2, <2>3, NewMarks DEF MarkOK
<1>7. CASE InvalidBlockFound \/ \E b \in Blocks : Invalidate(b)
  <2>1. /\ failedChild' = failedChild /\ dirty \subseteq dirty' /\ replays' = replays /\ disk' = disk
        /\ failedValid \subseteq failedValid' /\ failedValid' \subseteq failedValid \cup dirty'
        /\ op'.at = "invalidate" => op'.target \in failedValid'
    BY <1>7, FreeTypes DEF InvalidBlockFound, EndStep, Invalidate, Section, swift
  <2> QED
    BY <1>0, <2>1, NewMarks
<1>8. CASE Restart
  <2>1. /\ failedValid' = disk.failedValid /\ failedChild' = disk.failedChild /\ disk' = disk
        /\ op' = Free /\ replays' = {}
    BY <1>8, Zenon DEF Restart
  <2>2. \A x \in disk.failedValid : x \in Anc[x]
    BY AncBounds, Zenon DEF ChainInv, DiskOK
  <2>3. \A x \in Failed' : HasInvalidAncestor(x, disk.failedValid)
    BY <2>1, <2>2, Zenon DEF MarkOK, Failed, HasInvalidAncestor
  <2> QED
    BY <2>1, <2>3, FreeTypes, Zenon DEF MarkOK, HasInvalidAncestor
<1> QED
  BY <1>1, <1>2, <1>3, <1>4, <1>5, <1>6, <1>7, <1>8 DEF Next, Progress, Environment

\* Every step keeps the invariant, where no checkpoint makes AcceptBlock
\* reconsider a block.
LEMMA MarkInvNext ==
  ASSUME Checkpoints = {}
  PROVE  ChainInv /\ ChainInv' /\ MarkInv /\ [Next]_vars => MarkInv'
<1> SUFFICES ASSUME ChainInv, ChainInv', MarkInv, [Next]_vars PROVE MarkInv'
  BY Zenon
<1>1. /\ used' \in Counters
      /\ Undisturbed' => Undisturbed /\ \A b \in Blocks : ~Reconsider(b) /\ ~BeginRefusing(b)
  BY CountersCount, Zenon DEF MarkInv, Undisturbed
<1>2. \A b \in Blocks : ~ReconsiderCheckpoint(b)
  BY Zenon DEF ReconsiderCheckpoint
<1>3. CASE UNCHANGED vars
  BY <1>3, Zenon DEF vars, flags, swift, MarkInv, MarkOK, HasInvalidAncestor, Failed, Undisturbed
<1>4. CASE Next
  BY <1>1, <1>2, <1>4, MarksKept DEF MarkInv
<1> QED
  BY <1>3, <1>4, Zenon

\* As long as no block is reconsidered, every block that is marked failed has
\* an invalid block at or below it, and so has every mark that a restart reads
\* back from disk, wherever the process died (CheckBlockIndex).
THEOREM MarksHaveACause ==
  ASSUME Checkpoints = {}
  PROVE  Spec => []FailedHasInvalidAncestor
<1>1. ChainInv /\ ChainInv' /\ MarkInv /\ [Next]_vars => MarkInv'
  BY MarkInvNext, Zenon
<1> QED
  BY <1>1, ChainInvHolds, MarkInvInit, MarkInvSuffices, PTL DEF Spec
-----------------------------------------------------------------------------
(* What PruneBlockIndexCandidates leaves.                                  *)

\* The order of the candidates, by what is not worse.
LEMMA Comparing ==
  ASSUME NEW s \in [Blocks -> Int]
  PROVE  /\ \A a \in Blocks : ~WorseBySequence(s, a, a)
         /\ \A a, b \in Blocks : ~WorseBySequence(s, a, b) <=> a = b \/ WorseBySequence(s, b, a)
         /\ \A a, b, c \in Blocks :
               ~WorseBySequence(s, a, b) /\ ~WorseBySequence(s, b, c) => ~WorseBySequence(s, a, c)
         /\ \A b \in Blocks : \A x \in Anc[b] : ~WorseBySequence(s, b, x)
<1>1. \A a \in Blocks : ChainWork[a] \in Int /\ Address[a] \in Int /\ s[a] \in Int
  BY TreeAssumption
<1>2. \A a \in Blocks : ~WorseBySequence(s, a, a)
  BY <1>1 DEF WorseBySequence
<1>3. \A a, b \in Blocks : ~WorseBySequence(s, a, b) <=> a = b \/ WorseBySequence(s, b, a)
  BY <1>2, WorseIsAnOrder, Zenon
<1>4. \A a, b, c \in Blocks :
         ~WorseBySequence(s, a, b) /\ ~WorseBySequence(s, b, c) => ~WorseBySequence(s, a, c)
  BY <1>3, WorseIsAnOrder, Zenon
<1>5. ASSUME NEW b \in Blocks, NEW x \in Anc[b] PROVE ~WorseBySequence(s, b, x)
  <2>1. CASE x = b
    BY <1>2, <2>1, Zenon
  <2>2. CASE x # b
    <3>1. x \in Blocks
      BY AncTransitive, Zenon
    <3>2. ChainWork[x] < ChainWork[b]
      BY <2>2, AncWork, Zenon
    <3> QED
      BY <1>1, <3>1, <3>2 DEF WorseBySequence
  <2> QED
    BY <2>1, <2>2, Zenon
<1> QED
  BY <1>2, <1>3, <1>4, <1>5, Zenon

\* The same for the sequence numbers of now.
LEMMA ComparingNow ==
  ASSUME IndexOK
  PROVE  /\ \A a \in Blocks : ~Worse(a, a)
         /\ \A a, b \in Blocks : ~Worse(a, b) <=> a = b \/ Worse(b, a)
         /\ \A a, b, c \in Blocks : ~Worse(a, b) /\ ~Worse(b, c) => ~Worse(a, c)
         /\ \A b \in Blocks : \A x \in Anc[b] : ~Worse(b, x)
<1>1. seq \in [Blocks -> Int]
  BY SequenceTypes, Zenon DEF IndexOK
<1> QED
  BY <1>1, Comparing, Zenon DEF Worse

\* What ActivateBestChain works towards stays a candidate.
TargetOK ==
    op.at = "step" => op.target \in candidates /\ op.pend \in Anc[op.target] \cup {tip, NoBlock}

\* Only these steps end inside of ActivateBestChainStep.
LEMMA StepsInside ==
  ASSUME ChainInv, Next, op'.at = "step"
  PROVE  \/ op.at = "step" /\ UNCHANGED <<index, flags, candidates, tip, op>>
         \/ \E c \in calls : BeginStep(c)
         \/ DisconnectTip \/ ConnectTipFlushing
         \/ op.at = "step" /\ (FinishDisconnect \/ ConnectTip \/ FinishConnect)
<1>0. op \in Sections /\ Free.at # "step"
  BY FreeTypes, Zenon DEF ChainInv, SectionOK
<1>1. CASE \E b \in Blocks : \/ RefuseBlock(b) \/ AcceptDuplicate(b) \/ FailContextualCheck(b)
                             \/ FailStakeCheck(b) \/ AcceptBlock(b) \/ Reconsider(b)
                             \/ ReconsiderCheckpoint(b)
  BY <1>0, <1>1, Zenon DEF RefuseBlock, AcceptDuplicate, FailContextualCheck, FailStakeCheck, AcceptBlock,
     Reconsider, ReconsiderCheckpoint, Accepting
<1>2. CASE (\E b \in Blocks : CheckNewBlock(b) \/ BeginRefusing(b) \/ EndRefusing(b))
           \/ (\E c \in calls : EndActivate(c))
  BY <1>2, Zenon DEF CheckNewBlock, BeginRefusing, EndRefusing, EndActivate
<1>3. CASE (\E c \in calls : NothingToActivate(c)) \/ (\E R \in replays : \E b \in R : ReplayReconsider(R, b))
           \/ InvalidBlockFound \/ FinishInvalidate \/ FinishReplay \/ FinishFlush \/ Restart
  BY <1>0, <1>3, Zenon DEF NothingToActivate, ReplayReconsider, InvalidBlockFound, EndStep, FinishInvalidate,
     FinishReplay, FinishFlush, Restart
<1>4. CASE BeginReplay \/ BeginFlush \/ \E b \in Blocks : Invalidate(b)
  BY <1>0, <1>4 DEF BeginReplay, BeginFlush, Invalidate, Section
<1>5. CASE InvalidateTip \/ ReplayTip
  <2>1. ASSUME InvalidateTip PROVE op'.at # "step"
    BY <1>0, <2>1, Zenon DEF InvalidateTip, BeginDisconnect, Sections
  <2>2. ASSUME ReplayTip PROVE op'.at # "step"
    BY <1>0, <2>2, Zenon DEF ReplayTip, Sections
  <2> QED
    BY <1>5, <2>1, <2>2, Zenon
<1>6. CASE FinishDisconnect \/ ConnectTip \/ FinishConnect
  <2>1. op.at = "step"
    BY <1>0, <1>6, Zenon DEF FinishDisconnect, ConnectTip, FinishConnect, Connecting, Sections
  <2> QED
    BY <1>6, <2>1, Zenon
<1> QED
  BY <1>1, <1>2, <1>3, <1>4, <1>5, <1>6, Zenon DEF Next, Progress, Environment

\* FindMostWorkChain's result is the best of the candidates with a usable branch.
LEMMA MostWorkIsBest ==
  ASSUME IndexOK, candidates \subseteq Blocks, NEW y \in candidates, Usable(y)
  PROVE  MostWork \in candidates /\ (y = MostWork \/ Worse(y, MostWork))
<1> DEFINE good == {c \in candidates : Usable(c)}
           Best(c) == \A d \in good : d = c \/ Worse(d, c)
<1>1. seq \in [Blocks -> Int] /\ good # {} /\ good \in SUBSET Blocks
  BY DEF IndexOK
<1>2. MostWork = CHOOSE c \in good : Best(c)
  BY <1>1, Zenon DEF MostWork
<1>3. y \in good /\ good \subseteq candidates
  BY Zenon
<1>4. \E c \in good : Best(c)
  <2> HIDE DEF good
  <2> QED
    BY <1>1, BestExists, Zenon DEF Worse
<1>5. MostWork \in good /\ Best(MostWork)
  <2> HIDE DEF good, Best
  <2> QED
    BY <1>2, <1>4, Zenon
<1> QED
  BY <1>3, <1>5, Zenon

\* What FindMostWorkChain takes out is at or above a failed block.
LEMMA DroppedIsMarked ==
  ASSUME candidates \subseteq Blocks, NEW c \in Dropped, NEW x \in AboveFailed(c) \cup TopFailed(c)
  PROVE  \E y \in Anc[x] \cap Failed : y \notin Active
<1>1. PICK y \in Branch(c) \cap Failed : TRUE
  BY Zenon DEF Dropped, Usable
<1>2. c \in Blocks /\ x \in Anc[c] /\ y \in Anc[c] /\ y \notin Active
  BY <1>1, Zenon DEF Dropped, AboveFailed, TopFailed, Branch
<1>3. y \in Anc[x]
  BY <1>1, <1>2, AncIsALine, Zenon DEF AboveFailed, TopFailed
<1> QED
  BY <1>1, <1>2, <1>3, Zenon

\* It returns no candidate that it takes out.
LEMMA MostWorkStays ==
  ASSUME ChainInv, FindMostWorkChain, MostWork # NoBlock
  PROVE  MostWork \in candidates'
<1>0. candidates \subseteq Blocks /\ seq \in [Blocks -> Int]
  BY InvTypes, Zenon
<1>1. MostWork \in candidates /\ Usable(MostWork)
  BY <1>0, MostWorkIsUsable, Zenon
<1>2. ASSUME NEW c \in Dropped PROVE MostWork \notin AboveFailed(c) \cup TopFailed(c)
  BY <1>0, <1>1, DroppedIsMarked, Zenon DEF Usable, Branch
<1> QED
  BY <1>1, <1>2, Zenon DEF FindMostWorkChain

\* Connecting a block of the target's branch leaves the target.
LEMMA TargetSurvives ==
  ASSUME ChainInv, op.at = "step", op.target \in candidates, NEW b \in Anc[op.target], Connected(b)
  PROVE  op.target \in candidates'
<1>1. op.target \in Blocks /\ IndexOK
  BY Zenon DEF ChainInv, SectionOK, IndexOK
<1>2. ~Worse(op.target, b)
  BY <1>1, ComparingNow, Zenon
<1> QED
  BY <1>2, Zenon DEF Connected, Prune

\* Every step keeps the target among the candidates.
LEMMA TargetNext == ChainInv /\ TargetOK /\ [Next]_vars => TargetOK'
<1> SUFFICES ASSUME ChainInv, TargetOK, [Next]_vars, op'.at = "step"
             PROVE  op'.target \in candidates' /\ op'.pend \in Anc[op'.target] \cup {tip', NoBlock}
  BY Zenon DEF TargetOK
<1>0. op \in Sections
  BY Zenon DEF ChainInv, SectionOK
<1>1. CASE op.at = "step" /\ UNCHANGED <<candidates, tip, op>>
  BY <1>1, Zenon DEF TargetOK
<1>2. ASSUME NEW c \in calls, BeginStep(c)
      PROVE  op'.target \in candidates' /\ op'.pend = NoBlock
  <2>1. MostWork \in candidates'
    BY <1>2, MostWorkStays, Zenon DEF BeginStep
  <2>2. op'.target = MostWork /\ op'.pend = NoBlock
    BY <1>2, Zenon DEF BeginStep, Section
  <2> QED
    BY <2>1, <2>2, Zenon
<1>3. CASE DisconnectTip
  <2>1. op.at = "step" /\ op'.target = op.target /\ op'.pend = tip /\ UNCHANGED <<candidates, tip>>
    BY <1>0, <1>3, Zenon DEF DisconnectTip, BeginDisconnect, Sections
  <2> QED
    BY <2>1, Zenon DEF TargetOK
<1>4. CASE ConnectTipFlushing
  <2>1. op.at = "step" /\ op'.target = op.target /\ op'.pend = NextBlock /\ UNCHANGED <<candidates, tip>>
    BY <1>0, <1>4, Zenon DEF ConnectTipFlushing, Connecting, Sections
  <2>2. NextBlock \in Anc[op.target]
    BY <1>4, NextBlockOnBranch, Zenon DEF ConnectTipFlushing
  <2> QED
    BY <2>1, <2>2, Zenon DEF TargetOK
<1>5. CASE op.at = "step" /\ FinishDisconnect
  <2>1. op'.target = op.target /\ op'.pend = NoBlock /\ candidates' = candidates
    BY <1>0, <1>5, Zenon DEF FinishDisconnect, Sections
  <2> QED
    BY <1>5, <2>1, Zenon DEF TargetOK
<1>6. ASSUME op.at = "step", NEW b \in Anc[op.target], Connected(b)
      PROVE  op'.target \in candidates' /\ op'.pend = NoBlock
  <2>1. op'.target = op.target /\ op'.pend = NoBlock
    BY <1>0, <1>6, FreeTypes, Zenon DEF Connected, EndStep, Sections
  <2> QED
    BY <1>6, <2>1, TargetSurvives, Zenon DEF TargetOK
<1>7. CASE op.at = "step" /\ ConnectTip
  BY <1>6, <1>7, NextBlockOnBranch, Zenon DEF ConnectTip
<1>8. CASE op.at = "step" /\ FinishConnect
  <2>1. op.pend \in Anc[op.target]
    BY <1>8, Zenon DEF FinishConnect, TargetOK
  <2> QED
    BY <1>6, <1>8, <2>1, Zenon DEF FinishConnect
<1> QED
  BY <1>1, <1>2, <1>3, <1>4, <1>5, <1>7, <1>8, StepsInside, Zenon DEF vars

\* A connected block and a restart leave a candidate.
LEMMA PruneStep ==
  ASSUME ChainInv, ActiveInv, TargetOK,
         ConnectTip \/ FinishConnect \/ (Restart /\ used.invalidate = 0)
  PROVE  candidates' # {}
<1>1. CASE ConnectTip
  <2>1. op.at = "step" /\ NextBlock \in Anc[op.target] /\ Connected(NextBlock)
    BY <1>1, NextBlockOnBranch, Zenon DEF ConnectTip, Connecting
  <2> QED
    BY <2>1, TargetSurvives, Zenon DEF TargetOK
<1>2. CASE FinishConnect
  <2>1. op.at = "step" /\ op.pend \in Anc[op.target] /\ Connected(op.pend)
    BY <1>2, Zenon DEF FinishConnect, TargetOK
  <2> QED
    BY <2>1, TargetSurvives, Zenon DEF TargetOK
<1>3. CASE Restart /\ used.invalidate = 0
  <2>1. disk.tip \in Blocks /\ Anc[disk.tip] \subseteq disk.data /\ disk.tip \in Anc[disk.tip]
    BY AncBounds, Zenon DEF ChainInv, DiskOK
  <2>2. disk.tip \notin disk.failedValid \cup disk.failedChild
    BY <1>3, <2>1, Zenon DEF ActiveInv, DiskClean
  <2>3. [b \in Blocks |-> 0] \in [Blocks -> Int]
    OBVIOUS
  <2>4. ~WorseBySequence([b \in Blocks |-> 0], disk.tip, disk.tip)
    BY <2>1, <2>3, Comparing, Zenon
  <2>5. disk.tip \in candidates'
    BY <1>3, <2>1, <2>2, <2>4, Zenon DEF Restart, LoadedLinks
  <2> QED
    BY <2>5, Zenon
<1> QED
  BY <1>1, <1>2, <1>3, Zenon

\* The target is set with the section.
LEMMA TargetInit == Init => TargetOK
  BY FreeTypes, Zenon DEF Init, TargetOK

\* PruneBlockIndexCandidates never empties the candidates (its assertion),
\* whatever is invalidated, reconsidered or refused; nor does it at startup as
\* long as nothing was invalidated (the node may have died in the middle).
THEOREM PruningLeavesACandidate == Spec => PruneLeavesACandidate
<1>1. ChainInv /\ ActiveInv /\ TargetOK
      => [ConnectTip \/ FinishConnect \/ (Restart /\ used.invalidate = 0) => candidates' # {}]_vars
  BY PruneStep, Zenon
<1> QED
  BY <1>1, TargetInit, TargetNext, ChainInvHolds, ActiveInvInit, ActiveInvNext, PTL DEF Spec, PruneLeavesACandidate
-----------------------------------------------------------------------------
(* The candidates.                                                         *)

\* No block at or below x was found invalid.
Valid(x) == Anc[x] \cap failedValid = {}

\* The blocks that ConnectBlock accepts with all their ancestors.
Connectable == {b \in Blocks : Anc[b] \cap Bad \subseteq {Genesis}}

\* Every valid block from m upwards is a candidate.
CandidatesFrom(m) == \A y \in linked : Valid(y) /\ ~Worse(y, m) => y \in candidates

\* While blocks are disconnected the tip gets worse than it was, and nobody
\* adds the blocks between the two: what is complete are the candidates from
\* the best tip there has been, m, upwards.
Mark(m) ==
    /\ m \in linked /\ m \in Connectable
    /\ CandidatesFrom(m)
    /\ m = tip \/ (Worse(tip, m) /\ Valid(m))

\* A call is under way that has not settled for less than y.
Sought(y) == \E c \in calls : c.target = NoBlock \/ (c.target \in linked /\ ~Worse(c.target, y))

QuietOK ==
    /\ refused = {} /\ op.at # "replay" /\ tip \in Connectable
    /\ op.at = "step" => op.pend \in {NoBlock, tip} \cup Connectable

CandOK ==
    /\ QuietOK
    /\ op.at # "invalidate" => \E m \in Blocks : Mark(m)
    /\ op.at = "step" => \A y \in linked : Valid(y) => ~Worse(op.target, y)
    /\ op.at \in {"free", "flush"} => \A y \in linked : Valid(y) /\ Worse(tip, y) => Sought(y)

Quiet == Undisturbed /\ Uninterrupted
CandInv == Quiet => CandOK

\* What a call works towards.
LEMMA CallTargets == NewCall.target = NoBlock /\ \A p, t : Call(p, t).target = t
  BY Zenon DEF NewCall, Call

\* What the four parts say of the next state.
LEMMA CandAssembled ==
  ASSUME QuietOK',
         op'.at # "invalidate" =>
            \E m \in Blocks :
              /\ m \in linked' /\ m \in Connectable
              /\ \A y \in linked' :
                    Anc[y] \cap failedValid' = {} /\ ~WorseBySequence(seq', y, m) => y \in candidates'
              /\ m = tip' \/ (WorseBySequence(seq', tip', m) /\ Anc[m] \cap failedValid' = {}),
         op'.at = "step" =>
            \A y \in linked' : Anc[y] \cap failedValid' = {} => ~WorseBySequence(seq', op'.target, y),
         op'.at \in {"free", "flush"} =>
            \A y \in linked' : Anc[y] \cap failedValid' = {} /\ WorseBySequence(seq', tip', y) =>
               \E c \in calls' : c.target = NoBlock
                                 \/ (c.target \in linked' /\ ~WorseBySequence(seq', c.target, y))
  PROVE  CandOK'
  BY Zenon DEF CandOK, Mark, CandidatesFrom, Valid, Worse, Sought

\* A block without an invalid ancestor has none that is marked at all.
LEMMA ValidIsUnmarked ==
  ASSUME MarkOK, NEW y \in Blocks, Valid(y)
  PROVE  Anc[y] \cap Failed = {}
<1> SUFFICES ASSUME NEW z \in Anc[y] \cap Failed PROVE FALSE
  BY Zenon
<1>1. Anc[z] \subseteq Anc[y] /\ Anc[z] \cap failedValid # {}
  BY AncTransitive, Zenon DEF MarkOK, HasInvalidAncestor
<1> QED
  BY <1>1, Zenon DEF Valid

\* The converse, for the active chain.
LEMMA UnmarkedIsValid ==
  ASSUME NEW y \in Blocks, Anc[y] \cap Failed = {}
  PROVE  Valid(y)
  BY Zenon DEF Valid, Failed

\* FindMostWorkChain takes out no block without an invalid ancestor.
LEMMA FindKeepsValid ==
  ASSUME ChainInv, MarkOK, FindMostWorkChain, NEW y \in candidates, Valid(y)
  PROVE  y \in candidates'
<1>0. candidates \subseteq Blocks
  BY InvTypes, Zenon
<1>1. Anc[y] \cap Failed = {}
  BY <1>0, ValidIsUnmarked, Zenon
<1>2. ASSUME NEW c \in Dropped PROVE y \notin AboveFailed(c) \cup TopFailed(c)
  BY <1>0, <1>1, DroppedIsMarked, Zenon
<1> QED
  BY <1>2, Zenon DEF FindMostWorkChain

\* Where nothing of the active chain has failed, FindMostWorkChain finds a
\* block that is as good as every block without an invalid ancestor.
LEMMA FoundIsBest ==
  ASSUME ChainInv, MarkOK, Active \cap Failed = {}, NEW m \in Blocks, Mark(m)
  PROVE  MostWork \in candidates /\ \A y \in linked : Valid(y) => ~Worse(MostWork, y)
<1>0. IndexOK /\ candidates \subseteq Blocks /\ linked \subseteq Blocks /\ tip \in Blocks
  BY InvTypes, Zenon
<1>1. Valid(m)
  BY <1>0, UnmarkedIsValid, Zenon DEF Mark, Active
<1>2. ASSUME NEW y \in linked, Valid(y), ~Worse(y, m)
      PROVE  MostWork \in candidates /\ ~Worse(MostWork, y)
  <2>1. y \in candidates
    BY <1>2, Zenon DEF Mark, CandidatesFrom
  <2>2. Usable(y)
    BY <1>0, <1>2, ValidIsUnmarked, Zenon DEF Usable, Branch
  <2>3. MostWork \in candidates /\ (y = MostWork \/ Worse(y, MostWork))
    BY <1>0, <2>1, <2>2, MostWorkIsBest, Zenon
  <2> QED
    BY <1>0, <2>1, <2>3, ComparingNow, Zenon
<1>3. MostWork \in candidates /\ ~Worse(MostWork, m)
  BY <1>0, <1>1, <1>2, ComparingNow, Zenon DEF Mark
<1>4. ASSUME NEW y \in linked, Valid(y), Worse(y, m) PROVE ~Worse(MostWork, y)
  BY <1>0, <1>3, <1>4, ComparingNow, Zenon
<1> QED
  BY <1>2, <1>3, <1>4, Zenon

\* The steps that move neither the tip nor the candidates.
LEMMA CandFrame ==
  ASSUME ChainInv, CandOK, UNCHANGED <<linked, seq, candidates, tip>>, refused' \subseteq refused,
         failedValid' = failedValid \/ (\E b : failedValid' = failedValid \cup {b} /\ b \notin data),
         calls \subseteq calls', op' = op \/ {op.at, op'.at} \subseteq {"free", "flush"}
  PROVE  CandOK'
<1>1. ASSUME NEW y \in linked PROVE Anc[y] \cap failedValid' = {} <=> Valid(y)
  <2>1. Anc[y] \subseteq data
    BY Zenon DEF ChainInv, IndexOK
  <2> QED
    BY <2>1, Zenon DEF Valid
<1>2. op'.at = op.at \/ (op.at \in {"free", "flush"} /\ op'.at \in {"free", "flush"})
  BY Zenon
<1>3. op'.at = "step" => op.at = "step" /\ op' = op
  BY <1>2, Zenon
<1>4. op'.at # "invalidate" => op.at # "invalidate"
  BY <1>2, Zenon
<1>5. op'.at # "replay"
  BY <1>2, Zenon DEF CandOK, QuietOK
<1>6. QuietOK'
  BY <1>3, <1>5, Zenon DEF CandOK, QuietOK
<1>7. ASSUME op'.at # "invalidate"
      PROVE  \E m \in Blocks :
              /\ m \in linked' /\ m \in Connectable
              /\ \A y \in linked' :
                    Anc[y] \cap failedValid' = {} /\ ~WorseBySequence(seq', y, m) => y \in candidates'
              /\ m = tip' \/ (WorseBySequence(seq', tip', m) /\ Anc[m] \cap failedValid' = {})
  BY <1>1, <1>4, <1>7, Zenon DEF CandOK, Mark, CandidatesFrom, Worse
<1>8. ASSUME op'.at = "step"
      PROVE  \A y \in linked' : Anc[y] \cap failedValid' = {} => ~WorseBySequence(seq', op'.target, y)
  BY <1>1, <1>3, <1>8, Zenon DEF CandOK, Worse
<1>9. ASSUME op'.at \in {"free", "flush"}
      PROVE  \A y \in linked' : Anc[y] \cap failedValid' = {} /\ WorseBySequence(seq', tip', y) =>
               \E c \in calls' : c.target = NoBlock
                                 \/ (c.target \in linked' /\ ~WorseBySequence(seq', c.target, y))
  <2>1. op.at \in {"free", "flush"}
    BY <1>2, <1>9, Zenon
  <2> QED
    BY <1>1, <2>1, Zenon DEF CandOK, Sought, Worse
<1> QED
  BY <1>6, <1>7, <1>8, <1>9, CandAssembled, Zenon

\* A call of ActivateBestChain returns: it had settled for the tip.
LEMMA EndActivateKeepsCand ==
  ASSUME ChainInv, CandOK, NEW c \in calls, EndActivate(c)
  PROVE  CandOK'
<1>1. /\ c.target = tip /\ calls' = calls \ {c}
      /\ UNCHANGED <<linked, seq, candidates, tip, failedValid, refused, op>>
  BY Zenon DEF EndActivate, index, flags, swift
<1>2. tip # NoBlock
  BY TreeAssumption, Zenon DEF ChainInv, MarksOK, IndexOK
<1>3. QuietOK'
  BY <1>1, Zenon DEF CandOK, QuietOK
<1>4. ASSUME op.at \in {"free", "flush"}, NEW y \in linked, Valid(y), Worse(tip, y)
      PROVE  \E d \in calls' : d.target = NoBlock \/ (d.target \in linked /\ ~Worse(d.target, y))
  <2>1. PICK d \in calls : d.target = NoBlock \/ (d.target \in linked /\ ~Worse(d.target, y))
    BY <1>4, Zenon DEF CandOK, Sought
  <2>2. d # c
    BY <1>1, <1>2, <1>4, <2>1, Zenon
  <2> QED
    BY <1>1, <2>1, <2>2, Zenon
<1> QED
  BY <1>1, <1>3, <1>4, Zenon DEF CandOK, Mark, CandidatesFrom, Valid, Worse, Sought

\* ReceivedBlockTransactions links blocks: those that are as good as the mark
\* are as good as the tip, so they become candidates.
LEMMA LinkKeepsCand ==
  ASSUME ChainInv, ChainInv', CandOK, NEW b \in Blocks, AcceptBlock(b), Link(b)
  PROVE  CandOK'
<1> DEFINE N == NewlyLinked(b)
<1>0. IndexOK /\ IndexOK' /\ linked \subseteq Blocks /\ tip \in linked
  BY InvTypes, Zenon DEF ChainInv
<1>1. /\ op = Free /\ op' = op /\ b \notin data /\ calls' = calls \cup {Call(b, NoBlock)}
      /\ linked' = linked \cup N /\ UNCHANGED <<tip, failedValid, refused>>
      /\ candidates' = candidates \cup {x \in N : ~WorseBySequence(seq', x, tip)}
  BY Zenon DEF AcceptBlock, Accepting, Link, flags, swift
<1>2. \A x \in linked : x \notin N /\ seq'[x] = seq[x]
  <2>1. \A x \in N : b \in Anc[x]
    BY Zenon DEF NewlyLinked, Desc
  <2>2. \A x \in linked : Anc[x] \subseteq data
    BY <1>0, Zenon DEF IndexOK
  <2>3. PICK f \in Numberings(N) : seq' = [x \in Blocks |-> IF x \in DOMAIN f THEN f[x] ELSE seq[x]]
    BY Zenon DEF Link
  <2>4. DOMAIN f = N
    BY Zenon DEF Numberings
  <2>5. \A x \in linked : x \notin N
    BY <1>1, <2>1, <2>2, Zenon
  <2> HIDE DEF N
  <2> QED
    BY <1>0, <2>3, <2>4, <2>5
<1> HIDE DEF N
<1>3. \A x, y \in linked : WorseBySequence(seq', x, y) <=> Worse(x, y)
  BY <1>2, Zenon DEF Worse, WorseBySequence
<1>4. PICK m \in Blocks : Mark(m)
  BY <1>1, FreeTypes, Zenon DEF CandOK
<1>5. m \in linked /\ ~WorseBySequence(seq', m, tip)
  <2>1. m \in linked /\ ~Worse(m, tip)
    BY <1>0, <1>4, ComparingNow, Zenon DEF Mark
  <2> QED
    BY <1>0, <1>3, <2>1, Zenon
<1>6. ASSUME NEW y \in linked', Anc[y] \cap failedValid = {}, ~WorseBySequence(seq', y, m)
      PROVE  y \in candidates'
  <2>1. CASE y \in linked
    BY <1>1, <1>3, <1>4, <1>5, <1>6, <2>1, Zenon DEF Mark, CandidatesFrom, Valid
  <2>2. CASE y \in N
    <3>1. seq' \in [Blocks -> Int]
      BY <1>0, SequenceTypes, Zenon DEF IndexOK
    <3>2. y \in Blocks /\ m \in Blocks /\ tip \in Blocks
      BY <1>0, <1>1, Zenon DEF IndexOK
    <3>3. ~WorseBySequence(seq', y, tip)
      BY <1>5, <1>6, <3>1, <3>2, Comparing, Zenon
    <3> QED
      BY <1>1, <2>2, <3>3, Zenon
  <2> QED
    BY <1>1, <2>1, <2>2, Zenon
<1>7. m = tip' \/ (WorseBySequence(seq', tip', m) /\ Anc[m] \cap failedValid' = {})
  BY <1>0, <1>1, <1>3, <1>4, <1>5, Zenon DEF Mark, Valid
<1>8. \E c \in calls' : c.target = NoBlock
  BY <1>1, CallTargets, Zenon
<1>9. QuietOK' /\ op'.at = "free"
  BY <1>1, FreeTypes, Zenon DEF CandOK, QuietOK
<1>10. op'.at # "step"
  BY <1>9, Zenon
<1> QED
  BY <1>1, <1>4, <1>5, <1>6, <1>7, <1>8, <1>9, <1>10, CandAssembled, Zenon DEF Mark

\* An iteration of ActivateBestChain begins, or finds nothing to do: then no
\* valid block is better than the tip.
LEMMA IterationKeepsCand ==
  ASSUME ChainInv, ActiveOK, MarkOK, CandOK, NEW c \in calls, NothingToActivate(c) \/ BeginStep(c)
  PROVE  CandOK'
<1>0. IndexOK /\ tip \in Blocks /\ candidates \subseteq Blocks /\ tip # NoBlock
  BY InvTypes, Zenon
<1>1. op = Free /\ FindMostWorkChain /\ UNCHANGED <<linked, seq, tip, failedValid, refused>>
  BY Zenon DEF NothingToActivate, BeginStep, index, swift
<1>2. op.at = "free" /\ op.at # "invalidate" /\ op.at \notin {"step", "invalidate"}
  BY <1>1, FreeTypes, Zenon
<1>3. PICK m \in Blocks : Mark(m)
  BY <1>2, Zenon DEF CandOK
<1>4. Active \cap Failed = {}
  BY <1>2, Zenon DEF ActiveOK
<1>5. MostWork \in candidates /\ \A y \in linked : Valid(y) => ~Worse(MostWork, y)
  BY <1>3, <1>4, FoundIsBest, Zenon
<1>6. \A y \in linked : Valid(y) /\ ~Worse(y, m) => y \in candidates'
  BY <1>1, <1>3, FindKeepsValid, Zenon DEF Mark, CandidatesFrom
<1>7. CASE NothingToActivate(c)
  <2>1. op' = op /\ MostWork = tip
    BY <1>0, <1>5, <1>7, TreeAssumption, Zenon DEF NothingToActivate
  <2>2. QuietOK' /\ op'.at # "step"
    BY <1>1, <1>2, <2>1 DEF CandOK, QuietOK
  <2> QED
    BY <1>1, <1>3, <1>5, <1>6, <2>1, <2>2, CandAssembled, Zenon DEF Mark, Valid, Worse
<1>8. CASE BeginStep(c)
  <2>1. op'.at = "step" /\ op'.target = MostWork /\ op'.pend = NoBlock
    BY <1>8, Zenon DEF BeginStep, Section
  <2>2. QuietOK' /\ op'.at \notin {"free", "flush"}
    BY <1>1, <2>1, Zenon DEF CandOK, QuietOK
  <2> QED
    BY <1>1, <1>3, <1>5, <1>6, <2>1, <2>2, CandAssembled, Zenon DEF Mark, Valid, Worse
<1> QED
  BY <1>7, <1>8, Zenon

\* The section moves its pending block only.
LEMMA PendingKeepsCand ==
  ASSUME ChainInv, CandOK, op.at = "step", NEW p, op' = [op EXCEPT !.pend = p],
         p \in {NoBlock, tip} \cup Connectable,
         UNCHANGED <<linked, seq, candidates, tip, failedValid, refused>>
  PROVE  CandOK'
<1>1. op'.at = "step" /\ op'.target = op.target /\ op'.pend = p
  BY Zenon DEF ChainInv, SectionOK, Sections
<1>2. QuietOK' /\ op'.at \notin {"free", "flush"} /\ op.at # "invalidate"
  BY <1>1, Zenon DEF CandOK, QuietOK
<1> QED
  BY <1>1, <1>2, CandAssembled, Zenon DEF CandOK, Mark, CandidatesFrom, Valid, Worse

\* The tip is disconnected: the mark stays where it is.
LEMMA DisconnectKeepsCand ==
  ASSUME ChainInv, ActiveOK, CandOK, FinishDisconnect
  PROVE  CandOK'
<1>0. IndexOK /\ tip \in Blocks /\ tip # NoBlock /\ op \in Sections /\ seq \in [Blocks -> Int]
  BY InvTypes, Zenon
<1>1. /\ op.pend = tip /\ tip' = Parent[tip] /\ op' = [op EXCEPT !.pend = NoBlock]
      /\ UNCHANGED <<linked, seq, candidates, failedValid, refused>>
  BY Zenon DEF FinishDisconnect, index, flags, swift
<1>2. tip # Genesis
  BY <1>0, <1>1, Zenon DEF ChainInv, SectionOK
<1>3. Parent[tip] \in Blocks /\ Anc[tip] = {tip} \cup Anc[Parent[tip]]
  BY <1>0, <1>2, NotBelowParent, Zenon
<1>4. op'.at = op.at /\ op'.target = op.target /\ op'.pend = NoBlock
  BY <1>0, <1>1, Zenon DEF Sections
<1>5. tip' \in Connectable
  BY <1>1, <1>3, Zenon DEF CandOK, QuietOK, Connectable
<1>6. QuietOK'
  BY <1>1, <1>4, <1>5, Zenon DEF CandOK, QuietOK
<1>7. op.at \in {"step", "invalidate"}
  BY Zenon DEF FinishDisconnect, CandOK, QuietOK
<1>8. CASE op.at = "invalidate"
  <2>1. op'.at = "invalidate" /\ op'.at # "step" /\ op'.at \notin {"free", "flush"}
    BY <1>4, <1>8, Zenon
  <2> QED
    BY <1>6, <2>1, CandAssembled, Zenon
<1>9. CASE op.at = "step"
  <2>1. op'.at = "step" /\ op'.at \notin {"free", "flush"} /\ op.at # "invalidate"
    BY <1>4, <1>9, Zenon
  <2>2. PICK m \in Blocks : Mark(m)
    BY <2>1, Zenon DEF CandOK
  <2>3. Valid(tip)
    BY <1>0, <1>9, UnmarkedIsValid, Zenon DEF ActiveOK, Active
  <2>4. Worse(Parent[tip], tip)
    BY <1>0, <1>2, TreeAssumption DEF Worse, WorseBySequence
  <2>5. Worse(Parent[tip], m) /\ Valid(m)
    <3>1. CASE m = tip
      BY <2>3, <2>4, <3>1, Zenon
    <3>2. CASE Worse(tip, m) /\ Valid(m)
      BY <1>0, <1>3, <2>4, <3>2, WorseIsAnOrder, Zenon DEF Worse
    <3> QED
      BY <2>2, <3>1, <3>2, Zenon DEF Mark
  <2> QED
    BY <1>1, <1>4, <1>6, <1>9, <2>1, <2>2, <2>5, CandAssembled, Zenon DEF CandOK, Mark, CandidatesFrom, Valid, Worse
<1> QED
  BY <1>7, <1>8, <1>9, Zenon

\* A block is connected: it is the mark if it is as good as the mark was, and
\* what PruneBlockIndexCandidates takes out is below both.
LEMMA ConnectedKeepsCand ==
  ASSUME ChainInv, ActiveOK, CandOK, op.at = "step",
         NEW b \in Anc[op.target], b \in Connectable, Connected(b),
         UNCHANGED <<linked, seq, failedValid, refused>>
  PROVE  CandOK'
<1>0. /\ IndexOK /\ tip \in Blocks /\ op \in Sections /\ op.target \in linked /\ op.target \in Blocks
      /\ b \in linked /\ b \in Blocks /\ linked \subseteq Blocks
  <2>1. IndexOK /\ tip \in Blocks /\ op \in Sections /\ op.target \in linked /\ linked \subseteq Blocks
    BY InvTypes, Zenon DEF ChainInv, SectionOK
  <2>2. b \in linked
    BY <2>1, LinkedIsClosed, Zenon
  <2> QED
    BY <2>1, <2>2, Zenon
<1>1. tip' = b /\ candidates' = {c \in candidates : ~Worse(c, b)}
  BY Zenon DEF Connected, Prune
<1>2. op.at # "invalidate" /\ Valid(tip)
  BY <1>0, UnmarkedIsValid, Zenon DEF ActiveOK, Active
<1>3. PICK m \in Blocks : Mark(m)
  BY <1>2, Zenon DEF CandOK
<1>4. Valid(m) /\ m \in linked /\ m \in Connectable
  BY <1>2, <1>3, Zenon DEF Mark
<1>5. \E n \in Blocks : /\ n \in linked /\ n \in Connectable
                        /\ \A y \in linked : Valid(y) /\ ~Worse(y, n) => y \in candidates'
                        /\ n = b \/ (Worse(b, n) /\ Valid(n))
  <2>1. CASE ~Worse(b, m)
    <3>1. \A y \in linked : Valid(y) /\ ~Worse(y, b) => y \in candidates'
      BY <1>0, <1>1, <1>3, <2>1, ComparingNow, Zenon DEF Mark, CandidatesFrom
    <3> QED
      BY <1>0, <3>1, Zenon
  <2>2. CASE Worse(b, m)
    <3>1. \A y \in linked : Valid(y) /\ ~Worse(y, m) => y \in candidates'
      BY <1>0, <1>1, <1>3, <2>2, ComparingNow, Zenon DEF Mark, CandidatesFrom
    <3> QED
      BY <1>4, <2>2, <3>1, Zenon
  <2> QED
    BY <2>1, <2>2, Zenon
<1>6. CASE op' = Free /\ \E c \in calls' : c.target = op.target
  <2>1. op'.at = "free" /\ op'.at # "step" /\ op'.at # "replay"
    BY <1>6, FreeTypes, Zenon
  <2>2. QuietOK'
    BY <1>1, <2>1, Zenon DEF CandOK, QuietOK
  <2> QED
    BY <1>0, <1>1, <1>5, <1>6, <2>1, <2>2, CandAssembled, Zenon DEF CandOK, Valid, Worse
<1>7. CASE op' = [op EXCEPT !.pend = NoBlock]
  <2>1. op'.at = "step" /\ op'.target = op.target /\ op'.pend = NoBlock
    BY <1>0, <1>7, Zenon DEF Sections
  <2>2. QuietOK' /\ op'.at \notin {"free", "flush"}
    BY <1>1, <2>1, Zenon DEF CandOK, QuietOK
  <2> QED
    BY <1>1, <1>5, <2>1, <2>2, CandAssembled, Zenon DEF CandOK, Valid, Worse
<1>8. ASSUME EndStep PROVE op' = Free /\ \E c \in calls' : c.target = op.target
  BY <1>8, CallTargets, Zenon DEF EndStep
<1> QED
  BY <1>6, <1>7, <1>8, Zenon DEF Connected

\* A block that passes ConnectBlock on a chain that does.
LEMMA NextIsConnectable ==
  ASSUME ChainInv, QuietOK, Connecting
  PROVE  /\ Connects(NextBlock) => NextBlock \in Connectable
         /\ ~Connects(NextBlock) => NextBlock \in Bad
<1>1. NextBlock \in Blocks /\ Anc[NextBlock] = {NextBlock} \cup Active
  BY NextBlockOnBranch, Zenon
<1> QED
  BY <1>1, Zenon DEF QuietOK, Connectable, Connects, Active

\* The steps of ActivateBestChainStep that connect.
LEMMA ConnectKeepsCand ==
  ASSUME ChainInv, ActiveOK, TargetOK, CandOK, ConnectTip \/ ConnectTipFlushing \/ FinishConnect
  PROVE  CandOK'
<1>1. CASE ConnectTip
  <2>1. /\ op.at = "step" /\ Connecting /\ Connects(NextBlock) /\ Connected(NextBlock)
        /\ UNCHANGED <<linked, seq, failedValid, refused>>
    BY <1>1, Zenon DEF ConnectTip, Connecting, index, flags, swift
  <2>2. NextBlock \in Connectable /\ NextBlock \in Anc[op.target]
    BY <2>1, NextIsConnectable, NextBlockOnBranch, Zenon DEF CandOK
  <2> QED
    BY <2>1, <2>2, ConnectedKeepsCand, Zenon
<1>2. CASE ConnectTipFlushing
  <2>1. /\ op.at = "step" /\ Connecting /\ Connects(NextBlock) /\ op' = [op EXCEPT !.pend = NextBlock]
        /\ UNCHANGED <<linked, seq, candidates, tip, failedValid, refused>>
    BY <1>2, Zenon DEF ConnectTipFlushing, Connecting, index, flags, swift
  <2>2. NextBlock \in Connectable
    BY <2>1, NextIsConnectable, Zenon DEF CandOK
  <2> QED
    BY <2>1, <2>2, PendingKeepsCand, Zenon
<1>3. CASE FinishConnect
  <2>1. /\ op.at = "step" /\ op.pend \notin {NoBlock, tip} /\ Connected(op.pend)
        /\ UNCHANGED <<linked, seq, failedValid, refused>>
    BY <1>3, Zenon DEF FinishConnect, index, flags, swift
  <2>2. op.pend \in Connectable /\ op.pend \in Anc[op.target]
    BY <2>1, Zenon DEF CandOK, QuietOK, TargetOK
  <2> QED
    BY <2>1, <2>2, ConnectedKeepsCand, Zenon
<1> QED
  BY <1>1, <1>2, <1>3, Zenon

\* A block is found invalid: it is not below the mark, which can be connected.
LEMMA InvalidFoundKeepsCand ==
  ASSUME ChainInv, CandOK, InvalidBlockFound
  PROVE  CandOK'
<1>1. /\ op.at = "step" /\ Connecting /\ ~Connects(NextBlock) /\ EndStep
      /\ failedValid' = failedValid \cup {NextBlock} /\ candidates' = candidates \ {NextBlock}
      /\ UNCHANGED <<linked, seq, tip, refused>>
  BY Zenon DEF InvalidBlockFound, Connecting, index
<1>2. NextBlock \in Bad /\ NextBlock # Genesis /\ NextBlock \in Blocks
  BY <1>1, NextIsConnectable, NextBlockOnBranch, Zenon DEF CandOK
<1>3. op' = Free /\ \E c \in calls' : c.target = op.target
  BY <1>1, CallTargets, Zenon DEF EndStep
<1>4. op'.at = "free" /\ op'.at # "step" /\ op'.at # "replay" /\ op.at # "invalidate"
  BY <1>1, <1>3, FreeTypes
<1>5. QuietOK'
  BY <1>1, <1>4, Zenon DEF CandOK, QuietOK
<1>6. \A y : Anc[y] \cap failedValid' = {} => Valid(y) /\ NextBlock \notin Anc[y]
  BY <1>1, Zenon DEF Valid
<1>7. NextBlock \in Anc[NextBlock]
  BY <1>2, AncBounds, Zenon
<1>8. PICK m \in Blocks : Mark(m)
  BY <1>4, Zenon DEF CandOK
<1>9. \A y \in linked : Anc[y] \cap failedValid' = {} /\ ~Worse(y, m) => y \in candidates'
  BY <1>1, <1>6, <1>7, <1>8, Zenon DEF Mark, CandidatesFrom
<1>10. Valid(m) => Anc[m] \cap failedValid' = {}
  BY <1>1, <1>2, <1>8, Zenon DEF Mark, Connectable, Valid
<1>11. op.target \in linked
  BY <1>1, Zenon DEF ChainInv, SectionOK
<1> QED
  BY <1>1, <1>3, <1>4, <1>5, <1>6, <1>8, <1>9, <1>10, <1>11, CandAssembled, Zenon DEF CandOK, Mark, Worse

\* InvalidateBlock adds what beats the tip when it is done.
LEMMA InvalidateKeepsCand ==
  ASSUME ChainInv, MarkOK, CandOK,
         InvalidateTip \/ FinishInvalidate \/ \E b \in Blocks : Invalidate(b)
  PROVE  CandOK'
<1>0. op \in Sections /\ linked \subseteq Blocks /\ tip \in linked /\ linked \subseteq data
  BY InvTypes, Zenon
<1>1. tip' = tip /\ refused' = refused
  BY Zenon DEF InvalidateTip, FinishInvalidate, Invalidate, swift
<1>2. CASE InvalidateTip \/ \E b \in Blocks : Invalidate(b)
  <2>1. op'.at = "invalidate"
    <3>1. CASE InvalidateTip
      BY <1>0, <3>1, Zenon DEF InvalidateTip, BeginDisconnect, Sections
    <3>2. CASE \E b \in Blocks : Invalidate(b)
      BY <3>2 DEF Invalidate, Section
    <3> QED
      BY <1>2, <3>1, <3>2, Zenon
  <2>2. op'.at # "step" /\ op'.at # "replay" /\ op'.at \notin {"free", "flush"}
    BY <2>1, Zenon
  <2>3. QuietOK'
    BY <1>1, <2>2, Zenon DEF CandOK, QuietOK
  <2> QED
    BY <2>1, <2>2, <2>3, CandAssembled, Zenon
<1>3. CASE FinishInvalidate
  <2>1. /\ op' = Free /\ calls' = calls \cup {NewCall} /\ UNCHANGED <<linked, seq, failedValid>>
        /\ candidates' = candidates \cup {x \in (data \cap linked) \ Failed : ~Worse(x, tip)}
    BY <1>3, Zenon DEF FinishInvalidate, Refilled, index, flags
  <2>2. op'.at = "free" /\ op'.at # "step" /\ op'.at # "replay"
    BY <2>1, FreeTypes, Zenon
  <2>3. QuietOK'
    BY <1>1, <2>2, Zenon DEF CandOK, QuietOK
  <2>4. \E c \in calls' : c.target = NoBlock
    BY <2>1, CallTargets, Zenon
  <2>5. ASSUME NEW y \in linked, Valid(y), ~Worse(y, tip) PROVE y \in candidates'
    <3>1. y \in Blocks /\ y \in Anc[y]
      BY <1>0, AncBounds, Zenon
    <3>2. y \notin Failed
      BY <2>5, <3>1, ValidIsUnmarked, Zenon
    <3> QED
      BY <1>0, <2>1, <2>5, <3>2, Zenon
  <2>6. tip \in Connectable
    BY Zenon DEF CandOK, QuietOK
  <2> QED
    BY <1>0, <1>1, <2>1, <2>2, <2>3, <2>4, <2>5, <2>6, CandAssembled, Zenon DEF Valid, Worse
<1> QED
  BY <1>2, <1>3, Zenon

\* A restart: LoadBlockIndexDB makes candidates of all that beats the tip on
\* disk, which is in the chain that was active.
LEMMA RestartKeepsCand ==
  ASSUME ChainInv, DiskChainOK, MarkOK, CandOK, Restart
  PROVE  CandOK'
<1>0. /\ tip \in Blocks /\ disk.tip \in Blocks /\ disk.data \subseteq Blocks
      /\ Anc[disk.tip] \subseteq disk.data /\ disk.tip \in Anc[disk.tip]
  BY AncBounds, Zenon DEF ChainInv, MarksOK, IndexOK, DiskOK
<1>1. /\ tip' = disk.tip /\ failedValid' = disk.failedValid /\ linked' = LoadedLinks
      /\ seq' = [b \in Blocks |-> 0] /\ op' = Free /\ refused' = {} /\ calls' = {NewCall}
      /\ candidates' = {x \in LoadedLinks \ (disk.failedValid \cup disk.failedChild) :
                          ~WorseBySequence([b \in Blocks |-> 0], x, disk.tip)}
  BY Zenon DEF Restart
<1>2. op'.at = "free" /\ op'.at # "step" /\ op'.at # "replay"
  BY <1>1, FreeTypes, Zenon
<1>3. \E c \in calls' : c.target = NoBlock
  BY <1>1, CallTargets, Zenon
<1>4. tip' \in Connectable
  <2>1. Anc[disk.tip] \subseteq Anc[tip]
    BY <1>0, AncTransitive, Zenon DEF DiskChainOK, Active
  <2> QED
    BY <1>0, <1>1, <2>1, Zenon DEF CandOK, QuietOK, Connectable
<1>5. QuietOK'
  BY <1>1, <1>2, <1>4, Zenon DEF QuietOK
<1>6. tip' \in linked'
  BY <1>0, <1>1, Zenon DEF LoadedLinks
<1>7. ASSUME NEW y \in linked', Anc[y] \cap failedValid' = {}, ~WorseBySequence(seq', y, tip')
      PROVE  y \in candidates'
  <2>1. y \in LoadedLinks /\ y \in Blocks
    BY <1>0, <1>1, Zenon DEF LoadedLinks
  <2>2. y \in Anc[y]
    BY <2>1, AncBounds, Zenon
  <2>3. y \notin disk.failedValid \cup disk.failedChild
    BY <1>1, <1>7, <2>2, Zenon DEF MarkOK, HasInvalidAncestor
  <2> QED
    BY <1>1, <1>7, <2>1, <2>3, Zenon
<1> QED
  BY <1>0, <1>1, <1>2, <1>3, <1>4, <1>5, <1>6, <1>7, CandAssembled, Zenon

\* Every step that neither begins a refusal nor reconsiders keeps it.
LEMMA CandKept ==
  ASSUME ChainInv, ChainInv', ActiveOK, DiskChainOK, MarkOK, TargetOK, CandOK, Next,
         \A b \in Blocks : ~Reconsider(b) /\ ~ReconsiderCheckpoint(b) /\ ~BeginRefusing(b)
  PROVE  CandOK'
<1>1. CASE \E b \in Blocks : \/ RefuseBlock(b) \/ AcceptDuplicate(b) \/ FailContextualCheck(b)
                             \/ FailStakeCheck(b) \/ CheckNewBlock(b) \/ EndRefusing(b)
                             \/ (AcceptBlock(b) /\ LeaveUnlinked(b))
  <2>1. PICK b \in Blocks : \/ RefuseBlock(b) \/ AcceptDuplicate(b) \/ FailContextualCheck(b)
                            \/ FailStakeCheck(b) \/ CheckNewBlock(b) \/ EndRefusing(b)
                            \/ (AcceptBlock(b) /\ LeaveUnlinked(b))
    BY <1>1, Zenon
  <2>2. op' = op /\ tip' = tip
        /\ (failedValid' = failedValid \/ (failedValid' = failedValid \cup {b} /\ b \notin data))
    BY <2>1, BlockFrame, Zenon
  <2>3. UNCHANGED <<linked, seq, candidates>> /\ refused' \subseteq refused /\ calls \subseteq calls'
    BY <2>1, Zenon DEF RefuseBlock, AcceptDuplicate, FailContextualCheck, FailStakeCheck, CheckNewBlock,
       EndRefusing, AcceptBlock, LeaveUnlinked, index, swift
  <2> QED
    BY <2>2, <2>3, CandFrame, Zenon
<1>2. ASSUME NEW b \in Blocks, AcceptBlock(b) PROVE Link(b) \/ LeaveUnlinked(b)
  BY <1>2, Zenon DEF AcceptBlock
<1>3. CASE \E b \in Blocks : AcceptBlock(b) /\ Link(b)
  BY <1>3, LinkKeepsCand, Zenon
<1>4. CASE \E c \in calls : NothingToActivate(c) \/ BeginStep(c) \/ EndActivate(c)
  BY <1>4, IterationKeepsCand, EndActivateKeepsCand, Zenon
<1>5. CASE DisconnectTip
  <2>1. /\ op.at = "step" /\ op' = [op EXCEPT !.pend = tip]
        /\ UNCHANGED <<linked, seq, candidates, tip, failedValid, refused>>
    BY <1>5, Zenon DEF DisconnectTip, BeginDisconnect, index, flags, swift
  <2> QED
    BY <2>1, PendingKeepsCand, Zenon
<1>6. CASE FinishDisconnect \/ ConnectTip \/ ConnectTipFlushing \/ FinishConnect \/ InvalidBlockFound
  BY <1>6, DisconnectKeepsCand, ConnectKeepsCand, InvalidFoundKeepsCand, Zenon
<1>7. CASE InvalidateTip \/ FinishInvalidate \/ \E b \in Blocks : Invalidate(b)
  BY <1>7, InvalidateKeepsCand, Zenon
<1>8. CASE (\E R \in replays : \E b \in R : ReplayReconsider(R, b)) \/ BeginReplay \/ ReplayTip \/ FinishReplay
  BY <1>8, Zenon DEF MarkOK, CandOK, QuietOK, ReplayReconsider, BeginReplay, ReplayTip, FinishReplay
<1>9. CASE BeginFlush \/ FinishFlush
  <2>1. UNCHANGED <<linked, seq, candidates, tip, failedValid, refused, calls>>
    BY <1>9, Zenon DEF BeginFlush, FinishFlush, index, flags, swift
  <2>2. op.at \in {"free", "flush"} /\ op'.at \in {"free", "flush"}
    BY <1>9, FreeTypes, OtherSections DEF BeginFlush, FinishFlush
  <2> QED
    BY <2>1, <2>2, CandFrame, Zenon
<1>10. CASE Restart
  BY <1>10, RestartKeepsCand, Zenon
<1> QED
  BY <1>1, <1>2, <1>3, <1>4, <1>5, <1>6, <1>7, <1>8, <1>9, <1>10, Zenon DEF Next, Progress, Environment

\* It holds at the start.
LEMMA CandInvInit == Init => CandInv
<1> SUFFICES ASSUME Init PROVE CandOK
  BY Zenon DEF CandInv
<1>1. op.at = "free" /\ op.at \notin {"replay", "step"}
  BY FreeTypes, Zenon DEF Init
<1>2. linked = {Genesis} /\ candidates = {Genesis} /\ tip = Genesis /\ refused = {}
  BY Zenon DEF Init
<1>3. Genesis \in Connectable
  BY AncCases, Zenon DEF Connectable
<1>4. ~Worse(Genesis, Genesis)
  BY ChainInvInit, AncCases, ComparingNow, Zenon DEF ChainInv
<1>5. Mark(Genesis)
  BY <1>2, <1>3, Zenon DEF Mark, CandidatesFrom
<1> QED
  BY <1>1, <1>2, <1>3, <1>4, <1>5, AncCases, Zenon DEF CandOK, QuietOK

\* Every step keeps the invariant, where no checkpoint makes AcceptBlock
\* reconsider a block.
LEMMA CandInvNext ==
  ASSUME Checkpoints = {}
  PROVE  ChainInv /\ ChainInv' /\ ActiveInv /\ MarkInv /\ TargetOK /\ CandInv /\ [Next]_vars => CandInv'
<1> SUFFICES ASSUME ChainInv, ChainInv', ActiveInv, MarkInv, TargetOK, CandInv, [Next]_vars, Quiet'
             PROVE  CandOK'
  BY Zenon DEF CandInv
<1>1. CASE UNCHANGED vars
  BY <1>1, Zenon DEF vars, index, flags, swift, CandInv, CandOK, QuietOK, Mark, CandidatesFrom, Valid, Sought,
     Worse, Quiet, Undisturbed, Uninterrupted
<1>2. CASE Next
  <2>1. /\ used'.crash = 0 => used.crash = 0
        /\ used'.invalidate = 0 => used.invalidate = 0
        /\ used'.reconsider = 0 => used.reconsider = 0 /\ \A b \in Blocks : ~Reconsider(b)
        /\ used'.refuse = 0 => used.refuse = 0 /\ \A b \in Blocks : ~BeginRefusing(b)
    BY CountersCount, Zenon DEF ActiveInv
  <2>2. Quiet /\ \A b \in Blocks : ~Reconsider(b) /\ ~BeginRefusing(b)
    BY <2>1, Zenon DEF Quiet, Undisturbed, Uninterrupted
  <2>3. \A b \in Blocks : ~ReconsiderCheckpoint(b)
    BY Zenon DEF ReconsiderCheckpoint
  <2>4. ActiveOK /\ DiskChainOK /\ MarkOK /\ CandOK
    BY <2>2, Zenon DEF Quiet, ActiveInv, MarkInv, CandInv
  <2> QED
    BY <1>2, <2>2, <2>3, <2>4, CandKept, Zenon
<1> QED
  BY <1>1, <1>2, Zenon

\* Once every call has returned, the mark is the tip.
LEMMA CandInvSuffices == ChainInv /\ CandInv => NoCandidateForgotten /\ BestChainActivated
<1> SUFFICES ASSUME ChainInv, CandOK, op = Free, calls = {}
             PROVE  /\ \A x \in linked : ~Worse(x, tip) /\ Valid(x) => x \in candidates
                    /\ \A x \in known : Anc[x] \subseteq data \ Failed => ChainWork[x] <= ChainWork[tip]
  BY Zenon DEF CandInv, Quiet, NoCandidateForgotten, BestChainActivated, AtRest, Valid
<1>1. op.at = "free" /\ op.at # "invalidate"
  BY FreeTypes, Zenon
<1>2. \A y \in linked : Valid(y) => ~Worse(tip, y)
  BY <1>1, Zenon DEF CandOK, Sought
<1>3. PICK m \in Blocks : Mark(m)
  BY <1>1, Zenon DEF CandOK
<1>4. \A x \in linked : ~Worse(x, tip) /\ Valid(x) => x \in candidates
  BY <1>2, <1>3, Zenon DEF Mark, CandidatesFrom
<1>5. ASSUME NEW x \in known, Anc[x] \subseteq data \ Failed PROVE ChainWork[x] <= ChainWork[tip]
  <2>1. x \in Blocks /\ tip \in Blocks /\ IndexOK
    BY InvTypes, Zenon DEF IndexOK
  <2>2. x \in linked /\ Valid(x)
    BY <1>5, <2>1, AncBounds, Zenon DEF IndexOK, Valid, Failed
  <2>3. ~Worse(tip, x)
    BY <1>2, <2>2, Zenon
  <2>4. ~(ChainWork[tip] < ChainWork[x])
    BY <2>3, Zenon DEF Worse, WorseBySequence
  <2>5. ChainWork[tip] \in Int /\ ChainWork[x] \in Int
    BY <2>1, TreeAssumption
  <2> QED
    BY <2>4, <2>5
<1> QED
  BY <1>4, <1>5, Zenon

\* The induction for both.
LEMMA CandInvHolds ==
  ASSUME Checkpoints = {}
  PROVE  Spec => [](NoCandidateForgotten /\ BestChainActivated)
<1>1. ChainInv /\ ChainInv' /\ MarkInv /\ [Next]_vars => MarkInv'
  BY MarkInvNext, Zenon
<1>2. ChainInv /\ ChainInv' /\ ActiveInv /\ MarkInv /\ TargetOK /\ CandInv /\ [Next]_vars => CandInv'
  BY CandInvNext, Zenon
<1> QED
  BY <1>1, <1>2, ChainInvHolds, ActiveInvInit, ActiveInvNext, MarkInvInit, TargetInit, TargetNext, CandInvInit,
     CandInvSuffices, PTL DEF Spec

\* CheckBlockIndex: once every call of ActivateBestChain has returned, every
\* block that is as good as the tip and has no invalid ancestor is a candidate,
\* in whatever order blocks arrived, were connected, failed or were
\* invalidated, and through every crash outside of InvalidateBlock.
THEOREM CandidatesAreComplete ==
  ASSUME Checkpoints = {}
  PROVE  Spec => []NoCandidateForgotten
  BY CandInvHolds, PTL

\* ActivateBestChain's promise, under the same conditions: when the calls have
\* returned, no block that is there with all its ancestors and has not failed
\* has more work than the tip.
THEOREM ChainIsBest ==
  ASSUME Checkpoints = {}
  PROVE  Spec => []BestChainActivated
  BY CandInvHolds, PTL
=============================================================================
