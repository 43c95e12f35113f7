----------------------------- MODULE TallyProofs -----------------------------
(****************************************************************************)
(* Facts about amounts that the proofs about MetaDEx and Tokens rest on,    *)
(* for all amounts, addresses and properties:                               *)
(*                                                                          *)
(*   - the rounding of x_Trade (Division, Ceiling);                         *)
(*   - SumOver adds its summands in an arbitrary order, which does not      *)
(*     matter; what a change of one summand does to a sum;                  *)
(*   - what all addresses together hold of a property, and that a           *)
(*     distribution to its owners (STO_GetReceivers) hands out exactly      *)
(*     the amount that is distributed;                                      *)
(*   - that a payment moves tokens and creates none, and that the reserve   *)
(*     of the exchange follows the orders of the book.                      *)
(****************************************************************************)
EXTENDS MetaDEx, FiniteSetTheorems, WellFoundedInduction, TLAPS

(* Arithmetic. *)

\* Integer division, as the 256-bit arithmetic of x_Trade has it.
LEMMA Division ==
  ASSUME NEW a \in Nat, NEW d \in Nat \ {0}
  PROVE  /\ a \div d \in Nat
         /\ (a \div d) * d <= a
         /\ a < (a \div d) * d + d
  OBVIOUS

\* A common factor can be cancelled.
LEMMA SmallerFactor ==
  ASSUME NEW q \in Int, NEW r \in Int, NEW f \in Nat \ {0}, q * f < r * f
  PROVE  q < r
  OBVIOUS

\* DivideAndRoundUp is the least number that covers the dividend.
LEMMA Ceiling ==
  ASSUME NEW a \in Nat \ {0}, NEW f \in Nat \ {0}
  PROVE  /\ DivideAndRoundUp(a, f) \in Nat \ {0}
         /\ DivideAndRoundUp(a, f) * f >= a
         /\ \A r \in Nat : a <= r * f => DivideAndRoundUp(a, f) <= r
<1> DEFINE q == (a - 1) \div f
<1>1. q \in Nat /\ q * f <= a - 1 /\ a - 1 < q * f + f
  BY Division
<1>2. DivideAndRoundUp(a, f) = 1 + q
  BY Zenon DEF DivideAndRoundUp
<1> HIDE DEF q
<1>3. (1 + q) * f >= a
  BY <1>1
<1>4. ASSUME NEW r \in Nat, a <= r * f PROVE 1 + q <= r
  <2>1. q * f < r * f
    <3>1. q * f \in Int /\ r * f \in Int
      BY <1>1
    <3> QED BY <3>1, <1>1, <1>4
  <2> QED BY <2>1, <1>1, SmallerFactor
<1> QED BY <1>1, <1>2, <1>3, <1>4

-----------------------------------------------------------------------------
(* Sums.  SumOver takes its summands one by one; the lemmas say that their *)
(* order does not matter.                                                  *)

\* The order of the numbers, as a relation.
Less == {ss \in Nat \X Nat : ss[1] < ss[2]}

\* Among subsets of a finite set there is one that has none of the others
\* inside it.
LEMMA SmallestSet ==
  \A S : \A B \in SUBSET SUBSET S :
      /\ IsFiniteSet(S)
      /\ B # {}
      => \E T \in B : \A U \in B : U \subseteq T => U = T
\* The natural numbers are well-founded.
<1>LessWellFounded. IsWellFoundedOn(Less, Nat)
    BY NatLessThanWellFounded, Zenon DEF Less, OpToRel
<1> SUFFICES ASSUME NEW S, IsFiniteSet(S), NEW B \in SUBSET SUBSET S, B # {}
             PROVE  \E T \in B : \A U \in B : U \subseteq T => U = T
  OBVIOUS
<1> DEFINE W == {Cardinality(T) : T \in B}
<1>1. \A T \in B : IsFiniteSet(T) /\ Cardinality(T) \in Nat
  BY FS_Subset, FS_CardinalityType, Zenon
<1>2. W \subseteq Nat /\ W # {}
  BY <1>1, Zenon
<1>3. PICK w \in W : \A v \in W : ~(<<v, w>> \in Less)
  <2> HIDE DEF W
  <2> QED
    BY <1>2, <1>LessWellFounded, WFMin, Zenon
<1>4. PICK T \in B : Cardinality(T) = w
  BY Zenon
<1>5. ASSUME NEW U \in B, U \subseteq T, U # T PROVE FALSE
  <2>1. Cardinality(U) < Cardinality(T)
    BY <1>1, <1>5, FS_Subset
  <2>2. Cardinality(U) \in W
    BY Zenon
  <2> QED
    BY <1>1, <1>3, <1>4, <2>1, <2>2, Zenon DEF Less
<1> QED
  BY <1>5, Zenon

\* The equation that SumOver solves, for the summands f of the set S.
SumStep(f, S, g) ==
    [T \in SUBSET S |-> IF T = {} THEN 0
                        ELSE LET x == CHOOSE x \in T : TRUE IN f[x] + g[T \ {x}]]

Solves(g, f, S) == g = SumStep(f, S, g)

Sum(f, S) == (CHOOSE g : Solves(g, f, S))[S]

\* The sum of a finite set is taken apart at the element that is chosen.
LEMMA SumAtChoice ==
  \A f, S :
      /\ IsFiniteSet(S)
      => /\ Sum(f, {}) = 0
         /\ S # {} => \E x \in S : x = (CHOOSE y \in S : TRUE) /\ Sum(f, S) = f[x] + Sum(f, S \ {x})
\* What a solution is.
<1>SolutionAt.
    ASSUME NEW f, NEW S, NEW g, Solves(g, f, S), NEW T \in SUBSET S
    PROVE  /\ T = {} => g[T] = 0
           /\ T # {} => \E x \in T : x = (CHOOSE y \in T : TRUE) /\ g[T] = f[x] + g[T \ {x}]
  <2> USE <1>SolutionAt
  <2>1. g[T] = SumStep(f, S, g)[T]
    BY Zenon DEF Solves
  <2> QED
    BY <2>1, Zenon DEF SumStep
\* A solution for a set is one for its subsets.
<1>SolutionRestricts.
    ASSUME NEW f, NEW S, NEW T \in SUBSET S, NEW g, Solves(g, f, S)
    PROVE  Solves([U \in SUBSET T |-> g[U]], f, T)
  <2> USE <1>SolutionRestricts
  <2> DEFINE h == [U \in SUBSET T |-> g[U]]
  <2>1. ASSUME NEW U \in SUBSET T
        PROVE  h[U] = IF U = {} THEN 0 ELSE LET x == CHOOSE x \in U : TRUE IN f[x] + h[U \ {x}]
    <3>1. U \in SUBSET S
      BY Zenon
    <3>2. CASE U = {}
      BY <3>1, <3>2, <1>SolutionAt, Zenon
    <3>3. CASE U # {}
      <4>1. PICK x \in U : x = (CHOOSE y \in U : TRUE) /\ g[U] = f[x] + g[U \ {x}]
        BY <3>1, <3>3, <1>SolutionAt
      <4>2. U \ {x} \in SUBSET T
        BY Zenon
      <4> QED
        BY <3>3, <4>1, <4>2, Zenon
    <3> QED
      BY <3>2, <3>3, Zenon
  <2> HIDE DEF h
  <2>2. h = SumStep(f, T, h)
    BY <2>1, Zenon DEF SumStep, h
  <2> QED
    BY <2>2, Zenon DEF Solves, h
\* There is at most one.
<1>SolutionUnique.
    ASSUME NEW f, NEW S, IsFiniteSet(S), NEW g, NEW h, Solves(g, f, S), Solves(h, f, S)
    PROVE  \A T \in SUBSET S : g[T] = h[T]
  <2> USE <1>SolutionUnique
  <2> DEFINE B == {T \in SUBSET S : g[T] # h[T]}
  <2>1. B = {}
    <3> SUFFICES ASSUME B # {} PROVE FALSE
      BY Zenon
    <3>1. PICK T \in B : \A U \in B : U \subseteq T => U = T
      <4> HIDE DEF B
      <4>1. B \in SUBSET SUBSET S
        BY Zenon DEF B
      <4> QED
        BY <4>1, SmallestSet
    <3>2. T # {}
      <4>1. T = {} => g[T] = 0 /\ h[T] = 0
        BY <1>SolutionAt
      <4> QED
        BY <4>1, Zenon
    <3>3. PICK x \in T : x = (CHOOSE y \in T : TRUE) /\ g[T] = f[x] + g[T \ {x}]
      BY <3>2, <1>SolutionAt
    <3>4. h[T] = f[x] + h[T \ {x}]
      <4>1. PICK z \in T : z = (CHOOSE y \in T : TRUE) /\ h[T] = f[z] + h[T \ {z}]
        BY <3>2, <1>SolutionAt
      <4> QED
        BY <3>3, <4>1, Zenon
    <3>5. T \ {x} \in SUBSET S /\ T \ {x} \subseteq T /\ T \ {x} # T
      BY Zenon
    <3>6. g[T \ {x}] = h[T \ {x}]
      BY <3>1, <3>5, Zenon
    <3> QED
      BY <3>3, <3>4, <3>6, Zenon
  <2> QED
    BY <2>1, Zenon
\* There is one.
<1>SolutionExists.
    ASSUME NEW f, NEW S, IsFiniteSet(S)
    PROVE  \E g : Solves(g, f, S)
  <2> USE <1>SolutionExists
  <2> DEFINE B == {T \in SUBSET S : ~ \E g : Solves(g, f, T)}
  <2>1. B = {}
    <3> SUFFICES ASSUME B # {} PROVE FALSE
      BY Zenon
    <3>1. PICK T \in B : \A U \in B : U \subseteq T => U = T
      <4> HIDE DEF B
      <4>1. B \in SUBSET SUBSET S
        BY Zenon DEF B
      <4> QED
        BY <4>1, SmallestSet
    <3> DEFINE G(U) == CHOOSE g : Solves(g, f, U)
               c == CHOOSE y \in T : TRUE
               h == [U \in SUBSET T |-> IF U # T THEN G(U)[U]
                                       ELSE IF T = {} THEN 0 ELSE f[c] + G(T \ {c})[T \ {c}]]
    <3>2. ASSUME NEW U \in SUBSET T, U # T PROVE Solves(G(U), f, U)
      <4>1. U \notin B
        BY <3>1, <3>2, Zenon
      <4> QED
        BY <4>1, Zenon
    <3>3. ASSUME NEW U \in SUBSET T, U # T, NEW V \in SUBSET U PROVE G(U)[V] = G(V)[V]
      <4> HIDE DEF G, B
      <4> DEFINE r == [X \in SUBSET V |-> G(U)[X]]
      <4>1. V \in SUBSET T /\ V # T /\ IsFiniteSet(V)
        <5>1. V \in SUBSET S
          BY Zenon DEF B
        <5> QED
          BY <3>3, <5>1, FS_Subset, Zenon
      <4>2. Solves(G(U), f, U) /\ Solves(G(V), f, V)
        BY <3>2, <3>3, <4>1, Zenon
      <4>3. Solves(r, f, V)
        BY <4>2, <1>SolutionRestricts, Zenon
      <4>4. r[V] = G(U)[V]
        BY Zenon
      <4> HIDE DEF r
      <4> QED
        BY <4>1, <4>2, <4>3, <4>4, <1>SolutionUnique
    <3>4. ASSUME NEW U \in SUBSET T
          PROVE  h[U] = IF U = {} THEN 0 ELSE LET x == CHOOSE x \in U : TRUE IN f[x] + h[U \ {x}]
      <4> HIDE DEF B
      <4>1. CASE U = T
        <5>1. T # {} => T \ {c} \in SUBSET T /\ T \ {c} # T
          BY Zenon
        <5> HIDE DEF G
        <5> QED
          BY <4>1, <5>1, Zenon
      <4>2. CASE U # T
        <5>1. Solves(G(U), f, U) /\ h[U] = G(U)[U]
          BY <3>2, <4>2, Zenon
        <5> HIDE DEF G, h
        <5>2. CASE U = {}
          BY <5>1, <5>2, <1>SolutionAt
        <5>3. CASE U # {}
          <6>1. PICK x \in U : x = (CHOOSE y \in U : TRUE) /\ G(U)[U] = f[x] + G(U)[U \ {x}]
            BY <5>1, <5>3, <1>SolutionAt
          <6>2. U \ {x} \in SUBSET U /\ U \ {x} \in SUBSET T /\ U \ {x} # T
            BY Zenon
          <6>3. G(U)[U \ {x}] = G(U \ {x})[U \ {x}]
            BY <3>3, <4>2, <6>2, Zenon
          <6>4. h[U \ {x}] = G(U \ {x})[U \ {x}]
            BY <6>2, Zenon DEF h
          <6> QED
            BY <5>1, <5>3, <6>1, <6>3, <6>4, Zenon
        <5> QED
          BY <5>2, <5>3, Zenon
      <4> QED
        BY <4>1, <4>2, Zenon
    <3>5. Solves(h, f, T)
      <4> HIDE DEF h, B, G, c
      <4>1. h = [U \in SUBSET T |-> h[U]]
        BY Zenon DEF h
      <4>2. h = SumStep(f, T, h)
        BY <3>4, <4>1, Zenon DEF SumStep
      <4> QED
        BY <4>2, Zenon DEF Solves
    <3> HIDE DEF h
    <3> QED
      BY <3>1, <3>5, Zenon
  <2>2. S \in SUBSET S
    BY Zenon
  <2> QED
    BY <2>1, <2>2, Zenon
<1> SUFFICES ASSUME NEW f, NEW S, IsFiniteSet(S)
             PROVE  /\ Sum(f, {}) = 0
                    /\ S # {} => \E x \in S : x = (CHOOSE y \in S : TRUE) /\ Sum(f, S) = f[x] + Sum(f, S \ {x})
  BY Zenon
<1> DEFINE G(U) == CHOOSE g : Solves(g, f, U)
<1>1. ASSUME NEW U, IsFiniteSet(U) PROVE Solves(G(U), f, U) /\ Sum(f, U) = G(U)[U]
  BY <1>1, <1>SolutionExists, Zenon DEF Sum
<1> HIDE DEF G
<1>2. IsFiniteSet({})
  BY FS_EmptySet, Zenon
<1>3. Sum(f, {}) = 0
  BY <1>1, <1>2, <1>SolutionAt
<1>4. ASSUME S # {}
      PROVE  \E x \in S : x = (CHOOSE y \in S : TRUE) /\ Sum(f, S) = f[x] + Sum(f, S \ {x})
  <2>1. PICK x \in S : x = (CHOOSE y \in S : TRUE) /\ G(S)[S] = f[x] + G(S)[S \ {x}]
    BY <1>1, <1>4, <1>SolutionAt
  <2> DEFINE V == S \ {x}
             r == [X \in SUBSET V |-> G(S)[X]]
  <2>2. V \in SUBSET S /\ V \in SUBSET V /\ IsFiniteSet(V)
    BY FS_Subset, Zenon
  <2>3. Solves(r, f, V) /\ Solves(G(V), f, V)
    BY <1>1, <2>2, <1>SolutionRestricts, Zenon
  <2>4. r[V] = G(S)[V]
    BY <2>2, Zenon
  <2>5. r[V] = G(V)[V]
    <3> HIDE DEF r, V
    <3> QED
      BY <2>2, <2>3, <1>SolutionUnique
  <2>6. Sum(f, V) = G(V)[V] /\ Sum(f, S) = G(S)[S]
    BY <1>1, <2>2, Zenon
  <2> QED
    BY <2>1, <2>4, <2>5, <2>6, Zenon
<1> QED
  BY <1>3, <1>4, Zenon

\* The sum of integers is one.
LEMMA SumType ==
  ASSUME NEW f, NEW S, IsFiniteSet(S), \A x \in S : f[x] \in Int
  PROVE  /\ Sum(f, S) \in Int
         /\ (\A x \in S : f[x] >= 0) => Sum(f, S) >= 0
<1> DEFINE Good(T) == Sum(f, T) \in Int /\ ((\A x \in S : f[x] >= 0) => Sum(f, T) >= 0)
           B == {T \in SUBSET S : ~Good(T)}
<1>1. B = {}
  <2> SUFFICES ASSUME B # {} PROVE FALSE
    BY Zenon
  <2>1. PICK T \in B : \A U \in B : U \subseteq T => U = T
    <3> HIDE DEF B
    <3>1. B \in SUBSET SUBSET S
      BY Zenon DEF B
    <3> QED
      BY <3>1, SmallestSet
  <2>2. T \in SUBSET S /\ IsFiniteSet(T)
    BY FS_Subset, Zenon
  <2>3. T # {}
    <3>1. Sum(f, {}) = 0
      BY <2>2, SumAtChoice, Zenon
    <3>2. Good({})
      BY <3>1
    <3> QED
      BY <3>2, Zenon
  <2>4. PICK x \in T : Sum(f, T) = f[x] + Sum(f, T \ {x})
    BY <2>2, <2>3, SumAtChoice
  <2>5. T \ {x} \in SUBSET S /\ T \ {x} \subseteq T /\ T \ {x} # T
    BY Zenon
  <2>6. Good(T \ {x})
    BY <2>1, <2>5, Zenon
  <2>7. Good(T)
    <3> DEFINE s == Sum(f, T \ {x})
    <3>1. f[x] \in Int /\ s \in Int /\ x \in S
      BY <2>2, <2>6, Zenon
    <3>2. (\A y \in S : f[y] >= 0) => s >= 0 /\ f[x] >= 0
      BY <2>6, <3>1, Zenon
    <3> HIDE DEF s, B
    <3>3. f[x] + s \in Int /\ ((\A y \in S : f[y] >= 0) => f[x] + s >= 0)
      BY <3>1, <3>2
    <3> QED
      BY <2>4, <3>3, Zenon DEF s
  <2> QED
    BY <2>7, Zenon
<1>2. Good(S)
  BY <1>1, Zenon
<1> QED
  BY <1>2, Zenon

\* It is taken apart at any element.
LEMMA SumRemove ==
  ASSUME NEW f, NEW S, IsFiniteSet(S), \A x \in S : f[x] \in Int, NEW x \in S
  PROVE  Sum(f, S) = f[x] + Sum(f, S \ {x})
<1> DEFINE Good(T) == \A z \in T : Sum(f, T) = f[z] + Sum(f, T \ {z})
           B == {T \in SUBSET S : ~Good(T)}
<1>1. B = {}
  <2> SUFFICES ASSUME B # {} PROVE FALSE
    BY Zenon
  <2>1. PICK T \in B : \A U \in B : U \subseteq T => U = T
    <3> HIDE DEF B
    <3>1. B \in SUBSET SUBSET S
      BY Zenon DEF B
    <3> QED
      BY <3>1, SmallestSet
  <2>2. T \in SUBSET S /\ IsFiniteSet(T)
    BY FS_Subset, Zenon
  <2>3. PICK z \in T : Sum(f, T) # f[z] + Sum(f, T \ {z})
    BY <2>1, Zenon
  <2>4. PICK c \in T : Sum(f, T) = f[c] + Sum(f, T \ {c})
    BY <2>2, <2>3, SumAtChoice
  <2>5. c # z
    BY <2>3, <2>4, Zenon
  <2>6. ASSUME NEW y \in T PROVE T \ {y} \in SUBSET S /\ T \ {y} # T /\ Good(T \ {y})
    <3>1. T \ {y} \in SUBSET S /\ T \ {y} \subseteq T /\ T \ {y} # T
      BY Zenon
    <3>2. T \ {y} \notin B
      BY <2>1, <3>1, Zenon
    <3> QED
      BY <3>1, <3>2, Zenon
  <2> HIDE DEF B
  <2>7. Sum(f, T \ {c}) = f[z] + Sum(f, (T \ {c}) \ {z})
    BY <2>5, <2>6, Zenon
  <2>8. Sum(f, T \ {z}) = f[c] + Sum(f, (T \ {z}) \ {c})
    BY <2>5, <2>6, Zenon
  <2>9. (T \ {c}) \ {z} = (T \ {z}) \ {c}
    BY Zenon
  <2>10. Sum(f, (T \ {z}) \ {c}) \in Int /\ f[c] \in Int /\ f[z] \in Int
    <3>1. IsFiniteSet((T \ {z}) \ {c})
      BY <2>2, FS_Subset, Zenon
    <3> QED
      BY <2>2, <3>1, SumType, Zenon
  <2>11. f[c] + (f[z] + Sum(f, (T \ {z}) \ {c})) = f[z] + (f[c] + Sum(f, (T \ {z}) \ {c}))
    BY <2>10
  <2> HIDE DEF Good
  <2> QED
    BY <2>3, <2>4, <2>7, <2>8, <2>9, <2>11, Zenon
<1>2. Good(S)
  BY <1>1, Zenon
<1> QED
  BY <1>2, Zenon

\* It depends on the summands alone.
LEMMA SumSame ==
  ASSUME NEW f, NEW g, NEW S, IsFiniteSet(S), \A x \in S : f[x] = g[x]
  PROVE  Sum(f, S) = Sum(g, S)
<1> DEFINE B == {T \in SUBSET S : Sum(f, T) # Sum(g, T)}
<1>1. B = {}
  <2> SUFFICES ASSUME B # {} PROVE FALSE
    BY Zenon
  <2>1. PICK T \in B : \A U \in B : U \subseteq T => U = T
    <3> HIDE DEF B
    <3>1. B \in SUBSET SUBSET S
      BY Zenon DEF B
    <3> QED
      BY <3>1, SmallestSet
  <2>2. T \in SUBSET S /\ IsFiniteSet(T)
    BY FS_Subset, Zenon
  <2>3. T # {}
    BY <2>2, SumAtChoice, Zenon
  <2>4. PICK x \in T : x = (CHOOSE y \in T : TRUE) /\ Sum(f, T) = f[x] + Sum(f, T \ {x})
    BY <2>2, <2>3, SumAtChoice, Zenon
  <2>5. PICK z \in T : z = (CHOOSE y \in T : TRUE) /\ Sum(g, T) = g[z] + Sum(g, T \ {z})
    BY <2>2, <2>3, SumAtChoice, Zenon
  <2>6. Sum(g, T) = g[x] + Sum(g, T \ {x})
    BY <2>4, <2>5, Zenon
  <2>7. T \ {x} \in SUBSET S /\ T \ {x} \subseteq T /\ T \ {x} # T
    BY Zenon
  <2>8. Sum(f, T \ {x}) = Sum(g, T \ {x}) /\ f[x] = g[x]
    BY <2>1, <2>7, Zenon
  <2> QED
    BY <2>4, <2>6, <2>8, Zenon
<1> QED
  BY <1>1, Zenon

\* Summands may be added before or after.
LEMMA SumPlus ==
  ASSUME NEW f, NEW g, NEW h, NEW S, IsFiniteSet(S),
         \A x \in S : f[x] \in Int /\ g[x] \in Int /\ h[x] = f[x] + g[x]
  PROVE  Sum(h, S) = Sum(f, S) + Sum(g, S)
<1> DEFINE B == {T \in SUBSET S : Sum(h, T) # Sum(f, T) + Sum(g, T)}
<1>1. B = {}
  <2> SUFFICES ASSUME B # {} PROVE FALSE
    BY Zenon
  <2>1. PICK T \in B : \A U \in B : U \subseteq T => U = T
    <3> HIDE DEF B
    <3>1. B \in SUBSET SUBSET S
      BY Zenon DEF B
    <3> QED
      BY <3>1, SmallestSet
  <2>2. T \in SUBSET S /\ IsFiniteSet(T) /\ \A x \in T : f[x] \in Int /\ g[x] \in Int /\ h[x] = f[x] + g[x]
    BY FS_Subset, Zenon
  <2>3. T # {}
    <3>1. Sum(h, {}) = 0 /\ Sum(f, {}) = 0 /\ Sum(g, {}) = 0
      BY <2>2, SumAtChoice, Zenon
    <3>2. Sum(h, {}) = Sum(f, {}) + Sum(g, {})
      BY <3>1
    <3> QED
      BY <3>2, Zenon
  <2>4. PICK x \in T : TRUE
    BY <2>3, Zenon
  <2>5. T \ {x} \in SUBSET S /\ T \ {x} \subseteq T /\ T \ {x} # T /\ IsFiniteSet(T \ {x})
    BY <2>2, FS_Subset, Zenon
  <2>6. Sum(h, T \ {x}) = Sum(f, T \ {x}) + Sum(g, T \ {x})
    BY <2>1, <2>5, Zenon
  <2> HIDE DEF B
  <2>7. \A y \in T : h[y] \in Int
    BY <2>2
  <2>8. Sum(f, T) = f[x] + Sum(f, T \ {x}) /\ Sum(g, T) = g[x] + Sum(g, T \ {x})
    BY <2>2, SumRemove
  <2>9. Sum(h, T) = h[x] + Sum(h, T \ {x})
    BY <2>2, <2>7, SumRemove
  <2>10. Sum(f, T \ {x}) \in Int /\ Sum(g, T \ {x}) \in Int /\ f[x] \in Int /\ g[x] \in Int /\ h[x] = f[x] + g[x]
    BY <2>2, <2>5, SumType, Zenon
  <2>11. Sum(h, T) = Sum(f, T) + Sum(g, T)
    BY <2>6, <2>8, <2>9, <2>10
  <2> QED
    BY <2>11, Zenon DEF B
<1> QED
  BY <1>1, Zenon

\* Nothing adds up to nothing.
LEMMA SumZero ==
  ASSUME NEW f, NEW S, IsFiniteSet(S), \A x \in S : f[x] = 0
  PROVE  Sum(f, S) = 0
<1>0. \A x \in S : f[x] \in Int
  OBVIOUS
<1>1. \A x \in S : f[x] \in Int /\ f[x] \in Int /\ f[x] = f[x] + f[x]
  OBVIOUS
<1>2. Sum(f, S) = Sum(f, S) + Sum(f, S)
  BY <1>1, SumPlus
<1>3. Sum(f, S) \in Int
  BY <1>0, SumType, Zenon
<1>4. \A s \in Int : s = s + s => s = 0
  OBVIOUS
<1> QED
  BY <1>2, <1>3, <1>4, Zenon

\* Summands of zero can be left out.
LEMMA SumWithin ==
  \A f, D, S :
      /\ IsFiniteSet(S)
      /\ D \subseteq S
      /\ \A x \in S : f[x] \in Int
      /\ \A x \in S \ D : f[x] = 0
      => Sum(f, S) = Sum(f, D)
\* The sum over two sets with nothing in common.
<1>SumUnion.
    ASSUME NEW f, NEW D, NEW S, IsFiniteSet(D), IsFiniteSet(S), D \cap S = {},
           \A x \in D \cup S : f[x] \in Int
    PROVE  Sum(f, D \cup S) = Sum(f, D) + Sum(f, S)
  <2> USE <1>SumUnion
  <2> DEFINE B == {T \in SUBSET S : Sum(f, D \cup T) # Sum(f, D) + Sum(f, T)}
  <2>0. Sum(f, D) \in Int
    BY SumType, Zenon
  <2>1. B = {}
    <3> SUFFICES ASSUME B # {} PROVE FALSE
      BY Zenon
    <3>1. PICK T \in B : \A U \in B : U \subseteq T => U = T
      <4> HIDE DEF B
      <4>1. B \in SUBSET SUBSET S
        BY Zenon DEF B
      <4> QED
        BY <4>1, SmallestSet
    <3>2. T \in SUBSET S /\ IsFiniteSet(T) /\ \A x \in T : f[x] \in Int
      BY FS_Subset, Zenon
    <3>3. T # {}
      <4>1. Sum(f, {}) = 0
        BY <3>2, SumAtChoice, Zenon
      <4>2. Sum(f, D) = Sum(f, D) + Sum(f, {})
        BY <2>0, <4>1
      <4>3. D \cup {} = D
        BY Zenon
      <4> QED
        BY <4>2, <4>3, Zenon
    <3>4. PICK x \in T : TRUE
      BY <3>3, Zenon
    <3>5. T \ {x} \in SUBSET S /\ T \ {x} \subseteq T /\ T \ {x} # T /\ IsFiniteSet(T \ {x})
      BY <3>2, FS_Subset, Zenon
    <3>6. Sum(f, D \cup (T \ {x})) = Sum(f, D) + Sum(f, T \ {x})
      BY <3>1, <3>5, Zenon
    <3> HIDE DEF B
    <3>7. Sum(f, T) = f[x] + Sum(f, T \ {x})
      BY <3>2, SumRemove
    <3>8. /\ IsFiniteSet(D \cup T) /\ x \in D \cup T /\ (D \cup T) \ {x} = D \cup (T \ {x})
          /\ \A y \in D \cup T : f[y] \in Int
      <4>1. IsFiniteSet(D \cup T)
        BY <3>2, FS_Union, Zenon
      <4> QED
        BY <3>2, <4>1, Zenon
    <3>9. Sum(f, D \cup T) = f[x] + Sum(f, (D \cup T) \ {x})
      <4> DEFINE E == D \cup T
      <4> HIDE DEF E
      <4>1. IsFiniteSet(E) /\ x \in E /\ \A y \in E : f[y] \in Int
        BY <3>8, Zenon DEF E
      <4>2. Sum(f, E) = f[x] + Sum(f, E \ {x})
        BY <4>1, SumRemove
      <4> QED
        BY <4>2, Zenon DEF E
    <3>10. Sum(f, T \ {x}) \in Int /\ f[x] \in Int
      BY <3>2, <3>5, SumType, Zenon
    <3>11. f[x] + (Sum(f, D) + Sum(f, T \ {x})) = Sum(f, D) + (f[x] + Sum(f, T \ {x}))
      BY <2>0, <3>10
    <3> QED
      BY <3>6, <3>7, <3>8, <3>9, <3>11, Zenon DEF B
  <2>2. S \notin B
    BY <2>1, Zenon
  <2> QED
    BY <2>2, Zenon
<1> SUFFICES ASSUME NEW f, NEW D, NEW S, IsFiniteSet(S), D \subseteq S,
                    \A x \in S : f[x] \in Int, \A x \in S \ D : f[x] = 0
             PROVE  Sum(f, S) = Sum(f, D)
  BY Zenon
<1> DEFINE E == S \ D
<1>1. IsFiniteSet(D) /\ IsFiniteSet(E) /\ D \cap E = {} /\ D \cup E = S
  BY FS_Subset, Zenon
<1>2. \A x \in E : f[x] = 0
  BY Zenon
<1> HIDE DEF E
<1>3. Sum(f, E) = 0
  BY <1>1, <1>2, SumZero, Zenon
<1>4. \A x \in D \cup E : f[x] \in Int
  BY <1>1, Zenon
<1>5. Sum(f, D \cup E) = Sum(f, D) + Sum(f, E)
  BY <1>1, <1>4, <1>SumUnion, Zenon
<1>6. Sum(f, D) \in Int
  BY <1>1, <1>4, SumType, Zenon
<1>7. \A s \in Int : s + 0 = s
  OBVIOUS
<1> QED
  BY <1>1, <1>3, <1>5, <1>6, <1>7, Zenon

-----------------------------------------------------------------------------
(* Totals.  What the addresses hold of a property, in balances and in the  *)
(* reserve of the exchange.                                                *)

\* What an address holds of p, and what all of them hold together.
Hold(bal, res, p) == [a \in Address |-> Holding(bal, res, a, p)]

Tot(bal, res, p) == Sum(Hold(bal, res, p), Address)

\* Amounts of the slots.
Tally == [Slot -> Int]

NatTally == [Slot -> Nat]

\* The entries of a tally.
LEMMA TallyAt ==
  ASSUME NEW t, NEW a \in Address, NEW p \in Property
  PROVE  /\ <<a, p>> \in Slot
         /\ t \in Tally => t[<<a, p>>] \in Int
         /\ t \in NatTally => t[<<a, p>>] \in Nat /\ t \in Tally
<1>1. <<a, p>> \in Slot
  BY Zenon DEF Slot
<1>2. ASSUME t \in NatTally PROVE t \in Tally
  BY <1>2 DEF Tally, NatTally
<1> QED
  BY <1>1, <1>2, Zenon DEF Tally, NatTally

\* What an address holds.
LEMMA HoldAt ==
  ASSUME NEW bal \in Tally, NEW res \in Tally, NEW a \in Address, NEW p \in Property
  PROVE  /\ Hold(bal, res, p)[a] = bal[<<a, p>>] + res[<<a, p>>]
         /\ Hold(bal, res, p)[a] \in Int
         /\ bal \in NatTally /\ res \in NatTally => Hold(bal, res, p)[a] >= 0
<1>1. Hold(bal, res, p)[a] = bal[<<a, p>>] + res[<<a, p>>]
  BY Zenon DEF Hold, Holding
<1>2. bal[<<a, p>>] \in Int /\ res[<<a, p>>] \in Int
  BY TallyAt, Zenon
<1>3. ASSUME bal \in NatTally, res \in NatTally PROVE bal[<<a, p>>] \in Nat /\ res[<<a, p>>] \in Nat
  BY <1>3, TallyAt, Zenon
<1> HIDE DEF Holding
<1> QED
  BY <1>1, <1>2, <1>3

\* A total is a number, and of natural amounts a natural one.
LEMMA TotType ==
  ASSUME NEW bal \in Tally, NEW res \in Tally, NEW p \in Property
  PROVE  /\ Tot(bal, res, p) \in Int
         /\ bal \in NatTally /\ res \in NatTally => Tot(bal, res, p) >= 0
<1>1. \A a \in Address : Hold(bal, res, p)[a] \in Int
  BY HoldAt, Zenon
<1>2. ASSUME bal \in NatTally, res \in NatTally PROVE \A a \in Address : Hold(bal, res, p)[a] >= 0
  BY <1>2, HoldAt, Zenon
<1> QED
  BY <1>1, <1>2, AddressesFinite, SumType, Zenon DEF Tot

\* What the addresses gain changes the total.
LEMMA TotMoved ==
  ASSUME NEW bal \in Tally, NEW res \in Tally, NEW bal2 \in Tally, NEW res2 \in Tally,
         NEW p \in Property, NEW g, \A a \in Address : g[a] \in Int,
         \A a \in Address : bal2[<<a, p>>] + res2[<<a, p>>] = (bal[<<a, p>>] + res[<<a, p>>]) + g[a]
  PROVE  Tot(bal2, res2, p) = Tot(bal, res, p) + Sum(g, Address)
<1> DEFINE f == Hold(bal, res, p)
           h == Hold(bal2, res2, p)
<1>1. \A a \in Address : f[a] \in Int /\ g[a] \in Int /\ h[a] = f[a] + g[a]
  BY HoldAt, Zenon
<1> HIDE DEF f, h
<1>2. Sum(h, Address) = Sum(f, Address) + Sum(g, Address)
  BY <1>1, AddressesFinite, SumPlus
<1> QED
  BY <1>2, Zenon DEF f, h, Tot

\* Where nobody gains, nothing changes.
LEMMA TotSame ==
  ASSUME NEW bal \in Tally, NEW res \in Tally, NEW bal2 \in Tally, NEW res2 \in Tally,
         NEW p \in Property,
         \A a \in Address : bal2[<<a, p>>] + res2[<<a, p>>] = bal[<<a, p>>] + res[<<a, p>>]
  PROVE  Tot(bal2, res2, p) = Tot(bal, res, p)
<1>1. \A a \in Address : Hold(bal2, res2, p)[a] = Hold(bal, res, p)[a]
  <2>1. \A a \in Address : Hold(bal2, res2, p)[a] = bal2[<<a, p>>] + res2[<<a, p>>]
    BY Zenon DEF Hold, Holding
  <2>2. \A a \in Address : Hold(bal, res, p)[a] = bal[<<a, p>>] + res[<<a, p>>]
    BY Zenon DEF Hold, Holding
  <2> QED
    BY <2>1, <2>2, Zenon
<1> QED
  BY <1>1, AddressesFinite, SumSame, Zenon DEF Tot

\* A sum with one summand.
One(who, n) == [a \in Address |-> IF a = who THEN n ELSE 0]

\* The sum of one summand that is not zero.
LEMMA OneSum ==
  \A who \in Address, n \in Int :
         /\ Sum(One(who, n), Address) = n
         /\ \A a \in Address : One(who, n)[a] \in Int
\* What a change of one summand does, and a new one.
<1>SumUpdate.
    ASSUME NEW f, NEW g, NEW S, IsFiniteSet(S), NEW x \in S, NEW d \in Int,
           \A y \in S : f[y] \in Int, g[x] = f[x] + d, \A y \in S \ {x} : g[y] = f[y]
    PROVE  Sum(g, S) = Sum(f, S) + d
  <2> USE <1>SumUpdate
  <2>1. IsFiniteSet(S \ {x})
    BY FS_Subset, Zenon
  <2>2. Sum(f, S \ {x}) \in Int /\ f[x] \in Int
    BY <2>1, SumType, Zenon
  <2>3. \A y \in S : g[y] \in Int
    BY <2>2
  <2>4. Sum(f, S) = f[x] + Sum(f, S \ {x})
    BY SumRemove
  <2>5. Sum(g, S) = g[x] + Sum(g, S \ {x})
    BY <2>3, SumRemove
  <2>6. Sum(g, S \ {x}) = Sum(f, S \ {x})
    BY <2>1, SumSame, Zenon
  <2> QED
    BY <2>2, <2>4, <2>5, <2>6
<1> SUFFICES ASSUME NEW who \in Address, NEW n \in Int
             PROVE  /\ Sum(One(who, n), Address) = n
                    /\ \A a \in Address : One(who, n)[a] \in Int
  BY Zenon
<1> DEFINE z == [a \in Address |-> 0]
           o == One(who, n)
<1>1. \A a \in Address : o[a] = IF a = who THEN n ELSE 0
  BY Zenon DEF One
<1>2. \A a \in Address : z[a] = 0
  BY Zenon
<1> HIDE DEF z, o
<1>3. o[who] = z[who] + n /\ (\A a \in Address \ {who} : o[a] = z[a]) /\ \A a \in Address : z[a] \in Int
  BY <1>1, <1>2
<1>4. Sum(o, Address) = Sum(z, Address) + n
  BY <1>3, AddressesFinite, <1>SumUpdate
<1>5. Sum(z, Address) = 0
  BY <1>2, AddressesFinite, SumZero, Zenon
<1>6. Sum(o, Address) = n
  BY <1>4, <1>5
<1>7. \A a \in Address : o[a] \in Int
  BY <1>1
<1> QED
  BY <1>6, <1>7, Zenon DEF o

\* An amount credited, in its slot and elsewhere.
LEMMA Credited ==
  ASSUME NEW t \in Tally, NEW who \in Address, NEW p \in Property, NEW n \in Int
  PROVE  /\ Credit(t, who, p, n) \in Tally
         /\ Credit(t, who, p, n)[<<who, p>>] = t[<<who, p>>] + n
         /\ \A s \in Slot : s # <<who, p>> => Credit(t, who, p, n)[s] = t[s]
         /\ Debit(t, who, p, n) = Credit(t, who, p, -n)
<1> DEFINE s == <<who, p>>
<1>1. s \in Slot /\ t[s] \in Int
  BY TallyAt, Zenon
<1> HIDE DEF s
<1>2. [t EXCEPT ![s] = @ + n] \in Tally
  BY <1>1 DEF Tally
<1>3. [t EXCEPT ![s] = @ + n][s] = t[s] + n
  BY <1>1, Zenon DEF Tally
<1>4. \A r \in Slot : r # s => [t EXCEPT ![s] = @ + n][r] = t[r]
  BY <1>1, Zenon DEF Tally
<1>5. t[s] - n = t[s] + (-n)
  BY <1>1, Zenon
<1>6. Credit(t, who, p, n) = [t EXCEPT ![s] = @ + n]
  BY Zenon DEF Credit, s
<1>7. Debit(t, who, p, n) = Credit(t, who, p, -n)
  BY <1>5, Zenon DEF Debit, Credit, s
<1> QED
  BY <1>2, <1>3, <1>4, <1>6, <1>7, Zenon DEF s

\* A sum over one element.
LEMMA SumOne ==
  ASSUME NEW f, NEW x, f[x] \in Int
  PROVE  Sum(f, {x}) = f[x]
<1>1. IsFiniteSet({x}) /\ x \in {x} /\ {x} \ {x} = {}
  BY FS_Singleton, Zenon
<1>2. \A y \in {x} : f[y] \in Int
  BY Zenon
<1>3. Sum(f, {x}) = f[x] + Sum(f, {x} \ {x})
  BY <1>1, <1>2, SumRemove, Zenon
<1>4. Sum(f, {}) = 0
  BY <1>1, SumAtChoice, Zenon
<1>5. \A y \in Int : y + 0 = y
  OBVIOUS
<1> QED
  BY <1>1, <1>3, <1>4, <1>5, Zenon

-----------------------------------------------------------------------------
(* Distributions to owners.  They are served one after the other, the      *)
(* largest first, until the amount is used up.                             *)

\* b is served before a, by the holdings h.
Precedes(h, b, a) == h[b] > h[a] \/ (h[b] = h[a] /\ b < a)

Bef(O, h, a) == {b \in O : Precedes(h, b, a)}

\* The parts of STO_GetReceivers.
OwnersOf(bal, res, X, p) == {a \in Address \ X : Holding(bal, res, a, p) > 0}

HeldBy(bal, res, X, p) == SumOver(OwnersOf(bal, res, X, p), LAMBDA a : Holding(bal, res, a, p))

PieceOf(bal, res, X, p, n, a) == DivideAndRoundUp(Holding(bal, res, a, p) * n, HeldBy(bal, res, X, p))

BeforeOf(bal, res, X, p, a) ==
    {b \in OwnersOf(bal, res, X, p) :
        \/ Holding(bal, res, b, p) > Holding(bal, res, a, p)
        \/ /\ Holding(bal, res, b, p) = Holding(bal, res, a, p)
           /\ b < a}

PiecesOf(bal, res, X, p, n) == [a \in OwnersOf(bal, res, X, p) |-> PieceOf(bal, res, X, p, n, a)]

\* All of the amount is distributed, unless there is no owner to get it.
LEMMA SharesOf ==
  \A bal \in NatTally, res \in NatTally : \A X : \A p \in Property, n \in Nat : \A share, O :
      /\ share = STO_GetReceivers(bal, res, X, p, n)
      /\ O = OwnersOf(bal, res, X, p)
      => /\ DOMAIN share = O /\ O \subseteq Address \ X /\ IsFiniteSet(O)
         /\ \A a \in O : share[a] \in Nat
         /\ O # {} => Sum(share, O) = n
\* The shares of all owners are the amount, or what all of them may get.
<1>SharesAddUp.
    \A O, h, g : \A A \in Nat : \A share :
        /\ IsFiniteSet(O)
        /\ \A a \in O : a \in Int /\ h[a] \in Int
        /\ \A a \in O : g[a] \in Nat
        /\ \A a \in O : share[a] = Max2(0, Min2(g[a], A - Sum(g, Bef(O, h, a))))
        => /\ \A a \in O : share[a] \in Nat
           /\ Sum(share, O) = Min2(A, Sum(g, O))
  \* The owners are in a linear order.
  <2>OrderIsLinear.
      ASSUME NEW O, NEW h, \A a \in O : a \in Int /\ h[a] \in Int
      PROVE  /\ \A a, b \in O : a # b => Precedes(h, a, b) \/ Precedes(h, b, a)
             /\ \A a, b \in O : Precedes(h, a, b) => ~Precedes(h, b, a) /\ a # b
             /\ \A a, b, c \in O : Precedes(h, a, b) /\ Precedes(h, b, c) => Precedes(h, a, c)
    BY <2>OrderIsLinear DEF Precedes
  \* One of them is the last.
  <2>LastOwner.
      ASSUME NEW O, NEW h, \A a \in O : a \in Int /\ h[a] \in Int, IsFiniteSet(O), O # {}
      PROVE  \E a \in O : \A b \in O \ {a} : Precedes(h, b, a)
    <3> USE <2>LastOwner
    <3> DEFINE B == {T \in SUBSET O : T # {} /\ ~ \E a \in T : \A b \in T \ {a} : Precedes(h, b, a)}
    <3>1. B = {}
      <4> SUFFICES ASSUME B # {} PROVE FALSE
        BY Zenon
      <4>1. PICK T \in B : \A U \in B : U \subseteq T => U = T
        <5> HIDE DEF B
        <5>1. B \in SUBSET SUBSET O
          BY Zenon DEF B
        <5> QED
          BY <5>1, SmallestSet
      <4>2. PICK x \in T : TRUE
        BY Zenon
      <4>3. T \ {x} # {}
        <5>1. ASSUME T \ {x} = {} PROVE \A b \in T \ {x} : Precedes(h, b, x)
          BY <5>1, Zenon
        <5> QED
          BY <5>1, Zenon
      <4>4. T \ {x} \in SUBSET O /\ T \ {x} \subseteq T /\ T \ {x} # T
        BY Zenon
      <4>5. PICK a \in T \ {x} : \A b \in (T \ {x}) \ {a} : Precedes(h, b, a)
        BY <4>1, <4>3, <4>4, Zenon
      <4>6. x \in O /\ a \in O /\ T \subseteq O
        BY Zenon
      <4>7. CASE Precedes(h, x, a)
        <5>1. \A b \in T \ {a} : Precedes(h, b, a)
          BY <4>5, <4>7, Zenon
        <5> QED
          BY <5>1, Zenon
      <4>8. CASE Precedes(h, a, x)
        <5>1. ASSUME NEW b \in T \ {x} PROVE Precedes(h, b, x)
          <6>1. CASE b = a
            BY <4>8, <6>1, Zenon
          <6>2. CASE b # a
            BY <4>5, <4>6, <4>8, <6>2, <2>OrderIsLinear, Zenon
          <6> QED
            BY <6>1, <6>2, Zenon
        <5> QED
          BY <5>1, Zenon
      <4> QED
        BY <4>6, <4>7, <4>8, <2>OrderIsLinear, Zenon
    <3> QED
      BY <3>1, Zenon
  \* A sum in which the share of the last owner is what the others leave.
  <2>LastShare.
      ASSUME NEW A \in Nat, NEW s \in Nat, NEW g \in Nat
      PROVE  /\ Max2(0, Min2(g, A - s)) \in Nat
             /\ Max2(0, Min2(g, A - s)) + Min2(A, s) = Min2(A, g + s)
    BY DEF Max2, Min2
  <2> SUFFICES ASSUME NEW O, IsFiniteSet(O), NEW h, \A a \in O : a \in Int /\ h[a] \in Int,
                      NEW g, \A a \in O : g[a] \in Nat, NEW A \in Nat,
                      NEW share, \A a \in O : share[a] = Max2(0, Min2(g[a], A - Sum(g, Bef(O, h, a))))
               PROVE  /\ \A a \in O : share[a] \in Nat
                      /\ Sum(share, O) = Min2(A, Sum(g, O))
    OBVIOUS
  <2>0. \A T \in SUBSET O : IsFiniteSet(T) /\ Sum(g, T) \in Nat
    <3> SUFFICES ASSUME NEW T \in SUBSET O PROVE IsFiniteSet(T) /\ Sum(g, T) \in Nat
      BY Zenon
    <3>1. IsFiniteSet(T)
      BY FS_Subset, Zenon
    <3>2. \A a \in T : g[a] \in Int /\ g[a] >= 0
      OBVIOUS
    <3>3. Sum(g, T) \in Int /\ Sum(g, T) >= 0
      BY <3>1, <3>2, SumType, Zenon
    <3> QED
      BY <3>1, <3>3
  <2>1. \A a \in O : share[a] \in Nat
    <3> SUFFICES ASSUME NEW a \in O PROVE share[a] \in Nat
      BY Zenon
    <3>1. Bef(O, h, a) \in SUBSET O
      BY Zenon DEF Bef
    <3>2. Sum(g, Bef(O, h, a)) \in Nat /\ g[a] \in Nat
      BY <2>0, <3>1, Zenon
    <3>3. share[a] = Max2(0, Min2(g[a], A - Sum(g, Bef(O, h, a))))
      BY Zenon
    <3>4. Max2(0, Min2(g[a], A - Sum(g, Bef(O, h, a)))) \in Nat
      BY <3>2, <2>LastShare, Zenon
    <3> QED
      BY <3>3, <3>4, Zenon
  <2> DEFINE Prefix(T) == \A a \in T : Bef(O, h, a) \subseteq T
             B == {T \in SUBSET O : Prefix(T) /\ Sum(share, T) # Min2(A, Sum(g, T))}
  <2>2. B = {}
    <3> SUFFICES ASSUME B # {} PROVE FALSE
      BY Zenon
    <3>1. PICK T \in B : \A U \in B : U \subseteq T => U = T
      <4> HIDE DEF B
      <4>1. B \in SUBSET SUBSET O
        BY Zenon DEF B
      <4> QED
        BY <4>1, SmallestSet
    <3>2. /\ T \in SUBSET O /\ IsFiniteSet(T) /\ Prefix(T)
          /\ Sum(share, T) # Min2(A, Sum(g, T))
      BY <2>0, Zenon
    <3>3. T # {}
      <4>1. Sum(share, {}) = 0 /\ Sum(g, {}) = 0
        BY <3>2, SumAtChoice, Zenon
      <4>2. Min2(A, 0) = 0
        BY DEF Min2
      <4> QED
        BY <3>2, <4>1, <4>2, Zenon
    <3>4. PICK a \in T : \A b \in T \ {a} : Precedes(h, b, a)
      <4> HIDE DEF B
      <4>1. \A x \in T : x \in Int /\ h[x] \in Int
        BY <3>2, Zenon
      <4> QED
        BY <3>2, <3>3, <4>1, <2>LastOwner, Zenon
    <3>5. a \in O /\ T \ {a} \in SUBSET O /\ T \ {a} # T /\ T \ {a} \subseteq T
      BY <3>2, Zenon
    <3>6. Bef(O, h, a) = T \ {a}
      <4>1. a \notin Bef(O, h, a)
        BY <3>5, <2>OrderIsLinear, Zenon DEF Bef
      <4>2. Bef(O, h, a) \subseteq T
        BY <3>2, Zenon
      <4>3. T \ {a} \subseteq Bef(O, h, a)
        BY <3>4, <3>5, Zenon DEF Bef
      <4> QED
        BY <4>1, <4>2, <4>3, Zenon
    <3>7. Prefix(T \ {a})
      <4> SUFFICES ASSUME NEW c \in T \ {a}, NEW b \in Bef(O, h, c) PROVE b \in T \ {a}
        BY Zenon
      <4>1. b \in T /\ b \in O /\ Precedes(h, b, c) /\ c \in O
        BY <3>2, Zenon DEF Bef
      <4>2. Precedes(h, c, a)
        BY <3>4, Zenon
      <4>3. b # a
        BY <3>5, <4>1, <4>2, <2>OrderIsLinear, Zenon
      <4> QED
        BY <4>1, <4>3, Zenon
    <3>8. Sum(share, T \ {a}) = Min2(A, Sum(g, T \ {a}))
      BY <3>1, <3>5, <3>7, Zenon
    <3> HIDE DEF B, Prefix
    <3>9. \A x \in T : share[x] \in Int /\ g[x] \in Int
      BY <2>1, <3>2
    <3>10. Sum(share, T) = share[a] + Sum(share, T \ {a})
      BY <3>2, <3>9, SumRemove
    <3>11. Sum(g, T) = g[a] + Sum(g, T \ {a})
      BY <3>2, <3>9, SumRemove
    <3>12. g[a] \in Nat /\ Sum(g, T \ {a}) \in Nat
      BY <2>0, <3>5, Zenon
    <3>13. share[a] = Max2(0, Min2(g[a], A - Sum(g, T \ {a})))
      BY <3>5, <3>6, Zenon
    <3>14. Max2(0, Min2(g[a], A - Sum(g, T \ {a}))) + Min2(A, Sum(g, T \ {a})) = Min2(A, g[a] + Sum(g, T \ {a}))
      BY <3>12, <2>LastShare, Zenon
    <3> QED
      BY <3>2, <3>8, <3>10, <3>11, <3>13, <3>14, Zenon
  <2>3. Prefix(O)
    BY Zenon DEF Bef
  <2>4. Sum(share, O) = Min2(A, Sum(g, O))
    BY <2>2, <2>3, Zenon
  <2> QED
    BY <2>1, <2>4, Zenon
\* STO_GetReceivers in these terms.
<1>ReceiversAre.
    ASSUME NEW bal, NEW res, NEW X, NEW p, NEW n
    PROVE  STO_GetReceivers(bal, res, X, p, n) =
             [a \in OwnersOf(bal, res, X, p) |->
                Max2(0, Min2(PieceOf(bal, res, X, p, n, a),
                             n - SumOver(BeforeOf(bal, res, X, p, a),
                                         LAMBDA b : PieceOf(bal, res, X, p, n, b))))]
    BY Zenon DEF STO_GetReceivers, OwnersOf, PieceOf, BeforeOf, HeldBy
\* The sums of STO_GetReceivers, over functions.
<1>PiecesAreSums.
    ASSUME NEW bal, NEW res, NEW X, NEW p, NEW n
    PROVE  /\ HeldBy(bal, res, X, p) = Sum(Hold(bal, res, p), OwnersOf(bal, res, X, p))
           /\ \A a \in OwnersOf(bal, res, X, p) :
                SumOver(BeforeOf(bal, res, X, p, a), LAMBDA b : PieceOf(bal, res, X, p, n, b))
                  = Sum(PiecesOf(bal, res, X, p, n), BeforeOf(bal, res, X, p, a))
  <2> DEFINE O == OwnersOf(bal, res, X, p)
  <2>0. O \subseteq Address /\ IsFiniteSet(O)
    <3>1. O \subseteq Address
      BY Zenon DEF OwnersOf
    <3> QED
      BY <3>1, AddressesFinite, FS_Subset, Zenon
  <2>1. HeldBy(bal, res, X, p) = Sum(Hold(bal, res, p), O)
    <3> DEFINE f == [a \in O |-> Holding(bal, res, a, p)]
    <3>1. HeldBy(bal, res, X, p) = Sum(f, O)
      BY ZenonT(30) DEF HeldBy, SumOver, MapThenSumSet, MapThenFoldSet, Sum, Solves, SumStep
    <3>2. \A a \in O : f[a] = Hold(bal, res, p)[a]
      BY <2>0, Zenon DEF Hold
    <3> HIDE DEF f, O
    <3>3. Sum(f, O) = Sum(Hold(bal, res, p), O)
      BY <2>0, <3>2, SumSame, Zenon
    <3> QED
      BY <3>1, <3>3, Zenon
  <2>2. ASSUME NEW a \in O
        PROVE  SumOver(BeforeOf(bal, res, X, p, a), LAMBDA b : PieceOf(bal, res, X, p, n, b))
                  = Sum(PiecesOf(bal, res, X, p, n), BeforeOf(bal, res, X, p, a))
    <3> DEFINE B == BeforeOf(bal, res, X, p, a)
               f == [b \in B |-> PieceOf(bal, res, X, p, n, b)]
    <3>1. SumOver(B, LAMBDA b : PieceOf(bal, res, X, p, n, b)) = Sum(f, B)
      BY ZenonT(30) DEF SumOver, MapThenSumSet, MapThenFoldSet, Sum, Solves, SumStep
    <3>2. B \subseteq O
      BY Zenon DEF BeforeOf
    <3>3. \A b \in B : f[b] = PiecesOf(bal, res, X, p, n)[b]
      BY <3>2, Zenon DEF PiecesOf
    <3>4. IsFiniteSet(B)
      BY <2>0, <3>2, FS_Subset, Zenon
    <3> HIDE DEF B, f
    <3>5. Sum(f, B) = Sum(PiecesOf(bal, res, X, p, n), B)
      BY <3>3, <3>4, SumSame, Zenon
    <3> QED
      BY <3>1, <3>5, Zenon DEF B
  <2> QED
    BY <2>1, <2>2, Zenon
\* The pieces of all owners cover the amount.
<1>PiecesCover.
    \A O, h : \A n \in Nat : \A g :
        /\ IsFiniteSet(O)
        /\ O # {}
        /\ \A a \in O : h[a] \in Nat \ {0}
        /\ \A a \in O : g[a] = DivideAndRoundUp(h[a] * n, Sum(h, O))
        => /\ \A a \in O : g[a] \in Nat
           /\ n <= Sum(g, O)
  \* Summands may be multiplied before or after.
  <2>SumTimes.
      ASSUME NEW f, NEW h, NEW c \in Int, NEW S, IsFiniteSet(S),
             \A x \in S : f[x] \in Int /\ h[x] = c * f[x]
      PROVE  Sum(h, S) = c * Sum(f, S)
    <3> USE <2>SumTimes
    <3> DEFINE B == {T \in SUBSET S : Sum(h, T) # c * Sum(f, T)}
    <3>1. B = {}
      <4> SUFFICES ASSUME B # {} PROVE FALSE
        BY Zenon
      <4>1. PICK T \in B : \A U \in B : U \subseteq T => U = T
        <5> HIDE DEF B
        <5>1. B \in SUBSET SUBSET S
          BY Zenon DEF B
        <5> QED
          BY <5>1, SmallestSet
      <4>2. T \in SUBSET S /\ IsFiniteSet(T) /\ \A x \in T : f[x] \in Int /\ h[x] = c * f[x]
        BY FS_Subset, Zenon
      <4>3. T # {}
        <5>1. Sum(h, {}) = 0 /\ Sum(f, {}) = 0
          BY <4>2, SumAtChoice, Zenon
        <5>2. Sum(h, {}) = c * Sum(f, {})
          BY <5>1
        <5> QED
          BY <5>2, Zenon
      <4>4. PICK x \in T : TRUE
        BY <4>3, Zenon
      <4>5. T \ {x} \in SUBSET S /\ T \ {x} \subseteq T /\ T \ {x} # T /\ IsFiniteSet(T \ {x})
        BY <4>2, FS_Subset, Zenon
      <4>6. Sum(h, T \ {x}) = c * Sum(f, T \ {x})
        BY <4>1, <4>5, Zenon
      <4> HIDE DEF B
      <4>7. \A y \in T : h[y] \in Int
        BY <4>2
      <4>8. Sum(f, T) = f[x] + Sum(f, T \ {x})
        BY <4>2, SumRemove
      <4>9. Sum(h, T) = h[x] + Sum(h, T \ {x})
        BY <4>2, <4>7, SumRemove
      <4>10. Sum(f, T \ {x}) \in Int /\ f[x] \in Int /\ h[x] = c * f[x]
        BY <4>2, <4>5, SumType, Zenon
      <4>11. Sum(h, T) = c * Sum(f, T)
        <5> DEFINE s == Sum(f, T \ {x})
                   y == f[x]
        <5>1. y \in Int /\ s \in Int
          BY <4>10, Zenon
        <5> HIDE DEF s, y
        <5>2. c * (y + s) = c * y + c * s
          BY <5>1
        <5> QED
          BY <4>6, <4>8, <4>9, <4>10, <5>2, Zenon DEF s, y
      <4> QED
        BY <4>11, Zenon DEF B
    <3> QED
      BY <3>1, Zenon
  \* Larger summands have a larger sum.
  <2>SumGrows.
      ASSUME NEW f, NEW g, NEW S, IsFiniteSet(S), \A x \in S : f[x] \in Int /\ g[x] \in Int /\ f[x] <= g[x]
      PROVE  Sum(f, S) <= Sum(g, S)
    <3> USE <2>SumGrows
    <3> DEFINE d == [x \in S |-> g[x] - f[x]]
    <3>1. \A x \in S : f[x] \in Int /\ d[x] \in Int /\ d[x] >= 0 /\ g[x] = f[x] + d[x]
      OBVIOUS
    <3> HIDE DEF d
    <3>2. Sum(g, S) = Sum(f, S) + Sum(d, S)
      BY <3>1, SumPlus
    <3>3. Sum(d, S) \in Int /\ Sum(d, S) >= 0 /\ Sum(f, S) \in Int
      BY <3>1, SumType, Zenon
    <3> QED
      BY <3>2, <3>3
  <2> SUFFICES ASSUME NEW O, IsFiniteSet(O), O # {}, NEW h, \A a \in O : h[a] \in Nat \ {0}, NEW n \in Nat,
                      NEW g, \A a \in O : g[a] = DivideAndRoundUp(h[a] * n, Sum(h, O))
               PROVE  /\ \A a \in O : g[a] \in Nat
                      /\ n <= Sum(g, O)
    BY Zenon
  <2> DEFINE t == Sum(h, O)
  <2>1. t \in Nat \ {0}
    <3>1. PICK x \in O : TRUE
      BY Zenon
    <3>2. \A a \in O : h[a] \in Int /\ h[a] >= 0
      OBVIOUS
    <3>3. Sum(h, O) = h[x] + Sum(h, O \ {x})
      BY <3>2, SumRemove
    <3>4. IsFiniteSet(O \ {x}) /\ \A a \in O \ {x} : h[a] \in Int /\ h[a] >= 0
      BY <3>2, FS_Subset, Zenon
    <3>5. Sum(h, O \ {x}) \in Int /\ Sum(h, O \ {x}) >= 0
      BY <3>4, SumType, Zenon
    <3>6. h[x] \in Nat \ {0}
      BY Zenon
    <3> QED
      BY <3>3, <3>5, <3>6
  <2>2. \A a \in O : g[a] = DivideAndRoundUp(h[a] * n, t)
    BY Zenon
  <2> HIDE DEF t
  <2>3. CASE n = 0
    <3>1. \A a \in O : h[a] * n = 0
      BY <2>3
    <3>2. \A a \in O : g[a] = 0
      BY <2>2, <3>1, Zenon DEF DivideAndRoundUp
    <3>3. Sum(g, O) = 0
      BY <3>2, SumZero, Zenon
    <3> QED
      BY <2>3, <3>2, <3>3
  <2>4. CASE n # 0
    <3>1. ASSUME NEW a \in O
          PROVE  g[a] \in Nat /\ n * h[a] \in Int /\ t * g[a] \in Int /\ n * h[a] <= t * g[a]
      <4>1. h[a] * n \in Nat \ {0} /\ h[a] * n = n * h[a]
        BY <2>4
      <4>2. g[a] \in Nat /\ g[a] * t >= h[a] * n
        BY <2>1, <2>2, <4>1, Ceiling
      <4>3. g[a] * t = t * g[a] /\ t * g[a] \in Int
        BY <2>1, <4>2
      <4> QED
        BY <4>1, <4>2, <4>3
    <3> DEFINE f1 == [a \in O |-> n * h[a]]
               f2 == [a \in O |-> t * g[a]]
    <3>2. \A a \in O : /\ f1[a] = n * h[a] /\ f2[a] = t * g[a]
      BY Zenon
    <3> HIDE DEF f1, f2
    <3>3. \A a \in O : f1[a] \in Int /\ f2[a] \in Int /\ f1[a] <= f2[a]
      BY <3>1, <3>2, Zenon
    <3>4. Sum(f1, O) <= Sum(f2, O)
      BY <3>3, <2>SumGrows, Zenon
    <3>5. \A a \in O : h[a] \in Int /\ g[a] \in Int
      BY <3>1
    <3>6. Sum(f1, O) = n * Sum(h, O)
      BY <3>2, <3>5, <2>SumTimes
    <3>7. Sum(f2, O) = t * Sum(g, O)
      <4>1. t \in Int /\ \A a \in O : g[a] \in Int /\ f2[a] = t * g[a]
        BY <2>1, <3>2, <3>5
      <4> HIDE DEF t
      <4> QED
        BY <4>1, <2>SumTimes
    <3>8. Sum(g, O) \in Int
      BY <3>5, SumType, Zenon
    <3>9. n * t <= t * Sum(g, O)
      BY <3>4, <3>6, <3>7, Zenon DEF t
    <3>10. \A s \in Int : n * t <= t * s => n <= s
      <4> SUFFICES ASSUME NEW s \in Int, n * t <= t * s, s < n PROVE FALSE
        OBVIOUS
      <4>1. t * s = s * t /\ s * t \in Int /\ n * t \in Int
        BY <2>1
      <4>2. (s + 1) * t <= n * t
        BY <2>1
      <4>3. (s + 1) * t = s * t + t
        BY <2>1
      <4> QED
        BY <2>1, <4>1, <4>2, <4>3
    <3> QED
      BY <3>1, <3>8, <3>9, <3>10, Zenon
  <2> QED
    BY <2>3, <2>4, Zenon
<1> SUFFICES ASSUME NEW bal \in NatTally, NEW res \in NatTally, NEW X, NEW p \in Property, NEW n \in Nat,
                    NEW share, share = STO_GetReceivers(bal, res, X, p, n),
                    NEW O, O = OwnersOf(bal, res, X, p)
             PROVE  /\ DOMAIN share = O /\ O \subseteq Address \ X /\ IsFiniteSet(O)
                    /\ \A a \in O : share[a] \in Nat
                    /\ O # {} => Sum(share, O) = n
  OBVIOUS
<1> DEFINE h == Hold(bal, res, p)
           g == PiecesOf(bal, res, X, p, n)
<1>1. O \subseteq Address \ X /\ IsFiniteSet(O)
  <2>1. O \subseteq Address /\ O \subseteq Address \ X
    BY Zenon DEF OwnersOf
  <2> QED
    BY <2>1, AddressesFinite, FS_Subset, Zenon
<1>2. ASSUME NEW a \in O PROVE a \in Int /\ h[a] \in Nat \ {0} /\ h[a] = Holding(bal, res, a, p)
  <2>1. a \in Address /\ Holding(bal, res, a, p) > 0
    BY Zenon DEF OwnersOf
  <2>2. bal \in Tally /\ res \in Tally
    BY DEF Tally, NatTally
  <2>3. h[a] \in Int /\ h[a] = Holding(bal, res, a, p)
    BY <2>1, <2>2, HoldAt DEF Holding
  <2>4. a \in Int
    BY <2>1, AddressesOrdered, Zenon
  <2> HIDE DEF h
  <2> QED
    BY <2>1, <2>3, <2>4
<1>3. \A a \in O : g[a] = DivideAndRoundUp(h[a] * n, Sum(h, O))
  BY <1>2, <1>PiecesAreSums, Zenon DEF PiecesOf, PieceOf
<1>4. \A a \in O : BeforeOf(bal, res, X, p, a) = Bef(O, h, a)
  BY <1>2, Zenon DEF BeforeOf, Bef, Precedes
<1>5. /\ DOMAIN share = O
      /\ \A a \in O : share[a] = Max2(0, Min2(g[a], n - Sum(g, Bef(O, h, a))))
  <2>1. \A a \in O : g[a] = PieceOf(bal, res, X, p, n, a)
    BY Zenon DEF PiecesOf
  <2>2. \A a \in O : SumOver(BeforeOf(bal, res, X, p, a), LAMBDA b : PieceOf(bal, res, X, p, n, b))
                       = Sum(g, Bef(O, h, a))
    BY <1>4, <1>PiecesAreSums, Zenon
  <2> QED
    BY <2>1, <2>2, <1>ReceiversAre, Zenon
<1> HIDE DEF h, g
<1>6. CASE O = {}
  BY <1>1, <1>5, <1>6, Zenon
<1>7. CASE O # {}
  <2>1. (\A a \in O : g[a] \in Nat) /\ n <= Sum(g, O)
    BY <1>1, <1>2, <1>3, <1>7, <1>PiecesCover
  <2>2. \A a \in O : a \in Int /\ h[a] \in Int
    BY <1>2
  <2>3. (\A a \in O : share[a] \in Nat) /\ Sum(share, O) = Min2(n, Sum(g, O))
    BY <1>1, <1>5, <2>1, <2>2, <1>SharesAddUp
  <2>4. Sum(g, O) \in Int
    <3>1. \A a \in O : g[a] \in Int
      BY <2>1
    <3> QED
      BY <1>1, <3>1, SumType, Zenon
  <2>5. Min2(n, Sum(g, O)) = n
    BY <2>1, <2>4 DEF Min2
  <2> QED
    BY <1>1, <1>5, <2>3, <2>5, Zenon
<1> QED
  BY <1>6, <1>7, Zenon

\* What the owners O get of p.
Shared(bal, O, share, p) ==
    [s \in Slot |-> IF s[2] = p /\ s[1] \in O THEN bal[s] + share[s[1]] ELSE bal[s]]

\* No slot of the tally t loses; n of p is added to the total.
Grows(t, u) == \A s \in Slot : u[s] >= t[s]

Adds(bal, res, bal2, res2, p, n) ==
    /\ Tot(bal2, res2, p) = Tot(bal, res, p) + n
    /\ \A q \in Property \ {p} : Tot(bal2, res2, q) = Tot(bal, res, q)

NatOn(share, O) == \A a \in O : share[a] \in Nat

\* Fees are given to the owners of MSC, all of them: there is an owner.
LEMMA WithFeesAdds ==
  \A bal \in NatTally, res \in NatTally, p \in Property, n \in Nat : \A b :
      /\ MSC \in Property
      /\ Tot(bal, res, MSC) > 0
      /\ b = WithFees(bal, res, p, n)
      => b \in NatTally /\ Grows(bal, b) /\ Adds(bal, res, b, res, p, n)
\* Shares handed out add their sum to the total; no balance gets smaller.
<1>SharedAdds.
    ASSUME NEW bal \in NatTally, NEW res \in NatTally, NEW O, O \subseteq Address,
           NEW share, NatOn(share, O), NEW p \in Property,
           NEW b, b = Shared(bal, O, share, p)
    PROVE  b \in NatTally /\ Grows(bal, b) /\ Adds(bal, res, b, res, p, Sum(share, O))
  <2> USE <1>SharedAdds
  <2>0. \A a \in O : share[a] \in Nat
    BY Zenon DEF NatOn
  <2> DEFINE g == [a \in Address |-> IF a \in O THEN share[a] ELSE 0]
  <2>1. \A s \in Slot : b[s] = IF s[2] = p /\ s[1] \in O THEN bal[s] + share[s[1]] ELSE bal[s]
    BY Zenon DEF Shared
  <2>2. \A s \in Slot : bal[s] \in Nat
    BY Zenon DEF NatTally
  <2>3. \A s \in Slot : b[s] \in Nat /\ b[s] >= bal[s]
    <3> SUFFICES ASSUME NEW s \in Slot PROVE b[s] \in Nat /\ b[s] >= bal[s]
      BY Zenon
    <3>1. CASE s[2] = p /\ s[1] \in O
      <4>1. b[s] = bal[s] + share[s[1]] /\ share[s[1]] \in Nat /\ bal[s] \in Nat
        BY <2>0, <2>1, <2>2, <3>1, Zenon
      <4> QED
        BY <4>1
    <3>2. CASE ~(s[2] = p /\ s[1] \in O)
      <4>1. b[s] = bal[s] /\ bal[s] \in Nat
        BY <2>1, <2>2, <3>2, Zenon
      <4> QED
        BY <4>1
    <3> QED
      BY <3>1, <3>2, Zenon
  <2>4. b \in NatTally
    BY <2>3, Zenon DEF Shared, NatTally
  <2>5. \A a \in Address : g[a] = IF a \in O THEN share[a] ELSE 0
    BY Zenon
  <2>6. bal \in Tally /\ res \in Tally /\ b \in Tally
    BY <2>4 DEF Tally, NatTally
  <2> HIDE DEF g
  <2>7. \A a \in Address : g[a] \in Int
    BY <2>0, <2>5
  <2>8. Sum(g, Address) = Sum(share, O)
    <3>1. \A a \in Address \ O : g[a] = 0
      BY <2>5, Zenon
    <3>2. Sum(g, Address) = Sum(g, O)
      BY <2>7, <3>1, AddressesFinite, SumWithin, Zenon
    <3>3. IsFiniteSet(O) /\ \A a \in O : g[a] = share[a]
      BY <2>5, AddressesFinite, FS_Subset, Zenon
    <3>4. Sum(g, O) = Sum(share, O)
      BY <3>3, SumSame, Zenon
    <3> QED
      BY <3>2, <3>4, Zenon
  <2>9. ASSUME NEW a \in Address
        PROVE  b[<<a, p>>] + res[<<a, p>>] = (bal[<<a, p>>] + res[<<a, p>>]) + g[a]
    <3>1. <<a, p>> \in Slot /\ bal[<<a, p>>] \in Int /\ res[<<a, p>>] \in Int
      BY <2>6, TallyAt, Zenon
    <3>2. <<a, p>>[1] = a /\ <<a, p>>[2] = p
      BY Zenon
    <3>3. b[<<a, p>>] = bal[<<a, p>>] + g[a]
      <4>1. CASE a \in O
        BY <2>1, <2>5, <3>1, <3>2, <4>1, Zenon
      <4>2. CASE a \notin O
        <5>1. b[<<a, p>>] = bal[<<a, p>>] /\ g[a] = 0
          BY <2>1, <2>5, <3>1, <3>2, <4>2, Zenon
        <5> QED
          BY <3>1, <5>1
      <4> QED
        BY <4>1, <4>2, Zenon
    <3>4. g[a] \in Int
      BY <2>7, Zenon
    <3> QED
      BY <3>1, <3>3, <3>4
  <2>10. Tot(b, res, p) = Tot(bal, res, p) + Sum(g, Address)
    BY <2>6, <2>7, <2>9, TotMoved
  <2>11. ASSUME NEW q \in Property \ {p} PROVE Tot(b, res, q) = Tot(bal, res, q)
    <3>1. ASSUME NEW a \in Address PROVE b[<<a, q>>] = bal[<<a, q>>]
      <4>1. <<a, q>> \in Slot /\ <<a, q>>[2] # p
        BY TallyAt, Zenon
      <4> QED
        BY <2>1, <4>1, Zenon
    <3>2. \A a \in Address : b[<<a, q>>] + res[<<a, q>>] = bal[<<a, q>>] + res[<<a, q>>]
      BY <3>1, Zenon
    <3> QED
      BY <2>6, <3>2, TotSame
  <2> QED
    BY <2>3, <2>4, <2>8, <2>10, <2>11, Zenon DEF Grows, Adds
<1> SUFFICES ASSUME NEW bal \in NatTally, NEW res \in NatTally, NEW p \in Property, NEW n \in Nat,
                    MSC \in Property, Tot(bal, res, MSC) > 0,
                    NEW b, b = WithFees(bal, res, p, n)
             PROVE  b \in NatTally /\ Grows(bal, b) /\ Adds(bal, res, b, res, p, n)
  BY Zenon
<1> DEFINE share == STO_GetReceivers(bal, res, {}, MSC, n)
           O == OwnersOf(bal, res, {}, MSC)
<1>1. bal \in Tally /\ res \in Tally
  BY DEF Tally, NatTally
<1>2. O # {}
  <2> SUFFICES ASSUME O = {} PROVE FALSE
    BY Zenon
  <2>1. ASSUME NEW a \in Address PROVE Hold(bal, res, MSC)[a] = 0
    <3>1. Hold(bal, res, MSC)[a] \in Int /\ Hold(bal, res, MSC)[a] >= 0
          /\ Hold(bal, res, MSC)[a] = Holding(bal, res, a, MSC)
      BY <1>1, HoldAt DEF Holding
    <3>2. ~(Holding(bal, res, a, MSC) > 0)
      BY Zenon DEF OwnersOf
    <3> QED
      BY <3>1, <3>2
  <2>2. Tot(bal, res, MSC) = 0
    BY <2>1, AddressesFinite, SumZero, Zenon DEF Tot
  <2> QED
    BY <2>2
<1>3. /\ DOMAIN share = O /\ O \in SUBSET Address
      /\ \A a \in O : share[a] \in Nat
      /\ Sum(share, O) = n
  <2> HIDE DEF share, O
  <2>1. share = STO_GetReceivers(bal, res, {}, MSC, n) /\ O = OwnersOf(bal, res, {}, MSC)
    BY Zenon DEF share, O
  <2>2. /\ DOMAIN share = O /\ O \subseteq Address \ {} /\ IsFiniteSet(O)
        /\ \A a \in O : share[a] \in Nat
        /\ O # {} => Sum(share, O) = n
    BY <2>1, SharesOf
  <2> QED
    BY <1>2, <2>2, Zenon
<1>4. b = Shared(bal, O, share, p) /\ NatOn(share, O)
  BY <1>3, Zenon DEF WithFees, Shared, NatOn
<1>5. O \subseteq Address
  BY <1>3, Zenon
<1> HIDE DEF share, O
<1>6. b \in NatTally /\ Grows(bal, b) /\ Adds(bal, res, b, res, p, Sum(share, O))
  BY <1>4, <1>5, <1>SharedAdds, Zenon
<1> QED
  BY <1>3, <1>6, Zenon

\* What there is of a property, the fees included.
Held(bal, res, fees, p) == Tot(bal, res, p) + fees[p]

SameHeld(bal, res, fees, bal2, res2, fees2) ==
    \A p \in Property : Held(bal2, res2, fees2, p) = Held(bal, res, fees, p)

FeeTally == [Property -> Nat]

-----------------------------------------------------------------------------
(* Payments. *)

\* Amounts credited and debited, where enough is there.
LEMMA CreditNat ==
  ASSUME NEW t \in NatTally, NEW who \in Address, NEW p \in Property, NEW n \in Nat,
         NEW u, u = Credit(t, who, p, n)
  PROVE  u \in NatTally /\ Grows(t, u) /\ u[<<who, p>>] = t[<<who, p>>] + n
<1>1. t \in Tally /\ n \in Int
  BY DEF Tally, NatTally
<1>2. /\ u \in Tally /\ u[<<who, p>>] = t[<<who, p>>] + n
      /\ \A s \in Slot : s # <<who, p>> => u[s] = t[s]
  BY <1>1, Credited
<1>3. <<who, p>> \in Slot
  BY TallyAt, Zenon
<1>4. \A s \in Slot : t[s] \in Nat
  BY Zenon DEF NatTally
<1>5. ASSUME NEW s \in Slot PROVE u[s] \in Nat /\ u[s] >= t[s]
  <2>1. CASE s = <<who, p>>
    <3>1. u[s] = t[s] + n /\ t[s] \in Nat
      BY <1>2, <1>4, <2>1, Zenon
    <3> QED
      BY <3>1
  <2>2. CASE s # <<who, p>>
    <3>1. u[s] = t[s] /\ t[s] \in Nat
      BY <1>2, <1>4, <2>2, Zenon
    <3> QED
      BY <3>1
  <2> QED
    BY <2>1, <2>2, Zenon
<1>6. u \in NatTally
  BY <1>2, <1>5, Zenon DEF Tally, NatTally
<1> QED
  BY <1>2, <1>5, <1>6, Zenon DEF Grows

\* A debit of no more than there is leaves natural amounts.
LEMMA DebitNat ==
  ASSUME NEW t \in NatTally, NEW who \in Address, NEW p \in Property, NEW n \in Nat,
         t[<<who, p>>] >= n,
         NEW u, u = Debit(t, who, p, n)
  PROVE  /\ u \in NatTally /\ u[<<who, p>>] = t[<<who, p>>] - n
         /\ \A s \in Slot : s # <<who, p>> => u[s] = t[s]
<1>1. t \in Tally /\ n \in Int /\ -n \in Int
  BY DEF Tally, NatTally
<1>2. u = Credit(t, who, p, -n)
  BY <1>1, Credited, Zenon
<1>3. /\ u \in Tally /\ u[<<who, p>>] = t[<<who, p>>] + (-n)
      /\ \A s \in Slot : s # <<who, p>> => u[s] = t[s]
  <2> DEFINE m == -n
  <2> HIDE DEF m
  <2>1. m \in Int /\ u = Credit(t, who, p, m)
    BY <1>1, <1>2, Zenon DEF m
  <2>2. /\ u \in Tally /\ u[<<who, p>>] = t[<<who, p>>] + m
        /\ \A s \in Slot : s # <<who, p>> => u[s] = t[s]
    BY <1>1, <2>1, Credited
  <2> QED
    BY <2>2, Zenon DEF m
<1>4. <<who, p>> \in Slot
  BY TallyAt, Zenon
<1>5. \A s \in Slot : t[s] \in Nat
  BY Zenon DEF NatTally
<1>6. u[<<who, p>>] = t[<<who, p>>] - n /\ u[<<who, p>>] \in Nat
  <2>1. t[<<who, p>>] \in Nat
    BY <1>4, <1>5, Zenon
  <2> QED
    BY <1>3, <2>1
<1>7. \A s \in Slot : u[s] \in Nat
  BY <1>3, <1>5, <1>6, Zenon
<1>8. u \in NatTally
  BY <1>3, <1>7, Zenon DEF Tally, NatTally
<1> QED
  BY <1>3, <1>6, <1>8, Zenon

\* Their totals.
LEMMA CreditAdds ==
  \A bal \in Tally, res \in Tally, who \in Address, p \in Property, n \in Int :
         /\ Adds(bal, res, Credit(bal, who, p, n), res, p, n)
         /\ Adds(bal, res, bal, Credit(res, who, p, n), p, n)
\* What is credited and debited adds to the total of its property.
<1>TotCredit.
    ASSUME NEW bal \in Tally, NEW res \in Tally, NEW who \in Address, NEW p \in Property,
           NEW n \in Int
    PROVE  /\ Tot(Credit(bal, who, p, n), res, p) = Tot(bal, res, p) + n
           /\ \A q \in Property \ {p} : Tot(Credit(bal, who, p, n), res, q) = Tot(bal, res, q)
  <2> DEFINE c == Credit(bal, who, p, n)
             g == One(who, n)
  <2>1. /\ c \in Tally /\ c[<<who, p>>] = bal[<<who, p>>] + n
        /\ \A s \in Slot : s # <<who, p>> => c[s] = bal[s]
    BY Credited, Zenon
  <2>2. Sum(g, Address) = n /\ \A a \in Address : g[a] \in Int
    BY OneSum, Zenon
  <2>3. \A a \in Address : g[a] = IF a = who THEN n ELSE 0
    BY Zenon DEF One
  <2> HIDE DEF c, g
  <2>4. ASSUME NEW a \in Address
        PROVE  c[<<a, p>>] + res[<<a, p>>] = (bal[<<a, p>>] + res[<<a, p>>]) + g[a]
    <3>1. bal[<<a, p>>] \in Int /\ res[<<a, p>>] \in Int
      BY TallyAt, Zenon
    <3>2. CASE a = who
      <4>1. g[a] = n /\ c[<<a, p>>] = bal[<<a, p>>] + n
        BY <2>1, <2>3, <3>2, Zenon
      <4> QED
        BY <3>1, <4>1
    <3>3. CASE a # who
      <4>1. <<a, p>> # <<who, p>> /\ <<a, p>> \in Slot
        BY <3>3, TallyAt, Zenon
      <4>2. g[a] = 0 /\ c[<<a, p>>] = bal[<<a, p>>]
        BY <2>1, <2>3, <3>3, <4>1, Zenon
      <4> QED
        BY <3>1, <4>2
    <3> QED
      BY <3>2, <3>3, Zenon
  <2>5. Tot(c, res, p) = Tot(bal, res, p) + Sum(g, Address)
    BY <2>1, <2>2, <2>4, TotMoved
  <2>6. ASSUME NEW q \in Property \ {p} PROVE Tot(c, res, q) = Tot(bal, res, q)
    <3>1. ASSUME NEW a \in Address PROVE c[<<a, q>>] = bal[<<a, q>>]
      <4>1. <<a, q>> # <<who, p>> /\ <<a, q>> \in Slot
        BY TallyAt, Zenon
      <4> QED
        BY <2>1, <4>1, Zenon
    <3>2. \A a \in Address : c[<<a, q>>] + res[<<a, q>>] = bal[<<a, q>>] + res[<<a, q>>]
      BY <3>1, Zenon
    <3> QED
      BY <2>1, <3>2, TotSame
  <2> QED
    BY <2>2, <2>5, <2>6, Zenon DEF c
\* A credit to the reserve adds to the total of its property, and to no other.
<1>TotReserve.
    \A bal \in Tally, res \in Tally, who \in Address, p \in Property, n \in Int :
           /\ Tot(bal, Credit(res, who, p, n), p) = Tot(bal, res, p) + n
           /\ \A q \in Property \ {p} : Tot(bal, Credit(res, who, p, n), q) = Tot(bal, res, q)
  \* The same for the reserve.
  <2>TotSwap.
      ASSUME NEW bal \in Tally, NEW res \in Tally, NEW p \in Property
      PROVE  Tot(bal, res, p) = Tot(res, bal, p)
    <3>1. ASSUME NEW a \in Address PROVE Hold(bal, res, p)[a] = Hold(res, bal, p)[a]
      <4>1. bal[<<a, p>>] \in Int /\ res[<<a, p>>] \in Int
        BY TallyAt, Zenon
      <4>2. bal[<<a, p>>] + res[<<a, p>>] = res[<<a, p>>] + bal[<<a, p>>]
        BY <4>1
      <4>3. Hold(bal, res, p)[a] = bal[<<a, p>>] + res[<<a, p>>]
        BY Zenon DEF Hold, Holding
      <4>4. Hold(res, bal, p)[a] = res[<<a, p>>] + bal[<<a, p>>]
        BY Zenon DEF Hold, Holding
      <4> QED
        BY <4>2, <4>3, <4>4, Zenon
    <3> QED
      BY <3>1, AddressesFinite, SumSame, Zenon DEF Tot
  <2> SUFFICES ASSUME NEW bal \in Tally, NEW res \in Tally, NEW who \in Address, NEW p \in Property,
                      NEW n \in Int
               PROVE  /\ Tot(bal, Credit(res, who, p, n), p) = Tot(bal, res, p) + n
                      /\ \A q \in Property \ {p} : Tot(bal, Credit(res, who, p, n), q) = Tot(bal, res, q)
    BY Zenon
  <2>1. Credit(res, who, p, n) \in Tally
    BY Credited, Zenon
  <2>2. /\ Tot(Credit(res, who, p, n), bal, p) = Tot(res, bal, p) + n
        /\ \A q \in Property \ {p} : Tot(Credit(res, who, p, n), bal, q) = Tot(res, bal, q)
    BY <1>TotCredit
  <2>3. \A q \in Property : /\ Tot(bal, res, q) = Tot(res, bal, q)
                            /\ Tot(Credit(res, who, p, n), bal, q) = Tot(bal, Credit(res, who, p, n), q)
    BY <2>1, <2>TotSwap, Zenon
  <2> QED
    BY <2>2, <2>3, Zenon
<1> SUFFICES ASSUME NEW bal \in Tally, NEW res \in Tally, NEW who \in Address, NEW p \in Property, NEW n \in Int
             PROVE  /\ Adds(bal, res, Credit(bal, who, p, n), res, p, n)
                    /\ Adds(bal, res, bal, Credit(res, who, p, n), p, n)
  BY Zenon
<1>1. Adds(bal, res, Credit(bal, who, p, n), res, p, n)
  <2> DEFINE u == Credit(bal, who, p, n)
  <2>1. /\ Tot(Credit(bal, who, p, n), res, p) = Tot(bal, res, p) + n
        /\ \A q \in Property \ {p} : Tot(Credit(bal, who, p, n), res, q) = Tot(bal, res, q)
    BY <1>TotCredit
  <2> QED
    BY <2>1, Zenon DEF Adds
<1>2. Adds(bal, res, bal, Credit(res, who, p, n), p, n)
  <2>1. /\ Tot(bal, Credit(res, who, p, n), p) = Tot(bal, res, p) + n
        /\ \A q \in Property \ {p} : Tot(bal, Credit(res, who, p, n), q) = Tot(bal, res, q)
    BY <1>TotReserve
  <2> QED
    BY <2>1, Zenon DEF Adds
<1> QED
  BY <1>1, <1>2, Zenon

\* A debit of n adds -n.
LEMMA DebitAdds ==
  ASSUME NEW bal \in Tally, NEW res \in Tally, NEW who \in Address, NEW p \in Property, NEW n \in Int
  PROVE  /\ Adds(bal, res, Debit(bal, who, p, n), res, p, -n)
         /\ Adds(bal, res, bal, Debit(res, who, p, n), p, -n)
<1> DEFINE m == -n
<1>1. m \in Int
  OBVIOUS
<1>2. Debit(bal, who, p, n) = Credit(bal, who, p, m) /\ Debit(res, who, p, n) = Credit(res, who, p, m)
  BY Credited, Zenon
<1> HIDE DEF m
<1>3. /\ Adds(bal, res, Credit(bal, who, p, m), res, p, m)
      /\ Adds(bal, res, bal, Credit(res, who, p, m), p, m)
  BY <1>1, CreditAdds, Zenon
<1> QED
  BY <1>2, <1>3, Zenon DEF m

\* One change after the other.
LEMMA AddsTwice ==
  ASSUME NEW b0 \in Tally, NEW r0 \in Tally, NEW b1, NEW r1, NEW b2, NEW r2, NEW p \in Property,
         NEW m \in Int, NEW n \in Int,
         Adds(b0, r0, b1, r1, p, m), Adds(b1, r1, b2, r2, p, n)
  PROVE  Adds(b0, r0, b2, r2, p, m + n)
<1>1. Tot(b0, r0, p) \in Int
  BY TotType, Zenon
<1>2. Tot(b2, r2, p) = (Tot(b0, r0, p) + m) + n
  BY Zenon DEF Adds
<1>3. Tot(b2, r2, p) = Tot(b0, r0, p) + (m + n)
  BY <1>1, <1>2
<1> QED
  BY <1>3, Zenon DEF Adds

\* With nothing added, the totals are the same; so are the sums with the fees.
LEMMA AddsNothing ==
  ASSUME NEW b0 \in Tally, NEW r0 \in Tally, NEW b2, NEW r2, NEW p \in Property, NEW n \in Int, n = 0,
         Adds(b0, r0, b2, r2, p, n), NEW fees
  PROVE  SameHeld(b0, r0, fees, b2, r2, fees)
<1>1. Tot(b0, r0, p) \in Int
  BY TotType, Zenon
<1>2. Tot(b2, r2, p) = Tot(b0, r0, p)
  <2>1. Tot(b2, r2, p) = Tot(b0, r0, p) + n
    BY Zenon DEF Adds
  <2> QED
    BY <1>1, <2>1
<1>3. \A q \in Property : Tot(b2, r2, q) = Tot(b0, r0, q)
  BY <1>2, Zenon DEF Adds
<1> QED
  BY <1>3, Zenon DEF SameHeld, Held

\* Only one amount may be less than before.
GrowsBut(t, u, x) == \A s \in Slot : s # x => u[s] >= t[s]

\* Tokens move from one address to another.
LEMMA Sent ==
  ASSUME NEW bal \in NatTally, NEW res \in NatTally, NEW fees, NEW who \in Address, NEW to \in Address,
         NEW p \in Property, NEW n \in Nat, bal[<<who, p>>] >= n,
         NEW u, u = Credit(Debit(bal, who, p, n), to, p, n)
  PROVE  /\ u \in NatTally /\ SameHeld(bal, res, fees, u, res, fees)
         /\ GrowsBut(bal, u, <<who, p>>)
<1> DEFINE d == Debit(bal, who, p, n)
<1> HIDE DEF d
<1>1. bal \in Tally /\ res \in Tally /\ n \in Int /\ -n \in Int
  BY DEF Tally, NatTally
<1>2. d = Debit(bal, who, p, n) /\ u = Credit(d, to, p, n)
  BY Zenon DEF d
<1>3. /\ d \in NatTally
      /\ \A s \in Slot : s # <<who, p>> => d[s] = bal[s]
  BY <1>2, DebitNat
<1>4. u \in NatTally /\ Grows(d, u)
  BY <1>2, <1>3, CreditNat, Zenon
<1>5. d \in Tally /\ u \in Tally
  BY <1>3, <1>4 DEF Tally, NatTally
<1>6. Adds(bal, res, d, res, p, -n)
  BY <1>1, <1>2, DebitAdds, Zenon
<1>7. Adds(d, res, u, res, p, n)
  BY <1>1, <1>2, <1>5, CreditAdds, Zenon
<1>8. SameHeld(bal, res, fees, u, res, fees)
  <2> DEFINE m == -n
             z == m + n
  <2>1. m \in Int /\ z \in Int /\ z = 0
    BY <1>1
  <2>2. Adds(bal, res, d, res, p, m)
    BY <1>6, Zenon
  <2> HIDE DEF m
  <2>3. Adds(bal, res, u, res, p, z)
    BY <1>1, <1>7, <2>1, <2>2, AddsTwice, Zenon
  <2> HIDE DEF z
  <2> QED
    BY <1>1, <2>1, <2>3, AddsNothing, Zenon
<1>9. \A s \in Slot : s # <<who, p>> => u[s] >= bal[s]
  BY <1>3, <1>4, Zenon DEF Grows
<1> QED
  BY <1>4, <1>8, <1>9, Zenon DEF GrowsBut

\* One address pays the shares of others.
Paid(x, a, who, total, O, share) ==
    x - (IF a = who THEN total ELSE 0) + (IF a \in O THEN share[a] ELSE 0)

\* What a slot then holds is natural, and only the payer's gets smaller.
LEMMA PaidSlot ==
  ASSUME NEW x \in Nat, NEW a, NEW who, NEW total \in Nat, a = who => x >= total,
         NEW O, NEW share, NatOn(share, O)
  PROVE  /\ Paid(x, a, who, total, O, share) \in Nat
         /\ a # who => Paid(x, a, who, total, O, share) >= x
<1> DEFINE y == IF a = who THEN total ELSE 0
           z == IF a \in O THEN share[a] ELSE 0
<1>1. y \in Nat /\ x >= y /\ (a # who => y = 0)
  OBVIOUS
<1>2. z \in Nat
  BY Zenon DEF NatOn
<1>3. Paid(x, a, who, total, O, share) = (x - y) + z
  BY Zenon DEF Paid
<1> HIDE DEF y, z
<1> QED
  BY <1>1, <1>2, <1>3

\* The total stays.
LEMMA PaidTotal ==
  ASSUME NEW bal \in Tally, NEW res \in Tally, NEW u \in Tally, NEW p \in Property, NEW who \in Address,
         NEW O, O \subseteq Address, NEW share, NatOn(share, O),
         NEW total \in Int, total = Sum(share, O),
         \A a \in Address : u[<<a, p>>] = Paid(bal[<<a, p>>], a, who, total, O, share)
  PROVE  Tot(u, res, p) = Tot(bal, res, p)
<1> DEFINE m == -total
           y == One(who, m)
           z == [a \in Address |-> IF a \in O THEN share[a] ELSE 0]
           g == [a \in Address |-> y[a] + z[a]]
<1>1. m \in Int
  OBVIOUS
<1>2. Sum(y, Address) = m /\ \A a \in Address : y[a] \in Int
  <2> HIDE DEF m
  <2> QED
    BY <1>1, OneSum, Zenon
<1>3. \A a \in Address : z[a] = IF a \in O THEN share[a] ELSE 0
  BY Zenon
<1>4. \A a \in Address : y[a] = IF a = who THEN m ELSE 0
  BY Zenon DEF One
<1>5. \A a \in Address : g[a] = y[a] + z[a]
  BY Zenon
<1> HIDE DEF y, z, g
<1>6. \A a \in Address : z[a] \in Int
  BY <1>3 DEF NatOn
<1>7. Sum(z, Address) = total
  <2>1. \A a \in Address \ O : z[a] = 0
    BY <1>3, Zenon
  <2>2. Sum(z, Address) = Sum(z, O)
    BY <1>6, <2>1, AddressesFinite, SumWithin, Zenon
  <2>3. IsFiniteSet(O) /\ \A a \in O : z[a] = share[a]
    BY <1>3, AddressesFinite, FS_Subset, Zenon
  <2>4. Sum(z, O) = Sum(share, O)
    BY <2>3, SumSame, Zenon
  <2> QED
    BY <2>2, <2>4, Zenon
<1>8. Sum(g, Address) = Sum(y, Address) + Sum(z, Address)
  <2>1. \A a \in Address : y[a] \in Int /\ z[a] \in Int /\ g[a] = y[a] + z[a]
    BY <1>2, <1>5, <1>6, Zenon
  <2> QED
    BY <2>1, AddressesFinite, SumPlus
<1>9. Sum(g, Address) = 0
  <2>1. m + total = 0
    OBVIOUS
  <2> QED
    BY <1>2, <1>7, <1>8, <2>1, Zenon
<1>10. \A a \in Address : g[a] \in Int
  BY <1>2, <1>5, <1>6
<1>11. ASSUME NEW a \in Address
       PROVE  u[<<a, p>>] + res[<<a, p>>] = (bal[<<a, p>>] + res[<<a, p>>]) + g[a]
  <2>1. bal[<<a, p>>] \in Int /\ res[<<a, p>>] \in Int
    BY TallyAt, Zenon
  <2> DEFINE x == IF a = who THEN total ELSE 0
  <2>2. x \in Int /\ y[a] = -x
    BY <1>4
  <2>3. u[<<a, p>>] = (bal[<<a, p>>] - x) + z[a]
    BY <1>3, Zenon DEF Paid
  <2>4. z[a] \in Int /\ g[a] = y[a] + z[a]
    BY <1>5, <1>6, Zenon
  <2> HIDE DEF x
  <2> QED
    BY <2>1, <2>2, <2>3, <2>4
<1>12. Tot(u, res, p) = Tot(bal, res, p) + Sum(g, Address)
  BY <1>10, <1>11, TotMoved
<1>13. Tot(bal, res, p) \in Int
  BY TotType, Zenon
<1> QED
  BY <1>9, <1>12, <1>13

\* The same in all slots of p.
LEMMA PaidOut ==
  ASSUME NEW bal \in NatTally, NEW res \in NatTally, NEW fees, NEW p \in Property, NEW who \in Address,
         NEW O, O \subseteq Address, NEW share, NatOn(share, O),
         NEW total \in Nat, total = Sum(share, O), bal[<<who, p>>] >= total,
         NEW u, u = [s \in Slot |-> IF s[2] # p THEN bal[s] ELSE Paid(bal[s], s[1], who, total, O, share)]
  PROVE  /\ u \in NatTally /\ SameHeld(bal, res, fees, u, res, fees)
         /\ \A s \in Slot : s # <<who, p>> => u[s] >= bal[s]
<1>1. \A s \in Slot : u[s] = IF s[2] # p THEN bal[s] ELSE Paid(bal[s], s[1], who, total, O, share)
  BY Zenon
<1>2. \A s \in Slot : bal[s] \in Nat
  BY Zenon DEF NatTally
<1>3. ASSUME NEW s \in Slot PROVE u[s] \in Nat /\ (s # <<who, p>> => u[s] >= bal[s])
  <2>1. CASE s[2] # p
    <3>1. u[s] = bal[s] /\ bal[s] \in Nat
      BY <1>1, <1>2, <2>1, Zenon
    <3> QED
      BY <3>1
  <2>2. CASE s[2] = p
    <3>1. s[1] = who => s = <<who, p>>
      BY <2>2 DEF Slot
    <3>2. s[1] = who => bal[s] >= total
      BY <3>1, Zenon
    <3>3. /\ Paid(bal[s], s[1], who, total, O, share) \in Nat
          /\ s[1] # who => Paid(bal[s], s[1], who, total, O, share) >= bal[s]
      <4> DEFINE x == bal[s]
                 a == s[1]
      <4>1. x \in Nat /\ (a = who => x >= total)
        BY <1>2, <3>2, Zenon
      <4> HIDE DEF x, a
      <4>2. /\ Paid(x, a, who, total, O, share) \in Nat
            /\ a # who => Paid(x, a, who, total, O, share) >= x
        BY <4>1, PaidSlot, Zenon
      <4> QED
        BY <4>2, Zenon DEF x, a
    <3>4. s # <<who, p>> => s[1] # who
      BY <3>1, Zenon
    <3> QED
      BY <1>1, <2>2, <3>3, <3>4, Zenon
  <2> QED
    BY <2>1, <2>2, Zenon
<1>4. u \in NatTally
  BY <1>3, Zenon DEF NatTally
<1>5. bal \in Tally /\ res \in Tally /\ u \in Tally /\ total \in Int
  BY <1>4 DEF Tally, NatTally
<1>6. Tot(u, res, p) = Tot(bal, res, p)
  <2>1. ASSUME NEW a \in Address PROVE u[<<a, p>>] = Paid(bal[<<a, p>>], a, who, total, O, share)
    <3>1. <<a, p>> \in Slot /\ <<a, p>>[1] = a /\ <<a, p>>[2] = p
      BY TallyAt, Zenon
    <3> QED
      BY <1>1, <3>1, Zenon
  <2> QED
    BY <1>5, <2>1, PaidTotal
<1>7. ASSUME NEW q \in Property \ {p} PROVE Tot(u, res, q) = Tot(bal, res, q)
  <2>1. ASSUME NEW a \in Address PROVE u[<<a, q>>] = bal[<<a, q>>]
    <3>1. <<a, q>> \in Slot /\ <<a, q>>[2] # p
      BY TallyAt, Zenon
    <3> QED
      BY <1>1, <3>1, Zenon
  <2>2. \A a \in Address : u[<<a, q>>] + res[<<a, q>>] = bal[<<a, q>>] + res[<<a, q>>]
    BY <2>1, Zenon
  <2>3. q \in Property
    BY Zenon
  <2> QED
    BY <1>5, <2>2, <2>3, TotSame, SMTT(30)
<1>8. SameHeld(bal, res, fees, u, res, fees)
  BY <1>6, <1>7, Zenon DEF SameHeld, Held
<1> QED
  BY <1>3, <1>4, <1>8, Zenon

\* Tokens that go from the reserve to the balance, or back, stay held.
LEMMA ReserveHeld ==
  ASSUME NEW b \in NatTally, NEW res \in NatTally, NEW f, NEW a \in Address, NEW p \in Property, NEW n \in Int,
         NEW b2 \in NatTally, b2 = Credit(b, a, p, n),
         NEW res2 \in NatTally, res2 = Debit(res, a, p, n)
  PROVE  SameHeld(b, res, f, b2, res2, f)
<1>1. b \in Tally /\ res \in Tally /\ b2 \in Tally /\ res2 \in Tally
  BY DEF Tally, NatTally
<1> DEFINE m == -n
           z == n + m
<1>2. m \in Int /\ z \in Int /\ z = 0
  OBVIOUS
<1>3. Adds(b, res, b2, res, p, n)
  BY <1>1, CreditAdds, Zenon
<1>4. Adds(b2, res, b2, res2, p, m)
  BY <1>1, DebitAdds, Zenon
<1> HIDE DEF m
<1>5. Adds(b, res, b2, res2, p, z)
  BY <1>1, <1>2, <1>3, <1>4, AddsTwice, Zenon
<1> HIDE DEF z
<1> QED
  BY <1>1, <1>2, <1>5, AddsNothing, Zenon

-----------------------------------------------------------------------------
(* The reserve of the exchange. *)

\* What the orders in B of an address and a property have left, summed up.
OrdersAt(B, s) == {o \in B : <<o.addr, o.prop>> = s}

Rem == [o \in Order |-> o.remaining]

Res(B, s) == Sum(Rem, OrdersAt(B, s))

BookMatches(res, B) == \A s \in Slot : res[s] = Res(B, s)

\* The parts of an order.
LEMMA OrderType ==
  ASSUME NEW o \in Order
  PROVE  /\ o.addr \in Address /\ o.prop \in Property /\ o.remaining \in Nat /\ <<o.addr, o.prop>> \in Slot
         /\ Rem[o] = o.remaining
<1>1. o.addr \in Address /\ o.prop \in Property /\ o.remaining \in Nat
  BY Zenon DEF Order
<1> QED
  BY <1>1, Zenon DEF Rem, Slot

\* An order less on the book, so much less is left by its owner.
LEMMA ResRemove ==
  \A B : \A o \in B : \A s :
      /\ B \subseteq Order
      /\ IsFiniteSet(B)
      => /\ <<o.addr, o.prop>> = s => Res(B, s) = o.remaining + Res(B \ {o}, s)
         /\ <<o.addr, o.prop>> # s => Res(B, s) = Res(B \ {o}, s)
         /\ Res(B \ {o}, s) \in Nat /\ Res(B, s) \in Nat
\* The orders of a slot are finitely many, and have something left or not.
<1>OrdersAtType.
    ASSUME NEW B, B \subseteq Order, IsFiniteSet(B), NEW s
    PROVE  IsFiniteSet(OrdersAt(B, s)) /\ \A o \in OrdersAt(B, s) : Rem[o] \in Int /\ Rem[o] >= 0
  <2> USE <1>OrdersAtType
  <2>1. OrdersAt(B, s) \subseteq B
    BY Zenon DEF OrdersAt
  <2>2. IsFiniteSet(OrdersAt(B, s))
    BY <2>1, FS_Subset, Zenon
  <2>3. ASSUME NEW o \in OrdersAt(B, s) PROVE Rem[o] \in Int /\ Rem[o] >= 0
    <3>1. o \in Order
      BY <2>1, Zenon
    <3>2. Rem[o] = o.remaining /\ o.remaining \in Nat
      BY <3>1, OrderType, Zenon
    <3> QED
      BY <3>2
  <2> QED
    BY <2>2, <2>3, Zenon
<1> SUFFICES ASSUME NEW B, B \subseteq Order, IsFiniteSet(B), NEW o \in B, NEW s
             PROVE  /\ <<o.addr, o.prop>> = s => Res(B, s) = o.remaining + Res(B \ {o}, s)
                    /\ <<o.addr, o.prop>> # s => Res(B, s) = Res(B \ {o}, s)
                    /\ Res(B \ {o}, s) \in Nat /\ Res(B, s) \in Nat
  BY Zenon
<1>1. IsFiniteSet(OrdersAt(B, s)) /\ \A q \in OrdersAt(B, s) : Rem[q] \in Int /\ Rem[q] >= 0
  BY <1>OrdersAtType, Zenon
<1>2. B \ {o} \subseteq Order /\ IsFiniteSet(B \ {o})
  BY FS_Subset, Zenon
<1>3. IsFiniteSet(OrdersAt(B \ {o}, s)) /\ \A q \in OrdersAt(B \ {o}, s) : Rem[q] \in Int /\ Rem[q] >= 0
  BY <1>2, <1>OrdersAtType, Zenon
<1>4. ASSUME <<o.addr, o.prop>> = s PROVE Res(B, s) = o.remaining + Res(B \ {o}, s)
  <2>1. o \in OrdersAt(B, s) /\ OrdersAt(B \ {o}, s) = OrdersAt(B, s) \ {o}
    BY <1>4, Zenon DEF OrdersAt
  <2>2. Rem[o] = o.remaining
    BY OrderType, Zenon
  <2>3. Sum(Rem, OrdersAt(B, s)) = Rem[o] + Sum(Rem, OrdersAt(B, s) \ {o})
    <3> DEFINE S == OrdersAt(B, s)
    <3>1. o \in S /\ IsFiniteSet(S) /\ \A q \in S : Rem[q] \in Int
      BY <1>1, <2>1, Zenon
    <3> HIDE DEF S
    <3>2. Sum(Rem, S) = Rem[o] + Sum(Rem, S \ {o})
      BY <3>1, SumRemove
    <3> QED
      BY <3>2, Zenon DEF S
  <2> QED
    BY <2>1, <2>2, <2>3, Zenon DEF Res
<1>5. ASSUME <<o.addr, o.prop>> # s PROVE Res(B, s) = Res(B \ {o}, s)
  <2>1. OrdersAt(B \ {o}, s) = OrdersAt(B, s)
    BY <1>5 DEF OrdersAt
  <2> QED
    BY <2>1, Zenon DEF Res
<1>6. Res(B, s) \in Int /\ Res(B, s) >= 0
  BY <1>1, SumType, Zenon DEF Res
<1>7. Res(B \ {o}, s) \in Int /\ Res(B \ {o}, s) >= 0
  BY <1>3, SumType, Zenon DEF Res
<1>8. Res(B, s) \in Nat /\ Res(B \ {o}, s) \in Nat
  BY <1>6, <1>7
<1> QED
  BY <1>4, <1>5, <1>8, Zenon

\* An order is taken off the book, with what it has left.
LEMMA BookTakes ==
  ASSUME NEW res \in NatTally, NEW B, B \subseteq Order, IsFiniteSet(B), BookMatches(res, B),
         NEW o \in B, NEW res2, res2 = Debit(res, o.addr, o.prop, o.remaining)
  PROVE  /\ res2 \in NatTally /\ BookMatches(res2, B \ {o}) /\ IsFiniteSet(B \ {o})
         /\ o.remaining <= res[<<o.addr, o.prop>>]
<1> DEFINE a == o.addr
           p == o.prop
           n == o.remaining
           x == <<a, p>>
<1>1. a \in Address /\ p \in Property /\ n \in Nat /\ x \in Slot
  BY OrderType, Zenon
<1>2. res[x] = n + Res(B \ {o}, x) /\ Res(B \ {o}, x) \in Nat
  <2>1. res[x] = Res(B, x)
    BY <1>1, Zenon DEF BookMatches
  <2>2. /\ <<o.addr, o.prop>> = x => Res(B, x) = o.remaining + Res(B \ {o}, x)
        /\ Res(B \ {o}, x) \in Nat
    <3> HIDE DEF x
    <3> QED
      BY ResRemove, ZenonT(30)
  <2> QED
    BY <2>1, <2>2, Zenon
<1>3. res2 = Debit(res, a, p, n) /\ x = <<a, p>>
  BY Zenon
<1>4. \A s \in Slot : <<o.addr, o.prop>> # s => Res(B, s) = Res(B \ {o}, s)
  BY ResRemove, Zenon
<1>5. x = <<o.addr, o.prop>> /\ n = o.remaining
  BY Zenon
<1> HIDE DEF a, p, n, x
<1>6. res[<<a, p>>] >= n
  BY <1>1, <1>2, <1>3
<1>7. /\ res2 \in NatTally /\ res2[<<a, p>>] = res[<<a, p>>] - n
      /\ \A s \in Slot : s # <<a, p>> => res2[s] = res[s]
  BY <1>1, <1>3, <1>6, DebitNat
<1>8. res2[x] = Res(B \ {o}, x)
  BY <1>1, <1>2, <1>3, <1>7
<1>9. \A s \in Slot : s # x => res2[s] = Res(B \ {o}, s)
  BY <1>3, <1>4, <1>5, <1>7, Zenon DEF BookMatches
<1>10. BookMatches(res2, B \ {o})
  BY <1>8, <1>9, Zenon DEF BookMatches
<1>11. IsFiniteSet(B \ {o})
  BY FS_Subset, Zenon
<1>12. n <= res[x]
  BY <1>1, <1>2
<1> QED
  BY <1>5, <1>7, <1>10, <1>11, <1>12, Zenon

\* An order is put on the book, with what it has left.
LEMMA BookPuts ==
  ASSUME NEW res \in NatTally, NEW B, B \subseteq Order, IsFiniteSet(B), BookMatches(res, B),
         NEW o \in Order, o \notin B, NEW res2, res2 = Credit(res, o.addr, o.prop, o.remaining)
  PROVE  res2 \in NatTally /\ BookMatches(res2, B \cup {o}) /\ IsFiniteSet(B \cup {o})
<1> DEFINE a == o.addr
           p == o.prop
           n == o.remaining
           x == <<a, p>>
           C == B \cup {o}
<1>1. a \in Address /\ p \in Property /\ n \in Nat /\ x \in Slot
  BY OrderType, Zenon
<1>2. C \subseteq Order /\ IsFiniteSet(C) /\ o \in C /\ C \ {o} = B
  <2>1. IsFiniteSet({o})
    BY FS_Singleton, Zenon
  <2>2. IsFiniteSet(B \cup {o})
    BY <2>1, FS_Union, Zenon
  <2> QED
    BY <2>2, Zenon
<1>3. res2 = Credit(res, a, p, n) /\ x = <<a, p>> /\ x = <<o.addr, o.prop>> /\ n = o.remaining
  BY Zenon
<1> HIDE DEF a, p, n, x, C
<1>4. /\ \A s \in Slot : <<o.addr, o.prop>> # s => Res(C, s) = Res(C \ {o}, s)
      /\ \A s \in Slot : <<o.addr, o.prop>> = s => Res(C, s) = o.remaining + Res(C \ {o}, s)
  BY <1>2, ResRemove, Zenon
<1>5. res2 \in NatTally /\ res2[<<a, p>>] = res[<<a, p>>] + n
  BY <1>1, <1>3, CreditNat
<1>6. \A s \in Slot : s # <<a, p>> => res2[s] = res[s]
  BY <1>1, <1>3, Zenon DEF Credit, NatTally
<1>7. res2[x] = Res(C, x)
  <2>1. Res(C, x) = n + Res(B, x) /\ res[x] = Res(B, x)
    BY <1>1, <1>2, <1>3, <1>4, Zenon DEF BookMatches
  <2>2. res[x] \in Nat
    BY <1>1, Zenon DEF NatTally
  <2> QED
    BY <1>1, <1>3, <1>5, <2>1, <2>2
<1>8. \A s \in Slot : s # x => res2[s] = Res(C, s)
  BY <1>2, <1>3, <1>4, <1>6, Zenon DEF BookMatches
<1> QED
  BY <1>2, <1>5, <1>7, <1>8, Zenon DEF BookMatches, C

\* A part of an order is bought: what is left of it goes back on the book.
LEMMA BookSells ==
  ASSUME NEW res \in NatTally, NEW B, B \subseteq Order, IsFiniteSet(B), BookMatches(res, B),
         NEW o \in B, \A q \in B : q.idx = o.idx => q = o,
         NEW n \in Nat, n <= o.remaining,
         NEW left, left = [o EXCEPT !.remaining = @ - n],
         NEW C, C = (B \ {o}) \cup Replacement(left),
         NEW res2, res2 = Debit(res, o.addr, o.prop, n)
  PROVE  /\ res2 \in NatTally /\ BookMatches(res2, C) /\ IsFiniteSet(C)
         /\ n <= res[<<o.addr, o.prop>>]
<1> DEFINE res1 == Debit(res, o.addr, o.prop, o.remaining)
<1>1. o.addr \in Address /\ o.prop \in Property /\ o.remaining \in Nat /\ <<o.addr, o.prop>> \in Slot
  BY OrderType, Zenon
<1>2. /\ res1 \in NatTally /\ BookMatches(res1, B \ {o}) /\ IsFiniteSet(B \ {o})
      /\ o.remaining <= res[<<o.addr, o.prop>>]
  BY BookTakes, Zenon
<1>3. res[<<o.addr, o.prop>>] \in Nat
  BY <1>1, Zenon DEF NatTally
<1>4. n <= res[<<o.addr, o.prop>>]
  BY <1>1, <1>2, <1>3
<1>5. /\ left \in Order /\ left.addr = o.addr /\ left.prop = o.prop /\ left.idx = o.idx
      /\ left.remaining = o.remaining - n
  BY <1>1 DEF Order
<1>6. CASE left.remaining > 0
  <2>1. C = (B \ {o}) \cup {left}
    BY <1>6, Zenon DEF Replacement
  <2>2. left \notin B \ {o}
    BY <1>5, Zenon
  <2> DEFINE r2 == Credit(res1, left.addr, left.prop, left.remaining)
             D == B \ {o}
  <2>3. r2 = res2
    <3> DEFINE a == o.addr
               p == o.prop
               m == o.remaining
               k == left.remaining
    <3>1. /\ r2 = Credit(res1, a, p, k) /\ res1 = Debit(res, a, p, m) /\ res2 = Debit(res, a, p, n)
          /\ a \in Address /\ p \in Property /\ m \in Nat /\ k = m - n
      BY <1>1, <1>5, Zenon
    <3> HIDE DEF a, p, m, k, r2, res1
    <3>2. <<a, p>> \in Slot
      BY <3>1, TallyAt, Zenon
    <3>3. res1 = [res EXCEPT ![<<a, p>>] = res[<<a, p>>] - m] /\ res2 = [res EXCEPT ![<<a, p>>] = res[<<a, p>>] - n]
          /\ r2 = [res1 EXCEPT ![<<a, p>>] = res1[<<a, p>>] + k]
      BY <3>1, Zenon DEF Credit, Debit
    <3>4. res[<<a, p>>] \in Int
      BY <3>2 DEF NatTally
    <3>5. res1[<<a, p>>] = res[<<a, p>>] - m
      BY <3>2, <3>3, Zenon DEF NatTally
    <3>6. res1[<<a, p>>] + k = res[<<a, p>>] - n
      BY <3>1, <3>4, <3>5
    <3> QED
      BY <3>2, <3>3, <3>6, Zenon DEF NatTally
  <2>4. D \subseteq Order
    BY Zenon
  <2>5. BookMatches(res1, D) /\ IsFiniteSet(D) /\ left \notin D
    BY <1>2, <2>2, Zenon
  <2> HIDE DEF D, res1
  <2>6. r2 \in NatTally /\ BookMatches(r2, D \cup {left}) /\ IsFiniteSet(D \cup {left})
    BY <1>2, <1>5, <2>4, <2>5, BookPuts, Zenon
  <2> QED
    BY <1>4, <2>1, <2>3, <2>6, Zenon DEF D
<1>7. CASE ~(left.remaining > 0)
  <2>1. C = B \ {o}
    BY <1>7, Zenon DEF Replacement
  <2>2. n = o.remaining
    BY <1>1, <1>5, <1>7
  <2> QED
    BY <1>2, <1>4, <2>1, <2>2, Zenon
<1> QED
  BY <1>6, <1>7, Zenon

\* Only the fees of q may change.
SameBut(f0, f2, q) == \A r \in Property \ {q} : f2[r] = f0[r]

\* What a trade moves, with a fee of which d has been handed out: no token
\* of any property is created or lost.
TradeMoves(b0, res, f0, p, q, buyer, seller, n, pay, fee, d, b1, b3, res2, f2) ==
    /\ Grows(b0, b1) /\ Adds(b0, res, b1, res, q, d)
    /\ b0[<<buyer, p>>] >= pay /\ res[<<seller, q>>] >= n
    /\ b3 = Credit(Credit(Debit(b1, buyer, p, pay), seller, p, pay), buyer, q, n - fee)
    /\ res2 = Debit(res, seller, q, n)
    /\ f2[q] + d = f0[q] + fee /\ SameBut(f0, f2, q)

\* A trade with its fee leaves the total of every property as it was; only the
\* buyer's balance of what they pay with gets smaller, by no more than the price.
LEMMA TradeHeld ==
  ASSUME NEW b0 \in NatTally, NEW res \in NatTally, NEW f0 \in FeeTally,
         NEW p \in Property, NEW q \in Property, NEW buyer \in Address, NEW seller \in Address,
         NEW n \in Nat, NEW pay \in Nat, NEW fee \in Nat, fee <= n, NEW d \in Nat,
         NEW b1 \in NatTally, NEW b3, NEW res2, NEW f2 \in FeeTally,
         TradeMoves(b0, res, f0, p, q, buyer, seller, n, pay, fee, d, b1, b3, res2, f2)
  PROVE  /\ b3 \in NatTally /\ res2 \in NatTally
         /\ SameHeld(b0, res, f0, b3, res2, f2)
         /\ GrowsBut(b0, b3, <<buyer, p>>)
         /\ b3[<<buyer, p>>] >= b0[<<buyer, p>>] - pay
<1> DEFINE k == n - fee
           b2 == Credit(Debit(b1, buyer, p, pay), seller, p, pay)
<1>0. /\ Grows(b0, b1) /\ Adds(b0, res, b1, res, q, d)
      /\ b0[<<buyer, p>>] >= pay /\ res[<<seller, q>>] >= n
      /\ b3 = Credit(b2, buyer, q, k) /\ b2 = Credit(Debit(b1, buyer, p, pay), seller, p, pay)
      /\ res2 = Debit(res, seller, q, n)
      /\ f2[q] + d = f0[q] + fee /\ SameBut(f0, f2, q)
  BY Zenon DEF TradeMoves
<1>14. k \in Nat
  OBVIOUS
<1> HIDE DEF k, b2
<1> DEFINE m == -n
           x == <<buyer, p>>
<1>1. k \in Nat /\ m \in Int /\ n \in Int /\ k \in Int /\ x \in Slot
  BY <1>14, TallyAt
<1>2. \A s \in Slot : b0[s] \in Nat /\ b1[s] \in Nat
  BY Zenon DEF NatTally
<1>3. b1[<<buyer, p>>] >= pay
  <2>1. b1[x] >= b0[x] /\ b0[x] \in Nat /\ b1[x] \in Nat
    BY <1>0, <1>1, <1>2, Zenon DEF Grows
  <2> QED
    BY <1>0, <2>1 DEF x
<1>4. /\ b2 \in NatTally /\ SameHeld(b1, res, f0, b2, res, f0)
      /\ GrowsBut(b1, b2, <<buyer, p>>)
  BY <1>0, <1>3, Sent
<1>5. b3 \in NatTally /\ Grows(b2, b3)
  BY <1>0, <1>1, <1>4, CreditNat, Zenon
<1>6. res2 \in NatTally
  BY <1>0, DebitNat, Zenon
<1>7. b0 \in Tally /\ b1 \in Tally /\ b2 \in Tally /\ b3 \in Tally /\ res \in Tally /\ res2 \in Tally
  BY <1>4, <1>5, <1>6 DEF Tally, NatTally
<1>8. Adds(b2, res, b3, res, q, k)
  BY <1>0, <1>1, <1>7, CreditAdds, Zenon
<1>9. Adds(b3, res, b3, res2, q, m)
  BY <1>0, <1>1, <1>7, DebitAdds, Zenon
<1> HIDE DEF m, x
<1>10. ASSUME NEW r \in Property PROVE Held(b3, res2, f2, r) = Held(b0, res, f0, r)
  <2>1. /\ Tot(b0, res, r) \in Int /\ Tot(b1, res, r) \in Int /\ Tot(b2, res, r) \in Int
        /\ Tot(b3, res, r) \in Int /\ Tot(b3, res2, r) \in Int
    BY <1>7, TotType, Zenon
  <2>2. f0[r] \in Int /\ f2[r] \in Int
    BY DEF FeeTally
  <2>3. Tot(b2, res, r) = Tot(b1, res, r)
    <3>1. Tot(b2, res, r) + f0[r] = Tot(b1, res, r) + f0[r]
      BY <1>4, Zenon DEF SameHeld, Held
    <3> QED
      BY <2>1, <2>2, <3>1
  <2>4. CASE r = q
    <3>1. /\ Tot(b1, res, r) = Tot(b0, res, r) + d /\ Tot(b3, res, r) = Tot(b2, res, r) + k
          /\ Tot(b3, res2, r) = Tot(b3, res, r) + m
      BY <1>0, <1>8, <1>9, <2>4, Zenon DEF Adds
    <3>2. f2[r] + d = f0[r] + fee
      BY <1>0, <2>4, Zenon
    <3>3. k + m = -fee
      BY DEF k, m
    <3> DEFINE t0 == Tot(b0, res, r)
               t2 == Tot(b3, res2, r)
               g0 == f0[r]
               g2 == f2[r]
    <3>4. t2 = ((t0 + d) + k) + m /\ t0 \in Int
      BY <2>1, <2>3, <3>1, Zenon
    <3>5. g0 \in Int /\ g2 \in Int /\ g2 + d = g0 + fee
      BY <2>2, <3>2, Zenon
    <3> HIDE DEF t0, t2, g0, g2
    <3>6. t2 + g2 = t0 + g0
      BY <1>1, <3>3, <3>4, <3>5
    <3> QED
      BY <3>6, Zenon DEF Held, t0, t2, g0, g2
  <2>5. CASE r # q
    <3>1. /\ Tot(b1, res, r) = Tot(b0, res, r) /\ Tot(b3, res, r) = Tot(b2, res, r)
          /\ Tot(b3, res2, r) = Tot(b3, res, r)
      BY <1>0, <1>8, <1>9, <2>5, Zenon DEF Adds
    <3>2. f2[r] = f0[r]
      BY <1>0, <2>5, Zenon DEF SameBut
    <3> QED
      BY <2>3, <3>1, <3>2, Zenon DEF Held
  <2> QED
    BY <2>4, <2>5, Zenon
<1>11. \A s \in Slot : b2[s] \in Nat /\ b3[s] \in Nat
  BY <1>4, <1>5, Zenon DEF NatTally
<1>12. ASSUME NEW s \in Slot, s # x PROVE b3[s] >= b0[s]
  <2>1. b3[s] >= b2[s] /\ b2[s] >= b1[s] /\ b1[s] >= b0[s]
    BY <1>0, <1>4, <1>5, <1>12, Zenon DEF Grows, GrowsBut, x
  <2>2. b0[s] \in Nat /\ b1[s] \in Nat /\ b2[s] \in Nat /\ b3[s] \in Nat
    BY <1>2, <1>11, Zenon
  <2> QED
    BY <2>1, <2>2
<1>13. b3[x] >= b0[x] - pay
  <2> DEFINE c1 == Debit(b1, buyer, p, pay)
  <2>1. c1 \in NatTally /\ c1[<<buyer, p>>] = b1[<<buyer, p>>] - pay
    BY <1>3, DebitNat
  <2>2. b2 = Credit(c1, seller, p, pay)
    BY <1>0, Zenon
  <2> HIDE DEF c1
  <2>3. Grows(c1, b2)
    BY <2>1, <2>2, CreditNat, Zenon
  <2>4. b3[x] >= b2[x] /\ b2[x] >= c1[x] /\ b1[x] >= b0[x] /\ c1[x] = b1[x] - pay
    BY <1>0, <1>1, <1>5, <2>1, <2>3, Zenon DEF Grows, x
  <2>5. b0[x] \in Nat /\ b1[x] \in Nat /\ b2[x] \in Nat /\ b3[x] \in Nat
    BY <1>1, <1>2, <1>11, Zenon
  <2> QED
    BY <2>4, <2>5
<1> QED
  BY <1>5, <1>6, <1>10, <1>12, <1>13, Zenon DEF SameHeld, GrowsBut, x

=============================================================================
