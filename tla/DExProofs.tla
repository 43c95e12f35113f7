----------------------------- MODULE DExProofs -----------------------------
(***************************************************************************)
(* Proofs about DEx, for any addresses, properties, amounts, windows and   *)
(* number of blocks and offers: sums, the invariant that needs none of     *)
(* them, and the sums over accept orders and addresses that                *)
(* TokensConserved and OfferNotOversold are about.                         *)
(***************************************************************************)
EXTENDS DEx, FiniteSetTheorems, WellFoundedInduction, TLAPS

-----------------------------------------------------------------------------
(* Sums.  SumOver takes its summands one by one; the lemmas say that their *)
(* order does not matter.                                                  *)

\* The order of the numbers, as a relation.
Less == {ss \in Nat \X Nat : ss[1] < ss[2]}

\* The natural numbers are well-founded.
LEMMA LessWellFounded == IsWellFoundedOn(Less, Nat)
  BY NatLessThanWellFounded, Zenon DEF Less, OpToRel

\* Among subsets of a finite set there is one that has none of the others
\* inside it.
LEMMA SmallestSet ==
  ASSUME NEW S, IsFiniteSet(S), NEW B \in SUBSET SUBSET S, B # {}
  PROVE  \E T \in B : \A U \in B : U \subseteq T => U = T
<1> DEFINE W == {Cardinality(T) : T \in B}
<1>1. \A T \in B : IsFiniteSet(T) /\ Cardinality(T) \in Nat
  BY FS_Subset, FS_CardinalityType, Zenon
<1>2. W \subseteq Nat /\ W # {}
  BY <1>1, Zenon
<1>3. PICK w \in W : \A v \in W : ~(<<v, w>> \in Less)
  <2> HIDE DEF W
  <2> QED
    BY <1>2, LessWellFounded, WFMin
<1>4. PICK T \in B : Cardinality(T) = w
  BY Zenon
<1>5. ASSUME NEW U \in B, U \subseteq T, U # T PROVE FALSE
  <2>1. Cardinality(U) < Cardinality(T)
    BY <1>1, <1>5, FS_Subset
  <2>2. Cardinality(U) \in W
    BY Zenon
  <2> QED
    BY <1>1, <1>3, <1>4, <2>1, <2>2, Zenon DEF Less
<1> QED
  BY <1>5, Zenon

\* The equation that SumOver solves, for the summands f of the set S.
SumStep(f, S, g) ==
    [T \in SUBSET S |-> IF T = {} THEN 0
                        ELSE LET x == CHOOSE x \in T : TRUE IN f[x] + g[T \ {x}]]
Solves(g, f, S) == g = SumStep(f, S, g)
Sum(f, S) == (CHOOSE g : Solves(g, f, S))[S]

\* What a solution is.
LEMMA SolutionAt ==
  ASSUME NEW f, NEW S, NEW g, Solves(g, f, S), NEW T \in SUBSET S
  PROVE  /\ T = {} => g[T] = 0
         /\ T # {} => \E x \in T : x = (CHOOSE y \in T : TRUE) /\ g[T] = f[x] + g[T \ {x}]
<1>1. g[T] = SumStep(f, S, g)[T]
  BY Zenon DEF Solves
<1> QED
  BY <1>1, Zenon DEF SumStep

\* A solution for a set is one for its subsets.
LEMMA SolutionRestricts ==
  ASSUME NEW f, NEW S, NEW T \in SUBSET S, NEW g, Solves(g, f, S)
  PROVE  Solves([U \in SUBSET T |-> g[U]], f, T)
<1> DEFINE h == [U \in SUBSET T |-> g[U]]
<1>1. ASSUME NEW U \in SUBSET T
      PROVE  h[U] = IF U = {} THEN 0 ELSE LET x == CHOOSE x \in U : TRUE IN f[x] + h[U \ {x}]
  <2>1. U \in SUBSET S
    BY Zenon
  <2>2. CASE U = {}
    BY <2>1, <2>2, SolutionAt, Zenon
  <2>3. CASE U # {}
    <3>1. PICK x \in U : x = (CHOOSE y \in U : TRUE) /\ g[U] = f[x] + g[U \ {x}]
      BY <2>1, <2>3, SolutionAt
    <3>2. U \ {x} \in SUBSET T
      BY Zenon
    <3> QED
      BY <2>3, <3>1, <3>2, Zenon
  <2> QED
    BY <2>2, <2>3, Zenon
<1> HIDE DEF h
<1>2. h = SumStep(f, T, h)
  BY <1>1, Zenon DEF SumStep, h
<1> QED
  BY <1>2, Zenon DEF Solves, h

\* There is at most one.
LEMMA SolutionUnique ==
  ASSUME NEW f, NEW S, IsFiniteSet(S), NEW g, NEW h, Solves(g, f, S), Solves(h, f, S)
  PROVE  \A T \in SUBSET S : g[T] = h[T]
<1> DEFINE B == {T \in SUBSET S : g[T] # h[T]}
<1>1. B = {}
  <2> SUFFICES ASSUME B # {} PROVE FALSE
    BY Zenon
  <2>1. PICK T \in B : \A U \in B : U \subseteq T => U = T
    <3> HIDE DEF B
    <3>1. B \in SUBSET SUBSET S
      BY Zenon DEF B
    <3> QED
      BY <3>1, SmallestSet
  <2>2. T # {}
    <3>1. T = {} => g[T] = 0 /\ h[T] = 0
      BY SolutionAt
    <3> QED
      BY <3>1, Zenon
  <2>3. PICK x \in T : x = (CHOOSE y \in T : TRUE) /\ g[T] = f[x] + g[T \ {x}]
    BY <2>2, SolutionAt
  <2>4. h[T] = f[x] + h[T \ {x}]
    <3>1. PICK z \in T : z = (CHOOSE y \in T : TRUE) /\ h[T] = f[z] + h[T \ {z}]
      BY <2>2, SolutionAt
    <3> QED
      BY <2>3, <3>1, Zenon
  <2>5. T \ {x} \in SUBSET S /\ T \ {x} \subseteq T /\ T \ {x} # T
    BY Zenon
  <2>6. g[T \ {x}] = h[T \ {x}]
    BY <2>1, <2>5, Zenon
  <2> QED
    BY <2>3, <2>4, <2>6, Zenon
<1> QED
  BY <1>1, Zenon

\* There is one.
LEMMA SolutionExists ==
  ASSUME NEW f, NEW S, IsFiniteSet(S)
  PROVE  \E g : Solves(g, f, S)
<1> DEFINE B == {T \in SUBSET S : ~ \E g : Solves(g, f, T)}
<1>1. B = {}
  <2> SUFFICES ASSUME B # {} PROVE FALSE
    BY Zenon
  <2>1. PICK T \in B : \A U \in B : U \subseteq T => U = T
    <3> HIDE DEF B
    <3>1. B \in SUBSET SUBSET S
      BY Zenon DEF B
    <3> QED
      BY <3>1, SmallestSet
  <2> DEFINE G(U) == CHOOSE g : Solves(g, f, U)
             c == CHOOSE y \in T : TRUE
             h == [U \in SUBSET T |-> IF U # T THEN G(U)[U]
                                     ELSE IF T = {} THEN 0 ELSE f[c] + G(T \ {c})[T \ {c}]]
  <2>2. ASSUME NEW U \in SUBSET T, U # T PROVE Solves(G(U), f, U)
    <3>1. U \notin B
      BY <2>1, <2>2, Zenon
    <3> QED
      BY <3>1, Zenon
  <2>3. ASSUME NEW U \in SUBSET T, U # T, NEW V \in SUBSET U PROVE G(U)[V] = G(V)[V]
    <3> HIDE DEF G, B
    <3> DEFINE r == [X \in SUBSET V |-> G(U)[X]]
    <3>1. V \in SUBSET T /\ V # T /\ IsFiniteSet(V)
      <4>1. V \in SUBSET S
        BY Zenon DEF B
      <4> QED
        BY <2>3, <4>1, FS_Subset, Zenon
    <3>2. Solves(G(U), f, U) /\ Solves(G(V), f, V)
      BY <2>2, <2>3, <3>1, Zenon
    <3>3. Solves(r, f, V)
      BY <3>2, SolutionRestricts, Zenon
    <3>4. r[V] = G(U)[V]
      BY Zenon
    <3> HIDE DEF r
    <3> QED
      BY <3>1, <3>2, <3>3, <3>4, SolutionUnique
  <2>4. ASSUME NEW U \in SUBSET T
        PROVE  h[U] = IF U = {} THEN 0 ELSE LET x == CHOOSE x \in U : TRUE IN f[x] + h[U \ {x}]
    <3> HIDE DEF B
    <3>1. CASE U = T
      <4>1. T # {} => T \ {c} \in SUBSET T /\ T \ {c} # T
        BY Zenon
      <4> HIDE DEF G
      <4> QED
        BY <3>1, <4>1, Zenon
    <3>2. CASE U # T
      <4>1. Solves(G(U), f, U) /\ h[U] = G(U)[U]
        BY <2>2, <3>2, Zenon
      <4> HIDE DEF G, h
      <4>2. CASE U = {}
        BY <4>1, <4>2, SolutionAt
      <4>3. CASE U # {}
        <5>1. PICK x \in U : x = (CHOOSE y \in U : TRUE) /\ G(U)[U] = f[x] + G(U)[U \ {x}]
          BY <4>1, <4>3, SolutionAt
        <5>2. U \ {x} \in SUBSET U /\ U \ {x} \in SUBSET T /\ U \ {x} # T
          BY Zenon
        <5>3. G(U)[U \ {x}] = G(U \ {x})[U \ {x}]
          BY <2>3, <3>2, <5>2, Zenon
        <5>4. h[U \ {x}] = G(U \ {x})[U \ {x}]
          BY <5>2, Zenon DEF h
        <5> QED
          BY <4>1, <4>3, <5>1, <5>3, <5>4, Zenon
      <4> QED
        BY <4>2, <4>3, Zenon
    <3> QED
      BY <3>1, <3>2, Zenon
  <2>5. Solves(h, f, T)
    <3> HIDE DEF h, B, G, c
    <3>1. h = [U \in SUBSET T |-> h[U]]
      BY DEF h
    <3>2. h = SumStep(f, T, h)
      BY <2>4, <3>1, Zenon DEF SumStep
    <3> QED
      BY <3>2, Zenon DEF Solves
  <2> HIDE DEF h
  <2> QED
    BY <2>1, <2>5, Zenon
<1>2. S \in SUBSET S
  BY Zenon
<1> QED
  BY <1>1, <1>2, Zenon

\* The sum of a finite set is taken apart at the element that is chosen.
LEMMA SumAtChoice ==
  ASSUME NEW f, NEW S, IsFiniteSet(S)
  PROVE  /\ Sum(f, {}) = 0
         /\ S # {} => \E x \in S : x = (CHOOSE y \in S : TRUE) /\ Sum(f, S) = f[x] + Sum(f, S \ {x})
<1> DEFINE G(U) == CHOOSE g : Solves(g, f, U)
<1>1. ASSUME NEW U, IsFiniteSet(U) PROVE Solves(G(U), f, U) /\ Sum(f, U) = G(U)[U]
  BY <1>1, SolutionExists, Zenon DEF Sum
<1> HIDE DEF G
<1>2. IsFiniteSet({})
  BY FS_EmptySet, Zenon
<1>3. Sum(f, {}) = 0
  BY <1>1, <1>2, SolutionAt
<1>4. ASSUME S # {}
      PROVE  \E x \in S : x = (CHOOSE y \in S : TRUE) /\ Sum(f, S) = f[x] + Sum(f, S \ {x})
  <2>1. PICK x \in S : x = (CHOOSE y \in S : TRUE) /\ G(S)[S] = f[x] + G(S)[S \ {x}]
    BY <1>1, <1>4, SolutionAt
  <2> DEFINE V == S \ {x}
             r == [X \in SUBSET V |-> G(S)[X]]
  <2>2. V \in SUBSET S /\ V \in SUBSET V /\ IsFiniteSet(V)
    BY FS_Subset, Zenon
  <2>3. Solves(r, f, V) /\ Solves(G(V), f, V)
    BY <1>1, <2>2, SolutionRestricts
  <2>4. r[V] = G(S)[V]
    BY <2>2, Zenon
  <2>5. r[V] = G(V)[V]
    <3> HIDE DEF r, V
    <3> QED
      BY <2>2, <2>3, SolutionUnique
  <2>6. Sum(f, V) = G(V)[V] /\ Sum(f, S) = G(S)[S]
    BY <1>1, <2>2, Zenon
  <2> QED
    BY <2>1, <2>4, <2>5, <2>6, Zenon
<1> QED
  BY <1>3, <1>4, Zenon

\* The sum of integers is one.
LEMMA SumType ==
  ASSUME NEW f, NEW S, IsFiniteSet(S), \A x \in S : f[x] \in Int
  PROVE  /\ Sum(f, S) \in Int
         /\ (\A x \in S : f[x] >= 0) => Sum(f, S) >= 0
<1> DEFINE Good(T) == Sum(f, T) \in Int /\ ((\A x \in S : f[x] >= 0) => Sum(f, T) >= 0)
           B == {T \in SUBSET S : ~Good(T)}
<1>1. B = {}
  <2> SUFFICES ASSUME B # {} PROVE FALSE
    BY Zenon
  <2>1. PICK T \in B : \A U \in B : U \subseteq T => U = T
    <3> HIDE DEF B
    <3>1. B \in SUBSET SUBSET S
      BY Zenon DEF B
    <3> QED
      BY <3>1, SmallestSet
  <2>2. T \in SUBSET S /\ IsFiniteSet(T)
    BY FS_Subset, Zenon
  <2>3. T # {}
    <3>1. Sum(f, {}) = 0
      BY <2>2, SumAtChoice, Zenon
    <3>2. Good({})
      BY <3>1
    <3> QED
      BY <3>2, Zenon
  <2>4. PICK x \in T : Sum(f, T) = f[x] + Sum(f, T \ {x})
    BY <2>2, <2>3, SumAtChoice
  <2>5. T \ {x} \in SUBSET S /\ T \ {x} \subseteq T /\ T \ {x} # T
    BY Zenon
  <2>6. Good(T \ {x})
    BY <2>1, <2>5, Zenon
  <2>7. Good(T)
    <3> DEFINE s == Sum(f, T \ {x})
    <3>1. f[x] \in Int /\ s \in Int /\ x \in S
      BY <2>2, <2>6, Zenon
    <3>2. (\A y \in S : f[y] >= 0) => s >= 0 /\ f[x] >= 0
      BY <2>6, <3>1, Zenon
    <3> HIDE DEF s, B
    <3>3. f[x] + s \in Int /\ ((\A y \in S : f[y] >= 0) => f[x] + s >= 0)
      BY <3>1, <3>2
    <3> QED
      BY <2>4, <3>3, Zenon DEF s
  <2> QED
    BY <2>7, Zenon
<1>2. Good(S)
  BY <1>1, Zenon
<1> QED
  BY <1>2, Zenon

\* It is taken apart at any element.
LEMMA SumRemove ==
  ASSUME NEW f, NEW S, IsFiniteSet(S), \A x \in S : f[x] \in Int, NEW x \in S
  PROVE  Sum(f, S) = f[x] + Sum(f, S \ {x})
<1> DEFINE Good(T) == \A z \in T : Sum(f, T) = f[z] + Sum(f, T \ {z})
           B == {T \in SUBSET S : ~Good(T)}
<1>1. B = {}
  <2> SUFFICES ASSUME B # {} PROVE FALSE
    BY Zenon
  <2>1. PICK T \in B : \A U \in B : U \subseteq T => U = T
    <3> HIDE DEF B
    <3>1. B \in SUBSET SUBSET S
      BY Zenon DEF B
    <3> QED
      BY <3>1, SmallestSet
  <2>2. T \in SUBSET S /\ IsFiniteSet(T)
    BY FS_Subset, Zenon
  <2>3. PICK z \in T : Sum(f, T) # f[z] + Sum(f, T \ {z})
    BY <2>1, Zenon
  <2>4. PICK c \in T : Sum(f, T) = f[c] + Sum(f, T \ {c})
    BY <2>2, <2>3, SumAtChoice
  <2>5. c # z
    BY <2>3, <2>4, Zenon
  <2>6. ASSUME NEW y \in T PROVE T \ {y} \in SUBSET S /\ T \ {y} # T /\ Good(T \ {y})
    <3>1. T \ {y} \in SUBSET S /\ T \ {y} \subseteq T /\ T \ {y} # T
      BY Zenon
    <3>2. T \ {y} \notin B
      BY <2>1, <3>1, Zenon
    <3> QED
      BY <3>1, <3>2, Zenon
  <2> HIDE DEF B
  <2>7. Sum(f, T \ {c}) = f[z] + Sum(f, (T \ {c}) \ {z})
    BY <2>5, <2>6, Zenon
  <2>8. Sum(f, T \ {z}) = f[c] + Sum(f, (T \ {z}) \ {c})
    BY <2>5, <2>6, Zenon
  <2>9. (T \ {c}) \ {z} = (T \ {z}) \ {c}
    BY Zenon
  <2>10. Sum(f, (T \ {z}) \ {c}) \in Int /\ f[c] \in Int /\ f[z] \in Int
    <3>1. IsFiniteSet((T \ {z}) \ {c})
      BY <2>2, FS_Subset, Zenon
    <3> QED
      BY <2>2, <3>1, SumType, Zenon
  <2>11. f[c] + (f[z] + Sum(f, (T \ {z}) \ {c})) = f[z] + (f[c] + Sum(f, (T \ {z}) \ {c}))
    BY <2>10
  <2> HIDE DEF Good
  <2> QED
    BY <2>3, <2>4, <2>7, <2>8, <2>9, <2>11, Zenon
<1>2. Good(S)
  BY <1>1, Zenon
<1> QED
  BY <1>2, Zenon

\* It depends on the summands alone.
LEMMA SumSame ==
  ASSUME NEW f, NEW g, NEW S, IsFiniteSet(S), \A x \in S : f[x] = g[x]
  PROVE  Sum(f, S) = Sum(g, S)
<1> DEFINE B == {T \in SUBSET S : Sum(f, T) # Sum(g, T)}
<1>1. B = {}
  <2> SUFFICES ASSUME B # {} PROVE FALSE
    BY Zenon
  <2>1. PICK T \in B : \A U \in B : U \subseteq T => U = T
    <3> HIDE DEF B
    <3>1. B \in SUBSET SUBSET S
      BY Zenon DEF B
    <3> QED
      BY <3>1, SmallestSet
  <2>2. T \in SUBSET S /\ IsFiniteSet(T)
    BY FS_Subset, Zenon
  <2>3. T # {}
    BY <2>2, SumAtChoice, Zenon
  <2>4. PICK x \in T : x = (CHOOSE y \in T : TRUE) /\ Sum(f, T) = f[x] + Sum(f, T \ {x})
    BY <2>2, <2>3, SumAtChoice, Zenon
  <2>5. PICK z \in T : z = (CHOOSE y \in T : TRUE) /\ Sum(g, T) = g[z] + Sum(g, T \ {z})
    BY <2>2, <2>3, SumAtChoice, Zenon
  <2>6. Sum(g, T) = g[x] + Sum(g, T \ {x})
    BY <2>4, <2>5, Zenon
  <2>7. T \ {x} \in SUBSET S /\ T \ {x} \subseteq T /\ T \ {x} # T
    BY Zenon
  <2>8. Sum(f, T \ {x}) = Sum(g, T \ {x}) /\ f[x] = g[x]
    BY <2>1, <2>7, Zenon
  <2> QED
    BY <2>4, <2>6, <2>8, Zenon
<1> QED
  BY <1>1, Zenon

\* What a change of one summand does, and a new one.
LEMMA SumUpdate ==
  ASSUME NEW f, NEW g, NEW S, IsFiniteSet(S), NEW x \in S, NEW d \in Int,
         \A y \in S : f[y] \in Int, g[x] = f[x] + d, \A y \in S \ {x} : g[y] = f[y]
  PROVE  Sum(g, S) = Sum(f, S) + d
<1>1. IsFiniteSet(S \ {x})
  BY FS_Subset, Zenon
<1>2. Sum(f, S \ {x}) \in Int /\ f[x] \in Int
  BY <1>1, SumType, Zenon
<1>3. \A y \in S : g[y] \in Int
  BY <1>2
<1>4. Sum(f, S) = f[x] + Sum(f, S \ {x})
  BY SumRemove
<1>5. Sum(g, S) = g[x] + Sum(g, S \ {x})
  BY <1>3, SumRemove
<1>6. Sum(g, S \ {x}) = Sum(f, S \ {x})
  BY <1>1, SumSame
<1> QED
  BY <1>2, <1>4, <1>5, <1>6

\* An element joins or leaves the set.
LEMMA SumJoin ==
  ASSUME NEW f, NEW S, IsFiniteSet(S), NEW x, x \notin S, f[x] \in Int,
         \A y \in S : f[y] \in Int
  PROVE  Sum(f, S \cup {x}) = Sum(f, S) + f[x]
<1> DEFINE T == S \cup {x}
<1>1. IsFiniteSet(T) /\ x \in T /\ T \ {x} = S /\ \A y \in T : f[y] \in Int
  BY FS_AddElement, Zenon
<1>2. Sum(f, T) = f[x] + Sum(f, T \ {x})
  <2> HIDE DEF T
  <2> QED
    BY <1>1, SumRemove
<1>3. Sum(f, S) \in Int
  BY SumType, Zenon
<1>4. Sum(f, T) = f[x] + Sum(f, S)
  BY <1>1, <1>2, Zenon
<1> QED
  BY <1>3, <1>4

-----------------------------------------------------------------------------
(* The invariant that needs no sums over accept orders.                    *)

\* The types.  That the reserves and balances stay natural numbers is what the
\* asserts around update_tally_map say: no debit is larger than what is there;
\* the sign of ACCEPT_RESERVE rests on the sums, see TalliesAreNatural.
Types ==
    /\ balance \in [Slot -> Nat]
    /\ sellofferReserve \in [Slot -> Nat]
    /\ DOMAIN my_offers \subseteq Slot
    /\ my_offers \in [DOMAIN my_offers -> Offer]
    /\ DOMAIN my_accepts \subseteq Address \X Property \X Address
    /\ my_accepts \in [DOMAIN my_accepts -> Accept]
    /\ setFrozenAddresses \subseteq Slot
    /\ block \in Nat \ {0} /\ (erasing => block < MaxBlock)
    /\ txid \in Nat
    /\ exodus_prev \in Nat
    /\ paying = Nobody \/ (paying.left \in Seq(Address \X Nat) /\ paying.buyer \in Address)

IInv == Types /\ ReservedTokensAreOnOffer /\ AcceptsExpireInTime

-----------------------------------------------------------------------------
\* ceil(n / d) is a natural number.
LEMMA RoundUpType ==
    ASSUME NEW n \in Nat, NEW d \in Nat \ {0}
    PROVE  DivideAndRoundUp(n, d) \in Nat
<1>1. CASE n = 0
  BY <1>1, Zenon DEF DivideAndRoundUp
<1>2. CASE n # 0
  BY <1>2 DEF DivideAndRoundUp
<1>. QED BY <1>1, <1>2, Zenon

\* Updates of a tally.
LEMMA CreditType ==
    ASSUME NEW t \in [Slot -> Nat], NEW a \in Address, NEW p \in Property, NEW n \in Nat
    PROVE  /\ Credit(t, a, p, n) \in [Slot -> Nat]
           /\ \A s \in Slot : Credit(t, a, p, n)[s] >= t[s]
BY DEF Credit, Slot

\* A debit of no more than there is leaves the other slots alone.
LEMMA DebitType ==
    ASSUME NEW t \in [Slot -> Nat], NEW a \in Address, NEW p \in Property, NEW n \in Nat,
           n <= t[<<a, p>>]
    PROVE  /\ Debit(t, a, p, n) \in [Slot -> Nat]
           /\ \A s \in Slot : s # <<a, p>> => Debit(t, a, p, n)[s] = t[s]
BY DEF Debit, Slot

\* Royalties are a whole number, whatever overflows.
LEMMA RoyaltiesType ==
    ASSUME NEW p \in Property, NEW d \in Int
    PROVE  RoyaltiesOf(p, d) \in Int
<1>. DEFINE x == d * RoyaltyPercent[p]
            y == Wrapped(x)
<1>1. x \in Int
  BY RoyaltyType
<1>2. \A i \in Int, w \in Nat \ {0} : i % w \in Int
  OBVIOUS
<1>. HIDE DEF x
<1>3. x + MaxInt + 1 \in Int /\ MaxInt + 1 \in Int /\ 2 * (MaxInt + 1) \in Nat \ {0}
  BY <1>1, AmountsType
<1>4. (x + MaxInt + 1) % (2 * (MaxInt + 1)) \in Int
  BY <1>2, <1>3, Zenon
<1>5. y \in Int
  BY <1>3, <1>4 DEF Wrapped
<1>. HIDE DEF y
<1>6. Percentage(y) \in Int
  BY <1>5 DEF Percentage
<1>. QED BY <1>6, Zenon DEF RoyaltiesOf, x, y

\* A payment buys a natural number of tokens, and no more than are left.
LEMMA PurchasedType ==
    ASSUME Types, NEW k \in DOMAIN my_accepts, NEW rpd \in Nat,
           Convertible(my_accepts[k].amount, my_accepts[k].desired, PaidFor(k, rpd))
    PROVE  /\ PurchasedOf(k, rpd) \in Nat
           /\ PurchasedOf(k, rpd) <= my_accepts[k].remaining
<1>. DEFINE acc == my_accepts[k]
            paid == PaidFor(k, rpd)
            n == calculateDExPurchase(acc.amount, acc.desired, paid)
<1>1. acc \in Accept /\ k[2] \in Property
  BY Zenon DEF Types
<1>0. acc.desired \in Int \ {0} /\ acc.desired >= 0 /\ paid >= 0
  BY <1>1, Zenon DEF Accept, Convertible
<1>2. acc.remaining \in Nat /\ acc.amount \in Nat /\ acc.desired \in Nat \ {0}
  <2>1. acc.remaining \in Nat /\ acc.amount \in Nat
    BY <1>1, Zenon DEF Accept
  <2>. HIDE DEF acc
  <2>. QED BY <1>0, <2>1
<1>3. RoyaltiesOf(k[2], acc.desired) \in Int
  BY <1>0, <1>1, RoyaltiesType, Zenon
<1>4. paid \in Nat
  <2>1. paid \in Int
    BY <1>3 DEF PaidFor
  <2>. QED BY <1>0, <2>1
<1>5. paid * acc.amount \in Nat
  BY <1>2, <1>4
<1>6. n \in Nat
  BY <1>2, <1>5, RoundUpType, Zenon DEF calculateDExPurchase
<1>7. PurchasedOf(k, rpd) = IF acc.remaining < n THEN acc.remaining ELSE n
  BY Zenon DEF PurchasedOf
<1>. HIDE DEF n, acc
<1>. QED BY <1>2, <1>6, <1>7 DEF acc

-----------------------------------------------------------------------------
\* The empty exchange satisfies the invariant.
LEMMA InitIInv == Init => IInv
<1>. SUFFICES ASSUME Init PROVE IInv
  BY Zenon
<1>. DEFINE f == [a \in Address |-> InitBalance[<<a, MSC>>]]
<1>1. exodus_prev = Sum(f, Address)
  <2>1. SumOver(Address, LAMBDA a : InitBalance[<<a, MSC>>]) = Sum(f, Address)
    BY ZenonT(30) DEF SumOver, MapThenSumSet, MapThenFoldSet, Sum, Solves, SumStep
  <2>. QED BY <2>1, Zenon DEF Init
<1>2. \A a \in Address : f[a] \in Int /\ f[a] >= 0
  BY InitBalanceType, VestedType DEF Slot
<1>. HIDE DEF f
<1>3. Sum(f, Address) \in Int /\ Sum(f, Address) >= 0
  BY <1>2, AddressesFinite, SumType, Zenon
<1>4. exodus_prev \in Nat
  BY <1>1, <1>3
<1>. QED
  BY <1>4, InitBalanceType
  DEF Init, IInv, Types, ReservedTokensAreOnOffer, AcceptsExpireInTime, Nobody, Slot

\* DEx_offerCreate on maps that satisfy the invariant, whether the ones of
\* the state or the ones that DEx_offerUpdate leaves.
LEMMA OfferCreateStep ==
    ASSUME IInv,
           NEW bal \in [Slot -> Nat], NEW sell \in [Slot -> Nat], NEW offers,
           DOMAIN offers \subseteq Slot, offers \in [DOMAIN offers -> Offer],
           \A s \in Slot : sell[s] > 0 => s \in DOMAIN offers,
           \A k, l \in DOMAIN offers : k[1] = l[1] => k = l,
           NEW who \in Address, NEW p \in Property, NEW n \in Nat \ {0},
           NEW d \in Int, NEW f \in Int, NEW w \in Nat,
           DEx_offerCreate(bal, sell, offers, who, p, n, d, f, w),
           UNCHANGED <<acceptReserve, my_accepts, setFrozenAddresses, block, paying, erasing, exodus_prev>>
    PROVE  IInv'
<1>. DEFINE refused == w = 0 \/ d = 0 \/ DEx_hasOffer(offers, who, p) \/ n > bal[<<who, p>>]
<1>. USE DEF IInv
<1>1. AcceptsExpireInTime'
  BY Zenon DEF AcceptsExpireInTime, Expired
<1>2. CASE refused
  <2>1. balance' = bal /\ sellofferReserve' = sell /\ my_offers' = offers /\ txid' = txid
    BY <1>2, Zenon DEF DEx_offerCreate
  <2>2. Types'
    BY <2>1, Zenon DEF Types, Nobody
  <2>3. ReservedTokensAreOnOffer'
    BY <2>1, Zenon DEF ReservedTokensAreOnOffer
  <2>. QED BY <1>1, <2>2, <2>3, Zenon
<1>3. CASE ~refused
  <2>. DEFINE o == [amount |-> n, desired |-> d, minFee |-> f, window |-> w, txid |-> txid + 1]
  <2>1. /\ balance' = Debit(bal, who, p, n)
        /\ sellofferReserve' = Credit(sell, who, p, n)
        /\ my_offers' = Put(offers, <<who, p>>, o)
        /\ txid' = txid + 1
    BY <1>3, Zenon DEF DEx_offerCreate
  <2>2. w # 0 /\ d # 0 /\ n <= bal[<<who, p>>] /\ \A k \in DOMAIN offers : k[1] # who
    BY <1>3 DEF DEx_hasOffer, Slot
  <2>3. <<who, p>> \in Slot
    BY Zenon DEF Slot
  <2>4. o \in Offer
    BY <2>2 DEF Offer, Types
  <2>5. /\ DOMAIN my_offers' = DOMAIN offers \cup {<<who, p>>}
        /\ my_offers' \in [DOMAIN my_offers' -> Offer]
    BY <2>1, <2>4, Zenon DEF Put
  <2>6. balance' \in [Slot -> Nat] /\ sellofferReserve' \in [Slot -> Nat]
    BY <2>1, <2>2, <2>3 DEF Debit, Credit
  <2>7. Types'
    <3>1. DOMAIN my_offers' \subseteq Slot
      BY <2>3, <2>5, Zenon
    <3>2. txid' \in Nat
      BY <2>1 DEF Types
    <3>. QED BY <3>1, <3>2, <2>5, <2>6, Zenon DEF Types, Nobody
  <2>8. ReservedTokensAreOnOffer'
    <3>1. \A s \in Slot : sellofferReserve'[s] > 0 => s \in DOMAIN my_offers'
      BY <2>1, <2>3, <2>5, Zenon DEF Credit
    <3>2. \A k, l \in DOMAIN my_offers' : k[1] = l[1] => k = l
      BY <2>2, <2>5
    <3>. QED BY <3>1, <3>2, Zenon DEF ReservedTokensAreOnOffer
  <2>. QED BY <1>1, <2>7, <2>8, Zenon
<1>. QED BY <1>2, <1>3, Zenon

\* What DEx_offerDestroy leaves: the reserve of the offer back in the balance.
LEMMA Destroyed ==
    ASSUME IInv, NEW who \in Address, NEW p \in Property
    PROVE  LET sell == [sellofferReserve EXCEPT ![<<who, p>>] = 0]
               offers == Without(my_offers, {<<who, p>>})
           IN  /\ Released(who, p) \in [Slot -> Nat]
               /\ sell \in [Slot -> Nat]
               /\ DOMAIN offers = DOMAIN my_offers \ {<<who, p>>}
               /\ DOMAIN offers \subseteq Slot
               /\ offers \in [DOMAIN offers -> Offer]
               /\ \A s \in Slot : sell[s] > 0 => s \in DOMAIN offers
               /\ \A k, l \in DOMAIN offers : k[1] = l[1] => k = l
<1>1. <<who, p>> \in Slot
  BY Zenon DEF Slot
<1>2. sellofferReserve[<<who, p>>] \in Nat /\ balance \in [Slot -> Nat]
  BY <1>1, Zenon DEF IInv, Types
<1>3. Released(who, p) \in [Slot -> Nat]
  BY <1>1, <1>2 DEF Released, Credit
<1>. QED BY <1>1, <1>3 DEF IInv, Types, ReservedTokensAreOnOffer, Without

\* Making or changing an offer.
LEMMA TradeOfferStep ==
    ASSUME IInv, NEW who \in Address, NEW p \in Property, NEW n \in Amounts, NEW d \in Prices,
           NEW f \in MinFees, NEW w \in Windows, TradeOffer(who, p, n, d, f, w)
    PROVE  IInv'
<1>1. n \in Nat \ {0} /\ d \in Int /\ f \in Int /\ w \in Nat
  BY AmountsType DEF TradeOffer
<1>2. CASE DEx_offerExists(who, p)
  <2>1. DEx_offerUpdate(who, p, n, d, f, w)
    BY <1>2, Zenon DEF TradeOffer
  <2>. DEFINE bal == Released(who, p)
              sell == [sellofferReserve EXCEPT ![<<who, p>>] = 0]
              offers == Without(my_offers, {<<who, p>>})
  <2>2. /\ bal \in [Slot -> Nat] /\ sell \in [Slot -> Nat]
        /\ DOMAIN offers \subseteq Slot /\ offers \in [DOMAIN offers -> Offer]
        /\ \A s \in Slot : sell[s] > 0 => s \in DOMAIN offers
        /\ \A k, l \in DOMAIN offers : k[1] = l[1] => k = l
    BY Destroyed, Zenon
  <2>3. /\ DEx_offerCreate(bal, sell, offers, who, p, n, d, f, w)
        /\ UNCHANGED <<acceptReserve, my_accepts, setFrozenAddresses, block, paying, erasing, exodus_prev>>
    BY <2>1, Zenon DEF DEx_offerUpdate, TradeOffer, ending
  <2>. HIDE DEF bal, sell, offers
  <2>. QED BY <1>1, <2>2, <2>3, OfferCreateStep, Zenon
<1>3. CASE ~DEx_offerExists(who, p)
  <2>1. DEx_offerCreate(balance, sellofferReserve, my_offers, who, p, n, d, f, w)
    BY <1>3, Zenon DEF TradeOffer
  <2>. QED
    BY <1>1, <2>1, OfferCreateStep, Zenon DEF IInv, Types, ReservedTokensAreOnOffer, TradeOffer, ending
<1>. QED BY <1>2, <1>3, Zenon

\* Cancelling an offer.
LEMMA CancelOfferStep ==
    ASSUME IInv, NEW who \in Address, NEW p \in Property, CancelOffer(who, p)
    PROVE  IInv'
<1>1. Types'
  BY Destroyed, Zenon DEF CancelOffer, DEx_offerDestroy, IInv, Types, Nobody, ending
<1>2. ReservedTokensAreOnOffer'
  BY Destroyed, Zenon DEF CancelOffer, DEx_offerDestroy, ReservedTokensAreOnOffer
<1>3. AcceptsExpireInTime'
  BY Zenon DEF CancelOffer, IInv, AcceptsExpireInTime, ending
<1>. QED BY <1>1, <1>2, <1>3, Zenon DEF IInv

\* Accepting an offer: the new order is of this block.
LEMMA AcceptCreateStep ==
    ASSUME IInv, NEW buyer \in Address, NEW seller \in Address, NEW p \in Property,
           NEW n \in Amounts, NEW f \in Fees, DEx_acceptCreate(buyer, seller, p, n, f)
    PROVE  IInv'
<1>. DEFINE s == <<seller, p>>
            k == <<seller, p, buyer>>
            m == Reservable(seller, p, n)
            a == [remaining |-> m, block |-> block, window |-> my_offers[s].window,
                  amount |-> my_offers[s].amount, desired |-> my_offers[s].desired,
                  txid |-> my_offers[s].txid]
<1>1. /\ sellofferReserve' = Debit(sellofferReserve, seller, p, m)
      /\ my_accepts' = Put(my_accepts, k, a)
      /\ m > 0
      /\ s \in DOMAIN my_offers
      /\ UNCHANGED <<balance, my_offers, setFrozenAddresses, block, txid, paying, erasing, exodus_prev>>
  BY Zenon DEF DEx_acceptCreate, DEx_offerExists, ending
<1>2. s \in Slot /\ k \in Address \X Property \X Address
  BY Zenon DEF Slot
<1>3. sellofferReserve[s] \in Nat /\ n \in Nat
  BY <1>2, AmountsType, Zenon DEF IInv, Types
<1>4. m \in Nat \ {0} /\ m <= sellofferReserve[s]
  BY <1>1, <1>3 DEF Reservable
<1>5. my_offers[s] \in Offer
  BY <1>1, Zenon DEF IInv, Types
<1>6. a \in Accept
  BY <1>4, <1>5, Zenon DEF Offer, Accept, IInv, Types
<1>. HIDE DEF m, a
<1>7. /\ DOMAIN my_accepts' = DOMAIN my_accepts \cup {k}
      /\ my_accepts'[k] = a
      /\ \A x \in DOMAIN my_accepts \ {k} : my_accepts'[x] = my_accepts[x]
      /\ my_accepts' \in [DOMAIN my_accepts' -> Accept]
  BY <1>1, <1>6, Zenon DEF Put, IInv, Types
<1>8. sellofferReserve' \in [Slot -> Nat]
  BY <1>1, <1>2, <1>4 DEF Debit, IInv, Types
<1>9. Types'
  <2>1. DOMAIN my_accepts' \subseteq Address \X Property \X Address
    BY <1>2, <1>7, Zenon DEF IInv, Types
  <2>. QED BY <1>1, <1>7, <1>8, <2>1, Zenon DEF IInv, Types, Nobody
<1>10. ReservedTokensAreOnOffer'
  BY <1>1, <1>2, <1>4, Zenon DEF IInv, Types, ReservedTokensAreOnOffer, Debit
<1>11. AcceptsExpireInTime'
  <2>1. a.block = block /\ a.window \in Nat /\ block \in Nat
    BY <1>6, Zenon DEF a, Accept, IInv, Types
  <2>. QED BY <1>1, <1>7, <2>1 DEF IInv, AcceptsExpireInTime
<1>. QED BY <1>9, <1>10, <1>11, Zenon DEF IInv

\* Removing accept orders keeps what is said of the others.
LEMMA AcceptsWithout ==
    ASSUME Types, NEW K
    PROVE  LET rest == Without(my_accepts, K)
           IN  /\ DOMAIN rest \subseteq DOMAIN my_accepts
               /\ rest \in [DOMAIN rest -> Accept]
               /\ \A x \in DOMAIN rest : rest[x] = my_accepts[x]
BY Zenon DEF Without, Types

\* A payment for the accept order k.
LEMMA PurchaseStep ==
    ASSUME IInv, NEW k \in DOMAIN my_accepts, NEW n \in Nat, n <= my_accepts[k].remaining,
           Purchase(k, n), UNCHANGED <<setFrozenAddresses, block, txid, erasing, exodus_prev>>,
           paying' = Nobody \/ (paying'.left \in Seq(Address \X Nat) /\ paying'.buyer \in Address)
    PROVE  IInv'
<1>. DEFINE s == <<k[1], k[2]>>
<1>1. /\ balance' = Credit(balance, k[3], k[2], n)
      /\ sellofferReserve' = sellofferReserve
      /\ my_offers' = my_offers \/ (my_offers' = Without(my_offers, {s}) /\ sellofferReserve[s] = 0)
  BY Zenon DEF Purchase
<1>2. s \in Slot /\ <<k[3], k[2]>> \in Slot
  BY Zenon DEF IInv, Types, Slot
<1>3. balance' \in [Slot -> Nat]
  BY <1>1, <1>2 DEF Credit, IInv, Types
<1>4. /\ DOMAIN my_offers' \subseteq DOMAIN my_offers
      /\ my_offers' \in [DOMAIN my_offers' -> Offer]
      /\ \A x \in DOMAIN my_offers : x # s => x \in DOMAIN my_offers'
      /\ s \in DOMAIN my_offers /\ sellofferReserve[s] > 0 => s \in DOMAIN my_offers'
  BY <1>1 DEF Without, IInv, Types
<1>5. /\ DOMAIN my_accepts' \subseteq DOMAIN my_accepts
      /\ my_accepts' \in [DOMAIN my_accepts' -> Accept]
      /\ \A x \in DOMAIN my_accepts' : /\ my_accepts'[x].block = my_accepts[x].block
                                       /\ my_accepts'[x].window = my_accepts[x].window
  <2>1. CASE n >= my_accepts[k].remaining
    <3>1. my_accepts' = Without(my_accepts, {k})
      BY <2>1, Zenon DEF Purchase
    <3>. QED BY <3>1, AcceptsWithout, Zenon DEF IInv
  <2>2. CASE ~(n >= my_accepts[k].remaining)
    <3>1. my_accepts' = [my_accepts EXCEPT ![k].remaining = @ - n]
      BY <2>2, Zenon DEF Purchase
    <3>2. my_accepts[k] \in Accept
      BY Zenon DEF IInv, Types
    <3>3. [my_accepts[k] EXCEPT !.remaining = @ - n] \in Accept
      BY <2>2, <3>2 DEF Accept
    <3>. QED BY <3>1, <3>2, <3>3, Zenon DEF IInv, Types, Accept
  <2>. QED BY <2>1, <2>2, Zenon
<1>6. Types'
  BY <1>1, <1>3, <1>4, <1>5, Zenon DEF IInv, Types
<1>7. ReservedTokensAreOnOffer'
  BY <1>1, <1>4, Zenon DEF IInv, ReservedTokensAreOnOffer
<1>8. AcceptsExpireInTime'
  BY <1>5, Zenon DEF IInv, AcceptsExpireInTime
<1>. QED BY <1>6, <1>7, <1>8, Zenon DEF IInv

\* The accept order k gets what the payment buys.
PaidBy(k, rpd) ==
    /\ Convertible(my_accepts[k].amount, my_accepts[k].desired, PaidFor(k, rpd))
    /\ Purchase(k, PurchasedOf(k, rpd))

\* An output buys of one accept order or of none.
LEMMA PaymentOutcome ==
    ASSUME DEx_payment
    PROVE  \/ UNCHANGED <<tally, my_offers, my_accepts>>
           \/ \E k \in DOMAIN my_accepts : PaidBy(k, Head(paying.left)[2])
<1>. DEFINE seller == Head(paying.left)[1]
            rpd == Head(paying.left)[2]
            payable == PayableAccepts(seller, paying.buyer)
            fits(k) == Convertible(my_accepts[k].amount, my_accepts[k].desired, PaidFor(k, rpd))
<1>1. \/ UNCHANGED <<tally, my_offers, my_accepts>>
      \/ \E k \in payable : /\ fits(k) => Purchase(k, PurchasedOf(k, rpd))
                            /\ ~fits(k) => UNCHANGED <<tally, my_offers, my_accepts>>
  BY Zenon DEF DEx_payment
<1>2. \A k \in payable : k \in DOMAIN my_accepts
  BY Zenon DEF PayableAccepts
<1>. QED BY <1>1, <1>2, Zenon DEF PaidBy

\* The next output of a payment.
LEMMA PaymentStep == ASSUME IInv, DEx_payment PROVE IInv'
<1>. DEFINE rpd == Head(paying.left)[2]
<1>1. /\ paying.left \in Seq(Address \X Nat) /\ paying.left # << >>
      /\ paying.buyer \in Address
      /\ paying' = [paying EXCEPT !.left = Tail(@)]
      /\ UNCHANGED <<setFrozenAddresses, block, txid, erasing, exodus_prev>>
  BY Zenon DEF DEx_payment, IInv, Types, ending
<1>2. rpd \in Nat
  BY <1>1
<1>3. paying' = Nobody \/ (paying'.left \in Seq(Address \X Nat) /\ paying'.buyer \in Address)
  BY <1>1
<1>4. CASE UNCHANGED <<tally, my_offers, my_accepts>>
  BY <1>1, <1>3, <1>4, Zenon DEF IInv, Types, ReservedTokensAreOnOffer, AcceptsExpireInTime, tally
<1>5. ASSUME NEW k \in DOMAIN my_accepts, PaidBy(k, rpd) PROVE IInv'
  <2>1. PurchasedOf(k, rpd) \in Nat /\ PurchasedOf(k, rpd) <= my_accepts[k].remaining
    BY <1>2, <1>5, PurchasedType, Zenon DEF IInv, PaidBy
  <2>. QED BY <1>1, <1>3, <1>5, <2>1, PurchaseStep, Zenon DEF PaidBy
<1>. QED BY <1>4, <1>5, PaymentOutcome, Zenon

\* An accept order that expires gives its tokens back: to the offer only if
\* that is still open, so that the reserve has an offer.
LEMMA EraseStep ==
    ASSUME IInv, NEW k \in DOMAIN my_accepts, EraseExpiredAccept(k) PROVE IInv'
<1>. DEFINE s == <<k[1], k[2]>>
            n == my_accepts[k].remaining
<1>1. /\ my_accepts' = Without(my_accepts, {k})
      /\ \/ /\ s \in DOMAIN my_offers
            /\ sellofferReserve' = Credit(sellofferReserve, k[1], k[2], n)
            /\ balance' = balance
         \/ /\ sellofferReserve' = sellofferReserve
            /\ balance' = Credit(balance, k[1], k[2], n)
      /\ UNCHANGED <<my_offers, setFrozenAddresses, block, txid, paying, erasing, exodus_prev>>
  BY Zenon DEF EraseExpiredAccept, DEx_acceptDestroy, SameOffer, DEx_offerExists, ending
<1>2. s \in Slot
  BY Zenon DEF IInv, Types, Slot
<1>3. n \in Nat
  BY Zenon DEF IInv, Types, Accept
<1>. HIDE DEF n
<1>4. balance' \in [Slot -> Nat] /\ sellofferReserve' \in [Slot -> Nat]
  <2>1. k[1] \in Address /\ k[2] \in Property
    BY Zenon DEF IInv, Types
  <2>2. balance \in [Slot -> Nat] /\ sellofferReserve \in [Slot -> Nat]
    BY Zenon DEF IInv, Types
  <2>3. /\ Credit(balance, k[1], k[2], n) \in [Slot -> Nat]
        /\ Credit(sellofferReserve, k[1], k[2], n) \in [Slot -> Nat]
    BY <1>3, <2>1, <2>2, CreditType, Zenon
  <2>. QED BY <1>1, <2>2, <2>3, Zenon
<1>5. Types'
  <2>1. /\ DOMAIN my_accepts' \subseteq DOMAIN my_accepts
        /\ my_accepts' \in [DOMAIN my_accepts' -> Accept]
    BY <1>1, AcceptsWithout, Zenon DEF IInv
  <2>. QED BY <1>1, <1>4, <2>1, Zenon DEF IInv, Types, Nobody
<1>6. ReservedTokensAreOnOffer'
  BY <1>1, <1>2, <1>3, Zenon DEF Credit, IInv, Types, ReservedTokensAreOnOffer
<1>7. AcceptsExpireInTime'
  BY <1>1 DEF EraseExpiredAccept, AcceptsExpireInTime
<1>. QED BY <1>5, <1>6, <1>7, Zenon DEF IInv

\* The end of a block issues a natural number of tokens, or none.
LEMMA IssueOutcome ==
    ASSUME IInv, NEW devmsc \in Vested[block], NextBlock(devmsc)
    PROVE  /\ \E n \in Nat : exodus_prev' = exodus_prev + n /\ balance' = Credit(balance, Exodus, MSC, n)
           /\ balance' \in [Slot -> Nat] /\ exodus_prev' \in Nat
           /\ \A s \in Slot : balance'[s] >= balance[s]
<1>1. devmsc \in Nat
  BY VestedType DEF IInv, Types, NextBlock
<1>2. exodus_prev \in Nat /\ balance \in [Slot -> Nat] /\ Exodus \in Address /\ MSC \in Property
  BY VestedType, Zenon DEF IInv, Types
<1>3. \E n \in Nat : exodus_prev' = exodus_prev + n /\ balance' = Credit(balance, Exodus, MSC, n)
  <2>1. CASE devmsc < exodus_prev
    <3>1. balance' = balance /\ exodus_prev' = exodus_prev
      BY <2>1, Zenon DEF NextBlock
    <3>2. Credit(balance, Exodus, MSC, 0) = balance
      BY <1>2 DEF Credit, Slot
    <3>. QED BY <1>2, <3>1, <3>2
  <2>2. CASE ~(devmsc < exodus_prev)
    <3>1. balance' = Credit(balance, Exodus, MSC, devmsc - exodus_prev) /\ exodus_prev' = devmsc
      BY <2>2, Zenon DEF NextBlock
    <3>2. devmsc - exodus_prev \in Nat /\ devmsc = exodus_prev + (devmsc - exodus_prev)
      BY <1>1, <1>2, <2>2
    <3>. QED BY <3>1, <3>2, Zenon
  <2>. QED BY <2>1, <2>2, Zenon
<1>4. PICK n \in Nat : exodus_prev' = exodus_prev + n /\ balance' = Credit(balance, Exodus, MSC, n)
  BY <1>3, Zenon
<1>5. balance' \in [Slot -> Nat] /\ \A s \in Slot : balance'[s] >= balance[s]
  BY <1>2, <1>4, CreditType, Zenon
<1>6. exodus_prev' \in Nat
  BY <1>2, <1>4
<1>. QED BY <1>3, <1>5, <1>6, Zenon

\* A block ends once no accept order is expired in it.
LEMMA NextBlockStep == ASSUME IInv, NEW devmsc \in Vested[block], NextBlock(devmsc) PROVE IInv'
<1>1. /\ UNCHANGED <<sellofferReserve, my_offers, my_accepts, setFrozenAddresses, txid, paying>>
      /\ block' = block + 1 /\ ~erasing'
      /\ \A k \in DOMAIN my_accepts : ~Expired(k)
  BY Zenon DEF NextBlock
<1>2. Types' /\ ReservedTokensAreOnOffer'
  <2>1. balance' \in [Slot -> Nat] /\ exodus_prev' \in Nat
    BY IssueOutcome, Zenon
  <2>. QED BY <1>1, <2>1 DEF IInv, Types, ReservedTokensAreOnOffer
<1>3. AcceptsExpireInTime'
  <2>1. ASSUME NEW k \in DOMAIN my_accepts'
        PROVE  block' - my_accepts'[k].block <= my_accepts'[k].window
    <3>1. my_accepts[k].block \in Nat /\ my_accepts[k].window \in Nat /\ block \in Nat
      BY <1>1, Zenon DEF IInv, Types, Accept
    <3>. QED BY <1>1, <3>1 DEF Expired
  <2>. QED BY <2>1, Zenon DEF AcceptsExpireInTime
<1>. QED BY <1>2, <1>3, Zenon DEF IInv

\* The remaining steps change no offer, accept order or reserve.
LEMMA OtherSteps ==
    ASSUME IInv, UNCHANGED <<sellofferReserve, my_offers, my_accepts, block, txid, exodus_prev>>,
           balance' \in [Slot -> Nat], setFrozenAddresses' \subseteq Slot,
           paying' = Nobody \/ (paying'.left \in Seq(Address \X Nat) /\ paying'.buyer \in Address),
           erasing' = erasing \/ (erasing' /\ block < MaxBlock)
    PROVE  IInv'
<1>0. erasing' => block < MaxBlock
  BY Zenon DEF IInv, Types
<1>1. Types'
  BY <1>0, Zenon DEF IInv, Types
<1>2. ReservedTokensAreOnOffer'
  BY Zenon DEF IInv, ReservedTokensAreOnOffer
<1>3. AcceptsExpireInTime'
  BY Zenon DEF IInv, AcceptsExpireInTime
<1>. QED BY <1>1, <1>2, <1>3, Zenon DEF IInv

\* Every step of the exchange keeps the invariant.
LEMMA NextIInv == ASSUME IInv, [Next]_vars PROVE IInv'
<1>1. ASSUME NEW who \in Address, NEW p \in Property, NEW n \in Amounts, NEW d \in Prices,
             NEW f \in MinFees, NEW w \in Windows, TradeOffer(who, p, n, d, f, w)
      PROVE  IInv'
  BY <1>1, TradeOfferStep, Zenon
<1>2. ASSUME NEW who \in Address, NEW p \in Property, CancelOffer(who, p) PROVE IInv'
  BY <1>2, CancelOfferStep, Zenon
<1>3. ASSUME NEW who \in Address, NEW p \in Property, NEW seller \in Address, NEW n \in Amounts,
             NEW f \in Fees, DEx_acceptCreate(who, seller, p, n, f)
      PROVE  IInv'
  BY <1>3, AcceptCreateStep, Zenon
<1>4. ASSUME NEW who \in Address, NEW p \in Property, NEW to \in Address, NEW n \in Amounts,
             SimpleSend(who, to, p, n)
      PROVE  IInv'
  <2>1. n \in Nat /\ <<who, p>> \in Slot /\ <<to, p>> \in Slot
    BY AmountsType, Zenon DEF Slot
  <2>2. balance' \in [Slot -> Nat]
    BY <1>4, <2>1, CreditType, DebitType, Zenon DEF SimpleSend, IInv, Types
  <2>. QED BY <1>4, <2>2, OtherSteps, Zenon DEF SimpleSend, ending, IInv, Types
<1>5. ASSUME NEW who \in Address, NEW outs \in Payments, HandleDExPayments(who, outs) PROVE IInv'
  <2>1. outs \in Seq(Address \X Nat)
    BY PaymentsType
  <2>2. paying'.left \in Seq(Address \X Nat) /\ paying'.buyer \in Address
    BY <1>5, <2>1 DEF HandleDExPayments
  <2>. QED BY <1>5, <2>2, OtherSteps, Zenon DEF HandleDExPayments, tally, ending, IInv, Types
<1>6. CASE DEx_payment
  BY <1>6, PaymentStep, Zenon
<1>7. CASE PaymentDone
  BY <1>7, OtherSteps, Zenon DEF PaymentDone, tally, ending, IInv, Types
<1>8. ASSUME NEW s \in Freezable, FreezeTokens(s) \/ UnfreezeTokens(s) PROVE IInv'
  BY <1>8, OtherSteps, FreezableType, Zenon DEF FreezeTokens, UnfreezeTokens, tally, ending, IInv, Types
<1>9. CASE BlockEnd
  BY <1>9, OtherSteps, Zenon DEF BlockEnd, tally, IInv, Types
<1>10. ASSUME NEW k \in DOMAIN my_accepts, EraseExpiredAccept(k) PROVE IInv'
  BY <1>10, EraseStep, Zenon
<1>11. ASSUME NEW devmsc \in Vested[block], NextBlock(devmsc) PROVE IInv'
  BY <1>11, NextBlockStep, Zenon
<1>12. CASE UNCHANGED vars
  BY <1>12, OtherSteps, Zenon DEF vars, tally, ending, IInv, Types
<1>. QED
  BY <1>1, <1>2, <1>3, <1>4, <1>5, <1>6, <1>7, <1>8, <1>9, <1>10, <1>11, <1>12, ReceiversType, Zenon
  DEF Next

\* The inductive invariant holds in every reachable state.
THEOREM Invariance == Spec => []IInv
<1>1. Init => IInv
  BY InitIInv, Zenon
<1>2. IInv /\ [Next]_vars => IInv'
  BY NextIInv, Zenon
<1>. QED BY <1>1, <1>2, PTL DEF Spec

\* Tokens in SELLOFFER_RESERVE belong to the one open offer of their seller,
\* however offers, accept orders, payments and expiries follow each other.
THEOREM ReservesHaveTheirOffer == Spec => []ReservedTokensAreOnOffer
<1>1. IInv => ReservedTokensAreOnOffer
  BY Zenon DEF IInv
<1>. QED BY <1>1, Invariance, PTL

\* No accept order outlives its payment window (eraseExpiredAccepts).
THEOREM AcceptsAreErasedInTime == Spec => []AcceptsExpireInTime
<1>1. IInv => AcceptsExpireInTime
  BY Zenon DEF IInv
<1>. QED BY <1>1, Invariance, PTL

\* Only the sender of a transaction is debited, and interpretPacket has seen
\* to it that the sender is not frozen.
LEMMA FrozenStep ==
    ASSUME IInv, [Next]_vars, NEW s \in setFrozenAddresses
    PROVE  balance'[s] >= balance[s]
<1>. DEFINE Kept == balance'[s] >= balance[s]
<1>0. s \in Slot /\ balance \in [Slot -> Nat] /\ sellofferReserve \in [Slot -> Nat]
  BY Zenon DEF IInv, Types
<1>1. ASSUME balance' = balance PROVE Kept
  BY <1>0, <1>1
<1>2. ASSUME NEW who \in Address, NEW p \in Property, NEW n \in Amounts, NEW d \in Prices,
             NEW f \in MinFees, NEW w \in Windows, TradeOffer(who, p, n, d, f, w)
      PROVE  Kept
  <2>1. s # <<who, p>> /\ <<who, p>> \in Slot
    BY <1>2, Zenon DEF TradeOffer, Permitted, Slot
  <2>2. Released(who, p)[s] = balance[s]
    BY <1>0, <2>1, Zenon DEF Released, Credit
  <2>3. ASSUME NEW bal \in [Slot -> Nat], NEW sell, NEW offers, bal[s] = balance[s],
               DEx_offerCreate(bal, sell, offers, who, p, n, d, f, w)
        PROVE  Kept
    BY <1>0, <2>1, <2>3 DEF DEx_offerCreate, Debit
  <2>4. Released(who, p) \in [Slot -> Nat]
    BY Destroyed, Zenon
  <2>. QED BY <1>0, <1>2, <2>2, <2>3, <2>4, Zenon DEF TradeOffer, DEx_offerUpdate
<1>3. ASSUME NEW who \in Address, NEW p \in Property, CancelOffer(who, p) PROVE Kept
  <2>1. sellofferReserve[<<who, p>>] \in Nat
    BY <1>0, Zenon DEF Slot
  <2>. QED BY <1>0, <1>3, <2>1, CreditType, Zenon DEF CancelOffer, DEx_offerDestroy, Released
<1>4. ASSUME NEW who \in Address, NEW p \in Property, NEW to \in Address, NEW n \in Amounts,
             SimpleSend(who, to, p, n)
      PROVE  Kept
  <2>1. s # <<who, p>> /\ n \in Nat /\ n <= balance[<<who, p>>]
    BY <1>0, <1>4, AmountsType, Zenon DEF SimpleSend, Permitted, Slot
  <2>2. Debit(balance, who, p, n) \in [Slot -> Nat] /\ Debit(balance, who, p, n)[s] = balance[s]
    BY <1>0, <2>1, DebitType
  <2>. QED BY <1>0, <1>4, <2>1, <2>2, CreditType, Zenon DEF SimpleSend
<1>5. CASE DEx_payment
  <2>. DEFINE rpd == Head(paying.left)[2]
  <2>1. rpd \in Nat
    BY <1>5 DEF DEx_payment, IInv, Types
  <2>2. CASE UNCHANGED <<tally, my_offers, my_accepts>>
    BY <1>1, <2>2, Zenon DEF tally
  <2>3. ASSUME NEW k \in DOMAIN my_accepts, PaidBy(k, rpd) PROVE Kept
    <3>2. k[3] \in Address /\ k[2] \in Property
      BY Zenon DEF IInv, Types
    <3>3. PurchasedOf(k, rpd) \in Nat
      BY <2>1, <2>3, PurchasedType, Zenon DEF IInv, PaidBy
    <3>. QED BY <1>0, <2>3, <3>2, <3>3, CreditType, Zenon DEF Purchase, PaidBy
  <2>. QED BY <1>5, <2>2, <2>3, PaymentOutcome, Zenon
<1>6. ASSUME NEW k \in DOMAIN my_accepts, EraseExpiredAccept(k) PROVE Kept
  <2>1. k[1] \in Address /\ k[2] \in Property /\ my_accepts[k].remaining \in Nat
    BY Zenon DEF IInv, Types, Accept
  <2>2. balance' = balance \/ balance' = Credit(balance, k[1], k[2], my_accepts[k].remaining)
    BY <1>6, Zenon DEF EraseExpiredAccept, DEx_acceptDestroy
  <2>. QED BY <1>0, <2>1, <2>2, CreditType
<1>7. ASSUME NEW who \in Address, NEW p \in Property, NEW seller \in Address, NEW n \in Amounts,
             NEW f \in Fees, DEx_acceptCreate(who, seller, p, n, f)
      PROVE  Kept
  BY <1>1, <1>7, Zenon DEF DEx_acceptCreate
<1>8. ASSUME NEW who \in Address, NEW outs \in Payments, HandleDExPayments(who, outs) PROVE Kept
  BY <1>1, <1>8, Zenon DEF HandleDExPayments, tally
<1>9. ASSUME NEW x \in Freezable, FreezeTokens(x) \/ UnfreezeTokens(x) PROVE Kept
  BY <1>1, <1>9, Zenon DEF FreezeTokens, UnfreezeTokens, tally
<1>10. CASE PaymentDone \/ BlockEnd \/ UNCHANGED vars
  BY <1>1, <1>10, Zenon DEF PaymentDone, BlockEnd, vars, tally
<1>12. ASSUME NEW devmsc \in Vested[block], NextBlock(devmsc) PROVE Kept
  BY <1>0, <1>12, IssueOutcome, Zenon
<1>11. CASE Next
  <2>1. ASSUME NEW who \in Address, NEW p \in Property, NEW to \in Receivers, NEW n \in Amounts,
               SimpleSend(who, to, p, n)
        PROVE  Kept
    BY <2>1, <1>4, ReceiversType, Zenon
  <2>. QED BY <1>2, <1>3, <1>5, <1>6, <1>7, <1>8, <1>9, <1>10, <1>11, <1>12, <2>1, Zenon DEF Next
<1>. QED BY <1>10, <1>11, Zenon

\* The assert in update_tally_map on frozen addresses never fails on the
\* exchange: no step debits a frozen balance.
THEOREM FrozenBalancesAreKept == Spec => FrozenBalanceKept
<1>1. IInv /\ [Next]_vars => [\A s \in setFrozenAddresses : balance'[s] >= balance[s]]_vars
  BY FrozenStep, Zenon
<1>. QED BY <1>1, Invariance, PTL DEF Spec, FrozenBalanceKept
-----------------------------------------------------------------------------
(* What accept orders have left, and what the addresses hold.              *)

\* The accept orders of a slot, and those of the offer that is open there.
Of(acc, s) == {k \in DOMAIN acc : k[1] = s[1] /\ k[2] = s[2]}
Current(acc, offers, s) == {k \in Of(acc, s) : acc[k].txid = offers[s].txid}
Rem(acc, K) == Sum([k \in K |-> acc[k].remaining], K)
Held(bal, sell, res, p) ==
    Sum([a \in Address |-> bal[<<a, p>>] + sell[<<a, p>>] + res[<<a, p>>]], Address)

\* Finitely many accept orders with whole numbers of tokens.
AcceptsOK(acc) == IsFiniteSet(DOMAIN acc) /\ \A k \in DOMAIN acc : acc[k].remaining \in Int

\* What a set of accept orders has left is a whole number.
LEMMA RemType ==
  ASSUME NEW acc, AcceptsOK(acc), NEW K \in SUBSET DOMAIN acc
  PROVE  Rem(acc, K) \in Int /\ IsFiniteSet(K)
<1> DEFINE f == [k \in K |-> acc[k].remaining]
<1>1. IsFiniteSet(K) /\ \A k \in K : f[k] \in Int
  BY FS_Subset, Zenon DEF AcceptsOK
<1> HIDE DEF f
<1>2. Sum(f, K) \in Int
  BY <1>1, SumType, Zenon
<1> QED
  BY <1>1, <1>2, Zenon DEF Rem, f

\* Accept orders that are left alone have left what they had.
LEMMA RemSame ==
  ASSUME NEW acc, NEW acc2, AcceptsOK(acc), NEW K \in SUBSET DOMAIN acc,
         \A k \in K : acc2[k].remaining = acc[k].remaining
  PROVE  Rem(acc2, K) = Rem(acc, K)
<1> DEFINE f == [k \in K |-> acc[k].remaining]
           g == [k \in K |-> acc2[k].remaining]
<1>1. IsFiniteSet(K) /\ \A k \in K : f[k] = g[k]
  BY FS_Subset, Zenon DEF AcceptsOK
<1> HIDE DEF f, g
<1>2. Sum(f, K) = Sum(g, K)
  BY <1>1, SumSame, Zenon
<1> QED
  BY <1>2, Zenon DEF Rem, f, g

\* One more accept order, of n tokens.
LEMMA RemJoin ==
  ASSUME NEW acc, NEW acc2, AcceptsOK(acc), NEW K \in SUBSET DOMAIN acc,
         \A k \in K : acc2[k].remaining = acc[k].remaining,
         NEW x, x \notin K, acc2[x].remaining \in Int
  PROVE  Rem(acc2, K \cup {x}) = Rem(acc, K) + acc2[x].remaining
<1> DEFINE f == [k \in K \cup {x} |-> acc2[k].remaining]
           g == [k \in K |-> acc[k].remaining]
<1>1. IsFiniteSet(K) /\ f[x] = acc2[x].remaining /\ \A k \in K : f[k] = g[k] /\ f[k] \in Int
  BY FS_Subset, Zenon DEF AcceptsOK
<1>2. Rem(acc2, K \cup {x}) = Sum(f, K \cup {x}) /\ Rem(acc, K) = Sum(g, K)
  BY Zenon DEF Rem
<1> HIDE DEF f, g
<1>3. Sum(f, K \cup {x}) = Sum(f, K) + f[x]
  BY <1>1, SumJoin, Zenon
<1>4. Sum(f, K) = Sum(g, K)
  BY <1>1, SumSame
<1> QED
  BY <1>1, <1>2, <1>3, <1>4, Zenon

\* One accept order less.
LEMMA RemLeave ==
  ASSUME NEW acc, NEW acc2, AcceptsOK(acc), NEW K \in SUBSET DOMAIN acc, NEW x \in K,
         \A k \in K \ {x} : acc2[k].remaining = acc[k].remaining
  PROVE  Rem(acc2, K \ {x}) = Rem(acc, K) - acc[x].remaining
<1> DEFINE J == K \ {x}
<1>1. J \in SUBSET DOMAIN acc /\ x \notin J /\ J \cup {x} = K /\ acc[x].remaining \in Int
  BY Zenon DEF AcceptsOK
<1>2. Rem(acc2, J) = Rem(acc, J)
  <2> HIDE DEF J
  <2>1. \A k \in J : acc2[k].remaining = acc[k].remaining
    BY Zenon DEF J
  <2> QED
    BY <1>1, <2>1, RemSame, Zenon
<1>3. Rem(acc, J \cup {x}) = Rem(acc, J) + acc[x].remaining
  <2> HIDE DEF J
  <2> QED
    BY <1>1, RemJoin
<1>4. Rem(acc, J) \in Int
  BY <1>1, RemType, Zenon
<1> HIDE DEF J
<1>5. Rem(acc, K) = Rem(acc, J) + acc[x].remaining
  BY <1>1, <1>3, Zenon
<1>6. Rem(acc2, J) = Rem(acc, K) - acc[x].remaining
  BY <1>1, <1>2, <1>4, <1>5
<1> QED
  BY <1>6, Zenon DEF J

\* An accept order that is paid for in part.
LEMMA RemReduce ==
  ASSUME NEW acc, NEW acc2, AcceptsOK(acc), NEW K \in SUBSET DOMAIN acc, NEW x \in K, NEW d \in Int,
         acc2[x].remaining = acc[x].remaining + d,
         \A k \in K \ {x} : acc2[k].remaining = acc[k].remaining
  PROVE  Rem(acc2, K) = Rem(acc, K) + d
<1> DEFINE f == [k \in K |-> acc[k].remaining]
           g == [k \in K |-> acc2[k].remaining]
<1>1. /\ IsFiniteSet(K) /\ (\A k \in K : f[k] \in Int)
      /\ g[x] = f[x] + d /\ \A k \in K \ {x} : g[k] = f[k]
  BY FS_Subset, Zenon DEF AcceptsOK
<1>2. Rem(acc2, K) = Sum(g, K) /\ Rem(acc, K) = Sum(f, K)
  BY Zenon DEF Rem
<1> HIDE DEF f, g
<1> QED
  BY <1>1, <1>2, SumUpdate

\* What a slot has of all kinds of amounts.
InSlot(bal, sell, res, s) == bal[s] + sell[s] + res[s]

\* Amounts that are whole numbers, and amounts that moved within their slots.
Whole(bal, sell, res) == \A s \in Slot : InSlot(bal, sell, res, s) \in Int
SameSlots(bal, sell, res, bal2, sell2, res2) ==
    \A s \in Slot : InSlot(bal2, sell2, res2, s) = InSlot(bal, sell, res, s)

\* Tokens that go from one kind of amount of a slot to another are still held.
LEMMA HeldSame ==
  ASSUME NEW bal, NEW sell, NEW res, NEW bal2, NEW sell2, NEW res2,
         SameSlots(bal, sell, res, bal2, sell2, res2),
         NEW p \in Property
  PROVE  Held(bal2, sell2, res2, p) = Held(bal, sell, res, p)
<1> DEFINE f == [a \in Address |-> bal[<<a, p>>] + sell[<<a, p>>] + res[<<a, p>>]]
           g == [a \in Address |-> bal2[<<a, p>>] + sell2[<<a, p>>] + res2[<<a, p>>]]
<1>1. \A a \in Address : f[a] = g[a]
  BY Zenon DEF Slot, InSlot, SameSlots
<1>2. Held(bal2, sell2, res2, p) = Sum(g, Address) /\ Held(bal, sell, res, p) = Sum(f, Address)
  BY Zenon DEF Held
<1> HIDE DEF f, g
<1> QED
  BY <1>1, <1>2, AddressesFinite, SumSame

\* The updates of a tally, slot by slot.
LEMMA CreditAt ==
  ASSUME NEW t \in [Slot -> Int], NEW a \in Address, NEW p \in Property, NEW n \in Int
  PROVE  /\ Credit(t, a, p, n) \in [Slot -> Int]
         /\ \A s \in Slot : Credit(t, a, p, n)[s] = t[s] + (IF s = <<a, p>> THEN n ELSE 0)
<1>1. <<a, p>> \in Slot /\ t \in [Slot -> Int]
  BY DEF Slot
<1> QED
  BY <1>1 DEF Credit

\* The same for a debit.
LEMMA DebitAt ==
  ASSUME NEW t \in [Slot -> Int], NEW a \in Address, NEW p \in Property, NEW n \in Int
  PROVE  /\ Debit(t, a, p, n) \in [Slot -> Int]
         /\ \A s \in Slot : Debit(t, a, p, n)[s] = t[s] - (IF s = <<a, p>> THEN n ELSE 0)
<1>1. <<a, p>> \in Slot /\ t \in [Slot -> Int]
  BY DEF Slot
<1> QED
  BY <1>1 DEF Debit

\* n tokens go from a slot of x to a slot of y.
Moved(bal, sell, res, bal2, sell2, res2, x, y, q, n) ==
    \A s \in Slot : InSlot(bal2, sell2, res2, s) = InSlot(bal, sell, res, s)
                       - (IF s = <<x, q>> THEN n ELSE 0) + (IF s = <<y, q>> THEN n ELSE 0)

\* Tokens that go from one address to another are held as well.
LEMMA HeldMoves ==
  ASSUME NEW bal, NEW sell, NEW res, NEW bal2, NEW sell2, NEW res2,
         NEW x \in Address, NEW y \in Address, NEW q \in Property, NEW n \in Int,
         Whole(bal, sell, res),
         Moved(bal, sell, res, bal2, sell2, res2, x, y, q, n),
         NEW p \in Property
  PROVE  Held(bal2, sell2, res2, p) = Held(bal, sell, res, p)
<1> DEFINE f == [a \in Address |-> InSlot(bal, sell, res, <<a, p>>)]
           h == [a \in Address |-> f[a] - (IF a = x /\ p = q THEN n ELSE 0)]
           g == [a \in Address |-> InSlot(bal2, sell2, res2, <<a, p>>)]
<1>1. Held(bal2, sell2, res2, p) = Sum(g, Address) /\ Held(bal, sell, res, p) = Sum(f, Address)
  BY Zenon DEF Held, InSlot
<1>2. \A a \in Address : f[a] \in Int /\ h[a] \in Int
  BY DEF Slot, Whole
<1>3. \A a \in Address : g[a] = h[a] + (IF a = y /\ p = q THEN n ELSE 0)
  BY <1>2, Zenon DEF Slot, Moved
<1>4. h[x] = f[x] + (IF p = q THEN -n ELSE 0) /\ \A a \in Address \ {x} : h[a] = f[a]
  BY <1>2
<1>5. g[y] = h[y] + (IF p = q THEN n ELSE 0) /\ \A a \in Address \ {y} : g[a] = h[a]
  BY <1>2, <1>3
<1> HIDE DEF f, g, h
<1>6. Sum(h, Address) = Sum(f, Address) + (IF p = q THEN -n ELSE 0)
  BY <1>2, <1>4, AddressesFinite, SumUpdate
<1>7. Sum(g, Address) = Sum(h, Address) + (IF p = q THEN n ELSE 0)
  BY <1>2, <1>5, AddressesFinite, SumUpdate
<1>8. Sum(f, Address) \in Int
  BY <1>2, AddressesFinite, SumType, Zenon
<1> QED
  BY <1>1, <1>6, <1>7, <1>8

-----------------------------------------------------------------------------
(* The inductive invariant of the sums.                                    *)

\* The accept orders are finitely many, and neither they nor the offers are
\* younger than the last offer.
Numbered ==
    /\ IsFiniteSet(DOMAIN my_accepts)
    /\ acceptReserve \in [Slot -> Int]
    /\ \A k \in DOMAIN my_accepts : my_accepts[k].txid <= txid
    /\ \A s \in DOMAIN my_offers : my_offers[s].txid <= txid

\* TokensConserved and OfferNotOversold, with sums of functions.
ReserveAdds == \A s \in Slot : acceptReserve[s] = Rem(my_accepts, Of(my_accepts, s))
Issued(p) == Sum([a \in Address |-> InitBalance[<<a, p>>]], Address)
Supply(p) == IF p = MSC THEN exodus_prev ELSE Issued(p)
HeldKept == \A p \in Property : Held(balance, sellofferReserve, acceptReserve, p) = Supply(p)
NotOversold ==
    \A s \in DOMAIN my_offers :
        sellofferReserve[s] + Rem(my_accepts, Current(my_accepts, my_offers, s)) <= my_offers[s].amount

SumInv == Numbered /\ ReserveAdds /\ HeldKept /\ NotOversold

\* The accept orders of the invariants, for the lemmas about sums.
LEMMA AcceptsAreOK ==
  ASSUME IInv, SumInv
  PROVE  /\ AcceptsOK(my_accepts)
         /\ \A k \in DOMAIN my_accepts : my_accepts[k].remaining \in Nat \ {0} /\ my_accepts[k].txid \in Nat
         /\ \A s : Of(my_accepts, s) \in SUBSET DOMAIN my_accepts
         /\ \A s : Current(my_accepts, my_offers, s) \in SUBSET DOMAIN my_accepts
<1>1. \A k \in DOMAIN my_accepts : my_accepts[k].remaining \in Nat \ {0} /\ my_accepts[k].txid \in Nat
  BY Zenon DEF IInv, Types, Accept
<1>2. AcceptsOK(my_accepts)
  BY <1>1 DEF AcceptsOK, SumInv, Numbered
<1> QED
  BY <1>1, <1>2, Zenon DEF Of, Current

\* The tokens are all still held after a step that moves them within slots,
LEMMA HeldStays ==
  ASSUME SumInv, exodus_prev' = exodus_prev,
         SameSlots(balance, sellofferReserve, acceptReserve, balance', sellofferReserve', acceptReserve')
  PROVE  HeldKept'
<1>1. ASSUME NEW q \in Property
      PROVE  Held(balance', sellofferReserve', acceptReserve', q)
               = Held(balance, sellofferReserve, acceptReserve, q)
  BY HeldSame
<1> QED
  BY <1>1, Zenon DEF SumInv, HeldKept, Supply

\* and after one that moves them to another address.
LEMMA HeldGoes ==
  ASSUME SumInv, exodus_prev' = exodus_prev,
         NEW x \in Address, NEW y \in Address, NEW p \in Property, NEW n \in Int,
         Whole(balance, sellofferReserve, acceptReserve),
         Moved(balance, sellofferReserve, acceptReserve, balance', sellofferReserve', acceptReserve', x, y, p, n)
  PROVE  HeldKept'
<1>1. ASSUME NEW q \in Property
      PROVE  Held(balance', sellofferReserve', acceptReserve', q)
               = Held(balance, sellofferReserve, acceptReserve, q)
  BY HeldMoves
<1> QED
  BY <1>1, Zenon DEF SumInv, HeldKept, Supply

\* What a credit does to the balances.
LEMMA BalanceCredited ==
  ASSUME balance \in [Slot -> Nat], NEW a \in Address, NEW p \in Property, NEW n \in Nat,
         balance' = Credit(balance, a, p, n)
  PROVE  \A s \in Slot : balance'[s] = balance[s] + (IF s = <<a, p>> THEN n ELSE 0)
BY DEF Credit, Slot

\* Tokens go from the one part of a bounded sum to the other, or leave it.
LEMMA BoundKept ==
  /\ \A x, y, z \in Int, m \in Nat : x + y <= z => (x - m) + (y + m) <= z
  /\ \A x, y, z \in Int, m \in Nat : x + y <= z => x + (y - m) <= z
OBVIOUS

\* The tokens that the addresses hold, and those that they began with.
LEMMA HeldIsSum ==
  ASSUME NEW p \in Property
  PROVE  /\ SumOver(Address, LAMBDA a : balance[<<a, p>>] + sellofferReserve[<<a, p>>] + acceptReserve[<<a, p>>])
              = Held(balance, sellofferReserve, acceptReserve, p)
         /\ SumOver(Address, LAMBDA a : InitBalance[<<a, p>>]) = Issued(p)
<1>1. SumOver(Address, LAMBDA a : balance[<<a, p>>] + sellofferReserve[<<a, p>>] + acceptReserve[<<a, p>>])
        = Sum([a \in Address |-> balance[<<a, p>>] + sellofferReserve[<<a, p>>] + acceptReserve[<<a, p>>]], Address)
  BY ZenonT(30) DEF SumOver, MapThenSumSet, MapThenFoldSet, Sum, Solves, SumStep
<1>2. SumOver(Address, LAMBDA a : InitBalance[<<a, p>>]) = Sum([a \in Address |-> InitBalance[<<a, p>>]], Address)
  BY ZenonT(30) DEF SumOver, MapThenSumSet, MapThenFoldSet, Sum, Solves, SumStep
<1> QED
  BY <1>1, <1>2, Zenon DEF Held, Issued

\* The first state: nothing is reserved.
LEMMA InitSums == Init => SumInv
<1> SUFFICES ASSUME Init PROVE SumInv
  BY Zenon
<1>1. my_accepts = << >> /\ my_offers = << >> /\ DOMAIN my_accepts = {} /\ DOMAIN my_offers = {}
  BY DEF Init
<1>2. IsFiniteSet(DOMAIN my_accepts)
  BY <1>1, FS_EmptySet, Zenon
<1>3. Numbered
  BY <1>1, <1>2 DEF Init, Numbered
<1>4. ReserveAdds
  <2> SUFFICES ASSUME NEW s \in Slot PROVE acceptReserve[s] = Rem(my_accepts, Of(my_accepts, s))
    BY Zenon DEF ReserveAdds
  <2>1. Of(my_accepts, s) = {}
    BY <1>1, Zenon DEF Of
  <2>2. Rem(my_accepts, {}) = 0
    <3>1. Sum([k \in {} |-> my_accepts[k].remaining], {}) = 0
      BY FS_EmptySet, SumAtChoice, Zenon
    <3> QED
      BY <3>1, Zenon DEF Rem
  <2> QED
    BY <2>1, <2>2, Zenon DEF Init
<1>5. HeldKept
  <2> SUFFICES ASSUME NEW p \in Property
               PROVE  Held(balance, sellofferReserve, acceptReserve, p) = Issued(p)
    <3>1. exodus_prev = Issued(MSC)
      BY VestedType, HeldIsSum, Zenon DEF Init
    <3> QED
      BY <3>1, Zenon DEF HeldKept, Supply
  <2> DEFINE f == [a \in Address |-> balance[<<a, p>>] + sellofferReserve[<<a, p>>] + acceptReserve[<<a, p>>]]
             g == [a \in Address |-> InitBalance[<<a, p>>]]
  <2>1. \A a \in Address : f[a] = g[a]
    BY InitBalanceType DEF Init, Slot
  <2>2. Held(balance, sellofferReserve, acceptReserve, p) = Sum(f, Address) /\ Issued(p) = Sum(g, Address)
    BY Zenon DEF Held, Issued
  <2> HIDE DEF f, g
  <2> QED
    BY <2>1, <2>2, AddressesFinite, SumSame
<1>6. NotOversold
  BY <1>1, Zenon DEF NotOversold
<1> QED
  BY <1>3, <1>4, <1>5, <1>6, Zenon DEF SumInv

\* DEx_offerCreate: a new offer has a new hash, which no accept order knows.
LEMMA OfferCreateSums ==
  ASSUME IInv, SumInv,
         NEW bal \in [Slot -> Nat], NEW sell \in [Slot -> Nat], NEW offers,
         DOMAIN offers \subseteq Slot, DOMAIN offers \subseteq DOMAIN my_offers,
         \A s \in DOMAIN offers : offers[s] = my_offers[s] /\ sell[s] = sellofferReserve[s],
         \A s \in Slot : sell[s] > 0 => s \in DOMAIN offers,
         \A s \in Slot : bal[s] + sell[s] = balance[s] + sellofferReserve[s],
         NEW who \in Address, NEW p \in Property, NEW n \in Nat \ {0}, NEW d, NEW f, NEW w,
         DEx_offerCreate(bal, sell, offers, who, p, n, d, f, w),
         UNCHANGED <<acceptReserve, my_accepts, exodus_prev>>
  PROVE  SumInv'
<1> DEFINE refused == w = 0 \/ d = 0 \/ DEx_hasOffer(offers, who, p) \/ n > bal[<<who, p>>]
           o == [amount |-> n, desired |-> d, minFee |-> f, window |-> w, txid |-> txid + 1]
           slot == <<who, p>>
<1>0. /\ txid \in Nat /\ slot \in Slot /\ acceptReserve \in [Slot -> Int]
      /\ balance \in [Slot -> Nat] /\ sellofferReserve \in [Slot -> Nat]
  BY Zenon DEF IInv, Types, SumInv, Numbered, Slot
<1>1. /\ refused => balance' = bal /\ sellofferReserve' = sell /\ my_offers' = offers /\ txid' = txid
      /\ ~refused => /\ balance' = Debit(bal, who, p, n) /\ sellofferReserve' = Credit(sell, who, p, n)
                     /\ my_offers' = Put(offers, slot, o) /\ txid' = txid + 1
                     /\ slot \notin DOMAIN offers
  BY Zenon DEF DEx_offerCreate, DEx_hasOffer
<1> HIDE DEF refused
<1>2. /\ \A s \in Slot : balance'[s] + sellofferReserve'[s] = bal[s] + sell[s]
      /\ \A s \in Slot : balance'[s] \in Int /\ sellofferReserve'[s] \in Int
      /\ \A s \in Slot \ {slot} : sellofferReserve'[s] = sell[s]
      /\ refused => sellofferReserve'[slot] = sell[slot]
      /\ ~refused => sellofferReserve'[slot] = sell[slot] + n
  <2>1. CASE refused
    BY <1>1, <2>1
  <2>2. CASE ~refused
    <3>0. balance' = Debit(bal, who, p, n) /\ sellofferReserve' = Credit(sell, who, p, n)
      BY <1>1, <2>2, Zenon
    <3>t. bal \in [Slot -> Int] /\ sell \in [Slot -> Int] /\ n \in Int
      OBVIOUS
    <3>1. \A s \in Slot : balance'[s] = bal[s] - (IF s = slot THEN n ELSE 0)
      BY <3>0, <3>t, DebitAt
    <3>2. \A s \in Slot : sellofferReserve'[s] = sell[s] + (IF s = slot THEN n ELSE 0)
      BY <3>0, <3>t, CreditAt
    <3> QED
      BY <1>0, <2>2, <3>1, <3>2
  <2> QED
    BY <2>1, <2>2, Zenon
<1>3. /\ \A s \in DOMAIN my_offers' : s \in DOMAIN offers \/ (~refused /\ s = slot)
      /\ \A s \in DOMAIN offers : my_offers'[s] = my_offers[s]
      /\ ~refused => my_offers'[slot] = o
  BY <1>1, Zenon DEF Put
<1>4. \A k \in DOMAIN my_accepts : my_accepts[k].txid \in Nat
  BY AcceptsAreOK, Zenon
<1>5. Numbered'
  <2>1. \A s \in DOMAIN my_offers : my_offers[s].txid \in Nat /\ my_offers[s].txid <= txid
    BY Zenon DEF IInv, Types, Offer, SumInv, Numbered
  <2>2. txid <= txid' /\ txid' \in Nat /\ (~refused => o.txid <= txid')
    BY <1>0, <1>1
  <2>3. \A s \in DOMAIN my_offers' : my_offers'[s].txid <= txid'
    <3>1. \A x, y, z \in Nat : x <= y /\ y <= z => x <= z
      OBVIOUS
    <3> QED
      BY <1>0, <1>3, <2>1, <2>2, <3>1, Zenon
  <2>4. \A k \in DOMAIN my_accepts : my_accepts[k].txid <= txid'
    BY <1>0, <1>4, <2>2 DEF SumInv, Numbered
  <2> QED
    BY <2>3, <2>4, Zenon DEF SumInv, Numbered
<1>6. ReserveAdds'
  BY Zenon DEF SumInv, ReserveAdds
<1>7. HeldKept'
  <2>1. SameSlots(balance, sellofferReserve, acceptReserve, balance', sellofferReserve', acceptReserve')
    BY <1>0, <1>2 DEF InSlot, SameSlots
  <2> QED
    BY <2>1, HeldStays, Zenon
<1>8. NotOversold'
  <2> SUFFICES ASSUME NEW s \in DOMAIN my_offers'
               PROVE  sellofferReserve'[s] + Rem(my_accepts, Current(my_accepts, my_offers', s))
                        <= my_offers'[s].amount
    BY Zenon DEF NotOversold
  <2>1. CASE s \in DOMAIN offers
    <3>1. my_offers'[s] = my_offers[s] /\ s \in DOMAIN my_offers /\ s \in Slot
      BY <1>3, <2>1, Zenon
    <3>2. Current(my_accepts, my_offers', s) = Current(my_accepts, my_offers, s)
      BY <3>1, Zenon DEF Current
    <3>3. sellofferReserve'[s] = sellofferReserve[s]
      BY <1>1, <1>2, <2>1, <3>1
    <3> QED
      BY <3>1, <3>2, <3>3, Zenon DEF SumInv, NotOversold
  <2>2. CASE s \notin DOMAIN offers
    <3>1. ~refused /\ s = slot /\ my_offers'[s] = o
      BY <1>3, <2>2, Zenon
    <3>2. Current(my_accepts, my_offers', s) = {}
      BY <1>0, <1>4, <3>1 DEF Current, Of, SumInv, Numbered
    <3>3. Rem(my_accepts, {}) = 0
      <4>1. Sum([k \in {} |-> my_accepts[k].remaining], {}) = 0
        BY FS_EmptySet, SumAtChoice, Zenon
      <4> QED
        BY <4>1, Zenon DEF Rem
    <3>4. sell[slot] = 0
      BY <1>0, <2>2, <3>1
    <3>5. sellofferReserve'[s] = n
      BY <1>2, <3>1, <3>4
    <3>6. my_offers'[s].amount = n
      BY <3>1
    <3> QED
      BY <3>2, <3>3, <3>5, <3>6
  <2> QED
    BY <2>1, <2>2, Zenon
<1> QED
  BY <1>5, <1>6, <1>7, <1>8, Zenon DEF SumInv

\* Making, changing and cancelling an offer.  A cancelled offer leaves what
\* an offer leaves that is destroyed and not made again.
LEMMA OfferSums ==
  ASSUME IInv, SumInv, NEW who \in Address, NEW p \in Property,
         \/ CancelOffer(who, p)
         \/ \E n \in Amounts, d \in Prices, f \in MinFees, w \in Windows : TradeOffer(who, p, n, d, f, w)
  PROVE  SumInv'
<1> DEFINE bal == Released(who, p)
           sell == [sellofferReserve EXCEPT ![<<who, p>>] = 0]
           offers == Without(my_offers, {<<who, p>>})
           slot == <<who, p>>
<1>0. slot \in Slot /\ balance \in [Slot -> Nat] /\ sellofferReserve \in [Slot -> Nat]
  BY Zenon DEF IInv, Types, Slot
<1>1. /\ bal \in [Slot -> Nat] /\ sell \in [Slot -> Nat]
      /\ DOMAIN offers \subseteq Slot /\ DOMAIN offers = DOMAIN my_offers \ {slot}
      /\ \A s \in Slot : sell[s] > 0 => s \in DOMAIN offers
  BY Destroyed, Zenon
<1>2. \A s \in DOMAIN offers : offers[s] = my_offers[s] /\ sell[s] = sellofferReserve[s]
  <2>1. ASSUME NEW s \in DOMAIN offers PROVE offers[s] = my_offers[s] /\ sell[s] = sellofferReserve[s]
    <3>1. s \in Slot /\ s \in DOMAIN my_offers /\ s # slot
      BY <1>1, Zenon
    <3> QED
      BY <1>0, <3>1, Zenon DEF Without
  <2> QED
    BY <2>1, Zenon
<1>3. \A s \in Slot : bal[s] + sell[s] = balance[s] + sellofferReserve[s]
  <2>1. sellofferReserve[slot] \in Nat
    BY <1>0, Zenon
  <2>2. \A s \in Slot : bal[s] = balance[s] + (IF s = slot THEN sellofferReserve[slot] ELSE 0)
    BY <1>0, <2>1 DEF Released, Credit
  <2>3. \A s \in Slot : sell[s] = IF s = slot THEN 0 ELSE sellofferReserve[s]
    BY <1>0, Zenon
  <2> HIDE DEF bal, sell
  <2> QED
    BY <1>0, <2>2, <2>3
<1> HIDE DEF bal, sell, offers
<1>4. ASSUME NEW n \in Nat \ {0}, NEW d, NEW f, NEW w,
             DEx_offerCreate(bal, sell, offers, who, p, n, d, f, w), UNCHANGED <<acceptReserve, my_accepts, exodus_prev>>
      PROVE  SumInv'
  BY <1>1, <1>2, <1>3, <1>4, OfferCreateSums, Zenon
<1>5. CASE CancelOffer(who, p)
  <2>1. balance' = bal /\ sellofferReserve' = sell /\ my_offers' = offers /\ txid' = txid
    BY <1>5, Zenon DEF CancelOffer, DEx_offerDestroy, bal, sell, offers
  <2>2. DEx_offerCreate(bal, sell, offers, who, p, 1, 0, 0, 0)
    BY <2>1, Zenon DEF DEx_offerCreate
  <2> QED
    BY <1>4, <1>5, <2>2 DEF CancelOffer, ending
<1>6. ASSUME NEW n \in Amounts, NEW d \in Prices, NEW f \in MinFees, NEW w \in Windows,
             TradeOffer(who, p, n, d, f, w)
      PROVE  SumInv'
  <2>1. n \in Nat \ {0} /\ UNCHANGED <<acceptReserve, my_accepts, exodus_prev>>
    BY <1>6, AmountsType DEF TradeOffer, ending
  <2>2. CASE DEx_offerExists(who, p)
    <3>1. DEx_offerCreate(bal, sell, offers, who, p, n, d, f, w)
      BY <1>6, <2>2, Zenon DEF TradeOffer, DEx_offerUpdate, bal, sell, offers
    <3> QED
      BY <1>4, <2>1, <3>1, Zenon
  <2>3. CASE ~DEx_offerExists(who, p)
    <3>1. DEx_offerCreate(balance, sellofferReserve, my_offers, who, p, n, d, f, w)
      BY <1>6, <2>3, Zenon DEF TradeOffer
    <3>2. DOMAIN my_offers \subseteq Slot /\ \A s \in Slot : sellofferReserve[s] > 0 => s \in DOMAIN my_offers
      BY Zenon DEF IInv, Types, ReservedTokensAreOnOffer
    <3> QED
      BY <1>0, <2>1, <3>1, <3>2, OfferCreateSums, Zenon
  <2> QED
    BY <2>2, <2>3, Zenon
<1> QED
  BY <1>5, <1>6, Zenon

\* An accept order belongs to one slot.
LEMMA SlotOf ==
  ASSUME NEW s \in Slot, NEW k
  PROVE  (k[1] = s[1] /\ k[2] = s[2]) <=> s = <<k[1], k[2]>>
BY DEF Slot

\* Accepting an offer moves tokens from its reserve to the accept order.
LEMMA JoinSums ==
  ASSUME IInv, SumInv, NEW buyer \in Address, NEW seller \in Address, NEW p \in Property,
         NEW m \in Nat, NEW a, NEW slot, NEW k,
         slot = <<seller, p>>, k = <<seller, p, buyer>>,
         a.remaining = m, slot \in DOMAIN my_offers, a.txid = my_offers[slot].txid,
         sellofferReserve' = Debit(sellofferReserve, seller, p, m),
         acceptReserve' = Credit(acceptReserve, seller, p, m),
         my_accepts' = Put(my_accepts, k, a), k \notin DOMAIN my_accepts,
         UNCHANGED <<balance, my_offers, txid, exodus_prev>>
  PROVE  SumInv'
<1>0. /\ slot \in Slot /\ txid \in Nat
      /\ balance \in [Slot -> Nat] /\ sellofferReserve \in [Slot -> Nat] /\ acceptReserve \in [Slot -> Int]
  BY Zenon DEF IInv, Types, SumInv, Numbered, Slot
<1>4. /\ DOMAIN my_accepts' = DOMAIN my_accepts \cup {k} /\ my_accepts'[k] = a
      /\ \A x \in DOMAIN my_accepts : my_accepts'[x] = my_accepts[x]
  BY Zenon DEF Put
<1>5. \A s \in Slot : sellofferReserve'[s] = sellofferReserve[s] - (IF s = slot THEN m ELSE 0)
  BY <1>0 DEF Debit
<1>6. /\ acceptReserve' \in [Slot -> Int]
      /\ \A s \in Slot : acceptReserve'[s] = acceptReserve[s] + (IF s = slot THEN m ELSE 0)
  BY <1>0 DEF Credit
<1>k. k[1] = seller /\ k[2] = p /\ \A s \in Slot : (k[1] = s[1] /\ k[2] = s[2]) <=> s = slot
  BY SlotOf
<1>7. Numbered'
  <2>1. IsFiniteSet(DOMAIN my_accepts')
    BY <1>4, FS_AddElement DEF SumInv, Numbered
  <2> QED
    BY <1>4, <1>6, <2>1 DEF SumInv, Numbered
<1>8. ASSUME NEW K \in SUBSET DOMAIN my_accepts
      PROVE  Rem(my_accepts', K) = Rem(my_accepts, K) /\ Rem(my_accepts', K \cup {k}) = Rem(my_accepts, K) + m
  <2>1. \A x \in K : my_accepts'[x].remaining = my_accepts[x].remaining
    BY <1>4, Zenon
  <2>2. k \notin K /\ my_accepts'[k].remaining = m /\ AcceptsOK(my_accepts)
    BY <1>4, AcceptsAreOK, Zenon
  <2>3. Rem(my_accepts', K) = Rem(my_accepts, K)
    BY <2>1, <2>2, RemSame
  <2>4. Rem(my_accepts', K \cup {k}) = Rem(my_accepts, K) + m
    BY <2>1, <2>2, RemJoin
  <2> QED
    BY <2>3, <2>4, Zenon
<1>9. ReserveAdds'
  <2> SUFFICES ASSUME NEW s \in Slot PROVE acceptReserve'[s] = Rem(my_accepts', Of(my_accepts', s))
    BY Zenon DEF ReserveAdds
  <2>1. /\ Of(my_accepts, s) \in SUBSET DOMAIN my_accepts
        /\ acceptReserve[s] = Rem(my_accepts, Of(my_accepts, s))
    BY AcceptsAreOK, Zenon DEF SumInv, ReserveAdds
  <2>2. CASE s = slot
    <3>1. Of(my_accepts', s) = Of(my_accepts, s) \cup {k}
      BY <1>4, <1>k, <2>2, Zenon DEF Of
    <3> QED
      BY <1>0, <1>6, <1>8, <2>1, <2>2, <3>1
  <2>3. CASE s # slot
    <3>1. Of(my_accepts', s) = Of(my_accepts, s)
      <4>1. ~(k[1] = s[1] /\ k[2] = s[2])
        BY <1>k, <2>3, Zenon
      <4> QED
        BY <1>4, <4>1, Zenon DEF Of
    <3> QED
      <4>1. acceptReserve'[s] = acceptReserve[s]
        BY <1>0, <1>6, <2>3
      <4>2. Rem(my_accepts', Of(my_accepts, s)) = Rem(my_accepts, Of(my_accepts, s))
        BY <1>8, <2>1, Zenon
      <4> QED
        BY <2>1, <3>1, <4>1, <4>2, Zenon
  <2> QED
    BY <2>2, <2>3, Zenon
<1>10. HeldKept'
  <2>1. SameSlots(balance, sellofferReserve, acceptReserve, balance', sellofferReserve', acceptReserve')
    BY <1>0, <1>5, <1>6 DEF InSlot, SameSlots
  <2> QED
    BY <2>1, HeldStays, Zenon
<1>11. NotOversold'
  <2> SUFFICES ASSUME NEW s \in DOMAIN my_offers
               PROVE  sellofferReserve'[s] + Rem(my_accepts', Current(my_accepts', my_offers, s))
                        <= my_offers[s].amount
    BY Zenon DEF NotOversold
  <2> DEFINE C == Current(my_accepts, my_offers, s)
  <2>1. /\ s \in Slot /\ C \in SUBSET DOMAIN my_accepts /\ Rem(my_accepts, C) \in Int
        /\ sellofferReserve[s] + Rem(my_accepts, C) <= my_offers[s].amount /\ my_offers[s].amount \in Nat
    BY AcceptsAreOK, RemType, Zenon DEF IInv, Types, Offer, SumInv, NotOversold
  <2>2. CASE s = slot
    <3>1. Current(my_accepts', my_offers, s) = C \cup {k}
      BY <1>4, <1>k, <2>2 DEF Current, Of
    <3> HIDE DEF C
    <3> QED
      <4>1. sellofferReserve'[s] = sellofferReserve[s] - m
        BY <1>5, <2>1, <2>2, Zenon
      <4>2. Rem(my_accepts', C \cup {k}) = Rem(my_accepts, C) + m
        BY <1>8, <2>1, Zenon
      <4>3. sellofferReserve[s] \in Int
        BY <1>0, <2>1
      <4> QED
        <5>1. (sellofferReserve[s] - m) + (Rem(my_accepts, C) + m) <= my_offers[s].amount
          <6>1. my_offers[s].amount \in Int
            BY <2>1
          <6> QED
            BY <2>1, <4>3, <6>1, BoundKept, Zenon
        <5> QED
          BY <3>1, <4>1, <4>2, <5>1, Zenon
  <2>3. CASE s # slot
    <3>1. Current(my_accepts', my_offers, s) = C
      <4>1. ~(k[1] = s[1] /\ k[2] = s[2])
        BY <1>k, <2>1, <2>3, Zenon
      <4> QED
        BY <1>4, <4>1, Zenon DEF Current, Of
    <3> HIDE DEF C
    <3> QED
      <4>1. sellofferReserve'[s] = sellofferReserve[s]
        BY <1>0, <1>5, <2>1, <2>3
      <4>2. Rem(my_accepts', C) = Rem(my_accepts, C)
        BY <1>8, <2>1, Zenon
      <4> QED
        BY <2>1, <3>1, <4>1, <4>2, Zenon
  <2> QED
    BY <2>2, <2>3, Zenon
<1> QED
  BY <1>7, <1>9, <1>10, <1>11, Zenon DEF SumInv

\* The same of the operation.
LEMMA AcceptCreateSums ==
  ASSUME IInv, SumInv, NEW buyer \in Address, NEW seller \in Address, NEW p \in Property,
         NEW n \in Amounts, NEW f \in Fees, DEx_acceptCreate(buyer, seller, p, n, f)
  PROVE  SumInv'
<1> DEFINE slot == <<seller, p>>
           k == <<seller, p, buyer>>
           m == Reservable(seller, p, n)
           a == [remaining |-> m, block |-> block, window |-> my_offers[slot].window,
                 amount |-> my_offers[slot].amount, desired |-> my_offers[slot].desired,
                 txid |-> my_offers[slot].txid]
<1>1. /\ sellofferReserve' = Debit(sellofferReserve, seller, p, m)
      /\ acceptReserve' = Credit(acceptReserve, seller, p, m)
      /\ my_accepts' = Put(my_accepts, k, a) /\ k \notin DOMAIN my_accepts
      /\ slot \in DOMAIN my_offers
      /\ UNCHANGED <<balance, my_offers, txid, exodus_prev>>
  BY Zenon DEF DEx_acceptCreate, DEx_offerExists, ending
<1>2. m \in Nat
  BY AmountsType, Zenon DEF Reservable, IInv, Types, Slot
<1>3. a.remaining = m /\ a.txid = my_offers[slot].txid
  BY Zenon
<1>4. slot = <<seller, p>> /\ k = <<seller, p, buyer>>
  BY Zenon
<1> HIDE DEF m, a, slot, k
<1> QED
  BY <1>1, <1>2, <1>3, <1>4, JoinSums, Zenon


\* Tokens leave an accept order, and the accept order goes when none are left.
Shrinks(k, m) ==
    \/ my_accepts' = Without(my_accepts, {k}) /\ my_accepts[k].remaining = m
    \/ my_accepts' = [my_accepts EXCEPT ![k].remaining = @ - m]

\* The accept orders after that.
LEMMA ShrunkAccepts ==
  ASSUME IInv, SumInv, NEW k \in DOMAIN my_accepts, NEW m \in Nat, Shrinks(k, m)
  PROVE  /\ DOMAIN my_accepts \ {k} \subseteq DOMAIN my_accepts'
         /\ DOMAIN my_accepts' \subseteq DOMAIN my_accepts
         /\ \A x \in DOMAIN my_accepts' : my_accepts'[x].txid = my_accepts[x].txid
         /\ \A x \in DOMAIN my_accepts \ {k} : my_accepts'[x].remaining = my_accepts[x].remaining
         /\ k \in DOMAIN my_accepts' => my_accepts'[k].remaining = my_accepts[k].remaining - m
         /\ k \notin DOMAIN my_accepts' => my_accepts[k].remaining = m
<1>1. CASE my_accepts' = Without(my_accepts, {k}) /\ my_accepts[k].remaining = m
  <2>1. /\ DOMAIN my_accepts' = DOMAIN my_accepts \ {k}
        /\ \A x \in DOMAIN my_accepts \ {k} : my_accepts'[x] = my_accepts[x]
    BY <1>1, Zenon DEF Without
  <2> QED
    BY <1>1, <2>1, Zenon
<1>2. CASE my_accepts' = [my_accepts EXCEPT ![k].remaining = @ - m]
  <2>1. my_accepts \in [DOMAIN my_accepts -> Accept]
    BY Zenon DEF IInv, Types
  <2> DEFINE a == [my_accepts[k] EXCEPT !.remaining = @ - m]
  <2>2. a.remaining = my_accepts[k].remaining - m /\ a.txid = my_accepts[k].txid
    BY <2>1, Zenon DEF Accept
  <2>3. my_accepts' = [my_accepts EXCEPT ![k] = a]
    BY <1>2, Zenon
  <2> HIDE DEF a
  <2>4. /\ DOMAIN my_accepts' = DOMAIN my_accepts /\ my_accepts'[k] = a
        /\ \A x \in DOMAIN my_accepts \ {k} : my_accepts'[x] = my_accepts[x]
    BY <2>1, <2>3, Zenon
  <2> QED
    BY <2>2, <2>4, Zenon
<1> QED
  BY <1>1, <1>2, Zenon DEF Shrinks

\* What is left of any set of accept orders after that.
LEMMA ShrunkRem ==
  ASSUME IInv, SumInv, NEW k \in DOMAIN my_accepts, NEW m \in Nat, Shrinks(k, m),
         NEW K \in SUBSET DOMAIN my_accepts
  PROVE  Rem(my_accepts', K \cap DOMAIN my_accepts')
           = Rem(my_accepts, K) - (IF k \in K THEN m ELSE 0)
<1>0. AcceptsOK(my_accepts) /\ my_accepts[k].remaining \in Int /\ Rem(my_accepts, K) \in Int
  BY AcceptsAreOK, RemType
<1>1. CASE k \notin K
  <2>1. K \cap DOMAIN my_accepts' = K /\ \A x \in K : my_accepts'[x].remaining = my_accepts[x].remaining
    BY <1>1, ShrunkAccepts, Zenon
  <2>2. Rem(my_accepts', K) = Rem(my_accepts, K)
    BY <1>0, <2>1, RemSame, Zenon
  <2> QED
    BY <1>0, <1>1, <2>1, <2>2
<1>2. CASE k \in K /\ k \in DOMAIN my_accepts'
  <2>1. /\ K \cap DOMAIN my_accepts' = K
        /\ \A x \in K \ {k} : my_accepts'[x].remaining = my_accepts[x].remaining
    BY <1>2, ShrunkAccepts, Zenon
  <2>2. my_accepts'[k].remaining = my_accepts[k].remaining + (-m) /\ -m \in Int
    <3>1. my_accepts'[k].remaining = my_accepts[k].remaining - m
      BY <1>2, ShrunkAccepts, Zenon
    <3> QED
      BY <1>0, <3>1
  <2>3. Rem(my_accepts', K) = Rem(my_accepts, K) + (-m)
    BY <1>0, <1>2, <2>1, <2>2, RemReduce
  <2> QED
    BY <1>0, <1>2, <2>1, <2>3, Zenon
<1>3. CASE k \in K /\ k \notin DOMAIN my_accepts'
  <2>1. /\ K \cap DOMAIN my_accepts' = K \ {k}
        /\ \A x \in K \ {k} : my_accepts'[x].remaining = my_accepts[x].remaining
        /\ my_accepts[k].remaining = m
    BY <1>3, ShrunkAccepts, Zenon
  <2>2. Rem(my_accepts', K \ {k}) = Rem(my_accepts, K) - my_accepts[k].remaining
    BY <1>0, <1>3, <2>1, RemLeave
  <2> QED
    BY <1>0, <1>3, <2>1, <2>2, Zenon
<1> QED
  BY <1>1, <1>2, <1>3, Zenon

\* The tokens leave ACCEPT_RESERVE too: it stays the sum of the accept orders,
\* and what is accepted of the open offer is less by those tokens if the
\* accept order is for that offer.
LEMMA ShrunkReserve ==
  ASSUME IInv, SumInv, NEW k \in DOMAIN my_accepts, NEW m \in Nat, Shrinks(k, m),
         acceptReserve' = Debit(acceptReserve, k[1], k[2], m)
  PROVE  /\ IsFiniteSet(DOMAIN my_accepts')
         /\ acceptReserve' \in [Slot -> Int]
         /\ \A s \in Slot : acceptReserve'[s] = acceptReserve[s] - (IF s = <<k[1], k[2]>> THEN m ELSE 0)
         /\ ReserveAdds'
         /\ \A s \in DOMAIN my_offers :
              Rem(my_accepts', Current(my_accepts', my_offers, s))
                = Rem(my_accepts, Current(my_accepts, my_offers, s))
                    - (IF k \in Current(my_accepts, my_offers, s) THEN m ELSE 0)
<1>0. acceptReserve \in [Slot -> Int] /\ k[1] \in Address /\ k[2] \in Property
  BY Zenon DEF IInv, Types, SumInv, Numbered
<1>1. /\ acceptReserve' \in [Slot -> Int]
      /\ \A s \in Slot : acceptReserve'[s] = acceptReserve[s] - (IF s = <<k[1], k[2]>> THEN m ELSE 0)
  BY <1>0 DEF Debit, Slot
<1>2. IsFiniteSet(DOMAIN my_accepts')
  BY ShrunkAccepts, FS_Subset, Zenon DEF SumInv, Numbered
<1>3. \A x \in DOMAIN my_accepts' : x \in DOMAIN my_accepts /\ my_accepts'[x].txid = my_accepts[x].txid
  BY ShrunkAccepts, Zenon
<1>4. ReserveAdds'
  <2> SUFFICES ASSUME NEW s \in Slot PROVE acceptReserve'[s] = Rem(my_accepts', Of(my_accepts', s))
    BY Zenon DEF ReserveAdds
  <2> DEFINE K == Of(my_accepts, s)
  <2>1. Of(my_accepts', s) = K \cap DOMAIN my_accepts'
    BY <1>3, Zenon DEF Of
  <2>2. k \in K <=> s = <<k[1], k[2]>>
    BY SlotOf DEF Of
  <2>3. K \in SUBSET DOMAIN my_accepts /\ acceptReserve[s] = Rem(my_accepts, K)
    BY AcceptsAreOK, Zenon DEF SumInv, ReserveAdds
  <2> HIDE DEF K
  <2>4. Rem(my_accepts', K \cap DOMAIN my_accepts') = Rem(my_accepts, K) - (IF k \in K THEN m ELSE 0)
    BY <2>3, ShrunkRem, Zenon
  <2>5. acceptReserve'[s] = acceptReserve[s] - (IF s = <<k[1], k[2]>> THEN m ELSE 0)
    BY <1>1, Zenon
  <2> QED
    BY <2>1, <2>2, <2>3, <2>4, <2>5
<1>5. ASSUME NEW s \in DOMAIN my_offers
      PROVE  Rem(my_accepts', Current(my_accepts', my_offers, s))
                = Rem(my_accepts, Current(my_accepts, my_offers, s))
                    - (IF k \in Current(my_accepts, my_offers, s) THEN m ELSE 0)
  <2> DEFINE K == Current(my_accepts, my_offers, s)
  <2>1. Current(my_accepts', my_offers, s) = K \cap DOMAIN my_accepts'
    BY <1>3, Zenon DEF Of, Current
  <2>2. K \in SUBSET DOMAIN my_accepts
    BY AcceptsAreOK, Zenon
  <2> HIDE DEF K
  <2>3. Rem(my_accepts', K \cap DOMAIN my_accepts') = Rem(my_accepts, K) - (IF k \in K THEN m ELSE 0)
    BY <2>2, ShrunkRem, Zenon
  <2> QED
    BY <2>1, <2>3, Zenon DEF K
<1> QED
  BY <1>1, <1>2, <1>4, <1>5, Zenon

\* A purchase moves tokens from the accept order of the seller to the buyer.
LEMMA PurchaseSums ==
  ASSUME IInv, SumInv, NEW k \in DOMAIN my_accepts, NEW n \in Nat, n <= my_accepts[k].remaining,
         Purchase(k, n), UNCHANGED <<txid, exodus_prev>>
  PROVE  SumInv'
<1>0. /\ k[1] \in Address /\ k[2] \in Property /\ k[3] \in Address /\ txid \in Nat
      /\ balance \in [Slot -> Nat] /\ sellofferReserve \in [Slot -> Nat] /\ acceptReserve \in [Slot -> Int]
      /\ my_accepts[k].remaining \in Nat
  BY Zenon DEF IInv, Types, Accept, SumInv, Numbered
<1>1. /\ balance' = Credit(balance, k[3], k[2], n)
      /\ acceptReserve' = Debit(acceptReserve, k[1], k[2], n)
      /\ sellofferReserve' = sellofferReserve
      /\ my_offers' = my_offers \/ my_offers' = Without(my_offers, {<<k[1], k[2]>>})
  BY Zenon DEF Purchase
<1>2. Shrinks(k, n)
  <2>1. CASE n >= my_accepts[k].remaining
    BY <1>0, <2>1 DEF Purchase, Shrinks
  <2>2. CASE ~(n >= my_accepts[k].remaining)
    BY <2>2, Zenon DEF Purchase, Shrinks
  <2> QED
    BY <2>1, <2>2, Zenon
<1>3. DOMAIN my_offers' \subseteq DOMAIN my_offers /\ \A s \in DOMAIN my_offers' : my_offers'[s] = my_offers[s]
  BY <1>1, Zenon DEF Without
<1>4. /\ IsFiniteSet(DOMAIN my_accepts') /\ acceptReserve' \in [Slot -> Int] /\ ReserveAdds'
      /\ \A s \in Slot : acceptReserve'[s] = acceptReserve[s] - (IF s = <<k[1], k[2]>> THEN n ELSE 0)
  BY <1>1, <1>2, ShrunkReserve
<1>5. \A s \in DOMAIN my_offers :
        Rem(my_accepts', Current(my_accepts', my_offers, s))
          = Rem(my_accepts, Current(my_accepts, my_offers, s))
              - (IF k \in Current(my_accepts, my_offers, s) THEN n ELSE 0)
  BY <1>1, <1>2, ShrunkReserve
<1>6. Numbered'
  <2>1. \A x \in DOMAIN my_accepts' : my_accepts'[x].txid <= txid
    BY <1>2, ShrunkAccepts, Zenon DEF SumInv, Numbered
  <2> QED
    BY <1>3, <1>4, <2>1 DEF SumInv, Numbered
<1>7. HeldKept'
  <2>0. n \in Int /\ balance \in [Slot -> Int]
    BY <1>0
  <2>1. Whole(balance, sellofferReserve, acceptReserve)
    BY <1>0 DEF InSlot, Whole
  <2>2. \A s \in Slot : balance'[s] = balance[s] + (IF s = <<k[3], k[2]>> THEN n ELSE 0)
    BY <1>0, <1>1, BalanceCredited
  <2>3. Moved(balance, sellofferReserve, acceptReserve, balance', sellofferReserve', acceptReserve',
              k[1], k[3], k[2], n)
    <3> SUFFICES ASSUME NEW s \in Slot
                 PROVE  InSlot(balance', sellofferReserve', acceptReserve', s)
                          = InSlot(balance, sellofferReserve, acceptReserve, s)
                              - (IF s = <<k[1], k[2]>> THEN n ELSE 0) + (IF s = <<k[3], k[2]>> THEN n ELSE 0)
      BY Zenon DEF Moved
    <3>1. /\ balance'[s] = balance[s] + (IF s = <<k[3], k[2]>> THEN n ELSE 0)
          /\ acceptReserve'[s] = acceptReserve[s] - (IF s = <<k[1], k[2]>> THEN n ELSE 0)
          /\ sellofferReserve'[s] = sellofferReserve[s]
      BY <1>1, <1>4, <2>2, Zenon
    <3>2. balance[s] \in Int /\ acceptReserve[s] \in Int /\ sellofferReserve[s] \in Int
      BY <1>0
    <3> QED
      BY <2>0, <3>1, <3>2 DEF InSlot
  <2> QED
    BY <1>0, <2>0, <2>1, <2>3, HeldGoes
<1>8. NotOversold'
  <2> SUFFICES ASSUME NEW s \in DOMAIN my_offers'
               PROVE  sellofferReserve'[s] + Rem(my_accepts', Current(my_accepts', my_offers', s))
                        <= my_offers'[s].amount
    BY Zenon DEF NotOversold
  <2> DEFINE C == Current(my_accepts, my_offers, s)
  <2>1. /\ s \in Slot /\ s \in DOMAIN my_offers /\ my_offers'[s] = my_offers[s]
        /\ C \in SUBSET DOMAIN my_accepts /\ AcceptsOK(my_accepts)
        /\ sellofferReserve[s] + Rem(my_accepts, C) <= my_offers[s].amount /\ my_offers[s].amount \in Nat
    BY <1>3, AcceptsAreOK, Zenon DEF IInv, Types, Offer, SumInv, NotOversold
  <2>2. Current(my_accepts', my_offers', s) = Current(my_accepts', my_offers, s)
    BY <2>1, Zenon DEF Current
  <2>3. Rem(my_accepts', Current(my_accepts', my_offers, s)) = Rem(my_accepts, C) - (IF k \in C THEN n ELSE 0)
    BY <1>5, <2>1, Zenon
  <2> HIDE DEF C
  <2>4. Rem(my_accepts, C) \in Int /\ sellofferReserve[s] \in Nat
    BY <1>0, <2>1, RemType, Zenon
  <2>5. sellofferReserve'[s] = sellofferReserve[s]
    BY <1>1, Zenon
  <2> QED
    <3>1. sellofferReserve[s] + (Rem(my_accepts, C) - (IF k \in C THEN n ELSE 0)) <= my_offers[s].amount
      <4>1. my_offers[s].amount \in Int /\ sellofferReserve[s] \in Int
        BY <2>1, <2>4
      <4>2. CASE k \in C
        BY <2>1, <2>4, <4>1, <4>2, BoundKept, Zenon
      <4>3. CASE k \notin C
        BY <2>1, <2>4, <4>1, <4>3
      <4> QED
        BY <4>2, <4>3, Zenon
    <3> QED
      BY <2>1, <2>2, <2>3, <2>5, <3>1, Zenon
<1> QED
  BY <1>4, <1>6, <1>7, <1>8, Zenon DEF SumInv

\* A payment buys of one accept order or of none.
LEMMA PaymentSums == ASSUME IInv, SumInv, DEx_payment PROVE SumInv'
<1> DEFINE rpd == Head(paying.left)[2]
<1>1. rpd \in Nat /\ UNCHANGED <<txid, exodus_prev>>
  BY DEF DEx_payment, IInv, Types, ending
<1>2. CASE UNCHANGED <<tally, my_offers, my_accepts>>
  BY <1>1, <1>2, Zenon DEF tally, SumInv, Numbered, ReserveAdds, HeldKept, Supply, NotOversold
<1>3. ASSUME NEW k \in DOMAIN my_accepts, PaidBy(k, rpd) PROVE SumInv'
  <2>1. PurchasedOf(k, rpd) \in Nat /\ PurchasedOf(k, rpd) <= my_accepts[k].remaining
    BY <1>1, <1>3, PurchasedType, Zenon DEF IInv, PaidBy
  <2> QED
    BY <1>1, <1>3, <2>1, PurchaseSums, Zenon DEF PaidBy
<1> QED
  BY <1>2, <1>3, PaymentOutcome, Zenon

\* The tokens of an expired accept order go back to the offer if that is the
\* one it was made for, and to the seller otherwise.
LEMMA EraseSums ==
  ASSUME IInv, SumInv, NEW k \in DOMAIN my_accepts, EraseExpiredAccept(k)
  PROVE  SumInv'
<1> DEFINE n == my_accepts[k].remaining
           slot == <<k[1], k[2]>>
           same == SameOffer(k)
<1>0. /\ k[1] \in Address /\ k[2] \in Property /\ slot \in Slot /\ txid \in Nat
      /\ balance \in [Slot -> Nat] /\ sellofferReserve \in [Slot -> Nat] /\ acceptReserve \in [Slot -> Int]
      /\ n \in Nat
  BY Zenon DEF IInv, Types, Accept, SumInv, Numbered, Slot
<1>1. /\ acceptReserve' = Debit(acceptReserve, k[1], k[2], n)
      /\ my_accepts' = Without(my_accepts, {k})
      /\ UNCHANGED <<my_offers, txid, exodus_prev>>
      /\ same => sellofferReserve' = Credit(sellofferReserve, k[1], k[2], n) /\ balance' = balance
      /\ ~same => balance' = Credit(balance, k[1], k[2], n) /\ sellofferReserve' = sellofferReserve
  BY Zenon DEF EraseExpiredAccept, DEx_acceptDestroy, ending
<1>2. Shrinks(k, n)
  BY <1>1, Zenon DEF Shrinks
<1>3. \A s \in DOMAIN my_offers : k \in Current(my_accepts, my_offers, s) <=> s = slot /\ same
  <2> SUFFICES ASSUME NEW s \in DOMAIN my_offers
               PROVE  k \in Current(my_accepts, my_offers, s) <=> s = slot /\ same
    BY Zenon
  <2>1. (k[1] = s[1] /\ k[2] = s[2]) <=> s = slot
    BY SlotOf, Zenon DEF IInv, Types
  <2>2. k \in Current(my_accepts, my_offers, s) <=> s = slot /\ my_accepts[k].txid = my_offers[s].txid
    BY <2>1, Zenon DEF Current, Of
  <2> QED
    BY <2>2, Zenon DEF SameOffer, DEx_offerExists
<1> HIDE DEF n, same, slot
<1>4. /\ IsFiniteSet(DOMAIN my_accepts') /\ acceptReserve' \in [Slot -> Int] /\ ReserveAdds'
      /\ \A s \in Slot : acceptReserve'[s] = acceptReserve[s] - (IF s = slot THEN n ELSE 0)
  BY <1>0, <1>1, <1>2, ShrunkReserve, Zenon DEF slot
<1>5. \A s \in DOMAIN my_offers :
        Rem(my_accepts', Current(my_accepts', my_offers, s))
          = Rem(my_accepts, Current(my_accepts, my_offers, s))
              - (IF k \in Current(my_accepts, my_offers, s) THEN n ELSE 0)
  BY <1>0, <1>1, <1>2, ShrunkReserve, Zenon
<1>6. Numbered'
  <2>1. \A x \in DOMAIN my_accepts' : my_accepts'[x].txid <= txid
    BY <1>0, <1>2, ShrunkAccepts DEF SumInv, Numbered
  <2> QED
    BY <1>1, <1>4, <2>1, Zenon DEF SumInv, Numbered
<1>7. /\ \A s \in Slot : sellofferReserve'[s] = sellofferReserve[s] + (IF s = slot /\ same THEN n ELSE 0)
      /\ \A s \in Slot : balance'[s] = balance[s] + (IF s = slot /\ ~same THEN n ELSE 0)
  <2>1. CASE same
    BY <1>0, <1>1, <2>1 DEF Credit, slot
  <2>2. CASE ~same
    BY <1>0, <1>1, <2>2 DEF Credit, slot
  <2> QED
    BY <2>1, <2>2, Zenon
<1>8. HeldKept'
  <2>1. SameSlots(balance, sellofferReserve, acceptReserve, balance', sellofferReserve', acceptReserve')
    BY <1>0, <1>4, <1>7 DEF InSlot, SameSlots
  <2> QED
    BY <1>1, <2>1, HeldStays, Zenon
<1>9. NotOversold'
  <2> SUFFICES ASSUME NEW s \in DOMAIN my_offers
               PROVE  sellofferReserve'[s] + Rem(my_accepts', Current(my_accepts', my_offers, s))
                        <= my_offers[s].amount
    BY <1>1, Zenon DEF NotOversold
  <2> DEFINE C == Current(my_accepts, my_offers, s)
  <2>1. /\ s \in Slot /\ C \in SUBSET DOMAIN my_accepts /\ AcceptsOK(my_accepts)
        /\ sellofferReserve[s] + Rem(my_accepts, C) <= my_offers[s].amount /\ my_offers[s].amount \in Nat
    BY AcceptsAreOK, Zenon DEF IInv, Types, Offer, SumInv, NotOversold
  <2>2. Rem(my_accepts', Current(my_accepts', my_offers, s))
          = Rem(my_accepts, C) - (IF s = slot /\ same THEN n ELSE 0)
    BY <1>3, <1>5, Zenon
  <2> HIDE DEF C
  <2>3. Rem(my_accepts, C) \in Int /\ sellofferReserve[s] \in Nat
    BY <1>0, <2>1, RemType, Zenon
  <2>4. sellofferReserve'[s] = sellofferReserve[s] + (IF s = slot /\ same THEN n ELSE 0)
    BY <1>7, <2>1, Zenon
  <2> QED
    BY <1>0, <2>1, <2>2, <2>3, <2>4
<1> QED
  BY <1>4, <1>6, <1>8, <1>9 DEF SumInv

\* A payment between addresses leaves offers and accept orders alone.
LEMMA SimpleSendSums ==
  ASSUME IInv, SumInv, NEW who \in Address, NEW to \in Receivers, NEW p \in Property, NEW n \in Amounts,
         SimpleSend(who, to, p, n)
  PROVE  SumInv'
<1>0. /\ to \in Address /\ n \in Nat /\ balance \in [Slot -> Nat]
      /\ sellofferReserve \in [Slot -> Nat] /\ acceptReserve \in [Slot -> Int]
  BY AmountsType, ReceiversType, Zenon DEF IInv, Types, SumInv, Numbered
<1>1. /\ balance' = Credit(Debit(balance, who, p, n), to, p, n)
      /\ UNCHANGED <<sellofferReserve, acceptReserve, my_offers, my_accepts, txid, exodus_prev>>
  BY Zenon DEF SimpleSend, ending
<1> DEFINE b == Debit(balance, who, p, n)
<1>b. n \in Int /\ balance \in [Slot -> Int]
  BY <1>0
<1>2. b \in [Slot -> Int] /\ \A s \in Slot : b[s] = balance[s] - (IF s = <<who, p>> THEN n ELSE 0)
  BY <1>b, DebitAt
<1>3. balance' = Credit(b, to, p, n)
  BY <1>1, Zenon
<1> HIDE DEF b
<1>4. \A s \in Slot : balance'[s] = b[s] + (IF s = <<to, p>> THEN n ELSE 0)
  BY <1>0, <1>2, <1>3 DEF Credit, Slot
<1>5. HeldKept'
  <2>1. Whole(balance, sellofferReserve, acceptReserve)
    BY <1>0 DEF InSlot, Whole
  <2>2. Moved(balance, sellofferReserve, acceptReserve, balance', sellofferReserve', acceptReserve',
              who, to, p, n)
    <3> SUFFICES ASSUME NEW s \in Slot
                 PROVE  InSlot(balance', sellofferReserve', acceptReserve', s)
                          = InSlot(balance, sellofferReserve, acceptReserve, s)
                              - (IF s = <<who, p>> THEN n ELSE 0) + (IF s = <<to, p>> THEN n ELSE 0)
      BY Zenon DEF Moved
    <3>1. /\ balance'[s] = b[s] + (IF s = <<to, p>> THEN n ELSE 0)
          /\ b[s] = balance[s] - (IF s = <<who, p>> THEN n ELSE 0)
          /\ acceptReserve'[s] = acceptReserve[s] /\ sellofferReserve'[s] = sellofferReserve[s]
      BY <1>1, <1>2, <1>4, Zenon
    <3>2. balance[s] \in Int /\ acceptReserve[s] \in Int /\ sellofferReserve[s] \in Int
      BY <1>0
    <3> QED
      BY <1>b, <3>1, <3>2 DEF InSlot
  <2> QED
    BY <1>0, <1>1, <1>b, <2>1, <2>2, HeldGoes, Zenon
<1> QED
  BY <1>1, <1>5, Zenon DEF SumInv, Numbered, ReserveAdds, NotOversold

\* The end of a block creates the tokens that it adds to exodus_prev.
LEMMA IssueSums ==
  ASSUME IInv, SumInv, NEW devmsc \in Vested[block], NextBlock(devmsc)
  PROVE  SumInv'
<1>1. PICK n \in Nat : exodus_prev' = exodus_prev + n /\ balance' = Credit(balance, Exodus, MSC, n)
  BY IssueOutcome, Zenon
<1>2. UNCHANGED <<sellofferReserve, acceptReserve, my_offers, my_accepts, txid>>
  BY Zenon DEF NextBlock
<1>3. /\ Exodus \in Address /\ MSC \in Property /\ balance \in [Slot -> Nat]
      /\ sellofferReserve \in [Slot -> Nat] /\ acceptReserve \in [Slot -> Int]
  BY VestedType, Zenon DEF IInv, Types, SumInv, Numbered
<1>4. \A s \in Slot : balance'[s] = balance[s] + (IF s = <<Exodus, MSC>> THEN n ELSE 0)
  BY <1>1, <1>3, BalanceCredited
<1>5. HeldKept'
  <2> SUFFICES ASSUME NEW p \in Property
               PROVE  Held(balance', sellofferReserve, acceptReserve, p) = Supply(p)'
    BY <1>2, Zenon DEF HeldKept
  <2> DEFINE f == [a \in Address |-> balance[<<a, p>>] + sellofferReserve[<<a, p>>] + acceptReserve[<<a, p>>]]
             g == [a \in Address |-> balance'[<<a, p>>] + sellofferReserve[<<a, p>>] + acceptReserve[<<a, p>>]]
             m == IF p = MSC THEN n ELSE 0
  <2>1. \A a \in Address : <<a, p>> \in Slot /\ (<<a, p>> = <<Exodus, MSC>> <=> a = Exodus /\ p = MSC)
    BY DEF Slot
  <2>2. \A a \in Address : /\ balance[<<a, p>>] \in Int /\ sellofferReserve[<<a, p>>] \in Int
                           /\ acceptReserve[<<a, p>>] \in Int
                           /\ balance'[<<a, p>>] = balance[<<a, p>>] + (IF a = Exodus THEN m ELSE 0)
    BY <1>3, <1>4, <2>1
  <2>3. /\ \A a \in Address : f[a] \in Int
        /\ g[Exodus] = f[Exodus] + m /\ m \in Int
        /\ \A a \in Address \ {Exodus} : g[a] = f[a]
    BY <1>3, <2>2
  <2>4. Held(balance, sellofferReserve, acceptReserve, p) = Sum(f, Address)
        /\ Held(balance', sellofferReserve, acceptReserve, p) = Sum(g, Address)
    BY Zenon DEF Held
  <2> HIDE DEF f, g, m
  <2>5. Sum(g, Address) = Sum(f, Address) + m
    BY <1>3, <2>3, AddressesFinite, SumUpdate
  <2>6. Sum(f, Address) \in Int /\ Sum(f, Address) = Supply(p)
    BY <2>3, <2>4, AddressesFinite, SumType, Zenon DEF SumInv, HeldKept
  <2>7. CASE p = MSC
    BY <1>1, <2>4, <2>5, <2>6, <2>7, Zenon DEF Supply, m
  <2>8. CASE p # MSC
    <3>1. Sum(g, Address) = Sum(f, Address)
      BY <2>5, <2>6, <2>8 DEF m
    <3> QED
      BY <2>4, <2>6, <2>8, <3>1, Zenon DEF Supply
  <2> QED
    BY <2>7, <2>8, Zenon
<1> QED
  BY <1>2, <1>5, Zenon DEF SumInv, Numbered, ReserveAdds, NotOversold

\* Every step keeps the invariant of the sums.
LEMMA NextSums == ASSUME IInv, SumInv, [Next]_vars PROVE SumInv'
<1>1. ASSUME NEW who \in Address, NEW p \in Property, NEW n \in Amounts, NEW d \in Prices,
             NEW f \in MinFees, NEW w \in Windows, TradeOffer(who, p, n, d, f, w)
      PROVE  SumInv'
  BY <1>1, OfferSums, Zenon
<1>2. ASSUME NEW who \in Address, NEW p \in Property, CancelOffer(who, p) PROVE SumInv'
  BY <1>2, OfferSums, Zenon
<1>3. ASSUME UNCHANGED <<balance, sellofferReserve, acceptReserve, my_offers, my_accepts, txid, exodus_prev>>
      PROVE  SumInv'
  BY <1>3, Zenon DEF SumInv, Numbered, ReserveAdds, HeldKept, Supply, NotOversold
<1>4. ASSUME NEW who \in Address, NEW outs \in Payments, HandleDExPayments(who, outs) PROVE SumInv'
  BY <1>3, <1>4, Zenon DEF HandleDExPayments, tally, ending
<1>5. CASE PaymentDone \/ BlockEnd
  BY <1>3, <1>5, Zenon DEF PaymentDone, BlockEnd, tally, ending
<1>12. ASSUME NEW devmsc \in Vested[block], NextBlock(devmsc) PROVE SumInv'
  BY <1>12, IssueSums, Zenon
<1>6. ASSUME NEW s \in Freezable, FreezeTokens(s) \/ UnfreezeTokens(s) PROVE SumInv'
  BY <1>3, <1>6, Zenon DEF FreezeTokens, UnfreezeTokens, tally, ending
<1>7. CASE UNCHANGED vars
  BY <1>3, <1>7, Zenon DEF vars, tally, ending
<1>8. ASSUME NEW k \in DOMAIN my_accepts, EraseExpiredAccept(k) PROVE SumInv'
  BY <1>8, EraseSums, Zenon
<1>9. ASSUME NEW who \in Address, NEW p \in Property, NEW seller \in Address, NEW n \in Amounts, NEW f \in Fees,
             DEx_acceptCreate(who, seller, p, n, f)
      PROVE  SumInv'
  BY <1>9, AcceptCreateSums, Zenon
<1>10. ASSUME NEW who \in Address, NEW p \in Property, NEW to \in Receivers, NEW n \in Amounts,
              SimpleSend(who, to, p, n)
       PROVE  SumInv'
  BY <1>10, SimpleSendSums, Zenon
<1>11. CASE DEx_payment
  BY <1>11, PaymentSums, Zenon
<1> QED
  BY <1>1, <1>2, <1>4, <1>5, <1>6, <1>7, <1>8, <1>9, <1>10, <1>11, <1>12, Zenon DEF Next

\* The sums are as they must be in every reachable state.
THEOREM SumsAreKept == Spec => []SumInv
<1>1. Init => SumInv
  BY InitSums, Zenon
<1>2. IInv /\ SumInv /\ [Next]_vars => SumInv'
  BY NextSums, Zenon
<1> QED
  BY <1>1, <1>2, Invariance, PTL DEF Spec
-----------------------------------------------------------------------------
(* From the sums of functions back to SumOver.                             *)

\* What the accept orders of a set still reserve.
LEMMA RemainingIsRem == ASSUME NEW K PROVE Remaining(K) = Rem(my_accepts, K)
<1> DEFINE f == [k \in K |-> my_accepts[k].remaining]
<1>1. Remaining(K) = Sum(f, K)
  BY Zenon DEF Remaining, SumOver, MapThenSumSet, MapThenFoldSet, Sum, Solves, SumStep
<1> QED
  BY <1>1, Zenon DEF Rem

\* No sequence of offers, accepts, payments, cancellations and expiries
\* creates or loses a token, only the end of a block issues property 1 and
\* exodus_prev counts what it issued, and ACCEPT_RESERVE is exactly what the open
\* accept orders will take out of it (DEx_payment, DEx_acceptDestroy).
THEOREM ConservationOfTokens == Spec => []TokensConserved
<1>1. ASSUME SumInv PROVE TokensConserved
  <2>1. ASSUME NEW s \in Slot PROVE acceptReserve[s] = Remaining(AcceptsOf(s))
    <3>1. AcceptsOf(s) = Of(my_accepts, s)
      BY Zenon DEF AcceptsOf, Of
    <3> QED
      BY <1>1, <3>1, RemainingIsRem, Zenon DEF SumInv, ReserveAdds
  <2>2. ASSUME NEW p \in Property
        PROVE  Held(balance, sellofferReserve, acceptReserve, p) = Supply(p)
    BY <1>1, Zenon DEF SumInv, HeldKept
  <2> QED
    BY <2>1, <2>2, HeldIsSum, Zenon DEF TokensConserved, Supply
<1> QED
  BY <1>1, SumsAreKept, PTL

\* An offer never sells more than it offered, although accept orders of an
\* earlier offer expire into the same reserves (DEx_acceptDestroy).
THEOREM OffersAreNotOversold == Spec => []OfferNotOversold
<1>1. ASSUME SumInv PROVE OfferNotOversold
  <2>1. ASSUME NEW s
        PROVE  {k \in AcceptsOf(s) : my_accepts[k].txid = my_offers[s].txid} = Current(my_accepts, my_offers, s)
    BY Zenon DEF AcceptsOf, Of, Current
  <2>2. ASSUME NEW s \in DOMAIN my_offers
        PROVE  sellofferReserve[s] + Rem(my_accepts, Current(my_accepts, my_offers, s)) <= my_offers[s].amount
    BY <1>1, Zenon DEF SumInv, NotOversold
  <2> QED
    BY <2>1, <2>2, RemainingIsRem, Zenon DEF OfferNotOversold
<1> QED
  BY <1>1, SumsAreKept, PTL

\* The asserts around update_tally_map hold: no balance and no reserve is
\* ever negative.
THEOREM TalliesAreNatural ==
    Spec => [](/\ balance \in [Slot -> Nat]
               /\ sellofferReserve \in [Slot -> Nat]
               /\ acceptReserve \in [Slot -> Nat])
<1>1. ASSUME IInv, SumInv
      PROVE  balance \in [Slot -> Nat] /\ sellofferReserve \in [Slot -> Nat] /\ acceptReserve \in [Slot -> Nat]
  <2>1. ASSUME NEW s \in Slot PROVE acceptReserve[s] \in Nat
    <3> DEFINE K == Of(my_accepts, s)
               f == [k \in K |-> my_accepts[k].remaining]
    <3>1. /\ K \in SUBSET DOMAIN my_accepts /\ AcceptsOK(my_accepts)
          /\ \A k \in DOMAIN my_accepts : my_accepts[k].remaining \in Nat
          /\ acceptReserve[s] = Rem(my_accepts, K)
      BY <1>1, AcceptsAreOK, Zenon DEF SumInv, ReserveAdds
    <3>2. Rem(my_accepts, K) = Sum(f, K)
      BY Zenon DEF Rem
    <3>3. IsFiniteSet(K)
      BY <3>1, RemType, Zenon
    <3>4. \A k \in K : f[k] \in Nat
      BY <3>1, Zenon
    <3> HIDE DEF K, f
    <3>5. \A k \in K : f[k] \in Int /\ f[k] >= 0
      BY <3>4
    <3>6. Sum(f, K) \in Int /\ Sum(f, K) >= 0
      BY <3>3, <3>5, SumType, Zenon
    <3> QED
      BY <3>1, <3>2, <3>6
  <2> QED
    BY <1>1, <2>1, Zenon DEF IInv, Types, SumInv, Numbered
<1> QED
  BY <1>1, Invariance, SumsAreKept, PTL
=============================================================================
