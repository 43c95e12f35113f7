---------------------------- MODULE TokenTally ----------------------------
(***************************************************************************)
(* The tallies of the token layer (tokencore/tally.cpp): for every address *)
(* and property an available BALANCE and the amounts reserved by the       *)
(* exchanges.  Each kind of amount is a function on Slot.                  *)
(*                                                                         *)
(* Every update in the code stands in an assert, which fails on an amount  *)
(* of zero and on a result below zero.  Here an update just adds: that no  *)
(* amount of a reachable state is negative is what the asserts say.        *)
(***************************************************************************)
EXTENDS Integers, FiniteSetsExt

CONSTANTS Address, Property

ASSUME AddressesFinite == IsFiniteSet(Address)

Slot == Address \X Property

\* update_tally_map.
Credit(t, a, p, n) == [t EXCEPT ![<<a, p>>] = @ + n]
Debit(t, a, p, n) == [t EXCEPT ![<<a, p>>] = @ - n]

\* ceil(n / d)
DivideAndRoundUp(n, d) == IF n = 0 THEN 0 ELSE 1 + (n - 1) \div d

SumOver(S, f(_)) == MapThenSumSet(f, S)

\* A std::map with k set to v, and without the keys in K.
Put(f, k, v) == [x \in DOMAIN f \cup {k} |-> IF x = k THEN v ELSE f[x]]
Without(f, K) == [x \in DOMAIN f \ K |-> f[x]]
=============================================================================
