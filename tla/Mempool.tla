------------------------------- MODULE Mempool -------------------------------
(***************************************************************************)
(* The pool of unconfirmed transactions (txmempool.cpp) with the calls of  *)
(* main.cpp that change it: AcceptToMemoryPool, ConnectTip, DisconnectTip, *)
(* the end of ActivateBestChainStep, of InvalidateBlock and of             *)
(* ReprocessBlocks.                                                        *)
(*                                                                         *)
(* An entry has links to its parents and children in the pool and the      *)
(* count, size and fees of itself with all its descendants, which decide   *)
(* what is evicted from a full pool.  They are kept up to date step by     *)
(* step; a reorganization puts transactions back under descendants that    *)
(* are in the pool already, and the links are mended afterwards.           *)
(*                                                                         *)
(* The coins are those of the active chain; the memory usage of an entry   *)
(* is its size.  All the calls hold cs_main.                               *)
(***************************************************************************)
EXTENDS Integers, Sequences, SequencesExt, FiniteSetsExt

CONSTANTS
    Txs,            \* transactions, numbers; parents before children
    Inputs,         \* transaction -> the outputs it spends, <<source, n>>
    Size, Fee,
    LockHeight,     \* nLockTime, as a height
    Coinbases,      \* coinbase transactions, each with output <<c, 1>>
    BaseCoins,      \* coins that no reorganization reaches
    Maturity,       \* nCoinbaseMaturity
    MaxMempool,     \* -maxmempool
    LimitAncestors, LimitDescendants,   \* -limitancestorcount, -limitdescendantcount
    MaxVisit,       \* maxDescendantsToVisit
    MaxHeight, MaxBlockTxs, MaxDisconnect      \* bounds

VARIABLES
    chain,          \* the blocks of the active chain, each the sequence of its transactions
    pool,           \* the pool: txs, the entries by time; parents, children, desc
    busy,           \* why cs_main is held: "no", "step", "invalidate" or "replay"
    cut,            \* the pool overflowed while a block was put back
    loose,          \* entries that a replay left for removeForReorg
    nDisconnect

vars == <<chain, pool, busy, cut, loose, nDisconnect>>

Ids == Txs \cup Coinbases
TxsOf(ch) == UNION {Range(ch[h]) : h \in DOMAIN ch}
Source(o) == o[1]

\* The coins of a chain.
SpentBy(t) == IF t \in Txs THEN Inputs[t] ELSE {}
Known(o, ts) == o \in BaseCoins \/ Source(o) \in ts
Available(o, ch) == Known(o, TxsOf(ch)) /\ \A t \in TxsOf(ch) : o \notin SpentBy(t)

\* CheckInputs at the height of the next block, and IsFinalTx at height h.
Mature(o, ch) ==
    \A k \in DOMAIN ch : Source(o) \in Coinbases /\ Source(o) \in Range(ch[k]) =>
        Len(ch) + 1 - k >= Maturity
IsFinalTx(t, h) == LockHeight[t] < h

NoPool == [txs |-> << >>, parents |-> [t \in Txs |-> {}], children |-> [t \in Txs |-> {}],
           desc |-> [t \in Txs |-> [n |-> 0, size |-> 0, fee |-> 0]]]

Init ==
    /\ chain = << >> /\ pool = NoPool
    /\ busy = "no" /\ cut = FALSE /\ loose = {} /\ nDisconnect = 0
-----------------------------------------------------------------------------
(* The graph of entries, as the links of P have it.                        *)

Entries(P) == Range(P.txs)
Children(P, t) == {c \in Entries(P) : \E o \in Inputs[c] : Source(o) = t}
Parents(P, t) == {p \in Entries(P) : \E o \in Inputs[t] : Source(o) = p}

\* Everything that follows from the set S along the links of f.
Closure(f, S) ==
    LET grow[n \in 0 .. Cardinality(Txs)] ==
            IF n = 0 THEN S ELSE grow[n - 1] \cup UNION {f[t] : t \in grow[n - 1]}
    IN  grow[Cardinality(Txs)]

CalculateDescendants(P, S) == Closure(P.children, S)
AncestorsOf(P, t) == Closure(P.parents, P.parents[t])

NoDescendants(t) == [n |-> 1, size |-> Size[t], fee |-> Fee[t]]
IsDirty(P, t) == P.desc[t].n = 0
Dirty(t) == [n |-> 0, size |-> Size[t], fee |-> Fee[t]]

\* UpdateState, by the set D of descendants, added or removed.
UpdateState(d, sign, D) ==
    IF d.n = 0 THEN d
    ELSE [n |-> d.n + sign * Cardinality(D),
          size |-> d.size + sign * MapThenSumSet(LAMBDA x : Size[x], D),
          fee |-> d.fee + sign * MapThenSumSet(LAMBDA x : Fee[x], D)]
-----------------------------------------------------------------------------
(* Operations of CTxMemPool.                                               *)

addUnchecked(P, t) ==
    LET pars == Parents(P, t)
        anc == Closure(P.parents, pars)
    IN  [txs |-> Append(P.txs, t),
         parents |-> [P.parents EXCEPT ![t] = pars],
         children |-> [x \in Txs |-> IF x = t THEN {} ELSE IF x \in pars THEN P.children[x] \cup {t}
                                     ELSE P.children[x]],
         desc |-> [x \in Txs |-> IF x = t THEN NoDescendants(t)
                                 ELSE IF x \in anc THEN UpdateState(P.desc[x], 1, {t})
                                 ELSE P.desc[x]]]

RemoveStagedByHand(P, R) ==
    [txs |-> SelectSeq(P.txs, LAMBDA t : t \notin R),
     parents |-> [t \in Txs |-> IF t \in R THEN {} ELSE P.parents[t] \ R],
     children |-> [t \in Txs |-> IF t \in R THEN {} ELSE P.children[t] \ R],
     desc |-> [t \in Txs |-> IF t \in R THEN NoPool.desc[t]
                             ELSE UpdateState(P.desc[t], -1, P.children[t] \cap R)]]

\* UpdateForRemoveFromMempool and removeUnchecked: every entry that stays and
\* has a removed one among its descendants is updated for it.
RemoveStaged(P, R) ==
    [txs |-> SelectSeq(P.txs, LAMBDA t : t \notin R),
     parents |-> [t \in Txs |-> IF t \in R THEN {} ELSE P.parents[t] \ R],
     children |-> [t \in Txs |-> IF t \in R THEN {} ELSE P.children[t] \ R],
     desc |-> [t \in Txs |-> IF t \in R THEN NoPool.desc[t]
                             ELSE UpdateState(P.desc[t], -1, {r \in R : t \in AncestorsOf(P, r)})]]

removeAlone(P, t) == RemoveStaged(P, Entries(P) \cap {t})

\* remove, with the descendants: of the children, when the transaction itself
\* is not in the pool.
removeRecursive(P, t) ==
    RemoveStaged(P, CalculateDescendants(P, IF t \in Entries(P) THEN {t} ELSE Children(P, t)))

RECURSIVE RemoveAll(_, _)
RemoveAll(P, S) ==
    IF S = {} THEN P
    ELSE LET t == CHOOSE x \in S : TRUE IN RemoveAll(removeRecursive(P, t), S \ {t})

\* removeConflicts: the entries that spend what t spends go with their
\* descendants.
removeConflicts(P, t) ==
    RemoveAll(P, {c \in Entries(P) \ {t} : SpentBy(c) \cap SpentBy(t) # {}})

removeForBlock(P, block) ==
    LET done[i \in 0 .. Len(block)] ==
            IF i = 0 THEN P ELSE removeConflicts(removeAlone(done[i - 1], block[i]), block[i])
    IN  done[Len(block)]

removeForReorgLax(P, ch) == RemoveAll(P, {t \in Entries(P) : ~IsFinalTx(t, Len(ch) + 1)})

\* removeForReorg: entries that are not final, and spenders of a coinbase
\* output that is gone or no longer mature.
removeForReorg(P, ch) ==
    RemoveAll(P, {t \in Entries(P) :
        \/ ~IsFinalTx(t, Len(ch) + 1)
        \/ /\ \E o \in Inputs[t] : Source(o) \in Coinbases
           /\ \E o \in Inputs[t] :
                 Source(o) \notin Entries(P) /\ ~(Available(o, ch) /\ Mature(o, ch))})

\* CompareTxMemPoolEntryByFee: the better of the fee rates of the entry and of
\* the entry with its descendants; of equals, the newest entry comes first.
Rate(P, t) ==
    IF P.desc[t].fee * Size[t] > Fee[t] * P.desc[t].size
    THEN [fee |-> P.desc[t].fee, size |-> P.desc[t].size]
    ELSE [fee |-> Fee[t], size |-> Size[t]]
Worse(P, i, j) ==
    LET a == Rate(P, P.txs[i])
        b == Rate(P, P.txs[j])
    IN  a.fee * b.size < b.fee * a.size \/ (a.fee * b.size = b.fee * a.size /\ i >= j)

Usage(P) == MapThenSumSet(LAMBDA t : Size[t], Entries(P))

RECURSIVE TrimToSize(_)
TrimToSize(P) ==
    IF Usage(P) <= MaxMempool THEN P
    ELSE LET i == CHOOSE k \in DOMAIN P.txs : \A j \in DOMAIN P.txs : Worse(P, k, j)
         IN  TrimToSize(RemoveStaged(P, CalculateDescendants(P, {P.txs[i]})))

\* Expire, of the n oldest entries.
Expire(P, n) == RemoveStaged(P, CalculateDescendants(P, {P.txs[i] : i \in 1 .. n}))

LimitMempoolSize(P, n) == TrimToSize(Expire(P, n))

\* UpdateForDescendants: the descendants outside X are added, or the entry is
\* marked dirty when one of them is or when there are too many.
UpdateForDescendants(P, t, X) ==
    LET D == CalculateDescendants(P, P.children[t])
    IN  IF \/ \E d \in D : IsDirty(P, d)
           \/ Cardinality((D \ P.children[t]) \ X) > MaxVisit
        THEN [P EXCEPT !.desc[t] = Dirty(t)]
        ELSE [P EXCEPT !.desc[t] = UpdateState(@, 1, D \ X)]

LinkedTo(P, t, C) ==
    [P EXCEPT !.children[t] = @ \cup C,
              !.parents = [c \in Txs |-> IF c \in C THEN @[c] \cup {t} ELSE @[c]]]

\* UpdateTransactionsFromBlock, the last transaction first.
UpdateTransactionsFromBlock(P, vHashes) ==
    LET X == Range(vHashes)
        mended[i \in 0 .. Len(vHashes)] ==
            IF i = 0 THEN P
            ELSE LET t == vHashes[Len(vHashes) + 1 - i]
                     Q == mended[i - 1]
                 IN  IF t \notin Entries(Q) THEN Q
                     ELSE UpdateForDescendants(LinkedTo(Q, t, Children(Q, t) \ X), t, X)
    IN  mended[Len(vHashes)]
-----------------------------------------------------------------------------
(* AcceptToMemoryPool.                                                     *)

\* CalculateMemPoolAncestors with the limits of the command line on counts;
\* those on sizes are alike.
WithinLimits(P, t) ==
    LET anc == Closure(P.parents, Parents(P, t))
    IN  /\ Cardinality(anc) + 1 <= LimitAncestors
        /\ \A a \in anc : P.desc[a].n + 1 <= LimitDescendants

\* The checks, with the coins of ch and finality for a block of height h.  A
\* transaction is known when one of its outputs is a coin.
Acceptable(P, t, ch, h) ==
    /\ IsFinalTx(t, h)
    /\ t \notin Entries(P)
    /\ \A c \in Entries(P) : Inputs[c] \cap Inputs[t] = {}
    /\ t \notin TxsOf(ch)
    /\ \A o \in Inputs[t] : Source(o) \in Entries(P) \/ (Available(o, ch) /\ Mature(o, ch))
    /\ WithinLimits(P, t)

\* A transaction from a peer or the wallet; the n oldest entries have expired.
AcceptToMemoryPool(t, n) ==
    /\ busy = "no"
    /\ Acceptable(pool, t, chain, Len(chain) + 1)
    /\ n \in 0 .. Len(pool.txs)
    /\ pool' = LimitMempoolSize(addUnchecked(pool, t), n)
    /\ loose' = loose \cap Entries(pool')
    /\ UNCHANGED <<chain, busy, cut, nDisconnect>>
-----------------------------------------------------------------------------
(* The chain.                                                              *)

\* A valid block for the chain ch.
ValidBlock(block, ch) ==
    /\ block[1] \in Coinbases \ TxsOf(ch)
    /\ \A i \in 2 .. Len(block) :
          /\ IsFinalTx(block[i], Len(ch) + 1)
          /\ block[i] \notin TxsOf(ch)
          /\ \A o \in Inputs[block[i]] :
                /\ Mature(o, ch)
                /\ \/ Available(o, ch)
                   \/ \E j \in 2 .. i - 1 : block[j] = Source(o)
                /\ \A j \in 2 .. i - 1 : o \notin Inputs[block[j]]

Blocks(ch) ==
    {b \in {<<c>> \o SetToSortSeq(S, <) : c \in Coinbases \ TxsOf(ch),
                                          S \in {T \in SUBSET Txs : Cardinality(T) <= MaxBlockTxs}} :
        ValidBlock(b, ch)}

ConnectTip ==
    /\ busy \in {"no", "step"}
    /\ Len(chain) < MaxHeight
    /\ \E block \in Blocks(chain) :
          /\ chain' = Append(chain, block)
          /\ pool' = removeForBlock(pool, block)
    /\ loose' = loose \cap Entries(pool')
    /\ UNCHANGED <<busy, cut, nDisconnect>>

\* Each transaction of the block is accepted again, or removed with its
\* descendants; the coins are those of the block before, the tip is not yet.
Resurrected(P, block, ch) ==
    LET try(r, t) ==
            IF t \in Txs /\ Acceptable(r.pool, t, ch, Len(ch) + 2)
            THEN LET Q == addUnchecked(r.pool, t)
                     T == TrimToSize(Q)
                 IN  IF t \in Entries(T)
                     THEN [pool |-> T, v |-> Append(r.v, t), cut |-> r.cut \/ T # Q]
                     ELSE [pool |-> removeRecursive(T, t), v |-> r.v, cut |-> TRUE]
            ELSE [r EXCEPT !.pool = removeRecursive(@, t)]
        done[i \in 0 .. Len(block)] ==
            IF i = 0 THEN [pool |-> P, v |-> << >>, cut |-> FALSE] ELSE try(done[i - 1], block[i])
    IN  done[Len(block)]

MendedNot(r) == r.pool

Mended(r) == UpdateTransactionsFromBlock(r.pool, r.v)

DisconnectTip ==
    LET ch == Front(chain)
        r == Resurrected(pool, Last(chain), ch)
    IN  /\ chain # << >>
        /\ nDisconnect < MaxDisconnect
        /\ nDisconnect' = nDisconnect + 1
        /\ busy' \in IF busy = "no" THEN {"step", "invalidate", "replay"} ELSE {busy}
        /\ chain' = ch
        /\ pool' = Mended(r)
        /\ cut' = (cut \/ r.cut)
        /\ loose' = loose \cap Entries(pool')

\* ActivateBestChainStep, when blocks have been disconnected.
EndStep(n) ==
    /\ busy = "step"
    /\ n \in 0 .. Len(removeForReorg(pool, chain).txs)
    /\ pool' = LimitMempoolSize(removeForReorg(pool, chain), n)
    /\ busy' = "no" /\ loose' = {}
    /\ UNCHANGED <<chain, cut, nDisconnect>>

InvalidateBlock(n) ==
    /\ busy = "invalidate"
    /\ n \in 0 .. Len(pool.txs)
    /\ pool' = removeForReorg(LimitMempoolSize(pool, n), chain)
    /\ busy' = "no" /\ loose' = {}
    /\ UNCHANGED <<chain, cut, nDisconnect>>

\* ReprocessBlocks gives cs_main up after DisconnectBlocks and neither calls
\* removeForReorg nor limits the pool; ActivateBestChain, which follows, does
\* not when it only connects.
ReprocessBlocks ==
    /\ busy = "replay"
    /\ busy' = "no"
    /\ loose' = loose \cup (Entries(pool) \ Entries(removeForReorg(pool, chain)))
    /\ UNCHANGED <<chain, pool, cut, nDisconnect>>

\* The RPC clearmempool, and a miner whose block turns out to be invalid.
clear ==
    /\ busy = "no" /\ pool.txs # << >>
    /\ pool' = NoPool /\ loose' = {}
    /\ UNCHANGED <<chain, busy, cut, nDisconnect>>

Next ==
    \/ \E t \in Txs, n \in 0 .. Cardinality(Txs) : AcceptToMemoryPool(t, n)
    \/ ConnectTip
    \/ DisconnectTip
    \/ ReprocessBlocks
    \/ clear
    \/ \E n \in 0 .. Cardinality(Txs) : EndStep(n) \/ InvalidateBlock(n)

Spec == Init /\ [][Next]_vars
-----------------------------------------------------------------------------
AtRest == busy = "no" /\ ~cut

\* Type invariant: the entries are different transactions, and the links and
\* the counts are of entries.
TypeOK ==
    /\ IsInjective(pool.txs) /\ Entries(pool) \subseteq Txs
    /\ \A t \in Txs : pool.parents[t] \cup pool.children[t] \subseteq Entries(pool)
    /\ \A t \in Txs : pool.desc[t].n > 0 => t \in Entries(pool)
    /\ loose \subseteq Entries(pool)
    /\ chain \in Seq(Seq(Ids)) /\ Len(chain) <= MaxHeight

\* "Locking both cs_main and mempool.cs will give a view of mempool that is
\* consistent with current chain tip": all the entries together, parents
\* first, fit into the next block.  No two spend the same output, none is in
\* the chain, what an entry spends is a mature coin of the chain or the output
\* of another, and all are final; only the entries that ReprocessBlocks should
\* have removed may be immature or not final, until the next removeForReorg.
PoolIsMinable ==
    AtRest => \A t \in Entries(pool) :
        /\ t \notin loose => IsFinalTx(t, Len(chain) + 1)
        /\ t \notin TxsOf(chain)
        /\ \A o \in Inputs[t] :
              /\ \/ Source(o) \in Entries(pool)
                 \/ Available(o, chain) /\ (t \in loose \/ Mature(o, chain))
              /\ \A c \in Entries(pool) \ {t} : o \notin Inputs[c]

\* The links are what check() recomputes from the inputs, also after a block
\* was put back under its descendants.
LinksAreExact ==
    /\ TypeOK
    /\ AtRest => \A t \in Entries(pool) :
        pool.parents[t] = Parents(pool, t) /\ pool.children[t] = Children(pool, t)

\* The count, size and fees of an entry that is not dirty are those of the
\* entry and all its descendants: what decides about eviction does not drift.
\* In the middle of a reorganization too, when links are missing, the sums of
\* an entry stay positive (the asserts of UpdateState).
DescendantsAreExact ==
    /\ \A t \in Entries(pool) : pool.desc[t].size >= Size[t] /\ pool.desc[t].n >= 0
    /\ AtRest => \A t \in Entries(pool) :
        LET D == CalculateDescendants(pool, {t})
        IN  ~IsDirty(pool, t) =>
              pool.desc[t] = [n |-> Cardinality(D), size |-> MapThenSumSet(LAMBDA x : Size[x], D),
                              fee |-> MapThenSumSet(LAMBDA x : Fee[x], D)]
=============================================================================
