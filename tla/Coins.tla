------------------------------- MODULE Coins -------------------------------
(***************************************************************************)
(* The stack of coin views of src/src/coins.cpp: the LevelDB coins         *)
(* database (CCoinsViewDB, src/src/txdb.cpp), the node's cache over it     *)
(* (pcoinsTip) and the scratch cache over that one which a block is        *)
(* connected or disconnected in (`CCoinsViewCache view(pcoinsTip)').       *)
(*                                                                         *)
(* A cache entry carries two flags that decide what a flush may leave out: *)
(* DIRTY (the entry may differ from the parent's version) and FRESH (the   *)
(* parent has no unspent version).  Everything that makes the stack subtle *)
(* is in when they are set, cleared and trusted.                           *)
(*                                                                         *)
(* All of it runs under cs_main, one operation at a time.  The operations  *)
(* are steps of their own because a block is many of them and a crash, an  *)
(* exception or an error return may come after any.                        *)
(***************************************************************************)
EXTENDS Naturals

CONSTANTS Outpoints,      \* transaction outputs that may exist
          SpendableCoins, \* contents of a coin: output, height, coinbase flag
          UnspendableCoins, \* the same, with a provably unspendable script
          Spent,          \* the null coin (Coin::IsSpent)
          Blocks,         \* block hashes
          NoBlock         \* the null hash

ASSUME SpentIsNoCoin == Spent \notin SpendableCoins \cup UnspendableCoins
ASSUME CoinKindsDiffer == SpendableCoins \cap UnspendableCoins = {}
ASSUME NoBlockIsNoBlock == NoBlock \notin Blocks

VARIABLES db,        \* [Outpoints -> coin]: DB_COIN records, Spent where none
          dbBest,    \* DB_BEST_BLOCK
          tip,       \* pcoinsTip->cacheCoins
          tipBest,   \* pcoinsTip->hashBlock
          open,      \* a block's scratch view exists
          view,      \* its cacheCoins
          viewBest,  \* its hashBlock
          overwritten \* history: outpoints AddCoin has created over an unspent coin

coinsVars == <<db, dbBest, tip, tipBest, open, view, viewBest, overwritten>>

Coins == SpendableCoins \cup {Spent}

\* One slot of cacheCoins; have is FALSE where the map has no entry.
Entry == [have : BOOLEAN, coin : Coins, dirty : BOOLEAN, fresh : BOOLEAN]

NoEntry == [have |-> FALSE, coin |-> Spent, dirty |-> FALSE, fresh |-> FALSE]

EmptyCache == [o \in Outpoints |-> NoEntry]
-----------------------------------------------------------------------------
(* What one operation does to one slot.                                    *)

\* FetchCoin: pull the parent's version in when the slot is empty.  A parent
\* cache may answer with a spent coin; the database never holds one.
Fetched(e, baseHas, baseCoin) ==
    IF e.have \/ ~baseHas
    THEN e
    ELSE [have |-> TRUE, coin |-> baseCoin, dirty |-> FALSE,
          fresh |-> baseCoin = Spent]

\* CScript::IsUnspendable: AddCoin ignores such an output.
IsUnspendable(c) == c \in UnspendableCoins

\* AddCoin with possible_overwrite = false, which every caller passes.
Added(e, c) ==
    [have |-> TRUE, coin |-> c, dirty |-> TRUE, fresh |-> e.fresh \/ ~e.dirty]

\* SpendCoin, after its FetchCoin.
SpentEntry(e) ==
    IF ~e.have \/ e.fresh
    THEN NoEntry
    ELSE [e EXCEPT !.coin = Spent, !.dirty = TRUE]

\* CCoinsViewCache::BatchWrite: the parent's slot after a child's is written.
BatchWrittenCopyingFresh(child, parent) ==
    IF child.dirty
    THEN [have |-> TRUE, coin |-> child.coin, dirty |-> TRUE,
          fresh |-> parent.fresh \/ child.fresh]
    ELSE parent
BatchWritten(child, parent) ==
    CASE ~child.dirty -> parent
      [] child.dirty /\ ~parent.have /\ child.fresh /\ child.coin = Spent -> parent
      [] child.dirty /\ ~parent.have /\ ~(child.fresh /\ child.coin = Spent) ->
            [have |-> TRUE, coin |-> child.coin, dirty |-> TRUE, fresh |-> child.fresh]
      [] child.dirty /\ parent.have /\ parent.fresh /\ child.coin = Spent -> NoEntry
      [] child.dirty /\ parent.have /\ ~(parent.fresh /\ child.coin = Spent) ->
            [parent EXCEPT !.coin = child.coin, !.dirty = TRUE]

\* CCoinsViewDB::BatchWrite: the record after a cache slot is written.
DbWritten(child, old) == IF child.dirty THEN child.coin ELSE old

\* Uncache drops a slot that carries no flag.
UncachedAnyway(e) == NoEntry
Uncached(e) == IF ~e.dirty /\ ~e.fresh THEN NoEntry ELSE e
-----------------------------------------------------------------------------
(* What a view answers: AccessCoin and GetBestBlock.                       *)

TipFetched(o) == Fetched(tip[o], db[o] # Spent, db[o])

ViewFetched(o) == Fetched(view[o], TipFetched(o).have, TipFetched(o).coin)

TipCoin(o) == IF tip[o].have THEN tip[o].coin ELSE db[o]

ViewCoin(o) == IF view[o].have THEN view[o].coin ELSE TipCoin(o)

TipBestBlock == IF tipBest = NoBlock THEN dbBest ELSE tipBest

ViewBestBlock == IF viewBest = NoBlock THEN TipBestBlock ELSE viewBest

\* A look-up in the scratch view goes on to pcoinsTip when the slot is empty,
\* and leaves a copy there as well.
PulledThroughTip(o) ==
    tip' = IF view[o].have THEN tip ELSE [tip EXCEPT ![o] = TipFetched(o)]
-----------------------------------------------------------------------------
CoinsInit ==
    /\ db = [o \in Outpoints |-> Spent]
    /\ dbBest = NoBlock
    /\ tip = EmptyCache
    /\ tipBest = NoBlock
    /\ open = FALSE
    /\ view = EmptyCache
    /\ viewBest = NoBlock
    /\ overwritten = {}

\* CCoinsViewCache view(pcoinsTip)
OpenView ==
    /\ ~open
    /\ open' = TRUE
    /\ view' = EmptyCache
    /\ viewBest' = NoBlock
    /\ UNCHANGED <<db, dbBest, tip, tipBest, overwritten>>

\* view.GetBestBlock(): both caches remember what they looked up.
GetBestBlock ==
    /\ open
    /\ viewBest' = ViewBestBlock
    /\ tipBest' = IF viewBest = NoBlock THEN TipBestBlock ELSE tipBest
    /\ UNCHANGED <<db, dbBest, tip, open, view, overwritten>>

\* AccessCoin, GetCoin, HaveCoin, and so HaveInputs, GetValueIn, GetPriority,
\* GetCoinDepthAtHeight and AccessByTxid, on the scratch view.
ViewFetch(o) ==
    /\ open
    /\ view' = [view EXCEPT ![o] = ViewFetched(o)]
    /\ PulledThroughTip(o)
    /\ UNCHANGED <<db, dbBest, tipBest, open, viewBest, overwritten>>

\* UpdateCoins spending an input, or DisconnectBlock taking an output back.
SpendCoin(o) ==
    /\ open
    /\ view' = [view EXCEPT ![o] = SpentEntry(ViewFetched(o))]
    /\ PulledThroughTip(o)
    /\ UNCHANGED <<db, dbBest, tipBest, open, viewBest, overwritten>>

\* The exception AddCoin throws unwinds past the scratch view.
Thrown ==
    /\ open' = FALSE
    /\ view' = EmptyCache
    /\ viewBest' = NoBlock

\* AddCoins creating an output of a transaction of the block.  No look-up
\* comes first: whether the parent has the coin is not asked, and nothing in
\* ConnectBlock refuses a transaction that repeats the id of one with unspent
\* outputs.
AddCoin(o, c) ==
    /\ open
    /\ CASE IsUnspendable(c) -> UNCHANGED <<open, view, viewBest, overwritten>>
         [] ~IsUnspendable(c) /\ view[o].coin # Spent ->
               /\ Thrown
               /\ UNCHANGED overwritten
         [] ~IsUnspendable(c) /\ view[o].coin = Spent ->
               /\ view' = [view EXCEPT ![o] = Added(view[o], c)]
               /\ overwritten' = IF ViewCoin(o) = Spent THEN overwritten
                                                       ELSE overwritten \cup {o}
               /\ UNCHANGED <<open, viewBest>>
    /\ UNCHANGED <<db, dbBest, tip, tipBest>>

\* ApplyTxInUndo giving a spent input back: HaveCoin looks it up first, and
\* a coin that is still there makes AddCoin throw.
ApplyTxInUndo(o, c) ==
    /\ open
    /\ PulledThroughTip(o)
    /\ \/ /\ ViewFetched(o).coin # Spent
          /\ Thrown
       \/ /\ ViewFetched(o).coin = Spent
          /\ view' = [view EXCEPT ![o] = Added(ViewFetched(o), c)]
          /\ UNCHANGED <<open, viewBest>>
    /\ UNCHANGED <<db, dbBest, tipBest, overwritten>>

SetBestBlock(b) ==
    /\ open
    /\ viewBest' = b
    /\ UNCHANGED <<db, dbBest, tip, tipBest, open, view, overwritten>>

\* view.Flush() of ConnectTip and DisconnectTip; ConnectBlock and
\* DisconnectBlock have set the view's best block by then.
FlushView ==
    /\ open
    /\ viewBest # NoBlock
    /\ tip' = [o \in Outpoints |-> BatchWritten(view[o], tip[o])]
    /\ tipBest' = viewBest
    /\ open' = FALSE
    /\ view' = EmptyCache
    /\ viewBest' = NoBlock
    /\ UNCHANGED <<db, dbBest, overwritten>>

\* The view goes out of scope unflushed: a failed or a just-checked block.
DropView ==
    /\ open
    /\ Thrown
    /\ UNCHANGED <<db, dbBest, tip, tipBest, overwritten>>

\* A mempool look-up in pcoinsTip.
TipFetch(o) ==
    /\ ~open
    /\ tip' = [tip EXCEPT ![o] = TipFetched(o)]
    /\ UNCHANGED <<db, dbBest, tipBest, open, view, viewBest, overwritten>>

\* pcoinsTip->Uncache after a rejected transaction.
Uncache(o) ==
    /\ ~open
    /\ tip' = [tip EXCEPT ![o] = Uncached(tip[o])]
    /\ UNCHANGED <<db, dbBest, tipBest, open, view, viewBest, overwritten>>

\* pcoinsTip->Flush() in FlushStateToDisk: one LevelDB batch.
FlushTip ==
    /\ ~open
    /\ db' = [o \in Outpoints |-> DbWritten(tip[o], db[o])]
    /\ dbBest' = IF tipBest = NoBlock THEN dbBest ELSE tipBest
    /\ tip' = EmptyCache
    /\ UNCHANGED <<tipBest, open, view, viewBest, overwritten>>

\* The process dies and starts again on the database it left.
Crash ==
    /\ tip' = EmptyCache
    /\ tipBest' = NoBlock
    /\ Thrown
    /\ UNCHANGED <<db, dbBest, overwritten>>

CoinsNext ==
    \/ OpenView
    \/ GetBestBlock
    \/ \E o \in Outpoints : ViewFetch(o)
    \/ \E o \in Outpoints : SpendCoin(o)
    \/ \E o \in Outpoints, c \in SpendableCoins \cup UnspendableCoins : AddCoin(o, c)
    \/ \E o \in Outpoints, c \in SpendableCoins : ApplyTxInUndo(o, c)
    \/ \E b \in Blocks : SetBestBlock(b)
    \/ FlushView
    \/ DropView
    \/ \E o \in Outpoints : TipFetch(o)
    \/ \E o \in Outpoints : Uncache(o)
    \/ FlushTip
    \/ Crash

CoinsSpec == CoinsInit /\ [][CoinsNext]_coinsVars
-----------------------------------------------------------------------------
\* The caches and the database hold coins; an unspendable output never
\* becomes one (AddCoin returns early).
CoinsTypeOK ==
    /\ db \in [Outpoints -> Coins]
    /\ dbBest \in Blocks \cup {NoBlock}
    /\ tip \in [Outpoints -> Entry]
    /\ tipBest \in Blocks \cup {NoBlock}
    /\ open \in BOOLEAN
    /\ view \in [Outpoints -> Entry]
    /\ viewBest \in Blocks \cup {NoBlock}
    /\ overwritten \subseteq Outpoints

\* Overwriting an unspent coin is the only thing that misapplies FRESH (the
\* check commented out in BatchWrite), and it does so for that outpoint alone:
\* for every other one an entry of pcoinsTip marked FRESH has no record in the
\* database, and one of the scratch view marked FRESH has no unspent coin
\* under it.  A flush may forget such an entry once it is spent.
FreshIsSound ==
    \A o \in Outpoints \ overwritten :
        /\ tip[o].fresh => db[o] = Spent
        /\ view[o].fresh => TipCoin(o) = Spent

\* An entry without DIRTY is a faithful copy of its parent's version, so a
\* flush may skip it and Uncache may drop it.
CleanIsCopy ==
    \A o \in Outpoints :
        /\ tip[o].have /\ ~tip[o].dirty => tip[o].coin = db[o]
        /\ view[o].have /\ ~view[o].dirty => view[o].coin = TipCoin(o)

\* The plain maps of CoinSet, as seen through the caches.  They stand for the
\* outpoints that were never created over an unspent coin.
Set == INSTANCE CoinSet WITH
          durable <- [o \in Outpoints \ overwritten |-> db[o]],
          durableBest <- dbBest,
          current <- [o \in Outpoints \ overwritten |-> TipCoin(o)],
          currentBest <- TipBestBlock,
          pending <- [o \in Outpoints \ overwritten |-> ViewCoin(o)],
          pendingBest <- ViewBestBlock

\* The three views behave as plain maps with atomic commit, abort, write-out
\* and crash (module CoinSet), whatever is fetched, cached, uncached, flushed
\* or lost; creating an output over an unspent coin costs the promise for that
\* outpoint and for no other.
ImplementsCoinSet == Set!Spec
=============================================================================
