----------------------------- MODULE TokenState -----------------------------
(***************************************************************************)
(* How the token layer follows the active chain: the hooks that main.cpp   *)
(* calls when blocks are connected and disconnected, the state files and   *)
(* databases of tokencore, the rewind after a reorganization and the       *)
(* start of a node (tokencore.cpp, persistence.cpp, dbspinfo.cpp,          *)
(* dbtxlist.cpp, dbfees.cpp).                                              *)
(*                                                                         *)
(* What transactions do is abstracted to which of them have been applied:  *)
(* each block has a transaction of its own, which may also create or       *)
(* update a property, freeze an address or pay a fee.  The balances are    *)
(* kept in memory and in one set of files per block; the records of the    *)
(* property, of transactions and of fees are in databases that are         *)
(* written at once.  A crash loses the memory, and the chain starts again  *)
(* at the tip that was last flushed.                                       *)
(***************************************************************************)
EXTENDS Integers, FiniteSetsExt

CONSTANTS
    Blocks, Genesis,
    Parent,         \* the block before each block
    Bad,            \* blocks that fail in ConnectBlock
    Creates,        \* blocks that create the property
    Grants,         \* blocks that update it
    Freezes,        \* blocks that freeze an address
    Fees,           \* blocks with a trade that pays a fee
    MaxHistory,     \* MAX_STATE_HISTORY
    StoreEvery,     \* STORE_EVERY_N_BLOCK
    MaxInvalidate, MaxCrashes   \* bounds

VARIABLES
    tip,            \* chainActive.Tip()
    flushed,        \* the tip in the coins database
    failed,         \* blocks found or made invalid
    step,           \* the step of ActivateBestChain under way
    S,              \* the state of the token layer: memory, files and databases
    recovery,       \* reorgRecoveryMode
    maxHeight,      \* reorgRecoveryMaxHeight
    torn,           \* why files or a database may not fit their block: a "crash"
                    \* between the writes of a database and of its watermark, a
                    \* record "spread" to a later block, connected in the same
                    \* step, or the state of an abandoned branch saved at the "fork"
    used

chainVars == <<tip, flushed, failed, step>>
vars == <<chainVars, S, recovery, maxHeight, torn, used>>

\* A block, its parent, and so on to the genesis block.
Anc[b \in Blocks] == IF b = Genesis THEN {b} ELSE {b} \cup Anc[Parent[b]]
Height(b) == Cardinality(Anc[b]) - 1
AncestorAt(b, h) == CHOOSE a \in Anc[b] : Height(a) = h

\* A map with k set to v, and without the keys in K.
Put(f, k, v) == [x \in DOMAIN f \cup {k} |-> IF x = k THEN v ELSE f[x]]
Without(f, K) == [x \in DOMAIN f \ K |-> f[x]]

Tokens == Blocks \ {Genesis}

\* The transaction of no block has been applied.
NoTally == [b \in Tokens |-> 0]
Broken == [b \in Tokens |-> -1]
NoSP == [created |-> Genesis, at |-> Genesis, has |-> {}]
None == << >>

Cleared(T) ==
    [T EXCEPT !.tally = NoTally, !.frozen = {}, !.sp = NoSP, !.undo = None, !.mark = Genesis,
              !.txlist = None, !.fees = None, !.water = 0]

Init ==
    /\ tip = Genesis /\ flushed = Genesis /\ failed = {} /\ step = None
    /\ S = [tally |-> NoTally, frozen |-> {}, sp |-> NoSP, undo |-> None, mark |-> Genesis,
            txlist |-> None, fees |-> None, files |-> None, water |-> 1]
    /\ recovery = FALSE /\ maxHeight = 0
    /\ torn = {}
    /\ used = [invalidate |-> 0, crash |-> 0]
-----------------------------------------------------------------------------
(* The databases.                                                          *)

\* putSP and updateSP: the version before an update is kept under the block
\* that the update is attributed to.
SPUpdated(T, x, at) ==
    IF T.sp = NoSP THEN [T EXCEPT !.sp = [created |-> at, at |-> at, has |-> {x}]]
    ELSE [T EXCEPT !.undo = Put(@, at, T.sp), !.sp = [@ EXCEPT !.at = at, !.has = @ \cup {x}]]

PopKeeping(P, b) == P

\* popBlock: the versions of block b are taken back.
Pop(P, b) ==
    IF P.sp = NoSP \/ P.sp.at # b THEN P
    ELSE IF P.sp.at = P.sp.created THEN [P EXCEPT !.sp = NoSP]
    ELSE IF b \in DOMAIN P.undo
    THEN [sp |-> P.undo[b], undo |-> Without(P.undo, {b}), ok |-> P.ok]
    ELSE [P EXCEPT !.ok = FALSE]

\* AddFee, to the amount of the last block in the cache.
LastFee(fees) == IF fees = None THEN 0 ELSE fees[Max(DOMAIN fees)]
FeeAdded(T, h) == [T EXCEPT !.fees = Put(@, h, LastFee(@) + 1)]

RolledBackExcept(fees, h) == Without(fees, {k \in DOMAIN fees : k > h})

\* RollBackCache; the block is inclusive.
RolledBack(fees, h) == Without(fees, {k \in DOMAIN fees : k >= h})
-----------------------------------------------------------------------------
(* The hooks.                                                              *)

\* mastercore_handler_tx for the transactions of block x, as those of the block
\* `at' of height h: a transfer, and perhaps one that creates or updates the
\* property, which pays the transfer, one that freezes and one with a fee.  A
\* property is created once and then updated; an address that is frozen is not frozen
\* again, and the transaction is recorded as invalid.
HandlerTx(T, x, h, at) ==
    LET issuing == x \in Creates \cup Grants
        accepted == issuing => (x \in Creates <=> T.sp = NoSP)
        issued == IF accepted /\ issuing THEN SPUpdated(T, x, at) ELSE T
        charged == IF x \in Fees THEN FeeAdded(issued, h) ELSE issued
        valid == IF x \in Freezes THEN x \notin T.frozen ELSE accepted
    IN  IF h < T.water THEN T
        ELSE [charged EXCEPT
                !.tally = IF accepted THEN [@ EXCEPT ![x] = @ + 1] ELSE @,
                !.frozen = IF x \in Freezes THEN @ \cup {x} ELSE @,
                !.txlist = Put(@, x, [height |-> h, valid |-> valid])]

\* The files of blocks that are too old are removed.
Kept(b, top) == Height(top) - Height(b) <= MaxHistory \/ Height(b) % StoreEvery = 0

\* PersistInMemoryState with prune_state_files and the watermark.
Persisted(T, b) ==
    LET files == Put(T.files, b, T.tally)
    IN  IF b = Genesis THEN T
        ELSE [T EXCEPT !.files = Without(files, {c \in DOMAIN files : ~Kept(c, b)}), !.mark = b]

\* msc_initial_scan: every block after `from' on the way to t.
Scanned(T, from, t) ==
    LET scan[h \in from .. Max({from, Height(t)})] ==
            IF h = from THEN T
            ELSE LET b == AncestorAt(t, h)
                     done == HandlerTx(scan[h - 1], b, h, b)
                 IN  IF Kept(b, t) THEN Persisted(done, b) ELSE done
    IN  scan[Max({from, Height(t)})]

\* The blocks of a branch, the highest first, taken back one by one.
Popped(P, B) ==
    LET hs == {Height(b) : b \in B}
        low == IF B = {} THEN 0 ELSE Min(hs)
        high == IF B = {} THEN 0 ELSE Max(hs)
        pop[n \in 0 .. (high - low + 1)] ==
            IF n = 0 THEN P
            ELSE Pop(pop[n - 1], CHOOSE b \in B : Height(b) = high - n + 1)
    IN  IF B = {} THEN P ELSE pop[high - low + 1]

\* LoadMostRelevantInMemoryState: the property database is taken back to the
\* last block with a complete set of files on the chain that ends in t.
Loadable(T, t) == {b \in Anc[t] \cap Anc[T.mark] \cap DOMAIN T.files : T.files[b] # Broken}
Settled(T, t) == CHOOSE b \in Loadable(T, t) : \A c \in Loadable(T, t) : Height(c) <= Height(b)
SPBack(T, t) ==
    LET c == Settled(T, t)
        off == Popped([sp |-> T.sp, undo |-> T.undo, ok |-> TRUE], Anc[T.mark] \ Anc[t])
    IN  Popped(off, (Anc[T.mark] \cap Anc[t]) \ Anc[c])

\* It gives up when no files fit, when the database cannot be taken back, or
\* when no property is left on the way down the active chain.
LoadFails(T, t) ==
    \/ T.mark = Genesis
    \/ Loadable(T, t) = {}
    \/ ~SPBack(T, t).ok
    \/ SPBack(T, t).sp = NoSP /\ (Anc[T.mark] \cap Anc[t]) \ Anc[Settled(T, t)] # {}

Loaded(T, t) ==
    LET c == Settled(T, t)
    IN  [T EXCEPT !.sp = SPBack(T, t).sp, !.undo = SPBack(T, t).undo, !.mark = c,
                  !.tally = T.files[c], !.water = Height(c)]

LoadedOrCleared(T, t) == IF LoadFails(T, t) THEN Cleared(T) ELSE Loaded(T, t)

CheckForFreezeTxsNot(T, h) == FALSE

\* CheckForFreezeTxs and the rest of RewindDBsAndState, for blocks from height
\* h on; t is the tip, below the block that is being connected.
CheckForFreezeTxs(T, h) == \E x \in DOMAIN T.txlist \cap Freezes : T.txlist[x].height >= h

Rewound(T, h, t, initial) ==
    LET gone == {x \in DOMAIN T.txlist : h <= T.txlist[x].height /\ T.txlist[x].height <= maxHeight}
        trimmed == [T EXCEPT !.txlist = Without(@, gone), !.fees = RolledBack(@, h)]
    IN  IF CheckForFreezeTxs(T, h) /\ ~initial THEN Cleared(trimmed)
        ELSE LoadedOrCleared(trimmed, t)

CaughtUpNot(T, t) == T

CaughtUp(T, t) == Scanned(T, T.water, t)

\* mastercore_handler_block_begin.
BlockBegin(b) ==
    /\ S' = IF recovery THEN CaughtUp(Rewound(S, Height(b), tip, FALSE), tip) ELSE S
    /\ recovery' = FALSE
    /\ maxHeight' = IF recovery THEN 0 ELSE maxHeight
-----------------------------------------------------------------------------
(* The chain.                                                              *)

\* ActivateBestChain works towards a block with more work.
BeginStep(t) ==
    /\ step = None
    /\ t \in Blocks /\ Height(t) > Height(tip)
    /\ Anc[t] \cap failed = {}
    /\ step' = [target |-> t, old |-> tip, conn |-> {}, at |-> "connect"]
    /\ UNCHANGED <<tip, flushed, failed, S, recovery, maxHeight, torn, used>>

\* DisconnectTip, with mastercore_handler_disc_begin.
Disconnecting ==
    /\ tip # Genesis
    /\ tip' = Parent[tip]
    /\ flushed' = Parent[tip]
    /\ recovery' = TRUE
    /\ maxHeight' = Max({maxHeight, Height(tip)})
    /\ UNCHANGED <<S, torn>>

\* On the way to the fork with the target, or out of an invalidated block.
DisconnectTip ==
    /\ step # None /\ step.at \in {"connect", "invalidate"}
    /\ tip \notin Anc[step.target]
    /\ Disconnecting
    /\ step' = IF step.at = "invalidate" /\ tip' = step.target THEN None ELSE step
    /\ UNCHANGED <<failed, used>>

NextBlock == AncestorAt(step.target, Height(tip) + 1)

Connecting ==
    /\ step # None /\ step.at = "connect"
    /\ tip \in Anc[step.target] /\ tip # step.target

\* ConnectTip: the chain state with the block may be flushed ...
ConnectTip ==
    /\ Connecting
    /\ NextBlock \notin Bad
    /\ flushed' \in {flushed, NextBlock}
    /\ step' = [step EXCEPT !.at = "begin"]
    /\ UNCHANGED <<tip, failed, S, recovery, maxHeight, torn, used>>

\* ... before the token layer hears of the block.
UpdateTip ==
    /\ step # None /\ step.at = "begin"
    /\ BlockBegin(NextBlock)
    /\ tip' = NextBlock
    /\ step' = [step EXCEPT !.conn = @ \cup {NextBlock},
                            !.at = IF NextBlock = step.target \/ Height(NextBlock) > Height(step.old)
                                   THEN "handle" ELSE "connect"]
    /\ UNCHANGED <<flushed, failed, torn, used>>

\* The step ends where the block before the invalid one is the tip.
InvalidBlockFound ==
    /\ Connecting
    /\ NextBlock \in Bad
    /\ failed' = failed \cup {NextBlock}
    /\ step' = [step EXCEPT !.at = "handle"]
    /\ UNCHANGED <<tip, flushed, S, recovery, maxHeight, torn, used>>

\* The transactions of all the blocks that the step has connected are handled
\* as transactions of the new tip ...
Handled(T, B, t) ==
    LET low == IF B = {} THEN 1 ELSE Min({Height(b) : b \in B})
        handle[h \in (low - 1) .. Height(t)] ==
            IF h < low THEN T ELSE HandlerTx(handle[h - 1], AncestorAt(t, h), Height(t), t)
    IN  IF B = {} THEN T ELSE handle[Height(t)]

\* Blocks with transactions that a database attributes to a block.
Recorded == Creates \cup Grants \cup Fees

HandleTransactions ==
    /\ step # None /\ step.at = "handle"
    /\ S' = Handled(S, step.conn, tip)
    /\ step' = [step EXCEPT !.at = "persist"]
    /\ torn' = torn \cup (IF (step.conn \ {tip}) \cap Recorded # {} THEN {"spread"} ELSE {})
    /\ UNCHANGED <<tip, flushed, failed, recovery, maxHeight, used>>

\* ... and the state is saved as that of the new tip
\* (mastercore_handler_block_end).  When blocks have been disconnected and none
\* has been connected since, it is still the state of the branch they were on.
PersistState ==
    /\ step # None /\ step.at = "persist"
    /\ S' = Persisted(S, tip)
    /\ step' = None
    /\ torn' = torn \cup (IF recovery THEN {"fork"} ELSE {})
    /\ UNCHANGED <<tip, flushed, failed, recovery, maxHeight, used>>

\* The RPC invalidateblock, for a block of the active chain: it and the blocks
\* after it are disconnected, one by one.
InvalidateBlock(b) ==
    /\ step = None
    /\ b \in Anc[tip] \ {Genesis}
    /\ used.invalidate < MaxInvalidate
    /\ used' = [used EXCEPT !.invalidate = @ + 1]
    /\ failed' = failed \cup {b}
    /\ step' = [target |-> Parent[b], old |-> tip, conn |-> {}, at |-> "invalidate"]
    /\ UNCHANGED <<tip, flushed, S, recovery, maxHeight, torn>>

FlushStateToDisk ==
    /\ step = None /\ flushed # tip
    /\ flushed' = tip
    /\ UNCHANGED <<tip, failed, step, S, recovery, maxHeight, torn, used>>
-----------------------------------------------------------------------------
(* A crash, and mastercore_init.                                           *)

\* The transactions that freeze are taken from the database, up to the block
\* that is scanned first.
LoadFreezeState(T) ==
    [T EXCEPT !.frozen = {x \in DOMAIN T.txlist \cap Freezes :
                             T.txlist[x].valid /\ Height(x) <= T.water}]

Started(T, t) ==
    LET first == LoadedOrCleared([T EXCEPT !.tally = NoTally, !.frozen = {}], t)
        back == IF first.water > 0 /\ first.water < Height(t)
                THEN LoadedOrCleared([first EXCEPT !.fees = RolledBack(@, first.water + 1)], t)
                ELSE first
        loaded == LoadFreezeState([back EXCEPT !.water = @ + 1])
        done == Scanned(loaded, back.water, t)
    IN  done

\* The process dies, perhaps while it writes the files of the tip.
Crash ==
    /\ used.crash < MaxCrashes
    /\ used' = [used EXCEPT !.crash = @ + 1]
    /\ \E files \in {S.files} \cup
             (IF step # None /\ step.at = "persist" THEN {Put(S.files, tip, Broken)} ELSE {}) :
          S' = Started([S EXCEPT !.files = files], flushed)
    /\ torn' = torn \cup (IF step # None /\ step.at = "persist"
                             /\ step.conn \cap (Creates \cup Grants) # {}
                          THEN {"crash"} ELSE {})
    /\ tip' = flushed
    /\ step' = None
    /\ recovery' = FALSE /\ maxHeight' = 0
    /\ UNCHANGED <<flushed, failed>>

Next ==
    \/ \E t \in Blocks : BeginStep(t)
    \/ DisconnectTip \/ ConnectTip \/ UpdateTip \/ InvalidBlockFound
    \/ HandleTransactions \/ PersistState
    \/ \E b \in Blocks : InvalidateBlock(b)
    \/ FlushStateToDisk \/ Crash

Spec == Init /\ [][Next]_vars
-----------------------------------------------------------------------------
Active == Anc[tip] \ {Genesis}
TallyOf(b) == [x \in Tokens |-> IF x \in Anc[b] THEN 1 ELSE 0]

\* The token layer has done what the chain did.
AtRest == step = None /\ ~recovery

\* Type invariant.
TypeOK ==
    /\ S.tally \in [Tokens -> Nat]
    /\ S.frozen \subseteq Freezes
    /\ S.mark \in Blocks /\ S.sp.has \subseteq Creates \cup Grants
    /\ DOMAIN S.txlist \subseteq Tokens /\ DOMAIN S.files \subseteq Tokens
    /\ tip \in Blocks /\ flushed \in Blocks
    /\ \/ flushed \in Anc[tip]
       \/ Parent[flushed] = tip /\ step # None /\ step.at = "begin"

\* "write the new state as of the given block": the files of a block hold the
\* effects of the transactions up to that block, once each, and of no others.
FilesAreOfTheirBlock ==
    torn \subseteq {"fork"} => \A b \in DOMAIN S.files : S.files[b] \in {TallyOf(b), Broken}

\* After reorganizations, within or deeper than the files reach, after
\* invalidations and after a crash, the balances are those of the active chain:
\* every transaction of it is applied exactly once.  Three things are excepted:
\* a step that ended at the fork, where the files of the fork are those of the
\* abandoned branch (FilesAreOfTheirBlock) and a later rewind loads them; a step
\* of several blocks with a record that went to the last of them; and a crash
\* between the records of a block and its watermark.
TallyFollowsChain == TypeOK /\ (AtRest /\ torn = {} => S.tally = TallyOf(tip))

\* "roll it back to its latest valid state according to the active chain": the
\* record of the property has the updates of the active chain and no others,
\* with the same three exceptions (a step that ended at the fork sets the
\* watermark there, and the updates of the abandoned branch are not popped).
SPsFollowChain == AtRest /\ torn = {} => S.sp.has = (Creates \cup Grants) \cap Active

\* The fee cache holds the fees of the active chain, as long as the node runs
\* and every fee is recorded at the height of its own block.  It is rolled back
\* by height, so a step that ended at the fork does it no harm.
FeesFollowChain ==
    AtRest /\ "spread" \notin torn /\ used.crash = 0 => LastFee(S.fees) = Cardinality(Fees \cap Active)

\* The addresses frozen are those that the active chain freezes, and the
\* records from which the next start restores them are the same, as long as
\* the node runs, also after steps of several blocks or that ended at the fork.
FreezesFollowChain ==
    AtRest /\ used.crash = 0 =>
        /\ S.frozen = Freezes \cap Active
        /\ {x \in DOMAIN S.txlist \cap Freezes : S.txlist[x].valid} = Freezes \cap Active
=============================================================================
