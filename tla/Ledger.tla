------------------------------- MODULE Ledger -------------------------------
(***************************************************************************)
(* The state that ConnectBlock and DisconnectBlock change besides the      *)
(* coins: the governance database (governance.cpp), which is written at    *)
(* once, and the money supply, which is kept in memory and written with    *)
(* the block index.  Coins, supply and governance are on disk at different *)
(* times, and startup (VerifyDB) disconnects and connects the last blocks  *)
(* again on a view that it throws away, but on the real supply and the     *)
(* real governance database.                                               *)
(*                                                                         *)
(* The governance database has three tables by height (costs by type, fee  *)
(* script, developer script) that are used in the same way: the module has *)
(* one.  Which branch is active is ChainState's matter: here any child of  *)
(* the tip may be connected, and the tip disconnected.                     *)
(***************************************************************************)
EXTENDS Integers, FiniteSets, FiniteSetsExt, Functions

CONSTANTS
    Blocks, Genesis, Parent,
    Update,         \* Update[b]: the cost that block b sets, or NoCost
    Minted,         \* Minted[b]: nValueOut - nValueIn of block b
    Bad,            \* blocks that fail after their transactions were applied
    HeightGovernance, \* height_governance: the first height with updates
    InitialCost,    \* the entry at height 0
    NoCost,
    NoBlock,
    nCheckDepth,    \* -checkblocks
    MaxLosses       \* bound on crashes and interrupted verifications

VARIABLES
    tip,            \* of chainActive and pcoinsTip
    governance,     \* the cost entry of each height, or NoCost
    nMoneySupply,
    fLoaded,        \* startup is over: VerifyDB is called by verifychain
    diskTip,        \* best block of the coins database
    diskSupply,     \* the supply in the block tree database
    diskSupplyAt,   \* the block whose supply that is, or NoBlock
    flush,          \* "no", or what a full flush still has to write:
                    \* "index" and then "coins"
    verify,         \* VerifyDB: "no", "disconnect" or "reconnect"
    pindexState,    \* the block down to which VerifyDB disconnected
    pindex,         \* the block VerifyDB is at
    losses,         \* crashes, errors and interrupted verifications so far
    supplyLost,     \* the supply in memory may be that of another block
    astray          \* heights at which the governance database may hold the
                    \* update of a block that is not connected, or miss one

memory == <<tip, nMoneySupply, fLoaded>>
disk == <<diskTip, diskSupply, diskSupplyAt>>
verifying == <<verify, pindexState, pindex>>
lossy == <<losses, supplyLost>>
vars == <<memory, governance, disk, flush, verifying, lossy, astray>>

Chain[b \in Blocks] == IF b = Genesis THEN {b} ELSE {b} \cup Chain[Parent[b]]

ASSUME LedgerAssumption ==
    /\ Genesis \in Blocks /\ NoBlock \notin Blocks
    /\ IsFiniteSet(Blocks)
    /\ \A b \in Blocks \ {Genesis} : Parent[b] \in Blocks
    /\ \E rank \in [Blocks -> 0..Cardinality(Blocks)] :
          \A b \in Blocks \ {Genesis} : rank[Parent[b]] < rank[b]
    /\ DOMAIN Update = Blocks /\ Minted \in [Blocks -> Int]
    /\ InitialCost # NoCost
    /\ nCheckDepth \in Nat \ {0} /\ MaxLosses \in Nat /\ HeightGovernance \in Nat

Height(b) == Cardinality(Chain[b]) - 1

Heights == {Height(b) : b \in Blocks}

Init ==
    /\ tip = Genesis /\ diskTip = Genesis /\ diskSupplyAt = Genesis
    /\ governance = [h \in Heights |-> IF h = 0 THEN InitialCost ELSE NoCost]
    /\ nMoneySupply = 0 /\ diskSupply = 0
    /\ flush = "no" /\ fLoaded = TRUE
    /\ verify = "no" /\ pindexState = Genesis /\ pindex = Genesis
    /\ losses = 0 /\ supplyLost = FALSE /\ astray = {}
-----------------------------------------------------------------------------
\* The entry with the greatest height.
GetCost ==
    governance[Max({h \in Heights : governance[h] # NoCost})]

\* The height is that of the active chain, also for a block that VerifyDB
\* connects again.
AreGovernanceDeployed == Height(tip) + 1 >= HeightGovernance

\* An entry that is there is kept.
UpdateCost(b) ==
    IF AreGovernanceDeployed /\ Update[b] # NoCost /\ governance[Height(b)] = NoCost
    THEN [governance EXCEPT ![Height(b)] = Update[b]]
    ELSE governance

\* Mutants: an entry of another block stays; the height is off by one.
RevertUpdateCostIfSame(b) ==
    IF Update[b] # NoCost /\ governance[Height(b)] = Update[b]
    THEN [governance EXCEPT ![Height(b)] = NoCost]
    ELSE governance

RevertUpdateCostAtParent(b) ==
    IF Update[b] # NoCost THEN [governance EXCEPT ![Height(b) - 1] = NoCost]
    ELSE governance

\* DisconnectBlock does not ask whether governance is deployed.
RevertUpdateCost(b) ==
    IF Update[b] # NoCost THEN [governance EXCEPT ![Height(b)] = NoCost]
    ELSE governance

\* The heights of the updates in a set of blocks.
UpdateHeights(S) == {Height(b) : b \in {x \in S : Update[x] # NoCost}}

\* The heights at which the updates up to b differ from those up to c.
Apart(b, c) == UpdateHeights((Chain[b] \ Chain[c]) \cup (Chain[c] \ Chain[b]))

\* ConnectBlock and DisconnectBlock of a block that is not refused.  A block
\* below the first height with updates should write none.
ConnectBlock(b) ==
    /\ governance' = UpdateCost(b)
    /\ nMoneySupply' = nMoneySupply + Minted[b]
    /\ astray' = IF governance' # governance /\ Height(b) < HeightGovernance
                 THEN astray \cup {Height(b)} ELSE astray

\* Mutant: the supply is left as it is.
DisconnectBlockKeepingSupply(b) ==
    /\ governance' = RevertUpdateCost(b)
    /\ astray' = {h \in astray : h # Height(b) \/ governance'[h] # NoCost}
    /\ UNCHANGED nMoneySupply

\* A height without an entry is right again.
DisconnectBlock(b) ==
    /\ governance' = RevertUpdateCost(b)
    /\ astray' = {h \in astray : h # Height(b) \/ governance'[h] # NoCost}
    /\ nMoneySupply' = nMoneySupply - Minted[b]

Running == flush = "no" /\ verify = "no"

NextBlocks == {b \in Blocks \ {Genesis} : Parent[b] = tip}

ConnectTip(b) ==
    /\ Running
    /\ b \in NextBlocks \ Bad
    /\ ConnectBlock(b)
    /\ tip' = b
    /\ UNCHANGED <<fLoaded, disk, flush, verifying, lossy>>

\* A block that ConnectBlock refuses when its transactions were applied
\* (reward, developer payment, scripts), or a block template that is only
\* checked (TestBlockValidity): the governance entry is written all the same.
CheckOnly(b) ==
    /\ Running
    /\ b \in NextBlocks
    /\ governance' = UpdateCost(b)
    /\ astray' = IF governance' # governance THEN astray \cup {Height(b)} ELSE astray
    /\ UNCHANGED <<memory, disk, flush, verifying, lossy>>

\* DisconnectTip always goes on to a full flush.
DisconnectTip ==
    /\ Running
    /\ tip # Genesis
    /\ DisconnectBlock(tip)
    /\ tip' = Parent[tip]
    /\ flush' = "index"
    /\ UNCHANGED <<fLoaded, disk, verifying, lossy>>

\* DisconnectBlock is FAILED or UNCLEAN: the tip stays, with the updates of
\* the block reverted and its coins taken from the supply or not.
DisconnectTipFails ==
    /\ Running
    /\ tip # Genesis
    /\ losses < MaxLosses
    /\ losses' = losses + 1
    /\ governance' = RevertUpdateCost(tip)
    /\ astray' = astray \cup UpdateHeights({tip})
    /\ nMoneySupply' \in {nMoneySupply, nMoneySupply - Minted[tip]}
    /\ supplyLost' = (supplyLost \/ nMoneySupply' # nMoneySupply)
    /\ UNCHANGED <<tip, fLoaded, disk, flush, verifying>>
-----------------------------------------------------------------------------
\* The supply in memory, which is that of block b unless it is lost.
WriteMoneySupply(b) ==
    /\ diskSupply' = nMoneySupply
    /\ diskSupplyAt' = IF supplyLost THEN NoBlock ELSE b

\* FlushStateToDisk: the supply goes with the block index, the coins follow
\* in a full flush.  An hourly write stops after the index.
WriteIndex(rest) ==
    /\ verify = "no"
    /\ flush # "coins"
    /\ flush = "index" => rest = "coins"
    /\ WriteMoneySupply(tip)
    /\ flush' = rest
    /\ UNCHANGED <<memory, governance, diskTip, verifying, lossy, astray>>

WriteCoins ==
    /\ flush = "coins"
    /\ diskTip' = tip
    /\ flush' = "no"
    /\ UNCHANGED <<memory, governance, diskSupply, diskSupplyAt, verifying, lossy, astray>>
-----------------------------------------------------------------------------
\* The block whose state nMoneySupply and the governance database should be.
At == IF verify = "no" THEN tip ELSE pindex

\* RecalculatePIVSupply: the supply counted from the blocks of the chain.
Total[b \in Blocks] == IF b = Genesis THEN 0 ELSE Total[Parent[b]] + Minted[b]

\* Startup: the chain is that of the coins database, and VerifyDB begins.
Start(b, supply) ==
    /\ tip' = b
    /\ nMoneySupply' = supply
    /\ fLoaded' = FALSE
    /\ flush' = "no"
    /\ verify' = "disconnect"
    /\ pindexState' = b /\ pindex' = b

\* PrepareShutdown flushes everything.
Shutdown ==
    /\ Running
    /\ WriteMoneySupply(tip)
    /\ diskTip' = tip
    /\ Start(tip, nMoneySupply)
    /\ UNCHANGED <<governance, lossy, astray>>

\* The process dies at any point and starts again, and reads the supply.
Crash ==
    /\ losses < MaxLosses
    /\ losses' = losses + 1
    /\ supplyLost' = (diskSupplyAt # diskTip)
    /\ astray' = astray \cup Apart(At, diskTip)
    /\ Start(diskTip, diskSupply)
    /\ UNCHANGED <<governance, disk>>

\* The same with -reindexmoneysupply, after a crash or a shutdown.  What it
\* counts is not written until the next flush.
CrashReindexing ==
    /\ losses < MaxLosses
    /\ losses' = losses + 1
    /\ supplyLost' = FALSE
    /\ astray' = astray \cup Apart(At, diskTip)
    /\ Start(diskTip, Total[diskTip])
    /\ UNCHANGED <<governance, disk>>

\* The verifychain RPC runs VerifyDB on the running node, under cs_main, to
\* the same depth here.
VerifyChain ==
    /\ Running
    /\ verify' = "disconnect"
    /\ pindexState' = tip /\ pindex' = tip
    /\ UNCHANGED <<memory, governance, disk, flush, lossy, astray>>

\* The first loop of VerifyDB disconnects the blocks from the tip to this
\* height, each of them on the supply and the governance database.
VerifyLimit == Height(tip) - Min({nCheckDepth, Height(tip)})

\* One round of the loop.
VerifyDisconnect ==
    /\ verify = "disconnect"
    /\ pindex # Genesis
    /\ Height(pindex) >= VerifyLimit
    /\ DisconnectBlock(pindex)
    /\ pindexState' = Parent[pindex] /\ pindex' = Parent[pindex]
    /\ UNCHANGED <<tip, fLoaded, disk, flush, verify, lossy>>

\* The loop stops to disconnect at its limit, or when the caches are full.
VerifyTurn ==
    /\ verify = "disconnect"
    /\ verify' = "reconnect"
    /\ UNCHANGED <<memory, governance, disk, flush, pindexState, pindex, lossy, astray>>

\* PrepareShutdown after a VerifyDB that did not end: the supply of the block
\* that it has reached is written with the coins of the tip.
ShutdownHalfway ==
    /\ WriteMoneySupply(pindex)
    /\ diskTip' = tip
    /\ Start(tip, nMoneySupply)

\* A shutdown that is requested in the first loop: VerifyDB returns at once.
VerifyInterrupted ==
    /\ verify = "disconnect"
    /\ tip # Genesis
    /\ losses < MaxLosses
    /\ losses' = losses + 1
    /\ supplyLost' = (supplyLost \/ pindex # tip)
    /\ astray' = astray \cup Apart(pindex, tip)
    /\ ShutdownHalfway
    /\ UNCHANGED governance

\* The blocks that the second loop may connect next.
ReconnectBlocks == {b \in Chain[tip] \ {Genesis} : Parent[b] = pindex}

\* An error return of VerifyDB: a block or its undo data cannot be read, or
\* CheckBlock, DisconnectBlock or ConnectBlock fails, the last two perhaps
\* when the updates are reverted or written already.  (When the supply is
\* changed too, that leaves what a failure in the next round leaves.)  At
\* startup the node gives up; a node that runs goes on with what VerifyDB has
\* left.
VerifyFails ==
    /\ verify # "no"
    /\ tip # Genesis
    /\ losses < MaxLosses
    /\ losses' = losses + 1
    /\ \/ UNCHANGED governance
       \/ verify = "disconnect" /\ pindex # Genesis /\ governance' = RevertUpdateCost(pindex)
       \/ verify = "reconnect" /\ \E b \in ReconnectBlocks : governance' = UpdateCost(b)
    /\ supplyLost' = (supplyLost \/ pindex # tip)
    /\ astray' = astray \cup Apart(pindex, tip)
                       \cup {h \in Heights : governance'[h] # governance[h]}
    /\ \/ fLoaded /\ verify' = "no" /\ UNCHANGED <<memory, disk, flush, pindexState, pindex>>
       \/ ~fLoaded /\ ShutdownHalfway

\* The second loop connects them again.
VerifyReconnect ==
    /\ verify = "reconnect"
    /\ pindex # tip
    /\ \E b \in ReconnectBlocks :
        /\ ConnectBlock(b)
        /\ pindex' = b
    /\ UNCHANGED <<tip, fLoaded, disk, flush, verify, pindexState, lossy>>

VerifyDone ==
    /\ verify = "reconnect"
    /\ pindex = tip
    /\ verify' = "no"
    /\ fLoaded' = TRUE
    /\ UNCHANGED <<tip, nMoneySupply, governance, disk, flush, pindexState, pindex, lossy, astray>>

Next ==
    \/ \E b \in Blocks : ConnectTip(b) \/ CheckOnly(b)
    \/ DisconnectTip
    \/ DisconnectTipFails
    \/ \E rest \in {"no", "coins"} : WriteIndex(rest)
    \/ WriteCoins
    \/ Shutdown
    \/ Crash
    \/ CrashReindexing
    \/ VerifyChain
    \/ VerifyDisconnect
    \/ VerifyTurn
    \/ VerifyInterrupted
    \/ VerifyFails
    \/ VerifyReconnect
    \/ VerifyDone

Spec == Init /\ [][Next]_vars
-----------------------------------------------------------------------------
\* The values are of their kinds; VerifyDB stays between genesis and the tip.
TypeOK ==
    /\ {tip, diskTip, pindexState, pindex} \subseteq Blocks
    /\ diskSupplyAt \in Blocks \cup {NoBlock}
    /\ governance \in [Heights -> Range(Update) \cup {InitialCost, NoCost}]
    /\ nMoneySupply \in Int /\ diskSupply \in Int
    /\ flush \in {"no", "index", "coins"}
    /\ verify \in {"no", "disconnect", "reconnect"}
    /\ losses \in 0..MaxLosses
    /\ {fLoaded, supplyLost} \subseteq BOOLEAN
    /\ astray \subseteq Heights

\* The entry that block b's chain has at height h.
ChainEntry(b, h) ==
    LET updates == {Update[x] : x \in {y \in Chain[b] : Height(y) = h}} \ {NoCost}
    IN  IF h = 0 THEN InitialCost
        ELSE IF h < HeightGovernance \/ updates = {} THEN NoCost
        ELSE CHOOSE cost \in updates : TRUE

\* Through connects, reorganisations, flushes, shutdowns, crashes and what
\* VerifyDB disconnects and connects again, the governance database has at
\* every height the update that the chain has there, and GetCost reports the
\* last.  A height is excepted when a crash or a failure left it with or
\* without the update of another block there, or when a block was only
\* checked, refused or connected again below the first height; it is right
\* again when a block of that height is disconnected and no entry is left.
GovernanceFollowsChain ==
    /\ \A h \in Heights \ astray : governance[h] = ChainEntry(At, h)
    /\ astray = {} =>
          GetCost = ChainEntry(At,
              Max({h \in 0..Height(At) : ChainEntry(At, h) # NoCost}))

\* nMoneySupply is what the blocks of the chain created, whatever happened
\* between ConnectBlock, DisconnectBlock, the flushes and VerifyDB; a crash
\* is harmless when the supply on disk was written right and at the coins
\* database's best block, an error of VerifyDB when it had reached the tip,
\* and -reindexmoneysupply repairs any other.
SupplyFollowsChain == TypeOK /\ (~supplyLost => nMoneySupply = Total[At])

\* When VerifyDB is done and governance is deployed, the updates of all blocks
\* that it disconnected and connected again are in the database, whatever
\* crashes, errors, interrupted starts and refused blocks left there.
VerifyRestoresUpdates ==
    verify = "reconnect" /\ pindex = tip /\ AreGovernanceDeployed =>
        \A b \in Chain[tip] \ Chain[pindexState] :
            Update[b] # NoCost => governance[Height(b)] = Update[b]
=============================================================================
