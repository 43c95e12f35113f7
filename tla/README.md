# Rapids: TLA+ models, checks and proofs

Rapids is a proof-of-stake node in C++ that descends from Bitcoin Core and PIVX, with masternodes, transaction
locks (SwiftTX), an on-chain governance database and a token layer derived from Omni. This directory holds TLA+
modules for the parts of the node whose correctness depends on order, interleaving and crashes, TLC configurations
that check them on small instances, and TLAPS proofs for every value of the constants. File names below are those in
the program's source directory, which `PROJECT.json` calls `src/src/`.

## 1. The system

| Part | State | Operations | What makes it hard |
|---|---|---|---|
| Coins (`coins.cpp`, `txdb.cpp`) | two caches with DIRTY/FRESH flags over a database | fetch, add, spend, undo, flush, uncache | a flag that is trusted wrongly loses or revives a coin, often only after a later flush |
| Script checks (`checkqueue.h`) | queue, counters, verdict, threads | add, loop, wait, control | several critical sections per batch; wake-ups; interruption; early return |
| Block index and chain (`main.cpp`) | index flags, candidates, unlinked blocks, tip | accept, activate, connect, disconnect, invalidate, reconsider, replay, flush, load | `cs_main` is given up between steps; index and coins reach the disk at different times |
| SwiftTX (`swifttx.cpp`) | requests, votes, locks, locked inputs | request, vote, conflict, expire, clean | messages in any order; maps that must be emptied in step |
| Governance and supply (`governance/`, `main.cpp`, `init.cpp`) | entries by height, money supply | update, revert, write, verify, recount | written at other times than the coins; `VerifyDB` changes the real state |
| Memory pool (`txmempool.cpp`) | entries with links and descendant totals | accept, connect, disconnect, mend, trim, expire | totals maintained incrementally while a reorganization puts parents back under children |
| Masternode synchronisation and sporks (`masternode-sync.cpp`, `spork.cpp`) | stage, attempts, peers asked, sporks in memory and on disk | timer, messages, reset, restart | timeouts racing answers; check and store in different critical sections |
| Masternode payments (`masternode-payments.cpp`) | votes, tallies by height, `mnpayments.dat` | vote, count, clean, fill, check, save | a vote is stored and counted in two critical sections; a staked block is checked later than it is filled |
| Token exchanges (`tokencore/dex.cpp`, `mdex.cpp`, `dbfees.cpp`) | balances, reserves, offers, accepts, order book, fee cache | offer, accept, pay, expire, trade, cancel, shut down | the same tokens are in several books; rounding |
| Token properties (`tokencore/tx.cpp`, `sp.cpp`, `sto.cpp`) | property records, crowdsales, frozen addresses | issue, send, grant, revoke, distribute, freeze | totals recorded in one place and held in another |
| Token state (`tokencore/persistence.cpp`, `dbspinfo.cpp`, `dbtxlist.cpp`, `tokencore.cpp`) | memory, state files, databases, watermarks | block hooks, save, rewind, start | several stores, written at different times, that must go back together |
| Wallet, network, RPC, GUI, cryptography | | | I/O, or pure functions |

The parts meet as follows. `ProcessNewBlock` puts a block into the index; `ActivateBestChain` picks the best candidate
and connects or disconnects blocks. Each connection opens a scratch coin view, sends script checks through the queue,
updates governance and supply, and flushes the view into `pcoinsTip`. `FlushStateToDisk` writes index and supply and
then, not always, the coins. A SwiftTX lock makes `CheckBlock` refuse blocks and may replay the last ones; votes on
payees make it refuse blocks, too. Every step of the chain moves transactions between blocks and the memory pool and
calls the hooks of the token layer, which applies the token transactions of connected blocks and, after a disconnected
one, rewinds to a saved state. The masternode thread synchronises lists and votes with peers; payment votes decide which
payee a staked block must have.

`PROJECT.json` lists every part with its status, and the hazards with the lines where they bite.

## 2. Modules

### Coins, CoinSet

`Coins` has the database (`db`), `pcoinsTip` (`tip`) and the scratch view of a block (`view`, `open`) with the best
block of each. A slot of a cache is a record with the coin and the two flags. The operators `Fetched`, `Added`,
`SpentEntry`, `BatchWritten`, `DbWritten` and `Uncached` say what one operation of `coins.cpp` does to one slot; the
actions apply them and pull coins through both layers as the code does. Any prefix of a block's operations may be
dropped (an error return) or lost (a crash). `CoinSet` is the abstract promise: three plain maps with commit, abort,
write-out and crash. `AddCoin` asks nobody whether the layers below have the coin, and no rule keeps a transaction
from repeating the id of one with unspent outputs: the history variable `overwritten` holds the outpoints where that
has happened, and the maps of `CoinSet` lose exactly these (`Overwrite`).

### CheckQueue

One step is one critical section of `CCheckQueue::Loop`, `Add` or the control. A waiting thread that is notified is
`woken` until it gets the mutex. Spurious wake-ups (of boost, external), interruption of workers and of the master,
and the early returns of `ConnectBlock` are modelled. A batch is any part of the queue of the right size: the code
says that the order does not matter. `ValidationProofs` has the proofs about `Coins` and `CheckQueue`, the two parts that
connecting a block goes through.

### ChainState, MCChainState, ChainStateProofs

Blocks are nodes of a tree with their work and the verdicts that validation will give (`Bad`, `BadContext`, `Stake`,
`Checkpoints`). `op` is the section that holds `cs_main`; `calls` and `replays` are the calls under way that wait for
it; `disk` is what a restart would find. `refused` are the blocks that `CheckBlock` refuses now and records in
`mapRejectedBlocks`, for an input that is locked or for a payee or cold-stake output that the data of the masternodes
does not agree with; both come and go (`BeginRefusing`, `EndRefusing`). A block that `ProcessNewBlock` hands over is not
checked again (`HandedOver`), and not recorded. Abstractions to know of:

- the call of `ActivateBestChain` inside the reconsideration of a checkpoint is one of `calls`;
- `Numberings` allows a few more orders of sequence numbers than the breadth-first walk of the code gives;
- a failed read or write of the disk is a crash;
- chains shorter than `nReplay + 1` blocks are not replayed;
- `DisconnectBlock` that fails without aborting the node, and `CorruptionPossible`, are left out;
- which rejected blocks are in the time window of `ReprocessBlocks` is an arbitrary choice.

### SwiftTX, MCSwiftTX

The maps of `swifttx.cpp`. `BeginIX`, `AcceptIX` and `RejectIX` are the handler of a request, cut where it calls the
memory pool; the pool may refuse anything, and must refuse a conflict with a lock. `mapTxLockReq` has a third value,
`"empty"`, for the entry that `operator[]` creates. `DoConsensusVote` returns before it votes, so it has no action.
Each handler is one step: the races inside the maps, which have no mutex, are not modelled. `Signers` are the masternodes.
The proofs are in `MasternodesProofs`.

### Ledger, MCLedger, LedgerProofs

Governance entries by height (one table stands for the three), the money supply, and what of them and of the coins is
on disk. `ConnectTip`, `DisconnectTip`, the two parts of a flush, a clean shutdown, a crash with or without
`-reindexmoneysupply`, and `VerifyDB` (at startup and from `verifychain`) with its two loops, its early end, its
interruption and its error returns (`VerifyFails`), after which a starting node shuts down and a running one goes on.
`CheckOnly` is a block that `ConnectBlock` refuses late or only checks, `DisconnectTipFails` a tip that `DisconnectBlock`
does not take off cleanly. `AreGovernanceDeployed` guards the writes, as in `ConnectBlock`, by the height of the active
chain, and the reverts of `DisconnectBlock` are unguarded. (`height_governance` is the largest `int` on the networks of
`chainparams.cpp`; the constant `HeightGovernance` lets the updates begin.) The history variables `supplyLost`,
`diskSupplyAt` and `astray`, a set of heights, record the events after which the code gives no guarantee.
`diskSupplyAt` is the block whose supply is on disk, `NoBlock` when that supply is of none: what `-reindexmoneysupply`
counts is in memory only until the next flush. `verifychain` uses the same depth as startup; an interrupted
`RecalculatePIVSupply` is left out.

### Mempool, MCMempool

`pool` is the sequence of entries with their links and, per entry, count, size and fees of itself and its descendants;
`chain` the blocks with their transactions. `AcceptToMemoryPool`, `ConnectTip` (removal for a block, conflicts
included), `DisconnectTip` (transactions go back one by one, or are refused with all that depends on them),
`UpdateTransactionsFromBlock`, `removeForReorg`, `TrimToSize`, expiry and `clear`. `busy` says that a call holds
`cs_main`; the properties about links and contents are stated for the time it is free. `cut` records that the pool
overflowed while a block was put back: the code then evicts parents whose children are not linked to them yet, and gives
no guarantee. All three callers of `DisconnectTip` are there; `loose` holds the entries that the third,
`ReprocessBlocks`, leaves for the next `removeForReorg`. Fee estimation, priorities and the rolling minimum fee are left
out.

### MNSync, MNPayments, Masternodes, MCMasternodes, MasternodesProofs

`MNSync` is the machine of `CMasternodeSync::Process` with its stages, attempts and time limits, counted in periods of
the timer, and `CSporkManager`: `CheckSpork`, `StoreSpork` and `WriteSpork` are the sections of `ProcessSpork`,
`UpdateSpork` the RPC command, which stores without writing. Process calls `IsBlockchainSynced`, which may reset the
machine, so it is cut there (`process = "ask"`). `MNPayments` has the votes, the tally of each height, the file, and
the two users of a tally, `FillBlockPayee` and `IsTransactionValid`. `adding` is a vote that a thread has stored and not
yet counted; `torn` the heights at which such a vote was cleaned or saved in between. The best height of the masternode
list follows each new block, which is one step with the height that `ProcessNewBlock` read, and the commands
`invalidateblock` and `reconsiderblock`, which read the height of the chain in one step and set it in a later one
(`rpc`). `peak` and `sunk` follow how far it goes back while the staker has a block. `Masternodes` composes the two:
votes are taken, cast and enforced according to the stage of the synchronisation and the spork; a `world` fixes the
situation that an instance explores and how often a node is disturbed (sleep, reset, loss of peers, restart, crash,
an invalidated or reconsidered block). Which masternode is enabled or ranked is a constant; superblocks are left out.

### TokenTally, DEx, MCDEx, DExProofs

`TokenTally` has balances by address and property. `DEx` is the exchange of tokens for RPD: offers, changes and
cancellations, accepts with their windows, payments with royalties, plain sends and freezes, and the end of a block.
The loops of `HandleDExPayments` and `eraseExpiredAccepts` are steps, with `paying` and `erasing` for what is left of
them. Royalties are products of `int64` that wrap (`Wrapped`), with `MaxInt` for the largest; a price, a payment or a
purchase that the asserts of `ConvertTo256` and `ConvertTo64` do not let through (`Convertible`) ends the program
(`halted`). At the end of a block `calculate_and_update_devmsc` issues property 1 to the exodus address (`NextBlock`):
`Vested` are the amounts that the time of a block may call for, also less than was issued before, and then nothing is.

### MetaDEx, Tokens, MCTokens, TallyProofs, MetaDExProofs, TokensProofs

`MetaDEx` is the exchange of tokens for tokens: `x_Trade` goes from order to order (`taking`, the order under way, with
those it has passed), the rest is entered in the book, and cancellations and the deactivation of a feature give orders
back one by one (`returning`). Fees go to a cache and are distributed at a threshold. `Tokens` adds what is done with
properties: fixed, managed and crowdsale issuance with early-bird and issuer bonuses, sends to one, to many, of all and
to owners, payments of RPD into a crowdsale, grants and revocations, change of issuer, freezing, and the issue of
property 1 at the end of a block (`BlockEnd`). `SendToMany` checks the sum of its outputs, which are words, modulo
`Word`, and then moves them one by one; the tallies read the upper half of the words as negative (`Signed`), and an
update that `update_tally_map` refuses fails an assert. `Deactivation` gives the orders back and puts the feature at
block `DisabledBlock`, 999999 in the code: from there on the feature is active. Numbers are small: the limit of a
supply, the divider of fees and the precision of ratios are constants. `halted` marks the end of a behaviour in which
the code hangs, throws or leaves what the language defines: a shutdown of all pairs that keeps an order
(`ShutdownHangs`), the division by zero of a full crowdsale (`FundraiserThrows`), an iterator past the end of a set
(`HasSuccessor`). The starting points are consistent (`ScenariosAssumption`): what the records of a property say is what
its owners have, and property 1 has owners. The first block of the token layer, before whose end property 1 has none, is
therefore left out.

### TokenState, MCTokenState

How the token layer follows the chain. A transaction is the block it is in; `TallyOf(b)` are the effects of all blocks
up to `b`, once each. `S` holds the tally in memory, the state files, the records of properties with their undo data and
watermark, the list of transactions, the fee cache and the frozen addresses. The actions are the steps of
`ActivateBestChain` with the hooks they call, the rewind with its fallback to a full rescan, `invalidateblock`, the
flush of the coins, and a crash with the start after it. A connection is two steps, since `ConnectTip` may flush the
coins before `UpdateTip` sets the tip and calls the hook for the beginning of a block. `invalidateblock` is for any
block of the active chain, and disconnects down to it in one call. `torn` records the three events after which files and
databases need not be of their block: a crash between the write of a database and its watermark (`"crash"`), the
transactions of several blocks handled as those of the last (`"spread"`), and the state of an abandoned branch saved at
the fork (`"fork"`, section 4).

Operators that no action uses and that stand before a definition with a similar name are altered forms of it, as a
plausible mistake would have it; each breaks one property.

## 3. Runs

| Run | Instance | Shows |
|---|---|---|
| `coins` | 2 outpoints, 2 coins, 1 unspendable, 2 blocks | FRESH is wrong only for an output created over an unspent coin, and the stack of caches implements `CoinSet` |
| `check_queue` | 2 workers, 3 checks (1 bad), batches of 2 | verdicts are exact, each block finds the queue idle, checks have their data, `Wait` returns |
| `chain_forks` | branches 1-2-5 and 3-4, a bad block, 2 handlers, flushes, 1 crash | links and candidates, the best chain, the order of the disk, the assertion of `PruneBlockIndexCandidates` |
| `chain_invalidate` | branches 1-2 and 3, a contextual failure, a checkpoint, 2 of invalidation, reconsideration, refusal by `CheckBlock` | marks and candidates stay consistent; calls return |
| `swift` | 2 conflicting transactions, 2 masternodes, quorum 2 | one vote each, quorum at the right height, release |
| `ledger` | branches 1-2-3 and 1-4-5, updates from height 2 on, 2 losses (crashes, failures) | governance and supply follow the chain; `VerifyDB` restores |
| `mempool` | 6 transactions (a chain, a diamond, a conflict, a coinbase spend), height 3, 2 disconnects, a pool that overflows | the pool can be mined, links and totals are exact |
| `masternodes` | 6 worlds: a new node, one that votes and stakes, one whose tip goes back and forth while it stakes, one that is restarted, sporks with and without the key | tallies count the votes, staked blocks stay valid, stages need the chain, synchronisation ends, sporks go forward |
| `dex` | a seller of two properties, two other addresses, royalties on one property, windows of one block, 3 blocks, an `int64` that ends at 100 | reserves have their offer, no offer is oversold, tokens are conserved but for those that block ends issue |
| `tokens` | 3 properties, 2 addresses, 3 starting points (before, managed, in a crowdsale), 4 transactions, 3 blocks, a deactivated feature is off before block 2 | reserves are exact, trades are within limits, supplies are those recorded and within the maximum, frozen balances stay |
| `token_state` | branches 1-2-3, 1-4-5-6, 1-10-11 with 10 bad, and 7-8-9, 1 invalidation, 1 crash | balances, property records, fees and freezes are those of the active chain |
| `token_files` | the same tree, no invalidation, no crash | **violated**: a state file holds the effects of an abandoned branch |

The bounds are the smallest in which the cases of interest meet: two outpoints so that one can be flushed while the
other changes; two workers besides the master so that a batch can finish before and after another; two branches so that
every reorganization has something to leave and something to join, and for `token_state` a third one deeper than the
state files reach; a chain longer than the verification depth; two losses so that a second meets what the first left; a
limit of visits that the grandchildren in `mempool` exceed and the children do not; offers that are replaced while
accepts of the first are open; orders that trade with two others and leave a rest; a number of peers larger than the
time limit of the synchronisation. `Max...` constants bound only how often the environment acts. The largest runs have
3.0 million (`token_state`), 2.1 million (`dex`), 1.8 million (`ledger`, `tokens`), 0.6 million (`masternodes`) and 0.4
million (`chain_forks`, `chain_invalidate`) states.

Deadlock is not checked where a bound ends the behaviour (`mempool`, `tokens`, `token_state`, `masternodes`). Type
invariants are conjuncts of one invariant per module, or are proved.

**Fairness.** `CheckQueue`: each thread's loop is weakly fair, as a thread that can take the mutex eventually does;
nothing is assumed of wake-ups or interrupts. `ChainState`: work that is under way goes on, since `ActivateBestChain`
retries its `TRY_LOCK` and every holder releases it. `SwiftTX`: time passes and the masternode thread cleans up again
and again; no message has to arrive. `Masternodes`, in the world with peers, the only one that a liveness property is
about: the masternode thread calls `Process` and polls, `cs_main` is free at some of its attempts, the chain becomes
recent and the connection manager fills its slots. No answer of a peer is assumed.

**What the properties except.** Where the code gives no guarantee after some event, a history variable records the
event and the property is stated for behaviours without it:

- `Coins`: outpoints in `overwritten`;
- `Ledger`: `supplyLost`, and the heights in `astray` (section 4);
- `ChainState`: `BestChainActivated`, `NoCandidateForgotten` and `FailedHasInvalidAncestor` are about behaviours in
  which `CheckBlock` refuses no block for a time and no command reconsiders one (`Undisturbed`; the reconsideration by a
  checkpoint is not excepted, and on the small tree it does the properties no harm); `BestChainActivated`,
  `NoCandidateForgotten` and `ActiveChainHasNotFailed` have a crash or an invalidation, not both (`Uninterrupted`), and
  `PruneLeavesACandidate` has no restart after an invalidation, because of a crash inside `InvalidateBlock` (section 4);
- `Mempool`: `cut`, and maturity and finality of entries in `loose`; `MNPayments`: heights in `torn`, and for a staked
  block a best height that has `sunk` by more than `Keep - Back` since it was filled; `MNSync`: the holder of the spork
  key;
- `TokenState`: balances and properties except all three events in `torn`, and TLC finds each of the exceptions needed;
  fees except `"spread"` and any crash, freezes a crash;
- `Tokens`, `DEx`: nothing is said of what comes after a failed assert (`halted`), since the program has ended;
- `SwiftTX`: `HeldInputsExpire` is about locks with a request.

## 4. Disagreements between the code and its comments

One run ends in a violation; `PROJECT.json` quotes the lines. When the first block of a better branch is invalid,
`ActivateBestChain` ends at the fork and calls the hook for the end of a block. The state in memory is still that of the
abandoned branch, and it is stored as the state "as of the given block". A node that is rewound or restarted at that fork
loads it, so that `TallyFollowsChain` and `SPsFollowChain`, which the same tree is checked for, except such a step.

Met while modelling, and excepted from the properties or outside them:

- `coins.h` line 304 says of `AddCoins` that "overwrites are never possible due to BIP34 always in effect". The rule is
  commented out in `ContextualCheckBlock`, and `ConnectBlock` has no check of its own. An output created over an unspent
  coin is marked FRESH, and when it is spent the coin below is there again. `FreshIsSound` and `ImplementsCoinSet` say
  that this happens to such an outpoint and to no other.
- `ConnectBlock` declares its check control before the data the checks point to, so on an early return that data is
  destroyed first, while checks may run. `ChecksHaveTheirData` excepts the unwinding.
- A crash inside `InvalidateBlock`, between the writes of index and coins, leaves a failed tip on disk. The assertion of
  `PruneBlockIndexCandidates` at the next start then fails, or, if there is another candidate, the node goes on with a
  failed block in the active chain.
- `ReprocessBlocks` does not refill the candidates, so a competing valid branch is not activated, and disconnects one
  block more than it is asked for. `ReconsiderBlock` clears marks of ancestors without making them candidates.
- `ReconsiderBlock` also leaves `BLOCK_FAILED_CHILD` on the other branches above the ancestors that it clears: with two
  blocks on a third, `invalidateblock` of the third and `reconsiderblock` of the one that was not the tip leave the other
  marked without an invalid block below it, and `CheckBlockIndex` asserts that this cannot be. (Without the condition
  `Undisturbed`, TLC finds it on the tree of those four blocks.)
- A block that passed `CheckBlock` before a lock arrived, or before the votes on its payee changed, is connected all the
  same. Inputs of a lock request that the pool refused are never released.
- `ConnectBlock` writes governance updates before the line "Nothing before this point should actually store to disk",
  also for blocks that fail or are only checked (`CheckOnly`, `astray`). It asks for the height of the active chain, not
  of the block: around the first height, `VerifyDB` writes updates of blocks that were connected without them.
- An error return of `VerifyDB` under `verifychain` leaves a running node with supply and governance entries of the
  block it had reached (`VerifyFails`), and a failing `DisconnectTip` with the entries of the tip reverted.
- The supply is written hourly and the coins daily, so after a crash the blocks in between are counted twice; an
  interrupted `VerifyDB` writes the supply of an earlier block.
- A pool that overflows while a block is put back evicts a parent without its children.
- `ReprocessBlocks` gives `cs_main` up after its `DisconnectTip` calls without `removeForReorg`, which the comment on
  `DisconnectTip` asks for: transactions that are no longer final or mature stay in the pool (`loose`).
- `UpdateSpork` does not write the database, and an older message can overwrite its value.
- Transactions of several blocks connected in one step are attributed to the last; the fee cache is written at once, so
  that fees are added again after a crash; records of a block whose watermark was not written are not taken back.
- `DeactivateFeature` ("Immediate feature deactivation requested") moves a feature to block 999999. On the main network
  the token layer begins at block 1827900, so the feature stays active; the orders on the book are given back all the
  same.
- `dbfees.cpp` line 215 takes for granted that property 1 has owners; it has none before the end of the first block of the
  token layer.
- The outputs of a send to many are summed as unsigned words and moved as signed amounts; what the tallies refuse of
  them fails an assert in the middle of the loop.
- `MetaDEx_SHUTDOWN_ALLPAIR` does not go past an order that it keeps; `calculateFundraiser` divides by zero when the
  maximum was reached exactly; `disableFreezing` may step past the end of the set it erases from.

## 5. Proofs

| Module | Theorems | Assumptions |
|---|---|---|
| `ValidationProofs` (Coins) | `CoinsTypeCorrect`, `FreshNeverMisapplied`, `CleanEntriesAreCopies`, `CoinsImplementCoinSet` | null values are not coins or blocks |
| `ValidationProofs` (CheckQueue) | `TypeCorrect`, `AssertIsIdleHolds`, `VerdictCorrect`, `QueueDrained`, `TodoCorrect`, `DataOutlivesChecks` | finitely many workers and checks, the master is no worker, a positive batch size |
| `ChainStateProofs` | `LinksStayExact`, `DiskTipStaysIndexed`, `ActiveChainNeverFails`, `MarksHaveACause`, `PruningLeavesACandidate`, `CandidatesAreComplete`, `ChainIsBest` | `TreeAssumption`: a finite tree whose work grows along every branch; `MarksHaveACause`, `CandidatesAreComplete`, `ChainIsBest`: no checkpoints |
| `LedgerProofs` | `GovernanceCorrect`, `SupplyCorrect`, `VerifyRestores` | `LedgerAssumption`: a finite tree, whole numbers minted, a positive depth of verification, a first height with updates |
| `MasternodesProofs` (Masternodes) | `VotesStayCounted`, `StakedStaysPayable`, `SyncedNodeHasChain`, `SporkStaysSaved`, `SporksOnlyGoForward` | types of the constants and worlds; more peers than the patience of the synchronisation |
| `MasternodesProofs` (SwiftTX) | `SwiftTypeCorrect`, `VotesCountOnce`, `LocksHaveAQuorum`, `InputsKeepTheirOwner` | types of `Vin`, heights and quorum |
| `DExProofs` | `Invariance`, `ReservesHaveTheirOffer`, `AcceptsAreErasedInTime`, `FrozenBalancesAreKept`, `SumsAreKept`, `ConservationOfTokens`, `OffersAreNotOversold`, `TalliesAreNatural` | finitely many addresses; amounts are natural numbers, prices integers; types of royalties, vested amounts, payments and initial balances |
| `MetaDExProofs` | `OrdersStayOpen`, `EveryTradeIsWithinLimits`, `FrozenCanBeUnfrozen` | trades name properties and natural numbers; types of the inputs and features |
| `TokensProofs` | `ReserveIsExact`, `SupplyIsAccountedFor`, `FrozenStaysFrozen` | the same; finitely many addresses with an order; consistent starting points; ratios finer than the largest supply |

`TallyProofs` holds no theorem, only the lemmas on sums, distributions and payments that the last two rest on.

*Coins.* The invariant is `TypeOK /\ SlotsInv /\ FreshIsSound /\ CleanIsCopy`. Neither flag property is inductive alone:
fetching a spent coin sets FRESH because the entry is a copy, and dropping a FRESH entry is harmless because nothing is
under it; FRESH is trusted for the outpoints that are not `overwritten`. `SlotsInv` says that an absent entry carries
nothing. Every step preserves the invariant and is a step or a stutter of `CoinSet`: `AddCoin` over an unspent coin is
`Overwrite`, and what is done with an overwritten outpoint later is a stutter.

*Check queue.* `Shape` (a thread has a batch exactly while it works on it, and no check is in two places), `Counts`
(the counters are the sizes they stand for, plus `nLeaked`, the head counts an interrupted master never takes back) and
`Truth` (partial verdicts speak of the checks finished so far) are operators of the state, so that they can be stated in
the middle of a critical section, where `Continue` starts. `DataInv` adds that the data is there while a thread has a
batch and the controller does not unwind.

*Chain state.* The theorems hold for every finite block tree. `Anc` is recursive, so its equation is derived first: the
least set that holds a block and is closed under `Parent` solves it. What the model uses of ancestors (they are closed,
finite and a line, the next block on a branch exists) follows by looking at a counterexample of least work, and that
`MostWork` is a candidate at all from the best block of every finite set (`BestExists`). `ChainInv` joins `IndexOK` (the
index), `MarksOK` (what points into it), `SectionOK` and `DiskOK`. `DiskTipIsIndexed` is not inductive: it needs that
every block whose data is not on disk is dirty, and that no entry gets dirty between the write of the index and the
write of the coins; that the genesis block is never disconnected needs that a replay has at most `Height(tip)` blocks to
go. `ActiveOK` follows a failed mark through a step and through `InvalidateBlock`: what `FindMostWorkChain` marks is
above a failed block, so never on the branch that it chose. `MarkOK` is about memory and disk together, since a crash
may come between a mark and the write of its cause.

`NoCandidateForgotten` is true only when all calls have returned: while a reorganization disconnects blocks, blocks
between the new tip and the old one are better than the tip and no candidates. `CandOK` says what is true meanwhile:
there is a *mark*, the tip or a better valid block, from which upwards every valid block is a candidate. A disconnected
tip leaves the mark behind; a connected block moves it up or, if it is worse, lets `PruneBlockIndexCandidates` take out
only what is below the mark; `InvalidateBlock` has none until it has refilled the candidates; a restart begins with the
tip on disk. A block that fails in `ConnectBlock` is never below the mark, because every tip there has been could be
connected. The other half of `CandOK` is about the calls: every valid block that is better than the tip is `Sought` by a
call that has not settled for less, since the target of a step is as good as every valid block (`FoundIsBest`). With no
call left the mark is the tip, and nothing valid is better. `TargetOK`, for `PruneLeavesACandidate`, needs nothing of
this: the target of a step is a candidate and stays one.

*SwiftTX.* `NoDoubleVote` needs `VotesRecorded`: every counted vote has its key in `mapTxLockVote`, which is what stops
a repetition. `InputsChangeHandsFree` follows action by action from the types.

*Ledger.* The theorems hold for every finite tree, every assignment of updates and minted amounts, every depth of
`VerifyDB`, every first height with updates and any number of losses. `LedgerInv` relates everything to `At`, the block
that `VerifyDB` or the chain has reached: `SupplyOK` (the supply in memory is that of `At`, the one on disk that of
`diskSupplyAt`), `EntriesOK` (the entries outside `astray` are those of `At`), `WalkOK` (`VerifyDB` walks on the active
chain, with no flush between). `VerifyRestoresUpdates` holds also at heights that are astray, where `EntriesOK` says
nothing: `Cleared` says that the entries of all blocks that were disconnected are gone, so that `UpdateCost`, which
keeps an entry that is there, writes them again.

*DEx.* The first invariant, `IInv`, joins the types, which include that balances and reserves never go below zero (the
asserts around every update), with `ReservedTokensAreOnOffer` and `AcceptsExpireInTime`. A cancellation gives back all
that is reserved because the seller has one offer only; `Expired` uses `>=`, so that at the end of a block no window is
passed. The second, `SumInv`, is about sums: what the accept orders of a seller have left is ACCEPT_RESERVE, balances
and reserves together are what was there at first, those of property 1 what block ends have issued, and the reserve of
an offer with the accept orders *of this offer* is within its amount. `Numbered` gives the last its reason: a new offer
has a new transaction, so no old accept order counts for it.

*MetaDEx and Tokens.* Four invariants. `IInv`: the orders in the book are open and older than the order under way, which
has no more left than it began with. That a trade is within both limits is arithmetic about rounding: lemmas `Division`,
`Ceiling`, `SmallerFactor` and `Fill`. `FInv`: a frozen address has its property enabled. `MInv`: a feature that is not
active in this block has on the book only the orders that are being given back. `TInv`: balances, reserves and fees of
each property add up to what the records account for (`Sound`), the reserve of a slot is the sum of what its orders have
left (`BookMatches`), and the order under way has its tokens in a balance that is not frozen (`Funded`).
`SupplyIsRecorded` alone is not inductive: a transaction that issues tokens needs that an unknown property has none and
that no two crowdsales are of one property; a trade needs `Funded` and `BookMatches` so that no debit fails. A
distribution to owners is the hard case: shares are rounded up, so the owners are served from the largest on and the
last ones get less or nothing; lemma `PiecesCover` and those after it show that the shares cover the amount and that
exactly the amount is handed out.

`SumOver` is a fold over a set in an order that is not known. That the order does not matter is shown first, in
`DExProofs` and again in `TallyProofs`, from the least set for which it would.

*Masternodes.* `VotesInv`: tallies count the stored votes but for those that a thread is about to count, in memory and
in the file. `StakeInv`: the payee of the staker's block has the votes, or they have been cleaned and are `Forgotten`:
all tallies of the height are zero, no thread is adding a vote for it, and it is more than `Keep` below the `peak` of
the best height. Unless the best height has `sunk` it is at most `Keep - Back` below its peak, so that neither a peer's
vote nor the node's own is about a forgotten height; once it has, another payee can get the votes. `SyncInv`: late
stages have the chain, also between the two halves of `Process`. `SporkInv`: without the key, memory and database agree
unless a message is being stored, and a message that was checked is later than what is in memory.

Only model-checked:

- liveness (`WaitReturns`, `CallsReturn`, `HeldInputsExpire`, `SynchronisationEnds`): the prover does not cover fairness;
- `PoolIsMinable`, `LinksAreExact` and `DescendantsAreExact` of `Mempool`: totals over descendants are defined by
  recursion over the pool, and what a recursive definition computes cannot be proved here;
- the four properties of `TokenState`, whose files, undo data and watermarks are sequences of snapshots, for which the
  same holds.

## 6. Not modelled

Contents and validation of transactions and blocks, block files, undo data and the optional indexes, the list and the
budget of masternodes, staking kernel, encoding of token transactions, histories and display of the token layer, wallet,
network, message handlers, RPC and GUI; `PROJECT.json` gives the reason for each. Disk writes are atomic, and a failed
write is a crash. Data races inside the maps of SwiftTX, which have no mutex, are outside what a model can enumerate.
Activations of token features are in `MetaDEx` and reorganizations in `TokenState`; that the second do not take back the
first is not in a model.

## 7. Plan

1. *Masternode list and budget*: expiry and removal against pings; votes for proposals and finalized budgets.
2. *Compositions*: `ChainState` with `Ledger` (which branch is connected), with `SwiftTX` (locks driven by votes) and
   with `MNPayments` (which payees are refused); activations of features with `TokenState`.
3. *Block download*: the bookkeeping of blocks in flight in the message handlers.
