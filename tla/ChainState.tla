----------------------------- MODULE ChainState -----------------------------
(***************************************************************************)
(* The block index and the active chain of src/src/main.cpp: how blocks    *)
(* enter mapBlockIndex, which of them are candidates for the tip, how      *)
(* ActivateBestChain moves the tip, how a block is invalidated,            *)
(* reconsidered or replayed, and what a restart finds on disk.             *)
(*                                                                         *)
(* cs_main serialises everything: `op' is the section that holds it, and   *)
(* only the steps of that section and a crash can happen until it is free  *)
(* again.  Calls of ActivateBestChain that wait for cs_main are `calls'.   *)
(*                                                                         *)
(* A block is its place in the tree: parent, chain work, and what the      *)
(* validation code will say of it.  A failed read or write aborts the node *)
(* (AbortNode); the model treats it as a crash.                            *)
(***************************************************************************)
EXTENDS Integers, FiniteSets

CONSTANTS Blocks, Genesis,
          Parent,      \* block -> block
          ChainWork,   \* block -> nChainWork
          Address,     \* block -> order of the CBlockIndex pointers
          Bad,         \* fail in ConnectBlock
          BadContext,  \* fail in ContextualCheckBlock
          Stake,       \* proof-of-stake blocks
          Disputable,  \* blocks that a SwiftTX lock may conflict with, or with a payee
                       \* or cold-stake output that masternode data may speak against
          Checkpoints, \* blocks that match a checkpoint
          nReplay,     \* the argument of ReprocessBlocks
          MaxReorg,    \* -maxreorg
          NoBlock,     \* a null pointer to a block
          \* Bounds: threads in ProcessNewBlock, and how often each thing happens.
          MaxHandlers, MaxInvalidate, MaxReconsider, MaxRefused, MaxCrashes,
          MaxDisturb   \* of invalidations, reconsiderations and refusals together

Anc[b \in Blocks] == IF b = Genesis THEN {b} ELSE {b} \cup Anc[Parent[b]]
Desc(b) == {x \in Blocks : b \in Anc[x]}
Height(b) == Cardinality(Anc[b]) - 1

ASSUME TreeAssumption ==
    /\ Genesis \in Blocks /\ NoBlock \notin Blocks
    /\ IsFiniteSet(Blocks)
    /\ Parent \in [Blocks \ {Genesis} -> Blocks]
    /\ ChainWork \in [Blocks -> Nat] /\ Address \in [Blocks -> Nat]
    /\ \A b \in Blocks \ {Genesis} : ChainWork[Parent[b]] < ChainWork[b]
    /\ \A a, b \in Blocks : a # b => Address[a] # Address[b]
    /\ Disputable \subseteq Blocks \ {Genesis}
    /\ nReplay \in Nat

VARIABLES known,       \* mapBlockIndex
          data,        \* BLOCK_HAVE_DATA (and BLOCK_VALID_TRANSACTIONS)
          failedValid, \* BLOCK_FAILED_VALID
          failedChild, \* BLOCK_FAILED_CHILD
          linked,      \* nChainTx # 0
          seq, nSeq,   \* nSequenceId, nBlockSequenceId
          candidates,  \* setBlockIndexCandidates
          unlinked,    \* mapBlocksUnlinked: the values, the key is the parent
          tip,         \* chainActive.Tip()
          dirty,       \* setDirtyBlockIndex
          refused,     \* blocks that CheckBlock refuses now, and records
          rejected,    \* mapRejectedBlocks
          disk,        \* the block tree database and the coins' best block
          checked,     \* blocks whose ProcessNewBlock is past CheckBlock
          calls,       \* running calls of ActivateBestChain: pblock, pindexMostWork
          replays,     \* running calls of ReprocessBlocks: blocks to reconsider
          op,          \* the section that holds cs_main
          used         \* how much of each bound is spent

flags == <<failedValid, failedChild>>
index == <<known, data, linked, seq, nSeq, unlinked>>
swift == <<refused, rejected, replays>>
vars == <<index, flags, candidates, tip, dirty, swift, disk, checked, calls, op, used>>

Failed == failedValid \cup failedChild
Active == Anc[tip]

Call(pblock, target) == [pblock |-> pblock, target |-> target]
NewCall == Call(NoBlock, NoBlock)

\* The bounds leave room for another call from outside.
MayDisturb == used.invalidate + used.reconsider + used.refuse < MaxDisturb

Section(at, call, target, old, left) ==
    [at |-> at, call |-> call, target |-> target, old |-> old, left |-> left,
     pend |-> NoBlock]
Free == Section("free", NewCall, NoBlock, NoBlock, 0)

Init ==
    /\ known = {Genesis} /\ data = {Genesis} /\ linked = {Genesis}
    /\ failedValid = {} /\ failedChild = {}
    /\ seq = [b \in Blocks |-> IF b = Genesis THEN 1 ELSE 0] /\ nSeq = 2
    /\ candidates = {Genesis}
    /\ unlinked = {}
    /\ tip = Genesis
    /\ dirty = {}
    /\ refused = {} /\ rejected = {} /\ replays = {}
    /\ disk = [known |-> {Genesis}, data |-> {Genesis}, failedValid |-> {},
               failedChild |-> {}, tip |-> Genesis]
    /\ checked = {} /\ calls = {}
    /\ op = Free
    /\ used = [invalidate |-> 0, reconsider |-> 0, refuse |-> 0, crash |-> 0]
-----------------------------------------------------------------------------
\* CBlockIndexWorkComparator: a sorts before (is worse than) b.
WorseBySequence(s, a, b) ==
    \/ ChainWork[a] < ChainWork[b]
    \/ ChainWork[a] = ChainWork[b] /\ s[a] > s[b]
    \/ ChainWork[a] = ChainWork[b] /\ s[a] = s[b] /\ Address[a] > Address[b]

Worse(a, b) == WorseBySequence(seq, a, b)

\* Mutant: the tip goes too.
PruneTipToo(C, t) == {c \in C : Worse(t, c)}

\* PruneBlockIndexCandidates.
Prune(C, t) == {c \in C : ~Worse(c, t)}

\* The part of FlushStateToDisk that writes the block index: the entries D,
\* as they are in memory now.
WriteIndex(fv, fc, D) ==
    [disk EXCEPT !.known = @ \cup D,
                 !.data = @ \cup (data \cap D),
                 !.failedValid = (@ \ D) \cup (fv \cap D),
                 !.failedChild = (@ \ D) \cup (fc \cap D)]
-----------------------------------------------------------------------------
(* A block arrives: ProcessNewBlock, AcceptBlock.                          *)

\* CheckBlock runs before ProcessNewBlock takes cs_main.
CheckNewBlock(b) ==
    /\ Cardinality(checked) + Cardinality(calls) < MaxHandlers
    /\ b \in Blocks \ (checked \cup {Genesis})
    /\ Parent[b] \in known
    /\ IF b \in refused
       THEN rejected' = rejected \cup {b} /\ UNCHANGED checked
       ELSE checked' = checked \cup {b} /\ UNCHANGED rejected
    /\ UNCHANGED <<index, flags, candidates, tip, dirty, refused, replays, disk,
                   calls, op, used>>

\* AcceptBlock begins.
Accepting(b) == op = Free /\ b \in checked /\ checked' = checked \ {b}

\* The parent is known (it was before cs_main was taken) and has not failed,
\* and AcceptBlockHeader does not refuse the header.
HeaderAccepted(b) ==
    /\ Parent[b] \in known \ Failed
    /\ b \notin Failed
    /\ b \notin known => Height(tip) - Height(b) < MaxReorg

\* Every way in which AcceptBlock refuses a block and leaves no trace.
RefuseBlock(b) ==
    /\ Accepting(b)
    /\ ~HeaderAccepted(b)
    /\ Parent[b] \in Failed => Parent[b] \notin Checkpoints
    /\ UNCHANGED <<index, flags, candidates, tip, dirty, swift, disk, calls, op, used>>

\* The block's data is there already: ActivateBestChain is called all the same.
AcceptDuplicate(b) ==
    /\ Accepting(b)
    /\ HeaderAccepted(b)
    /\ b \in data
    /\ calls' = calls \cup {Call(b, NoBlock)}
    /\ UNCHANGED <<index, flags, candidates, tip, dirty, swift, disk, op, used>>

\* The header is in the index, then ContextualCheckBlock fails.
FailContextualCheck(b) ==
    /\ Accepting(b)
    /\ HeaderAccepted(b)
    /\ b \in BadContext \ data
    /\ known' = known \cup {b}
    /\ failedValid' = failedValid \cup {b}
    /\ dirty' = dirty \cup {b}
    /\ UNCHANGED <<data, linked, seq, nSeq, unlinked, failedChild, candidates, tip,
                   swift, disk, calls, op, used>>

\* The header is in the index, then a check of the stake fails.
FailStakeCheck(b) ==
    /\ Accepting(b)
    /\ HeaderAccepted(b)
    /\ b \in Stake \ (data \cup BadContext)
    /\ known' = known \cup {b}
    /\ dirty' = IF b \in known THEN dirty ELSE dirty \cup {b}
    /\ UNCHANGED <<data, linked, seq, nSeq, unlinked, flags, candidates, tip,
                   swift, disk, calls, op, used>>

\* The inputs of a proof-of-stake block on a fork are searched in the blocks
\* back to the split, which needs their data and stops at -maxreorg.
StakeSearchable(b) ==
    (b \in Stake /\ tip # Parent[b]) =>
        /\ Anc[Parent[b]] \ Active \subseteq data
        /\ Cardinality(Anc[Parent[b]] \ Active) < MaxReorg

\* Mutant: what waited is forgotten.
NewlyLinkedAlone(b) == {b}

\* What ReceivedBlockTransactions(b) links: b, and what waited for it in
\* mapBlocksUnlinked, recursively.
NewlyLinked(b) == {x \in Desc(b) : (Anc[x] \ Anc[b]) \subseteq unlinked}

\* The sequence numbers the breadth-first walk over S may give.
Numberings(S) ==
    {f \in [S -> nSeq .. (nSeq + Cardinality(S) - 1)] :
        \A x, y \in S : /\ x # y => f[x] # f[y]
                        /\ Height(x) < Height(y) => f[x] < f[y]}

\* ReceivedBlockTransactions when the parent is linked ...
Link(b) ==
    /\ Parent[b] \in linked
    /\ linked' = linked \cup NewlyLinked(b)
    /\ unlinked' = unlinked \ NewlyLinked(b)
    /\ nSeq' = nSeq + Cardinality(NewlyLinked(b))
    /\ \E f \in Numberings(NewlyLinked(b)) :
          seq' = [x \in Blocks |-> IF x \in DOMAIN f THEN f[x] ELSE seq[x]]
    /\ candidates' = candidates \cup {x \in NewlyLinked(b) : ~WorseBySequence(seq', x, tip)}

\* ... and when it is not.
LeaveUnlinked(b) ==
    /\ Parent[b] \notin linked
    /\ unlinked' = unlinked \cup {b}
    /\ UNCHANGED <<linked, seq, nSeq, candidates>>

\* The block passes and is written to its file.
AcceptBlock(b) ==
    /\ Accepting(b)
    /\ HeaderAccepted(b)
    /\ b \notin data \cup BadContext
    /\ StakeSearchable(b)
    /\ known' = known \cup {b}
    /\ data' = data \cup {b}
    /\ dirty' = dirty \cup {b}
    /\ Link(b) \/ LeaveUnlinked(b)
    /\ calls' = calls \cup {Call(b, NoBlock)}
    /\ UNCHANGED <<flags, tip, swift, disk, op, used>>
-----------------------------------------------------------------------------
(* ReconsiderBlock.                                                        *)

\* Flags are cleared on the block's descendants, which become candidates if
\* they beat the tip, and on its ancestors, which do not.
ReconsiderBlock(b) ==
    LET cleared == known \cap (Desc(b) \cup Anc[b])
    IN  /\ failedValid' = failedValid \ cleared
        /\ failedChild' = failedChild \ cleared
        /\ dirty' = dirty \cup (known \cap Desc(b) \cap (Failed \cup (known \ data)))
                          \cup (Anc[b] \cap Failed)
        /\ candidates' = candidates \cup
              {x \in Desc(b) \cap Failed \cap data \cap linked : Worse(tip, x)}

\* The RPC reconsiderblock.
Reconsider(b) ==
    /\ op = Free
    /\ used.reconsider < MaxReconsider /\ MayDisturb
    /\ used' = [used EXCEPT !.reconsider = @ + 1]
    /\ b \in known
    /\ ReconsiderBlock(b)
    /\ calls' = calls \cup {NewCall}
    /\ UNCHANGED <<index, tip, swift, disk, checked, op>>

\* AcceptBlock, when the failed parent matches a checkpoint: the parent is
\* reconsidered, and the block itself is not stored.  The code's inner call of
\* ActivateBestChain is one of `calls'.
ReconsiderCheckpoint(b) ==
    /\ Accepting(b)
    /\ Parent[b] \in Failed \cap Checkpoints
    /\ ReconsiderBlock(Parent[b])
    /\ calls' = calls \cup {NewCall, Call(b, NoBlock)}
    /\ UNCHANGED <<index, tip, swift, disk, op, used>>
-----------------------------------------------------------------------------
(* ActivateBestChain.                                                      *)

\* The part of c's branch that FindMostWorkChain walks over.
Branch(c) == Anc[c] \ Active
\* Mutant: only the candidate itself is looked at.
UsableAlone(c) == c \notin Failed

Usable(c) == Branch(c) \cap Failed = {}

\* FindMostWorkChain's result: the best candidate whose branch has not failed.
MostWork ==
    LET good == {c \in candidates : Usable(c)}
    IN  IF good = {} THEN NoBlock
        ELSE CHOOSE c \in good : \A d \in good : d = c \/ Worse(d, c)

\* The candidates it meets first: their branches are marked from the topmost
\* failed block upwards and taken out of the candidates with it.
Dropped == {c \in candidates : ~Usable(c) /\ (MostWork = NoBlock \/ Worse(MostWork, c))}
AboveFailed(c) == {x \in Branch(c) : \A y \in Branch(c) \cap Failed : x \notin Anc[y]}
TopFailed(c) == {x \in Branch(c) \cap Failed : \A y \in Branch(c) \cap Failed : y \in Anc[x]}

FindMostWorkChain ==
    /\ failedChild' = failedChild \cup UNION {AboveFailed(c) : c \in Dropped}
    /\ candidates' = candidates \ UNION {AboveFailed(c) \cup TopFailed(c) : c \in Dropped}

\* An iteration begins: nothing to do ...
NothingToActivate(c) ==
    /\ op = Free
    /\ c \in calls
    /\ c.target # tip
    /\ MostWork \in {NoBlock, tip}
    /\ FindMostWorkChain
    /\ calls' = calls \ {c}
    /\ UNCHANGED <<index, failedValid, tip, dirty, swift, disk, checked, op, used>>

\* ... or a step towards the best candidate.
BeginStep(c) ==
    /\ op = Free
    /\ c \in calls
    /\ c.target # tip
    /\ MostWork \notin {NoBlock, tip}
    /\ op' = Section("step", c, MostWork, tip, 0)
    /\ FindMostWorkChain
    /\ UNCHANGED <<index, failedValid, tip, dirty, swift, disk, checked, calls, used>>

\* The loop's condition, read without cs_main: the tip is the block that the
\* last iteration worked towards.
EndActivate(c) ==
    /\ c \in calls
    /\ c.target = tip
    /\ op.at = "step" => op.call # c
    /\ calls' = calls \ {c}
    /\ UNCHANGED <<index, flags, candidates, tip, dirty, swift, disk, checked, op, used>>

\* DisconnectTip up to the write of the block index ...
BeginDisconnect(fc, D) ==
    /\ op' = [op EXCEPT !.pend = tip]
    /\ disk' = WriteIndex(failedValid, fc, D)
    /\ dirty' = {}

\* ... and from the write of the coins on.
FinishDisconnect ==
    /\ op.at \in {"step", "invalidate", "replay"}
    /\ op.pend = tip
    /\ disk' = [disk EXCEPT !.tip = Parent[tip]]
    /\ tip' = Parent[tip]
    /\ op' = [op EXCEPT !.pend = NoBlock]
    /\ UNCHANGED <<index, flags, candidates, dirty, swift, checked, calls, used>>

\* ActivateBestChainStep leaves a block that is not below the target.
DisconnectTip ==
    /\ op.at = "step"
    /\ op.pend = NoBlock
    /\ tip \notin Anc[op.target]
    /\ BeginDisconnect(failedChild, dirty)
    /\ UNCHANGED <<index, flags, candidates, tip, swift, checked, calls, used>>

\* The next block on the way to the target, and ConnectBlock's answer: a block
\* that ProcessNewBlock handed over is not put to CheckBlock again.
NextBlock == CHOOSE x \in Anc[op.target] : x # Genesis /\ Parent[x] = tip
HandedOver(b) == op.call.pblock = b /\ op.target = b
Connects(b) == b \notin Bad /\ (b \in refused => HandedOver(b))

Connecting ==
    /\ op.at = "step"
    /\ op.pend = NoBlock
    /\ tip # op.target
    /\ tip \in Anc[op.target]

\* Mutant: ActivateBestChain returns after one step.
EndStepReturning ==
    /\ op' = Free
    /\ calls' = calls \ {op.call}

\* ActivateBestChainStep returns.
EndStep ==
    /\ op' = Free
    /\ calls' = (calls \ {op.call}) \cup {Call(op.call.pblock, op.target)}

\* UpdateTip and PruneBlockIndexCandidates; the step is over when the target
\* is reached or the chain is better than it was.
Connected(b) ==
    /\ tip' = b
    /\ candidates' = Prune(candidates, b)
    /\ \/ /\ b = op.target \/ ChainWork[b] > ChainWork[op.old]
          /\ EndStep
       \/ /\ b # op.target /\ ChainWork[b] <= ChainWork[op.old]
          /\ op' = [op EXCEPT !.pend = NoBlock]
          /\ UNCHANGED calls

\* ConnectTip without a flush.
ConnectTip ==
    /\ Connecting
    /\ Connects(NextBlock)
    /\ dirty' = dirty \cup {NextBlock}
    /\ Connected(NextBlock)
    /\ UNCHANGED <<index, flags, swift, disk, checked, used>>

\* Mutant: the coins are written without the block index.
ConnectTipFlushingCoins ==
    /\ Connecting
    /\ Connects(NextBlock)
    /\ op' = [op EXCEPT !.pend = NextBlock]
    /\ dirty' = dirty \cup {NextBlock}
    /\ UNCHANGED <<index, flags, candidates, tip, swift, disk, checked, calls, used>>

\* ConnectTip with a full flush: block index, then coins.
ConnectTipFlushing ==
    /\ Connecting
    /\ Connects(NextBlock)
    /\ op' = [op EXCEPT !.pend = NextBlock]
    /\ disk' = WriteIndex(failedValid, failedChild, dirty \cup {NextBlock})
    /\ dirty' = {}
    /\ UNCHANGED <<index, flags, candidates, tip, swift, checked, calls, used>>

FinishConnect ==
    /\ op.at = "step"
    /\ op.pend \notin {NoBlock, tip}
    /\ disk' = [disk EXCEPT !.tip = op.pend]
    /\ Connected(op.pend)
    /\ UNCHANGED <<index, flags, dirty, swift, checked, used>>

\* Mutant: the failed block is neither marked nor taken out.
InvalidBlockFoundUnmarked ==
    /\ Connecting
    /\ ~Connects(NextBlock)
    /\ EndStep
    /\ UNCHANGED <<index, flags, candidates, tip, dirty, swift, disk, checked, used>>

\* InvalidBlockFound.
InvalidBlockFound ==
    /\ Connecting
    /\ ~Connects(NextBlock)
    /\ failedValid' = failedValid \cup {NextBlock}
    /\ dirty' = dirty \cup {NextBlock}
    /\ candidates' = candidates \ {NextBlock}
    /\ rejected' = IF NextBlock \in refused /\ ~HandedOver(NextBlock)
                   THEN rejected \cup {NextBlock} ELSE rejected
    /\ EndStep
    /\ UNCHANGED <<index, failedChild, tip, refused, replays, disk, checked, used>>
-----------------------------------------------------------------------------
(* InvalidateBlock, from the RPC invalidateblock.                          *)

\* Mutant: the block gets the mark of a failed ancestor.
InvalidateAsChild(b) ==
    /\ op = Free
    /\ used.invalidate < MaxInvalidate /\ MayDisturb
    /\ used' = [used EXCEPT !.invalidate = @ + 1]
    /\ b \in known \ {Genesis}
    /\ failedChild' = failedChild \cup {b}
    /\ dirty' = dirty \cup {b}
    /\ candidates' = candidates \ {b}
    /\ op' = Section("invalidate", NewCall, b, NoBlock, 0)
    /\ UNCHANGED <<index, failedValid, tip, swift, disk, checked, calls>>

Invalidate(b) ==
    /\ op = Free
    /\ used.invalidate < MaxInvalidate /\ MayDisturb
    /\ used' = [used EXCEPT !.invalidate = @ + 1]
    /\ b \in known \ {Genesis}
    /\ failedValid' = failedValid \cup {b}
    /\ dirty' = dirty \cup {b}
    /\ candidates' = candidates \ {b}
    /\ op' = Section("invalidate", NewCall, b, NoBlock, 0)
    /\ UNCHANGED <<index, failedChild, tip, swift, disk, checked, calls>>

InvalidateTip ==
    /\ op.at = "invalidate"
    /\ op.pend = NoBlock
    /\ op.target \in Active
    /\ failedChild' = failedChild \cup {tip}
    /\ candidates' = candidates \ {tip}
    /\ BeginDisconnect(failedChild', dirty \cup {tip})
    /\ UNCHANGED <<index, failedValid, tip, swift, checked, calls, used>>

\* Mutant: the new tip is not added again.
RefilledNot == candidates

\* The valid blocks that are at least as good as the tip now.
Refilled == candidates \cup {x \in (data \cap linked) \ Failed : ~Worse(x, tip)}

FinishInvalidate ==
    /\ op.at = "invalidate"
    /\ op.target \notin Active
    /\ candidates' = Refilled
    /\ op' = Free
    /\ calls' = calls \cup {NewCall}
    /\ UNCHANGED <<index, flags, tip, dirty, swift, disk, checked, used>>
-----------------------------------------------------------------------------
(* What CheckBlock refuses and records, and ReprocessBlocks.               *)

\* CheckBlock begins to refuse block b: an input of it is locked for another
\* transaction, or masternode data and sporks no longer agree with its payee or
\* its cold-stake output.  When it is a lock, and the locked transaction had
\* been rejected before, recent rejected blocks are reconsidered and the chain
\* is replayed.  None of this is under cs_main.
BeginRefusing(b) ==
    /\ used.refuse < MaxRefused /\ MayDisturb
    /\ used' = [used EXCEPT !.refuse = @ + 1]
    /\ b \in Disputable \ refused
    /\ refused' = refused \cup {b}
    /\ \/ UNCHANGED replays
       \/ \E R \in SUBSET (rejected \cap known) : replays' = replays \cup {R}
    /\ UNCHANGED <<index, flags, candidates, tip, dirty, rejected, disk, checked, calls, op>>

\* CleanTransactionLocksList, or other masternode data.
EndRefusing(b) ==
    /\ b \in refused
    /\ refused' = refused \ {b}
    /\ UNCHANGED <<index, flags, candidates, tip, dirty, rejected, replays, disk,
                   checked, calls, op, used>>

ReplayReconsider(R, b) ==
    /\ op = Free
    /\ R \in replays
    /\ b \in R
    /\ ReconsiderBlock(b)
    /\ replays' = (replays \ {R}) \cup {R \ {b}}
    /\ UNCHANGED <<index, tip, refused, rejected, disk, checked, calls, op, used>>

\* DisconnectBlocks(nReplay): one DisconnectTip for each i from 0 to nReplay.
BeginReplay ==
    /\ op = Free
    /\ {} \in replays
    /\ Height(tip) >= nReplay + 1
    /\ replays' = replays \ {{}}
    /\ op' = Section("replay", NewCall, NoBlock, NoBlock, nReplay + 1)
    /\ UNCHANGED <<index, flags, candidates, tip, dirty, refused, rejected, disk,
                   checked, calls, used>>

ReplayTip ==
    /\ op.at = "replay"
    /\ op.pend = NoBlock
    /\ op.left > 0
    /\ op' = [op EXCEPT !.pend = tip, !.left = @ - 1]
    /\ disk' = WriteIndex(failedValid, failedChild, dirty)
    /\ dirty' = {}
    /\ UNCHANGED <<index, flags, candidates, tip, swift, checked, calls, used>>

FinishReplay ==
    /\ op.at = "replay"
    /\ op.pend = NoBlock
    /\ op.left = 0
    /\ op' = Free
    /\ calls' = calls \cup {NewCall}
    /\ UNCHANGED <<index, flags, candidates, tip, dirty, swift, disk, checked, used>>
-----------------------------------------------------------------------------
(* FlushStateToDisk, a crash and the restart.                              *)

\* The block index alone, or the block index and then the coins.  A flush that
\* would write nothing new is not a step.
BeginFlush ==
    /\ op = Free
    /\ dirty # {} \/ disk.tip # tip
    /\ disk' = WriteIndex(failedValid, failedChild, dirty)
    /\ dirty' = {}
    /\ op' \in {Free, Section("flush", NewCall, NoBlock, NoBlock, 0)}
    /\ UNCHANGED <<index, flags, candidates, tip, swift, checked, calls, used>>

FinishFlush ==
    /\ op.at = "flush"
    /\ disk' = [disk EXCEPT !.tip = tip]
    /\ op' = Free
    /\ UNCHANGED <<index, flags, candidates, tip, dirty, swift, checked, calls, used>>

\* The process dies at any point; LoadBlockIndexDB rebuilds everything from
\* the database, and ActivateBestChain is called once.
LoadedLinks == {x \in disk.data : Anc[x] \subseteq disk.data}

Restart ==
    /\ used.crash < MaxCrashes
    /\ used' = [used EXCEPT !.crash = @ + 1]
    /\ known' = disk.known
    /\ data' = disk.data
    /\ failedValid' = disk.failedValid
    /\ failedChild' = disk.failedChild
    /\ linked' = LoadedLinks
    /\ unlinked' = {x \in disk.data \ {Genesis} : Parent[x] \notin LoadedLinks}
    /\ seq' = [b \in Blocks |-> 0] /\ nSeq' = 1
    /\ tip' = disk.tip
    /\ candidates' = {x \in LoadedLinks \ (disk.failedValid \cup disk.failedChild) :
                         ~WorseBySequence([b \in Blocks |-> 0], x, disk.tip)}
    /\ dirty' = {}
    /\ refused' = {} /\ rejected' = {} /\ replays' = {}
    /\ checked' = {}
    /\ calls' = {NewCall}
    /\ op' = Free
    /\ UNCHANGED disk
-----------------------------------------------------------------------------
\* The steps of the threads that are under way.
Progress ==
    \/ \E b \in Blocks : \/ RefuseBlock(b) \/ AcceptDuplicate(b)
                         \/ FailContextualCheck(b) \/ FailStakeCheck(b)
                         \/ AcceptBlock(b) \/ ReconsiderCheckpoint(b)
    \/ \E c \in calls : NothingToActivate(c) \/ BeginStep(c) \/ EndActivate(c)
    \/ DisconnectTip \/ FinishDisconnect
    \/ ConnectTip \/ ConnectTipFlushing \/ FinishConnect \/ InvalidBlockFound
    \/ InvalidateTip \/ FinishInvalidate
    \/ \E R \in replays : \E b \in R : ReplayReconsider(R, b)
    \/ BeginReplay \/ ReplayTip \/ FinishReplay
    \/ FinishFlush

\* What peers, users, the clock and the machine do.
Environment ==
    \/ \E b \in Blocks : \/ CheckNewBlock(b) \/ Invalidate(b) \/ Reconsider(b)
                         \/ BeginRefusing(b) \/ EndRefusing(b)
    \/ BeginFlush
    \/ Restart

Next == Progress \/ Environment

Spec == Init /\ [][Next]_vars

\* Threads that are under way go on: ActivateBestChain retries its TRY_LOCK
\* until it has cs_main, and every holder gives it back.
FairSpec == Spec /\ WF_vars(Progress)
-----------------------------------------------------------------------------
(* Properties.                                                             *)

\* Type invariant.
TypeOK ==
    /\ linked \subseteq data /\ data \subseteq known /\ known \subseteq Blocks
    /\ unlinked \subseteq data \ linked
    /\ Failed \subseteq known /\ dirty \subseteq known
    /\ candidates \subseteq known /\ tip \in known
    /\ seq \in [Blocks -> 0 .. nSeq - 1]
    /\ disk.data \subseteq disk.known /\ disk.known \subseteq known
    /\ refused \subseteq Blocks /\ rejected \subseteq Blocks /\ checked \subseteq Blocks
    /\ \A c \in calls : {c.pblock, c.target} \subseteq Blocks \cup {NoBlock}

\* CheckBlockIndex: nChainTx is set exactly where the block and all its
\* ancestors have their data, whatever the order the blocks came in, and the
\* others that have data wait in mapBlocksUnlinked; and FindMostWorkChain's
\* assert(pindexTest->nChainTx): a candidate can be walked down to the active
\* chain over blocks that are all there.
LinksAreExact ==
    /\ TypeOK
    /\ linked = {x \in known : Anc[x] \subseteq data}
    /\ unlinked = data \ linked
    /\ candidates \subseteq linked

\* No call is under way.
AtRest == op = Free /\ calls = {} /\ replays = {}

\* ReconsiderBlock makes no candidates of the ancestors that it clears, and
\* blocks that CheckBlock refuses for a lock or for their payee fail or pass as
\* the lock and the masternode data come and go.
Undisturbed == used.reconsider = 0 /\ used.refuse = 0

\* A crash inside InvalidateBlock leaves marks on disk above which the chain
\* is not undone: the tip that the restart finds is then above a failed block,
\* or failed itself.
Uninterrupted == used.crash = 0 \/ used.invalidate = 0

\* CheckBlockIndex: a block that beats or equals the tip and has no failed
\* ancestor is in setBlockIndexCandidates, once every call has returned.
NoCandidateForgotten ==
    AtRest /\ Undisturbed /\ Uninterrupted =>
        \A x \in linked : ~Worse(x, tip) /\ Anc[x] \cap failedValid = {} => x \in candidates

\* ActivateBestChain's promise, "either failure or an activated best chain":
\* once every call has returned, no block that is there with all its ancestors
\* and not marked failed has more work than the tip.
BestChainActivated ==
    AtRest /\ Undisturbed /\ Uninterrupted =>
        \A x \in known : Anc[x] \subseteq data \ Failed => ChainWork[x] <= ChainWork[tip]

\* A block marked failed is not in the active chain once InvalidateBlock or
\* the step that found it invalid has given cs_main back, nor after a restart.
ActiveChainHasNotFailed == op = Free /\ Uninterrupted => Active \cap Failed = {}

\* The coins on disk never run ahead of the block index on disk: what a
\* restart takes for the tip is an entry it has loaded with all its ancestors'
\* data.
DiskTipIsIndexed == Anc[disk.tip] \subseteq disk.data

\* PruneBlockIndexCandidates' assertion, at a connected block and at startup.
\* (A node that died inside InvalidateBlock may find a failed tip on disk.)
PruneLeavesACandidate ==
    [][ConnectTip \/ FinishConnect \/ (Restart /\ used.invalidate = 0) => candidates' # {}]_vars

\* CheckBlockIndex: "The failed mask cannot be set for blocks without invalid
\* parents", in memory and, after a crash, from disk, as long as no block is
\* reconsidered: ReconsiderBlock clears the ancestors of its block and leaves
\* FAILED_CHILD on the other branches above them.
FailedHasInvalidAncestor ==
    Undisturbed => \A x \in Failed : Anc[x] \cap failedValid # {}

\* Every call of ActivateBestChain returns: a branch that fails is not tried
\* for ever.
CallsReturn == calls # {} ~> calls = {}
=============================================================================
