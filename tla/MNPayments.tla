----------------------------- MODULE MNPayments -----------------------------
(***************************************************************************)
(* The payment votes of a masternode network as one node keeps them        *)
(* (src/masternode-payments.cpp): CMasternodePayments with the votes, the  *)
(* tally of each height that is kept beside them, the file mnpayments.dat, *)
(* and the two uses of the tally: FillBlockPayee for a block the node      *)
(* stakes and IsTransactionValid for a block it checks.                    *)
(*                                                                         *)
(* Two threads add votes, the message handler and the staker, which both   *)
(* process blocks; a third cleans the list.  AddWinningMasternode stores a *)
(* vote under its locks and counts it after it has given them up.          *)
(***************************************************************************)
EXTENDS Integers, Sequences, FiniteSets

CONSTANTS
  Masternodes,  \* the masternodes that this node knows
  Me,           \* the node's own masternode
  Payees,       \* the scripts that can be paid
  NoPayee,      \* the empty script of a vote without a payee
  None,         \* no vote, no block
  TopRanked,    \* the pairs <<masternode, height>> ranked in the top ten
  Unranked,     \* those without a rank (GetMasternodeRank returns -1)
  Required,     \* MNPAYMENTS_SIGNATURES_REQUIRED
  Ahead,        \* 10: how far ahead a masternode votes
  Beyond,       \* 20: how far ahead a vote is taken
  Back,         \* the number of enabled masternodes * 1.25
  Keep,         \* nLimit of CleanPaymentList
  MaxHeight     \* the bound on heights

VARIABLES
  votes,      \* mapMasternodePayeeVotes
  blocks,     \* mapMasternodeBlocks: the payees of a height in the order of
              \* their first vote, and the votes of each
  lastVote,   \* mapMasternodesLastVote, 0 for none
  ownLast,    \* nLastBlockHeight
  tip,        \* chainActive.Height()
  height,     \* mnodeman.GetBestHeight()
  adding,     \* per thread: the vote it has stored and not yet counted
  rpc,        \* invalidateblock or reconsiderblock: what it still has to do,
              \* and the height of the chain that it has read
  staked,     \* the block that the staker has filled and not yet submitted
  file,       \* mnpayments.dat
  torn,       \* ghost: heights where a vote was cleaned or saved uncounted
  peak,       \* ghost: the highest best height since the block was filled
  sunk        \* ghost: the best height has gone back too far since then

chainVars == <<tip, height, rpc>>
ghosts == <<torn, peak, sunk>>
payVars == <<votes, blocks, lastVote, ownLast, chainVars, adding, staked, file, ghosts>>

Threads == {"msg", "stake"}

Heights == 0 .. MaxHeight

\* The heights that votes are about; 0 is the height of a vote without payee.
VoteHeights == 0 .. MaxHeight + Beyond

Scripts == Payees \cup {NoPayee}

\* CMasternodePaymentWinner; its hash covers exactly these fields.
Winners == [mn : Masternodes, height : VoteHeights, payee : Scripts]

\* A vote on its way, and the height for which ProcessBlock cast it (0: a
\* vote of another masternode).
Adding == [vote : Winners, own : VoteHeights]

\* A block of the staker: its height, its payee, and whether the payee had
\* the required votes when the block was filled.
StakedBlocks == [h : Heights, p : Scripts, strong : BOOLEAN]

ASSUME PaymentsAssumption ==
  /\ Required \in Nat \ {0} /\ Ahead \in Nat \ {0}
  /\ Beyond \in Nat /\ Ahead <= Beyond
  /\ Back \in Nat /\ Keep \in Nat /\ Back <= Keep /\ MaxHeight \in Nat
  /\ Me \in Masternodes /\ NoPayee \notin Payees
  /\ None \notin Adding /\ None \notin StakedBlocks

\* CMasternodeBlockPayees without votes.
NoPayees == [order |-> <<>>, tally |-> [p \in Scripts |-> 0]]

NoCommand == [at |-> "idle", h |-> 0]

NoFile == [votes |-> {}, blocks |-> [h \in VoteHeights |-> NoPayees], torn |-> {}]

PaymentsInit ==
  /\ votes = {} /\ blocks = NoFile.blocks /\ torn = {}
  /\ lastVote = [m \in Masternodes |-> 0]
  /\ ownLast = 0 /\ tip = 0 /\ height = 0 /\ rpc = NoCommand
  /\ peak = 0 /\ sunk = FALSE
  /\ adding = [t \in Threads |-> None]
  /\ staked = None /\ file = NoFile

-----------------------------------------------------------------------------
\* CMasternodeBlockPayees::AddPayee.
AddPayee(b, p) ==
  [order |-> IF \E i \in DOMAIN b.order : b.order[i] = p THEN b.order
             ELSE Append(b.order, p),
   tally |-> [b.tally EXCEPT ![p] = @ + 1]]

\* CMasternodeBlockPayees::GetPayee: the first with the most votes.
GetPayee(b) ==
  LET i == CHOOSE i \in DOMAIN b.order :
             /\ \A j \in DOMAIN b.order : b.tally[b.order[j]] <= b.tally[b.order[i]]
             /\ \A j \in 1 .. i - 1 : b.tally[b.order[j]] < b.tally[b.order[i]]
  IN b.order[i]

\* CMasternodePayments::IsTransactionValid for a block that pays p: a payee
\* with enough votes is paid, or nobody has enough.
IsTransactionValid(h, p) ==
  \/ blocks[h].tally[p] >= Required
  \/ \A q \in Scripts : blocks[h].tally[q] < Required

\* CMasternodePaymentWinner::IsValid, for a masternode that is known and runs
\* the protocol; one without a rank is not refused.
IsValid(v) == <<v.mn, v.height>> \in TopRanked \cup Unranked

\* CanVote; the caller records the vote.
CanVote(v) == lastVote[v.mn] # v.height

\* Votes for a height of the past are taken however old it is.
InRangeEver(v) == v.height <= height + Beyond

InRange(v) == v.height >= height - Back /\ v.height <= height + Beyond

\* What AddWinningMasternode looks at before it stores a vote.
Addable(v, best) == v.height - 100 <= best + 1 /\ v \notin votes

\* AddWinningMasternode up to the end of its critical section.
AddWinningMasternode(t, v, own) ==
  /\ votes' = votes \cup {v}
  /\ adding' = [adding EXCEPT ![t] = [vote |-> v, own |-> own]]

\* ProcessMessageMasternodePayments, mnw, for a vote that is not known; `signed'
\* is what CheckSignature finds.
ProcessWinner(v, signed) ==
  /\ adding["msg"] = None
  /\ v \notin votes /\ InRange(v) /\ IsValid(v) /\ CanVote(v)
  /\ lastVote' = [lastVote EXCEPT ![v.mn] = v.height]
  /\ IF signed /\ Addable(v, height) THEN AddWinningMasternode("msg", v, 0)
     ELSE UNCHANGED <<votes, adding>>
  /\ UNCHANGED <<blocks, ownLast, chainVars, staked, file, ghosts>>

\* The end of AddWinningMasternode: the vote is counted; after a vote of its
\* own ProcessBlock remembers the height.
CountVote(t) ==
  /\ adding[t] # None
  /\ LET v == adding[t].vote
     IN blocks' = [blocks EXCEPT ![v.height] = AddPayee(@, v.payee)]
  /\ ownLast' = IF adding[t].own > 0 THEN adding[t].own ELSE ownLast
  /\ adding' = [adding EXCEPT ![t] = None]
  /\ UNCHANGED <<votes, lastVote, chainVars, staked, file, ghosts>>

\* The vote that ProcessBlock signs for height n; p is what the queue of the
\* masternode list gives, NoPayee when it gives nothing or the budget pays.
OwnWinner(n, p) ==
  [mn |-> Me, height |-> IF p = NoPayee THEN 0 ELSE n, payee |-> p]

\* CMasternodeMan::SetBestHeight.  While the staker has a block, the ghosts
\* follow how far the height goes back: a height whose votes were cleaned may
\* come back into the range in which votes are taken.
SetBestHeight(h) ==
  /\ height' = h
  /\ peak' = IF staked' = None THEN 0 ELSE IF h > peak THEN h ELSE peak
  /\ sunk' = (staked' # None /\ (sunk \/ peak - h > Keep - Back))

\* The end of ProcessNewBlock in thread t; h is the height of the tip plus one,
\* read at its start.  `voting': the node is an active masternode and has its
\* list (ProcessBlock is called).
BlockAdded(t, h, voting, p) ==
  /\ adding[t] = None
  /\ SetBestHeight(h)
  /\ LET n == h + Ahead
         v == OwnWinner(n, p)
     IN IF voting /\ <<Me, n>> \in TopRanked /\ n > ownLast /\ Addable(v, h)
        THEN AddWinningMasternode(t, v, n)
        ELSE UNCHANGED <<votes, adding>>
  /\ UNCHANGED <<blocks, lastVote, ownLast, rpc, file, torn>>

\* A block of a peer: it extends the chain or goes to another branch.
BlockArrives(extends, voting, p) ==
  /\ tip < MaxHeight
  /\ UNCHANGED staked
  /\ BlockAdded("msg", tip + 1, voting, p)
  /\ tip' = IF extends THEN tip + 1 ELSE tip

\* invalidateblock disconnects a block, and then perhaps more;
\* reconsiderblock, or ActivateBestChain after an invalidation, connects one.
TipMoves(h) ==
  /\ rpc.at \in {"idle", "due"} /\ h \in Heights \cap {tip - 1, tip + 1}
  /\ tip' = h /\ rpc' = [at |-> "due", h |-> 0]
  /\ UNCHANGED <<votes, blocks, lastVote, ownLast, height, adding, staked, file, ghosts>>

\* The command reads the height of the chain under cs_main
CommandReads ==
  /\ rpc.at = "due" /\ rpc' = [at |-> "read", h |-> tip]
  /\ UNCHANGED <<votes, blocks, lastVote, ownLast, tip, height, adding, staked, file, ghosts>>

\* and tells it to the masternode list without.
CommandSets ==
  /\ rpc.at = "read" /\ rpc' = NoCommand
  /\ UNCHANGED staked
  /\ SetBestHeight(rpc.h)
  /\ UNCHANGED <<votes, blocks, lastVote, ownLast, tip, adding, file, torn>>

\* FillBlockPayee of CreateCoinStake: the payee with the most votes or, without
\* votes, the masternode p that GetCurrentMasterNode picks.
FillBlockPayee(p) ==
  /\ staked = None /\ adding["stake"] = None /\ tip < MaxHeight
  /\ LET b == blocks[tip + 1]
         q == IF b.order = <<>> THEN p ELSE GetPayee(b)
     IN staked' = [h |-> tip + 1, p |-> q, strong |-> b.tally[q] >= Required]
  /\ peak' = height /\ sunk' = FALSE
  /\ UNCHANGED <<votes, blocks, lastVote, ownLast, chainVars, adding, file, torn>>

\* The staker submits its block, which is taken or refused; when the tip has
\* moved since, a block that is taken goes to another branch.
SubmitBlock(taken, voting, p) ==
  /\ staked # None
  /\ staked' = None
  /\ tip' = IF taken /\ staked.h = tip + 1 THEN staked.h ELSE tip
  /\ IF taken THEN tip < MaxHeight /\ BlockAdded("stake", tip + 1, voting, p)
     ELSE UNCHANGED <<votes, blocks, lastVote, ownLast, height, rpc, adding, file, ghosts>>

-----------------------------------------------------------------------------
\* The votes that a thread has stored and not yet counted.
Uncounted == {adding[t].vote : t \in {u \in Threads : adding[u] # None}}

OldVotes(vs, best) == {v \in vs : best - v.height > Keep}

\* The tallies of the votes that are removed are kept.
WithoutNone(bs, old) == bs

\* The tallies without those of the heights that votes in `old' are about.
Without(bs, old) ==
  [h \in VoteHeights |-> IF \E v \in old : v.height = h THEN NoPayees ELSE bs[h]]

CleanPaymentList ==
  LET old == OldVotes(votes, height)
  IN /\ votes' = votes \ old
     /\ blocks' = Without(blocks, old)
     /\ torn' = torn \cup {v.height : v \in old \cap Uncounted}
     /\ UNCHANGED <<lastVote, ownLast, chainVars, adding, staked, file, peak, sunk>>

\* What CMasternodePaymentDB::Write saves.
Saved == [votes |-> votes, blocks |-> blocks,
          torn |-> torn \cup {v.height : v \in Uncounted}]

\* A start from file f with the chain at height h: CMasternodePaymentDB::Read
\* with the clean-up at its end; the rest is not in the file.
Start(f, h) ==
  LET old == OldVotes(f.votes, h)
  IN /\ file' = f /\ torn' = f.torn
     /\ votes' = f.votes \ old /\ blocks' = Without(f.blocks, old)
     /\ lastVote' = [m \in Masternodes |-> 0] /\ ownLast' = 0
     /\ adding' = [t \in Threads |-> None] /\ staked' = None
     /\ tip' = h /\ height' = h /\ rpc' = NoCommand
     /\ peak' = 0 /\ sunk' = FALSE

\* An orderly stop saves the votes after the message handler has stopped, but
\* while the staker may be adding one.
Restart == adding["msg"] = None /\ Start(Saved, tip)

\* After a crash the file is as it was, and the chain where it was last flushed.
Crash(h) == h <= tip /\ Start(file, h)

PaymentsNext ==
  \/ \E v \in Winners, signed \in BOOLEAN : ProcessWinner(v, signed)
  \/ \E t \in Threads : CountVote(t)
  \/ \E extends, voting \in BOOLEAN, p \in Scripts : BlockArrives(extends, voting, p)
  \/ \E p \in Payees : FillBlockPayee(p)
  \/ \E taken, voting \in BOOLEAN, p \in Scripts : SubmitBlock(taken, voting, p)
  \/ CleanPaymentList
  \/ \E h \in Heights : TipMoves(h)
  \/ CommandReads \/ CommandSets
  \/ Restart \/ \E h \in Heights : Crash(h)

-----------------------------------------------------------------------------
BlockPayees == [order : Seq(Scripts), tally : [Scripts -> Nat]]

VotesFor(vs, h, p) == {v \in vs : v.height = h /\ v.payee = p}

\* The tally of a payee is the number of the votes for it that are kept, for
\* every height but those where a vote was cleaned or saved while a thread was
\* still adding it (AddWinningMasternode gives up its locks before AddPayee).
VotesAreCounted ==
  \A h \in VoteHeights \ torn, p \in Scripts :
    blocks[h].tally[p] = Cardinality(VotesFor(votes \ Uncounted, h, p))

\* A block that the staker filled with a payee that had the required votes is
\* good for the node's own check however many votes come in before it is
\* submitted, and also when the votes for it are cleaned in the meantime
\* (FillBlockPayee against IsBlockPayeeValid), unless the best height goes back
\* since then by more than the difference of what CleanPaymentList keeps and
\* what ProcessMessageMasternodePayments takes.
StakedBlockStaysValid ==
  staked # None /\ staked.strong /\ staked.h \notin torn /\ ~sunk =>
    IsTransactionValid(staked.h, staked.p)
=============================================================================
