------------------------- MODULE MasternodesProofs -------------------------
(***************************************************************************)
(* Proofs about the masternode layer.  Masternodes, for every set of       *)
(* masternodes, payees, votes and situations: the tallies of the payment   *)
(* votes, the order of the synchronisation, and the sporks.  SwiftTX, for  *)
(* any number of transactions, inputs, signers and required signatures.    *)
(***************************************************************************)
EXTENDS Masternodes, SwiftTX, FiniteSetTheorems, WellFoundedInduction, TLAPS

\* What the proofs need of the types.
PaymentsTypes ==
  /\ votes \subseteq Winners /\ IsFiniteSet(votes)
  /\ blocks \in [VoteHeights -> BlockPayees]
  /\ ownLast \in VoteHeights /\ tip \in Heights /\ height \in Heights /\ rpc.h \in Heights
  /\ adding \in [Threads -> Adding \cup {None}]
  /\ staked # None => staked.h \in Heights
  /\ torn \subseteq VoteHeights

FileTypes ==
  /\ file.votes \subseteq Winners /\ IsFiniteSet(file.votes)
  /\ file.blocks \in [VoteHeights -> BlockPayees]
  /\ file.torn \subseteq VoteHeights

\* A vote on its way is stored, and on its way in one thread only, unless it
\* has been cleaned.
AddingIsStored ==
  \A t \in Threads : adding[t] # None /\ adding[t].vote.height \notin torn =>
    /\ adding[t].vote \in votes
    /\ \A u \in Threads \ {t} : adding[u] # None => adding[u].vote # adding[t].vote

\* The tallies bs count the votes vs, except for some heights.
TalliesCount(bs, vs, except) ==
  \A h \in VoteHeights \ except, p \in Scripts :
    bs[h].tally[p] = Cardinality(VotesFor(vs, h, p))

\* The inductive invariant of the votes.
VotesInv ==
  /\ PaymentsTypes /\ FileTypes /\ AddingIsStored
  /\ TalliesCount(blocks, votes \ Uncounted, torn)
  /\ TalliesCount(file.blocks, file.votes, file.torn)

-----------------------------------------------------------------------------
\* Heights are natural numbers, and a vote is a record of its three fields.
LEMMA HeightFacts ==
  /\ Heights \subseteq Nat /\ VoteHeights \subseteq Nat /\ Heights \subseteq VoteHeights
  /\ \A h \in Heights : h + Ahead \in VoteHeights
  /\ 0 \in Heights /\ 0 \in VoteHeights
BY PaymentsAssumption DEF PaymentsAssumption, Heights, VoteHeights

\* The tallies of no votes.
LEMMA NoPayeesType == NoPayees \in BlockPayees /\ \A p \in Scripts : NoPayees.tally[p] = 0
BY DEF NoPayees, BlockPayees

\* A vote that is counted raises the tally of its payee by one (AddPayee).
LEMMA AddPayeeFacts ==
  ASSUME NEW b \in BlockPayees, NEW p \in Scripts
  PROVE  /\ AddPayee(b, p) \in BlockPayees
         /\ AddPayee(b, p).tally[p] = b.tally[p] + 1
         /\ \A q \in Scripts \ {p} : AddPayee(b, p).tally[q] = b.tally[q]
BY DEF AddPayee, BlockPayees

\* Cleaning keeps the tallies exact: the votes of a height are removed together
\* (CleanPaymentList).
LEMMA CleaningCounts ==
  ASSUME NEW bs \in [VoteHeights -> BlockPayees], NEW vs \in SUBSET Winners,
         NEW all \in SUBSET Winners, vs \subseteq all,
         NEW except, NEW best \in Heights,
         TalliesCount(bs, vs, except),
         \A v \in all \ vs : best - v.height > Keep => v.height \in except
  PROVE  /\ Without(bs, OldVotes(all, best)) \in [VoteHeights -> BlockPayees]
         /\ TalliesCount(Without(bs, OldVotes(all, best)), vs \ OldVotes(all, best), except)
<1> DEFINE old == OldVotes(all, best)
<1>1. Without(bs, old) \in [VoteHeights -> BlockPayees]
  BY NoPayeesType, Zenon DEF Without
<1>2. ASSUME NEW h \in VoteHeights \ except, NEW p \in Scripts
      PROVE  Without(bs, old)[h].tally[p] = Cardinality(VotesFor(vs \ old, h, p))
  <2>1. CASE \E v \in old : v.height = h
    <3>1. Without(bs, old)[h].tally[p] = 0
      BY <2>1, NoPayeesType, Zenon DEF Without
    <3>2. VotesFor(vs \ old, h, p) = {}
      BY <2>1, Zenon DEF VotesFor, OldVotes
    <3> QED BY <3>1, <3>2, FS_EmptySet, Zenon
  <2>2. CASE ~ \E v \in old : v.height = h
    <3>1. Without(bs, old)[h] = bs[h]
      BY <2>2, Zenon DEF Without
    <3>2. VotesFor(vs \ old, h, p) = VotesFor(vs, h, p)
      BY <2>2, Zenon DEF VotesFor
    <3> QED BY <3>1, <3>2, Zenon DEF TalliesCount
  <2> QED BY <2>1, <2>2, Zenon
<1> QED BY <1>1, <1>2, Zenon DEF TalliesCount

-----------------------------------------------------------------------------
\* A vote that AddWinningMasternode stores is on its way, and the tallies count
\* the others.
LEMMA StoreVote ==
  ASSUME VotesInv, NEW t \in Threads, NEW v \in Winners, NEW own \in VoteHeights,
         adding[t] = None, v \notin votes, AddWinningMasternode(t, v, own),
         UNCHANGED <<blocks, torn, file>>
  PROVE  /\ votes' \subseteq Winners /\ IsFiniteSet(votes')
         /\ adding' \in [Threads -> Adding \cup {None}]
         /\ AddingIsStored' /\ TalliesCount(blocks, votes \ Uncounted, torn)'
<1> DEFINE new == [vote |-> v, own |-> own]
<1>1. new \in Adding /\ new # None
  BY PaymentsAssumption DEF PaymentsAssumption, Adding
<1>2. votes' = votes \cup {v} /\ adding' = [adding EXCEPT ![t] = new]
  BY Zenon DEF AddWinningMasternode
<1>3. votes' \subseteq Winners /\ IsFiniteSet(votes')
  BY <1>2, FS_AddElement, Zenon DEF VotesInv, PaymentsTypes
<1>4. adding' \in [Threads -> Adding \cup {None}]
  BY <1>1, <1>2, Zenon DEF VotesInv, PaymentsTypes
<1>5. adding'[t] = new /\ \A u \in Threads \ {t} : adding'[u] = adding[u]
  BY <1>2, Zenon DEF VotesInv, PaymentsTypes
<1>6. Uncounted' = Uncounted \cup {v}
  BY <1>1, <1>5 DEF Uncounted
<1>7. votes' \ Uncounted' = votes \ Uncounted
  BY <1>2, <1>6, Zenon
<1>8. TalliesCount(blocks, votes \ Uncounted, torn)'
  BY <1>7, Zenon DEF VotesInv, TalliesCount
<1>9. AddingIsStored'
  <2> SUFFICES ASSUME NEW w \in Threads, adding'[w] # None,
                      adding'[w].vote.height \notin torn
               PROVE  /\ adding'[w].vote \in votes'
                      /\ \A u \in Threads \ {w} :
                           adding'[u] # None => adding'[u].vote # adding'[w].vote
    BY Zenon DEF AddingIsStored
  <2>1. CASE w = t
    <3>1. ASSUME NEW u \in Threads \ {w}, adding'[u] # None, adding'[u].vote = v
          PROVE FALSE
      BY <1>1, <1>5, <2>1, <3>1 DEF VotesInv, AddingIsStored
    <3> QED BY <1>1, <1>2, <1>5, <2>1, <3>1
  <2>2. CASE w # t
    <3>1. adding'[w] = adding[w] /\ adding[w].vote \in votes
      BY <1>5, <2>2, Zenon DEF VotesInv, AddingIsStored
    <3>2. ASSUME NEW u \in Threads \ {w}, adding'[u] # None
          PROVE adding'[u].vote # adding'[w].vote
      BY <1>1, <1>5, <2>2, <3>1, <3>2 DEF VotesInv, AddingIsStored
    <3> QED BY <1>2, <3>1, <3>2
  <2> QED BY <2>1, <2>2, Zenon
<1> QED BY <1>3, <1>4, <1>8, <1>9, Zenon

\* AddWinningMasternode counts the vote that it stored.
LEMMA CountVoteCounts ==
  ASSUME VotesInv, NEW t \in Threads, CountVote(t)
  PROVE  /\ blocks' \in [VoteHeights -> BlockPayees]
         /\ ownLast' \in VoteHeights
         /\ adding' \in [Threads -> Adding \cup {None}]
         /\ AddingIsStored' /\ TalliesCount(blocks, votes \ Uncounted, torn)'
<1> DEFINE v == adding[t].vote
<1> USE DEF VotesInv, PaymentsTypes
<1>1. /\ adding[t] # None /\ adding[t] \in Adding /\ v \in Winners
      /\ v.height \in VoteHeights /\ v.payee \in Scripts /\ adding[t].own \in VoteHeights
  BY Zenon DEF CountVote, Adding, Winners
<1>2. /\ blocks' = [blocks EXCEPT ![v.height] = AddPayee(@, v.payee)]
      /\ adding' = [adding EXCEPT ![t] = None]
      /\ votes' = votes /\ torn' = torn
  BY Zenon DEF CountVote, ghosts
<1>3. blocks' \in [VoteHeights -> BlockPayees]
  BY <1>1, <1>2, AddPayeeFacts, Zenon
<1>4. ownLast' \in VoteHeights
  BY <1>1, Zenon DEF CountVote
<1>5. adding' \in [Threads -> Adding \cup {None}]
  BY <1>2, Zenon
<1>6. adding'[t] = None /\ \A u \in Threads \ {t} : adding'[u] = adding[u]
  BY <1>2, Zenon
<1>7. AddingIsStored'
  BY <1>2, <1>6 DEF AddingIsStored
<1>8. TalliesCount(blocks, votes \ Uncounted, torn)'
  <2> SUFFICES ASSUME NEW h \in VoteHeights \ torn, NEW p \in Scripts
               PROVE  blocks'[h].tally[p] = Cardinality(VotesFor(votes \ Uncounted', h, p))
    BY <1>2, Zenon DEF TalliesCount
  <2> DEFINE S == VotesFor(votes \ Uncounted, h, p)
             T == VotesFor(votes \ Uncounted', h, p)
  <2>1. IsFiniteSet(S) /\ blocks[h].tally[p] = Cardinality(S)
    BY FS_Subset DEF TalliesCount, VotesFor
  <2>2. Uncounted = Uncounted' \cup {v}
    BY <1>1, <1>6 DEF Uncounted
  <2>3. CASE h = v.height /\ p = v.payee
    <3>1. v \in votes /\ v \notin Uncounted'
      BY <1>1, <1>6, <2>3 DEF AddingIsStored, Uncounted
    <3>2. T = S \cup {v} /\ v \notin S
      BY <2>2, <2>3, <3>1, Zenon DEF VotesFor
    <3>3. Cardinality(T) = Cardinality(S) + 1
      BY <2>1, <3>2, FS_AddElement, Zenon
    <3>4. blocks'[h].tally[p] = blocks[h].tally[p] + 1
      BY <1>1, <1>2, <2>3, AddPayeeFacts
    <3> QED BY <2>1, <3>3, <3>4, Zenon
  <2>4. CASE ~(h = v.height /\ p = v.payee)
    <3>1. T = S
      BY <2>2, <2>4, Zenon DEF VotesFor
    <3>2. blocks'[h].tally[p] = blocks[h].tally[p]
      <4>1. CASE h # v.height
        <5>1. blocks'[h] = blocks[h]
          BY <1>2, <4>1, Zenon
        <5> QED BY <5>1, Zenon
      <4>2. CASE h = v.height
        <5>1. blocks'[h] = AddPayee(blocks[h], v.payee) /\ p # v.payee
          BY <1>2, <2>4, <4>2, Zenon
        <5> QED BY <1>1, <5>1, AddPayeeFacts
      <4> QED BY <4>1, <4>2, Zenon
    <3> QED BY <2>1, <3>1, <3>2, Zenon
  <2> QED BY <2>3, <2>4, Zenon
<1> QED BY <1>3, <1>4, <1>5, <1>7, <1>8, Zenon

\* A step that leaves the votes, their tallies and the file alone.
LEMMA VotesUntouched ==
  ASSUME VotesInv, UNCHANGED <<votes, blocks, ownLast, adding, file, torn>>,
         tip' \in Heights, height' \in Heights, rpc'.h \in Heights,
         staked' # None => staked'.h \in Heights
  PROVE  VotesInv'
<1>1. Uncounted' = Uncounted
  BY Zenon DEF Uncounted
<1>2. PaymentsTypes' /\ FileTypes'
  BY Zenon DEF VotesInv, PaymentsTypes, FileTypes
<1>3. AddingIsStored'
  BY Zenon DEF VotesInv, AddingIsStored
<1>4. TalliesCount(blocks, votes \ Uncounted, torn)'
  BY <1>1, Zenon DEF VotesInv, TalliesCount
<1>5. TalliesCount(file.blocks, file.votes, file.torn)'
  BY Zenon DEF VotesInv, TalliesCount
<1> QED BY <1>2, <1>3, <1>4, <1>5, Zenon DEF VotesInv

\* A block in either thread (the end of ProcessNewBlock).
LEMMA BlockAddedKeeps ==
  ASSUME VotesInv, NEW t \in Threads, NEW h \in Heights, NEW voting \in BOOLEAN,
         NEW p \in Scripts, BlockAdded(t, h, voting, p),
         tip' \in Heights, staked' # None => staked'.h \in Heights
  PROVE  VotesInv'
<1>1. /\ adding[t] = None /\ height' = h
      /\ UNCHANGED <<blocks, lastVote, ownLast, rpc, file, torn>>
  BY Zenon DEF BlockAdded, SetBestHeight
<1>2. CASE UNCHANGED <<votes, adding>>
  <2>1. rpc'.h \in Heights
    BY <1>1, Zenon DEF VotesInv, PaymentsTypes
  <2> QED BY <1>1, <1>2, <2>1, VotesUntouched, Zenon
<1>3. CASE ~UNCHANGED <<votes, adding>>
  <2> DEFINE n == h + Ahead
             v == OwnWinner(n, p)
  <2>1. v \notin votes /\ AddWinningMasternode(t, v, n)
    BY <1>3, Zenon DEF BlockAdded, Addable
  <2>2. v \in Winners /\ n \in VoteHeights
    BY HeightFacts, PaymentsAssumption, Zenon DEF PaymentsAssumption, OwnWinner, Winners
  <2>3. /\ votes' \subseteq Winners /\ IsFiniteSet(votes')
        /\ adding' \in [Threads -> Adding \cup {None}]
        /\ AddingIsStored' /\ TalliesCount(blocks, votes \ Uncounted, torn)'
    BY <1>1, <2>1, <2>2, StoreVote, Zenon
  <2> QED BY <1>1, <2>3, Zenon DEF VotesInv, PaymentsTypes, FileTypes, TalliesCount
<1> QED BY <1>2, <1>3, Zenon

\* A start from a file whose tallies count its votes (CMasternodePaymentDB::Read).
LEMMA StartKeeps ==
  ASSUME NEW f, NEW h \in Heights, Start(f, h),
         f.votes \subseteq Winners, IsFiniteSet(f.votes),
         f.blocks \in [VoteHeights -> BlockPayees], f.torn \subseteq VoteHeights,
         TalliesCount(f.blocks, f.votes, f.torn)
  PROVE  VotesInv'
<1> DEFINE old == OldVotes(f.votes, h)
<1>1. /\ file' = f /\ torn' = f.torn /\ votes' = f.votes \ old
      /\ blocks' = Without(f.blocks, old) /\ ownLast' = 0 /\ tip' = h /\ height' = h
      /\ adding' = [t \in Threads |-> None] /\ staked' = None /\ rpc'.h = 0
  BY Zenon DEF Start, NoCommand
<1>2. /\ blocks' \in [VoteHeights -> BlockPayees]
      /\ TalliesCount(Without(f.blocks, old), f.votes \ old, f.torn)
  BY <1>1, CleaningCounts, Zenon
<1>3. Uncounted' = {}
  BY <1>1, Zenon DEF Uncounted
<1>4. PaymentsTypes' /\ FileTypes'
  <2>1. f.votes \ old \subseteq Winners /\ IsFiniteSet(f.votes \ old)
    BY FS_Subset, Zenon
  <2> HIDE DEF old
  <2> QED BY <1>1, <1>2, <2>1, HeightFacts, Zenon DEF PaymentsTypes, FileTypes
<1>5. AddingIsStored'
  BY <1>1, Zenon DEF AddingIsStored
<1>6. TalliesCount(blocks, votes \ Uncounted, torn)'
  <2>1. votes' \ Uncounted' = f.votes \ old
    BY <1>1, <1>3, Zenon
  <2> QED BY <1>1, <1>2, <2>1, Zenon DEF TalliesCount
<1>7. TalliesCount(file.blocks, file.votes, file.torn)'
  BY <1>1, Zenon DEF TalliesCount
<1> QED BY <1>4, <1>5, <1>6, <1>7, Zenon DEF VotesInv

\* A vote from the network.
LEMMA ProcessWinnerKeeps ==
  ASSUME VotesInv, NEW v \in Winners, NEW signed \in BOOLEAN, ProcessWinner(v, signed)
  PROVE  VotesInv'
<1>1. /\ adding["msg"] = None /\ v \notin votes /\ "msg" \in Threads
      /\ UNCHANGED <<blocks, ownLast, tip, height, rpc, staked, file, torn>>
  BY Zenon DEF ProcessWinner, chainVars, ghosts, Threads
<1>2. CASE UNCHANGED <<votes, adding>>
  <2>1. /\ tip' \in Heights /\ height' \in Heights /\ rpc'.h \in Heights
        /\ staked' # None => staked'.h \in Heights
    BY <1>1, Zenon DEF VotesInv, PaymentsTypes
  <2> QED BY <1>1, <1>2, <2>1, VotesUntouched, Zenon
<1>3. CASE AddWinningMasternode("msg", v, 0)
  <2>1. /\ votes' \subseteq Winners /\ IsFiniteSet(votes')
        /\ adding' \in [Threads -> Adding \cup {None}]
        /\ AddingIsStored' /\ TalliesCount(blocks, votes \ Uncounted, torn)'
    BY <1>1, <1>3, StoreVote, HeightFacts, Zenon
  <2> QED BY <1>1, <2>1, Zenon DEF VotesInv, PaymentsTypes, FileTypes, TalliesCount
<1> QED BY <1>2, <1>3, Zenon DEF ProcessWinner

\* The clean-up of the masternode thread.
LEMMA CleanKeeps ==
  ASSUME VotesInv, CleanPaymentList
  PROVE  VotesInv'
<1> DEFINE old == OldVotes(votes, height)
           gone == {v.height : v \in old \cap Uncounted}
           vs == votes \ Uncounted
<1> USE DEF VotesInv, PaymentsTypes
<1>1. /\ votes' = votes \ old /\ blocks' = Without(blocks, old) /\ torn' = torn \cup gone
      /\ UNCHANGED <<lastVote, ownLast, tip, height, rpc, adding, staked, file>>
  BY Zenon DEF CleanPaymentList, chainVars
<1>2. gone \subseteq VoteHeights
  BY Zenon DEF OldVotes, Winners
<1>3. TalliesCount(blocks, vs, torn \cup gone)
  BY Zenon DEF TalliesCount
<1>4. \A v \in votes \ vs : height - v.height > Keep => v.height \in torn \cup gone
  BY Zenon DEF OldVotes
<1>5. /\ blocks' \in [VoteHeights -> BlockPayees]
      /\ TalliesCount(Without(blocks, old), vs \ old, torn \cup gone)
  BY <1>1, <1>3, <1>4, CleaningCounts, Zenon
<1>6. Uncounted' = Uncounted
  BY <1>1, Zenon DEF Uncounted
<1>7. TalliesCount(blocks, votes \ Uncounted, torn)'
  <2>1. votes' \ Uncounted' = vs \ old
    BY <1>1, <1>6, Zenon
  <2> QED BY <1>1, <1>5, <2>1, Zenon DEF TalliesCount
<1>8. AddingIsStored'
  <2> SUFFICES ASSUME NEW t \in Threads, adding[t] # None,
                      adding[t].vote.height \notin torn \cup gone
               PROVE  /\ adding[t].vote \in votes'
                      /\ \A u \in Threads \ {t} :
                           adding[u] # None => adding[u].vote # adding[t].vote
    BY <1>1, Zenon DEF AddingIsStored
  <2>1. adding[t].vote \in votes /\ adding[t].vote \in Uncounted
    BY Zenon DEF AddingIsStored, Uncounted
  <2>2. adding[t].vote \notin old
    BY <2>1, Zenon
  <2> QED BY <1>1, <2>1, <2>2, Zenon DEF AddingIsStored
<1>9. PaymentsTypes'
  BY <1>1, <1>2, <1>5, FS_Subset, Zenon
<1> QED BY <1>1, <1>7, <1>8, <1>9, Zenon DEF FileTypes, TalliesCount

\* An orderly stop saves tallies that count the votes it saves, but for the
\* heights of votes on their way (CMasternodePaymentDB::Write).
LEMMA RestartKeeps ==
  ASSUME VotesInv, Restart
  PROVE  VotesInv'
<1> DEFINE way == {v.height : v \in Uncounted}
<1> USE DEF VotesInv, PaymentsTypes
<1>1. way \subseteq VoteHeights
  BY Zenon DEF Uncounted, Adding, Winners
<1>2. TalliesCount(blocks, votes, torn \cup way)
  <2> SUFFICES ASSUME NEW h \in VoteHeights \ (torn \cup way), NEW p \in Scripts
               PROVE  blocks[h].tally[p] = Cardinality(VotesFor(votes, h, p))
    BY Zenon DEF TalliesCount
  <2>1. VotesFor(votes, h, p) = VotesFor(votes \ Uncounted, h, p)
    BY Zenon DEF VotesFor
  <2> QED BY <2>1, Zenon DEF TalliesCount
<1>3. /\ Saved.votes = votes /\ Saved.blocks = blocks /\ Saved.torn = torn \cup way
  BY Zenon DEF Saved
<1>4. Start(Saved, tip)
  BY Zenon DEF Restart
<1> HIDE DEF VotesInv
<1> QED BY <1>1, <1>2, <1>3, <1>4, StartKeeps, Zenon DEF VotesInv

\* Every step of MNPayments keeps the invariant.
LEMMA PaymentsStep ==
  ASSUME VotesInv, [PaymentsNext]_payVars
  PROVE  VotesInv'
<1>1. ASSUME NEW v \in Winners, NEW signed \in BOOLEAN, ProcessWinner(v, signed)
      PROVE  VotesInv'
  BY <1>1, ProcessWinnerKeeps, Zenon
<1>2. ASSUME NEW t \in Threads, CountVote(t)
      PROVE  VotesInv'
  <2>1. UNCHANGED <<votes, lastVote, tip, height, rpc, staked, file, torn>>
    BY <1>2, Zenon DEF CountVote, chainVars, ghosts
  <2> QED BY <1>2, <2>1, CountVoteCounts, Zenon DEF VotesInv, PaymentsTypes, FileTypes, TalliesCount
<1>3. ASSUME NEW extends \in BOOLEAN, NEW voting \in BOOLEAN, NEW p \in Scripts,
             BlockArrives(extends, voting, p)
      PROVE  VotesInv'
  <2>1. tip \in Heights /\ tip < MaxHeight /\ (staked # None => staked.h \in Heights)
    BY <1>3, Zenon DEF BlockArrives, VotesInv, PaymentsTypes
  <2>2. tip + 1 \in Heights /\ tip' \in Heights /\ staked' = staked
    BY <1>3, <2>1, PaymentsAssumption DEF PaymentsAssumption, Heights, BlockArrives
  <2> QED BY <1>3, <2>1, <2>2, BlockAddedKeeps, Zenon DEF BlockArrives, Threads
<1>4. ASSUME NEW p \in Payees, FillBlockPayee(p)
      PROVE  VotesInv'
  <2>1. tip \in Heights /\ height \in Heights /\ tip < MaxHeight /\ staked'.h = tip + 1
    BY <1>4, Zenon DEF FillBlockPayee, VotesInv, PaymentsTypes
  <2>2. tip + 1 \in Heights
    BY <2>1, PaymentsAssumption DEF PaymentsAssumption, Heights
  <2>3. UNCHANGED <<votes, blocks, lastVote, ownLast, tip, height, rpc, adding, file, torn>>
    BY <1>4, Zenon DEF FillBlockPayee, chainVars
  <2>4. rpc'.h \in Heights
    BY <2>3, Zenon DEF VotesInv, PaymentsTypes
  <2> QED BY <2>1, <2>2, <2>3, <2>4, VotesUntouched, Zenon
<1>5. ASSUME NEW taken \in BOOLEAN, NEW voting \in BOOLEAN, NEW p \in Scripts,
             SubmitBlock(taken, voting, p)
      PROVE  VotesInv'
  <2>1. /\ staked # None /\ staked' = None /\ tip' \in Heights
        /\ tip \in Heights /\ height \in Heights /\ rpc.h \in Heights
    BY <1>5, Zenon DEF SubmitBlock, VotesInv, PaymentsTypes
  <2>2. CASE taken
    <3>1. tip + 1 \in Heights /\ BlockAdded("stake", tip + 1, voting, p)
      BY <1>5, <2>1, <2>2, PaymentsAssumption DEF PaymentsAssumption, Heights, SubmitBlock
    <3> QED BY <2>1, <3>1, BlockAddedKeeps, Zenon DEF Threads
  <2>3. CASE ~taken
    <3>1. UNCHANGED <<votes, blocks, ownLast, height, rpc, adding, file, torn>>
      BY <1>5, <2>3, Zenon DEF SubmitBlock, ghosts
    <3> QED BY <2>1, <3>1, VotesUntouched, Zenon
  <2> QED BY <2>2, <2>3, Zenon
<1>6. ASSUME (\E h \in Heights : TipMoves(h)) \/ CommandReads \/ CommandSets
      PROVE  VotesInv'
  <2>1. /\ UNCHANGED <<votes, blocks, ownLast, adding, staked, file, torn>>
        /\ height' \in {height, rpc.h} /\ (tip' = tip \/ tip' \in Heights)
        /\ rpc'.h \in {0, tip}
    <3>1. ASSUME NEW h \in Heights, TipMoves(h)
          PROVE  /\ UNCHANGED <<votes, blocks, ownLast, height, adding, staked, file, torn>>
                 /\ tip' \in Heights /\ rpc'.h = 0
      BY <3>1, Zenon DEF TipMoves, ghosts
    <3>2. CASE CommandReads
      BY <3>2, Zenon DEF CommandReads, ghosts
    <3>3. CASE CommandSets
      BY <3>3, Zenon DEF CommandSets, SetBestHeight, NoCommand
    <3> QED BY <1>6, <3>1, <3>2, <3>3, Zenon
  <2>2. /\ tip' \in Heights /\ height' \in Heights /\ rpc'.h \in Heights
        /\ staked' # None => staked'.h \in Heights
    BY <2>1, HeightFacts, Zenon DEF VotesInv, PaymentsTypes
  <2> QED BY <2>1, <2>2, VotesUntouched, Zenon
<1>7. ASSUME NEW h \in Heights, Crash(h)
      PROVE  VotesInv'
  BY <1>7, StartKeeps, Zenon DEF Crash, VotesInv, FileTypes
<1>8. CASE UNCHANGED payVars
  <2>1. UNCHANGED <<votes, blocks, ownLast, tip, height, rpc, adding, staked, file, torn>>
    BY <1>8, Zenon DEF payVars, chainVars, ghosts
  <2>2. /\ tip' \in Heights /\ height' \in Heights /\ rpc'.h \in Heights
        /\ staked' # None => staked'.h \in Heights
    BY <2>1, Zenon DEF VotesInv, PaymentsTypes
  <2> QED BY <2>1, <2>2, VotesUntouched, Zenon
<1> QED BY <1>1, <1>2, <1>3, <1>4, <1>5, <1>6, <1>7, <1>8, CleanKeeps, RestartKeeps
        DEF PaymentsNext

\* The votes start empty.
LEMMA PaymentsStart == PaymentsInit => VotesInv
<1> SUFFICES ASSUME PaymentsInit PROVE VotesInv
  BY Zenon
<1>1. /\ votes = {} /\ blocks = [h \in VoteHeights |-> NoPayees] /\ torn = {} /\ staked = None
      /\ adding = [t \in Threads |-> None] /\ ownLast = 0 /\ tip = 0 /\ height = 0
      /\ rpc.h = 0 /\ file.votes = {} /\ file.blocks = [h \in VoteHeights |-> NoPayees] /\ file.torn = {}
  BY Zenon DEF PaymentsInit, NoFile, NoCommand
<1>2. IsFiniteSet({}) /\ Cardinality({}) = 0
  BY FS_EmptySet, Zenon
<1>3. PaymentsTypes /\ FileTypes
  BY <1>1, <1>2, NoPayeesType, HeightFacts DEF PaymentsTypes, FileTypes
<1>4. TalliesCount([h \in VoteHeights |-> NoPayees], {}, {})
  <2>1. \A h, p : VotesFor({}, h, p) = {}
    BY Zenon DEF VotesFor
  <2> QED BY <1>2, <2>1, NoPayeesType, Zenon DEF TalliesCount
<1>5. votes \ Uncounted = {}
  BY <1>1, Zenon
<1>6. AddingIsStored
  BY <1>1, Zenon DEF AddingIsStored
<1> QED BY <1>1, <1>3, <1>4, <1>5, <1>6, Zenon DEF VotesInv

-----------------------------------------------------------------------------
\* Each step of the composed node is a step of MNPayments for the votes, in a
\* situation that stays the same.
LEMMA StepIsPaymentsStep ==
  ASSUME world \in Worlds, [Next]_vars
  PROVE  world' \in Worlds /\ [PaymentsNext]_payVars
<1>1. world.cast \subseteq Winners /\ world.queue \subseteq Scripts
  BY WorldsAssumption, Zenon DEF WorldsAssumption
<1>2. ASSUME NEW i \in Items, ItemArrives(i) PROVE world' = world /\ UNCHANGED payVars
  BY <1>2, Zenon DEF ItemArrives, Steady
<1>3. ASSUME NEW v \in world.cast, NEW signed \in BOOLEAN, WinnerArrives(v, signed)
      PROVE  world' = world /\ [PaymentsNext]_payVars
  BY <1>1, <1>3, Zenon DEF WinnerArrives, Steady, PaymentsNext
<1>4. ASSUME NEW extends \in BOOLEAN, NEW p \in world.queue, PeerBlock(extends, p)
      PROVE  world' = world /\ PaymentsNext
  <2>1. \E voting \in BOOLEAN : BlockArrives(extends, voting, p)
    BY <1>4, Zenon DEF PeerBlock
  <2> QED BY <1>1, <1>4, <2>1, Zenon DEF PeerBlock, Steady, PaymentsNext
<1>5. ASSUME NEW p \in world.queue \cap Payees, StakeBlock(p)
      PROVE  world' = world /\ PaymentsNext
  BY <1>5, Zenon DEF StakeBlock, Steady, PaymentsNext
<1>6. ASSUME NEW taken \in BOOLEAN, NEW p \in world.queue, StakedBlock(taken, p)
      PROVE  world' = world /\ PaymentsNext
  BY <1>1, <1>6, Zenon DEF StakedBlock, Steady, PaymentsNext
<1>7. ASSUME NEW t \in Threads, Count(t) PROVE world' = world /\ PaymentsNext
  BY <1>7, Zenon DEF Count, Steady, PaymentsNext
<1>8. CASE Clean \/ Command
  BY <1>8, Zenon DEF Clean, Command, Steady, PaymentsNext
<1>9. CASE SyncStep
  BY <1>9, Zenon DEF SyncStep, Steady
<1>10. ASSUME NEW t \in Times, SporkArrives(t) \/ SporkCommand(t)
       PROVE  world' = world /\ UNCHANGED payVars
  BY <1>10, Zenon DEF SporkArrives, SporkCommand, Steady
<1>11. CASE Disturb
  BY <1>11, Zenon DEF Disturb, Disturbance, PaymentsNext
<1>12. CASE UNCHANGED vars
  BY <1>12, Zenon DEF vars
<1> QED BY <1>2, <1>3, <1>4, <1>5, <1>6, <1>7, <1>8, <1>9, <1>10, <1>11, <1>12 DEF Next

\* The tally of every payee is the number of its votes, whatever votes and
\* blocks come in which threads, through cleaning, stops and crashes
\* (AddWinningMasternode, CleanPaymentList, CMasternodePaymentDB).
THEOREM VotesStayCounted == Spec => []VotesAreCounted
<1> DEFINE Inv == VotesInv /\ world \in Worlds
<1>1. Init => Inv
  BY PaymentsStart, Zenon DEF Init
<1>2. Inv /\ [Next]_vars => Inv'
  BY PaymentsStep, StepIsPaymentsStep, Zenon
<1>3. Inv => VotesAreCounted
  BY Zenon DEF VotesInv, TalliesCount, VotesAreCounted
<1> QED BY <1>1, <1>2, <1>3, PTL DEF Spec

-----------------------------------------------------------------------------
\* The order of the natural numbers.
Before == {e \in Nat \X Nat : e[1] < e[2]}

\* A set of natural numbers has a least element.
LEMMA LeastNumber ==
  ASSUME NEW T, T \subseteq Nat, T # {}
  PROVE  \E k \in T : \A j \in T : k <= j
<1>1. IsWellFoundedOn(Before, Nat)
  BY NatLessThanWellFounded, Zenon DEF Before, OpToRel
<1>2. \E k \in T : \A j \in T : ~(<<j, k>> \in Before)
  BY <1>1, WFMin, Zenon
<1>3. PICK k \in T : \A j \in T : ~(<<j, k>> \in Before)
  BY <1>2, Zenon
<1>4. ASSUME NEW j \in T PROVE k <= j
  <2>1. <<j, k>> \notin Before /\ j \in Nat /\ k \in Nat
    BY <1>3, Zenon
  <2> QED BY <2>1 DEF Before
<1> QED BY <1>4, Zenon

\* Of the payees of a height there is a first one with the most votes, and it
\* is the one that GetPayee returns.
LEMMA GetPayeeIsPayee ==
  ASSUME NEW b \in BlockPayees, b.order # <<>>
  PROVE  GetPayee(b) \in Scripts
<1> DEFINE f[j \in DOMAIN b.order] == b.tally[b.order[j]]
           n == Len(b.order)
           Upto(k) == \E i \in 1 .. k : \A j \in 1 .. k : f[j] <= f[i]
<1>1. /\ DOMAIN b.order = 1 .. n /\ n \in Nat /\ n > 0
      /\ \A j \in 1 .. n : b.order[j] \in Scripts
  BY DEF BlockPayees
<1>2. \A j \in 1 .. n : f[j] = b.tally[b.order[j]] /\ f[j] \in Nat
  BY <1>1 DEF BlockPayees
<1> HIDE DEF f, n
<1>3. \A k \in 1 .. n : Upto(k)
  <2> SUFFICES ASSUME {k \in 1 .. n : ~Upto(k)} # {} PROVE FALSE
    BY Zenon
  <2>1. PICK k \in 1 .. n : ~Upto(k) /\ \A j \in 1 .. n : ~Upto(j) => k <= j
    <3>1. {j \in 1 .. n : ~Upto(j)} \subseteq Nat
      BY <1>1
    <3> HIDE DEF Upto
    <3> QED BY <3>1, LeastNumber, Zenon
  <2>2. CASE k = 1
    BY <1>1, <1>2, <2>1, <2>2
  <2>3. CASE k # 1
    <3>1. k - 1 \in 1 .. n /\ k - 1 < k
      BY <1>1, <2>3
    <3>2. Upto(k - 1)
      <4> HIDE DEF Upto
      <4> QED BY <1>1, <2>1, <3>1
    <3>3. PICK i \in 1 .. k - 1 : \A j \in 1 .. k - 1 : f[j] <= f[i]
      BY <3>2, Zenon
    <3>4. /\ \A j \in 1 .. k : j \in 1 .. k - 1 \/ j = k
          /\ i \in 1 .. k /\ k \in 1 .. k
          /\ f[i] \in Nat /\ f[k] \in Nat
          /\ \A j \in 1 .. k - 1 : f[j] \in Nat
      BY <1>1, <1>2, <3>1
    <3>5. CASE f[k] <= f[i]
      <4>1. \A j \in 1 .. k : f[j] <= f[i]
        BY <3>3, <3>4, <3>5, Zenon
      <4> QED BY <2>1, <3>4, <4>1, Zenon
    <3>6. CASE f[i] <= f[k]
      <4>1. ASSUME NEW j \in 1 .. k - 1 PROVE f[j] <= f[k]
        <5>1. f[j] <= f[i] /\ f[j] \in Nat /\ f[i] \in Nat /\ f[k] \in Nat
          BY <3>3, <3>4, Zenon
        <5>2. \A x, y, z \in Nat : x <= y /\ y <= z => x <= z
          OBVIOUS
        <5> QED BY <3>6, <5>1, <5>2, Zenon
      <4>2. f[k] <= f[k]
        BY <3>4
      <4>3. \A j \in 1 .. k : f[j] <= f[k]
        BY <3>4, <4>1, <4>2, Zenon
      <4> QED BY <2>1, <3>4, <4>3, Zenon
    <3> QED BY <3>4, <3>5, <3>6, SMTT(20)
  <2> QED BY <2>2, <2>3
<1> DEFINE T == {i \in 1 .. n : \A j \in 1 .. n : f[j] <= f[i]}
<1>4. PICK i \in T : \A j \in T : i <= j
  <2>1. T \subseteq Nat /\ T # {}
    BY <1>1, <1>3
  <2> QED BY <2>1, LeastNumber, Zenon
<1>5. \A j \in 1 .. i - 1 : f[j] < f[i]
  <2> SUFFICES ASSUME NEW j \in 1 .. i - 1, ~(f[j] < f[i]) PROVE FALSE
    OBVIOUS
  <2>1. j \in 1 .. n /\ j < i /\ f[j] \in Nat /\ f[i] \in Nat
    BY <1>1, <1>2, <1>4
  <2>2. j \in T
    BY <1>2, <1>4, <2>1
  <2> QED BY <1>1, <1>4, <2>1, <2>2
<1>6. /\ i \in DOMAIN b.order
      /\ \A j \in DOMAIN b.order : b.tally[b.order[j]] <= b.tally[b.order[i]]
      /\ \A j \in 1 .. i - 1 : b.tally[b.order[j]] < b.tally[b.order[i]]
  <2>1. \A j \in 1 .. i - 1 : j \in 1 .. n
    BY <1>1, <1>4
  <2> QED BY <1>1, <1>2, <1>4, <1>5, <2>1
<1>7. GetPayee(b) \in {b.order[j] : j \in DOMAIN b.order}
  BY <1>6, Zenon DEF GetPayee
<1> QED BY <1>1, <1>7

-----------------------------------------------------------------------------
\* The votes of a height are gone for good: the list of masternodes has gone on
\* too far for new ones, and no thread is adding one.
Forgotten(h) ==
  /\ \A q \in Scripts : blocks[h].tally[q] = 0
  /\ \A t \in Threads : adding[t] # None => adding[t].vote.height # h
  /\ h + Keep < peak

\* The payee of the staker's block has the votes, or they have been forgotten.
StakeIsGood ==
  staked.strong /\ staked.h \notin torn /\ ~sunk =>
    blocks[staked.h].tally[staked.p] >= Required \/ Forgotten(staked.h)

\* The inductive invariant of the block that the staker has filled; unless the
\* best height has sunk, it is not far below its peak.
StakeInv ==
  staked # None =>
    /\ staked.h \in Nat \ {0} /\ staked.p \in Scripts
    /\ peak \in Nat /\ height <= peak
    /\ ~sunk => peak - height <= Keep - Back
    /\ StakeIsGood

\* The numbers that the steps compare.
LEMMA StakeNumbers ==
  ASSUME VotesInv
  PROVE  /\ tip \in Nat /\ height \in Nat /\ rpc.h \in Nat
         /\ Back \in Nat /\ Keep \in Nat /\ Ahead \in Nat \ {0} /\ Required \in Nat \ {0}
         /\ staked # None => staked.h \in VoteHeights
BY HeightFacts, PaymentsAssumption, Zenon DEF PaymentsAssumption, VotesInv, PaymentsTypes

\* A step that leaves the best height alone and keeps the staker's block.
LEMMA StakeFrame ==
  ASSUME StakeInv, UNCHANGED <<height, peak, sunk, staked>>,
         staked # None => StakeIsGood'
  PROVE  StakeInv'
BY Zenon DEF StakeInv

\* What SetBestHeight does to the range while the staker has a block.
LEMMA BestHeightMoves ==
  ASSUME VotesInv, StakeInv, NEW h \in Nat, SetBestHeight(h), staked' = staked, staked # None
  PROVE  /\ height' = h /\ peak' \in Nat /\ peak <= peak' /\ height' <= peak'
         /\ ~sunk' => ~sunk /\ peak' - height' <= Keep - Back
<1>1. peak \in Nat /\ Keep \in Nat /\ Back \in Nat /\ Back <= Keep
  BY PaymentsAssumption, Zenon DEF PaymentsAssumption, StakeInv
<1>2. /\ height' = h /\ peak' = (IF h > peak THEN h ELSE peak)
      /\ sunk' <=> sunk \/ peak - h > Keep - Back
  BY Zenon DEF SetBestHeight
<1>3. CASE h > peak
  <2>1. peak' = h
    BY <1>2, <1>3, Zenon
  <2> QED BY <1>1, <1>2, <1>3, <2>1
<1>4. CASE ~(h > peak)
  <2>1. peak' = peak
    BY <1>2, <1>4, Zenon
  <2> QED BY <1>1, <1>2, <1>4, <2>1
<1> QED BY <1>3, <1>4, Zenon

\* A vote from the network is not about a height that is forgotten.
LEMMA ProcessWinnerStake ==
  ASSUME VotesInv, StakeInv, NEW v \in Winners, NEW signed \in BOOLEAN, ProcessWinner(v, signed)
  PROVE  StakeInv'
<1> DEFINE new == [vote |-> v, own |-> 0]
<1>1. /\ UNCHANGED <<blocks, height, staked, torn, peak, sunk>> /\ InRange(v)
      /\ adding' = adding \/ adding' = [adding EXCEPT !["msg"] = new]
  BY Zenon DEF ProcessWinner, AddWinningMasternode, chainVars, ghosts
<1>2. ASSUME staked # None, Forgotten(staked.h), ~sunk
      PROVE  Forgotten(staked.h)'
  <2>1. /\ staked.h \in Nat /\ staked.h + Keep < peak /\ peak - height <= Keep - Back
        /\ peak \in Nat /\ v.height \in Nat /\ v.height >= height - Back
    BY <1>1, <1>2, HeightFacts, Zenon DEF StakeInv, Forgotten, InRange, Winners
  <2>2. v.height # staked.h
    BY <2>1, StakeNumbers
  <2>3. \A t \in Threads : adding'[t] # None => adding'[t].vote.height # staked.h
    <3>1. \A t \in Threads : adding'[t] = adding[t] \/ adding'[t] = new
      BY <1>1, Zenon DEF VotesInv, PaymentsTypes
    <3>2. new.vote.height # staked.h
      BY <2>2, Zenon
    <3> HIDE DEF new
    <3> QED BY <1>2, <3>1, <3>2, Zenon DEF Forgotten
  <2> QED BY <1>1, <1>2, <2>3, Zenon DEF Forgotten
<1>3. staked # None => StakeIsGood'
  BY <1>1, <1>2, Zenon DEF StakeInv, StakeIsGood
<1> QED BY <1>1, <1>3, StakeFrame, Zenon

\* Counting a vote takes none from the payee of the staker's block.
LEMMA CountVoteStake ==
  ASSUME VotesInv, StakeInv, NEW t \in Threads, CountVote(t)
  PROVE  StakeInv'
<1> DEFINE v == adding[t].vote
<1>1. /\ UNCHANGED <<height, staked, torn, peak, sunk>>
      /\ blocks' = [blocks EXCEPT ![v.height] = AddPayee(@, v.payee)]
      /\ adding' = [adding EXCEPT ![t] = None] /\ adding[t] # None
  BY Zenon DEF CountVote, chainVars, ghosts
<1>2. v.height \in VoteHeights /\ v.payee \in Scripts /\ blocks \in [VoteHeights -> BlockPayees]
  BY <1>1, Zenon DEF VotesInv, PaymentsTypes, Adding, Winners
<1>4. ASSUME staked # None, blocks[staked.h].tally[staked.p] >= Required
      PROVE  blocks'[staked.h].tally[staked.p] >= Required
  <2>1. staked.h \in VoteHeights /\ staked.p \in Scripts /\ Required \in Nat
    BY <1>4, StakeNumbers, Zenon DEF StakeInv
  <2>2. CASE staked.h = v.height
    <3>1. blocks'[staked.h] = AddPayee(blocks[staked.h], v.payee) /\ blocks[staked.h] \in BlockPayees
      BY <1>1, <1>2, <2>2, Zenon
    <3>2. blocks[staked.h].tally[staked.p] \in Nat
      BY <2>1, <3>1 DEF BlockPayees
    <3>3. \/ blocks'[staked.h].tally[staked.p] = blocks[staked.h].tally[staked.p]
          \/ blocks'[staked.h].tally[staked.p] = blocks[staked.h].tally[staked.p] + 1
      BY <1>2, <2>1, <3>1, AddPayeeFacts, SMTT(20)
    <3> QED BY <1>4, <2>1, <3>2, <3>3, SMTT(20)
  <2>3. CASE staked.h # v.height
    <3>1. blocks'[staked.h] = blocks[staked.h]
      BY <1>1, <1>2, <2>1, <2>3, Zenon
    <3> QED BY <1>4, <3>1, Zenon
  <2> QED BY <2>2, <2>3, Zenon
<1>5. ASSUME staked # None, Forgotten(staked.h)
      PROVE  Forgotten(staked.h)'
  <2>1. staked.h # v.height /\ staked.h \in VoteHeights
    BY <1>1, <1>5, StakeNumbers, Zenon DEF Forgotten
  <2>2. blocks'[staked.h] = blocks[staked.h]
    BY <1>1, <1>2, <2>1, Zenon
  <2>3. \A u \in Threads : adding'[u] # None => adding'[u] = adding[u]
    BY <1>1, Zenon DEF VotesInv, PaymentsTypes
  <2> QED BY <1>1, <1>5, <2>2, <2>3, Zenon DEF Forgotten
<1>6. staked # None => StakeIsGood'
  BY <1>1, <1>4, <1>5, Zenon DEF StakeInv, StakeIsGood
<1> QED BY <1>1, <1>6, StakeFrame, Zenon

\* A height whose votes are forgotten is below what is voted for next.
LEMMA HeightIsAhead ==
  \A h, keep, back, ahead, n, x, y \in Nat :
    h + keep < x /\ x <= y /\ y - (n + 1) <= keep - back =>
      h + keep < y /\ h # n + 1 + ahead
OBVIOUS

\* A block of a peer: the node's own vote is about a later height, or none.
LEMMA BlockArrivesStake ==
  ASSUME VotesInv, StakeInv, NEW extends \in BOOLEAN,
         NEW voting \in BOOLEAN, NEW p \in Scripts, BlockArrives(extends, voting, p)
  PROVE  StakeInv'
<1> DEFINE v == OwnWinner(tip + 1 + Ahead, p)
           new == [vote |-> v, own |-> tip + 1 + Ahead]
<1> SUFFICES ASSUME staked' # None PROVE StakeInv'
  BY Zenon DEF StakeInv
<1>1. /\ UNCHANGED <<blocks, staked, torn>> /\ SetBestHeight(tip + 1)
      /\ adding' = adding \/ adding' = [adding EXCEPT !["msg"] = new]
  BY Zenon DEF BlockArrives, BlockAdded, AddWinningMasternode
<1>2. /\ tip \in Nat /\ tip + 1 \in Nat /\ Back \in Nat /\ Keep \in Nat /\ Ahead \in Nat \ {0}
  BY StakeNumbers
<1>3. /\ height' = tip + 1 /\ peak' \in Nat /\ peak <= peak' /\ height' <= peak'
      /\ ~sunk' => ~sunk /\ peak' - height' <= Keep - Back
  BY <1>1, <1>2, BestHeightMoves, Zenon
<1>4. staked.h \in Nat \ {0} /\ staked.p \in Scripts /\ peak \in Nat
  BY <1>1, Zenon DEF StakeInv
<1>5. ASSUME Forgotten(staked.h), ~sunk'
      PROVE  Forgotten(staked.h)'
  <2>1. staked.h + Keep < peak
    BY <1>5, Zenon DEF Forgotten
  <2>2. staked.h + Keep < peak' /\ staked.h # tip + 1 + Ahead /\ staked.h # 0
    <3>1. peak' - (tip + 1) <= Keep - Back /\ peak <= peak' /\ peak' \in Nat
      BY <1>3, <1>5, Zenon
    <3>2. /\ staked.h \in Nat /\ staked.h # 0 /\ peak \in Nat
          /\ Keep \in Nat /\ Back \in Nat /\ tip \in Nat /\ Ahead \in Nat
      BY <1>2, <1>4, Zenon
    <3> QED BY <2>1, <3>1, <3>2, HeightIsAhead, Zenon
  <2>3. v.height # staked.h
    BY <2>2, Zenon DEF OwnWinner
  <2>4. \A t \in Threads : adding'[t] # None => adding'[t].vote.height # staked.h
    <3>1. \A t \in Threads : adding'[t] = adding[t] \/ adding'[t] = new
      BY <1>1, Zenon DEF VotesInv, PaymentsTypes
    <3>2. new.vote.height # staked.h
      BY <2>3, Zenon
    <3> HIDE DEF new
    <3> QED BY <1>5, <3>1, <3>2, Zenon DEF Forgotten
  <2> QED BY <1>1, <1>5, <2>2, <2>4, Zenon DEF Forgotten
<1>6. StakeIsGood'
  BY <1>1, <1>3, <1>5, Zenon DEF StakeInv, StakeIsGood
<1> QED BY <1>1, <1>3, <1>4, <1>6, Zenon DEF StakeInv

\* The commands that move the tip, and tell the masternode list later.
LEMMA CommandStake ==
  ASSUME VotesInv, StakeInv, (\E h \in Heights : TipMoves(h)) \/ CommandReads \/ CommandSets
  PROVE  StakeInv'
<1> SUFFICES ASSUME staked' # None PROVE StakeInv'
  BY Zenon DEF StakeInv
<1>1. UNCHANGED <<blocks, adding, staked, torn>>
  BY Zenon DEF TipMoves, CommandReads, CommandSets, ghosts
<1>2. CASE UNCHANGED <<height, peak, sunk>>
  <2>1. StakeIsGood'
    BY <1>1, <1>2, Zenon DEF StakeInv, StakeIsGood, Forgotten
  <2> QED BY <1>1, <1>2, <2>1, StakeFrame, Zenon
<1>3. CASE SetBestHeight(rpc.h)
  <2>1. rpc.h \in Nat /\ Keep \in Nat
    BY StakeNumbers, Zenon
  <2>2. /\ peak' \in Nat /\ peak <= peak' /\ height' <= peak'
        /\ ~sunk' => ~sunk /\ peak' - height' <= Keep - Back
    BY <1>1, <1>3, <2>1, BestHeightMoves, Zenon
  <2>3. staked.h \in Nat \ {0} /\ staked.p \in Scripts /\ peak \in Nat
    BY <1>1, Zenon DEF StakeInv
  <2>4. staked.h + Keep < peak => staked.h + Keep < peak'
    BY <2>1, <2>2, <2>3
  <2>5. StakeIsGood'
    BY <1>1, <2>2, <2>4, Zenon DEF StakeInv, StakeIsGood, Forgotten
  <2> QED BY <1>1, <2>2, <2>3, <2>5, Zenon DEF StakeInv
<1> QED BY <1>2, <1>3, Zenon DEF TipMoves, CommandReads, CommandSets, ghosts

\* The staker fills a block: `strong' says that its payee has the votes.
LEMMA FillStake ==
  ASSUME VotesInv, StakeInv, NEW p \in Payees, FillBlockPayee(p)
  PROVE  StakeInv'
<1> DEFINE b == blocks[tip + 1]
           q == IF b.order = <<>> THEN p ELSE GetPayee(b)
<1>1. /\ UNCHANGED <<blocks, height>> /\ tip < MaxHeight /\ peak' = height
      /\ staked' = [h |-> tip + 1, p |-> q, strong |-> b.tally[q] >= Required]
  BY Zenon DEF FillBlockPayee, chainVars
<1>2. tip \in Nat /\ height \in Nat /\ tip \in Heights
  BY StakeNumbers, Zenon DEF VotesInv, PaymentsTypes
<1>3. /\ tip + 1 \in Nat \ {0} /\ tip + 1 \in VoteHeights /\ height <= height
      /\ height - height <= Keep - Back
  BY <1>1, <1>2, PaymentsAssumption DEF PaymentsAssumption, Heights, VoteHeights
<1>4. q \in Scripts
  <2>1. b \in BlockPayees
    BY <1>3, Zenon DEF VotesInv, PaymentsTypes
  <2> HIDE DEF b
  <2> QED BY <2>1, GetPayeeIsPayee, Zenon DEF Scripts
<1> HIDE DEF q
<1>5. /\ staked'.h = tip + 1 /\ staked'.p = q
      /\ staked'.strong => blocks'[tip + 1].tally[q] >= Required
  BY <1>1, Zenon
<1>6. StakeIsGood'
  BY <1>5, Zenon DEF StakeIsGood
<1> QED BY <1>1, <1>2, <1>3, <1>4, <1>5, <1>6, Zenon DEF StakeInv

\* When the votes of the staker's block are cleaned they are forgotten, unless a
\* thread is still adding one (CleanPaymentList).
LEMMA CleanStake ==
  ASSUME VotesInv, StakeInv, CleanPaymentList
  PROVE  StakeInv'
<1> DEFINE old == OldVotes(votes, height)
<1>1. /\ UNCHANGED <<height, adding, staked, peak, sunk>>
      /\ blocks' = Without(blocks, old)
      /\ torn' = torn \cup {v.height : v \in old \cap Uncounted}
  BY Zenon DEF CleanPaymentList, chainVars
<1>2. ASSUME staked # None, staked.strong, staked.h \notin torn', ~sunk
      PROVE  blocks'[staked.h].tally[staked.p] >= Required \/ Forgotten(staked.h)'
  <2>1. staked.h \in VoteHeights /\ staked.h \notin torn
    BY <1>1, <1>2, StakeNumbers, Zenon
  <2>2. CASE ~ \E v \in old : v.height = staked.h
    <3>1. blocks'[staked.h] = blocks[staked.h]
      BY <1>1, <2>1, <2>2, Zenon DEF Without
    <3>2. Forgotten(staked.h) => Forgotten(staked.h)'
      BY <1>1, <3>1, Zenon DEF Forgotten
    <3> QED BY <1>2, <2>1, <3>1, <3>2, Zenon DEF StakeInv, StakeIsGood
  <2>3. ASSUME NEW v \in old, v.height = staked.h PROVE Forgotten(staked.h)'
    <3>1. \A q \in Scripts : blocks'[staked.h].tally[q] = 0
      BY <1>1, <2>1, <2>3, NoPayeesType, Zenon DEF Without
    <3>2. height - staked.h > Keep
      BY <2>3, Zenon DEF OldVotes
    <3>3. ASSUME NEW t \in Threads, adding[t] # None, adding[t].vote.height = staked.h
          PROVE  FALSE
      <4>1. adding[t].vote \in votes /\ adding[t].vote \in Uncounted
        BY <2>1, <3>3, Zenon DEF VotesInv, AddingIsStored, Uncounted
      <4>2. adding[t].vote \in old
        BY <3>2, <3>3, <4>1, Zenon DEF OldVotes
      <4> QED BY <1>1, <1>2, <3>3, <4>1, <4>2, Zenon
    <3>4. staked.h + Keep < peak
      <4>1. /\ staked.h \in Nat /\ height <= peak
            /\ peak \in Nat /\ height \in Nat /\ Keep \in Nat
        BY <1>2, StakeNumbers, Zenon DEF StakeInv
      <4> QED BY <3>2, <4>1
    <3> QED BY <1>1, <3>1, <3>3, <3>4, Zenon DEF Forgotten
  <2> QED BY <2>2, <2>3, Zenon
<1>3. staked # None => StakeIsGood'
  BY <1>1, <1>2, Zenon DEF StakeIsGood
<1> QED BY <1>1, <1>3, StakeFrame, Zenon

\* Every step of MNPayments keeps the invariant; after a submission or a start
\* the staker has no block.
LEMMA StakeStep ==
  ASSUME VotesInv, StakeInv, [PaymentsNext]_payVars
  PROVE  StakeInv'
<1>1. ASSUME NEW taken, NEW voting, NEW p, SubmitBlock(taken, voting, p)
      PROVE  StakeInv'
  BY <1>1, Zenon DEF SubmitBlock, StakeInv
<1>2. ASSUME NEW f, NEW h, Start(f, h) PROVE StakeInv'
  BY <1>2, Zenon DEF Start, StakeInv
<1>3. CASE UNCHANGED payVars
  <2>1. UNCHANGED <<blocks, height, adding, staked, torn, peak, sunk>>
    BY <1>3, Zenon DEF payVars, chainVars, ghosts
  <2>2. staked # None => StakeIsGood'
    BY <2>1, Zenon DEF StakeInv, StakeIsGood, Forgotten
  <2> QED BY <2>1, <2>2, StakeFrame, Zenon
<1> QED BY <1>1, <1>2, <1>3, ProcessWinnerStake, CountVoteStake, BlockArrivesStake, CommandStake,
        FillStake, CleanStake, Zenon DEF PaymentsNext, Restart, Crash

\* A block that was filled with a payee that had the required votes passes the
\* node's own check until it is submitted, whatever votes and blocks come and
\* whatever is cleaned meanwhile, unless the best height goes back so far that
\* votes for a cleaned height are taken again (FillBlockPayee,
\* IsTransactionValid, CleanPaymentList, SetBestHeight).
THEOREM StakedStaysPayable == Spec => []StakedBlockStaysValid
<1> DEFINE Inv == VotesInv /\ StakeInv /\ world \in Worlds
<1>1. Init => Inv
  BY PaymentsStart, Zenon DEF Init, PaymentsInit, StakeInv
<1>2. Inv /\ [Next]_vars => Inv'
  BY PaymentsStep, StepIsPaymentsStep, StakeStep, Zenon
<1>3. Inv => StakedBlockStaysValid
  <2> SUFFICES ASSUME Inv, staked # None, staked.strong, staked.h \notin torn, ~sunk
               PROVE  IsTransactionValid(staked.h, staked.p)
    BY Zenon DEF StakedBlockStaysValid
  <2>1. CASE blocks[staked.h].tally[staked.p] >= Required
    BY <2>1, Zenon DEF IsTransactionValid
  <2>2. CASE Forgotten(staked.h)
    <3>1. Required \in Nat \ {0}
      BY StakeNumbers, Zenon
    <3>2. \A q \in Scripts : blocks[staked.h].tally[q] = 0
      BY <2>2, Zenon DEF Forgotten
    <3>3. 0 < Required
      BY <3>1
    <3> QED BY <3>2, <3>3, Zenon DEF IsTransactionValid
  <2> QED BY <2>1, <2>2, Zenon DEF StakeInv, StakeIsGood
<1> QED BY <1>1, <1>2, <1>3, PTL DEF Spec

-----------------------------------------------------------------------------
\* What the synchronisation knows of the chain at each stage: the stages after
\* the list need a recent chain, and the list is asked for with one.
Fields == {"stage", "attempt", "since", "failure", "age", "seen", "chain", "overdue"}

SyncRecord(s) == s = [f \in Fields |-> s[f]]

LateStages == {"mnw", "budget", "finished"}

HasChain(s) == s.stage \in LateStages => s.chain

SyncInv ==
  /\ SyncRecord(sync) /\ HasChain(sync)
  /\ process = "ask" /\ sync.stage = "list" => sync.chain

LEMMA ResetFacts ==
  /\ SyncRecord(Reset) /\ Reset.stage = "initial"
  /\ SyncRecord(GetNextAsset(Reset)) /\ GetNextAsset(Reset).stage = "sporks"
BY Zenon DEF SyncRecord, Reset, GetNextAsset, Following, Fields

\* IsBlockchainSynced leaves the stage and the chain alone or resets.
LEMMA PolledFacts ==
  ASSUME NEW s, SyncRecord(s), NEW lock \in BOOLEAN
  PROVE  /\ SyncRecord(Polled(s, lock))
         /\ \/ Polled(s, lock).stage = "initial"
            \/ Polled(s, lock).stage = s.stage /\ (s.chain => Polled(s, lock).chain)
<1>1. CASE s.overdue
  BY <1>1, ResetFacts, Zenon DEF Polled, SyncRecord, Fields
<1>2. CASE ~s.overdue
  BY <1>2, Zenon DEF Polled, SyncRecord, Fields
<1> QED BY <1>1, <1>2, Zenon

LEMMA AddedFacts ==
  ASSUME NEW s, SyncRecord(s), NEW i
  PROVE  /\ SyncRecord(Added(s, i))
         /\ Added(s, i).stage = s.stage /\ Added(s, i).chain = s.chain
BY Zenon DEF Added, SyncRecord, Fields

LEMMA LaterFacts ==
  ASSUME NEW s, SyncRecord(s)
  PROVE  /\ SyncRecord(Later(s))
         /\ Later(s).stage = s.stage /\ Later(s).chain = s.chain
BY Zenon DEF Later, SyncRecord, Fields

LEMMA NextAssetFacts ==
  ASSUME NEW s, SyncRecord(s)
  PROVE  /\ SyncRecord(GetNextAsset(s)) /\ GetNextAsset(s).chain = s.chain
         /\ GetNextAsset(s).stage = Following[s.stage]
BY Zenon DEF GetNextAsset, SyncRecord, Fields

\* Both parts of Process keep it.
LEMMA ProcessKeeps ==
  ASSUME SyncInv, NEW lock \in BOOLEAN, Process(lock)
  PROVE  SyncInv'
<1> DEFINE s == Later(sync)
           t == Begun(s)
           u == Polled(t, lock)
<1>1. SyncRecord(s) /\ s.stage = sync.stage /\ s.chain = sync.chain
  BY LaterFacts, Zenon DEF SyncInv
<1>2. /\ SyncRecord(t) /\ HasChain(t)
  <2>1. s.stage = "initial" => SyncRecord(GetNextAsset(s)) /\ GetNextAsset(s).stage = "sporks"
    BY <1>1, NextAssetFacts DEF Following
  <2>2. t \in {GetNextAsset(Reset), s} \/ (s.stage = "initial" /\ t = GetNextAsset(s))
    BY Zenon DEF Begun
  <2> QED BY <1>1, <2>1, <2>2, ResetFacts, Zenon DEF SyncInv, HasChain, LateStages
<1>3. SyncRecord(u) /\ HasChain(u)
  BY <1>2, PolledFacts, Zenon DEF HasChain, LateStages
<1>4. CASE Returns(s)
  <2>1. sync' = s /\ process' = "idle"
    BY <1>4, Zenon DEF Process
  <2> QED BY <1>1, <2>1, Zenon DEF SyncInv, HasChain
<1>5. CASE ~Returns(s)
  <2>1. sync' = u /\ process' = IF Waits(u) THEN "idle" ELSE "ask"
    BY <1>5, Zenon DEF Process
  <2> QED BY <1>3, <2>1, Zenon DEF SyncInv, HasChain, Waits
<1> QED BY <1>4, <1>5, Zenon

LEMMA SyncWithNodeKeeps ==
  ASSUME SyncInv, SyncWithNode
  PROVE  SyncInv'
<1>1. process' = "idle" /\ process = "ask"
  BY Zenon DEF SyncWithNode
<1>2. sync.stage = "list" => sync.chain
  BY <1>1, Zenon DEF SyncInv
<1>3. CASE Advances(sync) /\ sync' = GetNextAsset(sync)
  <2>1. sync.stage \in Assets
    BY <1>3, Zenon DEF Advances
  <2> QED BY <1>1, <1>2, <1>3, <2>1, NextAssetFacts, Zenon
          DEF SyncInv, HasChain, LateStages, Following, Assets
<1>4. CASE Askable(sync) /\ sync' = Requested(sync)
  <2>1. sync.stage \in {"sporks", "list", "mnw", "budget"}
    BY <1>4, Zenon DEF Askable, RequestOf
  <2>2. SyncRecord(GetNextAsset(sync)) /\ GetNextAsset(sync).chain = sync.chain
        /\ GetNextAsset(sync).stage = Following[sync.stage]
    BY <2>1, NextAssetFacts, Zenon DEF SyncInv, Following
  <2>3. ASSUME NEW s, SyncRecord(s)
        PROVE  /\ SyncRecord(Counted(s)) /\ Counted(s).stage = s.stage
               /\ Counted(s).chain = s.chain
    BY <2>3, Zenon DEF Counted, SyncRecord, Fields
  <2>4. SyncRecord(Failed(sync)) /\ Failed(sync).stage = "failed"
    BY Zenon DEF SyncInv, Failed, SyncRecord, Fields
  <2>5. CASE sync.stage = "sporks"
    <3>1. sync' \in {Counted(GetNextAsset(sync)), Counted(sync)}
      BY <1>4, <2>5, Zenon DEF Requested
    <3>2. Following[sync.stage] = "list"
      BY <2>5 DEF Following
    <3> QED BY <1>1, <2>2, <2>3, <2>5, <3>1, <3>2 DEF SyncInv, HasChain, LateStages
  <2>6. CASE sync.stage \in {"list", "mnw", "budget"}
    <3>1. sync' \in {Failed(sync), GetNextAsset(sync), sync, Counted(sync)}
      BY <1>4, <2>6, Zenon DEF Requested
    <3>2. sync.chain
      BY <1>2, <2>6, Zenon DEF SyncInv, HasChain, LateStages
    <3> QED BY <1>1, <2>2, <2>3, <2>4, <3>1, <3>2, Zenon DEF SyncInv, HasChain, LateStages
  <2> QED BY <2>1, <2>5, <2>6, Zenon
<1>5. CASE sync' = sync
  BY <1>1, <1>5, Zenon DEF SyncInv, HasChain
<1> QED BY <1>3, <1>4, <1>5, Zenon DEF SyncWithNode

\* What a handler of the message thread does with the synchronisation.
LEMMA HandlerKeeps ==
  ASSUME SyncInv, NEW lock \in BOOLEAN, NEW i, process' = process,
         sync' \in {Polled(sync, lock), Added(Polled(sync, lock), i)}
  PROVE  SyncInv'
<1> DEFINE s == Polled(sync, lock)
<1>1. /\ SyncRecord(s)
      /\ s.stage = "initial" \/ (s.stage = sync.stage /\ (sync.chain => s.chain))
  BY PolledFacts, Zenon DEF SyncInv
<1>2. /\ SyncRecord(Added(s, i))
      /\ Added(s, i).stage = s.stage /\ Added(s, i).chain = s.chain
  BY <1>1, AddedFacts, Zenon
<1>3. SyncRecord(sync') /\ sync'.stage = s.stage /\ sync'.chain = s.chain
  BY <1>1, <1>2, Zenon
<1> HIDE DEF s
<1> QED BY <1>1, <1>3, Zenon DEF SyncInv, HasChain, LateStages

LEMMA SyncStepKeeps ==
  ASSUME SyncInv, [Next]_vars
  PROVE  SyncInv'
<1>1. ASSUME NEW i \in Items, ItemArrives(i) PROVE SyncInv'
  <2>1. process' = process /\ sync' \in {Polled(sync, TRUE), Added(Polled(sync, TRUE), i)}
    BY <1>1, Zenon DEF ItemArrives
  <2> QED BY <2>1, HandlerKeeps, Zenon
<1>2. ASSUME NEW v \in world.cast, NEW signed \in BOOLEAN, WinnerArrives(v, signed)
      PROVE  SyncInv'
  <2>1. process' = process /\ sync' \in {Polled(sync, TRUE), Added(Polled(sync, TRUE), v)}
    BY <1>2, Zenon DEF WinnerArrives
  <2> QED BY <2>1, HandlerKeeps, Zenon
<1>3. CASE UNCHANGED <<sync, process>>
  BY <1>3, Zenon DEF SyncInv, HasChain
<1>4. ASSUME NEW s, SyncRecord(s), s.stage = sync.stage, s.chain = sync.chain,
             sync' = s, process' = process
      PROVE  SyncInv'
  BY <1>4, Zenon DEF SyncInv, HasChain
<1>5. CASE Clean
  <2> DEFINE n == [i \in Items |-> IF i \in votes \ votes' THEN 0 ELSE sync.seen[i]]
             s == [sync EXCEPT !.seen = n]
  <2>1. sync' = s /\ process' = process
    BY <1>5, Zenon DEF Clean
  <2> HIDE DEF n
  <2>2. SyncRecord(s) /\ s.stage = sync.stage /\ s.chain = sync.chain
    BY Zenon DEF SyncInv, SyncRecord, Fields
  <2> QED BY <1>4, <2>1, <2>2, Zenon
<1>6. CASE SyncStep
  <2>1. ASSUME NEW lock \in BOOLEAN, Poll(lock) PROVE SyncInv'
    BY <2>1, HandlerKeeps, Zenon DEF Poll
  <2>2. CASE TipIsRecent \/ Connect \/ StoreSpork \/ WriteSpork
    BY <1>3, <2>2, Zenon DEF TipIsRecent, Connect, StoreSpork, WriteSpork
  <2> QED BY <1>6, <2>1, <2>2, ProcessKeeps, SyncWithNodeKeeps, Zenon DEF SyncStep
<1>7. CASE Disturb
  <2>1. CASE Sleep
    <3> DEFINE s == [sync EXCEPT !.overdue = TRUE]
    <3>1. sync' = s /\ process' = process
      BY <2>1, Zenon DEF Sleep
    <3>2. SyncRecord(s) /\ s.stage = sync.stage /\ s.chain = sync.chain
      BY Zenon DEF SyncInv, SyncRecord, Fields
    <3> QED BY <1>4, <3>1, <3>2, Zenon
  <2>2. CASE ResetCommand \/ SyncRestart
    BY <2>2, ResetFacts, Zenon DEF ResetCommand, SyncRestart, SyncInv, HasChain, LateStages
  <2>3. CASE MasternodesExpire \/ (\E k \in 1 .. conn : Disconnect(k)) \/ UNCHANGED syncVars
    BY <1>3, <2>3, Zenon DEF MasternodesExpire, Disconnect, syncVars
  <2> QED BY <1>7, <2>1, <2>2, <2>3, Zenon DEF Disturb
<1>8. ASSUME NEW t, SporkArrives(t) \/ SporkCommand(t)
      PROVE  SyncInv'
  BY <1>3, <1>8, Zenon DEF SporkArrives, SporkCommand, CheckSpork, UpdateSpork
<1>9. CASE UNCHANGED syncVars
  BY <1>3, <1>9, Zenon DEF syncVars
<1> QED BY <1>1, <1>2, <1>5, <1>6, <1>7, <1>8, <1>9
        DEF Next, PeerBlock, StakeBlock, StakedBlock, Command, Count, vars

\* The payments and budgets are never taken as synchronised on a chain that was
\* not seen recent since the last reset, however sleeps, resets and restarts
\* meet the two parts of Process (CMasternodeSync).
THEOREM SyncedNodeHasChain == Spec => []SyncedHasChain
<1>1. Init => SyncInv
  <2> SUFFICES ASSUME Init PROVE SyncInv
    BY Zenon
  <2>1. process = "idle"
    BY Zenon DEF Init
  <2>2. CASE sync = Synced
    <3>1. SyncRecord(Synced) /\ Synced.chain = TRUE
      BY ResetFacts, Zenon DEF Synced, SyncRecord, Fields
    <3> QED BY <2>1, <2>2, <3>1, Zenon DEF SyncInv, HasChain
  <2>3. CASE sync = Reset
    BY <2>1, <2>3, ResetFacts, Zenon DEF SyncInv, HasChain, LateStages
  <2> QED BY <2>2, <2>3, Zenon DEF Init
<1>2. SyncInv /\ [Next]_vars => SyncInv'
  BY SyncStepKeeps, Zenon
<1>3. SyncInv => SyncedHasChain
  BY Zenon DEF SyncInv, HasChain, LateStages, SyncedHasChain
<1> QED BY <1>1, <1>2, <1>3, PTL DEF Spec

-----------------------------------------------------------------------------
\* A spork that has passed the check is later than the one in force, and the
\* database is behind only between the store and the write of ProcessSpork.
SporkInv ==
  /\ spork \in Int /\ sporkDB \in Int /\ disturbed \in Int /\ world \in Worlds
  /\ checking \in [at : {"idle", "checked", "stored"}, time : Int]
  /\ ~world.key =>
       /\ checking.at # "stored" => sporkDB = spork
       /\ checking.at = "stored" => spork = checking.time
       /\ checking.at = "checked" => checking.time > spork

sporkVars == <<spork, sporkDB, checking, disturbed, world>>

LEMMA TimesAreIntegers == Times \subseteq Int
BY SyncAssumption DEF SyncAssumption, Times

\* Each step leaves the sporks alone, is a step of ProcessSpork or UpdateSpork,
\* or is a disturbance, which at most loads the database.
LEMMA SporkSteps ==
  ASSUME SporkInv, [Next]_vars
  PROVE  \/ UNCHANGED sporkVars
         \/ \E t \in Times : CheckSpork(t) /\ Steady
         \/ StoreSpork /\ Steady
         \/ WriteSpork /\ Steady
         \/ \E t \in Times : world.key /\ UpdateSpork(t) /\ Steady
         \/ /\ disturbed' = disturbed + 1 /\ world' = world
            /\ SyncRestart \/ UNCHANGED <<spork, sporkDB, checking>>
<1>1. CASE SyncStep
  BY <1>1, Zenon DEF SyncStep, Process, Poll, SyncWithNode, TipIsRecent, Connect, Steady, sporkVars
<1>2. CASE Disturb
  BY <1>2, Zenon DEF Disturb, Disturbance, Sleep, ResetCommand, MasternodesExpire, Disconnect, syncVars
<1>3. CASE \E t \in Times : SporkArrives(t) \/ SporkCommand(t)
  BY <1>3, Zenon DEF SporkArrives, SporkCommand
<1> QED BY <1>1, <1>2, <1>3, Zenon DEF Next, ItemArrives, WinnerArrives, PeerBlock, StakeBlock,
           StakedBlock, Command, Count, Clean, Steady, sporkVars, syncVars, vars

LEMMA SporkStepKeeps ==
  ASSUME SporkInv, [Next]_vars
  PROVE  /\ SporkInv'
         /\ spork' >= spork \/ world.key \/ disturbed' # disturbed
<1>1. CASE UNCHANGED sporkVars
  BY <1>1 DEF sporkVars, SporkInv
<1>2. ASSUME NEW t \in Times, CheckSpork(t) /\ Steady
      PROVE  SporkInv' /\ spork' = spork
  BY <1>2, TimesAreIntegers, Zenon DEF CheckSpork, Steady, SporkInv
<1>3. CASE StoreSpork /\ Steady
  BY <1>3 DEF StoreSpork, Steady, SporkInv
<1>4. CASE WriteSpork /\ Steady
  BY <1>4 DEF WriteSpork, Steady, SporkInv
<1>5. ASSUME NEW t \in Times, world.key /\ UpdateSpork(t) /\ Steady
      PROVE  SporkInv'
  BY <1>5, TimesAreIntegers, Zenon DEF UpdateSpork, Steady, SporkInv
<1>6. CASE /\ disturbed' = disturbed + 1 /\ world' = world
           /\ SyncRestart \/ UNCHANGED <<spork, sporkDB, checking>>
  <2>1. disturbed' # disturbed
    BY <1>6 DEF SporkInv
  <2>2. CASE UNCHANGED <<spork, sporkDB, checking>>
    BY <1>6, <2>1, <2>2 DEF SporkInv
  <2>3. CASE SyncRestart
    <3>1. spork' = sporkDB /\ sporkDB' = sporkDB /\ checking' = [at |-> "idle", time |-> 0]
      BY <2>3, Zenon DEF SyncRestart
    <3>2. checking'.at = "idle" /\ checking' \in [at : {"idle", "checked", "stored"}, time : Int]
      BY <3>1
    <3>3. disturbed' \in Int /\ world' \in Worlds
      BY <1>6 DEF SporkInv
    <3> QED BY <2>1, <3>1, <3>2, <3>3, Zenon DEF SporkInv
  <2> QED BY <1>6, <2>2, <2>3, Zenon
<1>7. spork \in Int
  BY Zenon DEF SporkInv
<1> QED BY <1>1, <1>2, <1>3, <1>4, <1>5, <1>6, <1>7, SporkSteps DEF sporkVars

LEMMA SporkStart == Init => SporkInv
<1> SUFFICES ASSUME Init PROVE SporkInv
  BY Zenon
<1>1. world \in Worlds /\ spork \in world.spork /\ sporkDB = spork /\ disturbed = 0
      /\ checking = [at |-> "idle", time |-> 0]
  BY Zenon DEF Init
<1>2. spork \in Int
  <2>1. world.spork \subseteq Times \cup {0}
    BY <1>1, WorldsAssumption, Zenon DEF WorldsAssumption
  <2>2. spork \in Times \/ spork = 0
    BY <1>1, <2>1, Zenon
  <2>3. CASE spork \in Times
    BY <2>3, TimesAreIntegers, Zenon
  <2>4. CASE spork = 0
    BY <2>4
  <2> QED BY <2>2, <2>3, <2>4, Zenon
<1> QED BY <1>1, <1>2 DEF SporkInv

\* What the next start loads is what was in force, once ProcessSpork is through
\* with the message; the node with the spork key is excepted (UpdateSpork).
THEOREM SporkStaysSaved == Spec => []SporkIsSaved
<1>1. SporkInv => SporkIsSaved
  BY Zenon DEF SporkInv, SporkIsSaved
<1>2. SporkInv /\ [Next]_vars => SporkInv'
  BY SporkStepKeeps, Zenon
<1> QED BY <1>1, <1>2, SporkStart, PTL DEF Spec

\* A running node without the spork key only ever goes to a spork signed later,
\* although ProcessSpork checks and stores under different holds of its lock.
THEOREM SporksOnlyGoForward == Spec => SporksGoForward
<1>1. SporkInv /\ [Next]_vars => SporkInv'
  BY SporkStepKeeps, Zenon
<1>2. SporkInv /\ [Next]_vars =>
        [spork' >= spork \/ world.key \/ disturbed' # disturbed]_vars
  BY SporkStepKeeps, Zenon
<1> QED BY <1>1, <1>2, SporkStart, PTL DEF Spec, SporksGoForward

-----------------------------------------------------------------------------
(* Transaction locks. *)

\* What NoDoubleVote rests on: a vote in a lock is also in mapTxLockVote.
VotesRecorded ==
    \A t \in Txs : \A k \in DOMAIN lockVotes[t] : <<lockVotes[t][k].mn, t>> \in mapTxLockVote

SwiftInv == SwiftTypeOK /\ NoDoubleVote /\ VotesRecorded

-----------------------------------------------------------------------------
\* The bookkeeping of votes is untouched by whatever leaves the vectors and
\* mapTxLockVote alone.
LEMMA VotesUnchanged ==
    ASSUME NoDoubleVote, VotesRecorded, UNCHANGED <<lockVotes, mapTxLockVote>>
    PROVE  NoDoubleVote' /\ VotesRecorded'
BY Zenon DEF NoDoubleVote, VotesRecorded

\* A step that only adds keys to mapTxLockVote keeps it, too.
LEMMA VotesKept ==
    ASSUME NoDoubleVote, VotesRecorded, UNCHANGED lockVotes,
           mapTxLockVote \subseteq mapTxLockVote'
    PROVE  NoDoubleVote' /\ VotesRecorded'
BY Zenon DEF NoDoubleVote, VotesRecorded

\* insert keeps the entries of mapTxLockReq of their kind.
LEMMA RequestedType ==
    ASSUME SwiftTypeOK, NEW t \in Txs
    PROVE  RequestedTx(t) \in [Txs -> {"none", "tx", "empty"}]
BY Zenon DEF SwiftTypeOK, RequestedTx

\* Locking inputs keeps mapLockedInputs a map from inputs to transactions.
LEMMA LockedForType ==
    ASSUME SwiftTypeOK, NEW t \in Txs, NEW S
    PROVE  LockedFor(S, t) \in [Inputs -> Txs \cup {NoTx}]
BY Zenon DEF SwiftTypeOK, LockedFor

\* Making a lock, whatever its height, keeps the types of the lock maps.
LEMMA CreateNewLockType ==
    ASSUME SwiftTypeOK, NEW t \in Txs, CreateNewLock(t)
    PROVE  /\ mapTxLocks' \subseteq Txs
           /\ nBlockHeight' \in [Txs -> LockHeights \cup {0}]
           /\ expired' \subseteq mapTxLocks'
           /\ UNCHANGED lockVotes
BY Zenon DEF SwiftTypeOK, CreateNewLock, locks
-----------------------------------------------------------------------------
\* The empty maps at startup satisfy the invariant.
LEMMA SwiftInitInv == SwiftInit => SwiftInv
BY HeightsType DEF SwiftInit, SwiftInv, SwiftTypeOK, NoDoubleVote, VotesRecorded, Vote, VotedHeights

\* Taking up a request, and making its lock, keeps the invariant.
LEMMA BeginIXStep ==
    ASSUME SwiftInv, NEW t \in Txs, BeginIX(t) PROVE SwiftInv'
<1>. USE DEF SwiftInv
<1>1. SwiftTypeOK'
  BY CreateNewLockType, Zenon DEF BeginIX, SwiftTypeOK, requests
<1>2. NoDoubleVote' /\ VotesRecorded'
  BY CreateNewLockType, VotesUnchanged, Zenon DEF BeginIX
<1>. QED BY <1>1, <1>2, Zenon

\* So does a request that enters the memory pool.
LEMMA AcceptIXStep ==
    ASSUME SwiftInv, NEW t \in Txs, AcceptIX(t) PROVE SwiftInv'
<1>. USE DEF SwiftInv
<1>1. SwiftTypeOK'
  BY RequestedType, Zenon DEF AcceptIX, SwiftTypeOK, locks
<1>2. NoDoubleVote' /\ VotesRecorded'
  BY VotesUnchanged, Zenon DEF AcceptIX, locks
<1>. QED BY <1>1, <1>2, Zenon

\* So does a request that is refused: it touches inputs and expirations only.
LEMMA RejectIXStep ==
    ASSUME SwiftInv, NEW t \in Txs, RejectIX(t) PROVE SwiftInv'
<1>. USE DEF SwiftInv
<1>1. mapTxLockReq' \in [Txs -> {"none", "tx", "empty"}]
  BY RequestedType, Zenon DEF RejectIX, SwiftTypeOK
<1>2. expired' \subseteq mapTxLocks
  BY Zenon DEF RejectIX, SwiftTypeOK, Cancel
<1>3. SwiftTypeOK'
  BY <1>1, <1>2, LockedForType, Zenon DEF RejectIX, SwiftTypeOK
<1>4. NoDoubleVote' /\ VotesRecorded'
  BY VotesUnchanged, Zenon DEF RejectIX
<1>. QED BY <1>3, <1>4, Zenon

\* So does the node's own request.
LEMMA OwnRequestStep ==
    ASSUME SwiftInv, NEW t \in Txs, OwnRequest(t) PROVE SwiftInv'
<1>. USE DEF SwiftInv
<1>1. SwiftTypeOK'
  BY CreateNewLockType, RequestedType, Zenon DEF OwnRequest, SwiftTypeOK
<1>2. NoDoubleVote' /\ VotesRecorded'
  BY CreateNewLockType, VotesUnchanged, Zenon DEF OwnRequest
<1>. QED BY <1>1, <1>2, Zenon

\* So does the passing of time.
LEMMA ExpireStep ==
    ASSUME SwiftInv, NEW t \in Txs, Expire(t) PROVE SwiftInv'
<1>. USE DEF SwiftInv
<1>1. SwiftTypeOK'
  BY Zenon DEF Expire, SwiftTypeOK, requests
<1>2. NoDoubleVote' /\ VotesRecorded'
  BY VotesUnchanged, Zenon DEF Expire
<1>. QED BY <1>1, <1>2, Zenon

\* A vote that does not count only adds a key to mapTxLockVote.
LEMMA RefuseVoteStep ==
    ASSUME SwiftInv, NEW m \in Signers, NEW t \in Txs, RefuseVote(m, t) PROVE SwiftInv'
<1>. USE DEF SwiftInv
<1>1. SwiftTypeOK'
  BY DEF RefuseVote, NewVote, SwiftTypeOK, requests, locks
<1>2. NoDoubleVote' /\ VotesRecorded'
  BY VotesKept, Zenon DEF RefuseVote, NewVote, locks
<1>. QED BY <1>1, <1>2, Zenon

\* A vote that counts comes from a masternode that mapTxLockVote does not
\* hold for this transaction, hence is new to the vector.
LEMMA CountVoteStep ==
    ASSUME SwiftInv, NEW m \in Signers, NEW t \in Txs, NEW h \in VotedHeights,
           CountLockVote(m, t, h)
    PROVE  SwiftInv'
<1>. USE DEF SwiftInv
<1>. DEFINE v == [mn |-> m, height |-> h]
            S == IF mapTxLockReq[t] = "tx" THEN Vin[t] ELSE {}
<1>1. /\ lockVotes[t] \in Seq(Vote) /\ v \in Vote
      /\ lockVotes' = [lockVotes EXCEPT ![t] = Append(lockVotes[t], v)]
  BY Zenon DEF CountLockVote, SwiftTypeOK, Vote
<1>2. lockVotes' \in [Txs -> Seq(Vote)]
  BY <1>1 DEF SwiftTypeOK
<1>3. mapTxLockReq' \in [Txs -> {"none", "tx", "empty"}]
  BY Zenon DEF CountLockVote, SwiftTypeOK
<1>4. expired' \subseteq mapTxLocks'
  BY Zenon DEF CountLockVote, SwiftTypeOK, Cancel
<1>5. mapLockedInputs' \in [Inputs -> Txs \cup {NoTx}]
  <2>1. mapLockedInputs' \in {mapLockedInputs, LockedFor(S, t)}
    BY Zenon DEF CountLockVote
  <2>. QED BY <2>1, LockedForType, SMTT(20) DEF SwiftTypeOK
<1>6. SwiftTypeOK'
  BY <1>2, <1>3, <1>4, <1>5, SMTT(20) DEF CountLockVote, NewVote, SwiftTypeOK
<1>7. \A u \in Txs \ {t} : lockVotes'[u] = lockVotes[u]
  BY <1>1, Zenon DEF SwiftTypeOK
<1>8. /\ Len(lockVotes[t]) \in Nat /\ DOMAIN lockVotes[t] = 1 .. Len(lockVotes[t])
      /\ DOMAIN lockVotes'[t] = 1 .. Len(lockVotes[t]) + 1
      /\ \A k \in 1 .. Len(lockVotes[t]) : lockVotes'[t][k] = lockVotes[t][k]
      /\ lockVotes'[t][Len(lockVotes[t]) + 1] = v
  BY <1>1, SMTT(20) DEF SwiftTypeOK
<1>9. \A k \in DOMAIN lockVotes[t] : lockVotes[t][k].mn # m
  BY Zenon DEF VotesRecorded, CountLockVote, NewVote
<1>10. NoDoubleVote'
  <2>. SUFFICES ASSUME NEW u \in Txs, NEW j \in DOMAIN lockVotes'[u], NEW k \in DOMAIN lockVotes'[u],
                       lockVotes'[u][j].mn = lockVotes'[u][k].mn
                PROVE  j = k
    BY Zenon DEF NoDoubleVote
  <2>1. CASE u # t
    BY <2>1, <1>7, Zenon DEF NoDoubleVote
  <2>2. CASE u = t
    <3>1. \A l \in DOMAIN lockVotes'[t] : l \in DOMAIN lockVotes[t] \/ l = Len(lockVotes[t]) + 1
      BY <1>8, SMTT(20)
    <3>2. lockVotes'[t][Len(lockVotes[t]) + 1].mn = m
      BY <1>8, SMTT(20)
    <3>3. \A l \in DOMAIN lockVotes[t] : lockVotes'[t][l].mn = lockVotes[t][l].mn /\ lockVotes[t][l].mn # m
      BY <1>8, <1>9, Zenon
    <3>. QED BY <2>2, <3>1, <3>2, <3>3, Zenon DEF NoDoubleVote
  <2>. QED BY <2>1, <2>2, Zenon
<1>11. VotesRecorded'
  <2>. SUFFICES ASSUME NEW u \in Txs, NEW k \in DOMAIN lockVotes'[u]
                PROVE  <<lockVotes'[u][k].mn, u>> \in mapTxLockVote'
    BY Zenon DEF VotesRecorded
  <2>1. CASE u # t
    BY <2>1, <1>7, SMTT(20) DEF VotesRecorded, CountLockVote, NewVote
  <2>2. CASE u = t
    BY <2>2, <1>8, SMTT(20) DEF VotesRecorded, CountLockVote, NewVote
  <2>. QED BY <2>1, <2>2, Zenon
<1>. QED BY <1>6, <1>10, <1>11, Zenon

\* Removing locks forgets the keys of their votes only together with the
\* votes: the vectors that stay have all their keys.
LEMMA CleanStep ==
    ASSUME SwiftInv, CleanTransactionLocksList PROVE SwiftInv'
<1>. USE DEF SwiftInv
<1>. DEFINE R == {t \in expired : mapTxLockReq[t] # "none"}
<1>1. lockVotes' = [t \in Txs |-> IF t \in expired THEN << >> ELSE lockVotes[t]]
  BY Zenon DEF CleanTransactionLocksList
<1>2. mapTxLockVote' = mapTxLockVote \ UNION {VotesOf(t) : t \in R}
  BY Zenon DEF CleanTransactionLocksList
<1>3. SwiftTypeOK'
  <2>1. lockVotes' \in [Txs -> Seq(Vote)]
    BY <1>1 DEF SwiftTypeOK
  <2>2. mapTxLockReq' \in [Txs -> {"none", "tx", "empty"}]
    BY Zenon DEF CleanTransactionLocksList, SwiftTypeOK
  <2>3. /\ nBlockHeight' \in [Txs -> LockHeights \cup {0}]
        /\ mapLockedInputs' \in [Inputs -> Txs \cup {NoTx}]
    BY Zenon DEF CleanTransactionLocksList, SwiftTypeOK
  <2>. QED BY <1>2, <2>1, <2>2, <2>3, Zenon DEF CleanTransactionLocksList, SwiftTypeOK
<1>4. NoDoubleVote'
  BY <1>1 DEF NoDoubleVote
<1>5. VotesRecorded'
  <2>. SUFFICES ASSUME NEW u \in Txs, NEW k \in DOMAIN lockVotes'[u]
                PROVE  <<lockVotes'[u][k].mn, u>> \in mapTxLockVote'
    BY Zenon DEF VotesRecorded
  <2>1. u \notin expired /\ lockVotes'[u] = lockVotes[u]
    BY <1>1
  <2>2. <<lockVotes[u][k].mn, u>> \in mapTxLockVote
    BY <2>1, Zenon DEF VotesRecorded
  <2>3. \A t \in R : <<lockVotes[u][k].mn, u>> \notin VotesOf(t)
    BY <2>1, Zenon DEF VotesOf
  <2>. QED BY <1>2, <2>1, <2>2, <2>3, Zenon
<1>. QED BY <1>3, <1>4, <1>5, Zenon

\* Every step keeps the invariant.
LEMMA SwiftNextInv == SwiftInv /\ [SwiftNext]_swiftVars => SwiftInv'
<1>. SUFFICES ASSUME SwiftInv, [SwiftNext]_swiftVars PROVE SwiftInv'
  BY Zenon
<1>1. CASE UNCHANGED swiftVars
  BY <1>1 DEF swiftVars, requests, locks, SwiftInv, SwiftTypeOK, NoDoubleVote, VotesRecorded
<1>2. ASSUME NEW t \in Txs, BeginIX(t) PROVE SwiftInv'
  BY <1>2, BeginIXStep, Zenon
<1>3. ASSUME NEW t \in Txs, AcceptIX(t) PROVE SwiftInv'
  BY <1>3, AcceptIXStep, Zenon
<1>4. ASSUME NEW t \in Txs, RejectIX(t) PROVE SwiftInv'
  BY <1>4, RejectIXStep, Zenon
<1>5. ASSUME NEW t \in Txs, OwnRequest(t) PROVE SwiftInv'
  BY <1>5, OwnRequestStep, Zenon
<1>6. ASSUME NEW t \in Txs, Expire(t) PROVE SwiftInv'
  BY <1>6, ExpireStep, Zenon
<1>7. ASSUME NEW m \in Signers, NEW t \in Txs, RefuseVote(m, t) PROVE SwiftInv'
  BY <1>7, RefuseVoteStep, Zenon
<1>8. ASSUME NEW m \in Signers, NEW t \in Txs, NEW h \in VotedHeights, CountLockVote(m, t, h)
      PROVE SwiftInv'
  BY <1>8, CountVoteStep, Zenon
<1>9. CASE CleanTransactionLocksList
  BY <1>9, CleanStep, Zenon
<1>. QED BY <1>1, <1>2, <1>3, <1>4, <1>5, <1>6, <1>7, <1>8, <1>9 DEF SwiftNext

\* The invariant holds in every state the node reaches.
LEMMA SwiftInvariance == SwiftSpec => []SwiftInv
BY SwiftInitInv, SwiftNextInv, PTL DEF SwiftSpec
-----------------------------------------------------------------------------
\* The maps of swifttx.cpp keep their types, and only locks that exist are
\* due for removal.
THEOREM SwiftTypeCorrect == SwiftSpec => []SwiftTypeOK
<1>1. SwiftInv => SwiftTypeOK
  BY Zenon DEF SwiftInv
<1>. QED BY <1>1, SwiftInvariance, PTL

\* CountSignatures never counts a masternode twice for a lock, however votes,
\* requests and the removal of expired locks interleave.
THEOREM VotesCountOnce == SwiftSpec => []NoDoubleVote
<1>1. SwiftInv => NoDoubleVote
  BY Zenon DEF SwiftInv
<1>. QED BY <1>1, SwiftInvariance, PTL

\* No step gives a locked input to another transaction: only
\* CleanTransactionLocksList changes the entry, and it erases it.
LEMMA InputsStep ==
    ASSUME SwiftTypeOK, [SwiftNext]_swiftVars, NEW i \in Inputs, mapLockedInputs[i] # NoTx
    PROVE  mapLockedInputs'[i] \in {mapLockedInputs[i], NoTx}
<1>1. \A S, t : LockedFor(S, t)[i] = mapLockedInputs[i]
  BY Zenon DEF LockedFor
<1>2. CASE UNCHANGED swiftVars
  BY <1>2, Zenon DEF swiftVars
<1>3. ASSUME NEW t \in Txs, BeginIX(t) \/ AcceptIX(t) \/ OwnRequest(t) \/ Expire(t)
      PROVE  mapLockedInputs'[i] = mapLockedInputs[i]
  BY <1>3, Zenon DEF BeginIX, AcceptIX, OwnRequest, Expire
<1>4. ASSUME NEW t \in Txs, RejectIX(t)
      PROVE  mapLockedInputs'[i] = mapLockedInputs[i]
  BY <1>1, <1>4, Zenon DEF RejectIX
<1>5. ASSUME NEW m \in Signers, NEW t \in Txs, RefuseVote(m, t)
      PROVE  mapLockedInputs'[i] = mapLockedInputs[i]
  BY <1>5, Zenon DEF RefuseVote
<1>6. ASSUME NEW m \in Signers, NEW t \in Txs, NEW h \in VotedHeights, CountLockVote(m, t, h)
      PROVE  mapLockedInputs'[i] = mapLockedInputs[i]
  <2>1. mapLockedInputs' = mapLockedInputs \/ \E S, u : mapLockedInputs' = LockedFor(S, u)
    BY <1>6, Zenon DEF CountLockVote
  <2>. QED BY <1>1, <2>1, Zenon
<1>7. CASE CleanTransactionLocksList
  BY <1>7, Zenon DEF CleanTransactionLocksList
<1>. QED BY <1>2, <1>3, <1>4, <1>5, <1>6, <1>7 DEF SwiftNext

\* A locked input is released before it is locked for another transaction.
THEOREM InputsKeepTheirOwner == SwiftSpec => InputsChangeHandsFree
<1>1. SwiftTypeOK /\ [SwiftNext]_swiftVars
      => [\A i \in Inputs : mapLockedInputs[i] # NoTx
            => mapLockedInputs'[i] \in {mapLockedInputs[i], NoTx}]_swiftVars
  BY InputsStep, Zenon
<1>. QED BY <1>1, SwiftTypeCorrect, PTL DEF SwiftSpec, InputsChangeHandsFree

\* A lock that is complete has enough voters.
QuorumCounted ==
    \A t \in Txs : Complete(t, nBlockHeight, lockVotes)
                    => Cardinality(Voters(t)) >= SWIFTTX_SIGNATURES_REQUIRED

\* The entries of a lock that CountSignatures counts are as many as the
\* masternodes that sent them.
LEMMA SignaturesAreVoters ==
    ASSUME SwiftInv, NEW t \in Txs
    PROVE  Complete(t, nBlockHeight, lockVotes)
           => Cardinality(Voters(t)) >= SWIFTTX_SIGNATURES_REQUIRED
<1>. DEFINE K == {k \in DOMAIN lockVotes[t] : lockVotes[t][k].height = nBlockHeight[t]}
            f == [k \in K |-> lockVotes[t][k].mn]
<1>1. K \in SUBSET (1 .. Len(lockVotes[t])) /\ Len(lockVotes[t]) \in Nat
  BY DEF SwiftInv, SwiftTypeOK
<1>2. IsFiniteSet(1 .. Len(lockVotes[t]))
  <2>1. 1 \in Int /\ Len(lockVotes[t]) \in Int
    BY <1>1
  <2>. QED BY <2>1, FS_Interval, Zenon
<1>3. IsFiniteSet(K)
  BY <1>1, <1>2, FS_Subset, Zenon
<1>4. Voters(t) = {lockVotes[t][k].mn : k \in K}
  BY Zenon DEF Voters
<1>5. f \in Surjection(K, Voters(t))
  BY <1>4, Zenon DEF Surjection
<1>6. f \in Injection(K, Voters(t))
  BY <1>4, Zenon DEF Injection, IsInjective, SwiftInv, NoDoubleVote
<1>7. Cardinality(Voters(t)) = Cardinality(K)
  <2>. HIDE DEF K, f
  <2>. QED BY <1>3, <1>5, <1>6, FS_Surjection, Zenon
<1>8. Cardinality(K) \in Nat
  BY <1>3, FS_CardinalityType, Zenon
<1>9. Complete(t, nBlockHeight, lockVotes) => CountSignatures(t, nBlockHeight, lockVotes) = Cardinality(K)
  <2>1. ~(-1 >= SWIFTTX_SIGNATURES_REQUIRED)
    BY RequiredType
  <2>. QED BY <2>1, Zenon DEF Complete, CountSignatures
<1>. QED BY <1>7, <1>9, Zenon DEF Complete

\* Besides a refused request, which puts its transaction into rejected, only a
\* vote that completes a lock takes inputs for its transaction.
LEMMA QuorumStep ==
    ASSUME SwiftInv', [SwiftNext]_swiftVars, NEW i \in Inputs, NEW t \in Txs,
           mapLockedInputs[i] # t, mapLockedInputs'[i] = t, t \notin rejected'
    PROVE  Complete(t, nBlockHeight, lockVotes)'
<1>1. \A S, u : LockedFor(S, u)[i] \in {mapLockedInputs[i], u}
  BY Zenon DEF LockedFor
<1>2. CASE UNCHANGED swiftVars
  BY <1>2, Zenon DEF swiftVars
<1>3. ASSUME NEW u \in Txs, BeginIX(u) \/ AcceptIX(u) \/ OwnRequest(u) \/ Expire(u)
      PROVE  FALSE
  BY <1>3, Zenon DEF BeginIX, AcceptIX, OwnRequest, Expire
<1>4. ASSUME NEW u \in Txs, RejectIX(u)
      PROVE  FALSE
  <2>1. u = t
    BY <1>1, <1>4, Zenon DEF RejectIX
  <2>. QED BY <2>1, <1>4, Zenon DEF RejectIX
<1>5. ASSUME NEW m \in Signers, NEW u \in Txs, RefuseVote(m, u)
      PROVE  FALSE
  BY <1>5, Zenon DEF RefuseVote
<1>6. ASSUME NEW m \in Signers, NEW u \in Txs, NEW h \in VotedHeights, CountLockVote(m, u, h)
      PROVE  Complete(t, nBlockHeight, lockVotes)'
  <2>. DEFINE S == IF mapTxLockReq[u] = "tx" THEN Vin[u] ELSE {}
  <2>1. mapLockedInputs' # mapLockedInputs
    BY Zenon
  <2>2. mapLockedInputs' = LockedFor(S, u) /\ Complete(u, nBlockHeight, lockVotes')
    BY <1>6, <2>1, Zenon DEF CountLockVote
  <2>3. u = t
    BY <1>1, <2>2, Zenon
  <2>4. nBlockHeight' = nBlockHeight
    BY <1>6, Zenon DEF CountLockVote
  <2>. QED BY <2>2, <2>3, <2>4, Zenon DEF Complete, CountSignatures
<1>7. CASE CleanTransactionLocksList
  BY <1>7, NoTxIsNoTx, Zenon DEF CleanTransactionLocksList
<1>. QED BY <1>2, <1>3, <1>4, <1>5, <1>6, <1>7 DEF SwiftNext

\* Inputs are locked for a transaction only when enough different masternodes
\* have voted for it at the height of its lock, or its request was refused by
\* the memory pool.
THEOREM LocksHaveAQuorum == SwiftSpec => LockNeedsQuorum
<1>1. SwiftInv => QuorumCounted
  BY SignaturesAreVoters, Zenon DEF QuorumCounted
<1>2. SwiftInv' /\ QuorumCounted' /\ [SwiftNext]_swiftVars
      => [\A i \in Inputs, t \in Txs :
            mapLockedInputs[i] # t /\ mapLockedInputs'[i] = t /\ t \notin rejected'
            => Cardinality(Voters(t)') >= SWIFTTX_SIGNATURES_REQUIRED]_swiftVars
  BY QuorumStep, Zenon DEF QuorumCounted
<1>. QED BY <1>1, <1>2, SwiftInvariance, PTL DEF SwiftSpec, LockNeedsQuorum
=============================================================================
