------------------------------ MODULE SwiftTX ------------------------------
(***************************************************************************)
(* SwiftTX (swifttx.cpp): masternodes vote on a transaction, and the       *)
(* inputs of one with enough votes are locked: no other transaction or     *)
(* block may spend them.  The module is the bookkeeping of one node: the   *)
(* requests, the votes, the locks and the locked inputs, under messages of *)
(* its peers (one thread), its own requests (wallet and RPC threads) and   *)
(* the removal of expired locks (the masternode thread).  None of the maps *)
(* has a mutex.                                                            *)
(*                                                                         *)
(* Left out: relaying (with mapUnknownVotes, which only limits it), the    *)
(* notification of wallets, and ReprocessBlocks, which ChainState models.  *)
(***************************************************************************)
EXTENDS Integers, Sequences, FiniteSets

CONSTANTS
    Txs,            \* the transactions for which locks are requested
    Inputs,         \* the coins they spend
    Vin,            \* Vin[t]: the inputs of transaction t
    Signers,        \* the masternodes
    LockHeights,    \* the block heights that CreateNewLock may find
    OtherHeights,   \* heights that a vote may name besides
    SWIFTTX_SIGNATURES_REQUIRED,
    NoTx            \* not a transaction

ASSUME VinType == Vin \in [Txs -> SUBSET Inputs]
ASSUME HeightsType == LockHeights \cup OtherHeights \subseteq Nat \ {0}
ASSUME RequiredType == SWIFTTX_SIGNATURES_REQUIRED \in Nat \ {0}
ASSUME NoTxIsNoTx == NoTx \notin Txs

VARIABLES
    mapTxLockReq,   \* for each transaction "none", "tx" or "empty": an entry
                    \* that operator[] made has no inputs
    rejected,       \* the keys of mapTxLockReqRejected
    mapTxLockVote,  \* the keys of mapTxLockVote: <<masternode, transaction>>
    mapTxLocks,     \* the keys of mapTxLocks
    nBlockHeight,   \* of each lock; 0 while the transaction is not known
    lockVotes,      \* vecConsensusVotes of each lock
    expired,        \* the locks with nExpiration in the past
    mapLockedInputs,
    ix              \* the request the message thread is handling, or NoTx

locks == <<mapTxLocks, nBlockHeight, lockVotes, expired>>
requests == <<mapTxLockReq, rejected>>
swiftVars == <<requests, mapTxLockVote, locks, mapLockedInputs, ix>>

VotedHeights == LockHeights \cup OtherHeights

Vote == [mn : Signers, height : VotedHeights]

SwiftInit ==
    /\ mapTxLockReq = [t \in Txs |-> "none"]
    /\ rejected = {}
    /\ mapTxLockVote = {}
    /\ mapTxLocks = {}
    /\ nBlockHeight = [t \in Txs |-> 0]
    /\ lockVotes = [t \in Txs |-> << >>]
    /\ expired = {}
    /\ mapLockedInputs = [i \in Inputs |-> NoTx]
    /\ ix = NoTx
-----------------------------------------------------------------------------
CountSignatures(t, height, vec) ==
    IF height[t] = 0 THEN -1
    ELSE Cardinality({k \in DOMAIN vec[t] : vec[t][k].height = height[t]})

CompleteAnyHeight(t, height, vec) == Len(vec[t]) >= SWIFTTX_SIGNATURES_REQUIRED

Complete(t, height, vec) ==
    CountSignatures(t, height, vec) >= SWIFTTX_SIGNATURES_REQUIRED

\* std::map::insert into mapTxLockReq: an entry that is there stays.
RequestedTx(t) ==
    [mapTxLockReq EXCEPT ![t] = IF @ = "none" THEN "tx" ELSE @]

\* Inputs that are not locked yet are locked for t.
LockedFor(S, t) ==
    [i \in Inputs |-> IF i \in S /\ mapLockedInputs[i] = NoTx THEN t
                      ELSE mapLockedInputs[i]]

\* CheckForConflictingLocks: it cancels t and the owner of the first input
\* that is locked for another transaction.
Conflicts(S, t, locked) == {i \in S : locked[i] \notin {t, NoTx}}

Cancel(S, t, locked, keys) ==
    \E i \in Conflicts(S, t, locked) :
        expired' = expired \cup ({t, locked[i]} \cap keys)

\* AcceptToMemoryPool refuses a transaction that spends an input locked for
\* another one.  What else it looks at (the pool, the coins, fees) is not
\* modelled: it may refuse any transaction.
Acceptable(t) == Conflicts(Vin[t], t, mapLockedInputs) = {}

CreateNewLockRenewing(t) ==
    \/ UNCHANGED locks
    \/ \E h \in LockHeights :
        /\ mapTxLocks' = mapTxLocks \cup {t}
        /\ nBlockHeight' = [nBlockHeight EXCEPT ![t] = h]
        /\ expired' = expired \ {t}
        /\ UNCHANGED lockVotes

\* No lock is made when an input is too new or unknown.  The height follows
\* from the block of the first input, which a reorganisation may change.
CreateNewLock(t) ==
    \/ UNCHANGED locks
    \/ \E h \in LockHeights :
        /\ mapTxLocks' = mapTxLocks \cup {t}
        /\ nBlockHeight' = [nBlockHeight EXCEPT ![t] = h]
        /\ UNCHANGED <<lockVotes, expired>>
-----------------------------------------------------------------------------
\* "ix" up to AcceptToMemoryPool, which waits for cs_main.
BeginIX(t) ==
    /\ ix = NoTx
    /\ mapTxLockReq[t] = "none"
    /\ t \notin rejected
    /\ CreateNewLock(t)
    /\ ix' = t
    /\ UNCHANGED <<requests, mapTxLockVote, mapLockedInputs>>

AcceptIX(t) ==
    /\ ix = t
    /\ Acceptable(t)
    /\ mapTxLockReq' = RequestedTx(t)
    /\ ix' = NoTx
    /\ UNCHANGED <<rejected, mapTxLockVote, locks, mapLockedInputs>>

\* The pool refuses the transaction (it may have it already): its inputs are locked although nobody may have voted.
RejectIX(t) ==
    /\ ix = t
    /\ rejected' = rejected \cup {t}
    /\ mapLockedInputs' = LockedFor(Vin[t], t)
    /\ IF t \in mapTxLocks /\ Complete(t, nBlockHeight, lockVotes)
       THEN \/ /\ Cancel(Vin[t], t, mapLockedInputs', mapTxLocks)
               /\ UNCHANGED mapTxLockReq
            \/ /\ Conflicts(Vin[t], t, mapLockedInputs') = {}
               /\ mapTxLockReq' = RequestedTx(t)
               /\ UNCHANGED expired
       ELSE UNCHANGED <<mapTxLockReq, expired>>
    /\ ix' = NoTx
    /\ UNCHANGED <<mapTxLockVote, mapTxLocks, nBlockHeight, lockVotes>>

\* The node's own request, from the wallet (RelayWalletTransaction) or from
\* sendrawtransaction.
OwnRequest(t) ==
    /\ mapTxLockReq' = RequestedTx(t)
    /\ CreateNewLock(t)
    /\ UNCHANGED <<rejected, mapTxLockVote, mapLockedInputs, ix>>
-----------------------------------------------------------------------------
NewVoteUnchecked(m, t) ==
    /\ ix = NoTx
    /\ mapTxLockVote' = mapTxLockVote \cup {<<m, t>>}

\* A vote is remembered before it is looked at.
NewVote(m, t) ==
    /\ ix = NoTx
    /\ <<m, t>> \notin mapTxLockVote
    /\ mapTxLockVote' = mapTxLockVote \cup {<<m, t>>}

\* The masternode is not known yet, not in the top, or its signature is not
\* valid: the vote does not count, and will not when it comes again.
RefuseVote(m, t) ==
    /\ NewVote(m, t)
    /\ UNCHANGED <<requests, locks, mapLockedInputs, ix>>

\* ProcessConsensusVote.  The inputs are those of the request, none when the
\* entry is made here.
CountLockVote(m, t, h) ==
    LET vec == [lockVotes EXCEPT ![t] = Append(@, [mn |-> m, height |-> h])]
        S == IF mapTxLockReq[t] = "tx" THEN Vin[t] ELSE {}
    IN  /\ NewVote(m, t)
        /\ mapTxLocks' = mapTxLocks \cup {t}
        /\ lockVotes' = vec
        /\ IF Complete(t, nBlockHeight, vec)
           THEN /\ mapTxLockReq' = [mapTxLockReq EXCEPT ![t] = IF @ = "none" THEN "empty" ELSE @]
                /\ \/ /\ Cancel(S, t, mapLockedInputs, mapTxLocks')
                      /\ UNCHANGED mapLockedInputs
                   \/ /\ Conflicts(S, t, mapLockedInputs) = {}
                      /\ mapLockedInputs' = LockedFor(S, t)
                      /\ UNCHANGED expired
           ELSE UNCHANGED <<mapTxLockReq, expired, mapLockedInputs>>
        /\ UNCHANGED <<rejected, nBlockHeight, ix>>
-----------------------------------------------------------------------------
\* An hour has passed since the lock was made.
Expire(t) ==
    /\ t \in mapTxLocks \ expired
    /\ expired' = expired \cup {t}
    /\ UNCHANGED <<requests, mapTxLockVote, mapTxLocks, nBlockHeight, lockVotes,
                   mapLockedInputs, ix>>

VotesOf(t) == {<<lockVotes[t][k].mn, t>> : k \in DOMAIN lockVotes[t]}

\* CleanTransactionLocksList.  Inputs, requests and votes are released only
\* for a lock that has a request.
CleanTransactionLocksList ==
    LET R == {t \in expired : mapTxLockReq[t] # "none"}
        S == UNION {Vin[t] : t \in {u \in R : mapTxLockReq[u] = "tx"}}
    IN  /\ expired # {}
        /\ mapLockedInputs' = [i \in Inputs |-> IF i \in S THEN NoTx ELSE mapLockedInputs[i]]
        /\ mapTxLockReq' = [t \in Txs |-> IF t \in R THEN "none" ELSE mapTxLockReq[t]]
        /\ rejected' = rejected \ R
        /\ mapTxLockVote' = mapTxLockVote \ UNION {VotesOf(t) : t \in R}
        /\ mapTxLocks' = mapTxLocks \ expired
        /\ nBlockHeight' = [t \in Txs |-> IF t \in expired THEN 0 ELSE nBlockHeight[t]]
        /\ lockVotes' = [t \in Txs |-> IF t \in expired THEN << >> ELSE lockVotes[t]]
        /\ expired' = {}
        /\ UNCHANGED ix
-----------------------------------------------------------------------------
SwiftNext ==
    \/ \E t \in Txs :
        \/ BeginIX(t) \/ AcceptIX(t) \/ RejectIX(t)
        \/ OwnRequest(t) \/ Expire(t)
    \/ \E m \in Signers, t \in Txs :
        RefuseVote(m, t) \/ \E h \in VotedHeights : CountLockVote(m, t, h)
    \/ CleanTransactionLocksList

SwiftSpec == SwiftInit /\ [][SwiftNext]_swiftVars

\* Time passes, and the masternode thread cleans up every minute.
FairSpec ==
    /\ SwiftSpec
    /\ \A t \in Txs : WF_swiftVars(Expire(t))
    /\ WF_swiftVars(CleanTransactionLocksList)
-----------------------------------------------------------------------------
\* Every map holds entries of its kind, and only locks that exist expire.
SwiftTypeOK ==
    /\ mapTxLockReq \in [Txs -> {"none", "tx", "empty"}]
    /\ rejected \subseteq Txs
    /\ mapTxLockVote \subseteq Signers \X Txs
    /\ mapTxLocks \subseteq Txs
    /\ nBlockHeight \in [Txs -> LockHeights \cup {0}]
    /\ lockVotes \in [Txs -> Seq(Vote)]
    /\ expired \subseteq mapTxLocks
    /\ mapLockedInputs \in [Inputs -> Txs \cup {NoTx}]
    /\ ix \in Txs \cup {NoTx}

\* AddSignature appends without looking for the masternode, and
\* CountSignatures counts the whole vector: that no masternode is counted
\* twice rests on mapTxLockVote, which CleanTransactionLocksList empties in
\* step with the locks.
NoDoubleVote ==
    \A t \in Txs : \A j, k \in DOMAIN lockVotes[t] :
        lockVotes[t][j].mn = lockVotes[t][k].mn => j = k

\* An input that is locked for one transaction is released before it is
\* locked for another one: neither a refused request nor a second complete
\* lock takes over an input.
InputsChangeHandsFree ==
    [][\A i \in Inputs : mapLockedInputs[i] # NoTx
            => mapLockedInputs'[i] \in {mapLockedInputs[i], NoTx}]_swiftVars

\* The masternodes whose votes are for the height of the lock.
Voters(t) ==
    {lockVotes[t][k].mn : k \in {j \in DOMAIN lockVotes[t] : lockVotes[t][j].height = nBlockHeight[t]}}

\* Unless its request was refused by the memory pool, a transaction gets
\* inputs locked only by enough different masternodes that voted for it at
\* the height of its own inputs, however votes and request are ordered.
LockNeedsQuorum ==
    [][\A i \in Inputs, t \in Txs :
            mapLockedInputs[i] # t /\ mapLockedInputs'[i] = t /\ t \notin rejected'
            => Cardinality(Voters(t)') >= SWIFTTX_SIGNATURES_REQUIRED]_swiftVars

Holds(t) == \E i \in Inputs : mapLockedInputs[i] = t

\* A transaction with a lock and a request gives all its locked inputs free
\* in the end: votes, repeated requests and conflicts do not keep a lock
\* alive, and when it is removed its inputs are released.
HeldInputsExpire ==
    \A t \in Txs :
        (Holds(t) /\ t \in mapTxLocks /\ mapTxLockReq[t] = "tx") ~> ~Holds(t)
=============================================================================
