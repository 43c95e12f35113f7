---------------------------- MODULE Masternodes ----------------------------
(***************************************************************************)
(* The masternode subsystem of one node: the synchronisation and sporks of *)
(* MNSync and the payment votes of MNPayments, which share the state of    *)
(* the synchronisation (votes are taken when the chain is synchronised,    *)
(* cast when the list is there, enforced when everything is), the spork    *)
(* that enforces payments, the message handler's thread and the restart.   *)
(***************************************************************************)
EXTENDS MNPayments, MNSync

CONSTANTS
  Worlds       \* the situations to explore: the votes that other masternodes
               \* cast, the payees that are next in the queue of the list
               \* (NoPayee: none), the highest block, whether peers come and go, whether
               \* the node is a masternode, whether it has the spork key, what
               \* may disturb it and how often

ASSUME WorldsAssumption ==
  \A w \in Worlds :
    /\ w.cast \subseteq Winners /\ w.cast \subseteq Items /\ w.queue \subseteq Scripts
    /\ w.spork \subseteq Times \cup {0} /\ w.key \in BOOLEAN

VARIABLES
  world,       \* the situation
  disturbed    \* how often the node has been disturbed

vars == <<payVars, syncVars, world, disturbed>>

Steady == UNCHANGED <<world, disturbed>>

\* The message handler is between two messages.
HandlerIsFree == checking.at = "idle" /\ adding["msg"] = None

\* A node that starts for the first time, or one that has synchronised.
Synced == [Reset EXCEPT !.stage = "finished", !.chain = TRUE, !.overdue = FALSE]

Init ==
  /\ world \in Worlds /\ disturbed = 0
  /\ PaymentsInit
  /\ IF world.synced
     THEN /\ sync = Synced /\ conn = MaxPeers /\ asked = [r \in Requests |-> MaxPeers]
          /\ recent = TRUE /\ known = TRUE
     ELSE /\ sync = Reset /\ conn = 0 /\ asked = [r \in Requests |-> 0]
          /\ recent \in BOOLEAN /\ known = FALSE
  /\ process = "idle" /\ checking = [at |-> "idle", time |-> 0]
  /\ spork \in world.spork /\ sporkDB = spork

-----------------------------------------------------------------------------
\* A message about a masternode or a budget.
ItemArrives(i) ==
  /\ HandlerIsFree /\ world.peers /\ AssetOf[i] # "mnw"
  /\ LET s == Polled(sync, TRUE)
     IN /\ sync' = IF s.chain THEN Added(s, i) ELSE s
        /\ known' = (known \/ (s.chain /\ AssetOf[i] = "list"))
  /\ UNCHANGED <<conn, asked, process, recent, spork, sporkDB, checking, payVars>>
  /\ Steady

\* A payment vote: stored, ignored, or counted as heard of once more.
WinnerArrives(v, signed) ==
  LET s == Polled(sync, TRUE)
  IN /\ HandlerIsFree
     /\ \/ /\ s.chain /\ ProcessWinner(v, signed)
           /\ sync' = IF v \in votes' THEN Added(s, v) ELSE s
        \/ /\ s.chain /\ v \in votes
           /\ sync' = Added(s, v) /\ UNCHANGED payVars
        \/ ~s.chain /\ sync' = s /\ UNCHANGED payVars
     /\ UNCHANGED <<conn, asked, process, recent, known, spork, sporkDB, checking>>
     /\ Steady

\* ProcessBlock is called once the list is there.
Voting == sync.stage \notin {"initial", "sporks", "list"}

\* IsBlockPayeeValid, without superblocks.
IsBlockPayeeValid(h, p) ==
  sync.stage # "finished" \/ IsTransactionValid(h, p) \/ ~IsSporkActive

PeerBlock(extends, p) ==
  /\ HandlerIsFree /\ tip < world.top /\ BlockArrives(extends, world.own /\ Voting, p)
  /\ UNCHANGED syncVars /\ Steady

StakeBlock(p) == tip < world.top /\ FillBlockPayee(p) /\ UNCHANGED syncVars /\ Steady

\* A block can be refused for other reasons than its payee.
StakedBlock(taken, p) ==
  /\ staked # None /\ (taken => IsBlockPayeeValid(staked.h, staked.p))
  /\ SubmitBlock(taken, world.own /\ Voting, p)
  /\ UNCHANGED syncVars /\ Steady

Command == (CommandReads \/ CommandSets) /\ UNCHANGED syncVars /\ Steady

Count(t) == CountVote(t) /\ UNCHANGED syncVars /\ Steady

\* The masternode thread, when the chain is synchronised; it forgets the counts
\* of the votes that it removes.
Clean ==
  /\ process = "idle" /\ sync.chain /\ ~sync.overdue
  /\ CleanPaymentList
  /\ sync' = [sync EXCEPT !.seen = [i \in Items |-> IF i \in votes \ votes' THEN 0 ELSE @[i]]]
  /\ UNCHANGED <<conn, asked, process, recent, known, spork, sporkDB, checking>>
  /\ Steady

SyncStep ==
  /\ \/ \E lock \in BOOLEAN : Process(lock) \/ (process = "idle" /\ Poll(lock))
     \/ SyncWithNode \/ TipIsRecent
     \/ world.peers /\ Connect
     \/ StoreSpork \/ WriteSpork
  /\ UNCHANGED payVars /\ Steady

SporkArrives(t) ==
  /\ HandlerIsFree /\ world.sporks /\ CheckSpork(t)
  /\ UNCHANGED payVars /\ Steady

SporkCommand(t) ==
  /\ world.key /\ UpdateSpork(t)
  /\ UNCHANGED payVars /\ Steady

-----------------------------------------------------------------------------
Disturbance(kind) ==
  /\ kind \in world.disturb /\ disturbed < world.max
  /\ disturbed' = disturbed + 1 /\ UNCHANGED world

Disturb ==
  \/ Disturbance("sleep") /\ Sleep /\ UNCHANGED payVars
  \/ Disturbance("reset") /\ ResetCommand /\ UNCHANGED payVars
  \/ Disturbance("expire") /\ MasternodesExpire /\ UNCHANGED payVars
  \/ Disturbance("drop") /\ (\E k \in 1 .. conn : Disconnect(k)) /\ UNCHANGED payVars
  \/ Disturbance("invalidate") /\ (\E h \in Heights : TipMoves(h)) /\ UNCHANGED syncVars
  \/ Disturbance("stop") /\ HandlerIsFree /\ Restart /\ SyncRestart
  \/ Disturbance("crash") /\ (\E h \in Heights : Crash(h)) /\ SyncRestart

Next ==
  \/ \E i \in Items : ItemArrives(i)
  \/ \E v \in world.cast, signed \in BOOLEAN : WinnerArrives(v, signed)
  \/ \E extends \in BOOLEAN, p \in world.queue : PeerBlock(extends, p)
  \/ \E p \in world.queue \cap Payees : StakeBlock(p)
  \/ \E taken \in BOOLEAN, p \in world.queue : StakedBlock(taken, p)
  \/ \E t \in Threads : Count(t)
  \/ Command
  \/ Clean
  \/ SyncStep
  \/ \E t \in Times : SporkArrives(t) \/ SporkCommand(t)
  \/ Disturb

\* Where peers come and go, the threads of the node go on; cs_main is free when
\* it is asked for often enough; the chain catches up and the connection manager
\* fills its slots.
Fairness ==
  /\ WF_vars(world.peers /\ (\E lock \in BOOLEAN : Process(lock)) /\ UNCHANGED payVars /\ Steady)
  /\ WF_vars(world.peers /\ SyncWithNode /\ UNCHANGED payVars /\ Steady)
  /\ WF_vars(world.peers /\ process = "idle" /\ Poll(TRUE) /\ UNCHANGED payVars /\ Steady)
  /\ WF_vars(world.peers /\ TipIsRecent /\ UNCHANGED payVars /\ Steady)
  /\ WF_vars(world.peers /\ Connect /\ UNCHANGED payVars /\ Steady)

Spec == Init /\ [][Next]_vars /\ Fairness

-----------------------------------------------------------------------------

\* The synchronisation of a node that finds peers ends, after every sleep,
\* reset, restart or loss of peers, with success or with a failure after which
\* it is tried again (SyncWithNode).
SynchronisationEnds == (world.peers => SyncEnds)

\* The spork in force is never replaced by one signed earlier while the node
\* runs, unless it has the spork key: then a command can come between the check
\* and the store of ProcessSpork.
SporksGoForward ==
  [][spork' >= spork \/ world.key \/ disturbed' # disturbed]_vars

\* Between messages the spork in force is the one in the database, so that a
\* restart or crash goes on with it; UpdateSpork does not write its spork.
SporkIsSaved == checking.at # "stored" /\ ~world.key => sporkDB = spork
=============================================================================
