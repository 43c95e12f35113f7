------------------------------- MODULE MNSync -------------------------------
(***************************************************************************)
(* The staged synchronisation of masternode data (src/masternode-sync.cpp) *)
(* and the sporks it waits for (src/spork.cpp), on a network that is not   *)
(* the regression test network.                                            *)
(*                                                                         *)
(* Time is counted in calls of Process that do something, one every        *)
(* MASTERNODE_SYNC_TIMEOUT = 5 seconds.  Peers are kept in the order of    *)
(* vNodes: a request goes to the first peer that has not had it yet and a  *)
(* new peer comes last, so asked[r] peers at the front have had request r. *)
(***************************************************************************)
EXTENDS Integers, Sequences, FiniteSets

CONSTANTS
  Threshold,   \* MASTERNODE_SYNC_THRESHOLD
  Quiet,       \* MASTERNODE_SYNC_TIMEOUT * 2, in periods
  Patience,    \* MASTERNODE_SYNC_TIMEOUT * 5, in periods
  Retry,       \* the minute after a failure, in periods
  MaxPeers,    \* the number of connections that the node opens
  Items,       \* the items on the network that the node can come to know
  AssetOf,     \* per item: the asset it belongs to
  SporkOn      \* per time of signing, from 1: does the spork 8 of that time
               \* turn the enforcement of masternode payments on?

ASSUME SyncAssumption ==
  /\ Threshold \in Nat \ {0} /\ Quiet \in Nat /\ Patience \in Nat /\ Retry \in Nat
  /\ MaxPeers \in Nat /\ MaxPeers > Patience /\ MaxPeers > 2
  /\ AssetOf \in [Items -> {"list", "mnw", "budget"}]
  /\ SporkOn \in Seq(BOOLEAN)

VARIABLES
  sync,     \* CMasternodeSync
  conn,     \* the number of peers
  asked,    \* per request: how many peers have had it
  process,  \* where the masternode thread is in Process
  recent,   \* is the tip of the chain less than an hour old?
  known,    \* is a masternode enabled (mnodeman.CountEnabled() > 0)?
  spork,    \* the spork message in memory, its time of signing, 0 for none
  sporkDB,  \* the spork in the database
  checking  \* ProcessSpork: the message that has passed the check, or is to
            \* be written

syncVars == <<sync, conn, asked, process, recent, known, spork, sporkDB, checking>>

Requests == {"getspork", "mnsync", "mnwsync", "busync"}
Assets == {"list", "mnw", "budget"}
Stages == Assets \cup {"initial", "sporks", "failed", "finished"}
Times == DOMAIN SporkOn

Never == -1

\* Reset; lastProcess = 0 makes the next IsBlockchainSynced reset once more.
Reset ==
  [stage |-> "initial", attempt |-> 0, since |-> 0, failure |-> Never,
   age |-> [a \in Assets |-> Never], seen |-> [i \in Items |-> 0],
   chain |-> FALSE, overdue |-> TRUE]

-----------------------------------------------------------------------------
\* IsBlockchainSynced: the state it leaves; s.chain is its result.  `lock': it
\* gets cs_main to look at the tip.
Polled(s, lock) ==
  LET t == IF s.overdue THEN Reset ELSE s
  IN [t EXCEPT !.overdue = FALSE, !.chain = @ \/ (lock /\ recent)]

\* AddedMasternodeList, AddedMasternodeWinner, AddedBudgetItem with an item that
\* is stored by now.  After the end of the synchronisation nothing reads the
\* times and counts until Reset clears them, and they are left alone.
Added(s, i) ==
  IF s.stage \in {"failed", "finished"} \/ s.seen[i] >= Threshold THEN s
  ELSE [s EXCEPT !.age[AssetOf[i]] = 0, !.seen[i] = @ + 1]

Following == [initial |-> "sporks", sporks |-> "list", list |-> "mnw",
              mnw |-> "budget", budget |-> "finished"]

\* GetNextAsset, for a stage that has one.
GetNextAsset(s) == [s EXCEPT !.stage = Following[@], !.attempt = 0, !.since = 0]

Aged(n, max) == IF n = Never \/ n > max THEN n ELSE n + 1

\* A period passes.
Later(s) ==
  [s EXCEPT !.since = Aged(@, Patience), !.failure = Aged(@, Retry),
            !.age = [a \in Assets |-> Aged(s.age[a], Quiet)]]

\* Process up to its loop over the peers.
Begun(s) ==
  CASE s.stage = "finished" /\ ~known               -> GetNextAsset(Reset)
    [] s.stage = "failed" /\ s.failure > Retry      -> GetNextAsset(Reset)
    [] s.stage = "initial"                          -> GetNextAsset(s)
    [] OTHER                                        -> s

Returns(s) == (s.stage = "finished" /\ known) \/ (s.stage = "failed" /\ s.failure <= Retry)

\* Data is asked for whatever the state of the chain.
WaitsNot(s) == FALSE

Waits(s) == ~s.chain /\ s.stage \notin {"initial", "sporks"}

Process(lock) ==
  LET s == Later(sync)
      t == Begun(s)
      u == Polled(t, lock)
  IN /\ process = "idle"
     /\ IF Returns(s)
        THEN sync' = s /\ UNCHANGED <<asked, process>>
        ELSE /\ sync' = u
             /\ asked' = IF t.stage = "sporks" /\ s.stage # "sporks"
                         THEN [r \in Requests |-> 0] ELSE asked
             /\ process' = IF Waits(u) THEN "idle" ELSE "ask"
     /\ UNCHANGED <<conn, recent, known, spork, sporkDB, checking>>

-----------------------------------------------------------------------------
RequestOf == [sporks |-> "getspork", list |-> "mnsync", mnw |-> "mnwsync", budget |-> "busync"]

IsSporkActive == spork > 0 /\ SporkOn[spork]

Failed(s) == [s EXCEPT !.stage = "failed", !.attempt = 0, !.failure = 0]

\* The attempt is not counted.
CountedNot(s) == s

Counted(s) == [s EXCEPT !.attempt = @ + 1]

\* Nothing new for a while, after enough peers were asked.
Settled(s) == s.age[s.stage] > Quiet /\ s.attempt >= Threshold

TimedOut(s) ==
  s.age[s.stage] = Never /\ (s.attempt >= Threshold * 3 \/ s.since > Patience)

\* What SyncWithNode does before it looks for a request that the peer has had.
Advances(s) ==
  /\ conn > 0 /\ s.stage \in Assets
  /\ Settled(s) \/ (s.stage = "budget" /\ TimedOut(s))

\* What it does with a peer that has not had the request.
Requested(s) ==
  IF s.stage = "sporks" THEN Counted(IF s.attempt >= 2 THEN GetNextAsset(s) ELSE s)
  ELSE IF TimedOut(s) THEN IF IsSporkActive THEN Failed(s) ELSE GetNextAsset(s)
  ELSE IF s.attempt >= Threshold * 3 THEN s ELSE Counted(s)

Askable(s) == s.stage \in DOMAIN RequestOf /\ asked[RequestOf[s.stage]] < conn

\* The loop of Process: SyncWithNode with one peer after the other until it
\* returns false, which it may never do.
SyncWithNode ==
  /\ process = "ask" /\ process' = "idle"
  /\ \/ Advances(sync) /\ sync' = GetNextAsset(sync) /\ UNCHANGED asked
     \/ /\ ~Advances(sync) /\ Askable(sync)
        /\ asked' = [asked EXCEPT ![RequestOf[sync.stage]] = @ + 1]
        /\ sync' = Requested(sync)
     \/ ~Advances(sync) /\ ~Askable(sync) /\ UNCHANGED <<sync, asked>>
  /\ UNCHANGED <<conn, recent, known, spork, sporkDB, checking>>

\* IsBlockchainSynced in the loop of the masternode thread and in the handlers.
Poll(lock) ==
  /\ sync' = Polled(sync, lock)
  /\ UNCHANGED <<conn, asked, process, recent, known, spork, sporkDB, checking>>

\* The chain catches up.
TipIsRecent ==
  /\ ~recent /\ recent' = TRUE
  /\ UNCHANGED <<sync, conn, asked, process, known, spork, sporkDB, checking>>

\* The machine sleeps for more than an hour.
Sleep ==
  /\ sync' = [sync EXCEPT !.overdue = TRUE] /\ recent' = FALSE
  /\ UNCHANGED <<conn, asked, process, known, spork, sporkDB, checking>>

\* The RPC mnsync reset.
ResetCommand ==
  /\ sync' = Reset
  /\ UNCHANGED <<conn, asked, process, recent, known, spork, sporkDB, checking>>

\* The masternodes that the node knows expire.
MasternodesExpire ==
  /\ known /\ known' = FALSE
  /\ UNCHANGED <<sync, conn, asked, process, recent, spork, sporkDB, checking>>

Connect ==
  /\ conn < MaxPeers /\ conn' = conn + 1
  /\ UNCHANGED <<sync, asked, process, recent, known, spork, sporkDB, checking>>

\* The k-th peer leaves.
Disconnect(k) ==
  /\ conn' = conn - 1
  /\ asked' = [r \in Requests |-> IF k <= asked[r] THEN asked[r] - 1 ELSE asked[r]]
  /\ UNCHANGED <<sync, process, recent, known, spork, sporkDB, checking>>

-----------------------------------------------------------------------------
\* An older message passes.
CheckSporkOlder(t) ==
  /\ checking.at = "idle" /\ t # spork
  /\ checking' = [at |-> "checked", time |-> t]
  /\ UNCHANGED <<sync, conn, asked, process, recent, known, spork, sporkDB>>

\* ProcessSpork up to the check of the signature, with a message signed at t.
CheckSpork(t) ==
  /\ checking.at = "idle" /\ t > spork
  /\ checking' = [at |-> "checked", time |-> t]
  /\ UNCHANGED <<sync, conn, asked, process, recent, known, spork, sporkDB>>

StoreSpork ==
  /\ checking.at = "checked"
  /\ spork' = checking.time /\ checking' = [checking EXCEPT !.at = "stored"]
  /\ UNCHANGED <<sync, conn, asked, process, recent, known, sporkDB>>

WriteSpork ==
  /\ checking.at = "stored"
  /\ sporkDB' = checking.time /\ checking' = [at |-> "idle", time |-> 0]
  /\ UNCHANGED <<sync, conn, asked, process, recent, known, spork>>

\* UpdateSpork at time t, on the node that has the spork key, in the RPC thread;
\* a spork in memory can be signed later than that.
UpdateSpork(t) ==
  /\ spork' = t
  /\ UNCHANGED <<sync, conn, asked, process, recent, known, sporkDB, checking>>

\* A restart; LoadSporksFromDB.
SyncRestart ==
  /\ sync' = Reset /\ conn' = 0 /\ asked' = [r \in Requests |-> 0]
  /\ process' = "idle" /\ spork' = sporkDB /\ checking' = [at |-> "idle", time |-> 0]
  /\ recent' \in {recent, FALSE} /\ known' \in {known, FALSE} /\ UNCHANGED sporkDB

-----------------------------------------------------------------------------

\* A node takes masternode payments and budgets as synchronised only when it
\* has seen its chain recent since the last reset: a sleep or a reset takes it
\* back however it meets the steps of Process (IsBlockchainSynced, Process).
SyncedHasChain ==
  sync.stage \in {"mnw", "budget", "finished"} => sync.chain

\* The synchronisation ends: it finishes, or fails and tries again.  The time
\* limits of SyncWithNode are looked at only with a peer that has not been
\* asked, so it takes more than Patience peers.
SyncEnds == []<>(sync.stage \in {"failed", "finished"})
=============================================================================
