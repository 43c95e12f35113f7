--------------------------- MODULE MCMasternodes ---------------------------
(***************************************************************************)
(* Instances of Masternodes for TLC: three masternodes that vote besides   *)
(* the node's own, two payees, two votes required.                         *)
(***************************************************************************)
EXTENDS Masternodes

CONSTANTS m1, m2, m3, me, p1, p2, mnb, prop

MCMasternodeSet == {m1, m2, m3, me}
MCPayees == {p1, p2}

Vote(m, h, p) == [mn |-> m, height |-> h, payee |-> p]

\* The own masternode is in the top ten for heights 1, 2 and 4, the others
\* always, but for one that has no rank once.
MCTopRanked == (({m1, m2, m3} \X (1 .. 5)) \ {<<m2, 1>>}) \cup {<<me, 1>>, <<me, 2>>, <<me, 4>>}

MCSporkOn == <<TRUE, FALSE>>

MCUnranked == {<<m2, 1>>}

\* A new node synchronises.
SyncWorld ==
  [synced |-> FALSE, peers |-> TRUE, own |-> FALSE, top |-> 0, sporks |-> FALSE,
   spork |-> {0, 1}, key |-> FALSE, cast |-> {Vote(m1, 1, p1)}, queue |-> {}, max |-> 1,
   disturb |-> {"sleep", "reset", "expire", "drop"}]

\* A synchronised node votes and stakes.
VoteWorld ==
  [synced |-> TRUE, peers |-> FALSE, own |-> TRUE, top |-> 2, sporks |-> FALSE,
   spork |-> {1}, key |-> FALSE, queue |-> {p1, NoPayee},
   cast |-> {Vote(m1, 1, p1), Vote(m1, 2, p2), Vote(m2, 2, p1)},
   max |-> 0, disturb |-> {}]

\* One stakes, and blocks are invalidated and reconsidered while its block is
\* under way: its votes are cleaned, and others come for the same height.
StakeWorld ==
  [synced |-> TRUE, peers |-> FALSE, own |-> FALSE, top |-> 3, sporks |-> FALSE,
   spork |-> {1}, key |-> FALSE, queue |-> {p1},
   cast |-> {Vote(m1, 1, p1), Vote(m2, 1, p1), Vote(m3, 1, p2), Vote(me, 1, p2)},
   max |-> 1, disturb |-> {"invalidate"}]

\* One that votes and stakes is stopped and started.
RestartWorld ==
  [synced |-> TRUE, peers |-> FALSE, own |-> TRUE, top |-> 2, sporks |-> FALSE,
   spork |-> {0}, key |-> FALSE, queue |-> {p2},
   cast |-> {Vote(m1, 1, p1), Vote(me, 2, p2)}, max |-> 2,
   disturb |-> {"stop", "crash"}]

\* Sporks come while the node restarts, with and without the spork key.
SporkWorld(key) ==
  [synced |-> FALSE, peers |-> FALSE, own |-> FALSE, top |-> 0, sporks |-> TRUE,
   spork |-> {0}, key |-> key, queue |-> {}, cast |-> {}, max |-> 1,
   disturb |-> {"stop", "crash"}]

MCWorlds == {SyncWorld, VoteWorld, StakeWorld, RestartWorld, SporkWorld(TRUE), SporkWorld(FALSE)}

MCItems == {mnb, prop} \cup UNION {w.cast : w \in MCWorlds}

MCAssetOf ==
  [i \in MCItems |-> IF i = mnb THEN "list" ELSE IF i = prop THEN "budget" ELSE "mnw"]
=============================================================================
