------------------------------ MODULE CoinSet ------------------------------
(***************************************************************************)
(* What the coins database promises to the rest of the node, with no       *)
(* caching in it: three plain maps from outpoints to coins and the block   *)
(* each of them stands for.  `durable' survives a crash, `current' is what *)
(* the node answers from (pcoinsTip), `pending' is what one block being    *)
(* connected or disconnected works on.  A block's changes become current   *)
(* all together or not at all, and so does what is made durable.           *)
(*                                                                         *)
(* Nothing stops a block from creating an output where one is unspent.     *)
(* From then on nothing is promised about that outpoint, which leaves the  *)
(* domain of the three maps; the promise for the others stands.            *)
(*                                                                         *)
(* Module Coins, the cache stack of src/src/coins.cpp, implements it.      *)
(***************************************************************************)
CONSTANTS Outpoints,    \* transaction outputs that may exist
          SpendableCoins, \* contents of a coin: output, height, coinbase flag
          Spent,        \* the null coin
          Blocks,       \* block hashes
          NoBlock       \* the null hash: an empty database stands for no block

VARIABLES durable, durableBest, current, currentBest,
          open, pending, pendingBest

vars == <<durable, durableBest, current, currentBest, open, pending, pendingBest>>

Empty == [o \in Outpoints |-> Spent]

Init ==
    /\ durable = Empty
    /\ current = Empty
    /\ pending = Empty
    /\ durableBest = NoBlock
    /\ currentBest = NoBlock
    /\ pendingBest = NoBlock
    /\ open = FALSE

\* A block starts: its working copy is the current set.
Begin ==
    /\ ~open
    /\ open' = TRUE
    /\ pending' = current
    /\ pendingBest' = currentBest
    /\ UNCHANGED <<durable, durableBest, current, currentBest>>

Change(o, c) ==
    /\ open
    /\ pending' = [pending EXCEPT ![o] = c]
    /\ UNCHANGED <<durable, durableBest, current, currentBest, open, pendingBest>>

Add(o, c) == pending[o] = Spent /\ Change(o, c)

Spend(o) == Change(o, Spent)

Without(o, map) == [p \in (DOMAIN map) \ {o} |-> map[p]]

\* An output is created over an unspent one: the outpoint is given up.
Overwrite(o) ==
    /\ open
    /\ pending[o] # Spent
    /\ durable' = Without(o, durable)
    /\ current' = Without(o, current)
    /\ pending' = Without(o, pending)
    /\ UNCHANGED <<durableBest, currentBest, open, pendingBest>>

SetBest(b) ==
    /\ open
    /\ pendingBest' = b
    /\ UNCHANGED <<durable, durableBest, current, currentBest, open, pending>>

\* The block's changes become current in one step.
Commit ==
    /\ open
    /\ current' = pending
    /\ currentBest' = pendingBest
    /\ open' = FALSE
    /\ UNCHANGED <<durable, durableBest, pending, pendingBest>>

\* The block is dropped and leaves no trace.
Abort ==
    /\ open
    /\ open' = FALSE
    /\ pending' = current
    /\ pendingBest' = currentBest
    /\ UNCHANGED <<durable, durableBest, current, currentBest>>

\* The current set becomes durable in one step, coins and best block together.
Sync ==
    /\ ~open
    /\ durable' = current
    /\ durableBest' = currentBest
    /\ UNCHANGED <<current, currentBest, open, pending, pendingBest>>

Crash ==
    /\ open' = FALSE
    /\ current' = durable
    /\ currentBest' = durableBest
    /\ pending' = durable
    /\ pendingBest' = durableBest
    /\ UNCHANGED <<durable, durableBest>>

Next ==
    \/ Begin
    \/ \E o \in DOMAIN pending, c \in SpendableCoins : Add(o, c)
    \/ \E o \in DOMAIN pending : Spend(o)
    \/ \E o \in DOMAIN pending : Overwrite(o)
    \/ \E b \in Blocks : SetBest(b)
    \/ Commit
    \/ Abort
    \/ Sync
    \/ Crash

Spec == Init /\ [][Next]_vars
=============================================================================
