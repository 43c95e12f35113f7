------------------------------ MODULE MCLedger ------------------------------
(***************************************************************************)
(* Block 1 on the genesis block 0, and two branches on it: 2-3 and 4-5,    *)
(* where 5 is refused when its transactions were applied.  Updates count   *)
(* from height 2 on, so that of block 1 should never be applied.  The      *)
(* branches set different costs at height 2.  No two sets of blocks mint   *)
(* the same.                                                               *)
(***************************************************************************)
EXTENDS Ledger

Tree == 0..5
Parents == [b \in Tree |-> IF b = 4 THEN 1 ELSE b - 1]
Updates == [b \in Tree |-> CASE b \in {1, 3} -> "c1" [] b = 2 -> "c2" [] b = 4 -> "c3"
                             [] b = 5 -> "c2" [] OTHER -> "none"]
Mints == [b \in Tree |-> CASE b = 1 -> 1 [] b = 2 -> -3 [] b = 3 -> 9 [] b = 4 -> 27
                           [] OTHER -> 0]
Refused == {5}
=============================================================================
