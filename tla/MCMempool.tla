------------------------------ MODULE MCMempool ------------------------------
(***************************************************************************)
(* Transactions for Mempool: 1 has the children 2 and 3, 3 is also a child *)
(* of 2 and has the child 6; 4 spends the same coin as 1, and 5 spends a    *)
(* coinbase.                                                               *)
(***************************************************************************)
EXTENDS Mempool

MCInputs ==
    <<{<<0, 1>>}, {<<1, 1>>}, {<<1, 2>>, <<2, 1>>}, {<<0, 1>>}, {<<7, 1>>}, {<<3, 1>>}>>
MCSize == <<1, 1, 1, 1, 2, 1>>
MCFee == <<1, 3, 1, 2, 3, 2>>
MCLockHeight == <<0, 0, 0, 1, 0, 0>>
MCCoins == {<<0, 1>>}
=============================================================================
