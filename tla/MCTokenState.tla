---------------------------- MODULE MCTokenState ----------------------------
(***************************************************************************)
(* The tree of blocks for TokenState: three branches leave block 1, and    *)
(* one leaves the genesis block.                                           *)
(*                                                                         *)
(*                   7 -- 8 -- 9                                           *)
(*                  /                                                      *)
(*                 0 -- 1 -- 2 -- 3                                        *)
(*                      |\                                                 *)
(*                      | 4 -- 5 -- 6                                      *)
(*                       \                                                 *)
(*                        10 -- 11                                         *)
(*                                                                         *)
(***************************************************************************)
EXTENDS TokenState

TreeBlocks == 0 .. 11
TreeParent ==
    [b \in TreeBlocks |-> CASE b \in {0, 7} -> 0 [] b \in {4, 10} -> 1 [] OTHER -> b - 1]
=============================================================================
