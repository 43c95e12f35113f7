--------------------------- MODULE MCChainState ---------------------------
(* Block trees for model checking ChainState.                              *)
EXTENDS ChainState, TLC

\* Genesis 0, a branch 1-2 and a branch 3-4 of the same work; block 5 on 2.
ForkBlocks == 0 .. 5
ForkParent == 1 :> 0 @@ 2 :> 1 @@ 3 :> 0 @@ 4 :> 3 @@ 5 :> 2
ForkWork == 0 :> 1 @@ 1 :> 2 @@ 2 :> 3 @@ 3 :> 2 @@ 4 :> 3 @@ 5 :> 4
ForkAddress == [b \in ForkBlocks |-> b]

\* Genesis 0, a branch 1-2, and a block 3 of the same work as that branch.
HookBlocks == 0 .. 3
HookParent == 1 :> 0 @@ 2 :> 1 @@ 3 :> 0
HookWork == 0 :> 1 @@ 1 :> 2 @@ 2 :> 3 @@ 3 :> 3
HookAddress == [b \in HookBlocks |-> b]
===========================================================================
