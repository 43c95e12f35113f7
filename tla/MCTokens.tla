----------------------------- MODULE MCTokens -----------------------------
(* Property 1 is the token of the chain and property 3 a fixed issue, each *)
(* held by two addresses.  Property 4 is issued by a transaction, or is    *)
(* there at the start: managed by address 1, which can freeze it, or in    *)
(* the middle of a crowdsale.                                              *)
EXTENDS Tokens, TLC

Holdings(n1, n2) ==
    [s \in Slot |-> CASE s = <<1, 1>> -> 1 [] s = <<2, 1>> -> 2
                      [] s = <<1, 3>> -> 2 [] s = <<2, 3>> -> 2
                      [] s = <<1, 4>> -> n1 [] s = <<2, 4>> -> n2]

Issued == 1 :> NewSP("implied", Exodus, 3) @@ 3 :> NewSP("fixed", 2, 4)

MCScenarios ==
    {[idx |-> 0, balance |-> Holdings(0, 0), sp |-> Issued, crowds |-> << >>, freezing |-> {}],
     [idx |-> 1, balance |-> Holdings(1, 1), crowds |-> << >>, freezing |-> {<<4, 1>>},
      sp |-> Issued @@ 4 :> [NewSP("managed", 1, 0) EXCEPT !.created = 2]],
     [idx |-> 1, balance |-> Holdings(1, 2), freezing |-> {},
      crowds |-> 1 :> [prop |-> 4, desired |-> 3, deadline |-> 2, user |-> 2, issuer |-> 1],
      sp |-> Issued @@ 4 :> [NewSP("variable", 1, 1) EXCEPT !.desired = 3, !.deadline = 2,
                                                           !.earlybird = 100,
                                                           !.percentage = 50]]}

MCFeatures == {"fees", "metadex", "allpairs", "freezenotice", "stov1"}
MCInitFeatureBlock == [f \in MCFeatures |-> IF f \in {"freezenotice", "stov1"} THEN 2 ELSE 0]

MCTrades == {<<3, 2, 4, 1>>, <<4, 2, 3, 3>>, <<4, 1, 3, 1>>, <<1, 1, 3, 1>>, <<3, 1, 1, 1>>}

\* The second block has an earlier time than the first.
MCVested == [b \in 0 .. MaxBlock |-> IF b = 1 THEN {4} ELSE {2}]

\* Outputs that are within the range, whose sum is only as a word, and one of
\* zero.
MCSplits == {<<<<1, 1>>, <<2, 1>>>>, <<<<1, Word - 1>>, <<2, 2>>>>, <<<<2, 1>>, <<1, 0>>>>}
=============================================================================
