------------------------------- MODULE MCDEx -------------------------------
(* One seller with tokens of two properties, two buyers, and royalties on  *)
(* the first property.  The second is property 1.                          *)
EXTENDS DEx, TLC

CONSTANTS sellerA, buyerB, issuerC, tokenP, tokenQ

MCInitBalance == [s \in Slot |-> IF s = <<sellerA, tokenP>> THEN 2 ELSE IF s = <<sellerA, tokenQ>> THEN 1 ELSE 0]

MCRoyaltyPercent == tokenP :> 50 @@ tokenQ :> 0
MCRoyaltyReceiver == tokenP :> issuerC @@ tokenQ :> sellerA

\* An output to the seller alone, and with an output for the royalties: for
\* half of the price, and for more than all of it; of an offer of two that would
\* buy more than an int64 holds.
MCPayments == {<<<<sellerA, 1>>>>} \cup {<<<<sellerA, n>>, <<issuerC, 1>>>> : n \in {0, MaxInt}}

\* A token is issued in block 1; the time of block 2 is earlier.
MCVested == [b \in 1 .. MaxBlock |-> IF b = 1 THEN {2} ELSE {1}]
MCFreezable == {<<sellerA, tokenP>>}
=============================================================================
