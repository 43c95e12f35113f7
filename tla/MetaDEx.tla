------------------------------ MODULE MetaDEx ------------------------------
(***************************************************************************)
(* The exchange of tokens for tokens (tokencore/mdex.cpp), with the fees   *)
(* of trades (dbfees.cpp), the activation of features (rules.cpp) that     *)
(* decides whether it is open, and the frozen addresses that may not use   *)
(* it.                                                                     *)
(*                                                                         *)
(* A new order is matched against the book before the rest of it is put    *)
(* there: x_Trade goes through the orders of the other side by price and   *)
(* age.  `taking' is the new order on its way and `seen' the orders that   *)
(* x_Trade has passed; `returning' are the orders that a cancellation or   *)
(* the shutdown of the exchange has yet to give back.  Nothing else        *)
(* happens while one of these loops runs.                                  *)
(*                                                                         *)
(* Addresses are numbers, in the order of the strings; properties are the  *)
(* identifiers of the main ecosystem, 1 the token that fees go to the      *)
(* owners of.                                                              *)
(***************************************************************************)
EXTENDS TokenTally

CONSTANTS
    Trades,                     \* the orders made: <<property, amount, desired, amount>>
    Toggled,                    \* the features that are turned on and off
    FeeDivider,                 \* 2000: a fee of 0.05 %
    FeeThreshold,               \* TOKEN_FEE_THRESHOLD
    MinActivation,              \* MIN_ACTIVATION_BLOCKS
    DisabledBlock,              \* 999999, where DeactivateFeature puts a feature
    MaxTxs, MaxBlock            \* bounds: transactions and blocks

ASSUME TradesType == Trades \subseteq Property \X Nat \X Property \X Nat
ASSUME AddressesOrdered == Address \subseteq Int
ASSUME FeeAssumption == FeeDivider \in Nat \ {0}
ASSUME BlocksAssumption == MinActivation \in Nat /\ DisabledBlock \in Nat /\ MaxBlock \in Nat

VARIABLES
    balance,                    \* BALANCE
    metadexReserve,             \* METADEX_RESERVE
    metadex,                    \* the orders on the book
    taking,                     \* the order that x_Trade matches
    returning,                  \* orders that are being given back
    feeCache,                   \* the fees of a property not yet distributed
    distributionThresholds,
    featureBlock,               \* the block from which a feature is active
    setFrozenAddresses,
    block,
    idx,                        \* the number of transactions so far
    halted,                     \* the token layer no longer follows the chain:
                                \* a loop hangs, or an assert or exception ended it
    sp                          \* pDbSpInfo: property -> what is known of it

bookVars == <<metadexReserve, metadex, taking, returning>>
feeVars == <<feeCache, distributionThresholds>>
modeVars == <<featureBlock, setFrozenAddresses, block, halted>>
ruleVars == <<modeVars, sp>>
mdexVars == <<balance, bookVars, feeVars, ruleVars, idx>>

MSC == 1
TMSC == 2

\* CMPMetaDEx; idx stands for the block and the position that orders are
\* sorted by at the same price.
Order == [addr : Address, prop : Property, forsale : Nat \ {0}, desprop : Property,
          desired : Nat \ {0}, remaining : Nat, idx : Nat]
NoOrder == << >>

\* No handler is running.
Idle == ~halted /\ taking = NoOrder /\ returning = {}

\* A transaction that the bounds leave room for, sent by an address that is
\* not frozen (interpretPacket).
Ready == Idle /\ idx < MaxTxs
Permitted(who, p) == Ready /\ <<who, p>> \notin setFrozenAddresses

IsFeatureActivated(f) == block >= featureBlock[f]
IsPropertyIdValid(p) == p \in DOMAIN sp
-----------------------------------------------------------------------------
Min2(m, n) == IF m < n THEN m ELSE n
Max2(m, n) == IF m > n THEN m ELSE n

\* STO_GetReceivers: what each owner of p gets of the amount.  The owners
\* are served by their holdings, the largest first; pieces are rounded up
\* until nothing is left, so the last ones may get less or nothing.
Holding(bal, res, a, p) == bal[<<a, p>>] + res[<<a, p>>]
STO_GetReceivers(bal, res, Excluded, p, amount) ==
    LET Owners == {a \in Address \ Excluded : Holding(bal, res, a, p) > 0}
        total == SumOver(Owners, LAMBDA a : Holding(bal, res, a, p))
        Piece(a) == DivideAndRoundUp(Holding(bal, res, a, p) * amount, total)
        Before(a) == {b \in Owners : \/ Holding(bal, res, b, p) > Holding(bal, res, a, p)
                                     \/ /\ Holding(bal, res, b, p) = Holding(bal, res, a, p)
                                        /\ b < a}
    IN  [a \in Owners |-> Max2(0, Min2(Piece(a), amount - SumOver(Before(a), Piece)))]

\* The fees of p in the cache are given to the owners of MSC, as soon as they
\* reach the threshold (EvalCache and DistributeCache).
Distributes(fees, thresholds, p) == fees[p] >= thresholds[p]
WithFeesLost(bal, res, p, amount) == bal

WithFees(bal, res, p, amount) ==
    LET share == STO_GetReceivers(bal, res, {}, MSC, amount)
    IN  [s \in Slot |-> IF s[2] = p /\ s[1] \in DOMAIN share THEN bal[s] + share[s[1]] ELSE bal[s]]
-----------------------------------------------------------------------------
\* Prices are fractions.  The new order would pay at least what the old one
\* asks: new.inversePrice >= old.unitPrice.
Crosses(new, old) == new.forsale * old.forsale >= old.desired * new.desired

\* The order of md_PricesMap and, at the same price, of MetaDEx_compare.
ServedBefore(o, q) ==
    \/ o.desired * q.forsale < q.desired * o.forsale
    \/ o.desired * q.forsale = q.desired * o.forsale /\ o.idx < q.idx

\* How much of the old order the new one can buy at the old one's price,
\* rounded down, and what it pays for it, rounded up.
CouldBuy(new, old) == Min2((new.remaining * old.forsale) \div old.desired, old.remaining)
WouldPay(n, old) == DivideAndRoundUp(n * old.desired, old.forsale)

TooExpensiveNever(n, pay, new) == FALSE

\* The rounding may push the price above what the new order offers.
TooExpensive(n, pay, new) == pay * new.desired > new.forsale * n

\* An order that is not used up is put back in its place.
Replacement(left) == IF left.remaining > 0 THEN {left} ELSE {}

Matches == {o \in metadex : /\ o.prop = taking.desprop /\ o.desprop = taking.prop
                            /\ Crosses(taking, o)
                            /\ o.idx \notin taking.seen}

ChargesFee(o) == IsFeatureActivated("fees") /\ o.prop > TMSC /\ o.desprop > TMSC

\* logicMath_MetaDExTrade and the start of MetaDEx_ADD.
MetaDExTrade(who, p, n, q, d) ==
    /\ Permitted(who, p)
    /\ IsFeatureActivated("metadex")
    /\ p # q /\ n > 0 /\ d > 0
    /\ IsPropertyIdValid(p) /\ IsPropertyIdValid(q)
    /\ IsFeatureActivated("allpairs") \/ MSC \in {p, q}
    /\ balance[<<who, p>>] >= n
    /\ idx' = idx + 1
    /\ taking' = [addr |-> who, prop |-> p, forsale |-> n, desprop |-> q, desired |-> d,
                  remaining |-> n, idx |-> idx', seen |-> {}]
    /\ UNCHANGED <<balance, metadexReserve, metadex, returning, feeVars, ruleVars>>

\* The order that x_Trade comes to next.
x_Match(o) == o \in Matches /\ \A q \in Matches \ {o} : ServedBefore(o, q)

\* x_Trade passes over an order that it cannot fill.
x_Skip(o) ==
    /\ taking # NoOrder
    /\ taking.remaining > 0
    /\ x_Match(o)
    /\ LET n == CouldBuy(taking, o)
       IN  n = 0 \/ TooExpensive(n, WouldPay(n, o), taking)
    /\ taking' = [taking EXCEPT !.seen = @ \cup {o.idx}]
    /\ UNCHANGED <<balance, metadexReserve, metadex, returning, feeVars, ruleVars, idx>>

\* x_Trade trades with an order: the fee is taken, then the payment goes from
\* the balance of the buyer to the seller and the tokens sold from the
\* reserve of the seller to the buyer.
x_Trade(o) ==
    /\ taking # NoOrder
    /\ taking.remaining > 0
    /\ x_Match(o)
    /\ LET n == CouldBuy(taking, o)
           pay == WouldPay(n, o)
           fee == IF ChargesFee(o) THEN n \div FeeDivider ELSE 0
           fees == [feeCache EXCEPT ![o.prop] = @ + fee]
           distribute == ChargesFee(o) /\ Distributes(fees, distributionThresholds, o.prop)
           bal == IF distribute THEN WithFees(balance, metadexReserve, o.prop, fees[o.prop])
                  ELSE balance
           paid == Credit(Debit(bal, taking.addr, taking.prop, pay), o.addr, o.desprop, pay)
           left == [o EXCEPT !.remaining = @ - n]
       IN  /\ n > 0
           /\ ~TooExpensive(n, pay, taking)
           /\ balance' = Credit(paid, taking.addr, taking.desprop, n - fee)
           /\ metadexReserve' = Debit(metadexReserve, o.addr, o.prop, n)
           /\ feeCache' = IF distribute THEN [fees EXCEPT ![o.prop] = 0] ELSE fees
           /\ metadex' = (metadex \ {o}) \cup Replacement(left)
           /\ taking' = [taking EXCEPT !.remaining = @ - pay, !.seen = @ \cup {o.idx}]
    /\ UNCHANGED <<returning, distributionThresholds, ruleVars, idx>>

TakingRest == [addr |-> taking.addr, prop |-> taking.prop, forsale |-> taking.forsale,
               desprop |-> taking.desprop, desired |-> taking.desired,
               remaining |-> taking.remaining, idx |-> taking.idx]

ReservedInFull == taking.forsale

\* What the rest of a new order reserves.
Reserved == taking.remaining

\* The end of MetaDEx_ADD: the rest of the order goes on the book.
MetaDEx_INSERT ==
    /\ taking # NoOrder
    /\ taking.remaining = 0 \/ Matches = {}
    /\ IF taking.remaining = 0
       THEN UNCHANGED <<balance, metadexReserve, metadex>>
       ELSE /\ metadex' = metadex \cup {TakingRest}
            /\ balance' = Debit(balance, taking.addr, taking.prop, Reserved)
            /\ metadexReserve' = Credit(metadexReserve, taking.addr, taking.prop, Reserved)
    /\ taking' = NoOrder
    /\ UNCHANGED <<returning, feeVars, ruleVars, idx>>
-----------------------------------------------------------------------------
SamePrice(o, n, d) == o.desired * n = d * o.forsale

\* MetaDEx_CANCEL_AT_PRICE, _CANCEL_ALL_FOR_PAIR and _CANCEL_EVERYTHING.
MetaDExCancel(p, Orders) ==
    /\ IsFeatureActivated("metadex")
    /\ Orders # {}
    /\ returning' = Orders
    /\ idx' = idx + 1
    /\ UNCHANGED <<balance, metadexReserve, metadex, taking, feeVars, ruleVars>>

MetaDExCancelPrice(who, p, n, q, d) ==
    /\ Permitted(who, p)
    /\ p # q /\ n > 0 /\ d > 0
    /\ MetaDExCancel(p, {o \in metadex : /\ o.addr = who /\ o.prop = p /\ o.desprop = q
                                         /\ SamePrice(o, n, d)})

MetaDExCancelPair(who, p, q) ==
    /\ Permitted(who, p)
    /\ p # q
    /\ MetaDExCancel(p, {o \in metadex : o.addr = who /\ o.prop = p /\ o.desprop = q})

\* This transaction names no property: a frozen address may send it.
MetaDExCancelEcosystem(who) ==
    /\ Ready
    /\ MetaDExCancel(MSC, {o \in metadex : o.addr = who})

\* An order is taken off the book and its tokens go back to the balance.
ReturnOrder(o) ==
    /\ o \in returning
    /\ metadex' = metadex \ {o}
    /\ metadexReserve' = Debit(metadexReserve, o.addr, o.prop, o.remaining)
    /\ balance' = Credit(balance, o.addr, o.prop, o.remaining)
    /\ returning' = returning \ {o}
    /\ UNCHANGED <<taking, feeVars, ruleVars, idx>>
-----------------------------------------------------------------------------
\* logicMath_Activation, with the smallest notice allowed.
ActivateFeature(f) ==
    /\ Ready
    /\ ~IsFeatureActivated(f)
    /\ featureBlock' = [featureBlock EXCEPT ![f] = block + MinActivation]
    /\ idx' = idx + 1
    /\ UNCHANGED <<balance, bookVars, feeVars, setFrozenAddresses, block, halted, sp>>

\* What MetaDEx_SHUTDOWN and MetaDEx_SHUTDOWN_ALLPAIR take off the book.
ShutdownOrders(f) ==
    IF f = "metadex" THEN metadex
    ELSE IF f = "allpairs" THEN {o \in metadex : o.prop > TMSC /\ o.desprop > TMSC}
    ELSE {}

\* The loop of MetaDEx_SHUTDOWN_ALLPAIR does not step over the orders that it
\* keeps: with one on the book it never ends.
ShutdownHangs(f) == f = "allpairs" /\ ShutdownOrders(f) # metadex

\* logicMath_Deactivation.  What is on the book is given back at once, but the
\* feature itself is only off in the blocks before DisabledBlock: from there
\* on, and so on the main network, whose token layer starts at block 1827900,
\* it stays active and orders can be made again.
Deactivation(f) ==
    /\ Ready
    /\ IsFeatureActivated(f)
    /\ featureBlock' = [featureBlock EXCEPT ![f] = DisabledBlock]
    /\ IF ShutdownHangs(f) THEN halted' = TRUE /\ UNCHANGED returning
       ELSE returning' = ShutdownOrders(f) /\ UNCHANGED halted
    /\ idx' = idx + 1
    /\ UNCHANGED <<balance, metadexReserve, metadex, taking, feeVars, setFrozenAddresses, block, sp>>

\* The transactions of the exchange, and the steps of its loops.
MetaDExTransaction ==
    \/ \E who \in Address, t \in Trades :
        \/ MetaDExTrade(who, t[1], t[2], t[3], t[4])
        \/ MetaDExCancelPrice(who, t[1], t[2], t[3], t[4])
        \/ MetaDExCancelPair(who, t[1], t[3])
    \/ \E who \in Address : MetaDExCancelEcosystem(who)
    \/ \E f \in Toggled : ActivateFeature(f) \/ Deactivation(f)

MetaDExStep ==
    \/ \E o \in metadex : x_Skip(o) \/ x_Trade(o)
    \/ MetaDEx_INSERT
    \/ \E o \in returning : ReturnOrder(o)
-----------------------------------------------------------------------------
\* The types of the exchange.  That no amount is negative is what the asserts
\* around update_tally_map and those after a match in x_Trade say.
BookTypeOK ==
    /\ balance \in [Slot -> Nat]
    /\ metadexReserve \in [Slot -> Nat]
    /\ metadex \subseteq Order
    /\ returning \subseteq metadex
    /\ taking # NoOrder => TakingRest \in Order
    /\ feeCache \in [Property -> Nat]
    /\ setFrozenAddresses \subseteq Slot

\* METADEX_RESERVE is the sum of what the orders on the book have left: the
\* amounts that matches and cancellations take out of it; and in a block in
\* which the exchange, or the pairs without MSC, are not active, nothing of
\* theirs is on the book: it was all given back (MetaDEx_SHUTDOWN,
\* MetaDEx_SHUTDOWN_ALLPAIR) and no order was on its way past the shutdown.
MetaDExReserveIsExact ==
    /\ BookTypeOK
    /\ \A s \in Slot :
        metadexReserve[s] = SumOver({o \in metadex : <<o.addr, o.prop>> = s},
                                    LAMBDA o : o.remaining)
    /\ Idle => /\ ~IsFeatureActivated("metadex") => metadex = {}
               /\ ~IsFeatureActivated("allpairs") =>
                      \A o \in metadex : MSC \in {o.prop, o.desprop}

\* Whoever is filled, trades within the limits of both orders, whatever the
\* rounding: the buyer pays no more per token than they offered and the seller
\* gets no less than they asked (the asserts of x_Trade after a match).
TradesWithinLimits ==
    [][\A o \in metadex : taking # NoOrder /\ o \notin metadex' =>
         LET rest == {q \in metadex' : q.idx = o.idx}
             n == o.remaining - (IF rest = {} THEN 0 ELSE (CHOOSE q \in rest : TRUE).remaining)
             pay == taking.remaining - taking'.remaining
         IN  /\ n > 0 /\ pay > 0
             /\ pay * o.forsale >= n * o.desired
             /\ pay * taking.desired <= n * taking.forsale]_mdexVars

\* An order on the book is never for more than it has, and it has something
\* left; its place in the queue is its own.
OrdersAreOpen ==
    /\ \A o \in metadex : o.remaining > 0 /\ o.remaining <= o.forsale
    /\ \A o, q \in metadex : o.idx = q.idx => o = q
    /\ \A o \in metadex : o.idx <= idx

\* The balance of a frozen address is never debited: neither by what it sends
\* nor by what others do.  No handler asks for it but the sends to many, where
\* an amount can be negative for the tallies; update_tally_map refuses that
\* one, and the assert around it ends the token layer with the balance kept.
FrozenBalanceKept ==
    [][\A s \in setFrozenAddresses : balance'[s] >= balance[s]]_mdexVars
=============================================================================
