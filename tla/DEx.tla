-------------------------------- MODULE DEx --------------------------------
(***************************************************************************)
(* The exchange of tokens for RPD (tokencore/dex.cpp).  A seller offers    *)
(* tokens, which move from BALANCE to SELLOFFER_RESERVE.  A buyer accepts  *)
(* some of them, which move to the seller's ACCEPT_RESERVE for as many     *)
(* blocks as the offer's payment window has.  A plain payment in RPD from  *)
(* the buyer to the seller buys them; what is not paid for goes back when  *)
(* the window closes.  Meanwhile the seller may change or cancel the offer *)
(* and make another one.                                                   *)
(*                                                                         *)
(* The actions are the token transactions in the order of the chain        *)
(* (interpretPacket and the logicMath handlers of tx.cpp) and the end of a *)
(* block, which erases the orders that expire and issues property 1.       *)
(* HandleDExPayments and eraseExpiredAccepts are loops: `paying' and       *)
(* `erasing' hold what is left of them, and nothing else happens in        *)
(* between.  FEATURE_DEXMATH is active from block 0 on all networks: the   *)
(* floating-point calculations before it are left out.                     *)
(*                                                                         *)
(* Amounts are int64, with MaxInt for the largest.  The desired amount and *)
(* the minimum fee of an offer are the words of its message, whatever      *)
(* their sign; an assert of a conversion to or from 256 bits that fails    *)
(* ends the program (`halted').                                            *)
(***************************************************************************)
EXTENDS TokenTally, Sequences

CONSTANTS
    Amounts,            \* the token amounts that transactions name
    Prices,             \* the amounts of RPD desired
    Windows,            \* payment windows, in blocks
    MinFees,            \* the minimum fees that offers ask for
    Fees,               \* the fees that accepts pay
    RoyaltyPercent,     \* of each property
    RoyaltyReceiver,
    Receivers,          \* the addresses that plain sends go to
    Freezable,          \* the slots that their issuer may freeze
    Payments,           \* the outputs a payment may have: <<address, RPD>>...;
                        \* those to the exodus address are skipped
    MaxBlock,           \* bound: the number of blocks
    MaxOffers,          \* bound: the number of offers
    InitBalance,
    MSC,                \* TOKEN_PROPERTY_MSC, property 1
    Exodus,             \* exodus_address
    Vested,             \* block -> how much of property 1 its time may call for
    MaxInt              \* the largest int64

ASSUME AmountsType ==
    /\ Amounts \cup Windows \cup Fees \subseteq Nat
    /\ Prices \cup MinFees \subseteq Int
    /\ MaxInt \in Nat
ASSUME VestedType ==
    /\ MSC \in Property /\ Exodus \in Address
    /\ MaxBlock \in Nat /\ Vested \in [1 .. MaxBlock -> SUBSET Nat]
ASSUME RoyaltyType ==
    /\ RoyaltyPercent \in [Property -> Nat]
    /\ RoyaltyReceiver \in [Property -> Address]
ASSUME InitBalanceType == InitBalance \in [Slot -> Nat]
ASSUME ReceiversType == Receivers \subseteq Address
ASSUME FreezableType == Freezable \subseteq Slot
ASSUME PaymentsType == Payments \subseteq Seq((Address \ {Exodus}) \X Nat)

VARIABLES
    balance,            \* BALANCE
    sellofferReserve,   \* SELLOFFER_RESERVE
    acceptReserve,      \* ACCEPT_RESERVE
    my_offers,          \* <<seller, property>> -> the open offer
    my_accepts,         \* <<seller, property, buyer>> -> the accept order
    setFrozenAddresses,
    block,              \* the block whose transactions are applied
    txid,               \* of the last offer: offers are told apart by it
    paying,             \* the outputs HandleDExPayments has yet to look at
    erasing,            \* eraseExpiredAccepts is running
    exodus_prev,        \* what block ends have issued of property 1
    halted              \* an assert has failed

tally == <<balance, sellofferReserve, acceptReserve>>
ending == <<erasing, exodus_prev>>
vars == <<tally, my_offers, my_accepts, setFrozenAddresses, block, txid, paying, ending, halted>>

Nobody == << >>

\* CMPOffer and CMPAccept; an accept order copies the price and the window of
\* its offer, and the hash that tells which offer that was.
Offer == [amount : Nat \ {0}, desired : Int \ {0}, minFee : Int, window : Nat \ {0}, txid : Nat]
Accept == [remaining : Nat \ {0}, block : Nat, window : Nat \ {0},
           amount : Nat \ {0}, desired : Int \ {0}, txid : Nat]

Init ==
    /\ balance = InitBalance
    /\ sellofferReserve = [s \in Slot |-> 0]
    /\ acceptReserve = [s \in Slot |-> 0]
    /\ my_offers = << >>
    /\ my_accepts = << >>
    /\ setFrozenAddresses = {}
    /\ block = 1
    /\ txid = 0
    /\ paying = Nobody
    /\ erasing = FALSE
    /\ exodus_prev = SumOver(Address, LAMBDA a : InitBalance[<<a, MSC>>])
    /\ halted = FALSE

Idle == paying = Nobody /\ ~erasing /\ ~halted
-----------------------------------------------------------------------------
DEx_offerExists(who, p) == <<who, p>> \in DOMAIN my_offers

DEx_hasOfferOfIt(offers, who, p) == <<who, p>> \in DOMAIN offers

\* A seller has one offer at a time, whatever its property.
DEx_hasOffer(offers, who, p) == \E k \in DOMAIN offers : k[1] = who

\* interpretPacket refuses what a frozen address sends.
Permitted(who, p) == <<who, p>> \notin setFrozenAddresses

ReleasedLost(who, p) == balance

\* The tokens that an open offer still reserves, back in the balance.
Released(who, p) == Credit(balance, who, p, sellofferReserve[<<who, p>>])

\* DEx_offerCreate with the maps that it finds; offered # 0.  When it
\* refuses, what DEx_offerUpdate did before stays done.
DEx_offerCreate(bal, sell, offers, who, p, offered, desired, fee, window) ==
    IF window = 0 \/ desired = 0 \/ DEx_hasOffer(offers, who, p) \/ offered > bal[<<who, p>>]
    THEN balance' = bal /\ sellofferReserve' = sell /\ my_offers' = offers /\ UNCHANGED txid
    ELSE /\ balance' = Debit(bal, who, p, offered)
         /\ sellofferReserve' = Credit(sell, who, p, offered)
         /\ my_offers' = Put(offers, <<who, p>>,
                [amount |-> offered, desired |-> desired, minFee |-> fee,
                 window |-> window, txid |-> txid + 1])
         /\ txid' = txid + 1

DEx_offerDestroy(who, p) ==
    /\ balance' = Released(who, p)
    /\ sellofferReserve' = [sellofferReserve EXCEPT ![<<who, p>>] = 0]
    /\ my_offers' = Without(my_offers, {<<who, p>>})
    /\ UNCHANGED txid

\* The old offer is destroyed and a new one made, if it can be.
DEx_offerUpdate(who, p, offered, desired, fee, window) ==
    DEx_offerCreate(Released(who, p), [sellofferReserve EXCEPT ![<<who, p>>] = 0],
                    Without(my_offers, {<<who, p>>}), who, p, offered, desired, fee, window)

\* logicMath_TradeOffer in version 0, where an amount of 0 cancels, and in
\* version 1, where the message says what it is: the same three outcomes.
TradeOffer(who, p, offered, desired, fee, window) ==
    /\ Idle /\ Permitted(who, p)
    /\ txid < MaxOffers
    /\ offered > 0
    /\ IF DEx_offerExists(who, p)
       THEN DEx_offerUpdate(who, p, offered, desired, fee, window)
       ELSE DEx_offerCreate(balance, sellofferReserve, my_offers, who, p,
                            offered, desired, fee, window)
    /\ UNCHANGED <<acceptReserve, my_accepts, setFrozenAddresses, block, paying, ending, halted>>

CancelOffer(who, p) ==
    /\ Idle /\ Permitted(who, p)
    /\ DEx_offerExists(who, p)
    /\ DEx_offerDestroy(who, p)
    /\ UNCHANGED <<acceptReserve, my_accepts, setFrozenAddresses, block, paying, ending, halted>>
-----------------------------------------------------------------------------

\* What a buyer can reserve of an offer: no more than is left of it.
Reservable(seller, p, wanted) ==
    IF sellofferReserve[<<seller, p>>] >= wanted THEN wanted
    ELSE sellofferReserve[<<seller, p>>]

DEx_acceptCreate(buyer, seller, p, wanted, fee) ==
    LET o == my_offers[<<seller, p>>]
        n == Reservable(seller, p, wanted)
    IN  /\ Idle /\ Permitted(buyer, p)
        /\ DEx_offerExists(seller, p)
        /\ <<seller, p, buyer>> \notin DOMAIN my_accepts
        /\ fee >= o.minFee
        /\ n > 0
        /\ sellofferReserve' = Debit(sellofferReserve, seller, p, n)
        /\ acceptReserve' = Credit(acceptReserve, seller, p, n)
        /\ my_accepts' = Put(my_accepts, <<seller, p, buyer>>,
                [remaining |-> n, block |-> block, window |-> o.window,
                 amount |-> o.amount, desired |-> o.desired, txid |-> o.txid])
        /\ UNCHANGED <<balance, my_offers, setFrozenAddresses, block, txid, paying, ending, halted>>

OfferOfAnyKind(k) == DEx_offerExists(k[1], k[2])

\* Is the offer that the accept order k was made for still the open one?
SameOffer(k) ==
    /\ DEx_offerExists(k[1], k[2])
    /\ my_offers[<<k[1], k[2]>>].txid = my_accepts[k].txid

\* DEx_acceptDestroy of an accept order with tokens left.
DEx_acceptDestroy(k) ==
    LET n == my_accepts[k].remaining
    IN  /\ acceptReserve' = Debit(acceptReserve, k[1], k[2], n)
        /\ IF SameOffer(k)
           THEN /\ sellofferReserve' = Credit(sellofferReserve, k[1], k[2], n)
                /\ UNCHANGED balance
           ELSE /\ balance' = Credit(balance, k[1], k[2], n)
                /\ UNCHANGED sellofferReserve
        /\ my_accepts' = Without(my_accepts, {k})
-----------------------------------------------------------------------------
\* Rounded up, in favour of the buyer.
calculateDExPurchase(offered, desired, paid) == DivideAndRoundUp(paid * offered, desired)

\* The asserts of ConvertTo256 and ConvertTo64.
Convertible(offered, desired, paid) ==
    /\ desired >= 0 /\ paid >= 0
    /\ calculateDExPurchase(offered, desired, paid) <= MaxInt

\* A product of int64 (overflow wraps in the builds), and a division that
\* rounds towards zero.
Wrapped(x) == ((x + MaxInt + 1) % (2 * (MaxInt + 1))) - (MaxInt + 1)
Percentage(x) == IF x >= 0 THEN x \div 100 ELSE -((-x) \div 100)

RoyaltiesOf(p, desired) == Percentage(Wrapped(desired * RoyaltyPercent[p]))

\* Some output pays the receiver of royalties in full.
RoyaltiesPaid(p, desired, outs) ==
    RoyaltyPercent[p] > 0 =>
        \E i \in DOMAIN outs : /\ outs[i][1] = RoyaltyReceiver[p]
                               /\ outs[i][2] >= RoyaltiesOf(p, desired)

\* HandleDExPayments goes through the outputs twice; a payment by somebody
\* who has accepted nothing does nothing.
HandleDExPayments(buyer, outs) ==
    /\ Idle
    /\ \E k \in DOMAIN my_accepts : k[3] = buyer
    /\ paying' = [buyer |-> buyer, outs |-> outs, left |-> outs \o outs]
    /\ UNCHANGED <<tally, my_offers, my_accepts, setFrozenAddresses, block, txid, ending, halted>>

\* The accept orders that a payment from the buyer to the seller can be for:
\* the one for the token that the seller has on offer now.
PayableAccepts(seller, buyer) ==
    {k \in DOMAIN my_accepts : /\ k[1] = seller /\ k[3] = buyer
                               /\ DEx_offerExists(seller, k[2])
                               /\ my_accepts[k].desired # 0
                               /\ RoyaltiesPaid(k[2], my_accepts[k].desired, paying.outs)}

\* A payment of rpd to the seller with the royalties, which are paid for only
\* when there are any.
PaidFor(k, rpd) ==
    IF k[1] = RoyaltyReceiver[k[2]] \/ RoyaltyPercent[k[2]] = 0 THEN rpd
    ELSE rpd + RoyaltiesOf(k[2], my_accepts[k].desired)

\* What that buys of the accept order k.
PurchasedOf(k, rpd) ==
    LET a == my_accepts[k]
        n == calculateDExPurchase(a.amount, a.desired, PaidFor(k, rpd))
    IN  IF a.remaining < n THEN a.remaining ELSE n

\* An accept order that is paid for is gone, and with it the offer when
\* nothing is reserved any more.
Purchase(k, n) ==
    LET s == <<k[1], k[2]>>
        bal == Credit(balance, k[3], k[2], n)
        acc == Debit(acceptReserve, k[1], k[2], n)
        satisfied == n >= my_accepts[k].remaining
        soldOut == satisfied /\ sellofferReserve[s] = 0 /\ acc[s] = 0
    IN  /\ balance' = bal
        /\ acceptReserve' = acc
        /\ my_accepts' = IF satisfied THEN Without(my_accepts, {k})
                         ELSE [my_accepts EXCEPT ![k].remaining = @ - n]
        /\ my_offers' = IF soldOut THEN Without(my_offers, {s}) ELSE my_offers
        /\ UNCHANGED sellofferReserve

\* The next output of the payment.
DEx_payment ==
    /\ paying # Nobody /\ ~halted
    /\ paying.left # << >>
    /\ LET seller == Head(paying.left)[1]
           rpd == Head(paying.left)[2]
           payable == PayableAccepts(seller, paying.buyer)
       IN  \/ /\ payable = {}
              /\ UNCHANGED <<tally, my_offers, my_accepts, halted>>
           \/ \E k \in payable :
                IF Convertible(my_accepts[k].amount, my_accepts[k].desired, PaidFor(k, rpd))
                THEN Purchase(k, PurchasedOf(k, rpd)) /\ UNCHANGED halted
                ELSE halted' = TRUE /\ UNCHANGED <<tally, my_offers, my_accepts>>
    /\ paying' = [paying EXCEPT !.left = Tail(@)]
    /\ UNCHANGED <<setFrozenAddresses, block, txid, ending>>

PaymentDone ==
    /\ paying # Nobody /\ ~halted
    /\ paying.left = << >>
    /\ paying' = Nobody
    /\ UNCHANGED <<tally, my_offers, my_accepts, setFrozenAddresses, block, txid, ending, halted>>
-----------------------------------------------------------------------------
\* logicMath_SimpleSend.
SimpleSend(who, to, p, n) ==
    /\ Idle /\ Permitted(who, p)
    /\ n > 0
    /\ balance[<<who, p>>] >= n
    /\ balance' = Credit(Debit(balance, who, p, n), to, p, n)
    /\ UNCHANGED <<sellofferReserve, acceptReserve, my_offers, my_accepts, setFrozenAddresses,
                   block, txid, paying, ending, halted>>

FreezeTokens(s) ==
    /\ Idle
    /\ setFrozenAddresses' = setFrozenAddresses \cup {s}
    /\ UNCHANGED <<tally, my_offers, my_accepts, block, txid, paying, ending, halted>>

UnfreezeTokens(s) ==
    /\ Idle
    /\ setFrozenAddresses' = setFrozenAddresses \ {s}
    /\ UNCHANGED <<tally, my_offers, my_accepts, block, txid, paying, ending, halted>>

Expired(k) == block - my_accepts[k].block >= my_accepts[k].window

\* mastercore_handler_block_end calls eraseExpiredAccepts...
BlockEnd ==
    /\ Idle
    /\ block < MaxBlock
    /\ erasing' = TRUE
    /\ UNCHANGED <<tally, my_offers, my_accepts, setFrozenAddresses, block, txid, paying,
                   exodus_prev, halted>>

EraseExpiredAccept(k) ==
    /\ erasing
    /\ Expired(k)
    /\ DEx_acceptDestroy(k)
    /\ UNCHANGED <<my_offers, setFrozenAddresses, block, txid, paying, ending, halted>>

\* ...and then calculate_and_update_devmsc: what the time of the block calls
\* for and has not been issued goes to the exodus address.
NextBlock(devmsc) ==
    /\ erasing
    /\ \A k \in DOMAIN my_accepts : ~Expired(k)
    /\ erasing' = FALSE
    /\ block' = block + 1
    /\ IF devmsc < exodus_prev THEN UNCHANGED <<balance, exodus_prev>>
       ELSE /\ balance' = Credit(balance, Exodus, MSC, devmsc - exodus_prev)
            /\ exodus_prev' = devmsc
    /\ UNCHANGED <<sellofferReserve, acceptReserve, my_offers, my_accepts, setFrozenAddresses,
                   txid, paying, halted>>

Next ==
    \/ \E who \in Address, p \in Property :
        \/ \E n \in Amounts, d \in Prices, f \in MinFees, w \in Windows : TradeOffer(who, p, n, d, f, w)
        \/ CancelOffer(who, p)
        \/ \E seller \in Address, n \in Amounts, f \in Fees :
              DEx_acceptCreate(who, seller, p, n, f)
        \/ \E to \in Receivers, n \in Amounts : SimpleSend(who, to, p, n)
    \/ \E who \in Address, outs \in Payments : HandleDExPayments(who, outs)
    \/ DEx_payment
    \/ PaymentDone
    \/ \E s \in Freezable : FreezeTokens(s) \/ UnfreezeTokens(s)
    \/ BlockEnd
    \/ \E k \in DOMAIN my_accepts : EraseExpiredAccept(k)
    \/ \E devmsc \in Vested[block] : NextBlock(devmsc)

Spec == Init /\ [][Next]_vars
-----------------------------------------------------------------------------

AcceptsOf(s) == {k \in DOMAIN my_accepts : k[1] = s[1] /\ k[2] = s[2]}

Remaining(K) == SumOver(K, LAMBDA k : my_accepts[k].remaining)

\* DEx_getTokenForSale relies on "there can only be one active offer per
\* seller", and DEx_offerDestroy is the only way out of SELLOFFER_RESERVE but
\* for accepts: tokens are reserved for sale only while an offer is open that
\* can give them back, and it is the seller's only offer.
ReservedTokensAreOnOffer ==
    /\ \A s \in Slot : sellofferReserve[s] > 0 => s \in DOMAIN my_offers
    /\ \A k, l \in DOMAIN my_offers : k[1] = l[1] => k = l

\* An offer never sells more than it offered: what is left of it and what is
\* accepted of it is at most its amount, although accept orders of an earlier
\* offer for the same token expire meanwhile (DEx_acceptDestroy compares the
\* hashes) and the reserves are shared.
OfferNotOversold ==
    \A s \in DOMAIN my_offers :
        sellofferReserve[s]
          + Remaining({k \in AcceptsOf(s) : my_accepts[k].txid = my_offers[s].txid})
            <= my_offers[s].amount

\* Between blocks no accept order is open whose payment window has passed:
\* the buyer has the whole window and not a block more.
AcceptsExpireInTime ==
    ~erasing => \A k \in DOMAIN my_accepts :
        block - my_accepts[k].block <= my_accepts[k].window

\* Whatever is offered, accepted, paid for, cancelled or expired, the tokens
\* of a property neither appear nor vanish, and of property 1 there are those
\* that block ends have issued; and ACCEPT_RESERVE, which the accept orders of
\* all offers of a seller share (the old ones of offers that were cancelled,
\* too), is the sum of what DEx_payment and eraseExpiredAccepts will take out
\* of it.
TokensConserved ==
    /\ \A s \in Slot : acceptReserve[s] = Remaining(AcceptsOf(s))
    /\ \A p \in Property :
         SumOver(Address, LAMBDA a : balance[<<a, p>>] + sellofferReserve[<<a, p>>]
                                        + acceptReserve[<<a, p>>])
          = IF p = MSC THEN exodus_prev
            ELSE SumOver(Address, LAMBDA a : InitBalance[<<a, p>>])

\* update_tally_map asserts that no frozen address is debited: interpretPacket
\* keeps the transactions of a frozen address out, and nothing that others do
\* (payments, accepts, expiry) takes from its balance.
FrozenBalanceKept ==
    [][\A s \in setFrozenAddresses : balance'[s] >= balance[s]]_vars
=============================================================================
