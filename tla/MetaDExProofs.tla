---------------------------- MODULE MetaDExProofs ----------------------------
(****************************************************************************)
(* Proofs about the exchange of tokens, for all amounts, prices, addresses, *)
(* properties and features:                                                 *)
(*                                                                          *)
(*   - every trade is within the limits of both orders, and no order on     *)
(*     the book is overdrawn (the rounding is the heart of it: Fill);       *)
(*   - no address stays frozen that its issuer cannot unfreeze;             *)
(*   - the steps of the exchange keep the tokens of every property, and     *)
(*     do not debit a frozen balance.                                       *)
(*                                                                          *)
(* There are four inductive invariants: IInv of the book, FInv of           *)
(* freezing, MInv of the features and TInv of the tokens, which needs the   *)
(* first two.  That the other transactions keep TInv is in TokensProofs.    *)
(****************************************************************************)
EXTENDS Tokens, TallyProofs, TLAPS

(* The book. *)

\* A new order on its way: an order, and what x_Trade has passed.
Taker == [addr : Address, prop : Property, forsale : Nat \ {0}, desprop : Property,
          desired : Nat \ {0}, remaining : Nat, idx : Nat, seen : SUBSET Nat]

\* What a match of a new order with an old one moves: no more than either
\* has left, and at least what the old one asks.
LEMMA Fill ==
  ASSUME NEW new \in Taker, NEW old \in Order, CouldBuy(new, old) > 0
  PROVE  /\ CouldBuy(new, old) \in Nat /\ CouldBuy(new, old) <= old.remaining
         /\ WouldPay(CouldBuy(new, old), old) \in Nat \ {0}
         /\ WouldPay(CouldBuy(new, old), old) <= new.remaining
         /\ WouldPay(CouldBuy(new, old), old) * old.forsale >= CouldBuy(new, old) * old.desired
<1> DEFINE n == CouldBuy(new, old)
           D == old.desired
           F == old.forsale
           R == new.remaining
           most == (R * F) \div D
<1>1. D \in Nat \ {0} /\ F \in Nat \ {0} /\ R \in Nat /\ old.remaining \in Nat
  BY Zenon DEF Taker, Order
<1>2. R * F \in Nat
  BY <1>1
<1>3. most \in Nat /\ most * D <= R * F
  BY <1>1, <1>2, Division, Zenon
<1>4. n \in Nat /\ n <= old.remaining /\ n <= most /\ n > 0
  BY <1>1, <1>3 DEF CouldBuy, Min2
<1>5. WouldPay(n, old) = DivideAndRoundUp(n * D, F)
  BY Zenon DEF WouldPay
<1> HIDE DEF n, D, F, R, most
<1>6. n * D \in Nat \ {0} /\ n * D <= R * F
  <2>1. n * D <= most * D
    BY <1>1, <1>3, <1>4
  <2>2. n * D \in Nat \ {0} /\ most * D \in Nat
    BY <1>1, <1>3, <1>4
  <2> QED BY <2>1, <2>2, <1>2, <1>3
<1>7. /\ DivideAndRoundUp(n * D, F) \in Nat \ {0}
      /\ DivideAndRoundUp(n * D, F) * F >= n * D
      /\ DivideAndRoundUp(n * D, F) <= R
  BY <1>1, <1>6, Ceiling, Zenon
<1> QED BY <1>4, <1>5, <1>7, Zenon DEF n, D, F, R

\* The inductive invariant: the orders on the book are open and in their own
\* places; a new order on its way is younger than all of them, and no order is
\* given back meanwhile.
IInv ==
    /\ idx \in Nat
    /\ metadex \subseteq Order
    /\ OrdersAreOpen
    /\ returning \subseteq metadex
    /\ taking # NoOrder =>
          /\ taking \in Taker
          /\ taking.remaining <= taking.forsale
          /\ taking.idx <= idx
          /\ \A o \in metadex : o.idx < taking.idx
          /\ returning = {}

\* The book is empty at first.
LEMMA InitIInv == Init => IInv
<1> SUFFICES ASSUME Init PROVE IInv
  BY Zenon
<1>1. idx \in Nat
  BY ScenariosAssumption, Zenon DEF Init
<1>2. metadex = {} /\ taking = NoOrder /\ returning = {}
  BY Zenon DEF Init
<1> QED
  BY <1>1, <1>2, Zenon DEF IInv, OrdersAreOpen

\* What a trade with o leaves of it and of the new order.
Rest(o) == [o EXCEPT !.remaining = @ - CouldBuy(taking, o)]

\* What a step of x_Trade with a match is.
LEMMA TradeStep ==
  ASSUME IInv, NEW o \in metadex, x_Trade(o)
  PROVE  /\ taking \in Taker /\ o \in Order /\ o.prop \in Property
         /\ CouldBuy(taking, o) > 0
         /\ ~TooExpensive(CouldBuy(taking, o), WouldPay(CouldBuy(taking, o), o), taking)
         /\ metadex' = (metadex \ {o}) \cup Replacement(Rest(o))
         /\ taking' = [taking EXCEPT !.remaining = @ - WouldPay(CouldBuy(taking, o), o),
                                     !.seen = @ \cup {o.idx}]
         /\ taking # NoOrder /\ returning' = returning /\ idx' = idx
  BY Zenon DEF IInv, x_Trade, Rest, Order

\* The transactions other than those of the exchange leave the book alone.
LEMMA TransactionsKeepBook == Transaction => UNCHANGED bookVars /\ idx' = idx + 1
<1> SUFFICES ASSUME Transaction PROVE UNCHANGED bookVars /\ idx' = idx + 1
  BY Zenon
<1>1. ASSUME NEW who, NEW to, NEW p, NEW n, SimpleSend(who, to, p, n)
      PROVE  UNCHANGED bookVars /\ idx' = idx + 1
  BY <1>1, Zenon DEF SimpleSend, Tx
<1>2. ASSUME NEW who, NEW to, NEW p, NEW n, GrantTokens(who, to, p, n)
      PROVE  UNCHANGED bookVars /\ idx' = idx + 1
  BY <1>2, Zenon DEF GrantTokens, Tx
<1>3. ASSUME NEW who, NEW p, NEW q, NEW n, NEW v, SendToOwners(who, p, q, n, v) \/ RevokeTokens(who, p, n)
      PROVE  UNCHANGED bookVars /\ idx' = idx + 1
  BY <1>3, Zenon DEF SendToOwners, RevokeTokens, Tx
<1>4. ASSUME NEW who, NEW p, NEW n, CreatePropertyFixed(who, p, n)
      PROVE  UNCHANGED bookVars /\ idx' = idx + 1
  BY <1>4, Zenon DEF CreatePropertyFixed, Tx
<1>5. ASSUME NEW who, NEW p, NEW q, NEW n, NEW d, NEW e, NEW i,
             CreatePropertyVariable(who, p, q, n, d, e, i)
      PROVE  UNCHANGED bookVars /\ idx' = idx + 1
  BY <1>5, Zenon DEF CreatePropertyVariable, Tx
<1>6. ASSUME NEW who, NEW to, NEW n, RapidsPayment(who, to, n)
      PROVE  UNCHANGED bookVars /\ idx' = idx + 1
  BY <1>6, Zenon DEF RapidsPayment, Tx
<1>7. ASSUME NEW who, NEW p, CreatePropertyManaged(who, p) \/ CloseCrowdsale(who, p)
      PROVE  UNCHANGED bookVars /\ idx' = idx + 1
  BY <1>7, Zenon DEF CreatePropertyManaged, CloseCrowdsale, Tx
<1>8. ASSUME NEW who, NEW p, EnableFreezing(who, p) \/ DisableFreezing(who, p)
      PROVE  UNCHANGED bookVars /\ idx' = idx + 1
  BY <1>8, Zenon DEF EnableFreezing, DisableFreezing, Tx
<1>9. ASSUME NEW who, NEW to, NEW p, ChangeIssuer(who, to, p) \/ FreezeTokens(who, to, p)
                                       \/ UnfreezeTokens(who, to, p)
      PROVE  UNCHANGED bookVars /\ idx' = idx + 1
  BY <1>9, Zenon DEF ChangeIssuer, FreezeTokens, UnfreezeTokens, Tx
<1>10. ASSUME NEW who, NEW to, SendAll(who, to)
       PROVE  UNCHANGED bookVars /\ idx' = idx + 1
  BY <1>10, Zenon DEF SendAll, Tx
<1> QED BY <1>1, <1>2, <1>3, <1>4, <1>5, <1>6, <1>7, <1>8, <1>9, <1>10 DEF Transaction

\* Every step keeps the invariant of the book.
LEMMA StepKeepsIInv == IInv /\ [Next]_vars => IInv'
\* A transaction that leaves the book alone.
<1>KeepsBook.
    ASSUME IInv, Ready, UNCHANGED bookVars, idx' = idx \/ idx' = idx + 1
    PROVE  IInv'
  <2> USE <1>KeepsBook
  <2>1. metadex' = metadex /\ taking' = NoOrder /\ returning' = {}
    BY Zenon DEF bookVars, Ready, Idle
  <2>2. \A o \in metadex : o.idx \in Nat /\ o.idx <= idx
    BY Zenon DEF IInv, OrdersAreOpen, Order
  <2>3. idx \in Nat
    BY Zenon DEF IInv
  <2>4. \A o \in metadex : o.idx <= idx'
    BY <2>2, <2>3
  <2> QED BY <2>1, <2>3, <2>4 DEF IInv, OrdersAreOpen
\* A new order.
<1>TradeKeepsIInv.
    ASSUME IInv, NEW who \in Address, NEW t \in Trades,
           MetaDExTrade(who, t[1], t[2], t[3], t[4])
    PROVE  IInv'
  <2> USE <1>TradeKeepsIInv
  <2>1. t[1] \in Property /\ t[2] \in Nat /\ t[3] \in Property /\ t[4] \in Nat
    BY TradesType, Zenon
  <2>2. idx' \in Nat /\ idx' = idx + 1 /\ metadex' = metadex /\ returning' = {}
    BY DEF IInv, MetaDExTrade, Permitted, Ready, Idle
  <2>3. taking' \in Taker /\ taking'.remaining = taking'.forsale /\ taking'.idx = idx'
    BY <2>1, <2>2 DEF MetaDExTrade, Taker
  <2>4. \A o \in metadex : o.idx <= idx /\ o.idx \in Nat
    BY Zenon DEF IInv, OrdersAreOpen, Order
  <2>5. OrdersAreOpen'
    BY <2>2, <2>4 DEF IInv, OrdersAreOpen
  <2> QED BY <2>2, <2>3, <2>4, <2>5 DEF IInv, Taker
\* x_Trade passes over an order.
<1>SkipKeepsIInv.
    ASSUME IInv, NEW o \in metadex, x_Skip(o)
    PROVE  IInv'
  <2> USE <1>SkipKeepsIInv
  <2>1. o.idx \in Nat
    BY Zenon DEF IInv, Order
  <2>2. taking \in Taker
    BY Zenon DEF IInv, x_Skip
  <2>3. taking' \in Taker /\ taking'.remaining = taking.remaining /\ taking'.forsale = taking.forsale
        /\ taking'.idx = taking.idx
    BY <2>1, <2>2, Zenon DEF x_Skip, Taker
  <2> QED BY <2>3, Zenon DEF IInv, OrdersAreOpen, x_Skip
\* A match leaves of both orders what they have left.
<1>TradeKeepsBook.
    ASSUME IInv, NEW o \in metadex, x_Trade(o)
    PROVE  IInv'
  <2> USE <1>TradeKeepsBook
  <2> DEFINE n == CouldBuy(taking, o)
             pay == WouldPay(n, o)
  <2>1. taking \in Taker /\ o \in Order /\ n > 0
    BY TradeStep, Zenon
  <2>2. n \in Nat /\ n <= o.remaining /\ pay \in Nat \ {0} /\ pay <= taking.remaining
    BY <2>1, Fill, Zenon
  <2>3. /\ metadex' = (metadex \ {o}) \cup Replacement(Rest(o))
        /\ taking' = [taking EXCEPT !.remaining = @ - pay, !.seen = @ \cup {o.idx}]
        /\ taking # NoOrder /\ returning' = returning /\ idx' = idx
    BY TradeStep, Zenon
  <2>4. Rest(o) = [o EXCEPT !.remaining = @ - n]
    BY Zenon DEF Rest
  <2> HIDE DEF n, pay
  <2>5. /\ Rest(o) \in Order /\ Rest(o).idx = o.idx /\ Rest(o).forsale = o.forsale
        /\ Rest(o).remaining = o.remaining - n
    BY <2>1, <2>2, <2>4 DEF Order
  <2>6. o.remaining \in Nat /\ o.remaining <= o.forsale /\ o.idx \in Nat /\ o.idx <= idx
        /\ o.forsale \in Nat
    BY <2>1, Zenon DEF IInv, OrdersAreOpen, Order
  <2>7. \A q \in metadex' : q \in metadex \ {o} \/ (q = Rest(o) /\ Rest(o).remaining > 0)
    BY <2>3, Zenon DEF Replacement
  <2>8. metadex' \subseteq Order
    BY <2>5, <2>7, Zenon DEF IInv
  <2>9. OrdersAreOpen'
    <3>1. \A q \in metadex' : q.remaining > 0 /\ q.remaining <= q.forsale /\ q.idx <= idx'
      BY <2>2, <2>3, <2>5, <2>6, <2>7 DEF IInv, OrdersAreOpen
    <3>2. \A q, r \in metadex' : q.idx = r.idx => q = r
      BY <2>5, <2>7, Zenon DEF IInv, OrdersAreOpen
    <3> QED BY <3>1, <3>2, Zenon DEF OrdersAreOpen
  <2>10. /\ taking' \in Taker /\ taking'.remaining <= taking'.forsale
         /\ taking'.idx = taking.idx
    <3>1. taking.remaining \in Nat /\ taking.forsale \in Nat /\ taking.remaining <= taking.forsale
      BY <2>1, <2>3, Zenon DEF IInv, Taker
    <3>2. taking'.remaining = taking.remaining - pay /\ taking'.forsale = taking.forsale
          /\ taking'.idx = taking.idx
      BY <2>1, <2>3, Zenon DEF Taker
    <3>3. taking.remaining - pay \in Nat
      BY <2>2, <3>1
    <3>4. taking' \in Taker
      BY <2>1, <2>3, <2>6, <3>3, Zenon DEF Taker
    <3> QED BY <2>2, <3>1, <3>2, <3>4
  <2>11. \A q \in metadex' : q.idx < taking'.idx
    BY <2>3, <2>5, <2>7, <2>10, Zenon DEF IInv
  <2> QED BY <2>3, <2>8, <2>9, <2>10, <2>11, Zenon DEF IInv
\* The rest of a new order goes on the book.
<1>InsertKeepsIInv.
    ASSUME IInv, MetaDEx_INSERT
    PROVE  IInv'
  <2> USE <1>InsertKeepsIInv
  <2>1. taking \in Taker /\ taking.remaining <= taking.forsale /\ taking.idx <= idx
        /\ (\A o \in metadex : o.idx < taking.idx) /\ returning = {}
    BY Zenon DEF IInv, MetaDEx_INSERT
  <2>2. TakingRest \in Order /\ TakingRest.idx = taking.idx
        /\ TakingRest.remaining = taking.remaining /\ TakingRest.forsale = taking.forsale
    BY <2>1, Zenon DEF TakingRest, Taker, Order
  <2>3. taking' = NoOrder /\ returning' = {} /\ idx' = idx
    BY <2>1, Zenon DEF MetaDEx_INSERT
  <2>4. CASE taking.remaining = 0
    BY <2>3, <2>4, Zenon DEF MetaDEx_INSERT, IInv, OrdersAreOpen
  <2>5. CASE taking.remaining # 0
    <3>1. metadex' = metadex \cup {TakingRest}
      BY <2>5, Zenon DEF MetaDEx_INSERT
    <3>2. \A o \in metadex : o.idx \in Nat /\ taking.idx \in Nat /\ taking.remaining \in Nat
      BY <2>1, Zenon DEF IInv, Order, Taker
    <3>3. OrdersAreOpen'
      <4>1. \A o \in metadex' : o.remaining > 0 /\ o.remaining <= o.forsale /\ o.idx <= idx'
        BY <2>1, <2>2, <2>3, <2>5, <3>1 DEF IInv, OrdersAreOpen, Taker
      <4>2. \A o, q \in metadex' : o.idx = q.idx => o = q
        BY <2>1, <2>2, <3>1, <3>2 DEF IInv, OrdersAreOpen
      <4> QED BY <4>1, <4>2, Zenon DEF OrdersAreOpen
    <3> QED BY <2>2, <2>3, <3>1, <3>3, Zenon DEF IInv
  <2> QED BY <2>4, <2>5, Zenon
\* An order is given back.
<1>ReturnKeepsIInv.
    ASSUME IInv, NEW o \in returning, ReturnOrder(o)
    PROVE  IInv'
  <2> USE <1>ReturnKeepsIInv
  <2>1. taking = NoOrder
    BY Zenon DEF IInv
  <2> QED BY <2>1, Zenon DEF ReturnOrder, IInv, OrdersAreOpen
\* Orders are to be given back, at the request of their owner or because the
\* exchange is closed.
<1>ReturningKeepsIInv.
    ASSUME IInv, Ready, metadex' = metadex, taking' = taking, idx' = idx + 1,
           returning' \subseteq metadex
    PROVE  IInv'
  <2> USE <1>ReturningKeepsIInv
  <2>1. taking' = NoOrder
    BY Zenon DEF Ready, Idle
  <2>2. \A o \in metadex : o.idx \in Nat /\ o.idx <= idx
    BY Zenon DEF IInv, OrdersAreOpen, Order
  <2>3. idx \in Nat
    BY Zenon DEF IInv
  <2>4. \A o \in metadex : o.idx <= idx'
    BY <2>2, <2>3
  <2> QED BY <2>1, <2>3, <2>4 DEF IInv, OrdersAreOpen
<1> SUFFICES ASSUME IInv, [Next]_vars PROVE IInv'
  BY Zenon
<1>1. CASE Ready /\ Transaction
  BY <1>1, TransactionsKeepBook, <1>KeepsBook, Zenon
<1>6. ASSUME Ready, NEW who, NEW p, NEW outs, SendToMany(who, p, outs) PROVE IInv'
  BY <1>6, <1>KeepsBook, Zenon DEF SendToMany, Tx
<1>7. ASSUME UNCHANGED bookVars, idx' = idx PROVE IInv'
  BY <1>7, Zenon DEF bookVars, IInv, OrdersAreOpen
<1>8. CASE SendOutput
  BY <1>7, <1>8, Zenon DEF SendOutput
<1>9. ASSUME NEW devmsc, BlockEnd(devmsc) PROVE IInv'
  BY <1>7, <1>9, Zenon DEF BlockEnd
<1>2. CASE Ready /\ MetaDExTransaction
  <2>1. ASSUME NEW who \in Address, NEW t \in Trades,
               MetaDExTrade(who, t[1], t[2], t[3], t[4])
        PROVE  IInv'
    BY <2>1, <1>TradeKeepsIInv, Zenon
  <2>2. ASSUME NEW p, NEW Orders, Orders \subseteq metadex, MetaDExCancel(p, Orders)
        PROVE  IInv'
    BY <1>2, <2>2, <1>ReturningKeepsIInv, Zenon DEF MetaDExCancel
  <2>3. ASSUME NEW who \in Address, NEW t \in Trades,
               MetaDExCancelPrice(who, t[1], t[2], t[3], t[4]) \/ MetaDExCancelPair(who, t[1], t[3])
        PROVE  IInv'
    <3>1. CASE MetaDExCancelPrice(who, t[1], t[2], t[3], t[4])
      BY <3>1, <2>2 DEF MetaDExCancelPrice
    <3>2. CASE MetaDExCancelPair(who, t[1], t[3])
      BY <3>2, <2>2, Zenon DEF MetaDExCancelPair
    <3> QED BY <2>3, <3>1, <3>2, Zenon
  <2>4. ASSUME NEW who \in Address, MetaDExCancelEcosystem(who) PROVE IInv'
    BY <2>4, <2>2, Zenon DEF MetaDExCancelEcosystem
  <2>5. ASSUME NEW f \in Toggled, ActivateFeature(f) PROVE IInv'
    BY <1>2, <2>5, <1>KeepsBook, Zenon DEF ActivateFeature
  <2>6. ASSUME NEW f \in Toggled, Deactivation(f) PROVE IInv'
    <3>1. returning' \subseteq metadex
      BY <1>2, <2>6, Zenon DEF Deactivation, ShutdownOrders, Ready, Idle
    <3> QED BY <1>2, <2>6, <3>1, <1>ReturningKeepsIInv, Zenon DEF Deactivation
  <2> QED BY <1>2, <2>1, <2>3, <2>4, <2>5, <2>6, Zenon DEF MetaDExTransaction
<1>3. CASE MetaDExStep
  BY <1>3, <1>SkipKeepsIInv, <1>TradeKeepsBook, <1>InsertKeepsIInv, <1>ReturnKeepsIInv, Zenon DEF MetaDExStep
<1>4. CASE BlockBegin
  BY <1>4, <1>7, Zenon DEF BlockBegin
<1>5. CASE UNCHANGED vars
  BY <1>5, <1>7, Zenon DEF vars, mdexVars
<1> QED BY <1>1, <1>2, <1>3, <1>4, <1>5, <1>6, <1>8, <1>9, Zenon DEF Next, BlockIsOpen

\* The invariant of the book holds throughout.
LEMMA BookInvariance == Spec => []IInv
<1>1. Init => IInv
  BY InitIInv, Zenon
<1>2. IInv /\ [Next]_vars => IInv'
  BY StepKeepsIInv, Zenon
<1> QED BY <1>1, <1>2, PTL DEF Spec

\* Whatever is sent, issued, traded, cancelled or shut down, an order on the
\* book has something left and no more than it offered, and a place in the
\* queue that no other order has.
THEOREM OrdersStayOpen == Spec => []OrdersAreOpen
<1>1. IInv => OrdersAreOpen
  BY Zenon DEF IInv
<1> QED BY <1>1, BookInvariance, PTL

\* What one step of x_Trade does to the order that it trades with.
Within(o) ==
    LET rest == {q \in metadex' : q.idx = o.idx}
        n == o.remaining - (IF rest = {} THEN 0 ELSE (CHOOSE q \in rest : TRUE).remaining)
        pay == taking.remaining - taking'.remaining
    IN  /\ n > 0 /\ pay > 0
        /\ pay * o.forsale >= n * o.desired
        /\ pay * taking.desired <= n * taking.forsale

\* In every match of the exchange the seller is paid at least the price of
\* their order and the buyer pays at most the price of theirs, for all
\* amounts and prices: rounding is never at the expense of either limit.
THEOREM EveryTradeIsWithinLimits == Spec => TradesWithinLimits
\* The order that is traded with loses what is bought from it.
<1>TradeIsWithin.
    ASSUME IInv, NEW o \in metadex, x_Trade(o)
    PROVE  Within(o)
  <2> USE <1>TradeIsWithin
  <2> DEFINE n == CouldBuy(taking, o)
             pay == WouldPay(n, o)
             rest == {q \in metadex' : q.idx = o.idx}
             left == IF rest = {} THEN 0 ELSE (CHOOSE q \in rest : TRUE).remaining
  <2>1. taking \in Taker /\ o \in Order /\ n > 0
    BY TradeStep, Zenon
  <2>2. n \in Nat /\ n <= o.remaining /\ pay \in Nat \ {0} /\ pay <= taking.remaining
        /\ pay * o.forsale >= n * o.desired
    BY <2>1, Fill, Zenon
  <2>3. /\ metadex' = (metadex \ {o}) \cup Replacement(Rest(o))
        /\ taking' = [taking EXCEPT !.remaining = @ - pay, !.seen = @ \cup {o.idx}]
        /\ ~TooExpensive(n, pay, taking)
    BY TradeStep, Zenon
  <2>4. Rest(o) = [o EXCEPT !.remaining = @ - n]
    BY Zenon DEF Rest
  <2> HIDE DEF n, pay
  <2>5. Rest(o).idx = o.idx /\ Rest(o).remaining = o.remaining - n
    BY <2>1, <2>4, Zenon DEF Order
  <2>6. \A q \in metadex \ {o} : q.idx # o.idx
    BY Zenon DEF IInv, OrdersAreOpen
  <2>7. rest = Replacement(Rest(o))
    BY <2>3, <2>5, <2>6, Zenon DEF Replacement
  <2>8. o.remaining \in Nat /\ taking.remaining \in Nat /\ taking.desired \in Nat /\ taking.forsale \in Nat
    BY <2>1, Zenon DEF Order, Taker
  <2>9. left = o.remaining - n
    <3>1. CASE Rest(o).remaining > 0
      BY <2>5, <2>7, <3>1, Zenon DEF Replacement
    <3>2. CASE ~(Rest(o).remaining > 0)
      BY <2>2, <2>5, <2>7, <2>8, <3>2 DEF Replacement
    <3> QED BY <3>1, <3>2, Zenon
  <2> HIDE DEF left
  <2>10. o.remaining - left = n
    BY <2>2, <2>8, <2>9
  <2>11. taking.remaining - taking'.remaining = pay
    <3>1. taking'.remaining = taking.remaining - pay
      BY <2>1, <2>3, Zenon DEF Taker
    <3> QED BY <2>2, <2>8, <3>1
  <2>12. pay * taking.desired <= n * taking.forsale
    <3>1. ~(pay * taking.desired > taking.forsale * n)
      BY <2>3, Zenon DEF TooExpensive
    <3>2. pay * taking.desired \in Nat /\ n * taking.forsale \in Nat /\ n * taking.forsale = taking.forsale * n
      BY <2>2, <2>8
    <3> QED BY <3>1, <3>2
  <2>13. Within(o) <=> /\ (o.remaining - left) > 0 /\ taking.remaining - taking'.remaining > 0
                       /\ (taking.remaining - taking'.remaining) * o.forsale >= (o.remaining - left) * o.desired
                       /\ (taking.remaining - taking'.remaining) * taking.desired <= (o.remaining - left) * taking.forsale
    BY Zenon DEF Within, left
  <2> QED BY <2>1, <2>2, <2>10, <2>11, <2>12, <2>13
\* An order leaves the book, or changes, while a new one is matched only
\* because of a trade with it.
<1>OnlyTradesTouchOrders.
    ASSUME IInv, [Next]_vars, NEW o \in metadex, taking # NoOrder, o \notin metadex'
    PROVE  x_Trade(o)
  <2> USE <1>OnlyTradesTouchOrders
  <2>1. returning = {} /\ ~Ready /\ ~Idle
    BY Zenon DEF IInv, Ready, Idle
  <2>2. ~UNCHANGED vars
    BY Zenon DEF vars, mdexVars, bookVars
  <2>3. MetaDExStep
    <3>1. UNCHANGED bookVars => FALSE
      BY Zenon DEF bookVars
    <3>2. ~SendOutput /\ ~BlockBegin /\ (\A devmsc : ~BlockEnd(devmsc))
      BY <3>1, Zenon DEF SendOutput, BlockBegin, BlockEnd
    <3> QED
      BY <2>1, <2>2, <3>2, Zenon DEF Next, BlockIsOpen
  <2>4. ASSUME NEW q \in metadex, x_Skip(q) PROVE FALSE
    BY <2>4, Zenon DEF x_Skip
  <2>5. ~MetaDEx_INSERT
    BY Zenon DEF MetaDEx_INSERT
  <2>6. PICK q \in metadex : x_Trade(q)
    BY <2>1, <2>3, <2>4, <2>5, Zenon DEF MetaDExStep
  <2>7. metadex' = (metadex \ {q}) \cup Replacement(Rest(q))
    BY <2>6, TradeStep, Zenon
  <2>8. q = o
    BY <2>7, Zenon
  <2> QED BY <2>6, <2>8, Zenon
<1>1. IInv /\ [Next]_vars => [\A o \in metadex : taking # NoOrder /\ o \notin metadex' => Within(o)]_mdexVars
  BY <1>OnlyTradesTouchOrders, <1>TradeIsWithin, Zenon
<1>2. IInv /\ [Next]_vars =>
        [\A o \in metadex : taking # NoOrder /\ o \notin metadex' =>
         LET rest == {q \in metadex' : q.idx = o.idx}
             n == o.remaining - (IF rest = {} THEN 0 ELSE (CHOOSE q \in rest : TRUE).remaining)
             pay == taking.remaining - taking'.remaining
         IN  /\ n > 0 /\ pay > 0
             /\ pay * o.forsale >= n * o.desired
             /\ pay * taking.desired <= n * taking.forsale]_mdexVars
  BY <1>1, Zenon DEF Within
<1> QED BY <1>2, BookInvariance, PTL DEF Spec, TradesWithinLimits

-----------------------------------------------------------------------------
(* Frozen addresses. *)

\* The inductive invariant of freezing.
FInv ==
    /\ block \in Nat
    /\ setFrozenAddresses \subseteq Slot
    /\ setFreezingEnabledProperties \subseteq Property \X Nat
    /\ \A s \in setFrozenAddresses : isFreezingEnabled(s[2])

\* What a transaction or a step other than those on freezing leaves alone.
freezeVars == <<block, setFrozenAddresses, setFreezingEnabledProperties>>

\* Every step keeps it; a new block can only enable more.
LEMMA StepKeepsFInv == FInv /\ [Next]_vars => FInv'
\* A step that touches nothing of freezing keeps the invariant of it.
<1>FreezeUnchanged.
    ASSUME FInv, UNCHANGED freezeVars
    PROVE  FInv'
    BY <1>FreezeUnchanged, Zenon DEF FInv, freezeVars, isFreezingEnabled
\* Only four transactions change what is or can be frozen.
<1>TransactionsKeepFrozen.
    ASSUME Transaction
    PROVE  \/ UNCHANGED freezeVars
           \/ \E who \in Address, p \in Property :
                EnableFreezing(who, p) \/ DisableFreezing(who, p)
           \/ \E who \in Address, to \in Address, p \in Property :
                FreezeTokens(who, to, p) \/ UnfreezeTokens(who, to, p)
  <2> USE <1>TransactionsKeepFrozen
  <2>1. ASSUME NEW who, NEW to, NEW p, NEW n, SimpleSend(who, to, p, n)
        PROVE  UNCHANGED freezeVars
    BY <2>1, Zenon DEF SimpleSend, freezeVars
  <2>2. ASSUME NEW who, NEW to, NEW p, NEW n, GrantTokens(who, to, p, n)
        PROVE  UNCHANGED freezeVars
    BY <2>2, Zenon DEF GrantTokens, freezeVars, modeVars
  <2>3. ASSUME NEW who, NEW p, NEW q, NEW n, NEW v, SendToOwners(who, p, q, n, v) \/ RevokeTokens(who, p, n)
        PROVE  UNCHANGED freezeVars
    BY <2>3, Zenon DEF SendToOwners, RevokeTokens, freezeVars, modeVars, ruleVars, issueVars
  <2>4. ASSUME NEW who, NEW p, NEW n, CreatePropertyFixed(who, p, n)
        PROVE  UNCHANGED freezeVars
    BY <2>4, Zenon DEF CreatePropertyFixed, freezeVars, modeVars
  <2>5. ASSUME NEW who, NEW p, NEW q, NEW n, NEW d, NEW e, NEW i,
               CreatePropertyVariable(who, p, q, n, d, e, i)
        PROVE  UNCHANGED freezeVars
    BY <2>5, Zenon DEF CreatePropertyVariable, freezeVars, modeVars
  <2>6. ASSUME NEW who, NEW to, NEW n, RapidsPayment(who, to, n)
        PROVE  UNCHANGED freezeVars
    BY <2>6, Zenon DEF RapidsPayment, freezeVars
  <2>7. ASSUME NEW who, NEW p, CreatePropertyManaged(who, p) \/ CloseCrowdsale(who, p)
        PROVE  UNCHANGED freezeVars
    BY <2>7, Zenon DEF CreatePropertyManaged, CloseCrowdsale, freezeVars, modeVars
  <2>8. ASSUME NEW who, NEW to, NEW p, ChangeIssuer(who, to, p)
        PROVE  UNCHANGED freezeVars
    BY <2>8, Zenon DEF ChangeIssuer, freezeVars, issueVars
  <2>9. ASSUME NEW who, NEW to, SendAll(who, to)
        PROVE  UNCHANGED freezeVars
    BY <2>9, Zenon DEF SendAll, freezeVars, modeVars, ruleVars, issueVars
  <2>10. Receivers \subseteq Address
    BY InputsType, Zenon
  <2> QED
    BY <2>1, <2>2, <2>3, <2>4, <2>5, <2>6, <2>7, <2>8, <2>9, <2>10 DEF Transaction
\* Enabling, disabling, freezing and unfreezing keep it: disableFreezing takes
\* out the frozen addresses together with the entry that let them be frozen.
<1>FreezingKeepsFInv.
    ASSUME FInv, NEW who \in Address, NEW to \in Address, NEW p \in Property
    PROVE  /\ EnableFreezing(who, p) => FInv'
           /\ DisableFreezing(who, p) => FInv'
           /\ FreezeTokens(who, to, p) \/ UnfreezeTokens(who, to, p) => FInv'
  <2> USE <1>FreezingKeepsFInv
  <2>1. ASSUME EnableFreezing(who, p) PROVE FInv'
    <3> DEFINE at == IF IsFeatureActivated("freezenotice") THEN block + FreezeWait ELSE block
    <3>1. at \in Nat
      BY InputsType DEF FInv
    <3> HIDE DEF at
    <3>2. /\ setFreezingEnabledProperties' = setFreezingEnabledProperties \cup {<<p, at>>}
          /\ block' = block /\ setFrozenAddresses' = setFrozenAddresses
      BY <2>1, Zenon DEF EnableFreezing, ruleVars, modeVars, at
    <3>3. setFreezingEnabledProperties' \subseteq Property \X Nat
      BY <3>1, <3>2 DEF FInv
    <3>4. \A s \in setFrozenAddresses' : isFreezingEnabled(s[2])'
      BY <3>2, Zenon DEF FInv, isFreezingEnabled
    <3> QED
      BY <3>2, <3>3, <3>4, Zenon DEF FInv
  <2>2. ASSUME DisableFreezing(who, p) PROVE FInv'
    <3>1. /\ setFreezingEnabledProperties' \subseteq setFreezingEnabledProperties
          /\ \A e \in setFreezingEnabledProperties : e[1] # p => e \in setFreezingEnabledProperties'
          /\ setFrozenAddresses' = setFrozenAddresses \ FrozenOf(p)
          /\ block' = block
      BY <2>2, Zenon DEF DisableFreezing
    <3>2. \A s \in setFrozenAddresses' : isFreezingEnabled(s[2])'
      BY <3>1, Zenon DEF FInv, isFreezingEnabled, FrozenOf
    <3> QED
      BY <3>1, <3>2, Zenon DEF FInv
  <2>3. ASSUME FreezeTokens(who, to, p) PROVE FInv'
    <3>1. /\ setFreezingEnabledProperties' = setFreezingEnabledProperties
          /\ setFrozenAddresses' = setFrozenAddresses \cup {<<to, p>>}
          /\ block' = block /\ isFreezingEnabled(p)
      BY <2>3, Zenon DEF FreezeTokens, issueVars
    <3>2. <<to, p>> \in Slot /\ <<to, p>>[2] = p
      BY Zenon DEF Slot
    <3>3. \A s \in setFrozenAddresses' : isFreezingEnabled(s[2])'
      BY <3>1, <3>2, Zenon DEF FInv, isFreezingEnabled
    <3> QED
      BY <3>1, <3>2, <3>3, Zenon DEF FInv
  <2>4. ASSUME UnfreezeTokens(who, to, p) PROVE FInv'
    <3>1. /\ setFreezingEnabledProperties' = setFreezingEnabledProperties
          /\ setFrozenAddresses' \subseteq setFrozenAddresses
          /\ block' = block
      BY <2>4, Zenon DEF UnfreezeTokens, issueVars
    <3> QED
      BY <3>1, Zenon DEF FInv, isFreezingEnabled
  <2> QED
    BY <2>1, <2>2, <2>3, <2>4, Zenon
<1> SUFFICES ASSUME FInv, [Next]_vars PROVE FInv'
  BY Zenon
<1>1. CASE Transaction
  BY <1>1, <1>TransactionsKeepFrozen, <1>FreezingKeepsFInv, <1>FreezeUnchanged, Zenon
<1>2. CASE MetaDExTransaction /\ UNCHANGED issueVars
  <2>1. UNCHANGED <<block, setFrozenAddresses>>
    BY <1>2, ZenonT(30) DEF MetaDExTransaction, MetaDExTrade, MetaDExCancelPrice, MetaDExCancelPair,
                MetaDExCancelEcosystem, MetaDExCancel, ActivateFeature, Deactivation, ruleVars, modeVars
  <2> QED
    BY <1>2, <2>1, <1>FreezeUnchanged DEF freezeVars, issueVars
<1>3. CASE MetaDExStep /\ UNCHANGED issueVars
  <2>1. UNCHANGED <<block, setFrozenAddresses>>
    BY <1>3, Zenon DEF MetaDExStep, x_Skip, x_Trade, MetaDEx_INSERT, ReturnOrder, ruleVars, modeVars
  <2> QED
    BY <1>3, <2>1, <1>FreezeUnchanged, Zenon DEF freezeVars, issueVars
<1>4. CASE BlockBegin
  <2>1. /\ block' = block + 1 /\ setFrozenAddresses' = setFrozenAddresses
        /\ setFreezingEnabledProperties' = setFreezingEnabledProperties
    BY <1>4, Zenon DEF BlockBegin
  <2>2. \A s \in setFrozenAddresses : isFreezingEnabled(s[2])'
    BY <2>1 DEF FInv, isFreezingEnabled
  <2> QED
    BY <2>1, <2>2 DEF FInv
<1>5. CASE UNCHANGED vars
  BY <1>5, <1>FreezeUnchanged, Zenon DEF vars, mdexVars, ruleVars, modeVars, issueVars, freezeVars
<1>6. ASSUME NEW who, NEW p, NEW outs, SendToMany(who, p, outs) PROVE FInv'
  BY <1>6, <1>FreezeUnchanged, Zenon DEF SendToMany, ruleVars, modeVars, issueVars, freezeVars
<1>7. CASE SendOutput
  BY <1>7, <1>FreezeUnchanged, Zenon DEF SendOutput, issueVars, freezeVars
<1>8. ASSUME NEW devmsc, BlockEnd(devmsc) PROVE FInv'
  BY <1>8, <1>FreezeUnchanged, Zenon DEF BlockEnd, modeVars, issueVars, freezeVars
<1> QED
  BY <1>1, <1>2, <1>3, <1>4, <1>5, <1>6, <1>7, <1>8, Zenon DEF Next

\* The invariant of freezing holds throughout.
LEMMA FrozenInvariance == Spec => []FInv
<1>1. Init => FInv
  <2> SUFFICES ASSUME Init PROVE FInv
    BY Zenon
  <2>1. setFreezingEnabledProperties \subseteq Property \X Nat
    BY ScenariosAssumption, Zenon DEF Init
  <2>2. block = 1 /\ setFrozenAddresses = {}
    BY Zenon DEF Init
  <2> QED
    BY <2>1, <2>2, Zenon DEF FInv
<1>2. FInv /\ [Next]_vars => FInv'
  BY StepKeepsFInv, Zenon
<1> QED
  BY <1>1, <1>2, PTL DEF Spec

\* No address stays frozen in a property that its issuer can no longer
\* unfreeze, whatever is enabled, disabled, frozen and unfrozen, and whenever
\* the notice of the freezing ends.
THEOREM FrozenCanBeUnfrozen == Spec => []FrozenNeedsEnabled
<1>1. FInv => FrozenNeedsEnabled
  BY Zenon DEF FInv, FrozenNeedsEnabled
<1> QED
  BY <1>1, FrozenInvariance, PTL

-----------------------------------------------------------------------------
(* The shutdown of the exchange. *)

\* The invariant of the features: what was on the book of an exchange that is
\* no longer active is being given back, and nothing new is matched.
MInv ==
    /\ block \in Nat
    /\ featureBlock \in [DOMAIN InitFeatureBlock -> Int]
    /\ ~halted => /\ ~IsFeatureActivated("metadex") => metadex = returning /\ taking = NoOrder
                  /\ ~IsFeatureActivated("allpairs") =>
                        /\ \A o \in metadex \ returning : MSC \in {o.prop, o.desprop}
                        /\ taking # NoOrder => MSC \in {taking.prop, taking.desprop}

\* The token layer once halted stays so.
StaysHalted == UNCHANGED halted \/ halted' = TRUE

\* Every step keeps the invariant of the features.
LEMMA StepKeepsMInv == IInv /\ MInv /\ [Next]_vars => MInv'
\* No transaction of the issuers and owners changes the features.
<1>TransactionsKeepMode.
    ASSUME Transaction
    PROVE  UNCHANGED <<featureBlock, block>> /\ StaysHalted
  <2> USE <1>TransactionsKeepMode
  <2> DEFINE G == UNCHANGED <<featureBlock, block>> /\ StaysHalted
  <2>1. ASSUME NEW who, NEW to, NEW p, NEW n, SimpleSend(who, to, p, n)
        PROVE  G
    <3>1. UNCHANGED <<featureBlock, block>>
      BY <2>1, Zenon DEF SimpleSend
    <3>2. PICK L : MovedTo(L, who, to, p, n)
      BY <2>1, Zenon DEF SimpleSend
    <3>3. StaysHalted
      BY <3>2, Zenon DEF MovedTo, StaysHalted
    <3> QED
      BY <3>1, <3>3, Zenon
  <2>2. ASSUME NEW who, NEW to, NEW p, NEW n, GrantTokens(who, to, p, n)
        PROVE  G
    BY <2>2, Zenon DEF GrantTokens, StaysHalted, modeVars
  <2>3. ASSUME NEW who, NEW p, NEW q, NEW n, NEW v, SendToOwners(who, p, q, n, v) \/ RevokeTokens(who, p, n)
        PROVE  G
    <3>1. CASE SendToOwners(who, p, q, n, v)
      BY <3>1, Zenon DEF SendToOwners, StaysHalted, modeVars, ruleVars
    <3>2. CASE RevokeTokens(who, p, n)
      BY <3>2, Zenon DEF RevokeTokens, StaysHalted, modeVars
    <3> QED
      BY <2>3, <3>1, <3>2, Zenon
  <2>4. ASSUME NEW who, NEW p, NEW n, CreatePropertyFixed(who, p, n)
        PROVE  G
    BY <2>4, Zenon DEF CreatePropertyFixed, StaysHalted, modeVars
  <2>5. ASSUME NEW who, NEW p, NEW q, NEW n, NEW d, NEW e, NEW i,
               CreatePropertyVariable(who, p, q, n, d, e, i)
        PROVE  G
    BY <2>5, Zenon DEF CreatePropertyVariable, StaysHalted, modeVars
  <2>6. ASSUME NEW who, NEW to, NEW n, RapidsPayment(who, to, n)
        PROVE  G
    BY <2>6, Zenon DEF RapidsPayment, MovedTo, StaysHalted
  <2>7. ASSUME NEW who, NEW p, CreatePropertyManaged(who, p) \/ CloseCrowdsale(who, p)
        PROVE  G
    BY <2>7, Zenon DEF CreatePropertyManaged, CloseCrowdsale, StaysHalted, modeVars
  <2>8. ASSUME NEW who, NEW p, EnableFreezing(who, p) \/ DisableFreezing(who, p)
        PROVE  G
    BY <2>8, Zenon DEF EnableFreezing, DisableFreezing, StaysHalted, modeVars, ruleVars
  <2>9. ASSUME NEW who, NEW to, NEW p, ChangeIssuer(who, to, p) \/ FreezeTokens(who, to, p)
                                         \/ UnfreezeTokens(who, to, p)
        PROVE  G
    BY <2>9, Zenon DEF ChangeIssuer, FreezeTokens, UnfreezeTokens, StaysHalted, modeVars
  <2>10. ASSUME NEW who, NEW to, SendAll(who, to)
         PROVE  G
    BY <2>10, Zenon DEF SendAll, StaysHalted, modeVars, ruleVars
  <2> HIDE DEF G
  <2>11. G
    BY <2>1, <2>2, <2>3, <2>4, <2>5, <2>6, <2>7, <2>8, <2>9, <2>10 DEF Transaction
  <2> QED
    BY <2>11, Zenon DEF G
\* A step that leaves the book and the features alone.
<1>ModeUnchanged.
    ASSUME MInv, UNCHANGED bookVars, UNCHANGED <<featureBlock, block>>, StaysHalted
    PROVE  MInv'
    BY <1>ModeUnchanged, Zenon DEF MInv, bookVars, StaysHalted, IsFeatureActivated
\* The transactions of the exchange.
<1>ExchangeKeepsMInv.
    ASSUME IInv, MInv, Ready, MetaDExTransaction
    PROVE  MInv'
  <2> USE <1>ExchangeKeepsMInv
  <2>0. ~halted /\ taking = NoOrder /\ returning = {}
    BY Zenon DEF Ready, Idle
  <2>1. ASSUME NEW who, NEW t, MetaDExTrade(who, t[1], t[2], t[3], t[4])
        PROVE  MInv'
    <3>1. /\ UNCHANGED <<featureBlock, block, metadex, returning>>
          /\ IsFeatureActivated("metadex")
          /\ IsFeatureActivated("allpairs") \/ MSC \in {t[1], t[3]}
          /\ taking'.prop = t[1] /\ taking'.desprop = t[3]
      BY <2>1, Zenon DEF MetaDExTrade, ruleVars, modeVars
    <3> QED
      BY <2>0, <3>1, Zenon DEF MInv, IsFeatureActivated
  <2>2. ASSUME NEW p, NEW Orders, MetaDExCancel(p, Orders)
        PROVE  MInv'
    <3>1. /\ UNCHANGED <<featureBlock, block, metadex, taking>>
          /\ IsFeatureActivated("metadex")
      BY <2>2, Zenon DEF MetaDExCancel, ruleVars, modeVars
    <3> QED
      BY <2>0, <3>1, Zenon DEF MInv, IsFeatureActivated
  <2>3. ASSUME NEW f \in Toggled, ActivateFeature(f) PROVE MInv'
    <3> DEFINE at == block + MinActivation
    <3>1. at \in Int
      BY BlocksAssumption DEF MInv
    <3> HIDE DEF at
    <3>2. /\ UNCHANGED bookVars /\ block' = block
          /\ featureBlock' = [featureBlock EXCEPT ![f] = at]
          /\ ~IsFeatureActivated(f)
      BY <2>3, Zenon DEF ActivateFeature, at
    <3>3. featureBlock' \in [DOMAIN InitFeatureBlock -> Int]
      BY <3>1, <3>2, Zenon DEF MInv
    <3>4. \A g \in DOMAIN InitFeatureBlock : ~IsFeatureActivated(g)' => ~IsFeatureActivated(g)
      <4> SUFFICES ASSUME NEW g \in DOMAIN InitFeatureBlock, IsFeatureActivated(g)
                   PROVE  IsFeatureActivated(g)'
        BY Zenon
      <4>1. g # f /\ featureBlock'[g] = featureBlock[g]
        BY <3>2, Zenon DEF MInv
      <4> QED
        BY <3>2, <4>1, Zenon DEF IsFeatureActivated
    <3>5. "metadex" \in DOMAIN InitFeatureBlock /\ "allpairs" \in DOMAIN InitFeatureBlock
      BY FeaturesType, Zenon
    <3> QED
      BY <2>0, <3>2, <3>3, <3>4, <3>5 DEF MInv, bookVars
  <2>4. ASSUME NEW f \in Toggled, Deactivation(f) PROVE MInv'
    <3>1. /\ UNCHANGED <<metadex, taking, block>>
          /\ featureBlock' = [featureBlock EXCEPT ![f] = DisabledBlock]
      BY <2>4, Zenon DEF Deactivation
    <3>2. featureBlock' \in [DOMAIN InitFeatureBlock -> Int]
      <4>1. DisabledBlock \in Int
        BY BlocksAssumption
      <4> QED
        BY <3>1, <4>1, Zenon DEF MInv
    <3>3. \A g \in DOMAIN InitFeatureBlock \ {f} : IsFeatureActivated(g)' <=> IsFeatureActivated(g)
      <4> SUFFICES ASSUME NEW g \in DOMAIN InitFeatureBlock \ {f}
                   PROVE  IsFeatureActivated(g)' <=> IsFeatureActivated(g)
        BY Zenon
      <4>1. featureBlock'[g] = featureBlock[g]
        BY <3>1, Zenon DEF MInv
      <4> QED
        BY <3>1, <4>1, Zenon DEF IsFeatureActivated
    <3>4. "metadex" \in DOMAIN InitFeatureBlock /\ "allpairs" \in DOMAIN InitFeatureBlock
      BY FeaturesType, Zenon
    <3>5. CASE ShutdownHangs(f)
      BY <2>4, <3>1, <3>2, <3>5 DEF Deactivation, MInv
    <3>6. CASE ~ShutdownHangs(f)
      <4>1. returning' = ShutdownOrders(f)
        BY <2>4, <3>6, Zenon DEF Deactivation
      <4>2. CASE f \in {"metadex", "allpairs"}
        <5>1. returning' = metadex
          BY <3>6, <4>1, <4>2, Zenon DEF ShutdownHangs, ShutdownOrders
        <5> QED
          BY <2>0, <3>1, <3>2, <5>1 DEF MInv
      <4>3. CASE f \notin {"metadex", "allpairs"}
        <5>1. returning' = {}
          BY <4>1, <4>3, Zenon DEF ShutdownOrders
        <5> QED
          BY <2>0, <3>1, <3>2, <3>3, <3>4, <4>3, <5>1 DEF MInv
      <4> QED
        BY <4>2, <4>3, Zenon
    <3> QED
      BY <3>5, <3>6, Zenon
  <2> QED
    BY <2>1, <2>2, <2>3, <2>4, Zenon
       DEF MetaDExTransaction, MetaDExCancelPrice, MetaDExCancelPair, MetaDExCancelEcosystem
\* The steps of the loops.
<1>LoopsKeepMInv.
    ASSUME IInv, MInv, MetaDExStep
    PROVE  MInv'
  <2> USE <1>LoopsKeepMInv
  <2>1. UNCHANGED <<featureBlock, block, halted>>
    BY Zenon DEF MetaDExStep, x_Skip, x_Trade, MetaDEx_INSERT, ReturnOrder, ruleVars, modeVars
  <2>2. ASSUME NEW o \in metadex, x_Skip(o) PROVE MInv'
    <3>1. /\ taking # NoOrder /\ taking \in Taker /\ UNCHANGED <<metadex, returning>>
          /\ taking'.prop = taking.prop /\ taking'.desprop = taking.desprop
      BY <2>2, Zenon DEF x_Skip, IInv, Taker
    <3> QED
      BY <2>1, <3>1, Zenon DEF MInv, IsFeatureActivated
  <2>3. ASSUME NEW o \in metadex, x_Trade(o) PROVE MInv'
    <3>1. /\ taking # NoOrder /\ returning = {} /\ returning' = {}
          /\ metadex' = (metadex \ {o}) \cup Replacement(Rest(o))
          /\ taking \in Taker /\ o \in Order
      BY <2>3, TradeStep, Zenon DEF IInv
    <3>2. /\ taking'.prop = taking.prop /\ taking'.desprop = taking.desprop
      BY <2>3, TradeStep, Zenon DEF Taker
    <3>3. Rest(o).prop = o.prop /\ Rest(o).desprop = o.desprop
      BY <3>1, Zenon DEF Rest, Order
    <3>4. \A q \in metadex' : q \in metadex \/ q = Rest(o)
      BY <3>1, Zenon DEF Replacement
    <3> QED
      BY <2>1, <3>1, <3>2, <3>3, <3>4, Zenon DEF MInv, IsFeatureActivated
  <2>4. ASSUME MetaDEx_INSERT PROVE MInv'
    <3>1. /\ taking # NoOrder /\ taking' = NoOrder /\ returning = {} /\ returning' = {}
          /\ metadex' = metadex \/ metadex' = metadex \cup {TakingRest}
      BY <2>4, Zenon DEF MetaDEx_INSERT, IInv
    <3>2. TakingRest.prop = taking.prop /\ TakingRest.desprop = taking.desprop
      BY Zenon DEF TakingRest
    <3> QED
      BY <2>1, <3>1, <3>2 DEF MInv, IsFeatureActivated
  <2>5. ASSUME NEW o \in returning, ReturnOrder(o) PROVE MInv'
    <3>1. taking = NoOrder /\ taking' = NoOrder /\ metadex' = metadex \ {o} /\ returning' = returning \ {o}
      BY <2>5, Zenon DEF ReturnOrder, IInv
    <3> QED
      BY <2>1, <3>1 DEF MInv, IsFeatureActivated
  <2> QED
    BY <2>2, <2>3, <2>4, <2>5, Zenon DEF MetaDExStep
<1> SUFFICES ASSUME IInv, MInv, [Next]_vars PROVE MInv'
  BY Zenon
<1>1. CASE Transaction
  BY <1>1, TransactionsKeepBook, <1>TransactionsKeepMode, <1>ModeUnchanged, Zenon
<1>2. CASE Ready /\ MetaDExTransaction
  BY <1>2, <1>ExchangeKeepsMInv, Zenon
<1>3. CASE MetaDExStep
  BY <1>3, <1>LoopsKeepMInv, Zenon
<1>4. CASE BlockBegin
  <2>1. /\ block' = block + 1 /\ UNCHANGED <<featureBlock, halted>>
        /\ metadex' = metadex /\ taking' = taking /\ returning' = returning
    BY <1>4, Zenon DEF BlockBegin, bookVars
  <2>2. \A g \in DOMAIN InitFeatureBlock : ~IsFeatureActivated(g)' => ~IsFeatureActivated(g)
    BY <2>1 DEF IsFeatureActivated, MInv
  <2>3. "metadex" \in DOMAIN InitFeatureBlock /\ "allpairs" \in DOMAIN InitFeatureBlock
    BY FeaturesType, Zenon
  <2> QED
    BY <2>1, <2>2, <2>3 DEF MInv
<1>5. CASE UNCHANGED vars
  BY <1>5, <1>ModeUnchanged, Zenon DEF vars, mdexVars, ruleVars, modeVars, StaysHalted
<1>6. ASSUME NEW who, NEW p, NEW outs, SendToMany(who, p, outs) PROVE MInv'
  BY <1>6, <1>ModeUnchanged, Zenon DEF SendToMany, ruleVars, modeVars, StaysHalted
<1>7. CASE SendOutput
  BY <1>7, <1>ModeUnchanged, Zenon DEF SendOutput, StaysHalted
<1>8. ASSUME NEW devmsc, BlockEnd(devmsc) PROVE MInv'
  BY <1>8, <1>ModeUnchanged, Zenon DEF BlockEnd, modeVars, StaysHalted
<1> QED
  BY <1>1, <1>2, <1>3, <1>4, <1>5, <1>6, <1>7, <1>8, Zenon DEF Next, BlockIsOpen

\* The invariant of the features holds throughout.
LEMMA ModeInvariance == Spec => []MInv
<1>1. Init => MInv
  <2> SUFFICES ASSUME Init PROVE MInv
    BY Zenon
  <2>1. block = 1 /\ featureBlock = InitFeatureBlock /\ metadex = {} /\ returning = {} /\ taking = NoOrder
    BY Zenon DEF Init
  <2> QED
    BY <2>1, FeaturesType DEF MInv
<1>2. IInv /\ MInv /\ [Next]_vars => MInv'
  BY StepKeepsMInv, Zenon
<1> QED
  BY <1>1, <1>2, BookInvariance, PTL DEF Spec

-----------------------------------------------------------------------------
(* The tokens. *)

\* What is recorded of a property without an open crowdsale.
Recd(e) == IF e.kind \in {"implied", "fixed"} THEN e.num
           ELSE IF e.kind = "managed" THEN e.created - e.revoked
           ELSE e.created + e.missed

OpenFor(c, p) == \E a \in DOMAIN c : c[a].prop = p

\* That n is the number of tokens of p, says the records.
Accounted(s, c, n, p) ==
    /\ p \in DOMAIN s => n <= MaxTokens
    /\ p \notin DOMAIN s => n = 0
    /\ p \in DOMAIN s /\ ~OpenFor(c, p) => n = Recd(s[p])
    /\ \A a \in DOMAIN c : c[a].prop = p => n = c[a].user + c[a].issuer

\* The state of the tokens: all amounts natural, the records consistent, and
\* every token accounted for.
Sound(bal, res, fees, s, c) ==
    /\ bal \in NatTally /\ res \in NatTally /\ fees \in FeeTally
    /\ ConsistentRecords(s, c)
    /\ fees[MSC] = 0
    /\ \A p \in Property : Accounted(s, c, Held(bal, res, fees, p), p)

\* MSC is a property that has owners.
LEMMA MSCOwned ==
  ASSUME NEW bal, NEW res, NEW fees, NEW s, NEW c, Sound(bal, res, fees, s, c)
  PROVE  MSC \in Property /\ Tot(bal, res, MSC) > 0
<1>1. /\ MSC \in DOMAIN s /\ s[MSC].kind = "implied" /\ s[MSC].num > 0 /\ DOMAIN s \subseteq Property
      /\ s[MSC] \in SPEntry
  BY Zenon DEF Sound, ConsistentRecords
<1>2. ~OpenFor(c, MSC)
  <2> SUFFICES ASSUME NEW a \in DOMAIN c, c[a].prop = MSC PROVE FALSE
    BY Zenon DEF OpenFor
  <2>1. s[MSC].kind = "variable"
    BY Zenon DEF Sound, ConsistentRecords
  <2> QED
    BY <1>1, <2>1, Zenon
<1>3. MSC \in Property
  BY <1>1, Zenon
<1>4. Held(bal, res, fees, MSC) = Recd(s[MSC])
  BY <1>1, <1>2, <1>3, Zenon DEF Sound, Accounted
<1>5. Tot(bal, res, MSC) \in Int
  <2>1. bal \in Tally /\ res \in Tally
    BY DEF Sound, NatTally, Tally
  <2> QED
    BY <1>3, <2>1, TotType, Zenon
<1>6. Tot(bal, res, MSC) + 0 = s[MSC].num
  BY <1>1, <1>4, Zenon DEF Held, Recd, Sound
<1> QED
  BY <1>1, <1>3, <1>5, <1>6

\* Where the totals stay, balances can change.
LEMMA SoundMoved ==
  ASSUME NEW bal, NEW res, NEW fees, NEW s, NEW c, Sound(bal, res, fees, s, c),
         NEW bal2 \in NatTally, NEW res2 \in NatTally, NEW fees2 \in FeeTally, fees2[MSC] = 0,
         SameHeld(bal, res, fees, bal2, res2, fees2)
  PROVE  Sound(bal2, res2, fees2, s, c)
  BY Zenon DEF Sound, SameHeld

\* The state of the tokens, and what a frozen address may expect of a step.
SoundNow == Sound(balance, metadexReserve, feeCache, sp, my_crowds)

KeepsFrozen == \A s \in setFrozenAddresses : balance'[s] >= balance[s]

\* Nothing happens to the balances.
LEMMA SameKeepsFrozen ==
  ASSUME FInv, balance \in NatTally, balance' = balance
  PROVE  KeepsFrozen
<1>1. \A s \in Slot : balance[s] \in Int
  BY DEF NatTally
<1>2. \A s \in setFrozenAddresses : s \in Slot
  BY Zenon DEF FInv
<1> QED
  BY <1>1, <1>2 DEF KeepsFrozen

-----------------------------------------------------------------------------
(* Trades.  x_Trade moves tokens of two properties, with a fee. *)

\* The fee is put in the cache and the cache, where it is full, emptied.
FeeStep(bal, res, f1, q, b1, f2) ==
    \/ b1 = WithFees(bal, res, q, f1[q]) /\ f2 = [f1 EXCEPT ![q] = 0]
    \/ b1 = bal /\ f2 = f1

FeeMoved(bal, res, f0, q, fee, b1, f2) ==
    \E d \in Nat : Adds(bal, res, b1, res, q, d) /\ f2[q] + d = f0[q] + fee

\* The inductive invariant of the tokens.  The order on its way is covered by
\* the balance of its owner, who is not frozen.
Funded(bal) ==
    taking # NoOrder => /\ taking.remaining <= bal[<<taking.addr, taking.prop>>]
                        /\ <<taking.addr, taking.prop>> \notin setFrozenAddresses

TInv ==
    /\ SoundNow
    /\ IsFiniteSet(metadex)
    /\ BookMatches(metadexReserve, metadex)
    /\ Funded(balance)

\* The names of a trade: what is bought, paid and charged.
Bought(o) == CouldBuy(taking, o)

Price(o) == WouldPay(CouldBuy(taking, o), o)

Fee(o) == IF ChargesFee(o) THEN Bought(o) \div FeeDivider ELSE 0

FeesWith(o) == [feeCache EXCEPT ![o.prop] = @ + Fee(o)]

Hands(o) == ChargesFee(o) /\ Distributes(FeesWith(o), distributionThresholds, o.prop)

AfterFee(o) == IF Hands(o) THEN WithFees(balance, metadexReserve, o.prop, FeesWith(o)[o.prop]) ELSE balance

AfterPay(o) == Credit(Debit(AfterFee(o), taking.addr, taking.prop, Price(o)), o.addr, o.desprop, Price(o))

\* A match of x_Trade keeps the invariant, and the frozen balances.
LEMMA TradeKeepsTInv ==
  \A o \in metadex :
      /\ IInv
      /\ FInv
      /\ TInv
      /\ x_Trade(o)
      /\ UNCHANGED issueVars
      => TInv' /\ KeepsFrozen
\* The fee of a trade is no more than what is bought.
<1>FeeBound.
    ASSUME NEW n \in Nat
    PROVE  n \div FeeDivider \in Nat /\ n \div FeeDivider <= n
  <2> DEFINE q == n \div FeeDivider
  <2>1. FeeDivider \in Nat \ {0}
    BY FeeAssumption, Zenon
  <2>2. q \in Nat /\ q * FeeDivider <= n
    BY <2>1, Division, Zenon
  <2> HIDE DEF q
  <2>3. FeeDivider \in Nat /\ FeeDivider >= 1
    BY <2>1
  <2>4. q * FeeDivider >= q
    BY <2>2, <2>3, SMT
  <2>5. q * FeeDivider \in Nat
    BY <2>2, <2>3, SMT
  <2>6. q <= n
    BY <2>2, <2>4, <2>5
  <2> QED
    BY <2>2, <2>6, Zenon DEF q
\* The fee goes into the cache, from which it may be handed out at once.
<1>FeeTaken.
    ASSUME NEW bal, NEW res, NEW f0, NEW s, NEW c, Sound(bal, res, f0, s, c),
           NEW q \in Property, NEW fee \in Nat, NEW f1, f1 = [f0 EXCEPT ![q] = @ + fee],
           q = MSC => fee = 0,
           NEW b1, NEW f2, FeeStep(bal, res, f1, q, b1, f2)
    PROVE  /\ b1 \in NatTally /\ f2 \in FeeTally /\ f2[MSC] = 0 /\ Grows(bal, b1)
           /\ FeeMoved(bal, res, f0, q, fee, b1, f2) /\ SameBut(f0, f2, q)
  <2> USE <1>FeeTaken
  <2>1. bal \in NatTally /\ res \in NatTally /\ f0 \in FeeTally /\ f0[MSC] = 0
    BY Zenon DEF Sound
  <2>2. MSC \in Property /\ Tot(bal, res, MSC) > 0
    BY MSCOwned, Zenon
  <2>3. f1 \in FeeTally /\ f1[q] = f0[q] + fee /\ f1[q] \in Nat /\ \A r \in Property \ {q} : f1[r] = f0[r]
    BY <2>1 DEF FeeTally
  <2>4. f1[MSC] = 0
    BY <2>1, <2>2, <2>3
  <2>5. CASE b1 = WithFees(bal, res, q, f1[q]) /\ f2 = [f1 EXCEPT ![q] = 0]
    <3> DEFINE d == f1[q]
    <3>1. b1 = WithFees(bal, res, q, d) /\ f2 = [f1 EXCEPT ![q] = 0] /\ d \in Nat /\ d = f0[q] + fee
      BY <2>3, <2>5, Zenon
    <3> HIDE DEF d
    <3>2. b1 \in NatTally /\ Grows(bal, b1) /\ Adds(bal, res, b1, res, q, d)
      BY <2>1, <2>2, <3>1, WithFeesAdds
    <3>3. f2 \in FeeTally /\ f2[q] = 0 /\ \A r \in Property \ {q} : f2[r] = f1[r]
      BY <2>3, <3>1, Zenon DEF FeeTally
    <3>4. f2[q] + d = f0[q] + fee
      BY <3>1, <3>3
    <3>5. f2[MSC] = 0
      BY <2>2, <2>4, <3>3, Zenon
    <3>6. \A r \in Property \ {q} : f2[r] = f0[r]
      BY <2>3, <3>3, Zenon
    <3> QED
      BY <3>1, <3>2, <3>3, <3>4, <3>5, <3>6, Zenon DEF FeeMoved, SameBut
  <2>6. CASE b1 = bal /\ f2 = f1
    <3>1. b1 = bal /\ f2 = f1
      BY <2>6, Zenon
    <3>2. \A x \in Slot : bal[x] \in Int /\ bal[x] >= bal[x]
      BY <2>1 DEF NatTally
    <3>3. Grows(bal, b1)
      BY <3>1, <3>2, Zenon DEF Grows
    <3>4. Adds(bal, res, b1, res, q, 0)
      <4>1. bal \in Tally /\ res \in Tally
        BY <2>1 DEF Tally, NatTally
      <4>2. Tot(bal, res, q) \in Int
        BY <4>1, TotType, Zenon
      <4> QED
        BY <3>1, <4>2 DEF Adds
    <3>5. f2[q] + 0 = f0[q] + fee /\ 0 \in Nat
      <4>1. f2[q] = f0[q] + fee /\ f2[q] \in Nat
        BY <2>3, <3>1, Zenon
      <4> QED
        BY <4>1
    <3>6. \E d \in Nat : Adds(bal, res, b1, res, q, d) /\ f2[q] + d = f0[q] + fee
      BY <3>4, <3>5, Zenon
    <3> QED
      BY <2>1, <2>3, <2>4, <3>1, <3>3, <3>6, Zenon DEF FeeMoved, SameBut
  <2> QED
    BY <2>5, <2>6, Zenon DEF FeeStep
\* x_Trade in these terms.
<1>TradeEffects.
    ASSUME NEW o, x_Trade(o)
    PROVE  /\ balance' = Credit(AfterPay(o), taking.addr, taking.desprop, Bought(o) - Fee(o))
           /\ metadexReserve' = Debit(metadexReserve, o.addr, o.prop, Bought(o))
           /\ feeCache' = IF Hands(o) THEN [FeesWith(o) EXCEPT ![o.prop] = 0] ELSE FeesWith(o)
           /\ metadex' = (metadex \ {o}) \cup Replacement([o EXCEPT !.remaining = @ - Bought(o)])
           /\ o.prop = taking.desprop /\ o.desprop = taking.prop
  <2> USE <1>TradeEffects
  <2>1. o.prop = taking.desprop /\ o.desprop = taking.prop
    BY Zenon DEF x_Trade, x_Match, Matches
  <2>2. balance' = Credit(AfterPay(o), taking.addr, taking.desprop, Bought(o) - Fee(o))
    BY Zenon DEF x_Trade, AfterPay, AfterFee, Hands, FeesWith, Fee, Price, Bought
  <2>3. /\ metadexReserve' = Debit(metadexReserve, o.addr, o.prop, Bought(o))
        /\ metadex' = (metadex \ {o}) \cup Replacement([o EXCEPT !.remaining = @ - Bought(o)])
    BY Zenon DEF x_Trade, Bought
  <2>4. feeCache' = IF Hands(o) THEN [FeesWith(o) EXCEPT ![o.prop] = 0] ELSE FeesWith(o)
    BY Zenon DEF x_Trade, Hands, FeesWith, Fee, Bought
  <2> QED
    BY <2>1, <2>2, <2>3, <2>4, Zenon
<1> SUFFICES ASSUME IInv, FInv, TInv, NEW o \in metadex, x_Trade(o), UNCHANGED issueVars
             PROVE  TInv' /\ KeepsFrozen
  BY Zenon
<1> DEFINE n == Bought(o)
           pay == Price(o)
           fee == Fee(o)
           k == n - fee
           buyer == taking.addr
           seller == o.addr
           p == taking.prop
           q == o.prop
           b1 == AfterFee(o)
           b2 == AfterPay(o)
           b3 == balance'
           res2 == metadexReserve'
           f1 == FeesWith(o)
           f2 == feeCache'
           B2 == metadex'
           left == [o EXCEPT !.remaining = @ - n]
<1>1. /\ taking \in Taker /\ o \in Order /\ CouldBuy(taking, o) > 0 /\ taking # NoOrder
      /\ taking' = [taking EXCEPT !.remaining = @ - pay, !.seen = @ \cup {o.idx}]
  BY TradeStep, Zenon DEF Price
<1>2. /\ buyer \in Address /\ seller \in Address /\ p \in Property /\ q \in Property
      /\ taking.remaining \in Nat /\ o.remaining \in Nat
  BY <1>1, Zenon DEF Taker, Order
<1>3. n \in Nat /\ n <= o.remaining /\ pay \in Nat /\ pay <= taking.remaining
  <2>1. /\ CouldBuy(taking, o) \in Nat /\ CouldBuy(taking, o) <= o.remaining
        /\ WouldPay(CouldBuy(taking, o), o) \in Nat \ {0}
        /\ WouldPay(CouldBuy(taking, o), o) <= taking.remaining
    BY <1>1, Fill, Zenon
  <2> QED
    BY <2>1, Zenon DEF Bought, Price
<1>4. fee \in Nat /\ fee <= n
  <2>1. CASE ChargesFee(o)
    <3>1. Fee(o) = n \div FeeDivider
      BY <2>1, Zenon DEF Fee
    <3> HIDE DEF n, fee
    <3>2. n \div FeeDivider \in Nat /\ n \div FeeDivider <= n
      BY <1>3, <1>FeeBound, Zenon
    <3> QED
      BY <3>1, <3>2, Zenon DEF fee
  <2>2. CASE ~ChargesFee(o)
    <3>1. Fee(o) = 0
      BY <2>2, Zenon DEF Fee
    <3> HIDE DEF n
    <3> QED
      BY <1>3, <3>1
  <2> QED
    BY <2>1, <2>2, Zenon
<1>5. /\ b3 = Credit(b2, buyer, q, k) /\ res2 = Debit(metadexReserve, seller, q, n)
      /\ b2 = Credit(Debit(b1, buyer, p, pay), seller, p, pay)
      /\ f1 = [feeCache EXCEPT ![q] = @ + fee]
      /\ FeeStep(balance, metadexReserve, f1, q, b1, f2)
      /\ B2 = (metadex \ {o}) \cup Replacement(left)
  <2>1. /\ balance' = Credit(AfterPay(o), taking.addr, taking.desprop, Bought(o) - Fee(o))
        /\ metadexReserve' = Debit(metadexReserve, o.addr, o.prop, Bought(o))
        /\ feeCache' = IF Hands(o) THEN [FeesWith(o) EXCEPT ![o.prop] = 0] ELSE FeesWith(o)
        /\ metadex' = (metadex \ {o}) \cup Replacement([o EXCEPT !.remaining = @ - Bought(o)])
        /\ o.prop = taking.desprop /\ o.desprop = taking.prop
    BY <1>TradeEffects, Zenon
  <2>2. b3 = Credit(b2, buyer, q, k) /\ res2 = Debit(metadexReserve, seller, q, n)
    BY <2>1, Zenon
  <2>3. b2 = Credit(Debit(b1, buyer, p, pay), seller, p, pay)
    BY <2>1, Zenon DEF AfterPay
  <2>4. f1 = [feeCache EXCEPT ![q] = @ + fee]
    BY Zenon DEF FeesWith
  <2>5. FeeStep(balance, metadexReserve, f1, q, b1, f2)
    BY <2>1, Zenon DEF AfterFee, FeeStep
  <2>6. B2 = (metadex \ {o}) \cup Replacement(left)
    BY <2>1, Zenon
  <2> QED
    BY <2>2, <2>3, <2>4, <2>5, <2>6, Zenon
<1>6. q = MSC => fee = 0
  <2>1. ChargesFee(o) => q # MSC
    BY DEF ChargesFee, TMSC, MSC
  <2> QED
    BY <2>1, Zenon DEF Fee
<1>7. k \in Nat /\ k = n - fee
  <2> HIDE DEF n, fee
  <2> QED
    BY <1>3, <1>4
<1>8. /\ SoundNow /\ balance \in NatTally /\ metadexReserve \in NatTally /\ feeCache \in FeeTally
      /\ IsFiniteSet(metadex) /\ BookMatches(metadexReserve, metadex)
      /\ taking.remaining <= balance[<<buyer, p>>] /\ <<buyer, p>> \notin setFrozenAddresses
  BY <1>1, Zenon DEF TInv, SoundNow, Sound, Funded
<1>9. left = [o EXCEPT !.remaining = @ - n]
  BY Zenon
<1>10. metadex \subseteq Order /\ \A r \in metadex : r.idx = o.idx => r = o
  BY Zenon DEF IInv, OrdersAreOpen
<1> HIDE DEF n, pay, fee, k, b1, b2, b3, res2, f1, f2, B2, left
<1>11. /\ res2 \in NatTally /\ BookMatches(res2, B2) /\ IsFiniteSet(B2)
       /\ n <= metadexReserve[<<seller, q>>]
  BY <1>3, <1>5, <1>8, <1>9, <1>10, BookSells
<1> HIDE DEF buyer, seller, p, q
<1>12. /\ b1 \in NatTally /\ f2 \in FeeTally /\ f2[MSC] = 0 /\ Grows(balance, b1)
       /\ FeeMoved(balance, metadexReserve, feeCache, q, fee, b1, f2) /\ SameBut(feeCache, f2, q)
  <2>1. Sound(balance, metadexReserve, feeCache, sp, my_crowds)
    BY <1>8, Zenon DEF SoundNow
  <2> QED
    BY <1>2, <1>4, <1>5, <1>6, <2>1, <1>FeeTaken, Zenon
<1>13. PICK d \in Nat : Adds(balance, metadexReserve, b1, metadexReserve, q, d) /\ f2[q] + d = feeCache[q] + fee
  BY <1>12, Zenon DEF FeeMoved
<1>14. <<buyer, p>> \in Slot /\ <<seller, q>> \in Slot /\ balance[<<buyer, p>>] \in Nat
       /\ metadexReserve[<<seller, q>>] \in Nat
  BY <1>2, <1>8, TallyAt
<1>15. balance[<<buyer, p>>] >= pay /\ metadexReserve[<<seller, q>>] >= n
  BY <1>2, <1>3, <1>8, <1>11, <1>14
<1>16. /\ b3 \in NatTally /\ res2 \in NatTally
       /\ SameHeld(balance, metadexReserve, feeCache, b3, res2, f2)
       /\ GrowsBut(balance, b3, <<buyer, p>>)
       /\ b3[<<buyer, p>>] >= balance[<<buyer, p>>] - pay
  <2>1. TradeMoves(balance, metadexReserve, feeCache, p, q, buyer, seller, n, pay, fee, d, b1, b3, res2, f2)
    BY <1>5, <1>7, <1>12, <1>13, <1>15, Zenon DEF TradeMoves
  <2> QED
    BY <1>2, <1>3, <1>4, <1>8, <1>12, <2>1, TradeHeld, Zenon
<1>17. Sound(b3, res2, f2, sp, my_crowds)
  BY <1>8, <1>11, <1>12, <1>16, SoundMoved DEF SoundNow
<1>18. sp' = sp /\ my_crowds' = my_crowds /\ setFrozenAddresses' = setFrozenAddresses
  BY Zenon DEF x_Trade, ruleVars, modeVars, issueVars
<1>19. SoundNow'
  BY <1>17, <1>18, Zenon DEF SoundNow, b3, res2, f2
<1>20. Funded(balance)'
  <2>1. taking'.addr = taking.addr /\ taking'.prop = taking.prop /\ taking'.remaining = taking.remaining - pay
    BY <1>1, Zenon DEF Taker
  <2>2. b3[<<buyer, p>>] \in Nat
    BY <1>14, <1>16 DEF NatTally
  <2>3. taking.remaining - pay <= b3[<<buyer, p>>]
    BY <1>2, <1>3, <1>8, <1>14, <1>16, <2>2
  <2> QED
    BY <1>8, <1>18, <2>1, <2>3, Zenon DEF Funded, b3, buyer, p
<1>21. TInv'
  BY <1>11, <1>19, <1>20, Zenon DEF TInv, B2, res2
<1>22. KeepsFrozen
  BY <1>8, <1>16, Zenon DEF KeepsFrozen, GrowsBut, FInv, b3
<1> QED
  BY <1>21, <1>22, Zenon

-----------------------------------------------------------------------------
(* The other steps of the exchange. *)

\* MetaDEx_INSERT: the rest of the order goes from the balance, which covers
\* it, into the reserve.
LEMMA InsertKeepsTInv ==
      /\ IInv
      /\ FInv
      /\ TInv
      /\ MetaDEx_INSERT
      /\ UNCHANGED issueVars
      => TInv' /\ KeepsFrozen
\* A debit is a credit of the opposite.
<1>DebitIsCredit.
    ASSUME NEW t \in NatTally, NEW a \in Address, NEW p \in Property, NEW n \in Nat
    PROVE  /\ Debit(t, a, p, n) = Credit(t, a, p, -n)
           /\ Credit(t, a, p, n) = Debit(t, a, p, -n)
  <2>1. t[<<a, p>>] \in Int
    BY TallyAt, Zenon
  <2>2. t[<<a, p>>] - n = t[<<a, p>>] + (-n) /\ t[<<a, p>>] + n = t[<<a, p>>] - (-n)
    BY <2>1
  <2> QED
    BY <2>2, Zenon DEF Credit, Debit
<1> SUFFICES ASSUME IInv, FInv, TInv, MetaDEx_INSERT, UNCHANGED issueVars
             PROVE  TInv' /\ KeepsFrozen
  BY Zenon
<1>1. /\ taking # NoOrder /\ taking' = NoOrder /\ taking \in Taker
      /\ \A o \in metadex : o.idx < taking.idx
      /\ metadex \subseteq Order
  BY Zenon DEF MetaDEx_INSERT, IInv
<1>2. sp' = sp /\ my_crowds' = my_crowds /\ setFrozenAddresses' = setFrozenAddresses /\ feeCache' = feeCache
  BY Zenon DEF MetaDEx_INSERT, ruleVars, modeVars, issueVars, feeVars
<1>3. /\ SoundNow /\ balance \in NatTally /\ metadexReserve \in NatTally /\ feeCache \in FeeTally
      /\ feeCache[MSC] = 0
      /\ IsFiniteSet(metadex) /\ BookMatches(metadexReserve, metadex)
  BY Zenon DEF TInv, SoundNow, Sound
<1>4. Funded(balance)'
  BY <1>1, Zenon DEF Funded
<1>5. CASE taking.remaining = 0
  <2>1. balance' = balance /\ metadexReserve' = metadexReserve /\ metadex' = metadex
    BY <1>5, Zenon DEF MetaDEx_INSERT
  <2>2. TInv'
    BY <1>2, <1>3, <1>4, <2>1, Zenon DEF TInv, SoundNow
  <2>3. KeepsFrozen
    BY <1>3, <2>1, SameKeepsFrozen
  <2> QED
    BY <2>2, <2>3, Zenon
<1>6. CASE taking.remaining # 0
  <2> DEFINE a == taking.addr
             p == taking.prop
             n == taking.remaining
             m == -n
             o == TakingRest
             b2 == balance'
             res2 == metadexReserve'
  <2>1. /\ b2 = Debit(balance, a, p, n) /\ res2 = Credit(metadexReserve, a, p, n)
        /\ metadex' = metadex \cup {o}
    BY <1>6, Zenon DEF MetaDEx_INSERT, Reserved
  <2>2. /\ a \in Address /\ p \in Property /\ n \in Nat /\ m \in Int
        /\ o \in Order /\ o.addr = a /\ o.prop = p /\ o.remaining = n /\ o.idx = taking.idx /\ taking.idx \in Nat
    BY <1>1 DEF Taker, TakingRest, Order
  <2>3. o \notin metadex
    BY <1>1, <2>2
  <2>4. n <= balance[<<a, p>>] /\ <<a, p>> \notin setFrozenAddresses
    BY <1>1, Zenon DEF TInv, Funded
  <2>5. balance[<<a, p>>] \in Nat
    BY <1>3, <2>2, TallyAt, Zenon
  <2> HIDE DEF a, p, n, m, o, b2, res2
  <2>6. balance[<<a, p>>] >= n
    BY <2>2, <2>4, <2>5
  <2>7. b2 \in NatTally /\ \A s \in Slot : s # <<a, p>> => b2[s] = balance[s]
    BY <1>3, <2>1, <2>2, <2>6, DebitNat
  <2>8. res2 \in NatTally /\ BookMatches(res2, metadex \cup {o}) /\ IsFiniteSet(metadex \cup {o})
    <3>1. res2 = Credit(metadexReserve, o.addr, o.prop, o.remaining)
      BY <2>1, <2>2, Zenon
    <3> QED
      BY <1>1, <1>3, <2>2, <2>3, <3>1, BookPuts, Zenon
  <2>9. SameHeld(balance, metadexReserve, feeCache, b2, res2, feeCache)
    <3>1. b2 = Credit(balance, a, p, m) /\ res2 = Debit(metadexReserve, a, p, m)
      BY <1>3, <2>1, <2>2, <1>DebitIsCredit DEF m
    <3> QED
      BY <1>3, <2>2, <2>7, <2>8, <3>1, ReserveHeld
  <2>10. Sound(b2, res2, feeCache, sp, my_crowds)
    BY <1>3, <2>7, <2>8, <2>9, SoundMoved, Zenon DEF SoundNow
  <2>11. SoundNow'
    BY <1>2, <2>10, Zenon DEF SoundNow, b2, res2
  <2>12. TInv'
    BY <1>4, <2>1, <2>8, <2>11, Zenon DEF TInv, res2
  <2>13. KeepsFrozen
    <3>1. \A s \in Slot : balance[s] \in Int
      BY <1>3 DEF NatTally
    <3>2. \A s \in setFrozenAddresses : s \in Slot /\ s # <<a, p>>
      BY <2>4, Zenon DEF FInv
    <3> QED
      BY <2>7, <3>1, <3>2 DEF KeepsFrozen, b2
  <2> QED
    BY <2>12, <2>13, Zenon
<1> QED
  BY <1>5, <1>6, Zenon

\* An order given back: what it has left goes from the reserve to the balance.
LEMMA ReturnKeepsTInv ==
  ASSUME IInv, FInv, TInv, NEW o \in returning, ReturnOrder(o), UNCHANGED issueVars
  PROVE  TInv' /\ KeepsFrozen
<1> DEFINE a == o.addr
           p == o.prop
           n == o.remaining
           b2 == balance'
           res2 == metadexReserve'
<1>1. o \in metadex /\ metadex \subseteq Order /\ taking = NoOrder
  BY Zenon DEF IInv
<1>2. /\ sp' = sp /\ my_crowds' = my_crowds /\ setFrozenAddresses' = setFrozenAddresses
      /\ feeCache' = feeCache /\ taking' = taking
  BY Zenon DEF ReturnOrder, ruleVars, modeVars, issueVars, feeVars
<1>3. /\ SoundNow /\ balance \in NatTally /\ metadexReserve \in NatTally /\ feeCache \in FeeTally
      /\ feeCache[MSC] = 0
      /\ IsFiniteSet(metadex) /\ BookMatches(metadexReserve, metadex)
  BY Zenon DEF TInv, SoundNow, Sound
<1>4. Funded(balance)'
  BY <1>1, <1>2, Zenon DEF Funded
<1>5. /\ b2 = Credit(balance, a, p, n) /\ res2 = Debit(metadexReserve, o.addr, o.prop, o.remaining)
      /\ metadex' = metadex \ {o}
  BY Zenon DEF ReturnOrder
<1>6. a \in Address /\ p \in Property /\ n \in Nat /\ n \in Int
  <2>1. o \in Order
    BY <1>1, Zenon
  <2> QED
    BY <2>1 DEF Order
<1>7. res2 = Debit(metadexReserve, a, p, n)
  BY <1>5, Zenon
<1> HIDE DEF a, p, n, b2, res2
<1>8. /\ res2 \in NatTally /\ BookMatches(res2, metadex \ {o}) /\ IsFiniteSet(metadex \ {o})
      /\ o.remaining <= metadexReserve[<<o.addr, o.prop>>]
  BY <1>1, <1>3, <1>5, BookTakes
<1>9. b2 \in NatTally /\ Grows(balance, b2) /\ b2[<<a, p>>] = balance[<<a, p>>] + n
  BY <1>3, <1>5, <1>6, CreditNat
<1>10. SameHeld(balance, metadexReserve, feeCache, b2, res2, feeCache)
  BY <1>3, <1>5, <1>6, <1>7, <1>8, <1>9, ReserveHeld, Zenon
<1>11. Sound(b2, res2, feeCache, sp, my_crowds)
  BY <1>3, <1>8, <1>9, <1>10, SoundMoved, Zenon DEF SoundNow
<1>12. SoundNow'
  BY <1>2, <1>11, Zenon DEF SoundNow, b2, res2
<1>13. TInv'
  BY <1>4, <1>5, <1>8, <1>12, Zenon DEF TInv, res2
<1>14. KeepsFrozen
  BY <1>9, Zenon DEF KeepsFrozen, Grows, FInv, b2
<1> QED
  BY <1>13, <1>14, Zenon

\* A step that changes neither balances, nor reserves, nor records.
tokenVars == <<balance, metadexReserve, metadex, feeCache, sp, my_crowds>>

\* Such a step keeps the invariant, if the order on its way stays covered.
LEMMA TokensUnchanged ==
  ASSUME FInv, TInv, UNCHANGED tokenVars, Funded(balance)'
  PROVE  TInv' /\ KeepsFrozen
<1>1. /\ balance' = balance /\ metadexReserve' = metadexReserve /\ metadex' = metadex
      /\ feeCache' = feeCache /\ sp' = sp /\ my_crowds' = my_crowds
  BY Zenon DEF tokenVars
<1>2. balance \in NatTally
  BY Zenon DEF TInv, SoundNow, Sound
<1>3. TInv'
  BY <1>1, Zenon DEF TInv, SoundNow
<1> QED
  BY <1>1, <1>2, <1>3, SameKeepsFrozen

\* x_Trade passes an order without a match.
LEMMA SkipKeepsTInv ==
  ASSUME IInv, FInv, TInv, NEW o, x_Skip(o), UNCHANGED issueVars
  PROVE  TInv' /\ KeepsFrozen
<1>1. UNCHANGED tokenVars /\ setFrozenAddresses' = setFrozenAddresses /\ taking # NoOrder
  BY Zenon DEF x_Skip, tokenVars, feeVars, ruleVars, modeVars, issueVars
<1>2. taking \in Taker /\ taking' = [taking EXCEPT !.seen = @ \cup {o.idx}]
  BY <1>1, Zenon DEF IInv, x_Skip
<1>3. taking'.addr = taking.addr /\ taking'.prop = taking.prop /\ taking'.remaining = taking.remaining
  BY <1>2, Zenon DEF Taker
<1>4. balance' = balance
  BY <1>1, Zenon DEF tokenVars
<1>5. Funded(balance)'
  BY <1>1, <1>3, <1>4, Zenon DEF Funded, TInv
<1> QED
  BY <1>1, <1>5, TokensUnchanged

\* The other transactions of the exchange.
LEMMA ExchangeKeepsTInv ==
      /\ FInv
      /\ TInv
      /\ Ready
      /\ MetaDExTransaction
      /\ UNCHANGED issueVars
      => TInv' /\ KeepsFrozen
\* MetaDExTrade: the new order is covered by the balance of its owner.
<1>OrderKeepsTInv.
    ASSUME FInv, TInv, NEW who \in Address, NEW t \in Trades,
           MetaDExTrade(who, t[1], t[2], t[3], t[4]), UNCHANGED issueVars
    PROVE  TInv' /\ KeepsFrozen
  <2> USE <1>OrderKeepsTInv
  <2> DEFINE p == t[1]
             n == t[2]
  <2>1. /\ UNCHANGED tokenVars /\ setFrozenAddresses' = setFrozenAddresses
        /\ taking'.addr = who /\ taking'.prop = p /\ taking'.remaining = n
        /\ balance[<<who, p>>] >= n /\ <<who, p>> \notin setFrozenAddresses
    BY Zenon DEF MetaDExTrade, Permitted, tokenVars, feeVars, ruleVars, modeVars, issueVars
  <2>2. p \in Property /\ n \in Nat
    BY TradesType, Zenon
  <2> HIDE DEF p, n
  <2>3. balance[<<who, p>>] \in Nat
    <3>1. balance \in NatTally
      BY Zenon DEF TInv, SoundNow, Sound
    <3> QED
      BY <2>2, <3>1, TallyAt
  <2>4. n <= balance[<<who, p>>]
    BY <2>1, <2>2, <2>3
  <2>5. balance' = balance
    BY <2>1 DEF tokenVars
  <2>6. Funded(balance)'
    BY <2>1, <2>4, <2>5, Zenon DEF Funded
  <2> QED
    BY <2>1, <2>6, TokensUnchanged
<1> SUFFICES ASSUME FInv, TInv, Ready, MetaDExTransaction, UNCHANGED issueVars
             PROVE  TInv' /\ KeepsFrozen
  BY Zenon
<1>1. taking = NoOrder
  BY Zenon DEF Ready, Idle
<1>2. ASSUME NEW p, NEW Orders, MetaDExCancel(p, Orders) PROVE UNCHANGED tokenVars /\ taking' = taking
  BY <1>2, Zenon DEF MetaDExCancel, tokenVars, feeVars, ruleVars, modeVars, issueVars
<1>3. ASSUME NEW f, ActivateFeature(f) \/ Deactivation(f) PROVE UNCHANGED tokenVars /\ taking' = taking
  BY <1>3, Zenon DEF ActivateFeature, Deactivation, tokenVars, bookVars, feeVars, ruleVars, modeVars, issueVars
<1>4. ASSUME UNCHANGED tokenVars, taking' = taking PROVE TInv' /\ KeepsFrozen
  <2>1. Funded(balance)'
    BY <1>1, <1>4, Zenon DEF Funded
  <2> QED
    BY <1>4, <2>1, TokensUnchanged
<1>5. ASSUME NEW who \in Address, NEW t \in Trades, MetaDExTrade(who, t[1], t[2], t[3], t[4])
      PROVE  TInv' /\ KeepsFrozen
  BY <1>5, <1>OrderKeepsTInv, Zenon
<1> QED
  BY <1>2, <1>3, <1>4, <1>5, Zenon
     DEF MetaDExTransaction, MetaDExCancelPrice, MetaDExCancelPair, MetaDExCancelEcosystem

-----------------------------------------------------------------------------
(* Transactions that only move tokens. *)

\* A transaction that only moves tokens.
LEMMA MovesOnlySound ==
  ASSUME SoundNow, NEW u \in NatTally, balance' = u,
         UNCHANGED <<metadexReserve, feeCache, sp, my_crowds>>,
         SameHeld(balance, metadexReserve, feeCache, u, metadexReserve, feeCache)
  PROVE  SoundNow'
<1>1. /\ balance' = u /\ metadexReserve' = metadexReserve /\ feeCache' = feeCache /\ sp' = sp
      /\ my_crowds' = my_crowds
  BY Zenon
<1>2. metadexReserve \in NatTally /\ feeCache \in FeeTally /\ feeCache[MSC] = 0
  BY Zenon DEF SoundNow, Sound
<1>3. Sound(u, metadexReserve, feeCache, sp, my_crowds)
  BY <1>2, SoundMoved DEF SoundNow
<1> QED
  BY <1>1, <1>3, Zenon DEF SoundNow

\* SendToOwners: the sender pays what the owners get.
LEMMA DistributedSound ==
  ASSUME SoundNow, NEW who \in Address, NEW p \in Property, NEW q \in Property, NEW n \in Nat,
         balance[<<who, p>>] >= n,
         DOMAIN STO_GetReceivers(balance, metadexReserve, {who}, q, n) # {},
         NEW w, w = Distributed(who, p, q, n)
  PROVE  /\ w \in NatTally /\ SameHeld(balance, metadexReserve, feeCache, w, metadexReserve, feeCache)
         /\ \A s \in Slot : s # <<who, p>> => w[s] >= balance[s]
<1> DEFINE share == STO_GetReceivers(balance, metadexReserve, {who}, q, n)
           O == OwnersOf(balance, metadexReserve, {who}, q)
           total == SumOver(DOMAIN share, LAMBDA a : share[a])
           v == [s \in Slot |-> IF s[2] # p THEN balance[s]
                        ELSE IF s[1] = who THEN balance[s] - total
                        ELSE IF s[1] \in DOMAIN share THEN balance[s] + share[s[1]]
                        ELSE balance[s]]
           u == [s \in Slot |-> IF s[2] # p THEN balance[s]
                                ELSE Paid(balance[s], s[1], who, total, O, share)]
<1>1. w = v /\ balance[<<who, p>>] >= n /\ DOMAIN share # {}
  BY Zenon DEF Distributed
<1>2. balance \in NatTally /\ metadexReserve \in NatTally
  BY Zenon DEF SoundNow, Sound
<1>3. /\ DOMAIN share = O /\ O \subseteq Address \ {who} /\ IsFiniteSet(O)
      /\ \A a \in O : share[a] \in Nat
      /\ O # {} => Sum(share, O) = n
  <2> DEFINE X == {who}
  <2>1. share = STO_GetReceivers(balance, metadexReserve, X, q, n)
        /\ O = OwnersOf(balance, metadexReserve, X, q)
    BY Zenon
  <2> HIDE DEF share, O, X
  <2>2. /\ DOMAIN share = O /\ O \subseteq Address \ X /\ IsFiniteSet(O)
        /\ \A a \in O : share[a] \in Nat
        /\ O # {} => Sum(share, O) = n
    BY <1>2, <2>1, SharesOf
  <2> QED
    BY <2>2, Zenon DEF X
<1>4. total = Sum(share, O)
  <2> DEFINE f == [a \in DOMAIN share |-> share[a]]
  <2> HIDE DEF share, O
  <2>1. total = Sum(f, DOMAIN share)
    BY ZenonT(30) DEF SumOver, MapThenSumSet, MapThenFoldSet, Sum, Solves, SumStep
  <2>2. \A a \in O : f[a] = share[a]
    BY <1>3, Zenon
  <2> HIDE DEF f, total
  <2>3. Sum(f, O) = Sum(share, O)
    BY <1>3, <2>2, SumSame, Zenon
  <2> QED
    BY <1>3, <2>1, <2>3, Zenon
<1> HIDE DEF share, O, total
<1>5. total = n
  BY <1>1, <1>3, <1>4, Zenon
<1>6. v = u
  <2>1. ASSUME NEW s \in Slot, s[2] = p
        PROVE  Paid(balance[s], s[1], who, total, O, share) =
                 IF s[1] = who THEN balance[s] - total
                 ELSE IF s[1] \in DOMAIN share THEN balance[s] + share[s[1]]
                 ELSE balance[s]
    <3>1. balance[s] \in Int /\ total \in Int
      BY <1>2, <1>5 DEF NatTally
    <3>2. s[1] \in O => share[s[1]] \in Int
      BY <1>3
    <3>3. who \notin O /\ DOMAIN share = O
      BY <1>3, Zenon
    <3>4. CASE s[1] = who
      BY <3>1, <3>3, <3>4 DEF Paid
    <3>5. CASE s[1] # who /\ s[1] \in O
      BY <3>1, <3>2, <3>3, <3>5 DEF Paid
    <3>6. CASE s[1] # who /\ s[1] \notin O
      BY <3>1, <3>3, <3>6 DEF Paid
    <3> QED
      BY <3>4, <3>5, <3>6, Zenon
  <2> QED
    BY <2>1, Zenon
<1>7. u = [s \in Slot |-> IF s[2] # p THEN balance[s] ELSE Paid(balance[s], s[1], who, total, O, share)]
  BY Zenon
<1>8. O \subseteq Address /\ NatOn(share, O) /\ total \in Nat /\ balance[<<who, p>>] >= total
  BY <1>1, <1>3, <1>5, Zenon DEF NatOn
<1> HIDE DEF u, v
<1>9. /\ u \in NatTally /\ SameHeld(balance, metadexReserve, feeCache, u, metadexReserve, feeCache)
      /\ \A s \in Slot : s # <<who, p>> => u[s] >= balance[s]
  BY <1>2, <1>4, <1>7, <1>8, PaidOut
<1> QED
  BY <1>1, <1>6, <1>9, Zenon

\* SendToOwners, of both versions: version 0 ends with a notice about MSC.
LEMMA SendToOwnersMoves ==
  ASSUME SoundNow, NEW who \in Address, NEW p \in Property, NEW q \in Property, NEW n \in Nat, NEW version,
         SendToOwners(who, p, q, n, version)
  PROVE  LET w == Distributed(who, p, q, n)
         IN  /\ w \in NatTally /\ SameHeld(balance, metadexReserve, feeCache, w, metadexReserve, feeCache)
             /\ \A s \in Slot : s # <<who, p>> => w[s] >= balance[s]
             /\ <<who, p>> \notin setFrozenAddresses
             /\ UNCHANGED <<metadexReserve, sp, my_crowds>>
             /\ \/ Becomes([Now EXCEPT !.bal = w])
                \/ \E total : Becomes(Notified([Now EXCEPT !.bal = w], MSC, total))
<1> DEFINE w == Distributed(who, p, q, n)
<1>1. /\ balance[<<who, p>>] >= n /\ <<who, p>> \notin setFrozenAddresses
      /\ DOMAIN STO_GetReceivers(balance, metadexReserve, {who}, q, n) # {}
      /\ UNCHANGED <<metadexReserve, sp, my_crowds>>
  BY Zenon DEF SendToOwners, Permitted, bookVars, ruleVars, issueVars
<1>2. \/ Becomes([Now EXCEPT !.bal = w])
      \/ \E total : Becomes(Notified([Now EXCEPT !.bal = w], MSC, total))
  BY Zenon DEF SendToOwners
<1>3. w = Distributed(who, p, q, n)
  BY Zenon
<1> HIDE DEF w
<1>4. /\ w \in NatTally /\ SameHeld(balance, metadexReserve, feeCache, w, metadexReserve, feeCache)
      /\ \A s \in Slot : s # <<who, p>> => w[s] >= balance[s]
  BY <1>1, <1>3, DistributedSound, Zenon
<1> QED
  BY <1>1, <1>2, <1>3, <1>4, Zenon

\* SendAll: of each property that is not frozen all goes to the receiver.
LEMMA SendAllSound ==
  ASSUME FInv, SoundNow, NEW who \in Address, NEW to \in Address, SendAll(who, to)
  PROVE  SoundNow' /\ KeepsFrozen
<1> DEFINE O == {to}
           share(q) == [a \in O |-> balance[<<who, q>>]]
           u == [s \in Slot |-> IF s[2] \notin Sendable(who) THEN balance[s]
                    ELSE balance[s] - (IF s[1] = who THEN balance[s] ELSE 0)
                                    + (IF s[1] = to THEN balance[<<who, s[2]>>] ELSE 0)]
<1>1. balance' = u /\ UNCHANGED <<metadexReserve, feeCache, sp, my_crowds>>
  BY Zenon DEF SendAll, bookVars, feeVars, ruleVars, issueVars
<1>2. balance \in NatTally /\ metadexReserve \in NatTally
  BY Zenon DEF SoundNow, Sound
<1>3. ASSUME NEW q \in Property
      PROVE  /\ balance[<<who, q>>] \in Nat /\ NatOn(share(q), O)
             /\ Sum(share(q), O) = balance[<<who, q>>]
  <2>1. balance[<<who, q>>] \in Nat
    BY <1>2, TallyAt, Zenon
  <2>2. \A a \in O : share(q)[a] = balance[<<who, q>>]
    BY Zenon
  <2>3. share(q)[to] \in Int /\ share(q)[to] = balance[<<who, q>>]
    BY <2>1, <2>2
  <2>4. NatOn(share(q), O)
    BY <2>1, <2>2, Zenon DEF NatOn
  <2> HIDE DEF share
  <2>5. Sum(share(q), O) = share(q)[to]
    BY <2>3, SumOne, Zenon
  <2> QED
    BY <2>1, <2>3, <2>4, <2>5, Zenon
<1>4. ASSUME NEW s \in Slot, s[2] \in Sendable(who)
      PROVE  u[s] = Paid(balance[s], s[1], who, balance[<<who, s[2]>>], O, share(s[2]))
  <2>1. s[1] = who => s = <<who, s[2]>>
    BY DEF Slot
  <2>2. s[1] \in O => share(s[2])[s[1]] = balance[<<who, s[2]>>]
    BY Zenon
  <2>3. s[1] \in O <=> s[1] = to
    BY Zenon
  <2>4. u[s] = balance[s] - (IF s[1] = who THEN balance[s] ELSE 0)
                          + (IF s[1] = to THEN balance[<<who, s[2]>>] ELSE 0)
    BY <1>4, Zenon
  <2> HIDE DEF share, O, u
  <2>5. (IF s[1] = who THEN balance[s] ELSE 0) = (IF s[1] = who THEN balance[<<who, s[2]>>] ELSE 0)
    BY <2>1, Zenon
  <2>6. (IF s[1] = to THEN balance[<<who, s[2]>>] ELSE 0) = (IF s[1] \in O THEN share(s[2])[s[1]] ELSE 0)
    BY <2>2, <2>3, Zenon
  <2> QED
    BY <2>4, <2>5, <2>6, Zenon DEF Paid
<1>5. \A s \in Slot : s[2] \notin Sendable(who) => u[s] = balance[s]
  BY Zenon
<1>6. \A s \in Slot : balance[s] \in Nat /\ s[2] \in Property
  BY <1>2, Zenon DEF NatTally, Slot
<1>7. u = [s \in Slot |-> u[s]]
  BY Zenon
<1>8. O \subseteq Address
  BY Zenon
<1> HIDE DEF O, share, u
<1>9. ASSUME NEW s \in Slot
      PROVE  u[s] \in Nat /\ (s \in setFrozenAddresses => u[s] >= balance[s])
  <2>1. CASE s[2] \notin Sendable(who)
    BY <1>5, <1>6, <2>1
  <2>2. CASE s[2] \in Sendable(who)
    <3>1. s[1] = who => s = <<who, s[2]>>
      BY DEF Slot
    <3>2. s[1] = who => balance[s] >= balance[<<who, s[2]>>]
      BY <1>6, <3>1
    <3> DEFINE x == balance[s]
               y == balance[<<who, s[2]>>]
               a == s[1]
               h == share(s[2])
    <3>3. x \in Nat /\ y \in Nat /\ (a = who => x >= y) /\ NatOn(h, O)
      BY <1>3, <1>6, <3>2, Zenon
    <3>4. u[s] = Paid(x, a, who, y, O, h)
      BY <1>4, <2>2, Zenon
    <3>5. s \in setFrozenAddresses => a # who
      BY <2>2, <3>1, Zenon DEF Sendable
    <3> HIDE DEF x, y, a, h
    <3>6. /\ Paid(x, a, who, y, O, h) \in Nat
          /\ a # who => Paid(x, a, who, y, O, h) >= x
      BY <3>3, PaidSlot, Zenon
    <3> QED
      BY <3>4, <3>5, <3>6, Zenon DEF x
  <2> QED
    BY <2>1, <2>2, Zenon
<1>10. u \in NatTally
  BY <1>7, <1>9, Zenon DEF NatTally
<1>11. balance \in Tally /\ metadexReserve \in Tally /\ u \in Tally
  BY <1>2, <1>10 DEF Tally, NatTally
<1>12. ASSUME NEW q \in Property PROVE Tot(u, metadexReserve, q) = Tot(balance, metadexReserve, q)
  <2>1. CASE q \in Sendable(who)
    <3> DEFINE y == balance[<<who, q>>]
               h == share(q)
    <3>1. ASSUME NEW a \in Address PROVE u[<<a, q>>] = Paid(balance[<<a, q>>], a, who, y, O, h)
      <4>1. <<a, q>> \in Slot /\ <<a, q>>[1] = a /\ <<a, q>>[2] = q
        BY TallyAt, Zenon
      <4> QED
        BY <1>4, <2>1, <4>1, Zenon
    <3>2. y \in Int /\ y = Sum(h, O) /\ NatOn(h, O)
      BY <1>3
    <3> HIDE DEF y, h
    <3> QED
      BY <1>8, <1>11, <3>1, <3>2, PaidTotal
  <2>2. CASE q \notin Sendable(who)
    <3>1. ASSUME NEW a \in Address PROVE u[<<a, q>>] = balance[<<a, q>>]
      <4>1. <<a, q>> \in Slot /\ <<a, q>>[2] = q
        BY TallyAt, Zenon
      <4> QED
        BY <1>5, <2>2, <4>1, Zenon
    <3>2. \A a \in Address : u[<<a, q>>] + metadexReserve[<<a, q>>] = balance[<<a, q>>] + metadexReserve[<<a, q>>]
      BY <3>1, Zenon
    <3> QED
      BY <1>11, <3>2, TotSame
  <2> QED
    BY <2>1, <2>2, Zenon
<1>13. SameHeld(balance, metadexReserve, feeCache, u, metadexReserve, feeCache)
  BY <1>12, Zenon DEF SameHeld, Held
<1>14. SoundNow'
  BY <1>1, <1>10, <1>13, MovesOnlySound
<1>16. KeepsFrozen
  BY <1>1, <1>9, Zenon DEF KeepsFrozen, FInv
<1> QED
  BY <1>14, <1>16, Zenon

=============================================================================
