SPECIFICATION Spec
CONSTANTS
    Address = {sellerA, buyerB, issuerC}
    Property = {tokenP, tokenQ}
    sellerA = sellerA
    buyerB = buyerB
    issuerC = issuerC
    tokenP = tokenP
    tokenQ = tokenQ
    Amounts = {1, 2}
    Prices = {2}
    Windows = {1}
    MinFees = {1}
    Fees = {0, 1}
    RoyaltyPercent <- MCRoyaltyPercent
    RoyaltyReceiver <- MCRoyaltyReceiver
    Receivers = {buyerB}
    Freezable <- MCFreezable
    Payments <- MCPayments
    InitBalance <- MCInitBalance
    MSC = tokenQ
    Exodus = buyerB
    Vested <- MCVested
    MaxInt = 100
    MaxBlock = 3
    MaxOffers = 2
INVARIANTS
    ReservedTokensAreOnOffer
    OfferNotOversold
    TokensConserved
CHECK_DEADLOCK FALSE
