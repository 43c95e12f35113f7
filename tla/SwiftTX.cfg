SPECIFICATION FairSpec
CONSTANTS
    Txs = {t1, t2}
    Inputs = {a, b}
    Vin <- MCVin
    Signers = {m1, m2}
    LockHeights = {1}
    OtherHeights = {2}
    SWIFTTX_SIGNATURES_REQUIRED = 2
    NoTx = NoTx
    t1 = t1
    t2 = t2
    a = a
    b = b
INVARIANTS
    NoDoubleVote
PROPERTIES
    LockNeedsQuorum
    HeldInputsExpire
