CONSTANTS
    Outpoints = {o1, o2}
    SpendableCoins = {c1, c2}
    UnspendableCoins = {u1}
    Spent = Spent
    Blocks = {b1, b2}
    NoBlock = NoBlock
SPECIFICATION CoinsSpec
INVARIANTS
    FreshIsSound
PROPERTIES
    ImplementsCoinSet
