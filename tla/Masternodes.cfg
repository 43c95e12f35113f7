SPECIFICATION Spec
CONSTANTS
  m1 = m1
  m2 = m2
  m3 = m3
  me = me
  p1 = p1
  p2 = p2
  mnb = mnb
  prop = prop
  Masternodes <- MCMasternodeSet
  Me = me
  Payees <- MCPayees
  NoPayee = NoPayee
  None = None
  TopRanked <- MCTopRanked
  Unranked <- MCUnranked
  Required = 2
  Ahead = 1
  Beyond = 2
  Back = 0
  Keep = 1
  MaxHeight = 3
  Threshold = 1
  Quiet = 1
  Patience = 2
  Retry = 1
  MaxPeers = 3
  Items <- MCItems
  AssetOf <- MCAssetOf
  SporkOn <- MCSporkOn
  Worlds <- MCWorlds
INVARIANTS
    VotesAreCounted
    StakedBlockStaysValid
    SyncedHasChain
PROPERTIES
    SynchronisationEnds
    SporksGoForward
CHECK_DEADLOCK FALSE
