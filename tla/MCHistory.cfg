SPECIFICATION MCSpec
CONSTANTS
  a1 = a1
  a2 = a2
  meg = meg
  gem = gem
  alice = alice
  authority = authority
  otherChain = otherChain
  Sessions = {s1, s2}
  Addresses = {a1, a2}
  ZeroAddress = zero
  Contents <- MCContents
  Tags = {meg, gem, alice, authority}
  NoTag = notag
  NoCode = nocode
  Missing = missing
  Garbled = garbled
  Chain = fhevm
  FirstFiles <- MCFiles
  MaxFaults = 1
  MaxOperations = 5
INVARIANTS
  HistoryTypeOK
  HistoryComplete
PROPERTIES
  LatestResolved
  SavedEventually
CHECK_DEADLOCK FALSE
