SPECIFICATION Spec
CONSTANTS
  Word = 4
  w1 = w1
  w2 = w2
  Wallets = {w1, w2}
  Spenders = {}
  AgentAddresses = {ag}
  Identities = {id1}
  NoIdentity = none
  ManagementKeys <- MCKeys
SYMMETRY WalletSymmetry
VIEW tokenView
INVARIANTS
  TypeOK
  FrozenWithinBalance
  SupplyIsSum
PROPERTIES
  SupplyTracksBalances
  RecoveryIsComplete
  LedgerSpec
CHECK_DEADLOCK FALSE
