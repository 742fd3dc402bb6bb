SPECIFICATION MCSpec
VIEW DVAView
CONSTANTS
  Word = 3
  w1 = w1
  w2 = w2
  mgr = mgr
  ag = ag
  id1 = id1
  id2 = id2
  Wallets = {w1, w2, mgr}
  Spenders = {mgr}
  AgentAddresses = {ag, w2}
  Identities = {id1, id2}
  NoIdentity = none
  ManagementKeys <- MCKeys
  Manager = mgr
  Users = {w1, w2, ag}
  NoWallet = zero
  CriteriaChoices <- MCCriteria
  NoCriteria = nocriteria
  MaxTransfers = 2
  MaxSignatures = 2
INVARIANTS
  DVATypeOK
  StatusMatchesApprovals
PROPERTIES
  EscrowCovered
  SettledOnce
  CompletedAsRequired
  ApprovedInOrder
CHECK_DEADLOCK FALSE
