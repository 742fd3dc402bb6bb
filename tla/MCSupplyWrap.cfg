SPECIFICATION MCSpec
CONSTANTS
  w1 = w1
  w2 = w2
  ag = ag
  id1 = id1
  Scenarios = {"trading"}
  LimitValues = {1}
  MonthlyValues = {}
  Word = 3
  Wallets = {w1, w2}
  Spenders = {}
  AgentAddresses = {ag, w1}
  Identities = {id1, id2}
  NoIdentity = none
  ManagementKeys <- MCKeys
  Modules = {"SupplyLimit"}
  ZeroAddress = zero
  Countries = {c1}
  NoCountry = c0
  Month = 1
  MaxLimitValue = 5
  LimitTimes = {}
  MaxLimits = 2
  MaxTime = 1
VIEW RegulatedView
PROPERTY MintRespectsLimit
CHECK_DEADLOCK FALSE
