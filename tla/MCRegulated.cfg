SPECIFICATION MCSpec
CONSTANTS
  w1 = w1
  w2 = w2
  ag = ag
  id1 = id1
  Scenarios = {"trading", "lists", "exchange"}
  LimitValues = {1}
  MonthlyValues = {4}
  Word = 3
  Wallets = {w1, w2}
  Spenders = {w2}
  AgentAddresses = {ag, w1}
  Identities = {id1, id2}
  NoIdentity = none
  ManagementKeys <- MCKeys
  Modules = {"SupplyLimit", "CountryAllow", "CountryRestrict", "TransferRestrict", "ExchangeMonthly", "TimeExchange"}
  ZeroAddress = zero
  Countries = {c1}
  NoCountry = c0
  Month = 1
  MaxLimitValue = 5
  LimitTimes = {0, 1}
  MaxLimits = 2
  MaxTime = 1
VIEW RegulatedView
INVARIANTS
  RegulatedTypeOK
  LimitIndexConsistent
PROPERTIES
  InflowVerified
  OutflowRespectsFreeze
  LedgerSpec
  CirculationCapped
  ListsObeyed
  MonthlyCountsMoves
  TimeCountsMoves
  ExchangeLimitsHold
CHECK_DEADLOCK FALSE
