SPECIFICATION TradingSpec
CONSTANTS
  Word = 3
  w1 = w1
  w2 = w2
  Wallets = {w1, w2}
  Spenders = {}
  AgentAddresses = {ag}
  Identities = {id1}
  NoIdentity = none
  ManagementKeys <- MCKeys
PROPERTY DebitThenCredit
CHECK_DEADLOCK FALSE
