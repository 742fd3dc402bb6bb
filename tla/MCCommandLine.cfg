SPECIFICATION MCSpec
CONSTANTS
  p1 = p1
  p2 = p2
  alice = alice
  bob = bob
  Wallets = {admin, bank, agent, alice, bob}
  Users = {alice, bob}
  Issuers = {uni, gov}
  Sessions = {p1, p2}
  Salt = salt
  Nobody = nobody
  Limit = 3
  Admin = admin
  Bank = bank
  Agent = agent
  Countries = {1}
  MaxFaults = 1
  SetupTasks = 1
  SuiteTasks = 2
  ManagerTasks = 3
INVARIANTS
  CommandTypeOK
  ListedUsable
  OneTokenPerSalt
  EscrowHeld
PROPERTIES
  SetupDelivers
  StepsAchieve
CHECK_DEADLOCK FALSE
