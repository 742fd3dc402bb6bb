------------------------------- MODULE Tasks -------------------------------
(***************************************************************************)
(* The tasks of the command line: which commands each of them runs, on     *)
(* what, signed by whom.  A task is a set of scripts, one for each choice  *)
(* of its options; the user may name any wallet, right or wrong.           *)
(***************************************************************************)
EXTENDS TokenCommands

CONSTANTS Admin, Bank, Agent,  \* wallets: of the factory, the token owner, its agent
          Countries            \* country codes; setup registers its users with the first

ASSUME WalletsAssumption ==
  /\ {Admin, Bank, Agent} \cup Users \subseteq Wallets
  /\ 1 \in Countries /\ Nobody \notin Wallets \cup {Manager}
  /\ Manager \notin Wallets /\ Sessions \cap Wallets = {}  \* addresses of contracts
  /\ IsFiniteSet(Users) /\ IsFiniteSet(Issuers)

-----------------------------------------------------------------------------
(***************************************************************************)
(* What a step of a script does.                                           *)
(***************************************************************************)
SuiteStep(c, o) ==
  CASE o.do = "deploy" -> Deploy(c, o)
    [] o.do = "useVersion" -> UseVersion(c, o)
    [] o.do = "addTokenFactory" -> AddTokenFactory(c, o)
    [] o.do = "deployIssuer" -> DeployIssuer(c, o)
    [] o.do = "deployTREXSuite" -> DeployTREXSuite(c, o)
    [] o.do = "startSuite" -> StartSuite(c, o)
    [] o.do = "deployPart" -> DeployPart(c, o)
    [] o.do = "bindRegistry" -> BindRegistry(c, o)
    [] o.do = "checkIdFactory" -> CheckIdFactory(c, o)
    [] o.do = "createTokenIdentity" -> CreateTokenIdentity(c, o)
    [] o.do = "setOnchainID" -> SetOnchainID(c, o)
    [] o.do = "addClaimTopic" -> AddClaimTopic(c, o)
    [] o.do = "addTrustedIssuer" -> AddTrustedIssuer(c, o)
    [] o.do = "transferOwnership" -> TransferOwnership(c, o)
    [] o.do = "addAgent" -> AddAgent(c, o)
    [] o.do = "removeAgent" -> RemoveAgent(c, o)
    [] o.do = "deployIdentity" -> DeployIdentity(c, o)
    [] o.do = "checkIdentity" -> CheckIdentity(c, o)
    [] o.do = "registerIdentity" -> RegisterIdentity(c, o)
    [] o.do = "addClaim" -> AddClaim(c, o)
    [] o.do = "removeClaim" -> RemoveClaim(c, o)
    [] o.do = "addKey" -> AddKey(c, o)
    [] o.do = "removeKey" -> RemoveKey(c, o)
    [] o.do = "checkCompliance" -> CheckCompliance(c, o)
    [] o.do = "deployModule" -> DeployModule(c, o)
    [] o.do = "addModule" -> AddModule(c, o)
    [] o.do = "setLimit" -> SetLimit(c, o)
    [] o.do = "batchAllow" -> BatchAllow(c, o)

TokenStep(c, o) ==
  CASE o.do = "mintUnchecked" -> Mint(c, o)
    [] o.do = "unpauseUnchecked" -> Unpause(c, o)
    [] o.do = "mint" -> CmdMint(c, o)
    [] o.do = "burn" -> CmdBurn(c, o)
    [] o.do = "freeze" -> CmdFreeze(c, o)
    [] o.do = "unfreeze" -> CmdUnfreeze(c, o)
    [] o.do = "pause" -> CmdPause(c, o)
    [] o.do = "unpause" -> CmdUnpause(c, o)
    [] o.do = "transfer" -> CmdTransfer(c, o)
    [] o.do = "approve" -> CmdApprove(c, o)
    [] o.do = "increaseAllowance" -> CmdIncreaseAllowance(c, o)
    [] o.do = "decreaseAllowance" -> CmdDecreaseAllowance(c, o)
    [] o.do = "setSupplyLimit" -> CmdSetSupplyLimit(c, o)
    [] o.do = "addExchangeID" -> CmdAddExchangeID(c, o)
    [] o.do = "removeExchangeID" -> CmdRemoveExchangeID(c, o)
    [] o.do = "setExchangeLimit" -> CmdSetExchangeLimit(c, o)
    [] o.do = "deployManager" -> DeployManager(c, o)
    [] o.do = "registerManager" -> RegisterManager(c, o)
    [] o.do = "setApprovalCriteria" -> CmdSetApprovalCriteria(c, o)
    [] o.do = "initiate" -> CmdInitiate(c, o)
    [] o.do = "approveTransfer" -> CmdTransferApprove(c, o)
    [] o.do = "delegateApprove" -> CmdDelegateApprove(c, o)
    [] o.do = "cancelTransfer" -> CancelTransfer(c, o)
    [] o.do = "rejectTransfer" -> RejectTransfer(c, o)

TokenSteps ==
  {"mintUnchecked", "unpauseUnchecked", "mint", "burn", "freeze", "unfreeze", "pause",
   "unpause", "transfer", "approve", "increaseAllowance", "decreaseAllowance",
   "setSupplyLimit", "addExchangeID", "removeExchangeID", "setExchangeLimit",
   "deployManager", "registerManager", "setApprovalCriteria", "initiate",
   "approveTransfer", "delegateApprove", "cancelTransfer", "rejectTransfer"}

\* A step that is given no options throws when it has sent its transaction: the
\* number of confirmations to wait for is one of them.
Hasty(o) == [x \in DOMAIN o \cup {"hasty"} |-> IF x = "hasty" THEN TRUE ELSE o[x]]
IsHasty(o) == "hasty" \in DOMAIN o
StepOf(c, o) ==
  LET step == IF o.do \in TokenSteps THEN TokenStep(c, o) ELSE SuiteStep(c, o)
  IN IF IsHasty(o) THEN [step EXCEPT !.shows = FALSE] ELSE step

-----------------------------------------------------------------------------
(***************************************************************************)
(* trex setup and trex new-factory.                                        *)
(***************************************************************************)
IssuerScripts ==
  LET all == SetToSeq(Issuers) IN FlattenSeq([k \in DOMAIN all |-> DeployNewClaimIssuer(all[k])])

\* A user gets an identity, which is registered, and a claim of each issuer.
UserSteps(p, user) ==
  LET all == SetToSeq(Issuers)
      identity == <<user, p>>
  IN IdentityNew(identity, user)
       \o <<registerIdentity(p, user, identity, 1, Bank)>>
       \o [k \in DOMAIN all |-> addClaim(identity, all[k], user)]

mintTo(do, token, user, by) == [do |-> do, token |-> token, user |-> user, by |-> by]
Mints(p) ==
  LET all == SetToSeq(Users)
  IN [k \in DOMAIN all |-> mintTo("mintUnchecked", p, all[k], Agent)]
       \o <<[do |-> "unpauseUnchecked", token |-> p, by |-> Agent]>>

SuiteScript(network, p) ==
  LoadOrDeployTREXConfig(Admin) \o IssuerScripts \o TokenNew(network, p, Bank, Issuers, Admin)
    \o <<addAgent(p, "ir", Bank, Bank), addAgent(p, "token", Agent, Bank)>>
UserScripts(p) ==
  LET all == SetToSeq(Users) IN FlattenSeq([k \in DOMAIN all |-> UserSteps(p, all[k])])

\* cmdTREXSetup, with a mint and unpaused.
SetupScript(network, p) ==
  SuiteScript(network, p) \o UserScripts(p) \o DeployModules(p, p, Bank) \o Mints(p)

Untouched(c) == \A x \in Infra : c.infra[x] = Nobody
SetupTask(network, c, p) == IF Untouched(c) THEN {SetupScript(network, p)} ELSE {}

\* The task gives its command no options: the first transaction it waits for is
\* the last it sends.
NewFactoryTask(c, by) ==
  IF Untouched(c)
  THEN {[k \in DOMAIN LoadOrDeployTREXConfig(by) |->
           LET o == LoadOrDeployTREXConfig(by)[k] IN IF o.do = "useVersion" THEN Hasty(o) ELSE o]}
  ELSE {}

-----------------------------------------------------------------------------
(***************************************************************************)
(* The other tasks.                                                        *)
(***************************************************************************)
\* The task passes its options in the wrong order and throws before anything is
\* done; this is the command as setup and the scripts call it.
NewTokenTask(network, c, p) ==
  IF c.suite[p] # NewSuite THEN {}
  ELSE {TokenNew(network, p, owner, c.issuers, by) : owner, by \in {Admin, Bank}}

IssuerTask(c) == {DeployNewClaimIssuer(i) : i \in Issuers \ c.issuers}

IdentityTask(c, p) ==
  {IdentityNew(<<u, p>>, u) : u \in {v \in Users : ~c.identity[<<v, p>>].deployed}}

\* The wallet is the owner of the contract unless it is given.
AddAgentTask ==
  {<<Hasty(addAgent(t, to, agent, by))>> :
     t \in Tokens, to \in {"ir", "token"}, agent \in Wallets \cup {Manager}, by \in Wallets}

One(ops) == {<<o>> : o \in ops}
Signed(do) == [do: {do}, token: Tokens, by: Wallets]
\* The address of a holder is the manager's as well as a user's.
ForHolder(do) == [do: {do}, token: Tokens, user: Holders, by: Wallets]

MintTask == One(ForHolder("mint"))
BurnTask == One(ForHolder("burn"))
FreezeTask == One(ForHolder("freeze"))
UnfreezeTask == One(ForHolder("unfreeze"))
PauseTask == One(Signed("pause"))
UnpauseTask == One(Signed("unpause"))
TransferTask == One([do: {"transfer"}, token: Tokens, by: Users, to: Holders])
ApproveTask == One([do: {"approve"}, token: Tokens, by: Users])
IncreaseTask == One([do: {"increaseAllowance"}, token: Tokens, by: Users])
DecreaseTask == One([do: {"decreaseAllowance"}, token: Tokens, by: Users])
SupplyLimitTask == One([do: {"setSupplyLimit"}, token: Tokens, limit: 0..Limit, by: Wallets])

ForExchange(do, name) ==
  [do: {do}, name: {name}, token: Tokens, user: Holders, by: Wallets]
TimeAddTask == One(ForExchange("addExchangeID", "TimeExchange"))
TimeRemoveTask == One(ForExchange("removeExchangeID", "TimeExchange"))
TimeLimitTask == One(ForExchange("setExchangeLimit", "TimeExchange"))
MonthlyAddTask == One(ForExchange("addExchangeID", "ExchangeMonthly"))
MonthlyRemoveTask == One(ForExchange("removeExchangeID", "ExchangeMonthly"))
MonthlyLimitTask == One(ForExchange("setExchangeLimit", "ExchangeMonthly"))

NewManagerTask(c) ==
  IF c.dva.deployed THEN {}
  ELSE {TransferManagerCreate(t, u, k, by) : t \in Tokens, u \in Users, k \in Countries, by \in Wallets}
CriteriaTask ==
  One([do: {"setApprovalCriteria"}, token: Tokens, by: Wallets,
       criteria: SUBSET {"recipient", "agent"} \ {{}}])
InitiateTask == One([do: {"initiate"}, token: Tokens, by: Users, to: Holders])
ApproveTransferTask(c) ==
  One([do: {"approveTransfer"}, token: Tokens, id: 1..Nonce(c), by: Wallets])
\* The command signs with the wallets it is given; the call itself takes whatever
\* is sent as a signature.
DelegateTask(c) ==
  One([do: {"delegateApprove"}, token: Tokens, id: 1..Nonce(c), by: Wallets,
       signers: UNION {[1..n -> Wallets \cup {Nobody}] : n \in {1, 2}}])

\* What has no task: calls the scripts and the tests make.
EndTransferCalls(c) ==
  One([do: {"cancelTransfer", "rejectTransfer"}, id: 1..Nonce(c), by: Wallets])
OtherCalls ==
  One([do: {"removeAgent"}, token: Tokens, to: {"ir", "token"}, agent: Wallets, by: Wallets])
    \cup One([do: {"addClaim", "removeClaim"}, identity: Identities, issuer: Issuers, by: Wallets])
    \cup One([do: {"addKey", "removeKey"}, identity: Identities, key: Wallets, by: Wallets])
    \cup One({registerIdentity(t, u, i, k, by) :
                t \in Tokens, u \in Users, i \in Identities, k \in Countries, by \in Wallets})

TaskNames ==
  {"setup", "new-factory", "new-token", "new-issuer", "new-identity", "add-agent", "supply",
   "pause", "transfers", "modules", "manager", "end-transfer", "other"}

ScriptsOf(network, c, p, task) ==
  CASE task = "setup" -> SetupTask(network, c, p)
    [] task = "new-factory" -> UNION {NewFactoryTask(c, by) : by \in Wallets}
    [] task = "new-token" -> NewTokenTask(network, c, p)
    [] task = "new-issuer" -> IssuerTask(c)
    [] task = "new-identity" -> IdentityTask(c, p)
    [] task = "add-agent" -> AddAgentTask
    [] task = "supply" -> MintTask \cup BurnTask \cup FreezeTask \cup UnfreezeTask \cup SupplyLimitTask
    [] task = "pause" -> PauseTask \cup UnpauseTask
    [] task = "transfers" -> TransferTask \cup ApproveTask \cup IncreaseTask \cup DecreaseTask
    [] task = "modules" ->
         TimeAddTask \cup TimeRemoveTask \cup TimeLimitTask
           \cup MonthlyAddTask \cup MonthlyRemoveTask \cup MonthlyLimitTask
    [] task = "manager" ->
         NewManagerTask(c) \cup CriteriaTask \cup InitiateTask
           \cup ApproveTransferTask(c) \cup DelegateTask(c)
    [] task = "end-transfer" -> EndTransferCalls(c)
    [] task = "other" -> OtherCalls

\* The in-process network serves the session that started it.
Alone(network) == network = "hardhat"
=============================================================================
