--------------------------- MODULE SuiteCommands ---------------------------
(***************************************************************************)
(* The commands that build a suite: factories, claim issuers, tokens,      *)
(* agents, identities, claims and compliance modules.  A command is a       *)
(* sequence of steps, each one transaction or one save of the history; an   *)
(* operator without c is such a sequence, one with c is what a step does.   *)
(***************************************************************************)
EXTENDS Suite, SequencesExt

-----------------------------------------------------------------------------
(***************************************************************************)
(* Factories and claim issuers.                                            *)
(***************************************************************************)
\* One factory is followed: bound, the deployment of a second one ends at once.
deploy(what, by) == [do |-> "deploy", what |-> what, by |-> by]
Deploy(c, o) ==
  Step(TRUE, FALSE, c.infra[o.what] = Nobody, [c EXCEPT !.infra[o.what] = o.by], TRUE)

save(kind, at) == [do |-> "save", kind |-> kind, at |-> at]
Save(c, o) == [c EXCEPT !.history = @ \cup {<<o.kind, o.at>>}]

\* The logic contracts, in the order they are deployed.
Implementations == <<"Token", "ClaimTopicsRegistry", "IdentityRegistry",
                     "IdentityRegistryStorage", "TrustedIssuersRegistry", "ModularCompliance">>

\* The owner of the authority names the version that proxies use.
UseVersion(c, o) ==
  Step(TRUE, FALSE, c.infra["TREXImplementationAuthority"] = o.by,
       [c EXCEPT !.version = TRUE], TRUE)

\* The identity factory accepts a new token factory from its owner.
AddTokenFactory(c, o) ==
  Step(TRUE, FALSE, c.infra["IdFactory"] = o.by /\ ~c.linked, [c EXCEPT !.linked = TRUE], TRUE)

DeployNewIdFactory(by) ==
  <<deploy("Identity", by), deploy("ImplementationAuthority", by),
    deploy("IdFactory", by), save("IdFactory", "IdFactory")>>

DeployNewMain(by) ==
  <<deploy("TREXImplementationAuthority", by)>>
    \o [k \in DOMAIN Implementations |-> deploy(Implementations[k], by)]
    \o <<[do |-> "useVersion", by |-> by]>>

\* As DeployNewTRexFactory, but the history is told before the link is made.
DeployFactoryListedFirst(by) ==
  <<deploy("TREXFactory", by), save("TREXFactory", "TREXFactory"),
    [do |-> "addTokenFactory", by |-> by]>>

DeployNewTRexFactory(by) ==
  <<deploy("TREXFactory", by), [do |-> "addTokenFactory", by |-> by],
    save("TREXFactory", "TREXFactory")>>

\* cmdTREXNewFactory; nothing is ever loaded, as it is given no addresses.
LoadOrDeployTREXConfig(by) ==
  DeployNewIdFactory(by) \o DeployNewMain(by) \o DeployNewTRexFactory(by)

DeployIssuer(c, o) ==
  Step(TRUE, FALSE, TRUE, [c EXCEPT !.issuers = @ \cup {o.issuer}], TRUE)
DeployNewClaimIssuer(issuer) ==
  <<[do |-> "deployIssuer", issuer |-> issuer], save("ClaimIssuer", issuer)>>

-----------------------------------------------------------------------------
(***************************************************************************)
(* Tokens.                                                                 *)
(***************************************************************************)

\* TREXFactoryAPI.fromWithOwner: by owns the factory and its authority, the
\* version is the expected one and the identity factory knows the factory.
FactoryFromOwner(c, by) ==
  /\ c.infra["TREXFactory"] = by
  /\ c.infra["TREXImplementationAuthority"] = by
  /\ c.version
  /\ c.linked

\* The suite one transaction of the factory leaves, its owners included; the
\* storage stays the factory's.
Complete(o) ==
  [NewSuite EXCEPT !.owner = [p \in Parts |-> IF p \in HandedOver THEN o.owner ELSE Nobody],
                   !.bound = TRUE, !.onchainID = TRUE, !.irAgents = {o.token},
                   !.topics = o.issuers, !.trusted = o.issuers]

\* As DeployTREXSuite, but the factory and the identity factory let a salt be
\* used again.
DeployTREXSuiteAgain(c, o) ==
  Step(FactoryFromOwner(c, o.by) /\ c.factoryToken = Nobody,
       FALSE,
       c.infra["TREXFactory"] = o.by,
       [c EXCEPT !.suite[o.token] = Complete(o), !.factoryToken = o.token],
       c.factoryToken = o.token)

DeployTREXSuite(c, o) ==
  Step(FactoryFromOwner(c, o.by) /\ c.factoryToken = Nobody,
       FALSE,
       c.infra["TREXFactory"] = o.by /\ c.factoryToken = Nobody /\ Salt \notin c.idSalts,
       [c EXCEPT !.suite[o.token] = Complete(o), !.factoryToken = o.token,
                 !.idSalts = @ \cup {Salt}],
       c.factoryToken = o.token)

\* The same contracts one by one, each owned by its deployer: on the in-process
\* network the factory's transaction does not fit in a block.
StartSuite(c, o) == Check(c, FactoryFromOwner(c, o.by))
DeployPart(c, o) ==
  Step(TRUE, FALSE, TRUE, [c EXCEPT !.suite[o.token].owner[o.part] = o.by], TRUE)
BindRegistry(c, o) ==
  Step(TRUE, FALSE, Owner(c, o.token, "irs") = o.by, [c EXCEPT !.suite[o.token].bound = TRUE], TRUE)

part(name, o) == [do |-> "deployPart", part |-> name, token |-> o.token, by |-> o.by]
IdentityRegistryParts(o) ==
  <<part("ctr", o), part("tir", o), part("irs", o), part("ir", o), [o EXCEPT !.do = "bindRegistry"]>>

\* Two transactions: the identity factory links the token to a new identity,
\* under a salt of its own, and the token records it.
CreateTokenIdentity(c, o) ==
  Step(c.infra["IdFactory"] = o.by, FALSE, c.infra["IdFactory"] = o.by /\ Salt \notin c.idSalts,
       [c EXCEPT !.idSalts = @ \cup {Salt}], TRUE)
SetOnchainID(c, o) ==
  Step(TRUE, FALSE, Owner(c, o.token, "token") = o.by,
       [c EXCEPT !.suite[o.token].onchainID = TRUE], TRUE)

addAgent(token, to, agent, by) ==
  [do |-> "addAgent", token |-> token, to |-> to, agent |-> agent, by |-> by]

TokenParts(o) ==
  <<part("mc", o), [o EXCEPT !.do = "checkIdFactory"], part("token", o),
    [o EXCEPT !.do = "createTokenIdentity"], [o EXCEPT !.do = "setOnchainID"],
    addAgent(o.token, "ir", o.token, o.by)>>

\* TokenAPI.deployNew: by owns both factories and the identity authority.
CheckIdFactory(c, o) ==
  Check(c, \A x \in {"TREXFactory", "IdFactory", "ImplementationAuthority"} : c.infra[x] = o.by)

AddClaimTopic(c, o) ==
  Step(TRUE, FALSE, Owner(c, o.token, "ctr") = o.by,
       [c EXCEPT !.suite[o.token].topics = @ \cup {o.issuer}], TRUE)
AddTrustedIssuer(c, o) ==
  Step(TRUE, FALSE, Owner(c, o.token, "tir") = o.by /\ o.issuer \notin c.suite[o.token].trusted,
       [c EXCEPT !.suite[o.token].trusted = @ \cup {o.issuer}], TRUE)

\* Skipped for a part that is the new owner's already.  The tests that by is the
\* owner are not awaited, so only the contract stops one who is not.  The five owners
\* are read before the first transaction; a deployment by hand, the only caller, has
\* the in-process network for itself, so they are the same when their turn comes.
TransferOwnership(c, o) ==
  Step(TRUE, Owner(c, o.token, o.part) = o.owner, Owner(c, o.token, o.part) = o.by,
       [c EXCEPT !.suite[o.token].owner[o.part] = o.owner], TRUE)

TransferTokenOwnership(o) ==
  IF o.owner = o.by THEN <<>>
  ELSE [k \in 1..5 |-> [do |-> "transferOwnership", token |-> o.token, owner |-> o.owner,
                         part |-> <<"token", "ir", "tir", "ctr", "mc">>[k], by |-> o.by]]

withIssuer(o, step, i) == [do |-> step, token |-> o.token, issuer |-> i, by |-> o.by]
ClaimSteps(o) ==
  LET all == SetToSeq(o.issuers)
  IN [k \in DOMAIN all |-> withIssuer(o, "addClaimTopic", all[k])]
       \o [k \in DOMAIN all |-> withIssuer(o, "addTrustedIssuer", all[k])]

DeployTREXSuiteManual(o) ==
  <<[o EXCEPT !.do = "startSuite"]>> \o IdentityRegistryParts(o) \o TokenParts(o)
    \o ClaimSteps(o) \o TransferTokenOwnership(o)

\* cmdTokenNew.  Only the factory's own deployment is recorded in the history.
TokenNew(network, token, owner, issuers, by) ==
  LET o == [do |-> "deployTREXSuite", token |-> token, owner |-> owner,
            issuers |-> issuers, by |-> by]
  IN IF network = "hardhat" THEN DeployTREXSuiteManual(o) ELSE <<o, save("Token", token)>>

-----------------------------------------------------------------------------
(***************************************************************************)
(* Agents, identities and claims.                                          *)
(***************************************************************************)
AgentsOf(c, o) == IF o.to = "ir" THEN c.suite[o.token].irAgents ELSE c.suite[o.token].agents
WithAgents(c, o, agents) ==
  IF o.to = "ir" THEN [c EXCEPT !.suite[o.token].irAgents = agents]
  ELSE [c EXCEPT !.suite[o.token].agents = agents]

AddAgent(c, o) ==
  LET owned == Owner(c, o.token, o.to) = o.by
  IN Step(owned, o.agent \in AgentsOf(c, o), owned /\ o.agent \notin AgentsOf(c, o),
          WithAgents(c, o, AgentsOf(c, o) \cup {o.agent}), TRUE)
RemoveAgent(c, o) ==
  LET owned == Owner(c, o.token, o.to) = o.by
  IN Step(TRUE, o.agent \notin AgentsOf(c, o), owned /\ o.agent \in AgentsOf(c, o),
          WithAgents(c, o, AgentsOf(c, o) \ {o.agent}), TRUE)

\* cmdIdentityNew: a proxy whose first management key is the user's wallet.
DeployIdentity(c, o) ==
  Step(c.infra["IdFactory"] # Nobody, FALSE, TRUE,
       [c EXCEPT !.identity[o.identity] = [deployed |-> TRUE, keys |-> {o.by}, claims |-> {}]], TRUE)
CheckIdentity(c, o) == Check(c, IsManager(c, o.identity, o.by))
IdentityNew(identity, by) ==
  LET o == [do |-> "deployIdentity", identity |-> identity, by |-> by]
  IN <<o, save("Identity", identity), [o EXCEPT !.do = "checkIdentity"]>>

\* What the registry has for a holder may not be changed this way: the same
\* entry is skipped, another one is an error.
registerIdentity(token, user, identity, country, by) ==
  [do |-> "registerIdentity", token |-> token, user |-> user,
   entry |-> [identity |-> identity, country |-> country], by |-> by]
AlreadyRegistered(c, o) == c.suite[o.token].entry[o.user] = o.entry
NotRegistered(c, o) == c.suite[o.token].entry[o.user] = NoEntry
MayRegister(c, o) ==
  IsManager(c, o.entry.identity, o.user) /\ o.by \in c.suite[o.token].irAgents

RegisterIdentity(c, o) ==
  Step(/\ IsToken(c, o.token) /\ c.identity[o.entry.identity].deployed
       /\ AlreadyRegistered(c, o) \/ (NotRegistered(c, o) /\ MayRegister(c, o)),
       AlreadyRegistered(c, o),
       o.by \in c.suite[o.token].irAgents /\ c.suite[o.token].bound /\ NotRegistered(c, o),
       [c EXCEPT !.suite[o.token].entry[o.user] = o.entry],
       ~NotRegistered(c, o))

\* A claim signed by its issuer, added by a manager of the identity.
addClaim(identity, issuer, by) ==
  [do |-> "addClaim", identity |-> identity, issuer |-> issuer, by |-> by]
AddClaim(c, o) ==
  LET managed == IsManager(c, o.identity, o.by)
  IN Step(managed, FALSE, managed, [c EXCEPT !.identity[o.identity].claims = @ \cup {o.issuer}],
          o.issuer \in c.identity[o.identity].claims)
RemoveClaim(c, o) ==
  LET managed == IsManager(c, o.identity, o.by)
      held == o.issuer \in c.identity[o.identity].claims
  IN Step(managed, ~held, managed /\ held,
          [c EXCEPT !.identity[o.identity].claims = @ \ {o.issuer}], ~held)

\* Nothing keeps the last management key.
AddKey(c, o) ==
  LET managed == IsManager(c, o.identity, o.by)
  IN Step(managed /\ ~IsManager(c, o.identity, o.key), FALSE,
          managed /\ ~IsManager(c, o.identity, o.key),
          [c EXCEPT !.identity[o.identity].keys = @ \cup {o.key}],
          IsManager(c, o.identity, o.key))
RemoveKey(c, o) ==
  LET managed == IsManager(c, o.identity, o.by)
      held == IsManager(c, o.identity, o.key)
  IN Step(managed, ~held, managed /\ held,
          [c EXCEPT !.identity[o.identity].keys = @ \ {o.key}], ~held)

-----------------------------------------------------------------------------
(***************************************************************************)
(* Compliance modules.                                                     *)
(***************************************************************************)
onModule(step, token, module, by) == [do |-> step, token |-> token, module |-> module, by |-> by]

DeployModule(c, o) ==
  Step(TRUE, FALSE, TRUE, [c EXCEPT !.module[o.module].owner = o.by], TRUE)

\* isModuleBound, then addModule; the modules set up here are plug and play.
AddModule(c, o) ==
  LET bound == \E k \in DOMAIN c.suite[o.token].modules : c.suite[o.token].modules[k] = o.module
      owned == Owner(c, o.token, "mc") = o.by
  IN Step(TRUE, bound, owned /\ ~bound,
          [c EXCEPT !.suite[o.token].modules = Append(@, o.module)], TRUE)

\* Settings go through the compliance, whose owner alone may call a module.
SetLimit(c, o) ==
  Step(TRUE, FALSE, Owner(c, o.token, "mc") = o.by, [c EXCEPT !.module[o.module].limit = o.limit],
       TRUE)
BatchAllow(c, o) ==
  Step(TRUE, FALSE, Owner(c, o.token, "mc") = o.by, [c EXCEPT !.module[o.module].allowed = Wallets],
       TRUE)

\* complianceWithOwner, before the first module.
CheckCompliance(c, o) == Check(c, Owner(c, o.token, "mc") = o.by)

\* As DeployModules, but no limit is set.
ModulesWithoutLimit(session, token, by) ==
  LET step(name, s) == onModule(s, token, <<name, session>>, by)
  IN <<step("SupplyLimit", "checkCompliance"),
       step("SupplyLimit", "deployModule"), step("SupplyLimit", "addModule"),
       step("TransferRestrict", "deployModule"), step("TransferRestrict", "addModule"),
       step("TransferRestrict", "batchAllow"),
       step("TimeExchange", "deployModule"), step("TimeExchange", "addModule"),
       step("ExchangeMonthly", "deployModule"), step("ExchangeMonthly", "addModule")>>

\* Each deployNew deploys a module, binds it, and gives it its first setting.
DeployModules(session, token, by) ==
  LET step(name, s) == onModule(s, token, <<name, session>>, by)
  IN <<step("SupplyLimit", "checkCompliance"),
       step("SupplyLimit", "deployModule"), step("SupplyLimit", "addModule"),
       [do |-> "setLimit", token |-> token, module |-> <<"SupplyLimit", session>>,
        limit |-> Limit, by |-> by],
       step("TransferRestrict", "deployModule"), step("TransferRestrict", "addModule"),
       step("TransferRestrict", "batchAllow"),
       step("TimeExchange", "deployModule"), step("TimeExchange", "addModule"),
       step("ExchangeMonthly", "deployModule"), step("ExchangeMonthly", "addModule")>>
=============================================================================
