------------------------- MODULE CommandLineProofs -------------------------
(***************************************************************************)
(* Theorems about runs of the command line.  The invariant has three       *)
(* parts.  ChainInv: the contracts are in order, the salt is used once and *)
(* the manager holds what waits; every transaction a script may send keeps *)
(* it, whatever was mined since the script was written, and takes nothing  *)
(* away that an entry of the history may rest on (Sound).  SessionInv: the *)
(* rest of a session's script saves an entry only after the steps that     *)
(* leave what it rests on, or when that is already there (Backed); a       *)
(* script is written that way (ScriptsGood), and a step that is passed     *)
(* leaves what it is there for.  HistoryInv: so what the history lists     *)
(* rests on what is there.  AchieveInv adds what a session that nobody     *)
(* came between knows of the node.                                         *)
(***************************************************************************)
EXTENDS CommandLine, CommonProofs



-----------------------------------------------------------------------------
(***************************************************************************)
(* The invariant of the chain.                                             *)
(***************************************************************************)
\* The fields of a suite and of the chain.
SuiteFields ==
  {"owner", "bound", "onchainID", "topics", "trusted", "agents", "irAgents", "entry",
   "modules", "paused", "balance", "frozen", "allowance"}
ChainFields ==
  {"infra", "version", "linked", "idSalts", "factoryToken", "issuers", "identity", "suite",
   "module", "dva", "history"}

\* The modules of a token are its own: none other is ever added to its compliance.
OwnModules(t) == ModuleNames \X {t}

\* The contracts of token t.
SuiteOK(t, s) ==
  /\ DOMAIN s = SuiteFields
  /\ DOMAIN s.owner = Parts /\ DOMAIN s.entry = Holders
  /\ s.balance \in [Holders -> Nat] /\ s.frozen \in [Holders -> Nat]
  /\ \A h \in Holders : s.frozen[h] <= s.balance[h]
  /\ s.modules \in Seq(OwnModules(t))
  /\ \A i, j \in DOMAIN s.modules : s.modules[i] = s.modules[j] => i = j

\* Who approves, and the transfers of the manager.
Roles == {"recipient", "agent"}
Transfers ==
  [token: Tokens, from: Users, to: Holders, amount: Nat, criteria: SUBSET Roles,
   approved: SUBSET Roles, status: {"PENDING", "COMPLETED", "CANCELLED", "REJECTED"}]

\* The transfer manager.
DvaFields == {"deployed", "criteria", "transfers", "surplus", "burned"}
DvaOK(d) ==
  /\ DOMAIN d = DvaFields
  /\ d.criteria \in SUBSET Roles
  /\ d.transfers \in Seq(Transfers)
  /\ d.surplus \in [Tokens -> Nat] /\ d.burned \in [Tokens -> Nat]

\* Where the commands leave the chain.
ChainOK(c) ==
  /\ DOMAIN c = ChainFields
  /\ DOMAIN c.infra = Infra /\ c.issuers \subseteq Issuers
  /\ DOMAIN c.identity = Identities
  /\ \A i \in Identities : DOMAIN c.identity[i] = {"deployed", "keys", "claims"}
  /\ DOMAIN c.module = Modules
  /\ \A m \in Modules : DOMAIN c.module[m] = {"owner", "limit", "allowed", "exchanges", "limits"}
  /\ DOMAIN c.suite = Tokens
  /\ \A t \in Tokens : SuiteOK(t, c.suite[t])
  /\ DvaOK(c.dva)

\* A token of the factory has its contracts bound, and one owner.
Usable(t, s) ==
  /\ s.bound /\ t \in s.irAgents
  /\ \E owner \in Wallets : \A x \in HandedOver : s.owner[x] = owner

\* A token that is not deployed has no owner, no agent and no holder.
Untold(s) ==
  /\ \A x \in Parts : s.owner[x] = Nobody
  /\ s.irAgents = {}
  /\ \A h \in Holders : s.entry[h] = NoEntry
  /\ s.balance[Manager] = 0

\* The factory deploys at once, and never a second token of the salt; a token that is
\* not deployed has no transfers.
DeployedOnce(c, t) ==
  /\ c.suite[t].onchainID =>
       Usable(t, c.suite[t]) /\ c.factoryToken = t /\ Salt \in c.idSalts
  /\ ~c.suite[t].onchainID =>
       /\ Untold(c.suite[t])
       /\ \A id \in DOMAIN c.dva.transfers : c.dva.transfers[id].token # t

\* On the in-process network tokens are deployed by hand, without the factory.
SaltInv(net, c) == net = "fhevm" => \A t \in Tokens : DeployedOnce(c, t)

\* The manager holds what waits for approvals.
EscrowInv(c) ==
  \A t \in Tokens :
    c.suite[t].balance[Manager] + c.dva.burned[t] = Owed(c, t) + c.dva.surplus[t]

\* What every step keeps of the chain.
ChainInv(net, c) == ChainOK(c) /\ SaltInv(net, c) /\ EscrowInv(c)

-----------------------------------------------------------------------------
(***************************************************************************)
(* What never goes away once it is there.                                  *)
(***************************************************************************)
\* A token that is deployed stays, and so does an entry of its registry.
KeepsSuite(s, r) ==
  /\ s.onchainID => r.onchainID
  /\ \A h \in Holders : s.entry[h] # NoEntry => r.entry[h] = s.entry[h]

\* So does what is deployed and linked.
KeepsRest(c, d) ==
  /\ \A x \in Infra : c.infra[x] # Nobody => d.infra[x] = c.infra[x]
  /\ c.version => d.version
  /\ c.linked => d.linked
  /\ c.issuers \subseteq d.issuers
  /\ c.idSalts \subseteq d.idSalts
  /\ \A i \in Identities : c.identity[i].deployed => d.identity[i].deployed
  /\ c.dva.deployed => d.dva.deployed

\* What later entries may rest on stays.
Keeps(c, d) == KeepsRest(c, d) /\ \A t \in Tokens : KeepsSuite(c.suite[t], d.suite[t])

\* A step of session p: at most its own token appears.
Sound(net, p, c, d) ==
  /\ ChainInv(net, d)
  /\ Keeps(c, d)
  /\ d.history = c.history
  /\ \A t \in Tokens : d.suite[t].onchainID => c.suite[t].onchainID \/ t = p

-----------------------------------------------------------------------------
(***************************************************************************)
(* What the pending transfers add up to.                                   *)
(***************************************************************************)
\* What a transfer, and what all of them, still owe of token t.
Part(x, t) == IF x.status = "PENDING" /\ x.token = t THEN x.amount ELSE 0
Due(transfers, t) == SumOf([id \in DOMAIN transfers |-> Part(transfers[id], t)])

\* What the manager owes depends on its list of transfers alone.
LEMMA OwedIsDue ==
  ASSUME NEW c, NEW t
  PROVE  Owed(c, t) = Due(c.dva.transfers, t)
BY DEF Owed, Due, Part

\* A transfer is due a number of units.
LEMMA PartType ==
  ASSUME NEW x \in Transfers, NEW t
  PROVE  Part(x, t) \in Nat
BY DEF Part, Transfers

\* All transfers together are due a number of units.
LEMMA DueType ==
  ASSUME NEW xs \in Seq(Transfers), NEW t
  PROVE  Due(xs, t) \in Nat
<1> DEFINE f == [id \in DOMAIN xs |-> Part(xs[id], t)]
<1>1. f \in [DOMAIN xs -> Nat]
  BY PartType
<1>2. IsFiniteSet(DOMAIN xs)
  BY FS_Interval
<1> HIDE DEF f
<1>3. SumOf(f) \in Nat
  BY <1>1, <1>2, UnitsFinite
<1> QED BY <1>3 DEF Due, f

\* A transfer that is initiated adds its amount to what is due for its token.
LEMMA DueAppend ==
  ASSUME NEW xs \in Seq(Transfers), NEW x \in Transfers, NEW t
  PROVE  Due(Append(xs, x), t) = Due(xs, t) + Part(x, t)
<1> DEFINE n == Len(xs)
           ys == Append(xs, x)
           f == [i \in DOMAIN xs |-> Part(xs[i], t)]
           g == [i \in DOMAIN ys |-> Part(ys[i], t)]
<1>1. /\ ys \in Seq(Transfers) /\ DOMAIN xs = 1 .. n /\ DOMAIN ys = 1 .. n + 1 /\ n \in Nat
      /\ ys[n + 1] = x /\ \A i \in 1 .. n : ys[i] = xs[i]
  OBVIOUS
<1> HIDE DEF n, ys
<1>2. f \in [1 .. n -> Nat] /\ g \in [1 .. n + 1 -> Nat]
  BY <1>1, PartType
<1>3. (\A i \in 1 .. n : g[i] = f[i]) /\ g[n + 1] = Part(x, t)
  BY <1>1
<1> HIDE DEF f, g
<1>4. SumOf(g) = SumOf(f) + g[n + 1]
  BY <1>1, <1>2, <1>3, SumAppend
<1>5. Due(xs, t) = SumOf(f) /\ Due(ys, t) = SumOf(g)
  BY DEF Due, f, g
<1> QED BY <1>3, <1>4, <1>5 DEF ys

\* A transfer that changes changes what is due by the difference.
LEMMA DueChange ==
  ASSUME NEW xs \in Seq(Transfers), NEW id \in DOMAIN xs, NEW x \in Transfers, NEW t,
         NEW ys, ys = [xs EXCEPT ![id] = x]
  PROVE  /\ ys \in Seq(Transfers)
         /\ Due(ys, t) + Part(xs[id], t) = Due(xs, t) + Part(x, t)
<1> DEFINE S == DOMAIN xs
           f == [i \in DOMAIN xs |-> Part(xs[i], t)]
           g == [i \in DOMAIN ys |-> Part(ys[i], t)]
<1>1. /\ ys \in Seq(Transfers) /\ DOMAIN ys = S
      /\ ys[id] = x /\ \A i \in S \ {id} : ys[i] = xs[i]
  OBVIOUS
<1>2. IsFiniteSet(S)
  BY FS_Interval
<1>3. f \in [S -> Nat] /\ g \in [S -> Nat]
  BY <1>1, PartType
<1>4. (\A i \in S \ {id} : g[i] = f[i]) /\ g[id] = Part(x, t) /\ f[id] = Part(xs[id], t)
  BY <1>1
<1>5. id \in S
  OBVIOUS
<1> HIDE DEF f, g, S
<1>6. SumOf(g) + f[id] = SumOf(f) + g[id]
  BY <1>2, <1>3, <1>4, <1>5, SumUpdate
<1>7. Due(xs, t) = SumOf(f) /\ Due(ys, t) = SumOf(g)
  BY DEF Due, f, g
<1> QED BY <1>1, <1>4, <1>6, <1>7

-----------------------------------------------------------------------------
(***************************************************************************)
(* Steps that touch one suite, and steps that touch none.                  *)
(***************************************************************************)
\* The chain with other contracts for token t.
SetSuite(c, t, r) == [c EXCEPT !.suite = [c.suite EXCEPT ![t] = r]]

\* What a step may do to the contracts of token t, but for its supply.
SuiteMove(net, p, t, s, r) ==
  /\ SuiteOK(t, r)
  /\ r.balance[Manager] = s.balance[Manager]
  /\ KeepsSuite(s, r)
  /\ r.onchainID => s.onchainID \/ t = p
  /\ net = "fhevm" =>
       /\ r.onchainID => s.onchainID
       /\ s.onchainID /\ Usable(t, s) => Usable(t, r)
       /\ ~s.onchainID /\ Untold(s) => Untold(r)

\* A step on the contracts of one token that keeps them in order keeps the chain in order.
LEMMA OnSuite ==
  ASSUME NEW net, NEW p, NEW c, ChainInv(net, c), NEW t \in Tokens, NEW r,
         SuiteMove(net, p, t, c.suite[t], r)
  PROVE  Sound(net, p, c, SetSuite(c, t, r))
<1> DEFINE d == SetSuite(c, t, r)
<1>1. /\ DOMAIN d = ChainFields /\ DOMAIN d.suite = Tokens
      /\ d.suite[t] = r /\ \A u \in Tokens \ {t} : d.suite[u] = c.suite[u]
      /\ d.infra = c.infra /\ d.version = c.version /\ d.linked = c.linked
      /\ d.idSalts = c.idSalts /\ d.factoryToken = c.factoryToken /\ d.issuers = c.issuers
      /\ d.identity = c.identity /\ d.module = c.module /\ d.dva = c.dva
      /\ d.history = c.history
  BY DEF ChainInv, ChainOK, ChainFields, SetSuite
<1> HIDE DEF d
<1>2. ChainOK(d)
  BY <1>1 DEF ChainInv, ChainOK, SuiteMove
<1>3. SaltInv(net, d)
  <2> SUFFICES ASSUME net = "fhevm", NEW u \in Tokens PROVE DeployedOnce(d, u)
    BY DEF SaltInv
  <2>1. DeployedOnce(c, u)
    BY DEF ChainInv, SaltInv
  <2>2. CASE u = t
    BY <1>1, <2>1, <2>2 DEF DeployedOnce, SuiteMove, KeepsSuite
  <2>3. CASE u # t
    BY <1>1, <2>1, <2>3 DEF DeployedOnce
  <2> QED BY <2>2, <2>3
<1>4. EscrowInv(d)
  <2>1. \A u \in Tokens : Owed(d, u) = Owed(c, u)
    BY <1>1 DEF Owed
  <2> QED BY <1>1, <2>1 DEF ChainInv, EscrowInv, SuiteMove
<1>5. Keeps(c, d)
  BY <1>1 DEF Keeps, KeepsRest, KeepsSuite, SuiteMove
<1>6. \A u \in Tokens : d.suite[u].onchainID => c.suite[u].onchainID \/ u = p
  BY <1>1 DEF SuiteMove
<1> QED BY <1>1, <1>2, <1>3, <1>4, <1>5, <1>6 DEF Sound, ChainInv, d

\* What a step may do to everything else.
RestMove(c, d) ==
  /\ d.suite = c.suite /\ d.history = c.history /\ d.factoryToken = c.factoryToken
  /\ d.dva.transfers = c.dva.transfers
  /\ d.dva.surplus = c.dva.surplus /\ d.dva.burned = c.dva.burned
  /\ KeepsRest(c, d)

\* A step that leaves the tokens and the transfers alone keeps the chain in order.
LEMMA OffSuites ==
  ASSUME NEW net, NEW p, NEW c, ChainInv(net, c), NEW d, ChainOK(d), RestMove(c, d)
  PROVE  Sound(net, p, c, d)
<1>1. SaltInv(net, d)
  BY DEF ChainInv, SaltInv, DeployedOnce, RestMove, KeepsRest
<1>2. EscrowInv(d)
  <2>1. \A u \in Tokens : Owed(d, u) = Owed(c, u)
    BY DEF Owed, RestMove
  <2> QED BY <2>1 DEF ChainInv, EscrowInv, RestMove
<1>3. Keeps(c, d)
  BY DEF Keeps, KeepsSuite, RestMove
<1> QED BY <1>1, <1>2, <1>3 DEF Sound, ChainInv, RestMove

-----------------------------------------------------------------------------
(***************************************************************************)
(* The steps of a session, and what each may do to the chain.              *)
(***************************************************************************)
\* Which steps name a token, an identity, a user; which are of a deployment by hand.
OnToken ==
  {"deployTREXSuite", "deployPart", "bindRegistry", "setOnchainID", "addClaimTopic",
   "addTrustedIssuer", "transferOwnership", "addAgent", "removeAgent", "registerIdentity",
   "addModule", "registerManager"} \cup (TokenSteps \ {"cancelTransfer", "rejectTransfer"})
OnIdentity == {"deployIdentity", "addClaim", "removeClaim", "addKey", "removeKey"}
OnUser ==
  {"registerIdentity", "registerManager", "mintUnchecked", "mint", "burn", "freeze", "unfreeze",
   "addExchangeID", "removeExchangeID", "setExchangeLimit"}
ByHand == {"deployPart", "bindRegistry", "setOnchainID", "transferOwnership"}
Others ==
  {"deploy", "useVersion", "addTokenFactory", "deployIssuer", "startSuite", "checkIdFactory",
   "createTokenIdentity", "checkIdentity", "checkCompliance", "deployModule", "setLimit",
   "batchAllow"}

\* What the history may list.
Savable(net, kind, at) ==
  \/ kind \in {"IdFactory", "TREXFactory", "ClaimIssuer", Manager}
  \/ kind = "Token" /\ net = "fhevm" /\ at \in Tokens
  \/ kind = "Identity" /\ at \in Identities

\* The steps of the scripts of session p.
OpOK(net, p, o) ==
  /\ "do" \in DOMAIN o
  /\ o.do \in OnToken \cup OnIdentity \cup TokenSteps \cup Others \cup {"save"}
  /\ o.do \in OnToken => o.token \in Tokens
  /\ o.do \in OnIdentity => o.identity \in Identities
  /\ o.do \in OnUser => o.user \in Holders
  /\ o.do \in ByHand => net = "hardhat" /\ o.token = p
  /\ o.do = "deploy" => o.what \in Infra /\ o.by \in Wallets
  /\ o.do = "deployTREXSuite" => net = "fhevm" /\ o.token = p /\ o.owner \in Wallets
  /\ o.do = "deployIssuer" => o.issuer \in Issuers
  /\ o.do = "addAgent" => o.by \in Wallets
  /\ o.do = "removeAgent" => o.agent \in Wallets
  /\ o.do \in {"addAgent", "removeAgent"} => o.to \in {"ir", "token"}
  /\ o.do = "transferOwnership" => o.part \in Parts
  /\ o.do = "addModule" => o.module \in OwnModules(o.token)
  /\ o.do \in {"transfer", "initiate"} => o.by \in Users /\ o.to \in Holders
  /\ o.do = "setApprovalCriteria" => o.criteria \in SUBSET Roles
  /\ o.do = "save" => Savable(net, o.kind, o.at)

\* Topics, agents of the token, the pause and allowances are no part of the invariant.
LEMMA Harmless ==
  ASSUME NEW net, NEW p, NEW t, NEW s, SuiteOK(t, s), NEW r, DOMAIN r = SuiteFields,
         r.owner = s.owner, r.bound = s.bound, r.onchainID = s.onchainID,
         r.irAgents = s.irAgents, r.entry = s.entry, r.modules = s.modules,
         r.balance = s.balance, r.frozen = s.frozen
  PROVE  SuiteMove(net, p, t, s, r)
BY DEF SuiteMove, SuiteOK, KeepsSuite, Usable, Untold

\* Steps that set what is no part of the invariant.
LEMMA SettingsSound ==
  ASSUME NEW net, NEW p, NEW c, ChainInv(net, c), NEW o, OpOK(net, p, o),
         NEW d, d = StepOf(c, o).after, StepOf(c, o).accepts,
         o.do \in {"addClaimTopic", "addTrustedIssuer", "pause", "unpause", "unpauseUnchecked",
                   "approve", "increaseAllowance", "decreaseAllowance"}
  PROVE  Sound(net, p, c, d)
<1> DEFINE t == o.token
           s == c.suite[t]
<1>1. t \in Tokens /\ SuiteOK(t, s)
  BY DEF OpOK, OnToken, TokenSteps, ByHand, ChainInv, ChainOK
<1>2. CASE o.do = "addClaimTopic"
  <2> DEFINE r == [s EXCEPT !.topics = @ \cup {o.issuer}]
  <2>1. d = SetSuite(c, t, r)
    BY <1>2 DEF StepOf, SuiteStep, TokenSteps, AddClaimTopic, Step, SetSuite
  <2>2. SuiteMove(net, p, t, s, r)
    BY <1>1, Harmless DEF SuiteOK, SuiteFields
  <2> HIDE DEF r
  <2> QED BY <1>1, <2>1, <2>2, OnSuite
<1>3. CASE o.do = "addTrustedIssuer"
  <2> DEFINE r == [s EXCEPT !.trusted = @ \cup {o.issuer}]
  <2>1. d = SetSuite(c, t, r)
    BY <1>3 DEF StepOf, SuiteStep, TokenSteps, AddTrustedIssuer, Step, SetSuite
  <2>2. SuiteMove(net, p, t, s, r)
    BY <1>1, Harmless DEF SuiteOK, SuiteFields
  <2> HIDE DEF r
  <2> QED BY <1>1, <2>1, <2>2, OnSuite
<1>4. CASE o.do = "pause"
  <2> DEFINE r == [s EXCEPT !.paused = TRUE]
  <2>1. d = SetSuite(c, t, r)
    BY <1>4 DEF StepOf, TokenStep, TokenSteps, CmdPause, Pause, Step, SetSuite
  <2>2. SuiteMove(net, p, t, s, r)
    BY <1>1, Harmless DEF SuiteOK, SuiteFields
  <2> HIDE DEF r
  <2> QED BY <1>1, <2>1, <2>2, OnSuite
<1>5. CASE o.do = "unpause"
  <2> DEFINE r == [s EXCEPT !.paused = FALSE]
  <2>1. d = SetSuite(c, t, r)
    BY <1>5 DEF StepOf, TokenStep, TokenSteps, CmdUnpause, Unpause, Step, SetSuite
  <2>2. SuiteMove(net, p, t, s, r)
    BY <1>1, Harmless DEF SuiteOK, SuiteFields
  <2> HIDE DEF r
  <2> QED BY <1>1, <2>1, <2>2, OnSuite
<1>6. CASE o.do = "unpauseUnchecked"
  <2> DEFINE r == [s EXCEPT !.paused = FALSE]
  <2>1. d = SetSuite(c, t, r)
    BY <1>6 DEF StepOf, TokenStep, TokenSteps, Unpause, Step, SetSuite
  <2>2. SuiteMove(net, p, t, s, r)
    BY <1>1, Harmless DEF SuiteOK, SuiteFields
  <2> HIDE DEF r
  <2> QED BY <1>1, <2>1, <2>2, OnSuite
<1>7. CASE o.do = "approve"
  <2> DEFINE r == [s EXCEPT !.allowance = [@ EXCEPT ![o.by] = 1]]
  <2>1. d = SetSuite(c, t, r)
    BY <1>7 DEF StepOf, TokenStep, TokenSteps, CmdApprove, WithAllowance, Step, SetSuite
  <2>2. SuiteMove(net, p, t, s, r)
    BY <1>1, Harmless DEF SuiteOK, SuiteFields
  <2> HIDE DEF r
  <2> QED BY <1>1, <2>1, <2>2, OnSuite
<1>8. CASE o.do = "increaseAllowance"
  <2> DEFINE r == [s EXCEPT !.allowance = [@ EXCEPT ![o.by] = s.allowance[o.by] + 1]]
  <2>1. d = SetSuite(c, t, r)
    BY <1>8 DEF StepOf, TokenStep, TokenSteps, CmdIncreaseAllowance, WithAllowance, Step, SetSuite
  <2>2. SuiteMove(net, p, t, s, r)
    BY <1>1, Harmless DEF SuiteOK, SuiteFields
  <2> HIDE DEF r
  <2> QED BY <1>1, <2>1, <2>2, OnSuite
<1>9. CASE o.do = "decreaseAllowance"
  <2> DEFINE r == [s EXCEPT !.allowance =
                 [@ EXCEPT ![o.by] = IF s.allowance[o.by] > 0 THEN s.allowance[o.by] - 1 ELSE 0]]
  <2>1. d = SetSuite(c, t, r)
    BY <1>9 DEF StepOf, TokenStep, TokenSteps, CmdDecreaseAllowance, WithAllowance, Step, SetSuite
  <2>2. SuiteMove(net, p, t, s, r)
    BY <1>1, Harmless DEF SuiteOK, SuiteFields
  <2> HIDE DEF r
  <2> QED BY <1>1, <2>1, <2>2, OnSuite
<1> QED BY <1>2, <1>3, <1>4, <1>5, <1>6, <1>7, <1>8, <1>9

\* The in-process network deploys a token part by part; no other network does.
LEMMA ByHandSound ==
  ASSUME NEW net, NEW p, NEW c, ChainInv(net, c), NEW o, OpOK(net, p, o),
         NEW d, d = StepOf(c, o).after, StepOf(c, o).accepts,
         o.do \in ByHand
  PROVE  Sound(net, p, c, d)
<1> DEFINE t == o.token
           s == c.suite[t]
<1>1. t \in Tokens /\ SuiteOK(t, s)
  BY DEF OpOK, OnToken, TokenSteps, ByHand, ChainInv, ChainOK
<1>2. net = "hardhat" /\ t = p
  BY DEF OpOK, ByHand
<1>3. CASE o.do = "deployPart"
  <2> DEFINE r == [s EXCEPT !.owner = [@ EXCEPT ![o.part] = o.by]]
  <2>1. d = SetSuite(c, t, r)
    BY <1>3 DEF StepOf, SuiteStep, TokenSteps, DeployPart, Step, SetSuite
  <2>2. SuiteMove(net, p, t, s, r)
    BY <1>1, <1>2 DEF SuiteMove, SuiteOK, SuiteFields, KeepsSuite
  <2> HIDE DEF r
  <2> QED BY <1>1, <2>1, <2>2, OnSuite
<1>4. CASE o.do = "bindRegistry"
  <2> DEFINE r == [s EXCEPT !.bound = TRUE]
  <2>1. d = SetSuite(c, t, r)
    BY <1>4 DEF StepOf, SuiteStep, TokenSteps, BindRegistry, Step, SetSuite
  <2>2. SuiteMove(net, p, t, s, r)
    BY <1>1, <1>2 DEF SuiteMove, SuiteOK, SuiteFields, KeepsSuite
  <2> HIDE DEF r
  <2> QED BY <1>1, <2>1, <2>2, OnSuite
<1>5. CASE o.do = "setOnchainID"
  <2> DEFINE r == [s EXCEPT !.onchainID = TRUE]
  <2>1. d = SetSuite(c, t, r)
    BY <1>5 DEF StepOf, SuiteStep, TokenSteps, SetOnchainID, Step, SetSuite
  <2>2. SuiteMove(net, p, t, s, r)
    BY <1>1, <1>2 DEF SuiteMove, SuiteOK, SuiteFields, KeepsSuite
  <2> HIDE DEF r
  <2> QED BY <1>1, <2>1, <2>2, OnSuite
<1>6. CASE o.do = "transferOwnership"
  <2> DEFINE r == [s EXCEPT !.owner = [@ EXCEPT ![o.part] = o.owner]]
  <2>1. d = SetSuite(c, t, r)
    BY <1>6 DEF StepOf, SuiteStep, TokenSteps, TransferOwnership, Step, SetSuite
  <2>2. SuiteMove(net, p, t, s, r)
    BY <1>1, <1>2 DEF SuiteMove, SuiteOK, SuiteFields, KeepsSuite
  <2> HIDE DEF r
  <2> QED BY <1>1, <2>1, <2>2, OnSuite
<1> QED BY <1>3, <1>4, <1>5, <1>6 DEF ByHand

\* Agents are added and removed; the token itself never stops being an agent of its registry.
LEMMA RolesSound ==
  ASSUME NEW net, NEW p, NEW c, ChainInv(net, c), NEW o, OpOK(net, p, o),
         NEW d, d = StepOf(c, o).after, StepOf(c, o).accepts,
         o.do \in {"addAgent", "removeAgent"}
  PROVE  Sound(net, p, c, d)
<1> DEFINE t == o.token
           s == c.suite[t]
<1>1. t \in Tokens /\ SuiteOK(t, s)
  BY DEF OpOK, OnToken, TokenSteps, ByHand, ChainInv, ChainOK
<1>2. /\ o.to \in {"ir", "token"} /\ t \notin Wallets /\ Nobody \notin Wallets
      /\ o.do = "addAgent" => o.by \in Wallets
      /\ o.do = "removeAgent" => o.agent \in Wallets
  BY <1>1, WalletsAssumption DEF OpOK, Tokens
<1>3. CASE o.do = "addAgent" /\ o.to = "token"
  <2> DEFINE r == [s EXCEPT !.agents = @ \cup {o.agent}]
  <2>1. d = SetSuite(c, t, r)
    BY <1>3 DEF StepOf, SuiteStep, TokenSteps, AddAgent, AgentsOf, WithAgents, Step, SetSuite
  <2>2. SuiteMove(net, p, t, s, r)
    BY <1>1, Harmless DEF SuiteOK, SuiteFields
  <2> HIDE DEF r
  <2> QED BY <1>1, <2>1, <2>2, OnSuite
<1>4. CASE o.do = "removeAgent" /\ o.to = "token"
  <2> DEFINE r == [s EXCEPT !.agents = @ \ {o.agent}]
  <2>1. d = SetSuite(c, t, r)
    BY <1>4 DEF StepOf, SuiteStep, TokenSteps, RemoveAgent, AgentsOf, WithAgents, Step, SetSuite
  <2>2. SuiteMove(net, p, t, s, r)
    BY <1>1, Harmless DEF SuiteOK, SuiteFields
  <2> HIDE DEF r
  <2> QED BY <1>1, <2>1, <2>2, OnSuite
<1>5. CASE o.do = "addAgent" /\ o.to = "ir"
  <2> DEFINE r == [s EXCEPT !.irAgents = @ \cup {o.agent}]
  <2>1. d = SetSuite(c, t, r)
    BY <1>5 DEF StepOf, SuiteStep, TokenSteps, AddAgent, AgentsOf, WithAgents, Step, SetSuite
  <2>2. s.owner["ir"] = o.by
    BY <1>5 DEF StepOf, SuiteStep, TokenSteps, AddAgent, Step, Owner
  <2>3. SuiteMove(net, p, t, s, r)
    BY <1>1, <1>2, <1>5, <2>2
    DEF SuiteMove, SuiteOK, SuiteFields, KeepsSuite, Usable, Untold, Parts
  <2> HIDE DEF r
  <2> QED BY <1>1, <2>1, <2>3, OnSuite
<1>6. CASE o.do = "removeAgent" /\ o.to = "ir"
  <2> DEFINE r == [s EXCEPT !.irAgents = @ \ {o.agent}]
  <2>1. d = SetSuite(c, t, r)
    BY <1>6 DEF StepOf, SuiteStep, TokenSteps, RemoveAgent, AgentsOf, WithAgents, Step, SetSuite
  <2>2. SuiteMove(net, p, t, s, r)
    BY <1>1, <1>2, <1>6 DEF SuiteMove, SuiteOK, SuiteFields, KeepsSuite, Usable, Untold
  <2> HIDE DEF r
  <2> QED BY <1>1, <2>1, <2>2, OnSuite
<1> QED BY <1>2, <1>3, <1>4, <1>5, <1>6

\* A user that is registered was not, so no entry is replaced.
LEMMA RegistrationSound ==
  ASSUME NEW net, NEW p, NEW c, ChainInv(net, c), NEW o, OpOK(net, p, o),
         NEW d, d = StepOf(c, o).after, StepOf(c, o).accepts,
         o.do \in {"registerIdentity", "registerManager"}
  PROVE  Sound(net, p, c, d)
<1> DEFINE t == o.token
           s == c.suite[t]
<1>1. t \in Tokens /\ SuiteOK(t, s)
  BY DEF OpOK, OnToken, TokenSteps, ByHand, ChainInv, ChainOK
<1>2. CASE o.do = "registerIdentity"
  <2> DEFINE r == [s EXCEPT !.entry = [@ EXCEPT ![o.user] = o.entry]]
  <2>1. d = SetSuite(c, t, r)
    BY <1>2 DEF StepOf, SuiteStep, TokenSteps, RegisterIdentity, Step, SetSuite
  <2>2. s.entry[o.user] = NoEntry /\ o.by \in s.irAgents
    BY <1>2 DEF StepOf, SuiteStep, TokenSteps, RegisterIdentity, Step, NotRegistered
  <2>3. SuiteMove(net, p, t, s, r)
    BY <1>1, <2>2 DEF SuiteMove, SuiteOK, SuiteFields, KeepsSuite, Usable, Untold
  <2> HIDE DEF r
  <2> QED BY <1>1, <2>1, <2>3, OnSuite
<1>3. CASE o.do = "registerManager"
  <2> DEFINE e == [identity |-> s.entry[o.user].identity, country |-> o.country]
             r == [s EXCEPT !.entry = [@ EXCEPT ![Manager] = e]]
  <2>1. d = SetSuite(c, t, r)
    BY <1>3 DEF StepOf, TokenStep, TokenSteps, RegisterManager, Step, SetSuite
  <2>2. s.entry[Manager] = NoEntry /\ o.by \in s.irAgents
    BY <1>3 DEF StepOf, TokenStep, TokenSteps, RegisterManager, Step
  <2> HIDE DEF e
  <2>3. SuiteMove(net, p, t, s, r)
    BY <1>1, <2>2 DEF SuiteMove, SuiteOK, SuiteFields, KeepsSuite, Usable, Untold
  <2> HIDE DEF r
  <2> QED BY <1>1, <2>1, <2>3, OnSuite
<1> QED BY <1>2, <1>3

\* A compliance refuses a module it has.
LEMMA AddModuleSound ==
  ASSUME NEW net, NEW p, NEW c, ChainInv(net, c), NEW o, OpOK(net, p, o),
         NEW d, d = StepOf(c, o).after, StepOf(c, o).accepts,
         o.do = "addModule"
  PROVE  Sound(net, p, c, d)
<1> DEFINE t == o.token
           s == c.suite[t]
<1>1. t \in Tokens /\ SuiteOK(t, s)
  BY DEF OpOK, OnToken, TokenSteps, ByHand, ChainInv, ChainOK
<1> DEFINE r == [s EXCEPT !.modules = Append(@, o.module)]
<1>2. d = SetSuite(c, t, r)
  BY DEF StepOf, SuiteStep, TokenSteps, AddModule, Step, SetSuite
<1>3. o.module \in OwnModules(t) /\ \A k \in DOMAIN s.modules : s.modules[k] # o.module
  BY DEF OpOK, StepOf, SuiteStep, TokenSteps, AddModule, Step
<1>4. SuiteOK(t, r)
  <2> DEFINE ms == s.modules
             n == Append(ms, o.module)
  <2>1. /\ ms \in Seq(OwnModules(t)) /\ n \in Seq(OwnModules(t))
        /\ \A i, j \in DOMAIN ms : ms[i] = ms[j] => i = j
        /\ \A k \in DOMAIN ms : ms[k] # o.module
    BY <1>1, <1>3 DEF SuiteOK
  <2>2. \A i, j \in DOMAIN n : n[i] = n[j] => i = j
    <3> HIDE DEF ms
    <3> QED BY <2>1
  <2>3. r = [s EXCEPT !.modules = n]
    OBVIOUS
  <2> HIDE DEF n, ms, r
  <2> QED BY <1>1, <2>1, <2>2, <2>3 DEF SuiteOK, SuiteFields
<1>5. SuiteMove(net, p, t, s, r)
  BY <1>1, <1>4 DEF SuiteMove, SuiteOK, SuiteFields, KeepsSuite, Usable, Untold
<1> HIDE DEF r
<1> QED BY <1>1, <1>2, <1>5, OnSuite

\* A step that changes nothing.
LEMMA NothingSound ==
  ASSUME NEW net, NEW p, NEW c, ChainInv(net, c)
  PROVE  Sound(net, p, c, c)
BY DEF Sound, Keeps, KeepsRest, KeepsSuite

\* The manager is no user, and a holder of its own.
LEMMA ManagerApart ==
  /\ Users \subseteq Wallets /\ Manager \notin Users /\ Nobody \notin Users \cup {Manager}
  /\ Manager \in Holders /\ Users \subseteq Holders
BY WalletsAssumption DEF Holders

\* The factory's transaction: nothing was known of the token before.
LEMMA DeployTREXSuiteSound ==
  ASSUME NEW net, NEW p, NEW c, ChainInv(net, c), NEW o, OpOK(net, p, o),
         NEW d, d = StepOf(c, o).after, StepOf(c, o).accepts,
         o.do = "deployTREXSuite"
  PROVE  Sound(net, p, c, d)
<1> DEFINE t == o.token
           r == Complete(o)
<1>1. net = "fhevm" /\ t \in Tokens /\ t = p /\ o.owner \in Wallets
  BY DEF OpOK, OnToken
<1>2. /\ d = [c EXCEPT !.suite[t] = r, !.factoryToken = t, !.idSalts = @ \cup {Salt}]
      /\ Salt \notin c.idSalts
  BY DEF StepOf, SuiteStep, TokenSteps, DeployTREXSuite, Step
<1>3. \A u \in Tokens : DeployedOnce(c, u) /\ ~c.suite[u].onchainID
  BY <1>1, <1>2 DEF ChainInv, SaltInv, DeployedOnce
<1>4. /\ DOMAIN d = ChainFields /\ DOMAIN d.suite = Tokens
      /\ d.suite[t] = r /\ \A u \in Tokens \ {t} : d.suite[u] = c.suite[u]
      /\ d.factoryToken = t /\ d.idSalts = c.idSalts \cup {Salt}
      /\ d.infra = c.infra /\ d.version = c.version /\ d.linked = c.linked
      /\ d.issuers = c.issuers /\ d.identity = c.identity /\ d.module = c.module
      /\ d.dva = c.dva /\ d.history = c.history
  BY <1>1, <1>2 DEF ChainInv, ChainOK, ChainFields
<1>5. SuiteOK(t, r) /\ Usable(t, r) /\ r.onchainID /\ r.balance[Manager] = 0
  BY <1>1, ManagerApart
  DEF Complete, NewSuite, SuiteOK, SuiteFields, Usable, HandedOver
<1> HIDE DEF r
<1>6. ChainOK(d)
  BY <1>4, <1>5 DEF ChainInv, ChainOK
<1>7. SaltInv(net, d)
  BY <1>3, <1>4, <1>5 DEF SaltInv, DeployedOnce
<1>8. EscrowInv(d)
  <2> SUFFICES ASSUME NEW u \in Tokens
               PROVE  d.suite[u].balance[Manager] + d.dva.burned[u] = Owed(d, u) + d.dva.surplus[u]
    BY DEF EscrowInv
  <2>1. Owed(d, u) = Owed(c, u)
    BY <1>4 DEF Owed
  <2>2. CASE u # t
    BY <1>4, <2>1, <2>2 DEF ChainInv, EscrowInv
  <2>3. CASE u = t
    <3>1. \A id \in DOMAIN c.dva.transfers : c.dva.transfers[id].token # t
      BY <1>1, <1>3 DEF DeployedOnce
    <3>2. Owed(c, t) = 0
      <4>1. [id \in DOMAIN c.dva.transfers |-> Part(c.dva.transfers[id], t)]
              = [id \in DOMAIN c.dva.transfers |-> 0]
        BY <3>1 DEF Part
      <4> QED BY <4>1, SumZero, OwedIsDue DEF Due
    <3>3. c.suite[t].balance[Manager] = 0
      BY <1>1, <1>3 DEF DeployedOnce, Untold
    <3>4. /\ c.suite[t].balance[Manager] + c.dva.burned[t] = Owed(c, t) + c.dva.surplus[t]
          /\ c.dva.burned[t] \in Nat /\ c.dva.surplus[t] \in Nat
      BY <1>1 DEF ChainInv, ChainOK, DvaOK, EscrowInv
    <3> QED BY <1>4, <1>5, <2>1, <2>3, <3>2, <3>3, <3>4
  <2> QED BY <2>2, <2>3
<1>9. Keeps(c, d)
  <2>1. \A u \in Tokens : KeepsSuite(c.suite[u], d.suite[u])
    BY <1>3, <1>4, <1>5 DEF KeepsSuite, DeployedOnce, Untold
  <2> QED BY <1>4, <2>1 DEF Keeps, KeepsRest
<1> QED BY <1>1, <1>3, <1>4, <1>6, <1>7, <1>8, <1>9 DEF Sound, ChainInv

-----------------------------------------------------------------------------
(***************************************************************************)
(* Steps on factories, identities and modules.                             *)
(***************************************************************************)
\* Deployments and the links of a factory.
LEMMA FactorySound ==
  ASSUME NEW net, NEW p, NEW c, ChainInv(net, c), NEW o, OpOK(net, p, o),
         NEW d, d = StepOf(c, o).after, StepOf(c, o).accepts,
         o.do \in {"deploy", "useVersion", "addTokenFactory", "deployIssuer",
                   "createTokenIdentity"}
  PROVE  Sound(net, p, c, d)
<1>1. ChainOK(c)
  BY DEF ChainInv
<1>2. CASE o.do = "deploy"
  <2>1. d = [c EXCEPT !.infra[o.what] = o.by]
    BY <1>2 DEF StepOf, SuiteStep, TokenSteps, Deploy, Step
  <2>2. c.infra[o.what] = Nobody
    BY <1>2 DEF StepOf, SuiteStep, TokenSteps, Deploy, Step
  <2>3. ChainOK(d) /\ RestMove(c, d)
    BY <1>1, <2>1, <2>2 DEF ChainOK, ChainFields, RestMove, KeepsRest
  <2> QED BY <2>3, OffSuites
<1>3. CASE o.do = "useVersion"
  <2>1. d = [c EXCEPT !.version = TRUE]
    BY <1>3 DEF StepOf, SuiteStep, TokenSteps, UseVersion, Step
  <2>2. ChainOK(d) /\ RestMove(c, d)
    BY <1>1, <1>3, <2>1 DEF ChainOK, ChainFields, RestMove, KeepsRest
  <2> QED BY <2>2, OffSuites
<1>4. CASE o.do = "addTokenFactory"
  <2>1. d = [c EXCEPT !.linked = TRUE]
    BY <1>4 DEF StepOf, SuiteStep, TokenSteps, AddTokenFactory, Step
  <2>2. ChainOK(d) /\ RestMove(c, d)
    BY <1>1, <1>4, <2>1 DEF ChainOK, ChainFields, RestMove, KeepsRest
  <2> QED BY <2>2, OffSuites
<1>5. CASE o.do = "deployIssuer"
  <2>1. d = [c EXCEPT !.issuers = @ \cup {o.issuer}]
    BY <1>5 DEF StepOf, SuiteStep, TokenSteps, DeployIssuer, Step
  <2>2. ChainOK(d) /\ RestMove(c, d)
    BY <1>1, <1>5, <2>1 DEF ChainOK, ChainFields, RestMove, KeepsRest, OpOK
  <2> QED BY <2>2, OffSuites
<1>6. CASE o.do = "createTokenIdentity"
  <2>1. d = [c EXCEPT !.idSalts = @ \cup {Salt}]
    BY <1>6 DEF StepOf, SuiteStep, TokenSteps, CreateTokenIdentity, Step
  <2>2. ChainOK(d) /\ RestMove(c, d)
    BY <1>1, <1>6, <2>1 DEF ChainOK, ChainFields, RestMove, KeepsRest
  <2> QED BY <2>2, OffSuites
<1> QED BY <1>2, <1>3, <1>4, <1>5, <1>6

\* Deployments of identities, their keys and their claims.
LEMMA IdentitySound ==
  ASSUME NEW net, NEW p, NEW c, ChainInv(net, c), NEW o, OpOK(net, p, o),
         NEW d, d = StepOf(c, o).after, StepOf(c, o).accepts,
         o.do \in OnIdentity
  PROVE  Sound(net, p, c, d)
<1>1. ChainOK(c)
  BY DEF ChainInv
<1>2. CASE o.do = "deployIdentity"
  <2>1. d = [c EXCEPT !.identity[o.identity] =
               [deployed |-> TRUE, keys |-> {o.by}, claims |-> {}]]
    BY <1>2 DEF StepOf, SuiteStep, TokenSteps, DeployIdentity, Step
  <2>2. ChainOK(d) /\ RestMove(c, d)
    BY <1>1, <1>2, <2>1 DEF ChainOK, ChainFields, RestMove, KeepsRest
  <2> QED BY <2>2, OffSuites
<1>3. CASE o.do = "addClaim"
  <2>1. d = [c EXCEPT !.identity[o.identity].claims = @ \cup {o.issuer}]
    BY <1>3 DEF StepOf, SuiteStep, TokenSteps, AddClaim, Step
  <2>2. ChainOK(d) /\ RestMove(c, d)
    BY <1>1, <1>3, <2>1 DEF ChainOK, ChainFields, RestMove, KeepsRest
  <2> QED BY <2>2, OffSuites
<1>4. CASE o.do = "removeClaim"
  <2>1. d = [c EXCEPT !.identity[o.identity].claims = @ \ {o.issuer}]
    BY <1>4 DEF StepOf, SuiteStep, TokenSteps, RemoveClaim, Step
  <2>2. ChainOK(d) /\ RestMove(c, d)
    BY <1>1, <1>4, <2>1 DEF ChainOK, ChainFields, RestMove, KeepsRest
  <2> QED BY <2>2, OffSuites
<1>5. CASE o.do = "addKey"
  <2>1. d = [c EXCEPT !.identity[o.identity].keys = @ \cup {o.key}]
    BY <1>5 DEF StepOf, SuiteStep, TokenSteps, AddKey, Step
  <2>2. ChainOK(d) /\ RestMove(c, d)
    BY <1>1, <1>5, <2>1 DEF ChainOK, ChainFields, RestMove, KeepsRest
  <2> QED BY <2>2, OffSuites
<1>6. CASE o.do = "removeKey"
  <2>1. d = [c EXCEPT !.identity[o.identity].keys = @ \ {o.key}]
    BY <1>6 DEF StepOf, SuiteStep, TokenSteps, RemoveKey, Step
  <2>2. ChainOK(d) /\ RestMove(c, d)
    BY <1>1, <1>6, <2>1 DEF ChainOK, ChainFields, RestMove, KeepsRest
  <2> QED BY <2>2, OffSuites
<1> QED BY <1>2, <1>3, <1>4, <1>5, <1>6 DEF OnIdentity

\* What a module is set to.
ModuleMove(c, d) == \E m, v : \/ d = c
                              \/ d = [c EXCEPT !.module[m].owner = v]
                              \/ d = [c EXCEPT !.module[m].limit = v]
                              \/ d = [c EXCEPT !.module[m].allowed = v]
                              \/ d = [c EXCEPT !.module[m].exchanges = v]
                              \/ d = [c EXCEPT !.module[m].limits = v]

\* Whatever a module is set to, the tokens do not see it.
LEMMA ModuleMoveSound ==
  ASSUME NEW net, NEW p, NEW c, ChainInv(net, c), NEW d, ModuleMove(c, d)
  PROVE  Sound(net, p, c, d)
<1>1. ChainOK(c)
  BY DEF ChainInv
<1>2. ChainOK(d) /\ RestMove(c, d)
  BY <1>1 DEF ModuleMove, ChainOK, ChainFields, RestMove, KeepsRest
<1> QED BY <1>2, OffSuites

\* The steps of the module commands only set modules.
LEMMA ModuleSound ==
  ASSUME NEW net, NEW p, NEW c, ChainInv(net, c), NEW o, OpOK(net, p, o),
         NEW d, d = StepOf(c, o).after, StepOf(c, o).accepts,
         o.do \in {"deployModule", "setLimit", "batchAllow", "setSupplyLimit", "addExchangeID",
                   "removeExchangeID", "setExchangeLimit"}
  PROVE  Sound(net, p, c, d)
<1> SUFFICES ModuleMove(c, d)
  BY ModuleMoveSound
<1>1. CASE o.do = "deployModule"
  <2>1. d = [c EXCEPT !.module[o.module].owner = o.by]
    BY <1>1 DEF StepOf, SuiteStep, TokenSteps, DeployModule, Step
  <2> QED BY <2>1 DEF ModuleMove
<1>2. CASE o.do = "setLimit"
  <2>1. d = [c EXCEPT !.module[o.module].limit = o.limit]
    BY <1>2 DEF StepOf, SuiteStep, TokenSteps, SetLimit, Step
  <2> QED BY <2>1 DEF ModuleMove
<1>3. CASE o.do = "batchAllow"
  <2>1. d = [c EXCEPT !.module[o.module].allowed = Wallets]
    BY <1>3 DEF StepOf, SuiteStep, TokenSteps, BatchAllow, Step
  <2> QED BY <2>1 DEF ModuleMove
<1>4. CASE o.do = "setSupplyLimit"
  <2>1. d = [c EXCEPT !.module[ModuleOf(c, o.token, "SupplyLimit")].limit = o.limit] \/ d = c
    BY <1>4 DEF StepOf, TokenStep, TokenSteps, CmdSetSupplyLimit, Step
  <2> QED BY <2>1 DEF ModuleMove
<1>5. CASE o.do = "addExchangeID"
  <2> DEFINE m == ModuleOf(c, o.token, o.name)
             i == Exchange(c, o)
  <2>1. d = [c EXCEPT !.module[m].exchanges = @ \cup {i}] \/ d = c
    BY <1>5 DEF StepOf, TokenStep, TokenSteps, CmdAddExchangeID, AddExchangeID, Check, Step
  <2> HIDE DEF m, i
  <2>2. d = [c EXCEPT !.module[m].exchanges = c.module[m].exchanges \cup {i}] \/ d = c
    BY <2>1
  <2> QED BY <2>2 DEF ModuleMove
<1>6. CASE o.do = "removeExchangeID"
  <2> DEFINE m == ModuleOf(c, o.token, o.name)
             i == Exchange(c, o)
  <2>1. d = [c EXCEPT !.module[m].exchanges = @ \ {i}] \/ d = c
    BY <1>6 DEF StepOf, TokenStep, TokenSteps, CmdRemoveExchangeID, RemoveExchangeID, Check, Step
  <2> HIDE DEF m, i
  <2>2. d = [c EXCEPT !.module[m].exchanges = c.module[m].exchanges \ {i}] \/ d = c
    BY <2>1
  <2> QED BY <2>2 DEF ModuleMove
<1>7. CASE o.do = "setExchangeLimit"
  <2> DEFINE m == ModuleOf(c, o.token, o.name)
             i == Exchange(c, o)
  <2>1. d = [c EXCEPT !.module[m].limits = @ \cup {i}] \/ d = c
    BY <1>7 DEF StepOf, TokenStep, TokenSteps, CmdSetExchangeLimit, SetExchangeLimit, Check, Step
  <2> HIDE DEF m, i
  <2>2. d = [c EXCEPT !.module[m].limits = c.module[m].limits \cup {i}] \/ d = c
    BY <2>1
  <2> QED BY <2>2 DEF ModuleMove
<1> QED BY <1>1, <1>2, <1>3, <1>4, <1>5, <1>6, <1>7

\* The manager is deployed once, and registered as a holder where its user is.
LEMMA ManagerSound ==
  ASSUME NEW net, NEW p, NEW c, ChainInv(net, c), NEW o, OpOK(net, p, o),
         NEW d, d = StepOf(c, o).after, StepOf(c, o).accepts,
         o.do \in {"deployManager", "setApprovalCriteria"}
  PROVE  Sound(net, p, c, d)
<1>1. ChainOK(c) /\ DvaOK(c.dva)
  BY DEF ChainInv, ChainOK
<1>2. CASE o.do = "deployManager"
  <2>1. d = [c EXCEPT !.dva.deployed = TRUE]
    BY <1>2 DEF StepOf, TokenStep, TokenSteps, DeployManager, Step
  <2>2. /\ DvaOK(d.dva) /\ d.dva.deployed /\ d.dva.transfers = c.dva.transfers
        /\ d.dva.surplus = c.dva.surplus /\ d.dva.burned = c.dva.burned
    <3>1. d.dva = [c.dva EXCEPT !.deployed = TRUE]
      BY <1>1, <2>1 DEF ChainOK, ChainFields
    <3> DEFINE e == c.dva
               g == [e EXCEPT !.deployed = TRUE]
    <3>2. DvaOK(e)
      BY <1>1
    <3> HIDE DEF e
    <3>3. /\ DOMAIN g = DvaFields /\ g.deployed /\ g.criteria = e.criteria
          /\ g.transfers = e.transfers /\ g.surplus = e.surplus /\ g.burned = e.burned
      BY <3>2 DEF DvaOK, DvaFields
    <3> HIDE DEF g
    <3>4. DvaOK(g)
      BY <3>2, <3>3 DEF DvaOK
    <3> QED BY <3>1, <3>3, <3>4 DEF e, g
  <2>3. DOMAIN d = ChainFields /\ \A x \in ChainFields \ {"dva"} : d[x] = c[x]
    BY <1>1, <2>1 DEF ChainOK, ChainFields
  <2>4. ChainOK(d) /\ RestMove(c, d)
    BY <1>1, <2>2, <2>3 DEF ChainOK, ChainFields, RestMove, KeepsRest
  <2> QED BY <2>4, OffSuites
<1>3. CASE o.do = "setApprovalCriteria"
  <2>1. d = [c EXCEPT !.dva.criteria = o.criteria]
    BY <1>3 DEF StepOf, TokenStep, TokenSteps, CmdSetApprovalCriteria, Step
  <2>2. ChainOK(d) /\ RestMove(c, d)
    BY <1>1, <1>3, <2>1 DEF ChainOK, ChainFields, RestMove, KeepsRest, DvaOK, DvaFields,
                              OpOK
  <2> QED BY <2>2, OffSuites
<1> QED BY <1>2, <1>3

-----------------------------------------------------------------------------
(***************************************************************************)
(* Steps on the ledger of the transfer manager.                            *)
(***************************************************************************)
\* A step on the ledger changes the balances and frozen units of one token, and what
\* its manager may spend; and what the manager has written down.
LedgerStep(c, d, t, b, f, e) ==
  LET s == c.suite[t]
      r == d.suite[t]
  IN /\ DOMAIN d = ChainFields /\ DOMAIN d.suite = Tokens
     /\ \A v \in Tokens \ {t} : d.suite[v] = c.suite[v]
     /\ DOMAIN r = SuiteFields
     /\ r.owner = s.owner /\ r.bound = s.bound /\ r.onchainID = s.onchainID
     /\ r.irAgents = s.irAgents /\ r.entry = s.entry /\ r.modules = s.modules
     /\ r.balance = b /\ r.frozen = f
     /\ d.infra = c.infra /\ d.version = c.version /\ d.linked = c.linked
     /\ d.idSalts = c.idSalts /\ d.factoryToken = c.factoryToken /\ d.issuers = c.issuers
     /\ d.identity = c.identity /\ d.module = c.module /\ d.history = c.history
     /\ d.dva = e

\* What it may do to them.
LedgerMove(net, c, t, b, f, e) ==
  LET s == c.suite[t]
      xs == c.dva.transfers
  IN /\ b \in [Holders -> Nat] /\ f \in [Holders -> Nat] /\ \A h \in Holders : f[h] <= b[h]
     /\ DvaOK(e) /\ e.deployed = c.dva.deployed
     /\ \A id \in DOMAIN e.transfers :
          \/ e.transfers[id].token = t /\ (net = "fhevm" => s.onchainID)
          \/ \E k \in DOMAIN xs : xs[k].token = e.transfers[id].token
     /\ \A v \in Tokens \ {t} : /\ Due(e.transfers, v) = Due(xs, v)
                                /\ e.surplus[v] = c.dva.surplus[v]
                                /\ e.burned[v] = c.dva.burned[v]
     /\ b[Manager] + e.burned[t] = Due(e.transfers, t) + e.surplus[t]
     /\ (net = "fhevm" => s.onchainID) \/ b[Manager] <= s.balance[Manager]

\* A step on the ledger that leaves the manager what is due keeps the chain in order.
LEMMA OnLedger ==
  ASSUME NEW net, NEW p, NEW c, ChainInv(net, c), NEW d, NEW t \in Tokens, NEW b, NEW f, NEW e,
         LedgerStep(c, d, t, b, f, e), LedgerMove(net, c, t, b, f, e)
  PROVE  Sound(net, p, c, d)
<1>1. \A v \in Tokens : SuiteOK(v, d.suite[v])
  <2> SUFFICES ASSUME NEW v \in Tokens PROVE SuiteOK(v, d.suite[v])
    OBVIOUS
  <2>1. SuiteOK(v, c.suite[v])
    BY DEF ChainInv, ChainOK
  <2>2. CASE v = t
    BY <2>1, <2>2 DEF SuiteOK, LedgerStep, LedgerMove
  <2>3. CASE v # t
    BY <2>1, <2>3 DEF LedgerStep
  <2> QED BY <2>2, <2>3
<1>2. ChainOK(d)
  BY <1>1 DEF ChainInv, ChainOK, LedgerStep, LedgerMove
<1>3. \A v \in Tokens : /\ d.suite[v].onchainID = c.suite[v].onchainID
                        /\ d.suite[v].entry = c.suite[v].entry
                        /\ d.suite[v].owner = c.suite[v].owner
                        /\ d.suite[v].irAgents = c.suite[v].irAgents
                        /\ d.suite[v].bound = c.suite[v].bound
  BY DEF LedgerStep
<1>4. SaltInv(net, d)
  <2> SUFFICES ASSUME net = "fhevm", NEW v \in Tokens PROVE DeployedOnce(d, v)
    BY DEF SaltInv
  <2>1. DeployedOnce(c, v)
    BY DEF ChainInv, SaltInv
  <2>2. ASSUME d.suite[v].onchainID
        PROVE  Usable(v, d.suite[v]) /\ d.factoryToken = v /\ Salt \in d.idSalts
    BY <1>3, <2>1, <2>2 DEF DeployedOnce, LedgerStep, Usable
  <2>3. ASSUME ~d.suite[v].onchainID
        PROVE  Untold(d.suite[v])
    <3>1. Untold(c.suite[v]) /\ ~c.suite[v].onchainID
      BY <1>3, <2>1, <2>3 DEF DeployedOnce
    <3>2. d.suite[v].balance[Manager] = 0
      <4>1. CASE v = t
        BY <3>1, <4>1, ManagerApart DEF Untold, LedgerStep, LedgerMove
      <4>2. CASE v # t
        BY <3>1, <4>2 DEF Untold, LedgerStep
      <4> QED BY <4>1, <4>2
    <3> QED BY <1>3, <3>1, <3>2 DEF Untold
  <2>4. ASSUME ~d.suite[v].onchainID, NEW id \in DOMAIN d.dva.transfers
        PROVE  d.dva.transfers[id].token # v
    BY <1>3, <2>1, <2>4 DEF DeployedOnce, LedgerStep, LedgerMove
  <2> QED BY <2>2, <2>3, <2>4 DEF DeployedOnce
<1>5. EscrowInv(d)
  <2> SUFFICES ASSUME NEW v \in Tokens
               PROVE  d.suite[v].balance[Manager] + d.dva.burned[v] = Owed(d, v) + d.dva.surplus[v]
    BY DEF EscrowInv
  <2>1. Owed(d, v) = Due(e.transfers, v) /\ Owed(c, v) = Due(c.dva.transfers, v)
    BY OwedIsDue DEF LedgerStep
  <2>2. CASE v = t
    BY <2>1, <2>2 DEF LedgerStep, LedgerMove
  <2>3. CASE v # t
    BY <2>1, <2>3 DEF LedgerStep, LedgerMove, ChainInv, EscrowInv
  <2> QED BY <2>2, <2>3
<1>6. Keeps(c, d)
  <2>1. \A v \in Tokens : KeepsSuite(c.suite[v], d.suite[v])
    BY <1>3 DEF KeepsSuite
  <2> QED BY <2>1 DEF Keeps, KeepsRest, LedgerStep, LedgerMove
<1> QED BY <1>2, <1>3, <1>4, <1>5, <1>6 DEF Sound, ChainInv, LedgerStep

\* A token with a manager is deployed.
LEMMA ManagedIsDeployed ==
  ASSUME NEW c, NEW net, ChainInv(net, c), NEW t \in Tokens, net = "fhevm",
         Verified(c, t, Manager)
  PROVE  c.suite[t].onchainID
<1>1. c.suite[t].entry[Manager] # NoEntry
  BY DEF Verified, NoEntry
<1> QED BY <1>1, ManagerApart DEF ChainInv, SaltInv, DeployedOnce, Untold

\* The books of the chain, and those of the manager for one token.
LEMMA InBooks ==
  ASSUME NEW net, NEW c, ChainInv(net, c), NEW t \in Tokens
  PROVE  /\ SuiteOK(t, c.suite[t]) /\ DvaOK(c.dva)
         /\ c.dva.transfers \in Seq(Transfers)
         /\ Due(c.dva.transfers, t) \in Nat
         /\ c.dva.surplus[t] \in Nat /\ c.dva.burned[t] \in Nat
         /\ c.suite[t].balance[Manager] \in Nat /\ Manager \in Holders
         /\ c.suite[t].balance[Manager] + c.dva.burned[t]
              = Due(c.dva.transfers, t) + c.dva.surplus[t]
<1>1. /\ SuiteOK(t, c.suite[t]) /\ DvaOK(c.dva) /\ Manager \in Holders
      /\ c.suite[t].balance[Manager] + c.dva.burned[t] = Owed(c, t) + c.dva.surplus[t]
  BY ManagerApart DEF ChainInv, ChainOK, EscrowInv
<1>2. c.dva.transfers \in Seq(Transfers)
  BY <1>1 DEF DvaOK
<1> QED BY <1>1, <1>2, DueType, OwedIsDue DEF SuiteOK, DvaOK

\* m is c with other balances of token t.
OnlyBalance(c, m, t, b) ==
  /\ DOMAIN m = ChainFields /\ DOMAIN m.suite = Tokens /\ DOMAIN m.suite[t] = SuiteFields
  /\ \A v \in Tokens \ {t} : m.suite[v] = c.suite[v]
  /\ \A x \in SuiteFields \ {"balance"} : m.suite[t][x] = c.suite[t][x]
  /\ m.suite[t].balance = b
  /\ \A x \in ChainFields \ {"suite"} : m[x] = c[x]

\* n units of token t moved, or none: m is what that leaves of c, b the balances.
UnitsMoved(c, t, from, to, n, m, b) ==
  LET s == c.suite[t]
  IN /\ OnlyBalance(c, m, t, b)
     /\ b \in [Holders -> Nat]
     /\ \A h \in Holders : s.frozen[h] <= b[h]
     /\ m = c => b = s.balance
     /\ m # c /\ to = Manager => b[Manager] = s.balance[Manager] + n
     /\ m # c /\ to # Manager /\ from = Manager => b[Manager] = s.balance[Manager] - n
     /\ to # Manager /\ from # Manager => b[Manager] = s.balance[Manager]

\* Units that move change balances and nothing else, and leave frozen what is frozen.
\* The manager gets what is moved to it, also from itself.
LEMMA MovedCases ==
  ASSUME NEW net, NEW c, ChainInv(net, c), NEW t \in Tokens, NEW from \in Holders \cup {Nobody},
         NEW to \in Holders, NEW n \in Nat,
         NEW m, m = Moved(c, t, from, to, n), NEW b, b = m.suite[t].balance
  PROVE  UnitsMoved(c, t, from, to, n, m, b)
<1> DEFINE s == c.suite[t]
           bal == s.balance
           fro == s.frozen
           less == IF from = Nobody THEN bal ELSE [bal EXCEPT ![from] = @ - n]
           more == [less EXCEPT ![to] = bal[to] + n]
<1>1. /\ bal \in [Holders -> Nat] /\ fro \in [Holders -> Nat]
      /\ \A h \in Holders : fro[h] <= bal[h]
      /\ Nobody \notin Holders /\ Manager \in Holders
  BY WalletsAssumption DEF ChainInv, ChainOK, SuiteOK, Holders
<1>2. \/ m = c
      \/ /\ m = [c EXCEPT !.suite[t].balance = more]
         /\ from # Nobody => bal[from] - fro[from] >= n
  BY <1>1 DEF Moved, Free
<1>3. CASE m = c
  <2>1. b = bal
    BY <1>3
  <2>2. OnlyBalance(c, m, t, b)
    BY <1>3 DEF OnlyBalance, ChainInv, ChainOK, SuiteOK
  <2> QED BY <1>1, <1>3, <2>1, <2>2 DEF UnitsMoved
<1>4. CASE m # c
  <2> HIDE DEF more
  <2>1. m.suite[t] = [s EXCEPT !.balance = more]
    BY <1>2, <1>4 DEF ChainInv, ChainOK, ChainFields
  <2>2. b = more
    BY <2>1 DEF ChainInv, ChainOK, SuiteOK, SuiteFields
  <2>3. from # Nobody => bal[from] - fro[from] >= n
    BY <1>2, <1>4
  <2>4. /\ less \in [Holders -> Nat] /\ \A h \in Holders : fro[h] <= less[h]
        /\ from = Manager => less[Manager] = bal[Manager] - n
        /\ from # Manager => less[Manager] = bal[Manager]
    <3> HIDE DEF bal, fro
    <3>1. CASE from = Nobody
      BY <1>1, <3>1
    <3>2. CASE from # Nobody
      <4>1. from \in Holders /\ less = [bal EXCEPT ![from] = @ - n]
        BY <3>2
      <4> HIDE DEF less
      <4> QED BY <1>1, <2>3, <3>2, <4>1
    <3> QED BY <3>1, <3>2
  <2>5. /\ more \in [Holders -> Nat] /\ \A h \in Holders : fro[h] <= more[h]
        /\ to = Manager => more[Manager] = bal[Manager] + n
        /\ to # Manager => more[Manager] = less[Manager]
    <3> USE DEF more
    <3> HIDE DEF bal, fro, less
    <3> QED BY <1>1, <2>4
  <2>6. OnlyBalance(c, m, t, b)
    BY <1>2, <1>4, <2>2 DEF OnlyBalance, ChainInv, ChainOK, ChainFields, SuiteOK, SuiteFields
  <2> HIDE DEF less
  <2> QED BY <1>4, <2>2, <2>4, <2>5, <2>6 DEF UnitsMoved
<1> QED BY <1>3, <1>4

\* Moved units and a new page of the manager's books are a step on the ledger.
LEMMA BooksStep ==
  ASSUME NEW c, NEW t \in Tokens, NEW m, NEW b, OnlyBalance(c, m, t, b), NEW e,
         NEW d, d = [m EXCEPT !.dva = e]
  PROVE  LedgerStep(c, d, t, b, c.suite[t].frozen, e)
<1>1. /\ DOMAIN d = ChainFields /\ d.suite = m.suite /\ d.dva = e
      /\ \A x \in ChainFields \ {"suite", "dva"} : d[x] = c[x]
  BY DEF OnlyBalance, ChainFields
<1>2. LET r == m.suite[t]
          s == c.suite[t]
      IN /\ r.owner = s.owner /\ r.bound = s.bound /\ r.onchainID = s.onchainID
         /\ r.irAgents = s.irAgents /\ r.entry = s.entry /\ r.modules = s.modules
         /\ r.balance = b /\ r.frozen = s.frozen
  BY DEF OnlyBalance, SuiteFields
<1>3. /\ d.infra = c.infra /\ d.version = c.version /\ d.linked = c.linked
      /\ d.idSalts = c.idSalts /\ d.factoryToken = c.factoryToken /\ d.issuers = c.issuers
      /\ d.identity = c.identity /\ d.module = c.module /\ d.history = c.history
  BY <1>1 DEF ChainFields
<1> QED BY <1>1, <1>2, <1>3 DEF LedgerStep, OnlyBalance

\* Units that are minted, or sent by a user; those the manager gets are written down.
LEMMA MovedSound ==
  ASSUME NEW net, NEW p, NEW c, ChainInv(net, c), NEW t \in Tokens,
         NEW from \in Users \cup {Nobody}, NEW to \in Holders, Verified(c, t, to),
         NEW d, d = Unasked(c, Moved(c, t, from, to, 1), t)
  PROVE  Sound(net, p, c, d)
<1> DEFINE bal == c.suite[t].balance
           m == Moved(c, t, from, to, 1)
           b == m.suite[t].balance
           f == c.suite[t].frozen
           n == Gain(c, m, t)
           q == c.dva.surplus[t] + n
           e == [c.dva EXCEPT !.surplus = [@ EXCEPT ![t] = q]]
<1>1. from \in Holders \cup {Nobody} /\ from # Manager /\ 1 \in Nat
  BY ManagerApart
<1>2. /\ OnlyBalance(c, m, t, b) /\ b \in [Holders -> Nat]
      /\ \A h \in Holders : f[h] <= b[h]
      /\ b[Manager] = bal[Manager] \/ b[Manager] = bal[Manager] + 1
      /\ to # Manager => b[Manager] = bal[Manager]
  <2> DEFINE one == 1
  <2>1. m = Moved(c, t, from, to, one) /\ b = m.suite[t].balance /\ one \in Nat
    OBVIOUS
  <2> HIDE DEF m, b, one
  <2>2. UnitsMoved(c, t, from, to, one, m, b)
    BY <1>1, <2>1, MovedCases
  <2> QED BY <1>1, <2>2 DEF UnitsMoved, one
<1>3. n = b[Manager] - bal[Manager]
  BY DEF Gain
<1>4. /\ DvaOK(c.dva) /\ f \in [Holders -> Nat] /\ c.dva.surplus[t] \in Nat
      /\ bal[Manager] \in Nat /\ c.dva.burned[t] \in Nat /\ Due(c.dva.transfers, t) \in Nat
      /\ bal[Manager] + c.dva.burned[t] = Due(c.dva.transfers, t) + c.dva.surplus[t]
  BY InBooks DEF SuiteOK
<1>5. d = [m EXCEPT !.dva = e]
  <2>1. m.dva = c.dva
    BY <1>2 DEF OnlyBalance, ChainFields
  <2>2. d = [m EXCEPT !.dva.surplus[t] = @ + n]
    BY DEF Unasked
  <2> HIDE DEF m, n
  <2> QED BY <2>1, <2>2
<1>6. q \in Nat /\ b[Manager] + c.dva.burned[t] = Due(c.dva.transfers, t) + q
  <2> HIDE DEF b, bal, n
  <2> QED BY <1>2, <1>3, <1>4
<1> HIDE DEF m, b, q
<1>7. LedgerStep(c, d, t, b, f, e)
  <2> HIDE DEF e
  <2> QED BY <1>2, <1>5, BooksStep
<1>8. /\ DvaOK(e) /\ e.deployed = c.dva.deployed /\ e.transfers = c.dva.transfers
      /\ e.burned = c.dva.burned /\ e.surplus[t] = q
      /\ \A v \in Tokens \ {t} : e.surplus[v] = c.dva.surplus[v]
  BY <1>4, <1>6 DEF DvaOK, DvaFields
<1> HIDE DEF e, f
<1>9. LedgerMove(net, c, t, b, f, e)
  <2>1. (net = "fhevm" => c.suite[t].onchainID) \/ b[Manager] <= bal[Manager]
    BY <1>2, <1>4, ManagedIsDeployed
  <2> QED BY <1>2, <1>4, <1>6, <1>8, <2>1 DEF LedgerMove
<1> QED BY <1>7, <1>9, OnLedger

\* Mints and transfers.
LEMMA SupplySound ==
  ASSUME NEW net, NEW p, NEW c, ChainInv(net, c), NEW o, OpOK(net, p, o),
         NEW d, d = StepOf(c, o).after, StepOf(c, o).accepts,
         o.do \in {"mintUnchecked", "mint", "transfer"}
  PROVE  Sound(net, p, c, d)
<1>1. o.token \in Tokens
  BY DEF OpOK, OnToken, TokenSteps
<1>2. CASE o.do \in {"mintUnchecked", "mint"}
  <2>1. o.user \in Holders
    BY <1>2 DEF OpOK, OnUser
  <2>2. /\ d = Unasked(c, Moved(c, o.token, Nobody, o.user, 1), o.token)
        /\ Verified(c, o.token, o.user)
    BY <1>2 DEF StepOf, TokenStep, TokenSteps, CmdMint, Mint, Step
  <2> QED BY <1>1, <2>1, <2>2, MovedSound
<1>3. CASE o.do = "transfer"
  <2>1. o.by \in Users /\ o.to \in Holders
    BY <1>3 DEF OpOK
  <2>2. /\ d = Unasked(c, Moved(c, o.token, o.by, o.to, 1), o.token)
        /\ Verified(c, o.token, o.to)
    BY <1>3 DEF StepOf, TokenStep, TokenSteps, CmdTransfer, Step
  <2> QED BY <1>1, <2>1, <2>2, MovedSound
<1> QED BY <1>2, <1>3

\* A freeze is bounded by what is held, the manager's too.
LEMMA FrozenSound ==
  ASSUME NEW net, NEW p, NEW c, ChainInv(net, c), NEW o, OpOK(net, p, o),
         NEW d, d = StepOf(c, o).after, StepOf(c, o).accepts,
         o.do \in {"freeze", "unfreeze"}
  PROVE  Sound(net, p, c, d)
<1> DEFINE t == o.token
           s == c.suite[t]
<1>1. t \in Tokens /\ SuiteOK(t, s)
  BY DEF OpOK, OnToken, TokenSteps, ByHand, ChainInv, ChainOK
<1>2. o.user \in Holders
  BY DEF OpOK, OnUser
<1> DEFINE bal == s.balance
           fro == s.frozen
<1>3. /\ bal \in [Holders -> Nat] /\ fro \in [Holders -> Nat]
      /\ \A h \in Holders : fro[h] <= bal[h]
  BY <1>1 DEF SuiteOK
<1>4. CASE o.do = "freeze"
  <2> DEFINE f == [fro EXCEPT ![o.user] = IF bal[o.user] > fro[o.user]
                                                THEN @ + 1 ELSE @]
             r == [s EXCEPT !.frozen = f]
  <2>1. d = SetSuite(c, t, r)
    BY <1>4 DEF StepOf, TokenStep, TokenSteps, CmdFreeze, Step, SetSuite
  <2>2. f \in [Holders -> Nat] /\ \A h \in Holders : f[h] <= bal[h]
    <3> HIDE DEF bal, fro
    <3> QED BY <1>2, <1>3
  <2> HIDE DEF f
  <2>3. SuiteMove(net, p, t, s, r)
    BY <1>1, <2>2 DEF SuiteMove, SuiteOK, SuiteFields, KeepsSuite, Usable, Untold
  <2> HIDE DEF r
  <2> QED BY <1>1, <2>1, <2>3, OnSuite
<1>5. CASE o.do = "unfreeze"
  <2> DEFINE f == [fro EXCEPT ![o.user] = IF @ > 0 THEN @ - 1 ELSE @]
             r == [s EXCEPT !.frozen = f]
  <2>1. d = SetSuite(c, t, r)
    BY <1>5 DEF StepOf, TokenStep, TokenSteps, CmdUnfreeze, Step, SetSuite
  <2>2. f \in [Holders -> Nat] /\ \A h \in Holders : f[h] <= bal[h]
    <3> HIDE DEF bal, fro
    <3> QED BY <1>2, <1>3
  <2> HIDE DEF f
  <2>3. SuiteMove(net, p, t, s, r)
    BY <1>1, <2>2 DEF SuiteMove, SuiteOK, SuiteFields, KeepsSuite, Usable, Untold
  <2> HIDE DEF r
  <2> QED BY <1>1, <2>1, <2>3, OnSuite
<1> QED BY <1>4, <1>5

\* A burn; what it takes from the manager is written down.
LEMMA BurnSound ==
  ASSUME NEW net, NEW p, NEW c, ChainInv(net, c), NEW o, OpOK(net, p, o),
         NEW d, d = StepOf(c, o).after, StepOf(c, o).accepts, o.do = "burn"
  PROVE  Sound(net, p, c, d)
<1> DEFINE t == o.token
           u == o.user
           s == c.suite[t]
           bal == s.balance
           fro == s.frozen
           left == IF bal[u] > 0 THEN bal[u] - 1 ELSE 0
           b == [bal EXCEPT ![u] = left]
           kept == IF fro[u] > left THEN left ELSE fro[u]
           f == [fro EXCEPT ![u] = kept]
           r == [s EXCEPT !.balance = b, !.frozen = f]
           m == Burnt(c, o)
           n == Gain(c, m, t)
           q == c.dva.burned[t] - n
           e == [c.dva EXCEPT !.burned = [@ EXCEPT ![t] = q]]
<1>1. t \in Tokens /\ u \in Holders
  BY DEF OpOK, OnToken, TokenSteps, ByHand, OnUser
<1>2. /\ DvaOK(c.dva) /\ SuiteOK(t, s) /\ Manager \in Holders
      /\ bal[Manager] \in Nat /\ c.dva.burned[t] \in Nat /\ Due(c.dva.transfers, t) \in Nat
      /\ c.dva.surplus[t] \in Nat
      /\ bal[Manager] + c.dva.burned[t] = Due(c.dva.transfers, t) + c.dva.surplus[t]
  BY <1>1, InBooks
<1>3. m = [c EXCEPT !.suite = [@ EXCEPT ![t] = r]]
  <2>1. m = [c EXCEPT !.suite[t] = [@ EXCEPT !.balance[u] = left, !.frozen[u] = kept]]
    BY DEF Burnt
  <2> HIDE DEF left, kept
  <2> QED BY <2>1
<1>4. /\ b \in [Holders -> Nat] /\ f \in [Holders -> Nat] /\ \A h \in Holders : f[h] <= b[h]
      /\ b[Manager] <= bal[Manager]
  <2>1. /\ bal \in [Holders -> Nat] /\ fro \in [Holders -> Nat]
        /\ \A h \in Holders : fro[h] <= bal[h]
    BY <1>2 DEF SuiteOK
  <2> HIDE DEF bal, fro
  <2> QED BY <1>1, <1>2, <2>1
<1>5. d = [m EXCEPT !.dva = e]
  <2>1. m.dva = c.dva
    BY <1>3 DEF ChainInv, ChainOK, ChainFields
  <2>2. d = [m EXCEPT !.dva.burned[t] = @ - n]
    BY DEF StepOf, TokenStep, TokenSteps, CmdBurn, Step
  <2> HIDE DEF m, n
  <2> QED BY <2>1, <2>2
<1> HIDE DEF b, f
<1>6. DOMAIN s = SuiteFields /\ DOMAIN c = ChainFields /\ DOMAIN c.suite = Tokens
  BY <1>2 DEF SuiteOK, ChainInv, ChainOK
<1>7. m.suite[t] = r /\ r.balance = b
  <2>1. r.balance = b
    BY <1>6 DEF SuiteFields
  <2> HIDE DEF r, m
  <2> QED BY <1>1, <1>3, <1>6, <2>1 DEF ChainFields
<1>8. q \in Nat /\ b[Manager] + q = Due(c.dva.transfers, t) + c.dva.surplus[t]
  <2>1. n = b[Manager] - bal[Manager]
    BY <1>7 DEF Gain
  <2>2. b[Manager] \in Nat
    BY <1>2, <1>4
  <2> HIDE DEF n, bal
  <2> QED BY <1>2, <1>4, <2>1, <2>2
<1> HIDE DEF q
<1>9. /\ DvaOK(e) /\ e.deployed = c.dva.deployed /\ e.transfers = c.dva.transfers
      /\ e.surplus = c.dva.surplus /\ e.burned[t] = q
      /\ \A v \in Tokens \ {t} : e.burned[v] = c.dva.burned[v]
  BY <1>1, <1>2, <1>8 DEF DvaOK, DvaFields
<1> HIDE DEF e, m
<1>10. LedgerStep(c, d, t, b, f, e)
  BY <1>1, <1>3, <1>5, <1>6 DEF LedgerStep, ChainFields, SuiteFields
<1>11. LedgerMove(net, c, t, b, f, e)
  BY <1>2, <1>4, <1>8, <1>9 DEF LedgerMove
<1> HIDE DEF t
<1> QED BY <1>1, <1>10, <1>11, OnLedger

\* The manager is paid what the transfer says, or the transfer says what it was paid.
LEMMA InitiateSound ==
  ASSUME NEW net, NEW p, NEW c, ChainInv(net, c), NEW o, OpOK(net, p, o),
         NEW d, d = StepOf(c, o).after, StepOf(c, o).accepts, o.do = "initiate"
  PROVE  Sound(net, p, c, d)
<1> DEFINE t == o.token
           s == c.suite[t]
           bal == s.balance
           f == s.frozen
           xs == c.dva.transfers
           m == Moved(c, t, o.by, Manager, 1)
           b == m.suite[t].balance
           n == PaidIn(c, m, t)
           x == [token |-> t, from |-> o.by, to |-> o.to, amount |-> n,
                 criteria |-> c.dva.criteria, approved |-> {}, status |-> "PENDING"]
           ys == Append(xs, x)
           e == [c.dva EXCEPT !.transfers = ys]
<1>1. t \in Tokens /\ o.by \in Users /\ o.to \in Holders /\ o.by \in Holders /\ o.by # Manager
  BY ManagerApart DEF OpOK, OnToken, TokenSteps, ByHand
<1>2. /\ d = [m EXCEPT !.dva.transfers = Append(@, x),
                       !.suite[t].allowance[o.by] = IF @ > n THEN @ - n ELSE 0]
      /\ Verified(c, t, Manager)
  BY DEF StepOf, TokenStep, TokenSteps, CmdInitiate, Step
<1>3. /\ OnlyBalance(c, m, t, b) /\ b \in [Holders -> Nat]
      /\ \A h \in Holders : f[h] <= b[h]
      /\ b[Manager] = bal[Manager] \/ b[Manager] = bal[Manager] + 1
  <2> DEFINE one == 1
             from == o.by
  <2>1. /\ m = Moved(c, t, from, Manager, one) /\ b = m.suite[t].balance /\ one \in Nat
        /\ from \in Holders \cup {Nobody} /\ Manager \in Holders
    BY <1>1, ManagerApart
  <2> HIDE DEF m, b, one, from, t
  <2>2. UnitsMoved(c, t, from, Manager, one, m, b)
    BY <1>1, <2>1, MovedCases
  <2> QED BY <2>2 DEF UnitsMoved, one
<1>4. /\ DvaOK(c.dva) /\ xs \in Seq(Transfers) /\ f \in [Holders -> Nat]
      /\ bal[Manager] \in Nat /\ c.dva.burned[t] \in Nat /\ c.dva.surplus[t] \in Nat
      /\ Due(xs, t) \in Nat
      /\ bal[Manager] + c.dva.burned[t] = Due(xs, t) + c.dva.surplus[t]
  BY <1>1, InBooks DEF SuiteOK
<1>5. n \in Nat /\ b[Manager] = bal[Manager] + n
  <2>1. n = b[Manager] - bal[Manager]
    BY DEF PaidIn, Gain
  <2> HIDE DEF n, b, bal
  <2> QED BY <1>3, <1>4, <2>1
<1>6. x \in Transfers /\ Part(x, t) = n /\ \A v \in Tokens \ {t} : Part(x, v) = 0
  <2> HIDE DEF n
  <2> QED BY <1>1, <1>4, <1>5 DEF DvaOK, Transfers, Part
<1>7. /\ DOMAIN m = ChainFields /\ m.dva = c.dva /\ DOMAIN m.suite = Tokens
      /\ DOMAIN m.suite[t] = SuiteFields
  BY <1>3 DEF OnlyBalance, ChainFields
<1> DEFINE a == IF m.suite[t].allowance[o.by] > n THEN m.suite[t].allowance[o.by] - n ELSE 0
<1>8. d = [m EXCEPT !.dva.transfers = Append(@, x), !.suite[t].allowance[o.by] = a]
  BY <1>2
<1> HIDE DEF m, b, n, x, a
<1>9. LedgerStep(c, d, t, b, f, e)
  <2>1. d.dva = e
    BY <1>7, <1>8 DEF ChainFields
  <2>2. d.suite = [m.suite EXCEPT ![t].allowance[o.by] = a]
    BY <1>7, <1>8 DEF ChainFields
  <2>3. DOMAIN d = ChainFields /\ \A y \in ChainFields \ {"suite", "dva"} : d[y] = m[y]
    BY <1>7, <1>8 DEF ChainFields
  <2> HIDE DEF e, t
  <2>4. /\ DOMAIN d.suite = Tokens /\ DOMAIN d.suite[t] = SuiteFields
        /\ \A v \in Tokens \ {t} : d.suite[v] = c.suite[v]
        /\ \A y \in SuiteFields \ {"allowance"} : d.suite[t][y] = m.suite[t][y]
    BY <1>1, <1>3, <1>7, <2>2 DEF OnlyBalance, SuiteFields
  <2>5. LET r == d.suite[t]
            z == c.suite[t]
        IN /\ r.owner = z.owner /\ r.bound = z.bound /\ r.onchainID = z.onchainID
           /\ r.irAgents = z.irAgents /\ r.entry = z.entry /\ r.modules = z.modules
           /\ r.balance = b /\ r.frozen = z.frozen
    BY <1>3, <2>4 DEF OnlyBalance, SuiteFields
  <2>6. /\ d.infra = c.infra /\ d.version = c.version /\ d.linked = c.linked
        /\ d.idSalts = c.idSalts /\ d.factoryToken = c.factoryToken /\ d.issuers = c.issuers
        /\ d.identity = c.identity /\ d.module = c.module /\ d.history = c.history
    BY <1>3, <2>3 DEF OnlyBalance, ChainFields
  <2> QED BY <2>1, <2>3, <2>4, <2>5, <2>6 DEF LedgerStep
<1>10. LedgerMove(net, c, t, b, f, e)
  <2>1. x.token = t /\ (net = "fhevm" => s.onchainID)
    BY <1>1, <1>2, ManagedIsDeployed DEF x
  <2> HIDE DEF xs
  <2>2. /\ ys \in Seq(Transfers)
        /\ \A id \in DOMAIN ys : ys[id] = x \/ \E k \in DOMAIN xs : ys[id] = xs[k]
    BY <1>4, <1>6
  <2>3. \A v \in Tokens : Due(xs, v) \in Nat /\ Due(ys, v) = Due(xs, v) + Part(x, v)
    BY <1>4, <1>6, DueAppend, DueType
  <2> HIDE DEF ys
  <2>4. /\ DvaOK(e) /\ e.deployed = c.dva.deployed /\ e.transfers = ys
        /\ e.burned = c.dva.burned /\ e.surplus = c.dva.surplus
    BY <1>4, <2>2 DEF DvaOK, DvaFields
  <2>5. Due(ys, t) = Due(xs, t) + n /\ \A v \in Tokens \ {t} : Due(ys, v) = Due(xs, v)
    BY <1>1, <1>6, <2>3
  <2> HIDE DEF e, bal, f
  <2>7. /\ bal[Manager] \in Nat /\ c.dva.burned[t] \in Nat /\ c.dva.surplus[t] \in Nat
        /\ Due(xs, t) \in Nat
        /\ bal[Manager] + c.dva.burned[t] = Due(xs, t) + c.dva.surplus[t]
    BY <1>4
  <2>6. b[Manager] + c.dva.burned[t] = Due(ys, t) + c.dva.surplus[t]
    BY <1>5, <2>5, <2>7
  <2> HIDE DEF f, s
  <2> QED BY <1>3, <1>4, <2>1, <2>2, <2>4, <2>5, <2>6 DEF LedgerMove, xs, s
<1> HIDE DEF t, f, e
<1> QED BY <1>1, <1>9, <1>10, OnLedger

\* A transfer that is changed and still waits for as much.
LEMMA WaitingSound ==
  ASSUME NEW net, NEW p, NEW c, ChainInv(net, c), NEW id \in DOMAIN c.dva.transfers,
         NEW x \in Transfers, x.token = c.dva.transfers[id].token,
         x.amount = c.dva.transfers[id].amount, x.status = c.dva.transfers[id].status,
         NEW d, d = [c EXCEPT !.dva.transfers[id] = x]
  PROVE  Sound(net, p, c, d)
<1> DEFINE xs == c.dva.transfers
           ys == [xs EXCEPT ![id] = x]
           t == xs[id].token
           b == c.suite[t].balance
           f == c.suite[t].frozen
           e == [c.dva EXCEPT !.transfers = ys]
<1>1. xs \in Seq(Transfers) /\ xs[id] \in Transfers /\ t \in Tokens
  <2>1. xs \in Seq(Transfers)
    BY DEF ChainInv, ChainOK, DvaOK
  <2>2. xs[id] \in Transfers
    BY <2>1
  <2> QED BY <2>1, <2>2 DEF Transfers
<1>2. /\ DvaOK(c.dva) /\ b \in [Holders -> Nat] /\ f \in [Holders -> Nat]
      /\ \A h \in Holders : f[h] <= b[h]
      /\ b[Manager] + c.dva.burned[t] = Due(xs, t) + c.dva.surplus[t]
      /\ b[Manager] \in Nat
  <2> HIDE DEF t
  <2> QED BY <1>1, InBooks DEF SuiteOK
<1>3. \A v : Part(x, v) = Part(xs[id], v) /\ Part(x, v) \in Nat
  BY PartType DEF Part
<1>4. \A v : Due(ys, v) = Due(xs, v) /\ ys \in Seq(Transfers)
  <2> SUFFICES ASSUME NEW v PROVE Due(ys, v) = Due(xs, v) /\ ys \in Seq(Transfers)
    OBVIOUS
  <2>1. ys \in Seq(Transfers) /\ Due(ys, v) + Part(xs[id], v) = Due(xs, v) + Part(x, v)
    <3> HIDE DEF ys, xs
    <3> QED BY <1>1, DueChange DEF ys, xs
  <2>2. Due(ys, v) \in Nat /\ Due(xs, v) \in Nat
    BY <1>1, <2>1, DueType
  <2> QED BY <1>3, <2>1, <2>2
<1>5. \A i \in DOMAIN ys : \E k \in DOMAIN xs : xs[k].token = ys[i].token
  BY <1>1
<1>6. OnlyBalance(c, c, t, b) /\ d = [c EXCEPT !.dva = e]
  BY <1>1 DEF OnlyBalance, ChainInv, ChainOK, SuiteOK
<1> HIDE DEF ys
<1>7. /\ DvaOK(e) /\ e.deployed = c.dva.deployed /\ e.transfers = ys
      /\ e.burned = c.dva.burned /\ e.surplus = c.dva.surplus
  BY <1>2, <1>4 DEF DvaOK, DvaFields
<1> HIDE DEF e
<1>8. LedgerMove(net, c, t, b, f, e)
  <2>1. b[Manager] <= b[Manager]
    <3>1. \A n \in Nat : n <= n
      OBVIOUS
    <3>2. b[Manager] \in Nat
      BY <1>2
    <3> HIDE DEF b
    <3> QED BY <3>1, <3>2
  <2> HIDE DEF f
  <2> QED BY <1>2, <1>4, <1>5, <1>7, <2>1 DEF LedgerMove
<1>9. LedgerStep(c, d, t, b, f, e)
  BY <1>1, <1>6, BooksStep
<1> HIDE DEF b, t, f
<1> QED BY <1>1, <1>8, <1>9, OnLedger

\* A transfer that ends, and pays what the manager holds of it.
LEMMA PaidSound ==
  ASSUME NEW net, NEW p, NEW c, ChainInv(net, c), NEW id \in DOMAIN c.dva.transfers,
         c.dva.transfers[id].status = "PENDING", NEW to \in Holders,
         NEW x \in Transfers, x.token = c.dva.transfers[id].token, x.status # "PENDING",
         NEW d, d = [PaidOut(c, c.dva.transfers[id], to) EXCEPT !.dva.transfers[id] = x]
  PROVE  Sound(net, p, c, d)
<1> DEFINE xs == c.dva.transfers
           ys == [xs EXCEPT ![id] = x]
           old == xs[id]
           t == old.token
           n == old.amount
           bal == c.suite[t].balance
           f == c.suite[t].frozen
           m == Moved(c, t, Manager, to, n)
           b == m.suite[t].balance
           k == Kept(c, m, old, to)
           q == c.dva.surplus[t] + k
           e == [c.dva EXCEPT !.transfers = ys, !.surplus = [@ EXCEPT ![t] = q]]
<1>1. xs \in Seq(Transfers) /\ old \in Transfers /\ t \in Tokens /\ n \in Nat
  <2>1. xs \in Seq(Transfers)
    BY DEF ChainInv, ChainOK, DvaOK
  <2>2. xs[id] \in Transfers
    BY <2>1
  <2> QED BY <2>1, <2>2 DEF Transfers
<1>2. /\ OnlyBalance(c, m, t, b) /\ b \in [Holders -> Nat]
      /\ \A h \in Holders : f[h] <= b[h]
      /\ m = c => b = bal
      /\ m # c /\ to = Manager => b[Manager] = bal[Manager] + n
      /\ m # c /\ to # Manager => b[Manager] = bal[Manager] - n
  <2> DEFINE from == Manager
  <2>1. m = Moved(c, t, from, to, n) /\ b = m.suite[t].balance /\ from \in Holders \cup {Nobody}
    BY ManagerApart
  <2> HIDE DEF t, m, b, n, ys, xs, old, k, from
  <2>2. UnitsMoved(c, t, from, to, n, m, b)
    BY <1>1, <2>1, MovedCases
  <2> QED BY <2>2 DEF UnitsMoved, from
<1>3. /\ DvaOK(c.dva) /\ f \in [Holders -> Nat] /\ Manager \in Holders
      /\ bal[Manager] \in Nat /\ c.dva.burned[t] \in Nat /\ c.dva.surplus[t] \in Nat
      /\ Due(xs, t) \in Nat
      /\ bal[Manager] + c.dva.burned[t] = Due(xs, t) + c.dva.surplus[t]
  <2> HIDE DEF t, n, m, b, k, q, e
  <2> QED BY <1>1, InBooks DEF SuiteOK
<1>4. d = [m EXCEPT !.dva = e]
  <2>1. m.dva = c.dva /\ DOMAIN m = ChainFields
    BY <1>2 DEF OnlyBalance, ChainFields
  <2>2. d = [[m EXCEPT !.dva.surplus[t] = @ + k] EXCEPT !.dva.transfers[id] = x]
    BY DEF PaidOut
  <2> DEFINE g == [c.dva EXCEPT !.surplus = [@ EXCEPT ![t] = q]]
             l == [m EXCEPT !.dva = g]
  <2>3. [m EXCEPT !.dva.surplus[t] = @ + k] = l
    <3> HIDE DEF m, k, t
    <3> QED BY <2>1
  <2>4. l.dva = g /\ g.transfers = xs
    <3> HIDE DEF q, m
    <3> QED BY <1>3, <2>1 DEF DvaOK, DvaFields, ChainFields
  <2>5. d = [l EXCEPT !.dva = [l.dva EXCEPT !.transfers = [l.dva.transfers EXCEPT ![id] = x]]]
    BY <2>2, <2>3
  <2> HIDE DEF m, g, q, t
  <2>6. d = [l EXCEPT !.dva = [g EXCEPT !.transfers = ys]]
    BY <2>4, <2>5
  <2>7. e = [g EXCEPT !.transfers = ys]
    BY <1>3 DEF g, DvaOK, DvaFields
  <2> HIDE DEF e, ys
  <2> QED BY <2>6, <2>7
<1>5. k \in Nat /\ (m = c => k = n) /\ (m # c /\ to = Manager => k = n + n)
      /\ (m # c /\ to # Manager => k = 0)
  BY <1>1 DEF Kept
<1>6. /\ Part(old, t) = n /\ \A v \in Tokens \ {t} : Part(old, v) = 0
      /\ \A v : Part(x, v) = 0
  BY DEF Part
<1> HIDE DEF n, b, m, k, t
<1>7. \A v : /\ ys \in Seq(Transfers)
             /\ Due(ys, v) + Part(old, v) = Due(xs, v) + Part(x, v)
  <2> SUFFICES ASSUME NEW v
               PROVE  /\ ys \in Seq(Transfers)
                      /\ Due(ys, v) + Part(old, v) = Due(xs, v) + Part(x, v)
    OBVIOUS
  <2>1. ys = [xs EXCEPT ![id] = x]
    OBVIOUS
  <2> HIDE DEF ys, xs
  <2> QED BY <1>1, <2>1, DueChange DEF xs
<1>8. \A v : Due(ys, v) \in Nat /\ Due(xs, v) \in Nat
  <2> HIDE DEF ys, xs
  <2> QED BY <1>1, <1>7, DueType
<1>9. /\ Due(ys, t) + n = Due(xs, t)
      /\ \A v \in Tokens \ {t} : Due(ys, v) = Due(xs, v)
  <2> HIDE DEF ys, xs, old
  <2> QED BY <1>6, <1>7, <1>8
<1>10. q \in Nat /\ b[Manager] + c.dva.burned[t] = Due(ys, t) + q
  <2>1. b[Manager] \in Nat
    BY <1>2, <1>3
  <2> DEFINE held == bal[Manager]
             left == b[Manager]
             burned == c.dva.burned[t]
             kept == c.dva.surplus[t]
             before == Due(xs, t)
             after == Due(ys, t)
  <2>2. /\ held \in Nat /\ left \in Nat /\ burned \in Nat /\ kept \in Nat
        /\ before \in Nat /\ after \in Nat /\ n \in Nat /\ k \in Nat
        /\ held + burned = before + kept /\ after + n = before /\ q = kept + k
    BY <1>1, <1>3, <1>5, <1>8, <1>9, <2>1
  <2>3. \/ left = held /\ k = n
        \/ left = held + n /\ k = n + n
        \/ left = held - n /\ k = 0
    BY <1>2, <1>5
  <2> HIDE DEF held, left, burned, kept, before, after, q
  <2>4. q \in Nat /\ left + burned = after + q
    BY <2>2, <2>3
  <2> QED BY <2>4 DEF left, burned, after
<1>11. \A i \in DOMAIN ys : \E j \in DOMAIN xs : xs[j].token = ys[i].token
  BY <1>1
<1> HIDE DEF ys, q, xs, old
<1>12. /\ DvaOK(e) /\ e.deployed = c.dva.deployed /\ e.transfers = ys
       /\ e.burned = c.dva.burned /\ e.surplus[t] = q
       /\ \A v \in Tokens \ {t} : e.surplus[v] = c.dva.surplus[v]
  BY <1>1, <1>3, <1>7, <1>10 DEF DvaOK, DvaFields
<1> HIDE DEF e
<1>13. LedgerStep(c, d, t, b, f, e)
  BY <1>1, <1>2, <1>4, BooksStep
<1>14. LedgerMove(net, c, t, b, f, e)
  <2> HIDE DEF f
  <2>1. net = "fhevm" => c.suite[t].onchainID
    BY <1>1 DEF ChainInv, SaltInv, DeployedOnce, t, old, xs
  <2> QED BY <1>2, <1>3, <1>9, <1>10, <1>11, <1>12, <2>1 DEF LedgerMove, xs
<1> HIDE DEF f
<1> QED BY <1>1, <1>13, <1>14, OnLedger

\* A transfer that is approved, cancelled or rejected is one that waits.
LEMMA PendingTransfer ==
  ASSUME NEW net, NEW c, ChainInv(net, c), NEW o, Pending(c, o)
  PROVE  /\ o.id \in DOMAIN c.dva.transfers
         /\ c.dva.transfers[o.id] \in Transfers
         /\ c.dva.transfers[o.id].status = "PENDING"
         /\ c.dva.criteria \in SUBSET Roles
<1>1. c.dva.transfers \in Seq(Transfers) /\ c.dva.criteria \in SUBSET Roles
  BY DEF ChainInv, ChainOK, DvaOK
<1>2. o.id \in DOMAIN c.dva.transfers /\ c.dva.transfers[o.id].status = "PENDING"
  BY DEF Pending
<1>3. c.dva.transfers[o.id] \in Transfers
  BY <1>1, <1>2
<1> QED BY <1>1, <1>2, <1>3

\* A transfer whose criteria have changed loses its approvals and still waits.
LEMMA ResetSound ==
  ASSUME NEW net, NEW p, NEW c, ChainInv(net, c), NEW o, Pending(c, o),
         NEW d, d = Reset(c, o.id)
  PROVE  Sound(net, p, c, d)
<1> DEFINE t == c.dva.transfers[o.id]
           x == [t EXCEPT !.criteria = c.dva.criteria, !.approved = {}]
<1>1. o.id \in DOMAIN c.dva.transfers /\ t \in Transfers /\ c.dva.criteria \in SUBSET Roles
  BY PendingTransfer
<1>2. d = [c EXCEPT !.dva.transfers[o.id] = x]
  BY DEF Reset
<1>3. x \in Transfers /\ x.token = t.token /\ x.amount = t.amount /\ x.status = t.status
  <2> HIDE DEF t
  <2> QED BY <1>1 DEF Transfers
<1> HIDE DEF x
<1> QED BY <1>1, <1>2, <1>3, WaitingSound

\* A transfer that is cancelled or rejected pays its sender back.
LEMMA ReturnedSound ==
  ASSUME NEW net, NEW p, NEW c, ChainInv(net, c), NEW o, Pending(c, o),
         NEW status \in {"CANCELLED", "REJECTED"}, NEW d, d = Returned(c, o, status)
  PROVE  Sound(net, p, c, d)
<1> DEFINE t == c.dva.transfers[o.id]
           paid == PaidOut(c, t, t.from)
           x == [t EXCEPT !.status = status]
<1>1. o.id \in DOMAIN c.dva.transfers /\ t \in Transfers /\ t.status = "PENDING"
  BY PendingTransfer
<1>2. paid.dva.transfers = c.dva.transfers
  <2> DEFINE m == Moved(c, t.token, Manager, t.from, t.amount)
             k == Kept(c, m, t, t.from)
  <2>1. m.dva = c.dva /\ DOMAIN m = ChainFields
    BY DEF Moved, ChainInv, ChainOK, ChainFields
  <2>2. paid = [m EXCEPT !.dva.surplus[t.token] = @ + k]
    BY DEF PaidOut
  <2> HIDE DEF m, k, paid, t
  <2>3. paid.dva = [m.dva EXCEPT !.surplus[t.token] = @ + k]
    BY <2>1, <2>2 DEF ChainFields
  <2>4. DOMAIN c.dva = DvaFields
    BY DEF ChainInv, ChainOK, DvaOK
  <2> QED BY <2>1, <2>3, <2>4 DEF DvaFields
<1>3. d = [paid EXCEPT !.dva.transfers[o.id] = x]
  <2>1. d = [paid EXCEPT !.dva.transfers[o.id].status = status]
    BY DEF Returned
  <2> HIDE DEF paid
  <2> QED BY <1>2, <2>1
<1>4. x \in Transfers /\ x.token = t.token /\ x.status # "PENDING" /\ t.from \in Users
  <2> HIDE DEF t
  <2> QED BY <1>1 DEF Transfers
<1> DEFINE to == t.from
           id == o.id
<1>5. /\ d = [PaidOut(c, c.dva.transfers[id], to) EXCEPT !.dva.transfers[id] = x]
      /\ to \in Holders /\ id \in DOMAIN c.dva.transfers
      /\ c.dva.transfers[id].status = "PENDING"
      /\ x \in Transfers /\ x.token = c.dva.transfers[id].token /\ x.status # "PENDING"
  BY <1>1, <1>3, <1>4, ManagerApart
<1> HIDE DEF x, to, id, t, paid
<1> QED BY <1>5, PaidSound, ZenonT(30)

\* An approval is recorded, or the last of them pays the receiver.
LEMMA ApprovalSound ==
  ASSUME NEW net, NEW p, NEW c, ChainInv(net, c), NEW o, Approvable(c, o),
         NEW d, d = AfterApproval(c, o)
  PROVE  Sound(net, p, c, d)
<1> DEFINE t == c.dva.transfers[o.id]
           given == t.approved \cup {IF "recipient" \in Lacking(c, o) THEN "recipient" ELSE "agent"}
           last == [t EXCEPT !.approved = given, !.status = "COMPLETED"]
           more == [t EXCEPT !.approved = given]
<1>1. Pending(c, o)
  BY DEF Approvable
<1>2. o.id \in DOMAIN c.dva.transfers /\ t \in Transfers /\ t.status = "PENDING"
  BY <1>1, PendingTransfer
<1>3. /\ given \in SUBSET Roles /\ t.to \in Holders
      /\ last \in Transfers /\ last.token = t.token /\ last.status # "PENDING"
      /\ more \in Transfers /\ more.token = t.token /\ more.amount = t.amount
      /\ more.status = t.status
  <2>1. given \in SUBSET Roles
    BY <1>2 DEF Transfers, Roles
  <2> HIDE DEF t, given
  <2> QED BY <1>2, <2>1 DEF Transfers
<1>4. CASE t.criteria # c.dva.criteria
  <2>1. d = Reset(c, o.id)
    BY <1>4 DEF AfterApproval
  <2> QED BY <1>1, <2>1, ResetSound
<1>5. CASE t.criteria = c.dva.criteria /\ Completes(c, o)
  <2> DEFINE k == o.id
             x == c.dva.transfers[k]
             to == t.to
  <2>1. d = [PaidOut(c, x, to) EXCEPT !.dva.transfers[k] = last]
    BY <1>5 DEF AfterApproval
  <2>2. /\ k \in DOMAIN c.dva.transfers /\ c.dva.transfers[k].status = "PENDING" /\ to \in Holders
        /\ last \in Transfers /\ last.token = c.dva.transfers[k].token /\ last.status # "PENDING"
    BY <1>2, <1>3
  <2> HIDE DEF k, to, last
  <2> QED BY <2>1, <2>2, PaidSound
<1>6. CASE t.criteria = c.dva.criteria /\ ~Completes(c, o)
  <2>1. d = [c EXCEPT !.dva.transfers[o.id].approved = given]
    BY <1>6 DEF AfterApproval
  <2> HIDE DEF given
  <2>2. d = [c EXCEPT !.dva.transfers[o.id] = more]
    BY <2>1
  <2> HIDE DEF more
  <2> QED BY <1>2, <1>3, <2>2, WaitingSound
<1> QED BY <1>4, <1>5, <1>6

\* What two transactions keep one after the other, they keep together.
LEMMA SoundTwice ==
  ASSUME NEW net, NEW p, NEW c, NEW d, NEW e, Sound(net, p, c, d), Sound(net, p, d, e)
  PROVE  Sound(net, p, c, e)
<1>1. \A t \in Tokens : KeepsSuite(c.suite[t], e.suite[t])
  BY DEF Sound, Keeps, KeepsSuite
<1>2. KeepsRest(c, e)
  BY DEF Sound, Keeps, KeepsRest
<1> QED BY <1>1, <1>2 DEF Sound, Keeps

\* The approvals of a signer, or of two, and the ends of a transfer.
LEMMA TransferSound ==
  ASSUME NEW net, NEW p, NEW c, ChainInv(net, c), NEW o, OpOK(net, p, o),
         NEW d, d = StepOf(c, o).after, StepOf(c, o).accepts,
         o.do \in {"approveTransfer", "delegateApprove", "cancelTransfer", "rejectTransfer"}
  PROVE  Sound(net, p, c, d)
<1>1. CASE o.do = "approveTransfer"
  <2>1. Approvable(c, o) /\ d = AfterApproval(c, o)
    BY <1>1 DEF StepOf, TokenStep, TokenSteps, CmdTransferApprove, Step
  <2> QED BY <2>1, ApprovalSound
<1>2. CASE o.do = "delegateApprove"
  <2> DEFINE q == SignedBy(o, 1)
             r == SignedBy(o, 2)
             first == AfterApproval(c, q)
  <2>1. AllApprovable(c, o) /\ d = AfterApprovals(c, o)
    BY <1>2 DEF StepOf, TokenStep, TokenSteps, CmdDelegateApprove, Step
  <2>2. Approvable(c, q)
    BY <2>1 DEF AllApprovable
  <2>3. CASE ~GoesOn(c, o)
    <3>1. d = first
      BY <2>1, <2>3 DEF AfterApprovals
    <3> HIDE DEF q, r
    <3> QED BY <2>2, <3>1, ApprovalSound
  <2>4. CASE GoesOn(c, o)
    <3>1. Approvable(first, r) /\ d = AfterApproval(first, r)
      BY <2>1, <2>4 DEF AfterApprovals, AllApprovable
    <3> HIDE DEF q, r
    <3>2. Sound(net, p, c, first)
      BY <2>2, ApprovalSound
    <3> HIDE DEF first
    <3>3. ChainInv(net, first)
      BY <3>2 DEF Sound
    <3>4. Sound(net, p, first, d)
      BY <3>1, <3>3, ApprovalSound
    <3> QED BY <3>2, <3>4, SoundTwice
  <2> QED BY <2>3, <2>4
<1>3. CASE o.do = "cancelTransfer"
  <2>1. Pending(c, o) /\ d = Returned(c, o, "CANCELLED")
    BY <1>3 DEF StepOf, TokenStep, TokenSteps, CancelTransfer, Step
  <2> QED BY <2>1, ReturnedSound
<1>4. CASE o.do = "rejectTransfer"
  <2>1. /\ Pending(c, o)
        /\ d = Reset(c, o.id) \/ d = Returned(c, o, "REJECTED")
    BY <1>4 DEF StepOf, TokenStep, TokenSteps, RejectTransfer, Step
  <2> QED BY <2>1, ResetSound, ReturnedSound
<1> QED BY <1>1, <1>2, <1>3, <1>4

\* Every transaction of a step of a script is sound.
LEMMA StepSound ==
  ASSUME NEW net, NEW p, NEW c, ChainInv(net, c), NEW o, OpOK(net, p, o), o.do # "save",
         StepOf(c, o).accepts
  PROVE  Sound(net, p, c, StepOf(c, o).after)
<1> DEFINE Settings == {"addClaimTopic", "addTrustedIssuer", "pause", "unpause",
                       "unpauseUnchecked", "approve", "increaseAllowance", "decreaseAllowance"}
           AgentSteps == {"addAgent", "removeAgent"}
           Registrations == {"registerIdentity", "registerManager"}
           Supplies == {"mintUnchecked", "mint", "transfer"}
           Freezes == {"freeze", "unfreeze"}
           Factories == {"deploy", "useVersion", "addTokenFactory", "deployIssuer",
                         "createTokenIdentity"}
           ModuleSteps == {"deployModule", "setLimit", "batchAllow", "setSupplyLimit", "addExchangeID",
                           "removeExchangeID", "setExchangeLimit"}
           ManagerSteps == {"deployManager", "setApprovalCriteria"}
           Endings == {"approveTransfer", "delegateApprove", "cancelTransfer", "rejectTransfer"}
           ReadOnly == {"startSuite", "checkIdFactory", "checkIdentity", "checkCompliance"}
           d == StepOf(c, o).after
<1>1. d = StepOf(c, o).after
  OBVIOUS
<1> HIDE DEF d
<1>2. CASE o.do \in Settings
  BY <1>1, <1>2, SettingsSound
<1>3. CASE o.do \in ByHand
  BY <1>1, <1>3, ByHandSound
<1>4. CASE o.do \in AgentSteps
  BY <1>1, <1>4, RolesSound
<1>5. CASE o.do \in Registrations
  BY <1>1, <1>5, RegistrationSound
<1>6. CASE o.do = "addModule"
  BY <1>1, <1>6, AddModuleSound
<1>7. CASE o.do \in Supplies
  BY <1>1, <1>7, SupplySound
<1>8. CASE o.do \in Freezes
  BY <1>1, <1>8, FrozenSound
<1>19. CASE o.do = "burn"
  BY <1>1, <1>19, BurnSound
<1>9. CASE o.do = "deployTREXSuite"
  BY <1>1, <1>9, DeployTREXSuiteSound
<1>10. CASE o.do \in Factories
  BY <1>1, <1>10, FactorySound
<1>11. CASE o.do \in OnIdentity
  BY <1>1, <1>11, IdentitySound
<1>12. CASE o.do \in ModuleSteps
  BY <1>1, <1>12, ModuleSound
<1>13. CASE o.do \in ManagerSteps
  BY <1>1, <1>13, ManagerSound
<1>14. CASE o.do = "initiate"
  BY <1>1, <1>14, InitiateSound
<1>15. CASE o.do \in Endings
  BY <1>1, <1>15, TransferSound
<1>16. CASE o.do \in ReadOnly
  <2>1. ~StepOf(c, o).accepts
    BY <1>16 DEF StepOf, SuiteStep, TokenSteps, StartSuite, CheckIdFactory, CheckIdentity,
                 CheckCompliance, Check, Step
  <2> QED BY <2>1
<1>17. o.do \in OnToken \cup OnIdentity \cup TokenSteps \cup Others
  BY DEF OpOK
<1>18. \/ o.do \in Settings \/ o.do \in ByHand \/ o.do \in AgentSteps
       \/ o.do \in Registrations \/ o.do = "addModule" \/ o.do \in Supplies \/ o.do \in Freezes
       \/ o.do = "burn" \/ o.do = "deployTREXSuite" \/ o.do \in Factories \/ o.do \in OnIdentity
       \/ o.do \in ModuleSteps \/ o.do \in ManagerSteps \/ o.do = "initiate"
       \/ o.do \in Endings \/ o.do \in ReadOnly
  BY <1>17 DEF OnToken, TokenSteps, Others, ByHand
<1> HIDE DEF Settings, AgentSteps, Registrations, Supplies, Freezes, Factories, ModuleSteps,
             ManagerSteps, Endings, ReadOnly
<1> QED BY <1>2, <1>3, <1>4, <1>5, <1>6, <1>7, <1>8, <1>9, <1>10, <1>11, <1>12, <1>13, <1>14,
           <1>15, <1>16, <1>18, <1>19

-----------------------------------------------------------------------------
(***************************************************************************)
(* The history: what an entry rests on, and who leaves it.                 *)
(***************************************************************************)
\* What a step leaves that later entries of the history rest on.
Fact(o) ==
  CASE o.do = "deploy" -> <<"infra", o.what, o.by>>
    [] o.do = "useVersion" -> <<"version", Nobody, Nobody>>
    [] o.do = "addTokenFactory" -> <<"linked", Nobody, Nobody>>
    [] o.do = "deployIssuer" -> <<"issuer", o.issuer, Nobody>>
    [] o.do = "deployIdentity" -> <<"identity", o.identity, Nobody>>
    [] o.do = "deployTREXSuite" -> <<"token", o.token, Nobody>>
    [] o.do = "deployManager" -> <<"manager", Nobody, Nobody>>
    [] o.do = "registerManager" -> <<"registered", Nobody, Nobody>>
    [] OTHER -> <<"nothing", Nobody, Nobody>>

\* Whether the chain has it.
Holds(c, f) ==
  CASE f[1] = "infra" -> c.infra[f[2]] = f[3]
    [] f[1] = "version" -> c.version
    [] f[1] = "linked" -> c.linked
    [] f[1] = "issuer" -> f[2] \in c.issuers
    [] f[1] = "identity" -> c.identity[f[2]].deployed
    [] f[1] = "token" -> c.suite[f[2]].onchainID
    [] f[1] = "manager" -> c.dva.deployed
    [] f[1] = "registered" -> \E t \in Tokens : c.suite[t].entry[Manager] # NoEntry
    [] OTHER -> TRUE

\* What an entry of the history rests on; by is who deployed the factory.
Needs(kind, at, by) ==
  CASE kind = "IdFactory" ->
         {<<"infra", x, by>> : x \in {"Identity", "ImplementationAuthority", "IdFactory"}}
    [] kind = "TREXFactory" ->
         {<<"infra", x, by>> : x \in Infra}
           \cup {<<"version", Nobody, Nobody>>, <<"linked", Nobody, Nobody>>}
    [] kind = "Token" -> {<<"token", at, Nobody>>}
    [] kind = "ClaimIssuer" -> {<<"issuer", at, Nobody>>}
    [] kind = "Identity" -> {<<"identity", at, Nobody>>}
    [] kind = Manager -> {<<"manager", Nobody, Nobody>>, <<"registered", Nobody, Nobody>>}

\* The facts that stay.
FactOK(f) ==
  /\ f[1] = "infra" => f[2] \in Infra /\ f[3] # Nobody
  /\ f[1] = "identity" => f[2] \in Identities
  /\ f[1] = "token" => f[2] \in Tokens

\* What a history entry rests on never goes away.
LEMMA FactsStay ==
  ASSUME NEW c, NEW d, Keeps(c, d), NEW f, FactOK(f), Holds(c, f)
  PROVE  Holds(d, f)
<1>1. CASE f[1] = "registered"
  <2>1. PICK t \in Tokens : c.suite[t].entry[Manager] # NoEntry
    BY <1>1 DEF Holds
  <2>2. d.suite[t].entry[Manager] # NoEntry
    BY <2>1, ManagerApart DEF Keeps, KeepsSuite
  <2> QED BY <1>1, <2>2 DEF Holds
<1>2. CASE f[1] # "registered"
  BY <1>2 DEF Keeps, KeepsRest, KeepsSuite, FactOK, Holds
<1> QED BY <1>1, <1>2

\* An entry rests on such facts only.
LEMMA NeedsOK ==
  ASSUME NEW net, NEW kind, NEW at, Savable(net, kind, at), NEW by \in Wallets,
         NEW f \in Needs(kind, at, by)
  PROVE  FactOK(f)
<1>1. by # Nobody
  BY WalletsAssumption
<1>2. CASE kind = "IdFactory"
  <2>1. f[1] = "infra" /\ f[2] \in Infra /\ f[3] = by
    BY <1>2 DEF Needs, Infra, Manager
  <2> QED BY <1>1, <2>1 DEF FactOK
<1>3. CASE kind = "TREXFactory"
  <2>1. \/ f[1] = "infra" /\ f[2] \in Infra /\ f[3] = by
        \/ f[1] = "version" \/ f[1] = "linked"
    BY <1>3 DEF Needs, Manager
  <2> QED BY <1>1, <2>1 DEF FactOK
<1>4. CASE kind = "Token"
  <2>1. f[1] = "token" /\ f[2] \in Tokens
    BY <1>4 DEF Needs, Savable, Manager
  <2> QED BY <2>1 DEF FactOK
<1>5. CASE kind = "ClaimIssuer"
  <2>1. f[1] = "issuer"
    BY <1>5 DEF Needs, Manager
  <2> QED BY <2>1 DEF FactOK
<1>6. CASE kind = "Identity"
  <2>1. f[1] = "identity" /\ f[2] \in Identities
    BY <1>6 DEF Needs, Savable, Manager
  <2> QED BY <2>1 DEF FactOK
<1>7. CASE kind = Manager
  <2>1. f[1] = "manager" \/ f[1] = "registered"
    BY <1>7 DEF Needs, Manager
  <2> QED BY <2>1 DEF FactOK
<1> QED BY <1>2, <1>3, <1>4, <1>5, <1>6, <1>7 DEF Savable

\* The steps of a session leave such facts only.
LEMMA FactIsOK ==
  ASSUME NEW net, NEW p, NEW o, OpOK(net, p, o)
  PROVE  FactOK(Fact(o))
BY WalletsAssumption DEF OpOK, OnToken, OnIdentity, Fact, FactOK

-----------------------------------------------------------------------------
\* The steps of a script, and what its entries of the history rest on: facts that are
\* given, or that earlier steps of it leave.
IsScript(net, p, s) == \E S : s \in Seq(S) /\ \A o \in S : OpOK(net, p, o)

\* An earlier step of the script leaves f; some step does.
Made(s, k, f) == \E j \in DOMAIN s : j < k /\ Fact(s[j]) = f
Makes(s, f) == \E j \in DOMAIN s : Fact(s[j]) = f
RestsOn(F, s) ==
  \A k \in DOMAIN s :
    s[k].do = "save" =>
      \E by \in Wallets : \A f \in Needs(s[k].kind, s[k].at, by) : f \in F \/ Made(s, k, f)
GoodAfter(net, p, F, s) == IsScript(net, p, s) /\ RestsOn(F, s)
Good(net, p, s) == GoodAfter(net, p, {}, s)

\* The empty script saves nothing.
LEMMA GoodEmpty ==
  ASSUME NEW net, NEW p
  PROVE  Good(net, p, <<>>)
<1>1. <<>> \in Seq({}) /\ DOMAIN <<>> = {}
  OBVIOUS
<1>2. IsScript(net, p, <<>>)
  BY <1>1, Zenon DEF IsScript
<1>3. RestsOn({}, <<>>)
  BY <1>1, Zenon DEF RestsOn
<1> QED BY <1>2, <1>3 DEF Good, GoodAfter

\* A script that saves nothing.
LEMMA GoodPlain ==
  ASSUME NEW net, NEW p, NEW S, NEW s \in Seq(S),
         \A o \in S : OpOK(net, p, o) /\ o.do # "save"
  PROVE  Good(net, p, s)
<1>1. \A k \in DOMAIN s : s[k] \in S
  OBVIOUS
<1> QED BY <1>1 DEF Good, GoodAfter, IsScript, RestsOn

\* The steps of two scripts, one after the other.
LEMMA ScriptIndex ==
  ASSUME NEW S, NEW s \in Seq(S), NEW T, NEW t \in Seq(T)
  PROVE  /\ Len(s) \in Nat /\ Len(t) \in Nat
         /\ DOMAIN s = 1 .. Len(s) /\ DOMAIN t = 1 .. Len(t)
         /\ DOMAIN (s \o t) = 1 .. (Len(s) + Len(t))
         /\ \A k \in 1 .. Len(s) : (s \o t)[k] = s[k]
         /\ \A k \in 1 .. Len(t) : (s \o t)[Len(s) + k] = t[k]
         /\ s \o t \in Seq(S \cup T)
<1>1. s \in Seq(S \cup T) /\ t \in Seq(S \cup T)
  OBVIOUS
<1> QED BY <1>1

\* Two scripts leave what each of them leaves.
LEMMA MakesConcat ==
  ASSUME NEW net, NEW p, NEW s, NEW t, IsScript(net, p, s), IsScript(net, p, t), NEW f,
         Makes(s, f) \/ Makes(t, f)
  PROVE  Makes(s \o t, f)
<1>1. PICK S : s \in Seq(S)
  BY DEF IsScript
<1>2. PICK T : t \in Seq(T)
  BY DEF IsScript
<1> DEFINE r == s \o t
           m == Len(s)
           n == Len(t)
<1>3. /\ m \in Nat /\ n \in Nat /\ DOMAIN s = 1 .. m /\ DOMAIN t = 1 .. n
      /\ DOMAIN r = 1 .. (m + n)
      /\ \A k \in 1 .. m : r[k] = s[k]
      /\ \A k \in 1 .. n : r[m + k] = t[k]
  BY <1>1, <1>2, ScriptIndex
<1> HIDE DEF r, m, n
<1>4. CASE Makes(s, f)
  <2>1. PICK j \in DOMAIN s : Fact(s[j]) = f
    BY <1>4 DEF Makes
  <2>2. j \in DOMAIN r /\ r[j] = s[j]
    BY <1>3
  <2> QED BY <2>1, <2>2 DEF Makes, r
<1>5. CASE Makes(t, f)
  <2>1. PICK j \in DOMAIN t : Fact(t[j]) = f
    BY <1>5 DEF Makes
  <2>2. m + j \in DOMAIN r /\ r[m + j] = t[j]
    BY <1>3
  <2> QED BY <2>1, <2>2 DEF Makes, r
<1> QED BY <1>4, <1>5

\* A script may rest on what those before it leave.
LEMMA ConcatAfter ==
  ASSUME NEW net, NEW p, NEW F, NEW G, NEW s, NEW t,
         GoodAfter(net, p, F, s), GoodAfter(net, p, G, t), \A f \in G : f \in F \/ Makes(s, f)
  PROVE  GoodAfter(net, p, F, s \o t)
<1>1. PICK S : s \in Seq(S) /\ \A o \in S : OpOK(net, p, o)
  BY DEF GoodAfter, IsScript
<1>2. PICK T : t \in Seq(T) /\ \A o \in T : OpOK(net, p, o)
  BY DEF GoodAfter, IsScript
<1> DEFINE r == s \o t
           m == Len(s)
           n == Len(t)
<1>3. /\ m \in Nat /\ n \in Nat /\ DOMAIN s = 1 .. m /\ DOMAIN t = 1 .. n
      /\ DOMAIN r = 1 .. (m + n)
      /\ \A k \in 1 .. m : r[k] = s[k]
      /\ \A k \in 1 .. n : r[m + k] = t[k]
      /\ r \in Seq(S \cup T)
  BY <1>1, <1>2, ScriptIndex
<1>4. IsScript(net, p, r)
  <2>1. \A o \in S \cup T : OpOK(net, p, o)
    BY <1>1, <1>2
  <2> HIDE DEF r
  <2> QED BY <1>3, <2>1 DEF IsScript
<1>5. ASSUME NEW k \in DOMAIN r, r[k].do = "save"
      PROVE  \E by \in Wallets : \A f \in Needs(r[k].kind, r[k].at, by) : f \in F \/ Made(r, k, f)
  <2> HIDE DEF r, m, n
  <2>1. CASE k \in 1 .. m
    <3>1. r[k] = s[k]
      BY <1>3, <2>1
    <3>2. PICK by \in Wallets :
            \A f \in Needs(s[k].kind, s[k].at, by) : f \in F \/ Made(s, k, f)
      BY <1>3, <1>5, <2>1, <3>1 DEF GoodAfter, RestsOn
    <3>3. ASSUME NEW f, Made(s, k, f) PROVE Made(r, k, f)
      <4>1. PICK j \in DOMAIN s : j < k /\ Fact(s[j]) = f
        BY <3>3 DEF Made
      <4>2. j \in DOMAIN r /\ r[j] = s[j]
        BY <1>3
      <4> QED BY <4>1, <4>2 DEF Made
    <3> QED BY <3>1, <3>2, <3>3
  <2>2. CASE k \notin 1 .. m
    <3> DEFINE i == k - m
    <3>1. i \in 1 .. n /\ k = m + i
      BY <1>3, <2>2
    <3>2. r[k] = t[i]
      BY <1>3, <3>1
    <3>3. PICK by \in Wallets :
            \A f \in Needs(t[i].kind, t[i].at, by) : f \in G \/ Made(t, i, f)
      BY <1>3, <1>5, <3>1, <3>2 DEF GoodAfter, RestsOn
    <3>4. ASSUME NEW f, Made(t, i, f) PROVE Made(r, k, f)
      <4>1. PICK j \in DOMAIN t : j < i /\ Fact(t[j]) = f
        BY <3>4 DEF Made
      <4>2. m + j \in DOMAIN r /\ r[m + j] = t[j] /\ m + j < k
        BY <1>3, <3>1, <4>1
      <4> QED BY <4>1, <4>2 DEF Made
    <3>5. ASSUME NEW f, Makes(s, f) PROVE Made(r, k, f)
      <4>1. PICK j \in DOMAIN s : Fact(s[j]) = f
        BY <3>5 DEF Makes
      <4>2. j \in DOMAIN r /\ r[j] = s[j] /\ j < k
        BY <1>3, <3>1
      <4> QED BY <4>1, <4>2 DEF Made
    <3> HIDE DEF i
    <3> QED BY <3>2, <3>3, <3>4, <3>5
  <2> QED BY <2>1, <2>2
<1>6. RestsOn(F, r)
  <2> HIDE DEF r
  <2> QED BY <1>5 DEF RestsOn
<1> QED BY <1>4, <1>6 DEF GoodAfter

\* Two scripts that rest on nothing.
LEMMA GoodConcat ==
  ASSUME NEW net, NEW p, NEW s, NEW t, Good(net, p, s), Good(net, p, t)
  PROVE  Good(net, p, s \o t)
BY ConcatAfter DEF Good

\* As many scripts as there are, one after the other.
LEMMA GoodFlatten ==
  ASSUME NEW net, NEW p, NEW S, NEW ss \in Seq(S), \A k \in DOMAIN ss : Good(net, p, ss[k])
  PROVE  Good(net, p, FlattenSeq(ss))
<1> DEFINE n == Len(ss)
           Body(g, i) == IF i = 1 THEN ss[i] ELSE g[i - 1] \o ss[i]
           Is(g, m) == g = [i \in 1 .. m |-> Body(g, i)]
           flatten == CHOOSE g : Is(g, n)
<1>1. n \in Nat /\ DOMAIN ss = 1 .. n
  OBVIOUS
<1>2. CASE n = 0
  <2>1. ss = <<>> /\ FlattenSeq(ss) = ss
    BY <1>2 DEF FlattenSeq
  <2> QED BY <2>1, GoodEmpty
<1>3. CASE n # 0
  <2>1. FlattenSeq(ss) = flatten[n]
    BY <1>3 DEF FlattenSeq
  <2>2. \E g : Is(g, n)
    <3> DEFINE Some == {m \in 0 .. n : \E g : Is(g, m)}
    <3>1. 0 \in Some
      <4>1. Is([i \in 1 .. 0 |-> 0], 0)
        OBVIOUS
      <4> HIDE DEF Is
      <4> QED BY <1>1, <4>1
    <3>2. ASSUME NEW m \in 0 .. n, m # n, m \in Some
          PROVE  m + 1 \in Some
      <4>0. m \in Nat /\ n \in Nat /\ m # n
        <5> HIDE DEF Some, n
        <5> QED BY <1>1, <3>2
      <4>6. m + 1 \in 0 .. n
        <5> HIDE DEF Some, n
        <5> QED BY <4>0
      <4>1. PICK g : Is(g, m)
        BY <3>2
      <4> DEFINE h == [i \in 1 .. m + 1 |-> IF i = m + 1 THEN Body(g, i) ELSE g[i]]
      <4>2. /\ \A i \in 1 .. m : h[i] = g[i]
            /\ h[m + 1] = Body(g, m + 1)
            /\ m \in Nat
        <5> HIDE DEF Body, Is
        <5>1. m \in Nat
          BY <1>1
        <5> QED BY <5>1
      <4>3. \A i \in 1 .. m : g[i] = Body(g, i)
        BY <4>1
      <4>4. ASSUME NEW i \in 1 .. m + 1 PROVE h[i] = Body(h, i)
        <5> HIDE DEF h
        <5>1. CASE i = m + 1
          <6>1. i # 1 => i - 1 \in 1 .. m
            BY <4>2, <5>1
          <6> QED BY <4>2, <5>1, <6>1
        <5>2. CASE i # m + 1
          <6>1. i \in 1 .. m /\ (i # 1 => i - 1 \in 1 .. m)
            BY <4>2, <5>2
          <6> QED BY <4>2, <4>3, <6>1
        <5> QED BY <5>1, <5>2
      <4>5. Is(h, m + 1)
        <5> HIDE DEF Body
        <5>1. h = [i \in 1 .. m + 1 |-> h[i]]
          OBVIOUS
        <5> HIDE DEF h
        <5> QED BY <4>4, <5>1
      <4> HIDE DEF Is, h
      <4> QED BY <4>5, <4>6
    <3> HIDE DEF Some, Is
    <3>3. Some \in SUBSET (0 .. n)
      BY DEF Some
    <3>4. Some = 0 .. n
      BY <1>1, <3>1, <3>2, <3>3, InductionUpTo
    <3> QED BY <1>1, <3>4 DEF Some
  <2>3. Is(flatten, n)
    <3> HIDE DEF Is
    <3> QED BY <2>2
  <2> HIDE DEF flatten
  <2>4. \A i \in 1 .. n : flatten[i] = Body(flatten, i)
    BY <2>3
  <2> DEFINE Fine == {m \in 0 .. n : m # 0 => Good(net, p, flatten[m])}
  <2>5. 0 \in Fine
    BY <1>1
  <2>6. ASSUME NEW m \in 0 .. n, m # n, m \in Fine
        PROVE  m + 1 \in Fine
    <3>1. m + 1 \in 1 .. n /\ m + 1 \in 0 .. n
      BY <1>1, <2>6
    <3>2. Good(net, p, ss[m + 1])
      BY <1>1, <3>1
    <3>3. CASE m = 0
      BY <2>4, <3>1, <3>2, <3>3
    <3>4. CASE m # 0
      <4>1. flatten[m + 1] = flatten[m] \o ss[m + 1]
        <5>1. m + 1 # 1 /\ (m + 1) - 1 = m
          BY <3>4
        <5> QED BY <2>4, <3>1, <5>1
      <4>2. Good(net, p, flatten[m])
        BY <2>6, <3>4
      <4> QED BY <3>1, <3>2, <4>1, <4>2, GoodConcat
    <3> QED BY <3>3, <3>4
  <2> HIDE DEF Fine
  <2>7. Fine \in SUBSET (0 .. n)
    BY DEF Fine
  <2>8. Fine = 0 .. n
    BY <1>1, <2>5, <2>6, <2>7, InductionUpTo
  <2> QED BY <1>1, <1>3, <2>1, <2>8 DEF Fine
<1> QED BY <1>2, <1>3

-----------------------------------------------------------------------------
(***************************************************************************)
(* Scripts of factories and of what a setup needs.                         *)
(***************************************************************************)
\* A function on 1..n is a list.
LEMMA ListType ==
  ASSUME NEW n \in Nat, NEW S, NEW f \in [1 .. n -> S]
  PROVE  f \in Seq(S) /\ Len(f) = n /\ DOMAIN f = 1 .. n
OBVIOUS

\* A finite set is listed by a sequence of its elements.
LEMMA SetToSeqType ==
  ASSUME NEW S, IsFiniteSet(S)
  PROVE  SetToSeq(S) \in Seq(S)
<1> DEFINE n == Cardinality(S)
           Lists == [1 .. n -> S]
<1>1. n \in Nat /\ ExistsBijection(1 .. n, S)
  BY FS_CardinalityType
<1>2. \E f \in Lists : IsInjective(f)
  BY <1>1 DEF ExistsBijection, Bijection, Injection
<1>3. SetToSeq(S) \in Lists
  <2> HIDE DEF Lists
  <2>1. SetToSeq(S) = CHOOSE f \in Lists : IsInjective(f)
    BY DEF SetToSeq, Lists
  <2> QED BY <1>2, <2>1
<1> QED BY <1>1, <1>3

\* The step that saves an entry.
LEMMA SaveOK ==
  ASSUME NEW net, NEW p, NEW kind, NEW at, Savable(net, kind, at)
  PROVE  /\ OpOK(net, p, save(kind, at))
         /\ save(kind, at).do = "save" /\ save(kind, at).kind = kind /\ save(kind, at).at = at
BY DEF OpOK, save, OnToken, OnIdentity, OnUser, ByHand, TokenSteps

\* A step and then its entry.
LEMMA GoodSaved ==
  ASSUME NEW net, NEW p, NEW F, NEW o, OpOK(net, p, o), o.do # "save",
         NEW kind, NEW at, Savable(net, kind, at), NEW by \in Wallets,
         \A f \in Needs(kind, at, by) : f \in F \/ f = Fact(o)
  PROVE  GoodAfter(net, p, F, <<o, save(kind, at)>>)
<1> DEFINE e == save(kind, at)
           s == <<o, e>>
<1>1. /\ OpOK(net, p, e) /\ e.do = "save" /\ e.kind = kind /\ e.at = at
  BY SaveOK
<1> HIDE DEF e
<1>2. s \in Seq({o, e}) /\ DOMAIN s = {1, 2} /\ s[1] = o /\ s[2] = e
  OBVIOUS
<1> HIDE DEF s
<1>3. IsScript(net, p, s)
  BY <1>1, <1>2 DEF IsScript
<1>4. RestsOn(F, s)
  <2>1. Made(s, 2, Fact(o))
    BY <1>2 DEF Made
  <2>2. \A f \in Needs(kind, at, by) : f \in F \/ Made(s, 2, f)
    BY <2>1
  <2> QED BY <1>1, <1>2, <2>2 DEF RestsOn
<1> QED BY <1>3, <1>4 DEF GoodAfter, s, e

\* A step that saves nothing is a script.
LEMMA GoodOne ==
  ASSUME NEW net, NEW p, NEW o, OpOK(net, p, o), o.do # "save"
  PROVE  Good(net, p, <<o>>) /\ <<o>> # <<>> /\ Makes(<<o>>, Fact(o))
<1> DEFINE S == {o}
           s == <<o>>
<1>1. s \in Seq(S) /\ s # <<>> /\ 1 \in DOMAIN s /\ s[1] = o
  OBVIOUS
<1>2. \A x \in S : OpOK(net, p, x) /\ x.do # "save"
  OBVIOUS
<1> HIDE DEF S, s
<1>3. Good(net, p, s)
  BY <1>1, <1>2, GoodPlain
<1>4. Makes(s, Fact(o))
  BY <1>1 DEF Makes
<1> QED BY <1>1, <1>3, <1>4 DEF s

\* A script is not empty when a part of it is not.
LEMMA ConcatNonempty ==
  ASSUME NEW net, NEW p, NEW s, NEW t, IsScript(net, p, s), IsScript(net, p, t),
         s # <<>> \/ t # <<>>
  PROVE  s \o t # <<>>
<1>1. PICK S : s \in Seq(S)
  BY DEF IsScript
<1>2. PICK T : t \in Seq(T)
  BY DEF IsScript
<1>3. s \in Seq(S \cup T) /\ t \in Seq(S \cup T)
  BY <1>1, <1>2
<1> QED BY <1>3

-----------------------------------------------------------------------------
\* A step that deploys a contract of the infrastructure.
LEMMA DeployOK ==
  ASSUME NEW net, NEW p, NEW what \in Infra, NEW by \in Wallets
  PROVE  /\ OpOK(net, p, deploy(what, by)) /\ deploy(what, by).do = "deploy"
         /\ Fact(deploy(what, by)) = <<"infra", what, by>>
BY DEF OpOK, deploy, Fact, OnToken, OnIdentity, OnUser, ByHand, TokenSteps, Others

\* The facts that the deployments of S by one wallet leave.
Deployed(S, by) == {<<"infra", x, by>> : x \in S}

\* newIdFactory saves once its three contracts are deployed.
LEMMA IdFactoryGood ==
  ASSUME NEW net, NEW p, NEW by \in Wallets
  PROVE  /\ Good(net, p, DeployNewIdFactory(by))
         /\ \A f \in Deployed({"Identity", "ImplementationAuthority", "IdFactory"}, by) :
              Makes(DeployNewIdFactory(by), f)
<1> DEFINE a == deploy("Identity", by)
           b == deploy("ImplementationAuthority", by)
           d == deploy("IdFactory", by)
           e == save("IdFactory", "IdFactory")
           s == <<a, b, d, e>>
<1>1. /\ OpOK(net, p, a) /\ a.do # "save" /\ Fact(a) = <<"infra", "Identity", by>>
      /\ OpOK(net, p, b) /\ b.do # "save" /\ Fact(b) = <<"infra", "ImplementationAuthority", by>>
      /\ OpOK(net, p, d) /\ d.do # "save" /\ Fact(d) = <<"infra", "IdFactory", by>>
  BY DeployOK DEF Infra
<1>2. OpOK(net, p, e) /\ e.kind = "IdFactory" /\ e.at = "IdFactory"
  BY SaveOK DEF Savable
<1> HIDE DEF a, b, d, e
<1>3. /\ s \in Seq({a, b, d, e}) /\ DOMAIN s = 1 .. 4
      /\ s[1] = a /\ s[2] = b /\ s[3] = d /\ s[4] = e
  OBVIOUS
<1> HIDE DEF s
<1>4. IsScript(net, p, s)
  BY <1>1, <1>2, <1>3 DEF IsScript
<1>5. \A f \in Deployed({"Identity", "ImplementationAuthority", "IdFactory"}, by) : Made(s, 4, f)
  <2>1. 1 \in DOMAIN s /\ 2 \in DOMAIN s /\ 3 \in DOMAIN s /\ 1 < 4 /\ 2 < 4 /\ 3 < 4
    BY <1>3
  <2>2. /\ Made(s, 4, <<"infra", "Identity", by>>)
        /\ Made(s, 4, <<"infra", "ImplementationAuthority", by>>)
        /\ Made(s, 4, <<"infra", "IdFactory", by>>)
    BY <1>1, <1>3, <2>1 DEF Made
  <2> QED BY <2>2 DEF Deployed
<1>6. RestsOn({}, s)
  <2>1. Needs(e.kind, e.at, by) = Deployed({"Identity", "ImplementationAuthority", "IdFactory"}, by)
    BY <1>2 DEF Needs, Deployed, Manager
  <2>2. ASSUME NEW k \in DOMAIN s, s[k].do = "save"
        PROVE  \E w \in Wallets : \A f \in Needs(s[k].kind, s[k].at, w) : f \in {} \/ Made(s, k, f)
    <3>1. k = 4
      BY <1>1, <1>3, <2>2
    <3> QED BY <1>3, <1>5, <2>1, <3>1
  <2> QED BY <2>2 DEF RestsOn
<1>7. Good(net, p, s)
  BY <1>4, <1>6 DEF Good, GoodAfter
<1>8. DeployNewIdFactory(by) = s
  BY DEF DeployNewIdFactory, s, a, b, d, e
<1> QED BY <1>5, <1>7, <1>8 DEF Made, Makes

\* The contracts of a new factory.
LEMMA MainGood ==
  ASSUME NEW net, NEW p, NEW by \in Wallets
  PROVE  /\ Good(net, p, DeployNewMain(by))
         /\ \A f \in Deployed(Infra \ {"Identity", "ImplementationAuthority", "IdFactory",
                                       "TREXFactory"}, by) : Makes(DeployNewMain(by), f)
         /\ Makes(DeployNewMain(by), <<"version", Nobody, Nobody>>)
<1> DEFINE a == deploy("TREXImplementationAuthority", by)
           s == [k \in DOMAIN Implementations |-> deploy(Implementations[k], by)]
           u == [do |-> "useVersion", by |-> by]
<1>1. /\ Implementations \in Seq(Infra) /\ DOMAIN Implementations = 1 .. 6
      /\ \A k \in 1 .. 6 : Implementations[k] \in Infra
      /\ \A x \in Infra \ {"Identity", "ImplementationAuthority", "IdFactory", "TREXFactory",
                           "TREXImplementationAuthority"} :
           \E k \in 1 .. 6 : Implementations[k] = x
  <2>1. Implementations \in Seq(Infra) /\ DOMAIN Implementations = 1 .. 6
    BY DEF Implementations, Infra
  <2>2. /\ Implementations[1] = "Token" /\ Implementations[2] = "ClaimTopicsRegistry"
        /\ Implementations[3] = "IdentityRegistry"
        /\ Implementations[4] = "IdentityRegistryStorage"
        /\ Implementations[5] = "TrustedIssuersRegistry"
        /\ Implementations[6] = "ModularCompliance"
    BY DEF Implementations
  <2>3. 1 \in 1 .. 6 /\ 2 \in 1 .. 6 /\ 3 \in 1 .. 6 /\ 4 \in 1 .. 6 /\ 5 \in 1 .. 6 /\ 6 \in 1 .. 6
    OBVIOUS
  <2>4. \A k \in 1 .. 6 : k = 1 \/ k = 2 \/ k = 3 \/ k = 4 \/ k = 5 \/ k = 6
    OBVIOUS
  <2>5. \A k \in 1 .. 6 : Implementations[k] \in Infra
    BY <2>2, <2>4 DEF Infra
  <2> QED BY <2>1, <2>2, <2>3, <2>5 DEF Infra
<1>2. /\ Good(net, p, <<a>>) /\ Makes(<<a>>, <<"infra", "TREXImplementationAuthority", by>>)
  <2>1. OpOK(net, p, a) /\ a.do # "save" /\ Fact(a) = <<"infra", "TREXImplementationAuthority", by>>
    BY DeployOK DEF Infra
  <2> HIDE DEF a
  <2> QED BY <2>1, GoodOne
<1>3. /\ Good(net, p, s)
      /\ \A k \in 1 .. 6 : Makes(s, <<"infra", Implementations[k], by>>)
  <2> DEFINE S == {deploy(x, by) : x \in Infra}
  <2>1. \A o \in S : OpOK(net, p, o) /\ o.do # "save"
    BY DeployOK
  <2>2. s \in Seq(S) /\ DOMAIN s = 1 .. 6
    <3>1. s = [k \in 1 .. 6 |-> deploy(Implementations[k], by)]
      BY <1>1
    <3>2. \A k \in 1 .. 6 : deploy(Implementations[k], by) \in S
      <4>1. \A k \in 1 .. 6 : Implementations[k] \in Infra
        BY <1>1
      <4>2. \A x \in Infra : deploy(x, by) \in S
        OBVIOUS
      <4> HIDE DEF S
      <4> QED BY <4>1, <4>2
    <3> HIDE DEF s, S
    <3>3. s \in [1 .. 6 -> S]
      BY <3>1, <3>2
    <3> QED BY <3>3, ListType
  <2>3. \A k \in 1 .. 6 : Implementations[k] \in Infra /\ s[k] = deploy(Implementations[k], by)
    BY <1>1
  <2> HIDE DEF s, S
  <2>4. Good(net, p, s)
    BY <2>1, <2>2, GoodPlain
  <2> QED BY <2>2, <2>3, <2>4, DeployOK DEF Makes
<1>4. Good(net, p, <<u>>) /\ Makes(<<u>>, <<"version", Nobody, Nobody>>)
  <2>1. OpOK(net, p, u) /\ u.do # "save" /\ Fact(u) = <<"version", Nobody, Nobody>>
    BY DEF OpOK, Fact, OnToken, OnIdentity, OnUser, ByHand, TokenSteps, Others
  <2> HIDE DEF u
  <2> QED BY <2>1, GoodOne
<1>5. DeployNewMain(by) = (<<a>> \o s) \o <<u>>
  BY DEF DeployNewMain
<1> HIDE DEF a, s, u
<1>6. Good(net, p, <<a>> \o s) /\ Good(net, p, (<<a>> \o s) \o <<u>>)
  BY <1>2, <1>3, <1>4, GoodConcat
<1>7. /\ IsScript(net, p, <<a>>) /\ IsScript(net, p, s) /\ IsScript(net, p, <<u>>)
      /\ IsScript(net, p, <<a>> \o s)
  BY <1>2, <1>3, <1>4, <1>6 DEF Good, GoodAfter
<1>8. \A f : Makes(<<a>>, f) \/ Makes(s, f) => Makes((<<a>> \o s) \o <<u>>, f)
  BY <1>7, MakesConcat
<1>9. Makes((<<a>> \o s) \o <<u>>, <<"version", Nobody, Nobody>>)
  BY <1>4, <1>7, MakesConcat
<1>10. \A f \in Deployed(Infra \ {"Identity", "ImplementationAuthority", "IdFactory",
                                  "TREXFactory"}, by) : Makes(<<a>>, f) \/ Makes(s, f)
  BY <1>1, <1>2, <1>3 DEF Deployed
<1> QED BY <1>5, <1>6, <1>8, <1>9, <1>10

\* newTREXFactory saves the factory when it has its version and is linked.
LEMMA FactoryGood ==
  ASSUME NEW net, NEW p, NEW by \in Wallets
  PROVE  GoodAfter(net, p, Deployed(Infra \ {"TREXFactory"}, by)
                             \cup {<<"version", Nobody, Nobody>>}, DeployNewTRexFactory(by))
<1> DEFINE F == Deployed(Infra \ {"TREXFactory"}, by) \cup {<<"version", Nobody, Nobody>>}
           a == deploy("TREXFactory", by)
           u == [do |-> "addTokenFactory", by |-> by]
           e == save("TREXFactory", "TREXFactory")
           s == <<a, u, e>>
<1>1. OpOK(net, p, a) /\ a.do # "save" /\ Fact(a) = <<"infra", "TREXFactory", by>>
  BY DeployOK DEF Infra
<1>2. OpOK(net, p, u) /\ u.do # "save" /\ Fact(u) = <<"linked", Nobody, Nobody>>
  BY DEF OpOK, Fact, OnToken, OnIdentity, OnUser, ByHand, TokenSteps, Others
<1>3. OpOK(net, p, e) /\ e.kind = "TREXFactory" /\ e.at = "TREXFactory"
  BY SaveOK DEF Savable
<1> HIDE DEF a, u, e
<1>4. /\ s \in Seq({a, u, e}) /\ DOMAIN s = 1 .. 3 /\ s[1] = a /\ s[2] = u /\ s[3] = e
  OBVIOUS
<1> HIDE DEF s
<1>5. IsScript(net, p, s)
  BY <1>1, <1>2, <1>3, <1>4 DEF IsScript
<1>6. Made(s, 3, <<"infra", "TREXFactory", by>>) /\ Made(s, 3, <<"linked", Nobody, Nobody>>)
  <2>1. 1 \in DOMAIN s /\ 2 \in DOMAIN s /\ 1 < 3 /\ 2 < 3
    BY <1>4
  <2> QED BY <1>1, <1>2, <1>4, <2>1 DEF Made
<1>7. \A f \in Needs(e.kind, e.at, by) : f \in F \/ Made(s, 3, f)
  <2>1. Needs(e.kind, e.at, by)
          = Deployed(Infra, by) \cup {<<"version", Nobody, Nobody>>, <<"linked", Nobody, Nobody>>}
    BY <1>3 DEF Needs, Deployed, Manager
  <2>2. Deployed(Infra, by) \subseteq
          Deployed(Infra \ {"TREXFactory"}, by) \cup {<<"infra", "TREXFactory", by>>}
    BY DEF Deployed
  <2> QED BY <1>6, <2>1, <2>2
<1>8. RestsOn(F, s)
  <2>1. ASSUME NEW k \in DOMAIN s, s[k].do = "save"
        PROVE  \E w \in Wallets : \A f \in Needs(s[k].kind, s[k].at, w) : f \in F \/ Made(s, k, f)
    <3>1. k = 3
      BY <1>1, <1>2, <1>4, <2>1
    <3> HIDE DEF F
    <3> QED BY <1>4, <1>7, <3>1
  <2> HIDE DEF F
  <2> QED BY <2>1 DEF RestsOn
<1>9. DeployNewTRexFactory(by) = s
  BY DEF DeployNewTRexFactory, s, a, u, e
<1> HIDE DEF F
<1>10. GoodAfter(net, p, F, DeployNewTRexFactory(by))
  BY <1>5, <1>8, <1>9 DEF GoodAfter
<1> QED BY <1>10 DEF F

\* Both factories, one after the other.
LEMMA ConfigGood ==
  ASSUME NEW net, NEW p, NEW by \in Wallets
  PROVE  Good(net, p, LoadOrDeployTREXConfig(by)) /\ LoadOrDeployTREXConfig(by) # <<>>
<1> DEFINE a == DeployNewIdFactory(by)
           m == DeployNewMain(by)
           t == DeployNewTRexFactory(by)
           F == Deployed(Infra \ {"TREXFactory"}, by) \cup {<<"version", Nobody, Nobody>>}
<1>1. Good(net, p, a) /\ Good(net, p, m) /\ GoodAfter(net, p, F, t)
  BY IdFactoryGood, MainGood, FactoryGood
<1>2. LoadOrDeployTREXConfig(by) = (a \o m) \o t
  BY DEF LoadOrDeployTREXConfig
<1>3. \A f \in F : Makes(a, f) \/ Makes(m, f)
  <2>1. \A f \in Deployed({"Identity", "ImplementationAuthority", "IdFactory"}, by) : Makes(a, f)
    BY IdFactoryGood
  <2>2. /\ \A f \in Deployed(Infra \ {"Identity", "ImplementationAuthority", "IdFactory",
                                      "TREXFactory"}, by) : Makes(m, f)
        /\ Makes(m, <<"version", Nobody, Nobody>>)
    BY MainGood
  <2> HIDE DEF a, m
  <2> QED BY <2>1, <2>2 DEF Deployed
<1>4. a # <<>>
  BY DEF DeployNewIdFactory
<1> HIDE DEF a, m, t, F
<1>5. Good(net, p, a \o m)
  BY <1>1, GoodConcat
<1>6. IsScript(net, p, a) /\ IsScript(net, p, m) /\ IsScript(net, p, t) /\ IsScript(net, p, a \o m)
  BY <1>1, <1>5 DEF Good, GoodAfter
<1>7. \A f \in F : f \in {} \/ Makes(a \o m, f)
  BY <1>3, <1>6, MakesConcat
<1>8. Good(net, p, (a \o m) \o t)
  BY <1>1, <1>5, <1>7, ConcatAfter DEF Good
<1>9. a \o m # <<>> /\ (a \o m) \o t # <<>>
  BY <1>4, <1>6, ConcatNonempty
<1> QED BY <1>2, <1>8, <1>9

\* A script that saves nothing, listed.
LEMMA PlainList ==
  ASSUME NEW net, NEW p, NEW n \in Nat, NEW s, s = [k \in 1 .. n |-> s[k]],
         \A k \in 1 .. n : OpOK(net, p, s[k]) /\ s[k].do # "save"
  PROVE  Good(net, p, s)
<1> DEFINE S == {s[k] : k \in 1 .. n}
<1>1. s \in [1 .. n -> S]
  <2>1. \A k \in 1 .. n : s[k] \in S
    OBVIOUS
  <2> HIDE DEF S
  <2> QED BY <2>1
<1>2. \A o \in S : OpOK(net, p, o) /\ o.do # "save"
  OBVIOUS
<1> HIDE DEF S
<1>3. s \in Seq(S)
  BY <1>1, ListType
<1> QED BY <1>2, <1>3, GoodPlain

\* The issuers of a setup, listed.
LEMMA IssuerList ==
  ASSUME NEW I, I \subseteq Issuers
  PROVE  SetToSeq(I) \in Seq(I)
<1>1. IsFiniteSet(I)
  BY WalletsAssumption, FS_Subset
<1> QED BY <1>1, SetToSeqType

\* An issuer is saved once it is deployed.
LEMMA IssuerGood ==
  ASSUME NEW net, NEW p, NEW i \in Issuers
  PROVE  Good(net, p, DeployNewClaimIssuer(i)) /\ DeployNewClaimIssuer(i) # <<>>
<1> DEFINE o == [do |-> "deployIssuer", issuer |-> i]
<1>1. OpOK(net, p, o) /\ o.do # "save" /\ Fact(o) = <<"issuer", i, Nobody>>
  BY DEF OpOK, Fact, OnToken, OnIdentity, OnUser, ByHand, TokenSteps, Others
<1>2. Savable(net, "ClaimIssuer", i)
  BY DEF Savable
<1>3. \A f \in Needs("ClaimIssuer", i, Admin) : f \in {} \/ f = Fact(o)
  BY <1>1 DEF Needs, Manager
<1>4. Admin \in Wallets
  BY WalletsAssumption
<1> HIDE DEF o
<1>5. Good(net, p, <<o, save("ClaimIssuer", i)>>)
  BY <1>1, <1>2, <1>3, <1>4, GoodSaved DEF Good
<1>6. DeployNewClaimIssuer(i) = <<o, save("ClaimIssuer", i)>>
  BY DEF DeployNewClaimIssuer, o
<1>7. <<o, save("ClaimIssuer", i)>> # <<>>
  OBVIOUS
<1> QED BY <1>5, <1>6, <1>7

\* So are all of them.
LEMMA IssuersGood ==
  ASSUME NEW net, NEW p
  PROVE  Good(net, p, IssuerScripts)
<1> DEFINE all == SetToSeq(Issuers)
           n == Len(all)
           ss == [k \in DOMAIN all |-> DeployNewClaimIssuer(all[k])]
           S == {ss[k] : k \in 1 .. n}
<1>1. all \in Seq(Issuers)
  BY IssuerList
<1> HIDE DEF all
<1>2. n \in Nat /\ DOMAIN all = 1 .. n /\ \A k \in 1 .. n : all[k] \in Issuers
  BY <1>1
<1> HIDE DEF n
<1>3. ss \in [1 .. n -> S]
  <2>1. \A k \in 1 .. n : ss[k] \in S
    OBVIOUS
  <2>2. ss = [k \in 1 .. n |-> ss[k]]
    BY <1>2
  <2> HIDE DEF S, ss
  <2> QED BY <2>1, <2>2
<1>4. \A k \in 1 .. n : Good(net, p, ss[k])
  BY <1>2, IssuerGood
<1> HIDE DEF ss, S
<1>5. ss \in Seq(S) /\ DOMAIN ss = 1 .. n
  BY <1>2, <1>3, ListType
<1>6. Good(net, p, FlattenSeq(ss))
  BY <1>4, <1>5, GoodFlatten
<1> QED BY <1>6 DEF IssuerScripts, ss, all

-----------------------------------------------------------------------------
\* The options of a new token.
TokenOptions(p) ==
  [do: {"deployTREXSuite"}, token: {p}, owner: Wallets, issuers: SUBSET Issuers, by: Wallets]

\* A step of a token deployed by hand.
HandSteps(p) ==
  [do: {"startSuite", "checkIdFactory", "createTokenIdentity", "bindRegistry", "setOnchainID"},
   token: {p}, owner: Wallets, issuers: SUBSET Issuers, by: Wallets]
PartSteps(p) == [do: {"deployPart"}, part: Parts, token: {p}, by: Wallets]
AgentOps(p) ==
  [do: {"addAgent"}, token: {p}, to: {"ir", "token"}, agent: Wallets \cup {p}, by: Wallets]
ClaimOps(p) == [do: {"addClaimTopic", "addTrustedIssuer"}, token: {p}, issuer: Issuers, by: Wallets]
HandOvers(p) == [do: {"transferOwnership"}, token: {p}, owner: Wallets, part: Parts, by: Wallets]
ByHandOps(p) == HandSteps(p) \cup PartSteps(p) \cup AgentOps(p) \cup ClaimOps(p) \cup HandOvers(p)

\* The steps that deploy a token by hand save nothing.
LEMMA ByHandOK ==
  ASSUME NEW net, net = "hardhat", NEW p \in Tokens, NEW x \in ByHandOps(p)
  PROVE  OpOK(net, p, x) /\ x.do # "save"
<1>1. CASE x \in HandSteps(p)
  BY <1>1 DEF HandSteps, OpOK, OnToken, OnIdentity, OnUser, ByHand, TokenSteps, Others
<1>2. CASE x \in PartSteps(p)
  BY <1>2 DEF PartSteps, OpOK, OnToken, OnIdentity, OnUser, ByHand, TokenSteps, Others
<1>3. CASE x \in AgentOps(p)
  BY <1>3 DEF AgentOps, OpOK, OnToken, OnIdentity, OnUser, ByHand, TokenSteps, Others
<1>4. CASE x \in ClaimOps(p)
  BY <1>4 DEF ClaimOps, OpOK, OnToken, OnIdentity, OnUser, ByHand, TokenSteps, Others
<1>5. CASE x \in HandOvers(p)
  BY <1>5 DEF HandOvers, OpOK, OnToken, OnIdentity, OnUser, ByHand, TokenSteps, Others
<1> QED BY <1>1, <1>2, <1>3, <1>4, <1>5 DEF ByHandOps

\* The parts of a deployment by hand are made of such steps.
LEMMA PartsByHand ==
  ASSUME NEW p \in Tokens, NEW o \in TokenOptions(p)
  PROVE  /\ IdentityRegistryParts(o) \in Seq(ByHandOps(p))
         /\ TokenParts(o) \in Seq(ByHandOps(p))
         /\ <<[o EXCEPT !.do = "startSuite"]>> \in Seq(ByHandOps(p))
<1> DEFINE A == [o EXCEPT !.do = "startSuite"]
           B == [o EXCEPT !.do = "bindRegistry"]
           C == [o EXCEPT !.do = "checkIdFactory"]
           D == [o EXCEPT !.do = "createTokenIdentity"]
           E == [o EXCEPT !.do = "setOnchainID"]
           H == HandSteps(p)
           P(x) == part(x, o)
           G == addAgent(o.token, "ir", o.token, o.by)
           S == ByHandOps(p)
<1>1. A \in S /\ B \in S /\ C \in S /\ D \in S /\ E \in S
  <2>1. A \in H /\ B \in H /\ C \in H /\ D \in H /\ E \in H
    BY DEF TokenOptions, HandSteps
  <2> QED BY <2>1 DEF ByHandOps
<1>2. \A x \in Parts : P(x) \in S
  BY DEF TokenOptions, PartSteps, part, ByHandOps
<1>3. G \in S
  <2>1. G \in AgentOps(p)
    BY DEF TokenOptions, AgentOps, addAgent
  <2> QED BY <2>1 DEF ByHandOps
<1>4. /\ IdentityRegistryParts(o) = <<P("ctr"), P("tir"), P("irs"), P("ir"), B>>
      /\ TokenParts(o) = <<P("mc"), C, P("token"), D, E, G>>
  BY DEF IdentityRegistryParts, TokenParts
<1>5. /\ P("ctr") \in S /\ P("tir") \in S /\ P("irs") \in S /\ P("ir") \in S
      /\ P("mc") \in S /\ P("token") \in S
  BY <1>2 DEF Parts
<1> HIDE DEF A, B, C, D, E, P, G, S
<1>6. <<A>> \in Seq(S)
  BY <1>1
<1>7. <<P("ctr"), P("tir"), P("irs"), P("ir"), B>> \in Seq(S)
  BY <1>1, <1>5
<1>8. <<P("mc"), C, P("token"), D, E, G>> \in Seq(S)
  BY <1>1, <1>3, <1>5
<1> QED BY <1>4, <1>6, <1>7, <1>8 DEF S, A

\* So are its topics, its trusted issuers and its changes of owner.
LEMMA ClaimsByHand ==
  ASSUME NEW p \in Tokens, NEW o \in TokenOptions(p)
  PROVE  /\ ClaimSteps(o) \in Seq(ByHandOps(p))
         /\ TransferTokenOwnership(o) \in Seq(ByHandOps(p))
<1> DEFINE S == ByHandOps(p)
           all == SetToSeq(o.issuers)
           n == Len(all)
           a == [k \in DOMAIN all |-> withIssuer(o, "addClaimTopic", all[k])]
           b == [k \in DOMAIN all |-> withIssuer(o, "addTrustedIssuer", all[k])]
           names == <<"token", "ir", "tir", "ctr", "mc">>
           e == [k \in 1..5 |-> [do |-> "transferOwnership", token |-> o.token, owner |-> o.owner,
                                 part |-> names[k], by |-> o.by]]
<1>1. all \in Seq(Issuers)
  <2>1. o.issuers \subseteq Issuers
    BY DEF TokenOptions
  <2>2. all \in Seq(o.issuers)
    BY <2>1, IssuerList
  <2> HIDE DEF all
  <2> QED BY <2>1, <2>2
<1>2. ClaimSteps(o) = a \o b
  BY DEF ClaimSteps
<1> HIDE DEF all
<1>3. n \in Nat /\ DOMAIN all = 1 .. n /\ \A k \in 1 .. n : all[k] \in Issuers
  BY <1>1
<1> HIDE DEF n
<1>4. \A i \in Issuers : /\ withIssuer(o, "addClaimTopic", i) \in S
                          /\ withIssuer(o, "addTrustedIssuer", i) \in S
  BY DEF TokenOptions, withIssuer, ClaimOps, ByHandOps
<1>5. a \in [1 .. n -> S] /\ b \in [1 .. n -> S]
  <2> HIDE DEF S
  <2> QED BY <1>3, <1>4
<1>6. e \in [1 .. 5 -> S]
  <2>1. \A k \in 1 .. 5 : names[k] \in Parts
    <3>1. names \in [1 .. 5 -> Parts]
      BY DEF Parts
    <3> HIDE DEF names
    <3> QED BY <3>1
  <2> HIDE DEF names
  <2>2. \A k \in 1 .. 5 : e[k] \in HandOvers(p)
    BY <2>1 DEF TokenOptions, HandOvers
  <2>3. \A k \in 1 .. 5 : e[k] \in S
    BY <2>2 DEF ByHandOps
  <2>4. e = [k \in 1 .. 5 |-> e[k]]
    OBVIOUS
  <2> HIDE DEF e, S
  <2> QED BY <2>3, <2>4
<1>7. TransferTokenOwnership(o) = IF o.owner = o.by THEN <<>> ELSE e
  BY DEF TransferTokenOwnership
<1> HIDE DEF a, b, e, S
<1>8. a \in Seq(S) /\ b \in Seq(S) /\ e \in Seq(S) /\ <<>> \in Seq(S)
  <2>1. a \in Seq(S) /\ b \in Seq(S)
    BY <1>3, <1>5, ListType
  <2>2. 5 \in Nat
    OBVIOUS
  <2>3. e \in Seq(S)
    BY <1>6, <2>2, ListType
  <2> QED BY <2>1, <2>3
<1>9. a \o b \in Seq(S)
  BY <1>8
<1> QED BY <1>2, <1>7, <1>8, <1>9 DEF S

\* A token deployed by hand is not listed.
LEMMA ManualGood ==
  ASSUME NEW net, net = "hardhat", NEW p \in Tokens, NEW o \in TokenOptions(p)
  PROVE  Good(net, p, DeployTREXSuiteManual(o)) /\ DeployTREXSuiteManual(o) # <<>>
<1> DEFINE S == ByHandOps(p)
           a == <<[o EXCEPT !.do = "startSuite"]>>
           b == IdentityRegistryParts(o)
           c == TokenParts(o)
           d == ClaimSteps(o)
           e == TransferTokenOwnership(o)
           r == a \o b \o c \o d \o e
<1>1. a \in Seq(S) /\ b \in Seq(S) /\ c \in Seq(S) /\ d \in Seq(S) /\ e \in Seq(S) /\ a # <<>>
  BY PartsByHand, ClaimsByHand
<1>2. DeployTREXSuiteManual(o) = r
  BY DEF DeployTREXSuiteManual
<1>3. \A x \in S : OpOK(net, p, x) /\ x.do # "save"
  BY ByHandOK
<1> HIDE DEF S, a, b, c, d, e
<1>4. r \in Seq(S) /\ r # <<>>
  BY <1>1
<1> HIDE DEF r
<1> QED BY <1>2, <1>3, <1>4, GoodPlain

\* A token of the factory is listed once it is deployed.
LEMMA TokenNewGood ==
  ASSUME NEW net \in {"hardhat", "fhevm"}, NEW p \in Tokens, NEW owner \in Wallets,
         NEW I \in SUBSET Issuers, NEW by \in Wallets
  PROVE  Good(net, p, TokenNew(net, p, owner, I, by)) /\ TokenNew(net, p, owner, I, by) # <<>>
<1> DEFINE o == [do |-> "deployTREXSuite", token |-> p, owner |-> owner, issuers |-> I, by |-> by]
           s == <<o, save("Token", p)>>
<1>1. o \in TokenOptions(p)
  BY DEF TokenOptions
<1>2. CASE net = "hardhat"
  <2>1. TokenNew(net, p, owner, I, by) = DeployTREXSuiteManual(o)
    BY <1>2 DEF TokenNew
  <2> HIDE DEF o
  <2> QED BY <1>1, <1>2, <2>1, ManualGood
<1>3. CASE net = "fhevm"
  <2>1. TokenNew(net, p, owner, I, by) = s
    BY <1>3 DEF TokenNew
  <2>2. OpOK(net, p, o) /\ o.do # "save" /\ Fact(o) = <<"token", p, Nobody>>
    BY <1>3 DEF OpOK, Fact, OnToken, OnIdentity, OnUser, ByHand, TokenSteps, Others
  <2>3. Savable(net, "Token", p)
    BY <1>3 DEF Savable
  <2>4. \A f \in Needs("Token", p, by) : f \in {} \/ f = Fact(o)
    BY <2>2 DEF Needs, Manager
  <2> HIDE DEF o
  <2>5. Good(net, p, s)
    BY <2>2, <2>3, <2>4, GoodSaved DEF Good
  <2>6. s # <<>>
    OBVIOUS
  <2> QED BY <2>1, <2>5, <2>6
<1> QED BY <1>2, <1>3

-----------------------------------------------------------------------------
(***************************************************************************)
(* Scripts of a setup.                                                     *)
(***************************************************************************)
\* A few steps that save nothing.
LEMMA GoodTwo ==
  ASSUME NEW net, NEW p, NEW a, NEW b, OpOK(net, p, a), a.do # "save",
         OpOK(net, p, b), b.do # "save"
  PROVE  Good(net, p, <<a, b>>)
<1> DEFINE S == {a, b}
           s == <<a, b>>
<1>1. s \in Seq(S)
  OBVIOUS
<1>2. \A o \in S : OpOK(net, p, o) /\ o.do # "save"
  OBVIOUS
<1> HIDE DEF S, s
<1>3. Good(net, p, s)
  BY <1>1, <1>2, GoodPlain
<1> QED BY <1>3 DEF s

\* An identity is saved once it is deployed, before its claims are added.
LEMMA IdentityGood ==
  ASSUME NEW net, NEW p, NEW i \in Identities, NEW by \in Wallets
  PROVE  Good(net, p, IdentityNew(i, by)) /\ IdentityNew(i, by) # <<>>
<1> DEFINE o == [do |-> "deployIdentity", identity |-> i, by |-> by]
           x == [o EXCEPT !.do = "checkIdentity"]
           e == save("Identity", i)
<1>1. OpOK(net, p, o) /\ o.do # "save" /\ Fact(o) = <<"identity", i, Nobody>>
  BY DEF OpOK, Fact, OnToken, OnIdentity, OnUser, ByHand, TokenSteps, Others
<1>2. OpOK(net, p, x) /\ x.do # "save"
  BY DEF OpOK, OnToken, OnIdentity, OnUser, ByHand, TokenSteps, Others
<1>3. Savable(net, "Identity", i)
  BY DEF Savable
<1>4. \A f \in Needs("Identity", i, by) : f \in {} \/ f = Fact(o)
  BY <1>1 DEF Needs, Manager
<1>5. IdentityNew(i, by) = <<o, e, x>>
  BY DEF IdentityNew
<1> HIDE DEF o, x
<1>6. Good(net, p, <<o, e>>) /\ Good(net, p, <<x>>)
  BY <1>1, <1>2, <1>3, <1>4, GoodSaved, GoodOne DEF Good
<1> HIDE DEF e
<1>7. <<o, e>> \o <<x>> = <<o, e, x>> /\ <<o, e, x>> # <<>>
  <2> DEFINE S == {o, e, x}
             r == <<o, e>> \o <<x>>
             t == <<o, e, x>>
  <2>1. <<o, e>> \in Seq(S) /\ <<x>> \in Seq(S) /\ Len(<<o, e>>) = 2 /\ Len(<<x>>) = 1
    OBVIOUS
  <2>2. r \in Seq(S) /\ Len(r) = 3 /\ r[1] = o /\ r[2] = e /\ r[3] = x
    BY <2>1
  <2>3. t \in Seq(S) /\ Len(t) = 3 /\ t[1] = o /\ t[2] = e /\ t[3] = x
    OBVIOUS
  <2> HIDE DEF S, r, t
  <2>4. r = t /\ t # <<>>
    BY <2>2, <2>3
  <2> QED BY <2>4 DEF r, t
<1>8. Good(net, p, <<o, e>> \o <<x>>)
  BY <1>6, GoodConcat
<1> QED BY <1>5, <1>7, <1>8

\* A user is registered, and its identity saved.
LEMMA UserGood ==
  ASSUME NEW net, NEW p \in Tokens, NEW user \in Users
  PROVE  Good(net, p, UserSteps(p, user))
<1> DEFINE all == SetToSeq(Issuers)
           n == Len(all)
           i == <<user, p>>
           a == IdentityNew(i, user)
           b == registerIdentity(p, user, i, 1, Bank)
           c == [k \in DOMAIN all |-> addClaim(i, all[k], user)]
<1>1. i \in Identities /\ user \in Wallets /\ Bank \in Wallets
  BY WalletsAssumption DEF Identities, Tokens
<1>2. Good(net, p, a)
  BY <1>1, IdentityGood
<1>3. OpOK(net, p, b) /\ b.do # "save"
  BY ManagerApart DEF OpOK, registerIdentity, OnToken, OnIdentity, OnUser, ByHand, TokenSteps, Others
<1>4. all \in Seq(Issuers)
  BY IssuerList
<1>5. UserSteps(p, user) = a \o <<b>> \o c
  BY DEF UserSteps
<1> HIDE DEF a, b, i, all
<1>6. n \in Nat /\ DOMAIN all = 1 .. n
  BY <1>4
<1>7. \A k \in 1 .. n : OpOK(net, p, c[k]) /\ c[k].do # "save"
  BY <1>1, <1>6 DEF OpOK, addClaim, OnToken, OnIdentity, OnUser, ByHand, TokenSteps, Others
<1>8. c = [k \in 1 .. n |-> c[k]]
  BY <1>6
<1> HIDE DEF c, n
<1>9. Good(net, p, c) /\ Good(net, p, <<b>>)
  BY <1>3, <1>6, <1>7, <1>8, PlainList, GoodOne
<1>10. Good(net, p, a \o <<b>> \o c)
  BY <1>2, <1>9, GoodConcat
<1> QED BY <1>5, <1>10

\* So are all of them.
LEMMA UsersGood ==
  ASSUME NEW net, NEW p \in Tokens
  PROVE  Good(net, p, UserScripts(p))
<1> DEFINE all == SetToSeq(Users)
           n == Len(all)
           ss == [k \in DOMAIN all |-> UserSteps(p, all[k])]
           S == {ss[k] : k \in 1 .. n}
<1>1. all \in Seq(Users)
  BY WalletsAssumption, SetToSeqType
<1> HIDE DEF all
<1>2. n \in Nat /\ DOMAIN all = 1 .. n /\ \A k \in 1 .. n : all[k] \in Users
  BY <1>1
<1> HIDE DEF n
<1>3. ss \in [1 .. n -> S]
  <2>1. \A k \in 1 .. n : ss[k] \in S
    OBVIOUS
  <2>2. ss = [k \in 1 .. n |-> ss[k]]
    BY <1>2
  <2> HIDE DEF S, ss
  <2> QED BY <2>1, <2>2
<1>4. \A k \in 1 .. n : Good(net, p, ss[k])
  BY <1>2, UserGood
<1> HIDE DEF ss, S
<1>5. ss \in Seq(S) /\ DOMAIN ss = 1 .. n
  BY <1>2, <1>3, ListType
<1>6. Good(net, p, FlattenSeq(ss))
  BY <1>4, <1>5, GoodFlatten
<1> QED BY <1>6 DEF UserScripts, ss, all

\* Mints save nothing.
LEMMA MintsGood ==
  ASSUME NEW net, NEW p \in Tokens
  PROVE  Good(net, p, Mints(p))
<1> DEFINE all == SetToSeq(Users)
           n == Len(all)
           a == [k \in DOMAIN all |-> mintTo("mintUnchecked", p, all[k], Agent)]
           b == [do |-> "unpauseUnchecked", token |-> p, by |-> Agent]
<1>1. all \in Seq(Users)
  BY WalletsAssumption, SetToSeqType
<1>2. Mints(p) = a \o <<b>>
  BY DEF Mints
<1> HIDE DEF all
<1>3. n \in Nat /\ DOMAIN all = 1 .. n /\ \A k \in 1 .. n : all[k] \in Users
  BY <1>1
<1> HIDE DEF n
<1>4. \A k \in 1 .. n : OpOK(net, p, a[k]) /\ a[k].do # "save"
  BY <1>3, ManagerApart DEF OpOK, mintTo, OnToken, OnIdentity, OnUser, ByHand, TokenSteps, Others
<1>5. a = [k \in 1 .. n |-> a[k]]
  BY <1>3
<1>6. OpOK(net, p, b) /\ b.do # "save"
  BY DEF OpOK, OnToken, OnIdentity, OnUser, ByHand, TokenSteps, Others
<1> HIDE DEF a, b
<1>7. Good(net, p, a) /\ Good(net, p, <<b>>)
  BY <1>3, <1>4, <1>5, <1>6, PlainList, GoodOne
<1> QED BY <1>2, <1>7, GoodConcat

\* The steps that deploy, add and set the modules of a setup.
ModuleOps(p) ==
  [do: {"checkCompliance", "deployModule", "addModule", "batchAllow"}, token: {p},
   module: OwnModules(p), by: Wallets]
    \cup [do: {"setLimit"}, token: {p}, module: OwnModules(p), limit: {Limit}, by: Wallets]

\* Modules are deployed, added and set; they are not listed.
LEMMA ModulesGood ==
  ASSUME NEW net, NEW p \in Tokens
  PROVE  Good(net, p, DeployModules(p, p, Bank))
<1> DEFINE S == ModuleOps(p)
           step(name, s) == onModule(s, p, <<name, p>>, Bank)
           limit == [do |-> "setLimit", token |-> p, module |-> <<"SupplyLimit", p>>,
                     limit |-> Limit, by |-> Bank]
           r == <<step("SupplyLimit", "checkCompliance"),
                  step("SupplyLimit", "deployModule"), step("SupplyLimit", "addModule"), limit,
                  step("TransferRestrict", "deployModule"), step("TransferRestrict", "addModule"),
                  step("TransferRestrict", "batchAllow"),
                  step("TimeExchange", "deployModule"), step("TimeExchange", "addModule"),
                  step("ExchangeMonthly", "deployModule"), step("ExchangeMonthly", "addModule")>>
<1>1. Bank \in Wallets
  BY WalletsAssumption
<1>2. \A name \in ModuleNames :
        \A s \in {"checkCompliance", "deployModule", "addModule", "batchAllow"} :
        step(name, s) \in S
  BY <1>1 DEF ModuleOps, onModule, OwnModules
<1>3. limit \in S
  BY <1>1 DEF ModuleOps, OwnModules, ModuleNames
<1>4. \A x \in S : OpOK(net, p, x) /\ x.do # "save"
  BY DEF ModuleOps, OpOK, OnToken, OnIdentity, OnUser, ByHand, TokenSteps, Others
<1>5. DeployModules(p, p, Bank) = r
  BY DEF DeployModules
<1> HIDE DEF S, step, limit
<1>6. /\ step("SupplyLimit", "checkCompliance") \in S
      /\ step("SupplyLimit", "deployModule") \in S /\ step("SupplyLimit", "addModule") \in S
      /\ step("TransferRestrict", "deployModule") \in S
      /\ step("TransferRestrict", "addModule") \in S
      /\ step("TransferRestrict", "batchAllow") \in S
      /\ step("TimeExchange", "deployModule") \in S /\ step("TimeExchange", "addModule") \in S
      /\ step("ExchangeMonthly", "deployModule") \in S /\ step("ExchangeMonthly", "addModule") \in S
  BY <1>2 DEF ModuleNames
<1>7. r \in Seq(S)
  BY <1>3, <1>6
<1> HIDE DEF r
<1> QED BY <1>4, <1>5, <1>7, GoodPlain

\* An agent that a setup adds.
LEMMA AgentOK ==
  ASSUME NEW net, NEW p, NEW t \in Tokens, NEW to \in {"ir", "token"}, NEW agent,
         NEW by \in Wallets
  PROVE  /\ OpOK(net, p, addAgent(t, to, agent, by)) /\ addAgent(t, to, agent, by).do # "save"
         /\ OpOK(net, p, Hasty(addAgent(t, to, agent, by)))
         /\ Hasty(addAgent(t, to, agent, by)).do # "save"
<1> DEFINE o == addAgent(t, to, agent, by)
           h == Hasty(o)
<1>1. /\ "do" \in DOMAIN o /\ o.do = "addAgent" /\ o.token = t /\ o.to = to /\ o.by = by
      /\ "do" \in DOMAIN h /\ h.do = "addAgent" /\ h.token = t /\ h.to = to /\ h.by = by
  BY DEF addAgent, Hasty
<1> HIDE DEF o, h
<1>2. OpOK(net, p, o)
  BY <1>1 DEF OpOK, OnToken, OnIdentity, OnUser, ByHand, TokenSteps, Others
<1>3. OpOK(net, p, h)
  BY <1>1 DEF OpOK, OnToken, OnIdentity, OnUser, ByHand, TokenSteps, Others
<1> QED BY <1>1, <1>2, <1>3 DEF o, h

\* A setup saves what its steps have left.
LEMMA SetupGood ==
  ASSUME NEW net \in {"hardhat", "fhevm"}, NEW p \in Tokens
  PROVE  Good(net, p, SetupScript(net, p)) /\ SetupScript(net, p) # <<>>
<1> DEFINE a == LoadOrDeployTREXConfig(Admin)
           b == IssuerScripts
           c == TokenNew(net, p, Bank, Issuers, Admin)
           d == addAgent(p, "ir", Bank, Bank)
           e == addAgent(p, "token", Agent, Bank)
           f == UserScripts(p)
           g == DeployModules(p, p, Bank)
           h == Mints(p)
<1>1. Admin \in Wallets /\ Bank \in Wallets
  BY WalletsAssumption
<1>2. Good(net, p, a) /\ a # <<>> /\ Good(net, p, b) /\ Good(net, p, c)
  <2>1. Issuers \in SUBSET Issuers
    OBVIOUS
  <2> QED BY <1>1, <2>1, ConfigGood, IssuersGood, TokenNewGood
<1>3. Good(net, p, <<d, e>>)
  <2>1. OpOK(net, p, d) /\ d.do # "save" /\ OpOK(net, p, e) /\ e.do # "save"
    BY <1>1, AgentOK
  <2> HIDE DEF d, e
  <2> QED BY <2>1, GoodTwo
<1>4. Good(net, p, f) /\ Good(net, p, g) /\ Good(net, p, h)
  BY UsersGood, ModulesGood, MintsGood
<1>5. SetupScript(net, p) = ((a \o b) \o c \o <<d, e>>) \o f \o g \o h
  BY DEF SetupScript, SuiteScript
<1> DEFINE s1 == a \o b
           s2 == s1 \o c
           s3 == s2 \o <<d, e>>
           s4 == s3 \o f
           s5 == s4 \o g
           s6 == s5 \o h
<1> HIDE DEF a, b, c, d, e, f, g, h
<1>6. /\ Good(net, p, s1) /\ Good(net, p, s2) /\ Good(net, p, s3) /\ Good(net, p, s4)
      /\ Good(net, p, s5) /\ Good(net, p, s6)
  BY <1>2, <1>3, <1>4, GoodConcat
<1>7. /\ IsScript(net, p, a) /\ IsScript(net, p, b) /\ IsScript(net, p, c)
      /\ IsScript(net, p, <<d, e>>)
      /\ IsScript(net, p, f) /\ IsScript(net, p, g) /\ IsScript(net, p, h)
      /\ IsScript(net, p, s1) /\ IsScript(net, p, s2) /\ IsScript(net, p, s3)
      /\ IsScript(net, p, s4) /\ IsScript(net, p, s5)
  <2> HIDE DEF s1, s2, s3, s4, s5, s6
  <2> QED BY <1>2, <1>3, <1>4, <1>6 DEF Good, GoodAfter
<1>8. s6 # <<>>
  BY <1>2, <1>7, ConcatNonempty
<1>9. SetupScript(net, p) = s6
  BY <1>5
<1> QED BY <1>6, <1>8, <1>9

-----------------------------------------------------------------------------
(***************************************************************************)
(* Scripts of the tasks.                                                   *)
(***************************************************************************)
\* A script that does the same leaves the same.
LEMMA GoodAlike ==
  ASSUME NEW net, NEW p, NEW s, Good(net, p, s), NEW r, r = [k \in DOMAIN s |-> r[k]],
         \A k \in DOMAIN s :
           /\ OpOK(net, p, r[k]) /\ Fact(r[k]) = Fact(s[k]) /\ r[k].do = s[k].do
           /\ s[k].do = "save" => r[k] = s[k]
  PROVE  Good(net, p, r)
<1> DEFINE S == {r[k] : k \in DOMAIN s}
           n == Len(s)
<1>1. n \in Nat /\ DOMAIN s = 1 .. n
  BY DEF Good, GoodAfter, IsScript
<1>2. DOMAIN r = DOMAIN s
  OBVIOUS
<1>3. IsScript(net, p, r)
  <2>1. \A o \in S : OpOK(net, p, o)
    OBVIOUS
  <2>2. r \in [1 .. n -> S]
    <3>1. \A k \in 1 .. n : r[k] \in S
      BY <1>1
    <3> HIDE DEF S, n
    <3> QED BY <1>1, <3>1
  <2> HIDE DEF S, n
  <2>3. r \in Seq(S)
    BY <1>1, <2>2, ListType
  <2> QED BY <2>1, <2>3 DEF IsScript
<1>4. RestsOn({}, r)
  <2>1. ASSUME NEW k \in DOMAIN r, r[k].do = "save"
        PROVE  \E by \in Wallets :
                 \A f \in Needs(r[k].kind, r[k].at, by) : f \in {} \/ Made(r, k, f)
    <3>1. k \in DOMAIN s /\ s[k].do = "save" /\ r[k] = s[k]
      BY <1>2, <2>1
    <3>2. PICK by \in Wallets : \A f \in Needs(s[k].kind, s[k].at, by) : f \in {} \/ Made(s, k, f)
      BY <3>1 DEF Good, GoodAfter, RestsOn
    <3>3. \A f : Made(s, k, f) => Made(r, k, f)
      BY <1>2 DEF Made
    <3> QED BY <3>1, <3>2, <3>3
  <2> QED BY <2>1 DEF RestsOn
<1> QED BY <1>3, <1>4 DEF Good, GoodAfter

\* The steps of a factory script whose version is set without waiting leave what it leaves.
LEMMA HastyVersion ==
  ASSUME NEW net, NEW p, NEW o, OpOK(net, p, o), o.do = "useVersion"
  PROVE  OpOK(net, p, Hasty(o)) /\ Fact(Hasty(o)) = Fact(o) /\ Hasty(o).do = "useVersion"
<1> DEFINE h == Hasty(o)
<1>1. "do" \in DOMAIN o
  BY DEF OpOK
<1>2. "do" \in DOMAIN h /\ h.do = "useVersion"
  BY <1>1 DEF Hasty
<1> HIDE DEF h
<1>3. OpOK(net, p, h)
  BY <1>2 DEF OpOK, OnToken, OnIdentity, OnUser, ByHand, TokenSteps, Others
<1>4. Fact(h) = Fact(o)
  BY <1>2 DEF Fact
<1> QED BY <1>2, <1>3, <1>4 DEF h

\* The task that deploys a factory.
LEMMA NewFactoryGood ==
  ASSUME NEW net, NEW p, NEW c, NEW by \in Wallets, NEW s \in NewFactoryTask(c, by)
  PROVE  Good(net, p, s) /\ s # <<>>
<1> DEFINE L == LoadOrDeployTREXConfig(by)
           n == Len(L)
<1>1. s = [k \in DOMAIN L |-> IF L[k].do = "useVersion" THEN Hasty(L[k]) ELSE L[k]]
  BY DEF NewFactoryTask
<1>2. Good(net, p, L) /\ L # <<>>
  BY ConfigGood
<1> HIDE DEF L
<1>3. PICK S : L \in Seq(S) /\ \A o \in S : OpOK(net, p, o)
  BY <1>2 DEF Good, GoodAfter, IsScript
<1>4. \A k \in DOMAIN L : OpOK(net, p, L[k])
  BY <1>3
<1>5. \A k \in DOMAIN L :
        /\ OpOK(net, p, s[k]) /\ Fact(s[k]) = Fact(L[k]) /\ s[k].do = L[k].do
        /\ L[k].do = "save" => s[k] = L[k]
  <2> TAKE k \in DOMAIN L
  <2>1. CASE L[k].do = "useVersion"
    <3>1. s[k] = Hasty(L[k])
      BY <1>1, <2>1
    <3> QED BY <1>4, <2>1, <3>1, HastyVersion
  <2>2. CASE L[k].do # "useVersion"
    <3>1. s[k] = L[k]
      BY <1>1, <2>2
    <3> QED BY <1>4, <2>2, <3>1
  <2> QED BY <2>1, <2>2
<1>6. s = [k \in DOMAIN L |-> s[k]]
  BY <1>1
<1>7. Good(net, p, s)
  BY <1>2, <1>5, <1>6, GoodAlike
<1>8. s # <<>>
  <2>1. 1 \in DOMAIN L
    BY <1>2, <1>3
  <2>2. 1 \in DOMAIN s
    BY <1>1, <2>1
  <2> QED BY <2>2
<1> QED BY <1>7, <1>8

\* A manager is listed once it is deployed and registered.
LEMMA ManagerGood ==
  ASSUME NEW net, NEW p, NEW t \in Tokens, NEW u \in Users, NEW k, NEW by \in Wallets
  PROVE  /\ Good(net, p, TransferManagerCreate(t, u, k, by))
         /\ TransferManagerCreate(t, u, k, by) # <<>>
<1> DEFINE o == [do |-> "deployManager", token |-> t, user |-> u, country |-> k, by |-> by]
           x == [o EXCEPT !.do = "registerManager"]
           e == save(Manager, Manager)
           s == <<o, x, e>>
<1>1. OpOK(net, p, o) /\ o.do # "save" /\ Fact(o) = <<"manager", Nobody, Nobody>>
  BY DEF OpOK, Fact, OnToken, OnIdentity, OnUser, ByHand, TokenSteps, Others
<1>2. OpOK(net, p, x) /\ x.do # "save" /\ Fact(x) = <<"registered", Nobody, Nobody>>
  BY ManagerApart DEF OpOK, Fact, OnToken, OnIdentity, OnUser, ByHand, TokenSteps, Others
<1>3. OpOK(net, p, e) /\ e.do = "save" /\ e.kind = Manager /\ e.at = Manager
  BY SaveOK DEF Savable
<1>4. TransferManagerCreate(t, u, k, by) = s
  BY DEF TransferManagerCreate
<1> HIDE DEF o, x, e
<1>5. s \in Seq({o, x, e}) /\ DOMAIN s = 1 .. 3 /\ s[1] = o /\ s[2] = x /\ s[3] = e /\ s # <<>>
  OBVIOUS
<1> HIDE DEF s
<1>6. IsScript(net, p, s)
  BY <1>1, <1>2, <1>3, <1>5 DEF IsScript
<1>7. Made(s, 3, <<"manager", Nobody, Nobody>>) /\ Made(s, 3, <<"registered", Nobody, Nobody>>)
  <2>1. 1 \in DOMAIN s /\ 2 \in DOMAIN s /\ 1 < 3 /\ 2 < 3
    BY <1>5
  <2> QED BY <1>1, <1>2, <1>5, <2>1 DEF Made
<1>8. RestsOn({}, s)
  <2>1. Needs(Manager, Manager, by) =
          {<<"manager", Nobody, Nobody>>, <<"registered", Nobody, Nobody>>}
    BY DEF Needs, Manager
  <2>2. ASSUME NEW i \in DOMAIN s, s[i].do = "save"
        PROVE  \E w \in Wallets : \A f \in Needs(s[i].kind, s[i].at, w) : f \in {} \/ Made(s, i, f)
    <3>1. i = 3
      BY <1>1, <1>2, <1>5, <2>2
    <3> QED BY <1>3, <1>5, <1>7, <2>1, <3>1
  <2> QED BY <2>2 DEF RestsOn
<1> QED BY <1>4, <1>5, <1>6, <1>8 DEF Good, GoodAfter

\* The tasks of one step.
LEMMA OneGood ==
  ASSUME NEW net, NEW p, NEW ops, \A o \in ops : OpOK(net, p, o) /\ o.do # "save",
         NEW s \in One(ops)
  PROVE  Good(net, p, s) /\ s # <<>>
<1>1. PICK o \in ops : s = <<o>>
  BY DEF One
<1> QED BY <1>1, GoodOne

\* The scripts of a task.
GoodTask(net, p, scripts) == \A s \in scripts : Good(net, p, s) /\ s # <<>>

\* The supply commands are one step each and save nothing.
LEMMA SupplyTasks ==
  ASSUME NEW net, NEW p
  PROVE  GoodTask(net, p,
                  MintTask \cup BurnTask \cup FreezeTask \cup UnfreezeTask \cup SupplyLimitTask)
<1> DEFINE A == ForHolder("mint")
           B == ForHolder("burn")
           C == ForHolder("freeze")
           D == ForHolder("unfreeze")
           E == [do: {"setSupplyLimit"}, token: Tokens, limit: 0..Limit, by: Wallets]
<1>1. \A o \in A \cup B \cup C \cup D : OpOK(net, p, o) /\ o.do # "save"
  BY ManagerApart DEF ForHolder, OpOK, OnToken, OnIdentity, OnUser, ByHand, TokenSteps, Others
<1>2. \A o \in E : OpOK(net, p, o) /\ o.do # "save"
  BY DEF OpOK, OnToken, OnIdentity, OnUser, ByHand, TokenSteps, Others
<1> HIDE DEF A, B, C, D, E
<1>3. \A s \in One(A) \cup One(B) \cup One(C) \cup One(D) \cup One(E) : Good(net, p, s) /\ s # <<>>
  BY <1>1, <1>2, OneGood
<1> QED BY <1>3 DEF GoodTask, A, B, C, D, E, MintTask, BurnTask, FreezeTask, UnfreezeTask,
                  SupplyLimitTask

\* Pausing commands are one step each.
LEMMA PauseTasks ==
  ASSUME NEW net, NEW p
  PROVE  GoodTask(net, p, PauseTask \cup UnpauseTask)
<1> DEFINE A == Signed("pause")
           B == Signed("unpause")
<1>1. \A o \in A \cup B : OpOK(net, p, o) /\ o.do # "save"
  BY DEF Signed, OpOK, OnToken, OnIdentity, OnUser, ByHand, TokenSteps, Others
<1> HIDE DEF A, B
<1>2. \A s \in One(A) \cup One(B) : Good(net, p, s) /\ s # <<>>
  BY <1>1, OneGood
<1> QED BY <1>2 DEF GoodTask, A, B, PauseTask, UnpauseTask

\* Transfer and approval commands are one step each.
LEMMA TransferTasks ==
  ASSUME NEW net, NEW p
  PROVE  GoodTask(net, p, TransferTask \cup ApproveTask \cup IncreaseTask \cup DecreaseTask)
<1> DEFINE A == [do: {"transfer"}, token: Tokens, by: Users, to: Holders]
           B == [do: {"approve"}, token: Tokens, by: Users]
           C == [do: {"increaseAllowance"}, token: Tokens, by: Users]
           D == [do: {"decreaseAllowance"}, token: Tokens, by: Users]
<1>2. \A o \in B \cup C \cup D : OpOK(net, p, o) /\ o.do # "save"
  BY DEF OpOK, OnToken, OnIdentity, OnUser, ByHand, TokenSteps, Others
<1>3. \A o \in A : OpOK(net, p, o) /\ o.do # "save"
  BY DEF OpOK, OnToken, OnIdentity, OnUser, ByHand, TokenSteps, Others
<1> HIDE DEF A, B, C, D
<1>4. \A s \in One(A) \cup One(B) \cup One(C) \cup One(D) : Good(net, p, s) /\ s # <<>>
  BY <1>2, <1>3, OneGood
<1> QED BY <1>4 DEF GoodTask, A, B, C, D, TransferTask, ApproveTask, IncreaseTask, DecreaseTask

\* The commands that set a module are one step each.
LEMMA ModuleTasks ==
  ASSUME NEW net, NEW p
  PROVE  GoodTask(net, p, TimeAddTask \cup TimeRemoveTask \cup TimeLimitTask
                            \cup MonthlyAddTask \cup MonthlyRemoveTask \cup MonthlyLimitTask)
<1> DEFINE E(do, name) == ForExchange(do, name)
<1>1. \A do \in {"addExchangeID", "removeExchangeID", "setExchangeLimit"} : \A name :
        \A o \in E(do, name) : OpOK(net, p, o) /\ o.do # "save"
  BY DEF ForExchange, OpOK, OnToken, OnIdentity, OnUser, ByHand, TokenSteps, Others
<1> HIDE DEF E
<1>2. \A do \in {"addExchangeID", "removeExchangeID", "setExchangeLimit"} : \A name :
        \A s \in One(E(do, name)) : Good(net, p, s) /\ s # <<>>
  BY <1>1, OneGood
<1> QED BY <1>2 DEF GoodTask, E, TimeAddTask, TimeRemoveTask, TimeLimitTask, MonthlyAddTask,
                    MonthlyRemoveTask, MonthlyLimitTask

\* The transfer manager's commands: one step each, and a script that saves the manager.
LEMMA ManagerTasks ==
  ASSUME NEW net, NEW p, NEW c
  PROVE  GoodTask(net, p, NewManagerTask(c) \cup CriteriaTask \cup InitiateTask
                            \cup ApproveTransferTask(c) \cup DelegateTask(c))
<1> DEFINE A == [do: {"setApprovalCriteria"}, token: Tokens, by: Wallets,
                 criteria: SUBSET {"recipient", "agent"} \ {{}}]
           B == [do: {"initiate"}, token: Tokens, by: Users, to: Holders]
           C == [do: {"approveTransfer"}, token: Tokens, id: 1..Nonce(c), by: Wallets]
           D == [do: {"delegateApprove"}, token: Tokens, id: 1..Nonce(c), by: Wallets,
                 signers: UNION {[1..n -> Wallets \cup {Nobody}] : n \in {1, 2}}]
<1>1. \A o \in A : OpOK(net, p, o) /\ o.do # "save"
  BY DEF OpOK, OnToken, OnIdentity, OnUser, ByHand, TokenSteps, Others, Roles
<1>2. \A o \in B : OpOK(net, p, o) /\ o.do # "save"
  BY DEF OpOK, OnToken, OnIdentity, OnUser, ByHand, TokenSteps, Others
<1>3. \A o \in C \cup D : OpOK(net, p, o) /\ o.do # "save"
  BY DEF OpOK, OnToken, OnIdentity, OnUser, ByHand, TokenSteps, Others
<1>4. \A s \in NewManagerTask(c) : Good(net, p, s) /\ s # <<>>
  BY ManagerGood DEF NewManagerTask
<1> HIDE DEF A, B, C, D
<1>5. \A s \in One(A) \cup One(B) \cup One(C) \cup One(D) : Good(net, p, s) /\ s # <<>>
  BY <1>1, <1>2, <1>3, OneGood
<1> QED BY <1>4, <1>5 DEF GoodTask, A, B, C, D, CriteriaTask, InitiateTask, ApproveTransferTask,
                          DelegateTask

\* The scripts of the other commands.
LEMMA OtherTasks ==
  ASSUME NEW net, NEW p, NEW c
  PROVE  GoodTask(net, p, EndTransferCalls(c)) /\ GoodTask(net, p, OtherCalls)
<1> DEFINE A == [do: {"cancelTransfer", "rejectTransfer"}, id: 1..Nonce(c), by: Wallets]
           B == [do: {"removeAgent"}, token: Tokens, to: {"ir", "token"}, agent: Wallets,
                 by: Wallets]
           C == [do: {"addClaim", "removeClaim"}, identity: Identities, issuer: Issuers,
                 by: Wallets]
           D == [do: {"addKey", "removeKey"}, identity: Identities, key: Wallets, by: Wallets]
           E == {registerIdentity(t, u, i, k, by) :
                   t \in Tokens, u \in Users, i \in Identities, k \in Countries, by \in Wallets}
<1>1. \A o \in A : OpOK(net, p, o) /\ o.do # "save"
  BY DEF OpOK, OnToken, OnIdentity, OnUser, ByHand, TokenSteps, Others
<1>2. \A o \in B : OpOK(net, p, o) /\ o.do # "save"
  BY DEF OpOK, OnToken, OnIdentity, OnUser, ByHand, TokenSteps, Others
<1>3. \A o \in C \cup D : OpOK(net, p, o) /\ o.do # "save"
  BY DEF OpOK, OnToken, OnIdentity, OnUser, ByHand, TokenSteps, Others
<1>4. \A o \in E : OpOK(net, p, o) /\ o.do # "save"
  <2>1. ASSUME NEW t \in Tokens, NEW u \in Users, NEW i, NEW k, NEW by
        PROVE  /\ OpOK(net, p, registerIdentity(t, u, i, k, by))
               /\ registerIdentity(t, u, i, k, by).do # "save"
    BY ManagerApart
    DEF registerIdentity, OpOK, OnToken, OnIdentity, OnUser, ByHand, TokenSteps, Others
  <2> QED BY <2>1
<1>7. OtherCalls = One(B) \cup One(C) \cup One(D) \cup One(E)
  BY DEF OtherCalls
<1> HIDE DEF A, B, C, D, E
<1>5. \A s \in One(A) \cup One(B) \cup One(C) \cup One(D) \cup One(E) : Good(net, p, s) /\ s # <<>>
  BY <1>1, <1>2, <1>3, <1>4, OneGood
<1>6. EndTransferCalls(c) = One(A)
  BY DEF EndTransferCalls, A
<1> QED BY <1>5, <1>6, <1>7 DEF GoodTask

\* The task that adds an agent, twice.
LEMMA AddAgentTasks ==
  ASSUME NEW net, NEW p
  PROVE  GoodTask(net, p, AddAgentTask)
<1>1. ASSUME NEW t \in Tokens, NEW to \in {"ir", "token"}, NEW agent, NEW by \in Wallets
      PROVE  /\ Good(net, p, <<Hasty(addAgent(t, to, agent, by))>>)
             /\ <<Hasty(addAgent(t, to, agent, by))>> # <<>>
  BY AgentOK, GoodOne
<1> QED BY <1>1 DEF GoodTask, AddAgentTask

\* Every script of every task.
LEMMA ScriptsGood ==
  ASSUME NEW net \in {"hardhat", "fhevm"}, NEW p \in Tokens, NEW c, c.issuers \subseteq Issuers,
         NEW task \in TaskNames
  PROVE  GoodTask(net, p, ScriptsOf(net, c, p, task))
<1>1. GoodTask(net, p, SetupTask(net, c, p))
  BY SetupGood DEF GoodTask, SetupTask
<1>2. GoodTask(net, p, UNION {NewFactoryTask(c, by) : by \in Wallets})
  BY NewFactoryGood DEF GoodTask
<1>3. GoodTask(net, p, NewTokenTask(net, c, p))
  <2>1. Admin \in Wallets /\ Bank \in Wallets /\ c.issuers \in SUBSET Issuers
    BY WalletsAssumption
  <2> QED BY <2>1, TokenNewGood DEF GoodTask, NewTokenTask
<1>4. GoodTask(net, p, IssuerTask(c))
  BY IssuerGood DEF GoodTask, IssuerTask
<1>5. GoodTask(net, p, IdentityTask(c, p))
  <2>1. \A u \in Users : <<u, p>> \in Identities /\ u \in Wallets
    BY WalletsAssumption DEF Identities, Tokens
  <2> QED BY <2>1, IdentityGood DEF GoodTask, IdentityTask
<1> QED BY <1>1, <1>2, <1>3, <1>4, <1>5, SupplyTasks, PauseTasks, TransferTasks, ModuleTasks,
          ManagerTasks, OtherTasks, AddAgentTasks DEF ScriptsOf, TaskNames

-----------------------------------------------------------------------------
(***************************************************************************)
(* The invariant of a session and of the whole.                            *)
(***************************************************************************)
\* The fields of a session.
SessionFields == {"task", "script", "at", "read", "raced", "stale", "outcome"}

\* What an entry rests on is there, or is left by an earlier step of the script.
Backed(c, s) ==
  \A k \in DOMAIN s :
    s[k].do = "save" =>
      \E by \in Wallets :
        \A f \in Needs(s[k].kind, s[k].at, by) : Holds(c, f) \/ Made(s, k, f)

\* What a step that was sent has seen of the chain, and what a step that was mined has
\* left there.
SentInv(c, o) ==
  /\ o.do # "save"
  /\ o.do = "registerManager" => c.suite[o.token].entry[o.user].identity # Nobody
MinedInv(c, o) == o.do # "save" /\ Holds(c, Fact(o))
SessionInv(net, c, p, s) ==
  /\ DOMAIN s = SessionFields
  /\ s.at \in {"idle", "begin", "sent", "mined"}
  /\ s.outcome \in {"none", "ok", "failed", "killed"}
  /\ s.at = "idle" <=> s.script = <<>>
  /\ s.at # "idle" => s.task # "none"
  /\ IsScript(net, p, s.script)
  /\ Backed(c, s.script)
  /\ s.at = "sent" => SentInv(c, Head(s.script))
  /\ s.at = "mined" => MinedInv(c, Head(s.script))

\* The entries of the history rest on what is there.
EntryInv(net, c, kind, at) ==
  /\ Savable(net, kind, at)
  /\ \E by \in Wallets : \A f \in Needs(kind, at, by) : Holds(c, f)
HistoryInv(net, c) ==
  \A entry \in c.history : Len(entry) = 2 /\ EntryInv(net, c, entry[1], entry[2])

\* The in-process network has served one session only, and a token is that session's.
AloneInv(net, c, s) ==
  net = "hardhat" =>
    /\ \A p, q \in Sessions : s[p].task # "none" /\ s[q].task # "none" => p = q
    /\ \A t \in Tokens : c.suite[t].onchainID => s[t].task # "none"

\* What every run of the command line keeps.
CommandInv ==
  /\ network \in {"hardhat", "fhevm"}
  /\ faults \in 0 .. MaxFaults
  /\ ChainInv(network, chain)
  /\ HistoryInv(network, chain)
  /\ session = [p \in Sessions |-> session[p]]
  /\ \A p \in Sessions : SessionInv(network, chain, p, session[p])
  /\ AloneInv(network, chain, session)

-----------------------------------------------------------------------------
\* Nothing goes away when nothing happens.
LEMMA KeepsSame ==
  ASSUME NEW c PROVE Keeps(c, c)
BY DEF Keeps, KeepsRest, KeepsSuite

\* The rest of a script.
LEMMA ScriptTail ==
  ASSUME NEW net, NEW p, NEW s, IsScript(net, p, s), s # <<>>
  PROVE  /\ IsScript(net, p, Tail(s)) /\ OpOK(net, p, Head(s)) /\ Head(s) = s[1]
         /\ 1 \in DOMAIN s /\ Len(s) \in Nat
         /\ Len(s) = 1 <=> Tail(s) = <<>>
         /\ Tail(s) # s
         /\ \A k \in DOMAIN Tail(s) :
              Tail(s)[k] = s[k + 1] /\ k + 1 \in DOMAIN s /\ k \in Nat /\ k >= 1
<1>1. PICK S : s \in Seq(S) /\ \A o \in S : OpOK(net, p, o)
  BY DEF IsScript
<1>2. Tail(s) \in Seq(S) /\ Head(s) \in S /\ Head(s) = s[1] /\ 1 \in DOMAIN s /\ Len(s) \in Nat
  BY <1>1
<1>3. Len(Tail(s)) = Len(s) - 1 /\ DOMAIN Tail(s) = 1 .. (Len(s) - 1) /\ DOMAIN s = 1 .. Len(s)
  BY <1>1
<1>4. \A k \in DOMAIN Tail(s) :
        Tail(s)[k] = s[k + 1] /\ k + 1 \in DOMAIN s /\ k \in Nat /\ k >= 1
  BY <1>1, <1>2, <1>3
<1> DEFINE r == Tail(s)
           n == Len(s)
<1>5. r \in Seq(S) /\ Len(r) = n - 1 /\ n \in Nat /\ Len(s) = n
  BY <1>2, <1>3
<1>6. (n = 1 <=> r = <<>>) /\ r # s
  <2> HIDE DEF r, n
  <2>1. Len(r) # Len(s)
    BY <1>5
  <2>2. r = <<>> <=> Len(r) = 0
    BY <1>5
  <2> QED BY <1>5, <2>1, <2>2
<1>7. IsScript(net, p, Tail(s))
  BY <1>1, <1>2 DEF IsScript
<1> QED BY <1>1, <1>2, <1>4, <1>6, <1>7

\* The steps of a script.
LEMMA ScriptSteps ==
  ASSUME NEW net, NEW p, NEW s, IsScript(net, p, s)
  PROVE  \A k \in DOMAIN s : OpOK(net, p, s[k]) /\ k \in Nat /\ k >= 1
BY DEF IsScript

\* What the first step was there for is there, so the rest of the script is backed.
LEMMA BackedTail ==
  ASSUME NEW net, NEW p, NEW c, NEW s, IsScript(net, p, s), s # <<>>, Backed(c, s),
         Holds(c, Fact(Head(s)))
  PROVE  Backed(c, Tail(s))
<1> DEFINE r == Tail(s)
<1>1. \A k \in DOMAIN r : r[k] = s[k + 1] /\ k + 1 \in DOMAIN s /\ k \in Nat /\ k >= 1
  BY ScriptTail
<1>2. \A k \in DOMAIN s : k \in Nat /\ k >= 1
  BY ScriptSteps
<1>3. Head(s) = s[1] /\ 1 \in DOMAIN s
  BY ScriptTail
<1>4. DOMAIN r = 1 .. Len(s) - 1 /\ DOMAIN s = 1 .. Len(s) /\ Len(s) \in Nat
  BY DEF IsScript
<1> HIDE DEF r
<1> SUFFICES ASSUME NEW k \in DOMAIN r, r[k].do = "save"
             PROVE  \E by \in Wallets :
                      \A f \in Needs(r[k].kind, r[k].at, by) : Holds(c, f) \/ Made(r, k, f)
  BY DEF Backed, r
<1>5. PICK by \in Wallets :
        \A f \in Needs(s[k + 1].kind, s[k + 1].at, by) : Holds(c, f) \/ Made(s, k + 1, f)
  BY <1>1 DEF Backed
<1>6. ASSUME NEW f, Made(s, k + 1, f) PROVE Holds(c, f) \/ Made(r, k, f)
  <2>1. PICK j \in DOMAIN s : j < k + 1 /\ Fact(s[j]) = f
    BY <1>6 DEF Made
  <2>2. CASE j = 1
    BY <1>3, <2>1, <2>2
  <2>3. CASE j # 1
    <3> DEFINE i == j - 1
    <3>1. i \in DOMAIN r /\ i < k /\ j = i + 1
      BY <1>1, <1>2, <1>4, <2>1, <2>3
    <3>2. Fact(r[i]) = f
      BY <1>1, <2>1, <3>1
    <3> HIDE DEF i
    <3> QED BY <3>1, <3>2 DEF Made
  <2> QED BY <2>2, <2>3
<1> QED BY <1>1, <1>5, <1>6

\* A script stays backed whatever other sessions do.
LEMMA BackedStays ==
  ASSUME NEW net, NEW p, NEW c, NEW d, Keeps(c, d), NEW s, IsScript(net, p, s), Backed(c, s)
  PROVE  Backed(d, s)
<1> SUFFICES ASSUME NEW k \in DOMAIN s, s[k].do = "save"
             PROVE  \E by \in Wallets :
                      \A f \in Needs(s[k].kind, s[k].at, by) : Holds(d, f) \/ Made(s, k, f)
  BY DEF Backed
<1>1. PICK by \in Wallets :
        \A f \in Needs(s[k].kind, s[k].at, by) : Holds(c, f) \/ Made(s, k, f)
  BY DEF Backed
<1>2. OpOK(net, p, s[k])
  BY ScriptSteps
<1>3. Savable(net, s[k].kind, s[k].at)
  BY <1>2 DEF OpOK
<1>4. \A f \in Needs(s[k].kind, s[k].at, by) : FactOK(f)
  BY <1>3, NeedsOK
<1> QED BY <1>1, <1>4, FactsStay

\* A script is backed when it is started.
LEMMA GoodBacked ==
  ASSUME NEW net, NEW p, NEW s, Good(net, p, s), NEW c
  PROVE  IsScript(net, p, s) /\ Backed(c, s)
BY DEF Good, GoodAfter, RestsOn, Backed

\* A session whose task has ended.
LEMMA EndedInv ==
  ASSUME NEW net, NEW p, NEW c, NEW s, DOMAIN s = SessionFields, s.script = <<>>, s.at = "idle",
         s.outcome \in {"none", "ok", "failed", "killed"}
  PROVE  SessionInv(net, c, p, s)
<1>1. IsScript(net, p, <<>>) /\ Backed(c, <<>>)
  BY GoodEmpty, GoodBacked
<1> QED BY <1>1 DEF SessionInv

\* Past the first step of the script.
Onward(s) ==
  IF Len(s.script) = 1 THEN [s EXCEPT !.script = <<>>, !.at = "idle", !.outcome = "ok"]
  ELSE [s EXCEPT !.script = Tail(@), !.at = "begin"]

\* The rest of its script, after a step that has left what it is there for.
LEMMA AdvancedInv ==
  ASSUME NEW net, NEW p, NEW c, NEW s, SessionInv(net, c, p, s), s.at # "idle",
         Holds(c, Fact(Head(s.script)))
  PROVE  SessionInv(net, c, p, Onward(s)) /\ Onward(s).task = s.task
<1> DEFINE r == Onward(s)
<1>1. CASE Len(s.script) = 1
  <2>1. /\ DOMAIN r = SessionFields /\ r.script = <<>> /\ r.at = "idle" /\ r.outcome = "ok"
        /\ r.task = s.task
    BY <1>1 DEF SessionInv, SessionFields, Onward
  <2> HIDE DEF r
  <2> QED BY <2>1, EndedInv DEF r
<1>2. CASE Len(s.script) # 1
  <2>1. /\ DOMAIN r = SessionFields /\ r.script = Tail(s.script) /\ r.at = "begin"
        /\ r.outcome = s.outcome /\ r.task = s.task
    BY <1>2 DEF SessionInv, SessionFields, Onward
  <2>2. IsScript(net, p, s.script) /\ s.script # <<>> /\ Backed(c, s.script)
    BY DEF SessionInv
  <2> HIDE DEF r
  <2>3. IsScript(net, p, r.script) /\ r.script # <<>>
    BY <1>2, <2>1, <2>2, ScriptTail
  <2>4. Backed(c, r.script)
    BY <2>1, <2>2, BackedTail
  <2> QED BY <2>1, <2>3, <2>4 DEF SessionInv, r
<1> QED BY <1>1, <1>2

\* What another session's transaction leaves of a session.
Alike(s, r) ==
  /\ DOMAIN r = DOMAIN s
  /\ r.task = s.task /\ r.script = s.script /\ r.at = s.at /\ r.outcome = s.outcome

\* A session keeps its invariant while another's transaction is mined.
LEMMA SessionStays ==
  ASSUME NEW net, NEW p, NEW c, NEW d, Keeps(c, d), NEW s, SessionInv(net, c, p, s),
         NEW r, Alike(s, r)
  PROVE  SessionInv(net, d, p, r)
<1> DEFINE o == Head(s.script)
<1>1. IsScript(net, p, s.script) /\ Backed(d, s.script)
  BY BackedStays DEF SessionInv
<1>2. s.at # "idle" => OpOK(net, p, o)
  BY <1>1, ScriptTail DEF SessionInv
<1>3. s.at = "sent" => SentInv(d, o)
  <2> SUFFICES ASSUME s.at = "sent", o.do = "registerManager"
               PROVE  d.suite[o.token].entry[o.user].identity # Nobody
    BY DEF SessionInv, SentInv
  <2>1. c.suite[o.token].entry[o.user].identity # Nobody
    BY DEF SessionInv, SentInv
  <2>2. c.suite[o.token].entry[o.user] # NoEntry
    BY <2>1 DEF NoEntry
  <2>3. o.token \in Tokens /\ o.user \in Holders
    BY <1>2 DEF OpOK, OnToken, OnUser, Holders
  <2> HIDE DEF o
  <2>4. d.suite[o.token].entry[o.user] = c.suite[o.token].entry[o.user]
    BY <2>2, <2>3 DEF Keeps, KeepsSuite
  <2> QED BY <2>1, <2>4
<1>4. s.at = "mined" => MinedInv(d, o)
  <2> SUFFICES ASSUME s.at = "mined" PROVE MinedInv(d, o)
    OBVIOUS
  <2>1. o.do # "save" /\ Holds(c, Fact(o))
    BY DEF SessionInv, MinedInv
  <2>2. FactOK(Fact(o))
    BY <1>2, FactIsOK
  <2> HIDE DEF o
  <2>3. Holds(d, Fact(o))
    BY <2>1, <2>2, FactsStay
  <2> QED BY <2>1, <2>3 DEF MinedInv
<1> HIDE DEF o
<1> QED BY <1>1, <1>3, <1>4 DEF SessionInv, Alike, o

\* The entries of the history keep theirs.
LEMMA HistoryStays ==
  ASSUME NEW net, NEW c, NEW d, Keeps(c, d), HistoryInv(net, c), d.history = c.history
  PROVE  HistoryInv(net, d)
<1> SUFFICES ASSUME NEW entry \in c.history
             PROVE  Len(entry) = 2 /\ EntryInv(net, d, entry[1], entry[2])
  BY DEF HistoryInv
<1>1. Len(entry) = 2 /\ EntryInv(net, c, entry[1], entry[2])
  BY DEF HistoryInv
<1>2. PICK by \in Wallets : \A f \in Needs(entry[1], entry[2], by) : Holds(c, f)
  BY <1>1 DEF EntryInv
<1>3. Savable(net, entry[1], entry[2])
  BY <1>1 DEF EntryInv
<1>4. \A f \in Needs(entry[1], entry[2], by) : Holds(d, f)
  BY <1>2, <1>3, NeedsOK, FactsStay
<1> QED BY <1>1, <1>3, <1>4 DEF EntryInv

-----------------------------------------------------------------------------
\* An entry is saved when what it rests on is there.
LEMMA SaveSound ==
  ASSUME NEW net, NEW p, NEW c, ChainInv(net, c), HistoryInv(net, c),
         NEW s, IsScript(net, p, s), s # <<>>, Backed(c, s), Head(s).do = "save",
         NEW d, d = Save(c, Head(s))
  PROVE  /\ ChainInv(net, d) /\ HistoryInv(net, d) /\ Keeps(c, d)
         /\ \A t \in Tokens : d.suite[t].onchainID = c.suite[t].onchainID
<1> DEFINE o == Head(s)
<1>1. DOMAIN c = ChainFields
  BY DEF ChainInv, ChainOK
<1>2. /\ DOMAIN d = ChainFields
      /\ \A f \in ChainFields \ {"history"} : d[f] = c[f]
      /\ d.history = c.history \cup {<<o.kind, o.at>>}
  BY <1>1 DEF Save, ChainFields
<1>3. /\ d.infra = c.infra /\ d.version = c.version /\ d.linked = c.linked
      /\ d.idSalts = c.idSalts /\ d.factoryToken = c.factoryToken /\ d.issuers = c.issuers
      /\ d.identity = c.identity /\ d.suite = c.suite /\ d.module = c.module /\ d.dva = c.dva
  BY <1>2 DEF ChainFields
<1>4. Keeps(c, d)
  BY <1>3 DEF Keeps, KeepsRest, KeepsSuite
<1>5. ChainInv(net, d)
  <2>1. ChainOK(d)
    BY <1>2, <1>3 DEF ChainInv, ChainOK
  <2>2. SaltInv(net, d)
    BY <1>3 DEF ChainInv, SaltInv, DeployedOnce
  <2>3. \A t : Owed(d, t) = Owed(c, t)
    BY <1>3 DEF Owed
  <2>4. EscrowInv(d)
    BY <1>3, <2>3 DEF ChainInv, EscrowInv
  <2> QED BY <2>1, <2>2, <2>4 DEF ChainInv
<1>6. EntryInv(net, d, o.kind, o.at)
  <2>1. OpOK(net, p, o) /\ o = s[1] /\ 1 \in DOMAIN s
    BY ScriptTail
  <2>2. Savable(net, o.kind, o.at)
    BY <2>1 DEF OpOK
  <2>3. PICK by \in Wallets : \A f \in Needs(o.kind, o.at, by) : Holds(c, f) \/ Made(s, 1, f)
    BY <2>1 DEF Backed
  <2>4. \A f : ~Made(s, 1, f)
    BY ScriptSteps DEF Made
  <2>5. \A f \in Needs(o.kind, o.at, by) : Holds(d, f)
    BY <1>4, <2>2, <2>3, <2>4, NeedsOK, FactsStay
  <2> QED BY <2>2, <2>5 DEF EntryInv
<1> HIDE DEF o
<1>7. HistoryInv(net, d)
  <2>1. ASSUME NEW entry \in c.history PROVE Len(entry) = 2 /\ EntryInv(net, d, entry[1], entry[2])
    <3>1. Len(entry) = 2 /\ EntryInv(net, c, entry[1], entry[2])
      BY DEF HistoryInv
    <3>2. PICK by \in Wallets : \A f \in Needs(entry[1], entry[2], by) : Holds(c, f)
      BY <3>1 DEF EntryInv
    <3>3. Savable(net, entry[1], entry[2])
      BY <3>1 DEF EntryInv
    <3> QED BY <1>4, <3>1, <3>2, <3>3, NeedsOK, FactsStay DEF EntryInv
  <2>2. \A x, y : Len(<<x, y>>) = 2 /\ <<x, y>>[1] = x /\ <<x, y>>[2] = y
    OBVIOUS
  <2> QED BY <1>2, <1>6, <2>1, <2>2 DEF HistoryInv
<1> QED BY <1>3, <1>4, <1>5, <1>7

\* A step that was sent leaves what it is there for.
LEMMA FactMade ==
  ASSUME NEW net, NEW p, NEW c, ChainInv(net, c), NEW o, OpOK(net, p, o), SentInv(c, o),
         StepOf(c, o).accepts
  PROVE  MinedInv(StepOf(c, o).after, o)
<1> DEFINE d == StepOf(c, o).after
<1>0. ChainOK(c) /\ DOMAIN c = ChainFields
  BY DEF ChainInv, ChainOK
<1>1. CASE o.do = "deploy"
  <2>1. d = [c EXCEPT !.infra[o.what] = o.by]
    BY <1>1 DEF StepOf, SuiteStep, TokenSteps, Deploy, Step
  <2>2. d.infra[o.what] = o.by
    BY <1>0, <1>1, <2>1 DEF OpOK, ChainOK, ChainFields
  <2> HIDE DEF d
  <2> QED BY <1>1, <2>2 DEF MinedInv, Fact, Holds, d
<1>2. CASE o.do = "useVersion"
  <2>1. d = [c EXCEPT !.version = TRUE]
    BY <1>2 DEF StepOf, SuiteStep, TokenSteps, UseVersion, Step
  <2>2. d.version
    BY <1>0, <2>1 DEF ChainFields
  <2> HIDE DEF d
  <2> QED BY <1>2, <2>2 DEF MinedInv, Fact, Holds, d
<1>3. CASE o.do = "addTokenFactory"
  <2>1. d = [c EXCEPT !.linked = TRUE]
    BY <1>3 DEF StepOf, SuiteStep, TokenSteps, AddTokenFactory, Step
  <2>2. d.linked
    BY <1>0, <2>1 DEF ChainFields
  <2> HIDE DEF d
  <2> QED BY <1>3, <2>2 DEF MinedInv, Fact, Holds, d
<1>4. CASE o.do = "deployIssuer"
  <2>1. d = [c EXCEPT !.issuers = @ \cup {o.issuer}]
    BY <1>4 DEF StepOf, SuiteStep, TokenSteps, DeployIssuer, Step
  <2>2. o.issuer \in d.issuers
    BY <1>0, <2>1 DEF ChainFields
  <2> HIDE DEF d
  <2> QED BY <1>4, <2>2 DEF MinedInv, Fact, Holds, d
<1>5. CASE o.do = "deployIdentity"
  <2>1. d = [c EXCEPT !.identity[o.identity] = [deployed |-> TRUE, keys |-> {o.by}, claims |-> {}]]
    BY <1>5 DEF StepOf, SuiteStep, TokenSteps, DeployIdentity, Step
  <2>2. o.identity \in Identities
    BY <1>5 DEF OpOK, OnIdentity
  <2>3. d.identity[o.identity].deployed
    BY <1>0, <2>1, <2>2 DEF ChainOK, ChainFields
  <2> HIDE DEF d
  <2> QED BY <1>5, <2>3 DEF MinedInv, Fact, Holds, d
<1>6. CASE o.do = "deployTREXSuite"
  <2>1. d = [c EXCEPT !.suite[o.token] = Complete(o), !.factoryToken = o.token,
                      !.idSalts = @ \cup {Salt}]
    BY <1>6 DEF StepOf, SuiteStep, TokenSteps, DeployTREXSuite, Step
  <2>2. o.token \in Tokens
    BY <1>6 DEF OpOK, OnToken
  <2>3. d.suite[o.token] = Complete(o)
    BY <1>0, <2>1, <2>2 DEF ChainOK, ChainFields
  <2>4. d.suite[o.token].onchainID
    BY <2>3 DEF Complete, NewSuite
  <2> HIDE DEF d
  <2> QED BY <1>6, <2>4 DEF MinedInv, Fact, Holds, d
<1>7. CASE o.do = "deployManager"
  <2>1. d = [c EXCEPT !.dva.deployed = TRUE]
    BY <1>7 DEF StepOf, TokenStep, TokenSteps, DeployManager, Step
  <2>2. d.dva.deployed
    BY <1>0, <2>1 DEF ChainOK, ChainFields, DvaOK, DvaFields
  <2> HIDE DEF d
  <2> QED BY <1>7, <2>2 DEF MinedInv, Fact, Holds, d
<1>8. CASE o.do = "registerManager"
  <2> DEFINE i == c.suite[o.token].entry[o.user].identity
             e == [identity |-> i, country |-> o.country]
  <2>1. d = [c EXCEPT !.suite[o.token].entry[Manager] = e]
    BY <1>8 DEF StepOf, TokenStep, TokenSteps, RegisterManager, Step
  <2>2. o.token \in Tokens /\ SuiteOK(o.token, c.suite[o.token]) /\ Manager \in Holders
    BY <1>0, <1>8 DEF OpOK, OnToken, ChainOK, Holders
  <2>3. e # NoEntry
    <3>1. e.identity = i /\ NoEntry.identity = Nobody
      BY DEF NoEntry
    <3>2. i # Nobody
      BY <1>8 DEF SentInv
    <3> HIDE DEF e, i
    <3> QED BY <3>1, <3>2
  <2> HIDE DEF e, i
  <2>4. d.suite[o.token].entry[Manager] = e
    BY <1>0, <2>1, <2>2 DEF ChainOK, ChainFields, SuiteOK, SuiteFields
  <2> HIDE DEF d
  <2> QED BY <1>8, <2>2, <2>3, <2>4 DEF MinedInv, Fact, Holds, d
<1>9. CASE o.do \notin {"deploy", "useVersion", "addTokenFactory", "deployIssuer",
                        "deployIdentity", "deployTREXSuite", "deployManager", "registerManager"}
  <2>1. Fact(o) = <<"nothing", Nobody, Nobody>>
    BY <1>9 DEF Fact
  <2> QED BY <2>1 DEF MinedInv, SentInv, Holds
<1> QED BY <1>1, <1>2, <1>3, <1>4, <1>5, <1>6, <1>7, <1>8, <1>9

\* A step that is passed has nothing to leave.
LEMMA NothingPassed ==
  ASSUME NEW c, NEW o, StepOf(c, o).done, o.do # "save"
  PROVE  Holds(c, Fact(o))
<1>1. CASE o.do \in {"deploy", "useVersion", "addTokenFactory", "deployIssuer",
                     "deployIdentity", "deployTREXSuite", "deployManager", "registerManager"}
  <2>1. StepOf(c, o).done = FALSE
    BY <1>1 DEF StepOf, TokenSteps, TokenStep, SuiteStep, Deploy, UseVersion, AddTokenFactory,
                DeployIssuer, DeployIdentity, DeployTREXSuite, DeployManager, RegisterManager, Step
  <2> QED BY <2>1
<1>2. CASE o.do \notin {"deploy", "useVersion", "addTokenFactory", "deployIssuer",
                        "deployIdentity", "deployTREXSuite", "deployManager", "registerManager"}
  <2>1. Fact(o) = <<"nothing", Nobody, Nobody>>
    BY <1>2 DEF Fact
  <2> QED BY <2>1 DEF Holds
<1> QED BY <1>1, <1>2

-----------------------------------------------------------------------------
(***************************************************************************)
(* Every step of Next keeps the invariant.                                 *)
(***************************************************************************)
\* A node that was just started.
LEMMA NewChainInv ==
  ASSUME NEW net
  PROVE  ChainInv(net, NewChain) /\ HistoryInv(net, NewChain)
         /\ \A t \in Tokens : ~NewChain.suite[t].onchainID
<1> DEFINE c == NewChain
           s == NewSuite
<1>1. /\ DOMAIN c = ChainFields /\ c.suite = [t \in Tokens |-> s] /\ c.history = {}
      /\ c.infra = [x \in Infra |-> Nobody] /\ c.issuers = {}
      /\ c.identity = [i \in Identities |-> [deployed |-> FALSE, keys |-> {}, claims |-> {}]]
      /\ c.module = [m \in Modules |-> [owner |-> Nobody, limit |-> 0, allowed |-> {},
                                        exchanges |-> {}, limits |-> {}]]
      /\ c.dva = [deployed |-> FALSE, criteria |-> {}, transfers |-> <<>>,
                   surplus |-> [t \in Tokens |-> 0], burned |-> [t \in Tokens |-> 0]]
  BY DEF NewChain, ChainFields
<1>2. /\ DOMAIN s = SuiteFields /\ ~s.onchainID /\ s.irAgents = {} /\ s.modules = <<>>
      /\ s.owner = [x \in Parts |-> Nobody] /\ s.entry = [h \in Holders |-> NoEntry]
      /\ s.balance = [h \in Holders |-> 0] /\ s.frozen = [h \in Holders |-> 0]
  BY DEF NewSuite, SuiteFields
<1> HIDE DEF c, s
<1>3. Manager \in Holders
  BY DEF Holders
<1>4. ASSUME NEW t \in Tokens PROVE SuiteOK(t, s)
  <2>1. s.modules \in Seq(OwnModules(t)) /\ DOMAIN s.modules = {}
    BY <1>2
  <2> QED BY <1>2, <1>3, <2>1 DEF SuiteOK
<1>5. c.dva.transfers = <<>> /\ c.dva.criteria = {} /\ DOMAIN c.dva.transfers = {}
  BY <1>1
<1>6. ChainOK(c)
  <2>1. DvaOK(c.dva)
    BY <1>1 DEF DvaOK, DvaFields
  <2> QED BY <1>1, <1>4, <2>1 DEF ChainOK
<1>7. SaltInv(net, c)
  BY <1>1, <1>2, <1>3, <1>5 DEF SaltInv, DeployedOnce, Untold
<1>8. ASSUME NEW t \in Tokens PROVE Owed(c, t) = 0
  <2>1. Owed(c, t) = SumOf([id \in {} |-> 0])
    BY <1>5 DEF Owed
  <2> QED BY <2>1, SumZero
<1>9. EscrowInv(c)
  BY <1>1, <1>2, <1>3, <1>8 DEF EscrowInv
<1> QED BY <1>1, <1>2, <1>6, <1>7, <1>9 DEF ChainInv, HistoryInv, c

\* The invariant holds of the initial states.
LEMMA InitInv == Init => CommandInv
<1> SUFFICES ASSUME Init PROVE CommandInv
  OBVIOUS
<1>1. /\ ChainInv(network, chain) /\ HistoryInv(network, chain)
      /\ \A t \in Tokens : ~chain.suite[t].onchainID
  BY NewChainInv DEF Init
<1>2. faults \in 0 .. MaxFaults
  BY MaxFaultsAssumption DEF Init
<1>3. /\ DOMAIN Idle = SessionFields /\ Idle.script = <<>> /\ Idle.at = "idle"
      /\ Idle.outcome = "none" /\ Idle.task = "none"
  BY DEF Idle, SessionFields
<1>4. \A p \in Sessions : session[p] = Idle
  BY DEF Init
<1>5. \A p \in Sessions : SessionInv(network, chain, p, session[p])
  BY <1>3, <1>4, EndedInv
<1>6. AloneInv(network, chain, session)
  BY <1>1, <1>3, <1>4 DEF AloneInv, Tokens
<1>7. session = [p \in Sessions |-> session[p]] /\ network \in {"hardhat", "fhevm"}
  BY DEF Init
<1> QED BY <1>1, <1>2, <1>5, <1>6, <1>7 DEF CommandInv

\* The sessions after a step of one of them.
Moves(p, s) ==
  /\ session' = [q \in Sessions |-> session'[q]]
  /\ session'[p] = s
  /\ \A q \in Sessions \ {p} : Alike(session[q], session'[q])

\* A step of one session leaves the others where they are.
LEMMA MovesOne ==
  ASSUME CommandInv, NEW p \in Sessions, NEW s, session' = [session EXCEPT ![p] = s]
  PROVE  Moves(p, s)
BY DEF CommandInv, Moves, Alike

\* So does a transaction that is mined, but for what it makes the others remember.
LEMMA MovesMined ==
  ASSUME CommandInv, NEW p \in Sessions, NEW s, session' = AsMined(p, s)
  PROVE  Moves(p, s)
<1>1. session' = [q \in Sessions |-> session'[q]] /\ session'[p] = s
  BY DEF AsMined
<1>2. ASSUME NEW q \in Sessions \ {p} PROVE Alike(session[q], session'[q])
  <2> DEFINE r == session[q]
             b == r.raced \/ Busy(q)
             e == Busy(q)
  <2>1. session'[q] = [r EXCEPT !.raced = b, !.stale = e]
    BY DEF AsMined
  <2>2. DOMAIN r = SessionFields
    BY DEF CommandInv, SessionInv
  <2> HIDE DEF r, b, e
  <2>3. Alike(r, session'[q])
    BY <2>1, <2>2 DEF Alike, SessionFields
  <2> QED BY <2>3 DEF r
<1> QED BY <1>1, <1>2 DEF Moves

\* The invariant is kept by a step of session p that leaves its own part in order.
LEMMA KeptBy ==
  ASSUME CommandInv, NEW p \in Sessions, NEW s, Moves(p, s), UNCHANGED network,
         faults' \in 0 .. MaxFaults, ChainInv(network, chain'), HistoryInv(network, chain'),
         Keeps(chain, chain'), SessionInv(network, chain', p, s),
         AloneInv(network, chain', session')
  PROVE  CommandInv'
<1>1. \A q \in Sessions : SessionInv(network, chain', q, session'[q])
  BY SessionStays DEF CommandInv, Moves
<1> QED BY <1>1 DEF CommandInv, Moves

\* A session that goes on is the one the in-process network serves.
LEMMA AloneKept ==
  ASSUME CommandInv, NEW p \in Sessions, NEW s, Moves(p, s), s.task = session[p].task,
         session[p].task # "none",
         \A t \in Tokens : chain'.suite[t].onchainID => chain.suite[t].onchainID \/ t = p
  PROVE  AloneInv(network, chain', session')
BY DEF CommandInv, AloneInv, Moves, Alike, Tokens

\* A busy session has a step to take.
LEMMA NowOK ==
  ASSUME CommandInv, NEW p \in Sessions, session[p].at # "idle"
  PROVE  /\ OpOK(network, p, Now(p)) /\ session[p].script # <<>> /\ session[p].task # "none"
         /\ IsScript(network, p, session[p].script) /\ Backed(chain, session[p].script)
         /\ SessionInv(network, chain, p, session[p])
BY ScriptTail DEF CommandInv, SessionInv, Now

\* A task that ends, whatever its outcome.
LEMMA EndedKept ==
  ASSUME CommandInv, NEW p \in Sessions, NEW x \in {"ok", "failed", "killed"}, NEW c
  PROVE  /\ SessionInv(network, c, p, Ended(p, x)) /\ Ended(p, x).task = session[p].task
         /\ SessionInv(network, c, p, [Ended(p, x) EXCEPT !.raced = TRUE])
         /\ [Ended(p, x) EXCEPT !.raced = TRUE].task = session[p].task
<1> DEFINE s == Ended(p, x)
           r == [s EXCEPT !.raced = TRUE]
<1>1. /\ DOMAIN s = SessionFields /\ s.script = <<>> /\ s.at = "idle" /\ s.outcome = x
      /\ s.task = session[p].task
  BY DEF CommandInv, SessionInv, SessionFields, Ended
<1> HIDE DEF s
<1>2. /\ DOMAIN r = SessionFields /\ r.script = <<>> /\ r.at = "idle" /\ r.outcome = x
      /\ r.task = session[p].task
  BY <1>1 DEF SessionFields
<1> HIDE DEF r
<1>3. SessionInv(network, c, p, s) /\ SessionInv(network, c, p, r)
  BY <1>1, <1>2, EndedInv
<1> QED BY <1>1, <1>2, <1>3 DEF s, r

\* A session that goes on to its next step.
LEMMA AdvancedKept ==
  ASSUME CommandInv, NEW p \in Sessions, session[p].at # "idle", NEW c, Keeps(chain, c),
         Holds(c, Fact(Now(p)))
  PROVE  SessionInv(network, c, p, Advanced(p)) /\ Advanced(p).task = session[p].task
<1> DEFINE s == session[p]
           r == Advanced(p)
<1>1. SessionInv(network, c, p, s)
  <2>1. Alike(s, s)
    BY DEF Alike
  <2> QED BY <2>1, NowOK, SessionStays
<1>2. r = Onward(s)
  BY DEF Advanced, Ended, Onward
<1>3. Holds(c, Fact(Head(s.script))) /\ s.at # "idle"
  BY DEF Now
<1> HIDE DEF s, r
<1>4. SessionInv(network, c, p, r) /\ r.task = s.task
  BY <1>1, <1>2, <1>3, AdvancedInv
<1> QED BY <1>4 DEF s, r

-----------------------------------------------------------------------------
\* A task that is started has a script that is backed; the in-process network serves one session.
LEMMA StartKeeps ==
  ASSUME CommandInv, NEW p \in Sessions, NEW task \in TaskNames, Start(p, task)
  PROVE  CommandInv'
<1>1. PICK script \in ScriptsOf(network, chain, p, task) :
        session' = [session EXCEPT ![p] =
          [Idle EXCEPT !.task = task, !.script = script, !.at = "begin"]]
  BY DEF Start
<1> DEFINE s == [Idle EXCEPT !.task = task, !.script = script, !.at = "begin"]
<1>2. /\ DOMAIN s = SessionFields /\ s.script = script /\ s.at = "begin" /\ s.outcome = "none"
      /\ s.task = task /\ task # "none"
  BY DEF Idle, SessionFields, TaskNames
<1>3. Moves(p, s)
  BY <1>1, MovesOne
<1> HIDE DEF s
<1>4. Good(network, p, script) /\ script # <<>>
  <2>1. chain.issuers \subseteq Issuers /\ network \in {"hardhat", "fhevm"} /\ p \in Tokens
    BY DEF CommandInv, ChainInv, ChainOK, Tokens
  <2> QED BY <2>1, ScriptsGood DEF GoodTask
<1>5. SessionInv(network, chain, p, s)
  BY <1>2, <1>4, GoodBacked DEF SessionInv
<1>6. UNCHANGED <<network, chain, faults>>
  BY DEF Start
<1>7. AloneInv(network, chain, session')
  <2> SUFFICES ASSUME network = "hardhat"
               PROVE  /\ \A q, r \in Sessions :
                           session'[q].task # "none" /\ session'[r].task # "none" => q = r
                      /\ \A t \in Tokens : chain.suite[t].onchainID => session'[t].task # "none"
    BY DEF AloneInv
  <2>1. \A q \in Sessions : q # p => session[q].task = "none"
    BY DEF Start, Alone
  <2>2. \A q \in Sessions \ {p} : session'[q].task = "none"
    BY <1>3, <2>1 DEF Moves, Alike
  <2>3. session'[p].task # "none"
    BY <1>2, <1>3 DEF Moves
  <2>4. \A t \in Tokens : chain.suite[t].onchainID => t = p
    BY <2>1 DEF CommandInv, AloneInv, Tokens
  <2> QED BY <2>2, <2>3, <2>4
<1> QED BY <1>3, <1>5, <1>6, <1>7, KeptBy, KeepsSame DEF CommandInv

\* An entry is saved when what it rests on is there.
LEMMA RecordKeeps ==
  ASSUME CommandInv, NEW p \in Sessions, Record(p)
  PROVE  CommandInv'
<1> DEFINE s == Advanced(p)
           o == Now(p)
<1>1. session[p].at # "idle" /\ o.do = "save"
  BY DEF Record
<1>2. chain' = Save(chain, o) /\ UNCHANGED <<network, faults>> /\ Moves(p, s)
  <2>1. session' = [session EXCEPT ![p] = s]
    BY DEF Record
  <2> HIDE DEF s
  <2> QED BY <2>1, MovesOne DEF Record
<1>3. /\ ChainInv(network, chain') /\ HistoryInv(network, chain') /\ Keeps(chain, chain')
      /\ \A t \in Tokens : chain'.suite[t].onchainID = chain.suite[t].onchainID
  <2> DEFINE script == session[p].script
  <2>1. /\ ChainInv(network, chain) /\ HistoryInv(network, chain)
        /\ IsScript(network, p, script) /\ script # <<>> /\ Backed(chain, script)
    BY <1>1, NowOK DEF CommandInv
  <2>2. Head(script).do = "save" /\ chain' = Save(chain, Head(script))
    BY <1>1, <1>2 DEF Now
  <2> HIDE DEF script
  <2> QED BY <2>1, <2>2, SaveSound
<1>4. Holds(chain', Fact(o))
  BY <1>1 DEF Fact, Holds
<1>5. SessionInv(network, chain', p, s) /\ s.task = session[p].task
  BY <1>1, <1>3, <1>4, AdvancedKept
<1>6. session[p].task # "none"
  BY <1>1, NowOK
<1> HIDE DEF s, o
<1>7. AloneInv(network, chain', session')
  BY <1>2, <1>3, <1>5, <1>6, AloneKept
<1> QED BY <1>2, <1>3, <1>5, <1>7, KeptBy DEF CommandInv

\* A step that fails its checks, that has nothing to do, or that is sent.
LEMMA BeginKeeps ==
  ASSUME CommandInv, NEW p \in Sessions, Begin(p)
  PROVE  CommandInv'
<1> DEFINE o == Now(p)
           step == StepNow(p)
           sent == [session[p] EXCEPT !.at = "sent", !.read = Nonce(chain), !.stale = FALSE]
           s == IF ~step.checks THEN Ended(p, "failed")
                ELSE IF step.done THEN Advanced(p)
                ELSE sent
<1>1. /\ session[p].at # "idle" /\ o.do # "save" /\ UNCHANGED <<network, chain, faults>>
      /\ step = StepOf(chain, o)
  BY DEF Begin, StepNow
<1>2. session' = [session EXCEPT ![p] = s]
  BY DEF Begin
<1>3. Moves(p, s)
  <2> HIDE DEF s
  <2> QED BY <1>2, MovesOne
<1>4. session[p].task # "none" /\ OpOK(network, p, o) /\ SessionInv(network, chain, p, session[p])
      /\ Keeps(chain, chain)
  BY <1>1, NowOK, KeepsSame
<1>5. CASE ~step.checks
  <2>1. s = Ended(p, "failed")
    BY <1>5
  <2> QED BY <2>1, <1>1, <1>3, <1>4, EndedKept, AloneKept, KeptBy DEF CommandInv
<1>6. CASE step.checks /\ step.done
  <2>1. s = Advanced(p)
    BY <1>6
  <2>2. Holds(chain, Fact(o))
    BY <1>1, <1>6, NothingPassed
  <2>3. SessionInv(network, chain, p, s) /\ s.task = session[p].task
    BY <1>1, <1>4, <2>1, <2>2, AdvancedKept
  <2> HIDE DEF s
  <2> QED BY <2>3, <1>1, <1>3, <1>4, AloneKept, KeptBy DEF CommandInv
<1>7. CASE step.checks /\ ~step.done
  <2>1. s = sent
    BY <1>7
  <2>2. /\ DOMAIN s = SessionFields /\ s.at = "sent" /\ s.script = session[p].script
        /\ s.outcome = session[p].outcome /\ s.task = session[p].task
    <3>1. DOMAIN session[p] = SessionFields
      BY <1>4 DEF SessionInv
    <3> QED BY <2>1, <3>1 DEF SessionFields
  <2>3. SentInv(chain, o)
    <3> SUFFICES ASSUME o.do = "registerManager"
                 PROVE  chain.suite[o.token].entry[o.user].identity # Nobody
      BY <1>1 DEF SentInv
    <3> HIDE DEF o
    <3>1. step.checks <=> RegisterManager(chain, o).checks
      BY <1>1 DEF StepOf, TokenStep, TokenSteps, RegisterManager, Step
    <3> QED BY <1>7, <3>1 DEF RegisterManager, Step
  <2> HIDE DEF s
  <2>4. SessionInv(network, chain, p, s)
    BY <1>1, <1>4, <2>2, <2>3 DEF SessionInv, Now
  <2> QED BY <2>2, <2>4, <1>1, <1>3, <1>4, AloneKept, KeptBy DEF CommandInv
<1> QED BY <1>5, <1>6, <1>7

\* A transaction that is mined, whatever its session makes of it.
LEMMA MinedKeeps ==
  ASSUME CommandInv, NEW p \in Sessions, session[p].at = "sent", StepNow(p).accepts,
         chain' = StepNow(p).after, UNCHANGED network, faults' \in 0 .. MaxFaults,
         NEW s, session' = AsMined(p, s), s.task = session[p].task,
         SessionInv(network, chain', p, s)
  PROVE  CommandInv'
<1>1. Moves(p, s)
  BY MovesMined
<1>2. /\ OpOK(network, p, Now(p)) /\ Now(p).do # "save" /\ session[p].task # "none"
  BY NowOK DEF SessionInv, SentInv, Now
<1>3. Sound(network, p, chain, chain')
  <2>1. ChainInv(network, chain)
    BY DEF CommandInv
  <2> QED BY <1>2, <2>1, StepSound DEF StepNow
<1>4. HistoryInv(network, chain')
  BY <1>3, HistoryStays DEF CommandInv, Sound
<1>5. AloneInv(network, chain', session')
  BY <1>1, <1>2, <1>3, AloneKept DEF Sound
<1> QED BY <1>1, <1>3, <1>4, <1>5, KeptBy DEF Sound

\* A transaction that is mined, or reverted.
LEMMA MineKeeps ==
  ASSUME CommandInv, NEW p \in Sessions, Mine(p)
  PROVE  CommandInv'
<1>1. session[p].at = "sent" /\ UNCHANGED <<network, faults>> /\ faults' \in 0 .. MaxFaults
  BY DEF Mine, CommandInv
<1>2. CASE StepNow(p).accepts
  <2> DEFINE s == [session[p] EXCEPT !.at = "mined"]
             o == Now(p)
  <2>1. chain' = StepNow(p).after /\ session' = AsMined(p, s)
    BY <1>2 DEF Mine
  <2>2. SessionInv(network, chain, p, session[p]) /\ OpOK(network, p, o)
    BY <1>1, NowOK
  <2>3. SentInv(chain, o)
    BY <1>1, <2>2 DEF SessionInv, Now
  <2>4. Sound(network, p, chain, chain') /\ MinedInv(chain', o)
    <3>1. ChainInv(network, chain) /\ o.do # "save" /\ StepNow(p) = StepOf(chain, o)
      BY <2>3 DEF CommandInv, SentInv, StepNow
    <3> HIDE DEF o
    <3> QED BY <1>2, <2>1, <2>2, <2>3, <3>1, StepSound, FactMade
  <2>5. /\ DOMAIN s = SessionFields /\ s.at = "mined" /\ s.script = session[p].script
        /\ s.outcome = session[p].outcome /\ s.task = session[p].task
    BY <2>2 DEF SessionInv, SessionFields
  <2>6. SessionInv(network, chain', p, session[p])
    <3>1. Alike(session[p], session[p])
      BY DEF Alike
    <3> QED BY <2>2, <2>4, <3>1, SessionStays DEF Sound
  <2> HIDE DEF s
  <2>7. SessionInv(network, chain', p, s)
    BY <1>1, <2>4, <2>5, <2>6 DEF SessionInv, Now
  <2> QED BY <1>1, <1>2, <2>1, <2>5, <2>7, MinedKeeps
<1>3. CASE ~StepNow(p).accepts
  <2> DEFINE s == Ended(p, "failed")
  <2>1. chain' = chain /\ session' = [session EXCEPT ![p] = s]
    BY <1>3 DEF Mine
  <2>2. SessionInv(network, chain, p, s) /\ s.task = session[p].task
    BY EndedKept
  <2>3. session[p].task # "none"
    BY <1>1, NowOK
  <2> HIDE DEF s
  <2> QED BY <1>1, <2>1, <2>2, <2>3, MovesOne, KeepsSame, AloneKept, KeptBy DEF CommandInv
<1> QED BY <1>2, <1>3

\* A session reads the result and goes on, or fails.
LEMMA ReportKeeps ==
  ASSUME CommandInv, NEW p \in Sessions, Report(p)
  PROVE  CommandInv'
<1> DEFINE s == IF StepNow(p).shows THEN Advanced(p) ELSE Ended(p, "failed")
<1>1. session[p].at = "mined" /\ UNCHANGED <<network, chain, faults>>
  BY DEF Report
<1>2. session' = [session EXCEPT ![p] = s]
  BY DEF Report
<1>3. session[p].task # "none" /\ Holds(chain, Fact(Now(p)))
  BY <1>1, NowOK DEF SessionInv, MinedInv, Now
<1>4. SessionInv(network, chain, p, s) /\ s.task = session[p].task
  BY <1>1, <1>3, KeepsSame, AdvancedKept, EndedKept
<1> HIDE DEF s
<1> QED BY <1>1, <1>2, <1>3, <1>4, MovesOne, KeepsSame, AloneKept, KeptBy DEF CommandInv

\* A transaction that the node refuses ends its task.
LEMMA RefuseKeeps ==
  ASSUME CommandInv, NEW p \in Sessions, Refuse(p)
  PROVE  CommandInv'
<1> DEFINE s == [Ended(p, "failed") EXCEPT !.raced = TRUE]
<1>1. session[p].at = "sent" /\ UNCHANGED <<network, chain>> /\ faults' = faults + 1
      /\ faults < MaxFaults
  BY DEF Refuse
<1>2. faults' \in 0 .. MaxFaults
  BY <1>1, MaxFaultsAssumption DEF CommandInv
<1>3. session' = [session EXCEPT ![p] = s]
  BY DEF Refuse
<1>4. session[p].task # "none" /\ SessionInv(network, chain, p, s) /\ s.task = session[p].task
  BY <1>1, NowOK, EndedKept
<1> HIDE DEF s
<1> QED BY <1>1, <1>2, <1>3, <1>4, MovesOne, KeepsSame, AloneKept, KeptBy DEF CommandInv

\* A session that is killed; its last transaction may be mined all the same.
LEMMA KillKeeps ==
  ASSUME CommandInv, NEW p \in Sessions, Kill(p)
  PROVE  CommandInv'
<1> DEFINE s == [Ended(p, "killed") EXCEPT !.raced = TRUE]
<1>1. session[p].at # "idle" /\ UNCHANGED network /\ faults' = faults + 1 /\ faults < MaxFaults
  BY DEF Kill, Busy
<1>2. faults' \in 0 .. MaxFaults
  BY <1>1, MaxFaultsAssumption DEF CommandInv
<1>3. session[p].task # "none" /\ s.task = session[p].task
  BY <1>1, NowOK, EndedKept
<1>4. \A c : SessionInv(network, c, p, s)
  BY EndedKept
<1>5. \/ session' = [session EXCEPT ![p] = s] /\ chain' = chain
      \/ /\ session[p].at = "sent" /\ StepNow(p).accepts
         /\ chain' = StepNow(p).after /\ session' = AsMined(p, s)
  BY DEF Kill
<1> HIDE DEF s
<1>6. CASE session' = [session EXCEPT ![p] = s] /\ chain' = chain
  BY <1>1, <1>2, <1>3, <1>4, <1>6, MovesOne, KeepsSame, AloneKept, KeptBy DEF CommandInv
<1>7. CASE /\ session[p].at = "sent" /\ StepNow(p).accepts
           /\ chain' = StepNow(p).after /\ session' = AsMined(p, s)
  BY <1>1, <1>2, <1>3, <1>4, <1>7, MinedKeeps
<1> QED BY <1>5, <1>6, <1>7

\* What every run of the command line keeps.
LEMMA StepInv == CommandInv /\ [Next]_vars => CommandInv'
<1> SUFFICES ASSUME CommandInv, [Next]_vars PROVE CommandInv'
  OBVIOUS
<1>1. CASE UNCHANGED vars
  BY <1>1 DEF CommandInv, vars
<1>2. ASSUME NEW p \in Sessions, Record(p) PROVE CommandInv'
  BY <1>2, RecordKeeps
<1>3. ASSUME NEW p \in Sessions, Begin(p) PROVE CommandInv'
  BY <1>3, BeginKeeps
<1>4. ASSUME NEW p \in Sessions, Mine(p) PROVE CommandInv'
  BY <1>4, MineKeeps
<1>5. ASSUME NEW p \in Sessions, Report(p) PROVE CommandInv'
  BY <1>5, ReportKeeps
<1>6. ASSUME NEW p \in Sessions, Refuse(p) PROVE CommandInv'
  BY <1>6, RefuseKeeps
<1>7. ASSUME NEW p \in Sessions, Kill(p) PROVE CommandInv'
  BY <1>7, KillKeeps
<1>8. ASSUME NEW p \in Sessions, NEW task \in TaskNames, Start(p, task) PROVE CommandInv'
  BY <1>8, StartKeeps
<1> QED BY Zenon, <1>1, <1>2, <1>3, <1>4, <1>5, <1>6, <1>7, <1>8 DEF Next, Proceed

\* The invariant of every run.
LEMMA CommandInvariant == Spec => []CommandInv
BY InitInv, StepInv, PTL DEF Spec

-----------------------------------------------------------------------------
\* Sessions are where the handlers leave them, nobody has more frozen than held and no
\* compliance lists a module twice, though what a command checked may have changed when its
\* transaction is mined: the contracts check it again.
THEOREM CommandTypesHold == Spec => []CommandTypeOK
<1>1. CommandInv => CommandTypeOK
  <2> SUFFICES ASSUME CommandInv PROVE CommandTypeOK
    OBVIOUS
  <2>1. \A p \in Sessions :
          /\ session[p].at \in {"idle", "begin", "sent", "mined"}
          /\ Busy(p) <=> session[p].script # <<>>
          /\ session[p].outcome \in {"none", "ok", "failed", "killed"}
    BY DEF CommandInv, SessionInv, Busy
  <2>2. ASSUME NEW t \in Tokens
        PROVE  /\ \A h \in Holders : /\ chain.suite[t].balance[h] \in Nat
                                     /\ chain.suite[t].frozen[h] \in 0..chain.suite[t].balance[h]
               /\ \A i, j \in DOMAIN chain.suite[t].modules :
                    chain.suite[t].modules[i] = chain.suite[t].modules[j] => i = j
               /\ chain.dva.surplus[t] \in Nat /\ chain.dva.burned[t] \in Nat
    <3>1. SuiteOK(t, chain.suite[t]) /\ DvaOK(chain.dva)
      BY DEF CommandInv, ChainInv, ChainOK
    <3> QED BY <3>1 DEF SuiteOK, DvaOK
  <2>3. faults \in 0 .. MaxFaults
    BY DEF CommandInv
  <2> QED BY <2>1, <2>2, <2>3 DEF CommandTypeOK
<1> QED BY <1>1, CommandInvariant, PTL

\* Whatever two sessions read of the factory, the salt gives one token: deployTREXSuite
\* refuses a salt it knows, and the in-process network is one session's.
THEOREM SaltsAreUsedOnce == Spec => []OneTokenPerSalt
<1>1. CommandInv => OneTokenPerSalt
  BY DEF CommandInv, ChainInv, SaltInv, DeployedOnce, AloneInv, OneTokenPerSalt, Tokens
<1> QED BY <1>1, CommandInvariant, PTL

\* The manager holds what waits, whoever approves, cancels or rejects in whatever order.
THEOREM EscrowIsHeld == Spec => []EscrowHeld
<1>1. CommandInv => EscrowHeld
  BY DEF CommandInv, ChainInv, EscrowInv, EscrowHeld
<1> QED BY <1>1, CommandInvariant, PTL

\* What the history file lists can be used, whatever session was killed between its
\* transactions: a save comes after all that its entry rests on, and none of that goes away.
THEOREM ListedIsUsable == Spec => []ListedUsable
<1>1. CommandInv => ListedUsable
  <2> SUFFICES ASSUME CommandInv, NEW entry \in chain.history
               PROVE  LET x == entry[2]
                      IN CASE entry[1] = "IdFactory" ->
                                \A y \in {"Identity", "ImplementationAuthority", "IdFactory"} :
                                  chain.infra[y] # Nobody
                           [] entry[1] = "TREXFactory" ->
                                /\ chain.linked /\ chain.version
                                /\ \A y \in Infra : chain.infra[y] = chain.infra["TREXFactory"]
                           [] entry[1] = "Token" ->
                                LET s == chain.suite[x]
                                IN /\ s.bound /\ s.onchainID /\ x \in s.irAgents
                                   /\ \E owner \in Wallets :
                                        \A y \in HandedOver : s.owner[y] = owner
                           [] entry[1] = "ClaimIssuer" -> x \in chain.issuers
                           [] entry[1] = "Identity" -> chain.identity[x].deployed
                           [] entry[1] = Manager ->
                                /\ chain.dva.deployed
                                /\ \E t \in Tokens : chain.suite[t].entry[Manager] # NoEntry
    BY DEF ListedUsable
  <2> DEFINE kind == entry[1]
             x == entry[2]
  <2>1. EntryInv(network, chain, kind, x)
    BY DEF CommandInv, HistoryInv
  <2>2. PICK by \in Wallets : \A f \in Needs(kind, x, by) : Holds(chain, f)
    BY <2>1 DEF EntryInv
  <2>3. Savable(network, kind, x) /\ by # Nobody
    BY <2>1, WalletsAssumption DEF EntryInv
  <2> HIDE DEF kind, x
  <2>4. CASE kind = "IdFactory"
    <3>1. \A y \in {"Identity", "ImplementationAuthority", "IdFactory"} :
            <<"infra", y, by>> \in Needs(kind, x, by)
      BY <2>4 DEF Needs, Manager
    <3>2. \A y \in {"Identity", "ImplementationAuthority", "IdFactory"} : chain.infra[y] = by
      BY <2>2, <3>1 DEF Holds
    <3> QED BY <2>3, <2>4, <3>2 DEF Manager, kind
  <2>5. CASE kind = "TREXFactory"
    <3>1. /\ \A y \in Infra : <<"infra", y, by>> \in Needs(kind, x, by)
          /\ <<"version", Nobody, Nobody>> \in Needs(kind, x, by)
          /\ <<"linked", Nobody, Nobody>> \in Needs(kind, x, by)
      BY <2>5 DEF Needs, Manager
    <3>2. /\ \A y \in Infra : chain.infra[y] = by
          /\ chain.version /\ chain.linked
      BY <2>2, <3>1 DEF Holds
    <3>3. \A y \in Infra : chain.infra[y] = chain.infra["TREXFactory"]
      BY <3>2 DEF Infra
    <3> QED BY <2>5, <3>2, <3>3 DEF Manager, kind
  <2>6. CASE kind = "Token"
    <3>1. <<"token", x, Nobody>> \in Needs(kind, x, by)
      BY <2>6 DEF Needs, Manager
    <3>2. chain.suite[x].onchainID
      BY <2>2, <3>1 DEF Holds
    <3>3. network = "fhevm" /\ x \in Tokens
      BY <2>3, <2>6 DEF Savable, Manager
    <3>4. Usable(x, chain.suite[x])
      BY <3>2, <3>3 DEF CommandInv, ChainInv, SaltInv, DeployedOnce
    <3> QED BY <2>6, <3>2, <3>4 DEF Usable, Manager, kind, x
  <2>7. CASE kind = "ClaimIssuer"
    <3>1. <<"issuer", x, Nobody>> \in Needs(kind, x, by)
      BY <2>7 DEF Needs, Manager
    <3>2. x \in chain.issuers
      BY <2>2, <3>1 DEF Holds
    <3> QED BY <2>7, <3>2 DEF Manager, kind, x
  <2>8. CASE kind = "Identity"
    <3>1. <<"identity", x, Nobody>> \in Needs(kind, x, by)
      BY <2>8 DEF Needs, Manager
    <3>2. chain.identity[x].deployed
      BY <2>2, <3>1 DEF Holds
    <3> QED BY <2>8, <3>2 DEF Manager, kind, x
  <2>9. CASE kind = Manager
    <3>1. /\ <<"manager", Nobody, Nobody>> \in Needs(kind, x, by)
          /\ <<"registered", Nobody, Nobody>> \in Needs(kind, x, by)
      BY <2>9 DEF Needs, Manager
    <3>2. chain.dva.deployed /\ \E t \in Tokens : chain.suite[t].entry[Manager] # NoEntry
      BY <2>2, <3>1 DEF Holds
    <3> QED BY <2>9, <3>2 DEF Manager, kind
  <2> QED BY <2>3, <2>4, <2>5, <2>6, <2>7, <2>8, <2>9 DEF Savable
<1> QED BY <1>1, CommandInvariant, PTL

-----------------------------------------------------------------------------
(***************************************************************************)
(* What a step that was mined has done.                                    *)
(***************************************************************************)
\* A compliance has one module of a name.
LEMMA OneOfName ==
  ASSUME NEW c, NEW t, SuiteOK(t, c.suite[t]), NEW k \in DOMAIN c.suite[t].modules,
         NEW name, c.suite[t].modules[k][1] = name
  PROVE  HasModule(c, t, name)
<1> DEFINE ms == c.suite[t].modules
<1>1. /\ ms \in Seq(OwnModules(t)) /\ \A i, j \in DOMAIN ms : ms[i] = ms[j] => i = j
      /\ k \in DOMAIN ms /\ ms[k][1] = name
  BY DEF SuiteOK
<1> HIDE DEF ms
<1>2. \A i \in DOMAIN ms : ms[i] = <<ms[i][1], t>>
  BY <1>1 DEF OwnModules
<1>3. {i \in DOMAIN ms : ms[i][1] = name} = {k}
  BY <1>1, <1>2
<1>4. Cardinality({k}) = 1
  BY FS_Singleton
<1> QED BY <1>3, <1>4 DEF HasModule, WithName, ms

\* The module that a compliance has of a name.
LEMMA NamedModule ==
  ASSUME NEW c, NEW t \in Tokens, SuiteOK(t, c.suite[t]), NEW name, HasModule(c, t, name)
  PROVE  ModuleOf(c, t, name) \in Modules
<1> DEFINE S == WithName(c, t, name)
<1>1. S # {}
  <2> HIDE DEF S
  <2> SUFFICES ASSUME S = {} PROVE FALSE
    OBVIOUS
  <2>1. Cardinality(S) = 1
    BY DEF HasModule, S
  <2> QED BY <2>1, FS_EmptySet
<1>2. S \subseteq DOMAIN c.suite[t].modules
  BY DEF WithName
<1>3. (CHOOSE k \in S : TRUE) \in DOMAIN c.suite[t].modules
  BY <1>1, <1>2
<1>4. \A k \in DOMAIN c.suite[t].modules : c.suite[t].modules[k] \in Modules
  BY DEF SuiteOK, OwnModules, Modules, Tokens
<1> QED BY <1>3, <1>4 DEF ModuleOf

\* What a step is for is seen in the contracts, not in the history.
LEMMA AchievedSame ==
  ASSUME NEW c, NEW d, d.suite = c.suite, d.identity = c.identity, d.module = c.module,
         d.dva = c.dva, NEW o, NEW read, Achieved(c, o, read)
  PROVE  Achieved(d, o, read)
<1>1. /\ \A t, x : Owner(d, t, x) = Owner(c, t, x)
      /\ AgentsOf(d, o) = AgentsOf(c, o)
      /\ \A i, w : IsManager(d, i, w) <=> IsManager(c, i, w)
      /\ \A t, x : HasModule(d, t, x) <=> HasModule(c, t, x)
      /\ \A t, x : ModuleOf(d, t, x) = ModuleOf(c, t, x)
  BY DEF Owner, AgentsOf, IsManager, HasModule, ModuleOf, WithName
<1> QED BY <1>1 DEF Achieved

\* What a step knows of the chain it was sent to.
Ready(c, o, read) ==
  /\ read = Nonce(c)
  /\ o.do = "setSupplyLimit" => HasModule(c, o.token, "SupplyLimit")

\* The steps that are there for something the node can show.
Aims ==
  {"transferOwnership", "addAgent", "removeAgent", "registerIdentity", "addClaim", "removeClaim",
   "addKey", "removeKey", "addModule", "unpause", "unpauseUnchecked", "pause", "setSupplyLimit",
   "addExchangeID", "removeExchangeID", "setApprovalCriteria", "initiate"}

\* A step that is there for nothing else has done it.
LEMMA NoAim ==
  ASSUME NEW c, NEW o, o.do \notin Aims, NEW read
  PROVE  Achieved(c, o, read)
BY DEF Achieved, Aims

\* Owners, agents, entries and pauses are set as asked.
LEMMA SuiteAchieved ==
  ASSUME NEW net, NEW p, NEW c, ChainInv(net, c), NEW o, OpOK(net, p, o), NEW read,
         NEW d, d = StepOf(c, o).after, StepOf(c, o).accepts,
         o.do \in {"transferOwnership", "addAgent", "removeAgent", "registerIdentity",
                   "unpause", "unpauseUnchecked", "pause"}
  PROVE  Achieved(d, o, read)
<1> DEFINE t == o.token
           s == c.suite[t]
<1>1. t \in Tokens /\ DOMAIN c = ChainFields /\ DOMAIN c.suite = Tokens /\ SuiteOK(t, s)
  BY DEF OpOK, OnToken, TokenSteps, ByHand, ChainInv, ChainOK
<1>2. CASE o.do = "transferOwnership"
  <2>1. d = [c EXCEPT !.suite[t].owner[o.part] = o.owner] /\ o.part \in Parts
    BY <1>2 DEF StepOf, SuiteStep, TokenSteps, TransferOwnership, Step, OpOK
  <2>2. d.suite[t].owner[o.part] = o.owner
    BY <1>1, <2>1 DEF SuiteOK, SuiteFields, ChainFields
  <2> QED BY <1>2, <2>2 DEF Achieved, Owner
<1>3. CASE o.do = "addAgent" /\ o.to = "ir"
  <2>1. d = [c EXCEPT !.suite[t].irAgents = s.irAgents \cup {o.agent}]
    BY <1>3 DEF StepOf, SuiteStep, TokenSteps, AddAgent, AgentsOf, WithAgents, Step
  <2>2. o.agent \in d.suite[t].irAgents
    BY <1>1, <2>1 DEF SuiteOK, SuiteFields, ChainFields
  <2> QED BY <1>3, <2>2 DEF Achieved, AgentsOf
<1>4. CASE o.do = "addAgent" /\ o.to # "ir"
  <2>1. d = [c EXCEPT !.suite[t].agents = s.agents \cup {o.agent}]
    BY <1>4 DEF StepOf, SuiteStep, TokenSteps, AddAgent, AgentsOf, WithAgents, Step
  <2>2. o.agent \in d.suite[t].agents
    BY <1>1, <2>1 DEF SuiteOK, SuiteFields, ChainFields
  <2> QED BY <1>4, <2>2 DEF Achieved, AgentsOf
<1>5. CASE o.do = "removeAgent" /\ o.to = "ir"
  <2>1. d = [c EXCEPT !.suite[t].irAgents = s.irAgents \ {o.agent}]
    BY <1>5 DEF StepOf, SuiteStep, TokenSteps, RemoveAgent, AgentsOf, WithAgents, Step
  <2>2. o.agent \notin d.suite[t].irAgents
    BY <1>1, <2>1 DEF SuiteOK, SuiteFields, ChainFields
  <2> QED BY <1>5, <2>2 DEF Achieved, AgentsOf
<1>6. CASE o.do = "removeAgent" /\ o.to # "ir"
  <2>1. d = [c EXCEPT !.suite[t].agents = s.agents \ {o.agent}]
    BY <1>6 DEF StepOf, SuiteStep, TokenSteps, RemoveAgent, AgentsOf, WithAgents, Step
  <2>2. o.agent \notin d.suite[t].agents
    BY <1>1, <2>1 DEF SuiteOK, SuiteFields, ChainFields
  <2> QED BY <1>6, <2>2 DEF Achieved, AgentsOf
<1>7. CASE o.do = "registerIdentity"
  <2>1. d = [c EXCEPT !.suite[t].entry[o.user] = o.entry] /\ o.user \in Holders
    BY <1>7 DEF StepOf, SuiteStep, TokenSteps, RegisterIdentity, Step, OpOK, OnUser, Holders
  <2>2. d.suite[t].entry[o.user] = o.entry
    BY <1>1, <2>1 DEF SuiteOK, SuiteFields, ChainFields
  <2> QED BY <1>7, <2>2 DEF Achieved
<1>8. CASE o.do \in {"unpause", "unpauseUnchecked"}
  <2>1. d = [c EXCEPT !.suite[t].paused = FALSE]
    BY <1>8 DEF StepOf, TokenStep, TokenSteps, CmdUnpause, Unpause, Step
  <2>2. ~d.suite[t].paused
    BY <1>1, <2>1 DEF SuiteOK, SuiteFields, ChainFields
  <2> QED BY <1>8, <2>2 DEF Achieved
<1>9. CASE o.do = "pause"
  <2>1. d = [c EXCEPT !.suite[t].paused = TRUE]
    BY <1>9 DEF StepOf, TokenStep, TokenSteps, CmdPause, Pause, Step
  <2>2. d.suite[t].paused
    BY <1>1, <2>1 DEF SuiteOK, SuiteFields, ChainFields
  <2> QED BY <1>9, <2>2 DEF Achieved
<1> QED BY <1>2, <1>3, <1>4, <1>5, <1>6, <1>7, <1>8, <1>9

\* Claims and keys are added and removed as asked.
LEMMA IdentityAchieved ==
  ASSUME NEW net, NEW p, NEW c, ChainInv(net, c), NEW o, OpOK(net, p, o), NEW read,
         NEW d, d = StepOf(c, o).after, StepOf(c, o).accepts,
         o.do \in {"addClaim", "removeClaim", "addKey", "removeKey"}
  PROVE  Achieved(d, o, read)
<1> DEFINE i == o.identity
           x == c.identity[i]
<1>1. /\ i \in Identities /\ DOMAIN c = ChainFields /\ DOMAIN c.identity = Identities
      /\ DOMAIN x = {"deployed", "keys", "claims"}
  BY DEF OpOK, OnIdentity, ChainInv, ChainOK
<1>2. CASE o.do = "addClaim"
  <2>1. d = [c EXCEPT !.identity[i].claims = x.claims \cup {o.issuer}]
    BY <1>2 DEF StepOf, SuiteStep, TokenSteps, AddClaim, Step
  <2>2. o.issuer \in d.identity[i].claims
    BY <1>1, <2>1 DEF ChainFields
  <2> QED BY <1>2, <2>2 DEF Achieved
<1>3. CASE o.do = "removeClaim"
  <2>1. d = [c EXCEPT !.identity[i].claims = x.claims \ {o.issuer}]
    BY <1>3 DEF StepOf, SuiteStep, TokenSteps, RemoveClaim, Step
  <2>2. o.issuer \notin d.identity[i].claims
    BY <1>1, <2>1 DEF ChainFields
  <2> QED BY <1>3, <2>2 DEF Achieved
<1>4. CASE o.do = "addKey"
  <2>1. d = [c EXCEPT !.identity[i].keys = x.keys \cup {o.key}]
    BY <1>4 DEF StepOf, SuiteStep, TokenSteps, AddKey, Step
  <2>2. o.key \in d.identity[i].keys
    BY <1>1, <2>1 DEF ChainFields
  <2> QED BY <1>4, <2>2 DEF Achieved, IsManager
<1>5. CASE o.do = "removeKey"
  <2>1. d = [c EXCEPT !.identity[i].keys = x.keys \ {o.key}]
    BY <1>5 DEF StepOf, SuiteStep, TokenSteps, RemoveKey, Step
  <2>2. o.key \notin d.identity[i].keys
    BY <1>1, <2>1 DEF ChainFields
  <2> QED BY <1>5, <2>2 DEF Achieved, IsManager
<1> QED BY <1>2, <1>3, <1>4, <1>5

\* A module is set as asked, and it is the one the compliance has of its name.
LEMMA ModuleAchieved ==
  ASSUME NEW net, NEW p, NEW c, ChainInv(net, c), NEW o, OpOK(net, p, o), NEW read,
         Ready(c, o, read), NEW d, d = StepOf(c, o).after, StepOf(c, o).accepts,
         o.do \in {"setSupplyLimit", "addExchangeID", "removeExchangeID"}
  PROVE  Achieved(d, o, read)
<1> DEFINE t == o.token
<1>1. /\ t \in Tokens /\ DOMAIN c = ChainFields /\ SuiteOK(t, c.suite[t])
      /\ DOMAIN c.module = Modules
      /\ \A m \in Modules :
           DOMAIN c.module[m] = {"owner", "limit", "allowed", "exchanges", "limits"}
  BY DEF OpOK, OnToken, TokenSteps, ChainInv, ChainOK
<1>2. CASE o.do = "setSupplyLimit"
  <2> DEFINE m == ModuleOf(c, t, "SupplyLimit")
  <2>1. HasModule(c, t, "SupplyLimit")
    BY <1>2 DEF Ready
  <2>2. m \in Modules
    BY <1>1, <2>1, NamedModule
  <2>3. d = [c EXCEPT !.module[m].limit = o.limit]
    BY <1>2, <2>1 DEF StepOf, TokenStep, TokenSteps, CmdSetSupplyLimit, Step
  <2> HIDE DEF m
  <2>4. d.module[m].limit = o.limit /\ d.suite = c.suite
    BY <1>1, <2>2, <2>3 DEF ChainFields
  <2>5. ModuleOf(d, t, "SupplyLimit") = m
    BY <2>4 DEF ModuleOf, WithName, m
  <2> QED BY <1>2, <2>4, <2>5 DEF Achieved
<1>3. CASE o.do \in {"addExchangeID", "removeExchangeID"}
  <2> DEFINE m == ModuleOf(c, t, o.name)
             i == c.suite[t].entry[o.user].identity
             x == c.module[m].exchanges
  <2>1. HasModule(c, t, o.name)
    BY <1>3 DEF StepOf, TokenStep, TokenSteps, CmdAddExchangeID, CmdRemoveExchangeID,
                ExchangeFound, Check, Step
  <2>2. m \in Modules
    BY <1>1, <2>1, NamedModule
  <2>3. ExchangeFound(c, o)
    BY <1>3 DEF StepOf, TokenStep, TokenSteps, CmdAddExchangeID, CmdRemoveExchangeID, Check, Step
  <2>4. /\ o.do = "addExchangeID" => d = [c EXCEPT !.module[m].exchanges = x \cup {i}]
        /\ o.do = "removeExchangeID" => d = [c EXCEPT !.module[m].exchanges = x \ {i}]
    BY <1>3, <2>3 DEF StepOf, TokenStep, TokenSteps, CmdAddExchangeID, AddExchangeID,
                      CmdRemoveExchangeID, RemoveExchangeID, Exchange, Step
  <2> HIDE DEF m, x
  <2>5. /\ o.do = "addExchangeID" => i \in d.module[m].exchanges
        /\ o.do = "removeExchangeID" => i \notin d.module[m].exchanges
        /\ d.suite = c.suite
    BY <1>1, <1>3, <2>2, <2>4 DEF ChainFields
  <2>6. ModuleOf(d, t, o.name) = m
    BY <2>5 DEF ModuleOf, WithName, m
  <2> QED BY <1>3, <2>5, <2>6 DEF Achieved
<1> QED BY <1>2, <1>3

\* A module that was added is the one of its name.
LEMMA AddModuleAchieved ==
  ASSUME NEW net, NEW p, NEW c, ChainInv(net, c), NEW o, OpOK(net, p, o), NEW read,
         NEW d, d = StepOf(c, o).after, StepOf(c, o).accepts, o.do = "addModule"
  PROVE  Achieved(d, o, read)
<1> DEFINE t == o.token
           ms == c.suite[t].modules
           k == Len(ms) + 1
<1>1. Sound(net, p, c, d)
  BY AddModuleSound
<1>2. t \in Tokens /\ SuiteOK(t, d.suite[t])
  BY <1>1 DEF Sound, OpOK, OnToken, ChainInv, ChainOK
<1>3. DOMAIN c = ChainFields /\ DOMAIN c.suite = Tokens /\ SuiteOK(t, c.suite[t])
  BY <1>2 DEF ChainInv, ChainOK
<1>4. d = [c EXCEPT !.suite[t].modules = Append(ms, o.module)]
  BY DEF StepOf, SuiteStep, TokenSteps, AddModule, Step
<1>5. d.suite[t].modules = Append(ms, o.module)
  BY <1>2, <1>3, <1>4 DEF SuiteOK, SuiteFields, ChainFields
<1>6. ms \in Seq(OwnModules(t))
  BY <1>3 DEF SuiteOK
<1> HIDE DEF ms
<1>7. k \in DOMAIN d.suite[t].modules /\ d.suite[t].modules[k] = o.module
  BY <1>5, <1>6
<1> HIDE DEF k
<1>8. HasModule(d, t, o.module[1])
  BY <1>2, <1>7, OneOfName
<1> QED BY <1>8 DEF Achieved

\* The transfer that is initiated has the number the session has read.
LEMMA ManagerAchieved ==
  ASSUME NEW net, NEW p, NEW c, ChainInv(net, c), NEW o, OpOK(net, p, o), NEW read,
         Ready(c, o, read), NEW d, d = StepOf(c, o).after, StepOf(c, o).accepts,
         o.do \in {"setApprovalCriteria", "initiate"}
  PROVE  Achieved(d, o, read)
<1>1. DOMAIN c = ChainFields /\ DvaOK(c.dva)
  BY DEF ChainInv, ChainOK
<1>2. CASE o.do = "setApprovalCriteria"
  <2>1. d = [c EXCEPT !.dva.criteria = o.criteria]
    BY <1>2 DEF StepOf, TokenStep, TokenSteps, CmdSetApprovalCriteria, Step
  <2>2. d.dva.criteria = o.criteria
    BY <1>1, <2>1 DEF DvaOK, DvaFields, ChainFields
  <2> QED BY <1>2, <2>2 DEF Achieved
<1>3. CASE o.do = "initiate"
  <2> DEFINE t == o.token
             m == Moved(c, t, o.by, Manager, 1)
             n == PaidIn(c, m, t)
             x == [token |-> t, from |-> o.by, to |-> o.to, amount |-> n,
                   criteria |-> c.dva.criteria, approved |-> {}, status |-> "PENDING"]
             xs == c.dva.transfers
             ys == Append(xs, x)
  <2>1. d = [m EXCEPT !.dva.transfers = Append(@, x),
                      !.suite[t].allowance[o.by] = IF @ > n THEN @ - n ELSE 0]
    BY <1>3 DEF StepOf, TokenStep, TokenSteps, CmdInitiate, Step
  <2>2. DOMAIN m = ChainFields /\ m.dva = c.dva
    BY <1>1 DEF Moved, ChainFields
  <2>3. x.from = o.by /\ x.to = o.to
    OBVIOUS
  <2> HIDE DEF m, n, x
  <2>4. d.dva.transfers = ys
    BY <1>1, <2>1, <2>2 DEF DvaOK, DvaFields, ChainFields
  <2>5. xs \in Seq(Transfers) /\ read = Len(xs) + 1
    BY <1>1 DEF DvaOK, Ready, Nonce
  <2> HIDE DEF xs
  <2>6. read \in DOMAIN ys /\ ys[read] = x
    BY <2>5
  <2> HIDE DEF ys
  <2> QED BY <1>3, <2>3, <2>4, <2>6 DEF Achieved
<1> QED BY <1>2, <1>3

\* A transaction that is not reverted does what it was sent for.
LEMMA MinedAchieves ==
  ASSUME NEW net, NEW p, NEW c, ChainInv(net, c), NEW o, OpOK(net, p, o), NEW read,
         Ready(c, o, read), StepOf(c, o).accepts
  PROVE  Achieved(StepOf(c, o).after, o, read)
<1> DEFINE d == StepOf(c, o).after
<1>1. CASE o.do \in {"transferOwnership", "addAgent", "removeAgent", "registerIdentity",
                     "unpause", "unpauseUnchecked", "pause"}
  BY <1>1, SuiteAchieved
<1>2. CASE o.do \in {"addClaim", "removeClaim", "addKey", "removeKey"}
  BY <1>2, IdentityAchieved
<1>3. CASE o.do \in {"setSupplyLimit", "addExchangeID", "removeExchangeID"}
  BY <1>3, ModuleAchieved
<1>4. CASE o.do = "addModule"
  BY <1>4, AddModuleAchieved
<1>5. CASE o.do \in {"setApprovalCriteria", "initiate"}
  BY <1>5, ManagerAchieved
<1>6. CASE o.do \notin Aims
  BY <1>6, NoAim
<1> QED BY <1>1, <1>2, <1>3, <1>4, <1>5, <1>6 DEF Aims

\* A step that has nothing left to do finds it done.
LEMMA DoneAchieves ==
  ASSUME NEW net, NEW p, NEW c, ChainInv(net, c), NEW o, OpOK(net, p, o), NEW read,
         StepOf(c, o).checks, StepOf(c, o).done
  PROVE  Achieved(c, o, read)
<1>1. CASE o.do = "transferOwnership"
  BY <1>1 DEF StepOf, SuiteStep, TokenSteps, TransferOwnership, Step, Achieved
<1>2. CASE o.do = "addAgent"
  BY <1>2 DEF StepOf, SuiteStep, TokenSteps, AddAgent, Step, Achieved
<1>3. CASE o.do = "removeAgent"
  BY <1>3 DEF StepOf, SuiteStep, TokenSteps, RemoveAgent, Step, Achieved
<1>4. CASE o.do = "registerIdentity"
  BY <1>4 DEF StepOf, SuiteStep, TokenSteps, RegisterIdentity, AlreadyRegistered, Step, Achieved
<1>5. CASE o.do = "removeClaim"
  BY <1>5 DEF StepOf, SuiteStep, TokenSteps, RemoveClaim, Step, Achieved
<1>6. CASE o.do = "removeKey"
  BY <1>6 DEF StepOf, SuiteStep, TokenSteps, RemoveKey, Step, Achieved
<1>7. CASE o.do = "addModule"
  <2>1. PICK k \in DOMAIN c.suite[o.token].modules : c.suite[o.token].modules[k] = o.module
    BY <1>7 DEF StepOf, SuiteStep, TokenSteps, AddModule, Step
  <2>2. SuiteOK(o.token, c.suite[o.token])
    BY <1>7 DEF OpOK, OnToken, ChainInv, ChainOK
  <2>3. HasModule(c, o.token, o.module[1])
    BY <2>1, <2>2, OneOfName
  <2> QED BY <1>7, <2>3 DEF Achieved
<1>8. CASE o.do = "unpause"
  BY <1>8 DEF StepOf, TokenStep, TokenSteps, CmdUnpause, Unpause, Step, Achieved
<1>9. CASE o.do = "pause"
  BY <1>9 DEF StepOf, TokenStep, TokenSteps, CmdPause, Pause, Step, Achieved
<1>10. CASE o.do = "addExchangeID"
  BY <1>10 DEF StepOf, TokenStep, TokenSteps, CmdAddExchangeID, AddExchangeID, Exchange, Check,
               Step, Achieved
<1>11. CASE o.do = "removeExchangeID"
  BY <1>11 DEF StepOf, TokenStep, TokenSteps, CmdRemoveExchangeID, RemoveExchangeID, Exchange,
               Check, Step, Achieved
<1>12. CASE o.do \in {"addClaim", "addKey", "unpauseUnchecked", "setSupplyLimit",
                      "setApprovalCriteria", "initiate"}
  <2>1. StepOf(c, o).done = FALSE
    BY <1>12 DEF StepOf, TokenStep, SuiteStep, TokenSteps, AddClaim, AddKey, Unpause,
                 CmdSetSupplyLimit, CmdSetApprovalCriteria, CmdInitiate, Step
  <2> QED BY <2>1
<1>13. CASE o.do \notin Aims
  BY <1>13, NoAim
<1> QED BY <1>1, <1>2, <1>3, <1>4, <1>5, <1>6, <1>7, <1>8, <1>9, <1>10, <1>11, <1>12, <1>13
        DEF Aims

-----------------------------------------------------------------------------
(***************************************************************************)
(* What a session has seen.                                                *)
(***************************************************************************)
\* A session the node has not changed under: what it sent is ready to be mined, and
\* what was mined for it has done what it is for.
SeenInv(c, s) ==
  ~s.stale =>
    /\ s.at = "sent" => Ready(c, Head(s.script), s.read)
    /\ s.at = "mined" => Achieved(c, Head(s.script), s.read)

\* So for every session.
AchieveInv == \A p \in Sessions : SeenInv(chain, session[p])

\* What a session has seen is of the contracts: a save changes nothing of it.
LEMMA SeenSame ==
  ASSUME NEW c, NEW d, d.suite = c.suite, d.identity = c.identity, d.module = c.module,
         d.dva = c.dva, NEW s, SeenInv(c, s)
  PROVE  SeenInv(d, s)
<1>1. \A o, read : Ready(c, o, read) => Ready(d, o, read)
  BY DEF Ready, Nonce, HasModule, WithName
<1>2. \A o, read : Achieved(c, o, read) => Achieved(d, o, read)
  BY AchievedSame
<1> QED BY <1>1, <1>2 DEF SeenInv

\* A session between two steps has seen nothing yet.
LEMMA NothingSeen ==
  ASSUME NEW c, NEW s, s.at \in {"idle", "begin"}
  PROVE  SeenInv(c, s)
BY DEF SeenInv

\* A step of session p that changes no contract leaves the other sessions what they have seen.
LEMMA OneSees ==
  ASSUME CommandInv, AchieveInv, NEW p \in Sessions, NEW s, SeenInv(chain', s),
         session' = [session EXCEPT ![p] = s],
         chain'.suite = chain.suite, chain'.identity = chain.identity,
         chain'.module = chain.module, chain'.dva = chain.dva
  PROVE  AchieveInv'
<1> SUFFICES ASSUME NEW q \in Sessions PROVE SeenInv(chain', session'[q])
  BY DEF AchieveInv
<1>1. CASE q = p
  BY <1>1 DEF CommandInv
<1>2. CASE q # p
  <2>1. session'[q] = session[q] /\ SeenInv(chain, session[q])
    BY <1>2 DEF CommandInv, AchieveInv
  <2> QED BY <2>1, SeenSame
<1> QED BY <1>1, <1>2

\* Whoever was busy when a transaction was mined has a stale view, and who was not has
\* none.
LEMMA MinedSees ==
  ASSUME CommandInv, NEW p \in Sessions, NEW s, SeenInv(chain', s), session' = AsMined(p, s)
  PROVE  AchieveInv'
<1> SUFFICES ASSUME NEW q \in Sessions PROVE SeenInv(chain', session'[q])
  BY DEF AchieveInv
<1>1. CASE q = p
  BY <1>1 DEF AsMined
<1>2. CASE q # p
  <2> DEFINE r == session[q]
             b == r.raced \/ Busy(q)
             e == Busy(q)
             w == session'[q]
  <2>1. w = [r EXCEPT !.raced = b, !.stale = e]
    BY <1>2 DEF AsMined
  <2>2. DOMAIN r = SessionFields /\ (e <=> r.at # "idle")
    BY DEF CommandInv, SessionInv, Busy
  <2> HIDE DEF r, b, e, w
  <2>3. w.at = r.at /\ w.stale = e
    BY <2>1, <2>2 DEF SessionFields
  <2>4. SeenInv(chain', w)
    BY <2>2, <2>3 DEF SeenInv
  <2> QED BY <2>4 DEF w
<1> QED BY <1>1, <1>2

\* Where a task that ends leaves its session.
LEMMA EndedPlace ==
  ASSUME CommandInv, NEW p \in Sessions, NEW x \in {"ok", "failed", "killed"}
  PROVE  /\ Ended(p, x).at = "idle" /\ Ended(p, x).script = <<>> /\ Ended(p, x).outcome = x
         /\ [Ended(p, x) EXCEPT !.raced = TRUE].at = "idle"
         /\ [Ended(p, x) EXCEPT !.raced = TRUE].script = <<>>
         /\ [Ended(p, x) EXCEPT !.raced = TRUE].outcome = x
<1>1. DOMAIN session[p] = SessionFields
  BY DEF CommandInv, SessionInv
<1> DEFINE s == Ended(p, x)
           r == [s EXCEPT !.raced = TRUE]
<1>2. DOMAIN s = SessionFields /\ s.at = "idle" /\ s.script = <<>> /\ s.outcome = x
  BY <1>1 DEF Ended, SessionFields
<1> HIDE DEF s
<1>3. r.at = "idle" /\ r.script = <<>> /\ r.outcome = x
  BY <1>2 DEF SessionFields
<1> QED BY <1>2, <1>3 DEF s

\* A session that goes on has not begun its next step.
LEMMA AdvancedPlace ==
  ASSUME CommandInv, NEW p \in Sessions
  PROVE  Advanced(p).at \in {"idle", "begin"}
<1>1. DOMAIN session[p] = SessionFields
  BY DEF CommandInv, SessionInv
<1>2. Ended(p, "ok").at = "idle"
  BY EndedPlace
<1>3. [session[p] EXCEPT !.script = Tail(@), !.at = "begin"].at = "begin"
  BY <1>1 DEF SessionFields
<1> QED BY <1>2, <1>3 DEF Advanced

-----------------------------------------------------------------------------
\* A save changes no contract.
LEMMA RecordSees ==
  ASSUME CommandInv, AchieveInv, NEW p \in Sessions, Record(p)
  PROVE  AchieveInv'
<1>1. SeenInv(chain', Advanced(p))
  BY AdvancedPlace, NothingSeen
<1>2. DOMAIN chain = ChainFields
  BY DEF CommandInv, ChainInv, ChainOK
<1>3. /\ chain'.suite = chain.suite /\ chain'.identity = chain.identity
      /\ chain'.module = chain.module /\ chain'.dva = chain.dva
  BY <1>2 DEF Record, Save, ChainFields
<1> QED BY <1>1, <1>3, OneSees DEF Record

\* A step that is sent has read the node it is sent to.
LEMMA BeginSees ==
  ASSUME CommandInv, AchieveInv, NEW p \in Sessions, Begin(p)
  PROVE  AchieveInv'
<1> DEFINE step == StepNow(p)
           o == Now(p)
           sent == [session[p] EXCEPT !.at = "sent", !.read = Nonce(chain), !.stale = FALSE]
           s == IF ~step.checks THEN Ended(p, "failed")
                ELSE IF step.done THEN Advanced(p)
                ELSE sent
<1>1. session' = [session EXCEPT ![p] = s] /\ chain' = chain
  BY DEF Begin
<1>2. CASE ~step.checks \/ step.done
  <2>1. s.at \in {"idle", "begin"}
    BY <1>2, AdvancedPlace, EndedPlace
  <2>2. UNCHANGED chain /\ session' = [session EXCEPT ![p] = s]
    BY <1>1
  <2> HIDE DEF s
  <2>3. SeenInv(chain', s)
    BY <2>1, NothingSeen
  <2> QED BY <2>2, <2>3, OneSees
<1>3. CASE step.checks /\ ~step.done
  <2>1. o.do = "setSupplyLimit" => HasModule(chain, o.token, "SupplyLimit")
    <3> SUFFICES ASSUME o.do = "setSupplyLimit" PROVE HasModule(chain, o.token, "SupplyLimit")
      OBVIOUS
    <3>1. step.checks <=> CmdSetSupplyLimit(chain, o).checks
      BY DEF StepNow, StepOf, TokenStep, TokenSteps
    <3> HIDE DEF o, step
    <3> QED BY <1>3, <3>1 DEF CmdSetSupplyLimit, Step
  <2>2. DOMAIN session[p] = SessionFields
    BY DEF CommandInv, SessionInv
  <2>3. sent.at = "sent" /\ sent.read = Nonce(chain) /\ sent.script = session[p].script
    BY <2>2 DEF SessionFields
  <2>4. s = sent
    BY <1>3
  <2>5. Ready(chain, Head(session[p].script), Nonce(chain))
    BY <2>1 DEF Ready, Now
  <2> HIDE DEF s, sent
  <2>6. SeenInv(chain, s)
    BY <2>3, <2>4, <2>5 DEF SeenInv
  <2> QED BY <1>1, <2>6, OneSees
<1> QED BY <1>2, <1>3

\* A transaction that is mined on the node its session has read does what it is for.
LEMMA MineSees ==
  ASSUME CommandInv, AchieveInv, NEW p \in Sessions, Mine(p)
  PROVE  AchieveInv'
<1>1. CASE StepNow(p).accepts
  <2> DEFINE r == session[p]
             s == [r EXCEPT !.at = "mined"]
             o == Now(p)
  <2>1. chain' = StepNow(p).after /\ session' = AsMined(p, s) /\ r.at = "sent"
    BY <1>1 DEF Mine
  <2>2. DOMAIN r = SessionFields
    BY DEF CommandInv, SessionInv
  <2>3. s.at = "mined" /\ s.script = r.script /\ s.read = r.read /\ s.stale = r.stale
    BY <2>2 DEF SessionFields
  <2>4. ~r.stale => Achieved(chain', Head(r.script), r.read)
    <3> SUFFICES ASSUME ~r.stale PROVE Achieved(chain', o, r.read)
      BY DEF Now
    <3>1. Ready(chain, o, r.read)
      BY <2>1 DEF AchieveInv, SeenInv, Now
    <3>2. OpOK(network, p, o) /\ ChainInv(network, chain)
      BY <2>1, NowOK DEF CommandInv
    <3>3. StepOf(chain, o).accepts /\ chain' = StepOf(chain, o).after
      BY <1>1, <2>1 DEF StepNow
    <3> HIDE DEF o, r
    <3> QED BY <3>1, <3>2, <3>3, MinedAchieves
  <2> HIDE DEF s
  <2>5. SeenInv(chain', s)
    BY <2>3, <2>4 DEF SeenInv
  <2> QED BY <2>1, <2>5, MinedSees
<1>2. CASE ~StepNow(p).accepts
  <2> DEFINE s == Ended(p, "failed")
  <2>1. s.at = "idle" /\ session' = [session EXCEPT ![p] = s] /\ chain' = chain
    BY <1>2, EndedPlace DEF Mine
  <2> HIDE DEF s
  <2>2. SeenInv(chain', s)
    BY <2>1, NothingSeen
  <2> QED BY <2>1, <2>2, OneSees
<1> QED BY <1>1, <1>2

\* A session that goes on has seen nothing yet.
LEMMA ReportSees ==
  ASSUME CommandInv, AchieveInv, NEW p \in Sessions, Report(p)
  PROVE  AchieveInv'
<1> DEFINE s == IF StepNow(p).shows THEN Advanced(p) ELSE Ended(p, "failed")
<1>1. session' = [session EXCEPT ![p] = s] /\ chain' = chain
  BY DEF Report
<1>2. s.at \in {"idle", "begin"}
  BY AdvancedPlace, EndedPlace
<1> HIDE DEF s
<1>3. SeenInv(chain', s)
  BY <1>2, NothingSeen
<1> QED BY <1>1, <1>3, OneSees

\* A session whose transaction is refused has seen nothing.
LEMMA RefuseSees ==
  ASSUME CommandInv, AchieveInv, NEW p \in Sessions, Refuse(p)
  PROVE  AchieveInv'
<1> DEFINE s == [Ended(p, "failed") EXCEPT !.raced = TRUE]
<1>1. s.at = "idle" /\ session' = [session EXCEPT ![p] = s] /\ chain' = chain
  BY EndedPlace DEF Refuse
<1> HIDE DEF s
<1>2. SeenInv(chain', s)
  BY <1>1, NothingSeen
<1> QED BY <1>1, <1>2, OneSees

\* A session that is killed has seen nothing; what it sent is news to the others.
LEMMA KillSees ==
  ASSUME CommandInv, AchieveInv, NEW p \in Sessions, Kill(p)
  PROVE  AchieveInv'
<1> DEFINE s == [Ended(p, "killed") EXCEPT !.raced = TRUE]
<1>1. /\ s.at = "idle"
      /\ \/ session' = [session EXCEPT ![p] = s] /\ chain' = chain
         \/ session' = AsMined(p, s)
  BY EndedPlace DEF Kill
<1> HIDE DEF s
<1>2. SeenInv(chain', s)
  BY <1>1, NothingSeen
<1> QED BY <1>1, <1>2, OneSees, MinedSees

\* A session that is just started has seen nothing.
LEMMA StartSees ==
  ASSUME CommandInv, AchieveInv, NEW p \in Sessions, NEW task, Start(p, task)
  PROVE  AchieveInv'
<1>1. PICK script :
        session' = [session EXCEPT ![p] =
          [Idle EXCEPT !.task = task, !.script = script, !.at = "begin"]]
  BY DEF Start
<1> DEFINE s == [Idle EXCEPT !.task = task, !.script = script, !.at = "begin"]
<1>2. s.at = "begin"
  BY DEF Idle
<1> HIDE DEF s
<1>3. session' = [session EXCEPT ![p] = s] /\ chain' = chain
  BY <1>1 DEF s, Start
<1>4. SeenInv(chain', s)
  BY <1>2, NothingSeen
<1> QED BY <1>3, <1>4, OneSees

\* Nobody has seen anything at first.
LEMMA InitSees == Init => AchieveInv
<1> SUFFICES ASSUME Init, NEW p \in Sessions PROVE SeenInv(chain, session[p])
  BY DEF AchieveInv
<1>1. session[p] = Idle /\ Idle.at = "idle"
  BY DEF Init, Idle
<1> QED BY <1>1, NothingSeen

\* What sessions have seen is kept by every step.
LEMMA StepSees == CommandInv /\ AchieveInv /\ [Next]_vars => AchieveInv'
<1> SUFFICES ASSUME CommandInv, AchieveInv, [Next]_vars PROVE AchieveInv'
  OBVIOUS
<1>1. CASE UNCHANGED vars
  BY <1>1 DEF AchieveInv, vars
<1>2. ASSUME NEW p \in Sessions, Record(p) PROVE AchieveInv'
  BY <1>2, RecordSees
<1>3. ASSUME NEW p \in Sessions, Begin(p) PROVE AchieveInv'
  BY <1>3, BeginSees
<1>4. ASSUME NEW p \in Sessions, Mine(p) PROVE AchieveInv'
  BY <1>4, MineSees
<1>5. ASSUME NEW p \in Sessions, Report(p) PROVE AchieveInv'
  BY <1>5, ReportSees
<1>6. ASSUME NEW p \in Sessions, Refuse(p) PROVE AchieveInv'
  BY <1>6, RefuseSees
<1>7. ASSUME NEW p \in Sessions, Kill(p) PROVE AchieveInv'
  BY <1>7, KillSees
<1>8. ASSUME NEW p \in Sessions, NEW task \in TaskNames, Start(p, task) PROVE AchieveInv'
  BY <1>8, StartSees
<1> QED BY Zenon, <1>1, <1>2, <1>3, <1>4, <1>5, <1>6, <1>7, <1>8 DEF Next, Proceed

-----------------------------------------------------------------------------
\* A session p that passes the first step of its script.
Passes(p) ==
  /\ Busy(p) /\ ~session[p].stale
  /\ session'[p].script = Tail(session[p].script)
  /\ Len(session[p].script) = 1 => session'[p].outcome = "ok"

\* A task that ends otherwise than well passes nothing.
LEMMA FailingPasses ==
  ASSUME CommandInv, NEW p \in Sessions, session[p].at # "idle",
         session'[p].script = <<>>, session'[p].outcome # "ok"
  PROVE  ~Passes(p)
<1> DEFINE s == session[p].script
<1>1. IsScript(network, p, s) /\ s # <<>>
  BY NowOK
<1> HIDE DEF s
<1>2. Len(s) = 1 <=> Tail(s) = <<>>
  BY <1>1, ScriptTail
<1> QED BY <1>2 DEF Passes, s

\* A session whose script stays where it is passes nothing.
LEMMA WaitingPasses ==
  ASSUME CommandInv, NEW p \in Sessions, session'[p].script = session[p].script
  PROVE  ~Passes(p)
<1> SUFFICES ASSUME Passes(p) PROVE FALSE
  OBVIOUS
<1> DEFINE s == session[p].script
<1>1. IsScript(network, p, s) /\ s # <<>>
  BY NowOK DEF Passes, Busy
<1> HIDE DEF s
<1>2. Tail(s) # s
  BY <1>1, ScriptTail
<1> QED BY <1>2 DEF Passes, s

\* The sessions other than the one that moves pass nothing.
LEMMA OthersPass ==
  ASSUME CommandInv, NEW p \in Sessions, NEW s, Moves(p, s), NEW q \in Sessions \ {p}
  PROVE  ~Passes(q)
BY WaitingPasses DEF Moves, Alike

\* A session whose task fails or is killed passes nothing.
LEMMA FailedEnd ==
  ASSUME CommandInv, NEW p \in Sessions, session[p].at # "idle", NEW x \in {"failed", "killed"},
         session'[p] = Ended(p, x) \/ session'[p] = [Ended(p, x) EXCEPT !.raced = TRUE]
  PROVE  ~Passes(p)
<1> DEFINE s == Ended(p, x)
           r == [s EXCEPT !.raced = TRUE]
<1>1. /\ s.script = <<>> /\ s.outcome = x /\ r.script = <<>> /\ r.outcome = x
      /\ session'[p] \in {s, r}
  BY EndedPlace
<1> HIDE DEF s, r
<1>2. session'[p].script = <<>> /\ session'[p].outcome = x
  BY <1>1
<1> QED BY <1>2, FailingPasses

\* A session passes a step when it had nothing to do, or when its transaction was mined.
LEMMA PassedOnlyIf ==
  ASSUME CommandInv, AchieveInv, [Next]_vars, NEW p \in Sessions, Passes(p)
  PROVE  Achieved(chain', Now(p), session[p].read)
<1> DEFINE Goal == Achieved(chain', Now(p), session[p].read)
<1>0. Busy(p) /\ session[p].at # "idle" /\ session \in [Sessions -> {session[q] : q \in Sessions}]
      /\ DOMAIN session = Sessions
  BY DEF Passes, Busy, CommandInv
<1>1. ASSUME UNCHANGED vars PROVE Goal
  BY <1>1, WaitingPasses DEF vars
<1>2. ASSUME NEW q \in Sessions, Record(q) PROVE Goal
  <2>1. session' = [session EXCEPT ![q] = Advanced(q)]
    BY <1>2 DEF Record
  <2>2. p = q
    BY <2>1, MovesOne, OthersPass
  <2>3. Now(p).do \notin Aims
    BY <1>2, <2>2 DEF Record, Aims
  <2> QED BY <2>3, NoAim
<1>3. ASSUME NEW q \in Sessions, Begin(q) PROVE Goal
  <2> DEFINE step == StepNow(q)
             sent == [session[q] EXCEPT !.at = "sent", !.read = Nonce(chain), !.stale = FALSE]
             s == IF ~step.checks THEN Ended(q, "failed")
                  ELSE IF step.done THEN Advanced(q)
                  ELSE sent
  <2>1. session' = [session EXCEPT ![q] = s] /\ chain' = chain
    BY <1>3 DEF Begin
  <2>2. p = q /\ session'[q] = s
    <3> HIDE DEF s
    <3> QED BY <1>0, <2>1, MovesOne, OthersPass
  <2>3. step.checks
    BY <1>0, <2>2, FailedEnd
  <2>4. step.done
    <3> SUFFICES ASSUME ~step.done PROVE FALSE
      OBVIOUS
    <3>1. s = sent
      BY <2>3
    <3>2. DOMAIN session[q] = SessionFields
      BY DEF CommandInv, SessionInv
    <3>3. sent.script = session[q].script
      BY <3>2 DEF SessionFields
    <3> HIDE DEF s, sent
    <3> QED BY <2>2, <3>1, <3>3, WaitingPasses
  <2>5. OpOK(network, p, Now(p)) /\ ChainInv(network, chain)
    BY <1>0, NowOK DEF CommandInv
  <2>6. StepOf(chain, Now(p)).checks /\ StepOf(chain, Now(p)).done
    BY <2>2, <2>3, <2>4 DEF StepNow
  <2> QED BY <2>1, <2>5, <2>6, DoneAchieves
<1>4. ASSUME NEW q \in Sessions, Mine(q) PROVE Goal
  <2>1. CASE StepNow(q).accepts
    <3> DEFINE s == [session[q] EXCEPT !.at = "mined"]
    <3>1. session' = AsMined(q, s)
      BY <1>4, <2>1 DEF Mine
    <3>2. DOMAIN session[q] = SessionFields
      BY DEF CommandInv, SessionInv
    <3>3. s.script = session[q].script
      BY <3>2 DEF SessionFields
    <3> HIDE DEF s
    <3>4. p = q /\ session'[q] = s
      BY <3>1, MovesMined, OthersPass DEF AsMined
    <3> QED BY <3>3, <3>4, WaitingPasses
  <2>2. CASE ~StepNow(q).accepts
    <3>1. session' = [session EXCEPT ![q] = Ended(q, "failed")]
      BY <1>4, <2>2 DEF Mine
    <3>2. p = q /\ session'[q] = Ended(q, "failed")
      BY <1>0, <3>1, MovesOne, OthersPass
    <3> QED BY <1>0, <3>2, FailedEnd
  <2> QED BY <2>1, <2>2
<1>5. ASSUME NEW q \in Sessions, Report(q) PROVE Goal
  <2> DEFINE s == IF StepNow(q).shows THEN Advanced(q) ELSE Ended(q, "failed")
  <2>1. session' = [session EXCEPT ![q] = s] /\ chain' = chain /\ session[q].at = "mined"
    BY <1>5 DEF Report
  <2>2. p = q
    <3> HIDE DEF s
    <3> QED BY <2>1, MovesOne, OthersPass
  <2> QED BY <2>1, <2>2 DEF AchieveInv, SeenInv, Passes, Now
<1>6. ASSUME NEW q \in Sessions, Refuse(q) PROVE Goal
  <2> DEFINE s == [Ended(q, "failed") EXCEPT !.raced = TRUE]
  <2>1. session' = [session EXCEPT ![q] = s]
    BY <1>6 DEF Refuse
  <2>2. p = q /\ session'[q] = s
    <3> HIDE DEF s
    <3> QED BY <1>0, <2>1, MovesOne, OthersPass
  <2> QED BY <1>0, <2>2, FailedEnd
<1>7. ASSUME NEW q \in Sessions, Kill(q) PROVE Goal
  <2> DEFINE s == [Ended(q, "killed") EXCEPT !.raced = TRUE]
  <2>1. session' = [session EXCEPT ![q] = s] \/ session' = AsMined(q, s)
    BY <1>7 DEF Kill
  <2>2. p = q /\ session'[q] = s
    <3> HIDE DEF s
    <3>1. Moves(q, s)
      BY <2>1, MovesOne, MovesMined
    <3> QED BY <3>1, OthersPass DEF Moves
  <2> QED BY <1>0, <2>2, FailedEnd
<1>8. ASSUME NEW q \in Sessions, NEW task \in TaskNames, Start(q, task) PROVE Goal
  <2>1. PICK script :
          session' = [session EXCEPT ![q] =
            [Idle EXCEPT !.task = task, !.script = script, !.at = "begin"]]
    BY <1>8 DEF Start
  <2> DEFINE s == [Idle EXCEPT !.task = task, !.script = script, !.at = "begin"]
  <2>2. session' = [session EXCEPT ![q] = s]
    BY <2>1
  <2> HIDE DEF s
  <2>3. p = q
    BY <2>2, MovesOne, OthersPass
  <2> QED BY <1>0, <1>8, <2>3 DEF Start
<1> HIDE DEF Goal
<1>9. Goal
  BY Zenon, <1>1, <1>2, <1>3, <1>4, <1>5, <1>6, <1>7, <1>8 DEF Next, Proceed
<1> QED BY <1>9 DEF Goal

\* A step that is passed while nothing came in between has done what it is for: it found it
\* done, or its transaction was mined on the node it had read.
THEOREM StepsThatPassAchieve == Spec => StepsAchieve
<1>1. Init => CommandInv /\ AchieveInv
  BY InitInv, InitSees
<1>2. CommandInv /\ AchieveInv /\ [Next]_vars => (CommandInv /\ AchieveInv)'
  BY StepInv, StepSees
<1>3. CommandInv /\ AchieveInv /\ [Next]_vars =>
        [\A p \in Sessions :
           /\ Busy(p) /\ ~session[p].stale
           /\ session'[p].script = Tail(session[p].script)
           /\ Len(session[p].script) = 1 => session'[p].outcome = "ok"
           => Achieved(chain', Now(p), session[p].read)]_vars
  <2> SUFFICES ASSUME CommandInv, AchieveInv, [Next]_vars, NEW p \in Sessions, Passes(p)
               PROVE  Achieved(chain', Now(p), session[p].read)
    BY DEF Passes
  <2> QED BY PassedOnlyIf
<1> QED BY <1>1, <1>2, <1>3, PTL DEF Spec, StepsAchieve
=============================================================================
