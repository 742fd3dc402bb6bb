# TLA+ models of fhe-erc3643

fhe-erc3643 is the T-REX suite (ERC-3643, permissioned tokens) with encrypted
amounts: balances, frozen amounts, allowances and the supply are `euint64`
handles on which the contracts compute without seeing the values. This directory
holds TLA+ models of the Solidity code in `src/contracts` and of the command line in
`src/sdk` and `src/tasks` that deploys and operates it, TLC configurations that check
them on small instances, and TLAPS proofs, for every value of the constants, of all the
safety properties of the contracts' models, of the deployment history and, but for
`SetupDelivers`, of the command line.

Two facts shape everything below.

* **A condition on encrypted data cannot revert.** It can only select 0. So a
  call that a cleartext token would refuse succeeds here, having moved nothing;
  what follows in the same call has to use the amount selected. Conditions on
  public data (pause, address freeze, roles, identity registry) are reverts and
  appear as guards of actions; conditions on encrypted data appear as `Select`
  inside the next values.
* **Encrypted arithmetic wraps and says nothing.** Every sum and difference is
  modulo `Word` (2^64 in the code), and whether it wraps is a question about the
  invariants of the whole system.

A transaction is atomic, so an action on a contract is a whole external function with
every call it makes. Concurrency is the interleaving of transactions of different
parties: holders, spenders, agents, the owners of token, registry and compliance,
claim issuers, approvers. A command of the command line is not atomic: it reads the
node, sends a transaction, waits for its receipt, reads again, and goes on to the next,
and several sessions run such commands against one node and one history file.

Contracts are passive and nobody is obliged to send a transaction, so their models
state no fairness and claim no liveness. The one place where something must happen is a
session that has started an operation (`History`, below). The system may stop whenever
the parties do: `CHECK_DEADLOCK FALSE` is set in every configuration.

## Inventory

| Component (under `src/contracts`) | State | Operations | Talks to | What makes it correct |
|---|---|---|---|---|
| `fhe-trex/token` Token | encrypted balances, frozen amounts, allowances, supply; pause flag, frozen wallets, agents; pointers to registry and compliance | transfer, transferFrom, approve, increase/decreaseAllowance, forcedTransfer, mint, burn, freeze/unfreeze amounts and wallets, pause, recovery, setters, agents | asks registry `isVerified`, asks compliance `canTransfer`, reports `transferred`; recovery writes the registry | the books balance; frozen amounts stay covered; units reach only verified wallets; recovery is complete |
| `compliance/modular` ModularCompliance | bound token, list and flags of modules | bind/unbind token, add/remove module, callModuleFunction, canTransfer, hooks | called by the token, walks its modules | list, flags and the modules' own bindings agree; hooks do not stop a working token |
| compliance modules | per compliance: a supply limit, user and country lists, exchange limits and counters | settings by the compliance's owner, `moduleCheck`, `moduleTransferAction` | read token supply, agents, identities, countries | lists obeyed by every entry point; limits hold; counters count what moved |
| `DVA/DVATransferManager` | criteria per token, transfers with approvers and status | set criteria, initiate, approve, delegate-approve, cancel, reject | a holder and spender of the token; reads agents and `isVerified` | escrow covered; settled once; completed only as required |
| `registry` IdentityRegistry, Storage, TrustedIssuers, ClaimTopics | wallet to identity and country; bound registries; issuers and topics in two indexes | register, update, delete, bind/unbind, add/remove/update issuer, topics | reads claims of identities | `isVerified` means what the lists say; the two indexes agree |
| `identity` Identity, ClaimIssuer | keys by purpose, executions, claims | addKey, removeKey, execute, approve, addClaim, removeClaim | executes calls on other contracts | an execution runs once; key indexes agree |
| `DVD/DVDTransferManager` | swaps, fees and parities | initiate, take, cancel, modifyFee | two ERC-20 tokens | both legs or neither; fees as documented |
| `roles` AgentRole, Roles, AgentManager | bearers and their index | add/remove, forwarded agent calls | token, registry | index agrees with the list |
| `factory`, `proxy/authority` | deployed suites, versions | deploy, upgrade | all of the above | one suite per salt; bounds of parts agree |
| `identity` factory, gateway, verifier | wallet to identity | create, link | Identity | one identity per wallet |
| `src/sdk/ChainConfig.ts` deployment history | six lists of addresses in a file; a copy of them in each session | load, save, clear; resolve a token, identity, claim issuer, factory or transfer manager from a name, symbol, salt or wallet | probes the contracts on the node; drops entries that do not answer | what is deployed is listed; a resolution finds the latest valid deployment |
| `src/sdk/cli`, `src/sdk/*API.ts` commands | none between commands, but for the history; within one, what it has read | new factory, issuer, token, identity, setup; agents, registration, claims, keys; modules and their settings; mint, burn, freeze, pause, transfer, allowances; transfer manager | send transactions one by one, wait for each, check before and after | what is listed is usable wherever a command stops; success means done; a setup leaves a working suite |
| `src/tasks` | none | parse options, load the history, run a command | the commands | each task runs its command on what the user named |
| `src/legacy`, test contracts, tests | none of the protocol | | | |

Hard behaviours, by kind (each with its line under `hazards` in `PROJECT.json`):
arithmetic that wraps silently; two values read before either is stored
(`_transfer`); checks made once on amounts that later calls change (frozen
amounts, allowances, supply limit, exchange counters reset lazily); partial
failure that succeeds (a settlement that moves nothing); calls of different
parties in orders nobody tested (freeze, pause, revoked claims, changed criteria
between two steps of a transfer); lists kept twice and updated by swap and pop;
commands that read the node, wait, and act on what they have read; sessions that
overwrite each other's history; a process that is killed between two transactions or
before the save; a node that comes back without its contracts.

## Modules

| Module | Models | Built on |
|---|---|---|
| `FHEUint` | the TFHE operations the code uses, on plain values: `Add`, `Sub`, `Select`, `SelectLeSub`, `ClampedSub` modulo `Word` | |
| `UnitSums` | the sum of a function of amounts, as the size of a set of units (so that it can be proved about without recursion) | |
| `TokenLedger` | the abstract specification: what the token promises about amounts | |
| `Token` | `Token.sol`, with the registry as the token sees it | `FHEUint`, `UnitSums` |
| `WindowCounter` | a counter with a timer, reset lazily, as both exchange modules keep it | `FHEUint` |
| `ComplianceModules` | the six modules converted to FHE, storage for one compliance | `Token`, `WindowCounter` |
| `RegulatedToken` | token and modules composed: each entry point with the verdict and the hook | `ComplianceModules` |
| `Compliance` | binding of tokens, compliances and modules, at all ends | |
| `DVA` | `DVATransferManager` composed with the token | `Token` |
| `Claims` | claims of identities: index by topic, validity, revocation | |
| `Registry` | several identity registries on shared storages, trusted issuers, required topics, `isVerified` | `Claims` |
| `History` | the history file, the sessions' copies of it, and resolution | |
| `Suite` | what the commands see of node and history, as one record | |
| `SuiteCommands` | commands that build a suite: factories, tokens, agents, identities, claims, modules | `Suite` |
| `TokenCommands` | commands on a token that exists, and its transfer manager | `SuiteCommands` |
| `Tasks` | the tasks: which steps each of them runs, on what, signed by whom | `TokenCommands` |
| `CommandLine` | sessions that run tasks step by step, faults included | `Tasks` |
| `CommonProofs` | lemmas about sums, and induction for loops, as facts about sets of numbers | `UnitSums` |
| `TokenProofs`, `RegulatedProofs`, `DVAProofs`, `ComplianceProofs`, `RegistryProofs`, `HistoryProofs`, `CommandLineProofs` | theorems about the module of the same name | `CommonProofs` |
| `MCToken`, `MCRegulated`, `MCCompliance`, `MCDVA`, `MCRegistry`, `MCHistory`, `MCCommandLine` | instances for TLC | |

**Token.** Each variable carries the name of the storage variable it stands for
(`balances` is `_balances` decrypted); `frozen`, `agents` and `hasBalance` are the
sets of addresses on which a mapping is set. `IsVerified(w)` is the registry's
answer: `identityOf[w]` (the registry) lies in `verifiedIds` (identities that
carry all required claims; it may change at any time by `ClaimsChange`, which
stands for claims revoked, issuers removed and topics added). `compliant` is the
verdict of the compliance: here a parameter that may be either value, in
`RegulatedToken` the answer of the modules. Batch functions are loops over an
action of the same name. `inflated` is a history variable: it becomes true when a
step creates units from nothing, which the code does in two places (a transfer of
a wallet to itself, and a mint that wraps the supply). Properties that speak of
sums say what holds until then; `SupplyTracksBalances` says what holds even after.
`movedBy` is another: the function that last moved units. A step of a holder and an agent's
forced transfer may change the balances alike, so a property that asks something of the
one and not of the other (`OutflowRespectsFreeze`, `ListsObeyed`, `ExchangeLimitsHold`, `SettledOnce`)
reads the name of the call and never guesses it from the effect. No guard reads it, so the
runs leave it out of the state they compare (`VIEW`); the properties that read it do so in its
primed form, in the step that sets it.
`RecoveryAddress` is the whole function: register, force the transfer, restore
the frozen amount, carry over the address freeze, delete the lost wallet, in that
order.

**ComplianceModules, RegulatedToken.** `rules` is the set of modules bound;
`CanTransfer` is the conjunction of the verdicts of the modules in it, and
`Transferred` what they record. `RegulatedTransfer` asks about the amount the
holder can afford and reports the amount that moved, as the code does. A module
keeps its storage while it is not bound. Time is `now`, advanced by `Tick`. What the setters
accept is accepted: the zero address as an allowed user, which lets every mint pass
`TransferRestrict`; windows of length 0, which are over in the block that opens them; monthly limits
longer than a word, which `MonthlyLimit` cuts as `TFHE.asEuint64` does. `wrapped` in a counter is a history
variable: what the open window has really counted no longer fits the word.

**Compliance.** `complianceOf` (the token's pointer), `tokenBound` (the compliance's
pointer), `modules` (the array), `moduleBound` (the flags) and `complianceBound`
(the binding on the module's side). `CallBindCompliance` and `CallUnbindCompliance`
are the calls an owner can make through `callModuleFunction` that change one side
only.

**DVA.** The manager is a wallet of `Token` and a spender. `InitiateTransfer` is
`TransferFrom` by the manager plus the record of what really arrived; `Settle` is
`Transfer` out of the manager's wallet plus the final status, whatever the
compliance answers. `Approved` folds one approval over the list of slots;
`ApprovedBy` folds a list of signatures. Hashing of the criteria is equality of
the criteria (`sequential` is not in the hash, in the code either). A signature is its signer,
as `ecrecover` answers it: a user, or the zero address (`NoWallet`) for an invalid one, which
`CanApprove` then takes for the holder of an agent slot nobody has taken, as `_canApprove` does. Nobody
calls the manager in person from the zero address. `byAgent` in a slot is a history variable: an agent of the
token approved it. `ResetApprovals` is the early return of a call
that finds the criteria changed.

**Claims, Registry.** A claim is stored under issuer and topic (the claim ID is their
hash) with its signature, in one of the encodings that recover to the same key (`v` as 27 or as
0, `s` or its complement). Revocation is of one encoding (`ClaimIssuer.sol:20`), so a holder can add a
revoked claim again in another (`Identity.sol:501`), although `IClaimIssuer.sol:24` calls it no longer valid:
`VerifiedAsDecided` therefore speaks of claims valid at the moment, and no property says that a
revocation lasts. `IsClaimValid` is the issuer's answer, `unresponsive` the
issuers whose answer is a revert, which `isVerified` catches. `topicsOf` and
`issuersFor` are the two arrays the TrustedIssuersRegistry keeps of one relation:
`PassesClaims` walks the second, as `isVerified` does, and `VerifiedAsDecided` says the
same with the first, with the list of trusted issuers. `SwapAndPop` is the loop by
which every array here loses an entry. `linked` and `storageAgents` are the registries
a storage lists and those it lets write. What `Token` calls `verifiedIds` is
`{id : PassesClaims(id)}` here; its registry actions are `RegisterIdentity`,
`UpdateIdentity` and `DeleteIdentity` seen through one registry. An issuer's keys
are a set here (`ChangeClaimKeys`); topic 0, the topic of a missing claim, is left out.

**History.** `file` is the history file: missing, torn (opened for writing, which
truncates it, and not written yet) or lists with the id of their chain. `lists[p]` is
session `p`'s copy, `task[p]` the operation it is in and where. `Load` starts a session;
`Deploy` is a command that has deployed something, after which `Save` appends it to the
copy and opens the file, `FinishWrite` puts the whole copy there, and `FailWrite` is the
failure the code logs and forgets. `StartResolve`, `Visit`, `EndScan` and `Answer` are one
resolution: entries are probed newest first, the ones that do not answer are dropped, and
the shorter list is saved. `Crash`, `ClearHistory` and `RestartNode` are what happens from
outside. `disturbed` is a history variable: it becomes true when something happens against
which the code has no defence (two sessions at once, a kill, a failed write or probe, an
address deployed again after a restart), and the properties say what holds until then.

**Suite, SuiteCommands, TokenCommands.** The record `chain` holds what the commands read
and write: owners, agents, registrations, claims, modules, balances, the transfer manager,
and the history as a set of entries (how the set gets there is `History`'s matter). A
command is a sequence of steps, and a step is one transaction or one save: `checks` is what
the command tests before it sends, `done` the early return when there is nothing to do,
`accepts` what the contract requires, `after` what it changes, `shows` what the command
verifies when the transaction is mined. `checks` and `accepts` come from different code, and
where they differ is where the interleavings matter. `dva.surplus` and `dva.burned` are history
variables, for each token: what the transfer manager was given or left with beyond the transfers
it settles, and what was burned of it. `WithinMonthly` is the refusal of the monthly module under its default limit
of 0. A delegated approval takes the approvals of one signer or of two, valid or not (no transfer
here lacks more than two). The steps of `TransferOwnership` ask each contract's owner in turn, where
`TREXFactoryAPI.ts:236-246` reads the five owners first and does not await the checks: the function's
only caller (line 319) runs on the in-process network, on contracts the session has just deployed
and nobody else can reach, so the two readings see the same owners and no check fails.

**Tasks, CommandLine.** `ScriptsOf` gives the scripts of a task, one for each choice of its
options, right or wrong; where a command takes the address of a holder, the transfer manager's is
one of them (`ForHolder`). `Start` begins a task; `Record` saves; `Begin` checks, skips or
sends; `Mine` is the transaction with whatever others have changed since; `Report` is the
check afterwards. `Refuse` is a transaction the node does not take, `Kill` a session that is
stopped, whose last transaction may still be mined. On the in-process network (`hardhat`)
a token is deployed by hand, part by part, and a process is alone with its node.

## Runs

All bounds are in the `.cfg` files. A word of 2 to 4 values is enough for every sum and
difference to wrap; two wallets are enough for a sender and a receiver that may
coincide.

| Run | Checks | Instance, and why it is enough |
|---|---|---|
| `token` | `TypeOK`, `FrozenWithinBalance`, `SupplyIsSum`, `SupplyTracksBalances`, `RecoveryIsComplete`, `LedgerSpec` | two wallets of one investor, one agent, words of 4 values, every operation of token and registry (no spenders: `regulated` has them). Wallets are interchangeable, and all properties speak of states or single steps, so symmetry is sound. `InflowVerified` and `OutflowRespectsFreeze`, which are proved of the same specification, are checked by `regulated`, where there are spenders too |
| `regulated` | `InflowVerified`, `OutflowRespectsFreeze`, `LedgerSpec`, `CirculationCapped`, `ListsObeyed`, `RegulatedTypeOK`, `LimitIndexConsistent`, `MonthlyCountsMoves`, `TimeCountsMoves`, `ExchangeLimitsHold` | three scenarios of two wallets, a spender, an agent and words of 3 values; modules of different scenarios share no state. `trading`: allowances, an agent's powers and a supply limit that is set and changed, registry fixed to any value. `lists`: two country lists and the user list (with the zero address), rewritten at any time, with transfers, a spender's transferFrom, forced transfers, registry changes, recoveries and mints; one country and the missing one, one unit in circulation. `exchange`: an investor and an exchange, one tick of time, windows of 0 and 1 and months of 1, so that one window is over at once and the others close, a monthly limit longer than the word, modules removed and bound again; one of the two modules at work per behaviour. No allowance bounds `transferFrom`, so the last two need no approvals. All stop where units appear from nothing |
| `compliance` | `TypeOK`, `ModulesConsistent`, `OnlyOwnCallsStop` | two tokens, two compliances, four modules for three places, so that the list fills |
| `dva` | `DVATypeOK`, `StatusMatchesApprovals`, `EscrowCovered`, `SettledOnce`, `CompletedAsRequired`, `ApprovedInOrder` | two transfers in escrow, one holder, one recipient who may be an agent too, two sets of criteria (or none yet), lists of two signatures, valid or not, verdicts of either kind, an agent that seizes units, claims that are revoked. Starts in a suite in operation: investors registered, holder funded |
| `registry` | `TypeOK`, `ClaimsListed`, `IssuerIndexesAgree`, `VerifiedAsDecided`, `OnlyAgentCallsPart` | two registries, two storages, two issuers, two topics, two encodings of a signature (lists of up to two, repetitions included), one investor. One claim is spoilt at a time (revoked, signing key lost, issuer failing), and then with one required topic; bindings change while nothing is required, because they share no state with the claims. Issuers, topics and encodings are interchangeable |
| `history` | `HistoryTypeOK`, `HistoryComplete`, `LatestResolved`, `SavedEventually` | two sessions, two addresses, a contract of each kind (two tokens of crossed names and salts, two identities of one wallet), five operations of the user, one fault; the file missing at first or left by another network. Two addresses suffice for an older and a newer match and for an address that is used again |
| `operations` | `CommandTypeOK`, `ListedUsable`, `OneTokenPerSalt`, `EscrowHeld`, `SetupDelivers`, `StepsAchieve` | two sessions, five wallets, two of them users, two claim issuers, in four scenarios: a factory or a setup while another session runs a task (`setup`), a setup on the in-process network with tasks after it (`manual`), and, on a finished suite, two tasks at once with a fault (`suite`) or three on a transfer manager (`manager`). There, units are minted to, burned from, frozen at and sent to the manager's address, its approvals are signed by agents, users and nobody, and the recipient's identity may be tagged as an exchange without a limit. A task is signed by the wallet it is for or by the wrong one. At most one fault, anywhere |
| `self_transfer` | violation of `DebitThenCredit` | see below |
| `allowance` | violation of `AllowanceIsSpent` | see below |
| `supply_wrap` | violation of `MintRespectsLimit` | see below |
| `exchange_wrap` | violation of `MonthlyLimitKept` | see below |
| `forged_approval` | violation of `AgentHasApproved` | see below |

**What a session may take for granted.** `SetupDelivers` and `StepsAchieve` say what the
commands promise, and the conditions in them are part of the result: a setup delivers
when no other transaction is mined while it runs and nothing is refused; a step achieves its
purpose when nothing is mined between what it read and what it reports. Without the
conditions both are false, and rightly so, because the commands do not lock anything:
another session may remove the agent, pause the token or take the transfer number just
read. What holds however sessions interleave is what protects later ones: `ListedUsable`,
`OneTokenPerSalt` and `EscrowHeld`. The last is an equation, for every token: what the manager
holds and what was burned of it make what its pending transfers have paid in and what it was given or
left with. Agents can mint to its address and burn from it, anybody can send to it, and
a payment can succeed and move nothing, because a module refuses it (a restriction bound while transfers
are pending, an exchange without a limit) or the manager's units are frozen: the units then stay with the manager for
good. Each of these is counted where it happens, so the equation fails when a transfer is paid twice, is owed what never
arrived, or ends unpaid without being counted. The arm of a payment of the manager to itself (`Kept`)
is reached only by the proof: in the run `TransferRestrict` refuses it.

**Fairness.** `History` assumes weak fairness of `Proceed` for each session: a process that
has been asked to deploy or resolve something runs its continuations, and the node answers
or refuses each call. Nothing makes a user start an operation, a write fail, or a process
stop. `SavedEventually` is the liveness this gives: what a session is about to save
reaches the file, unless the history is disturbed. `CommandLine` states no fairness and
only safety.

**Bounds of the command-line models.** Every bound is a constant: `MaxFaults`,
`MaxOperations` (operations of users in `MCHistory`), `SetupTasks`, `SuiteTasks` and
`ManagerTasks` (tasks started besides the setup in `MCCommandLine`). One session deploys at most one
token, one identity for each user and one module of each name, so addresses can be named
for the session; there is one factory and one transfer manager (a second deployment ends there, a guard of `Deploy` and
`DeployManager`); every token asks for the same
salt. Amounts are one token, so a freeze, a burn or a transfer either meets enough or does
not. What a command reads before it sends is one atomic read, a coarser grain than the
code's: reads that disagree among themselves are left out, while everything between read
and transaction, and between transaction and report, is in. A transfer to oneself
gains a unit, as in `self_transfer`.

### What the violations show

* **`self_transfer`.** `_transfer` (`Token.sol:1010`) computes both new balances from
  the old ones and then stores them. With sender and receiver the same the credit
  overwrites the debit: the wallet gains the amount, `totalSupply` does not change.
  The comment at `Token.sol:1025-1026` gives the two assignments in sequence that
  the code stands for, and these leave the balance unchanged. This is why the
  ledger's invariants are conditional on `~inflated`.
* **`allowance`.** `transferFrom` bounds the amount by balance and compliance only and
  clamps the allowance at zero, where `IFHEERC20.sol:75-76` says that the amount is
  moved by the allowance mechanism and deducted from it.
* **`supply_wrap`.** `SupplyLimitModule.moduleCheck` compares a sum that wraps with the
  limit; a mint near the top of the word passes and leaves more in circulation than
  "the max amount of tokens in circulation" (`SupplyLimitModule.sol:16`).
* **`exchange_wrap`.** The monthly module adds the amount to the count modulo 2^64
  (`ExchangeMonthlyLimitsModule.sol:219`). Forced transfers are counted without a check; once
  they have brought the count near 2^64, a holder's transfer wraps it and passes, beyond the "amount Limit of tokens to be
  transferred monthly" (line 31). `ExchangeLimitsHold` therefore claims nothing of a window whose count has wrapped.
* **`forged_approval`.** `delegateApproveTransfer` (`DVATransferManager.sol:161`) does not test
  what `ecrecover` answers. For an invalid signature it is the zero address, which is the
  wallet of an agent slot nobody has taken, so the slot is approved and the transfer may
  complete without an agent, where `IDVATransferManager.sol:52` says the agent is one of the approvers.
  `CompletedAsRequired` and `ApprovedInOrder` say what holds all the same.

Read together with `DVA`, the second one means that the escrow in the manager's wallet is open to
anybody who calls `transferFrom` on it; `EscrowCovered` and `SettledOnce` exempt such
steps by the name of the call (`Seized`), with the agents' powers, and hold for everything
else: the manager itself pays by `transfer`, so no settlement, repeated or not, passes for a seizure.

## Proofs

TLC checks each formula on one small instance; the theorems are for every value of the constants
under these assumptions, each stated in the module that declares the constants:
`WordAssumption` (the word is a positive natural number), `TokenAssumption`
(finitely many wallets; spenders are wallets; the zero identity is no identity;
management keys are wallets), `ModulesAssumption` (the zero address holds nothing;
windows are lengths of time, 0 included; bounds are numbers), `DVAAssumption` (the manager is one
of the spenders; holders and agents may call it, and nobody calls from the zero address, which
signatures may name all the same), `ClaimsAssumption` (no signature is the missing one), `RegistryAssumption` and
`ComplianceAssumption` (bounds of lists are numbers; finitely many tokens, compliances
and modules), and, for the history, `ContentsAssumption`, `ZeroAssumption`,
`ChainAssumption` and `FaultsAssumption` (contracts are of a known kind and the markers for
none, missing and garbled are no values of theirs) and `FilesAssumption` (a file found at
the start was written by the command line). For the command line, `WalletsAssumption`: the
wallets named by role are wallets, the addresses of the transfer manager and of the sessions'
tokens are contracts and so nobody's wallet, and there are finitely many users and issuers; and
`MaxFaultsAssumption` (the bound on faults is a number).

| Theorem | Says |
|---|---|
| `TypeCorrect` | `Spec => []TypeOK`: amounts stay in the word |
| `FrozenCovered`, `SupplyCorrect` | until units appear from nothing, balances cover frozen amounts and sum to the supply |
| `TokenImplementsLedger` | `Spec => Ledger!Spec`: each step of the token is a ledger step or a stutter |
| `RecoveryCorrect` | recovery hands over everything |
| `InflowCorrect`, `OutflowCorrect` | who may gain units; unless an agent forces, burns or recovers, when a wallet may lose them |
| `SupplyKeepsTrack` | supply and balances move together modulo the word, also after either has wrapped |
| `RegulatedIsToken` | `RegulatedSpec => Spec`: with any modules and any answers, the regulated token is a token |
| `CirculationIsCapped` | with a supply limit bound, circulation grows only up to it |
| `RegulatedTypeCorrect`, `LimitsIndexed` | the modules' storage keeps its types; a list of time limits and its index agree |
| `ListsAreObeyed` | whoever gains units by transfer, transferFrom or mint satisfies the lists in force |
| `MonthlyCounted`, `TimeCounted` | the exchange modules count exactly the units that arrive, and open a window only when the last has closed |
| `LimitsHold` | what holders send to an exchange stays within every limit in force, until a count wraps |
| `ComplianceTypeCorrect` | lists of modules stay within their bound and without repetition |
| `ModulesStayConsistent` | a compliance lists exactly the modules it has flagged |
| `OnlyOwnCallsStopTokens` | a working token is stopped only by a call of its own compliance that says so |
| `DVAIsToken` | `DVASpec => Spec`: a token whose manager keeps units in escrow is a token |
| `EscrowStaysCovered` | the manager's wallet covers what is pending until units are seized from it |
| `TransfersSettleOnce` | a transfer is settled once, for exactly the units that arrived for it |
| `DVATypeCorrect`, `StatusTellsApprovals` | transfers keep their types; a transfer is completed if and only if no slot of its list is open |
| `TransfersCompletedAsRequired` | a transfer completes only when everybody required now has approved it, each in a slot of their own, the agent's slot by an agent of that moment or by an invalid signature |
| `ApprovalsInOrder` | under sequential approval no slot is filled before those ahead, by valid signatures or others |
| `RegistryTypeCorrect`, `IssuerIndexesStayEqual` | lists stay within their bounds; the two indexes of trusted issuers are one relation, repetitions counted |
| `VerificationAsDecided` | `isVerified` accepts a wallet exactly when what the owners have decided says so |
| `ClaimsStayListed` | a holder's list of a topic names the claims it stores, each once |
| `OnlyAgentCallsPartLinks` | only direct calls of the agent functions part a storage's list of registries from those that may write |
| `HistoryTypeCorrect` | file and copies name no address twice, and no dropped entry is saved |
| `NothingDeployedIsLost` | until the history is disturbed, what is deployed is in the file or about to be |
| `LatestIsResolved` | until then, a resolution answers the latest deployment that matches |
| `CommandTypesHold` | sessions are where the handlers leave them, frozen units are held, no compliance lists a module twice |
| `SaltsAreUsedOnce` | of any number of sessions that ask for the salt, one gets its token |
| `EscrowIsHeld` | the transfer manager's units are accounted for, token by token: paid in, given, left or burned |
| `ListedIsUsable` | what the history lists is there, complete and linked, wherever sessions were killed or refused |
| `StepsThatPassAchieve` | a step passed on a node nobody changed meanwhile has done what it is for |

**The argument.** The inductive invariant is `TypeOK` and
`LedgerInv == FrozenWithinBalance /\ SupplyIsSum`. Neither half is inductive alone:
a debit is exact only if `balance - frozen` does not wrap, and a credit is exact only
if two balances together fit the supply, which fits the word. With both, every
`Add` and `Sub` the code performs is exact (`ExactArithmetic`, `BalancesFit`), each
action is a step of `TokenLedger` (`HolderStep`, `AgentStep`, ...), and each step
of the ledger preserves the invariant (`LedgerPreserves`). So the invariant and the
refinement come from one case analysis. Sums are handled by `CommonProofs`: `SumOf`
is the cardinality of a set of units, so that what changing a point does to a sum
follows from the theorems about finite sets and needs no induction.

`RegulatedIsToken` then carries the theorems about `Token` over to the composition:
`CirculationIsCapped` uses `SupplyCorrect` there, and so the supply the module
reads is the circulation it caps.

`ModulesConsistent` is not inductive without `TypeOK`: that `removeModule` leaves no second
entry of the module rests on the list being without repetitions, and that `addModule` keeps
it so rests on list and flags agreeing. The invariant is the conjunction of the two, and the
one step that needs work is the swap and pop (`WithoutModule`): the lemmas before it say
which entries it keeps, and that no two of them become equal.

`DVAIsToken` is the same kind of argument the other way round: a settlement is a step of
`Token` because the amount it moves is an amount, and that is an invariant of the transfers
(`TransfersOK`: what a transfer is about never changes after it is initiated). The lemma
`ManagerStep` reduces the manager's functions to three outcomes, whatever approvals they read:
a pending transfer takes note of something and no unit moves, a pending transfer is settled by
a transfer out of the manager's wallet, or a new one is initiated. Then `EscrowStaysCovered`
compares the sum of what is pending before and after each outcome (`SumExtend`: a sum over one
more entry) with what the wallet gains or loses: `Deposited` says that the amount owed is what
arrived, exactly; `Paid` that a settlement pays what is owed or nothing; `OthersSeize`
that no other step of the token takes units from that wallet unless it is a seizure. All three
need the token's own invariant, since only then are debits exact.
These theorems do not depend on how a list of approvals is completed.

`ClaimsListed` is inductive with the types: `removeClaim` strikes the first entry it finds and
pops the last, which leaves exactly the others only if no entry is listed twice (`Popped`), and
`addClaim` lists an issuer only if nothing is stored under the topic, which is the same as
not being listed (`ClaimWritten`). `OnlyAgentCallsPartLinks` uses the same two lemmas about lists on the
registries of a storage, and that no other step touches claims and bindings (`OtherSteps`).

**Modulo the word.** `SupplyKeepsTrack` needs no more than `TypeOK`: it holds where the
other sums are lost, after `inflated`. `Add` and `Sub` differ from the sum and the difference by
a multiple of the word or nothing; two changes of balances (`MoveTracks`), or one and the supply's
(`SupplyTracks`), differ by at most one word, so the remainders are the same (`SameRemainder`).

**What modules are told, and what moves.** The exchange modules are told wallets and an
amount; `UnitsMoved` reads a step off the balances before and after. The two agree only while
balances are exact, so the properties of `RegulatedToken` rest on `LedgerInv` as well as on the
modules' own invariant, `StorageInv == ModulesTypeOK /\ LimitIndexConsistent`: without the
index in it, a limit that is set again might not replace the one in the array, and what
`moduleCheck` compares would not be what the array says. Each entry point has one lemma that says which move it reports and
that it asked about it; `ListsAreObeyed`, the two theorems on counters and `LimitsHold` follow from these.

**A compliance that answers.** `OnlyOwnCallsStopTokens` first replaces the walk over the list by what it
amounts to when list and flags agree (`OperationalIsAnswering`), and then asks of each step which
pointers or flags of the token's own compliance it can change.

**Approvals.** A delegated approval is a loop, and its invariant is a relation between the
list before and after any number of rounds (`Advanced`): the same approvers in the same places,
no approval taken back, none given out of order. It is reflexive, transitive, and holds of
one approval, hence of the loop. The invariant `ApprovalInv` adds to the types that slots
stay those of the criteria they were made for (`ApproversKept`), and that a transfer implies criteria
(`RegisteredFirst`). Both are needed: a transfer completes by its own slots, and `CompletedAsRequired` speaks
of the criteria in force.

**Indexes of issuers.** `IssuerIndexesAgree` compares how often an entry is listed, and the
proof counts: one turn of `addTrustedIssuer`'s loop appends one entry to one list, and one turn of
`removeTrustedIssuer`'s takes one away by swap and pop, so a topic given twice is listed
twice and removed twice. `VerifiedAsDecided` follows in every state of the
invariant, since `isVerified` reads one index and the property the other.

**The history.** A copy is compared with `born`, the contracts in the order they were
deployed. `Keeps` says that a copy names exactly the first *n* of them, each under its kind, and
that what follows an entry in its list was deployed later; deploying, saving, loading and
striking out a dropped entry each keep it (`KeepsDeployed` and the lemmas after it). `Undisturbed` says which copies keep what while
nothing has disturbed the history: one session runs at a time, its copy and the file keep all
deployments but the one it is about to save. `Resolving` is the invariant of the scan: no
deployment after the entry being probed matches. `BornOnce` and `OncePerSalt`
say what the node guarantees (an address holds one deployment, a factory one token of a salt)
and are what makes "the latest" unique. The conjunction with `TypeInv` is `HistoryInv`,
which TLC found to hold on the instance of `history` before it was proved.

**Commands.** A session decides on one state of the node and its transaction meets another. The
proof therefore never compares the two: `StepSound` shows that every transaction a script may
contain, sent to any chain in order (`ChainInv`) and accepted there, leaves the chain in order and
takes nothing away that somebody may rely on (`Keeps`: what is deployed stays deployed, what is
linked stays linked, an entry of a registry is never replaced). `Sound` is the conjunction.
Most steps touch one suite and are covered by `OnSuite`, or none and by `OffSuites`; the steps of
the transfer manager change a balance and a list at once, and `OnLedger` compares the sum of what is
due (`Due`) before and after.

What the history lists rests on facts about the chain (`Needs`), and a step of a script leaves one
(`Fact`). A script is in order (`Good`) when each of its saves comes after steps that leave all
that its entry needs. `ScriptsGood` shows this of every script of every task, with every choice of
its options, by taking scripts apart the way `Tasks` puts them together (`GoodConcat`,
`ConcatAfter`, `GoodFlatten`). While a script runs, a need that was to be left by a step already
passed is a fact that holds (`BackedTail`), and stays so because no step takes it away: that is `SessionInv`. When
the save comes there is nothing left to wait for (`SaveSound`). A session that stops anywhere has
saved only what was complete.

`CommandInv` is the conjunction for the chain, the history and all sessions, with `AloneInv`: on
the in-process network there is one session, so the token deployed by hand is the only one of its salt.
`AchieveInv` adds what a session whose view is not stale knows: the transaction it has sent meets
the chain it has read, so the number of the next transfer is the one it read, and a module it
found is still there (`Ready`); then `MinedAchieves` goes through the steps. TLC found both invariants to
hold on the instance of `operations` before they were proved. Among what the invariant needs beyond the
properties: a token that is not deployed has no transfers, and nothing is registered, owned or
held there (`Untold`); a step of the ledger changes what is due, given and burned for one token only
(`LedgerMove`); two approvals of one call are two sound steps (`SoundTwice`); and the token itself stays an agent of its registry.

**Loops.** The provers know no induction over data. `CommonProofs` states it as facts about
sets of numbers: if 0 is in a set of numbers up to *m*, and with every number its successor, the set is
all of them (`InductionUpTo`); a loop of *m* rounds has the values it goes through
(`LoopHistory`). Loops of the models that proofs are about are recursive functions of the number of
rounds (`WithoutDropped` in `History`, the loops of `Registry`, `ApprovedBy` in `DVA`), so that these facts apply.

**Only model-checked.** `SetupDelivers` of `CommandLine`: the outcome of a whole setup is a statement
about some forty steps whose number depends on the users, issuers and modules, each with a precondition left by
others, and a proof would restate the script as an invariant of every position in it. And
`SavedEventually` of `History`, which is liveness under fairness and out of the proof system's reach, as
`ENABLED` is.

## Plan

Done, in this order: the token and its ledger with proofs; compliance bindings,
modules and their composition with the token with proofs; delivery versus approval
composed with the token; registries and claims; the deployment history; the commands
and sessions that deploy and operate a suite; proofs about compliance bindings, about
the escrow of delivery versus approval, and about claims and linked registries; proofs about
approvals, exchange limits and lists, issuers and verification, tokens that stop, sums
modulo the word, the history, and sessions of the command line.

Next, by importance:

1. **Identity**: keys by purpose, executions that call back before they are marked
   as executed; recovery's use of management keys.
2. **DVD**: swaps with fees and parities. The fee formula does not depend
   on the base as its documentation says; a run will show it.
3. **Roles**: bearers and index, agent managers in front of token and registry.
4. **Gateway, authority**: deployers and fees, upgrades, auxiliary authorities.
5. **Proofs**: `SetupDelivers`, with an invariant on each stage of the script; that each step of
   `Registry` is a registry step of `Token` for every token that reads it.
6. **Composition**: that each step of a command is a step of the contract's own module, seen
   through the record of `Suite`.

## Not modelled

* Compliance modules not converted (`src/README.md:164` and the modules whose hooks
  revert with TODO): a token that binds one moves nothing.
* The pre-modular compliance and `src/legacy`: not part of the encrypted suite.
* Token metadata, events, storage layout, `delegatecall` and upgrades: no
  property reads them.
* TFHE itself: encryption, decryption, proofs of inputs and access-control lists on
  handles are external; a handle is its value.
* Commands that only read (balances, owners, lists of modules, criteria), except for what
  they resolve: no other session can tell that they ran.
* `TokenConfig`: parsing of a JSON file; its result is the owner, issuers and salt of a token.
* Wallet lookups, the encryption engine and logging of the SDK: no state. A wallet named by the
  user is a wallet of the list.
* In the commands: additional approvers and sequential approval (`DVA` has them), address
  freezes (no task sends one), options that would load parts deployed earlier (no task
  gives them), and the task that calls its command with arguments in the wrong order
  (`tasks/token.ts:67`) and throws before anything is done: the model runs the command as it
  is declared. The two that leave arguments out (`tasks/roles.ts:23`, `tasks/trex.ts:26`)
  are modelled: the session fails after its first transaction (`Hasty`).
* Tests and test contracts.
