------------------------------- MODULE Token -------------------------------
(***************************************************************************)
(* Token.sol: the encrypted T-REX token.                                   *)
(*                                                                         *)
(* A condition on public state (pause, frozen wallets, roles, the identity *)
(* registry) is a revert, so it is a guard here.  A condition on encrypted *)
(* state cannot revert: it selects the amount 0, and the call succeeds     *)
(* having moved nothing.                                                   *)
(*                                                                         *)
(* The identity registry is the token's view of it: which identity a       *)
(* wallet is registered with, and which identities currently carry every   *)
(* required claim.  The verdict of the compliance contract is the          *)
(* parameter compliant of the actions that ask for it.  A batch function   *)
(* is a loop over the action of the same name.                             *)
(***************************************************************************)
EXTENDS FHEUint, UnitSums

CONSTANTS
  Wallets,          \* addresses that can hold tokens
  Spenders,         \* the wallets others grant allowances to
  AgentAddresses,   \* addresses the owner may make agents of the token
  Identities,       \* onchain identities (ONCHAINID contracts)
  NoIdentity,       \* the zero address in the identity registry
  ManagementKeys    \* [Identities -> SUBSET Wallets]: wallets with purpose 1

ASSUME TokenAssumption ==
  /\ IsFiniteSet(Wallets)
  /\ Spenders \subseteq Wallets
  /\ NoIdentity \notin Identities
  /\ ManagementKeys \in [Identities -> SUBSET Wallets]

VARIABLES
  balances,         \* _balances, decrypted
  hasBalance,       \* wallets whose balance handle is initialised
  frozenTokens,     \* _frozenTokens, decrypted
  allowances,       \* _allowances, decrypted
  totalSupply,      \* _totalSupply, decrypted
  frozen,           \* wallets with _frozen set
  paused,           \* _tokenPaused
  agents,           \* bearers of the agent role
  identityOf,       \* IdentityRegistry.identity
  verifiedIds,      \* identities that pass the claims check of isVerified
  inflated,         \* history: units have appeared out of nothing
  movedBy           \* history: the function that last moved units

amountVars == <<balances, hasBalance, frozenTokens, totalSupply, inflated, movedBy>>
accessVars == <<frozen, paused, agents>>
registryVars == <<identityOf, verifiedIds>>
vars == <<amountVars, allowances, accessVars, registryVars>>

\* All but movedBy, which no guard reads: what a model checker has to tell apart.
tokenView == <<balances, hasBalance, frozenTokens, totalSupply, inflated,
               allowances, accessVars, registryVars>>

\* Token.sol's functions that move units.  Only properties read movedBy: a step
\* of a holder and a step of an agent may change the balances alike, and what is
\* demanded of the one is not demanded of the other.
AgentMoves == {"forcedTransfer", "burn", "recoveryAddress"}
HolderMoves == {"transfer", "transferFrom"}
Moves == {"none", "mint"} \cup HolderMoves \cup AgentMoves

TypeOK ==
  /\ balances \in [Wallets -> Amount]
  /\ hasBalance \subseteq Wallets
  /\ frozenTokens \in [Wallets -> Amount]
  /\ allowances \in [Wallets -> [Spenders -> Amount]]
  /\ totalSupply \in Amount
  /\ frozen \subseteq Wallets
  /\ paused \in BOOLEAN
  /\ agents \subseteq AgentAddresses
  /\ identityOf \in [Wallets -> Identities \cup {NoIdentity}]
  /\ verifiedIds \subseteq Identities
  /\ inflated \in BOOLEAN
  /\ movedBy \in Moves

\* init() leaves the token paused with an encrypted zero supply; the suite's
\* deployment adds the agents, and investors are registered before trading.
Init ==
  /\ balances = [w \in Wallets |-> 0]
  /\ hasBalance = {}
  /\ frozenTokens = [w \in Wallets |-> 0]
  /\ allowances = [w \in Wallets |-> [s \in Spenders |-> 0]]
  /\ totalSupply = 0
  /\ frozen = {}
  /\ paused = TRUE
  /\ agents = {}
  /\ identityOf \in [Wallets -> Identities \cup {NoIdentity}]
  /\ verifiedIds \in SUBSET Identities
  /\ inflated = FALSE
  /\ movedBy = "none"

\* IdentityRegistry.isVerified
IsVerified(w) == identityOf[w] \in verifiedIds

(***************************************************************************)
(* Amounts.                                                                *)
(***************************************************************************)

\* Mutant of BalancesAfter: plain integers, no word.
BalancesAfterUnbounded(from, to, units) ==
  [balances EXCEPT ![from] = balances[from] - units,
                   ![to] = balances[to] + units]

\* _transfer computes both new balances from the old ones before it stores
\* either; when from = to the second store wins.
BalancesAfter(from, to, units) ==
  [balances EXCEPT ![from] = Sub(balances[from], units),
                   ![to] = Add(balances[to], units)]

MoveUnits(from, to, units) ==
  /\ balances' = BalancesAfter(from, to, units)
  /\ hasBalance' = hasBalance \cup {from, to}
  /\ inflated' = (inflated \/ (from = to /\ units # 0))
  /\ UNCHANGED totalSupply

\* The amount a holder's transfer moves: all of it or nothing.
Transferable(from, amount, compliant) ==
  Select(compliant, SelectLeSub(amount, balances[from], frozenTokens[from]), 0)

\* forcedTransfer and burn act on the whole balance, and unfreeze the shortfall.
ForcedUnits(from, amount) == Select(balances[from] >= amount, amount, 0)

\* Mutant of Shortfall: releases the whole amount.
ShortfallWhole(from, amount) ==
  Select(amount > Sub(balances[from], frozenTokens[from]) /\ balances[from] >= amount,
         amount, 0)

Shortfall(from, amount) ==
  LET free == Sub(balances[from], frozenTokens[from])
  IN Select(amount > free /\ balances[from] >= amount, Sub(amount, free), 0)

FrozenAfterForce(from, amount) ==
  [frozenTokens EXCEPT ![from] = Sub(@, Shortfall(from, amount))]

BurnShortfall(w, amount) ==
  LET rest == Sub(balances[w], amount)
  IN Select(balances[w] >= amount /\ frozenTokens[w] > rest,
            Sub(frozenTokens[w], rest), 0)

\* Mutant of FrozenAfterFreeze: a strict comparison.
FrozenAfterFreezeStrict(bal, frz, w, amount) ==
  [frz EXCEPT ![w] = Select(bal[w] > Add(@, amount), Add(@, amount), @)]

\* freezePartialTokens on the balances bal and the frozen amounts frz.
FrozenAfterFreeze(bal, frz, w, amount) ==
  [frz EXCEPT ![w] = Select(bal[w] >= Add(@, amount), Add(@, amount), @)]

(***************************************************************************)
(* Holders and spenders.                                                   *)
(***************************************************************************)
Approve(owner, spender, amount) ==
  /\ allowances' = [allowances EXCEPT ![owner][spender] = amount]
  /\ UNCHANGED <<amountVars, accessVars, registryVars>>

IncreaseAllowance(owner, spender, amount) ==
  Approve(owner, spender, Add(allowances[owner][spender], amount))

DecreaseAllowance(owner, spender, amount) ==
  Approve(owner, spender, ClampedSub(allowances[owner][spender], amount))

\* Mutant of Transfer: a frozen sender is not looked at.
TransferOutOfFrozen(from, to, amount, compliant) ==
  /\ ~paused
  /\ to \notin frozen
  /\ IsVerified(to)
  /\ MoveUnits(from, to, Transferable(from, amount, compliant))
  /\ movedBy' = "transfer"
  /\ UNCHANGED <<frozenTokens, allowances, accessVars, registryVars>>

Transfer(from, to, amount, compliant) ==
  /\ ~paused
  /\ {from, to} \cap frozen = {}
  /\ IsVerified(to)
  /\ MoveUnits(from, to, Transferable(from, amount, compliant))
  /\ movedBy' = "transfer"
  /\ UNCHANGED <<frozenTokens, allowances, accessVars, registryVars>>

\* Mutants of TransferFrom: to an unverified wallet; out of the frozen part of
\* the balance.
TransferFromToAnyone(spender, from, to, amount, compliant) ==
  LET units == Transferable(from, amount, compliant)
  IN /\ ~paused
     /\ {from, to} \cap frozen = {}
     /\ allowances' =
          [allowances EXCEPT ![from][spender] = ClampedSub(@, units)]
     /\ MoveUnits(from, to, units)
     /\ movedBy' = "transferFrom"
     /\ UNCHANGED <<frozenTokens, accessVars, registryVars>>

TransferFromAll(spender, from, to, amount, compliant) ==
  LET units == Select(compliant, ForcedUnits(from, amount), 0)
  IN /\ ~paused
     /\ {from, to} \cap frozen = {}
     /\ IsVerified(to)
     /\ allowances' =
          [allowances EXCEPT ![from][spender] = ClampedSub(@, units)]
     /\ MoveUnits(from, to, units)
     /\ movedBy' = "transferFrom"
     /\ UNCHANGED <<frozenTokens, accessVars, registryVars>>

\* The amount is bounded by the balance of from, not by the allowance.
TransferFrom(spender, from, to, amount, compliant) ==
  LET units == Transferable(from, amount, compliant)
  IN /\ ~paused
     /\ {from, to} \cap frozen = {}
     /\ IsVerified(to)
     /\ allowances' =
          [allowances EXCEPT ![from][spender] = ClampedSub(@, units)]
     /\ MoveUnits(from, to, units)
     /\ movedBy' = "transferFrom"
     /\ UNCHANGED <<frozenTokens, accessVars, registryVars>>

(***************************************************************************)
(* Agents.                                                                 *)
(***************************************************************************)
Pause(agent) ==
  /\ agent \in agents
  /\ ~paused
  /\ paused' = TRUE
  /\ UNCHANGED <<amountVars, allowances, frozen, agents, registryVars>>

Unpause(agent) ==
  /\ agent \in agents
  /\ paused
  /\ paused' = FALSE
  /\ UNCHANGED <<amountVars, allowances, frozen, agents, registryVars>>

ForcedTransfer(agent, from, to, amount) ==
  /\ agent \in agents
  /\ IsVerified(to)
  /\ frozenTokens' = FrozenAfterForce(from, amount)
  /\ MoveUnits(from, to, ForcedUnits(from, amount))
  /\ movedBy' = "forcedTransfer"
  /\ UNCHANGED <<allowances, accessVars, registryVars>>

\* Mutant of Mint: the balance grows even when the mint is not compliant.
MintUnselected(agent, to, amount, compliant) ==
  LET units == Select(compliant, amount, 0)
  IN /\ agent \in agents
     /\ IsVerified(to)
     /\ totalSupply' = Add(totalSupply, units)
     /\ balances' = [balances EXCEPT ![to] = Add(@, amount)]
     /\ hasBalance' = hasBalance \cup {to}
     /\ inflated' = (inflated \/ totalSupply + units >= Word)
     /\ movedBy' = "mint"
     /\ UNCHANGED <<frozenTokens, allowances, accessVars, registryVars>>

\* Nothing bounds the amount: both additions wrap.
Mint(agent, to, amount, compliant) ==
  LET units == Select(compliant, amount, 0)
  IN /\ agent \in agents
     /\ IsVerified(to)
     /\ totalSupply' = Add(totalSupply, units)
     /\ balances' = [balances EXCEPT ![to] = Add(@, units)]
     /\ hasBalance' = hasBalance \cup {to}
     /\ inflated' = (inflated \/ totalSupply + units >= Word)
     /\ movedBy' = "mint"
     /\ UNCHANGED <<frozenTokens, allowances, accessVars, registryVars>>

\* Mutant of Burn: the supply is not reduced.
BurnKeepingSupply(agent, w, amount) ==
  LET units == ForcedUnits(w, amount)
  IN /\ agent \in agents
     /\ frozenTokens' = [frozenTokens EXCEPT ![w] = Sub(@, BurnShortfall(w, amount))]
     /\ balances' = [balances EXCEPT ![w] = Sub(@, units)]
     /\ hasBalance' = hasBalance \cup {w}
     /\ movedBy' = "burn"
     /\ UNCHANGED <<totalSupply, allowances, inflated, accessVars, registryVars>>

Burn(agent, w, amount) ==
  LET units == ForcedUnits(w, amount)
  IN /\ agent \in agents
     /\ frozenTokens' = [frozenTokens EXCEPT ![w] = Sub(@, BurnShortfall(w, amount))]
     /\ balances' = [balances EXCEPT ![w] = Sub(@, units)]
     /\ totalSupply' = Sub(totalSupply, units)
     /\ hasBalance' = hasBalance \cup {w}
     /\ movedBy' = "burn"
     /\ UNCHANGED <<allowances, inflated, accessVars, registryVars>>

SetAddressFrozen(agent, w, freeze) ==
  /\ agent \in agents
  /\ frozen' = IF freeze THEN frozen \cup {w} ELSE frozen \ {w}
  /\ UNCHANGED <<amountVars, allowances, paused, agents, registryVars>>

FreezePartialTokens(agent, w, amount) ==
  /\ agent \in agents
  /\ frozenTokens' = FrozenAfterFreeze(balances, frozenTokens, w, amount)
  /\ UNCHANGED <<balances, hasBalance, totalSupply, inflated, movedBy>>
  /\ UNCHANGED <<allowances, accessVars, registryVars>>

UnfreezePartialTokens(agent, w, amount) ==
  /\ agent \in agents
  /\ frozenTokens' =
       [frozenTokens EXCEPT ![w] = Sub(@, Select(@ >= amount, amount, 0))]
  /\ UNCHANGED <<balances, hasBalance, totalSupply, inflated, movedBy>>
  /\ UNCHANGED <<allowances, accessVars, registryVars>>

\* Register the new wallet, force the whole balance over, freeze again what
\* was frozen, carry the address freeze over, delete the lost wallet: one
\* transaction, and any step that reverts undoes the ones before it.
RecoveryAddress(agent, lost, new, id) ==
  LET registered == [identityOf EXCEPT ![new] = id]
      units == balances[lost]
      moved == BalancesAfter(lost, new, ForcedUnits(lost, units))
  IN /\ agent \in agents
     /\ lost \in hasBalance
     /\ new \in ManagementKeys[id]
     /\ identityOf[new] = NoIdentity
     /\ id \in verifiedIds
     /\ registered[lost] # NoIdentity
     /\ MoveUnits(lost, new, ForcedUnits(lost, units))
     /\ frozenTokens' = FrozenAfterFreeze(moved, FrozenAfterForce(lost, units),
                                          new, frozenTokens[lost])
     /\ frozen' = IF lost \in frozen THEN frozen \cup {new} ELSE frozen
     /\ identityOf' = [registered EXCEPT ![lost] = NoIdentity]
     /\ movedBy' = "recoveryAddress"
     /\ UNCHANGED <<allowances, paused, agents, verifiedIds>>

(***************************************************************************)
(* The owner, and the registry the token reads.                            *)
(***************************************************************************)
AddAgent(a) ==
  /\ a \notin agents
  /\ agents' = agents \cup {a}
  /\ UNCHANGED <<amountVars, allowances, frozen, paused, registryVars>>

RemoveAgent(a) ==
  /\ a \in agents
  /\ agents' = agents \ {a}
  /\ UNCHANGED <<amountVars, allowances, frozen, paused, registryVars>>

RegisterIdentity(w, id) ==
  /\ identityOf[w] = NoIdentity
  /\ identityOf' = [identityOf EXCEPT ![w] = id]
  /\ UNCHANGED <<amountVars, allowances, accessVars, verifiedIds>>

UpdateIdentity(w, id) ==
  /\ identityOf[w] # NoIdentity
  /\ identityOf' = [identityOf EXCEPT ![w] = id]
  /\ UNCHANGED <<amountVars, allowances, accessVars, verifiedIds>>

DeleteIdentity(w) ==
  /\ identityOf[w] # NoIdentity
  /\ identityOf' = [identityOf EXCEPT ![w] = NoIdentity]
  /\ UNCHANGED <<amountVars, allowances, accessVars, verifiedIds>>

\* A claim is added, removed or revoked, or the required topics and trusted
\* issuers change.
ClaimsChange(ids) ==
  /\ ids # verifiedIds
  /\ verifiedIds' = ids
  /\ UNCHANGED <<amountVars, allowances, accessVars, identityOf>>

\* The owner points the token at another registry, or the registry at another
\* storage, which knows other investors.
SetIdentityRegistry(registry, ids) ==
  /\ identityOf' = registry
  /\ verifiedIds' = ids
  /\ UNCHANGED <<amountVars, allowances, accessVars>>

HolderNext ==
  \E w \in Wallets, amount \in Amount :
    \/ \E s \in Spenders :
         \/ Approve(w, s, amount)
         \/ IncreaseAllowance(w, s, amount)
         \/ DecreaseAllowance(w, s, amount)
    \/ \E to \in Wallets, compliant \in BOOLEAN :
         \/ \E s \in Spenders : TransferFrom(s, w, to, amount, compliant)
         \/ Transfer(w, to, amount, compliant)

AgentNext ==
  \E agent \in agents :
    \/ Pause(agent)
    \/ Unpause(agent)
    \/ \E w \in Wallets, amount \in Amount :
         \/ \E to \in Wallets : ForcedTransfer(agent, w, to, amount)
         \/ \E compliant \in BOOLEAN : Mint(agent, w, amount, compliant)
         \/ Burn(agent, w, amount)
         \/ FreezePartialTokens(agent, w, amount)
         \/ UnfreezePartialTokens(agent, w, amount)
    \/ \E w \in Wallets, freeze \in BOOLEAN : SetAddressFrozen(agent, w, freeze)
    \/ \E lost, new \in Wallets, id \in Identities :
         RecoveryAddress(agent, lost, new, id)

OwnerNext ==
  \/ \E a \in AgentAddresses : AddAgent(a) \/ RemoveAgent(a)
  \/ \E registry \in [Wallets -> Identities \cup {NoIdentity}],
        ids \in SUBSET Identities : SetIdentityRegistry(registry, ids)

RegistryNext ==
  \/ \E w \in Wallets, id \in Identities :
       RegisterIdentity(w, id) \/ UpdateIdentity(w, id)
  \/ \E w \in Wallets : DeleteIdentity(w)
  \/ \E ids \in SUBSET Identities : ClaimsChange(ids)

Next == HolderNext \/ AgentNext \/ OwnerNext \/ RegistryNext

Spec == Init /\ [][Next]_vars

-----------------------------------------------------------------------------
(***************************************************************************)
(* Properties.                                                             *)
(***************************************************************************)

\* The claim every amount computation rests on (Token.sol:293): a wallet never
\* holds less than its frozen amount, so "balance - frozen" does not wrap.  It
\* is true as long as no unit has appeared out of nothing.
FrozenWithinBalance ==
  ~inflated => \A w \in Wallets : frozenTokens[w] <= balances[w]

\* totalSupply is the sum of the balances, across transfers, forced transfers,
\* mints, burns and recoveries, and the sum fits a word.
SupplyIsSum ==
  ~inflated => SumOf(balances) = totalSupply

\* A step that credits a wallet with its own debit.
SelfMove ==
  \E w \in Wallets, amount \in Amount :
    \/ \E compliant \in BOOLEAN :
         \/ Transfer(w, w, amount, compliant)
         \/ \E s \in Spenders : TransferFrom(s, w, w, amount, compliant)
    \/ \E agent \in agents :
         \/ ForcedTransfer(agent, w, w, amount)
         \/ \E id \in Identities : RecoveryAddress(agent, w, w, id)

\* Even after the supply has wrapped, every step but a transfer to oneself
\* changes the sum of the balances and totalSupply alike, modulo the word.
SupplyTracksBalances ==
  [][ \/ (SumOf(balances') + totalSupply) % Word = (SumOf(balances) + totalSupply') % Word
      \/ SelfMove ]_vars

\* Tokens only reach wallets that are verified when the transaction ends.  The
\* guards check the receiver; that a debit never raises the balance of an
\* unverified sender needs FrozenWithinBalance.
InflowVerified ==
  [][ ~inflated' =>
        \A w \in Wallets : balances'[w] > balances[w] => IsVerified(w)' ]_vars

\* Unless an agent calls forcedTransfer, burn or recoveryAddress, a balance
\* shrinks only while the token is not paused and the wallet not frozen, and never
\* into the frozen part of the wallet.
OutflowRespectsFreeze ==
  [][ ~inflated' /\ movedBy' \notin AgentMoves =>
        \A w \in Wallets : balances'[w] < balances[w] =>
          /\ ~paused
          /\ w \notin frozen
          /\ balances'[w] >= frozenTokens[w]
          /\ frozenTokens'[w] = frozenTokens[w] ]_vars

\* The whole of recoveryAddress: registering, forcing the transfer, freezing
\* again and deleting leave the new wallet with everything the lost wallet had,
\* frozen amount and address freeze included, and the lost wallet with nothing.
RecoveryIsComplete ==
  [][ \A agent \in agents, lost, new \in Wallets, id \in Identities :
        RecoveryAddress(agent, lost, new, id) /\ lost # new /\ ~inflated =>
          /\ balances'[new] = balances[new] + balances[lost]
          /\ frozenTokens'[new] = frozenTokens[new] + frozenTokens[lost]
          /\ balances'[lost] = 0 /\ frozenTokens'[lost] = 0
          /\ lost \in frozen => new \in frozen'
          /\ IsVerified(new)' /\ ~IsVerified(lost)' ]_vars

\* Token.sol:1025-1026 state what _transfer stands for, as two assignments in
\* sequence: debit the sender, then credit the receiver with what it then has.
\* The code computes both new balances first, so a transfer to oneself credits
\* without debiting.
DebitThenCredit ==
  [][ \A from, to \in Wallets, amount \in Amount, compliant \in BOOLEAN :
        Transfer(from, to, amount, compliant) =>
          LET units == Transferable(from, amount, compliant)
              debited == [balances EXCEPT ![from] = Sub(@, units)]
          IN balances' = [debited EXCEPT ![to] = Add(@, units)] ]_vars

\* IFHEERC20.sol:75-76 say that transferFrom uses the allowance mechanism and
\* that the value moved is deducted from the caller's allowance.  The code only
\* deducts as much as there is.
AllowanceIsSpent ==
  [][ \A s \in Spenders, from, to \in Wallets, amount \in Amount, compliant \in BOOLEAN :
        TransferFrom(s, from, to, amount, compliant) =>
          allowances'[from][s]
            = allowances[from][s] - Transferable(from, amount, compliant) ]_vars

\* The token implements the abstract ledger.
Ledger == INSTANCE TokenLedger WITH MaxSupply <- Word - 1
LedgerSpec == Ledger!Spec
=============================================================================
