--------------------------- MODULE RegulatedToken ---------------------------
(***************************************************************************)
(* The token with the compliance modules it asks and informs.  Every entry *)
(* point of Token.sol that moves units asks canTransfer (all but the       *)
(* forced ones) and then reports the amount it really moved.  An action of *)
(* Token becomes that action with the verdict of the modules in force,     *)
(* together with what they record.                                         *)
(***************************************************************************)
EXTENDS ComplianceModules

allVars == <<vars, moduleVars>>

RegulatedInit ==
  /\ Init
  /\ ModulesInit
  /\ \A w \in Wallets : identityOf[w] = NoIdentity => countryOf[w] = NoCountry

\* What moves units but records nothing, and what moves none.
Unregulated == UNCHANGED moduleVars

Moved(from, to, units, ids) ==
  /\ Transferred(from, to, units, ids)
  /\ UNCHANGED <<settingVars, countryOf, now>>

\* The amount the modules are asked about is the one the holder can afford.
Affordable(from, amount) == SelectLeSub(amount, balances[from], frozenTokens[from])

Verdict(from, to, amount) == CanTransfer(from, to, Affordable(from, amount))

\* Mutants of RegulatedTransfer: asks with sender and receiver swapped; reports
\* the amount asked for.
TransferAskedBackwards(from, to, amount) ==
  LET compliant == CanTransfer(to, from, Affordable(from, amount))
  IN /\ Transfer(from, to, amount, compliant)
     /\ Moved(from, to, Transferable(from, amount, compliant), identityOf)

TransferReportingRequest(from, to, amount) ==
  LET compliant == Verdict(from, to, amount)
  IN /\ Transfer(from, to, amount, compliant)
     /\ Moved(from, to, amount, identityOf)

RegulatedTransfer(from, to, amount) ==
  LET compliant == Verdict(from, to, amount)
  IN /\ Transfer(from, to, amount, compliant)
     /\ Moved(from, to, Transferable(from, amount, compliant), identityOf)

RegulatedTransferFrom(spender, from, to, amount) ==
  LET compliant == Verdict(from, to, amount)
  IN /\ TransferFrom(spender, from, to, amount, compliant)
     /\ Moved(from, to, Transferable(from, amount, compliant), identityOf)

RegulatedForcedTransfer(agent, from, to, amount) ==
  /\ ForcedTransfer(agent, from, to, amount)
  /\ Moved(from, to, ForcedUnits(from, amount), identityOf)

RegulatedMint(agent, to, amount) ==
  /\ Mint(agent, to, amount, CanTransfer(ZeroAddress, to, amount))
  /\ Unregulated

RegulatedBurn(agent, w, amount) ==
  /\ Burn(agent, w, amount)
  /\ Unregulated

\* The new wallet gets the country of the lost one before the units move, and
\* the lost wallet's is deleted after.
RegulatedRecovery(agent, lost, new, id) ==
  /\ RecoveryAddress(agent, lost, new, id)
  /\ Transferred(lost, new, ForcedUnits(lost, balances[lost]),
                 [identityOf EXCEPT ![new] = id])
  /\ countryOf' = [countryOf EXCEPT ![new] = countryOf[lost], ![lost] = NoCountry]
  /\ UNCHANGED <<settingVars, now>>

(***************************************************************************)
(* The registry, with countries.                                           *)
(***************************************************************************)
CountryChange(countries) ==
  /\ countryOf' = countries
  /\ UNCHANGED <<settingVars, counterVars, now>>

RegisterInvestor(w, id, country) ==
  /\ RegisterIdentity(w, id)
  /\ CountryChange([countryOf EXCEPT ![w] = country])

DeleteInvestor(w) ==
  /\ DeleteIdentity(w)
  /\ CountryChange([countryOf EXCEPT ![w] = NoCountry])

UpdateCountry(w, country) ==
  /\ identityOf[w] # NoIdentity
  /\ CountryChange([countryOf EXCEPT ![w] = country])
  /\ UNCHANGED vars

ReplaceRegistry(registry, ids, countries) ==
  /\ \A w \in Wallets : registry[w] = NoIdentity => countries[w] = NoCountry
  /\ SetIdentityRegistry(registry, ids)
  /\ CountryChange(countries)

RegulatedHolderNext ==
  \E w \in Wallets, amount \in Amount :
    \/ \E s \in Spenders :
         /\ \/ Approve(w, s, amount)
            \/ IncreaseAllowance(w, s, amount)
            \/ DecreaseAllowance(w, s, amount)
         /\ Unregulated
    \/ \E to \in Wallets :
         \/ \E s \in Spenders : RegulatedTransferFrom(s, w, to, amount)
         \/ RegulatedTransfer(w, to, amount)

\* The agent moves units whatever the modules say.
ForceNext ==
  \E agent \in agents :
    \/ \E from, to \in Wallets, amount \in Amount :
         RegulatedForcedTransfer(agent, from, to, amount)
    \/ \E lost, new \in Wallets, id \in Identities :
         RegulatedRecovery(agent, lost, new, id)

SupplyNext ==
  \E agent \in agents, w \in Wallets, amount \in Amount :
    RegulatedMint(agent, w, amount) \/ RegulatedBurn(agent, w, amount)

\* The token's operations that move nothing.
ControlNext ==
  /\ \/ \E agent \in agents :
          \/ Pause(agent) \/ Unpause(agent)
          \/ \E w \in Wallets, freeze \in BOOLEAN : SetAddressFrozen(agent, w, freeze)
          \/ \E w \in Wallets, amount \in Amount :
               \/ FreezePartialTokens(agent, w, amount)
               \/ UnfreezePartialTokens(agent, w, amount)
     \/ \E a \in AgentAddresses : AddAgent(a) \/ RemoveAgent(a)
     \/ \E w \in Wallets, id \in Identities : UpdateIdentity(w, id)
     \/ \E ids \in SUBSET Identities : ClaimsChange(ids)
  /\ Unregulated

CountryNext ==
  \/ \E w \in Wallets, country \in Countries \cup {NoCountry} :
       \/ \E id \in Identities : RegisterInvestor(w, id, country)
       \/ UpdateCountry(w, country)
  \/ \E w \in Wallets : DeleteInvestor(w)
  \/ \E registry \in [Wallets -> Investors], ids \in SUBSET Identities,
        countries \in [Wallets -> Countries \cup {NoCountry}] :
       ReplaceRegistry(registry, ids, countries)

RegulatedNext ==
  \/ RegulatedHolderNext
  \/ ForceNext
  \/ SupplyNext
  \/ ControlNext
  \/ CountryNext
  \/ SettingsNext /\ UNCHANGED vars

RegulatedSpec == RegulatedInit /\ [][RegulatedNext]_allVars

-----------------------------------------------------------------------------
(***************************************************************************)
(* Properties.                                                             *)
(***************************************************************************)

RegulatedTypeOK == TypeOK /\ ModulesTypeOK

\* While SupplyLimitModule is bound, the units in circulation only grow up to
\* the limit: by mints the check let through and by nothing else (as long as no
\* unit has appeared out of nothing).
CirculationCapped ==
  [][ "SupplyLimit" \in rules /\ ~inflated' /\ SumOf(balances') > SumOf(balances)
        => SumOf(balances') <= supplyLimit ]_allVars

\* SupplyLimitModule.sol:16 calls the limit the max amount of tokens in
\* circulation.  The check adds the amount to the supply modulo 2^64, so a mint
\* near 2^64 passes it and leaves more units in circulation.
MintRespectsLimit ==
  [][ "SupplyLimit" \in rules /\ SupplyNext /\ SumOf(balances') > SumOf(balances)
        => SumOf(balances') <= supplyLimit ]_allVars

\* Whoever gains units, unless by forcedTransfer or recoveryAddress, satisfies
\* the lists in force: an allowed country, not a restricted one, and an allowed
\* user at one end of the transfer.  Every entry point asks for itself: transfer,
\* transferFrom and mint, whose sender is the zero address.
ListsObeyed ==
  [][ ~inflated' /\ movedBy' \notin AgentMoves =>
        \A w \in Wallets : balances'[w] > balances[w] =>
          /\ "CountryAllow" \in rules => countryOf[w] \in allowedCountries
          /\ "CountryRestrict" \in rules => countryOf[w] \notin restrictedCountries
          /\ "TransferRestrict" \in rules =>
               \/ movedBy' = "mint" /\ ZeroAddress \in allowedUsers
               \/ \E x \in allowedUsers \cap Wallets : balances'[x] # balances[x] ]_allVars

\* What wallets of investor i lost and wallets of exchange e gained: the units
\* the step really moved from the one to the other.
UnitsMoved(i, e) ==
  LET gain(w) == balances'[w] - balances[w]
      Senders == {w \in Wallets : gain(w) < 0 /\ identityOf[w] = i /\ w \notin agents}
      Receivers == {w \in Wallets : gain(w) > 0 /\ identityOf[w] = e}
  IN IF Senders = {} \/ Receivers = {} THEN 0
     ELSE gain(CHOOSE w \in Receivers : TRUE)

\* A window's count after a step that moved the given units.  The count of a
\* window that is over is never added to, and a move opens a new one; a transfer
\* that moved nothing may open one too.  A window of length 0 is over at once.
CountsMove(before, after, units, window) ==
  IF Finished(before, now)
  THEN \/ after = [count |-> units, timer |-> now + window, wrapped |-> FALSE]
       \/ units = 0 /\ after = before
  ELSE /\ after.count = Add(before.count, units)
       /\ after.timer = before.timer

\* Both modules count the units that really arrive from each investor at each
\* exchange, forced transfers included and agents' wallets excepted, and open
\* a new window only when the last one has closed.
MonthlyCountsMoves ==
  [][ "ExchangeMonthly" \in rules /\ ~inflated' /\ UNCHANGED <<rules, identityOf>> =>
        \A e \in monthlyExchanges : \A i \in Investors \ {e} :
          CountsMove(monthlyCount[e][i], monthlyCount'[e][i], UnitsMoved(i, e), Month) ]_allVars

TimeCountsMoves ==
  [][ "TimeExchange" \in rules /\ ~inflated' /\ UNCHANGED <<rules, identityOf>> =>
        \A e \in timeExchanges : \A i \in Investors \ {e} :
          \A l \in Range(timeLimits[e]) :
            CountsMove(timeCount[e][i][l.limitTime], timeCount'[e][i][l.limitTime],
                       UnitsMoved(i, e), l.limitTime) ]_allVars

\* What a holder sends to an exchange stays, with all that the open window has
\* counted, within every limit in force: by transfer or by transferFrom.  What is
\* counted without a check, forced transfers and what came from a wallet that was
\* an exchange's, can make the count wrap: then nothing is claimed.
ExchangeLimitsHold ==
  [][ movedBy' \in HolderMoves /\ ~inflated' =>
        \A e \in Identities : \A i \in Investors \ {e} : UnitsMoved(i, e) > 0 =>
          /\ "ExchangeMonthly" \in rules /\ e \in monthlyExchanges /\ i \notin monthlyExchanges =>
               LET c == monthlyCount'[e][i]
               IN c.wrapped \/ c.count <= MonthlyLimit(e)
          /\ "TimeExchange" \in rules /\ e \in timeExchanges /\ i \notin timeExchanges =>
               \A l \in Range(timeLimits[e]) :
                 LET c == timeCount'[e][i][l.limitTime]
                 IN c.wrapped \/ c.count <= l.limitValue ]_allVars

\* ExchangeMonthlyLimitsModule.sol:31 calls the limit the amount of tokens to be
\* transferred monthly to an exchange wallet.  The check adds the amount to the
\* count modulo 2^64: once forced transfers have brought the count near 2^64, a
\* holder's transfer wraps it and passes.
MonthlyLimitKept ==
  [][ movedBy' \in HolderMoves /\ ~inflated' =>
        \A e \in monthlyExchanges : \A i \in Investors \ monthlyExchanges :
          "ExchangeMonthly" \in rules /\ UnitsMoved(i, e) > 0 =>
            LET c == monthlyCount'[e][i]
            IN ~c.wrapped /\ c.count <= MonthlyLimit(e) ]_allVars

\* The array of limits and the index into it agree: each window is limited at
\* most once, at the position the index says, within the array's bound.
LimitIndexConsistent ==
  \A e \in Identities :
    /\ Len(timeLimits[e]) <= MaxLimits
    /\ \A p \in 1 .. Len(timeLimits[e]) : limitIndex[e][timeLimits[e][p].limitTime] = p
    /\ \A t \in LimitTimes : limitIndex[e][t] # NoIndex =>
         /\ limitIndex[e][t] <= Len(timeLimits[e])
         /\ timeLimits[e][limitIndex[e][t]].limitTime = t
=============================================================================
