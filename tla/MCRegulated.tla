---------------------------- MODULE MCRegulated ----------------------------
(***************************************************************************)
(* RegulatedToken on small instances, in three scenarios: trading under a  *)
(* supply limit, lists of users and countries, and exchanges with limits.  *)
(* Modules of different scenarios share no state.                          *)
(***************************************************************************)
EXTENDS RegulatedToken, TLC

CONSTANTS w1, w2, ag, id1

CONSTANTS Scenarios,                \* those of this instance
          LimitValues,              \* limits set for a window
          MonthlyValues             \* and for the month, longer than a word or not

VARIABLE scenario

mcVars == <<allVars, scenario>>

\* Whoever moved units last, the steps that follow are the same.
RegulatedView == <<tokenView, moduleVars, scenario>>

\* One investor, who may recover either wallet with the other; the identity of an
\* exchange has a part in that scenario only.
MCKeys == [i \in Identities |-> Wallets]
Exchanges == Identities \ {id1}

ModulesOf ==
  [trading |-> {"SupplyLimit"},
   lists |-> {"CountryAllow", "CountryRestrict", "TransferRestrict"},
   exchange |-> {"ExchangeMonthly", "TimeExchange"}]

MCInit ==
  /\ RegulatedInit
  /\ scenario \in Scenarios
  /\ IF scenario = "exchange"
     THEN /\ identityOf[w1] = id1 /\ identityOf[w2] \in Exchanges
          /\ verifiedIds = Identities
     ELSE /\ \A w \in Wallets : identityOf[w] \notin Exchanges
          /\ verifiedIds \subseteq {id1}
  /\ scenario # "lists" => countryOf = [w \in Wallets |-> NoCountry]

-----------------------------------------------------------------------------
\* In every scenario the token starts to work and modules are bound.
Starting ==
  \/ /\ \/ \E agent \in agents : Unpause(agent)
        \/ \E a \in AgentAddresses : (scenario = "exchange" \/ a = ag) /\ AddAgent(a)
     /\ Unregulated
  \/ \E m \in ModulesOf[scenario] \cap Modules : AddModule(m) /\ UNCHANGED vars

\* Trading under the registry the suite was deployed with: any registry, and
\* it does not change.
TradingNext ==
  /\ scenario = "trading"
  /\ \/ RegulatedHolderNext
     \/ SupplyNext
     \/ \E agent \in agents, from, to \in Wallets, amount \in Amount :
          RegulatedForcedTransfer(agent, from, to, amount)
     \/ /\ \E agent \in agents :
             \/ Pause(agent)
             \/ \E w \in Wallets, freeze \in BOOLEAN : SetAddressFrozen(agent, w, freeze)
             \/ \E w \in Wallets, amount \in Amount : FreezePartialTokens(agent, w, amount)
        /\ Unregulated
     \/ \E limit \in Amount : SetSupplyLimit(limit) /\ UNCHANGED vars

\* Moves of holders and spenders.  No allowance bounds transferFrom, so it needs
\* no approval.
Moving ==
  \E from, to \in Wallets, amount \in Amount :
    \/ RegulatedTransfer(from, to, amount)
    \/ \E s \in Spenders : RegulatedTransferFrom(s, from, to, amount)

\* Countries change, the investor comes and goes, the registry is replaced.
RegistryChanges ==
  LET countries == Countries \cup {NoCountry}
  IN \/ \E w \in Wallets :
          \/ \E country \in countries : RegisterInvestor(w, id1, country) \/ UpdateCountry(w, country)
          \/ DeleteInvestor(w)
     \/ \E registry \in [Wallets -> {id1, NoIdentity}], ids \in SUBSET {id1},
           places \in [Wallets -> countries] : ReplaceRegistry(registry, ids, places)

\* Bound on the units that circulate where lists are checked.
ListsUnits == 1

\* Lists and registry: wallets are recovered, the owner rewrites the lists.
ListsNext ==
  /\ scenario = "lists"
  /\ \/ Moving
     \/ \E agent \in agents :
          \/ \E from, to \in Wallets : RegulatedForcedTransfer(agent, from, to, 1)
          \/ \E lost, new \in Wallets : RegulatedRecovery(agent, lost, new, id1)
     \/ SupplyNext
     \/ RegistryChanges
     \/ /\ \/ \E m \in Modules : RemoveModule(m)
           \/ \E users \in SUBSET Allowable : AllowUsers(users) \/ DisallowUsers(users)
           \/ \E countries \in SUBSET Countries :
                \/ AllowCountries(countries) \/ DisallowCountries(countries)
                \/ RestrictCountries(countries) \/ UnrestrictCountries(countries)
        /\ UNCHANGED vars
  /\ totalSupply' <= ListsUnits

\* The two exchange modules never meet: one of them is at work in a behaviour.
OneModule ==
  \/ /\ "ExchangeMonthly" \notin rules /\ monthlyExchanges = {}
     /\ \A e \in Identities, i \in Investors : monthlyCount[e][i] = NewCounter
  \/ /\ "TimeExchange" \notin rules /\ timeExchanges = {}
     /\ \A e \in Identities, i \in Investors, t \in LimitTimes :
          timeCount[e][i][t] = NewCounter

\* Exchanges: the first wallet is the investor's, the second the exchange's.
ExchangeNext ==
  /\ scenario = "exchange"
  /\ \/ Moving
     \/ \E agent \in agents, amount \in Amount :
          \/ \E from, to \in Wallets : RegulatedForcedTransfer(agent, from, to, amount)
          \/ RegulatedMint(agent, w1, amount)
     \/ /\ \/ \E m \in Modules : RemoveModule(m)
           \/ \E e \in Exchanges :
                \/ \E limit \in MonthlyValues : SetExchangeMonthlyLimit(e, limit)
                \/ TagMonthlyExchange(e)
                \/ TagTimeExchange(e)
                \/ \E t \in LimitTimes, limit \in LimitValues :
                     SetExchangeLimit(e, [limitTime |-> t, limitValue |-> limit])
           \/ Tick
        /\ UNCHANGED vars
  /\ ~inflated'

\* Once a unit has appeared out of nothing the run looks no further.
MCNext ==
  /\ ~inflated
  /\ Starting \/ TradingNext \/ ListsNext \/ ExchangeNext
  /\ OneModule'
  /\ UNCHANGED scenario

MCSpec == MCInit /\ [][MCNext]_mcVars
=============================================================================
