------------------------- MODULE ComplianceModules -------------------------
(***************************************************************************)
(* The compliance modules bound to one token: their storage for the        *)
(* compliance of that token, their verdicts (moduleCheck) and what they    *)
(* record when units move (moduleTransferAction).  Minting and burning are *)
(* recorded by no module.                                                  *)
(*                                                                         *)
(* The compliance is bound to the token and to its modules: Compliance.tla *)
(* is about when that is so.  Here a module is in force or it is not, and  *)
(* it keeps its storage while it is not.                                   *)
(***************************************************************************)
EXTENDS Token, WindowCounter, Sequences, Functions

CONSTANTS
  Modules,          \* the modules the owner may bind, among ModuleNames
  ZeroAddress,      \* sender of a mint
  Countries,        \* investor countries
  NoCountry,        \* country 0: no investor registered
  Month,            \* 30 days
  MaxLimitValue,    \* bound on a monthly limit, a uint256
  LimitTimes,       \* windows a TimeExchangeLimits limit may have, 0 included
  MaxLimits,        \* 4: limits per exchange
  MaxTime           \* bound on block.timestamp

ModuleNames == {"SupplyLimit", "TransferRestrict", "CountryAllow",
                "CountryRestrict", "ExchangeMonthly", "TimeExchange"}

ASSUME ModulesAssumption ==
  /\ Modules \subseteq ModuleNames
  /\ ZeroAddress \notin Wallets
  /\ NoCountry \notin Countries
  /\ Month \in Nat \ {0} /\ LimitTimes \subseteq Nat
  /\ MaxLimitValue \in Nat /\ MaxLimits \in Nat /\ MaxTime \in Nat

VARIABLES
  rules,                 \* modules bound to the compliance
  supplyLimit,           \* SupplyLimitModule._esupplyLimits, decrypted
  allowedUsers,          \* TransferRestrictModule._allowedUserAddresses
  countryOf,             \* IdentityRegistryStorage.investorCountry
  allowedCountries,      \* CountryAllowModule._allowedCountries
  restrictedCountries,   \* CountryRestrictModule._restrictedCountries
  monthlyExchanges,      \* ExchangeMonthlyLimitsModule._exchangeIDs
  monthlyLimit,          \* ._exchangeMonthlyLimit
  monthlyCount,          \* ._exchangeCounters
  timeExchanges,         \* TimeExchangeLimitsModule._exchangeIDs
  timeLimits,            \* ._exchangeLimits, an array per exchange
  limitIndex,            \* ._limitValues: position of a window in the array
  timeCount,             \* ._exchangeCounters
  now                    \* block.timestamp

listVars == <<supplyLimit, allowedUsers, allowedCountries, restrictedCountries>>
monthlyVars == <<monthlyExchanges, monthlyLimit>>
timeVars == <<timeExchanges, timeLimits, limitIndex>>
settingVars == <<rules, listVars, monthlyVars, timeVars>>
counterVars == <<monthlyCount, timeCount>>
moduleVars == <<settingVars, counterVars, countryOf, now>>

Investors == Identities \cup {NoIdentity}
Counter == [count : Amount, timer : 0 .. MaxTime + Month, wrapped : BOOLEAN]
TimeCounter == [count : Amount, timer : Nat, wrapped : BOOLEAN]
Limit == [limitTime : LimitTimes, limitValue : Amount]
MonthlyLimits == 0 .. MaxLimitValue

\* An allowed user is any address; allowing the zero address allows every mint.
Allowable == Wallets \cup {ZeroAddress}

\* No limit set: _limitValues of a window that has none.
NoIndex == 0

ModulesTypeOK ==
  /\ rules \subseteq Modules
  /\ supplyLimit \in Amount
  /\ allowedUsers \subseteq Allowable
  /\ countryOf \in [Wallets -> Countries \cup {NoCountry}]
  /\ allowedCountries \subseteq Countries
  /\ restrictedCountries \subseteq Countries
  /\ monthlyExchanges \subseteq Identities
  /\ monthlyLimit \in [Identities -> MonthlyLimits]
  /\ monthlyCount \in [Identities -> [Investors -> Counter]]
  /\ timeExchanges \subseteq Identities
  /\ timeLimits \in [Identities -> Seq(Limit)]
  /\ limitIndex \in [Identities -> [LimitTimes -> 0 .. MaxLimits]]
  /\ timeCount \in [Identities -> [Investors -> [LimitTimes -> TimeCounter]]]
  /\ now \in 0 .. MaxTime

ModulesInit ==
  /\ rules = {}
  /\ supplyLimit = 0
  /\ allowedUsers = {}
  /\ countryOf \in [Wallets -> Countries \cup {NoCountry}]
  /\ allowedCountries = {}
  /\ restrictedCountries = {}
  /\ monthlyExchanges = {}
  /\ monthlyLimit = [e \in Identities |-> 0]
  /\ monthlyCount = [e \in Identities |-> [i \in Investors |-> NewCounter]]
  /\ timeExchanges = {}
  /\ timeLimits = [e \in Identities |-> <<>>]
  /\ limitIndex = [e \in Identities |-> [t \in LimitTimes |-> NoIndex]]
  /\ timeCount =
       [e \in Identities |-> [i \in Investors |-> [t \in LimitTimes |-> NewCounter]]]
  /\ now = 0

(***************************************************************************)
(* Verdicts.                                                               *)
(***************************************************************************)

\* Mutant of SupplyCheck: the amount is not counted in.
SupplyCheckBefore(from, units) == from # ZeroAddress \/ totalSupply <= supplyLimit

\* The sum wraps, and only a mint is checked.
SupplyCheck(from, units) ==
  from # ZeroAddress \/ Add(totalSupply, units) <= supplyLimit

TransferRestrictCheck(from, to) == {from, to} \cap allowedUsers # {}

\* Mints, token agents and exchanges may send any amount to an exchange.
ExemptFromLimits(from, exchanges) ==
  from = ZeroAddress \/ from \in agents \/ identityOf[from] \in exchanges

\* A monthly limit is stored as it is set and truncated when it is read.
MonthlyLimit(e) == AsEuint64(monthlyLimit[e])

ExchangeMonthlyCheck(from, to, units) ==
  \/ ExemptFromLimits(from, monthlyExchanges)
  \/ identityOf[to] \notin monthlyExchanges
  \/ WithinWindow(monthlyCount[identityOf[to]][identityOf[from]], units,
                  MonthlyLimit(identityOf[to]), now)

TimeExchangeCheck(from, to, units) ==
  \/ ExemptFromLimits(from, timeExchanges)
  \/ identityOf[to] \notin timeExchanges
  \/ \A l \in Range(timeLimits[identityOf[to]]) :
       WithinWindow(timeCount[identityOf[to]][identityOf[from]][l.limitTime],
                    units, l.limitValue, now)

\* ModularCompliance.canTransfer: every bound module agrees.
CanTransfer(from, to, units) ==
  /\ "SupplyLimit" \in rules => SupplyCheck(from, units)
  /\ "TransferRestrict" \in rules => TransferRestrictCheck(from, to)
  /\ "CountryAllow" \in rules => countryOf[to] \in allowedCountries
  /\ "CountryRestrict" \in rules => countryOf[to] \notin restrictedCountries
  /\ "ExchangeMonthly" \in rules => ExchangeMonthlyCheck(from, to, units)
  /\ "TimeExchange" \in rules => TimeExchangeCheck(from, to, units)

(***************************************************************************)
(* What a transfer records.  ids is the registry at that moment: a         *)
(* recovery registers the new wallet before it moves the units.  Only      *)
(* agents' own wallets are not counted; exchanges and forced transfers are *)
(* counted though no check limits them.                                    *)
(***************************************************************************)
MonthlyTransferAction(from, to, units, ids) ==
  monthlyCount' =
    IF "ExchangeMonthly" \in rules /\ ids[to] \in monthlyExchanges /\ from \notin agents
    THEN [monthlyCount EXCEPT ![ids[to]][ids[from]] = Counted(@, units, Month, now)]
    ELSE monthlyCount

TimeTransferAction(from, to, units, ids) ==
  timeCount' =
    IF "TimeExchange" \in rules /\ ids[to] \in timeExchanges /\ from \notin agents
    THEN LET windows == {l.limitTime : l \in Range(timeLimits[ids[to]])}
         IN [timeCount EXCEPT ![ids[to]][ids[from]] =
               [t \in LimitTimes |->
                  IF t \in windows THEN Counted(@[t], units, t, now) ELSE @[t]]]
    ELSE timeCount

\* ModularCompliance.transferred
Transferred(from, to, units, ids) ==
  /\ MonthlyTransferAction(from, to, units, ids)
  /\ TimeTransferAction(from, to, units, ids)

(***************************************************************************)
(* Settings.  The owner of the compliance reaches a bound module through   *)
(* callModuleFunction; exchanges are tagged by the owner of the module.    *)
(***************************************************************************)
AddModule(m) ==
  /\ m \notin rules
  /\ rules' = rules \cup {m}
  /\ UNCHANGED <<listVars, monthlyVars, timeVars, counterVars, countryOf, now>>

RemoveModule(m) ==
  /\ m \in rules
  /\ rules' = rules \ {m}
  /\ UNCHANGED <<listVars, monthlyVars, timeVars, counterVars, countryOf, now>>

SetSupplyLimit(limit) ==
  /\ "SupplyLimit" \in rules
  /\ supplyLimit' = limit
  /\ UNCHANGED <<rules, allowedUsers, allowedCountries, restrictedCountries>>
  /\ UNCHANGED <<monthlyVars, timeVars, counterVars, countryOf, now>>

\* allowUser and batchAllowUsers; disallowUser and batchDisallowUsers
AllowUsers(users) ==
  /\ "TransferRestrict" \in rules
  /\ allowedUsers' = allowedUsers \cup users
  /\ UNCHANGED <<rules, supplyLimit, allowedCountries, restrictedCountries>>
  /\ UNCHANGED <<monthlyVars, timeVars, counterVars, countryOf, now>>

DisallowUsers(users) ==
  /\ "TransferRestrict" \in rules
  /\ allowedUsers' = allowedUsers \ users
  /\ UNCHANGED <<rules, supplyLimit, allowedCountries, restrictedCountries>>
  /\ UNCHANGED <<monthlyVars, timeVars, counterVars, countryOf, now>>

\* The batch forms accept countries already in that state; addAllowedCountry
\* and removeAllowedCountry, for one country, do not.
AllowCountries(countries) ==
  /\ "CountryAllow" \in rules
  /\ allowedCountries' = allowedCountries \cup countries
  /\ UNCHANGED <<rules, supplyLimit, allowedUsers, restrictedCountries>>
  /\ UNCHANGED <<monthlyVars, timeVars, counterVars, countryOf, now>>

DisallowCountries(countries) ==
  /\ "CountryAllow" \in rules
  /\ allowedCountries' = allowedCountries \ countries
  /\ UNCHANGED <<rules, supplyLimit, allowedUsers, restrictedCountries>>
  /\ UNCHANGED <<monthlyVars, timeVars, counterVars, countryOf, now>>

\* All or nothing: one country already restricted reverts the batch.
RestrictCountries(countries) ==
  /\ "CountryRestrict" \in rules
  /\ countries \cap restrictedCountries = {}
  /\ restrictedCountries' = restrictedCountries \cup countries
  /\ UNCHANGED <<rules, supplyLimit, allowedUsers, allowedCountries>>
  /\ UNCHANGED <<monthlyVars, timeVars, counterVars, countryOf, now>>

UnrestrictCountries(countries) ==
  /\ "CountryRestrict" \in rules
  /\ countries \subseteq restrictedCountries
  /\ restrictedCountries' = restrictedCountries \ countries
  /\ UNCHANGED <<rules, supplyLimit, allowedUsers, allowedCountries>>
  /\ UNCHANGED <<monthlyVars, timeVars, counterVars, countryOf, now>>

SetExchangeMonthlyLimit(e, limit) ==
  /\ "ExchangeMonthly" \in rules
  /\ monthlyLimit' = [monthlyLimit EXCEPT ![e] = limit]
  /\ UNCHANGED <<rules, listVars, monthlyExchanges, timeVars, counterVars, countryOf, now>>

\* addExchangeID, removeExchangeID of ExchangeMonthlyLimitsModule
TagMonthlyExchange(e) ==
  /\ monthlyExchanges' = IF e \in monthlyExchanges
                         THEN monthlyExchanges \ {e} ELSE monthlyExchanges \cup {e}
  /\ UNCHANGED <<rules, listVars, monthlyLimit, timeVars, counterVars, countryOf, now>>

\* addExchangeID, removeExchangeID of TimeExchangeLimitsModule
TagTimeExchange(e) ==
  /\ timeExchanges' = IF e \in timeExchanges
                      THEN timeExchanges \ {e} ELSE timeExchanges \cup {e}
  /\ UNCHANGED <<rules, listVars, monthlyVars, timeLimits, limitIndex>>
  /\ UNCHANGED <<counterVars, countryOf, now>>

\* Mutant of SetExchangeLimit: the index of a new window is one too low.
SetExchangeLimitOffByOne(e, limit) ==
  LET t == limit.limitTime
      attributed == limitIndex[e][t] # NoIndex
  IN /\ "TimeExchange" \in rules
     /\ attributed \/ Len(timeLimits[e]) < MaxLimits
     /\ timeLimits' = [timeLimits EXCEPT ![e] =
          IF attributed THEN [@ EXCEPT ![limitIndex[e][t]] = limit] ELSE Append(@, limit)]
     /\ limitIndex' = [limitIndex EXCEPT ![e][t] =
          IF attributed THEN @ ELSE IF Len(timeLimits[e]) = 0 THEN 1 ELSE Len(timeLimits[e])]
     /\ UNCHANGED <<rules, listVars, monthlyVars, timeExchanges, counterVars, countryOf, now>>

\* A window already limited gets the new limit in place; a new one is appended
\* while there is room.
SetExchangeLimit(e, limit) ==
  LET t == limit.limitTime
      attributed == limitIndex[e][t] # NoIndex
  IN /\ "TimeExchange" \in rules
     /\ attributed \/ Len(timeLimits[e]) < MaxLimits
     /\ timeLimits' = [timeLimits EXCEPT ![e] =
          IF attributed THEN [@ EXCEPT ![limitIndex[e][t]] = limit] ELSE Append(@, limit)]
     /\ limitIndex' = [limitIndex EXCEPT ![e][t] =
          IF attributed THEN @ ELSE Len(timeLimits[e]) + 1]
     /\ UNCHANGED <<rules, listVars, monthlyVars, timeExchanges, counterVars, countryOf, now>>

Tick ==
  /\ now < MaxTime
  /\ now' \in now + 1 .. MaxTime
  /\ UNCHANGED <<settingVars, counterVars, countryOf>>

SettingsNext ==
  \/ \E m \in Modules : AddModule(m) \/ RemoveModule(m)
  \/ \E limit \in Amount : SetSupplyLimit(limit)
  \/ \E users \in SUBSET Allowable : AllowUsers(users) \/ DisallowUsers(users)
  \/ \E countries \in SUBSET Countries :
       \/ AllowCountries(countries) \/ DisallowCountries(countries)
       \/ RestrictCountries(countries) \/ UnrestrictCountries(countries)
  \/ \E e \in Identities :
       \/ \E limit \in MonthlyLimits : SetExchangeMonthlyLimit(e, limit)
       \/ TagMonthlyExchange(e)
       \/ TagTimeExchange(e)
       \/ \E limit \in Limit : SetExchangeLimit(e, limit)
  \/ Tick
=============================================================================
