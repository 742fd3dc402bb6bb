--------------------------- MODULE RegulatedProofs ---------------------------
(***************************************************************************)
(* The token with its compliance modules is a Token: whatever the modules  *)
(* answer and record, they choose among the outcomes Token already allows. *)
(* Everything proved of Token therefore holds of the regulated one, and    *)
(* with the sum of the balances known, so does the cap on circulation.     *)
(*                                                                         *)
(* The modules' own promises need more: that what they are told is what    *)
(* moved (StepReports), and what a report leaves in a counter              *)
(* (MonthlyRecorded, TimeRecorded).                                        *)
(***************************************************************************)
EXTENDS RegulatedToken, TokenProofs

LEMMA VerdictIsBoolean ==
  ASSUME NEW from, NEW to, NEW units
  PROVE  CanTransfer(from, to, units) \in BOOLEAN
BY DEF CanTransfer

LEMMA HolderIsToken == RegulatedHolderNext => HolderNext
<1> SUFFICES ASSUME RegulatedHolderNext PROVE HolderNext
  OBVIOUS
<1>1. PICK w \in Wallets, amount \in Amount :
        \/ \E s \in Spenders : \/ Approve(w, s, amount)
                               \/ IncreaseAllowance(w, s, amount)
                               \/ DecreaseAllowance(w, s, amount)
        \/ \E to \in Wallets :
             \/ \E s \in Spenders : RegulatedTransferFrom(s, w, to, amount)
             \/ RegulatedTransfer(w, to, amount)
  BY Zenon DEF RegulatedHolderNext
<1>2. ASSUME NEW to \in Wallets, NEW s \in Spenders,
             RegulatedTransferFrom(s, w, to, amount)
      PROVE  HolderNext
  <2>1. TransferFrom(s, w, to, amount, Verdict(w, to, amount))
    BY <1>2 DEF RegulatedTransferFrom
  <2>2. Verdict(w, to, amount) \in BOOLEAN
    BY VerdictIsBoolean DEF Verdict
  <2> QED BY <2>1, <2>2, Zenon DEF HolderNext
<1>3. ASSUME NEW to \in Wallets, RegulatedTransfer(w, to, amount)
      PROVE  HolderNext
  <2>1. Transfer(w, to, amount, Verdict(w, to, amount))
    BY <1>3 DEF RegulatedTransfer
  <2>2. Verdict(w, to, amount) \in BOOLEAN
    BY VerdictIsBoolean DEF Verdict
  <2> QED BY <2>1, <2>2, Zenon DEF HolderNext
<1>4. ASSUME NEW s \in Spenders,
             \/ Approve(w, s, amount) \/ IncreaseAllowance(w, s, amount)
             \/ DecreaseAllowance(w, s, amount)
      PROVE  HolderNext
  BY <1>4, Zenon DEF HolderNext
<1> QED BY <1>1, <1>2, <1>3, <1>4, Zenon

LEMMA ForceIsToken == ForceNext => AgentNext
<1> SUFFICES ASSUME ForceNext PROVE AgentNext
  OBVIOUS
<1>1. PICK agent \in agents :
        \/ \E from, to \in Wallets, amount \in Amount :
             RegulatedForcedTransfer(agent, from, to, amount)
        \/ \E lost, new \in Wallets, id \in Identities :
             RegulatedRecovery(agent, lost, new, id)
  BY Zenon DEF ForceNext
<1>2. ASSUME NEW from \in Wallets, NEW to \in Wallets, NEW amount \in Amount,
             RegulatedForcedTransfer(agent, from, to, amount)
      PROVE  AgentNext
  BY <1>2, Zenon DEF RegulatedForcedTransfer, AgentNext
<1>3. ASSUME NEW lost \in Wallets, NEW new \in Wallets, NEW id \in Identities,
             RegulatedRecovery(agent, lost, new, id)
      PROVE  AgentNext
  BY <1>3, Zenon DEF RegulatedRecovery, AgentNext
<1> QED BY <1>1, <1>2, <1>3, Zenon

LEMMA SupplyIsToken == SupplyNext => AgentNext
<1> SUFFICES ASSUME NEW agent \in agents, NEW w \in Wallets, NEW amount \in Amount,
                    RegulatedMint(agent, w, amount) \/ RegulatedBurn(agent, w, amount)
             PROVE  AgentNext
  BY Zenon DEF SupplyNext
<1>1. CASE RegulatedMint(agent, w, amount)
  <2>1. Mint(agent, w, amount, CanTransfer(ZeroAddress, w, amount))
    BY <1>1 DEF RegulatedMint
  <2> QED BY <2>1, VerdictIsBoolean, Zenon DEF AgentNext
<1>2. CASE RegulatedBurn(agent, w, amount)
  BY <1>2, Zenon DEF RegulatedBurn, AgentNext
<1> QED BY <1>1, <1>2

LEMMA ControlIsToken == ControlNext => Next
<1> SUFFICES ASSUME ControlNext PROVE Next
  OBVIOUS
<1>1. \/ \E agent \in agents :
           \/ Pause(agent) \/ Unpause(agent)
           \/ \E w \in Wallets, freeze \in BOOLEAN : SetAddressFrozen(agent, w, freeze)
           \/ \E w \in Wallets, amount \in Amount :
                \/ FreezePartialTokens(agent, w, amount)
                \/ UnfreezePartialTokens(agent, w, amount)
      \/ \E a \in AgentAddresses : AddAgent(a) \/ RemoveAgent(a)
      \/ \E w \in Wallets, id \in Identities : UpdateIdentity(w, id)
      \/ \E ids \in SUBSET Identities : ClaimsChange(ids)
  BY Zenon DEF ControlNext
<1>2. ASSUME NEW agent \in agents,
             \/ Pause(agent) \/ Unpause(agent)
             \/ \E w \in Wallets, freeze \in BOOLEAN : SetAddressFrozen(agent, w, freeze)
             \/ \E w \in Wallets, amount \in Amount :
                  \/ FreezePartialTokens(agent, w, amount)
                  \/ UnfreezePartialTokens(agent, w, amount)
      PROVE  AgentNext
  BY <1>2, Zenon DEF AgentNext
<1>3. ASSUME NEW a \in AgentAddresses, AddAgent(a) \/ RemoveAgent(a)
      PROVE  OwnerNext
  BY <1>3, Zenon DEF OwnerNext
<1>4. ASSUME NEW w \in Wallets, NEW id \in Identities, UpdateIdentity(w, id)
      PROVE  RegistryNext
  BY <1>4, Zenon DEF RegistryNext
<1>5. ASSUME NEW ids \in SUBSET Identities, ClaimsChange(ids)
      PROVE  RegistryNext
  BY <1>5, Zenon DEF RegistryNext
<1> QED BY <1>1, <1>2, <1>3, <1>4, <1>5, Zenon DEF Next

LEMMA CountryIsToken == CountryNext => [Next]_vars
<1> SUFFICES ASSUME CountryNext PROVE [Next]_vars
  OBVIOUS
<1>1. \/ \E w \in Wallets, country \in Countries \cup {NoCountry} :
           \/ \E id \in Identities : RegisterInvestor(w, id, country)
           \/ UpdateCountry(w, country)
      \/ \E w \in Wallets : DeleteInvestor(w)
      \/ \E registry \in [Wallets -> Investors], ids \in SUBSET Identities,
            countries \in [Wallets -> Countries \cup {NoCountry}] :
           ReplaceRegistry(registry, ids, countries)
  BY Zenon DEF CountryNext
<1>2. ASSUME NEW w \in Wallets, NEW country, NEW id \in Identities,
             RegisterInvestor(w, id, country)
      PROVE  Next
  BY <1>2, Zenon DEF RegisterInvestor, RegistryNext, Next
<1>3. ASSUME NEW w \in Wallets, NEW country, UpdateCountry(w, country)
      PROVE  UNCHANGED vars
  BY <1>3 DEF UpdateCountry
<1>4. ASSUME NEW w \in Wallets, DeleteInvestor(w)
      PROVE  Next
  BY <1>4, Zenon DEF DeleteInvestor, RegistryNext, Next
<1>5. ASSUME NEW registry \in [Wallets -> Investors], NEW ids \in SUBSET Identities,
             NEW countries, ReplaceRegistry(registry, ids, countries)
      PROVE  Next
  <2>1. SetIdentityRegistry(registry, ids)
    BY <1>5 DEF ReplaceRegistry
  <2>2. registry \in [Wallets -> Identities \cup {NoIdentity}]
    BY DEF Investors
  <2> QED BY <2>1, <2>2, Zenon DEF OwnerNext, Next
<1> QED BY <1>1, <1>2, <1>3, <1>4, <1>5, Zenon

LEMMA RegulatedStep == [RegulatedNext]_allVars => [Next]_vars
<1>1. UNCHANGED allVars => UNCHANGED vars
  BY DEF allVars
<1> QED
  BY <1>1, HolderIsToken, ForceIsToken, SupplyIsToken, ControlIsToken, CountryIsToken, Zenon
  DEF RegulatedNext, Next

\* The regulated token implements the token: every theorem about Token is one
\* about RegulatedToken.
THEOREM RegulatedIsToken == RegulatedSpec => Spec
<1>1. RegulatedInit => Init
  BY DEF RegulatedInit
<1> QED BY <1>1, RegulatedStep, PTL DEF RegulatedSpec, Spec

-----------------------------------------------------------------------------
(* Who changes the supply. *)

LEMMA OnlyMintGrows ==
  ASSUME TypeOK, LedgerInv, ~inflated, [RegulatedNext]_allVars,
         totalSupply' > totalSupply
  PROVE  \E agent \in agents, w \in Wallets, amount \in Amount :
           RegulatedMint(agent, w, amount)
<1>1. totalSupply \in Nat
  BY BalancesFit
<1>2. ASSUME UNCHANGED totalSupply PROVE FALSE
  BY <1>1, <1>2
<1>3. ~RegulatedHolderNext
  <2> SUFFICES ASSUME RegulatedHolderNext PROVE UNCHANGED totalSupply
    BY <1>2
  <2> QED
    BY DEF RegulatedHolderNext, RegulatedTransferFrom, RegulatedTransfer, TransferFrom,
           Transfer, MoveUnits, Approve, IncreaseAllowance, DecreaseAllowance, amountVars
<1>4. ~ForceNext
  <2> SUFFICES ASSUME ForceNext PROVE UNCHANGED totalSupply
    BY <1>2
  <2>1. PICK agent \in agents :
          \/ \E from, to \in Wallets, amount \in Amount :
               RegulatedForcedTransfer(agent, from, to, amount)
          \/ \E lost, new \in Wallets, id \in Identities :
               RegulatedRecovery(agent, lost, new, id)
    BY Zenon DEF ForceNext
  <2>2. ASSUME NEW from \in Wallets, NEW to \in Wallets, NEW amount \in Amount,
               RegulatedForcedTransfer(agent, from, to, amount)
        PROVE  UNCHANGED totalSupply
    BY <2>2 DEF RegulatedForcedTransfer, ForcedTransfer, MoveUnits
  <2>3. ASSUME NEW lost \in Wallets, NEW new \in Wallets, NEW id \in Identities,
               RegulatedRecovery(agent, lost, new, id)
        PROVE  UNCHANGED totalSupply
    BY <2>3 DEF RegulatedRecovery, RecoveryAddress, MoveUnits
  <2> QED BY <2>1, <2>2, <2>3, Zenon
<1>5. ~ControlNext
  <2> SUFFICES ASSUME ControlNext PROVE UNCHANGED totalSupply
    BY <1>2
  <2> QED
    BY DEF ControlNext, Pause, Unpause, SetAddressFrozen, FreezePartialTokens,
           UnfreezePartialTokens, AddAgent, RemoveAgent, UpdateIdentity, ClaimsChange,
           amountVars
<1>6. ~CountryNext
  <2> SUFFICES ASSUME CountryNext PROVE UNCHANGED totalSupply
    BY <1>2
  <2> QED
    BY DEF CountryNext, RegisterInvestor, UpdateCountry, DeleteInvestor, ReplaceRegistry,
           RegisterIdentity, DeleteIdentity, SetIdentityRegistry, amountVars, vars
<1>7. ~(SettingsNext /\ UNCHANGED vars) /\ ~UNCHANGED allVars
  BY <1>2 DEF allVars, vars, amountVars
<1>8. ASSUME NEW agent \in agents, NEW w \in Wallets, NEW amount \in Amount,
             RegulatedBurn(agent, w, amount)
      PROVE  FALSE
  <2>1. totalSupply' = Sub(totalSupply, ForcedUnits(w, amount))
    BY <1>8 DEF RegulatedBurn, Burn
  <2>2. ForcedUnits(w, amount) \in Amount /\ ForcedUnits(w, amount) <= balances[w]
    BY SelectedType, ForcedFrozen
  <2>3. balances[w] \in Nat /\ balances[w] <= totalSupply /\ totalSupply \in Amount
    BY BalancesFit DEF TypeOK
  <2> HIDE DEF ForcedUnits
  <2>4. totalSupply' = totalSupply - ForcedUnits(w, amount)
    BY <2>1, <2>2, <2>3, WordAssumption DEF Sub, Amount
  <2> QED BY <2>2, <2>4, <1>1, WordAssumption DEF Amount
<1>9. SupplyNext
  BY <1>3, <1>4, <1>5, <1>6, <1>7, Zenon DEF RegulatedNext
<1> QED BY <1>8, <1>9, Zenon DEF SupplyNext

LEMMA MintWithinLimit ==
  ASSUME TypeOK, NEW agent \in agents, NEW w \in Wallets, NEW amount \in Amount,
         RegulatedMint(agent, w, amount),
         "SupplyLimit" \in rules, totalSupply' > totalSupply
  PROVE  totalSupply' <= supplyLimit
<1> DEFINE compliant == CanTransfer(ZeroAddress, w, amount)
<1>1. totalSupply' = Add(totalSupply, Select(compliant, amount, 0))
  BY DEF RegulatedMint, Mint
<1>2. totalSupply \in Amount
  BY DEF TypeOK
<1>3. compliant
  <2> SUFFICES ASSUME ~compliant PROVE FALSE
    OBVIOUS
  <2>1. Select(compliant, amount, 0) = 0
    BY DEF Select
  <2> HIDE DEF compliant
  <2>2. totalSupply' = totalSupply
    BY <1>1, <1>2, <2>1, WordAssumption DEF Add, Amount
  <2> QED BY <1>2, <2>2, WordAssumption DEF Amount
<1>4. SupplyCheck(ZeroAddress, amount)
  BY <1>3, Zenon DEF CanTransfer
<1>5. Select(compliant, amount, 0) = amount
  BY <1>3 DEF Select
<1> QED BY <1>1, <1>4, <1>5 DEF SupplyCheck

\* While SupplyLimitModule is bound and no unit has appeared out of nothing,
\* only mints add to the circulation and they add up to the limit.
THEOREM CirculationIsCapped == RegulatedSpec => CirculationCapped
<1> DEFINE Inv == TypeOK /\ LedgerInv
<1>1. Inv /\ Inv' /\ [RegulatedNext]_allVars =>
        [ "SupplyLimit" \in rules /\ ~inflated' /\ SumOf(balances') > SumOf(balances)
            => SumOf(balances') <= supplyLimit ]_allVars
  <2> SUFFICES ASSUME Inv, Inv', [RegulatedNext]_allVars,
                      "SupplyLimit" \in rules, ~inflated',
                      SumOf(balances') > SumOf(balances)
               PROVE  SumOf(balances') <= supplyLimit
    OBVIOUS
  <2>1. ~inflated
    <3>1. [Ledger!Next]_(Ledger!vars)
      BY RegulatedStep, NextStep
    <3> QED
      BY <3>1 DEF Ledger!Next, Ledger!vars, Ledger!Inflate, Ledger!Move, Ledger!Issue,
                  Ledger!Redeem, Ledger!Restrict, Ledger!MoveAll
  <2>2. SumOf(balances) = totalSupply /\ SumOf(balances') = totalSupply'
    BY <2>1 DEF LedgerInv, SupplyIsSum
  <2>3. PICK agent \in agents, w \in Wallets, amount \in Amount :
          RegulatedMint(agent, w, amount)
    BY <2>1, <2>2, OnlyMintGrows
  <2> QED BY <2>2, <2>3, MintWithinLimit
<1>2. RegulatedSpec => []Inv
  BY RegulatedIsToken, TypeCorrect, LedgerInvariant, PTL
<1> QED BY <1>1, <1>2, PTL DEF RegulatedSpec, CirculationCapped

-----------------------------------------------------------------------------
(***************************************************************************)
(* What the modules store.  The type of a counter rests on the amounts     *)
(* reported being amounts; the index of limits and the array of limits are *)
(* only kept in step together.                                             *)
(***************************************************************************)

\* LimitIndexConsistent for one exchange.
IndexOK(list, index) ==
  /\ Len(list) <= MaxLimits
  /\ \A p \in 1 .. Len(list) : index[list[p].limitTime] = p
  /\ \A t \in LimitTimes : index[t] # NoIndex =>
       /\ index[t] <= Len(list)
       /\ list[index[t]].limitTime = t

StorageInv == ModulesTypeOK /\ LimitIndexConsistent

\* A window in use stands in the array where the index says.
LEMMA LimitIndexed ==
  ASSUME NEW list \in Seq(Limit), NEW index \in [LimitTimes -> 0 .. MaxLimits],
         IndexOK(list, index), NEW t \in LimitTimes, index[t] # NoIndex
  PROVE  index[t] \in 1 .. Len(list) /\ list[index[t]].limitTime = t
<1>1. index[t] \in 0 .. MaxLimits /\ MaxLimits \in Nat /\ Len(list) \in Nat
  BY ModulesAssumption
<1>2. index[t] <= Len(list) /\ list[index[t]].limitTime = t
  BY DEF IndexOK
<1> QED BY <1>1, <1>2 DEF NoIndex

LEMMA LimitReplaced ==
  ASSUME NEW list \in Seq(Limit), NEW index \in [LimitTimes -> 0 .. MaxLimits],
         IndexOK(list, index), NEW limit \in Limit, index[limit.limitTime] # NoIndex,
         NEW next, next = [list EXCEPT ![index[limit.limitTime]] = limit]
  PROVE  next \in Seq(Limit) /\ IndexOK(next, index)
<1> DEFINE t == limit.limitTime
           p == index[t]
<1>1. t \in LimitTimes /\ \A l \in Limit : l.limitTime \in LimitTimes
  BY DEF Limit
<1>2. p \in 1 .. Len(list) /\ list[p].limitTime = t
  BY <1>1, LimitIndexed
<1>3. next = [list EXCEPT ![p] = limit] /\ limit.limitTime = t
  OBVIOUS
<1> HIDE DEF Limit, p, t
<1>4. /\ next \in Seq(Limit) /\ Len(next) = Len(list)
      /\ \A q \in 1 .. Len(list) : next[q] = IF q = p THEN limit ELSE list[q]
  <2>1. /\ list \in [1 .. Len(list) -> Limit] /\ Len(list) \in Nat
    OBVIOUS
  <2>2. next \in [1 .. Len(list) -> Limit]
    BY <1>2, <1>3, <2>1
  <2>3. \A q \in 1 .. Len(list) : next[q] = IF q = p THEN limit ELSE list[q]
    BY <1>2, <1>3, <2>1
  <2>4. next \in Seq(Limit) /\ Len(next) = Len(list)
    BY <2>1, <2>2
  <2> QED BY <2>3, <2>4
<1>5. \A q \in 1 .. Len(list) : next[q].limitTime = list[q].limitTime
  BY <1>2, <1>3, <1>4
<1>6. \A u \in LimitTimes : index[u] # NoIndex =>
        index[u] \in 1 .. Len(list) /\ list[index[u]].limitTime = u
  BY LimitIndexed
<1>7. Len(next) <= MaxLimits
  BY <1>4 DEF IndexOK
<1>8. \A q \in 1 .. Len(next) : index[next[q].limitTime] = q
  BY <1>4, <1>5 DEF IndexOK
<1>9. \A u \in LimitTimes : index[u] # NoIndex =>
        index[u] <= Len(next) /\ next[index[u]].limitTime = u
  BY <1>4, <1>5, <1>6
<1> QED BY <1>4, <1>7, <1>8, <1>9 DEF IndexOK

LEMMA LimitAppended ==
  ASSUME NEW list \in Seq(Limit), NEW index \in [LimitTimes -> 0 .. MaxLimits],
         IndexOK(list, index), NEW limit \in Limit, index[limit.limitTime] = NoIndex,
         Len(list) < MaxLimits,
         NEW next, next = Append(list, limit),
         NEW moved, moved = [index EXCEPT ![limit.limitTime] = Len(list) + 1]
  PROVE  /\ next \in Seq(Limit) /\ moved \in [LimitTimes -> 0 .. MaxLimits]
         /\ IndexOK(next, moved)
<1> DEFINE t == limit.limitTime
           n == Len(list)
<1>1. t \in LimitTimes /\ \A l \in Limit : l.limitTime \in LimitTimes
  BY DEF Limit
<1> HIDE DEF Limit
<1>2. /\ next \in Seq(Limit) /\ Len(next) = n + 1 /\ next[n + 1] = limit
      /\ \A q \in 1 .. n : next[q] = list[q] /\ list[q] \in Limit
      /\ n \in Nat /\ MaxLimits \in Nat /\ n + 1 <= MaxLimits
  BY ModulesAssumption
<1>3. \A q \in 1 .. n : list[q].limitTime # t /\ list[q].limitTime \in LimitTimes
  BY <1>1, <1>2 DEF IndexOK, NoIndex
<1>4. \A u \in LimitTimes : moved[u] = IF u = t THEN n + 1 ELSE index[u]
  BY <1>1
<1>5. moved \in [LimitTimes -> 0 .. MaxLimits]
  BY <1>1, <1>2
<1>6. \A q \in 1 .. n + 1 : moved[next[q].limitTime] = q
  <2> SUFFICES ASSUME NEW q \in 1 .. n + 1 PROVE moved[next[q].limitTime] = q
    OBVIOUS
  <2>1. CASE q = n + 1
    BY <1>1, <1>2, <1>4, <2>1
  <2>2. CASE q \in 1 .. n
    BY <1>2, <1>3, <1>4, <2>2 DEF IndexOK
  <2> QED BY <1>2, <2>1, <2>2
<1>7. ASSUME NEW u \in LimitTimes, moved[u] # NoIndex
      PROVE  moved[u] <= n + 1 /\ next[moved[u]].limitTime = u
  <2>1. CASE u = t
    BY <1>2, <1>4, <2>1
  <2>2. CASE u # t
    <3>1. moved[u] = index[u]
      BY <1>4, <2>2
    <3>2. index[u] \in 1 .. n /\ list[index[u]].limitTime = u
      BY <1>7, <3>1, LimitIndexed
    <3> QED BY <1>2, <3>1, <3>2
  <2> QED BY <2>1, <2>2
<1> HIDE DEF n, t
<1>8. Len(next) <= MaxLimits
  BY <1>2
<1>9. \A q \in 1 .. Len(next) : moved[next[q].limitTime] = q
  BY <1>2, <1>6
<1>10. \A u \in LimitTimes : moved[u] # NoIndex =>
         moved[u] <= Len(next) /\ next[moved[u]].limitTime = u
  BY <1>2, <1>7
<1> QED BY <1>2, <1>5, <1>8, <1>9, <1>10 DEF IndexOK

LEMMA SetLimitStorage ==
  ASSUME StorageInv, NEW e \in Identities, NEW limit \in Limit, SetExchangeLimit(e, limit)
  PROVE  /\ timeLimits' \in [Identities -> Seq(Limit)]
         /\ limitIndex' \in [Identities -> [LimitTimes -> 0 .. MaxLimits]]
         /\ LimitIndexConsistent'
<1> DEFINE t == limit.limitTime
           list == timeLimits[e]
           index == limitIndex[e]
           Lists == Seq(Limit)
           Indexes == [LimitTimes -> 0 .. MaxLimits]
<1>1. /\ list \in Lists /\ index \in Indexes /\ IndexOK(list, index)
      /\ timeLimits \in [Identities -> Lists] /\ limitIndex \in [Identities -> Indexes]
      /\ \A i \in Identities : IndexOK(timeLimits[i], limitIndex[i])
  BY DEF StorageInv, ModulesTypeOK, LimitIndexConsistent, IndexOK
<1>2. SUFFICES /\ timeLimits' \in [Identities -> Lists]
               /\ limitIndex' \in [Identities -> Indexes]
               /\ \A i \in Identities : IndexOK(timeLimits'[i], limitIndex'[i])
  BY DEF LimitIndexConsistent, IndexOK
<1>3. CASE index[t] # NoIndex
  <2> DEFINE next == [list EXCEPT ![index[t]] = limit]
  <2>1. /\ timeLimits' = [timeLimits EXCEPT ![e] = next]
        /\ limitIndex' = [limitIndex EXCEPT ![e][t] = @]
    BY <1>3 DEF SetExchangeLimit
  <2>2. limitIndex' = limitIndex
    BY <1>1, <2>1
  <2>3. next \in Lists /\ IndexOK(next, index)
    BY <1>1, <1>3, LimitReplaced
  <2> HIDE DEF next, Lists, Indexes
  <2> QED BY <1>1, <2>1, <2>2, <2>3
<1>4. CASE index[t] = NoIndex
  <2> DEFINE next == Append(list, limit)
             moved == [index EXCEPT ![t] = Len(list) + 1]
  <2>1. /\ timeLimits' = [timeLimits EXCEPT ![e] = next]
        /\ limitIndex' = [limitIndex EXCEPT ![e] = moved]
        /\ Len(list) < MaxLimits
    BY <1>4 DEF SetExchangeLimit
  <2>2. next \in Lists /\ moved \in Indexes /\ IndexOK(next, moved)
    BY <1>1, <1>4, <2>1, LimitAppended
  <2> HIDE DEF next, moved, Lists, Indexes
  <2> QED BY <1>1, <2>1, <2>2
<1> QED BY <1>3, <1>4

LEMMA CountedType ==
  ASSUME NEW Times, NEW c \in [count : Amount, timer : Times, wrapped : BOOLEAN],
         NEW units \in Amount, NEW window, now + window \in Times
  PROVE  Counted(c, units, window, now) \in [count : Amount, timer : Times, wrapped : BOOLEAN]
<1>1. Add(c.count, units) \in Amount
  BY AmountClosed
<1>2. CASE Finished(c, now)
  BY <1>2 DEF Counted
<1>3. CASE ~Finished(c, now)
  <2> DEFINE wraps == c.wrapped \/ c.count + units >= Word
  <2>1. Counted(c, units, window, now) =
          [count |-> Add(c.count, units), timer |-> c.timer, wrapped |-> wraps]
    BY <1>3 DEF Counted
  <2>2. wraps \in BOOLEAN
    OBVIOUS
  <2> HIDE DEF wraps
  <2> QED BY <1>1, <2>1, <2>2
<1> QED BY <1>2, <1>3

LEMMA MonthlyType ==
  ASSUME ModulesTypeOK, NEW from \in Wallets, NEW to \in Wallets, NEW units \in Amount,
         NEW ids \in [Wallets -> Investors], MonthlyTransferAction(from, to, units, ids)
  PROVE  monthlyCount' \in [Identities -> [Investors -> Counter]]
<1> DEFINE before == monthlyCount[ids[to]][ids[from]]
           after == Counted(before, units, Month, now)
           C == Counter
<1>1. monthlyCount \in [Identities -> [Investors -> C]] /\ monthlyExchanges \subseteq Identities
      /\ now \in 0 .. MaxTime
  BY DEF ModulesTypeOK
<1>2. CASE ids[to] \in monthlyExchanges
  <2>1. ids[to] \in Identities /\ ids[from] \in Investors /\ before \in C
    BY <1>1, <1>2
  <2>2. now + Month \in 0 .. MaxTime + Month
    BY <1>1, ModulesAssumption
  <2>3. after \in C
    BY <2>1, <2>2, CountedType DEF Counter
  <2>4. monthlyCount' = [monthlyCount EXCEPT ![ids[to]][ids[from]] = after]
        \/ monthlyCount' = monthlyCount
    BY DEF MonthlyTransferAction
  <2> HIDE DEF after, C
  <2>5. [monthlyCount EXCEPT ![ids[to]][ids[from]] = after] \in [Identities -> [Investors -> C]]
    BY <1>1, <2>1, <2>3
  <2> QED BY <1>1, <2>4, <2>5 DEF C
<1>3. CASE ids[to] \notin monthlyExchanges
  BY <1>1, <1>3 DEF MonthlyTransferAction
<1> QED BY <1>2, <1>3

LEMMA TimeType ==
  ASSUME ModulesTypeOK, NEW from \in Wallets, NEW to \in Wallets, NEW units \in Amount,
         NEW ids \in [Wallets -> Investors], TimeTransferAction(from, to, units, ids)
  PROVE  timeCount' \in [Identities -> [Investors -> [LimitTimes -> TimeCounter]]]
<1> DEFINE before == timeCount[ids[to]][ids[from]]
           windows == {l.limitTime : l \in Range(timeLimits[ids[to]])}
           after == [t \in LimitTimes |->
                       IF t \in windows THEN Counted(before[t], units, t, now) ELSE before[t]]
           C == [LimitTimes -> TimeCounter]
<1>1. /\ timeCount \in [Identities -> [Investors -> C]] /\ timeExchanges \subseteq Identities
      /\ now \in Nat
  BY ModulesAssumption DEF ModulesTypeOK
<1>2. CASE ids[to] \in timeExchanges
  <2>1. ids[to] \in Identities /\ ids[from] \in Investors /\ before \in C
    BY <1>1, <1>2
  <2>2. ASSUME NEW t \in LimitTimes PROVE after[t] \in TimeCounter
    <3>1. now + t \in Nat
      BY <1>1, ModulesAssumption
    <3>2. before[t] \in TimeCounter
      BY <2>1
    <3>3. Counted(before[t], units, t, now) \in TimeCounter
      BY <3>1, <3>2, CountedType DEF TimeCounter
    <3> HIDE DEF before, windows
    <3>4. after[t] = IF t \in windows THEN Counted(before[t], units, t, now) ELSE before[t]
      OBVIOUS
    <3> QED BY <3>2, <3>3, <3>4
  <2>3. after \in C
    BY <2>2
  <2>4. timeCount' = [timeCount EXCEPT ![ids[to]][ids[from]] = after]
        \/ timeCount' = timeCount
    BY Zenon DEF TimeTransferAction
  <2> HIDE DEF after, C
  <2>5. [timeCount EXCEPT ![ids[to]][ids[from]] = after] \in [Identities -> [Investors -> C]]
    BY <1>1, <2>1, <2>3
  <2> QED BY <1>1, <2>4, <2>5 DEF C
<1>3. CASE ids[to] \notin timeExchanges
  <2>1. timeCount' = timeCount
    BY <1>3, Zenon DEF TimeTransferAction
  <2> QED BY <1>1, <2>1
<1> QED BY <1>2, <1>3

\* What no step but SetExchangeLimit and the transfers' reports disturbs.
LEMMA StorageFrame ==
  ASSUME StorageInv
  PROVE  /\ UNCHANGED <<timeLimits, limitIndex>> =>
              /\ LimitIndexConsistent'
              /\ timeLimits' \in [Identities -> Seq(Limit)]
              /\ limitIndex' \in [Identities -> [LimitTimes -> 0 .. MaxLimits]]
         /\ UNCHANGED counterVars =>
              /\ monthlyCount' \in [Identities -> [Investors -> Counter]]
              /\ timeCount' \in [Identities -> [Investors -> [LimitTimes -> TimeCounter]]]
         /\ UNCHANGED <<settingVars, now>> =>
              /\ rules' \subseteq Modules /\ supplyLimit' \in Amount
              /\ allowedUsers' \subseteq Allowable
              /\ allowedCountries' \subseteq Countries
              /\ restrictedCountries' \subseteq Countries
              /\ monthlyExchanges' \subseteq Identities
              /\ monthlyLimit' \in [Identities -> MonthlyLimits]
              /\ timeExchanges' \subseteq Identities
              /\ timeLimits' = timeLimits /\ limitIndex' = limitIndex
              /\ now' \in 0 .. MaxTime
         /\ UNCHANGED countryOf => countryOf' \in [Wallets -> Countries \cup {NoCountry}]
BY DEF StorageInv, ModulesTypeOK, LimitIndexConsistent, settingVars, listVars, monthlyVars,
       timeVars, counterVars

\* A step that leaves the settings alone.
LEMMA RecordedStorage ==
  ASSUME StorageInv, UNCHANGED <<settingVars, now>>,
         monthlyCount' \in [Identities -> [Investors -> Counter]],
         timeCount' \in [Identities -> [Investors -> [LimitTimes -> TimeCounter]]],
         countryOf' \in [Wallets -> Countries \cup {NoCountry}]
  PROVE  StorageInv'
<1>1. UNCHANGED <<timeLimits, limitIndex>>
  BY StorageFrame
<1>2. ModulesTypeOK'
  BY <1>1, StorageFrame DEF ModulesTypeOK
<1> QED BY <1>1, <1>2, StorageFrame DEF StorageInv

LEMMA InitStorage == RegulatedInit => StorageInv
<1> SUFFICES ASSUME RegulatedInit PROVE StorageInv
  OBVIOUS
<1> USE ModulesAssumption
<1> DEFINE I == [LimitTimes -> 0 .. MaxLimits]
           T == [LimitTimes -> TimeCounter]
<1>1. /\ 0 \in Amount /\ 0 \in MonthlyLimits
      /\ NewCounter \in Counter /\ NewCounter \in TimeCounter
  BY AmountClosed DEF NewCounter, Counter, TimeCounter, MonthlyLimits
<1>2. [t \in LimitTimes |-> NoIndex] \in I /\ [t \in LimitTimes |-> NewCounter] \in T
  BY <1>1 DEF NoIndex
<1>3. <<>> \in Seq(Limit)
  OBVIOUS
<1>4. /\ monthlyLimit \in [Identities -> MonthlyLimits]
      /\ monthlyCount \in [Identities -> [Investors -> Counter]]
      /\ countryOf \in [Wallets -> Countries \cup {NoCountry}]
  BY <1>1 DEF RegulatedInit, ModulesInit
<1>5. timeLimits \in [Identities -> Seq(Limit)]
  BY <1>3 DEF RegulatedInit, ModulesInit
<1> HIDE DEF I, T
<1>6. limitIndex \in [Identities -> I] /\ timeCount \in [Identities -> [Investors -> T]]
  BY <1>2 DEF RegulatedInit, ModulesInit
<1>7. ModulesTypeOK
  BY <1>1, <1>4, <1>5, <1>6 DEF ModulesTypeOK, RegulatedInit, ModulesInit, I, T
<1>8. LimitIndexConsistent
  <2>1. ASSUME NEW e \in Identities
        PROVE  timeLimits[e] = <<>> /\ \A t \in LimitTimes : limitIndex[e][t] = NoIndex
    BY DEF RegulatedInit, ModulesInit
  <2>2. Len(<<>>) = 0 /\ 0 <= MaxLimits /\ 1 .. 0 = {}
    OBVIOUS
  <2> QED BY <2>1, <2>2, Zenon DEF LimitIndexConsistent
<1> QED BY <1>7, <1>8 DEF StorageInv

LEMMA SettingsStorage == StorageInv /\ SettingsNext => StorageInv'
<1> SUFFICES ASSUME StorageInv, SettingsNext PROVE StorageInv'
  OBVIOUS
<1> USE DEF listVars, monthlyVars, timeVars, counterVars, settingVars
<1>1. ASSUME NEW e \in Identities, NEW limit \in Limit, SetExchangeLimit(e, limit)
      PROVE  StorageInv'
  <2>1. /\ timeLimits' \in [Identities -> Seq(Limit)]
        /\ limitIndex' \in [Identities -> [LimitTimes -> 0 .. MaxLimits]]
        /\ LimitIndexConsistent'
    BY <1>1, SetLimitStorage
  <2>2. UNCHANGED <<rules, listVars, monthlyVars, timeExchanges, counterVars, countryOf, now>>
    BY <1>1 DEF SetExchangeLimit
  <2> QED BY <2>1, <2>2 DEF StorageInv, ModulesTypeOK
<1>2. SUFFICES ASSUME UNCHANGED <<timeLimits, limitIndex, counterVars, countryOf>>
               PROVE  /\ rules' \subseteq Modules /\ supplyLimit' \in Amount
                      /\ allowedUsers' \subseteq Allowable
                      /\ allowedCountries' \subseteq Countries
                      /\ restrictedCountries' \subseteq Countries
                      /\ monthlyExchanges' \subseteq Identities
                      /\ monthlyLimit' \in [Identities -> MonthlyLimits]
                      /\ timeExchanges' \subseteq Identities
                      /\ now' \in 0 .. MaxTime
  <2> DEFINE Typed == /\ rules' \subseteq Modules /\ supplyLimit' \in Amount
                      /\ allowedUsers' \subseteq Allowable
                      /\ allowedCountries' \subseteq Countries
                      /\ restrictedCountries' \subseteq Countries
                      /\ monthlyExchanges' \subseteq Identities
                      /\ monthlyLimit' \in [Identities -> MonthlyLimits]
                      /\ timeExchanges' \subseteq Identities
                      /\ now' \in 0 .. MaxTime
  <2>1. UNCHANGED <<timeLimits, limitIndex, counterVars, countryOf>>
        \/ \E e \in Identities, limit \in Limit : SetExchangeLimit(e, limit)
    BY DEF SettingsNext, AddModule, RemoveModule, SetSupplyLimit, AllowUsers, DisallowUsers,
           AllowCountries, DisallowCountries, RestrictCountries, UnrestrictCountries,
           SetExchangeMonthlyLimit, TagMonthlyExchange, TagTimeExchange, Tick
  <2>2. ASSUME UNCHANGED <<timeLimits, limitIndex, counterVars, countryOf>>, Typed
        PROVE  StorageInv'
    <3>1. ModulesTypeOK'
      BY <2>2, StorageFrame DEF ModulesTypeOK
    <3> QED BY <2>2, <3>1, StorageFrame DEF StorageInv
  <2> QED BY <1>1, <2>1, <2>2
<1> DEFINE Typed == /\ rules' \subseteq Modules /\ supplyLimit' \in Amount
                    /\ allowedUsers' \subseteq Allowable
                    /\ allowedCountries' \subseteq Countries
                    /\ restrictedCountries' \subseteq Countries
                    /\ monthlyExchanges' \subseteq Identities
                    /\ monthlyLimit' \in [Identities -> MonthlyLimits]
                    /\ timeExchanges' \subseteq Identities
                    /\ now' \in 0 .. MaxTime
<1> USE DEF StorageInv, ModulesTypeOK
<1>3. ASSUME NEW m \in Modules, AddModule(m) \/ RemoveModule(m) PROVE Typed
  BY <1>3 DEF AddModule, RemoveModule
<1>4. ASSUME NEW limit \in Amount, SetSupplyLimit(limit) PROVE Typed
  BY <1>4 DEF SetSupplyLimit
<1>5. ASSUME NEW users \in SUBSET Allowable, AllowUsers(users) \/ DisallowUsers(users)
      PROVE  Typed
  BY <1>5 DEF AllowUsers, DisallowUsers
<1>6. ASSUME NEW countries \in SUBSET Countries,
             \/ AllowCountries(countries) \/ DisallowCountries(countries)
             \/ RestrictCountries(countries) \/ UnrestrictCountries(countries)
      PROVE  Typed
  BY <1>6 DEF AllowCountries, DisallowCountries, RestrictCountries, UnrestrictCountries
<1>7. ASSUME NEW e \in Identities, NEW limit \in MonthlyLimits, SetExchangeMonthlyLimit(e, limit)
      PROVE  Typed
  BY <1>7 DEF SetExchangeMonthlyLimit
<1>8. ASSUME NEW e \in Identities, TagMonthlyExchange(e) \/ TagTimeExchange(e) PROVE Typed
  BY <1>8 DEF TagMonthlyExchange, TagTimeExchange
<1>9. ASSUME NEW e \in Identities, NEW limit \in Limit, SetExchangeLimit(e, limit) PROVE Typed
  BY <1>9 DEF SetExchangeLimit
<1>10. ASSUME Tick PROVE Typed
  BY <1>10, ModulesAssumption DEF Tick
<1> HIDE DEF Typed
<1>11. Typed
  BY <1>3, <1>4, <1>5, <1>6, <1>7, <1>8, <1>9, <1>10, Zenon DEF SettingsNext
<1> QED BY <1>11 DEF Typed

\* A move that is reported.
LEMMA ReportedStorage ==
  ASSUME StorageInv, NEW from \in Wallets, NEW to \in Wallets, NEW units \in Amount,
         NEW ids \in [Wallets -> Investors], Transferred(from, to, units, ids),
         UNCHANGED <<settingVars, now>>,
         countryOf' \in [Wallets -> Countries \cup {NoCountry}]
  PROVE  StorageInv'
<1>1. ModulesTypeOK
  BY DEF StorageInv
<1>2. monthlyCount' \in [Identities -> [Investors -> Counter]]
  BY <1>1, MonthlyType DEF Transferred
<1>3. timeCount' \in [Identities -> [Investors -> [LimitTimes -> TimeCounter]]]
  BY <1>1, TimeType DEF Transferred
<1> QED BY <1>2, <1>3, RecordedStorage

LEMMA MovedStorage ==
  ASSUME TypeOK, StorageInv, NEW from \in Wallets, NEW to \in Wallets, NEW units \in Amount,
         Moved(from, to, units, identityOf)
  PROVE  StorageInv'
<1>1. identityOf \in [Wallets -> Investors]
  BY DEF TypeOK, Investors
<1>2. Transferred(from, to, units, identityOf) /\ UNCHANGED <<settingVars, countryOf, now>>
  BY DEF Moved
<1>3. countryOf' \in [Wallets -> Countries \cup {NoCountry}]
  BY <1>2, StorageFrame
<1> QED BY <1>1, <1>2, <1>3, ReportedStorage

LEMMA UnregulatedStorage == StorageInv /\ Unregulated => StorageInv'
<1> SUFFICES ASSUME StorageInv, Unregulated PROVE StorageInv'
  OBVIOUS
<1>1. UNCHANGED <<settingVars, now>> /\ UNCHANGED counterVars /\ UNCHANGED countryOf
  BY DEF Unregulated, moduleVars
<1> QED BY <1>1, StorageFrame, RecordedStorage

LEMMA CountryStorage ==
  ASSUME StorageInv, NEW countries \in [Wallets -> Countries \cup {NoCountry}],
         CountryChange(countries)
  PROVE  StorageInv'
<1>1. UNCHANGED <<settingVars, now>> /\ UNCHANGED counterVars
      /\ countryOf' \in [Wallets -> Countries \cup {NoCountry}]
  BY DEF CountryChange
<1> QED BY <1>1, StorageFrame, RecordedStorage

LEMMA HolderStorage == TypeOK /\ StorageInv /\ RegulatedHolderNext => StorageInv'
<1> SUFFICES ASSUME TypeOK, StorageInv, RegulatedHolderNext PROVE StorageInv'
  OBVIOUS
<1>1. PICK w \in Wallets, amount \in Amount :
        \/ \E s \in Spenders :
             /\ \/ Approve(w, s, amount)
                \/ IncreaseAllowance(w, s, amount)
                \/ DecreaseAllowance(w, s, amount)
             /\ Unregulated
        \/ \E to \in Wallets :
             \/ \E s \in Spenders : RegulatedTransferFrom(s, w, to, amount)
             \/ RegulatedTransfer(w, to, amount)
  BY Zenon DEF RegulatedHolderNext
<1>2. ASSUME NEW to \in Wallets,
             Moved(w, to, Transferable(w, amount, Verdict(w, to, amount)), identityOf)
      PROVE  StorageInv'
  <2>1. Verdict(w, to, amount) \in BOOLEAN
    BY VerdictIsBoolean DEF Verdict
  <2>2. Transferable(w, amount, Verdict(w, to, amount)) \in Amount
    BY <2>1, SelectedType
  <2> QED BY <1>2, <2>2, MovedStorage
<1> QED
  BY <1>1, <1>2, UnregulatedStorage, Zenon DEF RegulatedTransferFrom, RegulatedTransfer

LEMMA ForceStorage == TypeOK /\ StorageInv /\ ForceNext => StorageInv'
<1> SUFFICES ASSUME TypeOK, StorageInv, ForceNext PROVE StorageInv'
  OBVIOUS
<1>1. PICK agent \in agents :
        \/ \E from, to \in Wallets, amount \in Amount :
             RegulatedForcedTransfer(agent, from, to, amount)
        \/ \E lost, new \in Wallets, id \in Identities :
             RegulatedRecovery(agent, lost, new, id)
  BY Zenon DEF ForceNext
<1>2. ASSUME NEW from \in Wallets, NEW to \in Wallets, NEW amount \in Amount,
             RegulatedForcedTransfer(agent, from, to, amount)
      PROVE  StorageInv'
  BY <1>2, SelectedType, MovedStorage DEF RegulatedForcedTransfer
<1>3. ASSUME NEW lost \in Wallets, NEW new \in Wallets, NEW id \in Identities,
             RegulatedRecovery(agent, lost, new, id)
      PROVE  StorageInv'
  <2> DEFINE ids == [identityOf EXCEPT ![new] = id]
             units == ForcedUnits(lost, balances[lost])
  <2>1. ids \in [Wallets -> Investors]
    BY DEF TypeOK, Investors
  <2>2. units \in Amount
    BY SelectedType DEF TypeOK
  <2>3. Transferred(lost, new, units, ids) /\ UNCHANGED <<settingVars, now>>
        /\ countryOf' = [countryOf EXCEPT ![new] = countryOf[lost], ![lost] = NoCountry]
    BY <1>3 DEF RegulatedRecovery
  <2>4. countryOf' \in [Wallets -> Countries \cup {NoCountry}]
    BY <2>3 DEF StorageInv, ModulesTypeOK
  <2> HIDE DEF ids, units
  <2> QED BY <2>1, <2>2, <2>3, <2>4, ReportedStorage
<1> QED BY <1>1, <1>2, <1>3, Zenon

LEMMA CountryNextStorage == StorageInv /\ CountryNext => StorageInv'
<1> SUFFICES ASSUME StorageInv, CountryNext PROVE StorageInv'
  OBVIOUS
<1>1. countryOf \in [Wallets -> Countries \cup {NoCountry}]
  BY DEF StorageInv, ModulesTypeOK
<1>2. \E countries \in [Wallets -> Countries \cup {NoCountry}] : CountryChange(countries)
  <2>1. ASSUME NEW w \in Wallets, NEW country \in Countries \cup {NoCountry}
        PROVE  [countryOf EXCEPT ![w] = country] \in [Wallets -> Countries \cup {NoCountry}]
    BY <1>1
  <2>2. NoCountry \in Countries \cup {NoCountry}
    OBVIOUS
  <2>3. ASSUME NEW w \in Wallets, DeleteInvestor(w)
        PROVE  \E countries \in [Wallets -> Countries \cup {NoCountry}] : CountryChange(countries)
    <3>1. [countryOf EXCEPT ![w] = NoCountry] \in [Wallets -> Countries \cup {NoCountry}]
      BY <2>1, <2>2
    <3> QED BY <2>3, <3>1, Zenon DEF DeleteInvestor
  <2> QED
    BY <2>1, <2>3, Zenon DEF CountryNext, RegisterInvestor, UpdateCountry, ReplaceRegistry
<1> QED BY <1>2, CountryStorage

LEMMA RegulatedStorage == TypeOK /\ StorageInv /\ [RegulatedNext]_allVars => StorageInv'
<1>1. SupplyNext \/ ControlNext \/ UNCHANGED allVars => Unregulated
  BY DEF SupplyNext, RegulatedMint, RegulatedBurn, ControlNext, Unregulated, allVars
<1> QED
  BY <1>1, UnregulatedStorage, HolderStorage, ForceStorage, CountryNextStorage, SettingsStorage, Zenon
  DEF RegulatedNext

LEMMA StorageInvariant == RegulatedSpec => []StorageInv
<1>1. RegulatedSpec => []TypeOK
  BY RegulatedIsToken, TypeCorrect, PTL
<1> QED BY <1>1, InitStorage, RegulatedStorage, PTL DEF RegulatedSpec

\* Every variable keeps its type, the modules' counts within a word.
THEOREM RegulatedTypeCorrect == RegulatedSpec => []RegulatedTypeOK
<1>1. TypeOK /\ StorageInv => RegulatedTypeOK
  BY DEF StorageInv, RegulatedTypeOK
<1> QED BY <1>1, RegulatedIsToken, TypeCorrect, StorageInvariant, PTL

\* The array of limits and the index into it agree, whatever limits the owner
\* sets in whatever order: the in-place update never misses its entry.
THEOREM LimitsIndexed == RegulatedSpec => []LimitIndexConsistent
<1>1. StorageInv => LimitIndexConsistent
  BY DEF StorageInv
<1> QED BY <1>1, StorageInvariant, PTL

-----------------------------------------------------------------------------
(***************************************************************************)
(* What moved and what was recorded.  UnitsMoved reads a step off the      *)
(* balances before and after; the modules were told wallets and an amount. *)
(* While no unit has appeared out of nothing the two agree.                *)
(***************************************************************************)

\* Every wallet's balance changes by exactly what the move says.
Shifted(from, to, units) ==
  /\ from # to
  /\ \A w \in Wallets : balances'[w] = IF w = from THEN balances[w] - units
                                       ELSE IF w = to THEN balances[w] + units
                                       ELSE balances[w]

LEMMA MoveShifts ==
  ASSUME TypeOK, LedgerInv, ~inflated', NEW from \in Wallets, NEW to \in Wallets,
         NEW units \in Amount, ~inflated => units <= balances[from],
         MoveUnits(from, to, units)
  PROVE  (units = 0 /\ UNCHANGED balances) \/ Shifted(from, to, units)
<1>1. ~inflated /\ (from = to => units = 0) /\ balances' = BalancesAfter(from, to, units)
  BY DEF MoveUnits
<1>2. CASE from # to
  <2>1. balances' = [balances EXCEPT ![from] = @ - units, ![to] = @ + units]
    BY <1>1, <1>2, ExactMove
  <2> QED BY <1>2, <2>1 DEF TypeOK, Shifted
<1>3. CASE from = to
  <2>1. units = 0
    BY <1>1, <1>3
  <2>2. /\ Sub(balances[from], 0) = balances[from]
        /\ Add(balances[from], 0) = balances[from]
    BY WordAssumption DEF TypeOK, Amount, Add, Sub
  <2>3. balances' = balances
    BY <1>1, <1>3, <2>1, <2>2 DEF BalancesAfter, TypeOK
  <2> QED BY <2>1, <2>3
<1> QED BY <1>2, <1>3

LEMMA NothingMoved ==
  ASSUME TypeOK, NEW i, NEW e,
         \/ \A w \in Wallets : balances'[w] >= balances[w] /\ balances'[w] \in Nat
         \/ \A w \in Wallets : balances'[w] <= balances[w] /\ balances'[w] \in Nat
  PROVE  UnitsMoved(i, e) = 0
<1> DEFINE gain(w) == balances'[w] - balances[w]
           Senders == {w \in Wallets : gain(w) < 0 /\ identityOf[w] = i /\ w \notin agents}
           Receivers == {w \in Wallets : gain(w) > 0 /\ identityOf[w] = e}
<1>1. \A w \in Wallets : balances[w] \in Nat
  BY WordAssumption DEF TypeOK, Amount
<1>2. Senders = {} \/ Receivers = {}
  <2>1. CASE \A w \in Wallets : balances'[w] >= balances[w] /\ balances'[w] \in Nat
    <3>1. \A w \in Wallets : ~(gain(w) < 0)
      BY <1>1, <2>1
    <3> QED BY <3>1
  <2>2. CASE \A w \in Wallets : balances'[w] <= balances[w] /\ balances'[w] \in Nat
    <3>1. \A w \in Wallets : ~(gain(w) > 0)
      BY <1>1, <2>2
    <3> QED BY <3>1
  <2> QED BY <2>1, <2>2
<1>3. UnitsMoved(i, e) = IF Senders = {} \/ Receivers = {} THEN 0
                         ELSE gain(CHOOSE w \in Receivers : TRUE)
  BY DEF UnitsMoved
<1> HIDE DEF Senders, Receivers
<1> QED BY <1>2, <1>3

LEMMA MovedUnits ==
  ASSUME TypeOK, NEW from \in Wallets, NEW to \in Wallets, NEW units \in Amount,
         (units = 0 /\ UNCHANGED balances) \/ Shifted(from, to, units),
         NEW i, NEW e
  PROVE  UnitsMoved(i, e) =
           IF identityOf[from] = i /\ identityOf[to] = e /\ from \notin agents
           THEN units ELSE 0
<1> DEFINE gain(w) == balances'[w] - balances[w]
           Senders == {w \in Wallets : gain(w) < 0 /\ identityOf[w] = i /\ w \notin agents}
           Receivers == {w \in Wallets : gain(w) > 0 /\ identityOf[w] = e}
<1>1. (\A w \in Wallets : balances[w] \in Nat) /\ units \in Nat
  BY WordAssumption DEF TypeOK, Amount
<1>2. CASE units = 0
  <2>1. \A w \in Wallets : balances'[w] >= balances[w] /\ balances'[w] \in Nat
    BY <1>1, <1>2 DEF Shifted
  <2>2. UnitsMoved(i, e) = 0
    BY <2>1, NothingMoved
  <2> QED BY <1>2, <2>2
<1>3. CASE units # 0
  <2>1. /\ from # to
        /\ \A w \in Wallets : balances'[w] = IF w = from THEN balances[w] - units
                                             ELSE IF w = to THEN balances[w] + units
                                             ELSE balances[w]
    BY <1>3 DEF Shifted
  <2>2. /\ \A w \in Wallets : (gain(w) < 0) = (w = from)
        /\ \A w \in Wallets : (gain(w) > 0) = (w = to)
        /\ gain(to) = units
    BY <1>1, <1>3, <2>1
  <2>3. /\ Senders = IF identityOf[from] = i /\ from \notin agents THEN {from} ELSE {}
        /\ Receivers = IF identityOf[to] = e THEN {to} ELSE {}
    BY <2>2
  <2>4. (CHOOSE w \in {to} : TRUE) = to
    OBVIOUS
  <2>5. UnitsMoved(i, e) = IF Senders = {} \/ Receivers = {} THEN 0
                           ELSE gain(CHOOSE w \in Receivers : TRUE)
    BY DEF UnitsMoved
  <2> HIDE DEF Senders, Receivers, gain
  <2> QED BY <2>2, <2>3, <2>4, <2>5
<1> QED BY <1>2, <1>3

\* A step that moves units between wallets, with the report the modules get.
Reported(from, to, units) ==
  /\ (units = 0 /\ UNCHANGED balances) \/ Shifted(from, to, units)
  /\ Transferred(from, to, units, identityOf)

Unreported ==
  /\ UNCHANGED counterVars
  /\ \/ \A w \in Wallets : balances'[w] >= balances[w] /\ balances'[w] \in Nat
     \/ \A w \in Wallets : balances'[w] <= balances[w] /\ balances'[w] \in Nat

\* A transfer the modules let through, or one that moves nothing.
HolderReported(from, to, amount) ==
  LET units == Transferable(from, amount, Verdict(from, to, amount))
  IN /\ Reported(from, to, units)
     /\ units > 0 => units = Affordable(from, amount) /\ CanTransfer(from, to, units)

LEMMA StillUnreported ==
  ASSUME TypeOK, UNCHANGED balances, UNCHANGED counterVars
  PROVE  Unreported
BY WordAssumption DEF TypeOK, Amount, Unreported

LEMMA HolderReports ==
  ASSUME TypeOK, LedgerInv, ~inflated', RegulatedHolderNext
  PROVE  \/ UNCHANGED balances /\ UNCHANGED counterVars
         \/ \E from, to \in Wallets, amount \in Amount : HolderReported(from, to, amount)
<1>1. PICK w \in Wallets, amount \in Amount :
        \/ \E s \in Spenders :
             /\ \/ Approve(w, s, amount)
                \/ IncreaseAllowance(w, s, amount)
                \/ DecreaseAllowance(w, s, amount)
             /\ Unregulated
        \/ \E to \in Wallets :
             \/ \E s \in Spenders : RegulatedTransferFrom(s, w, to, amount)
             \/ RegulatedTransfer(w, to, amount)
  BY Zenon DEF RegulatedHolderNext
<1>2. ASSUME NEW s \in Spenders, Unregulated,
             \/ Approve(w, s, amount)
             \/ IncreaseAllowance(w, s, amount)
             \/ DecreaseAllowance(w, s, amount)
      PROVE  UNCHANGED balances /\ UNCHANGED counterVars
  BY <1>2 DEF Approve, IncreaseAllowance, DecreaseAllowance, amountVars, Unregulated, moduleVars
<1>3. ASSUME NEW to \in Wallets,
             \/ \E s \in Spenders : RegulatedTransferFrom(s, w, to, amount)
             \/ RegulatedTransfer(w, to, amount)
      PROVE  HolderReported(w, to, amount)
  <2> DEFINE compliant == Verdict(w, to, amount)
             units == Transferable(w, amount, compliant)
  <2>1. MoveUnits(w, to, units) /\ Transferred(w, to, units, identityOf)
    BY <1>3 DEF RegulatedTransferFrom, RegulatedTransfer, TransferFrom, Transfer, Moved
  <2>2. compliant \in BOOLEAN
    BY VerdictIsBoolean DEF Verdict
  <2> HIDE DEF compliant
  <2>3. units \in Amount /\ (~inflated => units <= balances[w])
    BY <2>2, SelectedType, TransferableFits
  <2> HIDE DEF units
  <2>4. Reported(w, to, units)
    BY <2>1, <2>3, MoveShifts DEF Reported
  <2>5. ASSUME units > 0 PROVE units = Affordable(w, amount) /\ CanTransfer(w, to, units)
    <3>1. compliant /\ units = Affordable(w, amount)
      BY <2>2, <2>5 DEF units, Transferable, Affordable, Select
    <3> QED BY <3>1, Zenon DEF compliant, Verdict
  <2> QED BY <2>4, <2>5 DEF HolderReported, units, compliant
<1> QED BY <1>1, <1>2, <1>3, Zenon

LEMMA MintReports ==
  ASSUME TypeOK, LedgerInv, ~inflated', NEW agent \in agents, NEW to \in Wallets,
         NEW amount \in Amount, RegulatedMint(agent, to, amount)
  PROVE  /\ Unreported
         /\ \A w \in Wallets : balances'[w] # balances[w] =>
              w = to /\ CanTransfer(ZeroAddress, to, amount)
<1> DEFINE compliant == CanTransfer(ZeroAddress, to, amount)
           units == Select(compliant, amount, 0)
<1>1. /\ balances' = [balances EXCEPT ![to] = Add(@, units)]
      /\ inflated' = (inflated \/ totalSupply + units >= Word)
      /\ UNCHANGED counterVars
  BY DEF RegulatedMint, Mint, Unregulated, moduleVars
<1>2. units \in Amount /\ units \in Nat /\ (units # 0 => compliant)
  BY AmountClosed DEF Select
<1> HIDE DEF units, compliant
<1>3. ~inflated /\ ~(totalSupply + units >= Word)
  BY <1>1
<1>4. /\ \A w \in Wallets : balances[w] \in Amount /\ balances[w] \in Nat
      /\ totalSupply \in Nat /\ balances[to] <= totalSupply
  BY <1>3, BalancesFit DEF TypeOK
<1>5. Add(balances[to], units) = balances[to] + units
  BY <1>2, <1>3, <1>4, WordAssumption DEF Add, Amount
<1>6. \A w \in Wallets : balances'[w] = IF w = to THEN balances[to] + units ELSE balances[w]
  BY <1>1, <1>5 DEF TypeOK
<1>7. \A w \in Wallets : balances'[w] >= balances[w] /\ balances'[w] \in Nat
  BY <1>2, <1>4, <1>6
<1>8. \A w \in Wallets : balances'[w] # balances[w] => w = to /\ compliant
  BY <1>2, <1>4, <1>6
<1> QED BY <1>1, <1>7, <1>8 DEF Unreported, compliant

LEMMA BurnReports ==
  ASSUME TypeOK, LedgerInv, ~inflated', NEW agent \in agents, NEW v \in Wallets,
         NEW amount \in Amount, RegulatedBurn(agent, v, amount)
  PROVE  Unreported /\ \A w \in Wallets : ~(balances'[w] > balances[w])
<1> DEFINE units == ForcedUnits(v, amount)
<1>1. balances' = [balances EXCEPT ![v] = Sub(@, units)] /\ ~inflated /\ UNCHANGED counterVars
  BY DEF RegulatedBurn, Burn, Unregulated, moduleVars
<1>2. units \in Amount /\ units <= balances[v] /\ balances[v] \in Amount
  BY <1>1, SelectedType, ForcedFrozen DEF TypeOK
<1> HIDE DEF units
<1>3. Sub(balances[v], units) = balances[v] - units
      /\ \A w \in Wallets : balances[w] \in Nat
  BY <1>2, ExactArithmetic, WordAssumption DEF Amount, TypeOK
<1>4. units \in Nat
  BY <1>2, WordAssumption DEF Amount
<1>5. \A w \in Wallets : balances'[w] = IF w = v THEN balances[v] - units ELSE balances[w]
  BY <1>1, <1>3 DEF TypeOK
<1>6. \A w \in Wallets : balances'[w] <= balances[w] /\ balances'[w] \in Nat
  BY <1>2, <1>3, <1>4, <1>5
<1> QED BY <1>1, <1>3, <1>6 DEF Unreported

LEMMA ControlReports ==
  ASSUME \/ ControlNext
         \/ CountryNext
         \/ SettingsNext /\ UNCHANGED vars
         \/ UNCHANGED allVars
  PROVE  UNCHANGED balances /\ UNCHANGED counterVars
<1>1. CASE ControlNext
  BY <1>1 DEF ControlNext, Pause, Unpause, SetAddressFrozen, FreezePartialTokens,
     UnfreezePartialTokens, AddAgent, RemoveAgent, UpdateIdentity, ClaimsChange, amountVars,
     Unregulated, moduleVars
<1>2. CASE CountryNext
  BY <1>2 DEF CountryNext, RegisterInvestor, UpdateCountry, DeleteInvestor, ReplaceRegistry,
     CountryChange, RegisterIdentity, DeleteIdentity, SetIdentityRegistry, amountVars, vars
<1>3. CASE SettingsNext /\ UNCHANGED vars
  <2>1. UNCHANGED counterVars
    BY <1>3 DEF SettingsNext, AddModule, RemoveModule, SetSupplyLimit, AllowUsers, DisallowUsers,
       AllowCountries, DisallowCountries, RestrictCountries, UnrestrictCountries,
       SetExchangeMonthlyLimit, TagMonthlyExchange, TagTimeExchange, SetExchangeLimit, Tick,
       counterVars
  <2> QED BY <1>3, <2>1 DEF vars, amountVars
<1>4. CASE UNCHANGED allVars
  BY <1>4 DEF allVars, vars, amountVars, moduleVars
<1> QED BY <1>1, <1>2, <1>3, <1>4

\* A recovery that leaves every wallet with its identity is one of a wallet
\* with itself: it moves nothing and is counted for no other investor.
LEMMA RecoveryReports ==
  ASSUME TypeOK, LedgerInv, ~inflated', UNCHANGED identityOf, NEW agent \in agents,
         NEW lost \in Wallets, NEW new \in Wallets, NEW id \in Identities,
         RegulatedRecovery(agent, lost, new, id)
  PROVE  /\ UNCHANGED balances
         /\ Transferred(lost, lost, ForcedUnits(lost, balances[lost]),
                        [identityOf EXCEPT ![lost] = id])
<1> DEFINE units == ForcedUnits(lost, balances[lost])
<1>1. /\ MoveUnits(lost, new, units)
      /\ identityOf[new] = NoIdentity
      /\ identityOf' = [[identityOf EXCEPT ![new] = id] EXCEPT ![lost] = NoIdentity]
      /\ Transferred(lost, new, units, [identityOf EXCEPT ![new] = id])
  BY DEF RegulatedRecovery, RecoveryAddress
<1>2. new = lost
  BY <1>1, TokenAssumption DEF TypeOK
<1>3. units \in Amount /\ (~inflated => units <= balances[lost])
  BY SelectedType, ForcedFrozen DEF TypeOK
<1> HIDE DEF units
<1>4. MoveUnits(lost, lost, units)
  BY <1>1, <1>2
<1>5. UNCHANGED balances
  BY <1>3, <1>4, MoveShifts DEF Shifted
<1> QED BY <1>1, <1>2, <1>5 DEF units

LEMMA ForceReports ==
  ASSUME TypeOK, LedgerInv, ~inflated', UNCHANGED identityOf, ForceNext
  PROVE  \/ \E from, to \in Wallets, units \in Amount : Reported(from, to, units)
         \/ /\ UNCHANGED balances
            /\ \E w \in Wallets, id \in Identities, units \in Amount :
                 Transferred(w, w, units, [identityOf EXCEPT ![w] = id])
<1>1. PICK agent \in agents :
        \/ \E from, to \in Wallets, amount \in Amount :
             RegulatedForcedTransfer(agent, from, to, amount)
        \/ \E lost, new \in Wallets, id \in Identities :
             RegulatedRecovery(agent, lost, new, id)
  BY Zenon DEF ForceNext
<1>2. ASSUME NEW from \in Wallets, NEW to \in Wallets, NEW amount \in Amount,
             RegulatedForcedTransfer(agent, from, to, amount)
      PROVE  \E units \in Amount : Reported(from, to, units)
  <2> DEFINE units == ForcedUnits(from, amount)
  <2>1. MoveUnits(from, to, units) /\ Transferred(from, to, units, identityOf)
    BY <1>2 DEF RegulatedForcedTransfer, ForcedTransfer, Moved
  <2>2. units \in Amount /\ (~inflated => units <= balances[from])
    BY SelectedType, ForcedFrozen
  <2> HIDE DEF units
  <2>3. Reported(from, to, units)
    BY <2>1, <2>2, MoveShifts DEF Reported
  <2> QED BY <2>2, <2>3
<1>3. ASSUME NEW lost \in Wallets, NEW new \in Wallets, NEW id \in Identities,
             RegulatedRecovery(agent, lost, new, id)
      PROVE  /\ UNCHANGED balances
             /\ \E units \in Amount :
                  Transferred(lost, lost, units, [identityOf EXCEPT ![lost] = id])
  <2>1. ForcedUnits(lost, balances[lost]) \in Amount
    BY SelectedType DEF TypeOK
  <2>2. /\ UNCHANGED balances
        /\ Transferred(lost, lost, ForcedUnits(lost, balances[lost]),
                       [identityOf EXCEPT ![lost] = id])
    BY <1>3, RecoveryReports
  <2> QED BY <2>1, <2>2, Zenon
<1> QED BY <1>1, <1>2, <1>3, Zenon

LEMMA StepReports ==
  ASSUME TypeOK, LedgerInv, ~inflated', UNCHANGED identityOf, [RegulatedNext]_allVars
  PROVE  \/ Unreported
         \/ \E from, to \in Wallets, units \in Amount : Reported(from, to, units)
         \/ /\ UNCHANGED balances
            /\ \E w \in Wallets, id \in Identities, units \in Amount :
                 Transferred(w, w, units, [identityOf EXCEPT ![w] = id])
<1>1. CASE RegulatedHolderNext
  <2>1. ASSUME NEW from \in Wallets, NEW to \in Wallets, NEW amount \in Amount,
               HolderReported(from, to, amount)
        PROVE  \E units \in Amount : Reported(from, to, units)
    <3>1. Verdict(from, to, amount) \in BOOLEAN
      BY VerdictIsBoolean DEF Verdict
    <3>2. Transferable(from, amount, Verdict(from, to, amount)) \in Amount
      BY <3>1, SelectedType
    <3> QED BY <2>1, <3>2, Zenon DEF HolderReported
  <2>2. UNCHANGED balances /\ UNCHANGED counterVars => Unreported
    BY StillUnreported
  <2> QED BY <1>1, <2>1, <2>2, HolderReports, Zenon
<1>2. CASE ForceNext
  BY <1>2, ForceReports, Zenon
<1>3. CASE SupplyNext
  <2> PICK agent \in agents, w \in Wallets, amount \in Amount :
        RegulatedMint(agent, w, amount) \/ RegulatedBurn(agent, w, amount)
    BY <1>3, Zenon DEF SupplyNext
  <2> QED BY MintReports, BurnReports, Zenon
<1>4. CASE \/ ControlNext \/ CountryNext \/ (SettingsNext /\ UNCHANGED vars)
           \/ UNCHANGED allVars
  BY <1>4, ControlReports, StillUnreported
<1> QED BY <1>1, <1>2, <1>3, <1>4, Zenon DEF RegulatedNext

\* movedBy names the call: an agent forcing a move never passes for a holder.
LEMMA ForceTagged == ForceNext => movedBy' \in AgentMoves
<1> SUFFICES ASSUME ForceNext PROVE movedBy' \in {"forcedTransfer", "recoveryAddress"}
  BY DEF AgentMoves
<1>1. PICK agent \in agents :
        \/ \E from, to \in Wallets, amount \in Amount :
             RegulatedForcedTransfer(agent, from, to, amount)
        \/ \E lost, new \in Wallets, id \in Identities :
             RegulatedRecovery(agent, lost, new, id)
  BY Zenon DEF ForceNext
<1> QED
  BY <1>1, Zenon DEF RegulatedForcedTransfer, ForcedTransfer, RegulatedRecovery, RecoveryAddress

LEMMA SupplyTagged == SupplyNext => movedBy' \in {"mint", "burn"}
<1> SUFFICES ASSUME NEW agent \in agents, NEW w \in Wallets, NEW amount \in Amount,
                    RegulatedMint(agent, w, amount) \/ RegulatedBurn(agent, w, amount)
             PROVE  movedBy' \in {"mint", "burn"}
  BY Zenon DEF SupplyNext
<1> QED BY DEF RegulatedMint, Mint, RegulatedBurn, Burn

\* Whoever gains units without an agent forcing the move satisfies the lists in
\* force: every step that credits a wallet asked the modules for that wallet.
THEOREM ListsAreObeyed == RegulatedSpec => ListsObeyed
<1> DEFINE Inv == TypeOK /\ LedgerInv /\ StorageInv
<1>1. ASSUME Inv, [RegulatedNext]_allVars, ~inflated', movedBy' \notin AgentMoves,
             NEW w \in Wallets, balances'[w] > balances[w]
      PROVE  /\ "CountryAllow" \in rules => countryOf[w] \in allowedCountries
             /\ "CountryRestrict" \in rules => countryOf[w] \notin restrictedCountries
             /\ "TransferRestrict" \in rules =>
                  \/ movedBy' = "mint" /\ ZeroAddress \in allowedUsers
                  \/ \E x \in allowedUsers \cap Wallets : balances'[x] # balances[x]
  <2>1. \A x \in Wallets : balances[x] \in Nat
    BY <1>1, WordAssumption DEF TypeOK, Amount
  <2>2. balances'[w] # balances[w] /\ ~UNCHANGED balances
    BY <1>1, <2>1
  <2>3. ASSUME RegulatedHolderNext
        PROVE  \E from \in Wallets, units \in Amount :
                 CanTransfer(from, w, units) /\ balances'[from] # balances[from]
    <3>1. PICK from \in Wallets, to \in Wallets, amount \in Amount :
            HolderReported(from, to, amount)
      BY <1>1, <2>2, <2>3, HolderReports
    <3> DEFINE units == Transferable(from, amount, Verdict(from, to, amount))
    <3>2. units \in Amount /\ units \in Nat
      <4>1. Verdict(from, to, amount) \in BOOLEAN
        BY VerdictIsBoolean DEF Verdict
      <4> QED BY <1>1, <4>1, SelectedType, WordAssumption DEF Amount
    <3>3. /\ (units = 0 /\ UNCHANGED balances) \/ Shifted(from, to, units)
          /\ units > 0 => CanTransfer(from, to, units)
      BY <3>1, Zenon DEF HolderReported, Reported
    <3> HIDE DEF units
    <3>4. w = to /\ units > 0 /\ balances'[from] # balances[from]
      BY <1>1, <2>1, <2>2, <3>2, <3>3 DEF Shifted
    <3> QED BY <3>2, <3>3, <3>4
  <2>4. ASSUME SupplyNext
        PROVE  movedBy' = "mint" /\ \E units \in Amount : CanTransfer(ZeroAddress, w, units)
    <3>1. PICK agent \in agents, v \in Wallets, amount \in Amount :
            RegulatedMint(agent, v, amount) \/ RegulatedBurn(agent, v, amount)
      BY <2>4, Zenon DEF SupplyNext
    <3>2. ~RegulatedBurn(agent, v, amount)
      BY <1>1, BurnReports
    <3>3. CanTransfer(ZeroAddress, w, amount)
      BY <1>1, <2>2, <3>1, <3>2, MintReports
    <3>4. movedBy' = "mint"
      BY <3>1, <3>2 DEF RegulatedMint, Mint
    <3> QED BY <3>3, <3>4
  <2>5. RegulatedHolderNext \/ SupplyNext
    BY <1>1, <2>2, ForceTagged, ControlReports, Zenon DEF RegulatedNext
  <2>6. PICK from \in Wallets \cup {ZeroAddress}, units \in Amount :
          /\ CanTransfer(from, w, units)
          /\ (from \in Wallets /\ balances'[from] # balances[from])
             \/ (from = ZeroAddress /\ movedBy' = "mint")
    BY <2>3, <2>4, <2>5, ModulesAssumption
  <2>7. /\ "CountryAllow" \in rules => countryOf[w] \in allowedCountries
        /\ "CountryRestrict" \in rules => countryOf[w] \notin restrictedCountries
        /\ "TransferRestrict" \in rules => {from, w} \cap allowedUsers # {}
    BY <2>6, Zenon DEF CanTransfer, TransferRestrictCheck
  <2>8. ASSUME "TransferRestrict" \in rules
        PROVE  \/ movedBy' = "mint" /\ ZeroAddress \in allowedUsers
               \/ \E x \in allowedUsers \cap Wallets : balances'[x] # balances[x]
    BY <2>2, <2>6, <2>7, <2>8
  <2> QED BY <2>7, <2>8
<1>2. RegulatedSpec => []Inv
  BY RegulatedIsToken, TypeCorrect, LedgerInvariant, StorageInvariant, PTL
<1>3. Inv /\ [RegulatedNext]_allVars =>
        [ ~inflated' /\ movedBy' \notin AgentMoves =>
            \A w \in Wallets : balances'[w] > balances[w] =>
              /\ "CountryAllow" \in rules => countryOf[w] \in allowedCountries
              /\ "CountryRestrict" \in rules => countryOf[w] \notin restrictedCountries
              /\ "TransferRestrict" \in rules =>
                   \/ movedBy' = "mint" /\ ZeroAddress \in allowedUsers
                   \/ \E x \in allowedUsers \cap Wallets : balances'[x] # balances[x] ]_allVars
  BY <1>1, Zenon
<1> QED BY <1>2, <1>3, PTL DEF RegulatedSpec, ListsObeyed

\* A counter that nothing was added to, and one that has taken in a move.
LEMMA CountsNothing ==
  ASSUME NEW Times, NEW c \in [count : Amount, timer : Times, wrapped : BOOLEAN], NEW window
  PROVE  CountsMove(c, c, 0, window)
<1>1. c.count \in Amount
  OBVIOUS
<1>2. Add(c.count, 0) = c.count
  BY <1>1, WordAssumption DEF Add, Amount
<1> QED BY <1>1, <1>2 DEF CountsMove

LEMMA CountsUnits ==
  ASSUME NEW Times, NEW c \in [count : Amount, timer : Times, wrapped : BOOLEAN],
         NEW units, NEW window
  PROVE  CountsMove(c, Counted(c, units, window, now), units, window)
<1>1. CASE Finished(c, now)
  BY <1>1 DEF Counted, CountsMove
<1>2. CASE ~Finished(c, now)
  <2> DEFINE after == [c EXCEPT !.count = Add(@, units),
                                !.wrapped = @ \/ c.count + units >= Word]
  <2>1. Counted(c, units, window, now) = after
    BY <1>2 DEF Counted
  <2>2. after.count = Add(c.count, units) /\ after.timer = c.timer
    OBVIOUS
  <2> QED BY <1>2, <2>1, <2>2 DEF CountsMove
<1> QED BY <1>1, <1>2

\* What a report leaves in the counter of exchange e for investor i.
LEMMA MonthlyRecorded ==
  ASSUME ModulesTypeOK, "ExchangeMonthly" \in rules, NEW from \in Wallets, NEW to \in Wallets,
         NEW units \in Amount, NEW ids \in [Wallets -> Investors],
         Transferred(from, to, units, ids),
         NEW e \in monthlyExchanges, NEW i \in Investors
  PROVE  monthlyCount'[e][i] =
           IF ids[to] = e /\ ids[from] = i /\ from \notin agents
           THEN Counted(monthlyCount[e][i], units, Month, now) ELSE monthlyCount[e][i]
<1> DEFINE C == Counter
           after == Counted(monthlyCount[ids[to]][ids[from]], units, Month, now)
<1>1. monthlyCount \in [Identities -> [Investors -> C]] /\ e \in Identities
      /\ ids[from] \in Investors
  BY DEF ModulesTypeOK
<1>2. monthlyCount' =
        IF ids[to] \in monthlyExchanges /\ from \notin agents
        THEN [monthlyCount EXCEPT ![ids[to]][ids[from]] = after]
        ELSE monthlyCount
  BY Zenon DEF Transferred, MonthlyTransferAction
<1>3. CASE ids[to] = e /\ ids[from] = i /\ from \notin agents
  <2>1. after = Counted(monthlyCount[e][i], units, Month, now)
    BY <1>3
  <2> HIDE DEF after
  <2> QED BY <1>1, <1>2, <1>3, <2>1
<1>4. CASE ~(ids[to] = e /\ ids[from] = i /\ from \notin agents)
  <2> HIDE DEF after
  <2> QED BY <1>1, <1>2, <1>4
<1> QED BY <1>3, <1>4

LEMMA TimeRecorded ==
  ASSUME ModulesTypeOK, "TimeExchange" \in rules, NEW from \in Wallets, NEW to \in Wallets,
         NEW units \in Amount, NEW ids \in [Wallets -> Investors],
         Transferred(from, to, units, ids),
         NEW e \in timeExchanges, NEW i \in Investors, NEW l \in Range(timeLimits[e])
  PROVE  /\ l.limitTime \in LimitTimes
         /\ timeCount'[e][i][l.limitTime] =
              IF ids[to] = e /\ ids[from] = i /\ from \notin agents
              THEN Counted(timeCount[e][i][l.limitTime], units, l.limitTime, now)
              ELSE timeCount[e][i][l.limitTime]
<1> DEFINE C == [LimitTimes -> TimeCounter]
           t == l.limitTime
           windows == {k.limitTime : k \in Range(timeLimits[ids[to]])}
           before == timeCount[ids[to]][ids[from]]
           after == [u \in LimitTimes |->
                       IF u \in windows THEN Counted(before[u], units, u, now) ELSE before[u]]
<1>1. timeCount \in [Identities -> [Investors -> C]] /\ e \in Identities
      /\ ids[from] \in Investors
  BY DEF ModulesTypeOK
<1>2. t \in LimitTimes
  <2>1. timeLimits[e] \in Seq(Limit)
    BY <1>1 DEF ModulesTypeOK
  <2>2. l \in Limit
    BY <2>1 DEF Range
  <2> QED BY <2>2 DEF Limit
<1>3. timeCount' =
        IF ids[to] \in timeExchanges /\ from \notin agents
        THEN [timeCount EXCEPT ![ids[to]][ids[from]] = after]
        ELSE timeCount
  BY Zenon DEF Transferred, TimeTransferAction
<1>4. CASE ids[to] = e /\ ids[from] = i /\ from \notin agents
  <2>1. t \in windows /\ before = timeCount[e][i]
    BY <1>4
  <2> HIDE DEF windows, before
  <2>2. after[t] = Counted(timeCount[e][i][t], units, t, now)
    BY <1>2, <2>1
  <2> HIDE DEF after, C, t
  <2>3. timeCount'[e][i] = after
    BY <1>1, <1>3, <1>4
  <2> QED BY <1>2, <1>4, <2>2, <2>3 DEF t
<1>5. CASE ~(ids[to] = e /\ ids[from] = i /\ from \notin agents)
  <2> HIDE DEF after, C, t
  <2>1. timeCount'[e][i] = timeCount[e][i]
    BY <1>1, <1>3, <1>5
  <2> QED BY <1>2, <1>5, <2>1 DEF t
<1> QED BY <1>4, <1>5

\* What one step leaves in a counter, whoever took it.
LEMMA MonthlyStep ==
  ASSUME TypeOK, LedgerInv, StorageInv, [RegulatedNext]_allVars,
         "ExchangeMonthly" \in rules, ~inflated', UNCHANGED identityOf,
         NEW e \in monthlyExchanges, NEW i \in Investors \ {e}
  PROVE  CountsMove(monthlyCount[e][i], monthlyCount'[e][i], UnitsMoved(i, e), Month)
<1> DEFINE Times == 0 .. MaxTime + Month
           c == monthlyCount[e][i]
<1>1. c \in [count : Amount, timer : Times, wrapped : BOOLEAN] /\ e \in Identities
  BY DEF StorageInv, ModulesTypeOK, Counter
<1>3. identityOf \in [Wallets -> Investors] /\ ModulesTypeOK
  BY DEF TypeOK, Investors, StorageInv
<1> HIDE DEF Times
<1>4. CountsMove(c, c, 0, Month)
  BY <1>1, CountsNothing
<1>5. CASE Unreported
  <2>1. monthlyCount' = monthlyCount
    BY <1>5 DEF Unreported, counterVars
  <2>2. UnitsMoved(i, e) = 0
    BY <1>5, NothingMoved DEF Unreported
  <2> QED BY <1>4, <2>1, <2>2
<1>6. ASSUME NEW from \in Wallets, NEW to \in Wallets, NEW units \in Amount,
             Reported(from, to, units)
      PROVE  CountsMove(c, monthlyCount'[e][i], UnitsMoved(i, e), Month)
  <2> DEFINE counted == identityOf[to] = e /\ identityOf[from] = i /\ from \notin agents
  <2>1. UnitsMoved(i, e) = IF counted THEN units ELSE 0
    BY <1>6, MovedUnits DEF Reported
  <2>2. monthlyCount'[e][i] = IF counted THEN Counted(c, units, Month, now) ELSE c
    BY <1>3, <1>6, MonthlyRecorded DEF Reported
  <2>3. CountsMove(c, Counted(c, units, Month, now), units, Month)
    BY <1>1, CountsUnits
  <2> HIDE DEF counted, c
  <2>4. CASE counted
    BY <2>1, <2>2, <2>3, <2>4
  <2>5. CASE ~counted
    BY <1>4, <2>1, <2>2, <2>5
  <2> QED BY <2>4, <2>5
<1>7. ASSUME UNCHANGED balances, NEW w \in Wallets, NEW id \in Identities,
             NEW units \in Amount, Transferred(w, w, units, [identityOf EXCEPT ![w] = id])
      PROVE  monthlyCount'[e][i] = c /\ UnitsMoved(i, e) = 0
  <2> DEFINE ids == [identityOf EXCEPT ![w] = id]
  <2>1. ids \in [Wallets -> Investors] /\ ids[w] = id
    BY <1>3 DEF Investors
  <2> HIDE DEF ids
  <2>2. Transferred(w, w, units, ids)
    BY <1>7 DEF ids
  <2>3. monthlyCount'[e][i] = c
    BY <1>3, <2>1, <2>2, MonthlyRecorded
  <2>4. \A v \in Wallets : balances'[v] >= balances[v] /\ balances'[v] \in Nat
    BY <1>7, WordAssumption DEF TypeOK, Amount
  <2> QED BY <2>3, <2>4, NothingMoved
<1> HIDE DEF c
<1>8. CASE UNCHANGED balances /\ \E w \in Wallets, id \in Identities, units \in Amount :
             Transferred(w, w, units, [identityOf EXCEPT ![w] = id])
  <2>1. monthlyCount'[e][i] = c /\ UnitsMoved(i, e) = 0
    BY <1>7, <1>8, Zenon
  <2> QED BY <1>4, <2>1 DEF c
<1> QED BY <1>5, <1>6, <1>8, StepReports, Zenon DEF c

LEMMA TimeStep ==
  ASSUME TypeOK, LedgerInv, StorageInv, [RegulatedNext]_allVars,
         "TimeExchange" \in rules, ~inflated', UNCHANGED identityOf,
         NEW e \in timeExchanges, NEW i \in Investors \ {e}, NEW l \in Range(timeLimits[e])
  PROVE  CountsMove(timeCount[e][i][l.limitTime], timeCount'[e][i][l.limitTime],
                    UnitsMoved(i, e), l.limitTime)
<1> DEFINE t == l.limitTime
           c == timeCount[e][i][t]
           d == timeCount'[e][i][t]
<1>1. t \in LimitTimes
  <2>1. timeLimits[e] \in Seq(Limit)
    BY DEF StorageInv, ModulesTypeOK
  <2>2. l \in Limit
    BY <2>1 DEF Range
  <2> QED BY <2>2 DEF Limit
<1>2. c \in [count : Amount, timer : Nat, wrapped : BOOLEAN] /\ e \in Identities
  BY <1>1 DEF StorageInv, ModulesTypeOK, TimeCounter
<1>4. identityOf \in [Wallets -> Investors] /\ ModulesTypeOK
  BY DEF TypeOK, Investors, StorageInv
<1> HIDE DEF t
<1>5. CountsMove(c, c, 0, t)
  BY <1>2, CountsNothing
<1>6. CASE Unreported
  <2>1. timeCount' = timeCount
    BY <1>6 DEF Unreported, counterVars
  <2>2. UnitsMoved(i, e) = 0
    BY <1>6, NothingMoved DEF Unreported
  <2> QED BY <1>5, <2>1, <2>2 DEF t
<1>7. ASSUME NEW from \in Wallets, NEW to \in Wallets, NEW units \in Amount,
             Reported(from, to, units)
      PROVE  CountsMove(c, d, UnitsMoved(i, e), t)
  <2> DEFINE counted == identityOf[to] = e /\ identityOf[from] = i /\ from \notin agents
  <2>1. UnitsMoved(i, e) = IF counted THEN units ELSE 0
    BY <1>7, MovedUnits DEF Reported
  <2>2. d = IF counted THEN Counted(c, units, t, now) ELSE c
    BY <1>4, <1>7, TimeRecorded DEF Reported, t
  <2>3. CountsMove(c, Counted(c, units, t, now), units, t)
    BY <1>2, CountsUnits
  <2> HIDE DEF counted, c, d
  <2>4. CASE counted
    BY <2>1, <2>2, <2>3, <2>4
  <2>5. CASE ~counted
    BY <1>5, <2>1, <2>2, <2>5
  <2> QED BY <2>4, <2>5
<1>8. ASSUME UNCHANGED balances, NEW w \in Wallets, NEW id \in Identities,
             NEW units \in Amount, Transferred(w, w, units, [identityOf EXCEPT ![w] = id])
      PROVE  d = c /\ UnitsMoved(i, e) = 0
  <2> DEFINE ids == [identityOf EXCEPT ![w] = id]
  <2>1. ids \in [Wallets -> Investors] /\ ids[w] = id
    BY <1>4 DEF Investors
  <2> HIDE DEF ids
  <2>2. Transferred(w, w, units, ids)
    BY <1>8 DEF ids
  <2>3. d = c
    BY <1>4, <2>1, <2>2, TimeRecorded DEF t
  <2>4. \A v \in Wallets : balances'[v] >= balances[v] /\ balances'[v] \in Nat
    BY <1>8, WordAssumption DEF TypeOK, Amount
  <2> QED BY <2>3, <2>4, NothingMoved
<1> HIDE DEF c, d
<1>9. CASE UNCHANGED balances /\ \E w \in Wallets, id \in Identities, units \in Amount :
             Transferred(w, w, units, [identityOf EXCEPT ![w] = id])
  <2>1. d = c /\ UnitsMoved(i, e) = 0
    BY <1>8, <1>9, Zenon
  <2> QED BY <1>5, <2>1 DEF c, d, t
<1> QED BY <1>6, <1>7, <1>9, StepReports, Zenon DEF c, d, t

\* ExchangeMonthlyLimitsModule counts the units that really arrive from each
\* investor at each exchange, in windows that open only when the last one has
\* closed.
THEOREM MonthlyCounted == RegulatedSpec => MonthlyCountsMoves
<1> DEFINE Inv == TypeOK /\ LedgerInv /\ StorageInv
<1>1. Inv /\ [RegulatedNext]_allVars =>
        [ "ExchangeMonthly" \in rules /\ ~inflated' /\ UNCHANGED <<rules, identityOf>> =>
            \A e \in monthlyExchanges : \A i \in Investors \ {e} :
              CountsMove(monthlyCount[e][i], monthlyCount'[e][i],
                         UnitsMoved(i, e), Month) ]_allVars
  BY MonthlyStep
<1>2. RegulatedSpec => []Inv
  BY RegulatedIsToken, TypeCorrect, LedgerInvariant, StorageInvariant, PTL
<1> QED BY <1>1, <1>2, PTL DEF RegulatedSpec, MonthlyCountsMoves

\* TimeExchangeLimitsModule counts them likewise, in every window an exchange
\* has a limit for.
THEOREM TimeCounted == RegulatedSpec => TimeCountsMoves
<1> DEFINE Inv == TypeOK /\ LedgerInv /\ StorageInv
<1>1. Inv /\ [RegulatedNext]_allVars =>
        [ "TimeExchange" \in rules /\ ~inflated' /\ UNCHANGED <<rules, identityOf>> =>
            \A e \in timeExchanges : \A i \in Investors \ {e} :
              \A l \in Range(timeLimits[e]) :
                CountsMove(timeCount[e][i][l.limitTime], timeCount'[e][i][l.limitTime],
                           UnitsMoved(i, e), l.limitTime) ]_allVars
  BY TimeStep
<1>2. RegulatedSpec => []Inv
  BY RegulatedIsToken, TypeCorrect, LedgerInvariant, StorageInvariant, PTL
<1> QED BY <1>1, <1>2, PTL DEF RegulatedSpec, TimeCountsMoves

\* A checked amount leaves the count within the limit; a count that has wrapped
\* stays wrapped, and then says nothing of what was moved.
LEMMA WithinStays ==
  ASSUME NEW c, NEW units, NEW limit, NEW window, WithinWindow(c, units, limit, now),
         NEW Times, c \in [count : Amount, timer : Times, wrapped : BOOLEAN]
  PROVE  Counted(c, units, window, now).count <= limit
<1>1. CASE Finished(c, now)
  BY <1>1 DEF WithinWindow, Counted
<1>2. CASE ~Finished(c, now)
  <2>1. Counted(c, units, window, now).count = Add(c.count, units)
    BY <1>2 DEF Counted
  <2>2. Add(c.count, units) <= limit
    BY <1>2 DEF WithinWindow
  <2> QED BY <2>1, <2>2
<1> QED BY <1>1, <1>2

\* Only transfer and transferFrom move units in a holder's name.
LEMMA HolderTagged ==
  ASSUME TypeOK, [RegulatedNext]_allVars, movedBy' \in HolderMoves, NEW i, NEW e,
         UnitsMoved(i, e) > 0
  PROVE  RegulatedHolderNext
<1>1. ~UNCHANGED balances
  <2> SUFFICES ASSUME UNCHANGED balances PROVE FALSE
    OBVIOUS
  <2>1. \A v \in Wallets : balances'[v] >= balances[v] /\ balances'[v] \in Nat
    BY WordAssumption DEF TypeOK, Amount
  <2>2. UnitsMoved(i, e) = 0
    BY <2>1, NothingMoved
  <2> QED BY <2>2
<1>2. ~ForceNext /\ ~SupplyNext
  BY ForceTagged, SupplyTagged DEF HolderMoves, AgentMoves
<1> QED BY <1>1, <1>2, ControlReports, Zenon DEF RegulatedNext

\* What a holder sends to an exchange is counted where the check looked: the
\* amount asked about is the amount moved.
LEMMA HolderWithinLimits ==
  ASSUME TypeOK, LedgerInv, StorageInv, RegulatedHolderNext, ~inflated',
         NEW e \in Identities, NEW i \in Investors \ {e}, UnitsMoved(i, e) > 0
  PROVE  /\ "ExchangeMonthly" \in rules /\ e \in monthlyExchanges /\ i \notin monthlyExchanges =>
              monthlyCount'[e][i].count <= MonthlyLimit(e)
         /\ "TimeExchange" \in rules /\ e \in timeExchanges /\ i \notin timeExchanges =>
              \A l \in Range(timeLimits[e]) :
                timeCount'[e][i][l.limitTime].count <= l.limitValue
<1>1. identityOf \in [Wallets -> Investors] /\ ModulesTypeOK
  BY DEF TypeOK, Investors, StorageInv
<1>2. ~(UNCHANGED balances /\ UNCHANGED counterVars)
  <2>1. ASSUME UNCHANGED balances PROVE FALSE
    <3>1. \A v \in Wallets : balances'[v] >= balances[v] /\ balances'[v] \in Nat
      BY <2>1, WordAssumption DEF TypeOK, Amount
    <3>2. UnitsMoved(i, e) = 0
      BY <3>1, NothingMoved
    <3> QED BY <3>2
  <2> QED BY <2>1
<1>3. PICK from \in Wallets, to \in Wallets, amount \in Amount :
        HolderReported(from, to, amount)
  BY <1>2, HolderReports, Zenon
<1> DEFINE units == Transferable(from, amount, Verdict(from, to, amount))
<1>4. units \in Amount
  <2>1. Verdict(from, to, amount) \in BOOLEAN
    BY VerdictIsBoolean DEF Verdict
  <2> QED BY <2>1, SelectedType
<1>5. Reported(from, to, units) /\ (units > 0 => CanTransfer(from, to, units))
  BY <1>3, Zenon DEF HolderReported
<1> HIDE DEF units
<1>6. UnitsMoved(i, e) =
        IF identityOf[from] = i /\ identityOf[to] = e /\ from \notin agents THEN units ELSE 0
  BY <1>4, <1>5, MovedUnits DEF Reported
<1>7. identityOf[from] = i /\ identityOf[to] = e /\ from \notin agents /\ units > 0
  BY <1>6
<1>8. CanTransfer(from, to, units) /\ from # ZeroAddress
  BY <1>5, <1>7, ModulesAssumption
<1>9. ASSUME "ExchangeMonthly" \in rules, e \in monthlyExchanges, i \notin monthlyExchanges
      PROVE  monthlyCount'[e][i].count <= MonthlyLimit(e)
  <2>1. WithinWindow(monthlyCount[e][i], units, MonthlyLimit(e), now)
    BY <1>7, <1>8, <1>9, Zenon DEF CanTransfer, ExchangeMonthlyCheck, ExemptFromLimits
  <2>2. monthlyCount'[e][i] = Counted(monthlyCount[e][i], units, Month, now)
    BY <1>1, <1>4, <1>5, <1>7, <1>9, MonthlyRecorded DEF Reported
  <2>3. monthlyCount[e][i] \in [count : Amount, timer : 0 .. MaxTime + Month, wrapped : BOOLEAN]
    BY DEF StorageInv, ModulesTypeOK, Counter
  <2>4. Counted(monthlyCount[e][i], units, Month, now).count <= MonthlyLimit(e)
    BY <2>1, <2>3, WithinStays
  <2> QED BY <2>2, <2>4
<1>10. ASSUME "TimeExchange" \in rules, e \in timeExchanges, i \notin timeExchanges,
              NEW l \in Range(timeLimits[e])
       PROVE  timeCount'[e][i][l.limitTime].count <= l.limitValue
  <2> DEFINE c == timeCount[e][i][l.limitTime]
  <2>1. WithinWindow(c, units, l.limitValue, now)
    BY <1>7, <1>8, <1>10, Zenon DEF CanTransfer, TimeExchangeCheck, ExemptFromLimits
  <2>2. /\ l.limitTime \in LimitTimes
        /\ timeCount'[e][i][l.limitTime] = Counted(c, units, l.limitTime, now)
    BY <1>1, <1>4, <1>5, <1>7, <1>10, TimeRecorded DEF Reported
  <2>3. c \in [count : Amount, timer : Nat, wrapped : BOOLEAN]
    BY <2>2 DEF StorageInv, ModulesTypeOK, TimeCounter
  <2>4. Counted(c, units, l.limitTime, now).count <= l.limitValue
    BY <2>1, <2>3, WithinStays
  <2> HIDE DEF c
  <2> QED BY <2>2, <2>4
<1> QED BY <1>9, <1>10

\* What a holder sends to an exchange, by either entry point, stays with all that
\* the open window has counted within every limit in force, unless that window's
\* count has wrapped.
THEOREM LimitsHold == RegulatedSpec => ExchangeLimitsHold
<1> DEFINE Inv == TypeOK /\ LedgerInv /\ StorageInv
<1>1. ASSUME Inv, [RegulatedNext]_allVars, movedBy' \in HolderMoves, ~inflated',
             NEW e \in Identities, NEW i \in Investors \ {e}, UnitsMoved(i, e) > 0
      PROVE  /\ "ExchangeMonthly" \in rules /\ e \in monthlyExchanges /\ i \notin monthlyExchanges =>
                  LET c == monthlyCount'[e][i]
                  IN c.wrapped \/ c.count <= MonthlyLimit(e)
             /\ "TimeExchange" \in rules /\ e \in timeExchanges /\ i \notin timeExchanges =>
                  \A l \in Range(timeLimits[e]) :
                    LET c == timeCount'[e][i][l.limitTime]
                    IN c.wrapped \/ c.count <= l.limitValue
  <2>1. RegulatedHolderNext
    BY <1>1, HolderTagged
  <2> QED BY <1>1, <2>1, HolderWithinLimits, Zenon
<1>2. Inv /\ [RegulatedNext]_allVars =>
        [ movedBy' \in HolderMoves /\ ~inflated' =>
            \A e \in Identities : \A i \in Investors \ {e} : UnitsMoved(i, e) > 0 =>
              /\ "ExchangeMonthly" \in rules /\ e \in monthlyExchanges /\ i \notin monthlyExchanges =>
                   LET c == monthlyCount'[e][i]
                   IN c.wrapped \/ c.count <= MonthlyLimit(e)
              /\ "TimeExchange" \in rules /\ e \in timeExchanges /\ i \notin timeExchanges =>
                   \A l \in Range(timeLimits[e]) :
                     LET c == timeCount'[e][i][l.limitTime]
                     IN c.wrapped \/ c.count <= l.limitValue ]_allVars
  BY <1>1, Zenon
<1>3. RegulatedSpec => []Inv
  BY RegulatedIsToken, TypeCorrect, LedgerInvariant, StorageInvariant, PTL
<1> QED BY <1>2, <1>3, PTL DEF RegulatedSpec, ExchangeLimitsHold
=============================================================================
