---------------------------- MODULE TokenProofs ----------------------------
(***************************************************************************)
(* Proofs about Token for every word size, every finite set of wallets and *)
(* every set of agents, spenders and identities.                           *)
(*                                                                         *)
(* The inductive invariant is TypeOK with LedgerInv: as long as no unit    *)
(* has appeared out of nothing, the balances sum up to the supply and      *)
(* cover the frozen amounts.  Its two halves need one another: a debit is  *)
(* exact only if the frozen amount is covered, and a credit is exact only  *)
(* if two balances together fit in the supply.                             *)
(***************************************************************************)
EXTENDS Token, CommonProofs

LedgerInv == FrozenWithinBalance /\ SupplyIsSum

-----------------------------------------------------------------------------
(* Encrypted arithmetic stays within a word. *)

LEMMA AmountClosed ==
  /\ 0 \in Amount
  /\ Amount \subseteq Nat
  /\ \A a, b \in Amount :
       /\ Add(a, b) \in Amount
       /\ Sub(a, b) \in Amount
       /\ ClampedSub(a, b) \in Amount
  /\ \A a, b, c \in Amount : SelectLeSub(a, b, c) \in Amount
BY WordAssumption DEF Amount, Add, Sub, Select, ClampedSub, SelectLeSub

\* Subtractions that do not go below zero and additions that fit are exact.
LEMMA ExactArithmetic ==
  /\ \A a, b \in Amount : b <= a => Sub(a, b) = a - b
  /\ \A a, b \in Amount : a + b < Word => Add(a, b) = a + b
BY WordAssumption DEF Amount, Add, Sub

-----------------------------------------------------------------------------
(* Types. *)

LEMMA InitTypeOK == Init => TypeOK
<1> SUFFICES ASSUME Init PROVE TypeOK
  OBVIOUS
<1>1. /\ balances \in [Wallets -> Amount] /\ frozenTokens \in [Wallets -> Amount]
      /\ allowances \in [Wallets -> [Spenders -> Amount]] /\ totalSupply \in Amount
  BY AmountClosed DEF Init
<1>2. /\ hasBalance \subseteq Wallets /\ frozen \subseteq Wallets
      /\ agents \subseteq AgentAddresses /\ verifiedIds \subseteq Identities
      /\ identityOf \in [Wallets -> Identities \cup {NoIdentity}]
  BY DEF Init
<1>3. paused \in BOOLEAN /\ inflated \in BOOLEAN /\ movedBy \in Moves
  BY DEF Init, Moves
<1> QED BY <1>1, <1>2, <1>3 DEF TypeOK

LEMMA MoveUnitsType ==
  ASSUME TypeOK, NEW from \in Wallets, NEW to \in Wallets,
         NEW units \in Amount, MoveUnits(from, to, units)
  PROVE  /\ balances' \in [Wallets -> Amount]
         /\ hasBalance' \subseteq Wallets
         /\ totalSupply' \in Amount
         /\ inflated' \in BOOLEAN
<1>1. balances' \in [Wallets -> Amount]
  BY AmountClosed DEF TypeOK, MoveUnits, BalancesAfter
<1>2. hasBalance' \subseteq Wallets /\ totalSupply' \in Amount
  BY DEF TypeOK, MoveUnits
<1>3. inflated' \in BOOLEAN
  BY DEF TypeOK, MoveUnits
<1> QED BY <1>1, <1>2, <1>3

\* The amounts the actions select are amounts.
LEMMA SelectedType ==
  ASSUME TypeOK, NEW w \in Wallets, NEW amount \in Amount
  PROVE  /\ \A compliant \in BOOLEAN : Transferable(w, amount, compliant) \in Amount
         /\ ForcedUnits(w, amount) \in Amount
         /\ Shortfall(w, amount) \in Amount
         /\ BurnShortfall(w, amount) \in Amount
         /\ FrozenAfterForce(w, amount) \in [Wallets -> Amount]
<1> USE AmountClosed DEF Select
<1>1. balances[w] \in Amount /\ frozenTokens[w] \in Amount
  BY DEF TypeOK
<1>2. \A compliant \in BOOLEAN : Transferable(w, amount, compliant) \in Amount
  BY <1>1 DEF Transferable
<1>3. ForcedUnits(w, amount) \in Amount
  BY <1>1 DEF ForcedUnits
<1>4. Shortfall(w, amount) \in Amount
  BY <1>1 DEF Shortfall
<1>5. BurnShortfall(w, amount) \in Amount
  BY <1>1 DEF BurnShortfall
<1>6. FrozenAfterForce(w, amount) \in [Wallets -> Amount]
  BY <1>1, <1>4 DEF FrozenAfterForce, TypeOK
<1> QED BY <1>2, <1>3, <1>4, <1>5, <1>6

LEMMA FreezeType ==
  ASSUME NEW bal \in [Wallets -> Amount], NEW frz \in [Wallets -> Amount],
         NEW w \in Wallets, NEW amount \in Amount
  PROVE  FrozenAfterFreeze(bal, frz, w, amount) \in [Wallets -> Amount]
BY AmountClosed DEF FrozenAfterFreeze, Select

\* Nothing outside the amounts has changed, or nothing but the amounts may have.
LEMMA FrameType ==
  ASSUME TypeOK
  PROVE  /\ UNCHANGED amountVars =>
              /\ balances' \in [Wallets -> Amount] /\ hasBalance' \subseteq Wallets
              /\ frozenTokens' \in [Wallets -> Amount] /\ totalSupply' \in Amount
              /\ inflated' \in BOOLEAN /\ movedBy' \in Moves
         /\ UNCHANGED allowances =>
              allowances' \in [Wallets -> [Spenders -> Amount]]
         /\ UNCHANGED accessVars =>
              frozen' \subseteq Wallets /\ paused' \in BOOLEAN /\ agents' \subseteq AgentAddresses
         /\ UNCHANGED registryVars =>
              /\ identityOf' \in [Wallets -> Identities \cup {NoIdentity}]
              /\ verifiedIds' \subseteq Identities
BY DEF TypeOK, amountVars, accessVars, registryVars

LEMMA HolderTypeOK == TypeOK /\ HolderNext => TypeOK'
<1> SUFFICES ASSUME TypeOK, HolderNext PROVE TypeOK'
  OBVIOUS
<1> PICK w \in Wallets, amount \in Amount :
      \/ \E s \in Spenders :
           \/ Approve(w, s, amount)
           \/ IncreaseAllowance(w, s, amount)
           \/ DecreaseAllowance(w, s, amount)
      \/ \E to \in Wallets, compliant \in BOOLEAN :
           \/ \E s \in Spenders : TransferFrom(s, w, to, amount, compliant)
           \/ Transfer(w, to, amount, compliant)
  BY Zenon DEF HolderNext
<1>1. ASSUME NEW s \in Spenders, NEW units \in Amount, Approve(w, s, units)
      PROVE  TypeOK'
  <2>1. allowances' \in [Wallets -> [Spenders -> Amount]]
    BY <1>1 DEF Approve, TypeOK
  <2>2. UNCHANGED amountVars /\ UNCHANGED accessVars /\ UNCHANGED registryVars
    BY <1>1 DEF Approve
  <2> QED BY <2>1, <2>2, FrameType DEF TypeOK
<1>2. ASSUME NEW s \in Spenders,
             IncreaseAllowance(w, s, amount) \/ DecreaseAllowance(w, s, amount)
      PROVE  TypeOK'
  <2>1. allowances[w][s] \in Amount
    BY DEF TypeOK
  <2>2. /\ Add(allowances[w][s], amount) \in Amount
        /\ ClampedSub(allowances[w][s], amount) \in Amount
    BY <2>1, AmountClosed
  <2> QED BY <1>1, <1>2, <2>2 DEF IncreaseAllowance, DecreaseAllowance
<1>3. ASSUME NEW to \in Wallets, NEW compliant \in BOOLEAN,
             Transfer(w, to, amount, compliant)
      PROVE  TypeOK'
  <2>1. /\ MoveUnits(w, to, Transferable(w, amount, compliant))
        /\ UNCHANGED frozenTokens /\ UNCHANGED allowances
        /\ UNCHANGED accessVars /\ UNCHANGED registryVars
    BY <1>3 DEF Transfer
  <2>2. Transferable(w, amount, compliant) \in Amount
    BY SelectedType
  <2>3. frozenTokens' \in [Wallets -> Amount]
    BY <2>1 DEF TypeOK
  <2>4. movedBy' \in Moves
    BY <1>3 DEF Transfer, Moves, HolderMoves, AgentMoves
  <2> QED BY <2>1, <2>2, <2>3, <2>4, MoveUnitsType, FrameType DEF TypeOK
<1>4. ASSUME NEW to \in Wallets, NEW compliant \in BOOLEAN, NEW s \in Spenders,
             TransferFrom(s, w, to, amount, compliant)
      PROVE  TypeOK'
  <2> DEFINE units == Transferable(w, amount, compliant)
  <2>1. /\ MoveUnits(w, to, units)
        /\ allowances' = [allowances EXCEPT ![w][s] = ClampedSub(@, units)]
        /\ UNCHANGED frozenTokens /\ UNCHANGED accessVars /\ UNCHANGED registryVars
    BY <1>4 DEF TransferFrom
  <2>2. units \in Amount
    BY SelectedType
  <2> HIDE DEF units
  <2>3. frozenTokens' \in [Wallets -> Amount]
    BY <2>1 DEF TypeOK
  <2>4. allowances' \in [Wallets -> [Spenders -> Amount]]
    BY <2>1, <2>2, AmountClosed DEF TypeOK
  <2>5. movedBy' \in Moves
    BY <1>4 DEF TransferFrom, Moves, HolderMoves, AgentMoves
  <2> QED BY <2>1, <2>2, <2>3, <2>4, <2>5, MoveUnitsType, FrameType DEF TypeOK
<1> QED BY <1>1, <1>2, <1>3, <1>4

LEMMA AgentTypeOK == TypeOK /\ AgentNext => TypeOK'
<1> SUFFICES ASSUME TypeOK, AgentNext PROVE TypeOK'
  OBVIOUS
<1> PICK agent \in agents :
      \/ Pause(agent)
      \/ Unpause(agent)
      \/ \E w \in Wallets, amount \in Amount :
           \/ \E to \in Wallets : ForcedTransfer(agent, w, to, amount)
           \/ \E compliant \in BOOLEAN : Mint(agent, w, amount, compliant)
           \/ Burn(agent, w, amount)
           \/ FreezePartialTokens(agent, w, amount)
           \/ UnfreezePartialTokens(agent, w, amount)
      \/ \E w \in Wallets, freeze \in BOOLEAN : SetAddressFrozen(agent, w, freeze)
      \/ \E lost, new \in Wallets, id \in Identities :
           RecoveryAddress(agent, lost, new, id)
  BY Zenon DEF AgentNext
<1>1. ASSUME Pause(agent) \/ Unpause(agent)
      PROVE  TypeOK'
  <2>1. /\ paused' \in BOOLEAN /\ UNCHANGED <<frozen, agents>>
        /\ UNCHANGED amountVars /\ UNCHANGED allowances /\ UNCHANGED registryVars
    BY <1>1 DEF Pause, Unpause
  <2>2. frozen' \subseteq Wallets /\ agents' \subseteq AgentAddresses
    BY <2>1 DEF TypeOK
  <2> QED BY <2>1, <2>2, FrameType DEF TypeOK
<1>2. ASSUME NEW w \in Wallets, NEW amount \in Amount, NEW to \in Wallets,
             ForcedTransfer(agent, w, to, amount)
      PROVE  TypeOK'
  <2>1. /\ MoveUnits(w, to, ForcedUnits(w, amount))
        /\ frozenTokens' = FrozenAfterForce(w, amount)
        /\ UNCHANGED allowances /\ UNCHANGED accessVars /\ UNCHANGED registryVars
    BY <1>2 DEF ForcedTransfer
  <2>2. movedBy' \in Moves
    BY <1>2 DEF ForcedTransfer, Moves, HolderMoves, AgentMoves
  <2> QED BY <2>1, <2>2, SelectedType, MoveUnitsType, FrameType DEF TypeOK
<1>3. ASSUME NEW w \in Wallets, NEW amount \in Amount, NEW compliant \in BOOLEAN,
             Mint(agent, w, amount, compliant)
      PROVE  TypeOK'
  <2> DEFINE units == Select(compliant, amount, 0)
  <2>1. units \in Amount
    BY AmountClosed DEF Select
  <2> HIDE DEF units
  <2>2. /\ totalSupply' = Add(totalSupply, units)
        /\ balances' = [balances EXCEPT ![w] = Add(@, units)]
        /\ hasBalance' = hasBalance \cup {w}
        /\ UNCHANGED frozenTokens /\ UNCHANGED allowances
        /\ UNCHANGED accessVars /\ UNCHANGED registryVars
    BY <1>3 DEF Mint, units
  <2>3. totalSupply' \in Amount /\ balances' \in [Wallets -> Amount]
    BY <2>1, <2>2, AmountClosed DEF TypeOK
  <2>4. hasBalance' \subseteq Wallets /\ frozenTokens' \in [Wallets -> Amount]
    BY <2>2 DEF TypeOK
  <2>5. inflated' \in BOOLEAN
    BY <1>3 DEF Mint, TypeOK
  <2>6. movedBy' \in Moves
    BY <1>3 DEF Mint, Moves, HolderMoves, AgentMoves
  <2> QED BY <2>2, <2>3, <2>4, <2>5, <2>6, FrameType DEF TypeOK
<1>4. ASSUME NEW w \in Wallets, NEW amount \in Amount, Burn(agent, w, amount)
      PROVE  TypeOK'
  <2>1. /\ frozenTokens' = [frozenTokens EXCEPT ![w] = Sub(@, BurnShortfall(w, amount))]
        /\ balances' = [balances EXCEPT ![w] = Sub(@, ForcedUnits(w, amount))]
        /\ totalSupply' = Sub(totalSupply, ForcedUnits(w, amount))
        /\ hasBalance' = hasBalance \cup {w}
        /\ UNCHANGED inflated /\ UNCHANGED allowances
        /\ UNCHANGED accessVars /\ UNCHANGED registryVars
    BY <1>4 DEF Burn
  <2>2. /\ totalSupply' \in Amount /\ balances' \in [Wallets -> Amount]
        /\ frozenTokens' \in [Wallets -> Amount]
    BY <2>1, SelectedType, AmountClosed DEF TypeOK
  <2>3. hasBalance' \subseteq Wallets
    BY <2>1 DEF TypeOK
  <2>4. inflated' \in BOOLEAN
    BY <2>1 DEF TypeOK
  <2>5. movedBy' \in Moves
    BY <1>4 DEF Burn, Moves, HolderMoves, AgentMoves
  <2> QED BY <2>1, <2>2, <2>3, <2>4, <2>5, FrameType DEF TypeOK
<1>5. ASSUME NEW w \in Wallets, NEW amount \in Amount,
             FreezePartialTokens(agent, w, amount) \/ UnfreezePartialTokens(agent, w, amount)
      PROVE  TypeOK'
  <2>1. /\ UNCHANGED <<balances, hasBalance, totalSupply, inflated, movedBy>>
        /\ UNCHANGED allowances /\ UNCHANGED accessVars /\ UNCHANGED registryVars
    BY <1>5 DEF FreezePartialTokens, UnfreezePartialTokens
  <2>2. /\ balances' \in [Wallets -> Amount] /\ hasBalance' \subseteq Wallets
        /\ totalSupply' \in Amount /\ inflated' \in BOOLEAN /\ movedBy' \in Moves
    BY <2>1 DEF TypeOK
  <2>3. frozenTokens' \in [Wallets -> Amount]
    <3>1. CASE FreezePartialTokens(agent, w, amount)
      BY <3>1, FreezeType DEF FreezePartialTokens, TypeOK
    <3>2. CASE UnfreezePartialTokens(agent, w, amount)
      BY <3>2, AmountClosed DEF UnfreezePartialTokens, TypeOK, Select
    <3> QED BY <1>5, <3>1, <3>2
  <2> QED BY <2>1, <2>2, <2>3, FrameType DEF TypeOK
<1>6. ASSUME NEW w \in Wallets, NEW freeze \in BOOLEAN, SetAddressFrozen(agent, w, freeze)
      PROVE  TypeOK'
  <2>1. /\ UNCHANGED amountVars /\ UNCHANGED allowances /\ UNCHANGED registryVars
        /\ UNCHANGED <<paused, agents>> /\ frozen' \subseteq Wallets
    BY <1>6 DEF SetAddressFrozen, TypeOK
  <2>2. paused' \in BOOLEAN /\ agents' \subseteq AgentAddresses
    BY <2>1 DEF TypeOK
  <2> QED BY <2>1, <2>2, FrameType DEF TypeOK
<1>7. ASSUME NEW lost \in Wallets, NEW new \in Wallets, NEW id \in Identities,
             RecoveryAddress(agent, lost, new, id)
      PROVE  TypeOK'
  <2> DEFINE units == balances[lost]
             moved == BalancesAfter(lost, new, ForcedUnits(lost, units))
  <2>1. /\ MoveUnits(lost, new, ForcedUnits(lost, units))
        /\ frozenTokens' = FrozenAfterFreeze(moved, FrozenAfterForce(lost, units),
                                             new, frozenTokens[lost])
        /\ frozen' = IF lost \in frozen THEN frozen \cup {new} ELSE frozen
        /\ UNCHANGED allowances /\ UNCHANGED <<paused, agents, verifiedIds>>
    BY <1>7 DEF RecoveryAddress
  <2>2. units \in Amount /\ frozenTokens[lost] \in Amount
    BY DEF TypeOK
  <2>3. moved \in [Wallets -> Amount]
    BY <2>2, SelectedType, AmountClosed DEF BalancesAfter, TypeOK
  <2>4. identityOf' \in [Wallets -> Identities \cup {NoIdentity}]
    BY <1>7 DEF RecoveryAddress, TypeOK
  <2> HIDE DEF units, moved
  <2>5. frozenTokens' \in [Wallets -> Amount]
    BY <2>1, <2>2, <2>3, SelectedType, FreezeType
  <2>6. frozen' \subseteq Wallets
    BY <2>1 DEF TypeOK
  <2>7. paused' \in BOOLEAN /\ agents' \subseteq AgentAddresses /\ verifiedIds' \subseteq Identities
    BY <2>1 DEF TypeOK
  <2>8. /\ balances' \in [Wallets -> Amount] /\ hasBalance' \subseteq Wallets
        /\ totalSupply' \in Amount /\ inflated' \in BOOLEAN
    BY <2>1, <2>2, SelectedType, MoveUnitsType
  <2>9. movedBy' \in Moves
    BY <1>7 DEF RecoveryAddress, Moves, HolderMoves, AgentMoves
  <2> QED BY <2>1, <2>4, <2>5, <2>6, <2>7, <2>8, <2>9, FrameType DEF TypeOK
<1> QED BY <1>1, <1>2, <1>3, <1>4, <1>5, <1>6, <1>7

\* The owner and the registry leave every amount alone.
LEMMA ControlFrame ==
  OwnerNext \/ RegistryNext => UNCHANGED amountVars /\ UNCHANGED allowances
BY DEF OwnerNext, RegistryNext, AddAgent, RemoveAgent, SetIdentityRegistry,
       RegisterIdentity, UpdateIdentity, DeleteIdentity, ClaimsChange

LEMMA ControlTypeOK == TypeOK /\ (OwnerNext \/ RegistryNext) => TypeOK'
<1> SUFFICES ASSUME TypeOK, OwnerNext \/ RegistryNext PROVE TypeOK'
  OBVIOUS
<1>1. /\ paused' \in BOOLEAN /\ frozen' \subseteq Wallets /\ agents' \subseteq AgentAddresses
      /\ identityOf' \in [Wallets -> Identities \cup {NoIdentity}]
      /\ verifiedIds' \subseteq Identities
  BY DEF TypeOK, OwnerNext, RegistryNext, AddAgent, RemoveAgent, SetIdentityRegistry,
         RegisterIdentity, UpdateIdentity, DeleteIdentity, ClaimsChange,
         accessVars, registryVars
<1> QED BY <1>1, ControlFrame, FrameType DEF TypeOK

LEMMA NextTypeOK == TypeOK /\ [Next]_vars => TypeOK'
<1>1. TypeOK /\ UNCHANGED vars => TypeOK'
  BY DEF TypeOK, vars, amountVars, accessVars, registryVars
<1> QED BY <1>1, HolderTypeOK, AgentTypeOK, ControlTypeOK DEF Next

\* Every variable keeps its type: encrypted amounts stay within a word.
THEOREM TypeCorrect == Spec => []TypeOK
BY InitTypeOK, NextTypeOK, PTL DEF Spec

-----------------------------------------------------------------------------
(* Every step of the token is a step of the abstract ledger. *)

\* While no unit has appeared out of nothing, two wallets fit in one word.
LEMMA BalancesFit ==
  ASSUME TypeOK, LedgerInv, ~inflated
  PROVE  /\ totalSupply \in Nat /\ totalSupply < Word
         /\ \A w \in Wallets : /\ balances[w] \in Nat /\ frozenTokens[w] \in Nat
                               /\ frozenTokens[w] <= balances[w]
                               /\ balances[w] <= totalSupply
         /\ \A v, w \in Wallets : v # w => balances[v] + balances[w] <= totalSupply
<1>1. IsFiniteSet(Wallets) /\ balances \in [Wallets -> Nat]
  BY TokenAssumption, WordAssumption DEF TypeOK, Amount
<1>2. SumOf(balances) = totalSupply
  BY DEF LedgerInv, SupplyIsSum
<1>3. totalSupply \in Nat /\ totalSupply < Word
  BY WordAssumption DEF TypeOK, Amount
<1>4. \A w \in Wallets : balances[w] <= totalSupply
  BY <1>1, <1>2, SumBound
<1>5. \A v, w \in Wallets : v # w => balances[v] + balances[w] <= totalSupply
  BY <1>1, <1>2, SumBounds
<1>6. \A w \in Wallets : balances[w] \in Nat /\ frozenTokens[w] \in Nat
  BY WordAssumption DEF TypeOK, Amount
<1>7. \A w \in Wallets : frozenTokens[w] <= balances[w]
  BY DEF LedgerInv, FrozenWithinBalance
<1> QED BY <1>3, <1>4, <1>5, <1>6, <1>7

\* A debit of the sender and a credit of the receiver are exact.
LEMMA ExactMove ==
  ASSUME TypeOK, LedgerInv, ~inflated,
         NEW from \in Wallets, NEW to \in Wallets, from # to,
         NEW units \in Amount, units <= balances[from]
  PROVE  BalancesAfter(from, to, units)
           = [balances EXCEPT ![from] = @ - units, ![to] = @ + units]
<1>1. balances[from] \in Amount /\ balances[to] \in Amount
  BY DEF TypeOK
<1>2. balances[from] + balances[to] < Word
  BY BalancesFit, WordAssumption
<1>3. balances[to] + units < Word
  BY <1>1, <1>2, WordAssumption DEF Amount
<1>4. /\ Sub(balances[from], units) = balances[from] - units
      /\ Add(balances[to], units) = balances[to] + units
  BY <1>1, <1>3, ExactArithmetic
<1> QED BY <1>4 DEF BalancesAfter, TypeOK

\* A transfer that fits the sender's balance and keeps as much frozen as it can
\* moves units on the ledger, or does nothing, or inflates the supply.
LEMMA MoveStep ==
  ASSUME TypeOK, LedgerInv,
         NEW from \in Wallets, NEW to \in Wallets, NEW units \in Amount,
         ~inflated => units <= balances[from],
         ~inflated => Ledger!KeepFrozen(from, balances[from] - units),
         MoveUnits(from, to, units)
  PROVE  [Ledger!Next]_(Ledger!vars)
<1>1. CASE inflated'
  BY <1>1 DEF Ledger!Next, Ledger!Inflate
<1>2. CASE ~inflated'
  <2>1. /\ ~inflated /\ ~(from = to /\ units # 0)
        /\ balances' = BalancesAfter(from, to, units)
        /\ UNCHANGED totalSupply
    BY <1>2 DEF MoveUnits
  <2>2. UNCHANGED inflated
    <3>1. inflated \in BOOLEAN /\ inflated' \in BOOLEAN
      BY MoveUnitsType DEF TypeOK
    <3> QED BY <1>2, <2>1, <3>1
  <2>3. CASE from # to
    <3>1. Ledger!Move(from, to, units)
      BY <2>1, <2>2, <2>3, ExactMove DEF Ledger!Move
    <3>2. units \in 0 .. (Word - 1)
      BY DEF Amount
    <3> QED BY <3>1, <3>2 DEF Ledger!Next
  <2>4. CASE from = to
    <3>1. units = 0 /\ balances[from] \in Amount /\ frozenTokens[from] \in Amount
      BY <2>1, <2>4 DEF TypeOK
    <3>2. Sub(balances[from], 0) = balances[from] /\ Add(balances[from], 0) = balances[from]
      BY <3>1, WordAssumption DEF Amount, Add, Sub
    <3>3. UNCHANGED balances
      BY <2>1, <2>4, <3>1, <3>2 DEF BalancesAfter, TypeOK
    <3>4. frozenTokens[from] <= balances[from] - 0
      BY <2>1, <3>1, WordAssumption DEF LedgerInv, FrozenWithinBalance, Amount
    <3>5. UNCHANGED frozenTokens
      BY <2>1, <3>1, <3>4 DEF Ledger!KeepFrozen, Ledger!Smaller, TypeOK
    <3> QED BY <2>1, <2>2, <3>3, <3>5 DEF Ledger!vars
  <2> QED BY <2>3, <2>4
<1> QED BY <1>1, <1>2

\* A holder's transfer stays within the free part of the balance.
LEMMA TransferableFits ==
  ASSUME TypeOK, LedgerInv, ~inflated, NEW from \in Wallets, NEW amount \in Amount,
         NEW compliant \in BOOLEAN
  PROVE  /\ Transferable(from, amount, compliant) <= balances[from]
         /\ frozenTokens[from] <= balances[from] - Transferable(from, amount, compliant)
<1> DEFINE units == Transferable(from, amount, compliant)
<1>1. units \in Amount
  BY SelectedType
<1>2. /\ balances[from] \in Amount /\ frozenTokens[from] \in Amount
      /\ frozenTokens[from] <= balances[from]
  BY DEF TypeOK, LedgerInv, FrozenWithinBalance
<1>3. Sub(balances[from], frozenTokens[from]) = balances[from] - frozenTokens[from]
  BY <1>2, ExactArithmetic
<1>4. units <= balances[from] - frozenTokens[from]
  BY <1>2, <1>3, WordAssumption DEF Transferable, SelectLeSub, Select, Amount
<1>5. frozenTokens[from] <= balances[from] - units /\ units <= balances[from]
  BY <1>1, <1>2, <1>4, WordAssumption DEF Amount
<1> QED BY <1>5

LEMMA TransferStep ==
  ASSUME TypeOK, LedgerInv,
         NEW from \in Wallets, NEW to \in Wallets, NEW amount \in Amount,
         NEW compliant \in BOOLEAN,
         MoveUnits(from, to, Transferable(from, amount, compliant)),
         UNCHANGED frozenTokens
  PROVE  [Ledger!Next]_(Ledger!vars)
<1> DEFINE units == Transferable(from, amount, compliant)
<1>1. units \in Amount
  BY SelectedType
<1>2. ASSUME ~inflated
      PROVE  /\ units <= balances[from]
             /\ Ledger!KeepFrozen(from, balances[from] - units)
  <2>1. units <= balances[from] /\ frozenTokens[from] <= balances[from] - units
    BY <1>2, TransferableFits
  <2> HIDE DEF units
  <2>2. Ledger!KeepFrozen(from, balances[from] - units)
    BY <2>1 DEF Ledger!KeepFrozen, Ledger!Smaller, TypeOK
  <2> QED BY <2>1, <2>2
<1> QED BY <1>1, <1>2, MoveStep

\* The shortfall forcedTransfer unfreezes is exactly what the debit needs.
LEMMA ForcedFrozen ==
  ASSUME TypeOK, LedgerInv, ~inflated, NEW w \in Wallets, NEW amount \in Amount
  PROVE  /\ ForcedUnits(w, amount) <= balances[w]
         /\ FrozenAfterForce(w, amount)
              = [frozenTokens EXCEPT ![w] =
                   Ledger!Smaller(@, balances[w] - ForcedUnits(w, amount))]
         /\ Sub(frozenTokens[w], BurnShortfall(w, amount))
              = Ledger!Smaller(frozenTokens[w], balances[w] - ForcedUnits(w, amount))
<1> DEFINE b == balances[w]
           f == frozenTokens[w]
<1>1. b \in Amount /\ f \in Amount /\ f <= b
  BY DEF TypeOK, LedgerInv, FrozenWithinBalance
<1>2. Sub(b, f) = b - f
  BY <1>1, ExactArithmetic
<1>3. ForcedUnits(w, amount) <= b
  BY <1>1, WordAssumption DEF ForcedUnits, Select, Amount
<1>4. Sub(f, Shortfall(w, amount)) = Ledger!Smaller(f, b - ForcedUnits(w, amount))
  BY <1>1, <1>2, WordAssumption
     DEF Shortfall, ForcedUnits, Select, Amount, Ledger!Smaller, Sub
<1>5. Sub(f, BurnShortfall(w, amount)) = Ledger!Smaller(f, b - ForcedUnits(w, amount))
  BY <1>1, WordAssumption
     DEF BurnShortfall, ForcedUnits, Select, Amount, Ledger!Smaller, Sub
<1> QED BY <1>3, <1>4, <1>5 DEF FrozenAfterForce

\* A transfer credits nobody but its receiver and debits nobody but its sender.
LEMMA DebitCredit ==
  ASSUME TypeOK, LedgerInv, ~inflated', NEW from \in Wallets, NEW to \in Wallets,
         NEW units \in Amount, ~inflated => units <= balances[from],
         MoveUnits(from, to, units)
  PROVE  /\ ~inflated
         /\ \A w \in Wallets :
              /\ balances'[w] > balances[w] => w = to
              /\ balances'[w] < balances[w] =>
                   w = from /\ balances'[w] = balances[w] - units
<1>1. ~inflated /\ (from = to => units = 0) /\ balances' = BalancesAfter(from, to, units)
  BY DEF MoveUnits
<1>2. \A w \in Wallets : balances[w] \in Nat
  BY WordAssumption DEF TypeOK, Amount
<1>3. CASE from # to
  <2>1. balances' = [balances EXCEPT ![from] = @ - units, ![to] = @ + units]
    BY <1>1, <1>3, ExactMove
  <2>2. /\ balances'[from] = balances[from] - units
        /\ balances'[to] = balances[to] + units
        /\ \A w \in Wallets \ {from, to} : balances'[w] = balances[w]
    BY <1>3, <2>1 DEF TypeOK
  <2>3. units \in Nat
    BY WordAssumption DEF Amount
  <2> QED BY <1>1, <1>2, <2>2, <2>3
<1>4. CASE from = to
  <2>1. units = 0
    BY <1>1, <1>4
  <2>2. /\ Sub(balances[from], 0) = balances[from]
        /\ Add(balances[from], 0) = balances[from]
    BY WordAssumption DEF TypeOK, Amount, Add, Sub
  <2>3. balances' = balances
    BY <1>1, <1>4, <2>1, <2>2 DEF BalancesAfter, TypeOK
  <2> QED BY <1>1, <1>2, <2>3
<1> QED BY <1>3, <1>4

LEMMA HolderStep == TypeOK /\ LedgerInv /\ HolderNext => [Ledger!Next]_(Ledger!vars)
<1> SUFFICES ASSUME TypeOK, LedgerInv, HolderNext PROVE [Ledger!Next]_(Ledger!vars)
  OBVIOUS
<1> PICK w \in Wallets, amount \in Amount :
      \/ \E s \in Spenders :
           \/ Approve(w, s, amount)
           \/ IncreaseAllowance(w, s, amount)
           \/ DecreaseAllowance(w, s, amount)
      \/ \E to \in Wallets, compliant \in BOOLEAN :
           \/ \E s \in Spenders : TransferFrom(s, w, to, amount, compliant)
           \/ Transfer(w, to, amount, compliant)
  BY Zenon DEF HolderNext
<1>1. ASSUME NEW s \in Spenders,
             \/ Approve(w, s, amount)
             \/ IncreaseAllowance(w, s, amount)
             \/ DecreaseAllowance(w, s, amount)
      PROVE  UNCHANGED (Ledger!vars)
  BY <1>1 DEF Approve, IncreaseAllowance, DecreaseAllowance, amountVars, Ledger!vars
<1>2. ASSUME NEW to \in Wallets, NEW compliant \in BOOLEAN,
             \/ \E s \in Spenders : TransferFrom(s, w, to, amount, compliant)
             \/ Transfer(w, to, amount, compliant)
      PROVE  [Ledger!Next]_(Ledger!vars)
  <2>1. /\ MoveUnits(w, to, Transferable(w, amount, compliant))
        /\ UNCHANGED frozenTokens
    BY <1>2 DEF Transfer, TransferFrom
  <2> QED BY <2>1, TransferStep
<1> QED BY <1>1, <1>2

LEMMA ForcedStep ==
  ASSUME TypeOK, LedgerInv, NEW from \in Wallets, NEW to \in Wallets,
         NEW amount \in Amount,
         MoveUnits(from, to, ForcedUnits(from, amount)),
         frozenTokens' = FrozenAfterForce(from, amount)
  PROVE  [Ledger!Next]_(Ledger!vars)
<1>1. ForcedUnits(from, amount) \in Amount
  BY SelectedType
<1>2. ~inflated => /\ ForcedUnits(from, amount) <= balances[from]
                   /\ Ledger!KeepFrozen(from, balances[from] - ForcedUnits(from, amount))
  BY ForcedFrozen DEF Ledger!KeepFrozen
<1> QED BY <1>1, <1>2, MoveStep

LEMMA MintStep ==
  ASSUME TypeOK, LedgerInv, NEW agent \in agents, NEW to \in Wallets,
         NEW amount \in Amount, NEW compliant \in BOOLEAN,
         Mint(agent, to, amount, compliant)
  PROVE  [Ledger!Next]_(Ledger!vars)
<1> DEFINE units == Select(compliant, amount, 0)
<1>1. /\ totalSupply' = Add(totalSupply, units)
      /\ balances' = [balances EXCEPT ![to] = Add(@, units)]
      /\ inflated' = (inflated \/ totalSupply + units >= Word)
      /\ UNCHANGED frozenTokens
  BY DEF Mint
<1>2. units \in Amount
  BY AmountClosed DEF Select
<1> HIDE DEF units
<1>3. CASE inflated'
  BY <1>3 DEF Ledger!Next, Ledger!Inflate
<1>4. CASE ~inflated'
  <2>1. ~inflated /\ ~(totalSupply + units >= Word)
    BY <1>1, <1>4
  <2>2. UNCHANGED inflated
    <3>1. inflated \in BOOLEAN /\ inflated' \in BOOLEAN
      BY <1>1 DEF TypeOK
    <3> QED BY <1>4, <2>1, <3>1
  <2>3. /\ balances[to] \in Amount /\ totalSupply \in Amount
        /\ balances[to] <= totalSupply
    BY <2>1, BalancesFit DEF TypeOK
  <2>4. /\ Add(totalSupply, units) = totalSupply + units
        /\ Add(balances[to], units) = balances[to] + units
        /\ totalSupply + units <= Word - 1
    BY <1>2, <2>1, <2>3, WordAssumption DEF Add, Amount
  <2>5. Ledger!Issue(to, units)
    BY <1>1, <2>2, <2>4 DEF Ledger!Issue, TypeOK
  <2>6. units \in 0 .. (Word - 1)
    BY <1>2 DEF Amount
  <2> QED BY <2>5, <2>6 DEF Ledger!Next
<1> QED BY <1>3, <1>4

LEMMA BurnStep ==
  ASSUME TypeOK, LedgerInv, NEW agent \in agents, NEW w \in Wallets,
         NEW amount \in Amount, Burn(agent, w, amount)
  PROVE  [Ledger!Next]_(Ledger!vars)
<1> DEFINE units == ForcedUnits(w, amount)
<1>1. /\ frozenTokens' = [frozenTokens EXCEPT ![w] = Sub(@, BurnShortfall(w, amount))]
      /\ balances' = [balances EXCEPT ![w] = Sub(@, units)]
      /\ totalSupply' = Sub(totalSupply, units)
      /\ UNCHANGED inflated
  BY DEF Burn
<1>2. units \in Amount
  BY SelectedType
<1>3. CASE inflated
  BY <1>1, <1>3 DEF Ledger!Next, Ledger!Inflate, TypeOK
<1>4. CASE ~inflated
  <2>1. /\ balances[w] \in Amount /\ totalSupply \in Amount
        /\ balances[w] <= totalSupply
    BY <1>4, BalancesFit DEF TypeOK
  <2>2. units <= balances[w]
    BY <1>4, ForcedFrozen
  <2>3. Ledger!KeepFrozen(w, balances[w] - units)
    <3>1. Sub(frozenTokens[w], BurnShortfall(w, amount))
            = Ledger!Smaller(frozenTokens[w], balances[w] - units)
      BY <1>4, ForcedFrozen
    <3> QED BY <1>1, <3>1 DEF Ledger!KeepFrozen
  <2> HIDE DEF units
  <2>4. /\ Sub(balances[w], units) = balances[w] - units
        /\ Sub(totalSupply, units) = totalSupply - units
    BY <1>2, <2>1, <2>2, WordAssumption DEF Sub, Amount
  <2>5. Ledger!Redeem(w, units)
    BY <1>1, <2>2, <2>3, <2>4 DEF Ledger!Redeem, TypeOK
  <2>6. units \in 0 .. (Word - 1)
    BY <1>2 DEF Amount
  <2> QED BY <2>5, <2>6 DEF Ledger!Next
<1> QED BY <1>3, <1>4

LEMMA RestrictStep ==
  ASSUME TypeOK, LedgerInv, NEW agent \in agents, NEW w \in Wallets,
         NEW amount \in Amount,
         FreezePartialTokens(agent, w, amount) \/ UnfreezePartialTokens(agent, w, amount)
  PROVE  [Ledger!Next]_(Ledger!vars)
<1>1. UNCHANGED <<balances, totalSupply, inflated>>
  BY DEF FreezePartialTokens, UnfreezePartialTokens
<1>2. CASE inflated
  BY <1>1, <1>2 DEF Ledger!Next, Ledger!Inflate
<1>3. CASE ~inflated
  <2>1. /\ balances[w] \in Amount /\ frozenTokens[w] \in Amount
        /\ frozenTokens[w] <= balances[w]
    BY <1>3 DEF TypeOK, LedgerInv, FrozenWithinBalance
  <2>2. \E x \in Amount : /\ x <= balances[w]
                          /\ frozenTokens' = [frozenTokens EXCEPT ![w] = x]
    <3>1. CASE FreezePartialTokens(agent, w, amount)
      <4> DEFINE x == Select(balances[w] >= Add(frozenTokens[w], amount),
                             Add(frozenTokens[w], amount), frozenTokens[w])
      <4>1. x \in Amount /\ x <= balances[w]
        BY <2>1, AmountClosed DEF Select
      <4>2. frozenTokens' = [frozenTokens EXCEPT ![w] = x]
        BY <3>1 DEF FreezePartialTokens, FrozenAfterFreeze
      <4> QED BY <4>1, <4>2
    <3>2. CASE UnfreezePartialTokens(agent, w, amount)
      <4> DEFINE x == Sub(frozenTokens[w], Select(frozenTokens[w] >= amount, amount, 0))
      <4>1. x \in Amount /\ x <= balances[w]
        BY <2>1, WordAssumption DEF Select, Sub, Amount
      <4>2. frozenTokens' = [frozenTokens EXCEPT ![w] = x]
        BY <3>2 DEF UnfreezePartialTokens
      <4> QED BY <4>1, <4>2
    <3> QED BY <3>1, <3>2
  <2>3. PICK x \in Amount : /\ x <= balances[w]
                            /\ frozenTokens' = [frozenTokens EXCEPT ![w] = x]
    BY <2>2
  <2>4. Ledger!Restrict(w, x)
    BY <1>1, <2>3 DEF Ledger!Restrict
  <2>5. x \in 0 .. (Word - 1)
    BY DEF Amount
  <2> QED BY <2>4, <2>5 DEF Ledger!Next
<1> QED BY <1>2, <1>3

\* Recovery of another wallet moves everything, the frozen units included.
LEMMA RecoveryAmounts ==
  ASSUME TypeOK, LedgerInv, ~inflated, NEW agent \in agents,
         NEW lost \in Wallets, NEW new \in Wallets, NEW id \in Identities,
         lost # new, RecoveryAddress(agent, lost, new, id)
  PROVE  /\ balances' = [balances EXCEPT ![lost] = 0, ![new] = @ + balances[lost]]
         /\ frozenTokens' =
              [frozenTokens EXCEPT ![lost] = 0, ![new] = @ + frozenTokens[lost]]
         /\ UNCHANGED totalSupply /\ ~inflated' /\ UNCHANGED inflated
<1> DEFINE b == balances[lost]
           f == frozenTokens[lost]
           moved == BalancesAfter(lost, new, ForcedUnits(lost, b))
           left == FrozenAfterForce(lost, b)
<1>1. /\ b \in Amount /\ f \in Amount /\ f <= b
      /\ balances[new] \in Amount /\ frozenTokens[new] \in Amount
      /\ frozenTokens[new] <= balances[new]
      /\ b + balances[new] < Word
  <2>1. /\ b \in Amount /\ f \in Amount
        /\ balances[new] \in Amount /\ frozenTokens[new] \in Amount
    BY DEF TypeOK
  <2>2. /\ f <= b /\ frozenTokens[new] <= balances[new]
        /\ b + balances[new] <= totalSupply
        /\ totalSupply \in Nat /\ totalSupply < Word
    BY BalancesFit
  <2> HIDE DEF b, f
  <2>3. b + balances[new] < Word
    BY <2>1, <2>2, WordAssumption DEF Amount
  <2> QED BY <2>1, <2>2, <2>3
<1>2. ForcedUnits(lost, b) = b
  BY <1>1, WordAssumption DEF ForcedUnits, Select, Amount
<1>3. moved = [balances EXCEPT ![lost] = 0, ![new] = @ + b]
  <2>1. moved = [balances EXCEPT ![lost] = @ - b, ![new] = @ + b]
    <3>1. b <= balances[lost]
      BY <1>1, WordAssumption DEF Amount
    <3>2. BalancesAfter(lost, new, b) = [balances EXCEPT ![lost] = @ - b, ![new] = @ + b]
      BY <1>1, <3>1, ExactMove
    <3> HIDE DEF b
    <3> QED BY <1>2, <3>2
  <2>2. balances[lost] - b = 0
    BY <1>1, WordAssumption DEF Amount
  <2> QED BY <2>1, <2>2
<1>4. left = [frozenTokens EXCEPT ![lost] = 0]
  <2>1. left = [frozenTokens EXCEPT ![lost] = Ledger!Smaller(@, b - b)]
    BY <1>1, <1>2, ForcedFrozen
  <2>2. Ledger!Smaller(f, b - b) = 0
    BY <1>1, WordAssumption DEF Ledger!Smaller, Amount
  <2> QED BY <2>1, <2>2
<1>5. /\ MoveUnits(lost, new, ForcedUnits(lost, b))
      /\ frozenTokens' = FrozenAfterFreeze(moved, left, new, f)
  BY DEF RecoveryAddress
<1>6. /\ balances' = moved /\ UNCHANGED totalSupply
      /\ inflated' = (inflated \/ (lost = new /\ ForcedUnits(lost, b) # 0))
  BY <1>5 DEF MoveUnits
<1>7. Add(frozenTokens[new], f) = frozenTokens[new] + f
  BY <1>1, WordAssumption DEF Add, Amount
<1>8. moved[new] >= frozenTokens[new] + f
  <2>1. moved[new] = balances[new] + b
    BY <1>3 DEF TypeOK
  <2> HIDE DEF moved
  <2> QED BY <1>1, <2>1, WordAssumption DEF Amount
<1>9. left[new] = frozenTokens[new]
  BY <1>4 DEF TypeOK
<1>10. FrozenAfterFreeze(moved, left, new, f)
         = [left EXCEPT ![new] = frozenTokens[new] + f]
  <2> HIDE DEF moved, left, f
  <2>1. Add(left[new], f) = frozenTokens[new] + f
    BY <1>7, <1>9
  <2>2. moved[new] >= Add(left[new], f)
    BY <1>8, <2>1
  <2> QED BY <2>1, <2>2 DEF FrozenAfterFreeze, Select
<1>11. frozenTokens' = [frozenTokens EXCEPT ![lost] = 0, ![new] = @ + f]
  BY <1>4, <1>5, <1>10 DEF TypeOK
<1>12. ~inflated' /\ UNCHANGED inflated
  BY <1>6 DEF TypeOK
<1> QED BY <1>3, <1>6, <1>11, <1>12

LEMMA RecoveryStep ==
  ASSUME TypeOK, LedgerInv, NEW agent \in agents,
         NEW lost \in Wallets, NEW new \in Wallets, NEW id \in Identities,
         RecoveryAddress(agent, lost, new, id)
  PROVE  [Ledger!Next]_(Ledger!vars)
<1> DEFINE units == ForcedUnits(lost, balances[lost])
<1>1. /\ MoveUnits(lost, new, units)
      /\ frozenTokens' = FrozenAfterFreeze(BalancesAfter(lost, new, units),
                                           FrozenAfterForce(lost, balances[lost]),
                                           new, frozenTokens[lost])
  BY DEF RecoveryAddress
<1>2. CASE inflated'
  BY <1>2 DEF Ledger!Next, Ledger!Inflate
<1>3. CASE ~inflated' /\ lost # new
  <2>1. ~inflated
    BY <1>1, <1>3 DEF MoveUnits
  <2>2. Ledger!MoveAll(lost, new)
    BY <1>3, <2>1, RecoveryAmounts DEF Ledger!MoveAll
  <2> QED BY <2>2 DEF Ledger!Next
<1>4. CASE ~inflated' /\ lost = new
  <2> DEFINE b == balances[lost]
             f == frozenTokens[lost]
  <2>1. ~inflated /\ units = 0 /\ UNCHANGED totalSupply
    BY <1>1, <1>4 DEF MoveUnits
  <2>2. b \in Amount /\ f \in Amount /\ f <= b
    BY <2>1 DEF TypeOK, LedgerInv, FrozenWithinBalance
  <2>3. b = 0 /\ f = 0
    BY <2>1, <2>2, WordAssumption DEF ForcedUnits, Select, Amount
  <2>4. BalancesAfter(lost, new, units) = balances
    <3> HIDE DEF units
    <3>1. Sub(0, 0) = 0 /\ Add(0, 0) = 0
      BY WordAssumption DEF Sub, Add
    <3> QED BY <1>4, <2>1, <2>3, <3>1 DEF BalancesAfter, TypeOK
  <2>5. FrozenAfterForce(lost, balances[lost]) = frozenTokens
    <3>1. Shortfall(lost, 0) = 0 /\ Sub(0, 0) = 0
      BY <2>3, WordAssumption DEF Shortfall, Select, Sub
    <3> QED BY <2>3, <3>1 DEF FrozenAfterForce, TypeOK
  <2>6. FrozenAfterFreeze(balances, frozenTokens, new, 0) = frozenTokens
    <3>1. Add(0, 0) = 0
      BY WordAssumption DEF Add
    <3> QED BY <1>4, <2>3, <3>1 DEF FrozenAfterFreeze, Select, TypeOK
  <2>7. UNCHANGED frozenTokens
    BY <1>1, <2>3, <2>4, <2>5, <2>6
  <2>8. UNCHANGED balances
    BY <1>1, <2>4 DEF MoveUnits
  <2>9. UNCHANGED inflated
    BY <1>1, <2>1 DEF MoveUnits, TypeOK
  <2> QED BY <2>1, <2>7, <2>8, <2>9 DEF Ledger!vars
<1> QED BY <1>2, <1>3, <1>4

LEMMA AgentStep == TypeOK /\ LedgerInv /\ AgentNext => [Ledger!Next]_(Ledger!vars)
<1> SUFFICES ASSUME TypeOK, LedgerInv, AgentNext PROVE [Ledger!Next]_(Ledger!vars)
  OBVIOUS
<1> PICK agent \in agents :
      \/ Pause(agent)
      \/ Unpause(agent)
      \/ \E w \in Wallets, amount \in Amount :
           \/ \E to \in Wallets : ForcedTransfer(agent, w, to, amount)
           \/ \E compliant \in BOOLEAN : Mint(agent, w, amount, compliant)
           \/ Burn(agent, w, amount)
           \/ FreezePartialTokens(agent, w, amount)
           \/ UnfreezePartialTokens(agent, w, amount)
      \/ \E w \in Wallets, freeze \in BOOLEAN : SetAddressFrozen(agent, w, freeze)
      \/ \E lost, new \in Wallets, id \in Identities :
           RecoveryAddress(agent, lost, new, id)
  BY Zenon DEF AgentNext
<1>1. ASSUME NEW w \in Wallets, NEW freeze \in BOOLEAN,
             Pause(agent) \/ Unpause(agent) \/ SetAddressFrozen(agent, w, freeze)
      PROVE  UNCHANGED (Ledger!vars)
  BY <1>1 DEF Pause, Unpause, SetAddressFrozen, amountVars, Ledger!vars
<1>2. CASE Pause(agent) \/ Unpause(agent)
  BY <1>2 DEF Pause, Unpause, amountVars, Ledger!vars
<1>3. ASSUME NEW w \in Wallets, NEW to \in Wallets, NEW amount \in Amount,
             ForcedTransfer(agent, w, to, amount)
      PROVE  [Ledger!Next]_(Ledger!vars)
  <2>1. /\ MoveUnits(w, to, ForcedUnits(w, amount))
        /\ frozenTokens' = FrozenAfterForce(w, amount)
    BY <1>3 DEF ForcedTransfer
  <2> QED BY <2>1, ForcedStep
<1> QED BY <1>1, <1>2, <1>3, MintStep, BurnStep, RestrictStep, RecoveryStep

LEMMA NextStep == TypeOK /\ LedgerInv /\ [Next]_vars => [Ledger!Next]_(Ledger!vars)
<1>1. OwnerNext \/ RegistryNext => UNCHANGED (Ledger!vars)
  BY ControlFrame DEF amountVars, Ledger!vars
<1>2. UNCHANGED vars => UNCHANGED (Ledger!vars)
  BY DEF vars, amountVars, Ledger!vars
<1> QED BY <1>1, <1>2, HolderStep, AgentStep DEF Next

-----------------------------------------------------------------------------
(* The ledger keeps its books, hence so does the token. *)

LEMMA InitLedgerInv == Init => LedgerInv
<1> SUFFICES ASSUME Init PROVE LedgerInv
  OBVIOUS
<1>1. SumOf(balances) = totalSupply
  BY SumZero DEF Init
<1>2. \A w \in Wallets : frozenTokens[w] <= balances[w]
  BY DEF Init
<1> QED BY <1>1, <1>2 DEF LedgerInv, FrozenWithinBalance, SupplyIsSum

LEMMA LedgerPreserves ==
  ASSUME TypeOK, TypeOK', LedgerInv, [Ledger!Next]_(Ledger!vars)
  PROVE  LedgerInv'
<1>1. CASE inflated'
  BY <1>1 DEF LedgerInv, FrozenWithinBalance, SupplyIsSum
<1>2. CASE UNCHANGED (Ledger!vars)
  BY <1>2 DEF Ledger!vars, LedgerInv, FrozenWithinBalance, SupplyIsSum
<1>3. CASE ~inflated' /\ Ledger!Next
  <2>1. PICK w \in Wallets, units \in 0 .. (Word - 1), to \in Wallets :
          \/ Ledger!Move(w, to, units)
          \/ Ledger!Issue(w, units)
          \/ Ledger!Redeem(w, units)
          \/ Ledger!Restrict(w, units)
          \/ Ledger!MoveAll(w, to)
    <3>1. 0 \in 0 .. (Word - 1)
      BY WordAssumption
    <3> QED BY <1>3, <3>1, Zenon DEF Ledger!Next, Ledger!Inflate
  <2>2. ~inflated
    BY <1>3, <2>1 DEF Ledger!Move, Ledger!Issue, Ledger!Redeem, Ledger!Restrict,
                      Ledger!MoveAll
  <2>3. /\ IsFiniteSet(Wallets)
        /\ balances \in [Wallets -> Nat] /\ balances' \in [Wallets -> Nat]
        /\ frozenTokens \in [Wallets -> Nat] /\ frozenTokens' \in [Wallets -> Nat]
        /\ totalSupply \in Nat /\ totalSupply' \in Nat /\ units \in Nat
    BY TokenAssumption, WordAssumption DEF TypeOK, Amount
  <2>4. /\ \A x \in Wallets : frozenTokens[x] <= balances[x]
        /\ SumOf(balances) = totalSupply
    BY <2>2 DEF LedgerInv, FrozenWithinBalance, SupplyIsSum
  <2>5. CASE Ledger!Move(w, to, units)
    <3>1. /\ w # to /\ units <= balances[w] /\ totalSupply' = totalSupply
          /\ balances'[w] = balances[w] - units /\ balances'[to] = balances[to] + units
          /\ \A x \in Wallets \ {w, to} : balances'[x] = balances[x]
          /\ \A x \in Wallets \ {w} : frozenTokens'[x] = frozenTokens[x]
          /\ frozenTokens'[w] <= balances'[w]
      BY <2>3, <2>5 DEF Ledger!Move, Ledger!KeepFrozen, Ledger!Smaller
    <3>2. balances'[w] + balances'[to] = balances[w] + balances[to]
      BY <2>3, <3>1
    <3>3. SumOf(balances') = SumOf(balances)
      BY <2>3, <3>1, <3>2, SumMove
    <3>4. \A x \in Wallets : frozenTokens'[x] <= balances'[x]
      BY <2>3, <2>4, <3>1
    <3> QED BY <2>4, <3>1, <3>3, <3>4 DEF LedgerInv, FrozenWithinBalance, SupplyIsSum
  <2>6. CASE Ledger!MoveAll(w, to)
    <3>1. /\ w # to /\ totalSupply' = totalSupply
          /\ balances'[w] = 0 /\ balances'[to] = balances[to] + balances[w]
          /\ frozenTokens'[w] = 0 /\ frozenTokens'[to] = frozenTokens[to] + frozenTokens[w]
          /\ \A x \in Wallets \ {w, to} : /\ balances'[x] = balances[x]
                                          /\ frozenTokens'[x] = frozenTokens[x]
      BY <2>3, <2>6 DEF Ledger!MoveAll
    <3>2. balances'[w] + balances'[to] = balances[w] + balances[to]
      BY <2>3, <3>1
    <3>3. SumOf(balances') = SumOf(balances)
      BY <2>3, <3>1, <3>2, SumMove
    <3>4. \A x \in Wallets : frozenTokens'[x] <= balances'[x]
      BY <2>3, <2>4, <3>1
    <3> QED BY <2>4, <3>1, <3>3, <3>4 DEF LedgerInv, FrozenWithinBalance, SupplyIsSum
  <2>7. CASE Ledger!Issue(w, units)
    <3>1. /\ totalSupply' = totalSupply + units
          /\ balances'[w] = balances[w] + units
          /\ \A x \in Wallets \ {w} : balances'[x] = balances[x]
          /\ frozenTokens' = frozenTokens
      BY <2>3, <2>7 DEF Ledger!Issue
    <3>2. SumOf(balances') + balances[w] = SumOf(balances) + balances'[w]
      BY <2>3, <3>1, SumUpdate
    <3>3. SumOf(balances') \in Nat
      BY <2>3, UnitsFinite
    <3>4. SumOf(balances') = totalSupply'
      BY <2>3, <2>4, <3>1, <3>2, <3>3
    <3>5. \A x \in Wallets : frozenTokens'[x] <= balances'[x]
      BY <2>3, <2>4, <3>1
    <3> QED BY <3>4, <3>5 DEF LedgerInv, FrozenWithinBalance, SupplyIsSum
  <2>8. CASE Ledger!Redeem(w, units)
    <3>1. /\ totalSupply' = totalSupply - units /\ units <= balances[w]
          /\ balances'[w] = balances[w] - units
          /\ \A x \in Wallets \ {w} : /\ balances'[x] = balances[x]
                                      /\ frozenTokens'[x] = frozenTokens[x]
          /\ frozenTokens'[w] <= balances'[w]
      BY <2>3, <2>8 DEF Ledger!Redeem, Ledger!KeepFrozen, Ledger!Smaller
    <3>2. SumOf(balances') + balances[w] = SumOf(balances) + balances'[w]
      BY <2>3, <3>1, SumUpdate
    <3>3. SumOf(balances') \in Nat
      BY <2>3, UnitsFinite
    <3>4. SumOf(balances') = totalSupply'
      BY <2>3, <2>4, <3>1, <3>2, <3>3
    <3>5. \A x \in Wallets : frozenTokens'[x] <= balances'[x]
      BY <2>4, <3>1
    <3> QED BY <3>4, <3>5 DEF LedgerInv, FrozenWithinBalance, SupplyIsSum
  <2>9. CASE Ledger!Restrict(w, units)
    <3>1. /\ UNCHANGED <<balances, totalSupply>> /\ units <= balances[w]
          /\ frozenTokens' = [frozenTokens EXCEPT ![w] = units]
      BY <2>9 DEF Ledger!Restrict
    <3>2. \A x \in Wallets : frozenTokens'[x] <= balances'[x]
      BY <2>3, <2>4, <3>1
    <3> QED BY <2>4, <3>1, <3>2 DEF LedgerInv, FrozenWithinBalance, SupplyIsSum
  <2> QED BY <2>1, <2>5, <2>6, <2>7, <2>8, <2>9
<1> QED BY <1>1, <1>2, <1>3

LEMMA LedgerInvariant == Spec => []LedgerInv
<1>1. TypeOK /\ LedgerInv /\ [Next]_vars => LedgerInv'
  BY NextTypeOK, NextStep, LedgerPreserves
<1> QED BY <1>1, InitLedgerInv, TypeCorrect, PTL DEF Spec

\* As long as no unit has appeared out of nothing, no wallet holds less than
\* its frozen amount, so no debit of the code wraps.
THEOREM FrozenCovered == Spec => []FrozenWithinBalance
<1>1. LedgerInv => FrozenWithinBalance
  BY DEF LedgerInv
<1> QED BY <1>1, LedgerInvariant, PTL

\* As long as no unit has appeared out of nothing, the supply is the sum of the
\* balances.
THEOREM SupplyCorrect == Spec => []SupplyIsSum
<1>1. LedgerInv => SupplyIsSum
  BY DEF LedgerInv
<1> QED BY <1>1, LedgerInvariant, PTL

\* The token implements the abstract ledger.
THEOREM TokenImplementsLedger == Spec => LedgerSpec
<1>1. Init => Ledger!Init
  BY DEF Init, Ledger!Init
<1> QED
  BY <1>1, NextStep, TypeCorrect, LedgerInvariant, PTL DEF Spec, LedgerSpec, Ledger!Spec

\* recoveryAddress hands over everything, for every pair of different wallets.
THEOREM RecoveryCorrect == Spec => RecoveryIsComplete
<1> DEFINE Complete ==
      \A agent \in agents, lost, new \in Wallets, id \in Identities :
        RecoveryAddress(agent, lost, new, id) /\ lost # new /\ ~inflated =>
          /\ balances'[new] = balances[new] + balances[lost]
          /\ frozenTokens'[new] = frozenTokens[new] + frozenTokens[lost]
          /\ balances'[lost] = 0 /\ frozenTokens'[lost] = 0
          /\ lost \in frozen => new \in frozen'
          /\ IsVerified(new)' /\ ~IsVerified(lost)'
<1>1. TypeOK /\ LedgerInv => Complete
  <2> SUFFICES ASSUME TypeOK, LedgerInv, NEW agent \in agents,
                      NEW lost \in Wallets, NEW new \in Wallets, NEW id \in Identities,
                      RecoveryAddress(agent, lost, new, id), lost # new, ~inflated
               PROVE  /\ balances'[new] = balances[new] + balances[lost]
                      /\ frozenTokens'[new] = frozenTokens[new] + frozenTokens[lost]
                      /\ balances'[lost] = 0 /\ frozenTokens'[lost] = 0
                      /\ lost \in frozen => new \in frozen'
                      /\ IsVerified(new)' /\ ~IsVerified(lost)'
    OBVIOUS
  <2>1. /\ balances' = [balances EXCEPT ![lost] = 0, ![new] = @ + balances[lost]]
        /\ frozenTokens' = [frozenTokens EXCEPT ![lost] = 0, ![new] = @ + frozenTokens[lost]]
    BY RecoveryAmounts
  <2>2. /\ balances'[new] = balances[new] + balances[lost] /\ balances'[lost] = 0
        /\ frozenTokens'[new] = frozenTokens[new] + frozenTokens[lost]
        /\ frozenTokens'[lost] = 0
    BY <2>1 DEF TypeOK
  <2>3. lost \in frozen => new \in frozen'
    BY DEF RecoveryAddress
  <2>4. /\ identityOf'[new] = id /\ identityOf'[lost] = NoIdentity
        /\ verifiedIds' = verifiedIds /\ id \in verifiedIds /\ verifiedIds \subseteq Identities
    BY DEF RecoveryAddress, TypeOK
  <2>5. IsVerified(new)' /\ ~IsVerified(lost)'
    BY <2>4, TokenAssumption DEF IsVerified
  <2> QED BY <2>2, <2>3, <2>5
<1> QED
  BY <1>1, TypeCorrect, LedgerInvariant, PTL DEF RecoveryIsComplete

-----------------------------------------------------------------------------
(* Who may be credited, who may be debited. *)

LEMMA AgentInflow ==
  ASSUME TypeOK, LedgerInv, AgentNext, ~inflated',
         NEW w \in Wallets, balances'[w] > balances[w]
  PROVE  IsVerified(w)'
<1> PICK agent \in agents :
      \/ Pause(agent)
      \/ Unpause(agent)
      \/ \E v \in Wallets, amount \in Amount :
           \/ \E to \in Wallets : ForcedTransfer(agent, v, to, amount)
           \/ \E compliant \in BOOLEAN : Mint(agent, v, amount, compliant)
           \/ Burn(agent, v, amount)
           \/ FreezePartialTokens(agent, v, amount)
           \/ UnfreezePartialTokens(agent, v, amount)
      \/ \E v \in Wallets, freeze \in BOOLEAN : SetAddressFrozen(agent, v, freeze)
      \/ \E lost, new \in Wallets, id \in Identities :
           RecoveryAddress(agent, lost, new, id)
  BY Zenon DEF AgentNext
<1>1. \A v \in Wallets : balances[v] \in Nat
  BY WordAssumption DEF TypeOK, Amount
<1>2. ASSUME UNCHANGED balances PROVE FALSE
  BY <1>1, <1>2
<1>3. ASSUME NEW v \in Wallets, NEW to \in Wallets, NEW amount \in Amount,
             ForcedTransfer(agent, v, to, amount)
      PROVE  IsVerified(w)'
  <2>1. MoveUnits(v, to, ForcedUnits(v, amount)) /\ UNCHANGED registryVars /\ IsVerified(to)
    BY <1>3 DEF ForcedTransfer
  <2>2. ForcedUnits(v, amount) \in Amount /\ (~inflated => ForcedUnits(v, amount) <= balances[v])
    BY SelectedType, ForcedFrozen
  <2>3. w = to
    BY <2>1, <2>2, DebitCredit
  <2> QED BY <2>1, <2>3 DEF IsVerified, registryVars
<1>4. ASSUME NEW v \in Wallets, NEW amount \in Amount, NEW compliant \in BOOLEAN,
             Mint(agent, v, amount, compliant)
      PROVE  IsVerified(w)'
  <2>1. /\ \A x \in Wallets \ {v} : balances'[x] = balances[x]
        /\ UNCHANGED registryVars /\ IsVerified(v)
    BY <1>4 DEF Mint, TypeOK
  <2>2. w = v
    BY <1>1, <2>1
  <2> QED BY <2>1, <2>2 DEF IsVerified, registryVars
<1>5. ASSUME NEW v \in Wallets, NEW amount \in Amount, Burn(agent, v, amount)
      PROVE  FALSE
  <2> DEFINE units == ForcedUnits(v, amount)
  <2>1. balances' = [balances EXCEPT ![v] = Sub(@, units)] /\ ~inflated
    BY <1>5 DEF Burn
  <2>2. units \in Amount /\ units <= balances[v] /\ balances[v] \in Amount
    BY <2>1, SelectedType, ForcedFrozen DEF TypeOK
  <2> HIDE DEF units
  <2>3. Sub(balances[v], units) = balances[v] - units /\ units \in Nat
    BY <2>2, ExactArithmetic, WordAssumption DEF Amount
  <2>4. \A x \in Wallets : balances'[x] = IF x = v THEN balances[v] - units ELSE balances[x]
    BY <2>1, <2>3 DEF TypeOK
  <2> QED BY <1>1, <2>3, <2>4
<1>6. ASSUME NEW lost \in Wallets, NEW new \in Wallets, NEW id \in Identities,
             RecoveryAddress(agent, lost, new, id)
      PROVE  IsVerified(w)'
  <2>1. MoveUnits(lost, new, ForcedUnits(lost, balances[lost]))
    BY <1>6 DEF RecoveryAddress
  <2>2. balances[lost] \in Amount
    BY DEF TypeOK
  <2>3. /\ ForcedUnits(lost, balances[lost]) \in Amount
        /\ ~inflated => ForcedUnits(lost, balances[lost]) <= balances[lost]
    BY <2>2, SelectedType, ForcedFrozen
  <2>4. w = new
    BY <2>1, <2>3, DebitCredit
  <2>5. lost # new
    <3>1. ASSUME lost = new PROVE FALSE
      <4>1. \A x \in Wallets : balances'[x] < balances[x] \/ balances'[x] = balances[x]
        BY <1>1, <2>1, <3>1, <2>3 DEF MoveUnits, BalancesAfter, TypeOK, Amount, Sub, Add
      <4>2. \A x \in Wallets : balances'[x] \in Nat
        BY <2>1, <2>3, MoveUnitsType, WordAssumption DEF Amount
      <4> QED BY <1>1, <4>1, <4>2
    <3> QED BY <3>1
  <2>6. /\ identityOf'[new] = id /\ verifiedIds' = verifiedIds /\ id \in verifiedIds
    BY <1>6, <2>5 DEF RecoveryAddress, TypeOK
  <2> QED BY <2>4, <2>6 DEF IsVerified
<1>7. Pause(agent) \/ Unpause(agent) => UNCHANGED balances
  BY DEF Pause, Unpause, amountVars
<1>8. ASSUME NEW v \in Wallets, NEW freeze \in BOOLEAN, SetAddressFrozen(agent, v, freeze)
      PROVE  UNCHANGED balances
  BY <1>8 DEF SetAddressFrozen, amountVars
<1>9. ASSUME NEW v \in Wallets, NEW amount \in Amount,
             FreezePartialTokens(agent, v, amount) \/ UnfreezePartialTokens(agent, v, amount)
      PROVE  UNCHANGED balances
  BY <1>9 DEF FreezePartialTokens, UnfreezePartialTokens
<1> QED BY <1>2, <1>3, <1>4, <1>5, <1>6, <1>7, <1>8, <1>9

\* The verified-receiver rule and the freeze rule, for one step of a holder.
LEMMA HolderFlow ==
  ASSUME TypeOK, LedgerInv, HolderNext, ~inflated', NEW w \in Wallets
  PROVE  /\ balances'[w] > balances[w] => IsVerified(w)'
         /\ balances'[w] < balances[w] =>
              /\ ~paused /\ w \notin frozen
              /\ balances'[w] >= frozenTokens[w]
              /\ frozenTokens'[w] = frozenTokens[w]
<1> PICK from \in Wallets, amount \in Amount :
      \/ \E s \in Spenders :
           \/ Approve(from, s, amount)
           \/ IncreaseAllowance(from, s, amount)
           \/ DecreaseAllowance(from, s, amount)
      \/ \E to \in Wallets, compliant \in BOOLEAN :
           \/ \E s \in Spenders : TransferFrom(s, from, to, amount, compliant)
           \/ Transfer(from, to, amount, compliant)
  BY Zenon DEF HolderNext
<1>1. \A v \in Wallets : balances[v] \in Nat /\ frozenTokens[v] \in Nat
  BY WordAssumption DEF TypeOK, Amount
<1>2. ASSUME NEW s \in Spenders,
             \/ Approve(from, s, amount)
             \/ IncreaseAllowance(from, s, amount)
             \/ DecreaseAllowance(from, s, amount)
      PROVE  UNCHANGED balances
  BY <1>2 DEF Approve, IncreaseAllowance, DecreaseAllowance, amountVars
<1>3. ASSUME NEW to \in Wallets, NEW compliant \in BOOLEAN,
             \/ \E s \in Spenders : TransferFrom(s, from, to, amount, compliant)
             \/ Transfer(from, to, amount, compliant)
      PROVE  /\ balances'[w] > balances[w] => IsVerified(w)'
             /\ balances'[w] < balances[w] =>
                  /\ ~paused /\ w \notin frozen
                  /\ balances'[w] >= frozenTokens[w]
                  /\ frozenTokens'[w] = frozenTokens[w]
  <2> DEFINE units == Transferable(from, amount, compliant)
  <2>1. /\ MoveUnits(from, to, units)
        /\ ~paused /\ from \notin frozen /\ IsVerified(to)
        /\ UNCHANGED frozenTokens /\ UNCHANGED registryVars
    BY <1>3 DEF Transfer, TransferFrom
  <2>2. units \in Amount /\ (~inflated => units <= balances[from])
    BY SelectedType, TransferableFits
  <2>3. ~inflated => frozenTokens[from] <= balances[from] - units
    BY TransferableFits
  <2> HIDE DEF units
  <2>4. /\ ~inflated
        /\ balances'[w] > balances[w] => w = to
        /\ balances'[w] < balances[w] => w = from /\ balances'[w] = balances[w] - units
    BY <2>1, <2>2, DebitCredit
  <2>5. balances'[w] > balances[w] => IsVerified(w)'
    BY <2>1, <2>4 DEF IsVerified, registryVars
  <2>6. units \in Nat
    BY <2>2, WordAssumption DEF Amount
  <2>7. balances'[w] < balances[w] => balances'[w] >= frozenTokens[w]
    BY <1>1, <2>3, <2>4, <2>6
  <2> QED BY <2>1, <2>4, <2>5, <2>7
<1>4. ASSUME UNCHANGED balances
      PROVE  ~(balances'[w] > balances[w]) /\ ~(balances'[w] < balances[w])
  BY <1>1, <1>4
<1> QED BY <1>2, <1>3, <1>4

\* Nobody but a verified wallet is ever credited.
THEOREM InflowCorrect == Spec => InflowVerified
<1>1. ASSUME TypeOK, LedgerInv, [Next]_vars, ~inflated',
             NEW w \in Wallets, balances'[w] > balances[w]
      PROVE  IsVerified(w)'
  <2>1. balances[w] \in Nat
    BY <1>1, WordAssumption DEF TypeOK, Amount
  <2>2. ~(UNCHANGED balances)
    BY <1>1, <2>1
  <2>3. HolderNext \/ AgentNext
    BY <1>1, <2>2, ControlFrame DEF Next, vars, amountVars
  <2> QED BY <1>1, <2>3, AgentInflow, HolderFlow
<1>2. TypeOK /\ LedgerInv /\ [Next]_vars =>
        (~inflated' =>
           \A w \in Wallets : balances'[w] > balances[w] => IsVerified(w)')
  BY <1>1
<1> QED BY <1>2, TypeCorrect, LedgerInvariant, PTL DEF Spec, InflowVerified

\* Without forcedTransfer, burn and recoveryAddress an agent takes units from
\* nobody.
LEMMA AgentTakesByForce ==
  ASSUME TypeOK, LedgerInv, AgentNext, ~inflated', movedBy' \notin AgentMoves,
         NEW w \in Wallets
  PROVE  ~(balances'[w] < balances[w])
<1> PICK agent \in agents :
      \/ Pause(agent)
      \/ Unpause(agent)
      \/ \E v \in Wallets, amount \in Amount :
           \/ \E to \in Wallets : ForcedTransfer(agent, v, to, amount)
           \/ \E compliant \in BOOLEAN : Mint(agent, v, amount, compliant)
           \/ Burn(agent, v, amount)
           \/ FreezePartialTokens(agent, v, amount)
           \/ UnfreezePartialTokens(agent, v, amount)
      \/ \E v \in Wallets, freeze \in BOOLEAN : SetAddressFrozen(agent, v, freeze)
      \/ \E lost, new \in Wallets, id \in Identities :
           RecoveryAddress(agent, lost, new, id)
  BY Zenon DEF AgentNext
<1>1. \A v \in Wallets : balances[v] \in Nat
  BY WordAssumption DEF TypeOK, Amount
<1>2. ASSUME UNCHANGED balances
      PROVE  ~(balances'[w] < balances[w])
  BY <1>1, <1>2
<1>3. ASSUME NEW v \in Wallets, NEW amount \in Amount, NEW compliant \in BOOLEAN,
             Mint(agent, v, amount, compliant)
      PROVE  ~(balances'[w] < balances[w])
  <2> DEFINE units == Select(compliant, amount, 0)
  <2>1. /\ balances' = [balances EXCEPT ![v] = Add(@, units)]
        /\ ~inflated /\ ~(totalSupply + units >= Word)
    BY <1>3 DEF Mint
  <2>2. units \in Nat /\ balances[v] \in Amount /\ units \in Amount
    BY AmountClosed DEF Select, TypeOK
  <2>3. balances[v] <= totalSupply /\ totalSupply \in Nat
    BY <2>1, BalancesFit
  <2> HIDE DEF units
  <2>4. Add(balances[v], units) = balances[v] + units
    BY <1>1, <2>1, <2>2, <2>3, ExactArithmetic, WordAssumption
  <2>5. \A x \in Wallets : balances'[x] = IF x = v THEN balances[v] + units ELSE balances[x]
    BY <2>1, <2>4 DEF TypeOK
  <2> QED BY <1>1, <2>2, <2>5
<1>4. ASSUME NEW v \in Wallets, NEW amount \in Amount,
             \/ \E to \in Wallets : ForcedTransfer(agent, v, to, amount)
             \/ Burn(agent, v, amount)
      PROVE  FALSE
  BY <1>4 DEF ForcedTransfer, Burn, AgentMoves
<1>5. ASSUME NEW lost \in Wallets, NEW new \in Wallets, NEW id \in Identities,
             RecoveryAddress(agent, lost, new, id)
      PROVE  FALSE
  BY <1>5 DEF RecoveryAddress, AgentMoves
<1>6. Pause(agent) \/ Unpause(agent) => UNCHANGED balances
  BY DEF Pause, Unpause, amountVars
<1>7. ASSUME NEW v \in Wallets, NEW freeze \in BOOLEAN, SetAddressFrozen(agent, v, freeze)
      PROVE  UNCHANGED balances
  BY <1>7 DEF SetAddressFrozen, amountVars
<1>8. ASSUME NEW v \in Wallets, NEW amount \in Amount,
             FreezePartialTokens(agent, v, amount) \/ UnfreezePartialTokens(agent, v, amount)
      PROVE  UNCHANGED balances
  BY <1>8 DEF FreezePartialTokens, UnfreezePartialTokens
<1> QED BY <1>2, <1>3, <1>4, <1>5, <1>6, <1>7, <1>8

\* Only forcedTransfer, burn and recoveryAddress take units from a frozen wallet,
\* from the frozen part of a wallet, or while the token is paused: transfer and
\* transferFrom never do, whoever else is an agent.
THEOREM OutflowCorrect == Spec => OutflowRespectsFreeze
<1>1. ASSUME TypeOK, LedgerInv, [Next]_vars, ~inflated', movedBy' \notin AgentMoves,
             NEW w \in Wallets, balances'[w] < balances[w]
      PROVE  /\ ~paused
             /\ w \notin frozen
             /\ balances'[w] >= frozenTokens[w]
             /\ frozenTokens'[w] = frozenTokens[w]
  <2>1. balances[w] \in Nat
    BY <1>1, WordAssumption DEF TypeOK, Amount
  <2>2. ~(UNCHANGED balances)
    BY <1>1, <2>1
  <2>3. HolderNext \/ AgentNext
    BY <1>1, <2>2, ControlFrame DEF Next, vars, amountVars
  <2>4. ~AgentNext
    BY <1>1, AgentTakesByForce
  <2> QED BY <1>1, <2>3, <2>4, HolderFlow
<1>2. TypeOK /\ LedgerInv /\ [Next]_vars =>
        (~inflated' /\ movedBy' \notin AgentMoves =>
           \A w \in Wallets : balances'[w] < balances[w] =>
             /\ ~paused
             /\ w \notin frozen
             /\ balances'[w] >= frozenTokens[w]
             /\ frozenTokens'[w] = frozenTokens[w])
  BY <1>1
<1> QED BY <1>2, TypeCorrect, LedgerInvariant, PTL DEF Spec, OutflowRespectsFreeze
-----------------------------------------------------------------------------
(* Sums modulo the word, also after the supply has wrapped. *)

\* Numbers that differ by a multiple of the word have the same remainder.
LEMMA SameRemainder ==
  ASSUME NEW x \in Int, NEW y \in Int, y \in {x, x + Word, x - Word}
  PROVE  x % Word = y % Word
<1> DEFINE W == Word
<1>1. W \in Nat \ {0}
  BY WordAssumption
<1> HIDE DEF W
<1>2. ASSUME NEW z \in Int
      PROVE  z % W \in 0 .. W - 1 /\ \E q \in Int : z = W * q + (z % W)
  <2>1. z % W \in 0 .. W - 1
    BY <1>1
  <2>2. z \div W \in Int /\ z = W * (z \div W) + (z % W)
    BY <1>1
  <2> QED BY <2>1, <2>2, Zenon
<1>3. PICK q \in Int : x = W * q + (x % W)
  BY <1>2
<1>4. PICK r \in Int : y = W * r + (y % W)
  BY <1>2
<1>5. \E k \in {r, r - 1, r + 1} : x = W * k + (y % W)
  <2>1. W * (r - 1) = W * r - W /\ W * (r + 1) = W * r + W
    BY <1>1
  <2>2. y \in {x, x + W, x - W} /\ y % W \in Int /\ W \in Int /\ W * r \in Int
    BY <1>1, <1>2 DEF W
  <2> DEFINE a == W * r
             b == y % W
  <2>3. a \in Int /\ b \in Int /\ W \in Int /\ y = a + b /\ y \in {x, x + W, x - W}
    BY <1>4, <2>2
  <2> HIDE DEF a, b
  <2>4. x \in {a + b, a - W + b, a + W + b}
    BY <2>3
  <2> QED BY <2>1, <2>4 DEF a, b
<1>6. PICK k \in Int : x = W * k + (y % W)
  BY <1>5
<1>7. ASSUME NEW m \in Int, NEW n \in Int, NEW s \in 0 .. W - 1, NEW t \in 0 .. W - 1,
             W * m + s = W * n + t
      PROVE  s = t
  BY <1>1, <1>7
<1>8. x % W = y % W
  BY <1>2, <1>3, <1>6, <1>7
<1> QED BY <1>8 DEF W

\* Balances and supply before and after: f and g, s and t.
Tracks(f, g, s, t) == (SumOf(g) + s) % Word = (SumOf(f) + t) % Word

LEMMA MoveTracks ==
  ASSUME TypeOK, NEW from \in Wallets, NEW to \in Wallets, from # to, NEW units \in Amount,
         MoveUnits(from, to, units)
  PROVE  Tracks(balances, balances', totalSupply, totalSupply')
<1> DEFINE f == balances
           g == balances'
           h == [f EXCEPT ![from] = Sub(f[from], units)]
<1>1. /\ IsFiniteSet(Wallets) /\ f \in [Wallets -> Amount] /\ totalSupply \in Amount
      /\ Amount \subseteq Nat
      /\ Sub(f[from], units) \in Amount /\ Add(f[to], units) \in Amount
  BY TokenAssumption, AmountClosed DEF TypeOK
<1>2. g = [f EXCEPT ![from] = Sub(f[from], units), ![to] = Add(f[to], units)]
      /\ totalSupply' = totalSupply
  BY DEF MoveUnits, BalancesAfter
<1>3. /\ f \in [Wallets -> Nat] /\ g \in [Wallets -> Nat] /\ h \in [Wallets -> Nat]
      /\ h[from] = Sub(f[from], units) /\ h[to] = f[to]
      /\ g[to] = Add(f[to], units)
      /\ \A w \in Wallets \ {from} : h[w] = f[w]
      /\ \A w \in Wallets \ {to} : g[w] = h[w]
  BY <1>1, <1>2
<1> HIDE DEF f, g, h
<1>4. /\ SumOf(f) \in Nat /\ SumOf(h) \in Nat /\ SumOf(g) \in Nat
      /\ SumOf(h) + f[from] = SumOf(f) + h[from]
      /\ SumOf(g) + h[to] = SumOf(h) + g[to]
  BY <1>1, <1>3, SumUpdate
<1>5. /\ h[from] \in {f[from] - units, f[from] - units + Word}
      /\ g[to] \in {f[to] + units, f[to] + units - Word}
  BY <1>3 DEF Add, Sub
<1> DEFINE a == SumOf(f)
           b == SumOf(h)
           c == SumOf(g)
           i == f[from]
           j == f[to]
           k == h[from]
           l == g[to]
<1>6. /\ a \in Nat /\ b \in Nat /\ c \in Nat /\ i \in Nat /\ j \in Nat /\ k \in Nat /\ l \in Nat
      /\ units \in Nat /\ Word \in Nat /\ totalSupply \in Nat
      /\ b + i = a + k /\ c + j = b + l
      /\ k \in {i - units, i - units + Word} /\ l \in {j + units, j + units - Word}
  BY <1>1, <1>3, <1>4, <1>5, WordAssumption
<1> HIDE DEF a, b, c, i, j, k, l
<1> DEFINE x == c + totalSupply
           y == a + totalSupply
<1>7. x \in Int /\ y \in Int /\ (y = x \/ y = x + Word \/ y = x - Word)
  BY <1>6
<1> HIDE DEF x, y
<1>8. x % Word = y % Word
  BY <1>7, SameRemainder
<1> QED BY <1>2, <1>8 DEF Tracks, a, c, f, g, x, y

\* A mint or a burn changes one balance and the supply by the same units.
LEMMA SupplyTracks ==
  ASSUME TypeOK, NEW to \in Wallets, NEW units \in Amount,
         \/ /\ balances' = [balances EXCEPT ![to] = Add(@, units)]
            /\ totalSupply' = Add(totalSupply, units)
         \/ /\ balances' = [balances EXCEPT ![to] = Sub(@, units)]
            /\ totalSupply' = Sub(totalSupply, units)
  PROVE  Tracks(balances, balances', totalSupply, totalSupply')
<1> DEFINE f == balances
           g == balances'
           s == totalSupply
           t == totalSupply'
<1>1. /\ IsFiniteSet(Wallets) /\ f \in [Wallets -> Amount] /\ s \in Amount
      /\ Amount \subseteq Nat
      /\ Sub(f[to], units) \in Amount /\ Add(f[to], units) \in Amount
      /\ Sub(s, units) \in Amount /\ Add(s, units) \in Amount
  BY TokenAssumption, AmountClosed DEF TypeOK
<1>2. /\ f \in [Wallets -> Nat] /\ g \in [Wallets -> Nat]
      /\ \A w \in Wallets \ {to} : g[w] = f[w]
      /\ \/ g[to] = Add(f[to], units) /\ t = Add(s, units)
         \/ g[to] = Sub(f[to], units) /\ t = Sub(s, units)
  BY <1>1
<1> HIDE DEF f, g, s, t
<1>3. /\ SumOf(f) \in Nat /\ SumOf(g) \in Nat /\ SumOf(g) + f[to] = SumOf(f) + g[to]
  BY <1>1, <1>2, SumUpdate
<1> DEFINE a == SumOf(f)
           c == SumOf(g)
           j == f[to]
           l == g[to]
<1>4. /\ a \in Nat /\ c \in Nat /\ j \in Nat /\ l \in Nat /\ s \in Nat /\ t \in Nat
      /\ units \in Nat /\ Word \in Nat /\ c + j = a + l
      /\ \/ l \in {j + units, j + units - Word} /\ t \in {s + units, s + units - Word}
         \/ l \in {j - units, j - units + Word} /\ t \in {s - units, s - units + Word}
  BY <1>1, <1>2, <1>3, WordAssumption DEF Add, Sub
<1> HIDE DEF a, c, j, l
<1> DEFINE x == c + s
           y == a + t
<1>5. x \in Int /\ y \in Int /\ (y = x \/ y = x + Word \/ y = x - Word)
  BY <1>4
<1> HIDE DEF x, y
<1>6. x % Word = y % Word
  BY <1>5, SameRemainder
<1> QED BY <1>6 DEF Tracks, a, c, f, g, s, t, x, y

LEMMA StepTracks ==
  ASSUME TypeOK, [Next]_vars, ~SelfMove
  PROVE  Tracks(balances, balances', totalSupply, totalSupply')
<1>1. ASSUME UNCHANGED <<balances, totalSupply>>
      PROVE  Tracks(balances, balances', totalSupply, totalSupply')
  BY <1>1 DEF Tracks
<1>2. CASE UNCHANGED vars
  BY <1>1, <1>2 DEF vars, amountVars
<1>3. CASE HolderNext
  <2> PICK w \in Wallets, amount \in Amount :
        \/ \E s \in Spenders :
             \/ Approve(w, s, amount)
             \/ IncreaseAllowance(w, s, amount)
             \/ DecreaseAllowance(w, s, amount)
        \/ \E to \in Wallets, compliant \in BOOLEAN :
             \/ \E s \in Spenders : TransferFrom(s, w, to, amount, compliant)
             \/ Transfer(w, to, amount, compliant)
    BY <1>3, Zenon DEF HolderNext
  <2>1. ASSUME NEW s \in Spenders,
               \/ Approve(w, s, amount)
               \/ IncreaseAllowance(w, s, amount)
               \/ DecreaseAllowance(w, s, amount)
        PROVE  UNCHANGED <<balances, totalSupply>>
    BY <2>1 DEF Approve, IncreaseAllowance, DecreaseAllowance, amountVars
  <2>2. ASSUME NEW to \in Wallets, NEW compliant \in BOOLEAN,
               \/ \E s \in Spenders : TransferFrom(s, w, to, amount, compliant)
               \/ Transfer(w, to, amount, compliant)
        PROVE  Tracks(balances, balances', totalSupply, totalSupply')
    <3>1. w # to
      BY <2>2 DEF SelfMove
    <3>2. MoveUnits(w, to, Transferable(w, amount, compliant))
      BY <2>2 DEF Transfer, TransferFrom
    <3>3. Transferable(w, amount, compliant) \in Amount
      BY SelectedType
    <3> QED BY <3>1, <3>2, <3>3, MoveTracks
  <2> QED BY <1>1, <2>1, <2>2
<1>4. CASE AgentNext
  <2> PICK agent \in agents :
        \/ Pause(agent)
        \/ Unpause(agent)
        \/ \E w \in Wallets, amount \in Amount :
             \/ \E to \in Wallets : ForcedTransfer(agent, w, to, amount)
             \/ \E compliant \in BOOLEAN : Mint(agent, w, amount, compliant)
             \/ Burn(agent, w, amount)
             \/ FreezePartialTokens(agent, w, amount)
             \/ UnfreezePartialTokens(agent, w, amount)
        \/ \E w \in Wallets, freeze \in BOOLEAN : SetAddressFrozen(agent, w, freeze)
        \/ \E lost, new \in Wallets, id \in Identities :
             RecoveryAddress(agent, lost, new, id)
    BY <1>4, Zenon DEF AgentNext
  <2>1. ASSUME \/ Pause(agent)
               \/ Unpause(agent)
               \/ \E w \in Wallets, freeze \in BOOLEAN : SetAddressFrozen(agent, w, freeze)
               \/ \E w \in Wallets, amount \in Amount :
                    FreezePartialTokens(agent, w, amount) \/ UnfreezePartialTokens(agent, w, amount)
        PROVE  UNCHANGED <<balances, totalSupply>>
    BY <2>1 DEF Pause, Unpause, SetAddressFrozen, FreezePartialTokens, UnfreezePartialTokens,
                amountVars
  <2>2. ASSUME NEW w \in Wallets, NEW amount \in Amount, NEW to \in Wallets,
               ForcedTransfer(agent, w, to, amount)
        PROVE  Tracks(balances, balances', totalSupply, totalSupply')
    <3>1. w # to
      BY <2>2 DEF SelfMove
    <3>2. MoveUnits(w, to, ForcedUnits(w, amount))
      BY <2>2 DEF ForcedTransfer
    <3> QED BY <3>1, <3>2, SelectedType, MoveTracks
  <2>3. ASSUME NEW w \in Wallets, NEW amount \in Amount, NEW compliant \in BOOLEAN,
               Mint(agent, w, amount, compliant)
        PROVE  Tracks(balances, balances', totalSupply, totalSupply')
    <3> DEFINE units == Select(compliant, amount, 0)
    <3>1. units \in Amount
      BY AmountClosed DEF Select
    <3>2. /\ balances' = [balances EXCEPT ![w] = Add(@, units)]
          /\ totalSupply' = Add(totalSupply, units)
      BY <2>3 DEF Mint
    <3> QED BY <3>1, <3>2, SupplyTracks
  <2>4. ASSUME NEW w \in Wallets, NEW amount \in Amount, Burn(agent, w, amount)
        PROVE  Tracks(balances, balances', totalSupply, totalSupply')
    <3> DEFINE units == ForcedUnits(w, amount)
    <3>1. units \in Amount
      BY SelectedType
    <3>2. /\ balances' = [balances EXCEPT ![w] = Sub(@, units)]
          /\ totalSupply' = Sub(totalSupply, units)
      BY <2>4 DEF Burn
    <3> QED BY <3>1, <3>2, SupplyTracks
  <2>5. ASSUME NEW lost \in Wallets, NEW new \in Wallets, NEW id \in Identities,
               RecoveryAddress(agent, lost, new, id)
        PROVE  Tracks(balances, balances', totalSupply, totalSupply')
    <3>1. lost # new
      BY <2>5, AmountClosed DEF SelfMove
    <3>2. MoveUnits(lost, new, ForcedUnits(lost, balances[lost]))
      BY <2>5 DEF RecoveryAddress
    <3>3. ForcedUnits(lost, balances[lost]) \in Amount
      BY SelectedType DEF TypeOK
    <3> QED BY <3>1, <3>2, <3>3, MoveTracks
  <2> QED BY <1>1, <2>1, <2>2, <2>3, <2>4, <2>5
<1>5. CASE OwnerNext \/ RegistryNext
  <2>1. UNCHANGED <<balances, totalSupply>>
    BY <1>5, ControlFrame DEF amountVars
  <2> QED BY <1>1, <2>1
<1> QED BY <1>2, <1>3, <1>4, <1>5 DEF Next

\* Whatever has wrapped before, every transfer between two wallets, mint, burn
\* and recovery changes totalSupply as it changes the sum of the balances, modulo
\* the word: only a wallet that transfers to itself makes the two drift apart.
THEOREM SupplyKeepsTrack == Spec => SupplyTracksBalances
<1>1. TypeOK /\ [Next]_vars =>
        [ \/ (SumOf(balances') + totalSupply) % Word = (SumOf(balances) + totalSupply') % Word
          \/ SelfMove ]_vars
  BY StepTracks DEF Tracks
<1> QED BY <1>1, TypeCorrect, PTL DEF Spec, SupplyTracksBalances
=============================================================================
