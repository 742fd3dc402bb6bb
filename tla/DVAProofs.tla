----------------------------- MODULE DVAProofs -----------------------------
(***************************************************************************)
(* Proofs about DVA for any holders, approvers, criteria and number of     *)
(* transfers.  The manager is one more holder of a Token, so that all that *)
(* is proved of Token holds of a token whose manager keeps units in        *)
(* escrow; the units of the pending transfers are in the manager's wallet  *)
(* until somebody seizes them; and what completes a transfer are the       *)
(* approvals its criteria name.                                            *)
(*                                                                         *)
(* The first two do not depend on which approvals complete a list, and     *)
(* ApprovedBy, a loop over signatures, is not expanded for them.  The last *)
(* is by induction over that loop.                                         *)
(***************************************************************************)
EXTENDS DVA, TokenProofs

(***************************************************************************)
(* The invariant.  A settlement is a step of the token only because the    *)
(* amount it moves is an amount: it was read off the manager's balance     *)
(* when the units arrived, and nothing has changed it since.               *)
(***************************************************************************)
Fields == {"sender", "recipient", "actual", "status", "approvers", "criteria"}

TransfersOK ==
  /\ \E n \in Nat : DOMAIN transfers = 1 .. n
  /\ transfers \in Seq(Range(transfers))
  /\ \A id \in DOMAIN transfers :
       /\ DOMAIN transfers[id] = Fields
       /\ transfers[id].sender \in Wallets
       /\ transfers[id].recipient \in Wallets
       /\ transfers[id].actual \in Amount

IInv == TypeOK /\ TransfersOK

(***************************************************************************)
(* What the manager's functions do to transfers, apart from approvals.     *)
(***************************************************************************)

\* Only the transfer id changes, and not in what it is about.
Touched(id) ==
  /\ IsPending(id)
  /\ transfers' \in Seq(Range(transfers'))
  /\ DOMAIN transfers' = DOMAIN transfers
  /\ \A other \in DOMAIN transfers \ {id} : transfers'[other] = transfers[other]
  /\ DOMAIN transfers'[id] = DOMAIN transfers[id]
  /\ transfers'[id].sender = transfers[id].sender
  /\ transfers'[id].recipient = transfers[id].recipient
  /\ transfers'[id].actual = transfers[id].actual

Noted(id) ==
  /\ Touched(id)
  /\ transfers'[id].status = "PENDING"
  /\ UNCHANGED vars

Payee(id) ==
  IF transfers'[id].status = "COMPLETED" THEN transfers[id].recipient ELSE transfers[id].sender

Settled(id) ==
  /\ Touched(id)
  /\ transfers'[id].status # "PENDING"
  /\ \E compliant \in BOOLEAN : Transfer(Manager, Payee(id), transfers[id].actual, compliant)

Initiation ==
  \E sender \in Wallets \ {Manager}, recipient \in Wallets, amount \in Amount,
     compliant \in BOOLEAN : InitiateTransfer(sender, recipient, amount, compliant)

LEMMA IsSequence ==
  ASSUME NEW n \in Nat, NEW S, NEW list \in [1 .. n -> S]
  PROVE  list \in Seq(S)
OBVIOUS

\* A record in the place of another.
LEMMA Replaced ==
  ASSUME TransfersOK, NEW id \in DOMAIN transfers, NEW request,
         transfers' = [transfers EXCEPT ![id] = request]
  PROVE  /\ transfers' \in Seq(Range(transfers'))
         /\ DOMAIN transfers' = DOMAIN transfers
         /\ \A other \in DOMAIN transfers \ {id} : transfers'[other] = transfers[other]
         /\ transfers'[id] = request
<1> PICK n \in Nat : DOMAIN transfers = 1 .. n
  BY DEF TransfersOK
<1>1. transfers' = [k \in 1 .. n |-> IF k = id THEN request ELSE transfers[k]]
  BY DEF TransfersOK
<1> DEFINE R == Range(transfers')
<1>2. /\ DOMAIN transfers' = 1 .. n
      /\ \A k \in 1 .. n : transfers'[k] = IF k = id THEN request ELSE transfers[k]
  BY <1>1
<1>3. \A k \in 1 .. n : (IF k = id THEN request ELSE transfers[k]) \in R
  BY <1>2 DEF Range
<1> HIDE DEF R
<1>4. transfers' \in [1 .. n -> R]
  BY <1>1, <1>3
<1>5. transfers' \in Seq(R)
  BY <1>4, IsSequence
<1> QED BY <1>2, <1>5 DEF R

\* A pending transfer takes note of approvals, or forgets them.
LEMMA GiveApprovalsStep ==
  ASSUME TransfersOK, NEW id \in DOMAIN transfers, IsPending(id), NEW callers,
         NEW compliant \in BOOLEAN, GiveApprovals(id, callers, compliant)
  PROVE  Noted(id) \/ Settled(id)
<1> DEFINE slots == ApprovedBy(transfers[id].approvers, callers)
           request == [transfers[id] EXCEPT !.approvers = slots]
           settled == [request EXCEPT !.status = "COMPLETED"]
<1>1. \/ Settle(id, settled, request.recipient, compliant)
      \/ transfers' = [transfers EXCEPT ![id] = request] /\ UNCHANGED vars
  BY DEF GiveApprovals
<1>2. DOMAIN transfers[id] = Fields /\ transfers[id].status = "PENDING"
  BY DEF TransfersOK, IsPending
<1> DEFINE old == transfers[id]
<1> HIDE DEF slots
<1>3. /\ DOMAIN request = Fields /\ request.sender = old.sender
      /\ request.recipient = old.recipient /\ request.actual = old.actual
      /\ request.status = "PENDING"
  BY <1>2 DEF Fields
<1>4. /\ DOMAIN settled = Fields /\ settled.sender = old.sender
      /\ settled.recipient = old.recipient /\ settled.actual = old.actual
      /\ settled.status = "COMPLETED"
  BY <1>3 DEF Fields
<1> HIDE DEF request, settled
<1>5. CASE transfers' = [transfers EXCEPT ![id] = request] /\ UNCHANGED vars
  BY <1>2, <1>3, <1>5, Replaced DEF Noted, Touched
<1>6. CASE Settle(id, settled, request.recipient, compliant)
  <2>1. /\ transfers' = [transfers EXCEPT ![id] = settled]
        /\ Transfer(Manager, old.recipient, old.actual, compliant)
    BY <1>3, <1>4, <1>6 DEF Settle
  <2>2. transfers'[id] = settled /\ Touched(id)
    BY <1>2, <1>4, <2>1, Replaced DEF Touched
  <2>3. Payee(id) = old.recipient
    BY <1>4, <2>2 DEF Payee
  <2> QED BY <1>4, <2>1, <2>2, <2>3 DEF Settled
<1> QED BY <1>1, <1>5, <1>6

LEMMA ResetStep ==
  ASSUME TransfersOK, NEW id \in DOMAIN transfers, IsPending(id), ResetApprovals(id)
  PROVE  Noted(id)
<1> DEFINE old == transfers[id]
           slots == Approvers(criteria, old.recipient)
           request == [old EXCEPT !.approvers = slots, !.criteria = criteria]
<1>1. DOMAIN old = Fields /\ old.status = "PENDING"
  BY DEF TransfersOK, IsPending
<1>2. transfers' = [transfers EXCEPT ![id] = request] /\ UNCHANGED vars
  BY DEF ResetApprovals, TransfersOK
<1> HIDE DEF slots
<1>3. /\ DOMAIN request = Fields /\ request.sender = old.sender
      /\ request.recipient = old.recipient /\ request.actual = old.actual
      /\ request.status = "PENDING"
  BY <1>1 DEF Fields
<1> HIDE DEF request
<1> QED BY <1>1, <1>2, <1>3, Replaced DEF Noted, Touched

\* Cancelled or rejected: the units go back.
LEMMA ReturnStep ==
  ASSUME TransfersOK, NEW id \in DOMAIN transfers, IsPending(id),
         NEW compliant \in BOOLEAN, NEW status \in {"CANCELLED", "REJECTED"},
         Settle(id, [transfers[id] EXCEPT !.status = status], transfers[id].sender, compliant)
  PROVE  Settled(id)
<1> DEFINE old == transfers[id]
           request == [old EXCEPT !.status = status]
<1>1. DOMAIN old = Fields
  BY DEF TransfersOK
<1>2. /\ DOMAIN request = Fields /\ request.sender = old.sender
      /\ request.recipient = old.recipient /\ request.actual = old.actual
      /\ request.status = status
  BY <1>1 DEF Fields
<1>3. transfers' = [transfers EXCEPT ![id] = request] /\ Settle(id, request, old.sender, compliant)
  BY DEF Settle
<1> HIDE DEF request
<1>4. Transfer(Manager, old.sender, old.actual, compliant)
  BY <1>2, <1>3 DEF Settle
<1>5. transfers'[id] = request /\ Touched(id)
  BY <1>1, <1>2, <1>3, Replaced DEF Touched
<1>6. Payee(id) = old.sender
  BY <1>2, <1>5 DEF Payee
<1> QED BY <1>2, <1>4, <1>5, <1>6 DEF Settled

\* Whatever is called, one pending transfer is noted or settled, one is
\* initiated, or neither transfers nor token change.
LEMMA ManagerStep ==
  ASSUME TransfersOK, DVANext
  PROVE  \/ \E id \in DOMAIN transfers : Noted(id) \/ Settled(id)
         \/ Initiation
         \/ UNCHANGED <<vars, transfers>>
<1>1. ASSUME NEW agent, NEW c, NEW ordered, SetApprovalCriteria(agent, c, ordered)
      PROVE  UNCHANGED <<vars, transfers>>
  BY <1>1 DEF SetApprovalCriteria
<1>2. ASSUME NEW id \in DOMAIN transfers, NEW compliant \in BOOLEAN, NEW caller,
             ApproveTransfer(id, caller, compliant)
      PROVE  Noted(id) \/ Settled(id)
  BY <1>2, ResetStep, GiveApprovalsStep DEF ApproveTransfer
<1>3. ASSUME NEW id \in DOMAIN transfers, NEW compliant \in BOOLEAN, NEW signers,
             DelegateApproveTransfer(id, signers, compliant)
      PROVE  Noted(id) \/ Settled(id)
  BY <1>3, ResetStep, GiveApprovalsStep DEF DelegateApproveTransfer
<1>4. ASSUME NEW id \in DOMAIN transfers, NEW compliant \in BOOLEAN, NEW caller,
             CancelTransfer(id, caller, compliant)
      PROVE  Settled(id)
  BY <1>4, ReturnStep DEF CancelTransfer
<1>5. ASSUME NEW id \in DOMAIN transfers, NEW compliant \in BOOLEAN, NEW caller,
             RejectTransfer(id, caller, compliant)
      PROVE  Noted(id) \/ Settled(id)
  BY <1>5, ResetStep, ReturnStep DEF RejectTransfer
<1> QED BY <1>1, <1>2, <1>3, <1>4, <1>5, Zenon DEF DVANext, Initiation

(***************************************************************************)
(* The manager is a holder of the token.                                   *)
(***************************************************************************)
LEMMA ManagerHolds == Manager \in Wallets /\ Manager \in Spenders
BY DVAAssumption, TokenAssumption

LEMMA SettledIsToken ==
  ASSUME TransfersOK, NEW id \in DOMAIN transfers, Settled(id)
  PROVE  HolderNext
<1>1. transfers[id].actual \in Amount /\ Payee(id) \in Wallets
  BY DEF TransfersOK, Payee
<1> QED BY <1>1, ManagerHolds, Zenon DEF Settled, HolderNext

LEMMA InitiationIsToken == Initiation => HolderNext
BY ManagerHolds, Zenon DEF Initiation, InitiateTransfer, HolderNext

LEMMA OthersAreToken == OthersNext => HolderNext
<1> SUFFICES ASSUME NEW w \in Wallets, NEW amount \in Amount,
                    \/ \E s \in Spenders :
                         \/ Approve(w, s, amount)
                         \/ IncreaseAllowance(w, s, amount)
                         \/ DecreaseAllowance(w, s, amount)
                    \/ \E to \in Wallets, compliant \in BOOLEAN :
                         \/ Transfer(w, to, amount, compliant)
                         \/ \E s \in Spenders, from \in Wallets :
                              TransferFrom(s, from, to, amount, compliant)
             PROVE  HolderNext
  BY Zenon DEF OthersNext
<1> QED BY Zenon DEF HolderNext

LEMMA StepIsToken ==
  ASSUME TransfersOK, [DVANext \/ TokenNext]_dvaVars
  PROVE  [Next]_vars
<1>1. CASE UNCHANGED dvaVars
  BY <1>1 DEF dvaVars
<1>2. CASE TokenNext
  BY <1>2, OthersAreToken DEF TokenNext, Next
<1>3. CASE DVANext
  <2>1. ASSUME NEW id \in DOMAIN transfers, Noted(id)
        PROVE  UNCHANGED vars
    BY <2>1 DEF Noted
  <2> QED BY <1>3, <2>1, ManagerStep, SettledIsToken, InitiationIsToken, Zenon DEF Next
<1> QED BY <1>1, <1>2, <1>3

LEMMA InitIInv == DVAInit => IInv
<1> SUFFICES ASSUME DVAInit PROVE IInv
  OBVIOUS
<1>1. DOMAIN transfers = 1 .. 0 /\ transfers \in Seq(Range(transfers))
  BY DEF DVAInit
<1> QED BY <1>1, InitTypeOK DEF DVAInit, IInv, TransfersOK

LEMMA Longer ==
  ASSUME NEW S, NEW list \in Seq(S), NEW e, NEW n \in Nat, DOMAIN list = 1 .. n
  PROVE  LET longer == Append(list, e)
         IN /\ longer \in Seq(Range(longer))
            /\ DOMAIN longer = 1 .. n + 1
            /\ \A k \in 1 .. n : longer[k] = list[k]
            /\ longer[n + 1] = e
<1> DEFINE longer == Append(list, e)
           T == S \cup {e}
           R == Range(longer)
<1>1. Len(list) = n /\ list \in [1 .. n -> T]
  OBVIOUS
<1>2. list \in Seq(T) /\ e \in T
  BY <1>1, IsSequence
<1> HIDE DEF T
<1>3. longer \in Seq(T)
  BY <1>2
<1>4. /\ DOMAIN longer = 1 .. n + 1
      /\ \A k \in 1 .. n : longer[k] = list[k]
      /\ longer[n + 1] = e
  BY <1>1
<1> HIDE DEF longer
<1>5. \A k \in 1 .. n + 1 : longer[k] \in R
  BY <1>4 DEF Range
<1> HIDE DEF R
<1>6. longer \in [1 .. n + 1 -> R]
  BY <1>3, <1>4, <1>5
<1>7. longer \in Seq(R)
  BY <1>6, IsSequence
<1> QED BY <1>4, <1>7 DEF R, longer

\* What a new transfer is about.
LEMMA Extended ==
  ASSUME IInv, TypeOK', NEW sender \in Wallets, NEW recipient \in Wallets,
         NEW amount \in Amount, NEW compliant \in BOOLEAN,
         InitiateTransfer(sender, recipient, amount, compliant),
         NEW n \in Nat, DOMAIN transfers = 1 .. n
  PROVE  LET new == transfers'[n + 1]
         IN /\ transfers' \in Seq(Range(transfers'))
            /\ DOMAIN transfers' = 1 .. n + 1
            /\ \A id \in 1 .. n : transfers'[id] = transfers[id]
            /\ DOMAIN new = Fields
            /\ new.sender = sender /\ new.recipient = recipient
            /\ new.status = "PENDING"
            /\ new.actual = Sub(balances'[Manager], balances[Manager])
<1> DEFINE request == Initiated(sender, recipient, Sub(balances'[Manager], balances[Manager]))
<1>1. transfers' = Append(transfers, request)
  BY DEF InitiateTransfer
<1>2. /\ DOMAIN request = Fields /\ request.sender = sender
      /\ request.recipient = recipient /\ request.status = "PENDING"
      /\ request.actual = Sub(balances'[Manager], balances[Manager])
  BY DEF Initiated, Fields
<1> HIDE DEF request
<1>3. transfers \in Seq(Range(transfers))
  BY DEF IInv, TransfersOK
<1> QED BY <1>1, <1>2, <1>3, Longer

LEMMA NextIInv ==
  ASSUME IInv, [DVANext \/ TokenNext]_dvaVars
  PROVE  IInv'
<1>1. TypeOK'
  BY StepIsToken, NextTypeOK DEF IInv
<1>2. CASE UNCHANGED transfers
  BY <1>1, <1>2 DEF IInv, TransfersOK
<1>3. ASSUME NEW id \in DOMAIN transfers, Touched(id)
      PROVE  TransfersOK'
  BY <1>3 DEF IInv, TransfersOK, Touched
<1>4. CASE Initiation
  <2>1. PICK sender \in Wallets, recipient \in Wallets, amount \in Amount,
             compliant \in BOOLEAN : InitiateTransfer(sender, recipient, amount, compliant)
    BY <1>4, Zenon DEF Initiation
  <2>2. PICK n \in Nat : DOMAIN transfers = 1 .. n
    BY DEF IInv, TransfersOK
  <2>3. balances'[Manager] \in Amount /\ balances[Manager] \in Amount
    BY <1>1, ManagerHolds DEF IInv, TypeOK
  <2>4. Sub(balances'[Manager], balances[Manager]) \in Amount
    BY <2>3, AmountClosed
  <2>5. /\ transfers' \in Seq(Range(transfers'))
        /\ DOMAIN transfers' = 1 .. n + 1
        /\ \A id \in 1 .. n : transfers'[id] = transfers[id]
        /\ DOMAIN transfers'[n + 1] = Fields
        /\ transfers'[n + 1].sender \in Wallets
        /\ transfers'[n + 1].recipient \in Wallets
        /\ transfers'[n + 1].actual \in Amount
    BY <1>1, <2>1, <2>2, <2>4, Extended
  <2>6. \A id \in 1 .. n : /\ DOMAIN transfers[id] = Fields
                           /\ transfers[id].sender \in Wallets
                           /\ transfers[id].recipient \in Wallets
                           /\ transfers[id].actual \in Amount
    BY <2>2 DEF IInv, TransfersOK
  <2>7. n + 1 \in Nat /\ \A id \in 1 .. n + 1 : id \in 1 .. n \/ id = n + 1
    BY <2>2
  <2>8. TransfersOK'
    BY <2>5, <2>6, <2>7 DEF TransfersOK
  <2> QED BY <1>1, <2>8 DEF IInv
<1>5. CASE DVANext
  BY <1>1, <1>2, <1>3, <1>4, <1>5, ManagerStep DEF IInv, Noted, Settled
<1>6. CASE TokenNext
  BY <1>2, <1>6 DEF TokenNext
<1>7. CASE UNCHANGED dvaVars
  BY <1>2, <1>7 DEF dvaVars
<1> QED BY <1>5, <1>6, <1>7

LEMMA IInvariant == DVASpec => []IInv
<1>1. IInv /\ [DVANext \/ TokenNext]_dvaVars => IInv'
  BY NextIInv
<1> QED BY <1>1, InitIInv, PTL DEF DVASpec

\* A token whose manager keeps units in escrow is a token: deposits,
\* settlements, pauses and seizures are steps of Spec, so the supply, the
\* frozen amounts and the rules of who gains and loses units hold of it.
THEOREM DVAIsToken == DVASpec => Spec
<1>1. DVAInit => Init
  BY DEF DVAInit
<1>2. IInv /\ [DVANext \/ TokenNext]_dvaVars => [Next]_vars
  BY StepIsToken DEF IInv
<1> QED BY <1>1, <1>2, IInvariant, PTL DEF DVASpec, Spec

(***************************************************************************)
(* Escrow.  Units leave the manager's wallet by its own settlements, or    *)
(* they are seized; they never leave it by anybody else's transfer, and a  *)
(* new transfer is owed what its deposit has added.                        *)
(***************************************************************************)
LEMMA HolderPays ==
  ASSUME TypeOK, LedgerInv, ~inflated',
         NEW from \in Wallets, NEW to \in Wallets, NEW amount \in Amount,
         NEW compliant \in BOOLEAN,
         MoveUnits(from, to, Transferable(from, amount, compliant)),
         NEW w \in Wallets, balances'[w] < balances[w]
  PROVE  w = from
<1>1. /\ Transferable(from, amount, compliant) \in Amount
      /\ ~inflated => Transferable(from, amount, compliant) <= balances[from]
  BY SelectedType, TransferableFits
<1> QED BY <1>1, DebitCredit

\* A step of the token that is not the manager's.
LEMMA OthersSeize ==
  ASSUME TypeOK, LedgerInv, ~inflated', TokenNext, balances'[Manager] < balances[Manager]
  PROVE  Seized
<1>1. UNCHANGED <<criteria, sequential, transfers>>
  BY DEF TokenNext
<1>2. balances[Manager] \in Nat /\ Manager \in Wallets
  BY ManagerHolds, WordAssumption DEF TypeOK, Amount
<1>3. ~(UNCHANGED balances)
  BY <1>2
<1>4. CASE OthersNext
  <2>1. PICK w \in Wallets \ {Manager}, amount \in Amount :
          \/ \E s \in Spenders : \/ Approve(w, s, amount)
                                 \/ IncreaseAllowance(w, s, amount)
                                 \/ DecreaseAllowance(w, s, amount)
          \/ \E to \in Wallets, compliant \in BOOLEAN :
               \/ Transfer(w, to, amount, compliant)
               \/ \E s \in Spenders \ {Manager}, from \in Wallets :
                    TransferFrom(s, from, to, amount, compliant)
    BY <1>4, Zenon DEF OthersNext
  <2>2. ASSUME NEW s \in Spenders, \/ Approve(w, s, amount)
                                   \/ IncreaseAllowance(w, s, amount)
                                   \/ DecreaseAllowance(w, s, amount)
        PROVE  FALSE
    BY <1>3, <2>2 DEF Approve, IncreaseAllowance, DecreaseAllowance, amountVars
  <2>3. ASSUME NEW to \in Wallets, NEW compliant \in BOOLEAN,
               Transfer(w, to, amount, compliant)
        PROVE  FALSE
    BY <1>2, <2>1, <2>3, HolderPays DEF Transfer
  <2>4. ASSUME NEW to \in Wallets, NEW compliant \in BOOLEAN,
               NEW s \in Spenders \ {Manager}, NEW from \in Wallets,
               TransferFrom(s, from, to, amount, compliant)
        PROVE  Seized
    BY <1>1, <2>4 DEF TransferFrom, Seized
  <2> QED BY <2>1, <2>2, <2>3, <2>4
<1>5. CASE AgentNext
  <2>1. PICK agent \in agents :
          \/ Pause(agent)
          \/ Unpause(agent)
          \/ \E v \in Wallets, amount \in Amount :
               \/ \E to \in Wallets : ForcedTransfer(agent, v, to, amount)
               \/ \E compliant \in BOOLEAN : Mint(agent, v, amount, compliant)
               \/ Burn(agent, v, amount)
               \/ FreezePartialTokens(agent, v, amount)
               \/ UnfreezePartialTokens(agent, v, amount)
          \/ \E v \in Wallets, freeze \in BOOLEAN : SetAddressFrozen(agent, v, freeze)
          \/ \E lost, new \in Wallets, id \in Identities :
               RecoveryAddress(agent, lost, new, id)
    BY <1>5, Zenon DEF AgentNext
  <2>2. ASSUME NEW from \in Wallets, NEW to \in Wallets, NEW amount \in Amount,
               ForcedTransfer(agent, from, to, amount)
        PROVE  Seized
    BY <1>1, <2>2 DEF ForcedTransfer, Seized, AgentMoves
  <2>3. ASSUME NEW v \in Wallets, NEW amount \in Amount, NEW compliant \in BOOLEAN,
               Mint(agent, v, amount, compliant)
        PROVE  FALSE
    <3> DEFINE units == Select(compliant, amount, 0)
    <3>1. /\ balances' = [balances EXCEPT ![v] = Add(@, units)]
          /\ ~inflated /\ totalSupply + units < Word
      BY <2>3, WordAssumption DEF Mint, Select, TypeOK, Amount
    <3>2. units \in Amount /\ units \in Nat
      BY WordAssumption DEF Select, Amount
    <3> HIDE DEF units
    <3>3. balances[v] \in Amount /\ balances[v] \in Nat /\ balances[v] <= totalSupply
          /\ totalSupply \in Nat
      BY <3>1, BalancesFit DEF TypeOK
    <3>4. balances[v] + units < Word
      BY <3>1, <3>2, <3>3, WordAssumption
    <3>5. Add(balances[v], units) = balances[v] + units
      BY <3>2, <3>3, <3>4, ExactArithmetic
    <3>6. balances'[Manager] = IF v = Manager THEN balances[v] + units ELSE balances[Manager]
      BY <1>2, <3>1, <3>5 DEF TypeOK
    <3> QED BY <1>2, <3>2, <3>3, <3>6
  <2>4. ASSUME NEW v \in Wallets, NEW amount \in Amount, Burn(agent, v, amount)
        PROVE  Seized
    BY <1>1, <2>4 DEF Burn, Seized, AgentMoves
  <2>5. ASSUME NEW lost \in Wallets, NEW new \in Wallets, NEW id \in Identities,
               RecoveryAddress(agent, lost, new, id)
        PROVE  Seized
    BY <1>1, <2>5 DEF RecoveryAddress, Seized, AgentMoves
  <2>6. Pause(agent) \/ Unpause(agent) => FALSE
    BY <1>3 DEF Pause, Unpause, amountVars
  <2>7. ASSUME NEW v \in Wallets, NEW freeze \in BOOLEAN, SetAddressFrozen(agent, v, freeze)
        PROVE  FALSE
    BY <1>3, <2>7 DEF SetAddressFrozen, amountVars
  <2>8. ASSUME NEW v \in Wallets, NEW amount \in Amount,
               FreezePartialTokens(agent, v, amount) \/ UnfreezePartialTokens(agent, v, amount)
        PROVE  FALSE
    BY <1>3, <2>8 DEF FreezePartialTokens, UnfreezePartialTokens
  <2> QED BY <2>1, <2>2, <2>3, <2>4, <2>5, <2>6, <2>7, <2>8
<1>6. OthersNext \/ AgentNext
  BY <1>3, ControlFrame DEF TokenNext, amountVars
<1> QED BY <1>4, <1>5, <1>6

\* What is owed for a new transfer is what its deposit has added.
LEMMA Deposited ==
  ASSUME TypeOK, TypeOK', LedgerInv, ~inflated',
         NEW sender \in Wallets \ {Manager}, NEW recipient \in Wallets,
         NEW amount \in Amount, NEW compliant \in BOOLEAN,
         InitiateTransfer(sender, recipient, amount, compliant)
  PROVE  /\ balances'[Manager] >= balances[Manager]
         /\ Sub(balances'[Manager], balances[Manager]) = balances'[Manager] - balances[Manager]
<1>1. balances[Manager] \in Amount /\ balances'[Manager] \in Amount /\ Manager \in Wallets
  BY ManagerHolds DEF TypeOK
<1>2. MoveUnits(sender, Manager, Transferable(sender, amount, compliant))
  BY DEF InitiateTransfer, TransferFrom
<1>3. ~(balances'[Manager] < balances[Manager])
  BY <1>1, <1>2, HolderPays
<1>4. balances'[Manager] >= balances[Manager]
  BY <1>1, <1>3, WordAssumption DEF Amount
<1> QED BY <1>1, <1>4, ExactArithmetic

\* A settlement pays what is owed to the payee, or nothing.
LEMMA Paid ==
  ASSUME IInv, LedgerInv, ~inflated', NEW id \in DOMAIN transfers, Settled(id)
  PROVE  \/ balances'[Manager] >= balances[Manager]
         \/ /\ balances'[Manager] = balances[Manager] - transfers[id].actual
            /\ balances'[Payee(id)] = balances[Payee(id)] + transfers[id].actual
<1> DEFINE owed == transfers[id].actual
           payee == Payee(id)
<1>1. PICK compliant \in BOOLEAN : Transfer(Manager, payee, owed, compliant)
  BY Zenon DEF Settled
<1> DEFINE units == Transferable(Manager, owed, compliant)
<1>2. owed \in Amount /\ payee \in Wallets /\ Manager \in Wallets /\ TypeOK
  BY ManagerHolds DEF IInv, TransfersOK, Payee
<1> HIDE DEF owed, payee
<1>3. MoveUnits(Manager, payee, units)
  BY <1>1 DEF Transfer
<1>4. units \in Amount /\ (~inflated => units <= balances[Manager])
  BY <1>2, SelectedType, TransferableFits
<1>5. units = owed \/ units = 0
  BY DEF Transferable, SelectLeSub, Select
<1> HIDE DEF units
<1>6. ~inflated
  BY <1>2, <1>3, <1>4, DebitCredit
<1>7. CASE Manager # payee
  <2>1. balances' = [balances EXCEPT ![Manager] = @ - units, ![payee] = @ + units]
    BY <1>2, <1>3, <1>4, <1>6, <1>7, ExactMove DEF MoveUnits
  <2>2. /\ balances'[Manager] = balances[Manager] - units
        /\ balances'[payee] = balances[payee] + units
    BY <1>2, <1>7, <2>1 DEF TypeOK
  <2>3. balances[Manager] \in Nat
    BY <1>2, WordAssumption DEF TypeOK, Amount
  <2> QED BY <1>5, <2>2, <2>3 DEF owed, payee
<1>8. CASE Manager = payee
  <2>1. units = 0 /\ balances' = BalancesAfter(Manager, Manager, units)
    BY <1>3, <1>8 DEF MoveUnits
  <2>2. balances[Manager] \in Amount
    BY <1>2 DEF TypeOK
  <2>3. balances'[Manager] = balances[Manager]
    BY <1>2, <2>1, <2>2, WordAssumption DEF BalancesAfter, Add, Sub, Amount, TypeOK
  <2> QED BY <2>2, <2>3, WordAssumption DEF Amount
<1> QED BY <1>7, <1>8

(***************************************************************************)
(* What is owed, before and after.                                         *)
(***************************************************************************)
Pending == {id \in DOMAIN transfers : IsPending(id)}
Owed == [id \in Pending |-> transfers[id].actual]

\* Of any list of transfers, since it is needed of the list before a step and
\* of the list after it.
LEMMA OwedOfList ==
  ASSUME NEW list, NEW n \in Nat, DOMAIN list = 1 .. n,
         \A id \in 1 .. n : list[id].actual \in Amount
  PROVE  LET open == {id \in DOMAIN list : list[id].status = "PENDING"}
             owed == [id \in open |-> list[id].actual]
         IN IsFiniteSet(open) /\ owed \in [open -> Nat] /\ SumOf(owed) \in Nat
<1> DEFINE open == {id \in DOMAIN list : list[id].status = "PENDING"}
           owed == [id \in open |-> list[id].actual]
<1>1. IsFiniteSet(DOMAIN list) /\ open \subseteq DOMAIN list
  BY FS_Interval
<1>2. IsFiniteSet(open)
  BY <1>1, FS_Subset
<1>3. \A id \in open : list[id].actual \in Nat
  BY <1>1, WordAssumption DEF Amount
<1>4. owed \in [open -> Nat]
  BY <1>3
<1> HIDE DEF owed, open
<1>5. SumOf(owed) \in Nat
  BY <1>2, <1>4, UnitsFinite
<1> QED BY <1>2, <1>4, <1>5 DEF owed, open

LEMMA OwedType ==
  ASSUME TransfersOK
  PROVE  /\ IsFiniteSet(Pending) /\ Owed \in [Pending -> Nat]
         /\ Escrow = SumOf(Owed) /\ Escrow \in Nat
<1> PICK n \in Nat : DOMAIN transfers = 1 .. n
  BY DEF TransfersOK
<1>1. \A id \in 1 .. n : transfers[id].actual \in Amount
  BY DEF TransfersOK
<1> QED BY <1>1, OwedOfList DEF Pending, Owed, Escrow, IsPending

LEMMA OwedTypeNext ==
  ASSUME TransfersOK'
  PROVE  /\ IsFiniteSet(Pending') /\ Owed' \in [Pending' -> Nat]
         /\ Escrow' = SumOf(Owed') /\ Escrow' \in Nat
<1> PICK n \in Nat : DOMAIN transfers' = 1 .. n
  BY DEF TransfersOK
<1>1. \A id \in 1 .. n : transfers'[id].actual \in Amount
  BY DEF TransfersOK
<1> QED BY <1>1, OwedOfList DEF Pending, Owed, Escrow, IsPending

LEMMA NotedOwes ==
  ASSUME NEW id \in DOMAIN transfers, Noted(id)
  PROVE  Escrow' = Escrow
<1>1. Pending' = Pending
  BY DEF Noted, Touched, Pending, IsPending
<1>2. \A other \in Pending : transfers'[other].actual = transfers[other].actual
  BY DEF Noted, Touched, Pending
<1>3. Owed' = Owed
  BY <1>1, <1>2 DEF Owed
<1>4. Escrow = SumOf(Owed) /\ Escrow' = SumOf(Owed')
  BY DEF Escrow, Owed, Pending
<1> QED BY <1>3, <1>4

LEMMA SettledOwes ==
  ASSUME TransfersOK, TransfersOK', NEW id \in DOMAIN transfers, Settled(id)
  PROVE  Escrow' \in Nat /\ Escrow = Escrow' + transfers[id].actual
<1>1. Pending = Pending' \cup {id} /\ id \notin Pending'
  BY DEF Settled, Touched, Pending, IsPending
<1>2. /\ IsFiniteSet(Pending') /\ Owed' \in [Pending' -> Nat] /\ Escrow' = SumOf(Owed')
      /\ Owed \in [Pending' \cup {id} -> Nat] /\ Escrow = SumOf(Owed)
  BY <1>1, OwedType, OwedTypeNext
<1>3. \A other \in Pending' : Owed[other] = Owed'[other]
  BY <1>1 DEF Settled, Touched, Pending, Owed
<1>4. Owed[id] = transfers[id].actual
  BY <1>1 DEF Owed
<1> QED BY <1>1, <1>2, <1>3, <1>4, SumExtend

LEMMA InitiatedOwes ==
  ASSUME IInv, IInv', NEW sender \in Wallets, NEW recipient \in Wallets,
         NEW amount \in Amount, NEW compliant \in BOOLEAN,
         InitiateTransfer(sender, recipient, amount, compliant)
  PROVE  Escrow \in Nat /\ Escrow' = Escrow + Sub(balances'[Manager], balances[Manager])
<1> PICK n \in Nat : DOMAIN transfers = 1 .. n
  BY DEF IInv, TransfersOK
<1> DEFINE new == n + 1
<1>1. /\ DOMAIN transfers' = 1 .. new
      /\ \A id \in 1 .. n : transfers'[id] = transfers[id]
      /\ transfers'[new].status = "PENDING"
      /\ transfers'[new].actual = Sub(balances'[Manager], balances[Manager])
  BY Extended DEF IInv
<1>2. Pending' = Pending \cup {new} /\ new \notin Pending
  BY <1>1 DEF Pending, IsPending
<1> HIDE DEF new
<1>3. /\ IsFiniteSet(Pending) /\ Owed \in [Pending -> Nat] /\ Escrow = SumOf(Owed)
      /\ Owed' \in [Pending \cup {new} -> Nat] /\ Escrow' = SumOf(Owed')
  BY <1>2, OwedType, OwedTypeNext DEF IInv
<1>4. \A id \in Pending : Owed'[id] = Owed[id]
  BY <1>1, <1>2 DEF Owed, Pending
<1>5. Owed'[new] = Sub(balances'[Manager], balances[Manager])
  BY <1>1, <1>2 DEF Owed
<1> QED BY <1>2, <1>3, <1>4, <1>5, SumExtend

(***************************************************************************)
(* One step of the suite.                                                  *)
(***************************************************************************)
LEMMA CoverStep ==
  ASSUME IInv, IInv', LedgerInv, [DVANext \/ TokenNext]_dvaVars,
         Covered, ~inflated', ~Covered'
  PROVE  Seized
<1>1. balances[Manager] \in Nat /\ balances'[Manager] \in Nat
  BY ManagerHolds, WordAssumption DEF IInv, TypeOK, Amount
<1>2. Escrow \in Nat /\ Escrow' \in Nat
  BY OwedType, OwedTypeNext DEF IInv
<1>3. Escrow <= balances[Manager] /\ ~(Escrow' <= balances'[Manager])
  BY DEF Covered
<1>4. CASE UNCHANGED <<vars, transfers>>
  BY <1>3, <1>4 DEF Escrow, IsPending, vars, amountVars
<1>5. CASE UNCHANGED dvaVars
  BY <1>4, <1>5 DEF dvaVars
<1>6. CASE TokenNext
  <2>1. Escrow' = Escrow
    BY <1>6 DEF TokenNext, Escrow, IsPending
  <2>2. balances'[Manager] < balances[Manager]
    BY <1>1, <1>2, <1>3, <2>1
  <2> QED BY <1>6, <2>2, OthersSeize DEF IInv
<1>7. ASSUME NEW id \in DOMAIN transfers, Noted(id) PROVE FALSE
  BY <1>3, <1>7, NotedOwes DEF Noted, vars, amountVars
<1>8. ASSUME NEW id \in DOMAIN transfers, Settled(id) PROVE FALSE
  <2>1. Escrow = Escrow' + transfers[id].actual /\ transfers[id].actual \in Nat
    BY <1>8, SettledOwes, WordAssumption DEF IInv, TransfersOK, Amount
  <2>2. \/ balances'[Manager] >= balances[Manager]
        \/ balances'[Manager] = balances[Manager] - transfers[id].actual
    BY <1>8, Paid
  <2> QED BY <1>1, <1>2, <1>3, <2>1, <2>2
<1>9. CASE Initiation
  <2>1. PICK sender \in Wallets \ {Manager}, recipient \in Wallets, amount \in Amount,
             compliant \in BOOLEAN : InitiateTransfer(sender, recipient, amount, compliant)
    BY <1>9, Zenon DEF Initiation
  <2>2. Escrow' = Escrow + Sub(balances'[Manager], balances[Manager])
    BY <2>1, InitiatedOwes
  <2>3. Sub(balances'[Manager], balances[Manager]) = balances'[Manager] - balances[Manager]
    BY <2>1, Deposited DEF IInv
  <2> QED BY <1>1, <1>2, <1>3, <2>2, <2>3
<1> QED BY <1>4, <1>5, <1>6, <1>7, <1>8, <1>9, ManagerStep, Zenon DEF IInv

\* The statement of SettledOnce for one step.
PaysOne(id) ==
  LET t == transfers[id]
      payee == IF transfers'[id].status = "COMPLETED" THEN t.recipient ELSE t.sender
  IN /\ IsPending(id) /\ ~IsPending(id)'
     /\ \A other \in DOMAIN transfers \ {id} : transfers'[other] = transfers[other]
     /\ balances'[Manager] = balances[Manager] - t.actual
     /\ balances'[payee] = balances[payee] + t.actual

LEMMA SettledStays ==
  ASSUME IInv, IInv', [DVANext \/ TokenNext]_dvaVars, NEW id \in DOMAIN transfers, ~IsPending(id)
  PROVE  transfers'[id] = transfers[id]
<1>1. CASE UNCHANGED transfers
  BY <1>1
<1>2. ASSUME NEW touched \in DOMAIN transfers, Touched(touched)
      PROVE  transfers'[id] = transfers[id]
  BY <1>2 DEF Touched
<1>3. CASE Initiation
  <2>1. PICK n \in Nat : DOMAIN transfers = 1 .. n
    BY DEF IInv, TransfersOK
  <2>2. \A k \in 1 .. n : transfers'[k] = transfers[k]
    BY <1>3, <2>1, Extended DEF Initiation, IInv
  <2> QED BY <2>1, <2>2
<1>4. CASE TokenNext \/ UNCHANGED dvaVars
  BY <1>1, <1>4 DEF TokenNext, dvaVars
<1>5. CASE DVANext
  BY <1>1, <1>2, <1>3, <1>5, ManagerStep DEF IInv, Noted, Settled
<1> QED BY <1>4, <1>5

LEMMA PayStep ==
  ASSUME IInv, IInv', LedgerInv, [DVANext \/ TokenNext]_dvaVars,
         ~inflated', balances'[Manager] < balances[Manager], ~Seized
  PROVE  \E id \in DOMAIN transfers : PaysOne(id)
<1>1. balances[Manager] \in Nat /\ balances'[Manager] \in Nat
  BY ManagerHolds, WordAssumption DEF IInv, TypeOK, Amount
<1>2. ~(UNCHANGED vars)
  BY <1>1 DEF vars, amountVars
<1>3. ~TokenNext /\ ~(UNCHANGED dvaVars)
  BY <1>2, OthersSeize DEF IInv, dvaVars
<1>4. ~Initiation
  <2> SUFFICES ASSUME NEW sender \in Wallets \ {Manager}, NEW recipient \in Wallets,
                      NEW amount \in Amount, NEW compliant \in BOOLEAN,
                      InitiateTransfer(sender, recipient, amount, compliant)
               PROVE  FALSE
    BY Zenon DEF Initiation
  <2> QED BY <1>1, Deposited DEF IInv
<1>5. PICK id \in DOMAIN transfers : Settled(id)
  BY <1>2, <1>3, <1>4, ManagerStep DEF IInv, Noted
<1>6. /\ balances'[Manager] = balances[Manager] - transfers[id].actual
      /\ balances'[Payee(id)] = balances[Payee(id)] + transfers[id].actual
  BY <1>1, <1>5, Paid
<1>7. PaysOne(id)
  BY <1>5, <1>6 DEF PaysOne, Payee, Settled, Touched, IsPending
<1> QED BY <1>7

(***************************************************************************)
(* The theorems.                                                           *)
(***************************************************************************)

\* DVATransferManager holds the units of every pending transfer, however many
\* there are and whatever share of the amounts asked for arrived: deposits,
\* approvals, cancellations and rejections keep them covered, and so does
\* every other step of the token but a seizure from the manager's wallet.
THEOREM EscrowStaysCovered == DVASpec => EscrowCovered
<1>1. IInv /\ IInv' /\ LedgerInv /\ [DVANext \/ TokenNext]_dvaVars =>
        [Covered /\ ~inflated' /\ ~Covered' => Seized]_dvaVars
  BY CoverStep
<1> QED BY <1>1, IInvariant, DVAIsToken, LedgerInvariant, PTL DEF DVASpec, EscrowCovered

\* Approvals, cancellation and rejection settle a transfer once: it never
\* changes again, and the units that leave the manager's wallet are exactly
\* those that arrived for it, paid to whom its final status says.
THEOREM TransfersSettleOnce == DVASpec => SettledOnce
<1>1. IInv /\ IInv' /\ LedgerInv /\ [DVANext \/ TokenNext]_dvaVars =>
        [ /\ \A id \in DOMAIN transfers : ~IsPending(id) => transfers'[id] = transfers[id]
          /\ ~inflated' /\ balances'[Manager] < balances[Manager] /\ ~Seized =>
               \E id \in DOMAIN transfers :
                 LET t == transfers[id]
                     payee == IF transfers'[id].status = "COMPLETED"
                              THEN t.recipient ELSE t.sender
                 IN /\ IsPending(id) /\ ~IsPending(id)'
                    /\ \A other \in DOMAIN transfers \ {id} : transfers'[other] = transfers[other]
                    /\ balances'[Manager] = balances[Manager] - t.actual
                    /\ balances'[payee] = balances[payee] + t.actual ]_dvaVars
  BY SettledStays, PayStep DEF PaysOne
<1> QED BY <1>1, IInvariant, DVAIsToken, LedgerInvariant, PTL DEF DVASpec, SettledOnce

(***************************************************************************)
(* Approvals.  One approval fills one open slot of a list or refuses the   *)
(* list; a delegated approval is a loop of them.  Whatever the loop makes  *)
(* of a list, nobody's place in it changes hands.                          *)
(***************************************************************************)

\* An agent's slot is still open, was approved by an agent, or was filled by an
\* invalid signature.
Lawful(slot) ==
  slot.anyAgent => slot.wallet = NoWallet \/ (slot.approved /\ slot.byAgent)

\* What approvals make of a list: the same approvers, nobody's approval taken
\* back, and in sequence nobody's before those ahead.
Advanced(before, after) ==
  /\ Len(after) = Len(before)
  /\ \A k \in DOMAIN before :
       /\ after[k].anyAgent = before[k].anyAgent
       /\ before[k].anyAgent \/ after[k].wallet = before[k].wallet
       /\ before[k].approved => after[k].approved
       /\ Lawful(before[k]) => Lawful(after[k])
  /\ sequential =>
       \A k \in DOMAIN before :
         after[k].approved /\ ~before[k].approved =>
           \A j \in 1 .. k - 1 : after[j].approved

LEMMA AdvancedReflexive ==
  ASSUME NEW list \in Seq(Slot)
  PROVE  Advanced(list, list)
BY DEF Advanced

LEMMA AdvancedTransitive ==
  ASSUME NEW a \in Seq(Slot), NEW b \in Seq(Slot), NEW c \in Seq(Slot),
         Advanced(a, b), Advanced(b, c)
  PROVE  Advanced(a, c)
<1> DOMAIN a = DOMAIN b /\ DOMAIN b = DOMAIN c /\ DOMAIN a = 1 .. Len(a)
  BY DEF Advanced
<1>1. Len(c) = Len(a)
  BY DEF Advanced
<1>2. \A k \in DOMAIN a : /\ c[k].anyAgent = a[k].anyAgent
                          /\ a[k].anyAgent \/ c[k].wallet = a[k].wallet
                          /\ a[k].approved => c[k].approved
                          /\ Lawful(a[k]) => Lawful(c[k])
  BY DEF Advanced
<1>3. ASSUME sequential, NEW k \in DOMAIN a, c[k].approved, ~a[k].approved
      PROVE  \A j \in 1 .. k - 1 : c[j].approved
  <2> TAKE j \in 1 .. k - 1
  <2>1. j \in DOMAIN a
    OBVIOUS
  <2>2. CASE b[k].approved
    BY <1>3, <2>1, <2>2 DEF Advanced
  <2>3. CASE ~b[k].approved
    BY <1>3, <2>1, <2>3 DEF Advanced
  <2> QED BY <2>2, <2>3
<1> QED BY <1>1, <1>2, <1>3 DEF Advanced

LEMMA FilledRecord ==
  ASSUME NEW W,
         NEW old \in [wallet : W, anyAgent : BOOLEAN, approved : BOOLEAN, byAgent : BOOLEAN],
         NEW owner \in W, NEW by \in BOOLEAN
  PROVE  LET slot == [old EXCEPT !.approved = TRUE, !.byAgent = by, !.wallet = owner]
         IN /\ slot \in [wallet : W, anyAgent : BOOLEAN, approved : BOOLEAN, byAgent : BOOLEAN]
            /\ slot.wallet = owner /\ slot.anyAgent = old.anyAgent
            /\ slot.byAgent = by /\ slot.approved
OBVIOUS

LEMMA FilledSlot ==
  ASSUME NEW old \in Slot, NEW caller \in Signers
  PROVE  /\ Filled(old, caller) \in Slot
         /\ Filled(old, caller).wallet = IF old.wallet = NoWallet THEN caller ELSE old.wallet
         /\ Filled(old, caller).anyAgent = old.anyAgent
         /\ Filled(old, caller).byAgent = (old.anyAgent /\ caller \in agents)
         /\ Filled(old, caller).approved
<1> DEFINE W == Wallets \cup Signers
           S == [wallet : W, anyAgent : BOOLEAN, approved : BOOLEAN, byAgent : BOOLEAN]
           owner == IF old.wallet = NoWallet THEN caller ELSE old.wallet
           by == old.anyAgent /\ caller \in agents
<1>1. Slot = S /\ owner \in W /\ by \in BOOLEAN
  BY DEF Slot
<1>2. Filled(old, caller) = [old EXCEPT !.approved = TRUE, !.byAgent = by, !.wallet = owner]
  BY Zenon DEF Filled
<1> HIDE DEF W, owner, by
<1>3. LET slot == [old EXCEPT !.approved = TRUE, !.byAgent = by, !.wallet = owner]
      IN /\ slot \in S
         /\ slot.wallet = owner /\ slot.anyAgent = old.anyAgent
         /\ slot.byAgent = by /\ slot.approved
  BY <1>1, FilledRecord, Zenon
<1> QED BY <1>1, <1>2, <1>3, Zenon DEF owner, by

LEMMA OneApproval ==
  ASSUME NEW slots \in Seq(Slot), NEW caller \in Signers
  PROVE  LET next == Approved(slots, caller)
         IN /\ next \in Seq(Slot)
            /\ next = Refused \/ Advanced(slots, next)
<1>1. CASE slots = Refused \/ Unapproved(slots) = {}
  BY <1>1, AdvancedReflexive DEF Approved
<1>2. CASE /\ ~(slots = Refused \/ Unapproved(slots) = {})
           /\ Answerable(slots, caller) = {}
  BY <1>2 DEF Approved, Refused
<1>3. CASE /\ ~(slots = Refused \/ Unapproved(slots) = {})
           /\ Answerable(slots, caller) # {}
  <2> DEFINE p == CHOOSE q \in Answerable(slots, caller) : TRUE
             old == slots[p]
             slot == Filled(old, caller)
             next == Approved(slots, caller)
  <2>1. p \in Answerable(slots, caller)
    BY <1>3
  <2>2. next = [slots EXCEPT ![p] = slot]
    BY <1>3, Zenon DEF Approved
  <2> HIDE DEF p, next
  <2>3. /\ p \in DOMAIN slots /\ ~old.approved /\ old \in Slot
        /\ CanApprove(old, caller)
        /\ sequential => \A q \in Unapproved(slots) : ~(q < p)
    BY <2>1 DEF Answerable, Unapproved
  <2>4. /\ slot \in Slot
        /\ slot.wallet = IF old.wallet = NoWallet THEN caller ELSE old.wallet
        /\ slot.anyAgent = old.anyAgent /\ slot.approved
        /\ slot.byAgent = (old.anyAgent /\ caller \in agents)
    BY <2>3, FilledSlot, Zenon
  <2> HIDE DEF slot
  <2>7. /\ next \in Seq(Slot) /\ Len(next) = Len(slots)
        /\ \A k \in DOMAIN slots : next[k] = IF k = p THEN slot ELSE slots[k]
    BY <2>2, <2>3, <2>4
  <2>8. /\ slot.anyAgent = old.anyAgent /\ slot.approved
        /\ old.anyAgent \/ slot.wallet = old.wallet
        /\ Lawful(old) => Lawful(slot)
    BY <2>3, <2>4 DEF CanApprove, Lawful
  <2>9. ASSUME sequential, NEW k \in DOMAIN slots, next[k].approved, ~slots[k].approved
        PROVE  \A j \in 1 .. k - 1 : next[j].approved
    <3>1. k = p
      BY <2>7, <2>9
    <3>2. \A j \in 1 .. p - 1 : j \in DOMAIN slots /\ slots[j].approved
      BY <2>3, <2>9 DEF Unapproved
    <3> QED BY <2>7, <2>8, <3>1, <3>2
  <2>10. Advanced(slots, next)
    BY <2>3, <2>7, <2>8, <2>9 DEF Advanced
  <2> QED BY <2>7, <2>10 DEF next
<1> QED BY <1>1, <1>2, <1>3

LEMMA ApprovalHistory ==
  ASSUME NEW slots \in Seq(Slot), NEW m \in Nat, NEW callers \in [1 .. m -> Signers]
  PROVE  \E after \in [0 .. m -> Seq(Slot)] :
           /\ after[0] = slots
           /\ \A n \in 1 .. m : after[n] = Approved(after[n - 1], callers[n])
           /\ ApprovedBy(slots, callers) = after[m]
<1> DEFINE round == [n \in 1 .. m |-> [s \in Seq(Slot) |-> Approved(s, callers[n])]]
<1>1. \A n \in 1 .. m, s \in Seq(Slot) : Approved(s, callers[n]) \in Seq(Slot)
  BY OneApproval
<1>2. round \in [1 .. m -> [Seq(Slot) -> Seq(Slot)]]
  BY <1>1
<1> DEFINE Lists == Seq(Slot)
<1>3. PICK g : IsHistory(g, m, Lists, slots, round)
  <2>1. m \in Nat /\ slots \in Lists /\ round \in [1 .. m -> [Lists -> Lists]]
    BY <1>2
  <2> HIDE DEF round, Lists
  <2> QED BY <2>1, LoopHistory
<1>4. \A n \in 1 .. m : g[n] = Approved(g[n - 1], callers[n])
  <2> TAKE n \in 1 .. m
  <2>1. n - 1 \in 0 .. m
    OBVIOUS
  <2>2. g[n - 1] \in Seq(Slot)
    BY <1>3, <2>1 DEF IsHistory
  <2> QED BY <1>3, <2>2 DEF IsHistory
<1> DEFINE IsLoop(f) ==
             f = [n \in 0 .. m |-> IF n = 0 THEN slots ELSE Approved(f[n - 1], callers[n])]
           after == CHOOSE f : IsLoop(f)
<1>5. IsLoop(g)
  BY <1>3, <1>4 DEF IsHistory
<1>6. IsLoop(after)
  <2> HIDE DEF IsLoop
  <2> QED BY <1>5
<1>7. m = Len(callers)
  OBVIOUS
<1>8. ApprovedBy(slots, callers) = after[m]
  BY <1>7, Zenon DEF ApprovedBy
<1> HIDE DEF after
<1>9. /\ DOMAIN after = 0 .. m /\ after[0] = slots
      /\ \A n \in 1 .. m : after[n] = Approved(after[n - 1], callers[n])
  BY <1>6
<1> DEFINE Good == {n \in 0 .. m : after[n] \in Seq(Slot)}
<1>10. ASSUME NEW n \in 0 .. m, n # m, n \in Good
       PROVE  n + 1 \in Good
  BY <1>9, <1>10, OneApproval
<1>11. Good = 0 .. m
  <2>1. 0 \in Good /\ Good \in SUBSET (0 .. m)
    BY <1>9
  <2> HIDE DEF Good
  <2> QED BY <1>10, <2>1, InductionUpTo
<1>12. after \in [0 .. m -> Seq(Slot)]
  BY <1>6, <1>11
<1> QED BY <1>8, <1>9, <1>12

LEMMA ApprovalsAdvance ==
  ASSUME NEW slots \in Seq(Slot), NEW m \in Nat, NEW callers \in [1 .. m -> Signers]
  PROVE  LET next == ApprovedBy(slots, callers)
         IN /\ next \in Seq(Slot)
            /\ next = Refused \/ Advanced(slots, next)
<1>1. PICK after \in [0 .. m -> Seq(Slot)] :
             /\ after[0] = slots
             /\ \A n \in 1 .. m : after[n] = Approved(after[n - 1], callers[n])
             /\ ApprovedBy(slots, callers) = after[m]
  BY ApprovalHistory
<1> DEFINE Good == {n \in 0 .. m : after[n] = Refused \/ Advanced(slots, after[n])}
<1>2. 0 \in Good
  BY <1>1, AdvancedReflexive
<1>3. ASSUME NEW n \in 0 .. m, n # m, n \in Good
      PROVE  n + 1 \in Good
  <2>1. /\ n + 1 \in 1 .. m /\ after[n] \in Seq(Slot) /\ after[n + 1] \in Seq(Slot)
        /\ after[n + 1] = Approved(after[n], callers[n + 1])
        /\ callers[n + 1] \in Signers
    BY <1>1, <1>3
  <2>2. CASE after[n] = Refused
    BY <2>1, <2>2 DEF Approved
  <2>3. CASE Advanced(slots, after[n])
    BY <2>1, <2>3, OneApproval, AdvancedTransitive
  <2> QED BY <1>3, <2>1, <2>2, <2>3
<1>4. Good = 0 .. m
  <2>1. Good \in SUBSET (0 .. m)
    OBVIOUS
  <2> HIDE DEF Good
  <2> QED BY <1>2, <1>3, <2>1, InductionUpTo
<1>5. m \in Good
  <2> HIDE DEF Good
  <2> QED BY <1>4
<1> QED BY <1>1, <1>5

\* The new list of approvers: everybody's place is open.
LEMMA ApproversOpen ==
  ASSUME NEW c \in CriteriaChoices, NEW recipient \in Wallets
  PROVE  LET list == Approvers(c, recipient)
         IN /\ list \in Seq(Slot)
            /\ \A k \in DOMAIN list : ~list[k].approved /\ Lawful(list[k])
<1> DEFINE Open == {slot \in Slot : ~slot.approved /\ Lawful(slot)}
           first == IF c.recipient THEN <<Waiting(recipient, FALSE)>> ELSE <<>>
           second == IF c.agent THEN <<Waiting(NoWallet, TRUE)>> ELSE <<>>
           third == [k \in 1 .. Len(c.additional) |-> Waiting(c.additional[k], FALSE)]
<1>1. c.additional \in Seq(Signers)
  BY DVAAssumption DEF Signers
<1>2. /\ Waiting(recipient, FALSE) \in Open /\ Waiting(NoWallet, TRUE) \in Open
      /\ \A w \in Signers : Waiting(w, FALSE) \in Open
  BY DEF Waiting, Slot, Signers, Lawful
<1> HIDE DEF Open
<1>3. first \in Seq(Open) /\ second \in Seq(Open)
  <2> DEFINE one == Waiting(recipient, FALSE)
             two == Waiting(NoWallet, TRUE)
  <2>1. one \in Open /\ two \in Open
    BY <1>2
  <2> HIDE DEF one, two
  <2>2. <<one>> \in Seq(Open) /\ <<two>> \in Seq(Open) /\ <<>> \in Seq(Open)
    BY <2>1
  <2> QED BY <2>2 DEF one, two
<1>4. third \in Seq(Open)
  <2> DEFINE named == c.additional
             open(k) == Waiting(named[k], FALSE)
  <2> HIDE DEF named
  <2>1. \A k \in 1 .. Len(named) : open(k) \in Open
    <3>1. \A k \in 1 .. Len(named) : named[k] \in Signers
      BY <1>1 DEF named
    <3> QED BY <1>2, <3>1, Zenon
  <2> HIDE DEF open
  <2>2. [k \in 1 .. Len(named) |-> open(k)] \in Seq(Open)
    BY <1>1, <2>1, IsSequence DEF named
  <2> QED BY <2>2 DEF named, open
<1>5. Approvers(c, recipient) = first \o second \o third
  BY Zenon DEF Approvers
<1> HIDE DEF first, second, third
<1>6. Approvers(c, recipient) \in Seq(Open)
  BY <1>3, <1>4, <1>5
<1>7. \A slot \in Open : slot \in Slot /\ ~slot.approved /\ Lawful(slot)
  BY DEF Open
<1> HIDE DEF Approvers
<1> DEFINE list == Approvers(c, recipient)
<1>8. \A k \in DOMAIN list : list[k] \in Open
  BY <1>6
<1>9. list \in [1 .. Len(list) -> Slot] /\ Len(list) \in Nat
  BY <1>6, <1>7, <1>8
<1>10. list \in Seq(Slot)
  <2> HIDE DEF list
  <2> QED BY <1>9, IsSequence
<1> QED BY <1>7, <1>8, <1>10

LEMMA ApproversSet ==
  ASSUME NEW t \in TransferRequest, NEW list \in Seq(Slot)
  PROVE  LET u == [t EXCEPT !.approvers = list]
         IN /\ u \in TransferRequest
            /\ u.recipient = t.recipient /\ u.status = t.status
            /\ u.approvers = list /\ u.criteria = t.criteria
<1> DEFINE S == {"PENDING", "COMPLETED", "CANCELLED", "REJECTED"}
           L == Seq(Slot)
           R == [sender : Wallets, recipient : Wallets, actual : Amount, status : S,
                 approvers : L, criteria : CriteriaChoices]
<1>1. TransferRequest = R
  BY DEF TransferRequest
<1>2. list \in L
  OBVIOUS
<1> HIDE DEF L, S
<1> QED BY <1>1, <1>2

LEMMA StatusSet ==
  ASSUME NEW t \in TransferRequest, 
         NEW status \in {"PENDING", "COMPLETED", "CANCELLED", "REJECTED"}
  PROVE  LET u == [t EXCEPT !.status = status]
         IN /\ u \in TransferRequest
            /\ u.recipient = t.recipient /\ u.status = status
            /\ u.approvers = t.approvers /\ u.criteria = t.criteria
<1> DEFINE S == {"PENDING", "COMPLETED", "CANCELLED", "REJECTED"}
           L == Seq(Slot)
           R == [sender : Wallets, recipient : Wallets, actual : Amount, status : S,
                 approvers : L, criteria : CriteriaChoices]
<1>1. TransferRequest = R
  BY DEF TransferRequest
<1>2. status \in S
  OBVIOUS
<1> HIDE DEF L, S
<1> QED BY <1>1, <1>2

LEMMA RequestReplaced ==
  ASSUME NEW R, NEW list \in Seq(R), NEW id \in DOMAIN list, NEW request \in R
  PROVE  LET next == [list EXCEPT ![id] = request]
         IN /\ next \in Seq(R) /\ Len(next) = Len(list) /\ DOMAIN next = DOMAIN list
            /\ \A other \in DOMAIN list \ {id} : next[other] = list[other]
            /\ next[id] = request
OBVIOUS

(***************************************************************************)
(* The invariant.  A pending transfer's list is what its criteria name,    *)
(* with places filled in; and there is no transfer before there are        *)
(* criteria.                                                               *)
(***************************************************************************)
SameApprovers(required, given) ==
  /\ Len(given) = Len(required)
  /\ \A k \in DOMAIN required :
       /\ given[k].anyAgent = required[k].anyAgent
       /\ required[k].anyAgent \/ given[k].wallet = required[k].wallet
       /\ Lawful(given[k])

ApproversKept ==
  \A id \in DOMAIN transfers :
    SameApprovers(Approvers(transfers[id].criteria, transfers[id].recipient),
                  transfers[id].approvers)

RegisteredFirst == transfers # <<>> => criteria # NoCriteria

ApprovalInv == DVATypeOK /\ RegisteredFirst /\ ApproversKept /\ StatusMatchesApprovals

\* What a call of the manager does to a pending transfer: all approvals are
\* forgotten, some are given under the criteria in force, or it is returned.
Forgets(t, u) ==
  /\ u.status = "PENDING"
  /\ u.criteria = criteria
  /\ u.approvers = Approvers(criteria, t.recipient)

Advances(t, u) ==
  /\ t.criteria = criteria /\ u.criteria = criteria
  /\ u.approvers # Refused
  /\ Advanced(t.approvers, u.approvers)
  /\ u.status = IF Unapproved(u.approvers) = {} THEN "COMPLETED" ELSE "PENDING"

Returns(t, u) ==
  /\ u.status \in {"CANCELLED", "REJECTED"}
  /\ u.criteria = t.criteria
  /\ u.approvers = t.approvers

Handled(id) ==
  /\ IsPending(id)
  /\ UNCHANGED <<criteria, sequential>>
  /\ transfers' \in Seq(TransferRequest) /\ Len(transfers') = Len(transfers)
  /\ \A other \in DOMAIN transfers \ {id} : transfers'[other] = transfers[other]
  /\ transfers'[id].recipient = transfers[id].recipient
  /\ \/ Forgets(transfers[id], transfers'[id])
     \/ Advances(transfers[id], transfers'[id])
     \/ Returns(transfers[id], transfers'[id])

LEMMA HandledBy ==
  ASSUME transfers \in Seq(TransferRequest), NEW id \in DOMAIN transfers, IsPending(id),
         UNCHANGED <<criteria, sequential>>,
         NEW request \in TransferRequest, transfers' = [transfers EXCEPT ![id] = request],
         request.recipient = transfers[id].recipient,
         \/ Forgets(transfers[id], request)
         \/ Advances(transfers[id], request)
         \/ Returns(transfers[id], request)
  PROVE  Handled(id)
<1> HIDE DEF TransferRequest
<1>1. /\ transfers' \in Seq(TransferRequest) /\ Len(transfers') = Len(transfers)
      /\ \A other \in DOMAIN transfers \ {id} : transfers'[other] = transfers[other]
      /\ transfers'[id] = request
  BY RequestReplaced
<1> QED BY <1>1 DEF Handled

LEMMA ResetHandled ==
  ASSUME ApprovalInv, NEW id \in DOMAIN transfers, IsPending(id), ResetApprovals(id)
  PROVE  Handled(id)
<1> DEFINE t == transfers[id]
           list == Approvers(criteria, t.recipient)
           request == [t EXCEPT !.approvers = list, !.criteria = criteria]
<1>1. /\ transfers \in Seq(TransferRequest) /\ t \in TransferRequest
      /\ criteria \in CriteriaChoices /\ t.status = "PENDING"
  BY DEF ApprovalInv, DVATypeOK, RegisteredFirst, IsPending
<1>2. t.recipient \in Wallets
  BY <1>1 DEF TransferRequest
<1>3. list \in Seq(Slot)
  BY <1>1, <1>2, ApproversOpen
<1>4. transfers' = [transfers EXCEPT ![id] = request] /\ UNCHANGED <<criteria, sequential>>
  BY <1>1 DEF ResetApprovals
<1> HIDE DEF list, t
<1>5. /\ request \in TransferRequest /\ request.recipient = t.recipient
      /\ request.status = "PENDING" /\ request.approvers = list /\ request.criteria = criteria
  <2>1. /\ request \in TransferRequest /\ request.recipient = t.recipient
        /\ request.status = t.status /\ request.approvers = list
        /\ request.criteria = criteria
    <3> DEFINE S == {"PENDING", "COMPLETED", "CANCELLED", "REJECTED"}
               L == Seq(Slot)
               R == [sender : Wallets, recipient : Wallets, actual : Amount, status : S,
                     approvers : L, criteria : CriteriaChoices]
    <3>1. TransferRequest = R
      BY DEF TransferRequest
    <3>2. list \in L /\ t \in R /\ criteria \in CriteriaChoices
      BY <1>1, <1>3, <3>1
    <3> HIDE DEF L, S
    <3> QED BY <3>1, <3>2
  <2> QED BY <1>1, <2>1
<1> HIDE DEF request
<1>6. Forgets(t, request)
  BY <1>5 DEF Forgets, list
<1> QED BY <1>1, <1>4, <1>5, <1>6, HandledBy DEF t

LEMMA GiveHandled ==
  ASSUME ApprovalInv, NEW id \in DOMAIN transfers, IsPending(id),
         transfers[id].criteria = criteria,
         NEW m \in Nat, NEW callers \in [1 .. m -> Signers],
         NEW compliant \in BOOLEAN, GiveApprovals(id, callers, compliant)
  PROVE  Handled(id)
<1> DEFINE t == transfers[id]
           list == ApprovedBy(t.approvers, callers)
           request == [t EXCEPT !.approvers = list]
           settled == [request EXCEPT !.status = "COMPLETED"]
<1>1. /\ transfers \in Seq(TransferRequest) /\ t \in TransferRequest
      /\ t.status = "PENDING" /\ t.criteria = criteria
  BY DEF ApprovalInv, DVATypeOK, IsPending
<1>2. t.approvers \in Seq(Slot)
  BY <1>1 DEF TransferRequest
<1>3. list # Refused
  BY DEF GiveApprovals
<1>4. list \in Seq(Slot) /\ Advanced(t.approvers, list)
  BY <1>2, <1>3, ApprovalsAdvance
<1>5. IF Unapproved(list) = {}
      THEN /\ transfers' = [transfers EXCEPT ![id] = settled]
           /\ UNCHANGED <<criteria, sequential>>
      ELSE /\ transfers' = [transfers EXCEPT ![id] = request]
           /\ UNCHANGED <<criteria, sequential>>
  BY DEF GiveApprovals, Settle
<1> HIDE DEF list, t
<1>6. t.criteria \in CriteriaChoices
  BY <1>1 DEF TransferRequest
<1>7. /\ request \in TransferRequest /\ request.recipient = t.recipient
      /\ request.status = "PENDING" /\ request.approvers = list /\ request.criteria = criteria
  <2>1. /\ request \in TransferRequest /\ request.recipient = t.recipient
        /\ request.status = t.status /\ request.approvers = list
        /\ request.criteria = t.criteria
    BY <1>1, <1>4, ApproversSet, Zenon
  <2> QED BY <1>1, <2>1
<1> HIDE DEF request
<1>8. /\ settled \in TransferRequest /\ settled.recipient = t.recipient
      /\ settled.status = "COMPLETED" /\ settled.approvers = list
      /\ settled.criteria = criteria
  BY <1>4, <1>6, <1>7, StatusSet
<1> HIDE DEF settled
<1>9. /\ Unapproved(list) = {} => Advances(t, settled)
      /\ Unapproved(list) # {} => Advances(t, request)
  BY <1>1, <1>3, <1>4, <1>7, <1>8 DEF Advances
<1> QED BY <1>1, <1>5, <1>7, <1>8, <1>9, HandledBy DEF t

LEMMA ReturnHandled ==
  ASSUME ApprovalInv, NEW id \in DOMAIN transfers, IsPending(id),
         NEW status \in {"CANCELLED", "REJECTED"}, NEW payee, NEW compliant,
         Settle(id, [transfers[id] EXCEPT !.status = status], payee, compliant)
  PROVE  Handled(id)
<1> DEFINE t == transfers[id]
           request == [t EXCEPT !.status = status]
<1>1. transfers \in Seq(TransferRequest) /\ t \in TransferRequest
  BY DEF ApprovalInv, DVATypeOK
<1>2. t.approvers \in Seq(Slot) /\ t.criteria \in CriteriaChoices
  BY <1>1 DEF TransferRequest
<1>3. transfers' = [transfers EXCEPT ![id] = request] /\ UNCHANGED <<criteria, sequential>>
  BY DEF Settle
<1> HIDE DEF t
<1>4. /\ request \in TransferRequest /\ request.recipient = t.recipient
      /\ request.status = status /\ request.approvers = t.approvers
      /\ request.criteria = t.criteria
  <2>1. status \in {"PENDING", "COMPLETED", "CANCELLED", "REJECTED"}
    OBVIOUS
  <2> QED BY <1>1, <2>1, StatusSet, Zenon
<1> HIDE DEF request
<1>5. Returns(t, request)
  BY <1>4 DEF Returns
<1> QED BY <1>1, <1>3, <1>4, <1>5, HandledBy DEF t

\* New criteria.
Registers ==
  /\ criteria' \in CriteriaChoices
  /\ sequential' \in BOOLEAN
  /\ UNCHANGED transfers

LEMMA ManagerHandles ==
  ASSUME ApprovalInv, DVANext
  PROVE  \/ \E id \in DOMAIN transfers : Handled(id)
         \/ Initiation
         \/ Registers
<1>1. ASSUME NEW agent, NEW c \in CriteriaChoices, NEW ordered \in BOOLEAN,
             SetApprovalCriteria(agent, c, ordered)
      PROVE  Registers
  BY <1>1 DEF SetApprovalCriteria, Registers
<1>2. ASSUME NEW id \in DOMAIN transfers, NEW compliant \in BOOLEAN, NEW caller \in Users,
             ApproveTransfer(id, caller, compliant)
      PROVE  Handled(id)
  <2>1. <<caller>> \in [1 .. 1 -> Signers] /\ 1 \in Nat
    BY DEF Signers
  <2> QED BY <1>2, <2>1, ResetHandled, GiveHandled DEF ApproveTransfer
<1>3. ASSUME NEW id \in DOMAIN transfers, NEW compliant \in BOOLEAN,
             NEW signers \in BoundedSeq(Signers, MaxSignatures),
             DelegateApproveTransfer(id, signers, compliant)
      PROVE  Handled(id)
  <2>1. PICK m \in Nat : signers \in [1 .. m -> Signers]
    BY DVAAssumption DEF BoundedSeq, SeqOf
  <2> QED BY <1>3, <2>1, ResetHandled, GiveHandled DEF DelegateApproveTransfer
<1>4. ASSUME NEW id \in DOMAIN transfers, NEW compliant \in BOOLEAN, NEW caller,
             CancelTransfer(id, caller, compliant)
      PROVE  Handled(id)
  BY <1>4, ReturnHandled DEF CancelTransfer
<1>5. ASSUME NEW id \in DOMAIN transfers, NEW compliant \in BOOLEAN, NEW caller,
             RejectTransfer(id, caller, compliant)
      PROVE  Handled(id)
  BY <1>5, ResetHandled, ReturnHandled DEF RejectTransfer
<1> QED BY <1>1, <1>2, <1>3, <1>4, <1>5, Zenon DEF DVANext, Initiation

LEMMA NobodyWaits ==
  ASSUME NEW c \in CriteriaChoices, NEW recipient \in Wallets
  PROVE  LET list == Approvers(c, recipient)
         IN list # <<>> => Unapproved(list) # {}
<1> DEFINE list == Approvers(c, recipient)
<1>1. list \in Seq(Slot) /\ \A k \in DOMAIN list : ~list[k].approved
  BY ApproversOpen
<1> HIDE DEF list
<1>2. list # <<>> => 1 \in DOMAIN list
  BY <1>1
<1> QED BY <1>1, <1>2 DEF list, Unapproved

\* One transfer's share of the invariant.
RequestOK(t) ==
  /\ SameApprovers(Approvers(t.criteria, t.recipient), t.approvers)
  /\ t.approvers # <<>> => (t.status = "COMPLETED" <=> Unapproved(t.approvers) = {})

LEMMA RequestsOK ==
  ASSUME NEW list, list = transfers
  PROVE  (ApproversKept /\ StatusMatchesApprovals) <=> \A id \in DOMAIN list : RequestOK(list[id])
BY DEF ApproversKept, StatusMatchesApprovals, RequestOK

LEMMA HandledOK ==
  ASSUME NEW t \in TransferRequest, NEW u \in TransferRequest,
         u.recipient = t.recipient, t.status = "PENDING",
         RequestOK(t), criteria \in CriteriaChoices,
         Forgets(t, u) \/ Advances(t, u) \/ Returns(t, u)
  PROVE  RequestOK(u)
<1>1. /\ t.recipient \in Wallets /\ t.approvers \in Seq(Slot) /\ u.approvers \in Seq(Slot)
      /\ t.criteria \in CriteriaChoices /\ u.criteria \in CriteriaChoices
  BY DEF TransferRequest
<1>2. CASE Forgets(t, u)
  <2>1. SameApprovers(u.approvers, u.approvers)
    BY <1>1, <1>2, ApproversOpen DEF SameApprovers, Forgets
  <2>2. u.approvers # <<>> => Unapproved(u.approvers) # {}
    BY <1>1, <1>2, NobodyWaits DEF Forgets
  <2> QED BY <1>2, <2>1, <2>2 DEF Forgets, RequestOK
<1>3. CASE Advances(t, u)
  <2> DEFINE required == Approvers(t.criteria, t.recipient)
  <2>1. SameApprovers(required, t.approvers) /\ required \in Seq(Slot)
    BY <1>1, ApproversOpen DEF RequestOK
  <2>2. u.criteria = t.criteria /\ Advanced(t.approvers, u.approvers)
    BY <1>3 DEF Advances
  <2> HIDE DEF required
  <2>3. SameApprovers(required, u.approvers)
    <3>1. DOMAIN required = DOMAIN t.approvers
      BY <1>1, <2>1 DEF SameApprovers
    <3> QED BY <1>1, <2>1, <2>2, <3>1 DEF SameApprovers, Advanced
  <2>4. u.status = "COMPLETED" <=> Unapproved(u.approvers) = {}
    BY <1>3 DEF Advances
  <2> QED BY <2>2, <2>3, <2>4 DEF RequestOK, required
<1>4. CASE Returns(t, u)
  BY <1>4 DEF Returns, RequestOK
<1> QED BY <1>2, <1>3, <1>4

LEMMA InitApprovalInv == DVAInit => ApprovalInv
<1> SUFFICES ASSUME DVAInit PROVE ApprovalInv
  OBVIOUS
<1>1. transfers = <<>> /\ criteria = NoCriteria /\ sequential = FALSE
  BY DEF DVAInit
<1>2. DVATypeOK
  <2>1. transfers \in Seq(TransferRequest)
    BY <1>1
  <2>2. Len(transfers) <= MaxTransfers
    BY <1>1, DVAAssumption
  <2>3. criteria \in CriteriaChoices \cup {NoCriteria} /\ sequential \in BOOLEAN
    BY <1>1
  <2> QED BY <2>1, <2>2, <2>3 DEF DVATypeOK
<1> QED BY <1>1, <1>2 DEF ApprovalInv, RegisteredFirst, ApproversKept, StatusMatchesApprovals

LEMMA InitiatedOK ==
  ASSUME ApprovalInv, TypeOK, TypeOK',
         NEW sender \in Wallets, NEW recipient \in Wallets,
         NEW amount \in Amount, NEW compliant \in BOOLEAN,
         InitiateTransfer(sender, recipient, amount, compliant)
  PROVE  \E request \in TransferRequest :
           /\ transfers' = Append(transfers, request)
           /\ RequestOK(request)
<1> DEFINE units == Sub(balances'[Manager], balances[Manager])
           list == Approvers(criteria, recipient)
           request == Initiated(sender, recipient, units)
<1>1. criteria \in CriteriaChoices
  BY DEF InitiateTransfer, ApprovalInv, DVATypeOK
<1>2. balances'[Manager] \in Amount /\ balances[Manager] \in Amount
  BY ManagerHolds DEF TypeOK
<1>3. units \in Amount
  BY <1>2, AmountClosed
<1>4. /\ list \in Seq(Slot) /\ (list # <<>> => Unapproved(list) # {})
      /\ \A k \in DOMAIN list : Lawful(list[k])
  BY <1>1, ApproversOpen, NobodyWaits
<1>5. request = [sender |-> sender, recipient |-> recipient, actual |-> units,
                 status |-> "PENDING", approvers |-> list, criteria |-> criteria]
  BY DEF Initiated
<1>6. transfers' = Append(transfers, request)
  BY DEF InitiateTransfer
<1> HIDE DEF units, list, request
<1>7. request \in TransferRequest
  BY <1>1, <1>3, <1>4, <1>5 DEF TransferRequest
<1>8. /\ request.approvers = list /\ request.criteria = criteria
      /\ request.recipient = recipient /\ request.status = "PENDING"
  BY <1>5
<1>9. SameApprovers(list, list)
  BY <1>4 DEF SameApprovers
<1>10. RequestOK(request)
  BY <1>4, <1>8, <1>9 DEF RequestOK, list
<1> QED BY <1>6, <1>7, <1>10

LEMMA NextApprovalInv ==
  ASSUME ApprovalInv, TypeOK, TypeOK', [DVANext \/ TokenNext]_dvaVars
  PROVE  ApprovalInv'
<1>1. /\ transfers \in Seq(TransferRequest) /\ Len(transfers) <= MaxTransfers
      /\ criteria \in CriteriaChoices \cup {NoCriteria} /\ sequential \in BOOLEAN
      /\ transfers # <<>> => criteria # NoCriteria
      /\ \A id \in DOMAIN transfers : RequestOK(transfers[id])
  BY RequestsOK DEF ApprovalInv, DVATypeOK, RegisteredFirst
<1> SUFFICES /\ transfers' \in Seq(TransferRequest) /\ Len(transfers') <= MaxTransfers
             /\ criteria' \in CriteriaChoices \cup {NoCriteria} /\ sequential' \in BOOLEAN
             /\ transfers' # <<>> => criteria' # NoCriteria
             /\ \A id \in DOMAIN transfers' : RequestOK(transfers'[id])
  BY DEF ApprovalInv, DVATypeOK, RegisteredFirst, ApproversKept, StatusMatchesApprovals, RequestOK
<1> HIDE DEF TransferRequest
<1>2. CASE UNCHANGED <<criteria, sequential, transfers>>
  BY <1>1, <1>2
<1>3. CASE Registers
  BY <1>1, <1>3, DVAAssumption DEF Registers
<1>4. ASSUME NEW id \in DOMAIN transfers, Handled(id)
      PROVE  /\ transfers' \in Seq(TransferRequest) /\ Len(transfers') <= MaxTransfers
             /\ UNCHANGED <<criteria, sequential>>
             /\ transfers # <<>>
             /\ \A k \in DOMAIN transfers' : RequestOK(transfers'[k])
  <2>1. /\ transfers' \in Seq(TransferRequest) /\ Len(transfers') = Len(transfers)
        /\ UNCHANGED <<criteria, sequential>>
        /\ \A other \in DOMAIN transfers \ {id} : transfers'[other] = transfers[other]
    BY <1>4 DEF Handled
  <2>2. DOMAIN transfers' = DOMAIN transfers /\ transfers # <<>>
    BY <1>1, <2>1
  <2>3. transfers[id] \in TransferRequest /\ transfers'[id] \in TransferRequest
    BY <1>1, <2>1, <2>2
  <2>4. criteria \in CriteriaChoices
    BY <1>1, <2>2
  <2>5. RequestOK(transfers'[id])
    BY <1>1, <1>4, <2>3, <2>4, HandledOK DEF Handled, IsPending
  <2> QED BY <1>1, <2>1, <2>2, <2>5
<1>5. CASE Initiation
  <2>1. PICK sender \in Wallets \ {Manager}, recipient \in Wallets, amount \in Amount,
             compliant \in BOOLEAN : InitiateTransfer(sender, recipient, amount, compliant)
    BY <1>5, Zenon DEF Initiation
  <2>2. PICK request \in TransferRequest :
             /\ transfers' = Append(transfers, request)
             /\ RequestOK(request)
    BY <2>1, InitiatedOK
  <2>3. /\ UNCHANGED <<criteria, sequential>> /\ criteria # NoCriteria
        /\ Len(transfers) < MaxTransfers
    BY <2>1 DEF InitiateTransfer
  <2>4. /\ transfers' \in Seq(TransferRequest) /\ Len(transfers') <= MaxTransfers
        /\ \A id \in DOMAIN transfers' :
             \/ id \in DOMAIN transfers /\ transfers'[id] = transfers[id]
             \/ transfers'[id] = request
    BY <1>1, <2>2, <2>3, DVAAssumption
  <2> QED BY <1>1, <2>2, <2>3, <2>4
<1>6. CASE DVANext
  BY <1>1, <1>3, <1>4, <1>5, <1>6, ManagerHandles
<1>7. CASE TokenNext \/ UNCHANGED dvaVars
  BY <1>2, <1>7 DEF TokenNext, dvaVars
<1> QED BY <1>6, <1>7

LEMMA ApprovalInvariant == DVASpec => []ApprovalInv
<1>1. ApprovalInv /\ IInv /\ IInv' /\ [DVANext \/ TokenNext]_dvaVars => ApprovalInv'
  BY NextApprovalInv DEF IInv
<1> QED BY <1>1, InitApprovalInv, IInvariant, PTL DEF DVASpec

\* Every transfer the manager keeps is a record of its kind: known parties, an
\* amount of the word, one of the four statuses, a list of slots and criteria
\* that were registered.
THEOREM DVATypeCorrect == DVASpec => []DVATypeOK
<1>1. ApprovalInv => DVATypeOK
  BY DEF ApprovalInv
<1> QED BY <1>1, ApprovalInvariant, PTL

\* A transfer is completed if and only if its list of approvers is: approvals,
\* resets, cancellations and rejections never leave a pending transfer that
\* nobody has to approve any more, or a completed one with an open slot.
THEOREM StatusTellsApprovals == DVASpec => []StatusMatchesApprovals
<1>1. ApprovalInv => StatusMatchesApprovals
  BY DEF ApprovalInv
<1> QED BY <1>1, ApprovalInvariant, PTL

(***************************************************************************)
(* What one step completes, and in which order approvals are given.        *)
(***************************************************************************)

\* The statements of CompletedAsRequired and ApprovedInOrder about one transfer,
\* as t before the step and u after it.
CompletedBy(t, u) ==
  t.status = "PENDING" /\ u.status = "COMPLETED" =>
    LET given == u.approvers
        required == Approvers(criteria, t.recipient)
    IN /\ Len(given) = Len(required)
       /\ \A k \in DOMAIN required :
            /\ given[k].approved
            /\ IF required[k].anyAgent
               THEN given[k].byAgent \/ given[k].wallet = NoWallet
               ELSE given[k].wallet = required[k].wallet

OrderedFor(t, u) ==
  sequential =>
    \A k \in DOMAIN t.approvers \cap DOMAIN u.approvers :
      u.approvers[k].approved /\ ~t.approvers[k].approved =>
        \A j \in 1 .. k - 1 : u.approvers[j].approved

LEMMA HandledInOrder ==
  ASSUME NEW t \in TransferRequest, NEW u \in TransferRequest,
         u.recipient = t.recipient, t.status = "PENDING",
         RequestOK(t), RequestOK(u), criteria \in CriteriaChoices,
         Forgets(t, u) \/ Advances(t, u) \/ Returns(t, u)
  PROVE  CompletedBy(t, u) /\ OrderedFor(t, u)
<1>1. /\ t.recipient \in Wallets /\ t.approvers \in Seq(Slot) /\ u.approvers \in Seq(Slot)
  BY DEF TransferRequest
<1>2. CASE Forgets(t, u)
  BY <1>1, <1>2, ApproversOpen DEF Forgets, CompletedBy, OrderedFor
<1>3. CASE Advances(t, u)
  <2> DEFINE required == Approvers(criteria, t.recipient)
  <2>1. /\ SameApprovers(required, u.approvers) /\ required \in Seq(Slot)
        /\ Advanced(t.approvers, u.approvers)
        /\ u.status = "COMPLETED" => Unapproved(u.approvers) = {}
    BY <1>1, <1>3, ApproversOpen DEF RequestOK, Advances
  <2> HIDE DEF required
  <2>2. DOMAIN required = DOMAIN u.approvers
    BY <1>1, <2>1 DEF SameApprovers
  <2>3. CompletedBy(t, u)
    BY <2>1, <2>2 DEF CompletedBy, SameApprovers, Unapproved, Lawful, required
  <2>4. OrderedFor(t, u)
    BY <2>1 DEF OrderedFor, Advanced
  <2> QED BY <2>3, <2>4
<1>4. CASE Returns(t, u)
  BY <1>4 DEF Returns, CompletedBy, OrderedFor
<1> QED BY <1>2, <1>3, <1>4

LEMMA ApprovalStep ==
  ASSUME ApprovalInv, ApprovalInv', TypeOK, TypeOK', [DVANext \/ TokenNext]_dvaVars,
         NEW id \in DOMAIN transfers
  PROVE  /\ CompletedBy(transfers[id], transfers'[id])
         /\ OrderedFor(transfers[id], transfers'[id])
<1>1. /\ transfers \in Seq(TransferRequest) /\ transfers' \in Seq(TransferRequest)
      /\ criteria \in CriteriaChoices
      /\ RequestOK(transfers[id])
  BY RequestsOK DEF ApprovalInv, DVATypeOK, RegisteredFirst
<1> HIDE DEF TransferRequest
<1>2. CASE transfers'[id] = transfers[id]
  BY <1>2 DEF CompletedBy, OrderedFor
<1>3. ASSUME NEW handled \in DOMAIN transfers, Handled(handled)
      PROVE  /\ CompletedBy(transfers[id], transfers'[id])
             /\ OrderedFor(transfers[id], transfers'[id])
  <2>1. CASE handled # id
    BY <1>2, <1>3, <2>1 DEF Handled
  <2>2. CASE handled = id
    <3>1. transfers[id] \in TransferRequest /\ transfers'[id] \in TransferRequest
      BY <1>1, <1>3 DEF Handled
    <3>2. /\ transfers'[id].recipient = transfers[id].recipient
          /\ transfers[id].status = "PENDING"
          /\ \/ Forgets(transfers[id], transfers'[id])
             \/ Advances(transfers[id], transfers'[id])
             \/ Returns(transfers[id], transfers'[id])
      BY <1>3, <2>2 DEF Handled, IsPending
    <3>3. RequestOK(transfers'[id])
      BY <1>1, <3>1, <3>2, HandledOK
    <3> QED BY <1>1, <3>1, <3>2, <3>3, HandledInOrder
  <2> QED BY <2>1, <2>2
<1>4. CASE Initiation
  <2>1. PICK sender \in Wallets \ {Manager}, recipient \in Wallets, amount \in Amount,
             compliant \in BOOLEAN : InitiateTransfer(sender, recipient, amount, compliant)
    BY <1>4, Zenon DEF Initiation
  <2>2. PICK request \in TransferRequest : transfers' = Append(transfers, request)
    BY <2>1, InitiatedOK
  <2>3. transfers'[id] = transfers[id]
    BY <1>1, <2>2
  <2> QED BY <1>2, <2>3
<1>5. CASE UNCHANGED transfers
  BY <1>2, <1>5
<1>6. CASE DVANext
  BY <1>3, <1>4, <1>5, <1>6, ManagerHandles DEF Registers
<1>7. CASE TokenNext \/ UNCHANGED dvaVars
  BY <1>5, <1>7 DEF TokenNext, dvaVars
<1> QED BY <1>6, <1>7

\* approveTransfer and delegateApproveTransfer complete a transfer only when
\* every slot of the criteria in force is filled, a named one by its owner and an
\* agent's by an agent or an invalid signature, for criteria and lists of
\* signatures of any length: what was approved under other criteria was forgotten
\* when they changed.
THEOREM TransfersCompletedAsRequired == DVASpec => CompletedAsRequired
<1>1. ApprovalInv /\ ApprovalInv' /\ IInv /\ IInv' /\ [DVANext \/ TokenNext]_dvaVars =>
        [ \A id \in DOMAIN transfers :
            IsPending(id) /\ transfers'[id].status = "COMPLETED" =>
              LET given == transfers'[id].approvers
                  required == Approvers(criteria, transfers[id].recipient)
              IN /\ Len(given) = Len(required)
                 /\ \A k \in DOMAIN required :
                      /\ given[k].approved
                      /\ IF required[k].anyAgent
                         THEN given[k].byAgent \/ given[k].wallet = NoWallet
                         ELSE given[k].wallet = required[k].wallet ]_dvaVars
  BY ApprovalStep DEF CompletedBy, IsPending, IInv
<1> QED BY <1>1, IInvariant, ApprovalInvariant, PTL DEF DVASpec, CompletedAsRequired

\* Under sequential criteria no slot is filled before those ahead of it in the
\* list, by a signature that is valid or not, also inside one delegated approval of any number of signatures.
THEOREM ApprovalsInOrder == DVASpec => ApprovedInOrder
<1>1. ApprovalInv /\ ApprovalInv' /\ IInv /\ IInv' /\ [DVANext \/ TokenNext]_dvaVars =>
        [ sequential => \A id \in DOMAIN transfers :
            LET before == transfers[id].approvers
                after == transfers'[id].approvers
            IN \A k \in DOMAIN before \cap DOMAIN after :
                 after[k].approved /\ ~before[k].approved =>
                   \A j \in 1 .. k - 1 : after[j].approved ]_dvaVars
  BY ApprovalStep DEF OrderedFor, IInv
<1> QED BY <1>1, IInvariant, ApprovalInvariant, PTL DEF DVASpec, ApprovedInOrder
=============================================================================
