-------------------------------- MODULE DVA --------------------------------
(***************************************************************************)
(* DVATransferManager: delivery versus approval.  The sender's units go    *)
(* to the manager's own wallet and wait there until everybody the token's  *)
(* criteria name has approved; the sender may cancel and an approver may   *)
(* reject.  The manager is one more holder of the token: its deposits and  *)
(* settlements are Token's actions, so that pauses, freezes, agents and    *)
(* revoked claims get in between, and a settlement that the compliance     *)
(* refuses moves nothing.                                                  *)
(*                                                                         *)
(* Tokens have criteria and transfers of their own; this is one of them.   *)
(***************************************************************************)
EXTENDS Token, SequencesExt

CONSTANTS
  Manager,         \* the wallet of the DVATransferManager
  Users,           \* addresses that call the manager or sign approvals
  NoWallet,        \* the zero address: an agent slot nobody has taken, and the
                   \* signer ecrecover answers for an invalid signature
  CriteriaChoices, \* criteria the agents may set
  NoCriteria,      \* the zero hash: token not registered
  MaxTransfers,    \* bound on transfers initiated
  MaxSignatures    \* bound on the signatures of one delegated approval

ASSUME DVAAssumption ==
  /\ Manager \in Spenders
  /\ (Wallets \ {Manager}) \cup AgentAddresses \subseteq Users
  /\ NoWallet \notin Users
  /\ NoCriteria \notin CriteriaChoices
  /\ CriteriaChoices \subseteq
       [recipient : BOOLEAN, agent : BOOLEAN, additional : Seq(Users \cup {NoWallet})]
  /\ MaxTransfers \in Nat /\ MaxSignatures \in Nat

VARIABLES
  criteria,     \* what _approvalCriteria hashes: who has to approve
  sequential,   \* _approvalCriteria.sequentialApproval, not in the hash
  transfers     \* _transfers; the position stands for the nonce in the ID

dvaVars == <<vars, criteria, sequential, transfers>>

\* Nobody calls from the zero address, but a signature may name it.
Signers == Users \cup {NoWallet}

\* byAgent is history: an agent's slot was approved by an agent of the token.
Slot == [wallet : Wallets \cup Signers, anyAgent : BOOLEAN, approved : BOOLEAN,
         byAgent : BOOLEAN]

TransferRequest ==
  [sender : Wallets, recipient : Wallets, actual : Amount,
   status : {"PENDING", "COMPLETED", "CANCELLED", "REJECTED"},
   approvers : Seq(Slot), criteria : CriteriaChoices]

DVATypeOK ==
  /\ criteria \in CriteriaChoices \cup {NoCriteria}
  /\ sequential \in BOOLEAN
  /\ transfers \in Seq(TransferRequest)
  /\ Len(transfers) <= MaxTransfers

DVAInit ==
  /\ Init
  /\ criteria = NoCriteria
  /\ sequential = FALSE
  /\ transfers = <<>>

(***************************************************************************)
(* Approvers.                                                              *)
(***************************************************************************)
Waiting(wallet, anyAgent) ==
  [wallet |-> wallet, anyAgent |-> anyAgent, approved |-> FALSE, byAgent |-> FALSE]

\* _addApproversToTransfer
Approvers(c, recipient) ==
  (IF c.recipient THEN <<Waiting(recipient, FALSE)>> ELSE <<>>)
    \o (IF c.agent THEN <<Waiting(NoWallet, TRUE)>> ELSE <<>>)
    \o [k \in 1 .. Len(c.additional) |-> Waiting(c.additional[k], FALSE)]

Unapproved(slots) == {k \in DOMAIN slots : ~slots[k].approved}

\* _canApprove.  An agent slot nobody has taken is the zero address's own.
CanApprove(slot, caller) ==
  \/ slot.wallet = caller
  \/ slot.anyAgent /\ slot.wallet = NoWallet /\ caller \in agents

\* Mutant of Answerable: the order is not kept.
AnswerableInAnyOrder(slots, caller) ==
  {p \in Unapproved(slots) :
     /\ CanApprove(slots[p], caller)
     /\ \A q \in Unapproved(slots) : q < p => ~CanApprove(slots[q], caller)}

\* The slot that a call by caller approves or rejects, if it may: the first
\* open one that is the caller's; in sequence, the first open one.
Answerable(slots, caller) ==
  {p \in Unapproved(slots) :
     /\ CanApprove(slots[p], caller)
     /\ \A q \in Unapproved(slots) :
          q < p => ~sequential /\ ~CanApprove(slots[q], caller)}

\* The call reverts.  A transfer that nobody has to approve has this list too,
\* and every approval of it reverts.
Refused == <<>>

\* An agent's slot takes the caller's address.
Filled(slot, caller) ==
  [slot EXCEPT !.approved = TRUE,
               !.byAgent = slot.anyAgent /\ caller \in agents,
               !.wallet = IF @ = NoWallet THEN caller ELSE @]

\* One approval.  A list that is complete takes no more.
Approved(slots, caller) ==
  IF slots = Refused \/ Unapproved(slots) = {} THEN slots
  ELSE IF Answerable(slots, caller) = {} THEN Refused
  ELSE LET p == CHOOSE p \in Answerable(slots, caller) : TRUE
       IN [slots EXCEPT ![p] = Filled(@, caller)]

\* The loop over the signatures of one call.
ApprovedBy(slots, callers) ==
  LET after[n \in 0 .. Len(callers)] ==
        IF n = 0 THEN slots ELSE Approved(after[n - 1], callers[n])
  IN after[Len(callers)]

(***************************************************************************)
(* The manager's functions.  compliant is the verdict of the token's       *)
(* compliance on the units the call moves, if any.                         *)
(***************************************************************************)
SetApprovalCriteria(agent, c, ordered) ==
  /\ agent \in agents
  /\ IsVerified(Manager)
  /\ criteria' = c
  /\ sequential' = ordered
  /\ UNCHANGED <<vars, transfers>>

Initiated(sender, recipient, units) ==
  [sender |-> sender, recipient |-> recipient, actual |-> units,
   status |-> "PENDING", approvers |-> Approvers(criteria, recipient),
   criteria |-> criteria]

\* Mutants of InitiateTransfer: what was asked for, and the difference taken
\* the wrong way round.
InitiateAsAsked(sender, recipient, amount, compliant) ==
  /\ criteria # NoCriteria
  /\ IsVerified(recipient)
  /\ Len(transfers) < MaxTransfers
  /\ TransferFrom(Manager, sender, Manager, amount, compliant)
  /\ transfers' = Append(transfers, Initiated(sender, recipient, amount))
  /\ UNCHANGED <<criteria, sequential>>

InitiateReversed(sender, recipient, amount, compliant) ==
  /\ criteria # NoCriteria
  /\ IsVerified(recipient)
  /\ Len(transfers) < MaxTransfers
  /\ TransferFrom(Manager, sender, Manager, amount, compliant)
  /\ transfers' = Append(transfers,
       Initiated(sender, recipient, balances[Manager] - balances'[Manager]))
  /\ UNCHANGED <<criteria, sequential>>

\* What is owed is what arrived, not what was asked for.
InitiateTransfer(sender, recipient, amount, compliant) ==
  /\ criteria # NoCriteria
  /\ IsVerified(recipient)
  /\ Len(transfers) < MaxTransfers
  /\ TransferFrom(Manager, sender, Manager, amount, compliant)
  /\ transfers' = Append(transfers,
       Initiated(sender, recipient, Sub(balances'[Manager], balances[Manager])))
  /\ UNCHANGED <<criteria, sequential>>

IsPending(id) == transfers[id].status = "PENDING"

Settle(id, request, payee, compliant) ==
  /\ transfers' = [transfers EXCEPT ![id] = request]
  /\ Transfer(Manager, payee, request.actual, compliant)
  /\ UNCHANGED <<criteria, sequential>>

\* _approvalCriteriaChanged: all approvals are forgotten, and the call does
\* nothing else.
ResetApprovals(id) ==
  /\ transfers[id].criteria # criteria
  /\ transfers' = [transfers EXCEPT
       ![id].approvers = Approvers(criteria, transfers[id].recipient),
       ![id].criteria = criteria]
  /\ UNCHANGED <<vars, criteria, sequential>>

GiveApprovals(id, callers, compliant) ==
  LET slots == ApprovedBy(transfers[id].approvers, callers)
      request == [transfers[id] EXCEPT !.approvers = slots]
  IN /\ slots # Refused
     /\ IF Unapproved(slots) = {}
        THEN Settle(id, [request EXCEPT !.status = "COMPLETED"],
                    request.recipient, compliant)
        ELSE /\ transfers' = [transfers EXCEPT ![id] = request]
             /\ UNCHANGED <<vars, criteria, sequential>>

\* Mutants of the approval: under criteria that have changed; complete when one
\* approver is left.
ApproveUnderOldCriteria(id, caller, compliant) ==
  /\ IsPending(id)
  /\ GiveApprovals(id, <<caller>>, compliant)

ApproveWithOneLeft(id, caller, compliant) ==
  LET slots == ApprovedBy(transfers[id].approvers, <<caller>>)
      request == [transfers[id] EXCEPT !.approvers = slots]
  IN /\ IsPending(id)
     /\ transfers[id].criteria = criteria
     /\ slots # Refused
     /\ Cardinality(Unapproved(slots)) <= 1
     /\ Settle(id, [request EXCEPT !.status = "COMPLETED"], request.recipient, compliant)

ApproveTransfer(id, caller, compliant) ==
  /\ IsPending(id)
  /\ \/ ResetApprovals(id)
     \/ /\ transfers[id].criteria = criteria
        /\ GiveApprovals(id, <<caller>>, compliant)

\* Signatures are over the ID of the transfer and serve whoever submits them,
\* whenever; an invalid one is one of the zero address.  Those after the one that
\* completes the list are not looked at.
DelegateApproveTransfer(id, signers, compliant) ==
  /\ IsPending(id)
  /\ signers # <<>>
  /\ \/ ResetApprovals(id)
     \/ /\ transfers[id].criteria = criteria
        /\ GiveApprovals(id, signers, compliant)

\* Mutant of CancelTransfer: once more after the transfer was cancelled.
CancelAgain(id, caller, compliant) ==
  /\ transfers[id].status \in {"PENDING", "CANCELLED"}
  /\ caller = transfers[id].sender
  /\ Settle(id, [transfers[id] EXCEPT !.status = "CANCELLED"],
            transfers[id].sender, compliant)

CancelTransfer(id, caller, compliant) ==
  /\ IsPending(id)
  /\ caller = transfers[id].sender
  /\ Settle(id, [transfers[id] EXCEPT !.status = "CANCELLED"],
            transfers[id].sender, compliant)

RejectTransfer(id, caller, compliant) ==
  /\ IsPending(id)
  /\ \/ ResetApprovals(id)
     \/ /\ transfers[id].criteria = criteria
        /\ Answerable(transfers[id].approvers, caller) # {}
        /\ Settle(id, [transfers[id] EXCEPT !.status = "REJECTED"],
                  transfers[id].sender, compliant)

DVANext ==
  \/ \E agent \in agents, c \in CriteriaChoices, ordered \in BOOLEAN :
       SetApprovalCriteria(agent, c, ordered)
  \/ \E sender \in Wallets \ {Manager}, recipient \in Wallets, amount \in Amount,
        compliant \in BOOLEAN : InitiateTransfer(sender, recipient, amount, compliant)
  \/ \E id \in DOMAIN transfers, compliant \in BOOLEAN :
       \/ \E caller \in Users :
            \/ ApproveTransfer(id, caller, compliant)
            \/ CancelTransfer(id, caller, compliant)
            \/ RejectTransfer(id, caller, compliant)
       \/ \E signers \in BoundedSeq(Signers, MaxSignatures) :
            DelegateApproveTransfer(id, signers, compliant)

\* Every other holder of the token; the manager itself only transfers to settle.
OthersNext ==
  \E w \in Wallets \ {Manager}, amount \in Amount :
    \/ \E s \in Spenders :
         \/ Approve(w, s, amount)
         \/ IncreaseAllowance(w, s, amount)
         \/ DecreaseAllowance(w, s, amount)
    \/ \E to \in Wallets, compliant \in BOOLEAN :
         \/ Transfer(w, to, amount, compliant)
         \/ \E s \in Spenders \ {Manager}, from \in Wallets :
              TransferFrom(s, from, to, amount, compliant)

TokenNext ==
  /\ OthersNext \/ AgentNext \/ OwnerNext \/ RegistryNext
  /\ UNCHANGED <<criteria, sequential, transfers>>

DVASpec == DVAInit /\ [][DVANext \/ TokenNext]_dvaVars

-----------------------------------------------------------------------------
(***************************************************************************)
(* Properties.                                                             *)
(***************************************************************************)

\* What the manager owes: the units of the transfers still pending.
Escrow ==
  SumOf([id \in {i \in DOMAIN transfers : IsPending(i)} |-> transfers[id].actual])

Covered == Escrow <= balances[Manager]

\* The ways to take units out of the manager's wallet without asking it:
\* agents, and spenders, whose allowance transferFrom does not enforce.  The
\* manager itself pays by transfer, so that no settlement passes for a seizure.
Seized ==
  /\ UNCHANGED <<criteria, sequential, transfers>>
  /\ movedBy' \in AgentMoves \cup {"transferFrom"}

\* The manager's wallet covers every pending transfer, whatever share of the
\* amounts asked for really arrived and whatever settlements moved; only units
\* seized from the wallet can change that.
EscrowCovered == [][ Covered /\ ~inflated' /\ ~Covered' => Seized ]_dvaVars

\* A transfer is settled once and for all, and units leave the manager's wallet
\* only to settle one: exactly what arrived for it, to the recipient when it is
\* completed and back to the sender when it is not.
SettledOnce ==
  [][ /\ \A id \in DOMAIN transfers : ~IsPending(id) => transfers'[id] = transfers[id]
      /\ ~inflated' /\ balances'[Manager] < balances[Manager] /\ ~Seized =>
           \E id \in DOMAIN transfers :
             LET t == transfers[id]
                 payee == IF transfers'[id].status = "COMPLETED"
                          THEN t.recipient ELSE t.sender
             IN /\ IsPending(id) /\ ~IsPending(id)'
                /\ \A other \in DOMAIN transfers \ {id} : transfers'[other] = transfers[other]
                /\ balances'[Manager] = balances[Manager] - t.actual
                /\ balances'[payee] = balances[payee] + t.actual ]_dvaVars

\* A transfer is only completed when every slot of the criteria now in force has
\* been filled under these criteria: the recipient's and the named ones by
\* themselves, and the agent's by somebody who was an agent of the token when
\* approving, or by an invalid signature.
CompletedAsRequired ==
  [][ \A id \in DOMAIN transfers :
        IsPending(id) /\ transfers'[id].status = "COMPLETED" =>
          LET given == transfers'[id].approvers
              required == Approvers(criteria, transfers[id].recipient)
          IN /\ Len(given) = Len(required)
             /\ \A k \in DOMAIN required :
                  /\ given[k].approved
                  /\ IF required[k].anyAgent
                     THEN given[k].byAgent \/ given[k].wallet = NoWallet
                     ELSE given[k].wallet = required[k].wallet ]_dvaVars

\* IDVATransferManager.sol:207 takes the signatures of the approvers, and :52 says
\* the agent is one of them.  delegateApproveTransfer does not test the signer
\* ecrecover answers: the zero address equals the wallet of an agent slot nobody
\* has taken, and an invalid signature approves for the agent.
AgentHasApproved ==
  \A id \in DOMAIN transfers : transfers[id].status = "COMPLETED" =>
    \A k \in DOMAIN transfers[id].approvers :
      transfers[id].approvers[k].anyAgent => transfers[id].approvers[k].byAgent

\* While the criteria are sequential, no slot is filled before those ahead, also
\* among the signatures of one delegated approval, valid or not.
ApprovedInOrder ==
  [][ sequential => \A id \in DOMAIN transfers :
        LET before == transfers[id].approvers
            after == transfers'[id].approvers
        IN \A k \in DOMAIN before \cap DOMAIN after :
             after[k].approved /\ ~before[k].approved =>
               \A j \in 1 .. k - 1 : after[j].approved ]_dvaVars

\* A transfer is completed if and only if its list is, so that no pending
\* transfer waits for nobody (unless its criteria name nobody) and a cancelled
\* or rejected one keeps an open slot.
StatusMatchesApprovals ==
  \A id \in DOMAIN transfers :
    LET slots == transfers[id].approvers
    IN slots # <<>> => (transfers[id].status = "COMPLETED" <=> Unapproved(slots) = {})
=============================================================================
