------------------------------- MODULE MCDVA -------------------------------
(***************************************************************************)
(* DVA on a small instance: one holder with two transfers to one           *)
(* recipient, who may also be an agent of the token.                       *)
(***************************************************************************)
EXTENDS DVA, TLC

CONSTANTS w1, w2, mgr, ag, id1, id2

MCKeys == [i \in Identities |-> {}]

\* The recipient and any agent; any agent and then the recipient as one of the
\* additional approvers.
MCCriteria ==
  {[recipient |-> TRUE, agent |-> TRUE, additional |-> <<>>],
   [recipient |-> FALSE, agent |-> TRUE, additional |-> <<w2>>]}

\* A suite in operation: everybody is registered, the holder is funded and the
\* token is registered with the manager.
MCInit ==
  /\ balances = [w \in Wallets |-> IF w = w1 THEN Word - 1 ELSE 0]
  /\ hasBalance = {w1}
  /\ frozenTokens = [w \in Wallets |-> 0]
  /\ allowances = [w \in Wallets |-> [s \in Spenders |-> 0]]
  /\ totalSupply = Word - 1
  /\ frozen = {}
  /\ paused = FALSE
  /\ agents = {ag}
  /\ identityOf = [w \in Wallets |-> IF w = w2 THEN id2 ELSE id1]
  /\ verifiedIds = Identities
  /\ inflated = FALSE
  /\ movedBy = "none"
  /\ criteria \in CriteriaChoices \cup {NoCriteria}
  /\ sequential \in BOOLEAN
  /\ transfers = <<>>

\* Around the manager: the recipient becomes an agent or ceases to be one, its
\* claims are revoked, an agent seizes units of the manager.
Around ==
  /\ \/ AddAgent(w2)
     \/ RemoveAgent(w2)
     \/ \E ids \in {{id1}, Identities} : ClaimsChange(ids)
     \/ ForcedTransfer(ag, mgr, w1, 1)
  /\ UNCHANGED <<criteria, sequential, transfers>>

MCNext ==
  \/ \E c \in CriteriaChoices, ordered \in BOOLEAN : SetApprovalCriteria(ag, c, ordered)
  \/ \E amount \in Amount \ {0}, compliant \in BOOLEAN :
       InitiateTransfer(w1, w2, amount, compliant)
  \/ \E id \in DOMAIN transfers, compliant \in BOOLEAN :
       \/ \E caller \in Users :
            \/ ApproveTransfer(id, caller, compliant)
            \/ CancelTransfer(id, caller, compliant)
            \/ RejectTransfer(id, caller, compliant)
       \/ \E first, second \in Signers :
            DelegateApproveTransfer(id, <<first, second>>, compliant)
  \/ Around

DVAView == <<tokenView, criteria, sequential, transfers>>

MCSpec == MCInit /\ [][MCNext]_dvaVars
=============================================================================
