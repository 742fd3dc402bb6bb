------------------------------- MODULE Claims -------------------------------
(***************************************************************************)
(* Claims of ONCHAINID identities and the ClaimIssuers they name           *)
(* (Identity.sol, ClaimIssuer.sol).  A claim is stored under its issuer    *)
(* and topic with the signature that proves it; whether it is valid is     *)
(* asked of the issuer each time, which may have lost the signing key or   *)
(* revoked the signature since.  Revocation is of the bytes of a signature,*)
(* while recovery of the signer takes several encodings of it for the same *)
(* (Identity.sol:501): anybody can write one as another.                   *)
(*                                                                         *)
(* The caller holds a claim key of the identity, or a management key of    *)
(* the issuer.  A signature that does not fit the data of its claim fits   *)
(* no key.  Topic 0 marks a missing claim and is not among the Topics.     *)
(***************************************************************************)
EXTENDS SequencesExt

CONSTANTS
  Identities,   \* ONCHAINID contracts of investors
  Issuers,      \* ClaimIssuer contracts; an identity may issue its own claims
  Topics,       \* claim topics
  Keys,         \* keys that sign claims
  Data,         \* contents of claims
  Encodings,    \* what getRecoveredAddress takes for one signature: v as 27 or
                \* as 0, s or the order of the curve less s
  NoSignature   \* the empty signature, that of a missing claim

Signature == [signer : Keys, holder : Identities, topic : Topics, data : Data,
              encoding : Encodings]

ASSUME ClaimsAssumption == NoSignature \notin Signature

VARIABLES
  claims,         \* Identity._claims: signature per issuer and topic
  claimsByTopic,  \* Identity._claimsByTopic: the issuers, as claim IDs are
  claimKeys,      \* keys of an issuer with purpose 3 (or 1)
  revoked,        \* ClaimIssuer._revokedClaims
  unresponsive    \* issuers whose isClaimValid reverts

claimVars == <<claims, claimsByTopic, claimKeys, revoked, unresponsive>>

ClaimsTypeOK ==
  /\ claims \in [Identities -> [Issuers \X Topics -> Signature \cup {NoSignature}]]
  /\ claimsByTopic \in [Identities -> [Topics -> Seq(Issuers)]]
  /\ claimKeys \in [Issuers -> SUBSET Keys]
  /\ revoked \in [Issuers -> SUBSET (Signature \cup {NoSignature})]
  /\ unresponsive \subseteq Issuers

ClaimsInit ==
  /\ claims = [id \in Identities |-> [c \in Issuers \X Topics |-> NoSignature]]
  /\ claimsByTopic = [id \in Identities |-> [t \in Topics |-> <<>>]]
  /\ claimKeys \in [Issuers -> SUBSET Keys]
  /\ revoked = [i \in Issuers |-> {}]
  /\ unresponsive = {}

\* A loop over an array that puts the last entry in the place of the first one
\* found, pops the last and stops.
SwapAndPop(list, entry) ==
  LET found == {p \in DOMAIN list : list[p] = entry}
      first == CHOOSE p \in found : \A q \in found : p <= q
  IN IF found = {} THEN list
     ELSE [p \in 1 .. Len(list) - 1 |-> IF p = first THEN Last(list) ELSE list[p]]

\* ClaimIssuer.isClaimValid, of an issuer that answers
IsClaimValid(issuer, holder, topic, sig) ==
  /\ sig # NoSignature
  /\ sig.holder = holder /\ sig.topic = topic
  /\ sig.signer \in claimKeys[issuer]
  /\ sig \notin revoked[issuer]

\* Mutant of AddClaim: a claim that replaces another is listed again.
AddClaimTwice(holder, issuer, topic, sig) ==
  /\ issuer \notin unresponsive /\ IsClaimValid(issuer, holder, topic, sig)
  /\ claims' = [claims EXCEPT ![holder][<<issuer, topic>>] = sig]
  /\ claimsByTopic' = [claimsByTopic EXCEPT ![holder][topic] = Append(@, issuer)]
  /\ UNCHANGED <<claimKeys, revoked, unresponsive>>

\* A claim of the identity on itself is not examined.
AddClaim(holder, issuer, topic, sig) ==
  /\ issuer # holder =>
       issuer \notin unresponsive /\ IsClaimValid(issuer, holder, topic, sig)
  /\ claims' = [claims EXCEPT ![holder][<<issuer, topic>>] = sig]
  /\ claimsByTopic' = [claimsByTopic EXCEPT ![holder][topic] =
       IF claims[holder][<<issuer, topic>>] = NoSignature THEN Append(@, issuer) ELSE @]
  /\ UNCHANGED <<claimKeys, revoked, unresponsive>>

RemoveClaim(holder, issuer, topic) ==
  /\ claims[holder][<<issuer, topic>>] # NoSignature
  /\ claims' = [claims EXCEPT ![holder][<<issuer, topic>>] = NoSignature]
  /\ claimsByTopic' = [claimsByTopic EXCEPT ![holder][topic] = SwapAndPop(@, issuer)]
  /\ UNCHANGED <<claimKeys, revoked, unresponsive>>

RevokeClaimBySignature(issuer, sig) ==
  /\ sig \notin revoked[issuer]
  /\ revoked' = [revoked EXCEPT ![issuer] = @ \cup {sig}]
  /\ UNCHANGED <<claims, claimsByTopic, claimKeys, unresponsive>>

\* What is revoked is the signature the identity shows at that moment: that of
\* a later claim, or the empty one when the holder has removed the claim.
RevokeClaim(issuer, holder, claimIssuer, topic) ==
  RevokeClaimBySignature(issuer, claims[holder][<<claimIssuer, topic>>])

\* addKey and removeKey of the issuer.
ChangeClaimKeys(issuer, keys) ==
  /\ keys # claimKeys[issuer]
  /\ claimKeys' = [claimKeys EXCEPT ![issuer] = keys]
  /\ UNCHANGED <<claims, claimsByTopic, revoked, unresponsive>>

\* The logic behind an issuer's proxy breaks, or is repaired.
ChangeResponse(issuer) ==
  /\ unresponsive' = IF issuer \in unresponsive THEN unresponsive \ {issuer}
                     ELSE unresponsive \cup {issuer}
  /\ UNCHANGED <<claims, claimsByTopic, claimKeys, revoked>>

ClaimsNext ==
  \/ \E holder \in Identities, issuer \in Issuers, topic \in Topics :
       \/ \E sig \in Signature : AddClaim(holder, issuer, topic, sig)
       \/ RemoveClaim(holder, issuer, topic)
       \/ \E revoker \in Issuers : RevokeClaim(revoker, holder, issuer, topic)
  \/ \E issuer \in Issuers :
       \/ \E sig \in Signature : RevokeClaimBySignature(issuer, sig)
       \/ \E keys \in SUBSET Keys : ChangeClaimKeys(issuer, keys)
       \/ ChangeResponse(issuer)

-----------------------------------------------------------------------------
\* The list of an identity's claims on a topic and the claims themselves agree,
\* whatever was added again, replaced and removed: each is listed once.
ClaimsListed ==
  \A holder \in Identities, topic \in Topics :
    /\ IsInjective(claimsByTopic[holder][topic])
    /\ Range(claimsByTopic[holder][topic])
         = {i \in Issuers : claims[holder][<<i, topic>>] # NoSignature}
=============================================================================
