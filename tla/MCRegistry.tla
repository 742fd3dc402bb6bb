----------------------------- MODULE MCRegistry -----------------------------
(***************************************************************************)
(* Registry on a small instance: two registries, two storages, one         *)
(* investor; two issuers and two topics.                                   *)
(***************************************************************************)
EXTENDS Registry, TLC

CONSTANTS r1, r2, s1

IssuerTopicSymmetry ==
  Permutations(Issuers) \cup Permutations(Topics) \cup Permutations(Encodings)

\* Both registries share the first storage, as the factory deploys them.
SharedStorage ==
  /\ storageOf = [r \in Registries |-> s1]
  /\ linked = [s \in Storages |-> IF s = s1 THEN <<r1, r2>> ELSE <<>>]
  /\ storageAgents = [s \in Storages |-> IF s = s1 THEN Registries ELSE {}]

NothingRequired ==
  /\ requiredTopics = <<>> /\ trustedIssuers = <<>>
  /\ \A id \in Identities, i \in Issuers, t \in Topics : claims[id][<<i, t>>] = NoSignature

MCInit ==
  /\ ClaimsInit
  /\ claimKeys = [i \in Issuers |-> Keys]
  /\ trustedIssuers = <<>>
  /\ topicsOf = [i \in Issuers |-> <<>>]
  /\ issuersFor = [t \in Topics |-> <<>>]
  /\ requiredTopics = <<>>
  /\ identities = [s \in Storages |-> [w \in Wallets |-> NoIdentity]]
  /\ SharedStorage

\* What can spoil a claim: a revocation, a lost key, an issuer that fails.
Spoilt ==
  {<<i, "revoked">> : i \in {j \in Issuers : revoked[j] # {}}}
    \cup {<<i, "keyless">> : i \in {j \in Issuers : claimKeys[j] # Keys}}
    \cup {<<i, "unresponsive">> : i \in unresponsive}

\* One claim at a time is spoilt, under one required topic and issuers of one
\* topic each; the bindings of registries change while nothing is required (they
\* share no state with the claims).
Bounded ==
  /\ Cardinality(Spoilt) <= 1
  /\ \A i \in Issuers : Cardinality(revoked[i]) <= 1
  /\ Spoilt # {} => /\ Len(requiredTopics) = 1
                    /\ \A i \in Issuers : Len(topicsOf[i]) <= 1
  /\ SharedStorage \/ (NothingRequired /\ Spoilt = {})

MCNext == Next /\ Bounded'

MCSpec == MCInit /\ [][MCNext]_vars
=============================================================================
