------------------------------ MODULE Registry ------------------------------
(***************************************************************************)
(* The identity registries of several tokens: IdentityRegistryStorage      *)
(* keeps the identity of each wallet for the registries bound to it, the   *)
(* TrustedIssuersRegistry and the ClaimTopicsRegistry say whose claims     *)
(* count on which topics, and IdentityRegistry.isVerified puts them and    *)
(* the claims together.                                                    *)
(*                                                                         *)
(* A registry's own agents and owner are like the token's (Token.tla); the *)
(* caller is one of them.  Countries are in ComplianceModules.tla.  All    *)
(* registries share one issuers registry and one topics registry.          *)
(***************************************************************************)
EXTENDS Claims, FiniteSets

CONSTANTS
  Wallets,       \* investors' addresses
  NoIdentity,    \* the zero address
  Registries,    \* IdentityRegistry contracts
  Storages,      \* IdentityRegistryStorage contracts
  MaxTopics,     \* 15: topics of an issuer, and required topics
  MaxIssuers,    \* 50: trusted issuers
  MaxRegistries  \* 300: registries bound to a storage

ASSUME RegistryAssumption ==
  /\ NoIdentity \notin Identities
  /\ MaxTopics \in Nat /\ MaxIssuers \in Nat /\ MaxRegistries \in Nat

VARIABLES
  trustedIssuers,   \* TrustedIssuersRegistry._trustedIssuers
  topicsOf,         \* ._trustedIssuerClaimTopics
  issuersFor,       \* ._claimTopicsToTrustedIssuers
  requiredTopics,   \* ClaimTopicsRegistry._claimTopics
  identities,       \* IdentityRegistryStorage._identities
  linked,           \* ._identityRegistries
  storageAgents,    \* the registries among its agents
  storageOf         \* IdentityRegistry._tokenIdentityStorage

issuerVars == <<trustedIssuers, topicsOf, issuersFor, requiredTopics>>
bindingVars == <<linked, storageAgents, storageOf>>
vars == <<claimVars, issuerVars, identities, bindingVars>>

RegistryTypeOK ==
  /\ trustedIssuers \in Seq(Issuers) /\ Len(trustedIssuers) <= MaxIssuers
  /\ topicsOf \in [Issuers -> Seq(Topics)]
  /\ issuersFor \in [Topics -> Seq(Issuers)]
  /\ requiredTopics \in Seq(Topics) /\ Len(requiredTopics) <= MaxTopics
  /\ identities \in [Storages -> [Wallets -> Identities \cup {NoIdentity}]]
  /\ linked \in [Storages -> Seq(Registries)]
  /\ \A s \in Storages : Len(linked[s]) <= MaxRegistries
  /\ storageAgents \in [Storages -> SUBSET Registries]
  /\ storageOf \in [Registries -> Storages]

RegistryInit ==
  /\ trustedIssuers = <<>>
  /\ topicsOf = [i \in Issuers |-> <<>>]
  /\ issuersFor = [t \in Topics |-> <<>>]
  /\ requiredTopics = <<>>
  /\ identities = [s \in Storages |-> [w \in Wallets |-> NoIdentity]]
  /\ linked = [s \in Storages |-> <<>>]
  /\ storageAgents = [s \in Storages |-> {}]
  /\ storageOf \in [Registries -> Storages]

Init == ClaimsInit /\ RegistryInit

(***************************************************************************)
(* Verification.                                                           *)
(***************************************************************************)

\* One trusted issuer's claim counts; one that does not answer is passed over.
ClaimCounts(id, issuer, topic) ==
  /\ issuer \notin unresponsive
  /\ IsClaimValid(issuer, id, topic, claims[id][<<issuer, topic>>])

\* The claims part of isVerified: the loop over the issuers of a topic stops at
\* the first claim that counts and fails after the last.
PassesClaims(id) ==
  \A topic \in Range(requiredTopics) :
    \E issuer \in Range(issuersFor[topic]) : ClaimCounts(id, issuer, topic)

Identity(r, w) == identities[storageOf[r]][w]

IsVerified(r, w) == Identity(r, w) # NoIdentity /\ PassesClaims(Identity(r, w))

(***************************************************************************)
(* Trusted issuers and required topics.                                    *)
(***************************************************************************)
IsTrusted(issuer) == topicsOf[issuer] # <<>>

\* The lists of claim topics an owner may give.
IsTopicList(topics) == Len(topics) \in 1 .. MaxTopics

\* An entry in the issuers of a topic, and out of them again.
Listing(index, issuer, topic) == [index EXCEPT ![topic] = Append(@, issuer)]
Striking(index, issuer, topic) == [index EXCEPT ![topic] = SwapAndPop(@, issuer)]

\* The loops over the topics of a call: once per mention.
Enlisted(index, issuer, topics) ==
  LET after[n \in 0 .. Len(topics)] ==
        IF n = 0 THEN index ELSE Listing(after[n - 1], issuer, topics[n])
  IN after[Len(topics)]

Struck(index, issuer, topics) ==
  LET after[n \in 0 .. Len(topics)] ==
        IF n = 0 THEN index ELSE Striking(after[n - 1], issuer, topics[n])
  IN after[Len(topics)]

AddTrustedIssuer(issuer, topics) ==
  /\ ~IsTrusted(issuer)
  /\ IsTopicList(topics)
  /\ Len(trustedIssuers) < MaxIssuers
  /\ trustedIssuers' = Append(trustedIssuers, issuer)
  /\ topicsOf' = [topicsOf EXCEPT ![issuer] = topics]
  /\ issuersFor' = Enlisted(issuersFor, issuer, topics)
  /\ UNCHANGED <<claimVars, requiredTopics, identities, bindingVars>>

\* Mutant of RemoveTrustedIssuer: only its first topic forgets it.
RemoveFromFirstTopic(issuer) ==
  /\ IsTrusted(issuer)
  /\ trustedIssuers' = SwapAndPop(trustedIssuers, issuer)
  /\ issuersFor' = Struck(issuersFor, issuer, <<Head(topicsOf[issuer])>>)
  /\ topicsOf' = [topicsOf EXCEPT ![issuer] = <<>>]
  /\ UNCHANGED <<claimVars, requiredTopics, identities, bindingVars>>

RemoveTrustedIssuer(issuer) ==
  /\ IsTrusted(issuer)
  /\ trustedIssuers' = SwapAndPop(trustedIssuers, issuer)
  /\ issuersFor' = Struck(issuersFor, issuer, topicsOf[issuer])
  /\ topicsOf' = [topicsOf EXCEPT ![issuer] = <<>>]
  /\ UNCHANGED <<claimVars, requiredTopics, identities, bindingVars>>

\* Mutant of UpdateIssuerClaimTopics: the old topics still name the issuer.
UpdateKeepingOldTopics(issuer, topics) ==
  /\ IsTrusted(issuer)
  /\ IsTopicList(topics)
  /\ issuersFor' = Enlisted(issuersFor, issuer, topics)
  /\ topicsOf' = [topicsOf EXCEPT ![issuer] = topics]
  /\ UNCHANGED <<claimVars, trustedIssuers, requiredTopics, identities, bindingVars>>

UpdateIssuerClaimTopics(issuer, topics) ==
  /\ IsTrusted(issuer)
  /\ IsTopicList(topics)
  /\ issuersFor' =
       Enlisted(Struck(issuersFor, issuer, topicsOf[issuer]), issuer, topics)
  /\ topicsOf' = [topicsOf EXCEPT ![issuer] = topics]
  /\ UNCHANGED <<claimVars, trustedIssuers, requiredTopics, identities, bindingVars>>

AddClaimTopic(topic) ==
  /\ Len(requiredTopics) < MaxTopics
  /\ topic \notin Range(requiredTopics)
  /\ requiredTopics' = Append(requiredTopics, topic)
  /\ UNCHANGED <<claimVars, trustedIssuers, topicsOf, issuersFor, identities, bindingVars>>

RemoveClaimTopic(topic) ==
  /\ topic \in Range(requiredTopics)
  /\ requiredTopics' = SwapAndPop(requiredTopics, topic)
  /\ UNCHANGED <<claimVars, trustedIssuers, topicsOf, issuersFor, identities, bindingVars>>

(***************************************************************************)
(* Registration, through a registry that is an agent of its storage.       *)
(***************************************************************************)
Store(r, w, id) ==
  /\ r \in storageAgents[storageOf[r]]
  /\ identities' = [identities EXCEPT ![storageOf[r]][w] = id]
  /\ UNCHANGED <<claimVars, issuerVars, bindingVars>>

RegisterIdentity(r, w, id) ==
  /\ Identity(r, w) = NoIdentity
  /\ Store(r, w, id)

UpdateIdentity(r, w, id) ==
  /\ Identity(r, w) # NoIdentity
  /\ Store(r, w, id)

DeleteIdentity(r, w) ==
  /\ Identity(r, w) # NoIdentity
  /\ Store(r, w, NoIdentity)

SetIdentityRegistryStorage(r, s) ==
  /\ storageOf' = [storageOf EXCEPT ![r] = s]
  /\ UNCHANGED <<claimVars, issuerVars, identities, linked, storageAgents>>

(***************************************************************************)
(* Registries and storages.                                                *)
(***************************************************************************)
Bindings(s, list, agents) ==
  /\ linked' = [linked EXCEPT ![s] = list]
  /\ storageAgents' = [storageAgents EXCEPT ![s] = agents]
  /\ UNCHANGED <<claimVars, issuerVars, identities, storageOf>>

AddStorageAgent(s, r) ==
  /\ r \notin storageAgents[s]
  /\ Bindings(s, linked[s], storageAgents[s] \cup {r})

RemoveStorageAgent(s, r) ==
  /\ r \in storageAgents[s]
  /\ Bindings(s, linked[s], storageAgents[s] \ {r})

\* Mutant of BindIdentityRegistry: one registry too many.
BindOneTooMany(s, r) ==
  /\ Len(linked[s]) <= MaxRegistries
  /\ r \notin storageAgents[s]
  /\ Bindings(s, Append(linked[s], r), storageAgents[s] \cup {r})

BindIdentityRegistry(s, r) ==
  /\ Len(linked[s]) < MaxRegistries
  /\ r \notin storageAgents[s]
  /\ Bindings(s, Append(linked[s], r), storageAgents[s] \cup {r})

\* Mutant of UnbindIdentityRegistry: the registry remains an agent.
UnbindKeepingAgent(s, r) ==
  /\ linked[s] # <<>>
  /\ r \in storageAgents[s]
  /\ Bindings(s, SwapAndPop(linked[s], r), storageAgents[s])

\* The registry need not be in the list, but has to be an agent.
UnbindIdentityRegistry(s, r) ==
  /\ linked[s] # <<>>
  /\ r \in storageAgents[s]
  /\ Bindings(s, SwapAndPop(linked[s], r), storageAgents[s] \ {r})

IssuersNext ==
  \/ \E issuer \in Issuers :
       \/ \E topics \in BoundedSeq(Topics, MaxTopics) :
            AddTrustedIssuer(issuer, topics) \/ UpdateIssuerClaimTopics(issuer, topics)
       \/ RemoveTrustedIssuer(issuer)
  \/ \E topic \in Topics : AddClaimTopic(topic) \/ RemoveClaimTopic(topic)

InvestorsNext ==
  \E r \in Registries, w \in Wallets :
    \/ \E id \in Identities : RegisterIdentity(r, w, id) \/ UpdateIdentity(r, w, id)
    \/ DeleteIdentity(r, w)

BindingsNext ==
  \E r \in Registries, s \in Storages :
    \/ SetIdentityRegistryStorage(r, s)
    \/ AddStorageAgent(s, r) \/ RemoveStorageAgent(s, r)
    \/ BindIdentityRegistry(s, r) \/ UnbindIdentityRegistry(s, r)

Next ==
  \/ ClaimsNext /\ UNCHANGED <<issuerVars, identities, bindingVars>>
  \/ IssuersNext
  \/ InvestorsNext
  \/ BindingsNext

Spec == Init /\ [][Next]_vars

-----------------------------------------------------------------------------
(***************************************************************************)
(* Properties.                                                             *)
(***************************************************************************)

TypeOK == ClaimsTypeOK /\ RegistryTypeOK

Mentions(list, entry) == Cardinality({p \in DOMAIN list : list[p] = entry})

\* The topics of each issuer and the issuers of each topic are one relation kept
\* twice, and stay so through every swap and pop, repeated topics included; the
\* list holds each issuer that has topics once.
IssuerIndexesAgree ==
  /\ IsInjective(trustedIssuers)
  /\ Range(trustedIssuers) = {i \in Issuers : IsTrusted(i)}
  /\ \A i \in Issuers, t \in Topics :
       Mentions(issuersFor[t], i) = Mentions(topicsOf[i], t)

\* isVerified means what the owners have decided: the wallet is registered, and
\* on every required topic its identity has a claim, valid now, of an issuer
\* that is trusted on that topic now.
VerifiedAsDecided ==
  \A r \in Registries, w \in Wallets :
    IsVerified(r, w) <=>
      /\ Identity(r, w) # NoIdentity
      /\ \A topic \in Range(requiredTopics) :
           \E issuer \in Range(trustedIssuers) :
             /\ topic \in Range(topicsOf[issuer])
             /\ ClaimCounts(Identity(r, w), issuer, topic)

\* The registries a storage lists are those that may write to it, unless the
\* owner has changed the agents directly: binding and unbinding never part them.
LinkedMayWrite(s) ==
  IsInjective(linked[s]) /\ Range(linked[s]) = storageAgents[s]

OnlyAgentCallsPart ==
  [][ \A s \in Storages : LinkedMayWrite(s) /\ ~LinkedMayWrite(s)' =>
        \E r \in Registries : AddStorageAgent(s, r) \/ RemoveStorageAgent(s, r) ]_vars
=============================================================================
