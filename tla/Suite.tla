------------------------------- MODULE Suite -------------------------------
(***************************************************************************)
(* What the command line sees of the node and of the history file: the     *)
(* factories, the claim issuers, the contracts of each token, the          *)
(* identities, the compliance modules and the transfer manager, as one     *)
(* record c.  The contracts have modules of their own (Token, Registry,    *)
(* ComplianceModules, DVA); here is what a command reads of them, and what *)
(* the transactions it sends need and change.                              *)
(***************************************************************************)
EXTENDS Naturals, Sequences, FiniteSets

CONSTANTS
  Wallets,      \* accounts of the wallet list
  Users,        \* those of them that hold tokens
  Issuers,      \* claim issuers, each trusted for a claim topic of its own
  Sessions,     \* runs of the command line
  Salt,         \* the salt of the configuration: every token asks for the same
  Nobody,       \* address zero
  Limit         \* the supply limit the modules are set up with

\* The contracts of TREXImplementationAuthorityAPI and of the identity factory.
Infra == {"Identity", "ImplementationAuthority", "IdFactory",
          "TREXImplementationAuthority", "Token", "ClaimTopicsRegistry",
          "IdentityRegistry", "IdentityRegistryStorage", "TrustedIssuersRegistry",
          "ModularCompliance", "TREXFactory"}
\* The contracts of one token; all but the storage are handed to its owner.
Parts == {"ctr", "tir", "irs", "ir", "mc", "token"}
HandedOver == Parts \ {"irs"}

\* Addresses: a session deploys at most one token, one identity for each user
\* and one compliance module of each name, which are named for it.
Tokens == Sessions
Identities == Users \X Sessions
ModuleNames == {"SupplyLimit", "TransferRestrict", "TimeExchange", "ExchangeMonthly"}
Modules == ModuleNames \X Sessions
Manager == "DVATransferManager"
Holders == Users \cup {Manager}

NoEntry == [identity |-> Nobody, country |-> 0]

NewSuite ==
  [owner |-> [p \in Parts |-> Nobody], bound |-> FALSE, onchainID |-> FALSE,
   topics |-> {}, trusted |-> {}, agents |-> {}, irAgents |-> {},
   entry |-> [h \in Holders |-> NoEntry], modules |-> <<>>, paused |-> TRUE,
   balance |-> [h \in Holders |-> 0], frozen |-> [h \in Holders |-> 0],
   allowance |-> [h \in Users |-> 0]]

\* Nothing is deployed.
NewChain ==
  [infra |-> [x \in Infra |-> Nobody], version |-> FALSE, linked |-> FALSE,
   idSalts |-> {}, factoryToken |-> Nobody,
   issuers |-> {},
   identity |-> [i \in Identities |-> [deployed |-> FALSE, keys |-> {}, claims |-> {}]],
   suite |-> [t \in Tokens |-> NewSuite],
   module |-> [m \in Modules |-> [owner |-> Nobody, limit |-> 0, allowed |-> {},
                                  exchanges |-> {}, limits |-> {}]],
   dva |-> [deployed |-> FALSE, criteria |-> {}, transfers |-> <<>>,
            surplus |-> [t \in Tokens |-> 0], burned |-> [t \in Tokens |-> 0]],
   history |-> {}]

-----------------------------------------------------------------------------
Owner(c, t, part) == c.suite[t].owner[part]
IsToken(c, t) == Owner(c, t, "token") # Nobody

\* IdentityRegistry.isVerified, once every topic has one trusted issuer.
Verified(c, t, h) ==
  LET s == c.suite[t]
      i == s.entry[h].identity
  IN i # Nobody /\ s.topics \cap s.trusted \subseteq c.identity[i].claims

IsManager(c, i, w) == w \in c.identity[i].keys

\* The modules of a name, in the order the compliance lists them.
WithName(c, t, name) ==
  {k \in DOMAIN c.suite[t].modules : c.suite[t].modules[k][1] = name}

\* fromToken of a module's API: exactly one module of the name.
HasModule(c, t, name) == Cardinality(WithName(c, t, name)) = 1
ModuleOf(c, t, name) == c.suite[t].modules[CHOOSE k \in WithName(c, t, name) : TRUE]

Supply(c, t) ==
  LET s == c.suite[t].balance
      total[S \in SUBSET Holders] ==
        IF S = {} THEN 0 ELSE LET h == CHOOSE h \in S : TRUE IN s[h] + total[S \ {h}]
  IN total[Holders]

\* An exchange takes what an investor sends up to its limit, which is 0 until one
\* is set; a limit that is set is never reached by the amounts used here.
WithinMonthly(m, s, from, to, n) ==
  LET exchange == s.entry[to].identity
  IN \/ from \in s.agents \/ s.entry[from].identity \in m.exchanges
     \/ exchange \notin m.exchanges
     \/ exchange \in m.limits \/ n = 0

\* What the modules of the compliance decide under encryption.  An exchange has no
\* windows in TimeExchange until they are set, and without windows no bound.
Compliant(c, t, from, to, n) ==
  \A k \in DOMAIN c.suite[t].modules :
    LET m == c.module[c.suite[t].modules[k]]
        name == c.suite[t].modules[k][1]
    IN /\ name = "SupplyLimit" /\ from = Nobody => Supply(c, t) + n <= m.limit
       /\ name = "TransferRestrict" => {from, to} \cap m.allowed # {}
       /\ name = "ExchangeMonthly" /\ from # Nobody => WithinMonthly(m, c.suite[t], from, to, n)

\* As Free, but frozen tokens count.
Whole(s, from) == s.balance[from]
Free(s, from) == s.balance[from] - s.frozen[from]

\* What a transfer leaves: a refused one is mined, and moves nothing.  One to the
\* sender is credited to the balance it was to be taken from (Token.sol:1010).
Moved(c, t, from, to, n) ==
  LET s == c.suite[t]
      ok == /\ from # Nobody => Free(s, from) >= n
            /\ Compliant(c, t, from, to, n)
      less == IF from = Nobody THEN s.balance ELSE [s.balance EXCEPT ![from] = @ - n]
  IN IF ok THEN [c EXCEPT !.suite[t].balance = [less EXCEPT ![to] = s.balance[to] + n]] ELSE c

\* The number the transfer manager gives its next transfer.
Nonce(c) == Len(c.dva.transfers) + 1

\* One step of a command: what it checks first, when it has nothing left to do,
\* what the transaction needs and changes, and what is checked when it is mined.
Step(checks, done, accepts, after, shows) ==
  [checks |-> checks, done |-> done, accepts |-> accepts, after |-> after, shows |-> shows]

\* A step that only reads.
Check(c, checks) == Step(checks, TRUE, FALSE, c, TRUE)
=============================================================================
