------------------------------ MODULE MCToken ------------------------------
(***************************************************************************)
(* Token on small instances: two wallets of one investor, and words of     *)
(* Word values, so small that every sum can wrap.                          *)
(***************************************************************************)
EXTENDS Token, TLC

CONSTANTS w1, w2

MCKeys == [i \in Identities |-> Wallets]

WalletSymmetry == Permutations(Wallets)

\* Trading under the registry the suite was deployed with: any registry, and
\* it does not change.
TradingNext ==
  \/ HolderNext
  \/ AgentNext
  \/ \E a \in AgentAddresses : AddAgent(a)

TradingSpec == Init /\ [][TradingNext]_vars
=============================================================================
