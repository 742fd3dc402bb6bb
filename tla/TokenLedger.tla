---------------------------- MODULE TokenLedger ----------------------------
(***************************************************************************)
(* What the token promises about amounts, whoever calls it and whatever    *)
(* the compliance contract answers: units move between two different       *)
(* wallets, are issued or are redeemed; a wallet never holds less than its *)
(* frozen amount; a debit releases frozen units only when the free ones do *)
(* not suffice, and then only the shortfall.                               *)
(*                                                                         *)
(* The promise is void from the moment units appear out of nothing         *)
(* (inflated): the encrypted arithmetic gives the code no way to refuse.   *)
(***************************************************************************)
EXTENDS Integers

CONSTANTS Wallets,    \* the addresses that can hold tokens
          MaxSupply   \* the largest amount an encrypted word holds

VARIABLES balances, frozenTokens, totalSupply, inflated

vars == <<balances, frozenTokens, totalSupply, inflated>>

Smaller(a, b) == IF a <= b THEN a ELSE b

\* What stays frozen in a wallet left with the balance rest.
KeepFrozen(w, rest) ==
  frozenTokens' = [frozenTokens EXCEPT ![w] = Smaller(@, rest)]

Init ==
  /\ balances = [w \in Wallets |-> 0]
  /\ frozenTokens = [w \in Wallets |-> 0]
  /\ totalSupply = 0
  /\ inflated = FALSE

Move(from, to, units) ==
  /\ from # to
  /\ units <= balances[from]
  /\ balances' = [balances EXCEPT ![from] = @ - units, ![to] = @ + units]
  /\ KeepFrozen(from, balances[from] - units)
  /\ UNCHANGED <<totalSupply, inflated>>

\* Recovery of a lost wallet: every unit moves, and the frozen ones stay frozen.
MoveAll(from, to) ==
  /\ from # to
  /\ balances' = [balances EXCEPT ![from] = 0, ![to] = @ + balances[from]]
  /\ frozenTokens' = [frozenTokens EXCEPT ![from] = 0, ![to] = @ + frozenTokens[from]]
  /\ UNCHANGED <<totalSupply, inflated>>

Issue(w, units) ==
  /\ totalSupply + units <= MaxSupply
  /\ balances' = [balances EXCEPT ![w] = @ + units]
  /\ totalSupply' = totalSupply + units
  /\ UNCHANGED <<frozenTokens, inflated>>

Redeem(w, units) ==
  /\ units <= balances[w]
  /\ balances' = [balances EXCEPT ![w] = @ - units]
  /\ totalSupply' = totalSupply - units
  /\ KeepFrozen(w, balances[w] - units)
  /\ UNCHANGED inflated

Restrict(w, units) ==
  /\ units <= balances[w]
  /\ frozenTokens' = [frozenTokens EXCEPT ![w] = units]
  /\ UNCHANGED <<balances, totalSupply, inflated>>

Inflate == inflated' = TRUE

Next ==
  \/ Inflate
  \/ \E w \in Wallets, units \in 0 .. MaxSupply :
       \/ \E to \in Wallets : Move(w, to, units)
       \/ Issue(w, units)
       \/ Redeem(w, units)
       \/ Restrict(w, units)
  \/ \E from, to \in Wallets : MoveAll(from, to)

Spec == Init /\ [][Next]_vars
=============================================================================
