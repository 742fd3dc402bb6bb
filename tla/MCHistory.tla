----------------------------- MODULE MCHistory -----------------------------
(***************************************************************************)
(* History on small instances.                                             *)
(***************************************************************************)
EXTENDS History, TLC

CONSTANTS MaxOperations   \* bound: what the user does, of any session
CONSTANTS a1, a2, meg, gem, alice, authority, otherChain

Content(kind, tag, listed, salt, by) ==
  [kind |-> kind, tag |-> tag, listed |-> listed, salt |-> salt, by |-> by]

\* A factory, two tokens it can deploy (the second has the first one's salt for
\* a name), two identities, one of them unknown
\* to the token, and an issuer of the same wallet, and a transfer manager.
MCContents ==
  {Content("TREXFactory", authority, FALSE, NoTag, ZeroAddress),
   Content("Token", meg, FALSE, gem, a1),
   Content("Token", gem, FALSE, meg, a1),
   Content("Identity", alice, TRUE, NoTag, ZeroAddress),
   Content("Identity", alice, FALSE, NoTag, ZeroAddress),
   Content("ClaimIssuer", alice, TRUE, NoTag, ZeroAddress),
   Content("DVATransferManager", alice, TRUE, NoTag, ZeroAddress)}

\* The file may be missing, or left by a network with another id.
MCFiles ==
  {NoFile, [chain |-> otherChain, lists |-> [EmptyLists EXCEPT !["Token"] = <<a1>>]]}

VARIABLE operations

MCInit == Init /\ operations = 0

\* Tokens are asked for by name, symbol, salt or nothing, identities and
\* issuers by wallet.
UserDoes(p) ==
  \/ Load(p)
  \/ \E a \in Addresses, c \in Contents : Deploy(p, a, c)
  \/ \E tag \in {meg, NoTag} : StartResolve(p, "Token", tag, FALSE)
  \/ \E kind \in {"Identity", "ClaimIssuer"}, within \in BOOLEAN :
       StartResolve(p, kind, alice, within)
  \/ \E name \in {a2, alice} : FindManager(p, name)
  \/ ResolveTokenFactory(p, a2)

MCNext ==
  \/ /\ operations < MaxOperations
     /\ operations' = operations + 1
     /\ \/ \E p \in Sessions : UserDoes(p)
        \/ ClearHistory
        \/ RestartNode
  \/ /\ UNCHANGED operations
     /\ \E p \in Sessions :
          Proceed(p) \/ Exit(p) \/ FailWrite(p) \/ MisreadEntry(p) \/ Crash(p)

MCSpec ==
  MCInit /\ [][MCNext]_<<vars, operations>> /\ \A p \in Sessions : WF_vars(Proceed(p))
=============================================================================
