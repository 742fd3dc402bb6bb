--------------------------- MODULE TokenCommands ---------------------------
(***************************************************************************)
(* The commands on a token that exists: supply, transfers and allowances,  *)
(* pause, settings of its compliance modules, and its transfer manager.    *)
(* Each is one step, but for the creation of a manager.                    *)
(***************************************************************************)
EXTENDS SuiteCommands

IsAgent(c, o) == o.by \in c.suite[o.token].agents

-----------------------------------------------------------------------------
(***************************************************************************)
(* Supply and pause.  setup calls the API, the other commands check first. *)
(***************************************************************************)
\* surplus is a history variable: what the manager of a token has been left with
\* beyond the transfers it settles.  Here, units somebody minted or sent to it.
Gain(before, after, t) == after.suite[t].balance[Manager] - before.suite[t].balance[Manager]
Unasked(c, d, t) == [d EXCEPT !.dva.surplus[t] = @ + Gain(c, d, t)]

\* TokenAPI.mint: tokens go to verified holders only, paused or not.
Mint(c, o) ==
  Step(TRUE, FALSE, IsAgent(c, o) /\ Verified(c, o.token, o.user),
       Unasked(c, Moved(c, o.token, Nobody, o.user, 1), o.token), TRUE)
CmdMint(c, o) == [Mint(c, o) EXCEPT !.checks = IsToken(c, o.token) /\ IsAgent(c, o)]

Unpause(c, o) ==
  Step(TRUE, FALSE, IsAgent(c, o) /\ c.suite[o.token].paused,
       [c EXCEPT !.suite[o.token].paused = FALSE], TRUE)
Pause(c, o) ==
  Step(TRUE, FALSE, IsAgent(c, o) /\ ~c.suite[o.token].paused,
       [c EXCEPT !.suite[o.token].paused = TRUE], TRUE)
CmdUnpause(c, o) ==
  [Unpause(c, o) EXCEPT !.checks = IsAgent(c, o), !.done = ~c.suite[o.token].paused,
                        !.shows = ~c.suite[o.token].paused]
CmdPause(c, o) ==
  [Pause(c, o) EXCEPT !.checks = IsAgent(c, o), !.done = c.suite[o.token].paused,
                      !.shows = c.suite[o.token].paused]

\* Frozen tokens are clamped under encryption, as burned ones are.
CmdFreeze(c, o) ==
  LET s == c.suite[o.token]
  IN Step(IsAgent(c, o), FALSE, IsAgent(c, o),
          [c EXCEPT !.suite[o.token].frozen[o.user] =
             IF s.balance[o.user] > s.frozen[o.user] THEN @ + 1 ELSE @], TRUE)
CmdUnfreeze(c, o) ==
  Step(IsAgent(c, o), FALSE, IsAgent(c, o),
       [c EXCEPT !.suite[o.token].frozen[o.user] = IF @ > 0 THEN @ - 1 ELSE @], TRUE)

\* A burn may take frozen tokens, which it releases.  burned is a history variable:
\* the units of a manager that were.
Burnt(c, o) ==
  LET s == c.suite[o.token]
      left == IF s.balance[o.user] > 0 THEN s.balance[o.user] - 1 ELSE 0
      kept == IF s.frozen[o.user] > left THEN left ELSE s.frozen[o.user]
  IN [c EXCEPT !.suite[o.token] =
        [@ EXCEPT !.balance[o.user] = left, !.frozen[o.user] = kept]]
CmdBurn(c, o) ==
  Step(IsAgent(c, o), FALSE, IsAgent(c, o),
       [Burnt(c, o) EXCEPT !.dva.burned[o.token] = @ - Gain(c, Burnt(c, o), o.token)], TRUE)

-----------------------------------------------------------------------------
(***************************************************************************)
(* Transfers and allowances.  The commands check nothing themselves.       *)
(***************************************************************************)
CmdTransfer(c, o) ==
  Step(IsToken(c, o.token), FALSE, ~c.suite[o.token].paused /\ Verified(c, o.token, o.to),
       Unasked(c, Moved(c, o.token, o.by, o.to, 1), o.token), TRUE)

\* The manager is the only spender here.
WithAllowance(c, o, n) == [c EXCEPT !.suite[o.token].allowance[o.by] = n]
CmdApprove(c, o) == Step(IsToken(c, o.token), FALSE, TRUE, WithAllowance(c, o, 1), TRUE)
CmdIncreaseAllowance(c, o) ==
  Step(IsToken(c, o.token), FALSE, TRUE,
       WithAllowance(c, o, c.suite[o.token].allowance[o.by] + 1), TRUE)
CmdDecreaseAllowance(c, o) ==
  LET n == c.suite[o.token].allowance[o.by]
  IN Step(IsToken(c, o.token), FALSE, TRUE, WithAllowance(c, o, IF n > 0 THEN n - 1 ELSE 0), TRUE)

-----------------------------------------------------------------------------
(***************************************************************************)
(* Settings of the modules the token has, of which each command needs      *)
(* exactly one of the name.                                                *)
(***************************************************************************)
CmdSetSupplyLimit(c, o) ==
  LET owned == Owner(c, o.token, "mc") = o.by
      there == HasModule(c, o.token, "SupplyLimit")
  IN Step(there /\ owned, FALSE, owned,
          IF there THEN [c EXCEPT !.module[ModuleOf(c, o.token, "SupplyLimit")].limit = o.limit]
          ELSE c, TRUE)

\* Exchange identities belong to the module, whose owner is its deployer.  The
\* user's identity is the registered one; the monthly module's commands also
\* ask that the user still manages it.
ExchangeUser(c, o) ==
  LET i == c.suite[o.token].entry[o.user].identity
  IN i # Nobody /\ (o.name = "ExchangeMonthly" => IsManager(c, i, o.user))

AddExchangeID(c, o, m, i) ==
  LET owned == c.module[m].owner = o.by
      tagged == i \in c.module[m].exchanges
  IN Step(owned, tagged, owned /\ ~tagged, [c EXCEPT !.module[m].exchanges = @ \cup {i}], tagged)
RemoveExchangeID(c, o, m, i) ==
  LET owned == c.module[m].owner = o.by
      tagged == i \in c.module[m].exchanges
  IN Step(owned, ~tagged, owned /\ tagged, [c EXCEPT !.module[m].exchanges = @ \ {i}], ~tagged)
\* A limit may be set for an identity that is no exchange (yet).
SetExchangeLimit(c, o, m, i) ==
  LET owned == Owner(c, o.token, "mc") = o.by
  IN Step(owned, FALSE, owned, [c EXCEPT !.module[m].limits = @ \cup {i}], TRUE)

\* The module and the identity must be found before anything else is tried.
ExchangeFound(c, o) == HasModule(c, o.token, o.name) /\ ExchangeUser(c, o)
Exchange(c, o) == c.suite[o.token].entry[o.user].identity
CmdAddExchangeID(c, o) ==
  IF ExchangeFound(c, o) THEN AddExchangeID(c, o, ModuleOf(c, o.token, o.name), Exchange(c, o))
  ELSE Check(c, FALSE)
CmdRemoveExchangeID(c, o) ==
  IF ExchangeFound(c, o) THEN RemoveExchangeID(c, o, ModuleOf(c, o.token, o.name), Exchange(c, o))
  ELSE Check(c, FALSE)
CmdSetExchangeLimit(c, o) ==
  IF ExchangeFound(c, o) THEN SetExchangeLimit(c, o, ModuleOf(c, o.token, o.name), Exchange(c, o))
  ELSE Check(c, FALSE)

-----------------------------------------------------------------------------
(***************************************************************************)
(* The transfer manager.                                                   *)
(***************************************************************************)
NoTransfer == Nobody

\* cmdTransferManagerCreate: the contract is deployed before anything is checked,
\* and saved last; in between the user's identity is registered for it.  One
\* manager is followed: bound, a second deployment ends there.
DeployManager(c, o) ==
  Step(TRUE, FALSE, ~c.dva.deployed, [c EXCEPT !.dva.deployed = TRUE], TRUE)
RegisterManager(c, o) ==
  LET s == c.suite[o.token]
      i == s.entry[o.user].identity
  IN Step(/\ i # Nobody /\ IsManager(c, i, o.user)
          /\ Verified(c, o.token, o.user) /\ o.by \in s.irAgents
          /\ s.entry[Manager] = NoEntry \/ s.entry[Manager].country = o.country,
          FALSE, o.by \in s.irAgents /\ s.entry[Manager] = NoEntry,
          [c EXCEPT !.suite[o.token].entry[Manager] = [identity |-> i, country |-> o.country]], TRUE)
TransferManagerCreate(token, user, country, by) ==
  LET o == [do |-> "deployManager", token |-> token, user |-> user, country |-> country, by |-> by]
  IN <<o, [o EXCEPT !.do = "registerManager"], save(Manager, Manager)>>

\* The manager as the history has it, verified for the token.
ManagerReady(c, o) == <<Manager, Manager>> \in c.history /\ Verified(c, o.token, Manager)

CmdSetApprovalCriteria(c, o) ==
  LET may == IsAgent(c, o) /\ Verified(c, o.token, Manager)
  IN Step(may /\ ManagerReady(c, o), FALSE, may,
          [c EXCEPT !.dva.criteria = o.criteria], c.dva.criteria = o.criteria)

\* As PaidIn, but the amount that was asked for.
AskedFor(before, after, t) == 1
\* What really reached the manager.
PaidIn(before, after, t) == Gain(before, after, t)

\* The transfer's number is read before the transaction is sent.  The allowance
\* is clamped, it does not limit what moves to the manager.
CmdInitiate(c, o) ==
  LET s == c.suite[o.token]
      moved == Moved(c, o.token, o.by, Manager, 1)
      amount == PaidIn(c, moved, o.token)
      new == [token |-> o.token, from |-> o.by, to |-> o.to, amount |-> amount,
              criteria |-> c.dva.criteria, approved |-> {}, status |-> "PENDING"]
  IN Step(ManagerReady(c, o) /\ c.dva.criteria # {}, FALSE,
          /\ c.dva.criteria # {} /\ ~s.paused
          /\ Verified(c, o.token, o.to) /\ Verified(c, o.token, Manager),
          [moved EXCEPT !.dva.transfers = Append(@, new),
                        !.suite[o.token].allowance[o.by] = IF @ > amount THEN @ - amount ELSE 0],
          TRUE)

\* Who may give the approvals a transfer lacks: the recipient, or any agent of
\* the transfer's token, whatever token the command was given; or, for the agent,
\* a signature that is nobody's (DVATransferManager.sol:161, 395).
Gives(c, o, role) ==
  LET t == c.dva.transfers[o.id]
  IN IF role = "agent" THEN o.by \in c.suite[t.token].agents \cup {Nobody} ELSE o.by = t.to
Lacking(c, o) == LET t == c.dva.transfers[o.id] IN {r \in t.criteria \ t.approved : Gives(c, o, r)}

\* The last approval makes the manager pay, which the token must let it do.
Completes(c, o) ==
  LET t == c.dva.transfers[o.id]
  IN t.criteria = c.dva.criteria /\ Cardinality(t.criteria \ t.approved) = 1

\* The manager pays what it holds of a transfer.  A payment that moves nothing,
\* because a module refuses it or units of the manager are frozen, leaves it with
\* the amount, one to itself with twice as much.
Kept(c, paid, t, to) ==
  IF paid = c THEN t.amount ELSE IF to = Manager THEN 2 * t.amount ELSE 0
PaidOut(c, t, to) ==
  LET paid == Moved(c, t.token, Manager, to, t.amount)
  IN [paid EXCEPT !.dva.surplus[t.token] = @ + Kept(c, paid, t, to)]

\* Approvals given under other criteria are void.
Reset(c, id) ==
  [c EXCEPT !.dva.transfers[id] = [@ EXCEPT !.criteria = c.dva.criteria, !.approved = {}]]
AfterApproval(c, o) ==
  LET t == c.dva.transfers[o.id]
      given == t.approved \cup {IF "recipient" \in Lacking(c, o) THEN "recipient" ELSE "agent"}
      last == [t EXCEPT !.approved = given, !.status = "COMPLETED"]
  IN IF t.criteria # c.dva.criteria
     THEN Reset(c, o.id)
     ELSE IF Completes(c, o)
     THEN [PaidOut(c, t, t.to) EXCEPT !.dva.transfers[o.id] = last]
     ELSE [c EXCEPT !.dva.transfers[o.id].approved = given]

Pending(c, o) == o.id \in DOMAIN c.dva.transfers /\ c.dva.transfers[o.id].status = "PENDING"
Approvable(c, o) ==
  /\ Pending(c, o)
  /\ LET t == c.dva.transfers[o.id]
     IN /\ t.criteria = c.dva.criteria => Lacking(c, o) # {}
        /\ Completes(c, o) => ~c.suite[t.token].paused /\ Verified(c, t.token, t.to)

CmdTransferApprove(c, o) ==
  Step(ManagerReady(c, o), FALSE, Approvable(c, o),
       IF Approvable(c, o) THEN AfterApproval(c, o) ELSE c, TRUE)

\* The caller sends the approvals of one signer or of two; no more are looked at,
\* for a transfer here lacks two at most.  They are given in their order, and those
\* after the last that was lacking, or after a reset, are left aside; one that can
\* not be given undoes them all.
SignedBy(o, k) == [o EXCEPT !.by = o.signers[k]]
GoesOn(c, o) ==
  /\ Len(o.signers) = 2
  /\ c.dva.transfers[o.id].criteria = c.dva.criteria
  /\ Pending(AfterApproval(c, SignedBy(o, 1)), o)
AllApprovable(c, o) ==
  /\ Approvable(c, SignedBy(o, 1))
  /\ GoesOn(c, o) => Approvable(AfterApproval(c, SignedBy(o, 1)), SignedBy(o, 2))
AfterApprovals(c, o) ==
  LET first == AfterApproval(c, SignedBy(o, 1))
  IN IF GoesOn(c, o) THEN AfterApproval(first, SignedBy(o, 2)) ELSE first

CmdDelegateApprove(c, o) ==
  Step(ManagerReady(c, o) /\ Pending(c, o), FALSE, AllApprovable(c, o),
       IF AllApprovable(c, o) THEN AfterApprovals(c, o) ELSE c, TRUE)

\* The sender takes the transfer back, or somebody whose approval it lacks turns
\* it down: the manager returns what it holds of it.
Returnable(c, o) ==
  LET t == c.dva.transfers[o.id] IN ~c.suite[t.token].paused /\ Verified(c, t.token, t.from)
Returned(c, o, status) ==
  LET t == c.dva.transfers[o.id]
  IN [PaidOut(c, t, t.from) EXCEPT !.dva.transfers[o.id].status = status]

CancelTransfer(c, o) ==
  LET may == Pending(c, o) /\ o.by = c.dva.transfers[o.id].from /\ Returnable(c, o)
  IN Step(TRUE, FALSE, may, IF may THEN Returned(c, o, "CANCELLED") ELSE c, TRUE)
RejectTransfer(c, o) ==
  LET void == Pending(c, o) /\ c.dva.transfers[o.id].criteria # c.dva.criteria
      may == Pending(c, o) /\ Lacking(c, o) # {} /\ Returnable(c, o)
  IN Step(TRUE, FALSE, void \/ may,
          IF void THEN Reset(c, o.id) ELSE IF may THEN Returned(c, o, "REJECTED") ELSE c, TRUE)
=============================================================================
