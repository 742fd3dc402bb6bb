---------------------------- MODULE CommandLine ----------------------------
(***************************************************************************)
(* Runs of the command line against one node.  A session runs one task at  *)
(* a time: a sequence of steps, each of which checks what it needs by      *)
(* reading the node, sends a transaction, waits for it to be mined and     *)
(* reads the result.  Other sessions' transactions are mined in between;   *)
(* a session may be killed anywhere, and the node may refuse a             *)
(* transaction that was sent.                                              *)
(***************************************************************************)
EXTENDS Tasks, UnitSums

CONSTANT MaxFaults   \* bound: transactions refused and sessions killed
ASSUME MaxFaultsAssumption == MaxFaults \in Nat

VARIABLES
  network,    \* "hardhat" is in-process: nobody else can be connected to it
  chain,      \* what the node and the history file hold
  session,    \* each session's task and its place in it
  faults      \* faults so far

vars == <<network, chain, session, faults>>

\* raced: something was mined or failed since the task was started; stale: since
\* the node was last read.  read: the transfer number the session has read.
Idle == [task |-> "none", script |-> <<>>, at |-> "idle", read |-> 0, raced |-> FALSE,
         stale |-> FALSE, outcome |-> "none"]
Busy(p) == session[p].at # "idle"
Now(p) == Head(session[p].script)
StepNow(p) == StepOf(chain, Now(p))

Init ==
  /\ network \in {"hardhat", "fhevm"}
  /\ chain = NewChain
  /\ session = [p \in Sessions |-> Idle]
  /\ faults = 0

-----------------------------------------------------------------------------
Ended(p, outcome) == [session[p] EXCEPT !.script = <<>>, !.at = "idle", !.outcome = outcome]

\* Past the first step of the script; after the last one the task has ended well.
Advanced(p) ==
  IF Len(session[p].script) = 1 THEN Ended(p, "ok")
  ELSE [session[p] EXCEPT !.script = Tail(@), !.at = "begin"]

\* The node is no longer the one the other sessions have read.
AsMined(p, s) ==
  [q \in Sessions |-> IF q = p THEN s
                      ELSE [session[q] EXCEPT !.raced = @ \/ Busy(q), !.stale = Busy(q)]]

Start(p, task) ==
  /\ ~Busy(p)
  /\ Alone(network) => \A q \in Sessions : ~Busy(q) /\ (q # p => session[q].task = "none")
  /\ \E script \in ScriptsOf(network, chain, p, task) :
       session' = [session EXCEPT ![p] =
         [Idle EXCEPT !.task = task, !.script = script, !.at = "begin"]]
  /\ UNCHANGED <<network, chain, faults>>

\* The history is written to, no transaction is sent.
Record(p) ==
  /\ session[p].at = "begin" /\ Now(p).do = "save"
  /\ chain' = Save(chain, Now(p))
  /\ session' = [session EXCEPT ![p] = Advanced(p)]
  /\ UNCHANGED <<network, faults>>

\* A step that fails its checks ends the task; one that has nothing to do is
\* passed; otherwise its transaction is sent.
Begin(p) ==
  /\ session[p].at = "begin" /\ Now(p).do # "save"
  /\ LET step == StepNow(p)
     IN session' = [session EXCEPT ![p] =
          IF ~step.checks THEN Ended(p, "failed")
          ELSE IF step.done THEN Advanced(p)
          ELSE [@ EXCEPT !.at = "sent", !.read = Nonce(chain), !.stale = FALSE]]
  /\ UNCHANGED <<network, chain, faults>>

\* As Mine, but the receipt of a transaction that was reverted goes unread.
MineUnread(p) ==
  /\ session[p].at = "sent"
  /\ LET step == StepNow(p)
     IN /\ chain' = IF step.accepts THEN step.after ELSE chain
        /\ session' = AsMined(p, [session[p] EXCEPT !.at = "mined"])
  /\ UNCHANGED <<network, faults>>

\* txWait: the receipt, or the error of a transaction that was reverted.
Mine(p) ==
  /\ session[p].at = "sent"
  /\ LET step == StepNow(p)
     IN IF step.accepts
        THEN /\ chain' = step.after
             /\ session' = AsMined(p, [session[p] EXCEPT !.at = "mined"])
        ELSE /\ chain' = chain
             /\ session' = [session EXCEPT ![p] = Ended(p, "failed")]
  /\ UNCHANGED <<network, faults>>

\* What the command reads once its transaction is mined.
Report(p) ==
  /\ session[p].at = "mined"
  /\ session' = [session EXCEPT ![p] = IF StepNow(p).shows THEN Advanced(p) ELSE Ended(p, "failed")]
  /\ UNCHANGED <<network, chain, faults>>

\* The node refuses a transaction that was sent, for one because another session
\* of the same wallet has used its nonce.
Refuse(p) ==
  /\ session[p].at = "sent"
  /\ faults < MaxFaults
  /\ faults' = faults + 1
  /\ session' = [session EXCEPT ![p] = [Ended(p, "failed") EXCEPT !.raced = TRUE]]
  /\ UNCHANGED <<network, chain>>

\* A session is killed; what it sent last is mined all the same, or is lost.
Kill(p) ==
  /\ Busy(p)
  /\ faults < MaxFaults
  /\ faults' = faults + 1
  /\ \/ /\ session' = [session EXCEPT ![p] = [Ended(p, "killed") EXCEPT !.raced = TRUE]]
        /\ chain' = chain
     \/ /\ session[p].at = "sent" /\ StepNow(p).accepts
        /\ chain' = StepNow(p).after
        /\ session' = AsMined(p, [Ended(p, "killed") EXCEPT !.raced = TRUE])
  /\ UNCHANGED network

Proceed(p) == Record(p) \/ Begin(p) \/ Mine(p) \/ Report(p)

Next ==
  \E p \in Sessions :
    \/ Proceed(p)
    \/ Refuse(p)
    \/ Kill(p)
    \/ \E task \in TaskNames : Start(p, task)

\* Nothing makes a user start a task.
Spec == Init /\ [][Next]_vars

-----------------------------------------------------------------------------
(***************************************************************************)
(* What the command line promises.                                         *)
(***************************************************************************)

\* Sessions are where the handlers leave them, nobody has more frozen than held,
\* and no compliance lists a module twice, however sessions interleave.
CommandTypeOK ==
  /\ \A p \in Sessions :
       /\ session[p].at \in {"idle", "begin", "sent", "mined"}
       /\ Busy(p) <=> session[p].script # <<>>
       /\ session[p].outcome \in {"none", "ok", "failed", "killed"}
  /\ \A t \in Tokens :
       LET s == chain.suite[t]
       IN /\ \A h \in Holders : s.balance[h] \in Nat /\ s.frozen[h] \in 0..s.balance[h]
          /\ \A i, j \in DOMAIN s.modules : s.modules[i] = s.modules[j] => i = j
          /\ chain.dva.surplus[t] \in Nat /\ chain.dva.burned[t] \in Nat
  /\ faults \in 0..MaxFaults

\* What the history lists can be used, whatever session was killed or refused
\* in the middle: a factory is linked to its identity factory and has its version,
\* a token has all its contracts, bound together, with their owner, and a transfer
\* manager is registered.
ListedUsable ==
  \A entry \in chain.history :
    LET x == entry[2]
    IN CASE entry[1] = "IdFactory" ->
              \A y \in {"Identity", "ImplementationAuthority", "IdFactory"} : chain.infra[y] # Nobody
         [] entry[1] = "TREXFactory" ->
              /\ chain.linked /\ chain.version
              /\ \A y \in Infra : chain.infra[y] = chain.infra["TREXFactory"]
         [] entry[1] = "Token" ->
              LET s == chain.suite[x]
              IN /\ s.bound /\ s.onchainID /\ x \in s.irAgents
                 /\ \E owner \in Wallets : \A y \in HandedOver : s.owner[y] = owner
         [] entry[1] = "ClaimIssuer" -> x \in chain.issuers
         [] entry[1] = "Identity" -> chain.identity[x].deployed
         [] entry[1] = Manager ->
              chain.dva.deployed /\ \E t \in Tokens : chain.suite[t].entry[Manager] # NoEntry

\* Every token asks for the same salt.  Of two sessions that both saw it free, one
\* gets its token, and the factory names that one.
OneTokenPerSalt ==
  \A t \in Tokens :
    chain.suite[t].onchainID =>
      /\ network = "fhevm" => chain.factoryToken = t
      /\ \A u \in Tokens : chain.suite[u].onchainID => u = t

-----------------------------------------------------------------------------
\* What the README says a setup leaves.
Delivered(c, p) ==
  LET s == c.suite[p]
      listed == {<<"IdFactory", "IdFactory">>, <<"TREXFactory", "TREXFactory">>}
                  \cup {<<"ClaimIssuer", i>> : i \in Issuers}
                  \cup {<<"Identity", <<u, p>>>> : u \in Users}
                  \cup (IF network = "fhevm" THEN {<<"Token", p>>} ELSE {})
  IN /\ \A x \in HandedOver : s.owner[x] = Bank
     /\ s.agents = {Agent} /\ s.irAgents = {Bank, p}
     /\ \A u \in Users :
          /\ s.entry[u] = [identity |-> <<u, p>>, country |-> 1]
          /\ Issuers \subseteq c.identity[<<u, p>>].claims
          /\ s.balance[u] = 1
     /\ \A name \in ModuleNames : HasModule(c, p, name) /\ Len(s.modules) = 4
     /\ c.module[<<"SupplyLimit", p>>].limit = Limit
     /\ Users \subseteq c.module[<<"TransferRestrict", p>>].allowed
     /\ s.bound /\ s.onchainID /\ ~s.paused
     /\ listed \subseteq c.history

\* A setup that no other session's transaction and no fault came into ends well,
\* and leaves the suite the README describes: forty steps, some of which depend on
\* others many steps before them.
SetupDelivers ==
  [][ \A p \in Sessions :
        session[p].task = "setup" /\ Busy(p) /\ session'[p].at = "idle" /\ ~session'[p].raced
        => session'[p].outcome = "ok" /\ Delivered(chain', p) ]_vars

\* What a step is for, seen on the node when it is over.
Achieved(c, o, read) ==
  CASE o.do = "transferOwnership" -> Owner(c, o.token, o.part) = o.owner
    [] o.do = "addAgent" -> o.agent \in AgentsOf(c, o)
    [] o.do = "removeAgent" -> o.agent \notin AgentsOf(c, o)
    [] o.do = "registerIdentity" -> c.suite[o.token].entry[o.user] = o.entry
    [] o.do = "addClaim" -> o.issuer \in c.identity[o.identity].claims
    [] o.do = "removeClaim" -> o.issuer \notin c.identity[o.identity].claims
    [] o.do = "addKey" -> IsManager(c, o.identity, o.key)
    [] o.do = "removeKey" -> ~IsManager(c, o.identity, o.key)
    [] o.do = "addModule" -> HasModule(c, o.token, o.module[1])
    [] o.do \in {"unpause", "unpauseUnchecked"} -> ~c.suite[o.token].paused
    [] o.do = "pause" -> c.suite[o.token].paused
    [] o.do = "setSupplyLimit" -> c.module[ModuleOf(c, o.token, "SupplyLimit")].limit = o.limit
    [] o.do = "addExchangeID" ->
         c.suite[o.token].entry[o.user].identity \in c.module[ModuleOf(c, o.token, o.name)].exchanges
    [] o.do = "removeExchangeID" ->
         c.suite[o.token].entry[o.user].identity \notin c.module[ModuleOf(c, o.token, o.name)].exchanges
    [] o.do = "setApprovalCriteria" -> c.dva.criteria = o.criteria
    [] o.do = "initiate" ->
         /\ read \in DOMAIN c.dva.transfers
         /\ c.dva.transfers[read].from = o.by /\ c.dva.transfers[read].to = o.to
    [] OTHER -> TRUE

\* A step that is passed has done what it is for, if nothing was mined between
\* what it read and what it reports: it was sent and not reverted, or there was
\* nothing to do.  The transfer a user is told of is the one that was initiated.
StepsAchieve ==
  [][ \A p \in Sessions :
        /\ Busy(p) /\ ~session[p].stale
        /\ session'[p].script = Tail(session[p].script)
        /\ Len(session[p].script) = 1 => session'[p].outcome = "ok"
        => Achieved(chain', Now(p), session[p].read) ]_vars

\* What the transfers that wait for approvals have paid in.
Owed(c, t) ==
  SumOf([id \in DOMAIN c.dva.transfers |->
           LET x == c.dva.transfers[id]
           IN IF x.status = "PENDING" /\ x.token = t THEN x.amount ELSE 0])

\* The manager holds what waits for approvals, whoever approves in whatever order
\* under whatever criteria, to the unit: what it has beyond that was minted or sent
\* to its address or is a payment that moved nothing, and what it lacks an agent
\* has burned.  Every step counts what it leaves, so a transfer that is paid twice,
\* ends unpaid or is owed what never arrived shows.
EscrowHeld ==
  \A t \in Tokens :
    chain.suite[t].balance[Manager] + chain.dva.burned[t]
      = Owed(chain, t) + chain.dva.surplus[t]
=============================================================================
