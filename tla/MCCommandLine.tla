--------------------------- MODULE MCCommandLine ---------------------------
(***************************************************************************)
(* CommandLine on small instances: a setup with another session about, and *)
(* sessions on a suite that has been set up.                               *)
(***************************************************************************)
EXTENDS CommandLine, TLC

CONSTANTS p1, p2, alice, bob
CONSTANTS SetupTasks, SuiteTasks, ManagerTasks   \* bounds: tasks started

VARIABLES scenario, started
mcVars == <<vars, scenario, started>>

Limits ==
  [setup |-> SetupTasks, manual |-> SetupTasks, suite |-> SuiteTasks, manager |-> ManagerTasks]

ManagerScript ==
  TransferManagerCreate(p1, alice, 1, Bank)
    \o <<[do |-> "setApprovalCriteria", token |-> p1, by |-> Agent,
          criteria |-> {"recipient", "agent"}],
         [do |-> "approve", token |-> p1, by |-> alice]>>

MCInit ==
  /\ Init
  /\ started = 0
  /\ scenario \in DOMAIN Limits
  /\ network = "hardhat" <=> scenario = "manual"

\* Each command is signed by the wallet it is for, or by bob; it is about the
\* token of the setup, and about alice or her identity.  Where there is a transfer
\* manager, units are minted, burned, frozen and sent at its address, by those who
\* may, and bob's identity may become an exchange.
Right(o) ==
  CASE o.do \in {"mint", "burn", "freeze", "unfreeze", "pause", "unpause",
                 "setApprovalCriteria", "rejectTransfer"} -> Agent
    [] o.do \in {"addAgent", "removeAgent", "setSupplyLimit", "addExchangeID",
                 "removeExchangeID", "setExchangeLimit", "registerIdentity",
                 "deployManager"} -> Bank
    [] o.do \in {"deploy", "deployTREXSuite"} -> Admin
    [] OTHER -> alice

Has(o, field) == field \in DOMAIN o
Named(o) ==
  IF scenario # "manager" \/ o.do = "deployManager" THEN alice
  ELSE IF o.do = "addExchangeID" THEN bob ELSE Manager
Wanted(p, o) ==
  /\ Has(o, "by") => o.by \in {Right(o), bob}
  /\ Has(o, "token") => o.token = p1 \/ o.do = "deployTREXSuite"
  /\ Has(o, "owner") => o.owner = Bank
  /\ Has(o, "user") => o.user = Named(o)
  /\ Has(o, "to") =>
       o.to \in {bob, "ir", "token"} \cup (IF scenario = "manager" THEN {Manager} ELSE {})
  /\ scenario = "manager" =>
       /\ o.do \in {"mint", "burn", "freeze", "transfer", "addExchangeID"} => o.by = Right(o)
       /\ o.do \notin {"unfreeze", "setSupplyLimit", "approve", "increaseAllowance",
                       "decreaseAllowance", "removeExchangeID", "setExchangeLimit"}
       /\ Has(o, "name") => o.name = "ExchangeMonthly"
  /\ Has(o, "agent") => o.agent \in {Agent, bob}
  /\ Has(o, "key") => o.key = bob
  /\ Has(o, "identity") => o.identity \in {<<alice, p1>>, <<alice, p>>}
  /\ Has(o, "signers") =>
       o.by = alice /\ o.signers \in {<<Agent>>, <<bob>>, <<bob, Agent>>, <<Nobody, bob>>}
  /\ o.do = "initiate" => o.by = alice
  /\ o.do = "registerIdentity" => o.entry.identity = <<alice, p2>>

TasksOf ==
  [setup |-> {"new-token", "new-issuer", "new-identity", "add-agent", "supply", "pause"},
   manual |-> {"supply", "pause", "modules"},
   suite |-> TaskNames \ {"setup", "new-factory", "end-transfer"},
   manager |-> {"manager", "end-transfer", "pause", "supply", "transfers", "modules"}]

\* In the last two scenarios the suite is set up first, and nothing comes into that;
\* the last has no faults at all.
Prepared ==
  /\ \A p \in Sessions : session[p].outcome # "none" \/ p # p1
  /\ scenario = "manager" => chain.dva.criteria # {} /\ chain.suite[p1].allowance[alice] > 0
Faulty == scenario \in {"setup", "manual"} \/ (scenario = "suite" /\ started > 0)

MCStart(p, task) ==
  \/ /\ task \in {"setup", "new-factory"} /\ p = p1
     /\ task = "new-factory" => scenario = "setup"
     /\ UNCHANGED started
     /\ Start(p, task)
  \/ /\ task \in TasksOf[scenario]
     /\ started < Limits[scenario] /\ started' = started + 1
     /\ IF scenario = "setup" THEN p = p2 ELSE Prepared
     /\ Start(p, task)
     /\ Wanted(p, session'[p].script[1])

\* A user's own script of commands: a manager, its criteria, and an allowance.
Prepare ==
  /\ scenario = "manager" /\ started = 0 /\ ~chain.dva.deployed
  /\ session[p1].outcome = "ok" /\ ~Busy(p1)
  /\ session' = [session EXCEPT ![p1] =
       [Idle EXCEPT !.task = "manager", !.script = ManagerScript, !.at = "begin"]]
  /\ UNCHANGED <<network, chain, faults>>

MCNext ==
  /\ UNCHANGED scenario
  /\ \/ UNCHANGED started /\ Prepare
     \/ \E p \in Sessions :
          \/ UNCHANGED started /\ Proceed(p)
          \/ UNCHANGED started /\ Faulty /\ (Refuse(p) \/ Kill(p))
          \/ \E task \in TaskNames : MCStart(p, task)

MCSpec == MCInit /\ [][MCNext]_mcVars
=============================================================================
