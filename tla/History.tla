------------------------------ MODULE History ------------------------------
(***************************************************************************)
(* The deployment history of the command line: a JSON file that lists what  *)
(* has been deployed, the copy of it every command keeps in memory, and the *)
(* resolution of a token, an identity or a claim issuer from that copy.     *)
(*                                                                         *)
(* A session is one run of the command line.  It reads the file once, when  *)
(* it starts; each deployment it makes is added to its copy, and the whole  *)
(* copy then replaces the file.  While it resolves something it probes the  *)
(* entries, the newest first, and drops those it cannot read.               *)
(*                                                                         *)
(* Sessions interleave at every await.  A write truncates the file before   *)
(* it fills it.  Any session may be killed between two steps, the node may  *)
(* fail to answer a probe, and it may be restarted without its state.       *)
(***************************************************************************)
EXTENDS Naturals, Sequences, FiniteSets

CONSTANTS
  Sessions,      \* runs of the command line
  Addresses,     \* addresses contracts are deployed at
  ZeroAddress,   \* marks a dropped entry; also stands for "nothing found"
  Contents,      \* what can be deployed
  Tags,          \* names, symbols, salts and wallets the user can name
  NoTag,         \* a resolution without a filter
  NoCode,        \* an address without a contract
  Missing, Garbled,  \* in the place of a network: no file; one that is not JSON
  Chain,         \* id and name of the network the sessions run on
  FirstFiles,    \* what the file may hold at the start
  MaxFaults      \* bound: probes and writes that fail

\* What ChainConfig lists, in the order of its JSON form.
Kinds == {"IdFactory", "TREXFactory", "Identity", "ClaimIssuer",
          "DVATransferManager", "Token"}

\* A contract as resolution sees it.  tag: the name or symbol of a token, the
\* management key of an identity or issuer, the authority of a factory, the
\* wallet behind a manager.  listed: the token's registries know it.  salt and
\* by: the salt a token was deployed with and the factory that deployed it.
ContentType ==
  [kind: Kinds, tag: Tags, listed: BOOLEAN, salt: Tags \cup {NoTag},
   by: Addresses \cup {ZeroAddress}]

\* A set of lists over S, none of which names an address twice.
AreLists(l, S) ==
  /\ l \in [Kinds -> Seq(S)]
  /\ \A k \in Kinds : \A i, j \in DOMAIN l[k] :
       l[k][i] = l[k][j] => i = j \/ l[k][i] = ZeroAddress

EmptyLists == [k \in Kinds |-> <<>>]
NoFile == [chain |-> Missing, lists |-> EmptyLists]
Torn == [chain |-> Garbled, lists |-> EmptyLists]

ASSUME ContentsAssumption == Contents \subseteq ContentType /\ NoCode \notin Contents
ASSUME ZeroAssumption == ZeroAddress \notin Addresses
ASSUME ChainAssumption == Chain \notin {Missing, Garbled}
ASSUME FaultsAssumption == MaxFaults \in Nat
\* At the start there is no file, or one that the command line wrote.
ASSUME FilesAssumption == \A f \in FirstFiles : AreLists(f.lists, Addresses)

VARIABLES
  code,       \* the contract at each address, or NoCode
  born,       \* addresses in the order their contracts were deployed
  file,       \* the history file
  lists,      \* each session's copy, a sequence of addresses per kind
  task,       \* each session's place in the operation it runs, and its result
  faults,     \* failures so far
  disturbed   \* something happened that the history does not survive

vars == <<code, born, file, lists, task, faults, disturbed>>

Entries(l) == UNION {{l[k][i] : i \in DOMAIN l[k]} : k \in Kinds}
Readable(f) == f \notin {NoFile, Torn}
Recorded == IF Readable(file) /\ file.chain = Chain THEN Entries(file.lists) ELSE {}

Off == [at |-> "off", kind |-> "Token", tag |-> NoTag, within |-> FALSE,
        i |-> 0, found |-> ZeroAddress, dirty |-> FALSE]
Ready == [Off EXCEPT !.at = "ready"]
Active(p) == task[p].at # "off"

\* Whether the contract at an address answers as one of this kind.
IsA(a, kind) ==
  /\ a \in Addresses
  /\ code[a] # NoCode
  /\ \/ code[a].kind = kind
     \/ kind = "Identity" /\ code[a].kind = "ClaimIssuer"

Init ==
  /\ code = [a \in Addresses |-> NoCode]
  /\ born = <<>>
  /\ file \in FirstFiles
  /\ lists = [p \in Sessions |-> EmptyLists]
  /\ task = [p \in Sessions |-> Off]
  /\ faults = 0
  /\ disturbed = FALSE

-----------------------------------------------------------------------------
(***************************************************************************)
(* Reading and writing the file.                                           *)
(***************************************************************************)

\* As Load, but the identities of the file are forgotten.
LoadWithoutIdentities(p) ==
  /\ ~Active(p)
  /\ task' = [task EXCEPT ![p] = Ready]
  /\ lists' = [lists EXCEPT ![p] =
       IF Readable(file) /\ file.chain = Chain
       THEN [file.lists EXCEPT !["Identity"] = <<>>] ELSE EmptyLists]
  /\ disturbed' = (disturbed \/ \E q \in Sessions : Active(q))
  /\ UNCHANGED <<code, born, file, faults>>

\* A file of another network, or one that does not parse, counts as empty.
Load(p) ==
  /\ ~Active(p)
  /\ task' = [task EXCEPT ![p] = Ready]
  /\ lists' = [lists EXCEPT ![p] =
       IF Readable(file) /\ file.chain = Chain THEN file.lists ELSE EmptyLists]
  /\ disturbed' = (disturbed \/ \E q \in Sessions : Active(q))
  /\ UNCHANGED <<code, born, file, faults>>

\* save, first half: the copy is serialised and the file opened, which
\* truncates it.  copy is p's new set of lists.
OpenForWrite(p, copy, t) ==
  /\ lists' = [lists EXCEPT ![p] = copy]
  /\ task' = [task EXCEPT ![p] = [t EXCEPT !.at = "write", !.dirty = FALSE]]
  /\ file' = Torn

\* save, second half.  What is written over the text of a session that
\* finished in the meantime parses only if it is no shorter.
FinishWrite(p) ==
  /\ task[p].at = "write"
  /\ file' \in {[chain |-> Chain, lists |-> lists[p]]}
                 \cup (IF task[p].dirty THEN {Torn} ELSE {})
  /\ task' = [q \in Sessions |->
       IF q = p
       THEN IF task[p].i = 0 THEN Ready ELSE [task[p] EXCEPT !.at = "answer", !.dirty = FALSE]
       ELSE [task[q] EXCEPT !.dirty = task[q].at = "write"]]
  /\ UNCHANGED <<code, born, lists, faults, disturbed>>

\* A write that fails is logged, and the command goes on as if it had not.
FailWrite(p) ==
  /\ task[p].at = "write"
  /\ faults < MaxFaults
  /\ faults' = faults + 1
  /\ disturbed' = TRUE
  /\ task' = [task EXCEPT ![p] =
       IF task[p].i = 0 THEN Ready ELSE [task[p] EXCEPT !.at = "answer", !.dirty = FALSE]]
  /\ UNCHANGED <<code, born, file, lists>>

-----------------------------------------------------------------------------
(***************************************************************************)
(* Deployments.                                                            *)
(***************************************************************************)

\* The session has the receipt of a deployment, and has not saved it yet.  A
\* factory deploys one token per salt.
Deploy(p, a, c) ==
  /\ task[p].at = "ready"
  /\ code[a] = NoCode
  /\ c.kind = "Token" =>
       /\ IsA(c.by, "TREXFactory")
       /\ ~\E b \in Addresses : code[b] # NoCode /\ code[b].by = c.by /\ code[b].salt = c.salt
  /\ code' = [code EXCEPT ![a] = c]
  /\ born' = Append(born, a)
  /\ task' = [task EXCEPT ![p] = [Ready EXCEPT !.at = "save", !.kind = c.kind, !.found = a]]
  \* the address was in use before the node lost its state
  /\ disturbed' = (disturbed \/ a \in Recorded)
  /\ UNCHANGED <<file, lists, faults>>

\* As Save, but the file is left as it was.
SaveInMemory(p) ==
  LET kind == task[p].kind
  IN /\ task[p].at = "save"
     /\ lists' = [lists EXCEPT ![p][kind] = Append(@, task[p].found)]
     /\ task' = [task EXCEPT ![p] = Ready]
     /\ UNCHANGED <<code, born, file, faults, disturbed>>

\* saveContract: nothing is written for an address the copy already lists.
Save(p) ==
  LET kind == task[p].kind
      known == \E i \in DOMAIN lists[p][kind] : lists[p][kind][i] = task[p].found
  IN /\ task[p].at = "save"
     /\ \/ /\ known
           /\ task' = [task EXCEPT ![p] = Ready]
           /\ UNCHANGED <<file, lists>>
        \/ /\ ~known
           /\ OpenForWrite(p, [lists[p] EXCEPT ![kind] = Append(@, task[p].found)], task[p])
     /\ UNCHANGED <<code, born, faults, disturbed>>

-----------------------------------------------------------------------------
(***************************************************************************)
(* Resolution.                                                             *)
(***************************************************************************)

Matches(a, kind, tag, within) ==
  /\ tag \in {NoTag, code[a].tag}
  /\ kind \in {"Identity", "ClaimIssuer"} /\ within => code[a].listed

\* The claim issuers a token trusts that a wallet manages, as the token says.
TrustedIssuersOf(tag) ==
  {a \in Addresses : IsA(a, "ClaimIssuer") /\ code[a].tag = tag /\ code[a].listed}

Reply(p, a) == task' = [task EXCEPT ![p] = [Ready EXCEPT !.found = a]]

\* A token is resolved by name, symbol or nothing, an identity or an issuer by
\* the wallet that manages it, possibly within a token.  An empty list is an
\* error at once; a token asks its registry for its issuers first.
StartResolve(p, kind, tag, within) ==
  LET trusted == TrustedIssuersOf(tag)
  IN /\ task[p].at = "ready"
     /\ kind # "Token" => tag # NoTag
     /\ kind = "Token" => ~within
     /\ \/ /\ kind = "ClaimIssuer" /\ within /\ trusted # {}
           /\ Reply(p, IF Cardinality(trusted) = 1
                       THEN CHOOSE a \in trusted : TRUE ELSE ZeroAddress)
        \/ /\ ~(kind = "ClaimIssuer" /\ within /\ trusted # {})
           /\ task' = [task EXCEPT ![p] =
                [Ready EXCEPT !.at = "scan", !.kind = kind, !.tag = tag,
                              !.within = within, !.i = Len(lists[p][kind])]]
     /\ UNCHANGED <<code, born, file, lists, faults, disturbed>>

Scanning(p) == task[p].at = "scan" /\ task[p].found = ZeroAddress /\ task[p].i > 0

\* As Visit, but the oldest entry comes first.
VisitOldestFirst(p) ==
  LET t == task[p]
      i == Len(lists[p][t.kind]) + 1 - t.i
      a == lists[p][t.kind][i]
  IN /\ Scanning(p)
     /\ IF IsA(a, t.kind)
        THEN /\ task' = [task EXCEPT ![p] =
                  IF Matches(a, t.kind, t.tag, t.within)
                  THEN [t EXCEPT !.found = a] ELSE [t EXCEPT !.i = @ - 1]]
             /\ UNCHANGED lists
        ELSE /\ lists' = [lists EXCEPT ![p][t.kind][i] = ZeroAddress]
             /\ task' = [task EXCEPT ![p].i = t.i - 1]
     /\ UNCHANGED <<code, born, file, faults, disturbed>>

\* One entry is probed: dropped if it does not answer, taken if it matches,
\* passed over otherwise.
Visit(p) ==
  LET t == task[p]
      a == lists[p][t.kind][t.i]
  IN /\ Scanning(p)
     /\ IF IsA(a, t.kind)
        THEN /\ task' = [task EXCEPT ![p] =
                  IF Matches(a, t.kind, t.tag, t.within)
                  THEN [t EXCEPT !.found = a] ELSE [t EXCEPT !.i = @ - 1]]
             /\ UNCHANGED lists
        ELSE /\ lists' = [lists EXCEPT ![p][t.kind][t.i] = ZeroAddress]
             /\ task' = [task EXCEPT ![p].i = t.i - 1]
     /\ UNCHANGED <<code, born, file, faults, disturbed>>

\* The probe fails for a reason of its own: the entry is dropped all the same.
MisreadEntry(p) ==
  /\ Scanning(p)
  /\ faults < MaxFaults
  /\ faults' = faults + 1
  /\ disturbed' = TRUE
  /\ lists' = [lists EXCEPT ![p][task[p].kind][task[p].i] = ZeroAddress]
  /\ task' = [task EXCEPT ![p].i = task[p].i - 1]
  /\ UNCHANGED <<code, born, file>>

\* The entries of a list that have not been dropped, in their order.
Keep(kept, entry) == IF entry = ZeroAddress THEN kept ELSE Append(kept, entry)
WithoutDropped(list) ==
  LET kept[n \in 0 .. Len(list)] ==
        IF n = 0 THEN <<>> ELSE Keep(kept[n - 1], list[n])
  IN kept[Len(list)]

\* As Cleaned, but the dropped entries stay.
Uncleaned(l, kind) == l
Cleaned(l, kind) == [l EXCEPT ![kind] = WithoutDropped(l[kind])]

\* The scan is over: dropped entries are removed and the rest saved.
EndScan(p) ==
  LET t == task[p]
      dropped == \E i \in DOMAIN lists[p][t.kind] : lists[p][t.kind][i] = ZeroAddress
      next == [t EXCEPT !.i = 1]
  IN /\ t.at = "scan" /\ ~Scanning(p)
     /\ \/ /\ dropped
           /\ OpenForWrite(p, Cleaned(lists[p], t.kind), next)
        \/ /\ ~dropped
           /\ task' = [task EXCEPT ![p] = [next EXCEPT !.at = "answer"]]
           /\ UNCHANGED <<file, lists>>
     /\ UNCHANGED <<code, born, faults, disturbed>>

\* The last entry of the history is taken for the factory; a token no name or
\* symbol matched is looked up there by its salt.
LastFactory(p) ==
  LET l == lists[p]["TREXFactory"] IN IF l = <<>> THEN ZeroAddress ELSE l[Len(l)]

TokenFromSalt(p, salt) ==
  IF IsA(LastFactory(p), "TREXFactory")
  THEN {a \in Addresses : IsA(a, "Token") /\ code[a].by = LastFactory(p) /\ code[a].salt = salt}
  ELSE {}

\* What was found must still be there when the caller connects to it.
Answer(p) ==
  LET t == task[p]
      salted == IF t.kind = "Token" THEN TokenFromSalt(p, t.tag) ELSE {}
  IN /\ t.at = "answer"
     /\ Reply(p, IF IsA(t.found, t.kind) THEN t.found
                 ELSE IF t.tag # NoTag /\ salted # {} THEN CHOOSE a \in salted : TRUE
                 ELSE ZeroAddress)
     /\ UNCHANGED <<code, born, file, lists, faults, disturbed>>

\* A transfer manager: by its own address if the history has it, or the newest
\* one registered with the same identity as the user.
FindManager(p, name) ==
  LET l == lists[p]["DVATransferManager"]
      known(a) == IsA(a, "DVATransferManager") /\ code[a].listed /\ code[a].tag = name
      mine == {i \in DOMAIN l : known(l[i])}
      registered == \E a \in Addresses :
        IsA(a, "Identity") /\ code[a].tag = name /\ code[a].listed
  IN /\ task[p].at = "ready"
     /\ Reply(p, IF \E i \in DOMAIN l : l[i] = name THEN name
                 ELSE IF registered /\ mine # {}
                 THEN l[CHOOSE i \in mine : \A j \in mine : j <= i] ELSE ZeroAddress)
     /\ UNCHANGED <<code, born, file, lists, faults, disturbed>>

\* The factory of a token is the only one that shares its implementation
\* authority; every factory of the history must answer.
ResolveTokenFactory(p, token) ==
  LET l == lists[p]["TREXFactory"]
      same == {l[i] : i \in {j \in DOMAIN l : code[l[j]].tag = code[code[token].by].tag}}
  IN /\ task[p].at = "ready"
     /\ IsA(token, "Token") /\ IsA(code[token].by, "TREXFactory")
     /\ Reply(p, IF (\A i \in DOMAIN l : IsA(l[i], "TREXFactory")) /\ Cardinality(same) = 1
                 THEN CHOOSE a \in same : TRUE ELSE ZeroAddress)
     /\ UNCHANGED <<code, born, file, lists, faults, disturbed>>

-----------------------------------------------------------------------------
(***************************************************************************)
(* Ends of sessions, and what the user does from outside.                  *)
(***************************************************************************)

Stop(p) ==
  /\ task' = [task EXCEPT ![p] = Off]
  /\ lists' = [lists EXCEPT ![p] = EmptyLists]
  /\ UNCHANGED <<code, born, file, faults>>

Exit(p) == task[p].at = "ready" /\ Stop(p) /\ UNCHANGED disturbed

\* Killed, or ended by an error between two steps.
Crash(p) == task[p].at \notin {"off", "ready"} /\ Stop(p) /\ disturbed' = TRUE

\* The history file is removed, as setup on the in-process network and the
\* start, stop and restart scripts do before anything else.
ClearHistory ==
  /\ file # NoFile
  /\ file' = NoFile
  /\ disturbed' = (disturbed \/ born # <<>> \/ \E p \in Sessions : Active(p))
  /\ UNCHANGED <<code, born, lists, task, faults>>

\* The node comes back without its contracts; the history may still list them.
RestartNode ==
  /\ born # <<>>
  /\ code' = [a \in Addresses |-> NoCode]
  /\ born' = <<>>
  /\ disturbed' = (disturbed \/ \E p \in Sessions : Active(p))
  /\ UNCHANGED <<file, lists, task, faults>>

\* What a session does once the user has started an operation.
Proceed(p) == Save(p) \/ FinishWrite(p) \/ Visit(p) \/ EndScan(p) \/ Answer(p)

UserNext(p) ==
  \/ Load(p)
  \/ \E a \in Addresses, c \in Contents : Deploy(p, a, c)
  \/ \E kind \in {"Token", "Identity", "ClaimIssuer"}, tag \in Tags \cup {NoTag},
        within \in BOOLEAN : StartResolve(p, kind, tag, within)
  \/ \E name \in Tags \cup Addresses : FindManager(p, name)
  \/ \E token \in Addresses : ResolveTokenFactory(p, token)
  \/ Exit(p)

Next ==
  \/ \E p \in Sessions :
       Proceed(p) \/ UserNext(p) \/ FailWrite(p) \/ MisreadEntry(p) \/ Crash(p)
  \/ ClearHistory
  \/ RestartNode

\* A session that is not killed runs its continuations; the node answers or
\* refuses each call; nothing makes the user start another operation.
Spec == Init /\ [][Next]_vars /\ \A p \in Sessions : WF_vars(Proceed(p))

-----------------------------------------------------------------------------
(***************************************************************************)
(* What the history must be.                                               *)
(***************************************************************************)

\* The file is one of the three things load tells apart, a session's copy is
\* six lists, and neither names an address twice.  The zero address stands in
\* a list only while its session probes that list: it is never saved.
HistoryTypeOK ==
  /\ code \in [Addresses -> Contents \cup {NoCode}]
  /\ Readable(file) => AreLists(file.lists, Addresses)
  /\ \A p \in Sessions :
       /\ task[p].at \in {"off", "ready", "save", "write", "scan", "answer"}
       /\ AreLists(lists[p], IF task[p].at = "scan" THEN Addresses \cup {ZeroAddress}
                             ELSE Addresses)
  /\ faults \in 0..MaxFaults

\* Left alone (one session at a time, none killed halfway, no failed write or
\* probe, no address used again after a restart), the history names every
\* contract deployed with the command line, or the session that deployed it is
\* about to: nothing it deployed is ever out of its reach.
HistoryComplete ==
  ~disturbed =>
    \A i \in DOMAIN born :
      \/ born[i] \in Recorded
      \/ \E p \in Sessions :
           \/ task[p].at = "save" /\ task[p].found = born[i]
           \/ task[p].at = "write" /\ born[i] \in Entries(lists[p])

\* What a resolution should return, from the node alone: the contract of its
\* kind that was deployed last among those that match; a token that no name
\* matches, by its salt in the factory deployed last; an issuer the token
\* trusts only if it is the only one the wallet manages.
Latest(S) ==
  IF S = {} THEN ZeroAddress ELSE born[CHOOSE i \in S : \A j \in S : j <= i]
Deployed(kind) == {i \in DOMAIN born : code[born[i]].kind = kind}
Expected(kind, tag, within) ==
  LET matching == {i \in Deployed(kind) : Matches(born[i], kind, tag, within)}
      factory == Latest(Deployed("TREXFactory"))
      salted == {i \in Deployed("Token") : code[born[i]].by = factory /\ code[born[i]].salt = tag}
  IN IF kind = "Token" /\ matching = {} /\ tag # NoTag THEN Latest(salted)
     ELSE IF kind = "ClaimIssuer" /\ within /\ Cardinality(matching) > 1 THEN ZeroAddress
     ELSE Latest(matching)

\* Left alone, a resolution returns the latest valid deployment that matches,
\* whatever was deployed, dropped and resolved before, and fails only if there
\* is none.
LatestResolved ==
  [][ \A p \in Sessions :
        task[p].at = "answer" /\ task'[p].at = "ready" /\ ~disturbed =>
          task'[p].found = Expected(task[p].kind, task[p].tag, task[p].within) ]_vars

\* A deployment that a session is to save reaches the file, unless the session
\* is killed or something else disturbs the history.
SavedEventually ==
  \A p \in Sessions, a \in Addresses :
    task[p].at = "save" /\ task[p].found = a ~> a \in Recorded \/ disturbed
=============================================================================
