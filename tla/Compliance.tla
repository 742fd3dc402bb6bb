----------------------------- MODULE Compliance -----------------------------
(***************************************************************************)
(* Who is bound to whom: tokens, their compliance contracts and the        *)
(* modules these consult.  Each link is kept at both ends - Token's        *)
(* _tokenCompliance and ModularCompliance's _tokenBound, the compliance's  *)
(* module list and flags and the module's complianceBound - by calls that  *)
(* different owners make.  A token whose links do not meet cannot move a   *)
(* unit: the hooks revert with the whole transaction.                      *)
(***************************************************************************)
EXTENDS Integers, Sequences, FiniteSets, Functions

CONSTANTS
  Tokens,
  Compliances,
  Modules,
  NoToken,        \* the zero address
  MaxModules      \* 25: modules a compliance may have

ASSUME ComplianceAssumption ==
  /\ IsFiniteSet(Tokens) /\ IsFiniteSet(Compliances) /\ IsFiniteSet(Modules)
  /\ NoToken \notin Tokens
  /\ MaxModules \in Nat

VARIABLES
  complianceOf,      \* Token._tokenCompliance
  tokenBound,        \* ModularCompliance._tokenBound
  modules,           \* ModularCompliance._modules
  moduleBound,       \* ModularCompliance._moduleBound
  complianceBound    \* AbstractModule.complianceBound

bindingVars == <<complianceOf, tokenBound>>
moduleVars == <<modules, moduleBound, complianceBound>>
vars == <<bindingVars, moduleVars>>

TypeOK ==
  /\ complianceOf \in [Tokens -> Compliances]
  /\ tokenBound \in [Compliances -> Tokens \cup {NoToken}]
  /\ modules \in [Compliances -> Seq(Modules)]
  /\ moduleBound \in [Compliances -> SUBSET Modules]
  /\ complianceBound \in [Modules -> SUBSET Compliances]

\* Token.init binds each token to a compliance of its own.
Init ==
  /\ complianceOf \in [Tokens -> Compliances]
  /\ \A s, t \in Tokens : complianceOf[s] = complianceOf[t] => s = t
  /\ tokenBound = [c \in Compliances |->
       IF \E t \in Tokens : complianceOf[t] = c
       THEN CHOOSE t \in Tokens : complianceOf[t] = c
       ELSE NoToken]
  /\ modules = [c \in Compliances |-> <<>>]
  /\ moduleBound = [c \in Compliances |-> {}]
  /\ complianceBound = [m \in Modules |-> {}]

(***************************************************************************)
(* Tokens and compliances.                                                 *)
(***************************************************************************)

\* The owner of the compliance may bind any token, whatever is bound already.
BindToken(c, t) ==
  /\ tokenBound' = [tokenBound EXCEPT ![c] = t]
  /\ UNCHANGED <<complianceOf, moduleVars>>

UnbindToken(c) ==
  /\ tokenBound[c] # NoToken
  /\ tokenBound' = [tokenBound EXCEPT ![c] = NoToken]
  /\ UNCHANGED <<complianceOf, moduleVars>>

\* Mutant of SetCompliance: a compliance that serves another token is taken.
SetComplianceOfAnother(t, c) ==
  LET old == complianceOf[t]
  IN /\ tokenBound[old] = t
     /\ tokenBound' = [tokenBound EXCEPT ![old] = NoToken, ![c] = t]
     /\ complianceOf' = [complianceOf EXCEPT ![t] = c]
     /\ UNCHANGED moduleVars

\* The token unbinds itself from the old compliance, which reverts when that
\* one no longer has it bound, and binds itself to the new one, which accepts
\* it only when it has no token.
SetCompliance(t, c) ==
  LET old == complianceOf[t]
      unbound == [tokenBound EXCEPT ![old] = NoToken]
  IN /\ tokenBound[old] = t
     /\ unbound[c] = NoToken
     /\ tokenBound' = [unbound EXCEPT ![c] = t]
     /\ complianceOf' = [complianceOf EXCEPT ![t] = c]
     /\ UNCHANGED moduleVars

(***************************************************************************)
(* Compliances and modules.                                                *)
(***************************************************************************)
AddModule(c, m) ==
  /\ m \notin moduleBound[c]
  /\ Len(modules[c]) < MaxModules
  /\ c \notin complianceBound[m]
  /\ complianceBound' = [complianceBound EXCEPT ![m] = @ \cup {c}]
  /\ modules' = [modules EXCEPT ![c] = Append(@, m)]
  /\ moduleBound' = [moduleBound EXCEPT ![c] = @ \cup {m}]
  /\ UNCHANGED bindingVars

\* Mutant of WithoutModule: deleting the entry leaves the zero address there.
WithoutModuleLeavingGap(list, p) == [list EXCEPT ![p] = NoToken]

\* The last module takes the place of the removed one.
WithoutModule(list, p) ==
  [q \in 1 .. Len(list) - 1 |-> IF q = p THEN list[Len(list)] ELSE list[q]]

\* Mutant of RemoveModule: the last module is dropped without the swap.
RemoveLastModule(c, m) ==
  /\ m \in moduleBound[c]
  /\ c \in complianceBound[m]
  /\ complianceBound' = [complianceBound EXCEPT ![m] = @ \ {c}]
  /\ modules' = [modules EXCEPT ![c] = SubSeq(@, 1, Len(@) - 1)]
  /\ moduleBound' = [moduleBound EXCEPT ![c] = @ \ {m}]
  /\ UNCHANGED bindingVars

\* unbindCompliance answers only a compliance the module is bound to.
RemoveModule(c, m) ==
  /\ m \in moduleBound[c]
  /\ c \in complianceBound[m]
  /\ complianceBound' = [complianceBound EXCEPT ![m] = @ \ {c}]
  /\ \E p \in 1 .. Len(modules[c]) :
       /\ modules[c][p] = m
       /\ \A q \in 1 .. p - 1 : modules[c][q] # m
       /\ modules' = [modules EXCEPT ![c] = WithoutModule(@, p)]
  /\ moduleBound' = [moduleBound EXCEPT ![c] = @ \ {m}]
  /\ UNCHANGED bindingVars

\* callModuleFunction lets the owner call, as the compliance, any function of a
\* bound module: also the two that keep the module's end of the link.
CallUnbindCompliance(c, m) ==
  /\ m \in moduleBound[c]
  /\ c \in complianceBound[m]
  /\ complianceBound' = [complianceBound EXCEPT ![m] = @ \ {c}]
  /\ UNCHANGED <<bindingVars, modules, moduleBound>>

CallBindCompliance(c, m) ==
  /\ m \in moduleBound[c]
  /\ c \notin complianceBound[m]
  /\ complianceBound' = [complianceBound EXCEPT ![m] = @ \cup {c}]
  /\ UNCHANGED <<bindingVars, modules, moduleBound>>

Next ==
  \/ \E t \in Tokens, c \in Compliances : BindToken(c, t) \/ SetCompliance(t, c)
  \/ \E c \in Compliances : UnbindToken(c)
  \/ \E c \in Compliances, m \in Modules :
       \/ AddModule(c, m) \/ RemoveModule(c, m)
       \/ CallUnbindCompliance(c, m) \/ CallBindCompliance(c, m)

Spec == Init /\ [][Next]_vars

-----------------------------------------------------------------------------
(***************************************************************************)
(* Properties.                                                             *)
(***************************************************************************)

\* The two records a compliance keeps of its modules agree, through the swap of
\* a removal: the list holds each bound module once and no other, within its
\* bound, and a module only answers compliances that have it bound.
ModulesConsistent ==
  \A c \in Compliances :
    /\ Range(modules[c]) = moduleBound[c]
    /\ IsInjective(modules[c])
    /\ Len(modules[c]) <= MaxModules
    /\ \A m \in Modules : c \in complianceBound[m] => m \in moduleBound[c]

\* The hooks of the token's compliance let its moves through: the compliance has
\* the token bound (onlyToken), and every module answers the compliance
\* (onlyComplianceCall).
Operational(t) ==
  LET c == complianceOf[t]
  IN /\ tokenBound[c] = t
     /\ \A m \in Range(modules[c]) : c \in complianceBound[m]

\* A working token stops only by a call to its own compliance that says so
\* (bind another token, unbind, unbind a module's end) or by moving itself to a
\* compliance whose modules do not answer.  Adding and removing modules, and
\* whatever other tokens and compliances do, never stops it.
OnlyOwnCallsStop ==
  [][ \A t \in Tokens : Operational(t) /\ ~Operational(t)' =>
        LET c == complianceOf[t]
        IN \/ UnbindToken(c)
           \/ \E s \in Tokens \ {t} : BindToken(c, s)
           \/ \E m \in Modules : CallUnbindCompliance(c, m)
           \/ \E d \in Compliances : SetCompliance(t, d) /\ tokenBound'[d] = t ]_vars
=============================================================================
