-------------------------- MODULE ComplianceProofs --------------------------
(***************************************************************************)
(* Proofs about Compliance, for any tokens, compliances and modules: the   *)
(* types, and the two records a compliance keeps of its modules.           *)
(***************************************************************************)
EXTENDS Compliance, TLAPS

(***************************************************************************)
(* Lists of modules without repetition.                                    *)
(***************************************************************************)

\* addModule: a new module at the end.
LEMMA Added ==
  ASSUME NEW list \in Seq(Modules), NEW m \in Modules,
         m \notin Range(list), IsInjective(list)
  PROVE  /\ Append(list, m) \in Seq(Modules)
         /\ Len(Append(list, m)) = Len(list) + 1
         /\ Range(Append(list, m)) = Range(list) \cup {m}
         /\ IsInjective(Append(list, m))
<1> DEFINE longer == Append(list, m)
<1>1. longer \in Seq(Modules) /\ Len(longer) = Len(list) + 1
  OBVIOUS
<1>2. DOMAIN longer = 1 .. Len(list) + 1 /\ DOMAIN list = 1 .. Len(list)
  OBVIOUS
<1>3. \A k \in 1 .. Len(list) : longer[k] = list[k]
  OBVIOUS
<1>4. longer[Len(list) + 1] = m
  OBVIOUS
<1> HIDE DEF longer
<1>5. Range(longer) = Range(list) \cup {m}
  <2>1. ASSUME NEW k \in 1 .. Len(list) + 1
        PROVE  longer[k] \in Range(list) \cup {m}
    BY <1>2, <1>3, <1>4 DEF Range
  <2>2. ASSUME NEW k \in 1 .. Len(list)
        PROVE  list[k] \in Range(longer)
    BY <1>2, <1>3 DEF Range
  <2>3. m \in Range(longer)
    BY <1>2, <1>4 DEF Range
  <2> QED BY <1>2, <2>1, <2>2, <2>3 DEF Range
<1>6. IsInjective(longer)
  BY <1>2, <1>3, <1>4 DEF IsInjective, Range
<1> QED BY <1>1, <1>5, <1>6 DEF longer

\* removeModule: the last module takes the place of the removed one.
LEMMA Removed ==
  ASSUME NEW list \in Seq(Modules), NEW p \in 1 .. Len(list), IsInjective(list)
  PROVE  /\ WithoutModule(list, p) \in Seq(Modules)
         /\ Len(WithoutModule(list, p)) = Len(list) - 1
         /\ Range(WithoutModule(list, p)) = Range(list) \ {list[p]}
         /\ IsInjective(WithoutModule(list, p))
<1> DEFINE n == Len(list)
           shorter == WithoutModule(list, p)
<1>1. n \in Nat \ {0} /\ p \in 1 .. n /\ DOMAIN list = 1 .. n
  OBVIOUS
<1>2. DOMAIN shorter = 1 .. n - 1
  BY DEF WithoutModule
<1>3. \A q \in 1 .. n - 1 : shorter[q] = IF q = p THEN list[n] ELSE list[q]
  BY DEF WithoutModule
<1>4. \A k \in 1 .. n : list[k] \in Modules
  OBVIOUS
<1>5. shorter \in Seq(Modules) /\ Len(shorter) = n - 1
  <2>1. shorter = [q \in 1 .. n - 1 |-> IF q = p THEN list[n] ELSE list[q]]
    BY DEF WithoutModule
  <2>2. n - 1 \in Nat
    BY <1>1
  <2>3. \A q \in 1 .. n - 1 : (IF q = p THEN list[n] ELSE list[q]) \in Modules
    BY <1>1, <1>4
  <2> HIDE DEF shorter, n
  <2> QED BY <2>1, <2>2, <2>3
<1>6. \A j, k \in 1 .. n : list[j] = list[k] => j = k
  BY <1>1 DEF IsInjective
<1> HIDE DEF shorter, n
<1>7. Range(shorter) = Range(list) \ {list[p]}
  <2>1. ASSUME NEW q \in 1 .. n - 1
        PROVE  shorter[q] \in Range(list) \ {list[p]}
    BY <1>1, <1>3, <1>6 DEF Range
  <2>2. ASSUME NEW k \in 1 .. n, k # p
        PROVE  list[k] \in Range(shorter)
    <3>1. CASE k = n
      <4>1. p \in 1 .. n - 1 /\ shorter[p] = list[k]
        BY <1>1, <1>3, <2>2, <3>1
      <4> QED BY <1>2, <4>1 DEF Range
    <3>2. CASE k # n
      <4>1. k \in 1 .. n - 1 /\ shorter[k] = list[k]
        BY <1>1, <1>3, <2>2, <3>2
      <4> QED BY <1>2, <4>1 DEF Range
    <3> QED BY <3>1, <3>2
  <2>3. Range(shorter) \subseteq Range(list) \ {list[p]}
    BY <1>2, <2>1 DEF Range
  <2>4. Range(list) \ {list[p]} \subseteq Range(shorter)
    BY <1>1, <2>2 DEF Range
  <2> QED BY <2>3, <2>4
<1>8. IsInjective(shorter)
  <2>1. ASSUME NEW q \in 1 .. n - 1, NEW r \in 1 .. n - 1, shorter[q] = shorter[r]
        PROVE  q = r
    BY <1>1, <1>3, <1>6, <2>1
  <2> QED BY <1>2, <2>1 DEF IsInjective
<1> QED BY <1>5, <1>7, <1>8 DEF shorter, n

(***************************************************************************)
(* The invariant.  TypeOK is inductive by itself but for removals, where    *)
(* the list that is left has its type because it is a list of modules;     *)
(* ModulesConsistent needs that list to be without repetition.             *)
(***************************************************************************)
IInv == TypeOK /\ ModulesConsistent

LEMMA InitIInv == Init => IInv
<1> SUFFICES ASSUME Init PROVE IInv
  OBVIOUS
<1>1. TypeOK
  <2>1. tokenBound \in [Compliances -> Tokens \cup {NoToken}]
    <3>1. \A c \in Compliances :
            (IF \E t \in Tokens : complianceOf[t] = c
             THEN CHOOSE t \in Tokens : complianceOf[t] = c
             ELSE NoToken) \in Tokens \cup {NoToken}
      OBVIOUS
    <3> QED BY <3>1 DEF Init
  <2>2. modules \in [Compliances -> Seq(Modules)]
    BY DEF Init
  <2> QED BY <2>1, <2>2 DEF Init, TypeOK
<1>2. ModulesConsistent
  BY ComplianceAssumption DEF Init, ModulesConsistent, Range, IsInjective
<1> QED BY <1>1, <1>2 DEF IInv

\* A step that leaves the lists and both flags alone keeps them consistent.
LEMMA BindingSteps ==
  ASSUME IInv, UNCHANGED moduleVars,
         complianceOf' \in [Tokens -> Compliances],
         tokenBound' \in [Compliances -> Tokens \cup {NoToken}]
  PROVE  IInv'
BY DEF IInv, TypeOK, ModulesConsistent, moduleVars

LEMMA AddModuleIInv ==
  ASSUME IInv, NEW c \in Compliances, NEW m \in Modules, AddModule(c, m)
  PROVE  IInv'
<1> DEFINE longer == Append(modules[c], m)
<1>1. modules[c] \in Seq(Modules) /\ m \notin Range(modules[c]) /\ IsInjective(modules[c])
  BY DEF IInv, TypeOK, ModulesConsistent, AddModule
<1>2. /\ longer \in Seq(Modules)
      /\ Len(longer) = Len(modules[c]) + 1
      /\ Range(longer) = Range(modules[c]) \cup {m}
      /\ IsInjective(longer)
  BY <1>1, Added
<1>3. modules' = [modules EXCEPT ![c] = longer]
  BY DEF AddModule
<1>4. Len(longer) <= MaxModules
  <2>1. Len(modules[c]) \in Nat
    BY <1>1
  <2> QED BY <1>2, <2>1, ComplianceAssumption DEF AddModule
<1> HIDE DEF longer
<1>5. TypeOK'
  BY <1>2, <1>3 DEF IInv, TypeOK, AddModule, bindingVars
<1>6. ASSUME NEW d \in Compliances
      PROVE  /\ Range(modules'[d]) = moduleBound'[d]
             /\ IsInjective(modules'[d])
             /\ Len(modules'[d]) <= MaxModules
             /\ \A x \in Modules : d \in complianceBound'[x] => x \in moduleBound'[d]
  <2>1. CASE d = c
    <3>1. modules'[d] = longer /\ moduleBound'[d] = moduleBound[d] \cup {m}
      BY <1>3, <2>1 DEF IInv, TypeOK, AddModule
    <3>2. \A x \in Modules : d \in complianceBound'[x] => x = m \/ d \in complianceBound[x]
      BY DEF IInv, TypeOK, AddModule
    <3> QED BY <1>2, <1>4, <2>1, <3>1, <3>2 DEF IInv, ModulesConsistent
  <2>2. CASE d # c
    <3>1. modules'[d] = modules[d] /\ moduleBound'[d] = moduleBound[d]
      BY <1>3, <2>2 DEF IInv, TypeOK, AddModule
    <3>2. \A x \in Modules : d \in complianceBound'[x] => d \in complianceBound[x]
      BY <2>2 DEF IInv, TypeOK, AddModule
    <3> QED BY <3>1, <3>2 DEF IInv, ModulesConsistent
  <2> QED BY <2>1, <2>2
<1> QED BY <1>5, <1>6 DEF IInv, ModulesConsistent

LEMMA RemoveModuleIInv ==
  ASSUME IInv, NEW c \in Compliances, NEW m \in Modules, RemoveModule(c, m)
  PROVE  IInv'
<1>1. PICK p \in 1 .. Len(modules[c]) :
        modules[c][p] = m /\ modules' = [modules EXCEPT ![c] = WithoutModule(@, p)]
  BY DEF RemoveModule
<1> DEFINE shorter == WithoutModule(modules[c], p)
<1>2. modules[c] \in Seq(Modules) /\ IsInjective(modules[c])
  BY DEF IInv, TypeOK, ModulesConsistent
<1>3. /\ shorter \in Seq(Modules)
      /\ Len(shorter) = Len(modules[c]) - 1
      /\ Range(shorter) = Range(modules[c]) \ {m}
      /\ IsInjective(shorter)
  BY <1>1, <1>2, Removed
<1>4. modules' = [modules EXCEPT ![c] = shorter]
  BY <1>1
<1>5. Len(shorter) <= MaxModules
  <2>1. Len(modules[c]) \in Nat /\ Len(modules[c]) <= MaxModules
    BY <1>2 DEF IInv, ModulesConsistent
  <2> QED BY <1>3, <2>1, ComplianceAssumption
<1> HIDE DEF shorter
<1>6. TypeOK'
  BY <1>3, <1>4 DEF IInv, TypeOK, RemoveModule, bindingVars
<1>7. ASSUME NEW d \in Compliances
      PROVE  /\ Range(modules'[d]) = moduleBound'[d]
             /\ IsInjective(modules'[d])
             /\ Len(modules'[d]) <= MaxModules
             /\ \A x \in Modules : d \in complianceBound'[x] => x \in moduleBound'[d]
  <2>1. CASE d = c
    <3>1. modules'[d] = shorter /\ moduleBound'[d] = moduleBound[d] \ {m}
      BY <1>4, <2>1 DEF IInv, TypeOK, RemoveModule
    <3>2. \A x \in Modules : d \in complianceBound'[x] => x # m /\ d \in complianceBound[x]
      BY <2>1 DEF IInv, TypeOK, RemoveModule
    <3> QED BY <1>3, <1>5, <2>1, <3>1, <3>2 DEF IInv, ModulesConsistent
  <2>2. CASE d # c
    <3>1. modules'[d] = modules[d] /\ moduleBound'[d] = moduleBound[d]
      BY <1>4, <2>2 DEF IInv, TypeOK, RemoveModule
    <3>2. \A x \in Modules : d \in complianceBound'[x] => d \in complianceBound[x]
      BY DEF IInv, TypeOK, RemoveModule
    <3> QED BY <3>1, <3>2 DEF IInv, ModulesConsistent
  <2> QED BY <2>1, <2>2
<1> QED BY <1>6, <1>7 DEF IInv, ModulesConsistent

\* A call through the compliance changes the module's end of the link only, and
\* only for a module the compliance has bound.
LEMMA CallIInv ==
  ASSUME IInv, NEW c \in Compliances, NEW m \in Modules,
         CallUnbindCompliance(c, m) \/ CallBindCompliance(c, m)
  PROVE  IInv'
<1>1. UNCHANGED <<complianceOf, tokenBound, modules, moduleBound>>
  BY DEF CallUnbindCompliance, CallBindCompliance, bindingVars
<1>2. complianceBound' \in [Modules -> SUBSET Compliances]
  <2>1. complianceBound[m] \in SUBSET Compliances
    BY DEF IInv, TypeOK
  <2>2. PICK bound \in SUBSET Compliances :
          complianceBound' = [complianceBound EXCEPT ![m] = bound]
    <3>1. CASE CallUnbindCompliance(c, m)
      <4>1. complianceBound[m] \ {c} \in SUBSET Compliances
        BY <2>1
      <4> QED BY <3>1, <4>1, Zenon DEF CallUnbindCompliance
    <3>2. CASE CallBindCompliance(c, m)
      <4>1. complianceBound[m] \cup {c} \in SUBSET Compliances
        BY <2>1
      <4> QED BY <3>2, <4>1, Zenon DEF CallBindCompliance
    <3> QED BY <3>1, <3>2
  <2> QED BY <2>2 DEF IInv, TypeOK
<1>3. \A d \in Compliances, x \in Modules :
        d \in complianceBound'[x] => d \in complianceBound[x] \/ (d = c /\ x = m)
  BY DEF IInv, TypeOK, CallUnbindCompliance, CallBindCompliance
<1>4. m \in moduleBound[c]
  BY DEF CallUnbindCompliance, CallBindCompliance
<1> QED BY <1>1, <1>2, <1>3, <1>4 DEF IInv, TypeOK, ModulesConsistent

LEMMA NextIInv == IInv /\ [Next]_vars => IInv'
<1> SUFFICES ASSUME IInv, [Next]_vars PROVE IInv'
  OBVIOUS
<1>1. CASE UNCHANGED vars
  BY <1>1 DEF vars, bindingVars, moduleVars, IInv, TypeOK, ModulesConsistent
<1>2. ASSUME NEW t \in Tokens, NEW c \in Compliances, BindToken(c, t)
      PROVE  IInv'
  <2>1. UNCHANGED <<complianceOf, moduleVars>>
    BY <1>2 DEF BindToken
  <2>2. tokenBound' \in [Compliances -> Tokens \cup {NoToken}]
    BY <1>2 DEF BindToken, IInv, TypeOK
  <2>3. complianceOf' \in [Tokens -> Compliances]
    BY <2>1 DEF IInv, TypeOK
  <2> QED BY <2>1, <2>2, <2>3, BindingSteps
<1>3. ASSUME NEW t \in Tokens, NEW c \in Compliances, SetCompliance(t, c)
      PROVE  IInv'
  <2>1. UNCHANGED moduleVars /\ complianceOf' \in [Tokens -> Compliances]
    BY <1>3 DEF SetCompliance, IInv, TypeOK
  <2>2. tokenBound' \in [Compliances -> Tokens \cup {NoToken}]
    BY <1>3 DEF SetCompliance, IInv, TypeOK
  <2> QED BY <2>1, <2>2, BindingSteps
<1>4. ASSUME NEW c \in Compliances, UnbindToken(c)
      PROVE  IInv'
  <2>1. UNCHANGED <<complianceOf, moduleVars>>
    BY <1>4 DEF UnbindToken
  <2>2. tokenBound' \in [Compliances -> Tokens \cup {NoToken}]
    BY <1>4 DEF UnbindToken, IInv, TypeOK
  <2>3. complianceOf' \in [Tokens -> Compliances]
    BY <2>1 DEF IInv, TypeOK
  <2> QED BY <2>1, <2>2, <2>3, BindingSteps
<1>5. ASSUME NEW c \in Compliances, NEW m \in Modules,
             \/ AddModule(c, m) \/ RemoveModule(c, m)
             \/ CallUnbindCompliance(c, m) \/ CallBindCompliance(c, m)
      PROVE  IInv'
  BY <1>5, AddModuleIInv, RemoveModuleIInv, CallIInv
<1> QED BY <1>1, <1>2, <1>3, <1>4, <1>5, Zenon DEF Next

\* Every record of the links has its type (MCStorage, AbstractModule).
THEOREM ComplianceTypeCorrect == Spec => []TypeOK
<1>1. IInv => TypeOK
  BY DEF IInv
<1> QED BY InitIInv, NextIInv, <1>1, PTL DEF Spec

\* Through any sequence of additions, swaps and pops and of calls that other
\* owners make, the list of a compliance and its flags name the same modules,
\* each once, and a module only answers a compliance that has it bound.
THEOREM ModulesStayConsistent == Spec => []ModulesConsistent
<1>1. IInv => ModulesConsistent
  BY DEF IInv
<1> QED BY InitIInv, NextIInv, <1>1, PTL DEF Spec

(***************************************************************************)
(* What stops a working token.                                             *)
(***************************************************************************)

\* With list and flags agreeing, the hooks pass if the compliance has the token
\* bound and answers for each module flagged.
Answering(t) ==
  /\ tokenBound[complianceOf[t]] = t
  /\ \A m \in moduleBound[complianceOf[t]] : complianceOf[t] \in complianceBound[m]

LEMMA OperationalIsAnswering ==
  ASSUME IInv, NEW t \in Tokens
  PROVE  Operational(t) <=> Answering(t)
BY DEF IInv, TypeOK, ModulesConsistent, Operational, Answering

\* A step that leaves the modules, the pointer of t and the one back alone.
LEMMA PointersStayAnswering ==
  ASSUME IInv, NEW t \in Tokens, NEW c \in Compliances, c = complianceOf[t], Answering(t),
         UNCHANGED moduleVars, complianceOf'[t] = c, tokenBound'[c] = t
  PROVE  Answering(t)'
BY DEF Answering, moduleVars

LEMMA OnlyOwnCalls ==
  ASSUME IInv, [Next]_vars, NEW t \in Tokens, NEW c \in Compliances, c = complianceOf[t],
         Answering(t), ~Answering(t)'
  PROVE  \/ UnbindToken(c)
         \/ \E s \in Tokens \ {t} : BindToken(c, s)
         \/ \E m \in Modules : CallUnbindCompliance(c, m)
         \/ \E d \in Compliances : SetCompliance(t, d) /\ tokenBound'[d] = t
<1>1. /\ complianceOf \in [Tokens -> Compliances]
      /\ tokenBound \in [Compliances -> Tokens \cup {NoToken}]
      /\ moduleBound \in [Compliances -> SUBSET Modules]
      /\ complianceBound \in [Modules -> SUBSET Compliances]
      /\ tokenBound[c] = t /\ NoToken \notin Tokens
      /\ \A m \in moduleBound[c] : c \in complianceBound[m]
  BY ComplianceAssumption DEF IInv, TypeOK, Answering
<1>2. CASE UNCHANGED vars
  BY <1>2 DEF vars, bindingVars, moduleVars, Answering
<1>3. ASSUME NEW s \in Tokens, NEW d \in Compliances, BindToken(d, s)
      PROVE  d = c /\ s # t
  <2> SUFFICES ASSUME ~(d = c /\ s # t) PROVE FALSE
    OBVIOUS
  <2>1. tokenBound'[c] = t /\ UNCHANGED moduleVars /\ complianceOf'[t] = c
    BY <1>1, <1>3 DEF BindToken
  <2> QED BY <2>1, PointersStayAnswering
<1>4. ASSUME NEW s \in Tokens, NEW d \in Compliances, SetCompliance(s, d)
      PROVE  s = t /\ tokenBound'[d] = t
  <2>1. /\ tokenBound[complianceOf[s]] = s /\ UNCHANGED moduleVars
        /\ tokenBound' = [[tokenBound EXCEPT ![complianceOf[s]] = NoToken] EXCEPT ![d] = s]
        /\ complianceOf' = [complianceOf EXCEPT ![s] = d]
        /\ [tokenBound EXCEPT ![complianceOf[s]] = NoToken][d] = NoToken
    BY <1>4 DEF SetCompliance
  <2>2. CASE s = t
    BY <1>1, <2>1, <2>2
  <2>3. CASE s # t
    <3>1. complianceOf[s] # c /\ d # c
      BY <1>1, <2>1, <2>3
    <3>2. tokenBound'[c] = t /\ complianceOf'[t] = c
      BY <1>1, <2>1, <2>3, <3>1
    <3> QED BY <2>1, <3>2, PointersStayAnswering
  <2> QED BY <2>2, <2>3
<1>5. ASSUME NEW d \in Compliances, UnbindToken(d)
      PROVE  d = c
  <2> SUFFICES ASSUME d # c PROVE FALSE
    OBVIOUS
  <2>1. tokenBound'[c] = t /\ UNCHANGED moduleVars /\ complianceOf'[t] = c
    BY <1>1, <1>5 DEF UnbindToken
  <2> QED BY <2>1, PointersStayAnswering
<1>6. ASSUME NEW d \in Compliances, NEW m \in Modules,
             \/ AddModule(d, m) \/ RemoveModule(d, m)
             \/ d # c /\ CallUnbindCompliance(d, m)
             \/ CallBindCompliance(d, m)
      PROVE  FALSE
  <2>1. tokenBound'[c] = t /\ complianceOf'[t] = c
    BY <1>1, <1>6 DEF AddModule, RemoveModule, CallUnbindCompliance, CallBindCompliance,
                      bindingVars
  <2>2. \A x \in moduleBound'[c] : c \in complianceBound'[x]
    <3>1. CASE AddModule(d, m)
      BY <1>1, <3>1 DEF AddModule
    <3>2. CASE RemoveModule(d, m)
      BY <1>1, <3>2 DEF RemoveModule
    <3>3. CASE CallUnbindCompliance(d, m) /\ d # c
      BY <1>1, <3>3 DEF CallUnbindCompliance
    <3>4. CASE CallBindCompliance(d, m)
      BY <1>1, <3>4 DEF CallBindCompliance
    <3> QED BY <1>6, <3>1, <3>2, <3>3, <3>4
  <2> QED BY <2>1, <2>2 DEF Answering
<1> QED BY <1>2, <1>3, <1>4, <1>5, <1>6, Zenon DEF Next

\* Whatever other tokens and compliances do, and whatever modules are added and
\* removed, a token that works stops only by its own compliance unbinding it, a
\* call that unbinds a module's end, or its own move to another compliance.
THEOREM OnlyOwnCallsStopTokens == Spec => OnlyOwnCallsStop
<1>1. ASSUME IInv, IInv', [Next]_vars, NEW t \in Tokens, Operational(t), ~Operational(t)'
      PROVE  LET c == complianceOf[t]
             IN \/ UnbindToken(c)
                \/ \E s \in Tokens \ {t} : BindToken(c, s)
                \/ \E m \in Modules : CallUnbindCompliance(c, m)
                \/ \E d \in Compliances : SetCompliance(t, d) /\ tokenBound'[d] = t
  <2>1. Answering(t) /\ complianceOf[t] \in Compliances
    BY <1>1, OperationalIsAnswering DEF IInv, TypeOK
  <2>2. ~Answering(t)'
    BY <1>1 DEF IInv, TypeOK, ModulesConsistent, Operational, Answering
  <2> QED BY <1>1, <2>1, <2>2, OnlyOwnCalls
<1>2. IInv /\ IInv' /\ [Next]_vars =>
        [ \A t \in Tokens : Operational(t) /\ ~Operational(t)' =>
            LET c == complianceOf[t]
            IN \/ UnbindToken(c)
               \/ \E s \in Tokens \ {t} : BindToken(c, s)
               \/ \E m \in Modules : CallUnbindCompliance(c, m)
               \/ \E d \in Compliances : SetCompliance(t, d) /\ tokenBound'[d] = t ]_vars
  BY <1>1
<1> QED BY InitIInv, NextIInv, <1>2, PTL DEF Spec, OnlyOwnCallsStop
=============================================================================
