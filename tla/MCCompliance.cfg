SPECIFICATION Spec
CONSTANTS
  Tokens = {t1, t2}
  Compliances = {comp1, comp2}
  Modules = {m1, m2, m3, m4}
  NoToken = none
  MaxModules = 3
SYMMETRY ModuleSymmetry
INVARIANTS
  TypeOK
  ModulesConsistent
PROPERTY OnlyOwnCallsStop
CHECK_DEADLOCK FALSE
