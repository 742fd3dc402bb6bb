SPECIFICATION MCSpec
CONSTANTS
  r1 = r1
  r2 = r2
  s1 = s1
  Identities = {id1}
  Issuers = {i1, i2}
  Topics = {t1, t2}
  Keys = {k1}
  Data = {d1}
  Encodings = {v27, v0}
  NoSignature = nosig
  Wallets = {w1}
  NoIdentity = none
  Registries = {r1, r2}
  Storages = {s1, s2}
  MaxTopics = 2
  MaxIssuers = 2
  MaxRegistries = 2
SYMMETRY IssuerTopicSymmetry
INVARIANTS
  TypeOK
  ClaimsListed
  IssuerIndexesAgree
  VerifiedAsDecided
PROPERTY
  OnlyAgentCallsPart
CHECK_DEADLOCK FALSE
