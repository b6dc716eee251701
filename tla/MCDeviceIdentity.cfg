SPECIFICATION SpecInScene
CONSTANTS
  People = {issuer, intended, other}
  issuer = issuer
  intended = intended
  Keys = {k1, k2}
  other = other
  r1 = r1
  c1 = c1
  c2 = c2
  k1 = k1
  k2 = k2
  q1 = q1
  q2 = q2
  Challenges = {q1, q2}
  AttestedFor <- Chains
  Requests = {r1, r2}
  Proofs = {c1, c2}
  Nobody = Nobody
  NoKey = NoKey
  Deciders = {d1, d2}
  MaxVersion = 2
  Storages = {"HARDWARE", "SOFTWARE"}
  NoDecision = NoDecision
CHECK_DEADLOCK FALSE
INVARIANTS EnrolledByCeremony ActingIsWhole
PROPERTY ImplementsCredential
