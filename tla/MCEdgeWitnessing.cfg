CONSTANTS
  e1 = e1
  e2 = e2
  Authorities = {e1, e2}
  Challenges = {x, y}
  SiteOf <- OneSite
  Activators = {t}
  NoEdge = NoEdge
  Lifetime = 2
  Leases <- OneLease
  NoAnchor = NoAnchor
  Signers = {"k1", "k2"}
  EdgeEntries <- OldRing
  CentralEntries <- NewRing
  MaxClock = 3
  MaxBoots = 1
  MaxAnchors = 2
  MaxReceipts = 1
  Witness = e1
  Calls = {c1, c2, c3}
  Requests = {q1, q2}
  EnvelopeOperations = {o1, o2}
  NoOperation = NoOperation
  NoReceipt = NoReceipt
SPECIFICATION Spec
SYMMETRY Symmetry
CHECK_DEADLOCK FALSE
INVARIANTS RecordedTimeIsTrue AdmittedOnceFromTrusted ActiveIsProven
