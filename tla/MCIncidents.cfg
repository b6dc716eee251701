SPECIFICATION SpecInScene
CONSTANTS
  hostile = hostile
  matched = matched
  again = again
  camera = camera
  hushed = hushed
  unmapped = unmapped
  p1 = p1
  Events = {hostile, matched, again, camera, hushed, unmapped}
  SignalOf <- Signals
  Replicas = {p1, p2}
  ApplyAttempts = 2
  EventDeliveries = 2
  MaxLosses = 1
  Handlers = {h1, h2}
  Deliveries = 2
  Operatives = {o1}
  MaxCrashes = 1
  key1 = key1
  Reports = {x1, x2, x3}
  KeyOf <- Bucket
  Servers = {s1, s2}
  MaxRows = 3
  MaxStamp = 2
  OutboxBatch = 2
  EventBatch = 1
  MaxOutages = 1
  MaxStops = 1
  NoEvent = NoEvent
  Workers = {w1, w2, w3}
  ResponseTasks = {task}
  MaxBroken = 1
  NoEvidence = NoEvidence
SYMMETRY Symmetry
CHECK_DEADLOCK FALSE
INVARIANTS EverySignalCounted CriticalIsAnswered DeliveriesAreCounted SentInOrder SnapshotIsWhole
PROPERTY NeverOutdated
