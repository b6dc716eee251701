SPECIFICATION SceneSpec
CONSTANTS
  o1 = o1
  o2 = o2
  o3 = o3
  o4 = o4
  c1 = c1
  c2 = c2
  alpha = alpha
  bravo = bravo
  Operations = {o1, o2, o3, o4}
  Namespaces = {alpha, bravo}
  NamespaceOf <- Taken
  Contexts = {c1, c2}
  HolderOf <- HandedOver
  Askers = {x, y}
  StatusMember = "submission"
  Endings = {"context", "lease"}
  MaxFaults = 0
  MaxDepth = 2
  MaxSequence = 3
  Instants = {1, 2}
  AttemptCap = 2
  NoEntry = NoEntry
  NoWitness = NoWitness
  NoOne = NoOne
  NoLease = NoLease
  NoRequest = NoRequest
CHECK_DEADLOCK FALSE
PROPERTY AloneIsSettled
