SPECIFICATION SpecConstitution
CONSTANTS
  base = base
  diverse = diverse
  lax = lax
  ann = ann
  ben = ben
  benAgain = benAgain
  cat = cat
  nobody = nobody
  toDiverse = toDiverse
  toLax = toLax
  byOne = byOne
  Ids = {ann, ben, benAgain, cat, nobody}
  Canonical <- Spellings
  Blank = nobody
  ApiReplicas = {api1, api2}
  Versions = {base, diverse, lax}
  PolicyOf <- Policies
  Baseline = base
  Asks = {toDiverse, toLax, byOne}
  AskOf <- Asked
  AlterAction = "alteration"
  SeedAttempts = 2
  MaxReplicaStops = 1
  None = None
SYMMETRY ReplicaSymmetry
CHECK_DEADLOCK FALSE
INVARIANT LoadedIsInForce
