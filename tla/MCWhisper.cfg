SPECIFICATION SpecInScene
CONSTANTS
  alice = alice
  bob = bob
  r1 = r1
  r2 = r2
  n1 = n1
  Commanders = {alice, bob}
  Configurations = {c1, c2}
  MaxVersion = 2
  Recognitions = {r1, r2}
  NonceOf <- BothUnderOne
  VersionOf <- FirstVersion
  Attempts = {a1, a2}
  MaxClaims = 2
  MaxFaults = 1
  base = base
  diverse = diverse
  lax = lax
  ann = ann
  ben = ben
  benAgain = benAgain
  cat = cat
  nobody = nobody
  toDiverse = toDiverse
  toLax = toLax
  byOne = byOne
  Ids = {ann, ben, benAgain, cat, nobody}
  Canonical <- Spellings
  Blank = nobody
  ApiReplicas = {api1, api2}
  Versions = {base, diverse, lax}
  PolicyOf <- Policies
  Baseline = base
  Asks = {toDiverse, toLax, byOne}
  AskOf <- Asked
  AlterAction = "alteration"
  SeedAttempts = 2
  MaxReplicaStops = 1
  None = None
SYMMETRY Symmetry
CHECK_DEADLOCK FALSE
INVARIANTS OneActive AnswersAgree TwoCommandersDispatch OneActivePolicy ChainVerifies ActivationIsAuthorised
