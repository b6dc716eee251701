SPECIFICATION SpecInScene
CONSTANTS
  first = first
  second = second
  other = other
  deviceA = deviceA
  deviceB = deviceB
  Operations = {first, second, other}
  NamespaceOf <- Namespaces
  SequenceOf <- Order
  Returning = {deviceA}
  NoRow = NoRow
  MaxUnsettled = 2
  SettledRetention = 0
  MaxPosition = 3
  RetryBase = 1
  RetryMax = 1
  AttemptCap = 1
  MaxFaults = 1
  LinkFailures = {"TIMED_OUT"}
INVARIANT NoOvertaking
PROPERTIES ImplementsCustody BackoffSurvives HeldIsAnswered
