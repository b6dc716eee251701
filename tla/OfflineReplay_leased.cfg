SPECIFICATION FairSpec
CONSTANTS
  a1 = a1
  m1 = m1
  op1 = op1
  op2 = op2
  op3 = op3
  Assignments = {a1}
  Assigned = {a1}
  Messages = {m1}
  OperationIds = {op1, op2, op3}
  MaxSequence = 1
  Submissions <- SendThenAck
  Workers = {w1, w2}
  NoReceipt = NoReceipt
  NoRequest = NoRequest
  MaxFaults = 2
  StallsPossible = FALSE
INVARIANT RejectedLeavesNoEffect
PROPERTIES EffectsInQueueOrder AdmittedIsAnswered
