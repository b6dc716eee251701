----------------------------- MODULE FieldProofs -----------------------------
(***************************************************************************)
(* Proofs about the two ways a field operative's work reaches the centre:  *)
(* OfflineReplay, for any number of workers, positions, operations and     *)
(* faults, first whether or not workers outlive their leases, then where   *)
(* they do not; and Patrol, for any number of desks, route versions,       *)
(* checkpoints and assignment rows.                                        *)
(***************************************************************************)
EXTENDS OfflineReplay, Patrol, FiniteSetTheorems, SequenceTheorems,
        WellFoundedInduction, TLAPS

---------------------------------------------------------------------------
(* OfflineReplay.                                                           *)

\* Between admission and its end a request has a receipt of its own at its
\* position; a worker about to finalize holds an outcome; and the cursor row
\* exists from admission on.
Admitted == {"claim", "lost"} \cup Processing

Safe(w) == /\ pc[w] \in Admitted => SameRequest(request[w])
           /\ pc[w] = "finalize" => verdict[w] \in FinalStatuses
           /\ pc[w] \notin {"idle", "ensure"} => cursor # NoCursorRow

AdmittedHaveReceipts == \A w \in Workers : Safe(w)

IInv == TypeOK /\ DecidedPrefix /\ AdmittedHaveReceipts

USE DEF Sequences, FinalStatuses, Result

---------------------------------------------------------------------------

\* A request never leaves the set of operations the model starts from, and its
\* target is of the kind its operation names.
LEMMA SubmissionFacts ==
  ASSUME NEW q \in Submissions
  PROVE  /\ q.sequence \in Sequences
         /\ q.kind \in Kinds
         /\ q.kind = "ACKNOWLEDGE" => q.target \in Messages
         /\ q.kind # "ACKNOWLEDGE" => q.target \in Assignments
         /\ EvidenceRow(q) \in EvidenceRows
  BY DomainAssumption DEF Operation, WellFormed, EvidenceRows

\* A committing domain call keeps the domain's types and adds one to exactly
\* one evidence row, which was empty.
LEMMA CommitEffectFacts ==
  ASSUME NEW q \in Submissions, DomainTypeOK, MayCommit(q), CommitEffect(q)
  PROVE  /\ DomainTypeOK'
         /\ commits[EvidenceRow(q)] = 0
         /\ commits' = [commits EXCEPT ![EvidenceRow(q)] = 1]
<1>1. commits[EvidenceRow(q)] \in Nat
  BY SubmissionFacts DEF DomainTypeOK
<1>2. ~Committed(q)
  BY SubmissionFacts DEF MayCommit, Converges, Kinds
<1>3. commits[EvidenceRow(q)] = 0
  BY <1>1, <1>2 DEF Committed
<1>4. commits' = [commits EXCEPT ![EvidenceRow(q)] = 1]
  BY <1>3 DEF CommitEffect
<1>5. commits' \in [EvidenceRows -> Nat]
  BY <1>4 DEF DomainTypeOK
<1>6. assignment' \in [Assignments -> AssignmentStatus]
  <2>1. CASE q.kind \in TransitionKinds
    <3>1. ActionTarget[q.kind] \in AssignmentStatus
      BY <2>1 DEF ActionTarget, TransitionKinds, AssignmentStatus
    <3> QED BY <2>1, <3>1 DEF CommitEffect, DomainTypeOK
  <2>2. CASE q.kind \notin TransitionKinds
    BY <2>2 DEF CommitEffect, DomainTypeOK
  <2> QED BY <2>1, <2>2
<1>7. delivery' \in [Messages -> DeliveryState]
  BY DEF CommitEffect, DomainTypeOK, DeliveryState
<1> QED BY <1>3, <1>4, <1>5, <1>6, <1>7 DEF DomainTypeOK

\* Other actors keep the domain's types and write no evidence of the queue's.
LEMMA DomainStepFacts ==
  ASSUME DomainTypeOK, DomainStep
  PROVE  DomainTypeOK' /\ commits' = commits
<1>1. ASSUME NEW a \in Assignments, NEW to \in AssignmentStatus, OtherTransition(a, to)
      PROVE  DomainTypeOK' /\ commits' = commits
  BY <1>1 DEF OtherTransition, DomainTypeOK
<1>2. ASSUME NEW m \in Messages, TransportDelivery(m) \/ OtherAcknowledge(m)
      PROVE  DomainTypeOK' /\ commits' = commits
  BY <1>2 DEF TransportDelivery, OtherAcknowledge, DomainTypeOK, DeliveryState
<1> QED BY <1>1, <1>2 DEF DomainStep

---------------------------------------------------------------------------

\* A worker that serves a request serves an operation of the queue.
LEMMA ServedRequest ==
  ASSUME TypeOK, NEW w \in Workers, pc[w] # "idle"
  PROVE  request[w] \in Submissions /\ Position(w) \in Sequences
  BY SubmissionFacts DEF TypeOK, Position

\* Ending a request keeps the types of everything a worker holds.
LEMMA FinishFacts ==
  ASSUME TypeOK, NEW w \in Workers, Finish(w)
  PROVE  /\ pc' \in [Workers -> Locations]
         /\ request' \in [Workers -> Submissions \cup {NoRequest}]
         /\ \A v \in Workers : pc'[v] # "idle" => request'[v] \in Submissions
         /\ generation' \in [Workers -> Nat]
         /\ verdict' \in [Workers -> FinalStatuses \cup {"none"}]
  BY DEF TypeOK, Finish, Locations

\* So does concluding the domain call with an outcome.
LEMMA ConcludeFacts ==
  ASSUME TypeOK, NEW w \in Workers, pc[w] # "idle",
         NEW outcome \in FinalStatuses, Conclude(w, outcome)
  PROVE  /\ pc' \in [Workers -> Locations]
         /\ verdict' \in [Workers -> FinalStatuses \cup {"none"}]
         /\ \A v \in Workers : pc'[v] # "idle" => pc[v] # "idle"
  BY DEF TypeOK, Conclude, Go, Locations, Processing

\* Rewriting the receipt of an admitted request keeps its type.
LEMMA ReceiptUpdate ==
  ASSUME TypeOK, NEW s \in Sequences, receipts[s] # NoReceipt
  PROVE  /\ receipts[s] \in Receipt
         /\ \A status \in ReceiptStatus, n \in Nat, b \in BOOLEAN :
              Rewritten(s, status, n, b) \in [Sequences -> Receipt \cup {NoReceipt}]
<1>1. receipts[s] \in Receipt
  BY DEF TypeOK
<1>2. ASSUME NEW status \in ReceiptStatus, NEW n \in Nat, NEW b \in BOOLEAN
      PROVE  [ request |-> receipts[s].request, status |-> status,
               attempts |-> n, leaseExpired |-> b ] \in Receipt
  BY <1>1 DEF Receipt
<1> QED BY <1>1, <1>2 DEF TypeOK, Rewritten

\* Each step keeps every variable in its type.
LEMMA TypeStep == IInv /\ [Next]_vars => TypeOK'
<1> SUFFICES ASSUME IInv, [Next]_vars PROVE TypeOK'
  OBVIOUS
<1>0. TypeOK /\ DomainTypeOK
  BY DEF IInv, TypeOK
<1> USE <1>0 DEF TypeOK, Locations, Processing, vars, workerVars, domainVars, Go
<1>1. ASSUME NEW w \in Workers, NEW q \in Submissions, Submit(w, q) PROVE TypeOK'
  BY <1>1 DEF Submit, DomainTypeOK
<1>2. ASSUME NEW w \in Workers, EnsureCursor(w) PROVE TypeOK'
  <2>1. cursor' \in -2 .. MaxSequence
    BY <1>2, DomainAssumption DEF EnsureCursor, NoCursorRow, NullSequence
  <2> QED BY <1>2, <2>1 DEF EnsureCursor, DomainTypeOK
<1>3. ASSUME NEW w \in Workers, AdmitNew(w) PROVE TypeOK'
  <2>1. request[w] \in Submissions
    BY <1>3 DEF AdmitNew
  <2>2. [ request |-> request[w], status |-> "RECEIVED",
          attempts |-> 0, leaseExpired |-> FALSE ] \in Receipt
    BY <2>1 DEF Receipt, ReceiptStatus
  <2> QED BY <1>3, <2>2 DEF AdmitNew, DomainTypeOK
<1>4. ASSUME NEW w \in Workers, AdmitReopened(w) PROVE TypeOK'
  BY <1>4 DEF AdmitReopened, DomainTypeOK
<1>5. ASSUME NEW w \in Workers, AdmitReplayed(w) PROVE TypeOK'
  <2>1. request[w] \in Submissions /\ Finalized(Position(w))
    BY <1>5 DEF AdmitReplayed, Replays, Position
  <2>2. answers' \subseteq Result
    BY <1>5, <2>1 DEF AdmitReplayed, Answer, Finalized
  <2> QED BY <1>5, <2>2, FinishFacts DEF AdmitReplayed, DomainTypeOK
<1>6. ASSUME NEW w \in Workers, AdmitRefused(w) PROVE TypeOK'
  BY <1>6, FinishFacts DEF AdmitRefused, DomainTypeOK
<1>7. ASSUME NEW w \in Workers, Claim(w) PROVE TypeOK'
  <2>1. request[w] \in Submissions /\ Position(w) \in Sequences
    BY <1>7, ServedRequest DEF Claim
  <2>2. receipts[Position(w)] # NoReceipt
    BY <1>7 DEF Claim, IInv, AdmittedHaveReceipts, Safe, Admitted, SameRequest, Position
  <2> DEFINE g == receipts[Position(w)].attempts + 1
  <2>3. g \in Nat
    BY <2>1, <2>2, ReceiptUpdate DEF Receipt
  <2>4. receipts' \in [Sequences -> Receipt \cup {NoReceipt}]
    BY <1>7, <2>1, <2>2, <2>3, ReceiptUpdate DEF Claim, ReceiptStatus
  <2>5. pc' \in [Workers -> Locations] /\ generation' \in [Workers -> Nat]
    BY <1>7, <2>3 DEF Claim
  <2> QED BY <1>7, <2>1, <2>4, <2>5 DEF Claim, DomainTypeOK
<1>8. ASSUME NEW w \in Workers, ClaimRefused(w) PROVE TypeOK'
  BY <1>8, FinishFacts DEF ClaimRefused, DomainTypeOK
<1>9. ASSUME NEW w \in Workers, Probe(w) PROVE TypeOK'
  BY <1>9 DEF Probe, DomainTypeOK
<1>10. ASSUME NEW w \in Workers, CheckSender(w) PROVE TypeOK'
  BY <1>10 DEF CheckSender, DomainTypeOK
<1>11. ASSUME NEW w \in Workers, ExecuteCommits(w) PROVE TypeOK'
  <2>1. request[w] \in Submissions
    BY <1>11 DEF ExecuteCommits, InDomain
  <2>2. DomainTypeOK'
    BY <1>11, <2>1, CommitEffectFacts DEF ExecuteCommits
  <2> QED BY <1>11, <2>2, ConcludeFacts DEF ExecuteCommits, InDomain, Conclude
<1>12. ASSUME NEW w \in Workers, ExecuteConverges(w) PROVE TypeOK'
  BY <1>12, ConcludeFacts DEF ExecuteConverges, InDomain, Conclude, DomainTypeOK
<1>13. ASSUME NEW w \in Workers, ExecuteRefused(w) PROVE TypeOK'
  BY <1>13, ConcludeFacts DEF ExecuteRefused, DomainRefuses, InDomain, Conclude, DomainTypeOK
<1>14. ASSUME NEW w \in Workers, ExecuteFaults(w) PROVE TypeOK'
  <2>1. request[w] \in Submissions
    BY <1>14 DEF ExecuteFaults
  <2>2. DomainTypeOK'
    BY <1>14, <2>1, CommitEffectFacts DEF ExecuteFaults, DomainTypeOK
  <2>3. faults' \in 0 .. MaxFaults
    BY <1>14, ReplayAssumption DEF ExecuteFaults, Fault
  <2> QED BY <1>14, <2>2, <2>3 DEF ExecuteFaults
<1>15. ASSUME NEW w \in Workers, RecordOutcome(w), pc[w] = "finalize"
       PROVE  /\ receipts' \in [Sequences -> Receipt \cup {NoReceipt}]
              /\ cursor' \in -2 .. MaxSequence
              /\ verdict[w] \in FinalStatuses
  <2>1. Position(w) \in Sequences /\ receipts[Position(w)] # NoReceipt
    BY <1>15, ServedRequest DEF RecordOutcome, Holds
  <2>2. verdict[w] \in FinalStatuses
    BY <1>15 DEF IInv, AdmittedHaveReceipts, Safe, Admitted
  <2>3. receipts' \in [Sequences -> Receipt \cup {NoReceipt}]
    BY <1>15, <2>1, <2>2, ReceiptUpdate DEF RecordOutcome, ReceiptStatus, SetStatus, Receipt
  <2>4. cursor' \in -2 .. MaxSequence
    BY <1>15, <2>1, DomainAssumption DEF RecordOutcome
  <2> QED BY <2>2, <2>3, <2>4
<1>16. ASSUME NEW w \in Workers, Finalize(w) PROVE TypeOK'
  <2>1. answers' \subseteq Result
    BY <1>15, <1>16 DEF Finalize, Answer
  <2> QED BY <1>15, <1>16, <2>1, FinishFacts DEF Finalize, DomainTypeOK
<1>17. ASSUME NEW w \in Workers, FinalizeFaults(w) PROVE TypeOK'
  <2>1. faults' \in 0 .. MaxFaults
    BY <1>17, ReplayAssumption DEF FinalizeFaults, Fault
  <2> QED BY <1>15, <1>17, <2>1 DEF FinalizeFaults, DomainTypeOK
<1>18. ASSUME NEW w \in Workers, MarkUnknown(w) PROVE TypeOK'
  <2>1. Position(w) \in Sequences /\ receipts[Position(w)] # NoReceipt
    BY <1>18, ServedRequest DEF MarkUnknown, Holds
  <2>2. receipts' \in [Sequences -> Receipt \cup {NoReceipt}]
    BY <1>18, <2>1, ReceiptUpdate DEF MarkUnknown, ReceiptStatus, SetStatus, Receipt
  <2> QED BY <1>18, <2>2, FinishFacts DEF MarkUnknown, DomainTypeOK
<1>19. ASSUME NEW w \in Workers, FenceLost(w) PROVE TypeOK'
  BY <1>19 DEF FenceLost, DomainTypeOK
<1>20. ASSUME NEW w \in Workers, ReportLostFence(w) PROVE TypeOK'
  <2>1. request[w] \in Submissions
    BY <1>20 DEF ReportLostFence
  <2>2. answers' \subseteq Result
    BY <1>20, <2>1 DEF ReportLostFence, Answer, Finalized
  <2> QED BY <1>20, <2>2, FinishFacts DEF ReportLostFence, DomainTypeOK
<1>21. ASSUME NEW w \in Workers, Crash(w) PROVE TypeOK'
  <2>1. faults' \in 0 .. MaxFaults
    BY <1>21, ReplayAssumption DEF Crash, Fault
  <2> QED BY <1>21, <2>1, FinishFacts DEF Crash, DomainTypeOK
<1>22. ASSUME NEW s \in Sequences, LeaseExpires(s) PROVE TypeOK'
  <2>1. faults' \in 0 .. MaxFaults
    BY <1>22, ReplayAssumption DEF LeaseExpires, Fault
  <2>2. receipts' \in [Sequences -> Receipt \cup {NoReceipt}]
    BY <1>22, ReceiptUpdate DEF LeaseExpires, ReceiptStatus, Receipt
  <2> QED BY <1>22, <2>1, <2>2 DEF LeaseExpires, DomainTypeOK
<1>23. CASE OtherActor
  BY <1>23, DomainStepFacts DEF OtherActor
<1>24. CASE UNCHANGED vars
  BY <1>24 DEF DomainTypeOK
<1> QED
  BY <1>1, <1>2, <1>3, <1>4, <1>5, <1>6, <1>7, <1>8, <1>9, <1>10, <1>11, <1>12,
     <1>13, <1>14, <1>16, <1>17, <1>18, <1>19, <1>20, <1>21, <1>22, <1>23, <1>24
     DEF Next, Advance, WorkerFault

---------------------------------------------------------------------------
(* What one step can do to the receipts, the cursor and the answers,        *)
(* whoever takes it.                                                        *)

Untouched ==
  /\ receipts' = receipts
  /\ \/ cursor' = cursor
     \/ cursor = NoCursorRow /\ cursor' = NullSequence
  /\ answers' = answers

Received(s) ==
  /\ receipts[s] = NoReceipt
  /\ s = cursor + 1 /\ cursor # NoCursorRow
  /\ \E q \in Submissions :
       receipts' = [receipts EXCEPT ![s] =
                      [ request |-> q, status |-> "RECEIVED",
                        attempts |-> 0, leaseExpired |-> FALSE ]]
  /\ UNCHANGED <<cursor, answers>>

\* The receipt of an undecided position gets this status.
Rewrites(s, status) ==
  /\ receipts[s] # NoReceipt /\ ~Finalized(s)
  /\ \E n \in Nat, b \in BOOLEAN : receipts' = Rewritten(s, status, n, b)

Reworked(s) ==
  /\ \E status \in ReceiptStatus \ FinalStatuses : Rewrites(s, status)
  /\ UNCHANGED <<cursor, answers>>

Retold(q) ==
  /\ SameRequest(q) /\ Finalized(q.sequence)
  /\ Answer(q, receipts[q.sequence].status)
  /\ UNCHANGED <<cursor, receipts>>

Decided(q, outcome) ==
  /\ SameRequest(q)
  /\ Rewrites(q.sequence, outcome)
  /\ cursor' = IF cursor < q.sequence THEN q.sequence ELSE cursor
  /\ answers' = answers \/ Answer(q, outcome)

QueueMove ==
  \/ Untouched
  \/ \E s \in Sequences : Received(s) \/ Reworked(s)
  \/ \E q \in Submissions : Retold(q)
  \/ \E q \in Submissions, outcome \in FinalStatuses : Decided(q, outcome)

\* A worker that passes its fence decides a position that was not decided.
LEMMA RecordOutcomeDecides ==
  ASSUME IInv, NEW w \in Workers, pc[w] = "finalize", RecordOutcome(w),
         answers' = answers \/ Answer(request[w], verdict[w])
  PROVE  /\ request[w] \in Submissions /\ verdict[w] \in FinalStatuses
         /\ Decided(request[w], verdict[w])
<1>1. TypeOK /\ request[w] \in Submissions /\ Position(w) \in Sequences
  BY ServedRequest DEF IInv
<1>2. receipts[Position(w)] # NoReceipt /\ ~Finalized(Position(w))
  BY DEF RecordOutcome, Holds, Finalized
<1>3. verdict[w] \in FinalStatuses /\ SameRequest(request[w])
  BY DEF IInv, AdmittedHaveReceipts, Safe, Admitted, Processing
<1>4. receipts[Position(w)].attempts \in Nat /\ receipts[Position(w)].leaseExpired \in BOOLEAN
  BY <1>1, <1>2, ReceiptUpdate DEF Receipt
<1>5. Rewrites(Position(w), verdict[w])
  BY <1>2, <1>4 DEF RecordOutcome, SetStatus, Rewrites
<1> QED BY <1>1, <1>3, <1>5 DEF RecordOutcome, Decided, Position

\* Every step moves the queue in one of these ways.
LEMMA StepIsQueueMove == IInv /\ [Next]_vars => QueueMove
<1> SUFFICES ASSUME IInv, [Next]_vars PROVE QueueMove
  OBVIOUS
<1>0. TypeOK /\ AdmittedHaveReceipts
  BY DEF IInv
<1>1. ASSUME NEW w \in Workers, EnsureCursor(w) PROVE QueueMove
  BY <1>1 DEF EnsureCursor, QueueMove, Untouched
<1>2. ASSUME NEW w \in Workers, AdmitNew(w) PROVE QueueMove
  <2>1. request[w] \in Submissions /\ Position(w) \in Sequences
    BY <1>0, <1>2, ServedRequest DEF AdmitNew
  <2>2. cursor # NoCursorRow
    BY <1>0, <1>2 DEF AdmitNew, AdmittedHaveReceipts, Safe
  <2>3. Classify(request[w]) = "FRESH" /\ receipts[Position(w)] = NoReceipt
    BY <1>2 DEF AdmitNew, Creates, Position
  <2>4. Position(w) = cursor + 1
    BY <2>3 DEF Classify, Position
  <2>5. Received(Position(w))
    BY <1>2, <2>1, <2>2, <2>3, <2>4 DEF AdmitNew, Received
  <2> QED BY <2>1, <2>5 DEF QueueMove
<1>3. ASSUME NEW w \in Workers, Claim(w) PROVE QueueMove
  <2>1. Position(w) \in Sequences
    BY <1>0, <1>3, ServedRequest DEF Claim
  <2>2. receipts[Position(w)] # NoReceipt
    BY <1>0, <1>3 DEF Claim, AdmittedHaveReceipts, Safe, Admitted, SameRequest, Position
  <2>3. ~Finalized(Position(w))
    BY <1>3 DEF Claim, Claimable, Finalized
  <2>4. receipts[Position(w)].attempts + 1 \in Nat
    BY <1>0, <2>1, <2>2, ReceiptUpdate DEF Receipt
  <2>5. Reworked(Position(w))
    BY <1>3, <2>2, <2>3, <2>4 DEF Claim, Reworked, Rewrites, ReceiptStatus
  <2> QED BY <2>1, <2>5 DEF QueueMove
<1>4. ASSUME NEW w \in Workers, Finalize(w) PROVE QueueMove
  BY <1>4, RecordOutcomeDecides DEF Finalize, QueueMove
<1>5. ASSUME NEW w \in Workers, FinalizeFaults(w) PROVE QueueMove
  BY <1>5, RecordOutcomeDecides DEF FinalizeFaults, QueueMove, Untouched
<1>6. ASSUME NEW w \in Workers, MarkUnknown(w) PROVE QueueMove
  <2>1. Position(w) \in Sequences
    BY <1>0, <1>6, ServedRequest DEF MarkUnknown
  <2>2. receipts[Position(w)] # NoReceipt /\ ~Finalized(Position(w))
    BY <1>6 DEF MarkUnknown, Holds, Finalized
  <2>3. receipts[Position(w)].attempts \in Nat /\ receipts[Position(w)].leaseExpired \in BOOLEAN
    BY <1>0, <2>1, <2>2, ReceiptUpdate DEF Receipt
  <2>4. Reworked(Position(w))
    BY <1>6, <2>2, <2>3 DEF MarkUnknown, SetStatus, Reworked, Rewrites, ReceiptStatus
  <2> QED BY <2>1, <2>4 DEF QueueMove
<1>7. ASSUME NEW s \in Sequences, LeaseExpires(s) PROVE QueueMove
  <2>1. receipts[s].attempts \in Nat
    BY <1>0, <1>7, ReceiptUpdate DEF LeaseExpires, Receipt
  <2>2. Reworked(s)
    BY <1>7, <2>1 DEF LeaseExpires, Reworked, Rewrites, Finalized, ReceiptStatus
  <2> QED BY <2>2 DEF QueueMove
<1>8. ASSUME UNCHANGED <<cursor, receipts, answers>> PROVE QueueMove
  BY <1>8 DEF QueueMove, Untouched
<1>9. ASSUME NEW w \in Workers, NEW q \in Submissions, Submit(w, q) PROVE QueueMove
  BY <1>8, <1>9 DEF Submit
<1>10. ASSUME NEW w \in Workers,
              \/ AdmitReopened(w) \/ AdmitRefused(w) \/ ClaimRefused(w)
              \/ Probe(w) \/ CheckSender(w)
              \/ ExecuteCommits(w) \/ ExecuteConverges(w) \/ ExecuteRefused(w)
              \/ ExecuteFaults(w) \/ FenceLost(w) \/ Crash(w)
       PROVE  QueueMove
  BY <1>8, <1>10 DEF AdmitReopened, AdmitRefused, ClaimRefused, Probe,
     CheckSender, ExecuteCommits, ExecuteConverges, ExecuteRefused, Conclude,
     ExecuteFaults, FenceLost, Crash
<1>11. ASSUME NEW w \in Workers, AdmitReplayed(w) PROVE QueueMove
  <2>1. request[w] \in Submissions
    BY <1>0, <1>11, ServedRequest DEF AdmitReplayed
  <2>2. Retold(request[w])
    BY <1>11 DEF AdmitReplayed, Replays, Retold, Position
  <2> QED BY <2>1, <2>2 DEF QueueMove
<1>12. ASSUME NEW w \in Workers, ReportLostFence(w) PROVE QueueMove
  <2>1. request[w] \in Submissions
    BY <1>0, <1>12, ServedRequest DEF ReportLostFence
  <2>2. SameRequest(request[w])
    BY <1>0, <1>12 DEF ReportLostFence, AdmittedHaveReceipts, Safe, Admitted
  <2>3. CASE Finalized(Position(w))
    BY <1>12, <2>1, <2>2, <2>3 DEF ReportLostFence, Retold, Position, QueueMove
  <2>4. CASE ~Finalized(Position(w))
    BY <1>8, <1>12, <2>4 DEF ReportLostFence
  <2> QED BY <2>3, <2>4
<1>13. CASE OtherActor \/ UNCHANGED vars
  BY <1>8, <1>13 DEF OtherActor, vars
<1> QED
  BY <1>1, <1>2, <1>3, <1>4, <1>5, <1>6, <1>7, <1>9, <1>10, <1>11, <1>12, <1>13
     DEF Next, Advance, WorkerFault

\* Rewriting an undecided receipt leaves a receipt of the same request there,
\* and every other position alone.
LEMMA RewriteFacts ==
  ASSUME TypeOK, NEW s \in Sequences, NEW status \in ReceiptStatus, Rewrites(s, status)
  PROVE  /\ receipts'[s] # NoReceipt
         /\ receipts'[s].request = receipts[s].request
         /\ receipts'[s].status = status
         /\ \A t \in Sequences \ {s} : receipts'[t] = receipts[t]
<1>1. PICK n \in Nat, b \in BOOLEAN : receipts' = Rewritten(s, status, n, b)
  BY DEF Rewrites
<1>2. receipts'[s] = [ request |-> receipts[s].request, status |-> status,
                       attempts |-> n, leaseExpired |-> b ]
  BY <1>1 DEF Rewritten, TypeOK
<1>3. receipts'[s] \in Receipt
  BY <1>2, ReceiptUpdate DEF Rewrites, Receipt
<1>4. \A t \in Sequences \ {s} : receipts'[t] = receipts[t]
  BY <1>1 DEF Rewritten, TypeOK
<1> QED BY <1>2, <1>3, <1>4, SentinelAssumption

\* A receipt, once created, stays, and stays the receipt of the same request;
\* a decided one does not change at all, and the cursor never moves back.
LEMMA QueueMoveKeeps ==
  ASSUME TypeOK, QueueMove
  PROVE  /\ \A s \in Sequences : receipts[s] # NoReceipt =>
              /\ receipts'[s] # NoReceipt
              /\ receipts'[s].request = receipts[s].request
         /\ KeepsDecisions
         /\ cursor # NoCursorRow => cursor' # NoCursorRow
<1> DEFINE Keeps == \A s \in Sequences : receipts[s] # NoReceipt =>
                      /\ receipts'[s] # NoReceipt
                      /\ receipts'[s].request = receipts[s].request
           Goal  == /\ Keeps
                    /\ KeepsDecisions
                    /\ cursor # NoCursorRow => cursor' # NoCursorRow
<1>1. CASE Untouched
  BY <1>1 DEF Untouched, KeepsDecisions, TypeOK, NoCursorRow, NullSequence
<1>2. ASSUME NEW s \in Sequences, Received(s) PROVE Goal
  <2>1. \A t \in Sequences : receipts[t] # NoReceipt => receipts'[t] = receipts[t]
    BY <1>2 DEF Received, TypeOK
  <2> QED BY <1>2, <2>1 DEF Received, KeepsDecisions, Finalized, TypeOK
<1>3. ASSUME NEW s \in Sequences, NEW status \in ReceiptStatus, Rewrites(s, status)
      PROVE  Keeps /\ \A t \in Sequences : Finalized(t) => receipts'[t] = receipts[t]
  BY <1>3, RewriteFacts DEF Rewrites
<1>4. ASSUME NEW s \in Sequences, Reworked(s) PROVE Goal
  BY <1>3, <1>4 DEF Reworked, KeepsDecisions, TypeOK
<1>5. ASSUME NEW q \in Submissions, Retold(q) PROVE Goal
  BY <1>5 DEF Retold, KeepsDecisions, TypeOK
<1>6. ASSUME NEW q \in Submissions, NEW outcome \in FinalStatuses, Decided(q, outcome)
      PROVE  Goal
  <2>1. q.sequence \in Sequences /\ outcome \in ReceiptStatus
    BY SubmissionFacts DEF ReceiptStatus
  <2>2. cursor' >= cursor /\ (cursor # NoCursorRow => cursor' # NoCursorRow)
    BY <1>6, <2>1, DomainAssumption DEF Decided, TypeOK, NoCursorRow
  <2> QED BY <1>3, <1>6, <2>1, <2>2 DEF Decided, KeepsDecisions
<1> QED BY <1>1, <1>2, <1>4, <1>5, <1>6 DEF QueueMove

\* Only the position right after the cursor can be decided, and deciding it
\* moves the cursor onto it.
LEMMA DecidedIsNext ==
  ASSUME TypeOK, DecidedPrefix, NEW q \in Submissions, NEW outcome, Decided(q, outcome)
  PROVE  /\ q.sequence \in Sequences
         /\ q.sequence = cursor + 1
         /\ cursor' = q.sequence
         /\ cursor # NoCursorRow
  BY SubmissionFacts, DomainAssumption
     DEF Decided, Rewrites, DecidedPrefix, TypeOK, NoCursorRow

\* The decided positions stay exactly those up to the cursor: the only receipt
\* that can be decided is the open one, and that one is right after the cursor.
LEMMA PrefixStep == ASSUME TypeOK, DecidedPrefix, QueueMove PROVE DecidedPrefix'
<1>1. CASE Untouched
  BY <1>1, SentinelAssumption DEF Untouched, DecidedPrefix, Finalized, TypeOK,
     NoCursorRow, NullSequence
<1>2. ASSUME NEW s \in Sequences, Received(s) PROVE DecidedPrefix'
  <2>1. PICK q \in Submissions :
           receipts' = [receipts EXCEPT ![s] =
                          [ request |-> q, status |-> "RECEIVED",
                            attempts |-> 0, leaseExpired |-> FALSE ]]
    BY <1>2 DEF Received
  <2>2. receipts'[s].status = "RECEIVED" /\ ~(s <= cursor) /\ s <= cursor + 1
    BY <1>2, <2>1, DomainAssumption DEF Received, TypeOK
  <2>3. \A t \in Sequences \ {s} : receipts'[t] = receipts[t]
    BY <2>1 DEF TypeOK
  <2> QED BY <1>2, <2>2, <2>3 DEF Received, DecidedPrefix, Finalized
<1>3. ASSUME NEW s \in Sequences, Reworked(s) PROVE DecidedPrefix'
  <2>1. PICK status \in ReceiptStatus \ FinalStatuses : Rewrites(s, status)
    BY <1>3 DEF Reworked
  <2>2. /\ receipts'[s].status \notin FinalStatuses
        /\ \A t \in Sequences \ {s} : receipts'[t] = receipts[t]
    BY <2>1, RewriteFacts
  <2> QED BY <1>3, <2>1, <2>2 DEF Reworked, Rewrites, DecidedPrefix, Finalized
<1>4. ASSUME NEW q \in Submissions, Retold(q) PROVE DecidedPrefix'
  BY <1>4 DEF Retold, DecidedPrefix, Finalized
<1>5. ASSUME NEW q \in Submissions, NEW outcome \in FinalStatuses, Decided(q, outcome)
      PROVE  DecidedPrefix'
  <2> DEFINE s == q.sequence
  <2>1. s \in Sequences /\ s = cursor + 1 /\ cursor' = s
    BY <1>5, DecidedIsNext
  <2>2. /\ receipts'[s] # NoReceipt /\ receipts'[s].status \in FinalStatuses
        /\ \A t \in Sequences \ {s} : receipts'[t] = receipts[t]
    BY <1>5, <2>1, RewriteFacts DEF Decided, ReceiptStatus
  <2> HIDE DEF s
  <2>3. ASSUME NEW t \in Sequences PROVE Finalized(t)' <=> t <= cursor + 1
    <3>1. CASE t = s
      BY <2>1, <2>2, <3>1 DEF Finalized
    <3>2. CASE t # s
      <4>1. Finalized(t)' <=> t <= cursor
        BY <2>2, <3>2 DEF DecidedPrefix, Finalized
      <4> QED BY <2>1, <3>2, <4>1, DomainAssumption DEF TypeOK
    <3> QED BY <3>1, <3>2
  <2>4. ASSUME NEW t \in Sequences, receipts'[t] # NoReceipt PROVE t <= cursor + 2
    <3>1. CASE t = s
      BY <2>1, <3>1, DomainAssumption DEF TypeOK
    <3>2. CASE t # s
      <4>1. t <= cursor + 1
        BY <2>2, <2>4, <3>2 DEF DecidedPrefix
      <4> QED BY <4>1, DomainAssumption DEF TypeOK
    <3> QED BY <3>1, <3>2
  <2> QED BY <2>1, <2>3, <2>4, DomainAssumption DEF DecidedPrefix, TypeOK
<1> QED BY <1>1, <1>2, <1>3, <1>4, <1>5 DEF QueueMove

\* A worker enters the claim only with a receipt, keeps it, and carries an
\* outcome into finalize.
LEMMA AdmittedStep ==
  ASSUME IInv, [Next]_vars, TypeOK', QueueMove
  PROVE  AdmittedHaveReceipts'
<1>0. TypeOK /\ DecidedPrefix
  BY DEF IInv
<1> USE DEF Safe, Admitted
<1>1. ASSUME NEW v \in Workers, pc'[v] = pc[v], request'[v] = request[v],
             verdict'[v] = verdict[v]
      PROVE  Safe(v)'
  <2>1. Safe(v)
    BY DEF IInv, AdmittedHaveReceipts
  <2>2. pc[v] \in Admitted => Position(v) \in Sequences
    BY <1>0, ServedRequest DEF Processing
  <2>3. pc[v] \in Admitted => SameRequest(request[v])'
    BY <1>0, <1>1, <2>1, <2>2, QueueMoveKeeps DEF SameRequest, Position
  <2> QED BY <1>0, <1>1, <2>1, <2>3, QueueMoveKeeps
<1>2. ASSUME NEW v \in Workers, pc[v] # "idle", Safe(v), request'[v] = request[v],
             pc[v] \in Admitted, pc'[v] \in Admitted,
             pc'[v] = "finalize" => verdict'[v] \in FinalStatuses
      PROVE  Safe(v)'
  <2>1. Position(v) \in Sequences
    BY <1>0, <1>2, ServedRequest
  <2>2. SameRequest(request[v])'
    BY <1>0, <1>2, <2>1, QueueMoveKeeps DEF SameRequest, Position
  <2>3. cursor' # NoCursorRow
    BY <1>0, <1>2, QueueMoveKeeps DEF Processing
  <2> QED BY <1>2, <2>2, <2>3
<1>3. ASSUME NEW w \in Workers, Finish(w) PROVE \A v \in Workers : Safe(v)'
  <2>1. Safe(w)'
    BY <1>0, <1>3 DEF Finish, TypeOK, Processing
  <2>2. \A v \in Workers \ {w} : Safe(v)'
    BY <1>0, <1>1, <1>3 DEF Finish, TypeOK
  <2> QED BY <2>1, <2>2
<1>4. ASSUME NEW w \in Workers, NEW q \in Submissions, Submit(w, q)
      PROVE  \A v \in Workers : Safe(v)'
  <2>1. Safe(w)'
    BY <1>0, <1>4 DEF Submit, Go, TypeOK, Processing
  <2>2. \A v \in Workers \ {w} : Safe(v)'
    BY <1>0, <1>1, <1>4 DEF Submit, Go, TypeOK
  <2> QED BY <2>1, <2>2
<1>5. ASSUME NEW w \in Workers, EnsureCursor(w) PROVE \A v \in Workers : Safe(v)'
  <2>1. Safe(w)'
    BY <1>0, <1>5 DEF EnsureCursor, Go, TypeOK, Processing, NoCursorRow, NullSequence
  <2>2. \A v \in Workers \ {w} : Safe(v)'
    BY <1>0, <1>1, <1>5 DEF EnsureCursor, Go, TypeOK
  <2> QED BY <2>1, <2>2
<1>6. ASSUME NEW w \in Workers, AdmitNew(w) \/ AdmitReopened(w)
      PROVE  \A v \in Workers : Safe(v)'
  <2>1. cursor # NoCursorRow /\ cursor' = cursor
    BY <1>6 DEF AdmitNew, AdmitReopened, IInv, AdmittedHaveReceipts
  <2>2. SameRequest(request[w])'
    <3>1. request[w] \in Submissions /\ Position(w) \in Sequences
      BY <1>0, <1>6, ServedRequest DEF AdmitNew, AdmitReopened
    <3>2. CASE AdmitNew(w)
      <4>1. receipts'[Position(w)] = [ request |-> request[w], status |-> "RECEIVED",
                                  attempts |-> 0, leaseExpired |-> FALSE ]
        BY <1>0, <3>1, <3>2 DEF AdmitNew, TypeOK
      <4>2. receipts'[Position(w)] \in Receipt
        BY <3>1, <4>1 DEF Receipt, ReceiptStatus
      <4>3. /\ receipts'[Position(w)] # NoReceipt
            /\ receipts'[Position(w)].request = request[w]
        <5>1. receipts'[Position(w)] # NoReceipt
          BY <4>2, SentinelAssumption
        <5>2. receipts'[Position(w)].request = request[w]
          BY ONLY <4>1
        <5> QED BY <5>1, <5>2
      <4>4. request'[w] = request[w]
        BY <3>2 DEF AdmitNew
      <4> QED BY <4>3, <4>4 DEF SameRequest, Position
    <3>3. CASE AdmitReopened(w)
      BY <3>1, <3>3, SentinelAssumption DEF AdmitReopened, Reopens, SameRequest
    <3> QED BY <1>6, <3>2, <3>3
  <2>3. Safe(w)'
    BY <1>0, <1>6, <2>1, <2>2 DEF AdmitNew, AdmitReopened, Go, TypeOK
  <2>4. \A v \in Workers \ {w} : Safe(v)'
    BY <1>0, <1>1, <1>6 DEF AdmitNew, AdmitReopened, Go, TypeOK
  <2> QED BY <2>3, <2>4
<1>7. ASSUME NEW w \in Workers,
             \/ Claim(w) \/ Probe(w) \/ CheckSender(w)
             \/ ExecuteCommits(w) \/ ExecuteConverges(w) \/ ExecuteRefused(w)
             \/ ExecuteFaults(w) \/ FinalizeFaults(w) \/ FenceLost(w)
      PROVE  \A v \in Workers : Safe(v)'
  <2>0. pc[w] # "idle"
    BY <1>7 DEF Claim, Probe, CheckSender, ExecuteCommits, ExecuteConverges,
       ExecuteRefused, InDomain, DomainRefuses, ExecuteFaults, FinalizeFaults, FenceLost
  <2> USE DEF Claim, Probe, CheckSender, ExecuteCommits, ExecuteConverges, ExecuteRefused,
              Conclude, InDomain, DomainRefuses, ExecuteFaults, FinalizeFaults, FenceLost, Go
  <2>1. pc[w] \in Admitted /\ pc'[w] \in Admitted /\ request' = request
    BY <1>0, <1>7 DEF TypeOK, Processing
  <2>2. pc'[w] = "finalize" => verdict'[w] \in FinalStatuses
    BY <1>0, <1>7 DEF TypeOK
  <2>3. Safe(w)
    BY DEF IInv, AdmittedHaveReceipts
  <2>4. Safe(w)'
    BY <1>2, <2>1, <2>2, <2>3 DEF Processing
  <2>5. \A v \in Workers \ {w} : Safe(v)'
    <3> SUFFICES ASSUME NEW v \in Workers \ {w} PROVE Safe(v)'
      OBVIOUS
    <3>1. pc'[v] = pc[v] /\ verdict'[v] = verdict[v] /\ request'[v] = request[v]
      BY <1>0, <1>7 DEF TypeOK
    <3> QED BY <1>1, <3>1
  <2> QED BY <2>4, <2>5
<1> HIDE DEF Safe, Admitted
<1>8. ASSUME UNCHANGED <<pc, request, verdict>> PROVE \A v \in Workers : Safe(v)'
  BY <1>1, <1>8
<1>9. ASSUME NEW s \in Sequences, LeaseExpires(s) PROVE \A v \in Workers : Safe(v)'
  BY <1>8, <1>9 DEF LeaseExpires, workerVars
<1>10. ASSUME OtherActor \/ UNCHANGED vars PROVE \A v \in Workers : Safe(v)'
  BY <1>8, <1>10 DEF OtherActor, vars, workerVars
<1>11. \A v \in Workers : Safe(v)'
  BY <1>3, <1>4, <1>5, <1>6, <1>7, <1>9, <1>10
     DEF Next, Advance, WorkerFault, AdmitReplayed, AdmitRefused, ClaimRefused,
         Finalize, MarkUnknown, ReportLostFence, Crash
<1> QED BY <1>11 DEF AdmittedHaveReceipts

---------------------------------------------------------------------------
(* The theorems.                                                            *)

LEMMA InitInvariant == Init => IInv
<1> SUFFICES ASSUME Init PROVE IInv
  OBVIOUS
<1>1. TypeOK
  <2>1. DomainTypeOK
    BY DEF Init, DomainInit, DomainTypeOK, AssignmentStatus, DeliveryState
  <2> QED BY <2>1, DomainAssumption, ReplayAssumption
     DEF Init, TypeOK, Locations, NoCursorRow
<1>2. DecidedPrefix
  BY DEF Init, DecidedPrefix, Finalized, NoCursorRow
<1>3. AdmittedHaveReceipts
  BY DEF Init, AdmittedHaveReceipts, Safe, Admitted, Processing
<1> QED BY <1>1, <1>2, <1>3 DEF IInv

LEMMA StepInvariant == IInv /\ [Next]_vars => IInv'
  BY TypeStep, StepIsQueueMove, PrefixStep, AdmittedStep DEF IInv

\* The inductive invariant holds of every reachable state of the executor.
THEOREM Invariance == Spec => []IInv
<1> QED BY InitInvariant, StepInvariant, PTL DEF Spec

\* Every variable stays in its type, whatever number of workers interleave.
THEOREM TypeCorrect == Spec => []TypeOK
<1>1. IInv => TypeOK
  BY DEF IInv
<1> QED BY <1>1, Invariance, PTL

\* The cursor row and the receipts always describe the same decided prefix.
THEOREM DecidedPrefixHolds == Spec => []DecidedPrefix
<1>1. IInv => DecidedPrefix
  BY DEF IInv
<1> QED BY <1>1, Invariance, PTL

\* No attempt works on a position behind an undecided one: an attempt has a
\* receipt, and no receipt exists beyond the position after the cursor.
THEOREM PredecessorsDecidedHolds == Spec => []PredecessorsDecided
<1>1. IInv => PredecessorsDecided
  <2> SUFFICES ASSUME IInv, NEW w \in Workers, pc[w] \in Processing,
                      NEW s \in Sequences, s < Position(w)
               PROVE  Finalized(s)
    BY DEF PredecessorsDecided
  <2>1. TypeOK /\ DecidedPrefix /\ Safe(w)
    BY DEF IInv, AdmittedHaveReceipts
  <2>2. Position(w) \in Sequences
    BY <2>1, ServedRequest DEF Processing
  <2>3. Position(w) <= cursor + 1
    BY <2>1, <2>2 DEF Safe, Admitted, SameRequest, Position, DecidedPrefix
  <2> QED BY <2>1, <2>2, <2>3, DomainAssumption DEF DecidedPrefix, TypeOK
<1> QED BY <1>1, Invariance, PTL

\* A decided receipt is never written again and the cursor never moves back.
THEOREM DecisionsPermanent == Spec => DecisionsArePermanent
<1>1. IInv /\ [Next]_vars => [KeepsDecisions]_vars
  BY StepIsQueueMove, QueueMoveKeeps DEF IInv
<1> QED BY <1>1, Invariance, PTL DEF Spec, DecisionsArePermanent

\* One more row of evidence appears only where there was none.
LEMMA EffectStep ==
  ASSUME IInv, [Next]_vars, EffectAtMostOnce
  PROVE  EffectAtMostOnce'
<1>0. TypeOK /\ DomainTypeOK
  BY DEF IInv, TypeOK
<1>1. ASSUME NEW q \in Submissions, MayCommit(q), CommitEffect(q) PROVE EffectAtMostOnce'
  BY <1>0, <1>1, CommitEffectFacts DEF EffectAtMostOnce, DomainTypeOK
<1>2. ASSUME commits' = commits PROVE EffectAtMostOnce'
  BY <1>2 DEF EffectAtMostOnce
<1>3. ASSUME NEW w \in Workers, ExecuteCommits(w) PROVE EffectAtMostOnce'
  BY <1>0, <1>1, <1>3, ServedRequest DEF ExecuteCommits, InDomain
<1>4. ASSUME NEW w \in Workers, ExecuteFaults(w) PROVE EffectAtMostOnce'
  <2>1. request[w] \in Submissions
    BY <1>0, <1>4, ServedRequest DEF ExecuteFaults
  <2> QED BY <1>1, <1>2, <1>4, <2>1 DEF ExecuteFaults, domainVars
<1>5. CASE OtherActor
  BY <1>0, <1>2, <1>5, DomainStepFacts DEF OtherActor
<1>6. CASE UNCHANGED domainVars
  BY <1>2, <1>6 DEF domainVars
<1>7. UNCHANGED vars => UNCHANGED domainVars
  BY DEF vars
<1>8. ASSUME NEW w \in Workers, Advance(w), ~ExecuteCommits(w) PROVE UNCHANGED domainVars
  BY <1>8 DEF Advance, EnsureCursor, AdmitNew, AdmitReopened, AdmitReplayed,
     AdmitRefused, Claim, ClaimRefused, Probe, CheckSender, ExecuteConverges,
     ExecuteRefused, Finalize, MarkUnknown, FenceLost, ReportLostFence
<1>9. ASSUME NEW w \in Workers, WorkerFault(w), ~ExecuteFaults(w) PROVE UNCHANGED domainVars
  BY <1>9 DEF WorkerFault, FinalizeFaults, Crash
<1> QED
  BY <1>3, <1>4, <1>5, <1>6, <1>7, <1>8, <1>9 DEF Next, Submit, LeaseExpires

\* However often an operation is retried, its effect is committed at most once.
THEOREM EffectOnce == Spec => []EffectAtMostOnce
<1>1. Init => EffectAtMostOnce
  BY DEF Init, DomainInit, EffectAtMostOnce
<1>2. IInv /\ [Next]_vars /\ EffectAtMostOnce => EffectAtMostOnce'
  BY EffectStep
<1> QED BY <1>1, <1>2, Invariance, PTL DEF Spec

\* Answers already given stay true because decisions are permanent; a new one
\* is read from the receipt of its own request, or written with it.
LEMMA AnswersStep ==
  ASSUME TypeOK, TypeOK', QueueMove, AnswersAreStored
  PROVE  AnswersAreStored'
<1> DEFINE Stored(a) == /\ Finalized(a.request.sequence)
                        /\ receipts[a.request.sequence].request = a.request
                        /\ receipts[a.request.sequence].status = a.outcome
<1>1. ASSUME NEW a \in answers PROVE Stored(a)'
  <2>1. a.request.sequence \in Sequences
    BY SubmissionFacts DEF TypeOK
  <2>2. Stored(a)
    BY DEF AnswersAreStored
  <2>3. receipts'[a.request.sequence] = receipts[a.request.sequence]
    BY <2>1, <2>2, QueueMoveKeeps DEF KeepsDecisions
  <2> QED BY <2>2, <2>3 DEF Finalized
<1>2. ASSUME answers' = answers PROVE AnswersAreStored'
  BY <1>1, <1>2 DEF AnswersAreStored
<1>3. ASSUME NEW q \in Submissions, Retold(q) PROVE AnswersAreStored'
  <2>1. Stored([request |-> q, outcome |-> receipts[q.sequence].status])'
    BY <1>3 DEF Retold, SameRequest, Finalized
  <2> QED BY <1>1, <1>3, <2>1 DEF Retold, Answer, AnswersAreStored
<1>4. ASSUME NEW q \in Submissions, NEW outcome \in FinalStatuses, Decided(q, outcome)
      PROVE  AnswersAreStored'
  <2>1. q.sequence \in Sequences /\ outcome \in ReceiptStatus
    BY SubmissionFacts DEF ReceiptStatus
  <2>2. Stored([request |-> q, outcome |-> outcome])'
    BY <1>4, <2>1, RewriteFacts DEF Decided, SameRequest, Finalized
  <2>3. CASE Answer(q, outcome)
    BY <1>1, <2>2, <2>3 DEF Answer, AnswersAreStored
  <2> QED BY <1>2, <1>4, <2>3 DEF Decided
<1> QED BY <1>2, <1>3, <1>4 DEF QueueMove, Untouched, Received, Reworked

\* The device is told nothing but what its own operation's receipt says.
THEOREM AnswersStored == Spec => []AnswersAreStored
<1>1. Init => AnswersAreStored
  BY DEF Init, AnswersAreStored
<1>2. IInv /\ IInv' /\ [Next]_vars /\ AnswersAreStored => AnswersAreStored'
  BY StepIsQueueMove, AnswersStep DEF IInv
<1> QED BY <1>1, <1>2, Invariance, PTL DEF Spec

---------------------------------------------------------------------------
(* The executor implements the ordered queue it promises.                   *)

\* Deciding a position, as the abstract queue sees it.
LEMMA DecidedRefines ==
  ASSUME TypeOK, DecidedPrefix, NEW q \in Submissions, NEW outcome \in FinalStatuses,
         Decided(q, outcome)
  PROVE  Promise!Decide(q, outcome)
<1> DEFINE s == q.sequence
           result == [request |-> q, outcome |-> outcome]
<1>1. s \in Sequences /\ s = cursor + 1 /\ cursor' = s /\ cursor # NoCursorRow
  BY DecidedIsNext
<1>2. outcome \in ReceiptStatus
  BY DEF ReceiptStatus
<1>3. /\ receipts'[s] # NoReceipt
      /\ receipts'[s].request = q
      /\ receipts'[s].status = outcome
      /\ \A t \in Sequences \ {s} : receipts'[t] = receipts[t]
  BY <1>1, <1>2, RewriteFacts DEF Decided, SameRequest
<1>4. Decision(s)' = result
  BY <1>3 DEF Decision, Finalized
<1>5. \A t \in Sequences \ {s} : Decision(t)' = Decision(t)
  BY <1>3 DEF Decision, Finalized
<1>6. [t \in Sequences |-> Decision(t)]'
        = [[t \in Sequences |-> Decision(t)] EXCEPT ![s] = result]
  BY <1>1, <1>4, <1>5
<1>7. (IF cursor = NoCursorRow THEN 0 ELSE cursor + 1) = s
  BY <1>1
<1>8. (IF cursor = NoCursorRow THEN 0 ELSE cursor + 1)' = s + 1
  BY <1>1 DEF NoCursorRow
<1>9. answers' \in {answers, answers \cup {result}}
  BY DEF Decided, Answer
<1> HIDE DEF Decision
<1> QED BY <1>1, <1>6, <1>7, <1>8, <1>9 DEF Promise!Decide

\* A step that leaves the decided results and the answers alone is a stutter.
LEMMA QuietRefines ==
  ASSUME answers' = answers,
         \A s \in Sequences : Decision(s)' = Decision(s),
         \/ cursor' = cursor
         \/ cursor = NoCursorRow /\ cursor' = NullSequence
  PROVE  UNCHANGED Promise!vars
<1>1. [s \in Sequences |-> Decision(s)]' = [s \in Sequences |-> Decision(s)]
  OBVIOUS
<1>2. (IF cursor = NoCursorRow THEN 0 ELSE cursor + 1)'
        = IF cursor = NoCursorRow THEN 0 ELSE cursor + 1
  BY DEF NoCursorRow, NullSequence
<1> HIDE DEF Decision
<1> QED BY <1>1, <1>2 DEF Promise!vars

\* Every step of the executor decides, tells or stutters.
LEMMA StepRefines ==
  ASSUME TypeOK, DecidedPrefix, QueueMove
  PROVE  [Promise!Next]_(Promise!vars)
<1>1. CASE Untouched
  <2>1. \A s \in Sequences : Decision(s)' = Decision(s)
    BY <1>1 DEF Untouched, Decision, Finalized
  <2> QED BY <1>1, <2>1, QuietRefines DEF Untouched
<1>2. ASSUME NEW s \in Sequences, Received(s) PROVE UNCHANGED Promise!vars
  <2>1. PICK q \in Submissions :
           receipts' = [receipts EXCEPT ![s] =
                          [ request |-> q, status |-> "RECEIVED",
                            attempts |-> 0, leaseExpired |-> FALSE ]]
    BY <1>2 DEF Received
  <2>2. receipts[s] = NoReceipt /\ receipts'[s].status = "RECEIVED"
    BY <1>2, <2>1 DEF Received, TypeOK
  <2>3. \A t \in Sequences \ {s} : receipts'[t] = receipts[t]
    BY <2>1 DEF TypeOK
  <2>4. \A t \in Sequences : Decision(t)' = Decision(t)
    BY <2>2, <2>3 DEF Decision, Finalized
  <2> QED BY <1>2, <2>4, QuietRefines DEF Received
<1>3. ASSUME NEW s \in Sequences, Reworked(s) PROVE UNCHANGED Promise!vars
  <2>1. PICK status \in ReceiptStatus \ FinalStatuses : Rewrites(s, status)
    BY <1>3 DEF Reworked
  <2>2. /\ receipts'[s].status \notin FinalStatuses
        /\ \A t \in Sequences \ {s} : receipts'[t] = receipts[t]
    BY <2>1, RewriteFacts
  <2>3. \A t \in Sequences : Decision(t)' = Decision(t)
    BY <2>1, <2>2 DEF Decision, Finalized, Rewrites
  <2> QED BY <1>3, <2>3, QuietRefines DEF Reworked
<1>4. ASSUME NEW q \in Submissions, Retold(q) PROVE Promise!Next
  <2> DEFINE s == q.sequence
  <2>1. s \in Sequences
    BY SubmissionFacts
  <2>2. Decision(s) = [request |-> q, outcome |-> receipts[s].status]
    BY <1>4 DEF Retold, SameRequest, Decision
  <2>3. Decision(s) \in Result
    BY <1>4, <2>2 DEF Retold, Finalized
  <2>4. \A t \in Sequences : Decision(t)' = Decision(t)
    BY <1>4 DEF Retold, Decision, Finalized
  <2>5. answers' = answers \cup {Decision(s)}
    BY <1>4, <2>2 DEF Retold, Answer
  <2>6. cursor' = cursor
    BY <1>4 DEF Retold
  <2> HIDE DEF Decision
  <2>7. Promise!Tell(s)
    BY <2>1, <2>3, <2>4, <2>5, <2>6, SentinelAssumption DEF Promise!Tell
  <2> QED BY <2>1, <2>7 DEF Promise!Next
<1>5. ASSUME NEW q \in Submissions, NEW outcome \in FinalStatuses, Decided(q, outcome)
      PROVE  Promise!Next
  BY <1>5, DecidedRefines DEF Promise!Next, Promise!Outcomes
<1> QED BY <1>1, <1>2, <1>3, <1>4, <1>5 DEF QueueMove

\* The replay executor, with its receipts, claims, fences and workers, does
\* nothing the ordered queue does not allow.
THEOREM Refinement == Spec => ImplementsPromise
<1>1. Init => Promise!Init
  BY DEF Init, Promise!Init, Decision, Finalized
<1>2. IInv /\ [Next]_vars => [Promise!Next]_(Promise!vars)
  BY StepIsQueueMove, StepRefines DEF IInv
<1> QED BY <1>1, <1>2, Invariance, PTL DEF Spec, ImplementsPromise, Promise!Spec

---------------------------------------------------------------------------
(* While no worker outlives its lease.                                      *)

\* One operation id has one receipt.
IdsAreUnique ==
  \A s, t \in Sequences :
    /\ receipts[s] # NoReceipt /\ receipts[t] # NoReceipt
    /\ receipts[s].request.id = receipts[t].request.id
    => s = t

\* Evidence is written by an attempt, and a transition's only for an assignee.
EvidenceHasAttempt ==
  \A k \in EvidenceRows : commits[k] > 0 =>
    /\ \E s \in Sequences : /\ receipts[s] # NoReceipt
                            /\ EvidenceRow(receipts[s].request) = k
                            /\ receipts[s].attempts > 0
    /\ k.kind \in TransitionKinds => k.target \in Assigned

\* An attempt owns its receipt until it ends, unless it is the one that
\* decided it and lost the answer.
Leased(w) ==
  pc[w] \in Processing =>
    /\ generation[w] > 0
    /\ \/ Holds(w) /\ ~receipts[Position(w)].leaseExpired
       \/ pc[w] = "markUnknown" /\ Finalized(Position(w))

\* About to enter the domain, or to record a refusal: no effect is there yet.
Untried(w) == \/ pc[w] \in {"execute", "commit"}
              \/ pc[w] = "finalize" /\ verdict[w] = "REJECTED"

Truthful(w) == Untried(w) => ~Committed(request[w])

\* No position has two attempts.
OneAttempt ==
  \A v, w \in Workers :
    pc[v] \in Processing /\ pc[w] \in Processing /\ Position(v) = Position(w) => v = w

LeaseInv ==
  /\ ~StallsPossible
  /\ IInv
  /\ IdsAreUnique
  /\ EvidenceHasAttempt
  /\ \A w \in Workers : Leased(w) /\ Truthful(w)
  /\ OneAttempt
  /\ RejectedLeavesNoEffect

\* What a worker between its claim and its end serves.
LEMMA Served ==
  ASSUME LeaseInv, NEW w \in Workers, pc[w] \in Processing
  PROVE  /\ request[w] \in Submissions
         /\ Position(w) \in Sequences
         /\ receipts[Position(w)] # NoReceipt
         /\ receipts[Position(w)] \in Receipt
         /\ receipts[Position(w)].request = request[w]
<1>1. TypeOK /\ Safe(w)
  BY DEF LeaseInv, IInv, AdmittedHaveReceipts
<1>2. request[w] \in Submissions /\ Position(w) \in Sequences
  BY <1>1, ServedRequest DEF Processing
<1>3. SameRequest(request[w])
  BY <1>1 DEF Safe, Admitted
<1> QED BY <1>1, <1>2, <1>3 DEF SameRequest, Position, TypeOK

\* Two receipts never answer for one row of evidence.
LEMMA RowsApart ==
  ASSUME IdsAreUnique, NEW s \in Sequences, NEW t \in Sequences,
         receipts[s] # NoReceipt, receipts[t] # NoReceipt,
         EvidenceRow(receipts[s].request) = EvidenceRow(receipts[t].request)
  PROVE  s = t
<1>1. receipts[s].request.id = receipts[t].request.id
  BY DEF EvidenceRow
<1> QED BY <1>1 DEF IdsAreUnique

---------------------------------------------------------------------------
(* What one step does to the workers, their receipts and the evidence.      *)

Keeps(v) == /\ pc'[v] = pc[v] /\ request'[v] = request[v]
            /\ generation'[v] = generation[v] /\ verdict'[v] = verdict[v]

OthersKeep(w) == \A v \in Workers \ {w} : Keeps(v)

\* The worker goes on with the request and the claim it has.
Proceeds(w) == /\ pc'[w] \in Processing
               /\ request'[w] = request[w] /\ generation'[w] = generation[w]

\* The worker is not, or no longer, an attempt.
Leaves(w) == pc'[w] \notin Processing

Idles(w) == /\ OthersKeep(w) /\ Leaves(w)
            /\ receipts' = receipts /\ commits' = commits

Thinks(w) == /\ pc[w] \in Processing \ {"markUnknown"}
             /\ OthersKeep(w) /\ Proceeds(w)
             /\ receipts' = receipts /\ commits' = commits

Effects(w) == /\ pc[w] \in {"execute", "commit"}
              /\ OthersKeep(w) /\ Proceeds(w) /\ receipts' = receipts
              /\ pc'[w] = "finalize" => verdict'[w] = "APPLIED"
              /\ pc'[w] \notin {"execute", "commit"}
              /\ MayCommit(request[w]) /\ CommitEffect(request[w])

Creating(w) == AdmitNew(w) /\ OthersKeep(w) /\ Leaves(w) /\ commits' = commits

Claiming(w) == /\ Claim(w) /\ OthersKeep(w)
               /\ pc'[w] \in {"probe", "execute"}
               /\ request'[w] = request[w]
               /\ generation'[w] = receipts[Position(w)].attempts + 1
               /\ commits' = commits

Recording(w) == /\ pc[w] = "finalize" /\ RecordOutcome(w)
                /\ OthersKeep(w)
                /\ Leaves(w) \/ (Proceeds(w) /\ pc'[w] = "markUnknown")
                /\ commits' = commits

Marking(w) == /\ MarkUnknown(w) /\ OthersKeep(w) /\ Leaves(w)
              /\ commits' = commits

Expiring(s) == /\ LeaseExpires(s) /\ \A v \in Workers : Keeps(v)
               /\ commits' = commits

Still == /\ \A v \in Workers : Keeps(v)
         /\ receipts' = receipts /\ commits' = commits

LeaseMove ==
  \/ \E w \in Workers :
       \/ Idles(w) \/ (Thinks(w) /\ Truthful(w)') \/ Effects(w) \/ Creating(w)
       \/ Claiming(w) \/ Recording(w) \/ Marking(w)
  \/ \E s \in Sequences : Expiring(s)
  \/ Still

\* Ending a request concerns the worker that served it.
LEMMA FinishKeeps ==
  ASSUME TypeOK, NEW w \in Workers, Finish(w)
  PROVE  OthersKeep(w) /\ Leaves(w)
  BY DEF TypeOK, Finish, OthersKeep, Keeps, Leaves, Processing

\* So does concluding the domain call.
LEMMA ConcludeKeeps ==
  ASSUME TypeOK, NEW w \in Workers, NEW outcome, Conclude(w, outcome)
  PROVE  /\ OthersKeep(w) /\ Proceeds(w) /\ receipts' = receipts
         /\ pc'[w] = "finalize" /\ verdict'[w] = outcome
  BY DEF TypeOK, Conclude, Go, OthersKeep, Keeps, Proceeds, Processing

\* A refused call left nothing behind: the domain looked for the evidence, or
\* the attempt did before it started.
LEMMA RefusedIsUntried ==
  ASSUME LeaseInv, NEW w \in Workers, DomainRefuses(w)
  PROVE  ~Committed(request[w])
<1>1. pc[w] \in {"execute", "commit"}
  BY DEF DomainRefuses, InDomain
<1>2. Truthful(w)
  BY DEF LeaseInv
<1> QED BY <1>1, <1>2 DEF Truthful, Untried

\* Every step is one of these.
LEMMA StepIsLeaseMove == LeaseInv /\ [Next]_vars => LeaseMove
<1> SUFFICES ASSUME LeaseInv, [Next]_vars PROVE LeaseMove
  OBVIOUS
<1>0. TypeOK /\ \A w \in Workers : Truthful(w)
  BY DEF LeaseInv, IInv
<1>1. ASSUME NEW w \in Workers, NEW q \in Submissions, Submit(w, q) PROVE Idles(w)
  BY <1>0, <1>1 DEF Submit, Go, TypeOK, Idles, OthersKeep, Keeps, Leaves, Processing, domainVars
<1>2. ASSUME NEW w \in Workers, EnsureCursor(w) \/ AdmitReopened(w) \/ FenceLost(w)
      PROVE  Idles(w)
  BY <1>0, <1>2 DEF EnsureCursor, AdmitReopened, FenceLost, Go, TypeOK, Idles,
     OthersKeep, Keeps, Leaves, Processing, domainVars
<1>3. ASSUME NEW w \in Workers,
             \/ AdmitReplayed(w) \/ AdmitRefused(w) \/ ClaimRefused(w)
             \/ ReportLostFence(w) \/ Crash(w)
      PROVE  Idles(w)
  <2>1. Finish(w) /\ receipts' = receipts /\ commits' = commits
    BY <1>3 DEF AdmitReplayed, AdmitRefused, ClaimRefused, ReportLostFence, Crash, domainVars
  <2> QED BY <1>0, <2>1, FinishKeeps DEF Idles
<1>4. ASSUME NEW w \in Workers, AdmitNew(w) PROVE Creating(w)
  BY <1>0, <1>4 DEF AdmitNew, Go, TypeOK, Creating, OthersKeep, Keeps, Leaves,
     Processing, domainVars
<1>5. ASSUME NEW w \in Workers, Claim(w) PROVE Claiming(w)
  <2> DEFINE g == receipts[Position(w)].attempts + 1
  <2>1. /\ pc' = [pc EXCEPT ![w] = IF g > 1 THEN "probe" ELSE "execute"]
        /\ generation' = [generation EXCEPT ![w] = g]
        /\ request' = request /\ verdict' = verdict /\ commits' = commits
    BY <1>5 DEF Claim, Go, domainVars
  <2> HIDE DEF g
  <2>2. OthersKeep(w) /\ pc'[w] \in {"probe", "execute"} /\ generation'[w] = g
    BY <1>0, <2>1 DEF TypeOK, OthersKeep, Keeps
  <2> QED BY <1>5, <2>1, <2>2 DEF Claiming, g
<1>6. ASSUME NEW w \in Workers, Probe(w) PROVE Thinks(w) /\ Truthful(w)'
  <2>1. Thinks(w)
    BY <1>0, <1>6 DEF Probe, Go, TypeOK, Thinks, OthersKeep, Keeps, Proceeds,
       Processing, domainVars
  <2>2. Truthful(w)'
    <3>1. CASE Committed(request[w])
      BY <1>0, <1>6, <3>1 DEF Probe, Go, TypeOK, Truthful, Untried
    <3>2. CASE ~Committed(request[w])
      BY <1>6, <3>2 DEF Probe, Truthful, Committed, domainVars
    <3> QED BY <3>1, <3>2
  <2> QED BY <2>1, <2>2
<1>7. ASSUME NEW w \in Workers, CheckSender(w) PROVE Thinks(w) /\ Truthful(w)'
  <2>1. Thinks(w)
    BY <1>0, <1>7 DEF CheckSender, Go, TypeOK, Thinks, OthersKeep, Keeps, Proceeds,
       Processing, domainVars
  <2>2. ~Committed(request[w])
    BY <1>0, <1>7 DEF CheckSender, Truthful, Untried
  <2>3. Truthful(w)'
    BY <1>7, <2>2 DEF CheckSender, Truthful, Committed, domainVars
  <2> QED BY <2>1, <2>3
<1>8. ASSUME NEW w \in Workers, ExecuteCommits(w) PROVE Effects(w)
  BY <1>0, <1>8, ConcludeKeeps DEF ExecuteCommits, InDomain, Effects
<1>9. ASSUME NEW w \in Workers, ExecuteConverges(w) PROVE Thinks(w) /\ Truthful(w)'
  <2>1. Thinks(w)
    BY <1>0, <1>9, ConcludeKeeps DEF ExecuteConverges, InDomain, Thinks, Processing, domainVars
  <2>2. Truthful(w)'
    BY <1>0, <1>9, ConcludeKeeps DEF ExecuteConverges, Truthful, Untried
  <2> QED BY <2>1, <2>2
<1>10. ASSUME NEW w \in Workers, ExecuteRefused(w) PROVE Thinks(w) /\ Truthful(w)'
  <2>1. pc[w] \in {"execute", "commit"}
    BY <1>10 DEF ExecuteRefused, DomainRefuses, InDomain
  <2>2. Thinks(w)
    BY <1>0, <1>10, <2>1, ConcludeKeeps DEF ExecuteRefused, Thinks, Processing, domainVars
  <2>3. ~Committed(request[w])
    BY <1>10, RefusedIsUntried DEF ExecuteRefused
  <2>4. Truthful(w)'
    BY <1>10, <2>2, <2>3 DEF ExecuteRefused, Thinks, Proceeds, Truthful, Committed
  <2> QED BY <2>2, <2>4
<1>11. ASSUME NEW w \in Workers, ExecuteFaults(w)
       PROVE  Effects(w) \/ (Thinks(w) /\ Truthful(w)')
  <2>1. /\ pc[w] \in {"execute", "commit"} /\ pc'[w] = "markUnknown"
        /\ OthersKeep(w) /\ Proceeds(w) /\ receipts' = receipts
    BY <1>0, <1>11 DEF ExecuteFaults, Go, TypeOK, OthersKeep, Keeps, Proceeds, Processing
  <2>2. Truthful(w)'
    BY <2>1 DEF Truthful, Untried
  <2>3. CASE UNCHANGED domainVars
    BY <2>1, <2>2, <2>3 DEF Thinks, Processing, domainVars
  <2>4. CASE MayCommit(request[w]) /\ CommitEffect(request[w])
    BY <2>1, <2>4 DEF Effects
  <2> QED BY <1>11, <2>3, <2>4 DEF ExecuteFaults
<1>12. ASSUME NEW w \in Workers, Finalize(w) PROVE Recording(w)
  BY <1>0, <1>12, FinishKeeps DEF Finalize, Recording, domainVars
<1>13. ASSUME NEW w \in Workers, FinalizeFaults(w)
       PROVE  Recording(w) \/ (Thinks(w) /\ Truthful(w)')
  <2>1. /\ pc[w] = "finalize" /\ pc'[w] = "markUnknown"
        /\ OthersKeep(w) /\ Proceeds(w) /\ commits' = commits
    BY <1>0, <1>13 DEF FinalizeFaults, Go, TypeOK, OthersKeep, Keeps, Proceeds,
       Processing, domainVars
  <2>2. Truthful(w)'
    BY <2>1 DEF Truthful, Untried
  <2>3. CASE RecordOutcome(w)
    BY <2>1, <2>3 DEF Recording
  <2>4. CASE receipts' = receipts
    BY <2>1, <2>2, <2>4 DEF Thinks, Processing
  <2> QED BY <1>13, <2>3, <2>4 DEF FinalizeFaults
<1>14. ASSUME NEW w \in Workers, MarkUnknown(w) PROVE Marking(w)
  BY <1>0, <1>14, FinishKeeps DEF MarkUnknown, Marking, domainVars
<1>15. ASSUME NEW s \in Sequences, LeaseExpires(s) PROVE Expiring(s)
  BY <1>15 DEF LeaseExpires, Expiring, Keeps, workerVars, domainVars
<1>16. CASE OtherActor
  <2>1. commits' = commits
    BY <1>0, <1>16, DomainStepFacts DEF OtherActor, TypeOK
  <2>2. Still
    BY <1>16, <2>1 DEF OtherActor, Still, Keeps, workerVars
  <2> QED BY <2>2 DEF LeaseMove
<1>17. CASE UNCHANGED vars
  <2>1. Still
    BY <1>17 DEF vars, workerVars, domainVars, Still, Keeps
  <2> QED BY <2>1 DEF LeaseMove
<1>18. ASSUME NEW w \in Workers, Advance(w) \/ WorkerFault(w) PROVE LeaseMove
  BY <1>2, <1>3, <1>4, <1>5, <1>6, <1>7, <1>8, <1>9, <1>10, <1>11, <1>12, <1>13,
     <1>14, <1>18 DEF Advance, WorkerFault, LeaseMove
<1>19. ASSUME NEW w \in Workers, NEW q \in Submissions, Submit(w, q) PROVE LeaseMove
  BY <1>1, <1>19 DEF LeaseMove
<1>20. ASSUME NEW s \in Sequences, LeaseExpires(s) PROVE LeaseMove
  BY <1>15, <1>20 DEF LeaseMove
<1> QED BY <1>16, <1>17, <1>18, <1>19, <1>20 DEF Next

---------------------------------------------------------------------------
(* What the steps that write a receipt write.                               *)

Writes(s, status, n, b) ==
  /\ receipts'[s] # NoReceipt
  /\ receipts'[s].request = receipts[s].request
  /\ receipts'[s].status = status
  /\ receipts'[s].attempts = n
  /\ receipts'[s].leaseExpired = b
  /\ \A t \in Sequences \ {s} : receipts'[t] = receipts[t]

LEMMA RewrittenWrites ==
  ASSUME TypeOK, NEW s \in Sequences, receipts[s] # NoReceipt,
         NEW status \in ReceiptStatus, NEW n \in Nat, NEW b \in BOOLEAN,
         receipts' = Rewritten(s, status, n, b)
  PROVE  Writes(s, status, n, b)
<1> DEFINE new == [ request |-> receipts[s].request, status |-> status,
                    attempts |-> n, leaseExpired |-> b ]
<1>1. receipts[s] \in Receipt
  BY ReceiptUpdate
<1>2. new \in Receipt
  BY <1>1 DEF Receipt
<1>3. new # NoReceipt
  BY <1>2, SentinelAssumption
<1>4. /\ new.request = receipts[s].request /\ new.status = status
      /\ new.attempts = n /\ new.leaseExpired = b
  OBVIOUS
<1>5. receipts' = [receipts EXCEPT ![s] = new]
  BY DEF Rewritten
<1> HIDE DEF new
<1>6. receipts'[s] = new /\ \A t \in Sequences \ {s} : receipts'[t] = receipts[t]
  BY <1>5 DEF TypeOK
<1> QED BY <1>3, <1>4, <1>6 DEF Writes

LEMMA ClaimWrites ==
  ASSUME LeaseInv, NEW w \in Workers, Claim(w)
  PROVE  /\ request[w] \in Submissions /\ Position(w) \in Sequences
         /\ receipts[Position(w)] # NoReceipt
         /\ receipts[Position(w)].request = request[w]
         /\ receipts[Position(w)].attempts \in Nat
         /\ Writes(Position(w), "APPLYING", receipts[Position(w)].attempts + 1, FALSE)
<1>1. TypeOK /\ Safe(w)
  BY DEF LeaseInv, IInv, AdmittedHaveReceipts
<1>2. request[w] \in Submissions /\ Position(w) \in Sequences
  BY <1>1, ServedRequest DEF Claim
<1>3. receipts[Position(w)] # NoReceipt /\ receipts[Position(w)].request = request[w]
  BY <1>1 DEF Claim, Safe, Admitted, SameRequest, Position
<1>4. receipts[Position(w)].attempts \in Nat
  BY <1>1, <1>2, <1>3, ReceiptUpdate DEF Receipt
<1>5. receipts' = Rewritten(Position(w), "APPLYING", receipts[Position(w)].attempts + 1, FALSE)
  BY DEF Claim
<1>6. "APPLYING" \in ReceiptStatus /\ receipts[Position(w)].attempts + 1 \in Nat
  BY <1>4 DEF ReceiptStatus
<1>7. Writes(Position(w), "APPLYING", receipts[Position(w)].attempts + 1, FALSE)
  BY <1>1, <1>2, <1>3, <1>5, <1>6, RewrittenWrites
<1> QED BY <1>2, <1>3, <1>4, <1>7

LEMMA StatusWrites ==
  ASSUME LeaseInv, NEW w \in Workers, pc[w] \in Processing,
         NEW status \in ReceiptStatus, SetStatus(Position(w), status)
  PROVE  Writes(Position(w), status, receipts[Position(w)].attempts,
                receipts[Position(w)].leaseExpired)
<1>1. TypeOK
  BY DEF LeaseInv, IInv
<1>2. /\ Position(w) \in Sequences /\ receipts[Position(w)] # NoReceipt
      /\ receipts[Position(w)] \in Receipt
  BY Served
<1>3. receipts[Position(w)].attempts \in Nat /\ receipts[Position(w)].leaseExpired \in BOOLEAN
  BY <1>2 DEF Receipt
<1>4. receipts' = Rewritten(Position(w), status, receipts[Position(w)].attempts,
                            receipts[Position(w)].leaseExpired)
  BY DEF SetStatus
<1> QED BY <1>1, <1>2, <1>3, <1>4, RewrittenWrites

LEMMA RecordWrites ==
  ASSUME LeaseInv, NEW w \in Workers, Recording(w)
  PROVE  /\ verdict[w] \in FinalStatuses
         /\ Writes(Position(w), verdict[w], receipts[Position(w)].attempts,
                   receipts[Position(w)].leaseExpired)
<1>1. pc[w] \in Processing /\ SetStatus(Position(w), verdict[w])
  BY DEF Recording, RecordOutcome, Processing
<1>2. verdict[w] \in FinalStatuses
  BY DEF Recording, LeaseInv, IInv, AdmittedHaveReceipts, Safe
<1>3. verdict[w] \in ReceiptStatus
  BY <1>2 DEF ReceiptStatus
<1> QED BY <1>1, <1>2, <1>3, StatusWrites

LEMMA MarkWrites ==
  ASSUME LeaseInv, NEW w \in Workers, MarkUnknown(w)
  PROVE  Writes(Position(w), "UNKNOWN", receipts[Position(w)].attempts,
                receipts[Position(w)].leaseExpired)
<1>1. pc[w] \in Processing /\ SetStatus(Position(w), "UNKNOWN")
  BY DEF MarkUnknown, Processing
<1>2. "UNKNOWN" \in ReceiptStatus
  BY DEF ReceiptStatus
<1> QED BY <1>1, <1>2, StatusWrites

LEMMA ExpireWrites ==
  ASSUME LeaseInv, NEW s \in Sequences, LeaseExpires(s)
  PROVE  Writes(s, "APPLYING", receipts[s].attempts, TRUE)
<1>1. TypeOK
  BY DEF LeaseInv, IInv
<1>2. receipts[s] # NoReceipt
  BY DEF LeaseExpires
<1>3. receipts[s].attempts \in Nat
  BY <1>1, <1>2, ReceiptUpdate DEF Receipt
<1>4. "APPLYING" \in ReceiptStatus
  BY DEF ReceiptStatus
<1> QED BY <1>1, <1>2, <1>3, <1>4, RewrittenWrites DEF LeaseExpires

LEMMA CreateWrites ==
  ASSUME LeaseInv, NEW w \in Workers, AdmitNew(w)
  PROVE  /\ request[w] \in Submissions /\ Position(w) \in Sequences
         /\ receipts[Position(w)] = NoReceipt
         /\ receipts'[Position(w)].request = request[w]
         /\ receipts'[Position(w)].status = "RECEIVED"
         /\ \A t \in Sequences \ {Position(w)} :
              /\ receipts'[t] = receipts[t]
              /\ receipts[t] # NoReceipt => receipts[t].request.id # request[w].id
<1> DEFINE new == [ request |-> request[w], status |-> "RECEIVED",
                    attempts |-> 0, leaseExpired |-> FALSE ]
<1>1. TypeOK
  BY DEF LeaseInv, IInv
<1>2. request[w] \in Submissions /\ Position(w) \in Sequences
  BY <1>1, ServedRequest DEF AdmitNew
<1>3. receipts[Position(w)] = NoReceipt
  BY DEF AdmitNew, Creates, Position
<1>4. \A t \in Sequences \ {Position(w)} :
        receipts[t] # NoReceipt => receipts[t].request.id # request[w].id
  BY DEF AdmitNew, Creates, IdReused, Position
<1>5. new.request = request[w] /\ new.status = "RECEIVED"
  OBVIOUS
<1>6. receipts' = [receipts EXCEPT ![Position(w)] = new]
  BY DEF AdmitNew
<1> HIDE DEF new
<1>7. /\ receipts'[Position(w)] = new
      /\ \A t \in Sequences \ {Position(w)} : receipts'[t] = receipts[t]
  BY <1>1, <1>2, <1>6 DEF TypeOK
<1> QED BY <1>2, <1>3, <1>4, <1>5, <1>7

\* A receipt that exists goes on standing for its request, and its attempts
\* are only ever counted up.
Stands(s) == /\ receipts'[s] # NoReceipt
             /\ receipts'[s].request = receipts[s].request
             /\ receipts'[s].attempts >= receipts[s].attempts

LEMMA ReceiptsStand ==
  ASSUME LeaseInv, LeaseMove, NEW s \in Sequences, receipts[s] # NoReceipt
  PROVE  Stands(s)
<1>1. receipts[s].attempts \in Nat
  BY ReceiptUpdate DEF LeaseInv, IInv, Receipt
<1>2. ASSUME receipts'[s] = receipts[s] PROVE Stands(s)
  BY <1>1, <1>2 DEF Stands
<1>3. ASSUME NEW t \in Sequences, NEW status, NEW n \in Nat, NEW b, Writes(t, status, n, b),
             n >= receipts[t].attempts
      PROVE  Stands(s)
  <2>1. CASE s = t
    BY <1>3, <2>1 DEF Writes, Stands
  <2>2. CASE s # t
    BY <1>2, <1>3, <2>2 DEF Writes
  <2> QED BY <2>1, <2>2
<1>4. ASSUME NEW w \in Workers, Creating(w) PROVE Stands(s)
  BY <1>2, <1>4, CreateWrites DEF Creating
<1>5. ASSUME NEW w \in Workers, Claiming(w) PROVE Stands(s)
  <2>1. Claim(w)
    BY <1>5 DEF Claiming
  <2>2. /\ Position(w) \in Sequences /\ receipts[Position(w)].attempts \in Nat
        /\ Writes(Position(w), "APPLYING", receipts[Position(w)].attempts + 1, FALSE)
    BY <2>1, ClaimWrites
  <2>3. /\ receipts[Position(w)].attempts + 1 \in Nat
        /\ receipts[Position(w)].attempts + 1 >= receipts[Position(w)].attempts
    BY <2>2
  <2> QED BY <1>3, <2>2, <2>3
<1>6. ASSUME NEW w \in Workers, pc[w] \in Processing
      PROVE  /\ Position(w) \in Sequences /\ receipts[Position(w)].attempts \in Nat
             /\ receipts[Position(w)].attempts >= receipts[Position(w)].attempts
  BY <1>6, Served DEF Receipt
<1>7. ASSUME NEW w \in Workers, Recording(w) PROVE Stands(s)
  <2>1. pc[w] \in Processing
    BY <1>7 DEF Recording, Processing
  <2> QED BY <1>3, <1>6, <1>7, <2>1, RecordWrites
<1>8. ASSUME NEW w \in Workers, Marking(w) PROVE Stands(s)
  <2>1. pc[w] \in Processing /\ MarkUnknown(w)
    BY <1>8 DEF Marking, MarkUnknown, Processing
  <2> QED BY <1>3, <1>6, <2>1, MarkWrites
<1>9. ASSUME NEW t \in Sequences, Expiring(t) PROVE Stands(s)
  <2>1. LeaseExpires(t) /\ receipts[t] # NoReceipt
    BY <1>9 DEF Expiring, LeaseExpires
  <2>2. receipts[t].attempts \in Nat /\ receipts[t].attempts >= receipts[t].attempts
    BY <2>1, ReceiptUpdate DEF LeaseInv, IInv, Receipt
  <2> QED BY <1>3, <2>1, <2>2, ExpireWrites
<1> QED BY <1>2, <1>4, <1>5, <1>7, <1>8, <1>9
   DEF LeaseMove, Idles, Thinks, Effects, Still

\* Only an admission makes a receipt.
LEMMA OnlyAdmissionCreates ==
  ASSUME LeaseInv, LeaseMove, \A w \in Workers : ~Creating(w),
         NEW s \in Sequences, receipts[s] = NoReceipt
  PROVE  receipts'[s] = NoReceipt
<1>1. ASSUME NEW t \in Sequences, receipts[t] # NoReceipt,
             NEW status, NEW n, NEW b, Writes(t, status, n, b)
      PROVE  receipts'[s] = NoReceipt
  BY <1>1 DEF Writes
<1>2. ASSUME NEW w \in Workers, pc[w] \in Processing
      PROVE  Position(w) \in Sequences /\ receipts[Position(w)] # NoReceipt
  BY <1>2, Served
<1>3. ASSUME NEW w \in Workers, Claiming(w) PROVE receipts'[s] = NoReceipt
  BY <1>1, <1>3, ClaimWrites DEF Claiming
<1>4. ASSUME NEW w \in Workers, Recording(w) PROVE receipts'[s] = NoReceipt
  <2>1. pc[w] \in Processing
    BY <1>4 DEF Recording, Processing
  <2> QED BY <1>1, <1>2, <1>4, <2>1, RecordWrites
<1>5. ASSUME NEW w \in Workers, Marking(w) PROVE receipts'[s] = NoReceipt
  <2>1. pc[w] \in Processing /\ MarkUnknown(w)
    BY <1>5 DEF Marking, MarkUnknown, Processing
  <2> QED BY <1>1, <1>2, <2>1, MarkWrites
<1>6. ASSUME NEW t \in Sequences, Expiring(t) PROVE receipts'[s] = NoReceipt
  <2>1. LeaseExpires(t) /\ receipts[t] # NoReceipt
    BY <1>6 DEF Expiring, LeaseExpires
  <2> QED BY <1>1, <2>1, ExpireWrites
<1> QED BY <1>3, <1>4, <1>5, <1>6 DEF LeaseMove, Idles, Thinks, Effects, Still

LEMMA IdsStep == ASSUME LeaseInv, LeaseMove PROVE IdsAreUnique'
<1>0. IdsAreUnique
  BY DEF LeaseInv
<1>1. ASSUME NEW w \in Workers, Creating(w) PROVE IdsAreUnique'
  <2> DEFINE p == Position(w)
  <2>1. /\ p \in Sequences /\ receipts'[p].request = request[w]
        /\ \A t \in Sequences \ {p} :
             /\ receipts'[t] = receipts[t]
             /\ receipts[t] # NoReceipt => receipts[t].request.id # request[w].id
    BY <1>1, CreateWrites DEF Creating
  <2> HIDE DEF p
  <2>2. SUFFICES ASSUME NEW s \in Sequences, NEW t \in Sequences,
                        receipts'[s] # NoReceipt, receipts'[t] # NoReceipt,
                        receipts'[s].request.id = receipts'[t].request.id
                 PROVE  s = t
    BY DEF IdsAreUnique
  <2>3. CASE s # p /\ t # p
    BY <1>0, <2>1, <2>2, <2>3 DEF IdsAreUnique
  <2>4. CASE s = p
    BY <2>1, <2>2, <2>4
  <2>5. CASE t = p
    BY <2>1, <2>2, <2>5
  <2> QED BY <2>3, <2>4, <2>5
<1>2. CASE \A w \in Workers : ~Creating(w)
  <2>1. \A s \in Sequences : receipts'[s] # NoReceipt =>
          receipts[s] # NoReceipt /\ receipts'[s].request = receipts[s].request
    BY <1>2, OnlyAdmissionCreates, ReceiptsStand DEF Stands
  <2> QED BY <1>0, <2>1 DEF IdsAreUnique
<1> QED BY <1>1, <1>2

\* What an attempt that enters the domain holds.
LEMMA EffectFacts ==
  ASSUME LeaseInv, NEW w \in Workers, Effects(w)
  PROVE  /\ pc[w] \in Processing
         /\ request[w] \in Submissions /\ Position(w) \in Sequences
         /\ receipts[Position(w)] # NoReceipt
         /\ receipts[Position(w)].request = request[w]
         /\ receipts[Position(w)].attempts > 0
         /\ receipts[Position(w)].status = "APPLYING"
         /\ commits' = [commits EXCEPT ![EvidenceRow(request[w])] = 1]
         /\ commits \in [EvidenceRows -> Nat]
<1>1. pc[w] \in Processing /\ pc[w] # "markUnknown"
  BY DEF Effects, Processing
<1>2. generation[w] > 0 /\ Holds(w)
  BY <1>1 DEF LeaseInv, Leased
<1>3. DomainTypeOK
  BY DEF LeaseInv, IInv, TypeOK
<1>4. request[w] \in Submissions
  BY <1>1, Served
<1>5. commits' = [commits EXCEPT ![EvidenceRow(request[w])] = 1]
  BY <1>3, <1>4, CommitEffectFacts DEF Effects
<1> QED BY <1>1, <1>2, <1>3, <1>5, Served DEF Holds, DomainTypeOK

\* The evidence of a row that the step does not write stays as it was.
LEMMA CommitsStep ==
  ASSUME LeaseInv, LeaseMove
  PROVE  \/ commits' = commits
         \/ \E w \in Workers : Effects(w)
  BY DEF LeaseMove, Idles, Thinks, Creating, Claiming, Recording, Marking, Expiring, Still

LEMMA EvidenceStep ==
  ASSUME LeaseInv, LeaseMove, TypeOK'
  PROVE  EvidenceHasAttempt'
<1> DEFINE Tried(k) == \E s \in Sequences : /\ receipts[s] # NoReceipt
                                            /\ EvidenceRow(receipts[s].request) = k
                                            /\ receipts[s].attempts > 0
           Due(k) == k.kind \in TransitionKinds => k.target \in Assigned
<1>0. EvidenceHasAttempt /\ TypeOK
  BY DEF LeaseInv, IInv
<1>1. ASSUME NEW k \in EvidenceRows, Tried(k) PROVE Tried(k)'
  <2>1. PICK s \in Sequences : /\ receipts[s] # NoReceipt
                               /\ EvidenceRow(receipts[s].request) = k
                               /\ receipts[s].attempts > 0
    BY <1>1
  <2>2. Stands(s)
    BY <2>1, ReceiptsStand
  <2>3. receipts[s].attempts \in Nat
    BY <1>0, <2>1, ReceiptUpdate DEF Receipt
  <2>4. receipts'[s] \in Receipt
    BY <2>2 DEF Stands, TypeOK
  <2> QED BY <2>1, <2>2, <2>3, <2>4 DEF Stands, Receipt
<1>2. CASE commits' = commits
  BY <1>0, <1>1, <1>2 DEF EvidenceHasAttempt
<1>3. ASSUME NEW w \in Workers, Effects(w) PROVE EvidenceHasAttempt'
  <2> DEFINE r == EvidenceRow(request[w])
  <2>1. /\ Position(w) \in Sequences /\ receipts[Position(w)] # NoReceipt
        /\ receipts[Position(w)].request = request[w]
        /\ receipts[Position(w)].attempts > 0
        /\ commits' = [commits EXCEPT ![r] = 1]
        /\ commits \in [EvidenceRows -> Nat]
        /\ request[w] \in Submissions
    BY <1>3, EffectFacts
  <2>2. Tried(r)
    BY <2>1
  <2>3. r.kind = request[w].kind /\ r.target = request[w].target
    BY DEF EvidenceRow
  <2>4. Due(r)
    <3>1. request[w].kind \in TransitionKinds => request[w].target \in Assigned
      BY <1>3 DEF Effects, MayCommit, TransitionKinds
    <3> QED BY <2>3, <3>1
  <2>5. ASSUME NEW k \in EvidenceRows, commits'[k] > 0 PROVE Tried(k)' /\ Due(k)
    <3>1. CASE k = r
      BY <1>1, <2>2, <2>4, <2>5, <3>1
    <3>2. CASE k # r
      <4>1. commits[k] > 0
        BY <2>1, <2>5, <3>2
      <4> QED BY <1>0, <1>1, <4>1 DEF EvidenceHasAttempt
    <3> QED BY <3>1, <3>2
  <2> QED BY <2>5 DEF EvidenceHasAttempt
<1> QED BY <1>2, <1>3, CommitsStep

\* The receipt of an attempt is written by that attempt alone.
LEMMA ReceiptIsItsOwn ==
  ASSUME LeaseInv, LeaseMove, NEW v \in Workers, pc[v] \in Processing, Keeps(v),
         ~Recording(v), ~Marking(v), ~Claiming(v)
  PROVE  receipts'[Position(v)] = receipts[Position(v)]
<1> DEFINE p == Position(v)
<1>1. p \in Sequences /\ receipts[p] # NoReceipt
  BY Served
<1>2. \/ Holds(v) /\ ~receipts[p].leaseExpired
      \/ Finalized(p)
  BY DEF LeaseInv, Leased
<1>3. \A w \in Workers : pc[w] \in Processing /\ Position(w) = p => w = v
  BY DEF LeaseInv, OneAttempt
<1> HIDE DEF p
<1>4. ASSUME NEW s \in Sequences, s # p, NEW status, NEW n, NEW b, Writes(s, status, n, b)
      PROVE  receipts'[p] = receipts[p]
  BY <1>1, <1>4 DEF Writes
<1>5. ASSUME NEW w \in Workers, Creating(w) PROVE receipts'[p] = receipts[p]
  BY <1>1, <1>5, CreateWrites DEF Creating
<1>6. ASSUME NEW w \in Workers, Claiming(w) PROVE receipts'[p] = receipts[p]
  <2>1. /\ Position(w) \in Sequences /\ Claimable(Position(w))
        /\ Writes(Position(w), "APPLYING", receipts[Position(w)].attempts + 1, FALSE)
    BY <1>6, ClaimWrites DEF Claiming, Claim
  <2>2. Position(w) # p
    BY <1>2, <2>1 DEF Claimable, Holds, Finalized, p
  <2> QED BY <1>4, <2>1, <2>2
<1>7. ASSUME NEW w \in Workers, Recording(w) PROVE receipts'[p] = receipts[p]
  <2>1. pc[w] \in Processing /\ w # v
    BY <1>7 DEF Recording, Processing
  <2>2. Position(w) \in Sequences /\ Position(w) # p
    BY <1>3, <2>1, Served
  <2> QED BY <1>4, <1>7, <2>2, RecordWrites
<1>8. ASSUME NEW w \in Workers, Marking(w) PROVE receipts'[p] = receipts[p]
  <2>1. pc[w] \in Processing /\ w # v /\ MarkUnknown(w)
    BY <1>8 DEF Marking, MarkUnknown, Processing
  <2>2. Position(w) \in Sequences /\ Position(w) # p
    BY <1>3, <2>1, Served
  <2> QED BY <1>4, <2>1, <2>2, MarkWrites
<1>9. ASSUME NEW s \in Sequences, Expiring(s) PROVE receipts'[p] = receipts[p]
  <2>1. LeaseExpires(s) /\ Attending(s) = {}
    BY <1>9 DEF Expiring, LeaseExpires, LeaseInv
  <2>2. s # p
    BY <1>2, <2>1 DEF Attending, LeaseExpires, Holds, Finalized, p
  <2> QED BY <1>4, <2>1, <2>2, ExpireWrites
<1> QED BY <1>5, <1>6, <1>7, <1>8, <1>9
   DEF LeaseMove, Idles, Thinks, Effects, Still, p

\* An attempt keeps its lease while others step.
LEMMA LeasedKeeps ==
  ASSUME LeaseInv, LeaseMove, NEW v \in Workers, Keeps(v),
         ~Recording(v), ~Marking(v), ~Claiming(v)
  PROVE  Leased(v)'
<1>1. Leased(v)
  BY DEF LeaseInv
<1>2. CASE pc[v] \notin Processing
  BY <1>2 DEF Keeps, Leased
<1>3. CASE pc[v] \in Processing
  <2>1. receipts'[Position(v)] = receipts[Position(v)] /\ request'[v] = request[v]
    BY <1>3, ReceiptIsItsOwn DEF Keeps
  <2> QED BY <1>1, <1>3, <2>1 DEF Keeps, Leased, Holds, Finalized, Position
<1> QED BY <1>2, <1>3

\* An attempt that goes on keeps the claim it has.
LEMMA LeasedProceeds ==
  ASSUME LeaseInv, NEW w \in Workers, pc[w] \in Processing, pc[w] # "markUnknown",
         Proceeds(w), receipts' = receipts
  PROVE  Leased(w)'
<1>1. generation[w] > 0 /\ Holds(w) /\ ~receipts[Position(w)].leaseExpired
  BY DEF LeaseInv, Leased
<1> QED BY <1>1 DEF Proceeds, Leased, Holds, Position

LEMMA LeasedStep ==
  ASSUME LeaseInv, LeaseMove, NEW v \in Workers
  PROVE  Leased(v)'
<1>1. ASSUME Leaves(v) PROVE Leased(v)'
  BY <1>1 DEF Leaves, Leased
<1>2. CASE Claiming(v)
  <2> DEFINE p == Position(v)
             g == receipts[p].attempts + 1
  <2>1. /\ p \in Sequences /\ receipts[p].attempts \in Nat
        /\ Writes(p, "APPLYING", g, FALSE)
    BY <1>2, ClaimWrites DEF Claiming
  <2>2. generation'[v] = g /\ request'[v] = request[v]
    BY <1>2 DEF Claiming
  <2>3. g > 0
    BY <2>1
  <2>4. Position(v)' = p
    BY <2>2 DEF Position
  <2> HIDE DEF p, g
  <2>5. Holds(v)' /\ ~receipts'[p].leaseExpired
    BY <2>1, <2>2, <2>4 DEF Writes, Holds
  <2> QED BY <2>2, <2>3, <2>4, <2>5 DEF Leased
<1>3. CASE Recording(v)
  <2>1. CASE Leaves(v)
    BY <1>1, <2>1
  <2>2. CASE Proceeds(v) /\ pc'[v] = "markUnknown"
    <3>1. pc[v] \in Processing /\ generation[v] > 0
      BY <1>3 DEF Recording, Processing, LeaseInv, Leased
    <3>2. /\ receipts'[Position(v)] # NoReceipt
          /\ receipts'[Position(v)].status \in FinalStatuses
      BY <1>3, RecordWrites DEF Writes
    <3>3. Position(v)' = Position(v)
      BY <2>2 DEF Proceeds, Position
    <3> QED BY <2>2, <3>1, <3>2, <3>3 DEF Proceeds, Leased, Finalized
  <2> QED BY <1>3, <2>1, <2>2 DEF Recording
<1>4. CASE Marking(v)
  BY <1>1, <1>4 DEF Marking
<1>5. CASE ~Recording(v) /\ ~Marking(v) /\ ~Claiming(v)
  <2>1. CASE Keeps(v)
    BY <1>5, <2>1, LeasedKeeps
  <2>2. CASE Leaves(v)
    BY <1>1, <2>2
  <2>3. CASE /\ pc[v] \in Processing /\ pc[v] # "markUnknown"
             /\ Proceeds(v) /\ receipts' = receipts
    BY <2>3, LeasedProceeds
  <2>4. ASSUME NEW w \in Workers, w # v, OthersKeep(w) PROVE Keeps(v)
    BY <2>4 DEF OthersKeep
  <2>5. ASSUME NEW w \in Workers, Idles(w) \/ Thinks(w) \/ Effects(w) \/ Creating(w)
        PROVE  Leased(v)'
    <3>1. CASE w = v
      BY <2>2, <2>3, <2>5, <3>1 DEF Idles, Thinks, Effects, Creating, Processing
    <3>2. CASE w # v
      BY <2>1, <2>4, <2>5, <3>2 DEF Idles, Thinks, Effects, Creating
    <3> QED BY <3>1, <3>2
  <2>6. ASSUME NEW w \in Workers, Claiming(w) \/ Recording(w) \/ Marking(w)
        PROVE  Leased(v)'
    <3>1. w # v
      BY <1>5, <2>6
    <3> QED BY <2>1, <2>4, <2>6, <3>1 DEF Claiming, Recording, Marking
  <2> QED BY <2>1, <2>5, <2>6 DEF LeaseMove, Expiring, Still
<1> QED BY <1>2, <1>3, <1>4, <1>5

\* An effect concerns no other receipt's evidence.
LEMMA EffectElsewhere ==
  ASSUME LeaseInv, NEW w \in Workers, Effects(w),
         NEW s \in Sequences, receipts[s] # NoReceipt, s # Position(w)
  PROVE  Committed(receipts[s].request)' => Committed(receipts[s].request)
<1> DEFINE r == EvidenceRow(request[w])
           k == EvidenceRow(receipts[s].request)
<1>1. /\ Position(w) \in Sequences /\ receipts[Position(w)] # NoReceipt
      /\ receipts[Position(w)].request = request[w]
      /\ commits' = [commits EXCEPT ![r] = 1]
      /\ commits \in [EvidenceRows -> Nat]
      /\ receipts' = receipts
  BY EffectFacts DEF Effects
<1>2. k # r
  BY <1>1, RowsApart DEF LeaseInv
<1>3. receipts[s].request \in Submissions
  BY ReceiptUpdate DEF LeaseInv, IInv, Receipt
<1>4. k \in EvidenceRows
  BY <1>3, SubmissionFacts
<1> HIDE DEF r, k
<1>5. commits'[k] = commits[k]
  BY <1>1, <1>2, <1>4
<1> QED BY <1>1, <1>5 DEF Committed, k

\* What an attempt knows of its evidence stays true while others step.
LEMMA TruthfulKeeps ==
  ASSUME LeaseInv, LeaseMove, NEW v \in Workers, Keeps(v), ~Effects(v)
  PROVE  Truthful(v)'
<1>1. CASE ~Untried(v)
  BY <1>1 DEF Keeps, Truthful, Untried
<1>2. CASE Untried(v)
  <2>1. pc[v] \in Processing /\ ~Committed(request[v]) /\ request'[v] = request[v]
    BY <1>2 DEF Untried, Processing, LeaseInv, Truthful, Keeps
  <2>2. CASE commits' = commits
    BY <2>1, <2>2 DEF Truthful, Committed
  <2>3. ASSUME NEW w \in Workers, Effects(w) PROVE Truthful(v)'
    <3>1. w # v /\ pc[w] \in Processing
      BY <2>3, EffectFacts
    <3>2. Position(v) # Position(w)
      BY <2>1, <3>1 DEF LeaseInv, OneAttempt
    <3>3. /\ Position(v) \in Sequences /\ receipts[Position(v)] # NoReceipt
          /\ receipts[Position(v)].request = request[v]
      BY <2>1, Served
    <3>4. PICK p \in Sequences : p = Position(v)
      BY <3>3
    <3>5. receipts[p] # NoReceipt /\ receipts[p].request = request[v] /\ p # Position(w)
      BY <3>2, <3>3, <3>4
    <3>6. ~Committed(request[v])'
      <4>1. Committed(receipts[p].request)' => Committed(receipts[p].request)
        BY <2>3, <3>5, EffectElsewhere
      <4>2. receipts'[p].request = request'[v]
        BY <2>1, <2>3, <3>5 DEF Effects
      <4> QED BY <2>1, <3>5, <4>1, <4>2 DEF Committed
    <3> QED BY <3>6 DEF Truthful
  <2> QED BY <2>2, <2>3, CommitsStep
<1> QED BY <1>1, <1>2

LEMMA TruthfulStep ==
  ASSUME LeaseInv, LeaseMove, NEW v \in Workers
  PROVE  Truthful(v)'
<1>1. ASSUME pc'[v] \notin {"execute", "commit", "finalize"} PROVE Truthful(v)'
  BY <1>1 DEF Truthful, Untried
<1>2. ASSUME Leaves(v) PROVE Truthful(v)'
  BY <1>1, <1>2 DEF Leaves, Processing
<1>3. CASE Claiming(v)
  <2>1. CASE pc'[v] = "probe"
    BY <1>1, <2>1
  <2>2. CASE pc'[v] = "execute"
    <3> DEFINE p == Position(v)
    <3>1. /\ p \in Sequences /\ receipts[p] # NoReceipt /\ request[v] \in Submissions
          /\ receipts[p].request = request[v] /\ receipts[p].attempts \in Nat
      BY <1>3, ClaimWrites DEF Claiming
    <3>2. ~(receipts[p].attempts + 1 > 1)
      BY <1>3, <2>2 DEF Claiming, Claim, Go, LeaseInv, IInv, TypeOK
    <3>3. ~(receipts[p].attempts > 0)
      BY <3>1, <3>2
    <3>4. ~Committed(request[v])
      <4>1. SUFFICES ASSUME Committed(request[v]) PROVE FALSE
        OBVIOUS
      <4>2. EvidenceRow(request[v]) \in EvidenceRows
        BY <3>1, SubmissionFacts
      <4>3. PICK s \in Sequences : /\ receipts[s] # NoReceipt
                                   /\ EvidenceRow(receipts[s].request) = EvidenceRow(request[v])
                                   /\ receipts[s].attempts > 0
        BY <4>1, <4>2 DEF LeaseInv, EvidenceHasAttempt, Committed
      <4>4. s = p
        BY <3>1, <4>3, RowsApart DEF LeaseInv
      <4> QED BY <3>3, <4>3, <4>4
    <3>5. commits' = commits /\ request'[v] = request[v]
      BY <1>3 DEF Claiming
    <3> QED BY <3>4, <3>5 DEF Truthful, Committed
  <2> QED BY <1>3, <2>1, <2>2 DEF Claiming
<1>4. CASE Effects(v)
  <2>1. pc'[v] = "finalize" => verdict'[v] = "APPLIED"
    BY <1>4 DEF Effects
  <2>2. pc'[v] \notin {"execute", "commit"}
    BY <1>4 DEF Effects
  <2> QED BY <2>1, <2>2 DEF Truthful, Untried
<1>5. CASE Recording(v)
  BY <1>1, <1>2, <1>5 DEF Recording
<1>6. CASE ~Effects(v) /\ Keeps(v)
  BY <1>6, TruthfulKeeps
<1>7. ASSUME NEW w \in Workers, w # v, OthersKeep(w) PROVE Keeps(v)
  BY <1>7 DEF OthersKeep
<1>8. ASSUME NEW w \in Workers,
             \/ Idles(w) \/ (Thinks(w) /\ Truthful(w)') \/ Effects(w) \/ Creating(w)
             \/ Claiming(w) \/ Recording(w) \/ Marking(w)
      PROVE  Truthful(v)'
  <2>1. CASE w = v
    BY <1>2, <1>3, <1>4, <1>5, <1>8, <2>1 DEF Idles, Creating, Marking
  <2>2. CASE w # v
    <3>1. OthersKeep(w)
      BY <1>8 DEF Idles, Thinks, Effects, Creating, Claiming, Recording, Marking
    <3> QED BY <1>4, <1>6, <1>7, <2>2, <3>1
  <2> QED BY <2>1, <2>2
<1>9. CASE \A u \in Workers : Keeps(u)
  BY <1>4, <1>6, <1>9
<1> QED BY <1>8, <1>9 DEF LeaseMove, Expiring, Still

\* A claim finds no attempt at its position.
LEMMA ClaimFindsNone ==
  ASSUME LeaseInv, NEW w \in Workers, Claiming(w), NEW v \in Workers,
         pc[v] \in Processing
  PROVE  Position(v) # Position(w)
<1>1. Claimable(Position(w))
  BY DEF Claiming, Claim
<1>2. \/ Holds(v) /\ ~receipts[Position(v)].leaseExpired
      \/ Finalized(Position(v))
  BY DEF LeaseInv, Leased
<1> QED BY <1>1, <1>2 DEF Claimable, Holds, Finalized

LEMMA OneAttemptStep == ASSUME LeaseInv, LeaseMove PROVE OneAttempt'
<1>0. \A v, w \in Workers :
        pc[v] \in Processing /\ pc[w] \in Processing /\ Position(v) = Position(w) => v = w
  BY DEF LeaseInv, OneAttempt
<1> DEFINE Same(v) == pc[v] \in Processing /\ Position(v)' = Position(v)
           Old == \A v \in Workers : pc'[v] \in Processing => Same(v)
<1>1. ASSUME Old PROVE OneAttempt'
  BY <1>0, <1>1 DEF OneAttempt
<1>2. ASSUME NEW v \in Workers, Keeps(v), pc'[v] \in Processing PROVE Same(v)
  BY <1>2 DEF Keeps, Position
<1>3. ASSUME NEW v \in Workers, Proceeds(v), pc[v] \in Processing PROVE Same(v)
  BY <1>3 DEF Proceeds, Position
<1>4. ASSUME NEW w \in Workers, NEW v \in Workers, w # v, OthersKeep(w) PROVE Keeps(v)
  BY <1>4 DEF OthersKeep
<1>5. ASSUME NEW w \in Workers,
             Idles(w) \/ Thinks(w) \/ Effects(w) \/ Creating(w) \/ Recording(w) \/ Marking(w)
      PROVE  OneAttempt'
  <2>1. OthersKeep(w) /\ (Leaves(w) \/ (Proceeds(w) /\ pc[w] \in Processing))
    BY <1>5 DEF Idles, Thinks, Effects, Creating, Recording, Marking, Processing
  <2>2. ASSUME NEW v \in Workers, pc'[v] \in Processing PROVE Same(v)
    BY <1>2, <1>3, <1>4, <2>1, <2>2 DEF Leaves
  <2> QED BY <1>1, <2>2
<1>6. ASSUME NEW w \in Workers, Claiming(w) PROVE OneAttempt'
  <2>1. OthersKeep(w) /\ Position(w)' = Position(w)
    BY <1>6 DEF Claiming, Position
  <2>2. ASSUME NEW v \in Workers, v # w, pc'[v] \in Processing
        PROVE  Same(v) /\ Position(v)' # Position(w)'
    <3>1. Same(v)
      BY <1>2, <1>4, <2>1, <2>2
    <3> QED BY <1>6, <2>1, <3>1, ClaimFindsNone
  <2> QED BY <1>0, <2>2 DEF OneAttempt
<1>7. CASE \A v \in Workers : Keeps(v)
  BY <1>1, <1>2, <1>7
<1> QED BY <1>5, <1>6, <1>7 DEF LeaseMove, Expiring, Still

\* The evidence changes only by a worker's domain call.
LEMMA EffectActor ==
  ASSUME LeaseInv, [Next]_vars, commits' # commits
  PROVE  \E w \in Workers : ExecuteCommits(w) \/ ExecuteFaults(w)
<1>1. ASSUME NEW w \in Workers, Advance(w), ~ExecuteCommits(w) PROVE commits' = commits
  BY <1>1 DEF Advance, EnsureCursor, AdmitNew, AdmitReopened, AdmitReplayed,
     AdmitRefused, Claim, ClaimRefused, Probe, CheckSender, ExecuteConverges,
     ExecuteRefused, Finalize, MarkUnknown, FenceLost, ReportLostFence, domainVars
<1>2. ASSUME NEW w \in Workers, WorkerFault(w), ~ExecuteFaults(w) PROVE commits' = commits
  BY <1>2 DEF WorkerFault, FinalizeFaults, Crash, domainVars
<1>3. OtherActor => commits' = commits
  BY DomainStepFacts DEF OtherActor, LeaseInv, IInv, TypeOK
<1> QED BY <1>1, <1>2, <1>3 DEF Next, Submit, LeaseExpires, vars, domainVars

LEMMA RejectedStep == ASSUME LeaseInv, LeaseMove PROVE RejectedLeavesNoEffect'
<1> DEFINE Refused(s) == receipts[s] # NoReceipt /\ receipts[s].status = "REJECTED"
<1>0. \A s \in Sequences : Refused(s) => ~Committed(receipts[s].request)
  BY DEF LeaseInv, RejectedLeavesNoEffect
<1>1. ASSUME commits' = commits,
             \A s \in Sequences : Refused(s)' => receipts'[s] = receipts[s]
      PROVE  RejectedLeavesNoEffect'
  BY <1>0, <1>1 DEF RejectedLeavesNoEffect, Committed
<1>2. ASSUME commits' = commits, receipts' = receipts PROVE RejectedLeavesNoEffect'
  BY <1>1, <1>2
<1>3. ASSUME commits' = commits, NEW t \in Sequences, NEW status, NEW n, NEW b,
             Writes(t, status, n, b), status # "REJECTED"
      PROVE  RejectedLeavesNoEffect'
  <2>1. \A s \in Sequences : Refused(s)' => receipts'[s] = receipts[s]
    BY <1>3 DEF Writes
  <2> QED BY <1>1, <1>3, <2>1
<1>4. ASSUME NEW w \in Workers, Effects(w) PROVE RejectedLeavesNoEffect'
  <2>1. receipts' = receipts /\ ~Refused(Position(w))
    BY <1>4, EffectFacts DEF Effects
  <2>2. ASSUME NEW s \in Sequences, Refused(s) PROVE ~Committed(receipts[s].request)'
    BY <1>0, <1>4, <2>1, <2>2, EffectElsewhere
  <2> QED BY <2>1, <2>2 DEF RejectedLeavesNoEffect
<1>5. ASSUME NEW w \in Workers, Creating(w) PROVE RejectedLeavesNoEffect'
  <2>1. \A s \in Sequences : Refused(s)' => receipts'[s] = receipts[s]
    BY <1>5, CreateWrites DEF Creating
  <2> QED BY <1>1, <1>5, <2>1 DEF Creating
<1>6. ASSUME NEW w \in Workers, Claiming(w) PROVE RejectedLeavesNoEffect'
  BY <1>3, <1>6, ClaimWrites DEF Claiming
<1>7. ASSUME NEW w \in Workers, Recording(w) PROVE RejectedLeavesNoEffect'
  <2> DEFINE p == Position(w)
  <2>1. /\ pc[w] \in Processing /\ p \in Sequences /\ receipts[p].request = request[w]
        /\ commits' = commits
        /\ Writes(p, verdict[w], receipts[p].attempts, receipts[p].leaseExpired)
    BY <1>7, Served, RecordWrites DEF Recording, Processing
  <2>2. verdict[w] = "REJECTED" => ~Committed(request[w])
    BY <1>7 DEF LeaseInv, Truthful, Untried, Recording
  <2> HIDE DEF p
  <2>3. ASSUME NEW s \in Sequences, Refused(s)' PROVE ~Committed(receipts[s].request)'
    <3>1. CASE s = p
      <4>1. receipts'[s].request = request[w] /\ verdict[w] = "REJECTED"
        BY <2>1, <2>3, <3>1 DEF Writes
      <4> QED BY <2>1, <2>2, <4>1 DEF Committed
    <3>2. CASE s # p
      <4>1. receipts'[s] = receipts[s]
        BY <2>1, <3>2 DEF Writes
      <4> QED BY <1>0, <2>1, <2>3, <4>1 DEF Committed
    <3> QED BY <3>1, <3>2
  <2> QED BY <2>3 DEF RejectedLeavesNoEffect
<1>8. ASSUME NEW w \in Workers, Marking(w) PROVE RejectedLeavesNoEffect'
  <2>1. pc[w] \in Processing /\ MarkUnknown(w) /\ commits' = commits
    BY <1>8 DEF Marking, MarkUnknown, Processing
  <2>2. Position(w) \in Sequences
    BY <2>1, Served
  <2> QED BY <1>3, <2>1, <2>2, MarkWrites
<1>9. ASSUME NEW s \in Sequences, Expiring(s) PROVE RejectedLeavesNoEffect'
  BY <1>3, <1>9, ExpireWrites DEF Expiring
<1> QED BY <1>2, <1>4, <1>5, <1>6, <1>7, <1>8, <1>9 DEF LeaseMove, Idles, Thinks, Still

LEMMA LeaseInit == Init /\ ~StallsPossible => LeaseInv
<1> SUFFICES ASSUME Init, ~StallsPossible PROVE LeaseInv
  OBVIOUS
<1>1. IInv
  BY InitInvariant
<1>2. \A s \in Sequences : receipts[s] = NoReceipt
  BY DEF Init
<1>3. \A w \in Workers : pc[w] = "idle"
  BY DEF Init
<1>4. \A k \in EvidenceRows : commits[k] = 0
  BY DEF Init, DomainInit
<1>5. IdsAreUnique /\ RejectedLeavesNoEffect
  BY <1>2 DEF IdsAreUnique, RejectedLeavesNoEffect
<1>6. EvidenceHasAttempt
  BY <1>4 DEF EvidenceHasAttempt
<1>7. OneAttempt /\ \A w \in Workers : Leased(w) /\ Truthful(w)
  BY <1>3 DEF OneAttempt, Leased, Truthful, Untried, Processing
<1> QED BY <1>1, <1>5, <1>6, <1>7 DEF LeaseInv

LEMMA LeaseStep == LeaseInv /\ [Next]_vars => LeaseInv'
<1> SUFFICES ASSUME LeaseInv, [Next]_vars PROVE LeaseInv'
  OBVIOUS
<1>1. IInv' /\ TypeOK' /\ ~StallsPossible
  BY StepInvariant DEF LeaseInv, IInv
<1>2. LeaseMove
  BY StepIsLeaseMove
<1>3. IdsAreUnique' /\ OneAttempt' /\ RejectedLeavesNoEffect'
  BY <1>2, IdsStep, OneAttemptStep, RejectedStep
<1>4. EvidenceHasAttempt'
  BY <1>1, <1>2, EvidenceStep
<1>5. \A w \in Workers : Leased(w)' /\ Truthful(w)'
  BY <1>2, LeasedStep, TruthfulStep
<1> QED BY <1>1, <1>3, <1>4, <1>5 DEF LeaseInv

LEMMA LeaseInvariance == Spec /\ ~StallsPossible => []LeaseInv
<1> QED BY LeaseInit, LeaseStep, PTL DEF Spec

\* B10-02: as long as no worker outlives its lease, a REJECTED receipt is
\* truthful (field-offline.service.ts 445).  The hypothesis cannot be dropped: a
\* stalled worker may commit after the next one has rejected.
THEOREM RejectedIsTruthful == Spec /\ ~StallsPossible => []RejectedLeavesNoEffect
<1>1. LeaseInv => RejectedLeavesNoEffect
  BY DEF LeaseInv
<1> QED BY <1>1, LeaseInvariance, PTL

\* As long as no worker outlives its lease, every effect is that of the
\* position right after the last decided one: an attempt that enters the domain
\* still owns an open receipt, and only that position has one.
THEOREM EffectsAreOrdered == Spec /\ ~StallsPossible => EffectsInQueueOrder
<1>1. LeaseInv /\ [Next]_vars =>
        [ commits' # commits =>
            \E w \in Workers : InDomain(w) /\ pc'[w] # pc[w] /\ Position(w) = cursor + 1 ]_vars
  <2> SUFFICES ASSUME LeaseInv, [Next]_vars, commits' # commits
               PROVE  \E w \in Workers :
                        InDomain(w) /\ pc'[w] # pc[w] /\ Position(w) = cursor + 1
    OBVIOUS
  <2>1. PICK w \in Workers : ExecuteCommits(w) \/ ExecuteFaults(w)
    BY EffectActor
  <2>2. InDomain(w)
    BY <2>1 DEF ExecuteCommits, ExecuteFaults, domainVars
  <2>3. pc[w] \in {"execute", "commit"}
    BY <2>2 DEF InDomain
  <2>4. pc'[w] # pc[w]
    BY <2>1, <2>3 DEF ExecuteCommits, ExecuteFaults, Conclude, Go, LeaseInv, IInv, TypeOK
  <2>5. Holds(w) /\ Position(w) \in Sequences
    BY <2>3, Served DEF LeaseInv, Leased, Processing
  <2>6. Position(w) = cursor + 1
    <3>1. TypeOK /\ DecidedPrefix
      BY DEF LeaseInv, IInv
    <3>2. ~(Position(w) <= cursor) /\ Position(w) <= cursor + 1
      BY <2>5, <3>1 DEF DecidedPrefix, Holds, Finalized
    <3> QED BY <2>5, <3>1, <3>2, DomainAssumption DEF TypeOK
  <2> QED BY <2>2, <2>4, <2>6
<1> QED BY <1>1, LeaseInvariance, PTL DEF Spec, EffectsInQueueOrder

---------------------------------------------------------------------------
(* Patrol: the order of the locks.                                          *)

SweepAsks == { [ op |-> "sweep", at |-> s ] : s \in Stops }

Operations == { "create", "publish", "schedule", "start", "cancel", "abandon",
                "verify", "move", "sweep" }

Transaction == [ op: Operations, ask: Asks \cup SweepAsks, wants: Seq(Rows),
                 eligible: BOOLEAN ]

\* The place of a row in the order the repository states.
Rank(row) ==
  IF row = RouteRow THEN 0
  ELSE IF row = RunRow THEN 1
  ELSE IF row \in ToSet(AssignmentRows)
       THEN 1 + (CHOOSE i \in DOMAIN AssignmentRows : AssignmentRows[i] = row)
  ELSE Len(AssignmentRows) + 2

Ascending(rows) ==
  \A i, j \in 1 .. Len(rows) : i < j => Rank(rows[i]) < Rank(rows[j])

LEMMA PatrolRankOf ==
  /\ RouteRow \in Rows /\ Rank(RouteRow) = 0
  /\ RunRow \in Rows /\ Rank(RunRow) = 1
  /\ Len(AssignmentRows) \in Nat
  /\ \A i \in 1 .. Len(AssignmentRows) :
       AssignmentRows[i] \in Rows /\ Rank(AssignmentRows[i]) = 1 + i
  /\ \A s \in Stops : /\ Checkpoint(s) \in Rows
                      /\ Rank(Checkpoint(s)) = Len(AssignmentRows) + 2
<1>1. /\ AssignmentRows \in Seq(ToSet(AssignmentRows))
      /\ Len(AssignmentRows) \in Nat
      /\ DOMAIN AssignmentRows = 1 .. Len(AssignmentRows)
  BY PatrolAssumption
<1>2. RouteRow # RunRow /\ RouteRow \in Rows /\ RunRow \in Rows
  BY DEF RouteRow, RunRow, Rows
<1>3. ASSUME NEW i \in 1 .. Len(AssignmentRows)
      PROVE  AssignmentRows[i] \in Rows /\ Rank(AssignmentRows[i]) = 1 + i
  <2> DEFINE row == AssignmentRows[i]
  <2>1. row \in ToSet(AssignmentRows)
    BY <1>1 DEF ToSet
  <2>2. row # RouteRow /\ row # RunRow
    BY <2>1, PatrolAssumption
  <2>3. (CHOOSE j \in DOMAIN AssignmentRows : AssignmentRows[j] = row) = i
    BY <1>1, PatrolAssumption
  <2>4. row \in Rows
    BY <2>1 DEF Rows
  <2> HIDE DEF row
  <2>5. Rank(row) = 1 + i
    BY <2>1, <2>2, <2>3 DEF Rank
  <2> QED BY <2>4, <2>5 DEF row
<1>4. ASSUME NEW s \in Stops
      PROVE  Checkpoint(s) \in Rows /\ Rank(Checkpoint(s)) = Len(AssignmentRows) + 2
  <2>1. Checkpoint(s) # RouteRow /\ Checkpoint(s) # RunRow
    BY DEF Checkpoint, RouteRow, RunRow
  <2>2. Checkpoint(s) \notin ToSet(AssignmentRows)
    BY PatrolAssumption
  <2>3. Checkpoint(s) \in Rows
    BY DEF Rows
  <2> QED BY <2>1, <2>2, <2>3 DEF Rank
<1> QED BY <1>1, <1>2, <1>3, <1>4 DEF Rank

\* Every row has a place, and there are finitely many places.
LEMMA PatrolRankBound ==
  ASSUME NEW row \in Rows
  PROVE  Rank(row) \in 0 .. Len(AssignmentRows) + 2
<1>1. CASE row \in ToSet(AssignmentRows)
  <2>1. PICK i \in DOMAIN AssignmentRows : row = AssignmentRows[i]
    BY <1>1 DEF ToSet
  <2>2. i \in 1 .. Len(AssignmentRows)
    BY <2>1, PatrolAssumption
  <2> QED BY <2>1, <2>2, PatrolRankOf
<1>2. CASE row \notin ToSet(AssignmentRows)
  BY <1>2, PatrolRankOf DEF Rank
<1> QED BY <1>1, <1>2

LEMMA OneLock ==
  ASSUME NEW row \in Rows
  PROVE  /\ << row >> \in Seq(Rows) /\ Ascending(<< row >>)
         /\ Len(<< row >>) = 1 /\ << row >>[1] = row
  BY DEF Ascending

LEMMA NoLock == << >> \in Seq(Rows) /\ Ascending(<< >>)
  BY DEF Ascending

LEMMA AssignmentLocks ==
  AssignmentRows \in Seq(Rows) /\ Ascending(AssignmentRows)
<1>1. AssignmentRows \in Seq(Rows)
  <2>1. ToSet(AssignmentRows) \subseteq Rows
    BY DEF Rows
  <2> QED BY <2>1, PatrolAssumption
<1>2. Ascending(AssignmentRows)
  BY PatrolRankOf DEF Ascending
<1> QED BY <1>1, <1>2

\* Two lists of locks, the second beyond the first, make one.
LEMMA MoreLocks ==
  ASSUME NEW q \in Seq(Rows), NEW r \in Seq(Rows), Ascending(q), Ascending(r),
         \A i \in 1 .. Len(q), j \in 1 .. Len(r) : Rank(q[i]) < Rank(r[j])
  PROVE  q \o r \in Seq(Rows) /\ Ascending(q \o r)
<1> DEFINE c == q \o r
<1>1. /\ c \in Seq(Rows) /\ Len(c) = Len(q) + Len(r)
      /\ \A i \in 1 .. Len(c) : c[i] = IF i <= Len(q) THEN q[i] ELSE r[i - Len(q)]
  BY ConcatProperties
<1>2. Len(q) \in Nat /\ Len(r) \in Nat
  OBVIOUS
<1> HIDE DEF c
<1>3. ASSUME NEW i \in 1 .. Len(c), NEW j \in 1 .. Len(c), i < j
      PROVE  Rank(c[i]) < Rank(c[j])
  <2>1. CASE j <= Len(q)
    BY <1>1, <1>2, <1>3, <2>1 DEF Ascending
  <2>2. CASE i <= Len(q) /\ ~(j <= Len(q))
    <3>1. j - Len(q) \in 1 .. Len(r)
      BY <1>1, <1>2, <2>2
    <3>2. c[i] = q[i] /\ c[j] = r[j - Len(q)] /\ i \in 1 .. Len(q)
      BY <1>1, <1>2, <2>2
    <3> QED BY <3>1, <3>2
  <2>3. CASE ~(i <= Len(q)) /\ ~(j <= Len(q))
    <3>1. /\ j - Len(q) \in 1 .. Len(r) /\ i - Len(q) \in 1 .. Len(r)
          /\ i - Len(q) < j - Len(q)
      BY <1>1, <1>2, <1>3, <2>3
    <3>2. c[i] = r[i - Len(q)] /\ c[j] = r[j - Len(q)]
      BY <1>1, <2>3
    <3> QED BY <3>1, <3>2 DEF Ascending
  <2> QED BY <1>2, <1>3, <2>1, <2>2, <2>3
<1>4. Ascending(c)
  BY <1>3 DEF Ascending
<1> QED BY <1>1, <1>4 DEF c

LEMMA LockBefore ==
  ASSUME NEW row \in Rows, NEW q \in Seq(Rows), Ascending(q),
         \A j \in 1 .. Len(q) : Rank(row) < Rank(q[j])
  PROVE  << row >> \o q \in Seq(Rows) /\ Ascending(<< row >> \o q)
<1>1. PICK r : r = << row >>
  OBVIOUS
<1>2. r \in Seq(Rows) /\ Ascending(r) /\ Len(r) = 1 /\ r[1] = row
  BY <1>1, OneLock
<1>3. \A i \in 1 .. Len(r), j \in 1 .. Len(q) : Rank(r[i]) < Rank(q[j])
  <2>1. \A i \in 1 .. Len(r) : i = 1
    BY <1>2
  <2> QED BY <1>2, <2>1
<1>4. r \o q \in Seq(Rows) /\ Ascending(r \o q)
  BY <1>2, <1>3, MoreLocks
<1> QED BY <1>1, <1>4

LEMMA LockAfter ==
  ASSUME NEW q \in Seq(Rows), NEW row \in Rows, Ascending(q),
         \A i \in 1 .. Len(q) : Rank(q[i]) < Rank(row)
  PROVE  q \o << row >> \in Seq(Rows) /\ Ascending(q \o << row >>)
<1>1. PICK r : r = << row >>
  OBVIOUS
<1>2. r \in Seq(Rows) /\ Ascending(r) /\ Len(r) = 1 /\ r[1] = row
  BY <1>1, OneLock
<1>3. \A i \in 1 .. Len(q), j \in 1 .. Len(r) : Rank(q[i]) < Rank(r[j])
  <2>1. \A j \in 1 .. Len(r) : j = 1
    BY <1>2
  <2> QED BY <1>2, <2>1
<1>4. q \o r \in Seq(Rows) /\ Ascending(q \o r)
  BY <1>2, <1>3, MoreLocks
<1> QED BY <1>1, <1>4

\* Every operation takes its locks in the stated order.
LEMMA LockOrderAscends ==
  ASSUME NEW ask \in Asks \cup SweepAsks
  PROVE  /\ ask.op \in Operations
         /\ LockOrder(ask) \in Seq(Rows)
         /\ Ascending(LockOrder(ask))
<1> DEFINE a == AssignmentRows
           n == Len(AssignmentRows)
<1>0. /\ a \in Seq(Rows) /\ Ascending(a) /\ n \in Nat
      /\ \A i \in 1 .. n : Rank(a[i]) = 1 + i
      /\ RouteRow \in Rows /\ RunRow \in Rows /\ Rank(RouteRow) = 0 /\ Rank(RunRow) = 1
  BY AssignmentLocks, PatrolRankOf
<1>1. << RouteRow >> \in Seq(Rows) /\ Ascending(<< RouteRow >>)
  BY <1>0, OneLock
<1>2. << RunRow >> \in Seq(Rows) /\ Ascending(<< RunRow >>)
  BY <1>0, OneLock
<1>3. << RouteRow >> \o a \in Seq(Rows) /\ Ascending(<< RouteRow >> \o a)
  <2>1. \A j \in 1 .. Len(a) : Rank(RouteRow) < Rank(a[j])
    BY <1>0
  <2> HIDE DEF a
  <2> QED BY <1>0, <2>1, LockBefore
<1>4. << RunRow >> \o a \in Seq(Rows) /\ Ascending(<< RunRow >> \o a)
  <2>1. \A j \in 1 .. Len(a) : Rank(RunRow) < Rank(a[j])
    BY <1>0
  <2> HIDE DEF a
  <2> QED BY <1>0, <2>1, LockBefore
<1>5. ASSUME NEW s \in Stops
      PROVE  /\ << RunRow, Checkpoint(s) >> \in Seq(Rows)
             /\ Ascending(<< RunRow, Checkpoint(s) >>)
             /\ << RunRow >> \o a \o << Checkpoint(s) >> \in Seq(Rows)
             /\ Ascending(<< RunRow >> \o a \o << Checkpoint(s) >>)
  <2>1. Checkpoint(s) \in Rows /\ Rank(Checkpoint(s)) = n + 2
    BY PatrolRankOf
  <2>3. << RunRow, Checkpoint(s) >> \in Seq(Rows) /\ Ascending(<< RunRow, Checkpoint(s) >>)
    <3>1. 1 < n + 2
      BY <1>0
    <3>2. << RunRow, Checkpoint(s) >> \in Seq(Rows)
      BY <1>0, <2>1
    <3> QED BY <1>0, <2>1, <3>1, <3>2 DEF Ascending
  <2> DEFINE q == << RunRow >> \o a
  <2>4. /\ Len(q) = 1 + n
        /\ \A i \in 1 .. Len(q) : q[i] = IF i <= 1 THEN RunRow ELSE a[i - 1]
    BY <1>0, <1>2, OneLock, ConcatProperties
  <2>5. q \in Seq(Rows) /\ Ascending(q)
    BY <1>4
  <2> HIDE DEF q
  <2>6. ASSUME NEW i \in 1 .. Len(q) PROVE Rank(q[i]) < n + 2
    <3>1. CASE i <= 1
      BY <1>0, <2>4, <3>1
    <3>2. CASE ~(i <= 1)
      <4>1. i - 1 \in 1 .. n
        BY <1>0, <2>4, <3>2
      <4> QED BY <1>0, <2>4, <3>2, <4>1
    <3> QED BY <3>1, <3>2
  <2> HIDE DEF a, n
  <2>7. q \o << Checkpoint(s) >> \in Seq(Rows) /\ Ascending(q \o << Checkpoint(s) >>)
    BY <2>1, <2>5, <2>6, LockAfter
  <2> QED BY <2>3, <2>7 DEF q
<1>6. ASSUME NEW row \in ToSet(AssignmentRows)
      PROVE  << row >> \in Seq(Rows) /\ Ascending(<< row >>)
  BY <1>6, OneLock DEF Rows
<1>7. \/ ask.op = "create"
      \/ ask.op = "publish"
      \/ ask.op = "schedule"
      \/ ask.op = "start"
      \/ ask.op = "verify" /\ ask.at \in Stops
      \/ ask.op = "sweep" /\ ask.at \in Stops
      \/ ask.op \in { "cancel", "abandon" }
      \/ ask.op = "move" /\ ask.row \in ToSet(AssignmentRows)
  BY DEF Asks, SweepAsks
<1> HIDE DEF a, n
<1>8. CASE ask.op = "create"
  BY <1>8, NoLock DEF LockOrder, Operations
<1>9. CASE ask.op = "publish"
  BY <1>1, <1>9 DEF LockOrder, Operations
<1>10. CASE ask.op = "schedule"
  BY <1>3, <1>10 DEF LockOrder, Operations, a
<1>11. CASE ask.op = "start"
  BY <1>4, <1>11 DEF LockOrder, Operations, a
<1>12. CASE ask.op = "verify" /\ ask.at \in Stops
  BY <1>5, <1>12 DEF LockOrder, Operations, a
<1>13. CASE ask.op = "sweep" /\ ask.at \in Stops
  BY <1>5, <1>13 DEF LockOrder, Operations
<1>14. CASE ask.op \in { "cancel", "abandon" }
  BY <1>2, <1>14 DEF LockOrder, Operations
<1>15. CASE ask.op = "move" /\ ask.row \in ToSet(AssignmentRows)
  BY <1>6, <1>15 DEF LockOrder, Operations
<1> QED BY <1>7, <1>8, <1>9, <1>10, <1>11, <1>12, <1>13, <1>14, <1>15

---------------------------------------------------------------------------
(* The locks that are held and the locks that are wanted.                   *)

\* A transaction is for a request and wants the rest of its locks in order;
\* what it holds comes before all of them.
Orderly(p) ==
  IF tx[p] = Idle
  THEN \A row \in Rows : owner[row] # p
  ELSE /\ tx[p] \in Transaction
       /\ tx[p].op = tx[p].ask.op
       /\ Ascending(tx[p].wants)
       /\ \A row \in Rows : owner[row] = p =>
            \A i \in 1 .. Len(tx[p].wants) : Rank(row) < Rank(tx[p].wants[i])

LocksInv ==
  /\ tx \in [ Processes -> Transaction \cup { Idle } ]
  /\ owner \in [ Rows -> Processes \cup { NoOne } ]
  /\ \A p \in Processes : Orderly(p)

LEMMA IdleIsNoTransaction == Idle \notin Transaction
<1>1. Idle.op = "none"
  BY DEF Idle
<1>2. \A t \in Transaction : t.op # "none"
  BY DEF Transaction, Operations
<1> QED BY <1>1, <1>2

\* What a process waits for, and what is left to want after it.
LEMMA WantedRow ==
  ASSUME LocksInv, NEW p \in Processes, Waiting(p)
  PROVE  /\ tx[p] \in Transaction /\ tx[p].wants \in Seq(Rows)
         /\ Len(tx[p].wants) \in Nat /\ Len(tx[p].wants) > 0
         /\ Head(tx[p].wants) = tx[p].wants[1] /\ Head(tx[p].wants) \in Rows
         /\ Tail(tx[p].wants) \in Seq(Rows)
         /\ Len(Tail(tx[p].wants)) = Len(tx[p].wants) - 1
         /\ \A i \in 1 .. Len(Tail(tx[p].wants)) :
              Tail(tx[p].wants)[i] = tx[p].wants[i + 1]
<1>1. tx[p] \in Transaction
  BY DEF LocksInv, Waiting
<1>2. tx[p].wants \in Seq(Rows) /\ tx[p].wants # << >>
  BY <1>1 DEF Transaction, Waiting
<1> DEFINE w == tx[p].wants
<1> HIDE DEF w
<1>3. w \in Seq(Rows) /\ w # << >>
  BY <1>2 DEF w
<1>4. /\ Len(w) \in Nat /\ Len(w) > 0 /\ Head(w) = w[1] /\ Head(w) \in Rows
      /\ Tail(w) \in Seq(Rows) /\ Len(Tail(w)) = Len(w) - 1
      /\ \A i \in 1 .. Len(Tail(w)) : Tail(w)[i] = w[i + 1]
  BY <1>3, HeadTailProperties, EmptySeq
<1> QED BY <1>1, <1>4 DEF w

LocksStill == tx' = tx /\ owner' = owner

Begins(p, ask) == Begin(p, ask) /\ owner' = owner

LockMove ==
  \/ \E p \in Processes, ask \in Asks \cup SweepAsks : Begins(p, ask)
  \/ \E p \in Processes : Acquire(p) \/ End(p)
  \/ LocksStill

\* A step that leaves a process's transaction and its locks alone.
LEMMA OrderlyKeeps ==
  ASSUME NEW p \in Processes, Orderly(p), tx'[p] = tx[p],
         \A row \in Rows : owner'[row] = p => owner[row] = p
  PROVE  Orderly(p)'
  BY DEF Orderly

LEMMA BeginStep ==
  ASSUME LocksInv, NEW p \in Processes, NEW ask \in Asks \cup SweepAsks, Begins(p, ask)
  PROVE  LocksInv'
<1> DEFINE new == [ op |-> ask.op, ask |-> ask, wants |-> LockOrder(ask), eligible |-> FALSE ]
<1>1. /\ ask.op \in Operations /\ LockOrder(ask) \in Seq(Rows)
      /\ Ascending(LockOrder(ask))
  BY LockOrderAscends
<1>2. new \in Transaction
  BY <1>1 DEF Transaction
<1>3. new.op = new.ask.op /\ new.wants = LockOrder(ask)
  OBVIOUS
<1>4. tx[p] = Idle /\ tx' = [ tx EXCEPT ![p] = new ] /\ owner' = owner
  BY DEF Begins, Begin
<1> HIDE DEF new
<1>5. /\ tx' \in [ Processes -> Transaction \cup { Idle } ]
      /\ tx'[p] = new /\ \A q \in Processes \ { p } : tx'[q] = tx[q]
  BY <1>2, <1>4 DEF LocksInv
<1>6. \A row \in Rows : owner[row] # p
  BY <1>4 DEF LocksInv, Orderly
<1>7. new # Idle
  BY <1>2, IdleIsNoTransaction
<1>8. Orderly(p)'
  BY <1>1, <1>2, <1>3, <1>4, <1>5, <1>6, <1>7 DEF Orderly
<1>9. \A q \in Processes \ { p } : Orderly(q)'
  BY <1>4, <1>5, OrderlyKeeps DEF LocksInv
<1> QED BY <1>4, <1>5, <1>8, <1>9 DEF LocksInv

LEMMA AcquireStep ==
  ASSUME LocksInv, NEW p \in Processes, Acquire(p)
  PROVE  LocksInv'
<1> DEFINE w == tx[p].wants
           row == Head(w)
           now_eligible == tx[p].eligible \/ ( /\ row \in ToSet(AssignmentRows)
                                               /\ Allows(tx[p].op, dutyStatus[row]) )
           new == [ tx[p] EXCEPT !.wants = Tail(w), !.eligible = now_eligible ]
<1>1. Waiting(p) /\ tx[p] # Idle
  BY DEF Acquire, Waiting
<1>2. /\ tx[p] \in Transaction /\ w \in Seq(Rows)
      /\ Len(w) \in Nat /\ Len(w) > 0 /\ row = w[1] /\ row \in Rows
      /\ Tail(w) \in Seq(Rows) /\ Len(Tail(w)) = Len(w) - 1
      /\ \A i \in 1 .. Len(Tail(w)) : Tail(w)[i] = w[i + 1]
  BY <1>1, WantedRow
<1>3. now_eligible \in BOOLEAN
  <2>1. tx[p].eligible \in BOOLEAN
    BY <1>2 DEF Transaction
  <2>2. (tx[p].eligible \/ ( /\ row \in ToSet(AssignmentRows)
                             /\ Allows(tx[p].op, dutyStatus[row]) )) \in BOOLEAN
    OBVIOUS
  <2> QED BY <2>2
<1>4. /\ owner[row] = NoOne /\ owner' = [ owner EXCEPT ![row] = p ]
      /\ tx' = [ tx EXCEPT ![p] = new ]
  <2>1. Locks(row)
    BY <1>2 DEF Locks
  <2>2. tx' = [ tx EXCEPT ![p].wants = Tail(w), ![p].eligible = now_eligible ]
    BY DEF Acquire
  <2> QED BY <2>1, <2>2 DEF Acquire
<1> HIDE DEF now_eligible
<1>5. /\ new \in Transaction
      /\ new.op = tx[p].op /\ new.ask = tx[p].ask /\ new.wants = Tail(w)
  BY <1>2, <1>3 DEF Transaction
<1>6. new # Idle
  BY <1>5, IdleIsNoTransaction
<1> HIDE DEF new
<1>7. /\ tx' \in [ Processes -> Transaction \cup { Idle } ]
      /\ tx'[p] = new /\ \A q \in Processes \ { p } : tx'[q] = tx[q]
  BY <1>4, <1>5 DEF LocksInv
<1>8. /\ owner' \in [ Rows -> Processes \cup { NoOne } ]
      /\ owner'[row] = p /\ \A r \in Rows \ { row } : owner'[r] = owner[r]
  BY <1>2, <1>4 DEF LocksInv
<1>9. Orderly(p)'
  <2>1. /\ tx[p].op = tx[p].ask.op /\ Ascending(w)
        /\ \A r \in Rows : owner[r] = p =>
             \A i \in 1 .. Len(w) : Rank(r) < Rank(w[i])
    BY <1>1 DEF LocksInv, Orderly
  <2> HIDE DEF w, row
  <2>2. ASSUME NEW i \in 1 .. Len(Tail(w)) PROVE i + 1 \in 1 .. Len(w) /\ 1 < i + 1
    BY <1>2
  <2>3. Ascending(Tail(w))
    <3>1. ASSUME NEW i \in 1 .. Len(Tail(w)), NEW j \in 1 .. Len(Tail(w)), i < j
          PROVE  Rank(Tail(w)[i]) < Rank(Tail(w)[j])
      <4>1. i + 1 < j + 1
        BY <1>2, <3>1
      <4> QED BY <1>2, <2>1, <2>2, <4>1 DEF Ascending
    <3> QED BY <3>1 DEF Ascending
  <2>4. ASSUME NEW r \in Rows, owner'[r] = p, NEW i \in 1 .. Len(Tail(w))
        PROVE  Rank(r) < Rank(Tail(w)[i])
    <3>1. CASE r = row
      <4>1. 1 \in 1 .. Len(w)
        BY <1>2
      <4> QED BY <1>2, <2>1, <2>2, <3>1, <4>1 DEF Ascending
    <3>2. CASE r # row
      BY <1>2, <1>8, <2>1, <2>2, <2>4, <3>2
    <3> QED BY <3>1, <3>2
  <2>5. new.op = new.ask.op
    BY <1>5, <2>1
  <2> QED BY <1>5, <1>6, <1>7, <2>3, <2>4, <2>5 DEF Orderly
<1>10. ASSUME NEW q \in Processes \ { p } PROVE Orderly(q)'
  <2>1. \A r \in Rows : owner'[r] = q => owner[r] = q
    BY <1>8
  <2> QED BY <1>7, <2>1, OrderlyKeeps DEF LocksInv
<1> QED BY <1>7, <1>8, <1>9, <1>10 DEF LocksInv

LEMMA EndStep ==
  ASSUME LocksInv, NEW p \in Processes, End(p)
  PROVE  LocksInv'
<1>1. /\ tx' = [ tx EXCEPT ![p] = Idle ]
      /\ owner' = [ row \in Rows |-> IF owner[row] = p THEN NoOne ELSE owner[row] ]
  BY DEF End
<1>2. /\ tx' \in [ Processes -> Transaction \cup { Idle } ]
      /\ tx'[p] = Idle /\ \A q \in Processes \ { p } : tx'[q] = tx[q]
  BY <1>1 DEF LocksInv
<1>3. owner' \in [ Rows -> Processes \cup { NoOne } ]
  BY <1>1 DEF LocksInv
<1>4. p # NoOne
  BY PatrolAssumption
<1>5. Orderly(p)'
  BY <1>1, <1>2, <1>4 DEF Orderly
<1>6. ASSUME NEW q \in Processes \ { p } PROVE Orderly(q)'
  <2>1. q # NoOne
    BY PatrolAssumption
  <2>2. \A r \in Rows : owner'[r] = q => owner[r] = q
    BY <1>1, <2>1
  <2> QED BY <1>2, <2>2, OrderlyKeeps DEF LocksInv
<1> QED BY <1>2, <1>3, <1>5, <1>6 DEF LocksInv

LEMMA LocksStep ==
  ASSUME LocksInv, LockMove
  PROVE  LocksInv'
<1>1. CASE LocksStill
  BY <1>1, OrderlyKeeps DEF LocksStill, LocksInv
<1> QED BY <1>1, BeginStep, AcquireStep, EndStep DEF LockMove

\* A circle of waiting processes would have a process whose row comes last;
\* but whoever holds that row waits for a row that comes later still.
LEMMA LocksAvoidCircles == LocksInv => NoCircularWait
<1> SUFFICES ASSUME LocksInv,
                    NEW group \in (SUBSET { p \in Processes : Waiting(p) }) \ { {} },
                    \A p \in group : owner[Head(tx[p].wants)] \in group
             PROVE  FALSE
  BY DEF NoCircularWait
<1> DEFINE Place(p) == Rank(Head(tx[p].wants))
           top == Len(AssignmentRows) + 2
           Depth(p) == top - Place(p)
           depths == { Depth(p) : p \in group }
<1>1. ASSUME NEW p \in group
      PROVE  /\ p \in Processes /\ Waiting(p) /\ tx[p] # Idle
             /\ Head(tx[p].wants) \in Rows /\ 1 \in 1 .. Len(tx[p].wants)
             /\ Head(tx[p].wants) = tx[p].wants[1]
  BY WantedRow DEF Waiting
<1>2. top \in Nat
  BY PatrolRankOf
<1>3. ASSUME NEW p \in group PROVE Place(p) \in 0 .. top
  BY <1>1, PatrolRankBound
<1> HIDE DEF top, Place
<1>4. \A p \in group : Depth(p) \in Nat
  BY <1>2, <1>3
<1>5. depths \in SUBSET Nat /\ depths # {}
  <2>1. group # {}
    OBVIOUS
  <2> HIDE DEF Depth
  <2> QED BY <1>4, <2>1
<1>6. PICK d \in depths : \A e \in depths : ~(e < d)
  <2>1. depths \subseteq Nat /\ depths # {}
    BY <1>5
  <2> HIDE DEF depths
  <2>2. PICK d \in depths : \A e \in depths : << e, d >> \notin OpToRel(<, Nat)
    BY <2>1, NatLessThanWellFounded, WFMin, Zenon
  <2>3. \A e \in depths : ~(e < d)
    BY <2>1, <2>2 DEF OpToRel
  <2> QED BY <2>2, <2>3
<1>7. PICK p \in group : d = Depth(p)
  BY <1>6
<1> DEFINE q == owner[Head(tx[p].wants)]
<1>8. q \in group
  OBVIOUS
<1>9. Place(p) < Place(q)
  BY <1>1, <1>8 DEF LocksInv, Orderly, Place
<1>10. Depth(q) \in depths
  BY <1>8
<1>11. Depth(q) < d
  BY <1>2, <1>3, <1>7, <1>8, <1>9
<1> QED BY <1>6, <1>10, <1>11

---------------------------------------------------------------------------
(* The verdicts on the checkpoints.                                         *)

Visits(s) == { v \in verifications : v.at = s }

Visited == { "VERIFIED", "LATE" }

\* One checkpoint's verdict, and the visits that stand behind it.
Verdict(s) ==
  /\ checkpoints[s].state \notin Visited => Visits(s) = {}
  /\ checkpoints[s].state \in Visited => \E v \in verifications : Visits(s) = { v }
  /\ checkpoints[s].state = "VERIFIED" =>
       \A v \in Visits(s) : /\ checkpoints[s].opens <= v.recorded
                            /\ v.recorded <= checkpoints[s].late
  /\ checkpoints[s].state = "LATE" =>
       \A v \in Visits(s) : /\ checkpoints[s].late < v.recorded
                            /\ v.recorded <= checkpoints[s].missed
  /\ checkpoints[s].state = "MISSED" => checkpoints[s].missed < now
  /\ checkpoints[s].state = "CANCELLED" =>
       run.status = "ABANDONED" /\ run.ended <= checkpoints[s].missed

\* Until it is started a run has no checkpoints and nobody has visited one.
NotStarted ==
  run.status \in { "NONE", "SCHEDULED" } => checkpoints = << >> /\ verifications = {}

RunInv ==
  /\ now \in 0 .. MaxTime
  /\ run \in RunRecord \cup { NoRun }
  /\ checkpoints \in Seq(CheckpointRow)
  /\ verifications \subseteq VerificationRow
  /\ DOMAIN checkpoints \subseteq Stops
  /\ NotStarted
  /\ \A s \in DOMAIN checkpoints : Verdict(s)

LEMMA VerdictsAreOne == RunInv => OneVerdict
<1> SUFFICES ASSUME RunInv, NEW s \in DOMAIN checkpoints
             PROVE  LET row     == checkpoints[s]
                        visits  == { v \in verifications : v.at = s }
                        at      == { v.recorded : v \in visits }
                    IN  /\ Cardinality(visits) =
                             (IF row.state \in { "VERIFIED", "LATE" } THEN 1 ELSE 0)
                        /\ row.state = "VERIFIED" => \A t \in at : row.opens <= t /\ t <= row.late
                        /\ row.state = "LATE" => \A t \in at : row.late < t /\ t <= row.missed
                        /\ row.state = "MISSED" => row.missed < now
                        /\ row.state = "CANCELLED" =>
                             run.status = "ABANDONED" /\ run.ended <= row.missed
  BY DEF OneVerdict
<1>1. Verdict(s)
  BY DEF RunInv
<1>2. Visits(s) = { v \in verifications : v.at = s }
  BY DEF Visits
<1>3. Cardinality(Visits(s)) = (IF checkpoints[s].state \in Visited THEN 1 ELSE 0)
  <2>1. CASE checkpoints[s].state \notin Visited
    <3>1. Visits(s) = {}
      BY <1>1, <2>1 DEF Verdict
    <3> QED BY <2>1, <3>1, FS_EmptySet
  <2>2. CASE checkpoints[s].state \in Visited
    <3>1. PICK v \in verifications : Visits(s) = { v }
      BY <1>1, <2>2 DEF Verdict
    <3>2. Cardinality({ v }) = 1
      BY FS_Singleton
    <3> QED BY <2>2, <3>1, <3>2
  <2> QED BY <2>1, <2>2
<1>4. /\ checkpoints[s].state = "VERIFIED" =>
           \A t \in { v.recorded : v \in Visits(s) } :
             checkpoints[s].opens <= t /\ t <= checkpoints[s].late
      /\ checkpoints[s].state = "LATE" =>
           \A t \in { v.recorded : v \in Visits(s) } :
             checkpoints[s].late < t /\ t <= checkpoints[s].missed
  BY <1>1 DEF Verdict
<1>5. /\ checkpoints[s].state = "MISSED" => checkpoints[s].missed < now
      /\ checkpoints[s].state = "CANCELLED" =>
           run.status = "ABANDONED" /\ run.ended <= checkpoints[s].missed
  BY <1>1 DEF Verdict
<1> QED BY <1>2, <1>3, <1>4, <1>5 DEF Visited

\* What one step does to the run, its checkpoints and its verifications.
RunStill == /\ now' \in { now, now + 1 } /\ now' \in 0 .. MaxTime
            /\ run' = run /\ checkpoints' = checkpoints /\ verifications' = verifications

Schedules ==
  /\ run = NoRun
  /\ \E v \in DOMAIN Definitions :
       run' = [ status |-> "SCHEDULED", version |-> v, started |-> 0,
                ended |-> 0, reason |-> FALSE ]
  /\ now' = now /\ checkpoints' = checkpoints /\ verifications' = verifications

Starts ==
  /\ run.status = "SCHEDULED"
  /\ run' = [ run EXCEPT !.status = "IN_PROGRESS", !.started = now ]
  /\ checkpoints' = Materialised(Definitions[run.version], now)
  /\ now' = now /\ verifications' = verifications

Cancels ==
  /\ run.status = "SCHEDULED"
  /\ run' = [ run EXCEPT !.status = "CANCELLED", !.ended = now ]
  /\ now' = now /\ checkpoints' = checkpoints /\ verifications' = verifications

Abandons(reason) ==
  /\ run.status = "IN_PROGRESS"
  /\ run' = [ run EXCEPT !.status = "ABANDONED", !.ended = now, !.reason = reason ]
  /\ checkpoints' = [ s \in DOMAIN checkpoints |->
       [ checkpoints[s] EXCEPT !.state = Abandoned(checkpoints[s]) ] ]
  /\ now' = now /\ verifications' = verifications

Resolves(s, state) ==
  /\ run.status = "IN_PROGRESS"
  /\ checkpoints' = [ checkpoints EXCEPT ![s].state = state ]
  /\ run' = CompletedIfFinished([ checkpoints EXCEPT ![s].state = state ])
  /\ now' = now

Verifies(s, visit) ==
  /\ s \in DOMAIN checkpoints /\ checkpoints[s].state = "PENDING"
  /\ Timing(checkpoints[s]) \in Visited
  /\ Resolves(s, Timing(checkpoints[s]))
  /\ visit.at = s /\ visit.recorded = now
  /\ verifications' = verifications \cup { visit }

Sweeps(s) ==
  /\ IsMissed(checkpoints[s]) /\ Resolves(s, "MISSED")
  /\ verifications' = verifications

RunMove ==
  \/ RunStill \/ Schedules \/ Starts \/ Cancels
  \/ \E reason \in BOOLEAN : Abandons(reason)
  \/ \E s \in Stops, visit \in VerificationRow : Verifies(s, visit)
  \/ \E s \in Stops : Sweeps(s)

LEMMA RunStillStep == ASSUME RunInv, RunStill PROVE RunInv'
<1>1. now \in Nat /\ now' \in Nat /\ now <= now'
  BY PatrolAssumption DEF RunInv, RunStill
<1>2. \A s \in DOMAIN checkpoints : checkpoints[s] \in CheckpointRow
  BY DEF RunInv
<1>3. ASSUME NEW s \in DOMAIN checkpoints PROVE Verdict(s)'
  <2>1. Verdict(s) /\ checkpoints[s].missed \in Nat
    BY <1>2 DEF RunInv, CheckpointRow
  <2>2. checkpoints[s].missed < now => checkpoints[s].missed < now'
    BY <1>1, <2>1
  <2> QED BY <2>1, <2>2 DEF RunStill, Verdict, Visits
<1> QED BY <1>3 DEF RunInv, RunStill, NotStarted

LEMMA RunStatusFacts ==
  ASSUME RunInv, NEW status, run.status = status, status # "NONE"
  PROVE  run \in RunRecord
  BY DEF RunInv, NoRun

LEMMA SchedulesStep == ASSUME RunInv, Schedules PROVE RunInv'
<1>1. run.status = "NONE" /\ checkpoints = << >> /\ verifications = {}
  BY DEF Schedules, RunInv, NoRun, NotStarted
<1>2. PICK v \in DOMAIN Definitions :
        run' = [ status |-> "SCHEDULED", version |-> v, started |-> 0,
                 ended |-> 0, reason |-> FALSE ]
  BY DEF Schedules
<1>3. run' \in RunRecord
  BY <1>2, PatrolAssumption DEF RunRecord
<1>4. checkpoints' = << >> /\ verifications' = {} /\ DOMAIN checkpoints' = {}
  BY <1>1 DEF Schedules
<1>5. NotStarted'
  BY <1>4 DEF NotStarted
<1> QED BY <1>3, <1>4, <1>5 DEF RunInv, Schedules

LEMMA CancelsStep == ASSUME RunInv, Cancels PROVE RunInv'
<1>1. run \in RunRecord /\ checkpoints = << >> /\ verifications = {}
  BY RunStatusFacts DEF Cancels, RunInv, NotStarted
<1>2. run' \in RunRecord
  BY <1>1 DEF Cancels, RunInv, RunRecord
<1>3. checkpoints' = << >> /\ verifications' = {} /\ DOMAIN checkpoints' = {}
  BY <1>1 DEF Cancels
<1>4. NotStarted'
  BY <1>3 DEF NotStarted
<1> QED BY <1>2, <1>3, <1>4 DEF RunInv, Cancels


\* A sequence of rows, seen as a function on an interval.
LEMMA RowsAsFunction ==
  ASSUME NEW S, NEW q \in Seq(S)
  PROVE  /\ Len(q) \in Nat /\ DOMAIN q = 1 .. Len(q)
         /\ q \in [ DOMAIN q -> S ]
         /\ [ DOMAIN q -> S ] \subseteq Seq(S)
<1>1. Len(q) \in Nat /\ DOMAIN q = 1 .. Len(q) /\ q \in [ 1 .. Len(q) -> S ]
  OBVIOUS
<1>2. [ 1 .. Len(q) -> S ] \subseteq Seq(S)
  BY <1>1, SeqDef
<1> QED BY <1>1, <1>2

LEMMA StartsStep == ASSUME RunInv, Starts PROVE RunInv'
<1>1. run \in RunRecord /\ checkpoints = << >> /\ verifications = {}
  BY RunStatusFacts DEF Starts, RunInv, NotStarted
<1>2. run' \in RunRecord /\ run'.status = "IN_PROGRESS"
  BY <1>1 DEF Starts, RunInv, RunRecord
<1>3. run.version \in DOMAIN Definitions
  BY <1>1 DEF RunRecord
<1> DEFINE d == Definitions[run.version]
<1>4. d \in Seq(Window)
  BY <1>3, PatrolAssumption
<1>5. DOMAIN d \subseteq Stops
  BY <1>3 DEF Stops
<1>6. checkpoints' = Materialised(d, now)
  BY DEF Starts
<1>7. now \in Nat
  BY PatrolAssumption DEF RunInv
<1> HIDE DEF d
<1>8. /\ DOMAIN checkpoints' = DOMAIN d
      /\ \A s \in DOMAIN d : /\ checkpoints'[s] \in CheckpointRow
                             /\ checkpoints'[s].state = "PENDING"
  <2>1. ASSUME NEW s \in DOMAIN d
        PROVE  /\ checkpoints'[s] \in CheckpointRow /\ checkpoints'[s].state = "PENDING"
    <3>1. d[s] \in Window
      BY <1>4
    <3>2. d[s].open \in Nat /\ d[s].late \in Nat /\ d[s].missed \in Nat
      BY <3>1 DEF Window
    <3>3. checkpoints'[s] = [ state |-> "PENDING", opens |-> now + d[s].open,
                              late |-> now + d[s].late, missed |-> now + d[s].missed ]
      BY <1>6 DEF Materialised
    <3> QED BY <1>7, <3>2, <3>3 DEF CheckpointRow
  <2> QED BY <1>6, <2>1 DEF Materialised
<1>9. checkpoints' \in Seq(CheckpointRow)
  <2>1. checkpoints' \in [ DOMAIN d -> CheckpointRow ]
    BY <1>6, <1>8 DEF Materialised
  <2>2. Len(d) \in Nat /\ DOMAIN d = 1 .. Len(d)
    BY <1>4, RowsAsFunction
  <2>3. [ 1 .. Len(d) -> CheckpointRow ] \subseteq Seq(CheckpointRow)
    BY <2>2, SeqDef
  <2> QED BY <2>1, <2>2, <2>3
<1>10. verifications' = {}
  BY <1>1 DEF Starts
<1>11. \A s \in DOMAIN checkpoints' : Verdict(s)'
  BY <1>8, <1>10 DEF Verdict, Visits, Visited
<1>12. NotStarted'
  BY <1>2 DEF NotStarted
<1> QED BY <1>2, <1>5, <1>8, <1>9, <1>10, <1>11, <1>12 DEF RunInv, Starts

LEMMA RowTyped ==
  ASSUME RunInv, NEW s \in DOMAIN checkpoints
  PROVE  /\ checkpoints[s] \in CheckpointRow
         /\ checkpoints[s].opens \in Nat /\ checkpoints[s].late \in Nat
         /\ checkpoints[s].missed \in Nat
<1>1. checkpoints[s] \in CheckpointRow
  BY DEF RunInv
<1> QED BY <1>1 DEF CheckpointRow

LEMMA AbandonsStep ==
  ASSUME RunInv, NEW reason \in BOOLEAN, Abandons(reason)
  PROVE  RunInv'
<1>1. run \in RunRecord /\ now \in 0 .. MaxTime /\ now \in Nat
  BY RunStatusFacts, PatrolAssumption DEF Abandons, RunInv
<1>2. run' \in RunRecord /\ run'.status = "ABANDONED" /\ run'.ended = now
  BY <1>1 DEF Abandons, RunRecord
<1>3. DOMAIN checkpoints' = DOMAIN checkpoints
  BY DEF Abandons
<1>4. ASSUME NEW s \in DOMAIN checkpoints
      PROVE  /\ checkpoints'[s] \in CheckpointRow
             /\ checkpoints'[s].opens = checkpoints[s].opens
             /\ checkpoints'[s].late = checkpoints[s].late
             /\ checkpoints'[s].missed = checkpoints[s].missed
             /\ checkpoints'[s].state = Abandoned(checkpoints[s])
             /\ Abandoned(checkpoints[s]) \in
                  { "VERIFIED", "LATE", "MISSED", "CANCELLED" }
  <2>1. checkpoints[s] \in CheckpointRow
    BY DEF RunInv
  <2>2. Abandoned(checkpoints[s]) \in { "VERIFIED", "LATE", "MISSED", "CANCELLED" }
    BY <2>1 DEF Abandoned, CheckpointRow
  <2>3. checkpoints'[s] = [ checkpoints[s] EXCEPT !.state = Abandoned(checkpoints[s]) ]
    BY DEF Abandons
  <2> QED BY <2>1, <2>2, <2>3 DEF CheckpointRow
<1>5. checkpoints' \in Seq(CheckpointRow)
  <2>1. checkpoints' \in [ DOMAIN checkpoints -> CheckpointRow ]
    BY <1>4 DEF Abandons
  <2> QED BY <2>1, RowsAsFunction DEF RunInv
<1>6. verifications' = verifications /\ now' = now
  BY DEF Abandons
<1>7. ASSUME NEW s \in DOMAIN checkpoints PROVE Verdict(s)'
  <2>1. Verdict(s) /\ checkpoints[s] \in CheckpointRow /\ checkpoints[s].missed \in Nat
    BY RowTyped DEF RunInv
  <2>2. Visits(s)' = Visits(s)
    BY <1>6 DEF Visits
  <2>3. CASE checkpoints[s].state = "PENDING"
    <3>1. checkpoints'[s].state = IF now > checkpoints[s].missed THEN "MISSED" ELSE "CANCELLED"
      BY <1>4, <2>3 DEF Abandoned
    <3>2. Visits(s) = {}
      BY <2>1, <2>3 DEF Verdict, Visited
    <3> QED BY <1>1, <1>2, <1>4, <1>6, <2>1, <2>2, <3>1, <3>2 DEF Verdict, Visited
  <2>4. CASE checkpoints[s].state # "PENDING"
    <3>1. checkpoints'[s].state = checkpoints[s].state
      BY <1>4, <2>4 DEF Abandoned
    <3>2. checkpoints[s].state # "CANCELLED"
      BY <2>1 DEF Verdict, Abandons
    <3> QED BY <1>4, <1>6, <2>1, <2>2, <3>1, <3>2 DEF Verdict, Visited
  <2> QED BY <2>3, <2>4
<1>8. NotStarted'
  BY <1>2 DEF NotStarted
<1> QED BY <1>2, <1>3, <1>5, <1>6, <1>7, <1>8 DEF RunInv

\* What resolving one checkpoint leaves of the others, and of the run.
LEMMA ResolvesFacts ==
  ASSUME RunInv, NEW s \in Stops, NEW state \in { "VERIFIED", "LATE", "MISSED" },
         Resolves(s, state)
  PROVE  /\ run \in RunRecord /\ run' \in RunRecord
         /\ run'.status \in { "IN_PROGRESS", "COMPLETED" }
         /\ checkpoints' \in Seq(CheckpointRow)
         /\ DOMAIN checkpoints' = DOMAIN checkpoints
         /\ \A q \in DOMAIN checkpoints :
              /\ checkpoints'[q].opens = checkpoints[q].opens
              /\ checkpoints'[q].late = checkpoints[q].late
              /\ checkpoints'[q].missed = checkpoints[q].missed
              /\ checkpoints'[q].state = IF q = s THEN state ELSE checkpoints[q].state
              /\ checkpoints[q].state # "CANCELLED"
<1>1. run \in RunRecord /\ run.status = "IN_PROGRESS"
  BY RunStatusFacts DEF Resolves
<1>2. now \in 0 .. MaxTime
  BY DEF RunInv
<1>3. run' = run \/ run' = [ run EXCEPT !.status = "COMPLETED", !.ended = now ]
  BY DEF Resolves, CompletedIfFinished
<1>4. run' \in RunRecord /\ run'.status \in { "IN_PROGRESS", "COMPLETED" }
  BY <1>1, <1>2, <1>3 DEF RunRecord
<1>5. checkpoints' = [ checkpoints EXCEPT ![s].state = state ]
  BY DEF Resolves
<1>6. DOMAIN checkpoints' = DOMAIN checkpoints
  BY <1>5
<1>7. ASSUME NEW q \in DOMAIN checkpoints
      PROVE  /\ checkpoints'[q] \in CheckpointRow
             /\ checkpoints'[q].opens = checkpoints[q].opens
             /\ checkpoints'[q].late = checkpoints[q].late
             /\ checkpoints'[q].missed = checkpoints[q].missed
             /\ checkpoints'[q].state = IF q = s THEN state ELSE checkpoints[q].state
             /\ checkpoints[q].state # "CANCELLED"
  <2>1. checkpoints[q] \in CheckpointRow
    BY DEF RunInv
  <2>2. checkpoints[q].state # "CANCELLED"
    BY <1>1 DEF RunInv, Verdict
  <2>3. CASE q = s
    <3>1. checkpoints'[q] = [ checkpoints[q] EXCEPT !.state = state ]
      BY <1>5, <2>3
    <3> QED BY <2>1, <2>2, <2>3, <3>1 DEF CheckpointRow
  <2>4. CASE q # s
    <3>1. checkpoints'[q] = checkpoints[q]
      BY <1>5, <2>4
    <3> QED BY <2>1, <2>2, <2>4, <3>1
  <2> QED BY <2>3, <2>4
<1>8. checkpoints' \in Seq(CheckpointRow)
  <2>1. checkpoints \in Seq(CheckpointRow)
    BY DEF RunInv
  <2>2. checkpoints' \in [ DOMAIN checkpoints -> CheckpointRow ]
    <3>1. checkpoints \in [ DOMAIN checkpoints -> CheckpointRow ]
      BY <2>1, RowsAsFunction
    <3> QED BY <1>5, <1>7, <3>1
  <2> QED BY <2>1, <2>2, RowsAsFunction
<1> QED BY <1>1, <1>4, <1>6, <1>7, <1>8

LEMMA VerifiesStep ==
  ASSUME RunInv, NEW s \in Stops, NEW visit \in VerificationRow, Verifies(s, visit)
  PROVE  RunInv'
<1> DEFINE state == Timing(checkpoints[s])
<1>1. now \in 0 .. MaxTime /\ now \in Nat /\ now' = now
  BY PatrolAssumption DEF RunInv, Verifies, Resolves
<1>2. /\ checkpoints[s] \in CheckpointRow /\ s \in DOMAIN checkpoints
      /\ checkpoints[s].opens \in Nat /\ checkpoints[s].late \in Nat
      /\ checkpoints[s].missed \in Nat
  BY RowTyped DEF Verifies
<1>3. state \in { "VERIFIED", "LATE" }
  BY DEF Verifies, Visited
<1>4. /\ state = "VERIFIED" => checkpoints[s].opens <= now /\ now <= checkpoints[s].late
      /\ state = "LATE" => checkpoints[s].late < now /\ now <= checkpoints[s].missed
  <2>1. CASE now < checkpoints[s].opens
    BY <1>1, <1>2, <1>3, <2>1 DEF Timing
  <2>2. CASE ~(now < checkpoints[s].opens) /\ now <= checkpoints[s].late
    BY <1>1, <1>2, <2>2 DEF Timing
  <2>3. CASE ~(now < checkpoints[s].opens) /\ ~(now <= checkpoints[s].late)
    BY <1>1, <1>2, <1>3, <2>3 DEF Timing
  <2> QED BY <2>1, <2>2, <2>3
<1>5. Resolves(s, state)
  BY DEF Verifies
<1> HIDE DEF state
<1>6. /\ run' \in RunRecord /\ run'.status \in { "IN_PROGRESS", "COMPLETED" }
      /\ checkpoints' \in Seq(CheckpointRow)
      /\ DOMAIN checkpoints' = DOMAIN checkpoints
      /\ \A q \in DOMAIN checkpoints :
           /\ checkpoints'[q].opens = checkpoints[q].opens
           /\ checkpoints'[q].late = checkpoints[q].late
           /\ checkpoints'[q].missed = checkpoints[q].missed
           /\ checkpoints'[q].state = IF q = s THEN state ELSE checkpoints[q].state
           /\ checkpoints[q].state # "CANCELLED"
  BY <1>3, <1>5, ResolvesFacts
<1>7. visit.at = s /\ visit.recorded = now /\ verifications' = verifications \cup { visit }
  BY DEF Verifies
<1>8. Visits(s) = {}
  BY <1>2 DEF Verifies, RunInv, Verdict, Visited
<1>9. Visits(s)' = { visit }
  BY <1>7, <1>8 DEF Visits
<1>10. ASSUME NEW q \in DOMAIN checkpoints, q # s PROVE Visits(q)' = Visits(q)
  BY <1>7, <1>10 DEF Visits
<1>11. Verdict(s)'
  <2>1. checkpoints'[s].state = state
    BY <1>2, <1>6
  <2> QED BY <1>1, <1>2, <1>3, <1>4, <1>6, <1>7, <1>9, <2>1 DEF Verdict, Visited
<1>12. ASSUME NEW q \in DOMAIN checkpoints, q # s PROVE Verdict(q)'
  <2>1. Verdict(q)
    BY DEF RunInv
  <2>2. Visits(q)' = Visits(q) /\ verifications \subseteq verifications'
    BY <1>7, <1>10, <1>12
  <2>3. checkpoints'[q].state = checkpoints[q].state
    BY <1>6, <1>12
  <2> QED BY <1>1, <1>6, <2>1, <2>2, <2>3 DEF Verdict
<1>13. NotStarted'
  BY <1>6 DEF NotStarted
<1>14. verifications' \subseteq VerificationRow
  BY <1>7 DEF RunInv
<1> QED BY <1>1, <1>6, <1>11, <1>12, <1>13, <1>14 DEF RunInv

LEMMA SweepsStep ==
  ASSUME RunInv, NEW s \in Stops, Sweeps(s)
  PROVE  RunInv'
<1>1. now \in 0 .. MaxTime /\ now' = now /\ verifications' = verifications
  BY DEF RunInv, Sweeps, Resolves
<1>2. Resolves(s, "MISSED")
  BY DEF Sweeps
<1>3. /\ run' \in RunRecord /\ run'.status \in { "IN_PROGRESS", "COMPLETED" }
      /\ checkpoints' \in Seq(CheckpointRow)
      /\ DOMAIN checkpoints' = DOMAIN checkpoints
      /\ \A q \in DOMAIN checkpoints :
           /\ checkpoints'[q].opens = checkpoints[q].opens
           /\ checkpoints'[q].late = checkpoints[q].late
           /\ checkpoints'[q].missed = checkpoints[q].missed
           /\ checkpoints'[q].state = IF q = s THEN "MISSED" ELSE checkpoints[q].state
           /\ checkpoints[q].state # "CANCELLED"
  BY <1>2, ResolvesFacts
<1>4. \A q \in DOMAIN checkpoints : Visits(q)' = Visits(q)
  BY <1>1 DEF Visits
<1>5. ASSUME s \in DOMAIN checkpoints PROVE Verdict(s)'
  <2>1. Verdict(s) /\ checkpoints[s].missed \in Nat
    BY <1>5, RowTyped DEF RunInv
  <2>2. checkpoints[s].missed < now /\ checkpoints[s].state = "PENDING"
    BY <1>1, <2>1, PatrolAssumption DEF Sweeps, IsMissed
  <2>3. Visits(s) = {}
    BY <2>1, <2>2 DEF Verdict, Visited
  <2>4. checkpoints'[s].state = "MISSED" /\ checkpoints'[s].missed = checkpoints[s].missed
    BY <1>3, <1>5
  <2> QED BY <1>1, <1>4, <1>5, <2>2, <2>3, <2>4 DEF Verdict, Visited
<1>6. ASSUME NEW q \in DOMAIN checkpoints, q # s PROVE Verdict(q)'
  <2>1. Verdict(q)
    BY DEF RunInv
  <2>2. checkpoints'[q].state = checkpoints[q].state
    BY <1>3, <1>6
  <2> QED BY <1>1, <1>3, <1>4, <2>1, <2>2 DEF Verdict
<1>7. NotStarted'
  BY <1>3 DEF NotStarted
<1> QED BY <1>1, <1>3, <1>5, <1>6, <1>7 DEF RunInv

LEMMA RunStep ==
  ASSUME RunInv, RunMove
  PROVE  RunInv'
  BY RunStillStep, SchedulesStep, StartsStep, CancelsStep, AbandonsStep, VerifiesStep,
     SweepsStep DEF RunMove

---------------------------------------------------------------------------
(* The invariant of the whole, and what each step of Patrol is an instance  *)
(* of.                                                                      *)

RestInv ==
  /\ route \in RouteVersion /\ Len(route.keys) = route.version
  /\ actions \subseteq { "start", "cancel", "abandon" } \X Keys
  /\ dutyStatus \in [ ToSet(AssignmentRows) ->
       { "REQUESTED", "ACCEPTED", "DECLINED", "IN_PROGRESS", "COMPLETED", "CANCELLED",
         "EXPIRED" } ]
  /\ failed \in 0 .. MaxFailedSweeps
  /\ backlog \in Seq(Stops)

PatrolInv == LocksInv /\ RunInv /\ RestInv

LEMMA PatrolInvTyped == PatrolInv => PatrolTypeOK
  BY DEF PatrolInv, LocksInv, RunInv, RestInv, PatrolTypeOK

LEMMA PatrolStops == Stops \subseteq Nat \ {0}
<1> SUFFICES ASSUME NEW v \in DOMAIN Definitions, NEW s \in DOMAIN Definitions[v]
             PROVE  s \in Nat \ {0}
  BY DEF Stops
<1>1. Definitions[v] \in Seq(Window)
  BY PatrolAssumption
<1> QED BY <1>1

\* What a request carries.
LEMMA AskFields ==
  ASSUME NEW ask \in Asks \cup SweepAsks
  PROVE  /\ ask.op \in { "create", "publish", "start", "cancel" } => ask.key \in Keys
         /\ ask.op = "abandon" => ask.key \in Keys /\ ask.reason \in BOOLEAN
         /\ ask.op = "verify" =>
              ask.at \in Stops /\ ask.key \in Keys /\ ask.source \in BOOLEAN
         /\ ask.op = "sweep" => ask.at \in Stops
         /\ ask.op = "move" =>
              ask.row \in ToSet(AssignmentRows) /\ ask.to \in DOMAIN AssignmentMoves
  BY DEF Asks, SweepAsks

LEMMA ReadyAsk ==
  ASSUME LocksInv, NEW p \in Processes, NEW op \in Operations, Ready(p, op)
  PROVE  tx[p].ask \in Asks \cup SweepAsks /\ tx[p].ask.op = op
<1>1. tx[p] # Idle
  BY DEF Ready, Operations, Idle
<1>2. tx[p] \in Transaction /\ tx[p].op = tx[p].ask.op
  BY <1>1 DEF LocksInv, Orderly
<1> QED BY <1>2 DEF Transaction, Ready

\* The steps that leave the run alone.
Same == /\ now' = now /\ run' = run
        /\ checkpoints' = checkpoints /\ verifications' = verifications

LEMMA SameMoves == ASSUME RunInv, Same PROVE RunMove
  BY DEF RunInv, Same, RunMove, RunStill

RestStill == UNCHANGED << route, actions, dutyStatus, failed, backlog >>

LEMMA RestKeeps == ASSUME RestInv, RestStill PROVE RestInv'
  BY DEF RestInv, RestStill

\* A step is one of those the invariant has been shown to survive.
Moves == LockMove /\ RunMove /\ RestInv'

LEMMA RequestMoves ==
  ASSUME PatrolInv, NEW p \in Desks, NEW ask \in Asks, Request(p, ask)
  PROVE  Moves
<1>1. LockMove
  BY DEF LockMove, Begins, Request, Processes
<1>2. RunMove
  BY SameMoves DEF PatrolInv, Same, Request
<1>3. RestInv'
  BY RestKeeps DEF PatrolInv, RestStill, Request
<1> QED BY <1>1, <1>2, <1>3 DEF Moves

LEMMA AcquireMoves ==
  ASSUME PatrolInv, NEW p \in Processes, Acquire(p)
  PROVE  Moves
<1>1. LockMove
  BY DEF LockMove
<1>2. RunMove
  BY SameMoves DEF PatrolInv, Same, Acquire
<1>3. RestInv'
  BY RestKeeps DEF PatrolInv, RestStill, Acquire
<1> QED BY <1>1, <1>2, <1>3 DEF Moves

LEMMA AbortMoves ==
  ASSUME PatrolInv, NEW p \in Processes, Abort(p)
  PROVE  Moves
<1>1. LockMove
  BY DEF LockMove, Abort
<1>2. RunMove
  BY SameMoves DEF PatrolInv, Same, Abort
<1>3. failed' \in 0 .. MaxFailedSweeps /\ backlog' \in Seq(Stops)
  <2>1. << >> \in Seq(Stops)
    OBVIOUS
  <2>2. failed \in 0 .. MaxFailedSweeps /\ backlog \in Seq(Stops)
    BY DEF PatrolInv, RestInv
  <2>3. CASE p = Sweeper
    <3>1. failed < MaxFailedSweeps /\ failed' = failed + 1 /\ backlog' = << >>
      BY <2>3 DEF Abort
    <3> QED BY <2>1, <2>2, <3>1, PatrolAssumption
  <2>4. CASE p # Sweeper
    BY <2>2, <2>4 DEF Abort
  <2> QED BY <2>3, <2>4
<1>4. RestInv'
  BY <1>3 DEF PatrolInv, RestInv, Abort
<1> QED BY <1>1, <1>2, <1>4 DEF Moves

LEMMA RouteMoves ==
  ASSUME PatrolInv, NEW p \in Processes, CreateRoute(p) \/ PublishVersion(p)
  PROVE  Moves
<1>1. LockMove
  BY DEF LockMove, CreateRoute, PublishVersion
<1>2. RunMove
  BY SameMoves DEF PatrolInv, Same, CreateRoute, PublishVersion
<1>3. Len(Definitions) \in Nat /\ Len(Definitions) > 0
  BY PatrolAssumption
<1>4. route' \in RouteVersion /\ Len(route'.keys) = route'.version
  <2>1. CASE CreateRoute(p)
    <3>1. tx[p].ask.key \in Keys
      BY <2>1, ReadyAsk, AskFields DEF CreateRoute, Operations, PatrolInv
    <3>2. << tx[p].ask.key >> \in Seq(Keys) /\ Len(<< tx[p].ask.key >>) = 1
      BY <3>1
    <3> QED BY <1>3, <2>1, <3>2 DEF CreateRoute, PatrolInv, RestInv, RouteVersion
  <2>2. CASE PublishVersion(p)
    <3>1. tx[p].ask.key \in Keys
      BY <2>2, ReadyAsk, AskFields DEF PublishVersion, Operations, PatrolInv
    <3> DEFINE more == Append(route.keys, tx[p].ask.key)
    <3>2. /\ route.keys \in Seq(Keys) /\ route.version \in 0 .. Len(Definitions)
          /\ Len(route.keys) = route.version
      BY DEF PatrolInv, RestInv, RouteVersion
    <3>3. more \in Seq(Keys) /\ Len(more) = route.version + 1
      BY <3>1, <3>2, AppendProperties
    <3>4. route' = route \/ route' = [ version |-> route.version + 1, keys |-> more ]
      BY <2>2 DEF PublishVersion
    <3>5. route'.version <= Len(Definitions)
      BY <2>2 DEF PublishVersion
    <3> HIDE DEF more
    <3>6. CASE route' = [ version |-> route.version + 1, keys |-> more ]
      BY <1>3, <3>2, <3>3, <3>5, <3>6 DEF RouteVersion
    <3> QED BY <3>4, <3>6 DEF PatrolInv, RestInv
  <2> QED BY <2>1, <2>2
<1>5. RestInv'
  BY <1>4 DEF PatrolInv, RestInv, CreateRoute, PublishVersion
<1> QED BY <1>1, <1>2, <1>5 DEF Moves

LEMMA ScheduleRunMoves ==
  ASSUME PatrolInv, NEW p \in Processes, ScheduleRun(p)
  PROVE  Moves
<1>1. LockMove
  BY DEF LockMove, ScheduleRun
<1>2. RestInv'
  BY RestKeeps DEF PatrolInv, RestStill, ScheduleRun
<1>3. RunMove
  <2>1. CASE route = NoRoute \/ ~ tx[p].eligible \/ run # NoRun
    BY <2>1, SameMoves DEF PatrolInv, Same, ScheduleRun
  <2>2. CASE ~(route = NoRoute \/ ~ tx[p].eligible \/ run # NoRun)
    <3>1. /\ route.keys \in Seq(Keys) /\ route.version \in 0 .. Len(Definitions)
          /\ Len(route.keys) = route.version /\ route \in RouteVersion
      BY DEF PatrolInv, RestInv, RouteVersion
    <3>2. route.version # 0
      <4>1. SUFFICES ASSUME route.version = 0 PROVE route = NoRoute
        BY <2>2
      <4>2. route.keys = << >>
        BY <3>1, <4>1, EmptySeq
      <4> QED BY <3>1, <4>1, <4>2 DEF RouteVersion, NoRoute
    <3>3. route.version \in DOMAIN Definitions
      BY <3>1, <3>2, PatrolAssumption
    <3>4. Schedules
      BY <2>2, <3>3 DEF ScheduleRun, Schedules
    <3> QED BY <3>4 DEF RunMove
  <2> QED BY <2>1, <2>2
<1> QED BY <1>1, <1>2, <1>3 DEF Moves

LEMMA StartRunMoves ==
  ASSUME PatrolInv, NEW p \in Processes, StartRun(p)
  PROVE  Moves
<1>1. LockMove
  BY DEF LockMove, StartRun
<1>2. CASE StartOutcome(p) # "updated"
  <2>1. RestInv'
    BY <1>2, RestKeeps DEF PatrolInv, RestStill, StartRun
  <2>2. RunMove
    BY <1>2, SameMoves DEF PatrolInv, Same, StartRun
  <2> QED BY <1>1, <2>1, <2>2 DEF Moves
<1>3. CASE StartOutcome(p) = "updated"
  <2>1. run.status = "SCHEDULED"
    BY <1>3 DEF StartOutcome
  <2>2. Starts
    BY <1>3, <2>1 DEF Starts, StartRun
  <2>3. tx[p].ask.key \in Keys
    BY ReadyAsk, AskFields DEF StartRun, Operations, PatrolInv
  <2>4. RestInv'
    BY <1>3, <2>3 DEF PatrolInv, RestInv, StartRun
  <2> QED BY <1>1, <2>2, <2>4 DEF Moves, RunMove
<1> QED BY <1>2, <1>3

LEMMA CancelRunMoves ==
  ASSUME PatrolInv, NEW p \in Processes, CancelRun(p)
  PROVE  Moves
<1>1. LockMove
  BY DEF LockMove, CancelRun
<1>2. CASE CancelOutcome(p) # "updated"
  <2>1. RestInv'
    BY <1>2, RestKeeps DEF PatrolInv, RestStill, CancelRun
  <2>2. RunMove
    BY <1>2, SameMoves DEF PatrolInv, Same, CancelRun
  <2> QED BY <1>1, <2>1, <2>2 DEF Moves
<1>3. CASE CancelOutcome(p) = "updated"
  <2>1. run.status = "SCHEDULED"
    BY <1>3 DEF CancelOutcome
  <2>2. Cancels
    BY <1>3, <2>1 DEF Cancels, CancelRun
  <2>3. tx[p].ask.key \in Keys
    BY ReadyAsk, AskFields DEF CancelRun, Operations, PatrolInv
  <2>4. RestInv'
    BY <1>3, <2>3 DEF PatrolInv, RestInv, CancelRun
  <2> QED BY <1>1, <2>2, <2>4 DEF Moves, RunMove
<1> QED BY <1>2, <1>3

LEMMA AbandonRunMoves ==
  ASSUME PatrolInv, NEW p \in Processes, AbandonRun(p)
  PROVE  Moves
<1>1. LockMove
  BY DEF LockMove, AbandonRun
<1>2. CASE AbandonOutcome(p) # "updated"
  <2>1. RestInv'
    BY <1>2, RestKeeps DEF PatrolInv, RestStill, AbandonRun
  <2>2. RunMove
    BY <1>2, SameMoves DEF PatrolInv, Same, AbandonRun
  <2> QED BY <1>1, <2>1, <2>2 DEF Moves
<1>3. CASE AbandonOutcome(p) = "updated"
  <2>1. run.status = "IN_PROGRESS"
    BY <1>3 DEF AbandonOutcome
  <2>2. tx[p].ask.key \in Keys /\ tx[p].ask.reason \in BOOLEAN
    BY ReadyAsk, AskFields DEF AbandonRun, Operations, PatrolInv
  <2>3. Abandons(tx[p].ask.reason)
    BY <1>3, <2>1 DEF Abandons, AbandonRun
  <2>4. RestInv'
    BY <1>3, <2>2 DEF PatrolInv, RestInv, AbandonRun
  <2> QED BY <1>1, <2>2, <2>3, <2>4 DEF Moves, RunMove
<1> QED BY <1>2, <1>3

LEMMA VerifyMoves ==
  ASSUME PatrolInv, NEW p \in Processes, VerifyCheckpoint(p)
  PROVE  Moves
<1>1. LockMove
  BY DEF LockMove, VerifyCheckpoint
<1>2. RestInv'
  BY RestKeeps DEF PatrolInv, RestStill, VerifyCheckpoint
<1>3. CASE Judged(p) \notin { "VERIFIED", "LATE" }
  <2>1. RunMove
    BY <1>3, SameMoves DEF PatrolInv, Same, VerifyCheckpoint
  <2> QED BY <1>1, <1>2, <2>1 DEF Moves
<1>4. CASE Judged(p) \in { "VERIFIED", "LATE" }
  <2> DEFINE ask == tx[p].ask
             visit == [ at |-> ask.at, key |-> ask.key, source |-> ask.source,
                        recorded |-> now ]
  <2>1. ask.at \in Stops /\ ask.key \in Keys /\ ask.source \in BOOLEAN
    BY ReadyAsk, AskFields DEF VerifyCheckpoint, Operations, PatrolInv
  <2>2. visit \in VerificationRow
    BY <2>1, PatrolStops DEF PatrolInv, RunInv, VerificationRow
  <2>3. /\ ask.at \in DOMAIN checkpoints /\ run.status = "IN_PROGRESS"
        /\ checkpoints[ask.at].state = "PENDING"
        /\ Judged(p) = Timing(checkpoints[ask.at])
    BY <1>4 DEF Judged
  <2>4. Verifies(ask.at, visit)
    BY <1>4, <2>3 DEF VerifyCheckpoint, Verifies, Resolves, Visited
  <2> QED BY <1>1, <1>2, <2>1, <2>2, <2>4 DEF Moves, RunMove
<1> QED BY <1>3, <1>4

LEMMA SweepMoves ==
  ASSUME PatrolInv, NEW p \in Processes, SweepMissed(p)
  PROVE  Moves
<1>1. LockMove
  BY DEF LockMove, SweepMissed
<1>2. RestInv'
  BY RestKeeps DEF PatrolInv, RestStill, SweepMissed
<1> DEFINE s == tx[p].ask.at
<1>3. s \in Stops
  BY ReadyAsk, AskFields DEF SweepMissed, Operations, PatrolInv
<1>4. CASE ~(run.status = "IN_PROGRESS" /\ IsMissed(checkpoints[s]))
  <2>1. RunMove
    BY <1>4, SameMoves DEF PatrolInv, Same, SweepMissed
  <2> QED BY <1>1, <1>2, <2>1 DEF Moves
<1>5. CASE run.status = "IN_PROGRESS" /\ IsMissed(checkpoints[s])
  <2>1. Sweeps(s)
    BY <1>5 DEF SweepMissed, Sweeps, Resolves
  <2> QED BY <1>1, <1>2, <1>3, <2>1 DEF Moves, RunMove
<1> QED BY <1>4, <1>5

LEMMA TransitionMoves ==
  ASSUME PatrolInv, NEW p \in Processes, TransitionAssignment(p)
  PROVE  Moves
<1>1. LockMove
  BY DEF LockMove, TransitionAssignment
<1>2. RunMove
  BY SameMoves DEF PatrolInv, Same, TransitionAssignment
<1>3. tx[p].ask.row \in ToSet(AssignmentRows) /\ tx[p].ask.to \in DOMAIN AssignmentMoves
  BY ReadyAsk, AskFields DEF TransitionAssignment, Operations, PatrolInv
<1>4. tx[p].ask.to \in
        { "REQUESTED", "ACCEPTED", "DECLINED", "IN_PROGRESS", "COMPLETED", "CANCELLED", "EXPIRED" }
  BY <1>3 DEF AssignmentMoves
<1>5. \/ dutyStatus' = dutyStatus
      \/ dutyStatus' = [ dutyStatus EXCEPT ![tx[p].ask.row] = tx[p].ask.to ]
  BY DEF TransitionAssignment
<1>6. RestInv'
  BY <1>3, <1>4, <1>5 DEF PatrolInv, RestInv, TransitionAssignment
<1> QED BY <1>1, <1>2, <1>6 DEF Moves

LEMMA FindMoves ==
  ASSUME PatrolInv, FindCandidates
  PROVE  Moves
<1>1. LockMove
  BY DEF LockMove, LocksStill, FindCandidates
<1>2. RunMove
  BY SameMoves DEF PatrolInv, Same, FindCandidates
<1> DEFINE due == { s \in DOMAIN checkpoints :
                      /\ checkpoints[s].state = "PENDING"
                      /\ checkpoints[s].missed < now + AppAhead }
<1>3. PICK listed \in SetToSeqs(due) :
        backlog' = SubSeq(listed, 1, IF Len(listed) < SweepLimit THEN Len(listed)
                                     ELSE SweepLimit)
  BY DEF FindCandidates
<1>4. due \subseteq Stops
  BY DEF PatrolInv, RunInv
<1>5. Cardinality(due) \in Nat
  <2>1. DOMAIN checkpoints = 1 .. Len(checkpoints) /\ Len(checkpoints) \in Nat
    BY RowsAsFunction DEF PatrolInv, RunInv
  <2>2. IsFiniteSet(DOMAIN checkpoints)
    BY <2>1, FS_Interval
  <2>3. IsFiniteSet(due)
    BY <2>2, FS_Subset
  <2> QED BY <2>3, FS_CardinalityType
<1> HIDE DEF due
<1>6. listed \in Seq(Stops)
  <2>1. listed \in [ 1 .. Cardinality(due) -> due ]
    BY <1>3 DEF SetToSeqs
  <2>2. listed \in [ 1 .. Cardinality(due) -> Stops ]
    BY <1>4, <2>1
  <2> QED BY <1>5, <2>2, SeqDef
<1>7. PICK n \in 0 .. Len(listed) : backlog' = SubSeq(listed, 1, n)
  <2>1. Len(listed) \in Nat
    BY <1>6
  <2> QED BY <1>3, <2>1, PatrolAssumption
<1>8. backlog' \in Seq(Stops)
  BY <1>6, <1>7, SubSeqProperties
<1>9. RestInv'
  BY <1>8 DEF PatrolInv, RestInv, FindCandidates
<1> QED BY <1>1, <1>2, <1>9 DEF Moves

LEMMA TakeMoves ==
  ASSUME PatrolInv, TakeCandidate
  PROVE  Moves
<1>1. RunMove
  BY SameMoves DEF PatrolInv, Same, TakeCandidate
<1>2. Head(backlog) \in Stops /\ Tail(backlog) \in Seq(Stops)
  BY HeadTailProperties, EmptySeq DEF PatrolInv, RestInv, TakeCandidate
<1>3. LockMove
  <2>1. [ op |-> "sweep", at |-> Head(backlog) ] \in SweepAsks
    BY <1>2 DEF SweepAsks
  <2>2. Begins(Sweeper, [ op |-> "sweep", at |-> Head(backlog) ])
    BY DEF TakeCandidate, Begins
  <2> QED BY <2>1, <2>2 DEF LockMove, Processes
<1>4. RestInv'
  BY <1>2 DEF PatrolInv, RestInv, TakeCandidate
<1> QED BY <1>1, <1>3, <1>4 DEF Moves

LEMMA TickMoves ==
  ASSUME PatrolInv, Tick
  PROVE  Moves
<1>1. LockMove
  BY DEF LockMove, LocksStill, Tick
<1>2. now \in 0 .. MaxTime /\ now < MaxTime /\ now' = now + 1 /\ now + 1 \in 0 .. MaxTime
  BY PatrolAssumption DEF PatrolInv, RunInv, Tick
<1>3. RunMove
  BY <1>2 DEF RunMove, RunStill, Tick
<1>4. RestInv'
  BY RestKeeps DEF PatrolInv, RestStill, Tick
<1> QED BY <1>1, <1>3, <1>4 DEF Moves

LEMMA PatrolInvStep ==
  ASSUME PatrolInv, [PatrolNext]_patrolVars
  PROVE  PatrolInv'
<1>1. Moves
  <2>1. CASE UNCHANGED patrolVars
    <3>1. LocksStill /\ Same /\ RestStill
      BY <2>1 DEF patrolVars, LocksStill, Same, RestStill
    <3> QED BY <3>1, SameMoves, RestKeeps DEF Moves, LockMove, PatrolInv
  <2>2. CASE PatrolNext
    <3>1. ASSUME NEW p \in Processes, Operate(p) PROVE Moves
      BY <3>1, AcquireMoves, RouteMoves, ScheduleRunMoves, StartRunMoves, CancelRunMoves,
         AbandonRunMoves, VerifyMoves, SweepMoves, TransitionMoves DEF Operate
    <3> QED BY <2>2, <3>1, RequestMoves, AbortMoves, FindMoves, TakeMoves, TickMoves
            DEF PatrolNext
  <2> QED BY <2>1, <2>2
<1> QED BY <1>1, LocksStep, RunStep DEF Moves, PatrolInv

LEMMA PatrolInvInit == PatrolInit => PatrolInv
<1> SUFFICES ASSUME PatrolInit PROVE PatrolInv
  OBVIOUS
<1>1. LocksInv
  <2>1. \A p \in Processes : p # NoOne
    BY PatrolAssumption
  <2> QED BY <2>1 DEF PatrolInit, LocksInv, Orderly
<1>2. RunInv
  <2>1. << >> \in Seq(CheckpointRow) /\ DOMAIN << >> = {}
    OBVIOUS
  <2>2. 0 \in 0 .. MaxTime
    BY PatrolAssumption
  <2> QED BY <2>1, <2>2 DEF PatrolInit, RunInv, NotStarted
<1>3. RestInv
  <2>1. << >> \in Seq(Stops) /\ << >> \in Seq(Keys) /\ Len(<< >>) = 0
    OBVIOUS
  <2>2. 0 \in 0 .. MaxFailedSweeps /\ 0 \in 0 .. Len(Definitions)
    BY PatrolAssumption
  <2> QED BY <2>1, <2>2 DEF PatrolInit, RestInv, NoRoute, RouteVersion
<1> QED BY <1>1, <1>2, <1>3 DEF PatrolInv

THEOREM PatrolInvariant == PatrolSpec => []PatrolInv
<1>1. PatrolInv /\ [PatrolNext]_patrolVars => PatrolInv'
  BY PatrolInvStep
<1> QED BY PatrolInvInit, <1>1, PTL DEF PatrolSpec

\* Type correctness: every row is one the tables accept, and every lock has one
\* holder or none (patrol.repository.ts 60-126).
THEOREM PatrolTypeCorrect == PatrolSpec => []PatrolTypeOK
  BY PatrolInvariant, PatrolInvTyped, PTL

\* However a verification, a sweep and an abandonment meet, a checkpoint has
\* the one verdict its window calls for, whoever carries it out and whatever
\* died on the way (patrol.repository.ts 855-1061).
THEOREM OneVerdictHolds == PatrolSpec => []OneVerdict
<1>1. PatrolInv => OneVerdict
  BY VerdictsAreOne DEF PatrolInv
<1> QED BY <1>1, PatrolInvariant, PTL

\* No group of transactions waits on itself, however many there are and however
\* many assignment rows they lock (patrol.repository.ts 219-226).
THEOREM NoCircularWaitHolds == PatrolSpec => []NoCircularWait
<1>1. PatrolInv => NoCircularWait
  BY LocksAvoidCircles DEF PatrolInv
<1> QED BY <1>1, PatrolInvariant, PTL

=============================================================================
