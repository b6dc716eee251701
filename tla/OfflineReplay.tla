--------------------------- MODULE OfflineReplay ---------------------------
(***************************************************************************)
(* The offline replay executor (core-api, modules/field-offline): what the *)
(* server does with the operations a device queued while it was offline.   *)
(*                                                                         *)
(* The module follows ONE replay namespace (organisation, site, operative, *)
(* device): its cursor row, its receipts, and the requests being served    *)
(* for it.  Any number of workers serve requests at the same time, in one  *)
(* server process or in several; the only things they share are database   *)
(* rows.  Every action below is one database transaction of the code, or   *)
(* one read made outside a transaction, so that what another worker does   *)
(* between two of them is possible here whenever it is possible there.     *)
(*                                                                         *)
(* The owning domains are FieldDomain.  A worker that crashes, an error    *)
(* that escapes the handler, a transaction whose answer is lost and a      *)
(* worker that outlives its lease are faults; at most MaxFaults of them    *)
(* happen in a behaviour.                                                  *)
(***************************************************************************)
EXTENDS FieldDomain

CONSTANTS
  Workers,         \* requests served at the same time
  NoReceipt,       \* no receipt row at a position
  NoRequest,       \* the worker serves no request
  MaxFaults,       \* bound on the faults of a behaviour
  StallsPossible   \* may a live worker outlive its 60 s processing lease?

ASSUME ReplayAssumption ==
  /\ MaxFaults \in Nat
  /\ StallsPossible \in BOOLEAN
  /\ NoRequest \notin Submissions

NoCursorRow  == -2   \* ensureCursor has not run yet
NullSequence == -1   \* last_finalized_sequence IS NULL: nothing decided yet

FinalStatuses == {"APPLIED", "REJECTED"}

ReceiptStatus == {"RECEIVED", "APPLYING", "UNKNOWN"} \cup FinalStatuses

\* A receipt is identified by its position.  Its request stands for the
\* fingerprint, the operation id and the stored downstream key; attempts is
\* attempt_count, the claim generation the fence compares; leaseExpired says
\* that processing_claimed_at is more than OFFLINE_PROCESSING_LEASE_MS ago.
Receipt == [ request : Submissions, status : ReceiptStatus,
             attempts : Nat, leaseExpired : BOOLEAN ]

Result == [request : Submissions, outcome : FinalStatuses]

ASSUME SentinelAssumption == NoReceipt \notin Receipt \cup Result

VARIABLES
  cursor,      \* last_finalized_sequence of the namespace
  receipts,    \* [Sequences -> Receipt \cup {NoReceipt}]
  pc,          \* where each worker stands in submit()
  request,     \* the operation it serves
  generation,  \* the claim generation it holds
  verdict,     \* the outcome it is about to record
  answers,     \* the results reported to the device
  faults       \* how many faults have happened

workerVars == <<pc, request, generation, verdict>>
vars == <<cursor, receipts, workerVars, answers, faults, domainVars>>

\* A worker between its claim and the end of its request.
Processing == {"probe", "execute", "commit", "finalize", "markUnknown"}

Locations == {"idle", "ensure", "admit", "claim", "lost"} \cup Processing

Finalized(s) == receipts[s] # NoReceipt /\ receipts[s].status \in FinalStatuses

Position(w) == request[w].sequence

\* Slip: no fence.
Unfenced(w) == receipts[Position(w)] # NoReceipt

\* B10-01, the fence of every write that ends an attempt.
Holds(w) == /\ receipts[Position(w)] # NoReceipt
            /\ receipts[Position(w)].status = "APPLYING"
            /\ receipts[Position(w)].attempts = generation[w]

\* A receipt row with its mutable columns rewritten.
Rewritten(s, status, attempts, leaseExpired) ==
  [receipts EXCEPT ![s] = [ request |-> receipts[s].request, status |-> status,
                            attempts |-> attempts, leaseExpired |-> leaseExpired ]]

SetStatus(s, status) ==
  receipts' = Rewritten(s, status, receipts[s].attempts, receipts[s].leaseExpired)

Go(w, location) == pc' = [pc EXCEPT ![w] = location]

\* The request is over: the worker forgets everything it held.
Finish(w) ==
  /\ pc' = [pc EXCEPT ![w] = "idle"]
  /\ request' = [request EXCEPT ![w] = NoRequest]
  /\ generation' = [generation EXCEPT ![w] = 0]
  /\ verdict' = [verdict EXCEPT ![w] = "none"]

Answer(q, outcome) == answers' = answers \cup {[request |-> q, outcome |-> outcome]}

Fault == faults < MaxFaults /\ faults' = faults + 1

---------------------------------------------------------------------------
(* Admission: classification under the cursor row's lock.                  *)

IdReused(q) == \E s \in Sequences \ {q.sequence} :
                  receipts[s] # NoReceipt /\ receipts[s].request.id = q.id

\* Slip: whatever lies ahead of the cursor is taken.
ClassifyWithGaps(q) == IF q.sequence > cursor THEN "FRESH" ELSE "SEQUENCE_STALE"

\* classifyOfflineSequence.  Above the last position there is no next one.
Classify(q) ==
  LET exists == receipts[q.sequence] # NoReceipt
      ahead  == cursor < MaxSequence
  IN  IF ahead /\ q.sequence = cursor + 1 THEN "FRESH"
      ELSE IF ahead /\ q.sequence > cursor + 1 THEN "SEQUENCE_GAP"
      ELSE IF ~exists THEN "SEQUENCE_STALE"
      ELSE IF receipts[q.sequence].request = q THEN "REPLAY"
      ELSE "SEQUENCE_REUSED"

SameRequest(q) == receipts[q.sequence] # NoReceipt /\ receipts[q.sequence].request = q

\* Anything that is not refused on identity and is not decided yet may proceed.
Creates(q) == /\ ~IdReused(q)
              /\ Classify(q) = "FRESH"
              /\ receipts[q.sequence] = NoReceipt

\* Slip: a receipt whose worker died before claiming it is refused for ever.
ReopensAttempted(q) == /\ ~IdReused(q)
                       /\ Classify(q) = "FRESH"
                       /\ SameRequest(q)
                       /\ receipts[q.sequence].status \in {"APPLYING", "UNKNOWN"}

Reopens(q) == /\ ~IdReused(q)
              /\ Classify(q) = "FRESH"
              /\ SameRequest(q)
              /\ ~Finalized(q.sequence)

\* Slip: the position alone identifies the request.
ReplaysPosition(q) == Finalized(q.sequence)

Replays(q) == /\ ~IdReused(q)
              /\ Classify(q) \in {"FRESH", "REPLAY"}
              /\ SameRequest(q)
              /\ Finalized(q.sequence)

Refuses(q) == ~Creates(q) /\ ~Reopens(q) /\ ~Replays(q)

---------------------------------------------------------------------------
(* One request, step by step.                                              *)

\* A request arrives.  Nothing orders requests: the device retries, a relay
\* repeats, two connections overlap.  Binding to the authenticated context
\* has passed; a request that fails it changes nothing.
Submit(w, q) ==
  /\ pc[w] = "idle"
  /\ Go(w, "ensure")
  /\ request' = [request EXCEPT ![w] = q]
  /\ UNCHANGED <<cursor, receipts, generation, verdict, answers, faults, domainVars>>

EnsureCursor(w) ==
  /\ pc[w] = "ensure"
  /\ cursor' = IF cursor = NoCursorRow THEN NullSequence ELSE cursor
  /\ Go(w, "admit")
  /\ UNCHANGED <<receipts, request, generation, verdict, answers, faults, domainVars>>

AdmitNew(w) ==
  /\ pc[w] = "admit" /\ Creates(request[w])
  /\ receipts' = [receipts EXCEPT ![Position(w)] =
                    [ request |-> request[w], status |-> "RECEIVED",
                      attempts |-> 0, leaseExpired |-> FALSE ]]
  /\ Go(w, "claim")
  /\ UNCHANGED <<cursor, request, generation, verdict, answers, faults, domainVars>>

AdmitReopened(w) ==
  /\ pc[w] = "admit" /\ Reopens(request[w])
  /\ Go(w, "claim")
  /\ UNCHANGED <<cursor, receipts, request, generation, verdict, answers, faults, domainVars>>

\* The stored result, built from the receipt alone.
AdmitReplayed(w) ==
  /\ pc[w] = "admit" /\ Replays(request[w])
  /\ Answer(request[w], receipts[Position(w)].status)
  /\ Finish(w)
  /\ UNCHANGED <<cursor, receipts, faults, domainVars>>

\* OPERATION_ID_REUSED, SEQUENCE_GAP, SEQUENCE_REUSED or SEQUENCE_STALE.
AdmitRefused(w) ==
  /\ pc[w] = "admit" /\ Refuses(request[w])
  /\ Finish(w)
  /\ UNCHANGED <<cursor, receipts, answers, faults, domainVars>>

\* Slip: the claim is not conditional on the receipt being open.
ClaimableUnlessBusy(s) == receipts[s].status # "APPLYING" \/ receipts[s].leaseExpired

\* Slip: an expired lease is not reclaimed.
ClaimableWhenFree(s) == receipts[s].status \in {"RECEIVED", "UNKNOWN"}

Claimable(s) ==
  \/ receipts[s].status \in {"RECEIVED", "UNKNOWN"}
  \/ receipts[s].status = "APPLYING" /\ receipts[s].leaseExpired

\* Compare-and-set on the receipt.  A first claim goes straight to the domain;
\* a later one first asks the domain what an earlier attempt left behind.
Claim(w) ==
  /\ pc[w] = "claim" /\ Claimable(Position(w))
  /\ LET g == receipts[Position(w)].attempts + 1 IN
       /\ receipts' = Rewritten(Position(w), "APPLYING", g, FALSE)
       /\ generation' = [generation EXCEPT ![w] = g]
       /\ Go(w, IF g > 1 THEN "probe" ELSE "execute")
  /\ UNCHANGED <<cursor, request, verdict, answers, faults, domainVars>>

\* OPERATION_IN_PROGRESS.
ClaimRefused(w) ==
  /\ pc[w] = "claim" /\ ~Claimable(Position(w))
  /\ Finish(w)
  /\ UNCHANGED <<cursor, receipts, answers, faults, domainVars>>

\* Slip: a later attempt does not look for evidence.
ProbeNothing(w) ==
  /\ pc[w] = "probe"
  /\ Go(w, "execute")
  /\ UNCHANGED <<cursor, receipts, request, generation, verdict, answers, faults, domainVars>>

\* probeCommittedEffect: evidence recovers APPLIED, its absence runs the call.
Probe(w) ==
  /\ pc[w] = "probe"
  /\ IF Committed(request[w])
       THEN Go(w, "finalize") /\ verdict' = [verdict EXCEPT ![w] = "APPLIED"]
       ELSE Go(w, "execute") /\ UNCHANGED verdict
  /\ UNCHANGED <<cursor, receipts, request, generation, answers, faults, domainVars>>

Conclude(w, outcome) ==
  /\ Go(w, "finalize")
  /\ verdict' = [verdict EXCEPT ![w] = outcome]
  /\ UNCHANGED <<cursor, receipts, request, generation, answers, faults>>

\* A send reads the sender's eligibility before its transaction opens.
CheckSender(w) ==
  /\ pc[w] = "execute" /\ request[w].kind = "SEND" /\ EligibleSender(request[w])
  /\ Go(w, "commit")
  /\ UNCHANGED <<cursor, receipts, request, generation, verdict, answers, faults, domainVars>>

\* The worker is about to run the domain transaction that decides the call.
InDomain(w) ==
  \/ pc[w] = "execute" /\ request[w].kind # "SEND"
  \/ pc[w] = "commit"

ExecuteCommits(w) ==
  /\ InDomain(w) /\ MayCommit(request[w])
  /\ CommitEffect(request[w])
  /\ Conclude(w, "APPLIED")

\* A duplicate, an assignment already there, a message already acknowledged.
ExecuteConverges(w) ==
  /\ InDomain(w) /\ Converges(request[w])
  /\ Conclude(w, "APPLIED")
  /\ UNCHANGED domainVars

\* A deterministic 4xx of the domain.
DomainRefuses(w) ==
  \/ InDomain(w) /\ ~MayCommit(request[w]) /\ ~Converges(request[w])
  \/ pc[w] = "execute" /\ request[w].kind = "SEND" /\ ~EligibleSender(request[w])

\* Slip: a 4xx taken for a success.
RefusalApplied(w) ==
  /\ DomainRefuses(w)
  /\ Conclude(w, "APPLIED")
  /\ UNCHANGED domainVars

ExecuteRefused(w) ==
  /\ DomainRefuses(w)
  /\ Conclude(w, "REJECTED")
  /\ UNCHANGED domainVars

\* The domain call throws something that is not a 4xx: before its transaction
\* commits, or after it, when only the answer is lost.
ExecuteFaults(w) ==
  /\ pc[w] \in {"execute", "commit"}
  /\ Fault
  /\ \/ UNCHANGED domainVars
     \/ InDomain(w) /\ MayCommit(request[w]) /\ CommitEffect(request[w])
  /\ Go(w, "markUnknown")
  /\ UNCHANGED <<cursor, receipts, request, generation, verdict, answers>>

\* Slip: the outcome without the cursor.
RecordWithoutAdvancing(w) ==
  Holds(w) /\ SetStatus(Position(w), verdict[w]) /\ UNCHANGED cursor

\* finalizeAndAdvance past its fence: the outcome and the cursor, together.
RecordOutcome(w) ==
  /\ Holds(w)
  /\ SetStatus(Position(w), verdict[w])
  /\ cursor' = IF cursor < Position(w) THEN Position(w) ELSE cursor

Finalize(w) ==
  /\ pc[w] = "finalize"
  /\ RecordOutcome(w)
  /\ Answer(request[w], verdict[w])
  /\ Finish(w)
  /\ UNCHANGED <<faults, domainVars>>

\* finalizeAndAdvance throws: rolled back, or committed and its answer lost.
FinalizeFaults(w) ==
  /\ pc[w] = "finalize"
  /\ Fault
  /\ RecordOutcome(w) \/ UNCHANGED <<cursor, receipts>>
  /\ Go(w, "markUnknown")
  /\ UNCHANGED <<request, generation, verdict, answers, domainVars>>

MarkUnknown(w) ==
  /\ pc[w] = "markUnknown" /\ Holds(w)
  /\ SetStatus(Position(w), "UNKNOWN")
  /\ Finish(w)
  /\ UNCHANGED <<cursor, answers, faults, domainVars>>

\* A newer attempt owns the receipt: this one wrote nothing.
FenceLost(w) ==
  /\ pc[w] \in {"finalize", "markUnknown"} /\ ~Holds(w)
  /\ Go(w, "lost")
  /\ UNCHANGED <<cursor, receipts, request, generation, verdict, answers, faults, domainVars>>

\* Slip: whatever the receipt says is taken for its outcome.
ReportsAnyStatus(w) ==
  /\ pc[w] = "lost"
  /\ Answer(request[w], receipts[Position(w)].status)
  /\ Finish(w)
  /\ UNCHANGED <<cursor, receipts, faults, domainVars>>

\* reportLostFence: the stored outcome if there is one, else come back later.
ReportLostFence(w) ==
  /\ pc[w] = "lost"
  /\ IF Finalized(Position(w)) THEN Answer(request[w], receipts[Position(w)].status)
                          ELSE UNCHANGED answers
  /\ Finish(w)
  /\ UNCHANGED <<cursor, receipts, faults, domainVars>>

---------------------------------------------------------------------------
(* What happens to workers and leases.                                     *)

\* The process dies, or an error escapes the handler.
Crash(w) ==
  /\ pc[w] # "idle"
  /\ Fault
  /\ Finish(w)
  /\ UNCHANGED <<cursor, receipts, answers, domainVars>>

\* The live attempt behind a receipt's current claim, if any.
Attending(s) == { w \in Workers : /\ pc[w] \in Processing
                                  /\ Position(w) = s
                                  /\ generation[w] = receipts[s].attempts }

\* Sixty seconds pass since the claim.  Whether the claimant can still be
\* running then is the environment's choice: nothing in the code stops it.
LeaseExpires(s) ==
  /\ receipts[s] # NoReceipt
  /\ receipts[s].status = "APPLYING" /\ ~receipts[s].leaseExpired
  /\ IF Attending(s) = {} THEN UNCHANGED faults ELSE StallsPossible /\ Fault
  /\ receipts' = Rewritten(s, "APPLYING", receipts[s].attempts, TRUE)
  /\ UNCHANGED <<cursor, workerVars, answers, domainVars>>

---------------------------------------------------------------------------

Init ==
  /\ cursor = NoCursorRow
  /\ receipts = [s \in Sequences |-> NoReceipt]
  /\ pc = [w \in Workers |-> "idle"]
  /\ request = [w \in Workers |-> NoRequest]
  /\ generation = [w \in Workers |-> 0]
  /\ verdict = [w \in Workers |-> "none"]
  /\ answers = {}
  /\ faults = 0
  /\ DomainInit

\* A step of the handler that needs no fault.
Advance(w) ==
  \/ EnsureCursor(w)
  \/ AdmitNew(w) \/ AdmitReopened(w) \/ AdmitReplayed(w) \/ AdmitRefused(w)
  \/ Claim(w) \/ ClaimRefused(w)
  \/ Probe(w)
  \/ CheckSender(w) \/ ExecuteCommits(w) \/ ExecuteConverges(w) \/ ExecuteRefused(w)
  \/ Finalize(w) \/ MarkUnknown(w) \/ FenceLost(w) \/ ReportLostFence(w)

WorkerFault(w) == ExecuteFaults(w) \/ FinalizeFaults(w) \/ Crash(w)

OtherActor ==
  DomainStep /\ UNCHANGED <<cursor, receipts, workerVars, answers, faults>>

Next ==
  \/ \E w \in Workers, q \in Submissions : Submit(w, q)
  \/ \E w \in Workers : Advance(w) \/ WorkerFault(w)
  \/ \E s \in Sequences : LeaseExpires(s)
  \/ OtherActor

Spec == Init /\ [][Next]_vars

\* Liveness is claimed for a server that keeps running, a device that keeps
\* sending what it has not been answered, and a clock that keeps going.
Unattended(s) == Attending(s) = {} /\ LeaseExpires(s)

FairSpec ==
  /\ Spec
  /\ \A w \in Workers : WF_vars(Advance(w))
  /\ \A q \in Submissions : SF_vars(\E w \in Workers : Submit(w, q))
  /\ \A s \in Sequences : WF_vars(Unattended(s))

---------------------------------------------------------------------------
(* Properties.                                                             *)

TypeOK ==
  /\ cursor \in -2 .. MaxSequence
  /\ receipts \in [Sequences -> Receipt \cup {NoReceipt}]
  /\ pc \in [Workers -> Locations]
  /\ request \in [Workers -> Submissions \cup {NoRequest}]
  /\ \A w \in Workers : pc[w] # "idle" => request[w] \in Submissions
  /\ generation \in [Workers -> Nat]
  /\ verdict \in [Workers -> FinalStatuses \cup {"none"}]
  /\ answers \subseteq Result
  /\ faults \in 0 .. MaxFaults
  /\ DomainTypeOK

\* The cursor, a row written by one transaction, and the receipts, rows written
\* by several others, describe the same prefix: the decided positions are
\* exactly those up to the cursor, and the only one that may be open is next.
DecidedPrefix ==
  \A s \in Sequences :
    /\ Finalized(s) <=> s <= cursor
    /\ receipts[s] # NoReceipt => s <= cursor + 1

\* No attempt works on a position behind an undecided one: whatever a worker
\* between its claim and its verdict serves, every earlier position is decided.
PredecessorsDecided ==
  \A w \in Workers : pc[w] \in Processing =>
    \A s \in Sequences : s < Position(w) => Finalized(s)

\* What a device was told about an operation is what the receipt of that very
\* operation says, now and for ever after.
AnswersAreStored ==
  \A a \in answers :
    LET s == a.request.sequence IN
      /\ Finalized(s)
      /\ receipts[s].request = a.request
      /\ receipts[s].status = a.outcome

\* However often an operation is retried, reclaimed or replayed, its domain
\* effect is committed at most once.
EffectAtMostOnce == \A k \in EvidenceRows : commits[k] <= 1

\* An APPLIED receipt is never empty: its own effect is committed, or the row
\* it names has reached the state it asked for without it.
Beyond(status) ==
  {status} \cup AllowedTransitions[status]
    \cup UNION { AllowedTransitions[t] : t \in AllowedTransitions[status] }

Reached(q) ==
  \/ /\ q.kind \in TransitionKinds
     /\ assignment[q.target] \in Beyond(ActionTarget[q.kind])
  \/ q.kind = "ACKNOWLEDGE" /\ delivery[q.target] = "ACKNOWLEDGED"

AppliedIsBacked ==
  \A s \in Sequences :
    receipts[s] # NoReceipt /\ receipts[s].status = "APPLIED" =>
      Committed(receipts[s].request) \/ Reached(receipts[s].request)

\* B10-02, field-offline.service.ts: a REJECTED receipt is provably truthful,
\* no effect of the operation has been committed.
RejectedLeavesNoEffect ==
  \A s \in Sequences :
    receipts[s] # NoReceipt /\ receipts[s].status = "REJECTED" =>
      ~Committed(receipts[s].request)

\* A decision is permanent: no late worker, whatever it believes, changes a
\* decided receipt, and the cursor never moves back.
KeepsDecisions ==
  /\ cursor' >= cursor
  /\ \A s \in Sequences : Finalized(s) => receipts'[s] = receipts[s]

DecisionsArePermanent == [][KeepsDecisions]_vars

\* Effects are committed in queue order: an effect is committed only for the
\* position right after the last decided one.
EffectsInQueueOrder ==
  [][ commits' # commits =>
        \E w \in Workers : InDomain(w) /\ pc'[w] # pc[w] /\ Position(w) = cursor + 1 ]_vars

\* The executor implements the queue it promises.
Decision(s) == IF Finalized(s)
                 THEN [request |-> receipts[s].request, outcome |-> receipts[s].status]
                 ELSE NoReceipt

Promise == INSTANCE OrderedDecisions WITH
             Positions  <- Sequences,
             Operations <- Submissions,
             Undecided  <- NoReceipt,
             decided    <- [s \in Sequences |-> Decision(s)],
             next       <- IF cursor = NoCursorRow THEN 0 ELSE cursor + 1,
             told       <- answers

ImplementsPromise == Promise!Spec

\* Every position of the queue is decided in the end.
EveryPositionDecided == \A s \in Sequences : <>Finalized(s)

\* Whatever was admitted is answered in the end, with a result and not with a
\* request to come back.
AdmittedIsAnswered ==
  \A q \in Submissions :
    SameRequest(q) ~> \E a \in answers : a.request = q

=============================================================================
