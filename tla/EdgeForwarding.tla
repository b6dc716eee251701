-------------------------- MODULE EdgeForwarding --------------------------
(***************************************************************************)
(* An Edge box and central: devices hand operations to the Edge's queue    *)
(* (EdgeQueue), the forwarder sends the evidence of each head to central   *)
(* and reads back the STANDING of the operation there, and central decides *)
(* the operations itself when their devices replay them (OfflineReplay).   *)
(*                                                                         *)
(* The loop that drives the store is the one edge-evidence.forwarder.ts    *)
(* describes: forwardableHeads, claimForForwarding, POST, map the answer.  *)
(* It is not in the repository; here it takes a list of heads, claims each *)
(* of them, and lets the requests overlap.                                 *)
(*                                                                         *)
(* Lost requests, lost answers, a signer without a key, a replay attempt   *)
(* that ends UNKNOWN and a crash of the Edge are faults; at most MaxFaults *)
(* happen in a behaviour.                                                  *)
(***************************************************************************)
EXTENDS EdgeQueue

CONSTANTS
  LinkFailures,  \* the failure categories a request may end in
  MaxFaults,     \* bound on the faults of a behaviour
  Returning      \* the namespaces whose device comes back and replays

ASSUME ForwardingAssumption ==
  /\ LinkFailures \subseteq FailureCategories \ {"NOT_ATTEMPTED"}
  /\ MaxFaults \in Nat

VARIABLES
  receipt,   \* status of the operation's replay receipt at central, "none" without one
  evidence,  \* the operations whose Edge receipt central has observed
  heads,     \* what is left of the list forwardableHeads returned
  inFlight,  \* each operation's request: none, on its way, or its answer coming back
  faults

centralVars == <<receipt, evidence>>
driverVars == <<heads, inFlight>>
vars == <<queueVars, centralVars, driverVars, faults>>

FinalStatuses == {"APPLIED", "REJECTED"}

ReceiptStatuses == {"none", "RECEIVED", "APPLYING", "UNKNOWN"} \cup FinalStatuses

\* standingOf: what central says of an operation it holds evidence of.
StandingOf ==
  [ none     |-> "EVIDENCE_RECORDED",
    RECEIVED |-> "AUTHORITATIVE_REPLAY_RECEIVED",
    APPLYING |-> "AUTHORITATIVE_REPLAY_APPLYING",
    APPLIED  |-> "AUTHORITATIVE_REPLAY_APPLIED",
    REJECTED |-> "AUTHORITATIVE_REPLAY_REJECTED",
    UNKNOWN  |-> "UNKNOWN" ]

Standings == { StandingOf[status] : status \in ReceiptStatuses }

Fault == faults < MaxFaults /\ faults' = faults + 1

---------------------------------------------------------------------------
(* The store's callers.                                                    *)

\* A device on the site network hands an operation over, for the first time
\* or again.
Admit(o) ==
  /\ AdmitStores(o) \/ AdmitRefuses(o)
  /\ UNCHANGED <<centralVars, driverVars, faults>>

Prune(n) ==
  /\ PruneSettled(n)
  /\ UNCHANGED <<centralVars, driverVars, faults>>

MarkReady(o) ==
  /\ o \in Unsettled(queue) /\ queue[o].state = "STORED_LOCAL"
  /\ MarkReadyToForward(o)
  /\ UNCHANGED <<centralVars, driverVars, faults>>

\* The list is read once and used over the following steps.
Sweep ==
  /\ running /\ heads = {} /\ ForwardableHeads # {}
  /\ heads' = ForwardableHeads
  /\ UNCHANGED <<queueVars, centralVars, inFlight, faults>>

ClaimHead(o) ==
  /\ o \in heads
  /\ ClaimForForwarding(o)
  /\ heads' = heads \ {o}
  /\ inFlight' = [inFlight EXCEPT ![o] = "sent"]
  /\ UNCHANGED <<centralVars, faults>>

\* Central verifies and records the evidence and answers with the standing.
CentralAnswers(o) ==
  /\ inFlight[o] = "sent"
  /\ evidence' = evidence \cup {o}
  /\ inFlight' = [inFlight EXCEPT ![o] = StandingOf[receipt[o]]]
  /\ UNCHANGED <<queueVars, receipt, heads, faults>>

\* mapStandingToOutcome, and the store call each outcome names.  UNKNOWN is an
\* answer from which nothing can be concluded.
Record(o, standing) ==
  \/ /\ standing \in {"EVIDENCE_RECORDED", "AUTHORITATIVE_REPLAY_RECEIVED"}
     /\ RecordCentralProgress(o, "CENTRAL_RECEIVED")
  \/ /\ standing = "AUTHORITATIVE_REPLAY_APPLYING"
     /\ RecordCentralProgress(o, "CENTRAL_APPLYING")
  \/ /\ standing = "AUTHORITATIVE_REPLAY_APPLIED"
     /\ Settle(o, "CENTRAL_ACCEPTED")
  \/ /\ standing = "AUTHORITATIVE_REPLAY_REJECTED"
     /\ Settle(o, "CENTRAL_REFUSED")
  \/ /\ standing = "UNKNOWN"
     /\ RecordTransportUnknown(o, "RESPONSE_UNINTELLIGIBLE")

AnswerArrives(o) ==
  /\ inFlight[o] \in Standings
  /\ Record(o, inFlight[o])
  /\ inFlight' = [inFlight EXCEPT ![o] = "none"]
  /\ UNCHANGED <<centralVars, heads, faults>>

\* The request, or the answer central already gave, is lost.
ExchangeFails(o) ==
  /\ inFlight[o] # "none"
  /\ Fault
  /\ \E category \in LinkFailures : RecordTransportUnknown(o, category)
  /\ inFlight' = [inFlight EXCEPT ![o] = "none"]
  /\ UNCHANGED <<centralVars, heads>>

\* NO_SIGNING_IDENTITY: nothing was sent.
CannotSign(o) ==
  /\ inFlight[o] = "sent"
  /\ Fault
  /\ RecordTransportUnknown(o, "NOT_ATTEMPTED")
  /\ inFlight' = [inFlight EXCEPT ![o] = "none"]
  /\ UNCHANGED <<centralVars, heads>>

Crash ==
  /\ Fault
  /\ Close
  /\ heads' = {}
  /\ inFlight' = [o \in Operations |-> "none"]
  /\ UNCHANGED centralVars

Start ==
  /\ Open
  /\ UNCHANGED <<centralVars, driverVars, faults>>

TimePasses ==
  /\ Tick
  /\ UNCHANGED <<centralVars, driverVars, faults>>

---------------------------------------------------------------------------
(* Central decides what the devices replay: one receipt per position, in   *)
(* order, and each decided once (OfflineReplay).                           *)

SameNamespace(o) == { p \in Operations : NamespaceOf[p] = NamespaceOf[o] }

\* Some operation has been decided at the position that p asks for.
PositionDecided(p) ==
  \E r \in SameNamespace(p) :
    SequenceOf[r] = SequenceOf[p] /\ receipt[r] \in FinalStatuses

\* The receipt steps of OfflineReplay; losing an attempt is a fault.
ReceiptSteps ==
  { <<"none", "RECEIVED">>, <<"RECEIVED", "APPLYING">>, <<"UNKNOWN", "APPLYING">>,
    <<"APPLYING", "APPLIED">>, <<"APPLYING", "REJECTED">> }

CentralMoves(o) ==
  /\ NamespaceOf[o] \in Returning
  /\ \A p \in SameNamespace(o) \ {o} :
       /\ SequenceOf[p] < SequenceOf[o] => PositionDecided(p)
       /\ SequenceOf[p] = SequenceOf[o] => receipt[p] = "none"
  /\ \E status \in ReceiptStatuses :
       /\ <<receipt[o], status>> \in ReceiptSteps
       /\ receipt' = [receipt EXCEPT ![o] = status]
  /\ UNCHANGED <<queueVars, evidence, driverVars, faults>>

CentralLosesAttempt(o) ==
  /\ receipt[o] = "APPLYING"
  /\ Fault
  /\ receipt' = [receipt EXCEPT ![o] = "UNKNOWN"]
  /\ UNCHANGED <<queueVars, evidence, driverVars>>

---------------------------------------------------------------------------

Init ==
  /\ QueueInit
  /\ receipt = [o \in Operations |-> "none"]
  /\ evidence = {}
  /\ heads = {}
  /\ inFlight = [o \in Operations |-> "none"]
  /\ faults = 0

Next ==
  \/ Start \/ TimePasses \/ Sweep \/ Crash
  \/ \E n \in 1 .. Cardinality(Operations) : Prune(n)
  \/ \E o \in Operations :
       \/ Admit(o) \/ MarkReady(o) \/ ClaimHead(o)
       \/ CentralAnswers(o) \/ AnswerArrives(o) \/ ExchangeFails(o) \/ CannotSign(o)
       \/ CentralMoves(o) \/ CentralLosesAttempt(o)

Spec == Init /\ [][Next]_vars

---------------------------------------------------------------------------
(* Properties.                                                             *)

TypeOK ==
  /\ QueueTypeOK
  /\ receipt \in [Operations -> ReceiptStatuses]
  /\ evidence \subseteq Operations
  /\ heads \subseteq Operations
  /\ inFlight \in [Operations -> {"none", "sent"} \cup Standings]
  /\ faults \in 0 .. MaxFaults

\* The CHECK constraints of edge-queue.schema.ts hold of every row the store's
\* calls would write, so no legal call is ever aborted by them half way
\* through an attempt: settled exactly when answered, the answer the right
\* one, never both an answer and an excuse, and never neither.
RowsSatisfyChecks ==
  \A o \in Stored(queue) :
    LET row == queue[o] IN
      /\ row.state \in SettledStates <=> row.settlement # "none"
      /\ row.state = "CENTRAL_APPLIED" => row.settlement = "CENTRAL_ACCEPTED"
      /\ row.state = "FAILED_TERMINAL" => row.settlement = "CENTRAL_REFUSED"
      /\ row.settlement = "none" \/ row.reason = "none"
      /\ row.state \in AcknowledgedStates \/ row.reason # "none"

\* Across crashes, reclamation and readmission, no two rows share an Edge
\* position, and the counter stays ahead of them, so the store opens again.
PositionsAreDistinct ==
  \A o \in Stored(queue) :
    /\ queue[o].position < nextPosition
    /\ \A p \in Stored(queue) \ {o} : queue[p].position # queue[o].position

\* A row is in FORWARDING exactly while a request of its own is open, so that
\* a crash strands nothing in the one state the queue never forwards from, and
\* every outcome of the request can be recorded.
ForwardingIsInFlight ==
  \A o \in Operations :
    /\ running => (inFlight[o] # "none" <=> o \in Unsettled(queue)
                                              /\ queue[o].state = "FORWARDING")
    /\ ~running => inFlight[o] = "none"

\* An operation is never attempted while one the Edge already held, earlier in
\* the same device's order, is unanswered.
NoOvertaking ==
  \A o, p \in Stored(queue) :
    /\ NamespaceOf[p] = NamespaceOf[o]
    /\ SequenceOf[p] < SequenceOf[o]
    /\ queue[p].position < queue[o].position
    /\ p \in Unsettled(queue)
    => queue[o].attempts = 0

\* The table is bounded: retention and capacity together, whatever the order
\* of admissions, settlements and reclamation.
TableIsBounded ==
  /\ Cardinality(Unsettled(queue)) <= MaxUnsettled
  /\ Cardinality(Stored(queue)) <= MaxUnsettled + SettledRetention

\* The Edge keeps its promise of custody.
Custody(o) ==
  IF queue[o] = NoRow THEN "none"
  ELSE CASE queue[o].state = "CENTRAL_APPLIED" -> "APPLIED"
         [] queue[o].state = "FAILED_TERMINAL" -> "REJECTED"
         [] OTHER -> "held"

Promise == INSTANCE EdgeCustody WITH
  ruling  <- [ o \in Operations |-> IF receipt[o] \in FinalStatuses THEN receipt[o] ELSE "none" ],
  custody <- [ o \in Operations |-> Custody(o) ]

ImplementsCustody == Promise!Spec

\* The write-ahead of an attempt survives whatever follows it: no crash, answer
\* or failure takes an attempt back, and nothing but the running clock brings
\* the next one nearer.
Remaining(o) == IF queue[o].due > unsaved THEN queue[o].due - unsaved ELSE 0

BackoffSurvives ==
  [][ \A o \in Unsettled(queue) :
        /\ queue'[o].attempts >= queue[o].attempts
        /\ Remaining(o)' < Remaining(o) => unsaved' = unsaved + 1 ]_vars

\* edge-evidence.forwarder.ts: central holds the Edge's provenance of a held
\* operation once the link is back, rather than waiting for a handset.
EvidenceNeedsNoHandset ==
  \A o \in Operations : o \in Stored(queue) ~> o \in evidence

=============================================================================
