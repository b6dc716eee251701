----------------------------- MODULE EdgeQueue -----------------------------
(***************************************************************************)
(* The Edge's durable operation store (edge-runtime, modules/queue): an    *)
(* SQLite table of signed operations an Edge box holds in custody until    *)
(* central has ruled on them, and the counter row beside it.               *)
(*                                                                         *)
(* Each operator below is one call of SqliteEdgeOperationStore, which is   *)
(* one synchronous transaction: it happens whole or, when the process dies *)
(* inside it, not at all.  EdgeForwarding supplies the actors that make    *)
(* the calls.                                                              *)
(*                                                                         *)
(* The durable clock is kept relative to its persisted high-water mark,    *)
(* last_observed_monotonic_ms:                                             *)
(*     unsaved  is  durableNowMs() minus the high-water mark,              *)
(*     due      is  next_attempt_monotonic_ms minus it, or 0 if it is past.*)
(* A row may be retried when due <= unsaved.  Persisting the clock moves   *)
(* the mark and rebases every row; a restart forgets unsaved.  No row is   *)
(* ever due later than RetryMax, so a clock that has run that far is not   *)
(* followed further.  Only differences of this clock reach a decision.     *)
(*                                                                         *)
(* Left out: the envelope, payload and receipt bytes and their re-checks,  *)
(* and the columns only metrics() reads.  first_stored_monotonic_ms, which *)
(* orders reclamation, never decreases along positions (admit persists the *)
(* clock it stamps), so positions stand for it.                            *)
(***************************************************************************)
EXTENDS Integers, FiniteSets

CONSTANTS
  Operations,        \* offline_operation_id values a device may hand over
  NamespaceOf,       \* [Operations -> namespace]: organisation, site, actor, device
  SequenceOf,        \* [Operations -> Nat]: device_sequence
  NoRow,             \* the table has no row for the operation
  MaxUnsettled,      \* EDGE_QUEUE_MAX_UNSETTLED
  SettledRetention,  \* EDGE_QUEUE_SETTLED_RETENTION
  MaxPosition,       \* EDGE_QUEUE_MAX_MONOTONIC_POSITION
  RetryBase,         \* EDGE_QUEUE_RETRY_BASE_DELAY_MS
  RetryMax,          \* EDGE_QUEUE_RETRY_MAX_DELAY_MS
  AttemptCap         \* attempts beyond this one have the same delay

\* edgeQueueRetryDelayMs.
RetryDelay(n) ==
  LET delay == RetryBase * 2 ^ (n - 1)
  IN  IF n = 0 THEN 0 ELSE IF delay < RetryMax THEN delay ELSE RetryMax

ASSUME QueueAssumption ==
  /\ IsFiniteSet(Operations)
  /\ DOMAIN NamespaceOf = Operations
  /\ SequenceOf \in [Operations -> Nat]
  /\ MaxUnsettled \in Nat /\ SettledRetention \in Nat /\ MaxPosition \in Nat
  /\ RetryBase \in Nat /\ RetryMax \in Nat /\ AttemptCap \in Nat \ {0}
  /\ \A n \in 0 .. AttemptCap : RetryDelay(n) \in 0 .. RetryMax
  /\ RetryDelay(AttemptCap) = RetryMax

SettledStates == {"CENTRAL_APPLIED", "FAILED_TERMINAL"}

AcknowledgedStates == {"CENTRAL_RECEIVED", "CENTRAL_APPLYING"} \cup SettledStates

\* Slip: what central has received is not asked about again.
ForwardableUntilReceived == {"READY_TO_FORWARD", "FAILED_RETRYABLE", "UNKNOWN"}

ForwardableStates ==
  {"READY_TO_FORWARD", "FAILED_RETRYABLE", "UNKNOWN", "CENTRAL_RECEIVED", "CENTRAL_APPLYING"}

States == {"STORED_LOCAL", "FORWARDING", "READY_TO_FORWARD", "FAILED_RETRYABLE", "UNKNOWN"}
            \cup AcknowledgedStates

StateForFailure ==
  [ NOT_ATTEMPTED           |-> "READY_TO_FORWARD",
    CONNECT_FAILED          |-> "FAILED_RETRYABLE",
    TIMED_OUT               |-> "UNKNOWN",
    TRANSPORT_ERROR         |-> "UNKNOWN",
    RESPONSE_UNINTELLIGIBLE |-> "UNKNOWN" ]

FailureCategories == DOMAIN StateForFailure

Transitions ==
  [ STORED_LOCAL     |-> {"READY_TO_FORWARD"},
    READY_TO_FORWARD |-> {"FORWARDING"},
    FORWARDING       |-> {"CENTRAL_RECEIVED", "CENTRAL_APPLYING", "CENTRAL_APPLIED",
                          "FAILED_TERMINAL", "FAILED_RETRYABLE", "UNKNOWN",
                          "READY_TO_FORWARD"},
    CENTRAL_RECEIVED |-> {"FORWARDING", "CENTRAL_APPLYING", "CENTRAL_APPLIED",
                          "FAILED_TERMINAL", "UNKNOWN"},
    CENTRAL_APPLYING |-> {"FORWARDING", "CENTRAL_APPLIED", "FAILED_TERMINAL", "UNKNOWN"},
    FAILED_RETRYABLE |-> {"READY_TO_FORWARD", "FORWARDING"},
    UNKNOWN          |-> {"READY_TO_FORWARD", "FORWARDING"},
    CENTRAL_APPLIED  |-> {},
    FAILED_TERMINAL  |-> {} ]

\* settlement is settlement_json: central's answer, or "none" while it is NULL;
\* reason is failure_category, "none" while it is NULL.
Row == [ position : Nat, state : States,
         settlement : {"none", "CENTRAL_ACCEPTED", "CENTRAL_REFUSED"},
         reason : FailureCategories \cup {"none"},
         attempts : 0 .. AttemptCap, due : Nat ]

ASSUME NoRowAssumption == NoRow \notin Row

VARIABLES
  queue,         \* [Operations -> Row \cup {NoRow}], durable
  nextPosition,  \* next_edge_monotonic_position, durable
  unsaved,       \* how far the clock has run since it was last persisted
  running        \* the store is open

queueVars == <<queue, nextPosition, unsaved, running>>

Stored(rows) == { o \in Operations : rows[o] # NoRow }

Unsettled(rows) == { o \in Stored(rows) : rows[o].settlement = "none" }

Settled(rows) == { o \in Stored(rows) : rows[o].settlement # "none" }

---------------------------------------------------------------------------

\* The clock is persisted together with the rows: MAX(last_observed, now).
SaveWithClock(rows) ==
  /\ queue' = [ o \in Operations |->
                  IF rows[o] = NoRow THEN NoRow
                  ELSE [rows[o] EXCEPT !.due = IF @ > unsaved THEN @ - unsaved ELSE 0] ]
  /\ unsaved' = 0

\* Slip: the oldest rows, whether or not central has answered them.
ReclaimedByAge(n) ==
  LET older(o) == { p \in Stored(queue) : queue[p].position < queue[o].position }
  IN  [ o \in Operations |->
          IF o \in Stored(queue) /\ Cardinality(older(o)) < n THEN NoRow ELSE queue[o] ]

\* The table without the n oldest settled rows.
Reclaimed(n) ==
  LET older(o) == { p \in Settled(queue) : queue[p].position < queue[o].position }
  IN  [ o \in Operations |->
          IF o \in Settled(queue) /\ Cardinality(older(o)) < n THEN NoRow ELSE queue[o] ]

\* Slip: off by one.
RetainsOneMore == Reclaimed(Cardinality(Settled(queue)) - SettledRetention - 1)

\* admit() first brings the settled rows down to their retention.
Retained == Reclaimed(Cardinality(Settled(queue)) - SettledRetention)

\* Slip: no end to the position space.
RefusesByTable(o) ==
  \/ Retained[o] # NoRow
  \/ \E p \in Stored(Retained) : /\ NamespaceOf[p] = NamespaceOf[o]
                                 /\ SequenceOf[p] = SequenceOf[o]
  \/ Cardinality(Unsettled(Retained)) >= MaxUnsettled

\* The refusals, in the code's order: DUPLICATE_OPERATION_ID,
\* SEQUENCE_POSITION_ALREADY_HELD, AT_CAPACITY, POSITION_SPACE_EXHAUSTED.
Refuses(o) ==
  \/ Retained[o] # NoRow
  \/ \E p \in Stored(Retained) : /\ NamespaceOf[p] = NamespaceOf[o]
                                 /\ SequenceOf[p] = SequenceOf[o]
  \/ Cardinality(Unsettled(Retained)) >= MaxUnsettled
  \/ nextPosition >= MaxPosition

FreshRow(position) ==
  [ position |-> position, state |-> "STORED_LOCAL", settlement |-> "none",
    reason |-> "NOT_ATTEMPTED", attempts |-> 0, due |-> unsaved ]

\* Slip: the position derived from the table instead of the counter.
DerivedPosition == Cardinality(Stored(Retained))

AllocatedPosition == nextPosition

AdmitStores(o) ==
  /\ running /\ ~Refuses(o)
  /\ SaveWithClock([Retained EXCEPT ![o] = FreshRow(AllocatedPosition)])
  /\ nextPosition' = nextPosition + 1
  /\ UNCHANGED running

\* A refusal is returned, not thrown: the reclamation before it is committed.
AdmitRefuses(o) ==
  /\ running /\ Refuses(o)
  /\ queue' = Retained
  /\ UNCHANGED <<nextPosition, unsaved, running>>

PruneSettled(n) ==
  /\ running
  /\ queue' = Reclaimed(n)
  /\ UNCHANGED <<nextPosition, unsaved, running>>

\* transitionTo.  A row that is missing or settled is left alone (false), and
\* an illegal transition throws: neither changes anything.
MayTransition(o, to) ==
  /\ running
  /\ o \in Unsettled(queue)
  /\ queue[o].state = to \/ to \in Transitions[queue[o].state]

TransitionTo(o, to, row) ==
  /\ MayTransition(o, to)
  /\ SaveWithClock([queue EXCEPT ![o] = row])
  /\ UNCHANGED <<nextPosition, running>>

MarkReadyToForward(o) ==
  TransitionTo(o, "READY_TO_FORWARD", [queue[o] EXCEPT !.state = "READY_TO_FORWARD"])

\* The attempt, its delay and its pessimistic outcome are written ahead of it.
ClaimForForwarding(o) ==
  LET attempt == IF queue[o].attempts < AttemptCap THEN queue[o].attempts + 1 ELSE AttemptCap
  IN  TransitionTo(o, "FORWARDING",
        [queue[o] EXCEPT !.state = "FORWARDING", !.reason = "TRANSPORT_ERROR",
                         !.attempts = attempt, !.due = unsaved + RetryDelay(attempt)])

RecordCentralProgress(o, progress) ==
  TransitionTo(o, progress, [queue[o] EXCEPT !.state = progress, !.reason = "none"])

\* Slip: an attempt that sent nothing is taken back.
RefundUnattempted(o, category) ==
  TransitionTo(o, StateForFailure[category],
    [queue[o] EXCEPT !.state = StateForFailure[category], !.reason = category,
                     !.attempts = IF category = "NOT_ATTEMPTED" THEN @ - 1 ELSE @])

RecordTransportUnknown(o, category) ==
  TransitionTo(o, StateForFailure[category],
    [queue[o] EXCEPT !.state = StateForFailure[category], !.reason = category])

\* Slip: the excuse stays on the row.
SettleKeepingReason(o, answer) ==
  LET to == IF answer = "CENTRAL_ACCEPTED" THEN "CENTRAL_APPLIED" ELSE "FAILED_TERMINAL"
  IN  TransitionTo(o, to, [queue[o] EXCEPT !.state = to, !.settlement = answer])

Settle(o, answer) ==
  LET to == IF answer = "CENTRAL_ACCEPTED" THEN "CENTRAL_APPLIED" ELSE "FAILED_TERMINAL"
  IN  TransitionTo(o, to,
        [queue[o] EXCEPT !.state = to, !.settlement = answer, !.reason = "none"])

\* Slip: the lowest of the rows that may be forwarded now.
HeadsAmongDue ==
  LET due == { o \in Unsettled(queue) : /\ queue[o].state \in ForwardableStates
                                        /\ queue[o].due <= unsaved }
  IN  { o \in due : \A p \in due :
          NamespaceOf[p] = NamespaceOf[o] => SequenceOf[o] <= SequenceOf[p] }

\* forwardableHeads: per namespace the unsettled row with the lowest device
\* sequence, if it may be forwarded and its delay is over.
ForwardableHeads ==
  { o \in Unsettled(queue) :
      /\ queue[o].state \in ForwardableStates
      /\ queue[o].due <= unsaved
      /\ \A p \in Unsettled(queue) :
           NamespaceOf[p] = NamespaceOf[o] => SequenceOf[o] <= SequenceOf[p] }

\* Slip: no recovery of interrupted attempts.
OpenAsIs ==
  /\ ~running
  /\ running' = TRUE
  /\ unsaved' = 0
  /\ UNCHANGED <<queue, nextPosition>>

\* Opening: the counter must be ahead of every row, or the store refuses to
\* run; then every attempt the last process left in flight becomes UNKNOWN.
Open ==
  /\ ~running
  /\ \A o \in Stored(queue) : queue[o].position < nextPosition
  /\ running' = TRUE
  /\ unsaved' = 0
  /\ queue' = [ o \in Operations |->
                  IF o \in Unsettled(queue) /\ queue[o].state = "FORWARDING"
                    THEN [queue[o] EXCEPT !.state = "UNKNOWN", !.reason = "TRANSPORT_ERROR"]
                    ELSE queue[o] ]
  /\ UNCHANGED nextPosition

\* The process or the power goes; what was committed stays.
Close ==
  /\ running
  /\ running' = FALSE
  /\ unsaved' = 0
  /\ UNCHANGED <<queue, nextPosition>>

\* The process clock runs.
Tick ==
  /\ running /\ unsaved < RetryMax
  /\ unsaved' = unsaved + 1
  /\ UNCHANGED <<queue, nextPosition, running>>

QueueInit ==
  /\ queue = [o \in Operations |-> NoRow]
  /\ nextPosition = 0
  /\ unsaved = 0
  /\ running = FALSE

QueueTypeOK ==
  /\ queue \in [Operations -> Row \cup {NoRow}]
  /\ \A o \in Stored(queue) : queue[o].due <= RetryMax
  /\ nextPosition \in 0 .. MaxPosition
  /\ unsaved \in 0 .. RetryMax
  /\ running \in BOOLEAN

=============================================================================
