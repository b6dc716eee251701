---------------------------- MODULE FieldDomain ----------------------------
(***************************************************************************)
(* The two owning domains an offline operation ends up in: the assignment  *)
(* life cycle (modules/field) and incident field messages                  *)
(* (modules/field-messaging), as the offline replay executor sees them.    *)
(*                                                                         *)
(* A domain call is one database transaction that moves the domain row and *)
(* writes the row carrying the caller's idempotency key (the EVIDENCE of   *)
(* the effect), both or neither.  The one exception is a message send,     *)
(* which reads the sender's eligibility BEFORE its transaction opens; the  *)
(* module that executes operations gives that read a step of its own.      *)
(*                                                                         *)
(* The rows are those of one operative: the assignments and messages the   *)
(* operations name, and the evidence rows keyed by the downstream          *)
(* idempotency key, which is a digest of the operation id and its kind.    *)
(***************************************************************************)
EXTENDS Integers, FiniteSets

CONSTANTS
  Assignments,   \* field_assignments rows
  Assigned,      \* those the operative is the assignee of, in the proven site
  Messages,      \* incident_field_messages rows naming the operative
  OperationIds,  \* offline_operation_id values
  MaxSequence,   \* MAX_OFFLINE_DEVICE_SEQUENCE
  Submissions    \* the operations that may reach the server

AssignmentStatus ==
  {"REQUESTED", "ACCEPTED", "DECLINED", "IN_PROGRESS", "COMPLETED", "CANCELLED"}

TransitionKinds == {"ACCEPT", "DECLINE", "START", "COMPLETE"}

Kinds == TransitionKinds \cup {"SEND", "ACKNOWLEDGE"}

Sequences == 0 .. MaxSequence

\* FieldOfflineOperationV2.  Two submissions carry the same fingerprint exactly
\* when they are the same record.  For a SEND, target is the assignment that
\* makes the sender eligible on the incident.
Operation ==
  [ id : OperationIds, sequence : Sequences, kind : Kinds,
    target : Assignments \cup Messages, expected : AssignmentStatus ]

WellFormed(q) ==
  IF q.kind = "ACKNOWLEDGE" THEN q.target \in Messages ELSE q.target \in Assignments

ASSUME DomainAssumption ==
  /\ MaxSequence \in Nat
  /\ Assigned \subseteq Assignments
  /\ Submissions \subseteq Operation
  /\ \A q \in Submissions : WellFormed(q)

VARIABLES
  assignment,  \* [Assignments -> AssignmentStatus]: status column
  delivery,    \* [Messages -> DeliveryState]: the operative's recipient row
  commits      \* [EvidenceRows -> Nat]: effects committed under each key

domainVars == <<assignment, delivery, commits>>

DeliveryState == {"REQUESTED", "DELIVERED", "ACKNOWLEDGED"}

\* The unique index an effect is recorded under: the entity and the downstream
\* key, which is derived from the operation id and kind alone.
EvidenceRow(q) == [id |-> q.id, kind |-> q.kind, target |-> q.target]

EvidenceRows == { EvidenceRow(q) : q \in Submissions }

Committed(q) == commits[EvidenceRow(q)] > 0

---------------------------------------------------------------------------

ActionTarget ==
  [ ACCEPT |-> "ACCEPTED", DECLINE |-> "DECLINED",
    START |-> "IN_PROGRESS", COMPLETE |-> "COMPLETED" ]

AllowedTransitions ==
  [ REQUESTED   |-> {"ACCEPTED", "DECLINED", "CANCELLED"},
    ACCEPTED    |-> {"IN_PROGRESS", "CANCELLED"},
    IN_PROGRESS |-> {"COMPLETED", "CANCELLED"},
    DECLINED    |-> {}, COMPLETED |-> {}, CANCELLED |-> {} ]

OperationalStatuses == {"REQUESTED", "ACCEPTED", "IN_PROGRESS"}

\* isEligibleSender for a sender who is not in a command role.
EligibleSender(q) == /\ q.target \in Assigned
                     /\ assignment[q.target] \in OperationalStatuses

\* Slip: convergence judged on the row alone, without the evidence.
ConvergesOnState(q) ==
  \/ /\ q.kind \in TransitionKinds
     /\ q.target \in Assigned /\ assignment[q.target] = ActionTarget[q.kind]
  \/ q.kind = "ACKNOWLEDGE" /\ delivery[q.target] = "ACKNOWLEDGED"

\* A call that returns success and writes nothing: the evidence exists
\* already, or the row is already where the call would put it.
Converges(q) ==
  \/ /\ q.kind \in TransitionKinds
     /\ q.target \in Assigned
     /\ Committed(q) \/ assignment[q.target] = ActionTarget[q.kind]
  \/ /\ q.kind = "ACKNOWLEDGE"
     /\ Committed(q) \/ delivery[q.target] = "ACKNOWLEDGED"
  \/ /\ q.kind = "SEND"
     /\ Committed(q)

\* A call that commits its effect.
MayCommit(q) ==
  /\ ~Converges(q)
  /\ \/ /\ q.kind \in TransitionKinds
        /\ q.target \in Assigned
        /\ assignment[q.target] = q.expected
        /\ ActionTarget[q.kind] \in AllowedTransitions[q.expected]
     \/ /\ q.kind = "ACKNOWLEDGE"
        /\ delivery[q.target] = "DELIVERED"
     \/ q.kind = "SEND"

\* The transaction of a call that commits: the domain row and the evidence row.
CommitEffect(q) ==
  /\ commits' = [commits EXCEPT ![EvidenceRow(q)] = @ + 1]
  /\ assignment' = IF q.kind \in TransitionKinds
                     THEN [assignment EXCEPT ![q.target] = ActionTarget[q.kind]]
                     ELSE assignment
  /\ delivery' = IF q.kind = "ACKNOWLEDGE"
                   THEN [delivery EXCEPT ![q.target] = "ACKNOWLEDGED"]
                   ELSE delivery

---------------------------------------------------------------------------

DomainInit ==
  /\ assignment = [a \in Assignments |-> "REQUESTED"]
  /\ delivery = [m \in Messages |-> "REQUESTED"]
  /\ commits = [k \in EvidenceRows |-> 0]

\* The same transition call made by somebody else, under a key of their own:
\* the assignee working online, or a commander cancelling.
OtherTransition(a, to) ==
  /\ to \in AllowedTransitions[assignment[a]]
  /\ assignment' = [assignment EXCEPT ![a] = to]
  /\ UNCHANGED <<delivery, commits>>

\* The realtime consumer saw the recipient's client confirm the notification.
TransportDelivery(m) ==
  /\ delivery[m] = "REQUESTED"
  /\ delivery' = [delivery EXCEPT ![m] = "DELIVERED"]
  /\ UNCHANGED <<assignment, commits>>

\* The operative acknowledged the message online, under another key.
OtherAcknowledge(m) ==
  /\ delivery[m] = "DELIVERED"
  /\ delivery' = [delivery EXCEPT ![m] = "ACKNOWLEDGED"]
  /\ UNCHANGED <<assignment, commits>>

DomainStep ==
  \/ \E a \in Assignments, to \in AssignmentStatus : OtherTransition(a, to)
  \/ \E m \in Messages : TransportDelivery(m) \/ OtherAcknowledge(m)

DomainTypeOK ==
  /\ assignment \in [Assignments -> AssignmentStatus]
  /\ delivery \in [Messages -> DeliveryState]
  /\ commits \in [EvidenceRows -> Nat]

=============================================================================
