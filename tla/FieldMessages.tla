---------------------------- MODULE FieldMessages ----------------------------
(***************************************************************************)
(* Incident field messages from the sender to the recipient's receipt      *)
(* (field-messaging.service.ts, its repository, its outbox publisher and   *)
(* its consumer): a send creates one recipient row per named person, a     *)
(* notice of it goes over NATS to every server, each server shows it to    *)
(* the person's sockets and waits for a receipt, and only then is the row  *)
(* DELIVERED and may be acknowledged.                                      *)
(*                                                                         *)
(* A server reads the row and writes it under the value it read; an        *)
(* acknowledgement holds the row's lock.  FieldDomain has the same rows as *)
(* the replay executor meets them, without the way the notice travels.     *)
(***************************************************************************)
EXTENDS Naturals, Sequences, FiniteSets

CONSTANTS
  Sends,         \* calls of send(), all by one sender on one incident
  MessageKeyOf,  \* [Sends -> idempotency keys]
  NamedIn,       \* [Sends -> sets of People]
  People, Commanders,  \* who may be named; those a command role qualifies
  AckKeys,       \* idempotency keys of acknowledgements
  Consumers,     \* servers subscribed to the notices
  MaxNotices,    \* times a notice is put on the wire
  NoMessage

\* What the delivery column of a recipient's row may say here.
RowStates == {"REQUESTED", "DELIVERED", "ACKNOWLEDGED"}

ASSUME MessagesAssumption ==
  /\ Commanders \subseteq People
  /\ NamedIn \in [Sends -> SUBSET People]
  /\ \A named \in SUBSET People : NoMessage \notin [named -> RowStates]

VARIABLES
  work,       \* person -> NONE, or their assignment's OPERATIONAL or ENDED
  calls,      \* send call -> "new", "eligible", "refused" or "answered"
  recipients, \* message key -> NoMessage, or person named -> delivery state
  acks,       \* <<key, person, acknowledgement key>>: the action rows
  pending,    \* outbox rows <<key, person, what it tells>> not marked published
  wired,      \* times a notice was put on the wire
  wire,       \* consumer -> the notices it has yet to take
  serving,    \* consumer -> [step, notice, seen]
  confirmed   \* <<key, person>> some client of theirs has confirmed

messageVars == << work, calls, recipients, acks, pending, wired, wire,
                  serving, confirmed >>

MessageKeys == { MessageKeyOf[x] : x \in Sends }

AtEase == [ step |-> "idle", notice |-> << >>, seen |-> "NONE" ]

RowsOf(k) == IF recipients[k] = NoMessage THEN {} ELSE DOMAIN recipients[k]

InitMessages ==
  /\ work       = [p \in People |-> "NONE"]
  /\ calls      = [x \in Sends |-> "new"]
  /\ recipients = [k \in MessageKeys |-> NoMessage]
  /\ acks       = {}
  /\ pending    = {}
  /\ wired      = 0
  /\ wire       = [c \in Consumers |-> << >>]
  /\ serving    = [c \in Consumers |-> AtEase]
  /\ confirmed  = {}

-----------------------------------------------------------------------------
(* Sending *)

EligibleRecipient(p) == p \in Commanders \/ work[p] = "OPERATIONAL"

\* The facts are read before the transaction opens.
CheckSend(x) ==
  /\ calls[x] = "new"
  /\ calls' = [calls EXCEPT ![x] =
       IF \A p \in NamedIn[x] : EligibleRecipient(p) THEN "eligible" ELSE "refused"]
  /\ UNCHANGED << work, recipients, acks, pending, wired, wire, serving, confirmed >>

\* One transaction: message, recipients and outbox rows.  On the key's unique
\* violation the message that is there is answered, whomever it names.
CommitSend(x) ==
  LET k == MessageKeyOf[x]
  IN /\ calls[x] = "eligible"
     /\ calls' = [calls EXCEPT ![x] = "answered"]
     /\ IF recipients[k] = NoMessage
          THEN /\ recipients' = [recipients EXCEPT ![k] = [p \in NamedIn[x] |-> "REQUESTED"]]
               /\ pending' = pending \cup { << k, p, "sent" >> : p \in NamedIn[x] }
          ELSE UNCHANGED << recipients, pending >>
     /\ UNCHANGED << work, acks, wired, wire, serving, confirmed >>

\* createAssignment: a repeated key answers the row that is there.
CreateAssignment(p) ==
  /\ work[p] = "NONE"
  /\ work' = [work EXCEPT ![p] = "OPERATIONAL"]
  /\ UNCHANGED << calls, recipients, acks, pending, wired, wire, serving, confirmed >>

EndAssignment(p) ==
  /\ work[p] = "OPERATIONAL"
  /\ work' = [work EXCEPT ![p] = "ENDED"]
  /\ UNCHANGED << calls, recipients, acks, pending, wired, wire, serving, confirmed >>

-----------------------------------------------------------------------------
(* Notices *)

\* A sweep puts a row on the wire and marks it; one that stops in between
\* leaves it to be sent again.  Who is not subscribed does not get it.
PublishNotice(n, marks, subscribed) ==
  /\ n \in pending /\ wired < MaxNotices
  /\ wired' = wired + 1
  /\ pending' = IF marks THEN pending \ { n } ELSE pending
  /\ wire' = [c \in Consumers |->
                IF c \in subscribed THEN Append(wire[c], << n[1], n[2] >>) ELSE wire[c]]
  /\ UNCHANGED << work, calls, recipients, acks, serving, confirmed >>

TakeNotice(c) ==
  /\ serving[c] = AtEase /\ wire[c] # << >>
  /\ serving' = [serving EXCEPT ![c] = [AtEase EXCEPT !.step = "emitting", !.notice = Head(wire[c])]]
  /\ wire' = [wire EXCEPT ![c] = Tail(@)]
  /\ UNCHANGED << work, calls, recipients, acks, pending, wired, confirmed >>

\* emitToUserAwaitingReceipt: one of the person's sockets answered; nobody
\* connected and nobody answering in time are the same.
Received(confirms) == confirms

\* The wait ends with a receipt or without one.
AwaitReceipt(c, confirms) ==
  LET n == serving[c].notice
  IN /\ serving[c].step = "emitting"
     /\ serving' = [serving EXCEPT ![c] =
          IF Received(confirms) THEN [@ EXCEPT !.step = "received"] ELSE AtEase]
     /\ confirmed' = IF confirms THEN confirmed \cup { n } ELSE confirmed
     /\ UNCHANGED << work, calls, recipients, acks, pending, wired, wire >>

\* canTransition(from, 'DELIVERED'), among the states a row can have here.
CanAdvance(from) == from = "REQUESTED"

ReadRow(c) ==
  LET n == serving[c].notice
      from == recipients[n[1]][n[2]]
  IN /\ serving[c].step = "received"
     /\ serving' = [serving EXCEPT ![c] =
          IF CanAdvance(from) THEN [@ EXCEPT !.step = "read", !.seen = from] ELSE AtEase]
     /\ UNCHANGED << work, calls, recipients, acks, pending, wired, wire, confirmed >>

\* Slip: the update names the row and not the state it was read in.
StillAnything(now, seen) == TRUE

StillAs(now, seen) == now = seen

RecordDelivery(c) ==
  LET n == serving[c].notice
  IN /\ serving[c].step = "read"
     /\ serving' = [serving EXCEPT ![c] = AtEase]
     /\ recipients' = IF StillAs(recipients[n[1]][n[2]], serving[c].seen)
                        THEN [recipients EXCEPT ![n[1]][n[2]] = "DELIVERED"]
                        ELSE recipients
     /\ UNCHANGED << work, calls, acks, pending, wired, wire, confirmed >>

-----------------------------------------------------------------------------
(* The recipient *)

MayAcknowledge(k, p, a) ==
  << k, p, a >> \notin acks /\ recipients[k][p] = "DELIVERED"

\* acknowledge(), under the row's lock; a call that may not changes nothing.
Acknowledge(k, p, a) ==
  /\ p \in RowsOf(k) /\ MayAcknowledge(k, p, a)
  /\ recipients' = [recipients EXCEPT ![k][p] = "ACKNOWLEDGED"]
  /\ acks' = acks \cup { << k, p, a >> }
  /\ pending' = pending \cup { << k, p, "acknowledged" >> }
  /\ UNCHANGED << work, calls, wired, wire, serving, confirmed >>

\* The subscription ends, or its server stops: what it had is gone.
EndSubscription(c) ==
  /\ wire[c] # << >> \/ serving[c] # AtEase
  /\ wire' = [wire EXCEPT ![c] = << >>]
  /\ serving' = [serving EXCEPT ![c] = AtEase]
  /\ UNCHANGED << work, calls, recipients, acks, pending, wired, confirmed >>

NextMessages ==
  \/ \E x \in Sends : CheckSend(x) \/ CommitSend(x)
  \/ \E n \in pending, marks \in BOOLEAN, subscribed \in SUBSET Consumers :
       PublishNotice(n, marks, subscribed)
  \/ \E c \in Consumers :
       \/ TakeNotice(c) \/ ReadRow(c) \/ RecordDelivery(c) \/ EndSubscription(c)
       \/ \E confirms \in BOOLEAN : AwaitReceipt(c, confirms)
  \/ \E p \in People :
       \/ CreateAssignment(p) \/ EndAssignment(p)
       \/ \E k \in MessageKeys, a \in AckKeys : Acknowledge(k, p, a)

SpecMessages == InitMessages /\ [][NextMessages]_messageVars

-----------------------------------------------------------------------------

\* A delivery state is evidence.  A row says DELIVERED only when a client of
\* that person confirmed the notice (field-messaging.consumer.ts:118-127), and
\* it says ACKNOWLEDGED exactly when one acknowledgement was recorded, however
\* late a second server, a repeated notice or the acknowledgement's own notice
\* comes to record a delivery (the conditional update of
\* recordTransportDelivery, field-messaging.repository.ts:274).
StatesAreEvidence ==
  \A k \in MessageKeys : \A p \in RowsOf(k) :
    /\ recipients[k][p] # "REQUESTED" => << k, p >> \in confirmed
    /\ Cardinality({ a \in AckKeys : << k, p, a >> \in acks })
         = IF recipients[k][p] = "ACKNOWLEDGED" THEN 1 ELSE 0

=============================================================================
