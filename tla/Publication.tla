---------------------------- MODULE Publication ----------------------------
(***************************************************************************)
(* What the server takes in and sends out: events.service.ts with its      *)
(* publisher and its sweep, and the two outbox publishers (incidents and   *)
(* field), which are the same program over two tables.  A source reports   *)
(* an event as often as it likes; the row of its idempotency key is the    *)
(* canonical one and reaches JetStream.  A state change leaves an outbox   *)
(* row, stamped when it is written and visible when it commits, and sweeps *)
(* send the rows they find, oldest stamp first.                            *)
(***************************************************************************)
EXTENDS Naturals, Sequences, FiniteSets

CONSTANTS
  Reports, KeyOf,     \* deliveries of events, and their idempotency keys
  Servers,
  MaxRows, MaxStamp,  \* outbox rows written, and the instants they are stamped with
  OutboxBatch, EventBatch,  \* rows a sweep reads at most
  MaxOutages,         \* publications that fail
  MaxStops,           \* servers that stop while working
  NoEvent

ASSUME PublicationAssumption ==
  /\ MaxRows \in Nat /\ MaxStamp \in Nat
  /\ OutboxBatch \in Nat \ {0} /\ EventBatch \in Nat \ {0}
  /\ NoEvent \notin [ of : Reports, count : Nat, duplicates : SUBSET Reports,
                      order : Nat, marked : BOOLEAN ]

VARIABLES
  canonical,  \* key -> [of, count, duplicates, order, marked], or NoEvent
  stream,     \* the keys JetStream holds (it drops a repeated message id)
  ingest,     \* report -> [step, at, seen]
  retrying,   \* server -> the keys its event sweep still has to publish
  outbox,     \* rows [at, safe, marked], in the order of their commits: safe
              \* says whether a subject can be made of the row's scope
  sent,       \* the rows that have been on the wire
  relaying,   \* server -> [rows, row] of its outbox sweep: rows to come, row sent
  outages, stops

eventVars  == << canonical, stream, ingest, retrying >>
outboxVars == << outbox, sent, relaying >>
publicationVars == << eventVars, outboxVars, outages, stops >>

EventKeys == { KeyOf[x] : x \in Reports }
Rest == [ rows |-> {}, step |-> "rest" ]
Idle == [ rows |-> {}, row |-> 0 ]

InitPublication ==
  /\ canonical = [k \in EventKeys |-> NoEvent]
  /\ stream    = {}
  /\ ingest    = [x \in Reports |-> [ step |-> "new", at |-> NoEvent, seen |-> 0 ]]
  /\ retrying  = [s \in Servers |-> Rest]
  /\ outbox    = <<>>
  /\ sent      = {}
  /\ relaying  = [s \in Servers |-> Idle]
  /\ outages   = 0
  /\ stops     = 0

-----------------------------------------------------------------------------
(* An event is taken in *)

Row(x) == canonical[KeyOf[x]]

Goes(x, step) == ingest' = [ingest EXCEPT ![x].step = step]

\* ingest: a known key is a duplicate delivery; an unknown one is created.
Lookup(x, s) ==
  /\ ingest[x].step = "new"
  /\ ingest' = [ingest EXCEPT ![x] =
       IF Row(x) = NoEvent THEN [ step |-> "create", at |-> s, seen |-> 0 ]
       ELSE [ step |-> "count", at |-> s, seen |-> Row(x).count ]]
  /\ UNCHANGED << canonical, stream, retrying, outboxVars, outages, stops >>

Stored == { k \in EventKeys : canonical[k] # NoEvent }

\* The unique key lets one of two creations through; the loser reads the
\* winner's row and counts itself there.
Create(x) ==
  /\ ingest[x].step = "create"
  /\ IF Row(x) = NoEvent
       THEN /\ canonical' = [canonical EXCEPT ![KeyOf[x]] =
                 [ of |-> x, count |-> 1, duplicates |-> {},
                   order |-> Cardinality(Stored), marked |-> FALSE ]]
            /\ Goes(x, "publish")
       ELSE /\ ingest' = [ingest EXCEPT ![x].step = "count", ![x].seen = Row(x).count]
            /\ UNCHANGED canonical
  /\ UNCHANGED << stream, retrying, outboxVars, outages, stops >>

\* Slip: the counter is written from the row read at the lookup.
CountAsSeen(x) == ingest[x].seen + 1

Incremented(x) == Row(x).count + 1

\* recordDuplicateDelivery: the duplicate's row and the counter, together.
CountDuplicate(x) ==
  /\ ingest[x].step = "count"
  /\ canonical' = [canonical EXCEPT ![KeyOf[x]].count = Incremented(x),
                                    ![KeyOf[x]].duplicates = @ \cup { x }]
  /\ Goes(x, "done")
  /\ UNCHANGED << stream, retrying, outboxVars, outages, stops >>

\* tryPublish as ingest calls it: what fails is left to the sweep, and what
\* JetStream took without a timely answer counts as failed.
PublishNow(x) ==
  /\ ingest[x].step = "publish"
  /\ \/ /\ stream' = stream \cup { KeyOf[x] } /\ Goes(x, "mark") /\ UNCHANGED outages
     \/ /\ outages < MaxOutages /\ outages' = outages + 1
        /\ stream' \in { stream, stream \cup { KeyOf[x] } } /\ Goes(x, "done")
  /\ UNCHANGED << canonical, retrying, outboxVars, stops >>

MarkNow(x) ==
  /\ ingest[x].step = "mark"
  /\ canonical' = [canonical EXCEPT ![KeyOf[x]].marked = TRUE]
  /\ Goes(x, "done")
  /\ UNCHANGED << stream, retrying, outboxVars, outages, stops >>

-----------------------------------------------------------------------------
(* The sweep over unpublished events: a row that fails does not stop it *)

Overdue == { k \in Stored : ~canonical[k].marked }

EventSweepBegin(s) ==
  /\ retrying[s].step = "rest" /\ Overdue # {}
  /\ retrying' = [retrying EXCEPT ![s] =
       [ step |-> "send",
         rows |-> { k \in Overdue :
           Cardinality({ j \in Overdue : canonical[j].order < canonical[k].order }) < EventBatch } ]]
  /\ UNCHANGED << canonical, stream, ingest, outboxVars, outages, stops >>

\* Slip: a row is marked whether or not it was published.
MarkedAnyway(took) == TRUE

Published(took) == took

EventSweepNext(s, k) ==
  LET rest == retrying[s].rows \ { k }
  IN  /\ retrying[s].step = "send" /\ k \in retrying[s].rows
      /\ \A j \in rest : canonical[k].order < canonical[j].order
      /\ retrying' = [retrying EXCEPT ![s] =
                        IF rest = {} THEN Rest ELSE [@ EXCEPT !.rows = rest]]
      /\ \E took \in BOOLEAN :
           /\ took \/ outages < MaxOutages
           /\ outages' = IF took THEN outages ELSE outages + 1
           /\ stream' \in IF took THEN { stream \cup { k } } ELSE { stream, stream \cup { k } }
           /\ canonical' = IF Published(took) THEN [canonical EXCEPT ![k].marked = TRUE]
                                              ELSE canonical
      /\ UNCHANGED << ingest, outboxVars, stops >>

-----------------------------------------------------------------------------
(* The outbox *)

\* A state change and its row commit together.  The row is stamped before that,
\* and most writers share no lock: stamps may tie, and a row may commit after
\* one that is stamped later.
WriteRow(at, safe) ==
  /\ Len(outbox) < MaxRows
  /\ outbox' = Append(outbox, [ at |-> at, safe |-> safe, marked |-> FALSE ])
  /\ UNCHANGED << eventVars, sent, relaying, outages, stops >>

Pending == { i \in DOMAIN outbox : ~outbox[i].marked }

\* The oldest OutboxBatch rows that are not marked, by stamp; which of two with
\* one stamp is left to the database.
OldestPending(rows) ==
  /\ rows \subseteq Pending
  /\ IF Cardinality(Pending) <= OutboxBatch THEN rows = Pending
                                            ELSE Cardinality(rows) = OutboxBatch
  /\ \A i \in rows, j \in Pending \ rows : outbox[i].at <= outbox[j].at

SweepBegin(s) ==
  /\ relaying[s] = Idle /\ Pending # {}
  /\ \E rows \in SUBSET Pending :
       /\ OldestPending(rows)
       /\ relaying' = [relaying EXCEPT ![s] = [ rows |-> rows, row |-> 0 ]]
  /\ UNCHANGED << eventVars, outbox, sent, outages, stops >>

\* The sweep of s comes to row i of those it read.
ComesTo(s, i) ==
  /\ relaying[s].row = 0 /\ i \in relaying[s].rows
  /\ \A j \in relaying[s].rows : outbox[i].at <= outbox[j].at

\* Slip: an unsafe row ends the sweep, as a failure does.
EndedBy(rows, i) == Idle

WithoutRow(rows, i) == [ rows |-> rows \ { i }, row |-> 0 ]

\* A row whose scope is no subject token is passed over, and stays unpublished.
SkipUnsafe(s, i) ==
  /\ ComesTo(s, i) /\ ~outbox[i].safe
  /\ relaying' = [relaying EXCEPT ![s] = WithoutRow(@.rows, i)]
  /\ UNCHANGED << eventVars, outbox, sent, outages, stops >>

Send(s, i) ==
  /\ ComesTo(s, i) /\ outbox[i].safe
  /\ sent' = sent \cup { i }
  /\ relaying' = [relaying EXCEPT ![s] = [ rows |-> @.rows \ { i }, row |-> i ]]
  /\ UNCHANGED << eventVars, outbox, outages, stops >>

\* Slip: a row that fails is passed over like an unsafe one.
PassedOver(rows, i) == WithoutRow(rows, i)

AfterFailure(rows, i) == Idle

\* publish may have gone out when the flush fails.
SendFails(s, i) ==
  /\ ComesTo(s, i) /\ outbox[i].safe
  /\ outages < MaxOutages /\ outages' = outages + 1
  /\ sent' \in { sent, sent \cup { i } }
  /\ relaying' = [relaying EXCEPT ![s] = AfterFailure(@.rows, i)]
  /\ UNCHANGED << eventVars, outbox, stops >>

\* Marked where still unmarked: two servers may have sent the same row.
MarkSent(s) ==
  /\ relaying[s].row # 0
  /\ outbox' = [outbox EXCEPT ![relaying[s].row].marked = TRUE]
  /\ relaying' = [relaying EXCEPT ![s].row = 0]
  /\ UNCHANGED << eventVars, sent, outages, stops >>

-----------------------------------------------------------------------------

\* A server stops: its requests and its sweeps end where they are.
Stop(s) ==
  /\ stops < MaxStops /\ stops' = stops + 1
  /\ ingest' = [x \in Reports |-> IF ingest[x].at = s THEN [ingest[x] EXCEPT !.step = "done"]
                                  ELSE ingest[x]]
  /\ retrying' = [retrying EXCEPT ![s] = Rest]
  /\ relaying' = [relaying EXCEPT ![s] = Idle]
  /\ UNCHANGED << canonical, stream, outbox, sent, outages >>

EventStep ==
  \/ \E x \in Reports : \/ \E s \in Servers : Lookup(x, s)
                        \/ Create(x) \/ CountDuplicate(x) \/ PublishNow(x) \/ MarkNow(x)
  \/ \E s \in Servers : EventSweepBegin(s) \/ \E k \in EventKeys : EventSweepNext(s, k)

Relay(s) ==
  \/ SweepBegin(s) \/ MarkSent(s)
  \/ \E i \in DOMAIN outbox : SkipUnsafe(s, i) \/ Send(s, i) \/ SendFails(s, i)

OutboxStep ==
  \/ \E at \in 1 .. MaxStamp, safe \in BOOLEAN : WriteRow(at, safe)
  \/ \E s \in Servers : Relay(s)

NextPublication == EventStep \/ OutboxStep \/ \E s \in Servers : Stop(s)

SpecPublication == InitPublication /\ [][NextPublication]_publicationVars

-----------------------------------------------------------------------------
(* Properties *)

\* A canonical event counts every delivery of its key that was recorded, and is
\* marked published only when JetStream holds it, however lookups, creations,
\* sweeps and stops interleave (events.service: ingest; events.repository:
\* recordDuplicateDelivery; events-publish-sweep.service: sweep).
DeliveriesAreCounted ==
  \A k \in Stored :
    /\ canonical[k].count = 1 + Cardinality(canonical[k].duplicates)
    /\ canonical[k].marked => k \in stream

\* When a row has been on the wire so has every row that was both stamped and
\* committed before it and can be sent at all, and a marked row has been,
\* whichever servers sweep, fail half way and stop (field-outbox.publisher,
\* incidents-outbox.publisher: sweep).  A row that commits after one with a
\* later stamp may well follow it.
SentInOrder ==
  /\ \A j \in sent, i \in 1 .. MaxRows :
       (i < j /\ outbox[i].at < outbox[j].at /\ outbox[i].safe) => i \in sent
  /\ \A i \in DOMAIN outbox : outbox[i].marked => i \in sent

Poisoned == { i \in DOMAIN outbox : ~outbox[i].safe }

\* The timer of some server keeps its sweep going; nobody has to write a row,
\* and a publication need not fail.
RelayFairness == WF_publicationVars(\E s \in Servers : Relay(s))

\* Rows that cannot be sent do not stall the others, whatever their stamps,
\* while they are fewer than a sweep reads: again and again everything that can
\* be sent has been (field-outbox.publisher 75-76: "so one poisoned row cannot
\* stall delivery for every other tenant").
PoisonDoesNotStall ==
  []<>(Pending \subseteq Poisoned \/ Cardinality(Poisoned) >= OutboxBatch)

=============================================================================
