-------------------------------- MODULE EdgeProofs --------------------------------
(***************************************************************************)
(* Proofs about the Edge.  EdgeForwarding: for any number of operations,   *)
(* namespaces and faults, any capacity and retention, any failures of the  *)
(* link, and whichever devices come back.  EdgeWitnessing: for any number  *)
(* of Edges, sites, challenges, activations, calls, requests and leases,   *)
(* any keyrings and lifetime, and any bounds on clock, boots and anchors.  *)
(***************************************************************************)
EXTENDS EdgeForwarding, EdgeWitnessing, FiniteSetTheorems, WellFoundedInduction, TLAPS

\* What central answers a request is a ruling only of an operation it ruled on.
AnswersAreTrue ==
  \A o \in Operations :
    /\ inFlight[o] = "AUTHORITATIVE_REPLAY_APPLIED"  => receipt[o] = "APPLIED"
    /\ inFlight[o] = "AUTHORITATIVE_REPLAY_REJECTED" => receipt[o] = "REJECTED"

\* What a settled row says is central's ruling.
SettledIsTrue ==
  \A o \in Stored(queue) :
    /\ queue[o].state = "CENTRAL_APPLIED" => receipt[o] = "APPLIED"
    /\ queue[o].state = "FAILED_TERMINAL" => receipt[o] = "REJECTED"

\* The list the driver works through grows old, but not wrong: its operations
\* are unanswered, due and not under way, and whatever unanswered operation
\* precedes one of them in its device's order came to the Edge after it.
HeadsHold ==
  \A o \in heads :
    /\ running /\ o \in Unsettled(queue)
    /\ inFlight[o] = "none" /\ Remaining(o) = 0
    /\ \A p \in Unsettled(queue) :
         (NamespaceOf[p] = NamespaceOf[o] /\ SequenceOf[p] < SequenceOf[o])
           => queue[o].position < queue[p].position

IInv ==
  /\ TypeOK /\ RowsSatisfyChecks /\ ForwardingIsInFlight /\ PositionsAreDistinct
  /\ AnswersAreTrue /\ SettledIsTrue /\ HeadsHold /\ NoOvertaking

Answers ==
  { "EVIDENCE_RECORDED", "AUTHORITATIVE_REPLAY_RECEIVED", "AUTHORITATIVE_REPLAY_APPLYING",
    "AUTHORITATIVE_REPLAY_APPLIED", "AUTHORITATIVE_REPLAY_REJECTED", "UNKNOWN" }

\* Two rows that differ at most in when the next attempt is due.
Alike(r, s) ==
  /\ r.position = s.position /\ r.state = s.state /\ r.settlement = s.settlement
  /\ r.reason = s.reason /\ r.attempts = s.attempts

---------------------------------------------------------------------------
(* The operators the store is built from                                   *)

LEMMA StandingFacts ==
  /\ Standings = Answers
  /\ \A status \in ReceiptStatuses :
       /\ StandingOf[status] \in Answers
       /\ StandingOf[status] = "AUTHORITATIVE_REPLAY_APPLIED"  => status = "APPLIED"
       /\ StandingOf[status] = "AUTHORITATIVE_REPLAY_REJECTED" => status = "REJECTED"
  BY DEF Standings, Answers, ReceiptStatuses, FinalStatuses, StandingOf

LEMMA FailureFacts ==
  ASSUME NEW category \in FailureCategories
  PROVE  /\ StateForFailure[category] \in { "READY_TO_FORWARD", "FAILED_RETRYABLE", "UNKNOWN" }
         /\ category # "none"
  BY DEF FailureCategories, StateForFailure

LEMMA StoredRow ==
  ASSUME QueueTypeOK, NEW o \in Operations
  PROVE  /\ o \in Stored(queue) <=> queue[o] \in Row
         /\ o \in Stored(queue) => queue[o].due \in 0 .. RetryMax
         /\ Unsettled(queue) = Stored(queue) \ Settled(queue)
         /\ Stored(queue) \subseteq Operations
  BY NoRowAssumption, QueueAssumption DEF QueueTypeOK, Stored, Settled, Unsettled, Row

\* Reclamation takes rows away and changes none, and takes only settled ones.
LEMMA ReclaimedFacts ==
  ASSUME QueueTypeOK, NEW n
  PROVE  /\ Reclaimed(n) \in [Operations -> Row \cup {NoRow}]
         /\ \A o \in Operations :
              \/ Reclaimed(n)[o] = queue[o]
              \/ Reclaimed(n)[o] = NoRow /\ o \in Settled(queue)
  BY DEF Reclaimed, QueueTypeOK

\* Persisting the clock with the rows changes nothing in a row but the instant
\* its next attempt is due, which is as far away as it was.
LEMMA SaveFacts ==
  ASSUME QueueTypeOK, NEW rows \in [Operations -> Row \cup {NoRow}],
         \A p \in Stored(rows) : rows[p].due <= unsaved + RetryMax,
         SaveWithClock(rows)
  PROVE  /\ queue' \in [Operations -> Row \cup {NoRow}]
         /\ Stored(queue)' = Stored(rows)
         /\ unsaved' = 0
         /\ \A p \in Stored(rows) :
              /\ Alike(queue'[p], rows[p])
              /\ queue'[p].due = IF rows[p].due > unsaved THEN rows[p].due - unsaved ELSE 0
              /\ queue'[p].due <= RetryMax
<1> DEFINE later(p) == IF rows[p].due > unsaved THEN rows[p].due - unsaved ELSE 0
           saved(p) == [rows[p] EXCEPT !.due = later(p)]
<1>1. ASSUME NEW p \in Stored(rows)
      PROVE  /\ rows[p] \in Row /\ later(p) \in Nat /\ later(p) <= RetryMax
             /\ saved(p) \in Row /\ Alike(saved(p), rows[p]) /\ saved(p).due = later(p)
  <2>1. rows[p] \in Row /\ rows[p].due <= unsaved + RetryMax
    BY <1>1 DEF Stored
  <2>2. later(p) \in Nat /\ later(p) <= RetryMax
    BY <2>1, QueueAssumption DEF Row, QueueTypeOK
  <2> HIDE DEF later
  <2> QED BY <2>1, <2>2 DEF Row, Alike
<1> HIDE DEF later
<1>2. queue' = [ p \in Operations |-> IF rows[p] = NoRow THEN NoRow ELSE saved(p) ]
  BY DEF SaveWithClock, later
<1> HIDE DEF saved
<1>3. /\ queue' \in [Operations -> Row \cup {NoRow}]
      /\ \A p \in Stored(rows) : queue'[p] = saved(p)
      /\ \A p \in Operations \ Stored(rows) : queue'[p] = NoRow
  BY <1>1, <1>2 DEF Stored
<1>4. Stored(queue)' = Stored(rows)
  BY <1>1, <1>3, NoRowAssumption DEF Stored
<1>5. unsaved' = 0
  BY DEF SaveWithClock
<1>6. \A p \in Stored(rows) :
        Alike(queue'[p], rows[p]) /\ queue'[p].due = later(p) /\ queue'[p].due <= RetryMax
  BY <1>1, <1>3
<1> QED BY <1>3, <1>4, <1>5, <1>6 DEF later

\* A transition rewrites one unanswered row and leaves the others as they are.
LEMMA TransitionFacts ==
  ASSUME QueueTypeOK, NEW o \in Operations, NEW to, NEW row \in Row,
         row.due <= unsaved + RetryMax, TransitionTo(o, to, row)
  PROVE  /\ running /\ o \in Unsettled(queue) /\ QueueTypeOK'
         /\ nextPosition' = nextPosition /\ running' = running
         /\ Stored(queue)' = Stored(queue)
         /\ Alike(queue'[o], row)
         /\ Remaining(o)' = IF row.due > unsaved THEN row.due - unsaved ELSE 0
         /\ \A p \in Stored(queue) \ {o} :
              Alike(queue'[p], queue[p]) /\ Remaining(p)' = Remaining(p)
<1> DEFINE rows == [queue EXCEPT ![o] = row]
<1>1. /\ running /\ o \in Unsettled(queue) /\ o \in Stored(queue)
      /\ SaveWithClock(rows) /\ UNCHANGED <<nextPosition, running>>
  BY DEF TransitionTo, MayTransition, Unsettled
<1>2. /\ rows \in [Operations -> Row \cup {NoRow}] /\ rows[o] = row
      /\ \A p \in Operations \ {o} : rows[p] = queue[p]
  BY DEF QueueTypeOK
<1>3. Stored(rows) = Stored(queue)
  BY <1>1, <1>2, NoRowAssumption DEF Stored
<1>4. \A p \in Stored(rows) : rows[p].due <= unsaved + RetryMax
  BY <1>2, <1>3, StoredRow, QueueAssumption DEF QueueTypeOK, Row
<1> HIDE DEF rows
<1>5. /\ queue' \in [Operations -> Row \cup {NoRow}]
      /\ Stored(queue)' = Stored(queue) /\ unsaved' = 0
      /\ \A p \in Stored(queue) :
           /\ Alike(queue'[p], rows[p])
           /\ queue'[p].due = IF rows[p].due > unsaved THEN rows[p].due - unsaved ELSE 0
           /\ queue'[p].due <= RetryMax
  BY <1>1, <1>2, <1>3, <1>4, SaveFacts
<1>6. QueueTypeOK'
  BY <1>1, <1>5, QueueAssumption DEF QueueTypeOK
<1>7. \A p \in Stored(queue) : rows[p].due \in Nat /\ unsaved \in Nat
  BY <1>2, <1>3, QueueAssumption DEF QueueTypeOK, Stored, Row
<1>8. \A p \in Stored(queue) :
        Remaining(p)' = IF rows[p].due > unsaved THEN rows[p].due - unsaved ELSE 0
  BY <1>5, <1>7 DEF Remaining
<1> QED BY <1>1, <1>2, <1>5, <1>6, <1>8, StoredRow DEF Remaining

---------------------------------------------------------------------------
(* What a transition keeps                                                 *)

\* The schema's CHECK constraints, of one row.
Legal(row) ==
  /\ row.state \in SettledStates <=> row.settlement # "none"
  /\ row.state = "CENTRAL_APPLIED" => row.settlement = "CENTRAL_ACCEPTED"
  /\ row.state = "FAILED_TERMINAL" => row.settlement = "CENTRAL_REFUSED"
  /\ row.settlement = "none" \/ row.reason = "none"
  /\ row.state \in AcknowledgedStates \/ row.reason # "none"

LEMMA ChecksAreRowwise ==
  RowsSatisfyChecks <=> \A o \in Stored(queue) : Legal(queue[o])
  BY DEF RowsSatisfyChecks, Legal

\* The rows the store's calls write are legal, keep their position, claim only
\* a head, and settle only what central has ruled on: that is all a transition
\* need be for the invariant to survive it.
LEMMA TransitionKeeps ==
  ASSUME IInv, NEW o \in Operations, NEW to, NEW row \in Row,
         row.due <= unsaved + RetryMax, TransitionTo(o, to, row),
         Legal(row), row.position = queue[o].position,
         row.attempts = queue[o].attempts \/ o \in heads,
         row.state = "CENTRAL_APPLIED" => receipt[o] = "APPLIED",
         row.state = "FAILED_TERMINAL" => receipt[o] = "REJECTED",
         UNCHANGED centralVars, heads' \subseteq heads, faults' \in 0 .. MaxFaults,
         o \in heads' => row.due = queue[o].due /\ row.settlement = "none",
         inFlight' \in [Operations -> {"none", "sent"} \cup Standings],
         \A p \in Operations \ {o} : inFlight'[p] = inFlight[p],
         inFlight'[o] \in {"none", "sent"}, o \in heads' => inFlight'[o] = "none",
         inFlight'[o] # "none" <=> row.state = "FORWARDING"
  PROVE  IInv'
<1>1. /\ running /\ o \in Unsettled(queue) /\ o \in Stored(queue) /\ QueueTypeOK /\ QueueTypeOK'
      /\ nextPosition' = nextPosition /\ running' = running
      /\ Stored(queue)' = Stored(queue) /\ Alike(queue'[o], row)
      /\ Remaining(o)' = IF row.due > unsaved THEN row.due - unsaved ELSE 0
      /\ \A p \in Stored(queue) \ {o} :
           Alike(queue'[p], queue[p]) /\ Remaining(p)' = Remaining(p)
  BY TransitionFacts DEF IInv, TypeOK, Unsettled
<1>2. Unsettled(queue)' \subseteq Unsettled(queue)
  BY <1>1 DEF Unsettled, Alike
<1>3. /\ \A p \in Stored(queue) : queue'[p].position = queue[p].position
      /\ \A p \in Stored(queue) : p \in heads \/ queue'[p].attempts = queue[p].attempts
  BY <1>1 DEF Alike
<1>4. TypeOK'
  BY <1>1 DEF IInv, TypeOK, centralVars
<1>5. RowsSatisfyChecks'
  <2>1. \A p \in Stored(queue) : Legal(queue'[p])
    BY <1>1, ChecksAreRowwise DEF IInv, Legal, Alike
  <2> QED BY <1>1, <2>1 DEF RowsSatisfyChecks, Legal
<1>6. ForwardingIsInFlight'
  <2>1. \A p \in Operations \ {o} :
          /\ p \in Unsettled(queue)' <=> p \in Unsettled(queue)
          /\ p \in Unsettled(queue) => queue'[p].state = queue[p].state
    BY <1>1 DEF Unsettled, Alike
  <2>2. /\ o \in Unsettled(queue)' <=> row.settlement = "none"
        /\ queue'[o].state = row.state
    BY <1>1 DEF Unsettled, Alike
  <2>3. row.state = "FORWARDING" => row.settlement = "none"
    BY DEF Legal, SettledStates
  <2> QED BY <1>1, <2>1, <2>2, <2>3 DEF IInv, ForwardingIsInFlight
<1>7. PositionsAreDistinct'
  BY <1>1, <1>3 DEF IInv, PositionsAreDistinct
<1>8. AnswersAreTrue'
  BY DEF IInv, AnswersAreTrue, centralVars
<1>9. SettledIsTrue'
  BY <1>1 DEF IInv, SettledIsTrue, Alike, centralVars
<1>10. HeadsHold'
  <2> SUFFICES ASSUME NEW h \in heads'
               PROVE  /\ running' /\ h \in Unsettled(queue)'
                      /\ inFlight'[h] = "none" /\ Remaining(h)' = 0
                      /\ \A p \in Unsettled(queue)' :
                           (NamespaceOf[p] = NamespaceOf[h] /\ SequenceOf[p] < SequenceOf[h])
                             => queue'[h].position < queue'[p].position
    BY DEF HeadsHold
  <2>1. /\ h \in heads /\ h \in Operations /\ h \in Unsettled(queue) /\ h \in Stored(queue)
        /\ inFlight[h] = "none" /\ Remaining(h) = 0
    BY DEF IInv, HeadsHold, TypeOK, Unsettled
  <2>2. h \in Unsettled(queue)' /\ Remaining(h)' = 0
    BY <1>1, <2>1 DEF Unsettled, Alike, Remaining
  <2>3. \A p \in Unsettled(queue)' : p \in Unsettled(queue) /\ p \in Stored(queue)
    BY <1>2 DEF Unsettled
  <2> QED BY <1>1, <1>3, <2>1, <2>2, <2>3 DEF IInv, HeadsHold
<1>11. NoOvertaking'
  <2> SUFFICES ASSUME NEW q \in Stored(queue)', NEW p \in Stored(queue)',
                      NamespaceOf[p] = NamespaceOf[q], SequenceOf[p] < SequenceOf[q],
                      queue'[p].position < queue'[q].position, p \in Unsettled(queue)'
               PROVE  queue'[q].attempts = 0
    BY DEF NoOvertaking
  <2>1. /\ q \in Stored(queue) /\ p \in Stored(queue) /\ p \in Unsettled(queue)
        /\ queue[p].position < queue[q].position
    BY <1>1, <1>2, <1>3
  <2>2. queue[p].position \in Nat /\ queue[q].position \in Nat
    BY <1>1, <2>1, StoredRow DEF Row, Stored
  <2>3. q \notin heads
    BY <2>1, <2>2 DEF IInv, HeadsHold
  <2> QED BY <1>3, <2>1, <2>3 DEF IInv, NoOvertaking
<1> QED BY <1>4, <1>5, <1>6, <1>7, <1>8, <1>9, <1>10, <1>11 DEF IInv

---------------------------------------------------------------------------
(* What admission and reclamation keep                                     *)

LEMMA ReclaimingKeeps ==
  ASSUME IInv, NEW n, queue' = Reclaimed(n), UNCHANGED <<nextPosition, unsaved, running>>,
         UNCHANGED <<centralVars, driverVars, faults>>
  PROVE  IInv'
<1>1. /\ QueueTypeOK /\ Stored(queue)' \subseteq Stored(queue)
      /\ queue' \in [Operations -> Row \cup {NoRow}]
      /\ \A p \in Stored(queue)' : queue'[p] = queue[p]
      /\ Unsettled(queue)' = Unsettled(queue)
  BY ReclaimedFacts DEF IInv, TypeOK, Stored, Unsettled, Settled
<1>2. TypeOK'
  BY <1>1 DEF IInv, TypeOK, QueueTypeOK, centralVars, driverVars
<1>3. RowsSatisfyChecks'
  <2>1. \A p \in Stored(queue)' : Legal(queue'[p])
    BY <1>1, ChecksAreRowwise DEF IInv
  <2> QED BY <2>1 DEF RowsSatisfyChecks, Legal
<1>4. ForwardingIsInFlight'
  BY <1>1 DEF IInv, ForwardingIsInFlight, driverVars, Unsettled
<1>5. PositionsAreDistinct'
  BY <1>1 DEF IInv, PositionsAreDistinct
<1>6. AnswersAreTrue' /\ SettledIsTrue'
  BY <1>1 DEF IInv, AnswersAreTrue, SettledIsTrue, centralVars, driverVars
<1>7. HeadsHold'
  BY <1>1 DEF IInv, HeadsHold, Remaining, Unsettled, driverVars
<1>8. NoOvertaking'
  BY <1>1 DEF IInv, NoOvertaking
<1> QED BY <1>2, <1>3, <1>4, <1>5, <1>6, <1>7, <1>8 DEF IInv

\* Taking an operation in makes one row, behind every other, and may take
\* settled rows away; no other row changes.
LEMMA TakingFacts ==
  ASSUME QueueTypeOK, NEW o \in Operations, AdmitStores(o)
  PROVE  /\ running /\ running' = running /\ QueueTypeOK'
         /\ nextPosition' = nextPosition + 1
         /\ o \notin Unsettled(queue) /\ o \in Stored(queue)'
         /\ Alike(queue'[o], FreshRow(nextPosition))
         /\ \A p \in Stored(queue)' \ {o} :
              /\ p \in Stored(queue)
              /\ Alike(queue'[p], queue[p]) /\ Remaining(p)' = Remaining(p)
         /\ Unsettled(queue)' = Unsettled(queue) \cup {o}
<1> DEFINE rows == [Retained EXCEPT ![o] = FreshRow(nextPosition)]
<1>1. /\ running /\ running' = running /\ nextPosition' = nextPosition + 1
      /\ SaveWithClock(rows) /\ Retained[o] = NoRow /\ ~ nextPosition >= MaxPosition
  BY DEF AdmitStores, Refuses, AllocatedPosition
<1>2. /\ Retained \in [Operations -> Row \cup {NoRow}]
      /\ \A p \in Operations :
           Retained[p] = queue[p] \/ (Retained[p] = NoRow /\ p \in Settled(queue))
  BY ReclaimedFacts DEF Retained
<1>3. FreshRow(nextPosition) \in Row
  <2>1. "NOT_ATTEMPTED" \in FailureCategories
    BY DEF FailureCategories, StateForFailure
  <2>2. nextPosition \in Nat /\ unsaved \in Nat /\ 0 \in 0 .. AttemptCap
    BY QueueAssumption DEF QueueTypeOK
  <2> QED BY <2>1, <2>2 DEF FreshRow, Row, States
<1>4. /\ rows \in [Operations -> Row \cup {NoRow}] /\ rows[o] = FreshRow(nextPosition)
      /\ \A p \in Operations \ {o} : rows[p] = Retained[p]
  BY <1>2, <1>3
<1> HIDE DEF rows
<1>5. /\ o \in Stored(rows) /\ o \notin Unsettled(queue)
      /\ \A p \in Stored(rows) \ {o} : p \in Stored(queue) /\ rows[p] = queue[p]
      /\ \A p \in Unsettled(queue) : p \in Stored(rows) \ {o}
  BY <1>1, <1>2, <1>3, <1>4, NoRowAssumption DEF Stored, Unsettled, Settled
<1>6. /\ unsaved \in Nat /\ RetryMax \in Nat /\ rows[o].due = unsaved
      /\ \A p \in Stored(rows) : rows[p].due \in Nat
      /\ \A p \in Stored(rows) : rows[p].due <= unsaved + RetryMax
  <2>1. unsaved \in Nat /\ RetryMax \in Nat /\ rows[o].due = unsaved
    BY <1>4, QueueAssumption DEF FreshRow, QueueTypeOK
  <2>2. ASSUME NEW p \in Stored(rows) \ {o}
        PROVE  rows[p].due \in Nat /\ rows[p].due <= RetryMax
    BY <1>5, StoredRow, QueueAssumption DEF Stored
  <2> QED BY <2>1, <2>2
<1>7. /\ queue' \in [Operations -> Row \cup {NoRow}]
      /\ Stored(queue)' = Stored(rows) /\ unsaved' = 0
      /\ \A p \in Stored(rows) :
           /\ Alike(queue'[p], rows[p])
           /\ queue'[p].due = IF rows[p].due > unsaved THEN rows[p].due - unsaved ELSE 0
           /\ queue'[p].due <= RetryMax
  BY <1>1, <1>4, <1>6, SaveFacts
<1>8. QueueTypeOK'
  BY <1>1, <1>6, <1>7, QueueAssumption DEF QueueTypeOK
<1>9. \A p \in Stored(rows) :
        Remaining(p)' = IF rows[p].due > unsaved THEN rows[p].due - unsaved ELSE 0
  BY <1>6, <1>7 DEF Remaining
<1>10. Unsettled(queue)' = Unsettled(queue) \cup {o}
  <2>1. \A p \in Stored(rows) \ {o} :
          p \in Stored(queue) /\ queue'[p].settlement = queue[p].settlement
    BY <1>5, <1>7 DEF Alike
  <2>2. queue'[o].settlement = "none"
    BY <1>4, <1>5, <1>7 DEF Alike, FreshRow
  <2> QED BY <1>5, <1>7, <2>1, <2>2 DEF Unsettled
<1> QED BY <1>1, <1>4, <1>5, <1>7, <1>8, <1>9, <1>10 DEF Remaining

LEMMA TakingKeeps ==
  ASSUME IInv, NEW o \in Operations, AdmitStores(o),
         UNCHANGED <<centralVars, driverVars, faults>>
  PROVE  IInv'
<1>1. /\ running /\ running' = running /\ QueueTypeOK /\ QueueTypeOK'
      /\ nextPosition' = nextPosition + 1 /\ nextPosition \in Nat
      /\ o \notin Unsettled(queue) /\ o \in Stored(queue)'
      /\ Alike(queue'[o], FreshRow(nextPosition))
      /\ \A p \in Stored(queue)' \ {o} :
           /\ p \in Stored(queue)
           /\ Alike(queue'[p], queue[p]) /\ Remaining(p)' = Remaining(p)
      /\ Unsettled(queue)' = Unsettled(queue) \cup {o}
  BY TakingFacts, QueueAssumption DEF IInv, TypeOK, QueueTypeOK
<1>2. /\ queue'[o].position = nextPosition /\ queue'[o].attempts = 0
      /\ queue'[o].state = "STORED_LOCAL"
  BY <1>1 DEF Alike, FreshRow
<1>3. \A p \in Stored(queue)' \ {o} :
        /\ p \in Stored(queue) /\ queue[p].position \in Nat
        /\ queue'[p].position = queue[p].position /\ queue'[p].attempts = queue[p].attempts
        /\ queue[p].position < nextPosition
  BY <1>1, StoredRow DEF Alike, IInv, PositionsAreDistinct, Row, Stored
<1>4. TypeOK'
  BY <1>1 DEF IInv, TypeOK, centralVars, driverVars
<1>5. RowsSatisfyChecks'
  <2>1. \A p \in Stored(queue)' \ {o} : Legal(queue'[p])
    BY <1>1, ChecksAreRowwise DEF IInv, Legal, Alike
  <2>2. Legal(queue'[o])
    BY <1>1 DEF Legal, Alike, FreshRow, SettledStates, AcknowledgedStates
  <2> QED BY <2>1, <2>2 DEF RowsSatisfyChecks, Legal
<1>6. ForwardingIsInFlight'
  <2>1. \A p \in Unsettled(queue) :
          p \in Stored(queue)' \ {o} /\ queue'[p].state = queue[p].state
    BY <1>1 DEF Unsettled, Alike
  <2>2. inFlight[o] = "none"
    BY <1>1 DEF IInv, ForwardingIsInFlight, TypeOK
  <2> QED BY <1>1, <1>2, <2>1, <2>2 DEF IInv, ForwardingIsInFlight, driverVars
<1>7. PositionsAreDistinct'
  BY <1>1, <1>2, <1>3 DEF IInv, PositionsAreDistinct
<1>8. AnswersAreTrue' /\ SettledIsTrue'
  BY <1>1, <1>2 DEF IInv, AnswersAreTrue, SettledIsTrue, centralVars, driverVars, Alike
<1>9. HeadsHold'
  <2> SUFFICES ASSUME NEW h \in heads
               PROVE  /\ running /\ h \in Unsettled(queue)'
                      /\ inFlight[h] = "none" /\ Remaining(h)' = 0
                      /\ \A p \in Unsettled(queue)' :
                           (NamespaceOf[p] = NamespaceOf[h] /\ SequenceOf[p] < SequenceOf[h])
                             => queue'[h].position < queue'[p].position
    BY <1>1 DEF HeadsHold, driverVars
  <2>1. h \in Unsettled(queue) /\ inFlight[h] = "none" /\ Remaining(h) = 0
    BY DEF IInv, HeadsHold
  <2>2. h \in Stored(queue)' \ {o}
    BY <1>1, <2>1 DEF Unsettled
  <2>3. \A p \in Unsettled(queue)' : p = o \/ (p \in Unsettled(queue) /\ p \in Stored(queue)' \ {o})
    BY <1>1 DEF Unsettled
  <2> QED BY <1>1, <1>2, <1>3, <2>1, <2>2, <2>3 DEF IInv, HeadsHold
<1>10. NoOvertaking'
  <2> SUFFICES ASSUME NEW q \in Stored(queue)', NEW p \in Stored(queue)',
                      NamespaceOf[p] = NamespaceOf[q], SequenceOf[p] < SequenceOf[q],
                      queue'[p].position < queue'[q].position, p \in Unsettled(queue)'
               PROVE  queue'[q].attempts = 0
    BY DEF NoOvertaking
  <2>1. CASE q = o
    BY <1>2, <2>1
  <2>2. CASE q # o
    <3>1. p # o
      BY <1>1, <1>2, <1>3, <2>2
    <3> QED BY <1>1, <1>3, <2>2, <3>1 DEF IInv, NoOvertaking
  <2> QED BY <2>1, <2>2
<1> QED BY <1>4, <1>5, <1>6, <1>7, <1>8, <1>9, <1>10 DEF IInv

---------------------------------------------------------------------------
(* The invariant is kept: the steps that are transitions                   *)

LEMMA UnansweredRow ==
  ASSUME IInv, NEW o \in Unsettled(queue)
  PROVE  /\ o \in Operations /\ queue[o] \in Row /\ queue[o].settlement = "none"
         /\ Legal(queue[o]) /\ queue[o].due <= unsaved + RetryMax
         /\ unsaved \in Nat /\ RetryMax \in Nat
  BY StoredRow, ChecksAreRowwise, QueueAssumption
     DEF IInv, TypeOK, QueueTypeOK, Unsettled, Stored, Row

LEMMA MarkReadyKeeps ==
  ASSUME IInv, NEW o \in Operations, MarkReady(o)
  PROVE  IInv'
<1> DEFINE row == [queue[o] EXCEPT !.state = "READY_TO_FORWARD"]
<1>1. /\ o \in Unsettled(queue) /\ queue[o].state = "STORED_LOCAL"
      /\ TransitionTo(o, "READY_TO_FORWARD", row)
      /\ UNCHANGED <<centralVars, heads, inFlight, faults>> /\ running
  BY DEF MarkReady, MarkReadyToForward, TransitionTo, MayTransition, driverVars
<1>2. /\ row \in Row /\ Legal(row) /\ row.settlement = "none" /\ row.due = queue[o].due
      /\ row.position = queue[o].position /\ row.attempts = queue[o].attempts
      /\ row.state = "READY_TO_FORWARD" /\ row.due <= unsaved + RetryMax
  BY <1>1, UnansweredRow DEF Row, States, Legal, SettledStates, AcknowledgedStates
<1>3. inFlight[o] = "none"
  BY <1>1 DEF IInv, TypeOK, ForwardingIsInFlight
<1> HIDE DEF row
<1> QED BY <1>1, <1>2, <1>3, TransitionKeeps DEF IInv, TypeOK

LEMMA ClaimFacts ==
  ASSUME IInv, NEW o \in Operations, ClaimHead(o)
  PROVE  \E row \in Row :
           /\ TransitionTo(o, "FORWARDING", row) /\ Legal(row)
           /\ row.position = queue[o].position /\ row.state = "FORWARDING"
           /\ row.settlement = "none" /\ row.attempts >= queue[o].attempts
           /\ row.due <= unsaved + RetryMax /\ row.due >= unsaved
<1> DEFINE attempt == IF queue[o].attempts < AttemptCap THEN queue[o].attempts + 1
                      ELSE AttemptCap
           row == [queue[o] EXCEPT !.state = "FORWARDING", !.reason = "TRANSPORT_ERROR",
                                   !.attempts = attempt, !.due = unsaved + RetryDelay(attempt)]
<1>1. TransitionTo(o, "FORWARDING", row) /\ o \in Unsettled(queue)
  BY DEF ClaimHead, ClaimForForwarding, TransitionTo, MayTransition
<1>2. /\ queue[o] \in Row /\ Legal(queue[o]) /\ queue[o].settlement = "none"
      /\ unsaved \in Nat /\ RetryMax \in Nat
  BY <1>1, UnansweredRow
<1>3. attempt \in 0 .. AttemptCap /\ attempt >= queue[o].attempts
  BY <1>2, QueueAssumption DEF Row
<1>4. RetryDelay(attempt) \in 0 .. RetryMax
  BY <1>3, QueueAssumption
<1> HIDE DEF attempt
<1>5. "TRANSPORT_ERROR" \in FailureCategories
  BY DEF FailureCategories, StateForFailure
<1>6. unsaved + RetryDelay(attempt) \in Nat
  BY <1>2, <1>4
<1>7. row \in Row
  BY <1>2, <1>3, <1>5, <1>6 DEF Row, States
<1>8. /\ row.position = queue[o].position /\ row.state = "FORWARDING"
      /\ row.settlement = "none" /\ row.attempts = attempt
      /\ row.due = unsaved + RetryDelay(attempt) /\ row.reason = "TRANSPORT_ERROR"
  BY <1>2 DEF Row
<1> HIDE DEF row
<1>9. Legal(row)
  BY <1>8 DEF Legal, SettledStates, AcknowledgedStates
<1> QED BY <1>1, <1>2, <1>3, <1>4, <1>7, <1>8, <1>9

LEMMA ClaimKeeps ==
  ASSUME IInv, NEW o \in Operations, ClaimHead(o)
  PROVE  IInv'
<1>1. PICK row \in Row :
           /\ TransitionTo(o, "FORWARDING", row) /\ Legal(row)
           /\ row.position = queue[o].position /\ row.state = "FORWARDING"
           /\ row.due <= unsaved + RetryMax
  BY ClaimFacts
<1>2. /\ o \in heads /\ heads' = heads \ {o} /\ inFlight' = [inFlight EXCEPT ![o] = "sent"]
      /\ UNCHANGED <<centralVars, faults>>
  BY DEF ClaimHead
<1>3. /\ inFlight' \in [Operations -> {"none", "sent"} \cup Standings] /\ inFlight'[o] = "sent"
      /\ \A p \in Operations \ {o} : inFlight'[p] = inFlight[p]
  BY <1>2 DEF IInv, TypeOK
<1> QED BY <1>1, <1>2, <1>3, TransitionKeeps DEF IInv, TypeOK

\* However an open request ends, its row leaves FORWARDING: with an excuse to
\* try again, with central's progress, or with central's ruling.
LEMMA OutcomeRow ==
  ASSUME IInv, NEW o \in Operations, inFlight[o] # "none",
         NEW to \in States \ {"FORWARDING"},
         NEW answer \in {"none", "CENTRAL_ACCEPTED", "CENTRAL_REFUSED"},
         NEW excuse \in FailureCategories \cup {"none"},
         to = "CENTRAL_APPLIED" <=> answer = "CENTRAL_ACCEPTED",
         to = "FAILED_TERMINAL" <=> answer = "CENTRAL_REFUSED",
         to \in AcknowledgedStates <=> excuse = "none",
         to = "CENTRAL_APPLIED" => receipt[o] = "APPLIED",
         to = "FAILED_TERMINAL" => receipt[o] = "REJECTED",
         NEW row, row = [queue[o] EXCEPT !.state = to, !.settlement = answer, !.reason = excuse],
         TransitionTo(o, to, row), inFlight' = [inFlight EXCEPT ![o] = "none"],
         UNCHANGED <<centralVars, heads>>, faults' \in 0 .. MaxFaults
  PROVE  IInv'
<1>1. o \in Unsettled(queue) /\ o \notin heads
  BY DEF TransitionTo, MayTransition, IInv, HeadsHold
<1>2. queue[o] \in Row /\ queue[o].due <= unsaved + RetryMax
  BY <1>1, UnansweredRow
<1>3. /\ row \in Row /\ row.position = queue[o].position /\ row.attempts = queue[o].attempts
      /\ row.due = queue[o].due /\ row.state = to /\ row.settlement = answer
      /\ row.reason = excuse
  BY <1>2 DEF Row
<1>4. Legal(row)
  BY <1>3 DEF Legal, SettledStates, AcknowledgedStates
<1>5. /\ inFlight' \in [Operations -> {"none", "sent"} \cup Standings] /\ inFlight'[o] = "none"
      /\ \A p \in Operations \ {o} : inFlight'[p] = inFlight[p]
  BY DEF IInv, TypeOK
<1> QED BY <1>1, <1>2, <1>3, <1>4, <1>5, TransitionKeeps DEF centralVars

LEMMA FailureKeeps ==
  ASSUME IInv, NEW o \in Operations, inFlight[o] # "none",
         NEW category \in FailureCategories, RecordTransportUnknown(o, category),
         inFlight' = [inFlight EXCEPT ![o] = "none"],
         UNCHANGED <<centralVars, heads>>, faults' \in 0 .. MaxFaults
  PROVE  IInv'
<1> DEFINE to == StateForFailure[category]
           row == [queue[o] EXCEPT !.state = to, !.reason = category]
<1>1. TransitionTo(o, to, row) /\ o \in Unsettled(queue)
  BY DEF RecordTransportUnknown, TransitionTo, MayTransition
<1>2. row = [queue[o] EXCEPT !.state = to, !.settlement = "none", !.reason = category]
  BY <1>1, UnansweredRow DEF Row
<1>3. to \in {"READY_TO_FORWARD", "FAILED_RETRYABLE", "UNKNOWN"} /\ category # "none"
  BY FailureFacts
<1> HIDE DEF to, row
<1> QED BY <1>1, <1>2, <1>3, OutcomeRow DEF States, AcknowledgedStates, SettledStates

LEMMA AnswerKeeps ==
  ASSUME IInv, NEW o \in Operations, AnswerArrives(o)
  PROVE  IInv'
<1>1. /\ inFlight[o] \in Answers /\ inFlight' = [inFlight EXCEPT ![o] = "none"]
      /\ UNCHANGED <<centralVars, heads>> /\ faults' \in 0 .. MaxFaults
  BY StandingFacts DEF AnswerArrives, IInv, TypeOK
<1>2. inFlight[o] # "none"
  BY <1>1 DEF Answers
<1>3. ASSUME NEW progress \in {"CENTRAL_RECEIVED", "CENTRAL_APPLYING"},
             RecordCentralProgress(o, progress)
      PROVE  IInv'
  <2> DEFINE row == [queue[o] EXCEPT !.state = progress, !.reason = "none"]
  <2>1. TransitionTo(o, progress, row) /\ o \in Unsettled(queue)
    BY <1>3 DEF RecordCentralProgress, TransitionTo, MayTransition
  <2>2. row = [queue[o] EXCEPT !.state = progress, !.settlement = "none", !.reason = "none"]
    BY <2>1, UnansweredRow DEF Row
  <2> HIDE DEF row
  <2> QED BY <1>1, <1>2, <2>1, <2>2, OutcomeRow DEF States, AcknowledgedStates, SettledStates
<1>4. CASE inFlight[o] = "AUTHORITATIVE_REPLAY_APPLIED" /\ Settle(o, "CENTRAL_ACCEPTED")
  <2>1. receipt[o] = "APPLIED"
    BY <1>4 DEF IInv, AnswersAreTrue
  <2> DEFINE row == [queue[o] EXCEPT !.state = "CENTRAL_APPLIED",
                                     !.settlement = "CENTRAL_ACCEPTED", !.reason = "none"]
  <2>2. TransitionTo(o, "CENTRAL_APPLIED", row)
    BY <1>4 DEF Settle
  <2> HIDE DEF row
  <2> QED BY <1>1, <1>2, <2>1, <2>2, OutcomeRow
          DEF States, AcknowledgedStates, SettledStates, row
<1>5. CASE inFlight[o] = "AUTHORITATIVE_REPLAY_REJECTED" /\ Settle(o, "CENTRAL_REFUSED")
  <2>1. receipt[o] = "REJECTED"
    BY <1>5 DEF IInv, AnswersAreTrue
  <2> DEFINE row == [queue[o] EXCEPT !.state = "FAILED_TERMINAL",
                                     !.settlement = "CENTRAL_REFUSED", !.reason = "none"]
  <2>2. TransitionTo(o, "FAILED_TERMINAL", row)
    BY <1>5 DEF Settle
  <2> HIDE DEF row
  <2> QED BY <1>1, <1>2, <2>1, <2>2, OutcomeRow
          DEF States, AcknowledgedStates, SettledStates, row
<1>6. CASE RecordTransportUnknown(o, "RESPONSE_UNINTELLIGIBLE")
  <2>1. "RESPONSE_UNINTELLIGIBLE" \in FailureCategories
    BY DEF FailureCategories, StateForFailure
  <2> QED BY <1>1, <1>2, <1>6, <2>1, FailureKeeps
<1>7. Record(o, inFlight[o])
  BY DEF AnswerArrives
<1> QED BY <1>3, <1>4, <1>5, <1>6, <1>7 DEF Record

---------------------------------------------------------------------------
(* The invariant is kept: the other steps                                  *)

LEMMA AdmitKeeps ==
  ASSUME IInv, NEW o \in Operations, Admit(o)
  PROVE  IInv'
<1>1. CASE AdmitStores(o)
  BY <1>1, TakingKeeps DEF Admit
<1>2. CASE AdmitRefuses(o)
  BY <1>2, ReclaimingKeeps DEF Admit, AdmitRefuses, Retained
<1> QED BY <1>1, <1>2 DEF Admit

\* Opening rewrites the rows of interrupted attempts, which no request is open
\* for any more.
LEMMA OpenFacts ==
  ASSUME QueueTypeOK, Open
  PROVE  /\ QueueTypeOK' /\ Stored(queue)' = Stored(queue)
         /\ ~running /\ running' /\ nextPosition' = nextPosition /\ unsaved' = 0
         /\ Unsettled(queue)' = Unsettled(queue)
         /\ \A p \in Stored(queue) :
              \/ queue'[p] = queue[p] /\ (p \in Unsettled(queue) => queue[p].state # "FORWARDING")
              \/ /\ p \in Unsettled(queue) /\ queue[p].state = "FORWARDING"
                 /\ queue'[p] = [queue[p] EXCEPT !.state = "UNKNOWN",
                                                 !.reason = "TRANSPORT_ERROR"]
<1>1. /\ ~running /\ running' = TRUE /\ nextPosition' = nextPosition /\ unsaved' = 0
      /\ queue' = [ o \in Operations |->
                  IF o \in Unsettled(queue) /\ queue[o].state = "FORWARDING"
                    THEN [queue[o] EXCEPT !.state = "UNKNOWN", !.reason = "TRANSPORT_ERROR"]
                    ELSE queue[o] ]
  BY DEF Open
<1>2. "TRANSPORT_ERROR" \in FailureCategories /\ "UNKNOWN" \in States
  BY DEF FailureCategories, StateForFailure, States
<1>3. ASSUME NEW p \in Stored(queue), p \in Unsettled(queue), queue[p].state = "FORWARDING"
      PROVE  /\ queue'[p] = [queue[p] EXCEPT !.state = "UNKNOWN", !.reason = "TRANSPORT_ERROR"]
             /\ queue'[p] \in Row /\ queue'[p].due = queue[p].due
             /\ queue'[p].settlement = queue[p].settlement
  <2>1. queue[p] \in Row /\ p \in Operations
    BY StoredRow DEF Stored
  <2> DEFINE row == [queue[p] EXCEPT !.state = "UNKNOWN", !.reason = "TRANSPORT_ERROR"]
  <2>2. row \in Row /\ row.due = queue[p].due /\ row.settlement = queue[p].settlement
    BY <1>2, <2>1 DEF Row
  <2>3. queue'[p] = row
    BY <1>1, <1>3, <2>1
  <2> QED BY <2>2, <2>3
<1>4. ASSUME NEW p \in Operations, ~(p \in Unsettled(queue) /\ queue[p].state = "FORWARDING")
      PROVE  queue'[p] = queue[p]
  BY <1>1, <1>4
<1>5. /\ queue' \in [Operations -> Row \cup {NoRow}]
      /\ Stored(queue)' = Stored(queue)
  <2>1. \A p \in Operations : queue'[p] \in Row \cup {NoRow}
    BY <1>3, <1>4 DEF QueueTypeOK, Unsettled
  <2>2. queue' = [p \in Operations |-> queue'[p]]
    BY <1>1
  <2>3. \A p \in Operations : queue'[p] = NoRow <=> queue[p] = NoRow
    BY <1>3, <1>4, NoRowAssumption DEF Stored, Unsettled
  <2> QED BY <2>1, <2>2, <2>3 DEF Stored
<1>6. \A p \in Stored(queue) :
        queue'[p].due = queue[p].due /\ queue'[p].settlement = queue[p].settlement
  BY <1>3, <1>4 DEF Stored
<1>7. QueueTypeOK'
  <2>1. 0 \in 0 .. RetryMax
    BY QueueAssumption
  <2>2. \A p \in Stored(queue)' : queue'[p].due <= RetryMax
    BY <1>5, <1>6 DEF QueueTypeOK
  <2> QED BY <1>1, <1>5, <2>1, <2>2 DEF QueueTypeOK
<1>8. Unsettled(queue)' = Unsettled(queue)
  BY <1>5, <1>6 DEF Unsettled
<1> QED BY <1>1, <1>3, <1>4, <1>5, <1>7, <1>8 DEF Stored

LEMMA StartKeeps ==
  ASSUME IInv, Start
  PROVE  IInv'
<1>1. /\ QueueTypeOK' /\ Stored(queue)' = Stored(queue)
      /\ ~running /\ running' /\ nextPosition' = nextPosition
      /\ Unsettled(queue)' = Unsettled(queue)
      /\ \A p \in Stored(queue) :
           \/ queue'[p] = queue[p] /\ (p \in Unsettled(queue) => queue[p].state # "FORWARDING")
           \/ /\ p \in Unsettled(queue) /\ queue[p].state = "FORWARDING"
              /\ queue'[p] = [queue[p] EXCEPT !.state = "UNKNOWN",
                                              !.reason = "TRANSPORT_ERROR"]
      /\ UNCHANGED <<centralVars, driverVars, faults>>
  BY OpenFacts DEF Start, IInv, TypeOK
<1>2. /\ heads = {} /\ heads' = {}
      /\ \A o \in Operations : inFlight[o] = "none" /\ inFlight'[o] = "none"
  BY <1>1 DEF IInv, HeadsHold, ForwardingIsInFlight, driverVars
<1>3. \A p \in Stored(queue) :
        /\ queue[p] \in Row /\ queue'[p].position = queue[p].position
        /\ queue'[p].attempts = queue[p].attempts
        /\ p \in Unsettled(queue) => queue'[p].state # "FORWARDING"
        /\ queue'[p].state \in SettledStates =>
             queue'[p].state = queue[p].state
  <2> SUFFICES ASSUME NEW p \in Stored(queue)
               PROVE  /\ queue[p] \in Row /\ queue'[p].position = queue[p].position
                      /\ queue'[p].attempts = queue[p].attempts
                      /\ p \in Unsettled(queue) => queue'[p].state # "FORWARDING"
                      /\ queue'[p].state \in SettledStates => queue'[p].state = queue[p].state
    OBVIOUS
  <2>1. queue[p] \in Row
    BY StoredRow DEF IInv, TypeOK, Stored
  <2> QED BY <1>1, <2>1 DEF Row, SettledStates
<1>4. TypeOK'
  BY <1>1 DEF IInv, TypeOK, centralVars, driverVars
<1>5. RowsSatisfyChecks'
  <2>1. ASSUME NEW p \in Stored(queue) PROVE Legal(queue'[p])
    <3>1. queue[p] \in Row /\ Legal(queue[p])
      BY <1>3, ChecksAreRowwise DEF IInv
    <3>2. ASSUME p \in Unsettled(queue),
                 queue'[p] = [queue[p] EXCEPT !.state = "UNKNOWN", !.reason = "TRANSPORT_ERROR"]
          PROVE  Legal(queue'[p])
      BY <3>1, <3>2 DEF Row, Legal, Unsettled, SettledStates
    <3> QED BY <1>1, <3>1, <3>2
  <2> QED BY <1>1, <2>1 DEF RowsSatisfyChecks, Legal
<1>6. ForwardingIsInFlight'
  BY <1>1, <1>2, <1>3 DEF ForwardingIsInFlight, Unsettled
<1>7. PositionsAreDistinct'
  <2>1. /\ Stored(queue)' = Stored(queue) /\ nextPosition' = nextPosition
        /\ \A p \in Stored(queue) : queue'[p].position = queue[p].position
    BY <1>1, <1>3
  <2> QED BY <2>1 DEF IInv, PositionsAreDistinct
<1>8. AnswersAreTrue' /\ SettledIsTrue'
  <2>1. /\ Stored(queue)' = Stored(queue) /\ receipt' = receipt
        /\ \A p \in Stored(queue) :
             queue'[p].state \in SettledStates => queue'[p].state = queue[p].state
    BY <1>1, <1>3 DEF centralVars
  <2>2. SettledIsTrue'
    BY <2>1 DEF IInv, SettledIsTrue, SettledStates
  <2> QED BY <1>2, <2>2 DEF AnswersAreTrue
<1>9. HeadsHold'
  BY <1>2 DEF HeadsHold
<1>10. NoOvertaking'
  <2>1. /\ Stored(queue)' = Stored(queue) /\ Unsettled(queue)' = Unsettled(queue)
        /\ \A p \in Stored(queue) : /\ queue'[p].position = queue[p].position
                                    /\ queue'[p].attempts = queue[p].attempts
    BY <1>1, <1>3
  <2> QED BY <2>1 DEF IInv, NoOvertaking
<1> QED BY <1>4, <1>5, <1>6, <1>7, <1>8, <1>9, <1>10 DEF IInv

LEMMA CrashKeeps ==
  ASSUME IInv, Crash
  PROVE  IInv'
<1>1. /\ queue' = queue /\ nextPosition' = nextPosition /\ unsaved' = 0 /\ running' = FALSE
      /\ heads' = {} /\ inFlight' = [o \in Operations |-> "none"]
      /\ faults' \in 0 .. MaxFaults /\ UNCHANGED centralVars
  BY ForwardingAssumption DEF Crash, Close, Fault, IInv, TypeOK
<1>2. TypeOK'
  <2>1. 0 \in 0 .. RetryMax
    BY QueueAssumption
  <2>2. QueueTypeOK'
    BY <1>1, <2>1 DEF IInv, TypeOK, QueueTypeOK, Stored
  <2>3. inFlight' \in [Operations -> {"none", "sent"} \cup Standings]
    BY <1>1
  <2> QED BY <1>1, <2>2, <2>3 DEF IInv, TypeOK, centralVars
<1>3. RowsSatisfyChecks' /\ PositionsAreDistinct' /\ NoOvertaking'
  BY <1>1 DEF IInv, RowsSatisfyChecks, PositionsAreDistinct, NoOvertaking, Stored, Unsettled
<1>4. ForwardingIsInFlight' /\ AnswersAreTrue' /\ SettledIsTrue' /\ HeadsHold'
  BY <1>1 DEF IInv, ForwardingIsInFlight, AnswersAreTrue, SettledIsTrue, HeadsHold, centralVars
<1> QED BY <1>2, <1>3, <1>4 DEF IInv

LEMMA TimeKeeps ==
  ASSUME IInv, TimePasses
  PROVE  IInv'
<1>1. /\ queue' = queue /\ nextPosition' = nextPosition /\ running' = running
      /\ unsaved' = unsaved + 1 /\ unsaved' \in 0 .. RetryMax
      /\ UNCHANGED <<centralVars, heads, inFlight, faults>>
  BY QueueAssumption DEF TimePasses, Tick, IInv, TypeOK, QueueTypeOK, driverVars
<1>2. /\ TypeOK' /\ RowsSatisfyChecks' /\ PositionsAreDistinct' /\ NoOvertaking'
      /\ ForwardingIsInFlight' /\ AnswersAreTrue' /\ SettledIsTrue'
  BY <1>1 DEF IInv, TypeOK, QueueTypeOK, RowsSatisfyChecks, PositionsAreDistinct, NoOvertaking,
              ForwardingIsInFlight, AnswersAreTrue, SettledIsTrue, centralVars
<1>3. \A o \in heads : Remaining(o) = 0 => Remaining(o)' = 0
  <2> TAKE o \in heads
  <2>1. queue[o].due \in Nat /\ unsaved \in Nat
    BY UnansweredRow DEF IInv, HeadsHold, Row
  <2> QED BY <1>1, <2>1 DEF Remaining
<1>4. HeadsHold'
  BY <1>1, <1>3 DEF IInv, HeadsHold
<1> QED BY <1>2, <1>4 DEF IInv

LEMMA SweepKeeps ==
  ASSUME IInv, Sweep
  PROVE  IInv'
<1>1. /\ running /\ heads' = ForwardableHeads
      /\ UNCHANGED <<queueVars, centralVars, inFlight, faults>>
  BY DEF Sweep
<1>2. TypeOK'
  BY <1>1 DEF IInv, TypeOK, QueueTypeOK, queueVars, centralVars, ForwardableHeads, Unsettled,
              Stored
<1>3. /\ RowsSatisfyChecks' /\ PositionsAreDistinct' /\ NoOvertaking'
      /\ ForwardingIsInFlight' /\ AnswersAreTrue' /\ SettledIsTrue'
  BY <1>1 DEF IInv, RowsSatisfyChecks, PositionsAreDistinct, NoOvertaking,
              ForwardingIsInFlight, AnswersAreTrue, SettledIsTrue, queueVars, centralVars
<1>4. HeadsHold'
  <2> SUFFICES ASSUME NEW h \in ForwardableHeads
               PROVE  /\ h \in Unsettled(queue) /\ inFlight[h] = "none" /\ Remaining(h) = 0
                      /\ \A p \in Unsettled(queue) :
                           ~(NamespaceOf[p] = NamespaceOf[h] /\ SequenceOf[p] < SequenceOf[h])
    BY <1>1 DEF HeadsHold, queueVars, Remaining
  <2>1. /\ h \in Unsettled(queue) /\ queue[h].state # "FORWARDING"
        /\ queue[h].due <= unsaved
    BY DEF ForwardableHeads, ForwardableStates
  <2>2. inFlight[h] = "none"
    BY <1>1, <2>1, UnansweredRow DEF IInv, ForwardingIsInFlight
  <2>3. Remaining(h) = 0
    BY <2>1, UnansweredRow DEF Remaining, Row
  <2>4. ASSUME NEW p \in Unsettled(queue), NamespaceOf[p] = NamespaceOf[h]
        PROVE  ~ SequenceOf[p] < SequenceOf[h]
    <3>1. SequenceOf[h] <= SequenceOf[p]
      BY <2>4 DEF ForwardableHeads
    <3>2. SequenceOf[h] \in Nat /\ SequenceOf[p] \in Nat
      BY <2>1, UnansweredRow, QueueAssumption
    <3> QED BY <3>1, <3>2
  <2> QED BY <2>1, <2>2, <2>3, <2>4
<1> QED BY <1>2, <1>3, <1>4 DEF IInv

LEMMA CentralKeeps ==
  ASSUME IInv, NEW o \in Operations,
         CentralMoves(o) \/ CentralLosesAttempt(o) \/ CentralAnswers(o)
  PROVE  IInv'
<1>1. /\ queue' = queue /\ nextPosition' = nextPosition /\ running' = running
      /\ unsaved' = unsaved /\ heads' = heads
  BY DEF CentralMoves, CentralLosesAttempt, CentralAnswers, queueVars, driverVars
<1>2. /\ receipt' \in [Operations -> ReceiptStatuses]
      /\ \A p \in Operations : receipt[p] \in FinalStatuses => receipt'[p] = receipt[p]
  <2>1. CASE CentralMoves(o)
    <3>1. PICK status \in ReceiptStatuses : /\ <<receipt[o], status>> \in ReceiptSteps
                                            /\ receipt' = [receipt EXCEPT ![o] = status]
      BY <2>1 DEF CentralMoves
    <3>2. receipt[o] \notin FinalStatuses
      BY <3>1 DEF ReceiptSteps, FinalStatuses
    <3> QED BY <3>1, <3>2 DEF IInv, TypeOK
  <2>2. CASE CentralLosesAttempt(o)
    BY <2>2 DEF CentralLosesAttempt, IInv, TypeOK, ReceiptStatuses, FinalStatuses
  <2>3. CASE CentralAnswers(o)
    BY <2>3 DEF CentralAnswers, IInv, TypeOK
  <2> QED BY <2>1, <2>2, <2>3
<1>3. /\ inFlight' \in [Operations -> {"none", "sent"} \cup Standings]
      /\ \A p \in Operations : inFlight'[p] = "none" <=> inFlight[p] = "none"
      /\ \A p \in Operations :
           \/ inFlight'[p] = inFlight[p]
           \/ receipt' = receipt /\ inFlight'[p] = StandingOf[receipt[p]]
  <2>1. CASE CentralMoves(o) \/ CentralLosesAttempt(o)
    BY <2>1 DEF CentralMoves, CentralLosesAttempt, driverVars, IInv, TypeOK
  <2>2. CASE CentralAnswers(o)
    <3>1. StandingOf[receipt[o]] \in Standings /\ StandingOf[receipt[o]] # "none"
      BY StandingFacts DEF IInv, TypeOK, Answers
    <3> QED BY <2>2, <3>1 DEF CentralAnswers, IInv, TypeOK
  <2> QED BY <2>1, <2>2
<1>4. TypeOK'
  <2>1. evidence' \subseteq Operations /\ faults' \in 0 .. MaxFaults
    BY ForwardingAssumption
       DEF CentralMoves, CentralLosesAttempt, CentralAnswers, Fault, IInv, TypeOK
  <2> QED BY <1>1, <1>2, <1>3, <2>1 DEF IInv, TypeOK, QueueTypeOK, Stored
<1>5. RowsSatisfyChecks' /\ PositionsAreDistinct' /\ NoOvertaking'
  BY <1>1 DEF IInv, RowsSatisfyChecks, PositionsAreDistinct, NoOvertaking, Stored, Unsettled
<1>6. ForwardingIsInFlight' /\ HeadsHold'
  <2>1. ForwardingIsInFlight'
    BY <1>1, <1>3 DEF IInv, ForwardingIsInFlight, Unsettled, Stored
  <2>2. HeadsHold'
    BY <1>1, <1>3 DEF IInv, TypeOK, HeadsHold, Remaining, Unsettled, Stored
  <2> QED BY <2>1, <2>2
<1>7. AnswersAreTrue'
  <2> SUFFICES ASSUME NEW p \in Operations
               PROVE  /\ inFlight'[p] = "AUTHORITATIVE_REPLAY_APPLIED"
                           => receipt'[p] = "APPLIED"
                      /\ inFlight'[p] = "AUTHORITATIVE_REPLAY_REJECTED"
                           => receipt'[p] = "REJECTED"
    BY DEF AnswersAreTrue
  <2>1. CASE inFlight'[p] = inFlight[p]
    BY <1>2, <2>1 DEF IInv, AnswersAreTrue, FinalStatuses
  <2>2. CASE receipt' = receipt /\ inFlight'[p] = StandingOf[receipt[p]]
    BY <2>2, StandingFacts DEF IInv, TypeOK
  <2> QED BY <1>3, <2>1, <2>2
<1>8. SettledIsTrue'
  <2>1. \A p \in Stored(queue) : p \in Operations
    BY DEF Stored
  <2> QED BY <1>1, <1>2, <2>1 DEF IInv, SettledIsTrue, FinalStatuses, Stored
<1> QED BY <1>4, <1>5, <1>6, <1>7, <1>8 DEF IInv

LEMMA InitHolds ==
  Init => IInv
<1> SUFFICES ASSUME Init PROVE IInv
  OBVIOUS
<1>1. /\ queue \in [Operations -> Row \cup {NoRow}] /\ Stored(queue) = {} /\ heads = {}
      /\ \A o \in Operations : inFlight[o] = "none"
      /\ inFlight \in [Operations -> {"none", "sent"} \cup Standings]
      /\ receipt \in [Operations -> ReceiptStatuses]
  BY DEF Init, QueueInit, Stored, ReceiptStatuses
<1>2. /\ nextPosition \in 0 .. MaxPosition /\ unsaved \in 0 .. RetryMax /\ faults \in 0 .. MaxFaults
      /\ running = FALSE /\ evidence = {}
  BY QueueAssumption, ForwardingAssumption DEF Init, QueueInit
<1>3. TypeOK
  BY <1>1, <1>2 DEF TypeOK, QueueTypeOK
<1> QED BY <1>1, <1>2, <1>3
        DEF IInv, RowsSatisfyChecks, ForwardingIsInFlight, PositionsAreDistinct, AnswersAreTrue,
            SettledIsTrue, HeadsHold, NoOvertaking, Unsettled

LEMMA StepKeeps ==
  IInv /\ [Next]_vars => IInv'
<1> SUFFICES ASSUME IInv, [Next]_vars PROVE IInv'
  OBVIOUS
<1>1. CASE UNCHANGED vars
  BY <1>1
     DEF vars, queueVars, centralVars, driverVars, IInv, TypeOK, QueueTypeOK, RowsSatisfyChecks,
         ForwardingIsInFlight, PositionsAreDistinct, AnswersAreTrue, SettledIsTrue, HeadsHold,
         NoOvertaking, Remaining, Unsettled, Stored
<1>2. ASSUME NEW n, Prune(n) PROVE IInv'
  BY <1>2, ReclaimingKeeps DEF Prune, PruneSettled
<1>3. ASSUME NEW o \in Operations, ExchangeFails(o) \/ CannotSign(o) PROVE IInv'
  <2>1. /\ inFlight[o] # "none" /\ inFlight' = [inFlight EXCEPT ![o] = "none"]
        /\ UNCHANGED <<centralVars, heads>> /\ faults' \in 0 .. MaxFaults
    BY <1>3, ForwardingAssumption DEF ExchangeFails, CannotSign, Fault, IInv, TypeOK
  <2>2. "NOT_ATTEMPTED" \in FailureCategories
    BY DEF FailureCategories, StateForFailure
  <2>3. PICK category \in FailureCategories : RecordTransportUnknown(o, category)
    BY <1>3, <2>2, ForwardingAssumption DEF ExchangeFails, CannotSign
  <2> QED BY <2>1, <2>3, FailureKeeps
<1>4. ASSUME NEW o \in Operations,
             Admit(o) \/ MarkReady(o) \/ ClaimHead(o) \/ AnswerArrives(o)
      PROVE  IInv'
  BY <1>4, AdmitKeeps, MarkReadyKeeps, ClaimKeeps, AnswerKeeps
<1>5. ASSUME NEW o \in Operations,
             CentralMoves(o) \/ CentralLosesAttempt(o) \/ CentralAnswers(o)
      PROVE  IInv'
  BY <1>5, CentralKeeps
<1> QED BY <1>1, <1>2, <1>3, <1>4, <1>5, StartKeeps, TimeKeeps, SweepKeeps, CrashKeeps DEF Next

LEMMA InvariantHolds ==
  Spec => []IInv
<1> QED BY InitHolds, StepKeeps, PTL DEF Spec

---------------------------------------------------------------------------
(* What a step may do to the rows and to the promise                       *)

\* Every transition but the claim keeps the attempts and when the next is due.
LEMMA OtherTransitions ==
  ASSUME IInv, NEW o \in Operations,
         MarkReady(o) \/ AnswerArrives(o) \/ ExchangeFails(o) \/ CannotSign(o)
  PROVE  /\ receipt' = receipt
         /\ \E row \in Row, to \in States :
              /\ TransitionTo(o, to, row) /\ row.due <= unsaved + RetryMax
              /\ row.due = queue[o].due /\ row.attempts = queue[o].attempts
<1> DEFINE Writes(to, answer, excuse) ==
             TransitionTo(o, to, [queue[o] EXCEPT !.state = to, !.settlement = answer,
                                                  !.reason = excuse])
<1>1. receipt' = receipt
  BY DEF MarkReady, AnswerArrives, ExchangeFails, CannotSign, centralVars
<1>2. ASSUME NEW to \in States, NEW answer \in {"none", "CENTRAL_ACCEPTED", "CENTRAL_REFUSED"},
             NEW excuse \in FailureCategories \cup {"none"}, Writes(to, answer, excuse)
      PROVE  \E row \in Row, t \in States :
              /\ TransitionTo(o, t, row) /\ row.due <= unsaved + RetryMax
              /\ row.due = queue[o].due /\ row.attempts = queue[o].attempts
  <2> DEFINE row == [queue[o] EXCEPT !.state = to, !.settlement = answer, !.reason = excuse]
  <2>1. TransitionTo(o, to, row) /\ o \in Unsettled(queue)
    BY <1>2 DEF TransitionTo, MayTransition
  <2>2. /\ row \in Row /\ row.due = queue[o].due /\ row.attempts = queue[o].attempts
        /\ row.due <= unsaved + RetryMax
    BY <2>1, UnansweredRow DEF Row
  <2> HIDE DEF row
  <2> QED BY <2>1, <2>2
<1> HIDE DEF Writes
<1>3. ASSUME o \in Unsettled(queue), NEW to \in States,
             TransitionTo(o, to, [queue[o] EXCEPT !.state = to])
      PROVE  Writes(to, "none", queue[o].reason)
  <2>1. [queue[o] EXCEPT !.state = to, !.settlement = "none", !.reason = queue[o].reason]
          = [queue[o] EXCEPT !.state = to]
    BY <1>3, UnansweredRow DEF Row
  <2> QED BY <1>3, <2>1 DEF Writes
<1>4. ASSUME NEW to \in States, NEW excuse,
             TransitionTo(o, to, [queue[o] EXCEPT !.state = to, !.reason = excuse])
      PROVE  Writes(to, "none", excuse)
  <2>1. o \in Unsettled(queue)
    BY <1>4 DEF TransitionTo, MayTransition
  <2>2. [queue[o] EXCEPT !.state = to, !.settlement = "none", !.reason = excuse]
          = [queue[o] EXCEPT !.state = to, !.reason = excuse]
    BY <2>1, UnansweredRow DEF Row
  <2> QED BY <1>4, <2>2 DEF Writes
<1>5. CASE MarkReady(o)
  <2>1. o \in Unsettled(queue) /\ queue[o].reason \in FailureCategories \cup {"none"}
    BY <1>5, UnansweredRow DEF MarkReady, Row
  <2>2. Writes("READY_TO_FORWARD", "none", queue[o].reason)
    BY <1>3, <1>5, <2>1 DEF MarkReady, MarkReadyToForward, States
  <2> QED BY <1>1, <1>2, <2>1, <2>2 DEF States
<1>6. ASSUME NEW category \in FailureCategories, RecordTransportUnknown(o, category)
      PROVE  Writes(StateForFailure[category], "none", category)
  BY <1>4, <1>6, FailureFacts DEF RecordTransportUnknown, States
<1>7. ASSUME NEW category \in FailureCategories, RecordTransportUnknown(o, category)
      PROVE  \E row \in Row, to \in States :
              /\ TransitionTo(o, to, row) /\ row.due <= unsaved + RetryMax
              /\ row.due = queue[o].due /\ row.attempts = queue[o].attempts
  <2>1. StateForFailure[category] \in States
    BY FailureFacts DEF States
  <2> QED BY <1>2, <1>6, <1>7, <2>1
<1>8. CASE ExchangeFails(o) \/ CannotSign(o)
  <2>1. "NOT_ATTEMPTED" \in FailureCategories
    BY DEF FailureCategories, StateForFailure
  <2>2. PICK category \in FailureCategories : RecordTransportUnknown(o, category)
    BY <1>8, <2>1, ForwardingAssumption DEF ExchangeFails, CannotSign
  <2> QED BY <1>1, <1>7, <2>2
<1>9. CASE AnswerArrives(o)
  <2>1. ASSUME NEW progress \in {"CENTRAL_RECEIVED", "CENTRAL_APPLYING"},
               RecordCentralProgress(o, progress)
        PROVE  Writes(progress, "none", "none") /\ progress \in States
    BY <1>4, <2>1 DEF RecordCentralProgress, States, AcknowledgedStates
  <2>2. ASSUME Settle(o, "CENTRAL_ACCEPTED")
        PROVE  Writes("CENTRAL_APPLIED", "CENTRAL_ACCEPTED", "none")
    BY <2>2 DEF Settle, Writes
  <2>3. ASSUME Settle(o, "CENTRAL_REFUSED")
        PROVE  Writes("FAILED_TERMINAL", "CENTRAL_REFUSED", "none")
    BY <2>3 DEF Settle, Writes
  <2>4. {"CENTRAL_APPLIED", "FAILED_TERMINAL"} \subseteq States
    BY DEF States, AcknowledgedStates, SettledStates
  <2>5. "RESPONSE_UNINTELLIGIBLE" \in FailureCategories
    BY DEF FailureCategories, StateForFailure
  <2>6. Record(o, inFlight[o])
    BY <1>9 DEF AnswerArrives
  <2>7. \/ \E progress \in {"CENTRAL_RECEIVED", "CENTRAL_APPLYING"} :
             RecordCentralProgress(o, progress)
        \/ Settle(o, "CENTRAL_ACCEPTED") \/ Settle(o, "CENTRAL_REFUSED")
        \/ RecordTransportUnknown(o, "RESPONSE_UNINTELLIGIBLE")
    BY <2>6 DEF Record
  <2> QED BY <1>1, <1>2, <1>7, <2>1, <2>2, <2>3, <2>4, <2>5, <2>7
<1> QED BY <1>5, <1>8, <1>9

\* No attempt is taken back and none brought nearer but by the running clock.
NearsByClock ==
  \A o \in Unsettled(queue) :
    /\ queue'[o].attempts >= queue[o].attempts
    /\ Remaining(o)' < Remaining(o) => unsaved' = unsaved + 1

LEMMA Measures ==
  ASSUME IInv, NEW o \in Unsettled(queue)
  PROVE  queue[o].attempts \in Nat /\ Remaining(o) \in Nat /\ queue[o].due \in Nat /\ unsaved \in Nat
  BY UnansweredRow, QueueAssumption DEF Row, Remaining

LEMMA StepNearsByClock ==
  ASSUME IInv, [Next]_vars
  PROVE  NearsByClock
<1>1. ASSUME queue' = queue, unsaved' = unsaved \/ unsaved' = unsaved + 1 \/ unsaved' = 0
      PROVE  NearsByClock
  BY <1>1, Measures DEF NearsByClock, Remaining
<1>2. ASSUME NEW o \in Operations, NEW row \in Row, NEW to \in States,
             TransitionTo(o, to, row), row.due <= unsaved + RetryMax,
             row.attempts >= queue[o].attempts,
             row.due = queue[o].due \/ (Remaining(o) = 0 /\ row.due >= unsaved)
      PROVE  NearsByClock
  <2>1. /\ o \in Unsettled(queue) /\ Alike(queue'[o], row)
        /\ Remaining(o)' = IF row.due > unsaved THEN row.due - unsaved ELSE 0
        /\ \A p \in Stored(queue) \ {o} :
             Alike(queue'[p], queue[p]) /\ Remaining(p)' = Remaining(p)
    BY <1>2, TransitionFacts DEF IInv, TypeOK
  <2>2. row.due \in Nat
    BY DEF Row
  <2>3. queue'[o].attempts >= queue[o].attempts /\ ~(Remaining(o)' < Remaining(o))
    BY <1>2, <2>1, <2>2, Measures DEF Alike, Remaining
  <2>4. \A p \in Unsettled(queue) \ {o} :
          queue'[p].attempts >= queue[p].attempts /\ ~(Remaining(p)' < Remaining(p))
    BY <2>1, Measures DEF Alike, Unsettled
  <2> QED BY <2>3, <2>4 DEF NearsByClock
<1>3. ASSUME NEW o \in Operations, ClaimHead(o) PROVE NearsByClock
  <2>1. Remaining(o) = 0
    BY <1>3 DEF ClaimHead, IInv, HeadsHold
  <2>2. "FORWARDING" \in States
    BY DEF States
  <2> QED BY <1>2, <1>3, <2>1, <2>2, ClaimFacts
<1>4. ASSUME NEW o \in Operations,
             MarkReady(o) \/ AnswerArrives(o) \/ ExchangeFails(o) \/ CannotSign(o)
      PROVE  NearsByClock
  <2>1. PICK row \in Row, to \in States :
              /\ TransitionTo(o, to, row) /\ row.due <= unsaved + RetryMax
              /\ row.due = queue[o].due /\ row.attempts = queue[o].attempts
    BY <1>4, OtherTransitions
  <2>2. o \in Unsettled(queue)
    BY <2>1 DEF TransitionTo, MayTransition
  <2>3. row.attempts >= queue[o].attempts
    BY <2>1, <2>2, Measures
  <2> QED BY <1>2, <2>1, <2>3
<1>5. ASSUME NEW n, queue' = Reclaimed(n), unsaved' = unsaved PROVE NearsByClock
  <2>1. \A p \in Unsettled(queue) : queue'[p] = queue[p]
    BY <1>5, ReclaimedFacts DEF IInv, TypeOK, Unsettled, Settled, Stored
  <2> QED BY <1>5, <2>1, Measures DEF NearsByClock, Remaining
<1>6. ASSUME NEW o \in Operations, AdmitStores(o) PROVE NearsByClock
  <2>1. \A p \in Unsettled(queue) :
          /\ p \in Stored(queue)' \ {o}
          /\ Alike(queue'[p], queue[p]) /\ Remaining(p)' = Remaining(p)
    BY <1>6, TakingFacts DEF IInv, TypeOK, Unsettled
  <2> QED BY <2>1, Measures DEF NearsByClock, Alike
<1>7. CASE Start
  <2>1. /\ unsaved' = 0
        /\ \A p \in Unsettled(queue) :
             \/ queue'[p] = queue[p]
             \/ queue'[p] = [queue[p] EXCEPT !.state = "UNKNOWN", !.reason = "TRANSPORT_ERROR"]
    BY <1>7, OpenFacts DEF Start, IInv, TypeOK, Unsettled
  <2>2. \A p \in Unsettled(queue) :
          queue'[p].attempts = queue[p].attempts /\ queue'[p].due = queue[p].due
    BY <2>1, UnansweredRow DEF Row
  <2>3. ASSUME NEW p \in Unsettled(queue)
        PROVE  /\ queue'[p].attempts >= queue[p].attempts
               /\ ~(Remaining(p)' < Remaining(p))
    <3> DEFINE n == queue[p].due
    <3>1. queue[p].attempts \in Nat /\ n \in Nat /\ unsaved \in Nat
      BY Measures
    <3>2. queue'[p].attempts = queue[p].attempts /\ queue'[p].due = n
      BY <2>2
    <3>3. Remaining(p)' = (IF n > 0 THEN n - 0 ELSE 0)
          /\ Remaining(p) = (IF n > unsaved THEN n - unsaved ELSE 0)
      BY <2>1, <3>2 DEF Remaining
    <3> QED BY <3>1, <3>2, <3>3
  <2> QED BY <2>3 DEF NearsByClock
<1>8. CASE TimePasses \/ Sweep \/ Crash \/ UNCHANGED vars
  BY <1>1, <1>8 DEF TimePasses, Tick, Sweep, Crash, Close, vars, queueVars
<1>9. ASSUME NEW o \in Operations,
             CentralAnswers(o) \/ CentralMoves(o) \/ CentralLosesAttempt(o)
      PROVE  NearsByClock
  BY <1>1, <1>9 DEF CentralAnswers, CentralMoves, CentralLosesAttempt, queueVars
<1>10. ASSUME NEW n, Prune(n) PROVE NearsByClock
  BY <1>5, <1>10 DEF Prune, PruneSettled
<1>11. ASSUME NEW o \in Operations, Admit(o) PROVE NearsByClock
  BY <1>5, <1>6, <1>11 DEF Admit, AdmitRefuses, Retained
<1> QED BY <1>3, <1>4, <1>7, <1>8, <1>9, <1>10, <1>11 DEF Next

---------------------------------------------------------------------------
(* The bound of the table                                                  *)

\* Where n elements at least precede each one that is kept, n are not kept.
LEMMA OldestGo ==
  ASSUME NEW S, IsFiniteSet(S), NEW rank \in [S -> Nat], NEW n \in Int,
         NEW Surviving \in SUBSET S, Surviving # {},
         \A o \in Surviving : Cardinality({ p \in S : rank[p] < rank[o] }) >= n
  PROVE  Cardinality(Surviving) <= Cardinality(S) - n
<1> DEFINE ranks == { rank[o] : o \in Surviving }
<1>1. PICK r \in ranks : \A q \in ranks : << q, r >> \notin OpToRel(<, Nat)
  <2>1. ranks \subseteq Nat /\ ranks # {}
    OBVIOUS
  <2> HIDE DEF ranks
  <2> QED BY <2>1, NatLessThanWellFounded, WFMin, Zenon
<1>2. PICK lowest \in Surviving : r = rank[lowest]
  BY <1>1
<1>3. ASSUME NEW o \in Surviving PROVE ~ rank[o] < rank[lowest]
  <2>1. rank[o] \in ranks /\ rank[o] \in Nat /\ r \in Nat
    BY <1>2
  <2>2. << rank[o], r >> \notin OpToRel(<, Nat)
    BY <1>1, <2>1
  <2> HIDE DEF ranks
  <2>3. ~ rank[o] < r
    BY <2>1, <2>2, Zenon DEF OpToRel
  <2> QED BY <1>2, <2>3
<1> DEFINE before == { p \in S : rank[p] < rank[lowest] }
<1>4. Cardinality(before) >= n /\ before \subseteq S /\ Surviving \subseteq S \ before
  BY <1>3
<1> HIDE DEF before
<1>5. /\ IsFiniteSet(S \ before) /\ S \cap before = before
      /\ Cardinality(S \ before) = Cardinality(S) - Cardinality(before)
  <2>1. S \cap before = before
    BY <1>4
  <2> QED BY <2>1, FS_Difference
<1>6. Cardinality(Surviving) <= Cardinality(S \ before)
  BY <1>4, <1>5, FS_Subset
<1>7. /\ Cardinality(S) \in Nat /\ Cardinality(before) \in Nat /\ Cardinality(Surviving) \in Nat
      /\ IsFiniteSet(Surviving)
  BY <1>4, FS_Subset, FS_CardinalityType
<1> QED BY <1>4, <1>5, <1>6, <1>7

LEMMA StoredIsFinite ==
  /\ IsFiniteSet(Stored(queue)) /\ IsFiniteSet(Settled(queue)) /\ IsFiniteSet(Unsettled(queue))
  /\ Cardinality(Stored(queue)) \in Nat /\ Cardinality(Settled(queue)) \in Nat
  /\ Cardinality(Unsettled(queue)) \in Nat
<1>1. /\ Stored(queue) \subseteq Operations /\ Settled(queue) \subseteq Operations
      /\ Unsettled(queue) \subseteq Operations
  BY DEF Stored, Settled, Unsettled
<1>2. /\ IsFiniteSet(Stored(queue)) /\ IsFiniteSet(Settled(queue))
      /\ IsFiniteSet(Unsettled(queue))
  BY <1>1, QueueAssumption, FS_Subset
<1> QED BY <1>2, FS_CardinalityType

\* Reclamation brings the settled rows down to their retention.
LEMMA RetainedFacts ==
  ASSUME QueueTypeOK
  PROVE  Cardinality({ o \in Settled(queue) : Retained[o] # NoRow }) <= SettledRetention
<1> DEFINE S == Settled(queue)
           n == Cardinality(S) - SettledRetention
           rank == [ o \in S |-> queue[o].position ]
           Surviving == { o \in S : Retained[o] # NoRow }
<1>1. /\ IsFiniteSet(S) /\ Cardinality(S) \in Nat /\ n \in Int /\ SettledRetention \in Nat
  BY StoredIsFinite, QueueAssumption
<1>2. rank \in [S -> Nat]
  BY DEF QueueTypeOK, Settled, Stored, Row
<1>3. ASSUME NEW o \in Surviving PROVE Cardinality({ p \in S : rank[p] < rank[o] }) >= n
  <2>1. { p \in S : rank[p] < rank[o] } = { p \in S : queue[p].position < queue[o].position }
    OBVIOUS
  <2>2. o \in Operations /\ o \in S /\ Reclaimed(n)[o] # NoRow
    BY DEF Retained, Settled, Stored
  <2>3. ~ Cardinality({ p \in S : queue[p].position < queue[o].position }) < n
    BY <2>2 DEF Reclaimed
  <2>4. Cardinality({ p \in S : queue[p].position < queue[o].position }) \in Nat
    BY <1>1, FS_Subset, FS_CardinalityType
  <2> HIDE DEF S, n, rank
  <2> QED BY <1>1, <2>1, <2>3, <2>4
<1>4. CASE Surviving = {}
  BY <1>1, <1>4, FS_EmptySet
<1>5. CASE Surviving # {}
  <2>1. Surviving \in SUBSET S
    OBVIOUS
  <2> HIDE DEF S, rank, Surviving
  <2>2. Cardinality(Surviving) <= Cardinality(S) - n
    <3> HIDE DEF n
    <3> QED BY <1>1, <1>2, <1>3, <1>5, <2>1, OldestGo
  <2>3. Cardinality(Surviving) \in Nat
    BY <1>1, <2>1, FS_Subset, FS_CardinalityType
  <2>4. Cardinality(Surviving) <= SettledRetention
    BY <1>1, <2>2, <2>3
  <2> QED BY <2>4 DEF Surviving, S
<1> QED BY <1>4, <1>5

LEMMA TakingIsBounded ==
  ASSUME QueueTypeOK, NEW o \in Operations, AdmitStores(o)
  PROVE  TableIsBounded'
<1> DEFINE kept == { p \in Settled(queue) : Retained[p] # NoRow }
           open == Unsettled(queue)
<1>1. /\ ~ Cardinality(Unsettled(Retained)) >= MaxUnsettled
      /\ SaveWithClock([Retained EXCEPT ![o] = FreshRow(nextPosition)])
  BY DEF AdmitStores, Refuses, AllocatedPosition
<1>2. /\ Retained \in [Operations -> Row \cup {NoRow}]
      /\ \A p \in Operations :
           Retained[p] = queue[p] \/ (Retained[p] = NoRow /\ p \in Settled(queue))
  BY ReclaimedFacts DEF Retained
<1>3. Unsettled(Retained) = open
  BY <1>2 DEF Unsettled, Settled, Stored
<1>4. Stored(queue)' \subseteq kept \cup open \cup {o}
  BY <1>1, <1>2 DEF SaveWithClock, Stored, Unsettled, Settled
<1>5. Unsettled(queue)' = open \cup {o} /\ o \notin open
  BY TakingFacts
<1>6. Cardinality(kept) <= SettledRetention
  BY RetainedFacts
<1>7. /\ IsFiniteSet(open) /\ Cardinality(open) \in Nat /\ Cardinality(open) < MaxUnsettled
      /\ MaxUnsettled \in Nat /\ SettledRetention \in Nat
  <2>1. IsFiniteSet(open) /\ Cardinality(open) \in Nat /\ MaxUnsettled \in Nat
    BY StoredIsFinite, QueueAssumption
  <2> HIDE DEF open
  <2> QED BY <1>1, <1>3, <2>1, QueueAssumption
<1>8. IsFiniteSet(kept) /\ Cardinality(kept) \in Nat
  BY StoredIsFinite, FS_Subset, FS_CardinalityType
<1> HIDE DEF kept, open
<1>9. IsFiniteSet(open \cup {o}) /\ Cardinality(open \cup {o}) = Cardinality(open) + 1
  BY <1>5, <1>7, FS_AddElement
<1> DEFINE taken == open \cup {o}
<1>10. IsFiniteSet(taken) /\ Cardinality(taken) <= MaxUnsettled /\ Cardinality(taken) \in Nat
  BY <1>7, <1>9
<1> HIDE DEF taken
<1>11. /\ IsFiniteSet(kept \cup taken)
       /\ Cardinality(kept \cup taken) <= MaxUnsettled + SettledRetention
  <2>1. /\ IsFiniteSet(kept \cup taken)
        /\ Cardinality(kept \cup taken)
             = Cardinality(kept) + Cardinality(taken) - Cardinality(kept \cap taken)
    BY <1>8, <1>10, FS_Union
  <2>2. Cardinality(kept \cap taken) \in Nat
    BY <1>8, FS_Subset, FS_CardinalityType
  <2> QED BY <1>6, <1>7, <1>8, <1>10, <2>1, <2>2
<1>12. Stored(queue)' \in SUBSET (kept \cup taken)
  BY <1>4 DEF taken
<1>13. /\ Cardinality(Stored(queue)') <= Cardinality(kept \cup taken)
       /\ Cardinality(Stored(queue)') \in Nat /\ Cardinality(kept \cup taken) \in Nat
  BY <1>11, <1>12, FS_Subset, FS_CardinalityType
<1>14. Cardinality(Stored(queue)') <= MaxUnsettled + SettledRetention
  BY <1>7, <1>11, <1>13
<1>15. Cardinality(Unsettled(queue)') <= MaxUnsettled
  BY <1>5, <1>10 DEF taken
<1> QED BY <1>14, <1>15 DEF TableIsBounded

\* Nothing but taking an operation in adds a row, or an unanswered one.
LEMMA OthersAddNoRow ==
  ASSUME IInv, IInv', [Next]_vars, \A o \in Operations : ~AdmitStores(o)
  PROVE  Stored(queue)' \subseteq Stored(queue) /\ Unsettled(queue)' \subseteq Unsettled(queue)
<1> DEFINE Shrinks == /\ Stored(queue)' \subseteq Stored(queue)
                      /\ Unsettled(queue)' \subseteq Unsettled(queue)
<1>1. ASSUME queue' = queue PROVE Shrinks
  BY <1>1 DEF Stored, Unsettled
<1>2. ASSUME NEW o \in Operations, NEW row \in Row, NEW to,
             TransitionTo(o, to, row), row.due <= unsaved + RetryMax
      PROVE  Shrinks
  <2>1. /\ o \in Unsettled(queue) /\ Stored(queue)' = Stored(queue)
        /\ \A p \in Stored(queue) \ {o} : queue'[p].settlement = queue[p].settlement
    BY <1>2, TransitionFacts DEF IInv, TypeOK, Alike
  <2> QED BY <2>1 DEF Unsettled
<1>3. ASSUME NEW n, queue' = Reclaimed(n) PROVE Shrinks
  BY <1>3, ReclaimedFacts DEF IInv, TypeOK, Stored, Unsettled, Settled
<1>4. ASSUME Start PROVE Shrinks
  BY <1>4, OpenFacts DEF Start, IInv, TypeOK
<1>5. ASSUME NEW o \in Operations, ClaimHead(o) PROVE Shrinks
  BY <1>2, <1>5, ClaimFacts
<1>6. ASSUME NEW o \in Operations,
             MarkReady(o) \/ AnswerArrives(o) \/ ExchangeFails(o) \/ CannotSign(o)
      PROVE  Shrinks
  BY <1>2, <1>6, OtherTransitions
<1>7. ASSUME NEW n, Prune(n) PROVE Shrinks
  BY <1>3, <1>7 DEF Prune, PruneSettled
<1>8. ASSUME NEW o \in Operations, Admit(o) PROVE Shrinks
  BY <1>3, <1>8 DEF Admit, AdmitRefuses, Retained
<1>9. ASSUME TimePasses \/ Sweep \/ Crash \/ UNCHANGED vars PROVE Shrinks
  BY <1>1, <1>9 DEF TimePasses, Tick, Sweep, Crash, Close, vars, queueVars
<1>10. ASSUME NEW o \in Operations,
              CentralAnswers(o) \/ CentralMoves(o) \/ CentralLosesAttempt(o)
       PROVE  Shrinks
  BY <1>1, <1>10 DEF CentralAnswers, CentralMoves, CentralLosesAttempt, queueVars
<1> HIDE DEF Shrinks
<1>11. Shrinks
  BY <1>4, <1>5, <1>6, <1>7, <1>8, <1>9, <1>10 DEF Next
<1> QED BY <1>11 DEF Shrinks

LEMMA StepIsBounded ==
  ASSUME IInv, IInv', TableIsBounded, [Next]_vars
  PROVE  TableIsBounded'
<1>1. CASE \E o \in Operations : AdmitStores(o)
  BY <1>1, TakingIsBounded DEF IInv, TypeOK
<1>2. CASE \A o \in Operations : ~AdmitStores(o)
  <2>1. Stored(queue)' \subseteq Stored(queue) /\ Unsettled(queue)' \subseteq Unsettled(queue)
    BY <1>2, OthersAddNoRow
  <2>2. /\ Cardinality(Stored(queue)') <= Cardinality(Stored(queue))
        /\ Cardinality(Unsettled(queue)') <= Cardinality(Unsettled(queue))
        /\ Cardinality(Stored(queue)') \in Nat /\ Cardinality(Unsettled(queue)') \in Nat
    BY <2>1, StoredIsFinite, FS_Subset, FS_CardinalityType
  <2>3. Cardinality(Unsettled(queue)') <= MaxUnsettled
    BY <2>2, StoredIsFinite, QueueAssumption DEF TableIsBounded
  <2>4. Cardinality(Stored(queue)') <= MaxUnsettled + SettledRetention
    BY <2>2, StoredIsFinite, QueueAssumption DEF TableIsBounded
  <2> QED BY <2>3, <2>4 DEF TableIsBounded
<1> QED BY <1>1, <1>2

---------------------------------------------------------------------------
(* The promise of custody                                                  *)

rulings == [ o \in Operations |-> IF receipt[o] \in FinalStatuses THEN receipt[o] ELSE "none" ]

custodies == [ o \in Operations |-> Custody(o) ]

\* What the queue says of an operation, by where its row stands.
CustodyIs ==
  \A o \in Operations :
    /\ o \notin Stored(queue) => Custody(o) = "none"
    /\ o \in Unsettled(queue) => Custody(o) = "held"
    /\ o \in Settled(queue) => Custody(o) = receipt[o] /\ receipt[o] \in FinalStatuses

LEMMA CustodyFollowsRows ==
  IInv => CustodyIs
<1> SUFFICES ASSUME IInv, NEW o \in Operations
             PROVE  /\ o \notin Stored(queue) => Custody(o) = "none"
                    /\ o \in Unsettled(queue) => Custody(o) = "held"
                    /\ o \in Settled(queue) =>
                         Custody(o) = receipt[o] /\ receipt[o] \in FinalStatuses
  BY DEF CustodyIs
<1>1. o \notin Stored(queue) <=> queue[o] = NoRow
  BY DEF Stored
<1>2. ASSUME o \in Unsettled(queue)
      PROVE  queue[o] # NoRow /\ queue[o].state \notin SettledStates
  BY <1>2, UnansweredRow DEF Legal, Unsettled, Stored
<1>3. ASSUME o \in Settled(queue)
      PROVE  /\ queue[o] # NoRow
             /\ \/ queue[o].state = "CENTRAL_APPLIED" /\ receipt[o] = "APPLIED"
                \/ queue[o].state = "FAILED_TERMINAL" /\ receipt[o] = "REJECTED"
  BY <1>3, ChecksAreRowwise DEF IInv, Legal, SettledIsTrue, SettledStates, Settled, Stored
<1> QED BY <1>1, <1>2, <1>3 DEF Custody, SettledStates, FinalStatuses

LEMMA SettledApart ==
  /\ Stored(queue) \subseteq Operations
  /\ Settled(queue) = Stored(queue) \ Unsettled(queue) /\ Unsettled(queue) \subseteq Stored(queue)
  BY DEF Stored, Settled, Unsettled

\* The rows may change as they like, as long as what has no row has none, and
\* what is unanswered stays so.
LEMMA UntoldIsStutter ==
  ASSUME CustodyIs, CustodyIs', receipt' = receipt,
         Stored(queue)' = Stored(queue), Unsettled(queue)' = Unsettled(queue)
  PROVE  UNCHANGED Promise!vars
<1>1. Settled(queue)' = Settled(queue)
  BY SettledApart DEF Settled, Unsettled, Stored
<1>2. \A o \in Operations : Custody(o)' = Custody(o)
  BY <1>1, SettledApart DEF CustodyIs
<1> QED BY <1>2 DEF Promise!vars

LEMMA TransitionIsPromised ==
  ASSUME CustodyIs, CustodyIs', receipt' = receipt, NEW o \in Operations,
         QueueTypeOK, NEW row \in Row, NEW to, row.due <= unsaved + RetryMax, TransitionTo(o, to, row)
  PROVE  [Promise!Next]_(Promise!vars)
<1>1. /\ o \in Unsettled(queue) /\ Stored(queue)' = Stored(queue)
      /\ \A p \in Stored(queue) \ {o} : queue'[p].settlement = queue[p].settlement
  BY TransitionFacts DEF Alike
<1>2. CASE o \in Unsettled(queue)'
  <2>1. Unsettled(queue)' = Unsettled(queue)
    BY <1>1, <1>2 DEF Unsettled
  <2> QED BY <1>1, <2>1, UntoldIsStutter
<1>3. CASE o \notin Unsettled(queue)'
  <2>1. /\ Unsettled(queue)' = Unsettled(queue) \ {o}
        /\ Settled(queue)' = Settled(queue) \cup {o}
    BY <1>1, <1>3 DEF Unsettled, Settled
  <2>2. /\ Custody(o) = "held" /\ Custody(o)' = receipt[o] /\ receipt[o] \in FinalStatuses
        /\ \A p \in Operations \ {o} : Custody(p)' = Custody(p)
    BY <1>1, <2>1, SettledApart DEF CustodyIs
  <2>3. custodies' = [custodies EXCEPT ![o] = rulings[o]] /\ rulings' = rulings
    BY <2>2 DEF custodies, rulings
  <2>4. custodies[o] = "held" /\ rulings[o] # "none"
    BY <2>2 DEF custodies, rulings, FinalStatuses
  <2>5. Promise!Learn(o)
    BY <2>3, <2>4 DEF Promise!Learn, custodies, rulings
  <2> QED BY <2>5 DEF Promise!Next
<1> QED BY <1>2, <1>3

\* Rows disappear only of answered operations, and at most one comes.
LEMMA TurnoverIsPromised ==
  ASSUME CustodyIs, CustodyIs', receipt' = receipt, NEW taken \in SUBSET Operations,
         taken = {} \/ \E o \in Operations : taken = {o},
         taken \cap Unsettled(queue) = {},
         taken \subseteq Stored(queue)', Stored(queue)' \subseteq Stored(queue) \cup taken,
         Unsettled(queue)' = Unsettled(queue) \cup taken
  PROVE  [Promise!Next]_(Promise!vars)
<1> DEFINE forgotten == { p \in Settled(queue) : p \notin Stored(queue)' \/ p \in taken }
<1>1. /\ forgotten \in SUBSET Operations /\ rulings' = rulings
      /\ \A p \in forgotten : custodies[p] \in {"APPLIED", "REJECTED"}
  BY SettledApart DEF CustodyIs, custodies, rulings, FinalStatuses
<1>2. \A p \in taken : custodies[p] = "none" \/ p \in forgotten
  BY SettledApart DEF CustodyIs, custodies
<1>3. ASSUME NEW p \in Operations
      PROVE  Custody(p)' = IF p \in taken THEN "held"
                           ELSE IF p \in forgotten THEN "none" ELSE Custody(p)
  <2>1. /\ Settled(queue)' = Stored(queue)' \ Unsettled(queue)'
        /\ Unsettled(queue)' \subseteq Stored(queue)'
    BY DEF Settled, Unsettled, Stored
  <2>2. CASE p \in taken
    BY <2>2 DEF CustodyIs
  <2>3. CASE p \in forgotten /\ p \notin taken
    BY <2>3 DEF CustodyIs
  <2>4. CASE p \notin taken /\ p \notin forgotten
    <3>1. /\ p \in Stored(queue)' <=> p \in Stored(queue)
          /\ p \in Unsettled(queue)' <=> p \in Unsettled(queue)
      BY <2>1, <2>4, SettledApart
    <3> QED BY <2>1, <2>4, <3>1, SettledApart DEF CustodyIs
  <2> QED BY <2>2, <2>3, <2>4
<1> HIDE DEF forgotten
<1>4. custodies' = [ p \in Operations |-> IF p \in taken THEN "held"
                                          ELSE IF p \in forgotten THEN "none" ELSE custodies[p] ]
  BY <1>3 DEF custodies
<1>5. Promise!Turnover(forgotten, taken)
  BY <1>1, <1>2, <1>4 DEF Promise!Turnover, Promise!Rulings, custodies, rulings
<1> QED BY <1>1, <1>5 DEF Promise!Next

LEMMA StepIsPromised ==
  ASSUME IInv, IInv', [Next]_vars
  PROVE  [Promise!Next]_(Promise!vars)
<1>1. CustodyIs /\ CustodyIs' /\ QueueTypeOK
  <2>1. IInv' => CustodyIs'
    BY CustodyFollowsRows, PTL
  <2> QED BY <2>1, CustodyFollowsRows DEF IInv, TypeOK
<1>2. ASSUME queue' = queue, receipt' = receipt PROVE [Promise!Next]_(Promise!vars)
  BY <1>1, <1>2, UntoldIsStutter DEF Stored, Unsettled
<1>3. ASSUME NEW o \in Operations,
             MarkReady(o) \/ AnswerArrives(o) \/ ExchangeFails(o) \/ CannotSign(o)
      PROVE  [Promise!Next]_(Promise!vars)
  BY <1>1, <1>3, OtherTransitions, TransitionIsPromised
<1>4. ASSUME NEW o \in Operations, ClaimHead(o) PROVE [Promise!Next]_(Promise!vars)
  <2>1. receipt' = receipt
    BY <1>4 DEF ClaimHead, centralVars
  <2> QED BY <1>1, <1>4, <2>1, ClaimFacts, TransitionIsPromised
<1>5. ASSUME NEW n, queue' = Reclaimed(n), receipt' = receipt
      PROVE  [Promise!Next]_(Promise!vars)
  <2>1. /\ Stored(queue)' \subseteq Stored(queue) /\ Unsettled(queue)' = Unsettled(queue)
    BY <1>1, <1>5, ReclaimedFacts DEF Stored, Unsettled, Settled
  <2> DEFINE taken == {}
  <2>2. /\ taken \in SUBSET Operations /\ taken = {} /\ taken \cap Unsettled(queue) = {}
        /\ taken \subseteq Stored(queue)' /\ Stored(queue)' \subseteq Stored(queue) \cup taken
        /\ Unsettled(queue)' = Unsettled(queue) \cup taken
    BY <2>1
  <2> HIDE DEF taken
  <2> QED BY <1>1, <1>5, <2>2, TurnoverIsPromised
<1>6. ASSUME NEW o \in Operations, AdmitStores(o), receipt' = receipt
      PROVE  [Promise!Next]_(Promise!vars)
  <2>1. /\ o \notin Unsettled(queue) /\ o \in Stored(queue)'
        /\ Stored(queue)' \subseteq Stored(queue) \cup {o}
        /\ Unsettled(queue)' = Unsettled(queue) \cup {o}
    BY <1>1, <1>6, TakingFacts
  <2> DEFINE taken == {o}
  <2>2. /\ taken \in SUBSET Operations /\ \E p \in Operations : taken = {p}
        /\ taken \cap Unsettled(queue) = {}
        /\ taken \subseteq Stored(queue)' /\ Stored(queue)' \subseteq Stored(queue) \cup taken
        /\ Unsettled(queue)' = Unsettled(queue) \cup taken
    BY <2>1
  <2> HIDE DEF taken
  <2> QED BY <1>1, <1>6, <2>2, TurnoverIsPromised
<1>7. CASE Start
  <2>1. Stored(queue)' = Stored(queue) /\ Unsettled(queue)' = Unsettled(queue)
    BY <1>1, <1>7, OpenFacts DEF Start
  <2> QED BY <1>1, <1>7, <2>1, UntoldIsStutter DEF Start, centralVars
<1>8. ASSUME NEW o \in Operations, CentralMoves(o) PROVE [Promise!Next]_(Promise!vars)
  <2>1. PICK status \in ReceiptStatuses : /\ <<receipt[o], status>> \in ReceiptSteps
                                          /\ receipt' = [receipt EXCEPT ![o] = status]
    BY <1>8 DEF CentralMoves
  <2>2. receipt[o] \notin FinalStatuses /\ receipt' = [receipt EXCEPT ![o] = status]
    BY <2>1 DEF ReceiptSteps, FinalStatuses
  <2>3. receipt'[o] = status /\ \A p \in Operations \ {o} : receipt'[p] = receipt[p]
    BY <2>2 DEF IInv, TypeOK
  <2>4. queue' = queue
    BY <1>8 DEF CentralMoves, queueVars
  <2>5. custodies' = custodies
    BY <2>4 DEF custodies, Custody
  <2>6. CASE status \in FinalStatuses
    <3>1. rulings[o] = "none" /\ rulings' = [rulings EXCEPT ![o] = status]
      BY <2>2, <2>3, <2>6 DEF rulings
    <3>2. Promise!Rule(o, status)
      BY <2>5, <3>1 DEF Promise!Rule, custodies, rulings
    <3> QED BY <2>6, <3>2 DEF Promise!Next, Promise!Rulings, FinalStatuses
  <2>7. CASE status \notin FinalStatuses
    <3>1. rulings' = rulings
      BY <2>2, <2>3, <2>7 DEF rulings
    <3> QED BY <2>5, <3>1 DEF Promise!vars, custodies, rulings
  <2> QED BY <2>6, <2>7
<1>9. ASSUME NEW o \in Operations, CentralLosesAttempt(o) PROVE [Promise!Next]_(Promise!vars)
  <2>1. /\ receipt[o] = "APPLYING" /\ receipt' = [receipt EXCEPT ![o] = "UNKNOWN"]
        /\ queue' = queue
    BY <1>9 DEF CentralLosesAttempt, queueVars
  <2>2. receipt'[o] = "UNKNOWN" /\ \A p \in Operations \ {o} : receipt'[p] = receipt[p]
    BY <2>1 DEF IInv, TypeOK
  <2>3. custodies' = custodies /\ rulings' = rulings
    BY <2>1, <2>2 DEF custodies, Custody, rulings, FinalStatuses
  <2> QED BY <2>3 DEF Promise!vars, custodies, rulings
<1>10. CASE TimePasses \/ Sweep \/ Crash \/ UNCHANGED vars
  BY <1>2, <1>10
     DEF TimePasses, Tick, Sweep, Crash, Close, vars, queueVars, centralVars
<1>11. ASSUME NEW o \in Operations, CentralAnswers(o) PROVE [Promise!Next]_(Promise!vars)
  BY <1>2, <1>11 DEF CentralAnswers, queueVars
<1>12. ASSUME NEW n, Prune(n) PROVE [Promise!Next]_(Promise!vars)
  BY <1>5, <1>12 DEF Prune, PruneSettled, centralVars
<1>13. ASSUME NEW o \in Operations, Admit(o) PROVE [Promise!Next]_(Promise!vars)
  BY <1>5, <1>6, <1>13 DEF Admit, AdmitRefuses, Retained, centralVars
<1> QED BY <1>3, <1>4, <1>7, <1>8, <1>9, <1>10, <1>11, <1>12, <1>13 DEF Next

---------------------------------------------------------------------------
(* The theorems                                                            *)

\* Type correctness, of the store's rows in particular: no call writes a row
\* whose retry delay, attempts or excuse are out of the ranges of the schema.
THEOREM TypeCorrect == Spec => []TypeOK
  BY InvariantHolds, PTL DEF IInv

\* Every row the store writes satisfies the CHECK constraints of its schema, so
\* no call of the forwarder is aborted by one, whatever came before it.
THEOREM RowsSatisfyChecksHolds == Spec => []RowsSatisfyChecks
  BY InvariantHolds, PTL DEF IInv

\* A row is in FORWARDING exactly while its request is open: a crash strands
\* none, and the outcome of each request finds its row waiting for it.
THEOREM ForwardingIsInFlightHolds == Spec => []ForwardingIsInFlight
  BY InvariantHolds, PTL DEF IInv

\* No two rows ever share an Edge position and the counter stays ahead of all,
\* across crashes, reclamation and readmission: the store always opens again.
THEOREM PositionsAreDistinctHolds == Spec => []PositionsAreDistinct
  BY InvariantHolds, PTL DEF IInv

\* An operation is never attempted while an earlier one of its device, which
\* the Edge held before it, is unanswered, although the list of heads is used
\* long after it was read.
THEOREM NoOvertakingHolds == Spec => []NoOvertaking
  BY InvariantHolds, PTL DEF IInv

\* No crash, answer or failure takes an attempt back, and only the running
\* clock brings the next one nearer.
THEOREM BackoffSurvivesHolds == Spec => BackoffSurvives
<1>1. IInv /\ [Next]_vars => [NearsByClock]_vars
  BY StepNearsByClock
<1>2. [NearsByClock]_vars =>
        [\A o \in Unsettled(queue) :
           /\ queue'[o].attempts >= queue[o].attempts
           /\ Remaining(o)' < Remaining(o) => unsaved' = unsaved + 1]_vars
  BY DEF NearsByClock
<1> QED BY <1>1, <1>2, InvariantHolds, PTL DEF Spec, BackoffSurvives

\* Retention and capacity together bound the table: never more unanswered
\* operations than the capacity, and never more settled rows beside them than
\* the retention leaves room for, in whatever order they came and were settled.
THEOREM TableIsBoundedHolds == Spec => []TableIsBounded
<1>1. Init => TableIsBounded
  <2> SUFFICES ASSUME Init PROVE TableIsBounded
    OBVIOUS
  <2>1. Stored(queue) = {} /\ Unsettled(queue) = {}
    BY DEF Init, QueueInit, Stored, Unsettled
  <2> QED BY <2>1, FS_EmptySet, QueueAssumption DEF TableIsBounded
<1>2. IInv /\ IInv' /\ TableIsBounded /\ [Next]_vars => TableIsBounded'
  BY StepIsBounded
<1> QED BY <1>1, <1>2, InvariantHolds, PTL DEF Spec

\* The queue, its driver, the link and central together keep the promise of
\* custody: an operation once taken is held until central ruled on it, and what
\* the queue then says of it is central's ruling.
THEOREM CustodyHolds == Spec => ImplementsCustody
<1>1. Init => Promise!Init
  BY DEF Init, QueueInit, Promise!Init, Custody, FinalStatuses
<1>2. IInv /\ IInv' /\ [Next]_vars => [Promise!Next]_(Promise!vars)
  BY StepIsPromised
<1> QED BY <1>1, <1>2, InvariantHolds, PTL DEF Spec, ImplementsCustody, Promise!Spec

---------------------------------------------------------------------------
(* How an Edge comes to be trusted *)

\* A challenge that was asked for is some authority's, and only one that was
\* asked for has a verdict.
ChallengesAsked ==
  \A c \in Challenges :
    /\ challenge[c].state # "NONE" => challenge[c].of \in Authorities
    /\ verdict[c] # "NONE" => challenge[c].state # "NONE"

RegistryInv == RegistryTypeOK /\ ChallengesAsked /\ ActiveIsProven

\* The ceremony of an authority as ActiveIsProven asks for it.
ProvenBy(a, c) ==
  /\ challenge[c].of = a /\ verdict[c] = "VERIFIED"
  /\ spentBy[a] = {c} /\ <<c, "ENROLLED">> \in answers

Whole(a) ==
  edge[a] = "ACTIVE" =>
    /\ key[a] = "CURRENT" /\ request[a] = "ACTIVATED" /\ "CONSUMED" \in authority[a]
    /\ \E c \in Challenges : ProvenBy(a, c)

LEMMA ActiveIsWhole ==
  /\ ActiveIsProven <=> \A a \in Authorities : Whole(a)
  /\ ActiveIsProven' <=> \A a \in Authorities : Whole(a)'
  BY DEF ActiveIsProven, Whole, ProvenBy

LEMMA RegistryInvInit == RegistryInit => RegistryInv
<1> SUFFICES ASSUME RegistryInit PROVE RegistryInv
  OBVIOUS
<1>1. challenge \in [Challenges -> ChallengeRow]
  BY DEF RegistryInit, ChallengeRow
<1>2. activation \in [Activators -> [place : {"IDLE", "KNOWN", "PROVEN", "CLEAR"},
                                     edge : Authorities \cup {NoEdge}]]
  BY DEF RegistryInit, NoActivation
<1>3. RegistryTypeOK
  BY <1>1, <1>2 DEF RegistryInit, RegistryTypeOK, Marks, EdgeStates
<1>4. ChallengesAsked /\ ActiveIsProven
  BY DEF RegistryInit, ChallengesAsked, ActiveIsProven
<1> QED BY <1>3, <1>4 DEF RegistryInv

\* A challenge moves on and stays a challenge of the same request.
LEMMA ChallengeMoves ==
  ASSUME RegistryInv, NEW c \in Challenges, NEW r \in ChallengeRow,
         challenge' = [challenge EXCEPT ![c] = r],
         r.of \in Authorities, r.state # "NONE",
         challenge[c].state = "NONE" \/ r.of = challenge[c].of,
         UNCHANGED <<authority, request, edge, key, verdict, spentBy, answers, activation, pinned>>
  PROVE  RegistryInv'
<1>1. challenge \in [Challenges -> ChallengeRow]
  BY DEF RegistryInv, RegistryTypeOK
<1>2. /\ challenge' \in [Challenges -> ChallengeRow] /\ challenge'[c] = r
      /\ \A d \in Challenges \ {c} : challenge'[d] = challenge[d]
  BY <1>1
<1>3. RegistryTypeOK'
  BY <1>2 DEF RegistryInv, RegistryTypeOK
<1>4. ChallengesAsked'
  BY <1>2 DEF RegistryInv, ChallengesAsked
<1>5. ASSUME NEW a \in Authorities, edge[a] = "ACTIVE", NEW d \in Challenges, ProvenBy(a, d)
      PROVE  ProvenBy(a, d)'
  <2>1. challenge[d].state # "NONE"
    BY <1>5 DEF RegistryInv, ChallengesAsked, ProvenBy
  <2>2. challenge'[d].of = challenge[d].of
    BY <1>2, <2>1
  <2> QED BY <1>5, <2>2 DEF ProvenBy
<1>6. \A a \in Authorities : Whole(a)'
  BY <1>5, ActiveIsWhole DEF RegistryInv, Whole
<1> QED BY <1>3, <1>4, <1>6, ActiveIsWhole DEF RegistryInv

\* What becomes of the marks of an authority is no loss.
LEMMA MarkKeeps ==
  ASSUME RegistryInv, NEW a \in Authorities, NEW mark \in Marks, Mark(a, mark),
         UNCHANGED <<request, edge, key, challenge, verdict, spentBy, answers, activation, pinned>>
  PROVE  RegistryInv'
<1>1. /\ authority' \in [Authorities -> SUBSET Marks]
      /\ \A b \in Authorities : authority[b] \subseteq authority'[b]
  BY DEF Mark, RegistryInv, RegistryTypeOK
<1> QED BY <1>1 DEF RegistryInv, RegistryTypeOK, ChallengesAsked, ActiveIsProven

\* An active Edge has its authority spent.
LEMMA ActiveIsSpent ==
  ASSUME RegistryInv, NEW a \in Authorities, edge[a] = "ACTIVE"
  PROVE  spentBy[a] # {}
<1>1. PICK c \in Challenges : spentBy[a] = {c}
  BY DEF RegistryInv, ActiveIsProven
<1> QED BY <1>1

LEMMA CompleteKeeps ==
  ASSUME RegistryInv, NEW c \in Challenges, NEW signed \in BOOLEAN, Complete(c, signed)
  PROVE  RegistryInv'
<1>0. PICK a : a = challenge[c].of
  OBVIOUS
<1>1. a \in Authorities /\ challenge[c].state = "OPEN" /\ UNCHANGED <<challenge, activation, pinned>>
  BY <1>0 DEF Complete, RegistryInv, ChallengesAsked
<1>2. /\ verdict' \in [Challenges -> {"NONE", "VERIFIED", "FAILED"}]
      /\ \A d \in Challenges : verdict[d] # "NONE" => verdict'[d] = verdict[d]
      /\ \A d \in Challenges \ {c} : verdict'[d] = verdict[d]
      /\ Proven(c, signed) => verdict'[c] = "VERIFIED"
  BY DEF Complete, Proven, RegistryInv, RegistryTypeOK
<1>3. ChallengesAsked'
  BY <1>1, <1>2 DEF RegistryInv, ChallengesAsked
<1>4. ASSUME NEW b \in Authorities, edge'[b] = "ACTIVE", edge[b] = "ACTIVE",
             UNCHANGED <<key[b], request[b], spentBy[b]>>,
             authority[b] \subseteq authority'[b], answers \subseteq answers'
      PROVE  Whole(b)'
  <2>1. Whole(b)
    BY ActiveIsWhole DEF RegistryInv
  <2> QED BY <1>1, <1>2, <1>4, <2>1 DEF Whole, ProvenBy
<1>5. CASE UNCHANGED <<authority, request, edge, key, spentBy>> /\ \E o \in {"REFUSED", "CONVERGED"} : Tell(c, o)
  <2>1. answers \subseteq answers' /\ RegistryTypeOK'
    BY <1>1, <1>2, <1>5 DEF Tell, RegistryInv, RegistryTypeOK
  <2>2. \A b \in Authorities : Whole(b)'
    BY <1>4, <1>5, <2>1 DEF Whole
  <2> QED BY <1>3, <2>1, <2>2, ActiveIsWhole DEF RegistryInv
<1>6. CASE /\ Proven(c, signed) /\ ~Changed(c, a) /\ ~Converges(c, a)
           /\ spentBy' = [spentBy EXCEPT ![a] = {c}]
           /\ "CONSUMED" \in authority[a]
           /\ Tell(c, "REFUSED") /\ UNCHANGED <<authority, request, edge, key>>
  <2>1. spentBy[a] = {}
    BY <1>6 DEF Changed, Converges
  <2>2. answers \subseteq answers' /\ RegistryTypeOK'
    BY <1>1, <1>2, <1>6 DEF Tell, RegistryInv, RegistryTypeOK
  <2>3. edge[a] # "ACTIVE"
    BY <1>1, <2>1, ActiveIsSpent
  <2>4. \A b \in Authorities \ {a} : spentBy'[b] = spentBy[b]
    BY <1>6 DEF RegistryInv, RegistryTypeOK
  <2>5. \A b \in Authorities : Whole(b)'
    BY <1>4, <1>6, <2>2, <2>3, <2>4 DEF Whole
  <2> QED BY <1>3, <2>2, <2>5, ActiveIsWhole DEF RegistryInv
<1>7. CASE /\ Proven(c, signed) /\ ~Changed(c, a) /\ ~Converges(c, a)
           /\ spentBy' = [spentBy EXCEPT ![a] = {c}]
           /\ Mark(a, "CONSUMED") /\ key' = [key EXCEPT ![a] = "CURRENT"]
           /\ \/ Tell(c, "REFUSED") /\ UNCHANGED <<request, edge>>
              \/ /\ edge' = [edge EXCEPT ![a] = "ACTIVE"]
                 /\ request' = [request EXCEPT ![a] = "ACTIVATED"]
                 /\ Tell(c, "ENROLLED")
  <2>1. spentBy[a] = {} /\ edge[a] # "ACTIVE"
    <3>1. spentBy[a] = {}
      BY <1>7 DEF Changed, Converges
    <3> QED BY <1>1, <3>1, ActiveIsSpent
  <2>2. /\ authority' \in [Authorities -> SUBSET Marks] /\ "CONSUMED" \in authority'[a]
        /\ \A b \in Authorities : authority[b] \subseteq authority'[b]
    BY <1>1, <1>7 DEF Mark, Marks, RegistryInv, RegistryTypeOK
  <2>3. answers \subseteq answers' /\ answers' \subseteq Challenges \X {"ENROLLED", "CONVERGED", "REFUSED"}
    BY <1>7 DEF Tell, RegistryInv, RegistryTypeOK
  <2>4. /\ edge' \in [Authorities -> EdgeStates]
        /\ request' \in [Authorities -> {"ABSENT", "PENDING", "ACTIVATED"}]
        /\ key' \in [Authorities -> {"NONE", "CURRENT", "REVOKED"}] /\ key'[a] = "CURRENT"
        /\ spentBy' \in [Authorities -> SUBSET Challenges] /\ spentBy'[a] = {c}
    BY <1>1, <1>7 DEF RegistryInv, RegistryTypeOK, EdgeStates
  <2>5. \A b \in Authorities \ {a} :
          UNCHANGED <<edge[b], request[b], key[b], spentBy[b]>>
    BY <1>7 DEF RegistryInv, RegistryTypeOK
  <2>6. RegistryTypeOK'
    BY <1>1, <1>2, <2>2, <2>3, <2>4 DEF RegistryInv, RegistryTypeOK
  <2>7. Whole(a)'
    <3>1. CASE UNCHANGED <<request, edge>>
      BY <2>1, <3>1 DEF Whole
    <3>2. CASE /\ request' = [request EXCEPT ![a] = "ACTIVATED"] /\ Tell(c, "ENROLLED")
      <4>1. request'[a] = "ACTIVATED" /\ <<c, "ENROLLED">> \in answers'
        BY <1>1, <3>2 DEF Tell, RegistryInv, RegistryTypeOK
      <4>2. challenge'[c].of = a /\ verdict'[c] = "VERIFIED"
        BY <1>0, <1>1, <1>2, <1>7
      <4>3. ProvenBy(a, c)'
        BY <2>4, <4>1, <4>2 DEF ProvenBy
      <4> QED BY <2>2, <2>4, <4>1, <4>3 DEF Whole
    <3> QED BY <1>7, <3>1, <3>2
  <2>8. \A b \in Authorities \ {a} : Whole(b)'
    BY <1>4, <2>2, <2>3, <2>5 DEF Whole
  <2> QED BY <1>3, <2>6, <2>7, <2>8, ActiveIsWhole DEF RegistryInv
<1> QED BY <1>0, <1>5, <1>6, <1>7 DEF Complete

LEMMA RegistryInvNext ==
  ASSUME RegistryInv, [RegistryNext]_registryVars
  PROVE  RegistryInv'
<1>1. ASSUME NEW a \in Authorities, IssueAuthority(a) \/ RevokeAuthority(a) \/ AuthorityEnds(a) \/ RequestElsewhere(a)
      PROVE  RegistryInv'
  BY <1>1, MarkKeeps DEF IssueAuthority, RevokeAuthority, AuthorityEnds, RequestElsewhere, Marks
<1>2. ASSUME NEW a \in Authorities, RequestEnrolment(a) PROVE RegistryInv'
  <2>1. /\ request' \in [Authorities -> {"ABSENT", "PENDING", "ACTIVATED"}]
        /\ edge' \in [Authorities -> EdgeStates] /\ edge'[a] = "PENDING"
        /\ \A b \in Authorities \ {a} : UNCHANGED <<request[b], edge[b]>>
    BY <1>2 DEF RequestEnrolment, RegistryInv, RegistryTypeOK, EdgeStates
  <2>2. RegistryTypeOK' /\ ChallengesAsked'
    BY <1>2, <2>1 DEF RequestEnrolment, RegistryInv, RegistryTypeOK, ChallengesAsked
  <2>3. \A b \in Authorities : Whole(b)'
    <3>1. Whole(a)'
      BY <2>1 DEF Whole
    <3>2. ASSUME NEW b \in Authorities \ {a} PROVE Whole(b)'
      <4>1. Whole(b)
        BY ActiveIsWhole DEF RegistryInv
      <4>2. /\ UNCHANGED <<request[b], edge[b]>>
            /\ UNCHANGED <<authority, key, challenge, verdict, spentBy, answers>>
        BY <1>2, <2>1 DEF RequestEnrolment
      <4> QED BY <4>1, <4>2 DEF Whole, ProvenBy
    <3> QED BY <3>1, <3>2
  <2> QED BY <2>2, <2>3, ActiveIsWhole DEF RegistryInv
<1>3. ASSUME NEW a \in Authorities, WithdrawEdge(a) PROVE RegistryInv'
  <2>1. /\ key' \in [Authorities -> {"NONE", "CURRENT", "REVOKED"}]
        /\ edge' \in [Authorities -> EdgeStates] /\ edge'[a] = "WITHDRAWN"
        /\ \A b \in Authorities \ {a} : UNCHANGED <<key[b], edge[b]>>
    BY <1>3 DEF WithdrawEdge, RegistryInv, RegistryTypeOK, EdgeStates
  <2>2. RegistryTypeOK' /\ ChallengesAsked'
    BY <1>3, <2>1 DEF WithdrawEdge, RegistryInv, RegistryTypeOK, ChallengesAsked
  <2>3. \A b \in Authorities : Whole(b)'
    <3>1. Whole(a)'
      BY <2>1 DEF Whole
    <3>2. ASSUME NEW b \in Authorities \ {a} PROVE Whole(b)'
      <4>1. Whole(b)
        BY ActiveIsWhole DEF RegistryInv
      <4>2. /\ UNCHANGED <<key[b], edge[b]>>
            /\ UNCHANGED <<authority, request, challenge, verdict, spentBy, answers>>
        BY <1>3, <2>1 DEF WithdrawEdge
      <4> QED BY <4>1, <4>2 DEF Whole, ProvenBy
    <3> QED BY <3>1, <3>2
  <2> QED BY <2>2, <2>3, ActiveIsWhole DEF RegistryInv
<1>4. ASSUME NEW c \in Challenges, NEW a \in Authorities, AskChallenge(c, a) PROVE RegistryInv'
  <2>1. [of |-> a, state |-> "ASKED"] \in ChallengeRow
    BY DEF ChallengeRow
  <2> QED BY <1>4, <2>1, ChallengeMoves DEF AskChallenge
<1>5. ASSUME NEW c \in Challenges, IssueChallenge(c) \/ ChallengeEnds(c) PROVE RegistryInv'
  <2>1. PICK s \in {"OPEN", "EXPIRED"} : challenge' = [challenge EXCEPT ![c].state = s]
    BY <1>5 DEF IssueChallenge, ChallengeEnds
  <2> DEFINE r == [challenge[c] EXCEPT !.state = s]
  <2>2. challenge[c] \in ChallengeRow /\ challenge[c].of \in Authorities
    BY <1>5 DEF IssueChallenge, ChallengeEnds, RegistryInv, RegistryTypeOK, ChallengesAsked
  <2>3. r \in ChallengeRow /\ r.of = challenge[c].of /\ r.state # "NONE"
    BY <2>2 DEF ChallengeRow
  <2>4. challenge' = [challenge EXCEPT ![c] = r]
    BY <2>1
  <2> HIDE DEF r
  <2> QED BY <1>5, <2>2, <2>3, <2>4, ChallengeMoves DEF IssueChallenge, ChallengeEnds
<1>6. ASSUME UNCHANGED ceremony,
             activation' \in [Activators -> [place : {"IDLE", "KNOWN", "PROVEN", "CLEAR"},
                                             edge : Authorities \cup {NoEdge}]],
             pinned' \in [{SiteOf[b] : b \in Authorities} -> Authorities \cup {NoEdge}]
      PROVE  RegistryInv'
  BY <1>6 DEF ceremony, RegistryInv, RegistryTypeOK, ChallengesAsked, ActiveIsProven
<1> DEFINE ActivationPlaces == {"IDLE", "KNOWN", "PROVEN", "CLEAR"}
           ActivationRow == [place : ActivationPlaces, edge : Authorities \cup {NoEdge}]
<1>a. /\ activation \in [Activators -> ActivationRow]
      /\ pinned \in [{SiteOf[b] : b \in Authorities} -> Authorities \cup {NoEdge}]
      /\ NoActivation \in ActivationRow
  BY DEF RegistryInv, RegistryTypeOK, NoActivation
<1>7. ASSUME NEW t \in Activators, NEW a \in Authorities, ReadEdge(t, a) PROVE RegistryInv'
  BY <1>6, <1>7, <1>a DEF ReadEdge
<1>8. ASSUME NEW t \in Activators, LeaveActivation(t) \/ \E place \in ActivationPlaces : Advance(t, place)
      PROVE  activation' \in [Activators -> ActivationRow]
  BY <1>8, <1>a DEF LeaveActivation, Advance
<1>9. ASSUME NEW t \in Activators, Prove(t) \/ LookAtSite(t) PROVE RegistryInv'
  BY <1>6, <1>8, <1>9, <1>a DEF Prove, LookAtSite
<1>10. ASSUME NEW t \in Activators, Pin(t) PROVE RegistryInv'
  <2>1. activation[t].edge \in Authorities \cup {NoEdge}
    BY <1>a
  <2>2. pinned' \in [{SiteOf[b] : b \in Authorities} -> Authorities \cup {NoEdge}]
    BY <1>10, <1>a, <2>1 DEF Pin
  <2> QED BY <1>6, <1>8, <1>10, <1>a, <2>2 DEF Pin
<1>11. CASE UNCHANGED registryVars
  BY <1>6, <1>11, <1>a DEF registryVars
<1> QED BY <1>1, <1>2, <1>3, <1>4, <1>5, <1>7, <1>9, <1>10, <1>11, CompleteKeeps DEF RegistryNext

---------------------------------------------------------------------------
(* The Edge's time *)

\* A claim was made at or before now in its boot; an anchor says, of a moment
\* of its boot, no time before that moment; and a receipt that has an anchor
\* says by it a time inside its lease and no earlier than it was made.
ClaimsHold ==
  \A q \in asked : q.boot <= boot /\ (q.boot = boot => bootedAt + q.mono <= clock)

AnchorsHold ==
  \A a \in anchors : a.boot <= boot /\ (a.boot = boot => bootedAt + a.mono <= a.issued)

ReceiptsHold ==
  \A rc \in receipts :
    rc.anchor # NoAnchor => rc.at <= rc.time /\ rc.time < rc.lease.until

TimeInv == TimeTypeOK /\ ClaimsHold /\ AnchorsHold /\ ReceiptsHold

LEMMA TimeInvInit == TimeInit => TimeInv
  BY DEF TimeInit, TimeInv, TimeTypeOK, ClaimsHold, AnchorsHold, ReceiptsHold

\* The derived time is never behind.
LEMMA DerivedIsLate ==
  ASSUME TimeInv, NEW a \in anchors, Valid(a)
  PROVE  Derived(a, Mono) \in Nat /\ clock <= Derived(a, Mono)
<1>1. /\ a.boot = boot /\ a.mono \in Nat /\ a.issued \in Nat
      /\ bootedAt + a.mono <= a.issued
  BY DEF Valid, SameBoot, TimeInv, TimeTypeOK, AnchorsHold, Anchor
<1>2. clock \in Nat /\ bootedAt \in Nat
  BY DEF TimeInv, TimeTypeOK
<1> QED BY <1>1, <1>2 DEF Derived, Mono

LEMMA IssueAnchorKeeps ==
  ASSUME TimeInv, NEW claim \in asked, IssueAnchor(claim)
  PROVE  TimeInv'
<1> DEFINE a == [signer |-> signer, boot |-> claim.boot, mono |-> claim.mono,
                 issued |-> clock, until |-> clock + Lifetime]
<1>1. anchors' = anchors \cup {a}
      /\ UNCHANGED <<signer, clock, boot, bootedAt, asked, held, stored, receipts>>
  BY DEF IssueAnchor
<1>2. claim.boot \in Nat /\ claim.mono \in Nat /\ clock \in Nat /\ signer \in Signers
  BY DEF IssueAnchor, TimeInv, TimeTypeOK
<1>3. a \in Anchor
  BY <1>2, LifetimeAssumption DEF Anchor
<1>4. TimeTypeOK'
  BY <1>1, <1>3 DEF TimeInv, TimeTypeOK
<1>5. a.boot <= boot /\ (a.boot = boot => bootedAt + a.mono <= a.issued)
  BY DEF TimeInv, ClaimsHold
<1> HIDE DEF a
<1>6. AnchorsHold'
  BY <1>1, <1>5 DEF TimeInv, AnchorsHold
<1> QED BY <1>1, <1>4, <1>6 DEF TimeInv, ClaimsHold, ReceiptsHold

LEMMA WitnessOperationKeeps ==
  ASSUME TimeInv, NEW lease \in Leases, WitnessOperation(lease)
  PROVE  TimeInv'
<1>1. clock \in Nat /\ boot \in Nat /\ Mono \in Nat
  BY DEF TimeInv, TimeTypeOK, Mono
<1>2. CASE Witnessable(lease)
  <2> DEFINE rc == [anchor |-> held, boot |-> boot, mono |-> Mono, time |-> Derived(held, Mono),
                    lease |-> lease, at |-> clock]
  <2>1. receipts' = receipts \cup {rc}
        /\ UNCHANGED <<signer, clock, boot, bootedAt, asked, anchors, held, stored>>
    BY <1>2 DEF WitnessOperation
  <2>2. held \in anchors /\ held \in Anchor /\ Valid(held) /\ InForce(lease, Derived(held, Mono))
    BY <1>2 DEF Witnessable, TimeInv, TimeTypeOK
  <2>3. Derived(held, Mono) \in Nat /\ clock <= Derived(held, Mono)
    BY <2>2, DerivedIsLate
  <2>4. rc \in Receipt /\ rc.at <= rc.time /\ rc.time < rc.lease.until
    BY <1>1, <2>2, <2>3 DEF Receipt, InForce
  <2> HIDE DEF rc
  <2> QED BY <2>1, <2>4 DEF TimeInv, TimeTypeOK, ClaimsHold, AnchorsHold, ReceiptsHold
<1>3. CASE ~Witnessable(lease)
  <2> DEFINE rc == [anchor |-> NoAnchor, boot |-> boot, mono |-> Mono, time |-> NoTime,
                    lease |-> lease, at |-> clock]
  <2>1. receipts' = receipts \cup {rc}
        /\ UNCHANGED <<signer, clock, boot, bootedAt, asked, anchors, held, stored>>
    BY <1>3 DEF WitnessOperation
  <2>2. rc \in Receipt /\ rc.anchor = NoAnchor
    BY <1>1 DEF Receipt
  <2> HIDE DEF rc
  <2> QED BY <2>1, <2>2 DEF TimeInv, TimeTypeOK, ClaimsHold, AnchorsHold, ReceiptsHold
<1> QED BY <1>2, <1>3

LEMMA TimeInvNext ==
  ASSUME TimeInv, [TimeNext]_timeVars
  PROVE  TimeInv'
<1>1. CASE ClockTicks
  BY <1>1 DEF ClockTicks, TimeInv, TimeTypeOK, ClaimsHold, AnchorsHold, ReceiptsHold
<1>2. CASE AskAnchor
  <2> DEFINE q == [boot |-> boot, mono |-> Mono]
  <2>1. asked' = asked \cup {q} /\ q.boot = boot /\ q.mono = Mono
        /\ UNCHANGED <<signer, clock, boot, bootedAt, anchors, held, stored, receipts>>
    BY <1>2 DEF AskAnchor
  <2>2. Mono \in Nat /\ bootedAt + Mono <= clock /\ boot \in Nat
    BY DEF TimeInv, TimeTypeOK, Mono
  <2> HIDE DEF q
  <2> QED BY <2>1, <2>2 DEF TimeInv, TimeTypeOK, ClaimsHold, AnchorsHold, ReceiptsHold
<1>3. ASSUME UNCHANGED <<clock, boot, bootedAt, asked, anchors, receipts>>,
             signer' \in Signers \cup {NoSigner},
             held' \in anchors \cup {NoAnchor}, stored' \in anchors \cup {NoAnchor}
      PROVE  TimeInv'
  BY <1>3 DEF TimeInv, TimeTypeOK, ClaimsHold, AnchorsHold, ReceiptsHold
<1>4. /\ signer \in Signers \cup {NoSigner}
      /\ held \in anchors \cup {NoAnchor} /\ stored \in anchors \cup {NoAnchor}
  BY DEF TimeInv, TimeTypeOK
<1>5. CASE Clear \/ Restart \/ RestartCentral \/ Load
  BY <1>3, <1>4, <1>5 DEF Clear, Restart, RestartCentral, Load
<1>6. ASSUME NEW a \in anchors, AdmitAnchor(a) PROVE TimeInv'
  BY <1>3, <1>4, <1>6 DEF AdmitAnchor
<1>7. CASE Reboot
  <2>1. boot \in Nat /\ clock \in Nat /\ boot' = boot + 1 /\ bootedAt' = clock /\ held' = NoAnchor
        /\ UNCHANGED <<signer, clock, asked, anchors, stored, receipts>>
    BY <1>7 DEF Reboot, TimeInv, TimeTypeOK
  <2>2. TimeTypeOK'
    BY <2>1 DEF TimeInv, TimeTypeOK
  <2>3. ClaimsHold'
    BY <2>1 DEF TimeInv, TimeTypeOK, ClaimsHold
  <2>4. AnchorsHold'
    <3>1. ASSUME NEW a \in anchors PROVE a.boot <= boot' /\ a.boot # boot'
      <4>1. a.boot \in Nat /\ a.boot <= boot
        BY DEF TimeInv, TimeTypeOK, AnchorsHold, Anchor
      <4> QED BY <2>1, <4>1
    <3> QED BY <2>1, <3>1 DEF AnchorsHold
  <2> QED BY <2>1, <2>2, <2>3, <2>4 DEF TimeInv, ReceiptsHold
<1>8. CASE UNCHANGED timeVars
  BY <1>3, <1>4, <1>8 DEF timeVars
<1> QED BY <1>1, <1>2, <1>5, <1>6, <1>7, <1>8, IssueAnchorKeeps, WitnessOperationKeeps DEF TimeNext

---------------------------------------------------------------------------
(* The witness route *)

CallRow == [place : Places, request : Request \cup {NoRequest},
            state : EdgeStates \cup {"UNREAD"}, outcome : Outcomes]

\* A call that came by its receipt's admission, and one that at least came by
\* its own authentication.
Through(c) ==
  call[c].place \in {"ADMITTED", "CLEAR"} \/ call[c].outcome \in Outcomes \ {"NONE", "REFUSED"}

Authenticated(c) == call[c].place = "AUTHENTICATED" \/ Through(c)

\* A call brings a receipt the Edge made; it has an outcome once it is
\* answered; authenticated, it has spent its request; and past its receipt's
\* admission, the Edge was trusted then.
CallHolds(c) ==
  /\ call[c].place # "IDLE" => call[c].request \in Request /\ Shown(c) \in receipts
  /\ call[c].outcome # "NONE" => call[c].place = "ANSWERED"
  /\ Authenticated(c) => call[c].request \in spent
  /\ Through(c) => c \in trustedAtAdmission

OneAuthenticated ==
  \A c, d \in Calls :
    Authenticated(c) /\ Authenticated(d) /\ call[c].request.id = call[d].request.id => c = d

RouteInv ==
  /\ call \in [Calls -> CallRow] /\ spent \subseteq Request /\ trustedAtAdmission \subseteq Calls
  /\ \A o \in observation : o.receipt \in receipts
  /\ \A c \in Calls : CallHolds(c)
  /\ OneAuthenticated /\ RecordedTimeIsTrue

WitnessingInv == RegistryInv /\ TimeInv /\ RouteInv

LEMMA RouteInvInit == EvidenceInit => RouteInv
<1> SUFFICES ASSUME EvidenceInit PROVE RouteInv
  OBVIOUS
<1>1. call \in [Calls -> CallRow]
  BY DEF EvidenceInit, CallRow, Places, Outcomes
<1>2. \A c \in Calls : CallHolds(c) /\ ~Authenticated(c)
  BY DEF EvidenceInit, CallHolds, Authenticated, Through
<1> QED BY <1>1, <1>2 DEF EvidenceInit, RouteInv, OneAuthenticated, RecordedTimeIsTrue

\* A call takes a step of its own: it keeps its request, it is authenticated
\* only if it was or spends a request never spent before, and it is through
\* only if the Edge was trusted at its admission.
LEMMA CallWalks ==
  ASSUME RouteInv, NEW c \in Calls, NEW row \in CallRow,
         call' = [call EXCEPT ![c] = row],
         row.request = call[c].request, call[c].place # "IDLE",
         row.outcome # "NONE" => row.place = "ANSWERED",
         spent \subseteq spent', spent' \subseteq spent \cup {row.request},
         Authenticated(c)' => \/ Authenticated(c)
                              \/ row.request \in spent' /\ FirstSeen(row.request),
         trustedAtAdmission \subseteq trustedAtAdmission', trustedAtAdmission' \subseteq Calls,
         Through(c)' => c \in trustedAtAdmission',
         UNCHANGED receipts,
         \A o \in observation' : o.receipt \in receipts,
         RecordedTimeIsTrue'
  PROVE  RouteInv'
<1>1. call \in [Calls -> CallRow]
  BY DEF RouteInv
<1>2. /\ call' \in [Calls -> CallRow] /\ call'[c] = row
      /\ \A d \in Calls \ {c} : call'[d] = call[d]
  BY <1>1
<1>3. CallHolds(c) /\ row.request \in Request /\ row.request.receipt \in receipts
  BY DEF RouteInv, CallHolds, Shown
<1>4. \A d \in Calls \ {c} : (Authenticated(d)' <=> Authenticated(d)) /\ (Through(d)' <=> Through(d))
  BY <1>2 DEF Authenticated, Through
<1>5. CallHolds(c)'
  <2>1. Authenticated(c)' => row.request \in spent'
    BY <1>3 DEF CallHolds
  <2> QED BY <1>2, <1>3, <2>1 DEF CallHolds, Shown
<1>6. ASSUME NEW d \in Calls \ {c} PROVE CallHolds(d)'
  <2>1. CallHolds(d)
    BY DEF RouteInv
  <2> QED BY <1>2, <1>4, <2>1 DEF CallHolds, Shown
<1>7. ASSUME NEW d \in Calls \ {c}, Authenticated(c)', Authenticated(d)
      PROVE  row.request.id # call[d].request.id
  <2>1. call[d].request \in spent
    BY <1>7 DEF RouteInv, CallHolds
  <2>2. CASE Authenticated(c)
    BY <1>7, <2>2 DEF RouteInv, OneAuthenticated
  <2>3. CASE FirstSeen(row.request)
    BY <2>1, <2>3 DEF FirstSeen
  <2> QED BY <1>7, <2>2, <2>3
<1>8. OneAuthenticated'
  <2> SUFFICES ASSUME NEW d \in Calls, NEW e \in Calls, d # e, Authenticated(d)', Authenticated(e)'
               PROVE  call'[d].request.id # call'[e].request.id
    BY DEF OneAuthenticated
  <2>1. CASE d = c
    BY <1>2, <1>4, <1>7, <2>1
  <2>2. CASE e = c
    BY <1>2, <1>4, <1>7, <2>2
  <2>3. CASE d # c /\ e # c
    BY <1>2, <1>4, <2>3 DEF RouteInv, OneAuthenticated
  <2> QED BY <2>1, <2>2, <2>3
<1>9. spent' \subseteq Request
  BY <1>3 DEF RouteInv
<1>10. \A d \in Calls : CallHolds(d)'
  BY <1>5, <1>6
<1> QED BY <1>2, <1>8, <1>9, <1>10 DEF RouteInv

\* Where a step leaves a call, as a row.
LEMMA MoveRow ==
  ASSUME RouteInv, NEW c \in Calls, NEW place \in Places, Move(c, place)
  PROVE  LET row == [call[c] EXCEPT !.place = place]
         IN  call' = [call EXCEPT ![c] = row] /\ row \in CallRow
<1>1. call[c] \in CallRow
  BY DEF RouteInv
<1>2. [call[c] EXCEPT !.place = place] \in CallRow
  BY <1>1 DEF CallRow
<1> QED BY <1>2 DEF Move

LEMMA AnswerRow ==
  ASSUME RouteInv, NEW c \in Calls, NEW outcome \in Outcomes, Answer(c, outcome)
  PROVE  LET row == [call[c] EXCEPT !.place = "ANSWERED", !.outcome = outcome]
         IN  call' = [call EXCEPT ![c] = row] /\ row \in CallRow
<1>1. call[c] \in CallRow
  BY DEF RouteInv
<1>2. [call[c] EXCEPT !.place = "ANSWERED", !.outcome = outcome] \in CallRow
  BY <1>1 DEF CallRow, Places
<1> QED BY <1>2 DEF Answer

LEMMA CallMoved ==
  ASSUME RouteInv, NEW c \in Calls, NEW place \in Places \ {"IDLE", "ANSWERED"}, Move(c, place),
         call[c].place \notin {"IDLE", "ANSWERED"},
         spent \subseteq spent', spent' \subseteq spent \cup {call[c].request},
         place \in {"AUTHENTICATED", "ADMITTED", "CLEAR"} =>
           Authenticated(c) \/ (call[c].request \in spent' /\ FirstSeen(call[c].request)),
         trustedAtAdmission \subseteq trustedAtAdmission', trustedAtAdmission' \subseteq Calls,
         place \in {"ADMITTED", "CLEAR"} => c \in trustedAtAdmission',
         UNCHANGED <<observation, receipts>>
  PROVE  RouteInv'
<1> DEFINE row == [call[c] EXCEPT !.place = place]
<1>1. call' = [call EXCEPT ![c] = row] /\ row \in CallRow
  BY MoveRow
<1>2. call \in [Calls -> CallRow] /\ call[c].outcome = "NONE"
  BY DEF RouteInv, CallHolds
<1>3. row.place = place /\ row.outcome = "NONE" /\ row.request = call[c].request
  BY <1>2 DEF CallRow
<1> HIDE DEF row
<1>4. call'[c] = row
  BY <1>1, <1>2
<1>5. /\ Through(c)' => place \in {"ADMITTED", "CLEAR"}
      /\ Authenticated(c)' => place \in {"AUTHENTICATED", "ADMITTED", "CLEAR"}
  BY <1>3, <1>4 DEF Authenticated, Through
<1>6. (\A o \in observation' : o.receipt \in receipts) /\ RecordedTimeIsTrue'
  BY DEF RouteInv, RecordedTimeIsTrue
<1>7. /\ row.outcome # "NONE" => row.place = "ANSWERED"
      /\ Authenticated(c)' => Authenticated(c) \/ (row.request \in spent' /\ FirstSeen(row.request))
      /\ Through(c)' => c \in trustedAtAdmission'
  BY <1>3, <1>5
<1> QED BY <1>1, <1>3, <1>6, <1>7, CallWalks

LEMMA CallAnswered ==
  ASSUME RouteInv, NEW c \in Calls, NEW outcome \in Outcomes \ {"NONE"}, Answer(c, outcome),
         call[c].place \notin {"IDLE", "ANSWERED"},
         spent \subseteq spent', spent' \subseteq spent \cup {call[c].request},
         trustedAtAdmission \subseteq trustedAtAdmission', trustedAtAdmission' \subseteq Calls,
         outcome # "REFUSED" => Through(c),
         UNCHANGED receipts,
         \A o \in observation' : o.receipt \in receipts,
         RecordedTimeIsTrue'
  PROVE  RouteInv'
<1> DEFINE row == [call[c] EXCEPT !.place = "ANSWERED", !.outcome = outcome]
<1>1. call' = [call EXCEPT ![c] = row] /\ row \in CallRow
  BY AnswerRow
<1>2. call \in [Calls -> CallRow]
  BY DEF RouteInv
<1>3. row.place = "ANSWERED" /\ row.outcome = outcome /\ row.request = call[c].request
  BY <1>2 DEF CallRow
<1> HIDE DEF row
<1>4. call'[c] = row
  BY <1>1, <1>2
<1>5. (Through(c)' => Through(c)) /\ (Authenticated(c)' => Authenticated(c))
  BY <1>3, <1>4 DEF Authenticated, Through
<1>6. Through(c)' => c \in trustedAtAdmission'
  BY <1>5 DEF RouteInv, CallHolds
<1> QED BY <1>1, <1>3, <1>5, <1>6, CallWalks

LEMMA ArriveKeeps ==
  ASSUME RouteInv, NEW c \in Calls, NEW q \in Request, q.receipt \in receipts, Arrive(c, q),
         UNCHANGED receipts
  PROVE  RouteInv'
<1> DEFINE row == [call[c] EXCEPT !.place = "ARRIVED", !.request = q]
<1>1. call \in [Calls -> CallRow] /\ call[c].place = "IDLE" /\ call[c].outcome = "NONE"
  BY DEF Arrive, Stands, RouteInv, CallHolds
<1>2. call' = [call EXCEPT ![c] = row]
  BY DEF Arrive
<1>3. row \in CallRow /\ row.place = "ARRIVED" /\ row.request = q /\ row.outcome = "NONE"
  BY <1>1 DEF CallRow, Places
<1> HIDE DEF row
<1>4. /\ call' \in [Calls -> CallRow] /\ call'[c] = row
      /\ \A d \in Calls \ {c} : call'[d] = call[d]
  BY <1>1, <1>2, <1>3
<1>5. UNCHANGED <<spent, observation, trustedAtAdmission>>
  BY DEF Arrive
<1>6. /\ ~Authenticated(c)' /\ ~Through(c)'
      /\ \A d \in Calls \ {c} : (Authenticated(d)' <=> Authenticated(d)) /\ (Through(d)' <=> Through(d))
  BY <1>3, <1>4 DEF Authenticated, Through
<1>7. CallHolds(c)'
  BY <1>3, <1>4, <1>6 DEF CallHolds, Shown
<1>8. ASSUME NEW d \in Calls \ {c} PROVE CallHolds(d)'
  BY <1>4, <1>5, <1>6 DEF RouteInv, CallHolds, Shown
<1>9. \A d \in Calls : CallHolds(d)'
  BY <1>7, <1>8
<1>10. OneAuthenticated'
  BY <1>4, <1>6 DEF RouteInv, OneAuthenticated
<1>11. RecordedTimeIsTrue'
  BY <1>5 DEF RouteInv, RecordedTimeIsTrue
<1> QED BY <1>4, <1>5, <1>9, <1>10, <1>11 DEF RouteInv

\* What is derived of a receipt is what the receipt says.
LEMMA TimeIsReceipts ==
  ASSUME TimeInv, NEW rc \in receipts, TimeOf(rc) # NoTime
  PROVE  rc.at <= TimeOf(rc) /\ TimeOf(rc) < rc.lease.until
<1>1. rc.anchor # NoAnchor /\ TimeOf(rc) = rc.time
  BY DEF TimeOf, Verified
<1> QED BY <1>1 DEF TimeInv, ReceiptsHold

LEMMA ReadIdentityKeeps ==
  ASSUME RouteInv, RegistryTypeOK, NEW c \in Calls, ReadIdentity(c), UNCHANGED receipts
  PROVE  RouteInv'
<1>1. /\ call \in [Calls -> CallRow] /\ call[c].place = "ARRIVED" /\ call[c].outcome = "NONE"
      /\ (\A o \in observation : o.receipt \in receipts) /\ RecordedTimeIsTrue
      /\ trustedAtAdmission \subseteq Calls
  BY DEF RouteInv, CallHolds, ReadIdentity, Stands
<1>2. UNCHANGED <<spent, observation, trustedAtAdmission>>
  BY DEF ReadIdentity
<1>3. (\A o \in observation' : o.receipt \in receipts) /\ RecordedTimeIsTrue'
  BY <1>1, <1>2 DEF RecordedTimeIsTrue
<1>4. CASE Answer(c, "REFUSED")
  BY <1>1, <1>2, <1>3, <1>4, CallAnswered DEF Outcomes
<1>5. CASE call' = [call EXCEPT ![c].place = "READ", ![c].state = edge[Witness]]
  <2> DEFINE row == [call[c] EXCEPT !.place = "READ", !.state = edge[Witness]]
  <2>1. call' = [call EXCEPT ![c] = row]
    BY <1>5
  <2>2. edge[Witness] \in EdgeStates
    BY WitnessAssumption DEF RegistryTypeOK
  <2>3. row \in CallRow /\ row.place = "READ" /\ row.request = call[c].request /\ row.outcome = "NONE"
    BY <1>1, <2>2 DEF CallRow, Places
  <2> HIDE DEF row
  <2>4. call'[c] = row
    BY <1>1, <2>1
  <2>5. ~Authenticated(c)' /\ ~Through(c)'
    BY <2>3, <2>4 DEF Authenticated, Through
  <2> QED BY <1>1, <1>2, <1>3, <2>1, <2>3, <2>5, CallWalks
<1> QED BY <1>4, <1>5 DEF ReadIdentity

LEMMA AdmitReceiptKeeps ==
  ASSUME RouteInv, NEW c \in Calls, AdmitReceipt(c), UNCHANGED receipts
  PROVE  RouteInv'
<1>1. /\ call[c].place = "AUTHENTICATED" /\ trustedAtAdmission \subseteq Calls
      /\ UNCHANGED <<spent, observation>>
  BY DEF AdmitReceipt, Stands, RouteInv
<1>2. /\ trustedAtAdmission \subseteq trustedAtAdmission' /\ trustedAtAdmission' \subseteq Calls
      /\ KeyUsable => c \in trustedAtAdmission'
  BY <1>1 DEF AdmitReceipt, KeyUsable
<1>3. (\A o \in observation' : o.receipt \in receipts) /\ RecordedTimeIsTrue'
  BY <1>1 DEF RouteInv, RecordedTimeIsTrue
<1>4. CASE Admissible(c) /\ Move(c, "ADMITTED")
  <2>1. Authenticated(c)
    BY <1>1 DEF Authenticated
  <2>2. "ADMITTED" \in Places \ {"IDLE", "ANSWERED"} /\ c \in trustedAtAdmission'
    BY <1>2, <1>4 DEF Places, Admissible
  <2>3. /\ spent \subseteq spent' /\ spent' \subseteq spent \cup {call[c].request}
        /\ UNCHANGED <<observation, receipts>>
    BY <1>1
  <2> QED BY <1>1, <1>2, <1>4, <2>1, <2>2, <2>3, CallMoved
<1>5. CASE Answer(c, "REFUSED")
  BY <1>1, <1>2, <1>3, <1>5, CallAnswered DEF Outcomes
<1> QED BY <1>4, <1>5 DEF AdmitReceipt

LEMMA UpsertKeeps ==
  ASSUME RouteInv, TimeInv, NEW c \in Calls, Upsert(c), UNCHANGED receipts
  PROVE  RouteInv'
<1>1. /\ call[c].place = "CLEAR" /\ trustedAtAdmission \subseteq Calls /\ Through(c)
      /\ UNCHANGED <<spent, trustedAtAdmission>> /\ Shown(c) \in receipts
      /\ \A o \in observation : o.receipt \in receipts
  BY DEF Upsert, Stands, RouteInv, CallHolds, Through
<1>2. PICK outcome \in {"FIRST_SEEN", "NOT_RECORDED"} : Answer(c, outcome)
  BY DEF Upsert
<1>3. (\A o \in observation' : o.receipt \in receipts) /\ RecordedTimeIsTrue'
  <2>1. CASE UNCHANGED observation
    BY <1>1, <2>1 DEF RouteInv, RecordedTimeIsTrue
  <2> DEFINE row == [receipt |-> Shown(c), operation |-> call[c].request.operation,
                     time |-> TimeOf(Shown(c))]
  <2>2. CASE observation' = observation \cup {row}
    <3>1. row.receipt = Shown(c) /\ row.time = TimeOf(Shown(c))
      OBVIOUS
    <3>2. row.time # NoTime => row.receipt.at <= row.time /\ row.time < row.receipt.lease.until
      BY <1>1, <3>1, TimeIsReceipts
    <3> HIDE DEF row
    <3> QED BY <1>1, <2>2, <3>1, <3>2 DEF RouteInv, RecordedTimeIsTrue
  <2> QED BY <2>1, <2>2 DEF Upsert, Kept
<1> QED BY <1>1, <1>2, <1>3, CallAnswered DEF Outcomes

LEMMA RouteInvNext ==
  ASSUME RouteInv, TimeInv, RegistryTypeOK, EvidenceNext, UNCHANGED receipts
  PROVE  RouteInv'
<1>1. /\ trustedAtAdmission \subseteq Calls
      /\ (\A o \in observation : o.receipt \in receipts) /\ RecordedTimeIsTrue
  BY DEF RouteInv
<1>2. UNCHANGED observation =>
        (\A o \in observation' : o.receipt \in receipts) /\ RecordedTimeIsTrue'
  BY <1>1 DEF RecordedTimeIsTrue
<1>3. ASSUME NEW c \in Calls, Resolve(c) PROVE RouteInv'
  <2>1. call[c].place = "READ" /\ UNCHANGED <<spent, observation, trustedAtAdmission>>
    BY <1>3 DEF Resolve, Stands
  <2>2. CASE Move(c, "PROVEN")
    BY <1>1, <2>1, <2>2, CallMoved DEF Places
  <2>3. CASE Answer(c, "REFUSED")
    BY <1>1, <1>2, <2>1, <2>3, CallAnswered DEF Outcomes
  <2> QED BY <1>3, <2>2, <2>3 DEF Resolve
<1>4. ASSUME NEW c \in Calls, SpendRequest(c) PROVE RouteInv'
  <2>1. /\ call[c].place = "PROVEN" /\ UNCHANGED <<observation, trustedAtAdmission>>
        /\ spent' = spent \cup {call[c].request}
    BY <1>4 DEF SpendRequest, Stands
  <2>2. CASE FirstSeen(call[c].request) /\ Move(c, "AUTHENTICATED")
    BY <1>1, <2>1, <2>2, CallMoved DEF Places
  <2>3. CASE Answer(c, "REFUSED")
    BY <1>1, <1>2, <2>1, <2>3, CallAnswered DEF Outcomes
  <2> QED BY <1>4, <2>2, <2>3 DEF SpendRequest
<1>5. ASSUME NEW c \in Calls, Look(c) PROVE RouteInv'
  <2>1. /\ call[c].place = "ADMITTED" /\ UNCHANGED <<spent, observation, trustedAtAdmission>>
        /\ Through(c) /\ c \in trustedAtAdmission
    BY <1>5 DEF Look, Stands, Through, RouteInv, CallHolds
  <2>2. CASE Move(c, "CLEAR")
    <3>1. "CLEAR" \in Places \ {"IDLE", "ANSWERED"} /\ Authenticated(c)
      BY <2>1 DEF Places, Authenticated
    <3>2. spent \subseteq spent' /\ spent' \subseteq spent \cup {call[c].request}
      BY <2>1
    <3> QED BY <1>1, <2>1, <2>2, <3>1, <3>2, CallMoved
  <2>3. CASE Answer(c, "CONFLICT") \/ Answer(c, "CONVERGED")
    BY <1>1, <1>2, <2>1, <2>3, CallAnswered DEF Outcomes
  <2> QED BY <1>5, <2>2, <2>3 DEF Look
<1>6. ASSUME NEW c \in Calls, Lose(c) PROVE RouteInv'
  <2>1. /\ call[c].place \notin {"IDLE", "ANSWERED"} /\ Move(c, "LOST")
        /\ UNCHANGED <<spent, observation, trustedAtAdmission>>
    BY <1>6 DEF Lose
  <2> QED BY <1>1, <2>1, CallMoved DEF Places
<1>7. ASSUME NEW c \in Calls, NEW id \in Requests, NEW rc \in receipts,
             NEW operation \in EnvelopeOperations \cup {NoOperation},
             Arrive(c, [id |-> id, receipt |-> rc, operation |-> operation])
      PROVE  RouteInv'
  <2> DEFINE q == [id |-> id, receipt |-> rc, operation |-> operation]
  <2>1. q \in Request /\ q.receipt \in receipts /\ Arrive(c, q)
    BY <1>7 DEF Request, TimeInv, TimeTypeOK
  <2> HIDE DEF q
  <2> QED BY <2>1, ArriveKeeps
<1> QED BY <1>3, <1>4, <1>5, <1>6, <1>7, ReadIdentityKeeps, AdmitReceiptKeeps, UpsertKeeps DEF EvidenceNext

LEMMA RouteRests ==
  ASSUME RouteInv, UNCHANGED evidenceVars, receipts \subseteq receipts'
  PROVE  RouteInv'
<1>1. UNCHANGED <<call, spent, observation, trustedAtAdmission>>
  BY DEF evidenceVars
<1>2. \A c \in Calls : CallHolds(c)'
  BY <1>1 DEF RouteInv, CallHolds, Shown, Authenticated, Through
<1>3. OneAuthenticated' /\ RecordedTimeIsTrue'
  BY <1>1 DEF RouteInv, OneAuthenticated, Authenticated, Through, RecordedTimeIsTrue
<1> QED BY <1>1, <1>2, <1>3 DEF RouteInv

LEMMA WitnessingInvHolds == WitnessingSpec => []WitnessingInv
<1>1. WitnessingInit => WitnessingInv
  BY RegistryInvInit, TimeInvInit, RouteInvInit DEF WitnessingInit, WitnessingInv
<1>2. WitnessingInv /\ [WitnessingNext]_witnessingVars => WitnessingInv'
  <2> SUFFICES ASSUME WitnessingInv, [WitnessingNext]_witnessingVars PROVE WitnessingInv'
    OBVIOUS
  <2>1. RegistryInv /\ TimeInv /\ RouteInv /\ RegistryTypeOK
    BY DEF WitnessingInv, RegistryInv
  <2>2. UNCHANGED registryVars => RegistryInv'
    BY <2>1, RegistryInvNext
  <2>3. UNCHANGED timeVars => TimeInv' /\ UNCHANGED receipts
    BY <2>1, TimeInvNext DEF timeVars
  <2>4. CASE RegistryNext /\ UNCHANGED <<timeVars, evidenceVars>>
    BY <2>1, <2>3, <2>4, RegistryInvNext, RouteRests DEF WitnessingInv
  <2>5. CASE TimeNext /\ UNCHANGED <<registryVars, evidenceVars>>
    <3>1. receipts \subseteq receipts'
      BY <2>5 DEF TimeNext, ClockTicks, AskAnchor, Clear, Restart, Reboot, RestartCentral, Load,
                  IssueAnchor, AdmitAnchor, WitnessOperation
    <3> QED BY <2>1, <2>2, <2>5, <3>1, TimeInvNext, RouteRests DEF WitnessingInv
  <2>6. CASE EvidenceNext /\ UNCHANGED <<registryVars, timeVars>>
    BY <2>1, <2>2, <2>3, <2>6, RouteInvNext DEF WitnessingInv
  <2>7. CASE UNCHANGED witnessingVars
    BY <2>1, <2>2, <2>3, <2>7, RouteRests DEF WitnessingInv, witnessingVars
  <2> QED BY <2>4, <2>5, <2>6, <2>7 DEF WitnessingNext
<1> QED BY <1>1, <1>2, PTL DEF WitnessingSpec

\* Every variable of the registry, of the Edge's time and of the witness route
\* keeps its type.
THEOREM WitnessingTypeCorrect == WitnessingSpec => [](RegistryTypeOK /\ TimeTypeOK /\ EvidenceTypeOK)
<1>1. WitnessingInv => RegistryTypeOK /\ TimeTypeOK /\ EvidenceTypeOK
  <2> SUFFICES ASSUME WitnessingInv PROVE RegistryTypeOK /\ TimeTypeOK /\ EvidenceTypeOK
    OBVIOUS
  <2>1. \A c \in Calls : call[c] \in CallRow
    BY DEF WitnessingInv, RouteInv
  <2>2. EvidenceTypeOK
    BY <2>1 DEF WitnessingInv, RouteInv, CallRow, EvidenceTypeOK
  <2> QED BY <2>2 DEF WitnessingInv, RegistryInv, TimeInv
<1> QED BY <1>1, WitnessingInvHolds, PTL

\* An active Edge has its authority spent, once, on a challenge of its own
\* request whose first answer was good, whatever else happens to the ceremony
\* (edge-enrolment.service.ts 360-384, 434-476).
THEOREM ActiveIsProvenHolds == WitnessingSpec => []ActiveIsProven
<1>1. WitnessingInv => ActiveIsProven
  BY DEF WitnessingInv, RegistryInv
<1> QED BY <1>1, WitnessingInvHolds, PTL

\* An operation on file as witnessed at a time was witnessed before the end of
\* its lease and no later than that time, over any delays, restarts and
\* reboots (edge-trusted-time.anchor.ts 153-197, 242-270).
THEOREM RecordedTimeIsTrueHolds == WitnessingSpec => []RecordedTimeIsTrue
<1>1. WitnessingInv => RecordedTimeIsTrue
  BY DEF WitnessingInv, RouteInv
<1> QED BY <1>1, WitnessingInvHolds, PTL

\* A request identity lets one presentation through, and what came through was
\* admitted while the Edge was trusted, whenever it is withdrawn
\* (edge-authentication.service.ts 370-419, edge-witness.service.ts 155-174).
THEOREM AdmittedOnceFromTrustedHolds == WitnessingSpec => []AdmittedOnceFromTrusted
<1>1. WitnessingInv => AdmittedOnceFromTrusted
  <2> SUFFICES ASSUME WitnessingInv PROVE AdmittedOnceFromTrusted
    OBVIOUS
  <2> DEFINE through == {c \in Calls : call[c].place \in {"ADMITTED", "CLEAR"}
                                         \/ call[c].outcome \in Outcomes \ {"NONE", "REFUSED"}}
  <2>1. \A c \in through : c \in Calls /\ Through(c) /\ Authenticated(c) /\ CallHolds(c)
    BY DEF WitnessingInv, RouteInv, Through, Authenticated
  <2>2. through \subseteq trustedAtAdmission
    BY <2>1 DEF CallHolds
  <2>3. \A c, d \in through : call[c].request.id = call[d].request.id => c = d
    BY <2>1 DEF WitnessingInv, RouteInv, OneAuthenticated
  <2> QED BY <2>2, <2>3 DEF AdmittedOnceFromTrusted
<1> QED BY <1>1, WitnessingInvHolds, PTL
=============================================================================
