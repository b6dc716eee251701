------------------------- MODULE DeviceDrainProofs -------------------------
(***************************************************************************)
(* Proofs about DeviceDrain, for any number of operations, operatives,     *)
(* contexts, Edges and faults, any bounds of the outbox, and whichever     *)
(* shape the gateway's answer has.                                         *)
(***************************************************************************)
EXTENDS DeviceDrain, TLAPS

---------------------------------------------------------------------------
(* The outbox.                                                             *)

\* An operation of the outbox has an entry, at a position already allocated.
LEMMA HeldEntry ==
  ASSUME OutboxTypeOK, NEW o \in Held
  PROVE  /\ entries[o] \in Entry /\ o \in Operations
         /\ entries[o].sequence \in Nat /\ entries[o].sequence < nextSequence
  BY OutboxAssumption DEF OutboxTypeOK, Held, Entry

\* What a call that rewrites one entry keeps when it leaves the entry's
\* position alone.
LEMMA MutateKeepsType ==
  ASSUME OutboxTypeOK, NEW o \in Operations, NEW change, Mutate(o, change),
         o \in Held => change \in Entry /\ change.sequence = entries[o].sequence
  PROVE  OutboxTypeOK'
<1>1. CASE o \in Held
  <2>1. entries' = [entries EXCEPT ![o] = change] /\ nextSequence' = nextSequence
    BY <1>1 DEF Mutate
  <2>2. change \in Entry
    BY <1>1
  <2>3. entries' \in [Operations -> Entry \cup {NoEntry}]
    BY <2>1, <2>2 DEF OutboxTypeOK
  <2>4. ASSUME NEW p \in Operations, entries'[p] # NoEntry
        PROVE  entries'[p].sequence < nextSequence'
    BY <1>1, <2>1, <2>4 DEF OutboxTypeOK, Held
  <2> QED BY <2>1, <2>3, <2>4 DEF OutboxTypeOK, Held
<1>2. CASE o \notin Held
  BY <1>2 DEF Mutate, OutboxTypeOK, Held
<1> QED BY <1>1, <1>2

\* Neither an attempt, an Edge receipt nor a final state moves an entry.
LEMMA RewrittenEntry ==
  ASSUME OutboxTypeOK, NEW o \in Held, NEW t \in Instants
  PROVE  LET marked    == [entries[o] EXCEPT !.attempts = IF @ < AttemptCap THEN @ + 1 ELSE @]
             witnessed == [entries[o] EXCEPT !.witness = t]
             terminal  == [entries[o] EXCEPT !.state = "TERMINAL"]
         IN  /\ marked \in Entry /\ marked.sequence = entries[o].sequence
             /\ witnessed \in Entry /\ witnessed.sequence = entries[o].sequence
             /\ terminal \in Entry /\ terminal.sequence = entries[o].sequence
  BY HeldEntry, OutboxAssumption DEF Entry, EntryStates

---------------------------------------------------------------------------
(* Types.                                                                  *)

\* The initial states are well typed.
LEMMA InitTypeOK == Init => TypeOK
<1> SUFFICES ASSUME Init PROVE TypeOK
  OBVIOUS
<1>1. OutboxTypeOK
  BY OutboxAssumption DEF Init, OutboxInit, OutboxTypeOK, Held
<1>2. decided \in [Namespaces -> Seq(Decision)]
  BY DEF Init
<1> QED
  BY <1>1, <1>2, OutboxAssumption, DrainAssumption DEF Init, TypeOK, Unsigned, FinalStatuses

\* What a settled answer leaves of the drain is well typed.
LEMMA SettleKeepsTypes ==
  ASSUME TypeOK, current \in Request, NEW outcome, Settle(outcome)
  PROVE  /\ pc' \in {"idle", "mark"}
         /\ current' \in Request \cup {NoRequest}
         /\ pc' # "idle" => current' = current
         /\ verdict' \in FinalStatuses \cup {"none", "refused"}
         /\ pc' = "mark" => verdict' # "none"
  BY DEF Settle, SettleWith, DrainEnds, TypeOK, FinalStatuses

\* A decision lands in its own namespace.
LEMMA DecideKeepsTypes ==
  ASSUME TypeOK, NEW r \in Request, NEW outcome \in FinalStatuses, Decide(r, outcome)
  PROVE  decided' \in [Namespaces -> Seq(Decision)]
<1>1. NamespaceOf[r.operation] \in Namespaces
  BY DrainAssumption DEF Request
<1>2. [operation |-> r.operation, outcome |-> outcome] \in Decision
  BY DEF Request, Decision
<1> QED BY <1>1, <1>2 DEF Decide, TypeOK

\* Every step of the device, the Edges and central keeps the types.
LEMMA TypeStep == TypeOK /\ [Next]_vars => TypeOK'
<1> SUFFICES ASSUME TypeOK, [Next]_vars PROVE TypeOK'
  OBVIOUS
<1>0. OutboxTypeOK
  BY DEF TypeOK
<1>sig. \A o \in Operations : signed[o] \in {Unsigned} \cup 0 .. MaxSequence
  BY DEF TypeOK
<1>1. ASSUME NEW c \in Contexts, SignIn(c) PROVE TypeOK'
  BY <1>1 DEF SignIn, TypeOK, outboxVars, OutboxTypeOK, Held, ghostVars
<1>2. ASSUME NEW o \in Operations, Offer(o) PROVE TypeOK'
  <2>1. nextSequence \in 0 .. MaxSequence /\ nextSequence < MaxSequence /\ nextSequence' = nextSequence + 1
    BY <1>0, <1>2 DEF Offer, Enqueue, MayEnqueue, AllocatedSequence, OutboxTypeOK
  <2>2. cached \in Contexts
    BY <1>2 DEF Offer, TypeOK
  <2> DEFINE e == [ sequence |-> nextSequence, lease |-> cached, state |-> "QUEUED",
                    attempts |-> 0, witness |-> NoWitness ]
  <2>3. e \in Entry
    BY <2>1, <2>2, OutboxAssumption DEF Entry, EntryStates
  <2>4. entries' = [entries EXCEPT ![o] = e]
    BY <1>2 DEF Offer, Enqueue, AllocatedSequence
  <2>5. \A p \in Held' : entries'[p].sequence < nextSequence'
    BY <2>1, <2>4, HeldEntry, <1>0 DEF Held, OutboxTypeOK
  <2>6. OutboxTypeOK'
    BY <2>1, <2>3, <2>4, <2>5, OutboxAssumption, <1>0 DEF OutboxTypeOK
  <2>7. signed' \in [Operations -> {Unsigned} \cup 0 .. MaxSequence]
    BY <1>2, <2>1 DEF Offer, TypeOK, AllocatedSequence
  <2> HIDE DEF e
  <2> QED BY <1>2, <2>6, <2>7 DEF Offer, TypeOK, phoneVars, centralVars
<1>3. ASSUME NEW o \in Operations, TakeHead(o) PROVE TypeOK'
  <2>1. o \in Held
    BY <1>3 DEF TakeHead, PeekNext, Queued
  <2>2. entries[o] \in Entry
    BY <1>0, <2>1, HeldEntry
  <2>3. OutboxTypeOK'
    BY <1>0, <1>3, <2>1, MutateKeepsType, <2>2, OutboxAssumption DEF TakeHead, MarkAttempt, Entry
  <2>4. shift \in Contexts
    BY <1>3 DEF TakeHead, TypeOK
  <2>5. current' \in Request
    BY <1>3, <2>2, <2>4 DEF TakeHead, Request, Entry
  <2> QED BY <1>3, <2>3, <2>5 DEF TakeHead, TypeOK, centralVars, ghostVars
<1>4. CASE Post
  <2>1. current \in Request
    BY <1>4 DEF Post, TypeOK
  <2>2. sends' \in [Operations -> 0 .. AttemptCap]
    BY <1>4, <2>1, OutboxAssumption DEF Post, TypeOK, Request
  <2> QED BY <1>0, <1>4, <2>1, <2>2 DEF Post, TypeOK, outboxVars, OutboxTypeOK, Held, centralVars
<1>5. ASSUME pc = "await", UNCHANGED <<outboxVars, shift, cached, asking, established, usable, inForce, ghostVars>>,
             NEW outcome, Settle(outcome),
             decided' \in [Namespaces -> Seq(Decision)], abandoned' \subseteq Request,
             faults' \in 0 .. MaxFaults
      PROVE  TypeOK'
  <2>1. current \in Request
    BY <1>5 DEF TypeOK
  <2> QED
    BY <1>0, <1>5, <2>1, SettleKeepsTypes DEF TypeOK, outboxVars, OutboxTypeOK, Held, ghostVars
<1>6. CASE AnswerDecided
  <2>1. current \in Request
    BY <1>6 DEF AnswerDecided, TypeOK
  <2>2. PICK outcome \in FinalStatuses : Decide(current, outcome) /\ Answer(outcome)
    BY <1>6 DEF AnswerDecided
  <2>3. decided' \in [Namespaces -> Seq(Decision)]
    BY <2>1, <2>2, DecideKeepsTypes
  <2> QED BY <1>5, <1>6, <2>2, <2>3 DEF AnswerDecided, Answer, TypeOK
<1>7. CASE AnswerReplayed
  BY <1>5, <1>7 DEF AnswerReplayed, Answer, TypeOK
<1>8. CASE AnswerRefused
  BY <1>5, <1>8 DEF AnswerRefused, Answer, TypeOK
<1>9. CASE AnswerConflict
  BY <1>5, <1>9 DEF AnswerConflict, Answer, TypeOK
<1>10. CASE AnswerUnknown
  <2>1. current \in Request
    BY <1>10 DEF AnswerUnknown, TypeOK
  <2>2. faults' \in 0 .. MaxFaults
    BY <1>10, DrainAssumption DEF AnswerUnknown, Fault, TypeOK
  <2>3. decided' \in [Namespaces -> Seq(Decision)] /\ abandoned' \subseteq Request
    BY <1>10, <2>1, DecideKeepsTypes DEF AnswerUnknown, TypeOK
  <2>4. PICK outcome : Settle(outcome)
    BY <1>10 DEF AnswerUnknown
  <2> QED BY <1>5, <1>10, <2>2, <2>3, <2>4 DEF AnswerUnknown
<1>11. ASSUME NEW r \in abandoned, AbandonedArrives(r) PROVE TypeOK'
  <2>1. r \in Request
    BY DEF TypeOK
  <2>2. decided' \in [Namespaces -> Seq(Decision)]
    BY <1>11, <2>1, DecideKeepsTypes DEF AbandonedArrives, TypeOK
  <2> QED BY <1>0, <1>11, <2>2 DEF AbandonedArrives, TypeOK, outboxVars, OutboxTypeOK, Held, phoneVars, ghostVars
<1>12. CASE SettleMarks
  <2>1. current \in Request /\ current.operation \in Operations
    BY <1>12 DEF SettleMarks, TypeOK, Request
  <2>2. OutboxTypeOK'
    BY <1>0, <1>12, <2>1, HeldEntry, MutateKeepsType DEF SettleMarks, MarkTerminal, Entry, EntryStates
  <2> QED BY <1>12, <2>1, <2>2 DEF SettleMarks, TypeOK, centralVars, ghostVars
<1>13. CASE SettleRemoves
  <2>1. current.operation \in Operations
    BY <1>13 DEF SettleRemoves, TypeOK, Request
  <2>2. OutboxTypeOK'
    BY <1>0, <1>13, <2>1 DEF SettleRemoves, Remove, OutboxTypeOK, Held
  <2>3. told' \subseteq Operations \X (FinalStatuses \cup {"refused"})
    BY <1>13, <2>1 DEF SettleRemoves, TypeOK
  <2> QED BY <1>13, <2>1, <2>2, <2>3 DEF SettleRemoves, DrainEnds, TypeOK, centralVars
<1>14. ASSUME NEW a \in Askers, NEW o \in Operations, AskEdge(a, o) PROVE TypeOK'
  BY <1>0, <1>14 DEF AskEdge, TypeOK, outboxVars, OutboxTypeOK, Held, centralVars, ghostVars
<1>15. ASSUME NEW a \in Askers, EdgeAnswers(a) PROVE TypeOK'
  <2>1. asking[a] \in Operations
    BY <1>15 DEF EdgeAnswers, TypeOK
  <2>2. OutboxTypeOK'
    <3>1. CASE UNCHANGED outboxVars
      BY <1>0, <3>1 DEF outboxVars, OutboxTypeOK, Held
    <3>2. ASSUME NEW i \in Instants, RecordEdgeReceipt(asking[a], i) PROVE OutboxTypeOK'
      <4>1. CASE asking[a] \in Held /\ entries[asking[a]].witness = NoWitness
        BY <1>0, <2>1, <3>2, <4>1, HeldEntry, MutateKeepsType DEF RecordEdgeReceipt, Entry
      <4> QED BY <3>1, <3>2, <4>1 DEF RecordEdgeReceipt
    <3> QED BY <1>15, <3>1, <3>2 DEF EdgeAnswers
  <2> QED BY <1>15, <2>2 DEF EdgeAnswers, TypeOK, centralVars, ghostVars
<1>16. CASE Crash
  <2>1. faults' \in 0 .. MaxFaults
    BY <1>16, DrainAssumption DEF Crash, Fault, TypeOK
  <2>2. abandoned' \subseteq Request
    BY <1>16 DEF Crash, TypeOK
  <2> QED BY <1>0, <1>16, <2>1, <2>2 DEF Crash, DrainEnds, TypeOK, outboxVars, OutboxTypeOK, Held, centralVars, ghostVars
<1>17. ASSUME NEW c \in Contexts, ContextEnds(c) \/ LeaseEnds(c) PROVE TypeOK'
  BY <1>0, <1>17 DEF ContextEnds, LeaseEnds, TypeOK, outboxVars, OutboxTypeOK, Held, phoneVars, ghostVars
<1>18. CASE UNCHANGED vars
  BY <1>0, <1>18 DEF vars, TypeOK, outboxVars, OutboxTypeOK, Held, phoneVars, centralVars, ghostVars
<1> QED
  BY <1>1, <1>2, <1>3, <1>4, <1>6, <1>7, <1>8, <1>9, <1>10, <1>11, <1>12, <1>13, <1>14, <1>15,
     <1>16, <1>17, <1>18 DEF Next, Drain

---------------------------------------------------------------------------
(* Every step, seen from the queue.                                        *)

\* The queue is as it was.
Order == /\ nextSequence' = nextSequence /\ signed' = signed
         /\ Held' = Held /\ Queued' = Queued
         /\ \A o \in Held : entries'[o].sequence = entries[o].sequence

\* The drain holds the head.
Busy == {"post", "await", "mark"}

\* While the drain serves an operation, that operation is the oldest of the
\* queue; between the two writes that settle it, it is queued no longer.
HeadInHand == /\ pc \in Busy => current.operation \in PeekNext
              /\ pc = "remove" => current.operation \in Acts \ Queued

\* The drain turns to the head, goes on with what it has, or ends.
HandMove == \/ pc' = "idle"
            \/ pc' \in Busy /\ current'.operation \in PeekNext
            \/ pc \in Busy /\ pc' \in Busy /\ current' = current
            \/ UNCHANGED <<pc, current>>

\* A call that rewrites an entry in place leaves the queue alone.
LEMMA RewriteKeepsOrder ==
  ASSUME OutboxTypeOK, NEW o \in Operations, NEW change, Mutate(o, change), signed' = signed,
         o \in Held => /\ change \in Entry /\ change.sequence = entries[o].sequence
                       /\ change.state = entries[o].state
  PROVE  Order
<1>1. CASE o \in Held
  <2>1. entries' = [entries EXCEPT ![o] = change] /\ nextSequence' = nextSequence
    BY <1>1 DEF Mutate
  <2>2. change # NoEntry
    BY <1>1, NoEntryAssumption
  <2>3. Held' = Held
    BY <1>1, <2>1, <2>2 DEF Held, OutboxTypeOK
  <2>4. \A p \in Held : entries'[p].state = entries[p].state /\ entries'[p].sequence = entries[p].sequence
    BY <1>1, <2>1 DEF Held, OutboxTypeOK
  <2> QED BY <2>1, <2>3, <2>4 DEF Order, Queued
<1>2. CASE o \notin Held
  BY <1>2 DEF Mutate, Order, Held, Queued
<1> QED BY <1>1, <1>2

\* So does a step that does not touch the outbox.
LEMMA SameOutboxKeepsOrder ==
  ASSUME UNCHANGED <<outboxVars, signed>>
  PROVE  Order
  BY DEF outboxVars, Order, Held, Queued

\* Every step leaves the queue in its order, or appends to it, or settles the
\* operation in hand.
LEMMA StepIsQueueMove ==
  ASSUME TypeOK, [Next]_vars
  PROVE  \/ Order /\ HandMove
         \/ \E o \in Operations : Offer(o)
         \/ SettleMarks
         \/ SettleRemoves
<1>0. OutboxTypeOK
  BY DEF TypeOK
<1> DEFINE Move == Order /\ HandMove
<1>1. ASSUME NEW c \in Contexts, SignIn(c) PROVE Move
  BY <1>1, SameOutboxKeepsOrder DEF SignIn, ghostVars, HandMove
<1>2. ASSUME NEW o \in Operations, TakeHead(o) PROVE Move
  <2>1. o \in Held
    BY <1>2 DEF TakeHead, PeekNext, Queued
  <2>2. entries[o] \in Entry
    BY <1>0, <2>1, HeldEntry
  <2>3. Order
    BY <1>0, <1>2, <2>2, RewriteKeepsOrder, OutboxAssumption DEF TakeHead, MarkAttempt, ghostVars, Entry
  <2>4. HandMove
    BY <1>2 DEF TakeHead, HandMove, Busy
  <2> QED BY <2>3, <2>4
<1>3. CASE Post
  BY <1>3, SameOutboxKeepsOrder DEF Post, HandMove, Busy
<1>4. ASSUME pc = "await", UNCHANGED <<outboxVars, ghostVars>>, NEW outcome, Settle(outcome)
      PROVE  Move
  <2>1. pc' = "idle" \/ (pc' = "mark" /\ current' = current)
    BY <1>4 DEF Settle, SettleWith, DrainEnds
  <2> QED BY <1>4, <2>1, SameOutboxKeepsOrder DEF ghostVars, HandMove, Busy
<1>5. CASE AnswerDecided \/ AnswerReplayed \/ AnswerRefused \/ AnswerConflict \/ AnswerUnknown
  <2>1. pc = "await" /\ UNCHANGED <<outboxVars, ghostVars>> /\ \E outcome : Settle(outcome)
    BY <1>5 DEF AnswerDecided, AnswerReplayed, AnswerRefused, AnswerConflict, AnswerUnknown, Answer
  <2> QED BY <1>4, <2>1
<1>6. ASSUME NEW r \in abandoned, AbandonedArrives(r) PROVE Move
  BY <1>6, SameOutboxKeepsOrder DEF AbandonedArrives, phoneVars, ghostVars, HandMove
<1>7. ASSUME NEW a \in Askers, NEW o \in Operations, AskEdge(a, o) PROVE Move
  BY <1>7, SameOutboxKeepsOrder DEF AskEdge, ghostVars, HandMove
<1>8. ASSUME NEW a \in Askers, EdgeAnswers(a) PROVE Move
  <2>1. asking[a] \in Operations
    BY <1>8 DEF EdgeAnswers, TypeOK
  <2>2. Order
    <3>1. CASE UNCHANGED outboxVars
      BY <1>8, <3>1, SameOutboxKeepsOrder DEF EdgeAnswers, ghostVars
    <3>2. ASSUME NEW i \in Instants, RecordEdgeReceipt(asking[a], i), asking[a] \in Held,
                 entries[asking[a]].witness = NoWitness
          PROVE  Order
      BY <1>0, <1>8, <2>1, <3>2, HeldEntry, RewriteKeepsOrder DEF RecordEdgeReceipt, EdgeAnswers, ghostVars, Entry
    <3> QED BY <1>8, <3>1, <3>2 DEF EdgeAnswers, RecordEdgeReceipt
  <2> QED BY <1>8, <2>2 DEF EdgeAnswers, HandMove
<1>9. CASE Crash
  BY <1>9, SameOutboxKeepsOrder DEF Crash, DrainEnds, ghostVars, HandMove
<1>10. ASSUME NEW c \in Contexts, ContextEnds(c) \/ LeaseEnds(c) PROVE Move
  BY <1>10, SameOutboxKeepsOrder DEF ContextEnds, LeaseEnds, phoneVars, ghostVars, HandMove
<1>11. CASE UNCHANGED vars
  BY <1>11, SameOutboxKeepsOrder DEF vars, phoneVars, ghostVars, HandMove
<1> QED
  BY <1>1, <1>2, <1>3, <1>5, <1>6, <1>7, <1>8, <1>9, <1>10, <1>11 DEF Next, Drain

\* What OfflineOutbox.enqueue appends.
LEMMA OfferFacts ==
  ASSUME OutboxTypeOK, TypeOK, NEW o \in Operations, Offer(o)
  PROVE  /\ o \notin Held /\ o \notin Acts
         /\ Held' = Held \cup {o} /\ Queued' = Queued \cup {o}
         /\ nextSequence \in Nat /\ nextSequence' = nextSequence + 1
         /\ \A p \in Held : entries'[p] = entries[p]
         /\ entries'[o].sequence = nextSequence
         /\ signed' = [signed EXCEPT ![o] = nextSequence]
         /\ UNCHANGED <<pc, current, sends, decided, abandoned>>
         /\ entries'[o].attempts = 0
<1> DEFINE e == [ sequence |-> nextSequence, lease |-> cached, state |-> "QUEUED",
                  attempts |-> 0, witness |-> NoWitness ]
<1>1. /\ o \notin Held /\ entries' = [entries EXCEPT ![o] = e]
      /\ nextSequence' = nextSequence + 1 /\ signed' = [signed EXCEPT ![o] = nextSequence]
  BY DEF Offer, Enqueue, MayEnqueue, AllocatedSequence, Held
<1>2. nextSequence \in 0 .. MaxSequence /\ cached \in Contexts
  BY DEF Offer, TypeOK, OutboxTypeOK
<1>3. e \in Entry
  BY <1>2, OutboxAssumption DEF Entry, EntryStates
<1>4. e # NoEntry
  BY <1>3, NoEntryAssumption
<1>5. Held' = Held \cup {o}
  BY <1>1, <1>4 DEF Held, OutboxTypeOK
<1>6. Queued' = Queued \cup {o}
  BY <1>1, <1>5 DEF Queued, Held, OutboxTypeOK
<1>7. o \notin Acts
  BY DEF Offer, Acts
<1>8. /\ \A p \in Held : entries'[p] = entries[p]
      /\ entries'[o].sequence = nextSequence /\ entries'[o].attempts = 0
  BY <1>1 DEF Held, OutboxTypeOK
<1>9. UNCHANGED <<pc, current, sends, decided, abandoned>>
  BY DEF Offer, phoneVars, centralVars
<1> QED BY <1>1, <1>2, <1>5, <1>6, <1>7, <1>8, <1>9, OutboxAssumption

\* What markTerminal takes out of the queue.
LEMMA MarksFacts ==
  ASSUME TypeOK, SettleMarks, HeadInHand
  PROVE  /\ current.operation \in PeekNext
         /\ nextSequence' = nextSequence /\ signed' = signed /\ Held' = Held
         /\ Queued' = Queued \ {current.operation}
         /\ \A o \in Held : /\ entries'[o].sequence = entries[o].sequence
                            /\ entries'[o].attempts = entries[o].attempts
         /\ pc' = "remove"
         /\ UNCHANGED <<current, sends, decided, abandoned>>
<1>0. OutboxTypeOK
  BY DEF TypeOK
<1>1. current.operation \in PeekNext
  BY DEF SettleMarks, HeadInHand, Busy
<1>2. current.operation \in Held
  BY <1>1 DEF PeekNext, Queued
<1> DEFINE e == [entries[current.operation] EXCEPT !.state = "TERMINAL"]
<1>3. entries' = [entries EXCEPT ![current.operation] = e] /\ nextSequence' = nextSequence
  BY <1>2 DEF SettleMarks, MarkTerminal, Mutate
<1>4. e # NoEntry /\ e.state = "TERMINAL" /\ e.sequence = entries[current.operation].sequence
      /\ e.attempts = entries[current.operation].attempts
  BY <1>0, <1>2, HeldEntry, NoEntryAssumption DEF Entry, EntryStates
<1>5. Held' = Held
  BY <1>0, <1>2, <1>3, <1>4 DEF Held, OutboxTypeOK
<1>6. Queued' = Queued \ {current.operation}
  BY <1>0, <1>2, <1>3, <1>4, <1>5 DEF Queued, Held, OutboxTypeOK
<1>7. \A o \in Held : entries'[o].sequence = entries[o].sequence /\ entries'[o].attempts = entries[o].attempts
  BY <1>0, <1>2, <1>3, <1>4 DEF Held, OutboxTypeOK
<1> QED BY <1>1, <1>3, <1>5, <1>6, <1>7 DEF SettleMarks, ghostVars, centralVars

\* What remove takes out of the outbox.
LEMMA RemovesFacts ==
  ASSUME TypeOK, SettleRemoves, HeadInHand
  PROVE  /\ nextSequence' = nextSequence /\ signed' = signed
         /\ Held' = Held \ {current.operation} /\ Queued' = Queued
         /\ \A o \in Held' : entries'[o] = entries[o]
         /\ pc' = "idle"
         /\ UNCHANGED <<sends, decided, abandoned>>
<1>1. current.operation \in Operations /\ current.operation \notin Queued
  BY DEF SettleRemoves, HeadInHand, TypeOK, Request
<1>2. entries' = [entries EXCEPT ![current.operation] = NoEntry] /\ nextSequence' = nextSequence
  BY DEF SettleRemoves, Remove
<1>3. Held' = Held \ {current.operation} /\ \A o \in Held' : entries'[o] = entries[o]
  BY <1>1, <1>2 DEF Held, TypeOK, OutboxTypeOK
<1>4. Queued' = Queued
  BY <1>1, <1>3 DEF Queued
<1> QED BY <1>2, <1>3, <1>4 DEF SettleRemoves, DrainEnds, centralVars

---------------------------------------------------------------------------
(* The positions, the order of the queue, and the operation in hand.       *)

\* The three facts about the queue are proved together.
QueueInv == PositionsSpentOnce /\ SettledInOrder /\ HeadInHand

\* Of two queued operations the one with the smaller entry was signed first.
LEMMA HeadIsFirst ==
  ASSUME PositionsSpentOnce, NEW h \in PeekNext, NEW o \in Queued
  PROVE  /\ signed[h] = entries[h].sequence /\ signed[o] = entries[o].sequence
         /\ signed[h] <= signed[o]
  BY DEF PositionsSpentOnce, PeekNext, Queued

\* Whatever the outbox holds was signed, at the position it still has.
LEMMA QueuedAreSigned ==
  ASSUME TypeOK, PositionsSpentOnce, NEW o \in Held
  PROVE  o \in Acts /\ signed[o] \in Nat /\ signed[o] < nextSequence
<1>1. o \in Operations /\ entries[o].sequence \in Nat /\ entries[o].sequence < nextSequence
  BY HeldEntry DEF TypeOK
<1>2. signed[o] = entries[o].sequence
  BY DEF PositionsSpentOnce
<1> QED BY <1>1, <1>2 DEF Acts, Unsigned

\* A new operation goes behind the head.
LEMMA OfferKeepsHead ==
  ASSUME TypeOK, NEW o \in Operations, Offer(o), NEW h \in PeekNext
  PROVE  h \in PeekNext'
<1>1. /\ Queued' = Queued \cup {o} /\ nextSequence \in Nat
      /\ \A p \in Held : entries'[p] = entries[p]
      /\ entries'[o].sequence = nextSequence
  BY OfferFacts DEF TypeOK
<1>2. h \in Held /\ entries[h].sequence \in Nat /\ entries[h].sequence < nextSequence
  BY HeldEntry DEF PeekNext, Queued, TypeOK
<1> SUFFICES ASSUME NEW p \in Queued' PROVE entries'[h].sequence <= entries'[p].sequence
  BY <1>1 DEF PeekNext
<1>3. CASE p = o
  BY <1>1, <1>2, <1>3
<1>4. CASE p \in Queued
  BY <1>1, <1>2, <1>4 DEF PeekNext, Queued
<1> QED BY <1>1, <1>3, <1>4

\* The queue starts empty.
LEMMA QueueInit == Init => QueueInv
<1> SUFFICES ASSUME Init PROVE QueueInv
  OBVIOUS
<1>1. Acts = {} /\ Held = {} /\ Queued = {} /\ nextSequence = 0 /\ pc = "idle"
  BY DEF Init, OutboxInit, Acts, Held, Queued
<1>2. PositionsSpentOnce
  BY <1>1 DEF PositionsSpentOnce
<1> QED BY <1>1, <1>2 DEF QueueInv, SettledInOrder, HeadInHand, Busy

\* Every step keeps the positions, the order and the operation in hand.
LEMMA QueueStep ==
  ASSUME TypeOK, TypeOK', QueueInv, [Next]_vars
  PROVE  QueueInv'
<1>0. OutboxTypeOK /\ PositionsSpentOnce /\ SettledInOrder /\ HeadInHand
  BY DEF TypeOK, QueueInv
<1>t. \A p \in Operations : signed[p] \in Int
  BY OutboxAssumption DEF TypeOK, Unsigned
<1>n. nextSequence \in Nat
  BY <1>0 DEF OutboxTypeOK
<1>1. CASE Order /\ HandMove
  <2>1. Acts' = Acts
    BY <1>1 DEF Order, Acts
  <2>2. PositionsSpentOnce'
    BY <1>0, <1>1, <2>1 DEF Order, PositionsSpentOnce
  <2>3. SettledInOrder'
    BY <1>0, <1>1, <2>1 DEF Order, SettledInOrder
  <2>4. PeekNext' = PeekNext
    BY <1>1 DEF Order, PeekNext, Queued
  <2>5. HeadInHand'
    BY <1>0, <1>1, <2>1, <2>4 DEF HeadInHand, HandMove, Order, Busy
  <2> QED BY <2>2, <2>3, <2>5 DEF QueueInv
<1>2. ASSUME NEW o \in Operations, Offer(o) PROVE QueueInv'
  <2>f. /\ o \notin Held /\ o \notin Acts
        /\ Held' = Held \cup {o} /\ Queued' = Queued \cup {o}
        /\ nextSequence' = nextSequence + 1
        /\ \A p \in Held : entries'[p] = entries[p]
        /\ entries'[o].sequence = nextSequence
        /\ signed' = [signed EXCEPT ![o] = nextSequence]
        /\ UNCHANGED <<pc, current>>
    BY <1>0, <1>2, OfferFacts
  <2>s. /\ signed'[o] = nextSequence
        /\ \A p \in Operations \ {o} : signed'[p] = signed[p]
    BY <2>f DEF TypeOK
  <2>1. Acts' = Acts \cup {o}
    BY <2>s, <1>n, <2>f DEF Acts, Unsigned
  <2>2. \A p \in Acts : p # o /\ signed[p] \in 0 .. nextSequence - 1
    BY <1>0, <2>f DEF PositionsSpentOnce
  <2>3. { signed'[p] : p \in Acts' } = 0 .. nextSequence
    <3>1. \A p \in Acts : signed'[p] = signed[p]
      BY <2>2, <2>s DEF Acts
    <3>2. { signed[p] : p \in Acts } = 0 .. nextSequence - 1
      BY <1>0 DEF PositionsSpentOnce
    <3> QED BY <2>1, <2>s, <3>1, <3>2, <1>n
  <2>4. \A p, q \in Acts' : signed'[p] = signed'[q] => p = q
    BY <1>0, <1>n, <2>1, <2>2, <2>s DEF PositionsSpentOnce, Acts
  <2>5. \A p \in Held' : entries'[p].sequence = signed'[p]
    BY <1>0, <2>f, <2>s DEF PositionsSpentOnce, Held
  <2>6. PositionsSpentOnce'
    BY <1>n, <2>f, <2>3, <2>4, <2>5 DEF PositionsSpentOnce
  <2>7. SettledInOrder'
    BY <1>0, <1>n, <2>1, <2>2, <2>f, <2>s DEF SettledInOrder, Acts, Queued, Held
  <2>8. \A h \in PeekNext : h \in PeekNext'
    BY <1>2, OfferKeepsHead
  <2>9. HeadInHand'
    <3>1. pc = "remove" => current.operation # o
      BY <1>0, <1>2, <2>f DEF HeadInHand
    <3> QED BY <1>0, <2>1, <2>8, <2>f, <3>1 DEF HeadInHand, Busy
  <2> QED BY <2>6, <2>7, <2>9 DEF QueueInv
<1>3. CASE SettleMarks
  <2>f. /\ current.operation \in PeekNext
        /\ nextSequence' = nextSequence /\ signed' = signed /\ Held' = Held
        /\ Queued' = Queued \ {current.operation}
        /\ \A o \in Held : entries'[o].sequence = entries[o].sequence
        /\ pc' = "remove" /\ current' = current
    BY <1>0, <1>3, MarksFacts
  <2>1. Acts' = Acts
    BY <2>f DEF Acts
  <2>2. PositionsSpentOnce'
    BY <1>0, <2>1, <2>f DEF PositionsSpentOnce
  <2>3. SettledInOrder'
    <3> SUFFICES ASSUME NEW o \in Queued', NEW p \in Acts', signed'[p] > signed'[o] PROVE p \in Queued'
      BY DEF SettledInOrder
    <3>1. o \in Queued /\ p \in Queued
      BY <1>0, <2>1, <2>f DEF SettledInOrder
    <3>2. signed[current.operation] <= signed[o]
      BY <1>0, <2>f, <3>1, HeadIsFirst
    <3>3. p # current.operation
      BY <1>t, <2>f, <3>1, <3>2 DEF Queued, Held
    <3> QED BY <2>f, <3>1, <3>3
  <2>4. current.operation \in Acts
    BY <1>0, <2>f, QueuedAreSigned DEF PeekNext, Queued
  <2>5. HeadInHand'
    BY <2>1, <2>4, <2>f DEF HeadInHand, Busy
  <2> QED BY <2>2, <2>3, <2>5 DEF QueueInv
<1>4. CASE SettleRemoves
  <2>f. /\ nextSequence' = nextSequence /\ signed' = signed
        /\ Held' \subseteq Held /\ Queued' = Queued
        /\ \A o \in Held' : entries'[o] = entries[o]
        /\ pc' = "idle"
    BY <1>0, <1>4, RemovesFacts
  <2>1. Acts' = Acts
    BY <2>f DEF Acts
  <2>2. PositionsSpentOnce'
    BY <1>0, <2>1, <2>f DEF PositionsSpentOnce
  <2>3. SettledInOrder' /\ HeadInHand'
    BY <1>0, <2>1, <2>f DEF SettledInOrder, HeadInHand, Busy
  <2> QED BY <2>2, <2>3 DEF QueueInv
<1> QED
  BY <1>1, <1>2, <1>3, <1>4, StepIsQueueMove

---------------------------------------------------------------------------
(* What is under way.                                                      *)

\* Central has decided the operation, or an abandoned request may still reach it.
IsSent(o) == IsDecided(o) \/ \E r \in abandoned : r.operation = o

\* Whatever central has decided or may still be sent, and is queued, is the
\* head of the queue.
OnlyHeadsSent ==
  \A o \in Operations : IsSent(o) => o \in Acts /\ (o \in Queued => o \in PeekNext)

\* A decision is about the operation of its request and no other.
LEMMA DecideDecidesOne ==
  ASSUME TypeOK, NEW r \in Request, NEW outcome \in FinalStatuses, Decide(r, outcome),
         NEW o \in Operations, IsDecided(o)'
  PROVE  IsDecided(o) \/ o = r.operation
<1> DEFINE n == NamespaceOf[r.operation]
           d == [operation |-> r.operation, outcome |-> outcome]
           m == NamespaceOf[o]
<1>1. n \in Namespaces /\ m \in Namespaces /\ d \in Decision
  BY DrainAssumption DEF Request, Decision
<1>2. decided[n] \in Seq(Decision) /\ decided[m] \in Seq(Decision)
  BY <1>1 DEF TypeOK
<1>3. decided'[m] = IF m = n THEN Append(decided[n], d) ELSE decided[m]
  BY <1>1 DEF Decide, TypeOK
<1>4. PICK i \in 1 .. Len(decided'[m]) : decided'[m][i].operation = o /\ decided'[m][i].outcome \in FinalStatuses
  BY DEF IsDecided, Decided
<1>5. CASE m = n
  <2>1. decided'[m] = Append(decided[m], d)
    BY <1>3, <1>5
  <2>2. CASE i = Len(decided[m]) + 1
    BY <1>1, <1>2, <1>4, <2>1, <2>2
  <2>3. CASE i # Len(decided[m]) + 1
    <3>1. i \in 1 .. Len(decided[m]) /\ decided'[m][i] = decided[m][i]
      BY <1>1, <1>2, <2>1, <2>3
    <3> QED BY <1>4, <3>1 DEF IsDecided, Decided
  <2> QED BY <2>2, <2>3
<1>6. CASE m # n
  BY <1>3, <1>4, <1>6 DEF IsDecided, Decided
<1> QED BY <1>5, <1>6

\* What is newly sent, or decided, was in the hands of the drain.
LEMMA SentSources ==
  ASSUME TypeOK, [Next]_vars, NEW o \in Operations, IsSent(o)'
  PROVE  IsSent(o) \/ (pc = "await" /\ o = current.operation)
<1>0. pc = "await" => current \in Request
  BY DEF TypeOK
<1>1. CASE AnswerDecided
  BY <1>0, <1>1, DecideDecidesOne DEF AnswerDecided, Answer, IsSent
<1>2. CASE AnswerUnknown
  BY <1>0, <1>2, DecideDecidesOne DEF AnswerUnknown, IsSent, IsDecided, Decided
<1>3. ASSUME NEW r \in abandoned, AbandonedArrives(r)
      PROVE  IsSent(o)
  <2>1. r \in Request
    BY DEF TypeOK
  <2> QED BY <1>3, <2>1, DecideDecidesOne DEF AbandonedArrives, IsSent, IsDecided, Decided
<1>4. CASE Crash
  BY <1>4 DEF Crash, DrainEnds, centralVars, IsSent, IsDecided, Decided
<1>5. CASE UNCHANGED <<decided, abandoned>>
  BY <1>5 DEF IsSent, IsDecided, Decided
<1> QED
  BY <1>1, <1>2, <1>3, <1>4, <1>5
  DEF Next, Drain, vars, centralVars, SignIn, Offer, TakeHead, Post, AnswerReplayed, AnswerRefused, AnswerConflict,
      Answer, SettleMarks, SettleRemoves, AskEdge, EdgeAnswers, ContextEnds, LeaseEnds

\* The drain leaves the head only by settling it.
LEMMA SentStep ==
  ASSUME TypeOK, QueueInv, OnlyHeadsSent, [Next]_vars
  PROVE  OnlyHeadsSent'
<1>0. OutboxTypeOK /\ PositionsSpentOnce /\ HeadInHand
  BY DEF TypeOK, QueueInv
<1> SUFFICES ASSUME NEW o \in Operations, IsSent(o)' PROVE o \in Acts' /\ (o \in Queued' => o \in PeekNext')
  BY DEF OnlyHeadsSent
<1>1. o \in Acts /\ (o \in Queued => o \in PeekNext)
  <2>1. CASE IsSent(o)
    BY <2>1 DEF OnlyHeadsSent
  <2>2. CASE pc = "await" /\ o = current.operation
    BY <1>0, <2>2, QueuedAreSigned DEF HeadInHand, Busy, PeekNext, Queued
  <2> QED BY <2>1, <2>2, SentSources
<1>2. CASE Order
  BY <1>1, <1>2 DEF Order, Acts, PeekNext, Queued
<1>3. ASSUME NEW p \in Operations, Offer(p) PROVE o \in Acts' /\ (o \in Queued' => o \in PeekNext')
  <2>1. p \notin Acts /\ Queued' = Queued \cup {p} /\ signed' = [signed EXCEPT ![p] = nextSequence]
    BY <1>0, <1>3, OfferFacts
  <2>2. o # p
    BY <1>1, <2>1
  <2>3. o \in Acts'
    BY <1>1, <2>1, <2>2 DEF Acts, TypeOK
  <2> QED BY <1>1, <1>3, <2>1, <2>2, <2>3, OfferKeepsHead
<1>4. CASE SettleMarks
  <2>1. /\ signed' = signed /\ Queued' = Queued \ {current.operation}
        /\ \A q \in Held : entries'[q].sequence = entries[q].sequence
    BY <1>0, <1>4, MarksFacts
  <2> QED BY <1>1, <2>1 DEF Acts, PeekNext, Queued
<1>5. CASE SettleRemoves
  <2>1. /\ signed' = signed /\ Queued' = Queued
        /\ \A q \in Held' : entries'[q] = entries[q]
    BY <1>0, <1>5, RemovesFacts
  <2>2. Queued \subseteq Held'
    BY <2>1 DEF Queued
  <2> QED BY <1>1, <2>1, <2>2 DEF Acts, PeekNext
<1> QED BY <1>2, <1>3, <1>4, <1>5, StepIsQueueMove

\* Of the operations central has decided, at most the head is still queued.
LEMMA SentGivesOneBehind ==
  ASSUME TypeOK, PositionsSpentOnce, OnlyHeadsSent
  PROVE  OneDecisionBehind
<1> SUFFICES ASSUME NEW o \in Queued, NEW p \in Queued, IsDecided(o), IsDecided(p) PROVE o = p
  BY DEF OneDecisionBehind
<1>1. o \in PeekNext /\ p \in PeekNext /\ o \in Acts /\ p \in Acts
  BY DEF OnlyHeadsSent, IsSent, Queued, Held
<1>2. signed[o] = signed[p]
  <2>1. signed[o] <= signed[p] /\ signed[p] <= signed[o]
    BY <1>1, HeadIsFirst
  <2>2. signed[o] \in Nat /\ signed[p] \in Nat
    BY QueuedAreSigned DEF Queued
  <2> QED BY <2>1, <2>2
<1> QED BY <1>1, <1>2 DEF PositionsSpentOnce

---------------------------------------------------------------------------
(* Attempts.                                                               *)

\* The attempt about to be made is on disk, and nothing was sent before it was
\* queued.
AttemptPending ==
  /\ pc = "post" =>
       \/ entries[current.operation].attempts = AttemptCap
       \/ sends[current.operation] < entries[current.operation].attempts
  /\ \A o \in Operations \ Acts : sends[o] = 0

\* A step that neither sends nor takes up an operation.
KeepsAttempts ==
  /\ sends' = sends /\ signed' = signed /\ Held' \subseteq Held
  /\ \A o \in Held' : entries'[o].attempts = entries[o].attempts
  /\ pc' = "post" => UNCHANGED <<pc, current, entries>>

\* A step that changes neither attempts nor sends keeps both facts.
LEMMA AttemptsKept ==
  ASSUME AttemptsAreWritten, AttemptPending, KeepsAttempts
  PROVE  (AttemptsAreWritten /\ AttemptPending)'
  BY DEF AttemptsAreWritten, AttemptPending, KeepsAttempts, Acts

\* Only taking the head, posting it, enqueueing and Edge answers do more.
LEMMA OthersKeepAttempts ==
  ASSUME TypeOK, HeadInHand, [Next]_vars
  PROVE  \/ KeepsAttempts
         \/ Post
         \/ \E o \in Operations : TakeHead(o) \/ Offer(o)
         \/ \E a \in Askers : EdgeAnswers(a)
<1>1. CASE SettleMarks
  BY <1>1, MarksFacts DEF KeepsAttempts
<1>2. CASE SettleRemoves
  BY <1>2, RemovesFacts DEF KeepsAttempts
<1>3. CASE UNCHANGED <<outboxVars, sends, signed>> /\ (UNCHANGED <<pc, current>> \/ pc' # "post")
  BY <1>3 DEF KeepsAttempts, outboxVars, Held
<1>4. ASSUME NEW outcome, Settle(outcome) PROVE pc' # "post"
  BY <1>4 DEF Settle, SettleWith, DrainEnds
<1>5. CASE AnswerDecided \/ AnswerReplayed \/ AnswerRefused \/ AnswerConflict \/ AnswerUnknown
  BY <1>3, <1>4, <1>5 DEF AnswerDecided, AnswerReplayed, AnswerRefused, AnswerConflict, AnswerUnknown,
     Answer, ghostVars
<1> QED
  BY <1>1, <1>2, <1>3, <1>5 DEF Next, Drain, vars, ghostVars, phoneVars, SignIn, AbandonedArrives, AskEdge, Crash,
     DrainEnds, ContextEnds, LeaseEnds

\* The attempt is written before the request that it counts.
LEMMA AttemptStep ==
  ASSUME TypeOK, QueueInv, AttemptsAreWritten, AttemptPending, [Next]_vars
  PROVE  (AttemptsAreWritten /\ AttemptPending)'
<1>0. OutboxTypeOK /\ PositionsSpentOnce /\ HeadInHand
  BY DEF TypeOK, QueueInv
<1>n. AttemptCap \in Nat /\ \A o \in Operations : sends[o] \in 0 .. AttemptCap
  BY OutboxAssumption DEF TypeOK
<1>a. \A o \in Held : entries[o].attempts \in 0 .. AttemptCap /\ o \in Operations
  BY <1>0, HeldEntry DEF Entry
<1>1. CASE Post
  <2>1. current.operation \in Held
    BY <1>0, <1>1 DEF Post, HeadInHand, Busy, PeekNext, Queued
  <2>2. sends' = [sends EXCEPT ![current.operation] = IF @ < AttemptCap THEN @ + 1 ELSE @]
    BY <1>1 DEF Post
  <2>3. UNCHANGED <<entries, signed>> /\ pc' = "await" /\ pc = "post"
    BY <1>1 DEF Post, outboxVars
  <2>4. sends'[current.operation] <= entries[current.operation].attempts
    BY <1>n, <1>a, <2>1, <2>2, <2>3 DEF TypeOK, AttemptPending
  <2>5. \A o \in Operations \ {current.operation} : sends'[o] = sends[o]
    BY <2>2 DEF TypeOK
  <2>6. AttemptsAreWritten'
    BY <2>3, <2>4, <2>5 DEF AttemptsAreWritten, Held
  <2>7. current.operation \in Acts
    BY <1>0, <2>1, QueuedAreSigned
  <2> QED BY <2>3, <2>5, <2>6, <2>7 DEF AttemptPending, Acts
<1>2. ASSUME NEW o \in Operations, TakeHead(o) PROVE (AttemptsAreWritten /\ AttemptPending)'
  <2>1. o \in Held
    BY <1>2 DEF TakeHead, PeekNext, Queued
  <2> DEFINE e == [entries[o] EXCEPT !.attempts = IF @ < AttemptCap THEN @ + 1 ELSE @]
  <2>2. entries' = [entries EXCEPT ![o] = e]
    BY <1>2, <2>1 DEF TakeHead, MarkAttempt, Mutate
  <2>3. e.attempts = IF entries[o].attempts < AttemptCap THEN entries[o].attempts + 1 ELSE entries[o].attempts
    BY <1>0, <2>1, HeldEntry DEF Entry
  <2>4. /\ entries'[o].attempts = e.attempts
        /\ \A p \in Operations \ {o} : entries'[p] = entries[p]
    BY <1>0, <2>2 DEF OutboxTypeOK
  <2>5. UNCHANGED <<sends, signed>> /\ current'.operation = o
    BY <1>2 DEF TakeHead, ghostVars
  <2>6. sends[o] <= entries[o].attempts
    BY <2>1 DEF AttemptsAreWritten
  <2>7. entries'[o].attempts = AttemptCap \/ sends[o] < entries'[o].attempts
    BY <1>n, <1>a, <2>1, <2>3, <2>4, <2>6
  <2>8. sends[o] <= entries'[o].attempts
    BY <1>n, <1>a, <2>1, <2>3, <2>4, <2>7
  <2>9. AttemptsAreWritten'
    BY <2>4, <2>5, <2>8 DEF AttemptsAreWritten, Held
  <2> QED BY <2>5, <2>7, <2>9 DEF AttemptPending, Acts
<1>3. ASSUME NEW o \in Operations, Offer(o) PROVE (AttemptsAreWritten /\ AttemptPending)'
  <2>f. /\ o \notin Held /\ o \notin Acts /\ Held' = Held \cup {o}
        /\ \A p \in Held : entries'[p] = entries[p]
        /\ entries'[o].attempts = 0 /\ UNCHANGED <<pc, current, sends>>
        /\ signed' = [signed EXCEPT ![o] = nextSequence]
    BY <1>0, <1>3, OfferFacts
  <2>1. AttemptsAreWritten'
    BY <2>f DEF AttemptsAreWritten, AttemptPending
  <2>2. \A p \in Operations \ Acts' : sends'[p] = 0
    BY <2>f DEF AttemptPending, Acts, TypeOK
  <2>3. pc = "post" => current.operation \in Held
    BY <1>0 DEF HeadInHand, Busy, PeekNext, Queued
  <2> QED BY <2>f, <2>1, <2>2, <2>3 DEF AttemptPending
<1>4. ASSUME NEW a \in Askers, EdgeAnswers(a) PROVE (AttemptsAreWritten /\ AttemptPending)'
  <2> DEFINE o == asking[a]
  <2>1. UNCHANGED <<sends, signed, pc, current>>
    BY <1>4 DEF EdgeAnswers, ghostVars
  <2>2. \A p \in Held' : p \in Held /\ entries'[p].attempts = entries[p].attempts
    <3>1. CASE UNCHANGED outboxVars
      BY <3>1 DEF outboxVars, Held
    <3>2. ASSUME NEW i \in Instants, RecordEdgeReceipt(o, i), o \in Held, entries[o].witness = NoWitness
          PROVE \A p \in Held' : p \in Held /\ entries'[p].attempts = entries[p].attempts
      <4>1. entries' = [entries EXCEPT ![o] = [entries[o] EXCEPT !.witness = i]]
        BY <3>2 DEF RecordEdgeReceipt, Mutate
      <4>2. entries[o] \in Entry
        BY <1>0, <3>2, HeldEntry
      <4>3. [entries[o] EXCEPT !.witness = i].attempts = entries[o].attempts
        BY <4>2 DEF Entry
      <4>4. entries'[o].attempts = entries[o].attempts
        BY <1>0, <3>2, <4>1, <4>3 DEF OutboxTypeOK, Held
      <4>5. \A p \in Operations \ {o} : entries'[p] = entries[p]
        BY <1>0, <4>1 DEF OutboxTypeOK
      <4> QED BY <3>2, <4>4, <4>5 DEF Held
    <3> QED BY <1>4, <3>1, <3>2 DEF EdgeAnswers, RecordEdgeReceipt
  <2>3. AttemptsAreWritten'
    BY <2>1, <2>2 DEF AttemptsAreWritten
  <2>4. pc = "post" => current.operation \in Held'
    <3>1. QueueInv'
      BY <1>4, QueueStep, TypeStep DEF Next
    <3> QED BY <2>1, <3>1 DEF QueueInv, HeadInHand, Busy, PeekNext, Queued
  <2> QED BY <2>1, <2>2, <2>3, <2>4 DEF AttemptPending, Acts
<1> QED BY <1>0, <1>1, <1>2, <1>3, <1>4, AttemptsKept, OthersKeepAttempts

---------------------------------------------------------------------------
(* Central.                                                                *)

\* The request is what was signed.
Faithful(r) == r.operation \in Acts /\ r.sequence = signed[r.operation]

\* A request carries the position its operation was signed with.
RequestsFaithful ==
  /\ \A r \in abandoned : Faithful(r)
  /\ pc # "idle" => Faithful(current)

\* An operation is decided at the position it was signed with, among those of
\* its own namespace.
DecidedInPlace ==
  \A n \in Namespaces : \A i \in 1 .. Len(decided[n]) :
    LET o == decided[n][i].operation IN o \in Acts /\ signed[o] = i - 1 /\ NamespaceOf[o] = n

\* What was signed stays signed, at its position.
LEMMA SignedStays ==
  ASSUME TypeOK, [Next]_vars, NEW o \in Acts
  PROVE  o \in Acts' /\ signed'[o] = signed[o]
<1>1. CASE signed' = signed
  BY <1>1 DEF Acts
<1>2. ASSUME NEW p \in Operations, Offer(p) PROVE o \in Acts' /\ signed'[o] = signed[o]
  BY <1>2 DEF Offer, Acts, TypeOK
<1> QED
  BY <1>1, <1>2 DEF Next, Drain, vars, ghostVars, SignIn, TakeHead, Post, AnswerDecided, AnswerReplayed, AnswerRefused,
     AnswerConflict, AnswerUnknown, Answer, AbandonedArrives, SettleMarks, SettleRemoves, AskEdge, EdgeAnswers,
     Crash, ContextEnds, LeaseEnds

\* The drain takes a new request only from the head of the queue, and only the
\* request in hand is abandoned.
LEMMA RequestSources ==
  ASSUME TypeOK, [Next]_vars
  PROVE  /\ abandoned' \subseteq abandoned \cup (IF pc = "await" THEN {current} ELSE {})
         /\ \/ pc' = "idle"
            \/ pc # "idle" /\ current' = current
            \/ \E o \in Operations : TakeHead(o)
<1>1. ASSUME NEW outcome, Settle(outcome) PROVE pc' = "idle" \/ current' = current
  BY <1>1 DEF Settle, SettleWith, DrainEnds
<1>2. CASE AnswerDecided \/ AnswerReplayed \/ AnswerRefused \/ AnswerConflict \/ AnswerUnknown
  BY <1>1, <1>2 DEF AnswerDecided, AnswerReplayed, AnswerRefused, AnswerConflict, AnswerUnknown, Answer
<1> QED
  BY <1>2 DEF Next, Drain, vars, phoneVars, SignIn, Offer, TakeHead, Post, AbandonedArrives, SettleMarks, SettleRemoves,
     DrainEnds, AskEdge, EdgeAnswers, Crash, ContextEnds, LeaseEnds

\* Every request is taken from the entry as it was signed.
LEMMA RequestsStep ==
  ASSUME TypeOK, PositionsSpentOnce, RequestsFaithful, [Next]_vars
  PROVE  RequestsFaithful'
<1>1. \A r \in abandoned' : Faithful(r)'
  BY SignedStays, RequestSources DEF RequestsFaithful, Faithful
<1>2. ASSUME NEW o \in Operations, TakeHead(o) PROVE Faithful(current)'
  <2>1. o \in Held /\ current'.operation = o /\ current'.sequence = entries[o].sequence
    BY <1>2 DEF TakeHead, PeekNext, Queued
  <2>2. o \in Acts /\ signed[o] = entries[o].sequence
    BY <2>1, QueuedAreSigned DEF PositionsSpentOnce
  <2> QED BY <2>1, <2>2, SignedStays DEF Faithful
<1>3. pc # "idle" /\ current' = current => Faithful(current)'
  BY SignedStays DEF RequestsFaithful, Faithful
<1> QED BY <1>1, <1>2, <1>3, RequestSources DEF RequestsFaithful

\* Central decides nothing, or what is next in the namespace of a request.
LEMMA CentralMove ==
  ASSUME TypeOK, RequestsFaithful, [Next]_vars
  PROVE  \/ decided' = decided
         \/ \E r \in Request, outcome \in FinalStatuses :
              Faithful(r) /\ ~Refused(r) /\ InTurn(r) /\ Decide(r, outcome) /\ told' = told
<1>1. pc = "await" => current \in Request /\ Faithful(current)
  BY DEF TypeOK, RequestsFaithful
<1>2. CASE AnswerDecided
  BY <1>1, <1>2 DEF AnswerDecided, Answer, ghostVars
<1>3. CASE AnswerUnknown
  BY <1>1, <1>3 DEF AnswerUnknown, ghostVars
<1>4. ASSUME NEW r \in abandoned, AbandonedArrives(r)
      PROVE  \/ decided' = decided
             \/ \E outcome \in FinalStatuses :
                  r \in Request /\ Faithful(r) /\ ~Refused(r) /\ InTurn(r) /\ Decide(r, outcome) /\ told' = told
  BY <1>4 DEF AbandonedArrives, TypeOK, RequestsFaithful, ghostVars
<1> QED
  BY <1>2, <1>3, <1>4 DEF Next, Drain, vars, centralVars, SignIn, Offer, TakeHead, Post, AnswerReplayed, AnswerRefused,
     AnswerConflict, SettleMarks, SettleRemoves, AskEdge, EdgeAnswers, Crash, ContextEnds, LeaseEnds

\* A decision is appended to its namespace.
LEMMA DecideFacts ==
  ASSUME TypeOK, NEW r \in Request, NEW outcome \in FinalStatuses, Decide(r, outcome)
  PROVE  LET n == NamespaceOf[r.operation]
             d == [operation |-> r.operation, outcome |-> outcome]
         IN  /\ n \in Namespaces
             /\ \A m \in Namespaces \ {n} : decided'[m] = decided[m]
             /\ Len(decided'[n]) = Len(decided[n]) + 1
             /\ \A i \in 1 .. Len(decided[n]) : decided'[n][i] = decided[n][i]
             /\ decided'[n][Len(decided[n]) + 1] = d
<1> DEFINE n == NamespaceOf[r.operation]
           d == [operation |-> r.operation, outcome |-> outcome]
<1>1. n \in Namespaces /\ d \in Decision
  BY DrainAssumption DEF Request, Decision
<1>2. decided[n] \in Seq(Decision)
  BY <1>1 DEF TypeOK
<1>3. decided'[n] = Append(decided[n], d) /\ \A m \in Namespaces \ {n} : decided'[m] = decided[m]
  BY <1>1 DEF Decide, TypeOK
<1> HIDE DEF d, n
<1>4. /\ Len(Append(decided[n], d)) = Len(decided[n]) + 1
      /\ \A i \in 1 .. Len(decided[n]) : Append(decided[n], d)[i] = decided[n][i]
      /\ Append(decided[n], d)[Len(decided[n]) + 1] = d
  BY <1>1, <1>2
<1> QED BY <1>1, <1>3, <1>4 DEF d, n

\* Central decides only in turn, so what it decides lands at its position.
LEMMA PlacesStep ==
  ASSUME TypeOK, RequestsFaithful, DecidedInPlace, [Next]_vars
  PROVE  DecidedInPlace'
<1>1. CASE decided' = decided
  BY <1>1, SignedStays DEF DecidedInPlace
<1>2. ASSUME NEW r \in Request, NEW outcome \in FinalStatuses, Faithful(r), InTurn(r), Decide(r, outcome)
      PROVE  DecidedInPlace'
  <2> DEFINE n == NamespaceOf[r.operation]
  <2>f. /\ n \in Namespaces
        /\ \A m \in Namespaces \ {n} : decided'[m] = decided[m]
        /\ Len(decided'[n]) = Len(decided[n]) + 1
        /\ \A i \in 1 .. Len(decided[n]) : decided'[n][i] = decided[n][i]
        /\ decided'[n][Len(decided[n]) + 1].operation = r.operation
        /\ Len(decided[n]) \in Nat
    <3>1. decided[n] \in Seq(Decision)
      BY DrainAssumption DEF TypeOK, Request
    <3>2. /\ n \in Namespaces
          /\ \A m \in Namespaces \ {n} : decided'[m] = decided[m]
          /\ Len(decided'[n]) = Len(decided[n]) + 1
          /\ \A i \in 1 .. Len(decided[n]) : decided'[n][i] = decided[n][i]
          /\ decided'[n][Len(decided[n]) + 1] = [operation |-> r.operation, outcome |-> outcome]
      BY <1>2, DecideFacts
    <3> QED BY <3>1, <3>2
  <2>1. r.operation \in Acts' /\ signed'[r.operation] = Len(decided[n])
    BY <1>2, SignedStays DEF Faithful, InTurn, Decisions
  <2> SUFFICES ASSUME NEW m \in Namespaces, NEW i \in 1 .. Len(decided'[m])
               PROVE  LET o == decided'[m][i].operation IN o \in Acts' /\ signed'[o] = i - 1 /\ NamespaceOf[o] = m
    BY DEF DecidedInPlace
  <2>2. CASE m # n \/ i \in 1 .. Len(decided[n])
    <3>1. i \in 1 .. Len(decided[m]) /\ decided'[m][i] = decided[m][i]
      BY <2>2, <2>f
    <3> QED BY <3>1, SignedStays DEF DecidedInPlace
  <2>3. CASE m = n /\ i = Len(decided[n]) + 1
    BY <2>1, <2>3, <2>f
  <2> HIDE DEF n
  <2> QED BY <2>2, <2>3, <2>f
<1> QED BY <1>1, <1>2, CentralMove

\* What is decided stays decided, with its outcome.
LEMMA DecisionsStay ==
  ASSUME TypeOK, RequestsFaithful, [Next]_vars, NEW o \in Operations, NEW S, Decided(o, S)
  PROVE  Decided(o, S)'
<1> DEFINE m == NamespaceOf[o]
<1>0. m \in Namespaces
  BY DrainAssumption
<1>1. PICK i \in 1 .. Len(decided[m]) : decided[m][i].operation = o /\ decided[m][i].outcome \in S
  BY DEF Decided
<1>2. CASE decided' = decided
  BY <1>1, <1>2 DEF Decided
<1>3. ASSUME NEW r \in Request, NEW outcome \in FinalStatuses, Decide(r, outcome)
      PROVE  Decided(o, S)'
  <2>1. CASE m = NamespaceOf[r.operation]
    <3>1. Len(decided[m]) \in Nat
      BY <1>0 DEF TypeOK
    <3>2. i \in 1 .. Len(decided'[m]) /\ decided'[m][i] = decided[m][i]
      <4>1. /\ Len(decided'[m]) = Len(decided[m]) + 1
            /\ \A j \in 1 .. Len(decided[m]) : decided'[m][j] = decided[m][j]
        BY <1>3, <2>1, DecideFacts
      <4> QED BY <1>1, <3>1, <4>1
    <3> QED BY <1>1, <3>2 DEF Decided
  <2>2. CASE m # NamespaceOf[r.operation]
    <3>1. decided'[m] = decided[m]
      <4>1. \A n \in Namespaces \ { NamespaceOf[r.operation] } : decided'[n] = decided[n]
        BY <1>3, DecideFacts
      <4> QED BY <1>0, <2>2, <4>1
    <3> QED BY <1>1, <3>1 DEF Decided
  <2> QED BY <2>1, <2>2
<1> QED BY <1>2, <1>3, CentralMove

\* The device is about to report nothing but what central has decided.
VerdictIsDecided ==
  pc \in {"mark", "remove"} /\ verdict \in FinalStatuses => Decided(current.operation, {verdict})

\* How the drain comes to settle an operation.
LEMMA VerdictSources ==
  ASSUME TypeOK, [Next]_vars, pc' \in {"mark", "remove"}
  PROVE  \/ UNCHANGED <<current, verdict>> /\ pc \in {"mark", "remove"}
         \/ UNCHANGED current /\ pc = "await" /\ verdict' = "refused" /\ Refused(current)
         \/ /\ UNCHANGED current /\ pc = "await"
            /\ \E s \in FinalStatuses : verdict' = s /\ Decided(current.operation, {s})'
<1>1. ASSUME NEW outcome, Settle(outcome)
      PROVE  UNCHANGED current /\ verdict' = outcome /\ outcome \in FinalStatuses \cup {"refused"}
  BY <1>1 DEF Settle, SettleWith, DrainEnds
<1>2. ASSUME pc = "await" PROVE current \in Request /\ NamespaceOf[current.operation] \in Namespaces
  BY <1>2, DrainAssumption DEF TypeOK, Request
<1>3. CASE AnswerDecided
  <2>1. PICK outcome \in FinalStatuses : Decide(current, outcome) /\ Settle(outcome)
    BY <1>3 DEF AnswerDecided, Answer
  <2>2. pc = "await" /\ current \in Request
    BY <1>2, <1>3 DEF AnswerDecided
  <2>3. LET n == NamespaceOf[current.operation]
        IN  /\ Len(decided'[n]) = Len(decided[n]) + 1 /\ Len(decided[n]) \in Nat
            /\ decided'[n][Len(decided[n]) + 1] = [operation |-> current.operation, outcome |-> outcome]
    BY <1>2, <2>1, <2>2, DecideFacts DEF TypeOK
  <2>4. Decided(current.operation, {outcome})'
    <3> DEFINE n == NamespaceOf[current.operation]
               i == Len(decided[n]) + 1
    <3>1. /\ i \in 1 .. Len(decided'[n])
          /\ decided'[n][i].operation = current.operation /\ decided'[n][i].outcome \in { outcome }
      BY <2>3
    <3>2. current' = current
      BY <1>1, <2>1
    <3> QED BY <3>1, <3>2 DEF Decided
  <2> QED BY <1>1, <2>1, <2>2, <2>4
<1>4. CASE AnswerReplayed
  <2> DEFINE n == NamespaceOf[current.operation]
             i == current.sequence + 1
  <2>1. pc = "await" /\ Settle(decided[n][i].outcome) /\ decided' = decided
    BY <1>4 DEF AnswerReplayed, Answer, Decisions
  <2>2. current.sequence \in Nat /\ Len(decided[n]) \in Nat
    BY <1>2, <2>1, OutboxAssumption DEF TypeOK, Request
  <2>3. i \in 1 .. Len(decided[n]) /\ decided[n][i].operation = current.operation
    BY <1>4, <2>2 DEF AnswerReplayed, Replayed, Decisions
  <2>4. decided[n][i].outcome \in FinalStatuses
    <3>1. decided[n] \in Seq(Decision)
      BY <1>2, <2>1 DEF TypeOK
    <3>2. decided[n][i] \in Decision
      BY <2>3, <3>1
    <3> QED BY <3>2 DEF Decision
  <2>5. UNCHANGED current /\ verdict' = decided[n][i].outcome
    BY <1>1, <2>1
  <2>6. ASSUME NEW s, s = decided[n][i].outcome
        PROVE  Decided(current.operation, {s})'
    BY <2>1, <2>3, <2>5, <2>6 DEF Decided
  <2> HIDE DEF n, i
  <2> QED BY <2>1, <2>4, <2>5, <2>6
<1>5. CASE AnswerRefused
  BY <1>1, <1>5 DEF AnswerRefused, Answer
<1>6. CASE AnswerConflict \/ AnswerUnknown
  BY <1>1, <1>6 DEF AnswerConflict, AnswerUnknown, Answer, FinalStatuses
<1>7. CASE SettleMarks
  BY <1>7 DEF SettleMarks
<1> QED
  BY <1>3, <1>4, <1>5, <1>6, <1>7 DEF Next, Drain, vars, phoneVars, SignIn, Offer, TakeHead, Post, AbandonedArrives,
     SettleRemoves, DrainEnds, AskEdge, EdgeAnswers, Crash, ContextEnds, LeaseEnds

\* The device settles with the decision it was sent.
LEMMA VerdictStep ==
  ASSUME TypeOK, TypeOK', RequestsFaithful, VerdictIsDecided, [Next]_vars
  PROVE  VerdictIsDecided'
<1> SUFFICES ASSUME pc' \in {"mark", "remove"}, verdict' \in FinalStatuses
             PROVE  Decided(current.operation, {verdict})'
  BY DEF VerdictIsDecided
<1>1. CASE UNCHANGED <<current, verdict>> /\ pc \in {"mark", "remove"}
  <2> DEFINE o == current.operation
  <2>1. Decided(o, {verdict}) /\ o \in Operations
    BY <1>1 DEF VerdictIsDecided, TypeOK, Request
  <2>2. ASSUME NEW s, NEW p \in Operations, s = verdict, p = o PROVE Decided(p, {s})'
    BY <2>1, <2>2, DecisionsStay
  <2> QED BY <1>1, <2>1, <2>2 DEF Decided
<1>2. CASE /\ UNCHANGED current
           /\ \E s \in FinalStatuses : verdict' = s /\ Decided(current.operation, {s})'
  BY <1>2 DEF Decided
<1>3. verdict' # "refused"
  BY DEF FinalStatuses
<1> QED BY <1>1, <1>2, <1>3, VerdictSources

---------------------------------------------------------------------------
(* What the device gives up.                                               *)

\* Whatever the application holds or offers was established once.
EverEstablished ==
  /\ shift # NoOne => shift \in established
  /\ cached # NoLease => cached \in established
  /\ \A o \in Held : entries[o].lease \in established
  /\ pc # "idle" => current.context \in established /\ current.lease \in established

\* The device is about to give up nothing but what central refuses.
VerdictIsRefusal == pc \in {"mark", "remove"} /\ verdict = "refused" => Refused(current)

\* The lease of an entry is the one cached when it was signed.
LEMMA LeaseSources ==
  ASSUME TypeOK, HeadInHand, [Next]_vars, NEW o \in Held'
  PROVE  \/ o \in Held /\ entries'[o].lease = entries[o].lease
         \/ cached # NoLease /\ entries'[o].lease = cached
<1>0. OutboxTypeOK
  BY DEF TypeOK
<1>a. \A p \in Held : entries[p] \in Entry /\ p \in Operations
  BY <1>0, HeldEntry
<1>1. ASSUME NEW p \in Operations, NEW change, Mutate(p, change),
             p \in Held => change.lease = entries[p].lease
      PROVE  o \in Held /\ entries'[o].lease = entries[o].lease
  BY <1>0, <1>1 DEF Mutate, Held, OutboxTypeOK
<1>2. ASSUME NEW p \in Operations, TakeHead(p) PROVE o \in Held /\ entries'[o].lease = entries[o].lease
  BY <1>1, <1>2, <1>a DEF TakeHead, MarkAttempt, Entry
<1>3. CASE SettleMarks
  <2>1. current.operation \in Operations
    BY <1>3 DEF SettleMarks, TypeOK, Request
  <2> QED BY <1>1, <1>3, <1>a, <2>1 DEF SettleMarks, MarkTerminal, Entry
<1>4. CASE SettleRemoves
  BY <1>4, RemovesFacts
<1>5. ASSUME NEW p \in Operations, Offer(p)
      PROVE  \/ o \in Held /\ entries'[o].lease = entries[o].lease
             \/ cached # NoLease /\ entries'[o].lease = cached
  <2>1. entries' = [entries EXCEPT ![p] =
                      [ sequence |-> AllocatedSequence, lease |-> cached, state |-> "QUEUED",
                        attempts |-> 0, witness |-> NoWitness ]] /\ cached # NoLease
    BY <1>5 DEF Offer, Enqueue
  <2> QED BY <1>0, <2>1 DEF Held, OutboxTypeOK
<1>6. CASE UNCHANGED outboxVars
  BY <1>6 DEF outboxVars, Held
<1>7. ASSUME NEW a \in Askers, EdgeAnswers(a) PROVE o \in Held /\ entries'[o].lease = entries[o].lease
  <2>1. asking[a] \in Operations
    BY <1>7 DEF EdgeAnswers, TypeOK
  <2>2. CASE UNCHANGED outboxVars
    BY <2>2 DEF outboxVars, Held
  <2>3. ASSUME NEW i \in Instants, RecordEdgeReceipt(asking[a], i), asking[a] \in Held,
               entries[asking[a]].witness = NoWitness
        PROVE  o \in Held /\ entries'[o].lease = entries[o].lease
    BY <1>1, <1>a, <2>1, <2>3 DEF RecordEdgeReceipt, Entry
  <2> QED BY <1>7, <2>2, <2>3 DEF EdgeAnswers, RecordEdgeReceipt
<1> QED
  BY <1>2, <1>3, <1>4, <1>5, <1>6, <1>7 DEF Next, Drain, vars, SignIn, Post, AnswerDecided, AnswerReplayed, AnswerRefused,
     AnswerConflict, AnswerUnknown, Answer, AbandonedArrives, AskEdge, Crash, ContextEnds, LeaseEnds

\* A context is established once, before anything is held or offered under it.
LEMMA EstablishedStep ==
  ASSUME TypeOK, HeadInHand, EverEstablished, [Next]_vars
  PROVE  EverEstablished'
<1>1. established \subseteq established'
  BY DEF Next, Drain, vars, centralVars, SignIn, Offer, TakeHead, Post, AnswerDecided, AnswerReplayed,
     AnswerRefused, AnswerConflict, AnswerUnknown, Answer, AbandonedArrives, SettleMarks, SettleRemoves, AskEdge,
     EdgeAnswers, Crash, ContextEnds, LeaseEnds
<1>2. \/ UNCHANGED <<shift, cached>>
      \/ shift' \in established' /\ (cached' = NoLease \/ cached' \in established')
  BY DEF Next, Drain, vars, phoneVars, SignIn, Offer, TakeHead, Post, AnswerDecided, AnswerReplayed, AnswerRefused,
     AnswerConflict, AnswerUnknown, Answer, AbandonedArrives, SettleMarks, SettleRemoves, AskEdge, EdgeAnswers,
     Crash, ContextEnds, LeaseEnds
<1>3. \A o \in Held' : entries'[o].lease \in established'
  BY <1>1, LeaseSources DEF EverEstablished
<1>4. pc' # "idle" => current'.context \in established' /\ current'.lease \in established'
  <2>1. ASSUME NEW o \in Operations, TakeHead(o)
        PROVE  current'.context \in established' /\ current'.lease \in established'
    BY <1>1, <2>1 DEF TakeHead, PeekNext, Queued, EverEstablished
  <2> QED BY <1>1, <2>1, RequestSources DEF EverEstablished
<1> QED BY <1>1, <1>2, <1>3, <1>4 DEF EverEstablished

\* A context once closed is not opened again, nor does a lease come back.
LEMMA EndedStaysEnded ==
  ASSUME [Next]_vars, NEW c \in established
  PROVE  /\ c \in usable' => c \in usable
         /\ c \in inForce' => c \in inForce
  BY DEF Next, Drain, vars, centralVars, SignIn, Offer, TakeHead, Post, AnswerDecided, AnswerReplayed,
     AnswerRefused, AnswerConflict, AnswerUnknown, Answer, AbandonedArrives, SettleMarks, SettleRemoves, AskEdge,
     EdgeAnswers, Crash, ContextEnds, LeaseEnds

\* So a request that is refused is refused from then on.
LEMMA RefusalStep ==
  ASSUME TypeOK, EverEstablished, VerdictIsRefusal, [Next]_vars
  PROVE  VerdictIsRefusal'
<1> SUFFICES ASSUME pc' \in {"mark", "remove"}, verdict' = "refused" PROVE Refused(current)'
  BY DEF VerdictIsRefusal
<1>1. pc # "idle" /\ current' = current /\ Refused(current)
  BY VerdictSources DEF VerdictIsRefusal, FinalStatuses
<1>2. current.context \in established /\ current.lease \in established
  BY <1>1 DEF EverEstablished
<1> QED BY <1>1, <1>2, EndedStaysEnded DEF Refused

\* The device gives up the operation in hand, which is decided or refused.
LEMMA SettledStep ==
  ASSUME TypeOK, QueueInv, VerdictIsDecided, VerdictIsRefusal, [Next]_vars,
         NEW o \in Queued, o \notin Queued'
  PROVE  IsDecided(o) \/ (current.operation = o /\ Refused(current))
<1>0. OutboxTypeOK /\ HeadInHand
  BY DEF TypeOK, QueueInv
<1>1. CASE Order
  BY <1>1 DEF Order
<1>2. ASSUME NEW p \in Operations, Offer(p) PROVE FALSE
  BY <1>0, <1>2, OfferFacts
<1>3. CASE SettleRemoves
  BY <1>0, <1>3, RemovesFacts
<1>4. CASE SettleMarks
  <2>1. current.operation = o
    BY <1>0, <1>4, MarksFacts
  <2>2. pc = "mark" /\ verdict \in FinalStatuses \cup {"refused"}
    BY <1>4 DEF SettleMarks, TypeOK
  <2>3. CASE verdict = "refused"
    BY <2>1, <2>2, <2>3 DEF VerdictIsRefusal
  <2>4. CASE verdict \in FinalStatuses
    BY <2>1, <2>2, <2>4 DEF VerdictIsDecided, IsDecided, Decided
  <2> QED BY <2>2, <2>3, <2>4
<1> QED BY <1>1, <1>2, <1>3, <1>4, StepIsQueueMove

\* In one namespace, everything decided at its position and everything before
\* the head decided, the head is at the position that comes next.
LEMMA PlacesGiveExpected ==
  ASSUME TypeOK, PositionsSpentOnce, DecidedInPlace,
         \A o, p \in Operations : NamespaceOf[o] = NamespaceOf[p]
  PROVE  HeadIsExpected
<1> SUFFICES ASSUME NEW o \in Queued, ~IsDecided(o),
                    \A p \in Acts : NamespaceOf[p] = NamespaceOf[o] /\ signed[p] < signed[o] => IsDecided(p)
             PROVE  signed[o] = Len(decided[NamespaceOf[o]])
  BY DEF HeadIsExpected
<1> DEFINE n == NamespaceOf[o]
           L == Len(decided[n])
<1>1. o \in Acts /\ o \in Operations /\ signed[o] \in Nat /\ signed[o] < nextSequence
  BY QueuedAreSigned DEF Queued, Held
<1>2. n \in Namespaces /\ decided[n] \in Seq(Decision) /\ L \in Nat
  BY <1>1, DrainAssumption DEF TypeOK
<1>3. ASSUME signed[o] < L PROVE FALSE
  <2>1. signed[o] + 1 \in 1 .. L
    BY <1>1, <1>2, <1>3
  <2>2. decided[n][signed[o] + 1].operation = o
    BY <1>1, <1>2, <2>1 DEF DecidedInPlace, PositionsSpentOnce
  <2>3. decided[n][signed[o] + 1] \in Decision
    BY <1>2, <2>1
  <2> QED BY <2>1, <2>2, <2>3 DEF IsDecided, Decided, Decision
<1>4. ASSUME L < signed[o] PROVE FALSE
  <2>1. L \in 0 .. nextSequence - 1
    BY <1>1, <1>2, <1>4 DEF TypeOK, OutboxTypeOK
  <2>2. PICK p \in Acts : signed[p] = L
    BY <2>1 DEF PositionsSpentOnce
  <2>3. NamespaceOf[p] = n /\ IsDecided(p)
    BY <1>1, <1>4, <2>2 DEF Acts
  <2>4. PICK j \in 1 .. L : decided[n][j].operation = p
    BY <2>3 DEF IsDecided, Decided
  <2>5. signed[p] = j - 1
    BY <1>2, <2>4 DEF DecidedInPlace
  <2> QED BY <1>2, <2>2, <2>4, <2>5
<1> QED BY <1>1, <1>2, <1>3, <1>4

---------------------------------------------------------------------------
(* The promise.                                                            *)

\* The device was told of operations it has signed.
ToldAreSigned == \A t \in told : t[1] \in Acts

\* The decisions of one namespace, by position.
PromisedDecisions(n) ==
  [ p \in 0 .. MaxSequence - 1 |->
      IF p < Len(decided[n]) THEN Signed(decided[n][p + 1]) ELSE NoRequest ]

\* What the device was told of one namespace.
PromisedTold(n) ==
  { Signed([operation |-> t[1], outcome |-> t[2]]) :
      t \in { t \in told : t[2] \in FinalStatuses /\ NamespaceOf[t[1]] = n } }

\* What was signed is promised as it was signed.
LEMMA PromisedDecisionsStay ==
  ASSUME TypeOK, DecidedInPlace, [Next]_vars, NEW n \in Namespaces, decided'[n] = decided[n]
  PROVE  PromisedDecisions(n)' = PromisedDecisions(n) /\ Len(decided[n])' = Len(decided[n])
<1>0. Len(decided[n]) \in Nat
  BY DEF TypeOK
<1>1. ASSUME NEW p \in 0 .. MaxSequence - 1, p < Len(decided[n])
      PROVE  Signed(decided[n][p + 1])' = Signed(decided[n][p + 1])
  <2>1. p + 1 \in 1 .. Len(decided[n])
    BY <1>0, <1>1
  <2>2. decided[n][p + 1].operation \in Acts
    BY <2>1 DEF DecidedInPlace
  <2> QED BY <2>2, SignedStays DEF Signed
<1> QED BY <1>1 DEF PromisedDecisions

\* What the device was told is told as it was signed.
LEMMA PromisedToldStays ==
  ASSUME TypeOK, ToldAreSigned, [Next]_vars, NEW n \in Namespaces,
         { t \in told' : t[2] \in FinalStatuses /\ NamespaceOf[t[1]] = n }
           = { t \in told : t[2] \in FinalStatuses /\ NamespaceOf[t[1]] = n }
  PROVE  PromisedTold(n)' = PromisedTold(n)
<1>1. ASSUME NEW t \in told
      PROVE  Signed([operation |-> t[1], outcome |-> t[2]])' = Signed([operation |-> t[1], outcome |-> t[2]])
  BY <1>1, SignedStays DEF ToldAreSigned, Signed
<1> QED BY <1>1 DEF PromisedTold

\* The device is told when the entry is removed.
LEMMA ToldSources ==
  ASSUME [Next]_vars
  PROVE  told' = told \/ SettleRemoves
  BY DEF Next, Drain, vars, ghostVars, SignIn, Offer, TakeHead, Post, AnswerDecided, AnswerReplayed, AnswerRefused,
     AnswerConflict, AnswerUnknown, Answer, AbandonedArrives, SettleMarks, AskEdge, EdgeAnswers,
     Crash, ContextEnds, LeaseEnds

\* It is told of what it signed.
LEMMA ToldStep ==
  ASSUME TypeOK, RequestsFaithful, ToldAreSigned, [Next]_vars
  PROVE  ToldAreSigned'
<1>1. ASSUME NEW t \in told' PROVE t[1] \in Acts
  BY <1>1, ToldSources DEF ToldAreSigned, SettleRemoves, RequestsFaithful, Faithful
<1> QED BY <1>1, SignedStays DEF ToldAreSigned

\* Every step is a decision, a report or nothing at all to each namespace.
LEMMA PromiseStep ==
  ASSUME TypeOK, TypeOK', PositionsSpentOnce, RequestsFaithful, DecidedInPlace, VerdictIsDecided, ToldAreSigned,
         [Next]_vars, NEW n \in Namespaces
  PROVE  Promise(n)!Next \/ UNCHANGED Promise(n)!vars
<1>00. decided[n] \in Seq(Decision) /\ Len(decided[n]) \in Nat
  BY DEF TypeOK
<1>p. PICK L \in Nat : L = Len(decided[n])
  BY <1>00
<1>0. decided[n] \in Seq(Decision) /\ L \in Nat /\ L = Len(decided[n])
  BY <1>00, <1>p
<1>1. CASE decided'[n] = decided[n] /\ told' = told
  <2>1. UNCHANGED <<PromisedDecisions(n), Len(decided[n]), PromisedTold(n)>>
    BY <1>1, PromisedDecisionsStay, PromisedToldStays
  <2> QED BY <2>1 DEF Promise!vars, PromisedDecisions, PromisedTold
<1>2. ASSUME NEW r \in Request, NEW outcome \in FinalStatuses, NamespaceOf[r.operation] = n,
             Faithful(r), InTurn(r), Decide(r, outcome), told' = told
      PROVE  Promise(n)!Next
  <2> DEFINE q == [operation |-> r.operation, sequence |-> signed[r.operation]]
             e == [request |-> q, outcome |-> outcome]
  <2>1. /\ Len(decided'[n]) = L + 1
        /\ \A i \in 1 .. L : decided'[n][i] = decided[n][i]
        /\ decided'[n][L + 1] = [operation |-> r.operation, outcome |-> outcome]
    BY <1>0, <1>2, DecideFacts
  <2>2. r.operation \in Acts /\ signed[r.operation] = L /\ signed'[r.operation] = L
    BY <1>0, <1>2, SignedStays DEF Faithful, InTurn, Decisions
  <2>3. L \in 0 .. MaxSequence - 1
    <3>1. L \in 0 .. nextSequence - 1
      BY <2>2 DEF PositionsSpentOnce
    <3> QED BY <3>1, OutboxAssumption DEF TypeOK, OutboxTypeOK
  <2>4. q \in Signature /\ q.sequence = L
    BY <2>2, <2>3, OutboxAssumption DEF Signature, Acts
  <2>5. PromisedTold(n)' = PromisedTold(n)
    BY <1>2, PromisedToldStays
  <2>6. Signed(decided[n][L + 1])' = e
    <3>1. Signed([operation |-> r.operation, outcome |-> outcome])' = e
      BY <2>2 DEF Signed
    <3> QED BY <2>1, <2>2, <3>1 DEF Signed
  <2>7. ASSUME NEW p \in 0 .. MaxSequence - 1, p < L
        PROVE  Signed(decided[n][p + 1])' = Signed(decided[n][p + 1])
    <3>1. p + 1 \in 1 .. L
      BY <1>0, <2>7
    <3>2. decided[n][p + 1].operation \in Acts /\ decided'[n][p + 1] = decided[n][p + 1]
      BY <1>0, <2>1, <3>1 DEF DecidedInPlace
    <3> QED BY <3>2, SignedStays DEF Signed
  <2>8. PromisedDecisions(n)' = [PromisedDecisions(n) EXCEPT ![L] = e]
    <3> SUFFICES ASSUME NEW p \in 0 .. MaxSequence - 1
                 PROVE  PromisedDecisions(n)'[p] = [PromisedDecisions(n) EXCEPT ![L] = e][p]
      BY DEF PromisedDecisions
    <3>1. CASE p < L
      BY <1>0, <2>1, <2>3, <2>7, <3>1 DEF PromisedDecisions
    <3>2. CASE p = L
      BY <1>0, <2>1, <2>3, <2>6, <3>2 DEF PromisedDecisions
    <3>3. CASE p > L
      BY <1>0, <2>1, <2>3, <3>3 DEF PromisedDecisions
    <3> QED BY <1>0, <3>1, <3>2, <3>3
  <2> HIDE DEF q
  <2>9. Promise(n)!Decide(q, outcome)
    BY <1>0, <2>1, <2>3, <2>4, <2>5, <2>8 DEF Promise!Decide, PromisedDecisions, PromisedTold
  <2> QED BY <2>4, <2>9 DEF Promise!Next, Promise!Outcomes, FinalStatuses
<1>3. CASE SettleRemoves
  <2> DEFINE o == current.operation
  <2>1. /\ decided' = decided /\ signed' = signed /\ told' = told \cup {<<o, verdict>>}
        /\ pc = "remove" /\ o \in Acts
    BY <1>3 DEF SettleRemoves, centralVars, RequestsFaithful, Faithful
  <2>2. PromisedDecisions(n)' = PromisedDecisions(n) /\ Len(decided[n])' = L
    BY <1>0, <2>1, PromisedDecisionsStay
  <2>3. CASE verdict \in FinalStatuses /\ NamespaceOf[o] = n
    <3>1. PICK i \in 1 .. L : decided[n][i].operation = o /\ decided[n][i].outcome = verdict
      BY <1>0, <2>1, <2>3 DEF VerdictIsDecided, Decided
    <3>2. signed[o] = i - 1 /\ i - 1 \in 0 .. MaxSequence - 1
      <4>1. signed[o] = i - 1
        BY <1>0, <3>1 DEF DecidedInPlace
      <4>2. signed[o] \in 0 .. nextSequence - 1
        BY <2>1 DEF PositionsSpentOnce
      <4> QED BY <4>1, <4>2, OutboxAssumption DEF TypeOK, OutboxTypeOK
    <3>3. PromisedDecisions(n)[i - 1] = Signed(decided[n][i])
      BY <1>0, <3>1, <3>2 DEF PromisedDecisions
    <3>4. Signed(decided[n][i]) = Signed([operation |-> o, outcome |-> verdict])
      BY <3>1 DEF Signed
    <3>5. PromisedTold(n)' = PromisedTold(n) \cup {PromisedDecisions(n)[i - 1]}
      <4>1. PromisedTold(n)' = PromisedTold(n) \cup {Signed([operation |-> o, outcome |-> verdict])}
        <5> DEFINE heard  == { t \in told : t[2] \in FinalStatuses /\ NamespaceOf[t[1]] = n }
                   row(t) == [request |-> [operation |-> t[1], sequence |-> signed[t[1]]], outcome |-> t[2]]
        <5>1. heard' = heard \cup {<<o, verdict>>}
          BY <2>1, <2>3
        <5>2. PromisedTold(n)' = { row(t) : t \in heard' }
          BY <2>1 DEF PromisedTold, Signed
        <5>3. PromisedTold(n) = { row(t) : t \in heard }
          BY DEF PromisedTold, Signed
        <5>4. Signed([operation |-> o, outcome |-> verdict]) = row(<<o, verdict>>)
          BY DEF Signed
        <5> HIDE DEF heard, row
        <5>5. { row(t) : t \in heard' } = { row(t) : t \in heard } \cup {row(<<o, verdict>>)}
          BY <5>1
        <5> QED BY <5>2, <5>3, <5>4, <5>5
      <4> QED BY <3>3, <3>4, <4>1
    <3>6. PromisedDecisions(n)[i - 1] # NoRequest
      <4>1. Signed(decided[n][i]) \in [request : Signature, outcome : FinalStatuses]
        <5>1. decided[n][i] \in Decision
          BY <1>0
        <5> QED BY <3>1, <3>2, <5>1, OutboxAssumption DEF Signed, Signature, Decision
      <4> QED BY <3>3, <4>1, NoRequestAssumption
    <3>7. Promise(n)!Tell(i - 1)
      BY <1>0, <2>2, <3>5, <3>6 DEF Promise!Tell, PromisedDecisions, PromisedTold
    <3> QED BY <3>2, <3>7 DEF Promise!Next
  <2>4. CASE ~(verdict \in FinalStatuses /\ NamespaceOf[o] = n)
    <3>1. PromisedTold(n)' = PromisedTold(n)
      BY <2>1, <2>4, PromisedToldStays
    <3> QED BY <1>0, <2>2, <3>1 DEF Promise!vars, PromisedDecisions, PromisedTold
  <2> QED BY <2>3, <2>4
<1>4. ASSUME NEW r \in Request, NEW outcome \in FinalStatuses, Decide(r, outcome), told' = told,
             NamespaceOf[r.operation] # n
      PROVE  UNCHANGED Promise(n)!vars
  <2>1. decided'[n] = decided[n]
    BY <1>4, DecideFacts
  <2> QED BY <1>1, <1>4, <2>1, PromisedDecisionsStay, PromisedToldStays DEF Promise!vars, PromisedDecisions, PromisedTold
<1> QED BY <1>1, <1>2, <1>3, <1>4, CentralMove, ToldSources

---------------------------------------------------------------------------
(* The witness.                                                            *)

\* A step leaves the witness of an entry as it is, unless it is the first.
LEMMA WitnessStays ==
  ASSUME TypeOK, HeadInHand, [Next]_vars, NEW o \in Held, entries'[o] # NoEntry, entries[o].witness # NoWitness
  PROVE  entries'[o].witness = entries[o].witness
<1>0. OutboxTypeOK
  BY DEF TypeOK
<1>a. \A p \in Held : entries[p] \in Entry /\ p \in Operations
  BY <1>0, HeldEntry
<1>1. ASSUME NEW p \in Operations, NEW change, Mutate(p, change),
             p \in Held => change.witness = entries[p].witness
      PROVE  entries'[o].witness = entries[o].witness
  BY <1>0, <1>1 DEF Mutate, Held, OutboxTypeOK
<1>2. ASSUME NEW p \in Operations, TakeHead(p) PROVE entries'[o].witness = entries[o].witness
  BY <1>1, <1>2, <1>a DEF TakeHead, MarkAttempt, Entry
<1>3. CASE SettleMarks
  <2>1. current.operation \in Operations
    BY <1>3 DEF SettleMarks, TypeOK, Request
  <2> QED BY <1>1, <1>3, <1>a, <2>1 DEF SettleMarks, MarkTerminal, Entry
<1>4. CASE SettleRemoves
  BY <1>4 DEF SettleRemoves, Remove, TypeOK, OutboxTypeOK, Held
<1>5. ASSUME NEW p \in Operations, Offer(p) PROVE entries'[o].witness = entries[o].witness
  BY <1>0, <1>5, OfferFacts
<1>6. CASE UNCHANGED outboxVars
  BY <1>6 DEF outboxVars
<1>7. ASSUME NEW a \in Askers, EdgeAnswers(a) PROVE entries'[o].witness = entries[o].witness
  <2>1. asking[a] \in Operations
    BY <1>7 DEF EdgeAnswers, TypeOK
  <2>2. CASE UNCHANGED outboxVars
    BY <2>2 DEF outboxVars
  <2>3. ASSUME NEW i \in Instants, RecordEdgeReceipt(asking[a], i), asking[a] \in Held,
               entries[asking[a]].witness = NoWitness
        PROVE  entries'[o].witness = entries[o].witness
    BY <1>0, <2>1, <2>3 DEF RecordEdgeReceipt, Mutate, Held, OutboxTypeOK
  <2> QED BY <1>7, <2>2, <2>3 DEF EdgeAnswers, RecordEdgeReceipt
<1> QED
  BY <1>2, <1>3, <1>4, <1>5, <1>6, <1>7 DEF Next, Drain, vars, SignIn, Post, AnswerDecided, AnswerReplayed, AnswerRefused,
     AnswerConflict, AnswerUnknown, Answer, AbandonedArrives, AskEdge, Crash, ContextEnds, LeaseEnds

---------------------------------------------------------------------------
(* The theorems.                                                           *)

\* The inductive invariant.
IInv ==
  /\ TypeOK /\ QueueInv /\ OnlyHeadsSent /\ AttemptsAreWritten /\ AttemptPending
  /\ RequestsFaithful /\ DecidedInPlace /\ VerdictIsDecided /\ ToldAreSigned

\* The invariant holds at first.
LEMMA InductiveInit == Init => IInv
<1> SUFFICES ASSUME Init PROVE IInv
  OBVIOUS
<1>1. TypeOK /\ QueueInv
  BY InitTypeOK, QueueInit
<1>2. OnlyHeadsSent
  <2>1. \A o \in Operations : ~IsSent(o)
    BY DrainAssumption DEF Init, IsSent, IsDecided, Decided
  <2> QED BY <2>1 DEF OnlyHeadsSent
<1>3. AttemptsAreWritten /\ AttemptPending
  BY DEF Init, OutboxInit, Held, AttemptsAreWritten, AttemptPending
<1>4. RequestsFaithful /\ DecidedInPlace /\ VerdictIsDecided /\ ToldAreSigned
  BY DEF Init, RequestsFaithful, DecidedInPlace, VerdictIsDecided, ToldAreSigned
<1> QED BY <1>1, <1>2, <1>3, <1>4 DEF IInv

\* Every step keeps the invariant.
LEMMA InductiveStep == IInv /\ [Next]_vars => IInv'
<1> SUFFICES ASSUME IInv, [Next]_vars PROVE IInv'
  OBVIOUS
<1>1. TypeOK'
  BY TypeStep DEF IInv
<1>2. QueueInv' /\ OnlyHeadsSent' /\ (AttemptsAreWritten /\ AttemptPending)'
  BY <1>1, QueueStep, SentStep, AttemptStep DEF IInv
<1>3. RequestsFaithful' /\ DecidedInPlace' /\ VerdictIsDecided' /\ ToldAreSigned'
  BY <1>1, RequestsStep, PlacesStep, VerdictStep, ToldStep DEF IInv, QueueInv
<1> QED BY <1>1, <1>2, <1>3 DEF IInv

\* The invariant of every theorem below.
LEMMA Inductive == Spec => []IInv
  BY InductiveInit, InductiveStep, PTL DEF Spec

\* The document of the outbox is always one that load() accepts, and everything
\* else is what the code would have it (OfflineOutbox.load and persist).
THEOREM TypeCorrect == Spec => []TypeOK
<1>1. IInv => TypeOK
  BY DEF IInv
<1> QED BY <1>1, Inductive, PTL

\* Positions are signed once, without gaps, through removals and crashes
\* (OfflineOutbox.enqueue).
THEOREM PositionsSpentOnceHolds == Spec => []PositionsSpentOnce
<1>1. IInv => PositionsSpentOnce
  BY DEF IInv, QueueInv
<1> QED BY <1>1, Inductive, PTL

\* The queue is settled from its front (OfflineOutbox.peekNext, settleInOutbox).
THEOREM SettledInOrderHolds == Spec => []SettledInOrder
<1>1. IInv => SettledInOrder
  BY DEF IInv, QueueInv
<1> QED BY <1>1, Inductive, PTL

\* Whatever arrives late, central is at most one decision ahead of what the
\* device has settled (OfflineSubmission.submitNext, SentinelHttp.post).
THEOREM OneDecisionBehindHolds == Spec => []OneDecisionBehind
<1>1. IInv => OneDecisionBehind
  BY SentGivesOneBehind DEF IInv, QueueInv
<1> QED BY <1>1, Inductive, PTL

\* No request is on the wire whose attempt is not on disk
\* (OfflineSubmission.submit).
THEOREM AttemptsAreWrittenHolds == Spec => []AttemptsAreWritten
<1>1. IInv => AttemptsAreWritten
  BY DEF IInv
<1> QED BY <1>1, Inductive, PTL

\* The first Edge to see an operation is the one whose time it carries, through
\* overlapping exchanges and crashes (OfflineOutbox.recordEdgeReceipt).
THEOREM WitnessIsKeptHolds == Spec => WitnessIsKept
<1>1. IInv /\ [Next]_vars =>
        \A o \in Held : entries'[o] # NoEntry /\ entries[o].witness # NoWitness =>
          entries'[o].witness = entries[o].witness
  BY WitnessStays DEF IInv, QueueInv
<1> QED BY <1>1, Inductive, PTL DEF Spec, WitnessIsKept

\* The oldest undecided operation is the one central expects, as long as one
\* operative at one site uses the device (OfflineOutbox, one counter per device;
\* field-offline, one cursor per operative and site).
THEOREM HeadIsExpectedHolds ==
  ASSUME \A o, p \in Operations : NamespaceOf[o] = NamespaceOf[p]
  PROVE  Spec => []HeadIsExpected
<1>1. IInv => HeadIsExpected
  BY PlacesGiveExpected DEF IInv, QueueInv
<1> QED BY <1>1, Inductive, PTL

\* Whoever signs in, whatever closes, ends, crashes or arrives late, the device
\* gives up nothing that is neither decided nor refused at that moment
\* (OfflineSubmission.settle).
THEOREM GivenUpOnlyIfRefusedHolds == Spec => GivenUpOnlyIfRefused
<1> DEFINE J == IInv /\ EverEstablished /\ VerdictIsRefusal
<1>1. Init => J
  <2> SUFFICES ASSUME Init PROVE J
    OBVIOUS
  <2>1. EverEstablished /\ VerdictIsRefusal
    BY DEF Init, OutboxInit, Held, EverEstablished, VerdictIsRefusal
  <2> QED BY <2>1, InductiveInit
<1>2. J /\ [Next]_vars => J'
  <2> SUFFICES ASSUME J, [Next]_vars PROVE J'
    OBVIOUS
  <2>1. IInv'
    BY InductiveStep
  <2>2. EverEstablished' /\ VerdictIsRefusal'
    BY EstablishedStep, RefusalStep DEF IInv, QueueInv
  <2> QED BY <2>1, <2>2
<1>3. J /\ [Next]_vars =>
        \A o \in Queued : o \notin Queued' => IsDecided(o) \/ (current.operation = o /\ Refused(current))
  BY SettledStep DEF IInv
<1> QED BY <1>1, <1>2, <1>3, PTL DEF Spec, GivenUpOnlyIfRefused

\* Central, as the drain meets it, decides positions one after another and for
\* good, and the device is told nothing but what was decided of the operation it
\* signed (field-offline.service.ts, OfflineSubmission.settle).
THEOREM CentralKeepsPromiseHolds == Spec => CentralKeepsPromise
<1>1. Init => \A n \in Namespaces : Promise(n)!Init
  <2> SUFFICES ASSUME Init, NEW n \in Namespaces PROVE Promise(n)!Init
    OBVIOUS
  <2>1. decided[n] = << >> /\ Len(decided[n]) = 0 /\ told = {}
    BY DEF Init
  <2> QED BY <2>1 DEF Promise!Init
<1>2. IInv /\ IInv' /\ [Next]_vars => \A n \in Namespaces : Promise(n)!Next \/ UNCHANGED Promise(n)!vars
  BY PromiseStep DEF IInv, QueueInv
<1> QED BY <1>1, <1>2, Inductive, PTL DEF Spec, CentralKeepsPromise

=============================================================================
