---------------------------- MODULE DeviceOutbox ----------------------------
(***************************************************************************)
(* The durable outbox of the field application (field-mobile-android,      *)
(* store/OfflineOutbox.kt): the operations an operative performed offline, *)
(* in the order of their device sequence.                                  *)
(*                                                                         *)
(* One document holds the entries and the next sequence.  Every call reads *)
(* it, computes the next one and replaces it by an atomic rename, so a     *)
(* call either happens or throws and changes nothing; each is one operator *)
(* here.  The class takes no lock: calls are assumed not to overlap.       *)
(***************************************************************************)
EXTENDS Integers, FiniteSets

CONSTANTS
  Operations,   \* what the operative does; each has its own operation id
  Contexts,     \* device contexts; each brings the policy lease of its name
  Instants,     \* Edge trusted times
  NoEntry,      \* the document holds no entry for the operation
  NoWitness,    \* the entry carries no Edge receipt
  MaxDepth,     \* DEFAULT_MAX_DEPTH
  MaxSequence,  \* MAX_DEVICE_SEQUENCE
  AttemptCap    \* attempts are counted up to here

ASSUME OutboxAssumption ==
  /\ MaxDepth \in Nat /\ MaxSequence \in Nat /\ AttemptCap \in Nat
  /\ IsFiniteSet(Operations)

EntryStates == {"QUEUED", "TERMINAL"}

Entry == [ sequence : 0 .. MaxSequence, lease : Contexts, state : EntryStates,
           attempts : 0 .. AttemptCap, witness : Instants \cup {NoWitness} ]

ASSUME NoEntryAssumption == NoEntry \notin Entry

VARIABLES
  nextSequence,  \* next_device_sequence
  entries        \* [Operations -> Entry \cup {NoEntry}]

outboxVars == <<nextSequence, entries>>

Held == { o \in Operations : entries[o] # NoEntry }

Queued == { o \in Held : entries[o].state = "QUEUED" }

OutboxInit ==
  /\ nextSequence = 0
  /\ entries = [o \in Operations |-> NoEntry]

---------------------------------------------------------------------------

\* Slip: any unsettled entry.
AnyQueued == Queued

\* The oldest entry the server has not settled: none or one.
PeekNext == { o \in Queued : \A p \in Queued : entries[o].sequence <= entries[p].sequence }

\* Slip: the counter derived from the entries that are left.
DerivedSequence ==
  IF Held = {} THEN 0
  ELSE 1 + CHOOSE s \in 0 .. MaxSequence :
             /\ \E o \in Held : entries[o].sequence = s
             /\ \A o \in Held : entries[o].sequence <= s

AllocatedSequence == nextSequence

\* Every refusal (duplicate id, full, exhausted) precedes the draw.
MayEnqueue(o) ==
  /\ entries[o] = NoEntry
  /\ Cardinality(Held) < MaxDepth
  /\ AllocatedSequence < MaxSequence

Enqueue(o, lease) ==
  /\ MayEnqueue(o)
  /\ nextSequence' = AllocatedSequence + 1
  /\ entries' = [entries EXCEPT ![o] =
                   [ sequence |-> AllocatedSequence, lease |-> lease, state |-> "QUEUED",
                     attempts |-> 0, witness |-> NoWitness ]]

\* mutate: one entry rewritten, nothing at all if it is gone.
Mutate(o, change) ==
  /\ entries' = IF o \in Held THEN [entries EXCEPT ![o] = change] ELSE entries
  /\ UNCHANGED nextSequence

\* Slip: the attempt is not written down.
MarkNothing(o) == UNCHANGED outboxVars

MarkAttempt(o) ==
  Mutate(o, [entries[o] EXCEPT !.attempts = IF @ < AttemptCap THEN @ + 1 ELSE @])

\* Slip: the newest witness replaces the first.
RecordLatestReceipt(o, instant) == Mutate(o, [entries[o] EXCEPT !.witness = instant])

RecordEdgeReceipt(o, instant) ==
  IF o \in Held /\ entries[o].witness = NoWitness
    THEN Mutate(o, [entries[o] EXCEPT !.witness = instant])
    ELSE UNCHANGED outboxVars

MarkTerminal(o) == Mutate(o, [entries[o] EXCEPT !.state = "TERMINAL"])

\* Slip: the position is given back.
RemoveRewinding(o) ==
  /\ entries' = [entries EXCEPT ![o] = NoEntry]
  /\ nextSequence' = IF o \in Held THEN entries[o].sequence ELSE nextSequence

\* The counter is not rewound.
Remove(o) ==
  /\ entries' = [entries EXCEPT ![o] = NoEntry]
  /\ UNCHANGED nextSequence

---------------------------------------------------------------------------

\* What load() checks on the way in and persist() on the way out: an entry at
\* or beyond the counter makes the whole document unreadable.
OutboxTypeOK ==
  /\ nextSequence \in 0 .. MaxSequence
  /\ entries \in [Operations -> Entry \cup {NoEntry}]
  /\ \A o \in Held : entries[o].sequence < nextSequence

=============================================================================
