---------------------------- MODULE DeviceDrain ----------------------------
(***************************************************************************)
(* A field device and central: the outbox, the one drain that empties it   *)
(* through the device gateway (net/OfflineSubmission.kt), the Edge asked   *)
(* for a witness on the way (net/EdgeSubmission.kt), the gateway ingress   *)
(* (device-offline-ingress.service.ts) and, behind it, the replay executor *)
(* reduced to what OfflineReplay is shown to promise: the positions of a   *)
(* namespace decided in order, each once.                                  *)
(*                                                                         *)
(* Requests overlap with sign-in, new operations, the Edge, and with older *)
(* requests whose connection the device has given up.  The application     *)
(* dies, the link fails, contexts are closed and leases end.               *)
(***************************************************************************)
EXTENDS DeviceOutbox, Sequences

CONSTANTS
  Namespaces,     \* an operative at a site, as central keeps cursors
  NamespaceOf,    \* [Operations -> Namespaces]
  HolderOf,       \* [Contexts -> Namespaces]
  Askers,         \* overlapping exchanges with the Edge
  NoOne, NoLease, NoRequest,
  StatusMember,   \* the member of a 2xx body that carries the receipt's status
  Endings,        \* what may end under way: "context", "lease"
  MaxFaults       \* bound on the faults of a behaviour

ASSUME DrainAssumption ==
  /\ NamespaceOf \in [Operations -> Namespaces]
  /\ HolderOf \in [Contexts -> Namespaces]
  /\ StatusMember \in {"submission", "receipt", "status"}
  /\ Endings \subseteq {"context", "lease"}
  /\ MaxFaults \in Nat

Request == [ operation : Operations, sequence : 0 .. MaxSequence,
             lease : Contexts, context : Contexts ]

FinalStatuses == {"APPLIED", "REJECTED"}

Decision == [operation : Operations, outcome : FinalStatuses]

Signature == [operation : Operations, sequence : 0 .. MaxSequence]

ASSUME NoRequestAssumption ==
  /\ NoRequest \notin Request
  /\ NoRequest \notin [request : Signature, outcome : FinalStatuses]

VARIABLES
  shift,      \* the context the application holds
  cached,     \* the lease it has cached
  pc,         \* where the drain stands in submit() and settle()
  current,    \* the request it makes
  verdict,    \* the result it is about to return
  asking,     \* [Askers -> Operations \cup {NoOne}]
  abandoned,  \* requests given up by the device that may still arrive
  established, \* contexts ever established
  usable,     \* contexts that are open at central
  inForce,    \* leases that are in force at central
  decided,    \* [Namespaces -> Seq(Decision)]
  signed,     \* the position each operation was ever given
  sends,      \* how often each was handed to the transport
  told,       \* what the application was told about each
  faults

phoneVars == <<shift, cached, pc, current, verdict, asking>>
centralVars == <<established, usable, inForce, decided>>
ghostVars == <<signed, sends, told>>
vars == <<outboxVars, phoneVars, abandoned, centralVars, ghostVars, faults>>

Unsigned == -1

Fault == faults < MaxFaults /\ faults' = faults + 1

---------------------------------------------------------------------------
(* The operative.                                                          *)

\* A context is established and a lease comes with it, or none does.  The
\* contexts before it stay open at central.
SignIn(c) ==
  /\ c \notin established
  /\ established' = established \cup {c}
  /\ usable' = usable \cup {c}
  /\ shift' = c
  /\ \/ inForce' = inForce \cup {c} /\ cached' = c
     \/ cached' = NoLease /\ UNCHANGED inForce
  /\ UNCHANGED <<outboxVars, pc, current, verdict, asking, abandoned, decided, ghostVars, faults>>

\* OfflineQueueAdmission.offer: the cached lease must be this operative's.
\* Whether it is still in force the device can only guess from its own clock.
Offer(o) ==
  /\ signed[o] = Unsigned
  /\ shift # NoOne /\ HolderOf[shift] = NamespaceOf[o]
  /\ cached # NoLease /\ HolderOf[cached] = NamespaceOf[o]
  /\ Enqueue(o, cached)
  /\ signed' = [signed EXCEPT ![o] = AllocatedSequence]
  /\ UNCHANGED <<phoneVars, abandoned, centralVars, sends, told, faults>>

---------------------------------------------------------------------------
(* The drain: one crossing per call, the attempt written before it.        *)

TakeHead(o) ==
  /\ pc = "idle" /\ shift # NoOne
  /\ o \in PeekNext
  /\ MarkAttempt(o)
  /\ pc' = "post"
  /\ current' = [ operation |-> o, sequence |-> entries[o].sequence,
                  lease |-> entries[o].lease, context |-> shift ]
  /\ UNCHANGED <<shift, cached, verdict, asking, abandoned, centralVars, ghostVars, faults>>

Post ==
  /\ pc = "post"
  /\ pc' = "await"
  /\ sends' = [sends EXCEPT ![current.operation] = IF @ < AttemptCap THEN @ + 1 ELSE @]
  /\ UNCHANGED <<outboxVars, shift, cached, current, verdict, asking, abandoned,
                 centralVars, signed, told, faults>>

DrainEnds == pc' = "idle" /\ current' = NoRequest /\ verdict' = "none"

---------------------------------------------------------------------------
(* Central.                                                                *)

\* Refused with a 403 before the executor is asked: the context is closed, the
\* operation is not this context's, or its lease is over.
Refused(r) ==
  \/ r.context \notin usable
  \/ HolderOf[r.context] # NamespaceOf[r.operation]
  \/ r.lease \notin inForce

Decisions(r) == decided[NamespaceOf[r.operation]]

\* Slip: an operation ahead of the cursor is taken as well.
InTurnOrAhead(r) == r.sequence >= Len(Decisions(r))

InTurn(r) == r.sequence = Len(Decisions(r))

Replayed(r) == r.sequence < Len(Decisions(r)) /\ Decisions(r)[r.sequence + 1].operation = r.operation

Decide(r, outcome) ==
  decided' = [decided EXCEPT ![NamespaceOf[r.operation]] =
                Append(@, [operation |-> r.operation, outcome |-> outcome])]

\* What the application reads in a 2xx body: the status of a member named
\* receipt, or of the body itself.
ReceiptStatusReadable == StatusMember \in {"receipt", "status"}

---------------------------------------------------------------------------
(* Answers, and what settle() makes of them.                               *)

SettleWith(outcome) ==
  pc' = "mark" /\ verdict' = outcome /\ UNCHANGED current

\* Slip: whatever a 2xx says, the operation is done.
SettleAnySuccess(outcome) ==
  IF outcome # "unknown" THEN SettleWith(outcome) ELSE DrainEnds

\* Settled: a final status that can be read, or a 4xx other than 409.  All else
\* is completion unknown and leaves the entry where it is.
Settle(outcome) ==
  IF outcome = "refused" \/ (outcome \in FinalStatuses /\ ReceiptStatusReadable)
    THEN SettleWith(outcome)
    ELSE DrainEnds

Answer(outcome) ==
  /\ Settle(outcome)
  /\ UNCHANGED <<outboxVars, shift, cached, asking, abandoned, established, usable, inForce, ghostVars>>

AnswerDecided ==
  /\ pc = "await" /\ ~Refused(current) /\ InTurn(current)
  /\ \E outcome \in FinalStatuses : Decide(current, outcome) /\ Answer(outcome)
  /\ UNCHANGED faults

AnswerReplayed ==
  /\ pc = "await" /\ ~Refused(current) /\ Replayed(current)
  /\ Answer(Decisions(current)[current.sequence + 1].outcome)
  /\ UNCHANGED <<decided, faults>>

AnswerRefused ==
  /\ pc = "await" /\ Refused(current)
  /\ Answer("refused")
  /\ UNCHANGED <<decided, faults>>

\* A gap, a reused or a stale position: a 2xx that names a conflict.
AnswerConflict ==
  /\ pc = "await" /\ ~Refused(current) /\ ~InTurn(current) /\ ~Replayed(current)
  /\ Answer("conflict")
  /\ UNCHANGED <<decided, faults>>

\* A 5xx, a 409 or a lost answer, or a 2xx that says the outcome is not known
\* yet, with central's decision made or not; or a connection given up with the
\* request under way.
AnswerUnknown ==
  /\ pc = "await" /\ Fault
  /\ \E outcome \in {"conflict", "unknown"} : Settle(outcome)
  /\ \/ ~Refused(current) /\ InTurn(current) /\ UNCHANGED abandoned
        /\ \E outcome \in FinalStatuses : Decide(current, outcome)
     \/ UNCHANGED <<decided, abandoned>>
     \/ abandoned' = abandoned \cup {current} /\ UNCHANGED decided
  /\ UNCHANGED <<outboxVars, shift, cached, asking, established, usable, inForce, ghostVars>>

\* A request nobody waits for any more.
AbandonedArrives(r) ==
  /\ abandoned' = abandoned \ {r}
  /\ IF ~Refused(r) /\ InTurn(r)
       THEN \E outcome \in FinalStatuses : Decide(r, outcome)
       ELSE UNCHANGED decided
  /\ UNCHANGED <<outboxVars, phoneVars, established, usable, inForce, ghostVars, faults>>

\* settleInOutbox: two writes.
SettleMarks ==
  /\ pc = "mark"
  /\ MarkTerminal(current.operation)
  /\ pc' = "remove"
  /\ UNCHANGED <<shift, cached, current, verdict, asking, abandoned, centralVars, ghostVars, faults>>

SettleRemoves ==
  /\ pc = "remove"
  /\ Remove(current.operation)
  /\ told' = told \cup {<<current.operation, verdict>>}
  /\ DrainEnds
  /\ UNCHANGED <<shift, cached, asking, abandoned, centralVars, signed, sends, faults>>

---------------------------------------------------------------------------
(* The Edge, and what goes wrong.                                          *)

AskEdge(a, o) ==
  /\ asking[a] = NoOne
  /\ o \in PeekNext /\ entries[o].witness = NoWitness
  /\ asking' = [asking EXCEPT ![a] = o]
  /\ UNCHANGED <<outboxVars, shift, cached, pc, current, verdict, abandoned,
                 centralVars, ghostVars, faults>>

\* A receipt about this very envelope, or nothing that can be used as one.
EdgeAnswers(a) ==
  /\ asking[a] # NoOne
  /\ \/ \E t \in Instants : RecordEdgeReceipt(asking[a], t)
     \/ UNCHANGED outboxVars
  /\ asking' = [asking EXCEPT ![a] = NoOne]
  /\ UNCHANGED <<shift, cached, pc, current, verdict, abandoned, centralVars, ghostVars, faults>>

\* The application dies, or a write to the document throws.  What had been
\* posted may still arrive.
Crash ==
  /\ pc # "idle" /\ Fault
  /\ \/ pc = "await" /\ abandoned' = abandoned \cup {current}
     \/ UNCHANGED abandoned
  /\ DrainEnds
  /\ asking' = [a \in Askers |-> NoOne]
  /\ UNCHANGED <<outboxVars, shift, cached, centralVars, ghostVars>>

ContextEnds(c) ==
  /\ "context" \in Endings
  /\ c \in usable /\ usable' = usable \ {c}
  /\ UNCHANGED <<outboxVars, phoneVars, abandoned, established, inForce, decided, ghostVars, faults>>

LeaseEnds(c) ==
  /\ "lease" \in Endings
  /\ c \in inForce /\ inForce' = inForce \ {c}
  /\ UNCHANGED <<outboxVars, phoneVars, abandoned, established, usable, decided, ghostVars, faults>>

---------------------------------------------------------------------------

Init ==
  /\ OutboxInit
  /\ shift = NoOne /\ cached = NoLease
  /\ pc = "idle" /\ current = NoRequest /\ verdict = "none"
  /\ asking = [a \in Askers |-> NoOne]
  /\ abandoned = {}
  /\ established = {} /\ usable = {} /\ inForce = {}
  /\ decided = [n \in Namespaces |-> <<>>]
  /\ signed = [o \in Operations |-> Unsigned]
  /\ sends = [o \in Operations |-> 0]
  /\ told = {}
  /\ faults = 0

Drain ==
  \/ \E o \in Operations : TakeHead(o)
  \/ Post
  \/ AnswerDecided \/ AnswerReplayed \/ AnswerRefused \/ AnswerConflict
  \/ SettleMarks \/ SettleRemoves

Next ==
  \/ \E c \in Contexts : SignIn(c) \/ ContextEnds(c) \/ LeaseEnds(c)
  \/ \E o \in Operations : Offer(o)
  \/ Drain \/ AnswerUnknown \/ Crash
  \/ \E r \in abandoned : AbandonedArrives(r)
  \/ \E a \in Askers : EdgeAnswers(a) \/ \E o \in Operations : AskEdge(a, o)

Spec == Init /\ [][Next]_vars

\* The driver keeps draining while the operative is signed in.
FairSpec == Spec /\ WF_vars(Drain)

---------------------------------------------------------------------------
(* Properties.                                                             *)

TypeOK ==
  /\ OutboxTypeOK
  /\ shift \in Contexts \cup {NoOne}
  /\ cached \in Contexts \cup {NoLease}
  /\ pc \in {"idle", "post", "await", "mark", "remove"}
  /\ current \in Request \cup {NoRequest}
  /\ pc # "idle" => current \in Request
  /\ verdict \in FinalStatuses \cup {"none", "refused"}
  /\ pc \in {"mark", "remove"} => verdict # "none"
  /\ asking \in [Askers -> Operations \cup {NoOne}]
  /\ abandoned \subseteq Request
  /\ established \subseteq Contexts
  /\ usable \subseteq established /\ inForce \subseteq established
  /\ decided \in [Namespaces -> Seq(Decision)]
  /\ signed \in [Operations -> {Unsigned} \cup 0 .. MaxSequence]
  /\ sends \in [Operations -> 0 .. AttemptCap]
  /\ told \subseteq Operations \X (FinalStatuses \cup {"refused"})
  /\ faults \in 0 .. MaxFaults

Acts == { o \in Operations : signed[o] # Unsigned }

Decided(o, outcomes) ==
  \E i \in 1 .. Len(decided[NamespaceOf[o]]) :
    /\ decided[NamespaceOf[o]][i].operation = o
    /\ decided[NamespaceOf[o]][i].outcome \in outcomes

IsDecided(o) == Decided(o, FinalStatuses)

\* The positions ever signed are 0, 1, ..., one operation each, whatever was
\* settled, removed or interrupted in between (OfflineOutbox: contiguous,
\* never reset, never burnt).
PositionsSpentOnce ==
  /\ { signed[o] : o \in Acts } = 0 .. nextSequence - 1
  /\ \A o, p \in Acts : signed[o] = signed[p] => o = p
  /\ \A o \in Held : entries[o].sequence = signed[o]

\* What is settled is always a prefix of what was signed: no operation is given
\* up or finished before one that was queued earlier.
SettledInOrder ==
  \A o \in Queued, p \in Acts : signed[p] > signed[o] => p \in Queued

\* The device never runs more than one decision behind central: at most one
\* operation is decided and still queued.
OneDecisionBehind == \A o, p \in Queued : IsDecided(o) /\ IsDecided(p) => o = p

\* No request is invisible to the backoff: an attempt is on disk before the
\* request is on the wire.
AttemptsAreWritten == \A o \in Held : sends[o] <= entries[o].attempts

\* The first Edge to see an operation is the one whose time it carries.
WitnessIsKept ==
  [][ \A o \in Held : entries'[o] # NoEntry /\ entries[o].witness # NoWitness =>
        entries'[o].witness = entries[o].witness ]_vars

\* An operation that leaves the queue undecided, for whose position central's
\* cursor goes on waiting, was refused: the request the device is settling named
\* it under a context that is closed or another operative's, or under a lease
\* that is over (OfflineSubmission.kt 216-220: a 4xx other than 409 is
\* authoritative, and "the position is spent either way").
GivenUpOnlyIfRefused ==
  [][ \A o \in Queued : o \notin Queued' =>
        IsDecided(o) \/ (current.operation = o /\ Refused(current)) ]_vars

\* The oldest operation of a namespace that central has not decided is at the
\* position central expects (OfflineOutbox: contiguous per device).
HeadIsExpected ==
  \A o \in Queued :
    (~IsDecided(o) /\ \A p \in Acts : NamespaceOf[p] = NamespaceOf[o] /\ signed[p] < signed[o]
                                        => IsDecided(p))
      => signed[o] = Len(decided[NamespaceOf[o]])

\* Central, as this module has it, keeps the promise that OfflineReplay is shown
\* to implement, and the device is told nothing but what was decided.
Signed(d) == [ request |-> [operation |-> d.operation, sequence |-> signed[d.operation]],
               outcome |-> d.outcome ]

Promise(n) == INSTANCE OrderedDecisions WITH
  Positions  <- 0 .. MaxSequence - 1,
  Operations <- Signature,
  Undecided  <- NoRequest,
  decided    <- [ p \in 0 .. MaxSequence - 1 |->
                    IF p < Len(decided[n]) THEN Signed(decided[n][p + 1]) ELSE NoRequest ],
  next       <- Len(decided[n]),
  told       <- { Signed([operation |-> t[1], outcome |-> t[2]]) :
                    t \in { t \in told : t[2] \in FinalStatuses /\ NamespaceOf[t[1]] = n } }

CentralKeepsPromise ==
  /\ \A n \in Namespaces : Promise(n)!Init
  /\ [][ \A n \in Namespaces : Promise(n)!Next \/ UNCHANGED Promise(n)!vars ]_vars

\* Whatever is queued while the operative stays signed in is settled.
QueuedIsSettled == \A o \in Operations : (o \in Queued) ~> (o \notin Queued)

=============================================================================
