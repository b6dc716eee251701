# SENTINEL-A: specifications of its protocols

SENTINEL-A is a security operations platform: a central service (`core-api`),
Edge boxes on the sites (`edge-runtime`), a mobile application for the field
(`field-mobile-android`) and shared contracts. Its hardest promise is the one it
makes to an operative who works without a network: *what you did offline is
applied later, once, in the order you did it, and you are told the truth about
it.* Around it stand the promises it needs: only an enrolled device may act, a
statement takes effect once and under an authority that still holds, an Edge's
witness is trusted only while its registration is, an incident follows what the
events said, and nothing silent is dispatched without two people. These
specifications follow those promises through the code. They are written from the
source; each definition that stands for code is listed in `PROJECT.json` under
`map` with the lines it translates.

## The system

| part | state it keeps | operations | interacts with |
|---|---|---|---|
| Field application (Android) | durable outbox: entries, next device sequence | enqueue, submit the head, record an Edge receipt, settle, remove | hands operations to an Edge, replays them to the device gateway |
| Edge queue (`edge-runtime/modules/queue`) | SQLite table of operations, counter row, durable clock | admit, heads, claim, record an answer or a failure, settle, prune, recover on opening | fed by devices, read by the forwarder |
| Edge forwarder and trusted time | request in flight; time anchor | forward evidence, read back a standing; admit, store and use an anchor | Edge gateway at central |
| Edge gateway, registry, trusted time (`core-api`) | receipt observations, Edge keys and authorities, anchors | authenticate, witness, standing, enrol, prove, activate, withdraw | reads the receipts of the replay executor |
| Device gateway | contexts, policy leases, consumed nonces | establish, execute, offline ingress | SHIELD for keys, field and field-offline for effects |
| SHIELD, enrolment ingress | enrolment requests, grants, keys, trust | enrol, approve, prove, commit, rotate, change trust, dispose | device gateway |
| Offline replay executor (`field-offline`) | cursor and receipts per namespace | admit, claim, probe, execute, finalise, mark unknown | field, field-messaging |
| Field, field messaging | assignments, messages, recipients, evidence rows, outbox | transition, send, deliver, acknowledge | realtime, outbox publishers |
| Events, fusion, incidents | canonical events, hypotheses, incidents, tasks, outboxes | ingest, apply, latch a candidate, open, update, acknowledge, close | NATS streams, evidence, constitution, ledger |
| Evidence store | objects, evidence rows, custody entries | preserve a snapshot, derive, verify | incidents |
| WHISPER | signal versions, recognition receipts | publish, edit, activate, recognise, approve | incidents, device gateway |
| Patrol | routes, runs, checkpoints | publish, schedule, start, verify, abandon, sweep | field assignments, realtime |
| Constitution, ledger | policies, the version each process has loaded; hash chain | seed, evaluate, append, activate, reload | every part that asks for a decision |

What is hard, and what makes the parts correct:

* **Concurrency without a process-wide lock.** Requests overlap, in one server
  or in several. Only database rows order them: row locks taken one at a time,
  compare-and-set on a version or a status, unique keys, an advisory lock, and
  at the replay executor and WHISPER a lease with a fencing generation. Correct
  means: an effect is committed at most once, a decision is final, and everybody
  is told what was decided about exactly what they asked.
* **A judgement and its use in different transactions.** Most operations read
  first and write later; what they read may be gone by then. Correct means that
  the write compares what it rests on, or that nothing depends on it.
* **Failure between two transactions.** Effects and the records of them are
  often committed separately. A worker can die in between, or outlive its lease.
* **Links that lose, repeat and delay**, brokers that redeliver, an Edge that is
  switched off, and clocks that do not survive it.
* **Bounds**: capacity, retention, position space, batch sizes, delivery counts.

Every exposure found is listed in `PROJECT.json` under `hazards`, at its line,
with the properties that watch over it or the reason why none does.

## Modules

| component modules | what they model |
|---|---|
| `FieldDomain` | the owning domains as the executor sees them: assignment life cycle, message delivery, evidence rows |
| `OfflineReplay` | the replay executor of one namespace, any number of concurrent workers; extends `FieldDomain` |
| `OrderedDecisions` | the abstract promise to the device; `OfflineReplay` and `DeviceDrain` implement it |
| `EdgeQueue`, `EdgeForwarding` | the calls of the Edge's SQLite store; the Edge's callers, the link, crashes and central's decisions |
| `EdgeCustody` | the abstract promise of custody; `EdgeForwarding` implements it |
| `DeviceOutbox`, `DeviceDrain` | the calls of the Android outbox; the handset that fills and drains it, the Edge it asks for a witness, the ingress, central's decisions |
| `DeviceEnrolment`, `DeviceCredential`, `DeviceIdentity` | the enrolment ceremony; the trust, keys and rotations of the device it made; both composed |
| `CredentialPromise` | the abstract promise about a credential; `DeviceIdentity` implements it |
| `DeviceGateway` | establishment, live execution and offline ingress, with the row locks of each transaction |
| `FieldMessages` | one message from its send to the recipient's receipt, over the outbox, NATS and sockets |
| `WhisperSignal`, `WhisperResponse` | the versions of a signal family; a recognition, its silent incident and the dispatch two commanders approve |
| `ProofA` | one incident row and its playbook as functions, shared by `WhisperResponse` and `IncidentResponse` |
| `ThreatState`, `ThreatFusion`, `IncidentResponse` | the threat-state algorithm; replicas applying events to one hypothesis; the incident its messages open and keep current |
| `Publication` | events taken in, their publication and retry sweep; outbox rows, stamped and committed in different orders, and their sweeps |
| `EvidenceStore` | the snapshot of a response task, derivation, verification |
| `Patrol` | routes, runs, checkpoints, the row locks of each operation, the missed sweep |
| `ConstitutionEngine`, `Constitution` | the twelve checks as operators; seeding, evaluation, the ledger's chain, activation and reload |
| `EdgeRegistry`, `EdgeTime`, `EdgeWitnessing` | how an Edge comes to be trusted; the trusted time of one Edge; the witness route that rests on both |

`MC<...>` modules are instances for TLC, `<...>Proofs` modules hold theorems.

Definitions whose comment begins with *Slip* are not part of any specification:
each is a plausible mistake in the definition it precedes, kept so that every
property can be shown to notice one.

### `OfflineReplay` and the code

A worker's `pc` is its place in `submit()`; one action is one transaction, or
one read made outside a transaction:

| `pc` | code | actions |
|---|---|---|
| `idle` | request arrives, context bound | `Submit` |
| `ensure` | `ensureCursor` | `EnsureCursor` |
| `admit` | `admit()` under the cursor row's lock | `AdmitNew`, `AdmitReopened`, `AdmitReplayed`, `AdmitRefused` |
| `claim` | `claimForProcessing` | `Claim`, `ClaimRefused` |
| `probe` | `probeCommittedEffect`, for a second or later claim | `Probe` |
| `execute`, `commit` | `execute()`; for a send, the eligibility read and then its transaction | `CheckSender`, `ExecuteCommits`, `ExecuteConverges`, `ExecuteRefused`, `ExecuteFaults` |
| `finalize` | `finalizeAndAdvance` | `Finalize`, `FinalizeFaults`, `FenceLost` |
| `markUnknown` | `markUnknown` | `MarkUnknown`, `FenceLost` |
| `lost` | `reportLostFence` | `ReportLostFence` |

`cursor` is `last_finalized_sequence` (`NoCursorRow` before the row exists,
`NullSequence` for NULL), `receipts` the receipt rows by position, `generation`
the claim generation a worker holds. Fingerprints, downstream keys and operation
ids are represented by the request itself. `LeaseExpires` is the passing of 60
seconds since a claim; whether a *live* worker can meet it is the constant
`StallsPossible`, because nothing in the code prevents it (no transaction or
call is bounded by the lease) and the answer changes what is true.
`AdmitReplayed` reports what the receipt says; the order in which several
answers reach the device is not modelled, so `answers` is a set.

### `EdgeForwarding` and the code

`queue` holds the rows (the columns any decision reads), `nextPosition` the
counter, `unsaved` how far the durable clock ran since it was last persisted;
rows carry `due` relative to the persisted mark, so the clock itself never has
to grow. `heads` is the list the driver read from `forwardableHeads`,
`inFlight` the request of each operation. The store calls are synchronous SQLite
transactions, so each is one action. The driver that calls them is not in the
repository; `edge-evidence.forwarder.ts` describes it (heads, claim, post, map)
and the model follows that description, with requests of different operations
overlapping. At central, `receipt` is the status the replay executor has
recorded: `CentralMoves` takes the receipt steps `OfflineReplay` allows, in
sequence order per namespace, and only for devices that come back
(`Returning`).

### `DeviceDrain` and the code

`entries` and `nextSequence` are the document of `OfflineOutbox`; every call
replaces it by one rename, so it is one action, and a call that throws changes
nothing. Calls are taken not to overlap: the class has no lock and nothing in the
repository runs two. `pc` is the place of the drain in `OfflineSubmission`:

| `pc` | code | actions |
|---|---|---|
| `idle` | `submitNext`: `peekNext`, `markAttempt` | `TakeHead` |
| `post` | the signed request is handed to the transport | `Post` |
| `await` | `SentinelHttp.post`, then `settle` on its answer | `AnswerDecided`, `AnswerReplayed`, `AnswerRefused`, `AnswerConflict`, `AnswerUnknown` |
| `mark`, `remove` | the two writes of `settleInOutbox` | `SettleMarks`, `SettleRemoves` |

`Refused` stands for every way the ingress answers 403 before it calls the
executor: the context is over, the envelope is not of the context's operative and
site, its lease is over. Central's decisions are one sequence per namespace
(operative and site), which is what `OfflineReplay` is proved to implement; that
this module keeps the same promise is `CentralKeepsPromise`. `abandoned` are
requests whose connection the device has given up and that may still arrive.
`signed`, `sends` and `told` record history for the properties. A context brings a
lease of its own or none (`SignIn`), and the cached lease is the last one.

`StatusMember` is the member of a successful answer that carries the receipt's
status. Both runs have it at `"submission"`, what the gateway's controller sends
and the client does not read. An entry therefore leaves the queue only when the
ingress refuses it, and `DeviceDrain_unread` shows what becomes of the others.
That a status which is read would be settled in order too is part of the
theorems, which hold for every value.

### `DeviceEnrolment`, `DeviceCredential`, `DeviceIdentity` and the code

A submission at the ingress is several transactions with a crash possible between
any two; each is one action, named for the call. Signatures, certificate chains
and fingerprints are what they tell apart: whose key, which challenge, intact or
not. `DeviceCredential` is the registry after the commit: a decision that was
read and not yet applied belongs to a `Decider`, and the compare-and-set in
`shield.repository.ts` is the guard that may refuse to apply it. `DeviceIdentity`
joins the two at the commit, which is one transaction in the code.

### `DeviceGateway` and the code

A request looks at everything without a lock (`Look...`), and again in its
transaction under the row locks it takes one at a time, in the order of the
code. Writes of a transaction become visible in one step, its commit. A statement
is *original* or *altered* under the same nonce; canonical encoding and
signatures are abstracted to which of the two was signed.

### `FieldMessages` and the code

One action per transaction or read of `field-messaging.repository.ts`; the
consumer's read, socket wait and conditional update are three. A published
notice reaches the subscribers of that moment only; nothing repeats it.

### `WhisperSignal`, `WhisperResponse`, `ProofA` and the code

Edits, transitions and activations each read, judge and write with a comparison
(`expectedVersion`, status); only publication and activation take the family's
row locks. An attempt at a recognition judges it, claims its replay identity with
a lease and a generation, opens the silent incident, and records its answer under
the fence. `ProofA` has one function per transaction of
`incidents.repository.ts` on the incident row.

### `ThreatState`, `ThreatFusion`, `IncidentResponse` and the code

A replica reads the hypothesis, computes, and writes where the version is
unchanged, at most `ApplyAttempts` times per delivery; candidate and update are
published after the commit, by a publisher that swallows failures. Confidences
are tenths and weights quarters, so the noisy-OR products, floating point in the
code, are exact integers here. The handlers of the two incident consumers run
one transaction per step, and a delivery that fails comes again.

### `Publication`, `EvidenceStore` and the code

`Publication` has one action per statement or transaction of ingest and of a
sweep; a publication that times out may or may not have reached the stream. The
incidents' and the field's outbox publishers are the same program, so one table
stands for either. `outbox` is that table in the order of the commits, `at` the
`createdAt` a row was stamped with. The two orders are independent: one
writer, the assessment of a hypothesis, locks its incident, the others
(approvals, decisions, acknowledgements, hand-offs, snapshots) write their rows
under no common lock, and a sweep reads by stamp what has committed. A publication that fails may
have gone out, since `publish` comes before the `flush` that throws; the row then
stays unmarked. `relaying` is a sweep's list, read once, and the row between its
send and its mark. In `EvidenceStore` the object, the row with its first custody
entry, and each further custody entry are separate writes.

### `Patrol` and the code

Each operation is a transaction whose row locks are taken one by one in the order
`patrol.repository.ts` states; `tx` holds what a transaction still wants and
`owner` who has each lock, which is what a circular wait would show in. The sweep
finds candidates by the server's clock outside any transaction and judges each by
the database's. An abandonment also locks the checkpoints it updates; it holds the
run's lock by then, which everybody who locks a checkpoint has taken first, so
`LockOrder` leaves them out. A start that finds the stored version damaged rolls
back, and is one of the ends `Abort` stands for.

### `Constitution`, `ConstitutionEngine` and the code

Serializable transactions are the read rows plus the condition under which the
database aborts (`Serializes`). The advisory lock of an organisation's chain is
`LedgerIsFree`. What has no production caller (drafting, activation with
approvals) is called by the model's asks and marked external.

### `EdgeRegistry`, `EdgeTime`, `EdgeWitnessing` and the code

Each registry operation is one transaction that judges rows it has locked; a
refusal commits what was written so far, as it does in the code. The Edge's only
clock is a counter that starts at zero with each boot. The witness route has no
transaction around it: authentication, admission, derivation of the time and the
recording are four steps with a withdrawal possible between any two.

## What the runs check

A run that serves several components has a variable `scene`, chosen initially
and never changed: each scene is a behaviour of its own, and the properties are
checked in all of them.

| run | instance | question |
|---|---|---|
| `OfflineReplay_stalls` | 2 workers that may stall, positions 0..1, 4 operations of which two reuse a position or an id, 2 faults | does the promise hold whatever the workers do? Prefix of decisions, stored answers, one effect, refinement of `OrderedDecisions` |
| `OfflineReplay_leased` | fair, 2 workers that do not stall, a send and an acknowledgement at positions 0..1, 2 faults | is a rejection truthful where no worker outlives its lease, do effects follow the queue, is every admitted operation answered? |
| `EdgeForwarding` | *custody*: 3 operations of 2 devices, 1 fault; *live*: fair, of which one device never returns | custody (refinement of `EdgeCustody`), order per device, backoff that survives; are the operations of the device that returns answered? |
| `DeviceDrain` | the gateway's real answer, 2 faults; *shared*: a handset that changes hands, 2 contexts and leases that may end; *alone*: one operative with an open context, 2 exchanges with the Edge | positions spent once, settled in order, central's promise despite late requests |
| `DeviceDrain_unread` | the same, fair, without a fault | *violated*: is everything queued settled? a decided operation is offered for ever |
| `DeviceIdentity` | *ceremony*: 3 people, 2 overlapping submissions, approvals and commits; *life*: 2 deciders, 2 rotations | does only the ceremony admit a credential, may only a whole one act, does what is withdrawn stay withdrawn (refinement of `CredentialPromise`)? |
| `DeviceGateway` | *door*: 3 overlapping requests, exact and altered statements, authority that moves; *notices*: 2 sends under one key, 2 servers, 3 notices | one effect per statement, all rows or none, effects only under authority; are delivery states evidence? |
| `Whisper` | *studio*: 2 commanders, 2 versions; *field*: 2 recognitions under one nonce, 2 attempts, 1 fault; *office*: 2 replicas, 3 versions, 3 asks, 1 stop | one active version; no two answers of one recognition differ; two people before a silent dispatch; one policy in force, a chain that verifies, activation only as decided |
| `Incidents` | *race*, *ignored*, *response*, *people*: 2 replicas or 2 handlers over a window's events; *intake*, *relay*, *preserve*: 3 reports, 3 outbox rows stamped at 2 instants with 2 servers, 1 failing publication and 1 stop, 3 evidence calls | every signal counted once, a critical state answered, nothing outdated written back; deliveries counted, rows sent in order, snapshots whole |
| `Patrol` | *plan*: 2 desks set up and cancel; *walk*: 2 desks and the sweep on a running patrol, fair; *relay*: the outbox rows once more, fair | one verdict per checkpoint, no circular wait, every overdue checkpoint settled; rows not stalled by rows that cannot be sent |
| `EdgeWitnessing` | 2 Edges of one site, 2 boots, 2 anchors of 2 keys, a receipt in 3 calls | what central records was witnessed by a trusted Edge, once per request, at a true time; an active key was proven |
| `Constitution_inForce` | the constitution alone | *violated*: a replica evaluates under a retired policy |

The two violated properties are sentences of the code's own comments; the
findings in `PROJECT.json` quote them.

**Bounds.** Two workers (replicas, servers, commanders, deciders) give every
pairwise race; the third participant where there is one (requests at the
gateway, evidence calls, witness calls) is there because two may already be in
conflict when it arrives. Two positions give a predecessor and a successor, and
position 1 is also the last of the sequence space. Two faults at the executor
allow a lost answer followed by a crash, and a stall of each of two attempts; one
suffices where no step recovers from an earlier one. On the Edge two operations
of one device give a head and a follower, and `AttemptCap` is the count beyond
which the delay is constant. `OutboxBatch` 2 and `EventBatch` 1 are below the
number of rows, so sweeps end in the middle; of three rows one may be poisoned
before the batch is full of them, and two stamps give a tie, an order, and its
opposite. `SweepLimit` 2 is a list whose rest a failing sweep drops. `MaxVersion` 2, two boots, two
anchors and `MaxClock` 3 give one change of each kind with a before and an after.
Symmetry is over interchangeable workers, handlers, requests and replicas, in
runs without liveness only.

**Deadlock** is checked in the runs of `OfflineReplay` and `EdgeForwarding`: the
executor can always take another request, and the Edge can always be offered an
operation. The others really stop: a handset whose queue is empty, a ceremony
that is over, events that were all delivered, a run that has ended. There a
waiting circle is a property of its own (`NoCircularWait`).

**Fairness.** `OfflineReplay!FairSpec`: a server that keeps running advances each
request (weak); the device keeps sending an unanswered operation although
workers are sometimes busy (strong); leases of dead claims run out (weak).
Faults, stalls and the domain's other actors are never obliged.
`MCEdgeForwarding!Fairness`: the Edge restarts, its clock runs, the driver keeps
sweeping, a link that is not down for ever delivers some request, the devices in
`Returning` replay and offer again what was refused. `DeviceDrain_unread`: the
drain keeps running while somebody is signed in and its requests are answered
(weak, on `Drain`). `Publication!RelayFairness`: the timer of some server calls
its sweep again, and a sweep that began goes on (weak, on all servers together:
one that stops leaves the work to another); nobody has to write a row. `Patrol!Fairness`: time passes, the sweep is called again (its
timer), desks finish the transactions they began (weak), and the sweep gets a
lock that is free again and again (strong: the database queues lock requests).
The number of failing sweeps is bounded by `MaxFailedSweeps`.

## What is proved

`FieldProofs` proves, about `OfflineReplay`, for every number of workers,
positions, operations, assignments and faults, with or without stalls:

* `TypeCorrect`, `DecidedPrefixHolds`, `PredecessorsDecidedHolds`,
* `DecisionsPermanent` (an action property),
* `EffectOnce`, `AnswersStored`,
* `Refinement`: `Spec => ImplementsPromise`.

The assumptions are those of the modules: `DomainAssumption` (operations are
well formed, positions are 0..`MaxSequence`), `ReplayAssumption` and
`SentinelAssumption` (the sentinels are not values of what they stand in for).

The argument. `DecidedPrefix` alone is not inductive: that a worker finalises
the position *after* the cursor, and not some earlier or later one, depends on
where it was admitted. `IInv` is therefore

    TypeOK /\ DecidedPrefix /\ AdmittedHaveReceipts

where `AdmittedHaveReceipts` says that at the position of a worker past its
admission there is a receipt of that worker's own request, that a worker about to
finalize holds an outcome, and that the cursor row exists from admission on. Its
preservation is organised around one lemma, `StepIsQueueMove`: every step of the
system leaves the queue alone, opens a position, rewrites an undecided receipt,
or decides the next position. Permanence and `DecidedPrefix` follow from that
lemma without looking at the actions again, and the refinement maps a deciding
move to `Decide`, a replayed answer to `Tell`, and everything else to a stutter.
`EffectOnce` needs no strengthening beyond types: a call commits only when no
evidence exists under its key, which is what the unique index gives the code.

Where no worker outlives its lease (`~StallsPossible`, the hypothesis the run
`OfflineReplay_leased` makes too) it proves `RejectedIsTruthful` and
`EffectsAreOrdered`. `LeaseInv` adds to `IInv` that an attempt owns its open,
unexpired receipt until it ends (`Leased`), that a position has one attempt
(`OneAttempt`) and an operation id one receipt (`IdsAreUnique`), that evidence was
written by an attempt (`EvidenceHasAttempt`) and that an attempt which has not
entered the domain, or is about to record a refusal, has no evidence there
(`Truthful`). The step that needs all of them is a claim. A first claim goes to
the domain without asking: no evidence is there, because evidence was written by
an attempt of the same operation, hence at this position. A later claim asks, and
what it learns stays true, because an attempt that still ran would own the receipt
and the receipt could not be claimed.

About `Patrol`, for every number of desks, route versions, checkpoints, assignment
rows and failing sweeps, it proves `PatrolTypeCorrect`, `OneVerdictHolds` and
`NoCircularWaitHolds` (`PatrolAssumption`: window offsets are in order, assignment
rows are distinct). `LocksInv` says that what a transaction wants is sorted by
`Rank`, the place of a row in the stated order, and that all it holds comes before
all it wants; in a circle of waiting processes the one that wants the last row
would wait on somebody who wants a later one. `RunInv` carries `OneVerdict` in the
form of `Verdict`: no visit behind an unvisited checkpoint, exactly one behind a
visited one, and none anywhere before the run is started. Every step is shown to
be a `LockMove` and a `RunMove` (a start, a cancellation, an abandonment, a visit,
a sweep, or nothing), and the invariants survive those.

`DeviceDrainProofs` proves, for every number of operations, operatives, contexts,
Edges and faults, every bound of the outbox and every shape of the gateway's
answer:

* `TypeCorrect`, `PositionsSpentOnceHolds`, `SettledInOrderHolds`,
  `OneDecisionBehindHolds`, `AttemptsAreWrittenHolds`,
* `WitnessIsKeptHolds` (an action property),
* `CentralKeepsPromiseHolds`: one copy of `OrderedDecisions` per namespace,
* `HeadIsExpectedHolds`, assuming that all operations are of one namespace,
* `GivenUpOnlyIfRefusedHolds` (an action property): whatever ends and whoever
  holds the handset, an operation leaves the queue undecided only when the
  request in hand was refused.

The assumption of `HeadIsExpectedHolds` is not a convenience of the proof: without
it the property fails. What is given up undecided is lost to its namespace, and
the positions behind it are gaps; the theorem says which operations can be lost
(see *Where the code and its documentation differ*). The other assumptions are those of the modules
(`OutboxAssumption`, `DrainAssumption`, and the sentinels that are not values).

The argument has four parts, each a conjunct of `IInv`.

1. `HeadInHand`: while the drain serves an operation, that operation is the head
   of the queue, because appending goes behind the head and only the drain
   settles. `StepIsQueueMove` then reduces every step to three cases: the queue
   keeps its order, one operation is appended, or the operation in hand is
   settled. `PositionsSpentOnce` and `SettledInOrder` follow from the three.
2. `OnlyHeadsSent`: whatever central has decided, or may still be sent by an
   abandoned request, is the head if it is queued at all. Two decided and queued
   operations would both be the head.
3. `RequestsFaithful` and `DecidedInPlace`: every request, abandoned ones
   included, carries the position its operation was signed with, so a decision
   lands at that position. In one namespace this makes the count of decisions
   the position of the oldest undecided operation.
4. `VerdictIsDecided`: a decision the device settles with is one it was sent.
   For what is given up, `VerdictIsRefusal` adds that a refusal it settles with
   is still one: contexts and leases do not come back once they ended, and every
   context and lease a request names was established before
   (`EverEstablished`), so neither can begin after the refusal.

`AttemptPending` (an attempt written and not yet posted leaves room for one send)
strengthens `AttemptsAreWritten`; `ToldAreSigned` serves the refinement.

`EdgeProofs` is about both sides of the Edge. About `EdgeForwarding` it proves, for every number of operations, namespaces and
faults, every capacity and retention, every failure of the link and whichever
devices come back: `TypeCorrect`, `RowsSatisfyChecksHolds` (the CHECK constraints
of the table), `ForwardingIsInFlightHolds`, `PositionsAreDistinctHolds`,
`TableIsBoundedHolds`, `NoOvertakingHolds`, `BackoffSurvivesHolds` (an action
property) and `CustodyHolds`: `EdgeForwarding` implements `EdgeCustody`. The
assumptions are the modules' own (`QueueAssumption`: finitely many operations,
bounds that are numbers; `NoRowAssumption`; `ForwardingAssumption`).
`NoOvertaking` is not inductive because the driver works through a list of heads
it read some time ago. `HeadsHold` says what stays true of an old list: its
operations are unanswered, due and not under way, and an unanswered operation of
the same device with a lower sequence can only have arrived at the Edge later.
The refinement needs `AnswersAreTrue` and `SettledIsTrue`: what is on the wire,
and what a settled row says, is what central ruled. `TableIsBounded` counts the
settled rows through each reclamation, with a well-founded choice of the oldest.
About `EdgeWitnessing`, started from nothing (`WitnessingSpec`: the registry, the
Edge's time and the route, each in processes of its own), for any number of Edges,
challenges, activators, calls, requests and leases, any keyrings and any bound:
`WitnessingTypeCorrect`, `ActiveIsProvenHolds`, `RecordedTimeIsTrueHolds` and
`AdmittedOnceFromTrustedHolds` (`NoEdgeAssumption`, `LifetimeAssumption`,
`WitnessAssumption`). The invariant has one part per module. `RegistryInv`: only a
challenge that was asked for has a verdict, so no later challenge takes the place
of the one an Edge was activated on. `TimeInv`: a claim is no later than the moment
of its boot and an anchor says no time before the moment it was claimed for, so
what the Edge derives is never behind central's clock, however late the anchor
comes; a reboot leaves every claim and anchor to a boot that is over. `RouteInv`:
an authenticated call has spent its request, so no other call can be authenticated
by it, and a call past its receipt's admission was admitted from a trusted Edge.

`DeviceGatewayProofs` is about `DeviceGateway`, for any number of requests,
ceremonies, statements and variants: `TypeCorrect`, `AllOrNothingHolds`,
`OneLeasePerCeremonyHolds`, `TakesEffectOnceHolds`, `AnswersAreBackedHolds` and
`EffectsUnderAuthorityHolds` (an action property). `GatewayAssumption` says that
the identities of contexts, live and queued statements are disjoint, which the
nonces of the code are by construction. The argument is one predicate per request,
`Stands`: what it asked about was there (`Asks`), the locks of its step are its
own and what it found open is still open (`Holds`), and what it judged under the
locks is still so (`Judged`). Another request cannot disturb any of the three
without one of the locks. At the end of the module, about `FieldMessages`, for any
number of sends, people and servers: `StatesAreEvidenceHolds`
(`MessagesAssumption`). Nothing on its way is about a row that is not there
(`NoticesHaveRows`), a server past its wait holds a confirmed notice and writes
only from REQUESTED (`ServesConfirmed`), and a row is ACKNOWLEDGED exactly when one
acknowledgement is on file (`RowStands`).

`DeviceIdentityProofs` is about the ceremony and the registry together, for any
number of people, keys, challenges, submissions, deciders and rotations:
`TypeCorrect`, `EnrolledByCeremonyHolds`, `ActingIsWholeHolds`, `KeysAgreeHolds`,
`AnswersNameRequestHolds`, and `CredentialPromiseHolds`: `DeviceIdentity`
implements `CredentialPromise` (assumptions `EnrolmentAssumption` and
`CredentialAssumption`). A commit is safe because the request's key, once there, is
never replaced and a proven challenge is a challenge of that key (`CommitInv`); an
answer RECORDED is about the standing request because a submission that lost its
challenge answers from what the winner wrote (`AnswerInv`). For the credential:
`ReadingsAge` says that what a decider read is no newer than what is stored, so its
compare-and-set either fails or writes over exactly what it judged;
`RevokedKeyIsGone` is why a LOST after a STOLEN, which clears the time of the
revocation, brings nothing back.

`ConstitutionProofs`, for any number of replicas, asks, organisations, versions
and stops: `TypeCorrect`, `OneActivePolicyHolds`, `ChainVerifiesHolds`,
`ActivationIsAuthorisedHolds`; and about the engine alone, for every policy and
request, `AllowedByTwo`. `ConstitutionAssumption` says that the baseline is a
version, that policies and asks are defined where they are looked up, and that
`None` is no value; `IdsAssumption` that the canonical form of an identity is its
own. Each property has its part of `IInv`. `Seeded` and `OneInForce`: a replica
that is past its seeding found or left a policy, and an activation retires exactly
what it read as active because `Serializes` fails otherwise. `LedgerInv`: the one
row under way in an organisation follows the newest committed row, since the
advisory lock is held from the read of that row to the commit. `InForceIsRecorded`:
an alteration activates only after its ALLOW is in the chain, and a row in the
chain stays and is what the engine decides.

`WhisperProofs`, for any number of commanders, recognitions, nonces, attempts,
lapsed claims and faults: `TypeCorrect`, `OneActiveHolds`, `ApprovedIsFrozenHolds`,
`AnswersAgreeHolds`, `OutcomeIsFinalHolds` (an action property),
`AcceptedIsEnteredHolds`, `OpenedOnceAndApprovedHolds` and
`TwoCommandersDispatchHolds` (`WhisperAssumption`: the bounds are numbers). The
signal part rests on `RowOK`: what was approved keeps the configuration of its
approval and an approver who is not its creator. The response part is one
predicate per record, `AttemptOK`, `IncidentOK`, `ReceiptOK` and `ApprovalOK`, and
one frame, `Stays`: receipts, incidents and approvals only ever gain, so what an
attempt or an approver relied on is still there when it writes.

`IncidentsProofs` holds the proofs of what the run `Incidents` puts side by side.

* `IncidentResponse` over `ThreatFusion`, for any finite set of events and any
  signals, any number of replicas, handlers, operatives, deliveries, losses and
  crashes (`FusionAssumption`, `ResponseAssumption`): `IncidentsTypeCorrect`,
  `EverySignalCountedHolds`, `CriticalIsAnsweredHolds`, and the action properties
  `NeverOutdatedHolds` and `DispatchMovesForwardHolds`. For fusion, `ComputesOn`
  says that a replica computes on the row it read, and that while the version is
  still that one so is the row; so a commit appends one signal and counts one
  event. For the response, `OwedIsCarried` is the point: as long as a critical
  incident has its playbook unfinished, some message that is published and not
  acknowledged will run it, namely a candidate that is not about to be finished
  after its catch-up, or an update that is not newer than the incident once the
  playbook was started. It needs `MayBe` (what a handler that has come so far has
  left in the incident), `OneHandlerEach` (no message is with two handlers) and
  `StartedAndCalm` (a started playbook that is no longer called for has finished,
  or the incident relapsed). When nothing is left to deliver, no such message
  exists, so the playbook is finished.
* `EvidenceStore`: `SnapshotIsWholeHolds`, for any number of calls, tasks and
  break-offs. What makes `EvidenceInv` inductive is that a call that has not
  written its row owns no row, so the object the loser of a race removes is
  nobody's content; "at most one row per task" is carried as "any two rows of a
  task are equal" and counted only at the end.
* `Publication`: `SentInOrderHolds` and `DeliveriesAreCountedHolds`, for any number
  of rows, reports, servers, failures and stops and any batch size. `SentInOrder`
  speaks of two rows of which one was both stamped and committed first; it is all
  the order there is, since writers share no lock. A sweep that read the later
  row could see the earlier one, and either it was marked, hence sent, or the
  sweep read it too (`SweepFacts`) and came to it before: a row leaves the list
  only when it was sent or cannot be, and a failure ends the sweep. For the
  events: a request that has not finished is among nobody's duplicates, so a
  delivery is counted once.

Some theorems are about definitions no run checks, because another property of
the same run covers the question and each was checked by TLC on the run's instance
before it was proved, or is a step towards one that a run checks:
`RowsSatisfyChecks`, `ForwardingIsInFlight`, `PositionsAreDistinct`,
`TableIsBounded`, `OneLeasePerCeremony`, `AnswersAreBacked`, `KeysAgree`,
`AnswersNameRequest`, `ApprovedIsFrozen`, `AcceptedIsEntered`,
`OpenedOnceAndApproved`, `OutcomeIsFinal` and `DispatchMovesForward`.

## What is only model-checked

* All liveness: the prover has no rule for fairness or ENABLED. That is
  `AdmittedIsAnswered`, `HeldIsAnswered`, `OverdueIsSettled` and
  `PoisonDoesNotStall`; `AloneIsSettled` is the one that is violated.
* What the threat-state algorithm computes: that the state is one of the six is
  proved (`StateInRange`), its values are compared on bounded inputs.

## Where the code and its documentation differ

Besides the two findings, the models reach the following; each is one change of a
constant away, or a step of a module, and the named definition states what the
documentation says.

* `OfflineReplay` with `StallsPossible = TRUE` and `Submissions <- SendThenAck`
  violates `RejectedLeavesNoEffect`: a worker that outlives its lease commits
  after the next one has found no evidence and rejected
  (`field-messaging.service.ts:105`; the comment `field-offline.service.ts:445`
  calls the rejection provably truthful).
* `EdgeForwarding` with `Returning = {}` violates `EvidenceNeedsNoHandset`:
  evidence of the second operation waits until the first is answered, which needs
  the handset (`edge-queue.store.ts:686`, `edge-evidence.forwarder.ts:24`).
* `DeviceDrain`, as soon as a context or lease may end: a 403 removes an operation
  nobody judged (`OfflineSubmission.kt:216`), whose position central's cursor goes
  on waiting for although the comment calls it spent. `GivenUpOnlyIfRefused` says
  that nothing else is lost so. With two namespaces the module violates `HeadIsExpected`: the first operation of the second
  operative is not the position central expects (`OfflineOutbox.kt:268`).
* `IncidentResponse!IncidentIsCurrent`: the critical branch of
  `incidents.service.ts:75` has no catch-up for an update it overtook.
* `EdgeWitnessing!SubstitutionIsRefused`: the envelope that names the operation
  is not covered by the receipt (`edge-receipt-observation.service.ts:87`,
  comment 97).
* `EdgeRegistry`: `AuthorityHoldsToTheEnd` (`edge-enrolment.service.ts:371`),
  `ConvergedIsEnrolled` (542), `WithdrawnHoldsNoKey` (626); withdrawing an Edge
  leaves its transport identity current, so its replacement cannot be activated.
* `DeviceCredential!TrustedIsHardwareBacked` (`device-key.service.ts:587` against
  `device-identity.ts:1872`) and `DeviceEnrolment!ProvenCanCommit`
  (`device-enrollment.service.ts:986`); LOST after STOLEN clears the time of the
  revocation, while STOLEN after LOST is refused.
* `DeviceGateway`: `CommittedIsApplied` and `SpentIsApplied`
  (`device-offline-ingress.service.ts:283` against 321).
* `WhisperResponse`: `RefusedHasNoIncident` (`whisper.service.ts:877`);
  `WhisperSignal!AuthorsDoNotApprove` (`whisper.ts:856`).

Observed while modelling, without a formula: a notice published while the
recipient's server is not subscribed is lost and its message can never be
acknowledged; two deliveries of one source event on either side of a five second
bucket become two canonical events (`idempotency.ts:36`); as many rows with an
unsafe scope as a sweep reads are all it reads from then on
(`PoisonDoesNotStall` is about fewer); a row that commits after one with a later
stamp follows it on the wire, and two sweeping servers may send an older row
again after a newer one; the candidate of a hypothesis is lost when the
process dies, or the publication fails, after the commit
(`fusion.service.ts:283`); two concurrent acknowledgements of a dispatch
overwrite each other; an object whose evidence row was never written stays; the
Edge's durable clock falls back at a restart; an outbox entry marked TERMINAL
when the application dies is never removed; the operative state of the field
module is overwritten in arrival order; `drainBuffer` empties the ledger's buffer
before it appends; establishment locks device before context where execution
locks context before device.

## What is not modelled

Signatures, digests, attestation and DER parsing (functions of opaque bytes),
audit rows and metrics, HTTP and socket plumbing, screens, the field module's
operative state, message retention and need-to-know redaction, the ledger's
buffer, presence keys, and the parts listed with `not_modelled` in
`PROJECT.json`, each with its reason.

## Next

Every safety and action property a run checks, and every refinement, is a
theorem. What can still be proved are the statements beside them: of `Patrol`
`VisitedInOrder`, `OpenWhileOutstanding`, `OnDuty` and
`EstablishedStaysEstablished`.
