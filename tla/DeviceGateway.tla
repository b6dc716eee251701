--------------------------- MODULE DeviceGateway ---------------------------
(***************************************************************************)
(* The door every request of an enrolled device comes through              *)
(* (device-context.service.ts, device-gateway.service.ts,                  *)
(* device-offline-ingress.service.ts): a ceremony establishes a context, a *)
(* live statement takes its effect under one, and a queued statement is    *)
(* handed to the replay executor under the lease its ceremony minted.      *)
(*                                                                         *)
(* A request first looks at everything without a lock, and then again in   *)
(* its transaction, under the row locks it takes one at a time.  Writes of *)
(* a transaction are one step, its commit; a rollback writes nothing.      *)
(***************************************************************************)
EXTENDS Integers, Sequences, FiniteSets

CONSTANTS
  Requests,   \* requests that arrive, each once
  Contexts,   \* ceremonies; each proposes the context of the same name
  Live,       \* one-shot identities of live statements
  Queued,     \* operation identities of queued statements
  Under,      \* [Live \cup Queued -> Contexts]: the context, or the lease's ceremony
  Variants,   \* what one identity may be signed over
  MaxVersion, \* key versions are followed up to here
  NoRequest

\* An identity names its ceremony, so that no two kinds of statement share one.
ASSUME GatewayAssumption ==
  /\ Under \in [Live \cup Queued -> Contexts] /\ MaxVersion \in Nat \ {0}
  /\ Contexts \cap Live = {} /\ Contexts \cap Queued = {} /\ Live \cap Queued = {}
  /\ "NONE" \notin Variants
  /\ NoRequest \notin Requests

Identities == Contexts \cup Live \cup Queued

Challenges == {"CHALLENGE"} \X Contexts

ContextRows == {"CONTEXT"} \X Contexts

Device == <<"DEVICE">>

Rows == Challenges \cup ContextRows \cup {Device}

VARIABLES
  credential,  \* what SHIELD says of the device: [standing, version]
  authorised,  \* the actor's roles carry the action at the site
  challenge,   \* [Contexts -> key version it was issued for, 0 before]
  context,     \* [Contexts -> [state, version]]
  expired,     \* challenges and contexts whose five minutes are over
  leases,      \* [Contexts -> leases minted for the ceremony]
  ended,       \* ceremonies whose leases were revoked or ran out
  spent,       \* device_nonce_consumptions: [Identities -> Variants or "NONE"]
  effects,     \* [Identities -> the variants that took effect, in order]
  receipt,     \* [Queued -> the executor's receipt]
  events,      \* [Identities -> CONTEXT_ISSUED or OPERATION_COMMITTED events]
  locks,       \* [Rows -> the request whose transaction holds it]
  asks,        \* [Requests -> [id, variant, under]]
  step,        \* [Requests -> where it stands]
  answer       \* [Requests -> what it was answered]

database == <<challenge, context, leases, spent, effects, receipt, events>>

world == <<credential, authorised, expired, ended>>

requests == <<locks, asks, step, answer>>

vars == <<database, world, requests>>

Steps == { "IDLE", "READY", "FIRST", "BOTH", "PROCEED", "CONVERGE", "MINT",
           "AUTHENTICATED", "ADMITTED", "SPENT", "ANSWERED", "LOST" }

Answers == {"NONE", "ISSUED", "COMMITTED", "CONVERGED", "ACCEPTED", "REFUSED", "CONFLICT", "FAILED"}

Receipts == [outcome : {"NONE", "APPLIED", "REJECTED"}, variant : Variants \cup {"NONE"}]

\* What SHIELD says, the gateway's own rows, and a request's statement.
Credential == [standing : {"ADMITTED", "WITHDRAWN"}, version : 1 .. MaxVersion]

ChallengeRow == 0 .. MaxVersion

ContextRow == [state : {"ABSENT", "OPEN", "CLOSED"}, version : 0 .. MaxVersion]

ConsumptionRow == Variants \cup {"NONE"}

Statement == [id : Identities, variant : Variants, under : Contexts]

TypeOK ==
  /\ credential \in Credential
  /\ authorised \in BOOLEAN
  /\ challenge \in [Contexts -> ChallengeRow]
  /\ context \in [Contexts -> ContextRow]
  /\ expired \subseteq Challenges \cup ContextRows /\ ended \subseteq Contexts
  /\ leases \in [Contexts -> Nat]
  /\ spent \in [Identities -> ConsumptionRow]
  /\ effects \in [Identities -> Seq(Variants)]
  /\ receipt \in [Queued -> Receipts]
  /\ events \in [Identities -> Nat]
  /\ locks \in [Rows -> Requests \cup {NoRequest}]
  /\ asks \in [Requests -> Statement \cup {NoRequest}]
  /\ step \in [Requests -> Steps] /\ answer \in [Requests -> Answers]

Init ==
  /\ credential = [standing |-> "ADMITTED", version |-> 1] /\ authorised = TRUE
  /\ challenge = [c \in Contexts |-> 0]
  /\ context = [c \in Contexts |-> [state |-> "ABSENT", version |-> 0]]
  /\ expired = {} /\ ended = {}
  /\ leases = [c \in Contexts |-> 0]
  /\ spent = [i \in Identities |-> "NONE"]
  /\ effects = [i \in Identities |-> <<>>]
  /\ receipt = [q \in Queued |-> [outcome |-> "NONE", variant |-> "NONE"]]
  /\ events = [i \in Identities |-> 0]
  /\ locks = [x \in Rows |-> NoRequest]
  /\ asks = [r \in Requests |-> NoRequest]
  /\ step = [r \in Requests |-> "IDLE"] /\ answer = [r \in Requests |-> "NONE"]

---------------------------------------------------------------------------
\* What is judged: without locks first, then again under them.

Establishes(r) == asks[r].id \in Contexts

FirstRow(r) == <<IF Establishes(r) THEN "CHALLENGE" ELSE "CONTEXT", asks[r].under>>

\* The key the challenge or the context is bound to.
BoundVersion(id, c) == IF id \in Contexts THEN challenge[c] ELSE context[c].version

\* Slip: the credential is taken as it was when the context was issued.
RegistryAdmittedOnce(id, c) == id \notin Contexts => <<"CONTEXT", c>> \notin expired

\* The key a ceremony began with is the device's, and still admitted.
CeremonyAdmits(c) == credential = [standing |-> "ADMITTED", version |-> challenge[c]]

\* The registry admits the device, on the very key the request is bound to.
RegistryAdmits(id, c) ==
  IF id \in Contexts THEN CeremonyAdmits(c)
  ELSE /\ credential = [standing |-> "ADMITTED", version |-> context[c].version]
       /\ <<"CONTEXT", c>> \notin expired

\* Slip: an identity counts as used only for the statement it was used with.
ClassifyByStatement(id, variant) == IF spent[id] = variant THEN "CONVERGE" ELSE "PROCEED"

\* classifyDeviceNonceConsumption.
Classify(id, variant) ==
  IF spent[id] = "NONE" THEN "PROCEED"
  ELSE IF spent[id] = variant THEN "CONVERGE" ELSE "CONFLICT"

\* A queued statement arrives under a fresh proof, which is never a duplicate;
\* the ceremony's own authentication asks about the actor last.
Verdict(id, variant, c) ==
  LET class == IF id \in Queued THEN "PROCEED" ELSE Classify(id, variant) IN
  IF ~RegistryAdmits(id, c) \/ (id \notin Contexts /\ ~authorised) THEN "REFUSED"
  ELSE IF class # "CONFLICT" /\ ~authorised THEN "REFUSED" ELSE class

\* A challenge is good for one issue, within its window.
Issuable(c) == context[c].state = "ABSENT" /\ <<"CHALLENGE", c>> \notin expired

Refused(verdict) == verdict \in {"REFUSED", "CONFLICT"}

\* A ceremony that is no duplicate needs a challenge good for an issue.
Rejected(id, verdict, c) ==
  Refused(verdict) \/ (id \in Contexts /\ verdict = "PROCEED" /\ ~Issuable(c))

Move(r, to) == step' = [step EXCEPT ![r] = to]

Answer(r, a) == step' = [step EXCEPT ![r] = "ANSWERED"] /\ answer' = [answer EXCEPT ![r] = a]

Released(r) == [x \in Rows |-> IF locks[x] = r THEN NoRequest ELSE locks[x]]

Free(x) == locks[x] = NoRequest

Locked(r, x) == Free(x) /\ locks' = [locks EXCEPT ![x] = r]

\* Slip: a refusal inside the transaction leaves the identity spent.
SpendAndRefuse(r, a) ==
  /\ locks' = Released(r) /\ Answer(r, a) /\ UNCHANGED asks
  /\ spent' = [spent EXCEPT ![asks[r].id] = asks[r].variant]
  /\ UNCHANGED <<challenge, context, leases, effects, receipt, events>>

\* Slip: the refusal is answered while its transaction is left open.
AnswerWhileOpen(r, a) == Answer(r, a) /\ UNCHANGED <<locks, asks, database>>

\* DeviceGatewayTransactionRollback: nothing of the transaction stays.
RollBack(r, a) == locks' = Released(r) /\ Answer(r, a) /\ UNCHANGED <<asks, database>>

---------------------------------------------------------------------------
\* Steps every request takes.

\* requestEstablishment.
RequestEstablishment(c) ==
  /\ challenge[c] = 0 /\ authorised /\ credential.standing = "ADMITTED"
  /\ challenge' = [challenge EXCEPT ![c] = credential.version]
  /\ UNCHANGED <<context, leases, spent, effects, receipt, events, world, requests>>

\* A request arrives and is judged without a lock.
Arrive(r, id, variant, c) ==
  LET verdict == Verdict(id, variant, c) IN
  /\ step[r] = "IDLE" /\ BoundVersion(id, c) # 0
  /\ IF id \in Contexts THEN c = id ELSE id \in Live => c = Under[id]
  /\ asks' = [asks EXCEPT ![r] = [id |-> id, variant |-> variant, under |-> c]]
  /\ IF Rejected(id, verdict, c)
       THEN Answer(r, IF verdict = "CONFLICT" THEN "CONFLICT" ELSE "REFUSED")
       ELSE Move(r, "READY") /\ UNCHANGED answer
  /\ UNCHANGED <<locks, database, world>>

\* The challenge, or the context, which must still be open.
LockFirst(r) ==
  /\ step[r] = "READY" /\ Free(FirstRow(r))
  /\ IF ~Establishes(r) /\ context[asks[r].under].state = "CLOSED"
       THEN RollBack(r, "REFUSED")
       ELSE Locked(r, FirstRow(r)) /\ Move(r, "FIRST") /\ UNCHANGED <<asks, answer, database>>
  /\ UNCHANGED world

\* The device and the key, so that neither moves until the commit.
LockDevice(r) ==
  /\ step[r] = "FIRST" /\ Locked(r, Device) /\ Move(r, "BOTH")
  /\ UNCHANGED <<asks, answer, database, world>>

\* Everything is resolved and judged again.
Judge(r) ==
  LET a == asks[r]  verdict == Verdict(a.id, a.variant, a.under) IN
  /\ step[r] = "BOTH"
  /\ IF Rejected(a.id, verdict, a.under)
       THEN RollBack(r, IF verdict = "CONFLICT" THEN "CONFLICT" ELSE "REFUSED")
       ELSE Move(r, verdict) /\ UNCHANGED <<locks, asks, answer, database>>
  /\ UNCHANGED world

---------------------------------------------------------------------------
\* Establishing a context.

\* The identity, the context and its event commit together.
IssueContext(r) ==
  LET c == asks[r].under IN
  /\ step[r] = "PROCEED" /\ Establishes(r)
  /\ context' = [context EXCEPT ![c] = [state |-> "OPEN", version |-> challenge[c]]]
  /\ spent' = [spent EXCEPT ![c] = asks[r].variant]
  /\ effects' = [effects EXCEPT ![c] = Append(@, asks[r].variant)]
  /\ events' = [events EXCEPT ![c] = @ + 1]
  /\ locks' = Released(r) /\ Move(r, "MINT")
  /\ UNCHANGED <<challenge, leases, receipt, asks, answer, world>>

\* Slip: every answer to the ceremony carries a lease of its own.
MintOnConvergence(r) == Move(r, "MINT") /\ UNCHANGED answer

AnswerConverged(r) == Answer(r, "CONVERGED")

\* A repeated ceremony answers with the context it issued, unless closed.
\* The context is locked here, after the device.
ConvergeContext(r) ==
  /\ step[r] = "CONVERGE" /\ Establishes(r) /\ Free(<<"CONTEXT", asks[r].under>>)
  /\ IF context[asks[r].under].state = "OPEN"
       THEN /\ AnswerConverged(r) /\ locks' = Released(r)
            /\ UNCHANGED <<asks, database>>
       ELSE RollBack(r, "REFUSED")
  /\ UNCHANGED world

\* After the commit: one lease, for what the actor may still do; or none.
MintLease(r) ==
  /\ step[r] = "MINT"
  /\ leases' = [leases EXCEPT ![asks[r].under] = IF authorised THEN @ + 1 ELSE @]
  /\ Answer(r, "ISSUED")
  /\ UNCHANGED <<challenge, context, spent, effects, receipt, events, locks, asks, world>>

---------------------------------------------------------------------------
\* Live statements.

\* The identity, the domain's effect and its event commit together; a domain
\* that refuses takes all three back.
Execute(r) ==
  LET a == asks[r] IN
  /\ step[r] = "PROCEED" /\ a.id \in Live
  /\ \/ RollBack(r, "REFUSED")
     \/ /\ spent' = [spent EXCEPT ![a.id] = a.variant]
        /\ effects' = [effects EXCEPT ![a.id] = Append(@, a.variant)]
        /\ events' = [events EXCEPT ![a.id] = @ + 1]
        /\ locks' = Released(r) /\ Answer(r, "COMMITTED")
        /\ UNCHANGED <<challenge, context, leases, receipt, asks>>
  /\ UNCHANGED world

\* An exact duplicate answers from the effect it finds, or is refused.
ConvergeStatement(r) ==
  /\ step[r] = "CONVERGE" /\ asks[r].id \in Live
  /\ IF effects[asks[r].id] # <<>>
       THEN Answer(r, "CONVERGED") /\ locks' = Released(r) /\ UNCHANGED <<asks, database>>
       ELSE RollBack(r, "REFUSED")
  /\ UNCHANGED world

---------------------------------------------------------------------------
\* Queued statements: after the fresh proof no lock is held any more.

\* The fresh proof is spent and the transaction ends.
Authenticate(r) ==
  /\ step[r] = "PROCEED" /\ asks[r].id \in Queued
  /\ locks' = Released(r) /\ Move(r, "AUTHENTICATED")
  /\ UNCHANGED <<asks, answer, database, world>>

\* evaluateOfflineOperationAdmissibility, on what was read outside any
\* transaction: the key, the lease the statement names, its identity.
Admit(r) ==
  LET a == asks[r]  lease == Under[a.id] IN
  /\ step[r] = "AUTHENTICATED"
  /\ IF credential.standing = "ADMITTED" /\ Classify(a.id, a.variant) = "CONFLICT"
       THEN Answer(r, "CONFLICT")
       ELSE IF credential.standing = "ADMITTED" /\ leases[lease] > 0 /\ lease \notin ended
         THEN Move(r, "ADMITTED") /\ UNCHANGED answer
         ELSE Answer(r, "REFUSED")
  /\ UNCHANGED <<locks, asks, database, world>>

\* The identity is spent in a transaction of its own, whose finding that
\* somebody else's statement spent it first is not looked at.
Spend(r) ==
  LET a == asks[r] IN
  /\ step[r] = "ADMITTED" /\ Move(r, "SPENT")
  /\ spent' = [spent EXCEPT ![a.id] = IF @ = "NONE" THEN a.variant ELSE @]
  /\ UNCHANGED <<challenge, context, leases, effects, receipt, events, locks, asks, answer, world>>

\* The replay executor's promise: the first statement of an operation is
\* applied or rejected for good, and every other gets its receipt or a conflict.
Outcomes(q, variant) ==
  IF receipt[q].outcome # "NONE" THEN {receipt[q]}
  ELSE [outcome : {"APPLIED", "REJECTED"}, variant : {variant}]

\* recordSubmissionOutcome: a first result is recorded as COMMITTED.
Replay(r) ==
  LET a == asks[r] IN
  /\ step[r] = "SPENT"
  /\ \E found \in Outcomes(a.id, a.variant) :
       LET first == receipt[a.id].outcome = "NONE" IN
       /\ receipt' = [receipt EXCEPT ![a.id] = found]
       /\ effects' = IF first /\ found.outcome = "APPLIED"
                       THEN [effects EXCEPT ![a.id] = Append(@, a.variant)] ELSE effects
       /\ \/ /\ events' = IF first THEN [events EXCEPT ![a.id] = @ + 1] ELSE events
             /\ Answer(r, "ACCEPTED")
          \/ Move(r, "LOST") /\ UNCHANGED <<events, answer>>  \* the server stops in between
  /\ UNCHANGED <<challenge, context, leases, spent, locks, asks, world>>

---------------------------------------------------------------------------
\* The world around the requests.

\* A server stops: its open transactions are rolled back, its clients hear nothing.
Crash(r) ==
  /\ step[r] \notin {"IDLE", "ANSWERED", "LOST"}
  /\ locks' = Released(r) /\ Move(r, "LOST")
  /\ UNCHANGED <<asks, answer, database, world>>

\* The row a request waits for.
WaitsFor(r) ==
  CASE step[r] = "READY" -> {FirstRow(r)}
    [] step[r] = "FIRST" -> {Device}
    [] step[r] = "CONVERGE" /\ Establishes(r) -> {<<"CONTEXT", asks[r].under>>}
    [] OTHER -> {}

Blocks(s, r) == \E x \in WaitsFor(r) : locks[x] = s

\* PostgreSQL ends a cycle of waits by failing one of its transactions.
DetectDeadlock(r, s) ==
  /\ r # s /\ Blocks(s, r) /\ Blocks(r, s)
  /\ RollBack(r, "FAILED")
  /\ UNCHANGED world

\* SHIELD moves the credential under the device's lock (CredentialPromise).
MoveCredential ==
  /\ credential.standing = "ADMITTED" /\ Free(Device)
  /\ \/ credential.version < MaxVersion /\ credential' = [credential EXCEPT !.version = @ + 1]
     \/ credential' = [credential EXCEPT !.standing = "WITHDRAWN"]
  /\ UNCHANGED <<authorised, expired, ended, database, requests>>

CloseContext(c) ==
  /\ context[c].state = "OPEN" /\ Free(<<"CONTEXT", c>>)
  /\ context' = [context EXCEPT ![c].state = "CLOSED"]
  /\ UNCHANGED <<challenge, leases, spent, effects, receipt, events, world, requests>>

\* A role is granted or taken away, and read anew by every judgement.
AuthorityMoves ==
  /\ authorised' = ~authorised
  /\ UNCHANGED <<credential, expired, ended, database, requests>>

Expire(x) ==
  /\ x \notin expired /\ expired' = expired \cup {x}
  /\ UNCHANGED <<credential, authorised, ended, database, requests>>

\* revoke, or the end of the lease's window.
EndLeases(c) ==
  /\ leases[c] > 0 /\ c \notin ended /\ ended' = ended \cup {c}
  /\ UNCHANGED <<credential, authorised, expired, database, requests>>

Serve(r) ==
  \/ LockFirst(r) \/ LockDevice(r) \/ Judge(r)
  \/ IssueContext(r) \/ ConvergeContext(r) \/ MintLease(r)
  \/ Execute(r) \/ ConvergeStatement(r)
  \/ Authenticate(r) \/ Admit(r) \/ Spend(r) \/ Replay(r)
  \/ \E s \in Requests : DetectDeadlock(r, s)

Next ==
  \/ \E r \in Requests :
       \/ \E id \in Identities, variant \in Variants, c \in Contexts : Arrive(r, id, variant, c)
       \/ Serve(r) \/ Crash(r)
  \/ \E c \in Contexts : RequestEstablishment(c) \/ CloseContext(c) \/ EndLeases(c)
  \/ \E x \in Challenges \cup ContextRows : Expire(x)
  \/ MoveCredential \/ AuthorityMoves

Spec == Init /\ [][Next]_vars

\* Servers keep serving, and the database keeps granting locks.
FairSpec == Spec /\ \A r \in Requests : WF_vars(Serve(r))

---------------------------------------------------------------------------
\* Properties.

\* However often a statement is sent, altered, lost and sent again, it takes
\* effect at most once, and in one variant (classifyDeviceNonceConsumption
\* under the context's lock; the executor's receipt for queued ones).
TakesEffectOnce == \A i \in Identities : Len(effects[i]) <= 1

\* A ceremony and a live statement are all or nothing: the identity is spent
\* exactly when the effect is there, over the variant that took effect, and
\* exactly then one event says so (execute: consume, apply and append in
\* one transaction).
AllOrNothing ==
  \A i \in Contexts \cup Live :
    /\ effects[i] = IF spent[i] = "NONE" THEN <<>> ELSE <<spent[i]>>
    /\ events[i] = Len(effects[i])

\* A device holds at most one lease for a ceremony, however often the
\* ceremony's answer was lost and asked for again (completeEstablishment
\* mints on ISSUED only).
OneLeasePerCeremony == \A c \in Contexts : leases[c] <= 1

\* Whoever is told of success finds it: an answer is never given for an effect
\* that is not there, or that was another variant's.
AnswersAreBacked ==
  \A r \in Requests :
    answer[r] \in {"ISSUED", "COMMITTED", "CONVERGED"} => effects[asks[r].id] = <<asks[r].variant>>

\* No live effect is committed for a device whose credential has been
\* withdrawn or rotated away from the context's key, or under a closed
\* context, by the time of the commit (execute judges under the locks).
EffectsUnderAuthority ==
  [][\A i \in Live : effects'[i] # effects[i] =>
       /\ context[Under[i]].state = "OPEN"
       /\ credential = [standing |-> "ADMITTED", version |-> context[Under[i]].version]]_vars

\* Everyone who arrived is answered, unless their server stopped: the two
\* paths that lock context and device in opposite orders never hang.
EveryoneIsAnswered ==
  \A r \in Requests : step[r] = "READY" ~> step[r] \in {"ANSWERED", "LOST"}

\* OPERATION_COMMITTED is written for what was applied
\* (device-offline-ingress.service.ts:283-291).
CommittedIsApplied == \A q \in Queued : events[q] > 0 => receipt[q].outcome = "APPLIED"

\* The statement whose identity was spent is the one that was applied.
SpentIsApplied == \A q \in Queued : effects[q] # <<>> => effects[q] = <<spent[q]>>

=============================================================================
