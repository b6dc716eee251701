------------------------ MODULE DeviceGatewayProofs ------------------------
(***************************************************************************)
(* Proofs about DeviceGateway, for any number of requests, ceremonies and  *)
(* statements, in any variants and under any contexts; and, at the end,    *)
(* about FieldMessages, for any number of sends, people and servers.       *)
(***************************************************************************)
EXTENDS DeviceGateway, FieldMessages, FiniteSetTheorems, TLAPS

OneShot == Contexts \cup Live

Locking == {"FIRST", "BOTH", "PROCEED", "CONVERGE"}

Replaying == {"AUTHENTICATED", "ADMITTED", "SPENT"}

\* The credential is the one the context was issued under.
Authority(c) == credential = [standing |-> "ADMITTED", version |-> context[c].version]

\* A request's statement names the context its identity belongs to, and one
\* that was let in under a context found it issued.
Asks(r) ==
  step[r] # "IDLE" =>
    /\ asks[r] \in Statement
    /\ Establishes(r) => asks[r].under = asks[r].id
    /\ asks[r].id \in Live => asks[r].under = Under[asks[r].id]
    /\ ~Establishes(r) => context[asks[r].under].state # "ABSENT"

\* The locks a request took are its own until its transaction ends, and what
\* it found open under them is open.
Holds(r) ==
  /\ step[r] \in Locking => locks[FirstRow(r)] = r
  /\ step[r] \in Locking \ {"FIRST"} => locks[Device] = r
  /\ step[r] \in Locking /\ ~Establishes(r) => context[asks[r].under].state = "OPEN"
  /\ step[r] \in Replaying => asks[r].id \in Queued

\* What was judged under the locks is still so, and what was answered is true.
Judged(r) ==
  /\ step[r] = "PROCEED" /\ asks[r].id \in OneShot => spent[asks[r].id] = "NONE"
  /\ step[r] = "PROCEED" /\ asks[r].id \in Live => Authority(asks[r].under)
  /\ step[r] = "CONVERGE" => asks[r].id \in OneShot /\ spent[asks[r].id] = asks[r].variant
  /\ step[r] = "MINT" => /\ Establishes(r) /\ spent[asks[r].id] = asks[r].variant
                         /\ leases[asks[r].id] = 0
  /\ answer[r] \in {"ISSUED", "COMMITTED", "CONVERGED"} =>
       /\ step[r] # "IDLE"
       /\ asks[r].id \in OneShot /\ spent[asks[r].id] = asks[r].variant

Stands(r) == Asks(r) /\ Holds(r) /\ Judged(r)

\* Nobody but the issuer of a context mints its lease.
OneMints ==
  \A r, s \in Requests :
    step[r] = "MINT" /\ step[s] = "MINT" /\ asks[r].id = asks[s].id => r = s

\* A ceremony spent is a context issued; a lease is minted after that, once.
CeremoniesHold ==
  \A c \in Contexts :
    /\ context[c].state = "ABSENT" <=> spent[c] = "NONE"
    /\ context[c].state = "ABSENT" => context[c].version = 0
    /\ spent[c] = "NONE" => leases[c] = 0

\* A queued statement has the effect its receipt tells of.
QueuedHold ==
  \A q \in Queued :
    effects[q] = IF receipt[q].outcome = "APPLIED" THEN <<receipt[q].variant>> ELSE <<>>

IInv ==
  /\ TypeOK /\ AllOrNothing /\ OneLeasePerCeremony
  /\ OneMints /\ CeremoniesHold /\ QueuedHold
  /\ \A r \in Requests : Stands(r)

---------------------------------------------------------------------------

LEMMA RowsDiffer ==
  /\ \A c, d \in Contexts : <<"CHALLENGE", c>> # <<"CONTEXT", d>>
  /\ \A c \in Contexts : <<"CHALLENGE", c>> # Device /\ <<"CONTEXT", c>> # Device
  /\ \A c, d \in Contexts : (<<"CHALLENGE", c>> = <<"CHALLENGE", d>>) <=> c = d
  /\ \A c, d \in Contexts : (<<"CONTEXT", c>> = <<"CONTEXT", d>>) <=> c = d
  /\ \A c \in Contexts : <<"CHALLENGE", c>> \in Rows /\ <<"CONTEXT", c>> \in Rows
  /\ Device \in Rows
  BY DEF Device, Rows, Challenges, ContextRows

\* The first lock a request asks for is that of its one-shot identity.
LEMMA FirstRowFacts ==
  ASSUME NEW r \in Requests, Asks(r), step[r] # "IDLE"
  PROVE  /\ FirstRow(r) \in Rows /\ FirstRow(r) # Device
         /\ asks[r].under \in Contexts /\ asks[r].id \in Identities /\ asks[r].variant \in Variants
         /\ ~Establishes(r) => FirstRow(r) = <<"CONTEXT", asks[r].under>>
  BY RowsDiffer DEF Asks, FirstRow, Statement

LEMMA SameIdentitySameRow ==
  ASSUME NEW r \in Requests, NEW s \in Requests, Asks(r), Asks(s),
         step[r] # "IDLE", step[s] # "IDLE",
         asks[r].id = asks[s].id, asks[r].id \in OneShot
  PROVE  FirstRow(r) = FirstRow(s)
  BY GatewayAssumption DEF Asks, FirstRow, Establishes, OneShot

LEMMA Singletons ==
  /\ \A v : Append(<<>>, v) = <<v>> /\ Len(<<v>>) = 1
  /\ Len(<<>>) = 0
  OBVIOUS

\* A request that does not move keeps its standing, as long as its locks are
\* left to it and the rows under them are, nothing spent is given back, and
\* what it is about to spend or mint is not spent or minted by another.
LEMMA OthersStand ==
  ASSUME NEW s \in Requests, Stands(s),
         step'[s] = step[s], asks'[s] = asks[s], answer'[s] = answer[s],
         \A x \in Rows : locks[x] = s => locks'[x] = s,
         \A c \in Contexts : context[c].state # "ABSENT" => context'[c].state # "ABSENT",
         \A c \in Contexts : locks[<<"CONTEXT", c>>] = s /\ context[c].state = "OPEN"
                               => context'[c] = context[c],
         locks[Device] = s => credential' = credential,
         \A i \in OneShot : spent[i] # "NONE" => spent'[i] = spent[i],
         step[s] = "PROCEED" /\ asks[s].id \in OneShot
           => spent'[asks[s].id] = spent[asks[s].id],
         step[s] = "MINT" => leases'[asks[s].id] = leases[asks[s].id]
  PROVE  Stands(s)'
<1>1. /\ Establishes(s)' = Establishes(s) /\ FirstRow(s)' = FirstRow(s)
  BY DEF Establishes, FirstRow
<1>2. CASE step[s] = "IDLE"
  BY <1>2 DEF Stands, Asks, Holds, Judged, Locking, Replaying
<1>3. CASE step[s] # "IDLE"
  <2>1. /\ FirstRow(s) \in Rows /\ FirstRow(s) # Device
        /\ asks[s].under \in Contexts /\ asks[s].id \in Identities /\ asks[s].variant \in Variants
        /\ ~Establishes(s) => FirstRow(s) = <<"CONTEXT", asks[s].under>>
    BY <1>3, FirstRowFacts DEF Stands
  <2>2. Asks(s)'
    BY <1>1, <1>3, <2>1 DEF Stands, Asks
  <2>3. /\ step[s] \in Locking => locks'[FirstRow(s)] = s
        /\ step[s] \in Locking \ {"FIRST"} => locks'[Device] = s
        /\ step[s] \in Locking /\ ~Establishes(s) =>
             context'[asks[s].under] = context[asks[s].under]
    BY <2>1, RowsDiffer DEF Stands, Holds
  <2>4. Holds(s)'
    BY <1>1, <2>1, <2>3 DEF Stands, Holds
  <2>5. step[s] = "PROCEED" /\ asks[s].id \in Live => Authority(asks[s].under)'
    <3> SUFFICES ASSUME step[s] = "PROCEED", asks[s].id \in Live
                 PROVE  Authority(asks[s].under)'
      OBVIOUS
    <3>1. ~Establishes(s) /\ step[s] \in Locking \ {"FIRST"}
      BY GatewayAssumption DEF Establishes, Locking
    <3>2. credential' = credential
      BY <3>1 DEF Stands, Holds
    <3> QED BY <2>3, <3>1, <3>2 DEF Stands, Judged, Authority
  <2>6. \A i \in OneShot : spent[i] = asks[s].variant => spent'[i] = asks[s].variant
    BY <2>1, GatewayAssumption
  <2>7. Establishes(s) => asks[s].id \in OneShot
    BY DEF Establishes, OneShot
  <2>8. Judged(s)'
    BY <1>1, <2>5, <2>6, <2>7 DEF Stands, Judged
  <2> QED BY <2>2, <2>4, <2>8 DEF Stands
<1> QED BY <1>2, <1>3

\* What a transaction that ends gives up are its own locks.
LEMMA ReleasedFacts ==
  ASSUME TypeOK, NEW r \in Requests
  PROVE  /\ Released(r) \in [Rows -> Requests \cup {NoRequest}]
         /\ \A s \in Requests \ {r}, x \in Rows : locks[x] = s => Released(r)[x] = s
  BY DEF TypeOK, Released

\* A step of one request that changes nothing in the database.
LEMMA OthersUntouched ==
  ASSUME IInv, NEW r \in Requests,
         UNCHANGED database, credential' = credential,
         \A s \in Requests \ {r} :
           step'[s] = step[s] /\ asks'[s] = asks[s] /\ answer'[s] = answer[s],
         \A s \in Requests \ {r}, x \in Rows : locks[x] = s => locks'[x] = s
  PROVE  \A s \in Requests \ {r} : Stands(s)'
  BY OthersStand DEF IInv, database

LEMMA DatabaseStands ==
  ASSUME IInv, UNCHANGED database
  PROVE  AllOrNothing' /\ OneLeasePerCeremony' /\ CeremoniesHold' /\ QueuedHold'
  BY DEF IInv, database, AllOrNothing, OneLeasePerCeremony, CeremoniesHold, QueuedHold

---------------------------------------------------------------------------
(* Steps that write nothing to the database                                *)

LEMMA QuietStep ==
  ASSUME IInv, NEW r \in Requests, UNCHANGED <<database, world>>,
         locks' \in [Rows -> Requests \cup {NoRequest}],
         \A s \in Requests \ {r}, x \in Rows : locks[x] = s => locks'[x] = s,
         asks' \in [Requests -> Statement \cup {NoRequest}],
         NEW to \in Steps \ {"MINT"}, Move(r, to),
         answer' \in [Requests -> Answers],
         \A s \in Requests \ {r} : asks'[s] = asks[s] /\ answer'[s] = answer[s],
         Stands(r)'
  PROVE  IInv'
<1>1. /\ step' \in [Requests -> Steps] /\ step'[r] = to
      /\ \A s \in Requests \ {r} : step'[s] = step[s]
  BY DEF IInv, TypeOK, Move
<1>2. TypeOK'
  BY <1>1 DEF IInv, TypeOK, database, world
<1>3. OneMints'
  BY <1>1 DEF IInv, OneMints
<1>4. \A s \in Requests \ {r} : Stands(s)'
  BY <1>1, OthersUntouched DEF world
<1> QED BY <1>2, <1>3, <1>4, DatabaseStands DEF IInv

\* A request that is answered with a refusal, or lost, stands on what it asked.
LEMMA EndedStands ==
  ASSUME IInv, NEW r \in Requests, step[r] # "IDLE", asks' = asks, context' = context,
         spent' = spent, step'[r] \in {"ANSWERED", "LOST"},
         answer'[r] \in {"ISSUED", "COMMITTED", "CONVERGED"} =>
           asks[r].id \in OneShot /\ spent[asks[r].id] = asks[r].variant
  PROVE  Stands(r)'
<1>1. Asks(r)'
  BY DEF IInv, Stands, Asks, Establishes
<1> QED BY <1>1 DEF Stands, Holds, Judged, Locking, Replaying

LEMMA RollBackKeeps ==
  ASSUME IInv, NEW r \in Requests, step[r] # "IDLE", NEW a \in {"REFUSED", "CONFLICT", "FAILED"},
         RollBack(r, a), UNCHANGED world
  PROVE  IInv'
<1>1. /\ locks' = Released(r) /\ Move(r, "ANSWERED") /\ answer' = [answer EXCEPT ![r] = a]
      /\ asks' = asks /\ UNCHANGED <<database, world>>
  BY DEF RollBack, Answer, Move
<1>2. /\ step'[r] = "ANSWERED" /\ answer'[r] = a /\ answer' \in [Requests -> Answers]
      /\ \A s \in Requests \ {r} : answer'[s] = answer[s]
  BY <1>1 DEF IInv, TypeOK, Move, Answers
<1>3. Stands(r)'
  BY <1>1, <1>2, EndedStands DEF database
<1>4. locks' \in [Rows -> Requests \cup {NoRequest}]
      /\ \A s \in Requests \ {r}, x \in Rows : locks[x] = s => locks'[x] = s
  BY <1>1, ReleasedFacts DEF IInv
<1>5. asks' \in [Requests -> Statement \cup {NoRequest}] /\ "ANSWERED" \in Steps \ {"MINT"}
  BY <1>1 DEF IInv, TypeOK, Steps
<1> QED BY <1>1, <1>2, <1>3, <1>4, <1>5, QuietStep

LEMMA DetectDeadlockKeeps ==
  ASSUME IInv, NEW r \in Requests, NEW s \in Requests, DetectDeadlock(r, s)
  PROVE  IInv'
<1>1. step[r] # "IDLE"
  BY DEF DetectDeadlock, Blocks, WaitsFor
<1> QED BY <1>1, RollBackKeeps DEF DetectDeadlock

LEMMA CrashKeeps ==
  ASSUME IInv, NEW r \in Requests, Crash(r)
  PROVE  IInv'
<1>1. /\ step[r] # "IDLE" /\ locks' = Released(r) /\ Move(r, "LOST") /\ answer' = answer
      /\ asks' = asks /\ UNCHANGED <<database, world>>
  BY DEF Crash
<1>2. step'[r] = "LOST" /\ "LOST" \in Steps \ {"MINT"}
  BY <1>1 DEF IInv, TypeOK, Move, Steps
<1>3. Stands(r)'
  BY <1>1, <1>2, EndedStands DEF database, IInv, Stands, Judged
<1>4. locks' \in [Rows -> Requests \cup {NoRequest}]
      /\ \A s \in Requests \ {r}, x \in Rows : locks[x] = s => locks'[x] = s
  BY <1>1, ReleasedFacts DEF IInv
<1>5. /\ asks' \in [Requests -> Statement \cup {NoRequest}] /\ answer' \in [Requests -> Answers]
  BY <1>1 DEF IInv, TypeOK
<1> QED BY <1>1, <1>2, <1>3, <1>4, <1>5, QuietStep

LEMMA ArriveKeeps ==
  ASSUME IInv, NEW r \in Requests, NEW id \in Identities, NEW variant \in Variants,
         NEW c \in Contexts, Arrive(r, id, variant, c)
  PROVE  IInv'
<1> DEFINE statement == [id |-> id, variant |-> variant, under |-> c]
<1>1. /\ step[r] = "IDLE" /\ BoundVersion(id, c) # 0
      /\ IF id \in Contexts THEN c = id ELSE id \in Live => c = Under[id]
      /\ asks' = [asks EXCEPT ![r] = statement] /\ UNCHANGED <<locks, database, world>>
  BY DEF Arrive
<1>2. PICK to \in {"READY", "ANSWERED"} :
        /\ Move(r, to)
        /\ \/ answer' = answer
           \/ \E a \in {"CONFLICT", "REFUSED"} : answer' = [answer EXCEPT ![r] = a]
  BY DEF Arrive, Answer, Move
<1>3. /\ asks'[r] = statement /\ asks' \in [Requests -> Statement \cup {NoRequest}]
      /\ \A s \in Requests \ {r} : asks'[s] = asks[s]
  BY <1>1 DEF IInv, TypeOK, Statement
<1>4. /\ answer' \in [Requests -> Answers]
      /\ \A s \in Requests \ {r} : answer'[s] = answer[s]
      /\ answer'[r] \notin {"ISSUED", "COMMITTED", "CONVERGED"}
  BY <1>1, <1>2 DEF IInv, TypeOK, Answers, Stands, Judged
<1>5. step'[r] = to
  BY <1>2 DEF IInv, TypeOK, Move
<1>6. id \notin Contexts => context[c].state # "ABSENT"
  BY <1>1 DEF BoundVersion, IInv, CeremoniesHold
<1>7. Stands(r)'
  <2>1. statement \in Statement /\ context' = context
    BY <1>1 DEF Statement, database
  <2>2. statement.id = id /\ statement.under = c
    OBVIOUS
  <2> HIDE DEF statement
  <2>3. Asks(r)'
    BY <1>1, <1>3, <1>6, <2>1, <2>2, GatewayAssumption DEF Asks, Establishes
  <2>4. Holds(r)' /\ Judged(r)'
    BY <1>4, <1>5 DEF Holds, Judged, Locking, Replaying
  <2> QED BY <2>3, <2>4 DEF Stands
<1>8. /\ locks' \in [Rows -> Requests \cup {NoRequest}]
      /\ \A s \in Requests \ {r}, x \in Rows : locks[x] = s => locks'[x] = s
      /\ to \in Steps \ {"MINT"}
  BY <1>1 DEF IInv, TypeOK, Steps
<1> QED BY <1>1, <1>2, <1>3, <1>4, <1>7, <1>8, QuietStep

LEMMA LockFirstKeeps ==
  ASSUME IInv, NEW r \in Requests, LockFirst(r)
  PROVE  IInv'
<1>1. step[r] = "READY" /\ Free(FirstRow(r)) /\ UNCHANGED world
  BY DEF LockFirst
<1>2. CASE ~Establishes(r) /\ context[asks[r].under].state = "CLOSED"
  BY <1>1, <1>2, RollBackKeeps DEF LockFirst
<1>3. CASE ~(~Establishes(r) /\ context[asks[r].under].state = "CLOSED")
  <2>1. /\ locks' = [locks EXCEPT ![FirstRow(r)] = r] /\ Move(r, "FIRST")
        /\ UNCHANGED <<asks, answer, database, world>>
    BY <1>3 DEF LockFirst, Locked
  <2>2. /\ FirstRow(r) \in Rows /\ asks[r].under \in Contexts
    BY <1>1, FirstRowFacts DEF IInv, Stands
  <2>3. /\ locks' \in [Rows -> Requests \cup {NoRequest}] /\ locks'[FirstRow(r)] = r
        /\ \A s \in Requests \ {r}, x \in Rows : locks[x] = s => locks'[x] = s
    BY <1>1, <2>1, <2>2, GatewayAssumption DEF IInv, TypeOK, Free
  <2>4. step'[r] = "FIRST" /\ "FIRST" \in Steps \ {"MINT"}
    BY <2>1 DEF IInv, TypeOK, Move, Steps
  <2>5. ~Establishes(r) => context[asks[r].under].state = "OPEN"
    <3>1. context[asks[r].under].state \in {"ABSENT", "OPEN", "CLOSED"}
      BY <2>2 DEF IInv, TypeOK, ContextRow
    <3> QED BY <1>1, <1>3, <3>1 DEF IInv, Stands, Asks
  <2>6. Establishes(r)' = Establishes(r) /\ FirstRow(r)' = FirstRow(r)
    BY <2>1 DEF Establishes, FirstRow
  <2>7. Asks(r)'
    BY <1>1, <2>1, <2>6 DEF IInv, Stands, Asks, database
  <2>8. Holds(r)' /\ Judged(r)'
    BY <1>1, <2>1, <2>3, <2>4, <2>5, <2>6 DEF IInv, Stands, Holds, Judged, Replaying, database
  <2> QED BY <2>1, <2>3, <2>4, <2>7, <2>8, QuietStep DEF Stands, IInv, TypeOK
<1> QED BY <1>2, <1>3

LEMMA LockDeviceKeeps ==
  ASSUME IInv, NEW r \in Requests, LockDevice(r)
  PROVE  IInv'
<1>1. /\ step[r] = "FIRST" /\ Free(Device) /\ locks' = [locks EXCEPT ![Device] = r]
      /\ Move(r, "BOTH") /\ UNCHANGED <<asks, answer, database, world>>
  BY DEF LockDevice, Locked
<1>2. /\ FirstRow(r) \in Rows /\ FirstRow(r) # Device
  BY <1>1, FirstRowFacts DEF IInv, Stands
<1>3. /\ locks' \in [Rows -> Requests \cup {NoRequest}] /\ locks'[Device] = r
      /\ locks'[FirstRow(r)] = locks[FirstRow(r)]
      /\ \A s \in Requests \ {r}, x \in Rows : locks[x] = s => locks'[x] = s
  BY <1>1, <1>2, RowsDiffer, GatewayAssumption DEF IInv, TypeOK, Free
<1>4. step'[r] = "BOTH" /\ "BOTH" \in Steps \ {"MINT"}
  BY <1>1 DEF IInv, TypeOK, Move, Steps
<1>5. Establishes(r)' = Establishes(r) /\ FirstRow(r)' = FirstRow(r)
  BY <1>1 DEF Establishes, FirstRow
<1>6. Asks(r)'
  BY <1>1, <1>5 DEF IInv, Stands, Asks, database
<1>7. Holds(r)' /\ Judged(r)'
  BY <1>1, <1>3, <1>4, <1>5 DEF IInv, Stands, Holds, Judged, Locking, Replaying, database
<1> QED BY <1>1, <1>3, <1>4, <1>6, <1>7, QuietStep DEF Stands, IInv, TypeOK

\* What a verdict that lets a request on has found.
LEMMA VerdictFacts ==
  ASSUME NEW id \in Identities, NEW variant \in Variants, NEW c \in Contexts,
         NEW verdict, verdict = Verdict(id, variant, c), ~Rejected(id, verdict, c)
  PROVE  /\ verdict \in {"PROCEED", "CONVERGE"}
         /\ id \in Queued => verdict = "PROCEED"
         /\ verdict = "PROCEED" /\ id \notin Queued => spent[id] = "NONE"
         /\ verdict = "CONVERGE" => spent[id] = variant
         /\ id \in Live => Authority(c)
  BY GatewayAssumption
     DEF Verdict, Rejected, Refused, Classify, RegistryAdmits, Authority

LEMMA JudgeKeeps ==
  ASSUME IInv, NEW r \in Requests, Judge(r)
  PROVE  IInv'
<1> DEFINE a == asks[r]
           verdict == Verdict(a.id, a.variant, a.under)
<1>1. step[r] = "BOTH" /\ UNCHANGED world
  BY DEF Judge
<1>2. /\ a \in Statement /\ a.id \in Identities /\ a.variant \in Variants /\ a.under \in Contexts
  BY <1>1, FirstRowFacts DEF IInv, Stands, Asks
<1>3. CASE Rejected(a.id, verdict, a.under)
  <2>1. PICK why \in {"REFUSED", "CONFLICT"} : RollBack(r, why)
    BY <1>3 DEF Judge
  <2> QED BY <1>1, <2>1, RollBackKeeps
<1>4. CASE ~Rejected(a.id, verdict, a.under)
  <2>1. Move(r, verdict) /\ UNCHANGED <<locks, asks, answer, database, world>>
    BY <1>4 DEF Judge
  <2>2. /\ verdict \in {"PROCEED", "CONVERGE"}
        /\ a.id \in Queued => verdict = "PROCEED"
        /\ verdict = "PROCEED" /\ a.id \notin Queued => spent[a.id] = "NONE"
        /\ verdict = "CONVERGE" => spent[a.id] = a.variant
        /\ a.id \in Live => Authority(a.under)
    BY <1>2, <1>4, VerdictFacts
  <2> HIDE DEF verdict
  <2>3. step'[r] = verdict /\ verdict \in Steps \ {"MINT"}
    BY <2>1, <2>2 DEF IInv, TypeOK, Move, Steps
  <2>4. Establishes(r)' = Establishes(r) /\ FirstRow(r)' = FirstRow(r)
        /\ Authority(a.under)' = Authority(a.under)
    BY <2>1 DEF Establishes, FirstRow, Authority, database, world
  <2>5. Asks(r)'
    BY <1>1, <2>1, <2>4 DEF IInv, Stands, Asks, database
  <2>6. Holds(r)'
    BY <1>1, <2>1, <2>2, <2>3, <2>4 DEF IInv, Stands, Holds, Locking, Replaying, database
  <2>7. Judged(r)'
    <3>1. a.id \in OneShot <=> a.id \notin Queued
      BY <1>2, GatewayAssumption DEF Identities, OneShot
    <3>2. asks' = asks /\ spent' = spent /\ answer' = answer
      BY <2>1 DEF database
    <3>3. answer[r] \in {"ISSUED", "COMMITTED", "CONVERGED"} =>
            asks[r].id \in OneShot /\ spent[asks[r].id] = asks[r].variant
      BY DEF IInv, Stands, Judged
    <3> QED BY <2>2, <2>3, <2>4, <3>1, <3>2, <3>3 DEF Judged
  <2> QED BY <2>1, <2>3, <2>5, <2>6, <2>7, QuietStep DEF Stands, IInv, TypeOK
<1> QED BY <1>3, <1>4

\* A request that leaves its transaction, or the door, without a write.
LEMMA LeavingKeeps ==
  ASSUME IInv, NEW r \in Requests, step[r] # "IDLE", asks' = asks, UNCHANGED <<database, world>>,
         locks' = locks \/ locks' = Released(r),
         NEW to \in {"AUTHENTICATED", "ADMITTED", "ANSWERED"}, Move(r, to),
         NEW a \in Answers, answer' = [answer EXCEPT ![r] = a],
         a \in {"ISSUED", "COMMITTED", "CONVERGED"} =>
           asks[r].id \in OneShot /\ spent[asks[r].id] = asks[r].variant,
         to \in Replaying => asks[r].id \in Queued
  PROVE  IInv'
<1>1. step'[r] = to /\ to \in Steps \ {"MINT"}
  BY DEF IInv, TypeOK, Move, Steps
<1>2. /\ locks' \in [Rows -> Requests \cup {NoRequest}]
      /\ \A s \in Requests \ {r}, x \in Rows : locks[x] = s => locks'[x] = s
  BY ReleasedFacts DEF IInv, TypeOK
<1>3. /\ answer' \in [Requests -> Answers] /\ answer'[r] = a
      /\ \A s \in Requests \ {r} : answer'[s] = answer[s]
      /\ asks' \in [Requests -> Statement \cup {NoRequest}]
  BY DEF IInv, TypeOK
<1>4. Asks(r)'
  BY DEF IInv, Stands, Asks, Establishes, database
<1>5. Holds(r)' /\ Judged(r)'
  BY <1>1, <1>3 DEF Holds, Judged, Locking, Replaying, database
<1> QED BY <1>1, <1>2, <1>3, <1>4, <1>5, QuietStep DEF Stands

\* Leaving with the answer one has.
LEMMA SameAnswer ==
  ASSUME IInv, NEW r \in Requests
  PROVE  /\ answer = [answer EXCEPT ![r] = answer[r]] /\ answer[r] \in Answers
         /\ answer[r] \in {"ISSUED", "COMMITTED", "CONVERGED"} =>
              asks[r].id \in OneShot /\ spent[asks[r].id] = asks[r].variant
  BY DEF IInv, TypeOK, Stands, Judged

LEMMA AuthenticateKeeps ==
  ASSUME IInv, NEW r \in Requests, Authenticate(r)
  PROVE  IInv'
<1>1. /\ step[r] # "IDLE" /\ locks' = Released(r) /\ Move(r, "AUTHENTICATED")
      /\ asks' = asks /\ answer' = answer /\ UNCHANGED <<database, world>>
  BY DEF Authenticate
<1>2. asks[r].id \in Queued
  BY DEF Authenticate
<1>3. answer' = [answer EXCEPT ![r] = answer[r]]
  BY <1>1, SameAnswer
<1> QED BY <1>1, <1>2, <1>3, SameAnswer, LeavingKeeps

LEMMA AdmitKeeps ==
  ASSUME IInv, NEW r \in Requests, Admit(r)
  PROVE  IInv'
<1>1. step[r] # "IDLE" /\ UNCHANGED <<locks, asks, database, world>>
      /\ asks[r].id \in Queued
  BY DEF Admit, IInv, Stands, Holds, Replaying
<1>2. CASE Move(r, "ADMITTED") /\ UNCHANGED answer
  <2>1. answer' = [answer EXCEPT ![r] = answer[r]]
    BY <1>2, SameAnswer
  <2> QED BY <1>1, <1>2, <2>1, SameAnswer, LeavingKeeps
<1>3. ASSUME NEW a \in {"CONFLICT", "REFUSED"}, Answer(r, a) PROVE IInv'
  <2>1. Move(r, "ANSWERED") /\ answer' = [answer EXCEPT ![r] = a] /\ a \in Answers
    BY <1>3 DEF Answer, Move, Answers
  <2> QED BY <1>1, <2>1, LeavingKeeps DEF Replaying
<1> QED BY <1>2, <1>3 DEF Admit

LEMMA ConvergeKeeps ==
  ASSUME IInv, NEW r \in Requests, ConvergeContext(r) \/ ConvergeStatement(r)
  PROVE  IInv'
<1>1. step[r] = "CONVERGE" /\ UNCHANGED world
  BY DEF ConvergeContext, ConvergeStatement
<1>2. CASE RollBack(r, "REFUSED")
  BY <1>1, <1>2, RollBackKeeps
<1>3. CASE Answer(r, "CONVERGED") /\ locks' = Released(r) /\ UNCHANGED <<asks, database>>
  <2>1. /\ Move(r, "ANSWERED") /\ answer' = [answer EXCEPT ![r] = "CONVERGED"]
        /\ "CONVERGED" \in Answers
    BY <1>3 DEF Answer, Move, Answers
  <2>2. asks[r].id \in OneShot /\ spent[asks[r].id] = asks[r].variant
    BY <1>1 DEF IInv, Stands, Judged
  <2> QED BY <1>1, <1>3, <2>1, <2>2, LeavingKeeps DEF Replaying
<1> QED BY <1>2, <1>3 DEF ConvergeContext, ConvergeStatement, AnswerConverged

---------------------------------------------------------------------------
(* Steps that write                                                        *)

\* Who is about to spend an identity, or may be taken for it, holds its row.
LEMMA SpenderIsAlone ==
  ASSUME IInv, NEW r \in Requests, NEW s \in Requests \ {r},
         step[r] \in Locking, step[s] \in Locking, asks[r].id \in OneShot
  PROVE  asks[s].id # asks[r].id
<1> SUFFICES ASSUME asks[s].id = asks[r].id PROVE FALSE
  OBVIOUS
<1>1. FirstRow(r) = FirstRow(s)
  BY SameIdentitySameRow DEF IInv, Stands, Locking
<1> QED BY <1>1 DEF IInv, Stands, Holds

\* A live statement's effect: its identity is spent, its event written.
LEMMA CommitFacts ==
  ASSUME IInv, NEW i \in OneShot, NEW v \in Variants, spent[i] = "NONE",
         spent' = [spent EXCEPT ![i] = v],
         effects' = [effects EXCEPT ![i] = Append(@, v)],
         events' = [events EXCEPT ![i] = @ + 1]
  PROVE  /\ spent' \in [Identities -> ConsumptionRow] /\ events' \in [Identities -> Nat]
         /\ effects' \in [Identities -> Seq(Variants)]
         /\ spent'[i] = v /\ \A j \in Identities \ {i} : spent'[j] = spent[j]
         /\ \A q \in Queued : effects'[q] = effects[q]
         /\ AllOrNothing'
<1>1. /\ i \in Identities /\ effects[i] = <<>> /\ events[i] = 0
  BY Singletons DEF IInv, AllOrNothing, OneShot, Identities
<1>2. effects'[i] = <<v>> /\ \A j \in Identities \ {i} : effects'[j] = effects[j]
  BY <1>1, Singletons DEF IInv, TypeOK
<1>3. events'[i] = 1 /\ \A j \in Identities \ {i} : events'[j] = events[j]
  BY <1>1 DEF IInv, TypeOK
<1>4. spent'[i] = v /\ \A j \in Identities \ {i} : spent'[j] = spent[j]
  BY <1>1 DEF IInv, TypeOK
<1>5. /\ spent' \in [Identities -> ConsumptionRow] /\ events' \in [Identities -> Nat]
      /\ effects' \in [Identities -> Seq(Variants)]
  BY <1>1 DEF IInv, TypeOK, ConsumptionRow
<1>6. AllOrNothing'
  <2> SUFFICES ASSUME NEW j \in OneShot
               PROVE  /\ effects'[j] = IF spent'[j] = "NONE" THEN <<>> ELSE <<spent'[j]>>
                      /\ events'[j] = Len(effects'[j])
    BY DEF AllOrNothing, OneShot
  <2>1. CASE j = i
    <3>1. v # "NONE"
      BY GatewayAssumption
    <3>2. effects'[i] = <<v>> /\ events'[i] = 1 /\ spent'[i] = v /\ Len(<<v>>) = 1
      BY <1>2, <1>3, <1>4, Singletons
    <3> QED BY <2>1, <3>1, <3>2, Zenon
  <2>2. CASE j # i
    <3>1. effects'[j] = effects[j] /\ events'[j] = events[j] /\ spent'[j] = spent[j]
      BY <1>2, <1>3, <1>4, <2>2 DEF OneShot, Identities
    <3>2. /\ effects[j] = IF spent[j] = "NONE" THEN <<>> ELSE <<spent[j]>>
          /\ events[j] = Len(effects[j])
      BY DEF IInv, AllOrNothing, OneShot
    <3> QED BY <3>1, <3>2
  <2> QED BY <2>1, <2>2
<1>7. \A q \in Queued : effects'[q] = effects[q]
  BY <1>2, GatewayAssumption DEF OneShot, Identities
<1> QED BY <1>4, <1>5, <1>6, <1>7

LEMMA IssueContextKeeps ==
  ASSUME IInv, NEW r \in Requests, IssueContext(r)
  PROVE  IInv'
<1> DEFINE c == asks[r].under
           v == asks[r].variant
<1>1. /\ step[r] = "PROCEED" /\ Establishes(r)
      /\ context' = [context EXCEPT ![c] = [state |-> "OPEN", version |-> challenge[c]]]
      /\ spent' = [spent EXCEPT ![c] = v]
      /\ effects' = [effects EXCEPT ![c] = Append(@, v)]
      /\ events' = [events EXCEPT ![c] = @ + 1]
      /\ locks' = Released(r) /\ Move(r, "MINT")
      /\ UNCHANGED <<challenge, leases, receipt, asks, answer, world>>
  BY DEF IssueContext
<1>2. /\ c = asks[r].id /\ c \in Contexts /\ c \in OneShot /\ v \in Variants
      /\ c \in Identities
  BY <1>1, FirstRowFacts DEF IInv, Stands, Asks, Establishes, OneShot
<1>3. spent[c] = "NONE" /\ context[c].state = "ABSENT" /\ leases[c] = 0
  BY <1>1, <1>2 DEF IInv, Stands, Judged, CeremoniesHold
<1> HIDE DEF c, v
<1>4. /\ spent' \in [Identities -> ConsumptionRow] /\ events' \in [Identities -> Nat]
      /\ effects' \in [Identities -> Seq(Variants)]
      /\ spent'[c] = v /\ \A j \in Identities \ {c} : spent'[j] = spent[j]
      /\ \A q \in Queued : effects'[q] = effects[q]
      /\ AllOrNothing'
  BY <1>1, <1>2, <1>3, CommitFacts
<1>5. /\ context' \in [Contexts -> ContextRow]
      /\ context'[c].state = "OPEN" /\ \A d \in Contexts \ {c} : context'[d] = context[d]
  <2> DEFINE row == [state |-> "OPEN", version |-> challenge[c]]
  <2>1. row \in ContextRow /\ row.state = "OPEN"
    BY <1>2 DEF IInv, TypeOK, ContextRow, ChallengeRow
  <2> HIDE DEF row
  <2>2. context' = [context EXCEPT ![c] = row]
    BY <1>1 DEF row
  <2> QED BY <1>2, <2>1, <2>2 DEF IInv, TypeOK
<1>6. /\ step' \in [Requests -> Steps] /\ step'[r] = "MINT"
      /\ \A s \in Requests \ {r} : step'[s] = step[s]
  BY <1>1 DEF IInv, TypeOK, Move, Steps
<1>7. TypeOK'
  BY <1>1, <1>4, <1>5, <1>6, ReleasedFacts DEF IInv, TypeOK, world
<1>8. v # "NONE"
  BY <1>2, GatewayAssumption
<1>9. CeremoniesHold' /\ QueuedHold' /\ OneLeasePerCeremony'
  <2>1. \A d \in Contexts \ {c} : context'[d] = context[d] /\ spent'[d] = spent[d]
    BY <1>4, <1>5 DEF Identities
  <2>2. CeremoniesHold'
    BY <1>1, <1>4, <1>5, <1>8, <2>1 DEF IInv, CeremoniesHold
  <2>3. QueuedHold' /\ OneLeasePerCeremony'
    BY <1>1, <1>4 DEF IInv, QueuedHold, OneLeasePerCeremony
  <2> QED BY <2>2, <2>3
<1>10. OneMints'
  <2>1. ASSUME NEW s \in Requests \ {r}, step[s] = "MINT" PROVE asks[s].id # c
    BY <1>2, <1>3, <2>1, FirstRowFacts, GatewayAssumption DEF IInv, Stands, Judged
  <2> QED BY <1>1, <1>2, <1>6, <2>1 DEF IInv, OneMints
<1>11. Stands(r)'
  <2>1. Establishes(r)' = Establishes(r) /\ asks' = asks /\ answer' = answer
    BY <1>1 DEF Establishes
  <2>2. Asks(r)'
    BY <1>1, <2>1 DEF IInv, Stands, Asks
  <2>3. Holds(r)'
    BY <1>6 DEF Holds, Locking, Replaying
  <2>4. answer[r] \notin {"ISSUED", "COMMITTED", "CONVERGED"}
    BY <1>2, <1>3, <1>8 DEF IInv, Stands, Judged, v
  <2>5. Judged(r)'
    BY <1>1, <1>2, <1>3, <1>4, <1>6, <2>1, <2>4 DEF Judged, v
  <2> QED BY <2>2, <2>3, <2>5 DEF Stands
<1>12. ASSUME NEW s \in Requests \ {r} PROVE Stands(s)'
  <2>1. /\ step'[s] = step[s] /\ asks'[s] = asks[s] /\ answer'[s] = answer[s]
        /\ \A x \in Rows : locks[x] = s => locks'[x] = s
        /\ credential' = credential /\ leases' = leases
    BY <1>1, <1>6, ReleasedFacts DEF IInv, world
  <2>2. /\ \A d \in Contexts : context[d].state # "ABSENT" => context'[d].state # "ABSENT"
        /\ \A d \in Contexts : locks[<<"CONTEXT", d>>] = s /\ context[d].state = "OPEN"
                                 => context'[d] = context[d]
    BY <1>3, <1>5
  <2>3. \A i \in OneShot : spent[i] # "NONE" => spent'[i] = spent[i]
    BY <1>3, <1>4 DEF OneShot, Identities
  <2>4. step[s] = "PROCEED" /\ asks[s].id \in OneShot => spent'[asks[s].id] = spent[asks[s].id]
    <3>1. step[s] = "PROCEED" => asks[s].id # c
      BY <1>1, <1>2, SpenderIsAlone DEF Locking
    <3> QED BY <1>4, <3>1 DEF OneShot, Identities
  <2>5. Stands(s)
    BY DEF IInv
  <2> QED BY <2>1, <2>2, <2>3, <2>4, <2>5, OthersStand
<1> QED BY <1>4, <1>7, <1>9, <1>10, <1>11, <1>12 DEF IInv

\* The step at which a live statement takes effect.
Commits(r) ==
  LET a == asks[r] IN
  /\ spent' = [spent EXCEPT ![a.id] = a.variant]
  /\ effects' = [effects EXCEPT ![a.id] = Append(@, a.variant)]
  /\ events' = [events EXCEPT ![a.id] = @ + 1]
  /\ locks' = Released(r) /\ Answer(r, "COMMITTED")
  /\ UNCHANGED <<challenge, context, leases, receipt, asks>>

LEMMA ExecuteKeeps ==
  ASSUME IInv, NEW r \in Requests, Execute(r)
  PROVE  IInv'
<1>1. step[r] = "PROCEED" /\ asks[r].id \in Live /\ UNCHANGED world
  BY DEF Execute
<1>2. CASE RollBack(r, "REFUSED")
  BY <1>1, <1>2, RollBackKeeps
<1>3. CASE Commits(r)
  <2> DEFINE i == asks[r].id
             v == asks[r].variant
  <2>1. /\ spent' = [spent EXCEPT ![i] = v] /\ effects' = [effects EXCEPT ![i] = Append(@, v)]
        /\ events' = [events EXCEPT ![i] = @ + 1]
        /\ locks' = Released(r) /\ Move(r, "ANSWERED")
        /\ answer' = [answer EXCEPT ![r] = "COMMITTED"]
        /\ UNCHANGED <<challenge, context, leases, receipt, asks>>
    BY <1>3 DEF Commits, Answer, Move
  <2>2. /\ i \in OneShot /\ i \in Identities /\ v \in Variants /\ i \notin Contexts
        /\ spent[i] = "NONE"
    BY <1>1, FirstRowFacts, GatewayAssumption DEF IInv, Stands, Judged, OneShot
  <2> HIDE DEF i, v
  <2>3. /\ spent' \in [Identities -> ConsumptionRow] /\ events' \in [Identities -> Nat]
        /\ effects' \in [Identities -> Seq(Variants)]
        /\ spent'[i] = v /\ \A j \in Identities \ {i} : spent'[j] = spent[j]
        /\ \A q \in Queued : effects'[q] = effects[q]
        /\ AllOrNothing'
    BY <2>1, <2>2, CommitFacts
  <2>4. /\ step' \in [Requests -> Steps] /\ step'[r] = "ANSWERED"
        /\ answer' \in [Requests -> Answers] /\ answer'[r] = "COMMITTED"
        /\ \A s \in Requests \ {r} : step'[s] = step[s] /\ answer'[s] = answer[s]
    BY <2>1 DEF IInv, TypeOK, Move, Steps, Answers
  <2>5. TypeOK'
    BY <1>1, <2>1, <2>3, <2>4, ReleasedFacts DEF IInv, TypeOK, world
  <2>6. CeremoniesHold' /\ QueuedHold' /\ OneLeasePerCeremony'
    <3>1. \A c \in Contexts : spent'[c] = spent[c]
      BY <2>2, <2>3 DEF Identities
    <3>2. CeremoniesHold'
      BY <2>1, <3>1 DEF IInv, CeremoniesHold
    <3> QED BY <2>1, <2>3, <3>2 DEF IInv, QueuedHold, OneLeasePerCeremony
  <2>7. OneMints'
    BY <2>1, <2>4 DEF IInv, OneMints
  <2>8. Stands(r)'
    <3>1. Asks(r)'
      BY <1>1, <2>1 DEF IInv, Stands, Asks, Establishes
    <3>2. Holds(r)' /\ Judged(r)'
      BY <2>1, <2>2, <2>3, <2>4 DEF Holds, Judged, Locking, Replaying, i, v
    <3> QED BY <3>1, <3>2 DEF Stands
  <2>9. ASSUME NEW s \in Requests \ {r} PROVE Stands(s)'
    <3>1. /\ step'[s] = step[s] /\ asks'[s] = asks[s] /\ answer'[s] = answer[s]
          /\ \A x \in Rows : locks[x] = s => locks'[x] = s
          /\ credential' = credential /\ leases' = leases /\ context' = context
      BY <1>1, <2>1, <2>4, ReleasedFacts DEF IInv, world
    <3>2. \A j \in OneShot : spent[j] # "NONE" => spent'[j] = spent[j]
      BY <2>2, <2>3 DEF OneShot, Identities
    <3>3. step[s] = "PROCEED" /\ asks[s].id \in OneShot
            => spent'[asks[s].id] = spent[asks[s].id]
      <4>1. step[s] = "PROCEED" => asks[s].id # i
        BY <1>1, <2>2, SpenderIsAlone DEF Locking, i
      <4> QED BY <2>3, <4>1 DEF OneShot, Identities
    <3>4. Stands(s)
      BY DEF IInv
    <3> QED BY <3>1, <3>2, <3>3, <3>4, OthersStand
  <2> QED BY <2>3, <2>5, <2>6, <2>7, <2>8, <2>9 DEF IInv
<1> QED BY <1>2, <1>3 DEF Execute, Commits

LEMMA MintLeaseKeeps ==
  ASSUME IInv, NEW r \in Requests, MintLease(r)
  PROVE  IInv'
<1> DEFINE c == asks[r].under
           n == IF authorised THEN leases[c] + 1 ELSE leases[c]
<1>1. /\ step[r] = "MINT" /\ leases' = [leases EXCEPT ![c] = n]
      /\ Move(r, "ANSWERED") /\ answer' = [answer EXCEPT ![r] = "ISSUED"]
      /\ UNCHANGED <<challenge, context, spent, effects, receipt, events, locks, asks, world>>
  BY DEF MintLease, Answer, Move
<1>2. /\ c \in Contexts /\ asks[r].id = c /\ leases[c] = 0 /\ spent[c] = asks[r].variant
      /\ asks[r].variant \in Variants
  BY <1>1, FirstRowFacts DEF IInv, Stands, Asks, Judged
<1>3. n \in {0, 1}
  BY <1>2
<1> HIDE DEF n
<1>4. /\ leases' \in [Contexts -> Nat] /\ leases'[c] = n
      /\ \A d \in Contexts \ {c} : leases'[d] = leases[d]
  BY <1>1, <1>2, <1>3 DEF IInv, TypeOK
<1>5. /\ step' \in [Requests -> Steps] /\ step'[r] = "ANSWERED"
      /\ answer' \in [Requests -> Answers] /\ answer'[r] = "ISSUED"
      /\ \A s \in Requests \ {r} : step'[s] = step[s] /\ answer'[s] = answer[s]
  BY <1>1 DEF IInv, TypeOK, Move, Steps, Answers
<1>6. TypeOK'
  BY <1>1, <1>4, <1>5 DEF IInv, TypeOK, world
<1>7. AllOrNothing' /\ QueuedHold' /\ OneLeasePerCeremony' /\ CeremoniesHold'
  <2>1. spent[c] # "NONE"
    BY <1>2, GatewayAssumption
  <2> QED BY <1>1, <1>3, <1>4, <2>1
          DEF IInv, AllOrNothing, QueuedHold, OneLeasePerCeremony, CeremoniesHold
<1>8. OneMints'
  BY <1>1, <1>5 DEF IInv, OneMints
<1>9. Stands(r)'
  <2>1. Asks(r)'
    BY <1>1 DEF IInv, Stands, Asks, Establishes
  <2>2. Holds(r)' /\ Judged(r)'
    BY <1>1, <1>2, <1>5 DEF Holds, Judged, Locking, Replaying, OneShot
  <2> QED BY <2>1, <2>2 DEF Stands
<1>10. ASSUME NEW s \in Requests \ {r} PROVE Stands(s)'
  <2>1. /\ step'[s] = step[s] /\ asks'[s] = asks[s] /\ answer'[s] = answer[s]
        /\ \A x \in Rows : locks[x] = s => locks'[x] = s
        /\ credential' = credential /\ context' = context /\ spent' = spent
    BY <1>1, <1>5 DEF world
  <2>2. step[s] = "MINT" => leases'[asks[s].id] = leases[asks[s].id]
    <3> SUFFICES ASSUME step[s] = "MINT" PROVE leases'[asks[s].id] = leases[asks[s].id]
      OBVIOUS
    <3>1. asks[s].id # c
      BY <1>1, <1>2 DEF IInv, OneMints
    <3>2. asks[s].id \in Contexts
      BY DEF IInv, Stands, Judged, Establishes
    <3> QED BY <1>4, <3>1, <3>2
  <2>3. Stands(s)
    BY DEF IInv
  <2> QED BY <2>1, <2>2, <2>3, OthersStand
<1> QED BY <1>6, <1>7, <1>8, <1>9, <1>10 DEF IInv

---------------------------------------------------------------------------
(* Queued statements                                                       *)

\* A replay step moves nothing a ceremony or a live statement stands on.
LEMMA ReplayStep ==
  ASSUME IInv, NEW r \in Requests, step[r] \in Replaying, UNCHANGED <<context, leases, locks, asks, world>>,
         NEW to \in {"SPENT", "ANSWERED", "LOST"}, Move(r, to),
         NEW a \in Answers, answer' = [answer EXCEPT ![r] = a],
         a = "ACCEPTED" \/ a = answer[r],
         \A i \in OneShot : /\ spent'[i] = spent[i] /\ effects'[i] = effects[i]
                            /\ events'[i] = events[i],
         TypeOK', QueuedHold'
  PROVE  IInv'
<1>1. /\ step'[r] = to /\ answer'[r] = a
      /\ \A s \in Requests \ {r} : step'[s] = step[s] /\ answer'[s] = answer[s]
  BY DEF IInv, TypeOK, Move
<1>2. asks[r].id \in Queued /\ step[r] # "IDLE"
  BY DEF IInv, Stands, Holds, Replaying
<1>3. answer[r] \notin {"ISSUED", "COMMITTED", "CONVERGED"}
  BY <1>2, GatewayAssumption DEF IInv, Stands, Judged, OneShot
<1>4. Stands(r)'
  <2>1. Asks(r)'
    BY <1>2 DEF IInv, Stands, Asks, Establishes
  <2>2. Holds(r)' /\ Judged(r)'
    BY <1>1, <1>2, <1>3 DEF Holds, Judged, Locking, Replaying
  <2> QED BY <2>1, <2>2 DEF Stands
<1>5. ASSUME NEW s \in Requests \ {r} PROVE Stands(s)'
  <2>1. /\ step'[s] = step[s] /\ asks'[s] = asks[s] /\ answer'[s] = answer[s]
        /\ \A x \in Rows : locks[x] = s => locks'[x] = s
        /\ credential' = credential /\ context' = context /\ leases' = leases
    BY <1>1 DEF world
  <2>2. Stands(s)
    BY DEF IInv
  <2> QED BY <2>1, <2>2, OthersStand
<1>6. AllOrNothing' /\ OneLeasePerCeremony' /\ CeremoniesHold'
  <2>1. \A c \in Contexts : spent'[c] = spent[c]
    BY DEF OneShot
  <2>2. AllOrNothing'
    BY <2>1 DEF IInv, AllOrNothing, OneShot
  <2>3. OneLeasePerCeremony'
    BY <2>1 DEF IInv, OneLeasePerCeremony, OneShot
  <2>4. CeremoniesHold'
    BY <2>1 DEF IInv, CeremoniesHold, OneShot
  <2> QED BY <2>2, <2>3, <2>4
<1>7. OneMints'
  BY <1>1 DEF IInv, OneMints
<1> QED BY <1>4, <1>5, <1>6, <1>7 DEF IInv

LEMMA SpendKeeps ==
  ASSUME IInv, NEW r \in Requests, Spend(r)
  PROVE  IInv'
<1> DEFINE q == asks[r].id
           v == IF spent[q] = "NONE" THEN asks[r].variant ELSE spent[q]
<1>1. /\ step[r] = "ADMITTED" /\ Move(r, "SPENT") /\ spent' = [spent EXCEPT ![q] = v]
      /\ UNCHANGED <<challenge, context, leases, effects, receipt, events, locks, asks, answer, world>>
  BY DEF Spend
<1>2. q \in Queued /\ q \in Identities /\ v \in ConsumptionRow
  BY <1>1, FirstRowFacts DEF IInv, TypeOK, Stands, Holds, Replaying, Identities, ConsumptionRow
<1> HIDE DEF q, v
<1>3. spent' \in [Identities -> ConsumptionRow] /\ \A i \in OneShot : spent'[i] = spent[i]
  BY <1>1, <1>2, GatewayAssumption DEF IInv, TypeOK, OneShot, Identities
<1>4. step' \in [Requests -> Steps]
  BY <1>1 DEF IInv, TypeOK, Move, Steps
<1>5. TypeOK' /\ QueuedHold'
  BY <1>1, <1>3, <1>4 DEF IInv, TypeOK, QueuedHold, world
<1>6. answer' = [answer EXCEPT ![r] = answer[r]]
  BY <1>1, SameAnswer
<1>7. step[r] \in Replaying
  BY <1>1 DEF Replaying
<1> QED BY <1>1, <1>3, <1>5, <1>6, <1>7, SameAnswer, ReplayStep

LEMMA ReplayKeeps ==
  ASSUME IInv, NEW r \in Requests, Replay(r)
  PROVE  IInv'
<1> DEFINE q == asks[r].id
           v == asks[r].variant
           first == receipt[q].outcome = "NONE"
<1>1. step[r] = "SPENT" /\ UNCHANGED <<challenge, context, leases, spent, locks, asks, world>>
  BY DEF Replay
<1>2. q \in Queued /\ q \in Identities /\ v \in Variants
  BY <1>1, FirstRowFacts DEF IInv, Stands, Holds, Replaying, Identities
<1>3. PICK found \in Outcomes(q, v) :
        /\ receipt' = [receipt EXCEPT ![q] = found]
        /\ effects' = IF first /\ found.outcome = "APPLIED"
                       THEN [effects EXCEPT ![q] = Append(@, v)] ELSE effects
        /\ \/ /\ events' = IF first THEN [events EXCEPT ![q] = @ + 1] ELSE events
              /\ Answer(r, "ACCEPTED")
           \/ Move(r, "LOST") /\ UNCHANGED <<events, answer>>
  BY DEF Replay
<1>4. /\ found \in Receipts
      /\ first => found.variant = v
      /\ ~first => found = receipt[q]
  BY <1>2, <1>3 DEF Outcomes, Receipts, IInv, TypeOK
<1> HIDE DEF q, v
<1>5. /\ receipt' \in [Queued -> Receipts] /\ receipt'[q] = found
      /\ \A p \in Queued \ {q} : receipt'[p] = receipt[p]
  BY <1>2, <1>3, <1>4 DEF IInv, TypeOK
<1>6. /\ effects' \in [Identities -> Seq(Variants)]
      /\ \A i \in Identities \ {q} : effects'[i] = effects[i]
      /\ effects'[q] = IF first /\ found.outcome = "APPLIED" THEN Append(effects[q], v)
                       ELSE effects[q]
  BY <1>2, <1>3 DEF IInv, TypeOK
<1>7. /\ events' \in [Identities -> Nat] /\ \A i \in Identities \ {q} : events'[i] = events[i]
  BY <1>2, <1>3 DEF IInv, TypeOK
<1>8. PICK to \in {"ANSWERED", "LOST"}, a \in Answers :
        /\ Move(r, to) /\ answer' = [answer EXCEPT ![r] = a]
        /\ a = "ACCEPTED" \/ a = answer[r]
  <2>1. "ACCEPTED" \in Answers
    BY DEF Answers
  <2> QED BY <1>3, <2>1, SameAnswer DEF Answer, Move
<1>9. step' \in [Requests -> Steps] /\ answer' \in [Requests -> Answers]
  BY <1>8 DEF IInv, TypeOK, Move, Steps
<1>10. TypeOK'
  BY <1>1, <1>5, <1>6, <1>7, <1>9 DEF IInv, TypeOK, world
<1>11. QueuedHold'
  <2>1. effects'[q] = IF receipt'[q].outcome = "APPLIED" THEN <<receipt'[q].variant>> ELSE <<>>
    <3>1. effects[q] = IF receipt[q].outcome = "APPLIED" THEN <<receipt[q].variant>> ELSE <<>>
      BY <1>2 DEF IInv, QueuedHold
    <3>2. CASE first
      BY <1>4, <1>5, <1>6, <3>1, <3>2, Singletons
    <3>3. CASE ~first
      BY <1>4, <1>5, <1>6, <3>1, <3>3
    <3> QED BY <3>2, <3>3
  <2>2. \A p \in Queued \ {q} : effects'[p] = effects[p] /\ receipt'[p] = receipt[p]
    BY <1>5, <1>6 DEF Identities
  <2> QED BY <2>1, <2>2 DEF IInv, QueuedHold
<1>12. \A i \in OneShot : effects'[i] = effects[i] /\ events'[i] = events[i]
  BY <1>2, <1>6, <1>7, GatewayAssumption DEF OneShot, Identities
<1>13. step[r] \in Replaying
  BY <1>1 DEF Replaying
<1> QED BY <1>1, <1>8, <1>10, <1>11, <1>12, <1>13, ReplayStep

---------------------------------------------------------------------------
(* The world around the requests                                           *)

\* What moves outside the requests leaves alone whatever is locked.
LEMMA WorldStep ==
  ASSUME IInv, UNCHANGED <<requests, leases, spent, effects, receipt, events>>, TypeOK',
         \A c \in Contexts : /\ context[c].state = "ABSENT" <=> context'[c].state = "ABSENT"
                             /\ context'[c].version = context[c].version,
         \A c \in Contexts : context'[c] = context[c] \/ Free(<<"CONTEXT", c>>),
         credential' = credential \/ Free(Device)
  PROVE  IInv'
<1>1. ASSUME NEW s \in Requests PROVE Stands(s)'
  <2>1. s # NoRequest
    BY GatewayAssumption
  <2>2. Stands(s)
    BY DEF IInv
  <2> QED BY <2>1, <2>2, OthersStand DEF requests, Free
<1>2. AllOrNothing' /\ OneLeasePerCeremony' /\ OneMints' /\ CeremoniesHold' /\ QueuedHold'
  BY DEF IInv, AllOrNothing, OneLeasePerCeremony, OneMints, CeremoniesHold, QueuedHold, requests
<1> QED BY <1>1, <1>2 DEF IInv

LEMMA RequestEstablishmentKeeps ==
  ASSUME IInv, NEW c \in Contexts, RequestEstablishment(c)
  PROVE  IInv'
<1>1. /\ challenge' = [challenge EXCEPT ![c] = credential.version]
      /\ UNCHANGED <<context, leases, spent, effects, receipt, events, world, requests>>
  BY DEF RequestEstablishment
<1>2. credential.version \in ChallengeRow
  BY GatewayAssumption DEF IInv, TypeOK, Credential, ChallengeRow
<1>3. TypeOK'
  BY <1>1, <1>2 DEF IInv, TypeOK, world, requests
<1> QED BY <1>1, <1>3, WorldStep DEF world

LEMMA CloseContextKeeps ==
  ASSUME IInv, NEW c \in Contexts, CloseContext(c)
  PROVE  IInv'
<1>1. /\ context[c].state = "OPEN" /\ Free(<<"CONTEXT", c>>)
      /\ context' = [context EXCEPT ![c].state = "CLOSED"]
      /\ UNCHANGED <<challenge, leases, spent, effects, receipt, events, world, requests>>
  BY DEF CloseContext
<1> DEFINE row == [context[c] EXCEPT !.state = "CLOSED"]
<1>2. row \in ContextRow /\ row.state = "CLOSED" /\ row.version = context[c].version
  BY DEF IInv, TypeOK, ContextRow
<1>3. context' = [context EXCEPT ![c] = row]
  BY <1>1
<1> HIDE DEF row
<1>4. /\ context' \in [Contexts -> ContextRow] /\ context'[c] = row
      /\ \A d \in Contexts \ {c} : context'[d] = context[d]
  BY <1>2, <1>3 DEF IInv, TypeOK
<1>5. TypeOK'
  BY <1>1, <1>4 DEF IInv, TypeOK, world, requests
<1> QED BY <1>1, <1>2, <1>4, <1>5, WorldStep DEF world

LEMMA WorldMovesKeep ==
  ASSUME IInv,
         \/ MoveCredential \/ AuthorityMoves
         \/ \E x \in Challenges \cup ContextRows : Expire(x)
         \/ \E c \in Contexts : EndLeases(c)
  PROVE  IInv'
<1>1. UNCHANGED <<database, requests>>
  BY DEF MoveCredential, AuthorityMoves, Expire, EndLeases
<1>2. /\ credential' \in Credential /\ authorised' \in BOOLEAN
      /\ expired' \subseteq Challenges \cup ContextRows /\ ended' \subseteq Contexts
      /\ credential' = credential \/ Free(Device)
  <2>1. CASE MoveCredential
    <3>1. credential.version \in 1 .. MaxVersion /\ MaxVersion \in Nat
      BY GatewayAssumption DEF IInv, TypeOK, Credential
    <3>2. CASE credential' = [credential EXCEPT !.standing = "WITHDRAWN"]
      BY <2>1, <3>2 DEF MoveCredential, IInv, TypeOK, Credential
    <3>3. CASE /\ credential.version < MaxVersion
               /\ credential' = [credential EXCEPT !.version = @ + 1]
      <4>1. credential.version + 1 \in 1 .. MaxVersion
        BY <3>1, <3>3
      <4> QED BY <2>1, <3>3, <4>1 DEF MoveCredential, IInv, TypeOK, Credential
    <3> QED BY <2>1, <3>2, <3>3 DEF MoveCredential
  <2>2. CASE AuthorityMoves
    BY <2>2 DEF AuthorityMoves, IInv, TypeOK
  <2>3. CASE \E x \in Challenges \cup ContextRows : Expire(x)
    BY <2>3 DEF Expire, IInv, TypeOK
  <2>4. CASE \E c \in Contexts : EndLeases(c)
    BY <2>4 DEF EndLeases, IInv, TypeOK
  <2> QED BY <2>1, <2>2, <2>3, <2>4
<1>3. TypeOK'
  BY <1>1, <1>2 DEF IInv, TypeOK, database, requests
<1> QED BY <1>1, <1>2, <1>3, WorldStep DEF database

---------------------------------------------------------------------------
(* The invariant                                                           *)

LEMMA InitHolds ==
  Init => IInv
<1> SUFFICES ASSUME Init PROVE IInv
  OBVIOUS
<1>1. TypeOK
  <2>1. /\ credential \in Credential /\ [state |-> "ABSENT", version |-> 0] \in ContextRow
        /\ [outcome |-> "NONE", variant |-> "NONE"] \in Receipts /\ 0 \in ChallengeRow
        /\ "NONE" \in ConsumptionRow /\ "IDLE" \in Steps /\ "NONE" \in Answers
        /\ <<>> \in Seq(Variants)
    BY GatewayAssumption
       DEF Init, Credential, ContextRow, Receipts, ChallengeRow, ConsumptionRow, Steps, Answers
  <2>2. /\ challenge \in [Contexts -> ChallengeRow] /\ context \in [Contexts -> ContextRow]
        /\ leases \in [Contexts -> Nat] /\ spent \in [Identities -> ConsumptionRow]
        /\ effects \in [Identities -> Seq(Variants)] /\ events \in [Identities -> Nat]
        /\ receipt \in [Queued -> Receipts]
    BY <2>1 DEF Init
  <2> QED BY <2>1, <2>2 DEF Init, TypeOK
<1>2. \A r \in Requests : Stands(r)
  BY DEF Init, Stands, Asks, Holds, Judged, Locking, Replaying
<1>3. AllOrNothing
  BY Singletons DEF Init, AllOrNothing, Identities
<1>4. OneLeasePerCeremony /\ OneMints /\ CeremoniesHold /\ QueuedHold
  BY DEF Init, OneLeasePerCeremony, OneMints, CeremoniesHold, QueuedHold, Identities
<1> QED BY <1>1, <1>2, <1>3, <1>4 DEF IInv

LEMMA StepKeeps ==
  IInv /\ [Next]_vars => IInv'
<1> SUFFICES ASSUME IInv, [Next]_vars PROVE IInv'
  OBVIOUS
<1>1. CASE UNCHANGED vars
  <2>1. UNCHANGED <<database, world, requests>>
    BY <1>1 DEF vars
  <2>2. TypeOK'
    BY <2>1 DEF IInv, TypeOK, database, world, requests
  <2> QED BY <2>1, <2>2, WorldStep DEF database, world
<1>2. ASSUME NEW r \in Requests, Serve(r) PROVE IInv'
  <2>1. CASE \E s \in Requests : DetectDeadlock(r, s)
    BY <2>1, DetectDeadlockKeeps
  <2>2. CASE LockFirst(r) \/ LockDevice(r) \/ Judge(r)
    BY <2>2, LockFirstKeeps, LockDeviceKeeps, JudgeKeeps
  <2>3. CASE IssueContext(r) \/ ConvergeContext(r) \/ MintLease(r)
    BY <2>3, IssueContextKeeps, ConvergeKeeps, MintLeaseKeeps
  <2>4. CASE Execute(r) \/ ConvergeStatement(r)
    BY <2>4, ExecuteKeeps, ConvergeKeeps
  <2>5. CASE Authenticate(r) \/ Admit(r) \/ Spend(r) \/ Replay(r)
    BY <2>5, AuthenticateKeeps, AdmitKeeps, SpendKeeps, ReplayKeeps
  <2> QED BY <1>2, <2>1, <2>2, <2>3, <2>4, <2>5 DEF Serve
<1>3. ASSUME NEW r \in Requests, Crash(r) PROVE IInv'
  BY <1>3, CrashKeeps
<1>4. ASSUME NEW r \in Requests, NEW id \in Identities, NEW variant \in Variants,
             NEW c \in Contexts, Arrive(r, id, variant, c)
      PROVE  IInv'
  BY <1>4, ArriveKeeps
<1>5. ASSUME NEW c \in Contexts, RequestEstablishment(c) \/ CloseContext(c) \/ EndLeases(c)
      PROVE  IInv'
  BY <1>5, RequestEstablishmentKeeps, CloseContextKeeps, WorldMovesKeep
<1>6. CASE MoveCredential \/ AuthorityMoves \/ \E x \in Challenges \cup ContextRows : Expire(x)
  BY <1>6, WorldMovesKeep
<1> QED BY <1>1, <1>2, <1>3, <1>4, <1>5, <1>6 DEF Next

LEMMA InvariantHolds ==
  Spec => []IInv
<1> QED BY InitHolds, StepKeeps, PTL DEF Spec

---------------------------------------------------------------------------
(* The theorems                                                            *)

\* A ceremony and a live statement are all or nothing: spent, effective and
\* told of together, whoever else is at the door, and whatever server stops.
THEOREM AllOrNothingHolds == Spec => []AllOrNothing
  BY InvariantHolds, PTL DEF IInv

\* However often a statement is sent, altered, lost and sent again, and
\* however its requests overlap, it takes effect at most once.
THEOREM TakesEffectOnceHolds == Spec => []TakesEffectOnce
<1>1. IInv => TakesEffectOnce
  <2> SUFFICES ASSUME IInv, NEW i \in Identities PROVE Len(effects[i]) <= 1
    BY DEF TakesEffectOnce
  <2>1. effects[i] = <<>> \/ \E v : effects[i] = <<v>>
    BY DEF IInv, AllOrNothing, QueuedHold, Identities
  <2>2. CASE effects[i] = <<>>
    <3>1. Len(effects[i]) = 0
      BY <2>2, Singletons
    <3> QED BY <3>1
  <2>3. ASSUME NEW v, effects[i] = <<v>> PROVE Len(effects[i]) <= 1
    <3>1. Len(effects[i]) = 1
      BY <2>3, Singletons, Zenon
    <3> QED BY <3>1
  <2> QED BY <2>1, <2>2, <2>3
<1> QED BY <1>1, InvariantHolds, PTL

\* A ceremony mints one lease at most, however often its answer is lost.
THEOREM OneLeasePerCeremonyHolds == Spec => []OneLeasePerCeremony
  BY InvariantHolds, PTL DEF IInv

\* Whoever is told of success finds the effect, in the variant they signed.
THEOREM AnswersAreBackedHolds == Spec => []AnswersAreBacked
<1>1. IInv => AnswersAreBacked
  <2> SUFFICES ASSUME IInv, NEW r \in Requests, answer[r] \in {"ISSUED", "COMMITTED", "CONVERGED"}
               PROVE  effects[asks[r].id] = <<asks[r].variant>>
    BY DEF AnswersAreBacked
  <2>1. /\ step[r] # "IDLE" /\ asks[r].id \in OneShot /\ spent[asks[r].id] = asks[r].variant
    BY DEF IInv, Stands, Judged
  <2>2. asks[r].variant # "NONE"
    BY <2>1, FirstRowFacts, GatewayAssumption DEF IInv, Stands
  <2> QED BY <2>1, <2>2 DEF IInv, AllOrNothing, OneShot
<1> QED BY <1>1, InvariantHolds, PTL

\* Type correctness, the rows of the door and the requests' locks included.
THEOREM TypeCorrect == Spec => []TypeOK
  BY InvariantHolds, PTL DEF IInv

\* No live effect is committed under a closed context, or with a credential
\* withdrawn or rotated away from it, although both are judged, and looked up,
\* in steps before: between the judgement and the commit neither can move.
THEOREM EffectsUnderAuthorityHolds == Spec => EffectsUnderAuthority
<1> DEFINE Permitted ==
             \A i \in Live : effects'[i] # effects[i] =>
               /\ context[Under[i]].state = "OPEN"
               /\ credential = [standing |-> "ADMITTED", version |-> context[Under[i]].version]
<1>1. ASSUME IInv, [Next]_vars PROVE Permitted
  <2> SUFFICES ASSUME NEW i \in Live, effects'[i] # effects[i]
               PROVE  context[Under[i]].state = "OPEN" /\ Authority(Under[i])
    BY DEF Authority
  <2>1. effects' # effects
    OBVIOUS
  <2>2. \E r \in Requests : IssueContext(r) \/ Execute(r) \/ Replay(r)
    <3>1. ~UNCHANGED vars /\ Next
      BY <1>1, <2>1 DEF vars, database
    <3>2. ASSUME NEW r \in Requests, Serve(r)
          PROVE  IssueContext(r) \/ Execute(r) \/ Replay(r)
      <4>1. /\ ~LockFirst(r) /\ ~LockDevice(r) /\ ~Judge(r) /\ ~ConvergeContext(r)
            /\ ~MintLease(r) /\ ~ConvergeStatement(r)
        BY <2>1 DEF LockFirst, LockDevice, Judge, ConvergeContext, MintLease, ConvergeStatement,
                    RollBack, database
      <4>2. /\ ~Authenticate(r) /\ ~Admit(r) /\ ~Spend(r)
            /\ \A s \in Requests : ~DetectDeadlock(r, s)
        BY <2>1 DEF Authenticate, Admit, Spend, DetectDeadlock, RollBack, database
      <4> QED BY <3>2, <4>1, <4>2 DEF Serve
    <3>3. /\ ~MoveCredential /\ ~AuthorityMoves
          /\ \A x \in Challenges \cup ContextRows : ~Expire(x)
          /\ \A c \in Contexts : ~RequestEstablishment(c) /\ ~CloseContext(c) /\ ~EndLeases(c)
      BY <2>1 DEF MoveCredential, AuthorityMoves, Expire, RequestEstablishment, CloseContext,
                  EndLeases, database
    <3>4. \A r \in Requests :
            /\ ~Crash(r)
            /\ \A id \in Identities, variant \in Variants, c \in Contexts :
                 ~Arrive(r, id, variant, c)
      BY <2>1 DEF Arrive, Crash, database
    <3> QED BY <3>1, <3>2, <3>3, <3>4 DEF Next
  <2>3. PICK r \in Requests : IssueContext(r) \/ Execute(r) \/ Replay(r)
    BY <2>2
  <2>4. /\ step[r] # "IDLE" /\ asks[r].under \in Contexts
        /\ effects' = [effects EXCEPT ![asks[r].id] = Append(@, asks[r].variant)]
             \/ IssueContext(r)
    BY <1>1, <2>1, <2>3, FirstRowFacts
       DEF IInv, Stands, IssueContext, Execute, Replay, RollBack, database
  <2>5. i = asks[r].id
    <3>1. CASE IssueContext(r)
      BY <1>1, <3>1, <2>4, GatewayAssumption
         DEF IssueContext, IInv, TypeOK, Stands, Asks, Establishes, Identities
    <3>2. CASE effects' = [effects EXCEPT ![asks[r].id] = Append(@, asks[r].variant)]
      BY <1>1, <3>2 DEF IInv, TypeOK, Identities
    <3> QED BY <2>4, <3>1, <3>2
  <2>6. Execute(r)
    <3>1. ~IssueContext(r)
      BY <2>5, GatewayAssumption DEF IssueContext, Establishes
    <3>2. ~Replay(r)
      BY <1>1, <2>5, GatewayAssumption DEF Replay, IInv, Stands, Holds, Replaying
    <3> QED BY <2>3, <3>1, <3>2
  <2>7. step[r] = "PROCEED" /\ asks[r].under = Under[i] /\ ~Establishes(r)
    BY <1>1, <2>5, <2>6, GatewayAssumption DEF Execute, IInv, Stands, Asks, Establishes
  <2> QED BY <1>1, <2>5, <2>7 DEF IInv, Stands, Holds, Judged, Locking
<1>2. IInv /\ [Next]_vars => [Permitted]_vars
  BY <1>1
<1> QED BY <1>2, InvariantHolds, PTL DEF Spec, EffectsUnderAuthority

---------------------------------------------------------------------------
(* Messages: a row of a recipient, the notices about it, and what servers do with them *)

PersonRows == MessageKeys \X People

ServingRows ==
  [ step : {"idle", "emitting", "received", "read"}, notice : PersonRows \cup {<< >>},
    seen : RowStates \cup {"NONE"} ]

MessageTypes ==
  /\ \A k \in MessageKeys :
       recipients[k] # NoMessage => \E named \in SUBSET People : recipients[k] \in [named -> RowStates]
  /\ DOMAIN recipients = MessageKeys /\ recipients = [k \in MessageKeys |-> recipients[k]]
  /\ pending \subseteq MessageKeys \X People \X {"sent", "acknowledged"}
  /\ wire \in [Consumers -> Seq(PersonRows)]
  /\ serving \in [Consumers -> ServingRows]

\* Nothing on its way is about a row that is not there.
HasRow(k, p) == p \in RowsOf(k)

NoticesHaveRows ==
  /\ \A n \in pending : HasRow(n[1], n[2])
  /\ \A c \in Consumers : \A i \in DOMAIN wire[c] : HasRow(wire[c][i][1], wire[c][i][2])

\* A server that goes on from its wait holds a confirmed notice, and writes
\* only from the state REQUESTED.
ServesConfirmed(c) ==
  LET n == serving[c].notice IN
  /\ serving[c].step # "idle" => n \in PersonRows /\ HasRow(n[1], n[2])
  /\ serving[c].step \in {"received", "read"} => n \in confirmed
  /\ serving[c].step = "read" => serving[c].seen = "REQUESTED"

\* A row and the acknowledgements of it.
RowStands(k, p) ==
  /\ recipients[k][p] # "REQUESTED" => << k, p >> \in confirmed
  /\ \A a, b \in AckKeys : << k, p, a >> \in acks /\ << k, p, b >> \in acks => a = b
  /\ recipients[k][p] = "ACKNOWLEDGED" <=> \E a \in AckKeys : << k, p, a >> \in acks

AcksHaveRows == \A k \in MessageKeys, p \in People, a \in AckKeys : << k, p, a >> \in acks => HasRow(k, p)

MessagesInv ==
  /\ MessageTypes /\ NoticesHaveRows /\ AcksHaveRows
  /\ \A c \in Consumers : ServesConfirmed(c)
  /\ \A k \in MessageKeys : \A p \in RowsOf(k) : RowStands(k, p)

---------------------------------------------------------------------------

LEMMA RowFacts ==
  ASSUME MessageTypes, NEW k \in MessageKeys, NEW p \in RowsOf(k)
  PROVE  /\ recipients[k] # NoMessage /\ p \in People /\ recipients[k][p] \in RowStates
         /\ recipients[k] = [q \in DOMAIN recipients[k] |-> recipients[k][q]]
         /\ DOMAIN recipients[k] = RowsOf(k)
<1>1. recipients[k] # NoMessage
  BY DEF RowsOf
<1>2. PICK named \in SUBSET People : recipients[k] \in [named -> RowStates]
  BY <1>1 DEF MessageTypes
<1> QED BY <1>1, <1>2 DEF RowsOf

\* Writing the state of one row changes nothing of the others.
LEMMA RowWritten ==
  ASSUME MessageTypes, NEW k \in MessageKeys, NEW p \in RowsOf(k), NEW s \in RowStates,
         recipients' = [recipients EXCEPT ![k][p] = s]
  PROVE  /\ \A j \in MessageKeys : RowsOf(j)' = RowsOf(j)
         /\ recipients'[k][p] = s
         /\ \A j \in MessageKeys, q \in People :
              << j, q >> # << k, p >> => recipients'[j][q] = recipients[j][q]
         /\ \A j \in MessageKeys :
              recipients'[j] # NoMessage => \E named \in SUBSET People : recipients'[j] \in [named -> RowStates]
         /\ DOMAIN recipients' = MessageKeys /\ recipients' = [j \in MessageKeys |-> recipients'[j]]
<1> DEFINE new == [recipients[k] EXCEPT ![p] = s]
<1>1. /\ recipients'[k] = new /\ DOMAIN recipients' = MessageKeys
      /\ recipients' = [j \in MessageKeys |-> recipients'[j]]
      /\ \A j \in MessageKeys : j # k => recipients'[j] = recipients[j]
  BY DEF MessageTypes
<1>2. recipients[k] # NoMessage
  BY RowFacts
<1>3. PICK named \in SUBSET People : recipients[k] \in [named -> RowStates]
  BY <1>2 DEF MessageTypes
<1>4. p \in named /\ RowsOf(k) = named
  BY <1>2, <1>3 DEF RowsOf
<1>5. /\ new \in [named -> RowStates] /\ new[p] = s
      /\ \A q \in named : q # p => new[q] = recipients[k][q]
      /\ \A q \in People : q # p => new[q] = recipients[k][q]
  BY <1>3, <1>4
<1>6. new # NoMessage
  BY <1>3, <1>5, MessagesAssumption
<1> HIDE DEF new
<1>7. ASSUME NEW j \in MessageKeys PROVE RowsOf(j)' = RowsOf(j)
  BY <1>1, <1>4, <1>5, <1>6 DEF RowsOf
<1>8. ASSUME NEW j \in MessageKeys, NEW q \in People, << j, q >> # << k, p >>
      PROVE  recipients'[j][q] = recipients[j][q]
  BY <1>1, <1>5, <1>8
<1>9. ASSUME NEW j \in MessageKeys, recipients'[j] # NoMessage
      PROVE  \E n \in SUBSET People : recipients'[j] \in [n -> RowStates]
  BY <1>1, <1>5, <1>9 DEF MessageTypes
<1> QED BY <1>1, <1>5, <1>7, <1>8, <1>9

\* The rows stay where they are and what they say; their acknowledgements too.
LEMMA RowsStay ==
  ASSUME MessagesInv, UNCHANGED << recipients, acks >>, confirmed \subseteq confirmed'
  PROVE  /\ AcksHaveRows'
         /\ \A k \in MessageKeys : \A p \in RowsOf(k)' : RowStands(k, p)'
         /\ \A k, p : HasRow(k, p)' <=> HasRow(k, p)
         /\ pending' \subseteq MessageKeys \X People \X {"sent", "acknowledged"}
              /\ wire' \in [Consumers -> Seq(PersonRows)] /\ serving' \in [Consumers -> ServingRows]
              => MessageTypes'
<1>1. \A k : RowsOf(k)' = RowsOf(k)
  BY DEF RowsOf
<1>2. \A k, p : HasRow(k, p)' <=> HasRow(k, p)
  BY <1>1 DEF HasRow
<1>3. AcksHaveRows'
  BY <1>2 DEF AcksHaveRows, MessagesInv
<1>4. \A k \in MessageKeys : \A p \in RowsOf(k)' : RowStands(k, p)'
  BY <1>1 DEF MessagesInv, RowStands
<1> QED BY <1>2, <1>3, <1>4 DEF MessagesInv, MessageTypes

\* Only what one server is doing changes.
LEMMA OneServes ==
  ASSUME MessagesInv, NEW c \in Consumers, NEW w \in ServingRows,
         serving' = [serving EXCEPT ![c] = w],
         UNCHANGED << recipients, acks, pending >>, confirmed \subseteq confirmed',
         wire' \in [Consumers -> Seq(PersonRows)],
         \A d \in Consumers : \A i \in DOMAIN wire'[d] : HasRow(wire'[d][i][1], wire'[d][i][2]),
         w.step # "idle" => w.notice \in PersonRows /\ HasRow(w.notice[1], w.notice[2]),
         w.step \in {"received", "read"} => w.notice \in confirmed',
         w.step = "read" => w.seen = "REQUESTED"
  PROVE  MessagesInv'
<1>1. /\ serving' \in [Consumers -> ServingRows] /\ serving'[c] = w
      /\ \A d \in Consumers : d # c => serving'[d] = serving[d]
  BY DEF MessagesInv, MessageTypes
<1>2. MessageTypes' /\ AcksHaveRows' /\ \A k \in MessageKeys : \A p \in RowsOf(k)' : RowStands(k, p)'
  BY <1>1, RowsStay DEF MessagesInv, MessageTypes
<1>3. NoticesHaveRows'
  BY RowsStay DEF MessagesInv, NoticesHaveRows
<1>4. ASSUME NEW d \in Consumers PROVE ServesConfirmed(d)'
  <2>1. ServesConfirmed(d) /\ \A k, p : HasRow(k, p)' <=> HasRow(k, p)
    BY RowsStay DEF MessagesInv
  <2> QED BY <1>1, <2>1 DEF ServesConfirmed
<1> QED BY <1>2, <1>3, <1>4 DEF MessagesInv

---------------------------------------------------------------------------

LEMMA MessagesInvInit == InitMessages => MessagesInv
<1> SUFFICES ASSUME InitMessages PROVE MessagesInv
  OBVIOUS
<1>1. /\ \A k \in MessageKeys : recipients[k] = NoMessage /\ RowsOf(k) = {}
      /\ DOMAIN recipients = MessageKeys /\ recipients = [k \in MessageKeys |-> recipients[k]]
  BY DEF InitMessages, RowsOf
<1>2. /\ wire \in [Consumers -> Seq(PersonRows)]
      /\ \A c \in Consumers : wire[c] = << >> /\ serving[c].step = "idle"
  BY DEF InitMessages, AtEase
<1>3. serving \in [Consumers -> ServingRows]
  BY DEF InitMessages, AtEase, ServingRows
<1> QED BY <1>1, <1>2, <1>3 DEF InitMessages, MessagesInv, MessageTypes, NoticesHaveRows, AcksHaveRows, ServesConfirmed

LEMMA QuietMessages ==
  ASSUME MessagesInv, UNCHANGED << recipients, acks, pending, wire, serving, confirmed >>
  PROVE  MessagesInv'
<1>1. /\ MessageTypes' /\ AcksHaveRows' /\ \A k \in MessageKeys : \A p \in RowsOf(k)' : RowStands(k, p)'
      /\ \A k, p : HasRow(k, p)' <=> HasRow(k, p)
  BY RowsStay DEF MessagesInv, MessageTypes
<1>2. NoticesHaveRows' /\ \A c \in Consumers : ServesConfirmed(c)'
  BY <1>1 DEF MessagesInv, NoticesHaveRows, ServesConfirmed
<1> QED BY <1>1, <1>2 DEF MessagesInv

LEMMA CommitSendKeeps ==
  ASSUME MessagesInv, NEW x \in Sends, CommitSend(x)
  PROVE  MessagesInv'
<1> DEFINE k == MessageKeyOf[x]
           rows == [p \in NamedIn[x] |-> "REQUESTED"]
<1>1. CASE UNCHANGED << recipients, pending >>
  BY <1>1, QuietMessages DEF CommitSend
<1>2. CASE /\ recipients[k] = NoMessage /\ recipients' = [recipients EXCEPT ![k] = rows]
           /\ pending' = pending \cup { << k, p, "sent" >> : p \in NamedIn[x] }
  <2>1. UNCHANGED << acks, wire, serving, confirmed >> /\ k \in MessageKeys /\ NamedIn[x] \in SUBSET People
    BY MessagesAssumption DEF CommitSend, MessageKeys
  <2>2. rows \in [NamedIn[x] -> RowStates] /\ DOMAIN rows = NamedIn[x] /\ \A p \in NamedIn[x] : rows[p] = "REQUESTED"
    BY DEF RowStates
  <2>3. rows # NoMessage
    BY <2>1, <2>2, MessagesAssumption
  <2> HIDE DEF rows, k
  <2>4. /\ recipients'[k] = rows /\ DOMAIN recipients' = MessageKeys
        /\ recipients' = [j \in MessageKeys |-> recipients'[j]]
        /\ \A j \in MessageKeys : j # k => recipients'[j] = recipients[j]
    BY <1>2, <2>1 DEF MessagesInv, MessageTypes
  <2>5. /\ RowsOf(k) = {} /\ RowsOf(k)' = NamedIn[x]
        /\ \A j \in MessageKeys : j # k => RowsOf(j)' = RowsOf(j)
    BY <1>2, <2>1, <2>2, <2>3, <2>4 DEF RowsOf
  <2>6. \A j \in MessageKeys : \A p : HasRow(j, p) => HasRow(j, p)'
    BY <2>5 DEF HasRow
  <2>7. MessageTypes'
    <3>1. pending' \subseteq MessageKeys \X People \X {"sent", "acknowledged"}
      BY <1>2, <2>1 DEF MessagesInv, MessageTypes
    <3>2. \A j \in MessageKeys :
            recipients'[j] # NoMessage => \E named \in SUBSET People : recipients'[j] \in [named -> RowStates]
      BY <2>1, <2>2, <2>4 DEF MessagesInv, MessageTypes
    <3> QED BY <2>1, <2>4, <3>1, <3>2 DEF MessagesInv, MessageTypes
  <2>8. NoticesHaveRows'
    <3>1. ASSUME NEW n \in pending' PROVE HasRow(n[1], n[2])'
      <4>1. CASE n \in pending
        BY <2>6, <4>1 DEF MessagesInv, NoticesHaveRows, MessageTypes
      <4>2. CASE n \notin pending
        BY <1>2, <2>5, <4>2 DEF HasRow
      <4> QED BY <4>1, <4>2
    <3>2. ASSUME NEW c \in Consumers, NEW i \in DOMAIN wire[c] PROVE HasRow(wire[c][i][1], wire[c][i][2])'
      <4>1. wire[c][i] \in PersonRows /\ HasRow(wire[c][i][1], wire[c][i][2])
        BY DEF MessagesInv, NoticesHaveRows, MessageTypes
      <4> QED BY <2>1, <2>6, <4>1 DEF PersonRows
    <3> QED BY <2>1, <3>1, <3>2 DEF NoticesHaveRows
  <2>9. AcksHaveRows'
    BY <2>1, <2>6 DEF MessagesInv, AcksHaveRows
  <2>10. ASSUME NEW c \in Consumers PROVE ServesConfirmed(c)'
    <3>1. ServesConfirmed(c)
      BY DEF MessagesInv
    <3> QED BY <2>1, <2>6, <3>1 DEF ServesConfirmed, PersonRows
  <2>11. ASSUME NEW j \in MessageKeys, NEW p \in RowsOf(j)' PROVE RowStands(j, p)'
    <3>1. CASE j = k
      <4>1. p \in People /\ recipients'[k][p] = "REQUESTED"
        BY <2>1, <2>2, <2>4, <2>5, <2>11, <3>1
      <4>2. \A a \in AckKeys : << k, p, a >> \notin acks
        BY <2>1, <2>5, <4>1 DEF MessagesInv, AcksHaveRows, HasRow
      <4> QED BY <2>1, <3>1, <4>1, <4>2 DEF RowStands
    <3>2. CASE j # k
      BY <2>1, <2>4, <2>5, <2>11, <3>2 DEF MessagesInv, RowStands
    <3> QED BY <3>1, <3>2
  <2> QED BY <2>7, <2>8, <2>9, <2>10, <2>11 DEF MessagesInv
<1> QED BY <1>1, <1>2 DEF CommitSend

LEMMA PublishNoticeKeeps ==
  ASSUME MessagesInv, NEW n \in pending, NEW marks \in BOOLEAN, NEW subscribed \in SUBSET Consumers,
         PublishNotice(n, marks, subscribed)
  PROVE  MessagesInv'
<1> DEFINE item == << n[1], n[2] >>
<1>1. item \in PersonRows /\ HasRow(n[1], n[2])
  BY DEF MessagesInv, MessageTypes, NoticesHaveRows, PersonRows
<1>2. UNCHANGED << recipients, acks, serving, confirmed >> /\ pending' \subseteq pending
  BY DEF PublishNotice
<1>3. ASSUME NEW c \in Consumers
      PROVE  /\ wire'[c] \in Seq(PersonRows)
             /\ \A i \in DOMAIN wire'[c] : HasRow(wire'[c][i][1], wire'[c][i][2])
  <2>1. /\ wire[c] \in Seq(PersonRows) /\ \A i \in DOMAIN wire[c] : HasRow(wire[c][i][1], wire[c][i][2])
        /\ wire'[c] = IF c \in subscribed THEN Append(wire[c], item) ELSE wire[c]
    BY DEF PublishNotice, MessagesInv, MessageTypes, NoticesHaveRows
  <2>2. item[1] = n[1] /\ item[2] = n[2]
    OBVIOUS
  <2> HIDE DEF item
  <2> QED BY <1>1, <2>1, <2>2
<1>4. wire' \in [Consumers -> Seq(PersonRows)]
  BY <1>3 DEF PublishNotice
<1>5. /\ MessageTypes' /\ AcksHaveRows' /\ \A k \in MessageKeys : \A p \in RowsOf(k)' : RowStands(k, p)'
      /\ \A k, p : HasRow(k, p)' <=> HasRow(k, p)
  BY <1>2, <1>4, RowsStay DEF MessagesInv, MessageTypes
<1>6. NoticesHaveRows' /\ \A c \in Consumers : ServesConfirmed(c)'
  BY <1>2, <1>3, <1>5 DEF MessagesInv, NoticesHaveRows, ServesConfirmed
<1> QED BY <1>5, <1>6 DEF MessagesInv

LEMMA TakeNoticeKeeps ==
  ASSUME MessagesInv, NEW c \in Consumers, TakeNotice(c)
  PROVE  MessagesInv'
<1> DEFINE n == Head(wire[c])
           w == [AtEase EXCEPT !.step = "emitting", !.notice = n]
<1>1. /\ wire[c] \in Seq(PersonRows) /\ wire[c] # << >>
      /\ \A i \in DOMAIN wire[c] : HasRow(wire[c][i][1], wire[c][i][2])
  BY DEF TakeNotice, MessagesInv, MessageTypes, NoticesHaveRows
<1>2. n \in PersonRows /\ HasRow(n[1], n[2])
  BY <1>1
<1>3. w \in ServingRows /\ w.step = "emitting" /\ w.notice = n
  BY <1>2 DEF AtEase, ServingRows
<1>4. wire' \in [Consumers -> Seq(PersonRows)]
  BY <1>1 DEF TakeNotice, MessagesInv, MessageTypes
<1>5. ASSUME NEW d \in Consumers, NEW i \in DOMAIN wire'[d] PROVE HasRow(wire'[d][i][1], wire'[d][i][2])
  <2>1. CASE d # c
    BY <1>5, <2>1 DEF TakeNotice, MessagesInv, MessageTypes, NoticesHaveRows
  <2>2. CASE d = c
    <3>1. wire'[c] = Tail(wire[c])
      BY DEF TakeNotice, MessagesInv, MessageTypes
    <3>2. i + 1 \in DOMAIN wire[c] /\ wire'[c][i] = wire[c][i + 1]
      BY <1>1, <1>5, <2>2, <3>1
    <3> QED BY <1>1, <2>2, <3>2
  <2> QED BY <2>1, <2>2
<1> HIDE DEF w, n
<1> QED BY <1>2, <1>3, <1>4, <1>5, OneServes DEF TakeNotice, w, n

LEMMA EndSubscriptionKeeps ==
  ASSUME MessagesInv, NEW c \in Consumers, EndSubscription(c)
  PROVE  MessagesInv'
<1>1. AtEase \in ServingRows /\ AtEase.step = "idle"
  BY DEF AtEase, ServingRows
<1>2. /\ wire' \in [Consumers -> Seq(PersonRows)] /\ wire'[c] = << >>
      /\ \A d \in Consumers : d # c => wire'[d] = wire[d]
  BY DEF EndSubscription, MessagesInv, MessageTypes
<1>3. \A d \in Consumers : \A i \in DOMAIN wire'[d] : HasRow(wire'[d][i][1], wire'[d][i][2])
  BY <1>2 DEF MessagesInv, NoticesHaveRows
<1> QED BY <1>1, <1>2, <1>3, OneServes DEF EndSubscription

LEMMA ServerKeeps ==
  ASSUME MessagesInv, NEW c \in Consumers,
         ReadRow(c) \/ \E confirms \in BOOLEAN : AwaitReceipt(c, confirms)
  PROVE  MessagesInv'
<1>1. AtEase \in ServingRows /\ AtEase.step = "idle"
  BY DEF AtEase, ServingRows
<1>2. /\ serving[c] \in ServingRows /\ ServesConfirmed(c) /\ wire \in [Consumers -> Seq(PersonRows)]
      /\ \A d \in Consumers : \A i \in DOMAIN wire[d] : HasRow(wire[d][i][1], wire[d][i][2])
  BY DEF MessagesInv, MessageTypes, NoticesHaveRows
<1> DEFINE n == serving[c].notice
<1>3. CASE ReadRow(c)
  <2>1. UNCHANGED << recipients, acks, pending, wire, confirmed >> /\ serving[c].step = "received"
    BY <1>3 DEF ReadRow
  <2>2. n \in PersonRows /\ HasRow(n[1], n[2]) /\ n \in confirmed
    BY <1>2, <2>1 DEF ServesConfirmed
  <2>3. CASE recipients[n[1]][n[2]] # "REQUESTED"
    <3>1. serving' = [serving EXCEPT ![c] = AtEase]
      BY <1>3, <2>3 DEF ReadRow, CanAdvance
    <3> QED BY <1>1, <1>2, <2>1, <3>1, OneServes
  <2>4. CASE recipients[n[1]][n[2]] = "REQUESTED"
    <3> DEFINE w == [serving[c] EXCEPT !.step = "read", !.seen = "REQUESTED"]
    <3>1. serving' = [serving EXCEPT ![c] = w]
      BY <1>3, <2>4 DEF ReadRow, CanAdvance
    <3>2. w \in ServingRows /\ w.step = "read" /\ w.seen = "REQUESTED" /\ w.notice = n
      BY <1>2 DEF ServingRows, RowStates
    <3> HIDE DEF w, n
    <3> QED BY <1>2, <2>1, <2>2, <3>1, <3>2, OneServes
  <2> QED BY <2>3, <2>4
<1>4. ASSUME NEW confirms \in BOOLEAN, AwaitReceipt(c, confirms) PROVE MessagesInv'
  <2>1. /\ UNCHANGED << recipients, acks, pending, wire >> /\ serving[c].step = "emitting"
        /\ confirmed' = IF confirms THEN confirmed \cup {n} ELSE confirmed
    BY <1>4 DEF AwaitReceipt
  <2>2. n \in PersonRows /\ HasRow(n[1], n[2])
    BY <1>2, <2>1 DEF ServesConfirmed
  <2>3. CASE ~confirms
    <3>1. serving' = [serving EXCEPT ![c] = AtEase]
      BY <1>4, <2>3 DEF AwaitReceipt, Received
    <3> QED BY <1>1, <1>2, <2>1, <3>1, OneServes
  <2>4. CASE confirms
    <3> DEFINE w == [serving[c] EXCEPT !.step = "received"]
    <3>1. serving' = [serving EXCEPT ![c] = w]
      BY <1>4, <2>4 DEF AwaitReceipt, Received
    <3>2. w \in ServingRows /\ w.step = "received" /\ w.notice = n /\ n \in confirmed'
      BY <1>2, <2>1, <2>4 DEF ServingRows
    <3> HIDE DEF w, n
    <3> QED BY <1>2, <2>1, <2>2, <3>1, <3>2, OneServes
  <2> QED BY <2>3, <2>4
<1> QED BY <1>3, <1>4

\* The row is written under the state it was read in, which is REQUESTED, so
\* nobody has acknowledged it, and a client has confirmed the notice.
LEMMA RecordDeliveryKeeps ==
  ASSUME MessagesInv, NEW c \in Consumers, RecordDelivery(c)
  PROVE  MessagesInv'
<1> DEFINE n == serving[c].notice
<1>1. AtEase \in ServingRows /\ AtEase.step = "idle"
  BY DEF AtEase, ServingRows
<1>2. /\ wire \in [Consumers -> Seq(PersonRows)]
      /\ \A d \in Consumers : \A i \in DOMAIN wire[d] : HasRow(wire[d][i][1], wire[d][i][2])
      /\ UNCHANGED << acks, pending, wire, confirmed >> /\ serving' = [serving EXCEPT ![c] = AtEase]
  BY DEF MessagesInv, MessageTypes, NoticesHaveRows, RecordDelivery
<1>3. CASE recipients' = recipients
  BY <1>1, <1>2, <1>3, OneServes
<1>4. CASE recipients' # recipients
  <2>1. PICK k \in MessageKeys, p \in People : n = << k, p >>
    BY DEF MessagesInv, ServesConfirmed, RecordDelivery, PersonRows
  <2>2. /\ p \in RowsOf(k) /\ << k, p >> \in confirmed /\ recipients[k][p] = "REQUESTED"
        /\ recipients' = [recipients EXCEPT ![k][p] = "DELIVERED"]
    BY <1>4, <2>1 DEF MessagesInv, ServesConfirmed, RecordDelivery, StillAs, HasRow
  <2>3. /\ \A j \in MessageKeys : RowsOf(j)' = RowsOf(j)
        /\ recipients'[k][p] = "DELIVERED"
        /\ \A j \in MessageKeys, q \in People : << j, q >> # << k, p >> => recipients'[j][q] = recipients[j][q]
        /\ \A j \in MessageKeys :
             recipients'[j] # NoMessage => \E named \in SUBSET People : recipients'[j] \in [named -> RowStates]
        /\ DOMAIN recipients' = MessageKeys /\ recipients' = [j \in MessageKeys |-> recipients'[j]]
    BY <2>2, RowWritten DEF MessagesInv, RowStates
  <2>4. serving' \in [Consumers -> ServingRows] /\ \A d \in Consumers : serving'[d] \in {serving[d], AtEase}
    BY <1>1, <1>2 DEF MessagesInv, MessageTypes
  <2>5. MessageTypes'
    BY <1>2, <2>3, <2>4 DEF MessagesInv, MessageTypes
  <2>6. \A j \in MessageKeys : \A q : HasRow(j, q)' <=> HasRow(j, q)
    BY <2>3 DEF HasRow
  <2>7. NoticesHaveRows' /\ AcksHaveRows'
    <3>1. ASSUME NEW m \in pending PROVE HasRow(m[1], m[2])'
      BY <2>6 DEF MessagesInv, MessageTypes, NoticesHaveRows
    <3>2. ASSUME NEW d \in Consumers, NEW i \in DOMAIN wire[d] PROVE HasRow(wire[d][i][1], wire[d][i][2])'
      <4>1. wire[d][i] \in PersonRows /\ HasRow(wire[d][i][1], wire[d][i][2])
        BY <1>2
      <4> QED BY <1>2, <2>6, <4>1 DEF PersonRows
    <3>3. AcksHaveRows'
      BY <1>2, <2>6 DEF MessagesInv, AcksHaveRows
    <3> QED BY <1>2, <3>1, <3>2, <3>3 DEF NoticesHaveRows
  <2>8. ASSUME NEW d \in Consumers PROVE ServesConfirmed(d)'
    <3>1. ServesConfirmed(d)
      BY DEF MessagesInv
    <3> QED BY <1>1, <1>2, <2>4, <2>6, <3>1 DEF ServesConfirmed, PersonRows
  <2>9. ASSUME NEW j \in MessageKeys, NEW q \in RowsOf(j)' PROVE RowStands(j, q)'
    <3>1. RowStands(j, q) /\ q \in People
      <4>1. q \in RowsOf(j) /\ MessageTypes
        BY <2>3, <2>9 DEF MessagesInv
      <4>2. q \in People
        BY <4>1, RowFacts
      <4> QED BY <4>1, <4>2 DEF MessagesInv
    <3>2. CASE << j, q >> = << k, p >>
      BY <1>2, <2>2, <2>3, <3>1, <3>2 DEF RowStands
    <3>3. CASE << j, q >> # << k, p >>
      BY <1>2, <2>3, <3>1, <3>3 DEF RowStands
    <3> QED BY <3>2, <3>3
  <2> QED BY <2>5, <2>7, <2>8, <2>9 DEF MessagesInv
<1> QED BY <1>3, <1>4

LEMMA AcknowledgeKeeps ==
  ASSUME MessagesInv, NEW k \in MessageKeys, NEW p \in People, NEW a \in AckKeys, Acknowledge(k, p, a)
  PROVE  MessagesInv'
<1>1. /\ p \in RowsOf(k) /\ recipients[k][p] = "DELIVERED" /\ RowStands(k, p)
      /\ recipients' = [recipients EXCEPT ![k][p] = "ACKNOWLEDGED"]
      /\ acks' = acks \cup { << k, p, a >> } /\ pending' = pending \cup { << k, p, "acknowledged" >> }
      /\ UNCHANGED << wire, serving, confirmed >>
  BY DEF Acknowledge, MayAcknowledge, MessagesInv
<1>2. << k, p >> \in confirmed /\ \A b \in AckKeys : << k, p, b >> \notin acks
  BY <1>1 DEF RowStands
<1>3. /\ \A j \in MessageKeys : RowsOf(j)' = RowsOf(j)
      /\ recipients'[k][p] = "ACKNOWLEDGED"
      /\ \A j \in MessageKeys, q \in People : << j, q >> # << k, p >> => recipients'[j][q] = recipients[j][q]
      /\ \A j \in MessageKeys :
           recipients'[j] # NoMessage => \E named \in SUBSET People : recipients'[j] \in [named -> RowStates]
      /\ DOMAIN recipients' = MessageKeys /\ recipients' = [j \in MessageKeys |-> recipients'[j]]
  BY <1>1, RowWritten DEF MessagesInv, RowStates
<1>4. MessageTypes'
  <2>1. pending' \subseteq MessageKeys \X People \X {"sent", "acknowledged"}
    BY <1>1 DEF MessagesInv, MessageTypes
  <2> QED BY <1>1, <1>3, <2>1 DEF MessagesInv, MessageTypes
<1>5. \A j \in MessageKeys : \A q : HasRow(j, q)' <=> HasRow(j, q)
  BY <1>3 DEF HasRow
<1>6. NoticesHaveRows'
  <2>1. ASSUME NEW m \in pending' PROVE HasRow(m[1], m[2])'
    <3>1. CASE m \in pending
      BY <1>5, <3>1 DEF MessagesInv, MessageTypes, NoticesHaveRows
    <3>2. CASE m = << k, p, "acknowledged" >>
      BY <1>1, <1>3, <3>2 DEF HasRow
    <3> QED BY <1>1, <3>1, <3>2
  <2>2. ASSUME NEW d \in Consumers, NEW i \in DOMAIN wire[d] PROVE HasRow(wire[d][i][1], wire[d][i][2])'
    <3>1. wire[d][i] \in PersonRows /\ HasRow(wire[d][i][1], wire[d][i][2])
      BY DEF MessagesInv, MessageTypes, NoticesHaveRows
    <3> QED BY <1>1, <1>5, <3>1 DEF PersonRows
  <2> QED BY <1>1, <2>1, <2>2 DEF NoticesHaveRows
<1>7. AcksHaveRows'
  BY <1>1, <1>5 DEF MessagesInv, AcksHaveRows, HasRow
<1>8. ASSUME NEW d \in Consumers PROVE ServesConfirmed(d)'
  <2>1. ServesConfirmed(d)
    BY DEF MessagesInv
  <2> QED BY <1>1, <1>5, <2>1 DEF ServesConfirmed, PersonRows
<1>9. ASSUME NEW j \in MessageKeys, NEW q \in RowsOf(j)' PROVE RowStands(j, q)'
  <2>1. RowStands(j, q) /\ q \in People
    <3>1. q \in RowsOf(j) /\ MessageTypes
      BY <1>3, <1>9 DEF MessagesInv
    <3>2. q \in People
      BY <3>1, RowFacts
    <3> QED BY <3>1, <3>2 DEF MessagesInv
  <2>2. CASE << j, q >> = << k, p >>
    BY <1>1, <1>2, <1>3, <2>2 DEF RowStands
  <2>3. CASE << j, q >> # << k, p >>
    BY <1>1, <1>3, <2>1, <2>3 DEF RowStands
  <2> QED BY <2>2, <2>3
<1> QED BY <1>4, <1>6, <1>7, <1>8, <1>9 DEF MessagesInv

LEMMA MessagesInvNext == MessagesInv /\ [NextMessages]_messageVars => MessagesInv'
<1> SUFFICES ASSUME MessagesInv, [NextMessages]_messageVars PROVE MessagesInv'
  OBVIOUS
<1>1. ASSUME NEW x \in Sends, CheckSend(x) \/ CommitSend(x) PROVE MessagesInv'
  BY <1>1, CommitSendKeeps, QuietMessages DEF CheckSend
<1>2. ASSUME NEW p \in People, CreateAssignment(p) \/ EndAssignment(p) PROVE MessagesInv'
  BY <1>2, QuietMessages DEF CreateAssignment, EndAssignment
<1>3. CASE UNCHANGED messageVars
  BY <1>3, QuietMessages DEF messageVars
<1> QED
  BY <1>1, <1>2, <1>3, PublishNoticeKeeps, TakeNoticeKeeps, ServerKeeps, RecordDeliveryKeeps,
     EndSubscriptionKeeps, AcknowledgeKeeps DEF NextMessages

LEMMA OneAcknowledgement ==
  ASSUME NEW k, NEW p, RowStands(k, p)
  PROVE  Cardinality({ a \in AckKeys : << k, p, a >> \in acks })
           = IF recipients[k][p] = "ACKNOWLEDGED" THEN 1 ELSE 0
<1> DEFINE keys == { a \in AckKeys : << k, p, a >> \in acks }
<1>1. CASE recipients[k][p] = "ACKNOWLEDGED"
  <2>1. PICK a \in AckKeys : << k, p, a >> \in acks
    BY <1>1 DEF RowStands
  <2>2. \A b \in AckKeys : << k, p, b >> \in acks => b = a
    BY <2>1 DEF RowStands
  <2>3. keys = { a }
    BY <2>1, <2>2
  <2>4. Cardinality({ a }) = 1
    BY FS_Singleton
  <2> QED BY <1>1, <2>3, <2>4
<1>2. CASE recipients[k][p] # "ACKNOWLEDGED"
  <2>1. keys = {}
    BY <1>2 DEF RowStands
  <2> QED BY <1>2, <2>1, FS_EmptySet
<1> QED BY <1>1, <1>2

\* A row says DELIVERED only when a client of that person confirmed the notice
\* and ACKNOWLEDGED exactly when one acknowledgement is on file, whatever
\* servers, repeated notices and acknowledgements overlap
\* (recordTransportDelivery, acknowledge).
THEOREM StatesAreEvidenceHolds == SpecMessages => []StatesAreEvidence
<1>1. MessagesInv => StatesAreEvidence
  BY OneAcknowledgement DEF MessagesInv, StatesAreEvidence, RowStands
<1> QED BY <1>1, MessagesInvInit, MessagesInvNext, PTL DEF SpecMessages

=============================================================================
