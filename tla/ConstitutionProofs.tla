-------------------------- MODULE ConstitutionProofs --------------------------
(***************************************************************************)
(* Theorems about Constitution and ConstitutionEngine: one policy in force *)
(* whatever replicas seed and activate at once, a hash chain per           *)
(* organisation that always verifies, and no version in force that two     *)
(* people did not approve.                                                 *)
(***************************************************************************)
EXTENDS Constitution, FiniteSetTheorems, TLAPS

-----------------------------------------------------------------------------
(* The engine: what a decision to allow promises *)

\* A set that counts two elements has two.
LEMMA TwoElements ==
  ASSUME NEW S, Cardinality(S) >= 2
  PROVE  \E x, y \in S : x # y
<1>1. S # {}
  BY FS_EmptySet
<1>2. PICK x \in S : TRUE
  BY <1>1
<1>3. S # { x }
  <2>1. Cardinality({ x }) = 1
    BY FS_Singleton
  <2> QED BY <2>1
<1> QED
  BY <1>2, <1>3

\* Resolving a person again, by the canonical id, finds no role that the
\* spelling they approved under did not have.
LEMMA ResolvedAgain ==
  ASSUME NEW request, NEW i \in Ids
  PROVE  ResolvedRoles(request, Person(i)) \subseteq ResolvedRoles(request, i)
BY IdsAssumption DEF ResolvedRoles, Person

\* Whoever counts as an eligible approver is a spelling in the request, of
\* somebody who is not the actor, with a role the category accepts.
LEMMA EligibleIsAuthorised ==
  ASSUME NEW request, NEW policy, NEW p \in EligibleApprovers(request, policy)
  PROVE  \E i \in request.approvals :
           /\ p = Person(i)
           /\ Person(i) # Person(request.actor.id)
           /\ ResolvedRoles(request, i) \cap CategoryOf(request, policy).roles # {}
BY DEF EligibleApprovers, Candidates, Authorised

\* A request allowed under a category that asks for two persons was approved by
\* two different people, neither of them the actor, each authorised, and with
\* different roles where the category asks for that (constitution.engine.ts:
\* the approval checks of evaluate).
THEOREM AllowedByTwo ==
  ASSUME NEW request, NEW policy,
         request.approvals \subseteq Ids,
         Decide(request, policy) = "ALLOW",
         CategoryOf(request, policy).approval = "TWO_PERSON"
  PROVE  TwoPersonRule(request, policy)
<1> DEFINE Roles(i) == ResolvedRoles(request, i) \cap CategoryOf(request, policy).roles
           Others(i) == Person(i) # Person(request.actor.id)
<1>1. /\ Cardinality(EligibleApprovers(request, policy)) >= 2
      /\ CategoryOf(request, policy).diverse =>
           Cardinality(AuthorisingRoles(request, policy)) >= 2
  BY DEF Decide, ApprovalChecks, DistinctSufficient, Needed, ApproversNeeded
<1>2. \A p \in EligibleApprovers(request, policy) :
        \E i \in request.approvals : p = Person(i) /\ Others(i) /\ Roles(i) # {}
  BY EligibleIsAuthorised
<1>3. PICK m \in EligibleApprovers(request, policy),
           n \in EligibleApprovers(request, policy) : m # n
  BY <1>1, TwoElements
<1>4. PICK i \in request.approvals : m = Person(i) /\ Others(i) /\ Roles(i) # {}
  BY <1>2
<1>5. PICK j \in request.approvals : n = Person(j) /\ Others(j) /\ Roles(j) # {}
  BY <1>2
<1>6. SUFFICES \E p, q \in request.approvals :
        /\ Person(p) # Person(q) /\ Others(p) /\ Others(q)
        /\ \E r \in Roles(p), s \in Roles(q) :
             CategoryOf(request, policy).diverse => r # s
  BY DEF TwoPersonRule, Person
<1>7. CASE ~CategoryOf(request, policy).diverse
  BY <1>3, <1>4, <1>5, <1>7
<1>8. CASE CategoryOf(request, policy).diverse
  <2>1. PICK r \in AuthorisingRoles(request, policy),
             s \in AuthorisingRoles(request, policy) : r # s
    BY <1>1, <1>8, TwoElements
  <2>2. \A t \in AuthorisingRoles(request, policy) :
          \E p \in EligibleApprovers(request, policy) : t \in Roles(p)
    BY DEF AuthorisingRoles
  <2>3. \A p \in EligibleApprovers(request, policy) :
          \E k \in request.approvals :
            p = Person(k) /\ Others(k) /\ Roles(p) \subseteq Roles(k)
    <3> TAKE p \in EligibleApprovers(request, policy)
    <3>1. PICK k \in request.approvals : p = Person(k) /\ Others(k)
      BY <1>2
    <3>2. ResolvedRoles(request, p) \subseteq ResolvedRoles(request, k)
      BY <3>1, ResolvedAgain
    <3> QED
      BY <3>1, <3>2
  <2>4. PICK k \in request.approvals : Others(k) /\ r \in Roles(k)
    BY <2>2, <2>3
  <2>5. PICK l \in request.approvals : Others(l) /\ s \in Roles(l)
    BY <2>2, <2>3
  <2>6. CASE Person(k) # Person(l)
    BY <2>1, <2>4, <2>5, <2>6
  <2>7. CASE Person(k) = Person(l)
    <3>1. PICK o \in request.approvals :
            Person(o) # Person(k) /\ Others(o) /\ Roles(o) # {}
      BY <1>3, <1>4, <1>5
    <3>2. PICK t \in Roles(o) : TRUE
      BY <3>1
    <3>3. CASE t # r
      BY <2>4, <3>1, <3>2, <3>3
    <3>4. CASE t # s
      BY <2>5, <2>7, <3>1, <3>2, <3>4
    <3> QED
      BY <2>1, <3>3, <3>4
  <2> QED
    BY <2>6, <2>7
<1> QED
  BY <1>7, <1>8

-----------------------------------------------------------------------------
(* Types, and what is known of a snapshot that a transaction works on *)

Statuses == { "absent", "draft", "active", "retired" }

Snapshots == Versions \cup { None } \cup [Versions -> Statuses]

BootSteps == { "down", "again", "seeding", "seeded", "read", "up" }

AskSteps == { "idle", "decided", "appended", "allowed", "activating", "activated",
              "reloading", "done" }

Boots == [ step : BootSteps, attempt : Nat, seen : Snapshots ]

Requests == [ step : AskSteps, at : ApiReplicas \cup { None },
              by : Versions \cup { None }, decision : Decisions \cup { None },
              row : LedgerRows \cup { None }, seen : Snapshots ]

BootsOK    == boot \in [ApiReplicas -> Boots]
RequestsOK == work \in [Asks -> Requests]
PoliciesOK == policies \in [Versions -> Statuses]
LoadedOK   == loaded \in [ApiReplicas -> Versions \cup { None }]
ChainsOK   == chain \in [Orgs -> SUBSET LedgerRows] /\ nextSeq \in Nat

TypeOK == BootsOK /\ RequestsOK /\ PoliciesOK /\ LoadedOK /\ ChainsOK

\* What was read is of the kind its reader expects, and an activation goes on
\* only for a version that was a draft or active when it was read.
BootReads ==
  \A r \in ApiReplicas :
    /\ boot[r].step = "seeding" => boot[r].seen \in [Versions -> Statuses]
    /\ boot[r].step = "read" => boot[r].seen \in Versions

AskReads ==
  \A a \in Asks :
    /\ work[a].step = "activating" =>
         /\ work[a].seen \in [Versions -> Statuses]
         /\ work[a].seen[AskOf[a].to] \in { "draft", "active" }
    /\ work[a].step = "reloading" => work[a].seen \in Versions

\* Only an allowed alteration gets as far as activating.
Alters ==
  \A a \in Asks :
    work[a].step \in { "allowed", "activating", "activated", "reloading" } => Activates(a)

OneInForce ==
  NobodyStored(policies) \/ \E v \in Versions : ActiveVersions = { v }

\* A replica past its seeding has found, or left, a policy.
Seeded ==
  \A r \in ApiReplicas :
    boot[r].step \in { "seeded", "read", "up" } \/
      (boot[r].step = "seeding" /\ ~NobodyStored(boot[r].seen))
    => ~NobodyStored(policies)

LEMMA DecideIsDecision ==
  ASSUME NEW request, NEW policy
  PROVE  Decide(request, policy) \in Decisions
BY DEF Decide, Decisions

LEMMA OrgOfIsOrg == ASSUME NEW a \in Asks PROVE OrgOf(a) \in Orgs
BY DEF OrgOf, Orgs

LEMMA BootsTyped ==
  ASSUME TypeOK, BootReads, [NextConstitution]_constitutionVars
  PROVE  BootsOK'
<1> USE DEF TypeOK
<1>1. ASSUME NEW r \in ApiReplicas,
             SeedBegin(r) \/ SeedBaseline(r) \/ AlreadySeeded(r) \/ SeedConflict(r)
      PROVE  BootsOK'
  <2>1. policies \in Snapshots /\ boot[r] \in Boots /\ Down \in Boots
    BY DEF PoliciesOK, Snapshots, BootsOK, Boots, Down, BootSteps
  <2>2. \E b \in Boots : boot' = [boot EXCEPT ![r] = b]
    <3>1. CASE SeedBegin(r)
      <4> DEFINE b == [boot[r] EXCEPT !.step = "seeding", !.seen = policies]
      <4>1. b \in Boots
        BY <2>1 DEF Boots, BootSteps
      <4> QED
        BY <3>1, <4>1 DEF SeedBegin, BootsOK
    <3>2. CASE SeedBaseline(r) \/ AlreadySeeded(r)
      <4> DEFINE b == [boot[r] EXCEPT !.step = "seeded"]
      <4>1. b \in Boots
        BY <2>1 DEF Boots, BootSteps
      <4> QED
        BY <3>2, <4>1 DEF SeedBaseline, AlreadySeeded, BootsOK
    <3>3. CASE SeedConflict(r)
      <4> DEFINE n == boot[r].attempt + 1
                 b == [boot[r] EXCEPT !.step = "again", !.attempt = n]
      <4>1. n \in Nat
        BY <2>1 DEF Boots
      <4>2. boot' = [boot EXCEPT ![r] = Down] \/ boot' = [boot EXCEPT ![r] = b]
        BY <3>3 DEF SeedConflict, BootsOK
      <4> HIDE DEF n
      <4>3. b \in Boots
        BY <2>1, <4>1 DEF Boots, BootSteps
      <4> QED
        BY <2>1, <4>2, <4>3
    <3> QED
      BY <1>1, <3>1, <3>2, <3>3
  <2> QED
    BY <2>2 DEF BootsOK
<1>2. ASSUME NEW r \in ApiReplicas, BootRead(r) \/ BootLoad(r) \/ StopReplica(r)
      PROVE  BootsOK'
  <2>1. boot[r] \in Boots /\ Down \in Boots /\ [Down EXCEPT !.step = "up"] \in Boots
    BY DEF BootsOK, Boots, Down, BootSteps, Snapshots
  <2>2. \A v \in ActiveVersions : [boot[r] EXCEPT !.step = "read", !.seen = v] \in Boots
    BY <2>1 DEF Boots, BootSteps, Snapshots, ActiveVersions
  <2>3. \E b \in Boots : boot' = [boot EXCEPT ![r] = b]
    <3>1. CASE BootRead(r) /\ ActiveVersions # {}
      <4>1. PICK v \in ActiveVersions :
              boot' = [boot EXCEPT ![r].step = "read", ![r].seen = v]
        BY <3>1 DEF BootRead
      <4>2. boot' = [boot EXCEPT ![r] = [boot[r] EXCEPT !.step = "read", !.seen = v]]
        BY <4>1 DEF BootsOK
      <4> QED
        BY <2>2, <4>2
    <3> QED
      BY <1>2, <2>1, <3>1 DEF BootRead, BootLoad, StopReplica
  <2> QED
    BY <2>3 DEF BootsOK
<1>3. CASE UNCHANGED boot
  BY <1>3 DEF BootsOK
<1> QED
  BY <1>1, <1>2, <1>3 DEF NextConstitution, constitutionVars, CreateDraft, EvaluateAsk,
     AppendEntry, CommitEntry, AppendFails, ActivateBegin, ActivateCommit,
     ActivateConflict, ReloadRead, ReloadLoad

\* The newest row of a chain, where the chain has one.
NewestOf(rows) == CHOOSE row \in rows : \A other \in rows : other.seq <= row.seq

Topped == \A o \in Orgs : chain[o] # {} =>
            \E row \in chain[o] : \A other \in chain[o] : other.seq <= row.seq

LEMMA NewestIsNewest ==
  ASSUME Topped, NEW o \in Orgs, chain[o] # {}
  PROVE  /\ NewestOf(chain[o]) \in chain[o]
         /\ \A other \in chain[o] : other.seq <= NewestOf(chain[o]).seq
         /\ LatestHash(o) = NewestOf(chain[o]).entry
BY DEF Topped, NewestOf, LatestHash, ContentHash

LEMMA LatestIsAsk ==
  ASSUME TypeOK, Topped, NEW o \in Orgs
  PROVE  LatestHash(o) \in Asks \cup { None }
<1>1. CASE chain[o] = {}
  BY <1>1 DEF LatestHash
<1>2. CASE chain[o] # {}
  <2>1. NewestOf(chain[o]) \in LedgerRows
    BY <1>2, NewestIsNewest DEF TypeOK, ChainsOK
  <2> QED
    BY <1>2, <2>1, NewestIsNewest DEF LedgerRows
<1> QED
  BY <1>1, <1>2

\* A decision that waits for its row is the engine's, under the version the
\* replica had loaded.
Judged ==
  \A a \in Asks :
    work[a].step \in { "decided", "appended" } =>
      work[a].decision = Decide(AskOf[a], PolicyOf[work[a].by])

\* The steps of one ask, and those that leave every ask's record alone.
LEMMA AskSteppers ==
  ASSUME [NextConstitution]_constitutionVars
  PROVE  \/ UNCHANGED work
         \/ \E r \in ApiReplicas : StopReplica(r)
         \/ \E a \in Asks :
                \/ AppendEntry(a) \/ CommitEntry(a) \/ AppendFails(a)
                \/ ActivateBegin(a) \/ ActivateCommit(a) \/ ActivateConflict(a)
                \/ ReloadRead(a) \/ ReloadLoad(a)
                \/ \E r \in ApiReplicas : EvaluateAsk(a, r)
BY DEF NextConstitution, constitutionVars, CreateDraft, SeedBegin, SeedBaseline,
   AlreadySeeded, SeedConflict, BootRead, BootLoad

LEMMA RequestsTyped ==
  ASSUME TypeOK, Topped, Judged, [NextConstitution]_constitutionVars
  PROVE  RequestsOK'
<1>0. \A a \in Asks : work[a] \in Requests
  BY DEF TypeOK, RequestsOK
<1>1. ASSUME NEW a \in Asks,
             \/ AppendEntry(a) \/ CommitEntry(a) \/ AppendFails(a)
             \/ ActivateBegin(a) \/ ActivateCommit(a) \/ ActivateConflict(a)
             \/ ReloadRead(a) \/ ReloadLoad(a)
             \/ \E r \in ApiReplicas : EvaluateAsk(a, r)
      PROVE  \E w \in Requests : work' = [work EXCEPT ![a] = w]
  <2>1. work[a] \in Requests
    BY <1>0
  <2>2. ASSUME NEW step \in AskSteps, Stepped(a, step)
        PROVE  \E w \in Requests : work' = [work EXCEPT ![a] = w]
    <3> DEFINE w == [work[a] EXCEPT !.step = step]
    <3>1. w \in Requests
      BY <2>1 DEF Requests
    <3> QED
      BY <2>2, <3>1 DEF Stepped, TypeOK, RequestsOK
  <2>3. CASE \/ CommitEntry(a) \/ AppendFails(a) \/ ActivateCommit(a)
             \/ ActivateConflict(a) \/ ReloadLoad(a)
    BY <2>2, <2>3 DEF CommitEntry, AppendFails, ActivateCommit, ActivateConflict,
       ReloadLoad, AskSteps
  <2>4. CASE AppendEntry(a)
    <3> DEFINE row == [ seq |-> nextSeq, entry |-> a, previous |-> LatestHash(OrgOf(a)),
                        decision |-> work[a].decision, version |-> work[a].by ]
               w == [work[a] EXCEPT !.step = "appended", !.row = row]
    <3>1. work[a].decision \in Decisions
      BY <2>4, DecideIsDecision DEF AppendEntry, Judged
    <3>2. LatestHash(OrgOf(a)) \in Asks \cup { None }
      BY LatestIsAsk, OrgOfIsOrg
    <3>3. row \in LedgerRows
      BY <2>1, <3>1, <3>2 DEF LedgerRows, Requests, TypeOK, ChainsOK
    <3> HIDE DEF row
    <3>4. w \in Requests
      BY <2>1, <3>3 DEF Requests, AskSteps
    <3> QED
      BY <2>4, <3>4 DEF AppendEntry, row, TypeOK, RequestsOK
  <2>5. CASE ActivateBegin(a)
    <3> DEFINE w == [work[a] EXCEPT !.step = "activating", !.seen = policies]
    <3>1. policies \in Snapshots
      BY DEF TypeOK, PoliciesOK, Snapshots
    <3>2. w \in Requests
      BY <2>1, <3>1 DEF Requests, AskSteps
    <3>3. Stepped(a, "done") \/ work' = [work EXCEPT ![a] = w]
      BY <2>5 DEF ActivateBegin, TypeOK, RequestsOK
    <3> QED
      BY <2>2, <3>2, <3>3 DEF AskSteps
  <2>6. CASE ReloadRead(a)
    <3>1. PICK v \in ActiveVersions :
            work' = [work EXCEPT ![a].step = "reloading", ![a].seen = v]
      BY <2>6 DEF ReloadRead
    <3> DEFINE w == [work[a] EXCEPT !.step = "reloading", !.seen = v]
    <3>2. v \in Snapshots
      BY DEF ActiveVersions, Snapshots
    <3>3. w \in Requests
      BY <2>1, <3>2 DEF Requests, AskSteps
    <3> QED
      BY <3>1, <3>3 DEF TypeOK, RequestsOK
  <2>7. CASE \E r \in ApiReplicas : EvaluateAsk(a, r)
    <3>1. PICK r \in ApiReplicas : EvaluateAsk(a, r)
      BY <2>7
    <3> DEFINE d == Decide(AskOf[a], PolicyOf[loaded[r]])
               w == [work[a] EXCEPT !.step = "decided", !.at = r, !.by = loaded[r],
                                    !.decision = d]
    <3>2. d \in Decisions
      BY DecideIsDecision
    <3>3. loaded[r] \in Versions \cup { None }
      BY DEF TypeOK, LoadedOK
    <3>4. work' = [work EXCEPT ![a] = w]
      BY <3>1 DEF EvaluateAsk, TypeOK, RequestsOK
    <3> HIDE DEF d
    <3>5. w \in Requests
      BY <2>1, <3>2, <3>3 DEF Requests, AskSteps
    <3> QED
      BY <3>4, <3>5
  <2> QED
    BY <1>1, <2>3, <2>4, <2>5, <2>6, <2>7
<1>2. ASSUME NEW r \in ApiReplicas, StopReplica(r)
      PROVE  RequestsOK'
  <2>1. \A a \in Asks : [work[a] EXCEPT !.step = "done"] \in Requests
    BY <1>0 DEF Requests, AskSteps
  <2> QED
    BY <1>0, <1>2, <2>1 DEF StopReplica, RequestsOK
<1>3. CASE UNCHANGED work
  BY <1>3 DEF TypeOK, RequestsOK
<1>4. ASSUME NEW a \in Asks, NEW w \in Requests, work' = [work EXCEPT ![a] = w]
      PROVE  RequestsOK'
  BY <1>4 DEF TypeOK, RequestsOK
<1> QED
  BY <1>1, <1>2, <1>3, <1>4, AskSteppers

LEMMA PoliciesTyped ==
  ASSUME TypeOK, Alters, [NextConstitution]_constitutionVars
  PROVE  PoliciesOK'
<1>1. ASSUME NEW v \in Versions, CreateDraft(v)
      PROVE  PoliciesOK'
  BY <1>1 DEF CreateDraft, TypeOK, PoliciesOK, Statuses
<1>2. ASSUME NEW r \in ApiReplicas, SeedBaseline(r)
      PROVE  PoliciesOK'
  BY <1>2 DEF SeedBaseline, TypeOK, PoliciesOK, Statuses
<1>3. ASSUME NEW a \in Asks, ActivateCommit(a)
      PROVE  PoliciesOK'
  BY <1>3 DEF ActivateCommit, TypeOK, PoliciesOK, Statuses
<1>4. CASE UNCHANGED policies
  BY <1>4 DEF TypeOK, PoliciesOK
<1> QED
  BY <1>1, <1>2, <1>3, <1>4 DEF NextConstitution, constitutionVars, SeedBegin,
     AlreadySeeded, SeedConflict, BootRead, BootLoad, EvaluateAsk, AppendEntry,
     CommitEntry, AppendFails, ActivateBegin, ActivateConflict, ReloadRead, ReloadLoad,
     StopReplica

LEMMA LoadedTyped ==
  ASSUME TypeOK, BootReads, AskReads, [NextConstitution]_constitutionVars
  PROVE  LoadedOK'
<1>1. ASSUME NEW r \in ApiReplicas, BootLoad(r) \/ StopReplica(r)
      PROVE  LoadedOK'
  BY <1>1 DEF BootLoad, StopReplica, BootReads, TypeOK, LoadedOK
<1>2. ASSUME NEW a \in Asks, ReloadLoad(a)
      PROVE  LoadedOK'
  BY <1>2 DEF ReloadLoad, AskReads, TypeOK, LoadedOK
<1>3. CASE UNCHANGED loaded
  BY <1>3 DEF TypeOK, LoadedOK
<1> QED
  BY <1>1, <1>2, <1>3 DEF NextConstitution, constitutionVars, CreateDraft, SeedBegin,
     SeedBaseline, AlreadySeeded, SeedConflict, BootRead, EvaluateAsk, AppendEntry,
     CommitEntry, AppendFails, ActivateBegin, ActivateCommit, ActivateConflict,
     ReloadRead

LEMMA ChainsTyped ==
  ASSUME TypeOK, [NextConstitution]_constitutionVars
  PROVE  ChainsOK'
<1>1. ASSUME NEW a \in Asks, CommitEntry(a)
      PROVE  ChainsOK'
  <2>1. work[a].row # None => work[a].row \in LedgerRows
    BY DEF TypeOK, RequestsOK, Requests
  <2> QED
    BY <1>1, <2>1 DEF CommitEntry, TypeOK, ChainsOK
<1>2. ASSUME NEW a \in Asks, AppendEntry(a)
      PROVE  ChainsOK'
  BY <1>2 DEF AppendEntry, TypeOK, ChainsOK
<1>3. CASE UNCHANGED << chain, nextSeq >>
  BY <1>3 DEF TypeOK, ChainsOK
<1> QED
  BY <1>1, <1>2, <1>3 DEF NextConstitution, constitutionVars, CreateDraft, SeedBegin,
     SeedBaseline, AlreadySeeded, SeedConflict, BootRead, BootLoad, EvaluateAsk,
     AppendFails, ActivateBegin, ActivateCommit, ActivateConflict, ReloadRead,
     ReloadLoad, StopReplica

-----------------------------------------------------------------------------
(* What a request has read, and how far it may have gone *)

\* Only one request's record changes in a step, but for a replica that stops,
\* which ends every request it was serving.
LEMMA BootReadsKept ==
  ASSUME TypeOK, BootReads, [NextConstitution]_constitutionVars
  PROVE  BootReads'
<1> USE DEF TypeOK
<1> DEFINE Reads(b) == /\ b.step = "seeding" => b.seen \in [Versions -> Statuses]
                       /\ b.step = "read" => b.seen \in Versions
<1>0. \A r \in ApiReplicas : boot[r] \in Boots /\ Reads(boot[r])
  BY DEF BootsOK, BootReads
<1>1. ASSUME NEW r \in ApiReplicas,
             \/ SeedBegin(r) \/ SeedBaseline(r) \/ AlreadySeeded(r) \/ SeedConflict(r)
             \/ BootRead(r) \/ BootLoad(r) \/ StopReplica(r)
      PROVE  /\ Reads(boot'[r])
             /\ \A o \in ApiReplicas \ { r } : boot'[o] = boot[o]
  <2>1. \A o \in ApiReplicas \ { r } : boot'[o] = boot[o]
    BY <1>1 DEF SeedBegin, SeedBaseline, AlreadySeeded, SeedConflict, BootRead,
       BootLoad, StopReplica, BootsOK
  <2>2. ASSUME SeedBegin(r) PROVE Reads(boot'[r])
    BY <2>2, <1>0 DEF SeedBegin, BootsOK, Boots, PoliciesOK
  <2>3. ASSUME SeedBaseline(r) \/ AlreadySeeded(r) PROVE Reads(boot'[r])
    BY <2>3, <1>0 DEF SeedBaseline, AlreadySeeded, BootsOK, Boots
  <2>4. ASSUME SeedConflict(r) PROVE Reads(boot'[r])
    <3>1. boot'[r].step \in { "down", "again" }
      BY <2>4, <1>0 DEF SeedConflict, BootsOK, Boots, Down
    <3> QED
      BY <3>1
  <2>5. ASSUME BootRead(r) PROVE Reads(boot'[r])
    <3>1. boot'[r].step = "down" \/
            (boot'[r].step = "read" /\ boot'[r].seen \in ActiveVersions)
      BY <2>5, <1>0 DEF BootRead, BootsOK, Boots, Down
    <3> QED
      BY <3>1 DEF ActiveVersions
  <2>6. ASSUME BootLoad(r) \/ StopReplica(r) PROVE Reads(boot'[r])
    <3>1. boot'[r].step \in { "down", "up" }
      BY <2>6, <1>0 DEF BootLoad, StopReplica, BootsOK, Boots, Down
    <3> QED
      BY <3>1
  <2> QED
    BY <1>1, <2>1, <2>2, <2>3, <2>4, <2>5, <2>6
<1>2. CASE UNCHANGED boot
  BY <1>2 DEF BootReads
<1>3. \/ UNCHANGED boot
      \/ \E r \in ApiReplicas :
             \/ SeedBegin(r) \/ SeedBaseline(r) \/ AlreadySeeded(r) \/ SeedConflict(r)
             \/ BootRead(r) \/ BootLoad(r) \/ StopReplica(r)
  BY DEF NextConstitution, constitutionVars, CreateDraft, EvaluateAsk,
     AppendEntry, CommitEntry, AppendFails, ActivateBegin, ActivateCommit,
     ActivateConflict, ReloadRead, ReloadLoad
<1>4. CASE \E r \in ApiReplicas :
             \/ SeedBegin(r) \/ SeedBaseline(r) \/ AlreadySeeded(r) \/ SeedConflict(r)
             \/ BootRead(r) \/ BootLoad(r) \/ StopReplica(r)
  <2>1. PICK r \in ApiReplicas :
          Reads(boot'[r]) /\ \A o \in ApiReplicas \ { r } : boot'[o] = boot[o]
    BY <1>1, <1>4
  <2>2. \A o \in ApiReplicas : Reads(boot'[o])
    BY <1>0, <2>1
  <2> QED
    BY <2>2 DEF BootReads
<1> QED
  BY <1>2, <1>3, <1>4

\* One ask's facts, as conditions on its record alone.
Fits(a, w) ==
  /\ w.step = "activating" =>
       w.seen \in [Versions -> Statuses] /\ w.seen[AskOf[a].to] \in { "draft", "active" }
  /\ w.step = "reloading" => w.seen \in Versions
  /\ w.step \in { "allowed", "activating", "activated", "reloading" } =>
       AskOf[a].action = AlterAction /\ w.decision = "ALLOW"
  /\ w.step \in { "decided", "appended" } =>
       w.decision = Decide(AskOf[a], PolicyOf[w.by])

LEMMA AsksFit ==
  AskReads /\ Alters /\ Judged <=> \A a \in Asks : Fits(a, work[a])
BY DEF AskReads, Alters, Judged, Fits, Activates

LEMMA AsksKeepFitting ==
  ASSUME TypeOK, \A a \in Asks : Fits(a, work[a]), [NextConstitution]_constitutionVars
  PROVE  \A a \in Asks : Fits(a, work'[a])
<1>0. \A a \in Asks : work[a] \in Requests
  BY DEF TypeOK, RequestsOK
<1>1. ASSUME NEW a \in Asks,
             \/ AppendEntry(a) \/ CommitEntry(a) \/ AppendFails(a)
             \/ ActivateBegin(a) \/ ActivateCommit(a) \/ ActivateConflict(a)
             \/ ReloadRead(a) \/ ReloadLoad(a)
             \/ \E r \in ApiReplicas : EvaluateAsk(a, r)
      PROVE  /\ Fits(a, work'[a])
             /\ \A b \in Asks \ { a } : work'[b] = work[b]
  <2>0. work[a] \in Requests /\ Fits(a, work[a]) /\ DOMAIN work = Asks
    BY <1>0 DEF TypeOK, RequestsOK
  <2>1. \A b \in Asks \ { a } : work'[b] = work[b]
    BY <1>1 DEF AppendEntry, CommitEntry, AppendFails, ActivateBegin, ActivateCommit,
       ActivateConflict, ReloadRead, ReloadLoad, EvaluateAsk, Stepped, TypeOK, RequestsOK
  <2>2. ASSUME AppendEntry(a) PROVE Fits(a, work'[a])
    <3>1. /\ work'[a].step = "appended" /\ work[a].step = "decided"
          /\ work'[a].decision = work[a].decision /\ work'[a].by = work[a].by
      BY <2>0, <2>2 DEF AppendEntry, Requests
    <3> QED
      BY <2>0, <3>1 DEF Fits
  <2>3. ASSUME CommitEntry(a) PROVE Fits(a, work'[a])
    <3>1. /\ work'[a].step = IF Activates(a) THEN "allowed" ELSE "done"
          /\ work'[a].decision = work[a].decision
      BY <2>0, <2>3 DEF CommitEntry, Stepped, Requests
    <3> QED
      BY <2>0, <3>1 DEF Fits, Activates
  <2>4. ASSUME ActivateBegin(a) PROVE Fits(a, work'[a])
    <3>1. ASSUME policies[AskOf[a].to] \in { "draft", "active" }
          PROVE  Fits(a, work'[a])
      <4>1. /\ work'[a].step = "activating" /\ work[a].step = "allowed"
            /\ work'[a].decision = work[a].decision /\ work'[a].seen = policies
        BY <2>0, <2>4, <3>1 DEF ActivateBegin, Requests
      <4> QED
        BY <2>0, <3>1, <4>1 DEF Fits, TypeOK, PoliciesOK
    <3>2. ASSUME policies[AskOf[a].to] \notin { "draft", "active" }
          PROVE  Fits(a, work'[a])
      <4>1. work'[a].step = "done"
        BY <2>0, <2>4, <3>2 DEF ActivateBegin, Stepped, Requests
      <4> QED
        BY <4>1 DEF Fits
    <3> QED
      BY <3>1, <3>2
  <2>5. ASSUME ActivateCommit(a) PROVE Fits(a, work'[a])
    <3>1. /\ work'[a].step = "activated" /\ work[a].step = "activating"
          /\ work'[a].decision = work[a].decision
      BY <2>0, <2>5 DEF ActivateCommit, Stepped, Requests
    <3> QED
      BY <2>0, <3>1 DEF Fits
  <2>6. ASSUME ReloadRead(a) PROVE Fits(a, work'[a])
    <3>1. /\ work'[a].step = "reloading" /\ work[a].step = "activated"
          /\ work'[a].decision = work[a].decision /\ work'[a].seen \in ActiveVersions
      BY <2>0, <2>6 DEF ReloadRead, Requests
    <3> QED
      BY <2>0, <3>1 DEF Fits, ActiveVersions
  <2>7. ASSUME AppendFails(a) \/ ActivateConflict(a) \/ ReloadLoad(a) PROVE Fits(a, work'[a])
    <3>1. work'[a].step = "done"
      BY <2>0, <2>7 DEF AppendFails, ActivateConflict, ReloadLoad, Stepped, Requests
    <3> QED
      BY <3>1 DEF Fits
  <2>8. ASSUME \E r \in ApiReplicas : EvaluateAsk(a, r) PROVE Fits(a, work'[a])
    <3>1. PICK r \in ApiReplicas : EvaluateAsk(a, r)
      BY <2>8
    <3>2. /\ work'[a].step = "decided" /\ work'[a].by = loaded[r]
          /\ work'[a].decision = Decide(AskOf[a], PolicyOf[loaded[r]])
      BY <2>0, <3>1 DEF EvaluateAsk, Requests
    <3> QED
      BY <3>2 DEF Fits
  <2> QED
    BY <1>1, <2>1, <2>2, <2>3, <2>4, <2>5, <2>6, <2>7, <2>8
<1>2. ASSUME NEW r \in ApiReplicas, StopReplica(r)
      PROVE  \A a \in Asks : Fits(a, work'[a])
  <2>1. \A a \in Asks : work'[a] = work[a] \/ work'[a].step = "done"
    BY <1>0, <1>2 DEF StopReplica, Requests
  <2> QED
    BY <2>1 DEF Fits
<1>3. CASE UNCHANGED work
  BY <1>3
<1> QED
  BY <1>1, <1>2, <1>3, AskSteppers

-----------------------------------------------------------------------------
(* The policy in force.  Three actions change a version's status: a draft, *)
(* the seed, and an activation.                                            *)

LEMMA PolicyWriters ==
  ASSUME [NextConstitution]_constitutionVars
  PROVE  \/ UNCHANGED policies
         \/ \E v \in Versions : CreateDraft(v)
         \/ \E r \in ApiReplicas : SeedBaseline(r)
         \/ \E a \in Asks : ActivateCommit(a) /\ ~InForceWhenRead(a)
BY DEF NextConstitution, constitutionVars, SeedBegin, AlreadySeeded, SeedConflict,
   BootRead, BootLoad, EvaluateAsk, AppendEntry, CommitEntry, AppendFails,
   ActivateBegin, ActivateConflict, ReloadRead, ReloadLoad, StopReplica, ActivateCommit

\* What the seed finds when it commits: nothing in force, hence nothing stored.
LEMMA SeedFindsNobody ==
  ASSUME TypeOK, BootReads, OneInForce, NEW r \in ApiReplicas, SeedBaseline(r)
  PROVE  NobodyStored(policies)
<1>1. \A v \in Versions : boot[r].seen[v] = "absent"
  BY DEF SeedBaseline, NobodyStored
<1>2. \A v \in Versions : policies[v] \notin { "active", "retired" }
  BY <1>1 DEF SeedBaseline, Serializes
<1> QED
  BY <1>2 DEF OneInForce, ActiveVersions

\* What an activation finds when it commits: in force is what it read to be.
LEMMA ActivationFinds ==
  ASSUME TypeOK, AskReads, Alters, NEW a \in Asks, ActivateCommit(a), ~InForceWhenRead(a)
  PROVE  /\ AskOf[a].to \in Versions
         /\ policies[AskOf[a].to] \notin { "active", "retired" }
         /\ policies'[AskOf[a].to] = "active"
         /\ \A v \in Versions \ { AskOf[a].to } :
              policies'[v] = IF policies[v] = "active" THEN "retired" ELSE policies[v]
<1>1. AskOf[a].to \in Versions
  BY ConstitutionAssumption DEF Alters, Activates, ActivateCommit
<1>2. work[a].seen[AskOf[a].to] = "draft"
  BY DEF AskReads, ActivateCommit, InForceWhenRead
<1>3. \A v \in Versions : { policies[v], work[a].seen[v] } \cap { "active", "retired" } # {}
                            => policies[v] = work[a].seen[v]
  BY DEF ActivateCommit, Serializes
<1>4. policies' = [v \in Versions |->
                     IF v = AskOf[a].to THEN "active"
                     ELSE IF work[a].seen[v] = "active" THEN "retired" ELSE policies[v]]
  BY DEF ActivateCommit
<1> QED
  BY <1>1, <1>2, <1>3, <1>4

LEMMA OneInForceKept ==
  ASSUME TypeOK, BootReads, AskReads, Alters, OneInForce, Seeded,
         [NextConstitution]_constitutionVars
  PROVE  OneInForce'
<1>1. ASSUME NEW v \in Versions, CreateDraft(v)
      PROVE  OneInForce'
  <2>1. ~NobodyStored(policies)
    BY <1>1 DEF CreateDraft, Seeded
  <2>2. ActiveVersions' = ActiveVersions
    BY <1>1 DEF CreateDraft, ActiveVersions, TypeOK, PoliciesOK
  <2> QED
    BY <2>1, <2>2 DEF OneInForce
<1>2. ASSUME NEW r \in ApiReplicas, SeedBaseline(r)
      PROVE  OneInForce'
  <2>1. \A v \in Versions : policies[v] = "absent"
    BY <1>2, SeedFindsNobody DEF NobodyStored
  <2>2. ActiveVersions' = { Baseline }
    BY <1>2, <2>1, ConstitutionAssumption DEF SeedBaseline, ActiveVersions, TypeOK,
       PoliciesOK
  <2> QED
    BY <2>2, ConstitutionAssumption DEF OneInForce
<1>3. ASSUME NEW a \in Asks, ActivateCommit(a), ~InForceWhenRead(a)
      PROVE  OneInForce'
  <2>1. ActiveVersions' = { AskOf[a].to }
    BY <1>3, ActivationFinds DEF ActiveVersions
  <2> QED
    BY <1>3, <2>1, ActivationFinds DEF OneInForce
<1>4. CASE UNCHANGED policies
  BY <1>4 DEF OneInForce, NobodyStored, ActiveVersions
<1> QED
  BY <1>1, <1>2, <1>3, <1>4, PolicyWriters

\* A policy once stored stays stored.
LEMMA StoredStays ==
  ASSUME TypeOK, BootReads, AskReads, Alters, OneInForce,
         [NextConstitution]_constitutionVars, ~NobodyStored(policies)
  PROVE  ~NobodyStored(policies')
<1>1. ASSUME NEW v \in Versions, CreateDraft(v)
      PROVE  ~NobodyStored(policies')
  BY <1>1 DEF CreateDraft, NobodyStored, TypeOK, PoliciesOK
<1>2. ASSUME NEW r \in ApiReplicas, SeedBaseline(r)
      PROVE  ~NobodyStored(policies')
  BY <1>2, SeedFindsNobody
<1>3. ASSUME NEW a \in Asks, ActivateCommit(a), ~InForceWhenRead(a)
      PROVE  ~NobodyStored(policies')
  BY <1>3, ActivationFinds DEF NobodyStored
<1>4. CASE UNCHANGED policies
  BY <1>4 DEF NobodyStored
<1> QED
  BY <1>1, <1>2, <1>3, <1>4, PolicyWriters

\* A replica's own steps are the only ones that move its start.
LEMMA BootSteppers ==
  ASSUME [NextConstitution]_constitutionVars
  PROVE  \/ UNCHANGED boot
         \/ \E r \in ApiReplicas :
              \/ SeedBegin(r) \/ SeedBaseline(r) \/ AlreadySeeded(r) \/ SeedConflict(r)
              \/ BootRead(r) \/ BootLoad(r) \/ StopReplica(r)
BY DEF NextConstitution, constitutionVars, CreateDraft, EvaluateAsk,
   AppendEntry, CommitEntry, AppendFails, ActivateBegin, ActivateCommit,
   ActivateConflict, ReloadRead, ReloadLoad

LEMMA SeededKept ==
  ASSUME TypeOK, BootReads, AskReads, Alters, OneInForce, Seeded,
         [NextConstitution]_constitutionVars
  PROVE  Seeded'
<1> DEFINE Past(b) == b.step \in { "seeded", "read", "up" } \/
                        (b.step = "seeding" /\ ~NobodyStored(b.seen))
<1>0. /\ \A r \in ApiReplicas : boot[r] \in Boots /\ DOMAIN boot = ApiReplicas
      /\ \A r \in ApiReplicas : Past(boot[r]) => ~NobodyStored(policies)
  BY DEF TypeOK, BootsOK, Seeded
<1>1. SUFFICES ASSUME NEW o \in ApiReplicas, Past(boot'[o])
               PROVE  ~NobodyStored(policies')
  BY DEF Seeded
<1>2. CASE Past(boot[o])
  BY <1>0, <1>2, StoredStays
<1>3. CASE ~Past(boot[o])
  <2>1. PICK r \in ApiReplicas :
              \/ SeedBegin(r) \/ SeedBaseline(r) \/ AlreadySeeded(r) \/ SeedConflict(r)
              \/ BootRead(r) \/ BootLoad(r) \/ StopReplica(r)
    BY <1>1, <1>3, BootSteppers
  <2>2. boot'[o] # boot[o]
    BY <1>1, <1>3
  <2>3. o = r
    BY <1>0, <2>1, <2>2 DEF SeedBegin, SeedBaseline, AlreadySeeded, SeedConflict,
       BootRead, BootLoad, StopReplica
  <2>4. ASSUME SeedBegin(r) PROVE ~NobodyStored(policies')
    <3>1. boot'[r].step = "seeding" /\ boot'[r].seen = policies /\ policies' = policies
      BY <1>0, <2>4 DEF SeedBegin, Boots
    <3> QED
      BY <1>1, <2>3, <3>1
  <2>5. ASSUME SeedBaseline(r) PROVE ~NobodyStored(policies')
    BY <2>5, ConstitutionAssumption DEF SeedBaseline, NobodyStored, TypeOK, PoliciesOK
  <2>6. ASSUME AlreadySeeded(r) PROVE FALSE
    BY <1>3, <2>3, <2>6 DEF AlreadySeeded
  <2>7. ASSUME SeedConflict(r) \/ StopReplica(r) PROVE FALSE
    <3>1. boot'[r].step \in { "down", "again" }
      BY <1>0, <2>7 DEF SeedConflict, StopReplica, Boots, Down
    <3> QED
      BY <1>1, <2>3, <3>1
  <2>8. ASSUME BootRead(r) \/ BootLoad(r) PROVE FALSE
    BY <1>3, <2>3, <2>8 DEF BootRead, BootLoad
  <2> QED
    BY <2>1, <2>4, <2>5, <2>6, <2>7, <2>8
<1> QED
  BY <1>2, <1>3

-----------------------------------------------------------------------------
(* The chain of one organisation *)

\* Every row of an organisation's chain is a decision of the engine about one
\* of its asks, under a number the sequence has given out, and the chain
\* verifies.
RowsAreDecisions ==
  \A o \in Orgs : \A row \in chain[o] :
    /\ row.seq < nextSeq
    /\ OrgOf(row.entry) = o
    /\ row.decision = Decide(AskOf[row.entry], PolicyOf[row.version])

\* The row under way, at most one in each organisation, follows the chain's
\* newest.
FollowsChain(a, row) ==
  /\ row \in LedgerRows
  /\ row.entry = a /\ row.seq < nextSeq
  /\ row.previous = LatestHash(OrgOf(a))
  /\ \A other \in chain[OrgOf(a)] : other.seq < row.seq

Appending ==
  \A a \in Asks : work[a].step = "appended" =>
    /\ FollowsChain(a, work[a].row)
    /\ work[a].row.decision = work[a].decision /\ work[a].row.version = work[a].by
    /\ \A b \in Asks \ { a } : work[b].step = "appended" => OrgOf(b) # OrgOf(a)

LedgerInv == RowsAreDecisions /\ Topped /\ Appending /\ ChainVerifies

\* How a chain grows: by the row of the ask that commits, in its organisation.
Grows(a) ==
  chain' = [chain EXCEPT ![OrgOf(a)] = @ \cup { work[a].row }]

LEMMA CommitGrows ==
  ASSUME TypeOK, Appending, NEW a \in Asks, CommitEntry(a)
  PROVE  Grows(a) /\ FollowsChain(a, work[a].row)
<1>1. work[a].row \in LedgerRows /\ FollowsChain(a, work[a].row)
  BY DEF CommitEntry, Recorded, Appending, FollowsChain
<1>2. work[a].row # None
  BY <1>1, ConstitutionAssumption
<1>3. chain' = IF work[a].row = None THEN chain
               ELSE [chain EXCEPT ![OrgOf(a)] = @ \cup { work[a].row }]
  BY DEF CommitEntry
<1>4. Grows(a)
  BY <1>2, <1>3 DEF Grows
<1> QED
  BY <1>1, <1>4

LEMMA ChainWriters ==
  ASSUME [NextConstitution]_constitutionVars
  PROVE  \/ UNCHANGED chain /\ nextSeq' = nextSeq
         \/ UNCHANGED chain /\ nextSeq' = nextSeq + 1 /\ \E a \in Asks : AppendEntry(a)
         \/ nextSeq' = nextSeq /\ \E a \in Asks : CommitEntry(a)
<1>1. CASE \E a \in Asks : AppendEntry(a)
  BY <1>1 DEF AppendEntry
<1>2. CASE \E a \in Asks : CommitEntry(a)
  BY <1>2 DEF CommitEntry
<1>3. ASSUME NEW v \in Versions, CreateDraft(v) PROVE UNCHANGED chain /\ nextSeq' = nextSeq
  BY <1>3 DEF CreateDraft
<1>4. ASSUME NEW r \in ApiReplicas,
             \/ SeedBegin(r) \/ SeedBaseline(r) \/ AlreadySeeded(r) \/ SeedConflict(r)
             \/ BootRead(r) \/ BootLoad(r) \/ StopReplica(r)
             \/ \E a \in Asks : EvaluateAsk(a, r)
      PROVE  UNCHANGED chain /\ nextSeq' = nextSeq
  BY <1>4 DEF SeedBegin, SeedBaseline, AlreadySeeded, SeedConflict, BootRead, BootLoad,
              StopReplica, EvaluateAsk
<1>5. ASSUME NEW a \in Asks,
             \/ AppendFails(a) \/ ActivateBegin(a) \/ ActivateCommit(a) \/ ActivateConflict(a)
             \/ ReloadRead(a) \/ ReloadLoad(a)
      PROVE  UNCHANGED chain /\ nextSeq' = nextSeq
  BY <1>5 DEF AppendFails, ActivateBegin, ActivateCommit, ActivateConflict, ReloadRead, ReloadLoad
<1>6. CASE UNCHANGED constitutionVars
  BY <1>6 DEF constitutionVars
<1> QED
  BY <1>1, <1>2, <1>3, <1>4, <1>5, <1>6 DEF NextConstitution

\* A chain that verifies goes on verifying with a row that follows it.
LEMMA GrownVerifies ==
  ASSUME TypeOK, Topped, ChainVerifies, NEW a \in Asks, NEW new,
         FollowsChain(a, new),
         chain' = [chain EXCEPT ![OrgOf(a)] = @ \cup { new }]
  PROVE  Topped' /\ ChainVerifies'
<1> DEFINE g == OrgOf(a)
<1>0. g \in Orgs /\ DOMAIN chain = Orgs
  BY OrgOfIsOrg DEF TypeOK, ChainsOK
<1>1. /\ chain'[g] = chain[g] \cup { new }
      /\ \A o \in Orgs \ { g } : chain'[o] = chain[o]
  BY <1>0
<1>2. /\ new.seq \in Nat
      /\ \A row \in chain[g] : row.seq \in Nat /\ row.seq < new.seq
  BY <1>0 DEF FollowsChain, LedgerRows, TypeOK, ChainsOK
<1>3. Topped'
  <2>1. \A other \in chain'[g] : other.seq <= new.seq
    BY <1>1, <1>2
  <2> QED
    BY <1>1, <2>1 DEF Topped
<1>4. ASSUME NEW row \in chain[g], NEW t \in chain'[g]
      PROVE  t.seq < row.seq <=> t \in chain[g] /\ t.seq < row.seq
  BY <1>1, <1>2
<1>5. ASSUME NEW o \in Orgs, NEW row \in chain'[o]
      PROVE  LET before == { r \in chain'[o] : r.seq < row.seq }
             IN  IF before = {} THEN row.previous = None
                 ELSE \E r \in before : /\ \A s \in before : s.seq <= r.seq
                                        /\ row.previous = ContentHash(r)
  <2> DEFINE before == { r \in chain'[o] : r.seq < row.seq }
  <2>1. ASSUME row \in chain[o]
        PROVE  before = { r \in chain[o] : r.seq < row.seq }
    BY <1>1, <1>4, <2>1
  <2>2. ASSUME row \notin chain[o]
        PROVE  o = g /\ row = new /\ before = chain[g]
    BY <1>1, <1>2, <2>2
  <2>3. CASE row \in chain[o]
    BY <2>1, <2>3 DEF ChainVerifies
  <2>4. CASE row \notin chain[o]
    <3>1. row.previous = LatestHash(g)
      BY <2>2, <2>4 DEF FollowsChain
    <3>2. CASE chain[g] = {}
      BY <2>2, <2>4, <3>1, <3>2 DEF LatestHash
    <3>3. CASE chain[g] # {}
      BY <1>0, <2>2, <2>4, <3>1, <3>3, NewestIsNewest DEF ContentHash
    <3> QED
      BY <3>2, <3>3
  <2> QED
    BY <2>3, <2>4
<1> QED
  BY <1>3, <1>5 DEF ChainVerifies

\* A row under way goes on following a chain that did not grow.
LEMMA FollowsStill ==
  ASSUME TypeOK, NEW b \in Asks, FollowsChain(b, work[b].row),
         chain'[OrgOf(b)] = chain[OrgOf(b)],
         nextSeq' = nextSeq \/ nextSeq' = nextSeq + 1,
         work'[b].row = work[b].row
  PROVE  FollowsChain(b, work[b].row)'
<1>1. work[b].row.seq \in Nat /\ nextSeq \in Nat
  BY DEF FollowsChain, LedgerRows, TypeOK, ChainsOK
<1>2. work[b].row.seq < nextSeq'
  BY <1>1 DEF FollowsChain
<1>3. LatestHash(OrgOf(b))' = LatestHash(OrgOf(b))
  BY DEF LatestHash, OrgOf
<1> QED
  BY <1>2, <1>3 DEF FollowsChain, OrgOf

\* The others' rows are not touched by a step that neither appends nor commits,
\* nor by one that does so elsewhere.
LEMMA AppendedBefore ==
  ASSUME TypeOK, [NextConstitution]_constitutionVars,
         NEW b \in Asks, work'[b].step = "appended", ~AppendEntry(b)
  PROVE  work'[b] = work[b] /\ ~CommitEntry(b)
<1>0. work[b] \in Requests /\ DOMAIN work = Asks
  BY DEF TypeOK, RequestsOK
<1>1. ASSUME NEW r \in ApiReplicas, StopReplica(r)
      PROVE  work'[b] = work[b]
  <2>1. work'[b] = work[b] \/ work'[b].step = "done"
    BY <1>0, <1>1 DEF StopReplica, Requests
  <2> QED
    BY <2>1
<1>2. ASSUME NEW a \in Asks, a # b,
             \/ AppendEntry(a) \/ CommitEntry(a) \/ AppendFails(a)
             \/ ActivateBegin(a) \/ ActivateCommit(a) \/ ActivateConflict(a)
             \/ ReloadRead(a) \/ ReloadLoad(a)
             \/ \E r \in ApiReplicas : EvaluateAsk(a, r)
      PROVE  work'[b] = work[b]
  BY <1>0, <1>2 DEF AppendEntry, CommitEntry, AppendFails, ActivateBegin, ActivateCommit,
     ActivateConflict, ReloadRead, ReloadLoad, EvaluateAsk, Stepped
<1>3. ASSUME \/ CommitEntry(b) \/ AppendFails(b) \/ ActivateCommit(b)
             \/ ActivateConflict(b) \/ ReloadLoad(b)
      PROVE  FALSE
  <2>1. \E step \in { "allowed", "done", "activated" } : Stepped(b, step)
    BY <1>3 DEF CommitEntry, AppendFails, ActivateCommit, ActivateConflict, ReloadLoad
  <2> QED
    BY <1>0, <2>1 DEF Stepped, Requests
<1>4. ASSUME \/ ActivateBegin(b) \/ ReloadRead(b)
             \/ \E r \in ApiReplicas : EvaluateAsk(b, r)
      PROVE  FALSE
  <2>1. CASE ActivateBegin(b)
    <3>1. work'[b].step \in { "activating", "done" }
      BY <1>0, <2>1 DEF ActivateBegin, Stepped, Requests
    <3> QED
      BY <3>1
  <2>2. CASE ReloadRead(b)
    <3>1. work'[b].step = "reloading"
      BY <1>0, <2>2 DEF ReloadRead, Requests
    <3> QED
      BY <3>1
  <2>3. CASE \E r \in ApiReplicas : EvaluateAsk(b, r)
    <3>1. work'[b].step = "decided"
      BY <1>0, <2>3 DEF EvaluateAsk, Requests
    <3> QED
      BY <3>1
  <2> QED
    BY <1>4, <2>1, <2>2, <2>3
<1> QED
  BY <1>1, <1>2, <1>3, <1>4, AskSteppers

\* The first row of a request that starts to append.
LEMMA AppendFollows ==
  ASSUME TypeOK, LedgerInv, Judged, NEW a \in Asks, AppendEntry(a)
  PROVE  /\ FollowsChain(a, work[a].row)'
         /\ work'[a].row.decision = work'[a].decision
         /\ work'[a].row.version = work'[a].by
         /\ \A b \in Asks \ { a } : work'[b] = work[b]
<1>0. work[a] \in Requests /\ DOMAIN work = Asks /\ nextSeq \in Nat
  BY DEF TypeOK, RequestsOK, ChainsOK
<1> DEFINE row == [ seq |-> nextSeq, entry |-> a, previous |-> LatestHash(OrgOf(a)),
                    decision |-> work[a].decision, version |-> work[a].by ]
<1>1. row \in LedgerRows
  <2>1. work[a].decision \in Decisions
    BY DecideIsDecision DEF AppendEntry, Judged
  <2>2. LatestHash(OrgOf(a)) \in Asks \cup { None }
    BY LatestIsAsk, OrgOfIsOrg DEF LedgerInv
  <2> QED
    BY <1>0, <2>1, <2>2 DEF LedgerRows, Requests
<1>2. /\ work'[a].row = row /\ work'[a].decision = work[a].decision
      /\ work'[a].by = work[a].by
      /\ \A b \in Asks \ { a } : work'[b] = work[b]
  BY <1>0 DEF AppendEntry, Requests
<1>3. \A other \in chain[OrgOf(a)] : other.seq < nextSeq
  BY OrgOfIsOrg DEF LedgerInv, RowsAreDecisions
<1>4. /\ row.entry = a /\ row.seq = nextSeq /\ row.previous = LatestHash(OrgOf(a))
      /\ row.decision = work[a].decision /\ row.version = work[a].by
  OBVIOUS
<1> HIDE DEF row
<1>5. /\ nextSeq' = nextSeq + 1 /\ chain' = chain
      /\ LatestHash(OrgOf(a))' = LatestHash(OrgOf(a))
  BY DEF AppendEntry, LatestHash, OrgOf
<1>6. nextSeq < nextSeq'
  BY <1>0, <1>5
<1> QED
  BY <1>1, <1>2, <1>3, <1>4, <1>5, <1>6 DEF FollowsChain, OrgOf

LEMMA AppendingKept ==
  ASSUME TypeOK, LedgerInv, Judged, [NextConstitution]_constitutionVars
  PROVE  Appending'
<1> DEFINE Good(b) ==
      /\ FollowsChain(b, work[b].row)
      /\ work[b].row.decision = work[b].decision /\ work[b].row.version = work[b].by
<1>1. ASSUME NEW b \in Asks, work'[b].step = "appended"
      PROVE  Good(b)'
  <2>1. CASE AppendEntry(b)
    BY <2>1, AppendFollows
  <2>2. CASE ~AppendEntry(b)
    <3>1. work'[b] = work[b] /\ ~CommitEntry(b) /\ Good(b)
      BY <1>1, <2>2, AppendedBefore DEF LedgerInv, Appending
    <3>2. ASSUME NEW a \in Asks, CommitEntry(a)
          PROVE  chain'[OrgOf(b)] = chain[OrgOf(b)]
      <4>1. a # b /\ OrgOf(a) # OrgOf(b)
        BY <1>1, <3>1, <3>2 DEF LedgerInv, Appending, CommitEntry, Recorded
      <4>2. Grows(a)
        BY <3>2, CommitGrows DEF LedgerInv
      <4> QED
        BY <4>1, <4>2 DEF Grows, TypeOK, ChainsOK
    <3>3. /\ chain'[OrgOf(b)] = chain[OrgOf(b)]
          /\ nextSeq' = nextSeq \/ nextSeq' = nextSeq + 1
      BY <3>2, ChainWriters
    <3>4. FollowsChain(b, work[b].row)'
      BY <3>1, <3>3, FollowsStill
    <3> QED
      BY <3>1, <3>4
  <2> QED
    BY <2>1, <2>2
<1>2. ASSUME NEW a \in Asks, NEW b \in Asks \ { a },
             work'[a].step = "appended", work'[b].step = "appended"
      PROVE  OrgOf(b) # OrgOf(a)
  <2>1. CASE AppendEntry(a)
    <3>1. work[b].step = "appended"
      BY <1>2, <2>1, AppendFollows
    <3> QED
      BY <2>1, <3>1 DEF AppendEntry, LedgerIsFree
  <2>2. CASE AppendEntry(b)
    <3>1. work[a].step = "appended"
      BY <1>2, <2>2, AppendFollows
    <3> QED
      BY <2>2, <3>1 DEF AppendEntry, LedgerIsFree
  <2>3. CASE ~AppendEntry(a) /\ ~AppendEntry(b)
    <3>1. work[a].step = "appended" /\ work[b].step = "appended"
      BY <1>2, <2>3, AppendedBefore
    <3> QED
      BY <3>1 DEF LedgerInv, Appending
  <2> QED
    BY <2>1, <2>2, <2>3
<1>3. \A a \in Asks : OrgOf(a)' = OrgOf(a)
  BY DEF OrgOf
<1> QED
  BY <1>1, <1>2, <1>3 DEF Appending

LEMMA LedgerKept ==
  ASSUME TypeOK, LedgerInv, Judged, [NextConstitution]_constitutionVars
  PROVE  LedgerInv'
<1>1. Appending'
  BY AppendingKept
<1>2. CASE /\ UNCHANGED chain
           /\ nextSeq' = nextSeq \/ nextSeq' = nextSeq + 1
  <2>1. \A o \in Orgs : \A row \in chain[o] : row.seq \in Nat
    BY DEF TypeOK, ChainsOK, LedgerRows
  <2>2. nextSeq \in Nat
    BY DEF TypeOK, ChainsOK
  <2>3. \A o \in Orgs : \A row \in chain[o] : row.seq < nextSeq'
    BY <1>2, <2>1, <2>2 DEF LedgerInv, RowsAreDecisions
  <2>4. RowsAreDecisions'
    BY <1>2, <2>3 DEF LedgerInv, RowsAreDecisions, OrgOf
  <2>5. Topped' /\ ChainVerifies'
    BY <1>2 DEF LedgerInv, Topped, ChainVerifies, ContentHash
  <2> QED
    BY <1>1, <2>4, <2>5 DEF LedgerInv
<1>3. ASSUME nextSeq' = nextSeq, NEW a \in Asks, CommitEntry(a)
      PROVE  LedgerInv'
  <2>1. Grows(a) /\ FollowsChain(a, work[a].row)
    BY <1>3, CommitGrows DEF LedgerInv
  <2>2. Topped' /\ ChainVerifies'
    <3>1. chain' = [chain EXCEPT ![OrgOf(a)] = @ \cup { work[a].row }]
      BY <2>1 DEF Grows
    <3> QED
      BY <2>1, <3>1, GrownVerifies DEF LedgerInv
  <2>3. /\ work[a].row.seq < nextSeq /\ work[a].row.entry = a
        /\ work[a].row.decision = Decide(AskOf[a], PolicyOf[work[a].row.version])
    BY <1>3, <2>1 DEF FollowsChain, LedgerInv, Appending, CommitEntry, Recorded, Judged
  <2>4. ASSUME NEW o \in Orgs, NEW row \in chain'[o]
        PROVE  row \in chain[o] \/ (row = work[a].row /\ o = OrgOf(a))
    BY <2>1, <2>4 DEF Grows, TypeOK, ChainsOK
  <2>5. RowsAreDecisions'
    BY <1>3, <2>3, <2>4 DEF LedgerInv, RowsAreDecisions, OrgOf
  <2> QED
    BY <1>1, <2>2, <2>5 DEF LedgerInv
<1> QED
  BY <1>2, <1>3, ChainWriters

-----------------------------------------------------------------------------
(* What is in force got there by an allowed row *)

AllowedIn(rows, a) == \E row \in rows : row.entry = a /\ row.decision = "ALLOW"

\* The decision on an alteration is in the chain before it activates anything.
AllowedIsRecorded ==
  \A a \in Asks :
    work[a].step \in { "allowed", "activating" } => AllowedIn(chain[OrgOf(a)], a)

InForceIsRecorded ==
  \A v \in Versions \ { Baseline } :
    policies[v] \in { "active", "retired" } =>
      \E a \in Asks : /\ AskOf[a].action = AlterAction /\ AskOf[a].to = v
                      /\ AllowedIn(chain[OrgOf(a)], a)

\* Committed rows stay.
LEMMA RowsStay ==
  ASSUME TypeOK, LedgerInv, [NextConstitution]_constitutionVars
  PROVE  \A a \in Asks : AllowedIn(chain[OrgOf(a)], a) => AllowedIn(chain'[OrgOf(a)], a)
<1>1. \A o \in Orgs : chain[o] \subseteq chain'[o]
  <2>1. ASSUME NEW a \in Asks, CommitEntry(a)
        PROVE  \A o \in Orgs : chain[o] \subseteq chain'[o]
    BY <2>1, CommitGrows DEF LedgerInv, Grows, TypeOK, ChainsOK
  <2> QED
    BY <2>1, ChainWriters
<1> QED
  BY <1>1, OrgOfIsOrg DEF AllowedIn

LEMMA AllowedKept ==
  ASSUME TypeOK, LedgerInv, AllowedIsRecorded, [NextConstitution]_constitutionVars
  PROVE  AllowedIsRecorded'
<1>0. \A a \in Asks : work[a] \in Requests /\ DOMAIN work = Asks
  BY DEF TypeOK, RequestsOK
<1>1. SUFFICES ASSUME NEW b \in Asks, work'[b].step \in { "allowed", "activating" }
               PROVE  AllowedIn(chain'[OrgOf(b)], b)
  BY DEF AllowedIsRecorded, OrgOf
<1>2. CASE work[b].step \in { "allowed", "activating" }
  BY <1>2, RowsStay DEF AllowedIsRecorded
<1>3. CASE work[b].step \notin { "allowed", "activating" }
  <2>1. CommitEntry(b) /\ Activates(b)
    <3>1. ASSUME NEW r \in ApiReplicas, StopReplica(r) PROVE FALSE
      <4>1. work'[b] = work[b] \/ work'[b].step = "done"
        BY <1>0, <3>1 DEF StopReplica, Requests
      <4> QED
        BY <1>1, <1>3, <4>1
    <3>2. ASSUME UNCHANGED work PROVE FALSE
      BY <1>1, <1>3, <3>2
    <3>3. PICK a \in Asks :
            \/ AppendEntry(a) \/ CommitEntry(a) \/ AppendFails(a)
            \/ ActivateBegin(a) \/ ActivateCommit(a) \/ ActivateConflict(a)
            \/ ReloadRead(a) \/ ReloadLoad(a)
            \/ \E r \in ApiReplicas : EvaluateAsk(a, r)
      BY <3>1, <3>2, AskSteppers
    <3>4. a = b
      BY <1>0, <1>1, <1>3, <3>3 DEF AppendEntry, CommitEntry, AppendFails, ActivateBegin,
         ActivateCommit, ActivateConflict, ReloadRead, ReloadLoad, EvaluateAsk, Stepped
    <3>5. ~ActivateBegin(b)
      BY <1>3 DEF ActivateBegin
    <3>6. ASSUME \/ AppendEntry(b) \/ AppendFails(b) \/ ActivateCommit(b)
                 \/ ActivateConflict(b) \/ ReloadRead(b) \/ ReloadLoad(b)
                 \/ \E r \in ApiReplicas : EvaluateAsk(b, r)
          PROVE  FALSE
      <4>1. CASE \/ AppendFails(b) \/ ActivateCommit(b) \/ ActivateConflict(b)
                 \/ ReloadLoad(b)
        <5>1. work'[b].step \in { "activated", "done" }
          BY <1>0, <4>1 DEF AppendFails, ActivateCommit, ActivateConflict, ReloadLoad,
             Stepped, Requests
        <5> QED
          BY <1>1, <5>1
      <4>2. CASE AppendEntry(b)
        <5>1. work'[b].step = "appended"
          BY <1>0, <4>2 DEF AppendEntry, Requests
        <5> QED
          BY <1>1, <5>1
      <4>3. CASE ReloadRead(b)
        <5>1. work'[b].step = "reloading"
          BY <1>0, <4>3 DEF ReloadRead, Requests
        <5> QED
          BY <1>1, <5>1
      <4>4. CASE \E r \in ApiReplicas : EvaluateAsk(b, r)
        <5>1. work'[b].step = "decided"
          BY <1>0, <4>4 DEF EvaluateAsk, Requests
        <5> QED
          BY <1>1, <5>1
      <4> QED
        BY <3>6, <4>1, <4>2, <4>3, <4>4
    <3>7. CommitEntry(b)
      BY <3>3, <3>4, <3>5, <3>6
    <3>8. work'[b].step = IF Activates(b) THEN "allowed" ELSE "done"
      BY <1>0, <3>7 DEF CommitEntry, Stepped, Requests
    <3> QED
      BY <1>1, <3>7, <3>8
  <2>2. Grows(b) /\ FollowsChain(b, work[b].row)
    BY <2>1, CommitGrows DEF LedgerInv
  <2>3. work[b].row.entry = b /\ work[b].row.decision = "ALLOW"
    BY <2>1, <2>2 DEF FollowsChain, LedgerInv, Appending, CommitEntry, Recorded, Activates
  <2>4. work[b].row \in chain'[OrgOf(b)]
    BY <2>2, OrgOfIsOrg DEF Grows, TypeOK, ChainsOK
  <2> QED
    BY <2>3, <2>4 DEF AllowedIn
<1> QED
  BY <1>2, <1>3

LEMMA InForceKept ==
  ASSUME TypeOK, BootReads, AskReads, Alters, OneInForce, LedgerInv, AllowedIsRecorded,
         InForceIsRecorded, [NextConstitution]_constitutionVars
  PROVE  InForceIsRecorded'
<1> DEFINE Backed(v) == \E a \in Asks : /\ AskOf[a].action = AlterAction /\ AskOf[a].to = v
                                        /\ AllowedIn(chain'[OrgOf(a)], a)
<1>1. \A v \in Versions \ { Baseline } :
        policies[v] \in { "active", "retired" } => Backed(v)
  BY RowsStay DEF InForceIsRecorded
<1>2. SUFFICES ASSUME NEW v \in Versions \ { Baseline },
                      policies'[v] \in { "active", "retired" }
               PROVE  Backed(v)
  BY DEF InForceIsRecorded, OrgOf
<1>3. ASSUME NEW w \in Versions, CreateDraft(w)
      PROVE  Backed(v)
  <2>1. policies'[v] = policies[v] \/ policies'[v] = "draft"
    BY <1>3 DEF CreateDraft, TypeOK, PoliciesOK
  <2> QED
    BY <1>1, <1>2, <2>1
<1>4. ASSUME NEW r \in ApiReplicas, SeedBaseline(r)
      PROVE  Backed(v)
  <2>1. policies'[v] = policies[v]
    BY <1>4 DEF SeedBaseline, TypeOK, PoliciesOK
  <2> QED
    BY <1>1, <1>2, <2>1
<1>5. ASSUME NEW a \in Asks, ActivateCommit(a), ~InForceWhenRead(a)
      PROVE  Backed(v)
  <2>1. CASE v = AskOf[a].to
    <3>1. work[a].step = "activating"
      BY <1>5 DEF ActivateCommit
    <3>2. AskOf[a].action = AlterAction /\ AllowedIn(chain[OrgOf(a)], a)
      BY <3>1 DEF Alters, Activates, AllowedIsRecorded
    <3> QED
      BY <2>1, <3>2, RowsStay
  <2>2. CASE v # AskOf[a].to
    <3>1. policies[v] \in { "active", "retired" }
      BY <1>2, <1>5, <2>2, ActivationFinds
    <3> QED
      BY <1>1, <3>1
  <2> QED
    BY <2>1, <2>2
<1>6. CASE UNCHANGED policies
  BY <1>1, <1>2, <1>6
<1> QED
  BY <1>3, <1>4, <1>5, <1>6, PolicyWriters

-----------------------------------------------------------------------------
(* The inductive invariant and the theorems *)

IInv ==
  /\ TypeOK /\ BootReads /\ AskReads /\ Alters /\ Judged
  /\ OneInForce /\ Seeded
  /\ LedgerInv /\ AllowedIsRecorded /\ InForceIsRecorded

LEMMA Initially == InitConstitution => IInv
<1> SUFFICES ASSUME InitConstitution PROVE IInv
  OBVIOUS
<1> USE DEF InitConstitution
<1>1. IdleAsk \in Requests /\ Down \in Boots
  BY DEF IdleAsk, Down, Requests, Boots, Snapshots, BootSteps, AskSteps
<1>2. TypeOK
  BY <1>1 DEF TypeOK, BootsOK, RequestsOK, PoliciesOK, LoadedOK, ChainsOK, Statuses
<1>3. BootReads /\ Seeded
  BY DEF BootReads, Seeded, Down
<1>4. AskReads /\ Alters /\ Judged /\ AllowedIsRecorded
  BY DEF AskReads, Alters, Judged, AllowedIsRecorded, IdleAsk
<1>5. OneInForce /\ InForceIsRecorded
  BY DEF OneInForce, NobodyStored, InForceIsRecorded
<1>6. LedgerInv
  BY DEF LedgerInv, RowsAreDecisions, Topped, Appending, ChainVerifies, IdleAsk
<1> QED
  BY <1>2, <1>3, <1>4, <1>5, <1>6 DEF IInv

LEMMA Kept == IInv /\ [NextConstitution]_constitutionVars => IInv'
<1> SUFFICES ASSUME IInv, [NextConstitution]_constitutionVars PROVE IInv'
  OBVIOUS
<1> USE DEF IInv
<1>1. TypeOK'
  BY BootsTyped, RequestsTyped, PoliciesTyped, LoadedTyped, ChainsTyped
     DEF TypeOK, LedgerInv
<1>2. BootReads'
  BY BootReadsKept
<1>3. AskReads' /\ Alters' /\ Judged'
  <2>1. \A a \in Asks : Fits(a, work'[a])
    BY AsksFit, AsksKeepFitting
  <2> QED
    BY <2>1 DEF AskReads, Alters, Judged, Fits, Activates
<1>4. OneInForce' /\ Seeded'
  BY OneInForceKept, SeededKept
<1>5. LedgerInv'
  BY LedgerKept
<1>6. AllowedIsRecorded' /\ InForceIsRecorded'
  BY AllowedKept, InForceKept
<1> QED
  BY <1>1, <1>2, <1>3, <1>4, <1>5, <1>6

LEMMA Invariance == SpecConstitution => []IInv
BY Initially, Kept, PTL DEF SpecConstitution

\* Type correctness: what replicas, requests, policies and ledgers hold
\* (constitution.repository, constitution.service, ledger.repository).
THEOREM TypeCorrect == SpecConstitution => []TypeOK
<1>1. IInv => TypeOK
  BY DEF IInv
<1> QED
  BY <1>1, Invariance, PTL

\* Once there is a policy exactly one version is in force, for any number of
\* replicas that seed and activate at once (constitution.repository: activate,
\* ensureBaselineSeeded).
THEOREM OneActivePolicyHolds == SpecConstitution => []OneActivePolicy
<1>1. OneInForce => OneActivePolicy
  BY FS_Singleton DEF OneInForce, OneActivePolicy
<1>2. IInv => OneInForce
  BY DEF IInv
<1> QED
  BY <1>1, <1>2, Invariance, PTL

\* Every organisation's chain verifies at every moment, for any number of
\* organisations, appends, failures and replicas that stop (ledger.repository:
\* append; ledger.service: verifyChain).
THEOREM ChainVerifiesHolds == SpecConstitution => []ChainVerifies
<1>1. IInv => ChainVerifies
  BY DEF IInv, LedgerInv
<1> QED
  BY <1>1, Invariance, PTL

\* No version beyond the baseline is or was in force but by an allowed
\* alteration on the ledger, approved as its policy asks (constitution.service:
\* activatePolicy, evaluate).
THEOREM ActivationIsAuthorisedHolds == SpecConstitution => []ActivationIsAuthorised
<1>1. ASSUME IInv PROVE ActivationIsAuthorised
  <2>1. SUFFICES ASSUME NEW v \in Versions \ { Baseline },
                        policies[v] \in { "active", "retired" }
                 PROVE  \E o \in Orgs : \E row \in chain[o] :
                          /\ AskOf[row.entry].action = AlterAction
                          /\ AskOf[row.entry].to = v
                          /\ row.decision = "ALLOW"
                          /\ CategoryOf(AskOf[row.entry], PolicyOf[row.version]).approval
                               = "TWO_PERSON"
                             => TwoPersonRule(AskOf[row.entry], PolicyOf[row.version])
    BY DEF ActivationIsAuthorised
  <2>2. PICK a \in Asks : /\ AskOf[a].action = AlterAction /\ AskOf[a].to = v
                          /\ AllowedIn(chain[OrgOf(a)], a)
    BY <1>1, <2>1 DEF IInv, InForceIsRecorded
  <2>3. PICK row \in chain[OrgOf(a)] : row.entry = a /\ row.decision = "ALLOW"
    BY <2>2 DEF AllowedIn
  <2>4. row.decision = Decide(AskOf[a], PolicyOf[row.version])
    BY <1>1, <2>3, OrgOfIsOrg DEF IInv, LedgerInv, RowsAreDecisions
  <2>5. CategoryOf(AskOf[a], PolicyOf[row.version]).approval = "TWO_PERSON"
        => TwoPersonRule(AskOf[a], PolicyOf[row.version])
    BY <2>3, <2>4, AllowedByTwo, ConstitutionAssumption
  <2> QED
    BY <2>2, <2>3, <2>5, OrgOfIsOrg
<1> QED
  BY <1>1, Invariance, PTL

=============================================================================
