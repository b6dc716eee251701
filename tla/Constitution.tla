---------------------------- MODULE Constitution ----------------------------
(***************************************************************************)
(* The policy in force and the ledger of what was decided under it:        *)
(* constitution.service.ts, constitution.repository.ts and the ledger      *)
(* module.  ApiReplicas boot, seed the baseline when there is no policy, and  *)
(* evaluate asks under the version each of them has loaded; every decision *)
(* is a row of its organisation's hash chain before it is told; an ask to  *)
(* alter the constitution activates a version once it was allowed.         *)
(***************************************************************************)
EXTENDS ConstitutionEngine

CONSTANTS
  ApiReplicas,
  Versions, PolicyOf,  \* the policies anybody writes, by version
  Baseline,            \* the version a first boot seeds
  Asks, AskOf,         \* requests; .to is the version an alteration activates
  AlterAction,         \* constitution.rules.alter.core
  SeedAttempts,        \* BASELINE_SEED_ATTEMPTS
  MaxReplicaStops,          \* replicas that stop while working
  None

\* What ledger_entries holds of a row, as far as the chain goes.
LedgerRows ==
  [ seq : Nat, entry : Asks, previous : Asks \cup { None },
    decision : Decisions, version : Versions \cup { None } ]

\* An alteration names the version it activates, and whoever approves a
\* request is named by a spelling of their id.
ASSUME ConstitutionAssumption ==
  /\ Baseline \in Versions
  /\ DOMAIN PolicyOf = Versions /\ DOMAIN AskOf = Asks
  /\ None \notin Versions \cup Asks \cup LedgerRows
  /\ SeedAttempts \in Nat \ {0}
  /\ \A a \in Asks : AskOf[a].approvals \subseteq Ids
  /\ \A a \in Asks : AskOf[a].action = AlterAction => AskOf[a].to \in Versions

VARIABLES
  policies,  \* the status of each version in constitution_policies
  loaded,    \* replica -> the version its process evaluates under
  boot,      \* replica -> where its start is
  work,      \* ask -> where its request is
  chain,     \* organisation -> the committed rows of its ledger
  nextSeq,   \* the ledger's sequence
  replicaStops

constitutionVars == << policies, loaded, boot, work, chain, nextSeq, replicaStops >>

Orgs == { AskOf[a].actor.org : a \in Asks }

IdleAsk == [ step |-> "idle", at |-> None, by |-> None, decision |-> None,
          row |-> None, seen |-> None ]

Down == [ step |-> "down", attempt |-> 1, seen |-> None ]

InitConstitution ==
  /\ policies = [v \in Versions |-> "absent"]
  /\ loaded   = [r \in ApiReplicas |-> None]
  /\ boot     = [r \in ApiReplicas |-> Down]
  /\ work     = [a \in Asks |-> IdleAsk]
  /\ chain    = [o \in Orgs |-> {}]
  /\ nextSeq  = 1
  /\ replicaStops  = 0

-----------------------------------------------------------------------------
(* The policy table.  Its transactions are serializable: one works on the  *)
(* rows it read first, and aborts when a row that was or has come into     *)
(* force has changed since.                                                *)

\* Slip: nothing aborts a transaction that another one has overtaken.
Overwrites(seen) == TRUE

Serializes(seen) ==
  \A v \in Versions :
    { policies[v], seen[v] } \cap { "active", "retired" } # {} => policies[v] = seen[v]

ActiveVersions == { v \in Versions : policies[v] = "active" }

NobodyStored(rows) == \A v \in Versions : rows[v] = "absent"

CreateDraft(v) ==
  /\ policies[v] = "absent" /\ v # Baseline
  /\ \E r \in ApiReplicas : boot[r].step = "up"
  /\ ValidPolicy(PolicyOf[v])
  /\ policies' = [policies EXCEPT ![v] = "draft"]
  /\ UNCHANGED << loaded, boot, work, chain, nextSeq, replicaStops >>

-----------------------------------------------------------------------------
(* A replica starts: seed, read what is active, load *)

SeedBegin(r) ==
  /\ boot[r].step \in { "down", "again" }
  /\ boot' = [boot EXCEPT ![r].step = "seeding", ![r].seen = policies]
  /\ UNCHANGED << policies, loaded, work, chain, nextSeq, replicaStops >>

SeedBaseline(r) ==
  /\ boot[r].step = "seeding" /\ NobodyStored(boot[r].seen)
  /\ Serializes(boot[r].seen)
  /\ policies' = [policies EXCEPT ![Baseline] = "active"]
  /\ boot' = [boot EXCEPT ![r].step = "seeded"]
  /\ UNCHANGED << loaded, work, chain, nextSeq, replicaStops >>

AlreadySeeded(r) ==
  /\ boot[r].step = "seeding" /\ ~NobodyStored(boot[r].seen)
  /\ boot' = [boot EXCEPT ![r].step = "seeded"]
  /\ UNCHANGED << policies, loaded, work, chain, nextSeq, replicaStops >>

\* The loser of a race starts the transaction again, and gives the boot up
\* after SeedAttempts.
SeedConflict(r) ==
  /\ boot[r].step = "seeding" /\ NobodyStored(boot[r].seen)
  /\ ~Serializes(boot[r].seen)
  /\ IF boot[r].attempt = SeedAttempts
       THEN boot' = [boot EXCEPT ![r] = Down]
       ELSE boot' = [boot EXCEPT ![r].step = "again", ![r].attempt = @ + 1]
  /\ UNCHANGED << policies, loaded, work, chain, nextSeq, replicaStops >>

BootRead(r) ==
  /\ boot[r].step = "seeded"
  /\ IF ActiveVersions = {}
       THEN boot' = [boot EXCEPT ![r] = Down]
       ELSE \E v \in ActiveVersions : boot' = [boot EXCEPT ![r].step = "read", ![r].seen = v]
  /\ UNCHANGED << policies, loaded, work, chain, nextSeq, replicaStops >>

BootLoad(r) ==
  /\ boot[r].step = "read" /\ ValidPolicy(PolicyOf[boot[r].seen])
  /\ loaded' = [loaded EXCEPT ![r] = boot[r].seen]
  /\ boot' = [boot EXCEPT ![r] = [Down EXCEPT !.step = "up"]]
  /\ UNCHANGED << policies, work, chain, nextSeq, replicaStops >>

-----------------------------------------------------------------------------
(* An ask is decided and its decision enters the chain *)

Stepped(a, step) == work' = [work EXCEPT ![a].step = step]

EvaluateAsk(a, r) ==
  /\ work[a].step = "idle" /\ boot[r].step = "up"
  /\ work' = [work EXCEPT ![a].step = "decided", ![a].at = r, ![a].by = loaded[r],
                          ![a].decision = Decide(AskOf[a], PolicyOf[loaded[r]])]
  /\ UNCHANGED << policies, loaded, boot, chain, nextSeq, replicaStops >>

OrgOf(a) == AskOf[a].actor.org

\* Slip: appends of one organisation do not wait for each other.
NoLock(a) == TRUE

\* The advisory lock of the organisation is held until the row commits.
LedgerIsFree(a) ==
  \A b \in Asks \ {a} : work[b].step = "appended" => OrgOf(b) # OrgOf(a)

\* The hash of a row's content names the row; it does not cover the link.
ContentHash(row) == row.entry

LatestHash(org) ==
  IF chain[org] = {} THEN None
  ELSE ContentHash(CHOOSE row \in chain[org] : \A other \in chain[org] : other.seq <= row.seq)

\* ledger.repository append: lock, read the latest row, insert after it.
AppendEntry(a) ==
  /\ work[a].step = "decided" /\ LedgerIsFree(a)
  /\ work' = [work EXCEPT ![a].step = "appended",
                ![a].row = [ seq |-> nextSeq, entry |-> a, previous |-> LatestHash(OrgOf(a)),
                             decision |-> work[a].decision, version |-> work[a].by ]]
  /\ nextSeq' = nextSeq + 1
  /\ UNCHANGED << policies, loaded, boot, chain, replicaStops >>

\* Slip: the decision is told while its row is still being written.
ToldAhead(a) == work[a].step \in { "decided", "appended" }

Recorded(a) == work[a].step = "appended"

Activates(a) == AskOf[a].action = AlterAction /\ work[a].decision = "ALLOW"

\* The row commits and evaluate returns; an allowed alteration goes on to
\* activate, everything else is answered.
CommitEntry(a) ==
  /\ Recorded(a)
  /\ chain' = IF work[a].row = None THEN chain
              ELSE [chain EXCEPT ![OrgOf(a)] = @ \cup { work[a].row }]
  /\ Stepped(a, IF Activates(a) THEN "allowed" ELSE "done")
  /\ UNCHANGED << policies, loaded, boot, nextSeq, replicaStops >>

\* The append fails or times out: the decision is lost with it.
AppendFails(a) ==
  /\ work[a].step \in { "decided", "appended" }
  /\ Stepped(a, "done")
  /\ UNCHANGED << policies, loaded, boot, chain, nextSeq, replicaStops >>

-----------------------------------------------------------------------------
(* An allowed alteration activates its version *)

ActivateBegin(a) ==
  /\ work[a].step = "allowed"
  /\ IF policies[AskOf[a].to] \in { "draft", "active" }
       THEN work' = [work EXCEPT ![a].step = "activating", ![a].seen = policies]
       ELSE Stepped(a, "done")
  /\ UNCHANGED << policies, loaded, boot, chain, nextSeq, replicaStops >>

InForceWhenRead(a) == work[a].seen[AskOf[a].to] = "active"

\* Retires the incumbent it read and activates the successor; a version that
\* is active already is left alone.
ActivateCommit(a) ==
  /\ work[a].step = "activating"
  /\ \/ InForceWhenRead(a) /\ UNCHANGED policies
     \/ /\ ~InForceWhenRead(a) /\ Serializes(work[a].seen)
        /\ policies' = [v \in Versions |->
                          IF v = AskOf[a].to THEN "active"
                          ELSE IF work[a].seen[v] = "active" THEN "retired" ELSE policies[v]]
  /\ Stepped(a, "activated")
  /\ UNCHANGED << loaded, boot, chain, nextSeq, replicaStops >>

ActivateConflict(a) ==
  /\ work[a].step = "activating" /\ ~InForceWhenRead(a) /\ ~Serializes(work[a].seen)
  /\ Stepped(a, "done")
  /\ UNCHANGED << policies, loaded, boot, chain, nextSeq, replicaStops >>

\* reload: the row is read, and the answer becomes what the replica loads.
ReloadRead(a) ==
  /\ work[a].step = "activated"
  /\ \E v \in ActiveVersions :
       work' = [work EXCEPT ![a].step = "reloading", ![a].seen = v]
  /\ UNCHANGED << policies, loaded, boot, chain, nextSeq, replicaStops >>

ReloadLoad(a) ==
  /\ work[a].step = "reloading" /\ ValidPolicy(PolicyOf[work[a].seen])
  /\ loaded' = [loaded EXCEPT ![work[a].at] = work[a].seen]
  /\ Stepped(a, "done")
  /\ UNCHANGED << policies, boot, chain, nextSeq, replicaStops >>

-----------------------------------------------------------------------------
(* A replica stops: what it was doing is gone, what had committed stays *)

StopReplica(r) ==
  /\ replicaStops < MaxReplicaStops /\ boot[r].step # "down"
  /\ replicaStops' = replicaStops + 1
  /\ loaded' = [loaded EXCEPT ![r] = None]
  /\ boot' = [boot EXCEPT ![r] = Down]
  /\ work' = [a \in Asks |-> IF work[a].at = r THEN [work[a] EXCEPT !.step = "done"]
                             ELSE work[a]]
  /\ UNCHANGED << policies, chain, nextSeq >>

NextConstitution ==
  \/ \E v \in Versions : CreateDraft(v)
  \/ \E r \in ApiReplicas :
       \/ SeedBegin(r) \/ SeedBaseline(r) \/ AlreadySeeded(r) \/ SeedConflict(r)
       \/ BootRead(r) \/ BootLoad(r) \/ StopReplica(r)
       \/ \E a \in Asks : EvaluateAsk(a, r)
  \/ \E a \in Asks :
       \/ AppendEntry(a) \/ CommitEntry(a) \/ AppendFails(a)
       \/ ActivateBegin(a) \/ ActivateCommit(a) \/ ActivateConflict(a)
       \/ ReloadRead(a) \/ ReloadLoad(a)

SpecConstitution == InitConstitution /\ [][NextConstitution]_constitutionVars

-----------------------------------------------------------------------------
(* Properties *)

\* Once there is a policy exactly one version is active, whoever seeds and
\* activates at the same time (constitution.repository: activate,
\* ensureBaselineSeeded).
OneActivePolicy ==
  NobodyStored(policies) \/ Cardinality(ActiveVersions) = 1

\* verifyChain accepts every organisation's ledger at every moment, whoever
\* appends to it at once (ledger.repository: append; ledger.service:
\* verifyChain).
ChainVerifies ==
  \A o \in Orgs : \A row \in chain[o] :
    LET before == { r \in chain[o] : r.seq < row.seq }
    IN  IF before = {} THEN row.previous = None
        ELSE \E r \in before : /\ \A s \in before : s.seq <= r.seq
                               /\ row.previous = ContentHash(r)

\* Whatever is or was in force, beyond the baseline, got there by a decision
\* the ledger holds, allowed on the approval the deciding policy asks for: two
\* different people who are not the actor (constitution.service:
\* activatePolicy, evaluate).
ActivationIsAuthorised ==
  \A v \in Versions \ { Baseline } :
    policies[v] \in { "active", "retired" } =>
      \E o \in Orgs : \E row \in chain[o] :
        /\ AskOf[row.entry].action = AlterAction /\ AskOf[row.entry].to = v
        /\ row.decision = "ALLOW"
        /\ CategoryOf(AskOf[row.entry], PolicyOf[row.version]).approval = "TWO_PERSON"
             => TwoPersonRule(AskOf[row.entry], PolicyOf[row.version])

\* When nothing is under way, a replica that is up evaluates under the policy
\* in force (constitution.service: "this service evaluating through the very
\* policy currently in force").
LoadedIsInForce ==
  (\A a \in Asks : work[a].step \in { "idle", "done" }) =>
    \A r \in ApiReplicas : boot[r].step = "up" => policies[loaded[r]] = "active"

=============================================================================
