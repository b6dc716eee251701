------------------------- MODULE ConstitutionEngine -------------------------
(***************************************************************************)
(* constitution.engine.ts and constitution.validation.ts as operators: the *)
(* decision on one request under one policy, from its twelve checks, and   *)
(* what makes a policy fit to be in force.  A policy is a record           *)
(* [version, categories, actions, roles, prohibited]; a request names its  *)
(* action, its actor, its target and the approvals it came with, with the  *)
(* roles the server resolved for the approvers.                            *)
(***************************************************************************)
EXTENDS Naturals, FiniteSets

CONSTANTS
  Ids,        \* spellings of a user id
  Canonical,  \* the trimmed, lower-case spelling of each (normaliseApproverId)
  Blank       \* the spelling with nothing in it

ASSUME IdsAssumption ==
  /\ Canonical \in [Ids -> Ids]
  /\ \A i \in Ids : Canonical[Canonical[i]] = Canonical[i]

-----------------------------------------------------------------------------
(* The target's level and the action's category *)

ClassificationLevels ==
  [ PUBLIC |-> 0, INTERNAL |-> 1, SENSITIVE |-> 2, RESTRICTED |-> 3,
    EVIDENCE |-> 4, SECRETS |-> 5 ]

MaxLevel == 5

HasLevel(target) == target.classification \in DOMAIN ClassificationLevels

\* A label nobody knows counts as the strictest; a declared level only raises.
EffectiveLevel(target) ==
  LET canonical == IF HasLevel(target) THEN ClassificationLevels[target.classification]
                                       ELSE MaxLevel
  IN  IF target.level > canonical THEN target.level ELSE canonical

HasCategory(request, policy) ==
  /\ request.action \in DOMAIN policy.actions
  /\ policy.actions[request.action] \in DOMAIN policy.categories

\* Without a category the approval requirement fails closed: two persons, of
\* whom none can be authorised.
CategoryOf(request, policy) ==
  IF HasCategory(request, policy)
    THEN policy.categories[policy.actions[request.action]]
    ELSE [ approval |-> "TWO_PERSON", roles |-> {}, diverse |-> FALSE ]

ApproversNeeded == [ NONE |-> 0, ONE |-> 1, TWO_PERSON |-> 2 ]

Needed(request, policy) == ApproversNeeded[CategoryOf(request, policy).approval]

-----------------------------------------------------------------------------
(* Who approved *)

\* Slip: two spellings of one user id count as two people.
SpelledApart(id) == id

Person(id) == Canonical[id]

Candidates(request) ==
  { id \in request.approvals : /\ Person(id) # Person(request.actor.id)
                               /\ Person(id) # Blank }

\* The roles resolved for an approver are looked up by the normalised id first.
ResolvedRoles(request, id) ==
  IF Canonical[id] \in DOMAIN request.approverRoles
    THEN request.approverRoles[Canonical[id]]
    ELSE IF id \in DOMAIN request.approverRoles THEN request.approverRoles[id] ELSE {}

Authorised(request, policy, id) ==
  ResolvedRoles(request, id) \cap CategoryOf(request, policy).roles # {}

EligibleApprovers(request, policy) ==
  { Person(id) : id \in { i \in Candidates(request) : Authorised(request, policy, i) } }

\* The diversity check resolves each eligible person again, by that id alone.
AuthorisingRoles(request, policy) ==
  UNION { ResolvedRoles(request, p) \cap CategoryOf(request, policy).roles :
            p \in EligibleApprovers(request, policy) }

-----------------------------------------------------------------------------
(* The checks *)

RolePermits(request, policy) ==
  \E role \in request.actor.roles :
    role \in DOMAIN policy.roles /\ request.action \in policy.roles[role]

ClassificationConsistent(target) ==
  HasLevel(target) /\ ClassificationLevels[target.classification] = target.level

DeviceTrustAcceptable(trust, level) ==
  \/ trust \in { "TRUSTED", "DEGRADED" }
  \/ trust = "SUSPICIOUS" /\ level <= 1

PurposePresent(request) ==
  EffectiveLevel(request.target) >= 2 => request.actor.purpose

HardChecks(request, policy) ==
  /\ request.action \notin policy.prohibited
  /\ request.action \in DOMAIN policy.actions
  /\ HasCategory(request, policy)
  /\ RolePermits(request, policy)
  /\ request.actor.org = request.target.org
  /\ ClassificationConsistent(request.target)
  /\ request.actor.clearance >= EffectiveLevel(request.target)
  /\ DeviceTrustAcceptable(request.actor.trust, EffectiveLevel(request.target))
  /\ PurposePresent(request)

\* An approval by the actor, or by somebody without the authority to approve,
\* fails the request even when the others would do.
NoSelfApproval(request, policy) ==
  Needed(request, policy) > 0 =>
    \A id \in request.approvals : Person(id) # Person(request.actor.id)

ApproversAuthorised(request, policy) ==
  Needed(request, policy) > 0 =>
    { Person(id) : id \in Candidates(request) } \subseteq EligibleApprovers(request, policy)

DistinctSufficient(request, policy) ==
  /\ Cardinality(EligibleApprovers(request, policy)) >= Needed(request, policy)
  /\ CategoryOf(request, policy).diverse =>
       Cardinality(AuthorisingRoles(request, policy)) >= Needed(request, policy)

ApprovalChecks(request, policy) ==
  /\ NoSelfApproval(request, policy)
  /\ ApproversAuthorised(request, policy)
  /\ DistinctSufficient(request, policy)

Decisions == { "ALLOW", "DENY", "REQUIRE_APPROVAL", "REQUIRE_TWO_PERSON" }

Decide(request, policy) ==
  IF ~HardChecks(request, policy) THEN "DENY"
  ELSE IF ApprovalChecks(request, policy) THEN "ALLOW"
  ELSE IF CategoryOf(request, policy).approval = "TWO_PERSON" THEN "REQUIRE_TWO_PERSON"
  ELSE "REQUIRE_APPROVAL"

-----------------------------------------------------------------------------
(* Validation of a policy *)

ValidPolicy(policy) ==
  /\ \A a \in DOMAIN policy.actions : policy.actions[a] \in DOMAIN policy.categories
  /\ \A r \in DOMAIN policy.roles :
       /\ policy.roles[r] \subseteq DOMAIN policy.actions
       /\ policy.roles[r] \cap policy.prohibited = {}
  /\ \A c \in DOMAIN policy.categories :
       /\ policy.categories[c].approval # "NONE" => policy.categories[c].roles # {}
       /\ policy.categories[c].roles \subseteq DOMAIN policy.roles

-----------------------------------------------------------------------------
(* What a decision to allow promises *)

\* Two different people approved, neither of them the actor, each holding a
\* role the category accepts; where it asks for diverse roles, different ones.
TwoPersonRule(request, policy) ==
  \E p, q \in request.approvals :
    /\ Canonical[p] # Canonical[q]
    /\ Canonical[request.actor.id] \notin { Canonical[p], Canonical[q] }
    /\ \E r \in ResolvedRoles(request, p) \cap CategoryOf(request, policy).roles,
          s \in ResolvedRoles(request, q) \cap CategoryOf(request, policy).roles :
         CategoryOf(request, policy).diverse => r # s

=============================================================================
