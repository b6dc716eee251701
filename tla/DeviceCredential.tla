-------------------------- MODULE DeviceCredential --------------------------
(***************************************************************************)
(* A registered device in SHIELD: its trust, its revocation, its keys and  *)
(* the attestation evidence behind them (device-trust.service.ts,          *)
(* device-key.service.ts, shield.repository.ts).                           *)
(*                                                                         *)
(* Observations, dispositions and trust decisions downwards read the       *)
(* device and its key before their transaction opens and are fenced by     *)
(* compare-and-set; decisions upwards and rotations lock the rows they     *)
(* rest on.  A decision that was read and not yet applied is a Decider's.  *)
(***************************************************************************)
EXTENDS Integers, FiniteSets

CONSTANTS
  Deciders,    \* administrators and evaluators at work at the same time
  MaxVersion,  \* key versions are followed up to here
  Storages,    \* storage classes a rotation may propose
  NoDecision   \* the decider has nothing in hand

ASSUME CredentialAssumption ==
  /\ MaxVersion \in Nat \ {0} /\ Storages \subseteq {"HARDWARE", "SOFTWARE"}

Trusts == {"TRUSTED", "DEGRADED", "SUSPICIOUS", "QUARANTINED", "COMPROMISED", "OFFLINE"}

KeyStatuses == {"NONE", "CURRENT", "ROTATED", "REVOKED", "COMPROMISED"}

Dispositions == {"LOST", "STOLEN", "COMPROMISED_KEY"}

\* The standing of the latest evidence; EXPIRED is a good one past its grace.
Standings == {"CURRENT", "LAST_KNOWN_GOOD", "EXPIRED", "NEGATIVE", "INELIGIBLE"}

Outcomes == {"VERIFIED", "UNAVAILABLE", "NEGATIVE"}

Versions == 1 .. MaxVersion

VARIABLES
  trust,      \* devices.trust, "NONE" before the device exists
  revoked,    \* devices.revoked_at is set
  pointer,    \* devices.current_key_version
  keys,       \* [Versions -> [status, storage]]
  rotation,   \* [Versions -> [state, storage, proven]], by proposed version
  standing,   \* what the stored observations amount to
  held,       \* the device has been TRUSTED before
  decision    \* [Deciders -> what was read, and what for]

credentialVars == <<trust, revoked, pointer, keys, rotation, standing, held, decision>>

Exists == trust # "NONE"

KeyAt(v) == keys[v].status

CurrentStorage == keys[pointer].storage

Decisions == [ to : Trusts \cup Dispositions \cup Outcomes,
               from : Trusts, key : Versions, status : KeyStatuses ]

\* device_keys, device_key_rotation_requests.
KeyRow == [status : KeyStatuses, storage : {"HARDWARE", "SOFTWARE"}]

RotationRow == [ state : {"NONE", "REQUESTED", "CHALLENGED", "ROTATED"},
                 storage : {"HARDWARE", "SOFTWARE"}, proven : BOOLEAN ]

CredentialTypeOK ==
  /\ trust \in Trusts \cup {"NONE"} /\ revoked \in BOOLEAN /\ held \in BOOLEAN
  /\ pointer \in 0 .. MaxVersion
  /\ keys \in [Versions -> KeyRow]
  /\ rotation \in [Versions -> RotationRow]
  /\ standing \in Standings
  /\ decision \in [Deciders -> Decisions \cup {NoDecision}]

CredentialInit ==
  /\ trust = "NONE" /\ revoked = FALSE /\ held = FALSE
  /\ pointer = 0
  /\ keys = [v \in Versions |-> [status |-> "NONE", storage |-> "SOFTWARE"]]
  /\ rotation = [v \in Versions |-> [state |-> "NONE", storage |-> "SOFTWARE", proven |-> FALSE]]
  /\ standing = "INELIGIBLE"
  /\ decision = [d \in Deciders |-> NoDecision]

\* What the ingress hands over: a hardware-backed key whose chain it accepted,
\* or one whose chain it did not.
AttestationStanding(storage) == IF storage = "HARDWARE" THEN "CURRENT" ELSE "NEGATIVE"

InitialTrust(storage, s) ==
  IF s = "NEGATIVE" THEN "QUARANTINED"
  ELSE IF storage = "HARDWARE" /\ s = "CURRENT" THEN "TRUSTED" ELSE "DEGRADED"

\* The device is made by a commit of its enrolment: its first key is CURRENT
\* and its trust follows from the storage and the attestation of that key.
Register(storage) ==
  /\ trust = "NONE"
  /\ trust' = InitialTrust(storage, AttestationStanding(storage))
  /\ held' = (trust' = "TRUSTED")
  /\ pointer' = 1
  /\ keys' = [keys EXCEPT ![1] = [status |-> "CURRENT", storage |-> storage]]
  /\ standing' = AttestationStanding(storage)
  /\ UNCHANGED <<revoked, rotation, decision>>

---------------------------------------------------------------------------
\* What readers ask, at two levels that are answered separately.

DeviceLevelWithdrawn == revoked \/ trust = "COMPROMISED"

KeyLevelWithdrawn == KeyAt(pointer) # "CURRENT"

Withdrawn == DeviceLevelWithdrawn \/ KeyLevelWithdrawn

PermitsTrusted(s) == s \in {"CURRENT", "LAST_KNOWN_GOOD"}

\* Persisted trust, lowered while its evidence has expired.
EffectiveTrust == IF trust = "TRUSTED" /\ ~PermitsTrusted(standing) THEN "DEGRADED" ELSE trust

FieldTrust == {"TRUSTED", "DEGRADED"}

MayAct == Exists /\ ~Withdrawn /\ EffectiveTrust \in FieldTrust

---------------------------------------------------------------------------
\* Transitions of trust.

Upward == {"TRUSTED", "DEGRADED"}

\* Slip: a restored device is not asked whether its credential is whole.
AllowedOnEvidence(from, to, intact, restoring) ==
  from # "COMPROMISED" /\ to # from /\ (to \in Upward => standing # "NEGATIVE")

\* evaluateDeviceTrustTransition, on what the caller knows of the device.
Allowed(from, to, intact, restoring) ==
  /\ from # "COMPROMISED" /\ to # from
  /\ to \in Upward =>
       /\ intact
       /\ from \in {"SUSPICIOUS", "QUARANTINED"} =>
            restoring /\ standing \notin {"NEGATIVE", "INELIGIBLE"}
       /\ to = "TRUSTED" =>
            /\ CurrentStorage = "HARDWARE" /\ PermitsTrusted(standing)
            /\ from = "OFFLINE" => held

MoveTrust(to) == trust' = to /\ held' = (held \/ to = "TRUSTED")

\* A decision upwards locks the device, its key and its evidence.
RaiseTrust(to, restoring) ==
  /\ Exists
  /\ trust \in {"SUSPICIOUS", "QUARANTINED"} => restoring
  /\ Allowed(trust, to, ~revoked /\ ~KeyLevelWithdrawn, restoring)
  /\ MoveTrust(to)
  /\ UNCHANGED <<revoked, pointer, keys, rotation, standing, decision>>

\* What the key's life cycle leaves room for, asked before the transaction.
MayWithdraw(status, x) ==
  CASE x = "STOLEN"          -> status \in {"CURRENT", "ROTATED"}
    [] x = "COMPROMISED_KEY" -> status \in {"CURRENT", "ROTATED", "REVOKED"}
    [] OTHER                 -> TRUE

\* Everyone else reads first: the device's trust and its current key.
Decide(d, to) ==
  /\ Exists /\ decision[d] = NoDecision
  /\ to \in Dispositions => trust # "COMPROMISED" /\ MayWithdraw(KeyAt(pointer), to)
  /\ decision' = [decision EXCEPT ![d] = [to |-> to, from |-> trust, key |-> pointer, status |-> KeyAt(pointer)]]
  /\ UNCHANGED <<trust, revoked, pointer, keys, rotation, standing, held>>

Done(d) == decision' = [decision EXCEPT ![d] = NoDecision]

\* The decision is allowed from what was read, and the fenced update meets it.
Applies(d, to) == trust = decision[d].from /\ Allowed(trust, to, decision[d].status = "CURRENT", FALSE)

\* A decision downwards.
LowerTrust(d) ==
  LET to == decision[d].to IN
  /\ decision[d] # NoDecision /\ to \in Trusts \ Upward
  /\ IF Applies(d, to) THEN MoveTrust(to) ELSE UNCHANGED <<trust, held>>
  /\ Done(d)
  /\ UNCHANGED <<revoked, pointer, keys, rotation, standing>>

\* A new observation: only UNAVAILABLE leaves an earlier verdict standing.
Observed(outcome) ==
  CASE outcome = "VERIFIED" -> {"CURRENT"}
    [] outcome = "NEGATIVE" -> {"NEGATIVE"}
    [] OTHER                -> IF standing = "CURRENT" THEN {"LAST_KNOWN_GOOD", "EXPIRED"} ELSE {standing}

\* The observation is appended whatever becomes of the move it asks for: a
\* negative one quarantines, and one that cannot carry TRUSTED degrades.
RecordAttestation(d) ==
  /\ decision[d] # NoDecision /\ decision[d].to \in Outcomes
  /\ standing' \in Observed(decision[d].to)
  /\ LET to == IF standing' = "NEGATIVE" THEN "QUARANTINED" ELSE "DEGRADED"
         asked == standing' = "NEGATIVE" \/ (decision[d].from = "TRUSTED" /\ ~PermitsTrusted(standing'))
     IN IF asked /\ trust = decision[d].from /\ trust \notin {to, "COMPROMISED"}
             /\ (to = "DEGRADED" => decision[d].status = "CURRENT")
          THEN MoveTrust(to) ELSE UNCHANGED <<trust, held>>
  /\ Done(d)
  /\ UNCHANGED <<revoked, pointer, keys, rotation>>

DispositionTrust(x) == IF x = "COMPROMISED_KEY" THEN "COMPROMISED" ELSE "QUARANTINED"

WithdrawnStatus(x) == IF x = "STOLEN" THEN "REVOKED" ELSE "COMPROMISED"

\* The key that was read is withdrawn from the status it was read in.
WithdrawsKey(d, x) ==
  /\ KeyAt(decision[d].key) = decision[d].status
  /\ keys' = [keys EXCEPT ![decision[d].key].status = WithdrawnStatus(x)]

\* Lost, stolen or compromised: trust, the device's revocation and its key in
\* one transaction, undone as a whole when trust or key have moved.
DeclareDisposition(d) ==
  LET x == decision[d].to IN
  /\ decision[d] # NoDecision /\ x \in Dispositions
  /\ \/ /\ Applies(d, DispositionTrust(x))
        /\ MoveTrust(DispositionTrust(x))
        /\ revoked' = (x # "LOST")
        /\ IF x = "LOST" THEN UNCHANGED keys ELSE WithdrawsKey(d, x)
     \/ /\ \/ ~Applies(d, DispositionTrust(x))
           \/ x # "LOST" /\ KeyAt(decision[d].key) # decision[d].status
        /\ UNCHANGED <<trust, held, revoked, keys>>
  /\ Done(d)
  /\ UNCHANGED <<pointer, rotation, standing>>

---------------------------------------------------------------------------
\* Rotation.

\* One request for each successor version, for good.
RequestRotation(storage) ==
  /\ Exists /\ pointer < MaxVersion /\ rotation[pointer + 1].state = "NONE"
  /\ rotation' = [rotation EXCEPT ![pointer + 1] = [state |-> "REQUESTED", storage |-> storage, proven |-> FALSE]]
  /\ UNCHANGED <<trust, revoked, pointer, keys, standing, held, decision>>

\* A challenge is issued, again if need be; no new one has a verdict yet.
ChallengeRotation(v) ==
  /\ rotation[v].state \in {"REQUESTED", "CHALLENGED"}
  /\ rotation' = [rotation EXCEPT ![v].state = "CHALLENGED", ![v].proven = FALSE]
  /\ UNCHANGED <<trust, revoked, pointer, keys, standing, held, decision>>

ProveRotation(v) ==
  /\ rotation[v].state = "CHALLENGED"
  /\ rotation' = [rotation EXCEPT ![v].proven = TRUE]
  /\ UNCHANGED <<trust, revoked, pointer, keys, standing, held, decision>>

\* Slip: the two withdrawals are not asked about.
RotatableByVersion(v) == pointer = v - 1

\* The registry still holds the key the request rotates away from, unwithdrawn.
Rotatable(v) == pointer = v - 1 /\ KeyAt(pointer) = "CURRENT" /\ ~DeviceLevelWithdrawn

\* Slip: the successor is registered beside the key it replaces.
Beside(v) == [keys EXCEPT ![v] = [status |-> "CURRENT", storage |-> rotation[v].storage]]

Succeeded(v) ==
  [keys EXCEPT ![v - 1].status = "ROTATED",
               ![v] = [status |-> "CURRENT", storage |-> rotation[v].storage]]

\* The request, its challenge and its verdict, under their locks; possession
\* of the old key is proven with the same call.
Proven(v) == rotation[v].state = "CHALLENGED" /\ rotation[v].proven

\* The old key, its successor, the pointer and the request, or none of them.
CommitRotation(v) ==
  /\ Proven(v) /\ Rotatable(v)
  /\ keys' = Succeeded(v)
  /\ pointer' = v
  /\ rotation' = [rotation EXCEPT ![v].state = "ROTATED"]
  /\ UNCHANGED <<trust, revoked, standing, held, decision>>

\* The grace of the last good evidence ends.
GraceEnds ==
  /\ standing = "LAST_KNOWN_GOOD"
  /\ standing' = "EXPIRED"
  /\ UNCHANGED <<trust, revoked, pointer, keys, rotation, held, decision>>

CredentialStep ==
  \/ \E to \in Upward, restoring \in BOOLEAN : RaiseTrust(to, restoring)
  \/ \E d \in Deciders :
       \/ \E to \in (Trusts \ (Upward \cup {"COMPROMISED"})) \cup Dispositions \cup Outcomes : Decide(d, to)
       \/ LowerTrust(d) \/ RecordAttestation(d) \/ DeclareDisposition(d)
  \/ \E storage \in Storages : RequestRotation(storage)
  \/ \E v \in 2 .. MaxVersion : ChallengeRotation(v) \/ ProveRotation(v) \/ CommitRotation(v)
  \/ GraceEnds

CredentialNext == CredentialStep \/ \E storage \in Storages : Register(storage)

CredentialSpec == CredentialInit /\ [][CredentialNext]_credentialVars

---------------------------------------------------------------------------
\* Properties.

\* The registry keeps its promise: whatever decisions, dispositions and
\* rotations overlap, the credential an observer sees is admitted once, moves
\* only from an admitted key to its successor, and is never unwithdrawn
\* (credentialWithdrawal, commitKeyRotation, declareDisposition).
Credential == INSTANCE CredentialPromise WITH
  standing <- IF ~Exists THEN "ABSENT" ELSE IF Withdrawn THEN "WITHDRAWN" ELSE "ADMITTED",
  version  <- pointer

ImplementsCredential == Credential!Spec

\* No device that still acts has lost part of its credential: a revoked device
\* or a withdrawn key never keeps a trust that field work is permitted on, so
\* the three writes of a disposition were never split (declareDisposition).
ActingIsWhole == trust \in FieldTrust => ~Withdrawn

\* At most the key the device points to is CURRENT, every older one was
\* rotated away or withdrawn, and none is registered ahead of the pointer
\* (commitKeyRotation, markDeviceKeyRotated, advanceDeviceCurrentKey).
KeysAgree ==
  \A v \in Versions :
    CASE v < pointer -> KeyAt(v) \in {"ROTATED", "REVOKED", "COMPROMISED"}
      [] v > pointer -> KeyAt(v) = "NONE"
      [] OTHER       -> KeyAt(v) \in {"CURRENT", "REVOKED", "COMPROMISED"}

\* No device is trusted on a key that is held in software
\* (initialDeviceTrustOnEnrollment, evaluateDeviceTrustTransition).
TrustedIsHardwareBacked == trust = "TRUSTED" => CurrentStorage = "HARDWARE"

=============================================================================
