------------------------ MODULE DeviceIdentityProofs ------------------------
(***************************************************************************)
(* Proofs about DeviceIdentity, for any number of people, keys, challenges *)
(* and submissions, any number of decisions taken at the same time, and    *)
(* any number of rotations.                                                *)
(***************************************************************************)
EXTENDS DeviceIdentity, TLAPS

(* The credential *)

\* A revoked device's key is withdrawn too, so clearing the time of the
\* revocation, which a later LOST does, brings nothing back.
RevokedKeyIsGone == revoked => KeyAt(pointer) # "CURRENT"

\* What was read of a key grows old in one direction: the pointer moves on
\* from it, and a key that was not CURRENT keeps the device from rotating.
ReadingsAge ==
  \A d \in Deciders : decision[d] # NoDecision =>
    /\ decision[d].key <= pointer
    /\ decision[d].status # "CURRENT" => KeyAt(pointer) # "CURRENT"

CredentialInv ==
  /\ CredentialTypeOK
  /\ Exists <=> pointer # 0
  /\ revoked => Exists
  /\ KeysAgree /\ ActingIsWhole /\ RevokedKeyIsGone /\ ReadingsAge

\* A step that admits, replaces and restores no credential.
Keeps ==
  /\ Exists' = Exists /\ pointer' = pointer
  /\ Withdrawn => Withdrawn'

\* The standing an observer sees, as CredentialPromise is told of it.
Standing == IF ~Exists THEN "ABSENT" ELSE IF Withdrawn THEN "WITHDRAWN" ELSE "ADMITTED"

---------------------------------------------------------------------------
\* The operators the registry is built from.

LEMMA DecisionFields ==
  ASSUME CredentialTypeOK, NEW d \in Deciders, decision[d] # NoDecision
  PROVE  /\ decision[d].to \in Trusts \cup Dispositions \cup Outcomes
         /\ decision[d].from \in Trusts /\ decision[d].key \in Versions
         /\ decision[d].status \in KeyStatuses
  BY DEF CredentialTypeOK, Decisions

LEMMA DoneForgets ==
  ASSUME CredentialTypeOK, NEW d \in Deciders, Done(d)
  PROVE  /\ decision' \in [Deciders -> Decisions \cup {NoDecision}]
         /\ \A e \in Deciders : decision'[e] \in {decision[e], NoDecision}
  BY DEF Done, CredentialTypeOK

LEMMA PointerIsVersion ==
  ASSUME CredentialTypeOK, Exists <=> pointer # 0
  PROVE  /\ pointer \in Nat /\ (Exists => pointer \in Versions)
         /\ \A v \in Versions : keys[v] \in KeyRow /\ KeyAt(v) \in KeyStatuses
         /\ MaxVersion \in Nat \ {0}
  BY CredentialAssumption DEF CredentialTypeOK, Versions, KeyRow, KeyAt

\* While nothing is done to the keys, what was read of them only grows older.
LEMMA KeysRest ==
  ASSUME CredentialInv, UNCHANGED <<pointer, keys>>,
         \A d \in Deciders : decision'[d] \in {decision[d], NoDecision}
  PROVE  KeysAgree' /\ ReadingsAge'
<1>1. KeysAgree'
  BY DEF CredentialInv, KeysAgree, KeyAt
<1>2. ReadingsAge'
  BY DEF CredentialInv, ReadingsAge, KeyAt
<1> QED BY <1>1, <1>2

\* Nothing but trust moves, and it moves only between what is not COMPROMISED.
LEMMA TrustMoves ==
  ASSUME CredentialInv, NEW to \in Trusts, Exists, trust # "COMPROMISED",
         to \in FieldTrust => ~Withdrawn, MoveTrust(to),
         UNCHANGED <<revoked, pointer, keys>>,
         rotation' \in [Versions -> RotationRow], standing' \in Standings,
         decision' \in [Deciders -> Decisions \cup {NoDecision}],
         \A d \in Deciders : decision'[d] \in {decision[d], NoDecision}
  PROVE  CredentialInv' /\ Keeps
<1>1. CredentialTypeOK' /\ Exists' /\ trust' = to
  BY DEF CredentialInv, CredentialTypeOK, MoveTrust, Exists, Trusts
<1>2. KeysAgree' /\ ReadingsAge'
  BY KeysRest
<1>3. ActingIsWhole'
  BY <1>1 DEF ActingIsWhole, Withdrawn, DeviceLevelWithdrawn, KeyLevelWithdrawn, KeyAt, FieldTrust
<1>4. RevokedKeyIsGone'
  BY DEF CredentialInv, RevokedKeyIsGone, KeyAt
<1>5. Keeps
  BY <1>1 DEF Keeps, Withdrawn, DeviceLevelWithdrawn, KeyLevelWithdrawn, KeyAt
<1> QED BY <1>1, <1>2, <1>3, <1>4, <1>5 DEF CredentialInv

\* Nothing happens to the credential.
LEMMA CredentialRests ==
  ASSUME CredentialInv, UNCHANGED <<trust, revoked, pointer, keys, held>>,
         rotation' \in [Versions -> RotationRow], standing' \in Standings,
         decision' \in [Deciders -> Decisions \cup {NoDecision}],
         \A d \in Deciders : decision'[d] \in {decision[d], NoDecision}
  PROVE  CredentialInv' /\ Keeps
<1>1. CredentialTypeOK' /\ Exists' = Exists
  BY DEF CredentialInv, CredentialTypeOK, Exists
<1>2. KeysAgree' /\ ReadingsAge'
  BY KeysRest
<1>3. ActingIsWhole' /\ RevokedKeyIsGone' /\ Keeps
  BY <1>1 DEF CredentialInv, ActingIsWhole, RevokedKeyIsGone, Keeps,
              Withdrawn, DeviceLevelWithdrawn, KeyLevelWithdrawn, KeyAt
<1> QED BY <1>1, <1>2, <1>3 DEF CredentialInv

---------------------------------------------------------------------------
\* The operations of the registry.

LEMMA CredentialInvInit == CredentialInit => CredentialInv
<1> SUFFICES ASSUME CredentialInit PROVE CredentialInv
  OBVIOUS
<1>1. CredentialTypeOK
  <2>1. keys \in [Versions -> KeyRow]
    BY DEF CredentialInit, KeyRow, KeyStatuses
  <2>2. rotation \in [Versions -> RotationRow]
    BY DEF CredentialInit, RotationRow
  <2>3. pointer \in 0 .. MaxVersion
    BY CredentialAssumption DEF CredentialInit
  <2> QED BY <2>1, <2>2, <2>3 DEF CredentialInit, CredentialTypeOK, Standings
<1>2. KeysAgree
  BY DEF CredentialInit, KeysAgree, KeyAt, Versions
<1> QED BY <1>1, <1>2 DEF CredentialInit, CredentialInv, Exists, ActingIsWhole, FieldTrust,
           RevokedKeyIsGone, ReadingsAge

LEMMA RegisterKeepsInv ==
  ASSUME CredentialInv, NEW storage \in {"HARDWARE", "SOFTWARE"}, Register(storage)
  PROVE  /\ CredentialInv'
         /\ ~Exists /\ Exists' /\ ~Withdrawn' /\ pointer = 0 /\ pointer' = 1
<1>1. /\ ~Exists /\ pointer = 0 /\ ~revoked' /\ pointer' = 1
      /\ trust' \in {"TRUSTED", "DEGRADED", "QUARANTINED"} /\ Exists'
  BY DEF Register, CredentialInv, Exists, InitialTrust
<1>2. 1 \in Versions /\ keys'[1] = [status |-> "CURRENT", storage |-> storage]
  BY CredentialAssumption DEF Versions, Register, CredentialInv, CredentialTypeOK
<1>3. keys' \in [Versions -> KeyRow]
  BY <1>2 DEF Register, CredentialInv, CredentialTypeOK, KeyRow, KeyStatuses
<1>4. CredentialTypeOK'
  BY <1>1, <1>2, <1>3, CredentialAssumption
     DEF Register, CredentialInv, CredentialTypeOK, Trusts, Standings, AttestationStanding, Versions
<1>5. KeysAgree'
  <2> SUFFICES ASSUME NEW v \in Versions
               PROVE  /\ v > 1 => keys'[v].status = "NONE"
                      /\ v = 1 => keys'[v].status = "CURRENT"
    BY <1>1 DEF KeysAgree, KeyAt, Versions
  <2>1. v > 1 => keys'[v] = keys[v] /\ v > pointer
    BY <1>1, CredentialAssumption DEF Register, CredentialInv, CredentialTypeOK, Versions
  <2> QED BY <1>1, <1>2, <2>1 DEF CredentialInv, KeysAgree, KeyAt, Versions
<1>6. ~Withdrawn'
  BY <1>1, <1>2 DEF Withdrawn, DeviceLevelWithdrawn, KeyLevelWithdrawn, KeyAt
<1>7. ReadingsAge'
  <2> SUFFICES ASSUME NEW d \in Deciders, decision[d] # NoDecision PROVE FALSE
    BY DEF ReadingsAge, Register
  <2> QED BY <1>1, DecisionFields DEF CredentialInv, ReadingsAge, Versions
<1> QED BY <1>1, <1>4, <1>5, <1>6, <1>7
        DEF CredentialInv, ActingIsWhole, RevokedKeyIsGone

LEMMA RaiseKeepsInv ==
  ASSUME CredentialInv, NEW to \in Upward, NEW restoring \in BOOLEAN, RaiseTrust(to, restoring)
  PROVE  CredentialInv' /\ Keeps
<1>1. Exists /\ trust # "COMPROMISED" /\ ~Withdrawn /\ to \in Trusts
  BY DEF RaiseTrust, Allowed, Withdrawn, DeviceLevelWithdrawn, Upward, Trusts
<1> QED BY <1>1, TrustMoves DEF RaiseTrust, CredentialInv, CredentialTypeOK

LEMMA DecideKeepsInv ==
  ASSUME CredentialInv, NEW d \in Deciders, NEW to \in Trusts \cup Dispositions \cup Outcomes,
         Decide(d, to)
  PROVE  CredentialInv' /\ Keeps
<1> DEFINE new == [to |-> to, from |-> trust, key |-> pointer, status |-> KeyAt(pointer)]
<1>1. new \in Decisions
  BY PointerIsVersion DEF Decide, CredentialInv, CredentialTypeOK, Decisions, Exists
<1>2. /\ decision' \in [Deciders -> Decisions \cup {NoDecision}] /\ decision'[d] = new
      /\ \A e \in Deciders : e # d => decision'[e] = decision[e]
  BY <1>1 DEF Decide, CredentialInv, CredentialTypeOK
<1>3. new.key = pointer /\ new.status = KeyAt(pointer)
  OBVIOUS
<1>4. pointer \in Nat
  BY PointerIsVersion DEF CredentialInv
<1> HIDE DEF new
<1>5. ReadingsAge'
  <2> SUFFICES ASSUME NEW e \in Deciders, decision'[e] # NoDecision
               PROVE  /\ decision'[e].key <= pointer
                      /\ decision'[e].status # "CURRENT" => KeyAt(pointer) # "CURRENT"
    BY DEF ReadingsAge, Decide, KeyAt
  <2>1. CASE e = d
    BY <2>1, <1>2, <1>3, <1>4
  <2>2. CASE e # d
    BY <2>2, <1>2 DEF CredentialInv, ReadingsAge
  <2> QED BY <2>1, <2>2
<1> QED BY <1>2, <1>5 DEF Decide, CredentialInv, CredentialTypeOK, Exists, KeysAgree, ActingIsWhole,
           RevokedKeyIsGone, Keeps, Withdrawn, DeviceLevelWithdrawn, KeyLevelWithdrawn, KeyAt

LEMMA LowerKeepsInv ==
  ASSUME CredentialInv, NEW d \in Deciders, LowerTrust(d)
  PROVE  CredentialInv' /\ Keeps
<1> DEFINE to == decision[d].to
<1>1. /\ decision' \in [Deciders -> Decisions \cup {NoDecision}]
      /\ \A e \in Deciders : decision'[e] \in {decision[e], NoDecision}
  BY DoneForgets DEF LowerTrust, CredentialInv
<1>2. CASE Applies(d, to)
  <2>1. to \in Trusts /\ to \notin FieldTrust /\ MoveTrust(to)
    BY <1>2 DEF LowerTrust, Upward, FieldTrust
  <2>2. trust # "COMPROMISED" /\ Exists
    BY <1>2, DecisionFields DEF LowerTrust, Applies, Allowed, CredentialInv, Exists, Trusts
  <2> HIDE DEF to
  <2> QED BY <1>1, <2>1, <2>2, TrustMoves DEF LowerTrust, CredentialInv, CredentialTypeOK
<1>3. CASE ~Applies(d, to)
  BY <1>1, <1>3, CredentialRests DEF LowerTrust, CredentialInv, CredentialTypeOK
<1> QED BY <1>2, <1>3

LEMMA ObservationKeepsInv ==
  ASSUME CredentialInv, NEW d \in Deciders, RecordAttestation(d)
  PROVE  CredentialInv' /\ Keeps
<1> DEFINE to == IF standing' = "NEGATIVE" THEN "QUARANTINED" ELSE "DEGRADED"
           asked == standing' = "NEGATIVE" \/ (decision[d].from = "TRUSTED" /\ ~PermitsTrusted(standing'))
           moves == /\ asked /\ trust = decision[d].from /\ trust \notin {to, "COMPROMISED"}
                    /\ (to = "DEGRADED" => decision[d].status = "CURRENT")
<1>1. /\ decision' \in [Deciders -> Decisions \cup {NoDecision}]
      /\ \A e \in Deciders : decision'[e] \in {decision[e], NoDecision}
  BY DoneForgets DEF RecordAttestation, CredentialInv
<1>2. standing' \in Standings
  BY DEF RecordAttestation, Observed, Standings, CredentialInv, CredentialTypeOK
<1>3. CASE moves
  <2>1. to \in Trusts /\ MoveTrust(to) /\ trust # "COMPROMISED"
    BY <1>3 DEF RecordAttestation, Trusts
  <2>2. Exists
    BY <1>3, DecisionFields DEF RecordAttestation, CredentialInv, Exists, Trusts
  <2>3. to \in FieldTrust => ~Withdrawn
    BY <1>3 DEF FieldTrust, CredentialInv, ActingIsWhole
  <2> HIDE DEF to, moves
  <2> QED BY <1>1, <1>2, <2>1, <2>2, <2>3, TrustMoves DEF RecordAttestation, CredentialInv, CredentialTypeOK
<1>4. CASE ~moves
  <2>1. UNCHANGED <<trust, held>>
    BY <1>4 DEF RecordAttestation
  <2> QED BY <1>1, <1>2, <2>1, CredentialRests DEF RecordAttestation, CredentialInv, CredentialTypeOK
<1> QED BY <1>3, <1>4

\* A disposition that is carried out leaves a device that is revoked, or
\* whose key was withdrawn before, or that was only lost.
LEMMA DispositionKeepsInv ==
  ASSUME CredentialInv, NEW d \in Deciders, DeclareDisposition(d)
  PROVE  CredentialInv' /\ Keeps
<1> DEFINE x == decision[d].to
           k == decision[d].key
<1>1. /\ decision' \in [Deciders -> Decisions \cup {NoDecision}]
      /\ \A e \in Deciders : decision'[e] \in {decision[e], NoDecision}
  BY DoneForgets DEF DeclareDisposition, CredentialInv
<1>2. CASE UNCHANGED <<trust, held, revoked, keys>>
  BY <1>1, <1>2, CredentialRests DEF DeclareDisposition, CredentialInv, CredentialTypeOK
<1>3. ASSUME Applies(d, DispositionTrust(x)), MoveTrust(DispositionTrust(x)), revoked' = (x # "LOST"),
             IF x = "LOST" THEN UNCHANGED keys ELSE WithdrawsKey(d, x)
      PROVE  CredentialInv' /\ Keeps
  <2>1. /\ x \in Dispositions /\ k \in Versions /\ trust # "COMPROMISED" /\ Exists
        /\ UNCHANGED <<pointer, rotation, standing>>
    BY <1>3, DecisionFields
       DEF Applies, Allowed, DeclareDisposition, CredentialInv, Exists, Trusts
  <2>2. trust' \in {"QUARANTINED", "COMPROMISED"} /\ Exists' /\ held' \in BOOLEAN
    BY <1>3, <2>1 DEF MoveTrust, DispositionTrust, Exists, CredentialInv, CredentialTypeOK
  <2>3. pointer \in Versions /\ k <= pointer /\ (decision[d].status # "CURRENT" => KeyAt(pointer) # "CURRENT")
    BY <2>1, PointerIsVersion DEF DeclareDisposition, CredentialInv, ReadingsAge
  <2>4. /\ keys' \in [Versions -> KeyRow]
        /\ \A v \in Versions :
             \/ keys'[v] = keys[v] /\ (x = "LOST" \/ v # k)
             \/ x # "LOST" /\ v = k /\ keys[v].status = decision[d].status
                /\ keys'[v].status \in {"REVOKED", "COMPROMISED"}
    <3>1. CASE x = "LOST"
      BY <1>3, <3>1 DEF CredentialInv, CredentialTypeOK
    <3>2. CASE x # "LOST"
      BY <1>3, <2>1, <3>2 DEF WithdrawsKey, WithdrawnStatus, CredentialInv, CredentialTypeOK, KeyAt,
                              KeyRow, KeyStatuses
    <3> QED BY <3>1, <3>2
  <2> HIDE DEF x, k
  <2>5. CredentialTypeOK'
    BY <1>1, <2>1, <2>2, <2>4, <1>3 DEF CredentialInv, CredentialTypeOK, Trusts
  <2>6. KeysAgree'
    <3> SUFFICES ASSUME NEW v \in Versions
                 PROVE  /\ v < pointer => keys'[v].status \in {"ROTATED", "REVOKED", "COMPROMISED"}
                        /\ v > pointer => keys'[v].status = "NONE"
                        /\ v = pointer => keys'[v].status \in {"CURRENT", "REVOKED", "COMPROMISED"}
      BY <2>1, <2>3 DEF KeysAgree, KeyAt, Versions
    <3> QED BY <2>3, <2>4 DEF CredentialInv, KeysAgree, KeyAt, Versions
  <2>7. /\ x # "LOST" => keys'[pointer].status # "CURRENT"
        /\ KeyAt(pointer) # "CURRENT" => keys'[pointer].status # "CURRENT"
    <3>1. CASE decision[d].status # "CURRENT"
      BY <2>3, <2>4, <3>1 DEF KeyAt
    <3>2. ASSUME decision[d].status = "CURRENT", x # "LOST" PROVE k = pointer
      BY <2>1, <2>3, <2>4, <3>2 DEF CredentialInv, KeysAgree, KeyAt, Versions
    <3> QED BY <2>3, <2>4, <3>1, <3>2 DEF KeyAt
  <2>8. RevokedKeyIsGone' /\ ActingIsWhole'
    BY <1>3, <2>1, <2>2, <2>7 DEF RevokedKeyIsGone, ActingIsWhole, FieldTrust, KeyAt
  <2>9. ReadingsAge'
    BY <1>1, <2>1, <2>7 DEF CredentialInv, ReadingsAge, KeyAt
  <2>10. Keeps
    BY <1>3, <2>1, <2>2, <2>7
       DEF Keeps, Withdrawn, DeviceLevelWithdrawn, KeyLevelWithdrawn, KeyAt, CredentialInv, RevokedKeyIsGone
  <2> QED BY <2>1, <2>2, <2>3, <2>5, <2>6, <2>8, <2>9, <2>10 DEF CredentialInv, Versions
<1> QED BY <1>2, <1>3 DEF DeclareDisposition

LEMMA RotationRequestKeepsInv ==
  ASSUME CredentialInv, NEW storage \in Storages, RequestRotation(storage)
  PROVE  CredentialInv' /\ Keeps
<1>1. rotation' \in [Versions -> RotationRow]
  <2>1. [state |-> "REQUESTED", storage |-> storage, proven |-> FALSE] \in RotationRow
    BY CredentialAssumption DEF RotationRow
  <2> QED BY <2>1 DEF RequestRotation, CredentialInv, CredentialTypeOK
<1> QED BY <1>1, CredentialRests DEF RequestRotation, CredentialInv, CredentialTypeOK

LEMMA RotationWorkKeepsInv ==
  ASSUME CredentialInv, NEW v \in 2 .. MaxVersion, ChallengeRotation(v) \/ ProveRotation(v)
  PROVE  CredentialInv' /\ Keeps
<1>1. rotation' \in [Versions -> RotationRow]
  <2>1. CASE ChallengeRotation(v)
    <3> DEFINE w == [rotation[v] EXCEPT !.state = "CHALLENGED", !.proven = FALSE]
    <3>1. rotation \in [Versions -> RotationRow] /\ v \in Versions
      BY DEF CredentialInv, CredentialTypeOK, Versions
    <3>2. w \in RotationRow
      BY <3>1 DEF RotationRow
    <3>3. rotation' = [rotation EXCEPT ![v] = w]
      BY <2>1 DEF ChallengeRotation
    <3> HIDE DEF w
    <3> QED BY <3>1, <3>2, <3>3
  <2>2. CASE ProveRotation(v)
    BY <2>2 DEF ProveRotation, CredentialInv, CredentialTypeOK, RotationRow
  <2> QED BY <2>1, <2>2
<1> QED BY <1>1, CredentialRests DEF ChallengeRotation, ProveRotation, CredentialInv, CredentialTypeOK

\* The successor takes the place of a key that was whole.
LEMMA RotationKeepsInv ==
  ASSUME CredentialInv, NEW v \in 2 .. MaxVersion, CommitRotation(v)
  PROVE  /\ CredentialInv'
         /\ Exists /\ Exists' /\ ~Withdrawn /\ ~Withdrawn'
         /\ pointer' = pointer + 1 /\ pointer < MaxVersion
<1>1. /\ v \in Versions /\ v - 1 \in Versions /\ pointer = v - 1 /\ pointer' = v
      /\ pointer \in Nat /\ Exists /\ Exists'
  BY PointerIsVersion DEF CommitRotation, Rotatable, CredentialInv, Versions, Exists
<1>2. rotation[v].storage \in {"HARDWARE", "SOFTWARE"}
  BY <1>1 DEF CredentialInv, CredentialTypeOK, RotationRow
<1>3. /\ keys' \in [Versions -> KeyRow]
      /\ keys'[v - 1].status = "ROTATED" /\ keys'[v].status = "CURRENT"
      /\ \A u \in Versions : u \notin {v - 1, v} => keys'[u] = keys[u]
  <2> DEFINE old == [keys[v - 1] EXCEPT !.status = "ROTATED"]
             new == [status |-> "CURRENT", storage |-> rotation[v].storage]
  <2>1. keys \in [Versions -> KeyRow]
    BY DEF CredentialInv, CredentialTypeOK
  <2>2. keys' = [keys EXCEPT ![v - 1] = old, ![v] = new]
    BY DEF CommitRotation, Succeeded
  <2>3. old \in KeyRow /\ old.status = "ROTATED"
    BY <1>1, <2>1 DEF KeyRow, KeyStatuses
  <2>4. new \in KeyRow /\ new.status = "CURRENT"
    BY <1>2 DEF KeyRow, KeyStatuses
  <2>5. v - 1 # v
    BY <1>1
  <2> HIDE DEF old, new
  <2> QED BY <1>1, <2>1, <2>2, <2>3, <2>4, <2>5
<1>4. rotation' \in [Versions -> RotationRow]
  BY DEF CommitRotation, CredentialInv, CredentialTypeOK, RotationRow
<1>5. CredentialTypeOK'
  BY <1>1, <1>3, <1>4 DEF CommitRotation, CredentialInv, CredentialTypeOK, Versions
<1>6. KeysAgree'
  <2> SUFFICES ASSUME NEW u \in Versions
               PROVE  /\ u < v => keys'[u].status \in {"ROTATED", "REVOKED", "COMPROMISED"}
                      /\ u > v => keys'[u].status = "NONE"
                      /\ u = v => keys'[u].status \in {"CURRENT", "REVOKED", "COMPROMISED"}
    BY <1>1 DEF KeysAgree, KeyAt, Versions
  <2> QED BY <1>1, <1>3 DEF CredentialInv, KeysAgree, KeyAt, Versions
<1>7. ~Withdrawn /\ ~Withdrawn'
  BY <1>1, <1>3 DEF CommitRotation, Rotatable, Withdrawn, DeviceLevelWithdrawn, KeyLevelWithdrawn, KeyAt
<1>8. ReadingsAge'
  <2> SUFFICES ASSUME NEW d \in Deciders, decision[d] # NoDecision
               PROVE  decision[d].key <= v /\ decision[d].status = "CURRENT"
    BY <1>1 DEF CommitRotation, ReadingsAge
  <2>1. decision[d].key \in Int /\ decision[d].key <= pointer /\ decision[d].status = "CURRENT"
    BY DecisionFields DEF CommitRotation, Rotatable, CredentialInv, ReadingsAge, Versions
  <2> QED BY <1>1, <2>1
<1>9. ActingIsWhole' /\ RevokedKeyIsGone'
  BY <1>7 DEF ActingIsWhole, RevokedKeyIsGone, Withdrawn, DeviceLevelWithdrawn
<1>10. pointer' = pointer + 1 /\ pointer < MaxVersion /\ pointer' # 0 /\ (revoked' => Exists')
  BY <1>1, PointerIsVersion DEF CredentialInv, Versions
<1> QED BY <1>1, <1>5, <1>6, <1>7, <1>8, <1>9, <1>10 DEF CredentialInv

LEMMA GraceKeepsInv ==
  ASSUME CredentialInv, GraceEnds
  PROVE  CredentialInv' /\ Keeps
BY CredentialRests DEF GraceEnds, CredentialInv, CredentialTypeOK, Standings

\* Whatever the registry does keeps its invariant, and either it admits,
\* replaces and restores nothing, or it replaces a whole key by its successor.
LEMMA CredentialStepKeepsInv ==
  ASSUME CredentialInv, CredentialStep
  PROVE  /\ CredentialInv'
         /\ \/ Keeps
            \/ /\ Exists /\ Exists' /\ ~Withdrawn /\ ~Withdrawn'
               /\ pointer' = pointer + 1 /\ pointer < MaxVersion
<1>1. ASSUME NEW to \in Upward, NEW restoring \in BOOLEAN, RaiseTrust(to, restoring)
      PROVE  CredentialInv' /\ Keeps
  BY <1>1, RaiseKeepsInv
<1>2. ASSUME NEW d \in Deciders,
             NEW to \in (Trusts \ (Upward \cup {"COMPROMISED"})) \cup Dispositions \cup Outcomes, Decide(d, to)
      PROVE  CredentialInv' /\ Keeps
  BY <1>2, DecideKeepsInv
<1>3. ASSUME NEW d \in Deciders, LowerTrust(d) \/ RecordAttestation(d) \/ DeclareDisposition(d)
      PROVE  CredentialInv' /\ Keeps
  BY <1>3, LowerKeepsInv, ObservationKeepsInv, DispositionKeepsInv
<1>4. ASSUME NEW storage \in Storages, RequestRotation(storage)
      PROVE  CredentialInv' /\ Keeps
  BY <1>4, RotationRequestKeepsInv
<1>5. ASSUME NEW v \in 2 .. MaxVersion, ChallengeRotation(v) \/ ProveRotation(v)
      PROVE  CredentialInv' /\ Keeps
  BY <1>5, RotationWorkKeepsInv
<1>6. ASSUME NEW v \in 2 .. MaxVersion, CommitRotation(v)
      PROVE  /\ CredentialInv'
             /\ Exists /\ Exists' /\ ~Withdrawn /\ ~Withdrawn'
             /\ pointer' = pointer + 1 /\ pointer < MaxVersion
  BY <1>6, RotationKeepsInv
<1> QED BY <1>1, <1>2, <1>3, <1>4, <1>5, <1>6, GraceKeepsInv DEF CredentialStep

---------------------------------------------------------------------------
(* The ceremony *)

\* A request is for a real key.
KeyRequested == request.state # "NONE" => request.key \in Keys

\* From its approval on, a request has an approver who is neither the issuer
\* of the grant nor the one it is for.
SecondPersonApproved ==
  request.state \in {"APPROVED", "POSSESSION_PROVEN", "ENROLLED"} =>
    approver \in People \ {issuer, intended}

CommitInv ==
  /\ KeyRequested /\ SecondPersonApproved /\ EnrolledByCeremony
  /\ ~Exists => enrolled = NoKey

\* A submission that went on from its challenge spent it, one that created or
\* met the request of its grant is about that request's key, and so is one
\* that was told its outcome was recorded.
SubmissionHolds(r) ==
  LET w == submission[r] IN
  /\ w.step \in {"READ", "CLAIMED", "VERIFIED", "CREATED"} => w.key \in Keys
  /\ w.step \in {"CLAIMED", "VERIFIED", "CREATED"} => challenge[w.challenge].consumer = w.key
  /\ w.step = "CREATED" \/ w.answer = "RECORDED" => request.state # "NONE" /\ request.key = w.key

\* The outcome beside a challenge is that of the submission that spent it.
ReceiptHolds(q) ==
  challenge[q].receipt # NoKey =>
    /\ request.state # "NONE"
    /\ challenge[q].receipt = request.key /\ challenge[q].consumer = request.key

AnswerInv ==
  /\ \A r \in Requests : SubmissionHolds(r)
  /\ \A q \in Challenges : ReceiptHolds(q)

IdentityInv == EnrolmentTypeOK /\ CredentialInv /\ CommitInv /\ AnswerInv

---------------------------------------------------------------------------
\* Types.

LEMMA SubmissionTypes ==
  ASSUME EnrolmentTypeOK, NEW r \in Requests
  PROVE  /\ submission[r].challenge \in Challenges /\ submission[r].key \in Keys \cup {NoKey}
         /\ challenge[submission[r].challenge] \in ChallengeRow
         /\ \A a \in Answers : Answer(r, a) => submission' \in [Requests -> SubmissionState]
         /\ \A t \in {"VERIFIED", "CLAIMED", "CREATED"} :
              Step(r, t) => submission' \in [Requests -> SubmissionState]
<1>1. submission[r] \in SubmissionState
  BY DEF EnrolmentTypeOK
<1>2. /\ submission[r].challenge \in Challenges /\ submission[r].key \in Keys \cup {NoKey}
      /\ challenge[submission[r].challenge] \in ChallengeRow
  BY <1>1 DEF EnrolmentTypeOK, SubmissionState
<1>3. ASSUME NEW a \in Answers, Answer(r, a) PROVE submission' \in [Requests -> SubmissionState]
  <2> DEFINE s == [submission[r] EXCEPT !.step = "DONE", !.answer = a]
  <2>1. s \in SubmissionState
    BY <1>1 DEF SubmissionState
  <2>2. submission' = [submission EXCEPT ![r] = s]
    BY <1>3 DEF Answer
  <2> HIDE DEF s
  <2> QED BY <2>1, <2>2 DEF EnrolmentTypeOK
<1>4. ASSUME NEW t \in {"VERIFIED", "CLAIMED", "CREATED"}, Step(r, t)
      PROVE  submission' \in [Requests -> SubmissionState]
  <2> DEFINE s == [submission[r] EXCEPT !.step = t]
  <2>1. s \in SubmissionState
    BY <1>1 DEF SubmissionState
  <2>2. submission' = [submission EXCEPT ![r] = s]
    BY <1>4 DEF Step
  <2> HIDE DEF s
  <2> QED BY <2>1, <2>2 DEF EnrolmentTypeOK
<1> QED BY <1>2, <1>3, <1>4

LEMMA EnrolmentTypesInit == EnrolmentInit => EnrolmentTypeOK
<1> SUFFICES ASSUME EnrolmentInit PROVE EnrolmentTypeOK
  OBVIOUS
<1>1. challenge \in [Challenges -> ChallengeRow]
  BY DEF EnrolmentInit, ChallengeRow
<1>2. submission \in [Requests -> SubmissionState]
  BY DEF EnrolmentInit, SubmissionState, Answers
<1>3. request \in RequestRow
  BY DEF EnrolmentInit, RequestRow, EnrolmentStates
<1> QED BY <1>1, <1>2, <1>3 DEF EnrolmentInit, EnrolmentTypeOK, Approvers, ProofStates, DeviceRow

LEMMA EnrolmentTypesNext ==
  ASSUME EnrolmentTypeOK, EnrolmentStep \/ \E c \in Proofs, p \in People : CommitEnrollment(c, p)
  PROVE  EnrolmentTypeOK'
<1>1. CASE BurnGrant \/ RevokeGrant
  BY <1>1 DEF BurnGrant, RevokeGrant, EnrolmentTypeOK, GrantEnds
<1>2. CASE WindowEnds
  <2>1. ASSUME grant' = grant \cup {"EXPIRED"},
               UNCHANGED <<challenge, submission, request, approver, proof, consumed, enrolled>>
        PROVE  EnrolmentTypeOK'
    BY <2>1 DEF EnrolmentTypeOK, GrantEnds
  <2>2. ASSUME request' = [request EXCEPT !.stale = TRUE],
               UNCHANGED <<grant, challenge, submission, approver, proof, consumed, enrolled>>
        PROVE  EnrolmentTypeOK'
    <3>1. request' \in RequestRow
      BY <2>2 DEF EnrolmentTypeOK, RequestRow
    <3> QED BY <2>2, <3>1 DEF EnrolmentTypeOK
  <2>3. ASSUME NEW q \in Challenges, challenge' = [challenge EXCEPT ![q].lapsed = TRUE],
               UNCHANGED <<grant, submission, request, approver, proof, consumed, enrolled>>
        PROVE  EnrolmentTypeOK'
    <3>1. challenge' \in [Challenges -> ChallengeRow]
      BY <2>3 DEF EnrolmentTypeOK, ChallengeRow
    <3> QED BY <2>3, <3>1 DEF EnrolmentTypeOK
  <2>4. ASSUME NEW c \in Proofs, proof' = [proof EXCEPT ![c] = "LAPSED"],
               UNCHANGED <<grant, challenge, submission, request, approver, consumed, enrolled>>
        PROVE  EnrolmentTypeOK'
    BY <2>4 DEF EnrolmentTypeOK, ProofStates
  <2> QED BY <1>2, <2>1, <2>2, <2>3, <2>4 DEF WindowEnds
<1>3. ASSUME NEW r \in Requests, NEW k \in Keys, ReadChallenge(r, k) PROVE EnrolmentTypeOK'
  <2> DEFINE q == submission[r].challenge
             t == IF Usable /\ challenge[q].consumer = NoKey /\ ~challenge[q].lapsed THEN "READ" ELSE "DONE"
             a == IF ~Usable THEN "REFUSED"
                  ELSE IF challenge[q].consumer # NoKey THEN RecordedAnswer(k, q)
                  ELSE IF challenge[q].lapsed THEN "REFUSED" ELSE "NONE"
  <2>1. submission' = [submission EXCEPT ![r].key = k, ![r].step = t, ![r].answer = a]
    BY <1>3 DEF ReadChallenge
  <2>2. t \in {"READ", "DONE"} /\ a \in Answers
    BY DEF RecordedAnswer, Answers
  <2> HIDE DEF t, a
  <2>3. submission' \in [Requests -> SubmissionState]
    <3> DEFINE s == [submission[r] EXCEPT !.key = k, !.step = t, !.answer = a]
    <3>1. submission[r] \in SubmissionState /\ submission \in [Requests -> SubmissionState]
      BY DEF EnrolmentTypeOK
    <3>2. s \in SubmissionState
      BY <2>2, <3>1 DEF SubmissionState
    <3>3. submission' = [submission EXCEPT ![r] = s]
      BY <2>1
    <3> HIDE DEF s
    <3> QED BY <3>1, <3>2, <3>3
  <2> QED BY <1>3, <2>3 DEF ReadChallenge, EnrolmentTypeOK
<1>4. ASSUME NEW r \in Requests, ConsumeChallenge(r) PROVE EnrolmentTypeOK'
  <2>1. submission' \in [Requests -> SubmissionState]
    <3>1. RecordedAnswer(submission[r].key, submission[r].challenge) \in Answers
      BY DEF RecordedAnswer, Answers
    <3> QED BY <1>4, <3>1, SubmissionTypes DEF ConsumeChallenge
  <2>2. challenge' \in [Challenges -> ChallengeRow]
    BY <1>4, SubmissionTypes DEF ConsumeChallenge, EnrolmentTypeOK, ChallengeRow
  <2> QED BY <1>4, <2>1, <2>2 DEF ConsumeChallenge, EnrolmentTypeOK
<1>5. ASSUME NEW r \in Requests, PresentGrant(r) \/ LoseSubmission(r) PROVE EnrolmentTypeOK'
  <2>1. submission' \in [Requests -> SubmissionState]
    BY <1>5, SubmissionTypes DEF PresentGrant, LoseSubmission, Answers
  <2> QED BY <1>5, <2>1 DEF PresentGrant, LoseSubmission, EnrolmentTypeOK
<1>6. ASSUME NEW r \in Requests, CreateRequest(r) PROVE EnrolmentTypeOK'
  <2>1. submission' \in [Requests -> SubmissionState]
    BY <1>6, SubmissionTypes DEF CreateRequest, Answers
  <2>2. request' \in RequestRow
    <3>1. [ state |-> "REQUESTED", key |-> submission[r].key, stale |-> FALSE,
            storage |-> StorageOf(submission[r].key, submission[r].challenge) ] \in RequestRow
      BY SubmissionTypes DEF RequestRow, EnrolmentStates, StorageOf
    <3> QED BY <1>6, <3>1 DEF CreateRequest, EnrolmentTypeOK
  <2> QED BY <1>6, <2>1, <2>2 DEF CreateRequest, EnrolmentTypeOK
<1>7. ASSUME NEW r \in Requests, RecordOutcome(r) PROVE EnrolmentTypeOK'
  <2>1. submission' \in [Requests -> SubmissionState]
    BY <1>7, SubmissionTypes DEF RecordOutcome, Answers
  <2>2. challenge' \in [Challenges -> ChallengeRow]
    <3>1. request.key \in Keys \cup {NoKey}
      BY DEF EnrolmentTypeOK, RequestRow
    <3> DEFINE q == submission[r].challenge
               c == [challenge[q] EXCEPT !.receipt = IF @ = NoKey THEN request.key ELSE @]
    <3>2. q \in Challenges /\ challenge[q] \in ChallengeRow /\ challenge \in [Challenges -> ChallengeRow]
      BY SubmissionTypes DEF EnrolmentTypeOK
    <3>3. c \in ChallengeRow
      BY <3>1, <3>2 DEF ChallengeRow
    <3>4. challenge' = [challenge EXCEPT ![q] = c]
      BY <1>7 DEF RecordOutcome
    <3> HIDE DEF q, c
    <3> QED BY <3>2, <3>3, <3>4
  <2> QED BY <1>7, <2>1, <2>2 DEF RecordOutcome, EnrolmentTypeOK
<1>8. ASSUME NEW p \in People, Approve(p) PROVE EnrolmentTypeOK'
  BY <1>8 DEF Approve, EnrolmentTypeOK, RequestRow, EnrolmentStates, Approvers
<1>9. ASSUME NEW c \in Proofs, IssueProof(c) PROVE EnrolmentTypeOK'
  BY <1>9 DEF IssueProof, EnrolmentTypeOK, ProofStates
<1>10. ASSUME NEW c \in Proofs, NEW good \in BOOLEAN, VerifyPossession(c, good) PROVE EnrolmentTypeOK'
  <2>1. request' \in RequestRow
    <3>1. [request EXCEPT !.state = "POSSESSION_PROVEN"] \in RequestRow /\ request \in RequestRow
      BY DEF EnrolmentTypeOK, RequestRow, EnrolmentStates
    <3> QED BY <1>10, <3>1 DEF VerifyPossession
  <2>2. proof' \in [Proofs -> ProofStates]
    BY <1>10 DEF VerifyPossession, EnrolmentTypeOK, ProofStates
  <2> QED BY <1>10, <2>1, <2>2 DEF VerifyPossession, EnrolmentTypeOK
<1>11. ASSUME NEW c \in Proofs, NEW p \in People, CommitEnrollment(c, p) PROVE EnrolmentTypeOK'
  <2>1. request' \in RequestRow /\ enrolled' \in DeviceRow
    BY <1>11 DEF CommitEnrollment, RollBack, enrolmentVars, EnrolmentTypeOK, RequestRow, EnrolmentStates, DeviceRow
  <2> QED BY <1>11, <2>1 DEF CommitEnrollment, RollBack, enrolmentVars, EnrolmentTypeOK
<1> QED BY <1>1, <1>2, <1>3, <1>4, <1>5, <1>6, <1>7, <1>8, <1>9, <1>10, <1>11 DEF EnrolmentStep

---------------------------------------------------------------------------
\* The commit and what it consumed.

LEMMA CommitInvInit == Init => CommitInv
BY DEF Init, EnrolmentInit, CredentialInit, CommitInv, KeyRequested, SecondPersonApproved,
       EnrolledByCeremony, Exists

\* Before the commit nothing of the device is there, so what happens to the
\* request is only about the request; after it only its window can end.
LEMMA RequestMoves ==
  ASSUME EnrolmentTypeOK, CommitInv, UNCHANGED <<trust, consumed, enrolled>>,
         KeyRequested', SecondPersonApproved',
         Exists => /\ request'.key = request.key /\ request'.state = request.state
                   /\ approver' = approver
                   /\ \A c \in Proofs : proof[c] = "PROVEN" => proof'[c] = "PROVEN"
  PROVE  CommitInv'
<1>1. Exists' = Exists
  BY DEF Exists
<1>2. EnrolledByCeremony'
  BY <1>1 DEF CommitInv, EnrolledByCeremony
<1> QED BY <1>1, <1>2 DEF CommitInv

LEMMA EnrolmentKeepsCommit ==
  ASSUME IdentityInv, EnrolmentStep, UNCHANGED credentialVars
  PROVE  CommitInv'
<1> USE DEF credentialVars
<1>1. EnrolmentTypeOK /\ CommitInv
  BY DEF IdentityInv
<1>2. Exists => request.state = "ENROLLED"
  BY DEF IdentityInv, CommitInv, EnrolledByCeremony
<1>3. CASE UNCHANGED <<request, approver, proof, consumed, enrolled>>
  BY <1>1, <1>3, RequestMoves DEF CommitInv, KeyRequested, SecondPersonApproved
<1>4. ASSUME NEW r \in Requests, CreateRequest(r) PROVE CommitInv'
  <2>1. CASE UNCHANGED request
    BY <1>1, <1>4, <2>1, RequestMoves DEF CreateRequest, CommitInv, KeyRequested, SecondPersonApproved
  <2>2. CASE request.state = "NONE" /\ request' = [ state |-> "REQUESTED", key |-> submission[r].key,
               storage |-> StorageOf(submission[r].key, submission[r].challenge), stale |-> FALSE ]
    <3>1. submission[r].key \in Keys
      BY <1>4 DEF CreateRequest, IdentityInv, AnswerInv, SubmissionHolds
    <3> QED BY <1>1, <1>2, <1>4, <2>2, <3>1, RequestMoves
            DEF CreateRequest, KeyRequested, SecondPersonApproved
  <2> QED BY <1>4, <2>1, <2>2 DEF CreateRequest
<1>5. ASSUME NEW p \in People, Approve(p) PROVE CommitInv'
  <2>1. request'.key = request.key /\ request'.state = "APPROVED"
    BY <1>1, <1>5 DEF Approve, EnrolmentTypeOK, RequestRow
  <2> QED BY <1>1, <1>2, <1>5, <2>1, RequestMoves
          DEF Approve, MayApprove, CommitInv, KeyRequested, SecondPersonApproved
<1>6. ASSUME NEW c \in Proofs, IssueProof(c) PROVE CommitInv'
  BY <1>1, <1>6, RequestMoves DEF IssueProof, CommitInv, KeyRequested, SecondPersonApproved, EnrolmentTypeOK
<1>7. ASSUME NEW c \in Proofs, NEW good \in BOOLEAN, VerifyPossession(c, good) PROVE CommitInv'
  <2>1. \A d \in Proofs : proof[d] = "PROVEN" => proof'[d] = "PROVEN"
    BY <1>7 DEF VerifyPossession, IdentityInv, EnrolmentTypeOK
  <2>2. CASE good
    <3>1. request'.key = request.key /\ request'.state = "POSSESSION_PROVEN" /\ request.state = "APPROVED"
      BY <1>1, <1>7, <2>2 DEF VerifyPossession, EnrolmentTypeOK, RequestRow
    <3> QED BY <1>1, <1>2, <1>7, <3>1, RequestMoves
            DEF VerifyPossession, CommitInv, KeyRequested, SecondPersonApproved
  <2>3. CASE ~good
    BY <1>1, <1>7, <2>1, <2>3, RequestMoves DEF VerifyPossession, CommitInv, KeyRequested, SecondPersonApproved
  <2> QED BY <2>2, <2>3
<1>8. CASE WindowEnds
  <2>1. ASSUME request' = [request EXCEPT !.stale = TRUE], UNCHANGED <<approver, proof, consumed, enrolled>>
        PROVE  CommitInv'
    <3>1. request'.key = request.key /\ request'.state = request.state
      BY <1>1, <2>1 DEF EnrolmentTypeOK, RequestRow
    <3> QED BY <1>1, <2>1, <3>1, RequestMoves DEF CommitInv, KeyRequested, SecondPersonApproved
  <2>2. ASSUME NEW c \in Proofs, proof[c] = "OPEN", proof' = [proof EXCEPT ![c] = "LAPSED"],
               UNCHANGED <<request, approver, consumed, enrolled>>
        PROVE  CommitInv'
    <3>1. \A d \in Proofs : proof[d] = "PROVEN" => proof'[d] = "PROVEN"
      BY <2>2 DEF IdentityInv, EnrolmentTypeOK
    <3> QED BY <1>1, <2>2, <3>1, RequestMoves DEF CommitInv, KeyRequested, SecondPersonApproved
  <2> QED BY <1>3, <1>8, <2>1, <2>2 DEF WindowEnds
<1> QED
  BY <1>3, <1>4, <1>5, <1>6, <1>7, <1>8
     DEF EnrolmentStep, BurnGrant, RevokeGrant, ReadChallenge, ConsumeChallenge, PresentGrant,
         RecordOutcome, LoseSubmission

\* What the registry does is nothing to the ceremony.
LEMMA CredentialKeepsCommit ==
  ASSUME IdentityInv, Exists' = Exists, UNCHANGED enrolmentVars
  PROVE  CommitInv'
BY DEF IdentityInv, CommitInv, KeyRequested, SecondPersonApproved, EnrolledByCeremony, enrolmentVars

\* The commit makes the device where it spends the grant, or makes nothing.
LEMMA CommitKeepsInv ==
  ASSUME IdentityInv, NEW c \in Proofs, NEW p \in People, CommitDevice(c, p)
  PROVE  /\ CommitInv' /\ CredentialInv' /\ AnswerInv'
         /\ \/ UNCHANGED credentialVars
            \/ ~Exists /\ Exists' /\ ~Withdrawn' /\ pointer = 0 /\ pointer' = 1
<1>1. /\ EnrolmentTypeOK /\ CommitInv /\ CredentialInv /\ AnswerInv
      /\ request.storage \in {"HARDWARE", "SOFTWARE"}
  BY DEF IdentityInv, EnrolmentTypeOK, RequestRow
<1>2. /\ UNCHANGED <<challenge, submission>> /\ request'.key = request.key
      /\ request.state # "NONE" => request'.state # "NONE"
  <2>1. request \in RequestRow
    BY <1>1 DEF EnrolmentTypeOK
  <2> QED BY <2>1 DEF CommitDevice, CommitEnrollment, RollBack, enrolmentVars, RequestRow
<1>3. AnswerInv'
  BY <1>1, <1>2 DEF AnswerInv, SubmissionHolds, ReceiptHolds
<1>4. CASE Committable(c, p) /\ consumed' = consumed \cup {"grant", c}
           /\ request' = [request EXCEPT !.state = "ENROLLED"] /\ enrolled' = request.key
           /\ UNCHANGED <<approver, proof>>
  <2>1. /\ ~Exists /\ enrolled = NoKey /\ request.key \in Keys /\ request.key # NoKey
        /\ approver \in People \ {issuer, intended} /\ proof[c] = "PROVEN"
    BY <1>1, <1>4, EnrolmentAssumption
       DEF Committable, Admissible, CommitInv, EnrolledByCeremony, KeyRequested, SecondPersonApproved
  <2>2. Register(request.storage)
    BY <1>4, <2>1 DEF CommitDevice
  <2>3. CredentialInv' /\ Exists' /\ ~Withdrawn' /\ pointer = 0 /\ pointer' = 1
    BY <1>1, <2>2, RegisterKeepsInv
  <2>4. request'.key = request.key /\ request'.state = "ENROLLED"
    BY <1>1, <1>4 DEF EnrolmentTypeOK, RequestRow
  <2>5. EnrolledByCeremony'
    BY <1>4, <2>1, <2>3, <2>4, EnrolmentAssumption DEF EnrolledByCeremony
  <2>6. KeyRequested' /\ SecondPersonApproved'
    BY <1>4, <2>1, <2>4 DEF KeyRequested, SecondPersonApproved
  <2> QED BY <1>3, <2>1, <2>3, <2>5, <2>6 DEF CommitInv
<1>5. CASE Converges(c, p) /\ consumed' = consumed \cup {c}
           /\ UNCHANGED <<request, approver, proof, enrolled>>
  <2>1. UNCHANGED credentialVars
    BY <1>5 DEF CommitDevice
  <2>2. Exists' = Exists /\ Exists
    BY <1>1, <1>5, <2>1 DEF credentialVars, Exists, Converges, CommitInv, EnrolledByCeremony
  <2>3. CredentialInv'
    BY <1>1, <2>1, CredentialRests DEF credentialVars, CredentialInv, CredentialTypeOK
  <2>4. CommitInv'
    BY <1>1, <1>5, <2>2 DEF CommitInv, KeyRequested, SecondPersonApproved, EnrolledByCeremony
  <2> QED BY <1>3, <2>1, <2>3, <2>4
<1>6. CASE RollBack(c)
  <2>1. UNCHANGED credentialVars
    BY <1>6 DEF CommitDevice, RollBack, enrolmentVars
  <2>2. CredentialInv'
    BY <1>1, <2>1, CredentialRests DEF credentialVars, CredentialInv, CredentialTypeOK
  <2>3. CommitInv'
    BY <1>6, <2>1, CredentialKeepsCommit DEF RollBack, credentialVars, Exists
  <2> QED BY <1>3, <2>1, <2>2, <2>3
<1> QED BY <1>4, <1>5, <1>6 DEF CommitDevice, CommitEnrollment

---------------------------------------------------------------------------
\* The answers.

LEMMA AnswerInvInit == Init => AnswerInv
<1> SUFFICES ASSUME Init PROVE AnswerInv
  OBVIOUS
<1>1. \A r \in Requests : submission[r].step = "IDLE" /\ submission[r].answer = "NONE"
  BY DEF Init, EnrolmentInit
<1>2. \A q \in Challenges : challenge[q].receipt = NoKey
  BY DEF Init, EnrolmentInit
<1> QED BY <1>1, <1>2 DEF AnswerInv, SubmissionHolds, ReceiptHolds

\* One submission moves, no other is disturbed, and the request it was made
\* for stays what it is.
LEMMA OneSubmissionMoves ==
  ASSUME AnswerInv, NEW r \in Requests,
         \A s \in Requests : s # r => submission'[s] = submission[s],
         request.state # "NONE" => request'.state # "NONE" /\ request'.key = request.key,
         \A q \in Challenges : challenge[q].consumer \in Keys => challenge'[q].consumer = challenge[q].consumer,
         \A s \in Requests : submission[s].challenge \in Challenges,
         SubmissionHolds(r)', \A q \in Challenges : ReceiptHolds(q)'
  PROVE  AnswerInv'
<1> SUFFICES ASSUME NEW s \in Requests, s # r PROVE SubmissionHolds(s)'
  BY DEF AnswerInv
<1>1. SubmissionHolds(s) /\ submission'[s] = submission[s] /\ submission[s].challenge \in Challenges
  BY DEF AnswerInv
<1> QED BY <1>1 DEF SubmissionHolds

LEMMA EnrolmentKeepsAnswers ==
  ASSUME IdentityInv, EnrolmentStep
  PROVE  AnswerInv'
<1>1. EnrolmentTypeOK /\ AnswerInv
  BY DEF IdentityInv
<1>2. \A s \in Requests : /\ submission[s] \in SubmissionState /\ submission[s].challenge \in Challenges
                          /\ submission[s].key \in Keys \cup {NoKey} /\ SubmissionHolds(s)
  BY <1>1 DEF EnrolmentTypeOK, SubmissionState, AnswerInv
<1>3. \A q \in Challenges : ReceiptHolds(q) /\ challenge[q] \in ChallengeRow
  BY <1>1 DEF AnswerInv, EnrolmentTypeOK
<1>4. request \in RequestRow
  BY <1>1 DEF EnrolmentTypeOK
<1>5. ASSUME UNCHANGED submission, request.state # "NONE" => request'.state # "NONE" /\ request'.key = request.key,
             \A q \in Challenges : /\ challenge'[q].consumer = challenge[q].consumer
                                   /\ challenge'[q].receipt = challenge[q].receipt
      PROVE  AnswerInv'
  <2>1. ASSUME NEW s \in Requests PROVE SubmissionHolds(s)'
    BY <1>2, <1>5, <2>1 DEF SubmissionHolds
  <2>2. ASSUME NEW q \in Challenges PROVE ReceiptHolds(q)'
    BY <1>3, <1>5, <2>2 DEF ReceiptHolds
  <2> QED BY <2>1, <2>2 DEF AnswerInv
<1>6. ASSUME NEW r \in Requests, NEW k \in Keys, ReadChallenge(r, k) PROVE AnswerInv'
  <2> DEFINE q == submission[r].challenge
             t == IF Usable /\ challenge[q].consumer = NoKey /\ ~challenge[q].lapsed THEN "READ" ELSE "DONE"
             a == IF ~Usable THEN "REFUSED"
                  ELSE IF challenge[q].consumer # NoKey THEN RecordedAnswer(k, q)
                  ELSE IF challenge[q].lapsed THEN "REFUSED" ELSE "NONE"
  <2>1. submission' = [submission EXCEPT ![r].key = k, ![r].step = t, ![r].answer = a]
        /\ UNCHANGED <<challenge, request>>
    BY <1>6 DEF ReadChallenge
  <2>2. t \in {"READ", "DONE"} /\ (a = "RECORDED" => challenge[q].consumer = k /\ challenge[q].receipt # NoKey)
    BY DEF RecordedAnswer
  <2> HIDE DEF t, a
  <2>3. /\ submission'[r].key = k /\ submission'[r].step = t /\ submission'[r].answer = a
        /\ \A s \in Requests : s # r => submission'[s] = submission[s]
    BY <1>1, <2>1 DEF EnrolmentTypeOK, SubmissionState
  <2>4. SubmissionHolds(r)'
    BY <1>2, <1>3, <2>1, <2>2, <2>3 DEF SubmissionHolds, ReceiptHolds
  <2> HIDE DEF q
  <2>5. \A p \in Challenges : ReceiptHolds(p)'
    BY <1>3, <2>1 DEF ReceiptHolds
  <2> QED BY <1>1, <1>2, <2>1, <2>3, <2>4, <2>5, OneSubmissionMoves
<1>7. ASSUME NEW r \in Requests, ConsumeChallenge(r) PROVE AnswerInv'
  <2> DEFINE q == submission[r].challenge
             k == submission[r].key
  <2>1. q \in Challenges /\ k \in Keys /\ k # NoKey /\ UNCHANGED request
    BY <1>2, <1>7, EnrolmentAssumption DEF ConsumeChallenge, SubmissionHolds
  <2>2. CASE challenge[q].consumer = NoKey
    <3>1. challenge' = [challenge EXCEPT ![q].consumer = k] /\ Step(r, "CLAIMED")
      BY <1>7, <2>2 DEF ConsumeChallenge
    <3>2. /\ challenge'[q].consumer = k /\ challenge'[q].receipt = challenge[q].receipt
          /\ challenge[q].receipt = NoKey
          /\ \A p \in Challenges : p # q => challenge'[p] = challenge[p]
      BY <1>1, <1>3, <2>1, <2>2, <3>1 DEF EnrolmentTypeOK, ChallengeRow, ReceiptHolds
    <3>3. /\ submission'[r].key = k /\ submission'[r].step = "CLAIMED" /\ submission'[r].challenge = q
          /\ submission'[r].answer = submission[r].answer
          /\ \A s \in Requests : s # r => submission'[s] = submission[s]
      BY <1>1, <3>1 DEF Step, EnrolmentTypeOK, SubmissionState
    <3>4. SubmissionHolds(r)
      BY <1>2
    <3> HIDE DEF q, k
    <3>5. SubmissionHolds(r)'
      BY <2>1, <3>2, <3>3, <3>4 DEF SubmissionHolds, q, k
    <3>6. \A p \in Challenges : ReceiptHolds(p)'
      BY <1>3, <2>1, <3>2 DEF ReceiptHolds
    <3> QED BY <1>1, <1>2, <2>1, <2>2, <3>2, <3>3, <3>5, <3>6, EnrolmentAssumption, OneSubmissionMoves
  <2>3. CASE challenge[q].consumer # NoKey
    <3>1. Answer(r, RecordedAnswer(k, q)) /\ UNCHANGED challenge
      BY <1>7, <2>3 DEF ConsumeChallenge
    <3>2. RecordedAnswer(k, q) = "RECORDED" => challenge[q].consumer = k /\ challenge[q].receipt # NoKey
      BY DEF RecordedAnswer
    <3>3. /\ submission'[r].key = k /\ submission'[r].step = "DONE" /\ submission'[r].answer = RecordedAnswer(k, q)
          /\ \A s \in Requests : s # r => submission'[s] = submission[s]
      BY <1>1, <3>1 DEF Answer, EnrolmentTypeOK, SubmissionState
    <3> HIDE DEF k, q
    <3>4. SubmissionHolds(r)'
      BY <1>3, <2>1, <3>2, <3>3 DEF SubmissionHolds, ReceiptHolds
    <3>5. \A p \in Challenges : ReceiptHolds(p)'
      BY <1>3, <2>1, <3>1 DEF ReceiptHolds
    <3> QED BY <1>1, <1>2, <2>1, <3>1, <3>3, <3>4, <3>5, OneSubmissionMoves
  <2> QED BY <2>2, <2>3
<1>8. ASSUME NEW r \in Requests, PresentGrant(r) \/ LoseSubmission(r) PROVE AnswerInv'
  <2>1. UNCHANGED <<challenge, request>> /\ submission[r].step \in {"CLAIMED", "VERIFIED", "CREATED"}
    BY <1>8 DEF PresentGrant, LoseSubmission
  <2>2. /\ submission'[r].key = submission[r].key /\ submission'[r].challenge = submission[r].challenge
        /\ \/ submission'[r].step = "VERIFIED" /\ submission'[r].answer = submission[r].answer
           \/ submission'[r].step = "DONE" /\ submission'[r].answer \in {"REFUSED", "LOST"}
        /\ \A s \in Requests : s # r => submission'[s] = submission[s]
    BY <1>1, <1>8 DEF PresentGrant, LoseSubmission, Step, Answer, EnrolmentTypeOK, SubmissionState
  <2>3. SubmissionHolds(r)'
    BY <1>2, <2>1, <2>2 DEF SubmissionHolds
  <2>4. \A p \in Challenges : ReceiptHolds(p)'
    BY <1>3, <2>1 DEF ReceiptHolds
  <2> QED BY <1>1, <1>2, <2>1, <2>2, <2>3, <2>4, OneSubmissionMoves
<1>9. ASSUME NEW r \in Requests, CreateRequest(r) PROVE AnswerInv'
  <2> DEFINE k == submission[r].key
  <2>1. /\ UNCHANGED challenge
        /\ request.state # "NONE" => request'.state # "NONE" /\ request'.key = request.key
    BY <1>9 DEF CreateRequest
  <2>2. /\ submission'[r].key = k /\ submission'[r].challenge = submission[r].challenge
        /\ \/ /\ submission'[r].step = "CREATED" /\ submission'[r].answer = submission[r].answer
              /\ request'.state # "NONE" /\ request'.key = k
           \/ submission'[r].step = "DONE" /\ submission'[r].answer = "REFUSED"
        /\ \A s \in Requests : s # r => submission'[s] = submission[s]
    BY <1>1, <1>9 DEF CreateRequest, SubmissionMatches, Step, Answer, EnrolmentTypeOK, SubmissionState
  <2>3. submission[r].step = "VERIFIED" /\ SubmissionHolds(r)
    BY <1>2, <1>9 DEF CreateRequest
  <2>4. SubmissionHolds(r)'
    BY <2>1, <2>2, <2>3 DEF SubmissionHolds
  <2>5. \A p \in Challenges : ReceiptHolds(p)'
    BY <1>3, <2>1 DEF ReceiptHolds
  <2> QED BY <1>1, <1>2, <2>1, <2>2, <2>4, <2>5, OneSubmissionMoves
<1>10. ASSUME NEW r \in Requests, RecordOutcome(r) PROVE AnswerInv'
  <2> DEFINE q == submission[r].challenge
             k == submission[r].key
  <2>1. /\ q \in Challenges /\ challenge[q].consumer = k
        /\ request.state # "NONE" /\ request.key = k /\ UNCHANGED request
    BY <1>2, <1>10 DEF RecordOutcome, SubmissionHolds
  <2>2. /\ \A p \in Challenges : challenge'[p].consumer = challenge[p].consumer
        /\ \A p \in Challenges : p # q => challenge'[p] = challenge[p]
        /\ challenge'[q].receipt \in {challenge[q].receipt, request.key}
    <3>1. challenge' = [challenge EXCEPT ![q].receipt = IF @ = NoKey THEN request.key ELSE @]
      BY <1>10 DEF RecordOutcome
    <3> HIDE DEF q
    <3> QED BY <1>1, <2>1, <3>1 DEF EnrolmentTypeOK, ChallengeRow
  <2>3. /\ submission'[r].key = k /\ submission'[r].step = "DONE" /\ submission'[r].answer = "RECORDED"
        /\ \A s \in Requests : s # r => submission'[s] = submission[s]
    BY <1>1, <1>10 DEF RecordOutcome, Answer, EnrolmentTypeOK, SubmissionState
  <2> HIDE DEF k, q
  <2>4. SubmissionHolds(r)'
    BY <2>1, <2>3 DEF SubmissionHolds
  <2>5. \A p \in Challenges : ReceiptHolds(p)'
    BY <1>3, <2>1, <2>2 DEF ReceiptHolds
  <2> QED BY <1>1, <1>2, <2>1, <2>2, <2>3, <2>4, <2>5, OneSubmissionMoves
<1>11. ASSUME NEW p \in People, Approve(p) PROVE AnswerInv'
  BY <1>4, <1>5, <1>11 DEF Approve, RequestRow
<1>12. ASSUME NEW c \in Proofs, NEW good \in BOOLEAN, VerifyPossession(c, good) PROVE AnswerInv'
  <2>1. request.state # "NONE" => request'.state # "NONE" /\ request'.key = request.key
    BY <1>4, <1>12 DEF VerifyPossession, RequestRow
  <2> QED BY <1>5, <1>12, <2>1 DEF VerifyPossession
<1>13. ASSUME WindowEnds PROVE AnswerInv'
  <2>1. UNCHANGED submission /\ (request.state # "NONE" => request'.state # "NONE" /\ request'.key = request.key)
    BY <1>4, <1>13 DEF WindowEnds, RequestRow
  <2>2. \A q \in Challenges : /\ challenge'[q].consumer = challenge[q].consumer
                              /\ challenge'[q].receipt = challenge[q].receipt
    BY <1>1, <1>13 DEF WindowEnds, EnrolmentTypeOK, ChallengeRow
  <2> QED BY <1>5, <2>1, <2>2
<1>14. ASSUME UNCHANGED <<submission, request, challenge>> PROVE AnswerInv'
  BY <1>5, <1>14
<1> QED
  BY <1>6, <1>7, <1>8, <1>9, <1>10, <1>11, <1>12, <1>13, <1>14
     DEF EnrolmentStep, BurnGrant, RevokeGrant, IssueProof

---------------------------------------------------------------------------
\* The whole.

LEMMA IdentityInvInit == Init => IdentityInv
BY EnrolmentTypesInit, CredentialInvInit, CommitInvInit, AnswerInvInit DEF Init, IdentityInv

LEMMA IdentityInvNext == IdentityInv /\ [Next]_vars => IdentityInv'
<1> SUFFICES ASSUME IdentityInv, [Next]_vars PROVE IdentityInv'
  OBVIOUS
<1>1. CASE EnrolmentStep /\ UNCHANGED credentialVars
  <2>1. CredentialInv'
    BY <1>1, CredentialRests DEF credentialVars, IdentityInv, CredentialInv, CredentialTypeOK
  <2> QED BY <1>1, <2>1, EnrolmentTypesNext, EnrolmentKeepsCommit, EnrolmentKeepsAnswers DEF IdentityInv
<1>2. ASSUME NEW c \in Proofs, NEW p \in People, CommitDevice(c, p) PROVE IdentityInv'
  BY <1>2, CommitKeepsInv, EnrolmentTypesNext DEF IdentityInv, CommitDevice
<1>3. CASE CredentialStep /\ UNCHANGED enrolmentVars
  <2>1. CredentialInv' /\ Exists' = Exists
    BY <1>3, CredentialStepKeepsInv DEF IdentityInv, Keeps
  <2>2. CommitInv'
    BY <1>3, <2>1, CredentialKeepsCommit
  <2>3. AnswerInv'
    BY <1>3 DEF IdentityInv, AnswerInv, SubmissionHolds, ReceiptHolds, enrolmentVars
  <2>4. EnrolmentTypeOK'
    BY <1>3 DEF IdentityInv, EnrolmentTypeOK, enrolmentVars
  <2> QED BY <2>1, <2>2, <2>3, <2>4 DEF IdentityInv
<1>4. CASE UNCHANGED vars
  <2>1. CredentialInv' /\ Exists' = Exists
    BY <1>4, CredentialRests DEF vars, credentialVars, IdentityInv, CredentialInv, CredentialTypeOK, Keeps
  <2>2. CommitInv'
    BY <1>4, <2>1, CredentialKeepsCommit DEF vars
  <2>3. AnswerInv'
    BY <1>4 DEF IdentityInv, AnswerInv, SubmissionHolds, ReceiptHolds, vars, enrolmentVars
  <2>4. EnrolmentTypeOK'
    BY <1>4 DEF IdentityInv, EnrolmentTypeOK, vars, enrolmentVars
  <2> QED BY <2>1, <2>2, <2>3, <2>4 DEF IdentityInv
<1> QED BY <1>1, <1>2, <1>3, <1>4 DEF Next

LEMMA IdentityInvHolds == Spec => []IdentityInv
BY IdentityInvInit, IdentityInvNext, PTL DEF Spec

\* The rows of the ceremony and of the registry stay of their kinds.
THEOREM TypeCorrect == Spec => []TypeOK
<1>1. IdentityInv => TypeOK
  BY DEF IdentityInv, CredentialInv, TypeOK
<1> QED BY <1>1, IdentityInvHolds, PTL

\* Only the ceremony makes a device: it is there exactly when the grant is
\* spent, with the key of the request that a second person approved and that
\* somebody proved to possess (commitEnrollment).
THEOREM EnrolledByCeremonyHolds == Spec => []EnrolledByCeremony
<1>1. IdentityInv => EnrolledByCeremony
  BY DEF IdentityInv, CommitInv
<1> QED BY <1>1, IdentityInvHolds, PTL

\* A device that still acts is not revoked and its key is not withdrawn,
\* whatever dispositions, decisions and rotations overlap (declareDisposition).
THEOREM ActingIsWholeHolds == Spec => []ActingIsWhole
<1>1. IdentityInv => ActingIsWhole
  BY DEF IdentityInv, CredentialInv
<1> QED BY <1>1, IdentityInvHolds, PTL

\* The key a device points to is the only one that can be CURRENT, whatever
\* rotations were prepared and dispositions withdrew (commitKeyRotation).
THEOREM KeysAgreeHolds == Spec => []KeysAgree
<1>1. IdentityInv => KeysAgree
  BY DEF IdentityInv, CredentialInv
<1> QED BY <1>1, IdentityInvHolds, PTL

\* Whoever was told RECORDED submitted the key of the request that stands,
\* also when it lost its challenge to another submission and was answered
\* from what that one wrote (consumeAttestationChallenge).
THEOREM AnswersNameRequestHolds == Spec => []AnswersNameRequest
<1>1. IdentityInv => AnswersNameRequest
  BY DEF IdentityInv, AnswerInv, SubmissionHolds, AnswersNameRequest
<1> QED BY <1>1, IdentityInvHolds, PTL

\* The registry keeps CredentialPromise: a credential is admitted once, by a
\* commit, is succeeded only while it is whole, and never comes back from a
\* withdrawal (credentialWithdrawal, commitKeyRotation, declareDisposition).
THEOREM CredentialPromiseHolds == Spec => ImplementsCredential
<1>1. Init => Credential!Init
  BY DEF Init, CredentialInit, Credential!Init, Exists
<1>2. IdentityInv /\ [Next]_vars
        => [Credential!Admit \/ Credential!Succeed \/ Credential!Withdraw]_<<Standing, pointer>>
  <2> SUFFICES ASSUME IdentityInv, [Next]_vars
               PROVE  [Credential!Admit \/ Credential!Succeed \/ Credential!Withdraw]_<<Standing, pointer>>
    OBVIOUS
  <2>1. ASSUME Keeps
        PROVE  Credential!Withdraw \/ UNCHANGED <<Standing, pointer>>
    BY <2>1 DEF Keeps, Standing, Credential!Withdraw
  <2>2. ASSUME ~Exists, Exists', ~Withdrawn', pointer = 0, pointer' = 1
        PROVE  Credential!Admit
    BY <2>2 DEF Credential!Admit
  <2>3. ASSUME Exists, Exists', ~Withdrawn, ~Withdrawn', pointer' = pointer + 1, pointer < MaxVersion
        PROVE  Credential!Succeed
    BY <2>3 DEF Credential!Succeed
  <2>4. CASE UNCHANGED credentialVars
    BY <2>1, <2>4, CredentialRests DEF credentialVars, IdentityInv, CredentialInv, CredentialTypeOK
  <2>5. ASSUME NEW c \in Proofs, NEW p \in People, CommitDevice(c, p)
        PROVE  Credential!Admit \/ UNCHANGED credentialVars
    BY <2>2, <2>5, CommitKeepsInv
  <2>6. CASE CredentialStep
    BY <2>1, <2>3, <2>6, CredentialStepKeepsInv DEF IdentityInv
  <2> QED BY <2>4, <2>5, <2>6 DEF Next, vars
<1> QED BY <1>1, <1>2, IdentityInvHolds, PTL DEF Spec, ImplementsCredential, Credential!Spec, Standing

=============================================================================
