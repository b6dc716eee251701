-------------------------- MODULE DeviceEnrolment --------------------------
(***************************************************************************)
(* The enrolment ceremony at central: SHIELD's DeviceEnrollmentService     *)
(* behind the device enrolment ingress.                                    *)
(*                                                                         *)
(* One bootstrap grant is followed to its end.  The phone submits a key    *)
(* under an attestation challenge, possibly in several requests at once;   *)
(* a second person approves the request by its fingerprint; the intended   *)
(* user proves possession of the key; and the commit spends the grant and  *)
(* the challenge in the transaction that creates the device.               *)
(*                                                                         *)
(* Signatures, certificate chains and fingerprints are what they tell      *)
(* apart: a key was attested for one challenge, and a submission is a key  *)
(* under a challenge.  Windows of time are flags that an action sets.      *)
(***************************************************************************)
EXTENDS Integers, FiniteSets

CONSTANTS
  People,           \* the users of the organisation
  issuer,           \* who issued the grant
  intended,         \* whose device it will be
  Keys,             \* public keys a phone may submit
  Challenges,       \* attestation challenges of the grant
  AttestedFor,      \* key -> the challenge its chain carries
  Requests,         \* submissions in flight, each an HTTP request
  Proofs,           \* possession challenges
  Nobody, NoKey     \* no person, no key

ASSUME EnrolmentAssumption ==
  /\ {issuer, intended} \subseteq People /\ Nobody \notin People
  /\ NoKey \notin Keys /\ DOMAIN AttestedFor = Keys

EnrolmentStates == {"NONE", "REQUESTED", "APPROVED", "POSSESSION_PROVEN", "ENROLLED"}

ProofStates == {"UNISSUED", "OPEN", "LAPSED", "FAILED", "PROVEN", "PROVEN_LATE"}

Answers == {"NONE", "REFUSED", "UNKNOWN", "RECORDED", "LOST"}

VARIABLES
  grant,       \* subset of {"BURNT", "REVOKED", "EXPIRED"}: why it is unusable
  challenge,   \* [Challenges -> [consumer : key, lapsed, receipt : key]]
  submission,  \* [Requests -> [step, key, challenge, answer]]
  request,     \* the enrolment request: [state, key, storage, stale]
  approver,    \* who approved it
  proof,       \* [Proofs -> ProofStates]
  consumed,    \* replay identities spent: "grant" and possession challenges
  enrolled     \* the key of the device the ceremony made

enrolmentVars == <<grant, challenge, submission, request, approver, proof, consumed, enrolled>>

\* The rows behind these: device_bootstrap_grants, the attestation challenge with
\* its submission receipt, device_enrollment_requests with its approval, and the
\* device the commit inserts.
GrantEnds == {"BURNT", "REVOKED", "EXPIRED"}

ChallengeRow == [consumer : Keys \cup {NoKey}, lapsed : BOOLEAN, receipt : Keys \cup {NoKey}]

SubmissionState == [ step : {"IDLE", "READ", "CLAIMED", "VERIFIED", "CREATED", "DONE"},
                     key : Keys \cup {NoKey}, challenge : Challenges, answer : Answers ]

RequestRow == [ state : EnrolmentStates, key : Keys \cup {NoKey},
                storage : {"HARDWARE", "SOFTWARE"}, stale : BOOLEAN ]

Approvers == People \cup {Nobody}

DeviceRow == Keys \cup {NoKey}

EnrolmentTypeOK ==
  /\ grant \subseteq GrantEnds
  /\ challenge \in [Challenges -> ChallengeRow]
  /\ submission \in [Requests -> SubmissionState]
  /\ request \in RequestRow
  /\ approver \in Approvers
  /\ proof \in [Proofs -> ProofStates]
  /\ consumed \subseteq {"grant"} \cup Proofs
  /\ enrolled \in DeviceRow

EnrolmentInit ==
  /\ grant = {}
  /\ challenge = [q \in Challenges |-> [consumer |-> NoKey, lapsed |-> FALSE, receipt |-> NoKey]]
  /\ submission \in [Requests -> [step : {"IDLE"}, key : {NoKey}, challenge : Challenges, answer : {"NONE"}]]
  /\ request = [state |-> "NONE", key |-> NoKey, storage |-> "SOFTWARE", stale |-> FALSE]
  /\ approver = Nobody
  /\ proof = [c \in Proofs |-> "UNISSUED"]
  /\ consumed = {}
  /\ enrolled = NoKey

---------------------------------------------------------------------------
\* The grant.

Usable == grant = {}

\* A token presented in somebody else's context burns the grant.
BurnGrant ==
  /\ grant' = grant \cup {"BURNT"}
  /\ UNCHANGED <<challenge, submission, request, approver, proof, consumed, enrolled>>

RevokeGrant ==
  /\ grant' = grant \cup {"REVOKED"}
  /\ UNCHANGED <<challenge, submission, request, approver, proof, consumed, enrolled>>

---------------------------------------------------------------------------
\* Submitting a key, in the ingress and then in SHIELD.

\* The verifier accepts a chain that carries the challenge it is shown; a key
\* is hardware backed exactly when its chain was accepted.
StorageOf(k, q) == IF AttestedFor[k] = q THEN "HARDWARE" ELSE "SOFTWARE"

Answer(r, a) == submission' = [submission EXCEPT ![r].step = "DONE", ![r].answer = a]

Step(r, s) == submission' = [submission EXCEPT ![r].step = s]

\* What a consumed challenge says of a submission: the recorded outcome, not
\* yet known, or that another submission spent it.
RecordedAnswer(k, q) ==
  CASE challenge[q].consumer # k    -> "REFUSED"
    [] challenge[q].receipt = NoKey -> "UNKNOWN"
    [] OTHER                        -> "RECORDED"

\* The grant is presented and the challenge read; a consumed one answers.
ReadChallenge(r, k) ==
  LET q == submission[r].challenge IN
  /\ submission[r].step = "IDLE"
  /\ submission' = [submission EXCEPT
       ![r].key  = k,
       ![r].step = IF Usable /\ challenge[q].consumer = NoKey /\ ~challenge[q].lapsed THEN "READ" ELSE "DONE",
       ![r].answer = IF ~Usable THEN "REFUSED"
                     ELSE IF challenge[q].consumer # NoKey THEN RecordedAnswer(k, q)
                     ELSE IF challenge[q].lapsed THEN "REFUSED" ELSE "NONE"]
  /\ UNCHANGED <<grant, challenge, request, approver, proof, consumed, enrolled>>

\* One statement consumes the challenge and says for which submission; the
\* loser of a race is answered from what the winner wrote.
ConsumeChallenge(r) ==
  LET q == submission[r].challenge  k == submission[r].key IN
  /\ submission[r].step = "READ"
  /\ IF challenge[q].consumer = NoKey
       THEN /\ challenge' = [challenge EXCEPT ![q].consumer = k]
            /\ Step(r, "CLAIMED")
       ELSE /\ Answer(r, RecordedAnswer(k, q))
            /\ UNCHANGED challenge
  /\ UNCHANGED <<grant, request, approver, proof, consumed, enrolled>>

\* SHIELD is handed the key and its storage, and presents the grant again.
PresentGrant(r) ==
  /\ submission[r].step = "CLAIMED"
  /\ IF Usable THEN Step(r, "VERIFIED") ELSE Answer(r, "REFUSED")
  /\ UNCHANGED <<grant, challenge, request, approver, proof, consumed, enrolled>>

\* Slip: any submission under the grant converges on its request.
MatchesGrant(k, q) == TRUE

\* A submission says of itself what the request of its grant says.
SubmissionMatches(k, q) == request.key = k /\ request.storage = StorageOf(k, q)

\* One request per grant: the insert that finds one converges or conflicts.
CreateRequest(r) ==
  LET q == submission[r].challenge  k == submission[r].key IN
  /\ submission[r].step = "VERIFIED"
  /\ \/ /\ request.state = "NONE"
        /\ request' = [state |-> "REQUESTED", key |-> k, storage |-> StorageOf(k, q), stale |-> FALSE]
        /\ Step(r, "CREATED")
     \/ /\ request.state # "NONE" /\ SubmissionMatches(k, q)
        /\ Step(r, "CREATED") /\ UNCHANGED request
     \/ /\ request.state # "NONE" /\ ~SubmissionMatches(k, q)
        /\ Answer(r, "REFUSED") /\ UNCHANGED request
  /\ UNCHANGED <<grant, challenge, approver, proof, consumed, enrolled>>

\* The outcome is written beside the challenge it spent, once.
RecordOutcome(r) ==
  LET q == submission[r].challenge IN
  /\ submission[r].step = "CREATED"
  /\ challenge' = [challenge EXCEPT ![q].receipt = IF @ = NoKey THEN request.key ELSE @]
  /\ Answer(r, "RECORDED")
  /\ UNCHANGED <<grant, request, approver, proof, consumed, enrolled>>

\* The request or the process is gone; what it wrote stays.
LoseSubmission(r) ==
  /\ submission[r].step \in {"CLAIMED", "VERIFIED", "CREATED"}
  /\ Answer(r, "LOST")
  /\ UNCHANGED <<grant, challenge, request, approver, proof, consumed, enrolled>>

---------------------------------------------------------------------------
\* Approval, possession, commit.

MayApprove(p) == p \notin {issuer, intended}

\* The approver read the very key of the request; the state is compared and set.
Approve(p) ==
  /\ request.state = "REQUESTED" /\ MayApprove(p)
  /\ request' = [request EXCEPT !.state = "APPROVED"]
  /\ approver' = p
  /\ UNCHANGED <<grant, challenge, submission, proof, consumed, enrolled>>

IssueProof(c) ==
  /\ request.state \in {"APPROVED", "POSSESSION_PROVEN"} /\ proof[c] = "UNISSUED"
  /\ proof' = [proof EXCEPT ![c] = "OPEN"]
  /\ UNCHANGED <<grant, challenge, submission, request, approver, consumed, enrolled>>

\* One verdict for a challenge, with no look at the challenge's window.  A
\* good one is stored only together with the advance of an APPROVED request.
VerifyPossession(c, good) ==
  /\ proof[c] \in {"OPEN", "LAPSED"}
  /\ good => request.state = "APPROVED"
  /\ proof' = [proof EXCEPT ![c] = IF ~good THEN "FAILED" ELSE IF @ = "LAPSED" THEN "PROVEN_LATE" ELSE "PROVEN"]
  /\ request' = IF good THEN [request EXCEPT !.state = "POSSESSION_PROVEN"] ELSE request
  /\ UNCHANGED <<grant, challenge, submission, approver, consumed, enrolled>>

\* What evaluateDeviceEnrollmentCommit asks of the rows the commit has locked.
Admissible(c, p) == Usable /\ ~request.stale /\ p = intended /\ proof[c] = "PROVEN"

\* Slip: the refusal returns, and the transaction commits what it consumed.
ReturnRefusal(c) ==
  /\ consumed' = consumed \cup {"grant", c}
  /\ UNCHANGED <<grant, challenge, submission, request, approver, proof, enrolled>>

\* A refusal behind the first consumption is thrown: everything is undone.
RollBack(c) == UNCHANGED enrolmentVars

Committable(c, p) ==
  /\ Admissible(c, p) /\ "grant" \notin consumed /\ request.state = "POSSESSION_PROVEN"

\* The identities point to the device an earlier commit of this request made.
Converges(c, p) == Admissible(c, p) /\ "grant" \in consumed

\* The commit, one transaction: a repeat of a commit converges and creates
\* nothing; a new one spends both identities and creates the device.
CommitEnrollment(c, p) ==
  /\ approver # Nobody /\ proof[c] \in {"FAILED", "PROVEN", "PROVEN_LATE"}
  /\ \/ /\ Committable(c, p)
        /\ consumed' = consumed \cup {"grant", c}
        /\ request' = [request EXCEPT !.state = "ENROLLED"]
        /\ enrolled' = request.key
        /\ UNCHANGED <<grant, challenge, submission, approver, proof>>
     \/ /\ Converges(c, p)
        /\ consumed' = consumed \cup {c}
        /\ UNCHANGED <<grant, challenge, submission, request, approver, proof, enrolled>>
     \/ /\ ~Admissible(c, p)
        /\ RollBack(c)

---------------------------------------------------------------------------
\* Time.

WindowEnds ==
  \/ /\ grant' = grant \cup {"EXPIRED"}
     /\ UNCHANGED <<challenge, submission, request, approver, proof, consumed, enrolled>>
  \/ /\ request.state # "NONE"
     /\ request' = [request EXCEPT !.stale = TRUE]
     /\ UNCHANGED <<grant, challenge, submission, approver, proof, consumed, enrolled>>
  \/ \E q \in Challenges :
       /\ challenge' = [challenge EXCEPT ![q].lapsed = TRUE]
       /\ UNCHANGED <<grant, submission, request, approver, proof, consumed, enrolled>>
  \/ \E c \in Proofs :
       /\ proof[c] = "OPEN"
       /\ proof' = [proof EXCEPT ![c] = "LAPSED"]
       /\ UNCHANGED <<grant, challenge, submission, request, approver, consumed, enrolled>>

EnrolmentStep ==
  \/ BurnGrant \/ RevokeGrant \/ WindowEnds
  \/ \E r \in Requests :
       \/ \E k \in Keys : ReadChallenge(r, k)
       \/ ConsumeChallenge(r) \/ PresentGrant(r) \/ CreateRequest(r)
       \/ RecordOutcome(r) \/ LoseSubmission(r)
  \/ \E p \in People : Approve(p)
  \/ \E c \in Proofs :
       \/ IssueProof(c)
       \/ \E good \in BOOLEAN : VerifyPossession(c, good)

=============================================================================
