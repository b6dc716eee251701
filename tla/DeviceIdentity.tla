--------------------------- MODULE DeviceIdentity ---------------------------
(***************************************************************************)
(* SHIELD as a whole: the ceremony that makes a device, composed with the  *)
(* life of the credential it made.  The commit of the ceremony and the     *)
(* registration of the device are one transaction.                         *)
(***************************************************************************)
EXTENDS DeviceEnrolment, DeviceCredential

vars == <<enrolmentVars, credentialVars>>

TypeOK == EnrolmentTypeOK /\ CredentialTypeOK

Init == EnrolmentInit /\ CredentialInit

\* The transaction of commitEnrollment and performCommit.
CommitDevice(c, p) ==
  /\ CommitEnrollment(c, p)
  /\ IF enrolled' = enrolled
       THEN UNCHANGED credentialVars
       ELSE Register(request.storage)

Next ==
  \/ EnrolmentStep /\ UNCHANGED credentialVars
  \/ \E c \in Proofs, p \in People : CommitDevice(c, p)
  \/ CredentialStep /\ UNCHANGED enrolmentVars

Spec == Init /\ [][Next]_vars

---------------------------------------------------------------------------
\* Properties.

\* The device and everything its ceremony consumed exist together: the grant's
\* identity is spent exactly when the device is there, its key is the request's
\* and a person who neither issued nor receives it approved it
\* (commitEnrollment's thrown refusals, evaluateDeviceEnrollmentCommit).
EnrolledByCeremony ==
  /\ Exists <=> "grant" \in consumed
  /\ consumed # {} => "grant" \in consumed
  /\ Exists => /\ enrolled = request.key /\ request.state = "ENROLLED"
               /\ approver \notin {issuer, intended, Nobody}
               /\ \E c \in Proofs \cap consumed : proof[c] = "PROVEN"

\* What the phone is told was recorded is the request that stands: no answer
\* RECORDED goes to a submission whose key lost to another submission's
\* (consumeAttestationChallenge, resolveConvergedEnrollmentRequest).
AnswersNameRequest ==
  \A r \in Requests : submission[r].answer = "RECORDED" => request.key = submission[r].key

\* A request whose possession is proven can be committed by some challenge:
\* its verdict came within its window.
ProvenCanCommit ==
  request.state = "POSSESSION_PROVEN" =>
    \E c \in Proofs : proof[c] = "PROVEN" \/ proof[c] = "UNISSUED"

=============================================================================
