--------------------------- MODULE WhisperResponse ---------------------------
(***************************************************************************)
(* A Whisper recognition, from the device's signed result to the SILENT    *)
(* incident it opens and the dispatch two commanders approve               *)
(* (whisper.service.ts recognise; incidents.service.ts                     *)
(* openWhisperSilentIncident, runProofA, approveSilentDispatch), over the  *)
(* signal family that decides whether it may be recognised at all.         *)
(*                                                                         *)
(* Every attempt judges the recognition first and claims its replay        *)
(* identity afterwards; a claim is a lease, so a later attempt may take    *)
(* over from one that has died or is only slow, and the generation of the  *)
(* claim fences what the earlier one may still write to the receipt.  The  *)
(* incident and the playbook under it are not fenced: they converge.       *)
(***************************************************************************)
EXTENDS WhisperSignal, ProofA

CONSTANTS
  Recognitions,     \* signed results, by fingerprint
  NonceOf,          \* [Recognitions -> replay identities]
  VersionOf,        \* [Recognitions -> the signal version they name]
  Attempts,         \* requests that present a recognition, each once
  MaxClaims,        \* bound on the generations of one receipt
  MaxFaults         \* bound on crashes and failed writes

ASSUME WhisperAssumption == MaxClaims \in Nat /\ MaxFaults \in Nat

VARIABLES
  receipt,          \* per replay identity: the recognition receipt
  attempt,          \* per attempt: what it is about and where it stands
  fresh,            \* recognitions inside their freshness window
  incident,         \* per recognition: its SILENT incident
  approvals,        \* per recognition: commanders who approved the dispatch
  approving,        \* per commander: an approval request in progress
  faults

responseVars == << receipt, attempt, fresh, incident, approvals, approving,
                   faults >>
vars == << signalVars, responseVars >>

Nonces == { NonceOf[r] : r \in Recognitions }

NoReceipt == [ status |-> "NONE" ]
Final     == { "APPLIED", "REFUSED" }

\* whisper_recognition_receipts.
ReceiptRow ==
  [ status : { "RECEIVED", "APPLYING", "UNKNOWN" } \cup Final,
    about : Recognitions, claim : 0 .. MaxClaims, lapsed : BOOLEAN ]

Received(r) == [ status |-> "RECEIVED", about |-> r, claim |-> 0,
                 lapsed |-> FALSE ]

Unused     == [ at |-> "unused" ]
NoApproval == [ at |-> "idle" ]

ResponseInit ==
  /\ receipt   = [ n \in Nonces |-> NoReceipt ]
  /\ attempt   = [ a \in Attempts |-> Unused ]
  /\ fresh     = Recognitions
  /\ incident  = [ r \in Recognitions |-> NoIncident ]
  /\ approvals = [ r \in Recognitions |-> {} ]
  /\ approving = [ c \in Commanders |-> NoApproval ]
  /\ faults    = 0

ReceiptOf(a) == receipt[NonceOf[attempt[a].about]]

Goes(a, at) == attempt' = [ attempt EXCEPT ![a].at = at ]

Answered(a, answer) ==
  attempt' = [ attempt EXCEPT ![a] = [ at |-> "answered",
                                       about |-> attempt[a].about,
                                       answer |-> answer ] ]

(***************************************************************************)
(* The gate: the stored version, the server's facts and the freshness are  *)
(* read now and believed for the rest of the attempt.                      *)
(***************************************************************************)
Eligible(r) ==
  /\ VersionOf[r] \in DOMAIN family
  /\ family[VersionOf[r]].status = "ACTIVE"
  /\ r \in fresh

Judge(a, r) ==
  /\ attempt[a] = Unused
  /\ attempt' = [ attempt EXCEPT ![a] = [ at |-> "judged", about |-> r,
                    eligible |-> Eligible(r), claim |-> 0 ] ]
  /\ UNCHANGED << receipt, fresh, incident, approvals, approving, faults >>

GrowStale(r) ==
  /\ r \in fresh
  /\ fresh' = fresh \ { r }
  /\ UNCHANGED << receipt, attempt, incident, approvals, approving, faults >>

(***************************************************************************)
(* One receipt per replay identity.  A different statement under the       *)
(* identity is refused, a finalised receipt is answered from its columns,  *)
(* and only then is there something to claim.                              *)
(***************************************************************************)
StoredAnswer(kept) ==
  IF kept.status = "APPLIED" THEN "accepted"
  ELSE IF kept.status = "REFUSED" THEN "refused"
  ELSE "unresolved"

\* Slip: any statement under the identity is taken for the stored one.
SameIdentity(kept, r) == NonceOf[kept.about] = NonceOf[r]

SameStatement(kept, r) == kept.about = r

EnsureReceipt(a) ==
  LET r    == attempt[a].about
      n    == NonceOf[r]
      kept == IF receipt[n] = NoReceipt THEN Received(r) ELSE receipt[n]
  IN  /\ attempt[a].at = "judged"
      /\ receipt' = [ receipt EXCEPT ![n] = kept ]
      /\ IF ~ SameStatement(kept, r) THEN Answered(a, "reused")
         ELSE IF kept.status \in Final THEN Answered(a, StoredAnswer(kept))
         ELSE Goes(a, "claiming")
      /\ UNCHANGED << fresh, incident, approvals, approving, faults >>

Claimable(kept) ==
  \/ kept.status \in { "RECEIVED", "UNKNOWN" }
  \/ kept.status = "APPLYING" /\ kept.lapsed

\* An attempt that finds nothing to claim reports what is stored.
Claim(a) ==
  LET kept == ReceiptOf(a) IN
  /\ attempt[a].at = "claiming"
  /\ IF Claimable(kept)
     THEN /\ kept.claim < MaxClaims
          /\ receipt' = [ receipt EXCEPT ![NonceOf[attempt[a].about]] =
               [ kept EXCEPT !.status = "APPLYING", !.lapsed = FALSE,
                             !.claim = @ + 1 ] ]
          /\ attempt' = [ attempt EXCEPT ![a].at = "claimed",
                                         ![a].claim = kept.claim + 1 ]
     ELSE /\ Answered(a, StoredAnswer(kept))
          /\ UNCHANGED receipt
  /\ UNCHANGED << fresh, incident, approvals, approving, faults >>

\* Sixty seconds after the claim.
Lapse(n) ==
  /\ receipt[n].status = "APPLYING"
  /\ ~ receipt[n].lapsed
  /\ receipt' = [ receipt EXCEPT ![n].lapsed = TRUE ]
  /\ UNCHANGED << attempt, fresh, incident, approvals, approving, faults >>

(***************************************************************************)
(* A first claim goes by the gate's verdict.  A later one asks whether the *)
(* incident exists, and enters the protocol again if it does.              *)
(***************************************************************************)
\* Slip: an incident row is taken for the whole entry.
AcceptOnRow(a) ==
  IF attempt[a].claim > 1 /\ incident[attempt[a].about] # NoIncident
  THEN "accepting"
  ELSE IF attempt[a].eligible THEN "opening" ELSE "refusing"

Course(a) ==
  IF \/ attempt[a].claim > 1 /\ incident[attempt[a].about] # NoIncident
     \/ attempt[a].eligible
  THEN "opening"
  ELSE "refusing"

Probe(a) ==
  /\ attempt[a].at = "claimed"
  /\ Goes(a, Course(a))
  /\ UNCHANGED << receipt, fresh, incident, approvals, approving, faults >>

-----------------------------------------------------------------------------
(***************************************************************************)
(* openWhisperSilentIncident: the incident, its tasks, its snapshot (there *)
(* are no events to preserve) and the evaluation of the dispatch, each a   *)
(* transaction of its own.  The evaluation carries no approvals, so the    *)
(* silent category never allows it here.                                   *)
(***************************************************************************)
Advance(a, from, to, row) ==
  /\ attempt[a].at = from
  /\ incident' = [ incident EXCEPT ![attempt[a].about] = row ]
  /\ Goes(a, to)
  /\ UNCHANGED << receipt, fresh, approvals, approving, faults >>

Row(a) == incident[attempt[a].about]

OpenIncident(a) ==
  Advance(a, "opening", "tasking",
          IF Row(a) = NoIncident THEN Opened("SILENT", 0, TRUE, TRUE) ELSE Row(a))

EnsureTasks(a) == Advance(a, "tasking", "preserving", WithTasks(Row(a)))

Preserve(a) == Advance(a, "preserving", "evaluating", Preserved(Row(a)))

\* Slip: recognition runs the playbook in the standard mode.
EnteredMode == "STANDARD"

EntryMode == "SILENT"

Evaluate(a) ==
  Advance(a, "evaluating", "accepting",
          IF Allows(EntryMode, {}) THEN HandedOff(Row(a)) ELSE Row(a))

(***************************************************************************)
(* The outcome is written only by the holder of the claim.  One that has   *)
(* lost it answers what the receipt holds, or that it cannot say.          *)
(***************************************************************************)
\* Slip: whoever comes to finalise, finalises.
Unfenced(a) == TRUE

HoldsClaim(a) ==
  /\ ReceiptOf(a).status = "APPLYING"
  /\ ReceiptOf(a).claim = attempt[a].claim

Finalize(a) ==
  LET outcome == IF attempt[a].at = "accepting" THEN "APPLIED" ELSE "REFUSED"
  IN  /\ attempt[a].at \in { "accepting", "refusing" }
      /\ IF HoldsClaim(a)
         THEN /\ receipt' = [ receipt EXCEPT
                   ![NonceOf[attempt[a].about]].status = outcome ]
              /\ Answered(a, IF outcome = "APPLIED" THEN "accepted" ELSE "refused")
         ELSE /\ Answered(a, StoredAnswer(ReceiptOf(a)))
              /\ UNCHANGED receipt
      /\ UNCHANGED << fresh, incident, approvals, approving, faults >>

Working == { "opening", "tasking", "preserving", "evaluating", "accepting",
             "refusing" }

\* A write fails: the attempt marks the receipt UNKNOWN, if it still holds it
\* and that write succeeds, and reports that the outcome is unresolved.
Fail(a) ==
  /\ faults < MaxFaults
  /\ faults' = faults + 1
  /\ attempt[a].at \in Working
  /\ \/ UNCHANGED receipt
     \/ /\ HoldsClaim(a)
        /\ receipt' = [ receipt EXCEPT
             ![NonceOf[attempt[a].about]].status = "UNKNOWN" ]
  /\ Answered(a, "unresolved")
  /\ UNCHANGED << fresh, incident, approvals, approving >>

-----------------------------------------------------------------------------
(***************************************************************************)
(* approveSilentDispatch: the task is read, the approval recorded once per *)
(* commander, the approvals listed and evaluated, and the dispatch handed  *)
(* off if they allow it.  A commander whose approval is already on record  *)
(* is shown the incident and changes nothing.                              *)
(***************************************************************************)
ApprovalAt(c, at) == approving' = [ approving EXCEPT ![c].at = at ]

ReadDispatch(c, r) ==
  /\ approving[c] = NoApproval
  /\ incident[r] # NoIncident
  /\ incident[r].dispatch # "ABSENT"
  /\ approving' = [ approving EXCEPT ![c] =
       [ at |-> "read", about |-> r,
         requested |-> incident[r].dispatch = "REQUESTED" ] ]
  /\ UNCHANGED << receipt, attempt, fresh, incident, approvals, faults >>

RecordApproval(c) ==
  LET r == approving[c].about IN
  /\ approving[c].at = "read"
  /\ approvals' = [ approvals EXCEPT ![r] = @ \cup { c } ]
  /\ IF c \notin approvals[r] /\ approving[c].requested
     THEN ApprovalAt(c, "recorded")
     ELSE approving' = [ approving EXCEPT ![c] = NoApproval ]
  /\ UNCHANGED << receipt, attempt, fresh, incident, faults >>

EvaluateApprovals(c) ==
  LET r == approving[c].about IN
  /\ approving[c].at = "recorded"
  /\ IF Allows("SILENT", approvals[r]) THEN ApprovalAt(c, "allowed")
     ELSE approving' = [ approving EXCEPT ![c] = NoApproval ]
  /\ UNCHANGED << receipt, attempt, fresh, incident, approvals, faults >>

HandOff(c) ==
  LET r == approving[c].about IN
  /\ approving[c].at = "allowed"
  /\ incident' = [ incident EXCEPT ![r] = HandedOff(@) ]
  /\ approving' = [ approving EXCEPT ![c] = NoApproval ]
  /\ UNCHANGED << receipt, attempt, fresh, approvals, faults >>

LoseApproval(c) ==
  /\ faults < MaxFaults
  /\ approving[c] # NoApproval
  /\ approving' = [ approving EXCEPT ![c] = NoApproval ]
  /\ faults' = faults + 1
  /\ UNCHANGED << receipt, attempt, fresh, incident, approvals >>

-----------------------------------------------------------------------------

Recognise(a) ==
  \/ \E r \in Recognitions : Judge(a, r)
  \/ EnsureReceipt(a) \/ Claim(a) \/ Probe(a)
  \/ OpenIncident(a) \/ EnsureTasks(a) \/ Preserve(a) \/ Evaluate(a)
  \/ Finalize(a) \/ Fail(a)

ApproveDispatch(c) ==
  \/ \E r \in Recognitions : ReadDispatch(c, r)
  \/ RecordApproval(c) \/ EvaluateApprovals(c) \/ HandOff(c) \/ LoseApproval(c)

ResponseNext ==
  \/ \E a \in Attempts : Recognise(a)
  \/ \E c \in Commanders : ApproveDispatch(c)
  \/ \E r \in Recognitions : GrowStale(r)
  \/ \E n \in Nonces : Lapse(n)

Init == SignalInit /\ ResponseInit

Next ==
  \/ SignalNext /\ UNCHANGED responseVars
  \/ ResponseNext /\ UNCHANGED signalVars

Spec == Init /\ [][Next]_vars

-----------------------------------------------------------------------------

AttemptPlaces == Working \cup { "unused", "judged", "claiming", "claimed", "answered" }

TypeOK ==
  /\ family \in Seq(VersionRow)
  /\ DOMAIN editing = Commanders
  /\ receipt \in [ Nonces -> { NoReceipt } \cup
       ReceiptRow ]
  /\ \A a \in Attempts : attempt[a].at \in AttemptPlaces
  /\ fresh \subseteq Recognitions
  /\ incident \in [ Recognitions -> { NoIncident } \cup Incidents(Commanders) ]
  /\ approvals \in [ Recognitions -> SUBSET Commanders ]
  /\ DOMAIN approving = Commanders
  /\ faults \in 0 .. MaxFaults

\* A receipt that says ACCEPTED stands for the whole protocol entry, tasks and
\* snapshot included, and not for an incident row a crash left alone
\* (whisper.service.ts 934-953: a permanent, invisible failure to respond).
AcceptedIsEntered ==
  \A n \in Nonces :
    receipt[n].status = "APPLIED" =>
      LET row == incident[receipt[n].about] IN
        row # NoIncident /\ row.dispatch # "ABSENT" /\ row.snapshot = "DONE"

\* An outcome once recorded is the outcome, whatever an attempt that lost its
\* claim still tries to write (whisper.repository.ts 922).
OutcomeIsFinal ==
  [][ \A n \in Nonces :
        receipt[n].status \in Final => receipt'[n] = receipt[n] ]_vars

\* Every answer but "unresolved" is what the receipt holds: two attempts at
\* one recognition are never told different things (whisper.service.ts 1046).
AnswersAgree ==
  \A a \in Attempts :
    attempt[a].at = "answered" =>
      CASE attempt[a].answer = "accepted" -> ReceiptOf(a).status = "APPLIED"
        [] attempt[a].answer = "refused"  -> ReceiptOf(a).status = "REFUSED"
        [] attempt[a].answer = "reused"   -> ReceiptOf(a).about # attempt[a].about
        [] OTHER -> TRUE

\* One replay identity opens at most one incident, and only for a version that
\* somebody other than its creator has approved (whisper.service.ts 829,
\* whisper.ts 801).
OpenedOnceAndApproved ==
  \A r \in Recognitions :
    incident[r] # NoIncident =>
      /\ receipt[NonceOf[r]].about = r
      /\ family[VersionOf[r]].approval # Unapproved

\* A silent dispatch is delivered only over the approvals of two distinct
\* commanders, whichever of a recognition and an approval runs the playbook
\* (incidents.service.ts 223, constitution.policy.ts 128).
TwoCommandersDispatch ==
  \A r \in Recognitions :
    incident[r] # NoIncident /\ incident[r].dispatch = "DELIVERED" =>
      Cardinality(approvals[r]) >= 2

\* The absence of an incident when the outcome is decided proves that none was
\* opened (whisper.service.ts 877-880): a refused recognition has none.
RefusedHasNoIncident ==
  \A n \in Nonces :
    receipt[n].status = "REFUSED" => incident[receipt[n].about] = NoIncident
=============================================================================
