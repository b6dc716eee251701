---------------------------- MODULE EdgeWitnessing ----------------------------
(***************************************************************************)
(* The witness route of the Edge gateway (edge-gateway.controller.ts): one *)
(* Edge forwards its receipts, central authenticates the request, admits   *)
(* the receipt, derives its time and records the observation.  Composes    *)
(* EdgeRegistry, which can withdraw the Edge in between, and EdgeTime,     *)
(* which makes the receipts.                                               *)
(*                                                                         *)
(* No transaction spans the route: each read, and each write, is a step.   *)
(* The Edge forwards a receipt again under a new request identity when it  *)
(* learns nothing; the network may repeat a request as it was.  The        *)
(* envelope that names the operation is not covered by the receipt.        *)
(***************************************************************************)
EXTENDS EdgeRegistry, EdgeTime

CONSTANTS
  Witness,        \* the Edge
  Calls,          \* arrivals of requests at the route
  Requests,       \* request identities
  EnvelopeOperations, NoOperation, NoReceipt

ASSUME WitnessAssumption == Witness \in Authorities

VARIABLES
  call,           \* per arrival: what it brings, where it stands, what it has read
  spent,          \* the request identities consumed, and what each was spent on
  observation,    \* the observations on file: [receipt, operation, time]
  trustedAtAdmission    \* ghost: the calls whose receipt was admitted from a trusted Edge

evidenceVars == <<call, spent, observation, trustedAtAdmission>>

---------------------------------------------------------------------------

Request == [id : Requests, receipt : Receipt, operation : EnvelopeOperations \cup {NoOperation}]

NoRequest == [id |-> "none", receipt |-> NoReceipt, operation |-> NoOperation]

Places == {"IDLE", "ARRIVED", "READ", "PROVEN", "AUTHENTICATED", "ADMITTED", "CLEAR", "ANSWERED", "LOST"}

Outcomes == {"NONE", "REFUSED", "FIRST_SEEN", "CONVERGED", "CONFLICT", "NOT_RECORDED"}

EvidenceTypeOK ==
  /\ \A c \in Calls :
       /\ call[c].place \in Places /\ call[c].outcome \in Outcomes
       /\ call[c].request \in Request \cup {NoRequest}
       /\ call[c].state \in EdgeStates \cup {"UNREAD"}
  /\ \A s \in spent : s \in Request
  /\ \A o \in observation : o.receipt \in receipts
  /\ trustedAtAdmission \subseteq Calls

EvidenceInit ==
  /\ call = [c \in Calls |-> [place |-> "IDLE", request |-> NoRequest, state |-> "UNREAD", outcome |-> "NONE"]]
  /\ spent = {} /\ observation = {} /\ trustedAtAdmission = {}

Stands(c, place) == call[c].place = place
Move(c, place) == call' = [call EXCEPT ![c].place = place]
Answer(c, outcome) == call' = [call EXCEPT ![c].place = "ANSWERED", ![c].outcome = outcome]

Shown(c) == call[c].request.receipt

---------------------------------------------------------------------------

\* A request identity goes with one signed request.
Arrive(c, q) ==
  /\ Stands(c, "IDLE")
  /\ \A d \in Calls : call[d].request.id = q.id => call[d].request = q
  /\ call' = [call EXCEPT ![c].place = "ARRIVED", ![c].request = q]
  /\ UNCHANGED <<spent, observation, trustedAtAdmission>>

\* The key's row, and then the Edge's.
ReadIdentity(c) ==
  /\ Stands(c, "ARRIVED")
  /\ IF key[Witness] = "NONE" THEN Answer(c, "REFUSED")
     ELSE call' = [call EXCEPT ![c].place = "READ", ![c].state = edge[Witness]]
  /\ UNCHANGED <<spent, observation, trustedAtAdmission>>

\* The registry's record: the key's standing and the Edge's trust, together.
KeyUsable == key[Witness] = "CURRENT" /\ Trust(Witness) = "TRUSTED"

\* The record is newer than the Edge's row, whose state is judged with it.
Resolve(c) ==
  /\ Stands(c, "READ")
  /\ IF KeyUsable /\ call[c].state = "ACTIVE" THEN Move(c, "PROVEN") ELSE Answer(c, "REFUSED")
  /\ UNCHANGED <<spent, observation, trustedAtAdmission>>

\* Slip: a request that is repeated exactly is let through again.
NotSpentOnAnother(q) == \A s \in spent : s.id = q.id => s = q

FirstSeen(q) == \A s \in spent : s.id # q.id

\* Burned last; a replay is refused whatever it repeats.
SpendRequest(c) ==
  LET q == call[c].request IN
  /\ Stands(c, "PROVEN")
  /\ spent' = spent \cup {q}
  /\ IF FirstSeen(q) THEN Move(c, "AUTHENTICATED") ELSE Answer(c, "REFUSED")
  /\ UNCHANGED <<observation, trustedAtAdmission>>

\* Slip: the authentication's word for the key is enough for the receipt.
AdmissibleAsAuthenticated(c) == TRUE

\* The receipt's key is resolved once more.
Admissible(c) == KeyUsable

AdmitReceipt(c) ==
  /\ Stands(c, "AUTHENTICATED")
  /\ IF Admissible(c) THEN Move(c, "ADMITTED") ELSE Answer(c, "REFUSED")
  /\ trustedAtAdmission' = IF Trust(Witness) = "TRUSTED" THEN trustedAtAdmission \cup {c}
                           ELSE trustedAtAdmission
  /\ UNCHANGED <<spent, observation>>

Recorded(rc) == {o \in observation : o.receipt = rc}

\* The witnessed operation's fingerprint is the receipt's own; the operation is
\* the envelope's, and may be missing.
SemanticsChanged(o, operation) == NoOperation \notin {o.operation, operation} /\ o.operation # operation

Look(c) ==
  LET rows == Recorded(Shown(c)) IN
  /\ Stands(c, "ADMITTED")
  /\ IF rows = {} THEN Move(c, "CLEAR")
     ELSE IF \E o \in rows : SemanticsChanged(o, call[c].request.operation)
       THEN Answer(c, "CONFLICT") ELSE Answer(c, "CONVERGED")
  /\ UNCHANGED <<spent, observation, trustedAtAdmission>>

\* The row that is already there is left as it is.
Kept(row) == IF Recorded(row.receipt) = {} THEN observation \cup {row} ELSE observation

TimeOf(rc) == IF Verified(rc) THEN Derived(rc.anchor, rc.mono) ELSE NoTime

Upsert(c) ==
  /\ Stands(c, "CLEAR")
  /\ \/ /\ observation' = Kept([receipt |-> Shown(c), operation |-> call[c].request.operation,
                                time |-> TimeOf(Shown(c))])
        /\ Answer(c, "FIRST_SEEN")
     \/ UNCHANGED observation /\ Answer(c, "NOT_RECORDED")
  /\ UNCHANGED <<spent, trustedAtAdmission>>

\* The server stops, or the Edge does, and the call with it.
Lose(c) ==
  /\ call[c].place \notin {"IDLE", "ANSWERED", "LOST"} /\ Move(c, "LOST")
  /\ UNCHANGED <<spent, observation, trustedAtAdmission>>

EvidenceNext ==
  \E c \in Calls :
    \/ ReadIdentity(c) \/ Resolve(c) \/ SpendRequest(c) \/ AdmitReceipt(c)
    \/ Look(c) \/ Upsert(c) \/ Lose(c)
    \/ \E id \in Requests, rc \in receipts, operation \in EnvelopeOperations \cup {NoOperation} :
         Arrive(c, [id |-> id, receipt |-> rc, operation |-> operation])

WitnessingInit == RegistryInit /\ TimeInit /\ EvidenceInit

\* The registry, the Edge's time and the route, each in its own processes.
WitnessingNext ==
  \/ RegistryNext /\ UNCHANGED <<timeVars, evidenceVars>>
  \/ TimeNext /\ UNCHANGED <<registryVars, evidenceVars>>
  \/ EvidenceNext /\ UNCHANGED <<registryVars, timeVars>>

witnessingVars == <<registryVars, timeVars, evidenceVars>>

WitnessingSpec == WitnessingInit /\ [][WitnessingNext]_witnessingVars

---------------------------------------------------------------------------

\* What is on file as witnessed at an instant was witnessed before its lease
\* ended, and no later than that instant, over delays, restarts and reboots
\* (edge-trusted-time.anchor.ts 153-197, 242-270).
RecordedTimeIsTrue ==
  \A o \in observation : o.time # NoTime =>
    o.receipt.at <= o.time /\ o.time < o.receipt.lease.until

\* A request identity lets one presentation through, and a receipt is on file
\* only from a presentation that came through while its Edge was trusted
\* (edge-authentication.service.ts 370-419, edge-witness.service.ts 155-174).
AdmittedOnceFromTrusted ==
  LET through == {c \in Calls : call[c].place \in {"ADMITTED", "CLEAR"}
                                  \/ call[c].outcome \in Outcomes \ {"NONE", "REFUSED"}}
  IN  /\ through \subseteq trustedAtAdmission
      /\ \A c, d \in through : call[c].request.id = call[d].request.id => c = d

\* Not what the code does.  A signed receipt that comes bound to another
\* envelope is refused rather than converged (edge-receipt-observation.service.ts
\* 98-106).
SubstitutionIsRefused ==
  \A c, d \in Calls :
    call[c].outcome = "FIRST_SEEN" /\ call[d].outcome = "FIRST_SEEN" /\ Shown(c) = Shown(d)
    => ~SemanticsChanged([operation |-> call[c].request.operation], call[d].request.operation)

=============================================================================
