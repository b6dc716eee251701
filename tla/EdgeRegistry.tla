----------------------------- MODULE EdgeRegistry -----------------------------
(***************************************************************************)
(* How an Edge comes to be trusted and stops being so                      *)
(* (edge-enrolment.service.ts), and how its TLS identity is pinned for its *)
(* site (edge-transport-enrolment.service.ts).  An authority is good for   *)
(* one request and a request makes one Edge, so all three go by the        *)
(* authority's name.                                                       *)
(*                                                                         *)
(* Each operation is one transaction whose rows are locked before they are *)
(* judged; reads made before it opens are steps of their own.  A refusal   *)
(* is RETURNED from the transaction, which therefore commits what it wrote *)
(* so far.  Windows end by themselves.                                     *)
(***************************************************************************)
EXTENDS Integers, FiniteSets

CONSTANTS
  Authorities,    \* one-use authorities, and the request and Edge of each
  Challenges,     \* possession challenges
  SiteOf,         \* [Authorities -> sites]
  Activators,     \* overlapping activations of a transport identity
  NoEdge

ASSUME NoEdgeAssumption == NoEdge \notin Authorities

VARIABLES
  authority,      \* what has happened to each authority
  request,        \* the enrolment request made under it
  edge,           \* the Edge of that request; its trust follows its state
  key,            \* the Edge's registry key
  challenge,      \* [of, state] of each challenge
  verdict,        \* the possession verification of each challenge
  spentBy,        \* the challenge whose statement an authority's replay identity holds
  answers,        \* what completions were told: <<challenge, outcome>>
  activation,     \* per activator: where it stands, for which Edge
  pinned          \* the current transport identity of each site

ceremony == <<authority, request, edge, key, challenge, verdict, spentBy, answers>>
registryVars == <<ceremony, activation, pinned>>

---------------------------------------------------------------------------

Marks == {"ISSUED", "EXPIRED", "CONSUMED", "REVOKED"}

EdgeStates == {"ABSENT", "PENDING", "ACTIVE", "WITHDRAWN"}

Trust(e) == CASE edge[e] \in {"ABSENT", "PENDING"} -> "SUSPENDED"
              [] edge[e] = "ACTIVE"                -> "TRUSTED"
              [] edge[e] = "WITHDRAWN"             -> "REVOKED"

ChallengeRow == [of : Authorities \cup {NoEdge}, state : {"NONE", "ASKED", "OPEN", "EXPIRED"}]

NoActivation == [place |-> "IDLE", edge |-> NoEdge]

RegistryTypeOK ==
  /\ authority \in [Authorities -> SUBSET Marks]
  /\ request \in [Authorities -> {"ABSENT", "PENDING", "ACTIVATED"}]
  /\ edge \in [Authorities -> EdgeStates]
  /\ key \in [Authorities -> {"NONE", "CURRENT", "REVOKED"}]
  /\ challenge \in [Challenges -> ChallengeRow]
  /\ verdict \in [Challenges -> {"NONE", "VERIFIED", "FAILED"}]
  /\ spentBy \in [Authorities -> SUBSET Challenges]
  /\ answers \subseteq Challenges \X {"ENROLLED", "CONVERGED", "REFUSED"}
  /\ activation \in [Activators -> [place : {"IDLE", "KNOWN", "PROVEN", "CLEAR"},
                                    edge : Authorities \cup {NoEdge}]]
  /\ pinned \in [{SiteOf[a] : a \in Authorities} -> Authorities \cup {NoEdge}]

RegistryInit ==
  /\ authority = [a \in Authorities |-> {}]
  /\ request = [a \in Authorities |-> "ABSENT"]
  /\ edge = [a \in Authorities |-> "ABSENT"]
  /\ key = [a \in Authorities |-> "NONE"]
  /\ challenge = [c \in Challenges |-> [of |-> NoEdge, state |-> "NONE"]]
  /\ verdict = [c \in Challenges |-> "NONE"]
  /\ spentBy = [a \in Authorities |-> {}]
  /\ answers = {}
  /\ activation = [t \in Activators |-> NoActivation]
  /\ pinned = [s \in {SiteOf[a] : a \in Authorities} |-> NoEdge]

---------------------------------------------------------------------------
\* The authority and the request.

\* classifyEdgeEnrolmentAuthority.
Usable(a) == authority[a] = {"ISSUED"}

Mark(a, mark) == authority' = [authority EXCEPT ![a] = @ \cup {mark}]

IssueAuthority(a) ==
  /\ authority[a] = {} /\ Mark(a, "ISSUED")
  /\ UNCHANGED <<request, edge, key, challenge, verdict, spentBy, answers, activation, pinned>>

RevokeAuthority(a) ==
  /\ "ISSUED" \in authority[a] /\ authority[a] \cap {"CONSUMED", "REVOKED"} = {}
  /\ Mark(a, "REVOKED")
  /\ UNCHANGED <<request, edge, key, challenge, verdict, spentBy, answers, activation, pinned>>

AuthorityEnds(a) ==
  /\ "ISSUED" \in authority[a] /\ Mark(a, "EXPIRED")
  /\ UNCHANGED <<request, edge, key, challenge, verdict, spentBy, answers, activation, pinned>>

\* A second request under one authority breaks its unique index.
RequestEnrolment(a) ==
  /\ Usable(a) /\ request[a] = "ABSENT"
  /\ request' = [request EXCEPT ![a] = "PENDING"]
  /\ edge' = [edge EXCEPT ![a] = "PENDING"]
  /\ UNCHANGED <<authority, key, challenge, verdict, spentBy, answers, activation, pinned>>

\* An authority presented for another site is burned.
RequestElsewhere(a) ==
  /\ Usable(a) /\ Mark(a, "CONSUMED")
  /\ UNCHANGED <<request, edge, key, challenge, verdict, spentBy, answers, activation, pinned>>

\* The request is read, and the challenge created after.
AskChallenge(c, a) ==
  /\ challenge[c].state = "NONE" /\ request[a] = "PENDING"
  /\ challenge' = [challenge EXCEPT ![c] = [of |-> a, state |-> "ASKED"]]
  /\ UNCHANGED <<authority, request, edge, key, verdict, spentBy, answers, activation, pinned>>

IssueChallenge(c) ==
  /\ challenge[c].state = "ASKED"
  /\ challenge' = [challenge EXCEPT ![c].state = "OPEN"]
  /\ UNCHANGED <<authority, request, edge, key, verdict, spentBy, answers, activation, pinned>>

ChallengeEnds(c) ==
  /\ challenge[c].state = "OPEN"
  /\ challenge' = [challenge EXCEPT ![c].state = "EXPIRED"]
  /\ UNCHANGED <<authority, request, edge, key, verdict, spentBy, answers, activation, pinned>>

---------------------------------------------------------------------------
\* Completion.  The statement a challenge asks for is that challenge's own, so
\* the challenge stands for the statement's fingerprint.

\* Slip: the signature of this call counts, whatever the challenge was answered.
ProvenNow(c, signed) == signed

\* One verdict per challenge: a failed one is final.
Proven(c, signed) == verdict[c] # "FAILED" /\ signed

\* The authority's identity was spent on this very statement.
Converges(c, a) == spentBy[a] = {c}

Changed(c, a) == spentBy[a] \notin {{}, {c}}

Tell(c, outcome) == answers' = answers \cup {<<c, outcome>>}

Complete(c, signed) ==
  LET a == challenge[c].of IN
  /\ challenge[c].state = "OPEN"
  /\ verdict' = [verdict EXCEPT ![c] = IF @ # "NONE" THEN @
                                       ELSE IF signed THEN "VERIFIED" ELSE "FAILED"]
  /\ IF ~Proven(c, signed) \/ Changed(c, a)
       THEN Tell(c, "REFUSED") /\ UNCHANGED <<authority, request, edge, key, spentBy>>
     ELSE IF Converges(c, a)
       THEN Tell(c, "CONVERGED") /\ UNCHANGED <<authority, request, edge, key, spentBy>>
     ELSE
       /\ spentBy' = [spentBy EXCEPT ![a] = {c}]
       /\ IF "CONSUMED" \in authority[a]
            THEN Tell(c, "REFUSED") /\ UNCHANGED <<authority, request, edge, key>>
            ELSE /\ Mark(a, "CONSUMED")
                 /\ key' = [key EXCEPT ![a] = "CURRENT"]
                 /\ IF edge[a] # "PENDING"
                      THEN Tell(c, "REFUSED") /\ UNCHANGED <<request, edge>>
                      ELSE /\ edge' = [edge EXCEPT ![a] = "ACTIVE"]
                           /\ request' = [request EXCEPT ![a] = "ACTIVATED"]
                           /\ Tell(c, "ENROLLED")
  /\ UNCHANGED <<challenge, activation, pinned>>

\* Withdrawal is a state; every key not yet revoked goes with it.
WithdrawEdge(a) ==
  /\ edge[a] \in {"PENDING", "ACTIVE"}
  /\ edge' = [edge EXCEPT ![a] = "WITHDRAWN"]
  /\ key' = [key EXCEPT ![a] = IF @ = "NONE" THEN @ ELSE "REVOKED"]
  /\ UNCHANGED <<authority, request, challenge, verdict, spentBy, answers, activation, pinned>>

---------------------------------------------------------------------------
\* The transport identity.  No transaction: three reads and a write.

ReadEdge(t, a) ==
  /\ activation[t].place = "IDLE" /\ edge[a] = "ACTIVE" /\ Trust(a) = "TRUSTED"
  /\ activation' = [activation EXCEPT ![t] = [place |-> "KNOWN", edge |-> a]]
  /\ UNCHANGED <<ceremony, pinned>>

Possesses(a) == key[a] = "CURRENT"

LeaveActivation(t) == activation' = [activation EXCEPT ![t] = NoActivation]

Advance(t, place) == activation' = [activation EXCEPT ![t].place = place]

\* Both possessions are proven, the Edge's under its current key.
Prove(t) ==
  /\ activation[t].place = "KNOWN"
  /\ IF Possesses(activation[t].edge) THEN Advance(t, "PROVEN") ELSE LeaveActivation(t)
  /\ UNCHANGED <<ceremony, pinned>>

LookAtSite(t) ==
  /\ activation[t].place = "PROVEN"
  /\ IF pinned[SiteOf[activation[t].edge]] = NoEdge THEN Advance(t, "CLEAR") ELSE LeaveActivation(t)
  /\ UNCHANGED <<ceremony, pinned>>

\* One current identity per site: a second one breaks the partial index.
Pin(t) ==
  LET a == activation[t].edge IN
  /\ activation[t].place = "CLEAR" /\ LeaveActivation(t)
  /\ pinned' = IF pinned[SiteOf[a]] = NoEdge THEN [pinned EXCEPT ![SiteOf[a]] = a] ELSE pinned
  /\ UNCHANGED ceremony

\* What a device at a site is told to connect to (device-edge-transport.service.ts).
Offered(s) == pinned[s] # NoEdge /\ edge[pinned[s]] = "ACTIVE" /\ Trust(pinned[s]) = "TRUSTED"

RegistryNext ==
  \/ \E a \in Authorities :
       \/ IssueAuthority(a) \/ RevokeAuthority(a) \/ AuthorityEnds(a)
       \/ RequestEnrolment(a) \/ RequestElsewhere(a) \/ WithdrawEdge(a)
       \/ \E c \in Challenges : AskChallenge(c, a)
       \/ \E t \in Activators : ReadEdge(t, a)
  \/ \E c \in Challenges :
       \/ IssueChallenge(c) \/ ChallengeEnds(c)
       \/ \E signed \in BOOLEAN : Complete(c, signed)
  \/ \E t \in Activators : Prove(t) \/ LookAtSite(t) \/ Pin(t)

---------------------------------------------------------------------------

\* An Edge is active only where its own authority was spent, once, on a
\* challenge of its own request that was answered well the first time
\* (edge-enrolment.service.ts 360-384, 434-476).
ActiveIsProven ==
  \A a \in Authorities : edge[a] = "ACTIVE" =>
    /\ key[a] = "CURRENT" /\ request[a] = "ACTIVATED" /\ "CONSUMED" \in authority[a]
    /\ \E c \in Challenges : /\ challenge[c].of = a /\ verdict[c] = "VERIFIED"
                             /\ spentBy[a] = {c} /\ <<c, "ENROLLED">> \in answers

\* Not what the code does.  An expired or burned authority cannot complete a
\* ceremony it started (edge-enrolment.service.ts 371-372).
AuthorityHoldsToTheEnd ==
  [][\A a \in Authorities : edge[a] = "PENDING" /\ edge'[a] = "ACTIVE" => Usable(a)]_registryVars

\* Not what the code does.  An exact retry converges on a ceremony that
\* already completed (edge-enrolment.service.ts 542-546).
ConvergedIsEnrolled ==
  \A x \in answers : x[2] = "CONVERGED" => <<x[1], "ENROLLED">> \in answers

\* Not what the code does.  The Edge stops being trusted and its key is
\* revoked (edge-enrolment.service.ts 626-633).
WithdrawnHoldsNoKey == \A a \in Authorities : edge[a] = "WITHDRAWN" => key[a] # "CURRENT"

=============================================================================
