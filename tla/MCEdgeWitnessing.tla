--------------------------- MODULE MCEdgeWitnessing ---------------------------
(***************************************************************************)
(* Small instances of EdgeWitnessing, in three scenes: how two Edges of a  *)
(* site are enrolled and one is pinned; how an Edge gets and loses its     *)
(* trusted time and one receipt comes in; and how receipts come in while   *)
(* the Edge is being withdrawn.                                            *)
(***************************************************************************)
EXTENDS EdgeWitnessing, TLC

CONSTANTS e1, e2

VARIABLE scene

Scenes == {"ceremony", "time", "evidence"}

OneSite == [a \in Authorities |-> "s"]
\* The Edge has not been told of the next signing key yet.
OldRing == {[key |-> "k1", role |-> "ACTIVE"]}
NewRing == {[key |-> "k1", role |-> "PREVIOUS"], [key |-> "k2", role |-> "ACTIVE"]}
OneLease == {[from |-> 0, until |-> 2]}

Enrolled == \E c \in Challenges :
  /\ authority = [a \in Authorities |-> IF a = Witness THEN {"ISSUED", "CONSUMED"} ELSE {}]
  /\ request = [a \in Authorities |-> IF a = Witness THEN "ACTIVATED" ELSE "ABSENT"]
  /\ edge = [a \in Authorities |-> IF a = Witness THEN "ACTIVE" ELSE "ABSENT"]
  /\ key = [a \in Authorities |-> IF a = Witness THEN "CURRENT" ELSE "NONE"]
  /\ challenge = [d \in Challenges |-> IF d = c THEN [of |-> Witness, state |-> "OPEN"]
                                       ELSE [of |-> NoEdge, state |-> "NONE"]]
  /\ verdict = [d \in Challenges |-> IF d = c THEN "VERIFIED" ELSE "NONE"]
  /\ spentBy = [a \in Authorities |-> IF a = Witness THEN {c} ELSE {}]
  /\ answers = {<<c, "ENROLLED">>}
  /\ activation = [t \in Activators |-> NoActivation]
  /\ pinned = [s \in {SiteOf[a] : a \in Authorities} |-> NoEdge]

\* An anchor was issued at once, held, and one receipt made from it.
Anchored ==
  LET a == [signer |-> "k1", boot |-> 0, mono |-> 0, issued |-> 0, until |-> Lifetime] IN
  /\ signer = "k1" /\ clock = 1 /\ boot = 0 /\ bootedAt = 0 /\ asked = {[boot |-> 0, mono |-> 0]}
  /\ anchors = {a} /\ held = a /\ stored = NoAnchor
  /\ \E lease \in Leases :
       receipts = {[anchor |-> a, boot |-> 0, mono |-> 1, time |-> 1, lease |-> lease, at |-> 1]}

Init ==
  /\ EvidenceInit
  /\ \/ scene = "ceremony" /\ RegistryInit /\ TimeInit /\ signer = "k1"
     \/ scene = "time" /\ Enrolled /\ TimeInit
     \/ scene = "evidence" /\ Enrolled /\ Anchored

\* In the time scene time ends with the receipt, which nothing later can
\* change, and one call presents the receipt, as it was made.
Presenting(c) ==
  scene = "time" => /\ call'[c].request.operation = NoOperation
                    /\ \A d \in Calls \ {c} : call[d].place = "IDLE"

Present == EvidenceNext /\ \A c \in Calls : call[c] # call'[c] => Presenting(c)

Next ==
  /\ UNCHANGED scene
  /\ \/ scene = "ceremony" /\ RegistryNext /\ UNCHANGED <<timeVars, evidenceVars>>
     \/ scene = "time" /\ receipts = {} /\ TimeNext /\ UNCHANGED <<registryVars, evidenceVars>>
     \/ scene # "ceremony" /\ Present /\ UNCHANGED <<registryVars, timeVars>>
     \/ scene = "evidence" /\ WithdrawEdge(Witness) /\ UNCHANGED <<timeVars, evidenceVars>>

Symmetry == Permutations(Challenges) \cup Permutations(Calls) \cup Permutations(Requests)
              \cup Permutations(EnvelopeOperations)

mcVars == <<registryVars, timeVars, evidenceVars, scene>>

Spec == Init /\ [][Next]_mcVars

=============================================================================
