---------------------------- MODULE MCDeviceDrain ----------------------------
(***************************************************************************)
(* Instances of DeviceDrain for TLC, in two scenes.  Shared: a handset     *)
(* changes hands, from alpha to bravo, while contexts and leases end.      *)
(* Alone: one operative whose context stays open, two overlapping          *)
(* exchanges with the Edge, one fault, and a drain that keeps running.     *)
(***************************************************************************)
EXTENDS DeviceDrain, TLC

CONSTANTS o1, o2, o3, o4, c1, c2, alpha, bravo

VARIABLE scene

Taken == [o \in Operations |-> IF o = o3 THEN bravo ELSE alpha]
HandedOver == [c \in Contexts |-> IF c = c1 THEN alpha ELSE bravo]

SharedOnly ==
  \/ SignIn(c2) \/ Offer(o3)
  \/ \E c \in Contexts : ContextEnds(c) \/ LeaseEnds(c)

AloneOnly ==
  \/ Offer(o4)
  \/ \E a \in Askers : EdgeAnswers(a) \/ \E o \in Operations : AskEdge(a, o)

SceneNext ==
  /\ Next /\ UNCHANGED scene
  /\ scene = "shared" => ~AloneOnly
  /\ scene = "alone"  => ~SharedOnly /\ faults' <= 1

SceneInit == Init /\ scene \in {"shared", "alone"}

SceneSpec == SceneInit /\ [][SceneNext]_<<vars, scene>> /\ WF_vars(Drain)

\* Whatever is queued while the operative stays signed in is settled
\* (OfflineOutbox.peekNext, OfflineSubmission.submitNext).
AloneIsSettled ==
  \A o \in Operations : (scene = "alone" /\ o \in Queued) ~> (o \notin Queued)

=============================================================================
