------------------------- MODULE MCEdgeForwarding -------------------------
(***************************************************************************)
(* EdgeForwarding for TLC: two operations of one device and one of another *)
(* that never comes back, in two scenes of one run.  In the custody scene  *)
(* all three are offered and nothing is assumed of how often anybody acts. *)
(* In the live scene the device has one operation, and everybody who keeps *)
(* acting is assumed to.                                                   *)
(***************************************************************************)
EXTENDS EdgeForwarding, TLC

CONSTANTS first, second, other, deviceA, deviceB

Namespaces == [o \in Operations |-> IF o = other THEN deviceB ELSE deviceA]
Order == [o \in Operations |-> IF o = second THEN 1 ELSE 0]

VARIABLE scene
sceneVars == <<scene, vars>>

InitOfScene == Init /\ scene \in {"custody", "live"}

NextInScene ==
  /\ Next /\ UNCHANGED scene
  /\ scene = "live" => queue'[second] = NoRow /\ receipt'[second] = "none"

\* Liveness is claimed for an Edge that is restarted when it stops, a clock
\* that runs, a driver that keeps calling the store, a link that is not down
\* for ever, a device that comes back, and one that keeps offering what the
\* Edge refused.
Fairness ==
  /\ WF_vars(scene = "live" /\ Start)
  /\ WF_vars(scene = "live" /\ TimePasses)
  /\ WF_vars(scene = "live" /\ Sweep)
  /\ \A o \in {first, other} :
       /\ WF_vars(scene = "live" /\ Admit(o))
       /\ WF_vars(scene = "live" /\ MarkReady(o))
       /\ WF_vars(scene = "live" /\ ClaimHead(o))
       /\ WF_vars(scene = "live" /\ CentralAnswers(o))
       /\ WF_vars(scene = "live" /\ AnswerArrives(o))
       /\ WF_vars(scene = "live" /\ CentralMoves(o))

SpecInScene == InitOfScene /\ [][NextInScene]_sceneVars /\ Fairness

\* An operation the Edge holds for a device that comes back is answered in the
\* end, although another device whose operation it also holds never returns
\* (forwardableHeads: one head per namespace, edge-queue.store.ts).
HeldIsAnswered ==
  (scene = "live" /\ first \in Stored(queue)) ~> first \in Settled(queue)

=============================================================================
