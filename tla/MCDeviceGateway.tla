-------------------------- MODULE MCDeviceGateway --------------------------
(***************************************************************************)
(* DeviceGateway for TLC, with FieldMessages as a second scene of the run. *)
(* In the door scene one device comes with one ceremony, one live and one  *)
(* queued statement.  In the notices scene one sender names two people in  *)
(* two calls under one key, and two servers carry the notices.             *)
(***************************************************************************)
EXTENDS DeviceGateway, FieldMessages, TLC

CONSTANTS c1, m1, operative, commander, s1, s2

UnderOne == [i \in Live \cup Queued |-> c1]

\* The second call under the key names somebody else.
OneKey == [x \in Sends |-> m1]
Named  == [x \in Sends |-> IF x = s1 THEN { operative } ELSE { commander }]

VARIABLE scene
sceneVars == << scene, vars, messageVars >>

InitOfScene == Init /\ InitMessages /\ scene \in { "door", "notices" }

NextInScene ==
  \/ scene = "door" /\ Next /\ UNCHANGED << scene, messageVars >>
  \/ scene = "notices" /\ NextMessages /\ UNCHANGED << scene, vars >>

SpecInScene == InitOfScene /\ [][NextInScene]_sceneVars

Interchangeable ==
  Permutations(Requests) \cup Permutations(Variants)
  \cup Permutations(Consumers) \cup Permutations(AckKeys)

=============================================================================
