------------------------------ MODULE MCWhisper ------------------------------
(***************************************************************************)
(* WhisperResponse and Constitution for TLC: who may approve what, in      *)
(* three scenes with one set of bounds.  In the studio, two commanders     *)
(* take two versions of a family through their lifecycle from nothing, and *)
(* nothing is recognised.  In the field, the                               *)
(* family is as the studio may leave it (version 1 ACTIVE, version 2 about *)
(* to take over) and recognitions, approvals and the rotation interleave.  *)
(* In office, the constitution is seeded, asked and altered.               *)
(***************************************************************************)
EXTENDS WhisperResponse, MCConstitution

CONSTANTS alice, bob, r1, r2, n1

BothUnderOne == [ r \in Recognitions |-> n1 ]
FirstVersion == [ r \in Recognitions |-> 1 ]

VARIABLE scene
sceneVars == << scene, vars, constitutionVars >>

Incumbent ==
  [ Draft(alice, CHOOSE c \in Configurations : TRUE) EXCEPT
      !.status = "ACTIVE",
      !.approval = [ by |-> bob, configuration |->
                       CHOOSE c \in Configurations : TRUE ] ]

Successor ==
  [ Draft(alice, CHOOSE c \in Configurations : TRUE) EXCEPT
      !.status = "APPROVAL" ]

InitOfScene ==
  /\ scene \in { "studio", "field", "office" }
  /\ ResponseInit /\ InitConstitution
  /\ \/ scene = "studio" /\ SignalInit
     \/ /\ scene \in { "field", "office" }
        /\ family  = << Incumbent, Successor >>
        /\ editing = [ c \in Commanders |-> Idle ]

NextOfWhisper ==
  /\ UNCHANGED << scene, constitutionVars >>
  /\ \/ scene = "studio" /\ SignalNext /\ UNCHANGED responseVars
     \/ scene = "field" /\ ResponseNext /\ UNCHANGED signalVars
     \/ /\ scene = "field"
        /\ ReadActivation(bob, 2) \/ WriteActivation(bob)
        /\ UNCHANGED responseVars

NextInScene ==
  \/ NextOfWhisper
  \/ scene = "office" /\ NextConstitution /\ UNCHANGED << scene, vars >>

SpecInScene == InitOfScene /\ [][NextInScene]_sceneVars

Symmetry == Permutations(Attempts) \cup Permutations(ApiReplicas)
=============================================================================
