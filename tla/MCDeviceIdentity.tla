------------------------- MODULE MCDeviceIdentity -------------------------
(***************************************************************************)
(* DeviceIdentity for TLC, in two scenes of one run.  In the ceremony      *)
(* scene a device is enrolled: two keys, the second attested for the other *)
(* challenge, and nobody decides anything about the device.  The life      *)
(* scene begins where possession has been proven, by a phone that          *)
(* submitted one key: the ceremony is committed, and two deciders and two  *)
(* rotations in a row meet on the registered device.                       *)
(***************************************************************************)
EXTENDS DeviceIdentity, TLC

CONSTANTS other, k1, k2, q1, q2, r1, c1, c2

Chains == (k1 :> q1) @@ (k2 :> q2)

VARIABLE scene
sceneVars == << scene, vars >>

ReadyToCommit ==
  /\ CredentialInit
  /\ grant = {} /\ approver = other /\ consumed = {} /\ enrolled = NoKey
  /\ proof = (c1 :> "PROVEN") @@ (c2 :> "UNISSUED")
  /\ \E q \in Challenges :
       /\ challenge = [ p \in Challenges |->
            [ consumer |-> IF p = q THEN k1 ELSE NoKey, lapsed |-> FALSE,
              receipt  |-> IF p = q THEN k1 ELSE NoKey ] ]
       /\ submission = [ r \in Requests |->
            IF r = r1 THEN [ step |-> "DONE", key |-> k1, challenge |-> q, answer |-> "RECORDED" ]
            ELSE [ step |-> "IDLE", key |-> NoKey, challenge |-> q, answer |-> "NONE" ] ]
       /\ request = [ state |-> "POSSESSION_PROVEN", key |-> k1,
                      storage |-> StorageOf(k1, q), stale |-> FALSE ]

InitOfScene ==
  \/ Init /\ scene = "ceremony"
  \/ ReadyToCommit /\ scene = "life"

NextInScene ==
  /\ UNCHANGED scene
  /\ \/ scene = "ceremony" /\ Next /\ UNCHANGED << decision, rotation >>
     \/ scene = "life" /\ CommitDevice(c1, intended)
     \/ scene = "life" /\ CredentialStep /\ UNCHANGED enrolmentVars

SpecInScene == InitOfScene /\ [][NextInScene]_sceneVars

===========================================================================
