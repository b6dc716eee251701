------------------------------- MODULE MCPatrol -------------------------------
(***************************************************************************)
(* Patrol for TLC, in three scenes of one run.  In the plan scene two      *)
(* desks set up a route, publish versions of it and schedule, start and    *)
(* cancel the run while the assignment moves.  The walk scene begins with  *)
(* the run in progress: two desks verify, abandon and end the assignment   *)
(* while the sweep runs and time passes.  In the relay scene two servers   *)
(* send the outbox rows such changes leave; no event is taken in there.    *)
(***************************************************************************)
EXTENDS Patrol, TLC

CONSTANTS k1, k2, Servers, MaxRows, MaxStamp, OutboxBatch, MaxOutages, MaxStops

Stop(open, late, missed) == [ open |-> open, late |-> late, missed |-> missed ]

Versions == << << Stop(0, 1, 1), Stop(1, 1, 2) >>, << Stop(0, 0, 0) >> >>

Duty == << << "assignment", 1 >> >>

VARIABLES scene, outbox, sent, relaying, outages, stops

Updates == INSTANCE Publication WITH
  Reports <- {}, KeyOf <- <<>>, EventBatch <- 1, NoEvent <- "none",
  canonical <- <<>>, stream <- {}, ingest <- <<>>,
  retrying <- [ s \in Servers |-> [ rows |-> {}, step |-> "rest" ]]

relayVars == << outbox, sent, relaying, outages, stops >>
sceneVars == << scene, patrolVars, relayVars >>

AsksOf ==
  [ plan |-> { ask \in Asks : /\ ask.op \in { "create", "publish", "schedule", "start", "cancel" } }
             \cup { ask \in Asks : ask.op = "move" /\ ask.to \in { "ACCEPTED", "DECLINED" } },
    walk |-> { ask \in Asks : ask.op = "verify" /\ ask.key = k1 /\ (ask.source \/ ask.at = 1) }
             \cup { ask \in Asks : ask.op = "abandon" /\ ask.key = k1 }
             \cup { ask \in Asks : ask.op = "move" /\ ask.to = "CANCELLED" } ]

InitWalk ==
  /\ now           = 0
  /\ route         = [ version |-> 1, keys |-> << k1 >> ]
  /\ run           = [ status |-> "IN_PROGRESS", version |-> 1, started |-> 0,
                       ended |-> 0, reason |-> FALSE ]
  /\ checkpoints   = Materialised(Definitions[1], 0)
  /\ verifications = {}
  /\ actions       = { << "start", k1 >> }
  /\ dutyStatus    = [ a \in ToSet(AssignmentRows) |-> "ACCEPTED" ]
  /\ tx            = [ p \in Processes |-> Idle ]
  /\ owner         = [ row \in Rows |-> NoOne ]
  /\ backlog       = <<>>
  /\ failed        = 0

InitOfScene ==
  /\ Updates!InitPublication
  /\ \/ PatrolInit /\ scene \in { "plan", "relay" }
     \/ InitWalk /\ scene = "walk"

NextInScene ==
  /\ UNCHANGED scene
  /\ \/ /\ scene # "relay" /\ PatrolNext /\ UNCHANGED relayVars
        /\ \A p \in Desks : tx'[p] # Idle => tx'[p].ask \in AsksOf[scene]
        /\ scene = "plan" => now' = 0
     \/ scene = "relay" /\ Updates!NextPublication /\ UNCHANGED patrolVars

\* Fairness of Patrol on the walk, of Publication where there are rows.
FairnessInScene ==
  LET walking == scene = "walk"
  IN  /\ WF_patrolVars(walking /\ Tick)
      /\ WF_patrolVars(walking /\ FindCandidates)
      /\ WF_patrolVars(walking /\ TakeCandidate)
      /\ \A d \in Desks : WF_patrolVars(walking /\ (Operate(d) \/ Abort(d)))
      /\ SF_patrolVars(walking /\ Operate(Sweeper))
      /\ Updates!RelayFairness

SpecInScene == InitOfScene /\ [][NextInScene]_sceneVars /\ FairnessInScene

\* Rows that cannot be sent do not stall the others (Publication,
\* PoisonDoesNotStall).
PoisonDoesNotStall == Updates!PoisonDoesNotStall

=============================================================================
