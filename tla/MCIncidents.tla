----------------------------- MODULE MCIncidents -----------------------------
(***************************************************************************)
(* IncidentResponse for TLC with what surrounds it, in seven scenes that   *)
(* share one run.  Two replicas apply a window's events and nobody         *)
(* consumes what they publish (race, and ignored with the events that move *)
(* nothing); or one replica applies them and two handlers run the incident *)
(* side, with handlers that fail (response) or with people who acknowledge *)
(* and close (people).  Events are taken in (intake), evidence is          *)
(* preserved (preserve), and the outbox rows that incidents leave are sent *)
(* (relay).                                                                *)
(***************************************************************************)
EXTENDS IncidentResponse, Publication, EvidenceStore, TLC

CONSTANTS hostile, matched, again, camera, hushed, unmapped, p1, key1

Supports(source, confidence, trust, human, high) ==
  [ kind |-> "SUPPORTING", source |-> source, confidence |-> confidence,
    trust |-> trust, human |-> human, life |-> FALSE, high |-> high ]

\* A field report a human vouches for, strong enough for a critical state by
\* itself; a badge that matched the schedule, which takes it back below; three
\* reports of one camera, one strong enough to be life safety, one from when
\* the camera was in quarantine; an event without a rule.
Signals ==
  [ e \in Events |->
      CASE e = hostile -> Supports("field", 9, "trusted", TRUE, TRUE)
        [] e = matched -> [ Supports("badge", 3, "trusted", FALSE, FALSE)
                              EXCEPT !.kind = "CONTRADICTING" ]
        [] e = again   -> [ Supports("camera", 10, "trusted", FALSE, TRUE)
                              EXCEPT !.life = TRUE ]
        [] e = camera  -> Supports("camera", 6, "trusted", FALSE, FALSE)
        [] e = hushed  -> Supports("camera", 9, "quarantined", FALSE, FALSE)
        [] e = unmapped -> NoSignal ]

\* One event, reported as often as there are reports.
Bucket == [ x \in Reports |-> key1 ]

VARIABLE scene
aroundVars == << publicationVars, evidenceVars >>
sceneVars == << scene, vars, aroundVars >>

EventsOf ==
  [ race     |-> { hostile, matched, again, camera },
    ignored  |-> { camera, hushed, unmapped },
    response |-> { hostile, matched, again },
    people   |-> { hostile, again } ]

InitOfScene ==
  /\ Init /\ InitPublication /\ InitEvidence
  /\ scene \in DOMAIN EventsOf \cup { "intake", "relay", "preserve" }

\* Where the incident side runs, one replica feeds it and loses nothing.
OneReplica ==
  /\ \A p \in Replicas \ { p1 } : work'[p] = AtRest
  /\ losses' = 0

NextAround ==
  /\ UNCHANGED << scene, vars >>
  /\ \/ /\ scene = "intake"   /\ NextPublication /\ UNCHANGED << outboxVars, evidenceVars >>
     \/ /\ scene = "relay"    /\ NextPublication /\ UNCHANGED << eventVars, evidenceVars >>
     \/ /\ scene = "preserve" /\ NextEvidence /\ UNCHANGED publicationVars

NextOfIncidents ==
  /\ scene \in DOMAIN EventsOf /\ UNCHANGED << scene, aroundVars >>
  /\ \/ /\ FusionNext /\ UNCHANGED responseVars
        /\ \A e \in Events \ EventsOf[scene] : deliveries'[e] = 0
        /\ scene \in { "response", "people" } => OneReplica
     \/ /\ scene \in { "response", "people" }
        /\ ResponseNext /\ UNCHANGED fusionVars
        /\ scene = "people" => crashes' = 0
        /\ scene = "response" => incident' = NoIncident \/ incident'.status = "open"

NextInScene == NextOfIncidents \/ NextAround

SpecInScene == InitOfScene /\ [][NextInScene]_sceneVars

Symmetry == Permutations(Handlers)
=============================================================================
