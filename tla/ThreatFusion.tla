----------------------------- MODULE ThreatFusion -----------------------------
(***************************************************************************)
(* Fusion: one hypothesis (one site, zone and window) and the replicas     *)
(* that apply events to it (fusion.service.ts, fusion.repository.ts,       *)
(* fusion-consumer.service.ts, fusion-publisher.service.ts).               *)
(*                                                                         *)
(* A replica applies one event of the window at a time; another replica    *)
(* may be applying another, or the same one redelivered.  The row is read, *)
(* the next state computed from the copy, and written where the version is *)
(* still the one read, together with the event's own record and the state  *)
(* transition.  What the hypothesis has become is published afterwards,    *)
(* by a publisher that swallows its failures.                              *)
(***************************************************************************)
EXTENDS ThreatState

CONSTANTS
  Events,           \* normalised events of the window
  SignalOf,         \* [Events -> signal, or NoSignal for the ignored ones]
  Replicas,         \* server processes consuming events
  ApplyAttempts,    \* APPLY_MAX_ATTEMPTS
  EventDeliveries,  \* CONSUMER_MAX_DELIVER
  MaxLosses         \* bound on replica crashes and failed publishes

ASSUME FusionAssumption ==
  /\ IsFiniteSet(Events) /\ MaxLosses \in Nat
  /\ ApplyAttempts \in Nat \ {0} /\ EventDeliveries \in Nat \ {0}

VARIABLES
  hypothesis,       \* the row
  applied,          \* events with an applied-event record
  trail,            \* the transition log, oldest first
  deliveries,       \* per event: deliveries so far
  settled,          \* events acknowledged or out of deliveries
  work,             \* per replica: the event being applied
  published,        \* messages in the fusion stream
  losses

fusionVars == << hypothesis, applied, trail, deliveries, settled, work,
                 published, losses >>

NoSignal == [ kind |-> "NONE" ]
AtRest   == [ at |-> "rest" ]

\* threat_hypotheses, as far as fusion reads it back.
HypothesisRow ==
  [ version : Nat, state : 0 .. 5, signals : Seq(Events), high : BOOLEAN,
    latched : BOOLEAN, deEscalated : BOOLEAN, emissions : Nat ]

\* What the fusion stream carries: hypothesis updates and incident candidates.
FusionMessages ==
  [ kind : { "update", "candidate" }, version : 1 .. Cardinality(Events),
    critical : BOOLEAN ]

Work ==
  { AtRest } \cup
  [ at : { "computing" }, event : Events, read : HypothesisRow, tries : 1 .. ApplyAttempts ] \cup
  [ at : { "committed" }, event : Events, row : HypothesisRow, emit : BOOLEAN ]

FusionTypeOK ==
  /\ hypothesis \in HypothesisRow
  /\ applied \subseteq Events /\ settled \subseteq Events
  /\ trail \in Seq((0 .. 5) \X (0 .. 5))
  /\ deliveries \in [ Events -> 0 .. EventDeliveries ]
  /\ work \in [ Replicas -> Work ]
  /\ published \subseteq FusionMessages
  /\ losses \in 0 .. MaxLosses

CandidateThreshold == 2

Unformed ==
  [ version |-> 0, state |-> 0, signals |-> <<>>, high |-> FALSE,
    latched |-> FALSE, deEscalated |-> FALSE, emissions |-> 0 ]

FusionInit ==
  /\ hypothesis = Unformed
  /\ applied    = {}
  /\ trail      = <<>>
  /\ deliveries = [ e \in Events |-> 0 ]
  /\ settled    = {}
  /\ work       = [ p \in Replicas |-> AtRest ]
  /\ published  = {}
  /\ losses     = 0

SignalsOf(row) == [ i \in DOMAIN row.signals |-> SignalOf[row.signals[i]] ]

(***************************************************************************)
(* The row an event makes of the row it was read from.  A quarantined      *)
(* source is recorded and moves nothing; a supporting one adds its impact  *)
(* family; the latch releases below the threshold and counts each rise.    *)
(***************************************************************************)
\* Slip: the latch is not released when the hypothesis falls back.
LatchKept(row, state) ==
  [ latched     |-> row.latched \/ state >= CandidateThreshold,
    deEscalated |-> row.deEscalated,
    emit        |-> ~ row.latched /\ state >= CandidateThreshold ]

DecideLatch(row, state) ==
  IF state >= CandidateThreshold
  THEN [ latched     |-> TRUE,
         deEscalated |-> row.latched /\ row.deEscalated,
         emit        |-> ~ row.latched ]
  ELSE [ latched     |-> FALSE,
         deEscalated |-> row.deEscalated \/ row.latched,
         emit        |-> FALSE ]

NextState(row, e) ==
  IF SignalOf[e].trust = "quarantined" THEN row.state
  ELSE StateAfter(row.state, Append(SignalsOf(row), SignalOf[e]))

RowAfter(row, e) ==
  LET state == NextState(row, e)
      latch == DecideLatch(row, state)
  IN  [ version     |-> row.version + 1,
        state       |-> state,
        signals     |-> IF SignalOf[e].trust = "quarantined" THEN row.signals
                        ELSE Append(row.signals, e),
        high        |-> row.high \/ ( /\ SignalOf[e].trust # "quarantined"
                                      /\ SignalOf[e].high ),
        latched     |-> latch.latched,
        deEscalated |-> latch.deEscalated,
        emissions   |-> row.emissions + (IF latch.emit THEN 1 ELSE 0) ]

(***************************************************************************)
(* A delivery: the event's mapping, and whether it is already applied.     *)
(* An ignored event is recorded and acknowledged in this step; a known one *)
(* is acknowledged.  (Redelivery while a replica is still working on the   *)
(* event is the ack wait running out.)                                     *)
(***************************************************************************)
Deliver(p, e) ==
  /\ work[p] = AtRest
  /\ e \notin settled
  /\ deliveries[e] < EventDeliveries
  /\ deliveries' = [ deliveries EXCEPT ![e] = @ + 1 ]
  /\ IF SignalOf[e] = NoSignal \/ e \in applied
     THEN /\ applied' = applied \cup { e }
          /\ settled' = settled \cup { e }
          /\ UNCHANGED work
     ELSE /\ work' = [ work EXCEPT ![p] =
               [ at |-> "computing", event |-> e, read |-> hypothesis, tries |-> 1 ] ]
          /\ UNCHANGED << applied, settled >>
  /\ UNCHANGED << hypothesis, trail, published, losses >>

\* Slip: the version is not compared.
AnyVersion(p) == TRUE

VersionHolds(p) == hypothesis.version = work[p].read.version

Update(row) == [ kind |-> "update", version |-> row.version,
                 critical |-> Critical(row.state, row.high) ]

Candidate(row) == [ kind |-> "candidate", version |-> row.version,
                    critical |-> Critical(row.state, row.high) ]

\* One transaction: the event's record, the row, the transition.  The record
\* is unique, so an event that slipped past the first look is a duplicate.
Commit(p) ==
  LET e    == work[p].event
      next == RowAfter(work[p].read, e)
  IN  /\ work[p].at = "computing"
      /\ IF e \in applied
         THEN /\ settled' = settled \cup { e }
              /\ work'    = [ work EXCEPT ![p] = AtRest ]
              /\ UNCHANGED << hypothesis, applied, trail >>
         ELSE /\ VersionHolds(p)
              /\ hypothesis' = next
              /\ applied'    = applied \cup { e }
              /\ trail'      = IF next.state = work[p].read.state THEN trail
                               ELSE Append(trail, << work[p].read.state, next.state >>)
              /\ work'       = [ work EXCEPT ![p] =
                   [ at |-> "committed", event |-> e, row |-> next,
                     emit |-> next.emissions > work[p].read.emissions ] ]
              /\ UNCHANGED settled
      /\ UNCHANGED << deliveries, published, losses >>

\* The version has moved: read again, a few times, then give the event back.
Conflict(p) ==
  /\ work[p].at = "computing"
  /\ work[p].event \notin applied
  /\ ~ VersionHolds(p)
  /\ work' = [ work EXCEPT ![p] =
       IF work[p].tries < ApplyAttempts
       THEN [ work[p] EXCEPT !.read = hypothesis, !.tries = @ + 1 ]
       ELSE AtRest ]
  /\ UNCHANGED << hypothesis, applied, trail, deliveries, settled, published, losses >>

\* The update and the candidate; either publish may fail and nobody hears.
Publish(p) ==
  /\ work[p].at = "committed"
  /\ LET all == { Update(work[p].row) } \cup
                (IF work[p].emit THEN { Candidate(work[p].row) } ELSE {})
     IN \E sent \in SUBSET all :
          /\ sent = all \/ losses < MaxLosses
          /\ published' = published \cup sent
          /\ losses' = losses + (IF sent = all THEN 0 ELSE 1)
  /\ work'    = [ work EXCEPT ![p] = AtRest ]
  /\ settled' = settled \cup { work[p].event }
  /\ UNCHANGED << hypothesis, applied, trail, deliveries >>

CrashReplica(p) ==
  /\ work[p] # AtRest
  /\ losses < MaxLosses
  /\ losses' = losses + 1
  /\ work'   = [ work EXCEPT ![p] = AtRest ]
  /\ UNCHANGED << hypothesis, applied, trail, deliveries, settled, published >>

FusionNext ==
  \E p \in Replicas :
    \/ \E e \in Events : Deliver(p, e)
    \/ Commit(p) \/ Conflict(p) \/ Publish(p) \/ CrashReplica(p)

-----------------------------------------------------------------------------

\* Two replicas never lose each other's signal: the row holds every signal
\* that has been recorded as applied, once, and has been written once for each
\* (fusion.repository.ts 245).
EverySignalCounted ==
  LET moving == { e \in applied : SignalOf[e] # NoSignal }
      held   == { e \in moving : SignalOf[e].trust # "quarantined" }
  IN  /\ hypothesis.version = Cardinality(moving)
      /\ { hypothesis.signals[i] : i \in DOMAIN hypothesis.signals } = held
      /\ Len(hypothesis.signals) = Cardinality(held)

\* The transition log is one unbroken path to the row's state, and a candidate
\* has been counted for each rise across the threshold on it
\* (fusion.service.ts 353-367).
CandidatePerRise ==
  /\ \A i \in DOMAIN trail :
       trail[i][1] = IF i = 1 THEN 0 ELSE trail[i - 1][2]
  /\ hypothesis.state = IF trail = <<>> THEN 0 ELSE trail[Len(trail)][2]
  /\ hypothesis.emissions =
       Cardinality({ i \in DOMAIN trail : /\ trail[i][1] < CandidateThreshold
                                          /\ trail[i][2] >= CandidateThreshold })

\* One source, however often it reports, never makes a threat of a suspicion:
\* past SUSPICIOUS there are two sources or a human in the field
\* (threatState.ts 256-286), and CRITICAL_LIFE_SAFETY is no way around it.
EscalationIsCorroborated ==
  hypothesis.state > 2 =>
    \/ Cardinality({ SignalsOf(hypothesis)[i].source :
                       i \in DOMAIN hypothesis.signals }) >= 2
    \/ \E i \in DOMAIN hypothesis.signals : SignalsOf(hypothesis)[i].human
=============================================================================
