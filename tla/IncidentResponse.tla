--------------------------- MODULE IncidentResponse ---------------------------
(***************************************************************************)
(* The incident Fusion's messages open and keep current, and the playbook  *)
(* it runs (incidents.service.ts handleCandidate, handleHypothesisUpdate,  *)
(* runProofA, acknowledge, transitionStatus; incidents.consumer.ts and     *)
(* incidents-hypothesis.consumer.ts).                                      *)
(*                                                                         *)
(* Candidates and updates come through two durable consumers that know     *)
(* nothing of each other's order.  A handler is a sequence of              *)
(* transactions; one that fails gives its message back, and a message that *)
(* has used up its deliveries is gone.                                     *)
(***************************************************************************)
EXTENDS ThreatFusion, ProofA

CONSTANTS
  Handlers,         \* consumer loops, of either consumer
  Deliveries,       \* INCIDENT_CONSUMER_MAX_DELIVER
  Operatives,       \* people who acknowledge the field dispatch
  MaxCrashes        \* bound on handlers that fail part-way

ASSUME ResponseAssumption == Deliveries \in Nat \ {0} /\ MaxCrashes \in Nat

VARIABLES
  incident,         \* the incident of the hypothesis
  used,             \* [messages -> deliveries so far]
  done,             \* messages acknowledged
  handling,         \* per handler: its message and how far it has come
  reading,          \* per operative: the acknowledgement it is about to write
  crashes,
  relapsed          \* history: fell below critical with the playbook unfinished

responseVars == << incident, used, done, handling, reading, crashes, relapsed >>
vars == << fusionVars, responseVars >>

Messages == FusionMessages

Free == [ at |-> "free" ]

ResponseInit ==
  /\ incident = NoIncident
  /\ used     = [ m \in Messages |-> 0 ]
  /\ done     = {}
  /\ handling = [ h \in Handlers |-> Free ]
  /\ reading  = {}
  /\ crashes  = 0
  /\ relapsed = FALSE

\* A handler with its message; once the tasks were read, with what the dispatch
\* was then.
Handling ==
  { Free } \cup
  [ at : { "candidate", "update", "catching up", "tasking" }, message : Messages ] \cup
  [ at : { "preserving", "dispatching" }, message : Messages, open : BOOLEAN ]

TypeOK ==
  /\ FusionTypeOK
  /\ incident \in Incidents(Operatives) \cup { NoIncident }
  /\ used \in [ Messages -> 0 .. Deliveries ]
  /\ done \subseteq published
  /\ handling \in [ Handlers -> Handling ]
  /\ crashes \in 0 .. MaxCrashes /\ relapsed \in BOOLEAN

\* A message is delivered to one handler at a time, and again when it has
\* been given back.
Take(h, m) ==
  /\ handling[h] = Free
  /\ m \in published \ done
  /\ used[m] < Deliveries
  /\ m \notin { handling[x].message : x \in { y \in Handlers : handling[y] # Free } }
  /\ used' = [ used EXCEPT ![m] = @ + 1 ]
  /\ handling' = [ handling EXCEPT ![h] = [ at |-> m.kind, message |-> m ] ]
  /\ UNCHANGED << incident, done, reading, crashes, relapsed >>

Ack(h) ==
  /\ done' = done \cup { handling[h].message }
  /\ handling' = [ handling EXCEPT ![h] = Free ]

GiveBack(h) ==
  /\ handling' = [ handling EXCEPT ![h] = Free ]
  /\ UNCHANGED done

Continue(h, at) ==
  /\ handling' = [ handling EXCEPT ![h].at = at ]
  /\ UNCHANGED done

\* createFromCandidate: one incident per hypothesis; a candidate that finds it
\* goes on with the stored row.
CreateFromCandidate(h) ==
  LET m   == handling[h].message
      row == IF incident = NoIncident
             THEN Opened("STANDARD", m.version, m.critical, FALSE) ELSE incident
  IN  /\ handling[h].at = "candidate"
      /\ incident' = row
      /\ Continue(h, IF row.critical THEN "tasking" ELSE "catching up")
      /\ UNCHANGED << used, reading, crashes, relapsed >>

(***************************************************************************)
(* Advancing the incident to a hypothesis version, under its row lock.     *)
(* Older and equal versions are dropped; the first critical one starts the *)
(* playbook in the same transaction.                                       *)
(***************************************************************************)
\* Slip: any message moves the incident.
AnyOther(version) == incident.version # version

Newer(version) == incident.version < version

Finished(row) == row.snapshot = "DONE" /\ row.dispatch \in { "DELIVERED", "ACKNOWLEDGED" }

Advanced(version, critical) ==
  LET starts == critical /\ ~ incident.started
      row    == [ incident EXCEPT !.version = version, !.critical = critical,
                                  !.started = @ \/ starts ]
  IN  IF starts THEN WithTasks(row) ELSE row

\* Slip: an assessment that is not newer is finished.
AssessNewer(h, version, critical) ==
  IF Newer(version)
  THEN /\ incident' = Advanced(version, critical)
       /\ relapsed' = (relapsed \/ (incident.critical /\ ~ critical /\ ~ Finished(incident)))
       /\ IF critical /\ ~ incident.started THEN Continue(h, "tasking") ELSE Ack(h)
  ELSE Ack(h) /\ UNCHANGED << incident, relapsed >>

\* What either consumer does with an assessment of the hypothesis: a newer one
\* that starts the playbook runs it, a newer one that does not is finished,
\* and an older one runs it only if it was started and is still called for.
Assess(h, version, critical) ==
  IF Newer(version)
  THEN /\ incident' = Advanced(version, critical)
       /\ relapsed' = (relapsed \/ (incident.critical /\ ~ critical /\ ~ Finished(incident)))
       /\ IF critical /\ ~ incident.started THEN Continue(h, "tasking") ELSE Ack(h)
  ELSE /\ IF incident.started /\ incident.critical
          THEN Continue(h, "tasking") ELSE Ack(h)
       /\ UNCHANGED << incident, relapsed >>

\* Slip: the incident just opened is left at the candidate's version.
LeaveBehind(h) ==
  /\ handling[h].at = "catching up"
  /\ Ack(h)
  /\ UNCHANGED << incident, relapsed, used, reading, crashes >>

\* The candidate consumer reads the hypothesis as it is now.
CatchUp(h) ==
  /\ handling[h].at = "catching up"
  /\ IF hypothesis.version > handling[h].message.version
     THEN Assess(h, hypothesis.version, Critical(hypothesis.state, hypothesis.high))
     ELSE Ack(h) /\ UNCHANGED << incident, relapsed >>
  /\ UNCHANGED << used, reading, crashes >>

\* The update consumer gives a message back while there is no incident.
HandleUpdate(h) ==
  /\ handling[h].at = "update"
  /\ IF incident = NoIncident
     THEN GiveBack(h) /\ UNCHANGED << incident, relapsed >>
     ELSE Assess(h, handling[h].message.version, handling[h].message.critical)
  /\ UNCHANGED << used, reading, crashes >>

(***************************************************************************)
(* runProofA, a transaction at a time.  What the dispatch state was when   *)
(* the tasks were read decides whether it is evaluated, and the standard   *)
(* category needs no approval.                                             *)
(***************************************************************************)
EnsureTasks(h) ==
  /\ handling[h].at = "tasking"
  /\ incident' = WithTasks(incident)
  /\ handling' = [ handling EXCEPT ![h] =
       [ at |-> "preserving", message |-> handling[h].message,
         open |-> WithTasks(incident).dispatch = "REQUESTED" ] ]
  /\ UNCHANGED << done, used, reading, crashes, relapsed >>

Preserve(h) ==
  /\ handling[h].at = "preserving"
  /\ incident' = Preserved(incident)
  /\ IF handling[h].open THEN Continue(h, "dispatching") ELSE Ack(h)
  /\ UNCHANGED << used, reading, crashes, relapsed >>

\* A handoff another handler has made converges; one that has already been
\* acknowledged is refused, and the message comes back.
Dispatch(h) ==
  /\ handling[h].at = "dispatching"
  /\ Allows(incident.mode, {})
  /\ incident' = HandedOff(incident)
  /\ IF HandedOff(incident).dispatch = "DELIVERED" THEN Ack(h) ELSE GiveBack(h)
  /\ UNCHANGED << used, reading, crashes, relapsed >>

\* A handler fails anywhere, or dies: the message is delivered again later.
FailHandler(h) ==
  /\ handling[h] # Free
  /\ crashes < MaxCrashes
  /\ crashes' = crashes + 1
  /\ GiveBack(h)
  /\ UNCHANGED << incident, used, reading, relapsed >>

(***************************************************************************)
(* People.  An acknowledgement is written where the dispatch was DELIVERED *)
(* when its transaction looked; the write itself does not compare again.   *)
(***************************************************************************)
LookAtDispatch(o) ==
  /\ incident # NoIncident
  /\ incident.dispatch = "DELIVERED"
  /\ o \notin reading
  /\ reading' = reading \cup { o }
  /\ UNCHANGED << incident, used, done, handling, crashes, relapsed >>

Acknowledge(o) ==
  /\ o \in reading
  /\ reading' = reading \ { o }
  /\ incident' = [ incident EXCEPT !.dispatch = "ACKNOWLEDGED", !.acker = o ]
  /\ UNCHANGED << used, done, handling, crashes, relapsed >>

\* open, contained, closed, compared with the status read.
MoveStatus ==
  /\ incident # NoIncident
  /\ NextStatus(incident.status) # incident.status
  /\ incident' = [ incident EXCEPT !.status = NextStatus(@) ]
  /\ UNCHANGED << used, done, handling, reading, crashes, relapsed >>

HandlerStep(h) ==
  \/ \E m \in published : Take(h, m)
  \/ CreateFromCandidate(h) \/ CatchUp(h) \/ HandleUpdate(h)
  \/ EnsureTasks(h) \/ Preserve(h) \/ Dispatch(h)

ResponseNext ==
  \/ \E h \in Handlers : HandlerStep(h) \/ FailHandler(h)
  \/ \E o \in Operatives : LookAtDispatch(o) \/ Acknowledge(o)
  \/ MoveStatus

Init == FusionInit /\ ResponseInit

Next ==
  \/ FusionNext /\ UNCHANGED responseVars
  \/ ResponseNext /\ UNCHANGED fusionVars

Spec == Init /\ [][Next]_vars

\* The loops keep running, so does the backlog.
FairSpec ==
  /\ Spec
  /\ WF_vars(FusionNext /\ UNCHANGED responseVars)
  /\ \A h \in Handlers : WF_vars(HandlerStep(h) /\ UNCHANGED fusionVars)

-----------------------------------------------------------------------------

\* Nothing is left to deliver and nobody is at work.
Quiet ==
  /\ \A h \in Handlers : handling[h] = Free
  /\ \A p \in Replicas : work[p] = AtRest
  /\ \A m \in published : m \in done \/ used[m] = Deliveries

SpentMessages == { m \in published \ done : used[m] = Deliveries }

\* The incident never goes back to an older assessment, and what it says of
\* the severity only changes with a newer one, however the two consumers and
\* their redeliveries interleave (incidents.repository.ts 219).
NeverOutdated ==
  [][ incident # NoIncident =>
        /\ incident'.version >= incident.version
        /\ incident'.critical # incident.critical =>
             incident'.version > incident.version ]_vars

\* The dispatch moves forward only: a playbook run again after a crash never
\* hands off what has been handed off, nor undoes an acknowledgement
\* (incidents.repository.ts 316).
DispatchMovesForward ==
  [][ incident # NoIncident =>
        << incident.dispatch, incident'.dispatch >> \in
          { << "ABSENT", "REQUESTED" >>, << "REQUESTED", "DELIVERED" >>,
            << "DELIVERED", "ACKNOWLEDGED" >> }
          \cup { << d, d >> : d \in DeliveryStates } ]_vars

\* Once everything has been handled and no message was given up, an incident
\* that has stayed critical since its playbook began has had its snapshot
\* taken and its dispatch delivered, whichever handler died on the way
\* (incidents.service.ts 264-273).
CriticalIsAnswered ==
  /\ Quiet /\ SpentMessages = {}
  /\ incident # NoIncident /\ incident.critical /\ ~ relapsed
  => Finished(incident)

\* An incident opened below critical is brought to the hypothesis's latest
\* version even if every update was given up before it existed
\* (incidents.service.ts 84-88).
LateCandidateCatchesUp ==
  /\ Quiet /\ crashes = 0 /\ losses = 0
  /\ incident # NoIncident
  /\ \A m \in published : m.kind = "candidate" => ~ m.critical
  => incident.version = hypothesis.version

\* A fast replay may deliver every later update before the candidate creates
\* its incident, so the candidate reads the authoritative row
\* (incidents.service.ts 85-88): the incident ends at the latest version.
IncidentIsCurrent ==
  Quiet /\ crashes = 0 /\ losses = 0 /\ incident # NoIncident
  => incident.version = hypothesis.version
=============================================================================
