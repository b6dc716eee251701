-------------------------------- MODULE Patrol --------------------------------
(***************************************************************************)
(* A patrol: a route with its versions, one run of it, the run's           *)
(* checkpoints, and everyone who moves them (patrol.repository.ts,         *)
(* patrol-missed.sweeper.ts, the rules of contracts field.ts).             *)
(*                                                                         *)
(* Each operation is a transaction that locks its rows one after another,  *)
(* in the order the repository states, and decides under all of them; the  *)
(* database clock is read then.  What an assignment's status was is read   *)
(* when its row is locked.  Early answers, which release sooner, are taken *)
(* at the same point.  The missed sweep reads its candidates outside any   *)
(* transaction, by the server's clock, and judges each one in its own.     *)
(***************************************************************************)
EXTENDS Integers, Sequences, FiniteSets, SequencesExt

CONSTANTS
  Desks,            \* requests being served
  Sweeper,          \* the missed sweep of the process
  AssignmentRows,   \* the operative's assignments for the incident, by id
  Definitions,      \* per route version: the checkpoints' window offsets
  Keys,             \* idempotency keys
  SweepLimit,       \* candidates per sweep
  MaxFailedSweeps,  \* bound on sweeps that are rolled back
  AppAhead,         \* how far the server's clock runs ahead of the database's
  MaxTime           \* bound on the clock

VARIABLES
  now,
  route,            \* current version and the key of each version, or NoRoute
  run,              \* the run, or NoRun
  checkpoints,      \* the run's checkpoints, by sequence number
  verifications,    \* established verifications
  actions,          \* run actions recorded under their keys
  dutyStatus,       \* per assignment row: its status
  tx,               \* per process: its transaction
  owner,            \* per row: who holds its lock
  backlog,          \* candidates the sweep still has to judge
  failed            \* sweeps rolled back so far

patrolVars == << now, route, run, checkpoints, verifications, actions, dutyStatus,
           tx, owner, backlog, failed >>

Processes == Desks \cup { Sweeper }

NoRoute == [ version |-> 0, keys |-> <<>> ]
NoRun   == [ status |-> "NONE" ]
NoOne   == "no one"
Idle    == [ op |-> "none" ]

RouteRow == << "route" >>
RunRow   == << "run" >>
Checkpoint(s) == << "checkpoint", s >>
\* The sequence numbers of every version's checkpoints.
Stops == UNION { DOMAIN Definitions[v] : v \in DOMAIN Definitions }

Rows == { RouteRow, RunRow } \cup { Checkpoint(s) : s \in Stops }
          \cup ToSet(AssignmentRows)

\* CheckpointDefinitionInput: offsets are not negative and in order
\* (patrol.service.ts 55-72).  The assignments are rows of their own, each once.
Window == { w \in [ open: Nat, late: Nat, missed: Nat ] :
              w.open <= w.late /\ w.late <= w.missed }

ASSUME PatrolAssumption ==
  /\ Definitions \in Seq(Seq(Window)) /\ Len(Definitions) > 0
  /\ Sweeper \notin Desks /\ NoOne \notin Processes
  /\ AssignmentRows \in Seq(ToSet(AssignmentRows))
  /\ \A i, j \in DOMAIN AssignmentRows : AssignmentRows[i] = AssignmentRows[j] => i = j
  /\ ToSet(AssignmentRows) \cap ({ RouteRow, RunRow } \cup { Checkpoint(s) : s \in Stops }) = {}
  /\ SweepLimit \in Nat \ {0} /\ AppAhead \in Nat
  /\ MaxFailedSweeps \in Nat /\ MaxTime \in Nat

RouteVersion == [ version: 0 .. Len(Definitions), keys: Seq(Keys) ]

RunRecord ==
  [ status: { "SCHEDULED", "IN_PROGRESS", "COMPLETED", "CANCELLED", "ABANDONED" },
    version: DOMAIN Definitions, started: 0 .. MaxTime, ended: 0 .. MaxTime,
    reason: BOOLEAN ]

CheckpointRow ==
  [ state: { "PENDING", "VERIFIED", "LATE", "MISSED", "CANCELLED" },
    opens: Nat, late: Nat, missed: Nat ]

VerificationRow ==
  [ at: Nat \ {0}, key: Keys, source: BOOLEAN, recorded: 0 .. MaxTime ]

\* Every row is one the tables accept (patrol.repository.ts 60-126).
PatrolTypeOK ==
  /\ now \in 0 .. MaxTime
  /\ route \in RouteVersion /\ Len(route.keys) = route.version
  /\ run \in RunRecord \cup { NoRun }
  /\ checkpoints \in Seq(CheckpointRow)
  /\ verifications \subseteq VerificationRow
  /\ actions \subseteq { "start", "cancel", "abandon" } \X Keys
  /\ dutyStatus \in [ ToSet(AssignmentRows) ->
       { "REQUESTED", "ACCEPTED", "DECLINED", "IN_PROGRESS", "COMPLETED", "CANCELLED",
         "EXPIRED" } ]
  /\ owner \in [ Rows -> Processes \cup { NoOne } ]
  /\ failed \in 0 .. MaxFailedSweeps

PatrolInit ==
  /\ now           = 0
  /\ route         = NoRoute
  /\ run           = NoRun
  /\ checkpoints   = <<>>
  /\ verifications = {}
  /\ actions       = {}
  /\ dutyStatus    = [ a \in ToSet(AssignmentRows) |-> "REQUESTED" ]
  /\ tx            = [ p \in Processes |-> Idle ]
  /\ owner         = [ row \in Rows |-> NoOne ]
  /\ backlog       = <<>>
  /\ failed        = 0

(***************************************************************************)
(* Transactions and their locks.                                           *)
(***************************************************************************)
\* Slip: the sweep and the verification meet from two sides.
CheckpointFirst(ask) ==
  CASE ask.op = "create" -> <<>>
    [] ask.op = "publish" -> << RouteRow >>
    [] ask.op = "schedule" -> << RouteRow >> \o AssignmentRows
    [] ask.op = "start" -> << RunRow >> \o AssignmentRows
    [] ask.op = "verify" -> << RunRow >> \o AssignmentRows \o << Checkpoint(ask.at) >>
    [] ask.op = "sweep" -> << Checkpoint(ask.at), RunRow >>
    [] ask.op \in { "cancel", "abandon" } -> << RunRow >>
    [] ask.op = "move" -> << ask.row >>

\* An abandonment also comes to lock the checkpoints it settles, always under
\* the lock of the run, which whoever else wants one of them has to hold.
LockOrder(ask) ==
  CASE ask.op = "create" -> <<>>
    [] ask.op = "publish" -> << RouteRow >>
    [] ask.op = "schedule" -> << RouteRow >> \o AssignmentRows
    [] ask.op = "start" -> << RunRow >> \o AssignmentRows
    [] ask.op = "verify" -> << RunRow >> \o AssignmentRows \o << Checkpoint(ask.at) >>
    [] ask.op = "sweep" -> << RunRow, Checkpoint(ask.at) >>
    [] ask.op \in { "cancel", "abandon" } -> << RunRow >>
    [] ask.op = "move" -> << ask.row >>

AllowsScheduling(status) == status \in { "REQUESTED", "ACCEPTED", "IN_PROGRESS" }
AllowsExecution(status)  == status \in { "ACCEPTED", "IN_PROGRESS" }

Allows(op, status) ==
  IF op = "schedule" THEN AllowsScheduling(status) ELSE AllowsExecution(status)

Begin(p, ask) ==
  /\ tx[p] = Idle
  /\ tx' = [ tx EXCEPT ![p] =
       [ op |-> ask.op, ask |-> ask, wants |-> LockOrder(ask), eligible |-> FALSE ] ]

\* Slip: assignment rows are read without being locked.
LocksRunsOnly(row) == row \notin ToSet(AssignmentRows)

Locks(row) == row \in Rows

Waiting(p) == tx[p] # Idle /\ tx[p].wants # <<>>

Acquire(p) ==
  LET row == Head(tx[p].wants)
  IN  /\ Waiting(p)
      /\ Locks(row) => owner[row] = NoOne
      /\ owner' = IF Locks(row) THEN [ owner EXCEPT ![row] = p ] ELSE owner
      /\ tx' = [ tx EXCEPT ![p].wants = Tail(@),
                           ![p].eligible = @ \/ ( /\ row \in ToSet(AssignmentRows)
                                                  /\ Allows(tx[p].op, dutyStatus[row]) ) ]
      /\ UNCHANGED << now, route, run, checkpoints, verifications, actions,
                      dutyStatus, backlog, failed >>

Ready(p, op) == tx[p].op = op /\ tx[p].wants = <<>>

End(p) ==
  /\ tx'    = [ tx EXCEPT ![p] = Idle ]
  /\ owner' = [ row \in Rows |-> IF owner[row] = p THEN NoOne ELSE owner[row] ]

\* The transaction is rolled back, or the process dies under it; so ends a
\* start that finds its version not whole.  A failed sweep gives up its list.
Abort(p) ==
  /\ tx[p] # Idle
  /\ End(p)
  /\ IF p = Sweeper
     THEN failed < MaxFailedSweeps /\ failed' = failed + 1 /\ backlog' = <<>>
     ELSE UNCHANGED << failed, backlog >>
  /\ UNCHANGED << now, route, run, checkpoints, verifications, actions, dutyStatus >>

(***************************************************************************)
(* Routes: a version is never edited, and a key gives its version again.   *)
(***************************************************************************)
VersionUnder(key) == { v \in DOMAIN route.keys : route.keys[v] = key }

CreateRoute(p) ==
  /\ Ready(p, "create")
  /\ route' = IF route = NoRoute
              THEN [ version |-> 1, keys |-> << tx[p].ask.key >> ] ELSE route
  /\ End(p)
  /\ UNCHANGED << now, run, checkpoints, verifications, actions, dutyStatus, backlog, failed >>

PublishVersion(p) ==
  LET key == tx[p].ask.key
  IN  /\ Ready(p, "publish")
      /\ route' = IF route = NoRoute \/ VersionUnder(key) # {} THEN route
                  ELSE [ version |-> route.version + 1, keys |-> Append(route.keys, key) ]
      /\ route'.version <= Len(Definitions)
      /\ End(p)
      /\ UNCHANGED << now, run, checkpoints, verifications, actions, dutyStatus, backlog, failed >>

\* The version in force is pinned.  The run's creator and key are unique.
ScheduleRun(p) ==
  /\ Ready(p, "schedule")
  /\ run' = IF route = NoRoute \/ ~ tx[p].eligible \/ run # NoRun THEN run
            ELSE [ status |-> "SCHEDULED", version |-> route.version, started |-> 0,
                   ended |-> 0, reason |-> FALSE ]
  /\ End(p)
  /\ UNCHANGED << now, route, checkpoints, verifications, actions, dutyStatus, backlog, failed >>

(***************************************************************************)
(* The run.                                                                *)
(***************************************************************************)
Recorded(action, key) == << action, key >> \in actions

Materialised(definition, started) ==
  [ s \in DOMAIN definition |->
      [ state |-> "PENDING", opens |-> started + definition[s].open,
        late |-> started + definition[s].late,
        missed |-> started + definition[s].missed ] ]

StartOutcome(p) ==
  IF run = NoRun                            THEN "not_found"
  ELSE IF Recorded("start", tx[p].ask.key)  THEN "duplicate"
  ELSE IF run.status = "IN_PROGRESS"        THEN "noop"
  ELSE IF run.status # "SCHEDULED"          THEN "conflict"
  ELSE IF ~ tx[p].eligible                  THEN "assignment_not_active"
  ELSE "updated"

StartRun(p) ==
  /\ Ready(p, "start")
  /\ End(p)
  /\ IF StartOutcome(p) = "updated"
     THEN /\ run' = [ run EXCEPT !.status = "IN_PROGRESS", !.started = now ]
          /\ checkpoints' = Materialised(Definitions[run.version], now)
          /\ actions' = actions \cup { << "start", tx[p].ask.key >> }
     ELSE UNCHANGED << run, checkpoints, actions >>
  /\ UNCHANGED << now, route, verifications, dutyStatus, backlog, failed >>

CancelOutcome(p) ==
  IF run = NoRun                            THEN "not_found"
  ELSE IF Recorded("cancel", tx[p].ask.key) THEN "duplicate"
  ELSE IF run.status = "CANCELLED"          THEN "noop"
  ELSE IF run.status # "SCHEDULED"          THEN "conflict"
  ELSE "updated"

CancelRun(p) ==
  /\ Ready(p, "cancel")
  /\ End(p)
  /\ IF CancelOutcome(p) = "updated"
     THEN /\ run' = [ run EXCEPT !.status = "CANCELLED", !.ended = now ]
          /\ actions' = actions \cup { << "cancel", tx[p].ask.key >> }
     ELSE UNCHANGED << run, actions >>
  /\ UNCHANGED << now, route, checkpoints, verifications, dutyStatus, backlog, failed >>

Abandoned(row) ==
  IF row.state # "PENDING" THEN row.state
  ELSE IF now > row.missed THEN "MISSED" ELSE "CANCELLED"

AbandonOutcome(p) ==
  LET ask == tx[p].ask
  IN  IF run = NoRun THEN "not_found"
      ELSE IF Recorded("abandon", ask.key)
           THEN IF run.reason = ask.reason THEN "duplicate" ELSE "idempotency_conflict"
      ELSE IF run.status = "ABANDONED"   THEN "noop"
      ELSE IF run.status # "IN_PROGRESS" THEN "conflict"
      ELSE "updated"

AbandonRun(p) ==
  /\ Ready(p, "abandon")
  /\ End(p)
  /\ IF AbandonOutcome(p) = "updated"
     THEN /\ run' = [ run EXCEPT !.status = "ABANDONED", !.ended = now,
                             !.reason = tx[p].ask.reason ]
          /\ checkpoints' = [ s \in DOMAIN checkpoints |->
               [ checkpoints[s] EXCEPT !.state = Abandoned(checkpoints[s]) ] ]
          /\ actions' = actions \cup { << "abandon", tx[p].ask.key >> }
     ELSE UNCHANGED << run, checkpoints, actions >>
  /\ UNCHANGED << now, route, verifications, dutyStatus, backlog, failed >>

\* Slip: a checkpoint that was missed leaves the run open.
CompletedWhenVisited(rows) ==
  IF \A s \in DOMAIN rows : rows[s].state \in { "VERIFIED", "LATE" }
  THEN [ run EXCEPT !.status = "COMPLETED", !.ended = now ] ELSE run

\* Completion belongs to whichever transaction resolves the last checkpoint.
CompletedIfFinished(rows) ==
  IF \A s \in DOMAIN rows : rows[s].state \in { "VERIFIED", "LATE", "MISSED" }
  THEN [ run EXCEPT !.status = "COMPLETED", !.ended = now ] ELSE run

(***************************************************************************)
(* Verification.                                                           *)
(***************************************************************************)
Timing(row) ==
  CASE now < row.opens                       -> "too_early"
    [] now >= row.opens /\ now <= row.late   -> "VERIFIED"
    [] now > row.late /\ now <= row.missed   -> "LATE"
    [] now > row.missed                      -> "expired"

\* Slip: an earlier checkpoint that is overdue is taken as missed.
OverdueIsOver(s) ==
  \A q \in 1 .. s - 1 : checkpoints[q].state # "PENDING" \/ now > checkpoints[q].missed

CanVerifySequence(s) == \A q \in 1 .. s - 1 : checkpoints[q].state # "PENDING"

Established(s, key) ==
  { v \in verifications : v.at = s /\ v.key = key }

\* Slip: the run's status is looked at before the key.
JudgedByStatus(p) ==
  LET ask == tx[p].ask
      same == { v \in Established(ask.at, ask.key) : v.source = ask.source }
  IN  IF run = NoRun \/ ask.at \notin DOMAIN checkpoints THEN "not_found"
      ELSE IF run.status # "IN_PROGRESS" THEN "run_not_in_progress"
      ELSE IF Established(ask.at, ask.key) # {}
           THEN IF same # {} THEN "duplicate" ELSE "idempotency_conflict"
      ELSE IF ~ tx[p].eligible THEN "assignment_not_active"
      ELSE IF checkpoints[ask.at].state # "PENDING" THEN "already_resolved"
      ELSE IF ~ CanVerifySequence(ask.at) THEN "out_of_order"
      ELSE Timing(checkpoints[ask.at])

\* What a verification is answered: the first rule that applies, or its
\* timing, which is the resolution when it is VERIFIED or LATE.
Judged(p) ==
  LET ask == tx[p].ask
      same == { v \in Established(ask.at, ask.key) : v.source = ask.source }
  IN  IF run = NoRun \/ ask.at \notin DOMAIN checkpoints THEN "not_found"
      ELSE IF Established(ask.at, ask.key) # {}
           THEN IF same # {} THEN "duplicate" ELSE "idempotency_conflict"
      ELSE IF run.status # "IN_PROGRESS" THEN "run_not_in_progress"
      ELSE IF ~ tx[p].eligible THEN "assignment_not_active"
      ELSE IF checkpoints[ask.at].state # "PENDING" THEN "already_resolved"
      ELSE IF ~ CanVerifySequence(ask.at) THEN "out_of_order"
      ELSE Timing(checkpoints[ask.at])

VerifyCheckpoint(p) ==
  LET ask     == tx[p].ask
      outcome == Judged(p)
      rows    == [ checkpoints EXCEPT ![ask.at].state = outcome ]
  IN  /\ Ready(p, "verify")
      /\ End(p)
      /\ IF outcome \in { "VERIFIED", "LATE" }
         THEN /\ checkpoints' = rows
              /\ verifications' = verifications \cup
                   { [ at |-> ask.at, key |-> ask.key, source |-> ask.source,
                       recorded |-> now ] }
              /\ run' = CompletedIfFinished(rows)
         ELSE UNCHANGED << run, checkpoints, verifications >>
      /\ UNCHANGED << now, route, actions, dutyStatus, backlog, failed >>

(***************************************************************************)
(* The missed sweep.                                                       *)
(***************************************************************************)
\* Slip: the list is trusted.
MissedWhenListed(row) == row.state = "PENDING"

IsMissed(row) == row.state = "PENDING" /\ now > row.missed

FindCandidates ==
  LET due == { s \in DOMAIN checkpoints :
                 /\ checkpoints[s].state = "PENDING"
                 /\ checkpoints[s].missed < now + AppAhead }
  IN  /\ tx[Sweeper] = Idle /\ backlog = <<>>
      /\ run # NoRun /\ run.status = "IN_PROGRESS" /\ due # {}
      /\ \E listed \in SetToSeqs(due) :
           /\ \A i, j \in DOMAIN listed :
                i < j => checkpoints[listed[i]].missed <= checkpoints[listed[j]].missed
           /\ backlog' = SubSeq(listed, 1, IF Len(listed) < SweepLimit THEN Len(listed)
                                           ELSE SweepLimit)
      /\ UNCHANGED << now, route, run, checkpoints, verifications, actions,
                      dutyStatus, tx, owner, failed >>

TakeCandidate ==
  /\ backlog # <<>>
  /\ Begin(Sweeper, [ op |-> "sweep", at |-> Head(backlog) ])
  /\ backlog' = Tail(backlog)
  /\ UNCHANGED << now, route, run, checkpoints, verifications, actions,
                  dutyStatus, owner, failed >>

SweepMissed(p) ==
  LET s    == tx[p].ask.at
      rows == [ checkpoints EXCEPT ![s].state = "MISSED" ]
  IN  /\ Ready(p, "sweep")
      /\ IF run.status = "IN_PROGRESS" /\ IsMissed(checkpoints[s])
         THEN checkpoints' = rows /\ run' = CompletedIfFinished(rows)
         ELSE UNCHANGED << run, checkpoints >>
      /\ End(p)
      /\ UNCHANGED << now, route, verifications, actions, dutyStatus, backlog, failed >>

(***************************************************************************)
(* Field assignments move under their own row lock (field.repository.ts).  *)
(***************************************************************************)
AssignmentMoves ==
  [ REQUESTED   |-> { "ACCEPTED", "DECLINED", "CANCELLED", "EXPIRED" },
    ACCEPTED    |-> { "IN_PROGRESS", "CANCELLED", "EXPIRED" },
    IN_PROGRESS |-> { "COMPLETED", "CANCELLED" },
    DECLINED |-> {}, COMPLETED |-> {}, CANCELLED |-> {}, EXPIRED |-> {} ]

TransitionAssignment(p) ==
  LET ask == tx[p].ask
  IN  /\ Ready(p, "move")
      /\ dutyStatus' = IF ask.to \in AssignmentMoves[dutyStatus[ask.row]]
                       THEN [ dutyStatus EXCEPT ![ask.row] = ask.to ] ELSE dutyStatus
      /\ End(p)
      /\ UNCHANGED << now, route, run, checkpoints, verifications, actions, backlog, failed >>

-----------------------------------------------------------------------------

Asks ==
  { [ op |-> op, key |-> k ] : op \in { "create", "publish", "start", "cancel" }, k \in Keys }
  \cup { [ op |-> "schedule" ] }
  \cup { [ op |-> "abandon", key |-> k, reason |-> b ] : k \in Keys, b \in BOOLEAN }
  \cup { [ op |-> "verify", at |-> s, key |-> k, source |-> b ] :
           s \in Stops, k \in Keys, b \in BOOLEAN }
  \cup { [ op |-> "move", row |-> a, to |-> status ] :
           a \in ToSet(AssignmentRows), status \in DOMAIN AssignmentMoves }

Request(p, ask) ==
  /\ Begin(p, ask)
  /\ UNCHANGED << now, route, run, checkpoints, verifications, actions,
                  dutyStatus, owner, backlog, failed >>

Tick ==
  /\ now < MaxTime
  /\ now' = now + 1
  /\ UNCHANGED << route, run, checkpoints, verifications, actions, dutyStatus,
                  tx, owner, backlog, failed >>

Operate(p) ==
  \/ Acquire(p)
  \/ CreateRoute(p) \/ PublishVersion(p) \/ ScheduleRun(p)
  \/ StartRun(p) \/ CancelRun(p) \/ AbandonRun(p)
  \/ VerifyCheckpoint(p) \/ SweepMissed(p) \/ TransitionAssignment(p)

PatrolNext ==
  \/ \E p \in Desks : \E ask \in Asks : Request(p, ask)
  \/ \E p \in Processes : Operate(p) \/ Abort(p)
  \/ FindCandidates \/ TakeCandidate
  \/ Tick

PatrolSpec == PatrolInit /\ [][PatrolNext]_patrolVars

\* Time passes, the timer keeps sweeping, a transaction at a desk ends one way
\* or the other, and the sweep gets a lock that is free again and again.
\* Nobody has to ask for anything.
Fairness ==
  /\ WF_patrolVars(Tick) /\ WF_patrolVars(FindCandidates) /\ WF_patrolVars(TakeCandidate)
  /\ \A d \in Desks : WF_patrolVars(Operate(d) \/ Abort(d))
  /\ SF_patrolVars(Operate(Sweeper))

FairPatrol == PatrolSpec /\ Fairness

-----------------------------------------------------------------------------

\* However a verification, a sweep and an abandonment meet, a checkpoint has
\* one verdict and it is the one its own window calls for: VERIFIED or LATE
\* with one verification recorded in that part of the window, MISSED past its
\* deadline with none, CANCELLED only where the run was abandoned in time
\* (patrol.repository.ts 855-1061, field.ts 337-396).
OneVerdict ==
  \A s \in DOMAIN checkpoints :
    LET row     == checkpoints[s]
        visits  == { v \in verifications : v.at = s }
        at      == { v.recorded : v \in visits }
    IN  /\ Cardinality(visits) = (IF row.state \in { "VERIFIED", "LATE" } THEN 1 ELSE 0)
        /\ row.state = "VERIFIED" => \A t \in at : row.opens <= t /\ t <= row.late
        /\ row.state = "LATE" => \A t \in at : row.late < t /\ t <= row.missed
        /\ row.state = "MISSED" => row.missed < now
        /\ row.state = "CANCELLED" => run.status = "ABANDONED" /\ run.ended <= row.missed

\* A checkpoint is visited only when everything before it has been visited,
\* no later than it, or had run out (field.ts 506).
VisitedInOrder ==
  \A v \in verifications : \A q \in 1 .. v.at - 1 :
    \/ \E w \in verifications : w.at = q /\ w.recorded <= v.recorded
    \/ checkpoints[q].state = "MISSED" /\ checkpoints[q].missed <= v.recorded

\* A run is in progress exactly while something on it is outstanding: the
\* transaction that resolves the last checkpoint completes it, sweep or
\* verification (patrol.repository.ts 291-305, 512-535 of field.ts).
OpenWhileOutstanding ==
  /\ run.status = "IN_PROGRESS" <=>
       \E s \in DOMAIN checkpoints : checkpoints[s].state = "PENDING"
  /\ run.status = "COMPLETED" =>
       \A s \in DOMAIN checkpoints : checkpoints[s].state # "CANCELLED"

\* Nobody waits on somebody who waits on them: one lock order
\* (patrol.repository.ts 219-226).
NoCircularWait ==
  \A group \in (SUBSET { p \in Processes : Waiting(p) }) \ { {} } :
    \E p \in group : owner[Head(tx[p].wants)] \notin group

\* At the moment a verification is committed the operative holds an assignment
\* that can be worked on, whoever is ending it meanwhile
\* (patrol.repository.ts 238-246).
OnDuty ==
  [][ verifications' # verifications =>
        \E a \in ToSet(AssignmentRows) : AllowsExecution(dutyStatus[a]) ]_patrolVars

\* A request that has been established is answered as such for ever, whatever
\* has become of the run and the assignment (patrol.repository.ts 877-897).
EstablishedStaysEstablished ==
  \A p \in Desks :
    /\ Ready(p, "verify")
    /\ \E v \in Established(tx[p].ask.at, tx[p].ask.key) : v.source = tx[p].ask.source
    => Judged(p) = "duplicate"

\* A run whose deadlines have all passed is settled without anybody asking: the
\* clock stays at MaxTime, and again and again nothing is in progress then
\* (patrol-missed.sweeper.ts).
OverdueIsSettled == []<>(now = MaxTime => run.status # "IN_PROGRESS")
=============================================================================
