--------------------------- MODULE IncidentsProofs ---------------------------
(***************************************************************************)
(* Proofs about the parts MCIncidents puts side by side: fusion and the    *)
(* incident it feeds (IncidentResponse), taking events in and sending      *)
(* updates (Publication), and the evidence store (EvidenceStore).  They    *)
(* hold for any number of events, replicas, handlers, operatives, reports, *)
(* servers, rows and calls, whatever the bounds on failures are.           *)
(***************************************************************************)
EXTENDS IncidentResponse, Publication, EvidenceStore,
        FiniteSetTheorems, TLAPS

-----------------------------------------------------------------------------
(* Fusion *)

Moving == { e \in applied : SignalOf[e] # NoSignal }
Held   == { e \in Moving : SignalOf[e].trust # "quarantined" }

\* A replica computes from the row that was there when it last read; while the
\* version is still that one, so is the row.  What it has committed is no newer
\* than the row.
ComputesOn(p) ==
  LET w == work[p] IN
  /\ w.at = "computing" =>
       /\ SignalOf[w.event] # NoSignal
       /\ w.read.version <= hypothesis.version
       /\ w.read.version = hypothesis.version => w.read = hypothesis
  /\ w.at = "committed" => w.row.version \in 1 .. hypothesis.version

FusionInv ==
  /\ FusionTypeOK /\ EverySignalCounted
  /\ \A p \in Replicas : ComputesOn(p)

Computing == [ at : { "computing" }, event : Events, read : HypothesisRow, tries : 1 .. ApplyAttempts ]

Committed == [ at : { "committed" }, event : Events, row : HypothesisRow, emit : BOOLEAN ]

---------------------------------------------------------------------------

LEMMA WorkKinds ==
  ASSUME NEW w \in Work
  PROVE  /\ w.at = "rest" <=> w = AtRest
         /\ w.at = "computing" <=> w \in Computing
         /\ w.at = "committed" <=> w \in Committed
         /\ w.at \in {"rest", "computing", "committed"}
  BY DEF Work, AtRest, Computing, Committed

\* Whatever the signals add up to, the state is one of the six.
LEMMA StateInRange ==
  ASSUME NEW state \in 0 .. 5, NEW signals
  PROVE  StateAfter(state, signals) \in 0 .. 5
<1>1. StateFromProbability(signals) \in 0 .. 4
  BY DEF StateFromProbability
<1>2. DiversityCeiling(signals) \in 0 .. 4
  BY DEF DiversityCeiling
<1>3. Lesser(StateFromProbability(signals), DiversityCeiling(signals)) \in 0 .. 4
  BY <1>1, <1>2 DEF Lesser
<1>4. ASSUME NEW capped \in 0 .. 4
      PROVE  Lesser(capped, Greater(0, state - 1)) \in 0 .. 5
  BY DEF Lesser, Greater
<1> QED BY <1>3, <1>4 DEF StateAfter

LEMMA RowAfterFacts ==
  ASSUME NEW row \in HypothesisRow, NEW e \in Events
  PROVE  /\ RowAfter(row, e) \in HypothesisRow
         /\ RowAfter(row, e).version = row.version + 1
         /\ RowAfter(row, e).signals = IF SignalOf[e].trust = "quarantined" THEN row.signals
                                       ELSE Append(row.signals, e)
<1> DEFINE state == NextState(row, e)
           latch == DecideLatch(row, state)
           emissions == row.emissions + (IF latch.emit THEN 1 ELSE 0)
           high == row.high \/ (SignalOf[e].trust # "quarantined" /\ SignalOf[e].high)
           signals == IF SignalOf[e].trust = "quarantined" THEN row.signals ELSE Append(row.signals, e)
<1>1. /\ row.version \in Nat /\ row.state \in 0 .. 5 /\ row.signals \in Seq(Events)
      /\ row.latched \in BOOLEAN /\ row.deEscalated \in BOOLEAN /\ row.emissions \in Nat /\ row.high \in BOOLEAN
  BY DEF HypothesisRow
<1>2. state \in 0 .. 5
  BY <1>1, StateInRange DEF NextState
<1>3. latch.latched \in BOOLEAN /\ latch.deEscalated \in BOOLEAN
  BY <1>1 DEF DecideLatch
<1>4. emissions \in Nat
  BY <1>1
<1>5. high \in BOOLEAN
  BY <1>1
<1>6. signals \in Seq(Events)
  BY <1>1
<1>7. RowAfter(row, e) =
        [ version |-> row.version + 1, state |-> state, signals |-> signals, high |-> high,
          latched |-> latch.latched, deEscalated |-> latch.deEscalated, emissions |-> emissions ]
  BY DEF RowAfter
<1> HIDE DEF state, latch, emissions, high
<1>8. RowAfter(row, e) \in HypothesisRow
  BY <1>1, <1>2, <1>3, <1>4, <1>5, <1>6, <1>7 DEF HypothesisRow
<1> QED BY <1>7, <1>8

\* What is applied is counted, one more at a time.
LEMMA CountedOneMore ==
  ASSUME NEW S \in SUBSET Events, NEW e \in Events, e \notin S
  PROVE  IsFiniteSet(S) /\ Cardinality(S) \in Nat /\ Cardinality(S \cup {e}) = Cardinality(S) + 1
BY FusionAssumption, FS_Subset, FS_AddElement, FS_CardinalityType

LEMMA SubsetCount ==
  ASSUME NEW S \in SUBSET Events
  PROVE  Cardinality(S) \in Nat /\ Cardinality(S) <= Cardinality(Events) /\ Cardinality(Events) \in Nat
BY FusionAssumption, FS_Subset, FS_CardinalityType

LEMMA CountedFacts ==
  /\ EverySignalCounted <=>
       /\ hypothesis.version = Cardinality(Moving)
       /\ { hypothesis.signals[i] : i \in DOMAIN hypothesis.signals } = Held
       /\ Len(hypothesis.signals) = Cardinality(Held)
  /\ FusionTypeOK => Moving \subseteq Events /\ Held \subseteq Events
  BY DEF EverySignalCounted, Moving, Held, FusionTypeOK

LEMMA RangeAfterAppend ==
  ASSUME NEW q \in Seq(Events), NEW e \in Events
  PROVE  /\ { Append(q, e)[i] : i \in DOMAIN Append(q, e) } = { q[i] : i \in DOMAIN q } \cup {e}
         /\ Len(Append(q, e)) = Len(q) + 1
<1>1. /\ DOMAIN q = 1 .. Len(q) /\ DOMAIN Append(q, e) = 1 .. Len(q) + 1 /\ Len(q) \in Nat
      /\ \A i \in 1 .. Len(q) : Append(q, e)[i] = q[i]
      /\ Append(q, e)[Len(q) + 1] = e /\ Len(Append(q, e)) = Len(q) + 1
  OBVIOUS
<1>2. \A i \in 1 .. Len(q) + 1 : i \in 1 .. Len(q) \/ i = Len(q) + 1
  BY <1>1
<1>3. \A i \in 1 .. Len(q) : i \in 1 .. Len(q) + 1
  BY <1>1
<1>4. Len(q) + 1 \in 1 .. Len(q) + 1
  BY <1>1
<1> QED BY <1>1, <1>2, <1>3, <1>4, Zenon

LEMMA FusionInvInit == FusionInit => FusionInv
<1> SUFFICES ASSUME FusionInit PROVE FusionInv
  OBVIOUS
<1>1. Unformed \in HypothesisRow
  BY DEF Unformed, HypothesisRow
<1>2. FusionTypeOK
  BY <1>1, FusionAssumption DEF FusionInit, FusionTypeOK, Work
<1>3. Moving = {} /\ Held = {} /\ Cardinality({}) = 0
  BY FS_EmptySet DEF FusionInit, Moving, Held
<1>4. /\ hypothesis.version = 0 /\ hypothesis.signals = << >>
  BY DEF FusionInit, Unformed
<1>5. EverySignalCounted
  BY <1>3, <1>4, CountedFacts
<1>6. \A p \in Replicas : ComputesOn(p)
  BY DEF FusionInit, ComputesOn, AtRest
<1> QED BY <1>2, <1>5, <1>6 DEF FusionInv

\* One replica moves on, the row and the applied events stay.
LEMMA ReplicaMoves ==
  ASSUME FusionInv, NEW p \in Replicas, NEW w \in Work, work' = [ work EXCEPT ![p] = w ],
         hypothesis' = hypothesis, trail' = trail,
         Moving' = Moving, Held' = Held, applied' \subseteq Events, settled' \subseteq Events,
         deliveries' \in [ Events -> 0 .. EventDeliveries ], losses' \in 0 .. MaxLosses,
         published' \subseteq FusionMessages,
         w.at = "computing" => /\ SignalOf[w.event] # NoSignal
                               /\ w.read.version <= hypothesis.version
                               /\ w.read.version = hypothesis.version => w.read = hypothesis,
         w.at # "committed"
  PROVE  FusionInv'
<1>1. /\ work' \in [ Replicas -> Work ] /\ work'[p] = w
      /\ \A q \in Replicas : q # p => work'[q] = work[q]
  BY DEF FusionInv, FusionTypeOK
<1>2. FusionTypeOK'
  BY <1>1 DEF FusionInv, FusionTypeOK
<1>3. EverySignalCounted'
  BY CountedFacts DEF FusionInv, EverySignalCounted, Moving, Held
<1>4. ASSUME NEW q \in Replicas PROVE ComputesOn(q)'
  <2>1. CASE q = p
    BY <1>1, <2>1 DEF ComputesOn
  <2>2. CASE q # p
    BY <1>1, <2>2 DEF FusionInv, ComputesOn
  <2> QED BY <2>1, <2>2
<1> QED BY <1>2, <1>3, <1>4 DEF FusionInv

LEMMA DeliverKeeps ==
  ASSUME FusionInv, NEW p \in Replicas, NEW e \in Events, Deliver(p, e)
  PROVE  FusionInv'
<1>1. hypothesis \in HypothesisRow /\ hypothesis.version \in Nat /\ work \in [ Replicas -> Work ]
      /\ UNCHANGED << hypothesis, trail, published, losses >>
  BY DEF FusionInv, FusionTypeOK, HypothesisRow, Deliver
<1>2. deliveries' \in [ Events -> 0 .. EventDeliveries ]
  BY FusionAssumption DEF FusionInv, FusionTypeOK, Deliver
<1>3. CASE SignalOf[e] = NoSignal \/ e \in applied
  <2>1. work' = [ work EXCEPT ![p] = AtRest ] /\ AtRest \in Work /\ AtRest.at = "rest"
    BY <1>1, <1>3 DEF Deliver, Work, AtRest
  <2>2. Moving' = Moving /\ Held' = Held
    BY <1>3 DEF Deliver, Moving, Held
  <2>3. applied' \subseteq Events /\ settled' \subseteq Events
    BY <1>3 DEF Deliver, FusionInv, FusionTypeOK
  <2> QED BY <1>1, <1>2, <2>1, <2>2, <2>3, ReplicaMoves DEF FusionInv, FusionTypeOK
<1>4. CASE ~(SignalOf[e] = NoSignal \/ e \in applied)
  <2> DEFINE w == [ at |-> "computing", event |-> e, read |-> hypothesis, tries |-> 1 ]
  <2>1. w \in Work /\ w.at = "computing" /\ w.event = e /\ w.read = hypothesis
    BY <1>1, FusionAssumption DEF Work
  <2>2. work' = [ work EXCEPT ![p] = w ] /\ UNCHANGED << applied, settled >>
    BY <1>4 DEF Deliver
  <2>3. /\ Moving' = Moving /\ Held' = Held /\ applied' \subseteq Events /\ settled' \subseteq Events
        /\ losses' \in 0 .. MaxLosses /\ published' \subseteq FusionMessages
    BY <1>1, <2>2 DEF FusionInv, FusionTypeOK, Moving, Held
  <2>4. SignalOf[w.event] # NoSignal /\ w.read.version <= hypothesis.version /\ w.at # "committed"
    BY <1>1, <1>4, <2>1
  <2> HIDE DEF w
  <2> QED BY <1>1, <1>2, <2>1, <2>2, <2>3, <2>4, ReplicaMoves
<1> QED BY <1>3, <1>4

LEMMA CommitKeeps ==
  ASSUME FusionInv, NEW p \in Replicas, Commit(p)
  PROVE  FusionInv'
<1> DEFINE e == work[p].event
           read == work[p].read
           next == RowAfter(read, e)
<1>1. /\ work[p] \in Computing /\ e \in Events /\ read \in HypothesisRow /\ ComputesOn(p)
      /\ SignalOf[e] # NoSignal
  <2>1. work[p] \in Work /\ work[p].at = "computing" /\ ComputesOn(p)
    BY DEF FusionInv, FusionTypeOK, Commit
  <2> QED BY <2>1, WorkKinds DEF Computing, ComputesOn
<1>2. CASE e \in applied
  <2>1. work' = [ work EXCEPT ![p] = AtRest ] /\ AtRest \in Work /\ AtRest.at = "rest"
    BY <1>2 DEF Commit, Work, AtRest
  <2>2. settled' \subseteq Events /\ UNCHANGED << hypothesis, applied, trail, deliveries, published, losses >>
    BY <1>1, <1>2 DEF Commit, FusionInv, FusionTypeOK
  <2> QED BY <2>1, <2>2, ReplicaMoves DEF FusionInv, FusionTypeOK, Moving, Held
<1>3. CASE e \notin applied
  <2>1. /\ hypothesis' = next /\ applied' = applied \cup {e} /\ read = hypothesis
        /\ UNCHANGED << settled, deliveries, published, losses >>
    BY <1>1, <1>3 DEF Commit, VersionHolds, ComputesOn
  <2>2. /\ next \in HypothesisRow /\ next.version = hypothesis.version + 1
        /\ next.signals = IF SignalOf[e].trust = "quarantined" THEN hypothesis.signals
                          ELSE Append(hypothesis.signals, e)
        /\ hypothesis.version \in Nat /\ hypothesis.signals \in Seq(Events)
        /\ next.state \in 0 .. 5 /\ read.state \in 0 .. 5
    BY <1>1, <2>1, RowAfterFacts DEF HypothesisRow
  <2> DEFINE w == [ at |-> "committed", event |-> e, row |-> next,
                    emit |-> next.emissions > work[p].read.emissions ]
  <2>3. work' = [ work EXCEPT ![p] = w ]
    BY <1>3 DEF Commit
  <2>4. trail' \in Seq((0 .. 5) \X (0 .. 5))
    <3>1. trail \in Seq((0 .. 5) \X (0 .. 5)) /\ << read.state, next.state >> \in (0 .. 5) \X (0 .. 5)
      BY <2>2 DEF FusionInv, FusionTypeOK
    <3>2. trail' = trail \/ trail' = Append(trail, << read.state, next.state >>)
      BY <1>3 DEF Commit
    <3> HIDE DEF next, read, e
    <3>3. PICK pair \in (0 .. 5) \X (0 .. 5) : trail' = trail \/ trail' = Append(trail, pair)
      BY <3>1, <3>2
    <3> QED BY <3>1, <3>3
  <2> HIDE DEF next, e, read
  <2>5. w \in Work /\ w.at = "committed" /\ w.row = next
    BY <1>1, <2>2 DEF Work
  <2> HIDE DEF w
  <2>6. /\ work' \in [ Replicas -> Work ] /\ work'[p] = w
        /\ \A q \in Replicas : q # p => work'[q] = work[q]
    BY <2>3, <2>5 DEF FusionInv, FusionTypeOK
  <2>7. FusionTypeOK'
    BY <1>1, <2>1, <2>2, <2>4, <2>6 DEF FusionInv, FusionTypeOK
  <2>8. /\ Moving' = Moving \cup {e} /\ e \notin Moving /\ e \notin Held
        /\ Held' = IF SignalOf[e].trust = "quarantined" THEN Held ELSE Held \cup {e}
        /\ Moving \subseteq Events /\ Held \subseteq Events
    BY <1>1, <1>3, <2>1, CountedFacts DEF Moving, Held, FusionInv
  <2>9. EverySignalCounted'
    <3>1. /\ hypothesis.version = Cardinality(Moving)
          /\ { hypothesis.signals[i] : i \in DOMAIN hypothesis.signals } = Held
          /\ Len(hypothesis.signals) = Cardinality(Held)
      BY CountedFacts DEF FusionInv
    <3>2. hypothesis'.version = Cardinality(Moving')
      BY <1>1, <2>1, <2>2, <2>8, <3>1, CountedOneMore
    <3>3. /\ { hypothesis'.signals[i] : i \in DOMAIN hypothesis'.signals } = Held'
          /\ Len(hypothesis'.signals) = Cardinality(Held')
      <4>1. CASE SignalOf[e].trust = "quarantined"
        BY <2>1, <2>2, <2>8, <3>1, <4>1
      <4>2. CASE SignalOf[e].trust # "quarantined"
        <5>1. hypothesis'.signals = Append(hypothesis.signals, e) /\ Held' = Held \cup {e}
          BY <2>1, <2>2, <2>8, <4>2
        <5>2. Cardinality(Held \cup {e}) = Cardinality(Held) + 1
          BY <1>1, <2>8, CountedOneMore
        <5> DEFINE old == hypothesis.signals
                   new == hypothesis'.signals
        <5>3. /\ old \in Seq(Events) /\ new = Append(old, e) /\ e \in Events
              /\ { old[i] : i \in DOMAIN old } = Held /\ Len(old) = Cardinality(Held)
          BY <1>1, <2>2, <3>1, <5>1
        <5> HIDE DEF old, new
        <5>4. /\ { Append(old, e)[i] : i \in DOMAIN Append(old, e) } = { old[i] : i \in DOMAIN old } \cup {e}
              /\ Len(Append(old, e)) = Len(old) + 1
          BY <5>3, RangeAfterAppend
        <5>5. { new[i] : i \in DOMAIN new } = Held' /\ Len(new) = Cardinality(Held')
          BY <5>1, <5>2, <5>3, <5>4, Zenon
        <5> QED BY <5>5 DEF new
      <4> QED BY <4>1, <4>2
    <3> QED BY <3>2, <3>3 DEF EverySignalCounted, Moving, Held
  <2>10. ASSUME NEW q \in Replicas PROVE ComputesOn(q)'
    <3>1. CASE q = p
      BY <2>1, <2>2, <2>5, <2>6, <3>1 DEF ComputesOn
    <3>2. CASE q # p
      <4>1. work[q] \in Work /\ ComputesOn(q)
        BY DEF FusionInv, FusionTypeOK
      <4>2. /\ work[q].at = "computing" => work[q].read.version \in Nat
            /\ work[q].at = "committed" => work[q].row.version \in Nat
        BY <4>1, WorkKinds DEF Computing, Committed, HypothesisRow
      <4> QED BY <2>1, <2>2, <2>6, <3>2, <4>1, <4>2 DEF ComputesOn
    <3> QED BY <3>1, <3>2
  <2> QED BY <2>7, <2>9, <2>10 DEF FusionInv
<1> QED BY <1>2, <1>3

LEMMA ConflictKeeps ==
  ASSUME FusionInv, NEW p \in Replicas, Conflict(p)
  PROVE  FusionInv'
<1> DEFINE w == IF work[p].tries < ApplyAttempts
                THEN [ work[p] EXCEPT !.read = hypothesis, !.tries = @ + 1 ] ELSE AtRest
<1>1. work' = [ work EXCEPT ![p] = w ]
      /\ UNCHANGED << hypothesis, applied, trail, deliveries, settled, published, losses >>
  BY DEF Conflict
<1>2. work[p] \in Computing /\ ComputesOn(p) /\ hypothesis \in HypothesisRow
  <2>1. work[p] \in Work /\ work[p].at = "computing"
    BY DEF FusionInv, FusionTypeOK, Conflict
  <2> QED BY <2>1, WorkKinds DEF FusionInv, FusionTypeOK
<1>3. w \in Work /\ w.at # "committed"
      /\ (w.at = "computing" => w.event = work[p].event /\ w.read = hypothesis)
  <2>1. CASE work[p].tries < ApplyAttempts
    <3>1. work[p].tries + 1 \in 1 .. ApplyAttempts
      BY <1>2, <2>1, FusionAssumption DEF Computing
    <3>2. w = [ work[p] EXCEPT !.read = hypothesis, !.tries = work[p].tries + 1 ]
      BY <2>1
    <3>3. w \in Computing /\ w.event = work[p].event /\ w.read = hypothesis
      BY <1>2, <3>1, <3>2 DEF Computing
    <3> HIDE DEF w
    <3> QED BY <3>3 DEF Computing, Work
  <2>2. CASE ~ work[p].tries < ApplyAttempts
    BY <2>2 DEF Work, AtRest
  <2> QED BY <2>1, <2>2
<1>4. SignalOf[work[p].event] # NoSignal /\ hypothesis.version \in Nat
  BY <1>2 DEF ComputesOn, Computing, HypothesisRow
<1>5. /\ Moving' = Moving /\ Held' = Held /\ applied' \subseteq Events /\ settled' \subseteq Events
      /\ losses' \in 0 .. MaxLosses /\ published' \subseteq FusionMessages
      /\ deliveries' \in [ Events -> 0 .. EventDeliveries ]
  BY <1>1 DEF FusionInv, FusionTypeOK, Moving, Held
<1> HIDE DEF w
<1>6. w.at = "computing" => /\ SignalOf[w.event] # NoSignal
                            /\ w.read.version <= hypothesis.version
                            /\ w.read = hypothesis
  BY <1>3, <1>4
<1> QED BY <1>1, <1>3, <1>5, <1>6, ReplicaMoves

LEMMA PublishKeeps ==
  ASSUME FusionInv, NEW p \in Replicas, Publish(p)
  PROVE  FusionInv'
<1> DEFINE row == work[p].row
<1>1. work[p] \in Committed /\ row \in HypothesisRow /\ row.version \in 1 .. hypothesis.version
  <2>1. work[p] \in Work /\ work[p].at = "committed" /\ ComputesOn(p)
    BY DEF FusionInv, FusionTypeOK, Publish
  <2> QED BY <2>1, WorkKinds DEF ComputesOn, Committed
<1>2. row.version \in 1 .. Cardinality(Events)
  BY <1>1, CountedFacts, SubsetCount DEF FusionInv
<1>3. Update(row) \in FusionMessages /\ Candidate(row) \in FusionMessages
  BY <1>2 DEF Update, Candidate, FusionMessages, Critical
<1>4. published' \subseteq FusionMessages /\ losses' \in 0 .. MaxLosses
  BY <1>3, FusionAssumption DEF Publish, FusionInv, FusionTypeOK
<1>5. /\ work' = [ work EXCEPT ![p] = AtRest ] /\ AtRest \in Work /\ AtRest.at = "rest"
      /\ settled' \subseteq Events /\ UNCHANGED << hypothesis, applied, trail, deliveries >>
  BY <1>1 DEF Publish, FusionInv, FusionTypeOK, Work, AtRest, Committed
<1> QED BY <1>4, <1>5, ReplicaMoves DEF FusionInv, FusionTypeOK, Moving, Held

LEMMA CrashKeepsFusion ==
  ASSUME FusionInv, NEW p \in Replicas, CrashReplica(p)
  PROVE  FusionInv'
<1>1. /\ work' = [ work EXCEPT ![p] = AtRest ] /\ AtRest \in Work /\ AtRest.at = "rest"
      /\ losses' \in 0 .. MaxLosses
      /\ UNCHANGED << hypothesis, applied, trail, deliveries, settled, published >>
  BY FusionAssumption DEF CrashReplica, FusionInv, FusionTypeOK, Work, AtRest
<1> QED BY <1>1, ReplicaMoves DEF FusionInv, FusionTypeOK, Moving, Held

LEMMA FusionInvNext == FusionInv /\ (FusionNext \/ UNCHANGED fusionVars) => FusionInv'
<1>1. ASSUME FusionInv, UNCHANGED fusionVars PROVE FusionInv'
  BY <1>1 DEF fusionVars, FusionInv, FusionTypeOK, EverySignalCounted, ComputesOn
<1> QED BY <1>1, DeliverKeeps, CommitKeeps, ConflictKeeps, PublishKeeps, CrashKeepsFusion DEF FusionNext

(* The response *)

Delivered(row) == row.dispatch \in { "DELIVERED", "ACKNOWLEDGED" }

\* What a handler that has come so far has left behind in the incident.
MayBe(w, row) ==
  /\ w.at \in { "candidate", "catching up" } => w.message.kind = "candidate"
  /\ w.at = "update" => w.message.kind = "update"
  /\ w.at \in { "catching up", "tasking", "preserving", "dispatching" } => row # NoIncident
  /\ w.at \in { "preserving", "dispatching" } => row.dispatch # "ABSENT"
  /\ w.at = "preserving" /\ ~ w.open => Delivered(row)
  /\ w.at = "dispatching" => row.snapshot = "DONE"

Holds(h) ==
  handling[h].at # "free" => /\ handling[h].message \in published
                             /\ handling[h].message \notin done

OneHandlerEach ==
  \A g, h \in Handlers : g # h /\ handling[g].at # "free" /\ handling[h].at # "free"
                           => handling[g].message # handling[h].message

\* A playbook that was started and is no longer called for has finished, or the
\* incident relapsed.
StartedAndCalm ==
  incident # NoIncident /\ incident.started /\ ~ incident.critical => relapsed \/ Finished(incident)

ReadersSawIt == reading # {} => incident # NoIncident /\ Delivered(incident)

Owed == incident # NoIncident /\ incident.critical /\ ~ relapsed /\ ~ Finished(incident)

\* A message that will run the playbook when it is handled: a candidate that is
\* not about to be finished, or an update that is not newer than the incident.
Carries(m) ==
  /\ \A h \in Handlers : handling[h].at = "catching up" => handling[h].message # m
  /\ \/ m.kind = "candidate"
     \/ m.kind = "update" /\ incident.started /\ m.version <= incident.version

OwedIsCarried == Owed => \E m \in published \ done : Carries(m)

ResponseTypes ==
  /\ incident \in Incidents(Operatives) \cup { NoIncident }
  /\ used \in [ Messages -> 0 .. Deliveries ]
  /\ done \subseteq published /\ published \subseteq Messages
  /\ handling \in [ Handlers -> Handling ]
  /\ crashes \in 0 .. MaxCrashes /\ relapsed \in BOOLEAN

ResponseInv ==
  /\ ResponseTypes
  /\ \A h \in Handlers : Holds(h) /\ MayBe(handling[h], incident)
  /\ OneHandlerEach /\ StartedAndCalm /\ ReadersSawIt /\ OwedIsCarried

\* What no step takes from an incident.
Kept(row, new) ==
  row # NoIncident =>
    /\ new # NoIncident
    /\ row.dispatch # "ABSENT" => new.dispatch # "ABSENT"
    /\ Delivered(row) => Delivered(new)
    /\ row.snapshot = "DONE" /\ row.dispatch # "ABSENT" => new.snapshot = "DONE"

LEMMA HandlingKinds ==
  ASSUME NEW w \in Handling
  PROVE  /\ w.at = "free" <=> w = Free
         /\ w.at \in { "candidate", "update", "catching up", "tasking" } <=>
              w \in [ at : { "candidate", "update", "catching up", "tasking" }, message : Messages ]
         /\ w.at \in { "preserving", "dispatching" } <=>
              w \in [ at : { "preserving", "dispatching" }, message : Messages, open : BOOLEAN ]
         /\ w.at \in { "free", "candidate", "update", "catching up", "tasking", "preserving", "dispatching" }
<1> DEFINE Early == [ at : { "candidate", "update", "catching up", "tasking" }, message : Messages ]
           Late  == [ at : { "preserving", "dispatching" }, message : Messages, open : BOOLEAN ]
<1>1. w = Free \/ w \in Early \/ w \in Late
  BY DEF Handling
<1>2. Free.at = "free"
  BY DEF Free
<1>3. w \in Early => w.at \in { "candidate", "update", "catching up", "tasking" }
  OBVIOUS
<1>4. w \in Late => w.at \in { "preserving", "dispatching" }
  OBVIOUS
<1> HIDE DEF Early, Late
<1>5. /\ w.at = "free" <=> w = Free
      /\ w.at \in { "candidate", "update", "catching up", "tasking" } <=> w \in Early
      /\ w.at \in { "preserving", "dispatching" } <=> w \in Late
      /\ w.at \in { "free", "candidate", "update", "catching up", "tasking", "preserving", "dispatching" }
  BY <1>1, <1>2, <1>3, <1>4
<1> QED BY <1>5 DEF Early, Late

LEMMA MessageFacts ==
  ASSUME NEW m \in Messages
  PROVE  /\ m.kind \in { "candidate", "update" } /\ m.version \in Nat /\ m.critical \in BOOLEAN
  BY FusionAssumption, FS_CardinalityType DEF Messages, FusionMessages

LEMMA MayBeKept ==
  ASSUME NEW w, NEW row, NEW new, MayBe(w, row), Kept(row, new)
  PROVE  MayBe(w, new)
  BY DEF MayBe, Kept

\* One handler moves on, and the incident with it.
LEMMA HandlerMoves ==
  ASSUME ResponseInv, NEW h \in Handlers, NEW w \in Handling, handling' = [ handling EXCEPT ![h] = w ],
         \/ done' = done
         \/ /\ w = Free /\ handling[h].at # "free"
            /\ done' = done \cup { handling[h].message },
         w.at # "free" => /\ w.message \in published /\ w.message \notin done
                          /\ \A g \in Handlers : g # h /\ handling[g].at # "free"
                                                 => handling[g].message # w.message,
         incident' \in Incidents(Operatives) \cup { NoIncident }, Kept(incident, incident'),
         MayBe(w, incident'), published' = published, reading' = reading,
         used' \in [ Messages -> 0 .. Deliveries ], crashes' \in 0 .. MaxCrashes, relapsed' \in BOOLEAN,
         StartedAndCalm', OwedIsCarried'
  PROVE  ResponseInv'
<1>1. /\ handling' \in [ Handlers -> Handling ] /\ handling'[h] = w
      /\ \A g \in Handlers : g # h => handling'[g] = handling[g]
  BY DEF ResponseInv, ResponseTypes
<1>2. handling[h].at # "free" => handling[h].message \in published
  BY DEF ResponseInv, Holds
<1>3. ResponseTypes'
  BY <1>1, <1>2 DEF ResponseInv, ResponseTypes
<1>4. Free.at = "free"
  BY DEF Free
<1>5. ASSUME NEW g \in Handlers PROVE Holds(g)' /\ MayBe(handling[g], incident)'
  <2>1. CASE g = h
    BY <1>1, <1>4, <2>1 DEF Holds
  <2>2. CASE g # h
    <3>1. MayBe(handling[g], incident) /\ Holds(g) /\ handling'[g] = handling[g]
      BY <1>1, <2>2 DEF ResponseInv
    <3>2. MayBe(handling'[g], incident')
      BY <3>1, MayBeKept
    <3>3. handling[g].at # "free" /\ handling[h].at # "free" => handling[g].message # handling[h].message
      BY <2>2 DEF ResponseInv, OneHandlerEach
    <3>4. Holds(g)'
      BY <3>1, <3>3 DEF Holds
    <3> QED BY <3>2, <3>4
  <2> QED BY <2>1, <2>2
<1>6. OneHandlerEach'
  BY <1>1 DEF ResponseInv, OneHandlerEach
<1>7. ReadersSawIt'
  BY DEF ResponseInv, ReadersSawIt, Kept
<1> QED BY <1>3, <1>5, <1>6, <1>7 DEF ResponseInv

LEMMA SameBoolean == \A a, b \in BOOLEAN : a = b => (a <=> b)
OBVIOUS

LEMMA LessFacts == \A a, b \in Nat : a <= a /\ (a < b => a <= b /\ ~ (b <= a))
OBVIOUS

LEMMA AtMostTransitive == \A a, b, c \in Nat : a <= b /\ b <= c => a <= c
OBVIOUS

\* What was owed before is still carried, by the same message.
LEMMA OwedStays ==
  ASSUME OwedIsCarried, Owed' => Owed, published \subseteq published',
         NEW h \in Handlers, NEW w, handling \in [ Handlers -> Handling ],
         handling' = [ handling EXCEPT ![h] = w ],
         Owed' => /\ w.at # "catching up"
                  /\ incident.started => incident'.started
                  /\ incident.version \in Nat /\ incident'.version \in Nat
                  /\ incident.version <= incident'.version
                  /\ \A m \in published \ done : m.kind = "update" => m.version \in Nat
                  /\ \A m \in published \ done : Carries(m) => m \notin done'
  PROVE  OwedIsCarried'
<1> SUFFICES ASSUME Owed' PROVE \E m \in published' \ done' : Carries(m)'
  BY DEF OwedIsCarried
<1>1. PICK m \in published \ done : Carries(m)
  BY DEF OwedIsCarried
<1>2. m \in published' \ done'
  BY <1>1
<1>3. \A g \in Handlers : handling'[g].at = "catching up" => handling[g] = handling'[g]
  OBVIOUS
<1>4. m.kind = "update" /\ incident.started /\ m.version <= incident.version
      => incident'.started /\ m.version <= incident'.version
  <2>1. /\ incident.started => incident'.started
        /\ incident.version \in Nat /\ incident'.version \in Nat
        /\ incident.version <= incident'.version
        /\ m.kind = "update" => m.version \in Nat
    BY <1>1
  <2> QED BY <2>1, AtMostTransitive, Zenon
<1>5. Carries(m)'
  BY <1>1, <1>3, <1>4 DEF Carries
<1> QED BY <1>2, <1>5

(* The functions on the incident *)

LEMMA AnIncident == \A row \in Incidents(Operatives) : row # NoIncident
BY DEF Incidents, Modes, NoIncident

LEMMA WithTasksFacts ==
  ASSUME NEW row \in Incidents(Operatives)
  PROVE  LET new == WithTasks(row) IN
         /\ new \in Incidents(Operatives) /\ Kept(row, new) /\ new.dispatch # "ABSENT"
         /\ new.version = row.version /\ new.critical = row.critical /\ new.started = row.started
         /\ Finished(new) <=> Finished(row)
         /\ new.dispatch # "REQUESTED" => Delivered(new)
<1>1. CASE row.dispatch # "ABSENT"
  BY <1>1 DEF WithTasks, Incidents, DeliveryStates, Kept, Delivered, Finished
<1>2. CASE row.dispatch = "ABSENT"
  <2> DEFINE new == [ row EXCEPT !.snapshot = "OPEN", !.dispatch = "REQUESTED" ]
  <2>1. /\ new \in Incidents(Operatives) /\ new.dispatch = "REQUESTED" /\ new.snapshot = "OPEN"
        /\ new.version = row.version /\ new.critical = row.critical /\ new.started = row.started
        /\ new.mode = row.mode
    BY DEF Incidents, DeliveryStates
  <2>2. WithTasks(row) = new
    BY <1>2 DEF WithTasks
  <2>3. new # NoIncident
    BY <2>1 DEF NoIncident, Incidents, Modes
  <2> HIDE DEF new
  <2> QED BY <1>2, <2>1, <2>2, <2>3 DEF Kept, Delivered, Finished
<1> QED BY <1>1, <1>2

LEMMA AdvancedFacts ==
  ASSUME NEW version \in Nat, NEW critical \in BOOLEAN, incident \in Incidents(Operatives)
  PROVE  LET new == Advanced(version, critical) IN
         /\ new \in Incidents(Operatives) /\ Kept(incident, new)
         /\ new.version = version /\ new.critical = critical
         /\ new.started = (incident.started \/ critical)
         /\ Finished(new) <=> Finished(incident)
<1> DEFINE starts == critical /\ ~ incident.started
           row == [ incident EXCEPT !.version = version, !.critical = critical, !.started = @ \/ starts ]
<1>1. /\ row \in Incidents(Operatives) /\ row.dispatch = incident.dispatch /\ row.snapshot = incident.snapshot
      /\ row.version = version /\ row.critical = critical /\ row.started = (incident.started \/ critical)
  BY DEF Incidents
<1>2. row # NoIncident
  BY <1>1 DEF NoIncident, Incidents, Modes
<1>3. Advanced(version, critical) = IF starts THEN WithTasks(row) ELSE row
  BY DEF Advanced
<1> HIDE DEF row, starts
<1>4. Kept(incident, row) /\ (Finished(row) <=> Finished(incident))
  BY <1>1, <1>2 DEF Kept, Delivered, Finished
<1>5. CASE ~ starts
  BY <1>1, <1>3, <1>4, <1>5
<1>6. CASE starts
  <2> DEFINE new == WithTasks(row)
  <2>1. /\ new \in Incidents(Operatives) /\ Kept(row, new)
        /\ new.version = row.version /\ new.critical = row.critical /\ new.started = row.started
        /\ Finished(new) <=> Finished(row)
    BY <1>1, WithTasksFacts
  <2> HIDE DEF new
  <2>2. Kept(incident, new)
    BY <1>2, <1>4, <2>1 DEF Kept
  <2>3. Advanced(version, critical) = new
    BY <1>3, <1>6 DEF new
  <2> QED BY <1>1, <1>4, <2>1, <2>2, <2>3
<1> QED BY <1>5, <1>6

LEMMA PreservedFacts ==
  ASSUME NEW row \in Incidents(Operatives)
  PROVE  LET new == Preserved(row) IN
         /\ new \in Incidents(Operatives) /\ Kept(row, new) /\ new.dispatch = row.dispatch
         /\ new.version = row.version /\ new.critical = row.critical /\ new.started = row.started
         /\ new.snapshot = "DONE"
<1> DEFINE new == [ row EXCEPT !.snapshot = "DONE" ]
<1>1. /\ new \in Incidents(Operatives) /\ new.dispatch = row.dispatch /\ new.snapshot = "DONE"
      /\ new.version = row.version /\ new.critical = row.critical /\ new.started = row.started
  BY DEF Incidents
<1>2. Preserved(row) = new
  BY DEF Preserved
<1>3. new # NoIncident
  BY <1>1 DEF NoIncident, Incidents, Modes
<1> HIDE DEF new
<1> QED BY <1>1, <1>2, <1>3 DEF Kept, Delivered

LEMMA HandedOffFacts ==
  ASSUME NEW row \in Incidents(Operatives), row.dispatch # "ABSENT"
  PROVE  LET new == HandedOff(row) IN
         /\ new \in Incidents(Operatives) /\ Kept(row, new) /\ Delivered(new)
         /\ new.version = row.version /\ new.critical = row.critical /\ new.started = row.started
         /\ new.snapshot = row.snapshot
<1>1. CASE row.dispatch # "REQUESTED"
  BY <1>1 DEF HandedOff, Incidents, DeliveryStates, Kept, Delivered
<1>2. CASE row.dispatch = "REQUESTED"
  <2> DEFINE new == [ row EXCEPT !.dispatch = "DELIVERED" ]
  <2>1. /\ new \in Incidents(Operatives) /\ new.dispatch = "DELIVERED" /\ new.snapshot = row.snapshot
        /\ new.version = row.version /\ new.critical = row.critical /\ new.started = row.started
    BY DEF Incidents, DeliveryStates
  <2>2. HandedOff(row) = new
    BY <1>2 DEF HandedOff
  <2>3. new # NoIncident
    BY <2>1 DEF NoIncident, Incidents, Modes
  <2> HIDE DEF new
  <2> QED BY <1>2, <2>1, <2>2, <2>3 DEF Kept, Delivered
<1> QED BY <1>1, <1>2

(* The steps of the response *)

LEMMA ResponseInvInit == ResponseInit /\ published = {} => ResponseInv
<1> SUFFICES ASSUME ResponseInit, published = {} PROVE ResponseInv
  OBVIOUS
<1>1. Free \in Handling /\ Free.at = "free"
  BY DEF Handling, Free
<1>2. \A h \in Handlers : handling[h] = Free
  BY DEF ResponseInit
<1>3. ResponseTypes
  <2>1. handling \in [ Handlers -> Handling ]
    BY <1>1 DEF ResponseInit
  <2>2. used \in [ Messages -> 0 .. Deliveries ] /\ crashes \in 0 .. MaxCrashes
    BY ResponseAssumption DEF ResponseInit
  <2> QED BY <2>1, <2>2 DEF ResponseInit, ResponseTypes
<1>4. ASSUME NEW h \in Handlers PROVE Holds(h) /\ MayBe(handling[h], incident)
  BY <1>1, <1>2 DEF Holds, MayBe
<1>5. OneHandlerEach
  BY <1>1, <1>2 DEF OneHandlerEach
<1>6. StartedAndCalm /\ ReadersSawIt /\ OwedIsCarried
  BY DEF ResponseInit, StartedAndCalm, ReadersSawIt, OwedIsCarried, Owed
<1> QED BY <1>3, <1>4, <1>5, <1>6 DEF ResponseInv

\* What a handler holds, whatever it is about to do with it.
LEMMA HolderFacts ==
  ASSUME ResponseInv, NEW h \in Handlers, handling[h].at # "free"
  PROVE  LET m == handling[h].message IN
         /\ handling[h] \in Handling /\ handling[h] # Free
         /\ m \in published /\ m \notin done
         /\ \A g \in Handlers : g # h /\ handling[g].at # "free" => handling[g].message # m
         /\ MayBe(handling[h], incident)
  BY HandlingKinds DEF ResponseInv, ResponseTypes, Holds, OneHandlerEach

LEMMA ContinueFacts ==
  ASSUME ResponseInv, NEW h \in Handlers, NEW at \in { "catching up", "tasking" },
         handling[h].at \in { "candidate", "update", "catching up", "tasking" }
  PROVE  LET w == [ handling[h] EXCEPT !.at = at ] IN
         /\ w \in Handling /\ w.at = at /\ w.message = handling[h].message
         /\ Continue(h, at) => handling' = [ handling EXCEPT ![h] = w ] /\ done' = done
<1> DEFINE w == [ handling[h] EXCEPT !.at = at ]
<1>1. handling[h] \in [ at : { "candidate", "update", "catching up", "tasking" }, message : Messages ]
  BY HandlingKinds DEF ResponseInv, ResponseTypes
<1>2. /\ w \in [ at : { "candidate", "update", "catching up", "tasking" }, message : Messages ]
      /\ w.at = at /\ w.message = handling[h].message
  BY <1>1
<1>3. Continue(h, at) => handling' = [ handling EXCEPT ![h] = w ] /\ done' = done
  BY DEF Continue, ResponseInv, ResponseTypes
<1> HIDE DEF w
<1>4. w \in Handling
  BY <1>2 DEF Handling
<1> QED BY <1>2, <1>3, <1>4 DEF w

LEMMA FreeFacts == Free \in Handling /\ Free.at = "free" /\ \A row : MayBe(Free, row)
  BY DEF Handling, Free, MayBe

\* Nothing is taken from an incident that stays.
LEMMA StaysKept == Kept(incident, incident)
  BY DEF Kept

LEMMA AssessKeeps ==
  ASSUME ResponseInv, NEW h \in Handlers, handling[h].at \in { "catching up", "update" },
         incident # NoIncident, NEW version \in Nat, NEW critical \in BOOLEAN,
         Assess(h, version, critical), UNCHANGED << used, reading, crashes, published >>,
         handling[h].at = "update" => version = handling[h].message.version
  PROVE  ResponseInv'
<1> PICK m : m = handling[h].message
  OBVIOUS
<1> DEFINE w == [ handling[h] EXCEPT !.at = "tasking" ]
           new == Advanced(version, critical)
<1>1. /\ incident \in Incidents(Operatives) /\ incident.version \in Nat /\ relapsed \in BOOLEAN
      /\ incident.critical \in BOOLEAN /\ incident.started \in BOOLEAN
      /\ handling \in [ Handlers -> Handling ]
      /\ used' \in [ Messages -> 0 .. Deliveries ] /\ crashes' \in 0 .. MaxCrashes
      /\ reading' = reading /\ published' = published
  BY DEF ResponseInv, ResponseTypes, Incidents
<1>2. /\ w \in Handling /\ w.at = "tasking" /\ w.message = m
      /\ Continue(h, "tasking") => handling' = [ handling EXCEPT ![h] = w ] /\ done' = done
  BY ContinueFacts
<1>3. /\ handling[h].at # "free" /\ m \in published /\ m \notin done
      /\ \A g \in Handlers : g # h /\ handling[g].at # "free" => handling[g].message # m
      /\ (handling[h].at = "catching up" /\ m.kind = "candidate") \/ (m.kind = "update" /\ handling[h].at = "update")
  <2>1. handling[h].at # "free"
    OBVIOUS
  <2>2. /\ m \in published /\ m \notin done
        /\ \A g \in Handlers : g # h /\ handling[g].at # "free" => handling[g].message # m
        /\ MayBe(handling[h], incident)
    BY <2>1, HolderFacts
  <2> QED BY <2>1, <2>2 DEF MayBe
<1>4. Ack(h) => handling' = [ handling EXCEPT ![h] = Free ] /\ done' = done \cup { m }
  BY DEF Ack
<1>5. /\ new \in Incidents(Operatives) /\ Kept(incident, new)
      /\ new.version = version /\ new.critical = critical
      /\ new.started = (incident.started \/ critical)
      /\ Finished(new) <=> Finished(incident)
  BY <1>1, AdvancedFacts
<1>6. new # NoIncident
  BY <1>5 DEF Kept
<1>7. \A x \in published \ done : x.kind = "update" => x.version \in Nat
  BY MessageFacts DEF ResponseInv, ResponseTypes
<1> HIDE DEF w, new
<1>8. MayBe(w, incident) /\ MayBe(w, new)
  BY <1>2, <1>6 DEF MayBe
<1>9. CASE Newer(version) /\ critical /\ ~ incident.started
  <2>1. /\ handling' = [ handling EXCEPT ![h] = w ] /\ done' = done
        /\ incident' = new /\ relapsed' \in BOOLEAN
    BY <1>1, <1>2, <1>9 DEF Assess, new
  <2>2. StartedAndCalm'
    BY <1>5, <1>9, <2>1 DEF StartedAndCalm
  <2>3. OwedIsCarried'
    <3>1. handling'[h] = w /\ \A g \in Handlers : g # h => handling'[g] = handling[g]
      BY <1>1, <2>1
    <3>2. ASSUME NEW g \in Handlers, handling'[g].at = "catching up" PROVE handling'[g].message # m
      BY <1>2, <1>3, <3>1, <3>2
    <3>3. m.kind = "candidate" \/ (m.kind = "update" /\ incident'.started /\ m.version <= incident'.version)
      <4>1. incident'.version = version /\ incident'.started
        BY <1>5, <1>9, <2>1
      <4>3. version <= version
        BY LessFacts, Zenon
      <4>2. m.kind = "candidate" \/ (m.kind = "update" /\ m.version = version)
        BY <1>3
      <4> QED BY <4>1, <4>2, <4>3, Zenon
    <3>4. Carries(m)'
      BY <3>2, <3>3 DEF Carries
    <3> QED BY <1>1, <1>3, <2>1, <3>4 DEF OwedIsCarried
  <2> QED BY <1>1, <1>2, <1>3, <1>5, <1>8, <2>1, <2>2, <2>3, HandlerMoves
<1>10. CASE Newer(version) /\ ~ (critical /\ ~ incident.started)
  <2>1. /\ handling' = [ handling EXCEPT ![h] = Free ] /\ done' = done \cup { m }
        /\ incident' = new /\ relapsed' \in BOOLEAN
        /\ relapsed' = (relapsed \/ (incident.critical /\ ~ critical /\ ~ Finished(incident)))
    BY <1>1, <1>4, <1>10 DEF Assess, new
  <2>2. StartedAndCalm'
    BY <1>1, <1>5, <1>10, <2>1 DEF StartedAndCalm, ResponseInv, Finished
  <2>3. Owed' => Owed /\ incident.started
    BY <1>1, <1>5, <1>10, <2>1 DEF Owed, StartedAndCalm, ResponseInv, Finished
  <2>4. incident.version <= incident'.version /\ incident'.version \in Nat /\ ~ (version <= incident.version)
    <3>1. incident'.version = version /\ incident.version < version
      BY <1>5, <1>10, <2>1 DEF Newer
    <3> QED BY <1>1, <3>1, LessFacts
  <2>5. ASSUME NEW x \in published \ done, Carries(x) PROVE x # m
    <3>1. CASE handling[h].at = "catching up"
      BY <2>5, <3>1 DEF Carries
    <3>2. CASE handling[h].at = "update"
      <4>1. m.kind = "update" /\ ~ (m.version <= incident.version)
        BY <1>3, <2>4, <3>2 DEF MayBe
      <4>2. x.kind = "candidate" \/ x.version <= incident.version
        BY <2>5 DEF Carries
      <4> QED BY <4>1, <4>2
    <3> QED BY <3>1, <3>2
  <2>6. OwedIsCarried'
    BY <1>1, <1>5, <1>7, <2>1, <2>3, <2>4, <2>5, FreeFacts, OwedStays DEF ResponseInv
  <2> QED BY <1>1, <1>3, <1>5, <2>1, <2>2, <2>6, FreeFacts, HandlerMoves
<1>11. CASE ~ Newer(version) /\ incident.started /\ incident.critical
  <2>1. /\ handling' = [ handling EXCEPT ![h] = w ] /\ done' = done
        /\ incident' = incident /\ relapsed' = relapsed
    BY <1>1, <1>2, <1>11 DEF Assess
  <2>2. StartedAndCalm' /\ (Owed' => Owed)
    BY <2>1 DEF StartedAndCalm, Owed, ResponseInv, Finished
  <2>3. OwedIsCarried'
    <3>1. incident.version <= incident.version
      BY <1>1, LessFacts, Zenon
    <3> QED BY <1>1, <1>2, <1>7, <2>1, <2>2, <3>1, OwedStays DEF ResponseInv
  <2> QED BY <1>1, <1>2, <1>3, <1>8, <2>1, <2>2, <2>3, StaysKept, HandlerMoves
<1>12. CASE ~ Newer(version) /\ ~ (incident.started /\ incident.critical)
  <2>1. /\ handling' = [ handling EXCEPT ![h] = Free ] /\ done' = done \cup { m }
        /\ incident' = incident /\ relapsed' = relapsed
    BY <1>1, <1>4, <1>12 DEF Assess
  <2>2. StartedAndCalm' /\ (Owed' => Owed /\ ~ incident.started)
    BY <1>12, <2>1 DEF StartedAndCalm, Owed, ResponseInv, Finished
  <2>3. ASSUME NEW x \in published \ done, Carries(x), ~ incident.started PROVE x # m
    <3>1. CASE handling[h].at = "catching up"
      BY <2>3, <3>1 DEF Carries
    <3>2. CASE handling[h].at = "update"
      <4>1. m.kind = "update"
        BY <1>3, <3>2
      <4>2. x.kind = "candidate"
        BY <2>3 DEF Carries
      <4> QED BY <4>1, <4>2
    <3> QED BY <3>1, <3>2
  <2>4. OwedIsCarried'
    <3>1. incident.version <= incident.version
      BY <1>1, LessFacts, Zenon
    <3> QED BY <1>1, <1>7, <2>1, <2>2, <2>3, <3>1, FreeFacts, OwedStays DEF ResponseInv
  <2> QED BY <1>1, <1>3, <2>1, <2>2, <2>4, FreeFacts, StaysKept, HandlerMoves
<1> QED BY <1>9, <1>10, <1>11, <1>12

LEMMA TakeKeeps ==
  ASSUME ResponseInv, NEW h \in Handlers, NEW m \in published, Take(h, m), published' = published
  PROVE  ResponseInv'
<1> DEFINE w == [ at |-> m.kind, message |-> m ]
<1>1. m \in Messages /\ m.kind \in { "candidate", "update" } /\ m \notin done
  BY MessageFacts DEF Take, ResponseInv, ResponseTypes
<1>2. w \in Handling /\ w.at = m.kind /\ w.message = m
  BY <1>1 DEF Handling
<1>3. /\ handling' = [ handling EXCEPT ![h] = w ] /\ handling \in [ Handlers -> Handling ]
      /\ UNCHANGED << incident, done, reading, crashes, relapsed >>
      /\ incident \in Incidents(Operatives) \cup { NoIncident }
      /\ crashes \in 0 .. MaxCrashes /\ relapsed \in BOOLEAN
  BY DEF Take, ResponseInv, ResponseTypes
<1>4. used' \in [ Messages -> 0 .. Deliveries ]
  <2>1. used[m] \in 0 .. Deliveries /\ used[m] < Deliveries
    BY <1>1 DEF Take, ResponseInv, ResponseTypes
  <2>2. used[m] + 1 \in 0 .. Deliveries
    BY <2>1, ResponseAssumption
  <2> QED BY <2>2 DEF Take, ResponseInv, ResponseTypes
<1> HIDE DEF w
<1>5. \A g \in Handlers : g # h /\ handling[g].at # "free" => handling[g].message # m
  BY FreeFacts DEF Take
<1>6. MayBe(w, incident)
  BY <1>1, <1>2 DEF MayBe
<1>7. StartedAndCalm' /\ (Owed' => Owed)
  BY <1>3 DEF ResponseInv, StartedAndCalm, Owed, Finished
<1>8. OwedIsCarried'
  <2>1. Owed => incident \in Incidents(Operatives)
    BY <1>3 DEF Owed
  <2>2. Owed => incident.version \in Nat
    BY <2>1 DEF Incidents
  <2>3. Owed => incident.version <= incident.version
    BY <2>2, LessFacts, Zenon
  <2>4. \A x \in published \ done : x.kind = "update" => x.version \in Nat
    BY MessageFacts DEF ResponseInv, ResponseTypes
  <2> QED BY <1>1, <1>2, <1>3, <1>7, <2>2, <2>3, <2>4, OwedStays DEF ResponseInv
<1> QED BY <1>1, <1>2, <1>3, <1>4, <1>5, <1>6, <1>7, <1>8, StaysKept, HandlerMoves

\* A handler that moves on without advancing the incident's version.
LEMMA HandlerWorks ==
  ASSUME ResponseInv, NEW h \in Handlers, NEW w \in Handling, handling[h].at # "free",
         handling' = [ handling EXCEPT ![h] = w ],
         w.at # "free" => w.message = handling[h].message,
         done' = done \/ (w = Free /\ done' = done \cup { handling[h].message }),
         UNCHANGED << used, reading, relapsed, published >>, crashes' \in 0 .. MaxCrashes,
         incident # NoIncident =>
           /\ incident' \in Incidents(Operatives) /\ Kept(incident, incident')
           /\ incident'.version = incident.version /\ incident'.critical = incident.critical
           /\ incident'.started = incident.started
           /\ Finished(incident) => Finished(incident'),
         incident = NoIncident => incident' = NoIncident,
         MayBe(w, incident'),
         Owed' => /\ w.at # "catching up"
                  /\ done' = done \/ handling[h].at = "catching up"
  PROVE  ResponseInv'
<1>1. /\ incident' \in Incidents(Operatives) \cup { NoIncident } /\ Kept(incident, incident')
      /\ incident \in Incidents(Operatives) \cup { NoIncident } /\ handling \in [ Handlers -> Handling ]
      /\ used' \in [ Messages -> 0 .. Deliveries ] /\ relapsed' \in BOOLEAN
      /\ reading' = reading /\ published' = published /\ relapsed' = relapsed
  BY DEF ResponseInv, ResponseTypes, Kept
<1>2. w.at # "free" => /\ w.message \in published /\ w.message \notin done
                       /\ \A g \in Handlers : g # h /\ handling[g].at # "free"
                                              => handling[g].message # w.message
  BY HolderFacts
<1>3. StartedAndCalm'
  <2> SUFFICES ASSUME incident' # NoIncident, incident'.started, ~ incident'.critical
               PROVE  relapsed' \/ Finished(incident')
    BY DEF StartedAndCalm, Finished
  <2>1. incident # NoIncident /\ incident.started /\ ~ incident.critical
    OBVIOUS
  <2>2. relapsed \/ Finished(incident)
    BY <2>1 DEF ResponseInv, StartedAndCalm
  <2>3. relapsed' <=> relapsed
    <3>1. relapsed \in BOOLEAN /\ relapsed' \in BOOLEAN /\ relapsed' = relapsed
      BY <1>1 DEF ResponseInv, ResponseTypes
    <3> QED BY <3>1, SameBoolean
  <2>4. Finished(incident) => Finished(incident')
    BY <2>1
  <2> QED BY <2>2, <2>3, <2>4, Zenon
<1>4. Owed' => Owed
  <2> SUFFICES ASSUME Owed' PROVE Owed
    OBVIOUS
  <2>1. incident' # NoIncident /\ incident'.critical /\ ~ relapsed' /\ ~ Finished(incident')
    BY DEF Owed, Finished
  <2>2. incident # NoIncident /\ incident.critical /\ ~ Finished(incident)
    BY <2>1
  <2>3. relapsed' <=> relapsed
    <3>1. relapsed \in BOOLEAN /\ relapsed' \in BOOLEAN /\ relapsed' = relapsed
      BY <1>1 DEF ResponseInv, ResponseTypes
    <3> QED BY <3>1, SameBoolean
  <2> QED BY <2>1, <2>2, <2>3, Zenon DEF Owed
<1>5. OwedIsCarried'
  <2>1. Owed => incident.version \in Nat
    BY <1>1 DEF Owed, Incidents
  <2>2. Owed => incident.version <= incident'.version
    BY <2>1, LessFacts, Zenon DEF Owed
  <2>3. \A x \in published \ done : x.kind = "update" => x.version \in Nat
    BY MessageFacts DEF ResponseInv, ResponseTypes
  <2>4. Owed' => /\ w.at # "catching up"
                 /\ incident.started => incident'.started
                 /\ incident.version \in Nat /\ incident'.version \in Nat
                 /\ incident.version <= incident'.version
    BY <1>4, <2>1, <2>2 DEF Owed
  <2>5. ASSUME Owed', NEW x \in published \ done, Carries(x) PROVE x \notin done'
    BY <2>5 DEF Carries
  <2> QED BY <1>1, <1>4, <2>3, <2>4, <2>5, OwedStays DEF ResponseInv
<1> QED BY <1>1, <1>2, <1>3, <1>5, HandlerMoves

\* A message is given back or the handler dies: it will be delivered again.
LEMMA GiveBackKeeps ==
  ASSUME ResponseInv, NEW h \in Handlers, handling[h].at # "free", GiveBack(h),
         UNCHANGED << incident, used, reading, relapsed, published >>, crashes' \in 0 .. MaxCrashes
  PROVE  ResponseInv'
<1>1. handling' = [ handling EXCEPT ![h] = Free ] /\ done' = done
  BY DEF GiveBack
<1>2. incident # NoIncident => incident \in Incidents(Operatives)
  BY DEF ResponseInv, ResponseTypes
<1> QED BY <1>1, <1>2, FreeFacts, StaysKept, HandlerWorks

LEMMA CatchUpKeeps ==
  ASSUME ResponseInv, hypothesis \in HypothesisRow, NEW h \in Handlers, CatchUp(h), published' = published
  PROVE  ResponseInv'
<1>1. handling[h].at = "catching up" /\ UNCHANGED << used, reading, crashes >> /\ handling[h].at # "free"
  BY DEF CatchUp
<1>2. MayBe(handling[h], incident)
  BY <1>1, HolderFacts
<1>3. incident # NoIncident
  BY <1>1, <1>2 DEF MayBe
<1>4. CASE hypothesis.version > handling[h].message.version
  <2> DEFINE critical == Critical(hypothesis.state, hypothesis.high)
  <2>1. hypothesis.version \in Nat /\ critical \in BOOLEAN
    BY DEF HypothesisRow, Critical
  <2>2. Assess(h, hypothesis.version, critical)
    BY <1>1, <1>4 DEF CatchUp
  <2> HIDE DEF critical
  <2> QED BY <1>1, <1>3, <2>1, <2>2, AssessKeeps
<1>5. CASE ~ (hypothesis.version > handling[h].message.version)
  <2>1. /\ handling' = [ handling EXCEPT ![h] = Free ] /\ done' = done \cup { handling[h].message }
        /\ UNCHANGED << incident, relapsed >>
    BY <1>5 DEF CatchUp, Ack
  <2>2. incident \in Incidents(Operatives) /\ crashes' \in 0 .. MaxCrashes
    BY <1>1, <1>3 DEF ResponseInv, ResponseTypes
  <2> QED BY <1>1, <1>3, <2>1, <2>2, FreeFacts, StaysKept, HandlerWorks
<1> QED BY <1>4, <1>5

LEMMA HandleUpdateKeeps ==
  ASSUME ResponseInv, NEW h \in Handlers, HandleUpdate(h), published' = published
  PROVE  ResponseInv'
<1> PICK m : m = handling[h].message
  OBVIOUS
<1>1. /\ handling[h].at = "update" /\ handling[h].at # "free" /\ UNCHANGED << used, reading, crashes >>
      /\ crashes' \in 0 .. MaxCrashes
  BY DEF HandleUpdate, ResponseInv, ResponseTypes
<1>2. m \in Messages /\ m.version \in Nat /\ m.critical \in BOOLEAN
  <2>1. m \in published
    BY <1>1, HolderFacts
  <2> QED BY <2>1, MessageFacts DEF ResponseInv, ResponseTypes
<1>3. CASE incident = NoIncident
  BY <1>1, <1>3, GiveBackKeeps DEF HandleUpdate
<1>4. CASE incident # NoIncident
  <2>1. Assess(h, m.version, m.critical)
    BY <1>4 DEF HandleUpdate
  <2> QED BY <1>1, <1>2, <1>4, <2>1, AssessKeeps
<1> QED BY <1>3, <1>4

LEMMA CreateKeeps ==
  ASSUME ResponseInv, NEW h \in Handlers, CreateFromCandidate(h), published' = published
  PROVE  ResponseInv'
<1> PICK m : m = handling[h].message
  OBVIOUS
<1> DEFINE row == IF incident = NoIncident THEN Opened("STANDARD", m.version, m.critical, FALSE) ELSE incident
           at == IF row.critical THEN "tasking" ELSE "catching up"
           w == [ handling[h] EXCEPT !.at = at ]
<1>1. /\ handling[h].at = "candidate" /\ handling[h].at # "free" /\ UNCHANGED << used, reading, crashes, relapsed >>
      /\ crashes' \in 0 .. MaxCrashes /\ incident' = row /\ Continue(h, at)
      /\ incident \in Incidents(Operatives) \cup { NoIncident } /\ relapsed \in BOOLEAN
      /\ used \in [ Messages -> 0 .. Deliveries ] /\ handling \in [ Handlers -> Handling ]
  BY DEF CreateFromCandidate, ResponseInv, ResponseTypes
<1>2. /\ m \in published /\ m \notin done /\ MayBe(handling[h], incident)
      /\ \A g \in Handlers : g # h /\ handling[g].at # "free" => handling[g].message # m
  BY <1>1, HolderFacts
<1>3. m \in Messages /\ m.version \in Nat /\ m.critical \in BOOLEAN /\ m.kind = "candidate"
  BY <1>1, <1>2, MessageFacts DEF ResponseInv, ResponseTypes, MayBe
<1>4. /\ w \in Handling /\ w.at = at /\ w.message = m
      /\ handling' = [ handling EXCEPT ![h] = w ] /\ done' = done
  <2>1. at \in { "catching up", "tasking" }
    OBVIOUS
  <2> HIDE DEF at
  <2> QED BY <1>1, <2>1, ContinueFacts
<1>5. row \in Incidents(Operatives) /\ row # NoIncident /\ Kept(incident, row)
  <2>1. Opened("STANDARD", m.version, m.critical, FALSE) \in Incidents(Operatives)
    BY <1>3 DEF Opened, Incidents, Modes, DeliveryStates
  <2>2. row \in Incidents(Operatives)
    BY <1>1, <2>1
  <2>3. row # NoIncident
    BY <2>2, AnIncident
  <2> QED BY <2>2, <2>3 DEF Kept
<1>6. incident = NoIncident => ~ row.started
  BY DEF Opened
<1>7. incident # NoIncident => row = incident
  OBVIOUS
<1>8. at \in { "catching up", "tasking" } /\ (row.critical => at = "tasking")
  OBVIOUS
<1> HIDE DEF w, row, at
<1>9. MayBe(w, row)
  BY <1>3, <1>4, <1>5, <1>8 DEF MayBe
<1>10. StartedAndCalm'
  BY <1>1, <1>6, <1>7, Zenon DEF ResponseInv, StartedAndCalm
<1>11. OwedIsCarried'
  <2>1. CASE incident = NoIncident
    <3> SUFFICES ASSUME Owed' PROVE OwedIsCarried'
      BY DEF OwedIsCarried
    <3>1. w.at = "tasking"
      BY <1>1, <1>4, <1>8, Zenon DEF Owed
    <3>2. ASSUME NEW g \in Handlers, handling'[g].at = "catching up" PROVE handling'[g].message # m
      BY <1>1, <1>2, <1>4, <3>1, <3>2
    <3>3. Carries(m)'
      BY <1>3, <3>2 DEF Carries
    <3> QED BY <1>2, <1>4, <3>3 DEF OwedIsCarried
  <2>2. CASE incident # NoIncident
    <3>1. incident' = incident /\ relapsed' = relapsed
      BY <1>1, <1>7, <2>2
    <3>2. (Owed' => Owed) /\ (Owed' => w.at = "tasking")
      <4>1. Owed' => Owed
        BY <3>1 DEF Owed, Finished
      <4>2. Owed' => incident'.critical
        BY DEF Owed
      <4> QED BY <1>1, <1>4, <1>8, <4>1, <4>2, Zenon
    <3>3. incident.version \in Nat /\ \A x \in published \ done : x.kind = "update" => x.version \in Nat
      BY <1>1, <2>2, MessageFacts DEF Incidents, ResponseInv, ResponseTypes
    <3>4. incident.version <= incident.version
      BY <3>3, LessFacts, Zenon
    <3> QED BY <1>1, <1>4, <3>1, <3>2, <3>3, <3>4, OwedStays DEF ResponseInv
  <2> QED BY <2>1, <2>2
<1> QED BY <1>1, <1>2, <1>4, <1>5, <1>9, <1>10, <1>11, HandlerMoves

LEMMA EnsureTasksKeeps ==
  ASSUME ResponseInv, NEW h \in Handlers, EnsureTasks(h), published' = published
  PROVE  ResponseInv'
<1> DEFINE new == WithTasks(incident)
           w == [ at |-> "preserving", message |-> handling[h].message, open |-> new.dispatch = "REQUESTED" ]
<1>1. /\ handling[h].at = "tasking" /\ handling[h].at # "free" /\ UNCHANGED << done, used, reading, crashes, relapsed >>
      /\ crashes' \in 0 .. MaxCrashes /\ incident' = new /\ handling' = [ handling EXCEPT ![h] = w ]
  BY DEF EnsureTasks, ResponseInv, ResponseTypes
<1>2. handling[h].message \in published /\ MayBe(handling[h], incident)
  BY <1>1, HolderFacts
<1>3. w \in Handling /\ w.at = "preserving" /\ w.message = handling[h].message /\ w.open = (new.dispatch = "REQUESTED")
  BY <1>2 DEF Handling, ResponseInv, ResponseTypes
<1>4. incident # NoIncident /\ incident \in Incidents(Operatives)
  BY <1>1, <1>2 DEF MayBe, ResponseInv, ResponseTypes
<1>5. /\ new \in Incidents(Operatives) /\ Kept(incident, new) /\ new.dispatch # "ABSENT"
      /\ new.version = incident.version /\ new.critical = incident.critical /\ new.started = incident.started
      /\ Finished(new) <=> Finished(incident)
      /\ new.dispatch # "REQUESTED" => Delivered(new)
  BY <1>4, WithTasksFacts
<1> HIDE DEF w, new
<1>6. MayBe(w, new)
  BY <1>3, <1>4, <1>5 DEF MayBe, Kept
<1> QED BY <1>1, <1>3, <1>4, <1>5, <1>6, HandlerWorks

LEMMA PreserveKeeps ==
  ASSUME ResponseInv, NEW h \in Handlers, Preserve(h), published' = published
  PROVE  ResponseInv'
<1> DEFINE new == Preserved(incident)
           w == IF handling[h].open THEN [ handling[h] EXCEPT !.at = "dispatching" ] ELSE Free
<1>1. /\ handling[h].at = "preserving" /\ handling[h].at # "free" /\ UNCHANGED << used, reading, crashes, relapsed >>
      /\ crashes' \in 0 .. MaxCrashes /\ incident' = new
  BY DEF Preserve, ResponseInv, ResponseTypes
<1>2. MayBe(handling[h], incident) /\ handling[h] \in Handling
  BY <1>1, HolderFacts
<1>3. handling[h] \in [ at : { "preserving", "dispatching" }, message : Messages, open : BOOLEAN ]
  BY <1>1, <1>2, HandlingKinds
<1>4. /\ w \in Handling
      /\ w.at # "free" => w.message = handling[h].message
      /\ handling[h].open => w.at = "dispatching"
      /\ ~ handling[h].open => w = Free
  BY <1>3, FreeFacts DEF Handling
<1>5. /\ handling' = [ handling EXCEPT ![h] = w ]
      /\ IF handling[h].open THEN done' = done ELSE done' = done \cup { handling[h].message }
  BY <1>1, <1>3 DEF Preserve, Continue, Ack
<1>6. incident # NoIncident /\ incident \in Incidents(Operatives) /\ incident.dispatch # "ABSENT"
  BY <1>1, <1>2 DEF MayBe, ResponseInv, ResponseTypes
<1>7. /\ new \in Incidents(Operatives) /\ Kept(incident, new) /\ new.dispatch = incident.dispatch
      /\ new.version = incident.version /\ new.critical = incident.critical /\ new.started = incident.started
      /\ new.snapshot = "DONE" /\ new # NoIncident
  BY <1>6, PreservedFacts DEF Kept
<1> HIDE DEF w, new
<1>8. MayBe(w, new)
  BY <1>4, <1>6, <1>7, FreeFacts DEF MayBe
<1>9. Finished(incident) => Finished(new)
  BY <1>7 DEF Finished
<1>10. ~ handling[h].open => Finished(new)
  BY <1>1, <1>2, <1>7 DEF MayBe, Finished, Delivered
<1>11. ~ handling[h].open => ~ Owed'
  BY <1>1, <1>10 DEF Owed
<1>12. w.at # "catching up"
  BY <1>4, FreeFacts
<1> QED BY <1>1, <1>4, <1>5, <1>6, <1>7, <1>8, <1>9, <1>11, <1>12, HandlerWorks

LEMMA DispatchKeeps ==
  ASSUME ResponseInv, NEW h \in Handlers, Dispatch(h), published' = published
  PROVE  ResponseInv'
<1> DEFINE new == HandedOff(incident)
<1>1. /\ handling[h].at = "dispatching" /\ handling[h].at # "free" /\ UNCHANGED << used, reading, crashes, relapsed >>
      /\ crashes' \in 0 .. MaxCrashes /\ incident' = new /\ handling' = [ handling EXCEPT ![h] = Free ]
      /\ done' = done \/ done' = done \cup { handling[h].message }
  BY DEF Dispatch, ResponseInv, ResponseTypes, Ack, GiveBack
<1>2. MayBe(handling[h], incident)
  BY <1>1, HolderFacts
<1>3. /\ incident # NoIncident /\ incident \in Incidents(Operatives) /\ incident.dispatch # "ABSENT"
      /\ incident.snapshot = "DONE"
  BY <1>1, <1>2 DEF MayBe, ResponseInv, ResponseTypes
<1>4. /\ new \in Incidents(Operatives) /\ Kept(incident, new) /\ Delivered(new)
      /\ new.version = incident.version /\ new.critical = incident.critical /\ new.started = incident.started
      /\ new.snapshot = "DONE"
  BY <1>3, HandedOffFacts
<1>5. Finished(new)
  BY <1>4 DEF Finished, Delivered
<1> HIDE DEF new
<1>6. ~ Owed'
  BY <1>1, <1>5 DEF Owed
<1> QED BY <1>1, <1>3, <1>4, <1>5, <1>6, FreeFacts, HandlerWorks

\* A step of people or of fusion: the handlers and their messages stay.
LEMMA IncidentMoves ==
  ASSUME ResponseInv, UNCHANGED << handling, done, used, crashes, relapsed >>,
         published \subseteq published', published' \subseteq Messages,
         incident # NoIncident =>
           /\ incident' \in Incidents(Operatives) /\ Kept(incident, incident')
           /\ incident'.version = incident.version /\ incident'.critical = incident.critical
           /\ incident'.started = incident.started
           /\ Finished(incident) => Finished(incident'),
         incident = NoIncident => incident' = NoIncident,
         ReadersSawIt'
  PROVE  ResponseInv'
<1>1. /\ incident' \in Incidents(Operatives) \cup { NoIncident } /\ Kept(incident, incident')
      /\ relapsed \in BOOLEAN /\ relapsed' = relapsed /\ handling' = handling /\ done' = done
  BY DEF ResponseInv, ResponseTypes, Kept
<1>2. relapsed' <=> relapsed
  BY <1>1, SameBoolean
<1>3. ResponseTypes'
  BY <1>1 DEF ResponseInv, ResponseTypes
<1>4. ASSUME NEW h \in Handlers PROVE Holds(h)' /\ MayBe(handling[h], incident)'
  <2>1. Holds(h) /\ MayBe(handling[h], incident)
    BY DEF ResponseInv
  <2>2. MayBe(handling[h], incident')
    BY <1>1, <2>1, MayBeKept
  <2> QED BY <1>1, <2>1, <2>2 DEF Holds
<1>5. OneHandlerEach'
  BY <1>1 DEF ResponseInv, OneHandlerEach
<1>6. StartedAndCalm'
  <2> SUFFICES ASSUME incident' # NoIncident, incident'.started, ~ incident'.critical
               PROVE  relapsed' \/ Finished(incident')
    BY DEF StartedAndCalm, Finished
  <2>1. incident # NoIncident /\ incident.started /\ ~ incident.critical
    OBVIOUS
  <2>2. relapsed \/ Finished(incident)
    BY <2>1 DEF ResponseInv, StartedAndCalm
  <2>3. Finished(incident) => Finished(incident')
    BY <2>1
  <2> QED BY <1>2, <2>2, <2>3, Zenon
<1>7. OwedIsCarried'
  <2> SUFFICES ASSUME Owed' PROVE \E m \in published' \ done' : Carries(m)'
    BY DEF OwedIsCarried
  <2>1. incident' # NoIncident /\ incident'.critical /\ ~ relapsed' /\ ~ Finished(incident')
    BY DEF Owed, Finished
  <2>2. incident # NoIncident /\ incident.critical /\ ~ Finished(incident)
    BY <2>1
  <2>3. Owed
    BY <1>2, <2>1, <2>2, Zenon DEF Owed
  <2>4. PICK m \in published \ done : Carries(m)
    BY <2>3 DEF ResponseInv, OwedIsCarried
  <2>5. incident'.version = incident.version /\ incident'.started = incident.started
    BY <2>2
  <2>6. Carries(m)'
    BY <1>1, <2>4, <2>5 DEF Carries
  <2> QED BY <1>1, <2>4, <2>6
<1> QED BY <1>3, <1>4, <1>5, <1>6, <1>7 DEF ResponseInv

LEMMA LookKeeps ==
  ASSUME ResponseInv, NEW o \in Operatives, LookAtDispatch(o), published' = published
  PROVE  ResponseInv'
<1>1. /\ incident # NoIncident /\ incident.dispatch = "DELIVERED"
      /\ UNCHANGED << incident, used, done, handling, crashes, relapsed >>
      /\ incident \in Incidents(Operatives)
      /\ published \subseteq Messages
  BY DEF LookAtDispatch, ResponseInv, ResponseTypes
<1>2. ReadersSawIt'
  BY <1>1 DEF ReadersSawIt, Delivered
<1> QED BY <1>1, <1>2, StaysKept, IncidentMoves DEF Finished

LEMMA AcknowledgeKeeps ==
  ASSUME ResponseInv, NEW o \in Operatives, Acknowledge(o), published' = published
  PROVE  ResponseInv'
<1> DEFINE new == [ incident EXCEPT !.dispatch = "ACKNOWLEDGED", !.acker = o ]
<1>1. /\ incident' = new /\ incident # NoIncident /\ Delivered(incident)
      /\ UNCHANGED << used, done, handling, crashes, relapsed >>
      /\ incident \in Incidents(Operatives)
      /\ published \subseteq Messages
  BY DEF Acknowledge, ResponseInv, ResponseTypes, ReadersSawIt
<1>2. /\ new \in Incidents(Operatives) /\ new.dispatch = "ACKNOWLEDGED" /\ new.snapshot = incident.snapshot
      /\ new.version = incident.version /\ new.critical = incident.critical /\ new.started = incident.started
  BY <1>1 DEF Incidents, DeliveryStates
<1> HIDE DEF new
<1>3. new # NoIncident
  BY <1>2, AnIncident
<1>4. Kept(incident, new) /\ (Finished(incident) => Finished(new)) /\ Delivered(new)
  BY <1>2, <1>3 DEF Kept, Finished, Delivered
<1>5. ReadersSawIt'
  BY <1>1, <1>3, <1>4 DEF ReadersSawIt, Delivered
<1> QED BY <1>1, <1>2, <1>4, <1>5, IncidentMoves

LEMMA MoveStatusKeeps ==
  ASSUME ResponseInv, MoveStatus, published' = published
  PROVE  ResponseInv'
<1> DEFINE new == [ incident EXCEPT !.status = NextStatus(incident.status) ]
<1>1. /\ incident' = new /\ incident # NoIncident
      /\ UNCHANGED << used, done, handling, reading, crashes, relapsed >>
      /\ incident \in Incidents(Operatives)
      /\ published \subseteq Messages
  BY DEF MoveStatus, ResponseInv, ResponseTypes
<1>2. NextStatus(incident.status) \in { "open", "contained", "closed" }
  BY <1>1 DEF NextStatus, Incidents
<1>3. /\ new \in Incidents(Operatives) /\ new.dispatch = incident.dispatch /\ new.snapshot = incident.snapshot
      /\ new.version = incident.version /\ new.critical = incident.critical /\ new.started = incident.started
  BY <1>1, <1>2 DEF Incidents
<1> HIDE DEF new
<1>4. new # NoIncident
  BY <1>3, AnIncident
<1>5. Kept(incident, new) /\ (Finished(incident) => Finished(new))
  BY <1>3, <1>4 DEF Kept, Finished, Delivered
<1>6. ReadersSawIt'
  BY <1>1, <1>3, <1>4 DEF ReadersSawIt, Delivered, ResponseInv
<1> QED BY <1>1, <1>3, <1>5, <1>6, IncidentMoves

LEMMA FusionOnlyPublishes ==
  ASSUME FusionNext \/ UNCHANGED fusionVars
  PROVE  published \subseteq published'
  BY DEF FusionNext, fusionVars, Deliver, Commit, Conflict, Publish, CrashReplica

LEMMA FusionKeepsResponse ==
  ASSUME ResponseInv, FusionTypeOK', UNCHANGED responseVars, published \subseteq published'
  PROVE  ResponseInv'
<1>1. /\ UNCHANGED << incident, used, done, handling, reading, crashes, relapsed >>
      /\ published' \subseteq Messages
      /\ incident \in Incidents(Operatives) \cup { NoIncident }
  BY DEF responseVars, ResponseInv, ResponseTypes, FusionTypeOK, Messages
<1>2. ReadersSawIt'
  BY <1>1 DEF ReadersSawIt, Delivered, ResponseInv
<1>3. /\ incident' = incident /\ (incident # NoIncident => incident \in Incidents(Operatives))
      /\ Finished(incident) => Finished(incident')
  BY <1>1 DEF Finished
<1> QED BY <1>1, <1>2, <1>3, StaysKept, IncidentMoves

---------------------------------------------------------------------------

SystemInv == FusionInv /\ ResponseInv

LEMMA SystemInvInit == Init => SystemInv
BY FusionInvInit, ResponseInvInit DEF Init, SystemInv, FusionInit

LEMMA SystemInvNext == SystemInv /\ [Next]_vars => SystemInv'
<1> SUFFICES ASSUME SystemInv, [Next]_vars PROVE SystemInv'
  OBVIOUS
<1>1. CASE (FusionNext \/ UNCHANGED fusionVars) /\ UNCHANGED responseVars
  <2>1. FusionInv'
    BY <1>1, FusionInvNext DEF SystemInv
  <2>2. ResponseInv'
    BY <1>1, <2>1, FusionOnlyPublishes, FusionKeepsResponse DEF SystemInv, FusionInv
  <2> QED BY <2>1, <2>2 DEF SystemInv
<1>2. CASE ResponseNext /\ UNCHANGED fusionVars
  <2>1. FusionInv' /\ published' = published /\ hypothesis \in HypothesisRow
    BY <1>2, FusionInvNext DEF SystemInv, fusionVars, FusionInv, FusionTypeOK
  <2>2. ASSUME NEW h \in Handlers, HandlerStep(h) PROVE ResponseInv'
    BY <2>1, <2>2, TakeKeeps, CreateKeeps, CatchUpKeeps, HandleUpdateKeeps, EnsureTasksKeeps,
       PreserveKeeps, DispatchKeeps DEF HandlerStep, SystemInv
  <2>3. ASSUME NEW h \in Handlers, FailHandler(h) PROVE ResponseInv'
    <3>1. handling[h] \in Handling /\ handling[h] # Free
      BY <2>3 DEF FailHandler, SystemInv, ResponseInv, ResponseTypes
    <3>2. handling[h].at # "free"
      BY <3>1, HandlingKinds
    <3>3. crashes' \in 0 .. MaxCrashes
      BY <2>3, ResponseAssumption DEF FailHandler, SystemInv, ResponseInv, ResponseTypes
    <3> QED BY <2>1, <2>3, <3>2, <3>3, GiveBackKeeps DEF FailHandler, SystemInv
  <2>4. ASSUME NEW o \in Operatives, LookAtDispatch(o) \/ Acknowledge(o) PROVE ResponseInv'
    BY <2>1, <2>4, LookKeeps, AcknowledgeKeeps DEF SystemInv
  <2>5. CASE MoveStatus
    BY <2>1, <2>5, MoveStatusKeeps DEF SystemInv
  <2> QED BY <1>2, <2>1, <2>2, <2>3, <2>4, <2>5 DEF ResponseNext, SystemInv
<1> QED BY <1>1, <1>2 DEF Next, vars

LEMMA SystemInvHolds == Spec => []SystemInv
BY SystemInvInit, SystemInvNext, PTL DEF Spec

\* The hypothesis, its messages, the incident and the handlers keep their types.
THEOREM IncidentsTypeCorrect == Spec => []TypeOK
<1>1. SystemInv => TypeOK
  BY DEF SystemInv, FusionInv, ResponseInv, ResponseTypes, TypeOK
<1> QED BY <1>1, SystemInvHolds, PTL

\* Two replicas never lose each other's signal: the row holds every applied
\* signal once and was written once for each (fusion.repository: applyEvent).
THEOREM EverySignalCountedHolds == Spec => []EverySignalCounted
<1>1. SystemInv => EverySignalCounted
  BY DEF SystemInv, FusionInv
<1> QED BY <1>1, SystemInvHolds, PTL

\* An incident that stayed critical has its playbook finished once every
\* message was handled and none given up, whichever handlers died
\* (incidents.service: handleCandidate, handleHypothesisUpdate, runProofA).
THEOREM CriticalIsAnsweredHolds == Spec => []CriticalIsAnswered
<1>1. SystemInv => CriticalIsAnswered
  <2> SUFFICES ASSUME SystemInv, Quiet, SpentMessages = {}, incident # NoIncident, incident.critical,
                      ~ relapsed, ~ Finished(incident)
               PROVE  FALSE
    BY DEF CriticalIsAnswered
  <2>1. Owed
    BY DEF Owed
  <2>2. PICK m \in published \ done : Carries(m)
    BY <2>1 DEF SystemInv, ResponseInv, OwedIsCarried
  <2>3. m \in SpentMessages
    BY <2>2 DEF Quiet, SpentMessages
  <2> QED BY <2>3
<1> QED BY <1>1, SystemInvHolds, PTL

---------------------------------------------------------------------------
(* What a step never does to an incident *)

Forward(row, new) ==
  \/ new.dispatch = row.dispatch
  \/ row.dispatch = "ABSENT"    /\ new.dispatch = "REQUESTED"
  \/ row.dispatch = "REQUESTED" /\ new.dispatch = "DELIVERED"
  \/ row.dispatch = "DELIVERED" /\ new.dispatch = "ACKNOWLEDGED"

LEMMA ForwardFacts ==
  ASSUME NEW row \in Incidents(Operatives)
  PROVE  /\ Forward(row, row) /\ Forward(row, WithTasks(row))
         /\ Forward(row, Preserved(row)) /\ Forward(row, HandedOff(row))
         /\ \A status : Forward(row, [ row EXCEPT !.status = status ])
         /\ Delivered(row) => \A o : Forward(row, [ row EXCEPT !.dispatch = "ACKNOWLEDGED", !.acker = o ])
<1>1. Forward(row, WithTasks(row))
  BY DEF Forward, WithTasks, Incidents
<1>2. Forward(row, Preserved(row))
  BY DEF Forward, Preserved, Incidents
<1>3. Forward(row, HandedOff(row))
  BY DEF Forward, HandedOff, Incidents
<1>4. \A status : Forward(row, [ row EXCEPT !.status = status ])
  BY DEF Forward, Incidents
<1>5. Delivered(row) => \A o : Forward(row, [ row EXCEPT !.dispatch = "ACKNOWLEDGED", !.acker = o ])
  BY DEF Forward, Delivered, Incidents
<1> QED BY <1>1, <1>2, <1>3, <1>4, <1>5 DEF Forward

LEMMA AdvancedForward ==
  ASSUME NEW version, NEW critical \in BOOLEAN, incident \in Incidents(Operatives), version \in Nat
  PROVE  Forward(incident, Advanced(version, critical))
<1> DEFINE starts == critical /\ ~ incident.started
           row == [ incident EXCEPT !.version = version, !.critical = critical, !.started = @ \/ starts ]
<1>1. row \in Incidents(Operatives) /\ row.dispatch = incident.dispatch
  BY DEF Incidents
<1>2. Advanced(version, critical) = IF starts THEN WithTasks(row) ELSE row
  BY DEF Advanced
<1> HIDE DEF row, starts
<1>3. Forward(row, WithTasks(row)) /\ Forward(row, row)
  BY <1>1, ForwardFacts
<1> QED BY <1>1, <1>2, <1>3 DEF Forward

Later(row, new) ==
  /\ new.version >= row.version
  /\ new.critical # row.critical => new.version > row.version

\* The one step an incident takes: to a newer assessment, or along its playbook.
LEMMA IncidentStep ==
  ASSUME SystemInv, [Next]_vars, incident # NoIncident
  PROVE  Later(incident, incident') /\ Forward(incident, incident')
<1>1. /\ incident \in Incidents(Operatives) /\ incident.version \in Nat
      /\ handling \in [ Handlers -> Handling ] /\ published \subseteq Messages
  BY DEF SystemInv, ResponseInv, ResponseTypes, Incidents
<1>2. ASSUME NEW new, new.version = incident.version, new.critical = incident.critical
      PROVE  Later(incident, new)
  <2>1. new.version >= incident.version
    BY <1>1, <1>2, LessFacts
  <2> QED BY <1>2, <2>1 DEF Later
<1>3. CASE incident' = incident
  BY <1>1, <1>2, <1>3, ForwardFacts
<1>4. ASSUME NEW h \in Handlers, NEW version \in Nat, NEW critical \in BOOLEAN, Assess(h, version, critical),
             incident' # incident
      PROVE  Later(incident, incident') /\ Forward(incident, incident')
  <2>1. Newer(version) /\ incident' = Advanced(version, critical)
    BY <1>4 DEF Assess
  <2>2. incident'.version = version
    BY <1>1, <2>1, AdvancedFacts
  <2>3. incident.version < version
    BY <2>1 DEF Newer
  <2> QED BY <1>1, <2>1, <2>2, <2>3, AdvancedForward DEF Later
<1>5. ASSUME NEW h \in Handlers, HandlerStep(h), incident' # incident
      PROVE  Later(incident, incident') /\ Forward(incident, incident')
  <2>1. CASE CatchUp(h)
    <3>1. hypothesis.version \in Nat /\ Critical(hypothesis.state, hypothesis.high) \in BOOLEAN
      BY DEF SystemInv, FusionInv, FusionTypeOK, HypothesisRow, Critical
    <3>2. Assess(h, hypothesis.version, Critical(hypothesis.state, hypothesis.high))
      BY <1>5, <2>1 DEF CatchUp
    <3> QED BY <1>4, <1>5, <3>1, <3>2
  <2>2. CASE HandleUpdate(h)
    <3>1. handling[h].at # "free"
      BY <2>2 DEF HandleUpdate
    <3>2. handling[h].message \in Messages
      BY <1>1, <3>1, HolderFacts DEF SystemInv
    <3>3. Assess(h, handling[h].message.version, handling[h].message.critical)
      BY <2>2 DEF HandleUpdate
    <3> QED BY <1>4, <1>5, <3>2, <3>3, MessageFacts
  <2>3. CASE EnsureTasks(h)
    BY <1>1, <1>2, <2>3, WithTasksFacts, ForwardFacts DEF EnsureTasks
  <2>4. CASE Preserve(h)
    BY <1>1, <1>2, <2>4, PreservedFacts, ForwardFacts DEF Preserve
  <2>5. CASE Dispatch(h)
    <3>1. incident.dispatch # "ABSENT"
      <4>1. handling[h].at = "dispatching"
        BY <2>5 DEF Dispatch
      <4> QED BY <4>1 DEF SystemInv, ResponseInv, MayBe
    <3> QED BY <1>1, <1>2, <2>5, <3>1, HandedOffFacts, ForwardFacts DEF Dispatch
  <2> QED BY <1>5, <2>1, <2>2, <2>3, <2>4, <2>5 DEF HandlerStep, Take, CreateFromCandidate
<1>6. ASSUME NEW o \in Operatives, Acknowledge(o)
      PROVE  Later(incident, incident') /\ Forward(incident, incident')
  <2>1. incident' = [ incident EXCEPT !.dispatch = "ACKNOWLEDGED", !.acker = o ] /\ Delivered(incident)
    BY <1>6 DEF Acknowledge, SystemInv, ResponseInv, ReadersSawIt
  <2>2. incident'.version = incident.version /\ incident'.critical = incident.critical
    BY <1>1, <2>1 DEF Incidents
  <2> QED BY <1>1, <1>2, <2>1, <2>2, ForwardFacts
<1>7. CASE MoveStatus
  <2>1. incident' = [ incident EXCEPT !.status = NextStatus(incident.status) ]
    BY <1>7 DEF MoveStatus
  <2>2. incident'.version = incident.version /\ incident'.critical = incident.critical
    BY <1>1, <2>1 DEF Incidents
  <2> QED BY <1>1, <1>2, <2>1, <2>2, ForwardFacts
<1> QED BY <1>3, <1>5, <1>6, <1>7 DEF Next, vars, ResponseNext, responseVars, FailHandler, LookAtDispatch

\* The incident moves to newer assessments only, and changes its severity only
\* with one (incidents.repository: advanceFromHypothesis).
THEOREM NeverOutdatedHolds == Spec => NeverOutdated
<1>1. SystemInv /\ [Next]_vars => [ incident # NoIncident =>
        /\ incident'.version >= incident.version
        /\ incident'.critical # incident.critical => incident'.version > incident.version ]_vars
  BY IncidentStep DEF Later
<1> QED BY <1>1, SystemInvHolds, PTL DEF Spec, NeverOutdated

\* A playbook that runs again, or an acknowledgement that comes late, never
\* takes the dispatch back (incidents.repository: createLocalDispatchHandoff,
\* acknowledgeTask).
THEOREM DispatchMovesForwardHolds == Spec => DispatchMovesForward
<1>1. SystemInv /\ [Next]_vars => [ incident # NoIncident =>
        << incident.dispatch, incident'.dispatch >> \in
          { << "ABSENT", "REQUESTED" >>, << "REQUESTED", "DELIVERED" >>,
            << "DELIVERED", "ACKNOWLEDGED" >> }
          \cup { << d, d >> : d \in DeliveryStates } ]_vars
  <2> SUFFICES ASSUME SystemInv, [Next]_vars, incident # NoIncident
               PROVE  << incident.dispatch, incident'.dispatch >> \in
                        { << "ABSENT", "REQUESTED" >>, << "REQUESTED", "DELIVERED" >>,
                          << "DELIVERED", "ACKNOWLEDGED" >> }
                        \cup { << d, d >> : d \in DeliveryStates }
    OBVIOUS
  <2>1. incident.dispatch \in DeliveryStates
    BY DEF SystemInv, ResponseInv, ResponseTypes, Incidents
  <2> QED BY <2>1, IncidentStep DEF Forward
<1> QED BY <1>1, SystemInvHolds, PTL DEF Spec, DispatchMovesForward

-----------------------------------------------------------------------------
(* The outbox *)

OutboxRows == [ at : Nat, safe : BOOLEAN, marked : BOOLEAN ]

Relays == [ rows : SUBSET Nat, row : Nat ]

OutboxTypes ==
  /\ outbox \in Seq(OutboxRows)
  /\ sent \subseteq DOMAIN outbox
  /\ relaying \in [ Servers -> Relays ]

\* Stamped and committed before row i, and fit to be sent.
Before(k, i) == k < i /\ outbox[k].at < outbox[i].at /\ outbox[k].safe

\* What a sweep still has to send is there, and so is what it has sent and not
\* marked.  A row before one of those is among them or has been on the wire:
\* it was there when the sweep read the table, which takes older stamps first.
Sweeping(s) ==
  LET w == relaying[s]
  IN  /\ w.rows \subseteq DOMAIN outbox
      /\ w.row # 0 => w.row \in sent
      /\ \A i \in w.rows, k \in DOMAIN outbox : Before(k, i) => k \in w.rows \cup sent

EarlierSent == \A j \in sent, i \in DOMAIN outbox : Before(i, j) => i \in sent

MarkedSent == \A i \in DOMAIN outbox : outbox[i].marked => i \in sent

OutboxInv ==
  /\ OutboxTypes /\ EarlierSent /\ MarkedSent
  /\ \A s \in Servers : Sweeping(s)

USE DEF OutboxRows, Relays

---------------------------------------------------------------------------

\* Rewriting an element of a sequence keeps it a sequence of its kind.
LEMMA SeqElement ==
  ASSUME NEW R, NEW q \in Seq(R), NEW i \in DOMAIN q
  PROVE  /\ q[i] \in R
         /\ \A r \in R : /\ [q EXCEPT ![i] = r] \in Seq(R)
                         /\ DOMAIN [q EXCEPT ![i] = r] = DOMAIN q
<1>1. DOMAIN q = 1 .. Len(q) /\ Len(q) \in Nat
  OBVIOUS
<1> QED BY <1>1

\* It holds at first: there is no row.
LEMMA OutboxInvInit == InitPublication => OutboxInv
  BY DEF InitPublication, OutboxInv, OutboxTypes, EarlierSent, MarkedSent, Sweeping, Idle

LEMMA RowsAreRows ==
  ASSUME OutboxTypes, NEW i \in DOMAIN outbox
  PROVE  outbox[i] \in OutboxRows /\ outbox[i].at \in Nat
<1>1. outbox[i] \in OutboxRows
  BY SeqElement DEF OutboxTypes
<1> QED BY <1>1

\* The rows a sweep works on and the order of the row it comes to.
LEMMA SweepFacts ==
  ASSUME OutboxInv, NEW s \in Servers, NEW i, ComesTo(s, i)
  PROVE  /\ relaying[s].rows \in SUBSET Nat /\ relaying[s].rows \subseteq DOMAIN outbox
         /\ i \in relaying[s].rows
         /\ \A k \in relaying[s].rows : ~Before(k, i)
         /\ \A k \in DOMAIN outbox : Before(k, i) => k \in sent
<1>1. /\ relaying[s].rows \in SUBSET Nat /\ relaying[s].rows \subseteq DOMAIN outbox
      /\ i \in relaying[s].rows
      /\ \A k \in relaying[s].rows : outbox[i].at <= outbox[k].at
  BY DEF OutboxInv, OutboxTypes, Sweeping, ComesTo
<1>2. \A k \in DOMAIN outbox : outbox[k].at \in Nat
  BY RowsAreRows DEF OutboxInv
<1>3. \A k \in relaying[s].rows : ~Before(k, i)
  BY <1>1, <1>2 DEF Before
<1> QED BY <1>1, <1>3 DEF OutboxInv, Sweeping

\* A sweep that changes nothing but what it still has to do keeps the
\* invariant, where its own part of it is kept.
LEMMA OnlyRelaying ==
  ASSUME OutboxInv, NEW s \in Servers, NEW w \in Relays,
         relaying' = [relaying EXCEPT ![s] = w], UNCHANGED << outbox, sent >>,
         Sweeping(s)'
  PROVE  OutboxInv'
<1>1. \A r \in Servers \ { s } : Sweeping(r)'
  BY DEF OutboxInv, OutboxTypes, Sweeping, Before
<1>2. OutboxTypes' /\ EarlierSent' /\ MarkedSent'
  BY DEF OutboxInv, OutboxTypes, EarlierSent, MarkedSent, Before
<1> QED BY <1>1, <1>2 DEF OutboxInv

\* A row of which every row before it has been sent may be sent, whatever
\* the sweep does next that keeps its own part of the invariant.
LEMMA OnTheWire ==
  ASSUME OutboxInv, NEW s \in Servers, NEW i \in DOMAIN outbox, NEW w \in Relays,
         \A k \in DOMAIN outbox : Before(k, i) => k \in sent,
         relaying' = [relaying EXCEPT ![s] = w], outbox' = outbox, sent' = sent \cup { i },
         Sweeping(s)'
  PROVE  OutboxInv'
<1>1. \A r \in Servers \ { s } : Sweeping(r)'
  BY DEF OutboxInv, OutboxTypes, Sweeping, Before
<1>2. OutboxTypes' /\ EarlierSent' /\ MarkedSent'
  BY DEF OutboxInv, OutboxTypes, EarlierSent, MarkedSent, Before
<1> QED BY <1>1, <1>2 DEF OutboxInv

\* Every step preserves it.
LEMMA OutboxInvStep == OutboxInv /\ [NextPublication]_publicationVars => OutboxInv'
<1> SUFFICES ASSUME OutboxInv, [NextPublication]_publicationVars PROVE OutboxInv'
  OBVIOUS
<1>0. OutboxTypes /\ EarlierSent /\ MarkedSent /\ \A s \in Servers : Sweeping(s)
  BY DEF OutboxInv
<1>1. ASSUME UNCHANGED outboxVars PROVE OutboxInv'
  BY <1>0, <1>1
  DEF outboxVars, OutboxInv, OutboxTypes, EarlierSent, MarkedSent, Sweeping, Before
<1>2. ASSUME NEW at \in 1 .. MaxStamp, NEW safe \in BOOLEAN, WriteRow(at, safe) PROVE OutboxInv'
  <2> DEFINE new == [ at |-> at, safe |-> safe, marked |-> FALSE ]
  <2>1. /\ outbox' = Append(outbox, new) /\ new \in OutboxRows
        /\ UNCHANGED << sent, relaying >>
    BY <1>2, PublicationAssumption DEF WriteRow
  <2>2. /\ outbox' \in Seq(OutboxRows) /\ Len(outbox) \in Nat
        /\ DOMAIN outbox = 1 .. Len(outbox) /\ DOMAIN outbox' = 1 .. Len(outbox) + 1
        /\ outbox'[Len(outbox) + 1] = new
        /\ \A i \in DOMAIN outbox : outbox'[i] = outbox[i]
    BY <1>0, <2>1 DEF OutboxTypes
  <2>3. OutboxTypes' /\ EarlierSent' /\ MarkedSent'
    BY <1>0, <2>1, <2>2 DEF OutboxTypes, EarlierSent, MarkedSent, Before
  <2>4. \A s \in Servers : Sweeping(s)'
    BY <1>0, <2>1, <2>2 DEF Sweeping, Before
  <2> QED BY <2>3, <2>4 DEF OutboxInv
<1>3. ASSUME NEW s \in Servers, SweepBegin(s) PROVE OutboxInv'
  <2>1. PICK rows \in SUBSET Pending :
          /\ OldestPending(rows)
          /\ relaying' = [relaying EXCEPT ![s] = [ rows |-> rows, row |-> 0 ]]
    BY <1>3 DEF SweepBegin
  <2> DEFINE w == [ rows |-> rows, row |-> 0 ]
  <2>2. Pending \in SUBSET Nat /\ Pending \subseteq DOMAIN outbox
    BY <1>0 DEF OutboxTypes, Pending
  <2>3. w \in Relays /\ relaying'[s] = w
    BY <1>0, <2>1, <2>2 DEF OutboxTypes
  <2>4. \A i \in rows, k \in Pending \ rows : outbox[i].at <= outbox[k].at
    BY <2>1 DEF OldestPending
  <2>5. \A i \in DOMAIN outbox : outbox[i].at \in Nat
    BY <1>0, RowsAreRows
  <2>6. \A i \in rows, k \in DOMAIN outbox : Before(k, i) => k \in rows \cup sent
    BY <1>0, <2>2, <2>4, <2>5 DEF Before, MarkedSent, Pending
  <2>7. UNCHANGED << outbox, sent >>
    BY <1>3 DEF SweepBegin
  <2>8. Sweeping(s)'
    BY <2>2, <2>3, <2>6, <2>7 DEF Sweeping, Before
  <2> QED BY <2>1, <2>3, <2>7, <2>8, OnlyRelaying
<1>4. ASSUME NEW s \in Servers, NEW i \in DOMAIN outbox, SkipUnsafe(s, i) PROVE OutboxInv'
  <2> DEFINE w == WithoutRow(relaying[s].rows, i)
  <2>1. /\ relaying' = [relaying EXCEPT ![s] = w] /\ ~outbox[i].safe
        /\ UNCHANGED << outbox, sent >> /\ ComesTo(s, i)
    BY <1>4 DEF SkipUnsafe
  <2>2. w = [ rows |-> relaying[s].rows \ { i }, row |-> 0 ]
    BY DEF WithoutRow
  <2>3. w \in Relays /\ relaying'[s] = w
    BY <1>0, <2>1, <2>2, SweepFacts DEF OutboxTypes
  <2>4. Sweeping(s)'
    BY <1>0, <2>1, <2>2, <2>3 DEF Sweeping, Before
  <2> QED BY <2>1, <2>3, <2>4, OnlyRelaying
<1>5. ASSUME NEW s \in Servers, NEW i \in DOMAIN outbox, Send(s, i) PROVE OutboxInv'
  <2> DEFINE w == [ rows |-> relaying[s].rows \ { i }, row |-> i ]
  <2>1. /\ relaying' = [relaying EXCEPT ![s] = w] /\ outbox' = outbox
        /\ sent' = sent \cup { i } /\ ComesTo(s, i)
    BY <1>5 DEF Send
  <2>2. w \in Relays /\ relaying'[s] = w
    BY <1>0, <2>1, SweepFacts DEF OutboxTypes
  <2>3. Sweeping(s)'
    BY <1>0, <2>1, <2>2 DEF Sweeping, Before
  <2>4. \A k \in DOMAIN outbox : Before(k, i) => k \in sent
    BY <2>1, SweepFacts
  <2> QED BY <2>1, <2>2, <2>3, <2>4, OnTheWire
<1>6. ASSUME NEW s \in Servers, NEW i \in DOMAIN outbox, SendFails(s, i) PROVE OutboxInv'
  <2>1. /\ relaying' = [relaying EXCEPT ![s] = Idle] /\ outbox' = outbox
        /\ sent' = sent \/ sent' = sent \cup { i }
        /\ ComesTo(s, i)
    BY <1>6 DEF SendFails, AfterFailure
  <2>2. Idle \in Relays /\ relaying'[s] = Idle
    BY <1>0, <2>1 DEF OutboxTypes, Idle
  <2>3. Sweeping(s)'
    BY <2>2 DEF Sweeping, Idle
  <2>4. \A k \in DOMAIN outbox : Before(k, i) => k \in sent
    BY <2>1, SweepFacts
  <2> QED BY <2>1, <2>2, <2>3, <2>4, OnlyRelaying, OnTheWire
<1>7. ASSUME NEW s \in Servers, MarkSent(s) PROVE OutboxInv'
  <2> DEFINE h == relaying[s].row
  <2>1. h \in DOMAIN outbox /\ h \in sent
    BY <1>0, <1>7 DEF MarkSent, Sweeping, OutboxTypes
  <2>2. /\ outbox' = [outbox EXCEPT ![h].marked = TRUE] /\ sent' = sent
        /\ relaying' = [relaying EXCEPT ![s].row = 0]
    BY <1>7 DEF MarkSent
  <2>3. /\ outbox' \in Seq(OutboxRows) /\ DOMAIN outbox' = DOMAIN outbox
        /\ \A i \in DOMAIN outbox : /\ outbox'[i].at = outbox[i].at
                                    /\ outbox'[i].safe = outbox[i].safe
        /\ \A i \in DOMAIN outbox \ { h } : outbox'[i] = outbox[i]
    <3>1. outbox \in Seq(OutboxRows) /\ outbox[h] \in OutboxRows
      BY <1>0, <2>1, SeqElement DEF OutboxTypes
    <3>2. [outbox[h] EXCEPT !.marked = TRUE] \in OutboxRows
      BY <3>1
    <3>3. outbox' = [outbox EXCEPT ![h] = [outbox[h] EXCEPT !.marked = TRUE]]
      BY <2>2
    <3>4. outbox' \in Seq(OutboxRows) /\ DOMAIN outbox' = DOMAIN outbox
      BY <2>1, <3>1, <3>2, <3>3, SeqElement
    <3>5. \A i \in DOMAIN outbox :
            outbox'[i] = IF i = h THEN [outbox[h] EXCEPT !.marked = TRUE] ELSE outbox[i]
      BY <3>1, <3>3
    <3>6. /\ [outbox[h] EXCEPT !.marked = TRUE].at = outbox[h].at
          /\ [outbox[h] EXCEPT !.marked = TRUE].safe = outbox[h].safe
      BY <3>1
    <3> QED BY <3>4, <3>5, <3>6
  <2>4. \A k, i \in DOMAIN outbox : Before(k, i)' <=> Before(k, i)
    BY <2>3 DEF Before
  <2>5. /\ relaying' \in [ Servers -> Relays ]
        /\ \A r \in Servers : relaying'[r].rows = relaying[r].rows
        /\ \A r \in Servers : relaying'[r].row \in { relaying[r].row, 0 }
    BY <1>0, <2>2 DEF OutboxTypes
  <2>6. \A r \in Servers : Sweeping(r)'
    BY <1>0, <2>2, <2>3, <2>4, <2>5 DEF Sweeping
  <2>7. EarlierSent'
    BY <1>0, <2>2, <2>3, <2>4 DEF EarlierSent, OutboxTypes
  <2>8. MarkedSent'
    BY <1>0, <2>1, <2>2, <2>3 DEF MarkedSent
  <2> QED BY <1>0, <2>2, <2>3, <2>5, <2>6, <2>7, <2>8 DEF OutboxInv, OutboxTypes
<1>8. ASSUME NEW s \in Servers, Stop(s) PROVE OutboxInv'
  <2>1. relaying' = [relaying EXCEPT ![s] = Idle] /\ UNCHANGED << outbox, sent >>
    BY <1>8 DEF Stop
  <2>2. Idle \in Relays /\ relaying'[s] = Idle
    BY <1>0, <2>1 DEF OutboxTypes, Idle
  <2>3. Sweeping(s)'
    BY <2>2 DEF Sweeping, Idle
  <2> QED BY <2>1, <2>2, <2>3, OnlyRelaying
<1>9. CASE EventStep
  BY <1>1, <1>9
  DEF EventStep, Lookup, Create, CountDuplicate, PublishNow, MarkNow, EventSweepBegin, EventSweepNext
<1>10. CASE UNCHANGED publicationVars
  BY <1>1, <1>10 DEF publicationVars
<1> QED
  BY <1>2, <1>3, <1>4, <1>5, <1>6, <1>7, <1>8, <1>9, <1>10
  DEF NextPublication, OutboxStep, Relay

\* A row that was stamped and committed before another, and can be sent, is on
\* the wire before it, and only what has been on the wire is marked, although
\* rows are written without a common lock, stamps tie or are out of order, and
\* servers sweep at once, fail half way and stop (field-outbox.publisher,
\* incidents-outbox.publisher: sweep).
THEOREM SentInOrderHolds == SpecPublication => []SentInOrder
<1>1. SpecPublication => []OutboxInv
  BY OutboxInvInit, OutboxInvStep, PTL DEF SpecPublication
<1>2. OutboxInv => SentInOrder
  <2> SUFFICES ASSUME OutboxInv, NEW j \in sent, NEW i \in 1 .. MaxRows,
                      i < j, outbox[i].at < outbox[j].at, outbox[i].safe
               PROVE  i \in sent
    BY DEF OutboxInv, MarkedSent, SentInOrder
  <2>1. i \in DOMAIN outbox
    BY PublicationAssumption DEF OutboxInv, OutboxTypes
  <2> QED BY <2>1 DEF OutboxInv, EarlierSent, Before
<1> QED BY <1>1, <1>2, PTL

---------------------------------------------------------------------------
(* The events *)

CanonicalRows == [ of : Reports, count : Nat, duplicates : SUBSET Reports,
                   order : Nat, marked : BOOLEAN ]

Ingests == [ step : { "new", "create", "count", "publish", "mark", "done" },
             at : Servers \cup { NoEvent }, seen : Nat ]

EventTypes ==
  /\ canonical \in [ EventKeys -> CanonicalRows \cup { NoEvent } ]
  /\ IsFiniteSet(Stored)
  /\ stream \subseteq EventKeys
  /\ ingest \in [ Reports -> Ingests ]
  /\ retrying \in [ Servers -> [ rows : SUBSET EventKeys, step : { "rest", "send" } ] ]

\* A request past the creation has a row; one about to mark it has published
\* it; and only a finished one is among the duplicates.
Taking(x) ==
  /\ ingest[x].step \in { "count", "publish", "mark" } => Row(x) # NoEvent
  /\ ingest[x].step = "mark" => KeyOf[x] \in stream
  /\ ingest[x].step # "done" => \A k \in Stored : x \notin canonical[k].duplicates

Counted(k) ==
  /\ IsFiniteSet(canonical[k].duplicates)
  /\ canonical[k].count = 1 + Cardinality(canonical[k].duplicates)
  /\ canonical[k].marked => k \in stream

EventInv ==
  /\ EventTypes
  /\ \A x \in Reports : Taking(x)
  /\ \A k \in Stored : Counted(k)
  /\ \A s \in Servers : retrying[s].rows \subseteq Stored

USE DEF CanonicalRows, Ingests

LEMMA EventInvInit == InitPublication => EventInv
<1> SUFFICES ASSUME InitPublication PROVE EventInv
  OBVIOUS
<1>1. Stored = {}
  BY DEF InitPublication, Stored
<1> QED BY <1>1, FS_EmptySet DEF InitPublication, EventInv, EventTypes, Taking, Rest

\* A stored key has a row of the table.
LEMMA StoredRow ==
  ASSUME EventTypes, NEW k \in EventKeys
  PROVE  k \in Stored <=> canonical[k] \in CanonicalRows
  BY PublicationAssumption DEF EventTypes, Stored

\* A step that only moves requests and sweeps on, to where the rows allow.
LEMMA RowsKept ==
  ASSUME EventInv, canonical' = canonical, stream \subseteq stream', stream' \subseteq EventKeys
  PROVE  /\ Stored' = Stored
         /\ \A k \in Stored : Counted(k)'
         /\ canonical' \in [ EventKeys -> CanonicalRows \cup { NoEvent } ]
         /\ IsFiniteSet(Stored')
  BY DEF EventInv, EventTypes, Counted, Stored

\* A request that moves on, or takes what it saw of its row, stays a request.
LEMMA IngestTyped ==
  ASSUME EventTypes, NEW x \in Reports, NEW n \in Nat,
         NEW t \in { "new", "create", "count", "publish", "mark", "done" },
         \/ ingest' = [ingest EXCEPT ![x].step = t]
         \/ ingest' = [ingest EXCEPT ![x].step = t, ![x].seen = n]
  PROVE  ingest' \in [ Reports -> Ingests ]
<1>1. ingest \in [ Reports -> Ingests ] /\ ingest[x] \in Ingests
  BY DEF EventTypes
<1>2. /\ [ingest[x] EXCEPT !.step = t] \in Ingests
      /\ [ingest[x] EXCEPT !.step = t, !.seen = n] \in Ingests
  BY <1>1
<1>3. PICK request \in Ingests : ingest' = [ingest EXCEPT ![x] = request]
  BY <1>2
<1> QED BY <1>1, <1>3

\* Every step preserves it.
LEMMA EventInvStep == EventInv /\ [NextPublication]_publicationVars => EventInv'
<1> SUFFICES ASSUME EventInv, [NextPublication]_publicationVars PROVE EventInv'
  OBVIOUS
<1>0. /\ EventTypes
      /\ \A x \in Reports : Taking(x) /\ KeyOf[x] \in EventKeys
      /\ \A k \in Stored : Counted(k) /\ k \in EventKeys
      /\ \A s \in Servers : retrying[s].rows \subseteq Stored
  BY DEF EventInv, EventKeys, Stored
<1>1. ASSUME UNCHANGED eventVars PROVE EventInv'
  BY <1>0, <1>1 DEF eventVars, EventInv, EventTypes, Taking, Counted, Stored, Row
<1>2. ASSUME NEW x \in Reports, NEW s \in Servers, Lookup(x, s) PROVE EventInv'
  <2>1. /\ UNCHANGED << canonical, stream, retrying >> /\ ingest[x].step = "new"
        /\ ingest' = [ingest EXCEPT ![x] =
             IF Row(x) = NoEvent THEN [ step |-> "create", at |-> s, seen |-> 0 ]
             ELSE [ step |-> "count", at |-> s, seen |-> Row(x).count ]]
    BY <1>2 DEF Lookup
  <2>2. Row(x) # NoEvent => Row(x).count \in Nat
    BY <1>0 DEF EventTypes, Row
  <2>3. ingest' \in [ Reports -> Ingests ]
    BY <1>0, <2>1, <2>2 DEF EventTypes
  <2>4. \A y \in Reports : Taking(y)'
    BY <1>0, <2>1 DEF Taking, Row, Stored, EventTypes
  <2> QED BY <1>0, <2>1, <2>3, <2>4, RowsKept DEF EventInv, EventTypes
<1>3. ASSUME NEW x \in Reports, Create(x) PROVE EventInv'
  <2> DEFINE new == [ of |-> x, count |-> 1, duplicates |-> {},
                      order |-> Cardinality(Stored), marked |-> FALSE ]
  <2>1. ingest[x].step = "create" /\ UNCHANGED << stream, retrying >>
    BY <1>3 DEF Create
  <2>2. CASE Row(x) = NoEvent
    <3>1. /\ canonical' = [canonical EXCEPT ![KeyOf[x]] = new]
          /\ ingest' = [ingest EXCEPT ![x].step = "publish"]
      BY <1>3, <2>2 DEF Create, Goes
    <3>2. new \in CanonicalRows
      BY <1>0, FS_CardinalityType DEF EventTypes
    <3>3. canonical' \in [ EventKeys -> CanonicalRows \cup { NoEvent } ] /\ canonical'[KeyOf[x]] = new
      BY <1>0, <3>1, <3>2 DEF EventTypes
    <3>4. Stored' = Stored \cup { KeyOf[x] }
      <4>1. /\ canonical'[KeyOf[x]] # NoEvent
            /\ \A k \in EventKeys \ { KeyOf[x] } : canonical'[k] = canonical[k]
        BY <1>0, <3>1, <3>2, <3>3, PublicationAssumption DEF EventTypes
      <4>2. KeyOf[x] \in EventKeys
        BY DEF EventKeys
      <4> QED BY <4>1, <4>2 DEF Stored
    <3>5. IsFiniteSet(Stored')
      BY <1>0, <3>4, FS_AddElement DEF EventTypes
    <3>6. ingest' \in [ Reports -> Ingests ]
      BY <1>0, <3>1 DEF EventTypes
    <3>7. \A k \in Stored' : Counted(k)'
      <4>1. new.duplicates = {} /\ new.count = 1 /\ new.marked = FALSE
        OBVIOUS
      <4>2. Counted(KeyOf[x])'
        BY <3>3, <4>1, FS_EmptySet DEF Counted
      <4>3. ASSUME NEW k \in Stored, k # KeyOf[x] PROVE Counted(k)'
        <5>1. canonical'[k] = canonical[k]
          BY <1>0, <3>1, <4>3 DEF EventTypes
        <5> QED BY <1>0, <2>1, <5>1 DEF Counted
      <4> QED BY <3>4, <4>2, <4>3
    <3>8. \A y \in Reports : Taking(y)'
      <4>1. \A k \in EventKeys : canonical'[k] = IF k = KeyOf[x] THEN new ELSE canonical[k]
        BY <1>0, <3>1 DEF EventTypes
      <4>2. \A k \in Stored', y \in Reports :
              y \in canonical'[k].duplicates => k \in Stored /\ y \in canonical[k].duplicates
        BY <1>0, <3>4, <4>1
      <4>3. \A y \in Reports : Row(y) # NoEvent => Row(y)' # NoEvent
        BY <1>0, <3>2, <4>1, PublicationAssumption DEF Row
      <4>4. Row(x)' # NoEvent
        BY <1>0, <3>2, <3>3, PublicationAssumption DEF Row
      <4>5. \A y \in Reports : y # x => ingest'[y] = ingest[y]
        BY <1>0, <3>1 DEF EventTypes
      <4>6. ingest'[x].step = "publish"
        BY <1>0, <3>1 DEF EventTypes
      <4> QED BY <1>0, <2>1, <4>2, <4>3, <4>4, <4>5, <4>6 DEF Taking
    <3> QED BY <1>0, <2>1, <3>3, <3>4, <3>5, <3>6, <3>7, <3>8 DEF EventInv, EventTypes
  <2>3. CASE Row(x) # NoEvent
    <3>1. /\ UNCHANGED canonical
          /\ ingest' = [ingest EXCEPT ![x].step = "count", ![x].seen = Row(x).count]
      BY <1>3, <2>3 DEF Create
    <3>2. Row(x).count \in Nat
      BY <1>0, <2>3 DEF EventTypes, Row
    <3>3. ingest' \in [ Reports -> Ingests ]
      BY <1>0, <3>1, <3>2, IngestTyped
    <3>4. \A y \in Reports : Taking(y)'
      BY <1>0, <2>1, <2>3, <3>1 DEF Taking, Row, Stored, EventTypes
    <3> QED BY <1>0, <2>1, <3>1, <3>3, <3>4, RowsKept DEF EventInv, EventTypes
  <2> QED BY <2>2, <2>3
<1>4. ASSUME NEW x \in Reports, CountDuplicate(x) PROVE EventInv'
  <2> DEFINE key == KeyOf[x]
             old == canonical[key]
             new == [old EXCEPT !.count = old.count + 1, !.duplicates = old.duplicates \cup { x }]
  <2>1. /\ ingest[x].step = "count" /\ UNCHANGED << stream, retrying >>
        /\ ingest' = [ingest EXCEPT ![x].step = "done"]
    BY <1>4 DEF CountDuplicate, Goes
  <2>2. key \in Stored /\ key \in EventKeys /\ old \in CanonicalRows /\ x \notin old.duplicates
    BY <1>0, <2>1, StoredRow DEF Taking, Row, Stored
  <2>3. canonical' = [canonical EXCEPT ![key] = new]
    BY <1>0, <1>4, <2>2 DEF CountDuplicate, Incremented, Row, EventTypes
  <2>4. new \in CanonicalRows
    <3> HIDE DEF old
    <3>1. old.count + 1 \in Nat /\ old.duplicates \cup { x } \in SUBSET Reports
      BY <2>2
    <3> QED BY <2>2, <3>1
  <2>5. /\ canonical' \in [ EventKeys -> CanonicalRows \cup { NoEvent } ]
        /\ \A k \in EventKeys : canonical'[k] = IF k = key THEN new ELSE canonical[k]
    BY <1>0, <2>3, <2>4 DEF EventTypes
  <2>6. Stored' = Stored
    BY <2>2, <2>4, <2>5, PublicationAssumption DEF Stored
  <2>7. Counted(key)'
    <3>1. /\ new.duplicates = old.duplicates \cup { x } /\ new.count = old.count + 1
          /\ new.marked = old.marked
      BY <2>2
    <3>2. Counted(key)
      BY <1>0, <2>2
    <3>3. /\ IsFiniteSet(new.duplicates)
          /\ Cardinality(new.duplicates) = Cardinality(old.duplicates) + 1
          /\ Cardinality(old.duplicates) \in Nat
      BY <2>2, <3>1, <3>2, FS_AddElement, FS_CardinalityType DEF Counted
    <3>4. canonical'[key] = new /\ canonical[key] = old
      BY <2>2, <2>5
    <3>5. /\ old.count = 1 + Cardinality(old.duplicates)
          /\ old.marked => key \in stream'
      BY <2>1, <3>2, <3>4 DEF Counted
    <3> HIDE DEF new, old, key
    <3>6. new.count = 1 + Cardinality(new.duplicates)
      BY <3>1, <3>3, <3>5
    <3>7. IsFiniteSet(new.duplicates) /\ (new.marked => key \in stream')
      BY <3>1, <3>3, <3>5
    <3> QED BY <3>4, <3>6, <3>7 DEF Counted
  <2>8. \A k \in Stored' : Counted(k)'
    BY <1>0, <2>1, <2>5, <2>6, <2>7 DEF Counted
  <2>9. ingest' \in [ Reports -> Ingests ] /\ ingest'[x].step = "done"
        /\ \A y \in Reports \ { x } : ingest'[y] = ingest[y]
    BY <1>0, <2>1 DEF EventTypes
  <2>10. \A y \in Reports : Taking(y)'
    <3>1. ASSUME NEW y \in Reports, y # x PROVE Taking(y)'
      <4>1. \A k \in Stored : y \in canonical'[k].duplicates => y \in canonical[k].duplicates
        <5>1. new.duplicates = old.duplicates \cup { x }
          BY <2>2
        <5> HIDE DEF new
        <5> QED BY <1>0, <2>2, <2>5, <3>1, <5>1
      <4>2. Row(y) # NoEvent => Row(y)' # NoEvent
        BY <1>0, <2>4, <2>5, PublicationAssumption DEF Row
      <4> QED BY <1>0, <2>1, <2>6, <2>9, <3>1, <4>1, <4>2 DEF Taking
    <3>2. Taking(x)'
      BY <2>9 DEF Taking
    <3> QED BY <3>1, <3>2
  <2> QED BY <1>0, <2>1, <2>5, <2>6, <2>8, <2>9, <2>10 DEF EventInv, EventTypes
<1>5. ASSUME NEW x \in Reports, PublishNow(x) PROVE EventInv'
  <2>1. /\ UNCHANGED << canonical, retrying >> /\ ingest[x].step = "publish"
        /\ stream \subseteq stream' /\ stream' \subseteq EventKeys
        /\ \/ /\ ingest' = [ingest EXCEPT ![x].step = "mark"] /\ KeyOf[x] \in stream'
           \/ ingest' = [ingest EXCEPT ![x].step = "done"]
    BY <1>0, <1>5 DEF PublishNow, Goes, EventTypes
  <2>2. ingest' \in [ Reports -> Ingests ]
    BY <1>0, <2>1, IngestTyped
  <2>3. Row(x) # NoEvent
    BY <1>0, <2>1 DEF Taking
  <2>4. \A y \in Reports \ { x } : ingest'[y] = ingest[y]
    BY <1>0, <2>1 DEF EventTypes
  <2>5. \/ ingest'[x].step = "mark" /\ KeyOf[x] \in stream'
        \/ ingest'[x].step = "done"
    BY <1>0, <2>1 DEF EventTypes
  <2>6. \A y \in Reports : Taking(y)'
    BY <1>0, <2>1, <2>3, <2>4, <2>5 DEF Taking, Row, Stored
  <2> QED BY <1>0, <2>1, <2>2, <2>6, RowsKept DEF EventInv, EventTypes
<1>6. ASSUME NEW k \in Stored, k \in stream', UNCHANGED << ingest >>,
             stream \subseteq stream', stream' \subseteq EventKeys,
             \A s \in Servers : retrying'[s].rows \subseteq Stored,
             retrying' \in [ Servers -> [ rows : SUBSET EventKeys, step : { "rest", "send" } ] ],
             canonical' = [canonical EXCEPT ![k].marked = TRUE]
      PROVE  EventInv'
  <2> DEFINE new == [canonical[k] EXCEPT !.marked = TRUE]
  <2>1. canonical[k] \in CanonicalRows /\ k \in EventKeys
    BY <1>0, StoredRow
  <2>2. new \in CanonicalRows /\ new.duplicates = canonical[k].duplicates
        /\ new.count = canonical[k].count
    BY <2>1
  <2>3. /\ canonical' \in [ EventKeys -> CanonicalRows \cup { NoEvent } ]
        /\ \A j \in EventKeys : canonical'[j] = IF j = k THEN new ELSE canonical[j]
    BY <1>0, <1>6, <2>1, <2>2 DEF EventTypes
  <2>4. Stored' = Stored
    BY <2>1, <2>2, <2>3, PublicationAssumption DEF Stored
  <2>5. \A j \in Stored : Counted(j)'
    <3> HIDE DEF new
    <3>1. ASSUME NEW j \in Stored, j # k PROVE Counted(j)'
      BY <1>0, <1>6, <2>3, <3>1 DEF Counted
    <3>2. Counted(k)'
      BY <1>0, <1>6, <2>2, <2>3 DEF Counted
    <3> QED BY <3>1, <3>2
  <2>6. \A y \in Reports : Taking(y)'
    <3> HIDE DEF new
    <3>1. \A j \in Stored : canonical'[j].duplicates = canonical[j].duplicates
      BY <1>0, <2>2, <2>3
    <3>2. \A y \in Reports : Row(y) # NoEvent => Row(y)' # NoEvent
      BY <1>0, <2>2, <2>3, PublicationAssumption DEF Row
    <3> QED BY <1>0, <1>6, <2>4, <3>1, <3>2 DEF Taking
  <2> QED BY <1>0, <1>6, <2>3, <2>4, <2>5, <2>6 DEF EventInv, EventTypes
<1>7. ASSUME NEW x \in Reports, MarkNow(x) PROVE EventInv'
  <2>1. /\ KeyOf[x] \in Stored /\ KeyOf[x] \in stream /\ ingest[x].step = "mark"
    BY <1>0, <1>7 DEF MarkNow, Taking, Row, Stored
  <2> DEFINE k == KeyOf[x]
             new == [canonical[k] EXCEPT !.marked = TRUE]
  <2>2. /\ canonical' = [canonical EXCEPT ![k].marked = TRUE] /\ UNCHANGED << stream, retrying >>
        /\ ingest' = [ingest EXCEPT ![x].step = "done"]
    BY <1>7 DEF MarkNow, Goes
  <2>3. canonical[k] \in CanonicalRows /\ k \in EventKeys
    BY <1>0, <2>1, StoredRow
  <2>4. new \in CanonicalRows /\ new.duplicates = canonical[k].duplicates
        /\ new.count = canonical[k].count
    BY <2>3
  <2>5. /\ canonical' \in [ EventKeys -> CanonicalRows \cup { NoEvent } ]
        /\ \A j \in EventKeys : canonical'[j] = IF j = k THEN new ELSE canonical[j]
    BY <1>0, <2>2, <2>3, <2>4 DEF EventTypes
  <2>6. Stored' = Stored
    BY <2>3, <2>4, <2>5, PublicationAssumption DEF Stored
  <2>7. ingest' \in [ Reports -> Ingests ] /\ ingest'[x].step = "done"
        /\ \A y \in Reports \ { x } : ingest'[y] = ingest[y]
    BY <1>0, <2>2 DEF EventTypes
  <2>8. \A j \in Stored : Counted(j)'
    <3> HIDE DEF new, k
    <3>1. ASSUME NEW j \in Stored, j # k PROVE Counted(j)'
      BY <1>0, <2>2, <2>5, <3>1 DEF Counted
    <3>2. k \in Stored /\ k \in stream
      BY <2>1 DEF k
    <3>3. Counted(k)'
      BY <1>0, <2>2, <2>3, <2>4, <2>5, <3>2 DEF Counted
    <3> QED BY <3>1, <3>3
  <2>9. \A y \in Reports : Taking(y)'
    <3> HIDE DEF new, k
    <3>1. \A j \in Stored : canonical'[j].duplicates = canonical[j].duplicates
      BY <1>0, <2>4, <2>5
    <3>2. \A y \in Reports : Row(y) # NoEvent => Row(y)' # NoEvent
      BY <1>0, <2>4, <2>5, PublicationAssumption DEF Row
    <3> QED BY <1>0, <2>2, <2>6, <2>7, <3>1, <3>2 DEF Taking
  <2> QED BY <1>0, <2>2, <2>5, <2>6, <2>7, <2>8, <2>9 DEF EventInv, EventTypes
<1>8. ASSUME NEW s \in Servers, EventSweepBegin(s) PROVE EventInv'
  <2> DEFINE batch == { k \in Overdue :
               Cardinality({ j \in Overdue : canonical[j].order < canonical[k].order }) < EventBatch }
  <2>1. /\ UNCHANGED << canonical, stream, ingest >>
        /\ retrying' = [retrying EXCEPT ![s] = [ step |-> "send", rows |-> batch ]]
    BY <1>8 DEF EventSweepBegin
  <2>2. batch \subseteq Stored /\ Stored \subseteq EventKeys
    BY DEF Overdue, Stored
  <2> HIDE DEF batch
  <2>3. /\ retrying' \in [ Servers -> [ rows : SUBSET EventKeys, step : { "rest", "send" } ] ]
        /\ \A r \in Servers : retrying'[r].rows \subseteq Stored
    BY <1>0, <2>1, <2>2 DEF EventTypes
  <2>4. \A y \in Reports : Taking(y)'
    BY <1>0, <2>1 DEF Taking, Row, Stored
  <2> QED BY <1>0, <2>1, <2>3, <2>4, RowsKept DEF EventInv, EventTypes
<1>9. ASSUME NEW s \in Servers, NEW k \in EventKeys, EventSweepNext(s, k) PROVE EventInv'
  <2> DEFINE rest == retrying[s].rows \ { k }
  <2>1. /\ k \in Stored /\ UNCHANGED ingest
        /\ retrying' = [retrying EXCEPT ![s] = IF rest = {} THEN Rest ELSE [@ EXCEPT !.rows = rest]]
    BY <1>0, <1>9 DEF EventSweepNext
  <2>2. /\ retrying' \in [ Servers -> [ rows : SUBSET EventKeys, step : { "rest", "send" } ] ]
        /\ \A r \in Servers : retrying'[r].rows \subseteq Stored
    BY <1>0, <2>1 DEF EventTypes, Rest
  <2>3. /\ stream \subseteq stream' /\ stream' \subseteq EventKeys
        /\ \/ canonical' = canonical
           \/ k \in stream' /\ canonical' = [canonical EXCEPT ![k].marked = TRUE]
    BY <1>0, <1>9 DEF EventSweepNext, Published, EventTypes
  <2>4. CASE canonical' = canonical
    <3>1. \A y \in Reports : Taking(y)'
      BY <1>0, <2>1, <2>3, <2>4 DEF Taking, Row, Stored
    <3> QED BY <1>0, <2>1, <2>2, <2>3, <2>4, <3>1, RowsKept DEF EventInv, EventTypes
  <2>5. CASE k \in stream' /\ canonical' = [canonical EXCEPT ![k].marked = TRUE]
    BY <1>6, <2>1, <2>2, <2>3, <2>5
  <2> QED BY <2>3, <2>4, <2>5
<1>10. ASSUME NEW s \in Servers, Stop(s) PROVE EventInv'
  <2>1. /\ UNCHANGED << canonical, stream >>
        /\ ingest' = [x \in Reports |-> IF ingest[x].at = s THEN [ingest[x] EXCEPT !.step = "done"]
                                        ELSE ingest[x]]
        /\ retrying' = [retrying EXCEPT ![s] = Rest]
    BY <1>10 DEF Stop
  <2>2. ingest' \in [ Reports -> Ingests ]
    BY <1>0, <2>1 DEF EventTypes
  <2>3. /\ retrying' \in [ Servers -> [ rows : SUBSET EventKeys, step : { "rest", "send" } ] ]
        /\ \A r \in Servers : retrying'[r].rows \subseteq Stored
    BY <1>0, <2>1 DEF EventTypes, Rest
  <2>4. ASSUME NEW y \in Reports PROVE Taking(y)'
    <3>1. ingest'[y].step = "done" \/ ingest'[y] = ingest[y]
      BY <1>0, <2>1 DEF EventTypes
    <3> QED BY <1>0, <2>1, <3>1 DEF Taking, Row, Stored
  <2> QED BY <1>0, <2>1, <2>2, <2>3, <2>4, RowsKept DEF EventInv, EventTypes
<1>11. CASE OutboxStep
  BY <1>1, <1>11
  DEF OutboxStep, Relay, WriteRow, SweepBegin, SkipUnsafe, Send, SendFails, MarkSent
<1>12. CASE UNCHANGED publicationVars
  BY <1>1, <1>12 DEF publicationVars
<1> QED
  BY <1>2, <1>3, <1>4, <1>5, <1>7, <1>8, <1>9, <1>10, <1>11, <1>12
  DEF NextPublication, EventStep

\* A canonical event counts the deliveries of its key that were recorded, none
\* twice and none lost, and is marked only when the stream holds it, whichever
\* lookups, creations, sweeps and stops interleave (events.service: ingest;
\* events.repository: recordDuplicateDelivery).
THEOREM DeliveriesAreCountedHolds == SpecPublication => []DeliveriesAreCounted
<1>1. SpecPublication => []EventInv
  BY EventInvInit, EventInvStep, PTL DEF SpecPublication
<1>2. EventInv => DeliveriesAreCounted
  BY DEF EventInv, Counted, DeliveriesAreCounted
<1> QED BY <1>1, <1>2, PTL

-----------------------------------------------------------------------------
(* The evidence store *)

Steps == { "idle", "put", "row", "derive", "derived", "recorded", "done" }

Rows  == [ id : Workers, task : ResponseTasks \cup {NoEvidence}, from : Workers \cup {NoEvidence} ]

Calls == [ step : Steps, task : ResponseTasks \cup {NoEvidence},
           of : Workers \cup {NoEvidence}, answer : Workers \cup {NoEvidence} ]

EvidenceTypes ==
  /\ objects \subseteq Workers /\ evidence \subseteq Rows
  /\ calls \in [ Workers -> Calls ]

\* A call that has not written its row has no row, so removing its object
\* takes no row's content; past its put the object is there; a call for a
\* task has no answer before its end, and a derivation is from a real row.
Underway(w) ==
  /\ calls[w].step = "idle" => calls[w] = NoCall
  /\ calls[w].step \in { "idle", "put", "row", "derive" } =>
       \A row \in evidence : row.id # w
  /\ calls[w].step \in { "row", "derive" } => w \in objects
  /\ calls[w].step \in { "put", "row" } =>
       calls[w].task \in ResponseTasks /\ calls[w].answer = NoEvidence
  /\ calls[w].step \in { "derive", "derived", "recorded" } =>
       calls[w].task = NoEvidence /\ calls[w].of \in Workers

HasContent  == \A row \in evidence : row.id \in objects
InCustody   == \A row \in evidence : row.from = NoEvidence => << row.id, "INGESTED" >> \in custody
OnePerTask  == \A task \in ResponseTasks : \A r1, r2 \in SnapshotsOf(task) : r1 = r2
WellAnswered ==
  \A w \in Workers :
    (calls[w].task \in ResponseTasks /\ calls[w].answer # NoEvidence) =>
      \E row \in SnapshotsOf(calls[w].task) : row.id = calls[w].answer

EvidenceInv ==
  /\ EvidenceTypes
  /\ \A w \in Workers : Underway(w)
  /\ HasContent /\ InCustody /\ OnePerTask /\ WellAnswered

USE DEF Steps, Rows, Calls

---------------------------------------------------------------------------

\* It holds at first: nothing is stored.
LEMMA EvidenceInvInit == InitEvidence => EvidenceInv
  BY EvidenceAssumption
  DEF InitEvidence, EvidenceInv, EvidenceTypes, Underway, NoCall, HasContent,
      InCustody, OnePerTask, WellAnswered, SnapshotsOf

\* A call that only notes where it is, and neither rows nor objects change.
LEMMA EvidenceKept ==
  ASSUME EvidenceInv, UNCHANGED << objects, evidence >>, custody \subseteq custody'
  PROVE  HasContent' /\ InCustody' /\ OnePerTask'
  BY DEF EvidenceInv, HasContent, InCustody, OnePerTask, SnapshotsOf

\* A call that takes its answer, or the row it derives from, stays a call.
LEMMA CallTyped ==
  ASSUME EvidenceTypes, NEW w \in Workers, NEW t \in Steps, NEW v \in Workers,
         \/ calls' = [calls EXCEPT ![w].step = t, ![w].answer = v]
         \/ calls' = [calls EXCEPT ![w].step = t, ![w].of = v]
  PROVE  calls' \in [ Workers -> Calls ]
<1>1. calls \in [ Workers -> Calls ] /\ calls[w] \in Calls
  BY DEF EvidenceTypes
<1> DEFINE answered == [calls[w] EXCEPT !.step = t, !.answer = v]
           derived == [calls[w] EXCEPT !.step = t, !.of = v]
<1>2. answered \in Calls
  BY <1>1
<1>3. derived \in Calls
  BY <1>1
<1>4. calls' = [calls EXCEPT ![w] = answered] \/ calls' = [calls EXCEPT ![w] = derived]
  OBVIOUS
<1> HIDE DEF answered, derived, Calls
<1> QED BY <1>1, <1>2, <1>3, <1>4

\* Every step preserves it.
LEMMA EvidenceInvStep == EvidenceInv /\ [NextEvidence]_evidenceVars => EvidenceInv'
<1> SUFFICES ASSUME EvidenceInv, [NextEvidence]_evidenceVars PROVE EvidenceInv'
  OBVIOUS
<1>0. /\ EvidenceTypes /\ HasContent /\ InCustody /\ OnePerTask /\ WellAnswered
      /\ \A w \in Workers : Underway(w)
  BY DEF EvidenceInv
<1>1. ASSUME NEW w \in Workers, NEW task \in ResponseTasks, LookForSnapshot(w, task)
      PROVE  EvidenceInv'
  <2>1. calls[w] = NoCall
    BY <1>0, <1>1 DEF LookForSnapshot, Underway
  <2>2. EvidenceTypes'
    BY <1>0, <1>1 DEF LookForSnapshot, EvidenceTypes, SnapshotsOf
  <2>3. HasContent' /\ InCustody' /\ OnePerTask'
    BY <1>1, EvidenceKept DEF LookForSnapshot
  <2>4. WellAnswered'
    BY <1>0, <1>1, <2>1 DEF LookForSnapshot, WellAnswered, SnapshotsOf, EvidenceTypes, NoCall
  <2>5. \A v \in Workers : Underway(v)'
    BY <1>0, <1>1, <2>1 DEF LookForSnapshot, Underway, EvidenceTypes, NoCall
  <2> QED BY <2>2, <2>3, <2>4, <2>5 DEF EvidenceInv
<1>2. ASSUME NEW w \in Workers, PutObject(w) PROVE EvidenceInv'
  <2>1. EvidenceTypes' /\ HasContent' /\ InCustody' /\ OnePerTask'
    BY <1>0, <1>2 DEF PutObject, Call, EvidenceTypes, HasContent, InCustody, OnePerTask, SnapshotsOf
  <2>2. WellAnswered'
    BY <1>0, <1>2 DEF PutObject, Call, EvidenceTypes, WellAnswered, SnapshotsOf
  <2>3. \A v \in Workers : Underway(v)'
    BY <1>0, <1>2 DEF PutObject, Call, EvidenceTypes, Underway
  <2> QED BY <2>1, <2>2, <2>3 DEF EvidenceInv
<1>3. ASSUME NEW w \in Workers, CreateRow(w) PROVE EvidenceInv'
  <2> DEFINE new == [ id |-> w, task |-> calls[w].task, from |-> NoEvidence ]
  <2>1. /\ w \in objects /\ calls[w].task \in ResponseTasks
        /\ evidence' = evidence \cup { new } /\ SnapshotsOf(new.task) = {}
    BY <1>0, <1>3 DEF CreateRow, Underway
  <2>2. EvidenceTypes'
    <3>1. new \in Rows
      BY <2>1
    <3>2. objects' \subseteq Workers /\ evidence' \subseteq Rows
      BY <1>0, <1>3, <2>1, <3>1 DEF CreateRow, EvidenceTypes
    <3>3. calls' \in [ Workers -> Calls ]
      BY <1>0, <1>3, CallTyped DEF CreateRow
    <3> QED BY <3>2, <3>3 DEF EvidenceTypes
  <2>6. HasContent' /\ InCustody'
    BY <1>0, <1>3, <2>1 DEF CreateRow, HasContent, InCustody
  <2>3. OnePerTask'
    BY <1>0, <2>1 DEF OnePerTask, SnapshotsOf
  <2>4. WellAnswered'
    BY <1>0, <1>3, <2>1 DEF CreateRow, EvidenceTypes, WellAnswered, SnapshotsOf
  <2>5. \A v \in Workers : Underway(v)'
    BY <1>0, <1>3, <2>1 DEF CreateRow, EvidenceTypes, Underway
  <2> QED BY <2>2, <2>3, <2>4, <2>5, <2>6 DEF EvidenceInv
<1>4. ASSUME NEW w \in Workers, YieldToWinner(w) PROVE EvidenceInv'
  <2>1. /\ \A row \in evidence : row.id # w
        /\ objects' = objects \ { w }
    BY <1>0, <1>4 DEF YieldToWinner, Underway, Uncommitted
  <2>2. PICK row \in SnapshotsOf(calls[w].task) :
          calls' = [calls EXCEPT ![w].step = "done", ![w].answer = row.id]
    BY <1>4 DEF YieldToWinner
  <2>3. EvidenceTypes'
    <3>1. row.id \in Workers
      BY <1>0 DEF EvidenceTypes, SnapshotsOf
    <3>2. objects' \subseteq Workers /\ evidence' \subseteq Rows
      BY <1>0, <1>4, <2>1 DEF YieldToWinner, EvidenceTypes
    <3>3. calls' \in [ Workers -> Calls ]
      BY <1>0, <2>2, <3>1, CallTyped
    <3> QED BY <3>2, <3>3 DEF EvidenceTypes
  <2>6. HasContent' /\ InCustody' /\ OnePerTask'
    BY <1>0, <1>4, <2>1 DEF YieldToWinner, HasContent, InCustody, OnePerTask, SnapshotsOf
  <2>4. WellAnswered'
    BY <1>0, <1>4, <2>2 DEF YieldToWinner, EvidenceTypes, WellAnswered, SnapshotsOf
  <2>5. \A v \in Workers : Underway(v)'
    BY <1>0, <1>4, <2>1, <2>2 DEF YieldToWinner, EvidenceTypes, Underway
  <2> QED BY <2>3, <2>4, <2>5, <2>6 DEF EvidenceInv
<1>5. ASSUME NEW w \in Workers, BeginDerivation(w) PROVE EvidenceInv'
  <2>1. calls[w] = NoCall
    BY <1>0, <1>5 DEF BeginDerivation, Underway
  <2>2. EvidenceTypes'
    <3>1. \A row \in evidence : row.id \in Workers
      BY <1>0 DEF EvidenceTypes
    <3>2. objects' \subseteq Workers /\ evidence' \subseteq Rows
      BY <1>0, <1>5 DEF BeginDerivation, EvidenceTypes
    <3>3. PICK row \in evidence : calls' = [calls EXCEPT ![w].step = "derive", ![w].of = row.id]
      BY <1>5 DEF BeginDerivation
    <3>4. calls' \in [ Workers -> Calls ]
      BY <1>0, <3>1, <3>3, CallTyped
    <3> QED BY <3>2, <3>4 DEF EvidenceTypes
  <2>5. HasContent' /\ InCustody' /\ OnePerTask'
    BY <1>0, <1>5 DEF BeginDerivation, HasContent, InCustody, OnePerTask, SnapshotsOf
  <2>3. WellAnswered'
    BY <1>0, <1>5, <2>1 DEF BeginDerivation, EvidenceTypes, WellAnswered, SnapshotsOf, NoCall
  <2>4. \A v \in Workers : Underway(v)'
    BY <1>0, <1>5, <2>1 DEF BeginDerivation, EvidenceTypes, Underway, NoCall
  <2> QED BY <2>2, <2>3, <2>4, <2>5 DEF EvidenceInv
<1>6. ASSUME NEW w \in Workers, CreateDerived(w) PROVE EvidenceInv'
  <2>1. w \in objects /\ calls[w].of \in Workers
    BY <1>0, <1>6 DEF CreateDerived, Underway
  <2>2. EvidenceTypes' /\ HasContent' /\ InCustody'
    BY <1>0, <1>6, <2>1, EvidenceAssumption
    DEF CreateDerived, Call, EvidenceTypes, HasContent, InCustody
  <2>3. \A task \in ResponseTasks : SnapshotsOf(task)' = SnapshotsOf(task)
    BY <1>6, EvidenceAssumption DEF CreateDerived, SnapshotsOf
  <2>4. OnePerTask' /\ WellAnswered'
    BY <1>0, <1>6, <2>3 DEF CreateDerived, Call, EvidenceTypes, OnePerTask, WellAnswered
  <2>5. \A v \in Workers : Underway(v)'
    BY <1>0, <1>6 DEF CreateDerived, Call, EvidenceTypes, Underway
  <2> QED BY <2>2, <2>4, <2>5 DEF EvidenceInv
<1>7. ASSUME NEW w \in Workers, RecordDerivation(w) PROVE EvidenceInv'
  <2>1. calls[w].task = NoEvidence
    BY <1>0, <1>7 DEF RecordDerivation, Underway
  <2>2. EvidenceTypes'
    BY <1>0, <1>7 DEF RecordDerivation, Call, EvidenceTypes
  <2>3. HasContent' /\ InCustody' /\ OnePerTask'
    BY <1>7, EvidenceKept DEF RecordDerivation
  <2>4. WellAnswered'
    BY <1>0, <1>7, <2>1, EvidenceAssumption
    DEF RecordDerivation, Call, EvidenceTypes, WellAnswered, SnapshotsOf
  <2>5. \A v \in Workers : Underway(v)'
    BY <1>0, <1>7 DEF RecordDerivation, Call, EvidenceTypes, Underway
  <2> QED BY <2>2, <2>3, <2>4, <2>5 DEF EvidenceInv
<1>8. ASSUME NEW w \in Workers, Verify(w) PROVE EvidenceInv'
  <2>1. EvidenceTypes'
    BY <1>0, <1>8 DEF Verify, Call, EvidenceTypes
  <2>2. HasContent' /\ InCustody' /\ OnePerTask'
    BY <1>8, EvidenceKept DEF Verify
  <2>3. WellAnswered'
    BY <1>0, <1>8 DEF Verify, Call, EvidenceTypes, WellAnswered, SnapshotsOf
  <2>4. \A v \in Workers : Underway(v)'
    BY <1>0, <1>8 DEF Verify, Call, EvidenceTypes, Underway
  <2> QED BY <2>1, <2>2, <2>3, <2>4 DEF EvidenceInv
<1>9. ASSUME NEW w \in Workers, BreakOff(w) PROVE EvidenceInv'
  <2>1. EvidenceTypes'
    BY <1>0, <1>9 DEF BreakOff, Call, EvidenceTypes
  <2>2. HasContent' /\ InCustody' /\ OnePerTask'
    BY <1>9, EvidenceKept DEF BreakOff
  <2>3. WellAnswered'
    BY <1>0, <1>9 DEF BreakOff, Call, EvidenceTypes, WellAnswered, SnapshotsOf
  <2>4. \A v \in Workers : Underway(v)'
    BY <1>0, <1>9 DEF BreakOff, Call, EvidenceTypes, Underway
  <2> QED BY <2>1, <2>2, <2>3, <2>4 DEF EvidenceInv
<1>10. CASE UNCHANGED evidenceVars
  BY <1>0, <1>10
  DEF evidenceVars, EvidenceInv, EvidenceTypes, Underway, HasContent, InCustody,
      OnePerTask, WellAnswered, SnapshotsOf
<1> QED
  BY <1>1, <1>2, <1>3, <1>4, <1>5, <1>6, <1>7, <1>8, <1>9, <1>10 DEF NextEvidence

\* The invariant is strong enough: rows that are all the same row are at most
\* one.
LEMMA EvidenceInvSuffices == EvidenceInv => SnapshotIsWhole
<1> SUFFICES ASSUME EvidenceInv PROVE SnapshotIsWhole
  OBVIOUS
<1>1. ASSUME NEW task \in ResponseTasks PROVE Cardinality(SnapshotsOf(task)) <= 1
  <2>1. CASE SnapshotsOf(task) = {}
    BY <2>1, FS_EmptySet
  <2>2. CASE SnapshotsOf(task) # {}
    <3>1. PICK row : row \in SnapshotsOf(task)
      BY <2>2
    <3>2. SnapshotsOf(task) = { row }
      BY <3>1 DEF EvidenceInv, OnePerTask
    <3> QED BY <3>2, FS_Singleton
  <2> QED BY <2>1, <2>2
<1> QED BY <1>1 DEF EvidenceInv, HasContent, InCustody, WellAnswered, SnapshotIsWhole

\* The snapshot of a response task is one row, with its content and its
\* custody entry, and every answered call was given it, however many calls
\* race or break off (evidence.service: ingest, preserveEventSnapshot, derive).
THEOREM SnapshotIsWholeHolds == SpecEvidence => []SnapshotIsWhole
<1>1. SpecEvidence => []EvidenceInv
  BY EvidenceInvInit, EvidenceInvStep, PTL DEF SpecEvidence
<1> QED BY <1>1, EvidenceInvSuffices, PTL
=============================================================================
