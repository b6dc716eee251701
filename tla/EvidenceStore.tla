--------------------------- MODULE EvidenceStore ---------------------------
(***************************************************************************)
(* The evidence of incidents: evidence.service.ts over its repository and  *)
(* the object store.  Workers preserve the snapshot of a response task,    *)
(* derive evidence from it and verify it; the object is put before the     *)
(* row, the row and its first custody entry commit together, and only one  *)
(* row carries a response task.                                            *)
(***************************************************************************)
EXTENDS Naturals, FiniteSets

CONSTANTS
  Workers,       \* calls, each with the evidence id it draws
  ResponseTasks,
  MaxBroken,     \* calls that die or fail half-way
  NoEvidence

ASSUME EvidenceAssumption == NoEvidence \notin Workers \cup ResponseTasks

VARIABLES
  objects,   \* evidence ids the object store holds content for
  evidence,  \* rows [id, task, from]
  custody,   \* entries <<evidence id, action>>
  calls,     \* worker -> [step, task, of, answer]
  broken

evidenceVars == << objects, evidence, custody, calls, broken >>

NoCall == [ step |-> "idle", task |-> NoEvidence, of |-> NoEvidence, answer |-> NoEvidence ]

InitEvidence ==
  /\ objects = {} /\ evidence = {} /\ custody = {}
  /\ calls   = [w \in Workers |-> NoCall]
  /\ broken  = 0

Call(w, step) == calls' = [calls EXCEPT ![w].step = step]

\* findSnapshotForResponseTask
SnapshotsOf(task) == { row \in evidence : row.task = task }

-----------------------------------------------------------------------------
(* preserveEventSnapshot, and ingest under it *)

LookForSnapshot(w, task) ==
  /\ calls[w].step = "idle"
  /\ \/ /\ SnapshotsOf(task) = {}
        /\ calls' = [calls EXCEPT ![w].step = "put", ![w].task = task]
     \/ \E row \in SnapshotsOf(task) :
          calls' = [calls EXCEPT ![w].step = "done", ![w].task = task, ![w].answer = row.id]
  /\ UNCHANGED << objects, evidence, custody, broken >>

PutObject(w) ==
  /\ calls[w].step = "put"
  /\ objects' = objects \cup { w }
  /\ Call(w, "row")
  /\ UNCHANGED << evidence, custody, broken >>

\* createEvidenceWithIngestedCustody: the unique response task refuses a
\* second row.
CreateRow(w) ==
  /\ calls[w].step = "row" /\ SnapshotsOf(calls[w].task) = {}
  /\ evidence' = evidence \cup { [ id |-> w, task |-> calls[w].task, from |-> NoEvidence ] }
  /\ custody' = custody \cup { << w, "INGESTED" >> }
  /\ calls' = [calls EXCEPT ![w].step = "done", ![w].answer = w]
  /\ UNCHANGED << objects, broken >>

\* Slip: the loser removes the object of the row it lost to.
WinnersObject(w) == { row.id : row \in SnapshotsOf(calls[w].task) }

Uncommitted(w) == { w }

\* The loser answers with the winner's row and removes the object it put.
YieldToWinner(w) ==
  /\ calls[w].step = "row"
  /\ \E row \in SnapshotsOf(calls[w].task) :
       calls' = [calls EXCEPT ![w].step = "done", ![w].answer = row.id]
  /\ objects' = objects \ Uncommitted(w)
  /\ UNCHANGED << evidence, custody, broken >>

-----------------------------------------------------------------------------
(* derive: the object, the row and two custody entries, one after another *)

BeginDerivation(w) ==
  /\ calls[w].step = "idle"
  /\ \E row \in evidence :
       calls' = [calls EXCEPT ![w].step = "derive", ![w].of = row.id]
  /\ objects' = objects \cup { w }
  /\ UNCHANGED << evidence, custody, broken >>

CreateDerived(w) ==
  /\ calls[w].step = "derive"
  /\ evidence' = evidence \cup { [ id |-> w, task |-> NoEvidence, from |-> calls[w].of ] }
  /\ Call(w, "derived")
  /\ UNCHANGED << objects, custody, broken >>

RecordDerivation(w) ==
  /\ calls[w].step \in { "derived", "recorded" }
  /\ custody' = custody \cup { << IF calls[w].step = "derived" THEN w ELSE calls[w].of, "DERIVED" >> }
  /\ IF calls[w].step = "derived" THEN Call(w, "recorded")
     ELSE calls' = [calls EXCEPT ![w].step = "done", ![w].answer = w]
  /\ UNCHANGED << objects, evidence, broken >>

\* verify: the stored content against the row's hash.
Verify(w) ==
  /\ calls[w].step = "idle"
  /\ \E row \in evidence :
       custody' = custody \cup
         { << row.id, IF row.id \in objects THEN "VERIFIED" ELSE "VERIFY_FAILED" >> }
  /\ Call(w, "done")
  /\ UNCHANGED << objects, evidence, broken >>

\* A call dies, or a write of it fails: what it stored stays.
BreakOff(w) ==
  /\ broken < MaxBroken /\ calls[w].step \notin { "idle", "done" }
  /\ broken' = broken + 1
  /\ Call(w, "done")
  /\ UNCHANGED << objects, evidence, custody >>

NextEvidence ==
  \E w \in Workers :
    \/ \E task \in ResponseTasks : LookForSnapshot(w, task)
    \/ PutObject(w) \/ CreateRow(w) \/ YieldToWinner(w)
    \/ BeginDerivation(w) \/ CreateDerived(w) \/ RecordDerivation(w)
    \/ Verify(w) \/ BreakOff(w)

SpecEvidence == InitEvidence /\ [][NextEvidence]_evidenceVars

-----------------------------------------------------------------------------
(* Properties *)

\* A response task has one snapshot, in custody since its ingestion; every
\* call that was answered for the task was answered with it; and every row,
\* derived ones too, has its content, whatever races or dies
\* (evidence.service: ingest, preserveEventSnapshot, derive).
SnapshotIsWhole ==
  /\ \A row \in evidence : row.id \in objects
  /\ \A row \in evidence : row.from = NoEvidence => << row.id, "INGESTED" >> \in custody
  /\ \A task \in ResponseTasks : Cardinality(SnapshotsOf(task)) <= 1
  /\ \A w \in Workers :
       (calls[w].task \in ResponseTasks /\ calls[w].answer # NoEvidence) =>
         \E row \in SnapshotsOf(calls[w].task) : row.id = calls[w].answer

=============================================================================
