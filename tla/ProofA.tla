------------------------------- MODULE ProofA -------------------------------
(***************************************************************************)
(* One incident row and the playbook PB-PROOF-A under it, as the functions *)
(* the incidents repository applies to them, one per transaction           *)
(* (incidents.repository.ts).  The Fusion path and the Whisper path run    *)
(* the same playbook; they differ in the mode they run it in.              *)
(*                                                                         *)
(* A row carries the evidence its hypothesis has reached (version,         *)
(* critical), whether an update has started the playbook, the two tasks    *)
(* that have an effect (the snapshot and the field dispatch), who          *)
(* acknowledged the dispatch, and the status an operator moves.  The       *)
(* notification task has no effect of its own.                             *)
(***************************************************************************)
EXTENDS FiniteSets, Naturals

NoIncident == [ mode |-> "NONE" ]
Nobody     == "nobody"

Modes == { "STANDARD", "SILENT" }

DeliveryStates == { "ABSENT", "REQUESTED", "DELIVERED", "ACKNOWLEDGED" }

Incidents(people) ==
  [ mode     : Modes,
    version  : Nat,
    critical : BOOLEAN,
    started  : BOOLEAN,
    snapshot : { "ABSENT", "OPEN", "DONE" },
    dispatch : DeliveryStates,
    acker    : people \cup { Nobody },
    status   : { "open", "contained", "closed" } ]

Opened(mode, version, critical, started) ==
  [ mode |-> mode, version |-> version, critical |-> critical,
    started |-> started, snapshot |-> "ABSENT", dispatch |-> "ABSENT",
    acker |-> Nobody, status |-> "open" ]

\* createMany with skipDuplicates: existing tasks keep what they have.
WithTasks(row) ==
  IF row.dispatch # "ABSENT" THEN row
  ELSE [ row EXCEPT !.snapshot = "OPEN", !.dispatch = "REQUESTED" ]

Preserved(row) == [ row EXCEPT !.snapshot = "DONE" ]

\* Slip: the existing handoff is delivered again.
HandedOffAgain(row) == [ row EXCEPT !.dispatch = "DELIVERED" ]

\* The handoff row is unique per task: a second one converges on the first.
HandedOff(row) ==
  IF row.dispatch = "REQUESTED" THEN [ row EXCEPT !.dispatch = "DELIVERED" ]
  ELSE row

\* The baseline policy: standard dispatch needs nobody, silent dispatch two
\* distinct commanders.
RequiredApprovers(mode) == IF mode = "SILENT" THEN 2 ELSE 0

Allows(mode, approvers) == Cardinality(approvers) >= RequiredApprovers(mode)

NextStatus(status) ==
  CASE status = "open"      -> "contained"
    [] status = "contained" -> "closed"
    [] status = "closed"    -> "closed"
=============================================================================
