---------------------------- MODULE WhisperSignal ----------------------------
(***************************************************************************)
(* One family of Whisper signals in Whisper Studio: the versions, their    *)
(* configurations and their lifecycle (whisper.service.ts createSignal,    *)
(* publishVersion, updateDraft, transition, activate; whisper.repository). *)
(*                                                                         *)
(* An edit, a transition and an activation each read the version, judge    *)
(* what they read, and write in a transaction of their own that compares   *)
(* the version again.  Only publishing and activating take the family's    *)
(* row locks, so those two are serial and the other writes rest on their   *)
(* comparison alone.  A configuration is its fingerprint.                  *)
(***************************************************************************)
EXTENDS Naturals, Sequences

CONSTANTS
  Commanders,       \* accounts holding signal.manage and signal.approve
  Configurations,   \* configuration fingerprints
  MaxVersion        \* bound on the versions of the family

VARIABLES
  family,           \* the versions, oldest first
  editing           \* per commander: the operation read but not written

signalVars == << family, editing >>

Idle       == [ op |-> "idle" ]
Unapproved == [ by |-> "nobody" ]

\* The lifecycle, a line until ACTIVE.
LegalNext ==
  [ DRAFT               |-> { "SIMULATION" },
    SIMULATION          |-> { "FALSE_POSITIVE_TEST" },
    FALSE_POSITIVE_TEST |-> { "ANTI_SPOOF_TEST" },
    ANTI_SPOOF_TEST     |-> { "FIELD_DRILL" },
    FIELD_DRILL         |-> { "APPROVAL" },
    APPROVAL            |-> { "ACTIVE" },
    ACTIVE              |-> { "ROTATED", "RETIRED" },
    ROTATED             |-> {},
    RETIRED             |-> {} ]

SignalStatuses == DOMAIN LegalNext

\* whisper_signal_versions.  `author` is whose configuration the row holds; the
\* code stores only the creator.
VersionRow ==
  [ status : SignalStatuses, configuration : Configurations,
    creator : Commanders, author : Commanders,
    approval : { Unapproved } \cup
      [ by : Commanders, configuration : Configurations ] ]

Draft(by, configuration) ==
  [ status |-> "DRAFT", configuration |-> configuration, creator |-> by,
    author |-> by, approval |-> Unapproved ]

SignalInit ==
  /\ \E by \in Commanders, c \in Configurations : family = << Draft(by, c) >>
  /\ editing = [ by \in Commanders |-> Idle ]

(***************************************************************************)
(* A new version copies the site of the newest one; the family's locks     *)
(* make its number the next.                                               *)
(***************************************************************************)
WithVersion(by, c) == Append(family, Draft(by, c))

PublishVersion(by) ==
  /\ Len(family) < MaxVersion
  /\ \E c \in Configurations : family' = WithVersion(by, c)
  /\ UNCHANGED editing

ReadFor(by, operation) ==
  /\ editing[by] = Idle
  /\ editing' = [ editing EXCEPT ![by] = operation ]
  /\ UNCHANGED family

\* updateDraft: a version past DRAFT is frozen.
ReadDraft(by, v) ==
  /\ family[v].status = "DRAFT"
  /\ \E c \in Configurations :
       ReadFor(by, [ op |-> "edit", version |-> v, configuration |-> c ])

\* transition: every legal step but the one to ACTIVE.
ReadTransition(by, v) ==
  \E to \in LegalNext[family[v].status] \ { "ACTIVE" } :
    ReadFor(by, [ op |-> "move", version |-> v,
                  from |-> family[v].status, to |-> to ])

\* activate: the approver is not the version's creator.
ReadActivation(by, v) ==
  /\ "ACTIVE" \in LegalNext[family[v].status]
  /\ by # family[v].creator
  /\ ReadFor(by, [ op |-> "activate", version |-> v,
                   from          |-> family[v].status,
                   configuration |-> family[v].configuration ])

(***************************************************************************)
(* The writes.  Each compares the row with what was read; one that does    *)
(* not match writes nothing and is told so.                                *)
(***************************************************************************)
Settled(by) == editing' = [ editing EXCEPT ![by] = Idle ]

\* Slip: the draft's status is not compared again when it is written.
StillAsRead(row, from) == TRUE

StillIn(row, from) == row.status = from

WriteDraft(by) ==
  LET e == editing[by] IN
  /\ e.op = "edit"
  /\ family' = IF StillIn(family[e.version], "DRAFT")
               THEN [ family EXCEPT ![e.version].configuration = e.configuration,
                                    ![e.version].author        = by ]
               ELSE family
  /\ Settled(by)

WriteTransition(by) ==
  LET e == editing[by] IN
  /\ e.op = "move"
  /\ family' = IF StillIn(family[e.version], e.from)
               THEN [ family EXCEPT ![e.version].status = e.to ]
               ELSE family
  /\ Settled(by)

\* Slip: the incumbent is left ACTIVE.
PromotedAlone(versions, v, by) ==
  [ versions EXCEPT ![v].status = "ACTIVE",
                    ![v].approval = [ by |-> by,
                      configuration |-> versions[v].configuration ] ]

\* Under the family's locks (a partial unique index stands behind them and
\* would fail the transaction): every incumbent is ROTATED, the approval binds
\* the stored configuration, the version becomes ACTIVE.
Promoted(versions, v, by) ==
  [ w \in DOMAIN versions |->
      IF w = v
      THEN [ versions[w] EXCEPT !.status = "ACTIVE",
                                !.approval = [ by |-> by,
                                  configuration |-> versions[w].configuration ] ]
      ELSE IF versions[w].status = "ACTIVE"
           THEN [ versions[w] EXCEPT !.status = "ROTATED" ]
           ELSE versions[w] ]

\* An approval row is unique per version: a second activation is refused.
WriteActivation(by) ==
  LET e   == editing[by]
      row == family[e.version]
  IN  /\ e.op = "activate"
      /\ family' = IF /\ row.status = e.from
                      /\ row.configuration = e.configuration
                      /\ row.approval = Unapproved
                   THEN Promoted(family, e.version, by)
                   ELSE family
      /\ Settled(by)

\* The request dies between its read and its write.
LoseEdit(by) ==
  /\ editing[by] # Idle
  /\ Settled(by)
  /\ UNCHANGED family

SignalNext ==
  \E by \in Commanders :
    \/ PublishVersion(by)
    \/ \E v \in DOMAIN family :
         ReadDraft(by, v) \/ ReadTransition(by, v) \/ ReadActivation(by, v)
    \/ WriteDraft(by) \/ WriteTransition(by) \/ WriteActivation(by)
    \/ LoseEdit(by)

-----------------------------------------------------------------------------

\* At most one version of the family is recognisable at a time: activating a
\* successor rotates the incumbent in the same transaction, however the two
\* activations and the transitions interleave (whisper.repository.ts 666).
OneActive ==
  \A v, w \in DOMAIN family :
    family[v].status = "ACTIVE" /\ family[w].status = "ACTIVE" => v = w

\* What has been activated stays what its approver approved: a configuration
\* edit begun while the version was a draft never reaches it later
\* (whisper.repository.ts 559, whisper.ts 865).
ApprovedIsFrozen ==
  \A v \in DOMAIN family :
    family[v].approval # Unapproved =>
      /\ family[v].configuration = family[v].approval.configuration
      /\ family[v].creator # family[v].approval.by

\* A creator approving their own signal would make the lifecycle
\* self-attesting, one account minting a trigger end to end (whisper.ts
\* 856-862): nobody approves a configuration they wrote.
AuthorsDoNotApprove ==
  \A v \in DOMAIN family :
    family[v].approval # Unapproved =>
      family[v].author # family[v].approval.by
=============================================================================
