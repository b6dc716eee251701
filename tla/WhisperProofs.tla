---------------------------- MODULE WhisperProofs ----------------------------
(***************************************************************************)
(* Theorems about WhisperSignal and WhisperResponse: one version of a      *)
(* family recognisable at a time and frozen as it was approved, one        *)
(* outcome per recognition that every answer agrees with, and a silent     *)
(* dispatch only over two commanders' approvals.                           *)
(***************************************************************************)
EXTENDS WhisperResponse, FiniteSetTheorems, TLAPS

-----------------------------------------------------------------------------
(* The lifecycle *)

LEMMA Statuses ==
  SignalStatuses = { "DRAFT", "SIMULATION", "FALSE_POSITIVE_TEST", "ANTI_SPOOF_TEST",
                     "FIELD_DRILL", "APPROVAL", "ACTIVE", "ROTATED", "RETIRED" }
BY DEF SignalStatuses, LegalNext

\* Only an approval leads to ACTIVE, nothing leads back to DRAFT, and what has
\* been ACTIVE is only ever taken out of use.
LEMMA Lifecycle ==
  ASSUME NEW s \in SignalStatuses, NEW t \in LegalNext[s]
  PROVE  /\ t \in SignalStatuses /\ t # "DRAFT"
         /\ t = "ACTIVE" => s = "APPROVAL"
         /\ s \in { "ACTIVE", "ROTATED", "RETIRED" } => t \in { "ROTATED", "RETIRED" }
BY Statuses DEF LegalNext

Approvals == [ by : Commanders, configuration : Configurations ]

LEMMA ApprovedIsNotUnapproved ==
  ASSUME NEW approval \in Approvals
  PROVE  approval # Unapproved
<1>1. DOMAIN approval = { "by", "configuration" }
  BY DEF Approvals
<1>2. DOMAIN Unapproved = { "by" }
  BY DEF Unapproved
<1>3. "configuration" \notin { "by" }
  OBVIOUS
<1> QED
  BY <1>1, <1>2, <1>3

LEMMA UnapprovedHasNoApprover ==
  /\ Unapproved = [ by |-> "nobody" ]
  /\ \A row \in VersionRow : row.approval # Unapproved => row.approval \in Approvals
BY DEF Unapproved, VersionRow, Approvals

-----------------------------------------------------------------------------
(* The family and what is being done to it *)

FamilyOK == family \in Seq(VersionRow) /\ DOMAIN editing = Commanders

\* An operation read and not yet written: a transition is a legal one and not
\* to ACTIVE, an activation is not by the creator of the version.
EditOK(by, e) ==
  /\ e.op = "edit" => e.configuration \in Configurations
  /\ e.op = "move" => e.from \in SignalStatuses /\ e.to \in LegalNext[e.from] \ { "ACTIVE" }
  /\ e.op = "activate" => /\ e.version \in DOMAIN family
                          /\ by # family[e.version].creator

EditsOK == \A by \in Commanders : EditOK(by, editing[by])

\* What is approved has been active, over the configuration it still has and by
\* somebody other than its creator; what is active is approved.
RowOK(row) ==
  /\ row.status = "ACTIVE" => row.approval # Unapproved
  /\ row.approval # Unapproved =>
       /\ row.status \in { "ACTIVE", "ROTATED", "RETIRED" }
       /\ row.configuration = row.approval.configuration
       /\ row.creator # row.approval.by

RowsOK == \A v \in DOMAIN family : RowOK(family[v])

SignalInv == FamilyOK /\ EditsOK /\ RowsOK /\ OneActive

\* How a version's row may change: its creator stays, and an approval once
\* given is never taken back.
Follows(old, new) ==
  /\ new \in VersionRow
  /\ new.creator = old.creator
  /\ old.approval # Unapproved => new.approval # Unapproved
  /\ RowOK(old) => RowOK(new)
  /\ new.status = "ACTIVE" => old.status = "ACTIVE"

\* The family after a write that keeps to one row and does not activate it.
LEMMA OneRowChanges ==
  ASSUME FamilyOK, NEW v \in DOMAIN family, NEW row, Follows(family[v], row),
         family' = [family EXCEPT ![v] = row]
  PROVE  /\ family' \in Seq(VersionRow) /\ DOMAIN family' = DOMAIN family
         /\ \A w \in DOMAIN family : w = v \/ family'[w] = family[w]
         /\ family'[v] = row
<1>1. family \in [1 .. Len(family) -> VersionRow] /\ Len(family) \in Nat
  BY DEF FamilyOK
<1>2. family' \in [1 .. Len(family) -> VersionRow]
  BY <1>1 DEF Follows
<1>3. family' \in Seq(VersionRow)
  BY <1>1, <1>2
<1> QED
  BY <1>1, <1>2, <1>3

\* The steps of a family: a version is added, one row changes, or the version
\* being activated takes the place of whatever was active.
Added(by) ==
  \E c \in Configurations : family' = Append(family, Draft(by, c))

RowChanged ==
  \E v \in DOMAIN family :
    \E row \in VersionRow :
      /\ Follows(family[v], row)
      /\ family' = [family EXCEPT ![v] = row]

Activated(by) ==
  \E v \in DOMAIN family :
    /\ by # family[v].creator
    /\ family[v].approval = Unapproved
    /\ family' = Promoted(family, v, by)

LEMMA FamilySteps ==
  ASSUME SignalInv, [SignalNext]_signalVars
  PROVE  \/ UNCHANGED family
         \/ RowChanged
         \/ \E by \in Commanders : Added(by) \/ Activated(by)
<1>0. \A v \in DOMAIN family : family[v] \in VersionRow
  BY DEF SignalInv, FamilyOK
<1>1. ASSUME NEW by \in Commanders, WriteDraft(by)
      PROVE  UNCHANGED family \/ RowChanged
  <2> DEFINE e == editing[by]
             v == e.version
  <2>0. e.op = "edit" /\ e.configuration \in Configurations
    BY <1>1 DEF WriteDraft, SignalInv, EditsOK, EditOK
  <2>1. CASE v \in DOMAIN family /\ family[v].status = "DRAFT"
    <3> DEFINE row == [family[v] EXCEPT !.configuration = e.configuration, !.author = by]
    <3>1. family[v] \in VersionRow /\ family[v].approval = Unapproved
      BY <1>0, <2>1 DEF SignalInv, RowsOK, RowOK
    <3>2. row \in VersionRow /\ Follows(family[v], row)
      BY <2>0, <2>1, <3>1 DEF VersionRow, Follows, RowOK
    <3>3. family' = [family EXCEPT ![v] = row]
      BY <1>1, <2>1 DEF WriteDraft, StillIn
    <3> QED
      BY <2>1, <3>2, <3>3 DEF RowChanged
  <2>2. CASE v \in DOMAIN family /\ family[v].status # "DRAFT"
    BY <1>1, <2>2 DEF WriteDraft, StillIn
  <2>3. CASE v \notin DOMAIN family
    BY <1>1, <2>3 DEF WriteDraft, SignalInv, FamilyOK
  <2> QED
    BY <2>1, <2>2, <2>3
<1>2. ASSUME NEW by \in Commanders, WriteTransition(by)
      PROVE  UNCHANGED family \/ RowChanged
  <2> DEFINE e == editing[by]
             v == e.version
  <2>0. /\ e.op = "move" /\ e.from \in SignalStatuses
        /\ e.to \in LegalNext[e.from] \ { "ACTIVE" }
    BY <1>2 DEF WriteTransition, SignalInv, EditsOK, EditOK
  <2>1. CASE v \in DOMAIN family /\ family[v].status = e.from
    <3> DEFINE row == [family[v] EXCEPT !.status = e.to]
    <3>1. family[v] \in VersionRow /\ RowOK(family[v])
      BY <1>0, <2>1 DEF SignalInv, RowsOK
    <3>2. /\ e.to \in SignalStatuses /\ e.to # "ACTIVE"
          /\ e.from \in { "ACTIVE", "ROTATED", "RETIRED" } => e.to \in { "ROTATED", "RETIRED" }
      BY <2>0, Lifecycle
    <3> HIDE DEF e, v
    <3>3. row \in VersionRow /\ Follows(family[v], row)
      BY <2>1, <3>1, <3>2 DEF VersionRow, Follows, RowOK
    <3>4. family' = [family EXCEPT ![v] = row]
      BY <1>2, <2>1 DEF WriteTransition, StillIn, e, v
    <3> QED
      BY <2>1, <3>3, <3>4 DEF RowChanged
  <2>2. CASE v \in DOMAIN family /\ family[v].status # e.from
    BY <1>2, <2>2 DEF WriteTransition, StillIn
  <2>3. CASE v \notin DOMAIN family
    BY <1>2, <2>3 DEF WriteTransition, SignalInv, FamilyOK
  <2> QED
    BY <2>1, <2>2, <2>3
<1>3. ASSUME NEW by \in Commanders, WriteActivation(by)
      PROVE  UNCHANGED family \/ Activated(by)
  BY <1>3 DEF WriteActivation, SignalInv, EditsOK, EditOK, Activated
<1>4. ASSUME NEW by \in Commanders, PublishVersion(by)
      PROVE  Added(by)
  BY <1>4 DEF PublishVersion, Added, WithVersion
<1> QED
  BY <1>1, <1>2, <1>3, <1>4 DEF SignalNext, signalVars, ReadDraft, ReadTransition,
     ReadActivation, ReadFor, LoseEdit

\* What a version becomes when another one, or itself, is activated.
PromotedRow(row, by) ==
  [ row EXCEPT !.status = "ACTIVE",
               !.approval = [ by |-> by, configuration |-> row.configuration ] ]

RotatedRow(row) ==
  IF row.status = "ACTIVE" THEN [ row EXCEPT !.status = "ROTATED" ] ELSE row

LEMMA Promotion ==
  ASSUME NEW row \in VersionRow, NEW by \in Commanders, RowOK(row)
  PROVE  /\ Follows(row, RotatedRow(row)) /\ RowOK(RotatedRow(row))
         /\ RotatedRow(row).status # "ACTIVE"
         /\ PromotedRow(row, by) \in VersionRow
         /\ PromotedRow(row, by).approval # Unapproved
         /\ PromotedRow(row, by).creator = row.creator
         /\ by # row.creator => RowOK(PromotedRow(row, by))
<1>1. Follows(row, RotatedRow(row)) /\ RowOK(RotatedRow(row))
      /\ RotatedRow(row).status # "ACTIVE"
  BY DEF RotatedRow, Follows, RowOK, VersionRow, SignalStatuses, LegalNext
<1> DEFINE approval == [ by |-> by, configuration |-> row.configuration ]
<1>2. approval \in Approvals
  BY DEF Approvals, VersionRow
<1>3. approval # Unapproved
  BY <1>2, ApprovedIsNotUnapproved
<1>4. approval.by = by /\ approval.configuration = row.configuration
  OBVIOUS
<1> HIDE DEF approval
<1>5. /\ PromotedRow(row, by) \in VersionRow
      /\ PromotedRow(row, by).status = "ACTIVE"
      /\ PromotedRow(row, by).approval = approval
      /\ PromotedRow(row, by).creator = row.creator
      /\ PromotedRow(row, by).configuration = row.configuration
  <2>1. PromotedRow(row, by) = [ row EXCEPT !.status = "ACTIVE", !.approval = approval ]
    BY DEF PromotedRow, approval
  <2> QED
    BY <1>2, <2>1, Statuses DEF VersionRow, Approvals
<1> QED
  BY <1>1, <1>3, <1>4, <1>5 DEF RowOK

\* One row is promoted, every other is rotated if it was active.
LEMMA Promotes ==
  ASSUME SignalInv, NEW v \in DOMAIN family, NEW by \in Commanders,
         by # family[v].creator, family' = Promoted(family, v, by)
  PROVE  /\ family' \in Seq(VersionRow) /\ DOMAIN family' = DOMAIN family
         /\ family'[v] = PromotedRow(family[v], by)
         /\ \A w \in DOMAIN family \ { v } : family'[w] = RotatedRow(family[w])
<1>0. /\ family \in [1 .. Len(family) -> VersionRow] /\ Len(family) \in Nat
      /\ \A w \in DOMAIN family : RowOK(family[w])
  BY DEF SignalInv, FamilyOK, RowsOK
<1>1. family' = [ w \in DOMAIN family |->
                    IF w = v THEN PromotedRow(family[w], by) ELSE RotatedRow(family[w]) ]
  BY DEF Promoted, PromotedRow, RotatedRow
<1>2. \A w \in DOMAIN family : PromotedRow(family[w], by) \in VersionRow
                               /\ RotatedRow(family[w]) \in VersionRow
  BY <1>0, Promotion DEF Follows
<1>3. family' \in [1 .. Len(family) -> VersionRow]
  BY <1>0, <1>1, <1>2
<1>4. family' \in Seq(VersionRow)
  BY <1>0, <1>3
<1> QED
  BY <1>1, <1>4

LEMMA DraftOK ==
  ASSUME NEW by \in Commanders, NEW c \in Configurations
  PROVE  Draft(by, c) \in VersionRow /\ RowOK(Draft(by, c))
         /\ Draft(by, c).status = "DRAFT"
BY Statuses DEF Draft, VersionRow, RowOK

\* The whole of what a step does to the rows there are.
LEMMA FamilyAfter ==
  ASSUME SignalInv, [SignalNext]_signalVars
  PROVE  /\ family' \in Seq(VersionRow)
         /\ DOMAIN family \subseteq DOMAIN family'
         /\ \A w \in DOMAIN family' : RowOK(family'[w])
         /\ \A w \in DOMAIN family :
              /\ family'[w].creator = family[w].creator
              /\ family[w].approval # Unapproved => family'[w].approval # Unapproved
         /\ OneActive'
<1>0. /\ \A w \in DOMAIN family : family[w] \in VersionRow /\ RowOK(family[w])
      /\ family \in Seq(VersionRow)
  BY DEF SignalInv, FamilyOK, RowsOK
<1>1. CASE UNCHANGED family
  BY <1>0, <1>1 DEF SignalInv, OneActive
<1>2. CASE RowChanged
  <2>1. PICK v \in DOMAIN family, row \in VersionRow :
          Follows(family[v], row) /\ family' = [family EXCEPT ![v] = row]
    BY <1>2 DEF RowChanged
  <2>2. /\ family' \in Seq(VersionRow) /\ DOMAIN family' = DOMAIN family
        /\ \A w \in DOMAIN family : w = v \/ family'[w] = family[w]
        /\ family'[v] = row
    BY <2>1, OneRowChanges DEF SignalInv
  <2>3. \A w \in DOMAIN family : Follows(family[w], family'[w])
    BY <1>0, <2>1, <2>2 DEF Follows
  <2>4. OneActive'
    BY <2>2, <2>3 DEF Follows, SignalInv, OneActive
  <2> QED
    BY <1>0, <2>2, <2>3, <2>4 DEF Follows
<1>3. ASSUME NEW by \in Commanders, Added(by)
      PROVE  /\ family' \in Seq(VersionRow)
             /\ DOMAIN family \subseteq DOMAIN family'
             /\ \A w \in DOMAIN family' : RowOK(family'[w])
             /\ \A w \in DOMAIN family : family'[w] = family[w]
             /\ OneActive'
  <2>1. PICK c \in Configurations : family' = Append(family, Draft(by, c))
    BY <1>3 DEF Added
  <2> DEFINE draft == Draft(by, c)
  <2>2. draft \in VersionRow /\ RowOK(draft) /\ draft.status = "DRAFT"
    BY DraftOK
  <2> HIDE DEF draft
  <2>3. /\ family' \in Seq(VersionRow) /\ Len(family) \in Nat
        /\ DOMAIN family = 1 .. Len(family) /\ DOMAIN family' = 1 .. Len(family) + 1
        /\ \A w \in DOMAIN family : family'[w] = family[w]
        /\ family'[Len(family) + 1] = draft
    BY <1>0, <2>1, <2>2 DEF draft
  <2>4. \A w \in DOMAIN family' : w \in DOMAIN family \/ family'[w] = draft
    BY <2>3
  <2>5. \A w \in DOMAIN family' : family'[w].status = "ACTIVE" => w \in DOMAIN family
    BY <2>2, <2>4
  <2>6. OneActive'
    BY <2>3, <2>5 DEF SignalInv, OneActive
  <2>7. \A w \in DOMAIN family' : RowOK(family'[w])
    BY <1>0, <2>2, <2>3, <2>4
  <2>8. DOMAIN family \subseteq DOMAIN family'
    BY <2>3
  <2> QED
    BY <2>3, <2>6, <2>7, <2>8
<1>4. ASSUME NEW by \in Commanders, Activated(by)
      PROVE  /\ family' \in Seq(VersionRow)
             /\ DOMAIN family' = DOMAIN family
             /\ \A w \in DOMAIN family' : RowOK(family'[w])
             /\ \A w \in DOMAIN family :
                  /\ family'[w].creator = family[w].creator
                  /\ family[w].approval # Unapproved => family'[w].approval # Unapproved
             /\ OneActive'
  <2>1. PICK v \in DOMAIN family : by # family[v].creator /\ family' = Promoted(family, v, by)
    BY <1>4 DEF Activated
  <2>2. /\ family' \in Seq(VersionRow) /\ DOMAIN family' = DOMAIN family
        /\ family'[v] = PromotedRow(family[v], by)
        /\ \A w \in DOMAIN family \ { v } : family'[w] = RotatedRow(family[w])
    BY <2>1, Promotes
  <2>3. /\ RowOK(family'[v]) /\ family'[v].approval # Unapproved
        /\ family'[v].creator = family[v].creator
    BY <1>0, <2>1, <2>2, Promotion
  <2>4. \A w \in DOMAIN family \ { v } :
          /\ Follows(family[w], family'[w]) /\ RowOK(family'[w])
          /\ family'[w].status # "ACTIVE"
    BY <1>0, <2>2, Promotion
  <2>5. OneActive'
    BY <2>2, <2>4 DEF OneActive
  <2> QED
    BY <2>2, <2>3, <2>4, <2>5 DEF Follows
<1> QED
  BY <1>1, <1>2, <1>3, <1>4, FamilySteps

\* Reading is what puts an operation on a commander's desk.
LEMMA EditsAfter ==
  ASSUME SignalInv, [SignalNext]_signalVars
  PROVE  DOMAIN editing' = Commanders /\ EditsOK'
<1>0. /\ DOMAIN editing = Commanders
      /\ \A o \in Commanders : EditOK(o, editing[o])
      /\ \A v \in DOMAIN family : family[v] \in VersionRow
  BY DEF SignalInv, FamilyOK, EditsOK
<1>1. ASSUME NEW o \in Commanders, editing'[o] = editing[o] \/ editing'[o] = Idle
      PROVE  EditOK(o, editing[o])'
  <2>1. CASE editing'[o] = Idle
    BY <2>1 DEF EditOK, Idle
  <2>2. CASE editing'[o] = editing[o]
    <3>1. editing[o].op = "activate" => /\ editing[o].version \in DOMAIN family'
                                        /\ o # family'[editing[o].version].creator
      BY <1>0, FamilyAfter DEF EditOK
    <3> QED
      BY <1>0, <2>2, <3>1 DEF EditOK
  <2> QED
    BY <1>1, <2>1, <2>2
<1>2. ASSUME NEW by \in Commanders, NEW e, UNCHANGED family, EditOK(by, e),
             editing' = [editing EXCEPT ![by] = e]
      PROVE  DOMAIN editing' = Commanders /\ EditsOK'
  <2>1. editing'[by] = e /\ \A o \in Commanders \ { by } : editing'[o] = editing[o]
    BY <1>0, <1>2
  <2>2. EditOK(by, editing[by])'
    BY <1>2, <2>1 DEF EditOK
  <2> QED
    BY <1>0, <1>1, <1>2, <2>1, <2>2 DEF EditsOK
<1>3. ASSUME NEW by \in Commanders, Settled(by)
      PROVE  DOMAIN editing' = Commanders /\ EditsOK'
  BY <1>0, <1>1, <1>3 DEF Settled, EditsOK
<1>4. CASE UNCHANGED editing
  BY <1>0, <1>1, <1>4 DEF EditsOK
<1>5. ASSUME NEW by \in Commanders, NEW v \in DOMAIN family, ReadDraft(by, v)
      PROVE  DOMAIN editing' = Commanders /\ EditsOK'
  <2>1. PICK c \in Configurations :
          ReadFor(by, [ op |-> "edit", version |-> v, configuration |-> c ])
    BY <1>5 DEF ReadDraft
  <2>2. EditOK(by, [ op |-> "edit", version |-> v, configuration |-> c ])
    BY DEF EditOK
  <2> QED
    BY <1>2, <2>1, <2>2 DEF ReadFor
<1>6. ASSUME NEW by \in Commanders, NEW v \in DOMAIN family, ReadTransition(by, v)
      PROVE  DOMAIN editing' = Commanders /\ EditsOK'
  <2>1. PICK to \in LegalNext[family[v].status] \ { "ACTIVE" } :
          ReadFor(by, [ op |-> "move", version |-> v,
                        from |-> family[v].status, to |-> to ])
    BY <1>6 DEF ReadTransition
  <2>2. family[v].status \in SignalStatuses
    BY <1>0 DEF VersionRow
  <2>3. EditOK(by, [ op |-> "move", version |-> v, from |-> family[v].status, to |-> to ])
    BY <2>2 DEF EditOK
  <2> QED
    BY <1>2, <2>1, <2>3 DEF ReadFor
<1>7. ASSUME NEW by \in Commanders, NEW v \in DOMAIN family, ReadActivation(by, v)
      PROVE  DOMAIN editing' = Commanders /\ EditsOK'
  <2>1. EditOK(by, [ op |-> "activate", version |-> v, from |-> family[v].status,
                     configuration |-> family[v].configuration ])
    BY <1>7 DEF ReadActivation, EditOK
  <2> QED
    BY <1>2, <1>7, <2>1 DEF ReadActivation, ReadFor
<1> QED
  BY <1>3, <1>4, <1>5, <1>6, <1>7 DEF SignalNext, signalVars, PublishVersion, WriteDraft,
     WriteTransition, WriteActivation, LoseEdit

LEMMA SignalInitially == SignalInit => SignalInv
<1> SUFFICES ASSUME SignalInit PROVE SignalInv
  OBVIOUS
<1>1. PICK by \in Commanders, c \in Configurations : family = << Draft(by, c) >>
  BY DEF SignalInit
<1> DEFINE draft == Draft(by, c)
<1>2. draft \in VersionRow /\ RowOK(draft) /\ draft.status = "DRAFT"
  BY DraftOK
<1> HIDE DEF draft
<1>3. family \in Seq(VersionRow) /\ DOMAIN family = { 1 } /\ family[1] = draft
  BY <1>1, <1>2 DEF draft
<1>4. DOMAIN editing = Commanders /\ EditsOK
  BY DEF SignalInit, EditsOK, EditOK, Idle
<1> QED
  BY <1>2, <1>3, <1>4 DEF SignalInv, FamilyOK, RowsOK, OneActive

LEMMA SignalKept == SignalInv /\ [SignalNext]_signalVars => SignalInv'
BY FamilyAfter, EditsAfter DEF SignalInv, FamilyOK, RowsOK

-----------------------------------------------------------------------------
(* Receipts, attempts, incidents and approvals *)

LivePlaces == Working \cup { "judged", "claiming", "claimed" }

\* An attempt under way, and one that has been answered.
Live == [ at : LivePlaces, about : Recognitions, eligible : BOOLEAN, claim : Nat ]

Answers == { "accepted", "refused", "unresolved", "reused" }

Told == [ at : { "answered" }, about : Recognitions, answer : Answers ]

AttemptsOK ==
  DOMAIN attempt = Attempts /\
  \A a \in Attempts : attempt[a] = Unused \/ attempt[a] \in Live \/ attempt[a] \in Told

ReceiptsOK == receipt \in [ Nonces -> { NoReceipt } \cup ReceiptRow ]

IncidentsOK == incident \in [ Recognitions -> { NoIncident } \cup Incidents(Commanders) ]

ApprovalsOK ==
  /\ approvals \in [ Recognitions -> SUBSET Commanders ]
  /\ \A r \in Recognitions : IsFiniteSet(approvals[r])

Approving == [ at : { "read", "recorded", "allowed" }, about : Recognitions,
               requested : BOOLEAN ]

ApprovingOK ==
  DOMAIN approving = Commanders /\
  \A c \in Commanders : approving[c] = NoApproval \/ approving[c] \in Approving

ResponseTypes ==
  /\ AttemptsOK /\ ReceiptsOK /\ IncidentsOK /\ ApprovalsOK /\ ApprovingOK
  /\ fresh \subseteq Recognitions
  /\ faults \in 0 .. MaxFaults

LEMMA NonceOfIsNonce == ASSUME NEW r \in Recognitions PROVE NonceOf[r] \in Nonces
BY DEF Nonces

\* What tells the kinds of record apart.
LEMMA Kinds ==
  /\ \A row \in ReceiptRow : row # NoReceipt
  /\ \A row \in Incidents(Commanders) : row # NoIncident
  /\ Unused \notin Live /\ Unused \notin Told
  /\ \A w \in Live : w.at \in LivePlaces /\ w.at # "answered" /\ w.at # "unused"
  /\ \A w \in Told : w.at = "answered"
  /\ NoApproval \notin Approving /\ NoApproval.at = "idle"
  /\ \A w \in Approving : w.at # "idle"
<1>1. \A row \in ReceiptRow : row # NoReceipt
  BY DEF ReceiptRow, NoReceipt, Final
<1>2. \A row \in Incidents(Commanders) : row # NoIncident
  BY DEF Incidents, NoIncident, Modes
<1>3. Unused \notin Live /\ Unused \notin Told
  <2>1. Unused.at = "unused"
    BY DEF Unused
  <2> QED
    BY <2>1 DEF Live, Told, LivePlaces, Working
<1>4. /\ \A w \in Live : w.at \in LivePlaces /\ w.at # "answered" /\ w.at # "unused"
      /\ \A w \in Told : w.at = "answered"
  BY DEF Live, Told, LivePlaces, Working
<1>5. NoApproval.at = "idle" /\ \A w \in Approving : w.at # "idle"
  BY DEF NoApproval, Approving
<1>6. NoApproval \notin Approving
  BY <1>5
<1> QED
  BY <1>1, <1>2, <1>3, <1>4, <1>5, <1>6

\* The attempt a step is about, by where it stands.
LEMMA LiveAt ==
  ASSUME ResponseTypes, NEW a \in Attempts, attempt[a].at \in LivePlaces
  PROVE  attempt[a] \in Live /\ attempt[a].about \in Recognitions
<1>1. attempt[a] # Unused /\ attempt[a] \notin Told
  <2>1. Unused.at = "unused"
    BY DEF Unused
  <2> QED
    BY <2>1, Kinds DEF LivePlaces, Working
<1> QED
  BY <1>1 DEF ResponseTypes, AttemptsOK, Live

\* The rows the playbook writes.
LEMMA Playbook ==
  ASSUME NEW row \in Incidents(Commanders)
  PROVE  /\ WithTasks(row) \in Incidents(Commanders) /\ WithTasks(row).dispatch # "ABSENT"
         /\ Preserved(row) \in Incidents(Commanders) /\ Preserved(row).snapshot = "DONE"
         /\ Preserved(row).dispatch = row.dispatch
         /\ HandedOff(row) \in Incidents(Commanders)
         /\ HandedOff(row).snapshot = row.snapshot
         /\ HandedOff(row).dispatch # "ABSENT" <=> row.dispatch # "ABSENT"
         /\ row.dispatch # "ABSENT" => WithTasks(row) = row
         /\ WithTasks(row).dispatch = "DELIVERED" => row.dispatch = "DELIVERED"
BY DEF WithTasks, Preserved, HandedOff, Incidents, DeliveryStates

LEMMA FirstRow ==
  /\ Opened("SILENT", 0, TRUE, TRUE) \in Incidents(Commanders)
  /\ Opened("SILENT", 0, TRUE, TRUE).dispatch = "ABSENT"
BY DEF Opened, Incidents, Modes, DeliveryStates, Nobody

\* Recognition evaluates the dispatch without approvals, which never allows it.
LEMMA NeverAtEntry == ~Allows(EntryMode, {})
<1>1. Cardinality({}) = 0
  BY FS_EmptySet
<1> QED
  BY <1>1 DEF Allows, EntryMode, RequiredApprovers

-----------------------------------------------------------------------------
(* What no step takes back *)

\* A receipt keeps its statement, and its outcome once it has one.
ReceiptStays(n) ==
  receipt[n] # NoReceipt =>
    /\ receipt'[n] # NoReceipt
    /\ receipt'[n].about = receipt[n].about
    /\ receipt[n].status \in Final => receipt'[n] = receipt[n]

\* An incident stays, with its tasks and its snapshot.
Entered(row) == row # NoIncident /\ row.dispatch # "ABSENT" /\ row.snapshot = "DONE"

IncidentStays(r) ==
  incident[r] # NoIncident =>
    /\ incident'[r] # NoIncident
    /\ incident[r].dispatch # "ABSENT" => incident'[r].dispatch # "ABSENT"
    /\ Entered(incident[r]) => Entered(incident'[r])

\* Somebody other than its creator has approved the version a recognition names.
Approved(r) ==
  VersionOf[r] \in DOMAIN family /\ family[VersionOf[r]].approval # Unapproved

\* What an attempt under way may rely on, and what an answer says.
LiveOK(w) ==
  /\ w.eligible => Approved(w.about)
  /\ w.at # "judged" => /\ receipt[NonceOf[w.about]] # NoReceipt
                        /\ receipt[NonceOf[w.about]].about = w.about
  /\ w.at = "opening" => Approved(w.about)
  /\ w.at \in { "tasking", "preserving", "evaluating", "accepting" } =>
       incident[w.about] # NoIncident
  /\ w.at \in { "preserving", "evaluating", "accepting" } =>
       incident[w.about].dispatch # "ABSENT"
  /\ w.at \in { "evaluating", "accepting" } => Entered(incident[w.about])

ToldOK(w) ==
  /\ receipt[NonceOf[w.about]] # NoReceipt
  /\ w.answer = "accepted" => receipt[NonceOf[w.about]].status = "APPLIED"
  /\ w.answer = "refused"  => receipt[NonceOf[w.about]].status = "REFUSED"
  /\ w.answer = "reused"   => receipt[NonceOf[w.about]].about # w.about

AttemptOK(w) == (w \in Live => LiveOK(w)) /\ (w \in Told => ToldOK(w))

\* An incident is the one of its replay identity's statement, for an approved
\* version, and its dispatch went out over two approvals.
IncidentOK(r) ==
  incident[r] # NoIncident =>
    /\ receipt[NonceOf[r]] # NoReceipt /\ receipt[NonceOf[r]].about = r
    /\ Approved(r)
    /\ incident[r].dispatch = "DELIVERED" => Cardinality(approvals[r]) >= 2

ReceiptOK(n) ==
  receipt[n] # NoReceipt /\ receipt[n].status = "APPLIED" =>
    Entered(incident[receipt[n].about])

ApprovalOK(w) ==
  w \in Approving =>
    /\ incident[w.about] # NoIncident
    /\ w.at = "allowed" => Cardinality(approvals[w.about]) >= 2

ResponseInv ==
  /\ ResponseTypes
  /\ \A a \in Attempts : AttemptOK(attempt[a])
  /\ \A r \in Recognitions : IncidentOK(r)
  /\ \A n \in Nonces : ReceiptOK(n)
  /\ \A c \in Commanders : ApprovalOK(approving[c])

\* Nothing that was relied on is taken back.
Stays ==
  /\ \A n \in Nonces : ReceiptStays(n)
  /\ \A r \in Recognitions : IncidentStays(r)
  /\ \A r \in Recognitions : Approved(r) => Approved(r)'

LEMMA AttemptStands ==
  ASSUME ResponseTypes, Stays, NEW w, w \in Live \cup Told \cup { Unused }, AttemptOK(w)
  PROVE  AttemptOK(w)'
<1>1. CASE w = Unused
  BY <1>1, Kinds DEF AttemptOK
<1>2. CASE w \in Live
  <2>1. /\ w \notin Told /\ w.about \in Recognitions /\ NonceOf[w.about] \in Nonces
        /\ LiveOK(w)
    BY <1>2, Kinds, NonceOfIsNonce DEF Live, AttemptOK
  <2>2. /\ ReceiptStays(NonceOf[w.about]) /\ IncidentStays(w.about)
        /\ Approved(w.about) => Approved(w.about)'
    BY <2>1 DEF Stays
  <2>3. LiveOK(w)'
    BY <2>1, <2>2 DEF LiveOK, ReceiptStays, IncidentStays
  <2> QED
    BY <2>1, <2>3 DEF AttemptOK
<1>3. CASE w \in Told
  <2>1. /\ w \notin Live /\ NonceOf[w.about] \in Nonces /\ ToldOK(w)
    BY <1>3, Kinds, NonceOfIsNonce DEF Told, AttemptOK
  <2>2. ReceiptStays(NonceOf[w.about])
    BY <2>1 DEF Stays
  <2>3. ToldOK(w)'
    BY <2>1, <2>2 DEF ToldOK, ReceiptStays, Final
  <2> QED
    BY <2>1, <2>3 DEF AttemptOK
<1> QED
  BY <1>1, <1>2, <1>3

LEMMA ApprovalStands ==
  ASSUME Stays, UNCHANGED approvals, NEW w, ApprovalOK(w)
  PROVE  ApprovalOK(w)'
BY DEF ApprovalOK, Stays, IncidentStays, Approving

\* The step of one attempt: what is left to show of it, once the rest stands.
AttemptMoves(a) ==
  /\ attempt'[a] \in Live \cup Told
  /\ DOMAIN attempt' = Attempts
  /\ \A b \in Attempts \ { a } : attempt'[b] = attempt[b]

LEMMA AttemptStep ==
  ASSUME ResponseInv, NEW a \in Attempts, AttemptMoves(a), UNCHANGED << family, approvals, approving >>,
         ReceiptsOK', IncidentsOK',
         fresh' \subseteq Recognitions, faults' \in 0 .. MaxFaults,
         \A n \in Nonces : ReceiptStays(n),
         \A r \in Recognitions : IncidentStays(r),
         AttemptOK(attempt[a])',
         \A r \in Recognitions : IncidentOK(r)',
         \A n \in Nonces : ReceiptOK(n)'
  PROVE  ResponseInv' /\ Stays
<1>1. Stays
  BY DEF Stays, Approved
<1>2. ResponseTypes'
  BY DEF ResponseInv, ResponseTypes, AttemptsOK, AttemptMoves, ApprovalsOK, ApprovingOK
<1>3. ASSUME NEW b \in Attempts PROVE AttemptOK(attempt[b])'
  <2>1. CASE b = a
    BY <2>1
  <2>2. CASE b # a
    <3> DEFINE w == attempt[b]
    <3>1. w \in Live \cup Told \cup { Unused } /\ AttemptOK(w)
      BY DEF ResponseInv, ResponseTypes, AttemptsOK
    <3>2. attempt'[b] = w
      BY <2>2 DEF AttemptMoves
    <3>3. PICK u : u = w
      OBVIOUS
    <3>4. AttemptOK(u)'
      <4>1. u \in Live \cup Told \cup { Unused } /\ AttemptOK(u)
        BY <3>1, <3>3
      <4> QED
        BY <1>1, <4>1, AttemptStands DEF ResponseInv
    <3>5. attempt'[b] = u
      BY <3>2, <3>3
    <3> QED
      BY <3>4, <3>5 DEF AttemptOK, LiveOK, ToldOK
  <2> QED
    BY <2>1, <2>2
<1>4. ASSUME NEW c \in Commanders PROVE ApprovalOK(approving[c])'
  <2>1. PICK u : u = approving[c]
    OBVIOUS
  <2>2. ApprovalOK(u)
    BY <2>1 DEF ResponseInv
  <2>3. ApprovalOK(u)'
    BY <1>1, <2>2, ApprovalStands
  <2>4. approving'[c] = u
    BY <2>1
  <2> QED
    BY <2>3, <2>4 DEF ApprovalOK
<1> QED
  BY <1>1, <1>2, <1>3, <1>4 DEF ResponseInv

LEMMA Going ==
  ASSUME ResponseTypes, NEW a \in Attempts, attempt[a].at \in LivePlaces,
         NEW at \in LivePlaces, Goes(a, at)
  PROVE  /\ AttemptMoves(a) /\ attempt'[a] \in Live /\ attempt'[a].at = at
         /\ attempt'[a].about = attempt[a].about
         /\ attempt'[a].eligible = attempt[a].eligible
<1>1. attempt[a] \in Live
  BY LiveAt
<1>2. [ attempt[a] EXCEPT !.at = at ] \in Live
  BY <1>1 DEF Live
<1> QED
  BY <1>1, <1>2 DEF Goes, AttemptMoves, ResponseTypes, AttemptsOK, Live

LEMMA Answering ==
  ASSUME ResponseTypes, NEW a \in Attempts, attempt[a].at \in LivePlaces,
         NEW answer \in Answers, Answered(a, answer)
  PROVE  /\ AttemptMoves(a) /\ attempt'[a] \in Told
         /\ attempt'[a].about = attempt[a].about /\ attempt'[a].answer = answer
<1>1. attempt[a].about \in Recognitions
  BY LiveAt
<1>2. [ at |-> "answered", about |-> attempt[a].about, answer |-> answer ] \in Told
  BY <1>1 DEF Told
<1> QED
  BY <1>2 DEF Answered, AttemptMoves, ResponseTypes, AttemptsOK

\* A step on a receipt leaves the incidents as they stand, and the other way
\* round.
LEMMA IncidentsStand ==
  ASSUME ResponseInv, UNCHANGED << incident, family, approvals >>,
         \A n \in Nonces : ReceiptStays(n)
  PROVE  \A r \in Recognitions : IncidentStays(r) /\ IncidentOK(r)'
<1> TAKE r \in Recognitions
<1>1. ReceiptStays(NonceOf[r]) /\ IncidentOK(r)
  BY NonceOfIsNonce DEF ResponseInv
<1> QED
  BY <1>1 DEF IncidentStays, IncidentOK, ReceiptStays, Entered, Approved

LEMMA ReceiptsStand ==
  ASSUME ResponseInv, UNCHANGED receipt, \A r \in Recognitions : IncidentStays(r)
  PROVE  \A n \in Nonces : ReceiptStays(n) /\ ReceiptOK(n)'
<1> TAKE n \in Nonces
<1>1. ReceiptOK(n) /\ (receipt[n] # NoReceipt => receipt[n].about \in Recognitions)
  BY DEF ResponseInv, ResponseTypes, ReceiptsOK, ReceiptRow
<1> QED
  BY <1>1 DEF ReceiptStays, ReceiptOK, IncidentStays, Entered

\* One receipt is written, and not against what it was.
LEMMA ReceiptWritten ==
  ASSUME ResponseInv, NEW n \in Nonces, NEW new \in ReceiptRow,
         receipt' = [ receipt EXCEPT ![n] = new ], UNCHANGED incident,
         receipt[n] # NoReceipt =>
           new.about = receipt[n].about /\ (receipt[n].status \in Final => new = receipt[n]),
         new.status = "APPLIED" => Entered(incident[new.about])
  PROVE  /\ ReceiptsOK' /\ receipt'[n] = new
         /\ \A m \in Nonces : ReceiptStays(m) /\ ReceiptOK(m)'
<1>1. /\ ReceiptsOK' /\ receipt'[n] = new
      /\ \A m \in Nonces \ { n } : receipt'[m] = receipt[m]
  BY DEF ResponseInv, ResponseTypes, ReceiptsOK
<1>2. new # NoReceipt
  BY Kinds
<1>3. \A m \in Nonces : ReceiptStays(m)
  BY <1>1, <1>2 DEF ReceiptStays
<1>4. \A m \in Nonces : ReceiptOK(m)'
  BY <1>1 DEF ReceiptOK, Entered, ResponseInv
<1> QED
  BY <1>1, <1>3, <1>4

Quiet == UNCHANGED << family, editing, approvals, approving >>

Bounded == fresh' \subseteq Recognitions /\ faults' \in 0 .. MaxFaults

LEMMA JudgeKept ==
  ASSUME SignalInv, ResponseInv, Quiet, NEW a \in Attempts, NEW r \in Recognitions,
         Judge(a, r)
  PROVE  ResponseInv' /\ Stays
<1> DEFINE w == [ at |-> "judged", about |-> r, eligible |-> Eligible(r), claim |-> 0 ]
<1>1. attempt' = [ attempt EXCEPT ![a] = w ]
  BY DEF Judge
<1>2. w \in Live /\ w.at = "judged" /\ w.about = r /\ w.eligible = Eligible(r)
  BY DEF Live, LivePlaces, Eligible
<1> HIDE DEF w
<1>3. AttemptMoves(a) /\ attempt'[a] = w
  BY <1>1, <1>2 DEF AttemptMoves, ResponseInv, ResponseTypes, AttemptsOK
<1>4. w.eligible => Approved(r)
  BY <1>2 DEF Eligible, Approved, SignalInv, RowsOK, RowOK
<1>5. Approved(r)' = Approved(r)
  BY DEF Approved, Quiet
<1>6. AttemptOK(attempt[a])'
  <2>1. w \notin Told
    BY <1>2, Kinds
  <2> QED
    BY <1>2, <1>3, <1>4, <1>5, <2>1 DEF AttemptOK, LiveOK, Approved
<1>7. UNCHANGED << receipt, incident, fresh, faults >>
  BY DEF Judge
<1>8. \A m \in Nonces : ReceiptStays(m)
  BY <1>7 DEF ReceiptStays
<1>9. /\ \A o \in Recognitions : IncidentStays(o) /\ IncidentOK(o)'
      /\ \A m \in Nonces : ReceiptOK(m)'
  BY <1>7, <1>8, IncidentsStand, ReceiptsStand DEF Quiet
<1> QED
  BY <1>3, <1>6, <1>7, <1>8, <1>9, AttemptStep
     DEF Quiet, ResponseInv, ResponseTypes, ReceiptsOK, IncidentsOK

LEMMA EnsureReceiptKept ==
  ASSUME SignalInv, ResponseInv, Quiet, NEW a \in Attempts, EnsureReceipt(a)
  PROVE  ResponseInv' /\ Stays
<1> DEFINE r == attempt[a].about
           n == NonceOf[r]
           kept == IF receipt[n] = NoReceipt THEN Received(r) ELSE receipt[n]
<1>0. attempt[a].at = "judged" /\ attempt[a].at \in LivePlaces
  BY DEF EnsureReceipt, LivePlaces
<1>1. r \in Recognitions /\ n \in Nonces /\ attempt[a] \in Live
  BY <1>0, LiveAt, NonceOfIsNonce DEF ResponseInv
<1>2. Received(r) \in ReceiptRow /\ Received(r).about = r
      /\ Received(r).status = "RECEIVED"
  BY <1>1, WhisperAssumption DEF Received, ReceiptRow, Final
<1>3. /\ kept \in ReceiptRow
      /\ receipt[n] # NoReceipt => kept = receipt[n]
      /\ kept.status = "APPLIED" => Entered(incident[kept.about])
  BY <1>1, <1>2 DEF ResponseInv, ResponseTypes, ReceiptsOK, ReceiptOK
<1>4. /\ receipt' = [ receipt EXCEPT ![n] = kept ]
      /\ IF ~ SameStatement(kept, r) THEN Answered(a, "reused")
         ELSE IF kept.status \in Final THEN Answered(a, StoredAnswer(kept))
         ELSE Goes(a, "claiming")
      /\ UNCHANGED << fresh, incident, faults >>
  BY DEF EnsureReceipt
<1> HIDE DEF kept
<1>5. /\ ReceiptsOK' /\ receipt'[n] = kept
      /\ \A m \in Nonces : ReceiptStays(m) /\ ReceiptOK(m)'
  BY <1>1, <1>3, <1>4, ReceiptWritten
<1>6. \A o \in Recognitions : IncidentStays(o) /\ IncidentOK(o)'
  BY <1>4, <1>5, IncidentsStand DEF Quiet
<1>7. kept # NoReceipt
  BY <1>3, Kinds
<1>8. AttemptMoves(a) /\ AttemptOK(attempt[a])'
  <2>1. CASE ~ SameStatement(kept, r)
    <3>1. /\ AttemptMoves(a) /\ attempt'[a] \in Told
          /\ attempt'[a].about = r /\ attempt'[a].answer = "reused"
      BY <1>0, <1>4, <2>1, Answering DEF Answers, ResponseInv
    <3> QED
      BY <1>5, <1>7, <2>1, <3>1, Kinds DEF AttemptOK, ToldOK, SameStatement
  <2>2. CASE SameStatement(kept, r) /\ kept.status \in Final
    <3>1. StoredAnswer(kept) \in { "accepted", "refused" }
      BY <2>2 DEF StoredAnswer, Final
    <3>2. /\ AttemptMoves(a) /\ attempt'[a] \in Told
          /\ attempt'[a].about = r /\ attempt'[a].answer = StoredAnswer(kept)
      BY <1>0, <1>4, <2>2, <3>1, Answering DEF Answers, ResponseInv
    <3> QED
      BY <1>5, <1>7, <2>2, <3>2, Kinds DEF AttemptOK, ToldOK, StoredAnswer
  <2>3. CASE SameStatement(kept, r) /\ kept.status \notin Final
    <3>1. /\ AttemptMoves(a) /\ attempt'[a] \in Live /\ attempt'[a].at = "claiming"
          /\ attempt'[a].about = r /\ attempt'[a].eligible = attempt[a].eligible
      BY <1>0, <1>4, <2>3, Going DEF ResponseInv, LivePlaces
    <3>2. attempt[a].eligible => Approved(r)
      BY <1>1 DEF ResponseInv, AttemptOK, LiveOK
    <3>3. family' = family
      BY DEF Quiet
    <3> QED
      BY <1>5, <1>7, <2>3, <3>1, <3>2, <3>3, Kinds
         DEF AttemptOK, LiveOK, SameStatement, Approved
  <2> QED
    BY <2>1, <2>2, <2>3
<1> QED
  BY <1>4, <1>5, <1>6, <1>8, AttemptStep
     DEF Quiet, ResponseInv, ResponseTypes, IncidentsOK

LEMMA ClaimKept ==
  ASSUME SignalInv, ResponseInv, Quiet, NEW a \in Attempts, Claim(a)
  PROVE  ResponseInv' /\ Stays
<1> DEFINE r == attempt[a].about
           n == NonceOf[r]
           kept == receipt[n]
<1>0. attempt[a].at = "claiming" /\ attempt[a].at \in LivePlaces
  BY DEF Claim, LivePlaces
<1>1. r \in Recognitions /\ n \in Nonces /\ attempt[a] \in Live
  BY <1>0, LiveAt, NonceOfIsNonce DEF ResponseInv
<1>2. /\ kept # NoReceipt /\ kept.about = r
      /\ attempt[a].eligible => Approved(r)
  BY <1>0, <1>1 DEF ResponseInv, AttemptOK, LiveOK
<1>3. kept \in ReceiptRow
  BY <1>1, <1>2 DEF ResponseInv, ResponseTypes, ReceiptsOK
<1>4. family' = family
  BY DEF Quiet
<1>5. UNCHANGED << fresh, incident, faults >>
  BY DEF Claim
<1>6. CASE Claimable(kept)
  <2> DEFINE new == [ kept EXCEPT !.status = "APPLYING", !.lapsed = FALSE, !.claim = @ + 1 ]
             w == [ attempt[a] EXCEPT !.at = "claimed", !.claim = kept.claim + 1 ]
  <2>1. /\ kept.claim < MaxClaims
        /\ receipt' = [ receipt EXCEPT ![n] = new ]
        /\ attempt' = [ attempt EXCEPT ![a].at = "claimed", ![a].claim = kept.claim + 1 ]
    BY <1>6 DEF Claim, ReceiptOf
  <2>2. kept.claim + 1 \in 0 .. MaxClaims /\ kept.claim + 1 \in Nat
    BY <1>3, <2>1, WhisperAssumption DEF ReceiptRow
  <2>3. new \in ReceiptRow /\ new.about = kept.about /\ new.status = "APPLYING"
    BY <1>3, <2>2 DEF ReceiptRow
  <2>4. kept.status \notin Final
    BY <1>6 DEF Claimable, Final
  <2>5. /\ w \in Live /\ w.at = "claimed" /\ w.about = r
        /\ w.eligible = attempt[a].eligible
    BY <1>1, <2>2 DEF Live, LivePlaces
  <2>6. attempt' = [ attempt EXCEPT ![a] = w ]
    BY <1>1, <2>1 DEF ResponseInv, ResponseTypes, AttemptsOK
  <2> HIDE DEF new, w
  <2>7. /\ ReceiptsOK' /\ receipt'[n] = new
        /\ \A m \in Nonces : ReceiptStays(m) /\ ReceiptOK(m)'
    BY <1>1, <1>5, <2>1, <2>3, <2>4, ReceiptWritten
  <2>8. \A o \in Recognitions : IncidentStays(o) /\ IncidentOK(o)'
    BY <1>5, <2>7, IncidentsStand DEF Quiet
  <2>9. AttemptMoves(a) /\ attempt'[a] = w
    BY <2>5, <2>6 DEF AttemptMoves, ResponseInv, ResponseTypes, AttemptsOK
  <2>10. AttemptOK(attempt[a])'
    BY <1>2, <1>4, <2>3, <2>5, <2>7, <2>9, Kinds DEF AttemptOK, LiveOK, Approved
  <2> QED
    BY <1>5, <2>7, <2>8, <2>9, <2>10, AttemptStep
       DEF Quiet, ResponseInv, ResponseTypes, IncidentsOK
<1>7. CASE ~Claimable(kept)
  <2>1. Answered(a, StoredAnswer(kept)) /\ UNCHANGED receipt
    BY <1>7 DEF Claim, ReceiptOf
  <2>2. StoredAnswer(kept) \in { "accepted", "refused", "unresolved" }
    BY DEF StoredAnswer
  <2>3. /\ AttemptMoves(a) /\ attempt'[a] \in Told
        /\ attempt'[a].about = r /\ attempt'[a].answer = StoredAnswer(kept)
    BY <1>0, <2>1, <2>2, Answering DEF Answers, ResponseInv
  <2>4. AttemptOK(attempt[a])'
    BY <1>2, <2>1, <2>3, Kinds DEF AttemptOK, ToldOK, StoredAnswer
  <2>5. \A m \in Nonces : ReceiptStays(m)
    BY <2>1 DEF ReceiptStays
  <2>6. /\ \A o \in Recognitions : IncidentStays(o) /\ IncidentOK(o)'
        /\ \A m \in Nonces : ReceiptOK(m)'
    BY <1>5, <2>1, <2>5, IncidentsStand, ReceiptsStand DEF Quiet
  <2> QED
    BY <1>5, <2>1, <2>3, <2>4, <2>5, <2>6, AttemptStep
       DEF Quiet, ResponseInv, ResponseTypes, IncidentsOK, ReceiptsOK
<1> QED
  BY <1>6, <1>7

LEMMA ProbeKept ==
  ASSUME SignalInv, ResponseInv, Quiet, NEW a \in Attempts, Probe(a)
  PROVE  ResponseInv' /\ Stays
<1> DEFINE r == attempt[a].about
<1>0. attempt[a].at = "claimed" /\ attempt[a].at \in LivePlaces
  BY DEF Probe, LivePlaces
<1>1. r \in Recognitions /\ attempt[a] \in Live
  BY <1>0, LiveAt DEF ResponseInv
<1>2. /\ receipt[NonceOf[r]] # NoReceipt /\ receipt[NonceOf[r]].about = r
      /\ attempt[a].eligible => Approved(r)
      /\ incident[r] # NoIncident => Approved(r)
  BY <1>0, <1>1 DEF ResponseInv, AttemptOK, LiveOK, IncidentOK
<1>3. Course(a) \in { "opening", "refusing" } /\ (Course(a) = "opening" => Approved(r))
  BY <1>2 DEF Course
<1>4. Goes(a, Course(a)) /\ UNCHANGED << receipt, fresh, incident, faults >>
  BY DEF Probe
<1>5. /\ AttemptMoves(a) /\ attempt'[a] \in Live /\ attempt'[a].at = Course(a)
      /\ attempt'[a].about = r /\ attempt'[a].eligible = attempt[a].eligible
  BY <1>0, <1>3, <1>4, Going DEF ResponseInv, LivePlaces, Working
<1>6. family' = family
  BY DEF Quiet
<1>7. AttemptOK(attempt[a])'
  BY <1>2, <1>3, <1>4, <1>5, <1>6, Kinds DEF AttemptOK, LiveOK, Approved
<1>8. \A m \in Nonces : ReceiptStays(m)
  BY <1>4 DEF ReceiptStays
<1>9. /\ \A o \in Recognitions : IncidentStays(o) /\ IncidentOK(o)'
      /\ \A m \in Nonces : ReceiptOK(m)'
  BY <1>4, <1>8, IncidentsStand, ReceiptsStand DEF Quiet
<1> QED
  BY <1>4, <1>5, <1>7, <1>8, <1>9, AttemptStep
     DEF Quiet, ResponseInv, ResponseTypes, ReceiptsOK, IncidentsOK

\* One incident row is written, over a receipt that is its own.
LEMMA IncidentWritten ==
  ASSUME ResponseInv, NEW r \in Recognitions, NEW row \in Incidents(Commanders),
         incident' = [ incident EXCEPT ![r] = row ],
         UNCHANGED << receipt, family, approvals >>,
         receipt[NonceOf[r]] # NoReceipt, receipt[NonceOf[r]].about = r, Approved(r),
         incident[r] # NoIncident =>
           /\ incident[r].dispatch # "ABSENT" => row.dispatch # "ABSENT"
           /\ Entered(incident[r]) => Entered(row),
         row.dispatch = "DELIVERED" => Cardinality(approvals[r]) >= 2
  PROVE  /\ IncidentsOK' /\ incident'[r] = row
         /\ \A o \in Recognitions : IncidentStays(o) /\ IncidentOK(o)'
         /\ \A n \in Nonces : ReceiptStays(n) /\ ReceiptOK(n)'
<1>1. /\ IncidentsOK' /\ incident'[r] = row /\ row # NoIncident
      /\ \A o \in Recognitions \ { r } : incident'[o] = incident[o]
  BY Kinds DEF ResponseInv, ResponseTypes, IncidentsOK
<1>2. \A o \in Recognitions : IncidentStays(o)
  BY <1>1 DEF IncidentStays
<1>3. ASSUME NEW o \in Recognitions PROVE IncidentOK(o)'
  <2>1. IncidentOK(o)
    BY DEF ResponseInv
  <2>2. CASE o = r
    BY <1>1, <2>2 DEF IncidentOK, Approved
  <2>3. CASE o # r
    BY <1>1, <2>1, <2>3 DEF IncidentOK, Approved
  <2> QED
    BY <2>2, <2>3
<1> QED
  BY <1>1, <1>2, <1>3, ReceiptsStand

\* A step of the playbook: from one place to the next, over the row it writes.
LEMMA AdvanceKept ==
  ASSUME SignalInv, ResponseInv, Quiet, NEW a \in Attempts,
         NEW from \in Working, NEW to \in Working, NEW row \in Incidents(Commanders),
         Advance(a, from, to, row),
         to # "opening", Approved(attempt[a].about),
         incident[attempt[a].about] # NoIncident =>
           /\ incident[attempt[a].about].dispatch # "ABSENT" => row.dispatch # "ABSENT"
           /\ Entered(incident[attempt[a].about]) => Entered(row),
         row.dispatch = "DELIVERED" => Cardinality(approvals[attempt[a].about]) >= 2,
         to \in { "preserving", "evaluating", "accepting" } => row.dispatch # "ABSENT",
         to \in { "evaluating", "accepting" } => Entered(row)
  PROVE  ResponseInv' /\ Stays
<1> DEFINE r == attempt[a].about
<1>0. attempt[a].at = from /\ attempt[a].at \in LivePlaces /\ from # "judged"
  BY DEF Advance, LivePlaces, Working
<1>1. r \in Recognitions /\ attempt[a] \in Live
  BY <1>0, LiveAt DEF ResponseInv
<1>2. /\ receipt[NonceOf[r]] # NoReceipt /\ receipt[NonceOf[r]].about = r
      /\ attempt[a].eligible => Approved(r)
  BY <1>0, <1>1 DEF ResponseInv, AttemptOK, LiveOK
<1>3. /\ Goes(a, to) /\ incident' = [ incident EXCEPT ![r] = row ]
      /\ UNCHANGED << receipt, fresh, faults >>
  BY DEF Advance
<1>4. /\ AttemptMoves(a) /\ attempt'[a] \in Live /\ attempt'[a].at = to
      /\ attempt'[a].about = r /\ attempt'[a].eligible = attempt[a].eligible
  BY <1>0, <1>3, Going DEF ResponseInv, LivePlaces
<1>5. /\ IncidentsOK' /\ incident'[r] = row
      /\ \A o \in Recognitions : IncidentStays(o) /\ IncidentOK(o)'
      /\ \A n \in Nonces : ReceiptStays(n) /\ ReceiptOK(n)'
  BY <1>1, <1>2, <1>3, IncidentWritten DEF Quiet
<1>6. family' = family /\ row # NoIncident
  BY Kinds DEF Quiet
<1>7. AttemptOK(attempt[a])'
  BY <1>2, <1>3, <1>4, <1>5, <1>6, Kinds DEF AttemptOK, LiveOK, Approved, Entered
<1> QED
  BY <1>3, <1>4, <1>5, <1>7, AttemptStep
     DEF Quiet, ResponseInv, ResponseTypes, ReceiptsOK

\* The row an attempt in the playbook works on.
LEMMA WorksOn ==
  ASSUME ResponseInv, NEW a \in Attempts, attempt[a].at \in Working
  PROVE  /\ attempt[a].about \in Recognitions /\ LiveOK(attempt[a])
         /\ attempt[a].at = "opening" => Approved(attempt[a].about)
         /\ incident[attempt[a].about] # NoIncident =>
              /\ incident[attempt[a].about] \in Incidents(Commanders)
              /\ Approved(attempt[a].about)
              /\ incident[attempt[a].about].dispatch = "DELIVERED"
                   => Cardinality(approvals[attempt[a].about]) >= 2
<1>1. attempt[a] \in Live /\ attempt[a].about \in Recognitions
  BY LiveAt DEF ResponseInv, LivePlaces
<1> QED
  BY <1>1 DEF ResponseInv, AttemptOK, LiveOK, IncidentOK, ResponseTypes, IncidentsOK

LEMMA PlaybookKept ==
  ASSUME SignalInv, ResponseInv, Quiet, NEW a \in Attempts,
         OpenIncident(a) \/ EnsureTasks(a) \/ Preserve(a) \/ Evaluate(a)
  PROVE  ResponseInv' /\ Stays
<1> DEFINE r == attempt[a].about
<1>1. CASE OpenIncident(a)
  <2> DEFINE row == IF Row(a) = NoIncident THEN Opened("SILENT", 0, TRUE, TRUE) ELSE Row(a)
  <2>1. attempt[a].at = "opening" /\ Advance(a, "opening", "tasking", row)
    BY <1>1 DEF OpenIncident, Advance
  <2>2. /\ row \in Incidents(Commanders) /\ Approved(r)
        /\ incident[r] # NoIncident => row = incident[r]
        /\ row.dispatch = "DELIVERED" => Cardinality(approvals[r]) >= 2
    BY <2>1, WorksOn, FirstRow DEF Row, Working
  <2> HIDE DEF row
  <2> QED
    BY <2>1, <2>2, AdvanceKept DEF Working
<1>2. CASE EnsureTasks(a)
  <2>1. attempt[a].at = "tasking" /\ Advance(a, "tasking", "preserving", WithTasks(Row(a)))
    BY <1>2 DEF EnsureTasks, Advance
  <2>2. /\ incident[r] # NoIncident /\ incident[r] \in Incidents(Commanders) /\ Approved(r)
        /\ incident[r].dispatch = "DELIVERED" => Cardinality(approvals[r]) >= 2
    BY <2>1, WorksOn DEF Working, LiveOK
  <2>3. /\ WithTasks(Row(a)) \in Incidents(Commanders)
        /\ WithTasks(Row(a)).dispatch # "ABSENT"
        /\ incident[r].dispatch # "ABSENT" => WithTasks(Row(a)) = incident[r]
        /\ WithTasks(Row(a)).dispatch = "DELIVERED" => Cardinality(approvals[r]) >= 2
    BY <2>2, Playbook DEF Row
  <2>4. Entered(incident[r]) => Entered(WithTasks(Row(a)))
    BY <2>3 DEF Entered
  <2> QED
    BY <2>1, <2>2, <2>3, <2>4, AdvanceKept DEF Working
<1>3. CASE Preserve(a)
  <2>1. /\ attempt[a].at = "preserving"
        /\ Advance(a, "preserving", "evaluating", Preserved(Row(a)))
    BY <1>3 DEF Preserve, Advance
  <2>2. /\ incident[r] # NoIncident /\ incident[r] \in Incidents(Commanders) /\ Approved(r)
        /\ incident[r].dispatch # "ABSENT"
        /\ incident[r].dispatch = "DELIVERED" => Cardinality(approvals[r]) >= 2
    BY <2>1, WorksOn DEF Working, LiveOK
  <2>3. /\ Preserved(Row(a)) \in Incidents(Commanders)
        /\ Preserved(Row(a)).dispatch = incident[r].dispatch
        /\ Preserved(Row(a)).snapshot = "DONE"
    BY <2>2, Playbook DEF Row
  <2>4. Entered(Preserved(Row(a)))
    BY <2>2, <2>3, Kinds DEF Entered
  <2> QED
    BY <2>1, <2>2, <2>3, <2>4, AdvanceKept DEF Working
<1>4. CASE Evaluate(a)
  <2>1. /\ attempt[a].at = "evaluating"
        /\ Advance(a, "evaluating", "accepting", Row(a))
    BY <1>4, NeverAtEntry DEF Evaluate, Advance
  <2>2. /\ incident[r] # NoIncident /\ incident[r] \in Incidents(Commanders) /\ Approved(r)
        /\ incident[r].dispatch # "ABSENT" /\ Entered(incident[r])
        /\ incident[r].dispatch = "DELIVERED" => Cardinality(approvals[r]) >= 2
    BY <2>1, WorksOn DEF Working, LiveOK
  <2> QED
    BY <2>1, <2>2, AdvanceKept DEF Working, Row
<1> QED
  BY <1>1, <1>2, <1>3, <1>4

LEMMA FinalizeKept ==
  ASSUME SignalInv, ResponseInv, Quiet, NEW a \in Attempts, Finalize(a)
  PROVE  ResponseInv' /\ Stays
<1> DEFINE r == attempt[a].about
           n == NonceOf[r]
           outcome == IF attempt[a].at = "accepting" THEN "APPLIED" ELSE "REFUSED"
<1>0. /\ attempt[a].at \in { "accepting", "refusing" }
      /\ attempt[a].at \in LivePlaces /\ attempt[a].at \in Working
  BY DEF Finalize, LivePlaces, Working
<1>1. r \in Recognitions /\ n \in Nonces /\ LiveOK(attempt[a])
  BY <1>0, WorksOn, NonceOfIsNonce
<1>2. /\ receipt[n] # NoReceipt /\ receipt[n].about = r
      /\ attempt[a].at = "accepting" => Entered(incident[r])
  BY <1>0, <1>1 DEF LiveOK
<1>3. receipt[n] \in ReceiptRow
  BY <1>1, <1>2 DEF ResponseInv, ResponseTypes, ReceiptsOK
<1>4. UNCHANGED << fresh, incident, faults >>
  BY DEF Finalize
<1>5. CASE HoldsClaim(a)
  <2> DEFINE new == [ receipt[n] EXCEPT !.status = outcome ]
             answer == IF outcome = "APPLIED" THEN "accepted" ELSE "refused"
  <2>1. receipt' = [ receipt EXCEPT ![n] = new ] /\ Answered(a, answer)
    BY <1>5, <1>1 DEF Finalize, ResponseInv, ResponseTypes, ReceiptsOK
  <2>2. new \in ReceiptRow /\ new.about = receipt[n].about /\ new.status = outcome
    BY <1>3 DEF ReceiptRow, Final
  <2>3. receipt[n].status \notin Final
    BY <1>5 DEF HoldsClaim, ReceiptOf, Final
  <2> HIDE DEF new
  <2>4. new.status = "APPLIED" => Entered(incident[new.about])
    BY <1>2, <2>2
  <2>5. /\ ReceiptsOK' /\ receipt'[n] = new
        /\ \A m \in Nonces : ReceiptStays(m) /\ ReceiptOK(m)'
    BY <1>1, <1>4, <2>1, <2>2, <2>3, <2>4, ReceiptWritten
  <2>6. \A o \in Recognitions : IncidentStays(o) /\ IncidentOK(o)'
    BY <1>4, <2>5, IncidentsStand DEF Quiet
  <2>7. /\ AttemptMoves(a) /\ attempt'[a] \in Told
        /\ attempt'[a].about = r /\ attempt'[a].answer = answer
    BY <1>0, <2>1, Answering DEF Answers, ResponseInv
  <2>8. new # NoReceipt
    BY <2>2, Kinds
  <2>9. AttemptOK(attempt[a])'
    BY <2>2, <2>5, <2>7, <2>8, Kinds DEF AttemptOK, ToldOK
  <2> QED
    BY <1>4, <2>5, <2>6, <2>7, <2>9, AttemptStep
       DEF Quiet, ResponseInv, ResponseTypes, IncidentsOK
<1>6. CASE ~HoldsClaim(a)
  <2>1. Answered(a, StoredAnswer(receipt[n])) /\ UNCHANGED receipt
    BY <1>6 DEF Finalize, ReceiptOf
  <2>2. StoredAnswer(receipt[n]) \in { "accepted", "refused", "unresolved" }
    BY DEF StoredAnswer
  <2>3. /\ AttemptMoves(a) /\ attempt'[a] \in Told
        /\ attempt'[a].about = r /\ attempt'[a].answer = StoredAnswer(receipt[n])
    BY <1>0, <2>1, <2>2, Answering DEF Answers, ResponseInv
  <2>4. AttemptOK(attempt[a])'
    BY <1>2, <2>1, <2>3, Kinds DEF AttemptOK, ToldOK, StoredAnswer
  <2>5. \A m \in Nonces : ReceiptStays(m)
    BY <2>1 DEF ReceiptStays
  <2>6. /\ \A o \in Recognitions : IncidentStays(o) /\ IncidentOK(o)'
        /\ \A m \in Nonces : ReceiptOK(m)'
    BY <1>4, <2>1, <2>5, IncidentsStand, ReceiptsStand DEF Quiet
  <2> QED
    BY <1>4, <2>1, <2>3, <2>4, <2>5, <2>6, AttemptStep
       DEF Quiet, ResponseInv, ResponseTypes, IncidentsOK, ReceiptsOK
<1> QED
  BY <1>5, <1>6

LEMMA FailKept ==
  ASSUME SignalInv, ResponseInv, Quiet, NEW a \in Attempts, Fail(a)
  PROVE  ResponseInv' /\ Stays
<1> DEFINE r == attempt[a].about
           n == NonceOf[r]
<1>0. attempt[a].at \in Working /\ attempt[a].at \in LivePlaces
  BY DEF Fail, LivePlaces
<1>1. r \in Recognitions /\ n \in Nonces /\ LiveOK(attempt[a])
  BY <1>0, WorksOn, NonceOfIsNonce
<1>2. receipt[n] # NoReceipt /\ receipt[n].about = r
  BY <1>0, <1>1 DEF LiveOK, Working
<1>3. receipt[n] \in ReceiptRow
  BY <1>1, <1>2 DEF ResponseInv, ResponseTypes, ReceiptsOK
<1>4. UNCHANGED << fresh, incident >> /\ faults' \in 0 .. MaxFaults
  BY WhisperAssumption DEF Fail, ResponseInv, ResponseTypes
<1>5. /\ AttemptMoves(a) /\ attempt'[a] \in Told
      /\ attempt'[a].about = r /\ attempt'[a].answer = "unresolved"
  BY <1>0, Answering DEF Fail, Answers, ResponseInv
<1>6. ReceiptsOK' /\ \A m \in Nonces : ReceiptStays(m) /\ ReceiptOK(m)'
  <2>1. CASE UNCHANGED receipt
    <3>1. \A o \in Recognitions : IncidentStays(o)
      BY <1>4 DEF IncidentStays, Entered
    <3> QED
      BY <2>1, <3>1, ReceiptsStand DEF ResponseInv, ResponseTypes, ReceiptsOK
  <2>2. CASE HoldsClaim(a) /\ receipt' = [ receipt EXCEPT ![n].status = "UNKNOWN" ]
    <3> DEFINE new == [ receipt[n] EXCEPT !.status = "UNKNOWN" ]
    <3>1. receipt' = [ receipt EXCEPT ![n] = new ]
      BY <1>1, <2>2 DEF ResponseInv, ResponseTypes, ReceiptsOK
    <3>2. new \in ReceiptRow /\ new.about = receipt[n].about /\ new.status = "UNKNOWN"
      BY <1>3 DEF ReceiptRow
    <3>3. receipt[n].status \notin Final
      BY <2>2 DEF HoldsClaim, ReceiptOf, Final
    <3> HIDE DEF new
    <3> QED
      BY <1>1, <1>4, <3>1, <3>2, <3>3, ReceiptWritten
  <2> QED
    BY <2>1, <2>2 DEF Fail
<1>7. \A o \in Recognitions : IncidentStays(o) /\ IncidentOK(o)'
  BY <1>4, <1>6, IncidentsStand DEF Quiet
<1>8. AttemptOK(attempt[a])'
  <2>1. receipt'[n] # NoReceipt
    BY <1>1, <1>2, <1>6 DEF ReceiptStays
  <2> QED
    BY <1>5, <2>1, Kinds DEF AttemptOK, ToldOK
<1> QED
  BY <1>4, <1>5, <1>6, <1>7, <1>8, AttemptStep
     DEF Quiet, ResponseInv, ResponseTypes, IncidentsOK

-----------------------------------------------------------------------------
(* Steps that are nobody's attempt *)

LEMMA AttemptsStand ==
  ASSUME ResponseInv, Stays, UNCHANGED attempt
  PROVE  AttemptsOK' /\ \A b \in Attempts : AttemptOK(attempt[b])'
<1>1. AttemptsOK'
  BY DEF ResponseInv, ResponseTypes, AttemptsOK
<1>2. ASSUME NEW b \in Attempts PROVE AttemptOK(attempt[b])'
  <2>1. PICK u : u = attempt[b]
    OBVIOUS
  <2>2. u \in Live \cup Told \cup { Unused } /\ AttemptOK(u)
    BY <2>1 DEF ResponseInv, ResponseTypes, AttemptsOK
  <2>3. AttemptOK(u)'
    BY <2>2, AttemptStands DEF ResponseInv
  <2>4. attempt'[b] = u
    BY <2>1
  <2> QED
    BY <2>3, <2>4 DEF AttemptOK, LiveOK, ToldOK
<1> QED
  BY <1>1, <1>2

LEMMA ApprovalsStand ==
  ASSUME ResponseInv, Stays, UNCHANGED << approving, approvals >>
  PROVE  ApprovingOK' /\ \A c \in Commanders : ApprovalOK(approving[c])'
<1>1. ApprovingOK'
  BY DEF ResponseInv, ResponseTypes, ApprovingOK
<1>2. ASSUME NEW c \in Commanders PROVE ApprovalOK(approving[c])'
  <2>1. PICK u : u = approving[c]
    OBVIOUS
  <2>2. ApprovalOK(u)
    BY <2>1 DEF ResponseInv
  <2>3. ApprovalOK(u)'
    BY <2>2, ApprovalStands
  <2>4. approving'[c] = u
    BY <2>1
  <2> QED
    BY <2>3, <2>4 DEF ApprovalOK
<1> QED
  BY <1>1, <1>2

LEMMA LapseKept ==
  ASSUME ResponseInv, Quiet, NEW n \in Nonces, Lapse(n)
  PROVE  ResponseInv' /\ Stays
<1> DEFINE new == [ receipt[n] EXCEPT !.lapsed = TRUE ]
<1>0. UNCHANGED << attempt, fresh, incident, approvals, approving, faults, family >>
  BY DEF Lapse, Quiet
<1>1. receipt[n] \in ReceiptRow /\ receipt[n].status = "APPLYING"
  BY DEF Lapse, ResponseInv, ResponseTypes, ReceiptsOK, NoReceipt
<1>2. receipt' = [ receipt EXCEPT ![n] = new ]
  BY DEF Lapse, ResponseInv, ResponseTypes, ReceiptsOK
<1>3. new \in ReceiptRow /\ new.about = receipt[n].about /\ new.status = "APPLYING"
  BY <1>1 DEF ReceiptRow
<1>4. receipt[n].status \notin Final
  BY <1>1 DEF Final
<1> HIDE DEF new
<1>5. ReceiptsOK' /\ \A m \in Nonces : ReceiptStays(m) /\ ReceiptOK(m)'
  BY <1>0, <1>2, <1>3, <1>4, ReceiptWritten
<1>6. \A o \in Recognitions : IncidentStays(o) /\ IncidentOK(o)'
  BY <1>0, <1>5, IncidentsStand
<1>7. Stays
  BY <1>0, <1>5, <1>6 DEF Stays, Approved
<1>8. AttemptsOK' /\ \A b \in Attempts : AttemptOK(attempt[b])'
  BY <1>0, <1>7, AttemptsStand
<1>9. ApprovingOK' /\ \A c \in Commanders : ApprovalOK(approving[c])'
  BY <1>0, <1>7, ApprovalsStand
<1> QED
  BY <1>0, <1>5, <1>6, <1>7, <1>8, <1>9
     DEF ResponseInv, ResponseTypes, IncidentsOK, ApprovalsOK

\* A step of the family, or one that leaves receipts and incidents alone.
LEMMA ElsewhereKept ==
  ASSUME ResponseInv,
         UNCHANGED << attempt, receipt, incident, approvals, approving, faults >>,
         fresh' \subseteq Recognitions,
         \A r \in Recognitions : Approved(r) => Approved(r)'
  PROVE  ResponseInv' /\ Stays
<1>1. Stays
  BY DEF Stays, ReceiptStays, IncidentStays, Entered
<1>2. AttemptsOK' /\ \A b \in Attempts : AttemptOK(attempt[b])'
  BY <1>1, AttemptsStand
<1>3. ApprovingOK' /\ \A c \in Commanders : ApprovalOK(approving[c])'
  BY <1>1, ApprovalsStand
<1>4. \A r \in Recognitions : IncidentOK(r)'
  BY DEF ResponseInv, IncidentOK
<1>5. \A n \in Nonces : ReceiptOK(n)'
  BY DEF ResponseInv, ReceiptOK, Entered
<1> QED
  BY <1>1, <1>2, <1>3, <1>4, <1>5
     DEF ResponseInv, ResponseTypes, ReceiptsOK, IncidentsOK, ApprovalsOK

\* Whoever has approved has approved: approvals only grow, and stay countable.
LEMMA ApprovalsGrow ==
  ASSUME NEW S, NEW c, IsFiniteSet(S), Cardinality(S) >= 2
  PROVE  Cardinality(S \cup { c }) >= 2
<1>1. IsFiniteSet(S \cup { c }) /\ S \subseteq S \cup { c }
  BY FS_AddElement
<1>2. /\ Cardinality(S) \in Nat /\ Cardinality(S \cup { c }) \in Nat
      /\ Cardinality(S) <= Cardinality(S \cup { c })
  BY <1>1, FS_Subset, FS_CardinalityType
<1> QED
  BY <1>2

\* A commander's own record after a step that changes no more than it.
LEMMA ApprovalStep ==
  ASSUME ResponseInv, Quiet \/ UNCHANGED << family, editing >>, NEW c \in Commanders,
         NEW w, w = NoApproval \/ w \in Approving,
         approving' = [ approving EXCEPT ![c] = w ],
         UNCHANGED << receipt, attempt, fresh, family >>, faults' \in 0 .. MaxFaults,
         ApprovalsOK', IncidentsOK',
         \A r \in Recognitions : IncidentStays(r) /\ IncidentOK(r)',
         \A r \in Recognitions : Cardinality(approvals[r]) >= 2
                                   => Cardinality(approvals'[r]) >= 2,
         w \in Approving => /\ incident'[w.about] # NoIncident
                            /\ w.at = "allowed" => Cardinality(approvals'[w.about]) >= 2
  PROVE  ResponseInv' /\ Stays
<1>1. \A n \in Nonces : ReceiptStays(n) /\ ReceiptOK(n)'
  BY ReceiptsStand
<1>2. Stays
  BY <1>1 DEF Stays, Approved
<1>3. AttemptsOK' /\ \A b \in Attempts : AttemptOK(attempt[b])'
  BY <1>2, AttemptsStand
<1>4. DOMAIN approving = Commanders /\ DOMAIN approving' = Commanders
      /\ approving'[c] = w /\ \A o \in Commanders \ { c } : approving'[o] = approving[o]
  BY DEF ResponseInv, ResponseTypes, ApprovingOK
<1>5. ApprovingOK'
  BY <1>4 DEF ResponseInv, ResponseTypes, ApprovingOK
<1>6. ASSUME NEW o \in Commanders PROVE ApprovalOK(approving[o])'
  <2>1. CASE o = c
    BY <1>4, <2>1 DEF ApprovalOK
  <2>2. CASE o # c
    <3>1. ApprovalOK(approving[o]) /\ approving'[o] = approving[o]
      BY <1>4, <2>2 DEF ResponseInv
    <3> QED
      BY <3>1 DEF ApprovalOK, IncidentStays, Approving
  <2> QED
    BY <2>1, <2>2
<1> QED
  BY <1>1, <1>2, <1>3, <1>5, <1>6 DEF ResponseInv, ResponseTypes, ReceiptsOK

LEMMA ApproverAt ==
  ASSUME ResponseInv, NEW c \in Commanders,
         approving[c].at \in { "read", "recorded", "allowed" }
  PROVE  /\ approving[c] \in Approving /\ approving[c].about \in Recognitions
         /\ incident[approving[c].about] # NoIncident
         /\ approving[c].at = "allowed" => Cardinality(approvals[approving[c].about]) >= 2
<1>1. approving[c] \in Approving
  BY Kinds DEF ResponseInv, ResponseTypes, ApprovingOK
<1> QED
  BY <1>1 DEF ResponseInv, ApprovalOK, Approving

LEMMA ReadDispatchKept ==
  ASSUME ResponseInv, UNCHANGED << family, editing >>, NEW c \in Commanders,
         NEW r \in Recognitions, ReadDispatch(c, r)
  PROVE  ResponseInv' /\ Stays
<1> DEFINE w == [ at |-> "read", about |-> r,
                  requested |-> incident[r].dispatch = "REQUESTED" ]
<1>1. /\ approving' = [ approving EXCEPT ![c] = w ] /\ incident[r] # NoIncident
      /\ UNCHANGED << receipt, attempt, fresh, incident, approvals, faults >>
  BY DEF ReadDispatch
<1>2. w \in Approving /\ w.about = r /\ w.at = "read"
  BY DEF Approving
<1> HIDE DEF w
<1>3. /\ \A n \in Nonces : ReceiptStays(n)
      /\ \A o \in Recognitions : IncidentStays(o) /\ IncidentOK(o)'
  BY <1>1, IncidentsStand DEF ReceiptStays
<1> QED
  BY <1>1, <1>2, <1>3, ApprovalStep
     DEF ResponseInv, ResponseTypes, ApprovalsOK, IncidentsOK

LEMMA RecordApprovalKept ==
  ASSUME ResponseInv, UNCHANGED << family, editing >>, NEW c \in Commanders,
         RecordApproval(c)
  PROVE  ResponseInv' /\ Stays
<1> DEFINE r == approving[c].about
           u == [ approving[c] EXCEPT !.at = "recorded" ]
<1>1. /\ approving[c] \in Approving /\ r \in Recognitions
      /\ incident[r] # NoIncident
  BY ApproverAt DEF RecordApproval
<1>2. /\ approvals' = [ approvals EXCEPT ![r] = approvals[r] \cup { c } ]
      /\ UNCHANGED << receipt, attempt, fresh, incident, faults >>
  BY DEF RecordApproval
<1>3. u \in Approving /\ u.about = r /\ u.at = "recorded"
  BY <1>1 DEF Approving
<1> HIDE DEF u
<1>4. approving' = [ approving EXCEPT ![c] = u ]
      \/ approving' = [ approving EXCEPT ![c] = NoApproval ]
  BY DEF RecordApproval, ApprovalAt, ResponseInv, ResponseTypes, ApprovingOK, u
<1>5. ApprovalsOK'
  <2>1. IsFiniteSet(approvals[r] \cup { c })
    BY <1>1, FS_AddElement DEF ResponseInv, ResponseTypes, ApprovalsOK
  <2> QED
    BY <1>1, <1>2, <2>1 DEF ResponseInv, ResponseTypes, ApprovalsOK
<1>6. \A o \in Recognitions : Cardinality(approvals[o]) >= 2
                                => Cardinality(approvals'[o]) >= 2
  <2>1. Cardinality(approvals[r]) >= 2 => Cardinality(approvals[r] \cup { c }) >= 2
    BY <1>1, ApprovalsGrow DEF ResponseInv, ResponseTypes, ApprovalsOK
  <2>2. \A o \in Recognitions :
          approvals'[o] = IF o = r THEN approvals[r] \cup { c } ELSE approvals[o]
    BY <1>1, <1>2 DEF ResponseInv, ResponseTypes, ApprovalsOK
  <2> QED
    BY <2>1, <2>2
<1>7. \A o \in Recognitions : IncidentStays(o) /\ IncidentOK(o)'
  BY <1>2, <1>6 DEF IncidentStays, Entered, IncidentOK, Approved, ResponseInv
<1> QED
  BY <1>1, <1>2, <1>3, <1>4, <1>5, <1>6, <1>7, Kinds, ApprovalStep
     DEF ResponseInv, ResponseTypes, IncidentsOK

LEMMA EvaluateApprovalsKept ==
  ASSUME ResponseInv, UNCHANGED << family, editing >>, NEW c \in Commanders,
         EvaluateApprovals(c)
  PROVE  ResponseInv' /\ Stays
<1> DEFINE r == approving[c].about
           u == [ approving[c] EXCEPT !.at = "allowed" ]
<1>1. /\ approving[c] \in Approving /\ r \in Recognitions
      /\ incident[r] # NoIncident
  BY ApproverAt DEF EvaluateApprovals
<1>2. UNCHANGED << receipt, attempt, fresh, incident, approvals, faults >>
  BY DEF EvaluateApprovals
<1>3. u \in Approving /\ u.about = r /\ u.at = "allowed"
  BY <1>1 DEF Approving
<1> HIDE DEF u
<1>4. \/ /\ approving' = [ approving EXCEPT ![c] = u ]
         /\ Cardinality(approvals[r]) >= 2
      \/ approving' = [ approving EXCEPT ![c] = NoApproval ]
  BY DEF EvaluateApprovals, Allows, RequiredApprovers, ApprovalAt, ResponseInv,
     ResponseTypes, ApprovingOK, u
<1>5. /\ \A n \in Nonces : ReceiptStays(n)
      /\ \A o \in Recognitions : IncidentStays(o) /\ IncidentOK(o)'
  BY <1>2, IncidentsStand DEF ReceiptStays
<1> QED
  BY <1>1, <1>2, <1>3, <1>4, <1>5, Kinds, ApprovalStep
     DEF ResponseInv, ResponseTypes, ApprovalsOK, IncidentsOK

LEMMA HandOffKept ==
  ASSUME ResponseInv, UNCHANGED << family, editing >>, NEW c \in Commanders, HandOff(c)
  PROVE  ResponseInv' /\ Stays
<1> DEFINE r == approving[c].about
           row == HandedOff(incident[r])
<1>1. /\ approving[c] \in Approving /\ r \in Recognitions
      /\ incident[r] # NoIncident /\ Cardinality(approvals[r]) >= 2
  BY ApproverAt DEF HandOff
<1>2. /\ incident' = [ incident EXCEPT ![r] = row ]
      /\ approving' = [ approving EXCEPT ![c] = NoApproval ]
      /\ UNCHANGED << receipt, attempt, fresh, approvals, faults >>
  BY DEF HandOff
<1>3. /\ row \in Incidents(Commanders)
      /\ incident[r].dispatch # "ABSENT" => row.dispatch # "ABSENT"
      /\ row.snapshot = incident[r].snapshot
  BY <1>1, Playbook DEF ResponseInv, ResponseTypes, IncidentsOK
<1>4. Entered(incident[r]) => Entered(row)
  BY <1>3, Kinds DEF Entered
<1>5. /\ receipt[NonceOf[r]] # NoReceipt /\ receipt[NonceOf[r]].about = r /\ Approved(r)
  BY <1>1 DEF ResponseInv, IncidentOK
<1> HIDE DEF row
<1>6. /\ IncidentsOK'
      /\ \A o \in Recognitions : IncidentStays(o) /\ IncidentOK(o)'
  BY <1>1, <1>2, <1>3, <1>4, <1>5, IncidentWritten
<1> QED
  BY <1>2, <1>6, Kinds, ApprovalStep DEF ResponseInv, ResponseTypes, ApprovalsOK

LEMMA LoseApprovalKept ==
  ASSUME ResponseInv, UNCHANGED << family, editing >>, NEW c \in Commanders,
         LoseApproval(c)
  PROVE  ResponseInv' /\ Stays
<1>1. /\ approving' = [ approving EXCEPT ![c] = NoApproval ]
      /\ UNCHANGED << receipt, attempt, fresh, incident, approvals >>
      /\ faults' \in 0 .. MaxFaults
  BY WhisperAssumption DEF LoseApproval, ResponseInv, ResponseTypes
<1>2. /\ \A n \in Nonces : ReceiptStays(n)
      /\ \A o \in Recognitions : IncidentStays(o) /\ IncidentOK(o)'
  BY <1>1, IncidentsStand DEF ReceiptStays
<1> QED
  BY <1>1, <1>2, Kinds, ApprovalStep
     DEF ResponseInv, ResponseTypes, ApprovalsOK, IncidentsOK

-----------------------------------------------------------------------------
(* The inductive invariant and the theorems *)

IInv == SignalInv /\ ResponseInv

LEMMA Initially == Init => IInv
<1> SUFFICES ASSUME Init PROVE IInv
  OBVIOUS
<1> USE DEF Init, ResponseInit
<1>1. SignalInv
  BY SignalInitially
<1>2. ResponseTypes
  <2>1. \A r \in Recognitions : IsFiniteSet(approvals[r])
    BY FS_EmptySet
  <2> QED
    BY <2>1, WhisperAssumption DEF ResponseTypes, AttemptsOK, ReceiptsOK, IncidentsOK,
       ApprovalsOK, ApprovingOK
<1>3. \A a \in Attempts : AttemptOK(attempt[a])
  BY Kinds DEF AttemptOK
<1>4. /\ \A r \in Recognitions : IncidentOK(r)
      /\ \A n \in Nonces : ReceiptOK(n)
      /\ \A c \in Commanders : ApprovalOK(approving[c])
  BY Kinds DEF IncidentOK, ReceiptOK, ApprovalOK
<1> QED
  BY <1>1, <1>2, <1>3, <1>4 DEF IInv, ResponseInv

LEMMA RecogniseKept ==
  ASSUME IInv, UNCHANGED signalVars, NEW a \in Attempts, Recognise(a)
  PROVE  ResponseInv' /\ Stays
<1>1. Quiet
  BY DEF Quiet, signalVars, Recognise, Judge, EnsureReceipt, Claim, Probe, OpenIncident,
     EnsureTasks, Preserve, Evaluate, Advance, Finalize, Fail
<1> QED
  BY <1>1, JudgeKept, EnsureReceiptKept, ClaimKept, ProbeKept, PlaybookKept, FinalizeKept,
     FailKept DEF IInv, Recognise

LEMMA ApproveKept ==
  ASSUME IInv, UNCHANGED signalVars, NEW c \in Commanders, ApproveDispatch(c)
  PROVE  ResponseInv' /\ Stays
BY ReadDispatchKept, RecordApprovalKept, EvaluateApprovalsKept, HandOffKept,
   LoseApprovalKept DEF IInv, signalVars, ApproveDispatch

LEMMA Kept == IInv /\ [Next]_vars => IInv' /\ Stays
<1> SUFFICES ASSUME IInv, [Next]_vars PROVE IInv' /\ Stays
  OBVIOUS
<1>1. SignalInv'
  BY SignalKept DEF IInv, Next, vars
<1>2. CASE SignalNext /\ UNCHANGED responseVars
  <2>1. \A r \in Recognitions : Approved(r) => Approved(r)'
    BY <1>2, FamilyAfter DEF IInv, Approved
  <2> QED
    BY <1>1, <1>2, <2>1, ElsewhereKept DEF IInv, responseVars, ResponseInv, ResponseTypes
<1>3. CASE UNCHANGED vars
  BY <1>1, <1>3, ElsewhereKept DEF IInv, vars, signalVars, responseVars, ResponseInv,
     ResponseTypes, Approved
<1>4. CASE ResponseNext /\ UNCHANGED signalVars
  <2>1. CASE \E a \in Attempts : Recognise(a)
    BY <1>1, <1>4, <2>1, RecogniseKept DEF IInv
  <2>2. CASE \E c \in Commanders : ApproveDispatch(c)
    BY <1>1, <1>4, <2>2, ApproveKept DEF IInv
  <2>3. CASE \E r \in Recognitions : GrowStale(r)
    BY <1>1, <1>4, <2>3, ElsewhereKept DEF IInv, GrowStale, signalVars, ResponseInv,
       ResponseTypes, Approved
  <2>4. CASE \E n \in Nonces : Lapse(n)
    <3>1. Quiet
      BY <1>4, <2>4 DEF Quiet, signalVars, Lapse
    <3> QED
      BY <1>1, <2>4, <3>1, LapseKept DEF IInv
  <2> QED
    BY <1>4, <2>1, <2>2, <2>3, <2>4 DEF ResponseNext
<1> QED
  BY <1>2, <1>3, <1>4 DEF Next

LEMMA Invariance == Spec => []IInv
<1>1. IInv /\ [Next]_vars => IInv'
  BY Kept
<1> QED
  BY <1>1, Initially, PTL DEF Spec

\* Type correctness of the family, the receipts, the attempts, the incidents and
\* the approvals (whisper.repository.ts, incidents.repository.ts).
THEOREM TypeCorrect == Spec => []TypeOK
<1>1. ASSUME IInv PROVE TypeOK
  <2>1. \A a \in Attempts : attempt[a].at \in AttemptPlaces
    <3> TAKE a \in Attempts
    <3>1. attempt[a] = Unused \/ attempt[a] \in Live \/ attempt[a] \in Told
      BY <1>1 DEF IInv, ResponseInv, ResponseTypes, AttemptsOK
    <3>2. Unused.at = "unused"
      BY DEF Unused
    <3> QED
      BY <3>1, <3>2, Kinds DEF AttemptPlaces, LivePlaces
  <2> QED
    BY <1>1, <2>1 DEF IInv, SignalInv, FamilyOK, ResponseInv, ResponseTypes, ReceiptsOK,
       IncidentsOK, ApprovalsOK, ApprovingOK, TypeOK
<1> QED
  BY <1>1, Invariance, PTL

\* At most one version of a family is recognisable at a time, for any number of
\* versions and of commanders editing, moving and activating them at once
\* (whisper.repository.ts 666).
THEOREM OneActiveHolds == Spec => []OneActive
<1>1. IInv => OneActive
  BY DEF IInv, SignalInv
<1> QED
  BY <1>1, Invariance, PTL

\* What has been activated keeps the configuration its approver approved, and
\* the approver is not its creator, however late an edit or a transition begun
\* earlier is written (whisper.repository.ts 559, whisper.ts 865).
THEOREM ApprovedIsFrozenHolds == Spec => []ApprovedIsFrozen
<1>1. IInv => ApprovedIsFrozen
  BY DEF IInv, SignalInv, RowsOK, RowOK, ApprovedIsFrozen
<1> QED
  BY <1>1, Invariance, PTL

\* Every definite answer is what the receipt holds, for any number of attempts,
\* lapsed claims and failures (whisper.service.ts 1046).
THEOREM AnswersAgreeHolds == Spec => []AnswersAgree
<1>1. ASSUME IInv PROVE AnswersAgree
  <2> SUFFICES ASSUME NEW a \in Attempts, attempt[a].at = "answered"
               PROVE  CASE attempt[a].answer = "accepted" -> ReceiptOf(a).status = "APPLIED"
                        [] attempt[a].answer = "refused"  -> ReceiptOf(a).status = "REFUSED"
                        [] attempt[a].answer = "reused"   ->
                             ReceiptOf(a).about # attempt[a].about
                        [] OTHER -> TRUE
    BY DEF AnswersAgree
  <2>1. attempt[a] \in Told
    <3>1. attempt[a] = Unused \/ attempt[a] \in Live \/ attempt[a] \in Told
      BY <1>1 DEF IInv, ResponseInv, ResponseTypes, AttemptsOK
    <3>2. Unused.at = "unused"
      BY DEF Unused
    <3> QED
      BY <3>1, <3>2, Kinds
  <2>2. ToldOK(attempt[a])
    BY <1>1, <2>1 DEF IInv, ResponseInv, AttemptOK
  <2> QED
    BY <2>2 DEF ToldOK, ReceiptOf
<1> QED
  BY <1>1, Invariance, PTL

\* A silent dispatch is delivered only over two commanders' approvals, whichever
\* of a recognition and an approval runs the playbook (incidents.service.ts 223,
\* constitution.policy.ts 128).
THEOREM TwoCommandersDispatchHolds == Spec => []TwoCommandersDispatch
<1>1. IInv => TwoCommandersDispatch
  BY DEF IInv, ResponseInv, IncidentOK, TwoCommandersDispatch
<1> QED
  BY <1>1, Invariance, PTL

\* A receipt that says ACCEPTED stands for the whole entry, tasks and snapshot
\* included, wherever attempts crashed (whisper.service.ts 934-953).
THEOREM AcceptedIsEnteredHolds == Spec => []AcceptedIsEntered
<1>1. IInv => AcceptedIsEntered
  BY DEF IInv, ResponseInv, ReceiptOK, Entered, AcceptedIsEntered, NoReceipt
<1> QED
  BY <1>1, Invariance, PTL

\* One replay identity opens at most one incident, and only for a version that
\* somebody other than its creator has approved (whisper.service.ts 829,
\* whisper.ts 801).
THEOREM OpenedOnceAndApprovedHolds == Spec => []OpenedOnceAndApproved
<1>1. IInv => OpenedOnceAndApproved
  BY DEF IInv, ResponseInv, IncidentOK, Approved, OpenedOnceAndApproved
<1> QED
  BY <1>1, Invariance, PTL

\* An outcome once recorded is the outcome, whatever an attempt that lost its
\* claim still tries to write (whisper.repository.ts 922).
THEOREM OutcomeIsFinalHolds == Spec => OutcomeIsFinal
<1>1. IInv /\ [Next]_vars =>
        [ \A n \in Nonces : receipt[n].status \in Final => receipt'[n] = receipt[n] ]_vars
  BY Kept DEF Stays, ReceiptStays, NoReceipt, Final
<1> QED
  BY <1>1, Invariance, PTL DEF Spec, OutcomeIsFinal

=============================================================================
