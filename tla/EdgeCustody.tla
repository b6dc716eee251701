---------------------------- MODULE EdgeCustody ----------------------------
(***************************************************************************)
(* What an Edge promises about an operation handed to it, with no queue    *)
(* states, attempts, clocks or crashes: once taken into custody it is kept *)
(* until central has ruled on it, what the Edge then holds is central's    *)
(* ruling and no other, and only a ruled operation may be forgotten.       *)
(* ("No local state may falsely mean CENTRAL COMMITTED"; "an operation     *)
(* central has not answered cannot be deleted", edge-queue.schema.ts.)     *)
(***************************************************************************)
CONSTANT Operations

Rulings == {"APPLIED", "REJECTED"}

VARIABLES
  ruling,   \* [Operations -> Rulings \cup {"none"}]: central's own record
  custody   \* [Operations -> Rulings \cup {"none", "held"}]: the Edge's

vars == <<ruling, custody>>

Init ==
  /\ ruling = [o \in Operations |-> "none"]
  /\ custody = [o \in Operations |-> "none"]

Rule(o, outcome) ==
  /\ ruling[o] = "none"
  /\ ruling' = [ruling EXCEPT ![o] = outcome]
  /\ UNCHANGED custody

Learn(o) ==
  /\ custody[o] = "held" /\ ruling[o] # "none"
  /\ custody' = [custody EXCEPT ![o] = ruling[o]]
  /\ UNCHANGED ruling

\* Answered operations are forgotten, and at most one is taken in.
Turnover(forgotten, taken) ==
  /\ \A o \in forgotten : custody[o] \in Rulings
  /\ custody' = [ o \in Operations |-> IF o \in taken THEN "held"
                                       ELSE IF o \in forgotten THEN "none" ELSE custody[o] ]
  /\ \A o \in taken : custody[o] = "none" \/ o \in forgotten
  /\ UNCHANGED ruling

Next ==
  \/ \E o \in Operations, outcome \in Rulings : Rule(o, outcome)
  \/ \E o \in Operations : Learn(o)
  \/ \E forgotten \in SUBSET Operations :
       \/ Turnover(forgotten, {})
       \/ \E o \in Operations : Turnover(forgotten, {o})

Spec == Init /\ [][Next]_vars

=============================================================================
