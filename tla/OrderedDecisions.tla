-------------------------- MODULE OrderedDecisions --------------------------
(***************************************************************************)
(* What the offline replay executor promises a device, with no receipts,   *)
(* claims, leases or workers: a queue whose positions are decided one      *)
(* after another, each once and for good, and a device that is told        *)
(* nothing but what was decided about the very operation it sent.          *)
(* (THE INVARIANT of field-offline.service.ts: a reconnect may delay an    *)
(* operation; it never duplicates it, reorders it, or lets a changed       *)
(* request hide behind an old identity.)                                   *)
(***************************************************************************)
EXTENDS Integers

CONSTANTS
  Positions,   \* the queue positions, 0 .. some maximum
  Operations,  \* what may be queued: records naming the position they ask
               \* for in the field sequence
  Undecided    \* not a decision

Outcomes == {"APPLIED", "REJECTED"}

Decisions == [request : Operations, outcome : Outcomes]

VARIABLES
  decided,  \* [Positions -> Decisions \cup {Undecided}]
  next,     \* the position decided next
  told      \* the decisions reported to the device

vars == <<decided, next, told>>

Init ==
  /\ decided = [p \in Positions |-> Undecided]
  /\ next = 0
  /\ told = {}

\* The next position is decided, and the device may hear of it at once.
Decide(q, outcome) ==
  /\ q.sequence = next
  /\ next \in Positions
  /\ decided' = [decided EXCEPT ![next] = [request |-> q, outcome |-> outcome]]
  /\ next' = next + 1
  /\ told' \in {told, told \cup {[request |-> q, outcome |-> outcome]}}

\* The device hears, again or for the first time, of a decision already made.
Tell(p) ==
  /\ decided[p] # Undecided
  /\ told' = told \cup {decided[p]}
  /\ UNCHANGED <<decided, next>>

Next ==
  \/ \E q \in Operations, outcome \in Outcomes : Decide(q, outcome)
  \/ \E p \in Positions : Tell(p)

Spec == Init /\ [][Next]_vars

=============================================================================
