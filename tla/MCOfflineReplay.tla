-------------------------- MODULE MCOfflineReplay --------------------------
(***************************************************************************)
(* Instances of OfflineReplay for TLC: the operations a device may have    *)
(* queued, as sets the configurations choose from.                         *)
(***************************************************************************)
EXTENDS OfflineReplay, TLC

Queued(id, sequence, kind, target, expected) ==
  [ id |-> id, sequence |-> sequence, kind |-> kind, target |-> target,
    expected |-> expected ]

CONSTANTS a1, m1, op1, op2, op3

Accept   == Queued(op1, 0, "ACCEPT", a1, "REQUESTED")
Send     == Queued(op1, 0, "SEND", a1, "REQUESTED")
SendLate == Queued(op2, 1, "SEND", a1, "REQUESTED")
Ack      == Queued(op2, 1, "ACKNOWLEDGE", m1, "REQUESTED")
\* A changed request under the position of Accept, and one under its id.
Changed  == Queued(op3, 0, "DECLINE", a1, "REQUESTED")
Reused   == Queued(op1, 1, "ACKNOWLEDGE", m1, "REQUESTED")

Impostors   == {Accept, SendLate, Changed, Reused}
SendThenAck == {Send, Ack}

WorkerSymmetry == Permutations(Workers)

=============================================================================
