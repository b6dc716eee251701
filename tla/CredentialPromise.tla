------------------------- MODULE CredentialPromise -------------------------
(***************************************************************************)
(* What SHIELD's registry promises everyone who asks about a device's      *)
(* credential: it is admitted once, by a commit; it is replaced by its     *)
(* direct successor and only while it is admitted; and once withdrawn it   *)
(* stays withdrawn, whoever was deciding what at the same time.            *)
(***************************************************************************)
EXTENDS Integers

CONSTANT MaxVersion  \* key versions are followed up to here

VARIABLES
  standing,  \* "ABSENT", "ADMITTED" or "WITHDRAWN"
  version    \* the key version the device holds, 0 when absent

Init == standing = "ABSENT" /\ version = 0

Admit == standing = "ABSENT" /\ standing' = "ADMITTED" /\ version' = 1

Succeed ==
  /\ standing = "ADMITTED" /\ version < MaxVersion
  /\ version' = version + 1
  /\ UNCHANGED standing

Withdraw == standing = "ADMITTED" /\ standing' = "WITHDRAWN" /\ UNCHANGED version

Spec == Init /\ [][Admit \/ Succeed \/ Withdraw]_<<standing, version>>

=============================================================================
