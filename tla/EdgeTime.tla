------------------------------- MODULE EdgeTime -------------------------------
(***************************************************************************)
(* The trusted time of one Edge: anchors central signs                     *)
(* (edge-trusted-time-anchor.signer.ts), their admission, storage and use  *)
(* on the Edge (edge-runtime trusted-time), and central's own derivation   *)
(* (central-edge-trusted-time.verifier.ts).                                *)
(*                                                                         *)
(* The Edge reads a counter that starts at zero with each boot and runs as *)
(* fast as central's clock; it has no other clock.  Requests for anchors   *)
(* and their answers may take any time and overtake each other.  The code  *)
(* has no caller yet for admit, save and load: the ones here do what the   *)
(* store's comments ask, and are external.                                 *)
(***************************************************************************)
EXTENDS Integers, FiniteSets

CONSTANTS
  Lifetime,       \* of an anchor
  Leases,         \* the policy leases receipts are asked for, [from, until]
  NoAnchor,
  Signers,        \* keys central may sign with
  EdgeEntries, CentralEntries,    \* the configured verification keys, [key, role]
  MaxClock, MaxBoots, MaxReceipts,               \* bounds of the model
  MaxAnchors                                     \* bound of claims, and of anchors

ASSUME LifetimeAssumption == Lifetime \in Nat \ {0}

VARIABLES
  signer,         \* the key material central's process has, if it can sign at all
  clock,          \* central's clock, the time there is
  boot,           \* the Edge's boot identity
  bootedAt,       \* when its counter was zero
  asked,          \* the claims the Edge has sent for anchors
  anchors,        \* the statements central signed
  held, stored,   \* the anchor in memory and the one in the file
  receipts        \* the receipts the Edge signed

timeVars == <<signer, clock, boot, bootedAt, asked, anchors, held, stored, receipts>>

---------------------------------------------------------------------------

NoSigner == "NO_SIGNER"

Anchor == [signer : Signers, boot : Nat, mono : Nat, issued : Nat, until : Nat]

NoTime == -1

\* `at` is when the receipt was really made; nobody reads it.
Receipt == [anchor : Anchor \cup {NoAnchor}, boot : Nat, mono : Nat,
            time : Nat \cup {NoTime}, lease : Leases, at : Nat]

TimeTypeOK ==
  /\ signer \in Signers \cup {NoSigner}
  /\ clock \in Nat /\ boot \in Nat /\ bootedAt \in 0..clock
  /\ \A q \in asked : q.boot \in Nat /\ q.mono \in Nat
  /\ anchors \subseteq Anchor
  /\ held \in anchors \cup {NoAnchor} /\ stored \in anchors \cup {NoAnchor}
  /\ receipts \subseteq Receipt

TimeInit ==
  /\ signer \in Signers \cup {NoSigner}
  /\ clock = 0 /\ boot = 0 /\ bootedAt = 0
  /\ asked = {} /\ anchors = {} /\ held = NoAnchor /\ stored = NoAnchor /\ receipts = {}

Mono == clock - bootedAt

ClockTicks ==
  /\ clock < MaxClock /\ clock' = clock + 1
  /\ UNCHANGED <<signer, boot, bootedAt, asked, anchors, held, stored, receipts>>

---------------------------------------------------------------------------
\* Central: the anchor of a claim is issued at the time of the request there.

AskAnchor ==
  /\ Cardinality(asked) < MaxAnchors
  /\ asked' = asked \cup {[boot |-> boot, mono |-> Mono]}
  /\ UNCHANGED <<signer, clock, boot, bootedAt, anchors, held, stored, receipts>>

\* The key is read when the process first signs, and a process that could not
\* read it never can.
RestartCentral ==
  /\ signer' \in Signers \cup {NoSigner}
  /\ UNCHANGED <<clock, boot, bootedAt, asked, anchors, held, stored, receipts>>

IssueAnchor(claim) ==
  /\ signer # NoSigner
  /\ Cardinality(anchors) < MaxAnchors
  /\ anchors' = anchors \cup {[signer |-> signer, boot |-> claim.boot, mono |-> claim.mono,
                               issued |-> clock, until |-> clock + Lifetime]}
  /\ UNCHANGED <<signer, clock, boot, bootedAt, asked, held, stored, receipts>>

---------------------------------------------------------------------------
\* The Edge.

\* A keyring with no ACTIVE key, with several, or naming a key twice is no
\* keyring; the previous keys of a good one count as much as the active one.
Keyring(entries) ==
  IF /\ Cardinality({e \in entries : e.role = "ACTIVE"}) = 1
     /\ \A e, f \in entries : e.key = f.key => e = f
  THEN {e.key : e \in entries} ELSE {}

Derived(a, mono) == a.issued + (mono - a.mono)

SameBoot(a) == a.boot = boot

\* EdgeTrustedTimeAnchor.classify.
Valid(a) == SameBoot(a) /\ Mono >= a.mono /\ Derived(a, Mono) < a.until

\* A save that fails is logged and the anchor is held all the same.
AdmitAnchor(a) ==
  /\ a.signer \in Keyring(EdgeEntries) /\ Valid(a) /\ held' = a
  /\ stored' \in {stored, a}
  /\ UNCHANGED <<signer, clock, boot, bootedAt, asked, anchors, receipts>>

Clear ==
  /\ stored' = NoAnchor
  /\ UNCHANGED <<signer, clock, boot, bootedAt, asked, anchors, held, receipts>>

\* The process starts again within the boot, or the machine does.
Restart ==
  /\ held' = NoAnchor
  /\ UNCHANGED <<signer, clock, boot, bootedAt, asked, anchors, stored, receipts>>

Reboot ==
  /\ boot < MaxBoots /\ boot' = boot + 1 /\ bootedAt' = clock /\ held' = NoAnchor
  /\ UNCHANGED <<signer, clock, asked, anchors, stored, receipts>>

\* What the file holds goes through the whole admission again.
Load ==
  /\ held = NoAnchor /\ stored # NoAnchor
  /\ stored.signer \in Keyring(EdgeEntries) /\ Valid(stored) /\ held' = stored
  /\ UNCHANGED <<signer, clock, boot, bootedAt, asked, anchors, stored, receipts>>

\* Slip: the last instant of a lease is still inside it.
InForceThrough(lease, time) == lease.from <= time /\ time <= lease.until

\* classifyDevicePolicyLease.
InForce(lease, time) == lease.from <= time /\ time < lease.until

\* evaluateOperationWitness.
Witnessable(lease) == held # NoAnchor /\ Valid(held) /\ InForce(lease, Derived(held, Mono))

\* The receipt says the derived time, or none where the Edge cannot tell it.
WitnessOperation(lease) ==
  /\ Cardinality(receipts) < MaxReceipts
  /\ receipts' = receipts \cup
       {[anchor |-> IF Witnessable(lease) THEN held ELSE NoAnchor, boot |-> boot, mono |-> Mono,
         time |-> IF Witnessable(lease) THEN Derived(held, Mono) ELSE NoTime,
         lease |-> lease, at |-> clock]}
  /\ UNCHANGED <<signer, clock, boot, bootedAt, asked, anchors, held, stored>>

---------------------------------------------------------------------------
\* Central again: it derives the time for itself and trusts only its own.

Verified(rc) ==
  /\ rc.anchor # NoAnchor /\ rc.anchor.signer \in Keyring(CentralEntries)
  /\ rc.boot = rc.anchor.boot /\ rc.mono >= rc.anchor.mono
  /\ Derived(rc.anchor, rc.mono) <= rc.anchor.until
  /\ rc.time = Derived(rc.anchor, rc.mono)

TimeNext ==
  \/ ClockTicks \/ AskAnchor \/ Clear \/ Restart \/ Reboot \/ RestartCentral \/ Load
  \/ \E claim \in asked : IssueAnchor(claim)
  \/ \E a \in anchors : AdmitAnchor(a)
  \/ \E lease \in Leases : WitnessOperation(lease)

=============================================================================
