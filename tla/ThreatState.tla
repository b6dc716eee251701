----------------------------- MODULE ThreatState -----------------------------
(***************************************************************************)
(* The threat-state core (fusion/core/threatState.ts): how the signals a   *)
(* hypothesis has accumulated decide its state, and how state and impact   *)
(* decide severity.  Confidences are tenths and trust weights quarters, so *)
(* a weighted confidence is a whole number of fortieths and the noisy-OR   *)
(* products are exact; the code computes them in floating point.           *)
(***************************************************************************)
EXTENDS Integers, Sequences, FiniteSets

Full == 40

TrustQuarters == [ trusted |-> 4, degraded |-> 2, suspicious |-> 1, quarantined |-> 0 ]

Weight(signal) == signal.confidence * TrustQuarters[signal.trust]

OfKind(signals, kind) == { i \in DOMAIN signals : signals[i].kind = kind }

\* Full^n times the product of (1 - w) over the signals of one kind.
Doubt(signals, kind) ==
  LET product[i \in 0 .. Len(signals)] ==
        IF i = 0 THEN 1
        ELSE product[i - 1] * (IF signals[i].kind = kind
                               THEN Full - Weight(signals[i]) ELSE Full)
  IN  product[Len(signals)]

Scale(signals) ==
  LET power[i \in 0 .. Len(signals)] == IF i = 0 THEN 1 ELSE Full * power[i - 1]
  IN  power[Len(signals)]

\* Aggregate support less contradiction strength, as a multiple of 1/Scale.
ThreatProbability(signals) ==
  Doubt(signals, "CONTRADICTING") - Doubt(signals, "SUPPORTING")

\* Twentieths: 0.85, 0.65, 0.40, 0.20.
StateFromProbability(signals) ==
  LET reaches(twentieths) ==
        20 * ThreatProbability(signals) >= twentieths * Scale(signals)
  IN  CASE reaches(17) -> 4 [] reaches(13) -> 3 [] reaches(8) -> 2
        [] reaches(4) -> 1 [] OTHER -> 0

\* Slip: every signal counts as a source.
CountedSignals(signals) ==
  { i \in OfKind(signals, "SUPPORTING") : 2 * Weight(signals[i]) >= Full }

DiverseSources(signals) ==
  { signals[i].source : i \in { j \in OfKind(signals, "SUPPORTING") :
                                  2 * Weight(signals[j]) >= Full } }

\* A single source is capped unless a human in the field vouches for it.
DiversityCeiling(signals) ==
  LET human == { i \in OfKind(signals, "SUPPORTING") : signals[i].human }
  IN  IF Cardinality(DiverseSources(signals)) >= 2 THEN 4
      ELSE IF human = {} THEN 2
      ELSE IF \E i \in human : signals[i].confidence >= 9 THEN 4 ELSE 3

Lesser(m, n)  == IF m <= n THEN m ELSE n
Greater(m, n) == IF m >= n THEN m ELSE n

\* The state after the newest of `signals`, which is never quarantined.
StateAfter(state, signals) ==
  LET newest  == signals[Len(signals)]
      capped  == Lesser(StateFromProbability(signals), DiversityCeiling(signals))
      forced  == newest.kind = "CONTRADICTING" /\ 5 * Weight(newest) >= 3 * Full
      reached == IF forced THEN Lesser(capped, Greater(0, state - 1)) ELSE capped
  IN  IF newest.life /\ (newest.trust = "trusted" \/ newest.human) /\ reached >= 3
      THEN 5
      ELSE reached

\* SEV1 and SEV2, the severities the response playbook is for.
Critical(state, highImpact) ==
  state = 5 \/ state + (IF highImpact THEN 2 ELSE 1) >= 6
=============================================================================
