\* Three overlapping requests at one ceremony and its two statements; and one
\* message whose notice is put on the wire three times, past two servers.
SPECIFICATION SpecInScene
SYMMETRY Interchangeable
CHECK_DEADLOCK FALSE
CONSTANTS
  c1 = c1
  m1 = m1
  operative = operative
  commander = commander
  s1 = s1
  s2 = s2
  Requests = {r1, r2, r3}
  Contexts = {c1}
  Live = {x1}
  Queued = {q1}
  Under <- UnderOne
  Variants = {original, altered}
  MaxVersion = 2
  NoRequest = NoRequest
  Sends = {s1, s2}
  MessageKeyOf <- OneKey
  NamedIn <- Named
  People = {operative, commander}
  Commanders = {commander}
  AckKeys = {a1, a2}
  Consumers = {v1, v2}
  MaxNotices = 3
  NoMessage = NoMessage
INVARIANTS TakesEffectOnce AllOrNothing StatesAreEvidence
PROPERTY EffectsUnderAuthority
