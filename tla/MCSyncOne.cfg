CONSTANTS
  alice = alice
  bob = bob
  me = me
  k1 = k1
  t1 = t1
  t2 = t2
  NoKey = NoKey
  NoText = NoText
  NoPeer = NoPeer
  Keys = {k1}
  Texts = {t1, t2}
  Peers = {alice, bob, me}
  Senders = {alice}
  Local = me
  Base = 1
  BaseOf <- SameBase
  InitLogs <- EmptyOrMerged
  MaxEvents <- FourEvents
  MaxPackets = 2
  ClosedSegments = TRUE
SPECIFICATION Spec
INVARIANTS TypeOK DeliveredInOrder ImportedFromSeen ReplayEquivalent RequestsNameTheGap
PROPERTIES AppendOnly ImplementsDelivery
CHECK_DEADLOCK FALSE
