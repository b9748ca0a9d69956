CONSTANTS
  alice = alice
  bob = bob
  me = me
  k1 = k1
  t1 = t1
  t2 = t2
  NoKey = NoKey
  NoText = NoText
  NoPeer = NoPeer
  Keys = {k1}
  Texts = {t1}
  Peers = {alice, bob, me}
  Senders = {alice, bob}
  Local = me
  Base = 1
  BaseOf <- BobElsewhere
  InitLogs <- EmptyLogs
  MaxEvents <- BobNone
  MaxPackets = 2
  ClosedSegments = TRUE
SPECIFICATION FairSpec
PROPERTIES EventuallyApplied
CHECK_DEADLOCK FALSE
