CONSTANTS
  alice = alice
  bob = bob
  me = me
  k1 = k1
  t1 = t1
  t2 = t2
  NoKey = NoKey
  NoText = NoText
  NoPeer = NoPeer
  Keys = {k1}
  Texts = {t1}
  Peers = {alice, bob, me}
  Senders = {alice}
  Local = me
  Base = 1
  BaseOf <- SameBase
  InitLogs <- EmptyLogs
  MaxEvents <- ThreeEvents
  MaxPackets = 2
  ClosedSegments = FALSE
SPECIFICATION Spec
INVARIANT MasksImported
CHECK_DEADLOCK FALSE
