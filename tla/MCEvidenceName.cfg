CONSTANTS
  alice = alice
  bob = bob
  world = world
  snapA = snapA
  snapB = snapB
  evA = evA
  evB = evB
  evC = evC
  evD = evD
  evE = evE
  pkg1 = pkg1
  pkg2 = pkg2
  None = None
  NoId = NoId
  Anything = Anything
  Wrong = Wrong
  Registry <- Peers
  Subscription <- AdmittedOnly
  LogIds = {NoId}
  Recordings <- UpToThree
  MaxFaults = 0
  Policies <- ThreePolicies
  MaxPayloads = 2
  Requested <- TwoEvents
  RequestFaults = 0
SPECIFICATION RequestSpec
INVARIANT UndamagedResumes
CHECK_DEADLOCK FALSE
