CONSTANTS
  alice = alice
  bob = bob
  world = world
  snapA = snapA
  snapB = snapB
  evA = evA
  evB = evB
  evC = evC
  evD = evD
  evE = evE
  pkg1 = pkg1
  pkg2 = pkg2
  None = None
  NoId = NoId
  Anything = Anything
  Wrong = Wrong
  Registry <- Peers
  Subscription <- AdmittedOnly
  LogIds = {"log"}
  Recordings <- UpToThree
  MaxFaults = 2
  Policies <- ThreePolicies
  MaxPayloads = 2
  Requested <- TwoEvents
  RequestFaults = 1
SPECIFICATION RequestSpec
INVARIANTS TypeOK ResumeMatchesReplay UndamagedResumes RepairAdmitsNothingNew WholeIsRecorded RightPayloadsRepair AnswerableIsRequested ScheduledRepairRestores
CHECK_DEADLOCK FALSE
