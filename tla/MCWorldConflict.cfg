CONSTANTS
  p1 = p1
  p2 = p2
  Peers <- TwoPeers
  Paths = {"trailer"}
  Bodies = {"note"}
  Kinds = {"annotation", "question"}
  MaxWorlds = 4
  MaxEdges = 3
  MaxPackages = 1
SPECIFICATION Spec
INVARIANT ConflictsAreWitnessed
CHECK_DEADLOCK FALSE
SYMMETRY Symmetry
