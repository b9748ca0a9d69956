CONSTANTS
  Keys <- TwoKeys
  Texts = {1, 2}
  Peers = {1, 2}
  NoKey = NoKey
  NoText = 0
  NoPeer = 0
  Left = 2
  Right = 1
  Bounds <- TwoBounds
SPECIFICATION Spec
INVARIANTS  ConflictLaw NothingLost RemergeAbsorbs LastMaskWins
CHECK_DEADLOCK FALSE
