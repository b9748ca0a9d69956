CONSTANTS
  None = None
  NoPath = NoPath
  Bad = Bad
  NoKey = NoKey
  NoText = NoText
  NoPeer = NoPeer
  Torn = Torn
  Zero = Zero
  Documents = {"one", "two", "bad"}
  Malformed = {"bad"}
  Dropped = {"t", "u"}
  FrameCount = 3
  MaxLog = 2
  Styles = {"raw"}
  MaxRegions = 3
  Paths = {"p", "q"}
  TellModes = {"barcode-template-scene", "unknown"}
  MaxStreams = 2
  BlockSize = 2
  MaxChunks = 3
  MaxBytes = 5
  MaxEdits = 1
  MaxWrites = 2
  Packages = {"p", "q"}
  Texts = {"approved", "rejected", "unsigned"}
  MaxRecords = 3
  Templates = {"cube", "broken"}
  Unreadable = {"broken"}
  MaxTemplates = 2
  MaxRelations = 1
  MaxBundles = 2
SPECIFICATION Spec
INVARIANT IdentityIsNotView
CHECK_DEADLOCK FALSE
