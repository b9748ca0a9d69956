CONSTANTS
  Inputs <- AnyByte
  MaxScopes = 4
SPECIFICATION Spec
INVARIANTS TypeOK StackShape
PROPERTIES WedgedForGood QuotedNeverCloses
