CONSTANTS
  BlockSize = 4
  MaxBlocks = 6
  ByteBase = 4
  ProtoShift = 12
  Field <- Fields
  Session = {0, 27, 255}
  Uri = {1, 3}
  MaxFields = 3
CHECK_DEADLOCK FALSE
SPECIFICATION Spec
INVARIANTS ReadsWhatWasWritten CompleteOrThrown SessionAgreed
