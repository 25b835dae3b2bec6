SPECIFICATION Spec
CONSTANTS
  Base = 4
  FieldBytes = 1
  EnableChecksum = FALSE
  StreamIds = {0, 3}
  SequenceNumbers = {1}
  Payloads <- MCPayloads
  MaxFrames = 1
  BufferSize = 6
  MayBreak = FALSE
  MaxBufferSize = 40
  MaxIterations = 3
INVARIANT ChangedPayloadFails
CHECK_DEADLOCK FALSE
