SPECIFICATION FairSpec
CONSTANTS
  Base = 2
  FieldBytes = 2
  EnableChecksum = TRUE
  StreamIds = {3}
  SequenceNumbers = {1}
  Payloads <- MCPayloads
  MaxFrames = 3
  BufferSize = 30
  MayBreak = TRUE
  MaxBufferSize = 40
  MaxIterations = 3
INVARIANTS ParsedExactly ChangedPayloadFails WholeDataHandledOnce
PROPERTIES ImplementsFrameChannel EveryFrameArrives
CHECK_DEADLOCK FALSE
