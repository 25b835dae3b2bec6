SPECIFICATION FairSpec
CONSTANTS
  Feeders = {f1, f2}
  Streams = {s1}
  MaxFrames = 2
  MaxProcessors = 2
  None = None
INVARIANTS TypeOK OneWorkerPerStream HeldIsActive FramesInOrder FramesAccounted
PROPERTIES FramesHandled StopEnds
CHECK_DEADLOCK FALSE
