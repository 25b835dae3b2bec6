SPECIFICATION FairSpec
CONSTANTS
  Calls = {k1, k2}
  None = None
  MaxConns = 2
  MaxReplies = 2
  SndBuf = 2
  Overlap = FALSE
INVARIANTS AnswerIsOwn HandlersOfOpenCalls SetValueOnce WholeFrames NoReplyLost Inv
PROPERTIES ImplementsRpcCalls EveryCallReturns DisconnectReturns
