SPECIFICATION FairSpec
CONSTANTS
  Procs = {p1, p2}
  NoProc = NoProc
  Kinds = {"ioctl", "forever", "query"}
  MaxCalls = 3
  Environments <- GoodAndBad
INVARIANTS AnswerIsMine ArgsTogether DeferredIsSent
PROPERTIES CallReturns
