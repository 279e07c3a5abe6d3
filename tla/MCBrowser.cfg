SPECIFICATION BrowserSpec
CONSTANTS
  Requests = {r1, r2}
  HungReads = {r2}
  MaxConcurrentJobOutputReads = 1
  None = None
  MaxCloseEvents = 2
  t1 = t1
  t2 = t2
  n1 = n1
  n2 = n2
  gone = gone
  Targets = {t1, t2}
  LiveNodes = {n1, n2}
  NodesOf <- MCNodesOf
  Streams = {stdout, stderr}
  Fetches = {f1, f2, f3}
  LogSizes = {1, 5}
  BatchSize = 2
  PollJobs = {j1, j2}
  Polls = {p1, p2}
  Samples <- MCSamples
  HistoryLimit = 3
  Nil = Nil
  Sockets = {s1, s2}
  Sizes = {small, medium, large}
  TooLarge = {large}
  Default = small
  MaxFrames = 2
INVARIANTS LockFollowsDialogs SubmitsWhatIsShown EditorStartsFromPartition
           OnlyScrollMisleads FetchAccounting OnePollLoop ChartsFaithful
           SlotAccounting AuditTruthful OneLiveSocket DeadOnlyByLateClose SizeAgrees
PROPERTIES HandlerReturns SlotsComeBack ImplementsPool ImplementsViewer PollingContinues ConnectingEnds
