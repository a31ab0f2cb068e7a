CONSTANTS
  Caller = {c1, c2}
  f = f
  g = g
  v = v
  w = w
  Conf <- MCConf
  ExecLists <- MCLists
  Value <- MCValue
  servers = 2
  MaxCalls = 2
  None = None
SPECIFICATION FairSpec
INVARIANT TypeOK
INVARIANT AnswersLineUp
INVARIANT CacheFaithful
INVARIANT HitStaysCached
INVARIANT BusyIsOwed
INVARIANT LockedByWaiter
PROPERTY ExecReturns
PROPERTY ImplementsExec
\* All calls are made, or a call waits for a server that is down.
CHECK_DEADLOCK FALSE
