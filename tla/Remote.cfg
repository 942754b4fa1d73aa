SPECIFICATION RemoteSpec
CONSTANTS
  Key = {k1}
  Value = {v1}
  CCValue = {v1, v2}
  None = None
  Name = remote
  Puller = {ticker, refresher}
  Ticker = {ticker}
  Refresher = {refresher}
  Mode = {"watch", "interval"}
  NotFound <- NoKeys
  NoConfig = NoConfig
  MaxRevision = 2
  MaxFailures = 1
  Group = {g1, g2}
  Malformed = Malformed
  Nobody = Nobody
  MaxChanges = 2
  MaxMalformed = 1
  Namespace = {n1, n2}
  Field = {f1, f2}
  NoNamespace = NoNamespace
  MaxPolls = 2
INVARIANT RemoteTypeOK
INVARIANT CopyFollows
INVARIANT EventsFit
INVARIANT RevisionCovers
INVARIANT CachedIsUsed
INVARIANT ToldUnlessHeard
INVARIANT ToldIsAnswered
PROPERTY ImplementsReplay
PROPERTY CatchesUp
PROPERTY IntervalReplays
CHECK_DEADLOCK FALSE
