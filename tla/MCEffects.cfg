SPECIFICATION FairSpec
CONSTANTS
  r1 = r1
  r2 = r2
  d1 = d1
  d2 = d2
  Records = {r1, r2}
  Disposers = {d1, d2}
  Of <- Disposed
  Unload = Unload
  NoRecord = NoRecord
  MaxGen = 2
INVARIANTS CleanedExactlyOnce EachErrorReportedOnce NoStragglers
PROPERTIES LastRegisteredFirst DrainReturns
