SPECIFICATION FairSpec
CONSTANTS
  host = host
  far = far
  Side = {host, far}
  MaxCalls = 2
  Exporter = {host}
  Closer = {host}
  Capacity = 1
  Size <- Sizes
  Limit <- Limits
INVARIANTS NothingRefused GrantsCounted ClosedKeepsNoCall
PROPERTIES IsRemoteCall NobodyHangs
CHECK_DEADLOCK FALSE
