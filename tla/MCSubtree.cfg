CONSTANTS
  root = root
  a = a
  b = b
  Root = root
  NoTask = NoTask
  Node <- Tree
  Parent <- ParentOf
  Failing <- Tree
  Calls <- Meetings
SPECIFICATION FairSpec
INVARIANTS NothingOutlives ShutdownMeansGone ErrorsHeard RootStopsAgree
PROPERTY StopsReturn
CHECK_DEADLOCK FALSE
