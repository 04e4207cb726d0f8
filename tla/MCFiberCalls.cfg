SPECIFICATION FairSpec
CONSTANTS
  c1 = c1
  c2 = c2
  c3 = c3
  q1 = q1
  q2 = q2
  NoTask = NoTask
  NoDeps = NoDeps
  Callers = {c1, c2, c3}
  Quads = {q1, q2}
  Boot <- Bound
  Work <- StopsAndWaits
  Orphaned <- NoWork
  Returning <- Waits
INVARIANTS NoJoinForgotten StopReachesToken
PROPERTIES StoppedLoadNeverFails NoStartAfterStop OneResult StopReturns CallsReturn
