SPECIFICATION Spec
CONSTANTS
  c1 = c1
  c2 = c2
  c3 = c3
  q1 = q1
  q2 = q2
  NoTask = NoTask
  NoDeps = NoDeps
  Callers = {c1, c2, c3}
  Quads = {q1, q2}
  Boot <- Bound
  Work <- Changes
  Orphaned <- Orphans
  Returning <- NoWork
INVARIANTS OneGeneration NoConsumerMissed Settled
PROPERTIES Lifecycle
