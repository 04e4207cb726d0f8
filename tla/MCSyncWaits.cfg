SPECIFICATION FairSpec
CONSTANTS
  n1 = n1
  n2 = n2
  p = p
  g = g
  Runtimes = {n1, n2, p, g}
  Stacked = {n1, n2, p}
  Reentrant = {p}
  Scenarios <- Mixed
INVARIANTS NoWaitForItself OnlyCyclesRefused NestedUnderItsWait TableIsCurrent
PROPERTY ThreadsComeFree
CHECK_DEADLOCK FALSE
