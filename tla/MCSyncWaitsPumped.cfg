SPECIFICATION Spec
CONSTANTS
  n1 = n1
  n2 = n2
  p = p
  g = g
  Runtimes = {n1, n2, p, g}
  Stacked = {n1, n2, p}
  Reentrant = {p}
  Scenarios <- Pumped
INVARIANT NoWaitForItself
CHECK_DEADLOCK FALSE
