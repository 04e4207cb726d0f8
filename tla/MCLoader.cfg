SPECIFICATION FairSpec
CONSTANTS
  grp = grp
  kid = kid
  sib = sib
  c1 = c1
  c2 = c2
  root = root
  Root = root
  Tree <- Rows3
  Parent <- In
  Groups = {grp}
  Configs = {0, 1}
  Injects = {0, 1}
  Callers = {c1, c2}
  Monitors = monitors
  Boot <- AllOn
  Scenarios <- Mixed
INVARIANTS
  SavesItsEdits
  AnswersAreTrue
  NoFiberForgotten
  RowsInTheirGroup
  RunsWhatTheLayerSays
  OnlyItselfDisables
PROPERTIES
  OperationsReturn
CHECK_DEADLOCK FALSE
