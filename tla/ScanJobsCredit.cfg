SPECIFICATION Spec
CONSTANTS
  Job = {j1}
  Net = {n1}
  Kick = {}
  Modes = {}
  Request = {q1}
  Stoppable = FALSE
  EnablePortScan = TRUE
  NoJob = NoJob
  NoNet = NoNet
CHECK_DEADLOCK FALSE
INVARIANTS
  ProbesOnlyItsOwn
