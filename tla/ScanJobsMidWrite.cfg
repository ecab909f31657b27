SPECIFICATION Spec
CONSTANTS
  Job = {j1}
  Net = {n1}
  Kick = {}
  Modes = {}
  Request = {q1}
  Stoppable = TRUE
  EnablePortScan = TRUE
  NoJob = NoJob
  NoNet = NoNet
CHECK_DEADLOCK FALSE
INVARIANTS
  NoScanOutlivesTheWait
