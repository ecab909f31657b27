SPECIFICATION Spec
CONSTANTS
  Job = {j1, j2, j3}
  Net = {n1}
  Kick = {}
  Modes = {"quick"}
  Request = {}
  Stoppable = FALSE
  EnablePortScan = TRUE
  NoJob = NoJob
  NoNet = NoNet
CHECK_DEADLOCK FALSE
SYMMETRY Symmetry
INVARIANTS
  OneScanAtATime
