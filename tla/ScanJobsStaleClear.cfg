SPECIFICATION Spec
CONSTANTS
  Job = {j1, j2}
  Net = {n1}
  Kick = {}
  Modes = {"quick"}
  Request = {}
  Stoppable = FALSE
  EnablePortScan = FALSE
  NoJob = NoJob
  NoNet = NoNet
CHECK_DEADLOCK FALSE
SYMMETRY Symmetry
INVARIANTS
  IsScanRunningTruthful
