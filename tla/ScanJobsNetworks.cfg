SPECIFICATION FairSpec
CONSTANTS
  Job = {j1}
  Net = {n1, n2}
  Kick = {k1}
  Modes = {"quick", "deep", "both"}
  Request = {}
  Stoppable = TRUE
  EnablePortScan = TRUE
  NoJob = NoJob
  NoNet = NoNet
CHECK_DEADLOCK FALSE
INVARIANTS
  HonestOutcome
PROPERTIES
  EveryJobEnds
  ShutdownEnds
