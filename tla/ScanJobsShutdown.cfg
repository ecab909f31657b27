SPECIFICATION Spec
CONSTANTS
  Job = {j1, j2}
  Net = {n1}
  Kick = {}
  Modes = {}
  Request = {q1}
  Stoppable = TRUE
  EnablePortScan = TRUE
  NoJob = NoJob
  NoNet = NoNet
CHECK_DEADLOCK FALSE
SYMMETRY Symmetry
INVARIANTS
  CleanExit
  NightlyOnce
  ProbeFollowsSweep
