SPECIFICATION Spec
CONSTANTS
  a1 = a1
  a2 = a2
  n1 = n1
  n2 = n2
  Addr = {a1}
  Net = {n1}
  NetOf <- OneNet
  Hour = 5
  Old = 6
  Sources = {}
  Moving = FALSE
PROPERTIES
  LeavesOnlyIfLookedFor
