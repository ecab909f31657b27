SPECIFICATION Spec
CONSTANTS
  IP <- Addresses
  V6 <- SixOnly
  Net <- Networks
  Mac <- Spellings
  Lower <- LowerCase
  Random = {"AA", "aa"}
  Value = {"x"}
  Field = {"label"}
  Probed = {"one"}
  MaxSweep = 2
  MaxSet = 1
  MaxEdits = 1
CHECK_DEADLOCK FALSE
PROPERTY CustomizationsFollowHardware
