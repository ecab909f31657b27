SPECIFICATION Spec
CONSTANTS
  wired = wired
  wireless = wireless
  NoMac = NoMac
  Mac = {wired, wireless}
  Ip = {ip1}
  ip1 = ip1
  Switch = {"switch"}
  Interface = {"gi1"}
  OpenWrt = {"wrt"}
  Port <- Ports
  Station = {wireless}
  Flow <- Flows
  Networks <- Nets
  Home <- Homes
  MaxEvents = 2
  MaxClaim = 1
INVARIANTS
  RatesNeverOverstate
  RatesAddUp
