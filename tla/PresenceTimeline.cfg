SPECIFICATION Spec
CONSTANTS
  a1 = a1
  a2 = a2
  n1 = n1
  n2 = n2
  Addr = {a1, a2}
  Net = {n1, n2}
  NetOf <- TwoNets
  Hour = 3
  Old = 3
  Sources = {"ipv6", "mdns", "arp", "unifi"}
  Moving = FALSE
INVARIANTS
  TypeOK
  MetIsOnline
PROPERTIES
  LeavesWithEvidence
  ImplementsAttendance
