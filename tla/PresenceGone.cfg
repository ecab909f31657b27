SPECIFICATION Spec
CONSTANTS
  a1 = a1
  a2 = a2
  n1 = n1
  n2 = n2
  Addr = {a1}
  Net = {n1}
  NetOf <- OneNet
  Hour = 4
  Old = 6
  Sources = {"ipv6", "mdns", "probe", "dhcp", "unifi"}
  Moving = TRUE
PROPERTIES
  GoneIsNoticed
