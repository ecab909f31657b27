SPECIFICATION FairSpec
CONSTANTS
  w1 = w1
  w2 = w2
  w3 = w3
  a1 = a1
  a2 = a2
  c1 = c1
  c2 = c2
  c3 = c3
  c4 = c4
  c5 = c5
  Worker = {w1, w2}
  Gateway = {"edge", "core"}
  Names <- Order
  Networks <- Served
  Network = {"lan", "wide"}
  Hosts <- Inside
  Addr = {a1}
  AddrOf <- OnePort
  File = {"key"}
  OwnFile <- Keys
  SharedFile = "key"
  OwnKey <- InMemory
  SharedKey = "none"
  Passwords = {}
  SharedPassword = FALSE
  SessionLimit = 1
  MaxWrites = 1
  Conn = {c1, c2, c3}
  NoFile = NoFile
  NoConn = NoConn
  NoAddr = NoAddr
  NoGateway = NoGateway
  Nobody = Nobody
INVARIANTS
  OneConnectionPerGateway
PROPERTIES
  RotatedKeyIsDropped
  HealthyGatewaysServe
  EveryScanReturns
