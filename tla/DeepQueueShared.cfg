SPECIFICATION FairSpec
CONSTANTS
  h1 = h1
  h2 = h2
  h3 = h3
  h4 = h4
  n1 = n1
  n2 = n2
  n3 = n3
  g1 = g1
  g2 = g2
  Host = {h1, h2, h3, h4}
  Net = {n1, n2, n3}
  Gateway = {g1, g2}
  NetOf <- SharedNetOf
  GwOf <- SharedGwOf
  Gentle = FALSE
  Single = FALSE
  Cancellable = TRUE
  NoNet = NoNet
  NoHost = NoHost
CHECK_DEADLOCK FALSE
INVARIANTS
  TypeOK
  HonestHistory
  ProgressAddsUp
PROPERTIES
  ImplementsHostPool
  QueueReturns
