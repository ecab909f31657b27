\* A router the environment turns off; refuted (config.go:935).
SPECIFICATION Spec
CONSTANTS
  v1 = v1  n1 = n1  h1 = h1  h2 = h2  s1 = s1  w1 = w1  w2 = w2
  Value = {v1}
  Interval <- Intervals
  Net = {n1}
  Host = {h1, h2}
  Router = {"openwrt", "opnsense"}
  Scanner = {s1, "opnsense"}
  Switch = {w1, w2}
  MaxLines = 3
  MaxEnv = 1
INVARIANT EnvironmentTakesPrecedence
CHECK_DEADLOCK FALSE
