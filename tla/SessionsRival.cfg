\* Two first-run pages at once: the later one replaces a password the other confirmed.
SPECIFICATION Spec
CONSTANTS
  p1 = p1  p2 = p2
  a1 = a1
  s1 = s1  s2 = s2
  t1 = t1
  r1 = r1  r2 = r2
  None = None
  Password = {p1, p2}
  Address = {a1}
  Session = {s1, s2}
  ApiToken = {t1}
  Request = {r1, r2}
  maxAttempts = 2
  attemptWindow = 1
  sessionTTL = 1
  MaxTime = 3
SYMMETRY Symmetry
INVARIANT NeverOverwritten
