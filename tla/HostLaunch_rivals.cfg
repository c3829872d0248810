CONSTANTS
  d1 = d1
  d2 = d2
  h1 = h1
  h2 = h2
  h3 = h3
  Daemons = {d1, d2}
  Hosts = {h1, h2, h3}
  None = None
  Rivals = TRUE
  MaxKills = 1
SPECIFICATION Spec
INVARIANT OneProvider
CHECK_DEADLOCK FALSE
