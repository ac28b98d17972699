\* One branch, one request at a time, and an answer over the ceiling.
CONSTANTS
  None = None
  r1 = r1  r2 = r2  r3 = r3  r4 = r4  s = s  x = x  y = y  z = z
  Reqs = {r1, r2, r3}
  Refs <- MainOnly
  Usages = {3}
  Rate = 1
  Scale = 1
  Ceiling = 2
  Share = None
  Scheme <- Http
  Upgrades = FALSE
  Faults = {}
  MaxRestarts = 0
  OrderlyClients = TRUE
SPECIFICATION Spec
INVARIANT OvershootPerBranch
