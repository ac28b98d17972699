\* A shutdown with a request in flight.
CONSTANTS
  None = None
  r1 = r1  r2 = r2  r3 = r3  r4 = r4  s = s  x = x  y = y  z = z
  Reqs = {r1, r2, r3}
  Refs <- MainAndX
  Usages = {0, 3}
  Rate = 1
  Scale = 2
  Ceiling = 2
  Share = None
  Scheme <- Http
  Upgrades = FALSE
  Faults = {}
  MaxRestarts = 1
  OrderlyClients = TRUE
SPECIFICATION Spec
PROPERTY ShutdownDrains
