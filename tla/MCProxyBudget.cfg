\* Two subagents and one nested in the first, under vouchers and one ceiling, any number of requests at once.
CONSTANTS
  None = None
  r1 = r1  r2 = r2  r3 = r3  r4 = r4  s = s  x = x  y = y  z = z
  Reqs = {r1, r2, r3, r4}
  Refs <- Subagents
  Usages = {0, 5}
  Rate = 1
  Scale = 2
  Ceiling = 4
  Share <- ThreeQuarters
  Scheme <- Http
  Upgrades = FALSE
  Faults = {"client_gone", "ledger_write"}
  MaxRestarts = 0
  OrderlyClients = TRUE
SPECIFICATION Spec
SYMMETRY ReqSymmetry
INVARIANTS TypeOK CeilingBound OneSyntheticStop NoFalseDenial VoucherConservation OneLastPerSeal TreeIsConnected
