\* Two runs of a proxy on one ledger, at once or one after the other, cut anywhere inside a line.
CONSTANTS
  None = None
  s = s  x = x  z = z
  Procs = {p1, p2}
  DeclaredRefs <- Nested
  Depths = {32}
  Outcomes <- Endings
  Rate = 1
  Scale = 2
  Faults = {"short_write", "disk_full", "killed"}
  MaxAppends = 2
SPECIFICATION Spec
SYMMETRY ProcSymmetry
INVARIANTS ReadIsComplete StampIsExact RowsAddUp
