SPECIFICATION Spec
CONSTANTS
  Rnti = {r1, r2}
  Conf = {c1}
  Agent = {a1}
  Budget = 1
  Overload = TRUE
  MaxQueue = 2
  MaxChanges = 1
  MaxReports = 1
SYMMETRY Symmetry
INVARIANTS ReportsOfKnownUEs
