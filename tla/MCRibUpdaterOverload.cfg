SPECIFICATION Spec
CONSTANTS
  Rnti = {r1}
  Conf = {c1}
  Agent = {a1, a2}
  Budget = 1
  Overload = TRUE
  MaxQueue = 2
  MaxChanges = 1
  MaxReports = 0
INVARIANT Stages
