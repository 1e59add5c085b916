SPECIFICATION FairSpec
CONSTANTS
  Rnti = {r1, r2}
  Conf = {c1, c2}
  Agent = {a1}
  Budget = 3
  Overload = FALSE
  MaxQueue = 0
  MaxChanges = 3
  MaxReports = 1
INVARIANTS MacInfoMatchesConfig 
PROPERTIES EventuallyReporting
