CONSTANTS
  c1 = c1  t1 = t1  t2 = t2  t3 = t3  k1 = k1  k2 = k2  v1 = v1  e1 = e1  e2 = e2  w1 = w1
  Cases = {c1}
  Takeovers = {t1, t2, t3}
  CaseOf <- OneCall
  MaxPerCase = 2
  Compiles = {k1, k2}
  Reports = {v1}
  Ends = {e1, e2}
  Sweeps = {w1}
  None = None
SPECIFICATION Narrow
CHECK_DEADLOCK FALSE
SYMMETRY Symmetry
INVARIANTS PassesSound OneLivePass
PROPERTIES CompletedStays LedgerSpec
