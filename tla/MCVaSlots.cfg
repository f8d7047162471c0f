CONSTANTS
  c1 = c1  t1 = t1
  Cases <- OneCase
  Takeovers <- OneTakeover
  CaseOf <- SameCase
  Starts = {s1}
  Requests = {q1, q2}
  Reports = {p1}
  VaMax = 1
  None = None
  Recorded = Recorded
SPECIFICATION FairSpec
CHECK_DEADLOCK FALSE
INVARIANTS SlotsSound Capacity 
PROPERTIES SlotsClose
