CONSTANTS
  Calls = {c1, c2}
  None = None
SPECIFICATION FairSpec
CHECK_DEADLOCK FALSE
INVARIANTS  ToldHolds
PROPERTIES OneWay PaidIsTold
