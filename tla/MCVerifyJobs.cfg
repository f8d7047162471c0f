CONSTANTS
  end = end
  sweep = sweep
  pass = pass
  Jobs = {end, sweep}
  Takeovers = {pass}
  TakeoverOf <- OnePass
  Workers = {w1, w2}
  MAX_ATTEMPTS = 1
  MAX_STEP_FAILURES = 2
  ARTIFACT_MAX_TRIES = 1
  IN_FLIGHT_MAX_TRIES = 2
  MAX_IN_FLIGHT = 1
  MaxPolls = 1
  MaxTroubles = 2
  None = None
SPECIFICATION FairSpec
CHECK_DEADLOCK FALSE
INVARIANTS JobsSound MoneyFollows
PROPERTIES CompletedStays JobsEnd
