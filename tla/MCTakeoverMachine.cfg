CONSTANTS
  Configs <- EveryPage
  MaxPasses = 1
  MaxArms = 1
  MaxStale = 1
  None = None
SPECIFICATION FairSpec
CHECK_DEADLOCK FALSE
INVARIANTS  OutcomeTold SettledBeforeEnd
PROPERTIES PassSteps PassEnds
