SPECIFICATION Spec
CONSTANTS
  None = None
  Says <- Spoken
  NameFields = {"name"}
  RepOnlyFields = {"premium"}
  MaxFacts <- Facts3And4
  NumTurns = 3
  Channel <- Alternate
  BatchOver = 1
  MaxNew = 2
  MaxTries = 2
  MaxRuns = 1
  MaxTrouble = 2
CHECK_DEADLOCK FALSE
PROPERTIES TurnsEnd
INVARIANTS CaseSound SnapshotWhole VerifiedAgreed LateNotTrusted VerifierOnlyDowngrades
