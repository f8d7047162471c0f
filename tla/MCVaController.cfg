CONSTANTS
  Calls = {x1, x2}
  None = None
SPECIFICATION Spec
CHECK_DEADLOCK FALSE
INVARIANTS ControllerSound 
PROPERTIES ClosesInSilence CeilingReached
