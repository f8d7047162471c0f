CONSTANTS
  Users = {u1, u2, u3}
  Founder = u1
  Requests = {r1, r2}
  Seats = 3
  None = None
SPECIFICATION Spec
INVARIANT OrgHasOwner
CHECK_DEADLOCK FALSE
