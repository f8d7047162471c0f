CONSTANTS
  v1 = v1
  Null = Null
  Requesters <- AllRequesters
  Visitors = {v1}
  IpOf <- OneNetwork
  Opens = 2
  MaxTickets = 2
  MaxPauses = 1
  MaxTroubles = 1
SPECIFICATION Narrow
CHECK_DEADLOCK FALSE
INVARIANTS  WaitsForSomething 
