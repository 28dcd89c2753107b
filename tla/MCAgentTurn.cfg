SPECIFICATION SmallSpec
CONSTANTS
  session = session
  Deltas = 1
  Tools = 2
  Sessions = {session}
  SessionOf <- MCSessionOf
  MaxDeltas <- MCMaxDeltas
  MaxTools <- MCMaxTools
  MaxRun = 2
  MaxFaults = 1
INVARIANTS
  StopSafe
  TextKept
PROPERTIES
  StatusFinal EndsUnlessLost
\* Every run of the instance has been used and has ended.
CHECK_DEADLOCK FALSE
