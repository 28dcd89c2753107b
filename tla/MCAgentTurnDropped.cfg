SPECIFICATION FairSpec
CONSTANTS
  session = session
  Deltas = 1
  Tools = 1
  Sessions = {session}
  SessionOf <- MCSessionOf
  MaxDeltas <- MCMaxDeltas
  MaxTools <- MCMaxTools
  MaxRun = 1
  MaxFaults = 0
PROPERTIES
  StoppedRunEnds
\* Every run of the instance has been used and has ended.
CHECK_DEADLOCK FALSE
