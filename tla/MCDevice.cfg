SPECIFICATION DeviceSpec
CONSTANTS
  Entities = {theirs, ours}
  Own = {ours}
  Sessions = {ours}
  Bulky = {1, 2}
  BulkLimit = 1
  Races = TRUE
  PushLimit = 2
  MaxBatches = 2
  MaxEdits = 3
  MaxCommits = 2
  MaxFaults = 1
  MaxRacing = 4
  Parts = {"racing", "single"}
INVARIANTS
  BooksSafe
  AcceptedStay
  Agreed
PROPERTIES
  StateNeverRegresses
  OnlyDecidedDrops
  SettledInTheEnd
