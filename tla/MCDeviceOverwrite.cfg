SPECIFICATION Spec
CONSTANTS
  Entities = {theirs}
  Own = {}
  Sessions = {}
  Bulky = {}
  BulkLimit = 1
  Races = FALSE
  PushLimit = 2
  MaxBatches = 1
  MaxEdits = 2
  MaxCommits = 2
  MaxFaults = 0
INVARIANTS
  AcceptedEditsKept
