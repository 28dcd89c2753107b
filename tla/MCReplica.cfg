SPECIFICATION ReplicaSpec
CONSTANTS
  agent = agent  session = session  message = message
  NoEntity = NoEntity
  Entities <- MCEntities
  Parent <- MCParent
  Rank <- MCRank
  Editable = {session, message}
  PageLimit = 2
  MaxPages = 2
  MaxLog = 5
  MaxFaults = 2
  Parts = {"replica", "objects", "payloads", "clock", "merge", "rows"}
  d1 = d1
  d2 = d2
  Devices = {d1, d2}
  Scenarios <- MCScenarios
  OBJECT_PAGE_LIMIT = 1
  MaxVersion = 2
  MaxBuilds = 2
  MaxSessions = 1
  Texts <- MCTexts
  QuoteBytes = 9
  NoteBytes = 4
  TitleChars = 3
  ContextLimit = 3
  Instants = {0, 1, 2, 3, 4, 5}
  Tick = 2
  MaxWrites = 2
  Nodes = {1, 2}
  MaxWall = 1
  MaxCounter = 2
  MaxChanges = 3
  Values = {0, 1, 2}
  Inputs <- MCInputs
  Cases <- MCCases
  MaxRowChanges = 4
INVARIANTS ReplicaSafe AckCovered ObjectsSafe RowsCarried ChangesSafe
PROPERTIES NeverBackwards ReplicaCatchesUp ObjectsForward
CHECK_DEADLOCK FALSE
