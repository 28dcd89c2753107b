SPECIFICATION FairSpec
CONSTANTS
  d1 = d1  d2 = d2
  e1 = e1  e2 = e2
  x1 = x1  x2 = x2  x3 = x3  y1 = y1
  c1 = c1  c2 = c2
  s1 = s1  s2 = s2
  Devices = {d1, d2}
  Entities = {e1, e2}
  ChangeIds = {x1, x2, x3, y1}
  Contents = {c1, c2}
  Changes <- MCChanges
  Slots = {s1, s2}
  NoSlot = NoSlot
  NoId = NoId
  MaxBatch = 2
INVARIANTS
  TypeOK
  RevisionChain
  RowIsLastChange
  RepliesMatchLog
PROPERTIES
  ImplementsLog
  EventuallyAnswered
CHECK_DEADLOCK FALSE
