SPECIFICATION MCSpec
CONSTANTS
  Parts = {"talk", "recall", "explicit", "chunks", "index", "import", "package", "reading"}
  MaxMessages = 6
  Requests = {r1, r2}
  MaxCommands = 3
  Memories = {"m", "n"}
  Contents = {"x", "y"}
  Models = {"e", "f"}
  VectorIds = {"v1", "v2", "v3"}
  MaxRecalls = 2
  Lines = {"a", "b"}
  MaxSaves = 2
  Size = 6
  Overlap = 2
  MaxParagraphs = 3
  MaxLength = 8
  Local = {"l"}
  Foreign = {"g"}
  Chunks = {1, 2}
  MaxVersions = 2
  MaxIndexed = 5
  Imports = {1, 2}
  JobIds = {"a", "b"}
  MaxIncidents = 5
  MaxInstalls = 3
  Installers = {1, 2}
  Archives = {"p", "q", "bad"}
  Valid = {"p", "q"}
  Readers = {"i", "j"}
  Books = {"b", "d"}
  Epubs = {"x"}
  Agents = {"a", "c"}
  MaxCollections = 2
  MaxConversations = 2
  MaxReading = 4
SYMMETRY SlotSymmetry
INVARIANTS ConversationSafe MemoriesSafe KnowledgeSafe ReadingSafe
CHECK_DEADLOCK FALSE
