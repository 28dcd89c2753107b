SPECIFICATION HostSpec
CONSTANTS
  Parts = {"pairing", "keys", "models", "search",
           "hunks", "files", "terminals", "start"}
  Dev = {"a", "b"}
  Session = {1, 2}
  MAX_KEY_VERSIONS = 3
  MaxOps = 6
  MaxFaults = 1
  Configured = {"a"}
  Running = {}
  Slots = {1, 2}
  ModelProviders = {"p", "q"}
  Models = {"m"}
  MaxSaves = 2
  MaxSearches = 1
  Texts = {"a", "b"}
  MaxLines = 3
  MaxHunks = 2
  Calls = {1, 2}
  Paths = {1, 2}
  MaxActions = 2
  Owners = {"o"}
  Shells = {1, 2}
  MAX_TERMINAL_SESSIONS = 1
  MaxOutput = 2
  MaxRuns = 1
  Messages = {1, 2}
  Ages <- MCAges
  MaxStarts = 3
INVARIANTS KeysSafe ToolsSafe StartupSafe
CHECK_DEADLOCK FALSE
