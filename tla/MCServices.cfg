SPECIFICATION ServicesSpec
CONSTANTS
  Parts = {"accounts", "transfers", "folder", "tasks", "event", "alarm", "approval"}
  Proc = {p1, p2}
  Providers = {"google_drive", "quark_drive", "cloudflare_r2"}
  MaxGrant = 2
  MaxFaults = 1
  MaxFailures = 1
  MAX_API_ATTEMPTS = 2
  Statuses = {200, 401, 500}
  Kinds = {"download", "import", "upload"}
  MaxSize = 2
  MaxVersion = 2
  MaxAttempts = 1
  MaxBytes = 1
  Folders = {"r", "f", "g"}
  Files = {"a"}
  Root = "r"
  MAX_FOLDER_DEPTH = 2
  MAX_FOLDER_ITEMS = 5
  Bases = {"a", "b"}
  MaxDay = 1
  MaxChain = 1
  MaxWrites = 6
  Instants = {0, 1, 2, 3}
  Lengths = {1, 2}
  Intervals = {0, 1, 2}
  MAX_OCCURRENCES_PER_SERIES = 3
  Replacements = {"r", "s"}
  MaxEdits = 3
  Items = {"i"}
  MaxTime = 3
  MISSED_WINDOW_MINUTES = 2
  Approvals = {"t"}
  Rules <- Daily
  Suffix <- SameSuffix
INVARIANTS TasksSafe CalendarSafe RemindersSafe
  AccountsSafe TransfersSafe FoldersSafe
PROPERTIES AuthRequiredSticks DownloadKeepsContract
CHECK_DEADLOCK FALSE
