SPECIFICATION Spec
CONSTANTS
  \* SqliteDriver
  Readers = {r1, r2}
  MaxScript = 2
  MaxWrites = 1
  BATCH_SIZE = 2
  DEFAULT_ROW_LIMIT = 2
  MAX_ROW_LIMIT = 3
  \* SqlText
  Dialects = {"postgres", "mysql", "sqlite", "bigquery"}
  Alphabets = {{"select", "insert", "sq", "dq", "/*", "*/", "--", "nl", ";"},
               {"select", "show", "insert", "rename", "into", "sleep", "analyze", "(", "sq"},
               {"select", "insert", "bs", "#", "bt", "$$", ";", "nl"}}
  Asts = {"fails", "select", "select into", "show", "drop", "other"}
  MaxTokens = 3
  MaxFilters = 2
  \* TableReads
  Drivers = {"postgres", "mysql", "sqlite", "bigquery"}
  Threshold = 1
  MaxAlters = 2
  MaxRows = 2
  \* PgTypes
  Results = {r1, r2, r3}
  Builtin = {25}
  Custom = {90}
  \* BigQueryJobs
  Queries = {q1, q2}
  \* CliTurn
  McpCalls = {m1, m2}
  MaxLines = 2
  \* TurnParts
  Tools = {u1}
  Approvals = {a1}
  MaxParts = 4
  \* TurnContext
  ChatThreads = {t1}
  Providers = {"anthropic", "openai"}
  SUMMARY_TTL = 2
  MaxSessions = 2
  MaxEdits = 2
  MaxClock = 2
  \* ClaudeRuntime
  BinaryTexts = {"", "b1", "b1 "}
  DirTexts = {""}
  EnvBinary = "envb"
  EnvDir = ""
  MaxRuntimeOps = 3
  \* History
  HistoryRuns = {h1, h2, h3}
  HISTORY_LIMIT = 1
  HISTORY_RETAIN = 2
  MaxTime = 2
  \* SavedQueries
  Windows = {w1, w2}
  MaxSavedCalls = 4
  \* AgentTools
  ToolCalls = {c1, c2}
  TextArgs = {"good", "empty"}
  LimitArgs <- MCLimits
  ResultSizes = {0, 3}
  MAX_ROWS = 2
  MAX_SAMPLE_ROWS = 1
  \* SqlEditor
  SavedIds = {q1}
  MaxText = 2
  MaxRuns = 2
  \* TableView
  TableColumns <- MCColumns
  PageSizes = {2}
  Totals = {1, 5}
  MaxViewOps = 3
  \* Workspace
  Connections = {k1, k2}
  KindOf <- MCKinds
  MaxTabOps = 5
  \* ConnectionForm
  FormRows = {"a", "b"}
  FormDialects = {"postgres", "bigquery"}
  MaxDialogs = 2
  MaxFormEdits = 1
  MaxSaves = 1
  \* ModelChoice
  CatalogModels <- MCModels
  DefaultModels = {"gone"}
  PickThreads = {"t1"}
  MaxPickOps = 3
  MaxRestarts = 1
  \* Threads
  ThreadRows = {t1, t2}
  MaxThreadOps = 4
INVARIANTS
   TextIsUnderstood   
   ChoicesAreKept
 
\* A part stops at its bounds.
CHECK_DEADLOCK FALSE
