------------------------------- MODULE Parts -------------------------------
(***************************************************************************)
(* The parts of the server and of the web app that have a module of their  *)
(* own and share no state: one of them acts in a behaviour, the others     *)
(* rest in one of their initial states.  What the parts owe their callers  *)
(* and users is stated once, as conjunctions of the properties named in    *)
(* their modules.                                                          *)
(***************************************************************************)
EXTENDS SqliteDriver, SqlText, TableReads, PgTypes, BigQueryJobs, CliTurn, TurnParts,
        TurnContext, ClaudeRuntime, History, SavedQueries, AgentTools, SqlEditor,
        TableView, Workspace, ConnectionForm, ModelChoice, Threads

VARIABLE component \* the part that acts

vars == <<component, sqliteVars, textVars, readVars, typesVars, jobVars, cliVars,
          partsVars, contextVars, runtimeVars, historyVars, savedVars, toolVars,
          editorVars, viewVars, tabVars, formVars, pickVars, threadVars>>

Components == {"sqlite", "text", "reads", "types", "jobs", "cli", "parts", "context", "runtime",
               "history", "saved", "tools", "editor", "view", "tabs", "form", "pick", "threads"}

Init ==
  /\ component \in Components
  /\ SqliteInit /\ (component # "sqlite" => ~memory /\ changes = 0)
  /\ TextInit /\ (component # "text" => dialect = "postgres" /\ alphabet = {})
  /\ ReadsInit /\ (component # "reads" => driver = "postgres" /\ version = 0 /\ estimate = 0)
  /\ TypesInit /\ (component # "types" => catalog = {})
  /\ JobsInit
  /\ CliInit /\ (component # "cli" => provider = "openai" /\ ~resumes)
  /\ PartsInit /\ (component # "parts" => ~normalizer)
  /\ ContextInit /\ (component # "context" => \A t \in ChatThreads : ~sessionIds[t].legacy)
  /\ RuntimeInit /\ (component # "runtime" => claudeFile = Settings("", "") /\ executables = {})
  /\ HistoryInit
  /\ SavedInit /\ (component # "saved" => savedRow = NoSavedRow)
  /\ ToolsInit
  /\ EditorInit /\ (component # "editor" =>
       scene = "run" /\ ~prod /\ ~confirmDml /\ saved[CHOOSE i \in SavedIds : TRUE] = 1)
  /\ ViewInit /\ (component # "view" => pageSize = CHOOSE n \in PageSizes : TRUE)
  /\ TabInit
  /\ FormInit /\ (component # "form" => \A c \in FormRows : rows[c] = StoredRow(c, CHOOSE d \in FormDialects : TRUE, FALSE))
  /\ PickInit /\ (component # "pick" => installedClis = {} /\ threadListed = [t \in PickThreads |-> NotCreated]
                                     /\ serverCatalog = BuildCatalog({}, CHOOSE m \in DefaultModels : TRUE))
  /\ ThreadsInit

\* The step of the part that acts, and nothing of the others.
Acts(c, Action, own) == IF component = c THEN Action ELSE UNCHANGED own

Next ==
  /\ UNCHANGED component
  /\ Acts("sqlite", SqliteNext, sqliteVars)
  /\ Acts("text", TextNext, textVars)
  /\ Acts("reads", ReadsNext, readVars)
  /\ Acts("types", TypesNext, typesVars)
  /\ Acts("jobs", JobsNext, jobVars)
  /\ Acts("cli", CliNext, cliVars)
  /\ Acts("parts", PartsNext, partsVars)
  /\ Acts("context", ContextNext, contextVars)
  /\ Acts("runtime", RuntimeNext, runtimeVars)
  /\ Acts("history", HistoryNext, historyVars)
  /\ Acts("saved", SavedNext, savedVars)
  /\ Acts("tools", ToolsNext, toolVars)
  /\ Acts("editor", EditorNext, editorVars)
  /\ Acts("view", ViewNext, viewVars)
  /\ Acts("tabs", TabNext, tabVars)
  /\ Acts("form", FormNext, formVars)
  /\ Acts("pick", PickNext, pickVars)
  /\ Acts("threads", ThreadsNext, threadVars)

Spec == Init /\ [][Next]_vars
-----------------------------------------------------------------------------
(* Properties: of the part that acts, the others being in initial states *)

\* db/sqlite.ts: a script says how many rows it changed, a read-only read
\* leaves no handle read-only behind it, and rows left out are announced.
SqliteIsHonest == component = "sqlite" => CountIsTrue /\ QueryOnlyEnds /\ NothingCutSilently

\* classify.ts, split-statements.ts, sql-statements.ts, render.ts: server and
\* editor cut and judge a text alike, and a filter binds what it mentions.
TextIsUnderstood ==
  component = "text" => SplittersAgree /\ ReadsLookLikeReads /\ EditorAsksForWrites /\ SlotsAreBound

\* The drivers' table reads, type names and BigQuery jobs: an answer made of
\* several queries is about one table, and no job outlives its call unseen.
AnswersAreTrue ==
  /\ component = "reads" => NotFoundIsTrue /\ PageIsLabelled /\ TotalIsHonest
  /\ component = "types" => KnownTypesAreNamed
  /\ component = "jobs" => NoJobIsLeft

\* codexDriver.ts, opencodeDriver.ts, normalizer.ts, session.ts: a turn ends
\* with its process, saves what it showed and keeps every provider's session.
TurnsAreKept ==
  /\ component = "cli" => NobodyWaitsForTheDead /\ OnlySilenceHoldsInterrupt /\ DoneIsDone
  /\ component = "parts" => SavedIsShown /\ ToolsAreSaved
  /\ component = "context" => SessionsAreKept

\* What no step of a part does: half a script, a write under a read-only
\* request, a tool call after its turn, a summary older than its time given to
\* a turn, a tab the user closed come back.
StepsAreSafe ==
  ScriptIsAtomic /\ ReadsChangeNothing /\ ToolsEndWithTurn /\ StaleSummariesEnd /\ ClosedTabsStayClosed

\* The runtime settings, the query history, the saved queries and the answers
\* of the agent's tools.
RecordsAreKept ==
  /\ component = "runtime" => StatusIsOfTheNextTurn /\ CleanMeansSaved
  /\ component = "history" => HistoryIsTheNewest /\ HistoryIsBounded
  /\ component = "saved" => AnswersAreKept
  /\ component = "tools" => ToolsKeepTheirSpec /\ GridBeforeAnswer

\* The editor, the table view and the tabs act on what the user sees in them.
ScreensActOnWhatTheyShow ==
  /\ component = "editor" => TypedTextIsKept /\ WritesAreConfirmed /\ RunningIsShown /\ SuggestionFits
  /\ component = "view" => ActsOnWhatIsShown /\ PagingIsAligned /\ ReapplyKeepsFilters
  /\ component = "tabs" => StripsAreSound /\ NothingOfTheDeleted

\* The connection form, the model picker and the thread list keep what the
\* user entered, chose and was shown.
ChoicesAreKept ==
  /\ component = "form" => RowsKeepTheirSecrets /\ SavedIsTested /\ UntouchedIsUnchanged
  /\ component = "pick" => TurnsRunWhatWasShown /\ DefaultsAgree /\ PickerRemembers
  /\ component = "threads" => ListIsTrue /\ TitleIsOfTheFirstMessage /\ NothingWithoutConnection
=============================================================================
