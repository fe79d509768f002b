----------------------------- MODULE PartsProofs -----------------------------
(***************************************************************************)
(* What holds of the parts that share no state, in every behaviour of      *)
(* their composition and for every value of their constants: the           *)
(* invariants of ServerPartsProofs and ScreenPartsProofs together, and the *)
(* properties that follow.  A part at rest keeps its invariant because     *)
(* nothing of it changes.                                                  *)
(***************************************************************************)
EXTENDS Parts, ServerPartsProofs

-----------------------------------------------------------------------------
(* Reads, types, jobs, provider processes, contexts and saved queries      *)

\* Whatever part acts, the others keep theirs.
IInv == ReadsInv /\ TypesInv /\ JobsInv /\ CliInv /\ ContextInv /\ SavedInv

\* The parts' invariants hold together in every behaviour.
THEOREM Invariance == Spec => []IInv
  <1>1. Init => IInv
    BY ReadsStart, TypesStart, JobsStart, CliStart, ContextStart, SavedStart DEF Init, IInv
  <1>2. IInv /\ [Next]_vars => IInv'
    <2> SUFFICES ASSUME IInv, [Next]_vars PROVE IInv'
      OBVIOUS
    <2>1. ReadsInv'
      BY ReadsStep, ReadsRest DEF IInv, Next, Acts, vars
    <2>2. TypesInv'
      BY TypesStep, TypesRest DEF IInv, Next, Acts, vars
    <2>3. JobsInv'
      BY JobsStep, JobsRest DEF IInv, Next, Acts, vars
    <2>4. CliInv'
      BY CliStep, CliRest DEF IInv, Next, Acts, vars
    <2>5. ContextInv'
      BY ContextStep, ContextRest DEF IInv, Next, Acts, vars
    <2>6. SavedInv'
      BY SavedStep, SavedRest DEF IInv, Next, Acts, vars
    <2>. QED  BY <2>1, <2>2, <2>3, <2>4, <2>5, <2>6 DEF IInv
  <1>. QED  BY <1>1, <1>2, PTL DEF Spec
\* What the drivers answer from several queries, of a table, of its types and of
\* a BigQuery job, is true whatever DDL, cancels and errors come in between.
THEOREM AnswersHold == Spec => []AnswersAreTrue
  <1>1. IInv => AnswersAreTrue
    BY DEF IInv, ReadsInv, TypesInv, ResultInv, KnownTypesAreNamed, JobsInv, JobInv, NoJobIsLeft, AnswersAreTrue
  <1>. QED  BY <1>1, Invariance, PTL

\* codexDriver.ts, opencodeDriver.ts: nothing waits for a process that is gone,
\* only one that is silent holds an interrupt back, and a turn that is done has
\* stored what was read before its end.
THEOREM CliTurnsEnd == Spec => [](NobodyWaitsForTheDead /\ OnlySilenceHoldsInterrupt /\ DoneIsDone)
  <1>1. IInv => NobodyWaitsForTheDead /\ OnlySilenceHoldsInterrupt /\ DoneIsDone
    <2> SUFFICES ASSUME CliInv PROVE DoneIsDone
      BY DEF IInv, CliInv
    <2>. QED  BY DEF CliInv, CliTypes, DoneIsDone
  <1>. QED  BY <1>1, Invariance, PTL

\* toolServer.ts, mcp: the token is gone when a turn is done, so no tool call of
\* its process is admitted any more.
THEOREM ToolsEnd == Spec => ToolsEndWithTurn
  <1>1. IInv /\ [Next]_vars => [\A c \in McpCalls : mcp[c] = "no" /\ mcp'[c] = "running" => ~completed]_cliVars
    <2> SUFFICES ASSUME IInv, Next, NEW c \in McpCalls, mcp[c] = "no", mcp'[c] = "running", completed
                 PROVE  UNCHANGED cliVars
      BY DEF vars
    <2>1. ~token
      BY DEF IInv, CliInv
    <2>2. mcp \in [McpCalls -> {"no", "running", "over", "refused"}]
      BY DEF IInv, CliInv, CliTypes
    <2>3. CliNext => FALSE
      <3>1. SUFFICES ASSUME NEW d \in McpCalls, McpCall(d) \/ McpAnswer(d) PROVE FALSE
        BY DEF CliNext, Respond, SessionSaved, TurnCompleted, TurnStarted, ErrorLine, RunTask, SpawnFailed,
               Finish, Interrupt, Interrupted, Line, Exit, mcpVars
      <3>2. CASE McpCall(d)
        BY <2>1, <2>2, <3>2 DEF McpCall
      <3>3. CASE McpAnswer(d)
        BY <2>2, <3>3 DEF McpAnswer
      <3>. QED  BY <3>1, <3>2, <3>3
    <2>. QED  BY <2>3 DEF Next, Acts
  <1>. QED  BY <1>1, Invariance, PTL DEF Spec, ToolsEndWithTurn

\* session.ts: a thread resumes the session each provider told it last, whatever
\* others it has talked to meanwhile.
THEOREM SessionsKept == Spec => []SessionsAreKept
  <1>1. IInv => SessionsAreKept
    BY DEF IInv, ContextInv, SessionInv, SessionsAreKept, DecodeProviderSessions
  <1>. QED  BY <1>1, Invariance, PTL

\* session.ts: a summary of a connection that was edited is told for at most a
\* TTL more, unless its introspection straddled the edit.
THEOREM SummariesEnd == Spec => StaleSummariesEnd
  <1>1. IInv /\ [Next]_vars =>
          [\A t \in ChatThreads :
             LET c == context'[t]
             IN context[t].at # "talking" /\ c.at = "talking" /\ c.of \notin {0, database} =>
                  clock - editedAt[c.of] < SUMMARY_TTL \/ c.straddled]_contextVars
    <2> SUFFICES ASSUME IInv, Next, NEW t \in ChatThreads,
                        context[t].at # "talking", context'[t].at = "talking", context'[t].of \notin {0, database}
                 PROVE  UNCHANGED contextVars \/ clock - editedAt[context'[t].of] < SUMMARY_TTL \/ context'[t].straddled
      BY DEF vars
    <2>1. ContextInv /\ context \in [ChatThreads -> TurnShape] /\ SummaryInv /\ clock \in Nat
      BY DEF IInv, ContextInv
    <2>2. ASSUME NEW of, NEW straddled, Talk(t, of, straddled)
          PROVE  context'[t].of = of /\ context'[t].straddled = straddled
      BY <2>1, <2>2 DEF Talk, TurnShape
    <2>3. CASE ContextNext
      <3>1. CASE LoadCached(t)
        <4>1. context'[t].of = summary.of /\ context'[t].straddled = summary.straddled /\ clock - summary.at < SUMMARY_TTL
          BY <2>2, <3>1 DEF LoadCached
        <4>2. editedAt[summary.of] >= summary.at \/ summary.straddled
          BY <2>1, <4>1 DEF SummaryInv
        <4>3. summary.of \in 1..MaxEdits /\ editedAt[summary.of] \in Nat /\ summary.at \in Nat
          BY <2>1, <4>1, ContextAssumption DEF SummaryInv
        <4>. QED  BY <2>1, <4>1, <4>2, <4>3, ContextAssumption
      <3>2. CASE Introspected(t)
        <4>1. context'[t].of = context[t].of /\ context'[t].straddled = context[t].straddled /\ context[t].at = "introspect"
          BY <2>2, <3>2 DEF Introspected
        <4>. QED  BY <2>1, <4>1 DEF SummaryInv
      <3>3. CASE NoSummaryFound(t)
        BY <2>2, <3>3 DEF NoSummaryFound
      <3>4. ASSUME NEW u \in ChatThreads,
                   \/ \E j \in Providers : StartTurn(u, j)
                   \/ \E b \in BOOLEAN : SaveProviderSession(u, b) \/ EndTurn(u, b)
                   \/ LateSave(u) \/ Introspect(u)
            PROVE  FALSE
        <4>1. CASE \E j \in Providers : StartTurn(u, j)
          BY <2>1, <4>1 DEF StartTurn, NoTurnYet
        <4>2. CASE \E b \in BOOLEAN : SaveProviderSession(u, b)
          BY <2>1, <4>2 DEF SaveProviderSession
        <4>3. CASE \E b \in BOOLEAN : EndTurn(u, b)
          BY <2>1, <4>3 DEF EndTurn, NoTurnYet
        <4>4. CASE LateSave(u)
          BY <4>4 DEF LateSave
        <4>5. CASE Introspect(u)
          BY <2>1, <4>5 DEF Introspect
        <4>. QED  BY <3>4, <4>1, <4>2, <4>3, <4>4, <4>5
      <3>5. ASSUME NEW u \in ChatThreads, u # t, LoadCached(u) \/ Introspected(u) \/ NoSummaryFound(u)
            PROVE  FALSE
        BY <2>1, <3>5 DEF LoadCached, Introspected, NoSummaryFound, Talk
      <3>6. CASE EditConnection \/ Tick
        <4>1. context'[t].at = context[t].at
          BY <2>1, <3>6 DEF EditConnection, Tick, TurnShape
        <4>. QED  BY <4>1
      <3>. QED  BY <2>3, <3>1, <3>2, <3>3, <3>4, <3>5, <3>6 DEF ContextNext
    <2>. QED  BY <2>3 DEF Next, Acts
  <1>. QED  BY <1>1, Invariance, PTL DEF Spec, StaleSummariesEnd

\* sql/store.ts: what a window was told of a saved query is what its row says
\* until another window writes it.
THEOREM SavedAnswersKept == Spec => []AnswersAreKept
  <1>1. IInv => AnswersAreKept
    BY DEF IInv, SavedInv
  <1>. QED  BY <1>1, Invariance, PTL
-----------------------------------------------------------------------------
(* SQLite, SQL texts, message parts, runtime settings, history and tools   *)

\* Whatever part acts, the others keep theirs.
DataInv == SqliteInv /\ TextInv /\ TurnPartsInv /\ RuntimeInv /\ HistoryInv /\ ToolsInv

\* The invariants of these parts hold together in every behaviour.
THEOREM DataInvariance == Spec => []DataInv
  <1>1. Init => DataInv
    BY SqliteStart, TextStart, TurnPartsStart, RuntimeStart, HistoryStart, ToolsStart DEF Init, DataInv
  <1>2. DataInv /\ [Next]_vars => DataInv'
    <2> SUFFICES ASSUME DataInv, [Next]_vars PROVE DataInv'
      OBVIOUS
    <2>1. SqliteInv'
      BY SqliteStep, SqliteRest DEF DataInv, Next, Acts, vars
    <2>2. TurnPartsInv'
      BY TurnPartsStep, TurnPartsRest DEF DataInv, Next, Acts, vars
    <2>3. RuntimeInv'
      BY RuntimeStep, RuntimeRest DEF DataInv, Next, Acts, vars
    <2>4. HistoryInv'
      BY HistoryStep, HistoryRest DEF DataInv, Next, Acts, vars
    <2>5. ToolsInv'
      BY ToolsStep, ToolsRest DEF DataInv, Next, Acts, vars
    <2>6. TextInv'
      BY TextStep, TextRest DEF DataInv, Next, Acts, vars
    <2>. QED  BY <2>1, <2>2, <2>3, <2>4, <2>5, <2>6 DEF DataInv
  <1>. QED  BY <1>1, <1>2, PTL DEF Spec

\* db/sqlite.ts: a script that worked never counts too few rows, query_only is
\* off once no read is under way, and rows left out of an answer are announced.
THEOREM SqliteHonest == Spec => []SqliteIsHonest
  <1>1. DataInv => SqliteIsHonest
    BY SqliteKeeps DEF DataInv, SqliteIsHonest
  <1>. QED  BY <1>1, DataInvariance, PTL

\* classify.ts, statements.ts, split.ts, queryBuilder.ts: but for what is contested
\* between their lexers, the handler, the driver and the editor mean the same
\* statements by a text; what passes as read-only looks like a read to all of
\* them, and the editor asks before what begins as a write, but for what their
\* properties name; a row query binds what it mentions.
THEOREM TextUnderstood == Spec => []TextIsUnderstood
  <1>1. DataInv => TextIsUnderstood
    BY TextKeeps DEF DataInv, TextIsUnderstood
  <1>. QED  BY <1>1, DataInvariance, PTL

\* codexDriver.ts, opencodeDriver.ts, normalizer.ts, session.ts: a turn ends
\* with its process, what it saves is what it showed, and a thread resumes the
\* session each provider told it last.
THEOREM TurnsKept == Spec => []TurnsAreKept
  <1>1. DataInv => SavedIsShown /\ ToolsAreSaved
    BY DEF DataInv, TurnPartsInv
  <1>2. DataInv /\ NobodyWaitsForTheDead /\ OnlySilenceHoldsInterrupt /\ DoneIsDone /\ SessionsAreKept => TurnsAreKept
    BY <1>1 DEF TurnsAreKept
  <1>. QED  BY <1>2, DataInvariance, CliTurnsEnd, SessionsKept, PTL

\* claudeRuntime.ts, history/store.ts, sql/store.ts, toolServer.ts: the settings
\* shown are those of the next turn, the history is the newest runs and bounded,
\* a saved query stays what its writer was told, and a tool's answer fits what
\* was asked.
THEOREM RecordsKept == Spec => []RecordsAreKept
  <1>1. DataInv => /\ StatusIsOfTheNextTurn /\ CleanMeansSaved
                   /\ HistoryIsTheNewest /\ HistoryIsBounded
                   /\ ToolsKeepTheirSpec /\ GridBeforeAnswer
    BY RuntimeKeeps, HistoryKeeps, ToolsKeep DEF DataInv
  <1>2. DataInv /\ AnswersAreKept => RecordsAreKept
    BY <1>1 DEF RecordsAreKept
  <1>. QED  BY <1>2, DataInvariance, SavedAnswersKept, PTL

\* db/sqlite.ts, runWrite: a script that fails in its transaction leaves the
\* rows as they were.
THEOREM ScriptsAreAtomic == Spec => ScriptIsAtomic
  <1>1. DataInv /\ [Next]_vars => [writes' # writes /\ ~report'.ok /\ ~report'.ends => rowCount' = rowCount]_sqliteVars
    BY SqliteStep DEF DataInv, Next, Acts, vars
  <1>. QED  BY <1>1, DataInvariance, PTL DEF Spec, ScriptIsAtomic

\* db/sqlite.ts, runRead: a read changes no row, whatever the classifier took
\* for one, unless another read of the in-memory handle overlapped it.
THEOREM ReadsOnlyRead == Spec => ReadsChangeNothing
  <1>1. DataInv /\ [Next]_vars =>
          [rowCount' # rowCount => writes' # writes \/ \E r \in Readers : reads[r].shared]_sqliteVars
    BY SqliteStep DEF DataInv, Next, Acts, vars
  <1>. QED  BY <1>1, DataInvariance, PTL DEF Spec, ReadsChangeNothing
-----------------------------------------------------------------------------
(* The screens                                                             *)

\* Whatever part acts, the others keep theirs.
ScreenInv == ThreadsInv /\ PickInv /\ FormInv /\ EditorInv /\ ViewInv /\ WorkspaceInv

\* The invariants of these screens hold together in every behaviour.
THEOREM ScreenInvariance == Spec => []ScreenInv
  <1>1. Init => ScreenInv
    BY ThreadsStart, PickStart, FormStart, EditorStart, ViewStart, WorkspaceStart DEF Init, ScreenInv
  <1>2. ScreenInv /\ [Next]_vars => ScreenInv'
    <2> SUFFICES ASSUME ScreenInv, [Next]_vars PROVE ScreenInv'
      OBVIOUS
    <2>1. ThreadsInv'
      BY ThreadsStep, ThreadsRest DEF ScreenInv, Next, Acts, vars
    <2>2. PickInv'
      BY PickStep, PickRest DEF ScreenInv, Next, Acts, vars
    <2>3. FormInv'
      BY FormStep, FormRest DEF ScreenInv, Next, Acts, vars
    <2>4. EditorInv'
      BY EditorStep, EditorRest DEF ScreenInv, Next, Acts, vars
    <2>5. ViewInv'
      BY ViewStep, ViewRest DEF ScreenInv, Next, Acts, vars
    <2>6. WorkspaceInv'
      BY WorkspaceStep, WorkspaceRest DEF ScreenInv, Next, Acts, vars
    <2>. QED  BY <2>1, <2>2, <2>3, <2>4, <2>5, <2>6 DEF ScreenInv
  <1>. QED  BY <1>1, <1>2, PTL DEF Spec

\* connection-form.tsx, models.ts, use-threads.ts: a connection keeps what was
\* entered and its secrets, a turn runs the model that was shown, and the list
\* shows the threads there are under their titles.
THEOREM ChoicesKept == Spec => []ChoicesAreKept
  <1>1. ScreenInv => ChoicesAreKept
    BY ThreadsKeep, FormKeeps DEF ScreenInv, PickInv, ChoicesAreKept
  <1>. QED  BY <1>1, ScreenInvariance, PTL

\* sql-editor.tsx, table-view.tsx, store.ts: what was typed last is kept, a write
\* is confirmed if the setting says so, the grid acts on the rows it shows, a
\* page starts where one does, a strip is its connection's and nothing is left of
\* a deleted connection, but for the races their properties name.
THEOREM ScreensKept == Spec => []ScreensActOnWhatTheyShow
  <1>1. ScreenInv => ScreensActOnWhatTheyShow
    BY EditorKeeps, ViewKeeps, TabKeeps DEF ScreenInv, WorkspaceInv, ScreensActOnWhatTheyShow
  <1>. QED  BY <1>1, ScreenInvariance, PTL

\* store.ts, nav.ts: no step but the user's brings a closed tab back as it was.
THEOREM ClosedTabsGone == Spec => ClosedTabsStayClosed
  <1>1. ScreenInv /\ [Next]_vars =>
          [tabOps' = tabOps => \A t \in closed : t.id \notin Ids(app.tabs) => t \notin Elements(app'.tabs)]_tabVars
    BY ClosedStays DEF ScreenInv, ClosedStep, Next, Acts, vars
  <1>. QED  BY <1>1, ScreenInvariance, PTL DEF Spec, ClosedTabsStayClosed

\* No part takes a step it must not: a failed script leaves the rows alone and so
\* does a read, a tool's call and a stale summary end with their turn, and a
\* closed tab stays closed.
THEOREM StepsSafe == Spec => StepsAreSafe
  BY ScriptsAreAtomic, ReadsOnlyRead, ToolsEnd, SummariesEnd, ClosedTabsGone DEF StepsAreSafe
=============================================================================
