------------------------------ MODULE AgentTools ------------------------------
(***************************************************************************)
(* The database tools the agents call (agent/tools.ts): what each accepts, *)
(* what it asks the driver for and what it answers.  Claude's SDK checks   *)
(* arguments against the zod schemas first; Codex' dynamic tools and the   *)
(* MCP bridge pass whatever the model produced.                            *)
(*                                                                         *)
(* Calls of one turn overlap.  Texts are missing, empty or good; column    *)
(* and cell contents are left out.                                         *)
(***************************************************************************)
EXTENDS Integers, FiniteSetsExt

CONSTANTS
    ToolCalls,       \* calls
    TextArgs,        \* what a text argument may be: subset of {"good", "empty", "missing"}
    LimitArgs,       \* integers a limit may be, NoLimit and NotInteger
    ResultSizes,     \* rows the table or the query has
    MAX_ROWS, MAX_SAMPLE_ROWS

ASSUME ToolsAssumption ==
    /\ TextArgs \subseteq {"good", "empty", "missing"}
    /\ LimitArgs \subseteq Int
    /\ ResultSizes \subseteq Int
    /\ MAX_ROWS \in Nat \ {0} /\ MAX_SAMPLE_ROWS \in Nat \ {0}

VARIABLES
    toolCalls,       \* each call: [stage, name, text, limit]
    asked,           \* the limit the driver was asked for, NotAsked before
    delivered,       \* rows the driver delivered
    grids,           \* rows of the ResultTable event of the call, NoGrid before
    toolAnswers      \* [kind, rows] of the answered calls

toolVars == <<toolCalls, asked, delivered, grids, toolAnswers>>

NoLimit == -1
NotInteger == -2
NotAsked == -3
NoGrid == -4
ToolNames == {"list_schemas", "describe_table", "sample_rows", "run_sql", "explain", "propose_write", "other"}
NoAnswer == [kind |-> "none", rows |-> 0]
ToolError == [kind |-> "error", rows |-> 0]

\* what the catalog tells the provider a tool takes
Specified(name, text, limit) ==
    /\ name # "other"
    /\ name # "list_schemas" => text # "missing"
    /\ name = "sample_rows" => limit \in {NoLimit} \cup 1..MAX_SAMPLE_ROWS
    /\ name = "run_sql" => limit \in {NoLimit} \cup 1..MAX_ROWS
    /\ name = "propose_write" => limit = NoLimit \/ limit >= 0

OptionalInt(limit, min, max) == limit = NoLimit \/ limit \in min..max

\* what the code takes: its switch, its string() and its optionalInt()
Accepts(name, text, limit) ==
    /\ name # "other"
    /\ name # "list_schemas" => text = "good"
    /\ name = "sample_rows" => OptionalInt(limit, 1, MAX_SAMPLE_ROWS)
    /\ name = "run_sql" => OptionalInt(limit, 1, MAX_ROWS)
    /\ name = "propose_write" => limit = NoLimit \/ limit >= 0    \* estimatedRows

SampleLimit(limit) == Min({IF limit = NoLimit THEN 10 ELSE limit, MAX_SAMPLE_ROWS})
QueryLimit(limit) == Min({Max({1, IF limit = NoLimit THEN 100 ELSE limit}), MAX_ROWS})

ToolsInit ==
    /\ toolCalls = [c \in ToolCalls |-> [stage |-> "idle", name |-> "other", text |-> "missing", limit |-> NoLimit]]
    /\ asked = [c \in ToolCalls |-> NotAsked]
    /\ delivered = [c \in ToolCalls |-> 0]
    /\ grids = [c \in ToolCalls |-> NoGrid]
    /\ toolAnswers = [c \in ToolCalls |-> NoAnswer]

ToolStage(c, stage) == toolCalls' = [toolCalls EXCEPT ![c].stage = stage]
AnswerTool(c, answer) == ToolStage(c, "answered") /\ toolAnswers' = [toolAnswers EXCEPT ![c] = answer]

\* zod refuses for Claude what the catalog does not specify; the others reach the switch
CallTool(c, name, text, limit) ==
    /\ toolCalls[c].stage = "idle"
    /\ toolCalls' = [toolCalls EXCEPT ![c] = [stage |-> IF Accepts(name, text, limit) THEN "acquiring" ELSE "answered",
                                             name |-> name, text |-> text, limit |-> limit]]
    /\ toolAnswers' = [toolAnswers EXCEPT ![c] = IF Accepts(name, text, limit) THEN NoAnswer ELSE ToolError]
    /\ UNCHANGED <<asked, delivered, grids>>

\* ctx.driver, shared by the calls of the turn; a failure is the tool's answer
AcquireDriver(c) ==
    /\ toolCalls[c].stage = "acquiring" /\ toolCalls[c].name # "propose_write"
    /\ \/ ToolStage(c, "asking") /\ UNCHANGED toolAnswers
       \/ AnswerTool(c, ToolError)
    /\ UNCHANGED <<asked, delivered, grids>>

\* introspect, describeTable and explain
AskCatalog(c) ==
    /\ toolCalls[c].stage = "asking" /\ toolCalls[c].name \in {"list_schemas", "describe_table", "explain"}
    /\ \E answer \in {[kind |-> "text", rows |-> 0], ToolError} : AnswerTool(c, answer)
    /\ UNCHANGED <<asked, delivered, grids>>

SampleRows(c) ==
    /\ toolCalls[c].stage = "asking" /\ toolCalls[c].name = "sample_rows"
    /\ asked' = [asked EXCEPT ![c] = SampleLimit(toolCalls[c].limit)]
    /\ \/ \E n \in ResultSizes :
            /\ delivered' = [delivered EXCEPT ![c] = Min({n, asked'[c]})]
            /\ AnswerTool(c, [kind |-> "rows", rows |-> delivered'[c]])
       \/ AnswerTool(c, ToolError) /\ UNCHANGED delivered
    /\ UNCHANGED grids

\* collectQuery; a refused write ends here as an error too
RunSql(c) ==
    /\ toolCalls[c].stage = "asking" /\ toolCalls[c].name = "run_sql"
    /\ asked' = [asked EXCEPT ![c] = QueryLimit(toolCalls[c].limit)]
    /\ \/ \E n \in ResultSizes :
            /\ delivered' = [delivered EXCEPT ![c] = Min({n, asked'[c]})]
            /\ ToolStage(c, "emitting") /\ UNCHANGED toolAnswers
       \/ AnswerTool(c, ToolError) /\ UNCHANGED delivered
    /\ UNCHANGED grids

\* the user sees the grid before the model hears of the rows
EmitGrid(c) ==
    /\ toolCalls[c].stage = "emitting"
    /\ grids' = [grids EXCEPT ![c] = delivered[c]]
    /\ ToolStage(c, "answering")
    /\ UNCHANGED <<asked, delivered, toolAnswers>>

AnswerRows(c) ==
    /\ toolCalls[c].stage = "answering"
    /\ AnswerTool(c, [kind |-> "rows", rows |-> delivered[c]])
    /\ UNCHANGED <<asked, delivered, grids>>

\* a write that failed is an error, one that was rejected is not
ProposeWrite(c) ==
    /\ toolCalls[c].stage = "acquiring" /\ toolCalls[c].name = "propose_write"
    /\ \E outcome \in {"executed", "rejected", "failed"} :
          AnswerTool(c, IF outcome = "failed" THEN ToolError ELSE [kind |-> outcome, rows |-> 0])
    /\ UNCHANGED <<asked, delivered, grids>>

ToolsNext ==
    \E c \in ToolCalls :
        \/ \E name \in ToolNames, text \in TextArgs, limit \in LimitArgs : CallTool(c, name, text, limit)
        \/ AcquireDriver(c) \/ AskCatalog(c) \/ SampleRows(c) \/ RunSql(c) \/ EmitGrid(c) \/ AnswerRows(c)
        \/ ProposeWrite(c)

ToolsSpec == ToolsInit /\ [][ToolsNext]_toolVars

(***************************************************************************)
(* Properties.                                                             *)
(***************************************************************************)
\* What the catalog tells a provider it may pass is not refused, an empty text apart, and what is
\* refused never reaches the driver; no provider, whatever it passes, makes the driver fetch more rows
\* than the tool's bound or fewer than one.
ToolsKeepTheirSpec ==
    \A c \in ToolCalls :
        LET call == toolCalls[c] IN
        /\ call.stage = "answered" /\ ~Accepts(call.name, call.text, call.limit) =>
              /\ asked[c] = NotAsked /\ toolAnswers[c] = ToolError
              /\ Specified(call.name, call.text, call.limit) => call.text = "empty"
        /\ asked[c] # NotAsked =>
              /\ Specified(call.name, call.text, call.limit)
              /\ asked[c] \in 1..(IF call.name = "run_sql" THEN MAX_ROWS ELSE MAX_SAMPLE_ROWS)

\* The model is told of rows only after the user was shown the same rows, and a query that failed shows
\* none, whatever other calls of the turn do meanwhile.
GridBeforeAnswer ==
    \A c \in ToolCalls : toolCalls[c].name = "run_sql" =>
        /\ toolAnswers[c].kind = "rows" => grids[c] = toolAnswers[c].rows
        /\ toolAnswers[c].kind = "error" => grids[c] = NoGrid
=============================================================================
