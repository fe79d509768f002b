------------------------------ MODULE CliTurn ------------------------------
(***************************************************************************)
(* One turn of a provider that runs as a child process: the app-server of  *)
(* agent/codexDriver.ts ("openai") and the CLI of agent/opencodeDriver.ts  *)
(* with its turn-scoped tools in agent/mcpBridge.ts ("opencode").          *)
(*                                                                         *)
(* The child is external: it answers, or not, and exits when it likes.     *)
(* What it wrote may be read after "exit" has been told.  Callbacks (text  *)
(* and codex tool calls) run one after the other, in the order read.       *)
(***************************************************************************)
EXTENDS Naturals, Sequences, FiniteSets

CONSTANTS McpCalls,  \* tool calls of the opencode child
          MaxLines   \* bound: lines read that enqueue a callback

VARIABLES
  provider,   \* "openai" or "opencode"
  cliChild,      \* "up", "gone" (exit was told), "failed" (could not be spawned)
  killed,     \* child.killed
  startup,    \* where the startup of codex is
  resumes,    \* there is a session to resume
  pending,    \* requests codex has not answered
  turnId,     \* codex has told the id of the turn
  chain,      \* callbacks not run yet
  linesRead, early, ranOf,   \* callbacks read, read before the end, run
  settled, ahead,     \* end was called; callbacks it waits for
  providerError, outcome, completed,   \* error told; outcome; done is resolved
  stop,       \* interrupt: "no", "asking", "returned"
  token, mcp  \* the token is registered; call -> "no", "running", "over", "refused"

cliChildVars == <<cliChild, killed>>
startVars == <<startup, resumes, pending, turnId>>
chainVars == <<chain, linesRead, early, ranOf>>
endVars == <<settled, ahead, providerError, outcome, completed>>
mcpVars == <<token, mcp>>
cliVars == <<provider, cliChildVars, startVars, chainVars, endVars, stop, mcpVars>>

Codex == provider = "openai"
Waiting == {"initialize", "thread/resume", "thread/start", "turn/start"}

CliInit ==
  /\ provider \in {"openai", "opencode"}
  /\ cliChild = "up" /\ killed = FALSE
  /\ resumes \in BOOLEAN
  /\ startup = IF Codex THEN "initialize" ELSE "over"
  /\ pending = IF Codex THEN {"initialize"} ELSE {}
  /\ turnId = FALSE
  /\ chain = <<>> /\ linesRead = 0 /\ early = 0 /\ ranOf = 0
  /\ settled = FALSE /\ ahead = 0 /\ providerError = FALSE /\ outcome = "none" /\ completed = FALSE
  /\ stop = "no"
  /\ token = ~Codex /\ mcp = [c \in McpCalls |-> "no"]

\* end: the first call counts, and waits for the callbacks there are.
End(o) ==
  IF settled THEN UNCHANGED <<settled, ahead, outcome, early>>
  ELSE /\ settled' = TRUE /\ ahead' = Len(chain) /\ outcome' = o /\ early' = linesRead

-----------------------------------------------------------------------------
(* The startup of codex *)

\* The answer to a request of the startup, and what follows.  A thread that
\* cannot be resumed is started anew; any other error ends the turn.
Respond(method, ok) ==
  /\ cliChild = "up" /\ ~completed /\ method \in pending \cap Waiting
  /\ LET next ==
       CASE method = "initialize" /\ ok -> IF resumes THEN "thread/resume" ELSE "thread/start"
         [] method = "thread/resume" /\ ~ok -> "thread/start"
         [] method \in {"thread/resume", "thread/start"} /\ ok -> "session"
         [] method = "turn/start" /\ ok -> "over"
         [] OTHER -> "failed"
     IN /\ startup' = next
        /\ pending' = (pending \ {method}) \cup ({next} \cap Waiting)
        /\ IF next = "failed" THEN End("error") ELSE UNCHANGED <<settled, ahead, outcome, early>>
  /\ UNCHANGED <<provider, cliChildVars, resumes, turnId, chain, linesRead, ranOf,
                 providerError, completed, stop, mcpVars>>

\* onSession saves the thread id; then the turn is asked for.  On a closed
\* stdin the request fails.
SessionSaved(ok) ==
  /\ startup = "session"
  /\ IF ok /\ cliChild = "up"
     THEN /\ startup' = "turn/start" /\ pending' = pending \cup {"turn/start"}
          /\ UNCHANGED <<settled, ahead, outcome, early>>
     ELSE startup' = "failed" /\ End("error") /\ UNCHANGED pending
  /\ UNCHANGED <<provider, cliChildVars, resumes, turnId, chain, linesRead, ranOf,
                 providerError, completed, stop, mcpVars>>
-----------------------------------------------------------------------------
(* Lines *)

\* Lines are read until the turn is completed, behind "exit" too.
Reading == ~completed /\ cliChild # "failed" /\ startup \in {"turn/start", "over"}

\* turn/started, without which there is no turn to interrupt.
TurnStarted ==
  /\ Codex /\ Reading /\ turnId' = TRUE
  /\ UNCHANGED <<provider, cliChildVars, startup, resumes, pending, chainVars, endVars, stop, mcpVars>>

\* A delta, or the tool call of codex, which takes its turn among them.
Line(task) ==
  /\ Reading /\ linesRead < MaxLines /\ (task = "tool" => Codex)
  /\ chain' = Append(chain, task) /\ linesRead' = linesRead + 1
  /\ UNCHANGED <<provider, cliChildVars, startVars, early, ranOf, endVars, stop, mcpVars>>

ErrorLine ==
  /\ Reading /\ providerError' = TRUE
  /\ UNCHANGED <<provider, cliChildVars, startVars, chainVars, settled, ahead, outcome, completed, stop, mcpVars>>

\* turn/completed of codex.
TurnCompleted(failed) ==
  /\ Codex /\ Reading
  /\ End(IF failed \/ providerError THEN "error" ELSE "ok")
  /\ UNCHANGED <<provider, cliChildVars, startVars, chain, linesRead, ranOf, providerError, completed, stop, mcpVars>>

\* The first callback of the chain is over: the text is stored, or the tool has
\* answered, which may take as long as a user takes.
RunTask ==
  /\ chain # <<>>
  /\ chain' = Tail(chain) /\ ranOf' = ranOf + 1
  /\ ahead' = IF ahead > 0 THEN ahead - 1 ELSE 0
  /\ UNCHANGED <<provider, cliChildVars, startVars, linesRead, early, settled, providerError, outcome, completed, stop, mcpVars>>
-----------------------------------------------------------------------------
(* The end *)

\* Mutant: whoever waits for an answer is forgotten.
ExitForgets(code) ==
  /\ cliChild = "up" /\ cliChild' = "gone"
  /\ End(IF Codex \/ providerError \/ code # 0 THEN "error" ELSE "ok")
  /\ UNCHANGED <<startup, pending, stop, killed, provider, resumes, turnId, chain, linesRead, ranOf, providerError, completed, mcpVars>>

\* "exit": requests nobody will answer are rejected, which fails a startup that
\* waits for one and brings a waiting interrupt to its kill.
Exit(code) ==
  /\ cliChild = "up" /\ cliChild' = "gone"
  /\ startup' = IF startup \in Waiting THEN "failed" ELSE startup
  /\ pending' = {}
  /\ stop' = IF stop = "asking" THEN "returned" ELSE stop
  /\ killed' = (killed \/ stop = "asking")
  /\ End(IF Codex \/ providerError \/ code # 0 THEN "error" ELSE "ok")
  /\ UNCHANGED <<provider, resumes, turnId, chain, linesRead, ranOf, providerError, completed, mcpVars>>

\* "error": there is no process, and there will be no "exit".
SpawnFailed ==
  /\ cliChild = "up" /\ startup \in {"initialize", "over"} /\ linesRead = 0 /\ ~turnId /\ ~killed
  /\ cliChild' = "failed" /\ End("error")
  /\ UNCHANGED <<provider, killed, startVars, chain, linesRead, ranOf, providerError, completed, stop, mcpVars>>

\* callbackChain.finally: the turn is done, codex is not needed any more; the
\* token of opencode ends.
Finish ==
  /\ settled /\ ahead = 0 /\ ~completed
  /\ completed' = TRUE
  /\ killed' = (killed \/ Codex)
  /\ token' = FALSE
  /\ UNCHANGED <<provider, cliChild, startVars, chainVars, settled, ahead, providerError, outcome, stop, mcp>>

\* interrupt: a turn codex knows is interrupted by a request first, which has no
\* timeout; then, and in every other case, the process is killed.
Interrupt ==
  /\ stop = "no"
  /\ IF Codex /\ startup \in {"session", "turn/start", "over"} /\ turnId /\ ~settled
     THEN /\ stop' = "asking" /\ pending' = pending \cup {"turn/interrupt"}
          /\ UNCHANGED killed
     ELSE stop' = "returned" /\ killed' = TRUE /\ UNCHANGED pending
  /\ UNCHANGED <<provider, cliChild, startup, resumes, turnId, chainVars, endVars, mcpVars>>

\* Its answer, good or bad.
Interrupted ==
  /\ cliChild = "up" /\ ~completed /\ "turn/interrupt" \in pending
  /\ pending' = pending \ {"turn/interrupt"}
  /\ stop' = "returned" /\ killed' = TRUE
  /\ UNCHANGED <<provider, cliChild, startup, resumes, turnId, chainVars, endVars, mcpVars>>
-----------------------------------------------------------------------------
(* The tools of opencode *)

\* handleMcpRequest, tools/call: 401 without a registered token.  A request may
\* be read behind the exit of the child that sent it.
McpCall(c) ==
  /\ ~Codex /\ cliChild # "failed" /\ mcp[c] = "no"
  /\ mcp' = [mcp EXCEPT ![c] = IF token THEN "running" ELSE "refused"]
  /\ UNCHANGED <<provider, cliChildVars, startVars, chainVars, endVars, stop, token>>

\* It outlives the turn if it must: nothing cancels a call that was admitted.
McpAnswer(c) ==
  /\ mcp[c] = "running"
  /\ mcp' = [mcp EXCEPT ![c] = "over"]
  /\ UNCHANGED <<provider, cliChildVars, startVars, chainVars, endVars, stop, token>>

CliNext ==
  \/ \E method \in Waiting, ok \in BOOLEAN : Respond(method, ok)
  \/ \E b \in BOOLEAN : SessionSaved(b) \/ TurnCompleted(b)
  \/ TurnStarted \/ ErrorLine \/ RunTask \/ SpawnFailed \/ Finish \/ Interrupt \/ Interrupted
  \/ \E task \in {"text", "tool"} : Line(task)
  \/ \E code \in {0, 1} : Exit(code)
  \/ \E c \in McpCalls : McpCall(c) \/ McpAnswer(c)

CliSpec == CliInit /\ [][CliNext]_cliVars
-----------------------------------------------------------------------------
(* Properties *)

\* Nobody waits for an answer of a process that is gone: requests are rejected,
\* the turn has its end, an interrupt returns.
NobodyWaitsForTheDead ==
  cliChild = "gone" => pending = {} /\ startup \notin Waiting /\ settled /\ stop # "asking"

\* Only a living codex that does not answer holds an interrupt back, whether the
\* rest of the turn is over or not.
OnlySilenceHoldsInterrupt ==
  /\ stop = "asking" => cliChild = "up" /\ "turn/interrupt" \in pending
  /\ stop = "returned" => killed

\* A turn is done when all that was read before its end has been stored, and it
\* leaves no codex process behind that was not killed and no token.  What opencode
\* wrote last and was not read before its exit may be missing.
DoneIsDone ==
  completed => ranOf >= early /\ ~token /\ (Codex => killed)

\* Tools answer no one from outside the turn: a call is admitted before the turn
\* is done.
ToolsEndWithTurn ==
  [][\A c \in McpCalls : mcp[c] = "no" /\ mcp'[c] = "running" => ~completed]_cliVars
=============================================================================
