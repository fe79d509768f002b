----------------------------- MODULE AgentTurn -----------------------------
(***************************************************************************)
(* One chat turn of dbchat and the database writes the model proposes in   *)
(* it: AgentService.send / abort / resolveApproval, runTurn and            *)
(* proposeWrite (agent/session.ts), the write gate (agent/writeGate.ts)    *)
(* and the part of the repositories they read and write.                   *)
(*                                                                         *)
(* Every await of the code is a boundary between two actions, so turns,    *)
(* tool calls, RPC handlers and a crash of the server interleave at the    *)
(* awaits.  A turn is named by its assistant message id, a proposed write  *)
(* by its approval id.  The text of a statement is that identity too: the  *)
(* id, the thread and the SQL of an approval are created together and the  *)
(* gate compares exactly these.                                            *)
(***************************************************************************)
EXTENDS Naturals, FiniteSets

CONSTANTS
  Threads,        \* chat threads
  Conns,          \* saved database connections
  Turns,          \* message ids: one per chat.send that claims a thread
  Calls,          \* propose_write invocations
  ConnOf,         \* [Threads -> Conns]: a thread never changes connection
  SingleWrites,   \* the calls whose SQL is exactly one write or DDL statement
  Kinds,          \* providers in use, out of AllKinds
  StoreMayFail,   \* may a sqlite statement die (disk full, database locked)?
  MaxCrashes,     \* bound: server crashes in one behaviour
  UserOps,        \* what else the user does meanwhile, out of AllUserOps
  NoTurn, NoThread, NoConn

AllKinds == {"anthropic", "openai", "opencode"}

AllUserOps == {"policy", "deleteThread", "deleteConnection"}

ASSUME ConstantsAssumption ==
  /\ ConnOf \in [Threads -> Conns]
  /\ SingleWrites \subseteq Calls
  /\ Kinds \subseteq AllKinds
  /\ StoreMayFail \in BOOLEAN
  /\ UserOps \subseteq AllUserOps
  /\ MaxCrashes \in Nat
  /\ NoTurn \notin Turns
  /\ NoThread \notin Threads
  /\ NoConn \notin Conns

VARIABLES
  \* -- sqlite: survives a crash ------------------------------------------
  conns,             \* rows of connections
  readOnlyForAi,     \* connections.read_only_for_ai
  threads,           \* rows of threads
  approval,          \* approvals.status, "none" where there is no row
  saved,             \* assistant messages with a row
  openCards,         \* the cards a saved message shows as still pending
  \* -- the user's database ------------------------------------------------
  applied,           \* writes that changed it
  \* -- server memory: turns -----------------------------------------------
  turn,              \* where runTurn / send stands for a message id
  turnThread, kind,  \* its thread and provider
  activeTurns,       \* AgentServiceLive: thread -> turn
  exposed,           \* turns whose entry there holds a working interrupt
  aborting,          \* turns whose interrupt has released the approvals
  signalled,         \* turns whose provider has been told to stop
  barrier,           \* calls the end of a codex turn waits for
  \* -- server memory: tool calls ------------------------------------------
  call,              \* where proposeWrite / executeWrite stands
  callTurn,          \* the turn that made the call
  before,            \* calls ahead of it in the codex callbackChain
  carded,            \* calls that were given an approvalId
  pendingApprovals,  \* AgentServiceLive: the map of waiting approvals
  decision,          \* the Deferred of a call
  outcome,           \* `approved` of a call, once its wait is over
  grant,             \* why the gate let a call through
  result,            \* how the executor came back
  shown,             \* the last status the approval card was sent
  late,              \* history: calls begun after their turn's message was built
  crashes

storeVars == <<conns, readOnlyForAi, threads, approval, saved, openCards>>
turnVars  == <<turn, turnThread, kind, activeTurns, exposed, aborting, signalled, barrier>>
callVars  == <<call, callTurn, before, carded, pendingApprovals, decision,
               outcome, grant, result, shown, late>>
vars == <<storeVars, turnVars, callVars, applied, crashes>>

TurnStates == {"idle", "claimed", "dropped", "forked", "preparing", "running",
               "settled", "closing", "saved", "announced", "failing", "failed",
               "lost"}

CallStates == {"idle", "queued", "policy", "create", "announce", "waiting",
               "woken", "rejecting", "rejected", "approving", "approved",
               "gate", "check", "acquire", "run", "record", "report", "done",
               "lost"}

Statuses == {"none", "pending", "approved", "rejected", "executed", "failed"}
Answers  == {"none", "yes", "no"}

TypeOK ==
  /\ conns \subseteq Conns
  /\ readOnlyForAi \in [Conns -> BOOLEAN]
  /\ threads \subseteq Threads
  /\ approval \in [Calls -> Statuses]
  /\ saved \subseteq Turns
  /\ openCards \in [Turns -> SUBSET Calls]
  /\ applied \subseteq Calls
  /\ turn \in [Turns -> TurnStates]
  /\ turnThread \in [Turns -> Threads \cup {NoThread}]
  /\ kind \in [Turns -> AllKinds \cup {"none"}]
  /\ activeTurns \in [Threads -> Turns \cup {NoTurn}]
  /\ exposed \subseteq Turns
  /\ aborting \subseteq Turns
  /\ signalled \subseteq Turns
  /\ barrier \in [Turns -> SUBSET Calls]
  /\ call \in [Calls -> CallStates]
  /\ callTurn \in [Calls -> Turns \cup {NoTurn}]
  /\ before \in [Calls -> SUBSET Calls]
  /\ carded \subseteq Calls
  /\ pendingApprovals \subseteq Calls
  /\ decision \in [Calls -> Answers]
  /\ outcome \in [Calls -> Answers]
  /\ grant \in [Calls -> {"none", "user", "policy"}]
  /\ result \in [Calls -> {"none", "ok", "err"}]
  /\ shown \in [Calls -> Statuses]
  /\ late \subseteq Calls
  /\ crashes \in 0 .. MaxCrashes

Init ==
  /\ conns = Conns
  /\ readOnlyForAi \in [Conns -> BOOLEAN]
  /\ threads = Threads
  /\ approval = [c \in Calls |-> "none"]
  /\ saved = {}
  /\ openCards = [m \in Turns |-> {}]
  /\ applied = {}
  /\ turn = [m \in Turns |-> "idle"]
  /\ turnThread = [m \in Turns |-> NoThread]
  /\ kind = [m \in Turns |-> "none"]
  /\ activeTurns = [t \in Threads |-> NoTurn]
  /\ exposed = {}
  /\ aborting = {}
  /\ signalled = {}
  /\ barrier = [m \in Turns |-> {}]
  /\ call = [c \in Calls |-> "idle"]
  /\ callTurn = [c \in Calls |-> NoTurn]
  /\ before = [c \in Calls |-> {}]
  /\ carded = {}
  /\ pendingApprovals = {}
  /\ decision = [c \in Calls |-> "none"]
  /\ outcome = [c \in Calls |-> "none"]
  /\ grant = [c \in Calls |-> "none"]
  /\ result = [c \in Calls |-> "none"]
  /\ shown = [c \in Calls |-> "none"]
  /\ late = {}
  /\ crashes = 0

-----------------------------------------------------------------------------
(* Helpers *)

CallsOf(m)   == {c \in Calls : callTurn[c] = m}
ThreadOf(c)  == turnThread[callTurn[c]]
Finished     == {c \in Calls : call[c] \in {"done", "lost"}}

\* Tool calls made so far, plus any text the model wrote, fill the message.
HasToolPart(m) == \E c \in CallsOf(m) : kind[m] = "anthropic" \/ call[c] # "queued"

\* UPDATE approvals ... WHERE id = c: no effect once the row is gone.
SetStatus(c, s) == [approval EXCEPT ![c] = IF @ = "none" THEN @ ELSE s]

MoveTurn(m, from, to) ==
  /\ turn[m] = from
  /\ turn' = [turn EXCEPT ![m] = to]

MoveCall(c, from, to) ==
  /\ call[c] = from
  /\ call' = [call EXCEPT ![c] = to]

OnlyTurnMoves ==
  UNCHANGED <<storeVars, callVars, applied, crashes, turnThread, kind, activeTurns,
              exposed, aborting, signalled, barrier>>

OnlyCallMoves ==
  UNCHANGED <<storeVars, turnVars, applied, crashes, callTurn, before, carded,
              pendingApprovals, decision, outcome, grant, result, shown, late>>

-----------------------------------------------------------------------------
(* A turn: AgentServiceLive.send, then runTurn in the server's scope       *)

\* Mutant: no busy check.
FreeOrNot(t) == TRUE

Free(t) == activeTurns[t] = NoTurn

\* The busy check and the claim are one synchronous step; the thread and its
\* connection were read before it and the placeholder interrupt does nothing.
SendClaim(m, t) ==
  /\ t \in threads
  /\ Free(t)
  /\ MoveTurn(m, "idle", "claimed")
  /\ turnThread' = [turnThread EXCEPT ![m] = t]
  /\ \E k \in Kinds : kind' = [kind EXCEPT ![m] = k]
  /\ activeTurns' = [activeTurns EXCEPT ![t] = m]
  /\ UNCHANGED <<storeVars, callVars, applied, crashes, exposed, aborting, signalled, barrier>>

\* The model is written to the thread row when it changed; then the turn is
\* forked and no longer depends on the stream of the send.
SendFork(m) ==
  /\ MoveTurn(m, "claimed", "forked")
  /\ OnlyTurnMoves

\* setThreadModel dies, or the client of the send goes away and its fiber is
\* interrupted, before the fork: nothing takes the claim back.
SendDies(m) ==
  /\ MoveTurn(m, "claimed", "dropped")
  /\ OnlyTurnMoves

\* Step 1 of runTurn.  The insert dies when the thread row is gone.
PersistUser(m) ==
  /\ \/ turnThread[m] \in threads /\ MoveTurn(m, "forked", "preparing")
     \/ /\ StoreMayFail \/ turnThread[m] \notin threads
        /\ MoveTurn(m, "forked", "failing")
  /\ OnlyTurnMoves

\* The schema summary is best effort; then the provider starts and the
\* placeholder is replaced by an interrupt that works.
StartProvider(m) ==
  /\ MoveTurn(m, "preparing", "running")
  /\ exposed' = exposed \cup {m}
  /\ UNCHANGED <<storeVars, callVars, applied, crashes, turnThread, kind,
                 activeTurns, aborting, signalled, barrier>>

\* No CLI on PATH: Error, touchThread, and nothing to save.
NoBinary(m) ==
  /\ kind[m] # "anthropic"
  /\ MoveTurn(m, "preparing", "saved")
  /\ OnlyTurnMoves

\* turn/completed, the child's exit, or the end of the SDK's stream.  The
\* codex driver's end() waits for the callbackChain as it is at this moment.
ProviderStops(m) ==
  /\ MoveTurn(m, "running", "settled")
  /\ barrier' = [barrier EXCEPT ![m] =
                   IF kind[m] = "openai" THEN CallsOf(m) \ Finished ELSE {}]
  /\ UNCHANGED <<storeVars, callVars, applied, crashes, turnThread, kind,
                 activeTurns, exposed, aborting, signalled>>

\* Mutants: end() without the chain; TurnDone without the assistant message.
FinishTurnAtOnce(m) == MoveTurn(m, "settled", "closing") /\ OnlyTurnMoves
FinishTurnUnsaved(m) ==
  /\ barrier[m] \subseteq Finished
  /\ MoveTurn(m, "settled", "saved")
  /\ OnlyTurnMoves

\* `done` resolves; runTurn resumes.
FinishTurn(m) ==
  /\ barrier[m] \subseteq Finished
  /\ MoveTurn(m, "settled", "closing")
  /\ OnlyTurnMoves

\* The assistant message is inserted when it has parts, with the cards as
\* they are now.  The insert dies when the thread row is gone.
PersistAssistant(m) ==
  /\ \/ /\ turnThread[m] \in threads
        /\ MoveTurn(m, "closing", "saved")
        /\ saved' = saved \cup {m}
        /\ openCards' = [openCards EXCEPT ![m] = {c \in CallsOf(m) : shown[c] = "pending"}]
     \/ /\ ~ HasToolPart(m)
        /\ MoveTurn(m, "closing", "saved")
        /\ UNCHANGED <<saved, openCards>>
     \/ /\ StoreMayFail \/ turnThread[m] \notin threads
        /\ MoveTurn(m, "closing", "failing")
        /\ UNCHANGED <<saved, openCards>>
  /\ UNCHANGED <<conns, readOnlyForAi, threads, approval, callVars, applied,
                 crashes, turnThread, kind, activeTurns, exposed, aborting, signalled,
                 barrier>>

\* TurnDone is published.
AnnounceDone(m) ==
  /\ MoveTurn(m, "saved", "announced")
  /\ OnlyTurnMoves

\* A defect inside runTurn: Error and TurnDone are published by send.
AnnounceCrash(m) ==
  /\ MoveTurn(m, "failing", "failed")
  /\ OnlyTurnMoves

\* Mutant: the claim is released on the success path only.
EndedWell(m) == turn[m] = "announced"

Ended(m) == turn[m] \in {"announced", "failed"}

\* The finalizer of the forked turn.
ReleaseClaim(m) ==
  /\ Ended(m)
  /\ activeTurns[turnThread[m]] = m
  /\ activeTurns' = [activeTurns EXCEPT ![turnThread[m]] = NoTurn]
  /\ UNCHANGED <<storeVars, callVars, applied, crashes, turn, turnThread, kind,
                 exposed, aborting, signalled, barrier>>

\* AgentServiceLive.abort with a running turn: every approval of the thread
\* that waits now is answered no.  Before StartProvider the handler finds the
\* placeholder and changes nothing, which is a stuttering step.
Abort(m) ==
  LET t == turnThread[m]
      released == {c \in pendingApprovals : ThreadOf(c) = t /\ decision[c] = "none"}
  IN
  /\ t \in threads
  /\ activeTurns[t] = m
  /\ m \in exposed
  /\ decision' = [c \in Calls |-> IF c \in released THEN "no" ELSE decision[c]]
  /\ aborting' = aborting \cup {m}
  /\ UNCHANGED <<storeVars, applied, crashes, turn, turnThread, kind,
                 activeTurns, exposed, signalled, barrier, call, callTurn, before, carded,
                 pendingApprovals, outcome, grant, result, shown, late>>

\* handle.interrupt(): the provider is asked to stop and its process killed.
Interrupt(m) ==
  /\ m \in aborting \ signalled
  /\ signalled' = signalled \cup {m}
  /\ UNCHANGED <<storeVars, callVars, applied, crashes, turn, turnThread, kind,
                 activeTurns, exposed, aborting, barrier>>

-----------------------------------------------------------------------------
(* A proposed write: invokeDbchatTool -> proposeWrite -> executeWrite      *)

\* The model calls propose_write.  Codex calls wait in the callbackChain; lines
\* of its child are read, and the MCP session of OpenCode is open, until the
\* chain that was there at end() is through.
Propose(m, c) ==
  /\ \/ turn[m] = "running"
     \/ turn[m] = "settled" /\ kind[m] = "openai" /\ ~ (barrier[m] \subseteq Finished)
     \/ turn[m] = "settled" /\ kind[m] = "opencode"
  /\ MoveCall(c, "idle", "queued")
  /\ callTurn' = [callTurn EXCEPT ![c] = m]
  /\ before' = [before EXCEPT ![c] =
                  IF kind[m] = "openai" THEN CallsOf(m) \ Finished ELSE {}]
  /\ UNCHANGED <<storeVars, turnVars, applied, crashes, carded,
                 pendingApprovals, decision, outcome, grant, result, shown, late>>

StartCall(c) ==
  /\ MoveCall(c, "queued", "policy")
  /\ before[c] \subseteq Finished
  /\ late' = IF turn[callTurn[c]] \in {"running", "settled", "closing"}
             THEN late ELSE late \cup {c}
  /\ UNCHANGED <<storeVars, turnVars, applied, crashes, callTurn, before, carded,
                 pendingApprovals, decision, outcome, grant, result, shown>>

\* writeApprovalRequired fails closed.  The id, the Deferred and the entry of
\* pendingApprovals are made synchronously with the answer.
ReadPolicy(c) ==
  LET k == ConnOf[ThreadOf(c)] IN
  /\ \/ /\ MoveCall(c, "policy", "gate")
        /\ k \in conns /\ ~ readOnlyForAi[k]
        /\ UNCHANGED <<carded, pendingApprovals>>
     \/ /\ MoveCall(c, "policy", "create")
        /\ k \notin conns \/ readOnlyForAi[k]
        /\ carded' = carded \cup {c}
        /\ pendingApprovals' = pendingApprovals \cup {c}
  /\ UNCHANGED <<storeVars, turnVars, applied, crashes, callTurn, before,
                 decision, outcome, grant, result, shown, late>>

\* INSERT INTO approvals.  It dies on the foreign key when the thread is gone:
\* the tool call fails and its entry of pendingApprovals stays.
CreateApproval(c) ==
  /\ \/ /\ MoveCall(c, "create", "announce")
        /\ ThreadOf(c) \in threads
        /\ approval' = [approval EXCEPT ![c] = "pending"]
     \/ /\ MoveCall(c, "create", "done")
        /\ StoreMayFail \/ ThreadOf(c) \notin threads
        /\ UNCHANGED approval
  /\ UNCHANGED <<conns, readOnlyForAi, threads, saved, openCards, turnVars,
                 applied, crashes, callTurn, before, carded, pendingApprovals,
                 decision, outcome, grant, result, shown, late>>

\* ApprovalRequested reaches the hub and the message being built.
AnnounceRequest(c) ==
  /\ MoveCall(c, "announce", "waiting")
  /\ shown' = [shown EXCEPT ![c] = "pending"]
  /\ UNCHANGED <<storeVars, turnVars, applied, crashes, callTurn, before, carded,
                 pendingApprovals, decision, outcome, grant, result, late>>

\* Mutant: the last answer wins.
ResolveApprovalAgain(c, answer) ==
  /\ shown[c] # "none"
  /\ c \in pendingApprovals
  /\ decision' = [decision EXCEPT ![c] = answer]
  /\ UNCHANGED <<storeVars, turnVars, applied, crashes, call, callTurn, before,
                 carded, pendingApprovals, outcome, grant, result, shown, late>>

\* resolveApproval: an id that is not pending is NotFound and changes nothing,
\* a decision already made is kept (Deferred.succeed on a done Deferred).
ResolveApproval(c, answer) ==
  /\ shown[c] # "none"
  /\ c \in pendingApprovals
  /\ decision[c] = "none"
  /\ decision' = [decision EXCEPT ![c] = answer]
  /\ UNCHANGED <<storeVars, turnVars, applied, crashes, call, callTurn, before,
                 carded, pendingApprovals, outcome, grant, result, shown, late>>

EndWait(c, answer) ==
  /\ MoveCall(c, "waiting", "woken")
  /\ outcome' = [outcome EXCEPT ![c] = answer]
  /\ UNCHANGED <<storeVars, turnVars, applied, crashes, callTurn, before, carded,
                 pendingApprovals, decision, grant, result, shown, late>>

\* Deferred.await resumes with the decision ...
Wake(c) == decision[c] # "none" /\ EndWait(c, decision[c])

\* Mutants: a timeout that counts as consent, no timeout at all.
TimeoutApproves(c) == decision[c] = "none" /\ EndWait(c, "yes")
TimeoutNever(c)    == FALSE

\* ... or the ten minutes pass first; an answer may still arrive before Settle.
Timeout(c) == decision[c] = "none" /\ EndWait(c, "no")

\* Mutant: the entry of pendingApprovals is not deleted.
SettleKeepsEntry(c) ==
  /\ MoveCall(c, "woken", IF outcome[c] = "yes" THEN "approving" ELSE "rejecting")
  /\ OnlyCallMoves

\* Effect.ensuring: the approval leaves the map whichever side won.
Settle(c) ==
  /\ MoveCall(c, "woken", IF outcome[c] = "yes" THEN "approving" ELSE "rejecting")
  /\ pendingApprovals' = pendingApprovals \ {c}
  /\ UNCHANGED <<storeVars, turnVars, applied, crashes, callTurn, before, carded,
                 decision, outcome, grant, result, shown, late>>

\* The status reaches sqlite before the card; a statement that dies ends the
\* call as a tool error and leaves the row as it was.
RecordStatus(c, from, to, status) ==
  /\ \/ /\ MoveCall(c, from, to)
        /\ approval' = SetStatus(c, status)
     \/ /\ StoreMayFail
        /\ MoveCall(c, from, "done")
        /\ UNCHANGED approval
  /\ UNCHANGED <<conns, readOnlyForAi, threads, saved, openCards, turnVars,
                 applied, crashes, callTurn, before, carded, pendingApprovals,
                 decision, outcome, grant, result, shown, late>>

ShowStatus(c, from, to, status) ==
  /\ MoveCall(c, from, to)
  /\ shown' = [shown EXCEPT ![c] = status]
  /\ UNCHANGED <<storeVars, turnVars, applied, crashes, callTurn, before, carded,
                 pendingApprovals, decision, outcome, grant, result, late>>

RecordRejected(c) == RecordStatus(c, "rejecting", "rejected", "rejected")
ShowRejected(c)   == ShowStatus(c, "rejected", "done", "rejected")
RecordApproved(c) == RecordStatus(c, "approving", "approved", "approved")
ShowApproved(c)   == ShowStatus(c, "approved", "gate", "approved")

\* A refusal of the gate or of the driver: proposeWrite records it when there
\* is an approval row to record it in.
Refuse(c, from) ==
  /\ MoveCall(c, from, IF c \in carded THEN "record" ELSE "done")
  /\ result' = [result EXCEPT ![c] = "err"]
  /\ UNCHANGED <<storeVars, turnVars, applied, crashes, callTurn, before, carded,
                 pendingApprovals, decision, outcome, grant, shown, late>>

\* Mutant: the gate relies on the policy proposeWrite has read.
AllowedBefore(k) == TRUE

Allowed(k) == ~ readOnlyForAi[k]

\* makeAiWriteExecutor reads the thread and its connection; without an
\* approval id the policy just read decides.
GateLoad(c) ==
  LET t == ThreadOf(c)
      k == ConnOf[t]
      found == t \in threads /\ k \in conns
  IN
  \/ /\ MoveCall(c, "gate", "check")
     /\ found /\ c \in carded
     /\ OnlyCallMoves
  \/ /\ MoveCall(c, "gate", "acquire")
     /\ found /\ c \notin carded /\ Allowed(k)
     /\ grant' = [grant EXCEPT ![c] = "policy"]
     /\ UNCHANGED <<storeVars, turnVars, applied, crashes, callTurn, before, carded,
                    pendingApprovals, decision, outcome, result, shown, late>>
  \/ /\ Refuse(c, "gate")
     /\ ~ found \/ (c \notin carded /\ ~ Allowed(k))

\* With an approval id the persisted row decides.
GateCheck(c) ==
  \/ /\ approval[c] = "approved"
     /\ MoveCall(c, "check", "acquire")
     /\ grant' = [grant EXCEPT ![c] = "user"]
     /\ UNCHANGED <<storeVars, turnVars, applied, crashes, callTurn, before, carded,
                    pendingApprovals, decision, outcome, result, shown, late>>
  \/ /\ approval[c] # "approved"
     /\ Refuse(c, "check")

\* acquireDriver, then exactly one write or DDL statement.
AcquireDriver(c) ==
  \/ /\ MoveCall(c, "acquire", "run")
     /\ ConnOf[ThreadOf(c)] \in conns
     /\ c \in SingleWrites
     /\ OnlyCallMoves
  \/ Refuse(c, "acquire")

\* collectQuery with readOnly: false.  The statement may fail, and it may fail
\* after the database committed it.
RunWrite(c) ==
  /\ MoveCall(c, "run", IF c \in carded THEN "record" ELSE "done")
  /\ \E res \in {"ok", "err"}, hit \in BOOLEAN :
       /\ res = "ok" => hit
       /\ result' = [result EXCEPT ![c] = res]
       /\ applied' = IF hit THEN applied \cup {c} ELSE applied
  /\ UNCHANGED <<storeVars, turnVars, crashes, callTurn, before, carded,
                 pendingApprovals, decision, outcome, grant, shown, late>>

\* Mutant: a failure recorded as a success.
VerdictAlwaysGood(c) == "executed"

Verdict(c) == IF result[c] = "ok" THEN "executed" ELSE "failed"

\* Mutant: the card is published before the row is stored.
ShowResultFirst(c) == ShowStatus(c, "record", "report", Verdict(c))

RecordResult(c) == RecordStatus(c, "record", "report", Verdict(c))
ShowResult(c)   == ShowStatus(c, "report", "done", Verdict(c))

-----------------------------------------------------------------------------
(* The user's other operations, and the server's death                     *)

\* connection.update with a new "Read-only for AI".
TogglePolicy(k) ==
  /\ "policy" \in UserOps
  /\ k \in conns
  /\ readOnlyForAi' = [readOnlyForAi EXCEPT ![k] = ~ @]
  /\ UNCHANGED <<conns, threads, approval, saved, openCards, turnVars, callVars,
                 applied, crashes>>

\* ON DELETE CASCADE takes the messages and the approvals of the threads.
DropThreads(gone) ==
  LET lost == {m \in Turns : turnThread[m] \in gone} IN
  /\ threads' = threads \ gone
  /\ approval' = [c \in Calls |-> IF callTurn[c] \in lost THEN "none" ELSE approval[c]]
  /\ saved' = saved \ lost
  /\ openCards' = [m \in Turns |-> IF m \in lost THEN {} ELSE openCards[m]]
  /\ UNCHANGED <<readOnlyForAi, turnVars, callVars, applied, crashes>>

DeleteThread(t) ==
  /\ "deleteThread" \in UserOps
  /\ t \in threads
  /\ DropThreads({t})
  /\ UNCHANGED conns

DeleteConnection(k) ==
  /\ "deleteConnection" \in UserOps
  /\ k \in conns
  /\ conns' = conns \ {k}
  /\ DropThreads({t \in threads : ConnOf[t] = k})

\* Everything in memory is gone; statements already sent are finished, or not,
\* by their databases.  Nothing is read back at the next start.
Crash ==
  /\ crashes < MaxCrashes
  /\ crashes' = crashes + 1
  /\ \E S \in SUBSET {c \in Calls : call[c] = "run"} : applied' = applied \cup S
  /\ turn' = [m \in Turns |-> IF turn[m] = "idle" THEN "idle" ELSE "lost"]
  /\ activeTurns' = [t \in Threads |-> NoTurn]
  /\ exposed' = {}
  /\ aborting' = {}
  /\ signalled' = {}
  /\ barrier' = [m \in Turns |-> {}]
  /\ call' = [c \in Calls |-> IF call[c] \in {"idle", "done"} THEN call[c] ELSE "lost"]
  /\ pendingApprovals' = {}
  /\ UNCHANGED <<storeVars, turnThread, kind, callTurn, before, carded,
                 decision, outcome, grant, result, shown, late>>

-----------------------------------------------------------------------------
TurnStep(m) ==
  \/ SendFork(m)      \/ SendDies(m)         \/ PersistUser(m)
  \/ StartProvider(m) \/ NoBinary(m)         \/ FinishTurn(m)
  \/ AnnounceDone(m)  \/ PersistAssistant(m) \/ AnnounceCrash(m)
  \/ ReleaseClaim(m)

CallStep(c) ==
  \/ StartCall(c)      \/ ReadPolicy(c)   \/ CreateApproval(c) \/ AnnounceRequest(c)
  \/ Wake(c)           \/ Timeout(c)      \/ Settle(c)
  \/ RecordRejected(c) \/ ShowRejected(c) \/ RecordApproved(c) \/ ShowApproved(c)
  \/ GateLoad(c)       \/ GateCheck(c)    \/ AcquireDriver(c)  \/ RunWrite(c)
  \/ RecordResult(c)   \/ ShowResult(c)

Next ==
  \/ \E m \in Turns : \/ \E t \in Threads : SendClaim(m, t)
                      \/ TurnStep(m)
                      \/ ProviderStops(m)
                      \/ Abort(m)
                      \/ Interrupt(m)
                      \/ \E c \in Calls : Propose(m, c)
  \/ \E c \in Calls : \/ CallStep(c)
                      \/ \E answer \in {"yes", "no"} : ResolveApproval(c, answer)
  \/ \E t \in Threads : DeleteThread(t)
  \/ \E k \in Conns : TogglePolicy(k) \/ DeleteConnection(k)
  \/ Crash

Spec == Init /\ [][Next]_vars

\* The server runs its fibers and timers, sqlite answers, and a write comes
\* back (executeWrite gives the driver 30 seconds).  A user owes nothing, and
\* neither does a provider, except that the OpenCode process, which interrupt
\* simply kills, exits once it was signalled; Claude and Codex are asked over
\* their own protocol first and may never answer.
Killed(m) == kind[m] = "opencode" /\ m \in signalled

Fairness ==
  /\ \A m \in Turns : /\ WF_vars(TurnStep(m))
                      /\ WF_vars(kind[m] = "opencode" /\ Interrupt(m))
                      /\ WF_vars(Killed(m) /\ ProviderStops(m))
  /\ \A c \in Calls : WF_vars(CallStep(c))

FairSpec == Spec /\ Fairness

-----------------------------------------------------------------------------
(* Safety *)

InProgress(m) ==
  turn[m] \in {"claimed", "forked", "preparing", "running", "settled",
               "closing", "saved", "failing"}

\* Two sends never run a turn on one thread at the same time: the claim in
\* AgentServiceLive.send outlasts every step of the turn that made it, however
\* sends, crashes inside the turn and releases interleave.
OneTurnPerThread ==
  \A m, n \in Turns :
    InProgress(m) /\ InProgress(n) /\ turnThread[m] = turnThread[n] => m = n

\* A write that the user or an abort answered no, or that ran out of time,
\* never changes the database: not with the policy switched off meanwhile, not
\* with a second answer, not after the turn or the thread is gone.
NoMeansNo ==
  \A c \in Calls : decision[c] = "no" \/ outcome[c] = "no" => c \notin applied

\* The approvals table never contradicts the database: a row still pending or
\* rejected belongs to a write that did not happen, an executed one to a write
\* that did, and a write that was put in front of the user and happened has,
\* while its thread exists, a row that says approved, executed or failed.
RowTellsTheTruth ==
  \A c \in Calls :
    /\ approval[c] \in {"pending", "rejected"} => c \notin applied
    /\ approval[c] = "executed" => c \in applied
    /\ c \in applied /\ c \in carded =>
         approval[c] \in {"none", "approved", "executed", "failed"}

\* The card the user sees never runs ahead of sqlite: proposeWrite stores a
\* status before it publishes it, so a reload cannot show an earlier outcome.
CardFollowsRow ==
  \A c \in Calls : approval[c] # "none" =>
    CASE shown[c] = "approved" -> approval[c] \in {"approved", "executed", "failed"}
      [] shown[c] \in {"rejected", "executed", "failed"} -> approval[c] = shown[c]
      [] OTHER -> TRUE

\* "Persist BEFORE announcing completion so messages.list is consistent": when
\* TurnDone has been published by runTurn, a turn that called a tool has its
\* assistant message in sqlite, unless the thread itself was deleted.  Only calls
\* that begin after the message was built escape it.
DoneImpliesSaved ==
  \A m \in Turns : turn[m] = "announced" /\ turnThread[m] \in threads =>
    m \in saved \/ \A c \in CallsOf(m) \ late : call[c] = "queued"

\* The message a codex turn saves shows an approval card as pending only if its
\* row is pending too (or was deleted): `done` waits for the chain, so an answer
\* that arrives while the turn ends is in the message.  Calls that reached the
\* chain after the provider stopped are not waited for.
CodexSavesSettledCards ==
  \A m \in saved : \A c \in openCards[m] \cap barrier[m] :
    approval[c] \in {"pending", "none"}

\* An approval that is pending in sqlite and still accepted by resolveApproval
\* has its tool call waiting for the answer.
PendingHasWaiter ==
  \A c \in pendingApprovals : approval[c] = "pending" =>
    call[c] \in {"announce", "waiting", "woken"}

Terminal == {"rejected", "executed", "failed"}

\* Decisions are final: the first answer to an approval stays, whoever gives a
\* second one, and a finished row of approvals never changes again except by
\* the deletion of its thread.
DecisionsAreFinal ==
  [][\A c \in Calls :
       /\ decision[c] # "none" => decision'[c] = decision[c]
       /\ approval[c] \in Terminal => approval'[c] \in {approval[c], "none"}]_vars

\* Writes that came from the model are authorized as AiWriteAuthorization says.
Authorization ==
  INSTANCE AiWriteAuthorization WITH
    askFirst <- readOnlyForAi,
    target   <- [c \in Calls |-> IF callTurn[c] = NoTurn THEN NoConn
                                 ELSE ConnOf[ThreadOf(c)]],
    answer   <- outcome,
    ran      <- applied

\* Every behaviour of turns, tool calls, abort, deletions and crashes is one the
\* promise allows: the writes run at most once each, a carded one by the user's
\* first yes only, an uncarded one by a policy that was off when the gate looked.
WritesAreAuthorized == Authorization!Spec

-----------------------------------------------------------------------------
(* What makes the safety properties inductive (proved in AgentTurnProofs)   *)

\* Where a call stands when its row has a status.
RowPhases(status) ==
  CASE status = "none"     -> CallStates
    [] status = "pending"  -> {"announce", "waiting", "woken", "rejecting",
                               "approving", "done", "lost"}
    [] status = "approved" -> {"approved", "gate", "check", "acquire", "run",
                               "record", "done", "lost"}
    [] status = "rejected" -> {"rejected", "done", "lost"}
    [] OTHER               -> {"report", "done", "lost"}

\* A call's own state: what it has been granted and answered at each step.
CallInv(c) ==
  /\ call[c] = "idle" <=> callTurn[c] = NoTurn
  /\ call[c] # "idle" => turnThread[callTurn[c]] # NoThread
  /\ call[c] \in RowPhases(approval[c])
  /\ call[c] \in {"idle", "queued", "policy"} =>
       c \notin carded /\ outcome[c] = "none" /\ grant[c] = "none"
  /\ call[c] \in {"create", "announce", "waiting"} =>
       c \in carded /\ outcome[c] = "none" /\ grant[c] = "none"
  /\ call[c] = "woken" => c \in carded /\ outcome[c] # "none" /\ grant[c] = "none"
  /\ call[c] \in {"rejecting", "rejected"} => outcome[c] = "no" /\ grant[c] = "none"
  /\ call[c] \in {"approving", "approved"} => outcome[c] = "yes" /\ grant[c] = "none"
  /\ call[c] = "gate" => grant[c] = "none" /\ (c \in carded => outcome[c] = "yes")
  /\ call[c] = "check" => grant[c] = "none" /\ c \in carded /\ outcome[c] = "yes"
  /\ call[c] \in {"acquire", "run"} => grant[c] # "none" /\ c \notin applied
  /\ call[c] \in {"record", "report"} => outcome[c] = "yes" /\ result[c] # "none"
  /\ call[c] # "idle" /\ result[c] = "none" /\ c \in applied => call[c] = "lost"
  /\ result[c] = "ok" => c \in applied
  /\ c \in applied => grant[c] # "none"
  /\ grant[c] = "user" => c \in carded /\ outcome[c] = "yes"
  /\ grant[c] = "policy" => c \notin carded
  /\ approval[c] = "pending" => grant[c] = "none"
  /\ approval[c] = "rejected" => outcome[c] = "no"
  /\ approval[c] \in {"approved", "executed", "failed"} => outcome[c] = "yes"
  /\ approval[c] = "executed" => c \in applied
  /\ outcome[c] # "none" => c \in carded
  /\ outcome[c] = "yes" => decision[c] = "yes"
  /\ c \in pendingApprovals \/ decision[c] # "none" => c \in carded

\* A turn in progress holds the claim on its thread.
TurnInv(m) ==
  /\ turn[m] = "idle" <=> turnThread[m] = NoThread
  /\ InProgress(m) => activeTurns[turnThread[m]] = m

IInv ==
  /\ \A c \in Calls : CallInv(c)
  /\ \A m \in Turns : TurnInv(m)

\* What a card has shown agrees with the row, and an entry of pendingApprovals
\* whose call is over belongs to a row that was never inserted.
CardInv(c) ==
  /\ c \in pendingApprovals =>
       \/ call[c] \in {"create", "announce", "waiting", "woken"}
       \/ call[c] = "done" /\ approval[c] = "none"
  /\ approval[c] # "none" => c \in carded
  /\ call[c] \in {"idle", "queued", "policy", "create", "announce"} => shown[c] = "none"
  /\ shown[c] = "pending" =>
       call[c] \in {"waiting", "woken", "rejecting", "rejected", "approving", "approved",
                    "done", "lost"}
  /\ shown[c] = "pending" /\ call[c] = "done" => approval[c] \in {"none", "pending"}
  /\ shown[c] = "approved" =>
       outcome[c] = "yes" /\ approval[c] \in {"none", "approved", "executed", "failed"}
  /\ shown[c] \in Terminal =>
       call[c] \in {"done", "lost"} /\ approval[c] \in {"none", shown[c]}
  /\ call[c] = "report" => approval[c] \in {"none", Verdict(c)}
  /\ call[c] = "lost" => turn[callTurn[c]] = "lost"

\* A turn has no calls before it runs; from "closing" on it waits for none of
\* its barrier, and what it saves stays true of the calls of the barrier.
MessageInv(m) ==
  /\ barrier[m] \subseteq CallsOf(m)
  /\ turn[m] = "closing" => barrier[m] \subseteq Finished
  /\ turn[m] \in {"claimed", "forked", "preparing"} => CallsOf(m) = {}
  /\ m \in saved => turn[m] \in {"saved", "announced", "lost"}
  /\ m \in saved => \A c \in openCards[m] \cap barrier[m] :
                       call[c] = "done" /\ approval[c] \in {"pending", "none"}
  /\ turn[m] \in {"saved", "announced"} /\ turnThread[m] \in threads =>
       m \in saved \/ \A c \in CallsOf(m) \ late : call[c] = "queued"

JInv ==
  /\ \A c \in Calls : CardInv(c)
  /\ \A m \in Turns : MessageInv(m)

-----------------------------------------------------------------------------
(* Liveness *)

Released(m) == \A t \in Threads : activeTurns[t] # m

\* No tool call is left waiting for an approval: an answer, an abort or the
\* ten-minute timeout ends the wait and the call returns to the provider.
ApprovalSettles ==
  \A c \in Calls : call[c] = "waiting" ~> call[c] \in {"done", "lost"}

\* Once the provider has stopped, the turn ends and its thread accepts a new
\* send, even when a codex chain still holds approvals nobody answers.
SettledTurnEnds ==
  \A m \in Turns : turn[m] = "settled" ~>
    \/ turn[m] = "lost"
    \/ turn[m] \in {"announced", "failed"} /\ Released(m)

\* session.ts: neither an approval nor a turn waits for ever for its user.
NothingWaitsForEver == ApprovalSettles /\ SettledTurnEnds

\* An abort that found a working interrupt ends an OpenCode turn, whatever the
\* provider and its approvals were doing.
AbortEndsOpenCodeTurn ==
  \A m \in Turns : m \in aborting /\ kind[m] = "opencode" ~>
    Released(m)

-----------------------------------------------------------------------------
(* What a message says and the code does not do *)

\* AgentServiceLive.ts:105, to a send: "busy: a turn is already running on this
\* thread".
BusyMeansRunning ==
  \A t \in Threads : activeTurns[t] # NoTurn => turn[activeTurns[t]] # "dropped"
=============================================================================
