------------------------------- MODULE SqlRun -------------------------------
(***************************************************************************)
(* sql.run and sql.cancel: the handler, the registry of running fibers,    *)
(* the history, and the sessions of a pooled driver (postgres.ts or        *)
(* mysql.ts) that the run works on.                                        *)
(*                                                                         *)
(* A run is two fibers: the handler, which awaits, and the fiber of        *)
(* collect, which cancel interrupts.  A write has a third part, the        *)
(* promise of runWrite: interrupting the fiber that awaits it does not     *)
(* stop it.  One driver of one connection is modelled, for its life.       *)
(***************************************************************************)
EXTENDS Naturals, SequencesExt

CONSTANTS
  Runs,      \* calls of sql.run
  Cancels,   \* calls of sql.cancel
  RunIds,    \* run ids the calls share
  Sessions,  \* the connections of the pool, up to its limit (4 in the code)
  Dialects,  \* which drivers to look at, out of "postgres" and "mysql"
  NoRun, NoId, NoSession

ASSUME ConstantsAssumption ==
  /\ Dialects \subseteq {"postgres", "mysql"}
  /\ NoRun \notin Runs
  /\ NoId \notin RunIds
  /\ NoSession \notin Sessions

VARIABLES
  dialect,
  pc, request, runId,    \* of a run: its handler, what it asks for, its id
  fiber, intr, exit,     \* of its collect fiber: place, asked to stop?, result
  pid,                   \* the session it was given (processID, threadId)
  named,                 \* the runs whose columns have names
  writer,                \* the promise of its runWrite
  running,               \* makeRunRegistry: the stack of every run id
  history, answer,       \* its row of query_history, what its client was told
  cancel, target,        \* of a cancel: its place and the run it interrupts
  holder, tx, busy,      \* of a session: who has it, its transaction, and
                         \* whether the server is executing a read on it
  changed,               \* runs whose changes are in the database
  killed                 \* history: runs whose statement a kill has hit

handlerVars == <<pc, request, runId, history, answer>>
fiberVars   == <<fiber, exit, pid, named>>
cancelVars  == <<cancel, target>>
sessionVars == <<holder, tx, busy>>
dataVars    == <<changed, killed>>
\* What no step of a fiber or a promise touches.
callVars    == <<dialect, handlerVars, cancelVars, running, intr>>
vars == <<callVars, fiberVars, writer, sessionVars, dataVars>>

\* What a run asks for.  All but "write" carry readOnly: a select, a select
\* that calls a function which changes data (the classifier lets it pass), an
\* update, several statements.
ReadRequests == {"select", "hidden", "update", "batch"}
Requests     == ReadRequests \cup {"write"}
Outcomes     == {"ok", "error", "canceled"}

ReadOnly(r) == request[r] \in ReadRequests
Holds(r)    == pid[r] # NoSession /\ holder[pid[r]] = r
Free        == {s \in Sessions : holder[s] = NoRun}

\* When a step that waits for something else can be taken: the end of a fiber,
\* a session (pg gives up waiting after connectionTimeoutMillis, mysql2, with
\* waitForConnections, never does), a statement, or the promise of a write.
FiberIsOver(r)       == pc[r] = "await" /\ fiber[r] = "ended"
CancelIsOver(c)      == cancel[c] = "waiting" /\ fiber[target[c]] = "ended"
MayNotConnect        == Free # {} \/ dialect = "postgres"
StatementGoesOn(r)   == fiber[r] \in {"kill", "unwind"} /\ Holds(r) /\ pid[r] \in busy
StatementIsOver(r)   == fiber[r] = "unwind" /\ pid[r] \notin busy
WriteIsOver(r)       == fiber[r] = "write" /\ writer[r] \in {"done", "failed"}

\* Mutant: postgres cancels over its pool, too.
MayKillThroughPool(r) == fiber[r] = "kill" /\ Free # {}

\* pg_cancel_backend goes over a connection of its own, KILL QUERY over one of
\* the pool.
MayKill(r) == fiber[r] = "kill" /\ (dialect = "mysql" => Free # {})

\* A stack without a fiber that is on it once at most.
Without(q, r) ==
  IF \E i \in DOMAIN q : q[i] = r THEN RemoveAt(q, CHOOSE i \in DOMAIN q : q[i] = r) ELSE q

CallTypes ==
  /\ dialect \in Dialects
  /\ pc \in [Runs -> {"idle", "acquire", "await", "record", "done", "gone"}]
  /\ request \in [Runs -> Requests \cup {"none"}]
  /\ runId \in [Runs -> RunIds \cup {NoId}]
  /\ history \in [Runs -> Outcomes \cup {"none"}]
  /\ answer \in [Runs -> Outcomes \cup {"none"}]

CancelTypes ==
  /\ cancel \in [Cancels -> {"idle", "waiting", "returned", "notFound"}]
  /\ target \in [Cancels -> Runs \cup {NoRun}]
  /\ \A c \in Cancels : cancel[c] \in {"waiting", "returned"} => target[c] # NoRun
  /\ running \in [RunIds -> Seq(Runs)]
  /\ intr \in [Runs -> BOOLEAN]

FiberTypes ==
  /\ fiber \in [Runs -> {"none", "start", "connect", "begin", "read", "types", "kill", "unwind",
                         "write", "ended"}]
  /\ exit \in [Runs -> Outcomes \cup {"none"}]
  /\ pid \in [Runs -> Sessions \cup {NoSession}]
  /\ \A r \in Runs : fiber[r] \in {"begin", "read", "kill"} => pid[r] # NoSession
  /\ named \subseteq Runs
  /\ writer \in [Runs -> {"none", "connect", "exec", "commit", "rollback", "done", "failed"}]

SessionTypes ==
  /\ holder \in [Sessions -> Runs \cup {NoRun}]
  /\ tx \in [Sessions -> {"none", "read", "write"}]
  /\ busy \subseteq Sessions
  /\ changed \subseteq Runs
  /\ killed \subseteq Runs

TypeOK == CallTypes /\ CancelTypes /\ FiberTypes /\ SessionTypes

Init ==
  /\ dialect \in Dialects
  /\ pc = [r \in Runs |-> "idle"]
  /\ request = [r \in Runs |-> "none"]
  /\ runId = [r \in Runs |-> NoId]
  /\ fiber = [r \in Runs |-> "none"]
  /\ intr = [r \in Runs |-> FALSE]
  /\ exit = [r \in Runs |-> "none"]
  /\ pid = [r \in Runs |-> NoSession]
  /\ named = {}
  /\ writer = [r \in Runs |-> "none"]
  /\ running = [id \in RunIds |-> <<>>]
  /\ history = [r \in Runs |-> "none"]
  /\ answer = [r \in Runs |-> "none"]
  /\ cancel = [c \in Cancels |-> "idle"]
  /\ target = [c \in Cancels |-> NoRun]
  /\ holder = [s \in Sessions |-> NoRun]
  /\ tx = [s \in Sessions |-> "none"]
  /\ busy = {}
  /\ changed = {}
  /\ killed = {}

-----------------------------------------------------------------------------
(* The handler of sql.run.                                                 *)

\* guardMultiStatement answers at once; everything else acquires the driver.
StartRun(r, id, q) ==
  /\ pc[r] = "idle"
  /\ request' = [request EXCEPT ![r] = q]
  /\ runId' = [runId EXCEPT ![r] = id]
  /\ pc' = [pc EXCEPT ![r] = IF q = "batch" THEN "record" ELSE "acquire"]
  /\ exit' = [exit EXCEPT ![r] = IF q = "batch" THEN "error" ELSE @]
  /\ UNCHANGED <<dialect, history, answer, fiber, pid, named, intr, writer, running, cancelVars,
                 sessionVars, dataVars>>

\* The error of acquire passes through; nothing is recorded.
AcquireFails(r) ==
  /\ pc[r] = "acquire"
  /\ pc' = [pc EXCEPT ![r] = "done"]
  /\ answer' = [answer EXCEPT ![r] = "error"]
  /\ UNCHANGED <<dialect, request, runId, history, fiberVars, intr, writer, running, cancelVars,
                 sessionVars, dataVars>>

\* forkChild and register run without a break.
Fork(r) ==
  /\ pc[r] = "acquire"
  /\ pc' = [pc EXCEPT ![r] = "await"]
  /\ fiber' = [fiber EXCEPT ![r] = "start"]
  /\ running' = [running EXCEPT ![runId[r]] = Append(@, r)]
  /\ UNCHANGED <<dialect, request, runId, history, answer, exit, pid, named, intr, writer, cancelVars,
                 sessionVars, dataVars>>

Unregister(r) == running' = [running EXCEPT ![runId[r]] = Without(@, r)]

\* Mutant: a run stays registered when its fiber ends.
AwaitedOnly(r) ==
  /\ FiberIsOver(r)
  /\ pc' = [pc EXCEPT ![r] = "record"]
  /\ UNCHANGED <<dialect, request, runId, history, answer, fiberVars, intr, writer, running, cancelVars,
                 sessionVars, dataVars>>

\* Fiber.await returns, and ensuring unregisters.
Awaited(r) ==
  /\ FiberIsOver(r)
  /\ pc' = [pc EXCEPT ![r] = "record"]
  /\ Unregister(r)
  /\ UNCHANGED <<dialect, request, runId, history, answer, fiberVars, intr, writer, cancelVars,
                 sessionVars, dataVars>>

\* Writing the history is best effort, then the client is answered.
Record(r) ==
  /\ pc[r] = "record"
  /\ pc' = [pc EXCEPT ![r] = "done"]
  /\ \/ history' = [history EXCEPT ![r] = exit[r]]
     \/ UNCHANGED history
  /\ answer' = [answer EXCEPT ![r] = exit[r]]
  /\ UNCHANGED <<dialect, request, runId, fiberVars, intr, writer, running, cancelVars, sessionVars,
                 dataVars>>

\* The client goes away: the handler is interrupted, and with it its child.
\* A statement of the history that was under way may still take place.
Disconnect(r) ==
  /\ pc[r] \in {"acquire", "await", "record"}
  /\ pc' = [pc EXCEPT ![r] = "gone"]
  /\ intr' = [intr EXCEPT ![r] = @ \/ pc[r] = "await"]
  /\ Unregister(r)
  /\ \/ pc[r] = "record" /\ history' = [history EXCEPT ![r] = exit[r]]
     \/ UNCHANGED history
  /\ UNCHANGED <<dialect, request, runId, answer, fiberVars, writer, cancelVars, sessionVars,
                 dataVars>>

-----------------------------------------------------------------------------
(* sql.cancel: pop the newest run of the id, interrupt its fiber, and wait *)
(* until that has unwound.                                                 *)

Cancel(c, id) ==
  /\ cancel[c] = "idle" /\ running[id] # <<>>
  /\ cancel' = [cancel EXCEPT ![c] = "waiting"]
  /\ target' = [target EXCEPT ![c] = Last(running[id])]
  /\ intr' = [intr EXCEPT ![Last(running[id])] = TRUE]
  /\ running' = [running EXCEPT ![id] = Front(@)]
  /\ UNCHANGED <<dialect, handlerVars, fiberVars, writer, sessionVars, dataVars>>

CancelFindsNothing(c, id) ==
  /\ cancel[c] = "idle" /\ running[id] = <<>>
  /\ cancel' = [cancel EXCEPT ![c] = "notFound"]
  /\ UNCHANGED <<dialect, handlerVars, fiberVars, intr, writer, running, target, sessionVars, dataVars>>

\* Mutant: sql.cancel does not wait for the fiber to unwind.
CancelReturnsAtOnce(c) ==
  /\ cancel[c] = "waiting"
  /\ cancel' = [cancel EXCEPT ![c] = "returned"]
  /\ UNCHANGED <<dialect, handlerVars, fiberVars, intr, writer, running, target, sessionVars, dataVars>>

CancelReturns(c) ==
  /\ CancelIsOver(c)
  /\ cancel' = [cancel EXCEPT ![c] = "returned"]
  /\ UNCHANGED <<dialect, handlerVars, fiberVars, intr, writer, running, target, sessionVars, dataVars>>

-----------------------------------------------------------------------------
(* The fiber of collect: a read holds a session from connect to the end of *)
(* its scope.  An interrupt is taken wherever the fiber can be             *)
(* interrupted, and it turns every result into "canceled".                 *)

Ends(r, outcome) ==
  /\ fiber' = [fiber EXCEPT ![r] = "ended"]
  /\ exit' = [exit EXCEPT ![r] = IF intr[r] THEN "canceled" ELSE outcome]

\* The scope closes with the given result.
Unwinds(r, outcome) ==
  /\ fiber' = [fiber EXCEPT ![r] = "unwind"]
  /\ exit' = [exit EXCEPT ![r] = outcome]

\* What the function of a "hidden" select tries to change is refused by a
\* READ ONLY transaction, and rolled back with any other; without one it stays.
Refused(r) == request[r] = "hidden" /\ tx[pid[r]] = "read"
Executed(r) ==
  /\ busy' = busy \ {pid[r]}
  /\ changed' = IF request[r] = "hidden" /\ tx[pid[r]] = "none" THEN changed \cup {r} ELSE changed

Classify(r) ==
  /\ fiber[r] = "start" /\ ~intr[r]
  /\ \/ /\ request[r] = "write"
        /\ fiber' = [fiber EXCEPT ![r] = "write"]
        /\ writer' = [writer EXCEPT ![r] = "connect"]
        /\ UNCHANGED exit
     \/ request[r] = "update" /\ Ends(r, "error") /\ UNCHANGED writer
     \/ /\ request[r] \in {"select", "hidden"}
        /\ fiber' = [fiber EXCEPT ![r] = "connect"]
        /\ UNCHANGED <<exit, writer>>
  /\ UNCHANGED <<callVars, pid, named, sessionVars, dataVars>>

\* The acquisition of acquireRelease cannot be interrupted.
Connect(r, s) ==
  /\ fiber[r] = "connect" /\ s \in Free
  /\ holder' = [holder EXCEPT ![s] = r]
  /\ pid' = [pid EXCEPT ![r] = s]
  /\ fiber' = [fiber EXCEPT ![r] = IF intr[r] THEN "unwind" ELSE "begin"]
  /\ UNCHANGED <<callVars, exit, named, writer, tx, busy, dataVars>>

ConnectFails(r) ==
  /\ fiber[r] = "connect" /\ MayNotConnect
  /\ Ends(r, "error")
  /\ UNCHANGED <<callVars, pid, named, writer, sessionVars, dataVars>>

\* Mutant: the error of START TRANSACTION is ignored, like that of SET SESSION.
BeginMaybe(r) ==
  /\ fiber[r] = "begin" /\ ~intr[r]
  /\ tx' \in {tx, [tx EXCEPT ![pid[r]] = "read"]}
  /\ busy' = busy \cup {pid[r]}
  /\ fiber' = [fiber EXCEPT ![r] = "read"]
  /\ UNCHANGED <<callVars, exit, pid, named, writer, holder, dataVars>>

\* BEGIN READ ONLY, then the statement is sent.
Begin(r) ==
  /\ fiber[r] = "begin" /\ ~intr[r]
  /\ tx' = [tx EXCEPT ![pid[r]] = "read"]
  /\ busy' = busy \cup {pid[r]}
  /\ fiber' = [fiber EXCEPT ![r] = "read"]
  /\ UNCHANGED <<callVars, exit, pid, named, writer, holder, dataVars>>

BeginFails(r) ==
  /\ fiber[r] = "begin" /\ ~intr[r]
  /\ Unwinds(r, "error")
  /\ UNCHANGED <<callVars, pid, named, writer, sessionVars, dataVars>>

\* Rows: the last ones or the limit (mysql goes on sending what is behind it),
\* or the first batch of postgres, whose columns are to be named.  Batches
\* between change nothing here.
BatchArrives(r) ==
  /\ fiber[r] = "read" /\ ~intr[r] /\ ~Refused(r)
  /\ \/ Executed(r) /\ Unwinds(r, "ok")
     \/ dialect = "mysql" /\ Unwinds(r, "ok") /\ UNCHANGED <<busy, changed>>
     \/ /\ dialect = "postgres" /\ r \notin named
        /\ Executed(r)
        /\ fiber' = [fiber EXCEPT ![r] = "types"]
        /\ UNCHANGED exit
  /\ UNCHANGED <<callVars, pid, named, writer, holder, tx, killed>>

\* An error of the server, its statement timeout among them.
ReadFails(r) ==
  /\ fiber[r] = "read" /\ ~intr[r]
  /\ busy' = busy \ {pid[r]}
  /\ Unwinds(r, "error")
  /\ UNCHANGED <<callVars, pid, named, writer, holder, tx, dataVars>>

\* The names come from the cache, from a second session, or, when none gets
\* free in time, not at all; then the read goes on.  A write is over.
TypesNamed(r) ==
  /\ fiber[r] = "types" /\ ~intr[r]
  /\ named' = named \cup {r}
  /\ \/ ~Holds(r) /\ Ends(r, "ok") /\ UNCHANGED busy
     \/ Holds(r) /\ Unwinds(r, "ok") /\ UNCHANGED busy
     \/ /\ Holds(r)
        /\ fiber' = [fiber EXCEPT ![r] = "read"]
        /\ busy' = busy \cup {pid[r]}
        /\ UNCHANGED exit
  /\ UNCHANGED <<callVars, pid, writer, holder, tx, dataVars>>

\* Mutant: the session is back in the pool before the kill is sent.
InterruptedEarly(r) ==
  /\ intr[r] /\ fiber[r] = "read"
  /\ fiber' = [fiber EXCEPT ![r] = "kill"]
  /\ holder' = [holder EXCEPT ![pid[r]] = NoRun]
  /\ tx' = [tx EXCEPT ![pid[r]] = "none"]
  /\ busy' = busy \ {pid[r]}
  /\ UNCHANGED <<callVars, exit, pid, named, writer, dataVars>>

\* Only a read in flight has something to kill; the promise of a write is
\* left alone.
Interrupted(r) ==
  /\ intr[r]
  /\ \/ fiber[r] \in {"start", "write"} /\ Ends(r, "canceled")
     \/ fiber[r] = "types" /\ ~Holds(r) /\ Ends(r, "canceled")
     \/ fiber[r] = "types" /\ Holds(r) /\ Unwinds(r, "canceled")
     \/ fiber[r] = "begin" /\ Unwinds(r, "canceled")
     \/ fiber[r] = "read" /\ fiber' = [fiber EXCEPT ![r] = "kill"] /\ UNCHANGED exit
  /\ UNCHANGED <<callVars, pid, named, writer, sessionVars, dataVars>>

\* Both kinds of kill are best effort, and hit what the session executes then.
Kill(r) ==
  /\ MayKill(r)
  /\ \/ /\ busy' = busy \ {pid[r]}
        /\ killed' = IF pid[r] \in busy THEN killed \cup {holder[pid[r]]} ELSE killed
     \/ UNCHANGED <<busy, killed>>
  /\ Unwinds(r, "canceled")
  /\ UNCHANGED <<callVars, pid, named, writer, holder, tx, changed>>

\* The server is done with a statement nobody reads any more.
StatementEnds(r) ==
  /\ StatementGoesOn(r)
  /\ Executed(r)
  /\ UNCHANGED <<callVars, fiberVars, writer, holder, tx, killed>>

\* Mutant: a session is released without ROLLBACK.
UnwindOpen(r) ==
  /\ StatementIsOver(r)
  /\ holder' = [holder EXCEPT ![pid[r]] = NoRun]
  /\ Ends(r, exit[r])
  /\ UNCHANGED <<callVars, pid, named, writer, tx, busy, dataVars>>

\* The finalizers: ROLLBACK waits its turn behind the statement, then the
\* session is released (postgres destroys it and opens another in its place).
Unwind(r) ==
  /\ StatementIsOver(r)
  /\ tx' = [tx EXCEPT ![pid[r]] = "none"]
  /\ holder' = [holder EXCEPT ![pid[r]] = NoRun]
  /\ Ends(r, exit[r])
  /\ UNCHANGED <<callVars, pid, named, writer, busy, dataVars>>

-----------------------------------------------------------------------------
(* The promise of runWrite.                                                *)

GiveBack(r) ==
  /\ tx' = [tx EXCEPT ![pid[r]] = "none"]
  /\ holder' = [holder EXCEPT ![pid[r]] = NoRun]

WriterConnects(r, s) ==
  /\ writer[r] = "connect" /\ s \in Free
  /\ holder' = [holder EXCEPT ![s] = r]
  /\ pid' = [pid EXCEPT ![r] = s]
  /\ tx' = [tx EXCEPT ![s] = "write"]
  /\ writer' = [writer EXCEPT ![r] = "exec"]
  /\ UNCHANGED <<callVars, fiber, exit, named, busy, dataVars>>

WriterDoesNotConnect(r) ==
  /\ writer[r] = "connect" /\ MayNotConnect
  /\ writer' = [writer EXCEPT ![r] = "failed"]
  /\ UNCHANGED <<callVars, fiberVars, sessionVars, dataVars>>

\* Every statement of the text, or the first that fails.
Execute(r) ==
  /\ writer[r] = "exec"
  /\ \E next \in {"commit", "rollback"} : writer' = [writer EXCEPT ![r] = next]
  /\ UNCHANGED <<callVars, fiberVars, sessionVars, dataVars>>

Commit(r) ==
  /\ writer[r] = "commit"
  /\ writer' = [writer EXCEPT ![r] = "done"]
  /\ changed' = changed \cup {r}
  /\ GiveBack(r)
  /\ UNCHANGED <<callVars, fiberVars, busy, killed>>

\* The server refuses, or its answer is lost and nobody knows.
CommitFails(r) ==
  /\ writer[r] = "commit"
  /\ writer' = [writer EXCEPT ![r] = "rollback"]
  /\ changed' \in {changed, changed \cup {r}}
  /\ UNCHANGED <<callVars, fiberVars, sessionVars, killed>>

\* Mutant: the error of the write is not thrown on after the rollback.
RollbackQuietly(r) ==
  /\ writer[r] = "rollback"
  /\ writer' = [writer EXCEPT ![r] = "done"]
  /\ GiveBack(r)
  /\ UNCHANGED <<callVars, fiberVars, busy, dataVars>>

Rollback(r) ==
  /\ writer[r] = "rollback"
  /\ writer' = [writer EXCEPT ![r] = "failed"]
  /\ GiveBack(r)
  /\ UNCHANGED <<callVars, fiberVars, busy, dataVars>>

\* postgres names the columns of RETURNING first.
WriteSettles(r) ==
  /\ WriteIsOver(r) /\ ~intr[r]
  /\ \/ writer[r] = "failed" /\ Ends(r, "error")
     \/ writer[r] = "done" /\ Ends(r, "ok")
     \/ /\ writer[r] = "done" /\ dialect = "postgres"
        /\ fiber' = [fiber EXCEPT ![r] = "types"]
        /\ UNCHANGED exit
  /\ UNCHANGED <<callVars, pid, named, writer, sessionVars, dataVars>>

-----------------------------------------------------------------------------
HandlerStep(r) == AcquireFails(r) \/ Fork(r) \/ Awaited(r) \/ Record(r)

ReadStep(r) ==
  \/ Classify(r) \/ (\E s \in Sessions : Connect(r, s)) \/ ConnectFails(r)
  \/ Begin(r) \/ BeginFails(r) \/ BatchArrives(r) \/ ReadFails(r) \/ TypesNamed(r)
  \/ Interrupted(r) \/ Kill(r) \/ StatementEnds(r) \/ Unwind(r)

WriteStep(r) ==
  \/ (\E s \in Sessions : WriterConnects(r, s)) \/ WriterDoesNotConnect(r)
  \/ Execute(r) \/ Commit(r) \/ CommitFails(r) \/ Rollback(r) \/ WriteSettles(r)

Client ==
  \/ \E r \in Runs : Disconnect(r) \/ \E id \in RunIds, q \in Requests : StartRun(r, id, q)
  \/ \E c \in Cancels, id \in RunIds : Cancel(c, id) \/ CancelFindsNothing(c, id)

\* The event loop runs every fiber that is ready, and a database ends every
\* statement: the driver gives it a timeout.
System ==
  \/ \E r \in Runs : HandlerStep(r) \/ ReadStep(r) \/ WriteStep(r)
  \/ \E c \in Cancels : CancelReturns(c)

Next == Client \/ System

Spec == Init /\ [][Next]_vars

-----------------------------------------------------------------------------
(* Properties.                                                             *)

\* A run that can still be cancelled is found under its id, once, and the
\* registry keeps nothing else: register, unregister and the pop of cancel
\* leave no fiber behind (sql/runRegistry.ts).
RegistryHoldsWaitingRuns ==
  /\ \A id \in RunIds : \A i \in DOMAIN running[id] :
       LET r == running[id][i] IN
         /\ pc[r] = "await" /\ runId[r] = id /\ ~intr[r]
         /\ \A j \in DOMAIN running[id] : running[id][j] = r => i = j
  /\ \A r \in Runs : pc[r] = "await" /\ ~intr[r] =>
       \E i \in DOMAIN running[runId[r]] : running[runId[r]][i] = r

\* A session goes back to the pool without a transaction and with nothing
\* running on it, whatever happened to the run that had it.
PoolIsClean == \A s \in Free : tx[s] = "none" /\ s \notin busy

\* Cancelling by backend id only hits statements of runs that were
\* cancelled: the session is held until the kill has been answered.
KillsHitTheirRun == \A r \in killed : intr[r]

\* A run in read-only mode changes nothing, even if the classifier lets a
\* statement with side effects through.
ReadOnlyChangesNothing == \A r \in changed : request[r] = "write"

\* What the client is told and what the history says agree, and a success
\* of a write is a committed one.
HistoryIsTrue ==
  \A r \in Runs :
    /\ history[r] # "none" /\ answer[r] # "none" => history[r] = answer[r]
    /\ "ok" \in {history[r], answer[r]} /\ request[r] = "write" => r \in changed
    /\ "canceled" \in {history[r], answer[r]} => intr[r]

\* The result of a run: that of its fiber once it has ended, or of the guard in
\* front of it, or the error of acquire.
Result(r) == IF fiber[r] = "ended" \/ request[r] = "batch" THEN exit[r] ELSE answer[r]

Execution ==
  INSTANCE SqlExecution WITH
    kind    <- [r \in Runs |-> CASE request[r] = "none" -> "none"
                                [] request[r] = "write" -> "write"
                                [] OTHER -> "read"],
    stopped <- {r \in Runs : intr[r]},
    result  <- [r \in Runs |-> Result(r)],
    told    <- answer,
    logged  <- history

\* A run is nothing, or one change at one point, and what its client and the
\* history hear of it is its one result: what SqlExecution says.
RunsAreAtomic == Execution!Spec

\* When sql.cancel returns, the run has ended and a read has given its
\* session back (runRegistry.ts: "the driver-side cancel has already run").
\* Of a write that is not true: its promise goes on and may commit.
CancelIsComplete ==
  \A c \in Cancels : cancel[c] = "returned" =>
    fiber[target[c]] = "ended" /\ (ReadOnly(target[c]) => ~Holds(target[c]))

\* Every session of a mysql pool is held by a run that wants one more to send
\* its KILL over: nobody will ever release any.
PoolExhaustedByKills ==
  dialect = "mysql" /\ \A s \in Sessions : holder[s] # NoRun /\ fiber[holder[s]] = "kill"

\* The server can go on without any client.  The steps of the other places
\* wait for nothing.
Ready ==
  \/ \E c \in Cancels : CancelIsOver(c)
  \/ \E r \in Runs :
       \/ pc[r] \in {"acquire", "record"} \/ FiberIsOver(r)
       \/ fiber[r] \in {"start", "begin", "read", "types"}
       \/ "connect" \in {fiber[r], writer[r]} /\ MayNotConnect
       \/ MayKill(r) \/ StatementGoesOn(r) \/ StatementIsOver(r)
       \/ WriteIsOver(r)
       \/ fiber[r] = "write" /\ intr[r]
       \/ writer[r] \in {"exec", "commit", "rollback"}

Quiet ==
  /\ \A r \in Runs : pc[r] \in {"idle", "done", "gone"} /\ fiber[r] \in {"none", "ended"}
  /\ \A r \in Runs : writer[r] \in {"none", "done", "failed"}
  /\ \A c \in Cancels : cancel[c] # "waiting"

\* Nothing else gets stuck: as long as a run, a cancel or the promise of a
\* write is under way, the server can go on without any client.
OnlyKillsBlock == PoolExhaustedByKills \/ Ready \/ Quiet
=============================================================================
