-------------------------------- MODULE Threads --------------------------------
(***************************************************************************)
(* The threads of a connection: their rows (agent/repo.ts, rpc/chat.ts),   *)
(* the title the first message gives one (agent/session.ts) and the list   *)
(* the sidebar shows (thread-list.tsx, workspace.tsx, web rpc/chat.ts).    *)
(*                                                                         *)
(* Nothing holds a thread still: it can be deleted while its turn runs,    *)
(* and its connection with it; the server may stop between two statements  *)
(* of a turn.                                                              *)
(***************************************************************************)
EXTENDS Integers, FiniteSets

CONSTANTS
    ThreadRows,      \* ids a thread may get
    MaxThreadOps     \* bound: creations, deletions and sends

VARIABLES
    connectionRow,   \* the connection's row exists
    threadRows,      \* each thread's row: [title, messages], or NoThread
    usedIds,         \* history: ids handed out
    untitled,        \* history: threads whose turn was cut off between its message and the title
    cutOff,          \* history: the server stopped with a call or a refetch of the client under way
    userTurns,       \* the turn claimed on a thread: [step, count], or NoTurn
    listShown,       \* ids in the client's cached list
    listFetch,       \* a refetch under way: "none", "asked" or what it read
    threadCalls,     \* the client's mutations under way: [op, thread, step]
    threadOps        \* operations so far

threadVars == <<connectionRow, threadRows, usedIds, untitled, cutOff, userTurns, listShown, listFetch, threadCalls, threadOps>>

NoThread == [title |-> "none", messages |-> 0]
NoTurn == [step |-> "none", count |-> 0]
NotFetching == [step |-> "none", ids |-> {}]
ListOf(ids) == [step |-> "read", ids |-> ids]
RowIds == {t \in ThreadRows : threadRows[t] # NoThread}
ThreadCall(op, t, step) == [op |-> op, thread |-> t, step |-> step]

ThreadsInit ==
    /\ connectionRow = TRUE
    /\ threadRows = [t \in ThreadRows |-> NoThread]
    /\ usedIds = {}
    /\ untitled = {}
    /\ cutOff = FALSE
    /\ userTurns = [t \in ThreadRows |-> NoTurn]
    /\ listShown = {}
    /\ listFetch = NotFetching
    /\ threadCalls = {}
    /\ threadOps = 0

ThreadOp == threadOps < MaxThreadOps /\ threadOps' = threadOps + 1

\* invalidateQueries: what an earlier fetch read is dropped and the list is fetched again
Invalidate == listFetch' = [step |-> "asked", ids |-> {}]

(***************************************************************************)
(* The client: the sidebar, the tab menu and the draft create threads.     *)
(***************************************************************************)
AskCreate(t) ==
    /\ ThreadOp
    /\ threadRows[t] = NoThread /\ t \notin usedIds
    /\ usedIds' = usedIds \cup {t}
    /\ threadCalls' = threadCalls \cup {ThreadCall("create", t, "asked")}
    /\ UNCHANGED <<connectionRow, threadRows, untitled, cutOff, userTurns, listShown, listFetch>>

\* the trash button of a listed row, its turn running or not
AskDelete(t) ==
    /\ ThreadOp
    /\ t \in listShown
    /\ threadCalls' = threadCalls \cup {ThreadCall("delete", t, "asked")}
    /\ UNCHANGED <<connectionRow, threadRows, usedIds, untitled, cutOff, userTurns, listShown, listFetch>>

\* onSuccess invalidates the list, a failure leaves it
CallSettles(c) ==
    /\ c.step \in {"done", "failed"}
    /\ threadCalls' = threadCalls \ {c}
    /\ IF c.step = "done" THEN Invalidate ELSE UNCHANGED listFetch
    /\ UNCHANGED <<connectionRow, threadRows, usedIds, untitled, cutOff, userTurns, listShown, threadOps>>

ListRead ==
    /\ listFetch.step = "asked"
    /\ listFetch' = ListOf(RowIds)
    /\ UNCHANGED <<connectionRow, threadRows, usedIds, untitled, cutOff, userTurns, listShown, threadCalls, threadOps>>

ListThreads ==
    /\ listFetch.step = "read"
    /\ listShown' = listFetch.ids
    /\ listFetch' = NotFetching
    /\ UNCHANGED <<connectionRow, threadRows, usedIds, untitled, cutOff, userTurns, threadCalls, threadOps>>

(***************************************************************************)
(* The server.                                                             *)
(***************************************************************************)
Step(c, step) == threadCalls' = (threadCalls \ {c}) \cup {[c EXCEPT !.step = step]}

\* store.get, then the INSERT, which the foreign key refuses when the connection went in between
ConnectionFound(c) ==
    /\ c.op = "create" /\ c.step = "asked"
    /\ Step(c, IF connectionRow THEN "found" ELSE "failed")
    /\ UNCHANGED <<connectionRow, threadRows, usedIds, untitled, cutOff, userTurns, listShown, listFetch, threadOps>>

CreateThread(c) ==
    /\ c.op = "create" /\ c.step = "found"
    /\ IF connectionRow
       THEN /\ threadRows' = [threadRows EXCEPT ![c.thread] = [title |-> "newChat", messages |-> 0]]
            /\ Step(c, "done")
       ELSE Step(c, "failed") /\ UNCHANGED threadRows
    /\ UNCHANGED <<connectionRow, usedIds, untitled, cutOff, userTurns, listShown, listFetch, threadOps>>

\* getThread, then the DELETE; a second click finds the row, deletes nothing and succeeds, or NotFound
GetThread(c) ==
    /\ c.op = "delete" /\ c.step = "asked"
    /\ Step(c, IF threadRows[c.thread] = NoThread THEN "failed" ELSE "found")
    /\ UNCHANGED <<connectionRow, threadRows, usedIds, untitled, cutOff, userTurns, listShown, listFetch, threadOps>>

DeleteThread(c) ==
    /\ c.op = "delete" /\ c.step = "found"
    /\ threadRows' = [threadRows EXCEPT ![c.thread] = NoThread]
    /\ Step(c, "done")
    /\ UNCHANGED <<connectionRow, usedIds, untitled, cutOff, userTurns, listShown, listFetch, threadOps>>

\* connections.delete cascades to the threads and their messages
DeleteConnection ==
    /\ connectionRow
    /\ connectionRow' = FALSE
    /\ threadRows' = [t \in ThreadRows |-> NoThread]
    /\ UNCHANGED <<usedIds, untitled, cutOff, userTurns, listShown, listFetch, threadCalls, threadOps>>

\* chat.send: one turn per thread
ClaimThread(t) ==
    /\ ThreadOp
    /\ threadRows[t] # NoThread /\ userTurns[t] = NoTurn
    /\ userTurns' = [userTurns EXCEPT ![t] = [step |-> "claimed", count |-> 0]]
    /\ UNCHANGED <<connectionRow, threadRows, usedIds, untitled, cutOff, listShown, listFetch, threadCalls>>

CountMessages(t) ==
    /\ userTurns[t].step = "claimed"
    /\ userTurns' = [userTurns EXCEPT ![t] = [step |-> "counted", count |-> threadRows[t].messages]]
    /\ UNCHANGED <<connectionRow, threadRows, usedIds, untitled, cutOff, listShown, listFetch, threadCalls, threadOps>>

EndUserTurn(t) == userTurns' = [userTurns EXCEPT ![t] = NoTurn]

\* the INSERT of a message dies on a thread that was deleted, and the turn with it
InsertMessage(t) ==
    /\ userTurns[t].step \in {"counted", "answering"}
    /\ IF threadRows[t] = NoThread
       THEN EndUserTurn(t) /\ UNCHANGED threadRows
       ELSE /\ threadRows' = [threadRows EXCEPT ![t].messages = @ + 1]
            /\ IF userTurns[t].step = "answering" THEN EndUserTurn(t)
               ELSE userTurns' = [userTurns EXCEPT ![t].step = "inserted"]
    /\ UNCHANGED <<connectionRow, usedIds, untitled, cutOff, listShown, listFetch, threadCalls, threadOps>>

\* the first message names the thread; an UPDATE of a deleted one changes nothing
SetThreadTitle(t) ==
    /\ userTurns[t].step = "inserted"
    /\ threadRows' = IF userTurns[t].count = 0 /\ threadRows[t] # NoThread
                     THEN [threadRows EXCEPT ![t].title = "firstMessage"] ELSE threadRows
    /\ userTurns' = [userTurns EXCEPT ![t].step = "answering"]
    /\ UNCHANGED <<connectionRow, usedIds, untitled, cutOff, listShown, listFetch, threadCalls, threadOps>>

\* the process dies: its turns and calls are gone, the client's calls fail
ServerStops ==
    /\ userTurns' = [t \in ThreadRows |-> NoTurn]
    /\ threadCalls' = {[c EXCEPT !.step = "failed"] : c \in threadCalls}
    /\ untitled' = untitled \cup {t \in ThreadRows : userTurns[t].step = "inserted"}
    /\ cutOff' = (cutOff \/ threadCalls # {} \/ listFetch # NotFetching)
    /\ listFetch' = NotFetching
    /\ UNCHANGED <<connectionRow, threadRows, usedIds, listShown, threadOps>>

ThreadsNext ==
    \/ ListRead \/ ListThreads \/ DeleteConnection \/ ServerStops
    \/ \E t \in ThreadRows :
          \/ AskCreate(t) \/ AskDelete(t)
          \/ ClaimThread(t) \/ CountMessages(t) \/ InsertMessage(t) \/ SetThreadTitle(t)
    \/ \E c \in threadCalls :
          CallSettles(c) \/ ConnectionFound(c) \/ CreateThread(c) \/ GetThread(c) \/ DeleteThread(c)

ThreadsSpec == ThreadsInit /\ [][ThreadsNext]_threadVars

(***************************************************************************)
(* Properties.                                                             *)
(***************************************************************************)
\* With nothing under way the sidebar lists the threads there are, whichever of overlapping creations,
\* deletions and refetches answered first, unless the server stopped on one of them or the connection
\* itself is gone.
ListIsTrue ==
    threadCalls = {} /\ listFetch = NotFetching /\ connectionRow /\ ~cutOff => listShown = RowIds

\* A thread is named by its first message and by no later one, though the name is written two statements
\* after the count that decides it: deleting threads meanwhile and further turns change nothing.
TitleIsOfTheFirstMessage ==
    \A t \in RowIds \ untitled :
        userTurns[t].step \in {"none", "answering"} =>
            (threadRows[t].title = "firstMessage" <=> threadRows[t].messages > 0)

\* Of a connection that is gone nothing is left, and nothing comes back: neither a create nor the
\* message of a turn that was on its way.
NothingWithoutConnection == ~connectionRow => RowIds = {}
=============================================================================
