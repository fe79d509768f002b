------------------------------- MODULE History -------------------------------
(***************************************************************************)
(* query_history (sql/store.ts, rpc/sql.ts): one row per run, written when *)
(* the run ends and ordered by when it started, pruned per connection by a *)
(* second statement, and the client's cached list (web rpc/sql.ts).        *)
(***************************************************************************)
EXTENDS Integers, FiniteSets, FiniteSetsExt

CONSTANTS
    HistoryRuns,     \* runs of one connection
    HISTORY_LIMIT, HISTORY_RETAIN,
    MaxTime          \* bound: readings of the clock

ASSUME HistoryAssumption == HISTORY_LIMIT \in Nat /\ HISTORY_RETAIN \in Nat /\ HISTORY_LIMIT <= HISTORY_RETAIN

VARIABLES
    historyNow,      \* the clock
    runStarted,      \* ranAt of the runs under way, 0 of the others
    history,         \* query_history: [run, ranAt, rowid]
    unpruned,        \* runs recorded whose second statement has not run
    recorded,        \* history: every row ever inserted
    historyShown     \* the client's cached sql.history.list

historyVars == <<historyNow, runStarted, history, unpruned, recorded, historyShown>>

Newer(a, b) == a.ranAt > b.ranAt \/ (a.ranAt = b.ranAt /\ a.rowid > b.rowid)

\* ORDER BY ran_at DESC, rowid DESC LIMIT n
Newest(rows, n) == {e \in rows : Cardinality({x \in rows : Newer(x, e)}) < n}

HistoryInit ==
    /\ historyNow = 1
    /\ runStarted = [r \in HistoryRuns |-> 0]
    /\ history = {} /\ unpruned = {} /\ recorded = {} /\ historyShown = {}

HistoryTick ==
    /\ historyNow < MaxTime
    /\ historyNow' = historyNow + 1
    /\ UNCHANGED <<runStarted, history, unpruned, recorded, historyShown>>

RanBefore(r) == r \in {e.run : e \in recorded}

StartRun(r) ==
    /\ runStarted[r] = 0 /\ ~RanBefore(r)
    /\ runStarted' = [runStarted EXCEPT ![r] = historyNow]
    /\ UNCHANGED <<historyNow, history, unpruned, recorded, historyShown>>

\* recordRun's INSERT; a failure is logged and the run answers all the same
RecordRun(r) ==
    /\ runStarted[r] # 0
    /\ runStarted' = [runStarted EXCEPT ![r] = 0]
    /\ \/ LET row == [run |-> r, ranAt |-> runStarted[r],
                      rowid |-> 1 + Max({0} \cup {e.rowid : e \in history})] IN
          /\ history' = history \cup {row}
          /\ recorded' = recorded \cup {row}
          /\ unpruned' = unpruned \cup {r}
       \/ UNCHANGED <<history, recorded, unpruned>>
    /\ UNCHANGED <<historyNow, historyShown>>

\* its DELETE of everything behind the newest
PruneHistory(r) ==
    /\ r \in unpruned
    /\ history' = Newest(history, HISTORY_RETAIN)
    /\ unpruned' = unpruned \ {r}
    /\ UNCHANGED <<historyNow, runStarted, recorded, historyShown>>

\* the editor invalidates its list after a run; a storage failure answers an empty one
HistoryArrives ==
    /\ historyShown' \in {Newest(history, HISTORY_LIMIT), {}}
    /\ UNCHANGED <<historyNow, runStarted, history, unpruned, recorded>>

HistoryNext ==
    \/ HistoryTick \/ HistoryArrives
    \/ \E r \in HistoryRuns : StartRun(r) \/ RecordRun(r) \/ PruneHistory(r)

HistorySpec == HistoryInit /\ [][HistoryNext]_historyVars

\* The list a client asks for is the newest runs of all that were ever recorded, by when they
\* started: a run that ends long after it started, runs that end out of order and prunes that come
\* between the two statements of another run never hide a newer one.
HistoryIsTheNewest ==
    {e.run : e \in Newest(history, HISTORY_LIMIT)} = {e.run : e \in Newest(recorded, HISTORY_LIMIT)}

\* What is kept never exceeds the bound once every insert was followed by its prune.
HistoryIsBounded == unpruned = {} => Cardinality(history) <= HISTORY_RETAIN
=============================================================================
