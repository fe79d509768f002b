---------------------------- MODULE SqliteDriver ----------------------------
(***************************************************************************)
(* db/sqlite.ts behind sql.run and the tool run_sql: scripts that write,   *)
(* reads on a handle of their own, and how rows are collected up to a      *)
(* limit by rpc/sql.ts and agent/tools.ts.  The table is the number of its *)
(* rows.  bun:sqlite is synchronous, so a script is one step; a read of an *)
(* in-memory database, which has only the handle the scripts use, is       *)
(* three, and Effect may run other fibers in between.                      *)
(***************************************************************************)
EXTENDS Naturals, Sequences, FiniteSets

CONSTANTS Readers,       \* calls of sql.run with readOnly, or of the tool
          MaxScript,     \* bound: statements of a script
          MaxWrites,     \* bound: scripts
          BATCH_SIZE, DEFAULT_ROW_LIMIT, MAX_ROW_LIMIT   \* scaled down

ASSUME SqliteAssumption ==
  /\ BATCH_SIZE \in Nat \ {0} /\ DEFAULT_ROW_LIMIT \in Nat \ {0} /\ MAX_ROW_LIMIT \in Nat \ {0}
  /\ MaxScript \in Nat

VARIABLES
  memory,      \* the database is in memory: reads share the handle
  rowCount,    \* rows of the table
  changes,     \* what changes() says on the handle of the scripts
  queryOnly,   \* PRAGMA query_only of that handle
  reads,       \* reader -> where it is, what it runs, what it got
  report,      \* the script that just ran: its answer, what it touched, what it was made of
  writes

sqliteVars == <<memory, rowCount, changes, queryOnly, reads, report, writes>>

\* A statement is the rows it inserts ("delete" takes one away), or something
\* that is no DML, or ends the transaction, or fails.
Dml == {"insert 0", "insert 2", "delete"}
Statements == Dml \cup {"create", "commit", "fails"}
Inserted(s) == IF s = "insert 2" THEN 2 ELSE 0
Touched(s, n) == IF s = "delete" THEN (IF n > 0 THEN 1 ELSE 0) ELSE Inserted(s)
AfterDml(s, n) == IF s = "delete" THEN n - Touched(s, n) ELSE n + Inserted(s)

Quiet == [at |-> "new", tool |-> FALSE, hidden |-> FALSE, limit |-> 0,
          got |-> 0, there |-> 0, truncated |-> FALSE, shared |-> FALSE]
NoReport == [ok |-> TRUE, affected |-> 0, touched |-> 0, dml |-> TRUE, ends |-> FALSE]

SqliteInit ==
  /\ memory \in BOOLEAN
  /\ rowCount = 2 /\ changes \in {0, 2} \* of the scripts before
  /\ queryOnly = FALSE
  /\ reads = [r \in Readers |-> Quiet]
  /\ report = NoReport /\ writes = 0
-----------------------------------------------------------------------------
(* Scripts *)

\* SQLite: a statement in state e.  changes() keeps the count of the last DML.
Executed(e, s) ==
  IF ~e.ok THEN e
  ELSE CASE s = "fails" \/ (queryOnly /\ s # "commit") -> [e EXCEPT !.ok = FALSE]
         [] s = "commit" -> [e EXCEPT !.ok = e.open, !.open = FALSE, !.saved = e.rows]
         [] s = "create" /\ ~queryOnly -> e
         [] OTHER -> [e EXCEPT !.rows = AfterDml(s, e.rows), !.changes = Touched(s, e.rows),
                               !.touched = @ + Touched(s, e.rows),
                               !.saved = IF e.open THEN @ ELSE AfterDml(s, e.rows)]

\* runWrite: BEGIN, the statements one at a time, each adding changes() to the
\* sum, COMMIT; an error, of COMMIT too, rolls back what is still open.
RunWrite(script, commits) ==
  LET begun == [rows |-> rowCount, saved |-> rowCount, open |-> TRUE, ok |-> TRUE,
                changes |-> changes, touched |-> 0, affected |-> 0]
      e[i \in 0..Len(script)] ==
        IF i = 0 THEN begun
        ELSE LET x == Executed(e[i-1], script[i])
             IN IF x.ok THEN [x EXCEPT !.affected = @ + x.changes] ELSE x
      last == e[Len(script)]
      ok == last.ok /\ last.open /\ commits
  IN [last EXCEPT !.ok = ok, !.open = FALSE, !.rows = IF ok \/ ~last.open THEN @ ELSE last.saved]

Script(script, commits) ==
  /\ writes < MaxWrites
  /\ LET e == RunWrite(script, commits)
     IN /\ rowCount' = e.rows /\ changes' = e.changes
        /\ report' = [ok |-> e.ok, affected |-> e.affected, touched |-> e.touched,
                      dml |-> \A i \in DOMAIN script : script[i] \in Dml,
                      ends |-> \E i \in DOMAIN script : script[i] = "commit"]
  /\ writes' = writes + 1
  /\ UNCHANGED <<memory, queryOnly, reads>>
-----------------------------------------------------------------------------
(* Reads *)

\* clampRowLimit of the handler; 0 stands for no limit in the request.
ClampRowLimit(n) == IF n < 1 THEN DEFAULT_ROW_LIMIT ELSE IF n > MAX_ROW_LIMIT THEN MAX_ROW_LIMIT ELSE n

SmallerOf(a, b) == IF a < b THEN a ELSE b

\* The driver cuts its rows at the limit and into batches.
Batches(n, limit) ==
  LET cut == SmallerOf(n, limit)
  IN IF cut = 0 THEN <<0>>
     ELSE [i \in 1..((cut + BATCH_SIZE - 1) \div BATCH_SIZE) |->
             SmallerOf(BATCH_SIZE, cut - (i - 1) * BATCH_SIZE)]

\* Mutant: a full answer is not a cut one.
CollectStrict(batches, limit) ==
  LET got[i \in 0..Len(batches)] == IF i = 0 THEN 0 ELSE SmallerOf(limit, got[i-1] + batches[i])
      dropped == \E i \in 1..Len(batches) : got[i-1] + batches[i] > limit
  IN [rows |-> got[Len(batches)], truncated |-> dropped]

\* The handler takes batches until it has limit rows.
Collect(batches, limit) ==
  LET got[i \in 0..Len(batches)] == IF i = 0 THEN 0 ELSE SmallerOf(limit, got[i-1] + batches[i])
      dropped == \E i \in 1..Len(batches) : got[i-1] < limit /\ got[i-1] + batches[i] > limit
  IN [rows |-> got[Len(batches)], truncated |-> dropped \/ got[Len(batches)] >= limit]

\* collectQuery of the tools: the same, but a batch must hold more than fits to
\* count as cut, and the driver, which has the limit too, never sends more.
ToolCollect(batches, limit) ==
  [Collect(batches, limit) EXCEPT !.truncated =
     \E i \in 1..Len(batches) : (i - 1) * BATCH_SIZE < limit /\ (i - 1) * BATCH_SIZE + batches[i] > limit]

\* What the classifier let through runs on a handle that cannot write: a text
\* that would change something after all (`hidden`) fails there.
Ran(r, blocked) ==
  LET batches == Batches(rowCount, r.limit)
      c == IF r.tool THEN ToolCollect(batches, r.limit) ELSE Collect(batches, r.limit)
  IN IF r.hidden /\ blocked THEN [r EXCEPT !.at = "ran"]
     ELSE [r EXCEPT !.at = "ran", !.got = c.rows, !.truncated = c.truncated, !.there = rowCount]

Read(r, tool, hidden, n) ==
  /\ reads[r].at = "new"
  /\ LET new == [Quiet EXCEPT !.tool = tool, !.hidden = hidden, !.limit = ClampRowLimit(n)]
     IN IF memory
        THEN /\ queryOnly' = TRUE
             /\ reads' = [q \in Readers |->
                  IF q = r THEN [new EXCEPT !.at = "on",
                                            !.shared = \E x \in Readers : reads[x].at \in {"on", "ran"}]
                  ELSE IF reads[q].at \in {"on", "ran"} THEN [reads[q] EXCEPT !.shared = TRUE] ELSE reads[q]]
        ELSE /\ reads' = [reads EXCEPT ![r] = [Ran(new, TRUE) EXCEPT !.at = "done", !.hidden = FALSE]]
             /\ UNCHANGED queryOnly
  /\ report' = NoReport
  /\ UNCHANGED <<memory, rowCount, changes, writes>>

\* In memory: query_only is on, unless another read has switched it off.
RunRead(r) ==
  /\ reads[r].at = "on"
  /\ reads' = [reads EXCEPT ![r] = [Ran(@, queryOnly) EXCEPT !.at = "ran"]]
  /\ rowCount' = IF reads[r].hidden /\ ~queryOnly THEN rowCount + 1 ELSE rowCount
  /\ changes' = IF reads[r].hidden /\ ~queryOnly THEN 1 ELSE changes
  /\ UNCHANGED <<memory, queryOnly, report, writes>>

QueryOnlyOff(r) ==
  /\ reads[r].at = "ran"
  /\ reads' = [reads EXCEPT ![r] = [@ EXCEPT !.at = "done", !.hidden = FALSE]]
  /\ queryOnly' = FALSE
  /\ UNCHANGED <<memory, rowCount, changes, report, writes>>

Scripts == UNION {[1..n -> Statements] : n \in 1..MaxScript}

SqliteNext ==
  \/ \E script \in Scripts, commits \in BOOLEAN : Script(script, commits)
  \/ \E r \in Readers, tool, hidden \in BOOLEAN, n \in {0, MAX_ROW_LIMIT + 1} : Read(r, tool, hidden, n)
  \/ \E r \in Readers : RunRead(r) \/ QueryOnlyOff(r)

SqliteSpec == SqliteInit /\ [][SqliteNext]_sqliteVars
-----------------------------------------------------------------------------
(* Properties *)

\* A script is all or nothing, as its answer says, unless it ends the
\* transaction itself: then what it did is kept although COMMIT, which finds no
\* transaction, fails the call.
ScriptIsAtomic ==
  [][writes' # writes /\ ~report'.ok /\ ~report'.ends => rowCount' = rowCount]_sqliteVars

\* The count of a script that worked is never too small, and exact when every
\* statement of it is DML.  Any other statement counts the last DML again, of
\* the script before it even.
CountIsTrue ==
  report.ok =>
    /\ report.affected >= report.touched
    /\ report.dml => report.affected = report.touched

\* A read changes nothing, even if the classifier was wrong about it: the
\* handle is read-only, or query_only is on; only two reads of an in-memory
\* database at once take that from each other.
ReadsChangeNothing ==
  [][rowCount' # rowCount => writes' # writes \/ \E r \in Readers : reads[r].shared]_sqliteVars

\* The handle is open for writes again once no read is under way.
QueryOnlyEnds == queryOnly => \E r \in Readers : reads[r].at \in {"on", "ran"}

\* Rows are never missing from an answer of sql.run that does not say so.  The
\* tool's answer never says so: only a full page is a sign of it there.
NothingCutSilently ==
  \A r \in Readers :
    /\ reads[r].got < reads[r].there => reads[r].truncated \/ (reads[r].tool /\ reads[r].got = reads[r].limit)
    /\ reads[r].tool => ~reads[r].truncated
=============================================================================
