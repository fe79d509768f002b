----------------------------- MODULE TableReads -----------------------------
(***************************************************************************)
(* What the four drivers tell of a database that others change meanwhile:  *)
(* introspect, describeTable and rows of db/postgres.ts, mysql.ts,         *)
(* sqlite.ts and bigquery.ts.  Each asks several queries, and nothing ties *)
(* them to one moment.                                                     *)
(*                                                                         *)
(* There is one table.  Version v of it has column "a", and in odd         *)
(* versions "b"; a column's type is the version.  Version 0: no table.     *)
(***************************************************************************)
EXTENDS Naturals, FiniteSets

CONSTANTS Drivers,     \* dialects of this instance
          Threshold,   \* EXACT_COUNT_THRESHOLD, scaled down
          MaxAlters, MaxRows   \* bounds

ASSUME DriversAreKnown == Drivers \subseteq {"postgres", "mysql", "sqlite", "bigquery"}

VARIABLES
  driver,     \* the dialect of this behaviour
  version,    \* of the table, 0 while there is none
  versions,   \* versions there have been
  rowsIn,     \* its rows; every second one passes the filter of the request
  estimate,   \* what the statistics say
  call,       \* the call: what it is, where it is, what its queries saw
  during      \* versions and row counts there were during the call

readVars == <<driver, version, versions, rowsIn, estimate, call, during>>

Missing == [version |-> 0, rows |-> 0, estimate |-> 0]
Seen == [version |-> version, rows |-> rowsIn, estimate |-> estimate]
None == "none"
ColumnsAt(v) == IF v = 0 THEN {} ELSE IF v % 2 = 1 THEN {"a", "b"} ELSE {"a"}
Matching(n) == n \div 2
Parts == {"page", "list", "columns", "keys", "info", "count"}

\* The queries of a call, and which of them come before which; "keys" are the
\* foreign keys and the indexes.
Concurrent == driver \in {"postgres", "mysql"}
Describes ==
  CASE driver = "bigquery" -> {"columns"}
    [] OTHER -> {"columns", "keys", "info"}
Asks(kind) ==
  CASE kind = "introspect" -> {"list", "info"}
    [] kind = "describe" -> Describes
    [] kind = "rows" -> {"page", "count"} \cup Describes
Order == [p \in Parts |-> CASE p \in {"page", "list"} -> 0 [] p = "columns" -> 1 [] p = "keys" -> 2
                            [] p = "info" -> 3 [] p = "count" -> 4]
Ready(p) ==
  \A q \in call.asks :
    q # p => \/ ~(Order[q] < Order[p])
             \/ Concurrent /\ {p, q} \subseteq Describes \cup {"list"}

ReadsInit ==
  /\ driver \in Drivers
  /\ version \in 0..1 /\ versions = version
  /\ rowsIn \in {0, 2 * version} /\ estimate \in {0, MaxRows}
  /\ call = [kind |-> None, filtered |-> FALSE, asks |-> {}, saw |-> [p \in Parts |-> Missing], answer |-> None, columns |-> <<>>, total |-> {}]
  /\ during = {}
-----------------------------------------------------------------------------
(* The database *)

Pending == call.kind # None /\ call.answer = None
Now(e) == Pending /\ during' = during \cup {e}

\* Created, altered or dropped by somebody else.
AlterTable ==
  /\ versions < MaxAlters
  /\ \/ version' = versions + 1 /\ versions' = versions + 1 /\ UNCHANGED rowsIn
     \/ version # 0 /\ version' = 0 /\ rowsIn' = 0 /\ UNCHANGED versions
  /\ Now([version |-> version', rows |-> rowsIn'])
  /\ UNCHANGED <<driver, estimate, call>>

InsertRows ==
  /\ version # 0 /\ rowsIn < MaxRows /\ rowsIn' = rowsIn + 2
  /\ Now([version |-> version, rows |-> rowsIn'])
  /\ UNCHANGED <<driver, version, versions, estimate, call>>

Analyze ==
  /\ Pending /\ estimate # rowsIn /\ estimate' = rowsIn
  /\ UNCHANGED <<driver, version, versions, rowsIn, call, during>>
-----------------------------------------------------------------------------
(* Calls *)

Call(kind, filtered) ==
  /\ call.kind = None
  /\ call' = [call EXCEPT !.kind = kind, !.filtered = filtered, !.asks = Asks(kind)]
  /\ during' = {[version |-> version, rows |-> rowsIn]}
  /\ UNCHANGED <<driver, version, versions, rowsIn, estimate>>

\* Whether a query of the driver fails where the table is not: the catalog
\* queries of mysql and the pragmas of sqlite come back empty, ::regclass does not.
FailsWithout(p) ==
  CASE driver = "postgres" -> p # "list" /\ call.kind # "introspect"
    [] driver = "bigquery" -> p # "list"
    [] OTHER -> p \in {"page", "count"}

\* The answers of describeTable: no columns means no table; an error of a query
\* of postgres and bigquery is told apart by its text or code.
PostgresDetail(saw) == IF \E p \in Describes : saw[p].version = 0 THEN "not found" ELSE "detail"
MysqlDetail(saw) == IF saw["columns"].version = 0 THEN "not found" ELSE "detail"
SqliteDetail(saw) == IF saw["columns"].version = 0 THEN "not found" ELSE "detail"
BigqueryDetail(saw) == IF saw["columns"].version = 0 THEN "not found" ELSE "detail"
Detail(saw) ==
  CASE driver = "postgres" -> PostgresDetail(saw)
    [] driver = "mysql" -> MysqlDetail(saw)
    [] driver = "sqlite" -> SqliteDetail(saw)
    [] driver = "bigquery" -> BigqueryDetail(saw)

\* The total of a page, if there is one.  What counts, and in postgres looks at
\* the statistics just before, is one query here.
Counted(saw) ==
  IF saw["count"].version = 0 THEN {}
  ELSE {IF call.filtered THEN Matching(saw["count"].rows) ELSE saw["count"].rows}
DetailEstimate(saw) == IF Detail(saw) = "detail" THEN saw["info"].estimate ELSE 0

PostgresTotal(saw) ==
  IF ~call.filtered /\ saw["count"].version # 0 /\ saw["count"].estimate >= Threshold
  THEN {saw["count"].estimate} ELSE Counted(saw)

MysqlTotal(saw) ==
  IF ~call.filtered /\ DetailEstimate(saw) >= Threshold THEN {DetailEstimate(saw)} ELSE Counted(saw)
SqliteTotal(saw) == Counted(saw)
BigqueryTotal(saw) ==
  IF call.filtered THEN Counted(saw)
  ELSE IF Detail(saw) = "detail" THEN {saw["columns"].estimate} ELSE {}
Total(saw) ==
  CASE driver = "postgres" -> PostgresTotal(saw)
    [] driver = "mysql" -> MysqlTotal(saw)
    [] driver = "sqlite" -> SqliteTotal(saw)
    [] driver = "bigquery" -> BigqueryTotal(saw)

\* A page has the columns of its result set; their meta is the description's,
\* by name, else what the result set says.
PageColumns(saw) ==
  LET described == IF Detail(saw) = "detail" THEN ColumnsAt(saw["columns"].version) ELSE {}
  IN [c \in ColumnsAt(saw["page"].version) |->
        IF c \in described THEN saw["columns"].version ELSE saw["page"].version]

\* introspect, here the estimate of the table if it is listed: postgres and mysql
\* read schemas and tables side by side, and a table of an unknown schema brings
\* its schema; sqlite counts each table it listed; bigquery asks for the metadata
\* of each table it listed, and one that is gone fails the whole introspection.
PostgresSchemas(saw) == IF saw["info"].version = 0 THEN {} ELSE {saw["info"].estimate}
MysqlSchemas(saw) == IF saw["info"].version = 0 THEN {} ELSE {saw["info"].estimate}
SqliteSchemas(saw) == IF saw["list"].version = 0 THEN {} ELSE {saw["info"].rows}
BigquerySchemas(saw) == IF saw["list"].version = 0 THEN {} ELSE {saw["info"].estimate}
Schemas(saw) ==
  CASE driver = "postgres" -> PostgresSchemas(saw)
    [] driver = "mysql" -> MysqlSchemas(saw)
    [] driver = "sqlite" -> SqliteSchemas(saw)
    [] driver = "bigquery" -> BigquerySchemas(saw)

TableAnswer(c) ==
  CASE c.kind = "introspect" -> [c EXCEPT !.answer = "schemas", !.total = Schemas(c.saw)]
    [] c.kind = "describe" -> [c EXCEPT !.answer = Detail(c.saw)]
    [] c.kind = "rows" -> [c EXCEPT !.answer = "page", !.columns = PageColumns(c.saw), !.total = Total(c.saw)]

\* A query of the call is answered.  A page that fails ends its call, and so does
\* the metadata of a listed table; a description ends with its first failure.
Query(p) ==
  /\ call.answer = None /\ p \in call.asks /\ Ready(p)
  /\ LET fails == FailsWithout(p) /\ version = 0
         c == [call EXCEPT !.saw[p] = Seen,
                 !.asks = IF fails /\ p \in Describes THEN @ \ Describes ELSE @ \ {p}]
     IN call' = IF fails /\ (p = "page" \/ (call.kind = "introspect" /\ call.saw["list"].version # 0))
                THEN [c EXCEPT !.answer = "error", !.asks = {}]
                ELSE IF c.asks = {} THEN TableAnswer(c) ELSE c
  /\ UNCHANGED <<driver, version, versions, rowsIn, estimate, during>>

ReadsNext ==
  \/ AlterTable \/ InsertRows \/ Analyze
  \/ \E kind \in {"introspect", "describe", "rows"}, filtered \in BOOLEAN : Call(kind, filtered)
  \/ \E p \in Parts : Query(p)

ReadsSpec == ReadsInit /\ [][ReadsNext]_readVars
-----------------------------------------------------------------------------
(* Properties *)

\* A table is called not found only if there was a moment without it.
NotFoundIsTrue ==
  call.answer = "not found" => \E e \in during : e.version = 0

\* Every column of a page has a name and type it had during the call, and all
\* columns the rows have are there, whatever DDL came between page and description.
PageIsLabelled ==
  call.answer = "page" =>
    /\ DOMAIN call.columns = ColumnsAt(call.saw["page"].version)
    /\ \A c \in DOMAIN call.columns :
         \E e \in during : e.version = call.columns[c] /\ c \in ColumnsAt(e.version)

\* The total of a filtered request is the number of matching rows at a moment of
\* the call, never the statistics of the whole table; without a filter it may be
\* those only from the threshold on, or in BigQuery, where they are the metadata.
TotalIsHonest ==
  call.answer = "page" =>
    \A n \in call.total :
      \/ \E e \in during : e.version # 0 /\ n = IF call.filtered THEN Matching(e.rows) ELSE e.rows
      \/ ~call.filtered /\ (driver = "bigquery" \/ n >= Threshold)
=============================================================================
