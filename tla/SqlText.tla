------------------------------ MODULE SqlText ------------------------------
(***************************************************************************)
(* What the program reads out of a SQL text and what it writes into one:   *)
(* the three statement splitters (db/classify.ts, sql/statements.ts, and   *)
(* components/sql/split.ts in the web app), the classification behind the  *)
(* read-only gate, the editor's own guess at what is a write, and the row  *)
(* queries of db/queryBuilder.ts.                                          *)
(*                                                                         *)
(* A text is a sequence of tokens.  Words and comment marks have a blank   *)
(* on either side; a quote or a backslash touches what follows it.  "nl"   *)
(* is the end of a line, "$$" any dollar tag, "sq", "dq" and "bt" quotes,  *)
(* "bs" a backslash.                                                       *)
(* A behaviour writes a text, or the filters of a row request, step by     *)
(* step; the operators are evaluated on every prefix.                      *)
(***************************************************************************)
EXTENDS Naturals, Sequences, FiniteSets

CONSTANTS Dialects,   \* dialects of this instance
          Alphabets,  \* sets of tokens texts are written from
          Asts,       \* what the external parser says of a statement
          MaxTokens,  \* bound: tokens of a text
          MaxFilters  \* bound: filters of a request

VARIABLES dialect, alphabet, ast, text, filters

textVars == <<dialect, alphabet, ast, text, filters>>

SetMin(S) == CHOOSE x \in S : \A y \in S : x <= y
SetMax(S) == CHOOSE x \in S : \A y \in S : x >= y
-----------------------------------------------------------------------------
(* Lexers *)

\* db/classify.ts, to split a text and to blank out what is quoted.
ClassifyLexer(d) ==
  [hash |-> d = "mysql", nested |-> FALSE, dollar |-> d = "postgres",
   quotes |-> {"sq", "dq"} \cup (IF d \in {"mysql", "bigquery"} THEN {"bt"} ELSE {}),
   escapes |-> IF d = "postgres" THEN {} ELSE {"sq", "dq", "bt"}]

ScrubLexer(d) == [ClassifyLexer(d) EXCEPT !.quotes = {"sq", "dq", "bt"}]

\* Mutant: double quotes are no quotes.
GuardLexerSingle ==
  [hash |-> TRUE, nested |-> FALSE, dollar |-> TRUE,
   quotes |-> {"sq", "bt"}, escapes |-> {"sq", "dq", "bt"}]

\* sql/statements.ts, the same for every dialect.
GuardLexer ==
  [hash |-> TRUE, nested |-> FALSE, dollar |-> TRUE,
   quotes |-> {"sq", "dq", "bt"}, escapes |-> {"sq", "dq", "bt"}]

\* components/sql/split.ts.
EditorLexer ==
  [hash |-> FALSE, nested |-> TRUE, dollar |-> TRUE,
   quotes |-> {"sq", "dq"}, escapes |-> {"sq"}]

Code == [in |-> "code", depth |-> 0, escaped |-> FALSE]
Within(mark) == [Code EXCEPT !.in = mark, !.depth = 1]

Opens(L) == L.quotes \cup {"--", "/*"} \cup (IF L.hash THEN {"#"} ELSE {})
                     \cup (IF L.dollar THEN {"$$"} ELSE {})

\* Where a lexer that is at m is behind token t.
After(L, m, t) ==
  CASE m.in = "code"        -> IF t \in Opens(L) THEN Within(t) ELSE Code
    [] m.in \in {"--", "#"} -> IF t = "nl" THEN Code ELSE m
    [] m.in = "$$"          -> IF t = "$$" THEN Code ELSE m
    [] m.in = "/*" /\ t = "*/" -> IF m.depth = 1 THEN Code ELSE [m EXCEPT !.depth = @ - 1]
    [] m.in = "/*" /\ t # "*/" -> IF L.nested /\ t = "/*" THEN [m EXCEPT !.depth = @ + 1] ELSE m
    [] m.escaped            -> [m EXCEPT !.escaped = FALSE]
    [] OTHER                -> IF t = m.in THEN Code
                               ELSE [m EXCEPT !.escaped = t = "bs" /\ m.in \in L.escapes]

Modes(L, s) == LET mode[i \in 0..Len(s)] == IF i = 0 THEN Code ELSE After(L, mode[i-1], s[i])
               IN mode

\* Positions outside literals and comments.
CodeOf(L, s) == LET mode == Modes(L, s)
                IN {i \in DOMAIN s : mode[i-1] = Code /\ mode[i] = Code}

\* The pieces between the semicolons, without the blank ones.  A piece of
\* nothing but a comment counts.
Pieces(L, s) ==
  LET ends == {i \in CodeOf(L, s) : s[i] = ";"} \cup {Len(s) + 1}
      From(e) == 1 + Cardinality({i \in 1..(e-1) : \E f \in ends : i <= f /\ f < e})
      piece(e) == [from |-> From(e), to |-> e - 1]
  IN {piece(e) : e \in {e \in ends : \E i \in From(e)..(e-1) : s[i] # "nl"}}

PieceText(s, p) == SubSeq(s, p.from, p.to)

SplitStatements(s, d) == Pieces(ClassifyLexer(d), s)
IsMultiStatement(s) == Cardinality(Pieces(GuardLexer, s)) > 1
-----------------------------------------------------------------------------
(* Classification *)

ReadLeading == {"select", "show", "explain"}
Introspective == {"show", "explain"}
WriteLeading == {"insert"}
DdlLeading == {"drop", "rename"}
DenyTokens == WriteLeading \cup DdlLeading \cup {"into"}
DenyFunctions(d) == IF d = "bigquery" THEN {} ELSE {"sleep"}
EditorWrites == {"insert", "drop"}   \* DML_RE
Words == ReadLeading \cup DenyTokens \cup {"sleep", "analyze", "name"}

Scrubbed(s, d) == CodeOf(ScrubLexer(d), s)

\* The first thing outside quotes and comments, if it is a word.
LeadingKeyword(s, d) ==
  LET rest == {i \in Scrubbed(s, d) : s[i] \notin {"nl", "("}}
  IN IF rest # {} /\ s[SetMin(rest)] \in Words THEN s[SetMin(rest)] ELSE ""

ContainsWord(s, d, words) == \E i \in Scrubbed(s, d) : s[i] \in words

\* The parse tree of node-sql-parser: a select may write through INTO or in a
\* CTE, which the walk over its parts finds.
AstKind(a) ==
  CASE a \in {"insert", "select into", "select with insert"} -> "write"
    [] a = "drop" -> "ddl"
    [] a \in {"select", "show"} -> "read"
    [] OTHER -> "other"

Classify(s, d) ==
  LET lead == LeadingKeyword(s, d)
  IN CASE lead \in WriteLeading -> "write"
       [] lead \in DdlLeading -> "ddl"
       [] lead \notin ReadLeading \cup WriteLeading \cup DdlLeading -> "other"
       [] OTHER ->
            IF ContainsWord(s, d, DenyTokens) THEN "write"
            ELSE IF ContainsWord(s, d, DenyFunctions(d)) THEN "other"
            ELSE IF ast = "fails" THEN (IF lead \in Introspective THEN "read" ELSE "other")
            ELSE AstKind(ast)

ClassifyStatements(s, d) ==
  {[piece |-> p, kind |-> Classify(PieceText(s, p), d)] : p \in SplitStatements(s, d)}

IsReadOnlySql(s, d) ==
  LET statements == ClassifyStatements(s, d)
  IN statements # {} /\ \A x \in statements : x.kind = "read"

\* The text may follow EXPLAIN.
ExplainGuard(s, d) ==
  LET pieces == SplitStatements(s, d)
  IN /\ Cardinality(pieces) = 1
     /\ \A p \in pieces : LeadingKeyword(PieceText(s, p), d) \notin {"analyze", "explain", ""}

\* Nothing but comments: what detectCommand skips.
CommentLexer == [GuardLexer EXCEPT !.hash = FALSE, !.dollar = FALSE, !.quotes = {}]

\* The command a result reports: the first word behind blanks, comments and
\* parentheses.
DetectCommand(s) ==
  LET rest == {i \in CodeOf(CommentLexer, s) : s[i] \notin {"nl", "("}}
  IN IF rest # {} /\ s[SetMin(rest)] \in Words THEN s[SetMin(rest)] ELSE ""

\* What stops sql.run in read-only mode: the handler, then the driver.
RunIsAccepted(s, d, readOnly) ==
  readOnly => ~IsMultiStatement(s) /\ IsReadOnlySql(s, d)

\* isWriteStatement: closed block comments are cut out, wherever they stand.
\* The end of the last one begun by i.
BlockEnds(s) ==
  LET closes(i) == {j \in (i+1)..Len(s) : s[j] = "*/"}
      end[i \in 0..Len(s)] ==
        CASE i = 0 -> 0
          [] i > 0 /\ i > end[i-1] /\ s[i] = "/*" /\ closes(i) # {} -> SetMin(closes(i))
          [] OTHER -> end[i-1]
  IN end

\* What is left without the line comments, too.
Bare(s) ==
  LET kept == {i \in DOMAIN s : BlockEnds(s)[i] < i}
      lineComment(i) ==
        \E j \in kept : j <= i /\ s[j] = "--" /\ \A k \in kept : j < k /\ k <= i => s[k] # "nl"
  IN {i \in kept : ~lineComment(i) /\ s[i] # "nl"}

\* Its beginning is compared.
IsWriteStatement(s) == Bare(s) # {} /\ s[SetMin(Bare(s))] \in EditorWrites

\* The piece an editor's cursor (behind token c) is in: the first that reaches
\* it, else the last that begins before it, else the first.  Blanks around a
\* piece are not part of it, its semicolon is.
StatementAt(s, c) ==
  LET pieces == Pieces(EditorLexer, s)
      solid(p) == {i \in p.from..p.to : s[i] # "nl"}
      from(p) == SetMin(solid(p)) - 1
      to(p) == IF p.to < Len(s) THEN p.to + 1 ELSE SetMax(solid(p))
      reaching == {p \in pieces : from(p) <= c /\ c <= to(p) + 1}
      before == {p \in pieces : from(p) <= c}
      First(P) == CHOOSE p \in P : \A q \in P : p.from <= q.from
      Last(P) == CHOOSE p \in P : \A q \in P : p.from >= q.from
  IN IF reaching # {} THEN First(reaching) ELSE IF before # {} THEN Last(before) ELSE First(pieces)

\* What the run key sends when nothing is selected.
SqlToRun(s, c) == IF Pieces(EditorLexer, s) = {} THEN s ELSE PieceText(s, StatementAt(s, c))
-----------------------------------------------------------------------------
(* Row queries *)

FilterOps == {"is_null", "in", "like", "eq", "neq"}
FilterValues == {"none", "null", "one", "empty", "two"}

\* How many values renderFilter binds; an IN without values is 1 = 0.
Bound(f) ==
  CASE f.op = "is_null" -> 0
    [] f.op = "like" -> 1
    [] f.op = "in" -> CASE f.value \in {"none", "empty"} -> 0
                        [] f.value = "two" -> 2
                        [] OTHER -> 1
    [] OTHER -> IF f.value \in {"none", "null"} THEN 0 ELSE 1

\* The k-th filter behind n parameters: $n in postgres, ? elsewhere.
RenderFilter(d, f, n, k) ==
  [slots |-> [i \in 1..Bound(f) |-> [filter |-> k, slot |-> IF d = "postgres" THEN n + i ELSE 0]],
   params |-> [i \in 1..Bound(f) |-> [filter |-> k, value |-> i]]]

\* The WHERE clause, which buildRowsQuery and buildCountQuery share.
BuildWhere(d, fs) ==
  LET built[k \in 0..Len(fs)] ==
        IF k = 0 THEN [slots |-> <<>>, params |-> <<>>]
        ELSE LET before == built[k-1]
                 this == RenderFilter(d, fs[k], Len(before.params), k)
             IN [slots |-> before.slots \o this.slots, params |-> before.params \o this.params]
  IN built[Len(fs)]
-----------------------------------------------------------------------------
(* Inputs *)

TextInit ==
  /\ dialect \in Dialects
  /\ \/ alphabet \in Alphabets /\ ast \in IF "(" \in alphabet THEN Asts ELSE {"select"}
     \/ alphabet = {} /\ ast = "select"
  /\ text = <<>> /\ filters = <<>>

Write(t) ==
  /\ t \in alphabet /\ Len(text) < MaxTokens
  /\ text' = Append(text, t)
  /\ UNCHANGED <<dialect, alphabet, ast, filters>>

Filter(f) ==
  /\ alphabet = {} /\ Len(filters) < MaxFilters
  /\ filters' = Append(filters, f)
  /\ UNCHANGED <<dialect, alphabet, ast, text>>

TextNext ==
  \/ \E t \in alphabet : Write(t)
  \/ \E op \in FilterOps, v \in FilterValues : Filter([op |-> op, value |-> v])

TextSpec == TextInit /\ [][TextNext]_textVars
-----------------------------------------------------------------------------
(* Properties *)

Has(s, tokens) == \E i \in DOMAIN s : s[i] \in tokens

\* What the handler and the driver read differently in a dialect: who escapes in
\* a quote, what is a comment, what is a quote.
GuardContested(d) ==
  (IF d = "postgres" THEN {} ELSE {"$$"})
  \cup (IF d = "mysql" THEN {} ELSE {"#"})
  \cup (IF d \in {"mysql", "bigquery"} THEN {} ELSE {"bt"})
  \cup (IF d = "postgres" THEN {"bs"} ELSE {})

\* What the editor reads differently; a comment inside a comment, too.
Contested(s, d) ==
  \/ Has(s, {"bs", "#", "bt"} \cup GuardContested(d))
  \/ Cardinality({i \in DOMAIN s : s[i] = "/*"}) > 1

\* One text, one set of statements: the handler refuses several pieces, the
\* driver classifies each, the editor sends the piece the cursor is in, and they
\* mean the same pieces by it, except for what is contested.
SplittersAgree ==
  /\ \/ Has(text, GuardContested(dialect))
     \/ Pieces(GuardLexer, text) = SplitStatements(text, dialect)
  /\ \/ Contested(text, dialect)
     \/ /\ Pieces(EditorLexer, text) = SplitStatements(text, dialect)
        /\ \A c \in 0..Len(text) : ~IsMultiStatement(SqlToRun(text, c))

\* The editor cuts block comments before line comments, and looks for neither in
\* quotes: of both kinds in one text, one may hide the end of the other.
MixesComments(s) == Has(s, {"--"}) /\ Has(s, {"/*"})

\* What passes as read-only is a read to the other readers, too: to the result
\* that names its command, to the editor, which would ask before a write (but
\* for a quoted text behind comments of both kinds), and to the editor's lexer,
\* outside whose quotes no word writes.
ReadsLookLikeReads ==
  ~Contested(text, dialect) /\ RunIsAccepted(text, dialect, TRUE) =>
    /\ DetectCommand(text) \notin DenyTokens
    /\ IsWriteStatement(text) => MixesComments(text) /\ Has(text, {"sq", "dq", "$$"})
    /\ \A i \in CodeOf(EditorLexer, text) : text[i] \notin DenyTokens

\* The editor asks before what the driver calls a write by its first word, except
\* behind a parenthesis, a quoted text or a comment mark in a comment of the other
\* kind, and for RENAME, which its list does not have.
EditorAsksForWrites ==
  LeadingKeyword(text, dialect) \in WriteLeading \cup DdlLeading
  /\ ~Contested(text, dialect) /\ ~Has(text, {"(", "rename"})
  => \/ IsWriteStatement(text)
     \/ Has(text, {"sq", "dq", "$$"})
     \/ MixesComments(text)

\* Every slot of a row query is bound to a value of the filter it stands in,
\* and nothing else is bound.
SlotsAreBound ==
  LET where == BuildWhere(dialect, filters)
      bound(i) == IF dialect = "postgres" THEN where.slots[i].slot ELSE i
  IN /\ Len(where.slots) = Len(where.params)
     /\ \A i \in DOMAIN where.slots :
          bound(i) \in DOMAIN where.params /\ where.params[bound(i)].filter = where.slots[i].filter
=============================================================================
