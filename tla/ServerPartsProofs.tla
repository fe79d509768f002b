----------------------------- MODULE ServerPartsProofs -----------------------------
(***************************************************************************)
(* What holds of the parts of the server for every value of their          *)
(* constants: an inductive invariant of each, kept by its steps and by     *)
(* those that leave it alone.  PartsProofs puts them together.             *)
(*                                                                         *)
(* Scripts, batches, message parts and lists of rows are functions of how  *)
(* far a scan has come; what they compute is shown by the induction of     *)
(* ScreenPartsProofs.                                                      *)
(***************************************************************************)
EXTENDS BigQueryJobs, PgTypes, TableReads, CliTurn, TurnContext, SavedQueries, SqliteDriver,
        TurnParts, ClaudeRuntime, History, AgentTools, ScreenPartsProofs

-----------------------------------------------------------------------------
(* BigQueryJobs                                                            *)

\* A job belongs to a call that asked for it, and only what came back as a
\* result or an error is an answer.
JobInv(j) ==
  /\ queries[j].at = "new" => jobs[j] = "none"
  /\ queries[j].at # "over" => queries[j].answer \notin {"rows", "blocked"}
  /\ queries[j].at = "over" =>
       /\ jobs[j] = "running" => j \in lostJobs
       /\ queries[j].answer = "rows" => jobs[j] = "done"
       /\ queries[j].answer = "blocked" => jobs[j] = "none"

QueryShape ==
  [at: {"new", "creating", "waiting", "canceling", "over"}, interrupted: BOOLEAN, readOnly: BOOLEAN,
   answer: {"none", "rows", "error", "interrupted", "blocked"}]

JobsInv ==
  /\ queries \in [Queries -> QueryShape]
  /\ jobs \in [Queries -> {"none", "running", "done", "failed", "canceled"}]
  /\ \A j \in Queries : JobInv(j)

LEMMA JobsStart == JobsInit => JobsInv
  BY DEF JobsInit, JobsInv, JobInv, QueryShape

\* A call that moves: what is said of it and its job, the others being as they
\* were.
LEMMA JobMoves ==
  ASSUME JobsInv, NEW j \in Queries,
         queries' \in [Queries -> QueryShape],
         jobs' \in [Queries -> {"none", "running", "done", "failed", "canceled"}],
         \A p \in Queries : p # j => queries'[p] = queries[p] /\ jobs'[p] = jobs[p],
         lostJobs \subseteq lostJobs',
         JobInv(j)'
  PROVE  JobsInv'
  BY DEF JobsInv, JobInv

LEMMA EndsShape ==
  ASSUME JobsInv, NEW j \in Queries, NEW a \in {"rows", "error", "interrupted", "blocked"}
  PROVE  Ends(j, a) \in QueryShape /\ Ends(j, a).at = "over" /\ Ends(j, a).answer = a
  <1>1. queries[j] \in QueryShape
    BY DEF JobsInv
  <1>. QED  BY <1>1 DEF Ends, QueryShape

LEMMA JobsStep ==
  ASSUME JobsInv, JobsNext
  PROVE  JobsInv'
  <1> USE DEF JobsInv, JobInv
  <1>0. PICK j \in Queries :
          \/ \E ro, isRead \in BOOLEAN : Submit(j, ro, isRead)
          \/ JobStarts(j) \/ JobEnds(j) \/ Created(j) \/ CreateFails(j)
          \/ ResultsArrive(j) \/ ResultsFail(j) \/ InterruptQuery(j)
          \/ \E reached \in BOOLEAN : Cancelled(j, reached)
    BY DEF JobsNext
  <1>1. ASSUME NEW ro \in BOOLEAN, NEW isRead \in BOOLEAN, Submit(j, ro, isRead)
        PROVE  JobsInv'
    <2> DEFINE new == IF ro /\ ~isRead THEN Ends(j, "blocked") ELSE [queries[j] EXCEPT !.at = "creating"]
    <2>1. queries[j] \in QueryShape /\ Ends(j, "blocked") \in QueryShape
      BY EndsShape
    <2>2. new \in QueryShape /\ new.at \in {"over", "creating"}
          /\ new.answer \in {"blocked", queries[j].answer}
          /\ (new.at = "creating" => new.answer = queries[j].answer)
      BY <2>1, EndsShape DEF QueryShape
    <2>3. queries' = [queries EXCEPT ![j] = [new EXCEPT !.readOnly = ro]]
      BY <1>1 DEF Submit
    <2> HIDE DEF new
    <2>4. /\ queries' \in [Queries -> QueryShape]
          /\ queries'[j].at = new.at /\ queries'[j].answer = new.answer
          /\ \A p \in Queries : p # j => queries'[p] = queries[p]
      BY <2>2, <2>3 DEF QueryShape
    <2>5. jobs[j] = "none" /\ queries[j].at = "new" /\ UNCHANGED <<jobs, lostJobs>>
      BY <1>1 DEF Submit
    <2>. QED  BY <2>2, <2>4, <2>5, JobMoves
  <1>2. CASE JobStarts(j)
    BY <1>2 DEF JobStarts
  <1>3. CASE JobEnds(j)
    BY <1>3 DEF JobEnds
  <1>4. CASE Created(j)
    <2>1. queries' \in [Queries -> QueryShape] /\ queries'[j].at \in {"canceling", "waiting"}
      BY <1>4 DEF Created, QueryShape
    <2>2. queries'[j].answer = queries[j].answer
      BY <1>4 DEF Created, QueryShape
    <2>3. \A p \in Queries : p # j => queries'[p] = queries[p]
      BY <1>4 DEF Created
    <2>. QED  BY <1>4, <2>1, <2>2, <2>3, JobMoves DEF Created
  <1>5. CASE CreateFails(j)
    <2>1. PICK a \in {"interrupted", "error"} : queries' = [queries EXCEPT ![j] = Ends(j, a)]
      BY <1>5 DEF CreateFails
    <2>2. /\ queries' \in [Queries -> QueryShape]
          /\ queries'[j].at = "over" /\ queries'[j].answer = a
          /\ \A p \in Queries : p # j => queries'[p] = queries[p]
      BY <2>1, EndsShape
    <2>3. lostJobs \subseteq lostJobs' /\ (jobs[j] # "none" => j \in lostJobs') /\ UNCHANGED jobs
      BY <1>5 DEF CreateFails
    <2>. QED  BY <2>2, <2>3, JobMoves
  <1>6. CASE ResultsArrive(j)
    <2>1. /\ queries' \in [Queries -> QueryShape]
          /\ queries'[j].at = "over" /\ queries'[j].answer = "rows"
          /\ \A p \in Queries : p # j => queries'[p] = queries[p]
      BY <1>6, EndsShape DEF ResultsArrive
    <2>. QED  BY <1>6, <2>1, JobMoves DEF ResultsArrive
  <1>7. CASE ResultsFail(j)
    <2> DEFINE new == [queries[j] EXCEPT !.at = "canceling", !.answer = "error"]
    <2>1. new \in QueryShape /\ new.at = "canceling" /\ new.answer = "error"
      BY DEF QueryShape
    <2>2. queries' = [queries EXCEPT ![j] = new] /\ queries[j].at = "waiting" /\ UNCHANGED <<jobs, lostJobs>>
      BY <1>7 DEF ResultsFail
    <2> HIDE DEF new
    <2>3. /\ queries' \in [Queries -> QueryShape] /\ queries'[j] = new
          /\ \A p \in Queries : p # j => queries'[p] = queries[p]
      BY <2>1, <2>2
    <2>. QED  BY <2>1, <2>2, <2>3, JobMoves
  <1>8. CASE InterruptQuery(j)
    <2>0. PICK a \in {"creating", "canceling"} :
            queries' = [queries EXCEPT ![j] = [queries[j] EXCEPT !.interrupted = TRUE, !.at = a]]
      <3>1. queries[j].at \in {"creating", "waiting"} /\ queries[j] \in QueryShape
        BY <1>8 DEF InterruptQuery
      <3>2. CASE queries[j].at = "waiting"
        BY <1>8, <3>1, <3>2 DEF InterruptQuery, QueryShape
      <3>3. CASE queries[j].at = "creating"
        BY <1>8, <3>1, <3>3 DEF InterruptQuery, QueryShape
      <3>. QED  BY <3>1, <3>2, <3>3
    <2>1. /\ queries' \in [Queries -> QueryShape]
          /\ queries'[j].at = a /\ queries'[j].answer = queries[j].answer
      <3> DEFINE new == [queries[j] EXCEPT !.interrupted = TRUE, !.at = a]
      <3>1. new \in QueryShape /\ new.at = a /\ new.answer = queries[j].answer
        <4>1. queries[j] \in QueryShape
          OBVIOUS
        <4>. QED  BY <4>1 DEF QueryShape
      <3>. QED  BY <2>0, <3>1
    <2>3. \A p \in Queries : p # j => queries'[p] = queries[p]
      BY <2>0
    <2>. QED  BY <1>8, <2>1, <2>3, JobMoves DEF InterruptQuery
  <1>9. ASSUME NEW reached \in BOOLEAN, Cancelled(j, reached)
        PROVE  JobsInv'
    <2>1. PICK a \in {"interrupted", "error"} : queries' = [queries EXCEPT ![j] = Ends(j, a)]
      BY <1>9 DEF Cancelled
    <2>2. /\ queries' \in [Queries -> QueryShape]
          /\ queries'[j].at = "over" /\ queries'[j].answer = a
          /\ \A p \in Queries : p # j => queries'[p] = queries[p]
      BY <2>1, EndsShape
    <2>3. /\ jobs' \in [Queries -> {"none", "running", "done", "failed", "canceled"}]
          /\ \A p \in Queries : p # j => jobs'[p] = jobs[p]
          /\ jobs'[j] = "running" => ~reached
      BY <1>9 DEF Cancelled
    <2>4. lostJobs \subseteq lostJobs' /\ (~reached => j \in lostJobs')
      BY <1>9 DEF Cancelled
    <2>. QED  BY <2>2, <2>3, <2>4, JobMoves
  <1>. QED  BY <1>0, <1>1, <1>2, <1>3, <1>4, <1>5, <1>6, <1>7, <1>8, <1>9

-----------------------------------------------------------------------------
(* PgTypes                                                                 *)

ResultShape ==
  [at: {"new", "sweep", "format", "done"}, oids: SUBSET (Builtin \cup Custom),
   asks: SUBSET (Builtin \cup Custom), named: SUBSET (Builtin \cup Custom)]

\* What a result asks for is all that has no name yet, and the database knows
\* it: types are never dropped from the catalog of this model.
ResultInv(r) ==
  /\ results[r].oids \subseteq Builtin \cup catalog
  /\ results[r].at = "format" => results[r].oids \subseteq Builtin \cup cache \cup results[r].asks
  /\ results[r].at = "done" => results[r].named = results[r].oids \/ r \in typesFailed

TypesInv ==
  /\ results \in [Results -> ResultShape]
  /\ catalog \subseteq Custom
  /\ \A r \in Results : ResultInv(r)

LEMMA TypesStart == TypesInit => TypesInv
  BY DEF TypesInit, TypesInv, ResultInv, ResultShape, Idle

\* One result moves, while catalog, cache and failures only grow.
LEMMA ResultMoves ==
  ASSUME TypesInv, NEW r \in Results, NEW s \in ResultShape,
         results' = [results EXCEPT ![r] = s],
         cache \subseteq cache', typesFailed \subseteq typesFailed',
         UNCHANGED catalog,
         ResultInv(r)'
  PROVE  TypesInv'
  <1>1. ASSUME NEW j \in Results, j # r PROVE ResultInv(j)'
    <2>1. results'[j] = results[j]
      BY <1>1 DEF TypesInv
    <2>. QED  BY <2>1 DEF TypesInv, ResultInv
  <1>. QED  BY <1>1 DEF TypesInv

\* Ask, for a result whose types the database knows.
LEMMA AskProperties ==
  ASSUME NEW s \in ResultShape, NEW c
  PROVE  /\ Ask(s, c) \in ResultShape
         /\ Ask(s, c).oids = s.oids
         /\ Ask(s, c).at \in {"format", "done"}
         /\ Ask(s, c).at = "format" => s.oids \subseteq Builtin \cup c \cup Ask(s, c).asks
         /\ Ask(s, c).at = "done" => Ask(s, c).named = s.oids
  <1> DEFINE missing == Unnamed(s.oids, c)
  <1>1. missing \in SUBSET (Builtin \cup Custom) /\ s.oids \subseteq Builtin \cup c \cup missing
    BY DEF Unnamed, ResultShape
  <1>2. CASE missing # {}
    <2>1. Ask(s, c) = [s EXCEPT !.at = "format", !.asks = missing]
      BY <1>2 DEF Ask
    <2> HIDE DEF missing
    <2>. QED  BY <1>1, <2>1 DEF ResultShape
  <1>3. CASE missing = {}
    <2>1. Ask(s, c) = [s EXCEPT !.at = "done", !.asks = {}, !.named = s.oids]
      BY <1>3 DEF Ask
    <2>. QED  BY <2>1 DEF ResultShape
  <1>. QED  BY <1>2, <1>3

LEMMA TypesStep ==
  ASSUME TypesInv, TypesNext
  PROVE  TypesInv'
  <1>1. CASE CreateType
    BY <1>1 DEF CreateType, TypesInv, ResultInv
  <1>2. ASSUME NEW r \in Results, NEW oids \in SUBSET (Builtin \cup Custom), Resolve(r, oids)
        PROVE  TypesInv'
    <2> DEFINE new == [Idle EXCEPT !.oids = oids]
               s == IF Unnamed(oids, cache) # {} /\ ~catalogLoaded THEN [new EXCEPT !.at = "sweep"]
                                                                  ELSE Ask(new, cache)
    <2>1. new \in ResultShape /\ new.oids = oids
      BY DEF Idle, ResultShape
    <2>2. results' = [results EXCEPT ![r] = s]
      BY <1>2 DEF Resolve
    <2> HIDE DEF new
    <2>3. /\ s \in ResultShape /\ s.oids = oids /\ s.at # "new"
          /\ s.at = "format" => oids \subseteq Builtin \cup cache \cup s.asks
          /\ s.at = "done" => s.named = oids
      BY <2>1, AskProperties DEF ResultShape
    <2> HIDE DEF s
    <2>4. results'[r] = s
      BY <2>2 DEF TypesInv
    <2>5. oids \subseteq Builtin \cup catalog /\ UNCHANGED <<catalog, cache, typesFailed>>
      BY <1>2 DEF Resolve
    <2>6. ResultInv(r)'
      BY <2>3, <2>4, <2>5 DEF ResultInv
    <2>. QED  BY <2>2, <2>3, <2>5, <2>6, ResultMoves
  <1>3. ASSUME NEW r \in Results, NEW works \in BOOLEAN, Swept(r, works)
        PROVE  TypesInv'
    <2> DEFINE s == Ask(results[r], cache')
    <2>1. /\ results' = [results EXCEPT ![r] = s] /\ UNCHANGED catalog
          /\ cache \subseteq cache' /\ typesFailed \subseteq typesFailed'
      BY <1>3 DEF Swept
    <2>2. results[r] \in ResultShape /\ results[r].oids \subseteq Builtin \cup catalog
      BY DEF TypesInv, ResultInv
    <2>3. /\ s \in ResultShape /\ s.oids = results[r].oids
          /\ s.at = "format" => s.oids \subseteq Builtin \cup cache' \cup s.asks
          /\ s.at = "done" => s.named = s.oids
      BY <2>2, AskProperties
    <2> HIDE DEF s
    <2>4. results'[r] = s
      BY <2>1 DEF TypesInv
    <2>5. ResultInv(r)'
      BY <2>1, <2>2, <2>3, <2>4 DEF ResultInv
    <2>. QED  BY <2>1, <2>3, <2>5, ResultMoves
  <1>4. ASSUME NEW r \in Results, NEW works \in BOOLEAN, Formatted(r, works)
        PROVE  TypesInv'
    <2> DEFINE names == results[r].oids \ Unnamed(results[r].oids, cache')
               s == [results[r] EXCEPT !.at = "done", !.asks = {}, !.named = names]
    <2>1. /\ UNCHANGED catalog /\ results[r].at = "format"
          /\ cache \subseteq cache' /\ typesFailed \subseteq typesFailed'
          /\ works => cache' = cache \cup (results[r].asks \cap catalog)
          /\ ~works => r \in typesFailed'
      BY <1>4 DEF Formatted
    <2>2. /\ results[r] \in ResultShape /\ ResultInv(r)
      BY DEF TypesInv
    <2>3. results' = [results EXCEPT ![r] = s]
      BY <1>4, <2>2 DEF Formatted, ResultShape
    <2>4. works => names = results[r].oids
      BY <2>1, <2>2 DEF ResultInv, Unnamed
    <2>5. names \in SUBSET (Builtin \cup Custom)
      BY <2>2 DEF ResultShape
    <2> HIDE DEF names
    <2>6. /\ s \in ResultShape /\ s.oids = results[r].oids /\ s.at = "done" /\ s.named = names
      BY <2>2, <2>5 DEF ResultShape
    <2> HIDE DEF s
    <2>7. results'[r] = s
      BY <2>3 DEF TypesInv
    <2>8. ResultInv(r)'
      BY <2>1, <2>2, <2>4, <2>6, <2>7 DEF ResultInv
    <2>. QED  BY <2>1, <2>3, <2>6, <2>8, ResultMoves
  <1>. QED  BY <1>1, <1>2, <1>3, <1>4 DEF TypesNext

-----------------------------------------------------------------------------
(* TableReads                                                              *)

TableCalls == {"introspect", "describe", "rows"}

CallShape(c) ==
  c = [kind |-> c.kind, filtered |-> c.filtered, asks |-> c.asks, saw |-> c.saw,
       answer |-> c.answer, columns |-> c.columns, total |-> c.total]

\* What query j saw was so at a moment of the call; a description that was
\* given up saw nothing, at a moment without a table.
SawIt(j, saw) ==
  \E e \in during : /\ e.version = saw[j].version
                    /\ j \notin Describes => e.rows = saw[j].rows

ReadsInv ==
  /\ driver \in Drivers
  /\ CallShape(call) /\ DOMAIN call.saw = Parts
  /\ call.kind = "none" => call.answer = "none" /\ call.asks = {} /\ \A j \in Parts : call.saw[j] = Missing
  /\ call.kind # "none" =>
       /\ call.kind \in TableCalls /\ call.asks \subseteq Asks(call.kind)
       /\ call.answer = "none" =>
            /\ [version |-> version, rows |-> rowsIn] \in during
            /\ \A j \in Asks(call.kind) :
                 IF j \in call.asks THEN call.saw[j] = Missing ELSE SawIt(j, call.saw)
  /\ NotFoundIsTrue /\ PageIsLabelled /\ TotalIsHonest

LEMMA AsksParts ==
  ASSUME NEW k \in TableCalls
  PROVE  Asks(k) \subseteq Parts /\ Describes \subseteq Parts
  BY DEF Asks, Describes, TableCalls, Parts

LEMMA ReadsStart == ReadsInit => ReadsInv
  <1> SUFFICES ASSUME ReadsInit PROVE ReadsInv
    OBVIOUS
  <1>1. call = [kind |-> "none", filtered |-> FALSE, asks |-> {}, saw |-> [p \in Parts |-> Missing],
                answer |-> "none", columns |-> <<>>, total |-> {}]
    BY DEF ReadsInit, None
  <1>2. driver \in Drivers
    BY DEF ReadsInit
  <1>. QED  BY <1>1, <1>2 DEF ReadsInv, CallShape, NotFoundIsTrue, PageIsLabelled, TotalIsHonest

\* The steps of others: the call stays, and what they do during it is a moment
\* of it.
LEMMA OthersKeepReads ==
  ASSUME ReadsInv, UNCHANGED <<driver, call>>, during \subseteq during',
         \/ call.answer # "none" \/ call.kind = "none"
         \/ [version |-> version', rows |-> rowsIn'] \in during'
  PROVE  ReadsInv'
  <1>1. \A j \in Asks(call.kind) : SawIt(j, call.saw) => SawIt(j, call.saw)'
    BY DEF SawIt, Describes
  <1>2. Asks(call.kind)' = Asks(call.kind)
    BY DEF Asks, Describes
  <1>3. (NotFoundIsTrue /\ PageIsLabelled /\ TotalIsHonest)'
    BY DEF ReadsInv, NotFoundIsTrue, PageIsLabelled, TotalIsHonest
  <1>. QED  BY <1>1, <1>2, <1>3 DEF ReadsInv, CallShape, TableCalls

\* A call all of whose queries saw what was so is answered truly.
LEMMA AnswerIsTrue ==
  ASSUME NEW c, CallShape(c), c.kind \in TableCalls, c.filtered = call.filtered,
         \A j \in Asks(c.kind) : SawIt(j, c.saw),
         driver \in Drivers, call' = TableAnswer(c), UNCHANGED <<driver, during>>
  PROVE  /\ (NotFoundIsTrue /\ PageIsLabelled /\ TotalIsHonest)'
         /\ CallShape(call)' /\ call'.saw = c.saw /\ call'.kind = c.kind
         /\ call'.asks = c.asks /\ call'.answer # "none"
  <1>1. CASE c.kind = "introspect"
    <2>1. call' = [c EXCEPT !.answer = "schemas", !.total = Schemas(c.saw)]
      BY <1>1 DEF TableAnswer
    <2>. QED  BY <2>1 DEF CallShape, NotFoundIsTrue, PageIsLabelled, TotalIsHonest
  <1>2. Detail(c.saw) \in {"not found", "detail"}
        /\ (Detail(c.saw) = "not found" => \E j \in Describes : c.saw[j].version = 0)
    <2>1. "columns" \in Describes
      BY DEF Describes
    <2>. QED  BY <2>1, DriversAreKnown DEF Detail, PostgresDetail, MysqlDetail, SqliteDetail, BigqueryDetail
  <1>3. CASE c.kind = "describe"
    <2>1. call' = [c EXCEPT !.answer = Detail(c.saw)]
      BY <1>3 DEF TableAnswer
    <2>2. Asks(c.kind) = Describes
      BY <1>3 DEF Asks
    <2>3. NotFoundIsTrue'
      BY <1>2, <2>1, <2>2 DEF NotFoundIsTrue, SawIt, CallShape
    <2>. QED  BY <1>2, <2>1, <2>3 DEF CallShape, PageIsLabelled, TotalIsHonest
  <1>4. CASE c.kind = "rows"
    <2>1. call' = [c EXCEPT !.answer = "page", !.columns = PageColumns(c.saw), !.total = Total(c.saw)]
      BY <1>4 DEF TableAnswer
    <2>2. /\ call'.answer = "page" /\ call'.columns = PageColumns(c.saw) /\ call'.total = Total(c.saw)
          /\ call'.saw = c.saw /\ call'.kind = c.kind /\ call'.asks = c.asks
          /\ call'.filtered = call.filtered /\ CallShape(call)'
      BY <2>1 DEF CallShape
    <2>3. {"page", "count", "columns"} \subseteq Asks(c.kind)
      BY <1>4 DEF Asks, Describes
    <2>4. PageIsLabelled'
      <3>1. DOMAIN call'.columns = ColumnsAt(c.saw["page"].version)
        BY <2>2 DEF PageColumns
      <3>2. ASSUME NEW x \in DOMAIN call'.columns
            PROVE  \E e \in during : e.version = call'.columns[x] /\ x \in ColumnsAt(e.version)
        <4> DEFINE described == IF Detail(c.saw) = "detail" THEN ColumnsAt(c.saw["columns"].version) ELSE {}
        <4>1. call'.columns[x] = IF x \in described THEN c.saw["columns"].version ELSE c.saw["page"].version
          BY <2>2, <3>1, <3>2 DEF PageColumns
        <4>2. CASE x \in described
          BY <2>3, <4>1, <4>2 DEF SawIt
        <4>3. CASE x \notin described
          BY <2>3, <3>1, <3>2, <4>1, <4>3 DEF SawIt
        <4>. QED  BY <4>2, <4>3
      <3>. QED  BY <2>2, <3>1, <3>2 DEF PageIsLabelled
    <2>5. TotalIsHonest'
      <3> SUFFICES ASSUME NEW n \in Total(c.saw)
                   PROVE  \/ \E e \in during : e.version # 0 /\ n = IF call.filtered THEN Matching(e.rows) ELSE e.rows
                          \/ ~call.filtered /\ (driver = "bigquery" \/ n >= Threshold)
        BY <2>2 DEF TotalIsHonest, Matching
      <3>1. CASE n \in Counted(c.saw)
        <4>1. c.saw["count"].version # 0 /\ n = IF call.filtered THEN Matching(c.saw["count"].rows) ELSE c.saw["count"].rows
          BY <3>1 DEF Counted
        <4>2. PICK e \in during : e.version = c.saw["count"].version /\ e.rows = c.saw["count"].rows
          <5>1. "count" \notin Describes
            BY DEF Describes
          <5>. QED  BY <2>3, <5>1 DEF SawIt
        <4>. QED  BY <4>1, <4>2
      <3>2. CASE n \notin Counted(c.saw)
        BY <3>2, DriversAreKnown DEF Total, PostgresTotal, MysqlTotal, SqliteTotal, BigqueryTotal
      <3>. QED  BY <3>1, <3>2
    <2>. QED  BY <2>2, <2>4, <2>5 DEF NotFoundIsTrue
  <1>. QED  BY <1>1, <1>3, <1>4 DEF TableCalls

\* What the update of a call by the answer of a query leaves.
LEMMA CallAnswered ==
  ASSUME NEW r, CallShape(r), NEW p, NEW x, NEW l
  PROVE  [r EXCEPT !.saw[p] = x, !.asks = l] =
           [kind |-> r.kind, filtered |-> r.filtered, asks |-> l, saw |-> [r.saw EXCEPT ![p] = x],
            answer |-> r.answer, columns |-> r.columns, total |-> r.total]
  <1> DEFINE b == [r EXCEPT !.saw = [r.saw EXCEPT ![p] = x]]
  <1>1. [r EXCEPT !.saw[p] = x, !.asks = l] = [b EXCEPT !.asks = l]
    OBVIOUS
  <1>2. b = [kind |-> r.kind, filtered |-> r.filtered, asks |-> r.asks, saw |-> [r.saw EXCEPT ![p] = x],
             answer |-> r.answer, columns |-> r.columns, total |-> r.total]
    BY DEF CallShape
  <1> HIDE DEF b
  <1>. QED  BY <1>1, <1>2

LEMMA QueryKeepsReads ==
  ASSUME ReadsInv, NEW p \in Parts, Query(p)
  PROVE  ReadsInv'
  <1> DEFINE fails == FailsWithout(p) /\ version = 0
             left  == IF fails /\ p \in Describes THEN call.asks \ Describes ELSE call.asks \ {p}
             c     == [call EXCEPT !.saw[p] = Seen, !.asks = left]
             now   == [version |-> version, rows |-> rowsIn]
  <1>1. /\ call.answer = "none" /\ p \in call.asks
        /\ \/ call' = [c EXCEPT !.answer = "error", !.asks = {}]
           \/ left = {} /\ call' = TableAnswer(c)
           \/ left # {} /\ call' = c
        /\ UNCHANGED <<driver, version, versions, rowsIn, estimate, during>>
    <2>1. c.asks = left
      BY DEF ReadsInv, CallShape
    <2>. QED  BY <2>1 DEF Query, None
  <1>2. CallShape(call) /\ DOMAIN call.saw = Parts /\ driver \in Drivers
    BY DEF ReadsInv
  <1>3. CASE call.kind = "none"
    BY <1>1, <1>3 DEF ReadsInv
  <1>4. CASE call.kind # "none"
    <2>1. /\ call.kind \in TableCalls /\ call.asks \subseteq Asks(call.kind) /\ now \in during
          /\ \A j \in Asks(call.kind) : IF j \in call.asks THEN call.saw[j] = Missing ELSE SawIt(j, call.saw)
      BY <1>1, <1>4 DEF ReadsInv
    <2>2. /\ CallShape(c) /\ c.kind = call.kind /\ c.filtered = call.filtered /\ c.answer = "none"
          /\ c.asks = left /\ DOMAIN c.saw = Parts /\ c.saw[p] = Seen
          /\ \A j \in Parts : j # p => c.saw[j] = call.saw[j]
      <3> HIDE DEF left
      <3>1. c = [kind |-> call.kind, filtered |-> call.filtered, asks |-> left,
                 saw |-> [call.saw EXCEPT ![p] = Seen], answer |-> call.answer,
                 columns |-> call.columns, total |-> call.total]
        BY <1>2, CallAnswered
      <3> HIDE DEF c
      <3>2. CallShape(c)
        BY <3>1 DEF CallShape
      <3>3. /\ c.kind = call.kind /\ c.filtered = call.filtered /\ c.answer = call.answer
            /\ c.asks = left /\ c.saw = [call.saw EXCEPT ![p] = Seen]
        BY <3>1
      <3>4. DOMAIN c.saw = Parts /\ c.saw[p] = Seen /\ \A j \in Parts : j # p => c.saw[j] = call.saw[j]
        BY <1>2, <3>3
      <3>. QED  BY <1>1, <3>2, <3>3, <3>4
    <2> HIDE DEF c
    <2>3. \A j \in Asks(c.kind) : IF j \in left THEN c.saw[j] = Missing ELSE SawIt(j, c.saw)
      <3> SUFFICES ASSUME NEW j \in Asks(c.kind)
                   PROVE  IF j \in left THEN c.saw[j] = Missing ELSE SawIt(j, c.saw)
        OBVIOUS
      <3>0. j \in Parts
        BY <2>1, <2>2, AsksParts
      <3>1. CASE j = p
        <4>1. j \notin left
          BY <3>1, <1>1
        <4>. QED  BY <2>1, <2>2, <3>1, <4>1 DEF SawIt, Seen
      <3>2. CASE j # p /\ j \in left
        BY <2>1, <2>2, <3>0, <3>2
      <3>3. CASE j # p /\ j \notin left /\ j \notin call.asks
        BY <2>1, <2>2, <3>0, <3>3 DEF SawIt
      <3>4. CASE j # p /\ j \notin left /\ j \in call.asks
        <4>1. fails /\ j \in Describes
          BY <3>4
        <4>2. c.saw[j].version = now.version
          BY <2>1, <2>2, <3>0, <3>4, <4>1 DEF Missing
        <4>. QED  BY <2>1, <3>4, <4>1, <4>2 DEF SawIt
      <3>. QED  BY <3>1, <3>2, <3>3, <3>4
    <2>4. Asks(call.kind)' = Asks(call'.kind) /\ Describes' = Describes
      BY <1>1 DEF Asks, Describes
    <2>5. \A k \in TableCalls : Asks(k)' = Asks(k)
      BY <1>1 DEF Asks, Describes
    <2> HIDE DEF left, now
    <2>6. CASE call' = [c EXCEPT !.answer = "error", !.asks = {}]
      BY <1>1, <1>2, <2>1, <2>2, <2>6 DEF ReadsInv, CallShape, NotFoundIsTrue, PageIsLabelled, TotalIsHonest
    <2>7. CASE left = {} /\ call' = TableAnswer(c)
      BY <1>1, <1>2, <2>1, <2>2, <2>3, <2>7, AnswerIsTrue DEF ReadsInv
    <2>8. CASE left # {} /\ call' = c
      <3>1. left \subseteq Asks(c.kind)
        BY <2>1, <2>2 DEF left
      <3>2. \A j \in Asks(c.kind) : SawIt(j, c.saw) => SawIt(j, call.saw)'
        BY <1>1, <2>4, <2>8 DEF SawIt
      <3>3. now' = now
        BY <1>1 DEF now
      <3>4. \A j \in Asks(call'.kind) :
              IF j \in call'.asks THEN call'.saw[j] = Missing ELSE SawIt(j, call.saw)'
        BY <2>2, <2>3, <2>8, <3>2
      <3>5. (NotFoundIsTrue /\ PageIsLabelled /\ TotalIsHonest)'
        BY <2>2, <2>8 DEF NotFoundIsTrue, PageIsLabelled, TotalIsHonest
      <3>6. CallShape(call)' /\ Missing' = Missing
        BY <2>2, <2>8 DEF CallShape, Missing
      <3>7. [version |-> version, rows |-> rowsIn]' \in during'
        BY <1>1, <2>1, <3>3 DEF now
      <3>. QED  BY <1>1, <1>2, <2>1, <2>2, <2>4, <2>8, <3>1, <3>4, <3>5, <3>6, <3>7 DEF ReadsInv
    <2>. QED  BY <1>1, <2>6, <2>7, <2>8
  <1>. QED  BY <1>3, <1>4

LEMMA CallKeepsReads ==
  ASSUME ReadsInv, NEW kind \in TableCalls, NEW filtered \in BOOLEAN, Call(kind, filtered)
  PROVE  ReadsInv'
  <1>1. /\ call' = [call EXCEPT !.kind = kind, !.filtered = filtered, !.asks = Asks(kind)]
        /\ during' = {[version |-> version, rows |-> rowsIn]}
        /\ UNCHANGED <<driver, version, versions, rowsIn, estimate>>
        /\ call.kind = "none"
    BY DEF Call, None
  <1>2. /\ CallShape(call)' /\ call'.kind = kind /\ call'.asks = Asks(kind) /\ call'.saw = call.saw
        /\ call'.answer = "none"
    BY <1>1 DEF ReadsInv, CallShape
  <1>3. Asks(kind)' = Asks(kind) /\ Asks(kind) \subseteq Parts
    BY <1>1, AsksParts DEF Asks, Describes
  <1>4. kind # "none"
    BY DEF TableCalls
  <1>. QED  BY <1>1, <1>2, <1>3, <1>4 DEF ReadsInv, NotFoundIsTrue, PageIsLabelled, TotalIsHonest

LEMMA ReadsStep ==
  ASSUME ReadsInv, ReadsNext
  PROVE  ReadsInv'
  <1>1. CASE AlterTable
    BY <1>1, OthersKeepReads DEF AlterTable, Now, Pending, None
  <1>2. CASE InsertRows
    BY <1>2, OthersKeepReads DEF InsertRows, Now, Pending, None
  <1>3. CASE Analyze
    BY <1>3, OthersKeepReads DEF Analyze, Pending, None, ReadsInv
  <1>4. CASE \E kind \in TableCalls, filtered \in BOOLEAN : Call(kind, filtered)
    BY <1>4, CallKeepsReads
  <1>5. CASE \E p \in Parts : Query(p)
    BY <1>5, QueryKeepsReads
  <1>. QED  BY <1>1, <1>2, <1>3, <1>4, <1>5 DEF ReadsNext, TableCalls

-----------------------------------------------------------------------------
(* CliTurn                                                                 *)

CliTypes ==
  /\ cliChild \in {"up", "gone", "failed"} /\ stop \in {"no", "asking", "returned"}
  /\ startup \in Waiting \cup {"session", "over", "failed"}
  /\ killed \in BOOLEAN /\ turnId \in BOOLEAN /\ settled \in BOOLEAN /\ completed \in BOOLEAN
  /\ token \in BOOLEAN
  /\ chain \in Seq({"text", "tool"})
  /\ linesRead \in Nat /\ early \in Nat /\ ranOf \in Nat /\ ahead \in Nat
  /\ mcp \in [McpCalls -> {"no", "running", "over", "refused"}]

\* Every line read is run or in the chain, and what the end waits for covers
\* what was read before it.
CliInv ==
  /\ CliTypes
  /\ linesRead = ranOf + Len(chain)
  /\ settled => early <= ranOf + ahead
  /\ completed => settled /\ ahead = 0 /\ ~token /\ (Codex => killed)
  /\ stop = "asking" => turnId
  /\ cliChild = "failed" => settled
  /\ NobodyWaitsForTheDead /\ OnlySilenceHoldsInterrupt

LEMMA CliStart == CliInit => CliInv
  <1> SUFFICES ASSUME CliInit PROVE CliInv
    OBVIOUS
  <1>1. chain \in Seq({"text", "tool"}) /\ Len(chain) = 0
    BY DEF CliInit
  <1>2. CliTypes
    BY <1>1 DEF CliInit, CliTypes, Waiting
  <1>. QED  BY <1>1, <1>2 DEF CliInit, CliInv, NobodyWaitsForTheDead, OnlySilenceHoldsInterrupt

\* A step that may end the turn, but neither runs nor reads a callback.
LEMMA EndKeepsChain ==
  ASSUME CliInv, NEW o, End(o) \/ UNCHANGED <<settled, ahead, outcome, early>>,
         UNCHANGED <<chain, linesRead, ranOf>>
  PROVE  /\ settled' \in BOOLEAN /\ ahead' \in Nat /\ early' \in Nat
         /\ settled' => early' <= ranOf' + ahead'
         /\ settled => UNCHANGED <<settled, ahead, early>>
         /\ End(o) => settled'
  <1> USE DEF CliInv, CliTypes
  <1>1. CASE UNCHANGED <<settled, ahead, outcome, early>> /\ ~End(o)
    BY <1>1
  <1>2. CASE End(o) /\ settled
    BY <1>2 DEF End
  <1>3. CASE End(o) /\ ~settled
    <2>1. settled' = TRUE /\ ahead' = Len(chain) /\ early' = linesRead
      BY <1>3 DEF End
    <2>2. early' <= ranOf' + ahead' /\ ahead' \in Nat /\ early' \in Nat
      BY <2>1
    <2>. QED  BY <1>3, <2>1, <2>2
  <1>. QED  BY <1>1, <1>2, <1>3

LEMMA CliStep ==
  ASSUME CliInv, CliNext
  PROVE  CliInv'
  <1> USE DEF CliInv, NobodyWaitsForTheDead, OnlySilenceHoldsInterrupt
  <1>0. CliTypes /\ "turn/interrupt" \notin Waiting
    BY DEF Waiting
  <1>1. ASSUME NEW method \in Waiting, NEW ok \in BOOLEAN, Respond(method, ok)
        PROVE  CliInv'
    <2>1. PICK next \in Waiting \cup {"session", "over", "failed"} :
            /\ startup' = next
            /\ pending' = (pending \ {method}) \cup ({next} \cap Waiting)
            /\ IF next = "failed" THEN End("error") ELSE UNCHANGED <<settled, ahead, outcome, early>>
      BY <1>1 DEF Respond, Waiting
    <2>2. /\ cliChild = "up" /\ ~completed
          /\ UNCHANGED <<provider, cliChildVars, resumes, turnId, chain, linesRead, ranOf,
                         providerError, completed, stop, mcpVars>>
      BY <1>1 DEF Respond
    <2>3. CliTypes'
      BY <2>1, <2>2, EndKeepsChain DEF CliTypes, cliChildVars, mcpVars
    <2>. QED  BY <1>0, <2>1, <2>2, <2>3, EndKeepsChain DEF Codex, cliChildVars, mcpVars
  <1>2. ASSUME NEW ok \in BOOLEAN, SessionSaved(ok)
        PROVE  CliInv'
    <2>1. CASE ok /\ cliChild = "up"
      <3>1. CliTypes'
        BY <1>2, <2>1 DEF SessionSaved, CliTypes, cliChildVars, mcpVars, Waiting
      <3>. QED  BY <1>0, <1>2, <2>1, <3>1 DEF SessionSaved, cliChildVars, mcpVars, Codex
    <2>2. CASE ~(ok /\ cliChild = "up")
      <3>1. CliTypes'
        BY <1>2, <2>2, EndKeepsChain DEF SessionSaved, CliTypes, cliChildVars, mcpVars
      <3>. QED  BY <1>0, <1>2, <2>2, <3>1, EndKeepsChain DEF SessionSaved, cliChildVars, mcpVars, Codex, Waiting
    <2>. QED  BY <2>1, <2>2
  <1>3. CASE TurnStarted
    BY <1>3 DEF TurnStarted, CliTypes, cliChildVars, startVars, chainVars, endVars, mcpVars, Codex
  <1>4. ASSUME NEW task \in {"text", "tool"}, Line(task)
        PROVE  CliInv'
    <2>1. chain' \in Seq({"text", "tool"}) /\ Len(chain') = Len(chain) + 1
      BY <1>4 DEF Line, CliTypes
    <2>. QED  BY <1>4, <2>1 DEF Line, CliTypes, cliChildVars, startVars, endVars, mcpVars, Codex
  <1>5. CASE ErrorLine
    BY <1>5 DEF ErrorLine, CliTypes, cliChildVars, startVars, chainVars, mcpVars, Codex
  <1>6. ASSUME NEW failed \in BOOLEAN, TurnCompleted(failed)
        PROVE  CliInv'
    <2>1. CliTypes'
      BY <1>6, EndKeepsChain DEF TurnCompleted, CliTypes, cliChildVars, startVars, mcpVars
    <2>. QED  BY <1>6, <2>1, EndKeepsChain DEF TurnCompleted, cliChildVars, startVars, mcpVars, Codex, Reading
  <1>7. CASE RunTask
    <2>1. chain' \in Seq({"text", "tool"}) /\ Len(chain') = Len(chain) - 1
      BY <1>7 DEF RunTask, CliTypes
    <2>. QED  BY <1>7, <2>1 DEF RunTask, CliTypes, cliChildVars, startVars, mcpVars, Codex
  <1>8. ASSUME NEW status \in {0, 1}, Exit(status)
        PROVE  CliInv'
    <2>1. CliTypes'
      BY <1>8, EndKeepsChain DEF Exit, CliTypes, mcpVars, Waiting
    <2>. QED  BY <1>8, <2>1, EndKeepsChain DEF Exit, mcpVars, Codex, Waiting
  <1>9. CASE SpawnFailed
    <2>1. CliTypes'
      BY <1>9, EndKeepsChain DEF SpawnFailed, CliTypes, startVars, mcpVars
    <2>. QED  BY <1>9, <2>1, EndKeepsChain DEF SpawnFailed, startVars, mcpVars, Codex
  <1>10. CASE Finish
    BY <1>10 DEF Finish, CliTypes, startVars, chainVars, mcpVars, Codex
  <1>11. CASE Interrupt
    <2>1. CASE Codex /\ startup \in {"session", "turn/start", "over"} /\ turnId /\ ~settled
      <3>1. /\ stop' = "asking" /\ pending' = pending \cup {"turn/interrupt"}
            /\ UNCHANGED <<killed, provider, cliChild, startup, resumes, turnId, chainVars, endVars, mcpVars>>
        BY <1>11, <2>1 DEF Interrupt
      <3>2. CliTypes'
        BY <3>1 DEF CliTypes, chainVars, endVars, mcpVars
      <3>3. cliChild = "up"
        BY <1>11, <2>1, <1>0 DEF CliTypes, Interrupt
      <3>. QED  BY <2>1, <3>1, <3>2, <3>3 DEF chainVars, endVars, mcpVars, Codex
    <2>2. CASE ~(Codex /\ startup \in {"session", "turn/start", "over"} /\ turnId /\ ~settled)
      <3>1. /\ stop' = "returned" /\ killed' = TRUE
            /\ UNCHANGED <<provider, cliChild, startup, resumes, pending, turnId, chainVars, endVars, mcpVars>>
        BY <1>11, <2>2 DEF Interrupt
      <3>2. CliTypes'
        BY <3>1 DEF CliTypes, chainVars, endVars, mcpVars
      <3>. QED  BY <3>1, <3>2 DEF chainVars, endVars, mcpVars, Codex
    <2>. QED  BY <2>1, <2>2
  <1>12. CASE Interrupted
    BY <1>12, <1>0 DEF Interrupted, CliTypes, chainVars, endVars, mcpVars, Codex
  <1>13. ASSUME NEW c \in McpCalls, McpCall(c) \/ McpAnswer(c)
         PROVE  CliInv'
    BY <1>13 DEF McpCall, McpAnswer, CliTypes, cliChildVars, startVars, chainVars, endVars, Codex
  <1>. QED  BY <1>1, <1>2, <1>3, <1>4, <1>5, <1>6, <1>7, <1>8, <1>9, <1>10, <1>11, <1>12, <1>13 DEF CliNext

-----------------------------------------------------------------------------
(* TurnContext                                                             *)

SdkValue == [legacy: BOOLEAN, sessions: [Providers -> Nat]]
TurnShape ==
  [at: {"idle", "acquire", "introspect", "talking"}, provider: Providers \cup {"anthropic"},
   sdkSessionId: SdkValue, of: Nat, straddled: BOOLEAN, resumed: Nat]

\* A thread that no late callback overtook has what was told in its row and in
\* the copy of its turn, or of the callback that is still to come.
SessionInv(t) ==
  t \notin overtaken =>
    /\ sessionIds[t].sessions = told[t]
    /\ context[t].at # "idle" => context[t].sdkSessionId.sessions = told[t] /\ lateSave[t] = NoSave
    /\ lateSave[t] # NoSave => lateSave[t].sdkSessionId.sessions = told[t]

\* A summary of a database that has been replaced was stored before that, or
\* straddled it, and so was an introspection that is under way.
SummaryInv ==
  /\ database \in 1..MaxEdits \cup {1} /\ editedAt \in [1..MaxEdits -> Nat]
  /\ summary \in [of: Nat, at: Nat, straddled: BOOLEAN]
  /\ summary.of <= database /\ summary.at <= clock
  /\ summary.of \notin {0, database} => editedAt[summary.of] >= summary.at \/ summary.straddled
  /\ \A t \in ChatThreads : context[t].at = "introspect" =>
       context[t].of = database \/ (context[t].straddled /\ context[t].of <= database)

ContextInv ==
  /\ clock \in Nat /\ sessionsTold \in Nat
  /\ context \in [ChatThreads -> TurnShape]
  /\ sessionIds \in [ChatThreads -> SdkValue] /\ told \in [ChatThreads -> [Providers -> Nat]]
  /\ lateSave \in [ChatThreads -> [provider: Providers \cup {"anthropic", "none"}, session: Nat, sdkSessionId: SdkValue]]
  /\ \A t \in ChatThreads : SessionInv(t)
  /\ SummaryInv

LEMMA ContextStart == ContextInit => ContextInv
  <1> SUFFICES ASSUME ContextInit PROVE ContextInv
    OBVIOUS
  <1>1. NoSessions \in [Providers -> Nat]
    BY DEF NoSessions
  <1>2. NoTurnYet \in TurnShape /\ NoTurnYet.at = "idle"
    BY <1>1 DEF NoTurnYet, TurnShape, SdkValue
  <1>3. NoSave \in [provider: Providers \cup {"anthropic", "none"}, session: Nat, sdkSessionId: SdkValue]
    BY <1>1 DEF NoSave, SdkValue
  <1>4. PICK legacy \in BOOLEAN :
          /\ sessionIds = [t \in ChatThreads |-> [legacy |-> legacy, sessions |->
                             [p \in Providers |-> IF legacy /\ p = "anthropic" THEN 1 ELSE 0]]]
          /\ sessionsTold = IF legacy THEN 1 ELSE 0
    BY DEF ContextInit
  <1>5. sessionIds \in [ChatThreads -> SdkValue] /\ sessionsTold \in Nat
    BY <1>4 DEF SdkValue
  <1>6. told = [t \in ChatThreads |-> sessionIds[t].sessions] /\ told \in [ChatThreads -> [Providers -> Nat]]
    BY <1>5 DEF ContextInit, SdkValue
  <1>7. SummaryInv
    BY <1>2, ContextAssumption DEF ContextInit, SummaryInv, NoSummary
  <1>. QED  BY <1>2, <1>3, <1>5, <1>6, <1>7 DEF ContextInit, ContextInv, SessionInv

LEMMA SetSessionShape ==
  ASSUME NEW v \in SdkValue, NEW j, NEW session \in Nat
  PROVE  /\ SetProviderSession(v, j, session) \in SdkValue
         /\ SetProviderSession(v, j, session).sessions = [v.sessions EXCEPT ![j] = session]
  BY DEF SetProviderSession, DecodeProviderSessions, SdkValue

\* The sessions side of a step that moves one thread.
LEMMA ThreadMoves ==
  ASSUME ContextInv, NEW t \in ChatThreads,
         context' \in [ChatThreads -> TurnShape], sessionIds' \in [ChatThreads -> SdkValue],
         told' \in [ChatThreads -> [Providers -> Nat]],
         lateSave' \in [ChatThreads -> [provider: Providers \cup {"anthropic", "none"}, session: Nat, sdkSessionId: SdkValue]],
         clock' \in Nat, sessionsTold' \in Nat, overtaken \subseteq overtaken',
         \A u \in ChatThreads : u # t => UNCHANGED <<context[u], sessionIds[u], told[u], lateSave[u]>>,
         SessionInv(t)', SummaryInv'
  PROVE  ContextInv'
  BY DEF ContextInv, SessionInv

\* The summary side of a step that leaves it alone and introspects nothing.
LEMMA SummaryStays ==
  ASSUME ContextInv, NEW t \in ChatThreads, UNCHANGED <<clock, database, editedAt, summary>>,
         context'[t].at # "introspect",
         \A u \in ChatThreads : u # t => context'[u] = context[u]
  PROVE  SummaryInv'
  BY DEF ContextInv, SummaryInv

\* A turn that begins to talk, whatever its summary.
LEMMA TalkKeepsSessions ==
  ASSUME ContextInv, NEW t \in ChatThreads, NEW of \in Nat, NEW straddled \in BOOLEAN,
         Talk(t, of, straddled), context[t].at # "idle",
         UNCHANGED <<clock, sessionIds, told, sessionsTold, lateSave, overtaken>>, SummaryInv'
  PROVE  ContextInv'
  <1> DEFINE s == [context[t] EXCEPT !.at = "talking", !.of = of, !.straddled = straddled]
  <1>1. context[t] \in TurnShape
    BY DEF ContextInv
  <1>2. s \in TurnShape /\ s.at = "talking" /\ s.sdkSessionId = context[t].sdkSessionId
    BY <1>1 DEF TurnShape
  <1>3. context' = [context EXCEPT ![t] = s]
    BY DEF Talk, ContextInv
  <1> HIDE DEF s
  <1>4. /\ context' \in [ChatThreads -> TurnShape] /\ context'[t] = s
        /\ \A u \in ChatThreads : u # t => context'[u] = context[u]
    BY <1>2, <1>3 DEF ContextInv
  <1>5. SessionInv(t)'
    BY <1>2, <1>4 DEF ContextInv, SessionInv
  <1>. QED  BY <1>4, <1>5, ThreadMoves DEF ContextInv

LEMMA SessionStep ==
  ASSUME ContextInv, NEW t \in ChatThreads,
         \/ \E j \in Providers : StartTurn(t, j)
         \/ \E b \in BOOLEAN : SaveProviderSession(t, b) \/ EndTurn(t, b)
         \/ LateSave(t)
  PROVE  ContextInv'
  <1>0. /\ context[t] \in TurnShape /\ sessionIds[t] \in SdkValue /\ SessionInv(t)
        /\ told[t] \in [Providers -> Nat] /\ sessionsTold \in Nat
        /\ lateSave[t] \in [provider: Providers \cup {"anthropic", "none"}, session: Nat, sdkSessionId: SdkValue]
    BY DEF ContextInv
  <1>1. ASSUME NEW j \in Providers, StartTurn(t, j)
        PROVE  ContextInv'
    <2> DEFINE s == [NoTurnYet EXCEPT !.at = "acquire", !.provider = j, !.sdkSessionId = sessionIds[t],
                                      !.resumed = DecodeProviderSessions(sessionIds[t])[j]]
    <2>1. DecodeProviderSessions(sessionIds[t])[j] \in Nat
      BY <1>0 DEF DecodeProviderSessions, SdkValue
    <2>2. s \in TurnShape /\ s.at = "acquire" /\ s.sdkSessionId = sessionIds[t]
      BY <1>0, <2>1 DEF NoTurnYet, TurnShape
    <2>3. /\ context' = [context EXCEPT ![t] = s]
          /\ overtaken' = IF lateSave[t] = NoSave THEN overtaken ELSE overtaken \cup {t}
          /\ UNCHANGED <<clock, database, editedAt, summary, sessionIds, told, sessionsTold, lateSave>>
      BY <1>1 DEF StartTurn
    <2> HIDE DEF s
    <2>4. /\ context' \in [ChatThreads -> TurnShape] /\ context'[t] = s
          /\ \A u \in ChatThreads : u # t => context'[u] = context[u]
      BY <2>2, <2>3 DEF ContextInv
    <2>5. SessionInv(t)'
      BY <1>0, <2>2, <2>3, <2>4 DEF SessionInv
    <2>6. SummaryInv'
      BY <2>2, <2>3, <2>4, SummaryStays
    <2>. QED  BY <2>3, <2>4, <2>5, <2>6, ThreadMoves DEF ContextInv
  <1>2. ASSUME NEW b \in BOOLEAN, SaveProviderSession(t, b)
        PROVE  ContextInv'
    <2> DEFINE c == context[t]
               session == IF b THEN c.resumed ELSE sessionsTold + 1
               value == SetProviderSession(c.sdkSessionId, c.provider, session)
               s == [c EXCEPT !.sdkSessionId = value]
    <2>1. session \in Nat /\ c.sdkSessionId \in SdkValue
      BY <1>0 DEF TurnShape
    <2>2. value \in SdkValue /\ value.sessions = [c.sdkSessionId.sessions EXCEPT ![c.provider] = session]
      <3> HIDE DEF session
      <3>. QED  BY <2>1, SetSessionShape
    <2>3. /\ c.at = "talking" /\ sessionsTold' \in Nat
          /\ told' = [told EXCEPT ![t][c.provider] = session]
          /\ context' = [context EXCEPT ![t].sdkSessionId = value]
          /\ sessionIds' = [sessionIds EXCEPT ![t] = IF value = c.sdkSessionId THEN @ ELSE value]
          /\ UNCHANGED <<clock, database, editedAt, summary, lateSave, overtaken>>
      BY <1>0, <1>2, <2>1 DEF SaveProviderSession
    <2> HIDE DEF value, session
    <2>4. s \in TurnShape /\ s.at = "talking" /\ s.sdkSessionId = value
      BY <1>0, <2>2, <2>3 DEF TurnShape
    <2>5. /\ context' \in [ChatThreads -> TurnShape] /\ context'[t] = s
          /\ \A u \in ChatThreads : u # t => context'[u] = context[u]
      BY <2>3, <2>4 DEF ContextInv
    <2> HIDE DEF s
    <2>6. /\ told' \in [ChatThreads -> [Providers -> Nat]]
          /\ told'[t] = [told[t] EXCEPT ![c.provider] = session]
          /\ \A u \in ChatThreads : u # t => told'[u] = told[u]
      BY <2>1, <2>3 DEF ContextInv
    <2>7. /\ sessionIds' \in [ChatThreads -> SdkValue]
          /\ sessionIds'[t] = IF value = c.sdkSessionId THEN sessionIds[t] ELSE value
          /\ \A u \in ChatThreads : u # t => sessionIds'[u] = sessionIds[u]
      BY <1>0, <2>2, <2>3 DEF ContextInv
    <2>8. SessionInv(t)'
      BY <1>0, <2>2, <2>3, <2>4, <2>5, <2>6, <2>7 DEF SessionInv
    <2>9. SummaryInv'
      BY <2>3, <2>4, <2>5, SummaryStays
    <2>. QED  BY <2>3, <2>5, <2>6, <2>7, <2>8, <2>9, ThreadMoves DEF ContextInv
  <1>3. ASSUME NEW b \in BOOLEAN, EndTurn(t, b)
        PROVE  ContextInv'
    <2>1. NoTurnYet \in TurnShape /\ NoTurnYet.at = "idle"
      <3>1. NoSessions \in [Providers -> Nat]
        BY DEF NoSessions
      <3>. QED  BY <3>1 DEF NoTurnYet, TurnShape, SdkValue
    <2>2. /\ context' \in [ChatThreads -> TurnShape] /\ context'[t] = NoTurnYet
          /\ \A u \in ChatThreads : u # t => context'[u] = context[u]
      BY <1>3, <2>1 DEF EndTurn, ContextInv
    <2>3. PICK s \in [provider: Providers \cup {"anthropic", "none"}, session: Nat, sdkSessionId: SdkValue] :
            /\ lateSave' = [lateSave EXCEPT ![t] = s]
            /\ s = lateSave[t] \/ s.sdkSessionId = context[t].sdkSessionId
      <3> DEFINE new == [provider |-> context[t].provider, session |-> sessionsTold + 1,
                         sdkSessionId |-> context[t].sdkSessionId]
      <3>1. new \in [provider: Providers \cup {"anthropic", "none"}, session: Nat, sdkSessionId: SdkValue]
        BY <1>0 DEF TurnShape
      <3>2. lateSave' = [lateSave EXCEPT ![t] = new] \/ lateSave' = [lateSave EXCEPT ![t] = lateSave[t]]
        BY <1>3 DEF EndTurn
      <3>. QED  BY <1>0, <3>1, <3>2
    <2>4. /\ lateSave' \in [ChatThreads -> [provider: Providers \cup {"anthropic", "none"}, session: Nat, sdkSessionId: SdkValue]]
          /\ lateSave'[t] = s
          /\ \A u \in ChatThreads : u # t => lateSave'[u] = lateSave[u]
      BY <2>3 DEF ContextInv
    <2>5. /\ sessionsTold' \in Nat /\ context[t].at = "talking"
          /\ UNCHANGED <<clock, database, editedAt, summary, sessionIds, told, overtaken>>
      BY <1>0, <1>3 DEF EndTurn
    <2>6. SessionInv(t)'
      BY <1>0, <2>1, <2>2, <2>3, <2>4, <2>5 DEF SessionInv
    <2>7. SummaryInv'
      BY <2>1, <2>2, <2>5, SummaryStays
    <2>. QED  BY <2>2, <2>4, <2>5, <2>6, <2>7, ThreadMoves DEF ContextInv
  <1>4. CASE LateSave(t)
    <2> DEFINE s == lateSave[t]
               value == SetProviderSession(s.sdkSessionId, s.provider, s.session)
    <2>1. value \in SdkValue /\ value.sessions = [s.sdkSessionId.sessions EXCEPT ![s.provider] = s.session]
      <3>1. s.sdkSessionId \in SdkValue /\ s.session \in Nat
        BY <1>0
      <3>2. \A v \in SdkValue, n \in Nat : \A j :
              /\ SetProviderSession(v, j, n) \in SdkValue
              /\ SetProviderSession(v, j, n).sessions = [v.sessions EXCEPT ![j] = n]
        BY SetSessionShape
      <3> HIDE DEF s
      <3>. QED  BY <3>1, <3>2
    <2>2. /\ s # NoSave
          /\ sessionIds' = [sessionIds EXCEPT ![t] = value]
          /\ told' = [told EXCEPT ![t][s.provider] = s.session]
          /\ lateSave' = [lateSave EXCEPT ![t] = NoSave]
          /\ UNCHANGED <<clock, database, editedAt, summary, context, sessionsTold, overtaken>>
      BY <1>4 DEF LateSave
    <2> HIDE DEF value
    <2>3. NoSave \in [provider: Providers \cup {"anthropic", "none"}, session: Nat, sdkSessionId: SdkValue]
      <3>1. NoSessions \in [Providers -> Nat]
        BY DEF NoSessions
      <3>. QED  BY <3>1 DEF NoSave, SdkValue
    <2>4. /\ sessionIds' \in [ChatThreads -> SdkValue] /\ sessionIds'[t] = value
          /\ \A u \in ChatThreads : u # t => sessionIds'[u] = sessionIds[u]
      BY <2>1, <2>2 DEF ContextInv
    <2>5. /\ told' \in [ChatThreads -> [Providers -> Nat]] /\ told'[t] = [told[t] EXCEPT ![s.provider] = s.session]
          /\ \A u \in ChatThreads : u # t => told'[u] = told[u]
      BY <1>0, <2>2 DEF ContextInv
    <2>6. /\ lateSave' \in [ChatThreads -> [provider: Providers \cup {"anthropic", "none"}, session: Nat, sdkSessionId: SdkValue]]
          /\ lateSave'[t] = NoSave
          /\ \A u \in ChatThreads : u # t => lateSave'[u] = lateSave[u]
      BY <2>2, <2>3 DEF ContextInv
    <2>7. SessionInv(t)'
      BY <1>0, <2>1, <2>2, <2>4, <2>5, <2>6 DEF SessionInv
    <2>8. SummaryInv'
      BY <2>2 DEF ContextInv, SummaryInv
    <2>. QED  BY <2>2, <2>4, <2>5, <2>6, <2>7, <2>8, ThreadMoves DEF ContextInv
  <1>. QED  BY <1>1, <1>2, <1>3, <1>4

LEMMA SummaryStep ==
  ASSUME ContextInv, NEW t \in ChatThreads,
         LoadCached(t) \/ Introspect(t) \/ Introspected(t) \/ NoSummaryFound(t)
  PROVE  ContextInv'
  <1>0. /\ context[t] \in TurnShape /\ summary \in [of: Nat, at: Nat, straddled: BOOLEAN]
        /\ SessionInv(t) /\ clock \in Nat /\ database \in Nat
    BY ContextAssumption DEF ContextInv, SummaryInv
  <1>1. ASSUME NEW of, NEW straddled, Talk(t, of, straddled)
        PROVE  context'[t].at = "talking" /\ \A u \in ChatThreads : u # t => context'[u] = context[u]
    BY <1>0, <1>1 DEF Talk, ContextInv, TurnShape
  <1>2. CASE LoadCached(t)
    <2>1. SummaryInv'
      BY <1>1, <1>2, SummaryStays DEF LoadCached
    <2>. QED  BY <1>0, <1>2, <2>1, TalkKeepsSessions DEF LoadCached
  <1>3. CASE NoSummaryFound(t)
    <2>1. SummaryInv'
      BY <1>1, <1>3, SummaryStays DEF NoSummaryFound
    <2>. QED  BY <1>0, <1>3, <2>1, TalkKeepsSessions DEF NoSummaryFound
  <1>4. CASE Introspected(t)
    <2>1. summary' = [of |-> context[t].of, at |-> clock, straddled |-> context[t].straddled]
          /\ UNCHANGED <<clock, database, editedAt>> /\ context[t].at = "introspect"
      BY <1>4 DEF Introspected
    <2>2. context[t].of \in Nat /\ context[t].straddled \in BOOLEAN
      BY <1>0 DEF TurnShape
    <2>3. context[t].of <= database /\ (context[t].of = database \/ context[t].straddled)
      BY <1>0, <2>1 DEF ContextInv, SummaryInv
    <2>4. SummaryInv'
      <3>1. context'[t].at = "talking" /\ \A u \in ChatThreads : u # t => context'[u] = context[u]
        BY <1>1, <1>4 DEF Introspected
      <3>2. /\ summary' \in [of: Nat, at: Nat, straddled: BOOLEAN]
            /\ summary'.of <= database /\ summary'.at <= clock
            /\ summary'.of = database \/ summary'.straddled
        BY <1>0, <2>1, <2>2, <2>3
      <3>. QED  BY <2>1, <3>1, <3>2 DEF ContextInv, SummaryInv
    <2>. QED  BY <1>4, <2>1, <2>2, <2>4, TalkKeepsSessions DEF Introspected
  <1>5. CASE Introspect(t)
    <2> DEFINE s == [context[t] EXCEPT !.at = "introspect", !.of = database]
    <2>1. s \in TurnShape /\ s.at = "introspect" /\ s.of = database /\ s.sdkSessionId = context[t].sdkSessionId
      BY <1>0 DEF TurnShape
    <2>2. context' = [context EXCEPT ![t] = s]
      BY <1>5 DEF Introspect, ContextInv
    <2> HIDE DEF s
    <2>3. /\ context' \in [ChatThreads -> TurnShape] /\ context'[t] = s
          /\ \A u \in ChatThreads : u # t => context'[u] = context[u]
      BY <2>1, <2>2 DEF ContextInv
    <2>4. /\ context[t].at = "acquire"
          /\ UNCHANGED <<clock, database, editedAt, summary, sessionIds, told, sessionsTold, lateSave, overtaken>>
      BY <1>5 DEF Introspect
    <2>5. SummaryInv'
      BY <2>1, <2>3, <2>4 DEF ContextInv, SummaryInv
    <2>6. SessionInv(t)'
      BY <1>0, <2>1, <2>3, <2>4 DEF SessionInv
    <2>. QED  BY <2>3, <2>4, <2>5, <2>6, ThreadMoves DEF ContextInv
  <1>. QED  BY <1>2, <1>3, <1>4, <1>5

LEMMA EditKeepsContext ==
  ASSUME ContextInv, EditConnection
  PROVE  ContextInv'
  <1>1. /\ database < MaxEdits /\ database' = database + 1
        /\ editedAt' = [editedAt EXCEPT ![database] = clock]
        /\ context' = [t \in ChatThreads |-> [context[t] EXCEPT !.straddled = @ \/ context[t].at = "introspect"]]
        /\ UNCHANGED <<clock, summary, sessionIds, told, sessionsTold, lateSave, overtaken>>
    BY DEF EditConnection
  <1>2. database \in Nat /\ database >= 1 /\ database \in 1..MaxEdits /\ clock \in Nat
    BY <1>1, ContextAssumption DEF ContextInv, SummaryInv
  <1>3. ASSUME NEW t \in ChatThreads
        PROVE  /\ context'[t] \in TurnShape
               /\ context'[t].at = context[t].at /\ context'[t].of = context[t].of
               /\ context'[t].sdkSessionId = context[t].sdkSessionId
               /\ context[t].at = "introspect" => context'[t].straddled
    <2>1. context[t] \in TurnShape /\ (context[t].straddled \/ context[t].at = "introspect") \in BOOLEAN
      BY DEF ContextInv
    <2>2. context'[t] = [context[t] EXCEPT !.straddled = context[t].straddled \/ context[t].at = "introspect"]
      BY <1>1
    <2>. QED  BY <2>1, <2>2 DEF TurnShape
  <1>4. context' \in [ChatThreads -> TurnShape]
    BY <1>1, <1>3
  <1>5. SummaryInv'
    <2>1. editedAt' \in [1..MaxEdits -> Nat] /\ editedAt'[database] = clock
          /\ \A d \in 1..MaxEdits : d # database => editedAt'[d] = editedAt[d]
      BY <1>1, <1>2 DEF ContextInv, SummaryInv
    <2>2. database' \in 1..MaxEdits /\ database < database'
      BY <1>1, <1>2, ContextAssumption
    <2>3. summary \in [of: Nat, at: Nat, straddled: BOOLEAN] /\ summary.of <= database /\ summary.at <= clock
      BY DEF ContextInv, SummaryInv
    <2>4. summary.of \notin {0, database'} => editedAt'[summary.of] >= summary.at \/ summary.straddled
      <3>1. CASE summary.of = database
        BY <2>1, <2>3, <3>1
      <3>2. CASE summary.of # database
        BY <1>2, <2>1, <2>3, <3>2, ContextAssumption DEF ContextInv, SummaryInv
      <3>. QED  BY <3>1, <3>2
    <2>5. \A t \in ChatThreads : context'[t].at = "introspect" =>
            context'[t].straddled /\ context'[t].of <= database'
      <3> SUFFICES ASSUME NEW t \in ChatThreads, context[t].at = "introspect"
                   PROVE  context'[t].straddled /\ context[t].of <= database'
        BY <1>3
      <3>1. context[t].of \in Nat /\ context[t].of <= database
        BY <1>2 DEF ContextInv, SummaryInv, TurnShape
      <3>. QED  BY <1>2, <1>3, <2>2, <3>1
    <2>6. summary.of <= database'
      BY <1>2, <2>2, <2>3
    <2>. QED  BY <1>1, <2>1, <2>2, <2>3, <2>4, <2>5, <2>6 DEF SummaryInv
  <1>6. ASSUME NEW t \in ChatThreads PROVE SessionInv(t)'
    <2>1. SessionInv(t)
      BY DEF ContextInv
    <2>. QED  BY <1>1, <1>3, <2>1 DEF SessionInv
  <1>. QED  BY <1>1, <1>4, <1>5, <1>6 DEF ContextInv

LEMMA ContextStep ==
  ASSUME ContextInv, ContextNext
  PROVE  ContextInv'
  <1>1. CASE Tick
    <2>1. SummaryInv'
      BY <1>1 DEF Tick, ContextInv, SummaryInv
    <2>. QED  BY <1>1, <2>1 DEF Tick, ContextInv, SessionInv
  <1>2. CASE EditConnection
    BY <1>2, EditKeepsContext
  <1>3. CASE \E t \in ChatThreads :
          \/ \E j \in Providers : StartTurn(t, j)
          \/ \E b \in BOOLEAN : SaveProviderSession(t, b) \/ EndTurn(t, b)
          \/ LateSave(t)
    BY <1>3, SessionStep
  <1>4. CASE \E t \in ChatThreads : LoadCached(t) \/ Introspect(t) \/ Introspected(t) \/ NoSummaryFound(t)
    BY <1>4, SummaryStep
  <1>. QED  BY <1>1, <1>2, <1>3, <1>4 DEF ContextNext
-----------------------------------------------------------------------------
(* SavedQueries: what a call read is the row, unless another wrote it *)

RowShape == [text: Nat, created: Nat, updated: Nat]
SavedCallShape == [op: {"none", "save", "delete"}, text: Nat, prior: RowShape \cup {Unread}]
ReplyShape == [kind: {"none", "saved", "ValidationError", "NotFound", "deleted"}, text: Nat, created: Nat]

\* A call that has read the row and that nobody disturbed since has the row
\* that is there, and an answer of its window is about that row too.
SavedInv ==
  /\ savedRow \in RowShape /\ savedClock \in Nat
  /\ savedCalls \in [Windows -> SavedCallShape]
  /\ savedAnswers \in [Windows -> ReplyShape]
  /\ disturbed \in [Windows -> BOOLEAN]
  /\ \A w \in Windows : savedCalls[w].prior # Unread /\ ~disturbed[w] => savedRow = savedCalls[w].prior
  /\ AnswersAreKept

LEMMA SavedStart == SavedInit => SavedInv
  <1> SUFFICES ASSUME SavedInit PROVE SavedInv
    OBVIOUS
  <1>1. NoSavedRow \in RowShape /\ [text |-> 0, created |-> 1, updated |-> 1] \in RowShape
    BY DEF NoSavedRow, RowShape
  <1>2. NoSavedCall \in SavedCallShape /\ NoSavedCall.prior = Unread
    BY DEF NoSavedCall, SavedCallShape
  <1>3. SavedReply("none", 0, 0) \in ReplyShape /\ SavedReply("none", 0, 0).kind = "none"
    BY DEF SavedReply, ReplyShape
  <1>. QED  BY <1>1, <1>2, <1>3 DEF SavedInit, SavedInv, AnswersAreKept

\* The end of a call keeps the invariant when what it answers is about the row
\* it leaves, or its row was disturbed.
LEMMA FinishKeepsSaved ==
  ASSUME SavedInv, NEW w \in Windows, NEW row \in RowShape, NEW reply \in ReplyShape,
         FinishSaved(w, row, reply),
         ~disturbed[w] => /\ reply.kind = "saved" => row.text = reply.text /\ row.created = reply.created
                          /\ reply.kind = "deleted" => row = NoSavedRow
  PROVE  SavedInv'
  <1>1. NoSavedCall \in SavedCallShape /\ NoSavedCall.prior = Unread
    BY DEF NoSavedCall, SavedCallShape
  <1>2. /\ savedRow' = row /\ savedClock' = savedClock
        /\ savedCalls' \in [Windows -> SavedCallShape] /\ savedAnswers' \in [Windows -> ReplyShape]
        /\ disturbed' \in [Windows -> BOOLEAN]
        /\ savedCalls'[w] = NoSavedCall /\ savedAnswers'[w] = reply /\ disturbed'[w] = disturbed[w]
    BY <1>1 DEF SavedInv, FinishSaved
  <1>3. ASSUME NEW v \in Windows, v # w
        PROVE  /\ savedCalls'[v] = savedCalls[v] /\ savedAnswers'[v] = savedAnswers[v]
               /\ ~disturbed'[v] => ~disturbed[v] /\ row = savedRow
    BY <1>3 DEF SavedInv, FinishSaved
  <1>4. \A v \in Windows : savedCalls'[v].prior # Unread /\ ~disturbed'[v] => savedRow' = savedCalls'[v].prior
    BY <1>1, <1>2, <1>3 DEF SavedInv
  <1>5. AnswersAreKept'
    <2> SUFFICES ASSUME NEW v \in Windows, savedCalls'[v].prior = Unread, ~disturbed'[v]
                 PROVE  /\ savedAnswers'[v].kind = "saved" =>
                              row.text = savedAnswers'[v].text /\ row.created = savedAnswers'[v].created
                        /\ savedAnswers'[v].kind = "deleted" => row = NoSavedRow
      BY <1>2 DEF AnswersAreKept
    <2>1. CASE v = w
      BY <1>2, <2>1
    <2>2. CASE v # w
      BY <1>3, <2>2 DEF SavedInv, AnswersAreKept
    <2>. QED  BY <2>1, <2>2
  <1>. QED  BY <1>2, <1>4, <1>5 DEF SavedInv

LEMMA SavedStep ==
  ASSUME SavedInv, SavedNext
  PROVE  SavedInv'
  <1> PICK w \in Windows : \/ AskSaved(w, "save") \/ AskSaved(w, "delete")
                           \/ ReadSaved(w) \/ WriteSaved(w) \/ DeleteSaved(w)
    BY DEF SavedNext
  <1> DEFINE c == savedCalls[w]
  <1>1. c \in SavedCallShape
    BY DEF SavedInv
  <1>2. ASSUME NEW op \in {"save", "delete"}, AskSaved(w, op) PROVE SavedInv'
    <2> DEFINE asking == [op |-> op, text |-> savedClock, prior |-> Unread]
    <2>1. asking \in SavedCallShape /\ asking.prior = Unread /\ c.prior = Unread
      BY <1>2 DEF SavedInv, SavedCallShape, AskSaved, NoSavedCall
    <2>2. /\ savedCalls' \in [Windows -> SavedCallShape] /\ savedCalls'[w] = asking
          /\ \A v \in Windows : v # w => savedCalls'[v] = savedCalls[v]
      BY <1>2, <2>1 DEF SavedInv, AskSaved
    <2>3. UNCHANGED <<savedRow, savedAnswers, disturbed>> /\ savedClock' \in Nat
      BY <1>2 DEF SavedInv, AskSaved
    <2>. QED  BY <2>1, <2>2, <2>3 DEF SavedInv, AnswersAreKept
  <1>3. ASSUME ReadSaved(w) PROVE SavedInv'
    <2>1. savedRow # Unread
      BY DEF SavedInv, RowShape, Unread
    <2>2. [c EXCEPT !.prior = savedRow] \in SavedCallShape /\ [c EXCEPT !.prior = savedRow].prior = savedRow
      BY <1>1 DEF SavedInv, SavedCallShape
    <2>3. /\ savedCalls' \in [Windows -> SavedCallShape] /\ savedCalls'[w].prior = savedRow
          /\ \A v \in Windows : v # w => savedCalls'[v] = savedCalls[v] /\ disturbed'[v] = disturbed[v]
      BY <1>3, <2>2 DEF SavedInv, ReadSaved
    <2>4. UNCHANGED <<savedRow, savedAnswers, savedClock>> /\ disturbed' \in [Windows -> BOOLEAN]
      BY <1>3 DEF SavedInv, ReadSaved
    <2>. QED  BY <2>1, <2>3, <2>4 DEF SavedInv, AnswersAreKept
  <1>4. ASSUME WriteSaved(w) PROVE SavedInv'
    <2>1. c.prior # Unread /\ c.prior \in RowShape /\ c.text \in Nat
      BY <1>1, <1>4 DEF WriteSaved, SavedCallShape
    <2>2. ~disturbed[w] => savedRow = c.prior
      BY <2>1 DEF SavedInv
    <2>3. savedRow \in RowShape
      BY DEF SavedInv
    <2>4. CASE c.prior # NoSavedRow
      <3> DEFINE row == IF savedRow = NoSavedRow THEN NoSavedRow
                        ELSE [savedRow EXCEPT !.text = c.text, !.updated = c.text]
                 reply == SavedReply("saved", c.text, c.prior.created)
      <3>1. row \in RowShape /\ reply \in ReplyShape
        BY <2>1, <2>3 DEF RowShape, ReplyShape, NoSavedRow, SavedReply
      <3>2. ~disturbed[w] => row.text = reply.text /\ row.created = reply.created
        BY <2>1, <2>2, <2>4 DEF RowShape, SavedReply
      <3>3. FinishSaved(w, row, reply) /\ reply.kind = "saved"
        BY <1>4, <2>4 DEF WriteSaved, SavedReply
      <3>. HIDE DEF row, reply
      <3>. QED  BY <3>1, <3>2, <3>3, FinishKeepsSaved
    <2>5. CASE c.prior = NoSavedRow /\ savedRow = NoSavedRow
      <3> DEFINE row == [text |-> c.text, created |-> c.text, updated |-> c.text]
                 reply == SavedReply("saved", c.text, c.text)
      <3>1. row \in RowShape /\ reply \in ReplyShape /\ reply.kind = "saved"
            /\ row.text = reply.text /\ row.created = reply.created
        BY <2>1 DEF RowShape, ReplyShape, SavedReply
      <3>2. FinishSaved(w, row, reply)
        BY <1>4, <2>5 DEF WriteSaved
      <3>. HIDE DEF row, reply
      <3>. QED  BY <3>1, <3>2, FinishKeepsSaved
    <2>6. CASE c.prior = NoSavedRow /\ savedRow # NoSavedRow
      <3> DEFINE reply == SavedReply("ValidationError", c.text, 0)
      <3>1. reply \in ReplyShape /\ reply.kind = "ValidationError"
        BY <2>1 DEF ReplyShape, SavedReply
      <3>2. FinishSaved(w, savedRow, reply)
        BY <1>4, <2>6 DEF WriteSaved
      <3>. HIDE DEF reply
      <3>. QED  BY <2>3, <3>1, <3>2, FinishKeepsSaved
    <2>. QED  BY <2>4, <2>5, <2>6
  <1>5. ASSUME DeleteSaved(w) PROVE SavedInv'
    <2>1. savedRow \in RowShape /\ NoSavedRow \in RowShape
      BY DEF SavedInv, RowShape, NoSavedRow
    <2>2. SavedReply("NotFound", 0, 0) \in ReplyShape /\ SavedReply("NotFound", 0, 0).kind = "NotFound"
          /\ SavedReply("deleted", 0, 0) \in ReplyShape /\ SavedReply("deleted", 0, 0).kind = "deleted"
      BY DEF SavedReply, ReplyShape
    <2>3. FinishSaved(w, savedRow, SavedReply("NotFound", 0, 0)) \/ FinishSaved(w, NoSavedRow, SavedReply("deleted", 0, 0))
      BY <1>5 DEF DeleteSaved
    <2>. QED  BY <2>1, <2>2, <2>3, FinishKeepsSaved
  <1>. QED  BY <1>2, <1>3, <1>4, <1>5
-----------------------------------------------------------------------------
(* SqliteDriver                                                            *)

\* --- scripts
ExecStates ==
  [rows: Nat, saved: Nat, open: BOOLEAN, ok: BOOLEAN, changes: Nat, touched: Nat, affected: Nat]

\* One statement of a script and what it adds to the count.
CountedOne(e, s) ==
  LET x == Executed(e, s) IN IF x.ok THEN [x EXCEPT !.affected = @ + x.changes] ELSE x

LEMMA DmlCounts ==
  ASSUME NEW n \in Nat, NEW s
  PROVE  Touched(s, n) \in Nat /\ AfterDml(s, n) \in Nat
  <1>1. CASE s = "delete"
    BY <1>1 DEF Touched, AfterDml
  <1>2. CASE s # "delete"
    <2>1. Inserted(s) \in Nat
      BY DEF Inserted
    <2>2. Touched(s, n) = Inserted(s) /\ AfterDml(s, n) = n + Inserted(s)
      BY <1>2 DEF Touched, AfterDml
    <2>. QED  BY <2>1, <2>2
  <1>. QED  BY <1>1, <1>2

LEMMA CountedState ==
  ASSUME queryOnly \in BOOLEAN, NEW e \in ExecStates, NEW s \in Statements
  PROVE  /\ CountedOne(e, s) \in ExecStates
         /\ e.affected >= e.touched => CountedOne(e, s).affected >= CountedOne(e, s).touched
         /\ s \in Dml /\ e.affected = e.touched => CountedOne(e, s).affected = CountedOne(e, s).touched
         /\ s # "commit" /\ e.open => CountedOne(e, s).open /\ CountedOne(e, s).saved = e.saved
  <1> DEFINE x == Executed(e, s)
  <1>1. Touched(s, e.rows) \in Nat /\ AfterDml(s, e.rows) \in Nat
    <2>1. e.rows \in Nat
      BY DEF ExecStates
    <2> HIDE DEF x
    <2>. QED  BY <2>1, DmlCounts
  <1>2. /\ x \in ExecStates
        /\ s # "commit" /\ e.open => x.open /\ x.saved = e.saved
        /\ x.affected = e.affected
        /\ x.ok => \/ x.touched = e.touched /\ s \notin Dml
                   \/ x.touched = e.touched + x.changes
        /\ ~x.ok => x.touched = e.touched
    <2>1. CASE ~e.ok
      BY <2>1 DEF Executed, ExecStates
    <2>2. CASE e.ok /\ (s = "fails" \/ (queryOnly /\ s # "commit"))
      <3>1. x = [e EXCEPT !.ok = FALSE]
        BY <2>2 DEF Executed
      <3> HIDE DEF x
      <3>. QED  BY <2>2, <3>1 DEF ExecStates
    <2>3. CASE e.ok /\ ~(s = "fails" \/ (queryOnly /\ s # "commit")) /\ s = "commit"
      BY <2>3 DEF Executed, ExecStates, Dml
    <2>4. CASE e.ok /\ ~(s = "fails" \/ (queryOnly /\ s # "commit")) /\ s = "create" /\ ~queryOnly
      BY <2>4 DEF Executed, ExecStates, Dml
    <2>5. CASE e.ok /\ s \notin {"fails", "commit", "create"} /\ ~queryOnly
      <3> DEFINE t == Touched(s, e.rows)
                 a == AfterDml(s, e.rows)
      <3>1. x = [e EXCEPT !.rows = a, !.changes = t, !.touched = @ + t, !.saved = IF e.open THEN @ ELSE a]
        BY <2>5 DEF Executed
      <3>2. t \in Nat /\ a \in Nat
        BY <1>1
      <3> HIDE DEF t, a, x
      <3>3. e.touched + t \in Nat
        BY <3>2 DEF ExecStates
      <3>4. /\ x.rows = a /\ x.changes = t /\ x.touched = e.touched + t /\ x.affected = e.affected
            /\ x.ok = e.ok /\ x.open = e.open /\ x.saved = IF e.open THEN e.saved ELSE a
        BY <3>1 DEF ExecStates
      <3>5. x \in ExecStates
        BY <3>1, <3>2, <3>3 DEF ExecStates
      <3>. QED  BY <2>5, <3>4, <3>5
    <2>. QED  BY <2>1, <2>2, <2>3, <2>4, <2>5
  <1>3. CountedOne(e, s) = IF x.ok THEN [x EXCEPT !.affected = @ + x.changes] ELSE x
    BY DEF CountedOne
  <1> HIDE DEF x
  <1>4. e.affected \in Nat /\ e.touched \in Nat
    BY DEF ExecStates
  <1>. QED  BY <1>2, <1>3, <1>4 DEF ExecStates

Begun == [rows |-> rowCount, saved |-> rowCount, open |-> TRUE, ok |-> TRUE,
          changes |-> changes, touched |-> 0, affected |-> 0]

\* What is known of a script after its first i statements.
ScriptInv(script, e, i) ==
  /\ e \in ExecStates
  /\ e.affected >= e.touched
  /\ (\A k \in 1..i : script[k] \in Dml) => e.affected = e.touched
  /\ (\A k \in 1..i : script[k] # "commit") => e.open /\ e.saved = rowCount

\* The answer of a script whose statements left it in state last.
Finished(last, commits) ==
  LET ok == last.ok /\ last.open /\ commits
  IN [last EXCEPT !.ok = ok, !.open = FALSE, !.rows = IF ok \/ ~last.open THEN @ ELSE last.saved]

LEMMA RunWriteResult ==
  ASSUME queryOnly \in BOOLEAN, rowCount \in Nat, changes \in Nat,
         NEW n \in Nat, NEW script \in [1..n -> Statements], NEW commits \in BOOLEAN
  PROVE  \E last : ScriptInv(script, last, n) /\ RunWrite(script, commits) = Finished(last, commits)
  <1> DEFINE Steps(g) == [i \in 0..Len(script) |-> IF i = 0 THEN Begun ELSE CountedOne(g[i-1], script[i])]
             e == CHOOSE g : g = Steps(g)
  <1>1. Len(script) = n /\ script \in Seq(Statements)
    BY SeqDef
  <1>2. Begun \in ExecStates
    BY DEF Begun, ExecStates
  <1>3. \E g : g = Steps(g)
    <2> DEFINE f == [i \in 1..n |-> [x \in ExecStates |-> CountedOne(x, script[i])]]
    <2>1. f \in [1..n -> [ExecStates -> ExecStates]]
      <3>1. ASSUME NEW i \in 1..n, NEW x \in ExecStates PROVE CountedOne(x, script[i]) \in ExecStates
        BY CountedState
      <3>. QED  BY <3>1
    <2>2. PICK g : TakesSteps(g, n, ExecStates, Begun, f)
      <3> HIDE DEF f
      <3>. QED BY <1>2, <2>1, StepFunction
    <2>5. g \in [0..n -> ExecStates] /\ g[0] = Begun /\ \A i \in 1..n : g[i] = f[i][g[i-1]]
      BY <2>2 DEF TakesSteps
    <2>3. ASSUME NEW i \in 0..n PROVE g[i] = IF i = 0 THEN Begun ELSE CountedOne(g[i-1], script[i])
      <3>1. CASE i = 0
        BY <2>5, <3>1
      <3>2. CASE i # 0
        <4>1. i \in 1..n /\ i - 1 \in 0..n
          BY <3>2
        <4>2. g[i-1] \in ExecStates
          BY <2>5, <4>1
        <4>. QED  BY <2>5, <4>1, <4>2, <3>2
      <3>. QED  BY <3>1, <3>2
    <2>4. g = Steps(g)
      BY <2>3, <2>5, <1>1
    <2>. QED  BY <2>4
  <1>4. e = Steps(e)
    <2> HIDE DEF Steps
    <2>. QED BY <1>3
  <1>5. RunWrite(script, commits) = Finished(e[Len(script)], commits)
    BY DEF RunWrite, CountedOne, Begun, Finished
  <1> HIDE DEF e
  <1> DEFINE S == {i \in 0..n : ScriptInv(script, e[i], i)}
  <1>6. 0 \in S
    <2>1. e[0] = Begun
      BY <1>1, <1>4
    <2>. QED  BY <1>2, <2>1 DEF ScriptInv, Begun
  <1>7. ASSUME NEW i \in 0..(n-1), i \in S PROVE i + 1 \in S
    <2>1. e[i+1] = CountedOne(e[i], script[i+1])
      <3>1. i + 1 \in 0..Len(script) /\ i + 1 # 0 /\ (i + 1) - 1 = i
        BY <1>1
      <3>. QED  BY <1>4, <3>1
    <2>2. script[i+1] \in Statements /\ i + 1 \in 1..(i+1) /\ \A k \in 1..i : k \in 1..(i+1)
      OBVIOUS
    <2>3. ScriptInv(script, e[i], i)
      BY <1>7
    <2>4. ScriptInv(script, e[i+1], i+1)
      <3> HIDE DEF S
      <3>. QED BY <2>1, <2>2, <2>3, CountedState DEF ScriptInv
    <2>. QED  BY <2>4
  <1>8. \A i \in 0..n : i \in S
    <2> HIDE DEF S
    <2>. QED  BY <1>6, <1>7, IntervalInduction
  <1>9. ScriptInv(script, e[n], n)
    BY <1>8
  <1>. QED  BY <1>1, <1>5, <1>9

LEMMA Ceiling ==
  ASSUME NEW cut \in Nat \ {0}, NEW b \in Nat \ {0}
  PROVE  LET m == (cut + b - 1) \div b
         IN m \in Nat \ {0} /\ m * b >= cut /\ m * b < cut + b
  <1> DEFINE a == cut + b - 1
             m == a \div b
  <1>1. a \in Nat /\ a >= b
    OBVIOUS
  <1>2. m \in Nat /\ a = b * m + (a % b) /\ a % b \in 0..(b-1)
    BY <1>1
  <1> HIDE DEF m
  <1>3. b * m = m * b /\ m * b \in Nat
    BY <1>2
  <1>4. m * b + b > a
    BY <1>1, <1>2, <1>3
  <1>5. m # 0
    <2>1. SUFFICES ASSUME m = 0 PROVE FALSE
      OBVIOUS
    <2>2. m * b = 0
      BY <2>1
    <2>. QED  BY <1>1, <1>4, <2>2
  <1>. QED  BY <1>1, <1>2, <1>3, <1>4, <1>5 DEF m

LEMMA Multiples ==
  ASSUME NEW b \in Nat \ {0}, NEW m \in Nat \ {0}, NEW i \in Nat, i < m
  PROVE  i * b \in Nat /\ (i + 1) * b = i * b + b /\ (i + 1) * b <= m * b
  OBVIOUS

\* The rows the driver sends: all of them, up to the limit, cut into batches.
Cut(n, limit) == SmallerOf(n, limit)

LEMMA BatchesAre ==
  ASSUME NEW n \in Nat, NEW limit \in Nat \ {0}, NEW batches, batches = Batches(n, limit)
  PROVE  /\ batches \in Seq(Nat) /\ Len(batches) \in Nat \ {0}
         /\ \A i \in 1..Len(batches) :
              /\ i * BATCH_SIZE \in Nat /\ (i - 1) * BATCH_SIZE \in Nat
              /\ i * BATCH_SIZE = (i - 1) * BATCH_SIZE + BATCH_SIZE
              /\ (i - 1) * BATCH_SIZE <= Cut(n, limit)
              /\ batches[i] = SmallerOf(BATCH_SIZE, Cut(n, limit) - (i - 1) * BATCH_SIZE)
         /\ Len(batches) * BATCH_SIZE >= Cut(n, limit)
  <1> DEFINE c == Cut(n, limit)
  <1>1. c \in Nat /\ c <= limit /\ c <= n /\ BATCH_SIZE \in Nat \ {0}
    BY SqliteAssumption DEF Cut, SmallerOf
  <1>2. CASE c = 0
    <2>1. batches = <<0>>
      BY <1>2 DEF Batches, Cut
    <2>. QED  BY <1>1, <1>2, <2>1 DEF SmallerOf
  <1>3. CASE c # 0
    <2> DEFINE m == (c + BATCH_SIZE - 1) \div BATCH_SIZE
    <2>1. batches = [i \in 1..m |-> SmallerOf(BATCH_SIZE, c - (i - 1) * BATCH_SIZE)]
      BY <1>3 DEF Batches, Cut
    <2>2. m \in Nat \ {0} /\ m * BATCH_SIZE >= c /\ m * BATCH_SIZE < c + BATCH_SIZE
      BY <1>1, <1>3, Ceiling
    <2> HIDE DEF m, c
    <2>3. ASSUME NEW i \in 1..m
          PROVE  /\ i * BATCH_SIZE \in Nat /\ (i - 1) * BATCH_SIZE \in Nat
                 /\ i * BATCH_SIZE = (i - 1) * BATCH_SIZE + BATCH_SIZE
                 /\ (i - 1) * BATCH_SIZE <= c
      <3>1. i - 1 \in Nat /\ i - 1 < m /\ (i - 1) + 1 = i
        BY <2>2
      <3>2. (i - 1) * BATCH_SIZE \in Nat /\ i * BATCH_SIZE = (i - 1) * BATCH_SIZE + BATCH_SIZE
            /\ i * BATCH_SIZE <= m * BATCH_SIZE
        BY <1>1, <2>2, <3>1, Multiples
      <3>. QED  BY <1>1, <2>2, <3>2
    <2>4. ASSUME NEW i \in 1..m PROVE SmallerOf(BATCH_SIZE, c - (i - 1) * BATCH_SIZE) \in Nat
      BY <1>1, <2>3 DEF SmallerOf
    <2>5. batches \in [1..m -> Nat]
      BY <2>1, <2>4
    <2>6. batches \in Seq(Nat) /\ Len(batches) = m
      BY <2>2, <2>5, SeqDef
    <2>7. \A i \in 1..m : batches[i] = SmallerOf(BATCH_SIZE, c - (i - 1) * BATCH_SIZE)
      BY <2>1
    <2>. QED  BY <2>2, <2>3, <2>6, <2>7 DEF c
  <1>. QED  BY <1>2, <1>3

\* Collecting the batches loses nothing: every row of the cut is there.
LEMMA CollectResult ==
  ASSUME NEW n \in Nat, NEW limit \in Nat \ {0}
  PROVE  LET c == Collect(Batches(n, limit), limit)
         IN c.rows = Cut(n, limit) /\ c.truncated \in BOOLEAN /\ (limit <= n => c.truncated)
  <1> DEFINE batches == Batches(n, limit)
             Steps(g) == [i \in 0..Len(batches) |-> IF i = 0 THEN 0 ELSE SmallerOf(limit, g[i-1] + batches[i])]
             got == CHOOSE g : g = Steps(g)
             m == Len(batches)
  <1>1. /\ batches \in Seq(Nat) /\ m \in Nat \ {0}
        /\ \A i \in 1..m :
              /\ i * BATCH_SIZE \in Nat /\ (i - 1) * BATCH_SIZE \in Nat
              /\ i * BATCH_SIZE = (i - 1) * BATCH_SIZE + BATCH_SIZE
              /\ (i - 1) * BATCH_SIZE <= Cut(n, limit)
              /\ batches[i] = SmallerOf(BATCH_SIZE, Cut(n, limit) - (i - 1) * BATCH_SIZE)
        /\ m * BATCH_SIZE >= Cut(n, limit)
    BY BatchesAre
  <1>2. Cut(n, limit) \in Nat /\ Cut(n, limit) <= limit /\ Cut(n, limit) <= n /\ (limit <= n => Cut(n, limit) = limit)
        /\ BATCH_SIZE \in Nat \ {0}
    BY SqliteAssumption DEF Cut, SmallerOf
  <1>3. Collect(batches, limit) =
          [rows |-> got[m],
           truncated |-> (\E i \in 1..m : got[i-1] < limit /\ got[i-1] + batches[i] > limit) \/ got[m] >= limit]
    BY DEF Collect
  <1> HIDE DEF batches
  <1>4. \E g : g = Steps(g)
    <2> DEFINE f == [i \in 1..m |-> [x \in Nat |-> SmallerOf(limit, x + batches[i])]]
    <2>1. f \in [1..m -> [Nat -> Nat]]
      <3>1. ASSUME NEW i \in 1..m, NEW x \in Nat PROVE SmallerOf(limit, x + batches[i]) \in Nat
        BY <1>1 DEF SmallerOf
      <3>. QED  BY <3>1
    <2>2. PICK g : TakesSteps(g, m, Nat, 0, f)
      <3> HIDE DEF f
      <3>. QED BY <1>1, <2>1, StepFunction
    <2>3. g \in [0..m -> Nat] /\ g[0] = 0 /\ \A i \in 1..m : g[i] = f[i][g[i-1]]
      BY <2>2 DEF TakesSteps
    <2>4. ASSUME NEW i \in 0..m PROVE g[i] = IF i = 0 THEN 0 ELSE SmallerOf(limit, g[i-1] + batches[i])
      <3>1. CASE i = 0
        BY <2>3, <3>1
      <3>2. CASE i # 0
        <4>1. i \in 1..m /\ i - 1 \in 0..m
          BY <1>1, <3>2
        <4>2. g[i-1] \in Nat
          BY <2>3, <4>1
        <4>. QED  BY <2>3, <4>1, <4>2, <3>2
      <3>. QED  BY <3>1, <3>2
    <2>5. g = Steps(g)
      BY <2>3, <2>4
    <2>. QED  BY <2>5
  <1>5. got = Steps(got)
    <2> HIDE DEF Steps
    <2>. QED BY <1>4
  <1> HIDE DEF got
  <1> DEFINE S == {i \in 0..m : got[i] = SmallerOf(Cut(n, limit), i * BATCH_SIZE)}
  <1>6. 0 \in S
    <2>1. got[0] = 0
      BY <1>1, <1>5
    <2>. QED  BY <1>1, <1>2, <2>1 DEF SmallerOf
  <1>7. ASSUME NEW i \in 0..(m-1), i \in S PROVE i + 1 \in S
    <2>1. i + 1 \in 1..m /\ i + 1 \in 0..m /\ (i + 1) - 1 = i
      BY <1>1
    <2>2. got[i+1] = SmallerOf(limit, got[i] + batches[i+1])
      BY <1>5, <2>1
    <2>3. /\ (i+1) * BATCH_SIZE \in Nat /\ i * BATCH_SIZE \in Nat
          /\ (i+1) * BATCH_SIZE = i * BATCH_SIZE + BATCH_SIZE
          /\ i * BATCH_SIZE <= Cut(n, limit)
          /\ batches[i+1] = SmallerOf(BATCH_SIZE, Cut(n, limit) - i * BATCH_SIZE)
      BY <1>1, <2>1
    <2>4. got[i] = i * BATCH_SIZE
      BY <1>2, <1>7, <2>3 DEF SmallerOf
    <2>5. got[i+1] = SmallerOf(Cut(n, limit), (i+1) * BATCH_SIZE)
      BY <1>2, <2>2, <2>3, <2>4 DEF SmallerOf
    <2>. QED  BY <2>1, <2>5
  <1>8. \A i \in 0..m : i \in S
    <2> HIDE DEF S, m
    <2>. QED  BY <1>1, <1>6, <1>7, IntervalInduction
  <1>9. got[m] = Cut(n, limit)
    <2>1. m \in 0..m
      BY <1>1
    <2>2. got[m] = SmallerOf(Cut(n, limit), m * BATCH_SIZE)
      BY <1>8, <2>1
    <2>3. m * BATCH_SIZE \in Nat
      BY <1>1
    <2>. QED BY <1>1, <1>2, <2>2, <2>3 DEF SmallerOf
  <1> DEFINE c == Collect(batches, limit)
             dropped == \E i \in 1..m : got[i-1] < limit /\ got[i-1] + batches[i] > limit
  <1>10. c.rows = got[m] /\ c.truncated = (dropped \/ got[m] >= limit)
    BY <1>3
  <1> HIDE DEF c, dropped
  <1>11. c.rows = Cut(n, limit) /\ c.truncated \in BOOLEAN /\ (limit <= n => c.truncated)
    BY <1>2, <1>9, <1>10
  <1>. QED  BY <1>11 DEF c, batches

\* The driver is asked for what the tool would drop, so nothing is.
LEMMA ToolCollectResult ==
  ASSUME NEW n \in Nat, NEW limit \in Nat \ {0}
  PROVE  LET c == ToolCollect(Batches(n, limit), limit)
         IN c.rows = Cut(n, limit) /\ c.truncated = FALSE
  <1> DEFINE batches == Batches(n, limit)
  <1>0. /\ batches \in Seq(Nat) /\ Len(batches) \in Nat \ {0}
        /\ \A i \in 1..Len(batches) :
              /\ i * BATCH_SIZE \in Nat /\ (i - 1) * BATCH_SIZE \in Nat
              /\ i * BATCH_SIZE = (i - 1) * BATCH_SIZE + BATCH_SIZE
              /\ (i - 1) * BATCH_SIZE <= Cut(n, limit)
              /\ batches[i] = SmallerOf(BATCH_SIZE, Cut(n, limit) - (i - 1) * BATCH_SIZE)
        /\ Len(batches) * BATCH_SIZE >= Cut(n, limit)
    BY BatchesAre
  <1> DEFINE c == Collect(batches, limit)
             dropped == \E i \in 1..Len(batches) :
               (i - 1) * BATCH_SIZE < limit /\ (i - 1) * BATCH_SIZE + batches[i] > limit
  <1>1. ToolCollect(batches, limit) = [c EXCEPT !.truncated = dropped]
    BY DEF ToolCollect
  <1>2. c.rows = Cut(n, limit)
    BY CollectResult
  <1>3. \E x, y : c = [rows |-> x, truncated |-> y]
    BY DEF Collect
  <1>4. dropped = FALSE
    <2>1. SUFFICES ASSUME NEW i \in 1..Len(batches) PROVE ~((i - 1) * BATCH_SIZE + batches[i] > limit)
      OBVIOUS
    <2>2. /\ (i - 1) * BATCH_SIZE \in Nat /\ (i - 1) * BATCH_SIZE <= Cut(n, limit)
          /\ batches[i] = SmallerOf(BATCH_SIZE, Cut(n, limit) - (i - 1) * BATCH_SIZE)
      <3> HIDE DEF batches
      <3>. QED  BY <1>0
    <2>3. Cut(n, limit) \in Nat /\ Cut(n, limit) <= limit
      BY DEF Cut, SmallerOf
    <2> HIDE DEF batches
    <2>. QED  BY <2>2, <2>3, SqliteAssumption DEF SmallerOf
  <1> HIDE DEF c, dropped
  <1>. QED  BY <1>1, <1>2, <1>3, <1>4

ReadShape ==
  [at: {"new", "on", "ran", "done"}, tool: BOOLEAN, hidden: BOOLEAN, limit: Nat,
   got: Nat, there: Nat, truncated: BOOLEAN, shared: BOOLEAN]
ReportShape == [ok: BOOLEAN, affected: Nat, touched: Nat, dml: BOOLEAN, ends: BOOLEAN]

Busy(r) == reads[r].at \in {"on", "ran"}

\* An answer leaves nothing out in silence, and a read that has not run has none.
ReadInv(x) ==
  /\ x.at \in {"new", "on"} => x.got = 0 /\ x.there = 0 /\ ~x.truncated
  /\ x.at = "on" => x.limit # 0
  /\ x.got < x.there => x.truncated \/ (x.tool /\ x.got = x.limit)
  /\ x.tool => ~x.truncated

\* Reads of one handle know of each other, and query_only is off under one that
\* has not run only if another has switched it off.
SqliteInv ==
  /\ rowCount \in Nat /\ changes \in Nat /\ writes \in Nat /\ queryOnly \in BOOLEAN
  /\ reads \in [Readers -> ReadShape]
  /\ report \in ReportShape
  /\ CountIsTrue
  /\ QueryOnlyEnds
  /\ \A r \in Readers : ReadInv(reads[r])
  /\ \A r \in Readers : reads[r].at = "on" /\ ~queryOnly => reads[r].shared
  /\ \A r, x \in Readers : r # x /\ Busy(r) /\ Busy(x) => reads[r].shared

LEMMA SqliteStart == SqliteInit => SqliteInv
  <1> SUFFICES ASSUME SqliteInit PROVE SqliteInv
    OBVIOUS
  <1>1. Quiet \in ReadShape /\ ReadInv(Quiet) /\ Quiet.at = "new"
    BY DEF Quiet, ReadShape, ReadInv
  <1>2. report \in ReportShape /\ CountIsTrue
    BY DEF SqliteInit, NoReport, ReportShape, CountIsTrue
  <1>3. reads \in [Readers -> ReadShape] /\ \A r \in Readers : reads[r] = Quiet
    BY <1>1 DEF SqliteInit
  <1>4. rowCount \in Nat /\ changes \in Nat /\ writes \in Nat /\ queryOnly = FALSE
    BY DEF SqliteInit
  <1>. QED  BY <1>1, <1>2, <1>3, <1>4 DEF SqliteInv, QueryOnlyEnds, Busy

LEMMA ScriptKeeps ==
  ASSUME SqliteInv, NEW script \in Scripts, NEW commits \in BOOLEAN, Script(script, commits)
  PROVE  SqliteInv' /\ (~report'.ok /\ ~report'.ends => rowCount' = rowCount)
  <1>1. PICK n \in Nat : script \in [1..n -> Statements]
    BY SqliteAssumption DEF Scripts
  <1>2. PICK last : ScriptInv(script, last, n) /\ RunWrite(script, commits) = Finished(last, commits)
    BY <1>1, RunWriteResult DEF SqliteInv
  <1> DEFINE e == RunWrite(script, commits)
             ok == last.ok /\ last.open /\ commits
             dml == \A i \in DOMAIN script : script[i] \in Dml
             ends == \E i \in DOMAIN script : script[i] = "commit"
  <1>3. e = [last EXCEPT !.ok = ok, !.open = FALSE, !.rows = IF ok \/ ~last.open THEN @ ELSE last.saved]
    BY <1>2 DEF Finished
  <1>4. last \in ExecStates /\ last.affected >= last.touched
        /\ (dml => last.affected = last.touched)
        /\ (~ends => last.open /\ last.saved = rowCount)
    BY <1>1, <1>2 DEF ScriptInv
  <1>5. rowCount' = e.rows /\ changes' = e.changes /\ writes' = writes + 1
        /\ report' = [ok |-> e.ok, affected |-> e.affected, touched |-> e.touched, dml |-> dml, ends |-> ends]
        /\ UNCHANGED <<memory, queryOnly, reads>>
    BY DEF Script
  <1>6. dml \in BOOLEAN /\ ends \in BOOLEAN
    OBVIOUS
  <1> HIDE DEF e, dml, ends
  <1>7. /\ e.rows = IF ok \/ ~last.open THEN last.rows ELSE last.saved
        /\ e.ok = ok /\ e.changes = last.changes /\ e.affected = last.affected /\ e.touched = last.touched
    BY <1>3, <1>4 DEF ExecStates
  <1>8. e.rows \in Nat /\ e.changes \in Nat /\ e.affected \in Nat /\ e.touched \in Nat /\ ok \in BOOLEAN
    BY <1>4, <1>7 DEF ExecStates
  <1>9. report' \in ReportShape /\ CountIsTrue'
    BY <1>4, <1>5, <1>6, <1>7, <1>8 DEF ReportShape, CountIsTrue
  <1>10. ~report'.ok /\ ~report'.ends => rowCount' = rowCount
    BY <1>4, <1>5, <1>7
  <1>. QED  BY <1>5, <1>8, <1>9, <1>10 DEF SqliteInv, QueryOnlyEnds, Busy

LEMMA RanIsHonest ==
  ASSUME rowCount \in Nat, NEW x \in ReadShape, x.got = 0, x.there = 0, ~x.truncated, x.limit # 0,
         NEW blocked \in BOOLEAN
  PROVE  /\ Ran(x, blocked) \in ReadShape /\ Ran(x, blocked).at = "ran"
         /\ Ran(x, blocked).shared = x.shared
         /\ ReadInv(Ran(x, blocked))
  <1>1. x.limit \in Nat \ {0} /\ x.tool \in BOOLEAN /\ x.hidden \in BOOLEAN /\ x.truncated = FALSE
    BY DEF ReadShape
  <1> DEFINE c == IF x.tool THEN ToolCollect(Batches(rowCount, x.limit), x.limit)
                            ELSE Collect(Batches(rowCount, x.limit), x.limit)
  <1>2. c.rows = Cut(rowCount, x.limit) /\ c.truncated \in BOOLEAN
        /\ (x.tool => c.truncated = FALSE) /\ (~x.tool /\ x.limit <= rowCount => c.truncated)
    BY <1>1, CollectResult, ToolCollectResult
  <1>3. Ran(x, blocked) =
          IF x.hidden /\ blocked THEN [x EXCEPT !.at = "ran"]
          ELSE [x EXCEPT !.at = "ran", !.got = c.rows, !.truncated = c.truncated, !.there = rowCount]
    BY DEF Ran
  <1> HIDE DEF c
  <1>4. c.rows \in Nat /\ (c.rows < rowCount => c.rows = x.limit /\ x.limit <= rowCount)
    BY <1>1, <1>2 DEF Cut, SmallerOf
  <1>5. CASE x.hidden /\ blocked
    <2>1. Ran(x, blocked) = [x EXCEPT !.at = "ran"]
      BY <1>3, <1>5
    <2>. QED BY <1>1, <2>1 DEF ReadShape, ReadInv
  <1>6. CASE ~(x.hidden /\ blocked)
    <2>1. Ran(x, blocked) = [x EXCEPT !.at = "ran", !.got = c.rows, !.truncated = c.truncated, !.there = rowCount]
      BY <1>3, <1>6
    <2>2. Ran(x, blocked) \in ReadShape
      BY <1>1, <1>2, <1>4, <2>1 DEF ReadShape
    <2> DEFINE y == Ran(x, blocked)
    <2>3. y.at = "ran" /\ y.got = c.rows /\ y.truncated = c.truncated /\ y.there = rowCount
          /\ y.shared = x.shared /\ y.tool = x.tool /\ y.limit = x.limit
      BY <2>1 DEF ReadShape
    <2> HIDE DEF y
    <2>. QED  BY <1>1, <1>2, <1>4, <2>2, <2>3 DEF ReadInv, y
  <1>. QED  BY <1>5, <1>6

LEMMA ReadKeeps ==
  ASSUME SqliteInv, NEW r \in Readers, NEW tool \in BOOLEAN, NEW hidden \in BOOLEAN,
         NEW n \in {0, MAX_ROW_LIMIT + 1}, Read(r, tool, hidden, n)
  PROVE  SqliteInv'
  <1> DEFINE new == [Quiet EXCEPT !.tool = tool, !.hidden = hidden, !.limit = ClampRowLimit(n)]
  <1>1. ClampRowLimit(n) \in Nat \ {0}
    BY SqliteAssumption DEF ClampRowLimit
  <1>2. /\ new \in ReadShape /\ new.got = 0 /\ new.there = 0 /\ new.truncated = FALSE /\ new.limit # 0
        /\ new.shared = FALSE /\ new.at = "new" /\ new.tool = tool
    BY <1>1 DEF ReadShape, Quiet
  <1>3. reads[r].at = "new" /\ report' = NoReport /\ UNCHANGED <<memory, rowCount, changes, writes>>
        /\ reads \in [Readers -> ReadShape]
    BY DEF Read, SqliteInv
  <1>4. report' \in ReportShape /\ CountIsTrue'
    BY <1>3 DEF NoReport, ReportShape, CountIsTrue
  <1>5. CASE memory
    <2> DEFINE on == [new EXCEPT !.at = "on", !.shared = \E x \in Readers : Busy(x)]
    <2>1. queryOnly' = TRUE
          /\ reads' = [x \in Readers |-> IF x = r THEN on
                         ELSE IF Busy(x) THEN [reads[x] EXCEPT !.shared = TRUE] ELSE reads[x]]
      BY <1>5 DEF Read, Busy
    <2>2. on \in ReadShape /\ on.at = "on" /\ (on.shared <=> \E x \in Readers : Busy(x))
          /\ on.got = 0 /\ on.there = 0 /\ on.truncated = FALSE /\ on.limit # 0
      BY <1>2 DEF ReadShape
    <2> HIDE DEF on, new
    <2>3. reads'[r] = on
      BY <2>1
    <2>4. ASSUME NEW x \in Readers, x # r
          PROVE  /\ reads'[x] \in ReadShape /\ reads'[x].at = reads[x].at
                 /\ ReadInv(reads'[x])
                 /\ Busy(x) => reads'[x].shared
      <3>1. reads'[x] = IF Busy(x) THEN [reads[x] EXCEPT !.shared = TRUE] ELSE reads[x]
        BY <2>1, <2>4
      <3>2. reads[x] \in ReadShape /\ ReadInv(reads[x])
        BY <1>3 DEF SqliteInv
      <3>3. CASE Busy(x)
        <4>1. reads'[x] = [reads[x] EXCEPT !.shared = TRUE]
          BY <3>1, <3>3
        <4>. QED  BY <3>2, <4>1 DEF ReadShape, ReadInv
      <3>4. CASE ~Busy(x)
        BY <3>1, <3>2, <3>4
      <3>. QED  BY <3>3, <3>4
    <2>5. ReadInv(on)
      BY <2>2 DEF ReadInv
    <2>6. reads' \in [Readers -> ReadShape]
      <3>1. ASSUME NEW x \in Readers PROVE reads'[x] \in ReadShape
        BY <2>2, <2>3, <2>4
      <3>2. reads' = [x \in Readers |-> reads'[x]]
        BY <2>1
      <3>. QED BY <3>1, <3>2
    <2>7. \A x \in Readers : ReadInv(reads'[x])
      BY <2>3, <2>4, <2>5
    <2>8. QueryOnlyEnds'
      BY <2>2, <2>3 DEF QueryOnlyEnds
    <2>9. \A x, y \in Readers : x # y /\ Busy(x)' /\ Busy(y)' => reads'[x].shared
      <3> SUFFICES ASSUME NEW x \in Readers, NEW y \in Readers, x # y, Busy(x)', Busy(y)' PROVE reads'[x].shared
        OBVIOUS
      <3>1. CASE x = r
        <4>1. Busy(y)
          BY <2>4, <3>1 DEF Busy
        <4>. QED BY <2>2, <2>3, <3>1, <4>1
      <3>2. CASE x # r
        BY <2>4, <3>2 DEF Busy
      <3>. QED BY <3>1, <3>2
    <2>. QED  BY <1>3, <1>4, <2>1, <2>6, <2>7, <2>8, <2>9 DEF SqliteInv
  <1>6. CASE ~memory
    <2> DEFINE y == Ran(new, TRUE)
               done == [y EXCEPT !.at = "done", !.hidden = FALSE]
    <2>1. reads' = [reads EXCEPT ![r] = done] /\ UNCHANGED queryOnly
      BY <1>6 DEF Read
    <2>2. y \in ReadShape /\ y.at = "ran" /\ ReadInv(y)
      <3> HIDE DEF new
      <3>. QED  BY <1>2, RanIsHonest DEF SqliteInv
    <2> HIDE DEF y
    <2>3. done \in ReadShape /\ done.at = "done" /\ ReadInv(done)
      BY <2>2 DEF ReadShape, ReadInv
    <2> HIDE DEF done, new
    <2>4. reads' \in [Readers -> ReadShape] /\ reads'[r] = done /\ \A x \in Readers : x # r => reads'[x] = reads[x]
      BY <1>3, <2>1, <2>3
    <2>5. ~Busy(r) /\ ~Busy(r)'
      BY <1>3, <2>3, <2>4 DEF Busy
    <2>6. QueryOnlyEnds'
      <3> SUFFICES ASSUME queryOnly PROVE \E x \in Readers : Busy(x)'
        BY <2>1 DEF QueryOnlyEnds, Busy
      <3>1. PICK x \in Readers : Busy(x)
        BY DEF SqliteInv, QueryOnlyEnds, Busy
      <3>2. Busy(x)'
        BY <2>4, <2>5, <3>1 DEF Busy
      <3>. QED  BY <3>2
    <2>7. \A x, z \in Readers : x # z /\ Busy(x)' /\ Busy(z)' => reads'[x].shared
      BY <2>4, <2>5 DEF Busy, SqliteInv
    <2>8. \A x \in Readers : reads'[x].at = "on" /\ ~queryOnly' => reads'[x].shared
      BY <2>1, <2>3, <2>4 DEF SqliteInv
    <2>9. \A x \in Readers : ReadInv(reads'[x])
      BY <2>3, <2>4 DEF SqliteInv
    <2>. QED  BY <1>3, <1>4, <2>1, <2>4, <2>6, <2>7, <2>8, <2>9 DEF SqliteInv
  <1>. QED  BY <1>5, <1>6

LEMMA RunReadKeeps ==
  ASSUME SqliteInv, NEW r \in Readers, RunRead(r)
  PROVE  SqliteInv' /\ (rowCount' # rowCount => reads[r].shared)
  <1> DEFINE y == Ran(reads[r], queryOnly)
             ran == [y EXCEPT !.at = "ran"]
  <1>1. /\ reads[r].at = "on" /\ reads' = [reads EXCEPT ![r] = ran]
        /\ rowCount' = (IF reads[r].hidden /\ ~queryOnly THEN rowCount + 1 ELSE rowCount)
        /\ changes' = (IF reads[r].hidden /\ ~queryOnly THEN 1 ELSE changes)
        /\ UNCHANGED <<memory, queryOnly, report, writes>>
    BY DEF RunRead
  <1>2. reads \in [Readers -> ReadShape] /\ reads[r] \in ReadShape /\ ReadInv(reads[r])
        /\ rowCount \in Nat /\ changes \in Nat /\ queryOnly \in BOOLEAN
    BY DEF SqliteInv
  <1>3. y \in ReadShape /\ y.at = "ran" /\ y.shared = reads[r].shared /\ ReadInv(y)
    <2>1. reads[r].got = 0 /\ reads[r].there = 0 /\ ~reads[r].truncated /\ reads[r].limit # 0
      BY <1>1, <1>2 DEF ReadInv
    <2>. QED  BY <1>2, <2>1, RanIsHonest
  <1> HIDE DEF y
  <1>4. ran = y
    BY <1>3 DEF ReadShape
  <1> HIDE DEF ran
  <1>5. reads' \in [Readers -> ReadShape] /\ reads'[r] = y /\ \A x \in Readers : x # r => reads'[x] = reads[x]
    BY <1>1, <1>2, <1>3, <1>4
  <1>6. Busy(r) /\ Busy(r)' /\ \A x \in Readers : Busy(x)' <=> Busy(x)
    BY <1>1, <1>3, <1>5 DEF Busy
  <1>7. \A x \in Readers : reads'[x].shared = reads[x].shared
    BY <1>3, <1>5
  <1>8. \A x, z \in Readers : x # z /\ Busy(x)' /\ Busy(z)' => reads'[x].shared
    BY <1>6, <1>7 DEF SqliteInv
  <1>9. \A x \in Readers : ReadInv(reads'[x]) /\ (reads'[x].at = "on" /\ ~queryOnly' => reads'[x].shared)
    BY <1>1, <1>3, <1>5 DEF SqliteInv
  <1>10. QueryOnlyEnds' /\ CountIsTrue'
    BY <1>1, <1>3, <1>5 DEF SqliteInv, QueryOnlyEnds, CountIsTrue
  <1>11. rowCount' # rowCount => reads[r].shared
    BY <1>1 DEF SqliteInv
  <1>12. rowCount' \in Nat /\ changes' \in Nat
    BY <1>1, <1>2
  <1>. QED  BY <1>1, <1>5, <1>8, <1>9, <1>10, <1>11, <1>12 DEF SqliteInv

LEMMA QueryOnlyOffKeeps ==
  ASSUME SqliteInv, NEW r \in Readers, QueryOnlyOff(r)
  PROVE  SqliteInv'
  <1> DEFINE done == [reads[r] EXCEPT !.at = "done", !.hidden = FALSE]
  <1>1. /\ reads[r].at = "ran" /\ reads' = [reads EXCEPT ![r] = done] /\ queryOnly' = FALSE
        /\ UNCHANGED <<memory, rowCount, changes, report, writes>>
    BY DEF QueryOnlyOff
  <1>2. reads \in [Readers -> ReadShape] /\ reads[r] \in ReadShape /\ ReadInv(reads[r])
    BY DEF SqliteInv
  <1>3. done \in ReadShape /\ done.at = "done" /\ ReadInv(done)
    BY <1>2 DEF ReadShape, ReadInv
  <1> HIDE DEF done
  <1>4. reads' \in [Readers -> ReadShape] /\ reads'[r] = done /\ \A x \in Readers : x # r => reads'[x] = reads[x]
    BY <1>1, <1>2, <1>3
  <1>5. Busy(r) /\ ~Busy(r)'
    BY <1>1, <1>3, <1>4 DEF Busy
  <1>6. \A x \in Readers : x # r => (Busy(x)' <=> Busy(x)) /\ reads'[x].shared = reads[x].shared
    BY <1>4 DEF Busy
  <1>7. \A x, z \in Readers : x # z /\ Busy(x)' /\ Busy(z)' => reads'[x].shared
    BY <1>5, <1>6 DEF SqliteInv
  <1>8. \A x \in Readers : ReadInv(reads'[x])
    BY <1>3, <1>4 DEF SqliteInv
  <1>9. \A x \in Readers : reads'[x].at = "on" => reads'[x].shared
    BY <1>3, <1>4, <1>5 DEF SqliteInv, Busy
  <1>10. QueryOnlyEnds' /\ CountIsTrue'
    BY <1>1 DEF SqliteInv, QueryOnlyEnds, CountIsTrue
  <1>. QED  BY <1>1, <1>4, <1>7, <1>8, <1>9, <1>10 DEF SqliteInv

LEMMA SqliteStep ==
  ASSUME SqliteInv, SqliteNext
  PROVE  /\ SqliteInv'
         /\ writes' # writes /\ ~report'.ok /\ ~report'.ends => rowCount' = rowCount
         /\ rowCount' # rowCount => writes' # writes \/ \E r \in Readers : reads[r].shared
  <1>1. ASSUME NEW script \in Scripts, NEW commits \in BOOLEAN, Script(script, commits)
        PROVE  SqliteInv' /\ writes' # writes /\ (~report'.ok /\ ~report'.ends => rowCount' = rowCount)
    BY <1>1, ScriptKeeps DEF Script, SqliteInv
  <1>2. ASSUME NEW r \in Readers, NEW tool \in BOOLEAN, NEW hidden \in BOOLEAN,
               NEW n \in {0, MAX_ROW_LIMIT + 1}, Read(r, tool, hidden, n)
        PROVE  SqliteInv' /\ UNCHANGED <<rowCount, writes>>
    <2>1. SqliteInv'
      BY <1>2, ReadKeeps
    <2>2. UNCHANGED <<rowCount, writes>>
      BY <1>2 DEF Read
    <2>. QED  BY <2>1, <2>2
  <1>3. ASSUME NEW r \in Readers, RunRead(r)
        PROVE  SqliteInv' /\ (rowCount' # rowCount => reads[r].shared) /\ UNCHANGED writes
    BY <1>3, RunReadKeeps DEF RunRead
  <1>4. ASSUME NEW r \in Readers, QueryOnlyOff(r)
        PROVE  SqliteInv' /\ UNCHANGED <<rowCount, writes>>
    BY <1>4, QueryOnlyOffKeeps DEF QueryOnlyOff
  <1>. QED  BY <1>1, <1>2, <1>3, <1>4 DEF SqliteNext

-----------------------------------------------------------------------------
(* TurnParts                                                               *)

Statuses == {"none", "running", "done", "error", "pending", "executed", "rejected"}
PartShape ==
  [tag: Kinds \cup {"ToolCall", "Approval", "ResultTable"}, id: {"none"} \cup Tools \cup Approvals,
   text: Seq(Nat), status: Statuses]

\* How Solid is built.
SolidSteps(g, ps) ==
  /\ g \in [0..Len(ps) -> Seq(PartShape)]
  /\ g[0] = <<>>
  /\ \A i \in 1..Len(ps) : g[i] = IF ps[i].tag \in Kinds THEN g[i-1] ELSE Append(g[i-1], ps[i])

LEMMA SolidIs ==
  ASSUME NEW ps \in Seq(PartShape)
  PROVE  \E g : SolidSteps(g, ps) /\ Solid(ps) = g[Len(ps)]
  <1> DEFINE n == Len(ps)
             Steps(g) == [i \in 0..Len(ps) |->
               IF i = 0 THEN <<>> ELSE IF ps[i].tag \in Kinds THEN g[i-1] ELSE Append(g[i-1], ps[i])]
             solid == CHOOSE g : g = Steps(g)
             f == [i \in 1..n |-> [x \in Seq(PartShape) |-> IF ps[i].tag \in Kinds THEN x ELSE Append(x, ps[i])]]
  <1>0. n \in Nat
    OBVIOUS
  <1>1. \A i \in 1..n : ps[i] \in PartShape
    OBVIOUS
  <1>2. f \in [1..n -> [Seq(PartShape) -> Seq(PartShape)]]
    <2>1. ASSUME NEW i \in 1..n, NEW x \in Seq(PartShape)
          PROVE  (IF ps[i].tag \in Kinds THEN x ELSE Append(x, ps[i])) \in Seq(PartShape)
      BY <1>1, AppendProperties
    <2>. QED  BY <2>1
  <1>3. PICK g : TakesSteps(g, n, Seq(PartShape), <<>>, f)
    <2>1. <<>> \in Seq(PartShape)
      OBVIOUS
    <2> HIDE DEF f
    <2>. QED  BY <1>0, <1>2, <2>1, StepFunction
  <1>4. g \in [0..n -> Seq(PartShape)] /\ g[0] = <<>> /\ \A i \in 1..n : g[i] = f[i][g[i-1]]
    BY <1>3 DEF TakesSteps
  <1>5. ASSUME NEW i \in 1..n
        PROVE  g[i] = IF ps[i].tag \in Kinds THEN g[i-1] ELSE Append(g[i-1], ps[i])
    <2>1. i - 1 \in 0..n /\ g[i-1] \in Seq(PartShape)
      <3> HIDE DEF f
      <3>. QED  BY <1>0, <1>4
    <2>. QED  BY <1>4, <2>1
  <1>6. SolidSteps(g, ps)
    BY <1>4, <1>5 DEF SolidSteps
  <1>7. g = Steps(g)
    <2>1. ASSUME NEW i \in 0..n
          PROVE  g[i] = IF i = 0 THEN <<>> ELSE IF ps[i].tag \in Kinds THEN g[i-1] ELSE Append(g[i-1], ps[i])
      <3>1. CASE i = 0
        BY <1>4, <3>1
      <3>2. CASE i # 0
        <4>1. i \in 1..n
          BY <1>0, <3>2
        <4>. QED BY <1>5, <4>1, <3>2
      <3>. QED BY <3>1, <3>2
    <2> HIDE DEF f
    <2>. QED  BY <1>4, <2>1
  <1>8. solid = Steps(solid)
    <2> HIDE DEF Steps
    <2>. QED  BY <1>7
  <1>9. Solid(ps) = solid[n]
    BY DEF Solid
  <1> HIDE DEF solid, f
  <1>10. solid[0] = g[0]
    BY <1>0, <1>4, <1>8
  <1>11. \A i \in 1..n : solid[i-1] = g[i-1] => solid[i] = g[i]
    <2> SUFFICES ASSUME NEW i \in 1..n, solid[i-1] = g[i-1] PROVE solid[i] = g[i]
      OBVIOUS
    <2>1. i \in 0..n /\ i # 0
      BY <1>0
    <2>. QED BY <1>5, <1>8, <2>1
  <1>12. \A i \in 0..n : solid[i] = g[i]
    <2> HIDE DEF n, Steps
    <2>1. ASSUME NEW h, h = solid, h[0] = g[0], \A i \in 1..n : h[i-1] = g[i-1] => h[i] = g[i]
          PROVE  \A i \in 0..n : h[i] = g[i]
      BY <1>0, <2>1, SameSteps, ZenonT(60)
    <2>. QED BY <1>10, <1>11, <2>1
  <1>. QED  BY <1>0, <1>6, <1>9, <1>12

LEMMA SolidOf ==
  ASSUME NEW ps \in Seq(PartShape), NEW g, SolidSteps(g, ps)
  PROVE  Solid(ps) = g[Len(ps)]
  <1>1. PICK h : SolidSteps(h, ps) /\ Solid(ps) = h[Len(ps)]
    BY SolidIs
  <1>2. Len(ps) \in Nat
    OBVIOUS
  <1>3. h[0] = g[0] /\ \A i \in 1..Len(ps) : h[i-1] = g[i-1] => h[i] = g[i]
    BY <1>1 DEF SolidSteps
  <1>4. \A i \in 0..Len(ps) : h[i] = g[i]
    BY <1>2, <1>3, SameSteps
  <1>. QED  BY <1>1, <1>2, <1>4

\* Texts do not count.
LEMMA SolidAgrees ==
  ASSUME NEW ps \in Seq(PartShape), NEW qs \in Seq(PartShape), Len(ps) = Len(qs),
         \A i \in 1..Len(ps) : ps[i] = qs[i] \/ (ps[i].tag \in Kinds /\ qs[i].tag \in Kinds)
  PROVE  Solid(ps) = Solid(qs)
  <1>1. PICK g : SolidSteps(g, ps) /\ Solid(ps) = g[Len(ps)]
    BY SolidIs
  <1>2. SolidSteps(g, qs)
    BY <1>1 DEF SolidSteps
  <1>. QED  BY <1>1, <1>2, SolidOf

LEMMA SolidAppends ==
  ASSUME NEW ps \in Seq(PartShape), NEW p \in PartShape
  PROVE  Solid(Append(ps, p)) = IF p.tag \in Kinds THEN Solid(ps) ELSE Append(Solid(ps), p)
  <1>1. PICK g : SolidSteps(g, ps) /\ Solid(ps) = g[Len(ps)]
    BY SolidIs
  <1> DEFINE n == Len(ps)
             last == IF p.tag \in Kinds THEN g[n] ELSE Append(g[n], p)
             h == [i \in 0..(n+1) |-> IF i <= n THEN g[i] ELSE last]
             qs == Append(ps, p)
  <1>2. n \in Nat /\ qs \in Seq(PartShape) /\ Len(qs) = n + 1 /\ (\A i \in 1..n : qs[i] = ps[i]) /\ qs[n+1] = p
    BY AppendProperties
  <1>3. g \in [0..n -> Seq(PartShape)] /\ g[0] = <<>>
        /\ \A i \in 1..n : g[i] = IF ps[i].tag \in Kinds THEN g[i-1] ELSE Append(g[i-1], ps[i])
    BY <1>1 DEF SolidSteps
  <1>4. last \in Seq(PartShape)
    <2>1. g[n] \in Seq(PartShape)
      BY <1>2, <1>3
    <2>. QED  BY <2>1, AppendProperties
  <1> HIDE DEF qs, last
  <1>5. h \in [0..(n+1) -> Seq(PartShape)]
    BY <1>2, <1>3, <1>4
  <1>6. h[0] = <<>>
    BY <1>2, <1>3
  <1>7. ASSUME NEW i \in 1..(n+1)
        PROVE  h[i] = IF qs[i].tag \in Kinds THEN h[i-1] ELSE Append(h[i-1], qs[i])
    <2>1. CASE i <= n
      <3>1. i \in 1..n /\ i - 1 \in 0..(n+1) /\ i \in 0..(n+1) /\ i - 1 <= n
        BY <1>2, <2>1
      <3>2. h[i] = g[i] /\ h[i-1] = g[i-1] /\ qs[i] = ps[i]
        BY <1>2, <2>1, <3>1
      <3>. QED  BY <1>3, <3>1, <3>2
    <2>2. CASE i = n + 1
      <3>1. i \in 0..(n+1) /\ n \in 0..(n+1) /\ i - 1 = n /\ ~(i <= n) /\ n <= n
        BY <1>2, <2>2
      <3>2. h[i] = last /\ h[i-1] = g[n] /\ qs[i] = p
        BY <1>2, <2>2, <3>1
      <3>. QED  BY <3>2 DEF last
    <2>. QED  BY <1>2, <2>1, <2>2
  <1>8. SolidSteps(h, qs)
    <2> HIDE DEF h
    <2>. QED  BY <1>2, <1>5, <1>6, <1>7 DEF SolidSteps
  <1>9. Solid(qs) = h[n+1]
    BY <1>2, <1>8, SolidOf
  <1>10. h[n+1] = last
    BY <1>2
  <1>. QED  BY <1>1, <1>9, <1>10 DEF last, qs

Marked(p, tag, id, status) == IF p.tag = tag /\ p.id = id THEN [p EXCEPT !.status = status] ELSE p

LEMMA MarkedShape ==
  ASSUME NEW p \in PartShape, NEW tag, NEW id, NEW status \in Statuses
  PROVE  LET mp == Marked(p, tag, id, status)
         IN mp \in PartShape /\ mp.tag = p.tag /\ mp.id = p.id /\ mp.text = p.text
  <1>1. CASE p.tag = tag /\ p.id = id
    BY <1>1 DEF PartShape, Marked
  <1>2. CASE ~(p.tag = tag /\ p.id = id)
    BY <1>2 DEF Marked
  <1>. QED  BY <1>1, <1>2

LEMMA SetAllShape ==
  ASSUME NEW ps \in Seq(PartShape), NEW tag, NEW id, NEW status \in Statuses,
         NEW qs, qs = SetAll(ps, tag, id, status)
  PROVE  /\ qs \in Seq(PartShape)
         /\ Len(qs) = Len(ps)
         /\ \A i \in 1..Len(ps) : qs[i] = Marked(ps[i], tag, id, status)
  <1> DEFINE n == Len(ps)
  <1>1. n \in Nat /\ DOMAIN ps = 1..n /\ \A i \in 1..n : ps[i] \in PartShape
    OBVIOUS
  <1>2. qs = [i \in 1..n |-> Marked(ps[i], tag, id, status)]
    BY <1>1 DEF SetAll, Marked
  <1>3. \A i \in 1..n : Marked(ps[i], tag, id, status) \in PartShape
    BY <1>1, MarkedShape
  <1>4. qs \in [1..n -> PartShape]
    BY <1>2, <1>3
  <1>5. qs \in Seq(PartShape) /\ Len(qs) = n
    BY <1>1, <1>4, SeqDef
  <1>. QED  BY <1>2, <1>5

LEMMA SetAllAppends ==
  ASSUME NEW ps \in Seq(PartShape), NEW p \in PartShape, NEW tag, NEW id, NEW status \in Statuses,
         NEW qs, qs = SetAll(ps, tag, id, status), NEW mp, mp = Marked(p, tag, id, status)
  PROVE  SetAll(Append(ps, p), tag, id, status) = Append(qs, mp)
  <1> DEFINE n == Len(ps)
             rs == Append(ps, p)
             a == SetAll(rs, tag, id, status)
             b == Append(qs, mp)
  <1>1. mp \in PartShape
    BY MarkedShape
  <1>2. rs \in Seq(PartShape) /\ Len(rs) = n + 1 /\ n \in Nat
        /\ (\A i \in 1..n : rs[i] = ps[i]) /\ rs[n+1] = p
    BY AppendProperties
  <1> HIDE DEF rs
  <1>3. /\ qs \in Seq(PartShape) /\ Len(qs) = n
        /\ \A i \in 1..n : qs[i] = Marked(ps[i], tag, id, status)
    BY SetAllShape
  <1>4. /\ a \in Seq(PartShape) /\ Len(a) = n + 1
        /\ \A i \in 1..(n+1) : a[i] = Marked(rs[i], tag, id, status)
    <2> HIDE DEF a
    <2>1. a = SetAll(rs, tag, id, status)
      BY DEF a
    <2>2. /\ a \in Seq(PartShape) /\ Len(a) = Len(rs)
          /\ \A i \in 1..Len(rs) : a[i] = Marked(rs[i], tag, id, status)
      BY <1>2, <2>1, SetAllShape
    <2>. QED  BY <1>2, <2>2
  <1>5. /\ b \in Seq(PartShape) /\ Len(b) = n + 1 /\ b[n+1] = mp
        /\ \A i \in 1..n : b[i] = qs[i]
    BY <1>1, <1>3, AppendProperties
  <1> HIDE DEF a, b
  <1>6. \A i \in 1..(n+1) : a[i] = b[i]
    <2> SUFFICES ASSUME NEW i \in 1..(n+1) PROVE a[i] = b[i]
      OBVIOUS
    <2>1. CASE i \in 1..n
      BY <1>2, <1>3, <1>4, <1>5, <2>1
    <2>2. CASE i = n + 1
      BY <1>2, <1>4, <1>5, <2>2
    <2>. QED  BY <1>2, <2>1, <2>2
  <1>7. a = b
    BY <1>4, <1>5, <1>6, SeqEqual
  <1>. QED  BY <1>7 DEF a, b, rs

LEMMA SolidSetAll ==
  ASSUME NEW ps \in Seq(PartShape), NEW tag, NEW id, NEW status \in Statuses,
         NEW qs, qs = SetAll(ps, tag, id, status)
  PROVE  Solid(qs) = SetAll(Solid(ps), tag, id, status)
  <1> DEFINE Set(s) == SetAll(s, tag, id, status)
             n == Len(ps)
  <1>1. PICK g : SolidSteps(g, ps) /\ Solid(ps) = g[n]
    BY SolidIs
  <1>2. n \in Nat /\ qs \in Seq(PartShape) /\ Len(qs) = n
        /\ \A i \in 1..n : qs[i] = Marked(ps[i], tag, id, status)
    BY SetAllShape
  <1>3. g \in [0..n -> Seq(PartShape)] /\ g[0] = <<>>
        /\ \A i \in 1..n : g[i] = IF ps[i].tag \in Kinds THEN g[i-1] ELSE Append(g[i-1], ps[i])
    BY <1>1 DEF SolidSteps
  <1> DEFINE h == [i \in 0..n |-> Set(g[i])]
  <1>4. h \in [0..n -> Seq(PartShape)]
    <2>1. ASSUME NEW i \in 0..n PROVE Set(g[i]) \in Seq(PartShape)
      BY <1>3, SetAllShape
    <2> HIDE DEF Set
    <2>. QED  BY <2>1
  <1>5. h[0] = <<>>
    <2>1. Set(<<>>) = <<>>
      BY DEF SetAll
    <2> HIDE DEF Set
    <2>. QED  BY <1>2, <1>3, <2>1
  <1>6. ASSUME NEW i \in 1..n PROVE h[i] = IF qs[i].tag \in Kinds THEN h[i-1] ELSE Append(h[i-1], qs[i])
    <2>1. i \in 0..n /\ i - 1 \in 0..n /\ g[i-1] \in Seq(PartShape) /\ ps[i] \in PartShape
      <3>1. i \in 0..n /\ i - 1 \in 0..n
        BY <1>2
      <3>2. g[i-1] \in Seq(PartShape)
        BY <1>3, <3>1
      <3>3. ps[i] \in PartShape
        OBVIOUS
      <3>. QED  BY <3>1, <3>2, <3>3
    <2>2. h[i] = Set(g[i]) /\ h[i-1] = Set(g[i-1])
      BY <2>1
    <2>3. qs[i] = Marked(ps[i], tag, id, status) /\ qs[i].tag = ps[i].tag
      BY <1>2, <2>1, MarkedShape
    <2> HIDE DEF h
    <2>4. CASE ps[i].tag \in Kinds
      BY <1>3, <2>2, <2>3, <2>4
    <2>5. CASE ps[i].tag \notin Kinds
      <3>1. g[i] = Append(g[i-1], ps[i])
        BY <1>3, <2>5
      <3>2. Set(Append(g[i-1], ps[i])) = Append(Set(g[i-1]), qs[i])
        BY <2>1, <2>3, SetAllAppends
      <3> HIDE DEF Set
      <3>. QED  BY <2>2, <2>3, <2>5, <3>1, <3>2
    <2>. QED  BY <2>4, <2>5
  <1>7. SolidSteps(h, qs)
    <2> HIDE DEF h
    <2>. QED  BY <1>2, <1>4, <1>5, <1>6 DEF SolidSteps
  <1>8. Solid(qs) = h[n]
    <2> HIDE DEF h
    <2>. QED BY <1>2, <1>7, SolidOf
  <1>9. h[n] = Set(g[n])
    BY <1>2
  <1>. QED  BY <1>1, <1>8, <1>9

-----------------------------------------------------------------------------
\* A tool call or an approval has one part.
OnePart(ps) ==
  \A i, j \in 1..Len(ps) :
    ps[i].tag \in {"ToolCall", "Approval"} /\ ps[i].tag = ps[j].tag /\ ps[i].id = ps[j].id => i = j

\* The block being streamed is the last part's, unless a part came in between.
BlockInv ==
  /\ block \in [kind: Kinds \cup {"none"}, text: Seq(Nat)]
  /\ block # NoBlock => block.kind \in Kinds /\ normalizer /\ sawPartials
  /\ block # NoBlock /\ ~merged => parts # <<>> /\ Last(parts).tag = block.kind /\ Last(parts).text = block.text

TurnPartsInv ==
  /\ parts \in Seq(PartShape) /\ shownParts \in Seq(PartShape) /\ said \in Nat
  /\ merged \in BOOLEAN /\ normalizer \in BOOLEAN /\ sawPartials \in BOOLEAN
  /\ OnePart(parts)
  /\ BlockInv
  /\ SavedIsShown
  /\ ToolsAreSaved

LEMMA TurnPartsStart == PartsInit => TurnPartsInv
  <1> SUFFICES ASSUME PartsInit PROVE TurnPartsInv
    OBVIOUS
  <1>1. parts = <<>> /\ shownParts = <<>> /\ block = NoBlock /\ said = 0 /\ ~merged
        /\ merged \in BOOLEAN /\ normalizer \in BOOLEAN /\ sawPartials \in BOOLEAN
    BY DEF PartsInit
  <1>2. <<>> \in Seq(PartShape) /\ Len(<<>>) = 0 /\ 1..0 = {}
    OBVIOUS
  <1>3. OnePart(parts)
    BY <1>1, <1>2 DEF OnePart
  <1>4. BlockInv
    BY <1>1 DEF BlockInv, NoBlock
  <1>. QED  BY <1>1, <1>2, <1>3, <1>4 DEF TurnPartsInv, SavedIsShown, ToolsAreSaved

LEMMA SetFirstIsSetAll ==
  ASSUME NEW ps \in Seq(PartShape), OnePart(ps), NEW tag \in {"ToolCall", "Approval"}, NEW id,
         NEW status \in Statuses
  PROVE  SetFirst(ps, tag, id, status) = SetAll(ps, tag, id, status)
  <1> DEFINE n == Len(ps)
             found == {i \in DOMAIN ps : ps[i].tag = tag /\ ps[i].id = id}
  <1>1. n \in Nat /\ DOMAIN ps = 1..n /\ \A i \in 1..n : ps[i] \in PartShape
    OBVIOUS
  <1>2. SetAll(ps, tag, id, status) = [i \in 1..n |-> Marked(ps[i], tag, id, status)]
    BY <1>1 DEF SetAll, Marked
  <1>3. CASE found = {}
    <2>1. SetFirst(ps, tag, id, status) = ps
      BY <1>3 DEF SetFirst
    <2>2. \A i \in 1..n : Marked(ps[i], tag, id, status) = ps[i]
      BY <1>1, <1>3 DEF Marked
    <2>3. ps = [i \in 1..n |-> ps[i]]
      BY <1>1
    <2>. QED  BY <1>2, <2>1, <2>2, <2>3
  <1>4. CASE found # {}
    <2>1. PICK k \in found : TRUE
      BY <1>4
    <2>2. k \in 1..n /\ ps[k].tag = tag /\ ps[k].id = id
      BY <1>1, <2>1
    <2>3. \A i \in 1..n : ps[i].tag = tag /\ ps[i].id = id => i = k
      BY <2>2 DEF OnePart
    <2>4. (CHOOSE i \in found : \A j \in found : i <= j) = k
      <3>1. found = {k}
        BY <1>1, <2>2, <2>3
      <3> HIDE DEF found
      <3>. QED  BY <1>1, <2>2, <3>1
    <2>5. SetFirst(ps, tag, id, status) = [ps EXCEPT ![k].status = status]
      BY <1>4, <2>4 DEF SetFirst
    <2>6. \A i \in 1..n : [ps EXCEPT ![k].status = status][i] = Marked(ps[i], tag, id, status)
      <3> HIDE DEF found
      <3> SUFFICES ASSUME NEW i \in 1..n
                   PROVE  [ps EXCEPT ![k].status = status][i] = Marked(ps[i], tag, id, status)
        OBVIOUS
      <3>1. CASE i = k
        BY <1>1, <2>2, <3>1 DEF Marked
      <3>2. CASE i # k
        BY <1>1, <2>3, <3>2 DEF Marked
      <3>. QED BY <3>1, <3>2
    <2>7. DOMAIN [ps EXCEPT ![k].status = status] = 1..n
      BY <1>1
    <2> DEFINE x == [ps EXCEPT ![k].status = status]
    <2>8. x = [i \in 1..n |-> x[i]]
      BY <1>1
    <2> HIDE DEF x, found
    <2>. QED  BY <1>2, <2>5, <2>6, <2>7, <2>8 DEF x
  <1>. QED  BY <1>3, <1>4

Continues(ps, qs, kind, txt) ==
  /\ qs # <<>> /\ Last(qs).tag = kind
  /\ ps # <<>> /\ Last(ps).tag = kind => Last(qs).text = Last(ps).text \o txt
  /\ ~(ps # <<>> /\ Last(ps).tag = kind) =>
       Last(qs).text = txt /\ qs = Append(ps, Part(kind, "none", txt, "none"))

\* Text that continues a part, or begins one.
LEMMA AppendDeltaShape ==
  ASSUME NEW ps \in Seq(PartShape), NEW kind \in Kinds, NEW txt \in Seq(Nat),
         NEW qs, qs = AppendDelta(ps, kind, txt)
  PROVE  /\ qs \in Seq(PartShape) /\ Solid(qs) = Solid(ps) /\ (OnePart(ps) => OnePart(qs))
         /\ Continues(ps, qs, kind, txt)
  <1> DEFINE n == Len(ps)
  <1>1. n \in Nat /\ DOMAIN ps = 1..n /\ (\A i \in 1..n : ps[i] \in PartShape) /\ (ps # <<>> => n \in 1..n)
    OBVIOUS
  <1>2. CASE ps # <<>> /\ Last(ps).tag = kind
    <2>1. qs = [ps EXCEPT ![n].text = @ \o txt]
      BY <1>2 DEF AppendDelta
    <2> DEFINE p == [ps[n] EXCEPT !.text = @ \o txt]
    <2>2. ps[n].tag = kind /\ ps[n].text \in Seq(Nat) /\ ps[n].text \o txt \in Seq(Nat)
      BY <1>1, <1>2, ConcatProperties DEF Last, PartShape
    <2>3. p \in PartShape /\ p.tag = kind /\ p.text = ps[n].text \o txt
      BY <1>1, <1>2, <2>2 DEF PartShape
    <2>4. qs = [ps EXCEPT ![n] = p]
      BY <1>1, <1>2, <2>1
    <2> HIDE DEF p
    <2>5. qs \in Seq(PartShape) /\ Len(qs) = n /\ qs[n] = p /\ \A i \in 1..n : i # n => qs[i] = ps[i]
      BY <1>1, <1>2, <2>3, <2>4
    <2>6. Solid(qs) = Solid(ps)
      <3>1. \A i \in 1..n : qs[i] = ps[i] \/ (qs[i].tag \in Kinds /\ ps[i].tag \in Kinds)
        BY <2>2, <2>3, <2>5
      <3>. QED  BY <2>5, <3>1, SolidAgrees
    <2>7. OnePart(ps) => OnePart(qs)
      <3>1. \A i \in 1..n : qs[i].tag = ps[i].tag /\ (qs[i].tag \in {"ToolCall", "Approval"} => qs[i] = ps[i])
        BY <2>2, <2>3, <2>5 DEF Kinds
      <3>. QED  BY <2>5, <3>1 DEF OnePart
    <2>. QED  BY <1>2, <2>2, <2>3, <2>5, <2>6, <2>7 DEF Last, Continues
  <1>3. CASE ~(ps # <<>> /\ Last(ps).tag = kind)
    <2> DEFINE p == Part(kind, "none", txt, "none")
    <2>1. qs = Append(ps, p)
      BY <1>3 DEF AppendDelta
    <2>2. p \in PartShape /\ p.tag = kind /\ p.text = txt
      BY DEF Part, PartShape, Statuses
    <2>3. qs \in Seq(PartShape) /\ Len(qs) = n + 1 /\ (\A i \in 1..n : qs[i] = ps[i]) /\ qs[n+1] = p /\ qs # <<>>
      <3> HIDE DEF p
      <3>. QED BY <2>1, <2>2, AppendProperties
    <2>4. Solid(qs) = Solid(ps)
      <3> HIDE DEF p
      <3>. QED BY <2>1, <2>2, SolidAppends
    <2>5. OnePart(ps) => OnePart(qs)
      <3> HIDE DEF p
      <3>. QED BY <1>1, <2>2, <2>3 DEF OnePart, Kinds
    <2>6. Last(qs) = p
      BY <1>1, <2>3 DEF Last
    <2>. QED  BY <1>3, <2>1, <2>2, <2>3, <2>4, <2>5, <2>6 DEF Continues
  <1>. QED  BY <1>2, <1>3

\* A part that is no text, in both.
LEMMA AppendsSolid ==
  ASSUME NEW ps \in Seq(PartShape), OnePart(ps), NEW p \in PartShape,
         p.tag \in {"ToolCall", "Approval"} => \A i \in 1..Len(ps) : ps[i].id # p.id,
         NEW qs, qs = Append(ps, p)
  PROVE  qs \in Seq(PartShape) /\ OnePart(qs) /\ qs # <<>> /\ Last(qs) = p
  <1> DEFINE n == Len(ps)
  <1>1. n \in Nat /\ qs \in Seq(PartShape) /\ Len(qs) = n + 1 /\ (\A i \in 1..n : qs[i] = ps[i]) /\ qs[n+1] = p /\ qs # <<>>
    BY AppendProperties
  <1>2. ASSUME NEW i \in 1..(n+1), NEW j \in 1..(n+1),
               qs[i].tag \in {"ToolCall", "Approval"}, qs[i].tag = qs[j].tag, qs[i].id = qs[j].id
        PROVE  i = j
    <2>1. (i \in 1..n \/ i = n + 1) /\ (j \in 1..n \/ j = n + 1)
      BY <1>1
    <2>. QED  BY <1>1, <1>2, <2>1 DEF OnePart
  <1>. QED  BY <1>1, <1>2 DEF OnePart, Last

\* An empty part, appended to both.
LEMMA AppendBoth ==
  ASSUME TurnPartsInv, NEW p \in PartShape, p.tag \notin Kinds,
         p.tag \in {"ToolCall", "Approval"} => \A i \in 1..Len(parts) : parts[i].id # p.id,
         parts' = Append(parts, p), shownParts' = Append(shownParts, p),
         block' = block, sawPartials' = sawPartials, normalizer' = normalizer,
         said' \in Nat, merged' = (merged \/ block # NoBlock)
  PROVE  TurnPartsInv'
  <1>1. parts \in Seq(PartShape) /\ shownParts \in Seq(PartShape) /\ OnePart(parts)
    BY DEF TurnPartsInv
  <1>2. parts' \in Seq(PartShape) /\ OnePart(parts')
    BY <1>1, AppendsSolid
  <1>3. shownParts' \in Seq(PartShape)
    BY <1>1, AppendProperties
  <1>4. Solid(parts') = Solid(shownParts')
    <2>1. Solid(Append(parts, p)) = Append(Solid(parts), p)
      BY <1>1, SolidAppends
    <2>2. Solid(Append(shownParts, p)) = Append(Solid(shownParts), p)
      BY <1>1, SolidAppends
    <2>. QED  BY <2>1, <2>2 DEF TurnPartsInv, ToolsAreSaved
  <1>5. SavedIsShown'
    BY DEF TurnPartsInv, SavedIsShown
  <1>6. BlockInv'
    BY DEF TurnPartsInv, BlockInv
  <1>7. merged' \in BOOLEAN
    BY DEF TurnPartsInv
  <1>. QED  BY <1>2, <1>3, <1>4, <1>5, <1>6, <1>7 DEF TurnPartsInv, ToolsAreSaved

\* A state that changes in both.
LEMMA MarkBoth ==
  ASSUME TurnPartsInv, NEW tag \in {"ToolCall", "Approval"}, NEW id, NEW status \in Statuses,
         parts' = SetFirst(parts, tag, id, status), shownParts' = SetAll(shownParts, tag, id, status),
         block' = block, sawPartials' = sawPartials, normalizer' = normalizer, said' = said, merged' = merged
  PROVE  TurnPartsInv'
  <1>1. parts \in Seq(PartShape) /\ shownParts \in Seq(PartShape) /\ OnePart(parts)
    BY DEF TurnPartsInv
  <1>2. parts' = SetAll(parts, tag, id, status)
    BY <1>1, SetFirstIsSetAll
  <1>3. /\ parts' \in Seq(PartShape) /\ Len(parts') = Len(parts)
        /\ \A i \in 1..Len(parts) : parts'[i] = Marked(parts[i], tag, id, status)
    BY <1>1, <1>2, SetAllShape
  <1>4. shownParts' \in Seq(PartShape)
    BY <1>1, SetAllShape
  <1>5. \A i \in 1..Len(parts) : parts'[i].tag = parts[i].tag /\ parts'[i].id = parts[i].id /\ parts'[i].text = parts[i].text
    <2>1. \A i \in 1..Len(parts) : parts[i] \in PartShape
      BY <1>1
    <2>. QED  BY <1>3, <2>1, MarkedShape
  <1>6. OnePart(parts')
    BY <1>1, <1>3, <1>5 DEF OnePart
  <1>7. Solid(parts') = Solid(shownParts')
    <2>1. Solid(parts') = SetAll(Solid(parts), tag, id, status)
      BY <1>1, <1>2, SolidSetAll
    <2>2. Solid(shownParts') = SetAll(Solid(shownParts), tag, id, status)
      BY <1>1, SolidSetAll
    <2>. QED  BY <2>1, <2>2 DEF TurnPartsInv, ToolsAreSaved
  <1>8. SavedIsShown'
    BY <1>2 DEF TurnPartsInv, SavedIsShown
  <1>9. BlockInv'
    <2>1. parts # <<>> => parts' # <<>> /\ Last(parts').tag = Last(parts).tag /\ Last(parts').text = Last(parts).text
      <3> SUFFICES ASSUME parts # <<>> PROVE parts' # <<>> /\ Last(parts').tag = Last(parts).tag /\ Last(parts').text = Last(parts).text
        OBVIOUS
      <3>1. Len(parts) \in 1..Len(parts) /\ Len(parts) # 0
        BY <1>1
      <3>. QED  BY <1>1, <1>3, <1>5, <3>1 DEF Last
    <2>. QED  BY <2>1 DEF TurnPartsInv, BlockInv
  <1>. QED  BY <1>3, <1>4, <1>6, <1>7, <1>8, <1>9 DEF TurnPartsInv, ToolsAreSaved

LEMMA DeltaKeeps ==
  ASSUME TurnPartsInv, NEW kind \in Kinds, Delta(kind)
  PROVE  TurnPartsInv'
  <1> DEFINE txt == <<said'>>
  <1>1. /\ parts \in Seq(PartShape) /\ shownParts \in Seq(PartShape) /\ OnePart(parts) /\ said \in Nat
        /\ block \in [kind: Kinds \cup {"none"}, text: Seq(Nat)]
    BY DEF TurnPartsInv, BlockInv
  <1>2. said' \in Nat /\ txt \in Seq(Nat) /\ merged' \in BOOLEAN /\ (merged => merged') /\ normalizer' = normalizer
        /\ normalizer' \in BOOLEAN /\ sawPartials' = TRUE
    BY <1>1 DEF TurnPartsInv, Delta, New
  <1>3. parts' = AppendDelta(parts, kind, txt)
    BY DEF Delta
  <1>4. shownParts' = AppendDelta(shownParts, kind, txt)
    <2> DEFINE ev == [tag |-> kind, text |-> txt]
    <2>1. shownParts' = ReduceEvent(shownParts, ev)
      BY DEF Delta, Emit
    <2>2. ev.tag = kind /\ ev.text = txt
      OBVIOUS
    <2> HIDE DEF ev, txt
    <2>. QED  BY <2>1, <2>2 DEF ReduceEvent, Kinds
  <1> HIDE DEF txt
  <1>50. parts' \in Seq(PartShape) /\ Solid(parts') = Solid(parts) /\ OnePart(parts')
         /\ Continues(parts, parts', kind, txt)
    BY <1>1, <1>2, <1>3, AppendDeltaShape
  <1>5. /\ parts' \in Seq(PartShape) /\ Solid(parts') = Solid(parts) /\ OnePart(parts')
        /\ parts' # <<>> /\ Last(parts').tag = kind
        /\ parts # <<>> /\ Last(parts).tag = kind => Last(parts').text = Last(parts).text \o txt
        /\ ~(parts # <<>> /\ Last(parts).tag = kind) => Last(parts').text = txt
    BY <1>50 DEF Continues
  <1>6. shownParts' \in Seq(PartShape) /\ Solid(shownParts') = Solid(shownParts)
    BY <1>1, <1>2, <1>4, AppendDeltaShape
  <1>7. SavedIsShown'
    BY <1>2, <1>3, <1>4 DEF TurnPartsInv, SavedIsShown
  <1>8. BlockInv'
    <2>1. CASE ~normalizer
      BY <2>1 DEF Delta, BlockInv, NoBlock
    <2>2. CASE normalizer /\ block = NoBlock
      <3>1. block' = [kind |-> kind, text |-> txt]
        BY <2>2 DEF Delta, NoBlock, txt
      <3>2. ~merged' => ~(parts # <<>> /\ Last(parts).tag = kind)
        BY <2>2 DEF Delta, IsLast, NoBlock, Kinds
      <3>. QED  BY <1>2, <1>5, <2>2, <3>1, <3>2 DEF BlockInv
    <2>3. CASE normalizer /\ block # NoBlock
      <3>1. block.kind = kind /\ merged' = merged
        BY <2>3 DEF Delta
      <3>2. block' = [kind |-> kind, text |-> Append(block.text, said')]
        BY <2>3 DEF Delta
      <3>3. Append(block.text, said') \in Seq(Nat) /\ Append(block.text, said') = block.text \o txt
        BY <1>1, <1>2 DEF txt
      <3>4. ~merged' => parts # <<>> /\ Last(parts).tag = kind /\ Last(parts).text = block.text
        BY <2>3, <3>1 DEF TurnPartsInv, BlockInv
      <3>. QED  BY <1>2, <1>5, <2>3, <3>2, <3>3, <3>4 DEF BlockInv
    <2>. QED  BY <2>1, <2>2, <2>3 DEF TurnPartsInv
  <1>. QED  BY <1>2, <1>5, <1>6, <1>7, <1>8 DEF TurnPartsInv, ToolsAreSaved

LEMMA FinalShape ==
  ASSUME parts \in Seq(PartShape), OnePart(parts), NEW kind \in Kinds, NEW txt \in Seq(Nat),
         NEW qs, qs = Final(kind, txt)
  PROVE  /\ qs \in Seq(PartShape) /\ Solid(qs) = Solid(parts) /\ OnePart(qs)
         /\ parts # <<>> /\ Last(parts).tag = kind /\ Last(parts).text = txt => qs = parts
  <1> DEFINE n == Len(parts)
             found == {i \in DOMAIN parts : parts[i].tag = kind}
             top == CHOOSE i \in found : \A j \in found : i >= j
  <1>1. n \in Nat /\ DOMAIN parts = 1..n /\ (\A i \in 1..n : parts[i] \in PartShape) /\ (parts # <<>> => n \in 1..n)
    OBVIOUS
  <1>2. CASE found = {}
    <2>1. qs = parts
      BY <1>2 DEF Final
    <2>. QED  BY <2>1
  <1>3. CASE found # {}
    <2>1. \E i \in found : \A j \in found : i >= j
      <3> DEFINE S == {k \in 0..n : (n - k) \in found}
      <3>1. S \subseteq Nat /\ S # {}
        <4>1. PICK i \in found : TRUE
          BY <1>3
        <4>2. i \in 1..n
          BY <1>1
        <4>3. n - i \in 0..n /\ n - (n - i) = i
          BY <1>1, <4>2
        <4>4. n - i \in S
          <5> HIDE DEF found
          <5>. QED  BY <4>1, <4>3
        <4>. QED  BY <4>4
      <3>2. PICK k \in S : \A m \in S : k <= m
        <4> HIDE DEF S
        <4>. QED  BY <3>1, LeastElement
      <3>3. n - k \in found /\ k \in 0..n
        BY <3>2
      <3>4. ASSUME NEW j \in found PROVE n - k >= j
        <4>1. j \in 1..n
          BY <1>1
        <4>2. n - j \in 0..n /\ n - (n - j) = j
          BY <1>1, <4>1
        <4>3. n - j \in S
          <5> HIDE DEF found
          <5>. QED  BY <4>2, <3>4
        <4>4. k <= n - j
          BY <3>2, <4>3
        <4>. QED  BY <1>1, <3>3, <4>1, <4>4
      <3>. QED  BY <3>3, <3>4
    <2>2. top \in found /\ \A j \in found : top >= j
      <3> HIDE DEF found
      <3>. QED  BY <2>1
    <2>3. top \in 1..n /\ parts[top].tag = kind
      BY <1>1, <2>2
    <2>4. qs = [parts EXCEPT ![top].text = txt]
      BY <1>3 DEF Final
    <2>5. parts # <<>> /\ Last(parts).tag = kind => top = n
      <3>1. ASSUME parts # <<>>, Last(parts).tag = kind PROVE top = n
        <4>1. n \in found
          BY <1>1, <3>1 DEF Last
        <4>2. top >= n
          BY <2>2, <4>1
        <4>3. n \in 1..n
          BY <1>1, <3>1
        <4>4. n \in Nat
          BY <1>1
        <4> HIDE DEF top, n
        <4>. QED  BY <2>3, <4>2, <4>3, <4>4
      <3>. QED  BY <3>1
    <2> HIDE DEF top, found
    <2> DEFINE p == [parts[top] EXCEPT !.text = txt]
    <2>6. p \in PartShape /\ p.tag = kind /\ p.text = txt /\ (parts[top].text = txt => p = parts[top])
      BY <1>1, <2>3 DEF PartShape
    <2>7. qs = [parts EXCEPT ![top] = p]
      BY <1>1, <2>3, <2>4
    <2> HIDE DEF p
    <2>8. qs \in Seq(PartShape) /\ Len(qs) = n /\ qs[top] = p /\ \A i \in 1..n : i # top => qs[i] = parts[i]
      BY <1>1, <2>3, <2>6, <2>7
    <2>9. Solid(qs) = Solid(parts)
      <3>1. \A i \in 1..n : qs[i] = parts[i] \/ (qs[i].tag \in Kinds /\ parts[i].tag \in Kinds)
        BY <2>3, <2>6, <2>8
      <3>. QED  BY <2>8, <3>1, SolidAgrees
    <2>10. OnePart(qs)
      <3>1. \A i \in 1..n : qs[i].tag = parts[i].tag /\ (qs[i].tag \in {"ToolCall", "Approval"} => qs[i] = parts[i])
        BY <2>3, <2>6, <2>8 DEF Kinds
      <3>. QED  BY <2>8, <3>1 DEF OnePart
    <2>11. ASSUME parts # <<>>, Last(parts).tag = kind, Last(parts).text = txt PROVE qs = parts
      <3>1. p = parts[top]
        BY <2>5, <2>6, <2>11 DEF Last
      <3>2. \A i \in 1..n : qs[i] = parts[i]
        BY <2>8, <3>1
      <3>. QED  BY <2>8, <3>2, SeqEqual
    <2>. QED  BY <2>8, <2>9, <2>10, <2>11
  <1>. QED  BY <1>2, <1>3

LEMMA AssistantKeeps ==
  ASSUME TurnPartsInv, NEW kind \in Kinds, NEW txt, Assistant(kind, txt)
  PROVE  TurnPartsInv'
  <1>1. /\ parts \in Seq(PartShape) /\ shownParts \in Seq(PartShape) /\ OnePart(parts) /\ said \in Nat
        /\ block \in [kind: Kinds \cup {"none"}, text: Seq(Nat)]
        /\ (block # NoBlock => block.kind \in Kinds /\ normalizer /\ sawPartials)
        /\ (block # NoBlock /\ ~merged => parts # <<>> /\ Last(parts).tag = block.kind /\ Last(parts).text = block.text)
    BY DEF TurnPartsInv, BlockInv
  <1>2. /\ said' \in Nat /\ txt \in Seq(Nat) /\ merged' \in BOOLEAN /\ (merged => merged')
        /\ normalizer' \in BOOLEAN /\ sawPartials' = sawPartials /\ sawPartials' \in BOOLEAN
    <2>1. merged \in BOOLEAN /\ normalizer \in BOOLEAN /\ sawPartials \in BOOLEAN
      BY DEF TurnPartsInv
    <2>2. normalizer' = normalizer /\ sawPartials' = sawPartials
      BY DEF Assistant
    <2>3. CASE block.kind = kind /\ txt = block.text /\ UNCHANGED <<said, merged>>
      BY <1>1, <2>1, <2>2, <2>3
    <2>4. CASE block = NoBlock /\ New /\ txt = <<said'>> /\ merged' = (merged \/ sawPartials \/ IsLast(kind))
      <3>1. said' \in Nat
        BY <1>1, <2>4 DEF New
      <3>2. txt \in Seq(Nat)
        BY <2>4, <3>1
      <3>3. merged' \in BOOLEAN /\ (merged => merged')
        BY <2>4
      <3>. QED  BY <2>1, <2>2, <3>1, <3>2, <3>3
    <2>. QED  BY <2>3, <2>4 DEF Assistant
  <1>3. BlockInv'
    BY DEF Assistant, BlockInv, NoBlock
  <1>4. CASE sawPartials
    <2>1. parts' = Final(kind, txt) /\ shownParts' = shownParts
      BY <1>4 DEF Assistant
    <2>2. /\ parts' \in Seq(PartShape) /\ Solid(parts') = Solid(parts) /\ OnePart(parts')
          /\ parts # <<>> /\ Last(parts).tag = kind /\ Last(parts).text = txt => parts' = parts
      BY <1>1, <1>2, <2>1, FinalShape
    <2>3. ~merged' => ~merged /\ block.kind = kind /\ txt = block.text
      BY <1>4 DEF Assistant
    <2>4. ASSUME ~merged' PROVE parts' = parts
      <3>1. block # NoBlock
        BY <2>3, <2>4 DEF NoBlock, Kinds
      <3>. QED  BY <1>1, <2>2, <2>3, <2>4, <3>1
    <2>5. SavedIsShown'
      BY <2>1, <2>3, <2>4 DEF TurnPartsInv, SavedIsShown
    <2>. QED  BY <1>1, <1>2, <1>3, <2>1, <2>2, <2>5 DEF TurnPartsInv, ToolsAreSaved
  <1>5. CASE ~sawPartials
    <2> DEFINE p == Part(kind, "none", txt, "none")
    <2>1. parts' = Append(parts, p)
      BY <1>5 DEF Assistant
    <2>2. shownParts' = AppendDelta(shownParts, kind, txt)
      <3> DEFINE ev == [tag |-> kind, text |-> txt]
      <3>1. shownParts' = ReduceEvent(shownParts, ev)
        BY <1>5 DEF Assistant, Emit
      <3>2. ev.tag = kind /\ ev.text = txt
        OBVIOUS
      <3> HIDE DEF ev
      <3>. QED  BY <3>1, <3>2 DEF ReduceEvent, Kinds
    <2>3. block = NoBlock /\ merged' = (merged \/ IsLast(kind))
      BY <1>1, <1>5 DEF Assistant, NoBlock, Kinds
    <2>4. p \in PartShape /\ p.tag \in Kinds
      BY <1>2 DEF Part, PartShape, Statuses
    <2>5. parts' \in Seq(PartShape) /\ OnePart(parts')
      <3>1. p.tag \notin {"ToolCall", "Approval"}
        BY <2>4 DEF Kinds
      <3> HIDE DEF p
      <3>. QED  BY <1>1, <2>1, <2>4, <3>1, AppendsSolid
    <2>6. Solid(parts') = Solid(parts)
      <3> HIDE DEF p
      <3>. QED  BY <1>1, <2>1, <2>4, SolidAppends
    <2>7. shownParts' \in Seq(PartShape) /\ Solid(shownParts') = Solid(shownParts)
          /\ (~(shownParts # <<>> /\ Last(shownParts).tag = kind) => shownParts' = Append(shownParts, p))
      <3>1. shownParts' \in Seq(PartShape) /\ Solid(shownParts') = Solid(shownParts)
            /\ Continues(shownParts, shownParts', kind, txt)
        BY <1>1, <1>2, <2>2, AppendDeltaShape
      <3>. QED  BY <3>1 DEF Continues
    <2>8. SavedIsShown'
      <3> HIDE DEF p
      <3>. QED  BY <2>1, <2>3, <2>7 DEF TurnPartsInv, SavedIsShown, IsLast
    <2>. QED  BY <1>2, <1>3, <2>5, <2>6, <2>7, <2>8 DEF TurnPartsInv, ToolsAreSaved
  <1>. QED  BY <1>2, <1>4, <1>5

LEMMA TurnPartsRest ==
  ASSUME TurnPartsInv, UNCHANGED partsVars
  PROVE  TurnPartsInv'
  BY DEF partsVars, TurnPartsInv, BlockInv, SavedIsShown, ToolsAreSaved

LEMMA TurnPartsStep ==
  ASSUME TurnPartsInv, PartsNext
  PROVE  TurnPartsInv'
  <1>1. parts \in Seq(PartShape) /\ said \in Nat
    BY DEF TurnPartsInv
  <1>2. ASSUME NEW id \in Tools, ToolUse(id) PROVE TurnPartsInv'
    <2> DEFINE p == Part("ToolCall", id, <<>>, "running")
    <2>1. p \in PartShape /\ p.tag = "ToolCall" /\ p.id = id
      BY DEF Part, PartShape, Statuses
    <2>2. p.tag \notin Kinds
      BY <2>1 DEF Kinds
    <2>3. parts' = Append(parts, p) /\ shownParts' = Append(shownParts, p)
      BY <1>2 DEF ToolUse, Emit, ReduceEvent, Kinds
    <2>4. \A i \in 1..Len(parts) : parts[i].id # p.id
      BY <1>1, <1>2, <2>1 DEF ToolUse, Uses
    <2>5. /\ block' = block /\ sawPartials' = sawPartials /\ normalizer' = normalizer /\ said' \in Nat
          /\ merged' = (merged \/ block # NoBlock)
      BY <1>1, <1>2 DEF ToolUse, New, TurnPartsInv
    <2> HIDE DEF p
    <2>. QED  BY <2>1, <2>2, <2>3, <2>4, <2>5, AppendBoth
  <1>3. ASSUME NEW id \in Tools, NEW status \in {"done", "error"}, ToolResult(id, status) PROVE TurnPartsInv'
    <2>1. parts' = SetFirst(parts, "ToolCall", id, status)
      BY <1>3 DEF ToolResult
    <2>2. shownParts' = SetAll(shownParts, "ToolCall", id, status)
      BY <1>3 DEF ToolResult, Emit, ReduceEvent, Kinds
    <2>3. status \in Statuses /\ block' = block /\ sawPartials' = sawPartials /\ normalizer' = normalizer
          /\ said' = said /\ merged' = merged
      BY <1>3 DEF ToolResult, Statuses
    <2>. QED  BY <2>1, <2>2, <2>3, MarkBoth
  <1>4. ASSUME ResultTable PROVE TurnPartsInv'
    <2> DEFINE p == Part("ResultTable", "none", <<>>, "none")
               ev == [tag |-> "ResultTable", part |-> p]
    <2>1. p \in PartShape /\ p.tag = "ResultTable"
      BY DEF Part, PartShape, Statuses
    <2>2. p.tag \notin Kinds /\ p.tag \notin {"ToolCall", "Approval"}
      BY <2>1 DEF Kinds
    <2>3. ToolEvent(ev)
      BY <1>4 DEF ResultTable
    <2>4. ev.tag = "ResultTable" /\ ev.part = p
      OBVIOUS
    <2> HIDE DEF p, ev
    <2>5. parts' = Append(parts, p) /\ shownParts' = Append(shownParts, p)
      BY <2>3, <2>4 DEF ToolEvent, IngestToolEvent, Emit, ReduceEvent, Kinds
    <2>6. /\ block' = block /\ sawPartials' = sawPartials /\ normalizer' = normalizer /\ said' \in Nat
          /\ merged' = (merged \/ block # NoBlock)
      BY <1>1, <1>4 DEF ResultTable, ToolEvent, New, TurnPartsInv
    <2>. QED  BY <2>1, <2>2, <2>5, <2>6, AppendBoth
  <1>5. ASSUME NEW a \in Approvals, ApprovalRequested(a) PROVE TurnPartsInv'
    <2> DEFINE p == Part("Approval", a, <<>>, "pending")
               ev == [tag |-> "ApprovalRequested", part |-> p]
    <2>1. p \in PartShape /\ p.tag = "Approval" /\ p.id = a
      BY DEF Part, PartShape, Statuses
    <2>2. p.tag \notin Kinds
      BY <2>1 DEF Kinds
    <2>3. ToolEvent(ev)
      BY <1>5 DEF ApprovalRequested
    <2>4. ev.tag = "ApprovalRequested" /\ ev.part = p
      OBVIOUS
    <2>5. \A i \in 1..Len(parts) : parts[i].id # p.id
      BY <1>1, <1>5, <2>1 DEF ApprovalRequested, Uses
    <2> HIDE DEF p, ev
    <2>6. parts' = Append(parts, p) /\ shownParts' = Append(shownParts, p)
      BY <2>3, <2>4 DEF ToolEvent, IngestToolEvent, Emit, ReduceEvent, Kinds
    <2>7. /\ block' = block /\ sawPartials' = sawPartials /\ normalizer' = normalizer /\ said' \in Nat
          /\ merged' = (merged \/ block # NoBlock)
      BY <1>1, <1>5 DEF ApprovalRequested, ToolEvent, New, TurnPartsInv
    <2>. QED  BY <2>1, <2>2, <2>5, <2>6, <2>7, AppendBoth
  <1>6. ASSUME NEW a \in Approvals, NEW s \in {"executed", "rejected"}, ApprovalResolved(a, s) PROVE TurnPartsInv'
    <2> DEFINE ev == [tag |-> "ApprovalResolved", id |-> a, status |-> s]
    <2>1. ToolEvent(ev) /\ said' = said /\ merged' = merged
      BY <1>6 DEF ApprovalResolved
    <2>2. ev.tag = "ApprovalResolved" /\ ev.id = a /\ ev.status = s /\ s \in Statuses
      BY DEF Statuses
    <2> HIDE DEF ev
    <2>3. parts' = SetFirst(parts, "Approval", a, s) /\ shownParts' = SetAll(shownParts, "Approval", a, s)
      BY <2>1, <2>2 DEF ToolEvent, IngestToolEvent, Emit, ReduceEvent, Kinds
    <2>4. block' = block /\ sawPartials' = sawPartials /\ normalizer' = normalizer
      BY <2>1 DEF ToolEvent
    <2>. QED  BY <2>1, <2>2, <2>3, <2>4, MarkBoth
  <1>7. ASSUME Result PROVE TurnPartsInv'
    BY <1>7 DEF Result, TurnPartsInv, BlockInv, SavedIsShown, ToolsAreSaved
  <1>. QED  BY <1>2, <1>3, <1>4, <1>5, <1>6, <1>7, DeltaKeeps, AssistantKeeps DEF PartsNext

-----------------------------------------------------------------------------
(* ClaudeRuntime                                                           *)

\* Settings that can be told from the marks.
Real(s) == s.binary \notin {"-", "?"}

LEMMA RealSettings ==
  /\ Real(NoOverrides)
  /\ \A s : Real(s) => s # NoSettings /\ s # Unreadable /\ Real(Clean(s))
  /\ \A b \in BinaryTexts : \A d : Real(Settings(b, d)) /\ Real(Settings(Trimmed(b), d))
  <1>1. Real(NoOverrides)
    BY DEF Real, NoOverrides, Settings
  <1>2. \A s : Real(s) => s # NoSettings /\ s # Unreadable
    BY DEF Real, NoSettings, Unreadable, Settings
  <1>3. \A s : Real(s) => Real(Clean(s))
    BY DEF Real, Clean, Settings, Trimmed
  <1>4. ASSUME NEW b \in BinaryTexts, NEW d PROVE Real(Settings(b, d)) /\ Real(Settings(Trimmed(b), d))
    BY RuntimeAssumption DEF Real, Settings, Trimmed
  <1>. QED  BY <1>1, <1>2, <1>3, <1>4

\* The section follows one probe; what it ran on was that probe's settings.
ProbeInv ==
  /\ probeShown.id \in Nat
  /\ \A c \in probeCalls :
       /\ c.id \in Nat /\ c.id <= probeShown.id
       /\ c.id = probeShown.id => c.settings = probeShown.settings
       /\ sinceSave /\ c.id = probeShown.id /\ c.status # NoStatus => c.status = ResolveRuntime(c.settings)
  /\ sinceSave /\ probeShown.status # NoStatus => probeShown.status = ResolveRuntime(probeShown.settings)
  /\ sinceSave => probeShown.settings = LoadSettings

RuntimeInv ==
  /\ claudeFile = Unreadable \/ Real(claudeFile)
  /\ Real(claudeDraft)
  /\ \A s \in saveCalls : Real(s)
  /\ sinceSave => settingsShown = LoadSettings /\ settingsShown # NoSettings
  /\ sinceSave \in BOOLEAN
  /\ ProbeInv

LEMMA RuntimeStart == RuntimeInit => RuntimeInv
  <1> SUFFICES ASSUME RuntimeInit PROVE RuntimeInv
    OBVIOUS
  <1>1. Real(claudeFile)
    <2>1. PICK b \in {Trimmed(t) : t \in BinaryTexts}, d \in DirTexts : claudeFile = Settings(b, d)
      BY DEF RuntimeInit
    <2>2. PICK t \in BinaryTexts : b = Trimmed(t)
      BY <2>1
    <2>. QED  BY <2>1, <2>2, RealSettings
  <1>. QED  BY <1>1, RealSettings DEF RuntimeInit, RuntimeInv, ProbeInv

LEMMA LoadedReal == RuntimeInv => Real(LoadSettings)
  BY RealSettings DEF RuntimeInv, LoadSettings

\* A probe that is new is of no other call.
LEMMA ProbeForKeeps ==
  ASSUME ProbeInv, NEW s, ProbeFor(s), sinceSave' => s = LoadSettings'
  PROVE  ProbeInv'
  <1> DEFINE c == [id |-> probeShown.id + 1, settings |-> s, status |-> NoStatus]
  <1>1. probeShown' = c /\ probeCalls' = probeCalls \cup {c}
    BY DEF ProbeFor
  <1>2. c.id = probeShown.id + 1 /\ c.settings = s /\ c.status = NoStatus
    OBVIOUS
  <1> HIDE DEF c
  <1>3. probeShown.id \in Nat /\ \A d \in probeCalls : d.id \in Nat /\ d.id <= probeShown.id
    BY DEF ProbeInv
  <1>4. c.id \in Nat /\ \A d \in probeCalls : d.id <= c.id /\ d.id # c.id
    BY <1>2, <1>3
  <1>. QED  BY <1>1, <1>2, <1>3, <1>4 DEF ProbeInv

LEMMA RuntimeStep ==
  ASSUME RuntimeInv, RuntimeNext
  PROVE  RuntimeInv'
  <1> USE RealSettings, LoadedReal
  <1>1. CASE SettingsArrive
    <2>1. claudeFile' = claudeFile /\ executables' = executables /\ saveCalls' = saveCalls /\ sinceSave' = sinceSave
          /\ settingsShown' = LoadSettings
      BY <1>1 DEF SettingsArrive
    <2>2. LoadSettings' = LoadSettings
      BY <2>1 DEF LoadSettings
    <2>3. ProbeInv'
      <3>1. CASE ~seeded
        BY <1>1, <2>1, <2>2, <3>1, ProbeForKeeps DEF SettingsArrive, RuntimeInv
      <3>2. CASE seeded
        <4>1. probeShown' = probeShown /\ probeCalls' = probeCalls
          BY <1>1, <3>2 DEF SettingsArrive
        <4>. QED  BY <2>1, <4>1 DEF RuntimeInv, ProbeInv, ResolveRuntime, ResolveBinary, ResolveConfigDir, LoadSettings
      <3>. QED  BY <3>1, <3>2
    <2>4. Real(claudeDraft')
      BY <1>1 DEF SettingsArrive, RuntimeInv
    <2>. QED  BY <2>1, <2>2, <2>3, <2>4 DEF RuntimeInv
  <1>2. CASE \E b \in BinaryTexts, d \in DirTexts : TypeSettings(Settings(b, d))
    <2>1. PICK b \in BinaryTexts, d \in DirTexts : TypeSettings(Settings(b, d))
      BY <1>2
    <2>2. /\ claudeDraft' = Settings(b, d)
          /\ UNCHANGED <<claudeFile, executables, settingsShown, saveCalls, probeCalls, probeShown, sinceSave>>
      BY <2>1 DEF TypeSettings
    <2>3. ProbeInv'
      BY <2>2 DEF RuntimeInv, ProbeInv, ResolveRuntime, ResolveBinary, ResolveConfigDir, LoadSettings
    <2>. QED  BY <2>2, <2>3 DEF RuntimeInv, LoadSettings
  <1>3. CASE SaveSettings
    <2>1. /\ saveCalls' = {claudeDraft}
          /\ UNCHANGED <<claudeFile, executables, settingsShown, claudeDraft, probeCalls, probeShown, sinceSave>>
      BY <1>3 DEF SaveSettings
    <2>2. ProbeInv'
      BY <2>1 DEF RuntimeInv, ProbeInv, ResolveRuntime, ResolveBinary, ResolveConfigDir, LoadSettings
    <2>. QED  BY <2>1, <2>2 DEF RuntimeInv, LoadSettings
  <1>4. ASSUME NEW s \in saveCalls, SaveSucceeds(s) PROVE RuntimeInv'
    <2>1. /\ claudeFile' = Clean(s) /\ settingsShown' = Clean(s) /\ saveCalls' = {} /\ sinceSave' = TRUE
          /\ ProbeFor(Clean(s)) /\ claudeDraft' = claudeDraft
      BY <1>4 DEF SaveSucceeds
    <2>2. Real(Clean(s))
      BY DEF RuntimeInv
    <2>3. LoadSettings' = Clean(s)
      BY <2>1, <2>2 DEF LoadSettings
    <2>4. ProbeInv'
      BY <2>1, <2>3, ProbeForKeeps DEF RuntimeInv
    <2>. QED  BY <2>1, <2>2, <2>3, <2>4 DEF RuntimeInv
  <1>5. CASE TestSettings
    <2>1. /\ ProbeFor(claudeDraft) /\ sinceSave' = FALSE
          /\ UNCHANGED <<claudeFile, executables, settingsShown, claudeDraft, saveCalls>>
      BY <1>5 DEF TestSettings
    <2>2. ProbeInv'
      BY <2>1, ProbeForKeeps DEF RuntimeInv
    <2>. QED  BY <2>1, <2>2 DEF RuntimeInv
  <1>6. ASSUME NEW c \in probeCalls, ProbeRuns(c) PROVE RuntimeInv'
    <2> DEFINE d == [c EXCEPT !.status = ResolveRuntime(c.settings)]
    <2>1. /\ probeCalls' = (probeCalls \ {c}) \cup {d}
          /\ UNCHANGED <<claudeFile, executables, settingsShown, claudeDraft, saveCalls, probeShown, sinceSave>>
      BY <1>6 DEF ProbeRuns
    <2>2. d.id = c.id /\ d.settings = c.settings /\ (d.status = c.status \/ d.status = ResolveRuntime(c.settings))
      OBVIOUS
    <2>3. (\A s : ResolveRuntime(s)' = ResolveRuntime(s)) /\ LoadSettings' = LoadSettings
      BY <2>1 DEF ResolveRuntime, ResolveBinary, ResolveConfigDir, LoadSettings
    <2> HIDE DEF d
    <2>4. ProbeInv'
      BY <2>1, <2>2, <2>3 DEF RuntimeInv, ProbeInv
    <2>. QED  BY <2>1, <2>3, <2>4 DEF RuntimeInv
  <1>7. ASSUME NEW c \in probeCalls, ProbeArrives(c) PROVE RuntimeInv'
    <2>1. /\ probeShown' = IF c.id = probeShown.id THEN c ELSE probeShown
          /\ probeCalls' = probeCalls \ {c}
          /\ UNCHANGED <<claudeFile, executables, settingsShown, claudeDraft, saveCalls, sinceSave>>
      BY <1>7 DEF ProbeArrives
    <2>2. (\A s : ResolveRuntime(s)' = ResolveRuntime(s)) /\ LoadSettings' = LoadSettings
      BY <2>1 DEF ResolveRuntime, ResolveBinary, ResolveConfigDir, LoadSettings
    <2>3. probeShown'.id = probeShown.id /\ probeShown'.settings = probeShown.settings
      BY <2>1 DEF RuntimeInv, ProbeInv
    <2>4. ProbeInv'
      BY <2>1, <2>2, <2>3 DEF RuntimeInv, ProbeInv
    <2>. QED  BY <2>1, <2>2, <2>4 DEF RuntimeInv
  <1>8. CASE MachineMoves
    <2>1. /\ claudeFile' = Unreadable \/ claudeFile' = claudeFile
          /\ sinceSave' = FALSE /\ UNCHANGED <<settingsShown, claudeDraft, saveCalls, probeCalls, probeShown>>
      BY <1>8 DEF MachineMoves
    <2>2. ProbeInv'
      BY <2>1 DEF RuntimeInv, ProbeInv
    <2>. QED  BY <2>1, <2>2 DEF RuntimeInv
  <1>. QED  BY <1>1, <1>2, <1>3, <1>4, <1>5, <1>6, <1>7, <1>8 DEF RuntimeNext

LEMMA RuntimeRest == ASSUME RuntimeInv, UNCHANGED runtimeVars PROVE RuntimeInv'
  BY DEF RuntimeInv, runtimeVars, ProbeInv, ResolveRuntime, ResolveBinary, ResolveConfigDir, LoadSettings

LEMMA RuntimeKeeps == RuntimeInv => StatusIsOfTheNextTurn /\ CleanMeansSaved
  BY DEF RuntimeInv, ProbeInv, StatusIsOfTheNextTurn, CleanMeansSaved, Dirty, TurnRuntime

-----------------------------------------------------------------------------
(* History                                                                 *)

HistoryRow == [run: HistoryRuns, ranAt: Nat, rowid: Nat]

\* The rows before e in the list.
Ahead(S, e) == {x \in S : Newer(x, e)}
OneRowPerId(S) == \A x, y \in S : x.rowid = y.rowid => x = y

LEMMA NewerOrders ==
  /\ \A x, y, z \in HistoryRow : Newer(x, y) /\ Newer(y, z) => Newer(x, z)
  /\ \A x \in HistoryRow : ~Newer(x, x)
  /\ \A x, y \in HistoryRow : x.rowid = y.rowid \/ Newer(x, y) \/ Newer(y, x)
  BY DEF HistoryRow, Newer

LEMMA AheadGrows ==
  ASSUME NEW S, IsFiniteSet(S), S \subseteq HistoryRow, NEW x \in S, NEW y \in HistoryRow, Newer(x, y)
  PROVE  Cardinality(Ahead(S, x)) < Cardinality(Ahead(S, y))
  <1>1. Ahead(S, x) \subseteq Ahead(S, y) /\ x \in Ahead(S, y) /\ x \notin Ahead(S, x)
    BY NewerOrders DEF Ahead
  <1>2. IsFiniteSet(Ahead(S, y)) /\ IsFiniteSet(Ahead(S, x))
    <2>1. Ahead(S, y) \in SUBSET S /\ Ahead(S, x) \in SUBSET S
      BY DEF Ahead
    <2>. QED  BY <2>1, FS_Subset
  <1>3. Cardinality(Ahead(S, x)) <= Cardinality(Ahead(S, y))
        /\ (Cardinality(Ahead(S, y)) = Cardinality(Ahead(S, x)) => Ahead(S, y) = Ahead(S, x))
    <2>1. Ahead(S, x) \in SUBSET Ahead(S, y)
      BY <1>1
    <2>. QED  BY <1>2, <2>1, FS_Subset
  <1>4. Cardinality(Ahead(S, x)) \in Nat /\ Cardinality(Ahead(S, y)) \in Nat
    BY <1>2, FS_CardinalityType
  <1>. QED  BY <1>1, <1>3, <1>4

LEMMA AheadCounts ==
  ASSUME NEW S, IsFiniteSet(S), S \subseteq HistoryRow, NEW y
  PROVE  Cardinality(Ahead(S, y)) \in Nat /\ Cardinality(Ahead(S, y)) <= Cardinality(S)
         /\ IsFiniteSet(Ahead(S, y)) /\ Cardinality(S) \in Nat
         /\ (y \in S => Cardinality(Ahead(S, y)) \in 0..(Cardinality(S) - 1))
  <1>1. Ahead(S, y) \in SUBSET S
    BY DEF Ahead
  <1>2. IsFiniteSet(Ahead(S, y)) /\ Cardinality(Ahead(S, y)) <= Cardinality(S)
        /\ (Cardinality(S) = Cardinality(Ahead(S, y)) => S = Ahead(S, y))
    BY <1>1, FS_Subset
  <1>3. Cardinality(Ahead(S, y)) \in Nat /\ Cardinality(S) \in Nat
    BY <1>2, FS_CardinalityType
  <1>4. y \in S => y \notin Ahead(S, y)
    BY NewerOrders DEF Ahead
  <1>. QED  BY <1>2, <1>3, <1>4

\* The newest m rows are m.
LEMMA NewestCounts ==
  ASSUME NEW S, IsFiniteSet(S), S \subseteq HistoryRow, OneRowPerId(S), NEW m \in Nat
  PROVE  /\ Newest(S, m) \subseteq S /\ IsFiniteSet(Newest(S, m))
         /\ Cardinality(Newest(S, m)) = IF m <= Cardinality(S) THEN m ELSE Cardinality(S)
  <1> DEFINE k == Cardinality(S)
             f == [e \in S |-> Cardinality(Ahead(S, e))]
             N == Newest(S, m)
             h == [e \in N |-> f[e]]
             b == IF m <= k THEN m ELSE k
  <1>1. k \in Nat /\ b \in Nat /\ b <= k
    BY FS_CardinalityType
  <1>2. \A e \in S : f[e] \in 0..(k-1)
    BY AheadCounts
  <1>3. \A x, y \in S : f[x] = f[y] => x = y
    <2> SUFFICES ASSUME NEW x \in S, NEW y \in S, x # y PROVE f[x] # f[y]
      OBVIOUS
    <2>1. x \in HistoryRow /\ y \in HistoryRow /\ x.rowid # y.rowid
      BY DEF OneRowPerId
    <2>2. Newer(x, y) \/ Newer(y, x)
      BY <2>1, NewerOrders
    <2>3. f[x] \in Nat /\ f[y] \in Nat
      BY AheadCounts
    <2>4. f[x] < f[y] \/ f[y] < f[x]
      BY <2>1, <2>2, AheadGrows
    <2> HIDE DEF f
    <2>. QED  BY <2>3, <2>4
  <1>4. f \in Injection(S, 0..(k-1))
    <2> HIDE DEF k
    <2>1. f \in [S -> 0..(k-1)]
      BY <1>2
    <2> HIDE DEF f
    <2>. QED  BY <1>3, <2>1 DEF Injection, IsInjective
  <1>5. IsFiniteSet(0..(k-1)) /\ Cardinality(0..(k-1)) = k
    <2> HIDE DEF k
    <2>1. 0 \in Int /\ k - 1 \in Int
      BY <1>1
    <2>2. IsFiniteSet(0..(k-1)) /\ Cardinality(0..(k-1)) = IF 0 > k - 1 THEN 0 ELSE (k-1) - 0 + 1
      BY <2>1, FS_Interval
    <2>. QED  BY <1>1, <2>2
  <1>6. \A i \in 0..(k-1) : \E e \in S : f[e] = i
    <2>1. f \in Surjection(S, 0..(k-1))
      <3> HIDE DEF f
      <3>. QED  BY <1>4, <1>5, FS_Injection
    <2> HIDE DEF f, k
    <2>. QED  BY <2>1 DEF Surjection
  <1>7. N = {e \in S : f[e] < m}
    BY DEF Newest, Ahead
  <1> HIDE DEF f, N, k
  <1>8. h \in [N -> 0..(b-1)]
    <2> SUFFICES ASSUME NEW e \in N PROVE f[e] \in 0..(b-1)
      OBVIOUS
    <2>. QED  BY <1>1, <1>2, <1>7
  <1>9. \A x, y \in N : h[x] = h[y] => x = y
    BY <1>3, <1>7
  <1>10. \A i \in 0..(b-1) : \E e \in N : h[e] = i
    <2> SUFFICES ASSUME NEW i \in 0..(b-1) PROVE \E e \in N : f[e] = i
      OBVIOUS
    <2>1. i \in 0..(k-1) /\ i < m
      BY <1>1
    <2>. QED  BY <1>6, <1>7, <2>1
  <1> HIDE DEF h, b
  <1>11. h \in Injection(N, 0..(b-1)) /\ h \in Surjection(N, 0..(b-1))
    BY <1>8, <1>9, <1>10 DEF Injection, IsInjective, Surjection
  <1>12. IsFiniteSet(0..(b-1)) /\ Cardinality(0..(b-1)) = b
    <2>1. 0 \in Int /\ b - 1 \in Int
      BY <1>1
    <2>2. IsFiniteSet(0..(b-1)) /\ Cardinality(0..(b-1)) = IF 0 > b - 1 THEN 0 ELSE (b-1) - 0 + 1
      BY <2>1, FS_Interval
    <2>. QED  BY <1>1, <2>2
  <1>13. IsFiniteSet(N) /\ Cardinality(N) = b
    BY <1>11, <1>12, FS_Injection
  <1>. QED  BY <1>7, <1>13 DEF N, b, k

\* A row with m rows ahead has the newest m rows ahead.
LEMMA NewestAhead ==
  ASSUME NEW S, IsFiniteSet(S), S \subseteq HistoryRow, OneRowPerId(S), NEW m \in Nat,
         NEW e \in HistoryRow, Cardinality(Ahead(S, e)) >= m
  PROVE  Ahead(Newest(S, m), e) = Newest(S, m) /\ Cardinality(Newest(S, m)) = m
  <1>1. /\ Newest(S, m) \subseteq S
        /\ Cardinality(Newest(S, m)) = IF m <= Cardinality(S) THEN m ELSE Cardinality(S)
    BY NewestCounts
  <1>2. Cardinality(Ahead(S, e)) \in Nat /\ Cardinality(Ahead(S, e)) <= Cardinality(S) /\ Cardinality(S) \in Nat
        /\ IsFiniteSet(Ahead(S, e))
    BY AheadCounts
  <1>3. ASSUME NEW x \in Newest(S, m) PROVE Newer(x, e)
    <2> SUFFICES ASSUME ~Newer(x, e) PROVE FALSE
      OBVIOUS
    <2>1. x \in S /\ x \in HistoryRow /\ Cardinality(Ahead(S, x)) < m
      BY <1>1 DEF Newest, Ahead
    <2>2. Ahead(S, e) \subseteq Ahead(S, x)
      <3> SUFFICES ASSUME NEW y \in S, Newer(y, e) PROVE Newer(y, x)
        BY DEF Ahead
      <3>1. y \in HistoryRow /\ y # x
        OBVIOUS
      <3>2. y.rowid # x.rowid
        BY <2>1, <3>1 DEF OneRowPerId
      <3>. QED  BY <2>1, <3>1, <3>2, NewerOrders
    <2>3. Cardinality(Ahead(S, x)) \in Nat /\ IsFiniteSet(Ahead(S, x))
      BY AheadCounts
    <2>4. Cardinality(Ahead(S, e)) <= Cardinality(Ahead(S, x))
      <3>1. Ahead(S, e) \in SUBSET Ahead(S, x)
        BY <2>2
      <3>. QED  BY <2>3, <3>1, FS_Subset
    <2>. QED  BY <1>2, <2>1, <2>3, <2>4
  <1>4. Ahead(Newest(S, m), e) = Newest(S, m)
    BY <1>3 DEF Ahead
  <1>. QED  BY <1>1, <1>2, <1>4

\* No row of a bounded set of ids has the next one.
LEMMA NextRowid ==
  ASSUME NEW S \in SUBSET HistoryRow, NEW b \in Nat, \A e \in S : e.rowid <= b
  PROVE  LET top == Max({0} \cup {e.rowid : e \in S}) IN top \in Nat /\ \A e \in S : e.rowid <= top
  <1> DEFINE ids == {0} \cup {e.rowid : e \in S}
             bounds == {k \in Nat : \A i \in ids : i <= k}
  <1>1. ids \subseteq Nat
    BY DEF HistoryRow
  <1>2. b \in bounds
    BY <1>1
  <1>3. PICK k \in bounds : \A j \in bounds : k <= j
    <2>1. bounds \in SUBSET Nat /\ bounds # {}
      BY <1>2
    <2> HIDE DEF bounds
    <2>. QED  BY <2>1, LeastElement
  <1>4. k \in ids
    <2> SUFFICES ASSUME k \notin ids PROVE FALSE
      OBVIOUS
    <2>1. k \in Nat /\ k # 0 /\ \A i \in ids : i <= k
      OBVIOUS
    <2>2. k - 1 \in Nat /\ \A i \in ids : i <= k - 1
      <3> HIDE DEF ids, bounds
      <3>. QED  BY <1>1, <2>1
    <2>3. k - 1 \in bounds
      BY <2>2
    <2>4. k <= k - 1
      <3> HIDE DEF bounds
      <3>. QED  BY <1>3, <2>3
    <2>. QED  BY <2>1, <2>4
  <1>5. k \in ids /\ \A i \in ids : i <= k
    BY <1>3, <1>4
  <1> HIDE DEF bounds, ids
  <1>6. Max(ids) \in ids /\ \A i \in ids : i <= Max(ids)
    <2>1. \E x \in ids : \A y \in ids : x >= y
      BY <1>1, <1>5
    <2>2. Max(ids) = CHOOSE x \in ids : \A y \in ids : x >= y
      BY DEF Max
    <2>3. Max(ids) \in ids /\ \A y \in ids : Max(ids) >= y
      BY <2>1, <2>2
    <2>. QED  BY <1>1, <2>3
  <1>. QED  BY <1>1, <1>6 DEF ids

\* What was pruned has a full list ahead of it.
HistoryInv ==
  /\ historyNow \in Nat /\ runStarted \in [HistoryRuns -> Nat]
  /\ recorded \subseteq HistoryRow /\ IsFiniteSet(recorded)
  /\ history \subseteq recorded /\ OneRowPerId(history)
  /\ \E b \in Nat : \A e \in history : e.rowid <= b
  /\ IsFiniteSet(unpruned)
  /\ \A r \in unpruned : RanBefore(r)
  /\ \A r \in HistoryRuns : runStarted[r] # 0 => ~RanBefore(r)
  /\ Cardinality(history) <= HISTORY_RETAIN + Cardinality(unpruned)
  /\ \A e \in recorded \ history : Cardinality(Ahead(history, e)) >= HISTORY_RETAIN

LEMMA HistoryStart == HistoryInit => HistoryInv
  <1> SUFFICES ASSUME HistoryInit PROVE HistoryInv
    OBVIOUS
  <1>1. /\ historyNow = 1 /\ history = {} /\ unpruned = {} /\ recorded = {}
        /\ runStarted = [r \in HistoryRuns |-> 0]
    BY DEF HistoryInit
  <1>2. IsFiniteSet({}) /\ Cardinality({}) = 0
    BY FS_EmptySet
  <1>. QED  BY <1>1, <1>2, HistoryAssumption DEF HistoryInv, OneRowPerId

LEMMA HistoryStep ==
  ASSUME HistoryInv, HistoryNext
  PROVE  HistoryInv'
  <1>0. /\ history \subseteq HistoryRow /\ IsFiniteSet(history) /\ Cardinality(history) \in Nat
        /\ Cardinality(unpruned) \in Nat
        /\ HISTORY_LIMIT \in Nat /\ HISTORY_RETAIN \in Nat /\ HISTORY_LIMIT <= HISTORY_RETAIN
    <2>1. history \in SUBSET recorded /\ IsFiniteSet(recorded)
      BY DEF HistoryInv
    <2>2. IsFiniteSet(history)
      BY <2>1, FS_Subset
    <2>. QED  BY <2>1, <2>2, FS_CardinalityType, HistoryAssumption DEF HistoryInv
  <1>1. ASSUME UNCHANGED <<history, unpruned, recorded>>,
               historyNow' \in Nat, runStarted' \in [HistoryRuns -> Nat],
               \A r \in HistoryRuns : runStarted'[r] # 0 => ~RanBefore(r)
        PROVE  HistoryInv'
    BY <1>1 DEF HistoryInv, RanBefore
  <1>2. CASE HistoryTick \/ HistoryArrives
    BY <1>1, <1>2 DEF HistoryTick, HistoryArrives, HistoryInv
  <1>3. ASSUME NEW r \in HistoryRuns, StartRun(r) PROVE HistoryInv'
    <2>1. /\ runStarted' = [runStarted EXCEPT ![r] = historyNow] /\ ~RanBefore(r)
          /\ UNCHANGED <<historyNow, history, unpruned, recorded>>
      BY <1>3 DEF StartRun
    <2>. QED  BY <1>1, <2>1 DEF HistoryInv
  <1>4. ASSUME NEW r \in HistoryRuns, RecordRun(r) PROVE HistoryInv'
    <2>1. /\ runStarted[r] # 0 /\ runStarted' = [runStarted EXCEPT ![r] = 0] /\ UNCHANGED historyNow
      BY <1>4 DEF RecordRun
    <2>2. runStarted \in [HistoryRuns -> Nat] /\ runStarted' \in [HistoryRuns -> Nat]
          /\ \A x \in HistoryRuns : runStarted'[x] # 0 => x # r /\ runStarted[x] # 0
      BY <2>1 DEF HistoryInv
    <2>3. CASE UNCHANGED <<history, recorded, unpruned>>
      BY <1>1, <2>1, <2>2, <2>3 DEF HistoryInv
    <2>4. ASSUME NEW row, row = [run |-> r, ranAt |-> runStarted[r], rowid |-> 1 + Max({0} \cup {e.rowid : e \in history})],
                 history' = history \cup {row}, recorded' = recorded \cup {row}, unpruned' = unpruned \cup {r}
          PROVE  HistoryInv'
      <3> DEFINE top == Max({0} \cup {e.rowid : e \in history})
      <3>1. PICK b \in Nat : \A e \in history : e.rowid <= b
        BY DEF HistoryInv
      <3>2. top \in Nat /\ \A e \in history : e.rowid <= top
        BY <1>0, <3>1, NextRowid
      <3>3. row.run = r /\ row.rowid = 1 + top /\ row.ranAt = runStarted[r] /\ row = [run |-> r, ranAt |-> runStarted[r], rowid |-> 1 + top]
        BY <2>4
      <3> HIDE DEF top
      <3>4. row \in HistoryRow /\ row.rowid \in Nat
        BY <2>2, <3>2, <3>3 DEF HistoryRow
      <3>5. row \notin history
        BY <1>0, <3>2, <3>3 DEF HistoryRow
      <3>6. recorded' \subseteq HistoryRow /\ IsFiniteSet(recorded') /\ history' \subseteq recorded'
        <4>1. IsFiniteSet(recorded \cup {row})
          BY FS_AddElement DEF HistoryInv
        <4>. QED  BY <2>4, <3>4, <4>1 DEF HistoryInv
      <3>7. OneRowPerId(history')
        <4>1. \A e \in history : e.rowid # row.rowid
          BY <1>0, <3>2, <3>3 DEF HistoryRow
        <4>. QED  BY <2>4, <4>1 DEF OneRowPerId, HistoryInv
      <3>8. \A e \in history' : e.rowid <= 1 + top
        BY <1>0, <2>4, <3>2, <3>3 DEF HistoryRow
      <3>9. r \notin unpruned
        BY <2>1 DEF HistoryInv
      <3>10. IsFiniteSet(unpruned') /\ Cardinality(unpruned') = Cardinality(unpruned) + 1
        BY <2>4, <3>9, FS_AddElement DEF HistoryInv
      <3>11. Cardinality(history') = Cardinality(history) + 1
        BY <1>0, <2>4, <3>5, FS_AddElement
      <3>12. Cardinality(history') <= HISTORY_RETAIN + Cardinality(unpruned')
        BY <1>0, <3>10, <3>11 DEF HistoryInv
      <3>13. (\A x : RanBefore(x)' <=> RanBefore(x) \/ x = r)
        BY <2>4, <3>3 DEF RanBefore
      <3>14. ASSUME NEW e \in recorded' \ history' PROVE Cardinality(Ahead(history', e)) >= HISTORY_RETAIN
        <4>1. e \in recorded \ history
          BY <2>4
        <4>2. Cardinality(Ahead(history, e)) >= HISTORY_RETAIN
          BY <4>1 DEF HistoryInv
        <4>3. IsFiniteSet(history') /\ history' \subseteq HistoryRow
          <5>1. IsFiniteSet(history \cup {row})
            BY <1>0, FS_AddElement
          <5>. QED  BY <1>0, <2>4, <3>4, <5>1
        <4>4. IsFiniteSet(Ahead(history', e)) /\ Cardinality(Ahead(history', e)) \in Nat
          BY <4>3, AheadCounts
        <4>5. Ahead(history, e) \in SUBSET Ahead(history', e)
          BY <2>4 DEF Ahead
        <4>6. Cardinality(Ahead(history, e)) <= Cardinality(Ahead(history', e)) /\ Cardinality(Ahead(history, e)) \in Nat
          BY <1>0, <4>4, <4>5, FS_Subset, AheadCounts
        <4>. QED  BY <1>0, <4>2, <4>4, <4>6
      <3>15. \A x \in HistoryRuns : runStarted'[x] # 0 => ~RanBefore(x)'
        BY <2>2, <3>13 DEF HistoryInv
      <3>16. \A x \in unpruned' : RanBefore(x)'
        BY <2>4, <3>13 DEF HistoryInv
      <3>17. \E k \in Nat : \A e \in history' : e.rowid <= k
        <4>1. 1 + top \in Nat
          BY <3>2
        <4>. QED  BY <3>8, <4>1
      <3>18. historyNow' \in Nat
        BY <2>1 DEF HistoryInv
      <3>. QED  BY <2>2, <3>6, <3>7, <3>10, <3>12, <3>14, <3>15, <3>16, <3>17, <3>18 DEF HistoryInv
    <2>. QED  BY <1>4, <2>3, <2>4 DEF RecordRun
  <1>5. ASSUME NEW r \in HistoryRuns, PruneHistory(r) PROVE HistoryInv'
    <2>1. /\ history' = Newest(history, HISTORY_RETAIN) /\ unpruned' = unpruned \ {r}
          /\ UNCHANGED <<historyNow, runStarted, recorded>>
      BY <1>5 DEF PruneHistory
    <2>2. /\ history' \subseteq history /\ IsFiniteSet(history')
          /\ Cardinality(history') = IF HISTORY_RETAIN <= Cardinality(history) THEN HISTORY_RETAIN ELSE Cardinality(history)
      BY <1>0, <2>1, NewestCounts DEF HistoryInv
    <2>3. IsFiniteSet(unpruned') /\ Cardinality(unpruned') \in Nat
      BY <2>1, FS_RemoveElement, FS_CardinalityType DEF HistoryInv
    <2>4. Cardinality(history') <= HISTORY_RETAIN + Cardinality(unpruned')
      BY <1>0, <2>2, <2>3
    <2>5. ASSUME NEW e \in recorded \ history' PROVE Cardinality(Ahead(history', e)) >= HISTORY_RETAIN
      <3>1. e \in HistoryRow
        BY DEF HistoryInv
      <3>2. Cardinality(Ahead(history, e)) >= HISTORY_RETAIN
        <4>1. CASE e \in history
          <5>1. ~(Cardinality(Ahead(history, e)) < HISTORY_RETAIN)
            BY <2>1, <2>5, <4>1 DEF Newest, Ahead
          <5>. QED  BY <1>0, <5>1, AheadCounts
        <4>2. CASE e \notin history
          BY <4>2 DEF HistoryInv
        <4>. QED  BY <4>1, <4>2
      <3>3. Ahead(history', e) = history' /\ Cardinality(history') = HISTORY_RETAIN
        BY <1>0, <2>1, <3>1, <3>2, NewestAhead DEF HistoryInv
      <3>. QED  BY <1>0, <3>3
    <2>6. OneRowPerId(history') /\ history' \subseteq recorded' /\ \E b \in Nat : \A e \in history' : e.rowid <= b
      BY <2>1, <2>2 DEF HistoryInv, OneRowPerId
    <2>7. \A x : RanBefore(x)' <=> RanBefore(x)
      BY <2>1 DEF RanBefore
    <2>. QED  BY <2>1, <2>3, <2>4, <2>5, <2>6, <2>7 DEF HistoryInv
  <1>. QED  BY <1>2, <1>3, <1>4, <1>5 DEF HistoryNext

LEMMA HistoryRest == ASSUME HistoryInv, UNCHANGED historyVars PROVE HistoryInv'
  BY DEF HistoryInv, historyVars, RanBefore

LEMMA HistoryKeeps == HistoryInv => HistoryIsTheNewest /\ HistoryIsBounded
  <1> SUFFICES ASSUME HistoryInv PROVE HistoryIsTheNewest /\ HistoryIsBounded
    OBVIOUS
  <1>0. /\ history \subseteq HistoryRow /\ IsFiniteSet(history) /\ Cardinality(history) \in Nat
        /\ recorded \subseteq HistoryRow /\ IsFiniteSet(recorded) /\ history \subseteq recorded
        /\ HISTORY_LIMIT \in Nat /\ HISTORY_RETAIN \in Nat /\ HISTORY_LIMIT <= HISTORY_RETAIN
    <2>1. history \in SUBSET recorded /\ IsFiniteSet(recorded)
      BY DEF HistoryInv
    <2>2. IsFiniteSet(history)
      BY <2>1, FS_Subset
    <2>. QED  BY <2>1, <2>2, FS_CardinalityType, HistoryAssumption DEF HistoryInv
  <1>1. ASSUME NEW e \in HistoryRow, NEW x \in recorded \ history, x = e \/ Newer(x, e)
        PROVE  Cardinality(Ahead(history, e)) >= HISTORY_RETAIN
    <2>1. Cardinality(Ahead(history, x)) >= HISTORY_RETAIN /\ x \in HistoryRow
      BY DEF HistoryInv
    <2>2. Ahead(history, x) \subseteq Ahead(history, e)
      BY <1>0, <1>1, <2>1, NewerOrders DEF Ahead
    <2>3. IsFiniteSet(Ahead(history, e)) /\ Cardinality(Ahead(history, e)) \in Nat /\ Cardinality(Ahead(history, x)) \in Nat
      BY <1>0, AheadCounts
    <2>4. Cardinality(Ahead(history, x)) <= Cardinality(Ahead(history, e))
      <3>1. Ahead(history, x) \in SUBSET Ahead(history, e)
        BY <2>2
      <3>. QED  BY <2>3, <3>1, FS_Subset
    <2>. QED  BY <1>0, <2>1, <2>3, <2>4
  <1>2. ASSUME NEW e \in HistoryRow
        PROVE  /\ Cardinality(Ahead(history, e)) \in Nat /\ Cardinality(Ahead(recorded, e)) \in Nat
               /\ Cardinality(Ahead(history, e)) <= Cardinality(Ahead(recorded, e))
    <2>1. IsFiniteSet(Ahead(recorded, e)) /\ Cardinality(Ahead(recorded, e)) \in Nat /\ Cardinality(Ahead(history, e)) \in Nat
      BY <1>0, AheadCounts
    <2>2. Ahead(history, e) \in SUBSET Ahead(recorded, e)
      BY <1>0 DEF Ahead
    <2>. QED  BY <2>1, <2>2, FS_Subset
  <1>3. ASSUME NEW e \in history, Cardinality(Ahead(history, e)) < HISTORY_LIMIT
        PROVE  Cardinality(Ahead(recorded, e)) < HISTORY_LIMIT
    <2>1. e \in HistoryRow /\ Cardinality(Ahead(history, e)) \in Nat
      BY <1>0, <1>2
    <2>2. \A x \in recorded : Newer(x, e) => x \in history
      BY <1>0, <1>1, <1>3, <2>1
    <2>3. Ahead(recorded, e) = Ahead(history, e)
      BY <1>0, <2>2 DEF Ahead
    <2>. QED  BY <1>3, <2>3
  <1>4. ASSUME NEW e \in recorded, Cardinality(Ahead(recorded, e)) < HISTORY_LIMIT
        PROVE  e \in history /\ Cardinality(Ahead(history, e)) < HISTORY_LIMIT
    <2>1. e \in HistoryRow
      BY <1>0
    <2>2. Cardinality(Ahead(history, e)) < HISTORY_LIMIT
      BY <1>0, <1>2, <1>4, <2>1
    <2>3. e \in history
      BY <1>0, <1>1, <1>2, <2>1, <2>2
    <2>. QED  BY <2>2, <2>3
  <1>5. Newest(history, HISTORY_LIMIT) = Newest(recorded, HISTORY_LIMIT)
    <2>1. Newest(history, HISTORY_LIMIT) = {e \in history : Cardinality(Ahead(history, e)) < HISTORY_LIMIT}
      BY DEF Newest, Ahead
    <2>2. Newest(recorded, HISTORY_LIMIT) = {e \in recorded : Cardinality(Ahead(recorded, e)) < HISTORY_LIMIT}
      BY DEF Newest, Ahead
    <2>. QED  BY <1>0, <1>3, <1>4, <2>1, <2>2
  <1>6. HistoryIsTheNewest
    BY <1>5 DEF HistoryIsTheNewest
  <1>7. HistoryIsBounded
    <2>1. Cardinality({}) = 0
      BY FS_EmptySet
    <2>. QED  BY <1>0, <2>1 DEF HistoryInv, HistoryIsBounded
  <1>. QED  BY <1>6, <1>7

-----------------------------------------------------------------------------
(* AgentTools                                                              *)

LEMMA LimitsFit ==
  ASSUME NEW lim \in Int
  PROVE  /\ OptionalInt(lim, 1, MAX_SAMPLE_ROWS) => SampleLimit(lim) \in 1..MAX_SAMPLE_ROWS
         /\ QueryLimit(lim) \in 1..MAX_ROWS
  <1>1. MAX_ROWS \in Nat \ {0} /\ MAX_SAMPLE_ROWS \in Nat \ {0}
    BY ToolsAssumption
  <1>2. ASSUME NEW x \in Int, NEW y \in Int PROVE Min({x, y}) = IF x <= y THEN x ELSE y
    BY DEF Min
  <1>3. ASSUME NEW x \in Int, NEW y \in Int PROVE Max({x, y}) = IF x <= y THEN y ELSE x
    BY DEF Max
  <1>4. ASSUME OptionalInt(lim, 1, MAX_SAMPLE_ROWS) PROVE SampleLimit(lim) \in 1..MAX_SAMPLE_ROWS
    <2> DEFINE x == IF lim = NoLimit THEN 10 ELSE lim
    <2>1. x \in Int /\ x >= 1
      BY <1>4 DEF OptionalInt, NoLimit
    <2>2. SampleLimit(lim) = Min({x, MAX_SAMPLE_ROWS})
      BY DEF SampleLimit
    <2> HIDE DEF x
    <2>. QED  BY <1>1, <1>2, <2>1, <2>2
  <1>5. QueryLimit(lim) \in 1..MAX_ROWS
    <2> DEFINE x == IF lim = NoLimit THEN 100 ELSE lim
               z == Max({1, x})
    <2>1. x \in Int
      OBVIOUS
    <2>2. QueryLimit(lim) = Min({z, MAX_ROWS})
      BY DEF QueryLimit
    <2>3. z \in Int /\ z >= 1
      <3> HIDE DEF x
      <3>. QED  BY <1>3, <2>1
    <2> HIDE DEF x, z
    <2>. QED  BY <1>1, <1>2, <2>2, <2>3
  <1>. QED  BY <1>4, <1>5

Answers == [kind: {"none", "error", "text", "rows", "executed", "rejected"}, rows: Int]
ToolShape ==
  [stage: {"idle", "acquiring", "asking", "emitting", "answering", "answered"}, name: ToolNames,
   text: {"good", "empty", "missing"}, limit: Int]

\* How far a call is, with what it asked, was given, showed and answered.
ToolCallInv(cc, ask, given, grid, answer) ==
  LET fits == Accepts(cc.name, cc.text, cc.limit)
      nothing == ask = NotAsked /\ grid = NoGrid /\ answer = NoAnswer
      bounded == ask \in 1..(IF cc.name = "run_sql" THEN MAX_ROWS ELSE MAX_SAMPLE_ROWS)
  IN /\ cc.stage = "idle" => nothing
     /\ cc.stage \in {"acquiring", "asking"} => nothing /\ fits
     /\ cc.stage = "emitting" => fits /\ bounded /\ grid = NoGrid /\ answer = NoAnswer
     /\ cc.stage = "answering" => fits /\ bounded /\ grid = given /\ answer = NoAnswer
     /\ cc.stage = "answered" =>
          /\ ~fits => ask = NotAsked /\ answer = ToolError
          /\ ask # NotAsked => fits /\ bounded
          /\ cc.name = "run_sql" /\ answer.kind = "rows" => grid = answer.rows
          /\ cc.name = "run_sql" /\ answer.kind = "error" => grid = NoGrid

CallInv(c) == ToolCallInv(toolCalls[c], asked[c], delivered[c], grids[c], toolAnswers[c])

ToolsInv ==
  /\ toolCalls \in [ToolCalls -> ToolShape]
  /\ asked \in [ToolCalls -> Int] /\ delivered \in [ToolCalls -> Int] /\ grids \in [ToolCalls -> Int]
  /\ toolAnswers \in [ToolCalls -> Answers]
  /\ \A c \in ToolCalls : CallInv(c)

LEMMA ToolsStart == ToolsInit => ToolsInv
  BY DEF ToolsInit, ToolsInv, CallInv, ToolCallInv, ToolShape, ToolNames, NotAsked, NoGrid, NoAnswer, NoLimit, Answers

CallMoves(c, cc, ask, given, grid, answer) ==
  /\ toolCalls' = [toolCalls EXCEPT ![c] = cc] /\ asked' = [asked EXCEPT ![c] = ask]
  /\ delivered' = [delivered EXCEPT ![c] = given] /\ grids' = [grids EXCEPT ![c] = grid]
  /\ toolAnswers' = [toolAnswers EXCEPT ![c] = answer]

\* One call moves.
LEMMA ToolMoves ==
  ASSUME ToolsInv, NEW c \in ToolCalls,
         NEW cc \in ToolShape, NEW ask \in Int, NEW given \in Int, NEW grid \in Int,
         NEW answer \in Answers,
         CallMoves(c, cc, ask, given, grid, answer),
         ToolCallInv(cc, ask, given, grid, answer)
  PROVE  ToolsInv'
  BY DEF ToolsInv, CallInv, CallMoves

LEMMA ToolsStep ==
  ASSUME ToolsInv, ToolsNext
  PROVE  ToolsInv'
  <1>1. PICK c \in ToolCalls :
          \/ \E name \in ToolNames, txt \in TextArgs, limit \in LimitArgs : CallTool(c, name, txt, limit)
          \/ AcquireDriver(c) \/ AskCatalog(c) \/ SampleRows(c) \/ RunSql(c) \/ EmitGrid(c) \/ AnswerRows(c)
          \/ ProposeWrite(c)
    BY DEF ToolsNext
  <1> DEFINE cc == toolCalls[c]
  <1>2. /\ toolCalls \in [ToolCalls -> ToolShape] /\ cc \in ToolShape
        /\ asked \in [ToolCalls -> Int] /\ delivered \in [ToolCalls -> Int] /\ grids \in [ToolCalls -> Int]
        /\ toolAnswers \in [ToolCalls -> Answers]
        /\ asked[c] \in Int /\ delivered[c] \in Int /\ grids[c] \in Int
        /\ toolAnswers[c] \in Answers
        /\ ToolCallInv(cc, asked[c], delivered[c], grids[c], toolAnswers[c])
    BY DEF ToolsInv, CallInv
  <1>3. /\ asked = [asked EXCEPT ![c] = asked[c]] /\ delivered = [delivered EXCEPT ![c] = delivered[c]]
        /\ grids = [grids EXCEPT ![c] = grids[c]] /\ toolAnswers = [toolAnswers EXCEPT ![c] = toolAnswers[c]]
    BY <1>2
  <1>4. ToolError \in Answers /\ NoAnswer \in Answers /\ ToolError.kind = "error"
        /\ NoAnswer.kind = "none"
    BY DEF ToolError, NoAnswer, Answers
  <1>5. /\ cc.stage \in {"idle", "acquiring", "asking", "emitting", "answering", "answered"} /\ cc.name \in ToolNames
        /\ cc.text \in {"good", "empty", "missing"} /\ cc.limit \in Int
    BY <1>2 DEF ToolShape
  <1>6. ASSUME NEW stage \in {"idle", "acquiring", "asking", "emitting", "answering", "answered"}
        PROVE  /\ [cc EXCEPT !.stage = stage] \in ToolShape
               /\ [cc EXCEPT !.stage = stage].stage = stage /\ [cc EXCEPT !.stage = stage].name = cc.name
               /\ [cc EXCEPT !.stage = stage].text = cc.text /\ [cc EXCEPT !.stage = stage].limit = cc.limit
               /\ [toolCalls EXCEPT ![c].stage = stage] = [toolCalls EXCEPT ![c] = [cc EXCEPT !.stage = stage]]
    BY <1>2 DEF ToolShape
  <1> HIDE DEF cc
  <1>7. ASSUME NEW name \in ToolNames, NEW txt \in TextArgs, NEW limit \in LimitArgs, CallTool(c, name, txt, limit)
        PROVE  ToolsInv'
    <2> DEFINE new == [stage |-> IF Accepts(name, txt, limit) THEN "acquiring" ELSE "answered",
                       name |-> name, text |-> txt, limit |-> limit]
               answer == IF Accepts(name, txt, limit) THEN NoAnswer ELSE ToolError
    <2>1. /\ cc.stage = "idle" /\ toolCalls' = [toolCalls EXCEPT ![c] = new]
          /\ toolAnswers' = [toolAnswers EXCEPT ![c] = answer] /\ UNCHANGED <<asked, delivered, grids>>
      BY <1>7 DEF CallTool, cc
    <2>2. new \in ToolShape /\ new.name = name /\ new.text = txt /\ new.limit = limit
          /\ (Accepts(name, txt, limit) => new.stage = "acquiring")
          /\ (~Accepts(name, txt, limit) => new.stage = "answered")
      BY ToolsAssumption DEF ToolShape
    <2>3. /\ answer \in Answers
          /\ Accepts(name, txt, limit) => answer = NoAnswer
          /\ ~Accepts(name, txt, limit) => answer = ToolError
      BY <1>4
    <2> HIDE DEF new, answer
    <2>4. ToolCallInv(new, asked[c], delivered[c], grids[c], answer)
      BY <1>2, <1>4, <2>1, <2>2, <2>3 DEF ToolCallInv
    <2>. QED  BY <1>2, <1>3, <2>1, <2>2, <2>3, <2>4, ToolMoves DEF CallMoves
  <1>8. ASSUME NEW answer \in Answers, AnswerTool(c, answer), UNCHANGED <<delivered, grids>>,
               NEW ask \in Int, asked' = [asked EXCEPT ![c] = ask],
               \A to \in ToolShape : to.stage = "answered" /\ to.name = cc.name /\ to.text = cc.text
                                     /\ to.limit = cc.limit =>
                                       ToolCallInv(to, ask, delivered[c], grids[c], answer)
        PROVE  ToolsInv'
    <2> DEFINE new == [cc EXCEPT !.stage = "answered"]
    <2>1. /\ toolCalls' = [toolCalls EXCEPT ![c] = new] /\ toolAnswers' = [toolAnswers EXCEPT ![c] = answer]
      BY <1>6, <1>8 DEF AnswerTool, ToolStage
    <2>2. new \in ToolShape /\ new.stage = "answered" /\ new.name = cc.name /\ new.text = cc.text /\ new.limit = cc.limit
      BY <1>6
    <2> HIDE DEF new
    <2>. QED  BY <1>2, <1>3, <1>8, <2>1, <2>2, ToolMoves DEF CallMoves
  <1>9. ASSUME NEW answer \in Answers, AnswerTool(c, answer), UNCHANGED <<asked, delivered, grids>>,
               cc.stage \in {"acquiring", "asking"}, cc.name = "run_sql" => answer.kind = "error"
        PROVE  ToolsInv'
    <2>1. \A to \in ToolShape : to.stage = "answered" /\ to.name = cc.name /\ to.text = cc.text
                                     /\ to.limit = cc.limit =>
                                       ToolCallInv(to, asked[c], delivered[c], grids[c], answer)
      BY <1>2, <1>9 DEF ToolCallInv
    <2>. QED  BY <1>2, <1>3, <1>8, <1>9, <2>1
  <1>10. CASE AcquireDriver(c)
    <2>1. CASE AnswerTool(c, ToolError)
      BY <1>4, <1>9, <1>10, <2>1 DEF AcquireDriver, cc
    <2>2. CASE ToolStage(c, "asking") /\ UNCHANGED toolAnswers
      <3> DEFINE new == [cc EXCEPT !.stage = "asking"]
      <3>1. toolCalls' = [toolCalls EXCEPT ![c] = new] /\ cc.stage = "acquiring" /\ UNCHANGED <<asked, delivered, grids, toolAnswers>>
        BY <1>6, <1>10, <2>2 DEF ToolStage, AcquireDriver, cc
      <3>2. new \in ToolShape /\ new.stage = "asking" /\ new.name = cc.name /\ new.text = cc.text /\ new.limit = cc.limit
        BY <1>6
      <3> HIDE DEF new
      <3>3. ToolCallInv(new, asked[c], delivered[c], grids[c], toolAnswers[c])
        BY <1>2, <3>1, <3>2 DEF ToolCallInv
      <3>4. /\ asked' = [asked EXCEPT ![c] = asked[c]] /\ delivered' = [delivered EXCEPT ![c] = delivered[c]]
            /\ grids' = [grids EXCEPT ![c] = grids[c]] /\ toolAnswers' = [toolAnswers EXCEPT ![c] = toolAnswers[c]]
        BY <1>3, <3>1
      <3>5. CallMoves(c, new, asked[c], delivered[c], grids[c], toolAnswers[c])
        BY <3>1, <3>4 DEF CallMoves
      <3>. QED  BY <1>2, <3>2, <3>3, <3>5, ToolMoves DEF CallMoves
    <2>. QED  BY <1>10, <2>1, <2>2 DEF AcquireDriver
  <1>11. CASE AskCatalog(c)
    <2>1. PICK answer \in {[kind |-> "text", rows |-> 0], ToolError} : AnswerTool(c, answer)
      BY <1>11 DEF AskCatalog
    <2>2. answer \in Answers
      BY <1>4 DEF Answers
    <2>. QED  BY <1>9, <1>11, <2>1, <2>2 DEF AskCatalog, cc
  <1>12. CASE SampleRows(c)
    <2> DEFINE ask == SampleLimit(cc.limit)
    <2>1. /\ cc.stage = "asking" /\ cc.name = "sample_rows"
          /\ asked' = [asked EXCEPT ![c] = ask] /\ UNCHANGED grids
      BY <1>12 DEF SampleRows, cc
    <2>2. Accepts(cc.name, cc.text, cc.limit)
      BY <1>2, <2>1 DEF ToolCallInv
    <2>3. ask \in 1..MAX_SAMPLE_ROWS /\ ask \in Int
      BY <1>5, <2>1, <2>2, LimitsFit, ToolsAssumption DEF Accepts
    <2>4. asked'[c] = ask
      BY <1>2, <2>1
    <2> HIDE DEF ask
    <2>5. ASSUME NEW answer, NEW given
          PROVE  \A to \in ToolShape : to.stage = "answered" /\ to.name = cc.name /\ to.text = cc.text
                                       /\ to.limit = cc.limit =>
                                         ToolCallInv(to, ask, given, grids[c], answer)
      BY <2>1, <2>2, <2>3 DEF ToolCallInv
    <2>6. CASE AnswerTool(c, ToolError) /\ UNCHANGED delivered
      BY <1>4, <1>8, <2>1, <2>3, <2>5, <2>6
    <2>7. ASSUME NEW n \in ResultSizes, delivered' = [delivered EXCEPT ![c] = Min({n, asked'[c]})],
                 AnswerTool(c, [kind |-> "rows", rows |-> delivered'[c]])
          PROVE  ToolsInv'
      <3> DEFINE given == Min({n, ask})
                 answer == [kind |-> "rows", rows |-> given]
                 new == [cc EXCEPT !.stage = "answered"]
      <3>1. given \in Int
        BY <2>3, ToolsAssumption DEF Min
      <3>2. answer \in Answers
        BY <3>1 DEF Answers
      <3>3. delivered' = [delivered EXCEPT ![c] = given] /\ delivered'[c] = given
        BY <1>2, <2>4, <2>7
      <3>4. /\ toolCalls' = [toolCalls EXCEPT ![c] = new] /\ toolAnswers' = [toolAnswers EXCEPT ![c] = answer]
        BY <1>6, <2>7, <3>3 DEF AnswerTool, ToolStage
      <3>5. new \in ToolShape /\ new.stage = "answered" /\ new.name = cc.name /\ new.text = cc.text /\ new.limit = cc.limit
        BY <1>6
      <3> HIDE DEF given, answer, new
      <3>. QED  BY <1>2, <1>3, <2>1, <2>3, <2>5, <3>1, <3>2, <3>3, <3>4, <3>5, ToolMoves DEF CallMoves
    <2>. QED  BY <1>12, <2>6, <2>7 DEF SampleRows
  <1>13. CASE RunSql(c)
    <2> DEFINE ask == QueryLimit(cc.limit)
    <2>1. /\ cc.stage = "asking" /\ cc.name = "run_sql"
          /\ asked' = [asked EXCEPT ![c] = ask] /\ UNCHANGED grids
      BY <1>13 DEF RunSql, cc
    <2>2. Accepts(cc.name, cc.text, cc.limit) /\ grids[c] = NoGrid /\ toolAnswers[c] = NoAnswer
      BY <1>2, <2>1 DEF ToolCallInv
    <2>3. ask \in 1..MAX_ROWS /\ ask \in Int
      BY <1>5, LimitsFit, ToolsAssumption
    <2>4. asked'[c] = ask
      BY <1>2, <2>1
    <2> HIDE DEF ask
    <2>5. CASE AnswerTool(c, ToolError) /\ UNCHANGED delivered
      <3>1. \A to \in ToolShape : to.stage = "answered" /\ to.name = cc.name /\ to.text = cc.text
                                       /\ to.limit = cc.limit =>
                                         ToolCallInv(to, ask, delivered[c], grids[c], ToolError)
        BY <1>4, <2>1, <2>2, <2>3 DEF ToolCallInv
      <3>. QED  BY <1>4, <1>8, <2>1, <2>3, <2>5, <3>1
    <2>6. ASSUME NEW n \in ResultSizes, delivered' = [delivered EXCEPT ![c] = Min({n, asked'[c]})],
                 ToolStage(c, "emitting"), UNCHANGED toolAnswers
          PROVE  ToolsInv'
      <3> DEFINE given == Min({n, ask})
                 new == [cc EXCEPT !.stage = "emitting"]
      <3>1. given \in Int
        BY <2>3, ToolsAssumption DEF Min
      <3>2. delivered' = [delivered EXCEPT ![c] = given]
        BY <2>4, <2>6
      <3>3. toolCalls' = [toolCalls EXCEPT ![c] = new]
        BY <1>6, <2>6 DEF ToolStage
      <3>4. new \in ToolShape /\ new.stage = "emitting" /\ new.name = cc.name /\ new.text = cc.text /\ new.limit = cc.limit
        BY <1>6
      <3> HIDE DEF given, new
      <3>5. ToolCallInv(new, ask, given, grids[c], toolAnswers[c])
        BY <2>1, <2>2, <2>3, <3>4 DEF ToolCallInv
      <3>6. grids' = [grids EXCEPT ![c] = grids[c]] /\ toolAnswers' = [toolAnswers EXCEPT ![c] = toolAnswers[c]]
        BY <1>3, <2>1, <2>6
      <3>. QED  BY <1>2, <2>1, <2>3, <3>1, <3>2, <3>3, <3>4, <3>5, <3>6, ToolMoves DEF CallMoves
    <2>. QED  BY <1>13, <2>5, <2>6 DEF RunSql
  <1>14. CASE EmitGrid(c)
    <2> DEFINE new == [cc EXCEPT !.stage = "answering"]
    <2>1. /\ cc.stage = "emitting" /\ grids' = [grids EXCEPT ![c] = delivered[c]]
          /\ toolCalls' = [toolCalls EXCEPT ![c] = new] /\ UNCHANGED <<asked, delivered, toolAnswers>>
      BY <1>6, <1>14 DEF EmitGrid, ToolStage, cc
    <2>2. new \in ToolShape /\ new.stage = "answering" /\ new.name = cc.name /\ new.text = cc.text /\ new.limit = cc.limit
      BY <1>6
    <2> HIDE DEF new
    <2>3. ToolCallInv(new, asked[c], delivered[c], delivered[c], toolAnswers[c])
      BY <1>2, <2>1, <2>2 DEF ToolCallInv
    <2>4. /\ asked' = [asked EXCEPT ![c] = asked[c]] /\ delivered' = [delivered EXCEPT ![c] = delivered[c]]
          /\ toolAnswers' = [toolAnswers EXCEPT ![c] = toolAnswers[c]]
      BY <1>3, <2>1
    <2>5. CallMoves(c, new, asked[c], delivered[c], delivered[c], toolAnswers[c])
      BY <2>1, <2>4 DEF CallMoves
    <2>. QED  BY <1>2, <2>2, <2>3, <2>5, ToolMoves DEF CallMoves
  <1>15. CASE AnswerRows(c)
    <2> DEFINE answer == [kind |-> "rows", rows |-> delivered[c]]
    <2>1. answer \in Answers /\ answer.kind = "rows" /\ answer.rows = delivered[c]
      BY <1>2 DEF Answers
    <2>2. cc.stage = "answering" /\ AnswerTool(c, answer) /\ UNCHANGED <<asked, delivered, grids>>
      BY <1>15 DEF AnswerRows, cc
    <2> HIDE DEF answer
    <2>3. \A to \in ToolShape : to.stage = "answered" /\ to.name = cc.name /\ to.text = cc.text
                                     /\ to.limit = cc.limit =>
                                       ToolCallInv(to, asked[c], delivered[c], grids[c], answer)
      BY <1>2, <2>1, <2>2 DEF ToolCallInv
    <2>. QED  BY <1>2, <1>3, <1>8, <2>1, <2>2, <2>3
  <1>16. CASE ProposeWrite(c)
    <2>1. PICK ended \in {"executed", "rejected", "failed"} :
            AnswerTool(c, IF ended = "failed" THEN ToolError ELSE [kind |-> ended, rows |-> 0])
      BY <1>16 DEF ProposeWrite
    <2>2. (IF ended = "failed" THEN ToolError ELSE [kind |-> ended, rows |-> 0]) \in Answers
      BY <1>4 DEF Answers
    <2>. QED  BY <1>9, <1>16, <2>1, <2>2 DEF ProposeWrite, cc
  <1>. QED  BY <1>1, <1>7, <1>10, <1>11, <1>12, <1>13, <1>14, <1>15, <1>16

LEMMA ToolsRest == ASSUME ToolsInv, UNCHANGED toolVars PROVE ToolsInv'
  BY DEF ToolsInv, CallInv, toolVars

LEMMA ToolsKeep == ToolsInv => ToolsKeepTheirSpec /\ GridBeforeAnswer
  <1> SUFFICES ASSUME ToolsInv, NEW c \in ToolCalls
               PROVE  LET cc == toolCalls[c] IN
        /\ cc.stage = "answered" /\ ~Accepts(cc.name, cc.text, cc.limit) =>
              /\ asked[c] = NotAsked /\ toolAnswers[c] = ToolError
              /\ Specified(cc.name, cc.text, cc.limit) => cc.text = "empty"
        /\ asked[c] # NotAsked =>
              /\ Specified(cc.name, cc.text, cc.limit)
              /\ asked[c] \in 1..(IF cc.name = "run_sql" THEN MAX_ROWS ELSE MAX_SAMPLE_ROWS)
        /\ toolCalls[c].name = "run_sql" =>
              /\ toolAnswers[c].kind = "rows" => grids[c] = toolAnswers[c].rows
              /\ toolAnswers[c].kind = "error" => grids[c] = NoGrid
    BY DEF ToolsKeepTheirSpec, GridBeforeAnswer
  <1>1. toolCalls[c] \in ToolShape /\ ToolCallInv(toolCalls[c], asked[c], delivered[c], grids[c], toolAnswers[c])
    BY DEF ToolsInv, CallInv
  <1>2. /\ toolCalls[c].stage \in {"idle", "acquiring", "asking", "emitting", "answering", "answered"}
        /\ toolCalls[c].text \in {"good", "empty", "missing"} /\ toolCalls[c].limit \in Int
    BY <1>1 DEF ToolShape
  <1>3. \A name, txt, limit : Accepts(name, txt, limit) => Specified(name, txt, limit)
    BY DEF Accepts, Specified, OptionalInt
  <1>4. \A name, txt, limit : txt = "missing" \/ txt = "good" =>
          (Specified(name, txt, limit) => Accepts(name, txt, limit))
    BY DEF Accepts, Specified, OptionalInt
  <1>. QED  BY <1>1, <1>2, <1>3, <1>4 DEF ToolCallInv, NoAnswer

-----------------------------------------------------------------------------
(* A part at rest                                                          *)

LEMMA ReadsRest == ASSUME ReadsInv, UNCHANGED readVars PROVE ReadsInv'
  BY DEF ReadsInv, readVars, Asks, Describes, SawIt, CallShape, NotFoundIsTrue, PageIsLabelled, TotalIsHonest

LEMMA TypesRest == ASSUME TypesInv, UNCHANGED typesVars PROVE TypesInv'
  BY DEF TypesInv, ResultInv, typesVars

LEMMA JobsRest == ASSUME JobsInv, UNCHANGED jobVars PROVE JobsInv'
  BY DEF JobsInv, JobInv, jobVars

LEMMA CliRest == ASSUME CliInv, UNCHANGED cliVars PROVE CliInv'
  BY DEF CliInv, CliTypes, NobodyWaitsForTheDead, OnlySilenceHoldsInterrupt, Codex,
         cliVars, cliChildVars, startVars, chainVars, endVars, mcpVars

LEMMA ContextRest == ASSUME ContextInv, UNCHANGED contextVars PROVE ContextInv'
  BY DEF ContextInv, SummaryInv, SessionInv, contextVars

LEMMA SavedRest == ASSUME SavedInv, UNCHANGED savedVars PROVE SavedInv'
  BY DEF SavedInv, AnswersAreKept, savedVars

LEMMA SqliteRest == ASSUME SqliteInv, UNCHANGED sqliteVars PROVE SqliteInv'
  BY DEF SqliteInv, sqliteVars, CountIsTrue, QueryOnlyEnds, ReadInv, Busy

LEMMA SqliteKeeps == SqliteInv => CountIsTrue /\ QueryOnlyEnds /\ NothingCutSilently
  <1> SUFFICES ASSUME SqliteInv, NEW r \in Readers
               PROVE  /\ reads[r].got < reads[r].there => reads[r].truncated \/ (reads[r].tool /\ reads[r].got = reads[r].limit)
                      /\ reads[r].tool => ~reads[r].truncated
    BY DEF SqliteInv, NothingCutSilently
  <1>. QED  BY DEF SqliteInv, ReadInv
=============================================================================
