------------------------------ MODULE PgTypes ------------------------------
(***************************************************************************)
(* How the postgres driver names the types of a result: db/pgTypes.ts and  *)
(* columnsOf in db/postgres.ts.  The names built in come first, then a     *)
(* sweep of pg_type, once per pool, then a query for what is left.         *)
(***************************************************************************)
EXTENDS Naturals, FiniteSets

CONSTANTS Results,   \* results whose columns are named
          Builtin,   \* oids of BUILTIN
          Custom     \* oids of types users create

VARIABLES catalog,        \* oids pg_type knows
          cache,          \* oids the resolver has a name for
          catalogLoaded,
          results,        \* result -> where it is, its oids, what it waits for
          typesFailed     \* results one of whose queries failed

typesVars == <<catalog, cache, catalogLoaded, results, typesFailed>>

Idle == [at |-> "new", oids |-> {}, asks |-> {}, named |-> {}]

TypesInit ==
  /\ catalog \in SUBSET Custom /\ cache = {} /\ catalogLoaded = FALSE
  /\ results = [r \in Results |-> Idle] /\ typesFailed = {}

Unnamed(oids, c) == oids \ (Builtin \cup c)

CreateType ==
  /\ \E oid \in Custom : catalog' = catalog \cup {oid}
  /\ catalog' # catalog
  /\ UNCHANGED <<cache, catalogLoaded, results, typesFailed>>

\* What is left after the sweep goes to formatTypes; else the answer is complete.
Ask(r, c) ==
  LET missing == Unnamed(r.oids, c)
  IN IF missing # {} THEN [r EXCEPT !.at = "format", !.asks = missing]
     ELSE [r EXCEPT !.at = "done", !.asks = {}, !.named = r.oids]

\* resolve: only the first that misses a name sweeps, whether that works or not;
\* a second one does not wait for it.
Resolve(r, oids) ==
  /\ results[r].at = "new" /\ oids \subseteq Builtin \cup catalog
  /\ LET new == [Idle EXCEPT !.oids = oids]
     IN results' = [results EXCEPT ![r] =
          IF Unnamed(oids, cache) # {} /\ ~catalogLoaded THEN [new EXCEPT !.at = "sweep"] ELSE Ask(new, cache)]
  /\ catalogLoaded' = (catalogLoaded \/ Unnamed(oids, cache) # {})
  /\ UNCHANGED <<catalog, cache, typesFailed>>

\* A query that fails counts as one without rows.
Swept(r, works) ==
  /\ results[r].at = "sweep"
  /\ cache' = IF works THEN cache \cup catalog ELSE cache
  /\ results' = [results EXCEPT ![r] = Ask(@, cache')]
  /\ typesFailed' = IF works THEN typesFailed ELSE typesFailed \cup {r}
  /\ UNCHANGED <<catalog, catalogLoaded>>

Formatted(r, works) ==
  /\ results[r].at = "format"
  /\ cache' = IF works THEN cache \cup (results[r].asks \cap catalog) ELSE cache
  /\ results' = [results EXCEPT ![r].at = "done", ![r].asks = {},
                                ![r].named = results[r].oids \ Unnamed(results[r].oids, cache')]
  /\ typesFailed' = IF works THEN typesFailed ELSE typesFailed \cup {r}
  /\ UNCHANGED <<catalog, catalogLoaded>>

TypesNext ==
  \/ CreateType
  \/ \E r \in Results, oids \in SUBSET (Builtin \cup Custom) : Resolve(r, oids)
  \/ \E r \in Results, works \in BOOLEAN : Swept(r, works) \/ Formatted(r, works)

TypesSpec == TypesInit /\ [][TypesNext]_typesVars
-----------------------------------------------------------------------------
(* Properties *)

\* A type the database knows when its result arrives is named in the answer,
\* unless a query of this very answer failed: the sweep of another one, slow or
\* failed, takes nothing away from it.
KnownTypesAreNamed ==
  \A r \in Results :
    results[r].at = "done" => results[r].named = results[r].oids \/ r \in typesFailed
=============================================================================
