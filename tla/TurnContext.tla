---------------------------- MODULE TurnContext ----------------------------
(***************************************************************************)
(* What a turn brings to its provider: the session to resume, from the map *)
(* in threads.sdk_session_id (agent/providerSessions.ts), and the schema   *)
(* summary of its connection, from a cache of five minutes (the first half *)
(* of agent/session.ts).  The threads of a behaviour share one connection. *)
(***************************************************************************)
EXTENDS Naturals, FiniteSets

CONSTANTS ChatThreads, Providers,   \* "anthropic" is one of them
          SUMMARY_TTL,      \* scaled down: five minutes
          MaxSessions, MaxEdits, MaxClock   \* bounds

ASSUME ContextAssumption == SUMMARY_TTL \in Nat /\ MaxEdits \in Nat

VARIABLES
  clock,
  database,    \* what the connection points at: its number of edits
  editedAt,    \* database -> when it was replaced
  summary,     \* the cached summary: of which database, when, see straddled
  sessionIds,      \* thread -> threads.sdk_session_id
  context,     \* thread -> its turn
  told,        \* thread -> provider -> the session it told last
  sessionsTold,
  lateSave,    \* thread -> the callback of a turn that is over, or NoSave
  overtaken    \* threads where the next turn began before such a callback

contextVars == <<clock, database, editedAt, summary, sessionIds, context, told, sessionsTold, lateSave, overtaken>>

NoSessions == [p \in Providers |-> 0]
NoSave == [provider |-> "none", session |-> 0, sdkSessionId |-> [legacy |-> FALSE, sessions |-> NoSessions]]
NoSummary == [of |-> 0, at |-> 0, straddled |-> FALSE]
NoTurnYet == [at |-> "idle", provider |-> "anthropic", sdkSessionId |-> [legacy |-> FALSE, sessions |-> NoSessions],
              of |-> 0, straddled |-> FALSE, resumed |-> 0]

\* A thread may date from the time of plain values: the session of claude.
ContextInit ==
  /\ clock = 0 /\ database = 1 /\ editedAt = [d \in 1..MaxEdits |-> 0] /\ summary = NoSummary
  /\ \E legacy \in BOOLEAN :
       /\ sessionIds = [t \in ChatThreads |-> [legacy |-> legacy, sessions |->
                      [p \in Providers |-> IF legacy /\ p = "anthropic" THEN 1 ELSE 0]]]
       /\ sessionsTold = IF legacy THEN 1 ELSE 0
  /\ told = [t \in ChatThreads |-> sessionIds[t].sessions]
  /\ context = [t \in ChatThreads |-> NoTurnYet]
  /\ lateSave = [t \in ChatThreads |-> NoSave] /\ overtaken = {}
-----------------------------------------------------------------------------
(* Sessions *)

\* A plain value decodes to a session of claude alone: in both forms, a map.
DecodeProviderSessions(v) == v.sessions

SetProviderSession(v, p, session) ==
  [legacy |-> FALSE, sessions |-> [DecodeProviderSessions(v) EXCEPT ![p] = session]]

\* send reads the thread; the turn keeps its copy.
StartTurn(t, p) ==
  /\ context[t].at = "idle"
  /\ context' = [context EXCEPT ![t] = [NoTurnYet EXCEPT
       !.at = "acquire", !.provider = p, !.sdkSessionId = sessionIds[t],
       !.resumed = DecodeProviderSessions(sessionIds[t])[p]]]
  /\ overtaken' = IF lateSave[t] = NoSave THEN overtaken ELSE overtaken \cup {t}
  /\ UNCHANGED <<clock, database, editedAt, summary, sessionIds, told, sessionsTold, lateSave>>

\* The provider tells its session, the resumed one or another, and the turn
\* saves it unless its copy has it.
SaveProviderSession(t, resumes) ==
  LET c == context[t]
      session == IF resumes THEN c.resumed ELSE sessionsTold + 1
      value == SetProviderSession(c.sdkSessionId, c.provider, session)
  IN /\ c.at = "talking"
     /\ IF resumes THEN c.resumed # 0 /\ UNCHANGED sessionsTold
        ELSE session <= MaxSessions /\ sessionsTold' = session
     /\ told' = [told EXCEPT ![t][c.provider] = session]
     /\ context' = [context EXCEPT ![t].sdkSessionId = value]
     /\ sessionIds' = [sessionIds EXCEPT ![t] = IF value = c.sdkSessionId THEN @ ELSE value]
  /\ UNCHANGED <<clock, database, editedAt, summary, lateSave, overtaken>>

\* A child may exit before the line with its session has been read: that
\* callback comes behind the turn.
EndTurn(t, late) ==
  /\ context[t].at = "talking"
  /\ lateSave' = [lateSave EXCEPT ![t] =
       IF late /\ context[t].provider # "anthropic" /\ sessionsTold < MaxSessions
       THEN [provider |-> context[t].provider, session |-> sessionsTold + 1, sdkSessionId |-> context[t].sdkSessionId]
       ELSE @]
  /\ sessionsTold' = IF lateSave' = lateSave THEN sessionsTold ELSE sessionsTold + 1
  /\ context' = [context EXCEPT ![t] = NoTurnYet]
  /\ UNCHANGED <<clock, database, editedAt, summary, sessionIds, told, overtaken>>

LateSave(t) ==
  /\ lateSave[t] # NoSave
  /\ LET s == lateSave[t]
     IN /\ sessionIds' = [sessionIds EXCEPT ![t] = SetProviderSession(s.sdkSessionId, s.provider, s.session)]
        /\ told' = [told EXCEPT ![t][s.provider] = s.session]
  /\ lateSave' = [lateSave EXCEPT ![t] = NoSave]
  /\ UNCHANGED <<clock, database, editedAt, summary, context, sessionsTold, overtaken>>
-----------------------------------------------------------------------------
(* The summary *)

Talk(t, of, straddled) ==
  context' = [context EXCEPT ![t].at = "talking", ![t].of = of, ![t].straddled = straddled]

\* Mutant: a summary that is used stays fresh.
LoadCachedTouches(t) ==
  /\ context[t].at = "acquire" /\ summary # NoSummary /\ clock - summary.at < SUMMARY_TTL
  /\ Talk(t, summary.of, summary.straddled)
  /\ summary' = [summary EXCEPT !.at = clock]
  /\ UNCHANGED <<clock, database, editedAt, sessionIds, told, sessionsTold, lateSave, overtaken>>

\* loadSchemaSummary: by connection id, whatever the driver just acquired.
LoadCached(t) ==
  /\ context[t].at = "acquire" /\ summary # NoSummary /\ clock - summary.at < SUMMARY_TTL
  /\ Talk(t, summary.of, summary.straddled)
  /\ UNCHANGED <<clock, database, editedAt, summary, sessionIds, told, sessionsTold, lateSave, overtaken>>

\* introspect and describeTable of the driver the turn has acquired.
Introspect(t) ==
  /\ context[t].at = "acquire" /\ (summary = NoSummary \/ clock - summary.at >= SUMMARY_TTL)
  /\ context' = [context EXCEPT ![t].at = "introspect", ![t].of = database]
  /\ UNCHANGED <<clock, database, editedAt, summary, sessionIds, told, sessionsTold, lateSave, overtaken>>

Introspected(t) ==
  /\ context[t].at = "introspect"
  /\ summary' = [of |-> context[t].of, at |-> clock, straddled |-> context[t].straddled]
  /\ Talk(t, context[t].of, context[t].straddled)
  /\ UNCHANGED <<clock, database, editedAt, sessionIds, told, sessionsTold, lateSave, overtaken>>

\* No driver, or no answer: the turn does without.
NoSummaryFound(t) ==
  /\ context[t].at \in {"acquire", "introspect"}
  /\ Talk(t, 0, FALSE)
  /\ UNCHANGED <<clock, database, editedAt, summary, sessionIds, told, sessionsTold, lateSave, overtaken>>

\* connections.update: the cache does not hear of it.
EditConnection ==
  /\ database < MaxEdits /\ database' = database + 1
  /\ editedAt' = [editedAt EXCEPT ![database] = clock]
  /\ context' = [t \in ChatThreads |-> [context[t] EXCEPT !.straddled = @ \/ context[t].at = "introspect"]]
  /\ UNCHANGED <<clock, summary, sessionIds, told, sessionsTold, lateSave, overtaken>>

Tick ==
  /\ clock < MaxClock /\ clock' = clock + 1
  /\ UNCHANGED <<database, editedAt, summary, sessionIds, context, told, sessionsTold, lateSave, overtaken>>

ContextNext ==
  \/ \E t \in ChatThreads :
       \/ \E p \in Providers : StartTurn(t, p)
       \/ \E b \in BOOLEAN : SaveProviderSession(t, b) \/ EndTurn(t, b)
       \/ LateSave(t) \/ LoadCached(t) \/ Introspect(t) \/ Introspected(t) \/ NoSummaryFound(t)
  \/ EditConnection \/ Tick

ContextSpec == ContextInit /\ [][ContextNext]_contextVars
-----------------------------------------------------------------------------
(* Properties *)

\* The session a provider told last is the one it will resume, whatever other
\* providers the thread has talked to meanwhile.  Only a callback that comes when
\* the next turn has read the thread may lose one.
SessionsAreKept ==
  \A t \in ChatThreads : DecodeProviderSessions(sessionIds[t]) = told[t] \/ t \in overtaken

\* The summary survives an edit of its connection, but a turn that begins a TTL
\* after the edit is not told of the old database, unless an introspection that
\* was under way then brought it back.
StaleSummariesEnd ==
  [][\A t \in ChatThreads :
       LET c == context'[t]
       IN context[t].at # "talking" /\ c.at = "talking" /\ c.of \notin {0, database} =>
            clock - editedAt[c.of] < SUMMARY_TTL \/ c.straddled]_contextVars
=============================================================================
