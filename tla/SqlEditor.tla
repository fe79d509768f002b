----------------------------- MODULE SqlEditor -----------------------------
(***************************************************************************)
(* The SQL editor screen: components/screens/sql-editor.tsx with           *)
(* components/sql/* and rpc/sql.ts, for one connection.                    *)
(*                                                                         *)
(* A text is a number, fresh with every edit; 0 is the empty buffer.  The  *)
(* component is keyed by the query id, so opening another query forgets    *)
(* everything but the drafts of lib/store.ts and the cached list of saved  *)
(* queries; calls that are under way go on without it.  `scene` says what  *)
(* the user of a behaviour does: it keeps the instances small.             *)
(***************************************************************************)
EXTENDS Naturals, Sequences, FiniteSets

CONSTANTS SavedIds,      \* ids of saved queries
          MaxText,  \* bound: texts a user brings into the buffer
          MaxRuns   \* bound: runs the client starts

NewQuery == "new"               \* the query id of an untitled buffer
NoText == MaxText + 1
Text == 0..MaxText
QueryIds == SavedIds \cup {NewQuery}
NoQuery == "none"
Scenes == {"run", "text", "suggest"}

ASSUME EditorAssumption ==
  /\ NewQuery \notin SavedIds /\ NoQuery \notin SavedIds
  /\ MaxText \in Nat \ {0} /\ MaxRuns \in Nat

VARIABLES
  scene, prod, confirmDml, \* connection.env = "prod"; the setting
  texts,       \* texts used so far
  query, code, \* the query that is open, its buffer
  loadedFor,   \* what filled the buffer: nothing yet, prefill, draft, history, saved
  drafts,      \* store.sqlDrafts
  saved,       \* sql of the saved queries on the server
  list,        \* the cached list; refetch: a fetch of it is under way
  refetch,
  saves,       \* saves under way: query, text
  runs,        \* runs of this mount: id, kind, readOnly, confirmed, open
  runId, shown,           \* the run the toolbar can cancel, the run whose answer is shown
  readOnly, offDialog,    \* the toggle and its confirmation on production
  pendingWrite,           \* a write waits for its confirmation
  suggestion, consulted,  \* texts: of the shown suggestion, of those asked for
  lastTyped, raced, swapped \* history: see the properties

bufferVars == <<texts, query, code, loadedFor, drafts, saved, list, refetch, saves, lastTyped, raced>>
runVars == <<runs, runId, shown, readOnly, offDialog, pendingWrite>>
suggestVars == <<suggestion, consulted, swapped>>
editorVars == <<scene, prod, confirmDml, bufferVars, runVars, suggestVars>>

Unlisted == [i \in SavedIds |-> NoText]

\* What a new mount starts with; runs of the last one have nobody to tell.
EditorMounted ==
  /\ runs' = <<>> /\ runId' = 0 /\ shown' = 0
  /\ readOnly' = TRUE /\ offDialog' = FALSE /\ pendingWrite' = FALSE
  /\ suggestion' = NoText /\ consulted' = {} /\ swapped' = FALSE

EditorInit ==
  /\ scene \in Scenes /\ prod \in BOOLEAN /\ confirmDml \in BOOLEAN
  /\ scene # "run" => ~prod /\ ~confirmDml
  /\ texts = 1 /\ query = NoQuery /\ code = 0 /\ loadedFor = "nothing"
  /\ drafts = [q \in QueryIds |-> NoText]
  /\ \E i \in SavedIds : saved = [Unlisted EXCEPT ![i] = 1]
  /\ list = Unlisted /\ refetch = TRUE /\ saves = {}
  /\ runs = <<>> /\ runId = 0 /\ shown = 0
  /\ readOnly = TRUE /\ offDialog = FALSE /\ pendingWrite = FALSE
  /\ suggestion = NoText /\ consulted = {} /\ swapped = FALSE
  /\ lastTyped = NoText /\ raced = FALSE

Put(f, x, v) == [f EXCEPT ![x] = v]
IsOpen == query # NoQuery
Fresh == texts + 1
Bring == texts < MaxText /\ texts' = Fresh     \* a text nobody has seen yet
-----------------------------------------------------------------------------
(* The buffer *)

\* A tab is opened: with a prefill, which becomes the draft, else on its draft,
\* else empty until the saved text is there.
OpenQuery(q) ==
  /\ q # query /\ q \in {NewQuery} \cup {i \in SavedIds : saved[i] # NoText}
  /\ scene = "run" => query = NoQuery
  /\ query' = q /\ EditorMounted
  /\ \/ /\ Bring
        /\ code' = Fresh /\ drafts' = Put(drafts, q, Fresh)
        /\ loadedFor' = "prefill" /\ lastTyped' = NoText
     \/ /\ code' = IF drafts[q] = NoText THEN 0 ELSE drafts[q]
        /\ loadedFor' = IF drafts[q] = NoText THEN "nothing" ELSE "draft"
        /\ UNCHANGED <<texts, drafts, lastTyped>>
  /\ UNCHANGED <<scene, prod, confirmDml, saved, list, refetch, saves, raced>>

Leave ==
  /\ IsOpen /\ scene # "run"
  /\ query' = NoQuery /\ code' = 0 /\ loadedFor' = "nothing" /\ EditorMounted
  /\ UNCHANGED <<scene, prod, confirmDml, texts, drafts, saved, list, refetch, saves, lastTyped, raced>>

\* The saved text fills a buffer that nothing has filled, whatever was typed.
LoadSaved ==
  /\ query \in SavedIds /\ loadedFor = "nothing" /\ list[query] # NoText
  /\ loadedFor' = "saved" /\ code' = list[query]
  /\ swapped' = (code' # code) /\ raced' = (raced \/ list[query] # saved[query])
  /\ UNCHANGED <<scene, prod, confirmDml, texts, query, drafts, saved, list, refetch, saves,
                 lastTyped, runVars, suggestion, consulted>>

\* Answer of sql.saved.list.
SavedListArrives ==
  /\ refetch
  /\ list' = saved /\ refetch' = FALSE
  /\ UNCHANGED <<scene, prod, confirmDml, texts, query, code, loadedFor, drafts, saved, saves,
                 lastTyped, raced, runVars, suggestVars>>

\* onChange: the draft follows, suggestions for the old text are void, and a
\* pause in typing at the end of a line asks for one.
Type ==
  /\ IsOpen /\ scene # "run" /\ Bring
  /\ code' = Fresh /\ drafts' = Put(drafts, query, Fresh) /\ lastTyped' = Fresh
  /\ raced' = \/ raced \/ saves # {}
              \/ query \in SavedIds /\ loadedFor = "nothing"
  /\ suggestion' = NoText /\ swapped' = FALSE
  /\ consulted' = IF scene = "suggest" THEN {Fresh} ELSE {}
  /\ UNCHANGED <<scene, prod, confirmDml, query, loadedFor, saved, list, refetch, saves, runVars>>

\* A statement of the history replaces buffer and draft.
PickHistory ==
  /\ IsOpen /\ scene # "run" /\ Bring
  /\ code' = Fresh /\ drafts' = Put(drafts, query, Fresh)
  /\ loadedFor' = "history" /\ lastTyped' = NoText /\ swapped' = TRUE
  /\ UNCHANGED <<scene, prod, confirmDml, query, saved, list, refetch, saves, raced, runVars,
                 suggestion, consulted>>

\* Save (or Enter in its dialog, also while a save is under way): the buffer of
\* that moment goes to the server.
Save ==
  /\ IsOpen /\ scene = "text" /\ code # 0 /\ Cardinality(saves) < 2
  /\ saves' = saves \cup {[query |-> query, text |-> code]}
  /\ UNCHANGED <<scene, prod, confirmDml, texts, query, code, loadedFor, drafts, saved, list, refetch,
                 lastTyped, raced, runVars, suggestVars>>

SaveFails ==
  \E s \in saves :
    /\ saves' = saves \ {s}
    /\ UNCHANGED <<scene, prod, confirmDml, texts, query, code, loadedFor, drafts, saved, list, refetch,
                   lastTyped, raced, runVars, suggestVars>>

\* It is saved: the list is fetched again, the draft goes, and the router opens
\* the query under its id, wherever the user is by now.
Saved ==
  \E s \in saves, i \in SavedIds :
    /\ IF s.query = NewQuery THEN saved[i] = NoText ELSE i = s.query
    /\ saves' = saves \ {s} /\ saved' = Put(saved, i, s.text) /\ refetch' = TRUE
    /\ drafts' = Put(drafts, s.query, NoText)
    /\ query' = i
    /\ IF query = i
       THEN /\ loadedFor' = IF s.query = i THEN "saved" ELSE loadedFor
            /\ UNCHANGED <<code, runVars, suggestVars>>
       ELSE /\ code' = IF drafts'[i] = NoText THEN 0 ELSE drafts'[i]
            /\ loadedFor' = IF drafts'[i] = NoText THEN "nothing" ELSE "draft"
            /\ EditorMounted
    /\ UNCHANGED <<scene, prod, confirmDml, texts, list, lastTyped, raced>>
-----------------------------------------------------------------------------
(* Running *)

\* isWriteStatement sees the writes that start with a keyword it knows: a
\* "hidden" one (behind WITH, in a second statement) passes for a read.
RecognizedWrite(kind) == kind = "write"

Inflight == {n \in DOMAIN runs : runs[n].open}

\* execute, n times for one key: the id is the clock, so runs of one
\* millisecond share it.
Execute(n, kind, confirmed) ==
  /\ Len(runs) + n <= MaxRuns
  /\ \E clock \in {Len(runs), Len(runs) + 1} :
       /\ clock > 0
       /\ runs' = runs \o [k \in 1..n |-> [id |-> clock, kind |-> kind, readOnly |-> readOnly,
                                           confirmed |-> confirmed, open |-> TRUE]]
       /\ runId' = clock

\* The button is there while nothing runs; the key always is, and in the
\* focused editor both its keymap and the window's listener handle it.
Run(keys, kind) ==
  /\ IsOpen /\ scene = "run" /\ ~offDialog
  /\ IF confirmDml /\ ~readOnly /\ RecognizedWrite(kind)
     THEN pendingWrite' = TRUE /\ UNCHANGED <<runs, runId>>
     ELSE Execute(keys, kind, FALSE) /\ UNCHANGED pendingWrite
  /\ UNCHANGED <<scene, prod, confirmDml, bufferVars, shown, readOnly, offDialog, suggestVars>>

\* "Run it" runs the text of the question in the mode of this moment.
RunIt ==
  /\ pendingWrite /\ pendingWrite' = FALSE
  /\ Execute(1, "write", TRUE)
  /\ UNCHANGED <<scene, prod, confirmDml, bufferVars, shown, readOnly, offDialog, suggestVars>>

CancelDialogs ==
  /\ pendingWrite \/ offDialog
  /\ pendingWrite' = FALSE /\ offDialog' = FALSE
  /\ UNCHANGED <<scene, prod, confirmDml, bufferVars, runs, runId, shown, readOnly, suggestVars>>

\* Mutant: only the answer of the run that is shown as running clears it.
AnswerKeepsId(n) ==
  /\ n \in Inflight
  /\ runs' = [runs EXCEPT ![n].open = FALSE]
  /\ shown' = n /\ runId' = IF runs[n].readOnly THEN runId ELSE 0
  /\ UNCHANGED <<scene, prod, confirmDml, bufferVars, readOnly, offDialog, pendingWrite, suggestVars>>

\* A run is answered, with rows or an error: it is shown, and nothing counts
\* as running any more.
Answer(n) ==
  /\ n \in Inflight
  /\ runs' = [runs EXCEPT ![n].open = FALSE]
  /\ shown' = n /\ runId' = 0
  /\ UNCHANGED <<scene, prod, confirmDml, bufferVars, readOnly, offDialog, pendingWrite, suggestVars>>

\* The toggle, and the button under a blocked write.
RequestReadOnly(next) ==
  /\ IsOpen /\ scene = "run" /\ ~pendingWrite /\ ~offDialog
  /\ IF ~next /\ prod THEN offDialog' = TRUE /\ UNCHANGED readOnly
                      ELSE readOnly' = next /\ UNCHANGED offDialog
  /\ UNCHANGED <<scene, prod, confirmDml, bufferVars, runs, runId, shown, pendingWrite, suggestVars>>

ConfirmReadOnlyOff ==
  /\ offDialog
  /\ readOnly' = FALSE /\ offDialog' = FALSE
  /\ UNCHANGED <<scene, prod, confirmDml, bufferVars, runs, runId, shown, pendingWrite, suggestVars>>
-----------------------------------------------------------------------------
(* Suggestions *)

\* The answer of the last request is shown unless a keystroke made it void.
SuggestionArrives ==
  \E t \in consulted :
    /\ suggestion' = t /\ consulted' = {}
    /\ UNCHANGED <<scene, prod, confirmDml, bufferVars, runVars, swapped>>

\* Tab inserts it at the cursor it was asked for, which is an edit.
AcceptSuggestion == suggestion # NoText /\ Type

DismissSuggestion ==
  /\ suggestion # NoText /\ suggestion' = NoText
  /\ UNCHANGED <<scene, prod, confirmDml, bufferVars, runVars, consulted, swapped>>

EditorNext ==
  \/ \E q \in QueryIds : OpenQuery(q)
  \/ Leave \/ LoadSaved \/ SavedListArrives \/ Type \/ PickHistory
  \/ Save \/ SaveFails \/ Saved
  \/ \E keys \in 1..2, kind \in {"read", "write", "hidden"} : Run(keys, kind)
  \/ RunIt \/ CancelDialogs
  \/ \E n \in 1..MaxRuns : Answer(n)
  \/ \E next \in BOOLEAN : RequestReadOnly(next)
  \/ ConfirmReadOnlyOff
  \/ SuggestionArrives \/ AcceptSuggestion \/ DismissSuggestion

EditorSpec == EditorInit /\ [][EditorNext]_editorVars
-----------------------------------------------------------------------------
(* Properties *)

\* Nothing that was typed last gets lost: it is in the buffer, in a draft or
\* saved, through leaving, reopening, saving and failing.  Two races the code
\* does not guard are the exceptions (`raced`): typing while a save is under
\* way, whose success clears the draft, and typing into a buffer before its
\* saved text has been loaded over it.
TypedTextIsKept ==
  \/ raced \/ lastTyped \in {NoText, code}
  \/ \E q \in QueryIds : drafts[q] = lastTyped
  \/ \E i \in SavedIds : saved[i] = lastTyped

\* A write the client can recognise reaches the server with writes on only
\* behind a question, if the setting says so.
WritesAreConfirmed ==
  \A n \in DOMAIN runs :
    runs[n].kind = "write" /\ ~runs[n].readOnly /\ confirmDml => runs[n].confirmed

\* The toolbar offers Cancel exactly while a run is open, unless runs overlap:
\* the first answer then takes the button from the other.
RunningIsShown ==
  /\ runId # 0 => Inflight # {}
  /\ runId = 0 /\ Inflight # {} =>
       \E m \in DOMAIN runs : m \notin Inflight /\ Len(runs) > 1

\* A suggestion is shown for the text it was asked for: keystrokes void it.
\* The exception (`swapped`) is a text that comes from the history or from the
\* saved query, which the editor does not report as a change.
SuggestionFits == suggestion \in {NoText, code} \/ swapped
=============================================================================
