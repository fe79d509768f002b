----------------------------- MODULE SavedQueries -----------------------------
(***************************************************************************)
(* saved_queries: sql.saved.save and sql.saved.delete (rpc/sql.ts,         *)
(* sql/store.ts), each a SELECT and then a write with other calls in       *)
(* between.  One query id, several windows that have it open.              *)
(***************************************************************************)
EXTENDS Integers

CONSTANTS
    Windows,         \* clients
    MaxSavedCalls    \* bound: calls made

VARIABLES
    savedRow,        \* the row of the query: [text, created, updated], or NoSavedRow
    savedCalls,      \* each window's call: [op, text, prior], prior Unread before its SELECT
    savedAnswers,    \* each window's last answer: [kind, text, created]
    disturbed,       \* history: another call wrote the row since this window's last SELECT
    savedClock       \* calls made so far: the bound, and what each writes

savedVars == <<savedRow, savedCalls, savedAnswers, disturbed, savedClock>>

NoSavedRow == [text |-> 0, created |-> 0, updated |-> 0]
Unread == [text |-> -1, created |-> -1, updated |-> -1]
NoSavedCall == [op |-> "none", text |-> 0, prior |-> Unread]
SavedReply(kind, text, created) == [kind |-> kind, text |-> text, created |-> created]

SavedInit ==
    /\ savedRow \in {NoSavedRow, [text |-> 0, created |-> 1, updated |-> 1]}
    /\ savedCalls = [w \in Windows |-> NoSavedCall]
    /\ savedAnswers = [w \in Windows |-> SavedReply("none", 0, 0)]
    /\ disturbed = [w \in Windows |-> FALSE]
    /\ savedClock = 1

AskSaved(w, op) ==
    /\ savedClock < MaxSavedCalls
    /\ savedCalls[w] = NoSavedCall
    /\ savedClock' = savedClock + 1
    /\ savedCalls' = [savedCalls EXCEPT ![w] = [op |-> op, text |-> savedClock, prior |-> Unread]]
    /\ UNCHANGED <<savedRow, savedAnswers, disturbed>>

ReadSaved(w) ==
    /\ savedCalls[w].op # "none" /\ savedCalls[w].prior = Unread
    /\ savedCalls' = [savedCalls EXCEPT ![w].prior = savedRow]
    /\ disturbed' = [disturbed EXCEPT ![w] = FALSE]
    /\ UNCHANGED <<savedRow, savedAnswers, savedClock>>

FinishSaved(w, row, reply) ==
    /\ savedRow' = row
    /\ savedAnswers' = [savedAnswers EXCEPT ![w] = reply]
    /\ savedCalls' = [savedCalls EXCEPT ![w] = NoSavedCall]
    /\ disturbed' = [v \in Windows |-> disturbed[v] \/ (v # w /\ row # savedRow)]
    /\ UNCHANGED savedClock

\* UPDATE when the SELECT found it, though the row may be gone by now; INSERT otherwise, which fails
\* when another call inserted it first and is answered with a ValidationError
WriteSaved(w) ==
    LET c == savedCalls[w] IN
    /\ c.op = "save" /\ c.prior # Unread
    /\ IF c.prior # NoSavedRow
       THEN FinishSaved(w, IF savedRow = NoSavedRow THEN NoSavedRow ELSE [savedRow EXCEPT !.text = c.text, !.updated = c.text],
                   SavedReply("saved", c.text, c.prior.created))
       ELSE IF savedRow = NoSavedRow
       THEN FinishSaved(w, [text |-> c.text, created |-> c.text, updated |-> c.text], SavedReply("saved", c.text, c.text))
       ELSE FinishSaved(w, savedRow, SavedReply("ValidationError", c.text, 0))

DeleteSaved(w) ==
    LET c == savedCalls[w] IN
    /\ c.op = "delete" /\ c.prior # Unread
    /\ IF c.prior = NoSavedRow THEN FinishSaved(w, savedRow, SavedReply("NotFound", 0, 0))
       ELSE FinishSaved(w, NoSavedRow, SavedReply("deleted", 0, 0))

SavedNext ==
    \E w \in Windows :
        \/ AskSaved(w, "save") \/ AskSaved(w, "delete")
        \/ ReadSaved(w) \/ WriteSaved(w) \/ DeleteSaved(w)

SavedSpec == SavedInit /\ [][SavedNext]_savedVars

\* What a window was told holds until another window writes: an answered save is the row, with the
\* creation time it had, and an answered delete leaves none; of two first saves one is refused.
AnswersAreKept ==
    \A w \in Windows : savedCalls[w].prior = Unread /\ ~disturbed[w] =>
        /\ savedAnswers[w].kind = "saved" =>
              savedRow.text = savedAnswers[w].text /\ savedRow.created = savedAnswers[w].created
        /\ savedAnswers[w].kind = "deleted" => savedRow = NoSavedRow
=============================================================================
