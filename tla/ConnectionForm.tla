--------------------------- MODULE ConnectionForm ---------------------------
(***************************************************************************)
(* The connection dialog (connection-form-dialog.tsx), the edits it sends  *)
(* (connection-url.ts) and what the store makes of them                    *)
(* (ConnectionStore.ts, ConnectionStoreLive.ts, validate.ts), down to what *)
(* a driver built from the row would reach (driverFactory.ts).             *)
(*                                                                         *)
(* The metadata of a row is public and listed; its password or URL is a    *)
(* secret that the dialog asks for when it opens, with an answer that may  *)
(* come after the dialog was reopened for another row.  A save is two      *)
(* statements, the row and then its secret.  Names, environment, colour    *)
(* and SSL are left out; user is folded into database.                     *)
(***************************************************************************)
EXTENDS Integers, FiniteSets

CONSTANTS
    FormRows,       \* connections stored at the start, each its own host, database and password
    FormDialects,   \* the dialects on offer
    MaxDialogs,     \* bound: times the dialog is opened
    MaxFormEdits,   \* bound: changes the user makes in it
    MaxSaves        \* bound: submissions

VARIABLES
    rows,     \* connections: the row of each connection
    secrets,    \* connection_secrets, decrypted
    rowsShown,     \* the client's cached connection.list
    dialog,     \* [open, row, token, loading, submitting, touched, seed]
    form,       \* the form's values
    credentialCalls,      \* connection.credentials calls under way
    rowSaves,      \* connection.create and update calls under way
    overlapped, \* history: rows a save wrote while another had written the row and not its secret
    lastSave,      \* history: what the last save did
    formOps     \* [opens, edits, saves] so far, for the bounds

formVars == <<rows, secrets, rowsShown, dialog, form, credentialCalls, rowSaves, overlapped, lastSave, formOps>>

NewRow == "new"
Absent == "-"                   \* a property the input does not have

ASSUME FormAssumption ==
    /\ FormDialects \subseteq {"postgres", "mysql", "sqlite", "bigquery"}
    /\ FormRows \cap {NewRow, Absent, ""} = {}

Url(s, h, p, d, pw) == [scheme |-> s, host |-> h, port |-> p, database |-> d, password |-> pw]
NoUrl == Url("", "", "", "", "")
AbsentUrl == Url(Absent, "", "", "", "")
NoSecret == [password |-> "", url |-> NoUrl]

Networked(d) == d \in {"postgres", "mysql"}
DefaultPort(d) == IF Networked(d) THEN "std" ELSE ""
BlankRow == [dialect |-> "", host |-> "", port |-> "", database |-> ""]

(***************************************************************************)
(* The form.                                                               *)
(***************************************************************************)
EmptyValues ==
    [dialect |-> "postgres", mode |-> "fields", url |-> NoUrl, hasStoredUrl |-> FALSE,
     host |-> "localhost", port |-> "std", database |-> "", password |-> ""]

\* a row whose public metadata is blank was created from a URL
FromConnection(c) ==
    LET urlOnly == c.dialect # "sqlite" /\ c.host = "" /\ c.database = "" IN
    [dialect |-> c.dialect, mode |-> IF urlOnly THEN "url" ELSE "fields", url |-> NoUrl,
     hasStoredUrl |-> urlOnly, host |-> c.host,
     port |-> IF c.port = "" THEN DefaultPort(c.dialect) ELSE c.port,
     database |-> c.database, password |-> ""]

Input(v, h, p, d, pw, u) ==
    [dialect |-> v.dialect, host |-> h, port |-> p, database |-> d, password |-> pw, url |-> u]

\* url: "" clears a stored URL, an absent one keeps it; a blank password is not sent
ToConnectionInput(v) ==
    LET password == IF v.password # "" THEN v.password ELSE Absent IN
    CASE v.dialect = "sqlite" -> Input(v, Absent, Absent, v.database, Absent, NoUrl)
      [] v.dialect = "bigquery" -> Input(v, v.host, Absent, v.database, password, NoUrl)
      [] Networked(v.dialect) /\ v.mode = "url" ->
            Input(v, Absent, Absent, Absent, Absent,
                  IF v.url # NoUrl THEN v.url ELSE IF v.hasStoredUrl THEN AbsentUrl ELSE NoUrl)
      [] OTHER -> Input(v, v.host, v.port, v.database, password, NoUrl)

Validates(v) ==
    CASE ~Networked(v.dialect) -> v.database # ""
      [] Networked(v.dialect) /\ v.mode = "url" ->
            IF v.url = NoUrl THEN v.hasStoredUrl ELSE v.url.scheme = v.dialect
      [] OTHER -> "" \notin {v.host, v.port, v.database}

InFields(v) ==
    IF v.url.scheme # v.dialect THEN [v EXCEPT !.mode = "fields"]
    ELSE [v EXCEPT !.mode = "fields", !.host = v.url.host, !.port = v.url.port,
                   !.database = v.url.database, !.password = v.url.password]

InUrl(v) ==
    [v EXCEPT !.mode = "url", !.hasStoredUrl = TRUE,
              !.url = Url(v.dialect, v.host, v.port, v.database, v.password)]

\* every click sets the port, one on the dialect already chosen too
InDialect(v, d) ==
    [v EXCEPT !.dialect = d, !.port = DefaultPort(d),
              !.hasStoredUrl = v.hasStoredUrl /\ d = v.dialect,
              !.host = IF d = "bigquery" THEN ""
                       ELSE IF v.dialect = "bigquery" /\ Networked(d) THEN "localhost" ELSE v.host,
              !.mode = IF Networked(d) THEN v.mode ELSE "fields"]

(***************************************************************************)
(* The store, and what a driver built from a row or an input would reach.  *)
(***************************************************************************)
MergeSecret(input, previous) ==
    [input EXCEPT !.password = IF @ \notin {Absent, ""} THEN @ ELSE previous.password,
                  !.url = IF @ = AbsentUrl THEN previous.url ELSE @]

Given(x) == IF x = Absent THEN "" ELSE x

Usable(input) ==
    CASE input.dialect = "sqlite" -> Given(input.database) # "" \/ input.url # NoUrl
      [] input.dialect = "bigquery" -> Given(input.database) # ""
      [] OTHER -> input.url # NoUrl \/ "" \notin {Given(input.host), Given(input.database)}

NewRowOf(i) ==
    [dialect |-> i.dialect, host |-> Given(i.host),
     port |-> IF i.port = Absent THEN DefaultPort(i.dialect) ELSE i.port,
     database |-> Given(i.database)]

\* a URL blanks the public columns; what the input omits is kept unless the dialect changed
UpdatedRow(old, i) ==
    LET url == i.url \notin {NoUrl, AbsentUrl}
        base == IF old.dialect # i.dialect THEN [BlankRow EXCEPT !.port = DefaultPort(i.dialect)] ELSE old
        Column(f, blank) == IF url THEN blank ELSE IF i[f] = Absent THEN base[f] ELSE i[f]
    IN [dialect |-> i.dialect, host |-> Column("host", ""),
        port |-> Column("port", DefaultPort(i.dialect)), database |-> Column("database", "")]

SecretFrom(i) == [password |-> Given(i.password), url |-> i.url]

\* makeDriverFromSpec: a URL wins over the fields, BigQuery takes none
Reaches(spec) ==
    CASE spec.dialect = "bigquery" ->
            <<"bigquery", Url("bigquery", spec.host, "", spec.database, spec.password)>>
      [] spec.dialect = "sqlite" ->
            <<"sqlite", IF spec.url # NoUrl THEN spec.url ELSE Url("sqlite", "", "", spec.database, "")>>
      [] OTHER ->
            <<spec.dialect,
              IF spec.url # NoUrl THEN spec.url
              ELSE Url(spec.dialect, spec.host, spec.port, spec.database, spec.password)>>

SpecFromConnection(c, s) ==
    [dialect |-> c.dialect, host |-> c.host, port |-> c.port, database |-> c.database,
     password |-> s.password, url |-> s.url]

SpecFromInput(i) ==
    [dialect |-> i.dialect, host |-> Given(i.host), port |-> Given(i.port),
     database |-> Given(i.database), password |-> Given(i.password), url |-> i.url]

\* the stored secret an input for row c is completed with: none for a new row, or a new dialect
KeptSecret(c, i) == IF rows[c].dialect = i.dialect THEN secrets[c] ELSE NoSecret

\* connection.test: the target of an input for row c, merged but not stored
Tested(c, i) ==
    Reaches(SpecFromInput(MergeSecret(i, KeptSecret(c, i))))

(***************************************************************************)
(* Steps.                                                                  *)
(***************************************************************************)
Unknown == [known |-> FALSE]

StoredRow(c, d, byUrl) ==
    IF byUrl THEN [BlankRow EXCEPT !.dialect = d, !.port = "std"]
    ELSE [dialect |-> d, host |-> IF d = "sqlite" THEN "" ELSE c,
          port |-> IF Networked(d) THEN "own" ELSE "", database |-> c]

StoredSecret(c, d, byUrl) ==
    IF byUrl THEN [NoSecret EXCEPT !.url = Url(d, c, "own", c, c)]
    ELSE IF d = "sqlite" THEN NoSecret ELSE [NoSecret EXCEPT !.password = c]

FormInit ==
    \E d \in [FormRows -> FormDialects], byUrl \in [FormRows -> BOOLEAN] :
        /\ \A c \in FormRows : byUrl[c] => Networked(d[c])
        /\ rows = [c \in FormRows \cup {NewRow} |->
                        IF c = NewRow THEN BlankRow ELSE StoredRow(c, d[c], byUrl[c])]
        /\ secrets = [c \in FormRows \cup {NewRow} |->
                        IF c = NewRow THEN NoSecret ELSE StoredSecret(c, d[c], byUrl[c])]
        /\ rowsShown = rows
        /\ dialog = [open |-> FALSE, row |-> NewRow, token |-> 0, loading |-> FALSE,
                     submitting |-> FALSE, touched |-> FALSE, seed |-> Unknown]
        /\ form = EmptyValues
        /\ credentialCalls = {} /\ rowSaves = {} /\ overlapped = {} /\ lastSave = Unknown
        /\ formOps = [opens |-> 0, edits |-> 0, saves |-> 0]

\* the effect on [open, connection?.id]: reset the form, then ask for the secrets
OpenDialog(c) ==
    /\ ~dialog.open /\ formOps.opens < MaxDialogs
    /\ c = NewRow \/ rowsShown[c] # BlankRow
    /\ formOps' = [formOps EXCEPT !.opens = @ + 1]
    /\ dialog' = [open |-> TRUE, row |-> c, token |-> dialog.token + 1, loading |-> c # NewRow,
                  submitting |-> FALSE, touched |-> FALSE,
                  seed |-> [known |-> TRUE, row |-> rowsShown[c], secret |-> secrets[c]]]
    /\ form' = IF c = NewRow THEN EmptyValues ELSE FromConnection(rowsShown[c])
    /\ credentialCalls' = IF c = NewRow THEN credentialCalls
                ELSE credentialCalls \cup {[token |-> dialog.token + 1, secret |-> secrets[c]]}
    /\ UNCHANGED <<rows, secrets, rowsShown, rowSaves, overlapped, lastSave>>

\* the effect's cleanup cancels the credentials call
CloseDialog ==
    /\ dialog.open
    /\ dialog' = [dialog EXCEPT !.open = FALSE, !.token = @ + 1]
    /\ UNCHANGED <<rows, secrets, rowsShown, form, credentialCalls, rowSaves, overlapped, lastSave, formOps>>

\* Mutant: nothing cancels the call.
CredentialsArriveLate(q) ==
    /\ q \in credentialCalls
    /\ credentialCalls' = credentialCalls \ {q}
    /\ form' = [form EXCEPT !.password = q.secret.password, !.url = q.secret.url,
                            !.hasStoredUrl = q.secret.url # NoUrl,
                            !.mode = IF q.secret.url # NoUrl THEN "url" ELSE @]
    /\ dialog' = [dialog EXCEPT !.loading = FALSE]
    /\ UNCHANGED <<rows, secrets, rowsShown, rowSaves, overlapped, lastSave, formOps>>

\* the answer for a cancelled call is dropped
CredentialsArrive(q) ==
    /\ q \in credentialCalls
    /\ credentialCalls' = credentialCalls \ {q}
    /\ IF q.token # dialog.token THEN UNCHANGED <<form, dialog>>
       ELSE /\ form' = [form EXCEPT !.password = q.secret.password, !.url = q.secret.url,
                                    !.hasStoredUrl = q.secret.url # NoUrl,
                                    !.mode = IF q.secret.url # NoUrl THEN "url" ELSE @]
            /\ dialog' = [dialog EXCEPT !.loading = FALSE]
    /\ UNCHANGED <<rows, secrets, rowsShown, rowSaves, overlapped, lastSave, formOps>>

CredentialsFail(q) ==
    /\ q \in credentialCalls
    /\ credentialCalls' = credentialCalls \ {q}
    /\ dialog' = [dialog EXCEPT !.loading = @ /\ q.token # dialog.token]
    /\ UNCHANGED <<rows, secrets, rowsShown, form, rowSaves, overlapped, lastSave, formOps>>

Edit(values) ==
    /\ dialog.open /\ formOps.edits < MaxFormEdits
    /\ form' = values
    /\ dialog' = [dialog EXCEPT !.touched = TRUE]
    /\ formOps' = [formOps EXCEPT !.edits = @ + 1]
    /\ UNCHANGED <<rows, secrets, rowsShown, credentialCalls, rowSaves, overlapped, lastSave>>

PickDialect(d) == ~dialog.loading /\ Edit(InDialect(form, d))

SwitchMode ==
    /\ ~dialog.loading /\ Networked(form.dialect)
    /\ Edit(IF form.mode = "url" THEN InFields(form) ELSE InUrl(form))

TypeUrl ==
    /\ ~dialog.loading /\ Networked(form.dialect) /\ form.mode = "url"
    /\ \E u \in {NoUrl, Url(form.dialect, "typed", "own", "typed", "")} : Edit([form EXCEPT !.url = u])

TypePassword ==
    /\ ~dialog.loading /\ form.mode = "fields" /\ form.dialect # "sqlite"
    /\ \E p \in {"", "typed"} : Edit([form EXCEPT !.password = p])

\* the plain fields are open to typing while the credentials load
TypeFields ==
    /\ form.mode = "fields"
    /\ Edit([form EXCEPT !.database = "typed"])

SubmitForm ==
    /\ dialog.open /\ ~dialog.loading /\ ~dialog.submitting /\ Validates(form)
    /\ formOps.saves < MaxSaves
    /\ dialog.row = NewRow => rows[NewRow] = BlankRow /\ \A s \in rowSaves : s.row # NewRow
    /\ formOps' = [formOps EXCEPT !.saves = @ + 1]
    /\ dialog' = [dialog EXCEPT !.submitting = TRUE]
    /\ rowSaves' = rowSaves \cup
            {[row |-> dialog.row, input |-> ToConnectionInput(form), step |-> "sent",
              call |-> formOps.saves, history |-> Unknown,
              untouched |-> ~dialog.touched, seed |-> dialog.seed]}
    /\ UNCHANGED <<rows, secrets, rowsShown, form, credentialCalls, overlapped, lastSave>>

\* create, or update: validate the merged input, then write the row
SaveRow(s) ==
    LET c == s.row
        fresh == rows[c] = BlankRow
        merged == MergeSecret(s.input, KeptSecret(c, s.input))
        unmoved == s.untouched /\ ~fresh /\ s.seed.row = rows[c] /\ s.seed.secret = secrets[c]
    IN  /\ s \in rowSaves /\ s.step = "sent"
        /\ IF ~Usable(merged)
           THEN /\ rowSaves' = (rowSaves \ {s}) \cup {[s EXCEPT !.step = "failed"]}
                /\ UNCHANGED <<rows, overlapped>>
           ELSE /\ rows' = [rows EXCEPT ![c] =
                        IF fresh THEN NewRowOf(s.input) ELSE UpdatedRow(@, s.input)]
                /\ overlapped' = overlapped \cup {t.row : t \in {u \in rowSaves : u.row = c /\ u.step = "row"}}
                /\ rowSaves' = (rowSaves \ {s}) \cup {[s EXCEPT !.step = "row", !.input = merged, !.history =
                        [tested |-> Tested(c, s.input), unmoved |-> unmoved,
                         before |-> Reaches(SpecFromConnection(rows[c], secrets[c]))]]}
        /\ UNCHANGED <<secrets, rowsShown, dialog, form, credentialCalls, lastSave, formOps>>

\* writeSecret, or deleteSecret when nothing is left of it
SaveSecret(s) ==
    /\ s \in rowSaves /\ s.step = "row"
    /\ secrets' = [secrets EXCEPT ![s.row] = SecretFrom(s.input)]
    /\ rowSaves' = (rowSaves \ {s}) \cup {[s EXCEPT !.step = "done"]}
    /\ lastSave' = [known |-> TRUE, alone |-> s.row \notin overlapped, unmoved |-> s.history.unmoved,
                 tested |-> s.history.tested, before |-> s.history.before,
                 after |-> Reaches(SpecFromConnection(rows[s.row], SecretFrom(s.input)))]
    /\ UNCHANGED <<rows, rowsShown, dialog, form, credentialCalls, overlapped, formOps>>

\* the list is refetched and the dialog closed, whichever row it shows by now
SaveAnswered(s) ==
    /\ s \in rowSaves /\ s.step = "done"
    /\ rowSaves' = rowSaves \ {s}
    /\ rowsShown' = rows
    /\ dialog' = [dialog EXCEPT !.open = FALSE, !.submitting = FALSE, !.token = @ + 1]
    /\ UNCHANGED <<rows, secrets, form, credentialCalls, overlapped, lastSave, formOps>>

SaveFailed(s) ==
    /\ s \in rowSaves /\ s.step = "failed"
    /\ rowSaves' = rowSaves \ {s}
    /\ dialog' = [dialog EXCEPT !.submitting = FALSE]
    /\ UNCHANGED <<rows, secrets, rowsShown, form, credentialCalls, overlapped, lastSave, formOps>>

FormNext ==
    \/ \E c \in FormRows \cup {NewRow} : OpenDialog(c)
    \/ CloseDialog
    \/ \E q \in credentialCalls : CredentialsArrive(q)
    \/ \E q \in credentialCalls : CredentialsFail(q)
    \/ \E d \in FormDialects : PickDialect(d)
    \/ SwitchMode
    \/ TypeUrl
    \/ TypePassword
    \/ TypeFields
    \/ SubmitForm
    \/ \E s \in rowSaves : SaveRow(s)
    \/ \E s \in rowSaves : SaveSecret(s)
    \/ \E s \in rowSaves : SaveAnswered(s)
    \/ \E s \in rowSaves : SaveFailed(s)

(***************************************************************************)
(* Properties.                                                             *)
(***************************************************************************)
SecretWords(s) == {s.password, s.url.password} \ {""}

\* No connection's password or URL turns up in another connection: the form
\* that edits a row holds only that row's secrets and what was typed, and so
\* does the store, though the answers to earlier dialogs arrive late.
RowsKeepTheirSecrets ==
    /\ \A c \in DOMAIN secrets : SecretWords(secrets[c]) \subseteq {c, "typed"}
    /\ dialog.open =>
        SecretWords([password |-> form.password, url |-> form.url]) \subseteq {dialog.row, "typed"}

\* A save connects, unless two saves of its row ever wrote across each other, to the target
\* "Test connection" would have tried for the same form, although the two take
\* different paths (a merged input, and a row with its stored secret).
SavedIsTested == lastSave.known /\ lastSave.alone => lastSave.after = lastSave.tested

\* Opening a connection and saving it as it stands leaves it reaching the same
\* database with the same credentials, also when loading them failed.
UntouchedIsUnchanged ==
    lastSave.known /\ lastSave.alone /\ lastSave.unmoved => lastSave.after = lastSave.before
=============================================================================
