----------------------------- MODULE TableView -----------------------------
(* The table browser (screens/table-view.tsx) and the grid it drives         *)
(* (shared/data-grid.tsx): paging, sort and filters make the key of a        *)
(* react-query entry (rpc/table.ts), the page of the previous key stays on   *)
(* screen until the new one arrives, rows are selected by their place in the *)
(* page, and the row menu acts on rows.                                      *)
(*                                                                           *)
(* A row is [page, at]: the code builds new record objects for every page    *)
(* object, and react-query keeps the page object when a refetch answers the  *)
(* same data, so two rows are one object exactly when their pages are equal. *)
EXTENDS ArrayFilter, Integers, FiniteSets

CONSTANTS
    TableColumns,   \* [column -> "int" | "bool" | "text"]
    PageSizes,      \* the page sizes the settings offer
    Totals,         \* how many rows the server may count
    MaxViewOps      \* user operations followed

ASSUME ViewAssumption == PageSizes \subseteq Nat \ {0} /\ Totals \subseteq Nat

VARIABLES
    view,           \* the tab: "data" | "structure"
    q,              \* the page filter hides the first row, or nothing
    sort, viewFilters, offset, pageSize,
    where, conditions,  \* the where builder is open, and its rows
    detail,         \* schema.table has answered
    pages,          \* the pages the query cache holds, at most one per key
    prev,           \* the page last shown as data of its own key
    fetch,          \* the current key's request: "idle" | "asked" | "failed"
    selected,       \* the grid: selected places in the page
    anchor,         \* the grid: where a shift-click starts
    selectedRows,   \* the screen: the rows the grid last reported
    menu,           \* the place whose context menu is open
    viewOps

viewVars == <<view, q, sort, viewFilters, offset, pageSize, where, conditions, detail, pages,
              prev, fetch, selected, anchor, selectedRows, menu, viewOps>>

NoRow == 0
NoPage == [count |-> 0]
----------------------------------------------------------------------------
\* The query of the current toolbar state, and the page it shows.
Key == [offset |-> offset, limit |-> pageSize, sort |-> sort, filters |-> viewFilters]
Cached == {p \in pages : p.key = Key}
Shown ==
    IF Cached # {} THEN CHOOSE p \in Cached : TRUE
    ELSE IF fetch = "failed" THEN NoPage ELSE prev

Columns == IF Shown # NoPage \/ detail THEN DOMAIN TableColumns ELSE {}

Mounted == view = "data" /\ ~(fetch = "failed" /\ Shown = NoPage)
ResetKey == <<offset, sort, viewFilters>>

Row(p, i) == [page |-> p, at |-> i]
Visible == {i \in 1..Shown.count : ~(q /\ i = 1)}
RowAt(n) == IF q THEN n + 1 ELSE n          \* the n-th row of the row model

\* The rows the menu of row i copies, inserts or exports.
Targets(i) ==
    IF Row(Shown, i) \in selectedRows THEN selectedRows ELSE {Row(Shown, i)}

To == offset + Shown.count
HasNext ==
    IF Shown # NoPage THEN To < Shown.total
    ELSE detail /\ \E estimate \in Totals : To < estimate
----------------------------------------------------------------------------
\* The where builder. A text is the sequence of its comma-separated pieces,
\* each with the blanks before it.
Piece(pad, word) == [pad |-> pad, word |-> word]
TypedTexts == {<<>>, <<Piece(1, "1")>>, <<Piece(0, "1"), Piece(1, "x")>>}

Coerce(piece, type) ==
    IF type = "bool"
      THEN [pad |-> 0, word |-> IF piece.word \in {"true", "1"} THEN "true" ELSE "false"]
    ELSE IF type = "int" /\ piece.word = "1" THEN [pad |-> 0, word |-> "1"]
    ELSE piece

CoerceWhole(text, type) ==
    IF Len(text) = 1 THEN <<Coerce(text[1], type)>>
    ELSE IF type = "bool" THEN <<[pad |-> 0, word |-> "false"]>>
    ELSE text

TypeOf(column) == IF column \in Columns THEN TableColumns[column] ELSE "text"

FilterOf(d) ==
    [column |-> d.column, op |-> d.op,
     value |-> CASE d.op = "is_null" -> <<>>
                 [] d.op = "in" -> [i \in DOMAIN d.value |-> Coerce(d.value[i], TypeOf(d.column))]
                 [] OTHER -> CoerceWhole(d.value, TypeOf(d.column))]

ToFilterSpecs(rows) ==
    LET complete == {d \in Elements(rows) : d.column # "" /\ (d.op = "is_null" \/ d.value # <<>>)}
        done == Kept(rows, complete)
    IN [i \in DOMAIN done |-> FilterOf(done[i])]

\* Array values are joined with a comma and a blank.
Joined(values) ==
    [i \in DOMAIN values |->
        IF i = 1 THEN values[i] ELSE [values[i] EXCEPT !.pad = @ + 1]]

FirstColumn == IF Columns = {} THEN "" ELSE CHOOSE c \in Columns : TRUE
Blank == [column |-> FirstColumn, op |-> "eq", value |-> <<>>]

Seed(specs) ==
    IF specs = <<>> THEN <<Blank>>
    ELSE [i \in DOMAIN specs |->
            [specs[i] EXCEPT !.value = IF specs[i].op = "in" THEN Joined(@) ELSE @]]
----------------------------------------------------------------------------
ViewInit ==
    /\ view = "data" /\ q = FALSE /\ sort = <<>> /\ viewFilters = <<>> /\ offset = 0
    /\ pageSize \in PageSizes
    /\ where = FALSE /\ conditions = <<>> /\ detail = FALSE
    /\ pages = {} /\ prev = NoPage /\ fetch = "asked"
    /\ selected = {} /\ anchor = NoRow /\ selectedRows = {} /\ menu = NoRow
    /\ viewOps = 0

\* A render: the request of a new key starts, an unmounted grid loses its
\* state, and a mounted one clears its selection when its reset key changes.
Rendered ==
    /\ IF ~Mounted'
         THEN selected' = {} /\ anchor' = NoRow /\ UNCHANGED selectedRows
       ELSE IF ~Mounted
         THEN selected' = {} /\ anchor' = NoRow /\ selectedRows' = {}
       ELSE IF ResetKey' # ResetKey
         THEN selected' = {} /\ selectedRows' = {} /\ UNCHANGED anchor
       ELSE UNCHANGED <<selected, anchor, selectedRows>>
    /\ menu' = IF Mounted' /\ menu \in Visible' THEN menu ELSE NoRow

Asked == fetch' = IF Key' # Key THEN "asked" ELSE fetch

\* The page of the current key becomes the one a later key shows meanwhile.
Remembered == prev' = IF Cached # {} THEN Shown ELSE prev

Op == viewOps < MaxViewOps /\ viewOps' = viewOps + 1

Toolbar == Op /\ menu = NoRow /\ UNCHANGED <<detail, pages>> /\ Asked /\ Remembered /\ Rendered
Closed == ~where /\ UNCHANGED <<where, conditions>>
----------------------------------------------------------------------------
\* Leaving for another screen, the settings among them, unmounts the screen;
\* the query cache survives.
Reopen(n) ==
    /\ Op /\ menu = NoRow
    /\ view' = "data" /\ q' = FALSE /\ sort' = <<>> /\ viewFilters' = <<>> /\ offset' = 0
    /\ pageSize' = n
    /\ where' = FALSE /\ conditions' = <<>>
    /\ prev' = NoPage /\ fetch' = "asked"
    /\ selected' = {} /\ anchor' = NoRow /\ selectedRows' = {} /\ menu' = NoRow
    /\ UNCHANGED <<detail, pages>>

NextSort(column, additive) ==
    LET its == {s \in Elements(sort) : s.column = column}
        now == Kept(sort, its)
        next == IF now = <<>> THEN <<[column |-> column, dir |-> "asc"]>>
                ELSE IF now[1].dir = "asc" THEN <<[column |-> column, dir |-> "desc"]>>
                ELSE <<>>
    IN IF additive THEN Kept(sort, Elements(sort) \ its) \o next ELSE next

ToggleSort(column, additive) ==
    /\ Mounted /\ column \in Columns
    /\ sort' = NextSort(column, additive) /\ offset' = 0
    /\ UNCHANGED <<view, q, viewFilters, pageSize>>
    /\ Closed /\ Toolbar

PrevPage ==
    /\ Mounted /\ offset # 0
    /\ offset' = IF offset > pageSize THEN offset - pageSize ELSE 0
    /\ UNCHANGED <<view, q, sort, viewFilters, pageSize>>
    /\ Closed /\ Toolbar

NextPage ==
    /\ Mounted /\ HasNext
    /\ offset' = offset + pageSize
    /\ UNCHANGED <<view, q, sort, viewFilters, pageSize>>
    /\ Closed /\ Toolbar

SetView(v) ==
    /\ v # view
    /\ view' = v
    /\ UNCHANGED <<q, sort, viewFilters, offset, pageSize>>
    /\ Closed /\ Toolbar

FilterPage ==
    /\ q' = ~q
    /\ UNCHANGED <<view, sort, viewFilters, offset, pageSize>>
    /\ Closed /\ Toolbar

OpenWhere ==
    /\ ~where
    /\ where' = TRUE /\ conditions' = Seed(viewFilters)
    /\ UNCHANGED <<view, q, sort, viewFilters, offset, pageSize>>
    /\ Toolbar

EditDraft(i, column, op, text) ==
    /\ where /\ i \in DOMAIN conditions /\ column \in Columns
    /\ conditions' = [conditions EXCEPT ![i] = [column |-> column, op |-> op, value |-> text]]
    /\ UNCHANGED <<view, q, sort, viewFilters, offset, pageSize, where>>
    /\ Toolbar

AddCondition ==
    /\ where
    /\ conditions' = Append(conditions, Blank)
    /\ UNCHANGED <<view, q, sort, viewFilters, offset, pageSize, where>>
    /\ Toolbar

RemoveCondition(i) ==
    /\ where /\ i \in DOMAIN conditions
    /\ conditions' = [n \in 1..(Len(conditions) - 1) |-> conditions[IF n < i THEN n ELSE n + 1]]
    /\ UNCHANGED <<view, q, sort, viewFilters, offset, pageSize, where>>
    /\ Toolbar

\* A press outside closes the builder and forgets its rows.
DismissWhere ==
    /\ where
    /\ where' = FALSE /\ conditions' = <<>>
    /\ UNCHANGED <<view, q, sort, viewFilters, offset, pageSize>>
    /\ Toolbar

\* Apply, and Clear, which applies no filter.
ApplyFilters(next) ==
    /\ where
    /\ viewFilters' = next /\ offset' = 0
    /\ where' = FALSE /\ conditions' = <<>>
    /\ UNCHANGED <<view, q, sort, pageSize>>
    /\ Toolbar
----------------------------------------------------------------------------
\* The grid: the caller hears of a new selection after the render.
Select(places) ==
    /\ selected' = places
    /\ selectedRows' = {Row(Shown, i) : i \in places \cap Visible}

Grid ==
    /\ Op /\ Mounted /\ ~where
    /\ UNCHANGED <<view, q, sort, viewFilters, offset, pageSize, where, conditions, detail,
                   pages, prev, fetch>>

\* The slice of the row model between two places: with a page filter its rows
\* are not the ones at these places.
Between(from, to) == {RowAt(n) : n \in from..to} \cap Visible

ClickRow(i, shift) ==
    /\ i \in Visible /\ menu = NoRow
    /\ anchor' = i
    /\ IF shift /\ anchor # NoRow
         THEN Select(IF anchor < i THEN Between(anchor, i) ELSE Between(i, anchor))
         ELSE Select(IF i \in selected THEN selected \ {i} ELSE selected \cup {i})
    /\ Grid /\ UNCHANGED menu

ToggleAll ==
    /\ menu = NoRow
    /\ Select(IF Visible # {} /\ Cardinality(selected) = Cardinality(Visible)
                THEN {} ELSE Visible)
    /\ Grid /\ UNCHANGED <<anchor, menu>>

OpenMenu(i) ==
    /\ i \in Visible
    /\ menu' = i
    /\ IF i \in selected THEN UNCHANGED <<anchor, selected, selectedRows>>
       ELSE anchor' = i /\ Select({i})
    /\ Grid

CloseMenu ==
    /\ menu # NoRow
    /\ menu' = NoRow
    /\ Grid /\ UNCHANGED <<anchor, selected, selectedRows>>
----------------------------------------------------------------------------
\* The refresh button: every page of the table is stale, the shown one is asked
\* for again. ErrorBanner's retry asks for the same.
Refresh ==
    /\ fetch' = "asked"
    /\ UNCHANGED <<view, q, sort, viewFilters, offset, pageSize, where, conditions, prev, detail, pages>>
    /\ Op /\ menu = NoRow /\ Rendered

DetailArrives ==
    /\ ~detail /\ detail' = TRUE
    /\ UNCHANGED <<view, q, sort, viewFilters, offset, pageSize, where, conditions, prev, pages,
                   fetch, viewOps>>
    /\ Rendered

\* Only the request of the current key is alive: the observer's departure
\* aborts the one of another key.
\* An answer equal to the cached one keeps its page object.
PageArrives(total, changed) ==
    /\ fetch = "asked" /\ fetch' = "idle"
    /\ LET left == IF total > offset THEN total - offset ELSE 0
           page == [key |-> Key, total |-> total, version |-> 0,
                    count |-> IF left < pageSize THEN left ELSE pageSize]
           newer == {[page EXCEPT !.version = p.version + 1] :
                       p \in {c \in Cached : changed \/ c.total # total}}
       IN pages' = (pages \ Cached) \cup
                    (IF Cached = {} THEN {page} ELSE IF newer # {} THEN newer ELSE Cached)
    /\ UNCHANGED <<view, q, sort, viewFilters, offset, pageSize, where, conditions, prev, detail, viewOps>>
    /\ Rendered

PageFails ==
    /\ fetch = "asked" /\ fetch' = "failed"
    /\ UNCHANGED <<view, q, sort, viewFilters, offset, pageSize, where, conditions, prev, detail,
                   pages, viewOps>>
    /\ Rendered

ViewNext ==
    \/ \E n \in PageSizes : Reopen(n)
    \/ \E c \in DOMAIN TableColumns, additive \in BOOLEAN : ToggleSort(c, additive)
    \/ PrevPage \/ NextPage \/ FilterPage
    \/ \E v \in {"data", "structure"} : SetView(v)
    \/ OpenWhere \/ AddCondition \/ DismissWhere
    \/ \E i \in 1..2, c \in DOMAIN TableColumns, op \in {"eq", "in", "is_null"}, t \in TypedTexts :
          EditDraft(i, c, op, t)
    \/ \E i \in 1..2 : RemoveCondition(i)
    \/ ApplyFilters(ToFilterSpecs(conditions))
    \/ ApplyFilters(<<>>)
    \/ \E i \in 1..3, shift \in BOOLEAN : ClickRow(i, shift)
    \/ ToggleAll \/ CloseMenu \/ Refresh \/ DetailArrives \/ PageFails
    \/ \E i \in 1..3 : OpenMenu(i)
    \/ \E total \in Totals, changed \in BOOLEAN : PageArrives(total, changed)
----------------------------------------------------------------------------
(* The row menu acts on the row it was opened on and on no row that is not   *)
(* highlighted in the page on screen, whatever page has replaced the one the *)
(* rows were selected in (table-view.tsx:316, data-grid.tsx:186-190).        *)
ActsOnWhatIsShown ==
    menu # NoRow =>
        /\ Row(Shown, menu) \in Targets(menu)
        /\ Targets(menu) \subseteq {Row(Shown, i) : i \in selected \cap 1..Shown.count}

(* A page starts at a multiple of its size, so the page number shown is the  *)
(* page asked for, and a column is sorted by at most once                    *)
(* (table-view.tsx:293-302, 348-358, 382).                                   *)
PagingIsAligned ==
    /\ offset % pageSize = 0
    /\ \A i, j \in DOMAIN sort : sort[i].column = sort[j].column => i = j

(* Applying the where builder's rows, opening it again and applying it        *)
(* unchanged asks for the same rows, except that a list of texts gains a     *)
(* blank before every value after the first (table-view.tsx:96-133).         *)
ReapplyKeepsFilters ==
    LET once == ToFilterSpecs(conditions)
        again == ToFilterSpecs(Seed(once))
        Words(f) == [f EXCEPT !.value = [n \in DOMAIN @ |-> @[n].word]]
    IN (where /\ Columns # {}) =>
        /\ DOMAIN again = DOMAIN once
        /\ \A i \in DOMAIN once :
              \/ again[i] = once[i]
              \/ /\ once[i].op = "in" /\ Words(again[i]) = Words(once[i])
                 /\ again[i].value[1] = once[i].value[1]
=============================================================================
