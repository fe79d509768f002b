----------------------------- MODULE Workspace -----------------------------
(* The tab strips of the connections (web lib/store.ts), the routes that     *)
(* open and activate them (lib/nav.ts, routes/, workspace.tsx, the keyboard  *)
(* and palette shortcuts) and the connections screen that enters and deletes *)
(* workspaces (screens/connections.tsx, delete-connection-dialog.tsx).       *)
(*                                                                           *)
(* A store call is an operator from state to state. A navigation is asked    *)
(* for in an event and takes place later; a commit runs the effects whose    *)
(* dependencies changed, the leaf route's before the workspace's, and comes  *)
(* before the next event of the user but on either side of a navigation.     *)
EXTENDS ArrayFilter, Integers, FiniteSets

CONSTANTS
    Connections,    \* connection ids; the least exists from the start
    KindOf,         \* [tab id -> "chat" | "sql" | "table"]; "home" is a chat
    MaxTabOps       \* user operations followed

VARIABLES
    app,            \* useApp: connection, tabsOf, tabs, active, workspaces
    sqlDrafts,      \* connections with an unsaved SQL buffer
    connections,    \* the connections the server holds
    connectionList, \* the connections of the cached connection.list
    titled,         \* connections whose cached threads name the chat
    route,          \* [conn, leaf]: where the router is
    going,          \* where it was last told to go, or Stay
    mounted,        \* dependencies of the effects that ran: [conn, leaf, title]
    opening,        \* connections the connections screen is connecting to
    closed,         \* the tabs closed, as they last were, until another route is reached
    late,           \* deleted connections entered all the same
    tabOps

tabVars == <<app, sqlDrafts, connections, connectionList, titled, route, going, mounted,
             opening, closed, late, tabOps>>

TabIds == DOMAIN KindOf
Nothing == "none"
Home == [conn |-> Nothing, leaf |-> "index"]      \* and the settings screen
Stay == [conn |-> Nothing, leaf |-> Nothing]
RouteAt(c, leaf) == [conn |-> c, leaf |-> leaf]
Unmounted == [conn |-> Nothing, leaf |-> Nothing, title |-> Nothing]

Tab(id, title) == [id |-> id, title |-> title]
Ids(tabs) == {tabs[i].id : i \in DOMAIN tabs}
EmptyWorkspace == [tabs |-> <<>>, active |-> Nothing]

ASSUME TabAssumption ==
    /\ Connections # {} /\ Nothing \notin Connections
    /\ KindOf \in [TabIds -> {"chat", "sql", "table"}] /\ "home" \in TabIds
    /\ KindOf["home"] = "chat" /\ "index" \notin TabIds /\ Nothing \notin TabIds
----------------------------------------------------------------------------
\* The store.
WorkspaceOf(s, c) == IF c \in DOMAIN s.workspaces THEN s.workspaces[c] ELSE EmptyWorkspace

\* The projected tabs, saved as the workspace of the connection they are of.
Project(s, tabs, active) ==
    [s EXCEPT !.tabs = tabs, !.active = active,
              !.workspaces = IF s.tabsOf = Nothing THEN @
                ELSE [c \in DOMAIN @ \cup {s.tabsOf} |->
                        IF c = s.tabsOf THEN [tabs |-> tabs, active |-> active] ELSE @[c]]]

SetConnection(s, c) ==
    IF c = Nothing THEN [s EXCEPT !.connection = Nothing]
    ELSE [s EXCEPT !.connection = c, !.tabsOf = c,
                   !.tabs = WorkspaceOf(s, c).tabs, !.active = WorkspaceOf(s, c).active]

OpenTab(s, t, c) ==
    LET tabs == IF s.tabsOf = c THEN s.tabs ELSE WorkspaceOf(s, c).tabs
    IN Project([s EXCEPT !.tabsOf = c],
               IF t.id \in Ids(tabs)
                 THEN [i \in DOMAIN tabs |-> IF tabs[i].id = t.id THEN t ELSE tabs[i]]
                 ELSE Append(tabs, t),
               t.id)

RenameTab(s, id, title) ==
    IF id \notin Ids(s.tabs) \/ KindOf[id] = "table" \/ s.tabsOf = Nothing THEN s
    ELSE Project(s, [i \in DOMAIN s.tabs |->
                       IF s.tabs[i].id = id THEN Tab(id, title) ELSE s.tabs[i]], s.active)

Without(s, id) == Kept(s.tabs, {t \in Elements(s.tabs) : t.id # id})

\* The tab that is active once id is closed: its left neighbour, else the first.
AfterClose(s, id) ==
    LET rest == Without(s, id)
        place == CHOOSE i \in DOMAIN s.tabs : s.tabs[i].id = id
    IN IF s.active # id THEN s.active
       ELSE IF rest = <<>> THEN Nothing
       ELSE rest[IF place > 1 THEN place - 1 ELSE 1].id

CloseTab(s, id) == Project(s, Without(s, id), AfterClose(s, id))

RestorableTab(s, c) ==
    LET w == WorkspaceOf(s, c)
    IN IF w.tabs = <<>> THEN "home"
       ELSE IF w.active \in Ids(w.tabs) THEN w.active ELSE w.tabs[1].id

RemoveConnectionWorkspace(s, c) ==
    LET left == [d \in DOMAIN s.workspaces \ {c} |-> s.workspaces[d]]
    IN IF s.tabsOf # c THEN [s EXCEPT !.workspaces = left]
       ELSE [s EXCEPT !.workspaces = left, !.tabsOf = Nothing, !.tabs = <<>>,
                      !.active = Nothing]
----------------------------------------------------------------------------
TabInit ==
    /\ app = [connection |-> Nothing, tabsOf |-> Nothing, tabs |-> <<>>,
              active |-> Nothing, workspaces |-> [c \in {} |-> EmptyWorkspace]]
    /\ sqlDrafts = {}
    /\ connections = {CHOOSE c \in Connections : TRUE} /\ connectionList = connections /\ titled = {}
    /\ route = Home /\ going = Stay /\ mounted = Unmounted
    /\ opening = {} /\ closed = {} /\ late = {} /\ tabOps = 0

\* What the routes render.
InWorkspace == route.conn \in connectionList
RouteConnection == IF InWorkspace THEN route.conn ELSE Nothing

\* chat and sql leaves fall back on the title of the open tab, then on their own.
LeafTitle(s, c, id) ==
    IF KindOf[id] = "table" THEN ""
    ELSE IF KindOf[id] = "chat" /\ c \in titled THEN "server"
    ELSE IF id \in Ids(s.tabs) THEN (CHOOSE t \in Elements(s.tabs) : t.id = id).title
    ELSE "default"

RouteRendered ==
    IF ~InWorkspace THEN Unmounted
    ELSE IF route.leaf = "index" THEN [conn |-> route.conn, leaf |-> "index", title |-> ""]
    ELSE [conn |-> route.conn, leaf |-> route.leaf, title |-> LeafTitle(app, route.conn, route.leaf)]

Settled == mounted = RouteRendered /\ app.connection = RouteConnection

\* The effects of a render: useRegisterTab's, then the workspace's setConnection
\* and the adoption of the threads' titles.
Commit ==
    LET registered ==
          IF RouteRendered # mounted /\ RouteRendered.leaf \in TabIds
            THEN OpenTab(app, Tab(RouteRendered.leaf, RouteRendered.title), RouteRendered.conn) ELSE app
        entered ==
          IF registered.connection = RouteConnection THEN registered
          ELSE SetConnection(registered, RouteConnection)
    IN /\ ~Settled
       /\ app' = IF RouteConnection \in titled THEN RenameTab(entered, "home", "server")
                 ELSE entered
       /\ mounted' = RouteRendered
       /\ UNCHANGED <<sqlDrafts, connections, connectionList, titled, route, going, opening,
                      closed, late, tabOps>>

\* The router arrives where it was last told to go, once the route it is at has
\* been committed.
Navigated ==
    /\ going # Stay
    /\ mounted.conn = RouteRendered.conn /\ mounted.leaf = RouteRendered.leaf
    /\ route' = going /\ going' = Stay
    /\ late' = IF going.conn \in connections \cup {Nothing} THEN late ELSE late \cup {going.conn}
    /\ closed' = IF going = route THEN closed ELSE {}
    /\ UNCHANGED <<app, sqlDrafts, connections, connectionList, titled, mounted, opening, tabOps>>

User == Settled /\ tabOps < MaxTabOps /\ tabOps' = tabOps + 1

InStrip == User /\ InWorkspace /\ UNCHANGED <<sqlDrafts, connections, connectionList, titled, route,
                                              mounted, opening, late>>

\* useOpenTab: the tree, the palette, the shortcuts, "Ask about this table".
OpenFromUi(id, title) ==
    /\ app' = OpenTab(app, Tab(id, title), route.conn)
    /\ going' = RouteAt(route.conn, id)
    /\ UNCHANGED closed
    /\ InStrip

\* A click in the strip, and the next and previous tab of the keyboard.
ActivateTab(i) ==
    /\ i \in DOMAIN app.tabs
    /\ app' = OpenTab(app, app.tabs[i], route.conn)
    /\ going' = RouteAt(route.conn, app.tabs[i].id)
    /\ UNCHANGED closed
    /\ InStrip

\* useCloseTab: only the active tab's end navigates.
CloseFromUi(id) ==
    /\ id \in Ids(app.tabs)
    /\ app' = CloseTab(app, id)
    /\ going' = IF app.active # id THEN going
                ELSE RouteAt(route.conn, IF AfterClose(app, id) = Nothing THEN "index"
                                    ELSE AfterClose(app, id))
    /\ closed' = {t \in closed : t.id # id} \cup {t \in Elements(app.tabs) : t.id = id}
    /\ InStrip

TypeSql ==
    /\ User /\ InWorkspace /\ route.leaf \in TabIds /\ KindOf[route.leaf] = "sql"
    /\ sqlDrafts' = sqlDrafts \cup {route.conn}
    /\ UNCHANGED <<app, connections, connectionList, titled, route, going, mounted, opening, closed, late>>

\* Links to the connections, the settings, another connection's chat.
Navigate(place) ==
    /\ User /\ place # route
    /\ place = Home \/ place.conn \in connectionList
    /\ going' = place
    /\ UNCHANGED <<app, sqlDrafts, connections, connectionList, titled, route, mounted, opening,
                   closed, late>>

ThreadsArrive(c) ==
    /\ InWorkspace /\ route.conn = c /\ c \notin titled
    /\ titled' = titled \cup {c}
    /\ app' = IF mounted.conn = c THEN RenameTab(app, "home", "server") ELSE app
    /\ UNCHANGED <<sqlDrafts, connections, connectionList, route, going, mounted, opening,
                   closed, late, tabOps>>
----------------------------------------------------------------------------
\* The connections screen.
OnHome == User /\ route = Home /\ UNCHANGED <<app, sqlDrafts, titled, route, going,
                                              mounted, closed, late>>

Connect(c) ==
    /\ c \in connectionList \ opening
    /\ opening' = opening \cup {c}
    /\ UNCHANGED <<connections, connectionList>>
    /\ OnHome

\* The form's onSaved opens a new connection once the list has it.
Create(c) ==
    /\ c \notin connections /\ c \notin DOMAIN app.workspaces
    /\ connections' = connections \cup {c} /\ connectionList' = connections' /\ opening' = opening \cup {c}
    /\ OnHome

\* An answer navigates even if the user has left the screen meanwhile.
ConnectSucceeds(c) ==
    /\ c \in opening
    /\ opening' = opening \ {c}
    /\ going' = RouteAt(c, RestorableTab(app, c))
    /\ UNCHANGED <<app, sqlDrafts, connections, connectionList, titled, route, mounted, closed, late,
                   tabOps>>

ConnectFails(c) ==
    /\ c \in opening
    /\ opening' = opening \ {c}
    /\ UNCHANGED <<app, sqlDrafts, connections, connectionList, titled, route, going, mounted,
                   closed, late, tabOps>>

\* The dialog removes on the server, forgets the workspace, then reloads the list.
Delete(c) ==
    /\ User /\ route = Home /\ c \in connections \cap connectionList
    /\ connections' = connections \ {c}
    /\ app' = RemoveConnectionWorkspace(app, c)
    /\ sqlDrafts' = sqlDrafts \ {c}
    /\ UNCHANGED <<connectionList, titled, route, going, mounted, opening, closed, late>>

ListArrives ==
    /\ connectionList # connections
    /\ connectionList' = connections
    /\ UNCHANGED <<app, sqlDrafts, connections, titled, route, going, mounted, opening,
                   closed, late, tabOps>>

\* A reload keeps what is in localStorage: the workspaces and the drafts.
Reload ==
    /\ tabOps < MaxTabOps /\ tabOps' = tabOps + 1
    /\ app' = [app EXCEPT !.connection = Nothing, !.tabsOf = Nothing, !.tabs = <<>>,
                          !.active = Nothing]
    /\ connectionList' = {} /\ titled' = {} /\ mounted' = Unmounted /\ opening' = {} /\ going' = Stay
    /\ closed' = {}
    /\ UNCHANGED <<sqlDrafts, connections, route, late>>

TabNext ==
    \/ Commit \/ Navigated
    \/ \E id \in TabIds : OpenFromUi(id, IF KindOf[id] = "table" THEN "" ELSE "given")
    \/ \E i \in 1..Cardinality(TabIds) : ActivateTab(i)
    \/ \E id \in TabIds : CloseFromUi(id)
    \/ TypeSql \/ ListArrives \/ Reload
    \/ \E c \in Connections :
          \/ Navigate(RouteAt(c, "home")) \/ ThreadsArrive(c)
          \/ Connect(c) \/ Create(c) \/ ConnectSucceeds(c) \/ ConnectFails(c) \/ Delete(c)
    \/ Navigate(Home)
----------------------------------------------------------------------------
(* The strip on screen is the one saved for its connection, in every         *)
(* workspace a tab appears once and the active one is open, and once the     *)
(* effects of a leaf route have run its tab is the active one of its own     *)
(* connection, unless the navigation that closing it asked for was overtaken *)
(* by another to the same place (store.ts:81-190, nav.ts:33-54).             *)
StripsAreSound ==
    /\ app.tabsOf # Nothing =>
         WorkspaceOf(app, app.tabsOf) = [tabs |-> app.tabs, active |-> app.active]
    /\ \A c \in DOMAIN app.workspaces :
         LET w == app.workspaces[c]
         IN /\ Cardinality(Ids(w.tabs)) = Len(w.tabs)
            /\ w.active \in Ids(w.tabs) \cup {Nothing}
    /\ (Settled /\ going = Stay /\ InWorkspace) =>
         /\ app.tabsOf = route.conn
         /\ (route.leaf \in TabIds /\ \A t \in closed : t.id # route.leaf) => app.active = route.leaf

(* A closed tab comes back, its leaf still mounted while the navigation away *)
(* is under way, only under another title: closing it took away the title it *)
(* was opened with, or the threads came with a new one, and the leaf's       *)
(* effect ran again (nav.ts:33-39, c.$connectionId.sql.$queryId.tsx).        *)
ClosedTabsStayClosed ==
    [][tabOps' = tabOps =>
         \A t \in closed : t.id \notin Ids(app.tabs) => t \notin Elements(app'.tabs)]_tabVars

(* Nothing is kept of a deleted connection, unless its workspace is entered  *)
(* after the deletion from the list not yet reloaded, by a connect answered  *)
(* late or from the palette (connections.tsx:131-150, store.ts:183-190).     *)
NothingOfTheDeleted ==
    \A c \in Connections \ connections :
        /\ c \notin sqlDrafts \/ c \in late
        /\ c \notin DOMAIN app.workspaces \/ c \in late
=============================================================================
