--------------------------- MODULE DesktopProofs ---------------------------
(***************************************************************************)
(* What holds of the desktop app for every number of restarts, calls and   *)
(* versions.  The supervisor and the updater have an invariant each: a     *)
(* step of one leaves the other's variables alone, but for the quit that   *)
(* an install asks for.                                                    *)
(***************************************************************************)
EXTENDS Desktop, TLAPS

\* main.ts has its sidecar exactly while the app runs; a server that was told
\* to stop is on its way out, and a spawn that is due has no child before it.
SidecarInv ==
  /\ SidecarTypeOK
  /\ sidecar <=> main = "running"
  /\ quitting => main \in {"stopping", "gone"}
  /\ main = "starting" => ~started
  /\ stopping => main \in {"stopping", "gone"} /\ child # "up"
  /\ main = "stopping" => child = "terminating"
  /\ timer => child = "dead"
  /\ ServerEndsWithApp

\* The call that works has the status to itself, and a version that is
\* offered, fetched or staged is the one that is shown.
UpdaterInv ==
  /\ UpdaterTypeOK
  /\ OneCallWorks
  /\ \A c \in Calls :
       /\ place[c] \in {"offer", "refetch"} => status = "available"
       /\ place[c] = "file" => status = "downloading"
       /\ place[c] = "restart" => status = "ready"
  /\ status \in {"available", "downloading", "ready"} => latest \in 1..MaxVersion
  /\ status = "ready" => staged = latest /\ ~busy
  /\ swaps # {} => status = "ready" /\ swaps = {latest}

IInv == SidecarInv /\ UpdaterInv /\ installed \in Version
-----------------------------------------------------------------------------
(* The supervisor.                                                         *)

\* The bundle swap and the updater leave the supervisor's variables alone.
LEMMA SidecarStutter ==
  ASSUME SidecarInv, UNCHANGED sidecarVars
  PROVE  SidecarInv'
  BY DEF SidecarInv, SidecarTypeOK, ServerEndsWithApp, sidecarVars, shellVars, childVars

\* before-quit stops the server of a running app, and lets every other go.
LEMMA BeforeQuitKeepsInv ==
  ASSUME SidecarInv, main # "gone", BeforeQuit,
         UNCHANGED <<platform, smoke, started, aborted, restarts, timer>>, window' \in BOOLEAN
  PROVE  SidecarInv'
  <1> USE DEF SidecarInv, SidecarTypeOK, ServerEndsWithApp, BeforeQuit, Stop
  <1>1. CASE quitting \/ ~sidecar
    BY <1>1
  <1>2. CASE ~quitting /\ sidecar
    BY <1>2
  <1>. QED  BY <1>1, <1>2

\* fatal does the same, from start-up too.
LEMMA FatalKeepsInv ==
  ASSUME SidecarInv, main # "gone", Fatal, ~stopping,
         UNCHANGED <<platform, smoke, window, quitting, started, aborted, restarts>>,
         timer' \in BOOLEAN, timer' => timer
  PROVE  SidecarInv'
  <1> USE DEF SidecarInv, SidecarTypeOK, ServerEndsWithApp, Fatal, Stop
  <1>1. CASE sidecar
    BY <1>1
  <1>2. CASE ~sidecar
    BY <1>2
  <1>. QED  BY <1>1, <1>2

LEMMA SidecarStep ==
  ASSUME SidecarInv, SidecarNext
  PROVE  SidecarInv'
  <1> USE MaxRestartsIsNat DEF SidecarInv
  <1>1. CASE Healthy
    BY <1>1 DEF Healthy, SidecarTypeOK, ServerEndsWithApp
  <1>2. CASE StartFails
    BY <1>2, FatalKeepsInv DEF StartFails, SidecarTypeOK
  <1>3. CASE ChildExits
    <2>1. CASE restarts >= MAX_RESTARTS
      BY <1>3, <2>1 DEF ChildExits, SidecarTypeOK, ServerEndsWithApp
    <2>2. CASE ~(restarts >= MAX_RESTARTS)
      BY <1>3, <2>2 DEF ChildExits, SidecarTypeOK, ServerEndsWithApp
    <2>. QED  BY <2>1, <2>2
  <1>4. CASE Spawn
    BY <1>4 DEF Spawn, shellVars, SidecarTypeOK, ServerEndsWithApp
  <1>5. CASE SpawnFails
    <2>1. CASE stopping
      BY <1>5, <2>1 DEF SpawnFails, SidecarTypeOK, ServerEndsWithApp
    <2>2. CASE ~stopping
      BY <1>5, <2>2, FatalKeepsInv DEF SpawnFails, SidecarTypeOK
    <2>. QED  BY <2>1, <2>2
  <1>6. CASE ChildStopped
    BY <1>6 DEF ChildStopped, SidecarTypeOK, ServerEndsWithApp
  <1>7. CASE Quit
    BY <1>7, BeforeQuitKeepsInv DEF Quit, SidecarTypeOK
  <1>8. CASE CloseWindow
    <2>1. CASE platform = "darwin" /\ ~smoke
      BY <1>8, <2>1 DEF CloseWindow, SidecarTypeOK, ServerEndsWithApp
    <2>2. CASE ~(platform = "darwin" /\ ~smoke)
      BY <1>8, <2>2, BeforeQuitKeepsInv DEF CloseWindow, SidecarTypeOK
    <2>. QED  BY <2>1, <2>2
  <1>9. CASE Activate
    BY <1>9 DEF Activate, childVars, SidecarTypeOK, ServerEndsWithApp
  <1>10. CASE SmokeEnds
    <2>1. CASE BeforeQuit
      BY <1>10, <2>1, BeforeQuitKeepsInv DEF SmokeEnds, SidecarTypeOK
    <2>2. CASE Fatal /\ UNCHANGED quitting
      BY <1>10, <2>2, FatalKeepsInv DEF SmokeEnds, SidecarTypeOK
    <2>. QED  BY <1>10, <2>1, <2>2 DEF SmokeEnds
  <1>. QED  BY <1>1, <1>2, <1>3, <1>4, <1>5, <1>6, <1>7, <1>8, <1>9, <1>10 DEF SidecarNext, ServerNext

-----------------------------------------------------------------------------
(* The updater.                                                            *)

LEMMA UpdaterStutter ==
  ASSUME UpdaterInv, UNCHANGED updaterVars
  PROVE  UpdaterInv'
  BY DEF UpdaterInv, UpdaterTypeOK, OneCallWorks, Working, updaterVars

\* The calls of one step: the place of the others stays as it is.
LEMMA CallMoves ==
  ASSUME UpdaterInv, NEW c \in Calls, NEW p \in Place, At(c, p)
  PROVE  /\ place' \in [Calls -> Place] /\ place'[c] = p
         /\ \A d \in Calls : d # c => place'[d] = place[d]
  BY DEF UpdaterInv, UpdaterTypeOK, At

\* A call that claims the free updater, or goes on with it, is its one call;
\* one that is over leaves it free.
LEMMA OneCallStep ==
  ASSUME UpdaterInv, NEW c \in Calls, NEW p \in Place, At(c, p),
         c \in Working \/ ~busy,
         busy' \in BOOLEAN,
         busy' <=> p \in {"fetch", "refetch", "file", "offer", "notice"}
  PROVE  OneCallWorks'
  <1> USE DEF UpdaterInv, OneCallWorks, Working
  <1>1. \A d \in Calls : d # c => d \notin Working /\ d \notin Working'
    BY CallMoves
  <1>2. c \in Working' <=> busy'
    BY CallMoves
  <1>. QED  BY <1>1, <1>2

\* What is left of the invariant once the call that moves is known: its place
\* against the status and the version.
LEMMA StatusStep ==
  ASSUME UpdaterInv, NEW c \in Calls, NEW p \in Place, At(c, p), OneCallWorks', UpdaterTypeOK',
         \/ UNCHANGED status
         \/ /\ c \in Working \/ ~busy
            /\ status # "ready",
         p \in {"offer", "refetch"} => status' = "available",
         p = "file" => status' = "downloading",
         p = "restart" => status' = "ready",
         status' \in {"available", "downloading", "ready"} => latest' \in 1..MaxVersion,
         status' = "ready" => staged' = latest' /\ ~busy',
         swaps' # {} => status' = "ready" /\ swaps' = {latest'}
  PROVE  UpdaterInv'
  <1> USE DEF UpdaterInv, OneCallWorks, Working
  <1>1. ASSUME NEW d \in Calls
        PROVE  /\ place'[d] \in {"offer", "refetch"} => status' = "available"
               /\ place'[d] = "file" => status' = "downloading"
               /\ place'[d] = "restart" => status' = "ready"
    <2>1. CASE d = c
      BY <2>1, CallMoves
    <2>2. CASE d # c
      BY <2>2, CallMoves
    <2>. QED  BY <2>1, <2>2
  <1>. QED  BY <1>1

LEMMA NoVersionIsNew == NoVersion \notin Version
  BY MaxVersionIsNat DEF NoVersion, Version

\* The answers of a check: the menu's call shows a dialog, the silent one ends.
LEMMA AnswerKeepsInv ==
  ASSUME UpdaterInv, NEW c \in Calls, NEW k, NEW d \in {"offer", "notice"}, Answered(c, k, d),
         c \in Working \/ ~busy,
         status # "ready",
         status' \in {"idle", "available", "checking", "error"},
         d = "offer" => status' = "available",
         latest' \in Version \cup {NoVersion},
         status' = "available" => latest' \in 1..MaxVersion,
         kind' \in [Calls -> Kind],
         UNCHANGED <<bundle, published, staged, swaps>>
  PROVE  UpdaterInv'
  <1> USE DEF UpdaterInv
  <1>1. PICK p \in {d, "done"} : At(c, p) /\ busy' = (p = d)
    BY DEF Answered
  <1>2. p \in Place
    BY DEF Place
  <1>3. OneCallWorks'
    BY <1>1, <1>2, OneCallStep
  <1>4. UpdaterTypeOK'
    BY <1>1, <1>2, CallMoves DEF UpdaterTypeOK, Status
  <1>. QED  BY <1>1, <1>2, <1>3, <1>4, StatusStep

\* A call that goes on or ends: nothing else of it is in the way.
LEMMA CallKeepsInv ==
  ASSUME UpdaterInv, NEW c \in Calls, NEW p \in Place, At(c, p),
         c \in Working \/ ~busy,
         busy' \in BOOLEAN,
         busy' <=> p \in {"fetch", "refetch", "file", "offer", "notice"},
         status' \in Status,
         kind' \in [Calls -> Kind],
         \/ UNCHANGED status
         \/ status # "ready",
         p \in {"offer", "refetch"} => status' = "available",
         p = "file" => status' = "downloading",
         p = "restart" => status' = "ready",
         status' \in {"available", "downloading", "ready"} => status \in {"available", "downloading", "ready"},
         status' = "ready" => ~busy',
         \/ UNCHANGED staged
         \/ staged' = latest,
         status' = "ready" => staged' = latest,
         UNCHANGED <<bundle, published, latest, swaps>>
  PROVE  UpdaterInv'
  <1> USE DEF UpdaterInv
  <1>1. OneCallWorks'
    BY OneCallStep
  <1>2. UpdaterTypeOK'
    BY CallMoves DEF UpdaterTypeOK
  <1>3. swaps' # {} => status' = "ready" /\ swaps' = {latest'}
    OBVIOUS
  <1>4. status' \in {"available", "downloading", "ready"} => latest' \in 1..MaxVersion
    OBVIOUS
  <1>. QED  BY <1>1, <1>2, <1>3, <1>4, StatusStep

\* A call that is refused, and one that ends behind the ready update, leave
\* everything but their own place as it is.
LEMMA BusyCheckKeepsInv ==
  ASSUME UpdaterInv, NEW c \in Calls, c \notin Working, At(c, "done"),
         kind' \in [Calls -> Kind],
         UNCHANGED <<bundle, published, status, latest, busy, staged, swaps>>
  PROVE  UpdaterInv'
  <1> USE DEF UpdaterInv
  <1>1. "done" \in Place
    BY DEF Place
  <1>2. /\ place' \in [Calls -> Place] /\ place'[c] = "done"
        /\ \A d \in Calls : d # c => place'[d] = place[d]
    BY <1>1, CallMoves
  <1>3. OneCallWorks'
    <2>1. Working' = Working
      BY <1>2 DEF Working
    <2>. QED  BY <2>1 DEF OneCallWorks
  <1>4. UpdaterTypeOK'
    BY <1>2 DEF UpdaterTypeOK
  <1>. QED  BY <1>1, <1>3, <1>4, StatusStep

LEMMA DeferKeepsInv ==
  ASSUME UpdaterInv, NEW c \in Calls, Defer(c)
  PROVE  UpdaterInv'
  <1>1. status = "ready" /\ ~busy /\ busy \in BOOLEAN /\ c \notin Working /\ kind \in [Calls -> Kind]
    BY DEF UpdaterInv, Defer, Working, UpdaterTypeOK
  <1>. QED  BY <1>1, BusyCheckKeepsInv DEF Defer

LEMMA FetchKeepsInv ==
  ASSUME UpdaterInv, NEW c \in Calls, UpToDate(c) \/ Available(c) \/ CheckFails(c)
  PROVE  UpdaterInv'
  <1> USE NoVersionIsNew, MaxVersionIsNat
  <1>1. c \in Working /\ UpdaterTypeOK /\ status # "ready"
    BY DEF UpToDate, Available, CheckFails, UpdaterInv, OneCallWorks, Working
  <1>2. CASE UpToDate(c)
    BY <1>1, <1>2, AnswerKeepsInv DEF UpToDate, UpdaterTypeOK
  <1>3. CASE Available(c)
    BY <1>1, <1>3, AnswerKeepsInv DEF Available, UpdaterTypeOK, Version
  <1>4. CASE CheckFails(c)
    BY <1>1, <1>4, AnswerKeepsInv DEF CheckFails, UpdaterTypeOK
  <1>. QED  BY <1>2, <1>3, <1>4

LEMMA CallStep ==
  ASSUME UpdaterInv, NEW c \in Calls, CallSteps(c)
  PROVE  UpdaterInv'
  <1> USE NoVersionIsNew, MaxVersionIsNat DEF UpdaterInv, Place, Status
  <1>0. /\ c \in Working => busy
        /\ place[c] \in {"fetch", "refetch", "file", "offer", "notice"} <=> c \in Working
        /\ status = "ready" => c \notin Working
        /\ UpdaterTypeOK /\ kind \in [Calls -> Kind] /\ status \in Status
    BY DEF OneCallWorks, Working, UpdaterTypeOK
  <1>1. ASSUME NEW k \in Kind, Check(c, k) PROVE UpdaterInv'
    <2>1. kind' \in [Calls -> Kind]
      BY <1>0, <1>1 DEF Check
    <2>2. CASE busy \/ status \in {"downloading", "ready"}
      BY <1>0, <1>1, <2>1, <2>2, BusyCheckKeepsInv DEF Check
    <2>3. CASE ~(busy \/ status \in {"downloading", "ready"}) /\ bundle
      BY <1>0, <1>1, <2>1, <2>3, CallKeepsInv DEF Check
    <2>4. CASE ~(busy \/ status \in {"downloading", "ready"}) /\ ~bundle
      <3>1. Answered(c, k, "notice") /\ UNCHANGED <<bundle, published, latest, staged, swaps, status>>
        BY <1>1, <2>4 DEF Check
      <3>2. PICK p \in {"notice", "done"} : At(c, p) /\ busy' = (p = "notice")
        BY <3>1 DEF Answered
      <3>. QED  BY <1>0, <2>1, <2>4, <3>1, <3>2, CallKeepsInv
    <2>. QED  BY <2>2, <2>3, <2>4
  <1>2. CASE UpToDate(c)
    BY <1>0, <1>2, FetchKeepsInv
  <1>3. CASE Available(c)
    BY <1>0, <1>3, FetchKeepsInv
  <1>4. CASE CheckFails(c)
    BY <1>0, <1>4, FetchKeepsInv
  <1>5. CASE Dismiss(c)
    BY <1>0, <1>5, CallKeepsInv DEF Dismiss
  <1>6. CASE Download(c)
    <2>1. kind' \in [Calls -> Kind]
      BY <1>0, <1>6 DEF Download, Kind
    <2>2. CASE ~busy /\ bundle /\ latest # NoVersion /\ status = "available"
      BY <1>0, <1>6, <2>1, <2>2, CallKeepsInv DEF Download, Claim
    <2>3. CASE ~(~busy /\ bundle /\ latest # NoVersion /\ status = "available")
      BY <1>0, <1>6, <2>1, <2>3, BusyCheckKeepsInv DEF Download
    <2>. QED  BY <2>2, <2>3
  <1>7. CASE AcceptOffer(c)
    <2>1. latest # NoVersion /\ status = "available"
      BY <1>0, <1>7, MaxVersionIsNat DEF AcceptOffer, NoVersion, Version
    <2>. QED  BY <1>0, <1>7, <2>1, CallKeepsInv DEF AcceptOffer, Claim
  <1>8. CASE Refetched(c)
    BY <1>0, <1>8, CallKeepsInv DEF Refetched
  <1>9. CASE DownloadFails(c)
    BY <1>0, <1>9, CallKeepsInv DEF DownloadFails
  <1>10. CASE Downloaded(c)
    <2>1. PICK p \in {"restart", "done"} : At(c, p)
      BY <1>10 DEF Downloaded
    <2>. QED  BY <1>0, <1>10, <2>1, CallKeepsInv DEF Downloaded
  <1>11. CASE Defer(c)
    BY <1>0, <1>11, DeferKeepsInv
  <1>. QED  BY <1>1, <1>2, <1>3, <1>4, <1>5, <1>6, <1>7, <1>8, <1>9, <1>10, <1>11 DEF CallSteps

\* Nothing works while an update is ready, so only its version is installed.
LEMMA InstallKeepsInv ==
  ASSUME UpdaterInv, InstallFromSidebar \/ \E c \in Calls : InstallFromDialog(c)
  PROVE  UpdaterInv'
  <1> USE DEF UpdaterInv
  <1>1. /\ status = "ready" /\ staged = latest /\ ~busy /\ Working = {}
        /\ latest \in 1..MaxVersion
    BY DEF InstallFromSidebar, InstallFromDialog, Install, OneCallWorks
  <1>2. swaps' = {latest}
    BY <1>1 DEF InstallFromSidebar, InstallFromDialog, Install
  <1>3. swaps' \subseteq Version
    BY <1>1, <1>2, MaxVersionIsNat DEF Version
  <1>4. CASE InstallFromSidebar
    <2>1. UpdaterTypeOK'
      BY <1>3, <1>4 DEF InstallFromSidebar, Install, UpdaterTypeOK
    <2>2. OneCallWorks'
      BY <1>4 DEF InstallFromSidebar, Install, OneCallWorks, Working
    <2>. QED  BY <1>1, <1>2, <1>4, <2>1, <2>2 DEF InstallFromSidebar, Install
  <1>5. CASE \E c \in Calls : InstallFromDialog(c)
    <2>1. PICK c \in Calls : InstallFromDialog(c)
      BY <1>5
    <2>2. "done" \in Place
      BY DEF Place
    <2>3. /\ place' \in [Calls -> Place] /\ place'[c] = "done"
          /\ \A d \in Calls : d # c => place'[d] = place[d]
      BY <2>1, <2>2, CallMoves DEF InstallFromDialog
    <2>4. UpdaterTypeOK'
      BY <1>3, <2>1, <2>3 DEF InstallFromDialog, Install, UpdaterTypeOK
    <2>5. Working' = {}
      BY <1>1, <2>3 DEF Working
    <2>6. OneCallWorks'
      BY <2>1, <2>5 DEF OneCallWorks, InstallFromDialog
    <2>. QED  BY <1>1, <1>2, <2>1, <2>2, <2>4, <2>6, StatusStep DEF InstallFromDialog, Install
  <1>. QED  BY <1>4, <1>5

LEMMA PublishKeepsInv ==
  ASSUME UpdaterInv, Publish
  PROVE  UpdaterInv'
  BY DEF Publish, UpdaterInv, UpdaterTypeOK, OneCallWorks, Working

-----------------------------------------------------------------------------
(* The app.                                                                *)

\* The inductive invariant of the app.
THEOREM Invariance == Spec => []IInv
  <1> USE MaxRestartsIsNat, MaxVersionIsNat DEF IInv
  <1>1. Init => IInv
    <2>1. Init => SidecarInv
      <3> SUFFICES ASSUME SidecarInit PROVE SidecarInv
        BY DEF Init
      <3>1. SidecarTypeOK
        <4>1. restarts \in 0..MAX_RESTARTS
          BY DEF SidecarInit
        <4>. QED  BY <4>1 DEF SidecarInit, SidecarTypeOK
      <3>. QED  BY <3>1 DEF SidecarInit, SidecarInv, ServerEndsWithApp
    <2>2. Init => UpdaterInv
      BY DEF Init, UpdaterInit, UpdaterInv, UpdaterTypeOK, OneCallWorks, Working, Status, Place, Kind
    <2>3. Init => installed \in Version
      <3>1. 0 \in Version
        BY DEF Version
      <3>. QED  BY <3>1 DEF Init
    <2>. QED  BY <2>1, <2>2, <2>3
  <1>2. IInv /\ [Next]_vars => IInv'
    <2> SUFFICES ASSUME IInv, [Next]_vars PROVE IInv'
      OBVIOUS
    <2>1. CASE SidecarNext /\ UNCHANGED <<updaterVars, installed>>
      BY <2>1, SidecarStep, UpdaterStutter
    <2>2. CASE UpdaterSteps
      <3>1. SidecarInv' /\ installed' \in Version
        BY <2>2, SidecarStutter DEF UpdaterSteps
      <3>2. UpdaterInv'
        BY <2>2, PublishKeepsInv, CallStep DEF UpdaterSteps
      <3>. QED  BY <3>1, <3>2
    <2>3. CASE InstallAndQuit
      <3>1. window' \in BOOLEAN
        BY <2>3 DEF InstallAndQuit, SidecarInv, SidecarTypeOK
      <3>. QED  BY <2>3, <3>1, BeforeQuitKeepsInv, InstallKeepsInv DEF InstallAndQuit
    <2>4. CASE Swap
      <3>1. installed' \in Version
        BY <2>4 DEF Swap, UpdaterInv, UpdaterTypeOK
      <3>. QED  BY <2>4, <3>1, SidecarStutter, UpdaterStutter DEF Swap
    <2>5. CASE UNCHANGED vars
      BY <2>5, SidecarStutter, UpdaterStutter DEF vars
    <2>. QED  BY <2>1, <2>2, <2>3, <2>4, <2>5 DEF Next
  <1>. QED  BY <1>1, <1>2, PTL DEF Spec

\* Every variable of the desktop model stays in its set.
THEOREM TypeCorrect == Spec => []TypeOK
  <1>1. IInv => TypeOK
    BY DEF IInv, SidecarInv, UpdaterInv, TypeOK
  <1>. QED  BY <1>1, Invariance, PTL

\* main.ts and sidecar.ts: the app does not outlive its server unseen, nor
\* the server the app, however many restarts are allowed.
THEOREM ServersAreManaged == Spec => []ServerIsManaged
  <1>1. IInv => ServerIsManaged
    BY DEF IInv, SidecarInv, ServerIsManaged, NothingSpawnsAfterStop
  <1>. QED  BY <1>1, Invariance, PTL

\* updater.ts: of any number of checks and downloads one works at a time, and
\* the busy flag they hand on is set exactly then.
THEOREM OneWorks == Spec => []OneCallWorks
  <1>1. IInv => OneCallWorks
    BY DEF IInv, UpdaterInv
  <1>. QED  BY <1>1, Invariance, PTL

\* updater.ts swap script: the bundle changes behind the app only, to the
\* version that was shown last, and under no server the app had to stop.
THEOREM SwapsAreSafe == Spec => SwapIsSafe
  <1>1. IInv /\ [Next]_vars =>
          [installed' # installed =>
             /\ main = "gone" /\ installed' = latest /\ latest > 0
             /\ started => child # "up"]_vars
    <2> SUFFICES ASSUME IInv, Next, installed' # installed
                 PROVE  /\ main = "gone" /\ installed' = latest /\ latest > 0
                        /\ started => child # "up"
      BY DEF vars
    <2>1. Swap
      BY DEF Next, UpdaterSteps, InstallAndQuit
    <2>2. main = "gone" /\ installed' \in swaps
      BY <2>1 DEF Swap
    <2>3. installed' = latest /\ latest \in 1..MaxVersion
      BY <2>2 DEF IInv, UpdaterInv
    <2>4. started => child # "up"
      BY <2>2 DEF IInv, SidecarInv, ServerEndsWithApp
    <2>. QED  BY <2>2, <2>3, <2>4, MaxVersionIsNat
  <1>. QED  BY <1>1, Invariance, PTL DEF Spec, SwapIsSafe
=============================================================================
