------------------------------ MODULE Desktop ------------------------------
(***************************************************************************)
(* The desktop app: the supervisor and the updater in one main process.    *)
(* Installing an update quits the app through before-quit, and the swap    *)
(* script replaces the bundle once the process is gone (it waits 60 s for  *)
(* it, far more than the 1.5 s a quit takes).                              *)
(***************************************************************************)
EXTENDS Sidecar, Updater

VARIABLE installed  \* version of the bundle on disk

vars == <<sidecarVars, updaterVars, installed>>

Init == SidecarInit /\ UpdaterInit /\ installed = 0 /\ (bundle => platform = "darwin")

\* install, from the sidebar or from the restart dialog, then app.quit.
InstallAndQuit ==
  /\ main # "gone"
  /\ InstallFromSidebar \/ \E c \in Calls : InstallFromDialog(c)
  /\ BeforeQuit
  /\ UNCHANGED <<platform, smoke, window, started, aborted, restarts, timer, installed>>

\* The detached script: it waits a minute for the process to be gone, which takes
\* no more than the grace of a stop; ditto works or leaves the bundle.
Swap ==
  /\ main = "gone"
  /\ \E v \in swaps : installed' = v
  /\ UNCHANGED <<sidecarVars, updaterVars>>

\* The menu is there before the server is, so checks may come during the
\* start; the smoke test has no updater, and nothing runs after the exit.
UpdaterSteps ==
  /\ main # "gone" /\ ~smoke
  /\ Publish \/ \E c \in Calls : CallSteps(c)
  /\ UNCHANGED <<sidecarVars, installed>>

Next ==
  \/ SidecarNext /\ UNCHANGED <<updaterVars, installed>>
  \/ UpdaterSteps
  \/ InstallAndQuit
  \/ Swap

Spec == Init /\ [][Next]_vars /\ SidecarFairness
-----------------------------------------------------------------------------
TypeOK == SidecarTypeOK /\ UpdaterTypeOK /\ installed \in Version

\* sidecar.ts, main.ts: the app does not outlive its server unseen, nor the
\* server the app, and a stop cancels the restart that was scheduled.
ServerIsManaged == ServerEndsWithApp /\ NothingSpawnsAfterStop

\* An update changes the bundle only behind the app, to the version the user
\* was shown last, and never under a server that finished starting and that
\* nobody stopped: install goes through the same before-quit as every quit.
SwapIsSafe ==
  [][installed' # installed =>
       /\ main = "gone" /\ installed' = latest /\ latest > 0
       /\ started => child # "up"]_vars
=============================================================================
