------------------------------ MODULE Sidecar ------------------------------
(***************************************************************************)
(* The Electron main process as the supervisor of the server child:        *)
(* apps/desktop/src/sidecar.ts (spawn, health, restart, stop) and main.ts  *)
(* (start-up, quitting, fatal errors, windows).                            *)
(*                                                                         *)
(* JavaScript between two awaits is one step.  Times are not modelled: a   *)
(* timer that is set may fire at any later step, with two exceptions that  *)
(* the margins of the code justify: the 3 s process.exit of fatal comes    *)
(* behind the 1.5 s of stop, and app.exit, which a promise that is         *)
(* already resolved calls, comes before any timer.  The smoke test is the  *)
(* only difference SMOKE makes here; dev mode has no child and is left out. *)
(***************************************************************************)
EXTENDS Naturals

CONSTANTS MAX_RESTARTS,   \* restarts in the lifetime of the app (3 in the code)
          Platforms       \* platforms to consider: "darwin", "other"

ASSUME MaxRestartsIsNat == MAX_RESTARTS \in Nat

VARIABLES
  main,      \* the main process: starting, running, stopping, gone
  platform,  \* process.platform
  smoke,     \* --smoke is among the arguments
  sidecar,   \* main.ts `sidecar` is set: Sidecar.start has resolved, nobody took it
  child,     \* the server process: up, terminating (SIGTERM sent), dead
  aborted,   \* the first child has exited: the signal waitForHealth watches
  restarts,  \* Sidecar.restarts
  timer,     \* a spawn is due: the first one, or the 500 ms restart timer
  stopping,  \* Sidecar.stopping
  quitting,  \* main.ts `quitting`
  window,    \* a window is open
  started    \* history: Sidecar.start has resolved at least once

shellVars == <<main, platform, smoke, window, quitting, started>>
childVars == <<sidecar, child, aborted, restarts, timer, stopping>>
sidecarVars == <<shellVars, childVars>>

SidecarTypeOK ==
  /\ main \in {"starting", "running", "stopping", "gone"}
  /\ platform \in Platforms /\ smoke \in BOOLEAN
  /\ child \in {"up", "terminating", "dead"}
  /\ restarts \in 0..MAX_RESTARTS
  /\ sidecar \in BOOLEAN /\ aborted \in BOOLEAN /\ timer \in BOOLEAN
  /\ stopping \in BOOLEAN /\ quitting \in BOOLEAN
  /\ window \in BOOLEAN /\ started \in BOOLEAN

\* main() after whenReady: the binary and the web build exist, Sidecar.start
\* is about to spawn the first child.
SidecarInit ==
  /\ main = "starting" /\ platform \in Platforms /\ smoke \in BOOLEAN
  /\ child = "dead" /\ restarts = 0 /\ timer = TRUE
  /\ sidecar = FALSE /\ aborted = FALSE /\ stopping = FALSE
  /\ quitting = FALSE /\ window = FALSE /\ started = FALSE
-----------------------------------------------------------------------------
\* Sidecar.stop: a dead child resolves at once and the caller leaves (`exit`);
\* a live one gets SIGTERM and the caller waits.
Stop(exit) ==
  /\ stopping' = TRUE
  /\ IF child = "dead"
     THEN main' = exit /\ UNCHANGED child
     ELSE main' = "stopping" /\ child' = "terminating"

\* Mutant: leaves without stopping the child.
FatalLeaves == sidecar' = FALSE /\ main' = "gone" /\ UNCHANGED <<child, stopping>>

\* fatal: takes the sidecar, if main.ts has one, and stops it before app.exit;
\* without one it leaves at once, whatever the child does.
Fatal ==
  /\ sidecar' = FALSE
  /\ IF sidecar THEN Stop("gone") ELSE main' = "gone" /\ UNCHANGED <<child, stopping>>

\* waitForHealth saw an answer of the child: start resolves, main.ts keeps the
\* sidecar and opens the window.  The child may have exited behind its answer.
Healthy ==
  /\ main = "starting"
  /\ IF aborted THEN child = "dead" ELSE child = "up"
  /\ main' = "running" /\ sidecar' = TRUE /\ started' = TRUE /\ window' = TRUE
  /\ UNCHANGED <<platform, smoke, quitting, child, aborted, restarts, timer, stopping>>

\* waitForHealth gave up: 20 s without an answer, or the child has exited.
StartFails ==
  /\ main = "starting"
  /\ Fatal
  /\ UNCHANGED <<platform, smoke, window, quitting, started, aborted, restarts, timer>>

\* Mutant: gives up without onFatal.
ChildExitsSilently ==
  /\ child = "up" /\ main # "gone" /\ ~stopping
  /\ restarts' = IF restarts < MAX_RESTARTS THEN restarts + 1 ELSE restarts
  /\ timer' = (restarts < MAX_RESTARTS)
  /\ child' = "dead" /\ aborted' = TRUE
  /\ UNCHANGED <<shellVars, sidecar, stopping>>

\* The exit event of a child that nobody stopped: restart, or give up.
ChildExits ==
  /\ child = "up" /\ main # "gone" /\ ~stopping
  /\ IF restarts >= MAX_RESTARTS
     THEN /\ sidecar' = FALSE /\ stopping' = sidecar
          /\ main' = "gone" /\ UNCHANGED <<restarts, timer>>
     ELSE /\ restarts' = restarts + 1 /\ timer' = TRUE
          /\ UNCHANGED <<sidecar, stopping, main>>
  /\ child' = "dead" /\ aborted' = TRUE
  /\ UNCHANGED <<platform, smoke, window, quitting, started>>

\* A spawn that is due.  A spawn that fails raises the error event, which
\* is fatal unless the sidecar is stopping; nothing becomes of the child.
Spawn ==
  /\ timer /\ main # "gone"
  /\ timer' = FALSE /\ child' = "up"
  /\ UNCHANGED <<shellVars, sidecar, aborted, restarts, stopping>>

SpawnFails ==
  /\ timer /\ main # "gone"
  /\ timer' = FALSE
  /\ IF stopping THEN UNCHANGED <<main, sidecar, child, stopping>> ELSE Fatal
  /\ UNCHANGED <<platform, smoke, window, quitting, started, aborted, restarts>>

\* The child exits behind SIGTERM, or stop runs out of patience and kills it:
\* stop resolves and the caller's app.exit follows.
ChildStopped ==
  /\ child = "terminating"
  /\ child' = "dead"
  /\ main' = IF main = "stopping" THEN "gone" ELSE main
  /\ aborted' = TRUE
  /\ UNCHANGED <<platform, smoke, window, quitting, started, sidecar, restarts, timer, stopping>>
-----------------------------------------------------------------------------
\* before-quit: the first time with a sidecar it holds the quit and stops the
\* child; otherwise the app quits at once.
BeforeQuit ==
  IF quitting \/ ~sidecar
  THEN main' = "gone" /\ UNCHANGED <<sidecar, child, stopping, quitting>>
  ELSE quitting' = TRUE /\ sidecar' = FALSE /\ Stop("gone")

Quit ==
  /\ main # "gone"
  /\ BeforeQuit
  /\ UNCHANGED <<platform, smoke, window, started, aborted, restarts, timer>>

\* Closing the window quits the app anywhere but on macOS.
CloseWindow ==
  /\ window /\ main # "gone"
  /\ window' = FALSE
  /\ IF platform = "darwin" /\ ~smoke
     THEN UNCHANGED <<main, sidecar, child, stopping, quitting>>
     ELSE BeforeQuit
  /\ UNCHANGED <<platform, smoke, started, aborted, restarts, timer>>

\* activate opens a window again while main.ts has a sidecar.
Activate ==
  /\ main # "gone" /\ ~window /\ sidecar
  /\ window' = TRUE
  /\ UNCHANGED <<main, platform, smoke, quitting, started, childVars>>

\* runSmoke ends: app.quit, or fatal.
SmokeEnds ==
  /\ smoke /\ main = "running"
  /\ \/ BeforeQuit
     \/ Fatal /\ UNCHANGED quitting
  /\ UNCHANGED <<platform, smoke, window, started, aborted, restarts, timer>>

ServerNext ==
  Healthy \/ StartFails \/ ChildExits \/ Spawn \/ SpawnFails \/ ChildStopped

SidecarNext == ServerNext \/ Quit \/ CloseWindow \/ Activate \/ SmokeEnds

\* A timer fires, a started health check ends, SIGKILL ends a child.  Users,
\* crashes and failing spawns are not fair.
SidecarFairness ==
  /\ WF_sidecarVars(Spawn \/ SpawnFails)
  /\ WF_sidecarVars(ChildStopped)
  /\ WF_sidecarVars(Healthy \/ StartFails)

SidecarSpec == SidecarInit /\ [][SidecarNext]_sidecarVars /\ SidecarFairness
-----------------------------------------------------------------------------
(* Properties *)

\* "Hold the quit until the sidecar is gone" (main.ts before-quit): once
\* Sidecar.start has resolved, the app never ends on a server that nobody told
\* to stop.  Until then main.ts does not know its child: leaving during
\* start-up is the one way to leave a server behind.
ServerEndsWithApp ==
  main = "gone" /\ started => child # "up"

\* A sidecar that was told to stop has no running server again: the restart
\* timer that stop leaves pending never fires, because a dead child makes stop
\* resolve at once and the exit behind it comes before any timer.
NothingSpawnsAfterStop == stopping => child # "up"

\* A crash never leaves the user with a window and no server, the server is
\* up again or the app ends; and every way out comes to an end, also with a
\* child that hangs in its SIGTERM.
CrashIsHandled ==
  /\ (main = "running" /\ child = "dead") ~> (child = "up" \/ main = "gone")
  /\ main = "stopping" ~> main = "gone"
=============================================================================
