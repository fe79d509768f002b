------------------------------ MODULE Updater ------------------------------
(***************************************************************************)
(* The self-updater of the macOS app: apps/desktop/src/updater.ts.         *)
(*                                                                         *)
(* A call is one run of check or download from the menu, the sidebar or    *)
(* the timer; every await of it (release API, download, dialogs) is a      *)
(* place where other calls run.  A version is a number, the running one    *)
(* is 0, and `published` is what the release API answers at that moment.   *)
(* Progress, notes, the dock badge and updater.json are left out: nothing  *)
(* reads them back.                                                        *)
(***************************************************************************)
EXTENDS Naturals

CONSTANTS Calls,      \* calls of check and download
          MaxVersion  \* bound: the newest version ever published

ASSUME MaxVersionIsNat == MaxVersion \in Nat

NoVersion == MaxVersion + 1     \* undefined
Version == 0..MaxVersion
Status == {"idle", "checking", "available", "downloading", "ready", "error"}
\* Where a call is: not made, awaiting the release API (fetch in check,
\* refetch in download), the file, or a dialog; done.
Place == {"unmade", "fetch", "refetch", "file", "offer", "restart", "notice", "done"}
Kind == {"menu", "silent", "download"}

VARIABLES
  bundle,     \* installedAppBundle(): a packaged macOS app that can be replaced
  published,  \* version of the latest release, NoVersion when there is none
  status,     \* state.status
  latest,     \* state.latest.version
  busy,       \* Updater.busy
  staged,     \* version of the staged install
  place,      \* where each call is
  kind,       \* what each call is: check from the menu, silent check, download
  swaps       \* versions of the swap scripts that were spawned, newest last

updaterVars == <<bundle, published, status, latest, busy, staged, place, kind, swaps>>

UpdaterTypeOK ==
  /\ published \in Version \cup {NoVersion} /\ latest \in Version \cup {NoVersion}
  /\ staged \in Version \cup {NoVersion}
  /\ status \in Status /\ busy \in BOOLEAN /\ bundle \in BOOLEAN
  /\ place \in [Calls -> Place] /\ kind \in [Calls -> Kind]
  /\ swaps \subseteq Version

UpdaterInit ==
  /\ bundle \in BOOLEAN
  /\ published \in Version \cup {NoVersion}
  /\ status = "idle" /\ latest = NoVersion /\ busy = FALSE /\ staged = NoVersion
  /\ place = [c \in Calls |-> "unmade"] /\ kind = [c \in Calls |-> "silent"]
  /\ swaps = {}

At(c, p) == place' = [place EXCEPT ![c] = p]
-----------------------------------------------------------------------------
\* A newer release is published (or the first one).
Publish ==
  /\ \E v \in Version : /\ published = NoVersion \/ v > published
                        /\ published' = v
  /\ UNCHANGED <<bundle, status, latest, busy, staged, place, kind, swaps>>

\* The silent check is over after its answer; the menu shows a dialog first,
\* and busy stays set as long as it is open.
Answered(c, k, dialog) ==
  IF k = "menu" THEN At(c, dialog) /\ busy' = TRUE
                ELSE At(c, "done") /\ busy' = FALSE

\* Mutant: a check may run behind a staged update.
CheckWhenReady(c, k) ==
  /\ place[c] = "unmade" /\ k \in {"menu", "silent"} /\ bundle
  /\ kind' = [kind EXCEPT ![c] = k]
  /\ IF busy THEN At(c, "done") /\ UNCHANGED <<busy, status>>
             ELSE At(c, "fetch") /\ busy' = TRUE /\ status' = "checking"
  /\ UNCHANGED <<bundle, published, latest, staged, swaps>>

\* check up to the request for the latest release.
Check(c, k) ==
  /\ place[c] = "unmade" /\ k \in {"menu", "silent"}
  /\ kind' = [kind EXCEPT ![c] = k]
  /\ IF busy \/ status \in {"downloading", "ready"}
     THEN At(c, "done") /\ UNCHANGED <<busy, status>>
     ELSE IF bundle
     THEN At(c, "fetch") /\ busy' = TRUE /\ status' = "checking"
     ELSE Answered(c, k, "notice") /\ UNCHANGED status
  /\ UNCHANGED <<bundle, published, latest, staged, swaps>>

UpToDate(c) ==
  /\ place[c] = "fetch" /\ published \in {0, NoVersion}
  /\ status' = "idle" /\ latest' = NoVersion
  /\ Answered(c, kind[c], "notice")
  /\ UNCHANGED <<bundle, published, staged, kind, swaps>>

Available(c) ==
  /\ place[c] = "fetch" /\ published \notin {0, NoVersion}
  /\ status' = "available" /\ latest' = published
  /\ Answered(c, kind[c], "offer")
  /\ UNCHANGED <<bundle, published, staged, kind, swaps>>

CheckFails(c) ==
  /\ place[c] = "fetch"
  /\ status' = "error"
  /\ Answered(c, kind[c], "notice")
  /\ UNCHANGED <<bundle, published, latest, staged, kind, swaps>>

\* A notice is closed, or the offer is declined: check is over.
Dismiss(c) ==
  /\ place[c] \in {"notice", "offer"}
  /\ At(c, "done") /\ busy' = FALSE
  /\ UNCHANGED <<bundle, published, status, latest, staged, kind, swaps>>

\* download up to the second request for the release.  From the offer, check
\* clears busy and calls it: its own guards see the state of that moment.
Claim(c) == At(c, "refetch") /\ busy' = TRUE

Download(c) ==
  /\ place[c] = "unmade"
  /\ kind' = [kind EXCEPT ![c] = "download"]
  /\ IF ~busy /\ bundle /\ latest # NoVersion /\ status = "available"
     THEN Claim(c)
     ELSE At(c, "done") /\ UNCHANGED busy
  /\ UNCHANGED <<bundle, published, status, latest, staged, swaps>>

\* (Mutant: the download it calls does not claim busy again.)
AcceptOfferUnclaimed(c) ==
  /\ place[c] = "offer"
  /\ At(c, "refetch") /\ busy' = FALSE
  /\ UNCHANGED <<bundle, published, status, latest, staged, kind, swaps>>

AcceptOffer(c) ==
  /\ place[c] = "offer"
  /\ IF latest # NoVersion /\ status = "available"
     THEN Claim(c)
     ELSE At(c, "done") /\ busy' = FALSE
  /\ UNCHANGED <<bundle, published, status, latest, staged, kind, swaps>>

\* The release that is there now must be the one that was shown.
Refetched(c) ==
  /\ place[c] = "refetch" /\ published = latest
  /\ At(c, "file") /\ status' = "downloading"
  /\ UNCHANGED <<bundle, published, latest, busy, staged, kind, swaps>>

\* The release changed, a request or the file failed: download ends in error,
\* and so does the check that called it.
DownloadFails(c) ==
  /\ place[c] \in {"refetch", "file"}
  /\ status' = "error" /\ busy' = FALSE /\ At(c, "done")
  /\ UNCHANGED <<bundle, published, latest, staged, kind, swaps>>

\* The file is complete: stage it; the menu's check asks for the restart.
Downloaded(c) ==
  /\ place[c] = "file"
  /\ staged' = latest /\ status' = "ready" /\ busy' = FALSE
  /\ At(c, IF kind[c] = "menu" THEN "restart" ELSE "done")
  /\ UNCHANGED <<bundle, published, latest, kind, swaps>>

\* The restart dialog is put off.  check ends and clears busy once more.
Defer(c) ==
  /\ place[c] = "restart"
  /\ At(c, "done") /\ busy' = FALSE
  /\ UNCHANGED <<bundle, published, status, latest, staged, kind, swaps>>

\* install: spawn the swap script and quit (the caller composes the quit).
Install ==
  /\ staged # NoVersion /\ status = "ready"
  /\ swaps' = swaps \cup {staged}
  /\ UNCHANGED <<bundle, published, status, latest, staged, kind>>

InstallFromSidebar == Install /\ UNCHANGED <<busy, place>>

InstallFromDialog(c) ==
  /\ place[c] = "restart"
  /\ Install
  /\ At(c, "done") /\ busy' = FALSE

\* Every step but those that quit.
CallSteps(c) ==
  \/ \E k \in Kind : Check(c, k)
  \/ UpToDate(c) \/ Available(c) \/ CheckFails(c) \/ Dismiss(c)
  \/ Download(c) \/ AcceptOffer(c) \/ Refetched(c) \/ DownloadFails(c)
  \/ Downloaded(c) \/ Defer(c)
-----------------------------------------------------------------------------
(* Properties *)

\* Calls that own the updater: those between a claim of `busy` and its release.
Working == {c \in Calls : place[c] \in {"fetch", "refetch", "file", "offer", "notice"}}

\* The busy flag, which check, its dialogs and the download it calls hand to
\* each other and clear in two `finally` blocks, is set exactly while some
\* call works: no second one is let in, and no call leaves it set.
OneCallWorks ==
  /\ \A c, d \in Working : c = d
  /\ busy <=> Working # {}
=============================================================================
