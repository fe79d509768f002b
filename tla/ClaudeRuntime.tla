---------------------------- MODULE ClaudeRuntime ----------------------------
(***************************************************************************)
(* Which claude binary and configuration directory a turn uses             *)
(* (agent/claudeRuntime.ts) and the settings section that edits, saves and *)
(* tests them (claude-runtime-section.tsx, rpc/ai.ts).                     *)
(*                                                                         *)
(* A turn reads the settings file when it starts.  The section keeps a     *)
(* draft, and shows the answer of the last probe it asked for: probes run  *)
(* a process and overlap.  What the probe says of the login is left out.   *)
(***************************************************************************)
EXTENDS Integers, FiniteSets

CONSTANTS
    BinaryTexts,     \* what may be typed for the binary: "", a path, a path with a space behind it
    DirTexts,        \* what may be typed for the directory
    EnvBinary,       \* DBCHAT_CLAUDE_CLI, "" when unset
    EnvDir,          \* DBCHAT_CLAUDE_CONFIG_DIR or CLAUDE_CONFIG_DIR, "" when unset
    MaxRuntimeOps    \* bound: what the user does in the section

\* nothing typed is one of the marks below
ASSUME RuntimeAssumption == \A text \in BinaryTexts : text \notin {"-", "?"}

VARIABLES
    claudeFile,      \* claude.json, or Unreadable
    executables,     \* binaries there are on this machine
    settingsShown,   \* the client's cached ai.claude.get, or NoSettings
    claudeDraft,     \* the form
    seeded,          \* the form was filled from the saved settings
    saveCalls,       \* ai.claude.set under way: the settings being saved
    probeCalls,      \* ai.claude.status under way: [id, settings, status], status NoStatus until it ran
    probeShown,      \* the mutation's view: [id of the last probe, settings, status], NoStatus while pending
    sinceSave,       \* history: nothing but the section's own probe happened since the last save
    runtimeOps       \* operations so far, for the bound

runtimeVars == <<claudeFile, executables, settingsShown, claudeDraft, seeded, saveCalls, probeCalls,
                 probeShown, sinceSave, runtimeOps>>

Settings(b, d) == [binary |-> b, dir |-> d]
NoOverrides == Settings("", "")
NoSettings == Settings("-", "-")
Unreadable == Settings("?", "?")
NoStatus == [binary |-> "-", binarySource |-> "-", dir |-> "-", dirSource |-> "-"]

Trimmed(text) == IF text = "b1 " THEN "b1" ELSE text
Clean(s) == Settings(Trimmed(s.binary), Trimmed(s.dir))
LoadSettings == IF claudeFile = Unreadable THEN NoOverrides ELSE claudeFile

\* a configured binary that is not there falls through to the next source; a directory never does
ResolveBinary(s) ==
    IF s.binary \in executables THEN [binary |-> s.binary, binarySource |-> "settings"]
    ELSE IF EnvBinary \in executables THEN [binary |-> EnvBinary, binarySource |-> "env"]
    ELSE IF "claude" \in executables THEN [binary |-> "claude", binarySource |-> "path"]
    ELSE [binary |-> "bundled", binarySource |-> "bundled"]

ResolveConfigDir(s) ==
    IF s.dir # "" THEN [dir |-> s.dir, dirSource |-> "settings"]
    ELSE IF EnvDir # "" THEN [dir |-> EnvDir, dirSource |-> "env"]
    ELSE [dir |-> "~/.claude", dirSource |-> "default"]

ResolveRuntime(s) ==
    LET b == ResolveBinary(s)
        d == ResolveConfigDir(s) IN
    [binary |-> b.binary, binarySource |-> b.binarySource, dir |-> d.dir, dirSource |-> d.dirSource]

\* what claudeSdkOptions gives the turn that starts now
TurnRuntime == ResolveRuntime(LoadSettings)

RuntimeInit ==
    /\ \E b \in {Trimmed(t) : t \in BinaryTexts}, d \in DirTexts : claudeFile = Settings(b, d)
    /\ executables \in SUBSET {"b1", EnvBinary, "claude"}
    /\ settingsShown = NoSettings
    /\ claudeDraft = NoOverrides
    /\ seeded = FALSE
    /\ saveCalls = {}
    /\ probeCalls = {}
    /\ probeShown = [id |-> 0, settings |-> NoSettings, status |-> NoStatus]
    /\ sinceSave = FALSE
    /\ runtimeOps = 0

UserActs == runtimeOps < MaxRuntimeOps /\ runtimeOps' = runtimeOps + 1

\* probe.mutate: the section follows this probe and no earlier one
ProbeFor(s) ==
    /\ probeShown' = [id |-> probeShown.id + 1, settings |-> s, status |-> NoStatus]
    /\ probeCalls' = probeCalls \cup {[id |-> probeShown.id + 1, settings |-> s, status |-> NoStatus]}

\* the saved settings arrive; the first time they fill the form, typed text or not, and are probed
SettingsArrive ==
    /\ settingsShown' = LoadSettings
    /\ seeded' = TRUE
    /\ IF seeded THEN UNCHANGED <<claudeDraft, probeShown, probeCalls>>
       ELSE claudeDraft' = LoadSettings /\ ProbeFor(LoadSettings)
    /\ UNCHANGED <<claudeFile, executables, saveCalls, sinceSave, runtimeOps>>

TypeSettings(s) ==
    /\ UserActs
    /\ s # claudeDraft
    /\ claudeDraft' = s
    /\ UNCHANGED <<claudeFile, executables, settingsShown, seeded, saveCalls, probeCalls, probeShown, sinceSave>>

Dirty == settingsShown # NoSettings /\ settingsShown # claudeDraft

SaveSettings ==
    /\ UserActs
    /\ Dirty /\ saveCalls = {}
    /\ saveCalls' = {claudeDraft}
    /\ UNCHANGED <<claudeFile, executables, settingsShown, claudeDraft, seeded, probeCalls, probeShown, sinceSave>>

\* the server writes what it trimmed and answers with it; the section probes that
SaveSucceeds(s) ==
    /\ s \in saveCalls
    /\ claudeFile' = Clean(s)
    /\ settingsShown' = Clean(s)
    /\ saveCalls' = {}
    /\ sinceSave' = TRUE
    /\ ProbeFor(Clean(s))
    /\ UNCHANGED <<executables, claudeDraft, seeded, runtimeOps>>

TestSettings ==
    /\ UserActs
    /\ probeShown.id > 0 => probeShown.status # NoStatus
    /\ ProbeFor(claudeDraft)
    /\ sinceSave' = FALSE
    /\ UNCHANGED <<claudeFile, executables, settingsShown, claudeDraft, seeded, saveCalls>>

ProbeRuns(c) ==
    /\ c.status = NoStatus
    /\ probeCalls' = (probeCalls \ {c}) \cup {[c EXCEPT !.status = ResolveRuntime(c.settings)]}
    /\ UNCHANGED <<claudeFile, executables, settingsShown, claudeDraft, seeded, saveCalls, probeShown,
                   sinceSave, runtimeOps>>

\* Mutant: the answer that comes last is shown.
ProbeArrivesLast(c) ==
    /\ c.status # NoStatus
    /\ probeShown' = c
    /\ probeCalls' = probeCalls \ {c}
    /\ UNCHANGED <<claudeFile, executables, settingsShown, claudeDraft, seeded, saveCalls, sinceSave, runtimeOps>>

ProbeArrives(c) ==
    /\ c.status # NoStatus
    /\ probeShown' = IF c.id = probeShown.id THEN c ELSE probeShown
    /\ probeCalls' = probeCalls \ {c}
    /\ UNCHANGED <<claudeFile, executables, settingsShown, claudeDraft, seeded, saveCalls, sinceSave, runtimeOps>>

\* somebody installs or removes a binary, or a crash leaves half a settings file
MachineMoves ==
    /\ UserActs
    /\ \/ claudeFile' = Unreadable /\ UNCHANGED executables
       \/ executables' \in SUBSET {"b1", EnvBinary, "claude"} /\ UNCHANGED claudeFile
    /\ sinceSave' = FALSE
    /\ UNCHANGED <<settingsShown, claudeDraft, seeded, saveCalls, probeCalls, probeShown>>

RuntimeNext ==
    \/ SettingsArrive \/ SaveSettings \/ TestSettings \/ MachineMoves
    \/ \E b \in BinaryTexts, d \in DirTexts : TypeSettings(Settings(b, d))
    \/ \E s \in saveCalls : SaveSucceeds(s)
    \/ \E c \in probeCalls : ProbeRuns(c) \/ ProbeArrives(c)

RuntimeSpec == RuntimeInit /\ [][RuntimeNext]_runtimeVars

(***************************************************************************)
(* Properties.                                                             *)
(***************************************************************************)
\* Once a save was answered, the status the section shows is that of the runtime the next turn uses,
\* whatever was typed while the save or the probes were under way and in whatever order the probes of
\* before and after answer ("applied on the next chat turn"), until another test or the machine
\* changes it.
StatusIsOfTheNextTurn ==
    sinceSave /\ probeShown.status # NoStatus =>
        probeShown.settings = LoadSettings /\ probeShown.status = TurnRuntime

\* A section that offers nothing to save shows the settings the file holds, unless another writer or a
\* torn write changed them: an edit made while a save is under way is never taken for saved.
CleanMeansSaved ==
    sinceSave /\ seeded /\ saveCalls = {} /\ ~Dirty => claudeDraft = LoadSettings
=============================================================================
