------------------------------ MODULE HookInstaller ------------------------------
(***************************************************************************)
(* `deskmate hook install | status | uninstall` (hook_installers): the     *)
(* entries Deskmate keeps beside the user's own in an agent's hook file,   *)
(* and, for Codex, the feature flag of config.toml and the manifest that   *)
(* remembers who turned it on. Each file is written atomically; the        *)
(* command can die between two files.                                      *)
(***************************************************************************)
EXTENDS Naturals

CONSTANTS
    Event,       \* hook events an agent knows
    Wanted,      \* those this version installs on
    MaxRuns,     \* bound: commands started
    MaxEdits     \* bound: edits of the user's own entries

ASSUME InstallerAssumption ==
    /\ Wanted \subseteq Event
    /\ {MaxRuns, MaxEdits} \subseteq Nat

Agent == {"codex", "claude", "cursor"}
Command == {"install", "uninstall"}
Idle == [cmd |-> "none"]

VARIABLES
    ours,      \* how many managed entries each event of each hook file holds
    users,     \* the events of each hook file that hold an entry of the user's
    feature,   \* config.toml: features.codex_hooks
    manifest,  \* enabled_codex_hooks_feature of the manifest, "none" without one
    job,       \* the command running, what it has read and what is left to write
    runs, edits,
    byUser     \* history: the user has the feature on

files == <<ours, users, feature, manifest>>
installerVars == <<files, job, runs, edits, byUser>>

HookFile == [ours: [Event -> Nat], users: SUBSET Event]
Job == {Idle} \cup
    [cmd: Command, left: {"config", "hooks", "manifest"}, was: BOOLEAN, mine: BOOLEAN, file: HookFile]

InstallerTypeOK ==
    /\ ours \in [Agent -> [Event -> Nat]]
    /\ users \in [Agent -> SUBSET Event]
    /\ feature \in {"absent", "off", "on"}
    /\ manifest \in {"none", "ours", "theirs"}
    /\ job \in Job
    /\ runs \in 0..MaxRuns
    /\ edits \in 0..MaxEdits
    /\ byUser \in BOOLEAN

InstallerInit ==
    /\ ours = [a \in Agent |-> [e \in Event |-> 0]]
    /\ users \in [Agent -> {{}, Event}]
    /\ feature \in {"absent", "off", "on"}
    /\ manifest = "none"
    /\ job = Idle
    /\ runs = 0 /\ edits = 0
    /\ byUser = (feature = "on")

(***************************************************************************)
(* What the commands make of a hook file                                   *)
(***************************************************************************)

\* Faulty variant: every entry of the event goes, the user's with ours
CleanEvent(f, e) == [f EXCEPT !.ours[e] = 0, !.users = {}]

\* Only entries of the user's survive: the marker, the command and an older
\* command line all count as managed
Clean(f, e) == [f EXCEPT !.ours[e] = 0]

\* _install_codex, _install_claude, _install_cursor: cleaned, then one entry
WithEntries(f) ==
    [ours |-> [e \in Event |-> IF e \in Wanted THEN Clean(f, e).ours[e] + 1 ELSE f.ours[e]],
     users |-> {e \in f.users : e \in Wanted => e \in Clean(f, e).users}]

\* _uninstall_*: every event of the file is cleaned, wanted or not
WithoutEntries(f) ==
    [ours |-> [e \in Event |-> Clean(f, e).ours[e]], users |-> {e \in f.users : e \in Clean(f, e).users}]

Rewritten(cmd, f) == IF cmd = "install" THEN WithEntries(f) ELSE WithoutEntries(f)
HookFileOf(a) == [ours |-> ours[a], users |-> users[a]]
Write(a, f) ==
    /\ ours' = [ours EXCEPT ![a] = f.ours]
    /\ users' = [users EXCEPT ![a] = f.users]

FeatureEnabled == feature = "on"
EnableFeature == feature' = "on"
DisableFeature == feature' = "absent"

(***************************************************************************)
(* The commands                                                            *)
(***************************************************************************)

\* Claude's and Cursor's hooks are one file: read, rewritten, replaced
RunPlain(a, cmd) ==
    /\ job = Idle /\ runs < MaxRuns
    /\ runs' = runs + 1
    /\ Write(a, Rewritten(cmd, HookFileOf(a)))
    /\ UNCHANGED <<feature, manifest, job, edits, byUser>>

\* Codex: config, hooks and manifest are read before anything is written
StartCodex(cmd) ==
    /\ job = Idle /\ runs < MaxRuns
    /\ runs' = runs + 1
    /\ job' = [cmd |-> cmd, left |-> "config", was |-> FeatureEnabled, mine |-> manifest = "ours",
               file |-> Rewritten(cmd, HookFileOf("codex"))]
    /\ UNCHANGED <<files, edits, byUser>>

WriteConfig ==
    /\ job # Idle /\ job.left = "config"
    /\ IF job.cmd = "install" THEN IF job.was THEN UNCHANGED feature ELSE EnableFeature
       ELSE IF job.mine THEN DisableFeature ELSE UNCHANGED feature
    /\ job' = [job EXCEPT !.left = "hooks"]
    /\ UNCHANGED <<ours, users, manifest, runs, edits, byUser>>

WriteHooks ==
    /\ job # Idle /\ job.left = "hooks"
    /\ Write("codex", job.file)
    /\ job' = [job EXCEPT !.left = "manifest"]
    /\ UNCHANGED <<feature, manifest, runs, edits, byUser>>

\* Faulty variant: the manifest says install turned the feature on, whoever did
ManifestAlwaysOurs ==
    /\ job # Idle /\ job.left = "manifest"
    /\ manifest' = IF job.cmd = "uninstall" THEN "none" ELSE "ours"
    /\ job' = Idle
    /\ UNCHANGED <<ours, users, feature, runs, edits, byUser>>

WriteManifest ==
    /\ job # Idle /\ job.left = "manifest"
    /\ manifest' = IF job.cmd = "uninstall" THEN "none" ELSE IF job.was THEN "theirs" ELSE "ours"
    /\ job' = Idle
    /\ UNCHANGED <<ours, users, feature, runs, edits, byUser>>

\* The command is killed, or one of its writes raises
Die ==
    /\ job # Idle
    /\ job' = Idle
    /\ UNCHANGED <<files, runs, edits, byUser>>

\* The user's own edits, made while no command runs
UserEdits(a, e) ==
    /\ job = Idle /\ edits < MaxEdits
    /\ edits' = edits + 1
    /\ users' = [users EXCEPT ![a] = IF e \in @ THEN @ \ {e} ELSE @ \cup {e}]
    /\ UNCHANGED <<ours, feature, manifest, job, runs, byUser>>

InstallerNext ==
    \/ \E a \in {"claude", "cursor"}, cmd \in Command : RunPlain(a, cmd)
    \/ \E cmd \in Command : StartCodex(cmd)
    \/ WriteConfig \/ WriteHooks \/ WriteManifest \/ Die
    \/ \E a \in Agent, e \in Event : UserEdits(a, e)

InstallerSpec == InstallerInit /\ [][InstallerNext]_installerVars

(***************************************************************************)
(* Properties                                                              *)
(***************************************************************************)

\* However often install is run, and wherever it dies, an agent never calls
\* Deskmate twice for one event.
ManagedOnce == \A a \in Agent, e \in Event : ours[a][e] <= 1

\* "remove Deskmate-managed hooks without touching user hooks": only the
\* user's own edits change the user's entries.
UserHooksKept == [][edits' = edits => users' = users]_installerVars

\* A feature flag the user had turned on is never turned off by an uninstall,
\* also after an install that died half way.
UserFeatureKept == byUser => FeatureEnabled
=============================================================================
