------------------------------- MODULE PartsProofs -------------------------------
(***************************************************************************)
(* Proofs about seven of the parts that share no state: the hook files of  *)
(* another agent, the life of the agent process, what a perception tick    *)
(* sets off, the client that reconnects, the nudges about tasks, the build *)
(* pill, and the reminders.  Each part has its own behaviours and its own  *)
(* invariant.                                                              *)
(***************************************************************************)
EXTENDS HookInstaller, Lifecycle, PerceptionTick, ReconnectingClient, TaskNudges, BuildPill,
        ReminderScheduler, FiniteSetTheorems, SequenceTheorems, TLAPS

(***************************************************************************)
(* For any set of events, any number of commands and a death between any   *)
(* two writes: one managed entry an event, and the user's entries and the  *)
(* user's feature flag left alone.                                         *)
(***************************************************************************)

\* What Codex's command is about to write is one managed entry an event, and the
\* user's entries as they still are: nobody edits the file under the command.
JobIsCurrent ==
    job # Idle =>
        /\ \A e \in Event : job.file.ours[e] <= 1
        /\ job.file.users = users["codex"]

\* A command that runs on a feature the user turned on has read it so, and does
\* not think it turned it on itself; nor does the manifest.
FeatureIsTheUsers ==
    byUser =>
        /\ FeatureEnabled
        /\ manifest # "ours"
        /\ job # Idle => job.was /\ ~job.mine

InstallerInv == InstallerTypeOK /\ ManagedOnce /\ JobIsCurrent /\ FeatureIsTheUsers

-----------------------------------------------------------------------------
\* Rewriting a hook file (hook_installers._install_*, _uninstall_*) leaves the
\* user's entries, and at most one of Deskmate's on an event if there was no more
\* before.
LEMMA RewrittenKeepsUsers ==
    ASSUME NEW cmd \in Command, NEW f \in HookFile, \A e \in Event : f.ours[e] <= 1
    PROVE  /\ Rewritten(cmd, f) \in HookFile
           /\ Rewritten(cmd, f).users = f.users
           /\ \A e \in Event : Rewritten(cmd, f).ours[e] <= 1
<1>1. \A e \in Event : Clean(f, e).ours[e] = 0 /\ Clean(f, e).users = f.users
  BY DEF Clean, HookFile
<1>2. CASE cmd = "install"
  <2>1. Rewritten(cmd, f) = WithEntries(f)
    BY <1>2 DEF Rewritten
  <2>2. WithEntries(f).users = f.users
    BY <1>1 DEF WithEntries, HookFile
  <2>3. /\ WithEntries(f).ours \in [Event -> Nat]
        /\ \A e \in Event : WithEntries(f).ours[e] <= 1
    BY <1>1 DEF WithEntries, HookFile
  <2>4. WithEntries(f) = [ours |-> WithEntries(f).ours, users |-> WithEntries(f).users]
    BY DEF WithEntries
  <2> QED BY <2>1, <2>2, <2>3, <2>4 DEF HookFile
<1>3. CASE cmd # "install"
  <2>1. Rewritten(cmd, f) = WithoutEntries(f)
    BY <1>3 DEF Rewritten
  <2>2. WithoutEntries(f).users = f.users
    BY <1>1 DEF WithoutEntries, HookFile
  <2>3. /\ WithoutEntries(f).ours \in [Event -> Nat]
        /\ \A e \in Event : WithoutEntries(f).ours[e] <= 1
    BY <1>1 DEF WithoutEntries, HookFile
  <2>4. WithoutEntries(f) = [ours |-> WithoutEntries(f).ours, users |-> WithoutEntries(f).users]
    BY DEF WithoutEntries
  <2> QED BY <2>1, <2>2, <2>3, <2>4 DEF HookFile
<1> QED BY <1>2, <1>3

\* The file of an agent, rewritten: what the lemma before says of it here.
LEMMA RewrittenFile ==
    ASSUME InstallerInv, NEW a \in Agent, NEW cmd \in Command
    PROVE  /\ Rewritten(cmd, HookFileOf(a)) \in HookFile
           /\ Rewritten(cmd, HookFileOf(a)).users = users[a]
           /\ \A e \in Event : Rewritten(cmd, HookFileOf(a)).ours[e] <= 1
<1>1. /\ HookFileOf(a) \in HookFile
      /\ HookFileOf(a).users = users[a]
      /\ \A e \in Event : HookFileOf(a).ours[e] <= 1
  BY DEF InstallerInv, InstallerTypeOK, ManagedOnce, HookFileOf, HookFile
<1> QED BY <1>1, RewrittenKeepsUsers

\* A job under way is a record with a file in it.
LEMMA JobHasFile ==
    ASSUME InstallerTypeOK, job # Idle
    PROVE  /\ job \in [cmd: Command, left: {"config", "hooks", "manifest"},
                       was: BOOLEAN, mine: BOOLEAN, file: HookFile]
           /\ job.file \in HookFile
  BY DEF InstallerTypeOK, Job

LEMMA InstallerStart == InstallerInit => InstallerInv
<1> SUFFICES ASSUME InstallerInit PROVE InstallerInv
  OBVIOUS
<1>1. InstallerTypeOK
  <2>1. ours \in [Agent -> [Event -> Nat]]
    BY DEF InstallerInit
  <2>2. users \in [Agent -> SUBSET Event]
    BY DEF InstallerInit
  <2>3. byUser \in BOOLEAN
    BY DEF InstallerInit
  <2> QED BY <2>1, <2>2, <2>3, InstallerAssumption DEF InstallerInit, InstallerTypeOK, Job
<1>2. ManagedOnce
  BY DEF InstallerInit, ManagedOnce
<1>3. JobIsCurrent /\ FeatureIsTheUsers
  BY DEF InstallerInit, JobIsCurrent, FeatureIsTheUsers, FeatureEnabled
<1> QED BY <1>1, <1>2, <1>3 DEF InstallerInv

-----------------------------------------------------------------------------
LEMMA PlainStep ==
    ASSUME InstallerInv, NEW a \in {"claude", "cursor"}, NEW cmd \in Command, RunPlain(a, cmd)
    PROVE  InstallerInv' /\ users' = users
<1> DEFINE f == Rewritten(cmd, HookFileOf(a))
<1>1. f \in HookFile /\ f.users = users[a] /\ \A e \in Event : f.ours[e] <= 1
  BY RewrittenFile DEF Agent
<1> HIDE DEF f
<1>2. /\ ours' = [ours EXCEPT ![a] = f.ours] /\ users' = [users EXCEPT ![a] = f.users]
      /\ runs < MaxRuns /\ runs' = runs + 1
      /\ job = Idle
      /\ UNCHANGED <<feature, manifest, job, edits, byUser>>
  BY DEF RunPlain, Write, f
<1>3. users' = users
  BY <1>1, <1>2 DEF InstallerInv, InstallerTypeOK
<1>4. InstallerTypeOK'
  BY <1>1, <1>2, <1>3, InstallerAssumption DEF InstallerInv, InstallerTypeOK, HookFile, Agent
<1>5. ManagedOnce'
  BY <1>1, <1>2 DEF InstallerInv, InstallerTypeOK, ManagedOnce
<1>6. JobIsCurrent' /\ FeatureIsTheUsers'
  BY <1>2 DEF InstallerInv, JobIsCurrent, FeatureIsTheUsers, FeatureEnabled
<1> QED BY <1>3, <1>4, <1>5, <1>6 DEF InstallerInv

LEMMA StartStep ==
    ASSUME InstallerInv, NEW cmd \in Command, StartCodex(cmd)
    PROVE  InstallerInv' /\ users' = users
<1> DEFINE f == Rewritten(cmd, HookFileOf("codex"))
<1>1. f \in HookFile /\ f.users = users["codex"] /\ \A e \in Event : f.ours[e] <= 1
  BY RewrittenFile DEF Agent
<1> HIDE DEF f
<1>2. /\ runs < MaxRuns /\ runs' = runs + 1
      /\ job' = [cmd |-> cmd, left |-> "config", was |-> FeatureEnabled, mine |-> manifest = "ours",
                 file |-> f]
      /\ UNCHANGED <<ours, users, feature, manifest, edits, byUser>>
  BY DEF StartCodex, files, f
<1>3. job' \in Job
  BY <1>1, <1>2 DEF Job, FeatureEnabled
<1>4. InstallerTypeOK' /\ ManagedOnce'
  BY <1>2, <1>3, InstallerAssumption DEF InstallerInv, InstallerTypeOK, ManagedOnce
<1>5. JobIsCurrent'
  BY <1>1, <1>2 DEF JobIsCurrent
<1>6. FeatureIsTheUsers'
  BY <1>2 DEF InstallerInv, FeatureIsTheUsers, FeatureEnabled
<1> QED BY <1>2, <1>4, <1>5, <1>6 DEF InstallerInv

LEMMA ConfigStep ==
    ASSUME InstallerInv, WriteConfig
    PROVE  InstallerInv' /\ users' = users
<1>1. /\ job \in [cmd: Command, left: {"config", "hooks", "manifest"},
                  was: BOOLEAN, mine: BOOLEAN, file: HookFile]
      /\ job.file \in HookFile
  BY JobHasFile DEF InstallerInv, WriteConfig
<1>2. /\ job' = [job EXCEPT !.left = "hooks"] /\ job # Idle
      /\ feature' \in {feature, "on", "absent"}
      /\ UNCHANGED <<ours, users, manifest, runs, edits, byUser>>
  BY DEF WriteConfig, EnableFeature, DisableFeature
<1>3. /\ job' \in Job /\ job'.file = job.file /\ job'.was = job.was /\ job'.mine = job.mine
  BY <1>1, <1>2 DEF Job
<1>4. InstallerTypeOK' /\ ManagedOnce' /\ JobIsCurrent'
  BY <1>2, <1>3 DEF InstallerInv, InstallerTypeOK, ManagedOnce, JobIsCurrent
<1>5. byUser => feature' = "on"
  BY DEF InstallerInv, FeatureIsTheUsers, FeatureEnabled, WriteConfig, EnableFeature, DisableFeature
<1>6. FeatureIsTheUsers'
  BY <1>2, <1>3, <1>5 DEF InstallerInv, FeatureIsTheUsers, FeatureEnabled
<1> QED BY <1>2, <1>4, <1>6 DEF InstallerInv

LEMMA HooksStep ==
    ASSUME InstallerInv, WriteHooks
    PROVE  InstallerInv' /\ users' = users
<1>1. /\ job \in [cmd: Command, left: {"config", "hooks", "manifest"},
                  was: BOOLEAN, mine: BOOLEAN, file: HookFile]
      /\ job.file \in HookFile
  BY JobHasFile DEF InstallerInv, WriteHooks
<1>2. /\ job' = [job EXCEPT !.left = "manifest"] /\ job # Idle
      /\ ours' = [ours EXCEPT !["codex"] = job.file.ours]
      /\ users' = [users EXCEPT !["codex"] = job.file.users]
      /\ UNCHANGED <<feature, manifest, runs, edits, byUser>>
  BY DEF WriteHooks, Write
<1>3. /\ job' \in Job /\ job'.file = job.file /\ job'.was = job.was /\ job'.mine = job.mine
  BY <1>1, <1>2 DEF Job
<1>4. /\ \A e \in Event : job.file.ours[e] <= 1
      /\ job.file.users = users["codex"]
  BY <1>2 DEF InstallerInv, JobIsCurrent
<1>5. users' = users
  BY <1>2, <1>4 DEF InstallerInv, InstallerTypeOK
<1>6. InstallerTypeOK'
  BY <1>1, <1>2, <1>3, <1>5 DEF InstallerInv, InstallerTypeOK, HookFile, Agent
<1>7. ManagedOnce'
  BY <1>2, <1>4 DEF InstallerInv, InstallerTypeOK, ManagedOnce, Agent
<1>8. JobIsCurrent' /\ FeatureIsTheUsers'
  BY <1>2, <1>3, <1>4, <1>5 DEF InstallerInv, JobIsCurrent, FeatureIsTheUsers, FeatureEnabled
<1> QED BY <1>5, <1>6, <1>7, <1>8 DEF InstallerInv

\* The last write, the death of a command and the user's edits.
LEMMA OtherSteps ==
    ASSUME InstallerInv,
           WriteManifest \/ Die \/ (\E a \in Agent, e \in Event : UserEdits(a, e))
           \/ UNCHANGED installerVars
    PROVE  InstallerInv' /\ (edits' = edits => users' = users)
<1>1. CASE WriteManifest
  <2>1. /\ job # Idle /\ job' = Idle
        /\ manifest' \in {"none", "ours", "theirs"}
        /\ UNCHANGED <<ours, users, feature, runs, edits, byUser>>
    BY <1>1 DEF WriteManifest
  <2>2. byUser => manifest' # "ours"
    BY <1>1 DEF WriteManifest, InstallerInv, FeatureIsTheUsers
  <2> QED BY <2>1, <2>2
          DEF InstallerInv, InstallerTypeOK, ManagedOnce, JobIsCurrent, FeatureIsTheUsers,
              FeatureEnabled, Job
<1>2. CASE Die
  BY <1>2 DEF Die, files, InstallerInv, InstallerTypeOK, ManagedOnce, JobIsCurrent, FeatureIsTheUsers,
              FeatureEnabled, Job
<1>3. ASSUME NEW a \in Agent, NEW e \in Event, UserEdits(a, e)
      PROVE  InstallerInv' /\ (edits' = edits => users' = users)
  <2>1. /\ job = Idle /\ edits < MaxEdits /\ edits' = edits + 1
        /\ UNCHANGED <<ours, feature, manifest, job, runs, byUser>>
    BY <1>3 DEF UserEdits
  <2>2. users' \in [Agent -> SUBSET Event]
    BY <1>3 DEF UserEdits, InstallerInv, InstallerTypeOK
  <2>3. edits' \in 0..MaxEdits /\ edits' # edits
    BY <2>1, InstallerAssumption DEF InstallerInv, InstallerTypeOK
  <2> QED BY <2>1, <2>2, <2>3
          DEF InstallerInv, InstallerTypeOK, ManagedOnce, JobIsCurrent, FeatureIsTheUsers,
              FeatureEnabled
<1>4. CASE UNCHANGED installerVars
  BY <1>4 DEF installerVars, files, InstallerInv, InstallerTypeOK, ManagedOnce, JobIsCurrent,
              FeatureIsTheUsers, FeatureEnabled
<1> QED BY <1>1, <1>2, <1>3, <1>4

LEMMA InstallerStep ==
    ASSUME InstallerInv, [InstallerNext]_installerVars
    PROVE  InstallerInv' /\ (edits' = edits => users' = users)
  BY PlainStep, StartStep, ConfigStep, HooksStep, OtherSteps DEF InstallerNext

\* The invariant holds throughout.
LEMMA InstallerInvariant == InstallerSpec => []InstallerInv
<1>1. InstallerInv /\ [InstallerNext]_installerVars => InstallerInv'
  BY InstallerStep
<1> QED BY InstallerStart, <1>1, PTL DEF InstallerSpec

-----------------------------------------------------------------------------
\* For any commands, edits and deaths: what the files hold, and what a command that is
\* under way is about to write, is a hook file, a flag and a manifest.
THEOREM InstallerTypeCorrect == InstallerSpec => []InstallerTypeOK
<1>1. InstallerInv => InstallerTypeOK
  BY DEF InstallerInv
<1> QED BY InstallerInvariant, <1>1, PTL

\* However often install is run, and wherever it dies, an agent's hook file holds
\* at most one managed entry an event (hook_installers._install_codex and its
\* siblings).
THEOREM InstalledOnce == InstallerSpec => []ManagedOnce
<1>1. InstallerInv => ManagedOnce
  BY DEF InstallerInv
<1> QED BY InstallerInvariant, <1>1, PTL

\* No command changes the user's entries (hook_installers: "without touching user
\* hooks").
THEOREM UsersKept == InstallerSpec => UserHooksKept
<1>1. InstallerInv /\ [InstallerNext]_installerVars => [edits' = edits => users' = users]_installerVars
  BY InstallerStep
<1> QED BY InstallerInvariant, <1>1, PTL DEF InstallerSpec, UserHooksKept

\* A feature the user turned on stays on through every install and uninstall, whole
\* or cut short (hook_installers._uninstall_codex, its manifest).
THEOREM FeatureKept == InstallerSpec => []UserFeatureKept
<1>1. InstallerInv => UserFeatureKept
  BY DEF InstallerInv, FeatureIsTheUsers, UserFeatureKept
<1> QED BY InstallerInvariant, <1>1, PTL

(***************************************************************************)
(* For any modules registered and any number of connections: nothing that  *)
(* runs loses a store it needs, wherever the signal finds the agent, and a *)
(* client that is greeted learns every module registered.                  *)
(***************************************************************************)

\* Before the watchers are started nothing but the bridge runs, and that only when
\* every store is open.
SetupInOrder ==
    life = "setup" =>
        /\ at \in 1..10
        /\ running \subseteq {"bridge"}
        /\ \A i \in 1..6 : i < at => Setup[i] \in opened
        /\ at <= 7 => running = {}

\* From then on every store stays open until teardown comes to the stores, and what
\* it passed by then no longer runs.
TeardownInOrder ==
    /\ life \in {"starting", "serving", "stuck"} => opened = Store
    /\ life = "starting" => at \in 1..12
    /\ life = "teardown" =>
           /\ at <= 14 => opened = Store
           /\ \A i \in 1..19 : i < at => Stops[i] \notin running
    /\ life = "down" => running = {}

\* No module is asked for before the watcher of registrations runs. Every module
\* asked for is kept; one still to be sent has its handler, which runs
\* while the watcher of registrations does; the rest a greeted client has or is
\* being sent.
ModulesKept ==
    /\ life \in {"setup", "starting"} /\ "registrations" \notin running => registered = {}
    /\ asked = registered
    /\ forwarding # Nobody => "registrations" \in running
    /\ client = "greeted" /\ wired /\ "registrations" \in running =>
           registered \subseteq shown \cup replay \cup {forwarding}

\* There is no handler before the bridge listens, and none is late while it runs.
HandlersInTime ==
    /\ life = "setup" => ~late
    /\ life = "setup" /\ at <= 7 => client = "away" /\ former = 0 /\ handling = FALSE
    /\ late => "bridge" \notin running

LifeInv == LifeTypeOK /\ SetupInOrder /\ TeardownInOrder /\ ModulesKept /\ HandlersInTime

-----------------------------------------------------------------------------
\* What the three sequences hold, position by position.
LEMMA Setups ==
    /\ Setup[1] = "session" /\ Setup[2] = "chat" /\ Setup[3] = "task" /\ Setup[4] = "tool"
    /\ Setup[5] = "coding" /\ Setup[6] = "profile" /\ Setup[7] = "listen" /\ Setup[8] = "rollup"
    /\ Setup[9] = "restore" /\ Setup[10] = "runtime"
  BY DEF Setup

LEMMA StartsHold ==
    /\ Len(Starts) = 12
    /\ \A i \in 1..12 : Starts[i] \in ToSet(Stops) \ {"bridge"}
<1>1. Len(Starts) = 12
  BY DEF Starts
<1>2. {"reaper", "projector", "surface", "reminders", "build", "nudges", "scanner", "codex",
       "rollouts", "rows", "hooks", "registrations"} \subseteq ToSet(Stops) \ {"bridge"}
  BY DEF ToSet, Stops
<1>3. \A i \in 1..12 : Starts[i] \in
        {"reaper", "projector", "surface", "reminders", "build", "nudges", "scanner", "codex",
         "rollouts", "rows", "hooks", "registrations"}
  BY DEF Starts
<1> QED BY <1>1, <1>2, <1>3

LEMMA StopsHold ==
    /\ Len(Stops) = 19
    /\ ToSet(Stops) = {Stops[i] : i \in 1..19}
    /\ \A i \in 1..13 : Stops[i] \notin Store
    /\ \A i \in 14..19 : Stops[i] \in Store
<1>1. Len(Stops) = 19
  BY DEF Stops
<1>2. ToSet(Stops) = {Stops[i] : i \in 1..19}
  BY <1>1 DEF ToSet, Stops
<1>3. /\ \A i \in 1..13 : Stops[i] \notin Store
      /\ \A i \in 14..19 : Stops[i] \in Store
  BY DEF Stops, Store
<1> QED BY <1>1, <1>2, <1>3

\* A watcher uses no store but the sessions and the tasks; only the bridge uses them all.
LEMMA UsesStores == \A w : Uses(w) \subseteq Store
  BY DEF Uses, Store

\* While the bridge runs every store is open.
LEMMA BridgeHasStores ==
    ASSUME LifeInv, "bridge" \in running
    PROVE  opened = Store
<1>1. CASE life = "setup"
  <2>1. at \in 1..10 /\ ~(at <= 7)
    BY <1>1 DEF LifeInv, SetupInOrder
  <2>2. \A i \in 1..6 : Setup[i] \in opened
    BY <1>1, <2>1 DEF LifeInv, SetupInOrder
  <2>3. Store \subseteq opened
    BY <2>2, Setups DEF Store
  <2> QED BY <2>3 DEF LifeInv, LifeTypeOK
<1>2. CASE life \in {"starting", "serving", "stuck"}
  BY <1>2 DEF LifeInv, TeardownInOrder
<1>3. CASE life = "teardown"
  <2>1. Stops[13] = "bridge"
    BY DEF Stops
  <2>2. ~(13 < at)
    BY <1>3, <2>1 DEF LifeInv, TeardownInOrder
  <2>3. at \in Nat
    BY StopsHold DEF LifeInv, LifeTypeOK
  <2> QED BY <1>3, <2>2, <2>3 DEF LifeInv, TeardownInOrder
<1>4. CASE life = "down"
  BY <1>4 DEF LifeInv, TeardownInOrder
<1> QED BY <1>1, <1>2, <1>3, <1>4 DEF LifeInv, LifeTypeOK, Stage

LEMMA LifeStart == LifeInit => LifeInv
<1> SUFFICES ASSUME LifeInit PROVE LifeInv
  OBVIOUS
<1>1. LifeTypeOK
  <2>1. at \in 1..Len(Stops) + 1
    BY StopsHold DEF LifeInit
  <2>2. joins \in 0..MaxJoins
    BY LifecycleAssumption DEF LifeInit
  <2> QED BY <2>1, <2>2 DEF LifeInit, LifeTypeOK, Stage
<1>2. SetupInOrder /\ TeardownInOrder /\ ModulesKept /\ HandlersInTime
  BY DEF LifeInit, SetupInOrder, TeardownInOrder, ModulesKept, HandlersInTime
<1> QED BY <1>1, <1>2 DEF LifeInv

-----------------------------------------------------------------------------
LEMMA SetupProceeds ==
    ASSUME LifeInv, SetupStep
    PROVE  LifeInv'
<1> DEFINE s == Setup[at]
<1>1. /\ life = "setup" /\ at \in 1..10 /\ running \subseteq {"bridge"}
      /\ \A i \in 1..6 : i < at => Setup[i] \in opened
      /\ at <= 7 => running = {}
      /\ opened \subseteq Store
  BY DEF LifeInv, LifeTypeOK, SetupInOrder, SetupStep
<1>2. /\ opened' = IF s \in Store THEN opened \cup {s} ELSE opened
      /\ running' = IF s = "listen" THEN running \cup {"bridge"} ELSE running
      /\ runtime' = (s = "runtime")
      /\ (s = "runtime") => life' = "starting" /\ at' = 1
      /\ (s # "runtime") => life' = life /\ at' = at + 1
      /\ UNCHANGED <<stopping, client, handling, wired, former, joins, replay, leftover, shown, late,
                      registered, forwarding, asked>>
  BY DEF SetupStep, clientVars, moduleVars
<1>3. /\ at <= 6 <=> s \in Store
      /\ s = "listen" <=> at = 7
      /\ s = "runtime" <=> at = 10
  BY <1>1, Setups DEF Store
<1>4. \A i \in 1..6 : i <= at => Setup[i] \in opened'
  BY <1>1, <1>2, <1>3
<1>5. at >= 6 => Store \subseteq opened'
  BY <1>1, <1>4, Setups DEF Store
<1> HIDE DEF s
<1>6. running' \subseteq {"bridge"} /\ opened' \subseteq Store /\ (at <= 6 => running' = {})
  BY <1>1, <1>2, <1>3
<1>7. "bridge" \in ToSet(Stops)
  BY DEF ToSet, Stops
<1>8. LifeTypeOK'
  BY <1>1, <1>2, <1>3, <1>6, <1>7, StopsHold DEF LifeInv, LifeTypeOK, Stage
<1>9. SetupInOrder'
  BY <1>1, <1>2, <1>3, <1>4, <1>6 DEF SetupInOrder
<1>10. TeardownInOrder'
  BY <1>1, <1>2, <1>3, <1>5, <1>6 DEF TeardownInOrder
<1>11. ModulesKept'
  BY <1>1, <1>2, <1>6 DEF LifeInv, ModulesKept
<1>12. HandlersInTime'
  BY <1>1, <1>2, <1>3 DEF LifeInv, HandlersInTime
<1> QED BY <1>8, <1>9, <1>10, <1>11, <1>12 DEF LifeInv

LEMMA SetupEnds ==
    ASSUME LifeInv, SetupDies
    PROVE  LifeInv'
<1>1. LifeTypeOK'
  BY DEF LifeInv, LifeTypeOK, SetupDies, Stage, Connected, moduleVars
<1>2. SetupInOrder' /\ TeardownInOrder'
  BY DEF SetupDies, SetupInOrder, TeardownInOrder
<1>3. ModulesKept' /\ HandlersInTime'
  BY DEF LifeInv, SetupInOrder, ModulesKept, HandlersInTime, SetupDies, moduleVars
<1> QED BY <1>1, <1>2, <1>3 DEF LifeInv

\* A watcher starts, or fails to; a signal comes; the serve task is cancelled.
LEMMA Serving ==
    ASSUME LifeInv, StartWatcher \/ StartFails \/ Signal \/ CancelServe
    PROVE  LifeInv'
<1>1. CASE StartWatcher
  <2>1. /\ life = "starting" /\ at \in 1..12
        /\ running' = running \cup {Starts[at]}
        /\ (at = 12) => life' = "serving" /\ at' = 1
        /\ (at # 12) => life' = life /\ at' = at + 1
        /\ UNCHANGED <<opened, runtime, stopping, client, handling, wired, former, joins, replay,
                        leftover, shown, late, registered, forwarding, asked>>
    BY <1>1, StartsHold DEF StartWatcher, clientVars, moduleVars, LifeInv, TeardownInOrder
  <2>2. Starts[at] \in ToSet(Stops)
    BY <2>1, StartsHold
  <2>3. LifeTypeOK'
    BY <2>1, <2>2, StopsHold DEF LifeInv, LifeTypeOK, Stage
  <2>4. SetupInOrder' /\ TeardownInOrder'
    BY <2>1 DEF LifeInv, SetupInOrder, TeardownInOrder
  <2>5. ModulesKept'
    BY <2>1 DEF LifeInv, ModulesKept
  <2>6. HandlersInTime'
    <3>1. Starts[at] # "bridge"
      BY <2>1, StartsHold
    <3>2. life' # "setup" /\ ("bridge" \in running' => "bridge" \in running)
      BY <2>1, <3>1
    <3> QED BY <2>1, <3>2 DEF LifeInv, HandlersInTime
  <2> QED BY <2>3, <2>4, <2>5, <2>6 DEF LifeInv
<1>2. CASE StartFails \/ Signal \/ CancelServe
  <2>1. UNCHANGED <<opened, running, runtime, client, handling, wired, former, joins, replay,
                    leftover, shown, late, registered, forwarding, asked>>
    BY <1>2 DEF StartFails, Signal, CancelServe, clientVars, moduleVars
  <2>2. /\ life' \in {life, "stuck", "teardown"} /\ stopping' \in {stopping, TRUE}
        /\ at' \in {at, 1}
    BY <1>2 DEF StartFails, Signal, CancelServe
  <2>6. 1 \in 1..Len(Stops) + 1
    BY StopsHold
  <2>5. LifeTypeOK'
    BY <2>1, <2>2, <2>6 DEF LifeInv, LifeTypeOK, Stage
  <2>3. SetupInOrder' /\ TeardownInOrder'
    BY <1>2, <2>1 DEF LifeInv, SetupInOrder, TeardownInOrder, StartFails, Signal, CancelServe
  <2>4. ModulesKept'
    BY <1>2, <2>1 DEF LifeInv, ModulesKept, StartFails, Signal, CancelServe
  <2>7. HandlersInTime'
    BY <1>2, <2>1 DEF LifeInv, HandlersInTime, StartFails, Signal, CancelServe
  <2> QED BY <2>3, <2>4, <2>5, <2>7 DEF LifeInv
<1> QED BY <1>1, <1>2

\* What a connection leaves behind.
LEMMA HandlerLeft ==
    ASSUME LifeTypeOK, LeavesHandler
    PROVE  /\ handling' = FALSE /\ former' \in Nat
           /\ replay' = {} /\ leftover' \subseteq Registration
  BY DEF LifeTypeOK, LeavesHandler

LEMMA Teardown ==
    ASSUME LifeInv, TeardownStep
    PROVE  LifeInv'
<1> DEFINE s == Stops[at]
<1>1. /\ life = "teardown" /\ at \in 1..19 /\ at' = at + 1 /\ life' = life
      /\ running' = running \ {s} /\ opened' = opened \ {s}
      /\ forwarding' = IF s = "registrations" THEN Nobody ELSE forwarding
      /\ \/ client' = "away" /\ wired' = FALSE /\ LeavesHandler
         \/ UNCHANGED <<client, handling, wired, former, replay, leftover>>
      /\ UNCHANGED <<runtime, stopping, joins, registered, shown, late, asked>>
  BY StopsHold DEF LifeInv, LifeTypeOK, TeardownStep
<1>2. /\ at <= 14 => opened = Store
      /\ \A i \in 1..19 : i < at => Stops[i] \notin running
  BY <1>1 DEF LifeInv, TeardownInOrder
<1>3. at + 1 <= 14 => opened' = Store
  BY <1>1, <1>2, StopsHold
<1>4. \A i \in 1..19 : i < at + 1 => Stops[i] \notin running'
  <2> SUFFICES ASSUME NEW i \in 1..19, i < at + 1
               PROVE  Stops[i] \notin running'
    OBVIOUS
  <2>1. CASE i < at
    BY <1>1, <1>2, <2>1
  <2>2. CASE i = at
    BY <1>1, <2>2
  <2> QED BY <1>1, <2>1, <2>2
<1> HIDE DEF s
<1>5. LifeTypeOK'
  <2>1. at' \in 1..Len(Stops) + 1
    BY <1>1, StopsHold
  <2>2. /\ client' \in Connected \cup {"away"} /\ handling' \in BOOLEAN /\ wired' \in BOOLEAN
        /\ former' \in Nat /\ replay' \subseteq Registration /\ leftover' \subseteq Registration
    BY <1>1, HandlerLeft DEF LifeInv, LifeTypeOK
  <2> QED BY <1>1, <2>1, <2>2 DEF LifeInv, LifeTypeOK
<1>6. SetupInOrder' /\ TeardownInOrder'
  BY <1>1, <1>3, <1>4 DEF SetupInOrder, TeardownInOrder
<1>7. ModulesKept' /\ HandlersInTime'
  BY <1>1 DEF LifeInv, ModulesKept, HandlersInTime
<1> QED BY <1>5, <1>6, <1>7 DEF LifeInv

\* All that can run has been stopped by the time teardown has no step left.
LEMMA NothingRunsAtTheEnd ==
    ASSUME LifeInv, life = "teardown", at > 19
    PROVE  running = {}
<1>1. running \subseteq {Stops[i] : i \in 1..19}
  BY StopsHold DEF LifeInv, LifeTypeOK
<1>2. \A i \in 1..19 : Stops[i] \notin running
  <2>1. \A i \in 1..19 : i < at
    BY StopsHold DEF LifeInv, LifeTypeOK
  <2> QED BY <2>1 DEF LifeInv, TeardownInOrder
<1> QED BY <1>1, <1>2

LEMMA TeardownOver ==
    ASSUME LifeInv, TeardownEnds
    PROVE  LifeInv'
<1>1. running = {}
  BY NothingRunsAtTheEnd, StopsHold DEF TeardownEnds
<1>2. LifeTypeOK'
  BY DEF LifeInv, LifeTypeOK, TeardownEnds, Stage, Connected, moduleVars
<1>3. SetupInOrder' /\ TeardownInOrder' /\ ModulesKept' /\ HandlersInTime'
  BY <1>1 DEF LifeInv, SetupInOrder, TeardownInOrder, ModulesKept, HandlersInTime, TeardownEnds,
              moduleVars
<1> QED BY <1>2, <1>3 DEF LifeInv

-----------------------------------------------------------------------------
\* The client's steps and the registrations leave the agent's own life alone.
LEMMA OthersKeepOrder ==
    ASSUME LifeInv, UNCHANGED <<life, at, opened, running>>
    PROVE  SetupInOrder' /\ TeardownInOrder'
  BY DEF LifeInv, SetupInOrder, TeardownInOrder

LEMMA ClientSteps ==
    ASSUME LifeInv,
           \/ Join \/ Leaves \/ OnClientConnect \/ OnEnvelope
           \/ HandlerEnds \/ FormerWrites \/ FormerEnds
           \/ \E m \in Registration : ReplayModule(m) \/ FormerReplays(m)
    PROVE  LifeInv'
<1>1. UNCHANGED <<life, at, opened, running, runtime, stopping, registered, forwarding, asked>>
  BY DEF Join, Leaves, OnClientConnect, OnEnvelope, HandlerEnds, FormerWrites, FormerEnds,
         ReplayModule, FormerReplays, agentVars, moduleVars
<1>2. SetupInOrder' /\ TeardownInOrder'
  BY <1>1, OthersKeepOrder
<1>3. CASE Join \/ Leaves
  <2>7. joins' \in 0..MaxJoins
    <3>1. joins' = joins \/ (joins' = joins + 1 /\ joins < MaxJoins)
      BY <1>3 DEF Join, Leaves
    <3>2. joins \in 0..MaxJoins
      BY DEF LifeInv, LifeTypeOK
    <3> QED BY <3>1, <3>2, LifecycleAssumption
  <2>8. wired' \in BOOLEAN
    BY <1>3 DEF Join, Leaves, LifeInv, LifeTypeOK
  <2>1. joins' \in 0..MaxJoins /\ wired' \in BOOLEAN
    BY <2>7, <2>8
  <2>2. LeavesHandler /\ late' = late /\ client' \in {"joined", "away"} /\ shown' \subseteq Registration
    BY <1>3 DEF Join, Leaves, LifeInv, LifeTypeOK
  <2>3. LifeTypeOK'
    BY <1>1, <2>1, <2>2, HandlerLeft DEF LifeInv, LifeTypeOK, Connected
  <2>4. ModulesKept'
    BY <1>1, <2>2 DEF LifeInv, ModulesKept
  <2>5. ~(life = "setup" /\ at <= 7)
    <3>1. CASE Join
      BY <3>1 DEF Join, LifeInv, SetupInOrder
    <3>2. CASE Leaves
      BY <3>2 DEF Leaves, LifeInv, HandlersInTime, Connected
    <3> QED BY <1>3, <3>1, <3>2
  <2>6. HandlersInTime'
    BY <1>1, <2>2, <2>5, HandlerLeft DEF LifeInv, HandlersInTime
  <2> QED BY <1>2, <2>3, <2>4, <2>6 DEF LifeInv
<1>4. CASE OnClientConnect
  <2>1. LifeTypeOK'
    BY <1>1, <1>4 DEF OnClientConnect, LifeInv, LifeTypeOK, Connected
  <2>2. ModulesKept' /\ HandlersInTime'
    BY <1>1, <1>4 DEF OnClientConnect, LifeInv, ModulesKept, HandlersInTime
  <2> QED BY <1>2, <2>1, <2>2 DEF LifeInv
<1>5. CASE \E m \in Registration : ReplayModule(m) \/ FormerReplays(m)
  <2>1. LifeTypeOK'
    BY <1>1, <1>5 DEF ReplayModule, FormerReplays, LifeInv, LifeTypeOK
  <2>2. ModulesKept' /\ HandlersInTime'
    BY <1>1, <1>5 DEF ReplayModule, FormerReplays, LifeInv, ModulesKept, HandlersInTime
  <2> QED BY <1>2, <2>1, <2>2 DEF LifeInv
<1>6. CASE OnEnvelope \/ HandlerEnds \/ FormerWrites \/ FormerEnds
  <2>9. /\ UNCHANGED <<client, joins, replay, leftover, shown>>
        /\ wired' => wired
        /\ handling' \in BOOLEAN /\ late' \in BOOLEAN /\ wired' \in BOOLEAN
    <3>0. late \in BOOLEAN /\ handling \in BOOLEAN /\ wired \in BOOLEAN
      BY DEF LifeInv, LifeTypeOK
    <3>1. CASE OnEnvelope
      BY <3>0, <3>1, Zenon DEF OnEnvelope
    <3>2. CASE HandlerEnds
      <4>1. (late \/ opened # Store) \in BOOLEAN
        OBVIOUS
      <4> QED BY <3>0, <3>2, <4>1, Zenon DEF HandlerEnds
    <3>3. CASE FormerWrites
      BY <3>0, <3>3, Zenon DEF FormerWrites
    <3>4. CASE FormerEnds
      BY <3>0, <3>4, Zenon DEF FormerEnds
    <3> QED BY <1>6, <3>1, <3>2, <3>3, <3>4
  <2>10. former' \in Nat
    <3>1. former' = former \/ (former' = former - 1 /\ former # 0)
      BY <1>6 DEF OnEnvelope, HandlerEnds, FormerWrites, FormerEnds
    <3>2. former \in Nat
      BY DEF LifeInv, LifeTypeOK
    <3> QED BY <3>1, <3>2
  <2>1. /\ UNCHANGED <<client, joins, replay, leftover, shown>>
        /\ wired' => wired
        /\ handling' \in BOOLEAN /\ late' \in BOOLEAN /\ wired' \in BOOLEAN
        /\ former' \in Nat
    BY <2>9, <2>10
  <2>2. LifeTypeOK'
    BY <1>1, <2>1 DEF LifeInv, LifeTypeOK
  <2>3. ModulesKept'
    BY <1>1, <2>1 DEF LifeInv, ModulesKept
  <2>4. ~late /\ late' => handling = TRUE \/ former > 0
    BY <1>6 DEF OnEnvelope, HandlerEnds, FormerWrites, FormerEnds, LifeInv, LifeTypeOK
  <2>5. ~late /\ late' => opened # Store
    BY <1>6 DEF OnEnvelope, HandlerEnds, FormerWrites, FormerEnds
  <2>6. life = "setup" => ~late'
    <3>1. SUFFICES ASSUME life = "setup", late' PROVE FALSE
      OBVIOUS
    <3>2. ~late /\ opened # Store /\ (handling = TRUE \/ former > 0)
      BY <2>4, <2>5, <3>1 DEF LifeInv, HandlersInTime
    <3>3. at \in 1..10 /\ ~(at <= 7)
      BY <3>1, <3>2 DEF LifeInv, HandlersInTime, SetupInOrder
    <3>4. \A i \in 1..6 : Setup[i] \in opened
      BY <3>1, <3>3 DEF LifeInv, SetupInOrder
    <3>5. Store \subseteq opened
      BY <3>4, Setups DEF Store
    <3> QED BY <3>2, <3>5 DEF LifeInv, LifeTypeOK
  <2>7. ~(life = "setup" /\ at <= 7)
    BY <1>6 DEF OnEnvelope, HandlerEnds, FormerWrites, FormerEnds, LifeInv, HandlersInTime
  <2>8. late' => "bridge" \notin running
    BY <2>5, BridgeHasStores DEF LifeInv, HandlersInTime
  <2> QED BY <1>1, <1>2, <2>2, <2>3, <2>6, <2>7, <2>8 DEF LifeInv, HandlersInTime
<1> QED BY <1>3, <1>4, <1>5, <1>6

LEMMA RegistrationSteps ==
    ASSUME LifeInv, Forward \/ \E m \in Registration : Register(m)
    PROVE  LifeInv'
<1>1. UNCHANGED <<life, at, opened, running, runtime, stopping, client, handling, wired, former, joins,
                  replay, leftover, late>>
  BY DEF Forward, Register, clientVars, agentVars
<1>2. LifeTypeOK'
  BY <1>1 DEF LifeInv, LifeTypeOK, Forward, Register, clientVars
<1>5. HandlersInTime'
  BY <1>1 DEF LifeInv, HandlersInTime
<1>3. CASE Forward
  <2>1. client = "greeted" => client \in Connected
    BY DEF Connected
  <2>2. ModulesKept'
    BY <1>1, <1>3, <2>1 DEF LifeInv, ModulesKept, Forward
  <2> QED BY <1>1, <1>2, <1>5, <2>2, OthersKeepOrder DEF LifeInv
<1>4. CASE \E m \in Registration : Register(m)
  <2>1. PICK m \in Registration : Register(m)
    BY <1>4
  <2>2. Nobody \notin registered
    BY LifecycleAssumption DEF LifeInv, LifeTypeOK
  <2>3. /\ registered' = registered \cup {m} /\ asked' = asked \cup {m} /\ forwarding' = m
        /\ "registrations" \in running /\ forwarding = Nobody
        /\ shown' = shown
    BY <2>1 DEF Register, clientVars
  <2>4. client = "greeted" /\ wired => registered \subseteq shown \cup replay
    BY <2>2, <2>3 DEF LifeInv, ModulesKept
  <2>5. ModulesKept'
    BY <1>1, <2>3, <2>4 DEF LifeInv, ModulesKept
  <2> QED BY <1>1, <1>2, <1>5, <2>5, OthersKeepOrder DEF LifeInv
<1> QED BY <1>3, <1>4

LEMMA LifeUnchanged ==
    ASSUME LifeInv, UNCHANGED lifeVars
    PROVE  LifeInv'
<1>1. UNCHANGED <<life, at, opened, running, runtime, stopping, client, handling, wired, former, joins,
                  replay, leftover, shown, late, registered, forwarding, asked>>
  BY DEF lifeVars, agentVars, clientVars, moduleVars
<1>2. LifeTypeOK' /\ ModulesKept' /\ HandlersInTime'
  BY <1>1 DEF LifeInv, LifeTypeOK, ModulesKept, HandlersInTime
<1> QED BY <1>1, <1>2, OthersKeepOrder DEF LifeInv

\* The invariant holds throughout.
LEMMA LifeInvariant == LifeSpec => []LifeInv
<1>1. LifeInv /\ [LifeNext]_lifeVars => LifeInv'
  BY SetupProceeds, SetupEnds, Serving, Teardown, TeardownOver, ClientSteps, RegistrationSteps,
     LifeUnchanged
  DEF LifeNext, LifeProceeds
<1> QED BY LifeStart, <1>1, PTL DEF LifeSpec

-----------------------------------------------------------------------------
\* Whatever watcher runs has the stores it uses, at every step of setup, start and
\* teardown, and only the handler of a connection that outlived the bridge can find a
\* store closed (App.setup, App.teardown).
THEOREM StoresStayOpen == LifeSpec => []StoresOutliveWatchers
<1>1. LifeInv => StoresOutliveWatchers
  <2> SUFFICES ASSUME LifeInv
               PROVE  StoresOutliveWatchers
    OBVIOUS
  <2>1. late => "bridge" \notin running
    BY DEF LifeInv, HandlersInTime
  <2>2. SUFFICES ASSUME NEW w \in running
                 PROVE  Uses(w) \subseteq opened
    BY <2>1 DEF StoresOutliveWatchers
  <2>3. CASE life = "setup"
    BY <2>3, BridgeHasStores, UsesStores DEF LifeInv, SetupInOrder
  <2>4. CASE life \in {"starting", "serving", "stuck"}
    BY <2>4, UsesStores DEF LifeInv, TeardownInOrder
  <2>5. CASE life = "teardown"
    <3>1. PICK i \in 1..19 : w = Stops[i]
      BY StopsHold DEF LifeInv, LifeTypeOK
    <3>2. ~(i < at)
      BY <2>5, <3>1 DEF LifeInv, TeardownInOrder
    <3>3. at \in Nat
      BY StopsHold DEF LifeInv, LifeTypeOK
    <3>4. CASE i \in 1..13
      BY <2>5, <3>2, <3>3, <3>4, UsesStores DEF LifeInv, TeardownInOrder
    <3>5. CASE i \in 14..19
      <4>1. w \in Store
        BY <3>1, <3>5, StopsHold
      <4> QED BY <4>1 DEF Uses, Store
    <3> QED BY <3>4, <3>5
  <2>6. CASE life = "down"
    BY <2>6 DEF LifeInv, TeardownInOrder
  <2> QED BY <2>3, <2>4, <2>5, <2>6 DEF LifeInv, LifeTypeOK, Stage
<1> QED BY LifeInvariant, <1>1, PTL

\* A greeted client to which nothing is still to be sent knows every module asked for
\* in the agent's life (App._handle_module_registration,
\* _replay_module_registrations).
THEOREM RegisteredReachesClient == LifeSpec => []RegisteredIsShown
<1>1. LifeInv => RegisteredIsShown
  BY LifecycleAssumption DEF LifeInv, LifeTypeOK, ModulesKept, RegisteredIsShown
<1> QED BY LifeInvariant, <1>1, PTL

\* The variables keep their types.
THEOREM LifeTypeCorrect == LifeSpec => []LifeTypeOK
<1>1. LifeInv => LifeTypeOK
  BY DEF LifeInv
<1> QED BY LifeInvariant, <1>1, PTL

(***************************************************************************)
(* For any cooldown, quota and length of the day, and however the          *)
(* degradation level moves: how often the pet speaks unasked.              *)
(***************************************************************************)

\* The nudges from t on, those from t up to u, and those of the day that begins at t.
Since(t) == {n \in nudges : t <= n}
Between(t, u) == {n \in nudges : t <= n /\ n < u}
OfDay(t) == Between(t, t + Day)

\* The clock and the tracker, as far as the quota needs them.
CooldownTypeOK ==
    /\ now \in Nat
    /\ level \in 0..6
    /\ nudges \subseteq 0..now
    /\ IsFiniteSet(nudges)
    /\ cooldown \in [last: Nat, count: Nat, window: Nat]
    /\ now < Never

\* The tracker remembers the last nudge, and no two are closer than a cooldown.
LastIsLast ==
    /\ cooldown.last = Never <=> nudges = {}
    /\ \A n \in nudges : n <= cooldown.last
    /\ cooldown.last # Never => cooldown.last \in nudges

Apart == \A m, n \in nudges : m < n => n - m >= Cooldown

\* The window begins with a nudge and holds no more of them than were counted.
WindowCounts ==
    /\ cooldown.window = Never => nudges = {} /\ cooldown.count = 0
    /\ cooldown.window # Never =>
           /\ cooldown.window \in nudges
           /\ Cardinality(Since(cooldown.window)) <= cooldown.count
           /\ cooldown.count <= Quota

\* A day that began before the window and reaches into it lacks the nudge its own
\* window began with.
EarlierDaysLack ==
    \A m \in nudges :
        m < cooldown.window /\ cooldown.window < m + Day =>
            Cardinality(Between(m, cooldown.window)) < Quota

DaysHold == \A m \in nudges : Cardinality(OfDay(m)) < 2 * Quota

QuotaInv == CooldownTypeOK /\ LastIsLast /\ Apart /\ WindowCounts /\ EarlierDaysLack /\ DaysHold

-----------------------------------------------------------------------------
LEMMA QuotaStart == TickInit => QuotaInv
<1> SUFFICES ASSUME TickInit PROVE QuotaInv
  OBVIOUS
<1>1. /\ now = 0 /\ level = 0 /\ nudges = {}
      /\ cooldown = [last |-> Never, count |-> 0, window |-> Never]
  BY DEF TickInit
<1>2. Never \in Nat \ {0}
  BY TickAssumption DEF Never
<1>3. CooldownTypeOK
  BY <1>1, <1>2, FS_EmptySet DEF CooldownTypeOK
<1>4. LastIsLast /\ Apart /\ WindowCounts /\ EarlierDaysLack /\ DaysHold
  BY <1>1 DEF LastIsLast, Apart, WindowCounts, EarlierDaysLack, DaysHold
<1> QED BY <1>3, <1>4 DEF QuotaInv

\* Sets of nudges are finite and their sizes numbers.
LEMMA Sizes ==
    ASSUME CooldownTypeOK, NEW S, S \subseteq nudges
    PROVE  IsFiniteSet(S) /\ Cardinality(S) \in Nat
  BY FS_Subset, FS_CardinalityType DEF CooldownTypeOK

LEMMA Fewer ==
    ASSUME NEW T, IsFiniteSet(T), NEW S, S \subseteq T
    PROVE  IsFiniteSet(S) /\ Cardinality(S) \in Nat /\ Cardinality(S) <= Cardinality(T)
  BY FS_Subset, FS_CardinalityType

\* One nudge more.
LEMMA OneMore ==
    ASSUME NEW S, IsFiniteSet(S), NEW x
    PROVE  /\ IsFiniteSet(S \cup {x})
           /\ Cardinality(S \cup {x}) \in Nat
           /\ Cardinality(S \cup {x}) <= Cardinality(S) + 1
<1>1. Cardinality(S) \in Nat
  BY FS_CardinalityType
<1> QED BY <1>1, FS_AddElement, FS_CardinalityType

\* One of them taken away.
LEMMA OneLess ==
    ASSUME NEW T, IsFiniteSet(T), NEW S, S \subseteq T, NEW x \in T, x \notin S
    PROVE  IsFiniteSet(S) /\ Cardinality(S) \in Nat /\ Cardinality(S) < Cardinality(T)
<1>1. S \subseteq T \ {x}
  OBVIOUS
<1>2. IsFiniteSet(T \ {x}) /\ Cardinality(T \ {x}) = Cardinality(T) - 1
  BY FS_RemoveElement
<1>3. Cardinality(T) \in Nat
  BY FS_CardinalityType
<1> QED BY <1>1, <1>2, <1>3, Fewer

-----------------------------------------------------------------------------
\* CooldownTracker.over_quota rolls the window over only if that leaves room: a
\* quota of at least one is not used up by an empty window.
LEMMA FullWindowStays ==
    ASSUME QuotaInv, OverQuota
    PROVE  RolledOver = cooldown
<1>1. CASE cooldown.window # Never /\ now - cooldown.window >= Day
  <2>1. RolledOver.count = 0
    BY <1>1 DEF RolledOver, QuotaInv, CooldownTypeOK
  <2> QED BY <2>1, TickAssumption DEF OverQuota
<1>2. CASE ~(cooldown.window # Never /\ now - cooldown.window >= Day)
  BY <1>2 DEF RolledOver
<1> QED BY <1>1, <1>2

\* What record_trigger leaves of the tracker.
LEMMA RecordedWindow ==
    ASSUME QuotaInv, ~OverQuota
    PROVE  /\ Recorded \in [last: Nat, count: Nat, window: Nat]
           /\ Recorded.last = now
           /\ \/ /\ cooldown.window = Never \/ now - cooldown.window >= Day
                 /\ Recorded.window = now /\ Recorded.count = 1
              \/ /\ cooldown.window # Never /\ ~(now - cooldown.window >= Day)
                 /\ Recorded.window = cooldown.window
                 /\ Recorded.count = cooldown.count + 1 /\ cooldown.count < Quota
<1> USE DEF QuotaInv, CooldownTypeOK
<1>1. Recorded.last = now
  BY DEF Recorded
<1>2. CASE cooldown.window = Never
  <2>1. RolledOver = cooldown /\ cooldown.count = 0
    BY <1>2 DEF RolledOver, WindowCounts
  <2>2. Recorded = [last |-> now, count |-> 1, window |-> now]
    BY <1>2, <2>1 DEF Recorded
  <2> QED BY <1>2, <2>2
<1>3. CASE cooldown.window # Never /\ now - cooldown.window >= Day
  <2>1. RolledOver = [cooldown EXCEPT !.window = now, !.count = 0]
    BY <1>3 DEF RolledOver
  <2>2. RolledOver.window = now /\ RolledOver.count = 0
    BY <2>1
  <2>3. Recorded = [last |-> now, count |-> 1, window |-> now]
    BY <2>2 DEF Recorded, Never
  <2> QED BY <1>3, <2>3
<1>4. CASE cooldown.window # Never /\ ~(now - cooldown.window >= Day)
  <2>1. RolledOver = cooldown
    BY <1>4 DEF RolledOver
  <2>2. cooldown.count < Quota
    BY <1>4, <2>1, TickAssumption DEF OverQuota
  <2>3. Recorded = [last |-> now, count |-> cooldown.count + 1, window |-> cooldown.window]
    BY <1>4, <2>1 DEF Recorded
  <2> QED BY <1>4, <2>2, <2>3
<1> QED BY <1>2, <1>3, <1>4

-----------------------------------------------------------------------------
\* A nudge, recorded before it is sent (RuleFilter, Dispatcher.on_perception_tick).
LEMMA NudgeKeeps ==
    ASSUME QuotaInv, ~WithinCooldown, ~OverQuota,
           cooldown' = Recorded, nudges' = nudges \cup {now}, now' = now, level' \in 0..6
    PROVE  QuotaInv'
<1>0. PICK W \in Nat : W = Recorded.window
  BY RecordedWindow
<1>1. /\ cooldown' \in [last: Nat, count: Nat, window: Nat]
      /\ cooldown'.last = now
      /\ cooldown'.window = W
      /\ now \in Nat /\ now < Never /\ Never \in Nat /\ Day \in Nat /\ Quota \in Nat \ {0}
      /\ Cooldown \in Nat
      /\ nudges \subseteq 0..now /\ IsFiniteSet(nudges)
  BY <1>0, RecordedWindow, TickAssumption DEF QuotaInv, CooldownTypeOK, Never
<1>8. /\ nudges' = nudges \cup {now} /\ now \in nudges'
      /\ \A n \in nudges' : n \in Nat /\ n <= now
      /\ \A n \in nudges : n \in nudges'
      /\ now \in Nat /\ Day \in Nat
  BY <1>1
<1>2. CooldownTypeOK'
  BY <1>1, OneMore DEF CooldownTypeOK, Never
<1>3. LastIsLast'
  BY <1>1 DEF LastIsLast, Never
<1>4. Apart'
  <2>1. \A n \in nudges : n <= cooldown.last /\ cooldown.last # Never
    BY DEF QuotaInv, LastIsLast
  <2>2. cooldown.last # Never => now - cooldown.last >= Cooldown
    <3> DEFINE d == now - cooldown.last
    <3>1. cooldown.last \in Nat /\ d \in Int
      BY <1>1 DEF QuotaInv, CooldownTypeOK
    <3>2. cooldown.last # Never => ~(d < Cooldown * Multiplier)
      BY DEF WithinCooldown
    <3>3. Cooldown * Multiplier = Cooldown \/ Cooldown * Multiplier = Cooldown + Cooldown
      BY <1>1 DEF Multiplier
    <3> QED BY <1>1, <3>1, <3>2, <3>3
  <2>3. \A n \in nudges : now - n >= Cooldown
    BY <1>1, <2>1, <2>2 DEF QuotaInv, CooldownTypeOK
  <2>4. \A m, n \in nudges : m < n => n - m >= Cooldown
    BY DEF QuotaInv, Apart
  <2> QED BY <1>1, <2>3, <2>4 DEF Apart
<1>5. WindowCounts' /\ W <= now
  <2>1. CASE cooldown.window = Never \/ now - cooldown.window >= Day
    <3>1. W = now /\ cooldown'.count = 1
      BY <2>1, <1>0, RecordedWindow
    <3>2. Since(now)' = {now}
      <4>1. Since(now)' = {n \in nudges' : now <= n}
        BY DEF Since
      <4>2. \A n \in nudges' : now <= n <=> n = now
        BY <1>8
      <4> QED BY <1>8, <4>1, <4>2
    <3>3. Cardinality(Since(now)') = 1
      BY <3>2, FS_Singleton
    <3> QED BY <1>1, <3>1, <3>3 DEF WindowCounts, Never, Since
  <2>2. CASE cooldown.window # Never /\ ~(now - cooldown.window >= Day)
    <3>1. /\ W = cooldown.window /\ cooldown'.count = cooldown.count + 1
          /\ cooldown.count < Quota /\ cooldown.count \in Nat
          /\ W \in nudges /\ Cardinality(Since(W)) <= cooldown.count
      BY <2>2, <1>0, RecordedWindow DEF QuotaInv, WindowCounts, CooldownTypeOK
    <3>2. Since(W)' \subseteq Since(W) \cup {now}
      BY <1>1, <3>1 DEF Since
    <3>3. IsFiniteSet(Since(W)) /\ Cardinality(Since(W)) \in Nat
      BY Sizes DEF Since, QuotaInv
    <3>4. /\ IsFiniteSet(Since(W) \cup {now})
          /\ Cardinality(Since(W) \cup {now}) \in Nat
          /\ Cardinality(Since(W) \cup {now}) <= Cardinality(Since(W)) + 1
      BY <3>3, OneMore
    <3>5. Cardinality(Since(W)') \in Nat /\ Cardinality(Since(W)') <= cooldown.count + 1
      BY <3>1, <3>2, <3>3, <3>4, Fewer
    <3>6. W <= now /\ cooldown.count + 1 <= Quota
      BY <1>1, <3>1
    <3> QED BY <1>1, <3>1, <3>5, <3>6 DEF WindowCounts, Never, Since
  <2> QED BY <2>1, <2>2
<1>6. EarlierDaysLack'
  <2> SUFFICES ASSUME NEW m \in nudges', m < W, W < m + Day
               PROVE  Cardinality(Between(m, W)') < Quota
    BY <1>1 DEF EarlierDaysLack, Between
  <2>1. m \in nudges
    BY <1>1, <1>5
  <2>2. CASE cooldown.window = Never \/ now - cooldown.window >= Day
    <3>1. W = now /\ cooldown.window # Never
      BY <2>1, <2>2, <1>0, RecordedWindow DEF QuotaInv, WindowCounts
    <3>2. /\ cooldown.window \in nudges /\ cooldown.window < m
          /\ Cardinality(Since(cooldown.window)) <= Quota
      <4>1. /\ cooldown.window \in nudges /\ cooldown.count <= Quota /\ cooldown.count \in Nat
            /\ Cardinality(Since(cooldown.window)) <= cooldown.count
        BY <3>1 DEF QuotaInv, WindowCounts, CooldownTypeOK
      <4>2. Cardinality(Since(cooldown.window)) \in Nat
        BY Sizes DEF Since, QuotaInv
      <4>3. cooldown.window < m
        <5>1. now - cooldown.window >= Day /\ now < m + Day
          BY <2>2, <3>1
        <5>2. cooldown.window \in Nat /\ m \in Nat
          BY <1>8, <2>1, <4>1
        <5> QED BY <1>8, <5>1, <5>2
      <4> QED BY <1>1, <4>1, <4>2, <4>3
    <3>3. /\ Between(m, W)' \subseteq Since(cooldown.window)
          /\ cooldown.window \notin Between(m, W)'
          /\ cooldown.window \in Since(cooldown.window)
      <4>1. Between(m, W)' = {n \in nudges' : m <= n /\ n < now}
        BY <3>1 DEF Between
      <4>2. cooldown.window \in Nat /\ m \in Nat
        BY <1>8, <2>1, <3>2
      <4>3. ASSUME NEW n \in Between(m, W)'
            PROVE  n \in nudges /\ cooldown.window <= n /\ n # cooldown.window
        <5>1. n \in nudges' /\ m <= n /\ n < now
          BY <4>1
        <5>2. n \in nudges /\ n \in Nat
          BY <1>8, <5>1
        <5> QED BY <3>2, <4>2, <5>1, <5>2
      <4> QED BY <3>2, <4>2, <4>3 DEF Since
    <3>4. IsFiniteSet(Since(cooldown.window)) /\ Cardinality(Since(cooldown.window)) \in Nat
      BY Sizes DEF Since, QuotaInv
    <3>5. /\ Cardinality(Between(m, W)') \in Nat
          /\ Cardinality(Between(m, W)') < Cardinality(Since(cooldown.window))
      BY <3>3, <3>4, OneLess
    <3> QED BY <1>1, <3>2, <3>4, <3>5
  <2>3. CASE cooldown.window # Never /\ ~(now - cooldown.window >= Day)
    <3>1. W = cooldown.window
      BY <2>3, <1>0, RecordedWindow
    <3>2. Between(m, W)' = Between(m, W)
      BY <1>1, <1>5, <2>1 DEF Between
    <3> QED BY <2>1, <3>1, <3>2 DEF QuotaInv, EarlierDaysLack
  <2> QED BY <2>2, <2>3
<1>7. DaysHold'
  <2> SUFFICES ASSUME NEW m \in nudges'
               PROVE  Cardinality(OfDay(m)') < 2 * Quota
    BY DEF DaysHold, OfDay, Between
  <2>1. W \in Nat /\ W # Never /\ m \in Nat /\ m <= now
    BY <1>1, <1>5 DEF Never
  <2>2. /\ IsFiniteSet(Since(W)') /\ Cardinality(Since(W)') \in Nat
        /\ Cardinality(Since(W)') <= Quota
    <3>1. IsFiniteSet(nudges') /\ Since(W)' \subseteq nudges'
      BY <1>2 DEF CooldownTypeOK, Since
    <3>2. IsFiniteSet(Since(W)') /\ Cardinality(Since(W)') \in Nat
      BY <3>1, Fewer
    <3>3. /\ Cardinality(Since(W)') <= cooldown'.count /\ cooldown'.count <= Quota
          /\ cooldown'.count \in Nat
      BY <1>1, <1>5, <2>1 DEF WindowCounts, Never, Since
    <3> QED BY <1>1, <3>2, <3>3
  <2>3. CASE W <= m
    <3>1. OfDay(m)' \subseteq Since(W)'
      <4>1. OfDay(m)' = {n \in nudges' : m <= n /\ n < m + Day}
        BY DEF OfDay, Between
      <4>2. Since(W)' = {n \in nudges' : W <= n}
        BY DEF Since
      <4>3. ASSUME NEW n \in OfDay(m)'
            PROVE  n \in nudges' /\ W <= n
        <5>1. n \in nudges' /\ m <= n
          BY <4>1
        <5> QED BY <1>8, <2>1, <2>3, <5>1
      <4> QED BY <4>2, <4>3
    <3>2. Cardinality(OfDay(m)') \in Nat /\ Cardinality(OfDay(m)') <= Cardinality(Since(W)')
      BY <2>2, <3>1, Fewer
    <3> QED BY <1>1, <2>2, <3>2
  <2>4. CASE m < W /\ ~(W < m + Day)
    <3>1. m \in nudges
      BY <1>1, <1>5, <2>1, <2>4
    <3>2. OfDay(m)' = OfDay(m)
      BY <1>1, <1>5, <2>1, <2>4 DEF OfDay, Between
    <3> QED BY <3>1, <3>2 DEF QuotaInv, DaysHold
  <2>5. CASE m < W /\ W < m + Day
    <3> DEFINE B == Between(m, W)'
               S == Since(W)'
    <3>1. IsFiniteSet(B) /\ Cardinality(B) \in Nat /\ Cardinality(B) < Quota
      <4>1. IsFiniteSet(nudges') /\ B \subseteq nudges'
        BY <1>2 DEF CooldownTypeOK, Between
      <4>2. Cardinality(B) < Quota
        BY <1>1, <1>6, <2>5 DEF EarlierDaysLack, Between
      <4> QED BY <4>1, <4>2, Fewer
    <3>2. OfDay(m)' \subseteq B \cup S
      <4>1. OfDay(m)' = {n \in nudges' : m <= n /\ n < m + Day}
        BY DEF OfDay, Between
      <4>2. S = {n \in nudges' : W <= n} /\ B = {n \in nudges' : m <= n /\ n < W}
        BY DEF Since, Between
      <4>3. \A n \in nudges' : n < W \/ W <= n
        BY <1>8, <2>1
      <4> QED BY <4>1, <4>2, <4>3
    <3> HIDE DEF B, S
    <3>3. /\ IsFiniteSet(B \cup S)
          /\ Cardinality(B \cup S) = Cardinality(B) + Cardinality(S) - Cardinality(B \cap S)
      BY <2>2, <3>1, FS_Union DEF S
    <3>4. Cardinality(B \cap S) \in Nat
      BY <3>1, Fewer
    <3>5. Cardinality(OfDay(m)') \in Nat /\ Cardinality(OfDay(m)') <= Cardinality(B \cup S)
      BY <3>2, <3>3, Fewer
    <3>6. Cardinality(S) \in Nat /\ Cardinality(S) <= Quota
      BY <2>2 DEF S
    <3> QED BY <1>1, <3>1, <3>3, <3>4, <3>5, <3>6
  <2> QED BY <1>1, <2>1, <2>3, <2>4, <2>5
<1> QED BY <1>2, <1>3, <1>4, <1>5, <1>6, <1>7 DEF QuotaInv

\* Time passes, the level changes, a tick is dropped or finds nothing to say: the
\* tracker and the nudges stay.
LEMMA QuietSteps ==
    ASSUME QuotaInv, cooldown' = cooldown, nudges' = nudges,
           now' \in Nat, now <= now', now' < Never, level' \in 0..6
    PROVE  QuotaInv'
<1>1. CooldownTypeOK'
  <2>1. nudges \subseteq 0..now' /\ now \in Nat
    BY DEF QuotaInv, CooldownTypeOK
  <2> QED BY <2>1 DEF QuotaInv, CooldownTypeOK, Never
<1>2. (LastIsLast /\ Apart)'
  BY DEF QuotaInv, LastIsLast, Apart, Never
<1>3. (WindowCounts /\ EarlierDaysLack /\ DaysHold)'
  BY DEF QuotaInv, WindowCounts, EarlierDaysLack, DaysHold, OfDay, Between, Since, Never
<1> QED BY <1>1, <1>2, <1>3 DEF QuotaInv

LEMMA QuotaStep ==
    ASSUME QuotaInv, [TickNext]_tickVars
    PROVE  QuotaInv'
<1>1. /\ now \in Nat /\ level \in 0..6 /\ now < Never /\ Never \in Nat
      /\ Level \subseteq 0..6 /\ Never = MaxTime + 1 /\ MaxTime \in Nat
  BY TickAssumption DEF QuotaInv, CooldownTypeOK, Never
<1>2. ASSUME NEW app \in App, NEW open \in BOOLEAN, DropTick(app, open)
      PROVE  QuotaInv'
  <2>1. UNCHANGED <<now, level, cooldown, nudges>>
    BY <1>2 DEF DropTick
  <2> QED BY <1>1, <2>1, QuietSteps
<1>3. ASSUME NEW app \in App, NEW open \in BOOLEAN, NEW reach \in 0..2,
             OnPerceptionTick(app, open, reach)
      PROVE  QuotaInv'
  <2>1. UNCHANGED <<now, level>> /\ MaybeTrigger(open)
    BY <1>3 DEF OnPerceptionTick
  <2>2. CASE ~open \/ WithinCooldown
    <3>1. UNCHANGED <<cooldown, nudges>>
      BY <2>1, <2>2 DEF MaybeTrigger
    <3> QED BY <1>1, <2>1, <3>1, QuietSteps
  <2>3. CASE ~(~open \/ WithinCooldown) /\ OverQuota
    <3>1. cooldown' = RolledOver /\ nudges' = nudges
      BY <2>1, <2>3 DEF MaybeTrigger
    <3>2. cooldown' = cooldown
      BY <2>3, <3>1, FullWindowStays
    <3> QED BY <1>1, <2>1, <3>1, <3>2, QuietSteps
  <2>4. CASE ~(~open \/ WithinCooldown) /\ ~OverQuota
    <3>1. cooldown' = Recorded /\ nudges' = nudges \cup {now}
      BY <2>1, <2>4 DEF MaybeTrigger
    <3> QED BY <1>1, <2>1, <2>4, <3>1, NudgeKeeps
  <2> QED BY <2>2, <2>3, <2>4
<1>4. ASSUME NEW l \in Level, SetLevel(l)
      PROVE  QuotaInv'
  <2>1. UNCHANGED <<now, cooldown, nudges>> /\ level' \in 0..6
    BY <1>1, <1>4 DEF SetLevel
  <2> QED BY <1>1, <2>1, QuietSteps
<1>5. CASE Pass
  <2>1. now' = now + 1 /\ now < MaxTime /\ UNCHANGED <<level, cooldown, nudges>>
    BY <1>5 DEF Pass
  <2>2. now' \in Nat /\ now <= now' /\ now' < Never
    BY <1>1, <2>1
  <2> QED BY <1>1, <2>1, <2>2, QuietSteps
<1>6. CASE UNCHANGED tickVars
  <2>1. UNCHANGED <<now, level, cooldown, nudges>>
    BY <1>6 DEF tickVars
  <2> QED BY <1>1, <2>1, QuietSteps
<1> QED BY <1>2, <1>3, <1>4, <1>5, <1>6 DEF TickNext

-----------------------------------------------------------------------------
\* Two nudges are a cooldown apart and no stretch of a day holds two quotas, for any
\* cooldown, day and quota of at least one, through any changes of the degradation
\* level (CooldownTracker, RuleFilter).
THEOREM NudgesStayRare == TickSpec => []NudgesAreRare
<1>1. QuotaInv /\ [TickNext]_tickVars => QuotaInv'
  BY QuotaStep
<1>2. QuotaInv => NudgesAreRare
  BY DEF QuotaInv, Apart, DaysHold, OfDay, Between, NudgesAreRare
<1> QED BY QuotaStart, <1>1, <1>2, PTL DEF TickSpec

-----------------------------------------------------------------------------
(***************************************************************************)
(* The coding sessions that are recorded.                                  *)
(***************************************************************************)
Tracker == [name: App, from: Nat, last: Nat, pending: App, since: Nat, absent: Nat]

SessionTypeOK ==
    /\ now \in Nat /\ now < Never
    /\ tracker \in Tracker
    /\ log \in Seq([ide: Ide, from: Nat, to: Nat])
    /\ visited \in [Ide -> Nat]

\* The tracker's last sight of the editor whose pill is shown is the user's last
\* visit, and the session recorded last was over when this one began.
TrackerIsTrue ==
    /\ tracker.name = Away => tracker.last = Never
    /\ tracker.name # Away =>
           /\ tracker.from <= now
           /\ tracker.last # Never => tracker.last = visited[tracker.name] /\ tracker.last <= now
           /\ Len(log) > 0 => log[Len(log)].to <= tracker.from
    /\ Len(log) > 0 => log[Len(log)].to <= now

SessionInv == SessionTypeOK /\ TrackerIsTrue

\* The same editor's session, of which only the debouncing differs.
SameSession(t, u) == t \in Tracker /\ t.name = u.name /\ t.from = u.from /\ t.last = u.last

\* What _dismiss leaves: no session, and the one there was recorded or not.
Recording(t) == log \o <<[ide |-> t.name, from |-> t.from, to |-> t.last]>>
Dismissed(d, t) ==
    /\ d.tracker \in Tracker /\ d.tracker.name = Away /\ d.tracker.last = Never
    /\ \/ d.log = log
       \/ t.last # Never /\ d.log = Recording(t)

LEMMA DismissLeavesNone ==
    ASSUME NEW t \in Tracker, NEW reach \in Nat, log \in Seq([ide: Ide, from: Nat, to: Nat])
    PROVE  Dismissed(Dismiss(t, reach), t)
<1>1. /\ Forgotten(t) \in Tracker /\ Forgotten(t).name = Away /\ Forgotten(t).last = Never
  <2>1. Never \in Nat /\ Away \in App
    BY TickAssumption DEF Never, App
  <2> QED BY <2>1 DEF Forgotten, Tracker
<1>2. Dismiss(t, reach).tracker = Forgotten(t)
  BY DEF Dismiss
<1>3. \/ Dismiss(t, reach).log = log
      \/ t.last # Never /\ Dismiss(t, reach).log = Recording(t)
  <2>1. CASE reach >= 1 /\ t.last # Never /\ t.last >= t.from /\ t.last - t.from >= MinKept
    BY <2>1 DEF Dismiss, Ended, Recording
  <2>2. CASE reach >= 1 /\ ~(t.last # Never /\ t.last >= t.from /\ t.last - t.from >= MinKept)
    <3>1. Dismiss(t, reach).log = log \o Ended(t) /\ Ended(t) = << >>
      BY <2>2 DEF Dismiss, Ended
    <3> QED BY <3>1
  <2>3. CASE ~(reach >= 1)
    BY <2>3 DEF Dismiss
  <2> QED BY <2>1, <2>2, <2>3
<1> QED BY <1>1, <1>2, <1>3 DEF Dismissed

\* What a tick in app makes of the tracker and the log: nothing, a session begun, a
\* session dismissed, or a dismissal and a beginning in one.
Observed(o, app) ==
    /\ o.tracker \in Tracker
    /\ \/ /\ o.log = log
          /\ SameSession(o.tracker, tracker)
          /\ tracker.name # app \/ tracker.name = Away
       \/ /\ o.log = log
          /\ app # Away /\ tracker.name = app
          /\ o.tracker.name = app /\ o.tracker.from = tracker.from /\ o.tracker.last = now
       \/ /\ tracker.name # app \/ tracker.name = Away
          /\ \/ o.log = log
             \/ tracker.name # Away /\ tracker.last # Never /\ o.log = Recording(tracker)
          /\ \/ o.tracker.name = Away /\ o.tracker.last = Never
             \/ /\ app # Away /\ o.tracker.name = app /\ o.tracker.from = now
                /\ o.tracker.last \in {now, Never}

\* A dismissal counts for the tracker as it was, whatever the debouncing changed.
LEMMA DismissedSame ==
    ASSUME SessionInv, NEW t, SameSession(t, tracker), NEW reach \in Nat, tracker.name # Away
    PROVE  LET d == Dismiss(t, reach) IN
           /\ d.tracker \in Tracker /\ d.tracker.name = Away /\ d.tracker.last = Never
           /\ \/ d.log = log
              \/ tracker.last # Never /\ d.log = Recording(tracker)
  BY DismissLeavesNone DEF SessionInv, SessionTypeOK, SameSession, Dismissed, Recording

LEMMA LeaveObserved ==
    ASSUME SessionInv, NEW reach \in 0..2
    PROVE  Observed(Leave(reach), Away)
<1> DEFINE t == [tracker EXCEPT !.pending = Away, !.since = Never]
           out == IF t.absent = Never THEN now ELSE t.absent
           u == [t EXCEPT !.absent = out]
           d == Dismiss(u, reach)
<1>1. /\ tracker \in Tracker /\ now \in Nat /\ Never \in Nat /\ Away \in App
  BY TickAssumption DEF SessionInv, SessionTypeOK, Never, App
<1>2. SameSession(t, tracker) /\ t.absent = tracker.absent
  BY <1>1 DEF SameSession, Tracker
<1>3. SameSession(u, tracker)
  BY <1>1, <1>2 DEF SameSession, Tracker
<1> HIDE DEF t, u
<1>4. Leave(reach) = CASE t.name = Away -> Kept(t, reach)
                       [] t.name # Away /\ now - out < Grace -> Kept(u, reach)
                       [] OTHER -> IF d.raised THEN d ELSE [d EXCEPT !.tracker.absent = Never]
  BY DEF Leave, t, u
<1>5. CASE t.name = Away
  <2>1. Leave(reach).tracker = t /\ Leave(reach).log = log
    BY <1>4, <1>5 DEF Kept
  <2> QED BY <1>2, <1>5, <2>1 DEF Observed, SameSession
<1>6. CASE t.name # Away /\ now - out < Grace
  <2>1. Leave(reach).tracker = u /\ Leave(reach).log = log
    BY <1>4, <1>6 DEF Kept
  <2> QED BY <1>2, <1>3, <1>6, <2>1 DEF Observed, SameSession
<1>7. CASE t.name # Away /\ ~(now - out < Grace)
  <2>1. /\ d.tracker \in Tracker /\ d.tracker.name = Away /\ d.tracker.last = Never
        /\ \/ d.log = log
           \/ tracker.last # Never /\ d.log = Recording(tracker)
    BY <1>2, <1>3, <1>7, DismissedSame DEF SameSession
  <2>2. Leave(reach) = IF d.raised THEN d ELSE [d EXCEPT !.tracker.absent = Never]
    BY <1>4, <1>7
  <2>3. d = [tracker |-> d.tracker, pill |-> d.pill, log |-> d.log, left |-> d.left,
             raised |-> d.raised]
    BY DEF Dismiss
  <2> HIDE DEF d
  <2>4. /\ Leave(reach).log = d.log
        /\ Leave(reach).tracker = d.tracker
           \/ Leave(reach).tracker = [d.tracker EXCEPT !.absent = Never]
    BY <2>2, <2>3
  <2>5. /\ Leave(reach).tracker \in Tracker
        /\ Leave(reach).tracker.name = Away /\ Leave(reach).tracker.last = Never
    BY <1>1, <2>1, <2>4 DEF Tracker
  <2> QED BY <1>2, <1>7, <2>1, <2>4, <2>5 DEF Observed, SameSession
<1> QED BY <1>5, <1>6, <1>7

LEMMA PresentObserved ==
    ASSUME SessionInv, NEW app \in Ide, NEW t, SameSession(t, tracker), tracker.name # app,
           NEW reach \in 0..2
    PROVE  Observed(Present(t, app, reach), app)
<1> DEFINE d == IF t.name = Away THEN Kept(t, reach) ELSE Dismiss(t, reach)
           entered == [d.tracker EXCEPT !.name = app, !.from = now]
           p == Present(t, app, reach)
<1>1. /\ tracker \in Tracker /\ now \in Nat /\ Never \in Nat /\ Away \in App /\ app \in App
      /\ app # Away
  BY TickAssumption DEF SessionInv, SessionTypeOK, Never, App
<1>2. /\ d.tracker \in Tracker /\ d.tracker.name = Away /\ d.tracker.last = Never
      /\ \/ d.log = log
         \/ tracker.name # Away /\ tracker.last # Never /\ d.log = Recording(tracker)
  <2>1. CASE t.name = Away
    BY <2>1 DEF Kept, SameSession, SessionInv, TrackerIsTrue
  <2>2. CASE t.name # Away
    BY <2>2, DismissedSame DEF SameSession
  <2> QED BY <2>1, <2>2
<1>3. d = [tracker |-> d.tracker, pill |-> d.pill, log |-> d.log, left |-> d.left,
           raised |-> d.raised]
  BY DEF Dismiss, Kept
<1>4. p = IF d.raised THEN d
          ELSE IF d.left = 0 THEN [d EXCEPT !.tracker = entered, !.raised = TRUE]
          ELSE [d EXCEPT !.tracker = [entered EXCEPT !.last = now], !.pill = app, !.left = @ - 1]
  BY DEF Present
<1> HIDE DEF d, p
<1>5. p.log = d.log
  BY <1>3, <1>4
<1>6. p.tracker \in {d.tracker, entered, [entered EXCEPT !.last = now]}
  BY <1>3, <1>4
<1>7. /\ entered \in Tracker /\ entered.name = app /\ entered.from = now /\ entered.last = Never
      /\ [entered EXCEPT !.last = now] \in Tracker
      /\ [entered EXCEPT !.last = now].name = app /\ [entered EXCEPT !.last = now].from = now
      /\ [entered EXCEPT !.last = now].last = now
  BY <1>1, <1>2 DEF Tracker
<1>8. Observed(p, app)
  BY <1>1, <1>2, <1>5, <1>6, <1>7 DEF Observed
<1> QED BY <1>8 DEF p

LEMMA EnterObserved ==
    ASSUME SessionInv, NEW app \in Ide, NEW reach \in 0..2
    PROVE  Observed(Enter(app, reach), app)
<1> DEFINE t == [tracker EXCEPT !.absent = Never]
           fresh == t.pending # app
           since == IF fresh THEN now ELSE t.since
           seen1 == [t EXCEPT !.last = now, !.pending = Away, !.since = Never]
           waits == [t EXCEPT !.pending = app, !.since = since]
           calm == [t EXCEPT !.pending = Away, !.since = Never]
<1>1. /\ tracker \in Tracker /\ now \in Nat /\ Never \in Nat /\ Away \in App /\ app \in App
      /\ app # Away
  BY TickAssumption DEF SessionInv, SessionTypeOK, Never, App
<1>2. SameSession(t, tracker) /\ t \in Tracker
  BY <1>1 DEF SameSession, Tracker
<1>3. since \in Nat
  BY <1>1, <1>2 DEF Tracker
<1> HIDE DEF t, since
<1>4. /\ SameSession(waits, tracker) /\ SameSession(calm, tracker)
      /\ seen1 \in Tracker /\ seen1.name = tracker.name /\ seen1.from = tracker.from
      /\ seen1.last = now
  BY <1>1, <1>2, <1>3 DEF SameSession, Tracker
<1>5. Enter(app, reach) =
        CASE t.name = app -> Kept(seen1, reach)
          [] t.name # app /\ ((fresh /\ Dwell > 0) \/ now - since < Dwell) -> Kept(waits, reach)
          [] OTHER -> Present(calm, app, reach)
  BY DEF Enter, t, since
<1> HIDE DEF seen1, waits, calm, fresh
<1>6. CASE t.name = app
  <2>1. Enter(app, reach).tracker = seen1 /\ Enter(app, reach).log = log
    BY <1>5, <1>6 DEF Kept
  <2> QED BY <1>1, <1>2, <1>4, <1>6, <2>1 DEF Observed, SameSession
<1>7. CASE t.name # app /\ ((fresh /\ Dwell > 0) \/ now - since < Dwell)
  <2>1. Enter(app, reach).tracker = waits /\ Enter(app, reach).log = log
    BY <1>5, <1>7 DEF Kept
  <2> QED BY <1>2, <1>4, <1>7, <2>1 DEF Observed, SameSession
<1>8. CASE t.name # app /\ ~((fresh /\ Dwell > 0) \/ now - since < Dwell)
  <2>1. Enter(app, reach) = Present(calm, app, reach)
    BY <1>5, <1>8
  <2> QED BY <1>2, <1>4, <1>8, <2>1, PresentObserved DEF SameSession
<1> QED BY <1>6, <1>7, <1>8

\* The last row of a log has an end.
LEMMA LastRow ==
    ASSUME NEW l \in Seq([ide: Ide, from: Nat, to: Nat]), Len(l) > 0
    PROVE  l[Len(l)].to \in Nat
<1>1. Len(l) \in 1..Len(l)
  OBVIOUS
<1>2. l[Len(l)] \in [ide: Ide, from: Nat, to: Nat]
  BY <1>1, ElementOfSeq
<1> QED BY <1>2

\* The rows a step adds end with the last visit and begin after the row before.
RowsAreTrue ==
    \A i \in DOMAIN log' : i > Len(log) =>
        /\ log'[i].to = visited[log'[i].ide]
        /\ i > 1 => log'[i].from >= log'[i - 1].to

LEMMA SessionStart == TickInit => SessionInv
<1> SUFFICES ASSUME TickInit PROVE SessionInv
  OBVIOUS
<1>1. Never \in Nat \ {0} /\ Away \in App
  BY TickAssumption DEF Never, App
<1>2. SessionTypeOK
  BY <1>1 DEF TickInit, SessionTypeOK, Tracker
<1>3. TrackerIsTrue
  BY DEF TickInit, TrackerIsTrue
<1> QED BY <1>2, <1>3 DEF SessionInv

LEMMA TickRecordsTruly ==
    ASSUME SessionInv, NEW app \in App, NEW open \in BOOLEAN, NEW reach \in 0..2,
           OnPerceptionTick(app, open, reach)
    PROVE  SessionInv' /\ RowsAreTrue
<1> DEFINE o == Observe(app, reach)
<1>1. Observed(o, app)
  BY LeaveObserved, EnterObserved DEF Observe, App
<1>2. /\ tracker' = o.tracker /\ log' = o.log /\ now' = now
      /\ visited' = IF app = Away THEN visited ELSE [visited EXCEPT ![app] = now]
  BY DEF OnPerceptionTick
<1> HIDE DEF o
<1>3. /\ tracker \in Tracker /\ tracker' \in Tracker /\ now \in Nat /\ now < Never /\ Never \in Nat
      /\ visited \in [Ide -> Nat] /\ log \in Seq([ide: Ide, from: Nat, to: Nat])
      /\ Len(log) \in Nat
  BY <1>1, <1>2, TickAssumption DEF SessionInv, SessionTypeOK, Observed, Never
<1>4. visited' \in [Ide -> Nat] /\ \A i \in Ide : i # app => visited'[i] = visited[i]
  BY <1>2, <1>3
<1>5. app # Away => app \in Ide /\ visited'[app] = now
  BY <1>2, <1>3 DEF App
<1>6. tracker.name # Away => tracker.name \in Ide
  BY <1>3 DEF Tracker, App
<1>7. \/ log' = log
      \/ /\ tracker.name # Away /\ tracker.last # Never /\ log' = Recording(tracker)
         /\ \/ tracker'.name = Away /\ tracker'.last = Never
            \/ /\ app # Away /\ tracker'.name = app /\ tracker'.from = now
               /\ tracker'.last \in {now, Never}
  BY <1>1, <1>2 DEF Observed
<1>8. CASE log' = log
  <2>1. RowsAreTrue
    BY <1>3, <1>8 DEF RowsAreTrue
  <2>2. TrackerIsTrue'
    <3>1. CASE SameSession(tracker', tracker) /\ (tracker.name # app \/ tracker.name = Away)
      <4>1. tracker.name # Away => visited'[tracker.name] = visited[tracker.name]
        BY <1>4, <1>6, <3>1
      <4> QED BY <1>2, <1>3, <1>8, <3>1, <4>1
              DEF SessionInv, TrackerIsTrue, SameSession
    <3>2. CASE /\ app # Away /\ tracker.name = app
               /\ tracker'.name = app /\ tracker'.from = tracker.from /\ tracker'.last = now
      BY <1>2, <1>3, <1>5, <1>8, <3>2 DEF SessionInv, TrackerIsTrue
    <3>3. CASE tracker'.name = Away /\ tracker'.last = Never
      BY <1>2, <1>3, <1>8, <3>3 DEF SessionInv, TrackerIsTrue
    <3>4. CASE /\ app # Away /\ tracker'.name = app /\ tracker'.from = now
               /\ tracker'.last \in {now, Never}
      BY <1>2, <1>3, <1>5, <1>8, <3>4 DEF SessionInv, TrackerIsTrue, Never
    <3> QED BY <1>1, <1>2, <3>1, <3>2, <3>3, <3>4 DEF Observed
  <2>3. SessionTypeOK'
    BY <1>2, <1>3, <1>4, <1>8 DEF SessionTypeOK, Never
  <2> QED BY <2>1, <2>2, <2>3 DEF SessionInv
<1>9. CASE /\ tracker.name # Away /\ tracker.last # Never /\ log' = Recording(tracker)
           /\ \/ tracker'.name = Away /\ tracker'.last = Never
              \/ /\ app # Away /\ tracker'.name = app /\ tracker'.from = now
                 /\ tracker'.last \in {now, Never}
  <2> DEFINE row == [ide |-> tracker.name, from |-> tracker.from, to |-> tracker.last]
  <2>1. /\ row.ide = tracker.name /\ row.from = tracker.from /\ row.to = tracker.last
        /\ row.to = visited[row.ide] /\ row.to <= now
        /\ Len(log) > 0 => log[Len(log)].to <= row.from
        /\ row \in [ide: Ide, from: Nat, to: Nat]
    BY <1>3, <1>6, <1>9 DEF SessionInv, TrackerIsTrue, Tracker
  <2>2. log' = Append(log, row)
    BY <1>3, <1>9, <2>1 DEF Recording
  <2> HIDE DEF row
  <2>3. /\ log' \in Seq([ide: Ide, from: Nat, to: Nat])
        /\ Len(log') = Len(log) + 1
        /\ log'[Len(log) + 1] = row
        /\ Len(log) > 0 => log'[Len(log)] = log[Len(log)]
        /\ DOMAIN log' = 1..Len(log) + 1
    BY <1>3, <2>1, <2>2
  <2>4. RowsAreTrue
    <3> SUFFICES ASSUME NEW i \in DOMAIN log', i > Len(log)
                 PROVE  /\ log'[i].to = visited[log'[i].ide]
                        /\ i > 1 => log'[i].from >= log'[i - 1].to
      BY DEF RowsAreTrue
    <3>1. i = Len(log) + 1
      BY <1>3, <2>3
    <3>2. Len(log) > 0 => log[Len(log)].to \in Nat
      BY <1>3, LastRow
    <3>3. i > 1 => Len(log) > 0 /\ log'[i - 1] = log[Len(log)]
      BY <1>3, <2>3, <3>1
    <3>4. row.from \in Nat
      BY <2>1
    <3> QED BY <1>3, <2>1, <2>3, <3>1, <3>2, <3>3, <3>4
  <2>5. TrackerIsTrue'
    <3>1. log'[Len(log')].to <= now
      BY <2>1, <2>3
    <3>2. CASE tracker'.name = Away /\ tracker'.last = Never
      BY <1>2, <3>1, <3>2 DEF TrackerIsTrue, Never
    <3>3. CASE /\ app # Away /\ tracker'.name = app /\ tracker'.from = now
               /\ tracker'.last \in {now, Never}
      BY <1>2, <1>3, <1>5, <3>1, <3>3 DEF TrackerIsTrue, Never
    <3> QED BY <1>9, <3>2, <3>3
  <2>6. SessionTypeOK'
    BY <1>2, <1>3, <1>4, <2>3 DEF SessionTypeOK, Never
  <2> QED BY <2>4, <2>5, <2>6 DEF SessionInv
<1> QED BY <1>7, <1>8, <1>9

LEMMA SessionStep ==
    ASSUME SessionInv, [TickNext]_tickVars
    PROVE  SessionInv' /\ RowsAreTrue
<1>1. ASSUME UNCHANGED <<tracker, log, visited>>, now' \in Nat, now <= now', now' < Never
      PROVE  SessionInv' /\ RowsAreTrue
  <2>1. /\ now \in Nat /\ log \in Seq([ide: Ide, from: Nat, to: Nat]) /\ tracker \in Tracker
        /\ visited \in [Ide -> Nat] /\ Never \in Nat
    BY TickAssumption DEF SessionInv, SessionTypeOK, Never
  <2>2. RowsAreTrue
    BY <1>1, <2>1 DEF RowsAreTrue
  <2>3. SessionTypeOK'
    BY <1>1, <2>1 DEF SessionTypeOK, Never
  <2>4. Len(log) > 0 => log[Len(log)].to \in Nat
    BY <2>1, LastRow
  <2>5. tracker.from \in Nat /\ tracker.last \in Nat
    BY <2>1 DEF Tracker
  <2>6. TrackerIsTrue'
    BY <1>1, <2>1, <2>4, <2>5 DEF SessionInv, TrackerIsTrue, Never
  <2> QED BY <2>2, <2>3, <2>6 DEF SessionInv
<1>2. now \in Nat /\ now < Never /\ Never = MaxTime + 1 /\ MaxTime \in Nat
  BY TickAssumption DEF SessionInv, SessionTypeOK, Never
<1>3. ASSUME NEW app \in App, NEW open \in BOOLEAN, DropTick(app, open)
      PROVE  SessionInv' /\ RowsAreTrue
  BY <1>1, <1>2, <1>3 DEF DropTick
<1>4. ASSUME NEW l \in Level, SetLevel(l)
      PROVE  SessionInv' /\ RowsAreTrue
  BY <1>1, <1>2, <1>4 DEF SetLevel
<1>5. CASE Pass
  BY <1>1, <1>2, <1>5 DEF Pass
<1>6. CASE UNCHANGED tickVars
  BY <1>1, <1>2, <1>6 DEF tickVars
<1> QED BY <1>3, <1>4, <1>5, <1>6, TickRecordsTruly DEF TickNext

\* A coding session that is recorded ends with the last tick seen in its editor, and
\* none overlaps the one before, whatever intents are lost (CodingSessionTracker,
\* record_coding_session).
THEOREM SessionsEndTruly == TickSpec => SessionsEndInTheEditor
<1>1. SessionInv /\ [TickNext]_tickVars => SessionInv'
  BY SessionStep
<1>2. SessionInv /\ [TickNext]_tickVars =>
        [\A i \in DOMAIN log' : i > Len(log) =>
            /\ log'[i].to = visited[log'[i].ide]
            /\ i > 1 => log'[i].from >= log'[i - 1].to]_tickVars
  BY SessionStep DEF RowsAreTrue
<1> QED BY SessionStart, <1>1, <1>2, PTL DEF TickSpec, SessionsEndInTheEditor

-----------------------------------------------------------------------------
(***************************************************************************)
(* What a tick sets off keeps its types: no moment but the clock's own is  *)
(* ever taken down, and no session without an editor is recorded.          *)
(***************************************************************************)
TypedTracker == [name: App, from: Moment, last: Moment, pending: App, since: Moment, absent: Moment]

\* One handling of a tick leaves these (the members of what Observe returns).
TypedOutcome(o) ==
    /\ o.tracker \in TypedTracker
    /\ o.pill \in App
    /\ o.log \in Seq(Session)

\* A pill that is dismissed stands for an editor (_dismiss).
LEMMA DismissTyped ==
    ASSUME pill \in App, log \in Seq(Session),
           NEW t \in TypedTracker, t.name # Away, NEW reach \in 0..2
    PROVE  TypedOutcome(Dismiss(t, reach)) /\ Dismiss(t, reach).left \in 0..2
<1>1. Forgotten(t) \in TypedTracker
  BY DEF Forgotten, TypedTracker, App, Moment
<1>2. Ended(t) \in Seq(Session)
  <2>1. t.name \in Ide /\ t.from \in Moment /\ t.last \in Moment
    BY DEF TypedTracker, App
  <2>2. ASSUME t.last # Never, t.last >= t.from
        PROVE  [ide |-> t.name, from |-> t.from, to |-> t.last] \in Session
    BY <2>1, <2>2, TickAssumption DEF Session, Moment, Time, Never
  <2> QED BY <2>2 DEF Ended
<1>3. log \o Ended(t) \in Seq(Session)
  BY <1>2
<1> QED BY <1>1, <1>3 DEF TypedOutcome, Dismiss, App

LEMMA ObserveTyped ==
    ASSUME TickTypeOK, NEW app \in App, NEW reach \in 0..2
    PROVE  TypedOutcome(Observe(app, reach))
<1>0. /\ now \in Moment /\ Never \in Moment /\ tracker \in TypedTracker
      /\ pill \in App /\ log \in Seq(Session) /\ Away \in App
  BY DEF TickTypeOK, Moment, TypedTracker, App
<1>1. CASE app = Away
  <2> DEFINE t == [tracker EXCEPT !.pending = Away, !.since = Never]
             out == IF t.absent = Never THEN now ELSE t.absent
             u == [t EXCEPT !.absent = out]
             d == Dismiss(u, reach)
  <2>1. t \in TypedTracker /\ u \in TypedTracker /\ u.name = t.name
    BY <1>0 DEF TypedTracker
  <2>2. t.name # Away => TypedOutcome(d)
    <3> HIDE DEF u
    <3> QED BY <1>0, <2>1, DismissTyped
  <2>3. Leave(reach) = CASE t.name = Away -> Kept(t, reach)
                         [] t.name # Away /\ now - out < Grace -> Kept(u, reach)
                         [] OTHER -> IF d.raised THEN d ELSE [d EXCEPT !.tracker.absent = Never]
    BY DEF Leave
  <2> HIDE DEF t, out, u
  <2>4. t.name # Away => TypedOutcome([d EXCEPT !.tracker.absent = Never])
    <3>1. ASSUME NEW r \in TypedTracker
          PROVE  [r EXCEPT !.absent = Never] \in TypedTracker
      BY <1>0 DEF TypedTracker
    <3>2. [d EXCEPT !.tracker.absent = Never].tracker = [d.tracker EXCEPT !.absent = Never]
          /\ [d EXCEPT !.tracker.absent = Never].pill = d.pill
          /\ [d EXCEPT !.tracker.absent = Never].log = d.log
      BY DEF Dismiss
    <3> QED BY <2>2, <3>1, <3>2 DEF TypedOutcome
  <2>5. TypedOutcome(Kept(t, reach)) /\ TypedOutcome(Kept(u, reach))
    BY <1>0, <2>1 DEF TypedOutcome, Kept
  <2>6. CASE t.name = Away
    BY <1>1, <2>3, <2>5, <2>6 DEF Observe
  <2>7. CASE t.name # Away /\ now - out < Grace
    BY <1>1, <2>3, <2>5, <2>7 DEF Observe
  <2>8. CASE t.name # Away /\ ~(now - out < Grace)
    <3>1. Leave(reach) = IF d.raised THEN d ELSE [d EXCEPT !.tracker.absent = Never]
      BY <2>3, <2>8
    <3> HIDE DEF d
    <3> QED BY <1>1, <2>2, <2>4, <2>8, <3>1 DEF Observe
  <2> QED BY <2>6, <2>7, <2>8
<1>2. CASE app # Away
  <2> DEFINE t == [tracker EXCEPT !.absent = Never]
             fresh == t.pending # app
             since == IF fresh THEN now ELSE t.since
             s == [t EXCEPT !.last = now, !.pending = Away, !.since = Never]
             w == [t EXCEPT !.pending = app, !.since = since]
             p == [t EXCEPT !.pending = Away, !.since = Never]
             d == IF p.name = Away THEN Kept(p, reach) ELSE Dismiss(p, reach)
  <2>1. /\ t \in TypedTracker /\ s \in TypedTracker /\ w \in TypedTracker /\ p \in TypedTracker
    BY <1>0 DEF TypedTracker
  <2>2. TypedOutcome(d) /\ d.left \in 0..2
    <3>1. TypedOutcome(Kept(p, reach)) /\ Kept(p, reach).left = reach
      BY <1>0, <2>1 DEF TypedOutcome, Kept
    <3>2. p.name # Away => TypedOutcome(Dismiss(p, reach)) /\ Dismiss(p, reach).left \in 0..2
      <4> HIDE DEF p
      <4> QED BY <1>0, <2>1, DismissTyped
    <3> HIDE DEF p
    <3> QED BY <3>1, <3>2
  <2>3. Present(p, app, reach) =
            LET begun == [d.tracker EXCEPT !.name = app, !.from = now]
            IN IF d.raised THEN d
               ELSE IF d.left = 0 THEN [d EXCEPT !.tracker = begun, !.raised = TRUE]
               ELSE [d EXCEPT !.tracker = [begun EXCEPT !.last = now], !.pill = app, !.left = @ - 1]
    BY DEF Present
  <2>4. Enter(app, reach) =
            CASE t.name = app -> Kept(s, reach)
              [] t.name # app /\ ((fresh /\ Dwell > 0) \/ now - since < Dwell) -> Kept(w, reach)
              [] OTHER -> Present(p, app, reach)
    BY DEF Enter
  <2>5. DOMAIN d = {"tracker", "pill", "log", "left", "raised"}
    BY DEF Kept, Dismiss
  <2> HIDE DEF s, w, p, d
  <2>6. TypedOutcome(Present(p, app, reach))
    <3> DEFINE begun == [d.tracker EXCEPT !.name = app, !.from = now]
    <3>1. begun \in TypedTracker /\ [begun EXCEPT !.last = now] \in TypedTracker
      BY <1>0, <2>2 DEF TypedTracker, TypedOutcome
    <3> HIDE DEF begun
    <3>2. TypedOutcome([d EXCEPT !.tracker = begun, !.raised = TRUE])
      BY <2>2, <2>5, <3>1 DEF TypedOutcome
    <3>3. TypedOutcome([d EXCEPT !.tracker = [begun EXCEPT !.last = now], !.pill = app, !.left = @ - 1])
      BY <2>2, <2>5, <3>1 DEF TypedOutcome
    <3>4. Present(p, app, reach) \in
             {d, [d EXCEPT !.tracker = begun, !.raised = TRUE],
              [d EXCEPT !.tracker = [begun EXCEPT !.last = now], !.pill = app, !.left = @ - 1]}
      BY <2>3 DEF begun
    <3> QED BY <2>2, <3>2, <3>3, <3>4
  <2>7. TypedOutcome(Kept(s, reach)) /\ TypedOutcome(Kept(w, reach))
    BY <1>0, <2>1 DEF TypedOutcome, Kept
  <2> HIDE DEF t, fresh, since
  <2> QED BY <1>2, <2>4, <2>6, <2>7 DEF Observe
<1> QED BY <1>1, <1>2

LEMMA TickTypeStart == TickInit => TickTypeOK
<1>1. 0 \in Time /\ Never \in Moment /\ Away \in App /\ << >> \in Seq(Session)
  BY TickAssumption DEF Time, Moment, App
<1> QED BY <1>1, TickAssumption DEF TickInit, TickTypeOK

LEMMA TickTypeStep == TickTypeOK /\ [TickNext]_tickVars => TickTypeOK'
<1> SUFFICES ASSUME TickTypeOK, [TickNext]_tickVars PROVE TickTypeOK'
  OBVIOUS
<1>0. now \in Time /\ now \in Moment
  BY DEF TickTypeOK, Moment
<1>1. ASSUME NEW app \in App, NEW open \in BOOLEAN, DropTick(app, open)
      PROVE  TickTypeOK'
  BY <1>0, <1>1 DEF TickTypeOK, DropTick
<1>2. ASSUME NEW app \in App, NEW open \in BOOLEAN, NEW reach \in 0..2,
             OnPerceptionTick(app, open, reach)
      PROVE  TickTypeOK'
  <2> DEFINE o == Observe(app, reach)
  <2>1. TypedOutcome(o)
    BY ObserveTyped
  <2>2. tracker' = o.tracker /\ pill' = o.pill /\ log' = o.log
    BY <1>2 DEF OnPerceptionTick
  <2>3. (run \in [app: App \cup {Broken}, from: Time, last: Time])'
    BY <1>0, <1>2 DEF TickTypeOK, OnPerceptionTick, Follow
  <2>4. (cooldown \in [last: Moment, count: Nat, window: Moment])' /\ (nudges \subseteq Time)'
    <3>1. RolledOver \in [last: Moment, count: Nat, window: Moment]
      BY <1>0 DEF TickTypeOK, RolledOver
    <3>2. Recorded \in [last: Moment, count: Nat, window: Moment]
      BY <1>0, <3>1 DEF Recorded
    <3> QED BY <1>0, <1>2, <3>1, <3>2 DEF TickTypeOK, OnPerceptionTick, MaybeTrigger
  <2>5. (losses \in 0..MaxLosses)' /\ (visited \in [Ide -> Moment])'
    BY <1>0, <1>2, TickAssumption DEF TickTypeOK, OnPerceptionTick, App
  <2>6. (seen \in [app: App, open: BOOLEAN, at: Moment])'
    BY <1>0, <1>2 DEF OnPerceptionTick
  <2>7. (now \in Time /\ level \in Level /\ shifts \in 0..MaxShifts)'
    BY <1>2 DEF TickTypeOK, OnPerceptionTick
  <2> HIDE DEF o
  <2>8. (tracker \in [name: App, from: Moment, last: Moment, pending: App, since: Moment, absent: Moment]
         /\ pill \in App /\ log \in Seq(Session))'
    BY <2>1, <2>2 DEF TypedOutcome, TypedTracker
  <2> QED BY <2>3, <2>4, <2>5, <2>6, <2>7, <2>8 DEF TickTypeOK
<1>3. ASSUME NEW l \in Level, SetLevel(l)
      PROVE  TickTypeOK'
  BY <1>3, TickAssumption DEF TickTypeOK, SetLevel
<1>4. CASE Pass
  BY <1>4, TickAssumption DEF TickTypeOK, Pass, Time
<1>5. CASE UNCHANGED tickVars
  BY <1>5 DEF TickTypeOK, tickVars
<1> QED BY <1>1, <1>2, <1>3, <1>4, <1>5 DEF TickNext

\* On any number of editors, for any intervals and losses, what a tick sets off keeps its
\* types: every session that is recorded is an editor's (dispatcher.on_perception_tick).
THEOREM TickTypeCorrect == TickSpec => []TickTypeOK
<1> QED BY TickTypeStart, TickTypeStep, PTL DEF TickSpec

-----------------------------------------------------------------------------
(***************************************************************************)
(* The pill and the application in front.                                  *)
(***************************************************************************)

\* What the debouncing waits with has begun.
DebounceOK(t) ==
    /\ t.absent # Never => t.absent <= now
    /\ t.pending # Away => t.since <= now

\* With the application in front from moment `from`, and last let through at `upto`, the
\* pill is the one it should have, or is waited with since before that moment.
Settling(t, app, from, upto) ==
    \/ t.name = app
    \/ app = Away /\ t.absent # Never /\ t.absent <= from /\ upto - t.absent < Grace
    \/ app # Away /\ t.pending = app /\ t.since <= from /\ upto - t.since < Dwell

\* A run of ticks is let through again before two gaps are over.
RunIsSeen ==
    /\ seen.app = run.app
    /\ seen.at \in Nat /\ run.from \in Nat /\ run.last \in Nat
    /\ run.from <= seen.at /\ seen.at <= run.last /\ run.last <= now
    /\ run.last = seen.at \/ run.last - seen.at < Gap * 2

FollowInv ==
    /\ SessionInv
    /\ losses \in Nat /\ level \in Level /\ seen.at \in Nat
    /\ run \in [app : App \cup {Broken}, from : Nat, last : Nat]
    /\ losses = 0 => pill = tracker.name
    /\ DebounceOK(tracker)
    /\ run.app # Broken => RunIsSeen /\ Settling(tracker, run.app, run.from, seen.at)

\* What one tick let through leaves of the tracker and the pill.
Followed(o, app, reach) ==
    /\ DebounceOK(o.tracker)
    /\ reach = 2 /\ pill = tracker.name => o.pill = o.tracker.name
    /\ ~o.raised => /\ Settling(o.tracker, app, now, now)
                    /\ \A from \in Nat, upto \in Nat :
                          from <= upto /\ upto <= now /\ Settling(tracker, app, from, upto)
                             => Settling(o.tracker, app, from, now)

LEMMA DismissFollows ==
    ASSUME SessionInv, NEW t \in Tracker, NEW reach \in 0..2
    PROVE  LET d == Dismiss(t, reach) IN
           /\ d.tracker \in Tracker /\ d.tracker.name = Away
           /\ d.tracker.absent = t.absent /\ d.tracker.pending = t.pending /\ d.tracker.since = t.since
           /\ reach = 2 => d.pill = Away /\ d.left = 1 /\ d.raised = FALSE
           /\ d.raised \in BOOLEAN
<1> DEFINE d == Dismiss(t, reach)
<1>1. Never \in Nat /\ Away \in App
  BY TickAssumption DEF Never, App
<1>2. /\ Forgotten(t) \in Tracker /\ Forgotten(t).name = Away /\ Forgotten(t).absent = t.absent
      /\ Forgotten(t).pending = t.pending /\ Forgotten(t).since = t.since
  BY <1>1 DEF Forgotten, Tracker
<1>3. d.tracker = Forgotten(t) /\ d.raised \in BOOLEAN
  BY DEF Dismiss
<1>4. reach = 2 => d.pill = Away /\ d.left = 1 /\ d.raised = FALSE
  BY DEF Dismiss
<1> QED BY <1>2, <1>3, <1>4

LEMMA LeaveFollows ==
    ASSUME FollowInv, NEW reach \in 0..2
    PROVE  Followed(Leave(reach), Away, reach)
<1> DEFINE t == [tracker EXCEPT !.pending = Away, !.since = Never]
           out == IF t.absent = Never THEN now ELSE t.absent
           stays == [t EXCEPT !.absent = out]
           d == Dismiss(stays, reach)
           gone == [d EXCEPT !.tracker.absent = Never]
<1>1. /\ tracker \in Tracker /\ now \in Nat /\ now < Never /\ Never \in Nat /\ Away \in App
      /\ Grace \in Nat
  BY TickAssumption DEF FollowInv, SessionInv, SessionTypeOK, Never, App
<1>2. /\ t \in Tracker /\ t.name = tracker.name /\ t.pending = Away /\ t.absent = tracker.absent
  BY <1>1 DEF Tracker
<1>3. /\ out \in Nat /\ out <= now /\ out # Never
      /\ tracker.absent # Never => out = tracker.absent
  BY <1>1, <1>2 DEF FollowInv, DebounceOK, Tracker
<1> HIDE DEF t, out
<1>4. /\ stays \in Tracker /\ stays.name = tracker.name /\ stays.pending = Away /\ stays.absent = out
  BY <1>2, <1>3 DEF Tracker
<1>5. Leave(reach) = CASE t.name = Away -> Kept(t, reach)
                       [] t.name # Away /\ now - out < Grace -> Kept(stays, reach)
                       [] OTHER -> IF d.raised THEN d ELSE gone
  BY DEF Leave, t, out
<1> HIDE DEF stays
<1>6. CASE t.name = Away
  <2>1. Leave(reach).tracker = t /\ Leave(reach).pill = pill
    BY <1>5, <1>6 DEF Kept
  <2>2. DebounceOK(t)
    BY <1>2 DEF FollowInv, DebounceOK
  <2> QED BY <1>2, <1>6, <2>1, <2>2 DEF Followed, Settling
<1>7. CASE t.name # Away /\ now - out < Grace
  <2>1. Leave(reach).tracker = stays /\ Leave(reach).pill = pill
    BY <1>5, <1>7 DEF Kept
  <2>2. DebounceOK(stays)
    BY <1>3, <1>4 DEF DebounceOK
  <2>3. ASSUME NEW from \in Nat, NEW upto \in Nat, from <= upto, upto <= now,
               Settling(tracker, Away, from, upto)
        PROVE  Settling(stays, Away, from, now)
    BY <1>1, <1>2, <1>3, <1>4, <1>7, <2>3 DEF Settling
  <2>4. Settling(stays, Away, now, now)
    BY <1>3, <1>4, <1>7 DEF Settling
  <2> QED BY <1>4, <2>1, <2>2, <2>3, <2>4 DEF Followed
<1>8. CASE t.name # Away /\ ~(now - out < Grace)
  <2>1. Leave(reach) = IF d.raised THEN d ELSE gone
    BY <1>5, <1>8
  <2>2. /\ d.tracker \in Tracker /\ d.tracker.name = Away /\ d.tracker.absent = out
        /\ d.tracker.pending = Away /\ d.raised \in BOOLEAN
        /\ reach = 2 => d.pill = Away /\ d.raised = FALSE
    BY <1>1, <1>4, DismissFollows DEF FollowInv
  <2>3. /\ gone.tracker.name = Away /\ gone.tracker.absent = Never /\ gone.tracker.pending = Away
        /\ gone.pill = d.pill /\ gone.raised = d.raised
    <3>1. d \in [tracker : {d.tracker}, pill : {d.pill}, log : {d.log}, left : {d.left}, raised : {d.raised}]
      BY DEF Dismiss
    <3> HIDE DEF d
    <3> QED BY <2>2, <3>1 DEF Tracker
  <2> HIDE DEF d, gone
  <2>4. CASE d.raised
    <3>1. Leave(reach) = d
      BY <2>1, <2>4
    <3> QED BY <1>3, <2>2, <2>4, <3>1 DEF Followed, DebounceOK
  <2>5. CASE ~d.raised
    <3>1. Leave(reach) = gone
      BY <2>1, <2>5
    <3> QED BY <2>2, <2>3, <3>1 DEF Followed, DebounceOK, Settling
  <2> QED BY <2>4, <2>5
<1> QED BY <1>6, <1>7, <1>8

LEMMA PresentFollows ==
    ASSUME FollowInv, NEW app \in Ide, NEW t \in Tracker, t.name = tracker.name,
           t.absent = Never, t.pending = Away, NEW reach \in 0..2
    PROVE  Followed(Present(t, app, reach), app, reach)
<1> DEFINE d == IF t.name = Away THEN Kept(t, reach) ELSE Dismiss(t, reach)
           entered == [d.tracker EXCEPT !.name = app, !.from = now]
           p == Present(t, app, reach)
<1>1. /\ now \in Nat /\ Never \in Nat /\ Away \in App /\ app \in App /\ app # Away
  BY TickAssumption DEF FollowInv, SessionInv, SessionTypeOK, Never, App
<1>2. /\ d.tracker \in Tracker /\ d.tracker.absent = Never /\ d.tracker.pending = Away
      /\ d.tracker.name = Away /\ d.raised \in BOOLEAN
      /\ reach = 2 => d.left # 0 /\ d.raised = FALSE
  <2>1. CASE t.name = Away
    BY <2>1 DEF Kept
  <2>2. CASE t.name # Away
    <3>1. d = Dismiss(t, reach)
      BY <2>2
    <3> HIDE DEF d
    <3>2. SessionInv
      BY DEF FollowInv
    <3>3. /\ d.tracker \in Tracker /\ d.tracker.name = Away
          /\ d.tracker.absent = t.absent /\ d.tracker.pending = t.pending
          /\ reach = 2 => d.left = 1 /\ d.raised = FALSE
          /\ d.raised \in BOOLEAN
      BY <3>1, <3>2, DismissFollows
    <3> QED BY <3>3
  <2> QED BY <2>1, <2>2
<1>3. d \in [tracker : {d.tracker}, pill : {d.pill}, log : {d.log}, left : {d.left}, raised : {d.raised}]
  BY DEF Kept, Dismiss
<1>4. p = IF d.raised THEN d
          ELSE IF d.left = 0 THEN [d EXCEPT !.tracker = entered, !.raised = TRUE]
          ELSE [d EXCEPT !.tracker = [entered EXCEPT !.last = now], !.pill = app, !.left = @ - 1]
  BY DEF Present
<1> HIDE DEF d, p
<1>5. /\ entered.name = app /\ entered.absent = Never /\ entered.pending = Away
      /\ [entered EXCEPT !.last = now].name = app /\ [entered EXCEPT !.last = now].absent = Never
      /\ [entered EXCEPT !.last = now].pending = Away
  BY <1>1, <1>2 DEF Tracker
<1> HIDE DEF entered
<1>6. CASE d.raised
  BY <1>2, <1>4, <1>6 DEF Followed, DebounceOK, p
<1>7. CASE ~d.raised /\ d.left = 0
  <2>1. p.tracker = entered /\ p.raised = TRUE /\ reach # 2
    BY <1>2, <1>3, <1>4, <1>7
  <2>2. Followed(p, app, reach)
    BY <1>5, <2>1 DEF Followed, DebounceOK
  <2> QED BY <2>2 DEF p
<1>8. CASE ~d.raised /\ d.left # 0
  <2>1. p.tracker = [entered EXCEPT !.last = now] /\ p.pill = app
    BY <1>3, <1>4, <1>8
  <2>2. Followed(p, app, reach)
    BY <1>5, <2>1 DEF Followed, DebounceOK, Settling
  <2> QED BY <2>2 DEF p
<1> QED BY <1>6, <1>7, <1>8

LEMMA EnterFollows ==
    ASSUME FollowInv, NEW app \in Ide, NEW reach \in 0..2
    PROVE  Followed(Enter(app, reach), app, reach)
<1> DEFINE t == [tracker EXCEPT !.absent = Never]
           fresh == t.pending # app
           since == IF fresh THEN now ELSE t.since
           seen1 == [t EXCEPT !.last = now, !.pending = Away, !.since = Never]
           waits == [t EXCEPT !.pending = app, !.since = since]
           calm == [t EXCEPT !.pending = Away, !.since = Never]
<1>1. /\ tracker \in Tracker /\ now \in Nat /\ Never \in Nat /\ Away \in App /\ app \in App
      /\ app # Away /\ Dwell \in Nat
  BY TickAssumption DEF FollowInv, SessionInv, SessionTypeOK, Never, App
<1>2. /\ t \in Tracker /\ t.name = tracker.name /\ t.pending = tracker.pending
      /\ t.since = tracker.since /\ t.absent = Never
  BY <1>1 DEF Tracker
<1>3. /\ since \in Nat /\ since <= now
      /\ fresh => since = now
      /\ tracker.pending = app => since = tracker.since
  BY <1>1, <1>2 DEF FollowInv, DebounceOK, Tracker
<1> HIDE DEF t, since
<1>4. /\ waits.name = tracker.name /\ waits.pending = app /\ waits.since = since /\ waits.absent = Never
      /\ seen1.name = tracker.name /\ seen1.pending = Away /\ seen1.absent = Never
      /\ calm \in Tracker /\ calm.name = tracker.name /\ calm.pending = Away /\ calm.absent = Never
  BY <1>1, <1>2, <1>3 DEF Tracker
<1>5. Enter(app, reach) =
        CASE t.name = app -> Kept(seen1, reach)
          [] t.name # app /\ ((fresh /\ Dwell > 0) \/ now - since < Dwell) -> Kept(waits, reach)
          [] OTHER -> Present(calm, app, reach)
  BY DEF Enter, t, since
<1> HIDE DEF seen1, waits, calm
<1>6. CASE t.name = app
  <2>1. Enter(app, reach).tracker = seen1 /\ Enter(app, reach).pill = pill
    BY <1>5, <1>6 DEF Kept
  <2> QED BY <1>2, <1>4, <1>6, <2>1 DEF Followed, DebounceOK, Settling
<1>7. CASE t.name # app /\ ((fresh /\ Dwell > 0) \/ now - since < Dwell)
  <2>1. Enter(app, reach).tracker = waits /\ Enter(app, reach).pill = pill
    BY <1>5, <1>7 DEF Kept
  <2>2. now - since < Dwell
    BY <1>1, <1>3, <1>7
  <2>3. DebounceOK(waits)
    BY <1>3, <1>4 DEF DebounceOK
  <2>4. Settling(waits, app, now, now)
    BY <1>1, <1>3, <1>4, <2>2 DEF Settling
  <2>5. ASSUME NEW from \in Nat, NEW upto \in Nat, from <= upto, upto <= now,
               Settling(tracker, app, from, upto)
        PROVE  Settling(waits, app, from, now)
    BY <1>1, <1>2, <1>3, <1>4, <1>7, <2>2, <2>5 DEF Settling
  <2> QED BY <1>4, <2>1, <2>3, <2>4, <2>5 DEF Followed
<1>8. CASE t.name # app /\ ~((fresh /\ Dwell > 0) \/ now - since < Dwell)
  <2>1. Enter(app, reach) = Present(calm, app, reach)
    BY <1>5, <1>8
  <2> QED BY <1>4, <2>1, PresentFollows
<1> QED BY <1>6, <1>7, <1>8

\* Every step keeps the run and the tracker in step.
LEMMA FollowStep == FollowInv /\ [TickNext]_tickVars => FollowInv'
<1> SUFFICES ASSUME FollowInv, [TickNext]_tickVars PROVE FollowInv'
  OBVIOUS
<1>1. SessionInv'
  BY SessionStep DEF FollowInv
<1>2. /\ now \in Nat /\ now < Never /\ Never \in Nat /\ Gap \in Nat /\ tracker \in Tracker
      /\ Level \subseteq 0..6 /\ run \in [app : App \cup {Broken}, from : Nat, last : Nat]
  BY TickAssumption DEF FollowInv, SessionInv, SessionTypeOK, Never
<1>3. ASSUME NEW app \in App, NEW open \in BOOLEAN, NEW reach \in 0..2, OnPerceptionTick(app, open, reach)
      PROVE  FollowInv'
  <2> DEFINE o == Observe(app, reach)
  <2>1. Followed(o, app, reach)
    BY LeaveFollows, EnterFollows DEF Observe, App
  <2>2. /\ seen' = [app |-> app, open |-> open, at |-> now] /\ tracker' = o.tracker /\ pill' = o.pill
        /\ losses' = IF reach < 2 THEN losses + 1 ELSE losses
        /\ Follow(app, o.raised) /\ UNCHANGED <<now, level>>
    BY <1>3 DEF OnPerceptionTick
  <2> HIDE DEF o
  <2>3. losses' \in Nat /\ (losses' = 0 => losses = 0 /\ reach = 2)
    BY <2>2 DEF FollowInv
  <2>4. (losses' = 0 => pill' = tracker'.name) /\ DebounceOK(tracker')
    BY <2>1, <2>2, <2>3 DEF FollowInv, Followed
  <2>5. ASSUME run'.app # Broken PROVE RunIsSeen' /\ Settling(tracker', run'.app, run'.from, seen'.at)
    <3>1. CASE app = run.app /\ ~o.raised
      <4>1. run' = [run EXCEPT !.last = now] /\ run'.app = run.app /\ run'.from = run.from /\ run'.last = now
        BY <1>2, <2>2, <3>1 DEF Follow
      <4>2. RunIsSeen /\ Settling(tracker, app, run.from, seen.at)
        BY <2>5, <3>1, <4>1 DEF FollowInv
      <4>3. RunIsSeen'
        BY <1>2, <2>2, <3>1, <4>1, <4>2 DEF RunIsSeen
      <4>4. Settling(o.tracker, app, run.from, now)
        BY <1>2, <2>1, <3>1, <4>2 DEF Followed, RunIsSeen
      <4> QED BY <2>2, <3>1, <4>1, <4>3, <4>4
    <3>2. CASE ~(app = run.app /\ ~o.raised)
      <4>1. run' = [app |-> app, from |-> now, last |-> now] /\ ~o.raised
        BY <2>2, <2>5, <3>2 DEF Follow
      <4>2. RunIsSeen'
        BY <1>2, <2>2, <4>1 DEF RunIsSeen
      <4>3. Settling(o.tracker, app, now, now)
        BY <2>1, <4>1 DEF Followed
      <4> QED BY <2>2, <4>1, <4>2, <4>3
    <3> QED BY <3>1, <3>2
  <2>6. level' \in Level /\ DebounceOK(tracker)' /\ run' \in [app : App \cup {Broken}, from : Nat, last : Nat]
    BY <1>2, <2>2, <2>4 DEF FollowInv, DebounceOK, Follow
  <2>7. Settling(tracker', run'.app, run'.from, seen'.at) = Settling(tracker, run.app, run.from, seen.at)'
    BY DEF Settling
  <2>8. seen'.at \in Nat
    BY <1>2, <2>2
  <2> QED BY <1>1, <2>3, <2>4, <2>5, <2>6, <2>7, <2>8 DEF FollowInv
<1>4. ASSUME NEW app \in App, NEW open \in BOOLEAN, DropTick(app, open) PROVE FollowInv'
  <2>1. /\ ~Accepts(app, open) /\ run' = (IF app = run.app THEN [run EXCEPT !.last = now] ELSE run)
        /\ UNCHANGED <<now, level, seen, tracker, pill, losses>>
    BY <1>4 DEF DropTick
  <2>2. /\ run'.app = run.app /\ run'.from = run.from
        /\ run'.last = run.last \/ (app = run.app /\ run'.last = now)
    BY <1>2, <2>1
  <2>3. EffectiveGap \in Nat /\ EffectiveGap <= Gap * 2
    BY <1>2 DEF EffectiveGap, Widening
  <2>4. now - seen.at < EffectiveGap
    BY <1>2, <2>1, <2>3 DEF Accepts, FollowInv
  <2>5. run.app # Broken => RunIsSeen'
    BY <1>2, <2>1, <2>2, <2>3, <2>4 DEF RunIsSeen, FollowInv
  <2>6. run' \in [app : App \cup {Broken}, from : Nat, last : Nat]
    BY <1>2, <2>1
  <2> QED BY <1>1, <2>1, <2>2, <2>5, <2>6 DEF FollowInv, DebounceOK, Settling
<1>5. ASSUME NEW l \in Level, SetLevel(l) PROVE FollowInv'
  BY <1>1, <1>5 DEF SetLevel, FollowInv, DebounceOK, RunIsSeen, Settling
<1>6. CASE Pass
  <2>1. now' = now + 1 /\ UNCHANGED <<level, seen, tracker, pill, losses, run>>
    BY <1>6 DEF Pass
  <2>2. DebounceOK(tracker)'
    BY <1>2, <2>1 DEF FollowInv, DebounceOK, Tracker
  <2>3. run.app # Broken => RunIsSeen'
    BY <1>2, <2>1 DEF FollowInv, RunIsSeen
  <2> QED BY <1>1, <2>1, <2>2, <2>3 DEF FollowInv, Settling
<1>7. CASE UNCHANGED tickVars
  BY <1>1, <1>7 DEF tickVars, FollowInv, DebounceOK, RunIsSeen, Settling
<1> QED BY <1>3, <1>4, <1>5, <1>6, <1>7 DEF TickNext

LEMMA FollowStart == TickInit => FollowInv
  BY SessionStart, TickAssumption DEF TickInit, FollowInv, DebounceOK, Never

\* An application that stays in front long enough has the pill it should have, for
\* any dwell, grace and gap and whatever the deduper drops
\* (PerceptionDeduper.should_accept, CodingSessionTracker.__call__).
THEOREM PillSettles == TickSpec => []PillFollowsUser
<1>1. FollowInv => PillFollowsUser
  <2> SUFFICES ASSUME FollowInv, run.app # Broken,
                      run.last - run.from >= Gap * 2 + (IF run.app = Away THEN Grace ELSE Dwell)
               PROVE  tracker.name = run.app /\ (losses = 0 => pill = run.app)
    BY DEF PillFollowsUser
  <2>1. RunIsSeen /\ Settling(tracker, run.app, run.from, seen.at)
    BY DEF FollowInv
  <2>2. /\ {Gap, Grace, Dwell} \subseteq Nat /\ tracker.absent \in Nat /\ tracker.since \in Nat
    BY TickAssumption DEF FollowInv, SessionInv, SessionTypeOK, Tracker
  <2>3. tracker.name = run.app
    BY <2>1, <2>2 DEF RunIsSeen, Settling
  <2> QED BY <2>3 DEF FollowInv
<1> QED BY <1>1, FollowStart, FollowStep, PTL DEF TickSpec

-----------------------------------------------------------------------------
(***************************************************************************)
(* The reconnecting client: what it says of its link is so, and unless a   *)
(* start overtook an earlier client's report it has one socket, for any    *)
(* number of clients, starts and ends of the agent.                        *)
(***************************************************************************)

Queued(c) == c \in ToSet(mainQueue) \cup ToSet(workQueue)

\* No client's report is under way twice.
ReportsDiffer ==
    /\ \A i, j \in 1..Len(mainQueue) : mainQueue[i] = mainQueue[j] => i = j
    /\ \A i, j \in 1..Len(workQueue) :
          workQueue[i] = workQueue[j] /\ workQueue[i] # StartCall => i = j
    /\ \A i \in 1..Len(mainQueue), j \in 1..Len(workQueue) : mainQueue[i] # workQueue[j]

\* Who reports has closed its socket, and so reports no second time.
ReportersAreClosed == \A c \in Client : Queued(c) => socket[c] = "closed"

\* The current client has the wrapper's handlers on it; the one of an attempt has
\* not, and if its socket is at its end already it is deaf.
HandlersAreOn ==
    /\ inner # NoClient => inner \in hears
    /\ \A c \in hears : socket[c] # "none"
    /\ attempt # NoClient => /\ attempt \notin hears /\ socket[attempt] # "none"
                             /\ socket[attempt] = "open" \/ attempt \in deaf

\* Until a start overtakes a report: one of retry, attempt and current client at a
\* time, every open socket one of these, and no report under way but the current
\* client's.
OneAtWork ==
    ~overlapped =>
        /\ strays = 0
        /\ retry => inner = NoClient /\ attempt = NoClient
        /\ attempt # NoClient => inner = NoClient
        /\ \A c \in Client :
              socket[c] \in {"open", "lost"} => socket[c] = "open" /\ c \in {inner, attempt}
        /\ trying => \A c \in Client : Queued(c) => c = inner

LinkInv ==
    /\ ClientTypeOK
    /\ LinkIsTrue
    /\ ReportsDiffer
    /\ ReportersAreClosed
    /\ HandlersAreOn
    /\ OneAtWork

-----------------------------------------------------------------------------
\* What is in a queue, and what a report does that joins it or leaves it.
LEMMA InQueue ==
    ASSUME NEW S, NEW q \in Seq(S)
    PROVE  \A c : c \in ToSet(q) <=> \E i \in 1..Len(q) : q[i] = c
  BY DEF ToSet

LEMMA Joined ==
    ASSUME NEW S, NEW q \in Seq(S), NEW x \in S
    PROVE  /\ Append(q, x) \in Seq(S) /\ Len(Append(q, x)) = Len(q) + 1 /\ Len(q) \in Nat
           /\ \A i \in 1..Len(q) : Append(q, x)[i] = q[i]
           /\ Append(q, x)[Len(q) + 1] = x
           /\ \A c : c \in ToSet(Append(q, x)) <=> c \in ToSet(q) \/ c = x
<1> DEFINE r == Append(q, x)
<1>1. /\ r \in Seq(S) /\ Len(r) = Len(q) + 1 /\ Len(q) \in Nat
      /\ \A i \in 1..Len(q) : r[i] = q[i]
      /\ r[Len(q) + 1] = x
  BY AppendProperties
<1> HIDE DEF r
<1>2. \A c : c \in ToSet(r) <=> \E i \in 1..Len(r) : r[i] = c
  BY <1>1, InQueue
<1>3. \A c : c \in ToSet(q) <=> \E i \in 1..Len(q) : q[i] = c
  BY InQueue
<1>4. ASSUME NEW c PROVE c \in ToSet(r) <=> c \in ToSet(q) \/ c = x
  <2>1. ASSUME NEW i \in 1..Len(r), r[i] = c PROVE c \in ToSet(q) \/ c = x
    <3>1. i \in 1..Len(q) \/ i = Len(q) + 1
      BY <1>1
    <3> QED BY <1>1, <1>3, <2>1, <3>1
  <2>2. \A i \in 1..Len(q) : i \in 1..Len(r)
    BY <1>1
  <2>3. Len(q) + 1 \in 1..Len(r)
    BY <1>1
  <2> QED BY <1>1, <1>2, <1>3, <2>1, <2>2, <2>3
<1> QED BY <1>1, <1>4 DEF r

LEMMA Left ==
    ASSUME NEW S, NEW q \in Seq(S), q # <<>>
    PROVE  /\ Tail(q) \in Seq(S) /\ Len(Tail(q)) = Len(q) - 1 /\ Len(q) \in Nat /\ Len(q) > 0
           /\ \A i \in 1..Len(Tail(q)) : Tail(q)[i] = q[i + 1]
           /\ Head(q) = q[1] /\ Head(q) \in S /\ Head(q) \in ToSet(q)
           /\ \A c \in ToSet(q) : c = Head(q) \/ c \in ToSet(Tail(q))
           /\ \A c \in ToSet(Tail(q)) : c \in ToSet(q)
<1> DEFINE r == Tail(q)
<1>1. /\ r \in Seq(S) /\ Len(r) = Len(q) - 1
      /\ \A i \in 1..Len(r) : r[i] = q[i + 1]
      /\ Head(q) \in S
  BY HeadTailProperties
<1>2. Len(q) \in Nat /\ Len(q) > 0 /\ Head(q) = q[1]
  OBVIOUS
<1> HIDE DEF r
<1>3. \A c : c \in ToSet(r) <=> \E i \in 1..Len(r) : r[i] = c
  BY <1>1, InQueue
<1>4. \A c : c \in ToSet(q) <=> \E i \in 1..Len(q) : q[i] = c
  BY InQueue
<1>5. Head(q) \in ToSet(q)
  BY <1>2, <1>4
<1>6. ASSUME NEW c \in ToSet(q) PROVE c = Head(q) \/ c \in ToSet(r)
  <2>1. PICK i \in 1..Len(q) : q[i] = c
    BY <1>4
  <2>2. CASE i = 1
    BY <1>2, <2>1, <2>2
  <2>3. CASE i # 1
    <3>1. i - 1 \in 1..Len(r) /\ r[i - 1] = c
      BY <1>1, <1>2, <2>1, <2>3
    <3> QED BY <1>3, <3>1
  <2> QED BY <2>2, <2>3
<1>7. ASSUME NEW c \in ToSet(r) PROVE c \in ToSet(q)
  <2>1. PICK i \in 1..Len(r) : r[i] = c
    BY <1>3
  <2>2. i + 1 \in 1..Len(q) /\ q[i + 1] = c
    BY <1>1, <1>2, <2>1
  <2> QED BY <1>4, <2>2
<1> QED BY <1>1, <1>2, <1>5, <1>6, <1>7 DEF r

-----------------------------------------------------------------------------
\* The client's callback hands a report on from the main queue to the work queue.
LEMMA ReportHops ==
    ASSUME ClientTypeOK, ReportsDiffer, Hop
    PROVE  /\ mainQueue' \in Seq(Client) /\ workQueue' \in Seq(Client \cup {StartCall})
           /\ ReportsDiffer' /\ \A c : Queued(c)' <=> Queued(c)
<1> DEFINE x == Head(mainQueue)
           T == Client \cup {StartCall}
<1>0. /\ mainQueue \in Seq(Client) /\ workQueue \in Seq(T) /\ mainQueue # <<>>
      /\ mainQueue' = Tail(mainQueue) /\ workQueue' = Append(workQueue, x)
  BY DEF ClientTypeOK, Hop
<1>1. /\ mainQueue' \in Seq(Client) /\ Len(mainQueue') = Len(mainQueue) - 1
      /\ Len(mainQueue) \in Nat /\ Len(mainQueue) > 0
      /\ \A i \in 1..Len(mainQueue') : mainQueue'[i] = mainQueue[i + 1]
      /\ x = mainQueue[1] /\ x \in Client /\ x \in ToSet(mainQueue)
      /\ \A c \in ToSet(mainQueue) : c = x \/ c \in ToSet(mainQueue')
      /\ \A c \in ToSet(mainQueue') : c \in ToSet(mainQueue)
  BY <1>0, Left
<1> HIDE DEF x, T
<1>2. x \in T
  BY <1>1 DEF T
<1>3. /\ workQueue' \in Seq(T) /\ Len(workQueue') = Len(workQueue) + 1 /\ Len(workQueue) \in Nat
      /\ \A i \in 1..Len(workQueue) : workQueue'[i] = workQueue[i]
      /\ workQueue'[Len(workQueue) + 1] = x
      /\ \A c : c \in ToSet(workQueue') <=> c \in ToSet(workQueue) \/ c = x
  BY <1>0, <1>2, Joined
<1>4. 1 \in 1..Len(mainQueue) /\ \A i \in 1..Len(mainQueue') : i + 1 \in 1..Len(mainQueue)
  BY <1>1
<1>5. \A i \in 1..Len(workQueue') : i \in 1..Len(workQueue) \/ i = Len(workQueue) + 1
  BY <1>3
<1>6. ASSUME NEW i \in 1..Len(mainQueue'), NEW j \in 1..Len(mainQueue'),
             mainQueue'[i] = mainQueue'[j]
      PROVE  i = j
  <2>1. i + 1 = j + 1
    BY <1>1, <1>4, <1>6 DEF ReportsDiffer
  <2> QED BY <2>1
<1>7. \A i \in 1..Len(workQueue) : workQueue[i] # x
  BY <1>1, <1>4 DEF ReportsDiffer
<1>8. ASSUME NEW i \in 1..Len(workQueue'), NEW j \in 1..Len(workQueue'),
             workQueue'[i] = workQueue'[j], workQueue'[i] # StartCall
      PROVE  i = j
  BY <1>3, <1>5, <1>7, <1>8 DEF ReportsDiffer
<1>9. ASSUME NEW i \in 1..Len(mainQueue'), NEW j \in 1..Len(workQueue')
      PROVE  mainQueue'[i] # workQueue'[j]
  <2>1. mainQueue'[i] = mainQueue[i + 1] /\ i + 1 \in 1..Len(mainQueue) /\ i + 1 # 1
    BY <1>1, <1>4
  <2>2. mainQueue[i + 1] # x
    BY <1>1, <1>4, <2>1 DEF ReportsDiffer
  <2>3. CASE j \in 1..Len(workQueue)
    BY <1>3, <2>1, <2>3 DEF ReportsDiffer
  <2>4. CASE j = Len(workQueue) + 1
    BY <1>3, <2>1, <2>2, <2>4
  <2> QED BY <1>5, <2>3, <2>4
<1>10. \A c : Queued(c)' <=> Queued(c)
  BY <1>1, <1>3 DEF Queued
<1> QED BY <1>1, <1>3, <1>6, <1>8, <1>9, <1>10 DEF ReportsDiffer, T

\* The work queue takes what is at its head.
LEMMA WorkTaken ==
    ASSUME ClientTypeOK, ReportsDiffer, workQueue # <<>>, workQueue' = Tail(workQueue),
           UNCHANGED mainQueue
    PROVE  /\ workQueue' \in Seq(Client \cup {StartCall})
           /\ ReportsDiffer'
           /\ Head(workQueue) \in Client \cup {StartCall}
           /\ \A c \in Client : Queued(c)' <=> Queued(c) /\ c # Head(workQueue)
           /\ Queued(Head(workQueue))
<1> DEFINE x == Head(workQueue)
           T == Client \cup {StartCall}
<1>0. mainQueue \in Seq(Client) /\ workQueue \in Seq(T)
  BY DEF ClientTypeOK
<1> HIDE DEF T
<1>1. /\ workQueue' \in Seq(T) /\ Len(workQueue') = Len(workQueue) - 1
      /\ Len(workQueue) \in Nat /\ Len(workQueue) > 0
      /\ \A i \in 1..Len(workQueue') : workQueue'[i] = workQueue[i + 1]
      /\ x = workQueue[1] /\ x \in T /\ x \in ToSet(workQueue)
      /\ \A c \in ToSet(workQueue) : c = x \/ c \in ToSet(workQueue')
      /\ \A c \in ToSet(workQueue') : c \in ToSet(workQueue)
  BY <1>0, Left
<1> HIDE DEF x
<1>2. 1 \in 1..Len(workQueue) /\ \A i \in 1..Len(workQueue') : i + 1 \in 1..Len(workQueue)
  BY <1>1
<1>3. ASSUME NEW i \in 1..Len(workQueue'), NEW j \in 1..Len(workQueue'),
             workQueue'[i] = workQueue'[j], workQueue'[i] # StartCall
      PROVE  i = j
  <2>1. i + 1 = j + 1
    BY <1>1, <1>2, <1>3 DEF ReportsDiffer
  <2> QED BY <2>1
<1>4. ReportsDiffer'
  BY <1>1, <1>2, <1>3 DEF ReportsDiffer
<1>5. \A c \in Client : c \in ToSet(workQueue') <=> c \in ToSet(workQueue) /\ c # x
  <2> SUFFICES ASSUME NEW c \in Client, c \in ToSet(workQueue'), c = x PROVE FALSE
    BY <1>1
  <2>1. PICK i \in 1..Len(workQueue') : workQueue'[i] = c
    BY <1>1 DEF ToSet
  <2>2. workQueue[i + 1] = workQueue[1] /\ i + 1 \in 1..Len(workQueue)
    BY <1>1, <1>2, <2>1
  <2>3. workQueue[1] # StartCall
    BY <1>1 DEF Client, StartCall
  <2>4. i + 1 = 1
    BY <1>2, <2>2, <2>3 DEF ReportsDiffer
  <2> QED BY <2>4
<1>6. x \in Client => x \notin ToSet(mainQueue)
  <2>1. \A c : c \in ToSet(mainQueue) <=> \E i \in 1..Len(mainQueue) : mainQueue[i] = c
    BY <1>0, InQueue
  <2> QED BY <1>1, <1>2, <2>1 DEF ReportsDiffer
<1>7. \A c \in Client : Queued(c)' <=> Queued(c) /\ c # x
  BY <1>5, <1>6 DEF Queued
<1> QED BY <1>1, <1>4, <1>7 DEF T, x, Queued

\* A client that has nothing under way reports.
LEMMA ClientReports ==
    ASSUME ClientTypeOK, ReportsDiffer, NEW c \in Client, ~Queued(c),
           mainQueue' = Append(mainQueue, c), UNCHANGED workQueue
    PROVE  /\ mainQueue' \in Seq(Client)
           /\ ReportsDiffer'
           /\ \A d : Queued(d)' <=> Queued(d) \/ d = c
<1>0. mainQueue \in Seq(Client) /\ workQueue \in Seq(Client \cup {StartCall})
  BY DEF ClientTypeOK
<1>1. /\ mainQueue' \in Seq(Client) /\ Len(mainQueue') = Len(mainQueue) + 1 /\ Len(mainQueue) \in Nat
      /\ \A i \in 1..Len(mainQueue) : mainQueue'[i] = mainQueue[i]
      /\ mainQueue'[Len(mainQueue) + 1] = c
      /\ \A d : d \in ToSet(mainQueue') <=> d \in ToSet(mainQueue) \/ d = c
  BY <1>0, Joined
<1>2. \A i \in 1..Len(mainQueue') : i \in 1..Len(mainQueue) \/ i = Len(mainQueue) + 1
  BY <1>1
<1>3. (\A i \in 1..Len(mainQueue) : mainQueue[i] # c) /\ (\A i \in 1..Len(workQueue) : workQueue[i] # c)
  BY <1>0, InQueue DEF Queued
<1>4. ReportsDiffer'
  BY <1>1, <1>2, <1>3 DEF ReportsDiffer
<1> QED BY <1>1, <1>4 DEF Queued

\* A call of start joins the work queue.
LEMMA StartQueued ==
    ASSUME ClientTypeOK, ReportsDiffer, workQueue' = Append(workQueue, StartCall),
           UNCHANGED mainQueue
    PROVE  /\ workQueue' \in Seq(Client \cup {StartCall})
           /\ ReportsDiffer'
           /\ \A c \in Client : Queued(c)' <=> Queued(c)
<1> DEFINE T == Client \cup {StartCall}
<1>0. mainQueue \in Seq(Client) /\ workQueue \in Seq(T) /\ StartCall \in T /\ StartCall \notin Client
  BY DEF ClientTypeOK, Client, StartCall
<1> HIDE DEF T
<1>1. /\ workQueue' \in Seq(T) /\ Len(workQueue') = Len(workQueue) + 1 /\ Len(workQueue) \in Nat
      /\ \A i \in 1..Len(workQueue) : workQueue'[i] = workQueue[i]
      /\ workQueue'[Len(workQueue) + 1] = StartCall
      /\ \A d : d \in ToSet(workQueue') <=> d \in ToSet(workQueue) \/ d = StartCall
  BY <1>0, Joined
<1>2. \A i \in 1..Len(workQueue') : i \in 1..Len(workQueue) \/ i = Len(workQueue) + 1
  BY <1>1
<1>3. \A i \in 1..Len(mainQueue) : mainQueue[i] # StartCall
  BY <1>0
<1>4. ReportsDiffer'
  BY <1>1, <1>2, <1>3 DEF ReportsDiffer
<1> QED BY <1>0, <1>1, <1>4 DEF Queued, T

-----------------------------------------------------------------------------
\* attemptConnectLocked: either a client nobody has used is the attempt's, or a retry
\* is planned.
LEMMA Attempted ==
    ASSUME ClientTypeOK, attempt = NoClient, NEW p \in BOOLEAN, NEW l \in Nat,
           AttemptConnect(p, l)
    PROVE  /\ socket' \in [Client -> {"none", "open", "closed", "lost"}]
           /\ ended' \subseteq Client /\ attempt' \in Client \cup {NoClient}
           /\ retry' \in BOOLEAN /\ strays' \in Nat
           /\ linkState' \in {"connecting", "waiting"}
           /\ \/ /\ attempt' \in Client /\ socket[attempt'] = "none" /\ socket'[attempt'] = "open"
                 /\ \A c \in Client : c # attempt' => socket'[c] = socket[c]
                 /\ retry' = p /\ strays' = l
              \/ /\ attempt' = NoClient /\ socket' = socket
                 /\ strays' = l + (IF p THEN 1 ELSE 0)
<1>0. socket \in [Client -> {"none", "open", "closed", "lost"}] /\ ended \subseteq Client
  BY DEF ClientTypeOK
<1>1. CASE listening
  <2>1. PICK c \in Client :
            /\ socket[c] = "none" /\ socket' = [socket EXCEPT ![c] = "open"]
            /\ ended' = ended \cup {d \in Client : socket[d] \in {"open", "lost"}}
            /\ attempt' = c
            /\ linkState' = "connecting" /\ retry' = p /\ strays' = l
    BY <1>1 DEF AttemptConnect
  <2>2. /\ socket' \in [Client -> {"none", "open", "closed", "lost"}]
        /\ socket'[c] = "open" /\ \A d \in Client : d # c => socket'[d] = socket[d]
    BY <1>0, <2>1
  <2> QED BY <1>0, <2>1, <2>2
<1>2. CASE ~listening
  <2>1. /\ linkState' = "waiting" /\ retry' = TRUE /\ strays' = l + (IF p THEN 1 ELSE 0)
        /\ UNCHANGED <<socket, ended, attempt>>
    BY <1>2 DEF AttemptConnect, ScheduleRetry
  <2>2. strays' \in Nat
    BY <2>1
  <2> QED BY <1>0, <2>1, <2>2
<1> QED BY <1>1, <1>2

\* A retry or a start that finds the wrapper without a client tries again.
LEMMA Tries ==
    ASSUME LinkInv, attempt = NoClient, NEW p \in BOOLEAN, NEW l \in Nat, AttemptConnect(p, l),
           trying' = TRUE, UNCHANGED <<listening, crashes, hears, inner, mainQueue, starts, deaf>>,
           overlapped' \in BOOLEAN,
           workQueue' \in Seq(Client \cup {StartCall}),
           ReportsDiffer', \A c \in Client : Queued(c)' <=> Queued(c),
           ~overlapped' =>
             /\ ~p /\ l = 0 /\ inner = NoClient
             /\ \A c \in Client : socket[c] \notin {"open", "lost"} /\ ~Queued(c)
    PROVE  LinkInv'
<1>1. /\ socket' \in [Client -> {"none", "open", "closed", "lost"}]
      /\ ended' \subseteq Client /\ attempt' \in Client \cup {NoClient}
      /\ retry' \in BOOLEAN /\ strays' \in Nat
      /\ linkState' \in {"connecting", "waiting"}
      /\ \/ /\ attempt' \in Client /\ socket[attempt'] = "none" /\ socket'[attempt'] = "open"
            /\ \A c \in Client : c # attempt' => socket'[c] = socket[c]
            /\ retry' = p /\ strays' = l
         \/ /\ attempt' = NoClient /\ socket' = socket
            /\ strays' = l + (IF p THEN 1 ELSE 0)
  BY Attempted DEF LinkInv
<1>2. NoClient \notin Client /\ hears \subseteq Client
  BY DEF Client, NoClient, LinkInv, ClientTypeOK
<1>3. ClientTypeOK'
  BY <1>1 DEF LinkInv, ClientTypeOK
<1>4. LinkIsTrue'
  BY <1>1 DEF LinkIsTrue
<1>5. ReportersAreClosed'
  BY <1>1 DEF LinkInv, ReportersAreClosed
<1>6. HandlersAreOn'
  BY <1>1, <1>2 DEF LinkInv, HandlersAreOn
<1>7. OneAtWork'
  <2> SUFFICES ASSUME ~overlapped'
               PROVE  /\ strays' = 0
                      /\ retry' => inner' = NoClient /\ attempt' = NoClient
                      /\ attempt' # NoClient => inner' = NoClient
                      /\ \A c \in Client :
                            socket'[c] \in {"open", "lost"} =>
                                socket'[c] = "open" /\ c \in {inner', attempt'}
                      /\ \A c \in Client : Queued(c)' => c = inner'
    BY DEF OneAtWork
  <2> QED BY <1>1, <1>2
<1> QED BY <1>3, <1>4, <1>5, <1>6, <1>7 DEF LinkInv

LEMMA FireRetryStep ==
    ASSUME LinkInv, FireRetry
    PROVE  LinkInv'
<1>1. CASE trying
  <2>1. /\ attempt = NoClient /\ retry /\ AttemptConnect(FALSE, strays) /\ trying' = TRUE
        /\ UNCHANGED <<listening, crashes, hears, inner, mainQueue, workQueue, starts, deaf, overlapped>>
    BY <1>1 DEF FireRetry, Free
  <2>2. strays \in Nat /\ overlapped' \in BOOLEAN /\ workQueue' \in Seq(Client \cup {StartCall})
    BY <2>1 DEF LinkInv, ClientTypeOK
  <2>3. ReportsDiffer' /\ \A c \in Client : Queued(c)' <=> Queued(c)
    BY <2>1 DEF LinkInv, ReportsDiffer, Queued
  <2>4. ~overlapped' =>
          /\ strays = 0 /\ inner = NoClient
          /\ \A c \in Client : socket[c] \notin {"open", "lost"} /\ ~Queued(c)
    BY <1>1, <2>1 DEF LinkInv, OneAtWork, Client, NoClient
  <2> QED BY <2>1, <2>2, <2>3, <2>4, Tries
<1>2. CASE ~trying
  BY <1>2 DEF FireRetry, LinkInv, LinkIsTrue
<1> QED BY <1>1, <1>2

LEMMA FireStrayStep ==
    ASSUME LinkInv, FireStray
    PROVE  LinkInv'
<1>0. strays \in Nat /\ strays > 0 /\ strays - 1 \in Nat /\ overlapped /\ overlapped' = overlapped
  BY DEF FireStray, LinkInv, ClientTypeOK, OneAtWork
<1>1. CASE trying
  <2>1. /\ attempt = NoClient /\ AttemptConnect(retry, strays - 1) /\ trying' = TRUE
        /\ UNCHANGED <<listening, crashes, hears, inner, mainQueue, workQueue, starts, deaf, overlapped>>
    BY <1>1 DEF FireStray, Free
  <2>2. retry \in BOOLEAN /\ overlapped' \in BOOLEAN /\ workQueue' \in Seq(Client \cup {StartCall})
    BY <2>1 DEF LinkInv, ClientTypeOK
  <2>3. ReportsDiffer' /\ \A c \in Client : Queued(c)' <=> Queued(c)
    BY <2>1 DEF LinkInv, ReportsDiffer, Queued
  <2> QED BY <1>0, <2>1, <2>2, <2>3, Tries
<1>2. CASE ~trying
  <2>1. /\ strays' = strays - 1
        /\ UNCHANGED <<listening, crashes, ended, socket, hears, trying, inner, linkState,
                       attempt, retry, mainQueue, workQueue, starts, deaf, overlapped>>
    BY <1>2 DEF FireStray
  <2>2. ClientTypeOK'
    BY <1>0, <2>1 DEF LinkInv, ClientTypeOK
  <2>3. LinkIsTrue' /\ ReportsDiffer' /\ ReportersAreClosed' /\ HandlersAreOn'
    BY <2>1 DEF LinkInv, LinkIsTrue, Linked, ReportsDiffer, ReportersAreClosed, HandlersAreOn, Queued
  <2>4. OneAtWork'
    BY <1>0 DEF OneAtWork
  <2> QED BY <2>2, <2>3, <2>4 DEF LinkInv
<1> QED BY <1>1, <1>2

LEMMA HandleStartStep ==
    ASSUME LinkInv, HandleStart
    PROVE  LinkInv'
<1>0. /\ attempt = NoClient /\ workQueue # <<>> /\ Head(workQueue) = StartCall
      /\ workQueue' = Tail(workQueue) /\ trying' = TRUE
      /\ UNCHANGED <<listening, crashes, hears, inner, mainQueue, starts, deaf>>
      /\ ClientTypeOK /\ ReportsDiffer /\ StartCall \notin Client
  BY DEF HandleStart, Free, LinkInv, Client, StartCall
<1>1. /\ workQueue' \in Seq(Client \cup {StartCall}) /\ ReportsDiffer'
      /\ \A c \in Client : Queued(c)' <=> Queued(c)
  BY <1>0, WorkTaken
<1>2. CASE trying
  <2>1. UNCHANGED <<trying, socket, ended, attempt, linkState, retry, strays, overlapped>>
    BY <1>0, <1>2 DEF HandleStart
  <2>2. ClientTypeOK'
    BY <1>0, <1>1, <2>1 DEF ClientTypeOK
  <2>3. LinkIsTrue'
    <3> SUFFICES ASSUME linkState' = "connected"
                 PROVE  inner' # NoClient /\ (Linked' \/ inner' \in deaf' \/ Queued(inner)')
      BY <1>0 DEF LinkIsTrue, Queued
    <3>1. inner # NoClient /\ (Linked \/ inner \in deaf \/ Queued(inner))
      BY <2>1 DEF LinkInv, LinkIsTrue, Queued
    <3>2. inner \in Client
      BY <1>0, <3>1 DEF ClientTypeOK
    <3>3. Queued(inner) => Queued(inner)'
      BY <1>0, <1>1, <3>2
    <3> QED BY <1>0, <2>1, <3>1, <3>3 DEF Linked
  <2>4. ReportersAreClosed' /\ HandlersAreOn'
    BY <1>0, <1>1, <2>1 DEF LinkInv, ReportersAreClosed, HandlersAreOn
  <2>5. OneAtWork'
    BY <1>0, <1>1, <1>2, <2>1 DEF LinkInv, OneAtWork
  <2> QED BY <1>1, <2>2, <2>3, <2>4, <2>5 DEF LinkInv
<1>3. CASE ~trying
  <2>1. /\ AttemptConnect(retry, strays) /\ inner = NoClient /\ ~retry
        /\ overlapped' = (overlapped \/ (ToSet(mainQueue) \cup ToSet(workQueue)) \cap Client # {})
    BY <1>0, <1>3 DEF HandleStart, LinkInv, LinkIsTrue
  <2>2. retry \in BOOLEAN /\ strays \in Nat /\ overlapped' \in BOOLEAN
    BY <1>0, <2>1 DEF ClientTypeOK
  <2>3. ~overlapped' =>
          /\ strays = 0
          /\ \A c \in Client : socket[c] \notin {"open", "lost"} /\ ~Queued(c)
    <3> SUFFICES ASSUME ~overlapped'
                 PROVE  /\ strays = 0
                        /\ \A c \in Client : socket[c] \notin {"open", "lost"} /\ ~Queued(c)
      OBVIOUS
    <3>1. ~overlapped /\ \A c \in Client : ~Queued(c)
      BY <2>1 DEF Queued
    <3>2. inner \notin Client /\ attempt \notin Client
      BY <1>0, <2>1 DEF Client, NoClient
    <3> QED BY <3>1, <3>2 DEF LinkInv, OneAtWork
  <2> QED BY <1>0, <1>1, <2>1, <2>2, <2>3, Tries
<1> QED BY <1>2, <1>3

\* The sockets after the wrapper has let go of a client that is not open.
LEMMA ReleasedKeeps ==
    ASSUME socket \in [Client -> {"none", "open", "closed", "lost"}], NEW c
    PROVE  /\ Released(c) \in [Client -> {"none", "open", "closed", "lost"}]
           /\ \A d \in Client :
                /\ Released(c)[d] = (IF d = c /\ socket[d] = "open" THEN "lost" ELSE socket[d])
  BY DEF Released

LEMMA HandleReportStep ==
    ASSUME LinkInv, HandleReport
    PROVE  LinkInv'
<1> DEFINE x == Head(workQueue)
<1>0. /\ attempt = NoClient /\ workQueue # <<>> /\ x # StartCall
      /\ workQueue' = Tail(workQueue)
      /\ UNCHANGED <<listening, crashes, ended, hears, trying, attempt, mainQueue, starts,
                     deaf, overlapped>>
      /\ ClientTypeOK /\ ReportsDiffer /\ NoClient \notin Client
  BY DEF HandleReport, Free, LinkInv, Client, NoClient
<1>1. /\ workQueue' \in Seq(Client \cup {StartCall}) /\ ReportsDiffer'
      /\ x \in Client \cup {StartCall} /\ Queued(x)
      /\ \A c \in Client : Queued(c)' <=> Queued(c) /\ c # x
  BY <1>0, WorkTaken
<1> HIDE DEF x
<1>2. x \in Client /\ socket[x] = "closed"
  BY <1>0, <1>1 DEF LinkInv, ReportersAreClosed
<1>3. CASE trying
  <2>1. /\ inner' = NoClient /\ socket' = Released(inner)
        /\ linkState' = "waiting" /\ retry' = TRUE /\ strays' = strays + (IF retry THEN 1 ELSE 0)
    BY <1>3 DEF HandleReport, ScheduleRetry
  <2>2. /\ socket' \in [Client -> {"none", "open", "closed", "lost"}]
        /\ \A d \in Client :
              socket'[d] = (IF d = inner /\ socket[d] = "open" THEN "lost" ELSE socket[d])
    BY <1>0, <2>1, ReleasedKeeps DEF ClientTypeOK
  <2>3. ClientTypeOK'
    <3>1. strays' \in Nat
      BY <1>0, <2>1 DEF ClientTypeOK
    <3> QED BY <1>0, <1>1, <2>1, <2>2, <3>1 DEF ClientTypeOK
  <2>4. LinkIsTrue'
    BY <1>0, <1>3, <2>1 DEF LinkIsTrue
  <2>5. ReportersAreClosed'
    BY <1>1, <2>2 DEF LinkInv, ReportersAreClosed
  <2>6. HandlersAreOn'
    BY <1>0, <2>1, <2>2 DEF LinkInv, HandlersAreOn, ClientTypeOK
  <2>7. OneAtWork'
    <3> SUFFICES ASSUME ~overlapped
                 PROVE  /\ strays' = 0
                        /\ \A c \in Client : socket'[c] \notin {"open", "lost"}
                        /\ \A c \in Client : ~Queued(c)'
      BY <1>0, <2>1 DEF OneAtWork
    <3>1. /\ strays = 0 /\ (retry => inner = NoClient)
          /\ \A c \in Client : Queued(c) => c = inner
          /\ \A c \in Client : socket[c] \in {"open", "lost"} => c \in {inner, attempt}
      BY <1>3 DEF LinkInv, OneAtWork
    <3>2. inner = x /\ ~retry
      BY <1>0, <1>1, <1>2, <3>1
    <3>3. \A c \in Client : socket[c] \notin {"open", "lost"}
      BY <1>0, <1>2, <3>1, <3>2
    <3> QED BY <1>1, <2>1, <2>2, <3>1, <3>2, <3>3
  <2> QED BY <1>1, <2>3, <2>4, <2>5, <2>6, <2>7 DEF LinkInv
<1>4. CASE ~trying
  <2>1. UNCHANGED <<inner, socket, linkState, retry, strays>>
    BY <1>4 DEF HandleReport
  <2>2. ClientTypeOK'
    BY <1>0, <1>1, <2>1 DEF ClientTypeOK
  <2>3. LinkIsTrue'
    BY <1>0, <1>4, <2>1 DEF LinkInv, LinkIsTrue
  <2>4. ReportersAreClosed' /\ HandlersAreOn'
    BY <1>0, <1>1, <2>1 DEF LinkInv, ReportersAreClosed, HandlersAreOn
  <2>5. OneAtWork'
    BY <1>0, <1>4, <2>1 DEF LinkInv, OneAtWork
  <2> QED BY <1>1, <2>2, <2>3, <2>4, <2>5 DEF LinkInv
<1> QED BY <1>3, <1>4

LEMMA InstallStep ==
    ASSUME LinkInv, Install
    PROVE  LinkInv'
<1>0. /\ attempt # NoClient /\ hears' = hears \cup {attempt}
      /\ inner' = attempt /\ attempt' = NoClient /\ socket' = Released(inner)
      /\ linkState' = "connected"
      /\ UNCHANGED <<listening, crashes, ended, trying, retry, strays, mainQueue, workQueue,
                     starts, deaf, overlapped>>
      /\ ClientTypeOK /\ trying /\ NoClient \notin Client
  BY DEF Install, LinkInv, LinkIsTrue, Client, NoClient
<1>1. /\ attempt \in Client /\ attempt \notin hears /\ socket[attempt] # "none"
      /\ socket[attempt] = "open" \/ attempt \in deaf
      /\ inner # NoClient => inner \in hears
      /\ inner # attempt /\ hears \subseteq Client
  BY <1>0 DEF LinkInv, HandlersAreOn, ClientTypeOK
<1>2. /\ socket' \in [Client -> {"none", "open", "closed", "lost"}]
      /\ \A d \in Client :
            socket'[d] = (IF d = inner /\ socket[d] = "open" THEN "lost" ELSE socket[d])
  BY <1>0, ReleasedKeeps DEF ClientTypeOK
<1>3. socket'[attempt] = socket[attempt]
  BY <1>1, <1>2
<1>4. \A c : Queued(c)' <=> Queued(c)
  BY <1>0 DEF Queued
<1>5. ClientTypeOK'
  BY <1>0, <1>1, <1>2 DEF ClientTypeOK
<1>6. LinkIsTrue'
  BY <1>0, <1>1, <1>3 DEF LinkIsTrue, Linked
<1>7. ReportsDiffer'
  BY <1>0 DEF LinkInv, ReportsDiffer
<1>8. ReportersAreClosed'
  BY <1>2, <1>4 DEF LinkInv, ReportersAreClosed
<1>9. HandlersAreOn'
  BY <1>0, <1>1, <1>2 DEF LinkInv, HandlersAreOn
<1>10. OneAtWork'
  <2> SUFFICES ASSUME ~overlapped
               PROVE  /\ strays' = 0 /\ ~retry'
                      /\ \A c \in Client :
                            socket'[c] \in {"open", "lost"} => socket'[c] = "open" /\ c = attempt
                      /\ \A c \in Client : ~Queued(c)'
    BY <1>0 DEF OneAtWork
  <2>1. /\ strays = 0 /\ inner = NoClient /\ ~retry
        /\ \A c \in Client :
              socket[c] \in {"open", "lost"} => socket[c] = "open" /\ c \in {inner, attempt}
        /\ \A c \in Client : Queued(c) => c = inner
    BY <1>0 DEF LinkInv, OneAtWork
  <2> QED BY <1>0, <1>2, <1>4, <2>1
<1> QED BY <1>5, <1>6, <1>7, <1>8, <1>9, <1>10 DEF LinkInv

LEMMA HopStep ==
    ASSUME LinkInv, Hop
    PROVE  LinkInv'
<1>1. /\ mainQueue' \in Seq(Client) /\ workQueue' \in Seq(Client \cup {StartCall})
      /\ ReportsDiffer' /\ \A c : Queued(c)' <=> Queued(c)
  BY ReportHops DEF LinkInv
<1>2. UNCHANGED <<listening, crashes, ended, socket, hears, trying, inner, linkState,
                  attempt, retry, strays, starts, deaf, overlapped>>
  BY DEF Hop
<1>3. ClientTypeOK'
  BY <1>1, <1>2 DEF LinkInv, ClientTypeOK
<1>4. LinkIsTrue'
  BY <1>1, <1>2 DEF LinkInv, LinkIsTrue, Linked, Queued
<1>5. ReportersAreClosed' /\ HandlersAreOn' /\ OneAtWork'
  BY <1>1, <1>2 DEF LinkInv, ReportersAreClosed, HandlersAreOn, OneAtWork
<1> QED BY <1>1, <1>3, <1>4, <1>5 DEF LinkInv

LEMMA ReadEndStep ==
    ASSUME LinkInv, NEW c \in Client, ReadEnd(c)
    PROVE  LinkInv'
<1>0. /\ socket[c] = "open" /\ socket' = [socket EXCEPT ![c] = "closed"]
      /\ UNCHANGED <<listening, crashes, ended, hears, trying, inner, linkState, attempt,
                     retry, strays, workQueue, starts, overlapped>>
      /\ ClientTypeOK /\ ReportsDiffer
  BY DEF ReadEnd, LinkInv
<1>1. /\ socket' \in [Client -> {"none", "open", "closed", "lost"}]
      /\ socket'[c] = "closed" /\ \A d \in Client : d # c => socket'[d] = socket[d]
  BY <1>0 DEF ClientTypeOK
<1>2. ~Queued(c)
  BY <1>0 DEF LinkInv, ReportersAreClosed
<1>3. /\ mainQueue' \in Seq(Client) /\ ReportsDiffer' /\ deaf' \subseteq Client /\ deaf \subseteq deaf'
      /\ \A d : Queued(d) => Queued(d)'
      /\ \A d : Queued(d)' => Queued(d) \/ (d = c /\ c \in hears)
      /\ c \in hears => Queued(c)'
      /\ c \notin hears => c \in deaf'
  <2>1. CASE c \in hears
    <3>1. mainQueue' = Append(mainQueue, c) /\ UNCHANGED <<deaf, workQueue>>
      BY <1>0, <2>1 DEF ReadEnd
    <3>2. /\ mainQueue' \in Seq(Client) /\ ReportsDiffer'
          /\ \A d : Queued(d)' <=> Queued(d) \/ d = c
      BY <1>0, <1>2, <3>1, ClientReports
    <3> QED BY <1>0, <2>1, <3>1, <3>2 DEF ClientTypeOK
  <2>2. CASE c \notin hears
    <3>1. deaf' = deaf \cup {c} /\ UNCHANGED <<mainQueue, workQueue>>
      BY <1>0, <2>2 DEF ReadEnd
    <3>2. ReportsDiffer' /\ \A d : Queued(d)' <=> Queued(d)
      BY <1>0, <3>1 DEF ReportsDiffer, Queued
    <3>3. mainQueue' \in Seq(Client) /\ deaf' \subseteq Client /\ deaf \subseteq deaf'
      BY <1>0, <3>1 DEF ClientTypeOK
    <3> QED BY <2>2, <3>1, <3>2, <3>3
  <2> QED BY <2>1, <2>2
<1>4. ClientTypeOK'
  BY <1>0, <1>1, <1>3 DEF ClientTypeOK
<1>5. LinkIsTrue'
  <2>1. CASE linkState = "connected"
    <3>1. inner # NoClient /\ inner \in Client /\ inner \in hears
          /\ (socket[inner] = "open" \/ inner \in deaf \/ Queued(inner))
      BY <1>0, <2>1 DEF LinkInv, LinkIsTrue, Linked, HandlersAreOn, ClientTypeOK, Queued
    <3>2. socket'[inner] = "open" \/ inner \in deaf' \/ Queued(inner)'
      <4>1. CASE inner = c
        BY <1>0, <1>3, <3>1, <4>1
      <4>2. CASE inner # c
        BY <1>0, <1>1, <1>3, <3>1, <4>2
      <4> QED BY <4>1, <4>2
    <3>3. Queued(inner)' => inner' \in ToSet(mainQueue') \cup ToSet(workQueue')
      BY <1>0 DEF Queued
    <3> QED BY <1>0, <2>1, <3>1, <3>2, <3>3 DEF LinkInv, LinkIsTrue, Linked
  <2>2. CASE linkState # "connected"
    BY <1>0, <2>2 DEF LinkInv, LinkIsTrue
  <2> QED BY <2>1, <2>2
<1>6. ReportersAreClosed'
  BY <1>1, <1>3 DEF LinkInv, ReportersAreClosed
<1>7. HandlersAreOn'
  <2>1. \A d \in hears : socket'[d] # "none"
    BY <1>0, <1>1 DEF LinkInv, HandlersAreOn, ClientTypeOK
  <2>2. attempt # NoClient => /\ attempt \notin hears /\ socket'[attempt] # "none"
                              /\ socket'[attempt] = "open" \/ attempt \in deaf'
    BY <1>0, <1>1, <1>3 DEF LinkInv, HandlersAreOn, ClientTypeOK
  <2> QED BY <1>0, <2>1, <2>2 DEF LinkInv, HandlersAreOn
<1>8. OneAtWork'
  <2> SUFFICES ASSUME ~overlapped
               PROVE  /\ \A d \in Client :
                            socket'[d] \in {"open", "lost"} =>
                                socket'[d] = "open" /\ d \in {inner, attempt}
                      /\ trying => \A d \in Client : Queued(d)' => d = inner
    BY <1>0 DEF LinkInv, OneAtWork
  <2>1. c \in {inner, attempt} /\ (c \in hears => c = inner)
    BY <1>0 DEF LinkInv, OneAtWork, HandlersAreOn, Client, NoClient
  <2> QED BY <1>1, <1>3, <2>1 DEF LinkInv, OneAtWork
<1> QED BY <1>3, <1>4, <1>5, <1>6, <1>7, <1>8 DEF LinkInv

LEMMA StartCallStep ==
    ASSUME LinkInv, Start
    PROVE  LinkInv'
<1>0. /\ starts' = starts + 1 /\ starts < MaxStarts /\ workQueue' = Append(workQueue, StartCall)
      /\ UNCHANGED <<listening, crashes, ended, socket, hears, trying, inner, linkState,
                     attempt, retry, strays, mainQueue, deaf, overlapped>>
      /\ ClientTypeOK /\ ReportsDiffer
  BY DEF Start, LinkInv
<1>1. /\ workQueue' \in Seq(Client \cup {StartCall}) /\ ReportsDiffer'
      /\ \A c \in Client : Queued(c)' <=> Queued(c)
  BY <1>0, StartQueued
<1>2. ClientTypeOK'
  <2>1. starts' \in 0..MaxStarts
    BY <1>0, ClientAssumption DEF ClientTypeOK
  <2> QED BY <1>0, <1>1, <2>1 DEF ClientTypeOK
<1>3. LinkIsTrue'
  <2> SUFFICES ASSUME linkState = "connected"
               PROVE  inner # NoClient /\ (Linked' \/ inner' \in deaf' \/ Queued(inner)')
    BY <1>0 DEF LinkInv, LinkIsTrue, Queued
  <2>1. inner # NoClient /\ inner \in Client /\ (Linked \/ inner \in deaf \/ Queued(inner))
    BY <1>0 DEF LinkInv, LinkIsTrue, Queued, ClientTypeOK
  <2>2. Queued(inner) => Queued(inner)'
    BY <1>0, <1>1, <2>1
  <2> QED BY <1>0, <2>1, <2>2 DEF Linked
<1>4. ReportersAreClosed' /\ HandlersAreOn' /\ OneAtWork'
  BY <1>0, <1>1 DEF LinkInv, ReportersAreClosed, HandlersAreOn, OneAtWork
<1> QED BY <1>1, <1>2, <1>3, <1>4 DEF LinkInv

LEMMA StopStep ==
    ASSUME LinkInv, Stop
    PROVE  LinkInv'
<1>0. /\ attempt = NoClient /\ trying' = FALSE /\ retry' = FALSE
      /\ inner' = NoClient /\ linkState' = "stopped"
      /\ UNCHANGED <<listening, crashes, ended, hears, attempt, strays, workQueue, starts,
                     deaf, overlapped>>
      /\ ClientTypeOK /\ ReportsDiffer /\ NoClient \notin Client
  BY DEF Stop, Free, LinkInv, Client, NoClient
<1>1. CASE inner # NoClient /\ socket[inner] = "open"
  <2>1. /\ socket' = [socket EXCEPT ![inner] = "closed"] /\ mainQueue' = Append(mainQueue, inner)
        /\ inner \in Client /\ ~Queued(inner)
    BY <1>0, <1>1 DEF Stop, LinkInv, ReportersAreClosed, ClientTypeOK
  <2>2. /\ socket' \in [Client -> {"none", "open", "closed", "lost"}]
        /\ socket'[inner] = "closed" /\ \A d \in Client : d # inner => socket'[d] = socket[d]
    BY <1>0, <2>1 DEF ClientTypeOK
  <2> DEFINE c == inner
  <2>3. c \in Client /\ ~Queued(c) /\ mainQueue' = Append(mainQueue, c) /\ UNCHANGED workQueue
    BY <1>0, <2>1
  <2>4. socket'[c] = "closed" /\ \A d \in Client : d # c => socket'[d] = socket[d]
    BY <2>2
  <2>5. ~overlapped => \A d \in Client : socket[d] \in {"open", "lost"} => d = c
    BY <1>0 DEF LinkInv, OneAtWork
  <2> HIDE DEF c
  <2>6. /\ mainQueue' \in Seq(Client) /\ ReportsDiffer'
        /\ \A d : Queued(d)' <=> Queued(d) \/ d = c
    BY <1>0, <2>3, ClientReports
  <2>7. ClientTypeOK'
    BY <1>0, <2>2, <2>6 DEF ClientTypeOK
  <2>8. LinkIsTrue'
    BY <1>0 DEF LinkIsTrue
  <2>9. ReportersAreClosed'
    BY <2>4, <2>6 DEF LinkInv, ReportersAreClosed
  <2>10. HandlersAreOn'
    <3>1. \A d \in hears : socket'[d] # "none"
      BY <1>0, <2>4 DEF LinkInv, HandlersAreOn, ClientTypeOK
    <3> QED BY <1>0, <3>1 DEF HandlersAreOn
  <2>11. OneAtWork'
    <3>1. ~overlapped => strays = 0
      BY DEF LinkInv, OneAtWork
    <3>2. ~overlapped => \A d \in Client : socket'[d] \notin {"open", "lost"}
      BY <2>4, <2>5
    <3> QED BY <1>0, <3>1, <3>2 DEF OneAtWork
  <2> QED BY <2>6, <2>7, <2>8, <2>9, <2>10, <2>11 DEF LinkInv
<1>2. CASE ~(inner # NoClient /\ socket[inner] = "open")
  <2>1. UNCHANGED <<socket, mainQueue>>
    BY <1>2 DEF Stop
  <2>2. ClientTypeOK'
    BY <1>0, <2>1 DEF ClientTypeOK
  <2>3. LinkIsTrue'
    BY <1>0 DEF LinkIsTrue
  <2>4. ReportsDiffer' /\ ReportersAreClosed' /\ HandlersAreOn'
    BY <1>0, <2>1 DEF LinkInv, ReportsDiffer, ReportersAreClosed, HandlersAreOn, Queued
  <2>5. OneAtWork'
    <3>1. ~overlapped => strays = 0 /\ \A d \in Client : socket[d] \notin {"open", "lost"}
      BY <1>0, <1>2 DEF LinkInv, OneAtWork
    <3> QED BY <1>0, <2>1, <3>1 DEF OneAtWork
  <2> QED BY <2>2, <2>3, <2>4, <2>5 DEF LinkInv
<1> QED BY <1>1, <1>2

\* The agent comes and goes; its end is told by the sockets.
LEMMA AgentStep ==
    ASSUME LinkInv, AgentEnds \/ AgentStarts
    PROVE  LinkInv'
<1>1. /\ UNCHANGED <<socket, hears, trying, inner, linkState, attempt, retry, strays,
                     mainQueue, workQueue, starts, deaf, overlapped>>
      /\ listening' \in BOOLEAN /\ ended' \subseteq Client /\ crashes' \in 0..MaxCrashes
  <2>1. CASE AgentEnds
    <3>1. crashes' = crashes + 1 /\ crashes < MaxCrashes /\ crashes \in 0..MaxCrashes
      BY <2>1 DEF AgentEnds, LinkInv, ClientTypeOK
    <3>2. crashes' \in 0..MaxCrashes
      BY <3>1, ClientAssumption
    <3> QED BY <2>1, <3>2 DEF AgentEnds
  <2>2. CASE AgentStarts
    BY <2>2 DEF AgentStarts, LinkInv, ClientTypeOK
  <2> QED BY <2>1, <2>2
<1>2. ClientTypeOK'
  BY <1>1 DEF LinkInv, ClientTypeOK
<1>3. LinkIsTrue'
  BY <1>1 DEF LinkInv, LinkIsTrue, Linked
<1>4. ReportsDiffer' /\ ReportersAreClosed' /\ HandlersAreOn' /\ OneAtWork'
  BY <1>1 DEF LinkInv, ReportsDiffer, ReportersAreClosed, HandlersAreOn, OneAtWork, Queued
<1> QED BY <1>2, <1>3, <1>4 DEF LinkInv

-----------------------------------------------------------------------------
LEMMA LinkStarts == ClientInit => LinkInv
<1> SUFFICES ASSUME ClientInit PROVE LinkInv
  OBVIOUS
<1>1. ToSet(mainQueue) = {} /\ ToSet(workQueue) = {}
  BY DEF ClientInit, ToSet
<1>2. ClientTypeOK
  <2>1. 0 \in 0..MaxCrashes /\ 0 \in 0..MaxStarts
    BY ClientAssumption
  <2>2. mainQueue \in Seq(Client) /\ workQueue \in Seq(Client \cup {StartCall})
    BY DEF ClientInit
  <2> QED BY <2>1, <2>2 DEF ClientInit, ClientTypeOK
<1>3. LinkIsTrue /\ ReportsDiffer /\ ReportersAreClosed /\ HandlersAreOn /\ OneAtWork
  BY <1>1 DEF ClientInit, LinkIsTrue, ReportsDiffer, ReportersAreClosed, HandlersAreOn,
              OneAtWork, Queued
<1> QED BY <1>2, <1>3 DEF LinkInv

LEMMA LinkStep == LinkInv /\ [ClientNext]_linkVars => LinkInv'
<1> SUFFICES ASSUME LinkInv, [ClientNext]_linkVars PROVE LinkInv'
  OBVIOUS
<1>1. CASE Install
  BY <1>1, InstallStep
<1>2. CASE HandleStart
  BY <1>2, HandleStartStep
<1>3. CASE HandleReport
  BY <1>3, HandleReportStep
<1>4. CASE FireRetry
  BY <1>4, FireRetryStep
<1>5. CASE FireStray
  BY <1>5, FireStrayStep
<1>6. CASE Hop
  BY <1>6, HopStep
<1>7. CASE \E c \in Client : ReadEnd(c)
  BY <1>7, ReadEndStep
<1>8. CASE Start
  BY <1>8, StartCallStep
<1>9. CASE Stop
  BY <1>9, StopStep
<1>10. CASE AgentEnds \/ AgentStarts
  BY <1>10, AgentStep
<1>11. CASE UNCHANGED linkVars
  BY <1>11 DEF linkVars, LinkInv, ClientTypeOK, LinkIsTrue, Linked, ReportsDiffer,
               ReportersAreClosed, HandlersAreOn, OneAtWork, Queued
<1> QED BY <1>1, <1>2, <1>3, <1>4, <1>5, <1>6, <1>7, <1>8, <1>9, <1>10, <1>11
           DEF ClientNext, Proceeds

LEMMA LinkInvariant == ClientSpec => []LinkInv
  BY LinkStarts, LinkStep, PTL DEF ClientSpec

\* The wrapper's fields, queues and sockets keep their types, for any bounds.
THEOREM ClientTypeCorrect == ClientSpec => []ClientTypeOK
<1>1. LinkInv => ClientTypeOK
  BY DEF LinkInv
<1> QED BY <1>1, LinkInvariant, PTL

\* The state that ReconnectingBridgeClient publishes is true: connected means a live
\* client, or one whose end is being reported or was missed; stopped means neither a
\* client nor a retry.
THEOREM LinkStaysTrue == ClientSpec => []LinkIsTrue
<1>1. LinkInv => LinkIsTrue
  BY DEF LinkInv
<1> QED BY <1>1, LinkInvariant, PTL

\* The application has at most one socket to the agent and forgets none, unless a
\* start overtook the report of an earlier client.
THEOREM OneSocket == ClientSpec => []OneLink
<1>1. ASSUME LinkInv PROVE OneLink
  <2> SUFFICES ASSUME ~overlapped
               PROVE  Cardinality({c \in Client : socket[c] \in {"open", "lost"}}) <= 1
    BY DEF OneLink
  <2> DEFINE live == {c \in Client : socket[c] \in {"open", "lost"}}
             x == IF attempt # NoClient THEN attempt ELSE inner
  <2>1. live \subseteq {x}
    BY <1>1 DEF LinkInv, OneAtWork, Client, NoClient
  <2> HIDE DEF live, x
  <2>2. IsFiniteSet({x}) /\ Cardinality({x}) = 1
    BY FS_Singleton
  <2>3. Cardinality(live) <= 1
    BY <2>1, <2>2, FS_Subset
  <2> QED BY <2>3 DEF live
<1> QED BY <1>1, LinkInvariant, PTL

-----------------------------------------------------------------------------
(***************************************************************************)
(* The task nudges: the list by last update stays a listing of all tasks.  *)
(***************************************************************************)

\* A task that moves to the front of the list leaves its place, and the list holds the
\* tasks it held.
LEMMA MovedToFront ==
    ASSUME NEW S, NEW q \in Seq(S), ToSet(q) = S, NEW e \in S, NEW p \in 1..Len(q), q[p] = e
    PROVE  LET r == <<e>> \o RemoveAt(q, p)
           IN  r \in Seq(S) /\ ToSet(r) = S /\ Len(r) = Len(q)
<1> DEFINE front == SubSeq(q, 1, p - 1)
           back == SubSeq(q, p + 1, Len(q))
           one == <<e>>
           rest == front \o back
           r == one \o rest
<1>1. /\ front \in Seq(S) /\ Len(front) = p - 1
      /\ \A i \in 1..(p - 1) : front[i] = q[i]
  OBVIOUS
<1>2. /\ back \in Seq(S) /\ Len(back) = Len(q) - p
      /\ \A i \in 1..(Len(q) - p) : back[i] = q[p + i]
  OBVIOUS
<1>3. one \in Seq(S) /\ Len(one) = 1 /\ one[1] = e
  OBVIOUS
<1>4. RemoveAt(q, p) = rest
  BY DEF RemoveAt
<1> HIDE DEF front, back, one
<1>5. /\ rest \in Seq(S) /\ Len(rest) = Len(q) - 1
      /\ \A i \in 1..(p - 1) : rest[i] = q[i]
      /\ \A i \in (p + 1)..Len(q) : rest[i - 1] = q[i]
  <2>1. /\ rest \in Seq(S) /\ Len(rest) = Len(front) + Len(back)
        /\ \A i \in 1..(Len(front) + Len(back)) :
              rest[i] = IF i <= Len(front) THEN front[i] ELSE back[i - Len(front)]
    BY <1>1, <1>2, ConcatProperties
  <2>2. ASSUME NEW i \in 1..(p - 1) PROVE rest[i] = q[i]
    BY <1>1, <1>2, <2>1
  <2>3. ASSUME NEW i \in (p + 1)..Len(q) PROVE rest[i - 1] = q[i]
    <3>1. i - 1 \in 1..(Len(front) + Len(back)) /\ ~(i - 1 <= Len(front)) /\ i - 1 - Len(front) = i - p
      BY <1>1, <1>2
    <3>2. rest[i - 1] = back[i - p]
      BY <2>1, <3>1
    <3>3. i - p \in 1..(Len(q) - p) /\ p + (i - p) = i
      OBVIOUS
    <3> QED BY <1>2, <3>2, <3>3
  <2> QED BY <1>1, <1>2, <2>1, <2>2, <2>3
<1> HIDE DEF rest
<1>6. /\ r \in Seq(S) /\ Len(r) = Len(q) /\ r[1] = e
      /\ \A i \in 1..Len(rest) : r[i + 1] = rest[i]
  <2>1. /\ r \in Seq(S) /\ Len(r) = Len(one) + Len(rest)
        /\ \A i \in 1..(Len(one) + Len(rest)) :
              r[i] = IF i <= Len(one) THEN one[i] ELSE rest[i - Len(one)]
    BY <1>3, <1>5, ConcatProperties
  <2>2. ASSUME NEW i \in 1..Len(rest) PROVE r[i + 1] = rest[i]
    <3>1. i + 1 \in 1..(Len(one) + Len(rest)) /\ ~(i + 1 <= Len(one)) /\ i + 1 - Len(one) = i
      BY <1>3, <1>5
    <3> QED BY <2>1, <3>1
  <2>3. 1 \in 1..(Len(one) + Len(rest)) /\ 1 <= Len(one)
    BY <1>3, <1>5
  <2> QED BY <1>3, <1>5, <2>1, <2>2, <2>3
<1> HIDE DEF r
<1>7. ASSUME NEW d \in S PROVE \E i \in 1..Len(r) : r[i] = d
  <2>1. PICK i \in 1..Len(q) : q[i] = d
    BY DEF ToSet
  <2>2. CASE i < p
    <3>1. i \in 1..Len(rest) /\ rest[i] = d /\ i + 1 \in 1..Len(r)
      BY <1>5, <1>6, <2>1, <2>2
    <3> QED BY <1>6, <3>1
  <2>3. CASE i = p
    <3>1. 1 \in 1..Len(r)
      BY <1>6
    <3> QED BY <1>6, <2>1, <2>3, <3>1
  <2>4. CASE i > p
    <3>1. i - 1 \in 1..Len(rest) /\ rest[i - 1] = d /\ i - 1 + 1 \in 1..Len(r)
      BY <1>5, <1>6, <2>1, <2>4
    <3> QED BY <1>6, <3>1
  <2> QED BY <2>2, <2>3, <2>4
<1>8. ToSet(r) = S
  <2>1. \A i \in 1..Len(r) : r[i] \in S
    BY <1>6
  <2>2. \A c : c \in ToSet(r) <=> \E i \in 1..Len(r) : r[i] = c
    BY <1>6, InQueue
  <2> QED BY <1>7, <2>1, <2>2
<1> QED BY <1>4, <1>6, <1>8 DEF r, one

LEMMA NudgeStart == NudgeInit => NudgeTypeOK
<1> SUFFICES ASSUME NudgeInit PROVE NudgeTypeOK
  OBVIOUS
<1>1. Cardinality(Errand) \in Nat
  BY NudgeAssumption, FS_CardinalityType
<1>2. recent \in Seq(Errand) /\ ToSet(recent) = Errand /\ Len(recent) = Cardinality(Errand)
  BY <1>1 DEF NudgeInit
<1>3. 0 \in 0..StaleAfter /\ Unnudged \in 0..Unnudged /\ 0 \in 0..MaxTouches /\ 0 \in 0..MaxMisses
  BY NudgeAssumption DEF Unnudged
<1> QED BY <1>2, <1>3 DEF NudgeInit, NudgeTypeOK

LEMMA NudgeStep == NudgeTypeOK /\ [NudgeNext]_nudgeVars => NudgeTypeOK'
<1> SUFFICES ASSUME NudgeTypeOK, [NudgeNext]_nudgeVars PROVE NudgeTypeOK'
  OBVIOUS
<1>1. CASE ProcessOnce
  <2>1. /\ UNCHANGED <<errand, recent, age, touches>> /\ due' = FALSE
        /\ \/ UNCHANGED <<nudged, moved, misses>>
           \/ \E e \in Errand : Nudge(e)
           \/ NudgeMisses
    BY <1>1 DEF ProcessOnce, Stale, Listing
  <2>2. ASSUME NEW e \in Errand, Nudge(e)
        PROVE  (nudged \in [Errand -> 0..Unnudged] /\ moved \subseteq Errand /\ misses \in 0..MaxMisses)'
    BY <2>2, NudgeAssumption DEF Nudge, NudgeTypeOK, Unnudged
  <2>3. ASSUME NudgeMisses
        PROVE  (nudged \in [Errand -> 0..Unnudged] /\ moved \subseteq Errand /\ misses \in 0..MaxMisses)'
    BY <2>3, NudgeAssumption DEF NudgeMisses, NudgeTypeOK
  <2> QED BY <2>1, <2>2, <2>3 DEF NudgeTypeOK
<1>2. CASE PollSleeps
  <2>1. ASSUME NEW e \in Errand
        PROVE  /\ (IF age[e] < StaleAfter THEN age[e] + 1 ELSE StaleAfter) \in 0..StaleAfter
               /\ (IF nudged[e] < Rest THEN nudged[e] + 1 ELSE nudged[e]) \in 0..Unnudged
    BY NudgeAssumption DEF NudgeTypeOK, Unnudged
  <2> QED BY <1>2, <2>1 DEF PollSleeps, NudgeTypeOK
<1>3. ASSUME NEW e \in Errand, NEW s \in {"open", "in_progress", "done"}, Touch(e, s)
      PROVE  NudgeTypeOK'
  <2>1. recent \in Seq(Errand) /\ ToSet(recent) = Errand
    BY DEF NudgeTypeOK
  <2>2. Place(e) \in 1..Len(recent) /\ recent[Place(e)] = e
    <3>1. \E i \in DOMAIN recent : recent[i] = e
      BY <2>1 DEF ToSet
    <3> QED BY <2>1, <3>1 DEF Place
  <2>3. recent' = <<e>> \o RemoveAt(recent, Place(e))
    BY <1>3 DEF Touch
  <2>4. (recent \in Seq(Errand) /\ ToSet(recent) = Errand)' /\ Len(recent') = Len(recent)
    <3> HIDE DEF Place
    <3> QED BY <2>1, <2>2, <2>3, MovedToFront
  <2>5. (age \in [Errand -> 0..StaleAfter] /\ moved \subseteq Errand /\ touches \in 0..MaxTouches)'
    BY <1>3, NudgeAssumption DEF Touch, NudgeTypeOK
  <2> QED BY <1>3, <2>4, <2>5 DEF Touch, NudgeTypeOK
<1>4. CASE UNCHANGED nudgeVars
  BY <1>4 DEF nudgeVars, NudgeTypeOK
<1> QED BY <1>1, <1>2, <1>3, <1>4 DEF NudgeNext

\* For any tasks and any rests: the watcher's view of the tasks is one of all of them,
\* each once, in the order of their updates (TaskStore.list, TaskNudgeWatcher).
THEOREM NudgeTypeCorrect == NudgeSpec => []NudgeTypeOK
<1> QED BY NudgeStart, NudgeStep, PTL DEF NudgeSpec

-----------------------------------------------------------------------------
(***************************************************************************)
(* The build pill.                                                         *)
(***************************************************************************)

\* There is a report to read only if one was written.
ReportWasWritten == report # NoReport => reports > 0

PillInv == PillTypeOK /\ ReportWasWritten /\ OnePill

\* A report that is acted on, of which reports is the number (BuildStatusSkill).
LEMMA PillActs ==
    ASSUME PillInv, DrainReport
    PROVE  PillInv'
<1>0. /\ report \in Report /\ report # NoReport /\ report' = NoReport /\ reports' = reports
      /\ reports \in 1..MaxReports /\ NoReport \in Report /\ sleepers \subseteq Sleeper
      /\ handle \in 0..MaxReports /\ 0 \in 0..MaxReports
  BY PillAssumption DEF PillInv, PillTypeOK, ReportWasWritten, DrainReport, Report, NoReport
<1>1. ASSUME NEW b \in Build, OnBuildStart(b)
      PROVE  PillInv'
  <2>1. (sleepers \subseteq Sleeper /\ handle \in 0..MaxReports)'
    BY <1>0, <1>1 DEF OnBuildStart, CancelPendingDismiss
  <2>2. (current \in Build \cup {NoBuild} /\ pills \subseteq Build /\ over \in BOOLEAN)'
    BY <1>1, PillAssumption DEF OnBuildStart, Lose, PillInv, PillTypeOK
  <2>4. (unsent \in 0..MaxUnsent)'
    BY <1>1, PillAssumption DEF OnBuildStart, Lose, PillInv, PillTypeOK
  <2>3. OnePill'
    BY <1>1, PillAssumption DEF OnBuildStart, Lose, PillInv, PillTypeOK, OnePill
  <2> QED BY <1>0, <2>1, <2>2, <2>3, <2>4 DEF PillInv, PillTypeOK, ReportWasWritten
<1>2. ASSUME NEW b \in Build, OnBuildProgress(b)
      PROVE  PillInv'
  BY <1>0, <1>2 DEF OnBuildProgress, PillInv, PillTypeOK, ReportWasWritten, OnePill
<1>3. ASSUME NEW b \in Build, OnBuildDone(b)
      PROVE  PillInv'
  <2>1. [id |-> reports, task |-> b, left |-> Ttl] \in Sleeper
    BY <1>0, PillAssumption DEF Sleeper
  <2>2. (sleepers \subseteq Sleeper /\ handle \in 0..MaxReports /\ over \in BOOLEAN)'
    BY <1>0, <1>3, <2>1 DEF OnBuildDone, PillInv, PillTypeOK
  <2>4. (unsent \in 0..MaxUnsent)'
    BY <1>3, PillAssumption DEF OnBuildDone, Lose, PillInv, PillTypeOK
  <2>3. (unsent' = 0 => unsent = 0) /\ UNCHANGED <<current, pills>>
    BY <1>3, PillAssumption DEF OnBuildDone, Lose, PillInv, PillTypeOK
  <2> QED BY <1>0, <2>2, <2>3, <2>4 DEF PillInv, PillTypeOK, ReportWasWritten, OnePill
<1>4. ASSUME OnExternalDismiss
      PROVE  PillInv'
  <2>1. (sleepers \subseteq Sleeper /\ handle \in 0..MaxReports)'
    BY <1>0, <1>4 DEF OnExternalDismiss, CancelPendingDismiss
  <2>2. (current \in Build \cup {NoBuild} /\ pills \subseteq Build /\ unsent \in 0..MaxUnsent
         /\ over \in BOOLEAN /\ OnePill)'
    BY <1>4, PillAssumption DEF OnExternalDismiss, Lose, PillInv, PillTypeOK, OnePill
  <2> QED BY <1>0, <2>1, <2>2 DEF PillInv, PillTypeOK, ReportWasWritten
<1>5. report.state \in {"started", "progress", "done", "failed"} => report.task \in Build
  BY <1>0 DEF Report
<1> QED BY <1>0, <1>1, <1>2, <1>3, <1>4, <1>5 DEF DrainReport

LEMMA PillStep == PillInv /\ [PillNext]_pillVars => PillInv'
<1> SUFFICES ASSUME PillInv, [PillNext]_pillVars PROVE PillInv'
  OBVIOUS
<1>1. ASSUME NEW r \in Report, WriteReport(r)
      PROVE  PillInv'
  BY <1>1, PillAssumption DEF WriteReport, PillInv, PillTypeOK, ReportWasWritten, OnePill
<1>2. ASSUME NEW s \in sleepers, DelayedDismiss(s)
      PROVE  PillInv'
  <2>1. (PillTypeOK /\ ReportWasWritten)'
    BY <1>2, PillAssumption DEF DelayedDismiss, Lose, PillInv, PillTypeOK, ReportWasWritten
  <2>2. OnePill'
    BY <1>2, PillAssumption DEF DelayedDismiss, Lose, PillInv, PillTypeOK, OnePill
  <2> QED BY <2>1, <2>2 DEF PillInv
<1>3. CASE SleepersAge
  <2>1. ASSUME NEW s \in sleepers
        PROVE  [s EXCEPT !.left = @ - 1] \in Sleeper
    <3>1. s \in Sleeper /\ s.left \in 1..Ttl
      BY <1>3, <2>1, PillAssumption DEF SleepersAge, PillInv, PillTypeOK, Sleeper
    <3> QED BY <3>1, PillAssumption DEF Sleeper
  <2>2. sleepers' \subseteq Sleeper
    BY <1>3, <2>1 DEF SleepersAge
  <2> QED BY <1>3, <2>2 DEF SleepersAge, PillInv, PillTypeOK, ReportWasWritten, OnePill
<1>4. CASE UNCHANGED pillVars
  BY <1>4 DEF pillVars, PillInv, PillTypeOK, ReportWasWritten, OnePill
<1> QED BY <1>1, <1>2, <1>3, <1>4, PillActs DEF PillNext

LEMMA PillInvariant == PillSpec => []PillInv
<1>1. PillInit => PillInv
  <2>1. NoReport \in Report
    BY DEF NoReport, Report
  <2>2. PillInit => PillTypeOK
    <3>1. 0 \in 0..MaxReports /\ 0 \in 0..MaxUnsent
      BY PillAssumption
    <3>2. PillInit => (over \in BOOLEAN)
      BY DEF PillInit
    <3> QED BY <2>1, <3>1, <3>2 DEF PillInit, PillTypeOK
  <2>3. PillInit => ReportWasWritten /\ OnePill
    BY DEF PillInit, ReportWasWritten, OnePill
  <2> QED BY <2>2, <2>3 DEF PillInv
<1> QED BY <1>1, PillStep, PTL DEF PillSpec

\* For any builds, reports and losses: every sleeper is one that some report put to sleep,
\* and every pill a build's.
THEOREM PillTypeCorrect == PillSpec => []PillTypeOK
<1>1. PillInv => PillTypeOK
  BY DEF PillInv
<1> QED BY <1>1, PillInvariant, PTL

\* The island shows the skill's one build and no other, whichever reports are lost, late
\* or overwritten, until a send finds no client (BuildStatusSkill, _cancel_pending_dismiss).
THEOREM OneBuildPill == PillSpec => []OnePill
<1>1. PillInv => OnePill
  BY DEF PillInv
<1> QED BY <1>1, PillInvariant, PTL

-----------------------------------------------------------------------------
(***************************************************************************)
(* Reminders: no interleaving of the loop, the demo's handler and the      *)
(* skills fires one twice, early, or sleeps past it, for any reminders and *)
(* any bounds.                                                             *)
(***************************************************************************)

\* A reminder that is pending has not been fired for its latest addition.
PendingAhead == \A r \in Pending : fires[r] < adds[r]

\* What a process_due call goes over was added before, and was due when listed: a
\* skill's id is minted once, so that it is not added again for a later time.
ListedWasDue ==
    \A c \in Caller : \A r \in todo[c] : adds[r] > 0 /\ dueAt[r] <= clock

ReminderInv ==
    /\ ReminderTypeOK
    /\ PendingAhead
    /\ ListedWasDue
    /\ FiresOncePerAdd
    /\ SleepsNoLonger

USE DEF Instant, Caller, Status, LoopState

\* A step is one of the actions, for some reminder, caller or time.
LEMMA ReminderActions ==
    ASSUME ReminderNext
    PROVE  \/ \E r \in Reminder, t \in Instant : Add(r, t)
           \/ \E r \in Reminder : Cancel(r)
           \/ \E r \in Reminder : ClickDone(r)
           \/ DemoClear
           \/ DemoReminder
           \/ \E c \in Caller : Fire(c) /\ (c = "demo" => busy) /\ (c = "loop" => loop = "processing")
           \/ DemoEnds
           \/ ListDue
           \/ Sleep
           \/ Woken
           \/ TimesOut
           \/ Tick
  BY DEF ReminderNext, LoopStep, DemoFires, LoopFires

LEMMA ReminderStart == ReminderInit => ReminderInv
  <1> SUFFICES ASSUME ReminderInit PROVE ReminderInv
    OBVIOUS
  <1>1. ReminderTypeOK
    <2>1. 0 \in Instant /\ 0 \in 0..MaxDemos + 1
      BY ReminderAssumption
    <2>2. /\ status \in [Reminder -> Status] /\ dueAt \in [Reminder -> Instant]
          /\ todo \in [Caller -> SUBSET Reminder]
      BY <2>1 DEF ReminderInit
    <2>3. adds \in [Reminder -> 0..MaxDemos + 1] /\ fires \in [Reminder -> Nat]
      BY <2>1 DEF ReminderInit
    <2> QED BY <2>1, <2>2, <2>3 DEF ReminderInit, ReminderTypeOK
  <1>2. Pending = {} /\ PendingAhead /\ SleepsNoLonger
    BY DEF ReminderInit, Pending, PendingAhead, SleepsNoLonger
  <1>3. ListedWasDue
    BY DEF ReminderInit, ListedWasDue
  <1>4. FiresOncePerAdd
    BY DEF ReminderInit, FiresOncePerAdd
  <1> QED BY <1>1, <1>2, <1>3, <1>4 DEF ReminderInv

LEMMA ReminderStep == ReminderInv /\ [ReminderNext]_reminderVars => ReminderInv'
  <1> SUFFICES ASSUME ReminderInv, [ReminderNext]_reminderVars PROVE ReminderInv'
    OBVIOUS
  <1> USE ReminderAssumption DEF ReminderInv, ReminderTypeOK, Pending, PendingAhead, ListedWasDue,
          FiresOncePerAdd, SleepsNoLonger
  <1>1. ASSUME NEW r \in Reminder, NEW t \in Instant, Add(r, t) PROVE ReminderInv'
    <2>1. ReminderTypeOK'
      BY <1>1 DEF Add, Insert, scheduler
    <2>2. PendingAhead' /\ FiresOncePerAdd'
      BY <1>1 DEF Add, Insert
    <2>3. ListedWasDue'
      <3>1. \A c \in Caller : r \notin todo[c]
        BY <1>1 DEF Add
      <3> QED BY <1>1, <3>1 DEF Add, Insert
    <2>4. SleepsNoLonger'
      BY <1>1 DEF Add
    <2> QED BY <2>1, <2>2, <2>3, <2>4
  <1>2. ASSUME NEW r \in Reminder, Cancel(r) PROVE ReminderInv'
    BY <1>2 DEF Cancel, scheduler, history
  <1>3. ASSUME NEW r \in Reminder, ClickDone(r) PROVE ReminderInv'
    BY <1>3 DEF ClickDone, store, scheduler
  <1>4. CASE DemoClear
    BY <1>4 DEF DemoClear, scheduler, history
  <1>5. CASE DemoReminder
    <2>1. ReminderTypeOK'
      BY <1>5 DEF DemoReminder, Insert, Due, scheduler
    <2>2. PendingAhead' /\ FiresOncePerAdd'
      BY <1>5 DEF DemoReminder, Insert
    <2>3. ListedWasDue'
      <3> SUFFICES ASSUME NEW c \in Caller, NEW r \in todo'[c]
                   PROVE  adds'[r] > 0 /\ dueAt'[r] <= clock'
        OBVIOUS
      <3>1. r \in Reminder
        BY <2>1
      <3>2. CASE r = Demo
        BY <1>5, <3>2 DEF DemoReminder, Insert
      <3>3. CASE r # Demo
        <4>1. r \in todo[c] \/ r \in Due
          BY <1>5, <3>3 DEF DemoReminder
        <4> QED BY <1>5, <3>1, <3>3, <4>1 DEF DemoReminder, Insert, Due
      <3> QED BY <3>2, <3>3
    <2>4. SleepsNoLonger'
      BY <1>5 DEF DemoReminder
    <2> QED BY <2>1, <2>2, <2>3, <2>4
  <1>6. ASSUME NEW c \in Caller, Fire(c) PROVE ReminderInv'
    <2> PICK r \in StillPending(c) :
          /\ status' = [status EXCEPT ![r] = "fired"]
          /\ fires' = [fires EXCEPT ![r] = @ + 1]
          /\ wake' = TRUE
          /\ todo' = [todo EXCEPT ![c] = @ \ {r}]
          /\ \E arrived \in {{}, {r}} : bubbles' = bubbles \cup arrived
          /\ UNCHANGED <<dueAt, clock, scheduler, busy, done, adds>>
      BY <1>6 DEF Fire
    <2>1. r \in todo[c] /\ r \in Reminder /\ status[r] = "pending"
      BY DEF StillPending
    <2>2. ReminderTypeOK'
      BY <2>1 DEF scheduler
    <2>3. PendingAhead' /\ FiresOncePerAdd' /\ ListedWasDue' /\ SleepsNoLonger'
      BY <2>1 DEF scheduler
    <2> QED BY <2>2, <2>3
  <1>7. CASE DemoEnds
    BY <1>7 DEF DemoEnds, store, scheduler, history
  <1>8. CASE ListDue
    BY <1>8 DEF ListDue, Due, store, history
  <1>9. CASE Sleep
    <2>1. ReminderTypeOK'
      BY <1>9 DEF Sleep, store, history
    <2>2. PendingAhead' /\ FiresOncePerAdd' /\ ListedWasDue'
      BY <1>9 DEF Sleep, store, history
    <2>3. SleepsNoLonger'
      BY <1>9 DEF Sleep, Earliest, store
    <2> QED BY <2>1, <2>2, <2>3
  <1>10. CASE Woken
    <2>1. /\ loop' = "top" /\ wake' = FALSE /\ deadline' = 0
          /\ UNCHANGED <<status, dueAt, clock, todo, adds, fires, busy, bubbles, done>>
      BY <1>10 DEF Woken, store, history
    <2>2. 0 \in Instant
      BY DEF Instant
    <2> QED BY <2>1, <2>2
  <1>11. CASE TimesOut
    BY <1>11 DEF TimesOut, store, history
  <1>12. CASE Tick
    BY <1>12 DEF Tick, store, scheduler, history
  <1>13. CASE UNCHANGED reminderVars
    BY <1>13 DEF reminderVars, store, scheduler, history
  <1> QED
    BY <1>1, <1>2, <1>3, <1>4, <1>5, <1>6, <1>7, <1>8, <1>9, <1>10, <1>11, <1>12, <1>13, ReminderActions

LEMMA ReminderInvariance == ReminderSpec => []ReminderInv
  BY ReminderStart, ReminderStep, PTL DEF ReminderSpec

\* The variables keep their types: a deadline is a time of the clock's, and no
\* reminder is added more often than the skills and the demo panel add it.
THEOREM ReminderTypeCorrect == ReminderSpec => []ReminderTypeOK
  BY ReminderInvariance, PTL DEF ReminderInv

\* mark_fired's look at the present status is enough: a reminder that two
\* process_due calls listed is fired by one of them.
THEOREM FiredOnce == ReminderSpec => []FiresOncePerAdd
  BY ReminderInvariance, PTL DEF ReminderInv

\* Whatever is added, cancelled or fired while the scheduler sleeps, it is not
\* left asleep past a reminder.
THEOREM NeverOversleeps == ReminderSpec => []SleepsNoLonger
  BY ReminderInvariance, PTL DEF ReminderInv

LEMMA FireIsDue ==
    ASSUME ReminderInv, NEW c \in Caller, Fire(c), NEW r \in Reminder, fires'[r] > fires[r]
    PROVE  r \in Due
  <1> PICK q \in StillPending(c) : fires' = [fires EXCEPT ![q] = @ + 1]
    BY DEF Fire
  <1>1. r = q
    BY DEF ReminderInv, ReminderTypeOK
  <1> QED BY <1>1 DEF StillPending, Pending, Due, ReminderInv, ListedWasDue

\* What fires is pending and due at that moment, though it was listed before an
\* await during which it may have been cancelled, forgotten or added anew.
THEOREM FiresWhenDue == ReminderSpec => OnlyDueFires
  <1> DEFINE Due1 == \A r \in Reminder : fires'[r] > fires[r] => r \in Due
  <1>1. ReminderInv /\ [ReminderNext]_reminderVars => [Due1]_reminderVars
    <2> SUFFICES ASSUME ReminderInv, ReminderNext PROVE Due1
      OBVIOUS
    <2>1. ASSUME NEW c \in Caller, Fire(c) PROVE Due1
      BY <2>1, FireIsDue
    <2>2. ASSUME UNCHANGED fires PROVE Due1
      BY <2>2 DEF ReminderInv, ReminderTypeOK
    <2> HIDE DEF Due1
    <2> QED
      BY <2>1, <2>2, ReminderActions
      DEF Add, Cancel, ClickDone, DemoClear, DemoReminder, DemoEnds, ListDue, Sleep, Woken,
          TimesOut, Tick, history
  <1> QED BY <1>1, ReminderInvariance, PTL DEF ReminderSpec, OnlyDueFires
=============================================================================
