------------------------------- MODULE Lifecycle -------------------------------
(***************************************************************************)
(* The agent's life (main.run, App.setup, serve_forever, teardown): stores *)
(* are opened, the bridge begins to listen, the watchers are started, and  *)
(* after a signal all is taken down again. A client may connect as soon as *)
(* the bridge listens; what it is greeted with comes from the runtime that *)
(* the end of setup installs. A connection that ends, or that another takes *)
(* over, leaves a handler behind which goes on with what it was doing and  *)
(* whose cleanup takes the batcher of whoever is connected by then. Module *)
(* registrations are kept for as long as the agent lives and replayed to   *)
(* each client.                                                            *)
(***************************************************************************)
EXTENDS Naturals, Sequences, SequencesExt

CONSTANTS
    Registration,  \* the island modules external tools register
    MaxJoins       \* bound: connections of the client

Nobody == "nobody"

ASSUME LifecycleAssumption == MaxJoins \in Nat /\ Nobody \notin Registration

Store == {"session", "chat", "task", "tool", "coding", "profile"}

\* setup in its order: the stores, the listener, then two reads of the stores
\* before the runtime is installed.
Setup == <<"session", "chat", "task", "tool", "coding", "profile", "listen", "rollup", "restore",
           "runtime">>

\* serve_forever in its order.
Starts == <<"reaper", "projector", "surface", "reminders", "build", "nudges", "scanner", "codex",
            "rollouts", "rows", "hooks", "registrations">>

\* Faulty variant: the stores are closed before the bridge and the late watchers stop.
StopsClosingFirst ==
    <<"reaper", "nudges", "build", "session", "chat", "task", "tool", "coding", "profile", "hooks",
      "registrations", "scanner", "codex", "rollouts", "rows", "reminders", "projector", "surface",
      "bridge">>

\* teardown in its order; a step that raises is logged and the next one follows.
Stops ==
    <<"reaper", "nudges", "build", "hooks", "registrations", "scanner", "codex", "rollouts", "rows",
      "reminders", "projector", "surface", "bridge", "session", "chat", "task", "tool", "coding",
      "profile">>

\* What a running part reads or writes: those that send a snapshot read the sessions
\* and the tasks, a handler of the bridge any store.
Uses(w) ==
    CASE w \in {"reaper", "hooks", "codex", "rollouts", "rows"} -> {"session", "task"}
      [] w = "nudges" -> {"task"}
      [] w = "bridge" -> Store
      [] OTHER -> {}

\* Those whose start makes a directory, which can fail.
MakesDirectory == {"build", "hooks", "registrations"}

VARIABLES
    life,       \* where main.run stands
    at,          \* and the step of the sequence it is at
    opened,      \* stores that are open
    running,     \* watchers and background tasks, and the bridge while it listens
    runtime,     \* App._runtime is set
    stopping,    \* a signal has set the stop event
    client,      \* the connection
    handling,    \* an envelope of it is being handled
    wired,       \* BridgeServer._batcher is set
    former,      \* handlers of former connections that have not ended
    joins,
    replay,      \* registrations _replay_module_registrations has still to send
    leftover,    \* and those the handlers of former connections have
    registered,  \* _registered_island_modules
    forwarding,  \* the registration whose handler awaits the sink, or Nobody
    shown,       \* the modules the client knows
    late,        \* history: a handler has gone on after a store was closed
    asked        \* history: the modules tools have registered

clientVars == <<client, handling, wired, former, joins, replay, leftover, shown, late>>
moduleVars == <<registered, forwarding, asked>>
agentVars == <<life, at, opened, running, runtime, stopping>>
lifeVars == <<agentVars, clientVars, moduleVars>>

Stage == {"setup", "starting", "serving", "stuck", "teardown", "down"}
Connected == {"joined", "greeted", "ungreeted"}

LifeTypeOK ==
    /\ life \in Stage
    /\ at \in 1..Len(Stops) + 1
    /\ opened \subseteq Store
    /\ running \subseteq ToSet(Stops)
    /\ runtime \in BOOLEAN /\ stopping \in BOOLEAN
    /\ client \in Connected \cup {"away"}
    /\ handling \in BOOLEAN /\ wired \in BOOLEAN
    /\ former \in Nat /\ joins \in 0..MaxJoins
    /\ replay \subseteq Registration /\ leftover \subseteq Registration
    /\ registered \subseteq Registration
    /\ forwarding \in Registration \cup {Nobody}
    /\ shown \subseteq Registration
    /\ late \in BOOLEAN
    /\ asked \subseteq Registration

LifeInit ==
    /\ life = "setup" /\ at = 1
    /\ opened = {} /\ running = {}
    /\ runtime = FALSE /\ stopping = FALSE
    /\ client = "away" /\ handling = FALSE /\ wired = FALSE /\ former = 0 /\ joins = 0
    /\ replay = {} /\ leftover = {} /\ registered = {} /\ forwarding = Nobody /\ shown = {}
    /\ late = FALSE /\ asked = {}

-----------------------------------------------------------------------------
SetupStep ==
    LET s == Setup[at] IN
    /\ life = "setup"
    /\ opened' = IF s \in Store THEN opened \cup {s} ELSE opened
    /\ running' = IF s = "listen" THEN running \cup {"bridge"} ELSE running
    /\ runtime' = (s = "runtime")
    /\ IF s = "runtime" THEN life' = "starting" /\ at' = 1 ELSE at' = at + 1 /\ UNCHANGED life
    /\ UNCHANGED <<stopping, clientVars, moduleVars>>

\* A store that does not open, or a signal before the handlers are installed,
\* ends the process on the spot.
SetupDies ==
    /\ life = "setup"
    /\ life' = "down"
    /\ running' = {} /\ opened' = {}
    /\ client' = "away" /\ wired' = FALSE /\ former' = 0
    /\ UNCHANGED <<at, runtime, stopping, handling, joins, replay, leftover, shown, late, moduleVars>>

StartWatcher ==
    /\ life = "starting"
    /\ running' = running \cup {Starts[at]}
    /\ IF at = Len(Starts) THEN life' = "serving" /\ at' = 1 ELSE at' = at + 1 /\ UNCHANGED life
    /\ UNCHANGED <<opened, runtime, stopping, clientVars, moduleVars>>

\* serve_forever raises before its try: nobody looks at the task until the stop
\* event, the bridge goes on listening.
StartFails ==
    /\ life = "starting"
    /\ Starts[at] \in MakesDirectory
    /\ life' = "stuck"
    /\ UNCHANGED <<at, opened, running, runtime, stopping, clientVars, moduleVars>>

Signal ==
    /\ life \in {"starting", "serving", "stuck"}
    /\ stopping' = TRUE
    /\ UNCHANGED <<life, at, opened, running, runtime, clientVars, moduleVars>>

\* Faulty variant: teardown runs only in the finally of a bridge that was serving.
CancelServing ==
    /\ stopping /\ life = "serving"
    /\ life' = "teardown" /\ at' = 1
    /\ UNCHANGED <<opened, running, runtime, stopping, clientVars, moduleVars>>

\* main.run cancels the serve task; its finally, or else run itself, tears down.
CancelServe ==
    /\ stopping /\ life \in {"starting", "serving", "stuck"}
    /\ life' = "teardown" /\ at' = 1
    /\ UNCHANGED <<opened, running, runtime, stopping, clientVars, moduleVars>>

\* The connection's handler goes on without it, with the envelope it handles, its
\* greeting or its replay.
LeavesHandler ==
    /\ former' = IF client \in Connected THEN former + 1 ELSE former
    /\ leftover' = leftover \cup (IF client = "joined" THEN registered ELSE replay)
    /\ replay' = {}
    /\ handling' = FALSE

\* One stop or close of teardown. The bridge's closes the connection and drops the
\* batcher; it does not wait for the handlers.
TeardownStep ==
    LET s == Stops[at] IN
    /\ life = "teardown" /\ at <= Len(Stops)
    /\ running' = running \ {s}
    /\ opened' = opened \ {s}
    /\ forwarding' = IF s = "registrations" THEN Nobody ELSE forwarding
    /\ IF s = "bridge" THEN client' = "away" /\ wired' = FALSE /\ LeavesHandler
       ELSE UNCHANGED <<client, handling, wired, former, replay, leftover>>
    /\ at' = at + 1
    /\ UNCHANGED <<life, runtime, stopping, joins, registered, shown, late, asked>>

\* After the last the loop ends, which cancels whatever still runs.
TeardownEnds ==
    /\ life = "teardown" /\ at > Len(Stops)
    /\ life' = "down" /\ runtime' = FALSE /\ client' = "away"
    /\ former' = 0 /\ leftover' = {}
    /\ UNCHANGED <<at, opened, running, stopping, handling, wired, joins, replay, shown, late,
                   moduleVars>>

-----------------------------------------------------------------------------
\* A client connects, the one that was there before or a fresh one; a connection
\* that is still there is taken over. (The code closes the listener of a serving
\* bridge before its teardown: that one may still join then only adds behaviours.)
Join ==
    /\ "bridge" \in running /\ joins < MaxJoins
    /\ client' = "joined" /\ wired' = TRUE /\ LeavesHandler
    /\ joins' = joins + 1
    /\ shown' \in {shown, {}}
    /\ UNCHANGED <<agentVars, late, moduleVars>>

Leaves ==
    /\ client \in Connected
    /\ client' = "away" /\ LeavesHandler
    /\ UNCHANGED <<agentVars, wired, joins, shown, late, moduleVars>>

\* _on_client_connect: without a runtime or a batcher it raises, the server logs
\* that and reads on.
OnClientConnect ==
    /\ client = "joined"
    /\ IF runtime /\ wired THEN client' = "greeted" /\ replay' = registered
       ELSE client' = "ungreeted" /\ UNCHANGED replay
    /\ UNCHANGED <<agentVars, handling, wired, former, joins, leftover, shown, late, moduleVars>>

\* Without a batcher the send raises, which ends the replay.
ReplayModule(m) ==
    /\ client = "greeted" /\ m \in replay
    /\ IF wired THEN replay' = replay \ {m} /\ shown' = shown \cup {m}
       ELSE replay' = {} /\ UNCHANGED shown
    /\ UNCHANGED <<agentVars, client, handling, wired, former, joins, leftover, late, moduleVars>>

\* The client's next envelope begins to be handled; without a runtime it raises.
OnEnvelope ==
    /\ client \in {"greeted", "ungreeted"} /\ replay = {} /\ ~handling /\ runtime
    /\ handling' = TRUE
    /\ UNCHANGED <<agentVars, client, wired, former, joins, replay, leftover, shown, late, moduleVars>>

\* It writes its store and is done.
HandlerEnds ==
    /\ handling
    /\ handling' = FALSE
    /\ late' = (late \/ opened # Store)
    /\ UNCHANGED <<agentVars, client, wired, former, joins, replay, leftover, shown, moduleVars>>

\* The handler of a former connection writes its store, when some are closed; ...
FormerWrites ==
    /\ former > 0 /\ opened # Store
    /\ late' = TRUE
    /\ UNCHANGED <<agentVars, client, handling, wired, former, joins, replay, leftover, shown,
                   moduleVars>>

\* goes on with its replay, to whoever is connected by now; ...
FormerReplays(m) ==
    /\ former > 0 /\ m \in leftover
    /\ leftover' = IF wired THEN leftover \ {m} ELSE {}
    /\ shown' = IF wired /\ client \in Connected THEN shown \cup {m} ELSE shown
    /\ UNCHANGED <<agentVars, client, handling, wired, former, joins, replay, late, moduleVars>>

\* and ends: its cleanup closes and drops the batcher, whosever that is.
FormerEnds ==
    /\ former > 1 \/ (former = 1 /\ leftover = {})
    /\ former' = former - 1 /\ wired' = FALSE
    /\ UNCHANGED <<agentVars, client, handling, joins, replay, leftover, shown, late, moduleVars>>

\* Faulty variant: a registration is kept only once it has been sent.
RegisterWhenSent(m) ==
    /\ "registrations" \in running /\ forwarding = Nobody
    /\ registered' = IF wired /\ client \in Connected THEN registered \cup {m} ELSE registered
    /\ forwarding' = m
    /\ asked' = asked \cup {m}
    /\ UNCHANGED <<agentVars, clientVars>>

\* _handle_module_registration: kept first, then sent.
Register(m) ==
    /\ "registrations" \in running /\ forwarding = Nobody
    /\ registered' = registered \cup {m}
    /\ forwarding' = m
    /\ asked' = asked \cup {m}
    /\ UNCHANGED <<agentVars, clientVars>>

\* The sink sends through the batcher, if there is one, to a client greeted or not.
Forward ==
    /\ forwarding # Nobody
    /\ shown' = IF wired /\ client \in Connected THEN shown \cup {forwarding} ELSE shown
    /\ forwarding' = Nobody
    /\ UNCHANGED <<agentVars, client, handling, wired, former, joins, replay, leftover, registered,
                   late, asked>>

LifeProceeds ==
    \/ SetupStep \/ StartWatcher \/ CancelServe \/ TeardownStep \/ TeardownEnds

LifeNext ==
    \/ LifeProceeds \/ SetupDies \/ StartFails \/ Signal
    \/ Join \/ Leaves \/ OnClientConnect \/ OnEnvelope \/ HandlerEnds
    \/ FormerWrites \/ FormerEnds
    \/ \E m \in Registration : ReplayModule(m) \/ FormerReplays(m) \/ Register(m)
    \/ Forward

\* Each step is run by the event loop and returns. The stops of the bridge and of the
\* reminders bound themselves by a timeout; the others await a task they have
\* cancelled, a store that closes or the sends still pending.
LifeFairness == WF_lifeVars(LifeProceeds)

LifeSpec == LifeInit /\ [][LifeNext]_lifeVars /\ LifeFairness

-----------------------------------------------------------------------------
\* No watcher, and no bridge that still has a connection, loses a store it needs, at
\* any step of setup, start and teardown (App.setup, App.teardown). Nothing is said
\* of the handler of a connection that was open when the bridge stopped, which nobody
\* awaits: it may find its store closed, and it alone.
StoresOutliveWatchers ==
    /\ \A w \in running : Uses(w) \subseteq opened
    /\ late => "bridge" \notin running

\* While the agent serves, a greeted client whose batcher no former connection has
\* taken knows every module registered in the agent's life, whether it was there, away
\* or not yet born at the time (App._handle_module_registration,
\* _replay_module_registrations).
RegisteredIsShown ==
    /\ client = "greeted" /\ wired /\ replay = {}
    /\ "registrations" \in running /\ forwarding = Nobody
    => asked \subseteq shown

\* Wherever the signal finds it, the agent is taken down to the last store
\* (main.run).
SignalEndsAgent == stopping ~> (life = "down" /\ opened = {} /\ running = {})

\* "When Swift connects, hand it a state.snapshot then agent.ready" (app.py): no
\* client that stays connected is left without its greeting.
EveryClientIsGreeted == client # "ungreeted"
=============================================================================
