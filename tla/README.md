# TLA+ models of Desk-mate

Desk-mate is a desktop companion. A Python agent (`agent/deskmate_agent`, one
asyncio loop) watches coding agents, keeps approvals, sessions, reminders, tasks
and memories, and talks to a language model. A Swift shell (`DeskmateApp`) draws
a pet with bubbles and an island at the top of the screen. The two speak newline
delimited JSON envelopes over a Unix socket. This directory models the parts in
which an order of steps decides whether the program is right, checks them with
TLC, and proves the most important invariants with TLAPS.

Contents: [inventory](#inventory), [plan](#plan), [modules](#modules-and-the-code),
[runs](#runs), [fairness](#fairness), [findings](#where-code-and-documents-part),
[proofs](#proofs), [limits](#what-is-only-model-checked-and-what-is-not-modelled).
Paths without a prefix are under `src/agent/deskmate_agent/`; `Core/` is
`src/DeskmateApp/Sources/DeskmateCore/`.

## Inventory

### How the parts meet

    hook files, scanners, transcripts --events--> AgentEventReducer --> SessionStore, ApprovalStore
    chat, tools --> ApprovalStore, ReminderStore, TaskStore, profile, transcript
    perception ticks --> deduper --> coding pill, nudge policy
    stores --store events--> DomainStateProjector, ApprovalSurfacePublisher, ReminderScheduler
    projector, publisher, scheduler, skills --intents--> BridgeServer.send --> EnvelopeBatcher --> socket
    socket --> BridgeClient --> SnapshotHydrator, CompanionIntentDispatcher --> client stores --> screen
    click on the screen --> InteractionAction --> BridgeServer handler --> ApprovalRouter, SessionRouter

Store listeners are called synchronously inside the mutation; what they do
beyond noting it runs in tasks of their own. The agent has one thread, so code
between two awaits is atomic and all interleaving happens at awaits; database
work runs in the driver's thread and is an await. Every accepted connection has
a handler task, which reads one envelope after another and awaits each one's
handler; two handlers overlap only while a connection replaces another. The
command line is a second process on the same files and the same database. The
Swift side serialises its stores on the main actor and its sockets on work
queues.

### Components

| Component | State | Operations | What is hard | What makes it right | Module |
|---|---|---|---|---|---|
| Bridge server (`bridge/server.py`) | `_writer`, `_batcher`, `_heartbeat_task` | accept, read loop, send, heartbeat, cleanup in three awaits | handlers of two connections share the fields | a live connection keeps its writer and is greeted in order; loops and stale handlers end | BridgeServer |
| Batcher (`bridge/batcher.py`) | `_pending`, `_timer`, `_lock` | enqueue, flush, window timer | a flush cancels and awaits a timer while it holds the lock | nothing lost, repeated, reordered or stranded; a flush returns | EnvelopeBatcher |
| Approvals (`approvals/store.py`, `router.py`) | record per id | add, resolve, cancel, clear, the router's close-loop | double clicks, overlapping handlers, a sink that raises in the middle | an effect has one Allow behind it and happens once; a session waits only with a cause | ApprovalFlow |
| What an Allow releases (`skills/computer_control.py`, `memory/suggestions.py`, `app.py`) | pending actions, profile, tasks, audit | act or write, record, give feedback | each step may raise after the one before it is done | as above | ApprovalFlow |
| Agent events (`agent_events.py`) | session phases | six classes of event | events and clicks write one phase | passive events do not demote a session that waits | AgentEvents |
| Sessions (`sessions/`) | sessions, silenced ids, questions | upsert, answer, jump, reap | scanner, hooks, transcripts and clicks on one session | a silent session ends, a waiting one waits | AgentSessions |
| Hook watcher and installers (`hooks.py`, `hook_installers.py`) | files in an inbox; the agents' settings | write, read, handle, unlink; install, uninstall | a crash between two files or between handling and unlinking | every event handled in order; the user's settings stay the user's | AgentSessions, HookInstaller |
| Scanner and observers (`agent_runtime.py`, `runtime_observers.py`, transcripts) | processes and logs seen | scan, compare, tick, disable | a scan disagrees with a hook; an observer raises | rows follow processes; passive sources end no wait | RuntimeObservers, AgentSessions |
| Codex client (`codex_app_server.py`) | process, `_pending` | request, read, notify | timeouts, end of file | threads do not stay at work when the server is gone | AgentSessions |
| Approval surface (`approvals/surface.py`, `Core/BubbleQueue.swift`) | pending tasks; the queue of bubbles | show, dismiss, cap, peek, prune | tasks out of order, reconnects, overflow, expiry nobody is told of | the queue follows the store; the most urgent bubble shows | ApprovalSurface |
| Streamed replies (`dispatcher.py`) | what has accumulated; two fixed bubble ids | acknowledge, show, patch, settle | overlapping streams on one id; a lost connection | a settled bubble has the whole reply | ReplyStream |
| Domain state (`projector.py`, `app.py`, `Core/SnapshotHydrator.swift`) | `_dirty`, `_drain_task`, `_last_emitted`; the client's copy | kick, drain, snapshot, delta | snapshots overtake the drain; changes while it awaits its sink | the client ends on the present state | DomainSync |
| Reminders (`reminders/`) | records, `_wake`, the loop | add, cancel, fire, sleep | cancel or add around the wait, a second `process_due` | fires once, when due, and is not slept past | ReminderScheduler |
| Chat turns (`skills/llm_chat.py`, `tool_calls.py`, `task_control.py`) | the turn's messages, calls and rows | compose, call, record, store | the model repeats itself, tools time out, two turns share stores | whole turns in the transcript; the ledger agrees with its row; a turn ends | ChatTurn |
| Tasks (`memory/tasks.py`), tool actions, profile, chat | SQLite tables, a write-back profile | insert, replace steps, advance, flush, append | one connection shared by coroutines, another process beside it, a cancel or a crash between statements | step lists are whole; what was said to be remembered is on disk | TaskStore, ChatTurn |
| Perception tick (`dispatcher.py`, `perception_deduper.py`, `skills/coding_session.py`, `proactive/`) | fingerprint, pill, cooldown and quota | accept, observe, record, nudge | dropped ticks, sends that raise, widening intervals | the pill follows the user; sessions end in their editor; nudges are rare | PerceptionTick |
| Task nudges (`task_nudges.py`) | `_last_nudged_at` | poll, choose, nudge | one nudge a poll, sends that raise | each stale task has its turn | TaskNudges |
| Build pill (`skills/build_status.py`, `_watcher.py`) | one slot, a delayed dismissal | report, poll, show, dismiss | reports that overwrite one another, a sleeper for a build that is replaced | a finished build leaves | BuildPill |
| Life of the agent (`main.py`, `app.py`, `module_registrations.py`) | what is open and what runs | set up, serve, tear down | a signal or a failure at any step; a client that is early | no watcher finds its store closed; registrations reach every client | Lifecycle |
| Reconnecting client (`Core/ReconnectingBridgeClient.swift`) | inner client, retry, state | start, stop, connect, retry | late callbacks of a former client | one inner client at a time, which ends up connected | ReconnectingClient |
| Island (`Core/IslandStateMachine.swift`, `LiveIslandSurfaceStore.swift`) | machine, transient queue, deadline, steady surface | present, update, dismiss, tick, promote | two deadlines for one card; a copy under the card | the steady surface comes back and is true; urgent cards stay | IslandSurface |
| Degradation (`degradation.py`) | level | set | the clamp | what is read is the level | DomainSync, PerceptionTick |
| Protocol, rows, pet, sampler, settings, UI, packs, logging | view state, files | decode, draw, sample, read | none beyond the stores | presentation and I/O | none |

`PROJECT.json` lists each of them with its sources and whether it is modelled,
and under `hazards` every place where the order of steps bites, with the
properties that watch it.

## Plan

Written, in this order: `ApprovalFlow` with `ConsentGate` (the promise that
matters most: nothing runs without consent), `EnvelopeBatcher` and
`BridgeServer` (everything else travels over them), `ApprovalSurface`,
`DomainSync`, `ReminderScheduler`, `IslandSurface`; then `AgentSessions` over
`RuntimeObservers` and `AgentEvents`, `ChatTurn` over `TaskStore`, and the parts
that stand alone and are checked side by side in `PartsMC`: `HookInstaller`,
`PerceptionTick`, `Lifecycle`, `TaskNudges`, `BuildPill`, `ReconnectingClient`
and `ReplyStream`. `BubbleQueue` has the operators on the client's queue of
bubbles that `ApprovalSurface` and `ReplyStream` share. Eight modules of proofs
cover every module that has behaviours.

Which module composes which: `AgentSessions` EXTENDS `RuntimeObservers` EXTENDS
`AgentEvents`; `ChatTurn` EXTENDS `TaskStore`; `ApprovalSurface` and `ReplyStream`
EXTEND `BubbleQueue`; `ApprovalFlow` is shown to
implement `ConsentGate` by `INSTANCE ... WITH`; `PartsMC` EXTENDS its eight parts,
a behaviour being one of a single part while the others rest.

Left, the most valuable first:

1. `ReconnectingClient` composed with `BridgeServer` through its actions `Accept`
   and `ClientLeaves`, so that what a takeover leaves is seen from the client.
2. Restarts of the agent in `ApprovalFlow`: ids of computer approvals count from
   one again while the client keeps the old bubbles.
3. More proofs: what the batcher promises to `BridgeServer` as a refinement of a
   module of its own, and the remaining facts behind the liveness properties (that
   each waits for a step that is possible), as far as they are invariants.

## Modules and the code

An action is what the code does from one await to the next. Variables have the
names of the fields they stand for; a variable marked `history` in a module
counts or remembers for the properties and guards nothing but bounds.

**ConsentGate** is the abstract specification: a gated action is asked for,
answered once, released once if allowed; open questions may be withdrawn, all
at once. It has one variable and no mention of stores or handlers.

**ApprovalFlow** has the approval records (`status`), the sessions' phases, the
connection, and for every handler task where it stands between the click and
the end of `_handle_interaction`. `Resolve` is the router up to its first
await, including the dismiss that is already sent or has raised (`failing`).
What follows depends on the kind of approval: `ResumeSession` (hooks),
`RunComputerAction`, `ResolveSuggestion` .. `RecordSuggestion` .. `GiveFeedback`
(memory and task suggestions), `FinishPlain`. `FailSuggestion` is a database
that raises. The reducer's events are actions on `phase`, so that hooks, clicks
and the router's write race as they do in the agent. `DemoClear` is the demo
panel's cancel and `clear`. Approval ids are of three kinds, as in the code:
minted fresh (`OneShot`), named by a hook and asked again and again (`Hooked`),
and the demo panel's.

**EnvelopeBatcher** has the lock with its first-come queue, the timer task with
the state a cancellation can find it in, and the sink's await. `enqueue` has no
await under the lock and is one step once the lock is its own.

**BridgeServer** has one handler per accepted connection and the three fields
they share. `EndOfFile`, `DropBatcher` and `Leave` are the three parts of the
`finally`; each acts on what is installed then, as the code does, and only
`_writer` is guarded by identity. A batcher is here what `EnvelopeBatcher`
shows it to be: a buffer that is written out in order.

**BubbleQueue** has the client's queue of bubbles as far as both its users need it: where
an id stands, and what is left when an id is removed or the expired are pruned, each
by the positions that stay.

**ApprovalSurface** follows one intent from the store event through the
publisher's task (`emissions`), the batcher and socket (`wire`), to
`BubbleQueue` (`bubbles`) and the bubble the pet shows (`shown`, recomputed when
the queue notifies its subscriber, not when a bubble expires). Approvals share
the queue with the bubbles of other senders, which expire.

**DomainSync** has the stores' projection, the drain task, builders of snapshots
with the two database awaits between which rows and domain state are read, and
the client's copy. Session, reminder and task rows go the way of the approval
rows and are left out. `bypassed` marks a snapshot that showed the client a state
no drain has emitted: the drain compares with what it emitted itself, so when the
state returns to that the client keeps the one in between, and the properties
except it by this name.

**ReminderScheduler** has the store, the loop of `_run` with its wake event and
timeout, and the demo panel's `process_due`, which iterates beside the loop's
over a list of its own. `Done` on a bubble reaches what the code reaches: an
island card, so nothing here.

**IslandSurface** has the Swift store with the machine inside it as one record,
and the store's methods as operators on that record, because gestures call
several in a row (`OpenList(Promote(s))`). Its actions are the agent's island
intents, the pointer's gestures, the half-second timer and time. Deadlines count
down (`peek`, `expires`) and the last touch counts up (`idle`), which keeps the
clock out of the state. The queue is kept in the order in which
`popNextTransient` takes from it, where the code appends and searches. `screen`
is the surface of the last notice; the hop to the main queue between notice and
drawing is taken as immediate. `quiet` and `stray` remember the two gaps the
properties name: a restore without a notice, and a dismiss of an id that is
neither shown nor covered, which empties cover and queue and leaves the card. `cleared` marks the
step of the demo panel's clear, the one dismiss that may take a P0 card.
An answered question sends nothing, as in the code, so its card stays. Left out:
the degradation level, which the application never sets, the machine's
user-interact event, which no gesture reaches, dwell and grace of the trackers
that decide when an activity begins and ends, and the loss of intents while the
client is away (`ApprovalSurface` has that).

**AgentEvents** has what the agents report as classes: hook payloads through their
normalizers (`NormalizeCodex`, `NormalizeClaude`, `NormalizeCursor`), notifications
of the Codex server, rows of transcripts, and `Reduce`, the reducer with its two
guards (`PreservesOnlyRunning`, `PreservesActionableState`). It has operators and no
state. `ref` says that a payload names a tool use or a generation, which makes
it a permission request.

**RuntimeObservers** has the passive observers: how Aider's transcript and Kiro's
task file decide a phase, what of a file is cached, and the registry that
disables an observer after `CrashLimit` failures in a row. A file that cannot be read
is remembered as read by Aider's observer, which caches the time of change first,
and tried again by Kiro's.

**AgentSessions** drives both over the session store. A hook process begins with a
time stamp and writes its file later (`BeginHook`, `WriteHookEvent`), so files
appear out of order; the watcher's pass is `ListEventFiles`, then for each file
`HandleFile` and `UnlinkFile`, and an `Exit` of the agent fits between any two.
`BeginHook` waits for the session's hook before it: an agent runs its hooks one after
another, so the files of one session are never under way together.
What threads and transcripts report goes through a queue per watcher (`Feed`).
`ScanOnce` is a whole scan: rows of processes, what they carry over from the rows
before, expired ones, and the observers' ticks, in which any call that `notify` makes
then may raise (`MayRaise`) and any file be unreadable. The user jumps, answers a question
or resolves an approval. The stores live in memory, so `Start` finds again what is
on disk and nothing else. Ages are told apart up to `MaxAge`.

**TaskStore** runs each store operation as its SQL statements (`Create`, `Update`,
`ReplaceSteps`). All coroutines of the agent share one connection, so they share
its transaction: whoever commits, commits the other's half too. The command line
has a connection of its own and meets the write lock. `Statement` is one
statement of one caller; `InsertFails`, `LockTimesOut` and `Cancel` leave what the
code leaves. `torn` remembers that a call left or met a half-done transaction.

**ChatTurn** is a user's message: a task or memory command that is recognised
before the model is asked, or the tool loop with its rounds. `turn` says where a handler stands
and which calls are to be executed. A call is broken, denied, repeated, raises,
times out or returns; `RecordAction`, `NoteTask` write the ledger and its row;
`AppendMany` and `CommitChat` store the turn. Any of these writes may raise, as often
as the bound `faults` lets it: that of ledger or row is logged and swallowed. The row
is written from a tally in memory (`tally`), so a later write of it makes good for a
lost one, while the ledger keeps the gap (`lost`). A statement whose commit raises stays
in the connection's transaction and goes along with the next commit. The profile has
its cache, what was written and what is committed. The set of keys it marks as dirty is
left out: what a turn sets is stamped with the time and so marks its key anew, and the
flush collects it before the first await. So is a flush that fails when the store is
closed, at the end of the agent. `Restart` is the death of the agent with the
recovery of stale rows that follows, which only those older than a cutoff get
(`old`). The model's answers and the tools' results are unconstrained.

**HookInstaller** writes the files of an install or uninstall one at a time:
`config.toml`, hooks, manifest for Codex; one file for the others. `Die` ends the
command between two. `users` are the events that hold an entry of the user's own. Whose
the feature is (`byUser`) is fixed by what the first command finds in `config.toml`: the
user does not turn it on or off between two commands.

**PerceptionTick** is one `on_perception_tick` as one step, with `reach` saying how
many of the tracker's two sends find a client; the first that does not raises and
ends the handler. `Observe` has the tracker's enter, present, leave and dismiss;
`MaybeTrigger` the cooldown and quota, recorded before the send, as in the code.
The dedupe gap and the cooldown widen with the level, which is read afresh.

**Lifecycle** has setup, the starts of `serve_forever` and the teardown as the
sequences they are in the code, an attempt that dies at any place, and a signal
that comes at any. A client may join as soon as the bridge listens, beside the one
before it, and leave at any time, also while its envelope is handled; `OnClientConnect`
greets it if the runtime is installed, `ReplayModule` sends it what was registered.
The handler of a connection that ended or was taken over goes on (`former`): it
writes its store (`FormerWrites`), sends the rest of its replay to whoever is connected
(`FormerReplays`), and its cleanup takes the batcher that is installed then
(`FormerEnds`). The stop of the bridge does not wait for handlers, and one of them
may find its store closed (`late`).

**TaskNudges** is a poll as one step: the newest `Limit` tasks, the stale ones among
them that are out of their rest, one of them spoken about. Time is counted in polls.

**BuildPill** has the one report file, the poll that eats it, the skill's slot, and
the sleepers of delayed dismissals, of which a second report of an end leaves one
that nobody can cancel. A send that finds no client raises in the middle.

**ReconnectingClient** has the inner clients, their sockets, and the main and work
queues their reports go through. An attempt is two steps (`attempt` holds the client
in between), since the factory returns a client that is already reading before the
wrapper's handlers are on it. `deaf` names the clients that ended in that gap and
`overlapped` a start that overtook the report of the client before; these are the
two exceptions the properties make, and the further configurations show each to be
needed. Backoff lengths are left out: a retry may take any time.

**ReplyStream** has the placeholder, the first token that takes its place, the
patches and the last one with the whole text, over a line that a lost connection
empties, into `BubbleQueue` with its append, patch of the first of an id, cap and
expiry. `mixed` names replies that met another's under the id they share.

Definitions named as faulty variants (`ResolveAnyRecord`, `FlushCopy`,
`ClampBelow`, ...) are never part of a specification. Each is a plausible bug in
the definition that follows it, and shows that a property can fail.

## Runs

Every constant whose name begins with `Max` and is described as a bound limits
a counter in a guard. No bound hides a case by itself: what it limits can happen
at least twice, or once when the case needs it only once.

| Run | Instance | States | What it shows |
|---|---|---|---|
| `approvals` | a computer action, a suggestion and the demo approval, each asked once, or two hooked approvals of one session, each asked twice; two handlers | 353k | effects happen once, with an Allow and no Deny; an Allow is carried out unless its handler raised; the flow implements `ConsentGate` |
| `approval_abandoned` | one hooked approval, one handler | violated | see findings |
| `bridge_takeover` | two connections, one request, intent or ping | 111k | the newest connection keeps its writer; without overlap each is served, and no `agent.ready` goes out before its snapshot |
| `bubble_order` | the demo approval, asked twice, a suggestion and a chat bubble; two places; one lost connection | 88k | the queue follows the store, the most urgent bubble shows |
| `domain_sync` | one approval, sessions, levels 0 and 7, two builders, three changes, one pushed snapshot, one lost connection | 385k | the client ends on the present state; a pending approval is shown |
| `reminders` | two reminders and the demo's, clock to 2, one demo, one click | 365k | once for every time it is added, and surely |
| `island` | the editor and the build, a P1 and a P2 card, an approval and a question with cards, an approval without; four cards, two waiting | 89k | the store's card and the machine's are one, what a card covers comes back, what is drawn is true |
| `sessions` | six machines with one source each: Claude hooks and transcript, Cursor hooks, a Codex thread, an Aider row, a Codex process, a Kiro row with its spec; two moves, one exit, ages to 2 | 93k | hooks in order and none lost; passive sources end no wait; a session that falls silent does not stay at work; rows follow processes |
| `parts` | the eight parts of `PartsMC`, each with its own bounds; `PerceptionTick` twice, with a user among editors on a short clock and one away from them on a long one | 290k | the installer leaves the user's settings, the batcher hands everything on, pills and sessions follow the user, nudges are rare and yet each stale task has one, a finished build leaves, no watcher of the agent finds its store closed and a signal ends it, registrations reach the client, replies settle, the Swift client connects |
| `lifecycle_early` | one registration, one connection | violated | see findings |
| `chat` | two handlers, the command line, one task; five kits of tools and commands (plain tools, a tool that may time out and is called again in a second round, the profile, the task list with the command line, two task commands at once), one crash, one write that raises | 347k | whole turns, whole step lists, no call twice, the row agrees with the calls whichever of its writes raised before the last, what was told is on disk, every turn ends |
| `chat_window` | one handler, three messages with a tool call each, a window of six messages | violated | see findings |

Further configurations, run the same way, ask the rest. Passing:
`BridgeServer_more` (`TypeOK`,
`WriterHasHandler`, `StaleHandlerLeaves`, `LoopsEnd`), `ApprovalSurface_more`
(`TypeOK`, `EvictionSparesUrgent`, `AnsweredBubbleLeaves`), `IslandSurface_more`
(`TypeOK`, `ScreenFollows`, `PinnedStays`, `CardLeaves`) and `Parts_more` (the type
invariants of the eight parts, `ManagedOnce`, `CallsInOrder`, `OnePill`,
`NoEnvelopeStranded`, `OneLink`, `LinkIsTrue`, `FlushReturns`). Violated:
`BridgeServer_blocked`, `ApprovalSurface_reconnect`, `ReminderScheduler_done`,
`IslandSurface_screen`, `ReplyStream_again`, `ReconnectingClient_restart` and
`ReconnectingClient_deaf`, each described under the findings.

Why these sizes are enough. Handlers interact through a record and a session:
two of them make every race between two clicks, and a third click meets a record
that is resolved, as the second does. Connections interact through what the
previous handler left behind, so two show a takeover; a third meets the
remains of one of them. Two places in the queue and three bubbles make it
overflow with all orders of rank. The drain is one task, and three changes let
the state return to the emitted one and leave it again. Reminders interact
through the earliest deadline: two give an earlier and a later one, and the
demo's is the one that two `process_due` calls can both list. `OneKind` of the
approvals' MC module keeps one-shot and hooked approvals out of each other's
behaviours: they share no record and no session. On the island a card is shown
or waits behind another, and a queue of two can be in and out of order and can
hold one card that is shown and one that is refused; the fourth card arrives when
the first three were all of use. A peek of one unit and an auto-dismiss of two
keep the order of the two deadlines (4 s and 12 s).

The sources of sessions meet only in the reducer, the reaper and the scanner, which
treat each session by itself; so a machine has one source, with its hooks, its
transcript and its scans interleaved, and two moves make every pair of reports in
every order. An age of 2 tells fresh, idle and stale apart. In a chat two turns share
the stores; a third waits for one of them. The kits divide the tools by the store
they write, since tools that share no store share nothing but the loop. A window of
two messages cuts every stored turn in `chat`; the window of six in `chat_window` is
cut only by the third turn, so the violation is not owed to a window too small for a
turn. In `parts` three senders and two flushers make the lock's queue hold one of
each beside its holder; two editors and one application that is none make detours
with and without a pill; a quota of two with a day of seven and a clock that runs to
twelve shows two full windows and a day across their border that holds more than a
quota, and with a cooldown of two, nudges could come too soon (what the tracker
follows does not bear on the nudges: the long clock runs with the user away from the
editors, and the user among editors has a clock to four); three tasks and a rest of
three polls let every task be the second choice (a rest no shorter than there are
stale tasks is what the property needs: the code has 72 polls and lists 50); two
builds make one replace the other while a sleeper is under way; three ends of the
agent and two starts make a former client report late, and `MaxClients` is never
reached by them; two messages of two tokens make two streams overlap before and after
the first token. The parts share no variable, so a behaviour of one, with the others
at rest, is every behaviour there is. The named assumptions are all that the modules
with proofs ask of their constants: the properties proved hold for every size.

`CHECK_DEADLOCK FALSE` is set where the bounds, or a client that need not come
back, let the system come to rest; the other instances never do.

## Fairness

Only weak fairness is assumed, and only of what the asyncio loop, a timer or the
client's reader does by itself: a task whose await is over is resumed, a timer
fires, a batch is written, a socket that has data is read. Nothing asks the user
to click, a client to connect, a hook to fire or a store to change. A sink's
await ends because the transport drains or fails.

- `ApprovalFlow`: each handler by itself, since asyncio runs every ready task.
- `BridgeServer`: each handler, flush window and heartbeat. The model and tool
  calls that the handlers of envelopes await have timeouts; a beat is a sleep.
- `EnvelopeBatcher`: `Run`, any step of a caller, the timer or the sink; the lock is
  first come, first served, so no more is needed.
- `ApprovalSurface`, `DomainSync`: the tasks that emit, and the client's reader.
- `ReminderScheduler`: the loop, and a demo trigger under way.
- `IslandSurface`: the half-second timer and time.
- `AgentSessions`: time, the reaper, scans, whatever raises in them, each polling
  loop, the hook process that has begun, and that the agent is started again. Not
  that it exits, that a hook fires or that a server answers.
- `ChatTurn`: each handler's next step and its store's. Answers and tools have
  deadlines, and so has a wait for the lock. `InsertFails`, `Cancel`, the command
  line and restarts are not fair.
- `Lifecycle`: `LifeProceeds`. The stops of the bridge and of the reminders bound
  themselves by a timeout; the others await a task they have cancelled, a store that
  closes or the sends still pending, and are taken to return.
- `TaskNudges`: the poll and its sleep. `BuildPill`: the poll, time, and a sleeper
  whose time is over.
- `ReconnectingClient`: `Proceeds`, one condition over everything the queues, timers
  and sockets do by themselves. Only a missing agent lets them go on for ever.

## Where code and documents part

Each of these is a run, or a further configuration, in which TLC shows the code
doing something else than the quoted line says.

- `approval_abandoned`: `approvals/router.py:109` says step 2 moves the session
  to RUNNING. The dismiss before it (line 104) raises when the client has just
  gone; the record is resolved by then, so the session waits for an approval
  that nobody can answer any more.
- `lifecycle_early`: `app.py:10` says a client that connects is handed a snapshot and
  then `agent.ready`, until which Swift queues what the user types. The listener is
  started (line 378) before the runtime is installed; for a client that is in
  between, the connect hook raises, the server logs it and reads on, and nothing
  greets that connection later.
- `chat_window`: `skills/llm_chat.py:11` says the composer keeps the last
  `memory_window` turns. It cuts by messages (line 413), so a request may open with
  a tool result whose call was cut off. An endpoint that refuses it ends the turn in
  an error, the turn is not stored, and every later request is cut at the same
  place.
- `BridgeServer_blocked`: `bridge/server.py:152` says the stale connection is dropped
  cleanly so reconnects are not blocked. The stale handler's `finally` (line
  207) then closes and clears the batcher of the new connection, and every send
  to the live client raises.
- `ApprovalSurface_reconnect`: `approvals/surface.py:12` says surfacing and dismissing
  round-trip cleanly even across reconnects. An intent that finds no client is
  dropped (line 120) and the greeting snapshot carries no bubbles: a pending
  approval stays without its bubble, or an answered one keeps it.
- `ReminderScheduler_done`: `reminders/scheduler.py:151` says reminders stay until the
  user dismisses them. Done sends `surface.dismiss`, which removes no bubble.
- `IslandSurface_screen`: `Core/LiveIslandSurfaceStore.swift:7` says the store notifies
  subscribers whenever there is a visible change. When a card ends and the cards
  that waited are all refused, the steady surface is put back before it is
  compared with itself (lines 341 and 358), and no notice goes out. The drawn
  card stays, and the list cannot be closed, since what is drawn is not a list.
- `ReplyStream_again`: `dispatcher.py:186` says a bubble of the same id is replaced, and
  line 229 that it settles on the complete reply. `BubbleQueue` appends a second
  bubble of the id and patches the first: the reply to a message that follows within
  the first one's time to live keeps its first token only.
- `ReconnectingClient_deaf`: `Core/ReconnectingBridgeClient.swift:9` promises that the
  link is re-established. A client whose socket ends before the wrapper's handler
  is on it tells nobody, and the wrapper counts as connected.
- `ReconnectingClient_restart`: a stop followed at once by a start takes the former
  client's late report for the new one's, drops the new client and leaves its
  descriptor open. The application starts once and stops when it quits.

Smaller things met on the way, true of the code and therefore of the models:

- Tasks: a call cancelled between two statements leaves the shared transaction open
  until the next commit, with the command line locked out; a title update
  writes back the status it read and so undoes a `done` of the command line;
  `advance` completes a task although an earlier step is pending; two callers can leave two
  steps in progress; `start` reopens a done task.
- Chat: text that is streamed before tool calls drops the calls
  (`skills/llm_chat.py`, the streamed round); a tool that timed out is recorded as
  failed though its effect may still land; a turn that died with the agent less
  than the cutoff ago stays `running`; an empty answer leaves the placeholder.
- Sessions: Kiro's observer sets `hook_source`, which makes the session one that the
  observer then leaves alone; a finished hook session is never reaped; a jump
  reopens a session that was reaped; a rollout once completed stays so across turns;
  a first row of a Codex transcript demotes a session that waits, which is why
  `PassiveKeepsWait` speaks of activity.
- Installer: a second install of Codex forgets that Deskmate had turned the feature
  on, so an uninstall leaves it on.
- Nudges: the 24 hours of the quota are a fixed window (`proactive/cooldown.py:18`
  calls it rolling), so a day can hold up to twice the quota less one; quota and
  cooldown are taken before the send and lost at a restart; a listing of the newest
  50 tasks hides the stalest of more.
- Build and editor pills: a report that is overwritten before the poll is lost; a pill
  whose show found no client is not shown again; a session whose dismiss raises is
  not recorded.

## Proofs

The theorems hold for every value of the constants that satisfies the modules'
named assumptions (which say that bounds are naturals, that kinds of ids are
disjoint, and that a marker such as `None` is not a member of what it stands
beside). Each proof module shows that an inductive invariant holds initially,
that every action keeps it, and that it implies the property. Every invariant and
every action property that a run or a further configuration checks and finds to
hold is the statement of a theorem, the type invariants included; liveness is left
to TLC.

**ApprovalFlowProofs**: `TypeCorrect`, `EffectOnce`, `EffectConsented`,
`WaitsHaveCause`, `FlowImplementsConsentGate`. That an effect happens once is not inductive: it
depends on who may still perform it. The invariant adds that a pending one-shot
record has no verdict yet (`OpenHasNoVerdict`), that a handler past the click
holds a verdict the store accepted (`HandlerHasVerdict`, `VerdictFirst`), that
two handlers never hold the same one-shot approval (`ClaimsDiffer`), that a
handler before its effect finds the effect undone (`EffectAhead`), and that only
an Allow reaches the write (`WriterAllowed`); `StagesFit` says which stages a
kind of approval can be in. The key step is `ResolveRecord`: it needs a pending
record, a fresh id is pending once, and so no second handler can hold it.
`WaitHasCause` is inductive with the types alone: a step that takes a session's cause
away is the click, whose handler is then the cause, the handler's raise, which is
remembered, or its return, which writes the phase. For the refinement every action is mapped through `GateOf` to a step of
`ConsentGate` or a stutter.

**BridgeServerProofs** has the server and the batcher.

- `BridgeServer`: `WriterKept`, `WriterOwned`, `LiveServed`, `ReadyAfterSnapshot`,
  `BridgeTypeCorrect`. The first two say that the one identity test in the `finally`
  is enough for `_writer`, however many connections overlap. The third needs that
  with no overlap at most one handler runs (`OneAtATime`), so that what the
  `finally` takes away is its own, and that a live connection's transport is open
  (`LiveIsOpen`), so that its heartbeat loop goes on. The fourth says that only a
  handler between greeting and end of file has `agent.ready` in its batcher
  (`ReadyIsInTime`), that what a client has got is in order and what waits for it
  comes next (`MessagesInOrder`), and that a handler that announces has sent its
  snapshot (`SnapshotIsSent`).
- `EnvelopeBatcher`: `HandedInOrder`, `NoneStranded`, `BatcherTypeCorrect`. The two
  properties are inductive together with three facts about the lock. Its holder is
  not in its queue, no sender keeps it over an await, a flush that awaits the
  timer finds it cancelled or done, and nothing is pending while the sink writes
  (`LockIsKept`); a task waits in one place of the queue (`WaitersDiffer`); a timer past
  its sleep holds the lock or waits for it, and is cancelled only under a flush
  (`TimerIsKnown`). The step that could strand an envelope is `enqueue` finding a timer
  that is over: it starts another, which `NoEnvelopeStranded` counts on. For the order,
  a sender that gets the lock is the first in the queue, its letter the smallest of
  those that wait, and so the next after what was written.

**DomainSyncProofs**: `TypeCorrect`, `FollowsStores`. The invariant adds that a
greeting implies a connection, that unless a change is noted the present
projection is what was emitted last, if anything was (`CleanIsEmitted`), and that unless a
snapshot went past the drain the newest message under way, or the screen if
there is none, is what was emitted last or the present state (`NewestIsEmitted`).

**BubbleProofs** has the two modules over `BubbleQueue`. What the queue's operators do
is said by positions: a sequence that keeps a set of positions keeps their order
and what stood there.

- `ApprovalSurface`: `SurfaceTypeCorrect`, `UrgentFirst`, `OverflowSparesUrgent`,
  `BubblesConverge`. The last is about a pipe: whether an approval has a bubble once
  everything under way is read is what the last word about it says (`Ends`), and if
  there is none, what the queue holds. Every step is shown to keep that equal to what
  the store says, with the bubbles of approvals never expiring (`ApprovalsStay`).
  A lost intent, an eviction and the demo's clear are the exceptions the property
  itself names.
- `ReplyStream`: `StreamsSettle`, `ReplyTypeCorrect`. `TokensCome` and `ReplyBegun` say what
  may be under way at each stage of a turn; `OneBubble` that a reply that met no other
  has one bubble, on its way or on the client; `AcksLeave` that behind a placeholder of a
  message with a token comes its dismissal; `LastPatch` that behind whatever is shown
  of a stream that ended comes the patch with the whole text. With nothing under way
  the last two are the property.

**IslandSurfaceProofs**: `TypeCorrect`, `PeekWhole`, `ShownTrue`, `ScreenIsTold`,
`PinnedStay`, `CoverBack`. For each store operator a lemma says what it does to the machine,
the cover and the queue of any store that is in order (`Good`): the deadlines of
store and machine agree (`Whole`), only what is less urgent than P0 peeks and a
P0 card has priority 0 (`Sound`), so a peek never suspends the gate of a P0
card, and a card that peeks is not yet due for the auto-dismiss (`Ranked`, which
rests on `PeekTtl < AutoDismiss`). `ShownTrue` needs that the covered copy agrees
with the agent too (`Current`), and that a screen which lags shows a card and
never while a card or a P0 surface is on (`Drawn`), which is also why closing a
list that is only drawn takes nothing pinned. Two operators choose the first
position in the queue that will do; that there is one is `LeastMember`, from the
library's theorem on well-founded relations.

**AgentSessionsProofs**: `HandledInOrder`, `WrittenIsKept`, `WaitsStay`. That hooks are
handled in order is about three places a file can be in, so the invariant follows
it: what a pass has listed is in the directory until its handler has run
(`PassIsInInbox`), a written event is handled or on disk (`NoneIsLost`), a file of a
pass has no predecessor outside of it that is still to be handled
(`PassHasPredecessors`), and a hook that has begun is younger than all its session
wrote (`BegunIsYoungest`), without which a late file could be older than one the pass
has listed. `WaitsStay` needs that whatever waits was recorded by the reducer
(`WaitIsReported`): the scanner and the registry leave such a session alone, also when
a row and a hook share an id.

**ChatTurnProofs**: `PersistedWhole`, `StepsStayWhole`, `ToldIsDurable`, `CalledOnce`,
`RowSettles`. For the transcript a turn's own messages are followed (`Answering`: a
call is followed by its results; `AllAnswered` where the turn asks again or is
stored), and a block of those appended to whole turns gives whole turns. For the
steps `OneInside` says that at most one call of a connection is inside its
transaction, `DraftIsWhole` that what the connection sees is whole but for the one
task that is between delete and insert; both hold until a call is cancelled, fails or
overlaps another inside (`torn`). `ProfileInv` says that what was told is in
the cache, in what the connection wrote and on disk, and that the fact of a flush under
way, if it is still in the cache, has been written, so that any commit covers it. `RunsInv` says that
whatever was executed is remembered or is the call in hand, `RowInv` that the
tally of a turn counts its results but for the one still to be noted, and that row and
ledger say the same wherever no write of theirs was lost (`Agrees`).

**PartsProofs** has six of the parts that stand alone, and the reminders.

- `HookInstaller`: `InstalledOnce`, `UsersKept`, `FeatureKept`, `InstallerTypeCorrect`. Two facts about a running
  command carry them. `JobIsCurrent` says that what it read of the hook file is what
  the file still holds, the user's part included, until the command writes it.
  `FeatureIsTheUsers` relates the flag, the manifest and the user's hand on it over
  every place where a command can have died.
- `Lifecycle`: `StoresStayOpen`, `RegisteredReachesClient`, `LifeTypeCorrect`.
  `SetupInOrder` and `TeardownInOrder` say which stores are open and which watchers
  run at each index of the two sequences; that is the order of the code, and a swap in
  it breaks the lemma. `StoresStayOpen` says of the handlers that none finds its store
  closed while the bridge listens: one does only after the runtime is installed, and
  so with every store open, until the bridge has stopped (`HandlersInTime`). `ModulesKept` says that a registration is kept, on its way or
  still to be replayed for whoever is connected.
- `PerceptionTick`: `NudgesStayRare`, `SessionsEndTruly`, `PillSettles`,
  `TickTypeCorrect`. The quota needs that the
  window's count is the number of nudges since it began (`WindowCounts`), that the
  days before it lack a quota (`EarlierDaysLack`, `DaysHold`), that nudges are a
  cooldown apart (`Apart`) and that the last one is the cooldown's (`LastIsLast`). A
  full window cannot roll without a nudge, since a quota is at least one. The
  cardinalities are those of sets of moments, by the library's theorems. `SessionInv`
  says that the tracker's session began after the last one recorded and that its last
  tick is the editor's (`TrackerIsTrue`). `PillSettles` follows a run of ticks of one
  application: it is let through again before two gaps are over (`RunIsSeen`, since
  the gap widens by two at most), and since it began the pill is right or is being
  waited with from a moment no later than the run's first (`Settling`), so that a run
  as long as both has it.
- `ReconnectingClient`: `LinkStaysTrue`, `OneSocket`, `ClientTypeCorrect`. The reports of
  a client are followed over two queues: no report is under way twice
  (`ReportsDiffer`), who reports has closed its socket (`ReportersAreClosed`), the
  current client has the wrapper's handlers on it and the one of an attempt has not
  (`HandlersAreOn`). `OneAtWork` says that until a start overtakes a report there is one
  of retry, attempt and current client, every open socket belongs to one of the two,
  and only the current client's report is under way.
- `TaskNudges`: `NudgeTypeCorrect`. What is not plain in it is that the list by last
  update stays a listing of all tasks (`MovedToFront`).
- `BuildPill`: `OneBuildPill`, `PillTypeCorrect`. A report that is acted on has been counted
  (`ReportWasWritten`), so that a sleeper has an identity.
- `ReminderScheduler`: `FiredOnce`, `NeverOversleeps`, `FiresWhenDue`,
  `ReminderTypeCorrect`. `FiresOncePerAdd` is not inductive: `PendingAhead` says a pending
  reminder was added more often than fired, and firing needs a pending one.
  `FiresWhenDue` is an action property; `ListedWasDue` says that what a `process_due` call
  goes over was due when it was listed and is so still, since an id a skill minted is
  not added again for a later time and the demo adds its own as due at once.
  `SleepsNoLonger` holds because whatever could bring a deadline forward sets the wake
  event in the same step.

## What is only model-checked, and what is not modelled

Model-checked only: all liveness (`AllowTakesEffect`, `EveryEnvelopeIsHanded`,
`FlushReturns`, `StaleHandlerLeaves`, `LoopsEnd`, `AnsweredBubbleLeaves`,
`PendingIsShown`, `DueReminderFires`, `CardLeaves`, `HooksAreHandled`,
`SilentSessionEnds`, `RowsFollowProcesses`, `TurnEnds`, `SignalEndsAgent`,
`StaleTaskIsNudged`, `FinishedBuildLeaves`, `RunningClientConnects`), since TLAPS does
not prove liveness under fairness.

Two shapes of the models are owed to the proofs and change no behaviour: a queue
loses an entry by its position (`RemoveAt`, `BubbleQueue!EntriesAt`) and not by a fold
over its members, since what a recursive operator returns for every sequence would
need induction; and `CallsInOrder` speaks of the letters that wait as a set with their
order.

Not modelled in the parts that are:

- Server and stores: the stop of projector and scheduler other than as steps of the
  teardown; `expire` and `expire_due`, `mark_dismissed` (called by nothing);
  `BubbleQueue.dequeue` and `clear` (called by tests).
- Chat: the recognition of phrases, prompts and what they inject, the history kept in
  memory when no database is configured, reports of the command line that only read.
- Sessions: titles, summaries and working directories, how a jump finds its window,
  the parsing of transcripts and process tables. The table of pending Codex requests:
  ids are not used twice, so a late answer finds no future. The variants of hook
  files that share one layout.
- Swift client: reading and writing over the socket, including a write that is cut
  short on a full non-blocking socket (`Core/BridgeClient.swift:327` throws after a part of
  a line is out), and envelopes read before the handlers are on.
- The agent's own crash is modelled where something is on disk (`AgentSessions`,
  `ChatTurn`, `HookInstaller`) and where the client outlives it
  (`ReconnectingClient`, `Lifecycle`), not in `ApprovalFlow`, whose stores are in
  memory: ids of computer approvals then count from one again
  (`skills/computer_control.py:231`).
- Texts, priorities of sessions, jump targets and other data no property tells
  apart. The scheduler's clock moves in the steps of the delays that occur.

Components with no module: the wire protocol, island content, the pet and its
window, the perception sampler, list rows, the menu bar application, character
packs and settings. They decode, draw, sample or read in one step and keep no
state whose order of changes matters beyond the stores that are modelled.
