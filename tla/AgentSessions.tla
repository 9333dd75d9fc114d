------------------------------- MODULE AgentSessions -------------------------------
(***************************************************************************)
(* The sessions of other agents as Deskmate follows them: hook files       *)
(* polled from a directory, the Codex app-server, Codex and Claude         *)
(* transcripts, the process scanner with its observers, the user's clicks, *)
(* and the reaper that closes hook sessions that fell silent. The stores   *)
(* live in memory: an agent that exits forgets them and finds again what   *)
(* is on disk.                                                             *)
(***************************************************************************)
EXTENDS RuntimeObservers, Integers

CONSTANTS
    ClaudeSession, CursorSession, \* ids that hooks report
    Thread,                       \* Codex threads
    AiderRow, CodexRow, KiroRow,  \* ids of process rows
    KiroSpec,                        \* ids of Kiro specs
    Setups,                       \* the sets of sources a machine may have
    Hooks, Statuses, Entries,     \* hooks, notifications and Claude rows that are sent
    MaxAge,     \* bound: ages are told apart up to here
    StaleTtl,   \* stale_hook_session_ttl_s
    SeenTtl,    \* AgentRuntimeStore's ttl_ms
    SilentAge,  \* after this age a Codex row nothing reports on is unobserved
    MaxMoves,   \* bound: moves of the agents, the user and the machine
    MaxExits    \* bound: exits of the agent process

HookSession == ClaudeSession \cup CursorSession
Row == AiderRow \cup CodexRow \cup KiroRow
Sid == HookSession \cup Thread \cup Row \cup KiroSpec

ASSUME SessionAssumption ==
    /\ Setups \subseteq SUBSET Sid
    /\ Hooks \subseteq HookKind /\ Statuses \subseteq Notification /\ Entries \subseteq ClaudeRow
    /\ {MaxAge, StaleTtl, SeenTtl, SilentAge, MaxMoves, MaxExits} \subseteq Nat

Age == 0..MaxAge
HookFile == [sid: HookSession, ts: 1..MaxMoves + 1, kind: HookKind, ref: BOOLEAN]
NoHook == [ts |-> 0]
Sent == HookSession \X (1..MaxMoves + 1)
NameOf(f) == <<f.sid, f.ts>>
Older(age) == IF age < MaxAge THEN age + 1 ELSE age

VARIABLES
    setup,      \* the sources on this machine
    up,         \* the agent process runs
    sessions,   \* SessionStore
    asks,       \* sessions with a pending approval in ApprovalStore
    begun,      \* hook processes that have not written their file yet
    inbox,      \* *.json files in the hook directory
    batch,      \* what drain_once has listed and not yet taken
    handling,   \* the file whose handler has run and that is not unlinked
    alive,      \* rows whose process runs
    seen,       \* AgentRuntimeStore: age of last_seen_ms, -1 when unknown
    transcript, \* Aider's chat history, by row
    meta,       \* Kiro's meta file, by spec
    cache,      \* KiroTaskObserver._cache
    observers,  \* RuntimePhaseObserverRegistry
    server,     \* the Codex app-server client
    rollout,    \* Codex rollout files, by thread
    rows,       \* Claude's transcript rows since the cursor
    feed,       \* events of a transcript scan not yet handled, by scan
    moves, exits,
    written, handled \* history: names of the hook files written, and of those handled

inboxVars == <<begun, inbox, batch, handling, written, handled>>
runtimeVars == <<alive, seen, transcript, meta, cache, observers>>
feedVars == <<server, rollout, rows, feed>>
bounds == <<setup, moves, exits>>
vars == <<bounds, up, sessions, asks, inboxVars, runtimeVars, feedVars>>

Feed == {"codex", "claude"}
FeedItem == [sid: Sid, event: EventType(Age)]
RolloutFile == {NoFile} \cup [status: {"file"}, content: Rollout, age: Age, begun: Age, read: BOOLEAN]

TypeOK ==
    /\ setup \in Setups
    /\ up \in BOOLEAN
    /\ sessions \in [Sid -> SessionType(Age)]
    /\ asks \subseteq Sid
    /\ begun \in [HookSession -> {NoHook} \cup HookFile]
    /\ inbox \subseteq HookFile /\ batch \subseteq HookFile
    /\ handling \in {NoHook} \cup HookFile
    /\ alive \subseteq Row
    /\ seen \in [Row -> Age \cup {-1}]
    /\ transcript \in [AiderRow -> Transcript(Age)]
    /\ meta \in [KiroSpec -> MetaFile(Age)]
    /\ cache \in [KiroSpec -> CacheEntry(Age)]
    /\ observers \in [Observer -> Observing]
    /\ server \in {"off", "starting", "ready", "deaf", "lost"}
    /\ rollout \in [Thread -> RolloutFile]
    /\ rows \in [ClaudeSession -> [cursor: BOOLEAN, unread: Seq(ClaudeRow)]]
    /\ feed \in [Feed -> Seq(FeedItem)]
    /\ moves \in 0..MaxMoves /\ exits \in 0..MaxExits
    /\ written \subseteq Sent /\ handled \subseteq Sent

NoRows == [s \in ClaudeSession |-> [cursor |-> FALSE, unread |-> <<>>]]
NoObservers == [o \in Observer |-> [started |-> FALSE, crashes |-> 0]]

Init ==
    /\ setup \in Setups
    /\ up = TRUE
    /\ sessions = [s \in Sid |-> Absent]
    /\ asks = {}
    /\ begun = [s \in HookSession |-> NoHook]
    /\ inbox = {} /\ batch = {} /\ handling = NoHook
    /\ alive = {}
    /\ seen = [r \in Row |-> -1]
    /\ transcript = [r \in AiderRow |-> NoFile]
    /\ meta = [k \in KiroSpec |-> NoFile]
    /\ cache = [k \in KiroSpec |-> NoEntry]
    /\ observers = NoObservers
    /\ server = "off"
    /\ rollout = [t \in Thread |-> NoFile]
    /\ rows = NoRows
    /\ feed = [w \in Feed |-> <<>>]
    /\ moves = 0 /\ exits = 0
    /\ written = {} /\ handled = {}

Move == moves < MaxMoves /\ moves' = moves + 1
Still == UNCHANGED <<setup, exits, up>>

(***************************************************************************)
(* Store operations                                                        *)
(***************************************************************************)

IsHookSession(s) == s.kind = "hook_session" \/ s.hooked
Waits(s) == sessions[s].phase \in Waiting
Apply(s, e) ==
    /\ sessions' = [sessions EXCEPT ![s] = Reduce(@, e)]
    /\ asks' = IF Asks(e) THEN asks \cup {s} ELSE asks

(***************************************************************************)
(* Hook files                                                              *)
(***************************************************************************)

AgentOf(s) == IF s \in CursorSession THEN "cursor" ELSE "claude"

\* An agent calls `deskmate hook ingest`, which stamps the event. It runs its hooks
\* one after another: those of one session are never under way together.
BeginHook(s, kind, ref) ==
    /\ Move
    /\ s \in setup /\ begun[s] = NoHook
    /\ begun' = [begun EXCEPT ![s] = [sid |-> s, ts |-> moves + 1, kind |-> kind, ref |-> ref]]
    /\ UNCHANGED <<inbox, batch, handling, written, handled, sessions, asks, runtimeVars, feedVars>> /\ Still

\* write_hook_event: the file appears whole, whether or not the agent runs
WriteHookEvent(s) ==
    /\ begun[s] # NoHook
    /\ inbox' = inbox \cup {begun[s]}
    /\ written' = written \cup {NameOf(begun[s])}
    /\ begun' = [begun EXCEPT ![s] = NoHook]
    /\ UNCHANGED <<batch, handling, handled, sessions, asks, runtimeVars, feedVars, moves>> /\ Still

\* drain_once lists the directory once per pass
ListEventFiles ==
    /\ up /\ batch = {} /\ handling = NoHook /\ inbox # {}
    /\ batch' = inbox
    /\ UNCHANGED <<begun, inbox, handling, written, handled, sessions, asks, runtimeVars, feedVars, moves>> /\ Still

\* Faulty variant: the files are taken in the order glob returns them
AnyFile == batch

\* Names begin with the time stamp, so sorted names are in time order
FirstFile == {f \in batch : \A g \in batch : f.ts <= g.ts}

\* The handler runs the reducer before it awaits the first intent
HandleFile ==
    /\ up /\ handling = NoHook
    /\ \E f \in FirstFile :
        /\ handling' = f
        /\ batch' = batch \ {f}
        /\ handled' = handled \cup {NameOf(f)}
        /\ Apply(f.sid, EventFromHook(AgentOf(f.sid), f.kind, f.ref))
    /\ UNCHANGED <<begun, inbox, written, runtimeVars, feedVars, moves>> /\ Still

\* Faulty variant: the pass is unlinked with the file that was handled first
UnlinkedPass(f) == {f} \cup batch

Unlinked(f) == {f}

\* ... and the file is unlinked once the handler returned, or raised
UnlinkFile ==
    /\ up /\ handling # NoHook
    /\ inbox' = inbox \ Unlinked(handling)
    /\ handling' = NoHook
    /\ UNCHANGED <<begun, batch, written, handled, sessions, asks, runtimeVars, feedVars, moves>> /\ Still

(***************************************************************************)
(* Codex app-server                                                        *)
(***************************************************************************)

\* The coordinator is started with the agent, once
StartServer ==
    /\ up /\ server = "off" /\ Thread \cap setup # {}
    /\ server' = "starting"
    /\ UNCHANGED <<rollout, rows, feed, sessions, asks, inboxVars, runtimeVars, moves>> /\ Still

\* initialize and thread/loaded/list are answered: every loaded thread is reported
ListThreads(t, n) ==
    /\ up /\ server = "starting" /\ t \in setup
    /\ server' = "ready"
    /\ Apply(t, EventFromThread(n))
    /\ UNCHANGED <<rollout, rows, feed, inboxVars, runtimeVars, moves>> /\ Still

\* A request times out: _run gives up, while the reader goes on
RequestTimesOut ==
    /\ up /\ server = "starting"
    /\ server' = "deaf"
    /\ UNCHANGED <<rollout, rows, feed, sessions, asks, inboxVars, runtimeVars, moves>> /\ Still

Notify(t, n) ==
    /\ Move
    /\ up /\ t \in setup /\ server \in {"starting", "ready", "deaf"}
    /\ Apply(t, EventFromNotification(n))
    /\ UNCHANGED <<server, rollout, rows, feed, inboxVars, runtimeVars>> /\ Still

\* stdout ends: nobody starts the server again
LoseServer ==
    /\ Move
    /\ up /\ server \in {"starting", "ready", "deaf"}
    /\ server' = "lost"
    /\ UNCHANGED <<rollout, rows, feed, sessions, asks, inboxVars, runtimeVars>> /\ Still

(***************************************************************************)
(* Transcripts                                                             *)
(***************************************************************************)

\* Codex appends to a thread's rollout file
AppendRollout(t, row) ==
    /\ Move
    /\ t \in setup
    /\ LET old == IF rollout[t] = NoFile
                  THEN [status |-> "file", content |-> [phase |-> "running", completed |-> FALSE, failed |-> FALSE],
                        age |-> 0, begun |-> 0, read |-> FALSE]
                  ELSE rollout[t]
       IN rollout' = [rollout EXCEPT ![t] =
                        [old EXCEPT !.content = ConsumeRow(@, row), !.age = 0, !.read = FALSE]]
    /\ UNCHANGED <<server, rows, feed, sessions, asks, inboxVars, runtimeVars>> /\ Still

\* CodexTranscriptWatcher.scan_once: a file with a new mtime is read from the top
ScanRollout(t) ==
    /\ up /\ feed["codex"] = <<>>
    /\ rollout[t] # NoFile /\ ~rollout[t].read
    /\ rollout' = [rollout EXCEPT ![t].read = TRUE]
    /\ LET events == EventsFromRollout(rollout[t].content, rollout[t].age, rollout[t].begun)
       IN feed' = [feed EXCEPT !["codex"] = [i \in DOMAIN events |-> [sid |-> t, event |-> events[i]]]]
    /\ UNCHANGED <<server, rows, sessions, asks, inboxVars, runtimeVars, moves>> /\ Still

\* Claude appends a row to a session's transcript
AppendRow(s, row) ==
    /\ Move
    /\ s \in setup
    /\ rows' = [rows EXCEPT ![s].unread = Append(@, row)]
    /\ UNCHANGED <<server, rollout, feed, sessions, asks, inboxVars, runtimeVars>> /\ Still

\* ClaudeTranscriptWatcher.scan_once: a file seen for the first time is read
\* from its end, afterwards from the cursor
ScanRows(s) ==
    /\ up /\ feed["claude"] = <<>>
    /\ s \in setup /\ (~rows[s].cursor \/ rows[s].unread # <<>>)
    /\ rows' = [rows EXCEPT ![s] = [cursor |-> TRUE, unread |-> <<>>]]
    /\ feed' = [feed EXCEPT !["claude"] =
                  IF rows[s].cursor
                  THEN [i \in DOMAIN rows[s].unread |-> [sid |-> s, event |-> EventFromRow(rows[s].unread[i])]]
                  ELSE <<>>]
    /\ UNCHANGED <<server, rollout, sessions, asks, inboxVars, runtimeVars, moves>> /\ Still

\* Both scans await the handler of each event before the next
HandleFeed(w) ==
    /\ up /\ feed[w] # <<>>
    /\ Apply(Head(feed[w]).sid, Head(feed[w]).event)
    /\ feed' = [feed EXCEPT ![w] = Tail(@)]
    /\ UNCHANGED <<server, rollout, rows, inboxVars, runtimeVars, moves>> /\ Still

(***************************************************************************)
(* Process scanner and observers                                           *)
(***************************************************************************)

\* A process of an agent starts or exits
ProcessMoves(r) ==
    /\ Move
    /\ r \in setup
    /\ alive' = IF r \in alive THEN alive \ {r} ELSE alive \cup {r}
    /\ UNCHANGED <<seen, transcript, meta, cache, observers, sessions, asks, inboxVars, feedVars>> /\ Still

\* Aider or Kiro writes its file
WriteTranscript(r, tail) ==
    /\ Move
    /\ r \in alive \cap AiderRow
    /\ transcript' = [transcript EXCEPT ![r] = [status |-> tail, age |-> 0, read |-> FALSE]]
    /\ UNCHANGED <<alive, seen, meta, cache, observers, sessions, asks, inboxVars, feedVars>> /\ Still

WriteMeta(k, status) ==
    /\ Move
    /\ k \in setup
    /\ meta' = [meta EXCEPT ![k] = [status |-> status, age |-> 0]]
    /\ cache' = [cache EXCEPT ![k] = IF @ = NoEntry THEN @ ELSE [@ EXCEPT !.current = FALSE]]
    /\ UNCHANGED <<alive, seen, transcript, observers, sessions, asks, inboxVars, feedVars>> /\ Still

\* Faulty variant: a scan starts the row's extras afresh
ScannedAfresh(r, old) ==
    IF Present(old) /\ IsHookSession(old) THEN old
    ELSE IF ~Present(old) THEN Session("running", "runtime", FALSE, 0)
    ELSE [Session(old.phase, "runtime", FALSE, 0) EXCEPT
            !.unobserved = old.unobserved \/ (r \in CodexRow /\ old.since >= SilentAge)]

\* _upsert_session: fine-grained phases survive a scan; hook sessions are left
\* alone, and a Codex row nothing has reported on for long becomes unobserved
ScannedRow(r, old) ==
    IF Present(old) /\ IsHookSession(old) THEN old
    ELSE IF ~Present(old) THEN Session("running", "runtime", FALSE, 0)
    ELSE [Session(old.phase, "runtime", FALSE, 0) EXCEPT
            !.since = old.since,
            !.unobserved = old.unobserved \/ (r \in CodexRow /\ old.since >= SilentAge)]

\* _remove_session
RemovedRow(old) == IF Present(old) /\ ~IsHookSession(old) THEN Absent ELSE old

\* upsert_many and expire of the runtime store
SeenNow(r) == IF r \in alive THEN 0 ELSE seen[r]
Expired(r) == SeenNow(r) > SeenTtl

\* What the registry's observers say in this tick. broken: observers that raise;
\* unread: files that cannot be read this time
AiderTargets == AiderRow \cap alive
Targeted(o) == IF o = "aider" THEN AiderTargets # {} ELSE KiroRow \cap alive # {}
Ticking(o, broken) == Targeted(o) /\ ~Disabled(observers[o]) /\ o \notin broken

\* The scanner's part of a scan, then the registry's, in the same step
Scanned(s) ==
    IF s \notin Row THEN sessions[s]
    ELSE IF s \in alive THEN ScannedRow(s, sessions[s])
    ELSE IF Expired(s) THEN RemovedRow(sessions[s]) ELSE sessions[s]

Observed(s, broken, unread) ==
    CASE s \in AiderTargets /\ Ticking("aider", broken) ->
            Forwarded(Scanned(s), AiderTick(transcript[s], s \notin unread).event)
      [] s \in KiroSpec /\ Ticking("kiro", broken) ->
            Forwarded(Scanned(s), KiroTick(meta[s], cache[s], s \notin unread).event)
      [] OTHER -> Scanned(s)

\* notify asks every observer for its targets, stops a started one that has
\* none, starts one that has and ticks it: which of the calls can raise now
CallPlace == {"targets", "stop", "start", "tick"}
MayRaise(o, where) ==
    /\ ~Disabled(observers[o])
    /\ where = "stop" => ~Targeted(o) /\ observers[o].started
    /\ where = "start" => Targeted(o) /\ ~observers[o].started
    /\ where = "tick" => Targeted(o)

\* scan_once. An observer that raises has its events of the tick dropped; what
\* it cached before it raised stays cached, and Aider's targets forget the rows
\* that are gone only when they return.
ScanOnce(broken, where, unread) ==
    /\ up
    /\ \A o \in broken : MayRaise(o, where)
    /\ seen' = [r \in Row |-> IF Expired(r) THEN -1 ELSE SeenNow(r)]
    /\ sessions' = [s \in Sid |-> Observed(s, broken, unread)]
    /\ observers' = [o \in Observer |->
            IF Disabled(observers[o]) THEN observers[o]
            ELSE IF o \in broken THEN Crashed(observers[o], where)
            ELSE Notified(observers[o], Targeted(o))]
    /\ transcript' = [r \in AiderRow |->
            IF transcript[r] = NoFile \/ Disabled(observers["aider"])
               \/ ("aider" \in broken /\ where = "targets") THEN transcript[r]
            ELSE IF r \notin alive THEN [transcript[r] EXCEPT !.read = FALSE]
            ELSE IF "aider" \in broken /\ where = "start" THEN transcript[r]
            ELSE AiderTick(transcript[r], r \notin unread).file]
    /\ cache' = [k \in KiroSpec |->
            IF Disabled(observers["kiro"]) \/ ("kiro" \in broken /\ where # "tick") THEN cache[k]
            ELSE IF ~Targeted("kiro") THEN IF observers["kiro"].started THEN NoEntry ELSE cache[k]
            ELSE KiroTick(meta[k], cache[k], k \notin unread).entry]
    /\ UNCHANGED <<alive, meta, asks, inboxVars, feedVars, moves>> /\ Still

\* At most one observer raises in a scan, and one that has no rows on this
\* machine none, since nothing but its own count of crashes would change
Sources(o) == setup \cap (IF o = "aider" THEN AiderRow ELSE KiroRow \cup KiroSpec)
Scan ==
    \E unread \in SUBSET (setup \cap (AiderRow \cup KiroSpec)) :
        \/ ScanOnce({}, "tick", unread)
        \/ \E o \in Observer, where \in CallPlace : Sources(o) # {} /\ ScanOnce({o}, where, unread)

(***************************************************************************)
(* The user                                                                *)
(***************************************************************************)

\* SESSION_JUMP: whatever route opened, the session is made active again
Jump(s) ==
    /\ Move
    /\ up /\ Present(sessions[s])
    /\ sessions' = [sessions EXCEPT ![s].state = "active", ![s].age = 0]
    /\ UNCHANGED <<asks, inboxVars, runtimeVars, feedVars>> /\ Still

\* QUESTION_ANSWER: only a session that waits for an answer takes one
AnswerQuestion(s) ==
    /\ Move
    /\ up /\ sessions[s].phase = "waiting_for_answer"
    /\ sessions' = [sessions EXCEPT ![s].state = "active", ![s].age = 0, ![s].phase = "running"]
    /\ UNCHANGED <<asks, inboxVars, runtimeVars, feedVars>> /\ Still

Resumed(old) == [old EXCEPT !.age = 0, !.phase = IF old.phase \in Ended THEN old.phase ELSE "running"]

\* APPROVAL_RESOLVE: the session resumes unless it has ended
ResolveApproval(s) ==
    /\ Move
    /\ up /\ s \in asks
    /\ asks' = asks \ {s}
    /\ sessions' = [sessions EXCEPT ![s] =
            IF Present(sessions[s]) THEN Resumed(sessions[s]) ELSE sessions[s]]
    /\ UNCHANGED <<inboxVars, runtimeVars, feedVars>> /\ Still

(***************************************************************************)
(* Time, the reaper, the process                                           *)
(***************************************************************************)

\* Faulty variant: phases the hooks report most are left to the stop hook
ReapableRunning(s) == Present(s) /\ s.state = "active" /\ s.phase = "running" /\ IsHookSession(s)

Reapable(s) == Present(s) /\ s.state = "active" /\ s.phase \in Informational /\ IsHookSession(s)

\* _reap_stale_hook_sessions
Reap ==
    /\ up
    /\ \E s \in Sid : Reapable(sessions[s]) /\ sessions[s].age >= StaleTtl
    /\ sessions' = [s \in Sid |->
            IF Reapable(sessions[s]) /\ sessions[s].age >= StaleTtl
            THEN [sessions[s] EXCEPT !.state = "closed", !.phase = "completed", !.age = 0]
            ELSE sessions[s]]
    /\ UNCHANGED <<asks, inboxVars, runtimeVars, feedVars, moves>> /\ Still

\* Time passes for everything that has a time stamp
Tick ==
    /\ sessions' = [s \in Sid |-> IF Present(sessions[s])
            THEN [sessions[s] EXCEPT !.age = Older(@), !.since = IF s \in CodexRow THEN Older(@) ELSE @]
            ELSE Absent]
    /\ seen' = [r \in Row |-> IF seen[r] = -1 THEN -1 ELSE Older(seen[r])]
    /\ transcript' = [r \in AiderRow |-> IF transcript[r] = NoFile THEN NoFile
            ELSE [transcript[r] EXCEPT !.age = Older(@)]]
    /\ meta' = [k \in KiroSpec |-> IF meta[k] = NoFile THEN NoFile ELSE [meta[k] EXCEPT !.age = Older(@)]]
    /\ cache' = [k \in KiroSpec |-> IF cache[k] = NoEntry THEN NoEntry ELSE [cache[k] EXCEPT !.age = Older(@)]]
    /\ rollout' = [t \in Thread |-> IF rollout[t] = NoFile THEN NoFile
            ELSE [rollout[t] EXCEPT !.age = Older(@), !.begun = Older(@)]]
    /\ UNCHANGED <<asks, inboxVars, alive, observers, server, rows, feed, moves>> /\ Still

\* The agent exits or is killed, between any two steps: its memory is gone
Exit ==
    /\ up /\ exits < MaxExits
    /\ up' = FALSE
    /\ exits' = exits + 1
    /\ sessions' = [s \in Sid |-> Absent]
    /\ asks' = {}
    /\ batch' = {} /\ handling' = NoHook
    /\ seen' = [r \in Row |-> -1]
    /\ transcript' = [r \in AiderRow |-> IF transcript[r] = NoFile THEN NoFile
            ELSE [transcript[r] EXCEPT !.read = FALSE]]
    /\ cache' = [k \in KiroSpec |-> NoEntry]
    /\ observers' = NoObservers
    /\ server' = "off"
    /\ rollout' = [t \in Thread |-> IF rollout[t] = NoFile THEN NoFile ELSE [rollout[t] EXCEPT !.read = FALSE]]
    /\ rows' = NoRows
    /\ feed' = [w \in Feed |-> <<>>]
    /\ UNCHANGED <<setup, begun, inbox, written, handled, alive, meta, moves>>

Start ==
    /\ ~up
    /\ up' = TRUE
    /\ UNCHANGED <<bounds, sessions, asks, inboxVars, runtimeVars, feedVars>>

(***************************************************************************)
(* Specification                                                           *)
(***************************************************************************)

HookStep ==
    \/ \E s \in HookSession, k \in Hooks, ref \in BOOLEAN : BeginHook(s, k, ref)
    \/ \E s \in HookSession : WriteHookEvent(s)
    \/ ListEventFiles \/ HandleFile \/ UnlinkFile

CodexStep ==
    \/ StartServer \/ RequestTimesOut \/ LoseServer
    \/ \E t \in Thread, n \in Statuses : ListThreads(t, n) \/ Notify(t, n)
    \/ \E t \in Thread, row \in {"message", "editing", "running_tool", "testing", "task_complete", "task_failed"} :
            AppendRollout(t, row)
    \/ \E t \in Thread : ScanRollout(t)

ClaudeStep ==
    \/ \E s \in ClaudeSession, row \in Entries : AppendRow(s, row)
    \/ \E s \in ClaudeSession : ScanRows(s)

RuntimeStep ==
    \/ \E r \in Row : ProcessMoves(r)
    \/ \E r \in AiderRow, tail \in LastBlock : WriteTranscript(r, tail)
    \/ \E k \in KiroSpec, status \in TaskStatus : WriteMeta(k, status)
    \/ Scan

UserStep == \E s \in Sid : Jump(s) \/ AnswerQuestion(s) \/ ResolveApproval(s)

Next ==
    \/ HookStep \/ CodexStep \/ ClaudeStep \/ RuntimeStep \/ UserStep
    \/ \E w \in Feed : HandleFeed(w)
    \/ Reap \/ Tick \/ Exit \/ Start

Spec == Init /\ [][Next]_vars

\* Time passes; hook processes end; the agent is started again and its polling
\* loops keep running
Fairness ==
    /\ WF_vars(Tick) /\ WF_vars(Start) /\ WF_vars(Reap)
    /\ WF_vars(Scan)
    /\ \A s \in HookSession : WF_vars(WriteHookEvent(s))
    /\ WF_vars(ListEventFiles) /\ WF_vars(HandleFile) /\ WF_vars(UnlinkFile)
    /\ \A s \in ClaudeSession : WF_vars(ScanRows(s))
    /\ \A t \in Thread : WF_vars(ScanRollout(t))
    /\ \A w \in Feed : WF_vars(HandleFeed(w))

FairSpec == Spec /\ Fairness

(***************************************************************************)
(* Properties                                                              *)
(***************************************************************************)

\* Hooks reach the reducer in the order each agent sent them, none skipped,
\* across exits of the agent and events handled twice: when a hook's handler
\* has run, so has that of every hook the session wrote before it.
HooksInOrder ==
    \A f \in handled, g \in written : f[1] = g[1] /\ g[2] < f[2] => g \in handled

\* A hook file leaves the directory only after its handler ran, whenever the
\* agent exits, and every one that is written has its turn.
HooksAreHandled ==
    /\ [](written \subseteq handled \cup {NameOf(f) : f \in inbox})
    /\ \A f \in Sent : f \in written ~> f \in handled

\* "passive observers may not silently downgrade an actionable session": the
\* activity of a transcript, a scan with its observers and the reaper leave a
\* session that waits for the user waiting.
PassiveStep ==
    \/ Scan
    \/ Reap
    \/ \E w \in Feed : HandleFeed(w) /\ Head(feed[w]).event.class = "activity"
                                     /\ Head(feed[w]).event.phase \in Informational
PassiveKeepsWait == [][PassiveStep => \A s \in Sid : Waits(s) => Waits(s)']_vars

\* A session that hooks or transcripts reported at work does not stay at work
\* for ever when they fall silent.
AtWork(s) == Present(sessions[s]) /\ IsHookSession(sessions[s]) /\ sessions[s].state = "active"
             /\ sessions[s].phase \in Informational
SilentSessionEnds == \A s \in Sid : AtWork(s) ~> ~AtWork(s)

\* The rows of processes follow the processes: a Codex process that runs on is
\* shown, unobserved when nothing reports on it, and one that is gone leaves.
RowsFollowProcesses ==
    \A r \in CodexRow :
        /\ r \in alive ~> (r \notin alive \/ (Present(sessions[r]) /\ sessions[r].unobserved))
        /\ r \notin alive ~> (r \in alive \/ ~Present(sessions[r]))
=============================================================================
