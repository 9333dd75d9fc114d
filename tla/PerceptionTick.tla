---------------------------- MODULE PerceptionTick ----------------------------
(***************************************************************************)
(* What one perception tick sets off in the agent                          *)
(* (dispatcher.on_perception_tick): the deduper lets it through or drops   *)
(* it, the coding-session tracker moves its pill on the island and records *)
(* the session that ended, and the proactive chain speaks if its rules,    *)
(* its cooldown and its quota allow. Intervals widen with the degradation  *)
(* level, which is read afresh on every tick. The connection can be lost   *)
(* between two of the tracker's intents.                                   *)
(***************************************************************************)
EXTENDS Naturals, Sequences, FiniteSets

CONSTANTS
    Ide,        \* the editors the tracker knows
    Away,       \* any other application
    Dwell,      \* an editor is in front this long before its pill is shown
    Grace,      \* and out of front this long before the pill leaves
    MinKept,    \* shorter sessions are not recorded
    Gap,        \* equal ticks closer than this are dropped
    Cooldown,   \* between two nudges
    Quota,      \* nudges in a window of Day
    Day,
    Level,      \* the degradation levels told apart
    MaxTime,    \* bound: the clock
    MaxShifts,  \* bound: changes of the degradation level
    MaxLosses   \* bound: ticks that lose the connection

ASSUME TickAssumption ==
    /\ Away \notin Ide
    /\ {Dwell, Grace, MinKept, Gap, Cooldown, Day, MaxTime, MaxShifts, MaxLosses} \subseteq Nat
    /\ Quota \in Nat \ {0}
    /\ Level \subseteq 0..6 /\ 0 \in Level

Time == 0..MaxTime
App == Ide \cup {Away}
Never == MaxTime + 1
Moment == Time \cup {Never}
Broken == "broken"  \* no app: the last tick raised

VARIABLES
    now,       \* the agent's clock, which also stamps the ticks
    level,     \* DegradationController._level
    seen,      \* PerceptionDeduper: the last fingerprint let through, and when
    tracker,   \* CodingSessionTracker: the pill shown and the debounce bookkeeping
    pill,      \* the coding pill on the client's island
    log,       \* the coding_sessions table
    cooldown,  \* CooldownTracker
    shifts, losses,
    run,       \* history: the app all ticks since some moment showed, and that moment
    visited,   \* history: the last tick in each editor that was let through
    nudges     \* history: when the pet spoke unasked

tickVars == <<now, level, seen, tracker, pill, log, cooldown, shifts, losses, run, visited, nudges>>

Session == [ide: Ide, from: Time, to: Time]

TickTypeOK ==
    /\ now \in Time
    /\ level \in Level
    /\ seen \in [app: App, open: BOOLEAN, at: Moment]
    /\ tracker \in [name: App, from: Moment, last: Moment, pending: App, since: Moment, absent: Moment]
    /\ pill \in App
    /\ log \in Seq(Session)
    /\ cooldown \in [last: Moment, count: Nat, window: Moment]
    /\ shifts \in 0..MaxShifts
    /\ losses \in 0..MaxLosses
    /\ run \in [app: App \cup {Broken}, from: Time, last: Time]
    /\ visited \in [Ide -> Moment]
    /\ nudges \subseteq Time

NoSession == [name |-> Away, from |-> Never, last |-> Never]

TickInit ==
    /\ now = 0
    /\ level = 0
    /\ seen = [app |-> Away, open |-> FALSE, at |-> Never]
    /\ tracker = [name |-> Away, from |-> Never, last |-> Never,
                  pending |-> Away, since |-> Never, absent |-> Never]
    /\ pill = Away
    /\ log = << >>
    /\ cooldown = [last |-> Never, count |-> 0, window |-> Never]
    /\ shifts = 0 /\ losses = 0
    /\ run = [app |-> Broken, from |-> 0, last |-> 0]
    /\ visited = [i \in Ide |-> Never]
    /\ nudges = {}

-----------------------------------------------------------------------------
(***************************************************************************)
(* PerceptionDeduper.                                                      *)
(***************************************************************************)

\* perception_widening_factor
Widening == IF level >= 3 THEN 2 ELSE 1
EffectiveGap == Gap * Widening

\* should_accept: another fingerprint always passes, an equal one after the gap.
Accepts(app, open) ==
    \/ seen.at = Never
    \/ <<seen.app, seen.open>> # <<app, open>>
    \/ now - seen.at >= EffectiveGap

-----------------------------------------------------------------------------
(***************************************************************************)
(* CodingSessionTracker. reach is how many of the tick's intents find the  *)
(* client; the sink raises on the next one, the exception leaves the       *)
(* tracker where it stands and the dispatcher goes on with the tick.       *)
(***************************************************************************)

Forgotten(t) == [t EXCEPT !.name = Away, !.from = Never, !.last = Never]

\* Faulty variant: a session is credited with the grace it was dismissed after.
EndedNow(t) ==
    IF t.last # Never /\ now - t.from >= MinKept
    THEN <<[ide |-> t.name, from |-> t.from, to |-> now]>>
    ELSE << >>

\* What on_session_end records of the session that is dismissed.
Ended(t) ==
    IF t.last # Never /\ t.last >= t.from /\ t.last - t.from >= MinKept
    THEN <<[ide |-> t.name, from |-> t.from, to |-> t.last]>>
    ELSE << >>

\* _dismiss: the state is cleared before the intent is sent, the session is
\* handed over after it.
Dismiss(t, reach) ==
    IF reach >= 1
    THEN [tracker |-> Forgotten(t), pill |-> Away, log |-> log \o Ended(t), left |-> reach - 1,
          raised |-> FALSE]
    ELSE [tracker |-> Forgotten(t), pill |-> pill, log |-> log, left |-> 0, raised |-> TRUE]

Kept(t, reach) == [tracker |-> t, pill |-> pill, log |-> log, left |-> reach, raised |-> FALSE]

\* Another application is in front.
Leave(reach) ==
    LET t == [tracker EXCEPT !.pending = Away, !.since = Never]
        out == IF t.absent = Never THEN now ELSE t.absent
        d == Dismiss([t EXCEPT !.absent = out], reach)
    IN CASE t.name = Away -> Kept(t, reach)
         [] t.name # Away /\ now - out < Grace -> Kept([t EXCEPT !.absent = out], reach)
         [] OTHER -> IF d.raised THEN d ELSE [d EXCEPT !.tracker.absent = Never]

\* _present: the pill of the former editor is dismissed first.
Present(t, app, reach) ==
    LET d == IF t.name = Away THEN Kept(t, reach) ELSE Dismiss(t, reach)
        shown == [d.tracker EXCEPT !.name = app, !.from = now]
    IN IF d.raised THEN d
       ELSE IF d.left = 0 THEN [d EXCEPT !.tracker = shown, !.raised = TRUE]
       ELSE [d EXCEPT !.tracker = [shown EXCEPT !.last = now], !.pill = app, !.left = @ - 1]

Enter(app, reach) ==
    LET t == [tracker EXCEPT !.absent = Never]
        fresh == t.pending # app
        since == IF fresh THEN now ELSE t.since
    IN CASE t.name = app ->
              Kept([t EXCEPT !.last = now, !.pending = Away, !.since = Never], reach)
         [] t.name # app /\ ((fresh /\ Dwell > 0) \/ now - since < Dwell) ->
              Kept([t EXCEPT !.pending = app, !.since = since], reach)
         [] OTHER ->
              Present([t EXCEPT !.pending = Away, !.since = Never], app, reach)

Observe(app, reach) == IF app = Away THEN Leave(reach) ELSE Enter(app, reach)

-----------------------------------------------------------------------------
(***************************************************************************)
(* RuleFilter and CooldownTracker. open stands for the rules on the tick   *)
(* itself: unfocused, idle for long enough, nothing urgent on show, not    *)
(* freshly nested. The decision engine agrees: no caller gives it the time *)
(* of the last nudge.                                                      *)
(***************************************************************************)

\* proactive_interval_multiplier
Multiplier == IF level >= 2 THEN 2 ELSE 1
WithinCooldown == cooldown.last # Never /\ now - cooldown.last < Cooldown * Multiplier

\* Faulty variant: the window is emptied but keeps its old start.
RolledForgetfully ==
    IF cooldown.window # Never /\ now - cooldown.window >= Day
    THEN [cooldown EXCEPT !.count = 0] ELSE cooldown

\* _rollover_window_if_needed
RolledOver ==
    IF cooldown.window # Never /\ now - cooldown.window >= Day
    THEN [cooldown EXCEPT !.window = now, !.count = 0] ELSE cooldown

OverQuota == RolledOver.window # Never /\ RolledOver.count >= Quota

\* record_trigger, which the dispatcher calls before it sends anything.
Recorded ==
    [last |-> now, count |-> RolledOver.count + 1,
     window |-> IF RolledOver.window = Never THEN now ELSE RolledOver.window]

\* maybe_trigger: the rules in their order, of which asking for the quota rolls
\* the window over.
MaybeTrigger(open) ==
    IF ~open \/ WithinCooldown THEN UNCHANGED <<cooldown, nudges>>
    ELSE IF OverQuota THEN cooldown' = RolledOver /\ UNCHANGED nudges
    ELSE cooldown' = Recorded /\ nudges' = nudges \cup {now}

-----------------------------------------------------------------------------
Follow(app, raised) ==
    run' = IF app = run.app /\ ~raised THEN [run EXCEPT !.last = now]
           ELSE [app |-> IF raised THEN Broken ELSE app, from |-> now, last |-> now]

\* Faulty variant: a dropped tick still restarts the gap, so that steady ticks never pass.
DropTickSliding(app, open) ==
    /\ ~Accepts(app, open)
    /\ seen' = [seen EXCEPT !.at = now]
    /\ run' = IF app = run.app THEN [run EXCEPT !.last = now] ELSE run
    /\ UNCHANGED <<now, level, tracker, pill, log, cooldown, shifts, losses, visited, nudges>>

DropTick(app, open) ==
    /\ ~Accepts(app, open)
    /\ run' = IF app = run.app THEN [run EXCEPT !.last = now] ELSE run
    /\ UNCHANGED <<now, level, seen, tracker, pill, log, cooldown, shifts, losses, visited, nudges>>

OnPerceptionTick(app, open, reach) ==
    LET o == Observe(app, reach) IN
    /\ Accepts(app, open)
    /\ reach < 2 => losses < MaxLosses
    /\ seen' = [app |-> app, open |-> open, at |-> now]
    /\ tracker' = o.tracker /\ pill' = o.pill /\ log' = o.log
    /\ MaybeTrigger(open)
    /\ losses' = IF reach < 2 THEN losses + 1 ELSE losses
    /\ Follow(app, o.raised)
    /\ visited' = IF app = Away THEN visited ELSE [visited EXCEPT ![app] = now]
    /\ UNCHANGED <<now, level, shifts>>

SetLevel(l) ==
    /\ l # level /\ shifts < MaxShifts
    /\ level' = l /\ shifts' = shifts + 1
    /\ UNCHANGED <<now, seen, tracker, pill, log, cooldown, losses, run, visited, nudges>>

Pass ==
    /\ now < MaxTime
    /\ now' = now + 1
    /\ UNCHANGED <<level, seen, tracker, pill, log, cooldown, shifts, losses, run, visited, nudges>>

TickNext ==
    \/ \E app \in App, open \in BOOLEAN : DropTick(app, open)
    \/ \E app \in App, open \in BOOLEAN, reach \in 0..2 : OnPerceptionTick(app, open, reach)
    \/ \E l \in Level : SetLevel(l)
    \/ Pass

TickSpec == TickInit /\ [][TickNext]_tickVars

-----------------------------------------------------------------------------
\* A coding session ends with the last tick seen in its editor: neither the
\* grace the pill is kept for, nor a detour, nor an intent that was lost adds
\* time to it, and no stretch of time is recorded twice
\* (CodingSessionTracker._dismiss).
SessionsEndInTheEditor ==
    [][\A i \in DOMAIN log' : i > Len(log) =>
            /\ log'[i].to = visited[log'[i].ide]
            /\ i > 1 => log'[i].from >= log'[i - 1].to]_tickVars

\* Whatever the deduper drops and however wide its gap is, an application that
\* stays in front long enough has the pill it should have
\* (PerceptionDeduper.should_accept, CodingSessionTracker.__call__).
PillFollowsUser ==
    run.app # Broken /\ run.last - run.from >= Gap * 2 + (IF run.app = Away THEN Grace ELSE Dwell) =>
        /\ tracker.name = run.app
        /\ losses = 0 => pill = run.app

\* However the level and the window move, two nudges are a cooldown apart and no
\* stretch of a day holds two quotas: each window begins with a nudge
\* (CooldownTracker).
NudgesAreRare ==
    /\ \A m, n \in nudges : m < n => n - m >= Cooldown
    /\ \A m \in nudges : Cardinality({n \in nudges : m <= n /\ n < m + Day}) < 2 * Quota
=============================================================================
