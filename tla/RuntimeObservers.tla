----------------------------- MODULE RuntimeObservers -----------------------------
(***************************************************************************)
(* The passive phase observers the process scanner drives: Aider's         *)
(* transcript, Kiro's task files, and the registry that starts, ticks,     *)
(* stops and disables them (runtime_observers). Ages are classes of time   *)
(* since a file last changed; a file counts as read when the observer's    *)
(* cached mtime is the file's.                                             *)
(***************************************************************************)
EXTENDS AgentEvents

CONSTANTS
    LiveAge,    \* AIDER_LIVE_THRESHOLD_MS
    AiderIdle,  \* AIDER_IDLE_THRESHOLD_MS
    KiroIdle,   \* KIRO_IDLE_THRESHOLD_MS
    CrashLimit  \* ObserverConsecutiveCrashLimit

ASSUME ObserverAssumption == {LiveAge, AiderIdle, KiroIdle, CrashLimit} \subseteq Nat

NoFile == [status |-> "none"]
NoEvent == [class |-> "none"]

(***************************************************************************)
(* AiderTranscriptObserver                                                 *)
(***************************************************************************)

LastBlock == {"diff", "shell", "prose", "prompt"}
Transcript(ages) == {NoFile} \cup [status: LastBlock, age: ages, read: BOOLEAN]

DecideAiderPhase(tail, age) ==
    CASE tail = "diff" -> Event("activity", "editing")
      [] tail = "shell" /\ age <= LiveAge -> Event("activity", "running_tool")
      [] tail \in {"prose", "prompt"} /\ age <= LiveAge -> Event("activity", "thinking")
      [] tail \in {"shell", "prose"} /\ age > AiderIdle -> Event("completed", "completed")
      [] OTHER -> NoEvent

\* _tick_one: a transcript whose mtime is the cached one is not read again. The
\* mtime is cached before the read, so that one that fails is not tried again
\* until the file changes.
AiderTick(f, readable) ==
    IF f = NoFile \/ f.read THEN [file |-> f, event |-> NoEvent]
    ELSE [file |-> [f EXCEPT !.read = TRUE],
          event |-> IF readable THEN DecideAiderPhase(f.status, f.age) ELSE NoEvent]

(***************************************************************************)
(* KiroTaskObserver                                                        *)
(***************************************************************************)

\* A spec's meta file: what its latest task record says, and how long ago. A
\* corrupt file has no record; the workspace of one "elsewhere" is unknown.
TaskStatus == {"queued", "in_progress", "succeed", "corrupt", "elsewhere"}
MetaFile(ages) == {NoFile} \cup [status: TaskStatus, age: ages]

NoEntry == [last |-> "none"]
CacheEntry(ages) == {NoEntry} \cup [last: Phase, age: ages, current: BOOLEAN]

DecideKiroPhase(status, age) ==
    IF age > KiroIdle \/ status = "succeed" THEN "completed"
    ELSE IF status = "in_progress" THEN "thinking" ELSE "running"

KiroEvent(phase) == Event(IF phase = "completed" THEN "completed" ELSE "activity", phase)

\* The file is the one read before: only crossing the idle threshold says more
IdleCrossing(c) == [entry |-> [c EXCEPT !.last = "completed"], event |-> KiroEvent("completed")]

\* Nothing usable in the file: its mtime is remembered, and an entry that did
\* not exist is made as one already completed
Unusable(f, c) ==
    [entry |-> IF c = NoEntry THEN [last |-> "completed", age |-> f.age, current |-> TRUE]
               ELSE [c EXCEPT !.current = TRUE],
     event |-> NoEvent]

ReadRecord(f) ==
    LET phase == DecideKiroPhase(f.status, f.age)
    IN [entry |-> [last |-> phase, age |-> f.age, current |-> TRUE], event |-> KiroEvent(phase)]

\* _tick_one_meta: a read that fails leaves the cache, and the next tick reads
KiroTick(f, c, readable) ==
    CASE f = NoFile -> [entry |-> NoEntry, event |-> NoEvent]
      [] f # NoFile /\ c # NoEntry /\ c.current ->
            IF c.last # "completed" /\ c.age > KiroIdle THEN IdleCrossing(c)
            ELSE [entry |-> c, event |-> NoEvent]
      [] f # NoFile /\ ~(c # NoEntry /\ c.current) ->
            IF ~readable THEN [entry |-> c, event |-> NoEvent]
            ELSE IF f.status \in {"corrupt", "elsewhere"} THEN Unusable(f, c) ELSE ReadRecord(f)

(***************************************************************************)
(* RuntimePhaseObserverRegistry                                            *)
(***************************************************************************)

Observer == {"aider", "kiro"}
Observing == [started: BOOLEAN, crashes: 0..CrashLimit]
Disabled(o) == o.crashes >= CrashLimit

\* _record_crash, where an observer raised; a failed start leaves it unstarted
Crashed(o, where) ==
    [started |-> IF where = "tick" THEN TRUE ELSE IF where = "stop" THEN FALSE ELSE o.started,
     crashes |-> o.crashes + 1]

\* notify, for one observer that did not raise: ticked while it has targets,
\* stopped once it has none; only a tick clears the crash count
Notified(o, targeted) ==
    IF targeted THEN [started |-> TRUE, crashes |-> 0] ELSE [o EXCEPT !.started = FALSE]

\* The registry forwards no event about a session that hooks own
Forwarded(old, e) ==
    IF e = NoEvent \/ (Present(old) /\ old.kind = "hook_session") THEN old ELSE Reduce(old, e)
=============================================================================
