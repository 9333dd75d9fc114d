------------------------------- MODULE AgentEvents -------------------------------
(***************************************************************************)
(* From what an agent reports to what Deskmate records: hook payloads      *)
(* (hook_normalizers, hooks), Codex app-server notifications, Codex and    *)
(* Claude transcripts (codex_app_server, codex_transcripts, claude_jsonl)  *)
(* become AgentEvents, and AgentEventReducer turns an event and the        *)
(* session recorded so far into the session recorded next (agent_events,   *)
(* sessions/store). Titles, summaries and working directories are left     *)
(* out.                                                                    *)
(***************************************************************************)
EXTENDS Naturals, Sequences

Informational == {"running", "thinking", "editing", "running_tool", "testing"}
Waiting == {"waiting_for_approval", "waiting_for_answer"}
Ended == {"completed", "failed"}
Phase == Informational \cup Waiting \cup Ended

\* A session as the store holds it. age counts from updated_at_ms; hooked says
\* that extras carry hook_source; unobserved and since are the scanner's
\* phase_source and the age of first_observed_ms.
Absent == [phase |-> "none"]
Present(old) == old # Absent
Session(phase, kind, hooked, age) ==
    [phase |-> phase, state |-> "active", kind |-> kind, hooked |-> hooked, age |-> age,
     unobserved |-> FALSE, since |-> 0]
SessionType(ages) ==
    {Absent} \cup [phase: Phase, state: {"active", "closed"}, kind: {"hook_session", "runtime"},
                   hooked: BOOLEAN, age: ages, unobserved: BOOLEAN, since: ages]

\* An AgentEvent: its class, the phase it carries and how old its time stamp is
EventClass == {"started", "activity", "permission", "question", "completed", "jump"}
Event(class, phase) == [class |-> class, phase |-> phase, age |-> 0]
EventType(ages) == [class: EventClass, phase: Phase, age: ages]

(***************************************************************************)
(* Hook payloads                                                           *)
(***************************************************************************)

\* The hooks the installers register, by the agent that calls them. ref: the
\* payload names a tool use (Claude, Codex) or a generation (Cursor).
HookKind == {"SessionStart", "UserPromptSubmit", "PreToolUse", "PostToolUse", "PermissionRequest",
             "Question", "Stop", "Failure", "Edit", "Shell", "Test", "JumpTarget"}

\* The first words of the event's text that match decide
PhaseFrom(k) ==
    CASE k \in {"PermissionRequest", "PreToolUse"} -> "waiting_for_approval"
      [] k = "Question" -> "waiting_for_answer"
      [] k = "Failure" -> "failed"
      [] k \in {"Stop", "PostToolUse"} -> "completed"
      [] k = "UserPromptSubmit" -> "thinking"
      [] k = "Edit" -> "editing"
      [] k = "Test" -> "testing"
      [] k = "Shell" -> "running_tool"
      [] OTHER -> "running"

NormalizeCodex(k, ref) == [phase |-> PhaseFrom(k), approval |-> PhaseFrom(k) = "waiting_for_approval"]

\* A Claude payload's tool_use_id is taken for the id of an approval
NormalizeClaude(k, ref) ==
    [phase |-> PhaseFrom(k), approval |-> ref \/ PhaseFrom(k) = "waiting_for_approval"]

\* A Cursor payload's generation_id is taken for the id of an approval
NormalizeCursor(k, ref) == [phase |-> PhaseFrom(k), approval |-> ref]

Normalize(agent, k, ref) ==
    CASE agent = "claude" -> NormalizeClaude(k, ref)
      [] agent = "cursor" -> NormalizeCursor(k, ref)
      [] OTHER -> NormalizeCodex(k, ref)

EventFromHook(agent, k, ref) ==
    LET hook == Normalize(agent, k, ref) IN
    CASE hook.phase = "waiting_for_approval" \/ hook.approval -> Event("permission", "waiting_for_approval")
      [] hook.phase = "waiting_for_answer" -> Event("question", hook.phase)
      [] hook.phase \in Ended -> Event("completed", hook.phase)
      [] k = "SessionStart" -> Event("started", hook.phase)
      [] k = "JumpTarget" -> Event("jump", hook.phase)
      [] OTHER -> Event("activity", hook.phase)

(***************************************************************************)
(* Codex app-server notifications and transcripts, Claude transcripts      *)
(***************************************************************************)

Notification == {"active", "active_approval", "active_input", "idle", "error", "closed",
                 "turn_started", "turn_completed", "turn_failed"}

EventFromNotification(n) ==
    CASE n = "active_approval" -> Event("permission", "waiting_for_approval")
      [] n = "active_input" -> Event("question", "waiting_for_answer")
      [] n \in {"active", "turn_started"} -> Event("activity", "running")
      [] n = "idle" -> Event("activity", "completed")
      [] n \in {"error", "turn_failed"} -> Event("completed", "failed")
      [] OTHER -> Event("completed", "completed")

\* event_from_codex_thread_started, for the threads loaded when the agent starts
EventFromThread(n) ==
    Event("started", CASE n = "active_approval" -> "waiting_for_approval"
                       [] n = "active_input" -> "waiting_for_answer"
                       [] n = "idle" -> "completed"
                       [] n = "error" -> "failed"
                       [] OTHER -> "running")

\* What _consume_row makes of a rollout's rows: the phase of the last tool, and
\* completed and failed once any row said so
Rollout == [phase: {"running", "editing", "running_tool", "testing", "failed"},
            completed: BOOLEAN, failed: BOOLEAN]
ConsumeRow(r, row) ==
    CASE row = "task_complete" -> [r EXCEPT !.completed = TRUE]
      [] row = "task_failed" -> [r EXCEPT !.completed = TRUE, !.failed = TRUE, !.phase = "failed"]
      [] row = "message" -> r
      [] OTHER -> [r EXCEPT !.phase = row]

\* A rollout that was read becomes two events; the first carries the time the
\* rollout began
EventsFromRollout(r, age, begun) ==
    <<[Event("started", IF r.completed THEN "completed" ELSE "running") EXCEPT !.age = begun],
      [(IF r.completed \/ r.failed THEN Event("completed", IF r.failed THEN "failed" ELSE "completed")
        ELSE Event("activity", r.phase)) EXCEPT !.age = age]>>

ClaudeRow == {"summary", "user", "ask", "text", "tool", "risky_tool", "result", "end_turn"}

\* A tool that edits or runs a command is taken to wait for an approval; the
\* stop reason is looked for on the row, where "end_turn" has it
EventFromRow(row) ==
    CASE row = "summary" -> Event("started", "running")
      [] row = "result" -> Event("activity", "running")
      [] row = "ask" -> Event("question", "waiting_for_answer")
      [] row \in {"user", "text"} -> Event("activity", "thinking")
      [] row = "risky_tool" -> Event("permission", "waiting_for_approval")
      [] row = "tool" -> Event("activity", "running_tool")
      [] row = "end_turn" -> Event("completed", "completed")

(***************************************************************************)
(* AgentEventReducer                                                       *)
(***************************************************************************)

\* Faulty variant: only the phase the first version guarded against leaves a wait alone
PreservesOnlyRunning(old, phase) == phase = "running" /\ old.phase \in Waiting

PreservesActionableState(old, phase) == phase \in Informational /\ old.phase \in Waiting

\* _upsert_session: what it writes is a hook session, open again, whoever
\* recorded it before
Upserted(e, phase) == Session(phase, "hook_session", TRUE, e.age)

Reduce(old, e) ==
    CASE e.class = "activity" /\ Present(old) ->
            Upserted(e, IF PreservesActionableState(old, e.phase) THEN old.phase ELSE e.phase)
      [] e.class = "jump" /\ Present(old) -> [old EXCEPT !.age = e.age, !.hooked = TRUE]
      [] e.class = "jump" /\ ~Present(old) -> Upserted(e, "running")
      [] OTHER -> Upserted(e, e.phase)

\* An approval is added for every permission asked
Asks(e) == e.class = "permission"
=============================================================================
