------------------------------- MODULE BuildPill -------------------------------
(***************************************************************************)
(* The build pill (skills/build_status, build_status_watcher). Any tool    *)
(* writes its report over the one before in a single file; a poll eats the *)
(* file and drives the skill, which shows one pill and lets it leave some  *)
(* time after the build is over. A send that finds no client raises, and   *)
(* what the handler had still to do is not done.                           *)
(***************************************************************************)
EXTENDS Naturals

CONSTANTS
    Build,        \* names of builds
    NoBuild,
    Ttl,          \* a finished build's pill stays this long
    MaxReports,   \* bound: reports written
    MaxUnsent     \* bound: sends that find no client

ASSUME PillAssumption ==
    /\ NoBuild \notin Build
    /\ {Ttl, MaxReports, MaxUnsent} \subseteq Nat

Report == [state: {"started", "progress", "done", "failed"}, task: Build]
             \cup [state: {"dismiss", "none"}, task: {NoBuild}]
NoReport == [state |-> "none", task |-> NoBuild]

VARIABLES
    report,     \* build-status.json
    current,    \* _current_activity_id
    sleepers,   \* the delayed dismissals asleep, each for its build
    handle,     \* _pending_dismiss
    pills,      \* build pills on the island
    reports, unsent,
    over        \* history: the current build was reported over, and the island knows

pillVars == <<report, current, sleepers, handle, pills, reports, unsent, over>>

Sleeper == [id: 1..MaxReports, task: Build, left: 0..Ttl]

PillTypeOK ==
    /\ report \in Report
    /\ current \in Build \cup {NoBuild}
    /\ sleepers \subseteq Sleeper
    /\ handle \in 0..MaxReports
    /\ pills \subseteq Build
    /\ reports \in 0..MaxReports /\ unsent \in 0..MaxUnsent
    /\ over \in BOOLEAN

PillInit ==
    /\ report = NoReport
    /\ current = NoBuild
    /\ sleepers = {} /\ handle = 0
    /\ pills = {}
    /\ reports = 0 /\ unsent = 0
    /\ over = FALSE

\* A tool writes its report, whether the last one was read or not.
WriteReport(r) ==
    /\ r # NoReport /\ reports < MaxReports
    /\ report' = r /\ reports' = reports + 1
    /\ UNCHANGED <<current, sleepers, handle, pills, unsent, over>>

\* _cancel_pending_dismiss knows the latest sleeper only.
CancelPendingDismiss ==
    /\ sleepers' = {s \in sleepers : s.id # handle}
    /\ handle' = 0

Lose == unsent < MaxUnsent /\ unsent' = unsent + 1

\* on_build_start: a build that is shown is dismissed first.
OnBuildStart(b) ==
    /\ CancelPendingDismiss
    /\ over' = FALSE
    /\ \/ /\ current' = b
          /\ pills' = (pills \ {current}) \cup {b}
          /\ UNCHANGED unsent
       \/ /\ Lose  \* the dismissal of the former build
          /\ current # NoBuild /\ current' = NoBuild
          /\ UNCHANGED pills
       \/ /\ Lose  \* the new pill
          /\ current' = b
          /\ pills' = pills \ {current}

\* Faulty variant: progress counts as life, the pending dismissal is called off.
OnBuildProgressRevives(b) ==
    /\ IF b = current THEN CancelPendingDismiss ELSE UNCHANGED <<sleepers, handle>>
    /\ UNCHANGED <<current, pills, unsent, over>>

\* on_build_progress rewrites the pill's text; one of another build is dropped.
OnBuildProgress(b) == UNCHANGED <<current, sleepers, handle, pills, unsent, over>>

\* on_build_done: the pill's text first, then the sleeper that takes it away. A
\* second report of the same build starts a second sleeper.
OnBuildDone(b) ==
    \/ /\ b # current
       /\ UNCHANGED <<current, sleepers, handle, pills, unsent, over>>
    \/ /\ b = current
       /\ sleepers' = sleepers \cup {[id |-> reports, task |-> b, left |-> Ttl]}
       /\ handle' = reports
       /\ over' = TRUE
       /\ UNCHANGED <<current, pills, unsent>>
    \/ /\ b = current
       /\ Lose
       /\ UNCHANGED <<current, sleepers, handle, pills, over>>

\* on_external_dismiss
OnExternalDismiss ==
    /\ CancelPendingDismiss
    /\ current' = NoBuild
    /\ \/ pills' = pills \ {current} /\ UNCHANGED unsent
       \/ current # NoBuild /\ Lose /\ UNCHANGED pills
    /\ UNCHANGED over

\* _drain_once: the file is eaten before the report is acted on.
DrainReport ==
    /\ report # NoReport
    /\ report' = NoReport
    /\ CASE report.state = "started" -> OnBuildStart(report.task)
         [] report.state = "progress" -> OnBuildProgress(report.task)
         [] report.state \in {"done", "failed"} -> OnBuildDone(report.task)
         [] OTHER -> OnExternalDismiss
    /\ UNCHANGED reports

\* _delayed_dismiss: nothing happens if another build has taken over.
DelayedDismiss(s) ==
    /\ s.left = 0
    /\ sleepers' = sleepers \ {s}
    /\ \/ /\ s.task # current
          /\ UNCHANGED <<current, pills, unsent>>
       \/ /\ s.task = current
          /\ current' = NoBuild
          /\ \/ pills' = pills \ {current} /\ UNCHANGED unsent
             \/ Lose /\ UNCHANGED pills
    /\ UNCHANGED <<report, handle, reports, over>>

SleepersAge ==
    /\ sleepers # {} /\ \A s \in sleepers : s.left > 0
    /\ sleepers' = {[s EXCEPT !.left = @ - 1] : s \in sleepers}
    /\ UNCHANGED <<report, current, handle, pills, reports, unsent, over>>

PillNext ==
    \/ \E r \in Report : WriteReport(r)
    \/ DrainReport
    \/ \E s \in sleepers : DelayedDismiss(s)
    \/ SleepersAge

\* The poll goes on, and a sleeper wakes when its time is over.
PillFairness ==
    /\ WF_pillVars(DrainReport) /\ WF_pillVars(SleepersAge)
    /\ WF_pillVars(\E s \in sleepers : DelayedDismiss(s))

PillSpec == PillInit /\ [][PillNext]_pillVars /\ PillFairness

-----------------------------------------------------------------------------
\* The skill never leaves a build that is over in its slot: whatever reports
\* come late, are repeated or are overwritten, the pill's time ends
\* (BuildStatusSkill.on_build_done, _delayed_dismiss).
FinishedBuildLeaves == (over /\ current # NoBuild) ~> (~over \/ current = NoBuild)

\* The island shows the skill's one build and no other, for as long as every
\* send has found a client.
OnePill == unsent = 0 => pills = {current} \ {NoBuild}
=============================================================================
