------------------------------ MODULE TaskNudges ------------------------------
(***************************************************************************)
(* TaskNudgeWatcher (task_nudges): every poll reads the active tasks, and  *)
(* of those that nobody has touched for long and that are out of their own *)
(* cooldown it speaks about one. The cooldowns are in memory; the bubble   *)
(* and the island card are two sends, and either can find no client. Time  *)
(* is counted in polls.                                                    *)
(***************************************************************************)
EXTENDS Naturals, Sequences, SequencesExt, FiniteSets

CONSTANTS
    Errand,      \* tasks of the store
    Limit,       \* rows of a listing
    StaleAfter,  \* polls without an update until a task is stale
    Rest,        \* polls between two nudges about one task
    MaxTouches,    \* bound: updates of tasks
    MaxMisses    \* bound: sends that find no client

ASSUME NudgeAssumption ==
    /\ {Limit, StaleAfter, Rest, MaxTouches, MaxMisses} \subseteq Nat
    /\ IsFiniteSet(Errand)

Unnudged == Rest + 1  \* no nudge yet

VARIABLES
    errand,   \* status of each task
    recent,   \* the tasks, last updated first
    age,      \* polls since the update, up to StaleAfter
    nudged,   \* _last_nudged_at: polls since, up to Rest, or Unnudged
    moved,    \* the task was updated after it was nudged
    due,      \* the sleep between two polls is over
    touches, misses

nudgeVars == <<errand, recent, age, nudged, moved, due, touches, misses>>

NudgeTypeOK ==
    /\ errand \in [Errand -> {"open", "in_progress", "done"}]
    /\ recent \in Seq(Errand) /\ ToSet(recent) = Errand /\ Len(recent) = Cardinality(Errand)
    /\ age \in [Errand -> 0..StaleAfter]
    /\ nudged \in [Errand -> 0..Unnudged]
    /\ moved \subseteq Errand
    /\ due \in BOOLEAN
    /\ touches \in 0..MaxTouches /\ misses \in 0..MaxMisses

NudgeInit ==
    /\ errand \in [Errand -> {"open", "in_progress"}]
    /\ recent \in {s \in [1..Cardinality(Errand) -> Errand] : ToSet(s) = Errand}
    /\ age = [e \in Errand |-> 0]
    /\ nudged = [e \in Errand |-> Unnudged]
    /\ moved = {}
    /\ due = TRUE
    /\ touches = 0 /\ misses = 0

Active(e) == errand[e] # "done"
Place(e) == CHOOSE i \in DOMAIN recent : recent[i] = e

\* list(status="active"): what is in progress first, then by last update.
ListedBefore(d, e) ==
    \/ errand[d] = "in_progress" /\ errand[e] # "in_progress"
    \/ errand[d] = errand[e] /\ Place(d) < Place(e)

Listing == {e \in Errand : Active(e) /\ Cardinality({d \in Errand : Active(d) /\ ListedBefore(d, e)}) < Limit}

\* _cooldown_elapsed
Rested(e) == e \in moved \/ nudged[e] >= Rest

\* _pick_stale_task: in progress before open, then the longest untouched.
Stale == {e \in Listing : age[e] >= StaleAfter /\ Rested(e)}

Preferred(e) ==
    \A d \in Stale \ {e} :
        \/ errand[e] = "in_progress" /\ errand[d] # "in_progress"
        \/ errand[e] = errand[d] /\ Place(e) > Place(d)

Nudge(e) ==
    /\ nudged' = [nudged EXCEPT ![e] = 0]
    /\ moved' = moved \ {e}
    /\ UNCHANGED misses

\* A send raises: the loop logs it, and nothing is remembered of the nudge.
NudgeMisses ==
    /\ misses < MaxMisses
    /\ misses' = misses + 1
    /\ UNCHANGED <<nudged, moved>>

\* Faulty variant: only the first nudge about a task is remembered.
ProcessOnceForgetful ==
    /\ due
    /\ due' = FALSE
    /\ IF Stale = {} THEN UNCHANGED <<nudged, moved, misses>>
       ELSE \E e \in Stale :
               /\ Preferred(e)
               /\ (IF nudged[e] = Unnudged THEN Nudge(e) ELSE UNCHANGED <<nudged, moved, misses>>)
    /\ UNCHANGED <<errand, recent, age, touches>>

ProcessOnce ==
    /\ due
    /\ due' = FALSE
    /\ IF Stale = {} THEN UNCHANGED <<nudged, moved, misses>>
       ELSE \E e \in Stale : Preferred(e) /\ (Nudge(e) \/ NudgeMisses)
    /\ UNCHANGED <<errand, recent, age, touches>>

\* The sleep of a poll.
PollSleeps ==
    /\ ~due
    /\ due' = TRUE
    /\ age' = [e \in Errand |-> IF age[e] < StaleAfter THEN age[e] + 1 ELSE StaleAfter]
    /\ nudged' = [e \in Errand |-> IF nudged[e] < Rest THEN nudged[e] + 1 ELSE nudged[e]]
    /\ UNCHANGED <<errand, recent, moved, touches, misses>>

\* A skill or the command line updates a task.
Touch(e, status) ==
    /\ touches < MaxTouches
    /\ touches' = touches + 1
    /\ errand' = [errand EXCEPT ![e] = status]
    /\ recent' = <<e>> \o RemoveAt(recent, Place(e))
    /\ age' = [age EXCEPT ![e] = 0]
    /\ moved' = IF nudged[e] = Unnudged THEN moved ELSE moved \cup {e}
    /\ UNCHANGED <<nudged, due, misses>>

NudgeNext ==
    \/ ProcessOnce \/ PollSleeps
    \/ \E e \in Errand, s \in {"open", "in_progress", "done"} : Touch(e, s)

\* The watcher's loop goes on for as long as the agent lives.
NudgeFairness == WF_nudgeVars(ProcessOnce) /\ WF_nudgeVars(PollSleeps)

NudgeSpec == NudgeInit /\ [][NudgeNext]_nudgeVars /\ NudgeFairness

-----------------------------------------------------------------------------
LeftLying(e) == e \in Listing /\ age[e] >= StaleAfter

\* One task a poll is enough for all of them: a task that stays stale is spoken
\* about, however many others come before it in every poll (TaskNudgeWatcher).
StaleTaskIsNudged == \A e \in Errand : LeftLying(e) ~> (~LeftLying(e) \/ nudged[e] = 0)
=============================================================================
