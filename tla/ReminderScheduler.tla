--------------------------- MODULE ReminderScheduler ---------------------------
(***************************************************************************)
(* ReminderStore and the ReminderScheduler loop that fires what is due     *)
(* (reminders/store, reminders/scheduler), the chat skills that add and    *)
(* cancel reminders, the demo panel, which runs process_due in its own     *)
(* handler beside the loop's, and the bubble a fired reminder leaves on    *)
(* the client with its Done button (app._handle_interaction).              *)
(***************************************************************************)
EXTENDS Naturals, FiniteSets

CONSTANTS
    Reminder,  \* reminder ids; a skill's are minted fresh
    Demo,      \* the demo panel's reminder id
    MaxClock,   \* bound: the clock
    MaxDemos,  \* bound: times the demo panel adds its reminder
    MaxClicks  \* bound: reminders whose Done button is clicked

ASSUME ReminderAssumption ==
    /\ Demo \in Reminder
    /\ {MaxClock, MaxDemos, MaxClicks} \subseteq Nat

Instant == 0..MaxClock
Caller == {"loop", "demo"}
Status == {"none", "pending", "fired", "cancelled"}
LoopState == {"top", "processing", "blocked", "timed"}

VARIABLES
    status,    \* ReminderStore._by_id[r].status
    dueAt,     \* Reminder.due_at_ms
    clock,     \* time, in steps of the delays that occur
    wake,      \* ReminderScheduler._wake is set
    loop,      \* where _run stands
    deadline,  \* when the loop's wait_for times out, 0 outside of it
    todo,      \* what is left of the list_due each process_due call iterates over
    busy,      \* a demo trigger is inside process_due
    bubbles,   \* reminder bubbles on the client; they have no ttl
    done,      \* history: reminders whose Done button was clicked
    adds,      \* history: how often each reminder was added
    fires      \* history: how often each reminder was fired

store == <<status, dueAt>>
scheduler == <<loop, deadline>>
history == <<done, adds, fires>>
reminderVars == <<store, clock, wake, scheduler, todo, busy, bubbles, history>>

ReminderTypeOK ==
    /\ status \in [Reminder -> Status]
    /\ dueAt \in [Reminder -> Instant]
    /\ clock \in Instant
    /\ wake \in BOOLEAN
    /\ loop \in LoopState
    /\ deadline \in Instant
    /\ todo \in [Caller -> SUBSET Reminder]
    /\ busy \in BOOLEAN
    /\ bubbles \subseteq Reminder
    /\ done \subseteq Reminder
    /\ adds \in [Reminder -> 0..MaxDemos + 1]
    /\ fires \in [Reminder -> Nat]

ReminderInit ==
    /\ status = [r \in Reminder |-> "none"]
    /\ dueAt = [r \in Reminder |-> 0]
    /\ clock = 0
    /\ wake = FALSE
    /\ loop = "top"
    /\ deadline = 0
    /\ todo = [c \in Caller |-> {}]
    /\ busy = FALSE
    /\ bubbles = {}
    /\ done = {}
    /\ adds = [r \in Reminder |-> 0]
    /\ fires = [r \in Reminder |-> 0]

-----------------------------------------------------------------------------
(***************************************************************************)
(* The store.                                                              *)
(***************************************************************************)

Pending == {r \in Reminder : status[r] = "pending"}

\* list_due
Due == {r \in Pending : dueAt[r] <= clock}

\* add: a known id is replaced.
Insert(r, due) ==
    /\ status' = [status EXCEPT ![r] = "pending"]
    /\ dueAt' = [dueAt EXCEPT ![r] = due]
    /\ adds' = [adds EXCEPT ![r] = @ + 1]

\* Faulty variant: the scheduler is not told.
AddQuietly(r, due) ==
    /\ r # Demo /\ adds[r] = 0
    /\ due > clock
    /\ Insert(r, due)
    /\ UNCHANGED <<clock, wake, scheduler, todo, busy, bubbles, done, fires>>

\* Chat or a tool schedules a reminder after a delay; the event wakes the loop.
Add(r, due) ==
    /\ r # Demo /\ adds[r] = 0
    /\ due > clock
    /\ Insert(r, due)
    /\ wake' = TRUE
    /\ UNCHANGED <<clock, scheduler, todo, busy, bubbles, done, fires>>

\* cancel: whatever the reminder's state, fired and cancelled ones included.
Cancel(r) ==
    /\ status[r] # "none"
    /\ status' = [status EXCEPT ![r] = "cancelled"]
    /\ wake' = TRUE
    /\ UNCHANGED <<dueAt, clock, scheduler, todo, busy, bubbles, history>>

\* The demo panel's clear forgets all reminders and tells nobody.
DemoClear ==
    /\ status' = [r \in Reminder |-> "none"]
    /\ dueAt' = [r \in Reminder |-> 0]
    /\ UNCHANGED <<clock, wake, scheduler, todo, busy, bubbles, history>>

-----------------------------------------------------------------------------
(***************************************************************************)
(* process_due, from one sink await to the next.                           *)
(***************************************************************************)

\* Faulty variant: what list_due returned is fired without another look.
StillListed(c) == todo[c]

\* mark_fired gates on the status the reminder has now.
StillPending(c) == todo[c] \cap Pending

\* The next reminder is fired.  Its bubble is lost when no client is connected.
Fire(c) ==
    \E r \in StillPending(c) :
        /\ \A q \in StillPending(c) : dueAt[r] <= dueAt[q]
        /\ status' = [status EXCEPT ![r] = "fired"]
        /\ fires' = [fires EXCEPT ![r] = @ + 1]
        /\ wake' = TRUE
        /\ todo' = [todo EXCEPT ![c] = @ \ {r}]
        /\ \E arrived \in {{}, {r}} : bubbles' = bubbles \cup arrived
        /\ UNCHANGED <<dueAt, clock, scheduler, busy, done, adds>>

\* The demo trigger adds a reminder that is due and processes what is due.
DemoReminder ==
    /\ ~busy
    /\ adds[Demo] < MaxDemos
    /\ Insert(Demo, clock)
    /\ wake' = TRUE
    /\ busy' = TRUE
    /\ todo' = [todo EXCEPT !["demo"] = Due \cup {Demo}]
    /\ UNCHANGED <<clock, scheduler, bubbles, done, fires>>

DemoFires == busy /\ Fire("demo")

DemoEnds ==
    /\ busy
    /\ StillPending("demo") = {}
    /\ busy' = FALSE
    /\ todo' = [todo EXCEPT !["demo"] = {}]
    /\ UNCHANGED <<store, clock, wake, scheduler, bubbles, history>>

-----------------------------------------------------------------------------
(***************************************************************************)
(* _run.  The step to "top" and the step from it are one in the code; what *)
(* is between them is read again at the top.                               *)
(***************************************************************************)

ListDue ==
    /\ loop = "top"
    /\ loop' = "processing"
    /\ todo' = [todo EXCEPT !["loop"] = Due]
    /\ UNCHANGED <<store, clock, wake, deadline, busy, bubbles, history>>

LoopFires == loop = "processing" /\ Fire("loop")

\* next_due_at
Earliest(t) == (\E r \in Pending : dueAt[r] = t) /\ \A r \in Pending : t <= dueAt[r]

\* Nothing more is due: the loop goes on at once when it was woken meanwhile or a
\* reminder is due by now, and sleeps otherwise.
Sleep ==
    /\ loop = "processing"
    /\ StillPending("loop") = {}
    /\ todo' = [todo EXCEPT !["loop"] = {}]
    /\ \/ /\ wake \/ Due # {}
          /\ loop' = "top"
          /\ wake' = (wake /\ Due # {})
          /\ UNCHANGED deadline
       \/ /\ ~wake
          /\ Pending = {}
          /\ loop' = "blocked"
          /\ UNCHANGED <<wake, deadline>>
       \/ /\ ~wake
          /\ Due = {}
          /\ \E t \in Instant : Earliest(t) /\ deadline' = t
          /\ loop' = "timed"
          /\ UNCHANGED wake
    /\ UNCHANGED <<store, clock, busy, bubbles, history>>

\* The event is set: the wait is over, and the event is cleared.
Woken ==
    /\ loop \in {"blocked", "timed"}
    /\ wake
    /\ wake' = FALSE
    /\ loop' = "top"
    /\ deadline' = 0
    /\ UNCHANGED <<store, clock, todo, busy, bubbles, history>>

\* wait_for times out; an event that is set by then stays set.
TimesOut ==
    /\ loop = "timed"
    /\ deadline <= clock
    /\ loop' = "top"
    /\ deadline' = 0
    /\ UNCHANGED <<store, clock, wake, todo, busy, bubbles, history>>

-----------------------------------------------------------------------------

\* Done sends surface.dismiss, on which the agent dismisses an island card; the
\* bubble and the store are left alone on both sides.
ClickDone(r) ==
    /\ r \in bubbles
    /\ Cardinality(done \cup {r}) <= MaxClicks
    /\ done' = done \cup {r}
    /\ UNCHANGED <<store, clock, wake, scheduler, todo, busy, bubbles, adds, fires>>

Tick ==
    /\ clock < MaxClock
    /\ clock' = clock + 1
    /\ UNCHANGED <<store, wake, scheduler, todo, busy, bubbles, history>>

LoopStep == ListDue \/ LoopFires \/ Sleep \/ Woken \/ TimesOut

ReminderNext ==
    \/ \E r \in Reminder, t \in Instant : Add(r, t)
    \/ \E r \in Reminder : Cancel(r) \/ ClickDone(r)
    \/ DemoClear
    \/ DemoReminder
    \/ DemoFires
    \/ DemoEnds
    \/ LoopStep
    \/ Tick

ReminderSpec == ReminderInit /\ [][ReminderNext]_reminderVars

\* The event loop resumes the scheduler's task and the demo's handler.
ReminderFairSpec == ReminderSpec /\ WF_reminderVars(LoopStep) /\ WF_reminderVars(DemoFires \/ DemoEnds)

-----------------------------------------------------------------------------
(***************************************************************************)
(* Properties.                                                             *)
(***************************************************************************)

\* A reminder fires at most once for each time it was added, though the loop and a
\* demo trigger iterate over overlapping lists of due reminders.
FiresOncePerAdd == \A r \in Reminder : fires[r] <= adds[r]

\* Nothing fires that was cancelled or forgotten after it was listed as due, and
\* nothing fires early.
OnlyDueFires ==
    [][\A r \in Reminder : fires'[r] > fires[r] => r \in Due]_reminderVars

\* The scheduler never sleeps past a reminder: a sleep that would is interrupted,
\* the event for it being set already.
SleepsNoLonger ==
    loop \in {"blocked", "timed"} /\ ~wake =>
        \A r \in Pending : loop = "timed" /\ deadline <= dueAt[r]

\* A reminder that is due is fired, unless it is cancelled or cleared first.
DueReminderFires ==
    \A r \in Reminder : r \in Due ~> status[r] # "pending"

\* reminders/scheduler.py gives the bubble no ttl because reminders stay until the
\* user dismisses them; Done is how the bubble offers to.
DoneDismissesBubble ==
    \A r \in Reminder : r \in done ~> r \notin bubbles
=============================================================================
