---------------------------- MODULE IslandSurface ----------------------------
\* The island at the top of the screen: the surface machine
\* (DeskmateCore/IslandStateMachine.swift) inside the store that lets cards peek
\* over what is shown (LiveIslandSurfaceStore.swift), fed by the agent's island
\* intents, by the pointer and by the half-second tick.
\*
\* A card of lower priority than P0 is a transient: it covers the steady surface
\* for a while and further cards queue behind it.  All of it runs on the main
\* thread, so every intent, gesture and tick is one step; the steps of one store
\* are operators on its state, composed where the code calls them in a row.
EXTENDS Naturals, Sequences

CONSTANTS
    Activity,       \* live activities: the editor in front, the build
    Build,          \* the activity of the build, which the demo's clear ends
    Card,           \* cards of priority P1 or P2: agent phases, nudges, tasks
    CardPriority,   \* [Card -> 1 .. 2]
    Approval,       \* approvals a hook asks for: P0 cards
    Question,       \* questions a hook asks: P0 cards
    Elsewhere,      \* approvals and reminders that have a bubble and no card
    Empty,          \* the surface kind .empty
    SessionList,    \* the surface kind .sessionList
    Nothing,        \* nil: no surface, no deadline, no id
    PeekTtl,        \* sneakPeekDuration, in units of time
    AutoDismiss,    \* autoDismissMs, in units of time
    MaxQueue,       \* bound: cards that wait
    MaxCards        \* bound: cards the agent sends

Urgent == Approval \cup Question

ASSUME KindsDisjoint ==
    /\ Activity \cap (Card \cup Urgent \cup Elsewhere) = {}
    /\ Card \cap (Urgent \cup Elsewhere) = {}
    /\ Approval \cap Question = {}
    /\ Urgent \cap Elsewhere = {}
    /\ {Empty, SessionList, Nothing}
          \cap (Activity \cup Card \cup Urgent \cup Elsewhere) = {}
    /\ Empty # SessionList /\ Empty # Nothing /\ SessionList # Nothing
ASSUME BuildIsActivity == Build \in Activity
ASSUME PrioritiesNaturals == CardPriority \in [Card -> 1 .. 2]
ASSUME BoundsNaturals ==
    /\ PeekTtl \in Nat \ {0} /\ AutoDismiss \in Nat /\ PeekTtl < AutoDismiss
    /\ MaxQueue \in Nat /\ MaxCards \in Nat
    /\ Nothing \notin Nat

VARIABLES
    store,      \* the store and the machine in it
    screen,     \* the surface of the last notice to the subscriber that draws
    hovering,   \* hoverOpenWorkItem is pending
    live,       \* activities the agent posted and has not taken down
    detail,     \* the agent's present detail of each activity
    open,       \* approvals and questions that wait for the user
    sent,       \* history: cards sent, for the bound
    quiet,      \* history: the last change of the surface went without a notice
    stray,      \* history: a dismiss that named nothing shown ended a transient
    cleared     \* history: the last step was the demo's clear

vars == <<store, screen, hovering, live, detail, open, sent, quiet, stray, cleared>>

Priority == 0 .. 3

\* A surface: what it shows, and the detail and progress of a live activity,
\* which take two values.  Equality is Swift's == on IslandSurfaceState.
Surface == [what : Activity \cup Card \cup Urgent \cup {Empty, SessionList},
            detail : 0 .. 1]

ASSUME NothingApart == Nothing \notin Surface

Showing(what) == [what |-> what, detail |-> 0]
EmptySurface == Showing(Empty)

\* peek is what is left until peekDeadlineMs (0: passed or none), idle what has
\* passed since lastTouchedMs, as far as the auto-dismiss asks.
Machine == [surface : Surface, priority : Priority, isSneakPeek : BOOLEAN,
            peek : 0 .. PeekTtl, idle : 0 .. AutoDismiss]

\* expires is what is left until transientExpiresAtMs.  queue is the transients'
\* queue in the order in which popNextTransient takes them.
Store == [machine : Machine,
          steady : Surface \cup {Nothing}, steadyPriority : Priority,
          expires : (0 .. PeekTtl) \cup {Nothing},
          queue : Seq(Card)]

-----------------------------------------------------------------------------
\* The machine.

\* A machine built anew around a surface, touched now.
Seat(surface, priority) ==
    [surface |-> surface, priority |-> priority, isSneakPeek |-> FALSE,
     peek |-> 0, idle |-> 0]

\* Only notification cards below P0 peek.  degradationLevel is never set by the
\* application and stays 0.
Peeks(surface, priority) ==
    priority # 0 /\ surface.what \in Card \cup Urgent

\* A surface of lower priority is refused, unless a peek is going on.
Refuses(m, priority) == ~m.isSneakPeek /\ priority > m.priority

MachinePresent(m, surface, priority) ==
    IF Refuses(m, priority) THEN m
    ELSE [Seat(surface, priority) EXCEPT
            !.isSneakPeek = Peeks(surface, priority),
            !.peek = IF Peeks(surface, priority) THEN PeekTtl ELSE 0]

\* id names the shown surface, or is absent and means any.  The peek flag and
\* its deadline stay as they are.
MachineDismiss(m, id) ==
    IF m.surface.what # Empty /\ id \in {Nothing, m.surface.what}
    THEN [m EXCEPT !.surface = EmptySurface, !.priority = 3, !.idle = 0]
    ELSE m

\* A peek collapses at its deadline; what is neither P0 nor P1 goes when it has
\* not been touched for long enough.
MachineTick(m) ==
    CASE m.isSneakPeek /\ m.peek = 0 -> Seat(EmptySurface, 3)
      [] /\ ~(m.isSneakPeek /\ m.peek = 0)
         /\ m.surface.what # Empty /\ m.priority > 1 /\ m.idle = AutoDismiss ->
            [m EXCEPT !.surface = EmptySurface, !.priority = 3, !.idle = 0]
      [] OTHER -> m

-----------------------------------------------------------------------------
\* The store.

Transient(s) == s.expires # Nothing

\* Faulty variant: the cards that wait are forgotten.
UncoveredOnly(s) == [s EXCEPT !.expires = Nothing, !.steady = Nothing]

\* What is left when a transient ends with nothing to follow it.
Uncovered(s) == [s EXCEPT !.expires = Nothing, !.steady = Nothing, !.queue = <<>>]

\* popNextTransient takes the most urgent card and among those the oldest, so a
\* card queues before the first that is less urgent.
Enqueue(queue, c) ==
    LET Yields(i) == CardPriority[queue[i]] > CardPriority[c]
        place == CHOOSE n \in 1 .. (Len(queue) + 1) :
                    /\ n = Len(queue) + 1 \/ Yields(n)
                    /\ \A i \in 1 .. (n - 1) : ~Yields(i)
    IN  SubSeq(queue, 1, place - 1) \o <<c>> \o SubSeq(queue, place, Len(queue))

\* presentTransient and showTransient: a card that changes nothing on the
\* machine, because it was refused or is shown already, is no transient.
PresentTransient(s, c) ==
    LET m == MachinePresent(s.machine, Showing(c), CardPriority[c])
        shown == m.surface # s.machine.surface
    IN  IF Transient(s) THEN [s EXCEPT !.queue = Enqueue(@, c)]
        ELSE [s EXCEPT !.machine = m,
                       !.steady = IF shown THEN s.machine.surface ELSE Nothing,
                       !.steadyPriority = s.machine.priority,
                       !.expires = IF shown THEN PeekTtl ELSE Nothing]

\* present of anything else: under a transient it replaces the covered surface,
\* if it is as urgent; a P0 surface ends all transients.
Present(s, surface, priority) ==
    IF Transient(s) /\ priority # 0
    THEN IF priority > s.steadyPriority THEN s
         ELSE [s EXCEPT !.steady = surface, !.steadyPriority = priority]
    ELSE [Uncovered(s) EXCEPT
            !.machine = MachinePresent(s.machine, surface, priority)]

\* The machine that waiting cards are tried on.
Below(s) == IF s.steady = Nothing THEN s.machine
            ELSE Seat(s.steady, s.steadyPriority)

Showable(s, i) ==
    /\ ~Refuses(Below(s), CardPriority[s.queue[i]])
    /\ Showing(s.queue[i]) # Below(s).surface

\* Faulty variant: the end of a card empties the island.
FinishToEmpty(s) ==
    [Uncovered(s) EXCEPT !.machine = MachineDismiss(s.machine, Nothing)]

\* finishCurrentTransient: the next card that can be shown over the steady
\* surface is; those before it are dropped.  With none the steady surface is
\* restored.
FinishTransient(s) ==
    IF \E i \in 1 .. Len(s.queue) : Showable(s, i)
    THEN LET next == CHOOSE i \in 1 .. Len(s.queue) :
                        /\ Showable(s, i)
                        /\ \A j \in 1 .. (i - 1) : ~Showable(s, j)
             c == s.queue[next]
         IN  [s EXCEPT
                !.machine = MachinePresent(Below(s), Showing(c), CardPriority[c]),
                !.expires = PeekTtl,
                !.queue = SubSeq(@, next + 1, Len(@))]
    ELSE [Uncovered(s) EXCEPT
            !.machine = IF s.steady \in {Nothing, EmptySurface}
                        THEN MachineDismiss(s.machine, Nothing)
                        ELSE Seat(s.steady, s.steadyPriority)]

\* The restore compares with the machine that the dropped cards were tried on,
\* which is the restored one already, and so sends no notice.
FinishesQuietly(s) ==
    /\ s.queue # <<>>
    /\ \A i \in 1 .. Len(s.queue) : ~Showable(s, i)

\* A dismiss under a transient names the card, what it covers, or neither; the
\* last empties queue and cover and leaves the card where it is.
Dismiss(s, id) ==
    CASE Transient(s) /\ id # Nothing /\ id = s.machine.surface.what ->
            FinishTransient(s)
      [] /\ Transient(s) /\ id # Nothing
         /\ s.machine.surface.what # id /\ s.steady # Nothing
         /\ s.steady.what = id ->
            [s EXCEPT !.steady = EmptySurface, !.steadyPriority = 3]
      [] OTHER ->
            [Uncovered(s) EXCEPT !.machine = MachineDismiss(s.machine, id)]

IsStray(s, id) ==
    /\ Transient(s) /\ id # Nothing /\ id # s.machine.surface.what
    /\ s.steady = Nothing \/ s.steady.what # id

\* Faulty variant: only what is shown is updated.
UpdateShown(s, a, d, reseat) ==
    IF s.machine.surface.what # a THEN s
    ELSE [s EXCEPT !.machine.surface.detail = d, !.machine.idle = 0]

\* update: the covered activity, or else the shown one.  A change of progress
\* seats the machine anew (reseat), a change of the text does not.
Update(s, a, d, reseat) ==
    IF Transient(s) /\ s.steady # Nothing /\ s.steady.what = a
    THEN [s EXCEPT !.steady.detail = d]
    ELSE IF s.machine.surface.what # a THEN s
    ELSE [s EXCEPT
            !.machine.surface.detail = d,
            !.machine.idle = 0,
            !.machine.isSneakPeek = @ /\ ~reseat,
            !.machine.peek = IF reseat THEN 0 ELSE @]

\* promoteSneakPeek keeps the card and forgets what it covered.
Promote(s) ==
    IF ~Transient(s) THEN s
    ELSE [Uncovered(s) EXCEPT
            !.machine = IF ~s.machine.isSneakPeek THEN @
                        ELSE [@ EXCEPT !.isSneakPeek = FALSE, !.peek = 0, !.idle = 0]]

OpenList(s) == Present(s, Showing(SessionList), 1)

TickStore(s) ==
    IF s.expires = 0 THEN FinishTransient(s)
    ELSE [s EXCEPT !.machine = MachineTick(@)]

-----------------------------------------------------------------------------
Init ==
    /\ store = [machine |-> [Seat(EmptySurface, 3) EXCEPT !.idle = AutoDismiss],
                steady |-> Nothing, steadyPriority |-> 3,
                expires |-> Nothing, queue |-> <<>>]
    /\ screen = EmptySurface
    /\ hovering = FALSE
    /\ live = {}
    /\ detail = [a \in Activity |-> 0]
    /\ open = {}
    /\ sent = 0
    /\ quiet = FALSE
    /\ stray = FALSE
    /\ cleared = FALSE

\* The store goes over to s.  Subscribers are told when the surface changes,
\* and draw it, unless the change is a restore that compares with itself.
Tell(s, silently) ==
    LET notice == s.machine.surface # store.machine.surface /\ ~silently
    IN  /\ store' = s
        /\ screen' = IF notice THEN s.machine.surface ELSE screen
        /\ quiet' = (silently \/ (quiet /\ ~notice))

Become(s, silently) == Tell(s, silently) /\ cleared' = FALSE

Agent == <<live, detail, open, sent>>

Dismisses(id) ==
    /\ Become(Dismiss(store, id),
              /\ Transient(store) /\ id = store.machine.surface.what
              /\ FinishesQuietly(store))
    /\ stray' = (stray \/ IsStray(store, id))

\* CodingSessionTracker._present, BuildStatusSkill.on_build_start.  The build
\* asks for "p1", which the decoder does not know and takes for P2, like the
\* editor's.
PresentActivity(a) ==
    /\ a \notin live
    /\ live' = live \cup {a}
    /\ Become(Present(store, [what |-> a, detail |-> detail[a]], 2), FALSE)
    /\ UNCHANGED <<hovering, detail, open, sent, stray>>

\* _update_detail, on_build_progress, on_build_done.
UpdateActivity(a) ==
    /\ a \in live
    /\ detail' = [detail EXCEPT ![a] = 1 - @]
    /\ \E reseat \in BOOLEAN :
          Become(Update(store, a, 1 - detail[a], reseat), FALSE)
    /\ UNCHANGED <<hovering, live, open, sent, stray>>

\* CodingSessionTracker._dismiss, BuildStatusSkill._dismiss.
EndActivity(a) ==
    /\ a \in live
    /\ live' = live \ {a}
    /\ Dismisses(a)
    /\ UNCHANGED <<hovering, detail, open, sent>>

\* IslandNotificationPublisher.show_notification below P0.
ShowCard(c) ==
    /\ sent < MaxCards
    /\ Len(store.queue) < MaxQueue
    /\ sent' = sent + 1
    /\ Become(PresentTransient(store, c), FALSE)
    /\ UNCHANGED <<hovering, live, detail, open, stray>>

\* A hook asks for an approval or an answer: a P0 card, past the suppression.
Ask(x) ==
    /\ x \notin open
    /\ open' = open \cup {x}
    /\ Become(Present(store, Showing(x), 0), FALSE)
    /\ UNCHANGED <<hovering, live, detail, sent, stray>>

\* ApprovalRouter step 1 dismisses the card by its id.
ResolveApproval(x) ==
    /\ x \in open \cap Approval
    /\ open' = open \ {x}
    /\ Dismisses(x)
    /\ UNCHANGED <<hovering, live, detail, sent>>

\* SessionInteractionRouter would dismiss last_question_surface_id, but nothing
\* ever sets it: no intent goes out.
AnswerQuestion(q) ==
    /\ q \in open \cap Question
    /\ open' = open \ {q}
    /\ cleared' = FALSE
    /\ UNCHANGED <<store, screen, hovering, live, detail, sent, quiet, stray>>

\* An approval or a reminder with a bubble and no card is answered or done: the
\* agent dismisses its id on the island all the same.
DismissElsewhere(id) ==
    /\ id \in Elsewhere
    /\ Dismisses(id)
    /\ UNCHANGED <<hovering, Agent>>

\* The demo panel's clear: no approval is left and no build, and a dismiss
\* without id follows the build's.
DemoClear ==
    /\ LET buildless == IF Build \in live THEN Dismiss(store, Build) ELSE store
       IN  Tell(Dismiss(buildless, Nothing), FALSE)
    /\ open' = open \ Approval
    /\ live' = live \ {Build}
    /\ cleared' = TRUE
    /\ UNCHANGED <<hovering, detail, sent, stray>>

Expanded == SessionList \in {screen.what, store.machine.surface.what}

\* The pointer enters: a transient gives way to the session list at once, else
\* the list opens after a delay.
HoverEnter ==
    /\ IF Transient(store)
       THEN /\ Become(OpenList(Promote(store)), FALSE)
            /\ UNCHANGED hovering
       ELSE /\ ~Expanded /\ ~hovering
            /\ hovering' = TRUE
            /\ cleared' = FALSE
            /\ UNCHANGED <<store, screen, quiet>>
    /\ UNCHANGED <<Agent, stray>>

HoverOpens ==
    /\ hovering
    /\ hovering' = FALSE
    /\ Become(OpenList(store), FALSE)
    /\ UNCHANGED <<Agent, stray>>

HoverCancels ==
    /\ hovering
    /\ hovering' = FALSE /\ cleared' = FALSE
    /\ UNCHANGED <<store, screen, quiet, Agent, stray>>

\* The approval rows changed and are not empty: they hold the approvals that have
\* no card too, and those are pending as may be.
RowsOpenList ==
    /\ open \cap Approval # {} \/ Elsewhere # {}
    /\ Become(OpenList(store), FALSE)
    /\ UNCHANGED <<hovering, Agent, stray>>

\* A click, a swipe or the pointer's leaving closes the list that is drawn.
CloseList ==
    /\ screen.what = SessionList
    /\ Dismisses(Nothing)
    /\ UNCHANGED <<hovering, Agent>>

\* A tap where no list is drawn opens it.
TapOpensList ==
    /\ screen.what # SessionList
    /\ Become(OpenList(store), FALSE)
    /\ UNCHANGED <<hovering, Agent, stray>>

\* The half-second timer.
Tick ==
    /\ Become(TickStore(store), store.expires = 0 /\ FinishesQuietly(store))
    /\ UNCHANGED <<hovering, Agent, stray>>

\* One unit of time.
Sooner(n) == IF n \in {Nothing, 0} THEN n ELSE n - 1

Pass ==
    /\ store' = [store EXCEPT
         !.expires = Sooner(@),
         !.machine.peek = Sooner(@),
         !.machine.idle = IF @ < AutoDismiss THEN @ + 1 ELSE @]
    /\ cleared' = FALSE
    /\ UNCHANGED <<screen, hovering, Agent, quiet, stray>>

Next ==
    \/ \E a \in Activity : PresentActivity(a) \/ UpdateActivity(a) \/ EndActivity(a)
    \/ \E c \in Card : ShowCard(c)
    \/ \E x \in Urgent : Ask(x)
    \/ \E x \in Approval : ResolveApproval(x)
    \/ \E q \in Question : AnswerQuestion(q)
    \/ \E id \in Elsewhere : DismissElsewhere(id)
    \/ DemoClear
    \/ HoverEnter \/ HoverOpens \/ HoverCancels
    \/ RowsOpenList \/ CloseList \/ TapOpensList
    \/ Tick \/ Pass

Spec == Init /\ [][Next]_vars

\* The timer and time itself go on.
FairSpec == Spec /\ WF_vars(Tick) /\ WF_vars(Pass)

-----------------------------------------------------------------------------
\* Types.
TypeOK ==
    /\ store.machine \in Machine
    /\ store.steady \in Surface \cup {Nothing}
    /\ store.steadyPriority \in Priority
    /\ store.expires \in (0 .. PeekTtl) \cup {Nothing}
    /\ Len(store.queue) <= MaxQueue
    /\ \A i \in 1 .. Len(store.queue) : store.queue[i] \in Card
    /\ screen \in Surface
    /\ hovering \in BOOLEAN
    /\ live \in SUBSET Activity
    /\ detail \in [Activity -> 0 .. 1]
    /\ open \in SUBSET Urgent
    /\ sent \in 0 .. MaxCards
    /\ quiet \in BOOLEAN /\ stray \in BOOLEAN /\ cleared \in BOOLEAN

\* The store and its machine hold one deadline each for the same card.  While the
\* store has one, the machine peeks at a card with the same deadline, what the card
\* covers is remembered and is not pinned above it; and no card waits in the queue
\* when no deadline is left that would bring it up (LiveIslandSurfaceStore.swift,
\* presentTransient, finishCurrentTransient and dismiss).
PeekIsWhole ==
    IF Transient(store)
    THEN /\ store.machine.isSneakPeek
         /\ store.machine.peek = store.expires
         /\ store.machine.surface.what \in Card
         /\ store.steady # Nothing /\ store.steadyPriority # 0
    ELSE store.queue = <<>> /\ store.steady = Nothing

\* What is drawn is still true: an approval's card belongs to an approval that is
\* open, a live activity has not ended and shows its present detail.  The copy under
\* a transient must follow updates and dismissals for that, or the restore brings
\* back what is over (update and dismiss of LiveIslandSurfaceStore.swift).
ShownIsTrue ==
    /\ screen.what \in Approval => screen.what \in open
    /\ screen.what \in Activity =>
          screen.what \in live /\ screen.detail = detail[screen.what]

\* What is drawn is what the store holds, but for one gap: a restore after waiting
\* cards were refused gives no notice (emitSteadyRestore).
ScreenFollows == quiet \/ screen = store.machine.surface

\* The same without the gap.  LiveIslandSurfaceStore.swift:7 says the store notifies
\* subscribers whenever there is a visible change.
ScreenShowsSurface == screen = store.machine.surface

\* A P0 card, an approval or a question, stays on the island until another P0 card
\* replaces it, its approval is resolved, or the demo clears everything: no card, no
\* activity, no session list, no tick and no dismiss of something else removes it
\* (the priority gate of IslandStateMachine.handlePresent, over every path).
PinnedStays ==
    [][store.machine.surface.what \in Urgent
         /\ store'.machine.surface.what # store.machine.surface.what
         => \/ store'.machine.surface.what \in Urgent
            \/ store.machine.surface.what \in open \ open'
            \/ cleared']_vars

\* A live activity that a card covers comes back, unless there is a reason it should
\* not: it ended, the user opened the list, a P0 card came, something as urgent was
\* presented under the card, or everything was cleared, or (the gap) a dismiss of an
\* id that is not shown emptied the cover.
Covered(a) == Transient(store) /\ store.steady.what = a

CoverComesBack ==
    [][\A a \in Activity :
         Covered(a) /\ ~Covered(a)'
         => \/ store'.machine.surface.what \in Urgent \cup {a, SessionList}
            \/ a \notin live'
            \/ store'.steady # Nothing
            \/ stray'
            \/ cleared']_vars

\* A card below P0 does not stay: a deadline, in the store or in the machine, takes
\* it down, but for the gap of CoverComesBack, after which it can be taken for the
\* steady surface of the next card.
CardLeaves ==
    \A c \in Card : store.machine.surface.what = c
                       ~> (store.machine.surface.what # c \/ stray)
=============================================================================
