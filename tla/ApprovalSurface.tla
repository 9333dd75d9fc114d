---------------------------- MODULE ApprovalSurface ----------------------------
(***************************************************************************)
(* From the approval store to the screen.  ApprovalSurfacePublisher        *)
(* (approvals/surface) turns every store event into a task that sends one  *)
(* show or dismiss intent; the bridge carries the intents in order while a *)
(* client is connected and loses them otherwise; on the Swift side         *)
(* bindBubbleQueue feeds them to BubbleQueue, and the pet shows what       *)
(* BubbleQueue.peek returned when the queue last changed.                  *)
(*                                                                         *)
(* Approvals share the queue with the bubbles of every other sender, which *)
(* are modelled as chat bubbles that expire.                               *)
(***************************************************************************)
EXTENDS BubbleQueue, FiniteSetsExt, SequencesExt

CONSTANTS
    Approval,   \* approval ids; the bubble of a is "approval-a"
    Demo,       \* the demo panel's approval id
    Chat,       \* ids of the other senders' bubbles
    RankOf,     \* Priority of a bubble: 0 for P0 ... 3 for P3
    MaxActive,  \* BubbleQueue.maxActive, 3 in DeskmateShell.Configuration
    MaxAsks,    \* bound: times an approval id is asked, 1 for an id minted fresh
    MaxChats,   \* bound: chat bubbles sent
    MaxDrops    \* bound: times the connection is lost

ASSUME SurfaceAssumption ==
    /\ Demo \in Approval
    /\ Chat \cap Approval = {} /\ "nothing" \notin Approval \cup Chat
    /\ RankOf \in [Approval \cup Chat -> 0..3]
    /\ MaxActive \in Nat \ {0}
    /\ MaxAsks \in [Approval -> Nat]
    /\ {MaxChats, MaxDrops} \subseteq Nat

Bubble == Approval \cup Chat
Message == [kind : {"show", "dismiss"}, id : Bubble, prompt : Nat]
Emission == [kind : {"show", "dismiss"}, id : Approval, prompt : Nat]
Entry == [id : Bubble, prompt : Nat, expired : BOOLEAN]
Nothing == [id |-> "nothing", prompt |-> 0, expired |-> FALSE]

VARIABLES
    status,     \* ApprovalStore._by_id[a].status
    prompt,     \* Approval.prompt, numbered by the times a was asked
    emissions,  \* ApprovalSurfacePublisher._pending: tasks not yet run, in order
    wire,       \* intents in the batcher or the socket
    connected,  \* a client is connected
    bubbles,    \* BubbleQueue.entries
    shown,      \* DeskmateMenuBarRuntime.currentBubble
    missed,     \* history: approvals of which an intent was lost
    evicted,    \* history: approvals whose bubble the full queue dropped
    cleared,    \* history: the demo panel forgot all approvals
    chats,      \* history: chat bubbles sent
    drops       \* history: connections lost

agent == <<status, prompt, emissions>>
client == <<bubbles, shown>>
vars == <<agent, wire, connected, client, missed, evicted, cleared, chats, drops>>

TypeOK ==
    /\ status \in [Approval -> {"none", "pending", "resolved"}]
    /\ prompt \in [Approval -> Nat]
    /\ emissions \in Seq(Emission)
    /\ wire \in Seq(Message)
    /\ connected \in BOOLEAN
    /\ bubbles \in Seq(Entry) /\ Len(bubbles) <= MaxActive
    /\ shown \in Entry \cup {Nothing}
    /\ missed \subseteq Approval /\ evicted \subseteq Approval
    /\ cleared \in BOOLEAN
    /\ chats \in 0..MaxChats /\ drops \in 0..MaxDrops

Init ==
    /\ status = [a \in Approval |-> "none"]
    /\ prompt = [a \in Approval |-> 0]
    /\ emissions = <<>> /\ wire = <<>>
    /\ connected = TRUE
    /\ bubbles = <<>> /\ shown = Nothing
    /\ missed = {} /\ evicted = {} /\ cleared = FALSE
    /\ chats = 0 /\ drops = 0

-----------------------------------------------------------------------------
(***************************************************************************)
(* The store and its subscriber.                                           *)
(***************************************************************************)

\* _on_event: one task per event; tasks start in the order they are created.
OnEvent(kind, a, text) ==
    emissions' = Append(emissions, [kind |-> kind, id |-> a, prompt |-> text])

\* ApprovalStore.add: a new id, or the record of a known one replaced.
Add(a) ==
    /\ prompt[a] < MaxAsks[a]
    /\ status' = [status EXCEPT ![a] = "pending"]
    /\ prompt' = [prompt EXCEPT ![a] = @ + 1]
    /\ OnEvent("show", a, prompt[a] + 1)
    /\ UNCHANGED <<wire, connected, client, missed, evicted, cleared, chats, drops>>

\* ApprovalStore.resolve, clicked on the bubble, the menu or the island.
Resolve(a) ==
    /\ status[a] = "pending"
    /\ status' = [status EXCEPT ![a] = "resolved"]
    /\ OnEvent("dismiss", a, prompt[a])
    /\ UNCHANGED <<prompt, wire, connected, client, missed, evicted, cleared, chats, drops>>

\* The demo panel's clear: cancel of the demo approval, then ApprovalStore.clear,
\* which tells no subscriber.
DemoClear ==
    /\ status' = [a \in Approval |-> "none"]
    /\ IF status[Demo] = "pending" THEN OnEvent("dismiss", Demo, prompt[Demo]) ELSE UNCHANGED emissions
    /\ cleared' = TRUE
    /\ UNCHANGED <<prompt, wire, connected, client, missed, evicted, chats, drops>>

-----------------------------------------------------------------------------
(***************************************************************************)
(* The bridge.                                                             *)
(***************************************************************************)

\* Faulty variant: the task created last runs first.
EmitLatest ==
    /\ emissions # <<>>
    /\ emissions' = Front(emissions)
    /\ IF connected
       THEN wire' = Append(wire, Last(emissions)) /\ UNCHANGED missed
       ELSE missed' = missed \cup {Last(emissions).id} /\ UNCHANGED wire
    /\ UNCHANGED <<status, prompt, connected, client, evicted, cleared, chats, drops>>

\* _emit: without a client send raises, the task logs it and the intent is lost.
Emit ==
    /\ emissions # <<>>
    /\ emissions' = Tail(emissions)
    /\ IF connected
       THEN wire' = Append(wire, Head(emissions)) /\ UNCHANGED missed
       ELSE missed' = missed \cup {Head(emissions).id} /\ UNCHANGED wire
    /\ UNCHANGED <<status, prompt, connected, client, evicted, cleared, chats, drops>>

\* Any other sender shows a bubble of its own.
ShowChat(c) ==
    /\ connected /\ chats < MaxChats
    /\ chats' = chats + 1
    /\ wire' = Append(wire, [kind |-> "show", id |-> c, prompt |-> 0])
    /\ UNCHANGED <<agent, connected, client, missed, evicted, cleared, drops>>

\* The connection is lost, and with it what was buffered or under way.
Disconnect ==
    /\ connected /\ drops < MaxDrops
    /\ connected' = FALSE
    /\ drops' = drops + 1
    /\ missed' = missed \cup ({m.id : m \in ToSet(wire)} \cap Approval)
    /\ wire' = <<>>
    /\ UNCHANGED <<agent, client, evicted, cleared, chats>>

\* The snapshot that greets the client names the pending approvals for its list;
\* it holds no bubble, and the client keeps the bubbles it has.
Reconnect ==
    /\ ~connected
    /\ connected' = TRUE
    /\ UNCHANGED <<agent, wire, client, missed, evicted, cleared, chats, drops>>

-----------------------------------------------------------------------------
(***************************************************************************)
(* BubbleQueue on the client.  Entries are in insertion order.             *)
(***************************************************************************)

Rank(b) == RankOf[b.id]

\* Faulty variant: priority ranks compared the wrong way round.
PeekWorst(q) ==
    LET live == Unexpired(q)
        best == {i \in DOMAIN live : \A j \in DOMAIN live : Rank(live[i]) >= Rank(live[j])}
    IN IF best = {} THEN Nothing ELSE live[Max(best)]

\* peek: the most urgent entry that has not expired, the oldest of them.
Peek(q) ==
    LET live == Unexpired(q)
        best == {i \in DOMAIN live : \A j \in DOMAIN live : Rank(live[i]) <= Rank(live[j])}
    IN IF best = {} THEN Nothing ELSE live[Min(best)]

\* evictLowestPriorityOldest
Victim(q) ==
    Min({i \in DOMAIN q : \A j \in DOMAIN q : Rank(q[j]) <= Rank(q[i])})

\* enqueue, before the cap
Enqueue(q, entry) == Append(Unexpired(q), entry)

\* The entries that are left of q when the cap is enforced.
Capped(q) == IF Len(q) > MaxActive THEN EntriesAt(q, DOMAIN q \ {Victim(q)}) ELSE q

\* bindBubbleQueue, then the menu-bar subscriber of LiveBubbleQueue.  An approval
\* is evicted when the cap drops the only entry it had.
ShowBubble(msg) ==
    LET entry == [id |-> msg.id, prompt |-> msg.prompt, expired |-> FALSE]
        full == Enqueue(bubbles, entry)
    IN /\ bubbles' = Capped(full)
       /\ shown' = Peek(bubbles')
       /\ evicted' = evicted \cup
            (Approval \cap ({b.id : b \in ToSet(full)} \ {b.id : b \in ToSet(bubbles')}))

\* dismiss notifies the subscriber only when something was removed.
DismissBubble(msg) ==
    /\ bubbles' = RemoveId(bubbles, msg.id)
    /\ shown' = IF bubbles' = bubbles THEN shown ELSE Peek(bubbles')
    /\ UNCHANGED evicted

\* The client reads the next intent.
Deliver ==
    /\ wire # <<>>
    /\ wire' = Tail(wire)
    /\ LET msg == Head(wire)
       IN \/ msg.kind = "show" /\ ShowBubble(msg)
          \/ msg.kind = "dismiss" /\ DismissBubble(msg)
    /\ UNCHANGED <<agent, connected, missed, cleared, chats, drops>>

\* A bubble's ttl elapses; nobody prunes or is told.  Approvals have none.
Expire(i) ==
    /\ bubbles[i].id \in Chat
    /\ ~bubbles[i].expired
    /\ bubbles' = [bubbles EXCEPT ![i].expired = TRUE]
    /\ UNCHANGED <<agent, wire, connected, shown, missed, evicted, cleared, chats, drops>>

-----------------------------------------------------------------------------

Next ==
    \/ \E a \in Approval : Add(a) \/ Resolve(a)
    \/ DemoClear
    \/ Emit
    \/ \E c \in Chat : ShowChat(c)
    \/ Disconnect
    \/ Reconnect
    \/ Deliver
    \/ \E i \in DOMAIN bubbles : Expire(i)

Spec == Init /\ [][Next]_vars

\* The loop runs its tasks, the client reads its socket; it need not reconnect.
FairSpec == Spec /\ WF_vars(Emit) /\ WF_vars(Deliver)

-----------------------------------------------------------------------------
(***************************************************************************)
(* Properties.                                                             *)
(***************************************************************************)

Queued(a) == \E b \in ToSet(bubbles) : b.id = a

\* What the client will hold of approval a when it has read all that is under way.
WillBeQueued(a) ==
    LET pipe == wire \o emissions
        said == {i \in DOMAIN pipe : pipe[i].id = a}
    IN IF said = {} THEN Queued(a) ELSE pipe[Max(said)].kind = "show"

\* The bubbles converge to the store: whatever events are under way, an approval
\* ends up in the queue exactly when it is pending, unless one of its intents was
\* lost, the cap dropped its bubble, or the demo panel's clear forgot it.
BubblesFollowStore ==
    \A a \in Approval \ (missed \cup evicted) :
        ~cleared => (WillBeQueued(a) <=> status[a] = "pending")

\* No bubble on the client waits behind a less urgent one on the screen, however
\* bubbles arrive, expire and are evicted.
UrgentBubbleIsShown ==
    \A b \in ToSet(bubbles) :
        ~b.expired => shown # Nothing /\ Rank(shown) <= Rank(b)

\* Overflow never costs a bubble more urgent than one that stays: a live bubble
\* leaves the queue only by its own dismissal or as one of the least urgent.
EvictionSparesUrgent ==
    [][\A b \in ToSet(bubbles) \ ToSet(bubbles') :
            \/ b.expired
            \/ UNCHANGED wire
            \/ Head(wire) = [kind |-> "dismiss", id |-> b.id, prompt |-> Head(wire).prompt]
            \/ \A kept \in ToSet(bubbles') : Rank(kept) <= Rank(b)]_vars

\* The bubble of an answered approval leaves the client, unless the approval is
\* asked again or an intent of it was lost.
AnsweredBubbleLeaves ==
    \A a \in Approval :
        status[a] = "resolved" ~> ~Queued(a) \/ status[a] = "pending" \/ a \in missed

Quiet == connected /\ emissions = <<>> /\ wire = <<>>

\* approvals/surface.py promises that an approval's surfacing and dismissing
\* round-trip cleanly even across reconnects.
BubblesSurviveReconnect ==
    Quiet /\ ~cleared =>
        \A a \in Approval \ evicted : Queued(a) <=> status[a] = "pending"
=============================================================================
