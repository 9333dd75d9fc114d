------------------------------ MODULE DomainSync ------------------------------
(***************************************************************************)
(* How the client's DomainState follows the agent's stores.                *)
(* DomainStateProjector (projector) coalesces store events into a drain    *)
(* task that emits the newest projection; snapshots of the same state are  *)
(* built and sent past it, to greet a client, on its request and after     *)
(* changes nobody emits deltas for (app._build_snapshot); on the Swift     *)
(* side both are applied in the order they arrive (bindDomainState,        *)
(* SnapshotHydrator).                                                      *)
(*                                                                         *)
(* Of the projected fields the module keeps the pending approvals, the     *)
(* attention derived from them and the sessions, and the degradation       *)
(* level; today's coding time takes the level's way with another value.    *)
(***************************************************************************)
EXTENDS Integers, Sequences, SequencesExt

CONSTANTS
    Approval,   \* approval ids
    Level,      \* degradation levels that callers ask for
    Builder,    \* tasks that build snapshots: client handlers, reapers, runtimes
    None,       \* no projection was emitted yet
    MaxChanges, \* bound: changes of the stores
    MaxPushes,  \* bound: snapshots other than greetings
    MaxDrops    \* bound: connections lost

ASSUME SyncAssumption ==
    /\ Level \subseteq Int
    /\ {MaxChanges, MaxPushes, MaxDrops} \subseteq Nat

Attention == {"alert", "working", "idle"}
DomainState == [pending : SUBSET Approval, attention : Attention, level : 0..6]
ASSUME NoneAssumption == None \notin DomainState
DrainState == {"none", "scheduled", "sending"}
BuilderState == {"idle", "reading_sessions", "reading_tasks"}
Message == [kind : {"delta", "snapshot"}, domain : DomainState, rows : SUBSET Approval]

VARIABLES
    pending,   \* ApprovalStore.pending_ids
    active,    \* SessionStore.list_active is not empty
    level,     \* DomainStateProjector._degradation_level
    dirty,     \* _dirty
    drain,     \* _drain_task: not there or done, created, or awaiting the sink
    emitted,   \* _last_emitted
    builder,   \* where each snapshot builder awaits a database
    rows,      \* pending_approvals_detail of the snapshot each builder holds
    connected, \* a client is connected
    greeted,   \* history: the connection's greeting snapshot was sent
    wire,      \* deltas and snapshots in the batcher or the socket
    screen,    \* LiveDomainStateStore on the client
    list,      \* LivePendingApprovalsStore on the client
    bypassed,  \* history: a snapshot showed the client what no drain has emitted
    changes, pushes, drops   \* history: how often each happened

stores == <<pending, active, level>>
projector == <<dirty, drain, emitted>>
builders == <<builder, rows>>
client == <<screen, list>>
counts == <<changes, pushes, drops>>
vars == <<stores, projector, builders, connected, greeted, wire, client, bypassed, counts>>

-----------------------------------------------------------------------------
(***************************************************************************)
(* Projection.                                                             *)
(***************************************************************************)

\* _project and _project_attention.
Project ==
    [pending |-> pending,
     attention |-> IF pending # {} THEN "alert" ELSE IF active THEN "working" ELSE "idle",
     level |-> level]

Blank == [pending |-> {}, attention |-> "idle", level |-> 0]

TypeOK ==
    /\ pending \subseteq Approval /\ active \in BOOLEAN /\ level \in 0..6
    /\ dirty \in BOOLEAN /\ drain \in DrainState
    /\ emitted \in DomainState \cup {None}
    /\ builder \in [Builder -> BuilderState]
    /\ rows \in [Builder -> SUBSET Approval]
    /\ connected \in BOOLEAN /\ greeted \in BOOLEAN
    /\ wire \in Seq(Message)
    /\ screen \in DomainState /\ list \subseteq Approval
    /\ bypassed \in BOOLEAN
    /\ changes \in 0..MaxChanges /\ pushes \in 0..MaxPushes /\ drops \in 0..MaxDrops

Init ==
    /\ pending = {} /\ active = FALSE /\ level = 0
    /\ dirty = FALSE /\ drain = "none" /\ emitted = None
    /\ builder = [b \in Builder |-> "idle"]
    /\ rows = [b \in Builder |-> {}]
    /\ connected = FALSE /\ greeted = FALSE /\ wire = <<>>
    /\ screen = Blank /\ list = {}
    /\ bypassed = FALSE
    /\ changes = 0 /\ pushes = 0 /\ drops = 0

-----------------------------------------------------------------------------
(***************************************************************************)
(* Store events.                                                           *)
(***************************************************************************)

\* Faulty variant: nothing is noted while a drain is under way.
KickOnce ==
    IF drain = "none" THEN dirty' = TRUE /\ drain' = "scheduled"
    ELSE UNCHANGED <<dirty, drain>>

\* _kick: a drain that is under way will find the flag.
Kick ==
    /\ dirty' = TRUE
    /\ drain' = IF drain = "none" THEN "scheduled" ELSE drain

Change ==
    /\ changes < MaxChanges
    /\ changes' = changes + 1
    /\ Kick
    /\ UNCHANGED <<emitted, builders, connected, greeted, wire, client, bypassed, pushes, drops>>

\* ApprovalStore.add of an id that is not pending, and resolve or cancel.
AddApproval(a) ==
    /\ a \notin pending
    /\ pending' = pending \cup {a}
    /\ Change
    /\ UNCHANGED <<active, level>>

ResolveApproval(a) ==
    /\ a \in pending
    /\ pending' = pending \ {a}
    /\ Change
    /\ UNCHANGED <<active, level>>

\* A session becomes active, or the last one closes (SessionStore events).
SessionChanges ==
    /\ active' = ~active
    /\ Change
    /\ UNCHANGED <<pending, level>>

\* max(0, min(6, level))
Clamped(n) == IF n < 0 THEN 0 ELSE IF n > 6 THEN 6 ELSE n

\* set_degradation_level: an unchanged level kicks nothing.
SetDegradationLevel(n) ==
    /\ Clamped(n) # level
    /\ level' = Clamped(n)
    /\ Change
    /\ UNCHANGED <<pending, active>>

-----------------------------------------------------------------------------
(***************************************************************************)
(* The drain.                                                              *)
(***************************************************************************)

\* BridgeServer.send of one message: without a client it raises.
Send(message) == wire' = IF connected THEN Append(wire, message) ELSE wire

Delta == [kind |-> "delta", domain |-> Project, rows |-> {}]

\* One iteration of _drain: emit what is new.  The loop goes on when the sink
\* returns, sent or not.
DrainEmits ==
    /\ drain # "none" /\ dirty
    /\ Project # emitted
    /\ dirty' = FALSE
    /\ drain' = "sending"
    /\ emitted' = Project
    /\ Send(Delta)
    /\ bypassed' = (bypassed /\ ~connected)
    /\ UNCHANGED <<stores, builders, connected, greeted, client, counts>>

\* Faulty variant: the flag is cleared after the sink returned.
DrainEndsClearing ==
    /\ drain # "none"
    /\ dirty => Project = emitted \/ drain = "sending"
    /\ dirty' = FALSE
    /\ drain' = "none"
    /\ UNCHANGED <<stores, emitted, builders, connected, greeted, wire, client, bypassed, counts>>

\* Nothing changed since the last iteration, or what changed is what was emitted
\* last: the loop ends.
DrainEnds ==
    /\ drain # "none"
    /\ dirty => Project = emitted
    /\ dirty' = FALSE
    /\ drain' = "none"
    /\ UNCHANGED <<stores, emitted, builders, connected, greeted, wire, client, bypassed, counts>>

-----------------------------------------------------------------------------
(***************************************************************************)
(* Snapshots.                                                              *)
(***************************************************************************)

\* A builder starts: it reads the recent sessions from the database.
StartSnapshot(b) ==
    /\ builder[b] = "idle"
    /\ builder' = [builder EXCEPT ![b] = "reading_sessions"]

\* A request of the client, the reaper, a runtime scan or a changed task list.
PushSnapshot(b) ==
    /\ connected /\ pushes < MaxPushes
    /\ pushes' = pushes + 1
    /\ StartSnapshot(b)
    /\ UNCHANGED <<stores, projector, rows, connected, greeted, wire, client, bypassed, changes, drops>>

\* A client connects; its handler's connect hook greets it with a snapshot.
Connect(b) ==
    /\ ~connected
    /\ connected' = TRUE
    /\ StartSnapshot(b)
    /\ UNCHANGED <<stores, projector, rows, greeted, wire, client, bypassed, counts>>

\* The sessions are read: the approval rows are taken now, then the task list is
\* read from the database.
CollectRows(b) ==
    /\ builder[b] = "reading_sessions"
    /\ builder' = [builder EXCEPT ![b] = "reading_tasks"]
    /\ rows' = [rows EXCEPT ![b] = pending]
    /\ UNCHANGED <<stores, projector, connected, greeted, wire, client, bypassed, counts>>

Snapshot(b) == [kind |-> "snapshot", domain |-> Project, rows |-> rows[b]]

\* The tasks are read: the domain state is projected now, and all is sent.
SendSnapshot(b) ==
    /\ builder[b] = "reading_tasks"
    /\ builder' = [builder EXCEPT ![b] = "idle"]
    /\ rows' = [rows EXCEPT ![b] = {}]
    /\ Send(Snapshot(b))
    /\ greeted' = (greeted \/ connected)
    /\ bypassed' = IF connected THEN emitted # None /\ Project # emitted ELSE bypassed
    /\ UNCHANGED <<stores, projector, connected, client, counts>>

\* The connection is lost with what is under way; builders go on.
Disconnect ==
    /\ connected /\ drops < MaxDrops
    /\ drops' = drops + 1
    /\ connected' = FALSE
    /\ greeted' = FALSE
    /\ wire' = <<>>
    /\ UNCHANGED <<stores, projector, builders, client, bypassed, changes, pushes>>

-----------------------------------------------------------------------------

\* The client applies a delta to its domain state, a snapshot to its lists too.
Deliver ==
    /\ wire # <<>>
    /\ wire' = Tail(wire)
    /\ screen' = Head(wire).domain
    /\ list' = IF Head(wire).kind = "snapshot" THEN Head(wire).rows ELSE list
    /\ UNCHANGED <<stores, projector, builders, connected, greeted, bypassed, counts>>

Next ==
    \/ \E a \in Approval : AddApproval(a) \/ ResolveApproval(a)
    \/ SessionChanges
    \/ \E n \in Level : SetDegradationLevel(n)
    \/ DrainEmits
    \/ DrainEnds
    \/ \E b \in Builder : PushSnapshot(b) \/ Connect(b) \/ CollectRows(b) \/ SendSnapshot(b)
    \/ Disconnect
    \/ Deliver

Spec == Init /\ [][Next]_vars

\* The loop resumes the drain and the builders; the client reads its socket.  No
\* client has to connect.
FairSpec ==
    /\ Spec
    /\ WF_vars(DrainEmits \/ DrainEnds)
    /\ WF_vars(Deliver)
    /\ \A b \in Builder : WF_vars(CollectRows(b) \/ SendSnapshot(b))

-----------------------------------------------------------------------------
(***************************************************************************)
(* Properties.                                                             *)
(***************************************************************************)

\* What the client will show when it has read all that is under way.
Upcoming == IF wire = <<>> THEN screen ELSE Last(wire).domain

\* Deltas and snapshots never arrive in an order that ends on an old state: once
\* a connection is greeted and no change waits for the drain, the newest message
\* holds the agent's present state.  Left out: the drain skipped a state because
\* it was also the last emitted one, while a snapshot had shown another between.
ClientFollowsStores ==
    connected /\ greeted /\ ~dirty /\ ~bypassed => Upcoming = Project

\* A pending approval comes to be on the client's screen, however mutations, the
\* drain's awaits, snapshots and reconnects interleave.
PendingIsShown ==
    \A a \in Approval :
        a \in pending ~> a \in screen.pending \/ a \notin pending \/ ~connected \/ bypassed
=============================================================================
