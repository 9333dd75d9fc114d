----------------------------- MODULE DomainSyncProofs -----------------------------
(***************************************************************************)
(* The client ends on the agent's present state: the safety half of the    *)
(* projector's coalescing, for any approvals, any number of snapshot       *)
(* builders and any bounds.                                                *)
(***************************************************************************)
EXTENDS DomainSync, SequenceTheorems, TLAPS

\* Only a client that is there was greeted.
GreetedIsConnected == greeted => connected

\* With nothing noted the drain has emitted the present state.
CleanIsEmitted == ~dirty => emitted \in {Project, None}

\* The newest message is what the drain emitted last; before its first emission it
\* is a snapshot of the present state, or a change is noted since.
NewestIsEmitted ==
    greeted /\ ~bypassed =>
        IF emitted = None THEN dirty \/ Upcoming = Project ELSE Upcoming = emitted

IInv == TypeOK /\ GreetedIsConnected /\ CleanIsEmitted /\ NewestIsEmitted

USE DEF DrainState, BuilderState

\* What is sent is the newest message.
LEMMA SentIsNewest ==
    ASSUME TypeOK, NEW msg \in Message, wire' = Append(wire, msg)
    PROVE  wire' \in Seq(Message) /\ Upcoming' = msg.domain
  <1>1. wire \in Seq(Message)
    BY DEF TypeOK
  <1>2. /\ wire' \in Seq(Message)
        /\ Len(wire') = Len(wire) + 1
        /\ wire'[Len(wire) + 1] = msg
    BY <1>1
  <1>3. wire' # <<>>
    BY <1>1, <1>2
  <1> QED BY <1>1, <1>2, <1>3 DEF Upcoming, Last

\* Reading a message does not change which one is the newest.
LEMMA ReadingKeepsNewest ==
    ASSUME TypeOK, Deliver
    PROVE  wire' \in Seq(Message) /\ screen' \in DomainState /\ Upcoming' = Upcoming
  <1>1. wire \in Seq(Message) /\ wire # <<>> /\ wire' = Tail(wire) /\ screen' = Head(wire).domain
    BY DEF TypeOK, Deliver
  <1>2. /\ Head(wire) = wire[1] /\ wire[1] \in Message
        /\ Tail(wire) \in Seq(Message) /\ Len(Tail(wire)) = Len(wire) - 1
        /\ \A i \in 1..Len(wire) - 1 : Tail(wire)[i] = wire[i + 1]
        /\ Len(wire) \in Nat \ {0}
    BY <1>1
  <1>3. screen' \in DomainState
    BY <1>1, <1>2 DEF Message
  <1>4. CASE Len(wire) = 1
    <2>1. wire' = <<>>
      BY <1>1, <1>2, <1>4
    <2> QED BY <2>1, <1>1, <1>2, <1>3, <1>4 DEF Upcoming, Last
  <1>5. CASE Len(wire) > 1
    <2> DEFINE n == Len(wire) - 1
    <2>1. wire' # <<>> /\ wire'[Len(wire')] = wire[Len(wire)]
      <3>1. n \in 1..Len(wire) - 1 /\ Len(wire') = n /\ n + 1 = Len(wire)
        BY <1>1, <1>2, <1>5
      <3>2. wire'[n] = wire[n + 1]
        BY <1>1, <1>2, <3>1
      <3>3. wire' # <<>>
        BY <3>1
      <3> QED BY <3>1, <3>2, <3>3
    <2> QED BY <2>1, <1>1, <1>2, <1>3 DEF Upcoming, Last
  <1> QED BY <1>2, <1>4, <1>5

LEMMA ProjectType == TypeOK => Project \in DomainState /\ Delta \in Message
  BY DEF TypeOK, Project, Delta, DomainState, Attention, Message

LEMMA InitIInv == Init => IInv
  <1> SUFFICES ASSUME Init PROVE IInv
    OBVIOUS
  <1>1. Blank \in DomainState
    BY DEF Blank, DomainState, Attention
  <1>2. TypeOK
    <2>1. wire \in Seq(Message) /\ 0 \in 0..6
      BY DEF Init
    <2>2. 0 \in 0..MaxChanges /\ 0 \in 0..MaxPushes /\ 0 \in 0..MaxDrops
      BY SyncAssumption
    <2>3. builder \in [Builder -> BuilderState] /\ rows \in [Builder -> SUBSET Approval]
      BY DEF Init
    <2> QED BY <1>1, <2>1, <2>2, <2>3 DEF Init, TypeOK
  <1>3. GreetedIsConnected /\ CleanIsEmitted /\ NewestIsEmitted
    BY DEF Init, GreetedIsConnected, CleanIsEmitted, NewestIsEmitted
  <1> QED BY <1>2, <1>3 DEF IInv

\* A change of the stores is noted, and nothing else moves.
LEMMA ChangeKeeps ==
    ASSUME IInv, Change, pending' \subseteq Approval, active' \in BOOLEAN, level' \in 0..6
    PROVE  IInv'
  <1>1. /\ dirty' = TRUE
        /\ drain' \in DrainState
        /\ changes' \in 0..MaxChanges
        /\ UNCHANGED <<emitted, builder, rows, connected, greeted, wire, screen, list,
                       bypassed, pushes, drops>>
    BY SyncAssumption DEF Change, Kick, builders, client, IInv, TypeOK
  <1>2. TypeOK'
    BY <1>1 DEF IInv, TypeOK
  <1>3. Upcoming' = Upcoming
    BY <1>1 DEF Upcoming
  <1>4. GreetedIsConnected' /\ CleanIsEmitted' /\ NewestIsEmitted'
    BY <1>1, <1>3 DEF IInv, GreetedIsConnected, CleanIsEmitted, NewestIsEmitted
  <1> QED BY <1>2, <1>4 DEF IInv

LEMMA StoresKeep ==
    ASSUME IInv,
           \/ \E a \in Approval : AddApproval(a) \/ ResolveApproval(a)
           \/ SessionChanges
           \/ \E n \in Level : SetDegradationLevel(n)
    PROVE  IInv'
  <1>1. Change
    BY DEF AddApproval, ResolveApproval, SessionChanges, SetDegradationLevel
  <1>2. pending' \subseteq Approval /\ active' \in BOOLEAN
    BY DEF AddApproval, ResolveApproval, SessionChanges, SetDegradationLevel, IInv, TypeOK
  <1>3. level' \in 0..6
    BY SyncAssumption
    DEF AddApproval, ResolveApproval, SessionChanges, SetDegradationLevel, Clamped, IInv, TypeOK
  <1> QED BY <1>1, <1>2, <1>3, ChangeKeeps

LEMMA DrainKeeps == IInv /\ (DrainEmits \/ DrainEnds) => IInv'
  <1>1. ASSUME IInv, DrainEmits PROVE IInv'
    <2>1. /\ dirty' = FALSE /\ drain' = "sending" /\ emitted' = Project
          /\ bypassed' = (bypassed /\ ~connected)
          /\ UNCHANGED <<pending, active, level, builder, rows, connected, greeted, screen,
                         list, changes, pushes, drops>>
      BY <1>1 DEF DrainEmits, stores, builders, client, counts
    <2>2. Project' = Project /\ Project \in DomainState /\ Delta \in Message
      BY <1>1, <2>1, ProjectType DEF IInv, Project
    <2>3. /\ wire' \in Seq(Message)
          /\ connected => Upcoming' = Project
      <3>1. CASE connected
        BY <1>1, <2>2, <3>1, SentIsNewest DEF DrainEmits, Send, Delta, IInv
      <3>2. CASE ~connected
        BY <1>1, <3>2 DEF DrainEmits, Send, IInv, TypeOK
      <3> QED BY <3>1, <3>2
    <2>4. TypeOK'
      BY <1>1, <2>1, <2>2, <2>3 DEF IInv, TypeOK
    <2>5. GreetedIsConnected' /\ CleanIsEmitted'
      BY <1>1, <2>1, <2>2 DEF IInv, GreetedIsConnected, CleanIsEmitted
    <2>6. NewestIsEmitted'
      BY <1>1, <2>1, <2>2, <2>3, NoneAssumption DEF IInv, GreetedIsConnected, NewestIsEmitted
    <2> QED BY <2>4, <2>5, <2>6 DEF IInv
  <1>2. ASSUME IInv, DrainEnds PROVE IInv'
    <2>1. /\ dirty' = FALSE /\ drain' = "none"
          /\ dirty => Project = emitted
          /\ UNCHANGED <<pending, active, level, emitted, builder, rows, connected, greeted,
                         wire, screen, list, bypassed, changes, pushes, drops>>
      BY <1>2 DEF DrainEnds, stores, builders, client, counts
    <2>2. Project' = Project /\ Upcoming' = Upcoming
      BY <2>1 DEF Project, Upcoming
    <2>3. Project \in DomainState
      BY <1>2, ProjectType DEF IInv
    <2>4. TypeOK' /\ GreetedIsConnected' /\ CleanIsEmitted'
      BY <1>2, <2>1, <2>2 DEF IInv, TypeOK, GreetedIsConnected, CleanIsEmitted
    <2>5. NewestIsEmitted'
      BY <1>2, <2>1, <2>2, <2>3, NoneAssumption DEF IInv, NewestIsEmitted
    <2> QED BY <2>4, <2>5 DEF IInv
  <1> QED BY <1>1, <1>2

\* A builder moves without sending: only who builds what, and the counts, change.
LEMMA BuildersKeep ==
    ASSUME IInv, NEW b \in Builder, PushSnapshot(b) \/ Connect(b) \/ CollectRows(b)
    PROVE  IInv'
  <1>1. /\ UNCHANGED <<pending, active, level, dirty, drain, emitted, greeted, wire, screen,
                       list, bypassed, changes, drops>>
        /\ builder' \in [Builder -> BuilderState] /\ rows' \in [Builder -> SUBSET Approval]
        /\ connected' \in BOOLEAN /\ (connected => connected')
        /\ pushes' \in 0..MaxPushes
    <2>1. CASE PushSnapshot(b)
      BY <2>1, SyncAssumption
      DEF PushSnapshot, StartSnapshot, stores, projector, client, IInv, TypeOK
    <2>2. CASE Connect(b)
      BY <2>2 DEF Connect, StartSnapshot, stores, projector, client, counts, IInv, TypeOK
    <2>3. CASE CollectRows(b)
      BY <2>3 DEF CollectRows, stores, projector, client, counts, IInv, TypeOK
    <2> QED BY <2>1, <2>2, <2>3
  <1>2. Project' = Project /\ Upcoming' = Upcoming
    BY <1>1 DEF Project, Upcoming
  <1>3. TypeOK'
    BY <1>1 DEF IInv, TypeOK
  <1>4. GreetedIsConnected' /\ CleanIsEmitted' /\ NewestIsEmitted'
    BY <1>1, <1>2 DEF IInv, GreetedIsConnected, CleanIsEmitted, NewestIsEmitted
  <1> QED BY <1>3, <1>4 DEF IInv

LEMMA SnapshotKeeps ==
    ASSUME IInv, NEW b \in Builder, SendSnapshot(b)
    PROVE  IInv'
  <1>1. /\ greeted' = (greeted \/ connected)
        /\ bypassed' = IF connected THEN emitted # None /\ Project # emitted ELSE bypassed
        /\ UNCHANGED <<pending, active, level, dirty, drain, emitted, connected, screen, list,
                       changes, pushes, drops>>
        /\ builder' \in [Builder -> BuilderState] /\ rows' \in [Builder -> SUBSET Approval]
    BY DEF SendSnapshot, stores, projector, client, counts, IInv, TypeOK
  <1>2. Project' = Project /\ Project \in DomainState /\ Snapshot(b) \in Message
    BY <1>1, ProjectType DEF IInv, TypeOK, Project, Snapshot, Message
  <1>3. CASE connected
    <2>1. wire' \in Seq(Message) /\ Upcoming' = Project
      BY <1>2, <1>3, SentIsNewest DEF SendSnapshot, Send, Snapshot, IInv
    <2>2. TypeOK'
      BY <1>1, <2>1 DEF IInv, TypeOK
    <2>3. GreetedIsConnected' /\ CleanIsEmitted' /\ NewestIsEmitted'
      BY <1>1, <1>2, <1>3, <2>1 DEF IInv, GreetedIsConnected, CleanIsEmitted, NewestIsEmitted
    <2> QED BY <2>2, <2>3 DEF IInv
  <1>4. CASE ~connected
    <2>1. wire' = wire /\ Upcoming' = Upcoming
      BY <1>1, <1>4 DEF SendSnapshot, Send, Upcoming
    <2>2. TypeOK'
      BY <1>1, <1>4, <2>1 DEF IInv, TypeOK
    <2>3. GreetedIsConnected' /\ CleanIsEmitted' /\ NewestIsEmitted'
      BY <1>1, <1>2, <1>4, <2>1 DEF IInv, GreetedIsConnected, CleanIsEmitted, NewestIsEmitted
    <2> QED BY <2>2, <2>3 DEF IInv
  <1> QED BY <1>3, <1>4 DEF IInv, TypeOK

LEMMA ConnectionKeeps == IInv /\ (Disconnect \/ Deliver) => IInv'
  <1>1. ASSUME IInv, Disconnect PROVE IInv'
    <2>1. /\ connected' = FALSE /\ greeted' = FALSE /\ wire' = <<>>
          /\ drops' \in 0..MaxDrops
          /\ UNCHANGED <<pending, active, level, dirty, drain, emitted, builder, rows, screen,
                         list, bypassed, changes, pushes>>
      BY <1>1, SyncAssumption DEF Disconnect, stores, projector, builders, client, IInv, TypeOK
    <2>2. TypeOK' /\ Project' = Project
      <3>1. wire' \in Seq(Message)
        BY <2>1
      <3> QED BY <1>1, <2>1, <3>1 DEF IInv, TypeOK, Project
    <2>3. GreetedIsConnected' /\ CleanIsEmitted' /\ NewestIsEmitted'
      BY <1>1, <2>1, <2>2 DEF IInv, GreetedIsConnected, CleanIsEmitted, NewestIsEmitted
    <2> QED BY <2>2, <2>3 DEF IInv
  <1>2. ASSUME IInv, Deliver PROVE IInv'
    <2>1. UNCHANGED <<pending, active, level, dirty, drain, emitted, builder, rows, connected,
                      greeted, bypassed, changes, pushes, drops>>
      BY <1>2 DEF Deliver, stores, projector, builders, counts
    <2>2. wire' \in Seq(Message) /\ screen' \in DomainState /\ Upcoming' = Upcoming
      BY <1>2, ReadingKeepsNewest DEF IInv
    <2>3. list' \subseteq Approval
      <3>1. wire \in Seq(Message) /\ wire # <<>> /\ list \subseteq Approval
        BY <1>2 DEF IInv, TypeOK, Deliver
      <3>2. Head(wire) \in Message
        BY <3>1
      <3> QED BY <1>2, <3>1, <3>2 DEF Deliver, Message
    <2>4. TypeOK' /\ Project' = Project
      BY <1>2, <2>1, <2>2, <2>3 DEF IInv, TypeOK, Project
    <2>5. GreetedIsConnected' /\ CleanIsEmitted' /\ NewestIsEmitted'
      BY <1>2, <2>1, <2>2, <2>4 DEF IInv, GreetedIsConnected, CleanIsEmitted, NewestIsEmitted
    <2> QED BY <2>4, <2>5 DEF IInv
  <1> QED BY <1>1, <1>2

LEMMA StepIInv == IInv /\ [Next]_vars => IInv'
  <1> SUFFICES ASSUME IInv, [Next]_vars PROVE IInv'
    OBVIOUS
  <1>1. CASE UNCHANGED vars
    <2>1. UNCHANGED <<pending, active, level, dirty, drain, emitted, builder, rows, connected,
                      greeted, wire, screen, list, bypassed, changes, pushes, drops>>
      BY <1>1 DEF vars, stores, projector, builders, client, counts
    <2>2. TypeOK' /\ Project' = Project /\ Upcoming' = Upcoming
      BY <2>1 DEF IInv, TypeOK, Project, Upcoming
    <2> QED
      BY <2>1, <2>2 DEF IInv, GreetedIsConnected, CleanIsEmitted, NewestIsEmitted
  <1>2. CASE Next
    BY <1>2, StoresKeep, DrainKeeps, BuildersKeep, SnapshotKeeps, ConnectionKeeps DEF Next
  <1> QED BY <1>1, <1>2

LEMMA Invariance == Spec => []IInv
  BY InitIInv, StepIInv, PTL DEF Spec

\* The stores, the projector and what is under way keep their types; a level that
\* callers ask for is clamped into 0..6.
THEOREM TypeCorrect == Spec => []TypeOK
  BY Invariance, PTL DEF IInv

\* However snapshots, deltas, changes and lost connections interleave, the newest
\* message of a greeted connection is the agent's present state once the drain has
\* nothing noted, unless a snapshot went past the drain.
THEOREM FollowsStores == Spec => []ClientFollowsStores
  <1>1. IInv => ClientFollowsStores
    BY NoneAssumption DEF IInv, CleanIsEmitted, NewestIsEmitted, ClientFollowsStores
  <1> QED BY <1>1, Invariance, PTL
=============================================================================
