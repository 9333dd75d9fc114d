------------------------- MODULE IslandSurfaceProofs -------------------------
(***************************************************************************)
(* For any activities, cards and approvals and any bounds: the types of    *)
(* IslandSurface, that store and machine hold one deadline for a card,     *)
(* that what is drawn is true, that P0 cards stay, and that what a card    *)
(* covers comes back.                                                      *)
(***************************************************************************)
EXTENDS IslandSurface, SequenceTheorems, WellFoundedInduction, TLAPS

-----------------------------------------------------------------------------
\* The invariant, as far as it speaks of a machine or a store alone.

\* A P0 card has priority 0, and only what has a lower one peeks: no peek ever
\* suspends the gate of a P0 card.
Sound(m) ==
    /\ m.surface.what \in Urgent => m.priority = 0
    /\ m.isSneakPeek => m.priority # 0

\* The body of PeekIsWhole, of any store.
Whole(s) ==
    IF Transient(s)
    THEN /\ s.machine.isSneakPeek
         /\ s.machine.peek = s.expires
         /\ s.machine.surface.what \in Card
         /\ s.steady # Nothing /\ s.steadyPriority # 0
    ELSE s.queue = <<>> /\ s.steady = Nothing

\* A card covers nothing that is pinned.  It was touched when its deadline was
\* set, so the auto-dismiss is not due while it peeks.
Ranked(s) ==
    /\ s.steady # Nothing => s.steady.what \notin Urgent
    /\ Transient(s) => s.machine.peek = 0 \/ s.machine.idle + s.machine.peek <= PeekTtl

Good(s) == s \in Store /\ Sound(s.machine) /\ Whole(s) /\ Ranked(s)

\* Surfaces are presented with the priority of their kind.
Fits(surface, priority) ==
    /\ surface \in Surface /\ priority \in Priority
    /\ surface.what \in Urgent => priority = 0

\* A surface agrees with what the agent holds: lv live, dt its details, op open.
Holds(surface, lv, dt, op) ==
    /\ surface.what \in Approval => surface.what \in op
    /\ surface.what \in Activity =>
          surface.what \in lv /\ surface.detail = dt[surface.what]

\* So do the shown and the covered surface.
Current(s, lv, dt, op) ==
    /\ Holds(s.machine.surface, lv, dt, op)
    /\ s.steady # Nothing => Holds(s.steady, lv, dt, op)

-----------------------------------------------------------------------------
\* A set of naturals that is not empty has a least member.
Smaller == {p \in Nat \X Nat : p[1] < p[2]}

LEMMA LeastMember ==
    ASSUME NEW S \in SUBSET Nat, S # {}
    PROVE  \E m \in S : \A k \in S : m <= k
  <1>1. Smaller = OpToRel(<, Nat)
    BY Zenon DEF Smaller, OpToRel
  <1>2. IsWellFoundedOn(Smaller, Nat)
    BY <1>1, NatLessThanWellFounded
  <1>3. PICK m \in S : \A y \in S : ~(<<y, m>> \in Smaller)
    BY <1>2, WFMin
  <1>4. ASSUME NEW k \in S PROVE m <= k
    <2>1. k \in Nat /\ m \in Nat
      OBVIOUS
    <2>2. <<k, m>> \notin Smaller
      BY <1>3
    <2>3. k < m => <<k, m>> \in Smaller
      BY <2>1 DEF Smaller
    <2> QED BY <2>1, <2>2, <2>3
  <1> QED BY <1>4

-----------------------------------------------------------------------------
\* The machine.

LEMMA EmptyIsSurface ==
    EmptySurface \in Surface /\ EmptySurface.what = Empty /\ Empty \notin Urgent
  BY KindsDisjoint DEF EmptySurface, Showing, Surface

LEMMA CardIsSurface ==
    ASSUME NEW c \in Card
    PROVE  /\ Showing(c) \in Surface /\ Showing(c).what = c
           /\ CardPriority[c] \in Priority /\ CardPriority[c] # 0
           /\ c \notin Urgent /\ c # Empty /\ c # Nothing /\ c \notin Activity
           /\ c # SessionList /\ c \notin Approval
  BY KindsDisjoint, PrioritiesNaturals DEF Showing, Surface, Priority, Urgent

LEMMA SeatType ==
    ASSUME NEW surface \in Surface, NEW p \in Priority
    PROVE  Seat(surface, p) \in Machine
  BY BoundsNaturals DEF Seat, Machine

LEMMA SeatSound ==
    ASSUME NEW surface, NEW p, surface.what \in Urgent => p = 0
    PROVE  Sound(Seat(surface, p))
  BY DEF Seat, Sound

\* What is refused changes nothing; else the surface is shown, and peeks exactly
\* if it is a card below P0.
LEMMA PresentFacts ==
    ASSUME NEW m \in Machine, Sound(m), NEW surface, NEW p, Fits(surface, p),
           NEW n, n = MachinePresent(m, surface, p)
    PROVE  /\ n \in Machine /\ Sound(n)
           /\ Refuses(m, p) => n = m
           /\ ~Refuses(m, p) =>
                 /\ n.surface = surface /\ n.priority = p /\ n.idle = 0
                 /\ n.isSneakPeek = Peeks(surface, p)
                 /\ n.peek = IF Peeks(surface, p) THEN PeekTtl ELSE 0
  <1>1. CASE Refuses(m, p)
    BY <1>1 DEF MachinePresent
  <1>2. CASE ~Refuses(m, p)
    <2> DEFINE peeks == Peeks(surface, p)
    <2>1. peeks \in BOOLEAN /\ (peeks => p # 0)
      BY DEF Peeks
    <2>2. n = [surface |-> surface, priority |-> p, isSneakPeek |-> peeks,
               peek |-> IF peeks THEN PeekTtl ELSE 0, idle |-> 0]
      BY <1>2 DEF MachinePresent, Seat
    <2> HIDE DEF peeks
    <2>3. (IF peeks THEN PeekTtl ELSE 0) \in 0 .. PeekTtl /\ 0 \in 0 .. AutoDismiss
      BY BoundsNaturals
    <2>4. n \in Machine
      BY <2>1, <2>2, <2>3 DEF Machine, Fits
    <2>5. Sound(n)
      BY <2>1, <2>2 DEF Sound, Fits
    <2> QED BY <1>2, <2>2, <2>4, <2>5 DEF peeks
  <1> QED BY <1>1, <1>2

LEMMA MachineDismissFacts ==
    ASSUME NEW m \in Machine, Sound(m), NEW id, NEW n, n = MachineDismiss(m, id)
    PROVE  /\ n \in Machine /\ Sound(n)
           /\ \/ n = m /\ (m.surface.what = Empty \/ id \notin {Nothing, m.surface.what})
              \/ n.surface = EmptySurface /\ id \in {Nothing, m.surface.what}
  <1> DEFINE gone == [m EXCEPT !.surface = EmptySurface, !.priority = 3, !.idle = 0]
  <1>1. 3 \in Priority /\ 0 \in 0 .. AutoDismiss
    BY BoundsNaturals DEF Priority
  <1>2. gone \in Machine /\ gone.surface = EmptySurface /\ gone.priority = 3
    BY <1>1, EmptyIsSurface DEF Machine
  <1>3. Sound(gone)
    BY <1>2, EmptyIsSurface DEF Sound
  <1> HIDE DEF gone
  <1>4. n = IF m.surface.what # Empty /\ id \in {Nothing, m.surface.what} THEN gone ELSE m
    BY DEF MachineDismiss, gone
  <1> QED BY <1>2, <1>3, <1>4

LEMMA MachineTickFacts ==
    ASSUME NEW m \in Machine, Sound(m), NEW n, n = MachineTick(m)
    PROVE  /\ n \in Machine /\ Sound(n)
           /\ \/ n = m
              \/ n.surface = EmptySurface /\ m.isSneakPeek /\ m.peek = 0
              \/ n.surface = EmptySurface /\ m.priority > 1 /\ m.idle = AutoDismiss
  <1> DEFINE gone == [m EXCEPT !.surface = EmptySurface, !.priority = 3, !.idle = 0]
             seat == Seat(EmptySurface, 3)
  <1>1. 3 \in Priority /\ 0 \in 0 .. AutoDismiss
    BY BoundsNaturals DEF Priority
  <1>2. gone \in Machine /\ gone.surface = EmptySurface /\ gone.priority = 3
    BY <1>1, EmptyIsSurface DEF Machine
  <1>3. Sound(gone)
    BY <1>2, EmptyIsSurface DEF Sound
  <1>4. seat \in Machine /\ Sound(seat) /\ seat.surface = EmptySurface
    BY <1>1, EmptyIsSurface, SeatType, SeatSound DEF Seat
  <1>5. \/ n = seat /\ m.isSneakPeek /\ m.peek = 0
        \/ n = gone /\ m.priority > 1 /\ m.idle = AutoDismiss
        \/ n = m
    BY DEF MachineTick
  <1> HIDE DEF gone, seat
  <1> QED BY <1>2, <1>3, <1>4, <1>5

-----------------------------------------------------------------------------
\* The store.

\* The end of all transients, around a machine that is in order.
Bare(s, m) == [Uncovered(s) EXCEPT !.machine = m]

LEMMA BareFacts ==
    ASSUME NEW s, Good(s), NEW m \in Machine, Sound(m), NEW t, t = Bare(s, m)
    PROVE  /\ Good(t) /\ t.machine = m /\ t.steady = Nothing /\ ~Transient(t)
           /\ Len(t.queue) = 0
  <1>1. <<>> \in Seq(Card) /\ Len(<<>>) = 0
    BY EmptySeq
  <1>2. t = [s EXCEPT !.machine = m, !.expires = Nothing, !.steady = Nothing, !.queue = <<>>]
    BY DEF Bare, Uncovered, Store, Good
  <1>3. /\ t.machine = m /\ t.steady = Nothing /\ t.expires = Nothing
        /\ t.queue = <<>> /\ t \in Store
    BY <1>1, <1>2 DEF Store, Good
  <1>4. ~Transient(t)
    BY <1>3 DEF Transient
  <1> QED BY <1>1, <1>3, <1>4 DEF Good, Whole, Ranked

LEMMA EnqueueFacts ==
    ASSUME NEW queue \in Seq(Card), NEW c \in Card
    PROVE  /\ Enqueue(queue, c) \in Seq(Card)
           /\ Len(Enqueue(queue, c)) = Len(queue) + 1
  <1> DEFINE Yields(i) == CardPriority[queue[i]] > CardPriority[c]
             Fit(n) == /\ n = Len(queue) + 1 \/ Yields(n)
                       /\ \A i \in 1 .. (n - 1) : ~Yields(i)
             place == CHOOSE n \in 1 .. (Len(queue) + 1) : Fit(n)
  <1>1. Len(queue) \in Nat
    BY LenProperties
  <1>2. \E n \in 1 .. (Len(queue) + 1) : Fit(n)
    <2> DEFINE S == {n \in 1 .. (Len(queue) + 1) : n = Len(queue) + 1 \/ Yields(n)}
    <2>1. S \in SUBSET Nat /\ Len(queue) + 1 \in S
      BY <1>1
    <2>2. PICK n \in S : \A k \in S : n <= k
      <3> HIDE DEF S
      <3> QED BY <2>1, LeastMember
    <2>3. ASSUME NEW i \in 1 .. (n - 1) PROVE ~Yields(i)
      <3>1. i \in 1 .. (Len(queue) + 1) /\ i < n
        BY <1>1, <2>2
      <3>2. i \in S => n <= i
        BY <2>2
      <3> QED BY <1>1, <2>2, <3>1, <3>2
    <2>4. n \in 1 .. (Len(queue) + 1) /\ (n = Len(queue) + 1 \/ Yields(n))
      BY <2>2
    <2> QED BY <2>3, <2>4
  <1> HIDE DEF Fit
  <1>3. place \in 1 .. (Len(queue) + 1)
    BY <1>2
  <1>4. Enqueue(queue, c) =
          SubSeq(queue, 1, place - 1) \o <<c>> \o SubSeq(queue, place, Len(queue))
    BY DEF Enqueue, Fit
  <1> HIDE DEF place
  <1>5. \A i \in 1 .. Len(queue) : queue[i] \in Card
    BY ElementOfSeq
  <1>6. /\ SubSeq(queue, 1, place - 1) \in Seq(Card)
        /\ Len(SubSeq(queue, 1, place - 1)) = place - 1
    <2>1. \A i \in 1 .. (place - 1) : queue[i] \in Card
      BY <1>1, <1>3, <1>5
    <2>2. 1 \in Int /\ place - 1 \in Int
      BY <1>1, <1>3
    <2>3. /\ SubSeq(queue, 1, place - 1) \in Seq(Card)
          /\ Len(SubSeq(queue, 1, place - 1)) =
                IF 1 <= place - 1 THEN (place - 1) - 1 + 1 ELSE 0
      BY <2>1, <2>2, SubSeqProperties
    <2> QED BY <1>1, <1>3, <2>3
  <1>7. /\ SubSeq(queue, place, Len(queue)) \in Seq(Card)
        /\ Len(SubSeq(queue, place, Len(queue))) = Len(queue) - place + 1
    <2>1. \A i \in place .. Len(queue) : queue[i] \in Card
      BY <1>1, <1>3, <1>5
    <2>2. place \in Int /\ Len(queue) \in Int
      BY <1>1, <1>3
    <2>3. /\ SubSeq(queue, place, Len(queue)) \in Seq(Card)
          /\ Len(SubSeq(queue, place, Len(queue))) =
                IF place <= Len(queue) THEN Len(queue) - place + 1 ELSE 0
      BY <2>1, <2>2, SubSeqProperties
    <2> QED BY <1>1, <1>3, <2>3
  <1>8. <<c>> \in Seq(Card) /\ Len(<<c>>) = 1
    OBVIOUS
  <1>9. /\ SubSeq(queue, 1, place - 1) \o <<c>> \in Seq(Card)
        /\ Len(SubSeq(queue, 1, place - 1) \o <<c>>) = place
    BY <1>3, <1>6, <1>8, ConcatProperties
  <1> DEFINE front == SubSeq(queue, 1, place - 1) \o <<c>>
             back == SubSeq(queue, place, Len(queue))
  <1>10. front \o back \in Seq(Card) /\ Len(front \o back) = Len(front) + Len(back)
    <2> HIDE DEF front, back
    <2> SUFFICES front \in Seq(Card) /\ back \in Seq(Card)
      BY ConcatProperties
    <2> QED BY <1>7, <1>9 DEF front, back
  <1>11. Len(front) + Len(back) = Len(queue) + 1
    BY <1>1, <1>3, <1>7, <1>9
  <1> QED BY <1>4, <1>10, <1>11

\* A card: it waits, is shown over what was shown, or changes nothing.
LEMMA PresentTransientFacts ==
    ASSUME NEW s, Good(s), NEW c \in Card, NEW t, t = PresentTransient(s, c)
    PROVE  /\ Good(t) /\ Len(t.queue) <= Len(s.queue) + 1
           /\ \/ /\ t.machine.surface = s.machine.surface /\ t.steady = s.steady
                 /\ Transient(t) <=> Transient(s)
              \/ /\ ~Transient(s) /\ Transient(t)
                 /\ ~Refuses(s.machine, CardPriority[c])
                 /\ t.machine.surface = Showing(c)
                 /\ t.machine.surface # s.machine.surface
                 /\ t.steady = s.machine.surface
  <1> USE DEF Good
  <1>1. s.queue \in Seq(Card) /\ Len(s.queue) \in Nat
    BY LenProperties DEF Store
  <1>2. CASE Transient(s)
    <2>1. t = [s EXCEPT !.queue = Enqueue(@, c)]
      BY <1>2 DEF PresentTransient
    <2>2. Enqueue(s.queue, c) \in Seq(Card) /\ Len(Enqueue(s.queue, c)) = Len(s.queue) + 1
      BY <1>1, EnqueueFacts
    <2>3. /\ t \in Store /\ t.machine = s.machine /\ t.steady = s.steady
          /\ t.expires = s.expires /\ t.steadyPriority = s.steadyPriority
          /\ t.queue = Enqueue(s.queue, c)
      BY <2>1, <2>2 DEF Store
    <2>4. Transient(t)
      BY <1>2, <2>3 DEF Transient
    <2>5. Sound(t.machine) /\ Whole(t) /\ Ranked(t)
      BY <1>2, <2>3, <2>4 DEF Whole, Ranked
    <2> QED BY <1>1, <1>2, <2>2, <2>3, <2>4, <2>5
  <1>3. CASE ~Transient(s)
    <2> DEFINE m == MachinePresent(s.machine, Showing(c), CardPriority[c])
               shown == m.surface # s.machine.surface
    <2>1. t = [s EXCEPT !.machine = m,
                        !.steady = IF shown THEN s.machine.surface ELSE Nothing,
                        !.steadyPriority = s.machine.priority,
                        !.expires = IF shown THEN PeekTtl ELSE Nothing]
      BY <1>3 DEF PresentTransient
    <2>2. s.machine \in Machine /\ s.machine.surface \in Surface
          /\ s.machine.priority \in Priority /\ PeekTtl \in 0 .. PeekTtl
      BY BoundsNaturals DEF Store, Machine
    <2>3. Fits(Showing(c), CardPriority[c])
      BY CardIsSurface DEF Fits
    <2>4. /\ m \in Machine /\ Sound(m)
          /\ Refuses(s.machine, CardPriority[c]) => m = s.machine
          /\ ~Refuses(s.machine, CardPriority[c]) =>
                /\ m.surface = Showing(c) /\ m.idle = 0
                /\ m.isSneakPeek = Peeks(Showing(c), CardPriority[c])
                /\ m.peek = IF Peeks(Showing(c), CardPriority[c]) THEN PeekTtl ELSE 0
      BY <2>2, <2>3, PresentFacts
    <2>5. Peeks(Showing(c), CardPriority[c])
      BY CardIsSurface DEF Peeks
    <2>6. shown => s.machine.priority # 0
      BY <2>2, <2>4, CardIsSurface DEF Refuses, Sound, Priority
    <2>7. s.machine.priority # 0 => s.machine.surface.what \notin Urgent
      BY DEF Sound
    <2> HIDE DEF m
    <2>8. /\ t.machine = m /\ t.queue = s.queue
          /\ t.steady = IF shown THEN s.machine.surface ELSE Nothing
          /\ t.steadyPriority = s.machine.priority
          /\ t.expires = IF shown THEN PeekTtl ELSE Nothing
          /\ t \in Store
      BY <2>1, <2>2, <2>4 DEF Store
    <2>9. CASE shown
      <3>1. ~Refuses(s.machine, CardPriority[c])
        BY <2>4, <2>9
      <3>2. Transient(t)
        BY <2>8, <2>9, BoundsNaturals DEF Transient
      <3>3. /\ m.isSneakPeek /\ m.peek = PeekTtl /\ m.idle = 0
            /\ m.surface = Showing(c) /\ Showing(c).what = c
        BY <2>4, <2>5, <3>1, CardIsSurface
      <3>4. s.machine.surface # Nothing
        BY <2>2, NothingApart
      <3>5. Whole(t)
        BY <2>6, <2>8, <2>9, <3>2, <3>3, <3>4 DEF Whole
      <3>6. Ranked(t)
        BY <2>6, <2>7, <2>8, <2>9, <3>3, BoundsNaturals DEF Ranked
      <3> QED BY <1>1, <1>3, <2>4, <2>8, <2>9, <3>1, <3>2, <3>3, <3>5, <3>6
    <2>10. CASE ~shown
      <3>1. ~Transient(t) /\ t.steady = Nothing
        BY <2>8, <2>10 DEF Transient
      <3>2. s.queue = <<>> /\ s.steady = Nothing
        BY <1>3 DEF Whole
      <3>3. Whole(t) /\ Ranked(t)
        BY <2>8, <3>1, <3>2 DEF Whole, Ranked
      <3>4. m.surface = s.machine.surface
        BY <2>10
      <3> QED BY <1>1, <1>3, <2>4, <2>8, <3>1, <3>2, <3>3, <3>4
    <2> QED BY <2>9, <2>10
  <1> QED BY <1>2, <1>3

\* What is presented otherwise: refused, shown with all transients over, or put
\* under the card.
LEMMA PresentStoreFacts ==
    ASSUME NEW s, Good(s), NEW surface, NEW p, Fits(surface, p),
           NEW t, t = Present(s, surface, p)
    PROVE  /\ Good(t) /\ Len(t.queue) <= Len(s.queue)
           /\ \/ t = s /\ Transient(s) /\ p # 0
              \/ /\ Transient(s) /\ Transient(t) /\ p # 0
                 /\ t.machine = s.machine /\ t.steady = surface
              \/ /\ ~Transient(s) \/ p = 0
                 /\ ~Transient(t) /\ t.steady = Nothing
                 /\ \/ Refuses(s.machine, p) /\ t.machine = s.machine
                    \/ ~Refuses(s.machine, p) /\ t.machine.surface = surface
  <1> USE DEF Good
  <1>1. s.queue \in Seq(Card) /\ Len(s.queue) \in Nat
    BY LenProperties DEF Store
  <1>2. CASE Transient(s) /\ p # 0
    <2>1. CASE p > s.steadyPriority
      <3>1. t = s
        BY <1>2, <2>1 DEF Present
      <3> QED BY <1>1, <1>2, <3>1
    <2>2. CASE ~(p > s.steadyPriority)
      <3>1. t = [s EXCEPT !.steady = surface, !.steadyPriority = p]
        BY <1>2, <2>2 DEF Present
      <3>2. surface \in Surface /\ p \in Priority /\ surface # Nothing
            /\ surface.what \notin Urgent
        BY <1>2, NothingApart DEF Fits
      <3>3. /\ t \in Store /\ t.machine = s.machine /\ t.queue = s.queue
            /\ t.expires = s.expires /\ t.steady = surface /\ t.steadyPriority = p
        BY <3>1, <3>2 DEF Store
      <3>4. Transient(t)
        BY <1>2, <3>3 DEF Transient
      <3>5. Whole(t) /\ Ranked(t)
        BY <1>2, <3>2, <3>3, <3>4 DEF Whole, Ranked
      <3> QED BY <1>1, <1>2, <3>3, <3>4, <3>5
    <2> QED BY <2>1, <2>2
  <1>3. CASE ~(Transient(s) /\ p # 0)
    <2> DEFINE m == MachinePresent(s.machine, surface, p)
    <2>1. t = Bare(s, m)
      BY <1>3 DEF Present, Bare
    <2>2. s.machine \in Machine
      BY DEF Store
    <2>3. /\ m \in Machine /\ Sound(m)
          /\ Refuses(s.machine, p) => m = s.machine
          /\ ~Refuses(s.machine, p) => m.surface = surface
      BY <2>2, PresentFacts
    <2> HIDE DEF m
    <2>4. /\ Good(t) /\ t.machine = m /\ t.steady = Nothing /\ ~Transient(t)
          /\ Len(t.queue) = 0
      <3> HIDE DEF Good
      <3> QED BY <2>1, <2>3, BareFacts
    <2> QED BY <1>1, <1>3, <2>3, <2>4
  <1> QED BY <1>2, <1>3

\* The end of a card: the next card over the same surface, or that surface.
LEMMA FinishFacts ==
    ASSUME NEW s, Good(s), Transient(s), NEW t, t = FinishTransient(s)
    PROVE  /\ Good(t) /\ Len(t.queue) <= Len(s.queue)
           /\ \/ /\ Transient(t) /\ t.steady = s.steady
                 /\ t.machine.surface.what \in Card
                 /\ ~FinishesQuietly(s)
              \/ /\ ~Transient(t) /\ t.steady = Nothing
                 /\ t.machine.surface = s.steady
  <1> USE DEF Good
  <1>1. s.queue \in Seq(Card) /\ Len(s.queue) \in Nat
    BY LenProperties DEF Store
  <1>2. /\ s.machine \in Machine /\ s.steady \in Surface /\ s.steady # Nothing
        /\ s.steadyPriority \in Priority /\ s.steady.what \notin Urgent
        /\ s.steadyPriority # 0 /\ s.machine.surface.what \in Card
    BY DEF Whole, Ranked, Store
  <1>3. /\ Below(s) = Seat(s.steady, s.steadyPriority)
        /\ Below(s) \in Machine /\ Sound(Below(s))
    BY <1>2, SeatType, SeatSound DEF Below
  <1>4. CASE \E i \in 1 .. Len(s.queue) : Showable(s, i)
    <2> DEFINE First(i) == /\ Showable(s, i)
                           /\ \A j \in 1 .. (i - 1) : ~Showable(s, j)
               next == CHOOSE i \in 1 .. Len(s.queue) : First(i)
               c == s.queue[next]
               m == MachinePresent(Below(s), Showing(c), CardPriority[c])
    <2>1. \E i \in 1 .. Len(s.queue) : First(i)
      <3> DEFINE S == {i \in 1 .. Len(s.queue) : Showable(s, i)}
      <3>1. S \in SUBSET Nat /\ S # {}
        BY <1>1, <1>4
      <3>2. PICK i \in S : \A k \in S : i <= k
        <4> HIDE DEF S
        <4> QED BY <3>1, LeastMember
      <3>3. ASSUME NEW j \in 1 .. (i - 1) PROVE ~Showable(s, j)
        <4>1. j \in 1 .. Len(s.queue) /\ j < i
          BY <1>1, <3>2
        <4>2. j \in S => i <= j
          BY <3>2
        <4> QED BY <1>1, <3>2, <4>1, <4>2
      <3>4. i \in 1 .. Len(s.queue) /\ Showable(s, i)
        BY <3>2
      <3> QED BY <3>3, <3>4
    <2>2. next \in 1 .. Len(s.queue) /\ Showable(s, next)
      <3> HIDE DEF First
      <3>1. next \in 1 .. Len(s.queue) /\ First(next)
        BY <2>1
      <3> QED BY <3>1 DEF First
    <2>3. t = [s EXCEPT !.machine = m, !.expires = PeekTtl,
                        !.queue = SubSeq(@, next + 1, Len(@))]
      BY <1>4 DEF FinishTransient
    <2> HIDE DEF next
    <2>4. c \in Card
      BY <1>1, <2>2, ElementOfSeq
    <2>5. ~Refuses(Below(s), CardPriority[c])
      BY <2>2 DEF Showable
    <2>6. /\ SubSeq(s.queue, next + 1, Len(s.queue)) \in Seq(Card)
          /\ Len(SubSeq(s.queue, next + 1, Len(s.queue))) <= Len(s.queue)
      <3>1. \A i \in (next + 1) .. Len(s.queue) : s.queue[i] \in Card
        <4>1. \A i \in 1 .. Len(s.queue) : s.queue[i] \in Card
          BY <1>1, ElementOfSeq
        <4> QED BY <1>1, <2>2, <4>1
      <3>2. next + 1 \in Int /\ Len(s.queue) \in Int
        BY <1>1, <2>2
      <3>3. /\ SubSeq(s.queue, next + 1, Len(s.queue)) \in Seq(Card)
            /\ Len(SubSeq(s.queue, next + 1, Len(s.queue))) =
                  IF next + 1 <= Len(s.queue) THEN Len(s.queue) - (next + 1) + 1 ELSE 0
        BY <3>1, <3>2, SubSeqProperties
      <3> QED BY <1>1, <2>2, <3>3
    <2> HIDE DEF c
    <2>7. Fits(Showing(c), CardPriority[c]) /\ Peeks(Showing(c), CardPriority[c])
          /\ Showing(c).what = c
      BY <2>4, CardIsSurface DEF Fits, Peeks
    <2>8. /\ m \in Machine /\ Sound(m) /\ m.surface = Showing(c)
          /\ m.isSneakPeek /\ m.peek = PeekTtl /\ m.idle = 0
      BY <1>3, <2>5, <2>7, PresentFacts
    <2> HIDE DEF m
    <2>9. /\ t \in Store /\ t.machine = m /\ t.expires = PeekTtl
          /\ t.steady = s.steady /\ t.steadyPriority = s.steadyPriority
          /\ t.queue = SubSeq(s.queue, next + 1, Len(s.queue))
      <3> DEFINE rest == SubSeq(s.queue, next + 1, Len(s.queue))
      <3>1. t = [s EXCEPT !.machine = m, !.expires = PeekTtl, !.queue = rest]
        BY <2>3
      <3>2. rest \in Seq(Card) /\ PeekTtl \in (0 .. PeekTtl) \cup {Nothing}
        BY <2>6, BoundsNaturals
      <3> HIDE DEF rest
      <3>3. /\ t \in Store /\ t.machine = m /\ t.expires = PeekTtl
            /\ t.steady = s.steady /\ t.steadyPriority = s.steadyPriority
            /\ t.queue = rest
        BY <2>8, <3>1, <3>2 DEF Store
      <3> QED BY <3>3 DEF rest
    <2>10. Transient(t)
      BY <2>9, BoundsNaturals DEF Transient
    <2>11. Whole(t)
      BY <1>2, <2>4, <2>7, <2>8, <2>9, <2>10 DEF Whole
    <2>12. Ranked(t)
      BY <1>2, <2>8, <2>9, <2>10, BoundsNaturals DEF Ranked
    <2>13. ~FinishesQuietly(s)
      BY <1>4 DEF FinishesQuietly
    <2> QED BY <2>4, <2>6, <2>7, <2>8, <2>9, <2>10, <2>11, <2>12, <2>13
  <1>5. CASE ~(\E i \in 1 .. Len(s.queue) : Showable(s, i))
    <2> DEFINE m == IF s.steady \in {Nothing, EmptySurface}
                    THEN MachineDismiss(s.machine, Nothing)
                    ELSE Seat(s.steady, s.steadyPriority)
    <2>1. t = Bare(s, m)
      BY <1>5 DEF FinishTransient, Bare
    <2>2. m \in Machine /\ Sound(m) /\ m.surface = s.steady
      <3>1. CASE s.steady = EmptySurface
        <4>1. m = MachineDismiss(s.machine, Nothing)
          BY <3>1
        <4>2. s.machine.surface.what # Empty
          BY <1>2, CardIsSurface
        <4> HIDE DEF m
        <4> QED BY <1>2, <3>1, <4>1, <4>2, MachineDismissFacts
      <3>2. CASE s.steady # EmptySurface
        <4>1. m = Seat(s.steady, s.steadyPriority)
          BY <1>2, <3>2
        <4> HIDE DEF m
        <4> QED BY <1>2, <4>1, SeatType, SeatSound DEF Seat
      <3> QED BY <3>1, <3>2
    <2> HIDE DEF m
    <2>3. /\ Good(t) /\ t.machine = m /\ t.steady = Nothing /\ ~Transient(t)
          /\ Len(t.queue) = 0
      <3> HIDE DEF Good
      <3> QED BY <2>1, <2>2, BareFacts
    <2> QED BY <1>1, <2>2, <2>3
  <1> QED BY <1>4, <1>5

\* A dismiss: it ends the card, takes what is covered, or ends all transients and
\* takes what it names, if that is shown.
LEMMA DismissFacts ==
    ASSUME NEW s, Good(s), NEW id, NEW t, t = Dismiss(s, id)
    PROVE  /\ Good(t) /\ Len(t.queue) <= Len(s.queue)
           /\ \/ /\ Transient(s) /\ id = s.machine.surface.what /\ id \in Card
                 /\ \/ /\ Transient(t) /\ t.steady = s.steady
                       /\ t.machine.surface.what \in Card /\ ~FinishesQuietly(s)
                    \/ /\ ~Transient(t) /\ t.steady = Nothing
                       /\ t.machine.surface = s.steady
              \/ /\ Transient(s) /\ Transient(t) /\ id # s.machine.surface.what
                 /\ s.steady.what = id
                 /\ t.machine = s.machine /\ t.steady = EmptySurface
              \/ /\ Transient(s) => id = Nothing \/ IsStray(s, id)
                 /\ ~Transient(t) /\ t.steady = Nothing
                 /\ \/ /\ t.machine = s.machine
                       /\ s.machine.surface.what = Empty
                          \/ id \notin {Nothing, s.machine.surface.what}
                    \/ /\ t.machine.surface = EmptySurface
                       /\ id \in {Nothing, s.machine.surface.what}
  <1>1. /\ s.queue \in Seq(Card) /\ Len(s.queue) \in Nat /\ s \in Store
        /\ s.machine \in Machine /\ Sound(s.machine)
    BY LenProperties DEF Store, Good
  <1>2. CASE Transient(s) /\ id # Nothing /\ id = s.machine.surface.what
    <2>1. t = FinishTransient(s)
      BY <1>2 DEF Dismiss
    <2>2. id \in Card
      BY <1>2 DEF Good, Whole
    <2> QED BY <1>2, <2>1, <2>2, FinishFacts
  <1>3. CASE /\ Transient(s) /\ id # Nothing /\ s.machine.surface.what # id
             /\ s.steady # Nothing /\ s.steady.what = id
    <2>1. t = [s EXCEPT !.steady = EmptySurface, !.steadyPriority = 3]
      BY <1>3 DEF Dismiss
    <2>2. 3 \in Priority /\ EmptySurface # Nothing
      BY EmptyIsSurface, NothingApart DEF Priority
    <2>3. /\ t \in Store /\ t.machine = s.machine /\ t.queue = s.queue
          /\ t.expires = s.expires /\ t.steady = EmptySurface /\ t.steadyPriority = 3
      BY <1>1, <2>1, <2>2, EmptyIsSurface DEF Store
    <2>4. Transient(t)
      BY <1>3, <2>3 DEF Transient
    <2>5. Whole(t) /\ Ranked(t)
      BY <1>3, <2>2, <2>3, <2>4, EmptyIsSurface DEF Good, Whole, Ranked
    <2> QED BY <1>1, <1>3, <2>3, <2>4, <2>5 DEF Good
  <1>4. CASE /\ ~(Transient(s) /\ id # Nothing /\ id = s.machine.surface.what)
             /\ ~(/\ Transient(s) /\ id # Nothing /\ s.machine.surface.what # id
                  /\ s.steady # Nothing /\ s.steady.what = id)
    <2> DEFINE m == MachineDismiss(s.machine, id)
    <2>1. t = Bare(s, m)
      BY <1>4 DEF Dismiss, Bare
    <2>2. /\ m \in Machine /\ Sound(m)
          /\ \/ /\ m = s.machine
                /\ s.machine.surface.what = Empty
                   \/ id \notin {Nothing, s.machine.surface.what}
             \/ m.surface = EmptySurface /\ id \in {Nothing, s.machine.surface.what}
      BY <1>1, MachineDismissFacts
    <2> HIDE DEF m
    <2>3. /\ Good(t) /\ t.machine = m /\ t.steady = Nothing /\ ~Transient(t)
          /\ Len(t.queue) = 0
      BY <2>1, <2>2, BareFacts
    <2>4. Transient(s) => id = Nothing \/ IsStray(s, id)
      BY <1>4 DEF IsStray
    <2> QED BY <1>1, <2>2, <2>3, <2>4
  <1> QED BY <1>2, <1>3, <1>4

\* An update changes the detail of the activity where it is, shown or covered.
LEMMA UpdateFacts ==
    ASSUME NEW s, Good(s), NEW a \in Activity, NEW d \in 0 .. 1,
           NEW reseat \in BOOLEAN, NEW t, t = Update(s, a, d, reseat)
    PROVE  /\ Good(t) /\ t.queue = s.queue /\ (Transient(t) <=> Transient(s))
           /\ \/ /\ Transient(s) /\ s.steady.what = a
                 /\ t.machine = s.machine
                 /\ t.steady.what = a /\ t.steady.detail = d /\ t.steady # Nothing
              \/ /\ t.steady = s.steady
                 /\ s.steady # Nothing => s.steady.what # a
                 /\ \/ s.machine.surface.what # a /\ t.machine = s.machine
                    \/ /\ s.machine.surface.what = a /\ ~Transient(s)
                       /\ t.machine.surface.what = a
                       /\ t.machine.surface.detail = d
  <1>1. /\ s \in Store /\ s.machine \in Machine /\ Sound(s.machine)
        /\ s.machine.surface \in Surface
    BY DEF Store, Good, Machine
  <1>2. CASE Transient(s) /\ s.steady # Nothing /\ s.steady.what = a
    <2>1. t = [s EXCEPT !.steady.detail = d]
      BY <1>2 DEF Update
    <2> DEFINE cover == [s.steady EXCEPT !.detail = d]
    <2>2. cover \in Surface /\ cover.what = a /\ cover.detail = d
      BY <1>1, <1>2 DEF Store, Surface
    <2>3. t = [s EXCEPT !.steady = cover]
      BY <1>1, <2>1 DEF Store
    <2> HIDE DEF cover
    <2>4. cover # Nothing
      BY <2>2, NothingApart
    <2>5. /\ t \in Store /\ t.machine = s.machine /\ t.queue = s.queue
          /\ t.expires = s.expires /\ t.steady = cover
          /\ t.steadyPriority = s.steadyPriority
      BY <1>1, <2>2, <2>3 DEF Store
    <2>6. Transient(t)
      BY <1>2, <2>5 DEF Transient
    <2>7. Whole(t) /\ Ranked(t)
      BY <1>2, <2>2, <2>4, <2>5, <2>6 DEF Good, Whole, Ranked
    <2> QED BY <1>1, <1>2, <2>2, <2>4, <2>5, <2>6, <2>7 DEF Good
  <1>3. ASSUME ~(Transient(s) /\ s.steady # Nothing /\ s.steady.what = a)
        PROVE  s.steady # Nothing => s.steady.what # a
    BY <1>3 DEF Good, Whole
  <1>4. CASE /\ ~(Transient(s) /\ s.steady # Nothing /\ s.steady.what = a)
             /\ s.machine.surface.what # a
    <2>1. t = s
      BY <1>4 DEF Update
    <2> QED BY <1>3, <1>4, <2>1
  <1>5. CASE /\ ~(Transient(s) /\ s.steady # Nothing /\ s.steady.what = a)
             /\ s.machine.surface.what = a
    <2>1. t = [s EXCEPT !.machine.surface.detail = d,
                        !.machine.idle = 0,
                        !.machine.isSneakPeek = @ /\ ~reseat,
                        !.machine.peek = IF reseat THEN 0 ELSE @]
      BY <1>5 DEF Update
    <2> DEFINE shown == [s.machine.surface EXCEPT !.detail = d]
               flag == s.machine.isSneakPeek /\ ~reseat
               left == IF reseat THEN 0 ELSE s.machine.peek
               m == [s.machine EXCEPT !.surface = shown, !.idle = 0,
                                      !.isSneakPeek = flag, !.peek = left]
    <2>2. shown \in Surface /\ shown.what = a /\ shown.detail = d
      BY <1>1, <1>5 DEF Surface
    <2>3. flag \in BOOLEAN /\ (flag => s.machine.isSneakPeek)
      BY <1>1 DEF Machine
    <2>4. left \in 0 .. PeekTtl /\ 0 \in 0 .. AutoDismiss
      BY <1>1, BoundsNaturals DEF Machine
    <2>5. t = [s EXCEPT !.machine = m]
      BY <1>1, <2>1 DEF Store, Machine
    <2> HIDE DEF shown, flag, left
    <2>6. /\ m \in Machine /\ m.surface = shown /\ m.isSneakPeek = flag
          /\ m.priority = s.machine.priority
      BY <1>1, <2>2, <2>3, <2>4 DEF Machine
    <2>7. a \notin Urgent /\ a \notin Card
      BY KindsDisjoint
    <2>8. Sound(m)
      BY <1>1, <2>2, <2>3, <2>6, <2>7 DEF Sound
    <2> HIDE DEF m
    <2>9. /\ t \in Store /\ t.machine = m /\ t.queue = s.queue
          /\ t.expires = s.expires /\ t.steady = s.steady
      BY <1>1, <2>5, <2>6 DEF Store
    <2>10. ~Transient(s)
      BY <1>5, <2>7 DEF Good, Whole
    <2>11. ~Transient(t)
      BY <2>9, <2>10 DEF Transient
    <2>12. Whole(t) /\ Ranked(t)
      BY <2>9, <2>10, <2>11 DEF Good, Whole, Ranked
    <2> QED BY <1>3, <1>5, <2>2, <2>6, <2>8, <2>9, <2>10, <2>11, <2>12 DEF Good
  <1> QED BY <1>2, <1>4, <1>5

LEMMA PromoteFacts ==
    ASSUME NEW s, Good(s), NEW t, t = Promote(s)
    PROVE  /\ Good(t) /\ Len(t.queue) <= Len(s.queue)
           /\ ~Transient(s) => t = s
           /\ Transient(s) => /\ ~Transient(t) /\ t.steady = Nothing
                              /\ t.machine.surface = s.machine.surface
                              /\ ~t.machine.isSneakPeek /\ t.machine.priority # 0
  <1>1. /\ s.queue \in Seq(Card) /\ Len(s.queue) \in Nat /\ s \in Store
        /\ s.machine \in Machine /\ Sound(s.machine)
    BY LenProperties DEF Store, Good
  <1>2. CASE ~Transient(s)
    <2>1. t = s
      BY <1>2 DEF Promote
    <2> QED BY <1>1, <1>2, <2>1
  <1>3. CASE Transient(s)
    <2> DEFINE m == [s.machine EXCEPT !.isSneakPeek = FALSE, !.peek = 0, !.idle = 0]
    <2>1. s.machine.isSneakPeek /\ s.machine.priority # 0
      BY <1>1, <1>3 DEF Good, Whole, Sound
    <2>2. t = Bare(s, m)
      BY <1>1, <1>3, <2>1 DEF Promote, Bare, Uncovered, Store
    <2>3. 0 \in 0 .. PeekTtl /\ 0 \in 0 .. AutoDismiss
      BY BoundsNaturals
    <2>4. /\ m \in Machine /\ m.surface = s.machine.surface
          /\ m.priority = s.machine.priority /\ m.isSneakPeek = FALSE
      BY <1>1, <2>3 DEF Machine
    <2>5. Sound(m)
      BY <1>1, <2>4 DEF Sound
    <2> HIDE DEF m
    <2>6. /\ Good(t) /\ t.machine = m /\ t.steady = Nothing /\ ~Transient(t)
          /\ Len(t.queue) = 0
      BY <2>2, <2>4, <2>5, BareFacts
    <2> QED BY <1>1, <1>3, <2>1, <2>4, <2>6
  <1> QED BY <1>2, <1>3

\* A tick ends a card whose deadline has passed; else it takes nothing that is
\* pinned, and nothing from under a card.
LEMMA TickFacts ==
    ASSUME NEW s, Good(s), NEW t, t = TickStore(s)
    PROVE  /\ Good(t) /\ Len(t.queue) <= Len(s.queue)
           /\ \/ /\ s.expires = 0 /\ Transient(s)
                 /\ \/ /\ Transient(t) /\ t.steady = s.steady
                       /\ t.machine.surface.what \in Card /\ ~FinishesQuietly(s)
                    \/ /\ ~Transient(t) /\ t.steady = Nothing
                       /\ t.machine.surface = s.steady
              \/ /\ s.expires # 0 /\ t.steady = s.steady
                 /\ Transient(t) <=> Transient(s)
                 /\ \/ t.machine = s.machine
                    \/ /\ ~Transient(s) /\ t.machine.surface = EmptySurface
                       /\ s.machine.surface.what \notin Urgent
  <1>1. /\ s.queue \in Seq(Card) /\ Len(s.queue) \in Nat /\ s \in Store
        /\ s.machine \in Machine /\ Sound(s.machine)
        /\ s.machine.peek \in 0 .. PeekTtl /\ s.machine.idle \in 0 .. AutoDismiss
        /\ s.machine.priority \in Priority
    BY LenProperties DEF Store, Good, Machine
  <1>2. CASE s.expires = 0
    <2>1. Transient(s) /\ t = FinishTransient(s)
      BY <1>2, BoundsNaturals DEF Transient, TickStore
    <2> QED BY <1>2, <2>1, FinishFacts
  <1>3. CASE s.expires # 0
    <2> DEFINE m == MachineTick(s.machine)
    <2>1. t = [s EXCEPT !.machine = m]
      BY <1>1, <1>3 DEF TickStore, Store
    <2>2. /\ m \in Machine /\ Sound(m)
          /\ \/ m = s.machine
             \/ m.surface = EmptySurface /\ s.machine.isSneakPeek /\ s.machine.peek = 0
             \/ m.surface = EmptySurface /\ s.machine.priority > 1
                /\ s.machine.idle = AutoDismiss
      BY <1>1, MachineTickFacts
    <2> HIDE DEF m
    <2>3. /\ t \in Store /\ t.machine = m /\ t.queue = s.queue /\ t.steady = s.steady
          /\ t.expires = s.expires /\ t.steadyPriority = s.steadyPriority
      BY <1>1, <2>1, <2>2 DEF Store
    <2>4. Transient(t) <=> Transient(s)
      BY <2>3 DEF Transient
    <2>5. ASSUME Transient(s) PROVE m = s.machine
      <3>1. s.machine.peek # 0
        BY <1>3, <2>5 DEF Good, Whole
      <3>2. s.machine.idle # AutoDismiss
        BY <1>1, <2>5, <3>1, BoundsNaturals DEF Good, Ranked
      <3> QED BY <2>2, <3>1, <3>2
    <2>6. ASSUME s.machine.surface.what \in Urgent PROVE m = s.machine
      <3>1. s.machine.priority = 0 /\ ~s.machine.isSneakPeek
        BY <1>1, <2>6 DEF Sound
      <3> QED BY <2>2, <3>1
    <2>7. Whole(t) /\ Ranked(t)
      BY <2>3, <2>4, <2>5 DEF Good, Whole, Ranked
    <2> QED BY <1>1, <1>3, <2>2, <2>3, <2>4, <2>5, <2>6, <2>7 DEF Good
  <1> QED BY <1>2, <1>3

\* The deadlines of store and machine come nearer together.
LEMMA PassFacts ==
    ASSUME NEW s, Good(s), NEW t,
           t = [s EXCEPT
                  !.expires = Sooner(@),
                  !.machine.peek = Sooner(@),
                  !.machine.idle = IF @ < AutoDismiss THEN @ + 1 ELSE @]
    PROVE  /\ Good(t) /\ t.queue = s.queue /\ t.steady = s.steady
           /\ t.machine.surface = s.machine.surface
           /\ Transient(t) <=> Transient(s)
  <1> DEFINE touched == IF s.machine.idle < AutoDismiss THEN s.machine.idle + 1
                        ELSE s.machine.idle
             m == [s.machine EXCEPT !.peek = Sooner(@), !.idle = touched]
  <1>1. /\ s \in Store /\ s.machine \in Machine /\ Sound(s.machine)
        /\ s.machine.peek \in 0 .. PeekTtl /\ s.machine.idle \in 0 .. AutoDismiss
        /\ s.expires \in (0 .. PeekTtl) \cup {Nothing}
    BY DEF Store, Good, Machine
  <1>2. \A n \in 0 .. PeekTtl : /\ Sooner(n) \in 0 .. PeekTtl /\ n # Nothing
                                /\ n = 0 => Sooner(n) = 0
                                /\ n > 0 => Sooner(n) = n - 1
    BY BoundsNaturals DEF Sooner
  <1>3. Sooner(Nothing) = Nothing
    BY DEF Sooner
  <1>4. touched \in 0 .. AutoDismiss /\ touched <= s.machine.idle + 1
    BY <1>1, BoundsNaturals
  <1>5. t = [s EXCEPT !.expires = Sooner(@), !.machine = m]
    BY <1>1 DEF Store, Machine
  <1> HIDE DEF touched
  <1>6. /\ m \in Machine /\ m.surface = s.machine.surface
        /\ m.priority = s.machine.priority /\ m.isSneakPeek = s.machine.isSneakPeek
        /\ m.peek = Sooner(s.machine.peek) /\ m.idle = touched
    BY <1>1, <1>2, <1>4 DEF Machine
  <1> HIDE DEF m
  <1>7. Sooner(s.expires) \in (0 .. PeekTtl) \cup {Nothing}
    BY <1>1, <1>2, <1>3
  <1>8. /\ t \in Store /\ t.machine = m /\ t.queue = s.queue /\ t.steady = s.steady
        /\ t.expires = Sooner(s.expires) /\ t.steadyPriority = s.steadyPriority
    BY <1>1, <1>5, <1>6, <1>7 DEF Store
  <1>9. Transient(t) <=> Transient(s)
    BY <1>1, <1>2, <1>3, <1>8, BoundsNaturals DEF Transient
  <1>10. Sound(m)
    BY <1>1, <1>6 DEF Sound
  <1>11. Whole(t)
    BY <1>6, <1>8, <1>9 DEF Good, Whole
  <1>12. Ranked(t)
    <2>1. ASSUME Transient(t) PROVE m.peek = 0 \/ m.idle + m.peek <= PeekTtl
      <3>1. s.machine.peek = 0 \/ s.machine.idle + s.machine.peek <= PeekTtl
        BY <1>9, <2>1 DEF Good, Ranked
      <3> QED BY <1>1, <1>2, <1>4, <1>6, <3>1, BoundsNaturals
    <2> QED BY <1>8, <2>1 DEF Good, Ranked
  <1> QED BY <1>6, <1>8, <1>9, <1>10, <1>11, <1>12 DEF Good

-----------------------------------------------------------------------------
\* The invariant.

Types ==
    /\ Len(store.queue) <= MaxQueue
    /\ screen \in Surface
    /\ hovering \in BOOLEAN
    /\ live \in SUBSET Activity
    /\ detail \in [Activity -> 0 .. 1]
    /\ open \in SUBSET Urgent
    /\ sent \in 0 .. MaxCards
    /\ quiet \in BOOLEAN /\ stray \in BOOLEAN /\ cleared \in BOOLEAN

\* The screen lags only after a restore without notice, and then a card is drawn.
Drawn ==
    /\ store.machine.surface.what \in Urgent \/ Transient(store)
          => screen = store.machine.surface
    /\ screen # store.machine.surface => screen.what \in Card
    /\ ScreenFollows

IInv ==
    /\ Types
    /\ Good(store)
    /\ Current(store, live, detail, open)
    /\ Drawn

\* The two action properties, of a step.
PinnedStep ==
    store.machine.surface.what \in Urgent
    /\ store'.machine.surface.what # store.machine.surface.what
    => \/ store'.machine.surface.what \in Urgent
       \/ store.machine.surface.what \in open \ open'
       \/ cleared'

CoverStep ==
    \A a \in Activity :
       Covered(a) /\ ~Covered(a)'
       => \/ store'.machine.surface.what \in Urgent \cup {a, SessionList}
          \/ a \notin live'
          \/ store'.steady # Nothing
          \/ stray'
          \/ cleared'

LEMMA StoreTypes ==
    ASSUME IInv
    PROVE  /\ store \in Store /\ store.machine \in Machine /\ Sound(store.machine)
           /\ store.machine.surface \in Surface /\ Len(store.queue) \in Nat
           /\ store.machine.priority \in Priority
           /\ store.steady \in Surface \cup {Nothing}
  BY LenProperties DEF IInv, Good, Store, Machine

\* A P0 card that is shown is no peek, covers nothing and is refused to whatever
\* is less urgent.
LEMMA PinnedRefuses ==
    ASSUME IInv, store.machine.surface.what \in Urgent
    PROVE  /\ ~Transient(store) /\ store.steady = Nothing /\ store.expires = Nothing
           /\ screen = store.machine.surface
           /\ \A p \in Priority : p # 0 => Refuses(store.machine, p)
  BY KindsDisjoint, StoreTypes
  DEF IInv, Drawn, Good, Whole, Transient, Sound, Refuses, Priority, Urgent

\* What every change of the store does for the invariant.
LEMMA TellKeeps ==
    ASSUME IInv, NEW t, Good(t), Len(t.queue) <= MaxQueue,
           NEW silently \in BOOLEAN, Tell(t, silently),
           Transient(t) => Transient(store) \/ t.machine.surface # store.machine.surface,
           silently => /\ Transient(store) /\ ~Transient(t)
                       /\ t.machine.surface.what \notin Urgent
    PROVE  /\ store' = t /\ Drawn' /\ Len(store'.queue) <= MaxQueue
           /\ screen' \in Surface /\ quiet' \in BOOLEAN
  <1>1. store' = t
    BY DEF Tell
  <1>2. t.machine.surface \in Surface
    BY DEF Good, Store, Machine
  <1>3. CASE silently
    <2>1. screen' = screen /\ quiet' = TRUE
      BY <1>3 DEF Tell
    <2>2. screen = store.machine.surface /\ store.machine.surface.what \in Card
      BY <1>3 DEF IInv, Drawn, Good, Whole
    <2>3. Drawn'
      BY <1>1, <1>3, <2>1, <2>2 DEF Drawn, ScreenFollows, Transient
    <2> QED BY <1>1, <2>1, <2>3 DEF IInv, Types
  <1>4. CASE ~silently /\ t.machine.surface # store.machine.surface
    <2>1. screen' = t.machine.surface /\ quiet' = FALSE
      BY <1>4 DEF Tell
    <2>2. Drawn'
      BY <1>1, <2>1 DEF Drawn, ScreenFollows
    <2> QED BY <1>1, <1>2, <2>1, <2>2
  <1>5. CASE ~silently /\ t.machine.surface = store.machine.surface
    <2>1. screen' = screen /\ quiet' = quiet
      BY <1>5 DEF Tell, IInv, Types
    <2>2. Drawn'
      BY <1>1, <1>5, <2>1 DEF IInv, Drawn, ScreenFollows, Transient
    <2> QED BY <1>1, <2>1, <2>2 DEF IInv, Types
  <1> QED BY <1>3, <1>4, <1>5

\* What a dismiss does for it: the agent's part is told apart by live and open.
LEMMA DismissesKeeps ==
    ASSUME IInv, NEW id, Dismisses(id)
    PROVE  /\ store' = Dismiss(store, id)
           /\ Good(store') /\ Drawn' /\ Len(store'.queue) <= MaxQueue
           /\ screen' \in Surface /\ quiet' \in BOOLEAN /\ stray' \in BOOLEAN
           /\ cleared' = FALSE
           /\ stray' = (stray \/ IsStray(store, id))
  <1> DEFINE t == Dismiss(store, id)
             silently == /\ Transient(store) /\ id = store.machine.surface.what
                         /\ FinishesQuietly(store)
  <1>1. /\ Tell(t, silently) /\ cleared' = FALSE
        /\ stray' = (stray \/ IsStray(store, id))
    BY DEF Dismisses, Become
  <1>2. Good(store)
    BY DEF IInv
  <1>3. Good(t) /\ Len(t.queue) <= Len(store.queue) /\ Len(t.queue) \in Nat
    <2>1. Good(t) /\ Len(t.queue) <= Len(store.queue)
      BY <1>2, DismissFacts
    <2> QED BY <2>1, LenProperties DEF Good, Store
  <1>4. Len(t.queue) <= MaxQueue
    BY <1>3, StoreTypes, BoundsNaturals DEF IInv, Types
  <1>5. Transient(t) => Transient(store)
    BY <1>2, DismissFacts
  <1>6. ASSUME silently
        PROVE  /\ Transient(store) /\ ~Transient(t)
               /\ t.machine.surface.what \notin Urgent
    <2>1. id \in Card /\ id # Nothing /\ store.steady.what \notin Urgent
          /\ store.steady # Nothing
      BY <1>2, <1>6, CardIsSurface DEF Good, Whole, Ranked
    <2>2. t = FinishTransient(store)
      BY <1>6, <2>1 DEF Dismiss
    <2>3. ~Transient(t) /\ t.machine.surface = store.steady
      BY <1>2, <1>6, <2>2, FinishFacts
    <2> QED BY <1>6, <2>1, <2>3
  <1>7. silently \in BOOLEAN /\ IsStray(store, id) \in BOOLEAN
    BY DEF IsStray, Transient, FinishesQuietly
  <1> HIDE DEF t, silently
  <1>8. /\ store' = t /\ Drawn' /\ Len(store'.queue) <= MaxQueue
        /\ screen' \in Surface /\ quiet' \in BOOLEAN
    BY <1>1, <1>3, <1>4, <1>5, <1>6, <1>7, TellKeeps
  <1>9. stray' \in BOOLEAN
    BY <1>1, <1>7 DEF IInv, Types
  <1> QED BY <1>1, <1>3, <1>8, <1>9 DEF t

-----------------------------------------------------------------------------
LEMMA InitIInv == Init => IInv
  <1> SUFFICES ASSUME Init PROVE IInv
    OBVIOUS
  <1>1. 3 \in Priority /\ AutoDismiss \in 0 .. AutoDismiss /\ 0 \in 0 .. MaxCards
        /\ 0 \in 0 .. 1 /\ MaxQueue >= 0
    BY BoundsNaturals DEF Priority
  <1> DEFINE m == [Seat(EmptySurface, 3) EXCEPT !.idle = AutoDismiss]
  <1>2. Seat(EmptySurface, 3) \in Machine
    BY <1>1, EmptyIsSurface, SeatType
  <1>3. /\ m \in Machine /\ m.surface = EmptySurface /\ m.isSneakPeek = FALSE
    BY <1>1, <1>2 DEF Machine, Seat
  <1>4. Sound(m)
    BY <1>3, EmptyIsSurface DEF Sound
  <1>5. store = [machine |-> m, steady |-> Nothing, steadyPriority |-> 3,
                 expires |-> Nothing, queue |-> <<>>]
    BY DEF Init
  <1> HIDE DEF m
  <1>6. <<>> \in Seq(Card) /\ Len(<<>>) = 0
    BY EmptySeq
  <1>7. store \in Store
    BY <1>1, <1>3, <1>5, <1>6 DEF Store
  <1>8. ~Transient(store)
    BY <1>5 DEF Transient
  <1>9. Good(store)
    BY <1>4, <1>5, <1>7, <1>8 DEF Good, Whole, Ranked
  <1>10. Current(store, live, detail, open)
    <2>1. Empty \notin Approval /\ Empty \notin Activity
      BY KindsDisjoint DEF Urgent
    <2> QED BY <1>3, <1>5, <2>1, EmptyIsSurface DEF Current, Holds
  <1>11. Drawn
    BY <1>3, <1>5 DEF Init, Drawn, ScreenFollows
  <1>12. Types
    <2>1. detail \in [Activity -> 0 .. 1]
      BY <1>1 DEF Init
    <2>2. Len(store.queue) <= MaxQueue
      BY <1>1, <1>5, <1>6
    <2>3. screen \in Surface /\ sent \in 0 .. MaxCards
      BY <1>1, EmptyIsSurface DEF Init
    <2> QED BY <2>1, <2>2, <2>3 DEF Init, Types
  <1> QED BY <1>9, <1>10, <1>11, <1>12 DEF IInv

-----------------------------------------------------------------------------
\* What the agent sends.

\* A dismiss of an id that no P0 card has, and no open approval but one that ends
\* with it: lv, op is what of live and open is left.
LEMMA DismissCurrent ==
    ASSUME IInv, NEW id, NEW lv, NEW op, NEW t, t = Dismiss(store, id),
           live \ {id} \subseteq lv, open \ {id} \subseteq op
    PROVE  Current(t, lv, detail, op)
  <1>1. Current(store, live, detail, open) /\ Good(store)
    BY DEF IInv
  <1>2. /\ Empty \notin Approval /\ Empty \notin Activity
        /\ Card \cap Approval = {} /\ Card \cap Activity = {}
    BY KindsDisjoint DEF Urgent
  <1>3. Holds(EmptySurface, lv, detail, op)
    BY <1>2, EmptyIsSurface DEF Holds
  <1>4. \A surface : surface.what \in Card => Holds(surface, lv, detail, op)
    BY <1>2 DEF Holds
  <1>5. \A surface : Holds(surface, live, detail, open) /\ surface.what # id
                        => Holds(surface, lv, detail, op)
    BY DEF Holds
  <1>6. CASE /\ Transient(store) /\ id = store.machine.surface.what /\ id \in Card
             /\ \/ /\ Transient(t) /\ t.steady = store.steady
                   /\ t.machine.surface.what \in Card
                \/ /\ ~Transient(t) /\ t.steady = Nothing
                   /\ t.machine.surface = store.steady
    <2>1. store.steady # Nothing /\ Holds(store.steady, live, detail, open)
      BY <1>1, <1>6 DEF Current, Good, Whole
    <2>2. Holds(store.steady, lv, detail, op)
      BY <1>2, <1>6, <2>1 DEF Holds
    <2> QED BY <1>4, <1>6, <2>2 DEF Current
  <1>7. CASE /\ Transient(store) /\ t.machine = store.machine /\ t.steady = EmptySurface
    <2>1. store.machine.surface.what \in Card
      BY <1>1, <1>7 DEF Good, Whole
    <2> QED BY <1>3, <1>4, <1>7, <2>1 DEF Current
  <1>8. CASE /\ t.steady = Nothing
             /\ \/ /\ t.machine = store.machine
                   /\ store.machine.surface.what = Empty
                      \/ id \notin {Nothing, store.machine.surface.what}
                \/ t.machine.surface = EmptySurface
    <2>1. Holds(t.machine.surface, lv, detail, op)
      <3>1. CASE t.machine.surface = EmptySurface
        BY <1>3, <3>1
      <3>2. CASE t.machine = store.machine /\ store.machine.surface.what = Empty
        BY <1>2, <3>2 DEF Holds
      <3>3. CASE t.machine = store.machine /\ store.machine.surface.what # id
        BY <1>1, <1>5, <3>3 DEF Current
      <3> QED BY <1>8, <3>1, <3>2, <3>3
    <2> QED BY <1>8, <2>1 DEF Current
  <1> QED BY <1>1, <1>6, <1>7, <1>8, DismissFacts

\* A dismiss by id takes a P0 card only if it names it, and what a card covers
\* only if it names that.
LEMMA DismissSteps ==
    ASSUME IInv, NEW id, id # Nothing, Dismisses(id),
           store.machine.surface.what = id => id \notin Urgent \/ id \in open \ open',
           id \in Activity => id \notin live'
    PROVE  PinnedStep /\ CoverStep
  <1> DEFINE t == Dismiss(store, id)
  <1>1. /\ store' = t /\ Good(store) /\ t = Dismiss(store, id)
        /\ stray' = (stray \/ IsStray(store, id))
    BY DismissesKeeps DEF IInv
  <1> HIDE DEF t
  <1>2. PinnedStep
    <2> SUFFICES ASSUME store.machine.surface.what \in Urgent,
                        t.machine.surface.what # store.machine.surface.what
                 PROVE  store.machine.surface.what \in open \ open'
      BY <1>1 DEF PinnedStep
    <2>1. ~Transient(store)
      BY PinnedRefuses
    <2>2. store.machine.surface.what = id
      BY <1>1, <2>1, DismissFacts
    <2> QED BY <2>2
  <1>3. CoverStep
    <2> SUFFICES ASSUME NEW a \in Activity, Transient(store), store.steady.what = a,
                        ~(Transient(t) /\ t.steady.what = a)
                 PROVE  \/ t.machine.surface.what = a
                        \/ a \notin live'
                        \/ stray'
      BY <1>1 DEF CoverStep, Covered, Transient
    <2>1. \/ t.machine.surface = store.steady
          \/ store.steady.what = id
          \/ IsStray(store, id)
      BY <1>1, DismissFacts
    <2> QED BY <1>1, <2>1
  <1> QED BY <1>2, <1>3

\* What is presented, for the two action properties: P0 stays, what is covered is
\* replaced or gives way to the list.
LEMMA PresentSteps ==
    ASSUME IInv, NEW surface, NEW p, Fits(surface, p), p = 0 => surface.what \in Urgent,
           NEW t, t = Present(store, surface, p), store' = t
    PROVE  PinnedStep /\ CoverStep
  <1>1. Good(store) /\ p \in Priority
    BY DEF IInv, Fits
  <1>2. PinnedStep
    <2> SUFFICES ASSUME store.machine.surface.what \in Urgent,
                        t.machine.surface.what # store.machine.surface.what
                 PROVE  t.machine.surface.what \in Urgent
      BY DEF PinnedStep
    <2>1. ~Transient(store) /\ \A q \in Priority : q # 0 => Refuses(store.machine, q)
      BY PinnedRefuses
    <2>2. t.machine.surface = surface /\ ~Refuses(store.machine, p)
      BY <1>1, <2>1, PresentStoreFacts
    <2> QED BY <1>1, <2>1, <2>2
  <1>3. CoverStep
    <2> SUFFICES ASSUME NEW a \in Activity, Transient(store), store.steady.what = a,
                        ~(Transient(t) /\ t.steady.what = a)
                 PROVE  \/ t.machine.surface.what \in Urgent
                        \/ t.steady # Nothing
      BY DEF CoverStep, Covered, Transient
    <2>1. CASE p # 0
      <3>1. t = store \/ t.steady = surface
        BY <1>1, <2>1, PresentStoreFacts
      <3>2. surface # Nothing
        BY NothingApart DEF Fits
      <3> QED BY <3>1, <3>2
    <2>2. CASE p = 0
      <3>1. store.machine.isSneakPeek
        BY <1>1 DEF Good, Whole
      <3>2. ~Refuses(store.machine, p)
        BY <3>1 DEF Refuses
      <3>3. t.machine.surface = surface
        BY <1>1, <2>2, <3>2, PresentStoreFacts
      <3> QED BY <2>2, <3>3
    <2> QED BY <2>1, <2>2
  <1> QED BY <1>2, <1>3

\* And for the invariant, with a surface that agrees with the agent.
LEMMA PresentKeeps ==
    ASSUME IInv, NEW surface, NEW p, Fits(surface, p),
           NEW t, t = Present(store, surface, p),
           NEW silently \in BOOLEAN, ~silently, Tell(t, silently),
           live \subseteq live', open \subseteq open',
           Holds(surface, live', detail, open')
    PROVE  /\ store' = t /\ Good(t) /\ Drawn' /\ Len(store'.queue) <= MaxQueue
           /\ screen' \in Surface /\ quiet' \in BOOLEAN
           /\ Current(t, live', detail, open')
  <1>1. Good(store) /\ Current(store, live, detail, open)
    BY DEF IInv
  <1>2. Good(t) /\ Len(t.queue) <= MaxQueue
    <2>1. Good(t) /\ Len(t.queue) <= Len(store.queue) /\ Len(t.queue) \in Nat
      BY <1>1, PresentStoreFacts, LenProperties DEF Good, Store
    <2> QED BY <2>1, StoreTypes, BoundsNaturals DEF IInv, Types
  <1>3. Transient(t) => Transient(store)
    BY <1>1, PresentStoreFacts
  <1>4. /\ store' = t /\ Drawn' /\ Len(store'.queue) <= MaxQueue
        /\ screen' \in Surface /\ quiet' \in BOOLEAN
    BY <1>2, <1>3, TellKeeps
  <1>5. \A x : Holds(x, live, detail, open) => Holds(x, live', detail, open')
    BY DEF Holds
  <1>6. Current(t, live', detail, open')
    BY <1>1, <1>5, PresentStoreFacts DEF Current
  <1> QED BY <1>2, <1>4, <1>6

-----------------------------------------------------------------------------
\* Every step keeps the invariant and has the two action properties.
AllKept == IInv' /\ PinnedStep /\ CoverStep

LEMMA PresentActivityStep ==
    ASSUME IInv, NEW a \in Activity, PresentActivity(a)
    PROVE  AllKept
  <1> DEFINE surface == [what |-> a, detail |-> detail[a]]
             t == Present(store, surface, 2)
  <1>1. a \notin Urgent
    BY KindsDisjoint
  <1>2. Fits(surface, 2)
    BY <1>1 DEF Fits, Surface, Priority, IInv, Types
  <1>3. Holds(surface, live', detail, open')
    BY <1>1 DEF Holds, PresentActivity, Urgent
  <1>4. Tell(t, FALSE) /\ cleared' = FALSE
    BY DEF PresentActivity, Become
  <1> HIDE DEF surface
  <1>5. t = Present(store, surface, 2)
    OBVIOUS
  <1> HIDE DEF t
  <1>6. live \subseteq live' /\ open \subseteq open'
    BY DEF PresentActivity
  <1>7. /\ store' = t /\ Good(t) /\ Drawn' /\ Len(store'.queue) <= MaxQueue
        /\ screen' \in Surface /\ quiet' \in BOOLEAN
        /\ Current(t, live', detail, open')
    BY <1>2, <1>3, <1>4, <1>5, <1>6, PresentKeeps DEF Tell
  <1>8. PinnedStep /\ CoverStep
    BY <1>2, <1>5, <1>7, PresentSteps
  <1>9. Types'
    BY <1>4, <1>7 DEF PresentActivity, IInv, Types
  <1> QED BY <1>7, <1>8, <1>9 DEF PresentActivity, IInv, AllKept

LEMMA AskStep ==
    ASSUME IInv, NEW x \in Urgent, Ask(x)
    PROVE  AllKept
  <1> DEFINE t == Present(store, Showing(x), 0)
  <1>1. Showing(x).what = x /\ Fits(Showing(x), 0)
    BY DEF Fits, Showing, Surface, Priority
  <1>2. Holds(Showing(x), live', detail, open')
    BY <1>1, KindsDisjoint DEF Holds, Ask
  <1>3. Tell(t, FALSE) /\ cleared' = FALSE /\ t = Present(store, Showing(x), 0)
    BY DEF Ask, Become
  <1> HIDE DEF t
  <1>4. live \subseteq live' /\ open \subseteq open'
    BY DEF Ask
  <1>5. /\ store' = t /\ Good(t) /\ Drawn' /\ Len(store'.queue) <= MaxQueue
        /\ screen' \in Surface /\ quiet' \in BOOLEAN
        /\ Current(t, live', detail, open')
    BY <1>1, <1>2, <1>3, <1>4, PresentKeeps DEF Tell
  <1>6. PinnedStep /\ CoverStep
    BY <1>1, <1>3, <1>5, PresentSteps
  <1>7. Types'
    BY <1>3, <1>5 DEF Ask, IInv, Types
  <1> QED BY <1>5, <1>6, <1>7 DEF Ask, IInv, AllKept

\* The session list, from a row, a tap or the pointer.
LEMMA OpenListStep ==
    ASSUME IInv, Become(OpenList(store), FALSE), UNCHANGED <<Agent, stray>>,
           hovering' \in BOOLEAN
    PROVE  AllKept
  <1> DEFINE list == Showing(SessionList)
             t == Present(store, list, 1)
  <1>1. /\ list \in Surface /\ list.what = SessionList
        /\ SessionList \notin Urgent \cup Activity
    BY KindsDisjoint DEF Showing, Surface
  <1>2. Fits(list, 1) /\ Holds(list, live', detail, open')
        /\ live \subseteq live' /\ open \subseteq open'
    BY <1>1 DEF Fits, Priority, Holds, Urgent, Agent
  <1>3. Tell(t, FALSE) /\ cleared' = FALSE
    BY DEF OpenList, Become
  <1> HIDE DEF list
  <1>4. t = Present(store, list, 1)
    OBVIOUS
  <1> HIDE DEF t
  <1>5. /\ store' = t /\ Good(t) /\ Drawn' /\ Len(store'.queue) <= MaxQueue
        /\ screen' \in Surface /\ quiet' \in BOOLEAN
        /\ Current(t, live', detail, open')
    BY <1>2, <1>3, <1>4, PresentKeeps DEF Tell
  <1>6. PinnedStep /\ CoverStep
    BY <1>2, <1>4, <1>5, PresentSteps
  <1>7. Types'
    BY <1>3, <1>5 DEF Agent, IInv, Types
  <1> QED BY <1>5, <1>6, <1>7 DEF Agent, IInv, AllKept

LEMMA DismissStep ==
    ASSUME IInv, NEW id, id # Nothing, Dismisses(id),
           live' \in SUBSET Activity, open' \in SUBSET Urgent,
           live \ {id} \subseteq live', open \ {id} \subseteq open',
           store.machine.surface.what = id => id \notin Urgent \/ id \in open \ open',
           id \in Activity => id \notin live',
           UNCHANGED <<hovering, detail, sent>>
    PROVE  AllKept
  <1>1. /\ store' = Dismiss(store, id)
        /\ Good(store') /\ Drawn' /\ Len(store'.queue) <= MaxQueue
        /\ screen' \in Surface /\ quiet' \in BOOLEAN /\ stray' \in BOOLEAN
        /\ cleared' = FALSE
    BY DismissesKeeps
  <1>2. Current(store', live', detail, open')
    BY <1>1, DismissCurrent
  <1>3. PinnedStep /\ CoverStep
    BY DismissSteps
  <1>4. Types'
    BY <1>1 DEF IInv, Types
  <1> QED BY <1>1, <1>2, <1>3, <1>4 DEF IInv, AllKept

LEMMA EndActivityStep ==
    ASSUME IInv, NEW a \in Activity, EndActivity(a)
    PROVE  AllKept
  <1>1. a # Nothing /\ a \notin Urgent
    BY KindsDisjoint
  <1>2. live' = live \ {a} /\ Dismisses(a) /\ UNCHANGED <<hovering, detail, open, sent>>
    BY DEF EndActivity
  <1>3. live' \in SUBSET Activity /\ open' \in SUBSET Urgent
    BY <1>2 DEF IInv, Types
  <1> QED BY <1>1, <1>2, <1>3, DismissStep

LEMMA ResolveApprovalStep ==
    ASSUME IInv, NEW x \in Approval, ResolveApproval(x)
    PROVE  AllKept
  <1>1. x # Nothing /\ x \notin Activity
    BY KindsDisjoint DEF Urgent
  <1>2. x \in open /\ open' = open \ {x} /\ Dismisses(x)
        /\ UNCHANGED <<hovering, live, detail, sent>>
    BY DEF ResolveApproval
  <1>3. live' \in SUBSET Activity /\ open' \in SUBSET Urgent
    BY <1>2 DEF IInv, Types
  <1> QED BY <1>1, <1>2, <1>3, DismissStep

LEMMA DismissElsewhereStep ==
    ASSUME IInv, NEW id \in Elsewhere, DismissElsewhere(id)
    PROVE  AllKept
  <1>1. id # Nothing /\ id \notin Activity /\ id \notin Urgent
    BY KindsDisjoint
  <1>2. Dismisses(id) /\ UNCHANGED <<hovering, live, detail, open, sent>>
    BY DEF DismissElsewhere, Agent
  <1>3. live' \in SUBSET Activity /\ open' \in SUBSET Urgent
    BY <1>2 DEF IInv, Types
  <1> QED BY <1>1, <1>2, <1>3, DismissStep

LEMMA CloseListStep ==
    ASSUME IInv, CloseList
    PROVE  AllKept
  <1>1. /\ screen.what = SessionList /\ Dismisses(Nothing)
        /\ UNCHANGED <<hovering, live, detail, open, sent>>
    BY DEF CloseList, Agent
  <1>2. /\ store' = Dismiss(store, Nothing)
        /\ Good(store') /\ Drawn' /\ Len(store'.queue) <= MaxQueue
        /\ screen' \in Surface /\ quiet' \in BOOLEAN /\ stray' \in BOOLEAN
        /\ cleared' = FALSE
    BY <1>1, DismissesKeeps
  <1>3. Current(store', live, detail, open)
    BY <1>2, DismissCurrent
  <1>4. ~Transient(store) /\ store.machine.surface.what \notin Urgent
    <2>1. SessionList \notin Card \cup Urgent
      BY KindsDisjoint
    <2>2. CASE Transient(store)
      BY <1>1, <2>1, <2>2 DEF IInv, Drawn, Good, Whole
    <2>3. CASE store.machine.surface.what \in Urgent
      BY <1>1, <2>1, <2>3 DEF IInv, Drawn
    <2> QED BY <2>2, <2>3
  <1>5. PinnedStep /\ CoverStep
    BY <1>4 DEF PinnedStep, CoverStep, Covered
  <1>6. Types'
    BY <1>1, <1>2 DEF IInv, Types
  <1> QED BY <1>1, <1>2, <1>3, <1>5, <1>6 DEF IInv, AllKept

LEMMA DemoClearStep ==
    ASSUME IInv, DemoClear
    PROVE  AllKept
  <1> DEFINE buildless == IF Build \in live THEN Dismiss(store, Build) ELSE store
             t == Dismiss(buildless, Nothing)
  <1>1. /\ Tell(t, FALSE) /\ open' = open \ Approval /\ live' = live \ {Build}
        /\ cleared' = TRUE /\ UNCHANGED <<hovering, detail, sent, stray>>
    BY DEF DemoClear
  <1>2. Good(store)
    BY DEF IInv
  <1>3. Good(buildless) /\ Len(buildless.queue) <= Len(store.queue)
    BY <1>2, StoreTypes, DismissFacts
  <1> HIDE DEF buildless
  <1>4. /\ Good(t) /\ Len(t.queue) <= Len(buildless.queue)
        /\ ~Transient(t) /\ t.steady = Nothing
        /\ t.machine.surface.what = Empty
    <2>1. Nothing \notin Card /\ EmptySurface.what = Empty
      BY KindsDisjoint, EmptyIsSurface
    <2>2. \A s : Transient(s) => s.expires # Nothing
      BY DEF Transient
    <2>3. buildless.steady.what = Nothing => ~Transient(buildless) \/ buildless.steady = Nothing
      <3>1. ASSUME buildless.steady \in Surface PROVE buildless.steady.what # Nothing
        BY <3>1, KindsDisjoint DEF Surface
      <3> QED BY <1>3, <3>1 DEF Good, Store
    <2>4. Transient(buildless) => buildless.steady # Nothing
      BY <1>3 DEF Good, Whole
    <2> QED BY <1>3, <2>1, <2>3, <2>4, DismissFacts
  <1> HIDE DEF t
  <1>5. Len(t.queue) <= MaxQueue
    <2>1. Len(t.queue) \in Nat /\ Len(buildless.queue) \in Nat
      BY <1>3, <1>4, LenProperties DEF Good, Store
    <2> QED BY <1>3, <1>4, <2>1, StoreTypes, BoundsNaturals DEF IInv, Types
  <1>6. /\ store' = t /\ Drawn' /\ Len(store'.queue) <= MaxQueue
        /\ screen' \in Surface /\ quiet' \in BOOLEAN
    BY <1>1, <1>4, <1>5, TellKeeps
  <1>7. Current(t, live', detail, open')
    BY <1>4, KindsDisjoint DEF Current, Holds, Urgent
  <1>8. PinnedStep /\ CoverStep
    BY <1>1 DEF PinnedStep, CoverStep
  <1>9. Types'
    BY <1>1, <1>6 DEF IInv, Types
  <1> QED BY <1>1, <1>4, <1>6, <1>7, <1>8, <1>9 DEF IInv, AllKept

LEMMA UpdateActivityStep ==
    ASSUME IInv, NEW a \in Activity, UpdateActivity(a)
    PROVE  AllKept
  <1> DEFINE d == 1 - detail[a]
  <1>1. PICK reseat \in BOOLEAN : Become(Update(store, a, d, reseat), FALSE)
    BY DEF UpdateActivity
  <1> DEFINE t == Update(store, a, d, reseat)
  <1>2. /\ a \in live /\ detail' = [detail EXCEPT ![a] = d] /\ Tell(t, FALSE)
        /\ cleared' = FALSE /\ UNCHANGED <<hovering, live, open, sent, stray>>
        /\ detail' \in [Activity -> 0 .. 1] /\ d \in 0 .. 1
    <2>1. detail[a] \in 0 .. 1 /\ detail \in [Activity -> 0 .. 1]
      BY DEF IInv, Types
    <2>2. d \in 0 .. 1
      BY <2>1
    <2> HIDE DEF d
    <2>3. [detail EXCEPT ![a] = d] \in [Activity -> 0 .. 1]
      BY <2>1, <2>2
    <2>4. a \in live /\ detail' = [detail EXCEPT ![a] = d]
      BY DEF UpdateActivity, d
    <2> QED BY <1>1, <2>2, <2>3, <2>4 DEF UpdateActivity, Become
  <1>3. Good(store) /\ Current(store, live, detail, open)
    BY DEF IInv
  <1> HIDE DEF d
  <1>4. t = Update(store, a, d, reseat)
    OBVIOUS
  <1> HIDE DEF t
  <1>5. /\ Good(t) /\ t.queue = store.queue /\ (Transient(t) <=> Transient(store))
        /\ \/ /\ Transient(store) /\ store.steady.what = a
              /\ t.machine = store.machine
              /\ t.steady.what = a /\ t.steady.detail = d /\ t.steady # Nothing
           \/ /\ t.steady = store.steady
              /\ store.steady # Nothing => store.steady.what # a
              /\ \/ store.machine.surface.what # a /\ t.machine = store.machine
                 \/ /\ store.machine.surface.what = a /\ ~Transient(store)
                    /\ t.machine.surface.what = a
                    /\ t.machine.surface.detail = d
    BY <1>2, <1>3, <1>4, UpdateFacts
  <1>6. /\ store' = t /\ Drawn' /\ Len(store'.queue) <= MaxQueue
        /\ screen' \in Surface /\ quiet' \in BOOLEAN
    BY <1>2, <1>5, TellKeeps DEF IInv, Types
  <1>7. Current(t, live, detail', open)
    <2>1. \A x : Holds(x, live, detail, open) /\ x.what # a
                    => Holds(x, live, detail', open)
      BY <1>2 DEF Holds, IInv, Types
    <2>2. \A x : x.what = a /\ x.detail = d => Holds(x, live, detail', open)
      BY <1>2, KindsDisjoint DEF Holds, IInv, Types, Urgent
    <2>3. Transient(store) => store.machine.surface.what # a
      BY <1>3, KindsDisjoint DEF Good, Whole
    <2> QED BY <1>3, <1>5, <2>1, <2>2, <2>3 DEF Current
  <1>8. PinnedStep /\ CoverStep
    BY <1>5, <1>6 DEF PinnedStep, CoverStep, Covered, Transient
  <1>9. Types'
    BY <1>2, <1>6 DEF IInv, Types
  <1> QED BY <1>2, <1>5, <1>6, <1>7, <1>8, <1>9 DEF IInv, AllKept

LEMMA ShowCardStep ==
    ASSUME IInv, NEW c \in Card, ShowCard(c)
    PROVE  AllKept
  <1> DEFINE t == PresentTransient(store, c)
  <1>1. /\ sent < MaxCards /\ Len(store.queue) < MaxQueue /\ sent' = sent + 1
        /\ Tell(t, FALSE) /\ cleared' = FALSE
        /\ UNCHANGED <<hovering, live, detail, open, stray>>
    BY DEF ShowCard, Become
  <1>2. Good(store) /\ Current(store, live, detail, open)
    BY DEF IInv
  <1>3. t = PresentTransient(store, c)
    OBVIOUS
  <1> HIDE DEF t
  <1>4. /\ Good(t) /\ Len(t.queue) <= Len(store.queue) + 1
        /\ \/ /\ t.machine.surface = store.machine.surface /\ t.steady = store.steady
              /\ Transient(t) <=> Transient(store)
           \/ /\ ~Transient(store) /\ Transient(t)
              /\ ~Refuses(store.machine, CardPriority[c])
              /\ t.machine.surface = Showing(c)
              /\ t.machine.surface # store.machine.surface
              /\ t.steady = store.machine.surface
    BY <1>2, <1>3, PresentTransientFacts
  <1>5. Len(t.queue) <= MaxQueue
    <2>1. Len(t.queue) \in Nat
      BY <1>4, LenProperties DEF Good, Store
    <2> QED BY <1>1, <1>4, <2>1, StoreTypes, BoundsNaturals
  <1>6. /\ store' = t /\ Drawn' /\ Len(store'.queue) <= MaxQueue
        /\ screen' \in Surface /\ quiet' \in BOOLEAN
    BY <1>1, <1>4, <1>5, TellKeeps
  <1>7. Current(t, live, detail, open)
    <2>1. Holds(Showing(c), live, detail, open)
      BY CardIsSurface DEF Holds
    <2> QED BY <1>2, <1>4, <2>1 DEF Current
  <1>8. PinnedStep
    <2>1. CASE store.machine.surface.what \in Urgent
      <3>1. Refuses(store.machine, CardPriority[c])
        BY <2>1, PinnedRefuses, CardIsSurface
      <3> QED BY <1>4, <1>6, <3>1 DEF PinnedStep
    <2>2. CASE store.machine.surface.what \notin Urgent
      BY <2>2 DEF PinnedStep
    <2> QED BY <2>1, <2>2
  <1>9. CoverStep
    BY <1>4, <1>6 DEF CoverStep, Covered, Transient
  <1>10. Types'
    <2>1. sent' \in 0 .. MaxCards
      BY <1>1, BoundsNaturals DEF IInv, Types
    <2> QED BY <1>1, <1>6, <2>1 DEF IInv, Types
  <1> QED BY <1>1, <1>4, <1>6, <1>7, <1>8, <1>9, <1>10 DEF IInv, AllKept

LEMMA TickStep ==
    ASSUME IInv, Tick
    PROVE  AllKept
  <1> DEFINE t == TickStore(store)
             silently == store.expires = 0 /\ FinishesQuietly(store)
  <1>1. /\ Tell(t, silently) /\ cleared' = FALSE
        /\ UNCHANGED <<hovering, live, detail, open, sent, stray>>
    BY DEF Tick, Become, Agent
  <1>2. Good(store) /\ Current(store, live, detail, open)
    BY DEF IInv
  <1>3. t = TickStore(store)
    OBVIOUS
  <1>4. silently \in BOOLEAN
    BY DEF FinishesQuietly
  <1>5. silently <=> store.expires = 0 /\ FinishesQuietly(store)
    OBVIOUS
  <1> HIDE DEF t, silently
  <1>6. /\ Good(t) /\ Len(t.queue) <= Len(store.queue)
        /\ \/ /\ store.expires = 0 /\ Transient(store)
              /\ \/ /\ Transient(t) /\ t.steady = store.steady
                    /\ t.machine.surface.what \in Card /\ ~FinishesQuietly(store)
                 \/ /\ ~Transient(t) /\ t.steady = Nothing
                    /\ t.machine.surface = store.steady
           \/ /\ store.expires # 0 /\ t.steady = store.steady
              /\ Transient(t) <=> Transient(store)
              /\ \/ t.machine = store.machine
                 \/ /\ ~Transient(store) /\ t.machine.surface = EmptySurface
                    /\ store.machine.surface.what \notin Urgent
    BY <1>2, <1>3, TickFacts
  <1>7. Transient(store) => store.steady # Nothing /\ store.steady.what \notin Urgent
    BY <1>2 DEF Good, Whole, Ranked
  <1>8. Len(t.queue) <= MaxQueue
    <2>1. Len(t.queue) \in Nat
      BY <1>6, LenProperties DEF Good, Store
    <2> QED BY <1>6, <2>1, StoreTypes, BoundsNaturals DEF IInv, Types
  <1>9. Transient(t) => Transient(store)
    BY <1>6
  <1>10. silently => /\ Transient(store) /\ ~Transient(t)
                     /\ t.machine.surface.what \notin Urgent
    BY <1>5, <1>6, <1>7
  <1>11. /\ store' = t /\ Drawn' /\ Len(store'.queue) <= MaxQueue
         /\ screen' \in Surface /\ quiet' \in BOOLEAN
    BY <1>1, <1>4, <1>6, <1>8, <1>9, <1>10, TellKeeps
  <1>12. Current(t, live, detail, open)
    <2>1. Holds(EmptySurface, live, detail, open)
      BY EmptyIsSurface, KindsDisjoint DEF Holds, Urgent
    <2>2. \A x : x.what \in Card => Holds(x, live, detail, open)
      BY KindsDisjoint DEF Holds, Urgent
    <2> QED BY <1>2, <1>6, <1>7, <2>1, <2>2 DEF Current
  <1>13. PinnedStep
    <2>1. CASE store.machine.surface.what \in Urgent
      <3>1. ~Transient(store)
        BY <2>1, PinnedRefuses
      <3> QED BY <1>6, <1>11, <2>1, <3>1 DEF PinnedStep
    <2>2. CASE store.machine.surface.what \notin Urgent
      BY <2>2 DEF PinnedStep
    <2> QED BY <2>1, <2>2
  <1>14. CoverStep
    BY <1>6, <1>11 DEF CoverStep, Covered, Transient
  <1>15. Types'
    BY <1>1, <1>11 DEF IInv, Types
  <1> QED BY <1>1, <1>6, <1>11, <1>12, <1>13, <1>14, <1>15 DEF IInv, AllKept

LEMMA PassStep ==
    ASSUME IInv, Pass
    PROVE  AllKept
  <1> DEFINE t == [store EXCEPT
                     !.expires = Sooner(@),
                     !.machine.peek = Sooner(@),
                     !.machine.idle = IF @ < AutoDismiss THEN @ + 1 ELSE @]
  <1>1. /\ store' = t /\ cleared' = FALSE
        /\ UNCHANGED <<screen, hovering, live, detail, open, sent, quiet, stray>>
    BY DEF Pass, Agent
  <1>2. Good(store) /\ Current(store, live, detail, open)
    BY DEF IInv
  <1>3. /\ Good(t) /\ t.queue = store.queue /\ t.steady = store.steady
        /\ t.machine.surface = store.machine.surface
        /\ Transient(t) <=> Transient(store)
    BY <1>2, PassFacts
  <1> HIDE DEF t
  <1>4. Current(t, live, detail, open)
    BY <1>2, <1>3 DEF Current
  <1>5. Types' /\ Drawn'
    BY <1>1, <1>3 DEF IInv, Types, Drawn, ScreenFollows, Transient
  <1>6. PinnedStep /\ CoverStep
    BY <1>1, <1>3 DEF PinnedStep, CoverStep, Covered, Transient
  <1> QED BY <1>1, <1>3, <1>4, <1>5, <1>6 DEF IInv, AllKept

\* The pointer over a card: the card is kept, and the list takes its place.
LEMMA HoverEnterStep ==
    ASSUME IInv, HoverEnter, Transient(store)
    PROVE  AllKept
  <1> DEFINE s == Promote(store)
             list == Showing(SessionList)
             t == Present(s, list, 1)
  <1>1. /\ Tell(t, FALSE) /\ cleared' = FALSE
        /\ UNCHANGED <<hovering, live, detail, open, sent, stray>>
    BY DEF HoverEnter, Become, OpenList, Agent
  <1>2. Good(store)
    BY DEF IInv
  <1>3. /\ Good(s) /\ Len(s.queue) <= Len(store.queue)
        /\ ~Transient(s) /\ s.machine.priority # 0 /\ ~s.machine.isSneakPeek
    BY <1>2, PromoteFacts
  <1>4. /\ list \in Surface /\ list.what = SessionList
        /\ SessionList \notin Urgent \cup Activity
    BY KindsDisjoint DEF Showing, Surface
  <1>5. Fits(list, 1) /\ Holds(list, live, detail, open)
    BY <1>4 DEF Fits, Priority, Holds, Urgent
  <1>6. ~Refuses(s.machine, 1)
    <2>1. s.machine.priority \in Priority
      BY <1>3 DEF Good, Store, Machine
    <2> QED BY <1>3, <2>1 DEF Refuses, Priority
  <1> HIDE DEF s, list
  <1>7. /\ Good(t) /\ Len(t.queue) <= Len(s.queue) /\ ~Transient(t)
        /\ t.steady = Nothing /\ t.machine.surface = list
    BY <1>3, <1>5, <1>6, PresentStoreFacts
  <1> HIDE DEF t
  <1>8. Len(t.queue) <= MaxQueue
    <2>1. Len(t.queue) \in Nat /\ Len(s.queue) \in Nat
      BY <1>3, <1>7, LenProperties DEF Good, Store
    <2> QED BY <1>3, <1>7, <2>1, StoreTypes, BoundsNaturals DEF IInv, Types
  <1>9. /\ store' = t /\ Drawn' /\ Len(store'.queue) <= MaxQueue
        /\ screen' \in Surface /\ quiet' \in BOOLEAN
    BY <1>1, <1>7, <1>8, TellKeeps
  <1>10. Current(t, live, detail, open)
    BY <1>5, <1>7 DEF Current
  <1>11. PinnedStep
    <2>1. store.machine.surface.what \notin Urgent
      BY PinnedRefuses
    <2> QED BY <2>1 DEF PinnedStep
  <1>12. CoverStep
    BY <1>4, <1>7, <1>9 DEF CoverStep
  <1>13. Types'
    BY <1>1, <1>9 DEF IInv, Types
  <1> QED BY <1>1, <1>7, <1>9, <1>10, <1>11, <1>12, <1>13 DEF IInv, AllKept

\* Steps that leave the island alone.
LEMMA IdleStep ==
    ASSUME IInv, UNCHANGED <<store, screen, live, detail, sent, quiet, stray>>,
           hovering' \in BOOLEAN, open' \in SUBSET open, cleared' \in BOOLEAN,
           open \cap Approval \subseteq open'
    PROVE  AllKept
  <1>1. Types' /\ Drawn'
    BY DEF IInv, Types, Drawn, ScreenFollows, Transient
  <1>2. Current(store, live, detail, open')
    BY DEF IInv, Current, Holds
  <1>3. PinnedStep /\ CoverStep
    BY DEF PinnedStep, CoverStep, Covered, Transient
  <1> QED BY <1>1, <1>2, <1>3 DEF IInv, AllKept

LEMMA StepAllKept ==
    ASSUME IInv, Next
    PROVE  AllKept
  <1>1. ASSUME NEW q \in Question, AnswerQuestion(q) PROVE AllKept
    <2>1. /\ UNCHANGED <<store, screen, live, detail, sent, quiet, stray>>
          /\ open' \in SUBSET open /\ cleared' = FALSE
          /\ open \cap Approval \subseteq open' /\ hovering' = hovering
      BY <1>1, KindsDisjoint DEF AnswerQuestion
    <2> QED BY <2>1, IdleStep DEF IInv, Types
  <1>2. CASE HoverEnter
    <2>1. CASE Transient(store)
      BY <1>2, <2>1, HoverEnterStep
    <2>2. CASE ~Transient(store)
      BY <1>2, <2>2, IdleStep DEF HoverEnter, Agent
    <2> QED BY <2>1, <2>2
  <1>3. CASE HoverOpens
    BY <1>3, OpenListStep DEF HoverOpens
  <1>4. CASE HoverCancels
    BY <1>4, IdleStep DEF HoverCancels, Agent
  <1>5. CASE RowsOpenList
    <2>1. /\ Become(OpenList(store), FALSE) /\ UNCHANGED <<Agent, stray>>
          /\ hovering' \in BOOLEAN
      BY <1>5 DEF RowsOpenList, IInv, Types
    <2> QED BY <2>1, OpenListStep
  <1>6. CASE TapOpensList
    <2>1. /\ Become(OpenList(store), FALSE) /\ UNCHANGED <<Agent, stray>>
          /\ hovering' \in BOOLEAN
      BY <1>6 DEF TapOpensList, IInv, Types
    <2> QED BY <2>1, OpenListStep
  <1> QED
    BY <1>1, <1>2, <1>3, <1>4, <1>5, <1>6, PresentActivityStep, UpdateActivityStep,
       EndActivityStep, ShowCardStep, AskStep, ResolveApprovalStep,
       DismissElsewhereStep, DemoClearStep, CloseListStep, TickStep, PassStep
    DEF Next

LEMMA StepIInv == IInv /\ [Next]_vars => IInv'
  <1> SUFFICES ASSUME IInv, [Next]_vars PROVE IInv'
    OBVIOUS
  <1>1. CASE Next
    BY <1>1, StepAllKept DEF AllKept
  <1>2. CASE UNCHANGED vars
    BY <1>2 DEF vars, IInv, Types, Drawn, ScreenFollows, Transient
  <1> QED BY <1>1, <1>2

LEMMA Invariance == Spec => []IInv
  BY InitIInv, StepIInv, PTL DEF Spec

-----------------------------------------------------------------------------
\* The store, its machine, its queue and what is drawn keep their types, deadlines
\* included, and no more cards wait than the bound on them.
THEOREM TypeCorrect == Spec => []TypeOK
  <1>1. IInv => TypeOK
    <2> SUFFICES ASSUME IInv PROVE TypeOK
      OBVIOUS
    <2>1. store \in Store /\ Types
      BY DEF IInv, Good
    <2>2. \A i \in 1 .. Len(store.queue) : store.queue[i] \in Card
      BY <2>1, ElementOfSeq DEF Store
    <2> QED BY <2>1, <2>2 DEF Store, Types, TypeOK
  <1> QED BY <1>1, Invariance, PTL

\* presentTransient, finishCurrentTransient, dismiss, update and promote change the
\* store's deadline and the machine's together: no order of cards, dismissals,
\* gestures and ticks leaves one of them without the other.
THEOREM PeekWhole == Spec => []PeekIsWhole
  <1>1. IInv => PeekIsWhole
    BY DEF IInv, Good, Whole, PeekIsWhole
  <1> QED BY <1>1, Invariance, PTL

\* The copy under a card follows what the agent updates and takes down, so that what
\* is restored and drawn is true.
THEOREM ShownTrue == Spec => []ShownIsTrue
  <1>1. IInv => ShownIsTrue
    <2> SUFFICES ASSUME IInv PROVE ShownIsTrue
      OBVIOUS
    <2>1. CASE screen = store.machine.surface
      BY <2>1 DEF IInv, Current, Holds, ShownIsTrue
    <2>2. CASE screen # store.machine.surface
      BY <2>2, KindsDisjoint DEF IInv, Drawn, ShownIsTrue, Urgent
    <2> QED BY <2>1, <2>2
  <1> QED BY <1>1, Invariance, PTL

\* Whatever cards end and gestures fall, the screen lags behind the store only after a
\* restore that gave no notice (emitSteadyRestore).
THEOREM ScreenIsTold == Spec => []ScreenFollows
  <1>1. IInv => ScreenFollows
    BY DEF IInv, Drawn
  <1> QED BY <1>1, Invariance, PTL

\* The priority gate and its exceptions never take an approval or a question off the
\* island, whatever its peeks, ticks and dismissals.
THEOREM PinnedStay == Spec => PinnedStays
  <1>1. IInv /\ [Next]_vars => [PinnedStep]_vars
    BY StepAllKept DEF AllKept
  <1> QED BY <1>1, Invariance, PTL DEF Spec, PinnedStays, PinnedStep

\* finishCurrentTransient, dismiss and promote bring back what a card covered, but
\* for the reasons named.
THEOREM CoverBack == Spec => CoverComesBack
  <1>1. IInv /\ [Next]_vars => [CoverStep]_vars
    BY StepAllKept DEF AllKept
  <1> QED BY <1>1, Invariance, PTL DEF Spec, CoverComesBack, CoverStep
=============================================================================
