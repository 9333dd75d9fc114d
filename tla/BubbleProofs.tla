------------------------------ MODULE BubbleProofs ------------------------------
(***************************************************************************)
(* Proofs about the bubbles on the client's screen: that the approvals'    *)
(* bubbles follow the approval store and the most urgent one is shown      *)
(* (ApprovalSurface), and that streamed replies settle (ReplyStream), for  *)
(* any ids, priorities, messages and bounds.                               *)
(***************************************************************************)
EXTENDS ApprovalSurface, ReplyStream, FiniteSetTheorems, SequenceTheorems, TLAPS

(***************************************************************************)
(* Sequences that lose entries.                                            *)
(***************************************************************************)

\* A map from 1..Cardinality(I) onto the positions I that keeps their order.
Enumerates(m, I) ==
    /\ m \in [1..Cardinality(I) -> I]
    /\ \A i \in I : \E n \in 1..Cardinality(I) : m[n] = i
    /\ \A k, n \in 1..Cardinality(I) : k < n => m[k] < m[n]

\* The operator Nth enumerates a set of positions.
LEMMA NthEnumerates ==
    ASSUME NEW N \in Nat, NEW I \in SUBSET (1..N)
    PROVE  /\ Cardinality(I) \in Nat /\ Cardinality(I) <= N
           /\ Enumerates([n \in 1..Cardinality(I) |-> Nth(I, n)], I)
<1> DEFINE Upto(i) == {j \in I : j <= i}
           rank == [i \in I |-> Cardinality(Upto(i))]
           m == [n \in 1..Cardinality(I) |-> Nth(I, n)]
<1>1. IsFiniteSet(I) /\ Cardinality(I) \in Nat /\ Cardinality(I) <= N
  <2>1. 1 \in Int /\ N \in Int
    OBVIOUS
  <2>2. IsFiniteSet(1..N) /\ Cardinality(1..N) = (IF 1 > N THEN 0 ELSE N - 1 + 1)
    BY <2>1, FS_Interval
  <2>3. IsFiniteSet(1..N) /\ Cardinality(1..N) = N
    BY <2>2
  <2>4. IsFiniteSet(I) /\ Cardinality(I) <= Cardinality(1..N)
    BY <2>3, FS_Subset
  <2> QED BY <2>3, <2>4, FS_CardinalityType
<1>0. \A i \in I : i \in Nat
  OBVIOUS
<1>2. ASSUME NEW i \in I
      PROVE  /\ IsFiniteSet(Upto(i)) /\ Cardinality(Upto(i)) \in 1..Cardinality(I)
  <2>1. Upto(i) \in SUBSET I /\ i \in Upto(i)
    OBVIOUS
  <2>2. IsFiniteSet(Upto(i)) /\ Cardinality(Upto(i)) <= Cardinality(I)
    BY <1>1, <2>1, FS_Subset
  <2>3. Cardinality(Upto(i)) \in Nat /\ Cardinality(Upto(i)) # 0
    BY <2>1, <2>2, FS_CardinalityType, FS_EmptySet
  <2> QED BY <1>1, <2>2, <2>3
<1>3. ASSUME NEW i \in I, NEW j \in I, i < j
      PROVE  Cardinality(Upto(i)) < Cardinality(Upto(j))
  <2>0. i \in Nat /\ j \in Nat /\ i < j
    BY <1>0, <1>3
  <2>1. Upto(i) \in SUBSET Upto(j) /\ j \in Upto(j) /\ j \notin Upto(i)
    <3>1. ASSUME NEW k \in I, k <= i PROVE k <= j
      BY <1>0, <2>0, <3>1
    <3>2. j <= j /\ ~(j <= i)
      BY <2>0
    <3>3. j \in Upto(j) /\ j \notin Upto(i)
      BY <3>2
    <3>4. Upto(i) \in SUBSET Upto(j)
      BY <3>1
    <3> QED BY <3>3, <3>4
  <2>2. Cardinality(Upto(i)) <= Cardinality(Upto(j)) /\ Cardinality(Upto(i)) # Cardinality(Upto(j))
    BY <1>2, <2>1, FS_Subset
  <2> QED BY <1>2, <2>2
<1> HIDE DEF Upto
<1>4. rank \in Injection(I, 1..Cardinality(I))
  <2>1. rank \in [I -> 1..Cardinality(I)]
    BY <1>2
  <2>2. ASSUME NEW i \in I, NEW j \in I, rank[i] = rank[j] PROVE i = j
    <3>1. i \in Nat /\ j \in Nat
      OBVIOUS
    <3>2. Cardinality(Upto(i)) = Cardinality(Upto(j))
      BY <2>2
    <3> QED BY <1>2, <1>3, <3>1, <3>2
  <2> QED BY <2>1, <2>2 DEF Injection, IsInjective
<1>5. rank \in Surjection(I, 1..Cardinality(I))
  BY <1>1, <1>4, FS_Injection, FS_Interval
<1>6. ASSUME NEW n \in 1..Cardinality(I)
      PROVE  m[n] \in I /\ Cardinality(Upto(m[n])) = n
  <2>1. \E i \in I : Cardinality(Upto(i)) = n
    BY <1>5 DEF Surjection
  <2> QED BY <2>1 DEF Nth, Upto
<1>7. \A i \in I : \E n \in 1..Cardinality(I) : m[n] = i
  <2> SUFFICES ASSUME NEW i \in I PROVE m[Cardinality(Upto(i))] = i
    BY <1>2
  <2>1. Cardinality(Upto(i)) \in 1..Cardinality(I)
    BY <1>2
  <2>2. m[Cardinality(Upto(i))] \in I /\ rank[m[Cardinality(Upto(i))]] = rank[i]
    BY <1>6, <2>1
  <2> QED BY <1>4, <2>2 DEF Injection, IsInjective
<1>8. \A k, n \in 1..Cardinality(I) : k < n => m[k] < m[n]
  <2> SUFFICES ASSUME NEW k \in 1..Cardinality(I), NEW n \in 1..Cardinality(I), k < n
               PROVE  m[k] < m[n]
    OBVIOUS
  <2>1. m[k] \in I /\ m[n] \in I /\ Cardinality(Upto(m[k])) = k /\ Cardinality(Upto(m[n])) = n
    BY <1>6
  <2> HIDE DEF m
  <2>2. m[k] \in Nat /\ m[n] \in Nat
    BY <1>0, <2>1
  <2>3. ~(m[n] < m[k]) /\ m[n] # m[k]
    BY <1>1, <1>3, <2>1, <2>2
  <2> QED BY <2>2, <2>3
<1> QED BY <1>1, <1>6, <1>7, <1>8 DEF Enumerates

\* What is left of a sequence at some positions: a sequence of those entries, none
\* twice and in their order.
LEMMA EntriesKept ==
    ASSUME NEW S, NEW q \in Seq(S), NEW I \in SUBSET (1..Len(q))
    PROVE  /\ EntriesAt(q, I) \in Seq(S)
           /\ Len(EntriesAt(q, I)) = Cardinality(I)
           /\ Cardinality(I) \in Nat /\ Cardinality(I) <= Len(q)
           /\ \E m \in [1..Cardinality(I) -> I] :
                 /\ Enumerates(m, I)
                 /\ \A n \in 1..Cardinality(I) : EntriesAt(q, I)[n] = q[m[n]]
<1> DEFINE m == [n \in 1..Cardinality(I) |-> Nth(I, n)]
<1>1. Len(q) \in Nat
  OBVIOUS
<1>2. Cardinality(I) \in Nat /\ Cardinality(I) <= Len(q) /\ Enumerates(m, I)
  BY <1>1, NthEnumerates
<1>3. \A n \in 1..Cardinality(I) : EntriesAt(q, I)[n] = q[m[n]] /\ m[n] \in I
  BY <1>2 DEF EntriesAt, Enumerates
<1>4. EntriesAt(q, I) \in [1..Cardinality(I) -> S]
  <2>1. \A i \in I : q[i] \in S
    OBVIOUS
  <2>2. \A n \in 1..Cardinality(I) : q[Nth(I, n)] \in S
    BY <1>3, <2>1
  <2> QED BY <2>2 DEF EntriesAt
<1>5. EntriesAt(q, I) \in Seq(S) /\ Len(EntriesAt(q, I)) = Cardinality(I)
  BY <1>2, <1>4
<1> QED BY <1>2, <1>3, <1>5 DEF Enumerates

LEMMA EntriesSet ==
    ASSUME NEW S, NEW q \in Seq(S), NEW I \in SUBSET (1..Len(q))
    PROVE  ToSet(EntriesAt(q, I)) = {q[i] : i \in I}
<1>1. PICK m \in [1..Cardinality(I) -> I] :
         Enumerates(m, I) /\ \A n \in 1..Cardinality(I) : EntriesAt(q, I)[n] = q[m[n]]
  BY EntriesKept
<1>2. DOMAIN EntriesAt(q, I) = 1..Cardinality(I)
  BY DEF EntriesAt
<1>3. ASSUME NEW b \in ToSet(EntriesAt(q, I)) PROVE b \in {q[i] : i \in I}
  <2>1. PICK n \in 1..Cardinality(I) : b = EntriesAt(q, I)[n]
    BY <1>2 DEF ToSet
  <2> QED BY <1>1, <2>1
<1>4. ASSUME NEW i \in I PROVE q[i] \in ToSet(EntriesAt(q, I))
  <2>1. PICK n \in 1..Cardinality(I) : m[n] = i
    BY <1>1 DEF Enumerates
  <2> QED BY <1>1, <1>2, <2>1 DEF ToSet
<1> QED BY <1>3, <1>4

\* prune leaves the entries that are not expired.
LEMMA UnexpiredKept ==
    ASSUME NEW S, NEW q \in Seq(S)
    PROVE  /\ Unexpired(q) \in Seq(S) /\ Len(Unexpired(q)) <= Len(q)
           /\ ToSet(Unexpired(q)) = {b \in ToSet(q) : ~b.expired}
<1> DEFINE I == {i \in DOMAIN q : ~q[i].expired}
<1>1. DOMAIN q = 1..Len(q) /\ I \in SUBSET (1..Len(q))
  OBVIOUS
<1>2. ToSet(EntriesAt(q, I)) = {q[i] : i \in I}
  BY <1>1, EntriesSet
<1>3. {q[i] : i \in I} = {b \in ToSet(q) : ~b.expired}
  BY DEF ToSet
<1> QED BY <1>1, <1>2, <1>3, EntriesKept DEF Unexpired

\* remove leaves the entries with another id.
LEMMA OthersKept ==
    ASSUME NEW S, NEW q \in Seq(S), NEW id
    PROVE  /\ RemoveId(q, id) \in Seq(S) /\ Len(RemoveId(q, id)) <= Len(q)
           /\ ToSet(RemoveId(q, id)) = {b \in ToSet(q) : b.id # id}
<1> DEFINE I == DOMAIN q \ With(q, id)
<1>1. DOMAIN q = 1..Len(q) /\ I \in SUBSET (1..Len(q))
  OBVIOUS
<1>2. ToSet(EntriesAt(q, I)) = {q[i] : i \in I}
  BY <1>1, EntriesSet
<1>3. {q[i] : i \in I} = {b \in ToSet(q) : b.id # id}
  BY DEF ToSet, With
<1> QED BY <1>1, <1>2, <1>3, EntriesKept DEF RemoveId

LEMMA AppendedSet ==
    ASSUME NEW S, NEW q \in Seq(S), NEW e \in S
    PROVE  /\ Append(q, e) \in Seq(S) /\ Len(Append(q, e)) = Len(q) + 1
           /\ ToSet(Append(q, e)) = ToSet(q) \cup {e}
<1>1. /\ Append(q, e) \in Seq(S) /\ Len(Append(q, e)) = Len(q) + 1 /\ Len(q) \in Nat
      /\ \A i \in 1..Len(q) : Append(q, e)[i] = q[i]
      /\ Append(q, e)[Len(q) + 1] = e
  BY AppendProperties
<1>2. DOMAIN Append(q, e) = 1..(Len(q) + 1) /\ DOMAIN q = 1..Len(q)
  BY <1>1
<1>3. ASSUME NEW b \in ToSet(Append(q, e)) PROVE b \in ToSet(q) \cup {e}
  <2>1. PICK i \in 1..(Len(q) + 1) : b = Append(q, e)[i]
    BY <1>2 DEF ToSet
  <2>2. i \in 1..Len(q) \/ i = Len(q) + 1
    BY <1>1
  <2> QED BY <1>1, <1>2, <2>1, <2>2 DEF ToSet
<1>4. ASSUME NEW b \in ToSet(q) \cup {e} PROVE b \in ToSet(Append(q, e))
  <2>1. CASE b = e
    <3>1. Len(q) + 1 \in 1..(Len(q) + 1)
      BY <1>1
    <3> QED BY <1>1, <1>2, <2>1, <3>1 DEF ToSet
  <2>2. CASE b \in ToSet(q)
    <3>1. PICK i \in 1..Len(q) : b = q[i]
      BY <1>2, <2>2 DEF ToSet
    <3>2. i \in 1..(Len(q) + 1)
      BY <1>1
    <3> QED BY <1>1, <1>2, <3>1, <3>2 DEF ToSet
  <2> QED BY <2>1, <2>2
<1> QED BY <1>1, <1>3, <1>4

\* A set of naturals that is not empty has a least member, and a greatest if it has a bound.
LEMMA LeastMember ==
    ASSUME NEW S \in SUBSET Nat, S # {}
    PROVE  /\ Min(S) \in S
           /\ \A k \in S : Min(S) <= k
<1> DEFINE Smaller == {p \in Nat \X Nat : p[1] < p[2]}
<1>1. Smaller = OpToRel(<, Nat)
  BY Zenon DEF OpToRel
<1>2. IsWellFoundedOn(Smaller, Nat)
  BY <1>1, NatLessThanWellFounded
<1>3. PICK n \in S : \A y \in S : ~(<<y, n>> \in Smaller)
  BY <1>2, WFMin
<1>4. ASSUME NEW k \in S PROVE n <= k
  <2>1. k \in Nat /\ n \in Nat /\ <<k, n>> \notin Smaller
    BY <1>3
  <2>2. ~(k < n)
    BY <2>1
  <2> QED BY <2>1, <2>2
<1> QED BY <1>4 DEF Min

LEMMA GreatestMember ==
    ASSUME NEW N \in Nat, NEW S \in SUBSET (0..N), S # {}
    PROVE  /\ Max(S) \in S
           /\ \A k \in S : k <= Max(S)
<1> DEFINE T == {j \in 0..N : N - j \in S}
<1>0. \A k \in S : k \in 0..N /\ N - k \in 0..N /\ N - (N - k) = k
  OBVIOUS
<1>1. \A k \in S : N - k \in T
  BY <1>0
<1>2. T \in SUBSET Nat /\ T # {}
  <2>1. T \subseteq 0..N
    OBVIOUS
  <2>2. 0..N \subseteq Nat
    OBVIOUS
  <2> HIDE DEF T
  <2> QED BY <1>1, <2>1, <2>2
<1> DEFINE n == N - Min(T)
<1>3. Min(T) \in T /\ \A k \in T : Min(T) <= k
  <2> HIDE DEF T
  <2> QED BY <1>2, LeastMember
<1>4. n \in S /\ Min(T) \in 0..N
  BY <1>3
<1>5. \A k \in S : n >= k
  <2> SUFFICES ASSUME NEW k \in S PROVE n >= k
    OBVIOUS
  <2>1. Min(T) <= N - k
    BY <1>1, <1>3
  <2> QED BY <1>0, <1>4, <2>1
<1>6. \A k \in S : k <= n
  BY <1>0, <1>4, <1>5
<1> HIDE DEF n
<1>7. Max(S) \in S /\ \A k \in S : Max(S) >= k
  BY <1>4, <1>5 DEF Max
<1>8. \A k \in S : k \in Int
  BY <1>0
<1> QED BY <1>7, <1>8

-----------------------------------------------------------------------------
(***************************************************************************)
(* ApprovalSurface.  What BubbleQueue shows and evicts.                    *)
(***************************************************************************)

LEMMA RankType ==
    ASSUME NEW b \in Entry
    PROVE  b.id \in Bubble /\ b # Nothing /\ Rank(b) \in 0..3
<1>1. b.id \in Bubble
  BY DEF Entry
<1> QED BY <1>1, SurfaceAssumption DEF Bubble, Rank, Nothing

\* In a queue with entries some are the most urgent and some the least.
LEMMA ExtremeRanks ==
    ASSUME NEW q \in Seq(Entry), q # <<>>
    PROVE  /\ \E i \in DOMAIN q : \A j \in DOMAIN q : Rank(q[i]) <= Rank(q[j])
           /\ \E i \in DOMAIN q : \A j \in DOMAIN q : Rank(q[j]) <= Rank(q[i])
<1> DEFINE R == {Rank(q[i]) : i \in DOMAIN q}
<1>1. R \in SUBSET (0..3) /\ R # {}
  <2>1. 1 \in DOMAIN q
    OBVIOUS
  <2>2. \A i \in DOMAIN q : Rank(q[i]) \in 0..3
    BY RankType
  <2> QED BY <2>1, <2>2
<1>2. \A i \in DOMAIN q : Rank(q[i]) \in R
  OBVIOUS
<1>3. \A r \in R : \E i \in DOMAIN q : r = Rank(q[i])
  OBVIOUS
<1> HIDE DEF R
<1>4. R \in SUBSET Nat
  BY <1>1
<1>5. Min(R) \in R /\ \A k \in R : Min(R) <= k
  BY <1>1, <1>4, LeastMember
<1>6. Max(R) \in R /\ \A k \in R : k <= Max(R)
  <2>1. 3 \in Nat
    OBVIOUS
  <2> QED BY <1>1, <2>1, GreatestMember
<1> QED BY <1>2, <1>3, <1>5, <1>6

\* The victim is one of the least urgent.
LEMMA VictimQueued ==
    ASSUME NEW q \in Seq(Entry), q # <<>>
    PROVE  /\ Victim(q) \in DOMAIN q
           /\ \A j \in DOMAIN q : Rank(q[j]) <= Rank(q[Victim(q)])
<1> DEFINE worst == {i \in DOMAIN q : \A j \in DOMAIN q : Rank(q[j]) <= Rank(q[i])}
<1>1. worst \in SUBSET Nat /\ worst # {}
  <2>1. DOMAIN q \subseteq Nat
    OBVIOUS
  <2> QED BY <2>1, ExtremeRanks
<1>2. Min(worst) \in worst
  <2> HIDE DEF worst
  <2> QED BY <1>1, LeastMember
<1> QED BY <1>2 DEF Victim

\* What peek returns is in the queue, and as urgent as any live entry.
LEMMA PeekIsUrgent ==
    ASSUME NEW q \in Seq(Entry)
    PROVE  /\ Peek(q) \in Entry \cup {Nothing}
           /\ \A b \in ToSet(q) : ~b.expired => Peek(q) # Nothing /\ Rank(Peek(q)) <= Rank(b)
<1> DEFINE live == Unexpired(q)
           best == {i \in DOMAIN live : \A j \in DOMAIN live : Rank(live[i]) <= Rank(live[j])}
<1>1. live \in Seq(Entry) /\ ToSet(live) = {b \in ToSet(q) : ~b.expired}
  BY UnexpiredKept
<1>2. Peek(q) = IF best = {} THEN Nothing ELSE live[Min(best)]
  BY DEF Peek
<1> HIDE DEF live
<1>3. CASE live = <<>>
  <2>1. best = {}
    BY <1>3
  <2>2. ToSet(live) = {}
    BY <1>3 DEF ToSet
  <2> QED BY <1>1, <1>2, <2>1, <2>2
<1>4. CASE live # <<>>
  <2>1. best \in SUBSET Nat /\ best # {}
    <3>1. DOMAIN live \subseteq Nat
      BY <1>1
    <3> QED BY <1>1, <1>4, <3>1, ExtremeRanks
  <2>2. Min(best) \in best
    <3> HIDE DEF best
    <3> QED BY <2>1, LeastMember
  <2>3. Peek(q) = live[Min(best)] /\ Min(best) \in DOMAIN live
    BY <1>2, <2>1, <2>2
  <2>4. Peek(q) \in Entry
    BY <1>1, <2>3
  <2>5. ASSUME NEW b \in ToSet(q), ~b.expired PROVE Rank(Peek(q)) <= Rank(b)
    <3>1. b \in ToSet(live)
      BY <1>1, <2>5
    <3>2. PICK j \in DOMAIN live : b = live[j]
      BY <3>1 DEF ToSet
    <3> QED BY <2>2, <2>3, <3>2
  <2> QED BY <2>4, <2>5, RankType
<1> QED BY <1>3, <1>4

\* The cap costs one entry at most, of the least urgent.
LEMMA CappedKept ==
    ASSUME NEW q \in Seq(Entry), Len(q) <= MaxActive + 1
    PROVE  /\ Capped(q) \in Seq(Entry) /\ Len(Capped(q)) <= MaxActive
           /\ ToSet(Capped(q)) \subseteq ToSet(q)
           /\ \A b \in ToSet(q) \ ToSet(Capped(q)) :
                 \A kept \in ToSet(Capped(q)) : Rank(kept) <= Rank(b)
<1>0. Len(q) \in Nat /\ MaxActive \in Nat /\ DOMAIN q = 1..Len(q)
  BY SurfaceAssumption
<1>1. CASE Len(q) <= MaxActive
  <2>1. Capped(q) = q
    BY <1>0, <1>1 DEF Capped
  <2> QED BY <1>1, <2>1
<1>2. CASE Len(q) > MaxActive
  <2> DEFINE I == DOMAIN q \ {Victim(q)}
  <2>1. q # <<>>
    BY <1>0, <1>2
  <2>2. Victim(q) \in DOMAIN q /\ \A j \in DOMAIN q : Rank(q[j]) <= Rank(q[Victim(q)])
    BY <2>1, VictimQueued
  <2>3. Capped(q) = EntriesAt(q, I) /\ I \in SUBSET (1..Len(q))
    BY <1>0, <1>2 DEF Capped
  <2>4. Cardinality(I) = Len(q) - 1
    <3>1. 1 \in Int /\ Len(q) \in Int
      BY <1>0
    <3>2. /\ IsFiniteSet(1..Len(q))
          /\ Cardinality(1..Len(q)) = (IF 1 > Len(q) THEN 0 ELSE Len(q) - 1 + 1)
      BY <3>1, FS_Interval
    <3>3. Cardinality(1..Len(q)) = Len(q)
      BY <1>0, <3>2
    <3>4. Cardinality((1..Len(q)) \ {Victim(q)}) = Cardinality(1..Len(q)) - 1
      BY <1>0, <2>2, <3>2, FS_RemoveElement
    <3> QED BY <1>0, <3>3, <3>4
  <2> HIDE DEF I
  <2>5. Capped(q) \in Seq(Entry) /\ Len(Capped(q)) = Cardinality(I)
    BY <2>3, EntriesKept
  <2>6. ToSet(Capped(q)) = {q[i] : i \in I}
    BY <2>3, EntriesSet
  <2>7. I \subseteq DOMAIN q /\ \A i \in DOMAIN q : i \in I \/ i = Victim(q)
    BY DEF I
  <2>8. ToSet(q) = {q[i] : i \in DOMAIN q}
    BY DEF ToSet
  <2>9. ToSet(Capped(q)) \subseteq ToSet(q)
    BY <2>6, <2>7, <2>8
  <2>10. \A b \in ToSet(q) \ ToSet(Capped(q)) : b = q[Victim(q)]
    BY <2>6, <2>7, <2>8
  <2>11. \A kept \in ToSet(Capped(q)) : Rank(kept) <= Rank(q[Victim(q)])
    BY <2>2, <2>6, <2>7
  <2>12. Len(Capped(q)) <= MaxActive
    BY <1>0, <2>4, <2>5
  <2> QED BY <2>5, <2>9, <2>10, <2>11, <2>12
<1> QED BY <1>0, <1>1, <1>2

\* enqueue: the entries that had not expired, and the new one.
LEMMA EnqueuedSet ==
    ASSUME NEW q \in Seq(Entry), NEW entry \in Entry, Len(q) <= MaxActive
    PROVE  /\ Enqueue(q, entry) \in Seq(Entry) /\ Len(Enqueue(q, entry)) <= MaxActive + 1
           /\ ToSet(Enqueue(q, entry)) = {b \in ToSet(q) : ~b.expired} \cup {entry}
<1>1. /\ Unexpired(q) \in Seq(Entry) /\ Len(Unexpired(q)) <= Len(q)
      /\ ToSet(Unexpired(q)) = {b \in ToSet(q) : ~b.expired}
  BY UnexpiredKept
<1>2. /\ Append(Unexpired(q), entry) \in Seq(Entry)
      /\ Len(Append(Unexpired(q), entry)) = Len(Unexpired(q)) + 1
      /\ ToSet(Append(Unexpired(q), entry)) = ToSet(Unexpired(q)) \cup {entry}
  BY <1>1, AppendedSet
<1>3. Len(Unexpired(q)) + 1 <= MaxActive + 1
  <2>1. Len(Unexpired(q)) \in Nat /\ Len(q) \in Nat /\ MaxActive \in Nat
    BY <1>1, SurfaceAssumption
  <2> QED BY <1>1, <2>1
<1> QED BY <1>1, <1>2, <1>3 DEF Enqueue

-----------------------------------------------------------------------------
(***************************************************************************)
(* ApprovalSurface: type correctness.                                      *)
(***************************************************************************)

EntryOf(msg) == [id |-> msg.id, prompt |-> msg.prompt, expired |-> FALSE]

\* What a show intent does to the queue, with whatever it makes room for.
LEMMA ShowBubbleStep ==
    ASSUME TypeOK, NEW msg \in Message, ShowBubble(msg)
    PROVE  \E full \in SUBSET Entry :
           /\ full = {b \in ToSet(bubbles) : ~b.expired} \cup {EntryOf(msg)}
           /\ bubbles' \in Seq(Entry) /\ Len(bubbles') <= MaxActive
           /\ ToSet(bubbles') \subseteq full
           /\ \A b \in full \ ToSet(bubbles') :
                 \A kept \in ToSet(bubbles') : Rank(kept) <= Rank(b)
           /\ shown' = Peek(bubbles')
           /\ evicted' = evicted \cup
                (Approval \cap ({b.id : b \in full} \ {b.id : b \in ToSet(bubbles')}))
<1> DEFINE queue == Enqueue(bubbles, EntryOf(msg))
<1>1. EntryOf(msg) \in Entry
  BY DEF EntryOf, Entry, Message
<1>2. /\ queue \in Seq(Entry) /\ Len(queue) <= MaxActive + 1
      /\ ToSet(queue) = {b \in ToSet(bubbles) : ~b.expired} \cup {EntryOf(msg)}
  BY <1>1, EnqueuedSet DEF TypeOK
<1>3. /\ bubbles' = Capped(queue) /\ shown' = Peek(bubbles')
      /\ evicted' = evicted \cup
            (Approval \cap ({b.id : b \in ToSet(queue)} \ {b.id : b \in ToSet(bubbles')}))
  BY DEF ShowBubble, EntryOf
<1> HIDE DEF queue
<1>4. /\ Capped(queue) \in Seq(Entry) /\ Len(Capped(queue)) <= MaxActive
      /\ ToSet(Capped(queue)) \subseteq ToSet(queue)
      /\ \A b \in ToSet(queue) \ ToSet(Capped(queue)) :
            \A kept \in ToSet(Capped(queue)) : Rank(kept) <= Rank(b)
  BY <1>2, CappedKept
<1>5. ToSet(queue) \in SUBSET Entry
  BY <1>2 DEF ToSet
<1> QED BY <1>2, <1>3, <1>4, <1>5

\* What a dismiss intent does to it.
LEMMA DismissBubbleStep ==
    ASSUME TypeOK, NEW msg \in Message, DismissBubble(msg)
    PROVE  /\ bubbles' \in Seq(Entry) /\ Len(bubbles') <= MaxActive
           /\ ToSet(bubbles') = {b \in ToSet(bubbles) : b.id # msg.id}
           /\ shown' = IF bubbles' = bubbles THEN shown ELSE Peek(bubbles')
           /\ evicted' = evicted
<1>1. /\ RemoveId(bubbles, msg.id) \in Seq(Entry) /\ Len(RemoveId(bubbles, msg.id)) <= Len(bubbles)
      /\ ToSet(RemoveId(bubbles, msg.id)) = {b \in ToSet(bubbles) : b.id # msg.id}
  BY OthersKept DEF TypeOK
<1>2. Len(RemoveId(bubbles, msg.id)) \in Nat /\ Len(bubbles) \in Nat /\ MaxActive \in Nat
  BY <1>1, SurfaceAssumption DEF TypeOK
<1> QED BY <1>1, <1>2 DEF DismissBubble, TypeOK

\* What the end of a ttl does to it.
LEMMA ExpireStep ==
    ASSUME TypeOK, NEW i \in DOMAIN bubbles, Expire(i)
    PROVE  /\ bubbles' \in Seq(Entry) /\ Len(bubbles') = Len(bubbles)
           /\ bubbles[i].id \in Chat
           /\ bubbles'[i] = [bubbles[i] EXCEPT !.expired = TRUE]
           /\ \A j \in DOMAIN bubbles : j # i => bubbles'[j] = bubbles[j]
<1>1. bubbles \in Seq(Entry) /\ bubbles[i] \in Entry
  BY DEF TypeOK
<1>2. [bubbles[i] EXCEPT !.expired = TRUE] \in Entry
  BY <1>1 DEF Entry
<1>3. bubbles' = [bubbles EXCEPT ![i] = [bubbles[i] EXCEPT !.expired = TRUE]]
  BY DEF Expire
<1> HIDE DEF Entry
<1>4. bubbles' \in Seq(Entry) /\ Len(bubbles') = Len(bubbles)
  BY <1>1, <1>2, <1>3
<1> QED BY <1>1, <1>3, <1>4 DEF Expire

LEMMA TypeStart ==
    ASSUME Init
    PROVE  TypeOK
<1>1. MaxChats \in Nat /\ MaxDrops \in Nat /\ MaxActive \in Nat
  BY SurfaceAssumption
<1>2. 0 \in 0..MaxChats /\ 0 \in 0..MaxDrops /\ 0 <= MaxActive
  BY <1>1
<1>3. /\ emissions \in Seq(Emission) /\ wire \in Seq(Message)
      /\ bubbles \in Seq(Entry) /\ Len(bubbles) = 0
  BY DEF Init
<1> QED BY <1>2, <1>3 DEF Init, TypeOK

LEMMA TypeStep ==
    ASSUME TypeOK, [Next]_vars
    PROVE  TypeOK'
<1> USE DEF TypeOK
<1>0. Emission \subseteq Message
  BY DEF Emission, Message, Bubble
<1>1. ASSUME NEW a \in Approval, Add(a) PROVE TypeOK'
  <2>1. prompt[a] + 1 \in Nat
    OBVIOUS
  <2>2. [kind |-> "show", id |-> a, prompt |-> prompt[a] + 1] \in Emission
    BY <2>1 DEF Emission
  <2> QED BY <1>1, <2>1, <2>2 DEF Add, OnEvent, client
<1>2. ASSUME NEW a \in Approval, Resolve(a) PROVE TypeOK'
  <2>1. [kind |-> "dismiss", id |-> a, prompt |-> prompt[a]] \in Emission
    BY DEF Emission
  <2> QED BY <1>2, <2>1 DEF Resolve, OnEvent, client
<1>3. ASSUME DemoClear PROVE TypeOK'
  <2>1. [kind |-> "dismiss", id |-> Demo, prompt |-> prompt[Demo]] \in Emission
    BY SurfaceAssumption DEF Emission
  <2>2. emissions' \in Seq(Emission)
    <3>1. emissions \in Seq(Emission)
      OBVIOUS
    <3>2. CASE emissions' = emissions
      BY <3>1, <3>2
    <3>3. CASE emissions' = Append(emissions, [kind |-> "dismiss", id |-> Demo, prompt |-> prompt[Demo]])
      BY <2>1, <3>1, <3>3
    <3> QED BY <1>3, <3>2, <3>3 DEF DemoClear, OnEvent
  <2> QED BY <1>3, <2>2 DEF DemoClear, client
<1>4. ASSUME Emit PROVE TypeOK'
  <2>1. emissions # <<>> /\ Head(emissions) \in Emission /\ Tail(emissions) \in Seq(Emission)
    BY <1>4 DEF Emit
  <2>2. Head(emissions) \in Message /\ Head(emissions).id \in Approval
    BY <1>0, <2>1 DEF Emission
  <2>3. /\ wire' = wire \/ wire' = Append(wire, Head(emissions))
        /\ missed' = missed \/ missed' = missed \cup {Head(emissions).id}
    BY <1>4 DEF Emit
  <2>4. wire \in Seq(Message) /\ missed \subseteq Approval
    OBVIOUS
  <2>5. wire' \in Seq(Message)
    <3>1. CASE wire' = wire
      BY <2>4, <3>1
    <3>2. CASE wire' = Append(wire, Head(emissions))
      BY <2>2, <2>4, <3>2
    <3> QED BY <2>3, <3>1, <3>2
  <2>6. missed' \subseteq Approval
    BY <2>2, <2>3, <2>4
  <2> QED BY <1>4, <2>1, <2>5, <2>6 DEF Emit, client
<1>5. ASSUME NEW c \in Chat, ShowChat(c) PROVE TypeOK'
  <2>1. [kind |-> "show", id |-> c, prompt |-> 0] \in Message
    BY DEF Message, Bubble
  <2>2. wire' \in Seq(Message)
    BY <1>5, <2>1 DEF ShowChat
  <2>3. chats' \in 0..MaxChats
    BY <1>5, SurfaceAssumption DEF ShowChat
  <2> QED BY <1>5, <2>2, <2>3 DEF ShowChat, agent, client
<1>6. ASSUME Disconnect PROVE TypeOK'
  <2>1. drops' \in 0..MaxDrops
    BY <1>6, SurfaceAssumption DEF Disconnect
  <2>2. missed' \subseteq Approval
    BY <1>6 DEF Disconnect
  <2>3. wire' \in Seq(Message)
    BY <1>6 DEF Disconnect
  <2> QED BY <1>6, <2>1, <2>2, <2>3 DEF Disconnect, agent, client
<1>7. ASSUME Reconnect PROVE TypeOK'
  BY <1>7 DEF Reconnect, agent, client
<1>8. ASSUME Deliver PROVE TypeOK'
  <2> DEFINE msg == Head(wire)
  <2>1. wire # <<>> /\ msg \in Message /\ wire' \in Seq(Message)
    BY <1>8 DEF Deliver
  <2>2. ShowBubble(msg) \/ DismissBubble(msg)
    BY <1>8 DEF Deliver
  <2> HIDE DEF msg
  <2>3. CASE ShowBubble(msg)
    <3>1. /\ bubbles' \in Seq(Entry) /\ Len(bubbles') <= MaxActive /\ shown' = Peek(bubbles')
          /\ evicted' \subseteq Approval
      BY <2>1, <2>3, ShowBubbleStep
    <3>2. shown' \in Entry \cup {Nothing}
      BY <3>1, PeekIsUrgent
    <3> QED BY <1>8, <2>1, <3>1, <3>2 DEF Deliver, agent
  <2>4. CASE DismissBubble(msg)
    <3>1. /\ bubbles' \in Seq(Entry) /\ Len(bubbles') <= MaxActive /\ evicted' = evicted
          /\ shown' \in {shown, Peek(bubbles')}
      BY <2>1, <2>4, DismissBubbleStep
    <3>2. shown' \in Entry \cup {Nothing}
      BY <3>1, PeekIsUrgent
    <3> QED BY <1>8, <2>1, <3>1, <3>2 DEF Deliver, agent
  <2> QED BY <2>2, <2>3, <2>4
<1>9. ASSUME NEW i \in DOMAIN bubbles, Expire(i) PROVE TypeOK'
  <2>1. bubbles' \in Seq(Entry) /\ Len(bubbles') = Len(bubbles)
    BY <1>9, ExpireStep
  <2> QED BY <1>9, <2>1 DEF Expire, agent
<1>10. ASSUME UNCHANGED vars PROVE TypeOK'
  BY <1>10 DEF vars, agent, client
<1> QED BY <1>1, <1>2, <1>3, <1>4, <1>5, <1>6, <1>7, <1>8, <1>9, <1>10 DEF Next

\* The store, the intents under way, the client's queue and the bubble on the screen
\* have their types in every state: the queue never outgrows its cap, and what is
\* shown was in it.
THEOREM SurfaceTypeCorrect == Spec => []TypeOK
<1> QED BY TypeStart, TypeStep, PTL DEF Spec

-----------------------------------------------------------------------------
(***************************************************************************)
(* ApprovalSurface: the most urgent bubble is the one on the screen.       *)
(***************************************************************************)

\* A bubble that grows old only asks less; every other change shows what peek returns.
LEMMA UrgentStep ==
    ASSUME TypeOK, TypeOK', UrgentBubbleIsShown, [Next]_vars
    PROVE  UrgentBubbleIsShown'
<1>1. ASSUME bubbles' \in Seq(Entry), shown' = Peek(bubbles') PROVE UrgentBubbleIsShown'
  BY <1>1, PeekIsUrgent DEF UrgentBubbleIsShown
<1>2. ASSUME bubbles' = bubbles, shown' = shown PROVE UrgentBubbleIsShown'
  BY <1>2 DEF UrgentBubbleIsShown
<1>3. ASSUME Deliver PROVE UrgentBubbleIsShown'
  <2> DEFINE msg == Head(wire)
  <2>1. msg \in Message
    BY <1>3 DEF Deliver, TypeOK
  <2>2. ShowBubble(msg) \/ DismissBubble(msg)
    BY <1>3 DEF Deliver
  <2> HIDE DEF msg
  <2>3. CASE ShowBubble(msg)
    BY <1>1, <2>1, <2>3, ShowBubbleStep
  <2>4. CASE DismissBubble(msg)
    <3>1. bubbles' \in Seq(Entry) /\ shown' = IF bubbles' = bubbles THEN shown ELSE Peek(bubbles')
      BY <2>1, <2>4, DismissBubbleStep
    <3> QED BY <1>1, <1>2, <3>1
  <2> QED BY <2>2, <2>3, <2>4
<1>4. ASSUME NEW i \in DOMAIN bubbles, Expire(i) PROVE UrgentBubbleIsShown'
  <2>1. /\ bubbles \in Seq(Entry) /\ bubbles' \in Seq(Entry) /\ Len(bubbles') = Len(bubbles)
        /\ bubbles'[i] = [bubbles[i] EXCEPT !.expired = TRUE]
        /\ \A j \in DOMAIN bubbles : j # i => bubbles'[j] = bubbles[j]
    BY <1>4, ExpireStep DEF TypeOK
  <2>2. ASSUME NEW b \in ToSet(bubbles'), ~b.expired PROVE b \in ToSet(bubbles)
    <3>1. PICK j \in DOMAIN bubbles' : b = bubbles'[j]
      BY DEF ToSet
    <3>2. j \in DOMAIN bubbles
      BY <2>1
    <3>3. bubbles[i] \in Entry
      BY <2>1
    <3>4. bubbles'[i].expired
      BY <2>1, <3>3 DEF Entry
    <3>5. j # i
      BY <2>2, <3>1, <3>4
    <3> QED BY <2>1, <3>1, <3>2, <3>5 DEF ToSet
  <2>3. shown' = shown
    BY <1>4 DEF Expire
  <2> QED BY <2>2, <2>3 DEF UrgentBubbleIsShown
<1>5. CASE \E a \in Approval : Add(a) \/ Resolve(a)
  BY <1>2, <1>5 DEF Add, Resolve, client
<1>6. CASE DemoClear \/ Emit \/ Disconnect \/ Reconnect \/ UNCHANGED vars
  BY <1>2, <1>6 DEF DemoClear, Emit, Disconnect, Reconnect, client, vars
<1>7. CASE \E c \in Chat : ShowChat(c)
  BY <1>2, <1>7 DEF ShowChat, client
<1> QED BY <1>3, <1>4, <1>5, <1>6, <1>7 DEF Next

\* No bubble on the client waits behind a less urgent one on the screen, whatever the
\* order in which bubbles are sent, expire, are dismissed and are evicted, and whatever
\* the cap is.
THEOREM UrgentFirst == Spec => []UrgentBubbleIsShown
<1>1. Init => TypeOK /\ UrgentBubbleIsShown
  <2> SUFFICES ASSUME Init PROVE UrgentBubbleIsShown
    BY TypeStart
  <2>1. ToSet(bubbles) = {}
    BY DEF Init, ToSet
  <2> QED BY <2>1 DEF UrgentBubbleIsShown
<1>2. TypeOK /\ UrgentBubbleIsShown /\ [Next]_vars => (TypeOK /\ UrgentBubbleIsShown)'
  BY TypeStep, UrgentStep
<1> QED BY <1>1, <1>2, PTL DEF Spec

\* Overflow never costs a bubble more urgent than one that stays.
LEMMA EvictionStep ==
    ASSUME TypeOK, [Next]_vars, NEW b \in ToSet(bubbles) \ ToSet(bubbles')
    PROVE  \/ b.expired
           \/ UNCHANGED wire
           \/ Head(wire) = [kind |-> "dismiss", id |-> b.id, prompt |-> Head(wire).prompt]
           \/ \A kept \in ToSet(bubbles') : Rank(kept) <= Rank(b)
<1>1. bubbles' # bubbles
  OBVIOUS
<1>2. CASE Deliver
  <2> DEFINE msg == Head(wire)
  <2>1. msg \in Message
    BY <1>2 DEF Deliver, TypeOK
  <2>2. (msg.kind = "show" /\ ShowBubble(msg)) \/ (msg.kind = "dismiss" /\ DismissBubble(msg))
    BY <1>2 DEF Deliver
  <2> HIDE DEF msg
  <2>3. CASE msg.kind = "show" /\ ShowBubble(msg)
    <3>1. PICK full \in SUBSET Entry :
             /\ full = {e \in ToSet(bubbles) : ~e.expired} \cup {EntryOf(msg)}
             /\ \A e \in full \ ToSet(bubbles') :
                   \A kept \in ToSet(bubbles') : Rank(kept) <= Rank(e)
      BY <2>1, <2>3, ShowBubbleStep
    <3> QED BY <3>1
  <2>4. CASE msg.kind = "dismiss" /\ DismissBubble(msg)
    <3>1. ToSet(bubbles') = {e \in ToSet(bubbles) : e.id # msg.id}
      BY <2>1, <2>4, DismissBubbleStep
    <3>2. msg.id = b.id
      BY <3>1
    <3>3. msg = [kind |-> "dismiss", id |-> b.id, prompt |-> msg.prompt]
      BY <2>1, <2>4, <3>2 DEF Message
    <3> QED BY <3>3 DEF msg
  <2> QED BY <2>2, <2>3, <2>4
<1>3. CASE \E i \in DOMAIN bubbles : Expire(i)
  BY <1>3 DEF Expire
<1>4. CASE \E a \in Approval : Add(a) \/ Resolve(a)
  BY <1>1, <1>4 DEF Add, Resolve, client
<1>5. CASE DemoClear \/ Emit \/ Disconnect \/ Reconnect \/ UNCHANGED vars
  BY <1>1, <1>5 DEF DemoClear, Emit, Disconnect, Reconnect, client, vars
<1>6. CASE \E c \in Chat : ShowChat(c)
  BY <1>1, <1>6 DEF ShowChat, client
<1> QED BY <1>2, <1>3, <1>4, <1>5, <1>6 DEF Next

\* A live bubble leaves the client's queue only by its own dismissal or, when the queue
\* overflows, as one of the least urgent there is, for any cap and any priorities.
THEOREM OverflowSparesUrgent == Spec => EvictionSparesUrgent
<1>1. TypeOK /\ [Next]_vars =>
        [\A b \in ToSet(bubbles) \ ToSet(bubbles') :
            \/ b.expired
            \/ UNCHANGED wire
            \/ Head(wire) = [kind |-> "dismiss", id |-> b.id, prompt |-> Head(wire).prompt]
            \/ \A kept \in ToSet(bubbles') : Rank(kept) <= Rank(b)]_vars
  BY EvictionStep
<1> QED BY <1>1, SurfaceTypeCorrect, PTL DEF Spec, EvictionSparesUrgent

-----------------------------------------------------------------------------
(***************************************************************************)
(* ApprovalSurface: the bubbles of the approvals follow the store.         *)
(***************************************************************************)

Said(pipe, a) == {i \in DOMAIN pipe : pipe[i].id = a}

\* Whether a has a bubble once the intents in pipe are read, if held says whether it
\* has one before.
Ends(pipe, a, held) ==
    IF Said(pipe, a) = {} THEN held ELSE pipe[Max(Said(pipe, a))].kind = "show"

LEMMA LastSaid ==
    ASSUME NEW pipe \in Seq(Message), NEW a, Said(pipe, a) # {}
    PROVE  /\ Max(Said(pipe, a)) \in Said(pipe, a)
           /\ \A k \in Said(pipe, a) : k <= Max(Said(pipe, a))
<1>1. Len(pipe) \in Nat /\ Said(pipe, a) \in SUBSET (0..Len(pipe))
  BY DEF Said
<1> QED BY <1>1, GreatestMember

\* The last word on a is the one that no later one follows.
LEMMA EndsWith ==
    ASSUME NEW pipe \in Seq(Message), NEW a, NEW held,
           NEW n \in Said(pipe, a), \A k \in Said(pipe, a) : k <= n
    PROVE  Ends(pipe, a, held) = (pipe[n].kind = "show")
<1>1. Max(Said(pipe, a)) \in Said(pipe, a) /\ n <= Max(Said(pipe, a)) /\ Max(Said(pipe, a)) <= n
  BY LastSaid
<1>2. Said(pipe, a) \subseteq Nat
  BY DEF Said
<1>3. Max(Said(pipe, a)) = n
  BY <1>1, <1>2
<1> QED BY <1>3 DEF Ends

\* What is read first and then what is read next.
LEMMA EndsInTurn ==
    ASSUME NEW w \in Seq(Message), NEW e \in Seq(Message), NEW a, NEW held
    PROVE  Ends(w \o e, a, held) = Ends(e, a, Ends(w, a, held))
<1> DEFINE pipe == w \o e
<1>1. /\ pipe \in Seq(Message) /\ Len(pipe) = Len(w) + Len(e)
      /\ Len(w) \in Nat /\ Len(e) \in Nat
      /\ \A i \in 1..Len(w) : pipe[i] = w[i]
      /\ \A i \in 1..Len(e) : pipe[Len(w) + i] = e[i]
      /\ DOMAIN w = 1..Len(w) /\ DOMAIN e = 1..Len(e) /\ DOMAIN pipe = 1..(Len(w) + Len(e))
  OBVIOUS
<1> HIDE DEF pipe
<1>2. \A i \in 1..Len(w) : i \in DOMAIN pipe
  BY <1>1
<1>3. \A i \in 1..Len(e) : Len(w) + i \in DOMAIN pipe
  BY <1>1
<1>4. ASSUME NEW i \in Said(pipe, a)
      PROVE  i \in Nat /\ (i \in Said(w, a) \/ (i > Len(w) /\ i - Len(w) \in Said(e, a)))
  <2>1. i \in 1..(Len(w) + Len(e)) /\ pipe[i].id = a
    BY <1>1 DEF Said
  <2>2. CASE i <= Len(w)
    <3>1. i \in 1..Len(w)
      BY <1>1, <2>1, <2>2
    <3> QED BY <1>1, <2>1, <3>1 DEF Said
  <2>3. CASE i > Len(w)
    <3>1. i - Len(w) \in 1..Len(e) /\ i = Len(w) + (i - Len(w))
      BY <1>1, <2>1, <2>3
    <3> QED BY <1>1, <2>1, <2>3, <3>1 DEF Said
  <2> QED BY <1>1, <2>1, <2>2, <2>3
<1>5. CASE Said(e, a) # {}
  <2> DEFINE n == Max(Said(e, a))
  <2>1. n \in Said(e, a) /\ \A k \in Said(e, a) : k <= n
    BY <1>5, LastSaid
  <2> HIDE DEF n
  <2>2. n \in 1..Len(e) /\ e[n].id = a
    BY <1>1, <2>1 DEF Said
  <2>3. Len(w) + n \in Said(pipe, a) /\ pipe[Len(w) + n] = e[n]
    BY <1>1, <1>3, <2>2 DEF Said
  <2>4. ASSUME NEW k \in Said(pipe, a) PROVE k <= Len(w) + n
    <3>1. CASE k \in Said(w, a)
      <4>1. k \in 1..Len(w)
        BY <1>1, <3>1 DEF Said
      <4> QED BY <1>1, <2>2, <4>1
    <3>2. CASE k - Len(w) \in Said(e, a)
      <4>1. k - Len(w) <= n /\ k \in Nat
        BY <1>4, <2>1, <3>2
      <4> QED BY <1>1, <2>2, <4>1
    <3> QED BY <1>4, <3>1, <3>2
  <2>5. Ends(pipe, a, held) = (pipe[Len(w) + n].kind = "show")
    BY <1>1, <2>3, <2>4, EndsWith
  <2>6. Ends(e, a, Ends(w, a, held)) = (e[n].kind = "show")
    BY <2>1, EndsWith
  <2> QED BY <2>3, <2>5, <2>6 DEF pipe
<1>6. CASE Said(e, a) = {} /\ Said(w, a) # {}
  <2> DEFINE n == Max(Said(w, a))
  <2>1. n \in Said(w, a) /\ \A k \in Said(w, a) : k <= n
    BY <1>6, LastSaid
  <2> HIDE DEF n
  <2>2. n \in 1..Len(w) /\ w[n].id = a
    BY <1>1, <2>1 DEF Said
  <2>3. n \in Said(pipe, a) /\ pipe[n] = w[n]
    BY <1>1, <1>2, <2>2 DEF Said
  <2>4. \A k \in Said(pipe, a) : k <= n
    BY <1>4, <1>6, <2>1
  <2>5. Ends(pipe, a, held) = (pipe[n].kind = "show")
    BY <1>1, <2>3, <2>4, EndsWith
  <2>6. Ends(w, a, held) = (w[n].kind = "show")
    BY <2>1, EndsWith
  <2>7. Ends(e, a, Ends(w, a, held)) = Ends(w, a, held)
    BY <1>6 DEF Ends
  <2> QED BY <2>3, <2>5, <2>6, <2>7 DEF pipe
<1>7. CASE Said(e, a) = {} /\ Said(w, a) = {}
  <2>1. Said(pipe, a) = {}
    BY <1>4, <1>7
  <2> QED BY <1>7, <2>1 DEF Ends, pipe
<1> QED BY <1>5, <1>6, <1>7

LEMMA EndsOfOne ==
    ASSUME NEW m \in Message, NEW a, NEW held
    PROVE  /\ m.id = a => Ends(<<m>>, a, held) = (m.kind = "show")
           /\ m.id # a => Ends(<<m>>, a, held) = held
<1>1. <<m>> \in Seq(Message) /\ DOMAIN <<m>> = {1} /\ <<m>>[1] = m
  OBVIOUS
<1>2. CASE m.id = a
  <2>1. Said(<<m>>, a) = {1}
    BY <1>1, <1>2 DEF Said
  <2>2. \A k \in Said(<<m>>, a) : k <= 1
    BY <2>1
  <2>3. Ends(<<m>>, a, held) = (<<m>>[1].kind = "show")
    BY <1>1, <2>1, <2>2, EndsWith
  <2> QED BY <1>1, <1>2, <2>3
<1>3. CASE m.id # a
  <2>1. Said(<<m>>, a) = {}
    BY <1>1, <1>3 DEF Said
  <2> QED BY <1>3, <2>1 DEF Ends
<1> QED BY <1>2, <1>3

LEMMA EndsOfMore ==
    ASSUME NEW w \in Seq(Message), NEW m \in Message, NEW a, NEW held
    PROVE  /\ m.id = a => Ends(Append(w, m), a, held) = (m.kind = "show")
           /\ m.id # a => Ends(Append(w, m), a, held) = Ends(w, a, held)
<1> DEFINE one == <<m>>
           more == Append(w, m)
<1>1. more = w \o one /\ one \in Seq(Message)
  OBVIOUS
<1>2. Ends(one, a, Ends(w, a, held)) = IF m.id = a THEN (m.kind = "show") ELSE Ends(w, a, held)
  BY EndsOfOne
<1> HIDE DEF one, more
<1>3. Ends(w \o one, a, held) = Ends(one, a, Ends(w, a, held))
  BY <1>1, EndsInTurn
<1>4. Ends(more, a, held) = IF m.id = a THEN (m.kind = "show") ELSE Ends(w, a, held)
  BY <1>1, <1>2, <1>3
<1> QED BY <1>4 DEF more

LEMMA EndsFromHead ==
    ASSUME NEW w \in Seq(Message), w # <<>>, NEW a, NEW held
    PROVE  Ends(w, a, held) = Ends(Tail(w), a, Ends(<<Head(w)>>, a, held))
<1> DEFINE first == <<Head(w)>>
           rest == Tail(w)
<1>1. w = first \o rest /\ first \in Seq(Message) /\ rest \in Seq(Message)
  OBVIOUS
<1> HIDE DEF first, rest
<1>2. Ends(first \o rest, a, held) = Ends(rest, a, Ends(first, a, held))
  BY <1>1, EndsInTurn
<1>3. Ends(w, a, held) = Ends(rest, a, Ends(first, a, held))
  BY <1>1, <1>2
<1> QED BY <1>3 DEF first, rest

LEMMA ReadInTurn ==
    ASSUME TypeOK, NEW a
    PROVE  /\ WillBeQueued(a) <=> Ends(emissions, a, Ends(wire, a, Queued(a)))
           /\ wire \in Seq(Message) /\ emissions \in Seq(Message)
<1>1. Emission \subseteq Message
  BY DEF Emission, Message, Bubble
<1>2. wire \in Seq(Message) /\ emissions \in Seq(Message)
  BY <1>1 DEF TypeOK
<1>3. WillBeQueued(a) <=> Ends(wire \o emissions, a, Queued(a))
  BY DEF WillBeQueued, Ends, Said
<1> QED BY <1>2, <1>3, EndsInTurn

\* The bubble of an approval has no ttl.
ApprovalsStay == \A b \in ToSet(bubbles) : b.id \in Approval => ~b.expired

SurfaceInv == TypeOK /\ ApprovalsStay /\ BubblesFollowStore

\* A show or a dismiss that is read makes true what it says of its approval, and nothing
\* of another, unless the cap drops a bubble.
LEMMA QueuedAfterRead ==
    ASSUME TypeOK, ApprovalsStay, NEW msg \in Message,
           \/ msg.kind = "show" /\ ShowBubble(msg)
           \/ msg.kind = "dismiss" /\ DismissBubble(msg),
           NEW a \in Approval, a \notin evicted'
    PROVE  Queued(a)' <=> Ends(<<msg>>, a, Queued(a))
<1>1. CASE msg.kind = "show" /\ ShowBubble(msg)
  <2>1. PICK full \in SUBSET Entry :
           /\ full = {e \in ToSet(bubbles) : ~e.expired} \cup {EntryOf(msg)}
           /\ ToSet(bubbles') \subseteq full
           /\ evicted' = evicted \cup
                (Approval \cap ({e.id : e \in full} \ {e.id : e \in ToSet(bubbles')}))
    BY <1>1, ShowBubbleStep
  <2>2. Queued(a)' <=> \E e \in full : e.id = a
    <3>1. ASSUME NEW e \in full, e.id = a PROVE \E b \in ToSet(bubbles') : b.id = a
      BY <2>1, <3>1
    <3> QED BY <2>1, <3>1 DEF Queued
  <2>3. (\E e \in full : e.id = a) <=> (msg.id = a \/ Queued(a))
    <3>1. EntryOf(msg).id = msg.id
      BY DEF EntryOf
    <3>2. \A e \in ToSet(bubbles) : e.id = a => e \in full
      BY <2>1 DEF ApprovalsStay
    <3>3. \A e \in full : e = EntryOf(msg) \/ e \in ToSet(bubbles)
      BY <2>1
    <3>4. EntryOf(msg) \in full
      BY <2>1
    <3> QED BY <3>1, <3>2, <3>3, <3>4 DEF Queued
  <2>4. CASE msg.id = a
    <3>1. Ends(<<msg>>, a, Queued(a)) = (msg.kind = "show")
      BY <2>4, EndsOfOne
    <3> QED BY <1>1, <2>2, <2>3, <2>4, <3>1
  <2>5. CASE msg.id # a
    <3>1. Ends(<<msg>>, a, Queued(a)) = Queued(a)
      BY <2>5, EndsOfOne
    <3> QED BY <2>2, <2>3, <2>5, <3>1
  <2> QED BY <2>4, <2>5
<1>2. CASE msg.kind = "dismiss" /\ DismissBubble(msg)
  <2>1. ToSet(bubbles') = {e \in ToSet(bubbles) : e.id # msg.id}
    BY <1>2, DismissBubbleStep
  <2>2. Queued(a)' <=> (msg.id # a /\ Queued(a))
    BY <2>1 DEF Queued
  <2>3. CASE msg.id = a
    <3>1. Ends(<<msg>>, a, Queued(a)) = (msg.kind = "show")
      BY <2>3, EndsOfOne
    <3> QED BY <1>2, <2>2, <2>3, <3>1
  <2>4. CASE msg.id # a
    <3>1. Ends(<<msg>>, a, Queued(a)) = Queued(a)
      BY <2>4, EndsOfOne
    <3> QED BY <2>2, <2>4, <3>1
  <2> QED BY <2>3, <2>4
<1> QED BY <1>1, <1>2

LEMMA StayStep ==
    ASSUME TypeOK, ApprovalsStay, [Next]_vars
    PROVE  ApprovalsStay'
<1>1. ASSUME bubbles' = bubbles PROVE ApprovalsStay'
  BY <1>1 DEF ApprovalsStay
<1>2. ASSUME Deliver PROVE ApprovalsStay'
  <2> DEFINE msg == Head(wire)
  <2>1. msg \in Message
    BY <1>2 DEF Deliver, TypeOK
  <2>2. ShowBubble(msg) \/ DismissBubble(msg)
    BY <1>2 DEF Deliver
  <2> HIDE DEF msg
  <2>3. CASE ShowBubble(msg)
    <3>1. ToSet(bubbles') \subseteq {e \in ToSet(bubbles) : ~e.expired} \cup {EntryOf(msg)}
      BY <2>1, <2>3, ShowBubbleStep
    <3> QED BY <3>1 DEF ApprovalsStay, EntryOf
  <2>4. CASE DismissBubble(msg)
    <3>1. ToSet(bubbles') \subseteq ToSet(bubbles)
      BY <2>1, <2>4, DismissBubbleStep
    <3> QED BY <3>1 DEF ApprovalsStay
  <2> QED BY <2>2, <2>3, <2>4
<1>3. ASSUME NEW i \in DOMAIN bubbles, Expire(i) PROVE ApprovalsStay'
  <2>1. /\ bubbles \in Seq(Entry) /\ bubbles' \in Seq(Entry) /\ Len(bubbles') = Len(bubbles)
        /\ bubbles[i].id \in Chat
        /\ bubbles'[i] = [bubbles[i] EXCEPT !.expired = TRUE]
        /\ \A j \in DOMAIN bubbles : j # i => bubbles'[j] = bubbles[j]
    BY <1>3, ExpireStep DEF TypeOK
  <2>2. ASSUME NEW b \in ToSet(bubbles'), b.id \in Approval PROVE ~b.expired
    <3>1. PICK j \in DOMAIN bubbles' : b = bubbles'[j]
      BY DEF ToSet
    <3>2. j \in DOMAIN bubbles
      BY <2>1
    <3>3. bubbles[i] \in Entry
      BY <2>1
    <3>4. bubbles'[i].id = bubbles[i].id
      BY <2>1, <3>3 DEF Entry
    <3>5. j # i
      BY <2>1, <2>2, <3>1, <3>4, SurfaceAssumption
    <3> QED BY <2>1, <2>2, <3>1, <3>2, <3>5 DEF ToSet, ApprovalsStay
  <2> QED BY <2>2 DEF ApprovalsStay
<1>4. CASE \E a \in Approval : Add(a) \/ Resolve(a)
  BY <1>1, <1>4 DEF Add, Resolve, client
<1>5. CASE DemoClear \/ Emit \/ Disconnect \/ Reconnect \/ UNCHANGED vars
  BY <1>1, <1>5 DEF DemoClear, Emit, Disconnect, Reconnect, client, vars
<1>6. CASE \E c \in Chat : ShowChat(c)
  BY <1>1, <1>6 DEF ShowChat, client
<1> QED BY <1>2, <1>3, <1>4, <1>5, <1>6 DEF Next

LEMMA FollowStep ==
    ASSUME SurfaceInv, TypeOK', [Next]_vars
    PROVE  BubblesFollowStore'
<1> SUFFICES ASSUME NEW a \in Approval, a \notin missed', a \notin evicted', ~cleared'
             PROVE  WillBeQueued(a)' <=> (status[a] = "pending")'
  BY DEF BubblesFollowStore
<1> DEFINE will == Ends(emissions, a, Ends(wire, a, Queued(a)))
<1>1. TypeOK /\ ApprovalsStay
  BY DEF SurfaceInv
<1>2. /\ WillBeQueued(a) <=> will
      /\ wire \in Seq(Message) /\ emissions \in Seq(Message)
  BY <1>1, ReadInTurn
<1>3. WillBeQueued(a)' <=> will'
  <2>1. (TypeOK => (WillBeQueued(a) <=> will))'
    BY ReadInTurn, PTL
  <2> QED BY <2>1
<1>4. ASSUME a \notin missed, a \notin evicted, ~cleared
      PROVE  will <=> status[a] = "pending"
  BY <1>2, <1>4 DEF SurfaceInv, BubblesFollowStore
<1> HIDE DEF will
<1> SUFFICES will' <=> (status[a] = "pending")'
  BY <1>3
<1>5. ASSUME NEW b \in Approval, Add(b) PROVE will' <=> (status[a] = "pending")'
  <2> DEFINE m == [kind |-> "show", id |-> b, prompt |-> prompt[b] + 1]
  <2>1. m \in Message /\ m.id = b /\ m.kind = "show"
    BY <1>1 DEF Message, Bubble, TypeOK
  <2>2. /\ wire' = wire /\ bubbles' = bubbles /\ emissions' = Append(emissions, m)
        /\ a \notin missed /\ a \notin evicted /\ ~cleared
        /\ status' = [status EXCEPT ![b] = "pending"]
        /\ status \in [Approval -> {"none", "pending", "resolved"}]
    BY <1>1, <1>5 DEF Add, OnEvent, client, TypeOK
  <2> HIDE DEF m
  <2>3. Ends(wire, a, Queued(a))' = Ends(wire, a, Queued(a))
    BY <2>2 DEF Queued
  <2>4. will' = Ends(Append(emissions, m), a, Ends(wire, a, Queued(a)))
    BY <2>2, <2>3 DEF will
  <2>5. CASE a = b
    BY <1>2, <2>1, <2>2, <2>4, <2>5, EndsOfMore
  <2>6. CASE a # b
    <3>1. will' = will
      BY <1>2, <2>1, <2>4, <2>6, EndsOfMore DEF will
    <3> QED BY <1>4, <2>2, <2>6, <3>1
  <2> QED BY <2>5, <2>6
<1>6. ASSUME NEW b \in Approval, Resolve(b) PROVE will' <=> (status[a] = "pending")'
  <2> DEFINE m == [kind |-> "dismiss", id |-> b, prompt |-> prompt[b]]
  <2>1. m \in Message /\ m.id = b /\ m.kind # "show"
    BY <1>1 DEF Message, Bubble, TypeOK
  <2>2. /\ wire' = wire /\ bubbles' = bubbles /\ emissions' = Append(emissions, m)
        /\ a \notin missed /\ a \notin evicted /\ ~cleared
        /\ status' = [status EXCEPT ![b] = "resolved"]
        /\ status \in [Approval -> {"none", "pending", "resolved"}]
    BY <1>1, <1>6 DEF Resolve, OnEvent, client, TypeOK
  <2> HIDE DEF m
  <2>3. Ends(wire, a, Queued(a))' = Ends(wire, a, Queued(a))
    BY <2>2 DEF Queued
  <2>4. will' = Ends(Append(emissions, m), a, Ends(wire, a, Queued(a)))
    BY <2>2, <2>3 DEF will
  <2>5. CASE a = b
    BY <1>2, <2>1, <2>2, <2>4, <2>5, EndsOfMore
  <2>6. CASE a # b
    <3>1. will' = will
      BY <1>2, <2>1, <2>4, <2>6, EndsOfMore DEF will
    <3> QED BY <1>4, <2>2, <2>6, <3>1
  <2> QED BY <2>5, <2>6
<1>7. ASSUME DemoClear PROVE will' <=> (status[a] = "pending")'
  BY <1>7 DEF DemoClear
<1>8. ASSUME Emit PROVE will' <=> (status[a] = "pending")'
  <2> DEFINE m == Head(emissions)
  <2>1. /\ emissions # <<>> /\ emissions' = Tail(emissions) /\ bubbles' = bubbles
        /\ a \notin missed /\ a \notin evicted /\ ~cleared /\ status' = status
        /\ \/ wire' = Append(wire, m)
           \/ wire' = wire /\ missed' = missed \cup {m.id}
    BY <1>8 DEF Emit, client
  <2>2. m \in Message
    BY <1>2, <2>1
  <2> HIDE DEF m
  <2>3. \A held : Ends(emissions, a, held) = Ends(Tail(emissions), a, Ends(<<m>>, a, held))
    BY <1>2, <2>1, EndsFromHead DEF m
  <2>4. Queued(a)' = Queued(a)
    BY <2>1 DEF Queued
  <2>5. will' = Ends(Tail(emissions), a, Ends(wire', a, Queued(a)))
    BY <2>1, <2>4 DEF will
  <2>6. CASE wire' = Append(wire, m)
    <3>1. Ends(wire', a, Queued(a)) = Ends(<<m>>, a, Ends(wire, a, Queued(a)))
      BY <1>2, <2>2, <2>6, EndsOfMore, EndsOfOne
    <3>2. will' = will
      BY <2>3, <2>5, <3>1 DEF will
    <3> QED BY <1>4, <2>1, <3>2
  <2>7. CASE wire' = wire /\ missed' = missed \cup {m.id}
    <3>1. m.id # a
      BY <2>7
    <3>2. Ends(<<m>>, a, Ends(wire, a, Queued(a))) = Ends(wire, a, Queued(a))
      BY <2>2, <3>1, EndsOfOne
    <3>3. will' = will
      BY <2>3, <2>5, <2>7, <3>2 DEF will
    <3> QED BY <1>4, <2>1, <3>3
  <2> QED BY <2>1, <2>6, <2>7
<1>9. ASSUME NEW c \in Chat, ShowChat(c) PROVE will' <=> (status[a] = "pending")'
  <2> DEFINE m == [kind |-> "show", id |-> c, prompt |-> 0]
  <2>1. m \in Message /\ m.id # a
    BY SurfaceAssumption DEF Message, Bubble
  <2>2. /\ wire' = Append(wire, m) /\ emissions' = emissions /\ bubbles' = bubbles
        /\ a \notin missed /\ a \notin evicted /\ ~cleared /\ status' = status
    BY <1>9 DEF ShowChat, agent, client
  <2> HIDE DEF m
  <2>3. Queued(a)' = Queued(a)
    BY <2>2 DEF Queued
  <2>4. will' = will
    BY <1>2, <2>1, <2>2, <2>3, EndsOfMore DEF will
  <2> QED BY <1>4, <2>2, <2>4
<1>10. ASSUME Disconnect PROVE will' <=> (status[a] = "pending")'
  <2>1. /\ wire' = <<>> /\ emissions' = emissions /\ bubbles' = bubbles
        /\ a \notin missed /\ a \notin evicted /\ ~cleared /\ status' = status
        /\ \A m \in ToSet(wire) : m.id # a
    BY <1>10 DEF Disconnect, agent, client
  <2>2. Said(wire, a) = {} /\ Said(<<>>, a) = {}
    BY <2>1 DEF Said, ToSet
  <2>3. Queued(a)' = Queued(a)
    BY <2>1 DEF Queued
  <2>4. will' = will
    BY <2>1, <2>2, <2>3 DEF will, Ends
  <2> QED BY <1>4, <2>1, <2>4
<1>11. ASSUME Deliver PROVE will' <=> (status[a] = "pending")'
  <2> DEFINE m == Head(wire)
  <2>1. /\ wire # <<>> /\ wire' = Tail(wire) /\ emissions' = emissions /\ status' = status
        /\ a \notin missed /\ ~cleared
        /\ \/ m.kind = "show" /\ ShowBubble(m)
           \/ m.kind = "dismiss" /\ DismissBubble(m)
    BY <1>11 DEF Deliver, agent
  <2>2. m \in Message
    BY <1>2, <2>1
  <2>3. a \notin evicted
    BY <2>1 DEF ShowBubble, DismissBubble
  <2> HIDE DEF m
  <2>4. Ends(wire, a, Queued(a)) = Ends(Tail(wire), a, Ends(<<m>>, a, Queued(a)))
    BY <1>2, <2>1, EndsFromHead DEF m
  <2>5. Queued(a)' <=> Ends(<<m>>, a, Queued(a))
    BY <1>1, <2>1, <2>2, QueuedAfterRead
  <2>6. will' <=> will
    <3>1. Ends(<<m>>, a, Queued(a)) \in BOOLEAN /\ Queued(a)' \in BOOLEAN
      <4>1. Ends(<<m>>, a, Queued(a)) \in {m.kind = "show", Queued(a)}
        BY <2>2, EndsOfOne
      <4> QED BY <4>1 DEF Queued
    <3>2. Queued(a)' = Ends(<<m>>, a, Queued(a))
      BY <2>5, <3>1
    <3>3. Ends(wire, a, Queued(a))' = Ends(wire, a, Queued(a))
      BY <2>1, <2>4, <3>2
    <3> QED BY <2>1, <3>3 DEF will
  <2> QED BY <1>4, <2>1, <2>3, <2>6
<1>12. ASSUME NEW i \in DOMAIN bubbles, Expire(i) PROVE will' <=> (status[a] = "pending")'
  <2>1. /\ wire' = wire /\ emissions' = emissions /\ status' = status
        /\ a \notin missed /\ a \notin evicted /\ ~cleared
    BY <1>12 DEF Expire, agent
  <2>2. Queued(a)' <=> Queued(a)
    <3>1. /\ bubbles \in Seq(Entry) /\ bubbles' \in Seq(Entry) /\ Len(bubbles') = Len(bubbles)
          /\ bubbles'[i] = [bubbles[i] EXCEPT !.expired = TRUE]
          /\ \A j \in DOMAIN bubbles : j # i => bubbles'[j] = bubbles[j]
      BY <1>1, <1>12, ExpireStep DEF TypeOK
    <3>2. DOMAIN bubbles' = DOMAIN bubbles /\ bubbles[i] \in Entry
      BY <3>1
    <3>3. \A j \in DOMAIN bubbles : bubbles'[j].id = bubbles[j].id
      BY <3>1, <3>2 DEF Entry
    <3> QED BY <3>2, <3>3 DEF Queued, ToSet
  <2>3. Queued(a)' = Queued(a)
    BY <2>2 DEF Queued
  <2>4. will' = will
    BY <2>1, <2>3 DEF will
  <2> QED BY <1>4, <2>1, <2>4
<1>13. ASSUME Reconnect \/ UNCHANGED vars PROVE will' <=> (status[a] = "pending")'
  <2>1. /\ wire' = wire /\ emissions' = emissions /\ bubbles' = bubbles
        /\ a \notin missed /\ a \notin evicted /\ ~cleared /\ status' = status
    BY <1>13 DEF Reconnect, vars, agent, client
  <2>2. will' = will
    BY <2>1 DEF will, Queued
  <2> QED BY <1>4, <2>1, <2>2
<1> QED BY <1>5, <1>6, <1>7, <1>8, <1>9, <1>10, <1>11, <1>12, <1>13 DEF Next

\* The bubbles converge to the store: when what is under way has been read, an approval
\* is in the client's queue exactly when it is pending, unless one of its intents was
\* lost, the cap dropped its bubble or the demo panel's clear forgot it; for any number
\* of approvals, of other bubbles and of lost connections.
THEOREM BubblesConverge == Spec => []BubblesFollowStore
<1>1. Init => SurfaceInv
  <2> SUFFICES ASSUME Init PROVE ApprovalsStay /\ BubblesFollowStore
    BY TypeStart DEF SurfaceInv
  <2>1. ToSet(bubbles) = {} /\ wire \o emissions = <<>> /\ \A a \in Approval : status[a] # "pending"
    BY DEF Init, ToSet
  <2>2. \A a \in Approval : ~WillBeQueued(a)
    BY <2>1 DEF WillBeQueued, Queued
  <2> QED BY <2>1, <2>2 DEF ApprovalsStay, BubblesFollowStore
<1>2. SurfaceInv /\ [Next]_vars => SurfaceInv'
  BY TypeStep, StayStep, FollowStep DEF SurfaceInv
<1>3. SurfaceInv => BubblesFollowStore
  BY DEF SurfaceInv
<1> QED BY <1>1, <1>2, <1>3, PTL DEF Spec

-----------------------------------------------------------------------------
(***************************************************************************)
(* ReplyStream.  What the client's operations do to the queue.             *)
(***************************************************************************)

\* The entries of r are entries of q, each once, and maybe extra, once.
DrawnFrom(r, q, extra) ==
    \E f \in [DOMAIN r -> {0} \cup DOMAIN q] :
        /\ \A i, j \in DOMAIN r : f[i] = f[j] => i = j
        /\ \A i \in DOMAIN r : r[i] = IF f[i] = 0 THEN extra ELSE q[f[i]]

LEMMA EntriesDrawn ==
    ASSUME NEW S, NEW q \in Seq(S), NEW I \in SUBSET (1..Len(q))
    PROVE  \E f \in [DOMAIN EntriesAt(q, I) -> I] :
              /\ \A i, j \in DOMAIN EntriesAt(q, I) : f[i] = f[j] => i = j
              /\ \A i \in DOMAIN EntriesAt(q, I) : EntriesAt(q, I)[i] = q[f[i]]
<1>1. PICK m \in [1..Cardinality(I) -> I] :
         Enumerates(m, I) /\ \A n \in 1..Cardinality(I) : EntriesAt(q, I)[n] = q[m[n]]
  BY EntriesKept
<1>2. DOMAIN EntriesAt(q, I) = 1..Cardinality(I) /\ Cardinality(I) \in Nat
  BY EntriesKept DEF EntriesAt
<1>3. ASSUME NEW i \in 1..Cardinality(I), NEW j \in 1..Cardinality(I), m[i] = m[j] PROVE i = j
  <2>1. ~(i < j) /\ ~(j < i)
    <3>1. m[i] \in Nat /\ m[j] \in Nat
      <4>1. m[i] \in I /\ m[j] \in I /\ I \subseteq Nat
        OBVIOUS
      <4> QED BY <4>1
    <3> QED BY <1>1, <1>3, <3>1 DEF Enumerates
  <2> QED BY <1>2, <2>1
<1> QED BY <1>1, <1>2, <1>3

\* enqueue: entries that had not expired, and the new one.
LEMMA EnqueuedDrawn ==
    ASSUME NEW q \in Seq(Balloon), Len(q) <= QueueSize, NEW balloon \in Balloon
    PROVE  /\ Enqueued(q, balloon) \in Seq(Balloon) /\ Len(Enqueued(q, balloon)) <= QueueSize
           /\ DrawnFrom(Enqueued(q, balloon), Unexpired(q), balloon)
<1> DEFINE live == Unexpired(q)
           full == Append(live, balloon)
           r == Enqueued(q, balloon)
<1>0. QueueSize \in Nat \ {0} /\ Len(q) \in Nat
  BY ReplyAssumption
<1>1. live \in Seq(Balloon) /\ Len(live) <= Len(q) /\ Len(live) \in Nat
  BY UnexpiredKept
<1>2. r = IF Len(full) > QueueSize THEN Tail(full) ELSE full
  BY DEF Enqueued
<1> HIDE DEF live, r
<1>3. /\ full \in Seq(Balloon) /\ Len(full) = Len(live) + 1
      /\ \A i \in 1..Len(live) : full[i] = live[i]
      /\ full[Len(live) + 1] = balloon
      /\ DOMAIN live = 1..Len(live)
  BY <1>1
<1> HIDE DEF full
<1> DEFINE skip == IF Len(full) > QueueSize THEN 1 ELSE 0
<1>4. /\ r \in Seq(Balloon) /\ Len(r) = Len(live) + 1 - skip /\ DOMAIN r = 1..Len(r)
      /\ \A i \in 1..Len(r) : r[i] = full[i + skip] /\ i + skip \in 1..(Len(live) + 1)
  <2>1. CASE Len(full) > QueueSize
    BY <1>0, <1>1, <1>2, <1>3, <2>1
  <2>2. CASE ~(Len(full) > QueueSize)
    BY <1>0, <1>1, <1>2, <1>3, <2>2
  <2> QED BY <2>1, <2>2
<1>5. Len(r) <= QueueSize
  BY <1>0, <1>1, <1>3, <1>4
<1> DEFINE f == [i \in DOMAIN r |-> IF i + skip = Len(live) + 1 THEN 0 ELSE i + skip]
<1>6. f \in [DOMAIN r -> {0} \cup DOMAIN live]
  BY <1>1, <1>3, <1>4
<1>7. \A i, j \in DOMAIN r : f[i] = f[j] => i = j
  BY <1>1, <1>3, <1>4
<1>8. \A i \in DOMAIN r : r[i] = IF f[i] = 0 THEN balloon ELSE live[f[i]]
  BY <1>1, <1>3, <1>4
<1>9. DrawnFrom(r, live, balloon)
  <2> HIDE DEF f
  <2> QED BY <1>6, <1>7, <1>8 DEF DrawnFrom
<1> QED BY <1>4, <1>5, <1>9 DEF live, r

\* update: the first entry with the id takes the text.
LEMMA PatchedKept ==
    ASSUME NEW q \in Seq(Balloon), NEW intent \in Intent, With(q, intent.id) # {}
    PROVE  \E i \in With(q, intent.id) :
              /\ Patched(q, intent) \in Seq(Balloon) /\ Len(Patched(q, intent)) = Len(q)
              /\ i \in DOMAIN q
              /\ Patched(q, intent)[i] = [q[i] EXCEPT !.of = intent.of, !.got = intent.got]
              /\ \A j \in DOMAIN q : j # i => Patched(q, intent)[j] = q[j]
<1> DEFINE i == Min(With(q, intent.id))
<1>1. i \in With(q, intent.id) /\ i \in DOMAIN q
  <2>1. With(q, intent.id) \in SUBSET Nat /\ With(q, intent.id) \subseteq DOMAIN q
    BY DEF With
  <2> QED BY <2>1, LeastMember
<1>2. [q[i] EXCEPT !.of = intent.of, !.got = intent.got] \in Balloon
  <2>1. q[i] \in Balloon
    BY <1>1
  <2>2. intent.of \in UserMessage /\ intent.got \in 0..MaxTokens
    BY DEF Intent
  <2> HIDE DEF i
  <2> QED BY <2>1, <2>2 DEF Balloon
<1>3. Patched(q, intent) = [q EXCEPT ![i].of = intent.of, ![i].got = intent.got]
  BY DEF Patched
<1> HIDE DEF i
<1>4. Patched(q, intent) = [q EXCEPT ![i] = [q[i] EXCEPT !.of = intent.of, !.got = intent.got]]
  BY <1>1, <1>3
<1> HIDE DEF Balloon
<1>5. Patched(q, intent) \in Seq(Balloon) /\ Len(Patched(q, intent)) = Len(q)
  BY <1>1, <1>2, <1>4
<1> QED BY <1>1, <1>4, <1>5

-----------------------------------------------------------------------------
(***************************************************************************)
(* ReplyStream: the invariant of a stream that lost nothing.               *)
(***************************************************************************)

\* The positions at which a sequence of intents or balloons speaks of the reply to m.
ReplyIn(q, m) == {i \in DOMAIN q : q[i].id = "reply" /\ q[i].of = m}

OneReply(q, m) == \A i, j \in ReplyIn(q, m) : i = j

ShowIn(m) == {i \in ReplyIn(line, m) : line[i].kind = "show"}

\* The patch with the whole reply.
IsLast(intent, m) == intent.kind = "patch" /\ intent.of = m /\ intent.got = tokens[m]

LineKinds ==
    \A i \in DOMAIN line :
        /\ line[i].kind = "dismiss" => line[i].id = "ack"
        /\ line[i].kind = "patch" => line[i].id = "reply"

\* A message has a token when its placeholder is given up.
TokensCome ==
    \A m \in UserMessage :
        /\ turn[m] \in {"unsent", "acked"} => tokens[m] = 0
        /\ turn[m] \in {"swapping", "streaming"} => tokens[m] > 0

\* A reply is spoken of once its bubble was sent.
ReplyBegun ==
    \A m \in UserMessage :
        ReplyIn(line, m) \cup ReplyIn(balloons, m) # {} => turn[m] \in {"streaming", "ended"}

\* A reply that met no other has one bubble at most, on its way or on the client.
OneBubble ==
    \A m \in UserMessage \ mixed :
        /\ \A i, j \in ShowIn(m) : i = j
        /\ OneReply(balloons, m)
        /\ ShowIn(m) = {} \/ ReplyIn(balloons, m) = {}

\* The placeholder of a message with a token is about to be dismissed.
AcksLeave ==
    \A m \in UserMessage : tokens[m] > 0 =>
        /\ \A i \in DOMAIN line : line[i].kind = "show" /\ line[i].id = "ack" /\ line[i].of = m =>
              \E j \in DOMAIN line : j > i /\ line[j].kind = "dismiss"
        /\ \A i \in DOMAIN balloons : balloons[i].id = "ack" /\ balloons[i].of = m =>
              \E j \in DOMAIN line : line[j].kind = "dismiss"

\* What is under way of a stream that ended has the whole reply at its end.
LastPatch ==
    \A m \in UserMessage \ mixed : turn[m] = "ended" =>
        /\ \A i \in ReplyIn(line, m) : \E j \in DOMAIN line : j >= i /\ IsLast(line[j], m)
        /\ \A i \in ReplyIn(balloons, m) :
              balloons[i].got = tokens[m] \/ \E j \in DOMAIN line : IsLast(line[j], m)

StreamParts == TokensCome /\ ReplyBegun /\ OneBubble /\ AcksLeave /\ LastPatch

StreamInv == ReplyTypeOK /\ LineKinds /\ (~lost => StreamParts)

LEMMA KeptReplies ==
    ASSUME NEW q \in Seq(Balloon), NEW I \in SUBSET (1..Len(q)), NEW m
    PROVE  /\ OneReply(q, m) => OneReply(EntriesAt(q, I), m)
           /\ \A i \in DOMAIN EntriesAt(q, I) : \E j \in I : EntriesAt(q, I)[i] = q[j]
<1> DEFINE r == EntriesAt(q, I)
<1>1. PICK f \in [DOMAIN r -> I] :
         /\ \A i, j \in DOMAIN r : f[i] = f[j] => i = j
         /\ \A i \in DOMAIN r : r[i] = q[f[i]]
  BY EntriesDrawn
<1> HIDE DEF r
<1>2. ASSUME OneReply(q, m), NEW i \in ReplyIn(r, m), NEW j \in ReplyIn(r, m) PROVE i = j
  <2>1. i \in DOMAIN r /\ j \in DOMAIN r /\ f[i] \in DOMAIN q /\ f[j] \in DOMAIN q
    BY <1>1 DEF ReplyIn
  <2>2. f[i] \in ReplyIn(q, m) /\ f[j] \in ReplyIn(q, m)
    BY <1>1, <2>1 DEF ReplyIn
  <2> QED BY <1>1, <1>2, <2>1, <2>2 DEF OneReply
<1>3. \A i \in DOMAIN r : \E j \in I : r[i] = q[j]
  BY <1>1
<1> QED BY <1>2, <1>3 DEF OneReply, r

LEMMA DrawnReplies ==
    ASSUME NEW r, NEW q, NEW extra, DrawnFrom(r, q, extra), NEW m
    PROVE  /\ OneReply(q, m) /\ ~(extra.id = "reply" /\ extra.of = m) => OneReply(r, m)
           /\ ReplyIn(q, m) = {} => OneReply(r, m)
           /\ \A i \in DOMAIN r : r[i] = extra \/ \E j \in DOMAIN q : r[i] = q[j]
<1>1. PICK f \in [DOMAIN r -> {0} \cup DOMAIN q] :
         /\ \A i, j \in DOMAIN r : f[i] = f[j] => i = j
         /\ \A i \in DOMAIN r : r[i] = IF f[i] = 0 THEN extra ELSE q[f[i]]
  BY DEF DrawnFrom
<1>2. ASSUME NEW i \in ReplyIn(r, m), f[i] # 0 PROVE f[i] \in ReplyIn(q, m)
  BY <1>1, <1>2 DEF ReplyIn
<1>3. ASSUME NEW i \in ReplyIn(r, m), f[i] = 0 PROVE extra.id = "reply" /\ extra.of = m
  BY <1>1, <1>3 DEF ReplyIn
<1>4. \A i \in ReplyIn(r, m) : i \in DOMAIN r
  BY DEF ReplyIn
<1>5. ASSUME OneReply(q, m), ~(extra.id = "reply" /\ extra.of = m) PROVE OneReply(r, m)
  BY <1>1, <1>2, <1>3, <1>4, <1>5 DEF OneReply
<1>6. ASSUME ReplyIn(q, m) = {} PROVE OneReply(r, m)
  BY <1>1, <1>2, <1>4, <1>6 DEF OneReply
<1>7. \A i \in DOMAIN r : r[i] = extra \/ \E j \in DOMAIN q : r[i] = q[j]
  BY <1>1
<1> QED BY <1>5, <1>6, <1>7

\* Two replies that come together are mixed.
LEMMA Meets ==
    ASSUME NEW q, NEW intent, intent.id = "reply",
           NEW j \in DOMAIN q, q[j].id = "reply", q[j].of # intent.of
    PROVE  q[j].of \in Meeting(q, intent) /\ intent.of \in Meeting(q, intent)
<1> DEFINE others == {b.of : b \in {c \in ToSet(q) : c.id = "reply" /\ c.of # intent.of}}
<1>1. q[j] \in ToSet(q)
  BY DEF ToSet
<1>2. q[j].of \in others
  BY <1>1
<1>3. others # {}
  BY <1>2
<1>4. Meeting(q, intent) = others \cup {intent.of}
  BY <1>3 DEF Meeting
<1> QED BY <1>2, <1>4

LEMMA LineGrows ==
    ASSUME ReplyTypeOK, NEW x \in Intent, line' = Append(line, x)
    PROVE  /\ line' \in Seq(Intent)
           /\ \A i \in DOMAIN line : i \in DOMAIN line' /\ line'[i] = line[i] /\ Len(line) + 1 > i
           /\ Len(line) + 1 \in DOMAIN line' /\ line'[Len(line) + 1] = x
           /\ Len(line) + 1 \notin DOMAIN line
           /\ \A i \in DOMAIN line' : i \in DOMAIN line \/ i = Len(line) + 1
<1>1. line \in Seq(Intent) /\ Len(line) \in Nat /\ DOMAIN line = 1..Len(line)
  BY DEF ReplyTypeOK
<1>2. /\ line' \in Seq(Intent) /\ Len(line') = Len(line) + 1
      /\ \A i \in 1..Len(line) : line'[i] = line[i]
      /\ line'[Len(line) + 1] = x
      /\ DOMAIN line' = 1..(Len(line) + 1)
  BY <1>1
<1> QED BY <1>1, <1>2

LEMMA LineShrinks ==
    ASSUME ReplyTypeOK, line # <<>>, line' = Tail(line)
    PROVE  /\ line' \in Seq(Intent) /\ Head(line) \in Intent
           /\ 1 \in DOMAIN line /\ line[1] = Head(line)
           /\ \A i \in DOMAIN line : i \in Nat /\ i >= 1
           /\ \A i \in DOMAIN line' : i \in Nat /\ i + 1 \in DOMAIN line /\ line'[i] = line[i + 1]
           /\ \A i \in DOMAIN line : i > 1 => i - 1 \in DOMAIN line' /\ line'[i - 1] = line[i]
<1>1. line \in Seq(Intent) /\ Len(line) \in Nat \ {0} /\ DOMAIN line = 1..Len(line)
  BY DEF ReplyTypeOK
<1>2. /\ line' \in Seq(Intent) /\ Len(line') = Len(line) - 1
      /\ \A i \in 1..(Len(line) - 1) : line'[i] = line[i + 1]
      /\ DOMAIN line' = 1..(Len(line) - 1)
      /\ Head(line) = line[1]
  BY <1>1
<1> QED BY <1>1, <1>2

BalloonOf(x) == [id |-> x.id, of |-> x.of, got |-> x.got, expired |-> FALSE]

\* What the three kinds of intent, once read, make of the replies and placeholders on
\* the client.
LEMMA ShowTaken ==
    ASSUME ReplyTypeOK, NEW x \in Intent,
           balloons' = Enqueued(balloons, BalloonOf(x)),
           mixed' = mixed \cup Meeting(Unexpired(balloons), x)
    PROVE  /\ balloons' \in Seq(Balloon) /\ Len(balloons') <= QueueSize
           /\ \A i \in DOMAIN balloons' :
                 balloons'[i] = BalloonOf(x) \/ \E j \in DOMAIN balloons : balloons'[i] = balloons[j]
           /\ \A m \in UserMessage \ mixed' : x.id = "reply" /\ x.of # m => ReplyIn(balloons', m) = {}
           /\ \A m \in UserMessage :
                 \/ OneReply(balloons, m) /\ ~(x.id = "reply" /\ x.of = m)
                 \/ ReplyIn(balloons, m) = {}
                 => OneReply(balloons', m)
<1> DEFINE live == Unexpired(balloons)
           I == {i \in DOMAIN balloons : ~balloons[i].expired}
<1>1. balloons \in Seq(Balloon) /\ I \in SUBSET (1..Len(balloons)) /\ live = EntriesAt(balloons, I)
  BY DEF ReplyTypeOK, Unexpired
<1>2. BalloonOf(x) \in Balloon
  BY DEF BalloonOf, Balloon, Intent
<1>3. /\ balloons' \in Seq(Balloon) /\ Len(balloons') <= QueueSize
      /\ DrawnFrom(balloons', live, BalloonOf(x))
  BY <1>2, EnqueuedDrawn DEF ReplyTypeOK
<1>4. /\ \A i \in DOMAIN live : \E j \in I : live[i] = balloons[j]
      /\ \A m : OneReply(balloons, m) => OneReply(live, m)
  <2> DEFINE r == EntriesAt(balloons, I)
  <2>1. \A m : OneReply(balloons, m) => OneReply(r, m)
    BY <1>1, KeptReplies
  <2>2. \A i \in DOMAIN r : \E j \in I : r[i] = balloons[j]
    BY <1>1, KeptReplies
  <2> HIDE DEF live, r
  <2>3. live = r
    BY <1>1 DEF r
  <2> QED BY <2>1, <2>2, <2>3
<1>5. mixed' = mixed \cup Meeting(live, x)
  OBVIOUS
<1>6. \A j \in I : j \in DOMAIN balloons
  OBVIOUS
<1> HIDE DEF live, I
<1>7. \A i \in DOMAIN balloons' :
         balloons'[i] = BalloonOf(x) \/ \E j \in DOMAIN live : balloons'[i] = live[j]
  BY <1>3, DrawnReplies
<1>8. \A i \in DOMAIN balloons' :
         balloons'[i] = BalloonOf(x) \/ \E j \in DOMAIN balloons : balloons'[i] = balloons[j]
  BY <1>4, <1>6, <1>7
<1>9. BalloonOf(x).id = x.id /\ BalloonOf(x).of = x.of
  BY DEF BalloonOf
<1>10. ASSUME NEW m \in UserMessage \ mixed', x.id = "reply", x.of # m,
              NEW i \in ReplyIn(balloons', m)
       PROVE  FALSE
  <2>1. i \in DOMAIN balloons' /\ balloons'[i].id = "reply" /\ balloons'[i].of = m
    BY DEF ReplyIn
  <2>2. PICK j \in DOMAIN live : balloons'[i] = live[j]
    BY <1>7, <1>9, <1>10, <2>1
  <2>3. m \in Meeting(live, x)
    BY <1>10, <2>1, <2>2, Meets
  <2> QED BY <1>5, <2>3
<1>11. ASSUME NEW m \in UserMessage, OneReply(balloons, m), ~(x.id = "reply" /\ x.of = m)
       PROVE  OneReply(balloons', m)
  BY <1>3, <1>4, <1>9, <1>11, DrawnReplies
<1>12. ASSUME NEW m \in UserMessage, ReplyIn(balloons, m) = {}
       PROVE  OneReply(balloons', m)
  <2>1. ReplyIn(live, m) = {}
    BY <1>4, <1>6, <1>12 DEF ReplyIn
  <2> QED BY <1>3, <2>1, DrawnReplies
<1> QED BY <1>3, <1>8, <1>10, <1>11, <1>12

LEMMA DismissTaken ==
    ASSUME ReplyTypeOK, NEW x \in Intent, x.id = "ack", balloons' = RemoveId(balloons, x.id)
    PROVE  /\ balloons' \in Seq(Balloon) /\ Len(balloons') <= QueueSize
           /\ \A i \in DOMAIN balloons' :
                 balloons'[i].id # "ack" /\ \E j \in DOMAIN balloons : balloons'[i] = balloons[j]
           /\ \A m : OneReply(balloons, m) => OneReply(balloons', m)
<1> DEFINE I == DOMAIN balloons \ With(balloons, x.id)
<1>1. balloons \in Seq(Balloon) /\ I \in SUBSET (1..Len(balloons)) /\ balloons' = EntriesAt(balloons, I)
  BY DEF ReplyTypeOK, RemoveId
<1>2. /\ \A i \in DOMAIN balloons' : \E j \in I : balloons'[i] = balloons[j]
      /\ \A m : OneReply(balloons, m) => OneReply(balloons', m)
  BY <1>1, KeptReplies
<1>3. balloons' \in Seq(Balloon) /\ Len(balloons') <= Len(balloons)
  BY <1>1, OthersKept
<1>4. Len(balloons') \in Nat /\ Len(balloons) \in Nat /\ QueueSize \in Nat /\ Len(balloons) <= QueueSize
  BY <1>1, <1>3, ReplyAssumption DEF ReplyTypeOK
<1>5. \A j \in I : j \in DOMAIN balloons /\ balloons[j].id # "ack"
  BY DEF With
<1> HIDE DEF I
<1> QED BY <1>2, <1>3, <1>4, <1>5

LEMMA PatchTaken ==
    ASSUME ReplyTypeOK, NEW x \in Intent, x.id = "reply",
           balloons' = IF With(balloons, "reply") = {} THEN balloons ELSE Patched(balloons, x),
           mixed' = mixed \cup Meeting(balloons, x)
    PROVE  /\ balloons' \in Seq(Balloon) /\ Len(balloons') <= QueueSize
           /\ \A i \in DOMAIN balloons' :
                 \/ balloons'[i].id = "reply" /\ balloons'[i].of = x.of
                 \/ \E j \in DOMAIN balloons : balloons'[i] = balloons[j]
           /\ \A m \in UserMessage \ mixed' : x.of # m => ReplyIn(balloons', m) = {}
           /\ \A m \in UserMessage \ mixed' : x.of = m /\ OneReply(balloons, m) =>
                 /\ OneReply(balloons', m)
                 /\ \A i \in ReplyIn(balloons', m) : balloons'[i].got = x.got
                 /\ ReplyIn(balloons', m) # {} => ReplyIn(balloons, m) # {}
<1>1. balloons \in Seq(Balloon) /\ Len(balloons) <= QueueSize
  BY DEF ReplyTypeOK
<1>2. CASE With(balloons, "reply") = {}
  <2>1. balloons' = balloons /\ \A m : ReplyIn(balloons, m) = {}
    BY <1>2 DEF With, ReplyIn
  <2> QED BY <1>1, <2>1 DEF OneReply
<1>3. CASE With(balloons, "reply") # {}
  <2>0. With(balloons, x.id) = With(balloons, "reply") /\ balloons' = Patched(balloons, x)
    BY <1>3
  <2>1. PICK i \in With(balloons, "reply") :
           /\ balloons' \in Seq(Balloon) /\ Len(balloons') = Len(balloons)
           /\ i \in DOMAIN balloons
           /\ balloons'[i] = [balloons[i] EXCEPT !.of = x.of, !.got = x.got]
           /\ \A j \in DOMAIN balloons : j # i => balloons'[j] = balloons[j]
    <3> DEFINE r == Patched(balloons, x)
    <3>1. \E i \in With(balloons, x.id) :
             /\ r \in Seq(Balloon) /\ Len(r) = Len(balloons)
             /\ i \in DOMAIN balloons
             /\ r[i] = [balloons[i] EXCEPT !.of = x.of, !.got = x.got]
             /\ \A j \in DOMAIN balloons : j # i => r[j] = balloons[j]
      BY <1>1, <1>3, <2>0, PatchedKept
    <3> HIDE DEF r
    <3>2. balloons' = r
      BY <2>0 DEF r
    <3> QED BY <2>0, <3>1, <3>2
  <2>2. balloons[i] \in Balloon /\ balloons[i].id = "reply" /\ DOMAIN balloons' = DOMAIN balloons
    BY <1>1, <2>1 DEF With
  <2>3. balloons'[i].id = "reply" /\ balloons'[i].of = x.of /\ balloons'[i].got = x.got
    BY <2>1, <2>2 DEF Balloon
  <2>4. ASSUME NEW j \in DOMAIN balloons, balloons[j].id = "reply", balloons[j].of # x.of
        PROVE  balloons[j].of \in mixed' /\ x.of \in mixed'
    BY <2>4, Meets
  <2>5. ASSUME NEW m \in UserMessage \ mixed', x.of # m, NEW j \in ReplyIn(balloons', m) PROVE FALSE
    <3>1. j \in DOMAIN balloons /\ balloons'[j].id = "reply" /\ balloons'[j].of = m
      BY <2>2 DEF ReplyIn
    <3>2. j # i
      BY <2>3, <2>5, <3>1
    <3>3. balloons[j].id = "reply" /\ balloons[j].of = m
      BY <2>1, <3>1, <3>2
    <3> QED BY <2>4, <2>5, <3>1, <3>3
  <2>6. ASSUME NEW m \in UserMessage \ mixed', x.of = m, OneReply(balloons, m)
        PROVE  /\ i \in ReplyIn(balloons, m)
               /\ \A j \in ReplyIn(balloons', m) : j = i
    <3>1. i \in ReplyIn(balloons, m)
      BY <2>1, <2>2, <2>4, <2>6 DEF ReplyIn
    <3>2. ASSUME NEW j \in ReplyIn(balloons', m), j # i PROVE FALSE
      <4>1. j \in ReplyIn(balloons, m)
        BY <2>1, <2>2, <3>2 DEF ReplyIn
      <4> QED BY <2>6, <3>1, <3>2, <4>1 DEF OneReply
    <3> QED BY <3>1, <3>2
  <2>7. ASSUME NEW j \in DOMAIN balloons'
        PROVE  \/ balloons'[j].id = "reply" /\ balloons'[j].of = x.of
               \/ \E k \in DOMAIN balloons : balloons'[j] = balloons[k]
    BY <2>1, <2>2, <2>3
  <2>8. \A m \in UserMessage \ mixed' : x.of # m => ReplyIn(balloons', m) = {}
    BY <2>5
  <2>9. \A m \in UserMessage \ mixed' : x.of = m /\ OneReply(balloons, m) =>
           /\ OneReply(balloons', m)
           /\ \A j \in ReplyIn(balloons', m) : balloons'[j].got = x.got
           /\ ReplyIn(balloons', m) # {} => ReplyIn(balloons, m) # {}
    BY <2>3, <2>6 DEF OneReply
  <2> QED BY <1>1, <2>1, <2>2, <2>7, <2>8, <2>9
<1> QED BY <1>2, <1>3

LEMMA TakeStep ==
    ASSUME ReplyTypeOK, LineKinds, StreamParts, TakeIntent
    PROVE  StreamParts'
<1> DEFINE x == Head(line)
<1>1. line # <<>> /\ line' = Tail(line) /\ turn' = turn /\ tokens' = tokens
  BY DEF TakeIntent
<1>2. /\ line' \in Seq(Intent) /\ x \in Intent
      /\ 1 \in DOMAIN line /\ line[1] = x
      /\ \A i \in DOMAIN line : i \in Nat /\ i >= 1
      /\ \A i \in DOMAIN line' : i \in Nat /\ i + 1 \in DOMAIN line /\ line'[i] = line[i + 1]
      /\ \A i \in DOMAIN line : i > 1 => i - 1 \in DOMAIN line' /\ line'[i - 1] = line[i]
  BY <1>1, LineShrinks
<1>3. \/ /\ x.kind = "show" /\ balloons' = Enqueued(balloons, BalloonOf(x))
         /\ mixed' = mixed \cup Meeting(Unexpired(balloons), x)
      \/ /\ x.kind = "patch" /\ mixed' = mixed \cup Meeting(balloons, x)
         /\ balloons' = IF With(balloons, "reply") = {} THEN balloons ELSE Patched(balloons, x)
      \/ x.kind = "dismiss" /\ balloons' = RemoveId(balloons, x.id) /\ mixed' = mixed
  BY DEF TakeIntent, BalloonOf
<1> HIDE DEF x
<1>4. /\ x.kind = "patch" => x.id = "reply"
      /\ x.kind = "dismiss" => x.id = "ack"
  BY <1>2 DEF LineKinds
<1>5. BalloonOf(x).id = x.id /\ BalloonOf(x).of = x.of /\ BalloonOf(x).got = x.got
  BY DEF BalloonOf
<1>6. ASSUME NEW i \in DOMAIN balloons'
      PROVE  \/ balloons'[i].id = x.id /\ balloons'[i].of = x.of /\ x.kind # "dismiss"
             \/ \E j \in DOMAIN balloons : balloons'[i] = balloons[j]
  <2>1. CASE x.kind = "show"
    BY <1>2, <1>3, <1>5, <2>1, ShowTaken
  <2>2. CASE x.kind = "patch"
    BY <1>2, <1>3, <1>4, <2>2, PatchTaken
  <2>3. CASE x.kind = "dismiss"
    BY <1>2, <1>3, <1>4, <2>3, DismissTaken
  <2> QED BY <1>3, <2>1, <2>2, <2>3
<1>7. ASSUME NEW m, NEW i \in ReplyIn(line', m) PROVE i + 1 \in ReplyIn(line, m)
  BY <1>2 DEF ReplyIn
<1>8. ASSUME NEW m, NEW i \in ShowIn(m)' PROVE i \in Nat /\ i + 1 \in ShowIn(m)
  BY <1>2, <1>7 DEF ShowIn, ReplyIn
<1>10. TokensCome'
  BY <1>1 DEF StreamParts, TokensCome
<1>11. ReplyBegun'
  <2> SUFFICES ASSUME NEW m \in UserMessage, ReplyIn(line', m) \cup ReplyIn(balloons', m) # {}
               PROVE  ReplyIn(line, m) \cup ReplyIn(balloons, m) # {}
    BY <1>1 DEF StreamParts, ReplyBegun
  <2>1. CASE ReplyIn(line', m) # {}
    BY <1>7, <2>1
  <2>2. CASE ReplyIn(balloons', m) # {}
    <3>1. PICK i \in DOMAIN balloons' : balloons'[i].id = "reply" /\ balloons'[i].of = m
      BY <2>2 DEF ReplyIn
    <3>2. 1 \in ReplyIn(line, m) \/ ReplyIn(balloons, m) # {}
      BY <1>2, <1>6, <3>1 DEF ReplyIn
    <3> QED BY <3>2
  <2> QED BY <2>1, <2>2
<1>12. mixed \subseteq mixed'
  BY <1>3
<1>13. ASSUME NEW m \in UserMessage \ mixed'
       PROVE  OneReply(balloons', m) /\ (ShowIn(m)' = {} \/ ReplyIn(balloons', m) = {})
  <2>1. /\ \A i, j \in ShowIn(m) : i = j
        /\ OneReply(balloons, m)
        /\ ShowIn(m) = {} \/ ReplyIn(balloons, m) = {}
    BY <1>12, <1>13 DEF StreamParts, OneBubble
  <2>2. CASE ~(x.id = "reply" /\ x.of = m)
    <3>1. ReplyIn(balloons', m) # {} => ReplyIn(balloons, m) # {}
      BY <1>6, <2>2 DEF ReplyIn
    <3>2. OneReply(balloons', m)
      <4>1. CASE x.kind = "show"
        BY <1>2, <1>3, <2>1, <2>2, <4>1, ShowTaken
      <4>2. CASE x.kind = "patch"
        <5>1. ReplyIn(balloons', m) = {}
          BY <1>2, <1>3, <1>4, <1>13, <2>2, <4>2, PatchTaken
        <5> QED BY <5>1 DEF OneReply
      <4>3. CASE x.kind = "dismiss"
        BY <1>2, <1>3, <1>4, <2>1, <4>3, DismissTaken
      <4> QED BY <1>3, <4>1, <4>2, <4>3
    <3> QED BY <1>8, <2>1, <3>1, <3>2
  <2>3. CASE x.id = "reply" /\ x.of = m /\ x.kind = "show"
    <3>1. 1 \in ShowIn(m)
      BY <1>2, <2>3 DEF ShowIn, ReplyIn
    <3>2. ReplyIn(balloons, m) = {}
      BY <2>1, <3>1
    <3>3. OneReply(balloons', m)
      BY <1>2, <1>3, <2>3, <3>2, ShowTaken
    <3>4. ASSUME NEW i \in ShowIn(m)' PROVE FALSE
      <4>1. i + 1 = 1 /\ i \in Nat /\ i >= 1
        <5>1. i + 1 = 1 /\ i \in Nat
          BY <1>8, <2>1, <3>1
        <5>2. i + 1 \in DOMAIN line /\ i - 1 + 1 = i
          BY <1>8, <5>1 DEF ShowIn, ReplyIn
        <5>3. i \in DOMAIN line'
          BY DEF ShowIn, ReplyIn
        <5>4. i \in 1..Len(line')
          BY <1>2, <5>3
        <5> QED BY <5>1, <5>4
      <4> QED BY <4>1
    <3> QED BY <3>3, <3>4
  <2>4. CASE x.id = "reply" /\ x.of = m /\ x.kind # "show"
    <3>1. x.kind = "patch"
      BY <1>3, <1>4, <2>4
    <3>2. OneReply(balloons', m) /\ (ReplyIn(balloons', m) # {} => ReplyIn(balloons, m) # {})
      BY <1>2, <1>3, <1>4, <1>13, <2>1, <2>4, <3>1, PatchTaken
    <3> QED BY <1>8, <2>1, <3>2
  <2> QED BY <2>2, <2>3, <2>4
<1>14. OneBubble'
  <2> SUFFICES ASSUME NEW m \in UserMessage \ mixed', NEW i \in ShowIn(m)', NEW j \in ShowIn(m)'
               PROVE  i = j
    BY <1>13 DEF OneBubble
  <2>1. i + 1 = j + 1 /\ i \in Nat /\ j \in Nat
    BY <1>8, <1>12 DEF StreamParts, OneBubble
  <2> QED BY <2>1
<1>15. AcksLeave'
  <2> SUFFICES ASSUME NEW m \in UserMessage, tokens[m] > 0
               PROVE  /\ \A i \in DOMAIN line' :
                            line'[i].kind = "show" /\ line'[i].id = "ack" /\ line'[i].of = m =>
                            \E j \in DOMAIN line' : j > i /\ line'[j].kind = "dismiss"
                      /\ \A i \in DOMAIN balloons' : balloons'[i].id = "ack" /\ balloons'[i].of = m =>
                            \E j \in DOMAIN line' : line'[j].kind = "dismiss"
    BY <1>1 DEF AcksLeave
  <2>1. /\ \A i \in DOMAIN line : line[i].kind = "show" /\ line[i].id = "ack" /\ line[i].of = m =>
              \E j \in DOMAIN line : j > i /\ line[j].kind = "dismiss"
        /\ \A i \in DOMAIN balloons : balloons[i].id = "ack" /\ balloons[i].of = m =>
              \E j \in DOMAIN line : line[j].kind = "dismiss"
    BY DEF StreamParts, AcksLeave
  <2>2. ASSUME NEW i \in DOMAIN line', line'[i].kind = "show", line'[i].id = "ack", line'[i].of = m
        PROVE  \E j \in DOMAIN line' : j > i /\ line'[j].kind = "dismiss"
    <3>1. PICK j \in DOMAIN line : j > i + 1 /\ line[j].kind = "dismiss"
      BY <1>2, <2>1, <2>2
    <3>2. i \in Nat /\ j \in Nat /\ j > 1 /\ j - 1 > i
      BY <1>2, <3>1
    <3> QED BY <1>2, <3>1, <3>2
  <2>3. ASSUME NEW i \in DOMAIN balloons', balloons'[i].id = "ack", balloons'[i].of = m
        PROVE  \E j \in DOMAIN line' : line'[j].kind = "dismiss"
    <3>1. CASE x.kind = "dismiss"
      BY <1>2, <1>3, <1>4, <2>3, <3>1, DismissTaken
    <3>2. CASE x.kind # "dismiss"
      <4>1. PICK j \in DOMAIN line : line[j].kind = "dismiss"
        <5>1. CASE x.id = "ack" /\ x.of = m
          <6>1. x.kind = "show"
            BY <1>3, <1>4, <3>2, <5>1
          <6> QED BY <1>2, <2>1, <5>1, <6>1
        <5>2. CASE \E k \in DOMAIN balloons : balloons'[i] = balloons[k]
          BY <2>1, <2>3, <5>2
        <5> QED BY <1>6, <2>3, <5>1, <5>2
      <4>2. j \in Nat /\ j # 1 /\ j >= 1
        BY <1>2, <3>2, <4>1
      <4>3. j > 1
        BY <4>2
      <4> QED BY <1>2, <4>1, <4>3
    <3> QED BY <3>1, <3>2
  <2> QED BY <2>2, <2>3
<1>16. LastPatch'
  <2> SUFFICES ASSUME NEW m \in UserMessage \ mixed', turn[m] = "ended"
               PROVE  /\ \A i \in ReplyIn(line', m) :
                            \E j \in DOMAIN line' : j >= i /\ IsLast(line'[j], m)
                      /\ \A i \in ReplyIn(balloons', m) :
                            \/ balloons'[i].got = tokens[m]
                            \/ \E j \in DOMAIN line' : IsLast(line'[j], m)
    BY <1>1 DEF LastPatch, IsLast
  <2>1. /\ \A i \in ReplyIn(line, m) : \E j \in DOMAIN line : j >= i /\ IsLast(line[j], m)
        /\ \A i \in ReplyIn(balloons, m) :
              balloons[i].got = tokens[m] \/ \E j \in DOMAIN line : IsLast(line[j], m)
        /\ OneReply(balloons, m)
    BY <1>12 DEF StreamParts, LastPatch, OneBubble
  <2>2. ASSUME NEW j \in DOMAIN line, j # 1, IsLast(line[j], m)
        PROVE  j - 1 \in DOMAIN line' /\ IsLast(line'[j - 1], m)
    <3>1. j \in Nat /\ j > 1
      BY <1>2, <2>2
    <3> QED BY <1>2, <2>2, <3>1
  <2>3. ASSUME NEW i \in ReplyIn(line', m)
        PROVE  \E j \in DOMAIN line' : j >= i /\ IsLast(line'[j], m)
    <3>1. i \in DOMAIN line'
      BY DEF ReplyIn
    <3>2. i \in Nat /\ i >= 1
      <4>1. i \in 1..Len(line')
        BY <1>2, <3>1
      <4> QED BY <4>1
    <3>3. PICK j \in DOMAIN line : j >= i + 1 /\ IsLast(line[j], m)
      BY <1>7, <2>1
    <3>4. j \in Nat /\ j # 1 /\ j - 1 >= i
      BY <1>2, <3>2, <3>3
    <3> QED BY <2>2, <3>3, <3>4
  <2>4. ASSUME NEW i \in ReplyIn(balloons', m), \A j \in DOMAIN line' : ~IsLast(line'[j], m)
        PROVE  balloons'[i].got = tokens[m]
    <3>1. \A j \in DOMAIN line : IsLast(line[j], m) => j = 1
      BY <2>2, <2>4
    <3>2. CASE x.id = "reply" /\ x.of = m
      <4>1. 1 \in ReplyIn(line, m)
        BY <1>2, <3>2 DEF ReplyIn
      <4>2. IsLast(x, m)
        BY <1>2, <2>1, <3>1, <4>1
      <4>3. x.kind = "patch" /\ x.got = tokens[m]
        BY <4>2 DEF IsLast
      <4> QED BY <1>2, <1>3, <1>4, <2>1, <2>4, <3>2, <4>3, PatchTaken
    <3>3. CASE ~(x.id = "reply" /\ x.of = m)
      <4>1. PICK k \in ReplyIn(balloons, m) : balloons'[i] = balloons[k]
        BY <1>6, <3>3 DEF ReplyIn
      <4>2. ~IsLast(x, m)
        BY <1>4, <3>3 DEF IsLast
      <4>3. \A j \in DOMAIN line : ~IsLast(line[j], m)
        BY <1>2, <3>1, <4>2
      <4> QED BY <2>1, <4>1, <4>3
    <3> QED BY <3>2, <3>3
  <2> QED BY <2>3, <2>4
<1> QED BY <1>10, <1>11, <1>14, <1>15, <1>16 DEF StreamParts

LEMMA ReplyTypeStart ==
    ASSUME ReplyInit
    PROVE  ReplyTypeOK /\ LineKinds
<1>1. MaxTokens \in Nat /\ MaxLinks \in Nat \ {0} /\ QueueSize \in Nat
  BY ReplyAssumption
<1>2. 0 \in 0..MaxTokens /\ 0 \in 0..MaxLinks /\ 1 \in 1..MaxLinks /\ 0 <= QueueSize
  BY <1>1
<1>3. line \in Seq(Intent) /\ balloons \in Seq(Balloon) /\ Len(balloons) = 0 /\ DOMAIN line = {}
  BY DEF ReplyInit
<1>4. ReplyTypeOK
  BY <1>2, <1>3 DEF ReplyInit, ReplyTypeOK
<1> QED BY <1>3, <1>4 DEF LineKinds

\* A message the agent sends, and the kinds it may have.
LEMMA Spoken ==
    ASSUME ReplyTypeOK, LineKinds, NEW m \in UserMessage, NEW n \in 0..MaxTokens,
           NEW kind \in {"show", "patch", "dismiss"}, NEW id \in {"ack", "reply"},
           kind = "dismiss" => id = "ack", kind = "patch" => id = "reply",
           Say(kind, id, m, n)
    PROVE  /\ [kind |-> kind, id |-> id, of |-> m, got |-> n] \in Intent
           /\ line' = Append(line, [kind |-> kind, id |-> id, of |-> m, got |-> n])
           /\ line' \in Seq(Intent) /\ LineKinds'
<1> DEFINE x == [kind |-> kind, id |-> id, of |-> m, got |-> n]
<1>1. /\ x \in Intent /\ line' = Append(line, x)
      /\ x.kind = "dismiss" => x.id = "ack"
      /\ x.kind = "patch" => x.id = "reply"
  BY DEF Intent, Say
<1> HIDE DEF x
<1>2. /\ line' \in Seq(Intent)
      /\ \A i \in DOMAIN line' : i \in DOMAIN line \/ i = Len(line) + 1
      /\ \A i \in DOMAIN line : line'[i] = line[i]
      /\ line'[Len(line) + 1] = x
  BY <1>1, LineGrows
<1>3. LineKinds'
  BY <1>1, <1>2 DEF LineKinds
<1> QED BY <1>1, <1>2, <1>3 DEF x

LEMMA TakeType ==
    ASSUME ReplyTypeOK, LineKinds, TakeIntent
    PROVE  (ReplyTypeOK /\ LineKinds)'
<1> DEFINE x == Head(line)
<1>1. line # <<>> /\ line' = Tail(line)
  BY DEF TakeIntent
<1>2. /\ line' \in Seq(Intent) /\ x \in Intent
      /\ 1 \in DOMAIN line /\ line[1] = x
      /\ \A i \in DOMAIN line' : i \in Nat /\ i + 1 \in DOMAIN line /\ line'[i] = line[i + 1]
  BY <1>1, LineShrinks
<1>3. \/ /\ x.kind = "show" /\ balloons' = Enqueued(balloons, BalloonOf(x))
         /\ mixed' = mixed \cup Meeting(Unexpired(balloons), x)
      \/ /\ x.kind = "patch" /\ mixed' = mixed \cup Meeting(balloons, x)
         /\ balloons' = IF With(balloons, "reply") = {} THEN balloons ELSE Patched(balloons, x)
      \/ x.kind = "dismiss" /\ balloons' = RemoveId(balloons, x.id) /\ mixed' = mixed
  BY DEF TakeIntent, BalloonOf
<1> HIDE DEF x
<1>4. /\ x.kind = "patch" => x.id = "reply"
      /\ x.kind = "dismiss" => x.id = "ack"
  BY <1>2 DEF LineKinds
<1>5. balloons' \in Seq(Balloon) /\ Len(balloons') <= QueueSize
  <2>1. CASE x.kind = "show"
    BY <1>2, <1>3, <2>1, ShowTaken
  <2>2. CASE x.kind = "patch"
    BY <1>2, <1>3, <1>4, <2>2, PatchTaken
  <2>3. CASE x.kind = "dismiss"
    BY <1>2, <1>3, <1>4, <2>3, DismissTaken
  <2> QED BY <1>3, <2>1, <2>2, <2>3
<1>6. mixed' \subseteq UserMessage
  <2>1. x.of \in UserMessage
    BY <1>2 DEF Intent
  <2>2. ASSUME NEW q \in Seq(Balloon) PROVE Meeting(q, x) \subseteq UserMessage
    <3>1. \A b \in ToSet(q) : b.of \in UserMessage
      <4>1. \A b \in ToSet(q) : b \in Balloon
        BY DEF ToSet
      <4> QED BY <4>1 DEF Balloon
    <3> QED BY <2>1, <3>1 DEF Meeting
  <2>3. balloons \in Seq(Balloon) /\ Unexpired(balloons) \in Seq(Balloon) /\ mixed \subseteq UserMessage
    BY UnexpiredKept DEF ReplyTypeOK
  <2> QED BY <1>3, <2>2, <2>3
<1>7. ReplyTypeOK'
  BY <1>2, <1>5, <1>6 DEF TakeIntent, ReplyTypeOK
<1>8. LineKinds'
  BY <1>2 DEF LineKinds
<1> QED BY <1>7, <1>8

LEMMA AgeStep ==
    ASSUME ReplyTypeOK, NEW i \in DOMAIN balloons, Age(i)
    PROVE  /\ balloons' \in Seq(Balloon) /\ Len(balloons') = Len(balloons)
           /\ DOMAIN balloons' = DOMAIN balloons
           /\ \A j \in DOMAIN balloons : /\ balloons'[j].id = balloons[j].id
                                         /\ balloons'[j].of = balloons[j].of
                                         /\ balloons'[j].got = balloons[j].got
<1>1. balloons \in Seq(Balloon) /\ balloons[i] \in Balloon
  BY DEF ReplyTypeOK
<1> DEFINE old == [balloons[i] EXCEPT !.expired = TRUE]
<1>2. /\ old \in Balloon /\ old.id = balloons[i].id /\ old.of = balloons[i].of
      /\ old.got = balloons[i].got
  BY <1>1 DEF Balloon
<1>3. balloons' = [balloons EXCEPT ![i] = old]
  BY DEF Age
<1> HIDE DEF old, Balloon
<1>4. /\ balloons' \in Seq(Balloon) /\ Len(balloons') = Len(balloons)
      /\ DOMAIN balloons' = DOMAIN balloons
  BY <1>1, <1>2, <1>3
<1>5. \A j \in DOMAIN balloons : j # i => balloons'[j] = balloons[j]
  BY <1>1, <1>3
<1>6. balloons'[i] = old
  BY <1>1, <1>3
<1> QED BY <1>2, <1>4, <1>5, <1>6

LEMMA ReplyTypeStep ==
    ASSUME ReplyTypeOK, LineKinds, [ReplyNext]_replyVars
    PROVE  (ReplyTypeOK /\ LineKinds)'
<1>0. MaxTokens \in Nat /\ MaxLinks \in Nat \ {0} /\ 0 \in 0..MaxTokens
  BY ReplyAssumption
<1>1. ASSUME NEW m \in UserMessage, Acknowledge(m) PROVE (ReplyTypeOK /\ LineKinds)'
  <2>1. Say("show", "ack", m, 0)
    BY <1>1 DEF Acknowledge
  <2>2. line' \in Seq(Intent) /\ LineKinds'
    BY <1>0, <2>1, Spoken
  <2>3. link \in 0..MaxLinks
    BY <1>0 DEF ReplyTypeOK
  <2> QED BY <1>1, <2>2, <2>3 DEF Acknowledge, ReplyTypeOK
<1>2. ASSUME NEW m \in UserMessage, FirstToken(m) PROVE (ReplyTypeOK /\ LineKinds)'
  <2>1. 1 \in 0..MaxTokens
    BY <1>0, <1>2 DEF FirstToken
  <2>2. CASE Raises(m)
    <3>1. line' = line /\ line' \in Seq(Intent) /\ lost' \in BOOLEAN
      BY <2>2 DEF Raises, ReplyTypeOK
    <3>2. LineKinds'
      BY <3>1 DEF LineKinds
    <3> QED BY <1>2, <2>1, <2>2, <3>1, <3>2 DEF FirstToken, Raises, ReplyTypeOK
  <2>3. CASE ~Raises(m)
    <3>1. Say("dismiss", "ack", m, 0)
      BY <1>2, <2>3 DEF FirstToken
    <3>2. line' \in Seq(Intent) /\ LineKinds'
      BY <1>0, <3>1, Spoken
    <3> QED BY <1>2, <2>1, <2>3, <3>2 DEF FirstToken, ReplyTypeOK
  <2> QED BY <2>2, <2>3
<1>3. ASSUME NEW m \in UserMessage, ShowReply(m) PROVE (ReplyTypeOK /\ LineKinds)'
  <2>1. tokens[m] \in 0..MaxTokens
    BY DEF ReplyTypeOK
  <2>2. CASE Raises(m)
    <3>1. line' = line /\ line' \in Seq(Intent) /\ lost' \in BOOLEAN
      BY <2>2 DEF Raises, ReplyTypeOK
    <3>2. LineKinds'
      BY <3>1 DEF LineKinds
    <3> QED BY <1>3, <2>2, <3>1, <3>2 DEF ShowReply, Raises, ReplyTypeOK
  <2>3. CASE ~Raises(m)
    <3>1. Say("show", "reply", m, tokens[m])
      BY <1>3, <2>3 DEF ShowReply
    <3>2. line' \in Seq(Intent) /\ LineKinds'
      BY <2>1, <3>1, Spoken
    <3> QED BY <1>3, <2>3, <3>2 DEF ShowReply, ReplyTypeOK
  <2> QED BY <2>2, <2>3
<1>4. ASSUME NEW m \in UserMessage, NextToken(m) PROVE (ReplyTypeOK /\ LineKinds)'
  <2>1. tokens[m] \in 0..MaxTokens /\ tokens[m] + 1 \in 0..MaxTokens
    BY <1>0, <1>4 DEF NextToken, ReplyTypeOK
  <2>2. tokens' \in [UserMessage -> 0..MaxTokens]
    BY <1>4, <2>1 DEF NextToken, ReplyTypeOK
  <2>3. CASE line' = line
    <3>1. LineKinds'
      BY <2>3 DEF LineKinds
    <3>2. turn' \in [UserMessage -> {"unsent", "acked", "swapping", "streaming", "ended"}] /\ lost' \in BOOLEAN
      BY <1>4 DEF NextToken, Raises, ReplyTypeOK
    <3> QED BY <1>4, <2>2, <2>3, <3>1, <3>2 DEF NextToken, ReplyTypeOK
  <2>4. CASE line' # line
    <3>1. Say("patch", "reply", m, tokens[m] + 1) /\ turn' = turn /\ lost' = lost
      BY <1>4, <2>4 DEF NextToken, Raises
    <3>2. line' \in Seq(Intent) /\ LineKinds'
      BY <2>1, <3>1, Spoken
    <3> QED BY <1>4, <2>2, <3>1, <3>2 DEF NextToken, ReplyTypeOK
  <2> QED BY <2>3, <2>4
<1>5. ASSUME NEW m \in UserMessage, StreamEnds(m) PROVE (ReplyTypeOK /\ LineKinds)'
  <2>1. tokens[m] \in 0..MaxTokens
    BY DEF ReplyTypeOK
  <2>2. turn' \in [UserMessage -> {"unsent", "acked", "swapping", "streaming", "ended"}] /\ lost' \in BOOLEAN
    BY <1>5 DEF StreamEnds, Raises, ReplyTypeOK
  <2>3. CASE line' = line
    <3>1. LineKinds'
      BY <2>3 DEF LineKinds
    <3> QED BY <1>5, <2>2, <2>3, <3>1 DEF StreamEnds, ReplyTypeOK
  <2>4. CASE line' # line
    <3>1. Say("patch", "reply", m, tokens[m])
      BY <1>5, <2>4 DEF StreamEnds, Raises
    <3>2. line' \in Seq(Intent) /\ LineKinds'
      BY <2>1, <3>1, Spoken
    <3> QED BY <1>5, <2>2, <3>2 DEF StreamEnds, ReplyTypeOK
  <2> QED BY <2>3, <2>4
<1>6. ASSUME Unlink PROVE (ReplyTypeOK /\ LineKinds)'
  <2>1. line' = <<>> /\ lost' \in BOOLEAN /\ linked' \in BOOLEAN
    BY <1>6 DEF Unlink, ReplyTypeOK
  <2>2. line' \in Seq(Intent) /\ DOMAIN line' = {}
    BY <2>1
  <2> QED BY <1>6, <2>1, <2>2 DEF Unlink, ReplyTypeOK, LineKinds
<1>7. ASSUME Relink PROVE (ReplyTypeOK /\ LineKinds)'
  <2>1. link' \in 1..MaxLinks
    BY <1>0, <1>7 DEF Relink, ReplyTypeOK
  <2> QED BY <1>7, <2>1 DEF Relink, ReplyTypeOK, LineKinds
<1>8. ASSUME NEW i \in DOMAIN balloons, Age(i) PROVE (ReplyTypeOK /\ LineKinds)'
  <2>1. balloons' \in Seq(Balloon) /\ Len(balloons') = Len(balloons)
    BY <1>8, AgeStep
  <2> QED BY <1>8, <2>1 DEF Age, ReplyTypeOK, LineKinds
<1>9. ASSUME UNCHANGED replyVars PROVE (ReplyTypeOK /\ LineKinds)'
  BY <1>9 DEF replyVars, ReplyTypeOK, LineKinds
<1> QED BY <1>1, <1>2, <1>3, <1>4, <1>5, <1>6, <1>7, <1>8, <1>9, TakeType DEF ReplyNext

\* What an intent that is sent adds to the line, part by part.
LEMMA SentParts ==
    ASSUME ReplyTypeOK, StreamParts, NEW x \in Intent, line' = Append(line, x),
           balloons' = balloons, mixed' = mixed
    PROVE  /\ \A m : x.id # "reply" \/ x.of # m =>
                 ReplyIn(line', m) = ReplyIn(line, m) /\ ShowIn(m)' = ShowIn(m)
           /\ \A m : x.kind # "show" => ShowIn(m)' = ShowIn(m)
           /\ \A m : ReplyIn(line, m) = {} => \A i \in ReplyIn(line', m) : i = Len(line) + 1
           /\ \A m : ReplyIn(line', m) # {} =>
                 ReplyIn(line, m) # {} \/ (x.id = "reply" /\ x.of = m)
<1>1. /\ \A i \in DOMAIN line : i \in DOMAIN line' /\ line'[i] = line[i]
      /\ Len(line) + 1 \in DOMAIN line' /\ line'[Len(line) + 1] = x
      /\ \A i \in DOMAIN line' : i \in DOMAIN line \/ i = Len(line) + 1
  BY LineGrows
<1>2. ASSUME NEW m, x.id # "reply" \/ x.of # m
      PROVE  ReplyIn(line', m) = ReplyIn(line, m) /\ ShowIn(m)' = ShowIn(m)
  <2>1. ReplyIn(line', m) = ReplyIn(line, m)
    BY <1>1, <1>2 DEF ReplyIn
  <2>2. \A i \in ReplyIn(line, m) : line'[i] = line[i]
    BY <1>1 DEF ReplyIn
  <2> QED BY <2>1, <2>2 DEF ShowIn
<1>3. ASSUME NEW m, x.kind # "show" PROVE ShowIn(m)' = ShowIn(m)
  BY <1>1, <1>3 DEF ShowIn, ReplyIn
<1>4. ASSUME NEW m, ReplyIn(line, m) = {}, NEW i \in ReplyIn(line', m) PROVE i = Len(line) + 1
  BY <1>1, <1>4 DEF ReplyIn
<1>5. ASSUME NEW m, ReplyIn(line', m) # {}
      PROVE  ReplyIn(line, m) # {} \/ (x.id = "reply" /\ x.of = m)
  BY <1>1, <1>5 DEF ReplyIn
<1> QED BY <1>2, <1>3, <1>4, <1>5

\* Placeholders stay accounted for when no placeholder is sent.
LEMMA AcksStep ==
    ASSUME ReplyTypeOK, AcksLeave, NEW x \in Intent, line' = Append(line, x), balloons' = balloons,
           \/ x.kind = "dismiss"
           \/ /\ \A m \in UserMessage : tokens'[m] > 0 => tokens[m] > 0
              /\ x.kind = "show" /\ x.id = "ack" => ~(tokens'[x.of] > 0)
    PROVE  AcksLeave'
<1>1. /\ \A i \in DOMAIN line : i \in DOMAIN line' /\ line'[i] = line[i] /\ Len(line) + 1 > i
      /\ Len(line) + 1 \in DOMAIN line' /\ line'[Len(line) + 1] = x
      /\ \A i \in DOMAIN line' : i \in DOMAIN line \/ i = Len(line) + 1
  BY LineGrows
<1>2. CASE x.kind = "dismiss"
  BY <1>1, <1>2 DEF AcksLeave
<1>3. CASE /\ x.kind # "dismiss"
           /\ \A m \in UserMessage : tokens'[m] > 0 => tokens[m] > 0
           /\ x.kind = "show" /\ x.id = "ack" => ~(tokens'[x.of] > 0)
  <2> SUFFICES ASSUME NEW m \in UserMessage, tokens'[m] > 0
               PROVE  /\ \A i \in DOMAIN line' :
                            line'[i].kind = "show" /\ line'[i].id = "ack" /\ line'[i].of = m =>
                            \E j \in DOMAIN line' : j > i /\ line'[j].kind = "dismiss"
                      /\ \A i \in DOMAIN balloons : balloons[i].id = "ack" /\ balloons[i].of = m =>
                            \E j \in DOMAIN line' : line'[j].kind = "dismiss"
    BY DEF AcksLeave
  <2>1. /\ \A i \in DOMAIN line : line[i].kind = "show" /\ line[i].id = "ack" /\ line[i].of = m =>
              \E j \in DOMAIN line : j > i /\ line[j].kind = "dismiss"
        /\ \A i \in DOMAIN balloons : balloons[i].id = "ack" /\ balloons[i].of = m =>
              \E j \in DOMAIN line : line[j].kind = "dismiss"
    BY <1>3 DEF AcksLeave
  <2>2. ~(x.kind = "show" /\ x.id = "ack" /\ x.of = m)
    BY <1>3
  <2> QED BY <1>1, <2>1, <2>2
<1> QED BY <1>2, <1>3

\* The last patch stays accounted for when nothing is said of a stream that has ended.
LEMMA LastStep ==
    ASSUME ReplyTypeOK, StreamParts, NEW x \in Intent, line' = Append(line, x),
           balloons' = balloons, mixed' = mixed,
           NEW m \in UserMessage, m \notin mixed, turn[m] = "ended", tokens'[m] = tokens[m],
           x.id = "reply" => x.of # m
    PROVE  /\ \A i \in ReplyIn(line', m) : \E j \in DOMAIN line' : j >= i /\ IsLast(line[j], m)'
           /\ \A i \in ReplyIn(balloons', m) :
                 balloons'[i].got = tokens'[m] \/ \E j \in DOMAIN line' : IsLast(line[j], m)'
<1>1. \A i \in DOMAIN line : i \in DOMAIN line' /\ line'[i] = line[i]
  BY LineGrows
<1>2. ReplyIn(line', m) = ReplyIn(line, m)
  BY SentParts
<1>3. /\ \A i \in ReplyIn(line, m) : \E j \in DOMAIN line : j >= i /\ IsLast(line[j], m)
      /\ \A i \in ReplyIn(balloons, m) :
            balloons[i].got = tokens[m] \/ \E j \in DOMAIN line : IsLast(line[j], m)
  BY DEF StreamParts, LastPatch
<1>4. \A j \in DOMAIN line : IsLast(line[j], m) => j \in DOMAIN line' /\ IsLast(line[j], m)'
  BY <1>1 DEF IsLast
<1> QED BY <1>2, <1>3, <1>4

LEMMA AcknowledgeStep ==
    ASSUME ReplyTypeOK, LineKinds, StreamParts, NEW m \in UserMessage, Acknowledge(m)
    PROVE  StreamParts'
<1>1. 0 \in 0..MaxTokens
  BY ReplyAssumption
<1> DEFINE x == [kind |-> "show", id |-> "ack", of |-> m, got |-> 0]
<1>2. /\ turn[m] = "unsent" /\ turn' = [turn EXCEPT ![m] = "acked"] /\ tokens' = tokens
      /\ balloons' = balloons /\ mixed' = mixed /\ Say("show", "ack", m, 0)
      /\ turn \in [UserMessage -> {"unsent", "acked", "swapping", "streaming", "ended"}]
      /\ tokens \in [UserMessage -> 0..MaxTokens]
  BY DEF Acknowledge, ReplyTypeOK
<1>3. x \in Intent /\ line' = Append(line, x)
  BY <1>1, <1>2, Spoken
<1>4. x.kind = "show" /\ x.id = "ack" /\ x.of = m
  OBVIOUS
<1> HIDE DEF x
<1>5. tokens[m] = 0
  BY <1>2 DEF StreamParts, TokensCome
<1>6. \A n : ReplyIn(line', n) = ReplyIn(line, n) /\ ShowIn(n)' = ShowIn(n)
  BY <1>2, <1>3, <1>4, SentParts
<1>7. TokensCome'
  BY <1>2 DEF StreamParts, TokensCome
<1>8. ReplyBegun'
  BY <1>2, <1>6 DEF StreamParts, ReplyBegun
<1>9. OneBubble'
  BY <1>2, <1>6 DEF StreamParts, OneBubble
<1>10. AcksLeave'
  <2>1. tokens'[x.of] = 0
    BY <1>2, <1>4, <1>5
  <2> QED BY <1>2, <1>3, <1>4, <2>1, AcksStep DEF StreamParts
<1>11. LastPatch'
  <2> SUFFICES ASSUME NEW n \in UserMessage \ mixed', turn'[n] = "ended"
               PROVE  /\ \A i \in ReplyIn(line', n) : \E j \in DOMAIN line' : j >= i /\ IsLast(line[j], n)'
                      /\ \A i \in ReplyIn(balloons', n) :
                            balloons'[i].got = tokens'[n] \/ \E j \in DOMAIN line' : IsLast(line[j], n)'
    BY DEF LastPatch
  <2>1. n \notin mixed /\ turn[n] = "ended" /\ x.id # "reply"
    BY <1>2, <1>4
  <2> QED BY <1>2, <1>3, <2>1, LastStep
<1> QED BY <1>7, <1>8, <1>9, <1>10, <1>11 DEF StreamParts

LEMMA FirstTokenStep ==
    ASSUME ReplyTypeOK, LineKinds, StreamParts, ~lost', NEW m \in UserMessage, FirstToken(m)
    PROVE  StreamParts'
<1>1. 0 \in 0..MaxTokens
  BY ReplyAssumption
<1> DEFINE x == [kind |-> "dismiss", id |-> "ack", of |-> m, got |-> 0]
<1>2. /\ turn[m] = "acked" /\ turn' = [turn EXCEPT ![m] = "swapping"]
      /\ tokens' = [tokens EXCEPT ![m] = 1]
      /\ balloons' = balloons /\ mixed' = mixed /\ Say("dismiss", "ack", m, 0)
      /\ turn \in [UserMessage -> {"unsent", "acked", "swapping", "streaming", "ended"}]
      /\ tokens \in [UserMessage -> 0..MaxTokens]
  BY DEF FirstToken, Raises, ReplyTypeOK
<1>3. x \in Intent /\ line' = Append(line, x)
  BY <1>1, <1>2, Spoken
<1>4. x.kind = "dismiss" /\ x.id = "ack" /\ x.of = m
  OBVIOUS
<1> HIDE DEF x
<1>6. \A n : ReplyIn(line', n) = ReplyIn(line, n) /\ ShowIn(n)' = ShowIn(n)
  BY <1>2, <1>3, <1>4, SentParts
<1>7. TokensCome'
  BY <1>2 DEF StreamParts, TokensCome
<1>8. ReplyBegun'
  BY <1>2, <1>6 DEF StreamParts, ReplyBegun
<1>9. OneBubble'
  BY <1>2, <1>6 DEF StreamParts, OneBubble
<1>10. AcksLeave'
  BY <1>2, <1>3, <1>4, AcksStep DEF StreamParts
<1>11. LastPatch'
  <2> SUFFICES ASSUME NEW n \in UserMessage \ mixed', turn'[n] = "ended"
               PROVE  /\ \A i \in ReplyIn(line', n) : \E j \in DOMAIN line' : j >= i /\ IsLast(line[j], n)'
                      /\ \A i \in ReplyIn(balloons', n) :
                            balloons'[i].got = tokens'[n] \/ \E j \in DOMAIN line' : IsLast(line[j], n)'
    BY DEF LastPatch
  <2>1. n \notin mixed /\ turn[n] = "ended" /\ x.id # "reply" /\ tokens'[n] = tokens[n]
    BY <1>2, <1>4
  <2> QED BY <1>2, <1>3, <2>1, LastStep
<1> QED BY <1>7, <1>8, <1>9, <1>10, <1>11 DEF StreamParts

LEMMA ShowReplyStep ==
    ASSUME ReplyTypeOK, LineKinds, StreamParts, ~lost', NEW m \in UserMessage, ShowReply(m)
    PROVE  StreamParts'
<1>1. tokens[m] \in 0..MaxTokens
  BY DEF ReplyTypeOK
<1> DEFINE x == [kind |-> "show", id |-> "reply", of |-> m, got |-> tokens[m]]
<1>2. /\ turn[m] = "swapping" /\ turn' = [turn EXCEPT ![m] = "streaming"] /\ tokens' = tokens
      /\ balloons' = balloons /\ mixed' = mixed /\ Say("show", "reply", m, tokens[m])
      /\ turn \in [UserMessage -> {"unsent", "acked", "swapping", "streaming", "ended"}]
      /\ tokens \in [UserMessage -> 0..MaxTokens]
  BY DEF ShowReply, Raises, ReplyTypeOK
<1>3. x \in Intent /\ line' = Append(line, x)
  BY <1>1, <1>2, Spoken
<1>4. x.kind = "show" /\ x.id = "reply" /\ x.of = m
  OBVIOUS
<1> HIDE DEF x
<1>5. ReplyIn(line, m) = {} /\ ReplyIn(balloons, m) = {}
  BY <1>2 DEF StreamParts, ReplyBegun
<1>6. \A n : n # m => ReplyIn(line', n) = ReplyIn(line, n) /\ ShowIn(n)' = ShowIn(n)
  BY <1>2, <1>3, <1>4, SentParts
<1>7. TokensCome'
  BY <1>2 DEF StreamParts, TokensCome
<1>8. ReplyBegun'
  BY <1>2, <1>6 DEF StreamParts, ReplyBegun
<1>9. OneBubble'
  <2>1. \A i \in ReplyIn(line', m) : i = Len(line) + 1
    BY <1>2, <1>3, <1>5, SentParts
  <2>2. \A i \in ShowIn(m)' : i \in ReplyIn(line', m)
    BY DEF ShowIn
  <2>3. ASSUME NEW n \in UserMessage \ mixed
        PROVE  /\ \A i, j \in ShowIn(n)' : i = j
               /\ OneReply(balloons, n)
               /\ ShowIn(n)' = {} \/ ReplyIn(balloons, n) = {}
    <3>1. CASE n = m
      BY <1>5, <2>1, <2>2, <3>1 DEF OneReply
    <3>2. CASE n # m
      BY <1>6, <3>2 DEF StreamParts, OneBubble
    <3> QED BY <3>1, <3>2
  <2> QED BY <1>2, <2>3 DEF OneBubble
<1>10. AcksLeave'
  BY <1>2, <1>3, <1>4, AcksStep DEF StreamParts
<1>11. LastPatch'
  <2> SUFFICES ASSUME NEW n \in UserMessage \ mixed', turn'[n] = "ended"
               PROVE  /\ \A i \in ReplyIn(line', n) : \E j \in DOMAIN line' : j >= i /\ IsLast(line[j], n)'
                      /\ \A i \in ReplyIn(balloons', n) :
                            balloons'[i].got = tokens'[n] \/ \E j \in DOMAIN line' : IsLast(line[j], n)'
    BY DEF LastPatch
  <2>1. n \notin mixed /\ turn[n] = "ended" /\ x.of # n
    BY <1>2, <1>4
  <2> QED BY <1>2, <1>3, <2>1, LastStep
<1> QED BY <1>7, <1>8, <1>9, <1>10, <1>11 DEF StreamParts

\* A patch of a reply that is streamed, or its last.
LEMMA PatchSentStep ==
    ASSUME ReplyTypeOK, LineKinds, StreamParts, NEW m \in UserMessage, NEW n \in 0..MaxTokens,
           Say("patch", "reply", m, n), turn[m] = "streaming",
           balloons' = balloons, mixed' = mixed,
           \A k \in UserMessage : k # m => turn'[k] = turn[k] /\ tokens'[k] = tokens[k],
           tokens'[m] = n, n > 0, turn'[m] \in {"streaming", "ended"}
    PROVE  StreamParts'
<1> DEFINE x == [kind |-> "patch", id |-> "reply", of |-> m, got |-> n]
<1>1. x \in Intent /\ line' = Append(line, x)
  BY Spoken
<1>2. x.kind = "patch" /\ x.id = "reply" /\ x.of = m /\ x.got = n
  OBVIOUS
<1> HIDE DEF x
<1>3. /\ tokens[m] > 0
      /\ tokens \in [UserMessage -> 0..MaxTokens]
  BY DEF StreamParts, TokensCome, ReplyTypeOK
<1>4. \A k : ShowIn(k)' = ShowIn(k)
  BY <1>1, <1>2, SentParts
<1>5. TokensCome'
  BY <1>3 DEF StreamParts, TokensCome
<1>6. ReplyBegun'
  <2> SUFFICES ASSUME NEW k \in UserMessage, ReplyIn(line', k) \cup ReplyIn(balloons', k) # {}
               PROVE  turn'[k] \in {"streaming", "ended"}
    BY DEF ReplyBegun
  <2>1. CASE k = m
    BY <2>1
  <2>2. CASE k # m
    <3>1. ReplyIn(line', k) = ReplyIn(line, k)
      BY <1>1, <1>2, <2>2, SentParts
    <3> QED BY <2>2, <3>1 DEF StreamParts, ReplyBegun
  <2> QED BY <2>1, <2>2
<1>7. OneBubble'
  BY <1>4 DEF StreamParts, OneBubble
<1>8. AcksLeave'
  <2>1. \A k \in UserMessage : tokens'[k] > 0 => tokens[k] > 0
    BY <1>3
  <2> QED BY <1>1, <1>2, <2>1, AcksStep DEF StreamParts
<1>9. LastPatch'
  <2> SUFFICES ASSUME NEW k \in UserMessage \ mixed', turn'[k] = "ended"
               PROVE  /\ \A i \in ReplyIn(line', k) : \E j \in DOMAIN line' : j >= i /\ IsLast(line[j], k)'
                      /\ \A i \in ReplyIn(balloons', k) :
                            balloons'[i].got = tokens'[k] \/ \E j \in DOMAIN line' : IsLast(line[j], k)'
    BY DEF LastPatch
  <2>1. CASE k = m
    <3>1. PICK p \in Nat : p = Len(line) + 1
      BY DEF ReplyTypeOK
    <3>2. /\ \A i \in DOMAIN line : p > i /\ i \in Nat
          /\ p \in DOMAIN line' /\ line'[p] = x
          /\ \A i \in DOMAIN line' : i \in DOMAIN line \/ i = p
      BY <1>1, <3>1, LineGrows DEF ReplyTypeOK
    <3>3. IsLast(line[p], k)'
      BY <1>2, <2>1, <3>2 DEF IsLast
    <3>4. \A i \in ReplyIn(line', k) : p >= i
      BY <3>2 DEF ReplyIn
    <3> QED BY <3>2, <3>3, <3>4
  <2>2. CASE k # m
    <3>1. k \notin mixed /\ turn[k] = "ended" /\ tokens'[k] = tokens[k] /\ x.of # k
      BY <1>2, <2>2
    <3> QED BY <1>1, <3>1, LastStep
  <2> QED BY <2>1, <2>2
<1> QED BY <1>5, <1>6, <1>7, <1>8, <1>9 DEF StreamParts

LEMMA NextTokenStep ==
    ASSUME ReplyTypeOK, LineKinds, StreamParts, ~lost', NEW m \in UserMessage, NextToken(m)
    PROVE  StreamParts'
<1>1. /\ turn[m] = "streaming" /\ tokens' = [tokens EXCEPT ![m] = @ + 1] /\ turn' = turn
      /\ balloons' = balloons /\ mixed' = mixed
      /\ line' = line \/ Say("patch", "reply", m, tokens[m] + 1)
      /\ tokens \in [UserMessage -> 0..MaxTokens]
  BY DEF NextToken, Raises, ReplyTypeOK
<1>2. tokens[m] > 0 /\ tokens[m] + 1 \in 0..MaxTokens /\ tokens'[m] = tokens[m] + 1
  BY <1>1, ReplyAssumption DEF NextToken, StreamParts, TokensCome
<1>3. CASE Say("patch", "reply", m, tokens[m] + 1)
  <2>1. \A k \in UserMessage : k # m => turn'[k] = turn[k] /\ tokens'[k] = tokens[k]
    BY <1>1
  <2>2. PICK n \in 0..MaxTokens : n = tokens[m] + 1
    BY <1>2
  <2>3. n > 0 /\ tokens'[m] = n /\ Say("patch", "reply", m, n) /\ turn'[m] = "streaming"
    BY <1>1, <1>2, <1>3, <2>2
  <2> QED BY <1>1, <2>1, <2>3, PatchSentStep
<1>4. CASE line' = line
  <2>1. TokensCome'
    BY <1>1, <1>2 DEF StreamParts, TokensCome
  <2>2. ReplyBegun' /\ OneBubble'
    BY <1>1, <1>4 DEF StreamParts, ReplyBegun, OneBubble, ShowIn
  <2>3. \A k \in UserMessage : tokens'[k] > 0 => tokens[k] > 0
    BY <1>1, <1>2
  <2>4. AcksLeave'
    BY <1>1, <1>4, <2>3 DEF StreamParts, AcksLeave
  <2>5. LastPatch'
    <3>1. \A k \in UserMessage : turn[k] = "ended" => tokens'[k] = tokens[k]
      BY <1>1
    <3> QED BY <1>1, <1>4, <3>1 DEF StreamParts, LastPatch, IsLast
  <2> QED BY <2>1, <2>2, <2>4, <2>5 DEF StreamParts
<1> QED BY <1>1, <1>3, <1>4

LEMMA StreamEndsStep ==
    ASSUME ReplyTypeOK, LineKinds, StreamParts, ~lost', NEW m \in UserMessage, StreamEnds(m)
    PROVE  StreamParts'
<1>1. /\ turn' = [turn EXCEPT ![m] = "ended"] /\ tokens' = tokens
      /\ balloons' = balloons /\ mixed' = mixed
      /\ \/ turn[m] = "acked" /\ line' = line
         \/ turn[m] = "streaming" /\ Say("patch", "reply", m, tokens[m])
      /\ tokens \in [UserMessage -> 0..MaxTokens]
      /\ turn \in [UserMessage -> {"unsent", "acked", "swapping", "streaming", "ended"}]
  BY DEF StreamEnds, Raises, ReplyTypeOK
<1>2. CASE turn[m] = "streaming" /\ Say("patch", "reply", m, tokens[m])
  <2>1. \A k \in UserMessage : k # m => turn'[k] = turn[k] /\ tokens'[k] = tokens[k]
    BY <1>1
  <2>2. tokens[m] > 0
    BY <1>2 DEF StreamParts, TokensCome
  <2>3. PICK n \in 0..MaxTokens : n = tokens[m]
    BY <1>1
  <2>4. n > 0 /\ tokens'[m] = n /\ Say("patch", "reply", m, n) /\ turn'[m] = "ended"
    BY <1>1, <1>2, <2>2, <2>3
  <2> QED BY <1>1, <1>2, <2>1, <2>4, PatchSentStep
<1>3. CASE turn[m] = "acked" /\ line' = line
  <2>1. ReplyIn(line, m) = {} /\ ReplyIn(balloons, m) = {}
    BY <1>3 DEF StreamParts, ReplyBegun
  <2>2. \A k \in UserMessage : k # m => turn'[k] = turn[k]
    BY <1>1
  <2>3. TokensCome'
    BY <1>1 DEF StreamParts, TokensCome
  <2>4. ReplyBegun'
    BY <1>1, <1>3, <2>1, <2>2 DEF StreamParts, ReplyBegun
  <2>5. OneBubble' /\ AcksLeave'
    BY <1>1, <1>3 DEF StreamParts, OneBubble, ShowIn, AcksLeave
  <2>6. LastPatch'
    BY <1>1, <1>3, <2>1, <2>2 DEF StreamParts, LastPatch, IsLast
  <2> QED BY <2>3, <2>4, <2>5, <2>6 DEF StreamParts
<1> QED BY <1>1, <1>2, <1>3

LEMMA AgedParts ==
    ASSUME ReplyTypeOK, StreamParts, NEW i \in DOMAIN balloons, Age(i)
    PROVE  StreamParts'
<1>1. /\ DOMAIN balloons' = DOMAIN balloons
      /\ \A j \in DOMAIN balloons : /\ balloons'[j].id = balloons[j].id
                                    /\ balloons'[j].of = balloons[j].of
                                    /\ balloons'[j].got = balloons[j].got
  BY AgeStep
<1>2. turn' = turn /\ tokens' = tokens /\ line' = line /\ mixed' = mixed
  BY DEF Age
<1>3. \A m : ReplyIn(balloons', m) = ReplyIn(balloons, m) /\ ShowIn(m)' = ShowIn(m)
  BY <1>1, <1>2 DEF ReplyIn, ShowIn
<1>4. \A m : OneReply(balloons', m) = OneReply(balloons, m)
  BY <1>3 DEF OneReply
<1>5. TokensCome' /\ ReplyBegun'
  BY <1>2, <1>3 DEF StreamParts, TokensCome, ReplyBegun
<1>6. OneBubble'
  BY <1>2, <1>3, <1>4 DEF StreamParts, OneBubble
<1>7. AcksLeave'
  BY <1>1, <1>2 DEF StreamParts, AcksLeave
<1>8. LastPatch'
  <2>1. \A m : \A j \in ReplyIn(balloons, m) : balloons'[j].got = balloons[j].got
    BY <1>1 DEF ReplyIn
  <2> QED BY <1>2, <1>3, <2>1 DEF StreamParts, LastPatch, IsLast
<1> QED BY <1>5, <1>6, <1>7, <1>8 DEF StreamParts

LEMMA StreamStep ==
    ASSUME StreamInv, [ReplyNext]_replyVars
    PROVE  StreamInv'
<1>1. ReplyTypeOK /\ LineKinds /\ (ReplyTypeOK /\ LineKinds)'
  BY ReplyTypeStep DEF StreamInv
<1> SUFFICES ASSUME ~lost' PROVE StreamParts'
  BY <1>1 DEF StreamInv
<1>2. ~lost
  <2>1. lost \in BOOLEAN
    BY <1>1 DEF ReplyTypeOK
  <2>2. CASE \E m \in UserMessage : Acknowledge(m) \/ FirstToken(m) \/ ShowReply(m)
    BY <2>2 DEF Acknowledge, FirstToken, ShowReply, Raises
  <2>3. CASE \E m \in UserMessage : NextToken(m) \/ StreamEnds(m)
    BY <2>3 DEF NextToken, StreamEnds, Raises
  <2>4. CASE Unlink \/ Relink \/ TakeIntent \/ \E i \in DOMAIN balloons : Age(i)
    BY <2>4 DEF Unlink, Relink, TakeIntent, Age
  <2>5. CASE UNCHANGED replyVars
    BY <2>5 DEF replyVars
  <2> QED BY <2>2, <2>3, <2>4, <2>5 DEF ReplyNext
<1>3. StreamParts
  BY <1>2 DEF StreamInv
<1>4. ASSUME turn' = turn, tokens' = tokens, line' = line, balloons' = balloons, mixed' = mixed
      PROVE  StreamParts'
  BY <1>3, <1>4 DEF StreamParts, TokensCome, ReplyBegun, OneBubble, ShowIn, AcksLeave, LastPatch, IsLast
<1>5. CASE Unlink
  BY <1>4, <1>5 DEF Unlink
<1>6. CASE Relink \/ UNCHANGED replyVars
  BY <1>4, <1>6 DEF Relink, replyVars
<1>7. CASE TakeIntent
  BY <1>1, <1>3, <1>7, TakeStep
<1>8. CASE \E i \in DOMAIN balloons : Age(i)
  BY <1>1, <1>3, <1>8, AgedParts
<1>9. CASE \E m \in UserMessage : Acknowledge(m) \/ FirstToken(m) \/ ShowReply(m)
  BY <1>1, <1>3, <1>9, AcknowledgeStep, FirstTokenStep, ShowReplyStep
<1>10. CASE \E m \in UserMessage : NextToken(m) \/ StreamEnds(m)
  BY <1>1, <1>3, <1>10, NextTokenStep, StreamEndsStep
<1> QED BY <1>5, <1>6, <1>7, <1>8, <1>9, <1>10 DEF ReplyNext

LEMMA StreamStart ==
    ASSUME ReplyInit
    PROVE  StreamInv
<1>1. ReplyTypeOK /\ LineKinds
  BY ReplyTypeStart
<1>2. /\ DOMAIN line = {} /\ DOMAIN balloons = {}
      /\ \A m \in UserMessage : turn[m] = "unsent" /\ tokens[m] = 0
  BY DEF ReplyInit
<1>3. \A m : ReplyIn(line, m) = {} /\ ReplyIn(balloons, m) = {} /\ ShowIn(m) = {}
  BY <1>2 DEF ReplyIn, ShowIn
<1>4. StreamParts
  BY <1>2, <1>3 DEF StreamParts, TokensCome, ReplyBegun, OneBubble, OneReply, AcksLeave, LastPatch
<1> QED BY <1>1, <1>4 DEF StreamInv

LEMMA StreamInvariant == ReplySpec => []StreamInv
<1>1. StreamInv /\ [ReplyNext]_replyVars => StreamInv'
  BY StreamStep
<1>2. ReplyInit => StreamInv
  BY StreamStart
<1> QED BY <1>1, <1>2, PTL DEF ReplySpec

\* For any messages, tokens and connections, the line holds intents, and the queue
\* bubbles, never more of them than its size (ChatReplyStreamer, BubbleQueue).
THEOREM ReplyTypeCorrect == ReplySpec => []ReplyTypeOK
<1>1. StreamInv => ReplyTypeOK
  BY DEF StreamInv
<1> QED BY <1>1, StreamInvariant, PTL

\* When nothing is under way and nothing was lost, every message has left on the client
\* its placeholder, if no token came, or its whole reply, unless that met another's;
\* for any number of messages, tokens and connections and any size of the queue.
THEOREM StreamsSettle == ReplySpec => []RepliesSettle
<1>1. StreamInv => RepliesSettle
  <2> SUFFICES ASSUME StreamInv, Settled, ~lost, NEW b \in ToSet(balloons)
               PROVE  \/ b.id = "ack" /\ tokens[b.of] = 0
                      \/ b.id = "reply" /\ (b.got = tokens[b.of] \/ b.of \in mixed)
    BY DEF RepliesSettle
  <2>1. PICK i \in DOMAIN balloons : b = balloons[i]
    BY DEF ToSet
  <2>2. /\ b \in Balloon /\ StreamParts /\ DOMAIN line = {}
        /\ tokens \in [UserMessage -> 0..MaxTokens]
        /\ turn \in [UserMessage -> {"unsent", "acked", "swapping", "streaming", "ended"}]
    BY <2>1 DEF StreamInv, ReplyTypeOK, Settled
  <2>3. b.of \in UserMessage /\ b.id \in {"ack", "reply"} /\ tokens[b.of] \in 0..MaxTokens
    BY <2>2 DEF Balloon
  <2>4. CASE b.id = "ack"
    <3>1. ~(tokens[b.of] > 0)
      BY <2>1, <2>2, <2>3, <2>4 DEF StreamParts, AcksLeave
    <3> QED BY <2>3, <2>4, <3>1
  <2>5. CASE b.id = "reply"
    <3>1. i \in ReplyIn(balloons, b.of)
      BY <2>1, <2>5 DEF ReplyIn
    <3>2. turn[b.of] = "ended"
      BY <2>2, <2>3, <3>1 DEF StreamParts, ReplyBegun, Settled, UnderWay
    <3> QED BY <2>1, <2>2, <2>3, <2>5, <3>1, <3>2 DEF StreamParts, LastPatch
  <2> QED BY <2>3, <2>4, <2>5
<1> QED BY <1>1, StreamInvariant, PTL
=============================================================================
