------------------------------ MODULE BubbleQueue ------------------------------
(***************************************************************************)
(* What Core/BubbleQueue keeps of its entries when some of them go.  An    *)
(* entry is a record with the id of its bubble and whether its time is     *)
(* over; entries are in insertion order.  ApprovalSurface and ReplyStream  *)
(* share these operators, each with records of its own.                    *)
(*                                                                         *)
(* What is kept is taken by position and not with SelectSeq, whose         *)
(* recursive definition has no facts a proof could use.                    *)
(***************************************************************************)
EXTENDS Naturals, Sequences, FiniteSets

\* The n-th of the positions I, a set of naturals.
Nth(I, n) == CHOOSE i \in I : Cardinality({j \in I : j <= i}) = n

\* The entries of q at the positions I, in their order.
EntriesAt(q, I) == [n \in 1..Cardinality(I) |-> q[Nth(I, n)]]

\* The positions of the entries with an id.
With(q, id) == {i \in DOMAIN q : q[i].id = id}

\* prune: entries whose ttl has elapsed go.
Unexpired(q) == EntriesAt(q, {i \in DOMAIN q : ~q[i].expired})

\* remove: every entry with the id goes.
RemoveId(q, id) == EntriesAt(q, DOMAIN q \ With(q, id))
=============================================================================
