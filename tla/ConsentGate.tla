------------------------------ MODULE ConsentGate ------------------------------
(***************************************************************************)
(* What the agent promises of an action it gates behind the user: it asks  *)
(* first, one answer counts, only an Allow releases the action, and the    *)
(* action is released once.  ApprovalFlow implements it.                   *)
(***************************************************************************)
CONSTANT Id     \* gated actions

VARIABLE gate   \* Id -> where the action stands

Gate == {"unasked", "asked", "withdrawn", "allowed", "denied", "done"}

GateInit == gate = [i \in Id |-> "unasked"]

Ask(i) ==
    /\ gate[i] = "unasked"
    /\ gate' = [gate EXCEPT ![i] = "asked"]

Answer(i) ==
    /\ gate[i] = "asked"
    /\ \E answer \in {"allowed", "denied"} : gate' = [gate EXCEPT ![i] = answer]

Release(i) ==
    /\ gate[i] = "allowed"
    /\ gate' = [gate EXCEPT ![i] = "done"]

\* Questions nobody answered are forgotten, all of them at once.
Withdraw ==
    gate' = [i \in Id |-> IF gate[i] = "asked" THEN "withdrawn" ELSE gate[i]]

GateNext == Withdraw \/ \E i \in Id : Ask(i) \/ Answer(i) \/ Release(i)

GateSpec == GateInit /\ [][GateNext]_gate
=============================================================================
