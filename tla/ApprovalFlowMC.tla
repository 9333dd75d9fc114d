---------------------------- MODULE ApprovalFlowMC ----------------------------
\* An instance of ApprovalFlow: a gated computer action, a suggestion, the demo
\* approval, and hooked approvals of one session.
EXTENDS ApprovalFlow

CONSTANTS p1, p2, s1

Askers == [a \in Approval |-> IF a \in {p1, p2} THEN s1 ELSE NoSession]

\* Bound: a behaviour asks either hooked approvals, as often as MaxAsks says, or
\* the others, once each.  The two kinds share the store and the handlers, but no
\* property relates one of them to the other.
OneKind ==
    \/ \A a \in Approval \ Hooked : asks[a] = 0
    \/ /\ \A a \in Hooked : asks[a] = 0
       /\ \A a \in Approval : asks[a] <= 1
=============================================================================
