--------------------------- MODULE ApprovalSurfaceMC ---------------------------
\* Instances of ApprovalSurface: the demo's approval is P0 and may be asked again,
\* as a hooked one may; a suggestion is P1 and asked once; chat is P2.
EXTENDS ApprovalSurface

CONSTANTS demoApproval, sug, chat

Ranks == [b \in Approval \cup Chat |->
             IF b = demoApproval THEN 0 ELSE IF b = sug THEN 1 ELSE 2]

OnceOrTwice == [a \in Approval |-> IF a = sug THEN 1 ELSE 2]

Once == [a \in Approval |-> 1]
=============================================================================
