----------------------------- MODULE AgentSessionsMC -----------------------------
(***************************************************************************)
(* Machines with one source of sessions each, for TLC: what two sources do *)
(* meets only in the steps they share.                                     *)
(***************************************************************************)
EXTENDS AgentSessions

CONSTANTS c, u, t, a, x, k, p

MCSetups == {{c}, {u}, {t}, {a}, {x}, {k, p}}
=============================================================================
