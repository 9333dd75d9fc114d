------------------------------ MODULE ChatTurnMC ------------------------------
(***************************************************************************)
(* Five kits for TLC: plain tools, the profile, a tool that may time out   *)
(* and be called again, the task list beside the command line, and two     *)
(* commands on it at once; two handlers share each.                        *)
(* KitLong is one conversation long enough to fill the request's window.   *)
(***************************************************************************)
EXTENDS ChatTurn

CONSTANTS a, b, job, cli

Kit(tools, commands, stored, bounds) ==
    [tools |-> tools, commands |-> commands, stored |-> stored, rounds |-> bounds[1], calls |-> bounds[2],
     turns |-> bounds[3], cli |-> bounds[4], crashes |-> bounds[5], faults |-> bounds[6]]
Plain == Kit({"read", "raise", "broken"}, {}, {NoTask}, <<2, 2, 1, 0, 1, 1>>)
Memory == Kit({"remember", "forget"}, {}, {NoTask}, <<1, 1, 2, 0, 1, 1>>)
Again == Kit({"remember"}, {}, {NoTask}, <<2, 1, 1, 0, 0, 1>>)
Work == {"create", "start", "pause", "advance", "steps", "update"}
TaskTools == Kit({"steps", "update"}, Work, Stored, <<1, 1, 1, 1, 1, 0>>)
TaskCommands == Kit({}, Work, Stored, <<1, 1, 2, 0, 0, 0>>)
MCKits == {Plain, Memory, Again, TaskTools, TaskCommands}
MCPlan == {<<"pending", "pending">>, <<"in_progress", "pending">>}
KitLong == {Kit({"read"}, {}, {NoTask}, <<1, 1, 3, 0, 0, 0>>)}
=============================================================================
