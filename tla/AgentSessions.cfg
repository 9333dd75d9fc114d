SPECIFICATION FairSpec
CONSTANTS
    c = c
    u = u
    t = t
    a = a
    x = x
    k = k
    p = p
    ClaudeSession = {c}
    CursorSession = {u}
    Thread = {t}
    AiderRow = {a}
    CodexRow = {x}
    KiroRow = {k}
    KiroSpec = {p}
    Setups <- MCSetups
    Hooks = {"SessionStart", "UserPromptSubmit", "PreToolUse", "Stop", "JumpTarget"}
    Statuses = {"active", "active_approval", "idle"}
    Entries = {"summary", "text", "ask", "risky_tool", "result", "end_turn"}
    MaxAge = 2
    StaleTtl = 2
    SeenTtl = 1
    SilentAge = 2
    LiveAge = 0
    AiderIdle = 1
    KiroIdle = 1
    CrashLimit = 2
    MaxMoves = 2
    MaxExits = 1
INVARIANTS
    HooksInOrder
PROPERTIES
    HooksAreHandled
    PassiveKeepsWait
    SilentSessionEnds
    RowsFollowProcesses
