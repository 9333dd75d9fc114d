SPECIFICATION PartsSpec
CONSTANTS
    Event = {e1, e2}
    Wanted = {e1}
    MaxRuns = 3
    MaxEdits = 1
    Sender = {s1, s2, s3}
    Flusher = {f1, f2}
    Timer = timer
    MaxEnvelopes = 5
    Ide = {x, y}
    Away = away
    Level = {0, 3}
    Dwell = 1
    Grace = 1
    MinKept = 1
    Gap = 1
    Cooldown = 2
    Quota = 2
    Day = 7
    MaxTime = 12
    MaxShifts = 1
    MaxLosses = 1
    Registration = {m1, m2}
    MaxJoins = 2
    Errand = {t1, t2, t3}
    Limit = 3
    StaleAfter = 1
    Rest = 3
    MaxTouches = 1
    MaxMisses = 1
    Build = {b1, b2}
    NoBuild = nobuild
    Ttl = 1
    MaxReports = 5
    MaxUnsent = 1
    MaxClients = 9
    MaxStarts = 2
    MaxCrashes = 3
    MaxMessages = 2
    MaxTokens = 2
    MaxLinks = 2
    QueueSize = 2
\* The bounded parts come to an end.
CHECK_DEADLOCK FALSE
INVARIANTS
    UserFeatureKept
    PillFollowsUser
    NudgesAreRare
    StoresOutliveWatchers
    RegisteredIsShown
    RepliesSettle
PROPERTIES
    UserHooksKept
    EveryEnvelopeIsHanded
    SessionsEndInTheEditor
    SignalEndsAgent
    StaleTaskIsNudged
    FinishedBuildLeaves
    RunningClientConnects
