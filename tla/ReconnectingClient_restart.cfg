SPECIFICATION ClientSpec
CONSTANTS
    MaxClients = 9
    MaxStarts = 2
    MaxCrashes = 3
\* The wrapper rests when nothing is left to do.
CHECK_DEADLOCK FALSE
INVARIANT
    OneLinkAlways
