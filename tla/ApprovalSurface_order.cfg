CONSTANTS
    demoApproval = demo
    sug = sug
    chat = chat
    Approval = {demo, sug}
    Demo = demo
    Chat = {chat}
    RankOf <- Ranks
    MaxActive = 2
    MaxAsks <- OnceOrTwice
    MaxChats = 1
    MaxDrops = 1

SPECIFICATION FairSpec

INVARIANT BubblesFollowStore
INVARIANT UrgentBubbleIsShown

\* Asks and connections are bounded, and a client need not come back.
CHECK_DEADLOCK FALSE
