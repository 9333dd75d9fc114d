SPECIFICATION ReminderFairSpec
CONSTANTS
    Reminder = {r1, r2, demo}
    Demo = demo
    MaxClock = 2
    MaxDemos = 1
    MaxClicks = 1
INVARIANTS
    FiresOncePerAdd
PROPERTIES
    DueReminderFires
