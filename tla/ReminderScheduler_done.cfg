SPECIFICATION ReminderFairSpec
CONSTANTS
    Reminder = {r1, demo}
    Demo = demo
    MaxClock = 1
    MaxDemos = 1
    MaxClicks = 1
PROPERTIES
    DoneDismissesBubble
