CONSTANTS
    Broadcast <- MCBroadcast
    Damages = {"zero", "one"}
    Burst = 2
SPECIFICATION Spec
INVARIANTS
    CleanMinuteDecodes
    DateIsRight
    TimeOnlyOnTheMinute
CHECK_DEADLOCK FALSE
