\* Two processes and short seconds: every order of calls and ticks.
CONSTANTS
    N = 2
    TicksPerSecond = 3
    TicksPerSlice = 2
    Seconds = {0, 1, 2}
SPECIFICATION FairSpec
INVARIANTS
    AlarmHasHandler
    SliceIsBounded
PROPERTIES
    WakeUpsCome
    NoneWakesEarly
