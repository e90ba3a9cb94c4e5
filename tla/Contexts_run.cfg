\* Switches, restarts and alarms, with Ctrl-C in the slices of the foreground process.
CONSTANTS
    t1 = t1
    t2 = t2
    t3 = t3
    t4 = t4
    NULL = NULL
    Task <- ThreeTasks
    sbush = t1
    UnknownCommands = TRUE
    WaitPids = {}
    Point = {0, 1}
    KeysHitForeground = TRUE
SPECIFICATION Spec
SYMMETRY OthersOfThree
INVARIANTS
    ResumesWhereItWas
    StackIsBounded
