\* Ctrl-C at any time.
CONSTANTS
    t1 = t1
    t2 = t2
    t3 = t3
    t4 = t4
    NULL = NULL
    Task <- FourTasks
    sbush = t1
    UnknownCommands = TRUE
    WaitPids = {}
    Point = {0, 1}
    KeysHitForeground = FALSE
SPECIFICATION Spec
SYMMETRY OthersOfFour
INVARIANT ResumesWhereItWas
