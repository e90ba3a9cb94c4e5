\* Every call and interrupt, with commands that exist and commands that do not.
CONSTANTS
    t1 = t1
    t2 = t2
    t3 = t3
    t4 = t4
    NULL = NULL
    Task <- FourTasks
    sbush = t1
    UnknownCommands = TRUE
    WaitPids <- SomeWaits
SPECIFICATION FairSpec
INVARIANTS
    QueuesAreSound
    PidsAreUnique
PROPERTIES
    PidsAreNotReused
    ImplementsRoundRobin
    WaitIsSound
    WaiterGoesOn
