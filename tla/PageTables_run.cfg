\* Two structures, and pages for two complete processes and a third one.
CONSTANTS
    FrameCount  = 14
    None        = None
    Frame      <- Numbers
    Index      <- Slots
    KernelSlot <- Kernel
    Boot       <- Kernels
    BootPath   <- Path
    Window     <- Identity
    Space       = {s1, s2}
    Page       <- Pages
    StackPage  <- Stack
SPECIFICATION Spec
INVARIANTS
    WalksStayInTables
    TablesAreExclusive
    ProgramsReachOnlyData
    KernelHalfIsCommon
PROPERTY ImplementsPageMapping
CHECK_DEADLOCK FALSE
