\* A map with every kind of region, and more memory than the bitmap and the
\* kernel window cover.
CONSTANTS
    BitmapRows   = 5
    AhciMem      = 16
    PhysFree     = 1054720
    Regions     <- Map
    EndOfMemory  = 1200000
    MapLimit     = 1310720
    KernelTables = 2
SPECIFICATION Spec
INVARIANTS
    NoDoubleAllocation
    NoFrameLost
    AllocatableIsMapped
PROPERTY ImplementsFrameAllocator
\* The kernel stops for good when it runs out of memory.
CHECK_DEADLOCK FALSE
