\* Files and directories of a shell and the programs it starts.
CONSTANTS
    t1 = t1
    t2 = t2
    t3 = t3
    Task <- ThreeTasks
    sbush = t1
    Block = 2
    Archive <- SmallArchive
    Table = {1, 2}
    Pages = 2
    PerPage = 2
    LastReserved = 0
    OpenPaths <- Files
    DirPaths <- Directories
    ChdirPaths <- Places
    Counts = {4}
    Commands <- Programs
    SearchPaths <- PATHs
    Leftovers <- Stacks
SPECIFICATION Spec
SYMMETRY Others
INVARIANTS
    DescriptorsStay
    ReadsStayInside
    ListingIsExact
    PathsResolve
PROPERTY NoneIsGivenTwice
\* Everything stops when the pages and structures run out.
CHECK_DEADLOCK FALSE
