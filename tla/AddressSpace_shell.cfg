\* The programs under bin/: the shell forks, its children call exec.
CONSTANTS
    t1 = t1
    t2 = t2
    t3 = t3
    Task <- ThreeTasks
    sbush = t1
    Frame = {11, 12, 13, 14, 15}
    Page = {2, 4, 6}
    PageSize = 2
    Value = {0, 1}
    ImageValue = 1
    FirstAreas <- First
    ExecAreas <- Executed
    LoadedPages = {2}
    StackPage = 6
    MallocSizes = {2}
    Allocators = {t1}
    MaxAreas = 5
    HeapLimit = 12
    KernelBuffers = {6}
    OnlyShellForks = TRUE
SPECIFICATION Spec
SYMMETRY Others
INVARIANTS
    NoFreeFrameMapped
    WritableIsExclusive
PROPERTY ImplementsPrivateMemory
\* Everything stops when memory or the structures run out.
CHECK_DEADLOCK FALSE
