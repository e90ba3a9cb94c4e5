\* Any program forks and ends as it likes.
CONSTANTS
    t1 = t1
    t2 = t2
    t3 = t3
    Task <- ThreeTasks
    sbush = t1
    Frame = {11, 12, 13, 14, 15, 16, 17}
    Page = {1, 4, 6}
    PageSize = 2
    Value = {0, 1}
    ImageValue = 1
    FirstAreas <- First
    ExecAreas <- Executed
    LoadedPages = {1}
    StackPage = 6
    MallocSizes = {2}
    Allocators = {t1}
    MaxAreas = 5
    HeapLimit = 12
    KernelBuffers = {6}
    OnlyShellForks = FALSE
SPECIFICATION Spec
SYMMETRY Others
INVARIANT NoFreeFrameMapped
\* Everything stops when memory or the structures run out.
CHECK_DEADLOCK FALSE
