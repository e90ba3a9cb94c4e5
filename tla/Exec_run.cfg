CONSTANTS
    Shell = shell
    Proc = {shell, a, b}
    PATH = PATH
    PWD = PWD
    PS1 = PS1
    Name = {PATH, PWD, PS1}
    Value <- Values
    Initial <- ShellVariables
    None = None
    ValueLimit = 1
    Slots = 5
    Covered = 3
    ShellCovered = 4
    MaxEntries = 6
    Frame = {0, 1, 2, 3, 4, 5}
    PageSize = 3
    HeaderSize = 2
    File <- Files
    ArgLimit = 4
    ArgumentBuffer = 6
    LineBuffer = 16
    Lines <- Commands
SPECIFICATION ExecSpec
INVARIANTS ImagesAreIntact ArgumentsArrive
PROPERTY ImplementsDictionary
SYMMETRY Symmetry
