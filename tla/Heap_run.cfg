\* Up to three areas of three sizes, and about two commands of up to three words.
CONSTANTS
    FirstAreas <- First
    ExecAreas  <- Executed
    Sizes       = {1, 2, 3}
    CommandSize = 5
    LineSize    = 3
    CharSize    = 1
    ArgsSize    = 4
    TokenSizes  = {1, 2}
    MaxTokens   = 3
    MaxHeld     = 3
    Limit       = 28
SPECIFICATION Spec
INVARIANTS
    AreasAreApart
    NothingInUseIsLost
CHECK_DEADLOCK FALSE
