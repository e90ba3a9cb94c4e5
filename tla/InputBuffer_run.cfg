\* Every line that fits before the buffer wraps, in pieces of one character, on a screen
\* of five short rows.
CONSTANTS
    Size = 5
    Letter = {}
    Modifier = {"rightShift", "control"}
    CommandLimit = 0
    TypedLimit = 4
    Width = 2
    Rows = 5
    Slack = 16
    Output <- Texts
    Warning <- None
    FirstRows = {3}
    PrintLimit = 1
SPECIFICATION Spec
INVARIANTS
    TypeOK
    NoStuckModifier
    BarsAreKept
    EchoIsLine
PROPERTIES
    ImplementsTerminal
    ImplementsPaper
