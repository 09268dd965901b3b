SPECIFICATION RenderSpec
CONSTANTS
    Lengths = {0, 1, 2}
    MaxLines = 3
    RenderWidths = {1, 2}
    Heights = {2, 3}
INVARIANTS
    RowsInPlace
CHECK_DEADLOCK FALSE
