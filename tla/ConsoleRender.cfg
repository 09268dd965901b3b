SPECIFICATION RenderSpec
CONSTANTS
    Lengths = {1, 2, 3, 5}
    MaxLines = 4
    RenderWidths = {1, 2, 3}
    Heights = {1, 3, 4}
INVARIANTS
    WindowDrawn
    CursorDrawn
CHECK_DEADLOCK FALSE
