SPECIFICATION Spec
CONSTANT MaxDrawings = 4
INVARIANTS
    NoShellOverGraphics
    ChangeFlagged
PROPERTIES
    TextShown
    KandinskyShown
