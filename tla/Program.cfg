SPECIFICATION ProgramSpec
CONSTANTS
    TMU = {0, 1}
    ETMU = {2, 3}
    RoundMs = 2
    Timeouts <- MCTimeouts
    MaxFd = 4
    Names = {"a", "b"}
    Objects = {1, 2}
INVARIANTS
    ShellTimerRuns
    RoundHasTimer
    GetkeyWaits
    AccessesOwnFile
PROPERTIES
    FileGivesBack
    GetkeyEnds
