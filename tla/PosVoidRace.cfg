CONSTANTS
    Captures = {c1}
    PosRuns = {r1, r2}
SPECIFICATION PosSpec
PROPERTIES PosReversedSkipped
CHECK_DEADLOCK FALSE
