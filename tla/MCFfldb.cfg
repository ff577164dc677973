CONSTANTS
    key = key
    v1 = v1
    v2 = v2
    b1 = b1
    b2 = b2
    b3 = b3
    Keys = {key}
    Values = {v1, v2}
    Blocks = {b1, b2, b3}
    Cursor = Cursor
    Absent = Absent
    Size <- MCSize
    Garbage = Garbage
    NoFile = NoFile
    NoReader = NoReader
    MaxBlockFileSize = 3
    PruneTarget = 3
    MaxFileNum = 2
    Scripts <- MCScripts
    Plans <- MCPlans
SPECIFICATION Spec
CHECK_DEADLOCK FALSE
INVARIANT Intact
PROPERTY Implements
