SPECIFICATION Spec
CONSTANTS
    Ids <- MCIds
    Unset = 8
    Cams <- MCCams
    Gid = "001"
    Uid = "002"
    Word = "abc"
    Repeats = 3
    Invalid = 9
    Span = 2
    Rels <- MCRels
    StartLag = 2
    MaxCmds = 4
INVARIANT CameraKnowsFocus
PROPERTY FocusSettles
CHECK_DEADLOCK FALSE
