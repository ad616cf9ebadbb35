SPECIFICATION FairSpec
CONSTANTS
    Fds = {f1, f2}
    Descs = {d1}
    XramSize = 2
    Chunk = 1
    MaxCount = 2
    MaxLine = 1
    None = None
INVARIANTS NothingLeftBehind NoLeakedFile
PROPERTIES ForwardsRead Answered
