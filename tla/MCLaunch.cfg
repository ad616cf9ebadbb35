SPECIFICATION Spec
CONSTANTS
    a = a
    b = b
    None = None
    Programs = {a, b}
    Packed = {a}
    Image <- MCImage
    TapsOverLoads = FALSE
    TypesOverTaps = FALSE
    Scenes <- MCScenes
INVARIANTS TransferWhileStopped RunsItsImage
PROPERTIES BreakEndsChain
