SPECIFICATION Spec
CONSTANTS
    Canvases = {plane}
    Console = console
    Bad = bad
    MaxRegs = 3
    PixRoom = 2
    WireRoom = 1
    MaxDeaths = 1
INVARIANTS CanvasMirrored AnswerOnItsWay NothingInherited VsyncOnce
PROPERTIES XregHonest
