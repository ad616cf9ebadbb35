SPECIFICATION Spec
CONSTANTS
    Width = 4
    Slots = 4
    Sources <- MCSources
    Lengths = {2, 6}
    MaxRows = 3
    MaxPast = 3
    Heights = {2, 3}
    Controls <- MCControls
    MaxOps = 3
    Openings <- MCOpenings
    Prompts <- MCPrompts
    Past <- MCPast
    Keys = {"a", "bs", "^b", "^k", "^p", "cr", "lf"}
    MaxKeys <- MCKeys
INVARIANTS ScreenKept EditShown LinesAsTyped
CHECK_DEADLOCK FALSE
