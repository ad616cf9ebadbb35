SPECIFICATION FairSpec
CONSTANTS
    Pairs <- MCPairs
    Opts = {"BINARY", "ECHO", "SGA", "TTYPE", "NAWS"}
    Rooms = {3, 7, 24}
    Bytes = {"x", "cr", "lf", "nul", "iac"}
    MaxBytes = 3
    MaxBuf = 3
    Early = FALSE
INVARIANTS Agreement DataIntact
PROPERTIES NegotiationEnds
