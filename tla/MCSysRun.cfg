SPECIFICATION FairSpec
CONSTANT N = 3
INVARIANTS
    CpuNeedsEveryDriver
    HooksAlternate
    BreakFindsMachineDown
PROPERTIES
    RaisedOnlyWhileRunning
    StopAndBreakPerformed
    ImplementsContract
