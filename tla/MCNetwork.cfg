SPECIFICATION FairSpec
CONSTANTS
    Pcbs = {1, 2}
    PoolSize = 2
    Depth = 2
    WifiRetries = 1
    NtpRetries = 1
    Clock = "ntp"
    Phones <- MCPhones
    Ports = {"none", "p1"}
    Console = "con"
    RxSize = 2
    Casts <- MCCasts
    Lines <- MCLines
    Settings <- MCSettings
    Wants = {"none", "pc", "pd"}
    MaxDials = 2
    Counts = {0, 1, 2}
INVARIANTS PcbOwned DialsTheNumber LineAgrees ConsoleSession
PROPERTIES DataKept EscapeNeedsSilence CallsEnd
