SPECIFICATION Spec
CONSTANTS
    Sources = 2
    Dwell <- MCDwell
    MaxBytes <- MCBytes
    MaxRead = 2
    None = None
CHECK_DEADLOCK FALSE
PROPERTIES InOrder
