SPECIFICATION Spec
CONSTANTS
    MaxFiles = 3
    MaxLines = 2
    MaxClock = 4
    MaxLogged = 5
    MaxFaults = 2
INVARIANTS
    TypeOK
    FilesBounded
    CountIsLines
    OldestGoFirst
PROPERTIES
    RemovesOnlyExcess
