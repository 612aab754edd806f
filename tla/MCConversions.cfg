SPECIFICATION MCSpec
CONSTANTS
    Number <- MCNumber
    BufferSize = 9
    Symbols = {"NL", "TCP_SET_CFG", "TCP_SET_VOLUME", "END", "1", "-5", "-6"}
    MaxLen = 7
    Bytes = {0, 1}
    FileBlock = 4
    MaxSize = 9
INVARIANTS
    ParsesWhatIsMeant
    NothingValidIsCutShort
    PairsReversed
    RoundTrip
CHECK_DEADLOCK FALSE
