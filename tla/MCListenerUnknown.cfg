SPECIFICATION Spec
CONSTANTS
    None = None
    NoFile = NoFile
    Number <- MCNumber
    BufferSize = 16
    Messages <- MCMessages
    ConfigOf <- MCConfigOf
    Stored = {"s1"}
    MaxBacklog = 1
    MaxKills = 0
INVARIANT NoCommandIsUnknown
