SPECIFICATION FairSpec
CONSTANTS
    None = None
    NoFile = NoFile
    Number <- MCNumber
    BufferSize = 16
    Messages <- MCMessages
    ConfigOf <- MCConfigOf
    Stored = {"s1"}
    MaxBacklog = 1
    MaxKills = 1
INVARIANTS
    TypeOK
    OkMeansWritten
    NoSocketLeaked
    ReplyShowsOutcome
    OnlyCommandsThrow
    RebootIsLast
PROPERTIES
    RunsTheCommandSent
    ConfigFileOnlyBySetCfg
    ServesAgain
    StopIsSeen
    RebootHappens
