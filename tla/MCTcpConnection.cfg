SPECIFICATION FairSpec
CONSTANTS
    Clients = {c1, c2}
    None = None
    BufferSize = 2
    Backlog = 1
    MaxSize = 3
INVARIANTS
    TypeOK
    ReplyIsOwn
    OpenIsHeld
PROPERTIES
    Answered
