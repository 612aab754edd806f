SPECIFICATION FairSpec
CONSTANTS
    Threads = {t1, t2, t3}
    MaxMessages = 3
    MaxTmo = 2
    Forever = Forever
INVARIANTS
    TypeOK
    NoLostWakeup
    Fifo
PROPERTIES
    WaitersServed
    WaitReturns
