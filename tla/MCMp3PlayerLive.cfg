SPECIFICATION FairSpec
CONSTANTS
    Clients = {c1}
    Files = {f1}
    ThreadIds = {t1, t2}
    Volumes <- FewVolumes
    MaxLoops = 2
    None = None
    AutoStopper = AutoStopper
INVARIANT
    AutoStopsFinishedOrReused
PROPERTIES
    CallReturns
    FinishedIsCleared
