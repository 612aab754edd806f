SPECIFICATION FairSpec
CONSTANTS
    Clients = {c1}
    Files = {f1}
    ThreadIds = {t1, t2}
    Volumes <- MCVolumes
    MaxLoops = 2
    None = None
    AutoStopper = AutoStopper
PROPERTY LostIsStopped
