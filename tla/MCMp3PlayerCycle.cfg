SPECIFICATION Spec
CONSTANTS
    Clients = {c1}
    Files = {f1}
    ThreadIds = {t1, t2}
    Volumes <- MCVolumes
    MaxLoops = 1
    None = None
    AutoStopper = AutoStopper
INVARIANT NoCvCycle
