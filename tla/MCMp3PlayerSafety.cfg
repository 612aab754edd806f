SPECIFICATION Spec
CONSTANTS
    Clients = {c1, c2}
    Files = {f1}
    ThreadIds = {t1, t2}
    Volumes <- MCVolumes
    MaxLoops = 2
    None = None
    AutoStopper = AutoStopper
SYMMETRY Symmetry
INVARIANTS
    TypeOK
    ThreadOnlyInPlayState
    HandleLivesWhileDecoding
    StoppedHoldsNoStream
    CrashOnlyInLoop
    VolumeInEffect
PROPERTIES
    PlayReplyTellsState
    ImplementsAtomicPlayer
