SPECIFICATION FairSpec
CONSTANTS
    t1 = t1
    t2 = t2
    h1 = h1
    h2 = h2
    Tasks = {t1, t2}
    Handles = {h1}
    PaneKeys <- NoPaneKeys
    NoPane = NoPane
    NoLeaf = NoLeaf
    LeafOf <- NoLeaves
    PaneOf <- NoPanes
    Loops = {l1}
    NoLoop = NoLoop
    DepsOf <- Chain
    Limits = {1}
    MaxDispatches = 7
    MaxReports = 1
    MaxMishaps = 0
INVARIANT CircuitHolds
PROPERTY Converges
CHECK_DEADLOCK FALSE
