SPECIFICATION Spec
CONSTANTS
    t1 = t1
    t2 = t2
    h1 = h1
    h2 = h2
    Tasks = {t1, t2}
    Handles = {h1, h2}
    PaneKeys <- NoPaneKeys
    NoPane = NoPane
    NoLeaf = NoLeaf
    LeafOf <- NoLeaves
    PaneOf <- NoPanes
    Loops = {l1, l2}
    NoLoop = NoLoop
    DepsOf <- Independent
    Limits = {1}
    MaxDispatches = 3
    MaxReports = 0
    MaxMishaps = 1
SYMMETRY HandleSymmetry
INVARIANT OneCoordinator
CHECK_DEADLOCK FALSE
