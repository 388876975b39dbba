SPECIFICATION Spec
CONSTANTS
    t1 = t1
    t2 = t2
    h1 = h1
    h2 = h2
    Tasks = {t1}
    Handles = {h1, h2}
    PaneKeys <- NoPaneKeys
    NoPane = NoPane
    NoLeaf = NoLeaf
    LeafOf <- NoLeaves
    PaneOf <- NoPanes
    Loops = {l1}
    NoLoop = NoLoop
    DepsOf <- Independent
    Limits = {1}
    MaxDispatches = 3
    MaxReports = 0
    MaxMishaps = 0
SYMMETRY HandleSymmetry
INVARIANT CircuitNeedsThreeFailures
CHECK_DEADLOCK FALSE
