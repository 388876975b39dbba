SPECIFICATION Spec
CONSTANTS
    Tasks = {t1, t2}
    h1 = h1
    h2 = h2
    h3 = h3
    tab1 = tab1
    tab2 = tab2
    other = other
    Handles <- MCHandles
    PaneKeys <- MCPaneKeys
    NoPane = NoPane
    NoLeaf = NoLeaf
    LeafOf <- MCLeafOf
    KeysOf <- MCKeysOf
    OverrideTo <- MCOverrideTo
    MaxDispatches = 2
    MaxGates = 1
    MaxFailures = 3
SYMMETRY TaskSymmetry
INVARIANTS
    TypeOK
    OneDispatchPerTerminal
    DispatchedHasWorker
PROPERTIES
    PromotionFollowsDeps
    ReportEndsItsOwnDispatch
    ImplementsLease
