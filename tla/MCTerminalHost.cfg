SPECIFICATION FairSpec
CONSTANTS
    Clients = {c1, c2}
    Calls = {k1, k2}
    NoClient = NoClient
    MaxGenerations = 2
    MaxWrites = 3
    MaxRefusals = 2
INVARIANTS
    TypeOK
    InputInOrder
    QueueHasFlusher
    OwnedChild
    KillKeepsPromise
PROPERTIES
    NeverAttachDoomed
    InputIsPipe
    KillIsAnswered
    TerminationEnds
CHECK_DEADLOCK FALSE
