SPECIFICATION FairSpec
CONSTANTS
    coordinator = coordinator
    inbox = inbox
    Checkers = {coordinator, inbox}
    FilterOf <- MCFilterOf
    Dispatches = {d1}
    NoDispatch = NoDispatch
    MaxMessages = 2
    MaxEnters = 2
INVARIANTS
    TypeOK
    NoLostWakeup
    NothingConsumedUnseen
    NoZombieHeartbeat
    DeliveredWasShown
PROPERTIES
    AnswerReachesAsk
    NoReplay
    SentIsPushed
