\* Two accounts, two phones of the first, one pairing call.
CONSTANTS
    a1 = a1
    a2 = a2
    d1 = d1
    d2 = d2
    c1 = c1
    NoAccount = NoAccount
    NoDevice = NoDevice
    Accounts = {a1, a2}
    Devices = {d1, d2}
    AccountOf <- PhonesOfOneAccount
    Calls = {c1}
    MaxAttempts = 3
    MaxMutations = 1
    MaxRestarts = 1
SPECIFICATION FairSpec
INVARIANTS TypeOK OneBroker BrokerFollowsAccount RevokedByOwner
PROPERTIES RevocationIsTried UnwantedBrokerCloses
CHECK_DEADLOCK FALSE
