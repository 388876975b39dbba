SPECIFICATION Spec
CONSTANTS
    coordinator = coordinator
    inbox = inbox
    Checkers = {coordinator, inbox}
    FilterOf <- MCFilterOf
    Dispatches = {d1}
    NoDispatch = NoDispatch
    MaxMessages = 2
    MaxEnters = 2
PROPERTY PushedOnce
