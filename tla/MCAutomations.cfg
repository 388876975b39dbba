\* Two automations; occurrence 1 is missed at time 2.
CONSTANTS
    p1 = p1
    p2 = p2
    Autos = {1, 2}
    Created <- TwoOnAServer
    Passes = {p1, p2}
    Occurrences = {1}
    Grace = 0
    Retained = 0
    MaxTime = 2
    MaxRuns = 4
    MaxManual = 1
    MaxCrashes = 1
SPECIFICATION FairSpec
INVARIANTS TypeOK LaunchedOnce LiveRunKept
PROPERTIES DueIsEvaluated
CHECK_DEADLOCK FALSE
