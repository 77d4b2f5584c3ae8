SPECIFICATION FairSpec
CONSTANTS
    Unset = Unset
    Environments <- MCEnvironments
    Conns = {c1, c2}
    MaxSignals = 2
    MaxOutages = 1
    MaxRequests = 2
INVARIANTS ExitIsOrderly NobodyIsCutOff
PROPERTIES KilledForCause ShutdownEnds RequestsEnd
CHECK_DEADLOCK FALSE
