CONSTANTS
    MaxUpdates = 2
    MaxDeaths = 0
    MaxErrors = 0
    Limit = 2

SPECIFICATION Spec

INVARIANT
    LeftOffAfterFirstPoll
