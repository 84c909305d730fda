CONSTANTS
    MaxUpdates = 3
    MaxDeaths = 1
    MaxErrors = 2
    Limit = 2

SPECIFICATION FairSpec

INVARIANTS
    TypeOK
    NoStaleFlood
    NoLossOnceSynced

PROPERTIES
    ImplementsInbox
    CommandIsAnswered
