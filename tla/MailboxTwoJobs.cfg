\* Two identifiers share the list: entries of one torrent separate the runs of
\* the other, errors of both texts meet in one run, and admission is at its limit.
\* A consumer that keeps reading gets everything once the errors stop.
SPECIFICATION FairSpec
CONSTANTS
    Ids = {"a", "b"}
    MaxJobs = 2
    ErrorJson = {"recoverable", "completionFailed"}
    OneShotJson = {"completed"}
    KindOf <- MCKindOf
    StatusJson = {"s1"}
    NoStatus = "none"
    MaxRun = 2
    MaxEntries = 4
PROPERTIES
    ImplementsEventQueue
    EventuallyReceived
