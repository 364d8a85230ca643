\* One torrent: the whole reservation of nine entries is used, and its
\* identifier is reused once the removed torrent is drained.
SPECIFICATION Spec
CONSTANTS
    Ids = {"a"}
    MaxJobs = 1
    ErrorJson = {"recoverable", "completionFailed"}
    OneShotJson <- MCOneShotJson
    KindOf <- MCKindOf
    StatusJson = {"s1"}
    NoStatus = "none"
    MaxRun = 2
    MaxEntries = 10
INVARIANTS
    TypeOK
    Inv
    CriticalBounded
    LastErrorNotDangling
    NoStatusAfterTerminal
    ForgottenWhenDrained
