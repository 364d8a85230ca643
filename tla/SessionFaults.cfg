\* One client thread, as the Swift lane has it, two faults of the engine or the disk.
SPECIFICATION Spec
CONSTANTS
    Ids = {"a"}
    MaxJobs = 1
    ErrorJson <- MCErrorJson
    OneShotJson <- MCOneShotJson
    StatusJson = {"statusChanged"}
    NoStatus = "none"
    Callers = {"c1"}
    Reader = "reader"
    N = 1
    Selections <- OneFile
    AddRequests <- TorrentFile
    MaxHandles = 1
    MaxAlerts = 2
    MaxFaults = 2
    MaxWakes = 1
INVARIANTS
    OneRequestAtATime
    FlushCoversRequest
    CompletionHasOwner
    NoLostWakeup
    Inv
PROPERTIES
    CompletedIsFenced
