\* An alert for a torrent that is being released.
SPECIFICATION Spec
CONSTANTS
    Ids = {"a"}
    MaxJobs = 1
    ErrorJson <- MCErrorJson
    OneShotJson <- MCOneShotJson
    StatusJson = {"statusChanged"}
    NoStatus = "none"
    Callers = {"c1"}
    Reader = "reader"
    N = 1
    Selections <- OneFile
    AddRequests <- TorrentFile
    MaxHandles = 1
    MaxAlerts = 2
    MaxFaults = 2
    MaxWakes = 1
INVARIANT
    ExceptionsAreCaught
