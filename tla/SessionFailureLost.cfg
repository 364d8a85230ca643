\* An unread engine error and then a completion that fails.
SPECIFICATION FairSpec
CONSTANTS
    Ids = {"a"}
    MaxJobs = 1
    ErrorJson <- MCErrorJson
    OneShotJson <- MCOneShotJson
    StatusJson = {"statusChanged"}
    NoStatus = "none"
    Callers = {"c1"}
    Reader = "reader"
    N = 1
    Selections <- OneFile
    AddRequests <- TorrentFile
    MaxHandles = 1
    MaxAlerts = 2
    MaxFaults = 2
    MaxWakes = 1
PROPERTY
    FailureEmitsCompletionFailed
