\* A selected piece is made unwanted, the torrent completes, and the piece is wanted again.
SPECIFICATION FairSpec
CONSTANTS
    Ids = {"a"}
    MaxJobs = 1
    ErrorJson <- MCErrorJson
    OneShotJson <- MCOneShotJson
    StatusJson = {"statusChanged"}
    NoStatus = "none"
    Callers = {"c1"}
    Reader = "reader"
    N = 2
    Selections <- OneFile
    AddRequests <- WholeTorrent
    MaxHandles = 1
    MaxAlerts = 2
    MaxFaults = 0
    MaxWakes = 0
PROPERTY
    CompletedIsDurable
