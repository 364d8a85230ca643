\* A torrent is removed and its identifier reused while alerts of the old handle wait;
\* the completion of either ends, whatever checkpoints were pending or timed out.
SPECIFICATION FairSpec
CONSTANTS
    Ids = {"a"}
    MaxJobs = 1
    ErrorJson <- MCErrorJson
    OneShotJson <- MCOneShotJson
    StatusJson = {"statusChanged"}
    NoStatus = "none"
    Callers = {"c1"}
    Reader = "reader"
    N = 1
    Selections = {}
    AddRequests <- Restored
    MaxHandles = 2
    MaxAlerts = 1
    MaxFaults = 1
    MaxWakes = 0
INVARIANTS
    MailboxMirrorsJobs
    OneRequestAtATime
PROPERTIES
    CompletionEnds
