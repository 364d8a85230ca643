\* Two client threads and two files: the selection, the wanted pieces and the window change
\* while alerts, checkpoints and the completion are under way, or metadata arrives late, has
\* no room for the selection, or has unsafe paths.
SPECIFICATION Spec
CONSTANTS
    Ids = {"a"}
    MaxJobs = 1
    ErrorJson <- MCErrorJson
    OneShotJson <- MCOneShotJson
    StatusJson = {"statusChanged"}
    NoStatus = "none"
    Callers = {"c1", "c2"}
    Reader = "reader"
    N = 2
    Selections <- WholeOrBeyond
    AddRequests <- AnySource
    MaxHandles = 1
    MaxAlerts = 1
    MaxFaults = 0
    MaxWakes = 0
INVARIANTS
    TypeOK
    ActiveHasCaller
    NoLostWakeup
PROPERTIES
    CompletedIsFenced
    StoppedIsFinal
