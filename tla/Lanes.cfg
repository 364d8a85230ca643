\* A client task, the event reader and a shutdown, with cancellations at any point:
\* nobody is inside the freed bridge, the tables agree, and every call and the shutdown
\* end, through the timeouts if need be.
SPECIFICATION FairSpec
CONSTANTS
    Tasks = {"t1"}
    Reader = "reader"
    Ids = {"a"}
    Layouts = {"small"}
    None = "none"
    Ops = {"add", "remove", "metadata", "window", "start", "status"}
    MaxCalls = 3
INVARIANTS
    TypeOK
    NoUseAfterFree
    MutationOutcome
    TablesReconciled
    Inv
PROPERTIES
    EveryCallReturns
    ShutdownEnds
\* After a shutdown, or when the client makes no more calls, nothing happens.
CHECK_DEADLOCK FALSE
