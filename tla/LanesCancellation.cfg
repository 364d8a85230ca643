\* A cancellation between begin() and the native wait.
SPECIFICATION Spec
CONSTANTS
    Tasks = {"t1"}
    Reader = "reader"
    Ids = {"a"}
    Layouts = {"small"}
    None = "none"
    Ops = {"add", "checkpoint"}
    MaxCalls = 2
INVARIANTS
    NoLostCancellation
\* After a shutdown, or when the client makes no more calls, nothing happens.
CHECK_DEADLOCK FALSE
