\* A metadata read that continues after its torrent was removed.
SPECIFICATION Spec
CONSTANTS
    Tasks = {"t1", "t2"}
    Reader = "reader"
    Ids = {"a"}
    Layouts = {"small"}
    None = "none"
    Ops = {"add", "remove", "metadata"}
    MaxCalls = 3
INVARIANTS
    GeometryIsCurrent
\* After a shutdown, or when the client makes no more calls, nothing happens.
CHECK_DEADLOCK FALSE
