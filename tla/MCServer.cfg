SPECIFICATION ServerSpec
CONSTANTS
    Clients = {c1, c2}
    Local = Local
    Fds = {1, 2}
    MaxLines = 1
    MaxOps = 3
    None = None
INVARIANTS
    ListedOpen RepliesHome OwnConnection NeverTerminates
    LinesWhole PrintsResult
PROPERTIES StopReturns LinesRun
CHECK_DEADLOCK FALSE
