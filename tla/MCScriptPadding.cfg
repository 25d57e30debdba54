SPECIFICATION Spec
CONSTANTS
    Sources <- Scripts
    Raws <- Lines
    Results <- Texts
    Casts <- Broadcasts
    BufSize = 4
    RecvSize = 5
    MaxLines = 1
    MaxCasts = 0
INVARIANT RunsSource
CHECK_DEADLOCK FALSE
