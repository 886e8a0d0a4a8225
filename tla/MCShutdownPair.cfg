SPECIFICATION FairSpec
CONSTANTS
    Servers = {main, redirect}
    HasCancel = TRUE
    SenderDrops = FALSE
    Grace = 1
    MaxSends = 1
    MaxConns = 1
PROPERTIES CancelStops
