SPECIFICATION FairSpec
CONSTANTS
    Servers = {main, redirect}
    HasCancel = TRUE
    SenderDrops = TRUE
    Grace = 1
    MaxSends = 1
    MaxConns = 1
INVARIANTS TypeOK NoRequestCutOff OnlyOnDemand
PROPERTIES SignalStops LostSenderStops
