SPECIFICATION FairSpec
CONSTANTS
    Conns = {c1, c2, c3}
    Rules = {r1}
    NumTargets = 2
    Targets <- MCTargets
    CounterSize = 5
    MaxTunnels = 2
INVARIANTS TypeOK PermitsAccounted TunnelBound EvenSpread
PROPERTIES RefusedOnlyWhenFull ImplementsTunnelLimit PermitReturned
