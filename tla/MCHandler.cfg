SPECIFICATION Spec
CONSTANTS
    k1 = k1
    c1 = c1
    c2 = c2
    Conns = {k1}
    Calls = {c1, c2}
    ConnOf <- MCConnOf
    Configs <- MCConfigs
    Requests <- MCRequests
    Uris <- MCUris
    HealthUris = {"/health"}
    MetricsUris = {"/metrics"}
    RedirectRule <- MCRedirect
    RewriteRule <- MCRewrite
    Routed <- MCRouted
    CustomHeaders <- MCCustom
    MaxDrops = 2
INVARIANTS TypeOK GuardedEffects UpstreamUri VaryKept CorsGranted Gauges
