SPECIFICATION Spec
CONSTANTS
    Gateways = {g1, g2}
    Docs <- MCDocs
    ValidDocs <- MCValid
    SoundDocs <- MCSound
    EmptyDocs <- MCEmpty
    Configs <- MCPoisoned
    None = None
    Torn = Torn
INVARIANTS CacheThenFileFallsBack
