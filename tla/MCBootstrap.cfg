SPECIFICATION FairSpec
CONSTANTS
    Gateways = {g1, g2}
    Docs <- MCDocs
    ValidDocs <- MCValid
    SoundDocs <- MCSound
    EmptyDocs <- MCEmpty
    Configs <- MCConfigs
    None = None
    Torn = Torn
INVARIANTS TypeOK RulesAuthentic FreshAnswerWins SnapshotSound
PROPERTIES StartupSettles
