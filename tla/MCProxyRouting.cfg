SPECIFICATION Spec
CONSTANTS
    Defs <- MCDefs
    MaxDefs = 2
    Paths <- MCPaths
    Hosts = {"h1", "h2"}
    None = None
    Failed = Failed
INVARIANTS ProxiedIffCovered DeepestCatchAllWins FirstDefinitionWins TargetBelowBase
