SPECIFICATION Spec
CONSTANTS
    Defs <- MCDefs
    MaxDefs = 1
    Paths <- MCPaths
    Hosts = {"h1", "h2"}
    None = None
    Failed = Failed
INVARIANTS FewerWildcardsFirst
