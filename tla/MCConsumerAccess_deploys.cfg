CONSTANTS
    d1 = d1
    d2 = d2
    p1 = p1
    u1 = u1
    u2 = u2
    r1 = r1
    r2 = r2
    Deploys <- MCDeploys
    Pipelines = {p1}
    PipelineOf <- MCPipelineOf
    Breaks <- MCBreaks
    None = None
    Users = {u1, u2}
    Requests = {r1, r2}
    By <- MCBy
    For <- MCFor
    Claims = {d2}
    MaxClock = 1
    MaxTokens = 1
SPECIFICATION Spec
INVARIANTS
    TypeOK
    TrustIsOfTheManifest
    RefusedLeavesNothing
    GrantsAreRecorded
    DecisionsReachTheirRequest
    TokensAreEarned
PROPERTIES
    SchemaEvolvesAsAllowed
CHECK_DEADLOCK FALSE
