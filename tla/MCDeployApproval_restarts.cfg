CONSTANTS
    Ids = {d1}
    MaxInFlight = 3
    MayBeOff = {"deploy-approvals", "execution-runs"}
    None = None
    MaxRestarts = 2
SPECIFICATION Spec
INVARIANTS
    TypeOK
    InOrderPutsSettle
    OnlyDisturbedStoresLose
    OneDecision
    DeploysOnce
    VersionsAreAccountedFor
PROPERTIES
    DeploymentsAreAnswered
CHECK_DEADLOCK FALSE
