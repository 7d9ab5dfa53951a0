SPECIFICATION OpenSpec
CONSTANTS
    Names = {orders, cache}
    Tenants = {acme, globex}
    Targets = {pg}
    None = None
    OperatorTables <- MCTables
    BoxSelections <- MCSelections
    Ceilings <- MCCeilings
INVARIANTS
    OnlyAuthorisedEndpoints
    ExistenceNeverLeaks
    StatementTimeoutCapped
